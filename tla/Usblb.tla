------------------------------- MODULE Usblb -------------------------------
(***************************************************************************)
(* One bus of usblb/: a virtual host controller whose root hub has one     *)
(* port, a virtual device controller, and the glue that carries transfers  *)
(* from one to the other in a timer.  The kernel is a uniprocessor build:  *)
(* what holds the bus lock runs to its end, and code that is called back   *)
(* under the lock may take it again.  (On a multiprocessor the first       *)
(* connect event deadlocks, see usblb_host_hub_status_data.)               *)
(***************************************************************************)
EXTENDS Integers, Sequences, SequencesExt

CONSTANTS
    Urb,          \* the host's URBs
    Control,      \* those of them for endpoint 0; the others are for endpoint 1
    MaxQueued,  \* most requests that the gadget driver queues on an endpoint
    MaxEvents   \* how often the port is powered on or off, pulled up or down, or reset: a
                \* bound for model checking

ASSUME UsblbAssumption ==
    Control \subseteq Urb /\ MaxQueued \in Nat \ {0} /\ MaxEvents \in Nat

VARIABLES
    queue,      \* host.urb_queue
    owed,       \* history: how often each URB was submitted and not given back
    requests,   \* the length of each gadget endpoint's request list
    status,     \* the flags set in port1_status.wPortStatus
    change,     \* the flags set in port1_status.wPortChange
    ends,       \* connected_ends, an u8
    reports,    \* history: how many more times each end reported that it was connected
                \* than that it was not
    hub,        \* the hub driver: "idle", or "look" once it has cleared a change
    seen,       \* the connection as the hub driver saw it last
    driver,     \* gadget->driver: "none", "bound", or "stale" when it has gone
    pulled,     \* is the pullup on?
    timer,      \* is transfer_timer armed?
    pos,        \* 0, or the node that the transfer timer is at, or PassEnd
    passed,     \* history: the URBs that this run of the timer has come by or given back
    resetting,  \* is reset_timer armed?
    teardown,   \* "no", and what usblb_bus_cleanup has done: "inactive",
                \* "stopped", "drained", "gone"
    events,     \* how many events there were
    busOops     \* "none", or what was used after it was freed

port == <<status, change, ends, reports>>
walk == <<pos, passed>>
busVars == <<queue, owed, requests, port, hub, seen, driver, pulled, timer, walk,
          resetting, teardown, events, busOops>>

PassEnd == -1
Ep     == {0, 1}
EpOf(u) == IF u \in Control THEN 0 ELSE 1
active == teardown = "no"     \* transfer_active

BusInit ==
    /\ queue = << >> /\ owed = [u \in Urb |-> 0]
    /\ requests = [e \in Ep |-> 0]
    /\ status = {} /\ change = {} /\ ends = 0 /\ reports = [host |-> 0, gadget |-> 0]
    /\ hub = "idle" /\ seen = FALSE
    /\ driver = "none" /\ pulled = FALSE
    /\ timer = TRUE /\ pos = 0 /\ passed = {}
    /\ resetting = FALSE
    /\ teardown = "no"
    /\ events = 0
    /\ busOops = "none"

\* Nobody is in the transfer timer, so the processor runs something else.
Free == pos = 0
Event == events < MaxEvents /\ events' = events + 1

-----------------------------------------------------------------------------
(* Connection events, usblb_glue.c.                                        *)

\* Mutant of Connect: the port change is not reported.
ConnectSilent(flags, end) ==
    /\ ends' = (ends + 1) % 256 /\ reports' = [reports EXCEPT ![end] = @ + 1]
    /\ status' = IF ends' = 2 THEN flags \union {"connection"} ELSE flags
    /\ UNCHANGED change

\* USBLB_E_CONNECT: the bus is connected when two are, which need not be its two ends.
Connect(flags, end) ==
    /\ ends' = (ends + 1) % 256 /\ reports' = [reports EXCEPT ![end] = @ + 1]
    /\ IF ends' = 2
       THEN /\ status' = flags \union {"connection"}
            /\ change' = change \union {"connection"}
       ELSE status' = flags /\ UNCHANGED change

\* USBLB_E_DISCONNECT.
Disconnect(flags, end) ==
    /\ ends' = (ends - 1) % 256 /\ reports' = [reports EXCEPT ![end] = @ - 1]
    /\ IF ends = 2
       THEN /\ status' = flags \ {"connection", "enable"}
            /\ change' = change \union {"connection"}
       ELSE status' = flags /\ UNCHANGED change

-----------------------------------------------------------------------------
(* The hub driver, through hub_control.                                    *)

\* SetPortFeature(POWER) and ClearPortFeature(POWER), whatever the port's power is.
PowerOn ==
    /\ Free /\ teardown # "gone" /\ Event
    /\ Connect(status \union {"power"}, "host")
    /\ UNCHANGED <<queue, owed, requests, hub, seen, driver, pulled, timer, walk, resetting,
                   teardown, busOops>>

PowerOff ==
    /\ Free /\ teardown # "gone" /\ Event
    /\ Disconnect(status \ {"power"}, "host")
    /\ UNCHANGED <<queue, owed, requests, hub, seen, driver, pulled, timer, walk, resetting,
                   teardown, busOops>>

\* The hub driver clears a change that hub_status_data told it of ...
ClearChange(feature) ==
    /\ Free /\ teardown # "gone" /\ hub = "idle" /\ feature \in change
    /\ change' = change \ {feature}
    /\ hub' = IF feature = "connection" THEN "look" ELSE hub
    /\ UNCHANGED <<queue, owed, requests, status, ends, reports, seen, driver, pulled, timer, walk,
                   resetting, teardown, events, busOops>>

\* ... and then reads the status.
GetPortStatus ==
    /\ Free /\ teardown # "gone" /\ hub = "look"
    /\ hub' = "idle"
    /\ seen' = ("connection" \in status)
    /\ UNCHANGED <<queue, owed, requests, port, driver, pulled, timer, walk, resetting,
                   teardown, events, busOops>>

PortReset ==
    /\ Free /\ teardown # "gone" /\ hub = "idle" /\ seen /\ "reset" \notin status /\ Event
    /\ status' = (status \union {"reset"}) \ {"enable"}
    /\ resetting' = TRUE
    /\ UNCHANGED <<queue, owed, requests, change, ends, reports, hub, seen, driver, pulled,
                   timer, walk, teardown, busOops>>

\* usblb_glue_finish_reset: nobody has deleted the timer.
FinishReset ==
    /\ Free /\ resetting
    /\ resetting' = FALSE
    /\ IF teardown = "gone"
       THEN busOops' = "bus" /\ UNCHANGED <<status, change>>
       ELSE /\ change' = change \union {"enable", "reset"}
            /\ status' = (status \union {"enable"}) \ {"reset"}
            /\ UNCHANGED busOops
    /\ UNCHANGED <<queue, owed, requests, ends, reports, hub, seen, driver, pulled, timer, walk,
                   teardown, events>>

-----------------------------------------------------------------------------
(* The gadget's side.                                                      *)

Start ==
    /\ Free /\ teardown # "gone" /\ driver # "bound"
    /\ driver' = "bound"
    /\ UNCHANGED <<queue, owed, requests, port, hub, seen, pulled, timer, walk, resetting,
                   teardown, events, busOops>>

\* usblb_gadget_stop leaves gadget->driver as it is; a driver that goes has
\* taken its requests back.
Stop ==
    /\ Free /\ driver = "bound" /\ ~pulled /\ requests = [e \in Ep |-> 0]
    /\ driver' = "stale"
    /\ UNCHANGED <<queue, owed, requests, port, hub, seen, pulled, timer, walk, resetting,
                   teardown, events, busOops>>

\* usblb_gadget_pullup, for the UDC core or a user's soft_connect: any number of times
\* on end, as long as a driver is bound.
PullUp ==
    /\ Free /\ teardown # "gone" /\ driver = "bound" /\ Event
    /\ pulled' = TRUE
    /\ Connect(status, "gadget")
    /\ UNCHANGED <<queue, owed, requests, hub, seen, driver, timer, walk, resetting,
                   teardown, busOops>>

PullDown ==
    /\ Free /\ teardown # "gone" /\ driver = "bound" /\ Event
    /\ pulled' = FALSE
    /\ Disconnect(status, "gadget")
    /\ UNCHANGED <<queue, owed, requests, hub, seen, driver, timer, walk, resetting,
                   teardown, busOops>>

\* usblb_gadget_queue.
GadgetQueue(e) ==
    /\ Free /\ driver = "bound" /\ active /\ requests[e] < MaxQueued
    /\ requests' = [requests EXCEPT ![e] = @ + 1]
    /\ UNCHANGED <<queue, owed, port, hub, seen, driver, pulled, timer, walk, resetting,
                   teardown, events, busOops>>

\* usblb_gadget_dequeue.
Dequeue(e) ==
    /\ Free /\ requests[e] > 0
    /\ requests' = [requests EXCEPT ![e] = @ - 1]
    /\ UNCHANGED <<queue, owed, port, hub, seen, driver, pulled, timer, walk, resetting,
                   teardown, events, busOops>>

-----------------------------------------------------------------------------
(* URBs.                                                                   *)

\* Mutant of UrbDequeue: the URB is given back and its node stays queued.
UrbDequeueKeeps(u) ==
    /\ Free /\ teardown # "gone" /\ owed[u] > 0
    /\ owed' = [owed EXCEPT ![u] = @ - 1]
    /\ UNCHANGED <<queue, requests, port, hub, seen, driver, pulled, timer, walk, resetting,
                   teardown, events, busOops>>

\* usblb_host_urb_enqueue, for a host that believes that a device is there; it
\* is refused once the bus is being torn down.
UrbEnqueue(u) ==
    /\ Free /\ teardown # "gone" /\ seen /\ owed[u] = 0
    /\ active
    /\ queue' = Append(queue, u)
    /\ owed' = [owed EXCEPT ![u] = @ + 1]
    /\ UNCHANGED <<requests, port, hub, seen, driver, pulled, timer, walk, resetting,
                   teardown, events, busOops>>

\* usblb_host_urb_dequeue: the URB's node leaves the queue.
UrbDequeue(u) ==
    /\ Free /\ teardown # "gone" /\ owed[u] > 0
    /\ queue' = RemoveAt(queue, CHOOSE i \in DOMAIN queue : queue[i] = u)
    /\ owed' = [owed EXCEPT ![u] = @ - 1]
    /\ UNCHANGED <<requests, port, hub, seen, driver, pulled, timer, walk, resetting,
                   teardown, events, busOops>>

-----------------------------------------------------------------------------
(* usblb_glue_transfer_timer_func: one step for each node of the queue.    *)

TransferBegin ==
    /\ Free /\ timer
    /\ timer' = FALSE
    /\ pos' = IF queue = << >> THEN PassEnd ELSE 1
    /\ UNCHANGED <<passed, queue, owed, requests, port, hub, seen, driver, pulled, resetting,
                   teardown, events, busOops>>

\* The iterator has read the next node before it comes to this one's body.
Onward(removed) ==
    pos' = CASE pos = Len(queue) -> PassEnd [] pos # Len(queue) /\ removed -> pos
             [] OTHER -> pos + 1

\* The URB goes back to its driver, whose completion handler may submit it again.
HandlerSubmits(u) ==
    \E again \in BOOLEAN :
        /\ again => active
        /\ queue' = IF again THEN Append(RemoveAt(queue, pos), u) ELSE RemoveAt(queue, pos)
        /\ owed' = [owed EXCEPT ![u] = IF again THEN @ ELSE @ - 1]
        /\ passed' = passed \union {u}
        /\ Onward(TRUE)
        /\ UNCHANGED busOops

\* The orders in which two completion handlers submit their URBs again.
Submissions(u, v) == {<< >>, <<u>>, <<v>>, <<u, v>>, <<v, u>>}

\* The handler unlinks another URB, whose own handler is called: the lock is not in the
\* way.  If that is the node which the iterator has read, the iterator goes on from
\* freed memory.
HandlerUnlinks(u) ==
    LET rest == RemoveAt(queue, pos) IN
    \E k \in DOMAIN rest :
        IF k = pos
        THEN busOops' = "node" /\ UNCHANGED <<queue, owed, walk>>
        ELSE \E again \in Submissions(u, rest[k]) :
               /\ again # << >> => active
               /\ queue' = RemoveAt(rest, k) \o again
               /\ passed' = passed \union {u, rest[k]}
               /\ owed' = [w \in Urb |-> IF w \in {u, rest[k]} /\ w \notin ToSet(again)
                                        THEN owed[w] - 1 ELSE owed[w]]
               /\ pos' = IF pos = Len(queue) THEN PassEnd ELSE IF k < pos THEN pos - 1 ELSE pos
               /\ UNCHANGED busOops

GiveBack(u) == HandlerSubmits(u) \/ HandlerUnlinks(u)

\* No request to go with the URB: it is left for the next time.
Skip ==
    /\ Onward(FALSE)
    /\ passed' = passed \union {queue[pos]}
    /\ UNCHANGED <<queue, owed, busOops>>

\* The data goes over, and the gadget's completion handler may queue again.
Transfer(u, length) ==
    IF length = 0
    THEN Skip /\ requests' = [requests EXCEPT ![EpOf(u)] = 0]
    ELSE \E again \in BOOLEAN :
            /\ again => active /\ driver = "bound"
            /\ requests' = [requests EXCEPT ![EpOf(u)] = IF again THEN length ELSE length - 1]
            /\ GiveBack(u)

\* A control URB: SET_ADDRESS is not the gadget's affair; the gadget driver's
\* setup fails, or queues its answer at once, or later.
Setup(u) ==
    \/ GiveBack(u) /\ UNCHANGED requests
    \/ /\ driver = "stale"
       /\ busOops' = "driver"
       /\ UNCHANGED <<queue, owed, requests, walk>>
    \/ /\ driver = "bound"
       /\ \E answers \in {0, 1} :
            /\ answers = 1 => active /\ requests[0] < MaxQueued
            /\ Transfer(u, requests[0] + answers)

Visit ==
    /\ pos > 0
    /\ LET u == queue[pos]
       IN IF u \in Control THEN Setup(u) ELSE Transfer(u, requests[1])
    /\ UNCHANGED <<port, hub, seen, driver, pulled, timer, resetting, teardown, events>>

\* Mutant of TransferEnd: a pass over an empty queue does not re-arm the timer.
TransferEndIdle ==
    /\ pos = PassEnd
    /\ pos' = 0 /\ passed' = {}
    /\ timer' = (active /\ queue # << >>)
    /\ UNCHANGED <<queue, owed, requests, port, hub, seen, driver, pulled, resetting,
                   teardown, events, busOops>>

\* Out of the lock, the timer is armed again.
TransferEnd ==
    /\ pos = PassEnd
    /\ pos' = 0 /\ passed' = {}
    /\ timer' = active
    /\ UNCHANGED <<queue, owed, requests, port, hub, seen, driver, pulled, resetting,
                   teardown, events, busOops>>

-----------------------------------------------------------------------------
(* usblb_bus_cleanup.                                                      *)

Deactivate ==
    /\ Free /\ teardown = "no"
    /\ teardown' = "inactive"
    /\ UNCHANGED <<queue, owed, requests, port, hub, seen, driver, pulled, timer, walk,
                   resetting, events, busOops>>

DelTimer ==
    /\ Free /\ teardown = "inactive"
    /\ teardown' = "stopped"
    /\ timer' = FALSE
    /\ UNCHANGED <<queue, owed, requests, port, hub, seen, driver, pulled, walk,
                   resetting, events, busOops>>

\* usblb_glue_cleanup_queues; what a completion handler submits again is refused, and
\* one that unlinks the node which the iterator has read leaves it freed memory.
CleanupQueues ==
    /\ Free /\ teardown = "stopped"
    /\ \/ /\ teardown' = "drained"
          /\ queue' = << >>
          /\ owed' = [u \in Urb |-> IF Contains(queue, u) THEN owed[u] - 1 ELSE owed[u]]
          /\ UNCHANGED busOops
       \/ /\ Len(queue) > 1
          /\ busOops' = "node" /\ UNCHANGED <<teardown, queue, owed>>
    /\ UNCHANGED <<requests, port, hub, seen, driver, pulled, timer, walk, resetting, events>>

\* The host controller goes first; then the UDC core pulls a gadget down that still has
\* its driver, which tells the host controller if the bus is connected.
DeviceCleanup ==
    /\ Free /\ teardown = "drained"
    /\ teardown' = "gone"
    /\ seen' = FALSE /\ hub' = "idle"
    /\ driver' = IF driver = "bound" THEN "stale" ELSE driver
    /\ pulled' = (pulled /\ driver # "bound")
    /\ busOops' = IF driver = "bound" /\ ends = 2 THEN "hcd" ELSE "none"
    /\ UNCHANGED <<queue, owed, requests, port, timer, walk, resetting, events>>

-----------------------------------------------------------------------------
HubDriver ==
    \/ \E feature \in {"connection", "enable", "reset"} : ClearChange(feature)
    \/ GetPortStatus
Timers == TransferBegin \/ Visit \/ TransferEnd
Cleanup == Deactivate \/ DelTimer \/ CleanupQueues \/ DeviceCleanup

BusNext ==
    /\ busOops = "none"
    /\ \/ HubDriver \/ PowerOn \/ PowerOff \/ PortReset \/ FinishReset
       \/ Start \/ Stop \/ PullUp \/ PullDown
       \/ \E e \in Ep : GadgetQueue(e) \/ Dequeue(e)
       \/ \E u \in Urb : UrbEnqueue(u) \/ UrbDequeue(u)
       \/ Timers \/ Cleanup

-----------------------------------------------------------------------------
(* Properties.                                                             *)

\* The variables have their types.
BusTypeOK ==
    /\ queue \in Seq(Urb) /\ owed \in [Urb -> {0, 1}]
    /\ requests \in [Ep -> 0 .. MaxQueued]
    /\ status \subseteq {"power", "connection", "enable", "reset"}
    /\ change \subseteq {"connection", "enable", "reset"}
    /\ ends \in 0 .. 255 /\ reports \in [host : Int, gadget : Int]
    /\ hub \in {"idle", "look"} /\ seen \in BOOLEAN
    /\ driver \in {"none", "bound", "stale"} /\ pulled \in BOOLEAN
    /\ timer \in BOOLEAN /\ pos \in PassEnd .. Len(queue) /\ passed \subseteq Urb
    /\ resetting \in BOOLEAN
    /\ teardown \in {"no", "inactive", "stopped", "drained", "gone"}
    /\ events \in 0 .. MaxEvents
    /\ busOops \in {"none", "bus", "driver", "hcd", "node"}

\* An URB is on the host's queue once as long as it is owed to its driver, and
\* not at all once it was given back: no completion, dequeue or cleanup gives an
\* URB back twice or loses it.  Once the queues are cleaned up no URB is queued and
\* the transfer timer does not run again.
UrbsOnce ==
    /\ IsInjective(queue) /\ \A u \in Urb : owed[u] = IF Contains(queue, u) THEN 1 ELSE 0
    /\ teardown \in {"drained", "gone"} => queue = << >> /\ ~timer /\ pos = 0

\* How many more reports of a connection there were than of a disconnection.
Excess == reports.host + reports.gadget

\* Each end has reported its connection and its disconnection in turn.
InTurn ==
    /\ reports.host = IF "power" \in status THEN 1 ELSE 0
    /\ reports.gadget = IF pulled THEN 1 ELSE 0

\* As long as connected_ends has not wrapped, the port is connected exactly while there
\* were two more reports of a connection than of a disconnection, whoever reported them:
\* while the port has power and the gadget its pullup on, if they reported in turn.  And
\* a connection that the hub driver has not seen is flagged as a change.
PortHonest ==
    teardown # "gone" =>
        /\ events < 254 => /\ "connection" \in status <=> Excess >= 2
                           /\ InTurn => ("connection" \in status <=> "power" \in status /\ pulled)
        /\ hub = "idle" /\ seen # ("connection" \in status) => "connection" \in change

\* The next run of the transfer timer comes by each URB on the queue, or another URB's
\* completion handler unlinks it on the way, or the bus is torn down.  (It need not end:
\* two URBs and a gadget that submit and queue again in their completion handlers keep
\* it going.)
Visited ==
    \A u \in Urb :
        owed[u] = 1 /\ pos = 0 ~> \/ owed[u] = 0 \/ u \in passed
                                  \/ teardown # "no" \/ busOops # "none"
=============================================================================
