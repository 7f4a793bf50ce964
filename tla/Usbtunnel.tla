------------------------------ MODULE Usbtunnel -----------------------------
(***************************************************************************)
(* Control requests in usbtunnel/usbtunnel.c: a remote host sends them to  *)
(* a USB device controller, the tunnel forwards them to a real device from *)
(* a work item and answers over endpoint 0 with its one usb_request.  The  *)
(* setup callback, the completion callback and the worker run on different *)
(* processors; what each does under pending.lock, or between two calls     *)
(* into the USB core, is one step.  Requests are numbered as they come.    *)
(***************************************************************************)
EXTENDS Integers, Sequences

CONSTANTS
    Kind,         \* the kinds of request that the host sends, a subset of Kinds
    MaxRequests,  \* how many requests are sent: a bound for model checking
    MaxPlugs,     \* how often the device is plugged in: a bound likewise
    Faults        \* may the device fail a request, the host give one up, memory be short?

\* SET_ADDRESS, an IN request, an OUT request with data, an OUT request without.
Kinds == {"address", "in", "out", "simple"}

ASSUME UsbtunnelAssumption ==
    /\ Kind \subseteq Kinds
    /\ MaxRequests \in Nat /\ MaxPlugs \in Nat /\ Faults \in BOOLEAN

VARIABLES
    kind,     \* history: the kind of each request sent so far
    ctl,      \* struct usbtunnel's ctrl, see Fresh
    worker,   \* "idle", "wait" (for the device), "late" (and the buffer is freed),
              \* "react" or "pend"
    asked,    \* the request that the worker has sent to the device
    buf,      \* the request whose data is in ctrl.req->buf, or 0
    plug,     \* "out", "in" or "unbound": unplugged, and the gadget is gone already
    plugs,    \* how often the device was plugged in
    host,     \* the request that the host waits for, or 0
    stage,    \* and the stage it is in: "data" or "status"
    answer,   \* history: the request whose data the host was given for each request
    sent,     \* history: what the device was sent, as pairs <<request, whose data>>
    broken,   \* history: a request failed, was given up, or cut short when the device went
    overrun,  \* history: the worker was done with the tunnel when it was another request's
    tunOops   \* "none", or where memory that is gone was used

tunVars == <<kind, ctl, worker, asked, buf, plug, plugs, host, stage, answer, sent, broken,
            overrun, tunOops>>

\* ctrl.req is on endpoint 0's queue.
Queued(c) == c.req \in {"data", "zero"}

Fresh == [setup   |-> 0,        \* ctrl.setup
          in      |-> FALSE,    \* ctrl.state.in
          status  |-> FALSE,    \* ctrl.state.status
          busy    |-> FALSE,    \* ctrl.pending.in_progress
          pending |-> << >>,    \* ctrl.pending.list
          work    |-> FALSE,    \* ctrl.work is scheduled
          req     |-> "free",   \* ctrl.req: "free" (unbound), "idle", or queued: "data", "zero"
          twice   |-> FALSE]    \* history: ctrl.req was queued while it was queued

TunInit ==
    /\ kind = << >> /\ answer = << >> /\ sent = << >>
    /\ ctl = Fresh
    /\ worker = "idle" /\ asked = 0 /\ buf = 0
    /\ plug = "out" /\ plugs = 0
    /\ host = 0 /\ stage = "data"
    /\ broken = FALSE /\ overrun = FALSE
    /\ tunOops = "none"

-----------------------------------------------------------------------------
(* What the callbacks make of ctrl: operators from one record to the next. *)

\* usb_ep_queue; while the gadget is unbound it fails, which nobody notices.
EpQueue(c, length) ==
    IF c.req = "free" THEN c
    ELSE IF c.req = "idle" THEN [c EXCEPT !.req = length]
    ELSE [c EXCEPT !.twice = TRUE]

\* Mutant of DoSetup: in_progress is not set.
DoSetupFree(c, k, kd) ==
    LET s == [c EXCEPT !.setup = k, !.in = kd \in {"address", "in"},
                       !.status = kd \in {"address", "simple"}]
    IN CASE kd = "address" -> EpQueue(s, "zero")
         [] kd = "out"     -> EpQueue(s, "data")
         [] OTHER          -> [s EXCEPT !.work = TRUE]

\* usbtunnel_gadget_do_setup for request k of kind kd.
DoSetup(c, k, kd) ==
    LET s == [c EXCEPT !.busy = TRUE, !.setup = k, !.in = kd \in {"address", "in"},
                       !.status = kd \in {"address", "simple"}]
    IN CASE kd = "address" -> EpQueue(s, "zero")
         [] kd = "out"     -> EpQueue(s, "data")
         [] OTHER          -> [s EXCEPT !.work = TRUE]

\* Mutant of ProcessPending: the tunnel is free even if a request was pending.
ProcessPendingFrees(c) ==
    IF c.pending = << >>
    THEN [c EXCEPT !.busy = FALSE]
    ELSE LET k == Head(c.pending)
         IN [DoSetup(c, k, kind[k]) EXCEPT !.pending = Tail(@), !.busy = FALSE]

\* usbtunnel_gadget_process_pending_ctrl.
ProcessPending(c) ==
    IF c.pending = << >>
    THEN [c EXCEPT !.busy = FALSE]
    ELSE LET k == Head(c.pending)
         IN [DoSetup(c, k, kind[k]) EXCEPT !.pending = Tail(@)]

\* usbtunnel_ep0_req_complete, whatever the request's own status.
EpComplete(c) ==
    IF c.status THEN ProcessPending(c)
    ELSE IF c.in THEN EpQueue([c EXCEPT !.in = FALSE, !.status = TRUE], "zero")
    ELSE [c EXCEPT !.status = TRUE, !.work = TRUE]

-----------------------------------------------------------------------------
(* The remote host and the device controller.                              *)

\* Mutant of HostSends: setup never looks at in_progress.
HostSendsAtOnce(kd) ==
    LET k == Len(kind) + 1 IN
    /\ plug = "in" /\ host = 0 /\ Len(kind) < MaxRequests /\ ~Queued(ctl)
    /\ kind' = Append(kind, kd)
    /\ answer' = Append(answer, 0)
    /\ host' = k
    /\ stage' = IF kd \in {"in", "out"} THEN "data" ELSE "status"
    /\ ctl' = DoSetup(ctl, k, kd)
    /\ UNCHANGED <<worker, asked, buf, plug, plugs, sent, broken, overrun, tunOops>>

\* A host sends a request once the last one is over; the controller calls setup.  A
\* request that must wait and finds no memory is answered by a stall, which ends it.
HostSends(kd) ==
    LET k == Len(kind) + 1 IN
    /\ plug = "in" /\ host = 0 /\ Len(kind) < MaxRequests /\ ~Queued(ctl)
    /\ kind' = Append(kind, kd)
    /\ answer' = Append(answer, 0)
    /\ \/ /\ ctl' = IF ctl.busy THEN [ctl EXCEPT !.pending = Append(@, k)] ELSE DoSetup(ctl, k, kd)
          /\ host' = k
          /\ stage' = IF kd \in {"in", "out"} THEN "data" ELSE "status"
       \/ ctl.busy /\ Faults /\ UNCHANGED <<ctl, host, stage>>
    /\ UNCHANGED <<worker, asked, buf, plug, plugs, sent, broken, overrun, tunOops>>

\* The host gives a request up: it has its own timeout.  Nobody tells the tunnel.
HostAbandons ==
    /\ Faults /\ host # 0
    /\ host' = 0
    /\ broken' = TRUE
    /\ UNCHANGED <<kind, ctl, worker, asked, buf, plug, plugs, stage, answer, sent, overrun,
                   tunOops>>

\* What is still queued for a request that is over for the host is given back before
\* the controller takes another one.
UdcGivesBack ==
    /\ Queued(ctl) /\ host = 0
    /\ ctl' = EpComplete([ctl EXCEPT !.req = "idle"])
    /\ UNCHANGED <<kind, worker, asked, buf, plug, plugs, host, stage, answer, sent, broken,
                   overrun, tunOops>>

\* The stage that the host is in is over for the host; data goes to it or comes
\* from it.  Its status stage of an OUT request is the controller's own affair.
UdcCompletes ==
    /\ Queued(ctl) /\ host # 0
    /\ ctl' = EpComplete([ctl EXCEPT !.req = "idle"])
    /\ IF kind[host] = "in" /\ stage = "data"
       THEN /\ stage' = "status"
            /\ answer' = [answer EXCEPT ![host] = IF ctl.req = "data" THEN buf ELSE 0]
            /\ UNCHANGED <<host, buf>>
       ELSE /\ host' = 0
            /\ buf' = IF kind[host] = "out" THEN host ELSE buf
            /\ UNCHANGED <<stage, answer>>
    /\ UNCHANGED <<kind, worker, asked, plug, plugs, sent, broken, overrun, tunOops>>

-----------------------------------------------------------------------------
(* usbtunnel_ctrl_work.                                                    *)

WorkStart ==
    /\ worker = "idle" /\ ctl.work
    /\ IF plug # "in"
       THEN /\ tunOops' = IF plug = "out" THEN "udev" ELSE "req"
            /\ UNCHANGED <<ctl, worker, asked, sent>>
       ELSE /\ ctl' = [ctl EXCEPT !.work = FALSE]
            /\ worker' = "wait"
            /\ asked' = ctl.setup
            /\ sent' = Append(sent, <<ctl.setup, buf>>)
            /\ UNCHANGED tunOops
    /\ UNCHANGED <<kind, buf, plug, plugs, host, stage, answer, broken, overrun>>

\* The device answers; for an IN request its data goes to the buffer.
WorkAnswered ==
    /\ worker \in {"wait", "late"}
    /\ worker' = "react"
    /\ tunOops' = IF worker = "late" /\ kind[asked] = "in" THEN "req" ELSE "none"
    /\ buf' = IF kind[asked] = "in" THEN asked ELSE buf
    /\ UNCHANGED <<kind, ctl, asked, plug, plugs, host, stage, answer, sent, broken, overrun>>

\* The device fails, or is gone: nobody is told, and in_progress stays set.
WorkFails ==
    /\ worker \in {"wait", "late"}
    /\ Faults \/ plug # "in"
    /\ worker' = "idle"
    /\ broken' = TRUE
    /\ UNCHANGED <<kind, ctl, asked, buf, plug, plugs, host, stage, answer, sent, overrun, tunOops>>

\* Mutant of WorkReact: an answer is not sent on to the host.
WorkReactMute ==
    /\ worker = "react"
    /\ worker' = IF ctl.status THEN "pend" ELSE "idle"
    /\ UNCHANGED <<kind, ctl, asked, buf, plug, plugs, host, stage, answer, sent, broken, overrun, tunOops>>

\* What follows depends on the state, read again.
WorkReact ==
    /\ worker = "react"
    /\ LET queues == IF ctl.status THEN ctl.in \/ kind[ctl.setup] = "simple" ELSE ctl.in
       IN IF queues /\ ctl.req = "free"
          THEN tunOops' = "req" /\ UNCHANGED <<ctl, worker>>
          ELSE /\ ctl' = IF queues THEN EpQueue(ctl, IF ctl.status THEN "zero" ELSE "data")
                                   ELSE ctl
               /\ worker' = IF ctl.status THEN "pend" ELSE "idle"
               /\ UNCHANGED tunOops
    /\ UNCHANGED <<kind, asked, buf, plug, plugs, host, stage, answer, sent, broken, overrun>>

\* process_pending_ctrl, for whatever request the tunnel is at by now: the completion
\* callback may have gone on to the next one, or be still to come.  do_setup writes to
\* ctrl.req, which is freed when the gadget is unbound.
WorkPend ==
    /\ worker = "pend"
    /\ IF ctl.req = "free" /\ ctl.pending # << >> /\ kind[Head(ctl.pending)] \in {"address", "out"}
       THEN tunOops' = "req" /\ UNCHANGED <<ctl, worker, overrun>>
       ELSE /\ ctl' = ProcessPending(ctl)
            /\ worker' = "idle"
            /\ overrun' = (overrun \/ (ctl.busy /\ (\/ ctl.setup # asked
                                                    \/ Queued(ctl) /\ ctl.pending # << >>)))
            /\ UNCHANGED tunOops
    /\ UNCHANGED <<kind, asked, buf, plug, plugs, host, stage, answer, sent, broken>>

-----------------------------------------------------------------------------
(* usbtunnel_host_probe and usbtunnel_host_disconnect.                     *)

Plug ==
    /\ plug = "out" /\ plugs < MaxPlugs
    /\ plug' = "in"
    /\ plugs' = plugs + 1
    /\ ctl' = [ctl EXCEPT !.req = "idle"]
    /\ UNCHANGED <<kind, worker, asked, buf, host, stage, answer, sent, broken, overrun, tunOops>>

\* Mutant of Unbind: the request is completed even if it was not queued.
UnbindCompletes ==
    /\ plug = "in"
    /\ plug' = "unbound"
    /\ ctl' = EpComplete([ctl EXCEPT !.req = "free"])
    /\ broken' = (broken \/ host # 0 \/ ctl.busy \/ worker # "idle")
    /\ worker' = IF worker = "wait" THEN "late" ELSE worker
    /\ host' = 0
    /\ buf' = 0
    /\ UNCHANGED <<kind, asked, plugs, stage, answer, sent, overrun, tunOops>>

\* The gadget driver goes first: a queued request is given back, then freed.
\* Neither the work nor the pending requests are cancelled.
Unbind ==
    LET gone == [ctl EXCEPT !.req = "free"] IN
    /\ plug = "in"
    /\ plug' = "unbound"
    /\ ctl' = IF ctl.req = "idle" THEN gone ELSE EpComplete(gone)
    /\ broken' = (broken \/ host # 0 \/ ctl.busy \/ worker # "idle")
    /\ worker' = IF worker = "wait" THEN "late" ELSE worker
    /\ host' = 0
    /\ buf' = 0
    /\ UNCHANGED <<kind, asked, plugs, stage, answer, sent, overrun, tunOops>>

Unplug ==
    /\ plug = "unbound"
    /\ plug' = "out"
    /\ UNCHANGED <<kind, ctl, worker, asked, buf, plugs, host, stage, answer, sent, broken, overrun, tunOops>>

-----------------------------------------------------------------------------
Work == WorkStart \/ WorkAnswered \/ WorkReact \/ WorkPend

TunNext ==
    /\ tunOops = "none"
    /\ \/ \E kd \in Kind : HostSends(kd)
       \/ UdcCompletes \/ UdcGivesBack \/ HostAbandons \/ Work \/ WorkFails
       \/ Plug \/ Unbind \/ Unplug

TunSpec == TunInit /\ [][TunNext]_tunVars

-----------------------------------------------------------------------------
(* Properties.                                                             *)

Request == 1 .. MaxRequests

\* The variables have their types.
TunTypeOK ==
    /\ kind \in Seq(Kinds)
    /\ ctl \in [setup : Request \union {0}, in : BOOLEAN, status : BOOLEAN, busy : BOOLEAN,
                pending : Seq(Request), work : BOOLEAN,
                req : {"free", "idle", "data", "zero"}, twice : BOOLEAN]
    /\ worker \in {"idle", "wait", "late", "react", "pend"}
    /\ {asked, buf, host} \subseteq Request \union {0}
    /\ plug \in {"out", "in", "unbound"} /\ plugs \in 0 .. MaxPlugs
    /\ stage \in {"data", "status"}
    /\ answer \in Seq(Request \union {0}) /\ sent \in Seq(Request \X (Request \union {0}))
    /\ broken \in BOOLEAN /\ overrun \in BOOLEAN
    /\ tunOops \in {"none", "udev", "req"}

\* Each request reaches the device at most once and in order, and as long as none
\* was cut short an OUT request with the data that came with it.
ForwardedOnce ==
    /\ overrun \/ \A i, j \in DOMAIN sent : i < j => sent[i][1] < sent[j][1]
    /\ broken \/ overrun \/ \A i \in DOMAIN sent : kind[sent[i][1]] = "out" => sent[i][2] = sent[i][1]

OwnAnswers == \A k \in DOMAIN answer : answer[k] \in {0, k}

\* What the host is given for an IN request is the device's answer to that request,
\* as long as none was cut short: a worker that outlives the device's removal
\* meets the first request of the next device.
RightAnswer == broken \/ overrun \/ OwnAnswers

\* The device is asked first, and the host is given what it has said (the comment at
\* usbtunnel.c:162).
AnsweredInTurn == broken \/ OwnAnswers

\* A request that the host waits for is answered, unless one has failed or was
\* cut short by the device's removal.
Answered == \A k \in Request : host = k ~> host # k \/ broken

\* ctrl is honest until the worker overruns another request: ctrl.req is not queued
\* while it is queued; and when in_progress is clear, no request is pending, the worker
\* has nothing to do but to clear it again, and endpoint 0 is at rest, but for the
\* status stage of a request without data.  And when the completion callback runs, the
\* state says what was done (the comment at usbtunnel.c:44), unless one was cut short:
\* a data stage of the request in ctrl.setup if status is clear, a status stage if set.
CtrlHonest ==
    /\ overrun \/ ~ctl.twice
    /\ ~ctl.busy /\ ~overrun =>
          /\ ~ctl.work /\ ctl.pending = << >> /\ worker \in {"idle", "pend"}
          /\ Queued(ctl) => ctl.req = "zero" /\ kind[ctl.setup] = "simple"
    /\ Queued(ctl) /\ host # 0 /\ ~broken /\ ~overrun =>
          ctl.setup = host /\ (ctl.status <=> ctl.req = "zero")
=============================================================================
