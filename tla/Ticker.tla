------------------------------- MODULE Ticker -------------------------------
(***************************************************************************)
(* usbticker: a gadget function whose timer counts and queues the count on *)
(* an interrupt endpoint (f_ticker.c), and the host driver that polls the  *)
(* endpoint and shows the last count (ticker.c).  The composite core, the  *)
(* timer's handler and the host's USB core run on different processors.    *)
(***************************************************************************)
EXTENDS Integers

CONSTANTS
    MaxTicks,     \* how often the timer ticks: a bound for model checking
    MaxConfigs    \* how often the function is configured and probed: a bound likewise

ASSUME TickerAssumption == MaxTicks \in Nat \ {0} /\ MaxConfigs \in Nat \ {0}

VARIABLES
    tk,       \* struct f_ticker, see TkInit
    tkHost,   \* struct usbticker, see TkInit
    tkOops    \* "none", or "req" when the request was used while there was none

tkVars == <<tk, tkHost, tkOops>>

TkInit ==
    /\ tk = [pc      |-> "idle",     \* where the composite core is: "idle", "timer" or
                                     \* "free" (in f_ticker_disable), "enable"
             again   |-> FALSE,      \* f_ticker_disable was called to enable again
             config  |-> FALSE,      \* cdev->config
             iface   |-> FALSE,      \* set_alt was called for SET_INTERFACE
             configs |-> 0,          \* history: how often set_alt was called
             data    |-> FALSE,      \* ep->driver_data
             active  |-> FALSE,
             timer   |-> "off",      \* "off" or "armed"
             running |-> FALSE,      \* the handler has queued and goes on to re-arm
             seen    |-> FALSE,      \* and has read active: set
             req     |-> "none",     \* "none" (NULL or freed) or "ok"
             queued  |-> FALSE,
             count   |-> 0,
             buf     |-> 0,          \* what is in req->buf
             failed  |-> FALSE]      \* history: f_ticker_enable has failed
    /\ tkHost = [urb |-> "none",     \* "none" (not probed), "idle" or "submitted"
                 probes |-> 0,       \* history: how often a device was probed
                 ticks |-> 0]
    /\ tkOops = "none"

-----------------------------------------------------------------------------
(* The composite core: a configuration is set, and set again, and reset.   *)

\* The core resets the configuration before it sets one: a set_alt that finds it set
\* is for SET_INTERFACE.
TkSetAlt ==
    /\ tk.pc = "idle" /\ tk.configs < MaxConfigs
    /\ tk' = [tk EXCEPT !.config = TRUE, !.iface = tk.config, !.configs = @ + 1, !.again = tk.data,
                        !.pc = IF tk.data THEN "timer" ELSE "enable",
                        !.active = @ /\ ~tk.data]
    /\ UNCHANGED <<tkHost, tkOops>>

TkDisable ==
    /\ tk.pc = "idle" /\ tk.config
    /\ tk' = [tk EXCEPT !.config = FALSE, !.again = FALSE, !.pc = "timer", !.active = FALSE]
    /\ UNCHANGED <<tkHost, tkOops>>

\* Mutant of TkDelTimer: del_timer, which does not wait for the handler.
TkDelTimerAsync ==
    /\ tk.pc = "timer"
    /\ tk' = [tk EXCEPT !.pc = "free", !.timer = "off"]
    /\ UNCHANGED <<tkHost, tkOops>>

\* del_timer_sync waits for the handler and detaches what the handler armed.
TkDelTimer ==
    /\ tk.pc = "timer" /\ ~tk.running
    /\ tk' = [tk EXCEPT !.pc = "free", !.timer = "off"]
    /\ UNCHANGED <<tkHost, tkOops>>

\* The rest of f_ticker_disable.
TkFree ==
    /\ tk.pc = "free"
    /\ IF tk.req = "none"
       THEN tkOops' = "req" /\ UNCHANGED tk
       ELSE /\ tk' = [tk EXCEPT !.pc = IF tk.again THEN "enable" ELSE "idle",
                                !.data = FALSE, !.queued = FALSE, !.req = "none"]
            /\ UNCHANGED tkOops
    /\ UNCHANGED tkHost

TkEnable ==
    /\ tk.pc = "enable"
    /\ tk' = [tk EXCEPT !.pc = "idle", !.data = TRUE, !.active = TRUE, !.req = "ok",
                        !.timer = "armed"]
    /\ UNCHANGED <<tkHost, tkOops>>

\* Without a descriptor, a request or its buffer set_alt fails, in the last two cases
\* with driver_data and active set.  The core answers SET_INTERFACE with a stall, and
\* SET_CONFIGURATION by a reset of the configuration, which disables the function.
TkEnableFails ==
    /\ tk.pc = "enable"
    /\ \E marked \in BOOLEAN :
          tk' = [tk EXCEPT !.pc = IF tk.iface THEN "idle" ELSE "timer", !.again = FALSE,
                           !.config = tk.iface, !.data = marked,
                           !.active = tk.iface /\ marked, !.req = "none", !.failed = TRUE]
    /\ UNCHANGED <<tkHost, tkOops>>

-----------------------------------------------------------------------------
(* f_ticker_timer_func.                                                    *)

\* A request that is still queued takes the new count with it, although
\* usb_ep_queue fails; when the endpoint is disabled it fails as well.
TkTick ==
    /\ tk.timer = "armed" /\ ~tk.running /\ tk.count < MaxTicks
    /\ IF tk.req = "none"
       THEN tkOops' = "req" /\ UNCHANGED tk
       ELSE /\ tk' = [tk EXCEPT !.timer = "off", !.running = TRUE, !.count = @ + 1,
                                !.buf = tk.count, !.queued = tk.data]
            /\ UNCHANGED tkOops
    /\ UNCHANGED tkHost

TkReadActive ==
    /\ tk.running /\ ~tk.seen
    /\ tk' = [tk EXCEPT !.seen = tk.active, !.running = tk.active]
    /\ UNCHANGED <<tkHost, tkOops>>

\* Mutant of TkRearm: the handler does not arm its timer again.
TkRearmNever ==
    /\ tk.running /\ tk.seen
    /\ tk' = [tk EXCEPT !.running = FALSE, !.seen = FALSE]
    /\ UNCHANGED <<tkHost, tkOops>>

TkRearm ==
    /\ tk.running /\ tk.seen
    /\ tk' = [tk EXCEPT !.running = FALSE, !.seen = FALSE, !.timer = "armed"]
    /\ UNCHANGED <<tkHost, tkOops>>

-----------------------------------------------------------------------------
(* The host.                                                               *)

\* ticker_probe of a device that is configured; what it had allocated when it
\* fails is given back, but for an URB that could not be submitted.
TkProbe ==
    /\ tkHost.urb = "none" /\ tk.config /\ tkHost.probes < MaxConfigs
    /\ \E urb \in {"none", "submitted"} :
          tkHost' = [urb |-> urb, ticks |-> 0, probes |-> tkHost.probes + 1]
    /\ UNCHANGED <<tk, tkOops>>

\* The endpoint is polled: ticker_interrupt_callback takes the count and submits
\* the URB again, which can fail.
TkPoll ==
    /\ tkHost.urb = "submitted" /\ tk.queued
    /\ tk' = [tk EXCEPT !.queued = FALSE]
    /\ \E urb \in {"idle", "submitted"} :
          tkHost' = [tkHost EXCEPT !.urb = urb, !.ticks = tk.buf]
    /\ UNCHANGED tkOops

\* An endpoint that is not enabled answers with a protocol error, which ends it.
TkUrbError ==
    /\ tkHost.urb = "submitted" /\ ~tk.data
    /\ tkHost' = [tkHost EXCEPT !.urb = "idle"]
    /\ UNCHANGED <<tk, tkOops>>

\* ticker_disconnect.
TkDisconnect ==
    /\ tkHost.urb # "none"
    /\ tkHost' = [tkHost EXCEPT !.urb = "none", !.ticks = 0]
    /\ UNCHANGED <<tk, tkOops>>

-----------------------------------------------------------------------------
TkTimer == TkTick \/ TkReadActive \/ TkRearm
TkCore  == TkDelTimer \/ TkFree \/ TkEnable \/ TkEnableFails

TkNext ==
    /\ tkOops = "none"
    /\ \/ TkSetAlt \/ TkDisable \/ TkCore \/ TkTimer
       \/ TkProbe \/ TkPoll \/ TkUrbError \/ TkDisconnect

-----------------------------------------------------------------------------
(* Properties.                                                             *)

\* The variables of usbticker have their types.
TkTypeOK ==
    /\ tk \in [pc : {"idle", "timer", "free", "enable"}, again : BOOLEAN, config : BOOLEAN,
               iface : BOOLEAN, configs : 0 .. MaxConfigs, data : BOOLEAN, active : BOOLEAN,
               timer : {"off", "armed"}, running : BOOLEAN, seen : BOOLEAN,
               req : {"none", "ok"}, queued : BOOLEAN, count : 0 .. MaxTicks,
               buf : 0 .. MaxTicks, failed : BOOLEAN]
    /\ tkHost \in [urb : {"none", "idle", "submitted"}, probes : 0 .. MaxConfigs,
                   ticks : 0 .. MaxTicks]
    /\ tkOops \in {"none", "req"}

\* However the timer's handler, a reset of the configuration and the host are
\* interleaved, the request is there whenever it is used and the timer is never
\* armed, nor its handler at work, once the request is freed; the one way out is
\* an f_ticker_enable that failed (f_ticker.c:238 and 244), after which disable
\* frees a request that is not there.
TkRequestThere ==
    \/ tk.failed
    \/ tkOops = "none" /\ (tk.timer # "off" \/ tk.running => tk.req = "ok")

TkUp == tkHost.urb = "submitted" /\ tk.config /\ tk.pc = "idle" /\ ~tk.failed

\* As long as the function stays configured, without a failed SET_INTERFACE, and the
\* host's URB is in flight, what the host shows goes on: test.sh reads the ticks and
\* expects the next ones.
TkTicks ==
    \A k \in 0 .. (MaxTicks - 2) :
        TkUp /\ tkHost.ticks = k /\ tk.count < MaxTicks ~> ~TkUp \/ tkHost.ticks > k
=============================================================================
