----------------------------- MODULE Echoserial -----------------------------
(***************************************************************************)
(* One port of echoserial/echoserial.c under the serial core.  The tx      *)
(* timer moves bytes from the core's transmit buffer to the port's kfifo,  *)
(* the rx timer moves them from the kfifo to the tty, and both drive the   *)
(* flow control lines.  All handlers run under port->lock, so each is one  *)
(* step; a timer that has expired may still wait for the lock while other  *)
(* steps are taken.  Bytes are numbered in the order they were written.    *)
(***************************************************************************)
EXTENDS Integers, Sequences, FiniteSetsExt

CONSTANTS
    XSize,     \* UART_XMIT_SIZE; the circular buffer holds one byte less
    BSize,     \* echoserial_bsize, the capacity of the kfifo
    Interval,  \* echoserial_interval, in milliseconds
    Baud,      \* the rates that termios can select
    DefBaud,   \* echoserial_defbaud
    Wakeup,    \* WAKEUP_CHARS
    MaxBytes   \* how many bytes users write: a bound for model checking

ASSUME EchoserialAssumption ==
    /\ XSize \in Nat \ {0, 1} /\ BSize \in Nat \ {0}
    /\ Interval \in Nat \ {0} /\ Interval % 20 = 0
    /\ Baud \subseteq Nat /\ DefBaud \in Baud
    /\ Wakeup \in Nat \ {0} /\ MaxBytes \in Nat

Timer == {"rx", "tx"}

VARIABLES
    phase,      \* "closed", "open"; then the core closes: "closing" before shutdown, "shut"
                \* after it, "freed" without the buffer; "crashed": a handler has used that
    fifo,       \* the port's kfifo
    xmit,       \* port.state->xmit, from tail to head
    active,     \* the timers that re-arm themselves: rx_active, tx_active
    armed,      \* pending timers
    running,    \* expired timers whose handler waits for port->lock
    baud,       \* what set_termios has set, and CRTSCTS in it
    rtscts,
    rts,        \* UART_MCR_RTS in mcr
    cts,        \* UART_MSR_CTS in msr
    hwStopped,  \* the core's tty->hw_stopped
    writer,     \* a user blocked in write, for want of room in xmit
    written,    \* history: how many bytes were written
    flushed,    \* history: bytes that the core threw away when the port was closed
    got         \* history: bytes given to the tty

line == <<baud, rtscts, rts>>
vars == <<phase, fifo, xmit, active, armed, running, line, cts, hwStopped, writer, written,
          flushed, got>>

Init ==
    /\ phase = "closed"
    /\ fifo = << >> /\ xmit = << >> /\ got = << >>
    /\ active = {} /\ armed = {} /\ running = {}
    /\ baud = DefBaud /\ rtscts = FALSE /\ rts = FALSE
    /\ cts = FALSE /\ hwStopped = FALSE
    /\ writer = FALSE /\ written = 0 /\ flushed = {}

-----------------------------------------------------------------------------
(* What the handlers are made of.                                          *)

BaudToBufsize(b) == ((b \div 8) * Interval) \div 1000

\* Mutant of CharsFree: every byte of the circular buffer is used.
CharsFreeAll == XSize - Len(xmit)

\* uart_circ_chars_free: one byte of the circular buffer is never used.
CharsFree == XSize - 1 - Len(xmit)

\* The three limits of echoserial_rx_timer_func and echoserial_tx_timer_func.
RxCount == Min({CharsFree, Len(fifo), BaudToBufsize(baud)})

\* Mutant of TxCount: the room in the kfifo is not looked at.
TxCountUnclipped == Min({Len(xmit), BaudToBufsize(baud)})
TxCount == Min({Len(xmit), BSize - Len(fifo), BaudToBufsize(baud)})

\* kfifo_in: what does not fit is dropped.
KfifoIn(q, s) == q \o SubSeq(s, 1, Min({Len(s), BSize - Len(q)}))

\* do_stop_rx, do_stop_tx and start_tx: the flag and the timer go together.
Stop(timers) == active' = active \ timers /\ armed' = armed \ timers
Start(timers) == active' = active \union timers /\ armed' = armed \union timers

\* Mutant of Rearm: a handler leaves its timer to others.
RearmNever(t, act, arm) == arm

\* A handler that ends re-arms its timer if that is still active.
Rearm(t, act, arm) == IF t \in act THEN arm \union {t} ELSE arm

\* uart_handle_cts_change: under CRTSCTS it stops or restarts the transmitter
\* through the port's stop_tx and start_tx.
CtsChange(flow, up, act, arm) ==
    LET stops == flow /\ ~up /\ ~hwStopped
        starts == flow /\ up /\ hwStopped
    IN [stopped |-> (hwStopped \/ stops) /\ ~starts,
        active  |-> IF stops THEN act \ {"tx"} ELSE IF starts THEN act \union {"tx"} ELSE act,
        armed   |-> IF stops THEN arm \ {"tx"} ELSE IF starts THEN arm \union {"tx"} ELSE arm,
        wakes   |-> starts]

-----------------------------------------------------------------------------
(* The user and the serial core.                                           *)

\* The core clears its buffer and calls startup.
Startup ==
    /\ phase = "closed"
    /\ phase' = "open"
    /\ baud' = DefBaud
    /\ cts' = TRUE
    /\ Start({"rx"})
    /\ hwStopped' = FALSE
    /\ UNCHANGED <<fifo, xmit, running, rtscts, rts, writer, written, flushed, got>>

\* set_termios; when CRTSCTS is turned off the core lifts hw_stopped.
SetTermios(b, flow) ==
    LET change == CtsChange(flow, cts, active, armed)
        lifted == rtscts /\ ~flow
    IN /\ phase = "open"
       /\ baud' = b
       /\ rtscts' = flow
       /\ IF lifted
          THEN Start({"tx"}) /\ hwStopped' = FALSE
          ELSE /\ active' = change.active /\ armed' = change.armed
               /\ hwStopped' = change.stopped
       /\ writer' = (writer /\ ~change.wakes)
       /\ UNCHANGED <<phase, fifo, xmit, running, rts, cts, written, flushed, got>>

\* set_mctrl, for the user or for a tty that throttles.
SetMctrl ==
    /\ phase = "open"
    /\ rts' = ~rts
    /\ UNCHANGED <<phase, fifo, xmit, active, armed, running, baud, rtscts, cts, hwStopped,
                   writer, written, flushed, got>>

\* uart_write of one byte starts the transmitter unless flow control holds it;
\* without room the user blocks.
Write ==
    /\ phase = "open" /\ ~writer /\ written < MaxBytes
    /\ IF CharsFree = 0
       THEN writer' = TRUE /\ UNCHANGED <<xmit, written, active, armed>>
       ELSE /\ written' = written + 1
            /\ xmit' = Append(xmit, written')
            /\ IF hwStopped THEN UNCHANGED <<active, armed>> ELSE Start({"tx"})
            /\ UNCHANGED writer
    /\ UNCHANGED <<phase, fifo, running, line, cts, hwStopped, flushed, got>>

\* Close: the core stops reception, and waits a while for tx_empty.
StopRx ==
    /\ phase = "open" /\ ~writer
    /\ phase' = "closing"
    /\ Stop({"rx"})
    /\ UNCHANGED <<fifo, xmit, running, line, cts, hwStopped, writer, written, flushed, got>>

\* A handler that has expired goes on after it, like after all the core does next.
Shutdown ==
    /\ phase = "closing"
    /\ phase' = "shut"
    /\ Stop({"rx", "tx"})
    /\ UNCHANGED <<fifo, xmit, running, line, cts, hwStopped, writer, written, flushed, got>>

\* The core gives the page of the buffer back; head and tail stay.
FreeXmit ==
    /\ phase = "shut"
    /\ phase' = "freed"
    /\ UNCHANGED <<fifo, xmit, active, armed, running, line, cts, hwStopped, writer, written,
                   flushed, got>>

\* uart_flush_buffer: the core throws away what was not transmitted.
Flush ==
    /\ phase = "freed"
    /\ phase' = "closed"
    /\ flushed' = flushed \union {xmit[i] : i \in DOMAIN xmit}
    /\ xmit' = << >>
    /\ UNCHANGED <<fifo, active, armed, running, line, cts, hwStopped, writer, written, got>>

-----------------------------------------------------------------------------
(* The timers.                                                             *)

Expire(t) ==
    /\ t \in armed \ running
    /\ armed' = armed \ {t}
    /\ running' = running \union {t}
    /\ UNCHANGED <<phase, fifo, xmit, active, line, cts, hwStopped, writer, written, flushed,
                   got>>

\* Mutant of RxHandler: CTS goes up and the core is not told.
RxHandlerSilent ==
    /\ "rx" \in running
    /\ running' = running \ {"rx"}
    /\ IF ~rts /\ rtscts
       THEN UNCHANGED <<fifo, got, cts>>
       ELSE /\ got' = got \o SubSeq(fifo, 1, RxCount)
            /\ fifo' = SubSeq(fifo, RxCount + 1, Len(fifo))
            /\ cts' = TRUE
    /\ armed' = Rearm("rx", active, armed)
    /\ UNCHANGED <<phase, xmit, active, line, hwStopped, writer, written, flushed>>

\* Without RTS, under flow control, nothing is received.  Otherwise CTS always
\* goes up, whether bytes were received or not: "while (count--)" has left
\* count at its largest value.
RxHandler ==
    LET quiet == ~rts /\ rtscts
        change == CtsChange(rtscts, TRUE, active, armed)
    IN /\ "rx" \in running
       /\ running' = running \ {"rx"}
       /\ IF quiet
          THEN UNCHANGED <<fifo, got, cts, hwStopped, active, writer>>
          ELSE /\ got' = got \o SubSeq(fifo, 1, RxCount)
               /\ fifo' = SubSeq(fifo, RxCount + 1, Len(fifo))
               /\ cts' = TRUE
               /\ IF cts
                  THEN UNCHANGED <<hwStopped, active, writer>>
                  ELSE /\ hwStopped' = change.stopped
                       /\ active' = change.active
                       /\ writer' = (writer /\ ~change.wakes)
       /\ armed' = Rearm("rx", active, IF quiet \/ cts THEN armed ELSE change.armed)
       /\ UNCHANGED <<phase, xmit, line, written, flushed>>

\* Mutant of StillBlocked: nobody wakes the writer.
StillBlockedAlways(rest) == writer

\* uart_write_wakeup, once fewer than WAKEUP_CHARS bytes are pending.
StillBlocked(rest) == writer /\ Len(rest) >= Wakeup

\* The handler copies bytes from a buffer without a page.
ReadsFreed == phase = "freed" /\ TxCount > 0

TxHandlerCrashes ==
    /\ "tx" \in running /\ ReadsFreed
    /\ phase' = "crashed"
    /\ UNCHANGED <<fifo, xmit, active, armed, running, line, cts, hwStopped, writer, written,
                   flushed, got>>

\* Bytes go to the kfifo; when that is full CTS falls, otherwise a writer is
\* woken once few bytes are left.
TxHandler ==
    LET filled == KfifoIn(fifo, SubSeq(xmit, 1, TxCount))
        rest == SubSeq(xmit, TxCount + 1, Len(xmit))
        falls == Len(filled) = BSize /\ cts
        change == CtsChange(rtscts, FALSE, active, armed)
    IN /\ "tx" \in running /\ ~ReadsFreed
       /\ running' = running \ {"tx"}
       /\ fifo' = filled
       /\ xmit' = rest
       /\ cts' = (cts /\ ~falls)
       /\ IF falls
          THEN /\ hwStopped' = change.stopped
               /\ active' = change.active
               /\ armed' = Rearm("tx", change.active, change.armed)
               /\ UNCHANGED writer
          ELSE /\ armed' = Rearm("tx", active, armed)
               /\ writer' = StillBlocked(rest)
               /\ UNCHANGED <<hwStopped, active>>
       /\ UNCHANGED <<phase, line, written, flushed, got>>

-----------------------------------------------------------------------------
User ==
    \/ Startup \/ SetMctrl \/ Write \/ StopRx \/ Shutdown \/ FreeXmit \/ Flush
    \/ \E b \in Baud, flow \in BOOLEAN : SetTermios(b, flow)

Timers == RxHandler \/ TxHandler \/ TxHandlerCrashes \/ \E t \in Timer : Expire(t)

\* Nothing goes on after the crash of a handler, which holds the lock.
Next == phase # "crashed" /\ (User \/ Timers)

Spec == Init /\ [][Next]_vars

\* The kernel runs the timers; nothing is assumed of users.
FairSpec ==
    /\ Spec
    /\ WF_vars(phase # "crashed" /\ RxHandler)
    /\ WF_vars(phase # "crashed" /\ (TxHandler \/ TxHandlerCrashes))
    /\ \A t \in Timer : WF_vars(phase # "crashed" /\ Expire(t))

-----------------------------------------------------------------------------
(* Properties.                                                             *)

\* The variables have their types, and no buffer exceeds its capacity.
TypeOK ==
    /\ phase \in {"closed", "open", "closing", "shut", "freed", "crashed"}
    /\ fifo \in Seq(1 .. MaxBytes) /\ Len(fifo) <= BSize
    /\ xmit \in Seq(1 .. MaxBytes) /\ Len(xmit) < XSize
    /\ got \in Seq(1 .. MaxBytes)
    /\ active \subseteq Timer /\ armed \subseteq Timer /\ running \subseteq Timer
    /\ baud \in Baud
    /\ {rtscts, rts, cts, hwStopped, writer} \subseteq BOOLEAN
    /\ written \in 0 .. MaxBytes /\ flushed \subseteq 1 .. MaxBytes

\* The port echoes: what the tty was given, what is in the kfifo and what is
\* still to be transmitted are the bytes written, in order, each once, except
\* those the core flushed at a close.
Echoes ==
    LET all == got \o fifo \o xmit IN
    /\ \A i, j \in DOMAIN all : i < j => all[i] < all[j]
    /\ {all[i] : i \in DOMAIN all} = (1 .. written) \ flushed

\* Under hardware flow control the core holds the transmitter exactly while
\* CTS is down, so that neither forgets what the other believes; and without it a
\* port has no timer left after shutdown, whatever handlers were late.  (With it, an
\* rx handler that was running at the shutdown can start the transmitter again.)
FlowAgrees ==
    /\ phase = "open" /\ rtscts => (hwStopped <=> ~cts)
    /\ phase \notin {"open", "closing"} /\ ~rtscts => armed = {} /\ active = {}

Receiving == phase = "open" /\ (rtscts => rts) /\ BaudToBufsize(baud) > 0

\* Both buffers are full: neither timer can move a byte, see RxCount.
Jammed == CharsFree = 0 /\ Len(fifo) = BSize

\* As long as the port is open and may receive, everything written comes back,
\* or else both buffers are full from some time on.
EchoedOrJammed == []<>(fifo = << >> /\ xmit = << >>) \/ []<>(~Receiving) \/ <>[]Jammed

\* As long as the port is open and may receive, a transmitter that flow control
\* stopped is restarted, and a writer that waits for room is woken unless both
\* buffers are full from some time on.
WriterWoken ==
    /\ []<>(~hwStopped) \/ []<>(~Receiving)
    /\ []<>(~writer) \/ []<>(~Receiving) \/ <>[]Jammed

\* As long as the port is open and may receive, everything written comes back
\* (the readback test of echoserial/test.c:124).
Echoed == []<>(fifo = << >> /\ xmit = << >>) \/ []<>(~Receiving)
=============================================================================
