-------------------------------- MODULE Pipe --------------------------------
(***************************************************************************)
(* What a pair of cpipe devices promises its callers: two bounded byte     *)
(* channels, one towards each device, on which every system call either    *)
(* takes effect at one instant between its entry and its return or fails   *)
(* and leaves no trace.  Mutexes, wait queues and wake-ups do not appear.  *)
(***************************************************************************)
EXTENDS Integers, Sequences

CONSTANTS Task,   \* threads that issue system calls
          BSize,  \* capacity in bytes of a channel: module parameter bsize
          Calls   \* the system calls (see Cpipe) the threads may issue

VARIABLES chan,   \* chan[d]: the bytes on their way to device d
          call,   \* call[t]: the system call t issued last
          ret,    \* ret[t]: "idle", "busy" or the outcome about to be returned
          moved   \* moved[t]: the bytes the call of t has transferred

pipeVars == <<chan, call, ret, moved>>

Outcomes == {"OK", "EAGAIN", "ERESTARTSYS", "EFAULT"}

PipeInit ==
    /\ chan = [d \in {0, 1} |-> << >>]
    /\ call \in [Task -> Calls]
    /\ ret = [t \in Task |-> "idle"]
    /\ moved = [t \in Task |-> << >>]

Invoke(t) ==
    /\ ret[t] = "idle"
    /\ \E c \in Calls : call' = [call EXCEPT ![t] = c]
    /\ ret' = [ret EXCEPT ![t] = "busy"]
    /\ UNCHANGED <<chan, moved>>

\* n bytes leave the channel, oldest first, for the caller of read.  A read
\* takes all it asked for or all there is, and at least one byte.
Receive(t, n) ==
    LET d == call[t].dev IN
    /\ call[t].op = "read"
    /\ n > 0
    /\ n = call[t].count \/ (n < call[t].count /\ n = Len(chan[d]))
    /\ n <= Len(chan[d])
    /\ moved' = [moved EXCEPT ![t] = SubSeq(chan[d], 1, n)]
    /\ chan' = [chan EXCEPT ![d] = SubSeq(@, n + 1, Len(@))]

\* The first n bytes of the caller's buffer enter the channel of the twin.
Transmit(t, n) ==
    LET d == 1 - call[t].dev IN
    /\ call[t].op = "write"
    /\ n > 0
    /\ n = call[t].count \/ (n < call[t].count /\ n = BSize - Len(chan[d]))
    /\ Len(chan[d]) + n <= BSize
    /\ moved' = [moved EXCEPT ![t] = SubSeq(call[t].data, 1, n)]
    /\ chan' = [chan EXCEPT ![d] = @ \o moved'[t]]

Succeed(t) ==
    /\ ret[t] = "busy"
    /\ \/ \E n \in 1 .. BSize : Receive(t, n) \/ Transmit(t, n)
       \/ call[t].op \notin {"read", "write"} /\ UNCHANGED <<chan, moved>>
    /\ ret' = [ret EXCEPT ![t] = "OK"]
    /\ UNCHANGED call

\* A failed call has transferred nothing.  Only a caller that asked for it is
\* told to try again, only one that could sleep is told of a signal.
Fail(t) ==
    /\ ret[t] = "busy"
    /\ \E e \in Outcomes \ {"OK"} :
         /\ e = "EAGAIN" => call[t].nb
         /\ e = "ERESTARTSYS" => ~call[t].nb \/ call[t].op = "poll"
         /\ ret' = [ret EXCEPT ![t] = e]
    /\ UNCHANGED <<chan, call, moved>>

\* The outcome reaches the caller; which call it was is of no more interest.
Return(t) ==
    /\ ret[t] \in Outcomes
    /\ \E c \in Calls : call' = [call EXCEPT ![t] = c]
    /\ ret' = [ret EXCEPT ![t] = "idle"]
    /\ moved' = [moved EXCEPT ![t] = << >>]
    /\ UNCHANGED chan

PipeNext == \E t \in Task : Invoke(t) \/ Succeed(t) \/ Fail(t) \/ Return(t)

PipeSpec == PipeInit /\ [][PipeNext]_pipeVars
=============================================================================
