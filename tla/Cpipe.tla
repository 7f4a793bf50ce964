------------------------------- MODULE Cpipe --------------------------------
(***************************************************************************)
(* One pair of character devices of cpipe/cpipe.c.  Each device owns a     *)
(* kfifo, the mutex that guards it and two wait queues; what is written    *)
(* to a device is read from its twin.  Threads run read, write, poll and   *)
(* the two FIONREAD-like ioctls; every step below is what a thread does    *)
(* between two points at which another thread can be observed.             *)
(***************************************************************************)
EXTENDS Integers, Sequences

CONSTANTS
    Task,          \* threads of user processes holding one of the devices open
    NoTask,        \* the owner of a free mutex
    Byte,          \* the values of a byte
    BSize,         \* cpipe_bsize, the capacity of each kfifo
    Calls,         \* the system calls the threads may issue
    PartialFaults  \* may copy_{to,from}_user stop half way through a buffer?

Dev == {0, 1}
Twin(d) == 1 - d

Ops == {"read", "write", "poll", "availrd", "availwr"}

\* A system call: the operation, the device it is made on, O_NONBLOCK, the
\* size of the user's buffer, its contents, and the events a poll asks for.
Call == [op : Ops, dev : Dev, nb : BOOLEAN, count : Nat,
         data : Seq(Byte), want : SUBSET {"IN", "OUT"}]

ASSUME CpipeAssumption ==
    /\ NoTask \notin Task
    /\ BSize \in Nat \ {0}
    /\ Calls \subseteq Call /\ Calls # {}
    /\ \A c \in Calls : c.op = "write" => c.count = Len(c.data)
    /\ PartialFaults \in BOOLEAN

Queue == {"rq", "wq"} \X Dev

\* What an idle thread's record of its last call is reset to.
Forgotten == CHOOSE c \in Calls : TRUE

VARIABLES
    fifo,     \* fifo[d]: struct cpipe_dev's rfifo
    owner,    \* owner[d]: the thread holding rmutex, or NoTask
    waitq,    \* waitq[<<"rq", d>>] and waitq[<<"wq", d>>]: wait queues rq and wq
    unwoken,  \* waiters that no wake-up has reached since they armed themselves
    sig,      \* threads with a signal pending
    cpPc,     \* where each thread is
    call,     \* the call each thread runs, or ran last
    ret,      \* "idle", "busy" or the result of the call
    moved,    \* bytes that the call has moved through the fifo
    mask      \* events that the poll in progress has collected

cpVars == <<fifo, owner, waitq, unwoken, sig, cpPc, call, ret, moved, mask>>

PollPCs == {"tryin", "testin", "enrolin", "tryout", "testout", "enrolout", "pollwait"}
CpPlaces == PollPCs \union {"idle", "lock", "copy", "wake", "unlock", "prepare", "check",
                            "sched", "finish", "avail", "done"}

\* Mutant of Chan: a write goes to the device it is made on.
ChanNoTwin(c) == c.dev

\* The device whose fifo and mutex a call works on.
Chan(c) == IF c.op \in {"read", "availrd"} THEN c.dev ELSE Twin(c.dev)

\* The queue a read or write sleeps on, and the one it wakes.
WaitQ(c) == <<IF c.op = "read" THEN "rq" ELSE "wq", c.dev>>
\* Mutant of WakeQ: wakes the caller's own device instead of its twin.
WakeQNoTwin(c) == <<IF c.op = "read" THEN "wq" ELSE "rq", c.dev>>
WakeQ(c) == <<IF c.op = "read" THEN "wq" ELSE "rq", Twin(c.dev)>>

\* How many bytes a read or write can move now.
Room(c) == IF c.op = "read" THEN Len(fifo[Chan(c)]) ELSE BSize - Len(fifo[Chan(c)])
\* Mutant of Movable: a write ignores how full the fifo is.
MovableUnclipped(c) == IF c.op = "read" /\ Room(c) < c.count THEN Room(c) ELSE c.count
Movable(c) == IF c.count < Room(c) THEN c.count ELSE Room(c)

\* The sleep_cond of cpipe_wait: kfifo_is_empty for a read, kfifo_is_full for a write.
MustSleep(c) == Room(c) = 0

CpGoto(t, to) == cpPc' = [cpPc EXCEPT ![t] = to]
Finish(t, result) == ret' = [ret EXCEPT ![t] = result]
Unlock(d) == owner' = [owner EXCEPT ![d] = NoTask]

CpInit ==
    /\ fifo = [d \in Dev |-> << >>]
    /\ owner = [d \in Dev |-> NoTask]
    /\ waitq = [q \in Queue |-> {}]
    /\ unwoken = {}
    /\ sig = {}
    /\ cpPc = [t \in Task |-> "idle"]
    /\ call = [t \in Task |-> Forgotten]
    /\ ret = [t \in Task |-> "idle"]
    /\ moved = [t \in Task |-> << >>]
    /\ mask = [t \in Task |-> {}]

-----------------------------------------------------------------------------
(* System call entry and exit, and signals.                                *)

\* A poll is born un-triggered (poll_initwait); other waiters arm in Prepare.
Enter(t) ==
    /\ cpPc[t] = "idle"
    /\ \E c \in Calls :
         /\ call' = [call EXCEPT ![t] = c]
         /\ CpGoto(t, IF c.op = "poll" THEN "tryin" ELSE "lock")
         /\ unwoken' = IF c.op = "poll" THEN unwoken \union {t} ELSE unwoken
    /\ Finish(t, "busy")
    /\ UNCHANGED <<fifo, owner, waitq, sig, moved, mask>>

\* Back to user mode: pending signals are handled.
Leave(t) ==
    /\ cpPc[t] = "done"
    /\ CpGoto(t, "idle")
    /\ Finish(t, "idle")
    /\ moved' = [moved EXCEPT ![t] = << >>]
    /\ mask' = [mask EXCEPT ![t] = {}]
    /\ call' = [call EXCEPT ![t] = Forgotten]
    /\ sig' = sig \ {t}
    /\ UNCHANGED <<fifo, owner, waitq, unwoken>>

\* Signals arrive at any time; only these points look for one, and one that
\* arrives between them is as if it arrived at the next.
Signal(t) ==
    /\ cpPc[t] \in {"lock", "sched", "finish", "pollwait"}
    /\ t \notin sig
    /\ sig' = sig \union {t}
    /\ UNCHANGED <<fifo, owner, waitq, unwoken, cpPc, call, ret, moved, mask>>

-----------------------------------------------------------------------------
(* cpipe_mutex_lock.                                                       *)

Lock(t) ==
    LET d == Chan(call[t]) IN
    /\ cpPc[t] = "lock"
    /\ owner[d] = NoTask
    /\ owner' = [owner EXCEPT ![d] = t]
    /\ CpGoto(t, IF call[t].op \in {"read", "write"} THEN "copy" ELSE "avail")
    /\ UNCHANGED <<fifo, waitq, unwoken, sig, call, ret, moved, mask>>

\* mutex_trylock fails, or a signal ends mutex_lock_interruptible's wait.
LockFails(t) ==
    /\ cpPc[t] = "lock"
    /\ owner[Chan(call[t])] # NoTask
    /\ \/ call[t].nb /\ Finish(t, "EAGAIN")
       \/ ~call[t].nb /\ t \in sig /\ Finish(t, "ERESTARTSYS")
    /\ CpGoto(t, "done")
    /\ UNCHANGED <<fifo, owner, waitq, unwoken, sig, call, moved, mask>>

-----------------------------------------------------------------------------
(* cpipe_read and cpipe_write, under the mutex.                            *)

\* kfifo_to_user and kfifo_from_user: n bytes go through the fifo.
Transfer(t, n) ==
    LET c == call[t]
        d == Chan(c)
        bytes == SubSeq(IF c.op = "read" THEN fifo[d] ELSE c.data, 1, n)
    IN /\ fifo' = [fifo EXCEPT ![d] = IF c.op = "read" THEN SubSeq(@, n + 1, Len(@))
                                                       ELSE @ \o bytes]
       /\ moved' = [moved EXCEPT ![t] = bytes]

Copied(t) ==
    /\ cpPc[t] = "copy"
    /\ Movable(call[t]) > 0
    /\ Transfer(t, Movable(call[t]))
    /\ CpGoto(t, "wake")
    /\ UNCHANGED <<owner, waitq, unwoken, sig, call, ret, mask>>

\* Mutant of CopyFaults: returns the error with the mutex held.
CopyFaultsLocked(t) ==
    /\ cpPc[t] = "copy"
    /\ Movable(call[t]) > 0
    /\ Finish(t, "EFAULT")
    /\ CpGoto(t, "done")
    /\ UNCHANGED <<fifo, owner, waitq, unwoken, sig, call, moved, mask>>

\* The user's buffer is not accessible: kfifo keeps the bytes already copied.
CopyFaults(t) ==
    /\ cpPc[t] = "copy"
    /\ \E n \in 0 .. (Movable(call[t]) - 1) :
         /\ n > 0 => PartialFaults
         /\ Transfer(t, n)
    /\ Finish(t, "EFAULT")
    /\ CpGoto(t, "unlock")
    /\ UNCHANGED <<owner, waitq, unwoken, sig, call, mask>>

\* Nothing could be copied: O_NONBLOCK gives up, others wait for the twin.
WouldBlock(t) ==
    /\ cpPc[t] = "copy"
    /\ Movable(call[t]) = 0
    /\ call[t].nb
    /\ Finish(t, "EAGAIN")
    /\ CpGoto(t, "unlock")
    /\ UNCHANGED <<fifo, owner, waitq, unwoken, sig, call, moved, mask>>

MustWait(t) ==
    /\ cpPc[t] = "copy"
    /\ Movable(call[t]) = 0
    /\ ~call[t].nb
    /\ CpGoto(t, "prepare")
    /\ UNCHANGED <<fifo, owner, waitq, unwoken, sig, call, ret, moved, mask>>

\* Mutant of Wake: nobody is woken.
WakeNobody(t) ==
    /\ cpPc[t] = "wake"
    /\ Finish(t, "OK")
    /\ CpGoto(t, "unlock")
    /\ UNCHANGED <<fifo, owner, waitq, unwoken, sig, call, moved, mask>>

\* wake_up_interruptible: a woken sleeper leaves the queue, a poller stays on it.
Wake(t) ==
    LET q == WakeQ(call[t]) IN
    /\ cpPc[t] = "wake"
    /\ unwoken' = unwoken \ waitq[q]
    /\ waitq' = [waitq EXCEPT ![q] = {s \in @ : s \in unwoken => call[s].op = "poll"}]
    /\ Finish(t, "OK")
    /\ CpGoto(t, "unlock")
    /\ UNCHANGED <<fifo, owner, sig, call, moved, mask>>

Release(t) ==
    /\ cpPc[t] = "unlock"
    /\ Unlock(Chan(call[t]))
    /\ CpGoto(t, "done")
    /\ UNCHANGED <<fifo, waitq, unwoken, sig, call, ret, moved, mask>>

\* cpipe_ioctl_IOCGAVAILXX: reports a length, or EFAULT if put_user fails.
Avail(t) ==
    /\ cpPc[t] = "avail"
    /\ Finish(t, "OK") \/ Finish(t, "EFAULT")
    /\ CpGoto(t, "unlock")
    /\ UNCHANGED <<fifo, owner, waitq, unwoken, sig, call, moved, mask>>

-----------------------------------------------------------------------------
(* cpipe_wait, entered with the mutex held and left without it.            *)

\* prepare_to_wait: on the queue, state TASK_INTERRUPTIBLE.
Prepare(t) ==
    /\ cpPc[t] = "prepare"
    /\ waitq' = [waitq EXCEPT ![WaitQ(call[t])] = @ \union {t}]
    /\ unwoken' = unwoken \union {t}
    /\ CpGoto(t, "check")
    /\ UNCHANGED <<fifo, owner, sig, call, ret, moved, mask>>

Check(t) ==
    /\ cpPc[t] = "check"
    /\ Unlock(Chan(call[t]))
    /\ CpGoto(t, IF MustSleep(call[t]) THEN "sched" ELSE "finish")
    /\ UNCHANGED <<fifo, waitq, unwoken, sig, call, ret, moved, mask>>

\* schedule() returns once the thread was woken or has a signal.
Schedule(t) ==
    /\ cpPc[t] = "sched"
    /\ t \notin unwoken \/ t \in sig
    /\ CpGoto(t, "finish")
    /\ UNCHANGED <<fifo, owner, waitq, unwoken, sig, call, ret, moved, mask>>

\* finish_wait; then a signal ends the call, or it starts over.
LeaveQueue(t) ==
    /\ cpPc[t] = "finish"
    /\ waitq' = [waitq EXCEPT ![WaitQ(call[t])] = @ \ {t}]
    /\ unwoken' = unwoken \ {t}

\* Mutant of Interrupted: a signal skips finish_wait.
InterruptedQueued(t) ==
    /\ cpPc[t] = "finish"
    /\ t \in sig
    /\ Finish(t, "ERESTARTSYS")
    /\ CpGoto(t, "done")
    /\ UNCHANGED <<fifo, owner, waitq, unwoken, sig, call, moved, mask>>

Interrupted(t) ==
    /\ LeaveQueue(t)
    /\ t \in sig
    /\ Finish(t, "ERESTARTSYS")
    /\ CpGoto(t, "done")
    /\ UNCHANGED <<fifo, owner, sig, call, moved, mask>>

StartOver(t) ==
    /\ LeaveQueue(t)
    /\ t \notin sig
    /\ CpGoto(t, "lock")
    /\ UNCHANGED <<fifo, owner, sig, call, ret, moved, mask>>

-----------------------------------------------------------------------------
(* cpipe_poll.  Each half tries the mutex, tests the fifo if it got it,    *)
(* and only then puts the poller on the wait queue.                        *)

TryLock(t, d, from, got, missed) ==
    /\ cpPc[t] = from
    /\ \/ /\ owner[d] = NoTask
          /\ owner' = [owner EXCEPT ![d] = t]
          /\ CpGoto(t, got)
       \/ /\ owner[d] # NoTask
          /\ CpGoto(t, missed)
          /\ UNCHANGED owner
    /\ UNCHANGED <<fifo, waitq, unwoken, sig, call, ret, moved, mask>>

Test(t, d, from, to, ready, event) ==
    /\ cpPc[t] = from
    /\ mask' = [mask EXCEPT ![t] = IF ready THEN @ \union {event} ELSE @]
    /\ Unlock(d)
    /\ CpGoto(t, to)
    /\ UNCHANGED <<fifo, waitq, unwoken, sig, call, ret, moved>>

Enrol(t, from, queue, to) ==
    /\ cpPc[t] = from
    /\ waitq' = [waitq EXCEPT ![<<queue, call[t].dev>>] = @ \union {t}]
    /\ CpGoto(t, to)
    /\ UNCHANGED <<fifo, owner, unwoken, sig, call, ret, moved, mask>>

PollIn(t) ==
    LET d == call[t].dev IN
    \/ TryLock(t, d, "tryin", "testin", "enrolin")
    \/ Test(t, d, "testin", "enrolin", fifo[d] # << >>, "IN")
    \/ Enrol(t, "enrolin", "rq", "tryout")

PollOut(t) ==
    LET d == Twin(call[t].dev) IN
    \/ TryLock(t, d, "tryout", "testout", "enrolout")
    \/ Test(t, d, "testout", "enrolout", Len(fifo[d]) < BSize, "OUT")
    \/ Enrol(t, "enrolout", "wq", "pollwait")

\* The poll system call: an event asked for, or a signal, ends it.
PollReturn(t) ==
    /\ cpPc[t] = "pollwait"
    /\ \/ mask[t] \intersect call[t].want # {} /\ Finish(t, "OK")
       \/ mask[t] \intersect call[t].want = {} /\ t \in sig /\ Finish(t, "ERESTARTSYS")
    /\ waitq' = [q \in Queue |-> waitq[q] \ {t}]
    /\ unwoken' = unwoken \ {t}
    /\ CpGoto(t, "done")
    /\ UNCHANGED <<fifo, owner, sig, call, moved, mask>>

\* A poller that was woken re-arms and asks the driver again.
PollAgain(t) ==
    /\ cpPc[t] = "pollwait"
    /\ mask[t] \intersect call[t].want = {}
    /\ t \notin unwoken
    /\ unwoken' = unwoken \union {t}
    /\ mask' = [mask EXCEPT ![t] = {}]
    /\ CpGoto(t, "tryin")
    /\ UNCHANGED <<fifo, owner, waitq, sig, call, ret, moved>>

-----------------------------------------------------------------------------
Poll(t) == PollIn(t) \/ PollOut(t) \/ PollReturn(t) \/ PollAgain(t)

\* A step that a thread inside the driver takes by itself, the mutex aside.
Step(t) ==
    \/ LockFails(t) \/ Copied(t) \/ CopyFaults(t) \/ WouldBlock(t) \/ MustWait(t)
    \/ Wake(t) \/ Release(t) \/ Avail(t)
    \/ Prepare(t) \/ Check(t) \/ Schedule(t) \/ Interrupted(t) \/ StartOver(t)
    \/ Poll(t)

CpNext == \E t \in Task : Enter(t) \/ Leave(t) \/ Signal(t) \/ Lock(t) \/ Step(t)

CpSpec == CpInit /\ [][CpNext]_cpVars

\* The scheduler runs every thread that can run, and the mutex, whose waiters
\* queue in order, is not withheld for ever from a thread that waits for it.
Fairness == \A t \in Task : WF_cpVars(Step(t)) /\ WF_cpVars(Leave(t)) /\ SF_cpVars(Lock(t))

CpFairSpec == CpSpec /\ Fairness

-----------------------------------------------------------------------------
(* Properties.                                                             *)

Outcomes == {"OK", "EAGAIN", "ERESTARTSYS", "EFAULT"}

\* The variables have their types; a kfifo never holds more than bsize bytes.
CpTypeOK ==
    /\ fifo \in [Dev -> Seq(Byte)] /\ \A d \in Dev : Len(fifo[d]) <= BSize
    /\ owner \in [Dev -> Task \union {NoTask}]
    /\ waitq \in [Queue -> SUBSET Task]
    /\ unwoken \subseteq Task /\ sig \subseteq Task
    /\ cpPc \in [Task -> CpPlaces]
    /\ call \in [Task -> Calls]
    /\ ret \in [Task -> Outcomes \union {"idle", "busy"}]
    /\ moved \in [Task -> Seq(Byte)]
    /\ mask \in [Task -> SUBSET {"IN", "OUT"}]

\* The device whose mutex the code holds at each program point (cpipe_mutex_lock
\* and the two mutex_trylock of cpipe_poll up to the matching mutex_unlock).
Holds(t, d) ==
    \/ /\ cpPc[t] \in {"copy", "wake", "unlock", "prepare", "check", "avail"}
       /\ d = Chan(call[t])
    \/ cpPc[t] = "testin" /\ d = call[t].dev
    \/ cpPc[t] = "testout" /\ d = Twin(call[t].dev)

\* The mutex of a device is owned by exactly the thread whose code is between
\* taking and releasing it: no path of read, write, poll or ioctl returns with
\* it held or releases one it does not hold.
MutexDiscipline == \A d \in Dev, t \in Task : owner[d] = t <=> Holds(t, d)

\* Some thread, still holding the mutex, is about to wake queue q.
WakePending(q) == \E u \in Task : cpPc[u] = "wake" /\ WakeQ(call[u]) = q

\* No lost wake-up: a thread asleep in cpipe_wait sleeps because its fifo is
\* empty (read) or full (write), unless the thread that changed this holds the
\* mutex and has yet to call wake_up_interruptible.  A fault half way through
\* a user's buffer is excluded: see CopyFaults.
NoLostWakeup ==
    ~PartialFaults =>
        \A t \in Task : cpPc[t] = "sched" /\ t \in unwoken =>
            MustSleep(call[t]) \/ WakePending(WaitQ(call[t]))

\* A wait entry is on a queue only while its owner is inside cpipe_wait or
\* poll: entries live on the owner's stack, so none may outlast the call.
NoStaleWaiter ==
    \A q \in Queue : \A t \in waitq[q] :
        \/ cpPc[t] \in {"check", "sched", "finish"} /\ q = WaitQ(call[t])
        \/ cpPc[t] \in PollPCs /\ q[2] = call[t].dev

\* A poll that waits for input sleeps only while there is none, and likewise
\* for output: a reader waiting on this pipe is woken by what is written.
PollerWoken ==
    \A t \in Task : cpPc[t] = "pollwait" /\ t \in unwoken =>
        /\ "IN" \in call[t].want \ mask[t] =>
             fifo[call[t].dev] = << >> \/ WakePending(<<"rq", call[t].dev>>)
        /\ "OUT" \in call[t].want \ mask[t] =>
             Len(fifo[Twin(call[t].dev)]) = BSize \/ WakePending(<<"wq", call[t].dev>>)

\* Every call takes effect atomically on the channel it names, and a failed
\* call moves nothing.  A call that moved its bytes is about to report so.
Abstract == INSTANCE Pipe WITH
    chan <- fifo,
    ret <- [t \in Task |-> IF cpPc[t] = "wake" THEN "OK" ELSE ret[t]]

Linearizable == Abstract!PipeSpec

\* Blocking calls on the fifo of device d that have not returned.
Blocking(op, d) ==
    {t \in Task : ret[t] = "busy" /\ call[t].op = op /\ ~call[t].nb /\ Chan(call[t]) = d}
Returned(op, d) ==
    \E t \in Task :
        ret[t] \in Outcomes /\ call[t].op = op /\ ~call[t].nb /\ Chan(call[t]) = d

\* As long as bytes are there and a blocking read waits for them, blocking reads
\* keep returning; as long as there is room and a blocking write waits for it,
\* blocking writes do.
Served ==
    \A d \in Dev :
        /\ Blocking("read", d) # {} /\ fifo[d] # << >> ~>
             Returned("read", d) \/ fifo[d] = << >>
        /\ Blocking("write", d) # {} /\ Len(fifo[d]) < BSize ~>
             Returned("write", d) \/ Len(fifo[d]) = BSize
=============================================================================
