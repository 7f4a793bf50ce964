------------------------------ MODULE Sleeper ------------------------------
(***************************************************************************)
(* sleeper: kernel threads that sleep on wait queues of their own until a  *)
(* write to the wake file in debugfs disturbs them, and the module's init  *)
(* and exit, which create and stop them while the files are there.         *)
(***************************************************************************)
EXTENDS Integers, Sequences, SequencesExt

CONSTANTS
    SlThreads,    \* the module parameter nthreads
    MaxWakes      \* how often a thread can be woken: a bound for model checking

ASSUME SleeperAssumption == SlThreads \in Nat /\ MaxWakes \in Nat

VARIABLES
    slMod,     \* where init or exit is; the threads it has yet to set up or to stop;
               \* whether the files are there
    slThr,     \* per thread: struct sleeper_thread and its kernel thread
    slOops     \* "none", or who used what is not initialised or freed

slVars == <<slMod, slThr, slOops>>

SlThread == 0 .. (SlThreads - 1)

SlInit ==
    /\ slMod = [pc |-> "init", rest |-> << >>, files |-> FALSE]
    /\ slThr = [t \in SlThread |->
                   [wq    |-> FALSE,       \* the wait queue and the counter are initialised
                    task  |-> "garbage",   \* st->task: "garbage", "live" or "freed"
                    run   |-> "none",      \* where sleeper_thread_func is, or "none", "born"
                    stop  |-> FALSE,       \* KTHREAD_SHOULD_STOP
                    queue |-> FALSE,       \* on the wait queue
                    asleep |-> FALSE,      \* the task's state: TASK_UNINTERRUPTIBLE
                    hits  |-> 0,           \* history: writes that found it on the queue
                    disturbs |-> 0]]
    /\ slOops = "none"

SlOopsAt(who) == slOops' = who /\ UNCHANGED <<slMod, slThr>>

-----------------------------------------------------------------------------
(* sleeper_init and sleeper_exit.                                          *)

\* Memory and files first; either can fail.
SlCreateFiles ==
    /\ slMod.pc = "init"
    /\ \/ slMod' = [pc |-> "setup", rest |-> [i \in 1 .. SlThreads |-> i - 1], files |-> TRUE]
       \/ slMod' = [slMod EXCEPT !.pc = "gone"]
    /\ UNCHANGED <<slThr, slOops>>

\* kthread_run wakes the thread before it returns the task; when it fails the threads
\* before this one are stopped, the last one first.
SlSetup ==
    /\ slMod.pc = "setup" /\ slMod.rest # << >>
    /\ LET t == Head(slMod.rest) IN
       \/ /\ slThr' = [slThr EXCEPT ![t].wq = TRUE, ![t].disturbs = 0, ![t].run = "born"]
          /\ slMod' = [slMod EXCEPT !.pc = "run"]
       \/ /\ slThr' = [slThr EXCEPT ![t].wq = TRUE, ![t].disturbs = 0]
          /\ slMod' = [slMod EXCEPT !.pc = "stop", !.rest = [i \in 1 .. t |-> t - i]]
    /\ UNCHANGED slOops

SlAssign ==
    /\ slMod.pc = "run"
    /\ slThr' = [slThr EXCEPT ![Head(slMod.rest)].task = "live"]
    /\ slMod' = [slMod EXCEPT !.pc = "setup", !.rest = Tail(@)]
    /\ UNCHANGED slOops

SlUp ==
    /\ slMod.pc = "setup" /\ slMod.rest = << >>
    /\ slMod' = [slMod EXCEPT !.pc = "up"]
    /\ UNCHANGED <<slThr, slOops>>

SlExit ==
    /\ slMod.pc = "up"
    /\ slMod' = [slMod EXCEPT !.pc = "stop", !.rest = [i \in 1 .. SlThreads |-> i - 1]]
    /\ UNCHANGED <<slThr, slOops>>

\* kthread_stop: set the flag, wake the thread, wait until it is gone, drop the task.
SlStop ==
    /\ slMod.pc = "stop" /\ slMod.rest # << >>
    /\ slThr' = [slThr EXCEPT ![Head(slMod.rest)].stop = TRUE]
    /\ slMod' = [slMod EXCEPT !.pc = "wake"]
    /\ UNCHANGED slOops

SlStopWake ==
    /\ slMod.pc = "wake"
    /\ slThr' = [slThr EXCEPT ![Head(slMod.rest)].asleep = FALSE]
    /\ slMod' = [slMod EXCEPT !.pc = "join"]
    /\ UNCHANGED slOops

SlJoin ==
    /\ slMod.pc = "join" /\ slThr[Head(slMod.rest)].run = "dead"
    /\ slThr' = [slThr EXCEPT ![Head(slMod.rest)].task = "freed"]
    /\ slMod' = [slMod EXCEPT !.pc = "stop", !.rest = Tail(@)]
    /\ UNCHANGED slOops

SlRemoveFiles ==
    /\ slMod.pc = "stop" /\ slMod.rest = << >>
    /\ slMod' = [slMod EXCEPT !.pc = "gone", !.files = FALSE]
    /\ UNCHANGED <<slThr, slOops>>

-----------------------------------------------------------------------------
(* sleeper_thread_func.                                                    *)

SlBegin(t) ==
    /\ slThr[t].run = "born"
    /\ slThr' = [slThr EXCEPT ![t].run = IF slThr[t].stop THEN "dead" ELSE "top"]
    /\ UNCHANGED <<slMod, slOops>>

\* The first thing it does is to print its name.
SlPrepare(t) ==
    /\ slThr[t].run = "top"
    /\ IF slThr[t].task = "garbage" THEN SlOopsAt("thread")
       ELSE /\ slThr' = [slThr EXCEPT ![t].run = "check", ![t].queue = TRUE, ![t].asleep = TRUE]
            /\ UNCHANGED <<slMod, slOops>>

\* Mutant of SlCheck: the task's state is set after the flag was tested.
SlCheckFirst(t) ==
    /\ slThr[t].run = "check"
    /\ slThr' = [slThr EXCEPT ![t].run = IF slThr[t].stop THEN "finish" ELSE "sleep",
                              ![t].asleep = TRUE]
    /\ UNCHANGED <<slMod, slOops>>

\* Mutant of SlCheck: the flag is tested at the end of the loop only.
SlCheckNot(t) ==
    /\ slThr[t].run = "check"
    /\ slThr' = [slThr EXCEPT ![t].run = "sleep"]
    /\ UNCHANGED <<slMod, slOops>>

SlCheck(t) ==
    /\ slThr[t].run = "check"
    /\ slThr' = [slThr EXCEPT ![t].run = IF slThr[t].stop THEN "finish" ELSE "sleep"]
    /\ UNCHANGED <<slMod, slOops>>

SlAwake(t) ==
    /\ slThr[t].run = "sleep" /\ ~slThr[t].asleep
    /\ slThr' = [slThr EXCEPT ![t].run = "finish"]
    /\ UNCHANGED <<slMod, slOops>>

SlFinish(t) ==
    /\ slThr[t].run = "finish"
    /\ slThr' = [slThr EXCEPT ![t].run = "test", ![t].asleep = FALSE, ![t].queue = FALSE,
                              ![t].disturbs = @ + 1]
    /\ UNCHANGED <<slMod, slOops>>

SlAgain(t) ==
    /\ slThr[t].run = "test"
    /\ slThr' = [slThr EXCEPT ![t].run = IF slThr[t].stop THEN "dead" ELSE "top"]
    /\ UNCHANGED <<slMod, slOops>>

SlStep(t) ==
    SlBegin(t) \/ SlPrepare(t) \/ SlCheck(t) \/ SlAwake(t) \/ SlFinish(t) \/ SlAgain(t)

-----------------------------------------------------------------------------
(* The files.                                                              *)

\* A write of a thread's number to wake: the thread leaves the queue and is woken.
SlWake(t) ==
    /\ slMod.files /\ slThr[t].hits < MaxWakes
    /\ IF ~slThr[t].wq THEN SlOopsAt("wake")
       ELSE /\ slThr[t].queue
            /\ slThr' = [slThr EXCEPT ![t].queue = FALSE, ![t].asleep = FALSE, ![t].hits = @ + 1]
            /\ UNCHANGED <<slMod, slOops>>

\* A read of stats prints the name of every thread's task.
SlStats ==
    /\ slMod.files /\ \E t \in SlThread : slThr[t].task # "live"
    /\ SlOopsAt("stats")

SlModStep ==
    SlCreateFiles \/ SlSetup \/ SlAssign \/ SlUp \/ SlStop \/ SlStopWake \/ SlJoin \/ SlRemoveFiles

SlNext ==
    /\ slOops = "none"
    /\ \/ SlModStep \/ SlExit \/ SlStats
       \/ \E t \in SlThread : SlStep(t) \/ SlWake(t)

-----------------------------------------------------------------------------
(* Properties.                                                             *)

\* The variables of sleeper have their types.
SlTypeOK ==
    /\ slMod \in [pc : {"init", "setup", "run", "up", "stop", "wake", "join", "gone"},
                  rest : Seq(SlThread), files : BOOLEAN]
    /\ slThr \in [SlThread -> [wq : BOOLEAN, task : {"garbage", "live", "freed"},
          run : {"none", "born", "top", "check", "sleep", "finish", "test", "dead"},
          stop : BOOLEAN, queue : BOOLEAN, asleep : BOOLEAN,
          hits : 0 .. MaxWakes, disturbs : 0 .. (MaxWakes + 1)]]
    /\ slOops \in {"none", "thread", "wake", "stats"}

\* No wakeup is lost between a thread's test and its sleep: a thread asleep has
\* counted every write that found it on its queue, is on the queue for the next one,
\* and is not being stopped, unless kthread_stop has yet to wake it; once init is
\* over and until exit begins, nobody touches a thread that is not there.
SleepersSound ==
    /\ slOops # "none" => slMod.pc # "up"
    /\ \A t \in SlThread : slThr[t].run = "sleep" /\ slThr[t].asleep =>
          /\ slThr[t].disturbs = slThr[t].hits /\ slThr[t].queue
          /\ slThr[t].stop => slMod.pc = "wake" /\ Head(slMod.rest) = t

\* A module that is being removed, or whose init failed, stops every thread and is
\* gone (kthread_stop waits for the thread, sleeper.c:188), unless a file was used.
SlStopping == slMod.pc = "stop"
SleepersStop == SlStopping ~> slMod.pc = "gone" \/ slOops # "none"
=============================================================================
