--------------------------- MODULE DriversProofs ---------------------------
(***************************************************************************)
(* Safety of the drivers of module Drivers, each for any number of         *)
(* threads, files and nodes.                                               *)
(***************************************************************************)
EXTENDS Drivers, Bddtree, BringupProofs, ListProofs, TLAPS

-----------------------------------------------------------------------------
(* sleeper.                                                                *)

SlRuns == {"none", "born", "top", "check", "sleep", "finish", "test", "dead"}
SlRecord == [wq : BOOLEAN, task : {"garbage", "live", "freed"}, run : SlRuns, stop : BOOLEAN,
             queue : BOOLEAN, asleep : BOOLEAN, hits : 0 .. MaxWakes, disturbs : 0 .. (MaxWakes + 1)]

\* A thread has counted every write that found it on its queue, but the one it still has
\* to count, and one more after it was stopped.
SlCounts(r) ==
    /\ r.run \in {"none", "born", "top"} => r.disturbs = r.hits /\ ~r.queue
    /\ r.run \in {"check", "sleep", "finish"} =>
           r.disturbs + (IF r.queue THEN 0 ELSE 1) = r.hits
    /\ r.run \in {"test", "dead"} =>
           ~r.queue /\ (r.disturbs = r.hits \/ (r.disturbs = r.hits + 1 /\ r.stop))
    /\ r.run \in {"check", "sleep"} /\ r.asleep => r.queue
    /\ r.run \in {"check", "sleep"} /\ ~r.asleep /\ r.queue => r.stop
    /\ r.run = "finish" /\ r.queue => r.stop
    /\ r.run = "none" => r.hits = 0

\* What init has yet to set up is not there, and the rest is.
SlSetUp ==
    /\ slMod.pc \in {"setup", "run"} =>
          /\ \A i, j \in DOMAIN slMod.rest : slMod.rest[i] = slMod.rest[j] => i = j
          /\ \A i \in DOMAIN slMod.rest :
                slThr[slMod.rest[i]].run = "none" \/ (slMod.pc = "run" /\ i = 1)
          /\ \A t \in SlThread : (slThr[t].wq /\ slThr[t].task = "live")
                                 \/ (\E i \in DOMAIN slMod.rest : slMod.rest[i] = t)
    /\ slMod.pc = "run" => slThr[Head(slMod.rest)].wq
    /\ slMod.pc = "up" =>
          slOops = "none" /\ \A t \in SlThread : slThr[t].wq /\ slThr[t].task = "live"
    /\ slMod.pc = "init" => \A t \in SlThread : slThr[t].run = "none"
    /\ slMod.pc \in {"run", "wake", "join"} => slMod.rest # << >>
    /\ slMod.pc = "wake" => slThr[Head(slMod.rest)].stop

SlInv ==
    /\ SlTypeOK
    /\ \A t \in SlThread : SlCounts(slThr[t])
    /\ SlSetUp
    /\ SleepersSound

\* Nothing runs and nothing is registered.
LEMMA SlInitInv == SlInit => SlInv
  <1> SUFFICES ASSUME SlInit PROVE SlInv
    OBVIOUS
  <1>1. << >> \in Seq(SlThread) /\ 0 \in 0 .. MaxWakes /\ 0 \in 0 .. (MaxWakes + 1)
    BY EmptySeq, SleeperAssumption
  <1>2. SlTypeOK
    BY <1>1 DEF SlInit, SlTypeOK
  <1>3. \A t \in SlThread : SlCounts(slThr[t])
    BY DEF SlInit, SlCounts
  <1>4. SlSetUp /\ SleepersSound
    BY DEF SlInit, SlSetUp, SleepersSound
  <1> QED
    BY <1>2, <1>3, <1>4 DEF SlInv

\* A use of what is not there can only come before init is over or after exit began.
LEMMA SlOopsInv ==
    ASSUME SlInv, NEW who \in {"thread", "wake", "stats"}, SlOopsAt(who),
           \E t \in SlThread : ~(slThr[t].wq /\ slThr[t].task = "live")
    PROVE  SlInv'
  <1>1. slMod.pc # "up"
    BY DEF SlInv, SlSetUp
  <1> QED
    BY <1>1 DEF SlOopsAt, SlInv, SlTypeOK, SlSetUp, SleepersSound

\* A step of a thread that is there.
LEMMA SlMoves ==
    ASSUME SlInv, NEW t \in SlThread, NEW r \in SlRecord, slThr' = [slThr EXCEPT ![t] = r],
           SlCounts(r), slThr[t].run # "none",
           r.wq = slThr[t].wq, r.task = slThr[t].task, r.stop = slThr[t].stop,
           r.run = "sleep" /\ r.asleep /\ r.stop => slMod.pc = "wake" /\ Head(slMod.rest) = t,
           UNCHANGED <<slMod, slOops>>
    PROVE  SlInv'
  <1> USE DEF SlInv
  <1>1. /\ slThr \in [SlThread -> SlRecord] /\ slThr' \in [SlThread -> SlRecord]
        /\ slThr'[t] = r /\ \A s \in SlThread \ {t} : slThr'[s] = slThr[s]
    BY DEF SlTypeOK, SlRecord, SlRuns
  <1>2. SlTypeOK'
    BY <1>1 DEF SlTypeOK, SlRecord, SlRuns
  <1>3. \A s \in SlThread : SlCounts(slThr'[s])
    BY <1>1
  <1>4. SlSetUp'
    <2>1. \A s \in SlThread : /\ slThr'[s].wq = slThr[s].wq /\ slThr'[s].task = slThr[s].task
                              /\ slThr'[s].stop = slThr[s].stop
      BY <1>1
    <2>2. slMod.rest \in Seq(SlThread) /\ slMod.pc # "init"
      BY DEF SlTypeOK, SlSetUp
    <2>3. \A i \in DOMAIN slMod.rest : slMod.rest[i] \in SlThread
      BY <2>2, LenProperties, ElementOfSeq
    <2>4. slMod.rest # << >> => Head(slMod.rest) \in SlThread
      BY <2>2, HeadTailProperties
    <2> QED
      BY <1>1, <2>1, <2>2, <2>3, <2>4 DEF SlSetUp
  <1>5. SleepersSound'
    <2> SUFFICES ASSUME NEW s \in SlThread, slThr'[s].run = "sleep", slThr'[s].asleep
                 PROVE  /\ slThr'[s].disturbs = slThr'[s].hits /\ slThr'[s].queue
                        /\ slThr'[s].stop => slMod.pc = "wake" /\ Head(slMod.rest) = s
      BY DEF SleepersSound
    <2>1. CASE s = t
      BY <1>1, <2>1 DEF SlCounts, SlRecord
    <2>2. CASE s # t
      BY <1>1, <2>2 DEF SleepersSound
    <2> QED
      BY <2>1, <2>2
  <1> QED
    BY <1>2, <1>3, <1>4, <1>5

\* Every step of a sleeper keeps its invariant.
LEMMA SlStepInv == ASSUME SlInv, NEW t \in SlThread, SlStep(t) PROVE SlInv'
  <1>1. /\ slThr \in [SlThread -> SlRecord] /\ slThr[t] \in SlRecord /\ SlCounts(slThr[t])
        /\ MaxWakes \in Nat
    BY SleeperAssumption DEF SlInv, SlTypeOK, SlRecord, SlRuns
  <1>2. slThr[t].run = "sleep" /\ slThr[t].asleep /\ slThr[t].stop
            => slMod.pc = "wake" /\ Head(slMod.rest) = t
    BY DEF SlInv, SleepersSound
  <1>3. ASSUME NEW l \in SlRuns, slThr[t].run # "none", UNCHANGED <<slMod, slOops>>,
               slThr' = [slThr EXCEPT ![t].run = l],
               SlCounts([slThr[t] EXCEPT !.run = l]),
               l = "sleep" => ~slThr[t].stop
        PROVE  SlInv'
    <2> DEFINE r == [slThr[t] EXCEPT !.run = l]
    <2>1. /\ r \in SlRecord /\ slThr' = [slThr EXCEPT ![t] = r] /\ SlCounts(r)
          /\ r.run = l /\ r.stop = slThr[t].stop /\ r.wq = slThr[t].wq /\ r.task = slThr[t].task
      BY <1>1, <1>3 DEF SlRecord, SlRuns
    <2> HIDE DEF r
    <2> QED
      BY <1>3, <2>1, SlMoves
  <1>4. CASE SlBegin(t) \/ SlAgain(t)
    <2> DEFINE l == IF slThr[t].stop THEN "dead" ELSE "top"
    <2>1. /\ slThr[t].run \in {"born", "test"} /\ slThr' = [slThr EXCEPT ![t].run = l]
          /\ UNCHANGED <<slMod, slOops>> /\ l \in SlRuns /\ l # "sleep" /\ slThr[t].run # "none"
          /\ l \in {"top", "dead"} /\ (l = "top" => ~slThr[t].stop)
      BY <1>4 DEF SlBegin, SlAgain, SlRuns
    <2> HIDE DEF l
    <2>2. SlCounts([slThr[t] EXCEPT !.run = l])
      BY <1>1, <2>1 DEF SlCounts, SlRecord
    <2> QED
      BY <1>3, <2>1, <2>2
  <1>5. CASE SlCheck(t)
    <2> DEFINE l == IF slThr[t].stop THEN "finish" ELSE "sleep"
    <2>1. /\ slThr[t].run = "check" /\ slThr' = [slThr EXCEPT ![t].run = l]
          /\ UNCHANGED <<slMod, slOops>> /\ l \in SlRuns /\ slThr[t].run # "none"
          /\ l \in {"finish", "sleep"} /\ (l = "finish" <=> slThr[t].stop)
      BY <1>1, <1>5 DEF SlCheck, SlRuns, SlRecord
    <2> HIDE DEF l
    <2>2. SlCounts([slThr[t] EXCEPT !.run = l])
      BY <1>1, <2>1 DEF SlCounts, SlRecord
    <2> QED
      BY <1>3, <2>1, <2>2
  <1>6. CASE SlAwake(t)
    <2>1. /\ slThr[t].run = "sleep" /\ ~slThr[t].asleep
          /\ slThr' = [slThr EXCEPT ![t].run = "finish"] /\ UNCHANGED <<slMod, slOops>>
      BY <1>6 DEF SlAwake
    <2>2. SlCounts([slThr[t] EXCEPT !.run = "finish"])
      BY <1>1, <2>1 DEF SlCounts, SlRecord
    <2> QED
      BY <1>3, <2>1, <2>2 DEF SlRuns
  <1>7. CASE SlPrepare(t)
    <2>1. CASE slThr[t].task = "garbage"
      BY <1>7, <2>1, SlOopsInv DEF SlPrepare
    <2>2. CASE slThr[t].task # "garbage"
      <3> DEFINE r == [slThr[t] EXCEPT !.run = "check", !.queue = TRUE, !.asleep = TRUE]
      <3>1. /\ slThr[t].run = "top" /\ UNCHANGED <<slMod, slOops>>
            /\ slThr' = [slThr EXCEPT ![t] = r]
        BY <1>1, <1>7, <2>2 DEF SlPrepare
      <3>2. /\ r \in SlRecord /\ r.wq = slThr[t].wq /\ r.task = slThr[t].task
            /\ r.stop = slThr[t].stop
            /\ r.run = "check" /\ r.queue /\ r.asleep /\ r.hits = slThr[t].hits /\ r.disturbs = slThr[t].disturbs
        BY <1>1, <3>1 DEF SlRecord, SlRuns
      <3> HIDE DEF r
      <3>3. SlCounts(r)
        BY <1>1, <3>1, <3>2 DEF SlRecord, SlCounts
      <3> QED
        BY <3>1, <3>2, <3>3, SlMoves
    <2> QED
      BY <2>1, <2>2
  <1>8. CASE SlFinish(t)
    <2> DEFINE r == [slThr[t] EXCEPT !.run = "test", !.asleep = FALSE, !.queue = FALSE,
                                     !.disturbs = slThr[t].disturbs + 1]
    <2>1. /\ slThr[t].run = "finish" /\ UNCHANGED <<slMod, slOops>>
          /\ slThr' = [slThr EXCEPT ![t] = r]
      BY <1>1, <1>8 DEF SlFinish
    <2>2. /\ slThr[t].disturbs \in Nat /\ slThr[t].hits \in 0 .. MaxWakes
          /\ slThr[t].disturbs + 1 \in 0 .. MaxWakes + 1
      BY <1>1, <2>1 DEF SlRecord, SlCounts
    <2>3. /\ r \in SlRecord /\ r.wq = slThr[t].wq /\ r.task = slThr[t].task /\ r.run = "test"
          /\ ~r.queue /\ r.stop = slThr[t].stop /\ r.hits = slThr[t].hits
          /\ r.disturbs = slThr[t].disturbs + 1
      BY <1>1, <2>1, <2>2 DEF SlRecord, SlRuns
    <2> HIDE DEF r
    <2>4. SlCounts(r)
      BY <1>1, <2>1, <2>2, <2>3 DEF SlRecord, SlCounts
    <2> QED
      BY <2>1, <2>3, <2>4, SlMoves
  <1> QED
    BY <1>4, <1>5, <1>6, <1>7, <1>8 DEF SlStep

\* A write that finds a thread on its queue.
LEMMA SlWakeInv == ASSUME SlInv, NEW t \in SlThread, SlWake(t) PROVE SlInv'
  <1>1. /\ slThr \in [SlThread -> SlRecord] /\ slThr[t] \in SlRecord /\ SlCounts(slThr[t])
        /\ MaxWakes \in Nat
    BY SleeperAssumption DEF SlInv, SlTypeOK, SlRecord, SlRuns
  <1>2. CASE ~slThr[t].wq
    BY <1>2, SlOopsInv DEF SlWake
  <1>3. CASE slThr[t].wq
    <2> DEFINE r == [slThr[t] EXCEPT !.queue = FALSE, !.asleep = FALSE, !.hits = slThr[t].hits + 1]
    <2>1. /\ slThr[t].queue /\ slThr[t].hits < MaxWakes /\ UNCHANGED <<slMod, slOops>>
          /\ slThr' = [slThr EXCEPT ![t] = r]
      BY <1>1, <1>3 DEF SlWake
    <2>2. slThr[t].hits \in Nat /\ slThr[t].run # "none" /\ slThr[t].hits + 1 \in 0 .. MaxWakes
      BY <1>1, <2>1 DEF SlCounts, SlRecord
    <2>3. /\ r \in SlRecord /\ r.wq = slThr[t].wq /\ r.task = slThr[t].task /\ ~r.asleep
          /\ r.stop = slThr[t].stop
      BY <1>1, <2>2 DEF SlRecord, SlRuns
    <2>4. SlCounts(r)
      BY <1>1, <2>1, <2>2 DEF SlRecord, SlCounts
    <2> HIDE DEF r
    <2> QED
      BY <2>1, <2>2, <2>3, <2>4, SlMoves
  <1> QED
    BY <1>2, <1>3

\* Numbers counted up, or down, are threads.
LEMMA SlRests ==
    /\ [i \in 1 .. SlThreads |-> i - 1] \in Seq(SlThread)
    /\ \A t \in SlThread : [i \in 1 .. t |-> t - i] \in Seq(SlThread)
    /\ \A t \in SlThread : \E i \in 1 .. SlThreads : i - 1 = t
  <1>1. \A t \in SlThread : t \in Nat /\ \A i \in 1 .. t : t - i \in SlThread
    BY SleeperAssumption DEF SlThread
  <1>2. \A i \in 1 .. SlThreads : i - 1 \in SlThread
    BY SleeperAssumption DEF SlThread
  <1>3. \A t \in SlThread : \E i \in 1 .. SlThreads : i - 1 = t
    <2> USE SleeperAssumption DEF SlThread
    <2> TAKE t \in SlThread
    <2> WITNESS t + 1 \in 1 .. SlThreads
    <2> QED
      OBVIOUS
  <1>4. \A t \in SlThread : [i \in 1 .. t |-> t - i] \in Seq(SlThread)
    BY <1>1, IsASeq
  <1>5. [i \in 1 .. SlThreads |-> i - 1] \in Seq(SlThread)
    BY <1>2, SleeperAssumption, IsASeq
  <1> QED
    BY <1>3, <1>4, <1>5

\* Init and exit before the first thread, between threads and after the last one.
LEMMA SlPhaseInv ==
    ASSUME SlInv, slOops = "none", SlCreateFiles \/ SlUp \/ SlExit \/ SlRemoveFiles
    PROVE  SlInv'
  <1> USE DEF SlInv
  <1>1. UNCHANGED <<slThr, slOops>>
    BY DEF SlCreateFiles, SlUp, SlExit, SlRemoveFiles
  <1> DEFINE all == [i \in 1 .. SlThreads |-> i - 1]
  <1>2. /\ slMod.pc \notin {"run", "wake", "join"}
        /\ slMod'.pc \in {"setup", "up", "stop", "gone"}
        /\ slMod' \in [pc : {"setup", "up", "stop", "gone"}, rest : Seq(SlThread), files : BOOLEAN]
        /\ slMod'.pc = "setup" => slMod.pc = "init" /\ slMod'.rest = all
        /\ slMod'.pc = "up" => slMod.pc = "setup" /\ slMod.rest = << >>
    <2>1. all \in Seq(SlThread)
      BY SlRests
    <2>2. slMod \in [pc : {"init", "setup", "run", "up", "stop", "wake", "join", "gone"},
                     rest : Seq(SlThread), files : BOOLEAN]
      BY DEF SlTypeOK
    <2> HIDE DEF all, SlInv
    <2>3. CASE SlCreateFiles
      <3>1. CASE slMod.pc = "init" /\ slMod' = [pc |-> "setup", rest |-> all, files |-> TRUE]
        BY <2>1, <2>2, <3>1
      <3>2. CASE slMod.pc = "init" /\ slMod' = [slMod EXCEPT !.pc = "gone"]
        BY <2>1, <2>2, <3>2
      <3> QED
        BY <2>3, <3>1, <3>2 DEF SlCreateFiles, all
    <2>4. CASE SlUp
      BY <2>2, <2>4 DEF SlUp
    <2>5. CASE SlExit
      <3>1. slMod.pc = "up" /\ slMod' = [slMod EXCEPT !.pc = "stop", !.rest = all]
        BY <2>5 DEF SlExit, all
      <3> QED
        BY <2>1, <2>2, <3>1
    <2>6. CASE SlRemoveFiles
      BY <2>2, <2>6 DEF SlRemoveFiles
    <2> QED
      BY <2>3, <2>4, <2>5, <2>6
  <1>3. SlTypeOK'
    BY <1>1, <1>2 DEF SlTypeOK
  <1>4. SlSetUp'
    <2>1. CASE slMod'.pc = "setup"
      <3>1. slMod.pc = "init" /\ slMod'.rest = all
        BY <1>2, <2>1
      <3>2. DOMAIN slMod'.rest = 1 .. SlThreads /\ \A i \in 1 .. SlThreads : slMod'.rest[i] = i - 1
        BY <3>1
      <3> HIDE DEF all
      <3>3. \A i \in 1 .. SlThreads : i - 1 \in SlThread
        BY SleeperAssumption DEF SlThread
      <3>4. \A i, j \in 1 .. SlThreads : i - 1 = j - 1 => i = j
        BY SleeperAssumption
      <3>5. \A t \in SlThread : slThr[t].run = "none"
        BY <3>1 DEF SlSetUp
      <3>6. \A t \in SlThread : \E i \in DOMAIN slMod'.rest : slMod'.rest[i] = t
        BY <3>2, SlRests
      <3>7. \A i, j \in DOMAIN slMod'.rest : slMod'.rest[i] = slMod'.rest[j] => i = j
        BY <3>2, <3>4
      <3>8. \A i \in DOMAIN slMod'.rest : slMod'.rest[i] \in SlThread
        BY <3>2, <3>3
      <3> QED
        BY <1>1, <2>1, <3>5, <3>6, <3>7, <3>8 DEF SlSetUp
    <2>2. CASE slMod'.pc = "up"
      <3>1. slMod.pc = "setup" /\ slMod.rest = << >> /\ DOMAIN slMod.rest = {}
        BY <1>2, <2>2, EmptySeq
      <3> QED
        BY <1>1, <2>2, <3>1 DEF SlSetUp
    <2>3. CASE slMod'.pc \in {"stop", "gone"}
      BY <2>3 DEF SlSetUp
    <2> QED
      BY <1>2, <2>1, <2>2, <2>3
  <1>5. SleepersSound'
    BY <1>1, <1>2 DEF SleepersSound
  <1> QED
    BY <1>1, <1>3, <1>4, <1>5

\* The thread that init or exit works on.
LEMMA SlHead ==
    ASSUME SlInv, slMod.rest # << >>
    PROVE  /\ Head(slMod.rest) \in SlThread /\ Head(slMod.rest) = slMod.rest[1]
           /\ 1 \in DOMAIN slMod.rest /\ Tail(slMod.rest) \in Seq(SlThread)
           /\ \A i \in DOMAIN Tail(slMod.rest) :
                 /\ i # 0 /\ i + 1 # 1 /\ i + 1 \in DOMAIN slMod.rest
                 /\ Tail(slMod.rest)[i] = slMod.rest[i + 1]
           /\ \A i \in DOMAIN slMod.rest :
                 i = 1 \/ \E j \in DOMAIN Tail(slMod.rest) : i = j + 1
           /\ \A i, j \in DOMAIN Tail(slMod.rest) : i + 1 = j + 1 => i = j
  <1> DEFINE q == slMod.rest
  <1>1. q \in Seq(SlThread) /\ q # << >>
    BY DEF SlInv, SlTypeOK
  <1> HIDE DEF q
  <1>2. Len(q) \in Nat /\ Len(q) > 0 /\ DOMAIN q = 1 .. Len(q)
    BY <1>1, LenProperties, EmptySeq
  <1>3. /\ Tail(q) \in Seq(SlThread) /\ Len(Tail(q)) = Len(q) - 1 /\ Head(q) \in SlThread
        /\ \A i \in 1 .. Len(Tail(q)) : Tail(q)[i] = q[i + 1]
    BY <1>1, HeadTailProperties
  <1>4. DOMAIN Tail(q) = 1 .. Len(q) - 1
    BY <1>3, LenProperties
  <1>5. Head(q) = q[1]
    BY <1>1
  <1>6. \A i \in DOMAIN q : i = 1 \/ (\E j \in DOMAIN Tail(q) : i = j + 1)
    <2> SUFFICES ASSUME NEW i \in 1 .. Len(q), i # 1
                 PROVE  i - 1 \in 1 .. Len(q) - 1 /\ i = i - 1 + 1
      BY <1>2, <1>4
    <2> QED
      BY <1>2
  <1>7. /\ \A i \in DOMAIN Tail(q) : /\ i # 0 /\ i + 1 # 1 /\ i + 1 \in DOMAIN q
                                     /\ Tail(q)[i] = q[i + 1]
        /\ \A i, j \in DOMAIN Tail(q) : i + 1 = j + 1 => i = j
    BY <1>2, <1>3, <1>4
  <1> QED
    BY <1>2, <1>3, <1>5, <1>6, <1>7 DEF q

\* A thread is set up, with the kernel's or without.
LEMMA SlSetupInv == ASSUME SlInv, SlSetup PROVE SlInv'
  <1> DEFINE t == Head(slMod.rest)
             r == [slThr[t] EXCEPT !.wq = TRUE, !.disturbs = 0]
  <1> USE DEF SlInv
  <1>1. slMod.pc = "setup" /\ slMod.rest # << >> /\ UNCHANGED slOops
    BY DEF SlSetup
  <1>2. /\ t \in SlThread /\ t = slMod.rest[1] /\ 1 \in DOMAIN slMod.rest
    BY <1>1, SlHead
  <1>3. /\ slThr \in [SlThread -> SlRecord] /\ slThr[t] \in SlRecord
        /\ slMod \in [pc : {"init", "setup", "run", "up", "stop", "wake", "join", "gone"},
                      rest : Seq(SlThread), files : BOOLEAN]
    BY <1>2 DEF SlTypeOK, SlRecord, SlRuns
  <1>4. /\ slThr[t].run = "none" /\ SlCounts(slThr[t])
        /\ slThr[t].hits = 0 /\ slThr[t].disturbs = 0 /\ ~slThr[t].queue
    BY <1>1, <1>2 DEF SlSetUp, SlCounts
  <1>5. \/ /\ slThr' = [slThr EXCEPT ![t] = [r EXCEPT !.run = "born"]]
           /\ slMod' = [slMod EXCEPT !.pc = "run"]
        \/ /\ slThr' = [slThr EXCEPT ![t] = r]
           /\ slMod' = [slMod EXCEPT !.pc = "stop", !.rest = [i \in 1 .. t |-> t - i]]
    BY <1>3 DEF SlSetup
  <1>6. /\ r \in SlRecord /\ r.run = "none" /\ r.wq /\ SlCounts(r)
        /\ [r EXCEPT !.run = "born"] \in SlRecord /\ SlCounts([r EXCEPT !.run = "born"])
        /\ [r EXCEPT !.run = "born"].wq /\ [r EXCEPT !.run = "born"].run = "born"
    BY <1>3, <1>4, SleeperAssumption DEF SlRecord, SlRuns, SlCounts
  <1>7. [i \in 1 .. t |-> t - i] \in Seq(SlThread)
    BY <1>2, SlRests
  <1> HIDE DEF t, r
  <1>8. PICK q \in SlRecord : /\ slThr' = [slThr EXCEPT ![t] = q] /\ SlCounts(q)
                              /\ q.wq /\ q.run \in {"none", "born"}
    BY <1>5, <1>6
  <1>9. /\ slThr' \in [SlThread -> SlRecord] /\ slThr'[t] = q
        /\ \A s \in SlThread \ {t} : slThr'[s] = slThr[s]
    BY <1>2, <1>3, <1>8
  <1>10. \/ slMod'.pc = "run" /\ slMod'.rest = slMod.rest
         \/ slMod'.pc = "stop"
    BY <1>3, <1>5
  <1>11. SlTypeOK'
    <2>1. slMod' \in [pc : {"init", "setup", "run", "up", "stop", "wake", "join", "gone"},
                      rest : Seq(SlThread), files : BOOLEAN]
      BY <1>3, <1>5, <1>7
    <2> QED
      BY <1>1, <1>9, <2>1 DEF SlTypeOK, SlRecord, SlRuns
  <1>12. \A s \in SlThread : SlCounts(slThr'[s])
    BY <1>8, <1>9
  <1>13. SlSetUp'
    <2>1. CASE slMod'.pc = "stop"
      BY <2>1 DEF SlSetUp
    <2>2. CASE slMod'.pc = "run" /\ slMod'.rest = slMod.rest
      <3>1. \A i \in DOMAIN slMod.rest : slMod.rest[i] \in SlThread
        BY <1>3, LenProperties, ElementOfSeq
      <3>2. Head(slMod'.rest) = t
        BY <2>2 DEF t
      <3> QED
        BY <1>1, <1>2, <1>8, <1>9, <2>2, <3>1, <3>2 DEF SlSetUp
    <2> QED
      BY <1>10, <2>1, <2>2
  <1>14. SleepersSound'
    BY <1>1, <1>8, <1>9, <1>10 DEF SleepersSound
  <1> QED
    BY <1>11, <1>12, <1>13, <1>14

\* kthread_run has returned: the thread's task is known, and it is not to be set up again.
LEMMA SlAssignInv == ASSUME SlInv, SlAssign PROVE SlInv'
  <1> DEFINE t == Head(slMod.rest)
             r == [slThr[t] EXCEPT !.task = "live"]
  <1> USE DEF SlInv
  <1>1. slMod.pc = "run" /\ slMod.rest # << >> /\ UNCHANGED slOops
    BY DEF SlAssign, SlSetUp
  <1>2. /\ t \in SlThread /\ t = slMod.rest[1] /\ 1 \in DOMAIN slMod.rest
        /\ Tail(slMod.rest) \in Seq(SlThread)
        /\ \A i \in DOMAIN Tail(slMod.rest) :
              /\ i + 1 # 1 /\ i + 1 \in DOMAIN slMod.rest
              /\ Tail(slMod.rest)[i] = slMod.rest[i + 1]
        /\ \A i \in DOMAIN slMod.rest :
              i = 1 \/ \E j \in DOMAIN Tail(slMod.rest) : i = j + 1
        /\ \A i, j \in DOMAIN Tail(slMod.rest) : i + 1 = j + 1 => i = j
    BY <1>1, SlHead
  <1>3. /\ slThr \in [SlThread -> SlRecord] /\ slThr[t] \in SlRecord
        /\ slMod \in [pc : {"init", "setup", "run", "up", "stop", "wake", "join", "gone"},
                      rest : Seq(SlThread), files : BOOLEAN]
    BY <1>2 DEF SlTypeOK, SlRecord, SlRuns
  <1>4. SlCounts(slThr[t]) /\ slThr[t].wq
    BY <1>1, <1>2 DEF SlSetUp
  <1>5. /\ slThr' = [slThr EXCEPT ![t] = r]
        /\ slMod' = [slMod EXCEPT !.pc = "setup", !.rest = Tail(slMod.rest)]
    BY <1>3 DEF SlAssign
  <1>6. /\ r \in SlRecord /\ r.wq /\ r.task = "live" /\ SlCounts(r)
        /\ r.run = slThr[t].run /\ r.asleep = slThr[t].asleep /\ r.stop = slThr[t].stop
        /\ r.hits = slThr[t].hits /\ r.disturbs = slThr[t].disturbs /\ r.queue = slThr[t].queue
    BY <1>3, <1>4 DEF SlRecord, SlRuns, SlCounts
  <1>7. slMod'.pc = "setup" /\ slMod'.rest = Tail(slMod.rest) /\ slMod'.files = slMod.files
    BY <1>3, <1>5
  <1> DEFINE q == Tail(slMod.rest)
  <1> HIDE DEF t, r, q
  <1>9. /\ slThr' \in [SlThread -> SlRecord] /\ slThr'[t] = r
        /\ \A s \in SlThread \ {t} : slThr'[s] = slThr[s]
    BY <1>2, <1>3, <1>5, <1>6
  <1>11. SlTypeOK'
    <2>1. slMod' \in [pc : {"init", "setup", "run", "up", "stop", "wake", "join", "gone"},
                      rest : Seq(SlThread), files : BOOLEAN]
      BY <1>2, <1>3, <1>5
    <2> QED
      BY <1>1, <1>9, <2>1 DEF SlTypeOK, SlRecord, SlRuns
  <1>12. \A s \in SlThread : SlCounts(slThr'[s])
    BY <1>6, <1>9
  <1>13. SlSetUp'
    <2>1. \A i \in DOMAIN q : /\ i + 1 # 1 /\ i + 1 \in DOMAIN slMod.rest /\ q[i] = slMod.rest[i + 1]
      BY <1>2 DEF q
    <2>2. \A i \in DOMAIN slMod.rest : i = 1 \/ \E j \in DOMAIN q : i = j + 1
      BY <1>2 DEF q
    <2>3. \A i, j \in DOMAIN q : q[i] = q[j] => i = j
      BY <1>1, <1>2, <2>1 DEF SlSetUp, q
    <2>4. \A i \in DOMAIN q : q[i] \in SlThread /\ q[i] # t
      <3>1. \A i \in DOMAIN q : q[i] \in SlThread
        BY <1>2, LenProperties, ElementOfSeq DEF q
      <3>2. \A i \in DOMAIN q : q[i] # t
        BY <1>1, <1>2, <2>1 DEF SlSetUp
      <3> QED
        BY <3>1, <3>2
    <2>5. \A i \in DOMAIN q : slThr'[q[i]].run = "none"
      <3>1. \A i \in DOMAIN q : slThr[q[i]].run = "none"
        BY <1>1, <2>1 DEF SlSetUp
      <3> QED
        BY <1>9, <2>4, <3>1
    <2>6. \A s \in SlThread : (slThr'[s].wq /\ slThr'[s].task = "live") \/ (\E i \in DOMAIN q : q[i] = s)
      <3> SUFFICES ASSUME NEW s \in SlThread, s # t, ~(slThr[s].wq /\ slThr[s].task = "live")
                   PROVE  \E i \in DOMAIN q : q[i] = s
        BY <1>6, <1>9
      <3>1. PICK i \in DOMAIN slMod.rest : slMod.rest[i] = s
        BY <1>1 DEF SlSetUp
      <3>2. i # 1
        BY <1>2, <3>1
      <3> QED
        BY <2>1, <2>2, <3>1, <3>2
    <2> QED
      BY <1>7, <2>3, <2>5, <2>6 DEF SlSetUp, q
  <1>14. SleepersSound'
    <2>1. \A s \in SlThread : /\ slThr'[s].run = slThr[s].run /\ slThr'[s].asleep = slThr[s].asleep
                              /\ slThr'[s].stop = slThr[s].stop /\ slThr'[s].hits = slThr[s].hits
                              /\ slThr'[s].disturbs = slThr[s].disturbs
                              /\ slThr'[s].queue = slThr[s].queue
      BY <1>6, <1>9
    <2> QED
      BY <1>1, <1>7, <2>1 DEF SleepersSound
  <1> QED
    BY <1>11, <1>12, <1>13, <1>14

\* kthread_stop: the thread is told, woken, and waited for.
LEMMA SlStopInv == ASSUME SlInv, SlStop \/ SlStopWake \/ SlJoin PROVE SlInv'
  <1> DEFINE t == Head(slMod.rest)
  <1> USE DEF SlInv
  <1>1. slMod.pc \in {"stop", "wake", "join"} /\ slMod.rest # << >> /\ UNCHANGED slOops
    BY DEF SlStop, SlStopWake, SlJoin, SlSetUp
  <1>2. t \in SlThread /\ Tail(slMod.rest) \in Seq(SlThread)
    BY <1>1, SlHead
  <1>3. /\ slThr \in [SlThread -> SlRecord] /\ slThr[t] \in SlRecord
        /\ slMod \in [pc : {"init", "setup", "run", "up", "stop", "wake", "join", "gone"},
                      rest : Seq(SlThread), files : BOOLEAN]
    BY <1>2 DEF SlTypeOK, SlRecord, SlRuns
  <1>4. SlCounts(slThr[t])
    BY <1>2
  <1>5. PICK r \in SlRecord :
            /\ slThr' = [slThr EXCEPT ![t] = r] /\ SlCounts(r)
            /\ slMod.pc = "stop" => r.stop /\ slMod'.pc = "wake" /\ slMod'.rest = slMod.rest
            /\ slMod.pc = "wake" => ~r.asleep /\ slMod'.pc = "join" /\ slMod'.rest = slMod.rest
            /\ slMod.pc = "join" => /\ slMod'.pc = "stop" /\ slMod'.rest = Tail(slMod.rest)
                                    /\ r.run = "dead"
            /\ slMod'.files = slMod.files /\ slMod' \in [pc : {"stop", "wake", "join"},
                                                        rest : Seq(SlThread), files : BOOLEAN]
    <2>1. CASE SlStop
      <3> DEFINE r == [slThr[t] EXCEPT !.stop = TRUE]
      <3>1. /\ slMod.pc = "stop" /\ slThr' = [slThr EXCEPT ![t] = r]
            /\ slMod' = [slMod EXCEPT !.pc = "wake"]
        BY <1>3, <2>1 DEF SlStop
      <3>2. r \in SlRecord /\ SlCounts(r) /\ r.stop
        BY <1>3, <1>4 DEF SlRecord, SlRuns, SlCounts
      <3> HIDE DEF r, t
      <3> QED
        BY <1>3, <3>1, <3>2
    <2>2. CASE SlStopWake
      <3> DEFINE r == [slThr[t] EXCEPT !.asleep = FALSE]
      <3>1. /\ slMod.pc = "wake" /\ slThr' = [slThr EXCEPT ![t] = r] /\ slThr[t].stop
            /\ slMod' = [slMod EXCEPT !.pc = "join"]
        BY <1>3, <2>2 DEF SlStopWake, SlSetUp
      <3>2. r \in SlRecord /\ SlCounts(r) /\ ~r.asleep
        BY <1>3, <1>4, <3>1 DEF SlRecord, SlRuns, SlCounts
      <3> HIDE DEF r, t
      <3> QED
        BY <1>3, <3>1, <3>2
    <2>3. CASE SlJoin
      <3> DEFINE r == [slThr[t] EXCEPT !.task = "freed"]
      <3>1. /\ slMod.pc = "join" /\ slThr' = [slThr EXCEPT ![t] = r] /\ slThr[t].run = "dead"
            /\ slMod' = [slMod EXCEPT !.pc = "stop", !.rest = Tail(slMod.rest)]
        BY <1>3, <2>3 DEF SlJoin
      <3>2. r \in SlRecord /\ SlCounts(r) /\ r.run = "dead"
        BY <1>3, <1>4, <3>1 DEF SlRecord, SlRuns, SlCounts
      <3>3. slMod'.pc = "stop" /\ slMod'.rest = Tail(slMod.rest) /\ slMod'.files = slMod.files
            /\ slMod' \in [pc : {"stop", "wake", "join"}, rest : Seq(SlThread), files : BOOLEAN]
        BY <1>2, <1>3, <3>1
      <3> HIDE DEF r, t
      <3> QED
        BY <3>1, <3>2, <3>3
    <2> QED
      BY <2>1, <2>2, <2>3
  <1>6. slMod'.rest = slMod.rest => Head(slMod'.rest) = t
    OBVIOUS
  <1> HIDE DEF t
  <1>7. /\ slThr' \in [SlThread -> SlRecord] /\ slThr'[t] = r
        /\ \A s \in SlThread \ {t} : slThr'[s] = slThr[s]
    BY <1>2, <1>3, <1>5
  <1>8. SlTypeOK'
    BY <1>1, <1>5, <1>7 DEF SlTypeOK, SlRecord, SlRuns
  <1>9. \A s \in SlThread : SlCounts(slThr'[s])
    BY <1>5, <1>7
  <1>10. SlSetUp'
    <2>1. slMod'.pc \in {"stop", "wake", "join"} /\ (slMod'.pc \in {"wake", "join"} => slMod'.rest # << >>)
      BY <1>1, <1>5
    <2>2. slMod'.pc = "wake" => slThr'[Head(slMod'.rest)].stop
      BY <1>1, <1>5, <1>6, <1>7
    <2> QED
      BY <2>1, <2>2 DEF SlSetUp
  <1>11. SleepersSound'
    <2> SUFFICES ASSUME NEW s \in SlThread, slThr'[s].run = "sleep", slThr'[s].asleep
                 PROVE  /\ slThr'[s].disturbs = slThr'[s].hits /\ slThr'[s].queue
                        /\ slThr'[s].stop => slMod'.pc = "wake" /\ Head(slMod'.rest) = s
      BY <1>1, <1>5 DEF SleepersSound
    <2>1. slThr'[s].disturbs = slThr'[s].hits /\ slThr'[s].queue
      <3>1. SlCounts(slThr'[s]) /\ slThr'[s] \in SlRecord
        BY <1>7, <1>9
      <3> QED
        BY <3>1 DEF SlCounts, SlRecord
    <2>2. CASE s = t
      BY <1>1, <1>5, <1>6, <1>7, <2>1, <2>2
    <2>3. CASE s # t
      BY <1>1, <1>7, <2>1, <2>3 DEF SleepersSound, t
    <2> QED
      BY <2>2, <2>3
  <1> QED
    BY <1>8, <1>9, <1>10, <1>11

\* SlInv is inductive.
LEMMA SlInvStep == SlInv /\ [SlNext]_slVars => SlInv'
  <1> SUFFICES ASSUME SlInv, [SlNext]_slVars PROVE SlInv'
    OBVIOUS
  <1>1. CASE UNCHANGED slVars
    BY <1>1 DEF slVars, SlInv, SlTypeOK, SlSetUp, SleepersSound
  <1>2. CASE SlStats
    BY <1>2, SlOopsInv DEF SlStats
  <1> QED
    BY <1>1, <1>2, SlSetupInv, SlAssignInv, SlStopInv, SlPhaseInv, SlStepInv, SlWakeInv
    DEF SlNext, SlModStep

-----------------------------------------------------------------------------
(* The contents of bufhub's clipboards.                                    *)

ClInv == ClTypeOK /\ ClipboardSound

\* The clipboard is empty and no file is open.
LEMMA ClInitInv == ClInit => ClInv
  <1> SUFFICES ASSUME ClInit PROVE ClInv
    OBVIOUS
  <1>1. ClCap \in Nat /\ ClMaxPos \in Nat
    BY ClipboardAssumption
  <1>2. ClTypeOK
    <2>1. clPos \in [ClFile -> Closed .. ClMaxPos]
      BY <1>1 DEF ClInit, Closed
    <2> QED
      BY <2>1 DEF ClInit, ClTypeOK
  <1>3. clLen <= ClCap /\ \A f \in ClFile : ~(clPos[f] > clLen)
    BY <1>1 DEF ClInit, Closed
  <1>4. \A i \in 0 .. (clLen - 1) : clBuf[i] = "new"
    BY DEF ClInit
  <1> QED
    BY <1>2, <1>3, <1>4 DEF ClInv, ClipboardSound, ClInit

\* Up to the end of the data no more than the data is read.
LEMMA ClReadableFacts ==
    ASSUME ClInv, NEW pos \in 0 .. ClMaxPos, NEW count \in Nat
    PROVE  /\ ClReadable(pos, count) \in Nat
           /\ pos <= clLen => pos + ClReadable(pos, count) <= clLen
  <1>1. /\ ClCap \in Nat /\ ClMaxPos \in Nat /\ ClWord \in Int
        /\ ClCap <= ClMaxPos /\ ClMaxPos < ClWord /\ clLen \in Nat /\ clLen <= ClCap
    BY ClipboardAssumption DEF ClInv, ClTypeOK, ClipboardSound
  <1>2. (clLen - pos) % ClWord \in Nat /\ (pos <= clLen => (clLen - pos) % ClWord = clLen - pos)
    BY <1>1
  <1> QED
    BY <1>1, <1>2 DEF ClReadable, ClLeast

\* An open.
LEMMA ClOpenInv == ASSUME ClInv, NEW f \in ClFile, NEW w \in BOOLEAN, ClOpen(f, w) PROVE ClInv'
  <1> USE DEF ClInv
  <1>1. /\ clPos \in [ClFile -> Closed .. ClMaxPos] /\ clPos[f] = Closed
        /\ clPos' = [clPos EXCEPT ![f] = 0] /\ UNCHANGED <<clSeek, clPast>>
        /\ ClMaxPos \in Nat /\ ClCap \in Nat /\ clLen \in Nat
    BY ClipboardAssumption DEF ClOpen, ClTypeOK
  <1>2. /\ clPos' \in [ClFile -> Closed .. ClMaxPos] /\ clPos'[f] = 0
        /\ \A g \in ClFile \ {f} : clPos'[g] = clPos[g]
    BY <1>1 DEF Closed
  <1>3. ClOpened' = ClOpened \union {f} /\ f \notin ClOpened
    BY <1>1, <1>2 DEF ClOpened, Closed
  <1>4. CASE w
    <2>1. /\ clLen' = 0 /\ clHole' = FALSE /\ clEmptied' = clEmptied \union ClOpened
          /\ clBuf' \in [ClIndex -> {"zero", "old", "new"}]
      BY <1>4 DEF ClOpen, ClTypeOK
    <2>2. ClTypeOK'
      BY <1>1, <1>2, <1>3, <2>1 DEF ClTypeOK
    <2>3. \A g \in ClFile : clPos'[g] > clLen' => g \in clEmptied'
      BY <1>1, <1>2, <2>1 DEF ClOpened, Closed
    <2>4. clLen' <= ClCap /\ \A i \in 0 .. (clLen' - 1) : clBuf'[i] = "new"
      BY <1>1, <2>1
    <2> QED
      BY <1>1, <2>2, <2>3, <2>4 DEF ClipboardSound
  <1>5. CASE ~w
    <2>1. UNCHANGED <<clBuf, clLen, clHole, clEmptied>>
      BY <1>5 DEF ClOpen
    <2>2. ClTypeOK'
      BY <1>1, <1>2, <1>3, <2>1 DEF ClTypeOK
    <2>3. \A g \in ClFile : clPos'[g] > clLen => g \in clSeek \union clEmptied
      BY <1>1, <1>2 DEF ClipboardSound
    <2> QED
      BY <1>1, <2>1, <2>2, <2>3 DEF ClipboardSound
  <1> QED
    BY <1>4, <1>5

\* A close.
LEMMA ClCloseInv == ASSUME ClInv, NEW f \in ClFile, ClClose(f) PROVE ClInv'
  <1> USE DEF ClInv
  <1>1. /\ clPos \in [ClFile -> Closed .. ClMaxPos] /\ clPos' = [clPos EXCEPT ![f] = Closed]
        /\ clSeek' = clSeek \ {f} /\ clEmptied' = clEmptied \ {f}
        /\ UNCHANGED <<clBuf, clLen, clHole, clPast>>
        /\ ClMaxPos \in Nat /\ clLen \in Nat
    BY ClipboardAssumption DEF ClClose, ClTypeOK
  <1>2. /\ clPos' \in [ClFile -> Closed .. ClMaxPos] /\ clPos'[f] = Closed
        /\ \A g \in ClFile \ {f} : clPos'[g] = clPos[g]
    BY <1>1 DEF Closed
  <1>3. ClOpened' = ClOpened \ {f}
    BY <1>1, <1>2 DEF ClOpened
  <1>4. ClTypeOK'
    BY <1>1, <1>2, <1>3 DEF ClTypeOK
  <1>5. \A g \in ClFile : clPos'[g] > clLen => g # f /\ g \in clSeek \union clEmptied
    BY <1>1, <1>2 DEF ClipboardSound, Closed
  <1> QED
    BY <1>1, <1>4, <1>5 DEF ClipboardSound

\* A seek.
LEMMA ClSeekInv ==
    ASSUME ClInv, NEW f \in ClFile, NEW pos \in 0 .. ClMaxPos, ClSeekTo(f, pos) PROVE ClInv'
  <1> USE DEF ClInv
  <1>1. /\ clPos \in [ClFile -> Closed .. ClMaxPos] /\ clPos' = [clPos EXCEPT ![f] = pos]
        /\ clSeek' = clSeek \union {f} /\ clPos[f] # Closed
        /\ UNCHANGED <<clBuf, clLen, clEmptied, clHole, clPast>>
        /\ ClMaxPos \in Nat /\ clLen \in Nat
    BY ClipboardAssumption DEF ClSeekTo, ClTypeOK
  <1>2. /\ clPos' \in [ClFile -> Closed .. ClMaxPos] /\ clPos'[f] = pos /\ pos # Closed
        /\ \A g \in ClFile \ {f} : clPos'[g] = clPos[g]
    BY <1>1 DEF Closed
  <1>3. ClOpened' = ClOpened /\ f \in ClOpened
    BY <1>1, <1>2 DEF ClOpened
  <1>4. ClTypeOK'
    BY <1>1, <1>2, <1>3 DEF ClTypeOK
  <1>5. \A g \in ClFile : clPos'[g] > clLen => g = f \/ g \in clSeek \union clEmptied
    BY <1>1, <1>2 DEF ClipboardSound
  <1> QED
    BY <1>1, <1>4, <1>5 DEF ClipboardSound

\* A read that begins before the end of the data ends there.
LEMMA ClReadInv ==
    ASSUME ClInv, NEW f \in ClFile, NEW count \in 0 .. ClMaxCount, NEW missing \in 0 .. ClMaxCount,
           ClRead(f, count, missing)
    PROVE  ClInv'
  <1> DEFINE pos == clPos[f]
             n   == ClReadable(pos, count)
  <1> USE DEF ClInv
  <1>1. /\ clPos \in [ClFile -> Closed .. ClMaxPos] /\ ClMaxPos \in Nat /\ clLen \in Nat
        /\ pos # Closed /\ missing <= n
        /\ clPast' = IF pos + n - missing <= clLen \/ n = missing THEN "nothing"
                     ELSE IF pos <= clLen THEN "begun" ELSE "lost"
        /\ pos + n <= ClMaxPos
        /\ clPos' = [clPos EXCEPT ![f] = IF missing = 0 THEN pos + n ELSE pos]
        /\ UNCHANGED <<clBuf, clLen, clSeek, clEmptied, clHole>>
    BY ClipboardAssumption DEF ClRead, ClTypeOK
  <1>2. pos \in 0 .. ClMaxPos
    BY <1>1 DEF Closed
  <1>3. count \in Nat /\ missing \in Nat
    BY ClipboardAssumption
  <1>4. n \in Nat /\ (pos <= clLen => pos + n <= clLen)
    BY <1>2, <1>3, ClReadableFacts
  <1> HIDE DEF n
  <1>5. /\ clPos' \in [ClFile -> Closed .. ClMaxPos]
        /\ clPos'[f] \in {pos, pos + n} /\ clPos'[f] # Closed
        /\ \A g \in ClFile \ {f} : clPos'[g] = clPos[g]
    BY <1>1, <1>2, <1>4 DEF Closed
  <1>6. ClOpened' = ClOpened
    BY <1>1, <1>5 DEF ClOpened
  <1>7. clPast' \in {"nothing", "lost"}
    BY <1>1, <1>2, <1>3, <1>4
  <1>8. ClTypeOK'
    BY <1>1, <1>5, <1>6, <1>7 DEF ClTypeOK
  <1>9. \A g \in ClFile : clPos'[g] > clLen => g \in clSeek \union clEmptied
    <2> SUFFICES ASSUME NEW g \in ClFile, clPos'[g] > clLen PROVE clPos[g] > clLen
      BY DEF ClipboardSound
    <2> QED
      BY <1>1, <1>2, <1>4, <1>5
  <1> QED
    BY <1>1, <1>7, <1>8, <1>9 DEF ClipboardSound

\* What a write adds is new, and follows what is there unless it leaves a hole.
LEMMA ClWriteInv ==
    ASSUME ClInv, NEW f \in ClFile, NEW count \in 0 .. ClMaxCount, NEW missing \in 0 .. ClMaxCount,
           ClWrite(f, count, missing)
    PROVE  ClInv'
  <1> DEFINE pos == clPos[f]
             n   == ClLeast(count, ClCap - pos)
             end == ClEnd(pos + n)
  <1> USE DEF ClInv
  <1>1. /\ clPos \in [ClFile -> Closed .. ClMaxPos] /\ ClMaxPos \in Nat /\ clLen \in Nat
        /\ ClCap \in Nat /\ ClCap <= ClMaxPos /\ clLen <= ClCap
        /\ count \in Nat /\ missing \in Nat
        /\ clBuf \in [ClIndex -> {"zero", "old", "new"}] /\ clHole \in BOOLEAN
    BY ClipboardAssumption DEF ClTypeOK, ClipboardSound
  <1>2. /\ pos # Closed /\ pos < ClCap /\ missing <= n
        /\ clHole' = (clHole \/ pos > clLen \/ missing > 0)
        /\ UNCHANGED <<clSeek, clEmptied, clPast>>
        /\ missing = 0 => clPos' = [clPos EXCEPT ![f] = pos + n] /\ clLen' = end
        /\ missing # 0 => UNCHANGED <<clPos, clLen>>
    BY DEF ClWrite
  <1>3. PICK cleared \in BOOLEAN :
            clBuf' = [i \in ClIndex |->
                        IF i \in pos .. (pos + n - missing - 1) THEN "new"
                        ELSE IF cleared /\ i \in pos .. (pos + n - 1) THEN "zero"
                        ELSE clBuf[i]]
    BY DEF ClWrite
  <1>4. pos \in 0 .. (ClCap - 1) /\ n \in 0 .. (ClCap - pos)
    BY <1>1, <1>2 DEF Closed, ClLeast
  <1>5. end \in Nat /\ pos + n <= end /\ clLen <= end /\ end <= ClCap
        /\ end \in {pos + n, clLen}
    BY <1>1, <1>4 DEF ClEnd
  <1> HIDE DEF n, end
  <1>6. clBuf' \in [ClIndex -> {"zero", "old", "new"}]
    BY <1>1, <1>3
  <1>7. CASE missing = 0
    <2>1. /\ clPos' \in [ClFile -> Closed .. ClMaxPos] /\ clPos'[f] = pos + n /\ clPos'[f] # Closed
          /\ \A g \in ClFile \ {f} : clPos'[g] = clPos[g]
      BY <1>1, <1>2, <1>4, <1>7 DEF Closed
    <2>2. ClOpened' = ClOpened
      BY <1>2, <2>1 DEF ClOpened
    <2>3. ClTypeOK'
      BY <1>1, <1>2, <1>5, <1>6, <1>7, <2>1, <2>2 DEF ClTypeOK
    <2>4. \A g \in ClFile : clPos'[g] > clLen' => g \in clSeek \union clEmptied
      <3> SUFFICES ASSUME NEW g \in ClFile, clPos'[g] > clLen' PROVE clPos[g] > clLen
        BY DEF ClipboardSound
      <3>1. g # f
        BY <1>2, <1>4, <1>5, <1>7, <2>1
      <3>2. clPos[g] \in Int
        BY <1>1 DEF Closed
      <3> QED
        BY <1>1, <1>2, <1>5, <1>7, <2>1, <3>1, <3>2
    <2>5. ~clHole' => \A i \in 0 .. (clLen' - 1) : clBuf'[i] = "new"
      <3> SUFFICES ASSUME ~clHole', NEW i \in 0 .. (end - 1) PROVE clBuf'[i] = "new"
        BY <1>2, <1>7
      <3>a. ~clHole /\ ~(pos > clLen)
        BY <1>2
      <3>b. pos <= clLen
        <4> HIDE DEF pos
        <4> QED
          BY <3>a, <1>1, <1>4
      <3>c. i \in ClIndex /\ i \in Nat
        BY <1>1, <1>5 DEF ClIndex
      <3>1. i \in ClIndex /\ ~clHole /\ pos <= clLen /\ i \in Nat
        BY <3>a, <3>b, <3>c
      <3>2. CASE i \in pos .. (pos + n - 1)
        BY <1>3, <1>4, <1>7, <3>1, <3>2
      <3>3. CASE i \notin pos .. (pos + n - 1)
        <4>1. i \in 0 .. (clLen - 1)
          BY <1>1, <1>4, <1>5, <3>1, <3>3
        <4>2. clBuf[i] = "new"
          BY <3>1, <4>1 DEF ClipboardSound
        <4>3. i \notin pos .. (pos + n - missing - 1)
          BY <1>4, <1>7, <3>3
        <4> QED
          BY <1>3, <3>1, <3>3, <4>2, <4>3
      <3> QED
        BY <3>2, <3>3
    <2> QED
      BY <1>2, <1>5, <1>7, <2>3, <2>4, <2>5 DEF ClipboardSound
  <1>8. CASE missing # 0
    <2>a. missing > 0
      BY <1>1, <1>8
    <2>1. UNCHANGED <<clPos, clLen, clSeek, clEmptied, clPast>> /\ clHole'
      BY <1>2, <1>8, <2>a
    <2>2. clHole' \in BOOLEAN /\ ClOpened' = ClOpened
      BY <1>1, <1>2, <2>1 DEF ClOpened
    <2>3. ClTypeOK'
      BY <1>6, <2>1, <2>2 DEF ClTypeOK
    <2> QED
      BY <2>1, <2>3 DEF ClipboardSound
  <1> QED
    BY <1>7, <1>8

\* ClInv is inductive.
LEMMA ClInvStep == ClInv /\ [ClNext]_clVars => ClInv'
  <1> SUFFICES ASSUME ClInv, [ClNext]_clVars PROVE ClInv'
    OBVIOUS
  <1>1. CASE UNCHANGED clVars
    BY <1>1 DEF clVars, ClInv, ClTypeOK, ClOpened, ClipboardSound
  <1> QED
    BY <1>1, ClOpenInv, ClCloseInv, ClSeekInv, ClReadInv, ClWriteInv DEF ClNext

-----------------------------------------------------------------------------
(* bddtree.                                                                *)

\* What struct bddtree_driver, struct bddtree_device and an actor can hold.
BdMem == {"unused", "live", "freed"}
BdLinks == {"self", "on", "poison"}
BdDrvRec == [mem : BdMem, reg : BOOLEAN, files : BOOLEAN, link : BdLinks, devices : Seq(BdDevice)]
BdDevRec == [mem : BdMem, reg : BOOLEAN, bound : BOOLEAN, link : BdLinks,
             drv : BdDriver \union {NoBd}, id : BdId \union {NoBd}]
BdAtRec ==
    [pc : {"idle", "link", "unlink", "first", "loop", "destroy", "release", "closing",
           "unregister", "free", "create", "dlink", "bus", "gone"},
     drv : BdDriver \union {NoBd}, dev : BdDevice \union {NoBd},
     next : BdDevice \union {NoBd}, id : BdId \union {NoBd}, all : BOOLEAN]

\* The steps of a driver's destruction but for those of its devices.
BdWhole == {"unlink", "first", "loop", "closing", "unregister", "free"}

\* Whatever races: what an actor has in hand is of the kind that its step needs, ...
BdHandOK(h) ==
    /\ h.pc \in {"idle", "bus", "gone"} => h.drv = NoBd
    /\ h.pc \notin {"idle", "bus", "gone"} => h.drv \in BdDriver
    /\ h.pc \in {"dlink", "destroy", "release"} => h.dev \in BdDevice
    /\ h.pc \notin {"dlink", "destroy", "release"} => h.dev = NoBd
    /\ h.pc \in BdWhole => h.all
    /\ h.all => h.pc \in BdWhole \union {"destroy", "release"}

BdHands ==
    /\ \A a \in BdActor : BdHandOK(bdAt[a])
    /\ \A v \in BdDevice : bdDev[v].bound => bdDev[v].drv \in BdDriver
    /\ ~bdUp => bdAt[BdRmmod].pc = "gone"
    /\ bdAt[BdRmmod].pc \in {"idle", "bus", "gone"} \/ bdAt[BdRmmod].all

\* ... and the driver core takes a name once.
BdNames ==
    /\ \A u, v \in BdDevice : bdDev[u].reg /\ bdDev[v].reg /\ bdDev[u].id = bdDev[v].id => u = v
    /\ \A d, e \in BdDriver : bdDrv[d].reg /\ bdDrv[e].reg => d = e

\* Unless there was a race, nobody else holds a driver that is being destroyed, and
\* nobody else the device that an actor holds, ...
BdSole ==
    \A a, b \in BdActor : a # b =>
        /\ bdAt[a].drv = bdAt[b].drv /\ bdAt[a].drv # NoBd =>
              ~bdAt[a].all /\ (bdAt[a].pc = "link" => bdAt[b].pc # "link")
        /\ bdAt[a].dev = bdAt[b].dev => bdAt[a].dev = NoBd

\* ... a driver in hand is as far as the actor is, ...
BdDrvFits(h, r) ==
    /\ r.mem = "live"
    /\ r.reg <=> h.pc # "free"
    /\ r.files <=> h.pc \notin {"unregister", "free"}
    /\ h.all => r.link = IF h.pc = "unlink" THEN "on" ELSE "poison"
    /\ ~h.all => r.link # "poison" /\ (h.pc = "link" => r.link = "self")

BdDrvInHand(a) == bdAt[a].drv # NoBd => BdDrvFits(bdAt[a], bdDrv[bdAt[a].drv])

\* ... and so is a device, ...
BdDevFits(h, r) ==
    /\ r.mem = "live" /\ r.drv = h.drv
    /\ h.pc = "dlink"   => r.link = "self"
    /\ h.pc = "destroy" => r.link = "on"
    /\ h.pc = "release" => r.link = "poison"

BdDevInHand(a) == bdAt[a].dev # NoBd => BdDevFits(bdAt[a], bdDev[bdAt[a].dev])

BdFirst(s) == IF s = << >> THEN NoBd ELSE Head(s)

\* ... who destroys a driver goes through its devices from the first to the last, ...
BdWalks(h, devices) ==
    /\ h.pc = "destroy" =>
          devices # << >> /\ h.dev = Head(devices) /\ h.next = BdFirst(Tail(devices))
    /\ h.pc \in {"release", "loop"} => h.next = BdFirst(devices)
    /\ h.pc \in {"closing", "unregister", "free"} => devices = << >>

BdWalk(a) == bdAt[a].all => BdWalks(bdAt[a], bdDrv[bdAt[a].drv].devices)

\* ... a driver that nobody has in hand is in order, ...
BdDrvRest(d) ==
    /\ bdDrv[d].mem # "live" =>
          ~bdDrv[d].reg /\ ~bdDrv[d].files /\ bdDrv[d].link # "on" /\ bdDrv[d].devices = << >>
    /\ bdDrv[d].mem = "unused" => bdDrv[d].link = "self"
    /\ bdDrv[d].mem = "live" =>
          \/ bdDrv[d].reg /\ bdDrv[d].files /\ bdDrv[d].link = "on"
          \/ \E a \in BdActor : bdAt[a].drv = d /\ (bdAt[a].all \/ bdAt[a].pc = "link")
    /\ IsInjective(bdDrv[d].devices)

\* ... and so is such a device, which is on its driver's list and on no other.
BdDevRest(v) ==
    /\ bdDev[v].mem # "live" => ~bdDev[v].reg /\ ~bdDev[v].bound
    /\ bdDev[v].mem = "live" => bdDev[v].reg /\ bdDev[v].bound
    /\ \A d \in BdDriver : v \in ToSet(bdDrv[d].devices) <=>
          bdDev[v].mem = "live" /\ bdDev[v].link = "on" /\ bdDev[v].drv = d
    /\ bdDev[v].mem = "live" /\ bdDev[v].link # "on" =>
          \E a \in BdActor : bdAt[a].dev = v /\ bdAt[a].pc \in {"dlink", "release"}

\* The exit comes alone and finds one driver at most.
BdExits ==
    bdAt[BdRmmod].pc # "idle" =>
        /\ \A w \in BdWriter : bdAt[w].pc = "idle"
        /\ \A d \in BdDriver : bdDrv[d].mem = "live" => bdAt[BdRmmod].drv = d

BdOwned ==
    /\ bdOops = "none"
    /\ BdSole
    /\ \A a \in BdActor : BdDrvInHand(a) /\ BdDevInHand(a) /\ BdWalk(a)
    /\ \A d \in BdDriver : BdDrvRest(d)
    /\ \A v \in BdDevice : BdDevRest(v)
    /\ BdExits

BdInv == BdTypeOK /\ BdHands /\ BdNames /\ (bdRaced \/ BdOwned)

\* Who is where after a step of one actor.
LEMMA BdHoldFacts ==
    ASSUME BdTypeOK, NEW a \in BdActor, NEW h \in BdAtRec, BdHold(a, h)
    PROVE  /\ bdAt' \in [BdActor -> BdAtRec] /\ bdAt'[a] = h
           /\ \A b \in BdActor : b # a => bdAt'[b] = bdAt[b]
  <1>1. bdAt \in [BdActor -> BdAtRec]
    BY DEF BdTypeOK, BdAtRec
  <1> QED
    BY <1>1 DEF BdHold

LEMMA BdTypes ==
    BdTypeOK <=> /\ bdDrv \in [BdDriver -> BdDrvRec] /\ bdDev \in [BdDevice -> BdDevRec]
                 /\ bdAt \in [BdActor -> BdAtRec] /\ bdUp \in BOOLEAN /\ bdRaced \in BOOLEAN
                 /\ bdOops \in BdActor \union {"none"}
  BY DEF BdTypeOK, BdDrvRec, BdDevRec, BdAtRec, BdMem, BdLinks

LEMMA BdIdleFacts ==
    /\ BdIdle \in BdAtRec /\ BdHandOK(BdIdle) /\ BdIdle.pc = "idle" /\ BdIdle.drv = NoBd
    /\ BdIdle.dev = NoBd /\ ~BdIdle.all
  BY DEF BdIdle, BdAtRec, BdHandOK, BdWhole

\* What an actor has in hand is as it was if neither the actor nor the thing changes.
LEMMA BdFrame ==
    ASSUME NEW b \in BdActor, bdAt'[b] = bdAt[b]
    PROVE  /\ BdDrvInHand(b) /\ (bdAt[b].drv = NoBd \/ bdDrv'[bdAt[b].drv] = bdDrv[bdAt[b].drv])
                 => BdDrvInHand(b)'
           /\ BdDevInHand(b) /\ (bdAt[b].dev = NoBd \/ bdDev'[bdAt[b].dev] = bdDev[bdAt[b].dev])
                 => BdDevInHand(b)'
           /\ BdWalk(b) /\ (~bdAt[b].all \/
                    bdDrv'[bdAt[b].drv].devices = bdDrv[bdAt[b].drv].devices)
                 => BdWalk(b)'
  BY DEF BdDrvInHand, BdDevInHand, BdWalk

\* Where memory that is gone would be used there has been a race.
LEMMA BdOopsInv ==
    ASSUME BdInv, bdRaced, NEW a \in BdActor, BdOopsAt(a)
    PROVE  BdInv'
  BY DEF BdInv, BdOopsAt, BdTypeOK, BdHands, BdNames, BdHandOK

LEMMA BdKnown ==
    ASSUME BdInv
    PROVE  /\ BdTypeOK /\ BdHands /\ BdNames
           /\ bdDrv \in [BdDriver -> BdDrvRec] /\ bdDev \in [BdDevice -> BdDevRec]
           /\ bdAt \in [BdActor -> BdAtRec]
           /\ bdUp \in BOOLEAN /\ bdRaced \in BOOLEAN
           /\ NoBd \notin BdDriver /\ NoBd \notin BdDevice
           /\ BdRmmod \in BdActor /\ \A w \in BdWriter : w \in BdActor /\ w # BdRmmod
           /\ \A a \in BdActor : BdHandOK(bdAt[a]) /\ bdAt[a] \in BdAtRec
  <1>1. BdTypeOK /\ BdHands /\ BdNames
    BY DEF BdInv
  <1> QED
    BY <1>1, BdTypes, BddtreeAssumption DEF BdHands, BdActor, BdRmmod

\* Once the exit has come it is alone.
LEMMA BdExitsStep ==
    ASSUME BdExits, BdRmmod \in BdActor, \A w \in BdWriter : w \in BdActor /\ w # BdRmmod,
           NEW a \in BdActor, bdAt[a].pc # "idle",
           \A b \in BdActor : b # a => bdAt'[b] = bdAt[b],
           \A d \in BdDriver : bdDrv'[d].mem = "live" => bdDrv[d].mem = "live",
           a = BdRmmod => \A d \in BdDriver :
               bdDrv'[d].mem = "live" => bdAt'[a].drv = bdAt[a].drv
    PROVE  BdExits'
  <1>1. CASE a = BdRmmod
    BY <1>1 DEF BdExits
  <1>2. CASE a # BdRmmod
    <2>1. a \in BdWriter
      BY <1>2 DEF BdActor
    <2> QED
      BY <1>2, <2>1 DEF BdExits
  <1> QED
    BY <1>1, <1>2

\* What holds whatever races survives a step that registers nothing.
LEMMA BdBasics ==
    ASSUME BdTypeOK, BdHands, BdNames, NEW a \in BdActor, NEW h \in BdAtRec, BdHold(a, h),
           BdHandOK(h), bdDrv' \in [BdDriver -> BdDrvRec], bdDev' \in [BdDevice -> BdDevRec],
           bdUp' \in BOOLEAN, bdRaced' \in BOOLEAN, UNCHANGED bdOops,
           \A d \in BdDriver : bdDrv'[d].reg => bdDrv[d].reg,
           \A v \in BdDevice : bdDev'[v].reg => bdDev[v].reg /\ bdDev'[v].id = bdDev[v].id,
           \A v \in BdDevice : bdDev'[v].bound => bdDev[v].bound /\ bdDev'[v].drv = bdDev[v].drv,
           ~bdUp' => bdAt'[BdRmmod].pc = "gone",
           a = BdRmmod => h.pc \in {"idle", "bus", "gone"} \/ h.all
    PROVE  BdTypeOK' /\ BdHands' /\ BdNames'
  <1>1. /\ bdAt' \in [BdActor -> BdAtRec] /\ bdAt'[a] = h
        /\ \A b \in BdActor : b # a => bdAt'[b] = bdAt[b]
    BY BdHoldFacts
  <1>2. BdTypeOK'
    BY <1>1 DEF BdTypeOK, BdDrvRec, BdDevRec, BdAtRec, BdMem, BdLinks
  <1>3. BdHands'
    <2>1. bdAt'[BdRmmod].pc \in {"idle", "bus", "gone"} \/ bdAt'[BdRmmod].all
      BY <1>1 DEF BdHands, BdActor
    <2>2. \A b \in BdActor : BdHandOK(bdAt'[b])
      BY <1>1 DEF BdHands
    <2>3. \A v \in BdDevice : bdDev'[v].bound => bdDev'[v].drv \in BdDriver
      BY DEF BdHands
    <2> QED
      BY <2>1, <2>2, <2>3 DEF BdHands
  <1>4. BdNames'
    BY DEF BdNames
  <1> QED
    BY <1>2, <1>3, <1>4

\* A step of one actor that changes nothing but what the actor has in hand.
LEMMA BdMoveStep ==
    ASSUME BdHands, BdOwned, NEW a \in BdActor,
           \A b \in BdActor : b # a => bdAt'[b] = bdAt[b],
           UNCHANGED <<bdDrv, bdDev, bdOops>>,
           bdAt'[a].drv \in BdDriver \union {NoBd}, bdAt'[a].dev \in BdDevice \union {NoBd},
           \A b \in BdActor : b # a /\ bdAt[b].drv = bdAt'[a].drv /\ bdAt'[a].drv # NoBd =>
               ~bdAt'[a].all /\ ~bdAt[b].all /\ ~(bdAt'[a].pc = "link" /\ bdAt[b].pc = "link"),
           \A b \in BdActor : b # a /\ bdAt[b].dev = bdAt'[a].dev => bdAt'[a].dev = NoBd,
           bdAt'[a].drv # NoBd => BdDrvFits(bdAt'[a], bdDrv[bdAt'[a].drv]),
           bdAt'[a].dev # NoBd => BdDevFits(bdAt'[a], bdDev[bdAt'[a].dev]),
           bdAt'[a].all => BdWalks(bdAt'[a], bdDrv[bdAt'[a].drv].devices),
           bdAt[a].all \/ bdAt[a].pc = "link" =>
               bdAt'[a].drv = bdAt[a].drv /\ (bdAt'[a].all \/ bdAt'[a].pc = "link"),
           bdAt[a].pc \in {"dlink", "release"} =>
               bdAt'[a].dev = bdAt[a].dev /\ bdAt'[a].pc \in {"dlink", "release"},
           BdExits'
    PROVE  BdOwned'
  <1>1. BdSole'
    <2> SUFFICES ASSUME NEW b \in BdActor, NEW c \in BdActor, b # c
                 PROVE  /\ bdAt'[b].drv = bdAt'[c].drv /\ bdAt'[b].drv # NoBd =>
                              ~bdAt'[b].all /\ (bdAt'[b].pc = "link" => bdAt'[c].pc # "link")
                        /\ bdAt'[b].dev = bdAt'[c].dev => bdAt'[b].dev = NoBd
      BY DEF BdSole
    <2>1. CASE b = a
      BY <2>1
    <2>2. CASE c = a
      BY <2>2
    <2>3. CASE b # a /\ c # a
      BY <2>3 DEF BdOwned, BdSole
    <2> QED
      BY <2>1, <2>2, <2>3
  <1>2. ASSUME NEW b \in BdActor PROVE BdDrvInHand(b)' /\ BdDevInHand(b)' /\ BdWalk(b)'
    <2>1. CASE b = a
      BY <2>1 DEF BdDrvInHand, BdDevInHand, BdWalk
    <2>2. CASE b # a
      BY <2>2, BdFrame DEF BdOwned
    <2> QED
      BY <2>1, <2>2
  <1>3. ASSUME NEW d \in BdDriver PROVE BdDrvRest(d)'
    <2>1. \A b \in BdActor : bdAt[b].drv = d /\ (bdAt[b].all \/ bdAt[b].pc = "link") =>
              bdAt'[b].drv = d /\ (bdAt'[b].all \/ bdAt'[b].pc = "link")
      OBVIOUS
    <2>2. BdDrvRest(d)
      BY DEF BdOwned
    <2> QED
      BY <2>1, <2>2 DEF BdDrvRest
  <1>4. ASSUME NEW v \in BdDevice PROVE BdDevRest(v)'
    <2>1. \A b \in BdActor : bdAt[b].dev = v /\ bdAt[b].pc \in {"dlink", "release"} =>
              bdAt'[b].dev = v /\ bdAt'[b].pc \in {"dlink", "release"}
      OBVIOUS
    <2>2. BdDevRest(v)
      BY DEF BdOwned
    <2> QED
      BY <2>1, <2>2 DEF BdDevRest
  <1> QED
    BY <1>1, <1>2, <1>3, <1>4 DEF BdOwned

\* A step that changes a driver, which the actor has in hand before it or after it,
\* but none of the driver's devices.
LEMMA BdDrvStep ==
    ASSUME BdHands, BdOwned, NEW a \in BdActor, NEW d \in BdDriver,
           \A b \in BdActor : b # a => bdAt'[b] = bdAt[b],
           \A e \in BdDriver : e # d => bdDrv'[e] = bdDrv[e],
           UNCHANGED <<bdDev, bdOops>>,
           bdDrv'[d].devices = bdDrv[d].devices,
           bdAt'[a].drv \in {d, NoBd}, bdAt'[a].dev = NoBd,
           bdAt[a].drv \in {d, NoBd}, bdAt[a].dev = NoBd,
           NoBd \notin BdDriver,
           \A b \in BdActor : b # a /\ bdAt[b].drv = d =>
               /\ ~bdAt'[a].all /\ ~bdAt[b].all /\ ~(bdAt'[a].pc = "link" /\ bdAt[b].pc = "link")
               /\ BdDrvFits(bdAt[b], bdDrv'[d]),
           bdAt'[a].drv = d => BdDrvFits(bdAt'[a], bdDrv'[d]),
           bdAt'[a].all => bdAt'[a].drv = d /\ BdWalks(bdAt'[a], bdDrv'[d].devices),
           bdDrv'[d].mem # "live" => /\ ~bdDrv'[d].reg /\ ~bdDrv'[d].files
                                     /\ bdDrv'[d].link # "on" /\ bdDrv'[d].devices = << >>,
           bdDrv'[d].mem = "unused" => bdDrv'[d].link = "self",
           bdDrv'[d].mem = "live" =>
               \/ bdDrv'[d].reg /\ bdDrv'[d].files /\ bdDrv'[d].link = "on"
               \/ bdAt'[a].drv = d /\ (bdAt'[a].all \/ bdAt'[a].pc = "link"),
           BdExits'
    PROVE  BdOwned'
  <1>1. BdSole'
    <2> SUFFICES ASSUME NEW b \in BdActor, NEW c \in BdActor, b # c
                 PROVE  /\ bdAt'[b].drv = bdAt'[c].drv /\ bdAt'[b].drv # NoBd =>
                              ~bdAt'[b].all /\ (bdAt'[b].pc = "link" => bdAt'[c].pc # "link")
                        /\ bdAt'[b].dev = bdAt'[c].dev => bdAt'[b].dev = NoBd
      BY DEF BdSole
    <2>1. CASE b = a
      BY <2>1
    <2>2. CASE c = a
      BY <2>2
    <2>3. CASE b # a /\ c # a
      BY <2>3 DEF BdOwned, BdSole
    <2> QED
      BY <2>1, <2>2, <2>3
  <1>2. \A b \in BdActor : (bdAt[b].drv = NoBd \/ bdAt[b].drv \in BdDriver)
                           /\ (bdAt[b].all => bdAt[b].drv \in BdDriver)
    BY DEF BdHands, BdHandOK, BdWhole
  <1>3. ASSUME NEW b \in BdActor PROVE BdDrvInHand(b)'
    <2>1. CASE b = a
      BY <2>1 DEF BdDrvInHand
    <2>2. CASE b # a /\ bdAt[b].drv = d
      BY <2>2 DEF BdDrvInHand
    <2>3. CASE b # a /\ bdAt[b].drv # d
      <3>1. bdAt'[b] = bdAt[b] /\ BdDrvInHand(b)
        BY <2>3 DEF BdOwned
      <3>2. bdAt[b].drv = NoBd \/ bdDrv'[bdAt[b].drv] = bdDrv[bdAt[b].drv]
        BY <1>2, <2>3
      <3> QED
        BY <3>1, <3>2, BdFrame
    <2> QED
      BY <2>1, <2>2, <2>3
  <1>4. ASSUME NEW b \in BdActor PROVE BdDevInHand(b)'
    <2>1. CASE b = a
      BY <2>1 DEF BdDevInHand
    <2>2. CASE b # a
      BY <2>2, BdFrame DEF BdOwned
    <2> QED
      BY <2>1, <2>2
  <1>5. ASSUME NEW b \in BdActor PROVE BdWalk(b)'
    <2>1. CASE b = a
      BY <2>1 DEF BdWalk
    <2>2. CASE b # a
      <3>1. bdAt'[b] = bdAt[b] /\ BdWalk(b)
        BY <2>2 DEF BdOwned
      <3>2. ~bdAt[b].all \/ bdDrv'[bdAt[b].drv].devices = bdDrv[bdAt[b].drv].devices
        BY <1>2
      <3> QED
        BY <3>1, <3>2, BdFrame
    <2> QED
      BY <2>1, <2>2
  <1>6. ASSUME NEW e \in BdDriver PROVE BdDrvRest(e)'
    <2>1. CASE e = d
      <3>1. bdAt'[a].drv = d /\ (bdAt'[a].all \/ bdAt'[a].pc = "link") =>
                \E b \in BdActor : bdAt'[b].drv = d /\ (bdAt'[b].all \/ bdAt'[b].pc = "link")
        OBVIOUS
      <3>2. IsInjective(bdDrv'[d].devices)
        BY DEF BdOwned, BdDrvRest
      <3> QED
        BY <2>1, <3>1, <3>2 DEF BdDrvRest
    <2>2. CASE e # d
      <3>1. \A b \in BdActor : bdAt[b].drv = e => bdAt'[b] = bdAt[b]
        BY <2>2
      <3>2. BdDrvRest(e) /\ bdDrv'[e] = bdDrv[e]
        BY <2>2 DEF BdOwned
      <3> QED
        BY <3>1, <3>2 DEF BdDrvRest
    <2> QED
      BY <2>1, <2>2
  <1>7. ASSUME NEW v \in BdDevice, NoBd \notin BdDevice PROVE BdDevRest(v)'
    <2>1. \A b \in BdActor : bdAt[b].dev = v => bdAt'[b] = bdAt[b]
      BY <1>7
    <2>2. \A e \in BdDriver : bdDrv'[e].devices = bdDrv[e].devices
      OBVIOUS
    <2>3. BdDevRest(v)
      BY DEF BdOwned
    <2> QED
      BY <2>1, <2>2, <2>3 DEF BdDevRest
  <1> QED
    BY <1>1, <1>3, <1>4, <1>5, <1>6, <1>7, BddtreeAssumption DEF BdOwned

\* A step that changes a device, which the actor has in hand before it or after it, and
\* whether that device is on the list of the driver that the actor has in hand.
LEMMA BdDevStep ==
    ASSUME BdHands, BdOwned, NEW a \in BdActor, NEW v \in BdDevice, NEW d \in BdDriver,
           NoBd \notin BdDriver, NoBd \notin BdDevice,
           \A b \in BdActor : b # a => bdAt'[b] = bdAt[b] /\ bdAt[b].dev # v,
           \A u \in BdDevice : u # v => bdDev'[u] = bdDev[u],
           \A e \in BdDriver : e # d => bdDrv'[e] = bdDrv[e] /\ v \notin ToSet(bdDrv[e].devices),
           bdDrv'[d].mem = bdDrv[d].mem, bdDrv'[d].reg = bdDrv[d].reg,
           bdDrv'[d].files = bdDrv[d].files, bdDrv'[d].link = bdDrv[d].link,
           UNCHANGED bdOops,
           bdAt[a].drv = d, bdAt'[a].drv \in {d, NoBd}, bdAt'[a].all <=> bdAt[a].all,
           bdAt[a].all => bdAt'[a].drv = d, bdAt[a].pc # "link", bdAt'[a].pc # "link",
           bdAt[a].dev \in {v, NoBd}, bdAt'[a].dev \in {v, NoBd},
           bdAt'[a].drv = d => BdDrvFits(bdAt'[a], bdDrv'[d]),
           bdAt'[a].dev = v => BdDevFits(bdAt'[a], bdDev'[v]),
           bdAt'[a].all => BdWalks(bdAt'[a], bdDrv'[d].devices),
           IsInjective(bdDrv'[d].devices),
           \A u \in BdDevice : u # v =>
               (u \in ToSet(bdDrv'[d].devices) <=> u \in ToSet(bdDrv[d].devices)),
           v \in ToSet(bdDrv'[d].devices) <=> bdDev'[v].mem = "live" /\ bdDev'[v].link = "on",
           bdDev'[v].mem # "live" => ~bdDev'[v].reg /\ ~bdDev'[v].bound,
           bdDev'[v].mem = "live" => /\ bdDev'[v].reg /\ bdDev'[v].bound /\ bdDev'[v].drv = d
                                     /\ bdDev'[v].link # "on" =>
                                            bdAt'[a].dev = v /\ bdAt'[a].pc \in {"dlink", "release"},
           BdExits'
    PROVE  BdOwned'
  <1>1. BdDrvFits(bdAt[a], bdDrv[d]) /\ bdDrv[d].mem = "live" /\ bdDrv'[d].mem = "live"
    BY DEF BdOwned, BdDrvInHand, BdDrvFits
  <1>2. \A b \in BdActor : b # a /\ bdAt[b].drv = d => ~bdAt[b].all /\ ~bdAt[a].all
    BY DEF BdOwned, BdSole
  <1>3. BdSole'
    <2> SUFFICES ASSUME NEW b \in BdActor, NEW c \in BdActor, b # c
                 PROVE  /\ bdAt'[b].drv = bdAt'[c].drv /\ bdAt'[b].drv # NoBd =>
                              ~bdAt'[b].all /\ (bdAt'[b].pc = "link" => bdAt'[c].pc # "link")
                        /\ bdAt'[b].dev = bdAt'[c].dev => bdAt'[b].dev = NoBd
      BY DEF BdSole
    <2>1. CASE b = a
      BY <1>2, <2>1
    <2>2. CASE c = a
      BY <1>2, <2>2
    <2>3. CASE b # a /\ c # a
      BY <2>3 DEF BdOwned, BdSole
    <2> QED
      BY <2>1, <2>2, <2>3
  <1>4. \A b \in BdActor : /\ bdAt[b].drv = NoBd \/ bdAt[b].drv \in BdDriver
                           /\ bdAt[b].all => bdAt[b].drv \in BdDriver
                           /\ bdAt[b].dev = NoBd \/ bdAt[b].dev \in BdDevice
    BY DEF BdHands, BdHandOK, BdWhole
  <1>5. ASSUME NEW b \in BdActor PROVE BdDrvInHand(b)' /\ BdDevInHand(b)' /\ BdWalk(b)'
    <2>1. CASE b = a
      BY <2>1 DEF BdDrvInHand, BdDevInHand, BdWalk
    <2>2. CASE b # a
      <3>1. bdAt'[b] = bdAt[b] /\ BdDrvInHand(b) /\ BdDevInHand(b) /\ BdWalk(b)
        BY <2>2 DEF BdOwned
      <3>2. BdDrvInHand(b)'
        <4>1. CASE bdAt[b].drv = d
          BY <3>1, <4>1 DEF BdDrvInHand, BdDrvFits
        <4>2. CASE bdAt[b].drv # d
          BY <1>4, <3>1, <4>2, BdFrame
        <4> QED
          BY <4>1, <4>2
      <3>3. BdDevInHand(b)'
        BY <1>4, <2>2, <3>1, BdFrame
      <3>4. BdWalk(b)'
        BY <1>2, <1>4, <2>2, <3>1, BdFrame
      <3> QED
        BY <3>2, <3>3, <3>4
    <2> QED
      BY <2>1, <2>2
  <1>6. ASSUME NEW e \in BdDriver PROVE BdDrvRest(e)'
    <2>1. BdDrvRest(e)
      BY DEF BdOwned
    <2>2. \A b \in BdActor : bdAt[b].drv = e /\ (bdAt[b].all \/ bdAt[b].pc = "link") =>
              bdAt'[b].drv = e /\ (bdAt'[b].all \/ bdAt'[b].pc = "link")
      OBVIOUS
    <2>3. CASE e = d
      BY <1>1, <2>1, <2>2, <2>3 DEF BdDrvRest
    <2>4. CASE e # d
      BY <2>1, <2>2, <2>4 DEF BdDrvRest
    <2> QED
      BY <2>3, <2>4
  <1>7. ASSUME NEW u \in BdDevice PROVE BdDevRest(u)'
    <2>1. BdDevRest(u)
      BY DEF BdOwned
    <2>2. CASE u = v
      BY <2>2 DEF BdDevRest
    <2>3. CASE u # v
      <3>1. \A b \in BdActor : bdAt[b].dev = u => bdAt'[b] = bdAt[b]
        BY <2>3
      <3>2. \A e \in BdDriver : u \in ToSet(bdDrv'[e].devices) <=> u \in ToSet(bdDrv[e].devices)
        BY <2>3
      <3> QED
        BY <2>1, <2>3, <3>1, <3>2 DEF BdDevRest
    <2> QED
      BY <2>2, <2>3
  <1> QED
    BY <1>3, <1>5, <1>6, <1>7 DEF BdOwned

\* A driver is registered, ...
LEMMA BdAddDriverInv ==
    ASSUME BdInv, NEW w \in BdWriter, NEW d \in BdDriver, BdAddDriver(w, d)
    PROVE  BdInv'
  <1> DEFINE h == [BdIdle EXCEPT !.pc = "link", !.drv = d]
  <1>1. /\ w \in BdActor /\ w # BdRmmod /\ bdAt[w].pc = "idle" /\ bdAt[w].drv = NoBd
        /\ bdAt[w].dev = NoBd /\ ~bdAt[w].all
        /\ bdUp /\ bdDrv[d].mem = "unused" /\ \A e \in BdDriver : ~bdDrv[e].reg
        /\ bdDrv' = [bdDrv EXCEPT ![d].mem = "live", ![d].reg = TRUE, ![d].files = TRUE]
        /\ BdHold(w, h) /\ bdRaced' = (bdRaced \/ bdAt[BdRmmod].pc # "idle")
        /\ UNCHANGED <<bdDev, bdUp, bdOops>>
    BY BdKnown DEF BdAddDriver, BdPc, BdHandOK, BdWhole
  <1>2. h \in BdAtRec /\ BdHandOK(h) /\ h.pc = "link" /\ h.drv = d /\ h.dev = NoBd /\ ~h.all
    BY DEF BdIdle, BdAtRec, BdHandOK, BdWhole
  <1>3. /\ bdAt' \in [BdActor -> BdAtRec] /\ bdAt'[w] = h
        /\ \A b \in BdActor : b # w => bdAt'[b] = bdAt[b]
    <2> HIDE DEF h
    <2> QED
      BY <1>1, <1>2, BdHoldFacts, BdKnown
  <1> HIDE DEF h
  <1>4. /\ bdDrv' \in [BdDriver -> BdDrvRec]
        /\ bdDrv'[d].mem = "live" /\ bdDrv'[d].reg /\ bdDrv'[d].files
        /\ bdDrv'[d].link = bdDrv[d].link /\ bdDrv'[d].devices = bdDrv[d].devices
        /\ \A e \in BdDriver : e # d => bdDrv'[e] = bdDrv[e]
    BY <1>1, BdKnown DEF BdDrvRec, BdMem
  <1>5. BdTypeOK'
    BY <1>1, <1>3, <1>4, BdKnown DEF BdTypeOK, BdDrvRec, BdAtRec, BdMem, BdLinks
  <1>6. BdHands' /\ BdNames'
    <2>1. bdAt'[BdRmmod] = bdAt[BdRmmod]
      BY <1>1, <1>3, BdKnown
    <2> QED
      BY <1>1, <1>2, <1>3, <1>4, <2>1, BdKnown DEF BdHands, BdNames
  <1>7. ASSUME BdOwned, ~bdRaced' PROVE BdOwned'
    <2>1. \A b \in BdActor : bdAt[b].drv # d
      BY <1>1, <1>7, BdKnown DEF BdOwned, BdDrvInHand, BdDrvFits
    <2>2. bdDrv[d].link = "self" /\ bdDrv[d].devices = << >>
      BY <1>1, <1>7 DEF BdOwned, BdDrvRest
    <2>3. BdDrvFits(bdAt'[w], bdDrv'[d])
      BY <1>2, <1>3, <1>4, <2>2 DEF BdDrvFits
    <2>4. BdExits'
      BY <1>1, <1>3, <1>7, BdKnown DEF BdExits
    <2>5. BdHands /\ NoBd \notin BdDriver
      BY BdKnown
    <2> QED
      BY <1>1, <1>2, <1>3, <1>4, <1>7, <2>1, <2>2, <2>3, <2>4, <2>5, BdDrvStep
  <1> QED
    BY <1>1, <1>5, <1>6, <1>7 DEF BdInv

\* ... and listed.
LEMMA BdLinkInv ==
    ASSUME BdInv, NEW w \in BdWriter, BdLink(w)
    PROVE  BdInv'
  <1>1. PICK d : d = bdAt[w].drv
    OBVIOUS
  <1>2. bdAt[w].pc = "link" /\ d \in BdDriver /\ ~bdAt[w].all /\ bdAt[w].dev = NoBd /\ w \in BdActor
    BY <1>1, BdKnown DEF BdLink, BdPc, BdHandOK, BdWhole
  <1>3. CASE bdDrv[d].mem = "freed"
    <2>1. bdRaced
      BY <1>1, <1>2, <1>3, BdKnown DEF BdInv, BdOwned, BdDrvInHand, BdDrvFits
    <2> QED
      BY <1>1, <1>2, <1>3, <2>1, BdOopsInv DEF BdLink
  <1>4. CASE bdDrv[d].mem # "freed"
    <2>1. bdDrv' = [bdDrv EXCEPT ![d].link = "on"] /\ BdHold(w, BdIdle)
          /\ UNCHANGED <<bdDev, bdUp, bdRaced, bdOops>>
      BY <1>1, <1>4 DEF BdLink
    <2>2. bdAt'[w] = BdIdle /\ \A b \in BdActor : b # w => bdAt'[b] = bdAt[b]
      BY <1>2, <2>1, BdKnown, BdHoldFacts, BdIdleFacts
    <2>3. /\ bdDrv' \in [BdDriver -> BdDrvRec]
          /\ bdDrv'[d].link = "on" /\ bdDrv'[d].mem = bdDrv[d].mem /\ bdDrv'[d].reg = bdDrv[d].reg
          /\ bdDrv'[d].files = bdDrv[d].files /\ bdDrv'[d].devices = bdDrv[d].devices
          /\ \A e \in BdDriver : e # d => bdDrv'[e] = bdDrv[e]
      BY <1>2, <2>1, BdKnown DEF BdDrvRec, BdLinks
    <2>4. BdTypeOK' /\ BdHands' /\ BdNames'
      BY <1>2, <2>1, <2>2, <2>3, BdBasics, BdKnown, BdIdleFacts DEF BdHands
    <2>5. ASSUME BdOwned PROVE BdOwned'
      <3>1. bdDrv[d].link = "self" /\ bdDrv[d].reg /\ bdDrv[d].files /\ bdDrv[d].mem = "live"
            /\ \A b \in BdActor : b # w /\ bdAt[b].drv = d =>
                    ~bdAt[b].all /\ bdAt[b].pc # "link" /\ BdDrvFits(bdAt[b], bdDrv[d])
        BY <1>1, <1>2, <2>5, BdKnown DEF BdOwned, BdDrvInHand, BdDrvFits, BdSole
      <3>2. \A b \in BdActor : b # w /\ bdAt[b].drv = d => BdDrvFits(bdAt[b], bdDrv'[d])
        BY <2>3, <3>1 DEF BdDrvFits
      <3>3. BdExits'
        BY <1>2, <2>2, <2>3, <2>5, <3>1, BdExitsStep, BdKnown DEF BdOwned
      <3>4. bdAt'[w].drv = NoBd /\ bdAt'[w].dev = NoBd /\ ~bdAt'[w].all /\ bdAt'[w].pc = "idle"
            /\ BdHands /\ NoBd \notin BdDriver
        BY <2>2, BdIdleFacts, BdKnown
      <3> QED
        BY <1>1, <1>2, <2>1, <2>2, <2>3, <2>5, <3>1, <3>2, <3>3, <3>4, BdDrvStep
    <2> QED
      BY <2>1, <2>4, <2>5 DEF BdInv
  <1> QED
    BY <1>3, <1>4

\* A driver that somebody is going to destroy, ...
LEMMA BdDelDriverInv ==
    ASSUME BdInv, NEW w \in BdWriter, BdDelDriver(w)
    PROVE  BdInv'
  <1>1. PICK d \in BdDriver :
           /\ bdDrv[d].reg
           /\ BdHold(w, [BdIdle EXCEPT !.pc = "unlink", !.drv = d, !.all = TRUE])
           /\ bdRaced' = (bdRaced \/ BdHeld(w, d) \/ bdAt[BdRmmod].pc # "idle")
    BY DEF BdDelDriver, BdPc
  <1> DEFINE h == [BdIdle EXCEPT !.pc = "unlink", !.drv = d, !.all = TRUE]
  <1>2. /\ w \in BdActor /\ w # BdRmmod /\ bdAt[w].pc = "idle" /\ ~bdAt[w].all
        /\ UNCHANGED <<bdDrv, bdDev, bdUp, bdOops>>
    BY BdKnown DEF BdDelDriver, BdPc, BdHandOK, BdWhole
  <1>3. h \in BdAtRec /\ BdHandOK(h) /\ h.pc = "unlink" /\ h.drv = d /\ h.dev = NoBd /\ h.all
    BY DEF BdIdle, BdAtRec, BdHandOK, BdWhole
  <1>4. BdHold(w, h)
    BY <1>1
  <1> HIDE DEF h
  <1>5. bdAt'[w] = h /\ \A b \in BdActor : b # w => bdAt'[b] = bdAt[b]
    BY <1>2, <1>3, <1>4, BdHoldFacts, BdKnown
  <1>6. bdRaced' \in BOOLEAN
    BY <1>1, BdKnown DEF BdHeld
  <1>7. BdTypeOK' /\ BdHands' /\ BdNames'
    <2>1. ~bdUp' => bdAt'[BdRmmod].pc = "gone"
      BY <1>2, <1>5, BdKnown DEF BdHands
    <2> QED
      BY <1>2, <1>3, <1>4, <1>6, <2>1, BdBasics, BdKnown
  <1>8. ASSUME BdOwned, ~bdRaced' PROVE BdOwned'
    <2>1. \A b \in BdActor : b # w => bdAt[b].drv # d
      BY <1>1, <1>8 DEF BdHeld
    <2>2. bdDrv[d].mem = "live" /\ bdDrv[d].files /\ bdDrv[d].link = "on"
      <3>1. bdDrv[d].mem = "live"
        BY <1>1, <1>8, BdKnown DEF BdOwned, BdDrvRest, BdDrvRec
      <3>2. \A a \in BdActor : ~(bdAt[a].drv = d /\ (bdAt[a].all \/ bdAt[a].pc = "link"))
        BY <1>2, <2>1
      <3> QED
        BY <1>8, <3>1, <3>2 DEF BdOwned, BdDrvRest
    <2>3. BdDrvFits(h, bdDrv[d])
      BY <1>1, <1>3, <2>2 DEF BdDrvFits
    <2>4. BdWalks(h, bdDrv[d].devices)
      BY <1>3 DEF BdWalks
    <2>5. BdExits'
      BY <1>1, <1>2, <1>5, <1>8, BdKnown DEF BdExits
    <2> QED
      BY <1>2, <1>3, <1>5, <1>8, <2>1, <2>3, <2>4, <2>5, BdMoveStep, BdKnown
  <1> QED
    BY <1>1, <1>7, <1>8 DEF BdInv

\* ... is not listed any more, ...
LEMMA BdUnlinkInv ==
    ASSUME BdInv, NEW a \in BdActor, BdUnlink(a)
    PROVE  BdInv'
  <1>1. PICK d : d = bdAt[a].drv
    OBVIOUS
  <1>2. bdAt[a].pc = "unlink" /\ d \in BdDriver /\ bdAt[a].all /\ bdAt[a].dev = NoBd
    BY <1>1, BdKnown DEF BdUnlink, BdPc, BdHandOK, BdWhole
  <1>3. CASE bdDrv[d].mem = "freed" \/ bdDrv[d].link = "poison"
    <2>1. bdRaced
      BY <1>1, <1>2, <1>3, BdKnown DEF BdInv, BdOwned, BdDrvInHand, BdDrvFits
    <2> QED
      BY <1>1, <1>3, <2>1, BdOopsInv DEF BdUnlink
  <1>4. CASE ~(bdDrv[d].mem = "freed" \/ bdDrv[d].link = "poison")
    <2> DEFINE h == [bdAt[a] EXCEPT !.pc = "first"]
    <2>1. bdDrv' = [bdDrv EXCEPT ![d].link = "poison"] /\ BdHold(a, h)
          /\ UNCHANGED <<bdDev, bdUp, bdRaced, bdOops>>
      BY <1>1, <1>4 DEF BdUnlink, BdGoto
    <2>2. h \in BdAtRec /\ BdHandOK(h) /\ h.pc = "first" /\ h.drv = d /\ h.dev = NoBd /\ h.all
      BY <1>1, <1>2, BdKnown DEF BdAtRec, BdHandOK, BdWhole
    <2> HIDE DEF h
    <2>3. bdAt'[a] = h /\ \A b \in BdActor : b # a => bdAt'[b] = bdAt[b]
      BY <2>1, <2>2, BdHoldFacts, BdKnown
    <2>4. /\ bdDrv' \in [BdDriver -> BdDrvRec]
          /\ bdDrv'[d].link = "poison" /\ bdDrv'[d].mem = bdDrv[d].mem /\ bdDrv'[d].reg = bdDrv[d].reg
          /\ bdDrv'[d].files = bdDrv[d].files /\ bdDrv'[d].devices = bdDrv[d].devices
          /\ \A e \in BdDriver : e # d => bdDrv'[e] = bdDrv[e]
      BY <1>2, <2>1, BdKnown, SMTT(30) DEF BdDrvRec, BdLinks
    <2>5. BdTypeOK' /\ BdHands' /\ BdNames'
      <3>1. ~bdUp' => bdAt'[BdRmmod].pc = "gone"
        BY <1>2, <2>1, <2>3, BdKnown, SMTT(30) DEF BdHands
      <3> QED
        BY <2>1, <2>2, <2>4, <3>1, BdBasics, BdKnown DEF BdHands
    <2>6. ASSUME BdOwned PROVE BdOwned'
      <3>1. BdDrvFits(bdAt[a], bdDrv[d]) /\ \A b \in BdActor : b # a => bdAt[b].drv # d
        BY <1>1, <1>2, <2>6, BdKnown DEF BdOwned, BdDrvInHand, BdSole
      <3>2. BdDrvFits(h, bdDrv'[d]) /\ bdDrv'[d].mem = "live"
        BY <1>2, <2>2, <2>4, <3>1 DEF BdDrvFits
      <3>3. BdWalks(h, bdDrv'[d].devices)
        BY <2>2 DEF BdWalks
      <3>4. BdExits'
        BY <1>1, <1>2, <2>2, <2>3, <2>4, <2>6, BdExitsStep, BdKnown DEF BdOwned
      <3>5. BdHands /\ NoBd \notin BdDriver
        BY BdKnown
      <3> QED
        BY <1>1, <1>2, <2>1, <2>2, <2>3, <2>4, <2>6, <3>1, <3>2, <3>3, <3>4, <3>5, BdDrvStep
    <2> QED
      BY <2>1, <2>5, <2>6 DEF BdInv
  <1> QED
    BY <1>3, <1>4

LEMMA BdFirstFacts ==
    ASSUME NEW s \in Seq(BdDevice), NoBd \notin BdDevice
    PROVE  /\ BdFirst(s) = NoBd <=> s = << >>
           /\ s # << >> => /\ Head(s) \in BdDevice /\ Head(s) = s[1] /\ 1 \in DOMAIN s
                           /\ Head(s) \in ToSet(s) /\ BdFirst(s) = Head(s)
                           /\ BdFirst(Tail(s)) = IF Len(s) = 1 THEN NoBd ELSE s[2]
                           /\ Len(s) \in Nat
  <1>1. CASE s = << >>
    BY <1>1 DEF BdFirst
  <1>3. \A q \in Seq(BdDevice) : q = << >> <=> Len(q) = 0
    BY EmptySeq
  <1>2. CASE s # << >>
    <2>1. Len(s) \in Nat /\ Len(s) > 0 /\ DOMAIN s = 1 .. Len(s) /\ \A i \in 1 .. Len(s) : s[i] \in BdDevice
      BY <1>2, LenProperties, ElementOfSeq, EmptySeq
    <2>2. 1 \in DOMAIN s /\ Head(s) = s[1] /\ Head(s) \in BdDevice
      BY <1>2, <2>1
    <2>3. Head(s) \in ToSet(s)
      BY <2>2 DEF ToSet
    <2>4. BdFirst(s) = Head(s) /\ BdFirst(s) # NoBd
      BY <1>2, <2>2 DEF BdFirst
    <2>5. BdFirst(Tail(s)) = IF Len(s) = 1 THEN NoBd ELSE s[2]
      <3>1. PICK t : t = Tail(s)
        OBVIOUS
      <3>2. t \in Seq(BdDevice) /\ Len(t) = Len(s) - 1 /\ \A i \in 1 .. Len(t) : t[i] = s[i + 1]
        BY <1>2, <3>1, HeadTailProperties
      <3>3. CASE Len(s) = 1
        <4>1. t = << >>
          BY <1>3, <3>2, <3>3
        <4> QED
          BY <3>1, <3>3, <4>1 DEF BdFirst
      <3>4. CASE Len(s) # 1
        <4>1. 1 \in 1 .. Len(t) /\ t # << >>
          BY <1>3, <2>1, <3>2, <3>4
        <4>2. Head(t) = t[1] /\ t[1] = s[2]
          BY <3>2, <4>1
        <4> QED
          BY <3>1, <3>4, <4>1, <4>2 DEF BdFirst
      <3> QED
        BY <3>3, <3>4
    <2> QED
      BY <1>2, <2>1, <2>2, <2>3, <2>4, <2>5
  <1> QED
    BY <1>1, <1>2

\* ... loses its devices, from the first on, ...
LEMMA BdLoopInv ==
    ASSUME BdInv, NEW a \in BdActor, BdLoop(a)
    PROVE  BdInv'
  <1> DEFINE d == bdAt[a].drv
             devices == bdDrv[d].devices
             dev == IF BdPc(a, "loop") THEN bdAt[a].next
                    ELSE IF devices = << >> THEN NoBd ELSE Head(devices)
             k == CHOOSE i \in DOMAIN devices : devices[i] = dev
             next == IF k = Len(devices) THEN NoBd ELSE devices[k + 1]
             destroy == [bdAt[a] EXCEPT !.pc = "destroy", !.dev = dev, !.next = next]
  <1>0. /\ dev = NoBd => BdGoto(a, "closing") /\ UNCHANGED <<bdDrv, bdDev, bdUp, bdRaced, bdOops>>
        /\ dev # NoBd /\ ~Contains(devices, dev) => BdOopsAt(a)
        /\ dev # NoBd /\ Contains(devices, dev) =>
               BdHold(a, destroy) /\ UNCHANGED <<bdDrv, bdDev, bdUp, bdRaced, bdOops>>
    BY DEF BdLoop
  <1>1. d = bdAt[a].drv
    OBVIOUS
  <1>2. devices = bdDrv[d].devices
    OBVIOUS
  <1>3. dev = IF bdAt[a].pc = "loop" THEN bdAt[a].next ELSE BdFirst(devices)
    BY DEF BdFirst, BdPc
  <1>a. dev \in ToSet(devices) /\ devices \in Seq(BdDevice) => k \in DOMAIN devices /\ devices[k] = dev
    BY ListFind
  <1>b. next = IF k = Len(devices) THEN NoBd ELSE devices[k + 1]
    OBVIOUS
  <1>c. destroy = [bdAt[a] EXCEPT !.pc = "destroy", !.dev = dev, !.next = next]
    OBVIOUS
  <1> HIDE DEF destroy, next, k, dev, devices, d
  <1>4. /\ bdAt[a].pc \in {"first", "loop"} /\ d \in BdDriver /\ bdAt[a].all /\ bdAt[a].dev = NoBd
        /\ devices \in Seq(BdDevice) /\ NoBd \notin BdDevice /\ NoBd \notin BdDriver
    <2>1. bdAt[a].pc \in {"first", "loop"} /\ d \in BdDriver /\ bdAt[a].all /\ bdAt[a].dev = NoBd
      BY <1>1, BdKnown DEF BdLoop, BdPc, BdHandOK, BdWhole
    <2> QED
      BY <1>2, <2>1, BdKnown DEF BdDrvRec
  <1>5. dev \in BdDevice \union {NoBd}
    <2>1. bdAt[a].next \in BdDevice \union {NoBd}
      BY BdKnown DEF BdAtRec
    <2>2. BdFirst(devices) \in BdDevice \union {NoBd}
      BY <1>4, BdFirstFacts DEF BdFirst
    <2> QED
      BY <1>3, <2>1, <2>2
  <1>6. BdOwned => /\ BdDrvFits(bdAt[a], bdDrv[d]) /\ dev = BdFirst(devices)
                   /\ \A b \in BdActor : b # a => bdAt[b].drv # d
    <2> SUFFICES ASSUME BdOwned
                 PROVE  /\ BdDrvFits(bdAt[a], bdDrv[d]) /\ dev = BdFirst(devices)
                        /\ \A b \in BdActor : b # a => bdAt[b].drv # d
      OBVIOUS
    <2>1. BdDrvFits(bdAt[a], bdDrv[d]) /\ \A b \in BdActor : b # a => bdAt[b].drv # d
      BY <1>1, <1>4 DEF BdOwned, BdDrvInHand, BdSole
    <2>2. dev = BdFirst(devices)
      BY <1>1, <1>2, <1>3, <1>4 DEF BdOwned, BdWalk, BdWalks
    <2> QED
      BY <2>1, <2>2
  <1>7. CASE dev = NoBd
    <2> DEFINE h == [bdAt[a] EXCEPT !.pc = "closing"]
    <2>1. BdHold(a, h) /\ UNCHANGED <<bdDrv, bdDev, bdUp, bdRaced, bdOops>>
      BY <1>0, <1>7 DEF BdGoto
    <2>2. h \in BdAtRec /\ BdHandOK(h) /\ h.pc = "closing" /\ h.drv = d /\ h.dev = NoBd /\ h.all
      BY <1>1, <1>4, BdKnown DEF BdAtRec, BdHandOK, BdWhole
    <2> HIDE DEF h
    <2>3. bdAt'[a] = h /\ \A b \in BdActor : b # a => bdAt'[b] = bdAt[b]
      BY <2>1, <2>2, BdHoldFacts, BdKnown
    <2>4. BdTypeOK' /\ BdHands' /\ BdNames'
      <3>1. ~bdUp' => bdAt'[BdRmmod].pc = "gone"
        BY <1>4, <2>1, <2>3, BdKnown DEF BdHands
      <3> QED
        BY <2>1, <2>2, <3>1, BdBasics, BdKnown DEF BdHands
    <2>5. ASSUME BdOwned PROVE BdOwned'
      <3>1. devices = << >>
        BY <1>4, <1>6, <1>7, <2>5, BdFirstFacts
      <3>2. BdWalks(h, bdDrv[d].devices)
        BY <1>2, <2>2, <3>1 DEF BdWalks
      <3>3. BdDrvFits(h, bdDrv[d])
        BY <1>4, <1>6, <2>2, <2>5 DEF BdDrvFits
      <3>4. BdExits'
        BY <1>1, <1>4, <2>1, <2>2, <2>3, <2>5, BdExitsStep, BdKnown DEF BdOwned
      <3>5. bdAt[a].pc \notin {"dlink", "release"}
        BY <1>4
      <3> QED
        BY <1>1, <1>4, <1>6, <2>1, <2>2, <2>3, <2>5, <3>2, <3>3, <3>4, <3>5, BdMoveStep, BdKnown
    <2> QED
      BY <2>1, <2>4, <2>5 DEF BdInv
  <1>8. CASE dev # NoBd /\ ~Contains(devices, dev)
    <2>1. bdRaced
      <3>1. dev = BdFirst(devices) /\ devices # << >> => Contains(devices, dev)
        BY <1>4, BdFirstFacts, ListContains
      <3> QED
        BY <1>4, <1>6, <1>8, <3>1, BdFirstFacts DEF BdInv
    <2>2. BdOopsAt(a)
      BY <1>0, <1>8
    <2> QED
      BY <2>1, <2>2, BdOopsInv
  <1>9. CASE dev # NoBd /\ Contains(devices, dev)
    <2> DEFINE h == destroy
    <2>1. BdHold(a, h) /\ UNCHANGED <<bdDrv, bdDev, bdUp, bdRaced, bdOops>>
      BY <1>0, <1>9
    <2>2. dev \in BdDevice /\ dev \in ToSet(devices) /\ k \in DOMAIN devices /\ devices[k] = dev
      BY <1>4, <1>5, <1>9, <1>a, ListContains
    <2>3. next \in BdDevice \union {NoBd}
      <3>1. Len(devices) \in Nat /\ DOMAIN devices = 1 .. Len(devices)
            /\ \A i \in 1 .. Len(devices) : devices[i] \in BdDevice
        BY <1>4, LenProperties, ElementOfSeq
      <3> QED
        BY <1>b, <2>2, <3>1
    <2>5. /\ h \in BdAtRec /\ BdHandOK(h) /\ h.pc = "destroy" /\ h.drv = d /\ h.dev = dev /\ h.all
          /\ h.next = next
      <3>1. bdAt[a] \in BdAtRec
        BY BdKnown
      <3>2. h \in BdAtRec /\ h.pc = "destroy" /\ h.drv = bdAt[a].drv /\ h.dev = dev
            /\ h.all = bdAt[a].all /\ h.next = next
        BY <1>c, <2>2, <2>3, <3>1 DEF BdAtRec
      <3> HIDE DEF h
      <3> QED
        BY <1>1, <1>4, <2>2, <3>2 DEF BdHandOK, BdWhole
    <2> HIDE DEF h
    <2>6. bdAt'[a] = h /\ \A b \in BdActor : b # a => bdAt'[b] = bdAt[b]
      BY <2>1, <2>5, BdHoldFacts, BdKnown
    <2>7. BdTypeOK' /\ BdHands' /\ BdNames'
      <3>1. ~bdUp' => bdAt'[BdRmmod].pc = "gone"
        BY <1>4, <2>1, <2>6, BdKnown DEF BdHands
      <3> QED
        BY <2>1, <2>5, <3>1, BdBasics, BdKnown DEF BdHands
    <2>8. ASSUME BdOwned PROVE BdOwned'
      <3>1. devices # << >> /\ dev = Head(devices) /\ dev = devices[1] /\ 1 \in DOMAIN devices
            /\ BdFirst(Tail(devices)) = IF Len(devices) = 1 THEN NoBd ELSE devices[2]
        <4>1. dev = BdFirst(devices) /\ devices # << >>
          BY <1>4, <1>6, <1>9, <2>8, BdFirstFacts
        <4> QED
          BY <1>4, <4>1, BdFirstFacts
      <3>2. next = BdFirst(Tail(devices))
        <4>1. IsInjective(devices)
          BY <1>2, <1>4, <2>8 DEF BdOwned, BdDrvRest
        <4>2. k = 1
          BY <2>2, <3>1, <4>1 DEF IsInjective
        <4> QED
          BY <1>b, <3>1, <4>2
      <3>3. BdWalks(h, bdDrv[d].devices)
        BY <1>2, <2>5, <3>1, <3>2 DEF BdWalks
      <3>4. BdDrvFits(h, bdDrv[d])
        BY <1>4, <1>6, <2>5, <2>8 DEF BdDrvFits
      <3>5. bdDev[dev].mem = "live" /\ bdDev[dev].link = "on" /\ bdDev[dev].drv = d
        BY <1>2, <1>4, <2>2, <2>8 DEF BdOwned, BdDevRest
      <3>6. BdDevFits(h, bdDev[dev])
        BY <2>5, <3>5 DEF BdDevFits
      <3>7. \A b \in BdActor : b # a => bdAt[b].dev # dev
        BY <1>6, <1>9, <2>8, <3>5 DEF BdOwned, BdDevInHand, BdDevFits
      <3>8. BdExits'
        BY <1>1, <1>4, <2>1, <2>5, <2>6, <2>8, BdExitsStep, BdKnown DEF BdOwned
      <3>9. bdAt[a].pc \notin {"dlink", "release"}
        BY <1>4
      <3> QED
        BY <1>1, <1>4, <1>6, <2>1, <2>2, <2>5, <2>6, <2>8, <3>3, <3>4, <3>6, <3>7, <3>8, <3>9,
           BdMoveStep, BdKnown
    <2> QED
      BY <2>1, <2>7, <2>8 DEF BdInv
  <1> QED
    BY <1>7, <1>8, <1>9, SMTT(30)

\* ... loses its files, ...
LEMMA BdCloseInv ==
    ASSUME BdInv, NEW a \in BdActor, BdClose(a)
    PROVE  BdInv'
  <1>1. PICK d : d = bdAt[a].drv
    OBVIOUS
  <1>2. bdAt[a].pc = "closing" /\ d \in BdDriver /\ bdAt[a].all /\ bdAt[a].dev = NoBd
    BY <1>1, BdKnown DEF BdClose, BdPc, BdHandOK, BdWhole
  <1>3. CASE bdDrv[d].mem = "freed"
    <2>1. bdRaced
      BY <1>1, <1>2, <1>3, BdKnown DEF BdInv, BdOwned, BdDrvInHand, BdDrvFits
    <2> QED
      BY <1>1, <1>3, <2>1, BdOopsInv DEF BdClose
  <1>4. CASE bdDrv[d].mem # "freed"
    <2> DEFINE h == [bdAt[a] EXCEPT !.pc = "unregister"]
    <2>1. bdDrv' = [bdDrv EXCEPT ![d].files = FALSE] /\ BdHold(a, h)
          /\ UNCHANGED <<bdDev, bdUp, bdRaced, bdOops>>
      BY <1>1, <1>4 DEF BdClose, BdGoto
    <2>2. h \in BdAtRec /\ BdHandOK(h) /\ h.pc = "unregister" /\ h.drv = d /\ h.dev = NoBd /\ h.all
      BY <1>1, <1>2, BdKnown DEF BdAtRec, BdHandOK, BdWhole
    <2> HIDE DEF h
    <2>3. bdAt'[a] = h /\ \A b \in BdActor : b # a => bdAt'[b] = bdAt[b]
      BY <2>1, <2>2, BdHoldFacts, BdKnown
    <2>4. /\ bdDrv' \in [BdDriver -> BdDrvRec]
          /\ ~bdDrv'[d].files /\ bdDrv'[d].mem = bdDrv[d].mem /\ bdDrv'[d].reg = bdDrv[d].reg
          /\ bdDrv'[d].link = bdDrv[d].link /\ bdDrv'[d].devices = bdDrv[d].devices
          /\ \A e \in BdDriver : e # d => bdDrv'[e] = bdDrv[e]
      BY <1>2, <2>1, BdKnown DEF BdDrvRec
    <2>5. BdTypeOK' /\ BdHands' /\ BdNames'
      <3>1. ~bdUp' => bdAt'[BdRmmod].pc = "gone"
        BY <1>2, <2>1, <2>3, BdKnown DEF BdHands
      <3> QED
        BY <2>1, <2>2, <2>4, <3>1, BdBasics, BdKnown DEF BdHands
    <2>6. ASSUME BdOwned PROVE BdOwned'
      <3>1. BdDrvFits(bdAt[a], bdDrv[d]) /\ \A b \in BdActor : b # a => bdAt[b].drv # d
        BY <1>1, <1>2, <2>6, BdKnown DEF BdOwned, BdDrvInHand, BdSole
      <3>2. BdDrvFits(h, bdDrv'[d]) /\ bdDrv'[d].mem = "live"
        BY <1>2, <2>2, <2>4, <3>1 DEF BdDrvFits
      <3>3. BdWalks(h, bdDrv'[d].devices)
        BY <1>1, <1>2, <2>2, <2>4, <2>6 DEF BdOwned, BdWalk, BdWalks
      <3>4. BdExits'
        BY <1>1, <1>2, <2>2, <2>3, <2>4, <2>6, BdExitsStep, BdKnown DEF BdOwned
      <3>5. BdHands /\ NoBd \notin BdDriver /\ UNCHANGED <<bdDev, bdOops>>
        BY <2>1, BdKnown
      <3>6. bdAt'[a].drv = d /\ bdAt'[a].dev = NoBd /\ bdAt'[a].all
        BY <2>2, <2>3
      <3> QED
        BY <1>1, <1>2, <2>3, <2>4, <2>6, <3>1, <3>2, <3>3, <3>4, <3>5, <3>6, BdDrvStep
    <2> QED
      BY <2>1, <2>5, <2>6 DEF BdInv
  <1> QED
    BY <1>3, <1>4

\* ... its registration, when it has no device any more, ...
LEMMA BdUnregisterInv ==
    ASSUME BdInv, NEW a \in BdActor, BdUnregister(a)
    PROVE  BdInv'
  <1>1. PICK d : d = bdAt[a].drv
    OBVIOUS
  <1> DEFINE h == [bdAt[a] EXCEPT !.pc = "free"]
  <1>2. bdAt[a].pc = "unregister" /\ d \in BdDriver /\ bdAt[a].all /\ bdAt[a].dev = NoBd
    BY <1>1, BdKnown DEF BdUnregister, BdPc, BdHandOK, BdWhole
  <1>3. /\ bdDrv' = [bdDrv EXCEPT ![d].reg = FALSE] /\ BdHold(a, h)
        /\ bdDev' = [v \in BdDevice |-> [bdDev[v] EXCEPT !.bound = @ /\ bdDev[v].drv # d]]
        /\ UNCHANGED <<bdUp, bdRaced, bdOops>>
    BY <1>1 DEF BdUnregister, BdGoto
  <1>4. h \in BdAtRec /\ BdHandOK(h) /\ h.pc = "free" /\ h.drv = d /\ h.dev = NoBd /\ h.all
    BY <1>1, <1>2, BdKnown DEF BdAtRec, BdHandOK, BdWhole
  <1> HIDE DEF h
  <1>5. bdAt'[a] = h /\ \A b \in BdActor : b # a => bdAt'[b] = bdAt[b]
    BY <1>3, <1>4, BdHoldFacts, BdKnown
  <1>6. /\ bdDrv' \in [BdDriver -> BdDrvRec]
        /\ ~bdDrv'[d].reg /\ bdDrv'[d].mem = bdDrv[d].mem /\ bdDrv'[d].files = bdDrv[d].files
        /\ bdDrv'[d].link = bdDrv[d].link /\ bdDrv'[d].devices = bdDrv[d].devices
        /\ \A e \in BdDriver : e # d => bdDrv'[e] = bdDrv[e]
    BY <1>2, <1>3, BdKnown DEF BdDrvRec
  <1>7. /\ bdDev' \in [BdDevice -> BdDevRec]
        /\ \A v \in BdDevice : /\ bdDev'[v].reg = bdDev[v].reg /\ bdDev'[v].id = bdDev[v].id
                               /\ bdDev'[v].bound => bdDev[v].bound
                               /\ bdDev'[v].drv = bdDev[v].drv
    <2>1. \A v \in BdDevice : bdDev[v] \in BdDevRec
      BY BdKnown
    <2>2. \A v \in BdDevice : (bdDev[v].bound /\ bdDev[v].drv # d) \in BOOLEAN
      BY <2>1 DEF BdDevRec
    <2> QED
      BY <1>3, <2>1, <2>2 DEF BdDevRec
  <1>8. BdTypeOK' /\ BdHands' /\ BdNames'
    <2>1. ~bdUp' => bdAt'[BdRmmod].pc = "gone"
      BY <1>2, <1>3, <1>5, BdKnown DEF BdHands
    <2> QED
      BY <1>3, <1>4, <1>6, <1>7, <2>1, BdBasics, BdKnown DEF BdHands
  <1>9. ASSUME BdOwned PROVE BdOwned'
    <2>1. BdDrvFits(bdAt[a], bdDrv[d]) /\ \A b \in BdActor : b # a => bdAt[b].drv # d
      BY <1>1, <1>2, <1>9, BdKnown DEF BdOwned, BdDrvInHand, BdSole
    <2>2. bdDrv[d].devices = << >>
      BY <1>1, <1>2, <1>9 DEF BdOwned, BdWalk, BdWalks
    <2>3. ASSUME NEW v \in BdDevice, bdDev[v].bound, bdDev[v].drv = d PROVE FALSE
      <3>1. bdDev[v].mem = "live" /\ BdDevRest(v)
        BY <1>9, <2>3 DEF BdOwned, BdDevRest
      <3>2. v \notin ToSet(bdDrv[d].devices)
        BY <2>2 DEF ToSet
      <3>3. PICK b \in BdActor : bdAt[b].dev = v
        BY <1>2, <2>3, <3>1, <3>2 DEF BdDevRest
      <3>4. bdAt[b].drv = d /\ b # a
        BY <1>2, <1>9, <2>3, <3>3, BdKnown DEF BdOwned, BdDevInHand, BdDevFits
      <3> QED
        BY <2>1, <3>4
    <2>4. bdDev' = bdDev
      <3>1. \A v \in BdDevice : bdDev[v] \in BdDevRec
        BY BdKnown
      <3>2. \A v \in BdDevice : (bdDev[v].bound /\ bdDev[v].drv # d) = bdDev[v].bound
        BY <2>3, <3>1 DEF BdDevRec
      <3>3. \A v \in BdDevice : bdDev'[v] = bdDev[v]
        BY <1>3, <3>1, <3>2 DEF BdDevRec
      <3> QED
        BY <1>7, <3>3, BdKnown
    <2>5. BdDrvFits(h, bdDrv'[d]) /\ bdDrv'[d].mem = "live"
      BY <1>2, <1>4, <1>6, <2>1 DEF BdDrvFits
    <2>6. BdWalks(h, bdDrv'[d].devices)
      BY <1>4, <1>6, <2>2 DEF BdWalks
    <2>7. BdExits'
      BY <1>1, <1>2, <1>4, <1>5, <1>6, <1>9, BdExitsStep, BdKnown DEF BdOwned
    <2>8. BdHands /\ NoBd \notin BdDriver /\ UNCHANGED bdOops
      BY <1>3, BdKnown
    <2> QED
      BY <1>1, <1>2, <1>4, <1>5, <1>6, <1>9, <2>1, <2>4, <2>5, <2>6, <2>7, <2>8, BdDrvStep
  <1> QED
    BY <1>3, <1>8, <1>9 DEF BdInv

\* ... and its memory.
LEMMA BdFreeInv ==
    ASSUME BdInv, NEW a \in BdActor, BdFree(a)
    PROVE  BdInv'
  <1>1. PICK d : d = bdAt[a].drv
    OBVIOUS
  <1> DEFINE h == IF a = BdRmmod THEN [BdIdle EXCEPT !.pc = "bus"] ELSE BdIdle
  <1>2. bdAt[a].pc = "free" /\ d \in BdDriver /\ bdAt[a].all /\ bdAt[a].dev = NoBd
    BY <1>1, BdKnown DEF BdFree, BdPc, BdHandOK, BdWhole
  <1>3. bdDrv' = [bdDrv EXCEPT ![d].mem = "freed"] /\ BdHold(a, h)
        /\ UNCHANGED <<bdDev, bdUp, bdRaced, bdOops>>
    BY <1>1 DEF BdFree
  <1>4. h \in BdAtRec /\ BdHandOK(h) /\ h.pc \in {"idle", "bus"} /\ h.drv = NoBd /\ h.dev = NoBd /\ ~h.all
    BY DEF BdAtRec, BdHandOK, BdWhole, BdIdle
  <1> HIDE DEF h
  <1>5. bdAt'[a] = h /\ \A b \in BdActor : b # a => bdAt'[b] = bdAt[b]
    BY <1>3, <1>4, BdHoldFacts, BdKnown
  <1>6. /\ bdDrv' \in [BdDriver -> BdDrvRec]
        /\ bdDrv'[d].mem = "freed" /\ bdDrv'[d].reg = bdDrv[d].reg
        /\ bdDrv'[d].files = bdDrv[d].files
        /\ bdDrv'[d].link = bdDrv[d].link /\ bdDrv'[d].devices = bdDrv[d].devices
        /\ \A e \in BdDriver : e # d => bdDrv'[e] = bdDrv[e]
    BY <1>2, <1>3, BdKnown DEF BdDrvRec, BdMem
  <1>7. BdTypeOK' /\ BdHands' /\ BdNames'
    <2>1. ~bdUp' => bdAt'[BdRmmod].pc = "gone"
      BY <1>2, <1>3, <1>5, BdKnown DEF BdHands
    <2> QED
      BY <1>3, <1>4, <1>6, <2>1, BdBasics, BdKnown
  <1>8. ASSUME BdOwned PROVE BdOwned'
    <2>1. BdDrvFits(bdAt[a], bdDrv[d]) /\ \A b \in BdActor : b # a => bdAt[b].drv # d
      BY <1>1, <1>2, <1>8, BdKnown DEF BdOwned, BdDrvInHand, BdSole
    <2>2. bdDrv[d].devices = << >> /\ ~bdDrv[d].reg /\ ~bdDrv[d].files /\ bdDrv[d].link = "poison"
      BY <1>1, <1>2, <1>8, <2>1 DEF BdOwned, BdWalk, BdWalks, BdDrvFits
    <2>3. BdExits'
      <3>1. a = BdRmmod => \A e \in BdDriver : bdDrv'[e].mem # "live"
        BY <1>1, <1>2, <1>6, <1>8 DEF BdOwned, BdExits
      <3> QED
        BY <1>2, <1>5, <1>6, <1>8, <3>1, BdExitsStep, BdKnown DEF BdOwned
    <2>4. BdHands /\ NoBd \notin BdDriver
      BY BdKnown
    <2> QED
      BY <1>1, <1>2, <1>3, <1>4, <1>5, <1>6, <1>8, <2>1, <2>2, <2>3, <2>4, BdDrvStep
  <1> QED
    BY <1>3, <1>7, <1>8 DEF BdInv

\* A driver whose files are there and that nobody destroys can be used.
LEMMA BdUsable ==
    ASSUME BdInv, BdOwned, NEW w \in BdWriter, bdAt[w].pc = "idle", NEW d \in BdDriver,
           bdDrv[d].files, ~BdDying(w, d)
    PROVE  /\ bdDrv[d].mem = "live" /\ bdDrv[d].reg /\ bdDrv[d].link # "poison"
           /\ \A b \in BdActor : bdAt[b].drv = d => ~bdAt[b].all
           /\ bdAt[BdRmmod].pc = "idle"
  <1>1. \A b \in BdActor : bdAt[b].drv = d => ~bdAt[b].all
    BY BdKnown DEF BdDying, BdHandOK, BdWhole
  <1>2. bdDrv[d].mem = "live"
    BY DEF BdOwned, BdDrvRest
  <1>3. bdDrv[d].reg /\ bdDrv[d].link # "poison"
    <2>1. CASE bdDrv[d].reg /\ bdDrv[d].link = "on"
      BY <2>1
    <2>2. CASE ~(bdDrv[d].reg /\ bdDrv[d].link = "on")
      <3>1. PICK b \in BdActor : bdAt[b].drv = d /\ bdAt[b].pc = "link"
        BY <1>1, <1>2, <2>2 DEF BdOwned, BdDrvRest
      <3>2. BdDrvFits(bdAt[b], bdDrv[d]) /\ ~bdAt[b].all
        BY <1>1, <3>1, BdKnown DEF BdOwned, BdDrvInHand
      <3> QED
        BY <3>1, <3>2 DEF BdDrvFits
    <2> QED
      BY <2>1, <2>2
  <1>4. bdAt[BdRmmod].pc = "idle"
    <2> SUFFICES ASSUME bdAt[BdRmmod].pc # "idle" PROVE FALSE
      OBVIOUS
    <2>1. bdAt[BdRmmod].drv = d
      BY <1>2 DEF BdOwned, BdExits
    <2>2. bdAt[BdRmmod].pc \notin {"idle", "bus", "gone"}
      BY <2>1, BdKnown DEF BdHandOK
    <2> QED
      BY <1>1, <2>1, <2>2, BdKnown DEF BdHands
  <1> QED
    BY <1>1, <1>2, <1>3, <1>4

\* A driver in hand for a new device.
LEMMA BdAddDeviceInv ==
    ASSUME BdInv, NEW w \in BdWriter, NEW d \in BdDriver, NEW id \in BdId, BdAddDevice(w, d, id)
    PROVE  BdInv'
  <1> DEFINE h == [BdIdle EXCEPT !.pc = "create", !.drv = d, !.id = id]
  <1>1. /\ w \in BdActor /\ w # BdRmmod /\ bdAt[w].pc = "idle" /\ ~bdAt[w].all
        /\ bdDrv[d].files /\ BdHold(w, h) /\ bdRaced' = (bdRaced \/ BdDying(w, d))
        /\ UNCHANGED <<bdDrv, bdDev, bdUp, bdOops>>
    BY BdKnown DEF BdAddDevice, BdPc, BdHandOK, BdWhole
  <1>2. h \in BdAtRec /\ BdHandOK(h) /\ h.pc = "create" /\ h.drv = d /\ h.dev = NoBd /\ ~h.all
    BY DEF BdIdle, BdAtRec, BdHandOK, BdWhole
  <1> HIDE DEF h
  <1>3. bdAt'[w] = h /\ \A b \in BdActor : b # w => bdAt'[b] = bdAt[b]
    BY <1>1, <1>2, BdHoldFacts, BdKnown
  <1>4. BdTypeOK' /\ BdHands' /\ BdNames'
    <2>1. ~bdUp' => bdAt'[BdRmmod].pc = "gone"
      BY <1>1, <1>3, BdKnown DEF BdHands
    <2>2. bdRaced' \in BOOLEAN
      BY <1>1, BdKnown DEF BdDying
    <2> QED
      BY <1>1, <1>2, <2>1, <2>2, BdBasics, BdKnown
  <1>5. ASSUME BdOwned, ~bdRaced' PROVE BdOwned'
    <2>1. /\ bdDrv[d].mem = "live" /\ bdDrv[d].reg /\ bdDrv[d].link # "poison"
          /\ \A b \in BdActor : bdAt[b].drv = d => ~bdAt[b].all
          /\ bdAt[BdRmmod].pc = "idle"
      BY <1>1, <1>5, BdUsable
    <2>2. BdDrvFits(h, bdDrv[d])
      BY <1>1, <1>2, <2>1 DEF BdDrvFits
    <2>3. BdExits'
      BY <1>1, <1>3, <2>1, BdKnown DEF BdExits
    <2> QED
      BY <1>1, <1>2, <1>3, <1>5, <2>1, <2>2, <2>3, BdMoveStep, BdKnown
  <1> QED
    BY <1>1, <1>4, <1>5 DEF BdInv

\* A device that somebody is going to destroy.
LEMMA BdDelDeviceInv ==
    ASSUME BdInv, NEW w \in BdWriter, NEW v \in BdDevice, BdDelDevice(w, v)
    PROVE  BdInv'
  <1>1. PICK d : d = bdDev[v].drv
    OBVIOUS
  <1> DEFINE h == [BdIdle EXCEPT !.pc = "destroy", !.drv = d, !.dev = v]
  <1>2. /\ w \in BdActor /\ w # BdRmmod /\ bdAt[w].pc = "idle" /\ ~bdAt[w].all /\ bdAt[w].dev = NoBd
        /\ bdDev[v].bound /\ d \in BdDriver /\ bdDrv[d].files /\ BdHold(w, h)
        /\ bdRaced' = (bdRaced \/ BdTaken(w, v) \/ BdDying(w, d))
        /\ UNCHANGED <<bdDrv, bdDev, bdUp, bdOops>>
    BY <1>1, BdKnown DEF BdDelDevice, BdPc, BdHandOK, BdWhole, BdHands
  <1>3. h \in BdAtRec /\ BdHandOK(h) /\ h.pc = "destroy" /\ h.drv = d /\ h.dev = v /\ ~h.all
    BY <1>2 DEF BdIdle, BdAtRec, BdHandOK, BdWhole
  <1> HIDE DEF h
  <1>4. bdAt'[w] = h /\ \A b \in BdActor : b # w => bdAt'[b] = bdAt[b]
    BY <1>2, <1>3, BdHoldFacts, BdKnown
  <1>5. BdTypeOK' /\ BdHands' /\ BdNames'
    <2>1. ~bdUp' => bdAt'[BdRmmod].pc = "gone"
      BY <1>2, <1>4, BdKnown DEF BdHands
    <2>2. bdRaced' \in BOOLEAN
      BY <1>2, BdKnown DEF BdDying, BdTaken
    <2> QED
      BY <1>2, <1>3, <2>1, <2>2, BdBasics, BdKnown
  <1>6. ASSUME BdOwned, ~bdRaced' PROVE BdOwned'
    <2>1. /\ bdDrv[d].mem = "live" /\ bdDrv[d].reg /\ bdDrv[d].link # "poison"
          /\ \A b \in BdActor : bdAt[b].drv = d => ~bdAt[b].all
          /\ bdAt[BdRmmod].pc = "idle"
      BY <1>2, <1>6, BdUsable
    <2>2. BdDrvFits(h, bdDrv[d])
      BY <1>2, <1>3, <2>1 DEF BdDrvFits
    <2>3. \A b \in BdActor : bdAt[b].dev # v
      BY <1>2, <1>6, BdKnown DEF BdTaken
    <2>4. BdDevFits(h, bdDev[v])
      BY <1>1, <1>2, <1>3, <1>6, <2>3 DEF BdOwned, BdDevRest, BdDevFits
    <2>5. BdExits'
      BY <1>2, <1>4, <2>1, BdKnown DEF BdExits
    <2> QED
      BY <1>2, <1>3, <1>4, <1>6, <2>1, <2>2, <2>3, <2>4, <2>5, BdMoveStep, BdKnown
  <1> QED
    BY <1>2, <1>5, <1>6 DEF BdInv

\* The exit takes a driver of the list, or has taken them all, ...
LEMMA BdExitInv ==
    ASSUME BdInv, BdExit
    PROVE  BdInv'
  <1>1. /\ BdRmmod \in BdActor /\ bdAt[BdRmmod].pc = "idle" /\ bdUp /\ ~bdAt[BdRmmod].all
        /\ bdRaced' = (bdRaced \/ \E w \in BdWriter : bdAt[w].pc # "idle")
        /\ UNCHANGED <<bdDrv, bdDev, bdUp, bdOops>>
    BY BdKnown DEF BdExit, BdPc, BdHandOK, BdWhole
  <1>2. bdRaced' \in BOOLEAN
    BY <1>1, BdKnown
  <1>3. ASSUME BdOwned, ~bdRaced'
        PROVE  \A d \in BdDriver : bdDrv[d].mem = "live" =>
                   bdDrv[d].reg /\ bdDrv[d].files /\ bdDrv[d].link = "on"
    <2>1. \A a \in BdActor : ~bdAt[a].all /\ bdAt[a].pc # "link" /\ bdAt[a].drv = NoBd
      BY <1>1, <1>3, BdKnown DEF BdActor, BdHandOK, BdWhole
    <2> QED
      BY <1>3, <2>1 DEF BdOwned, BdDrvRest
  <1>4. ASSUME NEW d \in BdDriver, bdDrv[d].link = "on",
               BdHold(BdRmmod, [BdIdle EXCEPT !.pc = "unlink", !.drv = d, !.all = TRUE])
        PROVE  BdInv'
    <2> DEFINE h == [BdIdle EXCEPT !.pc = "unlink", !.drv = d, !.all = TRUE]
    <2>1. h \in BdAtRec /\ BdHandOK(h) /\ h.pc = "unlink" /\ h.drv = d /\ h.dev = NoBd /\ h.all
      BY DEF BdIdle, BdAtRec, BdHandOK, BdWhole
    <2>2. BdHold(BdRmmod, h)
      BY <1>4
    <2> HIDE DEF h
    <2>3. bdAt'[BdRmmod] = h /\ \A b \in BdActor : b # BdRmmod => bdAt'[b] = bdAt[b]
      BY <1>1, <2>1, <2>2, BdHoldFacts, BdKnown
    <2>4. BdTypeOK' /\ BdHands' /\ BdNames'
      BY <1>1, <1>2, <2>1, <2>2, BdBasics, BdKnown
    <2>5. ASSUME BdOwned, ~bdRaced' PROVE BdOwned'
      <3>1. \A b \in BdActor : b # BdRmmod => bdAt[b].drv = NoBd
        BY <1>1, <2>5, BdKnown DEF BdActor, BdHandOK
      <3>2. bdDrv[d].mem = "live" /\ bdDrv[d].reg /\ bdDrv[d].files
        BY <1>3, <1>4, <2>5 DEF BdOwned, BdDrvRest
      <3>3. BdDrvFits(h, bdDrv[d]) /\ BdWalks(h, bdDrv[d].devices)
        BY <1>4, <2>1, <3>2 DEF BdDrvFits, BdWalks
      <3>4. \A e \in BdDriver : bdDrv[e].mem = "live" => e = d
        BY <1>3, <1>4, <2>5, <3>2, BdKnown DEF BdNames
      <3>5. BdExits'
        BY <1>1, <2>1, <2>3, <2>5, <3>4, BdKnown DEF BdExits
      <3> QED
        BY <1>1, <2>1, <2>3, <2>5, <3>1, <3>3, <3>5, BdMoveStep, BdKnown
    <2> QED
      BY <1>1, <2>4, <2>5 DEF BdInv
  <1>5. ASSUME \A d \in BdDriver : bdDrv[d].link # "on",
               BdHold(BdRmmod, [BdIdle EXCEPT !.pc = "bus"])
        PROVE  BdInv'
    <2> DEFINE h == [BdIdle EXCEPT !.pc = "bus"]
    <2>1. h \in BdAtRec /\ BdHandOK(h) /\ h.pc = "bus" /\ h.drv = NoBd /\ h.dev = NoBd /\ ~h.all
      BY DEF BdIdle, BdAtRec, BdHandOK, BdWhole
    <2>2. BdHold(BdRmmod, h)
      BY <1>5
    <2> HIDE DEF h
    <2>3. bdAt'[BdRmmod] = h /\ \A b \in BdActor : b # BdRmmod => bdAt'[b] = bdAt[b]
      BY <1>1, <2>1, <2>2, BdHoldFacts, BdKnown
    <2>4. BdTypeOK' /\ BdHands' /\ BdNames'
      BY <1>1, <1>2, <2>1, <2>2, BdBasics, BdKnown
    <2>5. ASSUME BdOwned, ~bdRaced' PROVE BdOwned'
      <3>1. BdExits'
        BY <1>1, <1>3, <1>5, <2>3, <2>5, BdKnown DEF BdExits
      <3> QED
        BY <1>1, <2>1, <2>3, <2>5, <3>1, BdMoveStep, BdKnown
    <2> QED
      BY <1>1, <2>4, <2>5 DEF BdInv
  <1> QED
    BY <1>4, <1>5 DEF BdExit

\* ... and takes the bus.
LEMMA BdBusGoneInv ==
    ASSUME BdInv, BdBusGone
    PROVE  BdInv'
  <1> DEFINE h == [BdIdle EXCEPT !.pc = "gone"]
  <1>1. /\ BdRmmod \in BdActor /\ bdAt[BdRmmod].pc = "bus" /\ ~bdAt[BdRmmod].all
        /\ bdAt[BdRmmod].drv = NoBd
        /\ BdHold(BdRmmod, h) /\ ~bdUp' /\ bdUp' \in BOOLEAN
        /\ UNCHANGED <<bdDrv, bdDev, bdRaced, bdOops>>
    BY BdKnown DEF BdBusGone, BdPc, BdHandOK, BdWhole
  <1>2. h \in BdAtRec /\ BdHandOK(h) /\ h.pc = "gone" /\ h.drv = NoBd /\ h.dev = NoBd /\ ~h.all
    BY DEF BdIdle, BdAtRec, BdHandOK, BdWhole
  <1> HIDE DEF h
  <1>3. bdAt'[BdRmmod] = h /\ \A b \in BdActor : b # BdRmmod => bdAt'[b] = bdAt[b]
    BY <1>1, <1>2, BdHoldFacts, BdKnown
  <1>4. BdTypeOK' /\ BdHands' /\ BdNames'
    BY <1>1, <1>2, <1>3, BdBasics, BdKnown
  <1>5. ASSUME BdOwned PROVE BdOwned'
    <2>1. BdExits'
      BY <1>1, <1>2, <1>3, <1>5, BdExitsStep, BdKnown DEF BdOwned
    <2> QED
      BY <1>1, <1>2, <1>3, <1>5, <2>1, BdMoveStep, BdKnown
  <1> QED
    BY <1>1, <1>4, <1>5 DEF BdInv

\* A device is registered, or its name is taken, ...
LEMMA BdCreateInv ==
    ASSUME BdInv, NEW w \in BdWriter, NEW v \in BdDevice, BdCreate(w, v)
    PROVE  BdInv'
  <1>1. PICK d : d = bdAt[w].drv
    OBVIOUS
  <1>2. /\ w \in BdActor /\ bdAt[w].pc = "create" /\ d \in BdDriver /\ bdAt[w].dev = NoBd
        /\ ~bdAt[w].all /\ bdDev[v].mem = "unused" /\ UNCHANGED <<bdDrv, bdUp, bdRaced, bdOops>>
    BY <1>1, BdKnown DEF BdCreate, BdPc, BdHandOK, BdWhole
  <1>3. ASSUME BdHold(w, BdIdle), UNCHANGED bdDev PROVE BdInv'
    <2>1. bdAt'[w] = BdIdle /\ \A b \in BdActor : b # w => bdAt'[b] = bdAt[b]
      BY <1>2, <1>3, BdHoldFacts, BdIdleFacts, BdKnown
    <2>2. BdTypeOK' /\ BdHands' /\ BdNames'
      <3>1. ~bdUp' => bdAt'[BdRmmod].pc = "gone"
        BY <1>2, <2>1, BdKnown DEF BdHands
      <3> QED
        BY <1>2, <1>3, <3>1, BdBasics, BdIdleFacts, BdKnown
    <2>3. ASSUME BdOwned PROVE BdOwned'
      <3>1. BdExits'
        BY <1>2, <2>1, <2>3, BdExitsStep, BdKnown DEF BdOwned
      <3> QED
        BY <1>2, <1>3, <2>1, <2>3, <3>1, BdMoveStep, BdIdleFacts, BdKnown
    <2> QED
      BY <1>2, <2>2, <2>3 DEF BdInv
  <1>4. ASSUME \A u \in BdDevice : ~(bdDev[u].reg /\ bdDev[u].id = bdAt[w].id),
               bdDev' = [bdDev EXCEPT ![v] =
                   [mem |-> "live", reg |-> TRUE, bound |-> TRUE, id |-> bdAt[w].id,
                    drv |-> bdAt[w].drv, link |-> "self"]],
               BdHold(w, [bdAt[w] EXCEPT !.pc = "dlink", !.dev = v])
        PROVE  BdInv'
    <2> DEFINE h == [bdAt[w] EXCEPT !.pc = "dlink", !.dev = v]
    <2>1. h \in BdAtRec /\ BdHandOK(h) /\ h.pc = "dlink" /\ h.drv = d /\ h.dev = v /\ ~h.all
      <3>1. bdAt[w] \in BdAtRec
        BY <1>2, BdKnown
      <3>2. h \in BdAtRec /\ h.pc = "dlink" /\ h.drv = bdAt[w].drv /\ h.dev = v
            /\ h.all = bdAt[w].all
        BY <3>1 DEF BdAtRec
      <3> HIDE DEF h
      <3> QED
        BY <1>1, <1>2, <3>2 DEF BdHandOK, BdWhole
    <2>2. BdHold(w, h)
      BY <1>4
    <2> HIDE DEF h
    <2>3. bdAt' \in [BdActor -> BdAtRec] /\ bdAt'[w] = h /\ \A b \in BdActor : b # w => bdAt'[b] = bdAt[b]
      BY <1>2, <2>1, <2>2, BdHoldFacts, BdKnown
    <2>4. /\ bdDev' \in [BdDevice -> BdDevRec]
          /\ bdDev'[v].mem = "live" /\ bdDev'[v].reg /\ bdDev'[v].bound
          /\ bdDev'[v].id = bdAt[w].id /\ bdDev'[v].drv = d /\ bdDev'[v].link = "self"
          /\ \A u \in BdDevice : u # v => bdDev'[u] = bdDev[u]
      <3>1. [mem |-> "live", reg |-> TRUE, bound |-> TRUE, id |-> bdAt[w].id,
             drv |-> bdAt[w].drv, link |-> "self"] \in BdDevRec
        BY <1>1, <1>2, BdKnown DEF BdDevRec, BdAtRec, BdMem, BdLinks
      <3> QED
        BY <1>1, <1>4, <3>1, BdKnown
    <2>5. BdTypeOK'
      BY <1>2, <2>3, <2>4, BdTypes, BdKnown DEF BdTypeOK, BdDevRec, BdAtRec, BdMem, BdLinks
    <2>6. BdHands'
      <3>1. bdAt'[BdRmmod] = bdAt[BdRmmod]
        BY <2>3, BdKnown
      <3>2. \A b \in BdActor : BdHandOK(bdAt'[b])
        BY <2>1, <2>3, BdKnown
      <3>3. \A u \in BdDevice : bdDev'[u].bound => bdDev'[u].drv \in BdDriver
        BY <1>2, <2>4, BdKnown DEF BdHands
      <3> QED
        BY <1>2, <3>1, <3>2, <3>3, BdKnown DEF BdHands
    <2>7. BdNames'
      BY <1>2, <1>4, <2>4, BdKnown DEF BdNames
    <2>8. ASSUME BdOwned PROVE BdOwned'
      <3>1. \A b \in BdActor : b # w => bdAt[b].dev # v
        BY <1>2, <2>8, BdKnown DEF BdOwned, BdDevInHand, BdDevFits
      <3>2. \A e \in BdDriver : v \notin ToSet(bdDrv[e].devices)
        BY <1>2, <2>8 DEF BdOwned, BdDevRest
      <3>3. BdDrvFits(h, bdDrv[d])
        BY <1>1, <1>2, <2>1, <2>8, BdKnown DEF BdOwned, BdDrvInHand, BdDrvFits
      <3>4. BdDevFits(h, bdDev'[v])
        BY <2>1, <2>4 DEF BdDevFits
      <3>5. BdExits'
        BY <1>2, <2>3, <2>8, BdExitsStep, BdKnown DEF BdOwned
      <3>6. BdHands /\ NoBd \notin BdDriver /\ NoBd \notin BdDevice
        BY BdKnown
      <3>7. IsInjective(bdDrv[d].devices)
        BY <1>2, <2>8 DEF BdOwned, BdDrvRest
      <3>8. /\ bdAt'[w].drv = d /\ bdAt'[w].dev = v /\ ~bdAt'[w].all /\ bdAt'[w].pc = "dlink"
            /\ BdDrvFits(bdAt'[w], bdDrv'[d]) /\ BdDevFits(bdAt'[w], bdDev'[v])
            /\ bdDrv' = bdDrv /\ bdOops' = bdOops
        BY <1>2, <2>1, <2>3, <3>3, <3>4
      <3>9. bdAt[w].drv = d /\ bdAt[w].pc # "link"
        BY <1>1, <1>2
      <3> QED
        BY <1>2, <2>3, <2>4, <2>8, <3>1, <3>2, <3>5, <3>6, <3>7, <3>8, <3>9, BdDevStep
    <2> QED
      BY <1>2, <2>5, <2>6, <2>7, <2>8 DEF BdInv
  <1> QED
    BY <1>3, <1>4 DEF BdCreate

\* ... and listed.
LEMMA BdDevLinkInv ==
    ASSUME BdInv, NEW w \in BdWriter, BdDevLink(w)
    PROVE  BdInv'
  <1>1. PICK d, v : d = bdAt[w].drv /\ v = bdAt[w].dev
    OBVIOUS
  <1>2. /\ w \in BdActor /\ bdAt[w].pc = "dlink" /\ d \in BdDriver /\ v \in BdDevice /\ ~bdAt[w].all
        /\ bdDrv[d].devices \in Seq(BdDevice)
    BY <1>1, BdKnown DEF BdDevLink, BdPc, BdHandOK, BdWhole, BdDrvRec
  <1>3. CASE bdDev[v].mem = "freed"
    <2>1. bdRaced
      BY <1>1, <1>2, <1>3, BdKnown DEF BdInv, BdOwned, BdDevInHand, BdDevFits
    <2> QED
      BY <1>1, <1>2, <1>3, <2>1, BdOopsInv DEF BdDevLink
  <1>4. CASE bdDev[v].mem # "freed"
    <2>1. /\ bdDev' = [bdDev EXCEPT ![v].link = "on"]
          /\ bdDrv' = [bdDrv EXCEPT ![d].devices = <<v>> \o @]
          /\ BdHold(w, BdIdle) /\ UNCHANGED <<bdUp, bdRaced, bdOops>>
      BY <1>1, <1>4 DEF BdDevLink
    <2>2. bdAt'[w] = BdIdle /\ \A b \in BdActor : b # w => bdAt'[b] = bdAt[b]
      BY <1>2, <2>1, BdHoldFacts, BdIdleFacts, BdKnown
    <2>3. <<v>> \o bdDrv[d].devices \in Seq(BdDevice)
      BY <1>2
    <2>4. /\ bdDrv' \in [BdDriver -> BdDrvRec]
          /\ bdDrv'[d].devices = <<v>> \o bdDrv[d].devices /\ bdDrv'[d].mem = bdDrv[d].mem
          /\ bdDrv'[d].reg = bdDrv[d].reg
          /\ bdDrv'[d].files = bdDrv[d].files /\ bdDrv'[d].link = bdDrv[d].link
          /\ \A e \in BdDriver : e # d => bdDrv'[e] = bdDrv[e]
      BY <1>2, <2>1, <2>3, BdKnown DEF BdDrvRec
    <2>5. /\ bdDev' \in [BdDevice -> BdDevRec]
          /\ bdDev'[v].link = "on" /\ bdDev'[v].mem = bdDev[v].mem /\ bdDev'[v].reg = bdDev[v].reg
          /\ bdDev'[v].bound = bdDev[v].bound /\ bdDev'[v].drv = bdDev[v].drv
          /\ bdDev'[v].id = bdDev[v].id
          /\ \A u \in BdDevice : u # v => bdDev'[u] = bdDev[u]
      BY <1>2, <2>1, BdKnown DEF BdDevRec, BdLinks
    <2>6. BdTypeOK' /\ BdHands' /\ BdNames'
      <3>1. ~bdUp' => bdAt'[BdRmmod].pc = "gone"
        BY <1>2, <2>1, <2>2, BdKnown DEF BdHands
      <3>2. \A u \in BdDevice : /\ bdDev'[u].reg = bdDev[u].reg /\ bdDev'[u].id = bdDev[u].id
                                /\ bdDev'[u].bound = bdDev[u].bound /\ bdDev'[u].drv = bdDev[u].drv
        BY <2>5
      <3>3. \A e \in BdDriver : bdDrv'[e].reg = bdDrv[e].reg
        BY <2>4
      <3> QED
        BY <1>2, <2>1, <2>4, <2>5, <3>1, <3>2, <3>3, BdBasics, BdIdleFacts, BdKnown
    <2>7. ASSUME BdOwned PROVE BdOwned'
      <3>1. BdDevFits(bdAt[w], bdDev[v]) /\ \A b \in BdActor : b # w => bdAt[b].dev # v
        BY <1>1, <1>2, <2>7, BdKnown DEF BdOwned, BdDevInHand, BdSole
      <3>2. bdDev[v].mem = "live" /\ bdDev[v].drv = d /\ bdDev[v].link = "self"
        BY <1>1, <1>2, <3>1 DEF BdDevFits
      <3>3. bdDev[v].reg /\ bdDev[v].bound /\ \A e \in BdDriver : v \notin ToSet(bdDrv[e].devices)
        BY <1>2, <2>7, <3>2 DEF BdOwned, BdDevRest
      <3>4. IsInjective(bdDrv[d].devices)
        BY <1>2, <2>7 DEF BdOwned, BdDrvRest
      <3>5. /\ IsInjective(bdDrv'[d].devices)
            /\ \A u : u \in ToSet(bdDrv'[d].devices) <=> u \in ToSet(bdDrv[d].devices) \/ u = v
        <4>1. PICK s, t : s = bdDrv[d].devices /\ t = bdDrv'[d].devices
          OBVIOUS
        <4>2. IsInjective(t) /\ \A u : u \in ToSet(t) <=> u \in ToSet(s) \/ u = v
          <5>1. s \in Seq(BdDevice) /\ IsInjective(s) /\ v \notin ToSet(s) /\ t = <<v>> \o s
            BY <1>2, <2>4, <3>3, <3>4, <4>1
          <5> QED
            BY <1>2, <5>1, ListAdd
        <4> QED
          BY <4>1, <4>2
      <3>6. BdExits'
        BY <1>2, <2>2, <2>4, <2>7, BdExitsStep, BdKnown DEF BdOwned
      <3>7. BdHands /\ NoBd \notin BdDriver /\ NoBd \notin BdDevice
        BY BdKnown
      <3>8. bdAt'[w].drv = NoBd /\ bdAt'[w].dev = NoBd /\ ~bdAt'[w].all /\ bdAt'[w].pc = "idle"
        BY <2>2, BdIdleFacts
      <3>9. bdAt[w].drv = d /\ bdAt[w].dev = v /\ bdAt[w].pc # "link" /\ bdOops' = bdOops
        BY <1>1, <1>2, <2>1
      <3>10. /\ bdDev'[v].mem = "live" /\ bdDev'[v].reg /\ bdDev'[v].bound /\ bdDev'[v].drv = d
             /\ bdDev'[v].link = "on" /\ v \in ToSet(bdDrv'[d].devices)
        BY <1>2, <2>5, <3>2, <3>3, <3>5
      <3>11. IsInjective(bdDrv'[d].devices) /\ \A u \in BdDevice : u # v =>
                 (u \in ToSet(bdDrv'[d].devices) <=> u \in ToSet(bdDrv[d].devices))
        BY <3>5
      <3>12. bdAt'[w].drv # d /\ bdAt'[w].dev # v
        BY <1>2, <3>7, <3>8
      <3>13. /\ w \in BdActor /\ v \in BdDevice /\ d \in BdDriver /\ ~bdAt[w].all
             /\ \A b \in BdActor : b # w => bdAt'[b] = bdAt[b] /\ bdAt[b].dev # v
             /\ \A u \in BdDevice : u # v => bdDev'[u] = bdDev[u]
             /\ \A e \in BdDriver : e # d => bdDrv'[e] = bdDrv[e] /\ v \notin ToSet(bdDrv[e].devices)
             /\ bdDrv'[d].mem = bdDrv[d].mem /\ bdDrv'[d].reg = bdDrv[d].reg
             /\ bdDrv'[d].files = bdDrv[d].files /\ bdDrv'[d].link = bdDrv[d].link
        BY <1>2, <2>2, <2>4, <2>5, <3>1, <3>3
      <3> QED
        BY <2>7, <3>6, <3>7, <3>8, <3>9, <3>10, <3>11, <3>12, <3>13, BdDevStep
    <2> QED
      BY <2>1, <2>6, <2>7 DEF BdInv
  <1> QED
    BY <1>3, <1>4

\* A device is taken off a list, where it is the first one or not.
LEMMA BdListDelFacts ==
    ASSUME NEW s \in Seq(BdDevice), NEW v \in BdDevice
    PROVE  /\ BdListDel(s, v) \in Seq(BdDevice)
           /\ IsInjective(s) =>
                 /\ IsInjective(BdListDel(s, v))
                 /\ \A u \in BdDevice : u \in ToSet(BdListDel(s, v)) <=> u \in ToSet(s) /\ u # v
           /\ IsInjective(s) /\ s # << >> /\ v = Head(s) => BdListDel(s, v) = Tail(s)
  <1>1. CASE ~Contains(s, v)
    <2>1. BdListDel(s, v) = s /\ v \notin ToSet(s)
      BY <1>1, ListContains DEF BdListDel
    <2>2. s # << >> => Head(s) \in ToSet(s)
      <3> SUFFICES ASSUME s # << >> PROVE Head(s) \in ToSet(s)
        OBVIOUS
      <3>1. Len(s) \in Nat /\ DOMAIN s = 1 .. Len(s) /\ Len(s) > 0
        BY LenProperties, EmptySeq
      <3>2. 1 \in DOMAIN s /\ Head(s) = s[1]
        BY <3>1
      <3> QED
        BY <3>2 DEF ToSet
    <2> QED
      BY <2>1, <2>2
  <1>2. CASE Contains(s, v)
    <2> DEFINE k == CHOOSE i \in DOMAIN s : s[i] = v
    <2>1. BdListDel(s, v) = RemoveAt(s, k)
      BY <1>2 DEF BdListDel
    <2>2. k \in DOMAIN s /\ s[k] = v
      BY <1>2, ListContains, ListFind
    <2> HIDE DEF k
    <2>3. Len(s) \in Nat /\ DOMAIN s = 1 .. Len(s) /\ k \in 1 .. Len(s)
          /\ \A i \in 1 .. Len(s) : s[i] \in BdDevice
      BY <2>2, LenProperties, ElementOfSeq
    <2>4. RemoveAt(s, k) \in Seq(BdDevice)
      <3>1. PICK p : p = SubSeq(s, 1, k - 1)
        OBVIOUS
      <3>2. PICK q : q = SubSeq(s, k + 1, Len(s))
        OBVIOUS
      <3>3. p \in Seq(BdDevice) /\ q \in Seq(BdDevice)
        BY <2>3, <3>1, <3>2, SubSeqProperties
      <3>4. RemoveAt(s, k) = p \o q
        BY <3>1, <3>2 DEF RemoveAt
      <3> QED
        BY <3>3, <3>4, ConcatProperties
    <2>5. ASSUME IsInjective(s)
          PROVE  /\ IsInjective(RemoveAt(s, k))
                 /\ \A u \in BdDevice : u \in ToSet(RemoveAt(s, k)) <=> u \in ToSet(s) /\ u # v
      <3>1. IsInjective(RemoveAt(s, k)) /\ ToSet(RemoveAt(s, k)) = ToSet(s) \ {s[k]}
        BY <2>2, <2>5, ListDel
      <3> QED
        BY <2>2, <3>1
    <2>6. ASSUME IsInjective(s), s # << >>, v = Head(s) PROVE RemoveAt(s, k) = Tail(s)
      <3>1. k = 1
        <4>1. 1 \in DOMAIN s /\ Head(s) = s[1]
          BY <2>3, <2>6
        <4> QED
          BY <2>2, <2>6, <4>1 DEF IsInjective
      <3>2. SubSeq(s, 1, 0) = << >>
        BY SubSeqEmpty
      <3>3. PICK t : t = Tail(s)
        OBVIOUS
      <3>4. t \in Seq(BdDevice) /\ t = SubSeq(s, 2, Len(s))
        BY <2>6, <3>3, TailIsSubSeq, HeadTailProperties
      <3>5. << >> \o t = t
        BY <3>4, ConcatEmptySeq
      <3>6. RemoveAt(s, k) = SubSeq(s, 1, 0) \o SubSeq(s, 2, Len(s))
        BY <3>1 DEF RemoveAt
      <3> QED
        BY <3>2, <3>3, <3>4, <3>5, <3>6
    <2> QED
      BY <2>1, <2>4, <2>5, <2>6
  <1> QED
    BY <1>1, <1>2

\* A device goes off the list, ...
LEMMA BdDestroyInv ==
    ASSUME BdInv, NEW a \in BdActor, BdDestroy(a)
    PROVE  BdInv'
  <1>1. PICK v, d : v = bdAt[a].dev /\ d = bdDev[v].drv
    OBVIOUS
  <1>2. /\ bdAt[a].pc = "destroy" /\ v \in BdDevice /\ d \in BdDriver \union {NoBd}
        /\ bdAt[a].drv \in BdDriver /\ NoBd \notin BdDriver
    BY <1>1, BdKnown DEF BdDestroy, BdPc, BdHandOK, BdDevRec
  <1>3. BdOwned => /\ bdDev[v].mem = "live" /\ bdDev[v].link = "on" /\ bdAt[a].drv = d
                   /\ BdDrvFits(bdAt[a], bdDrv[d]) /\ bdDrv[d].mem = "live"
                   /\ \A b \in BdActor : b # a => bdAt[b].dev # v
    <2> SUFFICES ASSUME BdOwned
                 PROVE  /\ bdDev[v].mem = "live" /\ bdDev[v].link = "on" /\ bdAt[a].drv = d
                        /\ BdDrvFits(bdAt[a], bdDrv[d]) /\ bdDrv[d].mem = "live"
                        /\ \A b \in BdActor : b # a => bdAt[b].dev # v
      OBVIOUS
    <2>1. BdDevFits(bdAt[a], bdDev[v]) /\ \A b \in BdActor : b # a => bdAt[b].dev # v
      BY <1>1, <1>2, BdKnown DEF BdOwned, BdDevInHand, BdSole
    <2>2. bdDev[v].mem = "live" /\ bdDev[v].link = "on" /\ bdAt[a].drv = d
      BY <1>1, <1>2, <2>1 DEF BdDevFits
    <2>3. BdDrvFits(bdAt[a], bdDrv[d])
      BY <1>2, <2>2 DEF BdOwned, BdDrvInHand
    <2> QED
      BY <2>1, <2>2, <2>3 DEF BdDrvFits
  <1>4. CASE bdDev[v].mem = "freed" \/ bdDrv[d].mem = "freed" \/ bdDev[v].link = "poison"
    <2>1. bdRaced
      BY <1>3, <1>4 DEF BdInv
    <2> QED
      BY <1>1, <1>4, <2>1, BdOopsInv DEF BdDestroy
  <1>5. CASE ~(bdDev[v].mem = "freed" \/ bdDrv[d].mem = "freed" \/ bdDev[v].link = "poison")
    <2> DEFINE h == [bdAt[a] EXCEPT !.pc = "release"]
    <2>1. /\ bdDev' = [bdDev EXCEPT ![v].link = "poison"]
          /\ bdDrv' = [bdDrv EXCEPT ![d].devices = BdListDel(@, v)]
          /\ BdHold(a, h) /\ UNCHANGED <<bdUp, bdRaced, bdOops>>
      BY <1>1, <1>5 DEF BdDestroy, BdGoto
    <2>2. /\ h \in BdAtRec /\ BdHandOK(h) /\ h.pc = "release" /\ h.drv = bdAt[a].drv /\ h.dev = v
          /\ h.all = bdAt[a].all /\ h.next = bdAt[a].next
      <3>1. bdAt[a] \in BdAtRec /\ BdHandOK(bdAt[a])
        BY BdKnown
      <3> QED
        BY <1>1, <1>2, <3>1 DEF BdAtRec, BdHandOK, BdWhole
    <2> HIDE DEF h
    <2>3. bdAt'[a] = h /\ \A b \in BdActor : b # a => bdAt'[b] = bdAt[b]
      BY <2>1, <2>2, BdHoldFacts, BdKnown
    <2>4. /\ \A e \in BdDriver : /\ bdDrv'[e].mem = bdDrv[e].mem /\ bdDrv'[e].reg = bdDrv[e].reg
                                 /\ bdDrv'[e].files = bdDrv[e].files /\ bdDrv'[e].link = bdDrv[e].link
                                 /\ e # d => bdDrv'[e] = bdDrv[e]
                                 /\ e = d => bdDrv'[e].devices = BdListDel(bdDrv[d].devices, v)
          /\ bdDrv' \in [BdDriver -> BdDrvRec]
      <3>1. CASE d = NoBd
        <4>1. bdDrv' = bdDrv
          BY <1>2, <2>1, <3>1, BdKnown
        <4> QED
          BY <1>2, <3>1, <4>1, BdKnown
      <3>2. CASE d \in BdDriver
        <4>1. PICK l : l = BdListDel(bdDrv[d].devices, v)
          OBVIOUS
        <4>2. l \in Seq(BdDevice)
          BY <1>2, <3>2, <4>1, BdListDelFacts, BdKnown DEF BdDrvRec
        <4>3. bdDrv' = [bdDrv EXCEPT ![d].devices = l]
          BY <2>1, <4>1
        <4> QED
          BY <3>2, <4>1, <4>2, <4>3, BdKnown DEF BdDrvRec
      <3> QED
        BY <1>2, <3>1, <3>2
    <2>5. /\ bdDev' \in [BdDevice -> BdDevRec]
          /\ bdDev'[v].link = "poison" /\ bdDev'[v].mem = bdDev[v].mem /\ bdDev'[v].reg = bdDev[v].reg
          /\ bdDev'[v].bound = bdDev[v].bound /\ bdDev'[v].drv = bdDev[v].drv
          /\ bdDev'[v].id = bdDev[v].id
          /\ \A u \in BdDevice : u # v => bdDev'[u] = bdDev[u]
      BY <1>2, <2>1, BdKnown DEF BdDevRec, BdLinks
    <2>6. BdTypeOK' /\ BdHands' /\ BdNames'
      <3>1. ~bdUp' => bdAt'[BdRmmod].pc = "gone"
        BY <1>2, <2>1, <2>3, BdKnown DEF BdHands
      <3>2. \A u \in BdDevice : /\ bdDev'[u].reg = bdDev[u].reg /\ bdDev'[u].id = bdDev[u].id
                                /\ bdDev'[u].bound = bdDev[u].bound /\ bdDev'[u].drv = bdDev[u].drv
        BY <2>5
      <3>3. a = BdRmmod => h.all
        BY <1>2, <2>2, BdKnown DEF BdHands
      <3> QED
        BY <2>1, <2>2, <2>4, <2>5, <3>1, <3>2, <3>3, BdBasics, BdKnown
    <2>7. ASSUME BdOwned PROVE BdOwned'
      <3>1. /\ bdDev[v].mem = "live" /\ bdDev[v].link = "on" /\ bdAt[a].drv = d
            /\ BdDrvFits(bdAt[a], bdDrv[d]) /\ bdDrv[d].mem = "live" /\ d \in BdDriver
            /\ \A b \in BdActor : b # a => bdAt[b].dev # v
        BY <1>2, <1>3, <2>7
      <3>2. bdDev[v].reg /\ bdDev[v].bound /\ \A e \in BdDriver : e # d => v \notin ToSet(bdDrv[e].devices)
        BY <1>1, <1>2, <2>7, <3>1 DEF BdOwned, BdDevRest
      <3>3. PICK s : s = bdDrv[d].devices
        OBVIOUS
      <3>4. s \in Seq(BdDevice) /\ IsInjective(s) /\ bdDrv'[d].devices = BdListDel(s, v)
        BY <2>4, <2>7, <3>1, <3>3, BdKnown DEF BdOwned, BdDrvRest, BdDrvRec
      <3>5. /\ IsInjective(bdDrv'[d].devices) /\ v \notin ToSet(bdDrv'[d].devices)
            /\ \A u \in BdDevice : u # v =>
                   (u \in ToSet(bdDrv'[d].devices) <=> u \in ToSet(bdDrv[d].devices))
        BY <1>2, <3>3, <3>4, BdListDelFacts, SMTT(30)
      <3>6. bdAt'[a].all => BdWalks(bdAt'[a], bdDrv'[d].devices)
        <4> SUFFICES ASSUME h.all PROVE BdWalks(h, bdDrv'[d].devices)
          BY <2>3, SMTT(30)
        <4>1. s # << >> /\ v = Head(s) /\ bdAt[a].next = BdFirst(Tail(s))
          BY <1>1, <1>2, <2>2, <2>7, <3>1, <3>3 DEF BdOwned, BdWalk, BdWalks
        <4>2. bdDrv'[d].devices = Tail(s)
          BY <1>2, <3>4, <4>1, BdListDelFacts
        <4> QED
          BY <2>2, <4>1, <4>2 DEF BdWalks
      <3>7. BdDrvFits(bdAt'[a], bdDrv'[d])
        <4>1. (bdAt'[a].all <=> bdAt[a].all) /\ bdAt'[a].pc = "release" /\ bdAt[a].pc = "destroy"
          BY <1>2, <2>2, <2>3
        <4> QED
          BY <2>4, <3>1, <4>1 DEF BdDrvFits
      <3>8. BdDevFits(bdAt'[a], bdDev'[v])
        BY <1>1, <2>2, <2>3, <2>5, <3>1 DEF BdDevFits
      <3>9. BdExits'
        BY <1>2, <2>2, <2>3, <2>4, <2>7, BdExitsStep, BdKnown DEF BdOwned
      <3>10. BdHands /\ NoBd \notin BdDriver /\ NoBd \notin BdDevice /\ bdOops' = bdOops
        BY <2>1, BdKnown
      <3>11. /\ bdAt[a].drv = d /\ bdAt'[a].drv = d /\ bdAt[a].dev = v /\ bdAt'[a].dev = v
             /\ bdAt[a].pc # "link" /\ bdAt'[a].pc = "release" /\ (bdAt'[a].all <=> bdAt[a].all)
        BY <1>1, <1>2, <2>2, <2>3, <3>1
      <3>12. /\ v \in BdDevice /\ d \in BdDriver
             /\ \A b \in BdActor : b # a => bdAt'[b] = bdAt[b] /\ bdAt[b].dev # v
             /\ \A u \in BdDevice : u # v => bdDev'[u] = bdDev[u]
             /\ \A e \in BdDriver : e # d => bdDrv'[e] = bdDrv[e] /\ v \notin ToSet(bdDrv[e].devices)
             /\ bdDrv'[d].mem = bdDrv[d].mem /\ bdDrv'[d].reg = bdDrv[d].reg
             /\ bdDrv'[d].files = bdDrv[d].files /\ bdDrv'[d].link = bdDrv[d].link
        BY <1>2, <2>3, <2>4, <2>5, <3>1, <3>2
      <3>13. /\ bdDev'[v].mem = "live" /\ bdDev'[v].reg /\ bdDev'[v].bound /\ bdDev'[v].drv = d
             /\ bdDev'[v].link = "poison"
        BY <1>1, <2>5, <3>1, <3>2
      <3> QED
        BY <2>7, <3>5, <3>6, <3>7, <3>8, <3>9, <3>10, <3>11, <3>12, <3>13, BdDevStep
    <2> QED
      BY <2>1, <2>6, <2>7 DEF BdInv
  <1> QED
    BY <1>4, <1>5

\* ... and is gone; who destroys the driver goes on with the next.
LEMMA BdReleaseInv ==
    ASSUME BdInv, NEW a \in BdActor, BdRelease(a)
    PROVE  BdInv'
  <1>1. PICK v, d : v = bdAt[a].dev /\ d = bdAt[a].drv
    OBVIOUS
  <1>2. /\ bdAt[a].pc = "release" /\ v \in BdDevice /\ d \in BdDriver
        /\ NoBd \notin BdDriver /\ NoBd \notin BdDevice
    BY <1>1, BdKnown DEF BdRelease, BdPc, BdHandOK
  <1>3. CASE bdDev[v].mem = "freed"
    <2>1. bdRaced
      BY <1>1, <1>2, <1>3 DEF BdInv, BdOwned, BdDevInHand, BdDevFits
    <2> QED
      BY <1>1, <1>3, <2>1, BdOopsInv DEF BdRelease
  <1>4. CASE bdDev[v].mem # "freed"
    <2> DEFINE h == IF bdAt[a].all THEN [bdAt[a] EXCEPT !.pc = "loop", !.dev = NoBd] ELSE BdIdle
    <2>1. /\ bdDev' = [bdDev EXCEPT ![v].mem = "freed", ![v].reg = FALSE, ![v].bound = FALSE]
          /\ BdHold(a, h) /\ UNCHANGED <<bdDrv, bdUp, bdRaced, bdOops>>
      BY <1>1, <1>4 DEF BdRelease
    <2>2. /\ h \in BdAtRec /\ BdHandOK(h) /\ h.dev = NoBd /\ (h.all <=> bdAt[a].all)
          /\ h.all => h.pc = "loop" /\ h.drv = d /\ h.next = bdAt[a].next
          /\ ~h.all => h.pc = "idle" /\ h.drv = NoBd
      <3>1. bdAt[a] \in BdAtRec /\ BdHandOK(bdAt[a])
        BY BdKnown
      <3>2. CASE bdAt[a].all
        BY <1>1, <1>2, <3>1, <3>2 DEF BdAtRec, BdHandOK, BdWhole
      <3>3. CASE ~bdAt[a].all
        BY <3>3, BdIdleFacts
      <3> QED
        BY <3>2, <3>3
    <2> HIDE DEF h
    <2>3. bdAt'[a] = h /\ \A b \in BdActor : b # a => bdAt'[b] = bdAt[b]
      BY <2>1, <2>2, BdHoldFacts, BdKnown
    <2>4. /\ bdDev' \in [BdDevice -> BdDevRec]
          /\ bdDev'[v].mem = "freed" /\ ~bdDev'[v].reg /\ ~bdDev'[v].bound
          /\ bdDev'[v].link = bdDev[v].link
          /\ \A u \in BdDevice : u # v => bdDev'[u] = bdDev[u]
      <3> DEFINE r == [bdDev[v] EXCEPT !.mem = "freed", !.reg = FALSE, !.bound = FALSE]
      <3>1. bdDev[v] \in BdDevRec
        BY <1>2, BdKnown
      <3>2. r \in BdDevRec /\ r.mem = "freed" /\ ~r.reg /\ ~r.bound /\ r.link = bdDev[v].link
        BY <3>1 DEF BdDevRec, BdMem
      <3>3. bdDev' = [bdDev EXCEPT ![v] = r]
        BY <1>2, <2>1, BdKnown
      <3> HIDE DEF r
      <3> QED
        BY <1>2, <3>2, <3>3, BdKnown
    <2>5. BdTypeOK' /\ BdHands' /\ BdNames'
      <3>1. ~bdUp' => bdAt'[BdRmmod].pc = "gone"
        BY <1>2, <2>1, <2>3, BdKnown DEF BdHands
      <3>2. \A u \in BdDevice : /\ bdDev'[u].reg => bdDev[u].reg /\ bdDev'[u].id = bdDev[u].id
                                /\ bdDev'[u].bound => bdDev[u].bound /\ bdDev'[u].drv = bdDev[u].drv
        BY <2>4
      <3>3. a = BdRmmod => h.all
        BY <1>2, <2>2, BdKnown DEF BdHands
      <3> QED
        <4>1. /\ BdTypeOK /\ BdHands /\ BdNames /\ bdDrv' \in [BdDriver -> BdDrvRec]
              /\ bdUp' \in BOOLEAN /\ bdRaced' \in BOOLEAN /\ bdOops' = bdOops
              /\ \A e \in BdDriver : bdDrv'[e].reg => bdDrv[e].reg
          BY <2>1, BdKnown
        <4> QED
          BY <2>1, <2>2, <2>4, <3>1, <3>2, <3>3, <4>1, BdBasics
    <2>6. ASSUME BdOwned PROVE BdOwned'
      <3>1. BdDevFits(bdAt[a], bdDev[v]) /\ \A b \in BdActor : b # a => bdAt[b].dev # v
        BY <1>1, <1>2, <2>6, BdKnown DEF BdOwned, BdDevInHand, BdSole
      <3>2. BdDrvFits(bdAt[a], bdDrv[d])
        BY <1>1, <1>2, <2>6 DEF BdOwned, BdDrvInHand
      <3>3. \A e \in BdDriver : v \notin ToSet(bdDrv[e].devices)
        BY <1>2, <2>6, <3>1 DEF BdOwned, BdDevRest, BdDevFits
      <3>4. IsInjective(bdDrv[d].devices)
        BY <1>2, <2>6 DEF BdOwned, BdDrvRest
      <3>5. bdAt'[a].all => BdWalks(bdAt'[a], bdDrv[d].devices)
        BY <1>1, <1>2, <2>2, <2>3, <2>6 DEF BdOwned, BdWalk, BdWalks
      <3>6. bdAt'[a].drv = d => BdDrvFits(bdAt'[a], bdDrv[d])
        <4> SUFFICES ASSUME h.drv = d PROVE BdDrvFits(h, bdDrv[d])
          BY <2>3
        <4>1. h.all /\ h.pc = "loop" /\ bdAt[a].all
          BY <1>2, <2>2
        <4> QED
          BY <1>2, <3>2, <4>1 DEF BdDrvFits
      <3>7. BdExits'
        <4>1. a = BdRmmod => bdAt'[a].drv = bdAt[a].drv
          BY <1>1, <1>2, <2>2, <2>3, BdKnown DEF BdHands
        <4> QED
          BY <1>2, <2>1, <2>3, <2>6, <4>1, BdExitsStep, BdKnown DEF BdOwned
      <3>8. BdHands /\ bdOops' = bdOops /\ bdDrv' = bdDrv
        BY <2>1, BdKnown
      <3>9. /\ bdAt[a].drv = d /\ bdAt'[a].drv \in {d, NoBd} /\ bdAt[a].dev = v /\ bdAt'[a].dev = NoBd
            /\ bdAt[a].pc # "link" /\ bdAt'[a].pc # "link" /\ (bdAt'[a].all <=> bdAt[a].all)
            /\ bdAt[a].all => bdAt'[a].drv = d
        BY <1>1, <1>2, <2>2, <2>3
      <3>10. /\ \A b \in BdActor : b # a => bdAt'[b] = bdAt[b] /\ bdAt[b].dev # v
             /\ \A u \in BdDevice : u # v => bdDev'[u] = bdDev[u]
             /\ bdDev'[v].mem = "freed" /\ ~bdDev'[v].reg /\ ~bdDev'[v].bound
        BY <2>3, <2>4, <3>1
      <3> QED
        BY <1>2, <2>6, <3>3, <3>4, <3>5, <3>6, <3>7, <3>8, <3>9, <3>10, BdDevStep
    <2> QED
      BY <2>1, <2>5, <2>6 DEF BdInv
  <1> QED
    BY <1>3, <1>4

LEMMA BdInitInv ==
    ASSUME BdInit
    PROVE  BdInv
  <1>1. /\ bdDrv \in [BdDriver -> BdDrvRec] /\ bdDev \in [BdDevice -> BdDevRec]
        /\ bdAt \in [BdActor -> BdAtRec]
    <2>1. [mem |-> "unused", reg |-> FALSE, files |-> FALSE, link |-> "self", devices |-> << >>]
             \in BdDrvRec
      BY DEF BdDrvRec, BdMem, BdLinks
    <2>2. [mem |-> "unused", reg |-> FALSE, bound |-> FALSE, drv |-> NoBd, id |-> NoBd,
           link |-> "self"] \in BdDevRec
      BY DEF BdDevRec, BdMem, BdLinks
    <2> QED
      BY <2>1, <2>2, BdIdleFacts DEF BdInit
  <1>2. BdRmmod \in BdActor /\ NoBd \notin BdDriver /\ NoBd \notin BdDevice
    BY BddtreeAssumption DEF BdActor
  <1>3. \A a \in BdActor : bdAt[a] = BdIdle
    BY DEF BdInit
  <1>4. /\ \A d \in BdDriver : /\ bdDrv[d].mem = "unused" /\ ~bdDrv[d].reg /\ ~bdDrv[d].files
                               /\ bdDrv[d].link = "self" /\ bdDrv[d].devices = << >>
        /\ \A v \in BdDevice : /\ bdDev[v].mem = "unused" /\ ~bdDev[v].reg /\ ~bdDev[v].bound
        /\ bdUp /\ bdOops = "none" /\ bdUp \in BOOLEAN /\ bdRaced \in BOOLEAN
    BY DEF BdInit
  <1>5. BdTypeOK
    BY <1>1, <1>4, BdTypes
  <1>6. BdHands /\ BdNames
    BY <1>2, <1>3, <1>4, BdIdleFacts DEF BdHands, BdNames
  <1>7. IsInjective(<< >>) /\ \A v : v \notin ToSet(<< >>)
    BY DEF IsInjective, ToSet
  <1>8. BdSole /\ \A a \in BdActor : BdDrvInHand(a) /\ BdDevInHand(a) /\ BdWalk(a)
    BY <1>3, BdIdleFacts DEF BdSole, BdDrvInHand, BdDevInHand, BdWalk
  <1>9. \A d \in BdDriver : BdDrvRest(d)
    BY <1>4, <1>7 DEF BdDrvRest
  <1>10. \A v \in BdDevice : BdDevRest(v)
    BY <1>4, <1>7 DEF BdDevRest
  <1>11. BdExits
    BY <1>2, <1>3, BdIdleFacts DEF BdExits
  <1> QED
    BY <1>4, <1>5, <1>6, <1>8, <1>9, <1>10, <1>11 DEF BdInv, BdOwned

\* What BddtreeSound says follows.
LEMMA BdInvSound ==
    ASSUME BdInv
    PROVE  BddtreeSound
  <1>1. \A u, v \in BdDevice : bdDev[u].reg /\ bdDev[v].reg /\ bdDev[u].id = bdDev[v].id => u = v
    BY DEF BdInv, BdNames
  <1>2. ASSUME BdOwned PROVE bdOops = "none"
    BY <1>2 DEF BdOwned
  <1>3. ASSUME BdOwned, NEW v \in BdDevice, bdDev[v].reg
        PROVE  bdDev[v].bound /\ bdDrv[bdDev[v].drv].reg
    <2>1. PICK d : d = bdDev[v].drv
      OBVIOUS
    <2>2. bdDev[v].mem = "live" /\ bdDev[v].bound /\ d \in BdDriver
      BY <1>3, <2>1, BdKnown DEF BdOwned, BdDevRest, BdHands
    <2>3. CASE bdDev[v].link = "on"
      <3>1. v \in ToSet(bdDrv[d].devices)
        BY <1>3, <2>1, <2>2, <2>3 DEF BdOwned, BdDevRest
      <3>2. bdDrv[d].devices # << >>
        BY <3>1 DEF ToSet
      <3>3. CASE bdDrv[d].reg
        BY <2>1, <2>2, <3>3
      <3>4. CASE ~bdDrv[d].reg
        <4>1. PICK a \in BdActor : bdAt[a].drv = d /\ (bdAt[a].all \/ bdAt[a].pc = "link")
          BY <1>3, <2>2, <3>2, <3>4 DEF BdOwned, BdDrvRest
        <4>2. BdDrvFits(bdAt[a], bdDrv[d])
          BY <1>3, <2>2, <4>1, BdKnown DEF BdOwned, BdDrvInHand
        <4>3. bdAt[a].pc = "free" /\ bdAt[a].all
          BY <3>4, <4>1, <4>2 DEF BdDrvFits
        <4> QED
          BY <1>3, <3>2, <4>1, <4>3 DEF BdOwned, BdWalk, BdWalks
      <3> QED
        BY <3>3, <3>4
    <2>4. CASE bdDev[v].link # "on"
      <3>1. PICK a \in BdActor : bdAt[a].dev = v /\ bdAt[a].pc \in {"dlink", "release"}
        BY <1>3, <2>2, <2>4 DEF BdOwned, BdDevRest
      <3>2. bdAt[a].drv = d
        BY <1>3, <2>1, <3>1, BdKnown DEF BdOwned, BdDevInHand, BdDevFits
      <3>3. BdDrvFits(bdAt[a], bdDrv[d])
        BY <1>3, <2>2, <3>2, BdKnown DEF BdOwned, BdDrvInHand
      <3> QED
        BY <2>1, <2>2, <3>1, <3>3 DEF BdDrvFits
    <2> QED
      BY <2>3, <2>4
  <1>4. ASSUME BdOwned, NEW v \in BdDevice, ~(\E a \in BdActor : bdAt[a].dev = v)
        PROVE  bdDev[v].mem = "live" <=>
                   bdDev[v].drv # NoBd /\ Contains(bdDrv[bdDev[v].drv].devices, v)
    <2>1. PICK d : d = bdDev[v].drv
      OBVIOUS
    <2>2. CASE d = NoBd
      <3>1. ~bdDev[v].bound
        BY <2>1, <2>2, BdKnown DEF BdHands
      <3>2. bdDev[v].mem # "live"
        BY <1>4, <3>1 DEF BdOwned, BdDevRest
      <3> QED
        BY <2>1, <2>2, <3>2
    <2>3. CASE d # NoBd
      <3>1. d \in BdDriver /\ bdDrv[d].devices \in Seq(BdDevice)
        BY <2>1, <2>3, BdKnown DEF BdDevRec, BdDrvRec
      <3>2. Contains(bdDrv[d].devices, v) <=> v \in ToSet(bdDrv[d].devices)
        BY <3>1, ListContains
      <3> QED
        BY <1>4, <2>1, <2>3, <3>1, <3>2 DEF BdOwned, BdDevRest
    <2> QED
      BY <2>2, <2>3
  <1>5. ASSUME BdOwned, NEW d \in BdDriver
        PROVE  /\ bdDrv[d].reg => bdDrv[d].mem = "live"
               /\ ~(\E a \in BdActor : bdAt[a].drv = d) =>
                     (bdDrv[d].mem = "live" <=> bdDrv[d].reg /\ bdDrv[d].link = "on")
    BY <1>5 DEF BdOwned, BdDrvRest
  <1>6. ASSUME BdOwned, ~bdUp
        PROVE  /\ \A d \in BdDriver : bdDrv[d].mem # "live"
               /\ \A v \in BdDevice : bdDev[v].mem # "live"
    <2>1. bdAt[BdRmmod].pc = "gone" /\ bdAt[BdRmmod].drv = NoBd
      BY <1>6, BdKnown DEF BdHands, BdHandOK
    <2>2. \A d \in BdDriver : bdDrv[d].mem # "live" /\ bdDrv[d].devices = << >>
      BY <1>6, <2>1, BdKnown DEF BdOwned, BdExits, BdDrvRest
    <2>3. \A a \in BdActor : bdAt[a].pc \in {"idle", "gone"}
      BY <1>6, <2>1 DEF BdOwned, BdExits, BdActor
    <2>4. ASSUME NEW v \in BdDevice, bdDev[v].mem = "live" PROVE FALSE
      <3>1. BdDevRest(v) /\ bdDev[v].bound /\ bdDev[v].drv \in BdDriver
        BY <1>6, <2>4, BdKnown DEF BdOwned, BdDevRest, BdHands
      <3>2. v \notin ToSet(bdDrv[bdDev[v].drv].devices)
        BY <2>2, <3>1 DEF ToSet
      <3> QED
        BY <2>3, <2>4, <3>1, <3>2 DEF BdDevRest
    <2> QED
      BY <2>2, <2>4
  <1>7. bdRaced \/ BdOwned
    BY DEF BdInv
  <1> QED
    BY <1>1, <1>2, <1>3, <1>4, <1>5, <1>6, <1>7 DEF BddtreeSound

\* BdInv is inductive.
LEMMA BdInvStep == BdInv /\ [BdNext]_bdVars => BdInv'
  <1> SUFFICES ASSUME BdInv, [BdNext]_bdVars PROVE BdInv'
    OBVIOUS
  <1>1. CASE UNCHANGED bdVars
    BY <1>1 DEF bdVars, BdInv, BdTypeOK, BdHands, BdHandOK, BdNames, BdOwned, BdSole, BdDrvInHand,
       BdDevInHand, BdWalk, BdDrvRest, BdDevRest, BdExits
  <1>2. CASE BdNext
    <2>1. ASSUME NEW w \in BdWriter, NEW d \in BdDriver,
                 BdAddDriver(w, d) \/ \E id \in BdId : BdAddDevice(w, d, id)
          PROVE  BdInv'
      BY <2>1, BdAddDriverInv, BdAddDeviceInv
    <2>2. ASSUME NEW w \in BdWriter, NEW v \in BdDevice, BdDelDevice(w, v) \/ BdCreate(w, v)
          PROVE  BdInv'
      BY <2>2, BdDelDeviceInv, BdCreateInv
    <2>3. ASSUME NEW w \in BdWriter, BdLink(w) \/ BdDevLink(w) \/ BdDelDriver(w)
          PROVE  BdInv'
      BY <2>3, BdLinkInv, BdDevLinkInv, BdDelDriverInv
    <2>4. ASSUME NEW a \in BdActor,
                 \/ BdUnlink(a) \/ BdLoop(a) \/ BdDestroy(a) \/ BdRelease(a)
                 \/ BdClose(a) \/ BdUnregister(a) \/ BdFree(a)
          PROVE  BdInv'
      BY <2>4, BdUnlinkInv, BdLoopInv, BdDestroyInv, BdReleaseInv, BdCloseInv, BdUnregisterInv,
         BdFreeInv
    <2>5. ASSUME BdExit \/ BdBusGone PROVE BdInv'
      BY <2>5, BdExitInv, BdBusGoneInv
    <2> QED
      BY <1>2, <2>1, <2>2, <2>3, <2>4, <2>5 DEF BdNext
  <1> QED
    BY <1>1, <1>2, SMTT(30)

-----------------------------------------------------------------------------
(* confmirror.                                                             *)

\* mkdir and rmdir work on an item, or are idle.
CmDirAgrees ==
    \/ cmDir = CmIdle
    \/ /\ cmDir.item \in Item /\ cmDir.pc # "idle"
       /\ cmDir.rmdir => cmDir.pc \in {"drop", "kobj", "end"}
       /\ cmDir.pc = "end" => cmDir.rmdir

\* What is true of the item that mkdir or rmdir has in hand, at each place.
CmInHand(c) ==
    cmDir.item = c =>
        /\ ~cm[c].dir
        /\ cmDir.pc = "add" => cm[c].kobj = "none" /\ cm[c].files = 0
        /\ cmDir.pc \in {"get", "attach", "drop", "kobj"} => cm[c].kobj = "live"
        /\ cmDir.pc = "end" => cm[c].kobj = "released"

\* Memory that was never allocated has no users.
CmUntouched(c) ==
    cm[c].mem = "unused" => /\ ~cm[c].dir /\ cm[c].kobj = "none" /\ cm[c].files = 0
                            /\ cmDir.item # c

\* Mirrored, for one item.
CmCounted(c) ==
    /\ cm[c].refs = CmHolders(c)
    /\ cm[c].mem = "live" <=> cm[c].refs > 0
    /\ cm[c].reads > 0 => cm[c].kobj = "live"
    /\ cmDir.item # c => (cm[c].dir <=> cm[c].kobj = "live")

CmItemOK(c) == CmInHand(c) /\ CmUntouched(c) /\ CmCounted(c)

\* What was used after it was freed is no item.
CmOopsOK ==
    /\ cmOops # "item"
    /\ cmOops = "name" => \E c \in Item : cm[c].files > 0 /\ cm[c].kobj # "live"

\* The inductive invariant.
CmInv == CmTypeOK /\ CmDirAgrees /\ CmOopsOK /\ \A c \in Item : CmItemOK(c)

\* An item that a step leaves alone, and that is not in hand after the step unless
\* mkdir or rmdir stays where it is, is as it was.
LEMMA CmFrame ==
    ASSUME NEW d \in Item, CmItemOK(d), cm'[d] = cm[d],
           cmDir' = cmDir \/ (cmDir.item # d /\ cmDir'.item # d)
    PROVE  CmItemOK(d)'
  BY DEF CmItemOK, CmInHand, CmUntouched, CmCounted, CmHolders, CmBusy, CmOne

\* A step that replaces one item, which is the one in hand if mkdir or rmdir moves,
\* preserves the invariant if it does so for that item.
LEMMA CmOneItem ==
    ASSUME CmInv, NEW c \in Item, NEW item \in CmItem, CmSet(c, item),
           cmDir' = cmDir \/ (cmDir.item \in {c, NoItem} /\ cmDir'.item \in {c, NoItem}),
           cmDir' \in [pc : {"idle", "add", "get", "attach", "drop", "kobj", "end"},
                       item : Item \union {NoItem}, rmdir : BOOLEAN],
           UNCHANGED cmUp, cmOops' = "none", CmDirAgrees', CmItemOK(c)'
    PROVE  CmInv'
  <1>1. CmTypeOK'
    BY DEF CmInv, CmTypeOK, CmSet
  <1>2. ASSUME NEW d \in Item PROVE CmItemOK(d)'
    <2>1. CASE d = c
      BY <2>1
    <2>2. CASE d # c
      <3>1. cm'[d] = cm[d]
        BY <2>2 DEF CmInv, CmTypeOK, CmSet
      <3>2. cmDir' = cmDir \/ (cmDir.item # d /\ cmDir'.item # d)
        BY <2>2, ConfmirrorAssumption
      <3> QED
        BY <3>1, <3>2, CmFrame DEF CmInv
    <2> QED
      BY <2>1, <2>2
  <1> QED
    BY <1>1, <1>2 DEF CmInv, CmOopsOK

\* Dropping a reference of an item that has one.
LEMMA CmPutFacts ==
    ASSUME NEW item \in CmItem, item.refs > 0, item.mem = "live"
    PROVE  /\ CmPut(item) \in CmItem
           /\ CmPut(item).refs = item.refs - 1
           /\ CmPut(item).mem = IF item.refs = 1 THEN "freed" ELSE "live"
           /\ CmPut(item).dir = item.dir /\ CmPut(item).kobj = item.kobj
           /\ CmPut(item).files = item.files /\ CmPut(item).reads = item.reads
  <1>1. item.refs - 1 \in Nat
    BY DEF CmItem
  <1> QED
    BY <1>1 DEF CmPut, CmItem

\* Initially nothing is allocated.
LEMMA CmInitInv == CmInit => CmInv
  BY ConfmirrorAssumption
  DEF CmInit, CmInv, CmTypeOK, CmItem, CmIdle, CmDirAgrees, CmOopsOK, CmItemOK, CmInHand, CmUntouched,
      CmCounted, CmHolders, CmBusy, CmOne
\* mkdir allocates an item that nobody has.
LEMMA CmMakeInv ==
    ASSUME CmInv, cmOops = "none", NEW c \in Item, CmMake(c)
    PROVE  CmInv'
  <1> DEFINE item == [cm[c] EXCEPT !.mem = "live", !.refs = 1]
  <1>1. cm[c] \in CmItem /\ CmItemOK(c)
    BY DEF CmInv, CmTypeOK
  <1>2. item \in CmItem
    <2>1. /\ cm[c].refs + 1 \in Nat /\ cm[c].files + 1 \in Nat
          /\ cm[c].reads + 1 \in Nat
      BY <1>1 DEF CmItem
    <2> QED
      BY <1>1, <2>1 DEF CmItem
  <1>3. CmSet(c, item) /\ cm'[c] = item
    BY DEF CmMake, CmSet, CmInv, CmTypeOK
  <1>4. CmItemOK(c)'
    BY <1>1, <1>3, ConfmirrorAssumption
    DEF CmMake, CmAt, CmGoto, CmIdle, CmItem, CmInv, CmTypeOK, CmDirAgrees, CmItemOK, CmInHand,
        CmUntouched, CmCounted, CmHolders, CmBusy, CmOne
  <1> QED
    BY <1>1, <1>2, <1>3, <1>4, ConfmirrorAssumption, CmOneItem
    DEF CmMake, CmAt, CmGoto, CmIdle, CmInv, CmTypeOK, CmDirAgrees

\* The reference of the kobject.
LEMMA CmGetInv ==
    ASSUME CmInv, cmOops = "none", NEW c \in Item, CmGet(c)
    PROVE  CmInv'
  <1> DEFINE item == [cm[c] EXCEPT !.refs = cm[c].refs + 1]
  <1>1. cm[c] \in CmItem /\ CmItemOK(c)
    BY DEF CmInv, CmTypeOK
  <1>2. item \in CmItem
    <2>1. /\ cm[c].refs + 1 \in Nat /\ cm[c].files + 1 \in Nat
          /\ cm[c].reads + 1 \in Nat
      BY <1>1 DEF CmItem
    <2> QED
      BY <1>1, <2>1 DEF CmItem
  <1>3. CmSet(c, item) /\ cm'[c] = item
    BY DEF CmGet, CmSet, CmInv, CmTypeOK
  <1>4. CmItemOK(c)'
    BY <1>1, <1>3, ConfmirrorAssumption
    DEF CmGet, CmAt, CmGoto, CmIdle, CmItem, CmInv, CmTypeOK, CmDirAgrees, CmItemOK, CmInHand,
        CmUntouched, CmCounted, CmHolders, CmBusy, CmOne
  <1> QED
    BY <1>1, <1>2, <1>3, <1>4, ConfmirrorAssumption, CmOneItem
    DEF CmGet, CmAt, CmGoto, CmIdle, CmInv, CmTypeOK, CmDirAgrees

\* rmdir takes a reference of its own to an item that is in sysfs.
LEMMA CmRmdirInv ==
    ASSUME CmInv, cmOops = "none", NEW c \in Item, CmRmdir(c)
    PROVE  CmInv'
  <1> DEFINE item == [cm[c] EXCEPT !.dir = FALSE, !.refs = cm[c].refs + 1]
  <1>1. cm[c] \in CmItem /\ CmItemOK(c)
    BY DEF CmInv, CmTypeOK
  <1>2. item \in CmItem
    <2>1. /\ cm[c].refs + 1 \in Nat /\ cm[c].files + 1 \in Nat
          /\ cm[c].reads + 1 \in Nat
      BY <1>1 DEF CmItem
    <2> QED
      BY <1>1, <2>1 DEF CmItem
  <1>3. CmSet(c, item) /\ cm'[c] = item
    BY DEF CmRmdir, CmSet, CmInv, CmTypeOK
  <1>4. CmItemOK(c)'
    BY <1>1, <1>3, ConfmirrorAssumption
    DEF CmRmdir, CmAt, CmGoto, CmIdle, CmItem, CmInv, CmTypeOK, CmDirAgrees, CmItemOK, CmInHand,
        CmUntouched, CmCounted, CmHolders, CmBusy, CmOne
  <1> QED
    BY <1>1, <1>2, <1>3, <1>4, ConfmirrorAssumption, CmOneItem
    DEF CmRmdir, CmAt, CmGoto, CmIdle, CmInv, CmTypeOK, CmDirAgrees

\* A file has a reference.
LEMMA CmOpenInv ==
    ASSUME CmInv, cmOops = "none", NEW c \in Item, CmOpen(c)
    PROVE  CmInv'
  <1> DEFINE item == [cm[c] EXCEPT !.files = cm[c].files + 1, !.refs = cm[c].refs + 1]
  <1>1. cm[c] \in CmItem /\ CmItemOK(c)
    BY DEF CmInv, CmTypeOK
  <1>2. item \in CmItem
    <2>1. /\ cm[c].refs + 1 \in Nat /\ cm[c].files + 1 \in Nat
          /\ cm[c].reads + 1 \in Nat
      BY <1>1 DEF CmItem
    <2> QED
      BY <1>1, <2>1 DEF CmItem
  <1>3. CmSet(c, item) /\ cm'[c] = item
    BY DEF CmOpen, CmSet, CmInv, CmTypeOK
  <1>4. CmItemOK(c)'
    BY <1>1, <1>3, ConfmirrorAssumption
    DEF CmOpen, CmAt, CmGoto, CmIdle, CmItem, CmInv, CmTypeOK, CmDirAgrees, CmItemOK, CmInHand,
        CmUntouched, CmCounted, CmHolders, CmBusy, CmOne
  <1> QED
    BY <1>1, <1>2, <1>3, <1>4, ConfmirrorAssumption, CmOneItem
    DEF CmOpen, CmAt, CmGoto, CmIdle, CmInv, CmTypeOK, CmDirAgrees

\* A read in sysfs has none, but the kobject is there.
LEMMA CmReadInv ==
    ASSUME CmInv, cmOops = "none", NEW c \in Item, CmRead(c)
    PROVE  CmInv'
  <1> DEFINE item == [cm[c] EXCEPT !.reads = cm[c].reads + 1]
  <1>1. cm[c] \in CmItem /\ CmItemOK(c)
    BY DEF CmInv, CmTypeOK
  <1>2. item \in CmItem
    <2>1. /\ cm[c].refs + 1 \in Nat /\ cm[c].files + 1 \in Nat
          /\ cm[c].reads + 1 \in Nat
      BY <1>1 DEF CmItem
    <2> QED
      BY <1>1, <2>1 DEF CmItem
  <1>3. CmSet(c, item) /\ cm'[c] = item
    BY DEF CmRead, CmSet, CmInv, CmTypeOK
  <1>4. CmItemOK(c)'
    BY <1>1, <1>3, ConfmirrorAssumption
    DEF CmRead, CmAt, CmGoto, CmIdle, CmItem, CmInv, CmTypeOK, CmDirAgrees, CmItemOK, CmInHand,
        CmUntouched, CmCounted, CmHolders, CmBusy, CmOne
  <1> QED
    BY <1>1, <1>2, <1>3, <1>4, ConfmirrorAssumption, CmOneItem
    DEF CmRead, CmAt, CmGoto, CmIdle, CmInv, CmTypeOK, CmDirAgrees

\* drop_item puts what configfs had; the kobject still has its own.
LEMMA CmDropInv ==
    ASSUME CmInv, cmOops = "none", NEW c \in Item, CmDrop(c)
    PROVE  CmInv'
  <1> DEFINE before == cm[c]
             item == CmPut(before)
  <1>1. cm[c] \in CmItem /\ CmItemOK(c)
    BY DEF CmInv, CmTypeOK
  <1>2. cm[c].refs > 0 /\ cm[c].mem = "live"
    BY <1>1
    DEF CmDrop, CmAt, CmGoto, CmIdle, CmItem, CmInv, CmTypeOK, CmDirAgrees, CmItemOK, CmInHand,
        CmUntouched, CmCounted, CmHolders, CmBusy, CmOne
  <1>3. before \in CmItem /\ before.refs > 0 /\ before.mem = "live"
    BY <1>1, <1>2 DEF CmDrop, CmItem
  <1>4. CmSet(c, item) /\ cm'[c] = item
    BY <1>2 DEF CmDrop, CmSet, CmInv, CmTypeOK
  <1>5. CmItemOK(c)'
    BY <1>1, <1>3, <1>4, CmPutFacts, ConfmirrorAssumption
    DEF CmDrop, CmAt, CmGoto, CmIdle, CmItem, CmInv, CmTypeOK, CmDirAgrees, CmItemOK, CmInHand,
        CmUntouched, CmCounted, CmHolders, CmBusy, CmOne
  <1>6. item \in CmItem
    BY <1>3, CmPutFacts
  <1>7. /\ UNCHANGED cmUp /\ cmOops' = "none" /\ CmDirAgrees'
        /\ cmDir' = cmDir \/ (cmDir.item \in {c, NoItem} /\ cmDir'.item \in {c, NoItem})
        /\ cmDir' \in [pc : {"idle", "add", "get", "attach", "drop", "kobj", "end"},
                      item : Item \union {NoItem}, rmdir : BOOLEAN]
    BY <1>2, ConfmirrorAssumption
    DEF CmDrop, CmAt, CmGoto, CmIdle, CmInv, CmTypeOK, CmDirAgrees
  <1> QED
    BY <1>4, <1>5, <1>6, <1>7, CmOneItem

\* The release of the kobject puts its reference.
LEMMA CmKobjPutInv ==
    ASSUME CmInv, cmOops = "none", NEW c \in Item, CmKobjPut(c)
    PROVE  CmInv'
  <1> DEFINE before == [cm[c] EXCEPT !.kobj = "released"]
             item == CmPut(before)
  <1>1. cm[c] \in CmItem /\ CmItemOK(c)
    BY DEF CmInv, CmTypeOK
  <1>2. cm[c].refs > 0 /\ cm[c].mem = "live"
    BY <1>1
    DEF CmKobjPut, CmAt, CmGoto, CmIdle, CmItem, CmInv, CmTypeOK, CmDirAgrees, CmItemOK, CmInHand,
        CmUntouched, CmCounted, CmHolders, CmBusy, CmOne
  <1>3. before \in CmItem /\ before.refs > 0 /\ before.mem = "live"
    BY <1>1, <1>2 DEF CmKobjPut, CmItem
  <1>4. CmSet(c, item) /\ cm'[c] = item
    BY <1>2 DEF CmKobjPut, CmSet, CmInv, CmTypeOK
  <1>5. CmItemOK(c)'
    <2>1. /\ cmDir.pc = "kobj" /\ cmDir.item = c
          /\ cmDir' = IF cmDir.rmdir THEN [cmDir EXCEPT !.pc = "end"] ELSE CmIdle
          /\ cm[c].reads = 0
      BY <1>2 DEF CmKobjPut, CmAt, CmGoto
    <2>2. /\ item.refs = cm[c].refs - 1 /\ item.kobj = "released"
          /\ item.mem = IF cm[c].refs = 1 THEN "freed" ELSE "live"
          /\ item.dir = cm[c].dir /\ item.files = cm[c].files /\ item.reads = cm[c].reads
      BY <1>1, <1>2, <1>3, CmPutFacts DEF CmItem
    <2>3. CASE cmDir.rmdir
      BY <1>1, <1>2, <1>4, <2>1, <2>2, <2>3, ConfmirrorAssumption
      DEF CmItem, CmInv, CmTypeOK, CmItemOK, CmInHand, CmUntouched, CmCounted, CmHolders, CmBusy, CmOne
    <2>4. CASE ~cmDir.rmdir
      BY <1>1, <1>2, <1>4, <2>1, <2>2, <2>4, ConfmirrorAssumption
      DEF CmIdle, CmItem, CmInv, CmTypeOK, CmItemOK, CmInHand, CmUntouched, CmCounted, CmHolders, CmBusy,
          CmOne
    <2> QED
      BY <2>3, <2>4
  <1>6. item \in CmItem
    BY <1>3, CmPutFacts
  <1>7. /\ UNCHANGED cmUp /\ cmOops' = "none" /\ CmDirAgrees'
        /\ cmDir' = cmDir \/ (cmDir.item \in {c, NoItem} /\ cmDir'.item \in {c, NoItem})
        /\ cmDir' \in [pc : {"idle", "add", "get", "attach", "drop", "kobj", "end"},
                      item : Item \union {NoItem}, rmdir : BOOLEAN]
    <2>1. /\ cmDir.pc = "kobj" /\ cmDir.item = c /\ UNCHANGED <<cmUp, cmOops>>
          /\ cmDir' = IF cmDir.rmdir THEN [cmDir EXCEPT !.pc = "end"] ELSE CmIdle
      BY <1>2 DEF CmKobjPut, CmAt, CmGoto
    <2>2. CASE cmDir.rmdir
      BY <2>1, <2>2 DEF CmInv, CmTypeOK, CmDirAgrees
    <2>3. CASE ~cmDir.rmdir
      BY <2>1, <2>3 DEF CmIdle, CmInv, CmTypeOK, CmDirAgrees
    <2> QED
      BY <2>2, <2>3
  <1> QED
    BY <1>4, <1>5, <1>6, <1>7, CmOneItem

\* rmdir puts its own reference.
LEMMA CmRmdirEndInv ==
    ASSUME CmInv, cmOops = "none", NEW c \in Item, CmRmdirEnd(c)
    PROVE  CmInv'
  <1> DEFINE before == cm[c]
             item == CmPut(before)
  <1>1. cm[c] \in CmItem /\ CmItemOK(c)
    BY DEF CmInv, CmTypeOK
  <1>2. cm[c].refs > 0 /\ cm[c].mem = "live"
    BY <1>1
    DEF CmRmdirEnd, CmAt, CmGoto, CmIdle, CmItem, CmInv, CmTypeOK, CmDirAgrees, CmItemOK, CmInHand,
        CmUntouched, CmCounted, CmHolders, CmBusy, CmOne
  <1>3. before \in CmItem /\ before.refs > 0 /\ before.mem = "live"
    BY <1>1, <1>2 DEF CmRmdirEnd, CmItem
  <1>4. CmSet(c, item) /\ cm'[c] = item
    BY <1>2 DEF CmRmdirEnd, CmSet, CmInv, CmTypeOK
  <1>5. CmItemOK(c)'
    BY <1>1, <1>3, <1>4, CmPutFacts, ConfmirrorAssumption
    DEF CmRmdirEnd, CmAt, CmGoto, CmIdle, CmItem, CmInv, CmTypeOK, CmDirAgrees, CmItemOK, CmInHand,
        CmUntouched, CmCounted, CmHolders, CmBusy, CmOne
  <1>6. item \in CmItem
    BY <1>3, CmPutFacts
  <1>7. /\ UNCHANGED cmUp /\ cmOops' = "none" /\ CmDirAgrees'
        /\ cmDir' = cmDir \/ (cmDir.item \in {c, NoItem} /\ cmDir'.item \in {c, NoItem})
        /\ cmDir' \in [pc : {"idle", "add", "get", "attach", "drop", "kobj", "end"},
                      item : Item \union {NoItem}, rmdir : BOOLEAN]
    BY <1>2, ConfmirrorAssumption
    DEF CmRmdirEnd, CmAt, CmGoto, CmIdle, CmInv, CmTypeOK, CmDirAgrees
  <1> QED
    BY <1>4, <1>5, <1>6, <1>7, CmOneItem

\* A file is closed.
LEMMA CmCloseInv ==
    ASSUME CmInv, cmOops = "none", NEW c \in Item, CmClose(c)
    PROVE  CmInv'
  <1> DEFINE before == [cm[c] EXCEPT !.files = cm[c].files - 1]
             item == CmPut(before)
  <1>1. cm[c] \in CmItem /\ CmItemOK(c)
    BY DEF CmInv, CmTypeOK
  <1>2. cm[c].refs > 0 /\ cm[c].mem = "live"
    BY <1>1
    DEF CmClose, CmAt, CmGoto, CmIdle, CmItem, CmInv, CmTypeOK, CmDirAgrees, CmItemOK, CmInHand,
        CmUntouched, CmCounted, CmHolders, CmBusy, CmOne
  <1>3. before \in CmItem /\ before.refs > 0 /\ before.mem = "live"
    BY <1>1, <1>2 DEF CmClose, CmItem
  <1>4. CmSet(c, item) /\ cm'[c] = item
    BY <1>2 DEF CmClose, CmSet, CmInv, CmTypeOK
  <1>5. CmItemOK(c)'
    BY <1>1, <1>3, <1>4, CmPutFacts, ConfmirrorAssumption
    DEF CmClose, CmAt, CmGoto, CmIdle, CmItem, CmInv, CmTypeOK, CmDirAgrees, CmItemOK, CmInHand,
        CmUntouched, CmCounted, CmHolders, CmBusy, CmOne
  <1>6. item \in CmItem
    BY <1>3, CmPutFacts
  <1>7. /\ UNCHANGED cmUp /\ cmOops' = "none" /\ CmDirAgrees'
        /\ cmDir' = cmDir \/ (cmDir.item \in {c, NoItem} /\ cmDir'.item \in {c, NoItem})
        /\ cmDir' \in [pc : {"idle", "add", "get", "attach", "drop", "kobj", "end"},
                      item : Item \union {NoItem}, rmdir : BOOLEAN]
    BY <1>2, ConfmirrorAssumption
    DEF CmClose, CmAt, CmGoto, CmIdle, CmInv, CmTypeOK, CmDirAgrees
  <1> QED
    BY <1>4, <1>5, <1>6, <1>7, CmOneItem

\* kobject_add: the name is free and the kobject is there, or the item is freed.
LEMMA CmAddInv ==
    ASSUME CmInv, cmOops = "none", NEW c \in Item, CmAdd(c)
    PROVE  CmInv'
  <1> DEFINE added == [cm[c] EXCEPT !.kobj = "live"]
             freed == [cm[c] EXCEPT !.mem = "freed", !.refs = 0]
  <1>1. cm[c] \in CmItem /\ CmItemOK(c)
    BY DEF CmInv, CmTypeOK
  <1>2. added \in CmItem /\ freed \in CmItem
    BY <1>1 DEF CmItem
  <1>3. CASE CmSet(c, added) /\ CmGoto("get")
    <2>1. cm'[c] = added
      BY <1>3 DEF CmSet, CmInv, CmTypeOK
    <2>2. CmItemOK(c)'
      BY <1>1, <1>3, <2>1, ConfmirrorAssumption
      DEF CmAdd, CmAt, CmGoto, CmIdle, CmItem, CmInv, CmTypeOK, CmDirAgrees, CmItemOK, CmInHand,
        CmUntouched, CmCounted, CmHolders, CmBusy, CmOne
    <2> QED
      BY <1>2, <1>3, <2>2, ConfmirrorAssumption, CmOneItem
      DEF CmAdd, CmAt, CmGoto, CmInv, CmTypeOK, CmIdle, CmDirAgrees
  <1>4. CASE CmSet(c, freed) /\ cmDir' = CmIdle
    <2>1. cm'[c] = freed
      BY <1>4 DEF CmSet, CmInv, CmTypeOK
    <2>2. CmItemOK(c)'
      BY <1>1, <1>4, <2>1, ConfmirrorAssumption
      DEF CmAdd, CmAt, CmGoto, CmIdle, CmItem, CmInv, CmTypeOK, CmDirAgrees, CmItemOK, CmInHand,
        CmUntouched, CmCounted, CmHolders, CmBusy, CmOne
    <2> QED
      BY <1>2, <1>4, <2>2, ConfmirrorAssumption, CmOneItem
      DEF CmAdd, CmAt, CmInv, CmTypeOK, CmIdle, CmDirAgrees
  <1> QED
    BY <1>3, <1>4 DEF CmAdd

\* configfs makes the directory of an item that has its kobject, or drops the item.
LEMMA CmAttachInv ==
    ASSUME CmInv, cmOops = "none", NEW c \in Item, CmAttach(c)
    PROVE  CmInv'
  <1> DEFINE made == [cm[c] EXCEPT !.dir = TRUE]
  <1>1. cm[c] \in CmItem /\ CmItemOK(c) /\ made \in CmItem
    BY DEF CmInv, CmTypeOK, CmItem
  <1>2. CASE CmSet(c, made) /\ cmDir' = CmIdle
    <2>1. cm'[c] = made
      BY <1>2 DEF CmSet, CmInv, CmTypeOK
    <2>2. CmItemOK(c)'
      BY <1>1, <1>2, <2>1, ConfmirrorAssumption
      DEF CmAttach, CmAt, CmGoto, CmIdle, CmItem, CmInv, CmTypeOK, CmDirAgrees, CmItemOK, CmInHand,
        CmUntouched, CmCounted, CmHolders, CmBusy, CmOne
    <2> QED
      BY <1>1, <1>2, <2>2, ConfmirrorAssumption, CmOneItem
      DEF CmAttach, CmAt, CmInv, CmTypeOK, CmIdle, CmDirAgrees
  <1>3. CASE CmGoto("drop") /\ UNCHANGED cm
    <2>1. CmSet(c, cm[c])
      BY <1>3 DEF CmSet, CmInv, CmTypeOK
    <2>2. /\ cm'[c] = cm[c] /\ cmDir.pc = "attach" /\ cmDir'.pc = "drop"
          /\ cmDir.item = c /\ cmDir'.item = c /\ cmDir'.rmdir = cmDir.rmdir /\ ~cmDir.rmdir
      BY <1>3 DEF CmAttach, CmAt, CmGoto, CmIdle, CmInv, CmTypeOK, CmDirAgrees
    <2>3. CmItemOK(c)'
      BY <1>1, <2>2 DEF CmItemOK, CmInHand, CmUntouched, CmCounted, CmHolders, CmBusy, CmOne
    <2> QED
      BY <1>1, <1>3, <2>1, <2>3, ConfmirrorAssumption, CmOneItem
      DEF CmAttach, CmAt, CmGoto, CmInv, CmTypeOK, CmIdle, CmDirAgrees
  <1> QED
    BY <1>2, <1>3 DEF CmAttach

\* The end of a read finds the item, because its kobject is there.
LEMMA CmReadEndInv ==
    ASSUME CmInv, cmOops = "none", NEW c \in Item, CmReadEnd(c)
    PROVE  CmInv'
  <1> DEFINE item == [cm[c] EXCEPT !.reads = cm[c].reads - 1]
  <1>1. cm[c] \in CmItem /\ CmItemOK(c)
    BY DEF CmInv, CmTypeOK
  <1>2. cm[c].mem = "live" /\ cm[c].reads - 1 \in Nat
    BY <1>1 DEF CmReadEnd, CmItem, CmItemOK, CmCounted, CmHolders, CmBusy, CmOne
  <1>3. item \in CmItem /\ CmSet(c, item) /\ cm'[c] = item
    BY <1>1, <1>2 DEF CmReadEnd, CmItem, CmSet, CmInv, CmTypeOK
  <1>4. CmItemOK(c)'
    BY <1>1, <1>2, <1>3 DEF CmReadEnd, CmAt, CmGoto, CmIdle, CmItem, CmInv, CmTypeOK, CmDirAgrees, CmItemOK, CmInHand,
        CmUntouched, CmCounted, CmHolders, CmBusy, CmOne
  <1> QED
    BY <1>2, <1>3, <1>4, CmOneItem DEF CmReadEnd, CmInv, CmTypeOK, CmDirAgrees

\* show and store find the item, because their file has a reference; the kobject can
\* have been released.
LEMMA CmUseInv ==
    ASSUME CmInv, cmOops = "none", NEW c \in Item, CmUse(c)
    PROVE  CmInv'
  <1>1. cm[c] \in CmItem /\ CmItemOK(c)
    BY DEF CmInv, CmTypeOK
  <1>2. cm[c].mem = "live"
    BY <1>1 DEF CmUse, CmItem, CmItemOK, CmCounted, CmHolders, CmBusy, CmOne
  <1>3. CmOopsOK'
    BY <1>2 DEF CmUse, CmOopsOK
  <1>4. (\A d \in Item : CmItemOK(d))'
    BY DEF CmUse, CmInv, CmItemOK, CmInHand, CmUntouched, CmCounted, CmHolders, CmBusy
  <1> QED
    BY <1>3, <1>4 DEF CmUse, CmInv, CmTypeOK, CmDirAgrees

\* The module goes.
LEMMA CmExitInv ==
    ASSUME CmInv, cmOops = "none", CmExit
    PROVE  CmInv'
  BY ZenonT(40)
  DEF CmExit, CmInv, CmTypeOK, CmDirAgrees, CmOopsOK, CmItemOK, CmInHand, CmUntouched, CmCounted,
         CmHolders, CmBusy

\* Every step keeps the invariant.
LEMMA CmInvStep == CmInv /\ [CmNext]_cmVars => CmInv'
  <1>1. ASSUME CmInv, CmNext PROVE CmInv'
    <2>1. cmOops = "none"
      BY <1>1 DEF CmNext
    <2>2. CASE CmExit
      BY <1>1, <2>1, <2>2, CmExitInv
    <2>3. ASSUME NEW c \in Item, CmStep(c) PROVE CmInv'
      BY <1>1, <2>1, <2>3, CmMakeInv, CmAddInv, CmGetInv, CmAttachInv, CmRmdirInv, CmDropInv,
         CmKobjPutInv, CmRmdirEndInv, CmOpenInv, CmCloseInv, CmUseInv, CmReadInv, CmReadEndInv
      DEF CmStep
    <2> QED
      BY <1>1, <2>2, <2>3 DEF CmNext
  <1>2. ASSUME CmInv, UNCHANGED cmVars PROVE CmInv'
    BY <1>2 DEF cmVars, CmInv, CmTypeOK, CmDirAgrees, CmOopsOK, CmItemOK, CmInHand, CmUntouched, CmCounted,
                CmHolders, CmBusy
  <1> QED
    BY <1>1, <1>2

-----------------------------------------------------------------------------
(* deepfs.                                                                 *)

\* A directory on the stack has yet to make its subdirectories from i on, ...
DfPending(dir, id) == \E k \in DOMAIN dfStack : dfStack[k].dir = dir /\ dfStack[k].i <= id

\* ... and those, or parts of them, are all that is missing until something has failed.
DfMade ==
    /\ \A dir \in df.dirs : \A id \in 0 .. DfNSubdirs(dir) - 1 :
          Append(dir, id) \in df.dirs \/ DfPending(dir, id)
    /\ df.depths = df.dirs /\ df.links = df.dirs \ {<< >>}

DfMounts == [pc : {"unmounted", "mounting", "mounted", "gone"}, max : Nat,
             dirs : SUBSET Seq(Nat), depths : SUBSET Seq(Nat), links : SUBSET Seq(Nat),
             fails : Nat]
DfCalls == [dir : Seq(Nat), i : Nat]

DfInv ==
    /\ df \in DfMounts /\ dfStack \in Seq(DfCalls)
    /\ DOMAIN dfList = {"dir", "pos", "seen", "end"}
    /\ df.pc # "mounting" => dfStack = << >>
    /\ df.pc = "unmounted" => df.dirs = {} /\ df.depths = {} /\ df.links = {} /\ df.fails = 0
    /\ df.fails = 0 => DfMade
    /\ dfList # DfClosed => df.pc = "mounted" /\ dfList.dir \in df.dirs
    /\ dfOops = "depth" => df.fails > 0

\* A child of a directory, and the child with another id.
LEMMA DfChildFacts ==
    ASSUME NEW dir \in Seq(Nat), NEW id \in Nat
    PROVE  /\ Append(dir, id) \in Seq(Nat) /\ Len(Append(dir, id)) = Len(dir) + 1
           /\ Append(dir, id)[Len(dir) + 1] = id
           /\ \A other \in Nat :
                 [Append(dir, id) EXCEPT ![Len(dir) + 1] = other] = Append(dir, other)
  <1>1. PICK l : l = Len(dir)
    OBVIOUS
  <1>2. l \in Nat
    BY <1>1, LenProperties
  <1>3. ASSUME NEW e \in Nat
        PROVE  /\ Append(dir, e) \in Seq(Nat) /\ Len(Append(dir, e)) = l + 1
               /\ Append(dir, e)[l + 1] = e /\ \A i \in 1 .. l : Append(dir, e)[i] = dir[i]
               /\ Append(dir, e) \in [1 .. l + 1 -> Nat]
    <2>1. PICK s : s = Append(dir, e)
      OBVIOUS
    <2>2. /\ s \in Seq(Nat) /\ Len(s) = l + 1 /\ s[l + 1] = e
          /\ \A i \in 1 .. l : s[i] = dir[i]
      BY <1>1, <2>1, AppendProperties
    <2>3. s \in [1 .. l + 1 -> Nat]
      BY <2>2, LenProperties
    <2> QED
      BY <2>1, <2>2, <2>3
  <1>4. ASSUME NEW other \in Nat
        PROVE  [Append(dir, id) EXCEPT ![Len(dir) + 1] = other] = Append(dir, other)
    <2>1. PICK s, t, u : s = Append(dir, id) /\ t = Append(dir, other)
                         /\ u = [s EXCEPT ![l + 1] = other]
      OBVIOUS
    <2>2. /\ s \in [1 .. l + 1 -> Nat] /\ \A i \in 1 .. l : s[i] = dir[i]
          /\ t \in [1 .. l + 1 -> Nat] /\ \A i \in 1 .. l : t[i] = dir[i]
          /\ t[l + 1] = other
      BY <1>3, <2>1
    <2>3. u \in [1 .. l + 1 -> Nat]
      BY <1>2, <2>1, <2>2
    <2>4. ASSUME NEW i \in 1 .. l + 1 PROVE u[i] = t[i]
      <3>1. i = l + 1 \/ (i # l + 1 /\ i \in 1 .. l)
        BY <1>2
      <3> QED
        BY <2>1, <2>2, <3>1
    <2>5. u = t
      <3>1. ASSUME NEW D, NEW f \in [D -> Nat], NEW g \in [D -> Nat], \A i \in D : f[i] = g[i]
            PROVE  f = g
        BY <3>1
      <3>2. PICK D : D = 1 .. l + 1
        OBVIOUS
      <3>3. u \in [D -> Nat] /\ t \in [D -> Nat] /\ \A i \in D : u[i] = t[i]
        BY <2>2, <2>3, <2>4, <3>2
      <3> QED
        BY <3>1, <3>3
    <2> QED
      BY <1>1, <2>1, <2>5
  <1> QED
    BY <1>1, <1>3, <1>4

\* What deepfs_dir_create makes of a directory before its loop.
LEMMA DfMakeFacts ==
    ASSUME DfInv, NEW dir \in Seq(Nat), NEW max \in Nat, DfMake(dir, max)
    PROVE  /\ df' \in DfMounts /\ df'.pc = "mounting" /\ df'.max = max
           /\ df'.dirs = df.dirs \union {dir}
           /\ df'.fails = 0 => /\ df.fails = 0 /\ df'.depths = df.depths \union {dir}
                               /\ dir = << >> => df'.links = df.links
                               /\ dir # << >> => df'.links = df.links \union {dir}
           /\ df.fails > 0 => df'.fails > 0
  <1>1. PICK depth, link \in BOOLEAN :
          LET fails == df.fails + (IF depth THEN 0 ELSE 1) + (IF link THEN 0 ELSE 1) IN
          /\ dir = << >> => link
          /\ df' = [df EXCEPT !.max = max, !.dirs = @ \union {dir}, !.fails = fails,
                              !.depths = DfWithDepth(dir, depth),
                              !.links = DfWithLink(dir, link), !.pc = "mounting"]
    BY DEF DfMake
  <1>2. PICK fails : fails = df.fails + (IF depth THEN 0 ELSE 1) + (IF link THEN 0 ELSE 1)
    OBVIOUS
  <1>3. df \in DfMounts
    BY DEF DfInv
  <1>4. /\ fails \in Nat /\ (fails = 0 => df.fails = 0 /\ depth /\ link)
        /\ df.fails > 0 => fails > 0
    BY <1>2, <1>3 DEF DfMounts
  <1>5. /\ DfWithDepth(dir, depth) \in SUBSET Seq(Nat) /\ DfWithLink(dir, link) \in SUBSET Seq(Nat)
        /\ depth => DfWithDepth(dir, depth) = df.depths \union {dir}
        /\ link => /\ dir = << >> => DfWithLink(dir, link) = df.links
                   /\ dir # << >> => DfWithLink(dir, link) = df.links \union {dir}
    BY <1>3 DEF DfMounts, DfWithDepth, DfWithLink
  <1>6. df' = [pc |-> "mounting", max |-> max, dirs |-> df.dirs \union {dir},
               depths |-> DfWithDepth(dir, depth), links |-> DfWithLink(dir, link),
               fails |-> fails]
    BY <1>1, <1>2, <1>3 DEF DfMounts
  <1> QED
    BY <1>3, <1>4, <1>5, <1>6 DEF DfMounts

\* A stack that is not empty: its innermost call, and the calls around it.
LEMMA DfStackFacts ==
    ASSUME NEW S, NEW s \in Seq(S), s # << >>
    PROVE  /\ Len(s) \in Nat /\ Len(s) > 0 /\ DOMAIN s = 1 .. Len(s)
           /\ Last(s) = s[Len(s)] /\ Last(s) \in S
           /\ Front(s) \in Seq(S) /\ DOMAIN Front(s) = 1 .. Len(s) - 1
           /\ \A k \in 1 .. Len(s) - 1 : Front(s)[k] = s[k]
           /\ Len(s) = 1 => Front(s) = << >>
  <1>1. Len(s) \in Nat /\ Len(s) > 0 /\ DOMAIN s = 1 .. Len(s)
    BY LenProperties, EmptySeq
  <1>2. Last(s) = s[Len(s)] /\ Last(s) \in S
    BY <1>1, ElementOfSeq DEF Last
  <1>3. /\ SubSeq(s, 1, Len(s) - 1) \in Seq(S)
        /\ DOMAIN SubSeq(s, 1, Len(s) - 1) = 1 .. Len(s) - 1
        /\ \A k \in 1 .. Len(s) - 1 : SubSeq(s, 1, Len(s) - 1)[k] = s[k]
    BY <1>1, SMTT(30)
  <1>4. Len(s) = 1 => SubSeq(s, 1, Len(s) - 1) = << >>
    BY <1>1
  <1> QED
    BY <1>1, <1>2, <1>3, <1>4 DEF Front

LEMMA DfMountInv ==
    ASSUME DfInv, DfOptions \subseteq Nat, NEW option \in DfOptions, DfMount(option),
           dfOops = "none"
    PROVE  DfInv'
  <1>1. df \in DfMounts /\ df.pc = "unmounted" /\ dfList' = dfList /\ dfList = DfClosed
    BY DEF DfInv, DfMount
  <1>2. CASE DfMountFails
    BY <1>1, <1>2 DEF DfInv, DfMountFails, DfMade, DfPending, DfNSubdirs
  <1>3. CASE /\ DfMake(<< >>, option) /\ dfStack' = <<[dir |-> << >>, i |-> 0]>>
             /\ UNCHANGED dfOops
    <2>1. << >> \in Seq(Nat) /\ option \in Nat
      BY EmptySeq
    <2>2. /\ df' \in DfMounts /\ df'.pc = "mounting" /\ df'.max = option
          /\ df'.dirs = df.dirs \union {<< >>}
          /\ df'.fails = 0 => /\ df.fails = 0 /\ df'.depths = df.depths \union {<< >>}
                              /\ df'.links = df.links
      BY <1>3, <2>1, DfMakeFacts
    <2>3. df.dirs = {} /\ df.depths = {} /\ df.links = {}
      BY <1>1 DEF DfInv
    <2>4. PICK c : c = [dir |-> << >>, i |-> 0]
      OBVIOUS
    <2>5. c \in DfCalls /\ c.dir = << >> /\ c.i = 0
      BY <2>1, <2>4 DEF DfCalls
    <2>6. dfStack' \in Seq(DfCalls) /\ DOMAIN dfStack' = {1} /\ dfStack'[1] = c
      BY <1>3, <2>4, <2>5
    <2>7. ASSUME df'.fails = 0 PROVE DfMade'
      <3>1. df'.dirs = {<< >>} /\ df'.depths = {<< >>} /\ df'.links = {}
        BY <2>2, <2>3, <2>7
      <3>2. ASSUME NEW id \in 0 .. DfNSubdirs(<< >>)' - 1 PROVE DfPending(<< >>, id)'
        <4>1. Len(<< >>) = 0 /\ df'.max \in Nat
          BY <2>1, <2>2
        <4>2. 0 <= id
          BY <4>1 DEF DfNSubdirs
        <4> QED
          BY <2>5, <2>6, <4>2 DEF DfPending
      <3> QED
        BY <3>1, <3>2 DEF DfMade
    <2> QED
      BY <1>1, <1>3, <2>2, <2>6, <2>7 DEF DfInv, DfClosed
  <1> QED
    BY <1>2, <1>3 DEF DfMount

LEMMA DfReturnInv ==
    ASSUME DfInv, DfReturn
    PROVE  DfInv'
  <1>1. /\ df \in DfMounts /\ dfStack \in Seq(DfCalls) /\ dfStack # << >>
        /\ df.pc = "mounting" /\ dfList = DfClosed
    BY DEF DfInv, DfReturn
  <1>2. PICK n : n = Len(dfStack)
    OBVIOUS
  <1>3. /\ n \in Nat /\ n > 0 /\ DOMAIN dfStack = 1 .. n /\ dfStack[n] = Last(dfStack)
        /\ dfStack' \in Seq(DfCalls) /\ DOMAIN dfStack' = 1 .. n - 1
        /\ \A k \in 1 .. n - 1 : dfStack'[k] = dfStack[k]
        /\ n = 1 => dfStack' = << >>
    BY <1>1, <1>2, DfStackFacts DEF DfReturn
  <1>4. /\ df' \in DfMounts /\ df'.max = df.max /\ df'.dirs = df.dirs
        /\ df'.depths = df.depths /\ df'.links = df.links /\ df'.fails = df.fails
        /\ df'.pc = IF n = 1 THEN "mounted" ELSE "mounting"
    BY <1>1, <1>2 DEF DfReturn, DfMounts
  <1>5. dfStack[n] \in DfCalls /\ dfStack[n].i >= DfNSubdirs(dfStack[n].dir)
    BY <1>1, <1>3 DEF DfReturn
  <1>6. ASSUME df'.fails = 0 PROVE DfMade'
    <2>1. DfMade
      BY <1>4, <1>6 DEF DfInv
    <2>2. ASSUME NEW dir \in df.dirs, NEW id \in 0 .. DfNSubdirs(dir) - 1, DfPending(dir, id)
          PROVE  DfPending(dir, id)'
      <3>1. PICK k \in 1 .. n : dfStack[k].dir = dir /\ dfStack[k].i <= id
        BY <1>3, <2>2 DEF DfPending
      <3>2. k # n
        <4>1. dir \in Seq(Nat) /\ df.max \in Nat
          BY <1>1 DEF DfMounts
        <4>2. DfNSubdirs(dir) \in Int
          BY <4>1, LenProperties DEF DfNSubdirs
        <4>3. dfStack[n].i \in Nat
          BY <1>5 DEF DfCalls
        <4> QED
          BY <1>5, <3>1, <4>2, <4>3
      <3>3. k \in 1 .. n - 1
        BY <1>3, <3>2
      <3> QED
        BY <1>3, <3>1, <3>3 DEF DfPending
    <2>3. \A dir : DfNSubdirs(dir)' = DfNSubdirs(dir)
      BY <1>4 DEF DfNSubdirs
    <2> QED
      BY <1>4, <2>1, <2>2, <2>3 DEF DfMade
  <1> QED
    BY <1>1, <1>3, <1>4, <1>6 DEF DfInv, DfReturn

LEMMA DfSubdirInv ==
    ASSUME DfInv, DfSubdir
    PROVE  DfInv'
  <1>1. /\ df \in DfMounts /\ dfStack \in Seq(DfCalls) /\ dfStack # << >>
        /\ df.pc = "mounting" /\ dfList = DfClosed /\ dfList' = dfList /\ dfOops' = dfOops
    BY DEF DfInv, DfSubdir
  <1>2. PICK n, dir, i, rest :
          /\ n = Len(dfStack) /\ dir = Last(dfStack).dir /\ i = Last(dfStack).i
          /\ rest = [dfStack EXCEPT ![Len(dfStack)].i = @ + 1]
    OBVIOUS
  <1>3. /\ n \in Nat /\ n > 0 /\ DOMAIN dfStack = 1 .. n
        /\ dfStack[n] \in DfCalls /\ dfStack[n].dir = dir /\ dfStack[n].i = i
    BY <1>1, <1>2, DfStackFacts
  <1>4. dir \in Seq(Nat) /\ i \in Nat /\ dfStack[n] = [dir |-> dir, i |-> i]
    BY <1>3 DEF DfCalls
  <1>5. /\ rest \in Seq(DfCalls) /\ Len(rest) = n /\ DOMAIN rest = 1 .. n
        /\ rest[n] = [dir |-> dir, i |-> i + 1]
        /\ \A k \in 1 .. n - 1 : rest[k] = dfStack[k]
    <2>1. PICK c : c = [dir |-> dir, i |-> i + 1]
      OBVIOUS
    <2>2. c \in DfCalls
      BY <1>4, <2>1 DEF DfCalls
    <2>3. [dfStack[n] EXCEPT !.i = @ + 1] = c
      BY <1>4, <2>1
    <2>4. rest = [dfStack EXCEPT ![n] = c]
      BY <1>2, <2>3
    <2>5. rest \in Seq(DfCalls) /\ Len(rest) = n
      BY <1>1, <1>2, <1>3, <2>2, <2>4, ExceptSeq
    <2>6. \A k \in 1 .. n : rest[k] = IF k = n THEN c ELSE dfStack[k]
      BY <1>3, <2>4
    <2>7. DOMAIN rest = 1 .. n
      BY <2>5, LenProperties
    <2>8. rest[n] = c /\ \A k \in 1 .. n - 1 : rest[k] = dfStack[k]
      BY <1>3, <2>6
    <2>9. rest[n] = [dir |-> dir, i |-> i + 1]
      BY <2>1, <2>8
    <2> QED
      BY <2>5, <2>7, <2>8, <2>9
  <1>6. CASE df' = [df EXCEPT !.fails = @ + 1] /\ dfStack' = rest
    <2>1. /\ df' \in DfMounts /\ df'.fails # 0 /\ df'.pc = "mounting" /\ df'.fails > 0
          /\ dfStack' \in Seq(DfCalls)
      <3>1. PICK f : f = df.fails + 1
        OBVIOUS
      <3>2. f \in Nat /\ f > 0
        BY <1>1, <3>1 DEF DfMounts
      <3>3. df' = [df EXCEPT !.fails = f]
        BY <1>6, <3>1
      <3>4. df' \in DfMounts /\ df'.fails = f /\ df'.pc = "mounting"
        BY <1>1, <3>2, <3>3 DEF DfMounts
      <3> QED
        BY <1>5, <1>6, <3>2, <3>4
    <2> QED
      BY <1>1, <2>1 DEF DfInv, DfClosed
  <1>7. CASE /\ DfMake(Append(dir, i), df.max)
             /\ dfStack' = Append(rest, [dir |-> Append(dir, i), i |-> 0])
    <2>1. PICK sub, c : sub = Append(dir, i) /\ c = [dir |-> sub, i |-> 0]
      OBVIOUS
    <2>2. sub \in Seq(Nat) /\ sub # << >> /\ df.max \in Nat
      BY <1>1, <1>4, <2>1, AppendProperties DEF DfMounts
    <2>3. /\ df' \in DfMounts /\ df'.pc = "mounting" /\ df'.max = df.max
          /\ df'.dirs = df.dirs \union {sub}
          /\ df'.fails = 0 => /\ df.fails = 0 /\ df'.depths = df.depths \union {sub}
                              /\ df'.links = df.links \union {sub}
          /\ df.fails > 0 => df'.fails > 0
      BY <1>7, <2>1, <2>2, DfMakeFacts
    <2>4. c \in DfCalls /\ c.dir = sub /\ c.i = 0
      BY <2>1, <2>2 DEF DfCalls
    <2>5. /\ dfStack' \in Seq(DfCalls) /\ DOMAIN dfStack' = 1 .. n + 1
          /\ dfStack'[n + 1] = c /\ \A k \in 1 .. n : dfStack'[k] = rest[k]
      <3>1. /\ Append(rest, c) \in Seq(DfCalls) /\ Len(Append(rest, c)) = n + 1
            /\ Append(rest, c)[n + 1] = c /\ \A k \in 1 .. n : Append(rest, c)[k] = rest[k]
        BY <1>5, <2>4, AppendProperties
      <3>2. dfStack' = Append(rest, c)
        BY <1>7, <2>1
      <3> QED
        BY <1>3, <3>1, <3>2, LenProperties
    <2>6. ASSUME df'.fails = 0 PROVE DfMade'
      <3>1. DfMade
        BY <2>3, <2>6 DEF DfInv
      <3>2. \A d : DfNSubdirs(d)' = DfNSubdirs(d)
        BY <2>3 DEF DfNSubdirs
      <3>3. ASSUME NEW id \in 0 .. DfNSubdirs(sub) - 1
            PROVE  DfPending(sub, id)'
        <4>1. DfNSubdirs(sub) \in Int
          BY <2>2, LenProperties DEF DfNSubdirs
        <4>2. 0 <= id
          BY <4>1
        <4> QED
          BY <1>3, <2>4, <2>5, <4>2 DEF DfPending
      <3>4. ASSUME NEW d \in df.dirs, NEW id \in 0 .. DfNSubdirs(d) - 1, DfPending(d, id)
            PROVE  Append(d, id) \in df'.dirs \/ DfPending(d, id)'
        <4>1. d \in Seq(Nat) /\ DfNSubdirs(d) \in Int
          BY <1>1, <2>2, LenProperties DEF DfMounts, DfNSubdirs
        <4>2. id \in Nat
          BY <4>1
        <4>3. PICK k \in 1 .. n : dfStack[k].dir = d /\ dfStack[k].i <= id
          BY <1>3, <3>4 DEF DfPending
        <4>4. CASE k = n /\ id = i
          BY <1>3, <2>1, <2>3, <4>3, <4>4
        <4>5. CASE k = n /\ id # i
          <5>1. rest[n].dir = d /\ rest[n].i <= id
            BY <1>3, <1>4, <1>5, <4>2, <4>3, <4>5
          <5>2. dfStack'[n].dir = d /\ dfStack'[n].i <= id /\ n \in DOMAIN dfStack'
            BY <1>3, <2>5, <5>1
          <5> QED
            BY <5>2 DEF DfPending
        <4>6. CASE k # n
          <5>1. k \in 1 .. n - 1
            BY <1>3, <4>6
          <5>2. k \in DOMAIN dfStack' /\ dfStack'[k] = dfStack[k]
            BY <1>3, <1>5, <2>5, <5>1
          <5> QED
            BY <4>3, <5>2 DEF DfPending
        <4> QED
          BY <4>4, <4>5, <4>6
      <3>5. df'.depths = df'.dirs /\ df'.links = df'.dirs \ {<< >>}
        BY <2>2, <2>3, <2>6, <3>1 DEF DfMade
      <3> QED
        BY <2>3, <3>1, <3>2, <3>3, <3>4, <3>5 DEF DfMade
    <2> QED
      BY <1>1, <2>3, <2>5, <2>6 DEF DfInv, DfClosed
  <1> QED
    BY <1>2, <1>6, <1>7 DEF DfSubdir

LEMMA DfUmountInv ==
    ASSUME DfInv, DfUmount
    PROVE  DfInv'
  <1>1. df \in DfMounts /\ dfStack = << >> /\ dfStack' = << >> /\ dfList' = DfClosed
    BY DEF DfInv, DfUmount
  <1>2. /\ df' \in DfMounts /\ df'.pc = "gone" /\ df'.fails = df.fails
        /\ df'.dirs = {} /\ df'.depths = {} /\ df'.links = {}
    BY <1>1 DEF DfUmount, DfMounts
  <1> QED
    BY <1>1, <1>2 DEF DfInv, DfUmount, DfMade, DfClosed

\* A getdents finds the depth file missing only if its allocation failed.
LEMMA DfReadInv ==
    ASSUME DfInv, dfOops = "none",
           \/ \E dir \in df.dirs : DfOpen(dir)
           \/ \E room \in 1 .. DfMaxRoom : DfGetdents(room)
           \/ DfClose
    PROVE  DfInv'
  <1>1. ASSUME NEW dir \in df.dirs, DfOpen(dir) PROVE DfInv'
    <2>1. /\ UNCHANGED <<df, dfStack, dfOops>> /\ df.pc = "mounted"
          /\ dfList' = [DfClosed EXCEPT !.dir = dir, !.pos = 0]
      BY <1>1 DEF DfOpen
    <2>2. dfList'.dir = dir /\ DOMAIN dfList' = {"dir", "pos", "seen", "end"}
      BY <2>1 DEF DfClosed
    <2>3. DfMade' <=> DfMade
      BY <2>1 DEF DfMade, DfPending, DfNSubdirs
    <2> QED
      BY <2>1, <2>2, <2>3 DEF DfInv
  <1>2. ASSUME NEW room \in 1 .. DfMaxRoom, DfGetdents(room) PROVE DfInv'
    <2>1. df' = df /\ dfStack' = dfStack /\ dfList.pos >= 0
      BY <1>2 DEF DfGetdents
    <2>2. /\ dfOops' = dfOops \/ (dfOops' = "depth" /\ dfList.dir \notin df.depths)
          /\ dfList'.dir = dfList.dir /\ DOMAIN dfList' = {"dir", "pos", "seen", "end"}
      <3>1. DOMAIN dfList = {"dir", "pos", "seen", "end"}
        BY DEF DfInv
      <3>2. \A pos, seen, end : LET l == [dfList EXCEPT !.pos = pos, !.seen = seen, !.end = end]
                                IN  l.dir = dfList.dir /\ DOMAIN l = DOMAIN dfList
        BY <3>1
      <3> QED
        BY <1>2, <3>1, <3>2 DEF DfGetdents
    <2>3. df.pc = "mounted" /\ dfList.dir \in df.dirs
      BY <2>1 DEF DfInv, DfClosed
    <2>5. dfOops' = "depth" => df.fails > 0
      <3>1. df.fails = 0 => df.depths = df.dirs
        BY DEF DfInv, DfMade
      <3>2. df.fails \in Nat
        BY DEF DfInv, DfMounts
      <3> QED
        BY <2>2, <2>3, <3>1, <3>2
    <2>6. DfMade' <=> DfMade
      BY <2>1 DEF DfMade, DfPending, DfNSubdirs
    <2> QED
      BY <2>1, <2>2, <2>3, <2>5, <2>6 DEF DfInv
  <1>3. CASE DfClose
    BY <1>3 DEF DfInv, DfClose, DfClosed, DfMade, DfPending, DfNSubdirs
  <1> QED
    BY <1>1, <1>2, <1>3

LEMMA DfInvariant ==
    ASSUME DfInv, DfOptions \subseteq Nat, [DfNext]_dfVars
    PROVE  DfInv'
  <1>1. CASE UNCHANGED dfVars
    BY <1>1 DEF dfVars, DfInv, DfMade, DfPending, DfNSubdirs
  <1>2. CASE DfNext
    BY <1>2, DfMountInv, DfSubdirInv, DfReturnInv, DfUmountInv, DfReadInv DEF DfNext
  <1> QED
    BY <1>1, <1>2

\* No call is in its loop once the mount is over, so nothing is pending.
LEMMA DfInvTree == DfInv => DfTree
  <1> SUFFICES ASSUME DfInv PROVE DfTree
    OBVIOUS
  <1>1. ASSUME df.pc = "mounted", df.fails = 0
        PROVE  (\A dir \in df.dirs : DfComplete(dir)) /\ df.depths = df.dirs
    <2>1. DfMade /\ dfStack = << >>
      BY <1>1 DEF DfInv
    <2>2. \A dir, id : ~DfPending(dir, id)
      BY <2>1 DEF DfPending
    <2> QED
      BY <2>1, <2>2 DEF DfMade, DfComplete, DfThere
  <1> QED
    BY <1>1 DEF DfInv, DfTree

LEMMA DfInitInv == DfInit => DfInv
  <1> SUFFICES ASSUME DfInit PROVE DfInv
    OBVIOUS
  <1>1. df \in DfMounts /\ df.pc = "unmounted" /\ df.fails = 0
    BY DEF DfInit, DfMounts
  <1>2. dfStack = << >> /\ dfStack \in Seq(DfCalls)
    BY EmptySeq DEF DfInit
  <1>3. df.dirs = {} /\ df.depths = {} /\ df.links = {} /\ DfMade
    BY DEF DfInit, DfMade
  <1> QED
    BY <1>1, <1>2, <1>3 DEF DfInit, DfInv, DfClosed

-----------------------------------------------------------------------------
(* deepfs: what a listing returns.                                         *)

\* What DfInOrder gives: every element of the set, each at one place, in order.
LEMMA DfInOrderFacts ==
    ASSUME NEW S \in SUBSET Nat, IsFiniteSet(S), NEW b \in Nat, \A e \in S : e < b
    PROVE  /\ Cardinality(S) \in Nat /\ DfInOrder(S) \in [1 .. Cardinality(S) -> S]
           /\ \A i, j \in 1 .. Cardinality(S) : i < j => DfInOrder(S)[i] < DfInOrder(S)[j]
           /\ \A e \in S : \E i \in 1 .. Cardinality(S) : DfInOrder(S)[i] = e
  <1>1. PICK c, s : c = Cardinality(S) /\ s = DfInOrder(S)
    OBVIOUS
  <1>2. c \in Nat
    BY <1>1, FS_CardinalityType
  <1>3. s \in [1 .. c -> S] /\ \A i, j \in 1 .. c : i < j => s[i] < s[j]
    <2>1. \E t \in [1 .. c -> S] : \A i, j \in 1 .. c : i < j => t[i] < t[j]
      BY <1>1, OrderExists
    <2>2. s = CHOOSE t \in [1 .. c -> S] : \A i, j \in 1 .. c : i < j => t[i] < t[j]
      BY <1>1 DEF DfInOrder
    <2> QED
      BY <2>1, <2>2
  <1>4. s \in Injection(1 .. c, S)
    <2>1. \A i, j \in 1 .. c : s[i] = s[j] => i = j
      <3> TAKE i \in 1 .. c, j \in 1 .. c
      <3>1. i = j \/ i < j \/ j < i
        OBVIOUS
      <3>2. s[i] \in Nat /\ s[j] \in Nat
        BY <1>3
      <3> QED
        BY <1>3, <3>1, <3>2
    <2> QED
      BY <1>3, <2>1 DEF Injection, IsInjective
  <1>5. Cardinality(1 .. c) = c
    BY <1>2, FS_Interval
  <1>6. s \in Surjection(1 .. c, S)
    BY <1>1, <1>4, <1>5, FS_Injection
  <1> QED
    BY <1>1, <1>2, <1>3, <1>6 DEF Surjection

\* A listing: the files and the subdirectories of a directory.
DfEntries(dir) == ToSet(DfFiles(dir)) \union DfSubdirs(dir)

\* The position that a getdents which returns n entries leaves.
DfNextPos(dir, pos, n) ==
    IF pos <= DfDepth /\ pos + n > DfDepth /\ dir \notin df.links THEN pos + n + 1 ELSE pos + n

\* The files have the first places.
LEMMA DfFilesFacts ==
    ASSUME NEW dir
    PROVE  /\ Len(DfFiles(dir)) = IF dir \in df.links THEN 4 ELSE 3
           /\ DfFiles(dir) \in Seq(Nat)
           /\ \A i \in 1 .. Len(DfFiles(dir)) : DfFiles(dir)[i] = i - 1
  <1>1. CASE dir \in df.links
    <2>1. DfFiles(dir) = <<0, 1, 2, 3>>
      BY <1>1 DEF DfFiles, DfDepth, DfLink
    <2> QED
      BY <1>1, <2>1
  <1>2. CASE dir \notin df.links
    <2>1. DfFiles(dir) = <<0, 1, 2>>
      BY <1>2 DEF DfFiles, DfDepth
    <2> QED
      BY <1>2, <2>1
  <1> QED
    BY <1>1, <1>2

\* What is emitted from a position: the entries from there on, in order; how many there
\* are leads to a position that no later one is before, and that none of these has
\* reached when no subdirectory is missing.
LEMMA DfEmitsFacts ==
    ASSUME df.max \in Nat, NEW dir \in Seq(Nat), NEW pos \in Nat,
           dir \notin df.links => pos # 3,
           NEW s, s = DfEmits(dir, pos)
    PROVE  /\ s \in Seq(Nat)
           /\ \A i, j \in 1 .. Len(s) : i < j => s[i] < s[j]
           /\ \A i \in 1 .. Len(s) : s[i] \in DfEntries(dir) /\ s[i] >= pos
           /\ \A e \in DfEntries(dir) : e >= pos => \E i \in 1 .. Len(s) : s[i] = e
           /\ \A n \in 0 .. Len(s) :
                 /\ \A i \in n + 1 .. Len(s) : s[i] >= DfNextPos(dir, pos, n)
                 /\ DfComplete(dir) => \A i \in 1 .. n : s[i] < DfNextPos(dir, pos, n)
  <1>1. PICK f, l, a, A, S, c, b :
          /\ f = DfFiles(dir) /\ l = Len(f) /\ A = SubSeq(f, pos + 1, l) /\ a = Len(A)
          /\ S = {e \in DfSubdirs(dir) : ~(e < pos)} /\ c = Cardinality(S)
          /\ b = DfInOrder(S)
    OBVIOUS
  <1>2. PICK N : N = DfNSubdirs(dir)
    OBVIOUS
  <1>3. N \in Int
    BY <1>2, LenProperties DEF DfNSubdirs
  <1>4. /\ l \in {3, 4} /\ f \in Seq(Nat) /\ \A i \in 1 .. l : f[i] = i - 1
        /\ dir \in df.links => l = 4
        /\ dir \notin df.links => l = 3
    BY <1>1, DfFilesFacts
  <1>5. /\ A \in Seq(Nat) /\ a = IF pos + 1 <= l THEN l - pos ELSE 0
        /\ \A i \in 1 .. a : A[i] = pos + i - 1
    <2>0. PICK m : m = pos + 1
      OBVIOUS
    <2>3. m \in Int /\ l \in Int /\ \A i \in m .. l : f[i] \in Nat
      <3>1. \A i \in m .. l : i \in 1 .. l /\ i - 1 \in Nat
        BY <1>4, <2>0
      <3> QED
        BY <1>4, <2>0, <3>1
    <2>4. /\ A \in Seq(Nat) /\ a = IF m <= l THEN l - m + 1 ELSE 0
          /\ \A i \in 1 .. l - m + 1 : A[i] = f[m + i - 1]
      BY <1>1, <2>0, <2>3, SubSeqProperties
    <2>1. A \in Seq(Nat) /\ a = IF pos + 1 <= l THEN l - pos ELSE 0
      BY <2>0, <2>3, <2>4
    <2>2. ASSUME NEW i \in 1 .. a PROVE A[i] = pos + i - 1
      <3>1. A[i] = f[pos + 1 + i - 1]
        <4>1. i \in 1 .. l - m + 1
          BY <2>0, <2>1, <2>3
        <4> QED
          BY <2>0, <2>4, <4>1
      <3>2. pos + 1 + i - 1 \in 1 .. l /\ pos + 1 + i - 1 - 1 = pos + i - 1
        BY <1>4, <2>1
      <3> QED
        BY <1>4, <3>1, <3>2
    <2> QED
      BY <2>1, <2>2
  <1>6. /\ \A id \in DfThere(dir) : id \in Nat /\ id < N
        /\ DfComplete(dir) => \A id \in Nat : id < N => id \in DfThere(dir)
    BY <1>2, <1>3 DEF DfThere, DfComplete
  <1>7. \A e : e \in S <=> e \in DfSubdirs(dir) /\ ~(e < pos)
    BY <1>1
  <1>8. \A e \in DfSubdirs(dir) : e \in Nat /\ e >= 4 /\ e < N + 4
    BY <1>3, <1>6 DEF DfSubdirs
  <1>9. S \in SUBSET Nat /\ IsFiniteSet(S) /\ \A e \in S : e < N + 4 /\ e >= 4 /\ e >= pos
    <2>1. \A e \in S : e \in Nat /\ e < N + 4 /\ e >= 4 /\ e >= pos
      BY <1>7, <1>8
    <2>2. S \subseteq 0 .. N + 3
      BY <1>3, <2>1
    <2>3. IsFiniteSet(0 .. N + 3)
      BY <1>3, FS_Interval
    <2> QED
      BY <2>1, <2>2, <2>3, FS_Subset
  <1>10. /\ c \in Nat /\ b \in [1 .. c -> S]
         /\ \A i, j \in 1 .. c : i < j => b[i] < b[j]
         /\ \A e \in S : \E i \in 1 .. c : b[i] = e
    <2>1. S \in SUBSET Nat /\ IsFiniteSet(S) /\ c = Cardinality(S) /\ b = DfInOrder(S)
      BY <1>1, <1>9
    <2>2. PICK m \in Nat : \A e \in S : e < m
      <3>1. CASE S = {}
        BY <3>1
      <3>2. CASE S # {}
        <4>1. PICK e \in S : e \in Nat /\ e < N + 4
          BY <1>9, <3>2
        <4>2. N + 4 \in Nat
          BY <1>3, <4>1
        <4> QED
          BY <1>9, <4>2
      <3> QED
        BY <3>1, <3>2
    <2> QED
      BY <2>1, <2>2, DfInOrderFacts
  <1>11. b \in Seq(Nat) /\ Len(b) = c
    <2>1. b \in [1 .. c -> Nat]
      BY <1>9, <1>10
    <2> QED
      BY <1>10, <2>1, IsASeq
  <1>12. /\ s \in Seq(Nat) /\ Len(s) = a + c
         /\ \A k \in 1 .. a + c : s[k] = IF k <= a THEN pos + k - 1 ELSE b[k - a]
    <2>1. s = A \o b
      BY <1>1 DEF DfEmits
    <2>2. /\ s \in Seq(Nat) /\ Len(s) = a + c
          /\ \A k \in 1 .. a + c : s[k] = IF k <= a THEN A[k] ELSE b[k - a]
      <3>1. /\ A \o b \in Seq(Nat) /\ Len(A \o b) = Len(A) + Len(b)
            /\ \A k \in 1 .. Len(A) + Len(b) :
                  (A \o b)[k] = IF k <= Len(A) THEN A[k] ELSE b[k - Len(A)]
        BY <1>5, <1>11, ConcatProperties
      <3>2. Len(A) = a /\ Len(b) = c
        BY <1>1, <1>11
      <3> QED
        BY <2>1, <3>1, <3>2
    <2>3. a \in Nat
      BY <1>4, <1>5
    <2> QED
      BY <1>5, <1>10, <2>2, <2>3
  <1>20. PICK q : q = IF pos < 4 THEN 4 ELSE pos
    OBVIOUS
  <1>21. /\ a \in Nat /\ c \in Nat /\ q \in Nat /\ l \in Nat /\ l \in {3, 4}
         /\ dir \in df.links => l = 4
         /\ dir \notin df.links => l = 3
    BY <1>4, <1>5, <1>10, <1>20
  <1>13. ASSUME NEW k \in 1 .. c PROVE b[k] \in S /\ b[k] \in Nat /\ b[k] >= q + k - 1
    <2>1. /\ b \in [1 .. c -> Nat] /\ 1 \in 1 .. c /\ k \in 1 .. c /\ b[1] \in S
          /\ b[k] \in S
      <3>1. 1 \in 1 .. c /\ k \in 1 .. c
        BY <1>21
      <3>2. b \in [1 .. c -> Nat] /\ b[1] \in S /\ b[k] \in S
        BY <1>9, <1>10, <3>1
      <3> QED
        BY <3>1, <3>2
    <2>2. b[k] >= b[1] + (k - 1)
      BY <1>10, <1>21, <2>1, OrderSpreads
    <2>3. b[1] >= q /\ b[1] \in Nat /\ b[k] \in Nat
      BY <1>9, <1>20, <2>1
    <2> QED
      BY <1>21, <2>1, <2>2, <2>3
  <1>14. ASSUME DfComplete(dir), NEW k \in 1 .. c PROVE b[k] <= q + k - 1
    <2>1. ASSUME NEW e \in q .. N + 3 PROVE e \in S
      <3>1. e \in Nat /\ e >= 4 /\ e >= pos /\ e - 4 \in Nat /\ e - 4 < N
        BY <1>3, <1>20, <1>21
      <3>2. e - 4 \in DfThere(dir) /\ e - 4 + 4 = e
        BY <1>6, <1>14, <3>1
      <3>3. e \in DfSubdirs(dir)
        BY <3>2 DEF DfSubdirs
      <3> QED
        BY <1>7, <3>1, <3>3
    <2>2. ASSUME NEW e \in S PROVE e \in q .. N + 3
      BY <1>3, <1>9, <1>20, <2>2
    <2>3. PICK m, I : m = N + 3 /\ I = q .. m
      OBVIOUS
    <2>9. S = I
      <3>1. \A e : e \in S <=> e \in I
        BY <2>1, <2>2, <2>3
      <3> QED
        BY <3>1
    <2>4. c = IF q > N + 3 THEN 0 ELSE N + 3 - q + 1
      <3>1. m \in Int /\ q \in Int
        BY <1>3, <1>21, <2>3
      <3>2. Cardinality(q .. m) = IF q > m THEN 0 ELSE m - q + 1
        BY <3>1, FS_Interval
      <3>3. c = Cardinality(q .. m)
        BY <1>1, <2>3, <2>9
      <3>4. c = IF q > m THEN 0 ELSE m - q + 1
        BY <3>2, <3>3
      <3> QED
        BY <1>3, <1>21, <2>3, <3>4
    <2>5. /\ b \in [1 .. c -> Nat] /\ c \in k .. c /\ k \in 1 .. c /\ c \in 1 .. c
          /\ b[c] \in S
      <3>1. c \in k .. c /\ c \in 1 .. c
        BY <1>21
      <3>2. b \in [1 .. c -> Nat] /\ b[c] \in S
        BY <1>9, <1>10, <3>1
      <3> QED
        BY <3>1, <3>2
    <2>6. b[c] >= b[k] + (c - k)
      BY <1>10, <1>21, <2>5, OrderSpreads
    <2>7. b[c] \in Int /\ b[c] <= N + 3 /\ b[k] \in Int
      BY <2>2, <2>5
    <2>8. c = N + 3 - q + 1
      BY <1>3, <1>21, <2>4
    <2> QED
      BY <1>3, <1>21, <2>6, <2>7, <2>8
  <1>15. a \in Nat /\ q \in Nat /\ q >= 4 /\ q >= pos /\ (pos < 4 => q = 4) /\ (pos >= 4 => q = pos)
         /\ l \in Nat /\ (pos < l => a = l - pos) /\ (pos >= l => a = 0)
    BY <1>4, <1>5, <1>20
  <1>16. \A i, j \in 1 .. Len(s) : i < j => s[i] < s[j]
    <2> SUFFICES ASSUME NEW i \in 1 .. a + c, NEW j \in 1 .. a + c, i < j PROVE s[i] < s[j]
      BY <1>12
    <2>1. CASE j <= a
      BY <1>12, <1>15, <2>1
    <2>2. CASE i <= a /\ j > a
      <3>1. j - a \in 1 .. c
        BY <1>10, <1>15, <2>2
      <3>2. s[i] = pos + i - 1 /\ s[j] = b[j - a] /\ b[j - a] >= q + (j - a) - 1 /\ b[j - a] \in Nat
        BY <1>12, <1>13, <1>15, <2>2, <3>1
      <3>3. a = l - pos /\ l <= 4
        BY <1>4, <1>15, <2>2
      <3>4. i \in Nat /\ j \in Nat /\ a \in Nat /\ l \in Nat /\ pos \in Nat /\ j - a >= 1
        BY <1>10, <1>15, <1>21, <2>2, <3>1
      <3>5. s[i] <= 3
        BY <2>2, <3>2, <3>3, <3>4
      <3>6. b[j - a] >= 4
        BY <1>15, <3>2, <3>4
      <3> QED
        BY <3>2, <3>4, <3>5, <3>6
    <2>3. CASE i > a
      <3>1. j - a \in 1 .. c /\ i - a \in 1 .. c /\ i - a < j - a
        BY <1>10, <1>15, <2>3
      <3>2. s[i] = b[i - a] /\ s[j] = b[j - a]
        BY <1>12, <1>15, <2>3
      <3> QED
        BY <1>10, <3>1, <3>2
    <2> QED
      BY <1>15, <2>1, <2>2, <2>3
  <1>17. ASSUME NEW i \in 1 .. Len(s) PROVE s[i] \in DfEntries(dir) /\ s[i] >= pos
    <2>1. CASE i <= a
      <3>0. i \in 1 .. a + c /\ i \in Nat /\ i >= 1
        BY <1>12, <1>21
      <3>1. s[i] = pos + i - 1 /\ pos + i \in 1 .. l
        BY <1>12, <1>15, <1>21, <2>1, <3>0
      <3>2. f[pos + i] = s[i] /\ pos + i \in DOMAIN f
        BY <1>1, <1>4, <1>15, <3>0, <3>1, LenProperties
      <3>3. s[i] \in ToSet(f)
        BY <3>2 DEF ToSet
      <3> QED
        BY <1>1, <3>1, <3>3 DEF DfEntries
    <2>2. CASE i > a
      <3>0. ~(i <= a) /\ i \in 1 .. a + c
        BY <1>12, <1>21, <2>2
      <3>1. i - a \in 1 .. c /\ s[i] = b[i - a]
        <4>1. i - a \in 1 .. c
          BY <1>21, <3>0
        <4> QED
          BY <1>12, <3>0, <4>1
      <3>2. s[i] \in S
        BY <1>13, <3>1
      <3> QED
        BY <1>7, <1>9, <3>2 DEF DfEntries
    <2> QED
      BY <1>12, <1>15, <2>1, <2>2
  <1>18. ASSUME NEW e \in DfEntries(dir), e >= pos PROVE \E i \in 1 .. Len(s) : s[i] = e
    <2>1. CASE e \in DfSubdirs(dir)
      <3>1. e \in S
        BY <1>7, <1>8, <1>18, <2>1
      <3>2. PICK k \in 1 .. c : b[k] = e
        BY <1>10, <3>1
      <3>3. a + k \in 1 .. a + c /\ ~(a + k <= a) /\ a + k - a = k
        BY <1>10, <1>15
      <3>4. s[a + k] = e
        <4>1. PICK m : m = a + k
          OBVIOUS
        <4>2. m \in 1 .. a + c /\ ~(m <= a) /\ m - a = k
          BY <1>21, <3>3, <4>1
        <4>3. s[m] = b[k]
          BY <1>12, <4>2
        <4> QED
          BY <3>2, <4>1, <4>3
      <3> QED
        BY <1>12, <3>3, <3>4
    <2>2. CASE e \in ToSet(f)
      <3>1. PICK k \in 1 .. l : f[k] = e
        BY <1>1, <1>4, <2>2, LenProperties DEF ToSet
      <3>2. e = k - 1 /\ pos < l /\ k - pos \in 1 .. a
        <4>1. e = k - 1 /\ k \in Nat
          BY <1>4, <3>1
        <4>2. pos < l
          BY <1>18, <1>21, <4>1
        <4> QED
          BY <1>15, <1>18, <1>21, <4>1, <4>2
      <3>3. k - pos \in 1 .. a + c /\ k - pos <= a /\ pos + (k - pos) - 1 = e
        BY <1>10, <1>15, <3>2
      <3>4. s[k - pos] = e
        BY <1>12, <3>3
      <3> QED
        BY <1>12, <3>3, <3>4
    <2> QED
      BY <1>1, <1>18, <2>1, <2>2 DEF DfEntries
  <1>19. ASSUME NEW n \in 0 .. Len(s), NEW i \in n + 1 .. Len(s)
         PROVE  s[i] >= DfNextPos(dir, pos, n)
    <2>1. n \in Nat /\ i \in 1 .. a + c /\ i > n
      BY <1>10, <1>12, <1>15
    <2>2. CASE i <= a
      <3>1. s[i] = pos + i - 1
        BY <1>12, <2>1, <2>2
      <3>2. pos < l /\ pos + n < l
        BY <1>15, <2>1, <2>2
      <3>3. DfNextPos(dir, pos, n) = pos + n
        BY <1>4, <2>1, <3>2 DEF DfNextPos, DfDepth
      <3> QED
        BY <2>1, <3>1, <3>3
    <2>3. CASE i > a
      <3>1. i - a \in 1 .. c
        BY <1>10, <1>15, <2>1, <2>3, SMTT(30)
      <3>2. s[i] >= q + (i - a) - 1 /\ s[i] \in Nat
        <4>1. s[i] = b[i - a]
          <5>1. ~(i <= a) /\ i \in 1 .. a + c
            BY <1>21, <2>1, <2>3
          <5> QED
            BY <1>12, <5>1
        <4> QED
          BY <1>13, <3>1, <4>1
      <3>3. DfNextPos(dir, pos, n) = pos + n
              \/ (pos < 3 /\ l = 3 /\ DfNextPos(dir, pos, n) = pos + n + 1)
        BY <1>4, <2>1 DEF DfNextPos, DfDepth
      <3>4. q - a >= pos /\ (pos < 3 /\ l = 3 => q - a = pos + 1)
        BY <1>4, <1>15
      <3> QED
        BY <1>15, <2>1, <3>2, <3>3, <3>4
    <2> QED
      BY <1>15, <2>1, <2>2, <2>3
  <1>22. ASSUME NEW n \in 0 .. Len(s), DfComplete(dir), NEW i \in 1 .. n
         PROVE  s[i] < DfNextPos(dir, pos, n)
    <2>1. n \in Nat /\ i \in 1 .. a + c /\ i <= n
      BY <1>10, <1>12, <1>15
    <2>2. CASE i <= a
      <3>1. s[i] = pos + i - 1
        BY <1>12, <2>1, <2>2
      <3>2. DfNextPos(dir, pos, n) = pos + n \/ DfNextPos(dir, pos, n) = pos + n + 1
        BY DEF DfNextPos
      <3> QED
        BY <2>1, <3>1, <3>2
    <2>3. CASE i > a
      <3>1. i - a \in 1 .. c
        BY <1>10, <1>15, <2>1, <2>3
      <3>2. s[i] <= q + (i - a) - 1 /\ s[i] \in Nat
        <4>1. s[i] = b[i - a]
          <5>1. ~(i <= a) /\ i \in 1 .. a + c
            BY <1>21, <2>1, <2>3
          <5> QED
            BY <1>12, <5>1
        <4> QED
          BY <1>13, <1>14, <1>22, <3>1, <4>1
      <3>3. \/ q - a = pos /\ DfNextPos(dir, pos, n) \in {pos + n, pos + n + 1}
            \/ q - a = pos + 1 /\ DfNextPos(dir, pos, n) = pos + n + 1
        <4>1. CASE dir \in df.links \/ pos >= 3
          <5>1. q - a = pos
            BY <1>4, <1>15, <4>1
          <5> QED
            BY <5>1 DEF DfNextPos
        <4>2. CASE dir \notin df.links /\ pos < 3
          <5>1. l = 3 /\ a = 3 - pos /\ q = 4 /\ pos + n > 2
            BY <1>4, <1>15, <2>1, <2>3, <4>2
          <5>2. DfNextPos(dir, pos, n) = pos + n + 1
            BY <4>2, <5>1 DEF DfNextPos, DfDepth
          <5> QED
            BY <1>15, <5>1, <5>2
        <4> QED
          BY <4>1, <4>2
      <3> QED
        BY <1>15, <2>1, <3>2, <3>3
    <2> QED
      BY <1>15, <2>1, <2>2, <2>3
  <1> QED
    BY <1>12, <1>16, <1>17, <1>18, <1>19, <1>22

-----------------------------------------------------------------------------
\* How far a listing has come: what it has returned are the entries up to its position,
\* each once if none is missing; and at its end there are no others.
DfListed ==
    /\ dfList \in [dir : Seq(Nat), pos : Int, seen : Seq(Nat), end : BOOLEAN]
    /\ dfList # DfClosed =>
          /\ dfList.pos \in Nat
          /\ dfList.dir \notin df.links => dfList.pos # 3
          /\ ToSet(dfList.seen) \subseteq DfEntries(dfList.dir)
          /\ \A e \in DfEntries(dfList.dir) : e < dfList.pos => e \in ToSet(dfList.seen)
          /\ DfComplete(dfList.dir) =>
                IsInjective(dfList.seen) /\ \A e \in ToSet(dfList.seen) : e < dfList.pos
          /\ dfList.end => \A e \in DfEntries(dfList.dir) : e < dfList.pos

\* The files and subdirectories are numbers.
LEMMA DfEntriesNat ==
    ASSUME df.max \in Nat, NEW dir \in Seq(Nat)
    PROVE  \A e \in DfEntries(dir) : e \in Nat
  <1>1. \A e \in ToSet(DfFiles(dir)) : e \in Nat
    BY DfFilesFacts, LenProperties, ElementOfSeq DEF ToSet
  <1>2. DfNSubdirs(dir) \in Int
    BY LenProperties DEF DfNSubdirs
  <1>3. \A e \in DfSubdirs(dir) : e \in Nat
    BY <1>2 DEF DfSubdirs, DfThere
  <1> QED
    BY <1>1, <1>3 DEF DfEntries

LEMMA DfGetdentsListed ==
    ASSUME DfInv, DfListed, NEW room \in 1 .. DfMaxRoom, DfMaxRoom \in Nat, DfGetdents(room)
    PROVE  DfListed'
  <1>1. PICK dir, pos, seen, s, n :
          /\ dir = dfList.dir /\ pos = dfList.pos /\ seen = dfList.seen
          /\ s = DfEmits(dir, pos)
          /\ n = IF room < Len(s) THEN room ELSE Len(s)
    OBVIOUS
  <1>2. df' = df /\ pos >= 0 /\ ~dfList.end
    BY <1>1 DEF DfGetdents
  <1>3. dfList # DfClosed
    BY <1>1, <1>2 DEF DfClosed
  <1>4. /\ dir \in Seq(Nat) /\ pos \in Nat /\ seen \in Seq(Nat) /\ df.max \in Nat
        /\ dir \notin df.links => pos # 3
        /\ ToSet(seen) \subseteq DfEntries(dir)
        /\ \A e \in DfEntries(dir) : e < pos => e \in ToSet(seen)
        /\ DfComplete(dir) => IsInjective(seen) /\ \A e \in ToSet(seen) : e < pos
    BY <1>1, <1>3 DEF DfListed, DfInv, DfMounts
  <1>5. /\ s \in Seq(Nat)
        /\ \A i, j \in 1 .. Len(s) : i < j => s[i] < s[j]
        /\ \A i \in 1 .. Len(s) : s[i] \in DfEntries(dir) /\ s[i] >= pos
        /\ \A e \in DfEntries(dir) : e >= pos => \E i \in 1 .. Len(s) : s[i] = e
        /\ \A k \in 0 .. Len(s) :
              /\ \A i \in k + 1 .. Len(s) : s[i] >= DfNextPos(dir, pos, k)
              /\ DfComplete(dir) => \A i \in 1 .. k : s[i] < DfNextPos(dir, pos, k)
    <2>1. /\ s \in Seq(Nat)
          /\ \A i, j \in 1 .. Len(s) : i < j => s[i] < s[j]
          /\ \A i \in 1 .. Len(s) : s[i] \in DfEntries(dir) /\ s[i] >= pos
      BY <1>1, <1>4, DfEmitsFacts
    <2>2. /\ \A e \in DfEntries(dir) : e >= pos => \E i \in 1 .. Len(s) : s[i] = e
      BY <1>1, <1>4, DfEmitsFacts, SMTT(30)
    <2>3. \A k \in 0 .. Len(s) :
              /\ \A i \in k + 1 .. Len(s) : s[i] >= DfNextPos(dir, pos, k)
              /\ DfComplete(dir) => \A i \in 1 .. k : s[i] < DfNextPos(dir, pos, k)
      BY <1>1, <1>4, DfEmitsFacts
    <2> QED
      BY <2>1, <2>2, <2>3
  <1>6. Len(s) \in Nat /\ n \in 0 .. Len(s) /\ (n = 0 => Len(s) = 0)
    <2>1. Len(s) \in Nat
      BY <1>5, LenProperties
    <2> QED
      BY <1>1, <2>1
  <1>7. PICK next, t : next = DfNextPos(dir, pos, n) /\ t = seen \o SubSeq(s, 1, n)
    OBVIOUS
  <1>8. CASE dfList' = dfList
    BY <1>2, <1>8
       DEF DfListed, DfEntries, DfFiles, DfSubdirs, DfThere, DfComplete, DfNSubdirs
  <1>9. CASE dfList' = [dfList EXCEPT !.pos = next, !.seen = t, !.end = n = 0]
    <2>1. next \in Nat /\ next >= pos /\ (dir \notin df.links => next # 3)
      <3>1. n \in Nat /\ pos \in Nat
        BY <1>4, <1>6
      <3>2. CASE pos <= 2 /\ pos + n > 2 /\ dir \notin df.links
        <4>1. next = pos + n + 1
          BY <1>7, <3>2 DEF DfNextPos, DfDepth
        <4> QED
          BY <3>1, <3>2, <4>1
      <3>3. CASE ~(pos <= 2 /\ pos + n > 2 /\ dir \notin df.links)
        <4>1. next = pos + n
          BY <1>7, <3>3 DEF DfNextPos, DfDepth
        <4>2. next \in Nat /\ next >= pos
          BY <3>1, <4>1
        <4>3. ASSUME dir \notin df.links, next = 3 PROVE FALSE
          <5>1. pos # 3 /\ ~(pos <= 2 /\ pos + n > 2)
            BY <1>4, <3>3, <4>3
          <5> QED
            BY <3>1, <4>1, <4>3, <5>1
        <4> QED
          BY <4>2, <4>3
      <3> QED
        BY <3>2, <3>3
    <2>2. /\ t \in Seq(Nat)
          /\ \A x : x \in ToSet(t) <=> x \in ToSet(seen) \/ \E i \in 1 .. n : s[i] = x
          /\ (/\ IsInjective(seen) /\ \A i, j \in 1 .. n : i < j => s[i] < s[j]
              /\ \A i \in 1 .. n : s[i] \notin ToSet(seen)) => IsInjective(t)
      <3>1. seen \in Seq(Nat) /\ s \in Seq(Nat) /\ n \in Nat /\ n <= Len(s)
              /\ t = WithFirst(seen, s, n)
        BY <1>4, <1>5, <1>6, <1>7 DEF WithFirst
      <3>2. t \in Seq(Nat)
        BY <3>1, ListConcatFirst
      <3>3. ToSet(t) = ToSet(seen) \union {s[i] : i \in 1 .. n}
        BY <3>1, ListConcatFirst
      <3>4. ASSUME IsInjective(seen), \A i, j \in 1 .. n : i < j => s[i] < s[j],
                   \A i \in 1 .. n : s[i] \notin ToSet(seen)
            PROVE  IsInjective(t)
        BY <3>1, <3>4, ListConcatFirst
      <3>5. \A x : x \in ToSet(t) <=> x \in ToSet(seen) \/ \E i \in 1 .. n : s[i] = x
        BY <3>3
      <3> QED
        BY <3>2, <3>4, <3>5
    <2>3. \A i \in 1 .. n : i \in 1 .. Len(s)
      BY <1>6
    <2>4. ToSet(t) \subseteq DfEntries(dir)
      <3> SUFFICES ASSUME NEW x \in ToSet(t) PROVE x \in DfEntries(dir)
        OBVIOUS
      <3>1. CASE x \in ToSet(seen)
        BY <1>4, <3>1
      <3>2. ASSUME NEW i \in 1 .. n, s[i] = x PROVE x \in DfEntries(dir)
        BY <1>5, <2>3, <3>2
      <3> QED
        BY <2>2, <3>1, <3>2
    <2>5. ASSUME NEW e \in DfEntries(dir), e < next PROVE e \in ToSet(t)
      <3>1. e \in Nat
        BY <1>4, DfEntriesNat
      <3>2. CASE e < pos
        BY <1>4, <2>2, <3>2
      <3>3. CASE e >= pos
        <4>1. PICK i \in 1 .. Len(s) : s[i] = e
          BY <1>5, <3>3
        <4>2. ~(i \in n + 1 .. Len(s))
          BY <1>5, <1>6, <1>7, <2>1, <2>5, <3>1, <4>1
        <4>3. i \in 1 .. n
          BY <1>6, <4>2
        <4> QED
          BY <2>2, <4>1, <4>3
      <3> QED
        BY <1>4, <3>1, <3>2, <3>3
    <2>6. ASSUME DfComplete(dir)
          PROVE  IsInjective(t) /\ \A e \in ToSet(t) : e < next
      <3>1. \A i, j \in 1 .. n : i < j => s[i] < s[j]
        BY <1>5, <2>3
      <3>2. ASSUME NEW i \in 1 .. n PROVE s[i] \notin ToSet(seen) /\ s[i] < next
        <4>1. s[i] >= pos /\ s[i] \in Nat
          BY <1>5, <2>3, ElementOfSeq
        <4>2. s[i] < next
          BY <1>5, <1>6, <1>7, <2>6
        <4>3. s[i] \in ToSet(seen) => s[i] < pos
          BY <1>4, <2>6
        <4> QED
          BY <1>4, <4>1, <4>2, <4>3
      <3>3. IsInjective(t)
        BY <1>4, <2>2, <2>6, <3>1, <3>2
      <3>4. ASSUME NEW e \in ToSet(seen) PROVE e < next
        <4>1. e \in Nat /\ e < pos
          BY <1>4, <2>6, DfEntriesNat
        <4> QED
          BY <1>4, <2>1, <4>1
      <3> QED
        BY <2>2, <3>2, <3>3, <3>4
    <2>7. ASSUME n = 0 PROVE \A e \in DfEntries(dir) : e < next
      <3> TAKE e \in DfEntries(dir)
      <3>1. e \in Nat
        BY <1>4, DfEntriesNat
      <3>2. ~(e >= pos)
        BY <1>5, <1>6, <2>7
      <3> QED
        BY <1>4, <2>1, <3>1, <3>2
    <2>8. PICK end : end = (n = 0)
      OBVIOUS
    <2>9. /\ dfList' \in [dir : Seq(Nat), pos : Int, seen : Seq(Nat), end : BOOLEAN]
          /\ dfList'.dir = dir /\ dfList'.pos = next /\ dfList'.seen = t
          /\ dfList'.end = (n = 0)
      <3>1. PICK was : was = dfList.end
        OBVIOUS
      <3>2. dfList = [dir |-> dir, pos |-> pos, seen |-> seen, end |-> was]
        BY <1>1, <3>1 DEF DfListed
      <3>5. PICK rec : rec = [dir |-> dir, pos |-> pos, seen |-> seen, end |-> was]
        OBVIOUS
      <3>6. [rec EXCEPT !.pos = next, !.seen = t, !.end = end]
              = [dir |-> dir, pos |-> next, seen |-> t, end |-> end]
        <4>1. PICK r1 : r1 = [rec EXCEPT !.pos = next]
          OBVIOUS
        <4>2. PICK r2 : r2 = [r1 EXCEPT !.seen = t]
          OBVIOUS
        <4>3. r1 = [dir |-> dir, pos |-> next, seen |-> seen, end |-> was]
          BY <3>5, <4>1
        <4>4. r2 = [dir |-> dir, pos |-> next, seen |-> t, end |-> was]
          BY <4>2, <4>3
        <4>5. [r2 EXCEPT !.end = end] = [dir |-> dir, pos |-> next, seen |-> t, end |-> end]
          BY <4>4
        <4> QED
          BY <4>1, <4>2, <4>5
      <3>3. dfList' = [dir |-> dir, pos |-> next, seen |-> t, end |-> end]
        BY <1>9, <2>8, <3>2, <3>5, <3>6
      <3>4. next \in Int
        BY <2>1
      <3> QED
        BY <1>4, <2>2, <2>8, <3>3, <3>4
    <2>10. /\ DfEntries(dir)' = DfEntries(dir) /\ (DfComplete(dir)' <=> DfComplete(dir))
      BY <1>2 DEF DfEntries, DfFiles, DfSubdirs, DfThere, DfComplete, DfNSubdirs
    <2> QED
      BY <1>2, <2>1, <2>2, <2>4, <2>5, <2>6, <2>7, <2>9, <2>10 DEF DfListed
  <1> QED
    BY <1>1, <1>7, <1>8, <1>9 DEF DfGetdents, DfNextPos

\* A listing that nothing touches stays as far as it was.
LEMMA DfListedStays ==
    ASSUME DfListed, dfList' = dfList, dfList # DfClosed => df' = df
    PROVE  DfListed'
  <1>1. CASE dfList = DfClosed
    BY <1>1 DEF DfListed
  <1>2. CASE dfList # DfClosed
    <2>1. df' = df
      BY <1>2
    <2> QED
      BY <2>1 DEF DfListed, DfEntries, DfFiles, DfSubdirs, DfThere, DfComplete, DfNSubdirs
  <1> QED
    BY <1>1, <1>2

LEMMA DfOpenListed ==
    ASSUME DfInv, NEW dir \in df.dirs, DfOpen(dir)
    PROVE  DfListed'
  <1>1. dfList' = [dir |-> dir, pos |-> 0, seen |-> << >>, end |-> FALSE]
    BY DEF DfOpen, DfClosed
  <1>2. dir \in Seq(Nat) /\ df.max \in Nat
    BY DEF DfInv, DfMounts
  <1>3. df' = df
    BY DEF DfOpen
  <1>4. \A e \in DfEntries(dir) : e \in Nat
    BY <1>2, DfEntriesNat
  <1>5. DfEntries(dir)' = DfEntries(dir)
    BY <1>3 DEF DfEntries, DfFiles, DfSubdirs, DfThere, DfNSubdirs
  <1>6. ToSet(<< >>) = {} /\ IsInjective(<< >>) /\ << >> \in Seq(Nat)
    BY DEF ToSet, IsInjective
  <1>7. \A e \in DfEntries(dir) : ~(e < 0)
    BY <1>4
  <1>8. /\ dfList'.dir = dir /\ dfList'.pos = 0 /\ dfList'.seen = << >> /\ dfList'.end = FALSE
        /\ dfList' \in [dir : Seq(Nat), pos : Int, seen : Seq(Nat), end : BOOLEAN]
    BY <1>1, <1>2, <1>6
  <1> QED
    BY <1>5, <1>6, <1>7, <1>8 DEF DfListed

LEMMA DfListedClosed ==
    ASSUME dfList = DfClosed
    PROVE  DfListed
  <1>1. << >> \in Seq(Nat) /\ -1 \in Int
    OBVIOUS
  <1> QED
    BY <1>1 DEF DfListed, DfClosed

LEMMA DfListedStep ==
    ASSUME DfInv, DfListed, DfMaxRoom \in Nat, [DfNext]_dfVars
    PROVE  DfListed'
  <1>1. CASE UNCHANGED dfVars
    BY <1>1, DfListedStays DEF dfVars
  <1>2. ASSUME NEW option \in DfOptions, DfMount(option) PROVE DfListed'
    <2>1. dfList' = dfList /\ dfList = DfClosed
      BY <1>2 DEF DfMount, DfInv
    <2> QED
      BY <2>1, DfListedStays
  <1>3. CASE DfSubdir \/ DfReturn
    <2>1. dfList' = dfList /\ dfList = DfClosed
      BY <1>3 DEF DfSubdir, DfReturn, DfInv
    <2> QED
      BY <2>1, DfListedStays
  <1>4. CASE DfUmount
    <2>1. dfList' = dfList /\ dfList = DfClosed
      BY <1>4 DEF DfUmount
    <2> QED
      BY <2>1, DfListedStays
  <1>5. CASE DfClose
    <2>1. dfList' = DfClosed
      BY <1>5 DEF DfClose
    <2>2. << >> \in Seq(Nat) /\ -1 \in Int
      OBVIOUS
    <2> QED
      BY <2>1, <2>2 DEF DfListed, DfClosed
  <1>6. ASSUME NEW dir \in df.dirs, DfOpen(dir) PROVE DfListed'
    BY <1>6, DfOpenListed
  <1>7. ASSUME NEW room \in 1 .. DfMaxRoom, DfGetdents(room) PROVE DfListed'
    BY <1>7, DfGetdentsListed
  <1> QED
    BY <1>1, <1>2, <1>3, <1>4, <1>5, <1>6, <1>7 DEF DfNext

\* At its end a listing has returned the entries, each once if none is missing.
LEMMA DfListedSound == DfInv /\ DfListed => DeepfsSound
  <1> SUFFICES ASSUME DfInv, DfListed PROVE DeepfsSound
    OBVIOUS
  <1>1. DfTree
    BY DfInvTree
  <1>2. ASSUME dfList.end
        PROVE  /\ ToSet(dfList.seen) = DfEntries(dfList.dir)
               /\ DfComplete(dfList.dir) => IsInjective(dfList.seen)
    <2>1. dfList # DfClosed
      BY <1>2 DEF DfClosed
    <2> QED
      BY <1>2, <2>1 DEF DfListed
  <1> QED
    BY <1>1, <1>2 DEF DeepfsSound, DfEntries

-----------------------------------------------------------------------------
(* deepfs: the types of its variables.                                     *)

\* The variables of deepfs have their types: initially, and after every step.
LEMMA DfInitTypes == DfInit => DfTypeOK
  <1> SUFFICES ASSUME DfInit PROVE DfTypeOK
    OBVIOUS
  <1>1. << >> \in DfDirs /\ << >> \in Seq([dir : DfDirs, i : 0 .. DfMaxMax])
    BY DEF DfDirs
  <1>2. 0 \in 0 .. DfMaxMax - 1 /\ 0 \in 0 .. DfMaxFails /\ -1 \in Int
    BY DeepfsAssumption
  <1> QED
    BY <1>1, <1>2 DEF DfInit, DfTypeOK, DfClosed

\* What deepfs_dir_create leaves of the mount has its type.
LEMMA DfMakeTypes ==
    ASSUME DfInv, DfTypeOK, NEW dir \in DfDirs, NEW max \in 0 .. DfMaxMax - 1, DfMake(dir, max)
    PROVE  /\ df'.pc = "mounting" /\ df'.max = max /\ df'.fails \in 0 .. DfMaxFails
           /\ df'.dirs \subseteq DfDirs /\ df'.depths \subseteq df'.dirs
           /\ df'.links \subseteq df'.dirs
  <1>1. PICK depth, link \in BOOLEAN :
          LET fails == df.fails + (IF depth THEN 0 ELSE 1) + (IF link THEN 0 ELSE 1) IN
          /\ fails <= DfMaxFails
          /\ df' = [df EXCEPT !.max = max, !.dirs = @ \union {dir}, !.fails = fails,
                              !.depths = DfWithDepth(dir, depth),
                              !.links = DfWithLink(dir, link), !.pc = "mounting"]
    BY DEF DfMake
  <1>2. PICK fails : fails = df.fails + (IF depth THEN 0 ELSE 1) + (IF link THEN 0 ELSE 1)
    OBVIOUS
  <1>3. df \in DfMounts
    BY DEF DfInv
  <1>4. fails \in 0 .. DfMaxFails
    BY <1>1, <1>2, <1>3, DeepfsAssumption DEF DfMounts
  <1>5. df' = [pc |-> "mounting", max |-> max, dirs |-> df.dirs \union {dir},
               depths |-> DfWithDepth(dir, depth), links |-> DfWithLink(dir, link),
               fails |-> fails]
    BY <1>1, <1>2, <1>3 DEF DfMounts
  <1>6. /\ DfWithDepth(dir, depth) \subseteq df.dirs \union {dir}
        /\ DfWithLink(dir, link) \subseteq df.dirs \union {dir}
    BY DEF DfTypeOK, DfWithDepth, DfWithLink
  <1> QED
    BY <1>4, <1>5, <1>6 DEF DfTypeOK

LEMMA DfMountTypes ==
    ASSUME DfInv, DfTypeOK, NEW option \in DfOptions, DfMount(option)
    PROVE  DfTypeOK'
  <1>1. dfList' = dfList
    BY DEF DfMount
  <1>2. CASE DfMountFails
    BY <1>1, <1>2 DEF DfTypeOK, DfMountFails
  <1>3. CASE /\ DfOption(option) /\ DfMake(<< >>, option)
             /\ dfStack' = <<[dir |-> << >>, i |-> 0]>> /\ UNCHANGED dfOops
    <2>1. << >> \in DfDirs /\ option \in 0 .. DfMaxMax - 1 /\ 0 \in 0 .. DfMaxMax
      BY <1>3, DeepfsAssumption DEF DfOption, DfDirs
    <2>2. PICK c : c = [dir |-> << >>, i |-> 0]
      OBVIOUS
    <2>3. c \in [dir : DfDirs, i : 0 .. DfMaxMax]
      BY <2>1, <2>2
    <2>4. dfStack' \in Seq([dir : DfDirs, i : 0 .. DfMaxMax])
      BY <1>3, <2>2, <2>3
    <2>5. /\ df'.pc = "mounting" /\ df'.max = option /\ df'.fails \in 0 .. DfMaxFails
          /\ df'.dirs \subseteq DfDirs /\ df'.depths \subseteq df'.dirs
          /\ df'.links \subseteq df'.dirs
      BY <1>3, <2>1, DfMakeTypes
    <2> QED
      BY <1>1, <1>3, <2>1, <2>4, <2>5 DEF DfTypeOK
  <1> QED
    BY <1>2, <1>3 DEF DfMount

LEMMA DfReturnTypes ==
    ASSUME DfInv, DfTypeOK, DfReturn
    PROVE  DfTypeOK'
  <1>1. df \in DfMounts
    BY DEF DfInv
  <1>2. /\ df'.max = df.max /\ df'.dirs = df.dirs /\ df'.depths = df.depths
        /\ df'.links = df.links /\ df'.fails = df.fails /\ df'.pc \in {df.pc, "mounted"}
    BY <1>1 DEF DfReturn, DfMounts
  <1>3. dfStack' \in Seq([dir : DfDirs, i : 0 .. DfMaxMax])
    BY DfStackFacts DEF DfReturn, DfTypeOK
  <1> QED
    BY <1>2, <1>3 DEF DfTypeOK, DfReturn

LEMMA DfSubdirTypes ==
    ASSUME DfInv, DfTypeOK, DfSubdir
    PROVE  DfTypeOK'
  <1> DEFINE Calls == [dir : DfDirs, i : 0 .. DfMaxMax]
  <1>1. PICK n, dir, i, rest :
          /\ n = Len(dfStack) /\ dir = Last(dfStack).dir /\ i = Last(dfStack).i
          /\ rest = [dfStack EXCEPT ![Len(dfStack)].i = @ + 1]
    OBVIOUS
  <1>2. /\ n \in Nat /\ n > 0 /\ DOMAIN dfStack = 1 .. n /\ dfStack \in Seq(Calls)
        /\ dfStack[n] \in Calls /\ dfStack[n].dir = dir /\ dfStack[n].i = i
    <2>1. dfStack \in Seq(Calls) /\ dfStack # << >>
      BY DEF DfSubdir, DfTypeOK
    <2> HIDE DEF Calls
    <2> QED
      BY <1>1, <2>1, DfStackFacts
  <1>3. dir \in DfDirs /\ i \in 0 .. DfMaxMax /\ dfStack[n] = [dir |-> dir, i |-> i]
    BY <1>2
  <1>4. df.max \in 0 .. DfMaxMax - 1 /\ Len(dir) \in Nat /\ i < df.max - Len(dir)
    BY <1>1, <1>3, LenProperties DEF DfSubdir, DfNSubdirs, DfTypeOK, DfDirs
  <1>5. i + 1 \in 0 .. DfMaxMax /\ 0 \in 0 .. DfMaxMax
    BY <1>3, <1>4, DeepfsAssumption
  <1>6. rest \in Seq(Calls)
    <2>1. PICK c : c = [dir |-> dir, i |-> i + 1]
      OBVIOUS
    <2>2. c \in Calls
      BY <1>3, <1>5, <2>1
    <2>3. [dfStack[n] EXCEPT !.i = @ + 1] = c
      BY <1>3, <2>1
    <2>4. rest = [dfStack EXCEPT ![n] = c]
      BY <1>1, <2>3
    <2> HIDE DEF Calls
    <2> QED
      BY <1>1, <1>2, <2>2, <2>4, ExceptSeq
  <1>7. df \in DfMounts /\ dfList' = dfList /\ dfOops' = dfOops
    BY DEF DfInv, DfSubdir
  <1>8. CASE df.fails < DfMaxFails /\ df' = [df EXCEPT !.fails = @ + 1] /\ dfStack' = rest
    <2>1. PICK f : f = df.fails + 1
      OBVIOUS
    <2>2. f \in 0 .. DfMaxFails
      BY <1>8, <2>1, DeepfsAssumption DEF DfTypeOK
    <2>3. df' = [df EXCEPT !.fails = f]
      BY <1>8, <2>1
    <2>4. /\ df'.pc = df.pc /\ df'.max = df.max /\ df'.fails = f /\ df'.dirs = df.dirs
          /\ df'.depths = df.depths /\ df'.links = df.links
      BY <1>7, <2>3 DEF DfMounts
    <2> QED
      BY <1>6, <1>7, <1>8, <2>2, <2>4 DEF DfTypeOK
  <1>9. CASE /\ DfMake(Append(dir, i), df.max)
             /\ dfStack' = Append(rest, [dir |-> Append(dir, i), i |-> 0])
    <2>1. PICK sub, c : sub = Append(dir, i) /\ c = [dir |-> sub, i |-> 0]
      OBVIOUS
    <2>2. sub \in DfDirs /\ c \in Calls
      <3>1. sub \in DfDirs
        BY <1>3, <2>1, AppendProperties DEF DfDirs
      <3> QED
        BY <1>5, <2>1, <3>1
    <2>3. dfStack' \in Seq(Calls)
      <3>1. dfStack' = Append(rest, c)
        BY <1>9, <2>1
      <3> HIDE DEF Calls
      <3> QED
        BY <1>6, <2>2, <3>1, AppendProperties
    <2>4. /\ df'.pc = "mounting" /\ df'.max = df.max /\ df'.fails \in 0 .. DfMaxFails
          /\ df'.dirs \subseteq DfDirs /\ df'.depths \subseteq df'.dirs
          /\ df'.links \subseteq df'.dirs
      BY <1>4, <1>9, <2>1, <2>2, DfMakeTypes
    <2> QED
      BY <1>4, <1>7, <2>3, <2>4 DEF DfTypeOK
  <1> QED
    BY <1>1, <1>8, <1>9 DEF DfSubdir

LEMMA DfReadTypes ==
    ASSUME DfInv, DfListed, DfTypeOK, NEW room \in 1 .. DfMaxRoom, DfGetdents(room)
    PROVE  DfTypeOK'
  <1>1. df' = df /\ dfStack' = dfStack /\ dfOops' \in {dfOops, "depth"}
    BY DEF DfGetdents
  <1>2. DfListed'
    BY DfGetdentsListed, DeepfsAssumption
  <1>3. dfList'.dir = dfList.dir
    BY DEF DfGetdents, DfListed
  <1>4. dfList'.pos \in Int /\ dfList'.end \in BOOLEAN
    BY <1>2 DEF DfListed
  <1> QED
    BY <1>1, <1>3, <1>4 DEF DfTypeOK

LEMMA DfTypesStep ==
    ASSUME DfInv, DfListed, DfTypeOK, [DfNext]_dfVars
    PROVE  DfTypeOK'
  <1>1. CASE UNCHANGED dfVars
    BY <1>1 DEF dfVars, DfTypeOK
  <1>2. ASSUME NEW option \in DfOptions, DfMount(option) PROVE DfTypeOK'
    BY <1>2, DfMountTypes
  <1>3. CASE DfSubdir \/ DfReturn
    BY <1>3, DfSubdirTypes, DfReturnTypes
  <1>4. CASE DfUmount
    BY <1>4 DEF DfUmount, DfTypeOK, DfInv, DfMounts
  <1>5. << >> \in DfDirs /\ -1 \in Int /\ 0 \in Int
    BY DEF DfDirs
  <1>6. CASE DfClose
    BY <1>5, <1>6 DEF DfClose, DfClosed, DfTypeOK
  <1>7. ASSUME NEW dir \in df.dirs, DfOpen(dir) PROVE DfTypeOK'
    <2>1. dfList' = [dir |-> dir, pos |-> 0, seen |-> << >>, end |-> FALSE]
      BY <1>7 DEF DfOpen, DfClosed
    <2> QED
      BY <1>5, <1>7, <2>1 DEF DfOpen, DfTypeOK
  <1>8. ASSUME NEW room \in 1 .. DfMaxRoom, DfGetdents(room) PROVE DfTypeOK'
    BY <1>8, DfReadTypes
  <1> QED
    BY <1>1, <1>2, <1>3, <1>4, <1>6, <1>7, <1>8 DEF DfNext

-----------------------------------------------------------------------------
(* The drivers share nothing, so what one of them keeps stays kept.         *)

\* sleeper: for every number of threads and of writes to their files no wakeup is lost,
\* whether it comes from a write or from kthread_stop, and while the module is up nobody
\* touches a thread that is not there.
THEOREM SleepersSafe == Spec => []SleepersSound
  <1>1. Init => SlInv
    BY SlInitInv DEF Init
  <1>2. SlInv /\ [Next]_vars => SlInv'
    <2>1. [Next]_vars => [SlNext]_slVars
      BY DEF Next, vars, slVars
    <2> QED
      BY <2>1, SlInvStep
  <1>3. SlInv => SleepersSound
    BY DEF SlInv
  <1> QED
    BY <1>1, <1>2, <1>3, PTL DEF Spec

\* bufhub's clipboards: for every capacity, number of files and length of the calls the
\* data is what was written, and no position passes it but by a seek or an O_WRONLY open.
THEOREM ClipboardSafe == Spec => []ClipboardSound
  <1>1. Init => ClInv
    BY ClInitInv DEF Init
  <1>2. ClInv /\ [Next]_vars => ClInv'
    <2>1. [Next]_vars => [ClNext]_clVars
      BY DEF Next, vars, clVars
    <2> QED
      BY <2>1, ClInvStep
  <1>3. ClInv => ClipboardSound
    BY DEF ClInv
  <1> QED
    BY <1>1, <1>2, <1>3, PTL DEF Spec

\* bddtree: for every number of drivers, devices and writes no two devices have one name,
\* and unless a write was given an object that somebody else was making or destroying,
\* what is registered is what is listed, nothing freed or unlinked is used, and rmmod
\* leaves nothing behind.
THEOREM BddtreeSafe == BdSpec => [](BdTypeOK /\ BddtreeSound)
  <1>1. BdInv => BdTypeOK /\ BddtreeSound
    BY BdInvSound DEF BdInv
  <1> QED
    BY BdInitInv, BdInvStep, <1>1, PTL DEF BdSpec

\* deepfs: whatever failed when it was mounted, the tree is as it should be, and a
\* listing returns every entry of its directory, once where no subdirectory is missing.
THEOREM DeepfsSafe == Spec => []DeepfsSound
  <1>1. Init => DfInv /\ DfListed
    BY DfInitInv, DfListedClosed DEF Init, DfInit
  <1>2. DfInv /\ DfListed /\ [Next]_vars => DfInv' /\ DfListed'
    <2>1. [Next]_vars => [DfNext]_dfVars
      BY DEF Next, vars, dfVars
    <2> QED
      BY <2>1, DfInvariant, DfListedStep, DeepfsAssumption
  <1>3. DfInv /\ DfListed => DeepfsSound
    BY DfListedSound
  <1> QED
    BY <1>1, <1>2, <1>3, PTL DEF Spec

\* The drivers come up and go: for every driver of the table, whatever the number of its
\* devices and whichever step of init fails, nothing is released that is not there,
\* nothing is there without what it uses, and what is gone leaves nothing but its leaks.
THEOREM BringupSafe == Spec => []BringupSound
  <1>1. Init => BuInv
    BY BuInitInv DEF Init
  <1>2. BuInv /\ [Next]_vars => BuInv'
    <2>1. [Next]_vars => [BuNext]_bu
      BY DEF Next, vars
    <2> QED
      BY <2>1, BuInvStep
  <1>3. BuInv => BringupSound
    BY BuInvSound
  <1> QED
    BY <1>1, <1>2, <1>3, PTL DEF Spec

\* confmirror: what is true of its items, and of the one that mkdir or rmdir has in hand
\* at each of their steps, for every number of items and of open files.
THEOREM ConfmirrorInvariant == Spec => []CmInv
  <1>1. Init => CmInv
    BY CmInitInv DEF Init
  <1>2. CmInv /\ [Next]_vars => CmInv'
    <2>1. [Next]_vars => [CmNext]_cmVars
      BY DEF Next, vars, cmVars
    <2> QED
      BY <2>1, CmInvStep
  <1> QED
    BY <1>1, <1>2, PTL DEF Spec

\* Whatever the number of items and open files, the references of an item are those of
\* its holders, its memory is there as long as it has one, and no freed item is used.
THEOREM ConfmirrorSafe == Spec => []Mirrored
  <1>1. CmInv => Mirrored
    BY DEF CmInv, CmOopsOK, CmItemOK, CmCounted, Mirrored
  <1> QED
    BY <1>1, ConfmirrorInvariant, PTL

\* The variables of all drivers have their types: each driver's are part of its inductive
\* invariant, and those of deepfs follow from what a listing may return.
THEOREM TypesCorrect == Spec => []TypeOK
  <1> DEFINE Inv == /\ BuInv /\ SlInv /\ CmInv /\ ClInv
                    /\ DfInv /\ DfListed /\ DfTypeOK
  <1>1. Init => Inv
    BY BuInitInv, SlInitInv, CmInitInv, ClInitInv, DfInitInv, DfListedClosed,
       DfInitTypes DEF Init, DfInit
  <1>2. Inv /\ [Next]_vars => Inv'
    <2>1. [Next]_vars => /\ [BuNext]_bu /\ [SlNext]_slVars /\ [CmNext]_cmVars
                         /\ [ClNext]_clVars /\ [DfNext]_dfVars
      BY DEF Next, vars, slVars, cmVars, clVars, dfVars
    <2>2. ASSUME Inv, [Next]_vars PROVE BuInv' /\ SlInv' /\ CmInv' /\ ClInv'
      BY <2>1, <2>2, BuInvStep, SlInvStep, CmInvStep, ClInvStep
    <2>3. ASSUME Inv, [Next]_vars PROVE DfInv' /\ DfListed' /\ DfTypeOK'
      BY <2>1, <2>3, DfInvariant, DfListedStep, DfTypesStep, DeepfsAssumption
    <2> QED
      BY <2>2, <2>3
  <1>3. Inv => TypeOK
    BY BuInvTypes DEF TypeOK, SlInv, CmInv, ClInv
  <1> QED
    BY <1>1, <1>2, <1>3, PTL DEF Spec
=============================================================================
