----------------------------- MODULE CpipeProofs ----------------------------
(***************************************************************************)
(* Safety of cpipe for any number of threads, any kfifo size and any set   *)
(* of system calls.                                                        *)
(***************************************************************************)
EXTENDS Cpipe, SequenceTheorems, TLAPS

\* Where a thread may be, given the kind of call it runs.
Place ==
    \A t \in Task :
        /\ cpPc[t] \in {"copy", "wake", "prepare", "check", "sched", "finish"} =>
             call[t].op \in {"read", "write"}
        /\ cpPc[t] \in PollPCs => call[t].op = "poll"

\* A thread that armed itself in cpipe_wait and was not woken is on its queue.
Enrolled ==
    \A t \in Task : cpPc[t] \in {"check", "sched"} /\ t \in unwoken =>
        t \in waitq[WaitQ(call[t])]

\* The inductive invariant.
IInv ==
    /\ CpTypeOK
    /\ Place
    /\ MutexDiscipline
    /\ NoStaleWaiter
    /\ Enrolled
    /\ NoLostWakeup

\* What a system call record says of the objects the call works on.
LEMMA CallFacts ==
    ASSUME NEW c \in Calls
    PROVE  /\ c.op \in Ops /\ c.dev \in Dev /\ c.nb \in BOOLEAN
           /\ c.count \in Nat /\ c.data \in Seq(Byte)
           /\ c.op = "write" => c.count = Len(c.data)
           /\ Chan(c) \in Dev /\ Twin(c.dev) \in Dev
           /\ WaitQ(c) \in Queue /\ WakeQ(c) \in Queue
  <1>1. c \in Call
    BY CpipeAssumption
  <1>2. /\ c.op \in Ops /\ c.dev \in Dev /\ c.nb \in BOOLEAN
        /\ c.count \in Nat /\ c.data \in Seq(Byte)
    BY <1>1 DEF Call
  <1> QED
    BY <1>2, CpipeAssumption DEF Chan, Twin, Dev, WaitQ, WakeQ, Queue

\* The number of bytes a read or write can move never exceeds what the fifo
\* holds, or has room for.
LEMMA MovableBound ==
    ASSUME CpTypeOK, NEW c \in Calls
    PROVE  /\ Room(c) \in Nat
           /\ Movable(c) \in 0 .. Room(c)
           /\ Movable(c) <= c.count
           /\ MustSleep(c) => Movable(c) = 0
  <1>1. /\ Chan(c) \in Dev /\ c.count \in Nat
    BY CallFacts
  <1>2. /\ Len(fifo[Chan(c)]) \in Nat /\ Len(fifo[Chan(c)]) <= BSize /\ BSize \in Nat
    BY <1>1, CpipeAssumption, LenProperties DEF CpTypeOK
  <1> QED
    BY <1>1, <1>2 DEF Room, Movable, MustSleep

\* Moving n bytes keeps the fifo within its bounds, leaves the other fifo
\* alone, and changes the length by n.
LEMMA TransferFacts ==
    ASSUME CpTypeOK, NEW t \in Task, NEW n \in 0 .. Movable(call[t]),
           call[t].op \in {"read", "write"}, Transfer(t, n)
    PROVE  /\ fifo' \in [Dev -> Seq(Byte)] /\ \A d \in Dev : Len(fifo'[d]) <= BSize
           /\ moved' \in [Task -> Seq(Byte)]
           /\ \A d \in Dev \ {Chan(call[t])} : fifo'[d] = fifo[d]
           /\ n = 0 => fifo' = fifo
  <1> DEFINE c == call[t]
             d == Chan(c)
             source == IF c.op = "read" THEN fifo[d] ELSE c.data
             bytes == SubSeq(source, 1, n)
             rest == IF c.op = "read" THEN SubSeq(fifo[d], n + 1, Len(fifo[d]))
                                      ELSE fifo[d] \o bytes
  <1>1. /\ c \in Calls /\ d \in Dev /\ c.count \in Nat /\ c.data \in Seq(Byte)
        /\ c.op = "write" => c.count = Len(c.data)
    BY CallFacts DEF CpTypeOK
  <1>2. /\ fifo[d] \in Seq(Byte) /\ Len(fifo[d]) \in Nat /\ Len(fifo[d]) <= BSize
        /\ BSize \in Nat
    BY <1>1, CpipeAssumption, LenProperties DEF CpTypeOK
  <1>3. /\ n \in Nat
        /\ c.op = "read" => n <= Len(fifo[d])
        /\ c.op # "read" => n <= BSize - Len(fifo[d])
        /\ n <= Len(source)
    BY <1>1, <1>2, MovableBound DEF Room
  <1>4. source \in Seq(Byte) /\ \A i \in 1 .. n : source[i] \in Byte
    BY <1>1, <1>2, <1>3, LenProperties, ElementOfSeq
  <1>5. bytes \in Seq(Byte) /\ Len(bytes) = n
    BY <1>3, <1>4, SubSeqProperties
  <1>6. rest \in Seq(Byte) /\ Len(rest) <= BSize /\ (n = 0 => rest = fifo[d])
    <2>1. CASE c.op = "read"
      <3>1. rest = SubSeq(fifo[d], n + 1, Len(fifo[d]))
        BY <2>1
      <3>2. \A i \in n + 1 .. Len(fifo[d]) : fifo[d][i] \in Byte
        BY <1>2, <1>3, ElementOfSeq
      <3> HIDE DEF rest
      <3>3. rest \in Seq(Byte) /\ Len(rest) <= BSize
        BY <3>1, <3>2, <1>2, <1>3, SubSeqProperties
      <3>4. ASSUME n = 0 PROVE rest = fifo[d]
        <4>1. rest = SubSeq(fifo[d], 1, Len(fifo[d]))
          BY <3>1, <3>4
        <4> QED
          BY <4>1, <1>2, SubSeqFull
      <3> QED
        BY <3>3, <3>4
    <2>2. CASE c.op # "read"
      <3>1. rest = fifo[d] \o bytes
        BY <2>2
      <3> HIDE DEF rest, bytes
      <3>2. rest \in Seq(Byte) /\ Len(rest) = Len(fifo[d]) + Len(bytes)
        BY <3>1, <1>2, <1>5, ConcatProperties
      <3>3. n = 0 => bytes = << >>
        BY <1>5, EmptySeq
      <3>4. n = 0 => rest = fifo[d]
        BY <3>1, <3>3, <1>2, ConcatEmptySeq
      <3> QED
        BY <3>2, <3>4, <1>2, <1>3, <1>5, <2>2
    <2> QED
      BY <2>1, <2>2
  <1>7. fifo' = [fifo EXCEPT ![d] = rest] /\ moved' = [moved EXCEPT ![t] = bytes]
    BY DEF Transfer
  <1> HIDE DEF rest, bytes, d
  <1> QED
    BY <1>1, <1>5, <1>6, <1>7 DEF CpTypeOK, d

-----------------------------------------------------------------------------
\* Every thread's call is well formed, whatever it does.
LEMMA TaskCall ==
    ASSUME CpTypeOK, NEW t \in Task
    PROVE  /\ call[t] \in Calls
           /\ call[t].op \in Ops /\ call[t].dev \in Dev /\ call[t].nb \in BOOLEAN
           /\ Chan(call[t]) \in Dev /\ Twin(call[t].dev) \in Dev
           /\ WaitQ(call[t]) \in Queue /\ WakeQ(call[t]) \in Queue
  <1>1. call[t] \in Calls
    BY DEF CpTypeOK
  <1> QED
    BY <1>1, CallFacts

\* Before the first call IInv holds: no thread is in a call or on a queue.
THEOREM IInvInit == CpInit => IInv
  <1> SUFFICES ASSUME CpInit PROVE IInv
    OBVIOUS
  <1>1. Forgotten \in Calls
    BY CpipeAssumption DEF Forgotten
  <1>2. << >> \in Seq(Byte) /\ Len(<< >>) = 0
    BY EmptySeq
  <1> QED
    BY <1>1, <1>2, CpipeAssumption DEF CpInit, IInv, CpTypeOK, Place, MutexDiscipline, Holds,
       NoStaleWaiter, Enrolled, NoLostWakeup, Queue, Outcomes, CpPlaces, PollPCs, Dev

\* A read and a write meet: one wakes the queue the other sleeps on exactly when
\* both work on the same fifo, from opposite ends.
LEMMA Meet ==
    ASSUME NEW c1 \in Calls, NEW c2 \in Calls,
           c1.op \in {"read", "write"}, c2.op \in {"read", "write"}
    PROVE  WakeQ(c1) = WaitQ(c2) <=> Chan(c1) = Chan(c2) /\ c1.op # c2.op
  <1>1. c1.dev \in {0, 1} /\ c2.dev \in {0, 1}
    BY CallFacts DEF Dev
  <1> QED
    BY <1>1 DEF WakeQ, WaitQ, Chan, Twin

\* A step that changes no fifo, sends no thread to sleep and keeps every pending
\* wake-up pending loses no wake-up.
LEMMA WakeupFrame ==
    ASSUME NoLostWakeup, UNCHANGED fifo,
           \A s \in Task : cpPc'[s] = "sched" /\ s \in unwoken' =>
               cpPc[s] = "sched" /\ s \in unwoken /\ call'[s] = call[s],
           \A u \in Task : cpPc[u] = "wake" => cpPc'[u] = "wake" /\ call'[u] = call[u]
    PROVE  NoLostWakeup'
  BY DEF NoLostWakeup, WakePending, MustSleep, Room

\* Stepping from one point of poll to the next, possibly onto a queue of its
\* device, keeps everything but the types and the mutexes as it was.
LEMMA PollMove ==
    ASSUME IInv, NEW t \in Task, cpPc[t] \in PollPCs, NEW to \in PollPCs, CpGoto(t, to),
           UNCHANGED <<fifo, unwoken, call>>,
           \/ UNCHANGED waitq
           \/ \E k \in {"rq", "wq"} :
                 waitq' = [waitq EXCEPT ![<<k, call[t].dev>>] = @ \union {t}]
    PROVE  Place' /\ NoStaleWaiter' /\ Enrolled' /\ NoLostWakeup'
  <1> USE DEF IInv
  <1>1. /\ cpPc'[t] \in PollPCs /\ \A s \in Task \ {t} : cpPc'[s] = cpPc[s]
        /\ \A s \in Task : cpPc'[s] \in {"copy", "wake", "prepare", "check", "sched", "finish"}
             => cpPc'[s] = cpPc[s]
        /\ call[t].dev \in Dev
    BY TaskCall DEF CpTypeOK, CpGoto, PollPCs
  <1>2. /\ \A q \in Queue : waitq[q] \subseteq waitq'[q]
        /\ \A q \in Queue : waitq'[q] \subseteq waitq[q] \union {t}
        /\ \A q \in Queue : t \in waitq'[q] => q[2] = call[t].dev
    <2>1. \A q \in Queue : t \in waitq[q] => q[2] = call[t].dev
      BY DEF NoStaleWaiter, PollPCs
    <2>2. CASE UNCHANGED waitq
      BY <2>1, <2>2
    <2>3. CASE ~UNCHANGED waitq
      <3>1. PICK k \in {"rq", "wq"} :
              waitq' = [waitq EXCEPT ![<<k, call[t].dev>>] = @ \union {t}]
        BY <2>3
      <3>2. <<k, call[t].dev>> \in Queue /\ <<k, call[t].dev>>[2] = call[t].dev
        BY <1>1 DEF Queue
      <3>3. \A q \in Queue : waitq'[q] = IF q = <<k, call[t].dev>> THEN waitq[q] \union {t}
                                                                    ELSE waitq[q]
        BY <3>1, <3>2 DEF CpTypeOK
      <3> QED
        BY <2>1, <3>2, <3>3
    <2> QED
      BY <2>2, <2>3
  <1>3. Place'
    BY <1>1 DEF Place, PollPCs
  <1>4. NoStaleWaiter'
    BY <1>1, <1>2 DEF NoStaleWaiter, CpTypeOK
  <1>5. Enrolled'
    BY <1>1, <1>2, TaskCall DEF Enrolled
  <1>6. NoLostWakeup'
    BY <1>1, WakeupFrame DEF CpTypeOK, PollPCs, CpGoto
  <1> QED
    BY <1>3, <1>4, <1>5, <1>6

\* Every step of every path of the calls keeps IInv.
THEOREM IInvStep == IInv /\ [CpNext]_cpVars => IInv'
  <1> SUFFICES ASSUME IInv, [CpNext]_cpVars PROVE IInv'
    OBVIOUS
  <1> USE DEF IInv
  <1>1. ASSUME NEW t \in Task, Enter(t) PROVE IInv'
    <2> USE <1>1, TaskCall, CpipeAssumption DEF Enter, CpGoto, Finish
    <2>1. CpTypeOK'
      BY DEF CpTypeOK, CpPlaces, PollPCs, Outcomes
    <2>2. Place'
      BY DEF CpTypeOK, Place, PollPCs
    <2>3. MutexDiscipline'
      BY DEF CpTypeOK, MutexDiscipline, Holds, Place, PollPCs
    <2>4. NoStaleWaiter'
      BY DEF CpTypeOK, NoStaleWaiter, Place, PollPCs
    <2>5. Enrolled'
      BY DEF CpTypeOK, Enrolled, Place
    <2>6. NoLostWakeup'
      BY WakeupFrame DEF CpTypeOK, Place
    <2> QED
      BY <2>1, <2>2, <2>3, <2>4, <2>5, <2>6
  <1>2. ASSUME NEW t \in Task, Leave(t) PROVE IInv'
    <2> USE <1>2, TaskCall, CpipeAssumption DEF Leave, CpGoto, Finish
    <2>1. CpTypeOK'
      BY EmptySeq DEF CpTypeOK, CpPlaces, PollPCs, Outcomes, Forgotten
    <2>2. Place'
      BY DEF CpTypeOK, Place, PollPCs
    <2>3. MutexDiscipline'
      BY DEF CpTypeOK, MutexDiscipline, Holds, Place, PollPCs
    <2>4. NoStaleWaiter'
      BY DEF CpTypeOK, NoStaleWaiter, Place, PollPCs
    <2>5. Enrolled'
      BY DEF CpTypeOK, Enrolled, Place
    <2>6. NoLostWakeup'
      BY WakeupFrame DEF CpTypeOK, Place
    <2> QED
      BY <2>1, <2>2, <2>3, <2>4, <2>5, <2>6
  <1>3. ASSUME NEW t \in Task, Signal(t) PROVE IInv'
    <2> USE <1>3, TaskCall, CpipeAssumption DEF Signal
    <2>1. CpTypeOK'
      BY DEF CpTypeOK, CpPlaces, PollPCs, Outcomes
    <2>2. Place'
      BY DEF CpTypeOK, Place, PollPCs
    <2>3. MutexDiscipline'
      BY DEF CpTypeOK, MutexDiscipline, Holds, Place, PollPCs
    <2>4. NoStaleWaiter'
      BY DEF CpTypeOK, NoStaleWaiter, Place, PollPCs
    <2>5. Enrolled'
      BY DEF CpTypeOK, Enrolled, Place
    <2>6. NoLostWakeup'
      BY WakeupFrame DEF CpTypeOK, Place
    <2> QED
      BY <2>1, <2>2, <2>3, <2>4, <2>5, <2>6
  <1>4. ASSUME NEW t \in Task, Lock(t) PROVE IInv'
    <2> USE <1>4, TaskCall, CpipeAssumption DEF Lock, CpGoto
    <2>1. CpTypeOK'
      BY DEF CpTypeOK, CpPlaces, PollPCs, Outcomes
    <2>2. Place'
      BY DEF CpTypeOK, Place, PollPCs
    <2>3. MutexDiscipline'
      BY DEF CpTypeOK, MutexDiscipline, Holds, Place, PollPCs
    <2>4. NoStaleWaiter'
      BY DEF CpTypeOK, NoStaleWaiter, Place, PollPCs
    <2>5. Enrolled'
      BY DEF CpTypeOK, Enrolled, Place
    <2>6. NoLostWakeup'
      BY WakeupFrame DEF CpTypeOK, Place
    <2> QED
      BY <2>1, <2>2, <2>3, <2>4, <2>5, <2>6
  <1>5. ASSUME NEW t \in Task, LockFails(t) PROVE IInv'
    <2> USE <1>5, TaskCall, CpipeAssumption DEF LockFails, CpGoto, Finish
    <2>1. CpTypeOK'
      BY DEF CpTypeOK, CpPlaces, PollPCs, Outcomes
    <2>2. Place'
      BY DEF CpTypeOK, Place, PollPCs
    <2>3. MutexDiscipline'
      BY DEF CpTypeOK, MutexDiscipline, Holds, Place, PollPCs
    <2>4. NoStaleWaiter'
      BY DEF CpTypeOK, NoStaleWaiter, Place, PollPCs
    <2>5. Enrolled'
      BY DEF CpTypeOK, Enrolled, Place
    <2>6. NoLostWakeup'
      BY WakeupFrame DEF CpTypeOK, Place
    <2> QED
      BY <2>1, <2>2, <2>3, <2>4, <2>5, <2>6
  <1>6. ASSUME NEW t \in Task, WouldBlock(t) PROVE IInv'
    <2> USE <1>6, TaskCall, CpipeAssumption DEF WouldBlock, CpGoto, Finish
    <2>1. CpTypeOK'
      BY DEF CpTypeOK, CpPlaces, PollPCs, Outcomes
    <2>2. Place'
      BY DEF CpTypeOK, Place, PollPCs
    <2>3. MutexDiscipline'
      BY DEF CpTypeOK, MutexDiscipline, Holds, Place, PollPCs
    <2>4. NoStaleWaiter'
      BY DEF CpTypeOK, NoStaleWaiter, Place, PollPCs
    <2>5. Enrolled'
      BY DEF CpTypeOK, Enrolled, Place
    <2>6. NoLostWakeup'
      BY WakeupFrame DEF CpTypeOK, Place
    <2> QED
      BY <2>1, <2>2, <2>3, <2>4, <2>5, <2>6
  <1>7. ASSUME NEW t \in Task, MustWait(t) PROVE IInv'
    <2> USE <1>7, TaskCall, CpipeAssumption DEF MustWait, CpGoto
    <2>1. CpTypeOK'
      BY DEF CpTypeOK, CpPlaces, PollPCs, Outcomes
    <2>2. Place'
      BY DEF CpTypeOK, Place, PollPCs
    <2>3. MutexDiscipline'
      BY DEF CpTypeOK, MutexDiscipline, Holds, Place, PollPCs
    <2>4. NoStaleWaiter'
      BY DEF CpTypeOK, NoStaleWaiter, Place, PollPCs
    <2>5. Enrolled'
      BY DEF CpTypeOK, Enrolled, Place
    <2>6. NoLostWakeup'
      BY WakeupFrame DEF CpTypeOK, Place
    <2> QED
      BY <2>1, <2>2, <2>3, <2>4, <2>5, <2>6
  <1>8. ASSUME NEW t \in Task, Wake(t) PROVE IInv'
    <2> USE <1>8, TaskCall, CpipeAssumption DEF Wake, CpGoto, Finish
    <2>1. CpTypeOK'
      BY DEF CpTypeOK, CpPlaces, PollPCs, Outcomes
    <2>2. Place'
      BY DEF CpTypeOK, Place, PollPCs
    <2>3. MutexDiscipline'
      BY DEF CpTypeOK, MutexDiscipline, Holds, Place, PollPCs
    <2>4. NoStaleWaiter'
      BY DEF CpTypeOK, NoStaleWaiter, Place, PollPCs
    <2>5. Enrolled'
      BY DEF CpTypeOK, Enrolled, Place
    <2>6. NoLostWakeup'
      <3> SUFFICES ASSUME ~PartialFaults, NEW s \in Task, cpPc'[s] = "sched", s \in unwoken'
                   PROVE  MustSleep(call[s])' \/ WakePending(WaitQ(call[s]))'
        BY DEF NoLostWakeup
      <3>1. /\ s # t /\ cpPc[s] = "sched" /\ s \in unwoken /\ s \notin waitq[WakeQ(call[t])]
            /\ s \in waitq[WaitQ(call[s])]
        BY DEF CpTypeOK, Enrolled
      <3>2. CASE MustSleep(call[s])
        BY <3>2 DEF MustSleep, Room
      <3>3. CASE WakePending(WaitQ(call[s]))
        <4>1. PICK u \in Task : cpPc[u] = "wake" /\ WakeQ(call[u]) = WaitQ(call[s])
          BY <3>3 DEF WakePending
        <4>2. u # t /\ cpPc'[u] = "wake"
          BY <3>1, <4>1 DEF CpTypeOK
        <4> QED
          BY <4>1, <4>2 DEF WakePending
      <3> QED
        BY <3>1, <3>2, <3>3 DEF NoLostWakeup
    <2> QED
      BY <2>1, <2>2, <2>3, <2>4, <2>5, <2>6
  <1>9. ASSUME NEW t \in Task, Release(t) PROVE IInv'
    <2> USE <1>9, TaskCall, CpipeAssumption DEF Release, CpGoto, Unlock
    <2>1. CpTypeOK'
      BY DEF CpTypeOK, CpPlaces, PollPCs, Outcomes
    <2>2. Place'
      BY DEF CpTypeOK, Place, PollPCs
    <2>3. MutexDiscipline'
      BY DEF CpTypeOK, MutexDiscipline, Holds, Place, PollPCs
    <2>4. NoStaleWaiter'
      BY DEF CpTypeOK, NoStaleWaiter, Place, PollPCs
    <2>5. Enrolled'
      BY DEF CpTypeOK, Enrolled, Place
    <2>6. NoLostWakeup'
      BY WakeupFrame DEF CpTypeOK, Place
    <2> QED
      BY <2>1, <2>2, <2>3, <2>4, <2>5, <2>6
  <1>10. ASSUME NEW t \in Task, Avail(t) PROVE IInv'
    <2> USE <1>10, TaskCall, CpipeAssumption DEF Avail, CpGoto, Finish
    <2>1. CpTypeOK'
      BY DEF CpTypeOK, CpPlaces, PollPCs, Outcomes
    <2>2. Place'
      BY DEF CpTypeOK, Place, PollPCs
    <2>3. MutexDiscipline'
      BY DEF CpTypeOK, MutexDiscipline, Holds, Place, PollPCs
    <2>4. NoStaleWaiter'
      BY DEF CpTypeOK, NoStaleWaiter, Place, PollPCs
    <2>5. Enrolled'
      BY DEF CpTypeOK, Enrolled, Place
    <2>6. NoLostWakeup'
      BY WakeupFrame DEF CpTypeOK, Place
    <2> QED
      BY <2>1, <2>2, <2>3, <2>4, <2>5, <2>6
  <1>11. ASSUME NEW t \in Task, Prepare(t) PROVE IInv'
    <2> USE <1>11, TaskCall, CpipeAssumption DEF Prepare, CpGoto
    <2>1. CpTypeOK'
      BY DEF CpTypeOK, CpPlaces, PollPCs, Outcomes
    <2>2. Place'
      BY DEF CpTypeOK, Place, PollPCs
    <2>3. MutexDiscipline'
      BY DEF CpTypeOK, MutexDiscipline, Holds, Place, PollPCs
    <2>4. NoStaleWaiter'
      BY DEF CpTypeOK, NoStaleWaiter, Place, PollPCs
    <2>5. Enrolled'
      BY DEF CpTypeOK, Enrolled, Place
    <2>6. NoLostWakeup'
      BY WakeupFrame DEF CpTypeOK, Place
    <2> QED
      BY <2>1, <2>2, <2>3, <2>4, <2>5, <2>6
  <1>12. ASSUME NEW t \in Task, Check(t) PROVE IInv'
    <2> USE <1>12, TaskCall, CpipeAssumption DEF Check, CpGoto, Unlock
    <2>1. CpTypeOK'
      BY DEF CpTypeOK, CpPlaces, PollPCs, Outcomes
    <2>2. Place'
      BY DEF CpTypeOK, Place, PollPCs
    <2>3. MutexDiscipline'
      BY DEF CpTypeOK, MutexDiscipline, Holds, Place, PollPCs
    <2>4. NoStaleWaiter'
      BY DEF CpTypeOK, NoStaleWaiter, Place, PollPCs
    <2>5. Enrolled'
      BY DEF CpTypeOK, Enrolled, Place
    <2>6. NoLostWakeup'
      <3> SUFFICES ASSUME ~PartialFaults, NEW s \in Task, cpPc'[s] = "sched", s \in unwoken'
                   PROVE  MustSleep(call[s])' \/ WakePending(WaitQ(call[s]))'
        BY DEF NoLostWakeup
      <3>1. CASE s = t
        BY <3>1 DEF CpTypeOK, MustSleep, Room
      <3>2. CASE s # t
        <4>1. cpPc[s] = "sched" /\ s \in unwoken
          BY <3>2 DEF CpTypeOK
        <4>2. \A u \in Task : cpPc[u] = "wake" => cpPc'[u] = "wake"
          BY DEF CpTypeOK
        <4> QED
          BY <4>1, <4>2 DEF NoLostWakeup, MustSleep, Room, WakePending
      <3> QED
        BY <3>1, <3>2
    <2> QED
      BY <2>1, <2>2, <2>3, <2>4, <2>5, <2>6
  <1>13. ASSUME NEW t \in Task, Schedule(t) PROVE IInv'
    <2> USE <1>13, TaskCall, CpipeAssumption DEF Schedule, CpGoto
    <2>1. CpTypeOK'
      BY DEF CpTypeOK, CpPlaces, PollPCs, Outcomes
    <2>2. Place'
      BY DEF CpTypeOK, Place, PollPCs
    <2>3. MutexDiscipline'
      BY DEF CpTypeOK, MutexDiscipline, Holds, Place, PollPCs
    <2>4. NoStaleWaiter'
      BY DEF CpTypeOK, NoStaleWaiter, Place, PollPCs
    <2>5. Enrolled'
      BY DEF CpTypeOK, Enrolled, Place
    <2>6. NoLostWakeup'
      BY WakeupFrame DEF CpTypeOK, Place
    <2> QED
      BY <2>1, <2>2, <2>3, <2>4, <2>5, <2>6
  <1>14. ASSUME NEW t \in Task, Interrupted(t) PROVE IInv'
    <2> USE <1>14, TaskCall, CpipeAssumption DEF Interrupted, LeaveQueue, CpGoto, Finish
    <2>1. CpTypeOK'
      BY DEF CpTypeOK, CpPlaces, PollPCs, Outcomes
    <2>2. Place'
      BY DEF CpTypeOK, Place, PollPCs
    <2>3. MutexDiscipline'
      BY DEF CpTypeOK, MutexDiscipline, Holds, Place, PollPCs
    <2>4. NoStaleWaiter'
      BY DEF CpTypeOK, NoStaleWaiter, Place, PollPCs
    <2>5. Enrolled'
      BY DEF CpTypeOK, Enrolled, Place
    <2>6. NoLostWakeup'
      BY WakeupFrame DEF CpTypeOK, Place
    <2> QED
      BY <2>1, <2>2, <2>3, <2>4, <2>5, <2>6
  <1>15. ASSUME NEW t \in Task, StartOver(t) PROVE IInv'
    <2> USE <1>15, TaskCall, CpipeAssumption DEF StartOver, LeaveQueue, CpGoto
    <2>1. CpTypeOK'
      BY DEF CpTypeOK, CpPlaces, PollPCs, Outcomes
    <2>2. Place'
      BY DEF CpTypeOK, Place, PollPCs
    <2>3. MutexDiscipline'
      BY DEF CpTypeOK, MutexDiscipline, Holds, Place, PollPCs
    <2>4. NoStaleWaiter'
      BY DEF CpTypeOK, NoStaleWaiter, Place, PollPCs
    <2>5. Enrolled'
      BY DEF CpTypeOK, Enrolled, Place
    <2>6. NoLostWakeup'
      BY WakeupFrame DEF CpTypeOK, Place
    <2> QED
      BY <2>1, <2>2, <2>3, <2>4, <2>5, <2>6
  <1>16. ASSUME NEW t \in Task, PollIn(t) PROVE IInv'
    <2> USE TaskCall, CpipeAssumption DEF PollPCs
    <2> DEFINE d == call[t].dev
    <2>1. CASE TryLock(t, d, "tryin", "testin", "enrolin")
      <3>1. CASE owner[d] = NoTask
        <4>1. owner' = [owner EXCEPT ![d] = t] /\ CpGoto(t, "testin")
          BY <2>1, <3>1 DEF TryLock
        <4>2. CpTypeOK'
          BY <2>1, <4>1 DEF TryLock, CpTypeOK, CpPlaces, CpGoto
        <4>3. MutexDiscipline'
          BY <2>1, <3>1, <4>1 DEF TryLock, CpTypeOK, MutexDiscipline, Holds, Place, CpGoto
        <4> QED
          BY <2>1, <4>1, <4>2, <4>3, PollMove DEF TryLock
      <3>2. CASE owner[d] # NoTask
        <4>1. owner' = owner /\ CpGoto(t, "enrolin")
          BY <2>1, <3>2 DEF TryLock
        <4>2. CpTypeOK'
          BY <2>1, <4>1 DEF TryLock, CpTypeOK, CpPlaces, CpGoto
        <4>3. MutexDiscipline'
          BY <2>1, <4>1 DEF TryLock, CpTypeOK, MutexDiscipline, Holds, Place, CpGoto
        <4> QED
          BY <2>1, <4>1, <4>2, <4>3, PollMove DEF TryLock
      <3> QED
        BY <3>1, <3>2
    <2>2. CASE Test(t, d, "testin", "enrolin", fifo[call[t].dev] # << >>, "IN")
      <3>1. CpTypeOK'
        BY <2>2 DEF Test, CpTypeOK, CpPlaces, CpGoto, Unlock
      <3>2. MutexDiscipline'
        BY <2>2 DEF Test, CpTypeOK, MutexDiscipline, Holds, Place, CpGoto, Unlock
      <3> QED
        BY <2>2, <3>1, <3>2, PollMove DEF Test
    <2>3. CASE Enrol(t, "enrolin", "rq", "tryout")
      <3>1. CpTypeOK'
        BY <2>3 DEF Enrol, CpTypeOK, CpPlaces, CpGoto
      <3>2. MutexDiscipline'
        BY <2>3 DEF Enrol, CpTypeOK, MutexDiscipline, Holds, Place, CpGoto
      <3> QED
        BY <2>3, <3>1, <3>2, PollMove DEF Enrol
    <2> QED
      BY <1>16, <2>1, <2>2, <2>3 DEF PollIn
  <1>17. ASSUME NEW t \in Task, PollOut(t) PROVE IInv'
    <2> USE TaskCall, CpipeAssumption DEF PollPCs
    <2> DEFINE d == Twin(call[t].dev)
    <2>1. CASE TryLock(t, d, "tryout", "testout", "enrolout")
      <3>1. CASE owner[d] = NoTask
        <4>1. owner' = [owner EXCEPT ![d] = t] /\ CpGoto(t, "testout")
          BY <2>1, <3>1 DEF TryLock
        <4>2. CpTypeOK'
          BY <2>1, <4>1 DEF TryLock, CpTypeOK, CpPlaces, CpGoto
        <4>3. MutexDiscipline'
          BY <2>1, <3>1, <4>1 DEF TryLock, CpTypeOK, MutexDiscipline, Holds, Place, CpGoto
        <4> QED
          BY <2>1, <4>1, <4>2, <4>3, PollMove DEF TryLock
      <3>2. CASE owner[d] # NoTask
        <4>1. owner' = owner /\ CpGoto(t, "enrolout")
          BY <2>1, <3>2 DEF TryLock
        <4>2. CpTypeOK'
          BY <2>1, <4>1 DEF TryLock, CpTypeOK, CpPlaces, CpGoto
        <4>3. MutexDiscipline'
          BY <2>1, <4>1 DEF TryLock, CpTypeOK, MutexDiscipline, Holds, Place, CpGoto
        <4> QED
          BY <2>1, <4>1, <4>2, <4>3, PollMove DEF TryLock
      <3> QED
        BY <3>1, <3>2
    <2>2. CASE Test(t, d, "testout", "enrolout", Len(fifo[Twin(call[t].dev)]) < BSize, "OUT")
      <3>1. CpTypeOK'
        BY <2>2 DEF Test, CpTypeOK, CpPlaces, CpGoto, Unlock
      <3>2. MutexDiscipline'
        BY <2>2 DEF Test, CpTypeOK, MutexDiscipline, Holds, Place, CpGoto, Unlock
      <3> QED
        BY <2>2, <3>1, <3>2, PollMove DEF Test
    <2>3. CASE Enrol(t, "enrolout", "wq", "pollwait")
      <3>1. CpTypeOK'
        BY <2>3 DEF Enrol, CpTypeOK, CpPlaces, CpGoto
      <3>2. MutexDiscipline'
        BY <2>3 DEF Enrol, CpTypeOK, MutexDiscipline, Holds, Place, CpGoto
      <3> QED
        BY <2>3, <3>1, <3>2, PollMove DEF Enrol
    <2> QED
      BY <1>17, <2>1, <2>2, <2>3 DEF PollOut
  <1>18. ASSUME NEW t \in Task, PollReturn(t) PROVE IInv'
    <2> USE <1>18, TaskCall, CpipeAssumption DEF PollReturn, CpGoto, Finish
    <2>1. CpTypeOK'
      BY DEF CpTypeOK, CpPlaces, PollPCs, Outcomes
    <2>2. Place'
      BY DEF CpTypeOK, Place, PollPCs
    <2>3. MutexDiscipline'
      BY DEF CpTypeOK, MutexDiscipline, Holds, Place, PollPCs
    <2>4. NoStaleWaiter'
      BY DEF CpTypeOK, NoStaleWaiter, Place, PollPCs
    <2>5. Enrolled'
      BY DEF CpTypeOK, Enrolled, Place
    <2>6. NoLostWakeup'
      BY WakeupFrame DEF CpTypeOK, Place
    <2> QED
      BY <2>1, <2>2, <2>3, <2>4, <2>5, <2>6
  <1>19. ASSUME NEW t \in Task, PollAgain(t) PROVE IInv'
    <2> USE <1>19, TaskCall, CpipeAssumption DEF PollAgain, CpGoto
    <2>1. CpTypeOK'
      BY DEF CpTypeOK, CpPlaces, PollPCs, Outcomes
    <2>2. Place'
      BY DEF CpTypeOK, Place, PollPCs
    <2>3. MutexDiscipline'
      BY DEF CpTypeOK, MutexDiscipline, Holds, Place, PollPCs
    <2>4. NoStaleWaiter'
      BY DEF CpTypeOK, NoStaleWaiter, Place, PollPCs
    <2>5. Enrolled'
      BY DEF CpTypeOK, Enrolled, Place
    <2>6. NoLostWakeup'
      BY WakeupFrame DEF CpTypeOK, Place
    <2> QED
      BY <2>1, <2>2, <2>3, <2>4, <2>5, <2>6
  <1>20. ASSUME NEW t \in Task, Copied(t) PROVE IInv'
    <2> DEFINE n == Movable(call[t])
    <2> USE TaskCall, CpipeAssumption DEF CpGoto
    <2>1. /\ cpPc[t] = "copy" /\ n > 0 /\ call[t].op \in {"read", "write"} /\ n \in 0 .. n
          /\ ~MustSleep(call[t])
      BY <1>20, MovableBound DEF Copied, Place
    <2>2. /\ fifo' \in [Dev -> Seq(Byte)] /\ \A d \in Dev : Len(fifo'[d]) <= BSize
          /\ moved' \in [Task -> Seq(Byte)]
          /\ \A d \in Dev \ {Chan(call[t])} : fifo'[d] = fifo[d]
      BY <1>20, <2>1, TransferFacts DEF Copied
    <2>3. CpTypeOK'
      BY <1>20, <2>2 DEF Copied, CpTypeOK, CpPlaces
    <2>4. Place' /\ Enrolled'
      BY <1>20, <2>1 DEF Copied, CpTypeOK, Place, Enrolled, PollPCs
    <2>5. MutexDiscipline'
      BY <1>20 DEF Copied, CpTypeOK, MutexDiscipline, Holds
    <2>6. NoStaleWaiter'
      BY <1>20 DEF Copied, CpTypeOK, NoStaleWaiter, PollPCs
    <2>7. NoLostWakeup'
      <3> SUFFICES ASSUME ~PartialFaults, NEW s \in Task, cpPc'[s] = "sched", s \in unwoken'
                   PROVE  MustSleep(call[s])' \/ WakePending(WaitQ(call[s]))'
        BY <1>20 DEF NoLostWakeup, Copied
      <3>1. /\ s # t /\ cpPc[s] = "sched" /\ s \in unwoken /\ UNCHANGED call
            /\ call[s].op \in {"read", "write"}
            /\ cpPc'[t] = "wake" /\ \A u \in Task \ {t} : cpPc'[u] = cpPc[u]
        BY <1>20 DEF Copied, CpTypeOK, Place
      <3>2. MustSleep(call[s]) \/ WakePending(WaitQ(call[s]))
        BY <3>1 DEF NoLostWakeup
      <3>3. CASE Chan(call[s]) # Chan(call[t])
        <4>1. MustSleep(call[s]) => MustSleep(call[s])'
          BY <3>1, <3>3, <2>2 DEF MustSleep, Room
        <4>2. WakePending(WaitQ(call[s])) => WakePending(WaitQ(call[s]))'
          BY <3>1, <2>1 DEF WakePending
        <4> QED
          BY <3>2, <4>1, <4>2
      <3>4. CASE Chan(call[s]) = Chan(call[t])
        \* The mutex is ours, so nobody else is about to wake s: s really had to
        \* sleep, which only the opposite kind of call can end.
        <4>1. ~WakePending(WaitQ(call[s]))
          <5> SUFFICES ASSUME NEW u \in Task, cpPc[u] = "wake",
                              WakeQ(call[u]) = WaitQ(call[s])
                       PROVE  FALSE
            BY DEF WakePending
          <5>1. call[u].op \in {"read", "write"} /\ Chan(call[u]) = Chan(call[t])
            BY <3>1, <3>4, Meet DEF Place
          <5>2. owner[Chan(call[t])] = t /\ owner[Chan(call[t])] = u
            BY <2>1, <5>1 DEF MutexDiscipline, Holds
          <5> QED
            BY <2>1, <5>2
        <4>2. call[s].op # call[t].op
          BY <2>1, <3>1, <3>2, <3>4, <4>1 DEF MustSleep, Room
        <4>3. WakeQ(call[t]) = WaitQ(call[s])
          BY <2>1, <3>1, <3>4, <4>2, Meet
        <4> QED
          BY <3>1, <4>3 DEF WakePending
      <3> QED
        BY <3>3, <3>4
    <2> QED
      BY <2>3, <2>4, <2>5, <2>6, <2>7
  <1>21. ASSUME NEW t \in Task, CopyFaults(t) PROVE IInv'
    <2> USE TaskCall, CpipeAssumption DEF CpGoto, Finish
    <2>1. PICK n \in 0 .. (Movable(call[t]) - 1) : (n > 0 => PartialFaults) /\ Transfer(t, n)
      BY <1>21 DEF CopyFaults
    <2>2. /\ cpPc[t] = "copy" /\ call[t].op \in {"read", "write"}
          /\ n \in 0 .. Movable(call[t])
      BY <1>21, <2>1, MovableBound DEF CopyFaults, Place
    <2>3. /\ fifo' \in [Dev -> Seq(Byte)] /\ \A d \in Dev : Len(fifo'[d]) <= BSize
          /\ moved' \in [Task -> Seq(Byte)] /\ (n = 0 => fifo' = fifo)
      BY <2>1, <2>2, TransferFacts
    <2>4. CpTypeOK'
      BY <1>21, <2>3 DEF CopyFaults, CpTypeOK, CpPlaces, Outcomes
    <2>5. Place' /\ Enrolled'
      BY <1>21 DEF CopyFaults, CpTypeOK, Place, Enrolled, PollPCs
    <2>6. MutexDiscipline'
      BY <1>21 DEF CopyFaults, CpTypeOK, MutexDiscipline, Holds
    <2>7. NoStaleWaiter'
      BY <1>21 DEF CopyFaults, CpTypeOK, NoStaleWaiter, PollPCs
    <2>8. NoLostWakeup'
      <3>1. CASE PartialFaults
        BY <3>1 DEF NoLostWakeup
      <3>2. CASE ~PartialFaults
        <4>1. fifo' = fifo
          BY <2>1, <2>2, <2>3, <3>2, MovableBound
        <4> QED
          BY <1>21, <4>1, WakeupFrame DEF CopyFaults, CpTypeOK
      <3> QED
        BY <3>1, <3>2
    <2> QED
      BY <2>4, <2>5, <2>6, <2>7, <2>8
  <1>22. CASE UNCHANGED cpVars
    BY <1>22 DEF cpVars, CpTypeOK, Place, MutexDiscipline, Holds, NoStaleWaiter, Enrolled,
       NoLostWakeup, MustSleep, Room, WakePending
  <1> QED
    BY <1>1, <1>2, <1>3, <1>4, <1>5, <1>6, <1>7, <1>8, <1>9, <1>10, <1>11, <1>12, <1>13,
       <1>14, <1>15, <1>16, <1>17, <1>18, <1>19, <1>20, <1>21, <1>22
       DEF CpNext, Step, Poll

\* The inductive invariant holds in every state that cpipe reaches.
THEOREM Invariance == CpSpec => []IInv
  BY IInvInit, IInvStep, PTL DEF CpSpec

\* No kfifo overflows and every variable keeps its type.
THEOREM TypeCorrect == CpSpec => []CpTypeOK
  BY Invariance, PTL DEF IInv

\* The mutex is held exactly between taking and releasing it.
THEOREM MutexCorrect == CpSpec => []MutexDiscipline
  BY Invariance, PTL DEF IInv

\* No wait entry outlives the call that owns it.
THEOREM NoStaleWaiterEver == CpSpec => []NoStaleWaiter
  BY Invariance, PTL DEF IInv

\* No reader sleeps on bytes and no writer on room that nobody will announce.
THEOREM NoWakeupLost == CpSpec => []NoLostWakeup
  BY Invariance, PTL DEF IInv

-----------------------------------------------------------------------------
(* Cpipe implements Pipe.                                                  *)

\* What a call has to answer at each point of its code, and what it has moved.
\* Only calls that may block get as far as the wait queue.
Answers ==
    \A t \in Task :
        /\ cpPc[t] = "idle" <=> ret[t] = "idle"
        /\ cpPc[t] \in {"unlock", "done"} <=> ret[t] \in Outcomes
        /\ cpPc[t] \notin {"wake", "unlock", "done"} => moved[t] = << >>
        /\ cpPc[t] \in {"prepare", "check", "sched", "finish"} => ~call[t].nb
        /\ cpPc[t] = "avail" => call[t].op \notin {"read", "write"}

\* Before the first call no answer is under way.
THEOREM AnswersInit == CpInit => Answers
  <1> SUFFICES ASSUME CpInit, NEW t \in Task
               PROVE  cpPc[t] = "idle" /\ ret[t] = "idle" /\ moved[t] = << >>
    BY DEF Answers, Outcomes
  <1> QED
    BY DEF CpInit

\* What holds of the other threads holds after a step of t, for they are as before.
LEMMA AnswersStep == IInv /\ Answers /\ [CpNext]_cpVars => Answers'
  <1> SUFFICES ASSUME IInv, Answers, [CpNext]_cpVars PROVE Answers'
    OBVIOUS
  <1> USE DEF IInv, CpTypeOK, Answers, CpGoto, Finish
  <1>1. ASSUME NEW t \in Task, Enter(t) \/ Leave(t) \/ Signal(t) \/ Lock(t) PROVE Answers'
    <2>1. CASE Enter(t)
      BY <2>1 DEF Enter, Outcomes
    <2>2. CASE Leave(t)
      BY <2>2 DEF Leave, Outcomes
    <2>3. CASE Signal(t)
      BY <2>3 DEF Signal
    <2>4. CASE Lock(t)
      BY <2>4 DEF Lock
    <2> QED
      BY <1>1, <2>1, <2>2, <2>3, <2>4
  <1>2. ASSUME NEW t \in Task, LockFails(t) \/ WouldBlock(t) \/ Wake(t) \/ Release(t) \/ Avail(t)
        PROVE  Answers'
    <2>1. CASE LockFails(t)
      BY <2>1 DEF LockFails, Outcomes
    <2>2. CASE WouldBlock(t)
      BY <2>2 DEF WouldBlock, Outcomes
    <2>3. CASE Wake(t)
      BY <2>3 DEF Wake, Outcomes
    <2>4. CASE Release(t)
      BY <2>4 DEF Release
    <2>5. CASE Avail(t)
      BY <2>5 DEF Avail, Outcomes
    <2> QED
      BY <1>2, <2>1, <2>2, <2>3, <2>4, <2>5
  <1>3. ASSUME NEW t \in Task, MustWait(t) \/ Prepare(t) \/ Check(t) \/ Schedule(t)
        PROVE  Answers'
    BY <1>3 DEF MustWait, Prepare, Check, Schedule
  <1>4. ASSUME NEW t \in Task, Interrupted(t) \/ StartOver(t) PROVE Answers'
    BY <1>4 DEF Interrupted, StartOver, LeaveQueue, Outcomes
  <1>5. ASSUME NEW t \in Task, Poll(t) PROVE Answers'
    <2>1. CASE PollIn(t) \/ PollOut(t)
      BY <2>1 DEF PollIn, PollOut, TryLock, Test, Enrol
    <2>2. CASE PollReturn(t)
      BY <2>2 DEF PollReturn, Outcomes
    <2>3. CASE PollAgain(t)
      BY <2>3 DEF PollAgain
    <2> QED
      BY <1>5, <2>1, <2>2, <2>3 DEF Poll
  <1>6. ASSUME NEW t \in Task, Copied(t) PROVE Answers'
    BY <1>6 DEF Copied, Transfer
  <1>7. ASSUME NEW t \in Task, CopyFaults(t) PROVE Answers'
    BY <1>7 DEF CopyFaults, Transfer, Outcomes
  <1>8. CASE UNCHANGED cpVars
    BY <1>8 DEF cpVars
  <1> QED
    BY <1>1, <1>2, <1>3, <1>4, <1>5, <1>6, <1>7, <1>8 DEF CpNext, Step

\* A step on which a call's answer, its bytes and the fifos stay is invisible to Pipe.
LEMMA Stutters ==
    ASSUME UNCHANGED <<fifo, call, ret, moved>>,
           \A s \in Task : cpPc[s] = "wake" <=> cpPc'[s] = "wake"
    PROVE  UNCHANGED Abstract!pipeVars
  BY DEF Abstract!pipeVars

\* The bytes move at once, and the answer is settled: Succeed.
LEMMA CopiedSucceeds ==
    ASSUME IInv, Answers, NEW t \in Task, Copied(t)
    PROVE  Abstract!Succeed(t)
  <1> DEFINE c == call[t]
             d == Chan(c)
             n == Movable(c)
  <1> USE DEF IInv
  <1>1. /\ cpPc[t] = "copy" /\ c.op \in {"read", "write"} /\ c \in Calls /\ d \in Dev
        /\ n > 0 /\ Transfer(t, n) /\ ret[t] = "busy" /\ moved[t] = << >>
    BY TaskCall DEF Copied, Place, Answers, CpTypeOK, Outcomes
  <1>2. /\ Len(fifo[d]) \in Nat /\ Len(fifo[d]) <= BSize /\ BSize \in Nat /\ c.count \in Nat
        /\ n = IF c.count < Room(c) THEN c.count ELSE Room(c)
    BY <1>1, CallFacts, CpipeAssumption, LenProperties DEF CpTypeOK, Movable
  <1>3. n \in 1 .. BSize
    BY <1>1, <1>2 DEF Room
  <1>4. CASE c.op = "read"
    <2>1. d = c.dev /\ (n = c.count \/ (n < c.count /\ n = Len(fifo[d]))) /\ n <= Len(fifo[d])
      BY <1>2, <1>4 DEF Chan, Room
    <2>2. Abstract!Receive(t, n)
      BY <1>1, <1>4, <2>1 DEF Transfer, Abstract!Receive
    <2> QED
      BY <1>1, <1>3, <2>2 DEF Copied, CpGoto, CpTypeOK, Abstract!Succeed
  <1>5. CASE c.op = "write"
    <2>1. /\ d = 1 - c.dev /\ (n = c.count \/ (n < c.count /\ n = BSize - Len(fifo[d])))
          /\ Len(fifo[d]) + n <= BSize
      BY <1>2, <1>5, SMTT(30) DEF Chan, Twin, Room
    <2>2. Abstract!Transmit(t, n)
      BY <1>1, <1>5, <2>1 DEF Transfer, Abstract!Transmit, CpTypeOK
    <2> QED
      BY <1>1, <1>3, <2>2 DEF Copied, CpGoto, CpTypeOK, Abstract!Succeed
  <1> QED
    BY <1>1, <1>4, <1>5

\* The answers that Pipe sees, when t settles its own.
LEMMA Settled ==
    ASSUME CpTypeOK, NEW t \in Task, cpPc[t] # "wake", NEW e, Finish(t, e),
           NEW to \in CpPlaces \ {"wake"}, CpGoto(t, to)
    PROVE  [s \in Task |-> IF cpPc'[s] = "wake" THEN "OK" ELSE ret'[s]]
             = [[s \in Task |-> IF cpPc[s] = "wake" THEN "OK" ELSE ret[s]] EXCEPT ![t] = e]
  BY DEF CpTypeOK, Finish, CpGoto

\* A call that gives up has moved nothing: Fail.
LEMMA GivesUp ==
    ASSUME IInv, Answers, NEW t \in Task, cpPc[t] \notin {"idle", "wake", "unlock", "done"},
           NEW e \in Outcomes \ {"OK"}, Finish(t, e), UNCHANGED <<fifo, call, moved>>,
           e = "EAGAIN" => call[t].nb, e = "ERESTARTSYS" => ~call[t].nb \/ call[t].op = "poll",
           NEW to \in CpPlaces \ {"wake"}, CpGoto(t, to)
    PROVE  Abstract!Fail(t)
  <1>1. ret[t] = "busy"
    BY DEF IInv, CpTypeOK, Answers, Outcomes
  <1> DEFINE answer == [s \in Task |-> IF cpPc[s] = "wake" THEN "OK" ELSE ret[s]]
  <1>2. answer[t] = "busy" /\ answer' = [answer EXCEPT ![t] = e]
    BY <1>1, Settled DEF IInv
  <1>3. e \in Abstract!Outcomes \ {"OK"}
    BY DEF Outcomes, Abstract!Outcomes
  <1> HIDE DEF answer
  <1>4. \E f \in Abstract!Outcomes \ {"OK"} :
           /\ f = "EAGAIN" => call[t].nb
           /\ f = "ERESTARTSYS" => ~call[t].nb \/ call[t].op = "poll"
           /\ answer' = [answer EXCEPT ![t] = f]
    BY <1>2, <1>3
  <1> QED
    BY <1>2, <1>4 DEF answer, Abstract!Fail

\* A fault before the first byte leaves the fifo and the call's bytes as they were.
LEMMA NothingMoved ==
    ASSUME IInv, Answers, NEW t \in Task, cpPc[t] = "copy", Transfer(t, 0)
    PROVE  UNCHANGED <<fifo, moved>>
  <1> USE DEF IInv
  <1>1. /\ call[t].op \in {"read", "write"} /\ moved[t] = << >>
        /\ 0 \in 0 .. Movable(call[t])
    BY TaskCall, MovableBound DEF Place, Answers
  <1>2. fifo' = fifo
    BY <1>1, TransferFacts
  <1>3. moved' = [moved EXCEPT ![t] = << >>]
    <2> DEFINE source == IF call[t].op = "read" THEN fifo[Chan(call[t])] ELSE call[t].data
    <2>1. moved' = [moved EXCEPT ![t] = SubSeq(source, 1, 0)]
      BY DEF Transfer
    <2> HIDE DEF source
    <2>2. SubSeq(source, 1, 0) = << >>
      BY SubSeqEmpty
    <2> QED
      BY <2>1, <2>2
  <1> QED
    BY <1>1, <1>2, <1>3 DEF CpTypeOK

\* Calls that move no bytes, a poll or an ioctl, take effect when they answer OK.
LEMMA AnswersOK ==
    ASSUME IInv, Answers, NEW t \in Task, cpPc[t] \in PollPCs \union {"avail"},
           Finish(t, "OK"), UNCHANGED <<fifo, call, moved>>,
           NEW to \in CpPlaces \ {"wake"}, CpGoto(t, to)
    PROVE  Abstract!Succeed(t)
  <1>1. ret[t] = "busy" /\ call[t].op \notin {"read", "write"}
    BY DEF IInv, CpTypeOK, Place, Answers, Outcomes, PollPCs
  <1>2. cpPc[t] # "wake"
    BY DEF PollPCs
  <1> QED
    BY <1>1, <1>2, Settled DEF IInv, Abstract!Succeed

\* Every step of cpipe is a step of Pipe or invisible to it.
LEMMA Simulation ==
    ASSUME ~PartialFaults, IInv, Answers, [CpNext]_cpVars
    PROVE  [Abstract!PipeNext]_(Abstract!pipeVars)
  <1> USE DEF IInv, CpPlaces, PollPCs, Outcomes
  <1>1. ASSUME NEW t \in Task, Enter(t) PROVE Abstract!Invoke(t)
    <2>1. PICK c \in Calls : /\ call' = [call EXCEPT ![t] = c]
                             /\ CpGoto(t, IF c.op = "poll" THEN "tryin" ELSE "lock")
      BY <1>1 DEF Enter
    <2>2. cpPc[t] = "idle" /\ ret[t] = "idle" /\ Finish(t, "busy") /\ UNCHANGED <<fifo, moved>>
      BY <1>1 DEF Enter, Answers
    <2> QED
      BY <2>1, <2>2, Settled DEF Abstract!Invoke
  <1>2. ASSUME NEW t \in Task, Leave(t) PROVE Abstract!Return(t)
    <2>1. Forgotten \in Calls
      BY CpipeAssumption DEF Forgotten
    <2> QED
      BY <1>2, <2>1 DEF Leave, CpGoto, Finish, CpTypeOK, Answers, Abstract!Return, Abstract!Outcomes
  <1>3. ASSUME NEW t \in Task,
               Signal(t) \/ Lock(t) \/ MustWait(t) \/ Release(t) \/ Prepare(t) \/ Check(t)
        PROVE  UNCHANGED Abstract!pipeVars
    BY <1>3, Stutters DEF Signal, Lock, MustWait, Release, Prepare, Check, CpGoto, CpTypeOK
  <1>4. ASSUME NEW t \in Task, Schedule(t) \/ StartOver(t) \/ PollIn(t) \/ PollOut(t) \/ PollAgain(t)
        PROVE  UNCHANGED Abstract!pipeVars
    BY <1>4, Stutters DEF Schedule, StartOver, LeaveQueue, PollIn, PollOut, PollAgain, TryLock,
                          Test, Enrol, CpGoto, CpTypeOK
  <1>5. ASSUME NEW t \in Task, Wake(t) PROVE UNCHANGED Abstract!pipeVars
    BY <1>5 DEF Wake, CpGoto, Finish, CpTypeOK, Abstract!pipeVars
  <1>6. ASSUME NEW t \in Task, Copied(t) PROVE Abstract!Succeed(t)
    BY <1>6, CopiedSucceeds
  <1>7. ASSUME NEW t \in Task, LockFails(t) \/ WouldBlock(t) \/ Interrupted(t)
        PROVE  Abstract!Fail(t)
    <2>1. CASE LockFails(t)
      BY <2>1, GivesUp DEF LockFails
    <2>2. CASE WouldBlock(t)
      BY <2>2, GivesUp DEF WouldBlock
    <2>3. CASE Interrupted(t)
      <3>1. ~call[t].nb
        BY <2>3 DEF Interrupted, LeaveQueue, Answers
      <3> QED
        BY <2>3, <3>1, GivesUp DEF Interrupted, LeaveQueue
    <2> QED
      BY <1>7, <2>1, <2>2, <2>3
  <1>8. ASSUME NEW t \in Task, CopyFaults(t) PROVE Abstract!Fail(t)
    <2>1. PICK n \in 0 .. (Movable(call[t]) - 1) : (n > 0 => PartialFaults) /\ Transfer(t, n)
      BY <1>8 DEF CopyFaults
    <2>2. n = 0 /\ cpPc[t] = "copy"
      BY <1>8, <2>1 DEF CopyFaults
    <2>3. UNCHANGED <<fifo, moved>>
      BY <2>1, <2>2, NothingMoved
    <2> QED
      BY <1>8, <2>2, <2>3, GivesUp DEF CopyFaults
  <1>9. ASSUME NEW t \in Task, Avail(t) PROVE Abstract!PipeNext
    <2>1. Abstract!Succeed(t) \/ Abstract!Fail(t)
      BY <1>9, AnswersOK, GivesUp DEF Avail
    <2> QED
      BY <2>1 DEF Abstract!PipeNext
  <1>10. ASSUME NEW t \in Task, PollReturn(t) PROVE Abstract!PipeNext
    <2>1. call[t].op = "poll"
      BY <1>10 DEF PollReturn, Place
    <2>2. Abstract!Succeed(t) \/ Abstract!Fail(t)
      BY <1>10, <2>1, AnswersOK, GivesUp DEF PollReturn
    <2> QED
      BY <2>2 DEF Abstract!PipeNext
  <1>11. CASE UNCHANGED cpVars
    BY <1>11 DEF cpVars, Abstract!pipeVars
  <1> QED
    BY <1>1, <1>2, <1>3, <1>4, <1>5, <1>6, <1>7, <1>8, <1>9, <1>10, <1>11
    DEF CpNext, Step, Poll, Abstract!PipeNext

\* Unless a copy to or from the user faults half way, cpipe_read and cpipe_write
\* take effect atomically on bounded channels, for any number of threads.
THEOREM Implements == ~PartialFaults => (CpSpec => Linearizable)
  <1> SUFFICES ASSUME ~PartialFaults PROVE CpSpec => Linearizable
    OBVIOUS
  <1>1. CpInit => Abstract!PipeInit
    <2>1. Forgotten \in Calls
      BY CpipeAssumption DEF Forgotten
    <2> QED
      BY <2>1 DEF CpInit, Dev, Abstract!PipeInit
  <1>2. IInv /\ Answers /\ [CpNext]_cpVars => [Abstract!PipeNext]_(Abstract!pipeVars)
    BY Simulation
  <1>3. CpSpec => []Answers
    BY AnswersInit, AnswersStep, Invariance, PTL DEF CpSpec
  <1> QED
    BY <1>1, <1>2, <1>3, Invariance, PTL DEF CpSpec, Linearizable, Abstract!PipeSpec
=============================================================================
