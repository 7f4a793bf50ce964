----------------------------- MODULE VirtnetChr -----------------------------
(***************************************************************************)
(* The character device backend of virtnet (virtnet/virtnet_chr.c): what   *)
(* the interface sends waits on a list until a task reads it from the      *)
(* device node, what a task writes is received.  Readers block on a wait   *)
(* queue, tasks poll; packets are sent, and the interface is removed,      *)
(* while they do.  A task is one open file with one call at a time.        *)
(***************************************************************************)
EXTENDS VirtnetNet

CONSTANTS
    Task,     \* the tasks that use the device node
    MaxSent,  \* bound: packets sent through this backend
    MaxWrites \* bound: writes that reach virtnet_recv

VARIABLES
    chrDev,   \* "up", "empty" (packets freed), "gone" (no node), "nostats", "freed"
    packets,  \* vcdev->packets
    chrMem,   \* the memory of each packet: "unused", "live" or "freed"
    wakes,    \* calls of virtnet_chr_xmit between list_add_tail and the wake-up
    waiting,  \* tasks on vcdev->waitq that were not woken since they enrolled
    task,     \* each task: where it is, may it block, its packet, see PollTest
    sent,     \* history: packets in the order they were added to the list
    taken,    \* history: packets in the order they were taken off it
    chrOops   \* "none", or where freed memory or a device that is gone was used

chrVars == <<chrDev, packets, chrMem, wakes, waiting, task, sent, taken, chrOops>>
users == <<task, waiting>>
queue == <<packets, chrMem, sent, taken>>

ASSUME VirtnetChrAssumption == {MaxSent, MaxWrites} \subseteq Nat

Idle == [pc |-> "closed", block |-> FALSE, packet |-> Null, missed |-> FALSE]

ChrInit ==
    /\ chrDev = "up"
    /\ packets = << >>
    /\ chrMem = [p \in Packet |-> "unused"]
    /\ wakes = 0
    /\ waiting = {}
    /\ task = [t \in Task |-> Idle]
    /\ sent = << >> /\ taken = << >>
    /\ chrOops = "none"

ChrGoto(t, l) == task' = [task EXCEPT ![t].pc = l]

ChrOops(where) ==
    /\ chrOops' = where
    /\ UNCHANGED <<chrDev, queue, wakes, users, netVars>>

\* Step A of a call that uses vcdev, which lives in the net_device.
Using(where, A) == IF chrDev = "freed" THEN ChrOops(where) ELSE A /\ UNCHANGED chrOops

-----------------------------------------------------------------------------
(* virtnet_chr_xmit, which the network stack calls while the interface is up. *)

\* Mutant of ChrXmit: nobody is woken.
ChrXmitSilent(p) ==
    /\ chrDev = "up"
    /\ p \in Fresh(chrMem) /\ p <= MaxSent
    /\ chrMem' = [chrMem EXCEPT ![p] = "live"]
    /\ packets' = Append(packets, p)
    /\ sent' = Append(sent, p)
    /\ task' = [t \in Task |-> [task[t] EXCEPT !.missed = @ \/ task[t].pc = "enrol"]]
    /\ Xmitted(TRUE)
    /\ UNCHANGED <<chrDev, wakes, waiting, taken, chrOops>>

\* Under the lock: list_add_tail.
ChrXmit(p) ==
    /\ chrDev = "up"
    /\ p \in Fresh(chrMem) /\ p <= MaxSent
    /\ chrMem' = [chrMem EXCEPT ![p] = "live"]
    /\ packets' = Append(packets, p)
    /\ sent' = Append(sent, p)
    /\ task' = [t \in Task |-> [task[t] EXCEPT !.missed = @ \/ task[t].pc = "enrol"]]
    /\ wakes' = wakes + 1
    /\ Xmitted(TRUE)
    /\ UNCHANGED <<chrDev, waiting, taken, chrOops>>

ChrXmitFails(p) ==
    /\ chrDev = "up"
    /\ p \in Fresh(chrMem) /\ p <= MaxSent
    /\ chrMem' = [chrMem EXCEPT ![p] = "freed"]
    /\ Xmitted(FALSE)
    /\ UNCHANGED <<chrDev, packets, wakes, users, sent, taken, chrOops>>

\* Without the lock: wake_up_interruptible, for every waiter.
ChrWake ==
    /\ wakes > 0
    /\ wakes' = wakes - 1
    /\ waiting' = {}
    /\ UNCHANGED <<chrDev, queue, task, chrOops, netVars>>

-----------------------------------------------------------------------------
(* virtnet_chr_read with virtnet_chr_get_next_packet, and virtnet_chr_write. *)

ReadCall(t) ==
    /\ task[t].pc = "open"
    /\ \E block \in BOOLEAN :
         task' = [task EXCEPT ![t] = [Idle EXCEPT !.block = block,
                                                  !.pc = IF block THEN "prepare" ELSE "check"]]
    /\ UNCHANGED <<chrDev, queue, wakes, waiting, chrOops, netVars>>

\* prepare_to_wait: from here on a wake-up counts.
ReadPrepare(t) ==
    /\ task[t].pc = "prepare"
    /\ Using("read", /\ waiting' = waiting \union {t}
                     /\ ChrGoto(t, "check")
                     /\ UNCHANGED <<chrDev, queue, wakes, netVars>>)

\* Under the lock, the list is empty: sleep, or -EAGAIN.
ReadEmpty(t) ==
    /\ task[t].pc = "check" /\ packets = << >>
    /\ Using("read", /\ ChrGoto(t, IF task[t].block THEN "schedule" ELSE "open")
                     /\ UNCHANGED <<chrDev, queue, wakes, waiting, netVars>>)

\* Under the lock, the list has a packet: take it, then finish_wait.  What the
\* removal has freed is still linked.
ReadTake(t) ==
    /\ task[t].pc = "check" /\ packets # << >>
    /\ IF chrDev # "up"
       THEN ChrOops("read")
       ELSE /\ task' = [task EXCEPT ![t].pc = "copy", ![t].packet = Head(packets)]
            /\ packets' = Tail(packets)
            /\ taken' = Append(taken, Head(packets))
            /\ waiting' = waiting \ {t}
            /\ UNCHANGED <<chrDev, chrMem, wakes, sent, chrOops, netVars>>

\* schedule returns after a wake-up; finish_wait, and the loop starts again.
ReadWoken(t) ==
    /\ task[t].pc = "schedule" /\ t \notin waiting
    /\ Using("read", /\ ChrGoto(t, "prepare")
                     /\ UNCHANGED <<chrDev, queue, wakes, waiting, netVars>>)

\* schedule returns, or does not sleep at all, for a signal: -ERESTARTSYS.
ReadInterrupted(t) ==
    /\ task[t].pc = "schedule"
    /\ Using("read", /\ ChrGoto(t, "open")
                     /\ waiting' = waiting \ {t}
                     /\ UNCHANGED <<chrDev, queue, wakes, netVars>>)

\* Mutant of ReadCopy: a copy that faults keeps the packet.
ReadCopyKeeps(t) ==
    /\ task[t].pc = "copy"
    /\ task' = [task EXCEPT ![t].pc = "open", ![t].packet = Null]
    /\ UNCHANGED <<chrDev, packets, chrMem, wakes, waiting, sent, taken, chrOops, netVars>>

\* copy_to_user and kfree; a copy that faults returns the count all the same.
ReadCopy(t) ==
    /\ task[t].pc = "copy"
    /\ chrMem' = [chrMem EXCEPT ![task[t].packet] = "freed"]
    /\ task' = [task EXCEPT ![t].pc = "open", ![t].packet = Null]
    /\ UNCHANGED <<chrDev, packets, wakes, waiting, sent, taken, chrOops, netVars>>

\* A write that gets its memory and its data; one that is received is counted in
\* the interface's own counters.
ChrWrite(t) ==
    /\ task[t].pc = "open"
    /\ stats["rx"] + stats["rx_dropped"] < MaxWrites
    /\ \/ chrDev \in {"nostats", "freed"} /\ ChrOops("write")
       \/ chrDev = "nostats" /\ Refused /\ UNCHANGED chrVars
       \/ chrDev \notin {"nostats", "freed"} /\ Received /\ UNCHANGED chrVars

-----------------------------------------------------------------------------
(* virtnet_chr_poll under poll(2), virtnet_chr_open and virtnet_chr_release. *)

\* The list is empty; the packets that come before the enrolment are "missed".
\* When it is not empty poll(2) returns at once.
PollTest(t) ==
    /\ task[t].pc = "open"
    /\ Using("poll", /\ packets = << >>
                     /\ ChrGoto(t, "enrol")
                     /\ UNCHANGED <<chrDev, queue, wakes, waiting, netVars>>)

PollEnrol(t) ==
    /\ task[t].pc = "enrol"
    /\ Using("poll", /\ waiting' = waiting \union {t}
                     /\ ChrGoto(t, "sleep")
                     /\ UNCHANGED <<chrDev, queue, wakes, netVars>>)

\* Woken, poll(2) calls the driver again; on a signal or a timeout it returns.
PollEnds(t) ==
    /\ task[t].pc = "sleep"
    /\ Using("poll", /\ task' = [task EXCEPT ![t] = [Idle EXCEPT !.pc = "open"]]
                     /\ waiting' = waiting \ {t}
                     /\ UNCHANGED <<chrDev, queue, wakes, netVars>>)

\* class_find_device finds nothing once device_destroy was called.  The reference that
\* it takes is never dropped: the struct device outlives its node, and nobody uses it.
ChrOpen(t) ==
    /\ task[t].pc = "closed"
    /\ IF chrDev \in {"gone", "nostats", "freed"} THEN ChrOops("open")
       ELSE /\ ChrGoto(t, "open")
            /\ UNCHANGED <<chrDev, queue, wakes, waiting, chrOops, netVars>>

ChrRelease(t) ==
    /\ task[t].pc = "open"
    /\ ChrGoto(t, "closed")
    /\ UNCHANGED <<chrDev, queue, wakes, waiting, chrOops, netVars>>

-----------------------------------------------------------------------------
(* The removal of the interface, which open files do not prevent.          *)

\* virtnet_chr_dev_uninit: every packet on the list is freed and stays linked.
\* The core has waited for the calls of virtnet_xmit.
ChrUninit ==
    /\ chrDev = "up" /\ wakes = 0
    /\ chrMem' = [p \in Packet |->
                    IF \E i \in DOMAIN packets : packets[i] = p THEN "freed" ELSE chrMem[p]]
    /\ chrDev' = "empty"
    /\ UNCHANGED <<packets, wakes, users, sent, taken, chrOops, netVars>>

ChrDestroyDevice ==
    /\ chrDev = "empty"
    /\ chrDev' = "gone"
    /\ UNCHANGED <<queue, wakes, users, chrOops, netVars>>

\* virtnet_dev_uninit: free_percpu(dev->dstats).
ChrFreeStats ==
    /\ chrDev = "gone"
    /\ chrDev' = "nostats"
    /\ UNCHANGED <<queue, wakes, users, chrOops, netVars>>

ChrFreeNetdev ==
    /\ chrDev = "nostats"
    /\ chrDev' = "freed"
    /\ UNCHANGED <<queue, wakes, users, chrOops, netVars>>

-----------------------------------------------------------------------------
Reading(t) == ReadPrepare(t) \/ ReadEmpty(t) \/ ReadTake(t) \/ ReadWoken(t) \/ ReadCopy(t)
Polling(t) == PollTest(t) \/ PollEnrol(t) \/ PollEnds(t)

\* Nothing that is gone was used so far.
ChrGoesOn == chrOops = "none" /\ netOops = "none"

ChrNext ==
    /\ ChrGoesOn
    /\ \/ \E p \in Packet : ChrXmit(p) \/ ChrXmitFails(p)
       \/ ChrWake \/ ChrUninit \/ ChrDestroyDevice \/ ChrFreeStats \/ ChrFreeNetdev
       \/ \E t \in Task : \/ ChrOpen(t) \/ ChrRelease(t)
                          \/ ReadCall(t) \/ Reading(t) \/ ReadInterrupted(t)
                          \/ ChrWrite(t) \/ Polling(t)

\* A call that can go on does, and virtnet_chr_xmit comes to its wake-up.
ChrFairness ==
    /\ \A t \in Task : WF_chrVars(ChrGoesOn /\ Reading(t))
    /\ WF_chrVars(ChrGoesOn /\ ChrWake)

-----------------------------------------------------------------------------
(* Properties.                                                             *)

Held == {task[t].packet : t \in Task} \ {Null}
Linked == {packets[i] : i \in DOMAIN packets}

\* The variables have their types.
ChrTypeOK ==
    /\ chrDev \in {"up", "empty", "gone", "nostats", "freed"}
    /\ packets \in Seq(Packet) /\ sent \in Seq(Packet) /\ taken \in Seq(Packet)
    /\ chrMem \in [Packet -> {"unused", "live", "freed"}]
    /\ wakes \in 0 .. Cardinality(Packet)
    /\ waiting \subseteq Task
    /\ task \in [Task -> [pc : {"closed", "open", "prepare", "check", "schedule", "copy",
                                "enrol", "sleep"},
                          block : BOOLEAN, packet : Packet \union {Null}, missed : BOOLEAN]]
    /\ chrOops \in {"none", "read", "write", "poll", "open"}

\* Readers together get the packets in the order they were sent, each once, and
\* a packet stays in memory exactly while it is linked or held by its reader
\* (virtnet_chr.c:49-52, 83, 188): after the removal none but a reader's is left.
ChrInOrder ==
    /\ sent = taken \o packets
    /\ {p \in Packet : chrMem[p] = "live"} = Held \union (IF chrDev = "up" THEN Linked ELSE {})

\* As long as the interface is up no task sleeps on a list that is not empty,
\* unless the wake-up is on its way; a poller may, but only for a packet that
\* came between its test and its enrolment (virtnet_chr.c:34-57, 129-133): there the
\* code does not do what the comment at virtnet_chr.c:128 says.
ChrNoLostWakeup ==
    \A t \in waiting :
        chrDev = "up" /\ packets # << >> =>
            \/ wakes > 0
            \/ task[t].pc \in {"prepare", "check"}
            \/ task[t].pc = "sleep" /\ task[t].missed

\* A packet on the list is read, or the interface removed, if a task stays in a
\* blocking read: the loop of virtnet_chr_get_next_packet serves it.
ChrServed ==
    \A t \in Task :
        packets # << >> /\ task[t].pc = "schedule"
            ~> task[t].pc # "schedule" \/ packets = << >> \/ chrDev # "up" \/ ~ChrGoesOn
=============================================================================
