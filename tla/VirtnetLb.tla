----------------------------- MODULE VirtnetLb ------------------------------
(***************************************************************************)
(* The loopback backend of virtnet (virtnet/virtnet_lb.c).  A packet sent  *)
(* becomes an entry with a timer of its own; the timer's handler receives  *)
(* the packet and frees the entry, while the removal of the interface      *)
(* walks the same list on another processor, dropping the list's lock      *)
(* around each del_timer_sync.                                             *)
(***************************************************************************)
EXTENDS VirtnetNet

VARIABLES
    dev,        \* "up", "del" or "next" (in the loop of dev_uninit), "spin", "gone", "freed"
    entries,    \* lbdev->entries: what is linked, from the head
    mem,        \* the memory of each entry: "unused", "live" or "freed"
    timer,      \* "none", "pending", or where its handler is: "recv", "unlink", "unlock"
    lock,       \* the entry whose handler holds lbdev->lock, or Null
    allocated,  \* lbdev->allocated
    entry, tmp, \* the cursors of list_for_each_entry_safe
    oops        \* "none", or where freed memory was used

lbVars == <<dev, entries, mem, timer, lock, allocated, entry, tmp, oops>>

LbInit ==
    /\ dev = "up"
    /\ entries = << >>
    /\ mem = [p \in Packet |-> "unused"]
    /\ timer = [p \in Packet |-> "none"]
    /\ lock = Null
    /\ allocated = 0
    /\ entry = Null /\ tmp = Null
    /\ oops = "none"

LbOops(where) ==
    /\ oops' = where
    /\ UNCHANGED <<dev, entries, mem, timer, lock, allocated, entry, tmp, netVars>>

\* The entries before and after p, which list_del(p) writes to.
Neighbours(p) ==
    {entries[j] : j \in {i \in DOMAIN entries : \/ i > 1 /\ entries[i - 1] = p
                                                \/ i < Len(entries) /\ entries[i + 1] = p}}

\* What follows p on the list, Null for its end.
After(p) ==
    LET i == CHOOSE i \in DOMAIN entries : entries[i] = p
    IN IF i = Len(entries) THEN Null ELSE entries[i + 1]

\* list_del: the list without p.
ListDel(p) ==
    LET i == CHOOSE i \in DOMAIN entries : entries[i] = p
    IN SubSeq(entries, 1, i - 1) \o SubSeq(entries, i + 1, Len(entries))

-----------------------------------------------------------------------------
(* Sending and receiving.                                                  *)

\* The copy of a packet is linked and its timer started, in one critical section.
Xmit(p) ==
    /\ dev = "up" /\ lock = Null
    /\ p \in Fresh(mem)
    /\ mem' = [mem EXCEPT ![p] = "live"]
    /\ allocated' = allocated + 1
    /\ entries' = <<p>> \o entries
    /\ timer' = [timer EXCEPT ![p] = "pending"]
    /\ Xmitted(TRUE)
    /\ UNCHANGED <<dev, lock, entry, tmp, oops>>

\* There is no memory for the copy.
XmitFails(p) ==
    /\ dev = "up"
    /\ p \in Fresh(mem)
    /\ mem' = [mem EXCEPT ![p] = "freed"]
    /\ Xmitted(FALSE)
    /\ UNCHANGED <<dev, entries, timer, lock, allocated, entry, tmp, oops>>

Expire(p) ==
    /\ timer[p] = "pending"
    /\ timer' = [timer EXCEPT ![p] = "recv"]
    /\ UNCHANGED <<dev, entries, mem, lock, allocated, entry, tmp, netVars, oops>>

\* virtnet_recv, from the handler and without the lock.
Recv(p) ==
    /\ timer[p] = "recv"
    /\ Received
    /\ timer' = [timer EXCEPT ![p] = "unlink"]
    /\ UNCHANGED <<dev, entries, mem, lock, allocated, entry, tmp, oops>>

\* Mutant of Unlink: the entry is freed and stays on the list.
UnlinkFreesOnly(p) ==
    /\ timer[p] = "unlink"
    /\ lock = Null
    /\ IF \E q \in Neighbours(p) : mem[q] = "freed"
       THEN LbOops("list_del")
       ELSE /\ mem' = [mem EXCEPT ![p] = "freed"]
            /\ allocated' = allocated - 1
            /\ lock' = p
            /\ timer' = [timer EXCEPT ![p] = "unlock"]
            /\ UNCHANGED <<dev, entries, entry, tmp, netVars, oops>>

\* Under the lock: list_del, kfree, atomic_dec.
Unlink(p) ==
    /\ timer[p] = "unlink"
    /\ lock = Null
    /\ IF \E q \in Neighbours(p) : mem[q] = "freed"
       THEN LbOops("list_del")
       ELSE /\ entries' = ListDel(p)
            /\ mem' = [mem EXCEPT ![p] = "freed"]
            /\ allocated' = allocated - 1
            /\ lock' = p
            /\ timer' = [timer EXCEPT ![p] = "unlock"]
            /\ UNCHANGED <<dev, entry, tmp, netVars, oops>>

\* Mutant of Unlock: the handler returns with the lock held.
UnlockForgotten(p) ==
    /\ timer[p] = "unlock"
    /\ timer' = [timer EXCEPT ![p] = "none"]
    /\ UNCHANGED <<dev, entries, mem, lock, allocated, entry, tmp, netVars, oops>>

\* lbdev lives in the net_device.
Unlock(p) ==
    /\ timer[p] = "unlock"
    /\ IF dev = "freed"
       THEN LbOops("unlock")
       ELSE /\ lock' = Null
            /\ timer' = [timer EXCEPT ![p] = "none"]
            /\ UNCHANGED <<dev, entries, mem, allocated, entry, tmp, netVars, oops>>

-----------------------------------------------------------------------------
(* virtnet_dev_uninit and virtnet_lb_dev_uninit; nothing is sent any more. *)

\* The cursors move to p: p is read for what follows it.
Visit(p) ==
    IF p = Null
    THEN /\ dev' = "spin"
         /\ UNCHANGED <<entries, mem, timer, lock, allocated, entry, tmp, netVars, oops>>
    ELSE IF mem[p] = "freed"
    THEN LbOops("walk")
    ELSE /\ dev' = "del"
         /\ entry' = p
         /\ tmp' = After(p)
         /\ UNCHANGED <<entries, mem, timer, lock, allocated, netVars, oops>>

Uninit ==
    /\ dev = "up" /\ lock = Null
    /\ Visit(IF entries = << >> THEN Null ELSE Head(entries))

\* Mutant of DelTimer: the counter is left to the handler.
DelTimerUncounted ==
    /\ dev = "del"
    /\ \/ mem[entry] = "freed" /\ LbOops("del_timer")
       \/ /\ mem[entry] = "live" /\ timer[entry] = "pending"
          /\ timer' = [timer EXCEPT ![entry] = "none"]
          /\ mem' = [mem EXCEPT ![entry] = "freed"]
          /\ Count("discarded")
          /\ dev' = "next"
          /\ UNCHANGED <<entries, lock, allocated, entry, tmp, oops>>

\* Mutant of DelTimer: an entry is freed whether its handler runs or not.
DelTimerAsync ==
    /\ dev = "del"
    /\ \/ mem[entry] = "freed" /\ LbOops("del_timer")
       \/ /\ mem[entry] = "live"
          /\ timer' = [timer EXCEPT ![entry] = IF @ = "pending" THEN "none" ELSE @]
          /\ mem' = [mem EXCEPT ![entry] = "freed"]
          /\ Count("discarded")
          /\ allocated' = allocated - 1
          /\ dev' = "next"
          /\ UNCHANGED <<entries, lock, entry, tmp, oops>>

\* Without the lock: del_timer_sync.  A pending timer is removed and its entry
\* freed, which leaves it on the list.  A running handler is waited for, and
\* frees the entry that del_timer_sync still looks at.
DelTimer ==
    /\ dev = "del"
    /\ \/ mem[entry] = "freed" /\ LbOops("del_timer")
       \/ /\ mem[entry] = "live" /\ timer[entry] = "pending"
          /\ timer' = [timer EXCEPT ![entry] = "none"]
          /\ mem' = [mem EXCEPT ![entry] = "freed"]
          /\ allocated' = allocated - 1
          /\ Count("discarded")
          /\ dev' = "next"
          /\ UNCHANGED <<entries, lock, entry, tmp, oops>>

NextEntry ==
    /\ dev = "next" /\ lock = Null
    /\ Visit(tmp)

\* The loop that waits for handlers on other processors; the counters are freed next,
\* which no handler is left to use.
Spin ==
    /\ dev = "spin" /\ allocated = 0
    /\ dev' = "gone"
    /\ UNCHANGED <<entries, mem, timer, lock, allocated, entry, tmp, netVars, oops>>

\* virtnet_free_netdev, the destructor.
FreeNetdev ==
    /\ dev = "gone"
    /\ dev' = "freed"
    /\ UNCHANGED <<entries, mem, timer, lock, allocated, entry, tmp, netVars, oops>>

-----------------------------------------------------------------------------
Handler(p) == Recv(p) \/ Unlink(p) \/ Unlock(p)
Removal == DelTimer \/ NextEntry \/ Spin \/ FreeNetdev

\* Nothing that is gone was used so far.
LbGoesOn == oops = "none" /\ netOops = "none"

LbNext ==
    /\ LbGoesOn
    /\ \/ \E p \in Packet : Xmit(p) \/ XmitFails(p) \/ Expire(p) \/ Handler(p)
       \/ Uninit \/ Removal

\* Timers expire, handlers run, and a removal that has begun goes on; when
\* the lock is contended each handler gets its turn.
LbFairness ==
    /\ \A p \in Packet :
         /\ WF_lbVars(LbGoesOn /\ Expire(p))
         /\ WF_lbVars(LbGoesOn /\ (Recv(p) \/ Unlock(p)))
         /\ SF_lbVars(LbGoesOn /\ Unlink(p))
    /\ SF_lbVars(LbGoesOn /\ Removal)

-----------------------------------------------------------------------------
(* Properties.                                                             *)

Live == {p \in Packet : mem[p] = "live"}

\* The variables have their types; the counter never goes below zero, and the
\* list holds each entry at most once.
LbTypeOK ==
    /\ dev \in {"up", "del", "next", "spin", "gone", "freed"}
    /\ entries \in Seq(Packet)
    /\ \A i, j \in DOMAIN entries : entries[i] = entries[j] => i = j
    /\ mem \in [Packet -> {"unused", "live", "freed"}]
    /\ timer \in [Packet -> {"none", "pending", "recv", "unlink", "unlock"}]
    /\ {lock, entry, tmp} \subseteq Packet \union {Null}
    /\ allocated \in 0 .. Cardinality(Packet)
    /\ oops \in {"none", "list_del", "unlock", "walk", "del_timer"}

\* Nothing is lost or counted twice (virtnet_lb.c:26-30, 85-88): the counter that
\* the removal waits on is the number of entries in memory, and what was sent was
\* received, failed to be received, was discarded by the removal, or is to come.
Conservation ==
    backend = "lb" =>
        /\ allocated = Cardinality(Live)
        /\ stats["tx"] = stats["rx"] + stats["rx_dropped"] + stats["discarded"] +
                         Cardinality({p \in Live : timer[p] \in {"pending", "recv"}})

\* Once the removal is over no entry is left in memory, and no timer of one will
\* run or is receiving a packet for an interface that is gone (virtnet_lb.c:92-98).
\* As long as the interface is up no handler touches an entry that is freed, nor the
\* link of one. That its skb may be freed twice is not excluded (netOops).
RemovalComplete ==
    /\ dev \in {"gone", "freed"} =>
           Live = {} /\ \A p \in Packet : timer[p] \in {"none", "unlock"}
    /\ dev = "up" => oops = "none"

\* A removal comes to its end: every entry it waits for is counted down.
RemovalEnds == dev = "del" ~> dev = "freed" \/ ~LbGoesOn

\* The removal never uses an entry that its handler has freed, nor a handler one
\* that the removal has freed (the comment at virtnet_lb.c:81).
NoUseAfterFree == oops = "none"
=============================================================================
