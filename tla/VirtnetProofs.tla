---------------------------- MODULE VirtnetProofs ----------------------------
(***************************************************************************)
(* Safety of a virtnet interface over either backend, for any number of    *)
(* packets and tasks.                                                      *)
(***************************************************************************)
EXTENDS Virtnet, SequenceTheorems, FiniteSetTheorems, TLAPS

\* Packets are used in the order of their numbers, each counted as sent or not.
Numbered(m) ==
    /\ stats["tx"] + stats["tx_dropped"] <= MaxPackets
    /\ \A p \in Packet : m[p] # "unused" <=> p <= stats["tx"] + stats["tx_dropped"]

-----------------------------------------------------------------------------
(* The loopback backend.                                                   *)

\* The packets on their way: their handler has yet to receive them.
ToCome == {p \in Live : timer[p] \in {"pending", "recv"}}

\* An entry is in memory until its handler frees it, under the lock.
Handled ==
    \A p \in Packet :
        /\ mem[p] = "live" <=> timer[p] \in {"pending", "recv", "unlink"}
        /\ timer[p] = "unlock" <=> lock = p

\* An entry in memory is linked.  Until the removal the converse holds, too.
Chained ==
    /\ \A p \in Live : \E i \in DOMAIN entries : entries[i] = p
    /\ \A i \in DOMAIN entries : mem[entries[i]] # "unused"
    /\ dev = "up" => oops = "none" /\ \A i \in DOMAIN entries : mem[entries[i]] = "live"

\* The cursors of the removal are entries that were sent.
Cursors ==
    /\ dev = "del" => entry # Null
    /\ entry # Null => mem[entry] # "unused"
    /\ tmp # Null => mem[tmp] # "unused"

\* The counter, and what became of each packet.
Counted ==
    /\ allocated = Cardinality(Live)
    /\ stats["tx"] = stats["rx"] + stats["rx_dropped"] + stats["discarded"] + Cardinality(ToCome)
    /\ dev \in {"gone", "freed"} => Live = {}

LbInv ==
    /\ stats \in [Counters -> Nat]
    /\ LbTypeOK /\ Handled /\ Chained /\ Cursors /\ Counted
    /\ Numbered(mem)

\* Sets of packets are finite, and a set that gains or loses one is larger or
\* smaller by one.
LEMMA PacketSets ==
    /\ \A S \in SUBSET Packet : Cardinality(S) \in 0 .. Cardinality(Packet)
    /\ \A S \in SUBSET Packet : Cardinality(S) = 0 => S = {}
    /\ \A S \in SUBSET Packet : \A p \in Packet \ S :
           Cardinality(S \union {p}) = Cardinality(S) + 1
    /\ \A S \in SUBSET Packet : \A p \in S : Cardinality(S \ {p}) = Cardinality(S) - 1
    /\ Cardinality(Packet) = MaxPackets
  <1>1. IsFiniteSet(Packet) /\ Cardinality(Packet) = MaxPackets
    BY VirtnetNetAssumption, FS_Interval DEF Packet
  <1>2. \A S \in SUBSET Packet : IsFiniteSet(S) /\ Cardinality(S) <= Cardinality(Packet)
    BY <1>1, FS_Subset
  <1>3. \A S \in SUBSET Packet : Cardinality(S) \in Nat
    BY <1>2, FS_CardinalityType
  <1>4. \A S \in SUBSET Packet : Cardinality(S) = 0 => S = {}
    BY <1>2, FS_EmptySet
  <1>5. \A S \in SUBSET Packet : \A p \in Packet \ S :
            Cardinality(S \union {p}) = Cardinality(S) + 1
    BY <1>2, FS_AddElement
  <1>6. \A S \in SUBSET Packet : \A p \in S : Cardinality(S \ {p}) = Cardinality(S) - 1
    BY <1>2, FS_RemoveElement
  <1> QED
    BY <1>1, <1>2, <1>3, <1>4, <1>5, <1>6

\* list_del takes one entry off the list and leaves the others on it.
LEMMA ListDelFacts ==
    ASSUME entries \in Seq(Packet), \A i, j \in DOMAIN entries : entries[i] = entries[j] => i = j,
           NEW k \in DOMAIN entries
    PROVE  LET e == ListDel(entries[k]) IN
           /\ e \in Seq(Packet)
           /\ \A i, j \in DOMAIN e : e[i] = e[j] => i = j
           /\ \A i \in DOMAIN e : \E j \in DOMAIN entries : j # k /\ e[i] = entries[j]
           /\ \A j \in DOMAIN entries : j # k => \E i \in DOMAIN e : e[i] = entries[j]
  <1> DEFINE n == Len(entries)
             a == SubSeq(entries, 1, k - 1)
             b == SubSeq(entries, k + 1, n)
             e == a \o b
  <1>1. /\ n \in Nat /\ DOMAIN entries = 1 .. n /\ \A i \in 1 .. n : entries[i] \in Packet
    BY LenProperties, ElementOfSeq
  <1>2. k = CHOOSE i \in DOMAIN entries : entries[i] = entries[k]
    OBVIOUS
  <1>3. ListDel(entries[k]) = e
    BY <1>2 DEF ListDel
  <1>4. /\ a \in Seq(Packet) /\ Len(a) = k - 1 /\ \A i \in 1 .. k - 1 : a[i] = entries[i]
    BY <1>1, SubSeqProperties
  <1>5. /\ b \in Seq(Packet) /\ Len(b) = n - k /\ \A i \in 1 .. n - k : b[i] = entries[i + k]
    BY <1>1, SubSeqProperties, SMTT(30)
  <1> HIDE DEF a, b, n
  <1>6. k \in 1 .. n /\ Len(a) + Len(b) = n - 1
    BY <1>1, <1>4, <1>5
  <1>7. /\ e \in Seq(Packet) /\ DOMAIN e = 1 .. n - 1
        /\ \A i \in 1 .. n - 1 : e[i] = IF i <= Len(a) THEN a[i] ELSE b[i - Len(a)]
    <2>0. a \in Seq(Packet) /\ b \in Seq(Packet)
      BY <1>4, <1>5
    <2>1. /\ e \in Seq(Packet) /\ Len(e) = Len(a) + Len(b)
          /\ \A i \in 1 .. Len(a) + Len(b) : e[i] = IF i <= Len(a) THEN a[i] ELSE b[i - Len(a)]
      BY <2>0, ConcatProperties
    <2> QED
      BY <1>6, <2>1, LenProperties
  <1> HIDE DEF e
  <1>8. \A i \in 1 .. n - 1 :
            (i < k => e[i] = entries[i]) /\ (i >= k => e[i] = entries[i + 1])
    <2> SUFFICES ASSUME NEW i \in 1 .. n - 1
                 PROVE  (i < k => e[i] = entries[i]) /\ (i >= k => e[i] = entries[i + 1])
      OBVIOUS
    <2>1. CASE i < k
      BY <1>1, <1>4, <1>6, <1>7, <2>1
    <2>2. CASE i >= k
      <3>1. i - Len(a) \in 1 .. n - k /\ ~(i <= Len(a)) /\ i - Len(a) + k = i + 1
        BY <1>1, <1>4, <1>6, <2>2
      <3>2. e[i] = b[i - Len(a)] /\ b[i - Len(a)] = entries[i - Len(a) + k]
        BY <1>5, <1>7, <3>1
      <3> QED
        BY <1>1, <1>6, <2>2, <3>1, <3>2
    <2> QED
      BY <1>1, <1>6, <2>1, <2>2
  <1>9. \A i, j \in DOMAIN e : e[i] = e[j] => i = j
    <2> SUFFICES ASSUME NEW i \in 1 .. n - 1, NEW j \in 1 .. n - 1, e[i] = e[j] PROVE i = j
      BY <1>7
    <2>1. PICK u \in 1 .. n : e[i] = entries[u] /\ u = IF i < k THEN i ELSE i + 1
      BY <1>1, <1>6, <1>8
    <2>2. PICK v \in 1 .. n : e[j] = entries[v] /\ v = IF j < k THEN j ELSE j + 1
      BY <1>1, <1>6, <1>8
    <2>3. u = v
      BY <1>1, <2>1, <2>2
    <2> QED
      BY <1>1, <1>6, <2>1, <2>2, <2>3
  <1>10. \A i \in DOMAIN e : \E j \in DOMAIN entries : j # k /\ e[i] = entries[j]
    <2> SUFFICES ASSUME NEW i \in 1 .. n - 1
                 PROVE  \E j \in 1 .. n : j # k /\ e[i] = entries[j]
      BY <1>1, <1>7
    <2>1. i \in 1 .. n /\ i + 1 \in 1 .. n
      BY <1>1
    <2> QED
      BY <1>1, <1>6, <1>8, <2>1
  <1>11. \A j \in DOMAIN entries : j # k => \E i \in DOMAIN e : e[i] = entries[j]
    <2> SUFFICES ASSUME NEW j \in 1 .. n, j # k
                 PROVE  \E i \in 1 .. n - 1 : e[i] = entries[j]
      BY <1>1, <1>7
    <2>1. CASE j < k
      BY <1>1, <1>6, <1>8, <2>1
    <2>2. CASE j > k
      <3>1. j - 1 \in 1 .. n - 1 /\ j - 1 >= k /\ j - 1 + 1 = j
        BY <1>1, <1>6, <2>2
      <3> QED
        BY <1>8, <3>1
    <2> QED
      BY <1>1, <1>6, <2>1, <2>2
  <1> QED
    BY <1>3, <1>7, <1>9, <1>10, <1>11

\* The next packet has the next number, and is not one of those sent so far.
LEMMA NextPacket ==
    ASSUME stats \in [Counters -> Nat], NEW m, Numbered(m), NEW p \in Fresh(m)
    PROVE  /\ p \in Packet /\ m[p] = "unused"
           /\ p = stats["tx"] + stats["tx_dropped"] + 1
           /\ stats["tx"] + stats["tx_dropped"] < MaxPackets
  <1>1. p \in 1 .. MaxPackets /\ m[p] = "unused" /\ \A q \in 1 .. p - 1 : m[q] # "unused"
    BY DEF Fresh, Packet
  <1>2. stats["tx"] + stats["tx_dropped"] \in Nat
    BY DEF Counters
  <1>3. p > stats["tx"] + stats["tx_dropped"]
    BY <1>1, <1>2 DEF Numbered, Packet
  <1>4. p - 1 <= stats["tx"] + stats["tx_dropped"]
    <2>1. CASE p = 1
      BY <1>2, <2>1
    <2>2. CASE p # 1
      BY <1>1, <1>2, <2>2, VirtnetNetAssumption DEF Numbered, Packet
    <2> QED
      BY <2>1, <2>2
  <1> QED
    BY <1>1, <1>2, <1>3, <1>4, VirtnetNetAssumption DEF Packet

\* Sending one, or failing to, counts it.
LEMMA Sends ==
    ASSUME stats \in [Counters -> Nat], NEW m, Numbered(m), NEW p \in Fresh(m),
           NEW c \in {"tx", "tx_dropped"}, Counts(c)
    PROVE  /\ p \in Packet /\ m[p] = "unused"
           /\ stats' \in [Counters -> Nat]
           /\ stats'["tx"] + stats'["tx_dropped"] = p /\ p <= MaxPackets
           /\ \A q \in Packet : q = p \/ (m[q] # "unused" <=> q <= p)
           /\ stats'[c] = stats[c] + 1
           /\ \A d \in Counters \ {c} : stats'[d] = stats[d]
  <1>1. /\ p \in Packet /\ p = stats["tx"] + stats["tx_dropped"] + 1 /\ m[p] = "unused"
        /\ stats["tx"] + stats["tx_dropped"] < MaxPackets
    BY NextPacket
  <1>2. /\ stats' \in [Counters -> Nat]
        /\ stats'["tx"] + stats'["tx_dropped"] = stats["tx"] + stats["tx_dropped"] + 1
        /\ stats'[c] = stats[c] + 1
        /\ \A d \in Counters \ {c} : stats'[d] = stats[d]
    BY DEF Counts, Counters
  <1>3. stats["tx"] + stats["tx_dropped"] \in Nat
    BY DEF Counters
  <1>4. \A q \in Packet : q = p \/ (m[q] # "unused" <=> q <= p)
    BY <1>1, <1>3 DEF Numbered, Packet
  <1> QED
    BY <1>1, <1>2, <1>3, <1>4, VirtnetNetAssumption

\* Nothing sent, nothing linked.
LEMMA LbInitInv == NetInit /\ LbInit => LbInv
  <1> SUFFICES ASSUME NetInit, LbInit PROVE LbInv
    OBVIOUS
  <1>1. Live = {} /\ ToCome = {} /\ Cardinality({}) = 0
    BY FS_EmptySet DEF LbInit, Live, ToCome
  <1>2. LbTypeOK
    BY PacketSets, EmptySeq, VirtnetNetAssumption DEF LbInit, LbTypeOK
  <1>3. stats \in [Counters -> Nat] /\ \A c \in Counters : stats[c] = 0
    BY DEF NetInit
  <1>4. Handled /\ Chained /\ Cursors
    BY <1>1 DEF LbInit, Handled, Chained, Cursors, Packet, Null
  <1>5. Counted
    BY <1>1, <1>3 DEF LbInit, Counted, Counters
  <1>6. Numbered(mem)
    BY <1>3, VirtnetNetAssumption DEF LbInit, Numbered, Counters, Packet
  <1> QED
    BY <1>2, <1>3, <1>4, <1>5, <1>6 DEF LbInv

\* A packet that is sent is linked, in memory, and its timer pending.
LEMMA XmitInv == ASSUME LbInv, oops = "none", NEW p \in Packet, Xmit(p) PROVE LbInv'
  <1> USE DEF LbInv
  <1>1. /\ dev = "up" /\ lock = Null /\ p \in Fresh(mem) /\ Xmitted(TRUE)
        /\ mem' = [mem EXCEPT ![p] = "live"] /\ timer' = [timer EXCEPT ![p] = "pending"]
        /\ entries' = <<p>> \o entries /\ allocated' = allocated + 1
        /\ UNCHANGED <<dev, lock, entry, tmp, oops>>
    BY DEF Xmit
  <1>2. mem \in [Packet -> {"unused", "live", "freed"}] /\ mem[p] = "unused"
    BY <1>1, NextPacket DEF LbTypeOK
  <1>3. /\ stats' \in [Counters -> Nat] /\ Numbered(mem)'
        /\ stats'["tx"] = stats["tx"] + 1
        /\ \A c \in Counters \ {"tx"} : stats'[c] = stats[c]
    <2>1. Counts("tx")
      BY <1>1 DEF Xmitted, Count
    <2>2. /\ stats' \in [Counters -> Nat]
          /\ stats'["tx"] + stats'["tx_dropped"] = p /\ p <= MaxPackets
          /\ \A q \in Packet : q = p \/ (mem[q] # "unused" <=> q <= p)
          /\ stats'["tx"] = stats["tx"] + 1
          /\ \A c \in Counters \ {"tx"} : stats'[c] = stats[c]
      BY <1>1, <2>1, Sends
    <2> QED
      BY <1>1, <1>2, <2>2 DEF Numbered, Packet
  <1>4. /\ p \notin Live /\ Live' = Live \union {p}
        /\ p \notin ToCome /\ ToCome' = ToCome \union {p}
    BY <1>1, <1>2 DEF Live, ToCome, LbTypeOK
  <1>5. /\ Cardinality(Live') = Cardinality(Live) + 1
        /\ Cardinality(ToCome') = Cardinality(ToCome) + 1
        /\ allocated' \in 0 .. Cardinality(Packet)
        /\ Cardinality(ToCome) \in Nat /\ Cardinality(Live) \in Nat
    <2>1. Live \subseteq Packet /\ ToCome \subseteq Packet /\ Live' \subseteq Packet
      BY DEF Live, ToCome
    <2>2. Cardinality(Live') = allocated'
      BY <1>1, <1>4, <2>1, PacketSets DEF Counted
    <2> QED
      BY <1>4, <2>1, <2>2, PacketSets
  <1>6. /\ entries' \in Seq(Packet) /\ DOMAIN entries' = 1 .. Len(entries) + 1
        /\ DOMAIN entries = 1 .. Len(entries) /\ Len(entries) \in Nat
        /\ entries'[1] = p /\ \A i \in 1 .. Len(entries) : entries'[i + 1] = entries[i]
    <2>1. /\ <<p>> \in Seq(Packet) /\ Len(<<p>>) = 1 /\ <<p>>[1] = p
          /\ entries \in Seq(Packet) /\ Len(entries) \in Nat
          /\ DOMAIN entries = 1 .. Len(entries)
      BY LenProperties DEF LbTypeOK
    <2>2. /\ entries' \in Seq(Packet) /\ Len(entries') = Len(entries) + 1
          /\ \A i \in 1 .. Len(entries) + 1 :
                entries'[i] = IF i <= 1 THEN <<p>>[i] ELSE entries[i - 1]
      BY <1>1, <2>1, ConcatProperties
    <2>3. DOMAIN entries' = 1 .. Len(entries) + 1
      BY <2>2, LenProperties
    <2> QED
      BY <2>1, <2>2, <2>3
  <1>7. \A i \in DOMAIN entries : mem[entries[i]] = "live" /\ entries[i] # p
    BY <1>1, <1>2 DEF Chained
  <1>8. LbTypeOK'
    <2>1. \A i, j \in DOMAIN entries' : entries'[i] = entries'[j] => i = j
      <3> SUFFICES ASSUME NEW i \in DOMAIN entries', NEW j \in DOMAIN entries',
                          entries'[i] = entries'[j]
                   PROVE  i = j
        OBVIOUS
      <3>1. (i = 1 \/ (i - 1 \in DOMAIN entries /\ entries'[i] = entries[i - 1]))
            /\ (j = 1 \/ (j - 1 \in DOMAIN entries /\ entries'[j] = entries[j - 1]))
        <4>1. \A k \in 2 .. Len(entries) + 1 : k - 1 \in 1 .. Len(entries) /\ k - 1 + 1 = k
          BY <1>6
        <4> QED
          BY <1>6, <4>1
      <3> QED
        BY <1>6, <1>7, <3>1 DEF LbTypeOK
    <2> QED
      BY <1>1, <1>5, <1>6, <2>1 DEF LbTypeOK
  <1>9. Handled'
    BY <1>1, <1>2 DEF LbTypeOK, Handled, Null, Packet
  <1>10. Chained'
    <2>1. \A i \in DOMAIN entries' : mem'[entries'[i]] = "live"
      <3> SUFFICES ASSUME NEW i \in DOMAIN entries' PROVE mem'[entries'[i]] = "live"
        OBVIOUS
      <3>1. entries'[i] = p \/ \E j \in DOMAIN entries : entries'[i] = entries[j]
        <4>1. i = 1 \/ (i - 1 \in 1 .. Len(entries) /\ i - 1 + 1 = i)
          BY <1>6
        <4> QED
          BY <1>6, <4>1
      <3> QED
        BY <1>1, <1>2, <1>6, <1>7, <3>1, ElementOfSeq DEF LbTypeOK
    <2>2. \A q \in Live' : \E i \in DOMAIN entries' : entries'[i] = q
      <3>1. \A i \in DOMAIN entries : i + 1 \in DOMAIN entries' /\ entries'[i + 1] = entries[i]
        BY <1>6
      <3>2. 1 \in DOMAIN entries'
        BY <1>6
      <3> QED
        BY <1>4, <1>6, <3>1, <3>2 DEF Chained
    <2> QED
      BY <1>1, <2>1, <2>2 DEF Chained
  <1>11. Cursors'
    BY <1>1, <1>2 DEF LbTypeOK, Cursors
  <1>12. Counted'
    BY <1>1, <1>3, <1>5, SMTT(30) DEF Counted, Counters
  <1> QED
    BY <1>3, <1>8, <1>9, <1>10, <1>11, <1>12

\* A packet whose copy finds no memory is gone.
LEMMA XmitFailsInv == ASSUME LbInv, oops = "none", NEW p \in Packet, XmitFails(p) PROVE LbInv'
  <1> USE DEF LbInv
  <1>1. /\ dev = "up" /\ p \in Fresh(mem) /\ Counts("tx_dropped")
        /\ mem' = [mem EXCEPT ![p] = "freed"]
        /\ UNCHANGED <<dev, entries, timer, lock, allocated, entry, tmp, oops>>
    BY DEF XmitFails, Xmitted, Count
  <1>2. /\ mem \in [Packet -> {"unused", "live", "freed"}] /\ mem[p] = "unused"
        /\ stats' \in [Counters -> Nat]
        /\ stats'["tx"] + stats'["tx_dropped"] = p /\ p <= MaxPackets
        /\ \A q \in Packet : q = p \/ (mem[q] # "unused" <=> q <= p)
        /\ \A c \in Counters \ {"tx_dropped"} : stats'[c] = stats[c]
    BY <1>1, Sends DEF LbTypeOK
  <1>3. Live' = Live /\ ToCome' = ToCome
    BY <1>1, <1>2 DEF Live, ToCome
  <1>4. LbTypeOK' /\ Handled'
    BY <1>1, <1>2 DEF LbTypeOK, Handled
  <1>5. Chained'
    BY <1>1, <1>2, <1>3 DEF Chained, LbTypeOK
  <1>6. Cursors'
    BY <1>1, <1>2 DEF LbTypeOK, Cursors
  <1>7. Counted'
    BY <1>1, <1>2, <1>3 DEF Counted, Counters
  <1>8. Numbered(mem)'
    BY <1>1, <1>2 DEF Numbered, Packet
  <1> QED
    BY <1>2, <1>4, <1>5, <1>6, <1>7, <1>8

\* What has become of the memory, the timers and the list, while the counters of
\* packets sent stay.
LEMMA NumberedFrame ==
    ASSUME Numbered(mem), stats'["tx"] = stats["tx"], stats'["tx_dropped"] = stats["tx_dropped"],
           \A q \in Packet : mem'[q] # "unused" <=> mem[q] # "unused"
    PROVE  Numbered(mem)'
  BY DEF Numbered

\* A timer expires: its packet is still to come.
LEMMA ExpireInv == ASSUME LbInv, oops = "none", NEW p \in Packet, Expire(p) PROVE LbInv'
  <1> USE DEF LbInv
  <1>1. /\ timer[p] = "pending" /\ timer' = [timer EXCEPT ![p] = "recv"]
        /\ UNCHANGED <<dev, entries, mem, lock, allocated, entry, tmp, stats, oops>>
    BY DEF Expire, netVars
  <1>2. Live' = Live /\ ToCome' = ToCome
    BY <1>1 DEF Live, ToCome, LbTypeOK
  <1>3. LbTypeOK' /\ Handled'
    BY <1>1 DEF LbTypeOK, Handled
  <1> QED
    BY <1>1, <1>2, <1>3, NumberedFrame DEF Chained, Cursors, Counted

\* The handler receives the packet, or counts it as dropped.
LEMMA RecvInv == ASSUME LbInv, oops = "none", NEW p \in Packet, Recv(p) PROVE LbInv'
  <1> USE DEF LbInv
  <1>1. /\ timer[p] = "recv" /\ timer' = [timer EXCEPT ![p] = "unlink"]
        /\ Counts("rx") \/ Counts("rx_dropped")
        /\ UNCHANGED <<dev, entries, mem, lock, allocated, entry, tmp, oops>>
    BY DEF Recv, Received, Refused, Count
  <1>2. /\ stats' \in [Counters -> Nat] /\ stats'["tx"] = stats["tx"]
        /\ stats'["tx_dropped"] = stats["tx_dropped"]
        /\ stats'["discarded"] = stats["discarded"]
        /\ stats'["rx"] + stats'["rx_dropped"] = stats["rx"] + stats["rx_dropped"] + 1
    BY <1>1 DEF Counts, Counters
  <1>3. Live' = Live /\ p \in ToCome /\ ToCome' = ToCome \ {p}
    BY <1>1 DEF Live, ToCome, LbTypeOK, Handled
  <1>4. Cardinality(ToCome') = Cardinality(ToCome) - 1 /\ Cardinality(ToCome) \in Nat
    BY <1>3, PacketSets DEF ToCome, Live
  <1>5. Counted'
    BY <1>1, <1>2, <1>3, <1>4 DEF Counted, Counters
  <1>6. LbTypeOK' /\ Handled'
    BY <1>1 DEF LbTypeOK, Handled
  <1> QED
    BY <1>1, <1>2, <1>3, <1>5, <1>6, NumberedFrame DEF Chained, Cursors

\* The use of freed memory stops everything; as long as the interface is up there is
\* none.
LEMMA LbOopsInv ==
    ASSUME LbInv, dev # "up", NEW where \in {"list_del", "unlock", "walk", "del_timer"},
           LbOops(where)
    PROVE  LbInv'
  BY NumberedFrame DEF LbOops, netVars, LbInv, LbTypeOK, Handled, Chained, Cursors, Counted, ToCome,
         Live

\* The handler's critical section takes its own entry off the list, and no other.
LEMMA UnlinkInv == ASSUME LbInv, oops = "none", NEW p \in Packet, Unlink(p) PROVE LbInv'
  <1> USE DEF LbInv
  <1>1. timer[p] = "unlink" /\ lock = Null /\ mem[p] = "live"
    BY DEF Unlink, Handled
  <1>2. CASE \E q \in Neighbours(p) : mem[q] = "freed"
    <2>1. LbOops("list_del")
      BY <1>2 DEF Unlink
    <2>2. dev # "up"
      BY <1>2 DEF Neighbours, Chained
    <2> QED
      BY <2>1, <2>2, LbOopsInv
  <1>3. CASE ~\E q \in Neighbours(p) : mem[q] = "freed"
    <2>1. /\ entries' = ListDel(p) /\ mem' = [mem EXCEPT ![p] = "freed"]
          /\ allocated' = allocated - 1 /\ lock' = p
          /\ timer' = [timer EXCEPT ![p] = "unlock"]
          /\ UNCHANGED <<dev, entry, tmp, stats, oops>>
      BY <1>3 DEF Unlink, netVars
    <2>2. PICK k \in DOMAIN entries : entries[k] = p
      BY <1>1 DEF Chained, Live
    <2>3. /\ entries' \in Seq(Packet)
          /\ \A i, j \in DOMAIN entries' : entries'[i] = entries'[j] => i = j
          /\ \A i \in DOMAIN entries' : \E j \in DOMAIN entries : j # k /\ entries'[i] = entries[j]
          /\ \A j \in DOMAIN entries : j # k => \E i \in DOMAIN entries' : entries'[i] = entries[j]
      BY <2>1, <2>2, ListDelFacts DEF LbTypeOK
    <2>4. p \in Live /\ Live' = Live \ {p} /\ ToCome' = ToCome
      BY <1>1, <2>1 DEF Live, ToCome, LbTypeOK
    <2>5. /\ Cardinality(Live') = Cardinality(Live) - 1 /\ Cardinality(Live) \in Nat
          /\ Cardinality(Live') \in 0 .. Cardinality(Packet)
      BY <2>4, PacketSets DEF Live
    <2>6. Counted' /\ allocated' \in 0 .. Cardinality(Packet)
      BY <2>1, <2>4, <2>5 DEF Counted
    <2>7. LbTypeOK'
      BY <2>1, <2>3, <2>6 DEF LbTypeOK
    <2>8. Handled'
      BY <1>1, <2>1 DEF LbTypeOK, Handled, Null, Packet
    <2>9. Chained'
      <3>1. \A i \in DOMAIN entries' :
               /\ entries'[i] # p
               /\ \E j \in DOMAIN entries : entries'[i] = entries[j]
        BY <2>2, <2>3 DEF LbTypeOK
      <3>2. \A i \in DOMAIN entries' : entries'[i] \in Packet
        BY <2>3, LenProperties, ElementOfSeq
      <3>3. \A i \in DOMAIN entries' : mem'[entries'[i]] = mem[entries'[i]]
        BY <2>1, <3>1, <3>2 DEF LbTypeOK
      <3>4. \A q \in Live' : \E i \in DOMAIN entries' : entries'[i] = q
        BY <2>2, <2>3, <2>4 DEF Chained
      <3> QED
        BY <2>1, <3>1, <3>3, <3>4 DEF Chained
    <2>10. Cursors'
      BY <2>1 DEF LbTypeOK, Cursors
    <2>11. Numbered(mem)'
      BY <1>1, <2>1, NumberedFrame DEF LbTypeOK
    <2> QED
      BY <2>1, <2>6, <2>7, <2>8, <2>9, <2>10, <2>11
  <1> QED
    BY <1>2, <1>3

\* The handler lets go of the lock.
LEMMA UnlockInv == ASSUME LbInv, oops = "none", NEW p \in Packet, Unlock(p) PROVE LbInv'
  <1> USE DEF LbInv
  <1>1. CASE dev = "freed"
    BY <1>1, LbOopsInv DEF Unlock
  <1>2. CASE dev # "freed"
    <2>1. /\ timer[p] = "unlock" /\ lock' = Null /\ timer' = [timer EXCEPT ![p] = "none"]
          /\ UNCHANGED <<dev, entries, mem, allocated, entry, tmp, stats, oops>>
      BY <1>2 DEF Unlock, netVars
    <2>2. lock = p /\ p # Null /\ Live' = Live /\ ToCome' = ToCome
      BY <2>1 DEF LbTypeOK, Handled, Live, ToCome, Packet, Null
    <2>3. LbTypeOK'
      BY <2>1 DEF LbTypeOK
    <2>4. Handled'
      BY <2>1, <2>2 DEF LbTypeOK, Handled, Packet, Null
    <2> QED
      BY <2>1, <2>2, <2>3, <2>4, NumberedFrame DEF Chained, Cursors, Counted
  <1> QED
    BY <1>1, <1>2

\* Where the cursors may go: to entries that were sent, and that are in memory as
\* long as nothing was removed.
LEMMA VisitInv ==
    ASSUME LbInv, oops = "none", dev \in {"up", "next"}, NEW p \in Packet \union {Null}, Visit(p),
           p # Null => mem[p] # "unused", p # Null /\ dev = "up" => mem[p] = "live"
    PROVE  LbInv'
  <1> USE DEF LbInv
  <1>1. CASE p = Null
    <2>1. dev' = "spin" /\ UNCHANGED <<entries, mem, timer, lock, allocated, entry, tmp, stats, oops>>
      BY <1>1 DEF Visit, netVars
    <2>2. Live' = Live /\ ToCome' = ToCome
      BY <2>1 DEF Live, ToCome
    <2> QED
      BY <2>1, <2>2, NumberedFrame DEF LbTypeOK, Handled, Chained, Cursors, Counted
  <1>2. CASE p # Null /\ mem[p] = "freed"
    BY <1>2, LbOopsInv DEF Visit
  <1>3. CASE p # Null /\ mem[p] # "freed"
    <2>1. /\ dev' = "del" /\ entry' = p /\ tmp' = After(p)
          /\ UNCHANGED <<entries, mem, timer, lock, allocated, stats, oops>>
      BY <1>3 DEF Visit, netVars
    <2>2. Live' = Live /\ ToCome' = ToCome /\ p \in Live
      BY <1>3, <2>1 DEF Live, ToCome, LbTypeOK
    <2>3. tmp' \in Packet \union {Null} /\ (tmp' # Null => mem[tmp'] # "unused")
      <3> DEFINE i == CHOOSE i \in DOMAIN entries : entries[i] = p
      <3>1. i \in DOMAIN entries
        BY <2>2 DEF Chained
      <3>2. tmp' = IF i = Len(entries) THEN Null ELSE entries[i + 1]
        BY <2>1 DEF After
      <3> HIDE DEF i
      <3>3. /\ DOMAIN entries = 1 .. Len(entries) /\ Len(entries) \in Nat
            /\ \A j \in DOMAIN entries : entries[j] \in Packet
        BY LenProperties, ElementOfSeq DEF LbTypeOK
      <3>4. i = Len(entries) \/ i + 1 \in DOMAIN entries
        BY <3>1, <3>3
      <3> QED
        BY <3>2, <3>3, <3>4 DEF Chained
    <2>4. LbTypeOK'
      BY <1>3, <2>1, <2>3 DEF LbTypeOK
    <2>5. Cursors'
      BY <1>3, <2>1, <2>3 DEF Cursors
    <2> QED
      BY <2>1, <2>2, <2>4, <2>5, NumberedFrame DEF Handled, Chained, Counted
  <1> QED
    BY <1>1, <1>2, <1>3

\* The removal begins at the head of the list.
LEMMA UninitInv == ASSUME LbInv, oops = "none", Uninit PROVE LbInv'
  <1> DEFINE p == IF entries = << >> THEN Null ELSE Head(entries)
  <1> USE DEF LbInv
  <1>1. dev = "up" /\ Visit(p)
    BY DEF Uninit
  <1>2. entries = << >> \/ (1 \in DOMAIN entries /\ Head(entries) = entries[1])
    <2>1. entries \in Seq(Packet) /\ DOMAIN entries = 1 .. Len(entries) /\ Len(entries) \in Nat
      BY LenProperties DEF LbTypeOK
    <2>2. entries # << >> => Len(entries) > 0
      BY <2>1, EmptySeq
    <2> QED
      BY <2>1, <2>2
  <1>3. p = Null \/ (p \in Packet /\ mem[p] = "live")
    BY <1>1, <1>2, LenProperties, ElementOfSeq DEF LbTypeOK, Chained
  <1> HIDE DEF p
  <1> QED
    BY <1>1, <1>3, VisitInv

\* The removal goes on with the entry it looked up before.
LEMMA NextEntryInv == ASSUME LbInv, oops = "none", NextEntry PROVE LbInv'
  BY VisitInv DEF NextEntry, LbInv, LbTypeOK, Cursors

\* A timer that was pending is removed, and its packet discarded.
LEMMA DelTimerInv == ASSUME LbInv, oops = "none", DelTimer PROVE LbInv'
  <1> USE DEF LbInv
  <1>1. dev = "del" /\ entry \in Packet
    BY DEF DelTimer, Cursors, LbTypeOK
  <1>2. CASE mem[entry] = "freed"
    BY <1>1, <1>2, LbOopsInv DEF DelTimer
  <1>3. CASE mem[entry] # "freed"
    <2>1. /\ mem[entry] = "live" /\ timer[entry] = "pending"
          /\ timer' = [timer EXCEPT ![entry] = "none"]
          /\ mem' = [mem EXCEPT ![entry] = "freed"]
          /\ allocated' = allocated - 1 /\ Count("discarded") /\ dev' = "next"
          /\ UNCHANGED <<entries, lock, entry, tmp, oops>>
      BY <1>3 DEF DelTimer
    <2>2. /\ stats' \in [Counters -> Nat] /\ stats'["discarded"] = stats["discarded"] + 1
          /\ \A c \in Counters \ {"discarded"} : stats'[c] = stats[c]
      BY <2>1 DEF Count, Counts, Counters
    <2>3. /\ entry \in Live /\ Live' = Live \ {entry}
          /\ entry \in ToCome /\ ToCome' = ToCome \ {entry}
      BY <1>1, <2>1 DEF Live, ToCome, LbTypeOK
    <2>4. /\ Cardinality(Live') = Cardinality(Live) - 1 /\ Cardinality(Live) \in Nat
          /\ Cardinality(Live') \in 0 .. Cardinality(Packet)
          /\ Cardinality(ToCome') = Cardinality(ToCome) - 1 /\ Cardinality(ToCome) \in Nat
      <3>1. Live \subseteq Packet /\ ToCome \subseteq Packet /\ Live' \subseteq Packet
        BY DEF Live, ToCome
      <3> QED
        BY <2>3, <3>1, PacketSets
    <2>5. Counted' /\ allocated' \in 0 .. Cardinality(Packet)
      BY <2>1, <2>2, <2>4 DEF Counted, Counters
    <2>6. LbTypeOK'
      BY <2>1, <2>5 DEF LbTypeOK
    <2>7. Handled'
      BY <1>1, <2>1 DEF LbTypeOK, Handled
    <2>8. Chained' /\ Cursors'
      BY <1>1, <2>1, <2>3 DEF LbTypeOK, Chained, Cursors
    <2>9. Numbered(mem)'
      BY <1>1, <2>1, <2>2, NumberedFrame DEF LbTypeOK, Counters
    <2> QED
      BY <2>2, <2>5, <2>6, <2>7, <2>8, <2>9
  <1> QED
    BY <1>2, <1>3

\* The removal goes on when its counter is zero: then no entry is left in memory.
LEMMA SpinInv == ASSUME LbInv, oops = "none", Spin \/ FreeNetdev PROVE LbInv'
  <1> USE DEF LbInv
  <1>1. /\ dev' \in {"gone", "freed"} /\ (dev = "gone" \/ allocated = 0)
        /\ UNCHANGED <<entries, mem, timer, lock, allocated, entry, tmp, stats, oops>>
    BY DEF Spin, FreeNetdev, netVars
  <1>2. Live' = Live /\ ToCome' = ToCome
    BY <1>1 DEF Live, ToCome
  <1>3. Live = {}
    BY <1>1, PacketSets DEF Counted, Live
  <1> QED
    BY <1>1, <1>2, <1>3, NumberedFrame DEF LbTypeOK, Handled, Chained, Cursors, Counted

\* LbInv is inductive.
LEMMA LbStep == ASSUME LbInv, LbNext PROVE LbInv'
  BY XmitInv, XmitFailsInv, ExpireInv, RecvInv, UnlinkInv, UnlockInv, UninitInv, NextEntryInv,
     DelTimerInv, SpinInv
  DEF LbNext, LbGoesOn, Handler, Removal

-----------------------------------------------------------------------------
(* The character device backend.                                           *)

Place == {"closed", "open", "prepare", "check", "schedule", "copy", "enrol", "sleep"}
Call == [pc : Place, block : BOOLEAN, packet : Packet \union {Null}, missed : BOOLEAN]

\* A task has a packet while it copies it; only tasks in a blocking read or asleep in
\* poll are on the wait queue; a poller about to enrol has seen an empty list.
Seated(t) ==
    /\ task[t].pc = "copy" <=> task[t].packet # Null
    /\ t \in waiting => task[t].pc \in {"check", "schedule", "sleep"}
    /\ task[t].pc \in {"prepare", "schedule"} => task[t].block
    /\ task[t].pc = "check" /\ t \in waiting => task[t].block
    /\ task[t].pc = "enrol" /\ chrDev = "up" /\ packets # << >> => task[t].missed

\* A packet is linked at most once, or has at most one reader.
Apart ==
    /\ \A i, j \in DOMAIN packets : packets[i] = packets[j] => i = j
    /\ \A t \in Task : \A i \in DOMAIN packets : packets[i] # task[t].packet
    /\ \A t, u \in Task : task[t].packet = task[u].packet => t = u \/ task[t].packet = Null

\* What the interface has counted.
ChrCounted ==
    /\ stats["rx"] + stats["rx_dropped"] <= MaxWrites
    /\ stats["discarded"] = 0
    /\ wakes <= stats["tx"]

ChrInv ==
    /\ stats \in [Counters -> Nat]
    /\ ChrTypeOK
    /\ ChrInOrder
    /\ ChrNoLostWakeup
    /\ \A t \in Task : Seated(t)
    /\ Apart
    /\ ChrCounted
    /\ Numbered(chrMem)

\* The initial state, also that of a backend that is not used.
LEMMA ChrIdle == ChrInit => ChrTypeOK /\ ChrInOrder /\ ChrNoLostWakeup
  <1> SUFFICES ASSUME ChrInit PROVE ChrTypeOK /\ ChrInOrder /\ ChrNoLostWakeup
    OBVIOUS
  <1>1. << >> \in Seq(Packet) /\ << >> \o << >> = << >> /\ DOMAIN << >> = {}
    BY EmptySeq, ConcatEmptySeq
  <1>2. ChrTypeOK
    BY <1>1, PacketSets, VirtnetNetAssumption DEF ChrInit, ChrTypeOK, Idle
  <1>3. ChrInOrder /\ ChrNoLostWakeup
    BY <1>1 DEF ChrInit, ChrInOrder, ChrNoLostWakeup, Held, Linked, Idle
  <1> QED
    BY <1>2, <1>3

\* Nobody reads, nothing is on the list.
LEMMA ChrInitInv == NetInit /\ ChrInit => ChrInv
  <1> SUFFICES ASSUME NetInit, ChrInit PROVE ChrInv
    OBVIOUS
  <1>1. stats \in [Counters -> Nat] /\ \A c \in Counters : stats[c] = 0
    BY DEF NetInit
  <1>2. (\A t \in Task : Seated(t)) /\ Apart
    BY DEF ChrInit, Seated, Apart, Idle
  <1>3. ChrCounted /\ Numbered(chrMem)
    BY <1>1, VirtnetNetAssumption, VirtnetChrAssumption
    DEF ChrInit, ChrCounted, Numbered, Counters, Packet
  <1> QED
    BY <1>1, <1>2, <1>3, ChrIdle DEF ChrInv

\* A use of the device after it was freed stops everything.
LEMMA ChrOopsInv ==
    ASSUME ChrInv, NEW where \in {"read", "write", "poll", "open"}, ChrOops(where)
    PROVE  ChrInv'
  BY DEF ChrOops, queue, users, netVars, ChrInv, ChrTypeOK, ChrInOrder, Held, Linked,
         ChrNoLostWakeup, Seated, Apart, ChrCounted, Numbered

\* A step of a task that neither takes nor gives up a packet keeps the invariant if it
\* leaves the task where it may be.
LEMMA CallMoves ==
    ASSUME ChrInv, NEW t \in Task, NEW c \in Call, task' = [task EXCEPT ![t] = c],
           task[t].packet = Null, c.packet = Null, c.pc # "copy",
           waiting' \in {waiting, waiting \union {t}, waiting \ {t}},
           t \in waiting' => c.pc \in {"check", "schedule", "sleep"},
           c.pc \in {"prepare", "schedule"} => c.block,
           c.pc = "check" /\ t \in waiting' => c.block,
           c.pc = "enrol" /\ chrDev = "up" /\ packets # << >> => c.missed,
           t \in waiting' /\ chrDev = "up" /\ packets # << >> =>
               wakes > 0 \/ c.pc = "check" \/ (c.pc = "sleep" /\ c.missed),
           UNCHANGED <<chrDev, packets, chrMem, sent, taken, wakes, chrOops, stats>>
    PROVE  ChrInv'
  <1> USE DEF ChrInv
  <1>1. /\ task \in [Task -> Call] /\ task' \in [Task -> Call] /\ task'[t] = c
        /\ \A s \in Task : task'[s].packet = task[s].packet
        /\ \A s \in Task \ {t} : task'[s] = task[s] /\ (s \in waiting' <=> s \in waiting)
        /\ waiting' \subseteq Task
    BY DEF ChrTypeOK, Call, Place
  <1>2. ChrTypeOK'
    BY <1>1 DEF ChrTypeOK, Call, Place
  <1>3. ChrInOrder'
    <2>1. Held' = Held
      BY <1>1 DEF Held
    <2> QED
      BY <2>1 DEF ChrInOrder, Linked
  <1>4. ChrNoLostWakeup'
    BY <1>1 DEF ChrNoLostWakeup
  <1>5. (\A s \in Task : Seated(s))'
    BY <1>1 DEF Seated
  <1>6. Apart'
    BY <1>1 DEF Apart
  <1> QED
    BY <1>2, <1>3, <1>4, <1>5, <1>6 DEF ChrCounted, Numbered

\* Reading, up to the packet.
LEMMA ReadMoves ==
    ASSUME ChrInv, NEW t \in Task,
           ReadCall(t) \/ ReadPrepare(t) \/ ReadEmpty(t) \/ ReadWoken(t) \/ ReadInterrupted(t)
    PROVE  ChrInv'
  <1> USE DEF ChrInv
  <1>1. task[t] \in Call /\ Seated(t)
    BY DEF ChrTypeOK, Call, Place
  <1>2. ASSUME NEW l \in Place \ {"copy"}, ChrGoto(t, l), task[t].pc # "copy"
        PROVE  /\ task[t].packet = Null
               /\ \E c \in Call : /\ task' = [task EXCEPT ![t] = c]
                                  /\ c = [task[t] EXCEPT !.pc = l]
    BY <1>1, <1>2 DEF ChrGoto, Seated, Call
  <1>3. CASE ReadCall(t)
    <2>1. PICK block \in BOOLEAN :
            task' = [task EXCEPT ![t] = [Idle EXCEPT !.block = block,
                                                     !.pc = IF block THEN "prepare" ELSE "check"]]
      BY <1>3 DEF ReadCall
    <2>2. /\ task[t].pc = "open"
          /\ UNCHANGED <<chrDev, packets, chrMem, sent, taken, wakes, waiting, chrOops, stats>>
      BY <1>3 DEF ReadCall, queue, netVars
    <2> DEFINE c == [Idle EXCEPT !.block = block, !.pc = IF block THEN "prepare" ELSE "check"]
    <2>3. /\ c \in Call /\ c.packet = Null /\ c.block = block
          /\ c.pc = IF block THEN "prepare" ELSE "check"
      BY DEF Idle, Call, Place
    <2>4. task' = [task EXCEPT ![t] = c] /\ task[t].packet = Null /\ t \notin waiting
      BY <1>1, <2>1, <2>2 DEF Seated
    <2> HIDE DEF c
    <2> QED
      BY <2>2, <2>3, <2>4, CallMoves
  <1>4. CASE ReadPrepare(t)
    <2>1. CASE chrDev = "freed"
      BY <1>4, <2>1, ChrOopsInv DEF ReadPrepare, Using
    <2>2. CASE chrDev # "freed"
      <3>1. /\ task[t].pc = "prepare" /\ waiting' = waiting \union {t} /\ ChrGoto(t, "check")
            /\ UNCHANGED <<chrDev, packets, chrMem, sent, taken, wakes, chrOops, stats>>
        BY <1>4, <2>2 DEF ReadPrepare, Using, queue, netVars
      <3> QED
        BY <1>1, <1>2, <3>1, CallMoves DEF Seated, Call, Place
    <2> QED
      BY <2>1, <2>2
  <1>5. CASE ReadEmpty(t)
    <2>1. CASE chrDev = "freed"
      BY <1>5, <2>1, ChrOopsInv DEF ReadEmpty, Using
    <2>2. CASE chrDev # "freed"
      <3>1. /\ task[t].pc = "check" /\ packets = << >>
            /\ ChrGoto(t, IF task[t].block THEN "schedule" ELSE "open")
            /\ UNCHANGED <<chrDev, packets, chrMem, sent, taken, wakes, waiting, chrOops, stats>>
        BY <1>5, <2>2 DEF ReadEmpty, Using, queue, netVars
      <3> QED
        BY <1>1, <1>2, <3>1, CallMoves DEF Seated, Call, Place
    <2> QED
      BY <2>1, <2>2
  <1>6. CASE ReadWoken(t)
    <2>1. CASE chrDev = "freed"
      BY <1>6, <2>1, ChrOopsInv DEF ReadWoken, Using
    <2>2. CASE chrDev # "freed"
      <3>1. /\ task[t].pc = "schedule" /\ t \notin waiting /\ ChrGoto(t, "prepare")
            /\ UNCHANGED <<chrDev, packets, chrMem, sent, taken, wakes, waiting, chrOops, stats>>
        BY <1>6, <2>2 DEF ReadWoken, Using, queue, netVars
      <3> QED
        BY <1>1, <1>2, <3>1, CallMoves DEF Seated, Call, Place
    <2> QED
      BY <2>1, <2>2
  <1>7. CASE ReadInterrupted(t)
    <2>1. CASE chrDev = "freed"
      BY <1>7, <2>1, ChrOopsInv DEF ReadInterrupted, Using
    <2>2. CASE chrDev # "freed"
      <3>1. /\ task[t].pc = "schedule" /\ waiting' = waiting \ {t} /\ ChrGoto(t, "open")
            /\ UNCHANGED <<chrDev, packets, chrMem, sent, taken, wakes, chrOops, stats>>
        BY <1>7, <2>2 DEF ReadInterrupted, Using, queue, netVars
      <3> QED
        BY <1>1, <1>2, <3>1, CallMoves DEF Seated, Call, Place
    <2> QED
      BY <2>1, <2>2
  <1> QED
    BY <1>3, <1>4, <1>5, <1>6, <1>7

\* Polling, opening and closing.
LEMMA PollMoves ==
    ASSUME ChrInv, NEW t \in Task, Polling(t) \/ ChrOpen(t) \/ ChrRelease(t)
    PROVE  ChrInv'
  <1> USE DEF ChrInv
  <1>1. task[t] \in Call /\ Seated(t)
    BY DEF ChrTypeOK, Call, Place
  <1>2. ASSUME NEW l \in Place \ {"copy"}, ChrGoto(t, l), task[t].pc # "copy"
        PROVE  /\ task[t].packet = Null
               /\ \E c \in Call : /\ task' = [task EXCEPT ![t] = c]
                                  /\ c = [task[t] EXCEPT !.pc = l]
    BY <1>1, <1>2 DEF ChrGoto, Seated, Call
  <1>3. CASE PollTest(t)
    <2>1. CASE chrDev = "freed"
      BY <1>3, <2>1, ChrOopsInv DEF PollTest, Using
    <2>2. CASE chrDev # "freed"
      <3>1. /\ task[t].pc = "open" /\ packets = << >> /\ ChrGoto(t, "enrol")
            /\ UNCHANGED <<chrDev, packets, chrMem, sent, taken, wakes, waiting, chrOops, stats>>
        BY <1>3, <2>2 DEF PollTest, Using, queue, netVars
      <3> QED
        BY <1>1, <1>2, <3>1, CallMoves DEF Seated, Call, Place
    <2> QED
      BY <2>1, <2>2
  <1>4. CASE PollEnrol(t)
    <2>1. CASE chrDev = "freed"
      BY <1>4, <2>1, ChrOopsInv DEF PollEnrol, Using
    <2>2. CASE chrDev # "freed"
      <3>1. /\ task[t].pc = "enrol" /\ waiting' = waiting \union {t} /\ ChrGoto(t, "sleep")
            /\ UNCHANGED <<chrDev, packets, chrMem, sent, taken, wakes, chrOops, stats>>
        BY <1>4, <2>2 DEF PollEnrol, Using, queue, netVars
      <3> QED
        BY <1>1, <1>2, <3>1, CallMoves DEF Seated, Call, Place
    <2> QED
      BY <2>1, <2>2
  <1>5. CASE PollEnds(t)
    <2>1. CASE chrDev = "freed"
      BY <1>5, <2>1, ChrOopsInv DEF PollEnds, Using
    <2>2. CASE chrDev # "freed"
      <3>1. /\ task[t].pc = "sleep" /\ waiting' = waiting \ {t}
            /\ task' = [task EXCEPT ![t] = [Idle EXCEPT !.pc = "open"]]
            /\ UNCHANGED <<chrDev, packets, chrMem, sent, taken, wakes, chrOops, stats>>
        BY <1>5, <2>2 DEF PollEnds, Using, queue, netVars
      <3>2. /\ [Idle EXCEPT !.pc = "open"] \in Call /\ [Idle EXCEPT !.pc = "open"].pc = "open"
            /\ [Idle EXCEPT !.pc = "open"].packet = Null
        BY DEF Idle, Call, Place
      <3> QED
        BY <1>1, <3>1, <3>2, CallMoves DEF Seated
    <2> QED
      BY <2>1, <2>2
  <1>6. CASE ChrOpen(t)
    <2>1. CASE chrDev \in {"gone", "nostats", "freed"}
      BY <1>6, <2>1, ChrOopsInv DEF ChrOpen
    <2>2. CASE chrDev \notin {"gone", "nostats", "freed"}
      <3>1. /\ task[t].pc = "closed" /\ ChrGoto(t, "open")
            /\ UNCHANGED <<chrDev, packets, chrMem, sent, taken, wakes, waiting, chrOops, stats>>
        BY <1>6, <2>2 DEF ChrOpen, queue, netVars
      <3> QED
        BY <1>1, <1>2, <3>1, CallMoves DEF Seated, Call, Place
    <2> QED
      BY <2>1, <2>2
  <1>7. CASE ChrRelease(t)
    <2>1. /\ task[t].pc = "open" /\ ChrGoto(t, "closed")
          /\ UNCHANGED <<chrDev, packets, chrMem, sent, taken, wakes, waiting, chrOops, stats>>
      BY <1>7 DEF ChrRelease, queue, netVars
    <2> QED
      BY <1>1, <1>2, <2>1, CallMoves DEF Seated, Call, Place
  <1> QED
    BY <1>3, <1>4, <1>5, <1>6, <1>7 DEF Polling

\* What a task writes is received, or counted as dropped.
LEMMA ChrWriteInv == ASSUME ChrInv, NEW t \in Task, ChrWrite(t) PROVE ChrInv'
  <1> USE DEF ChrInv
  <1>1. CASE chrDev \in {"nostats", "freed"} /\ ChrOops("write")
    BY <1>1, ChrOopsInv
  <1>2. CASE (Refused \/ Received) /\ UNCHANGED chrVars
    <2>1. /\ stats["rx"] + stats["rx_dropped"] < MaxWrites
          /\ Counts("rx") \/ Counts("rx_dropped")
          /\ UNCHANGED chrVars
      BY <1>2 DEF ChrWrite, Received, Refused, Count
    <2>2. /\ stats' \in [Counters -> Nat]
          /\ \A c \in {"tx", "tx_dropped", "discarded"} : stats'[c] = stats[c]
          /\ stats'["rx"] + stats'["rx_dropped"] = stats["rx"] + stats["rx_dropped"] + 1
      BY <2>1 DEF Counts, Counters
    <2>3. UNCHANGED <<chrDev, packets, chrMem, wakes, waiting, task, sent, taken, chrOops>>
      BY <2>1 DEF chrVars
    <2>4. ChrCounted' /\ Numbered(chrMem)'
      <3>1. stats["rx"] \in Nat /\ stats["rx_dropped"] \in Nat /\ MaxWrites \in Nat
        BY VirtnetChrAssumption DEF Counters
      <3> QED
        BY <2>1, <2>2, <2>3, <3>1 DEF ChrCounted, Numbered
    <2>5. ChrTypeOK' /\ ChrInOrder' /\ ChrNoLostWakeup' /\ (\A s \in Task : Seated(s))' /\ Apart'
      BY <2>3 DEF ChrTypeOK, ChrInOrder, Held, Linked, ChrNoLostWakeup, Seated, Apart
    <2> QED
      BY <2>2, <2>4, <2>5
  <1> QED
    BY <1>1, <1>2 DEF ChrWrite

\* What a queue does to the order of what goes through it.
LEMMA TakeFacts ==
    ASSUME NEW S, NEW q \in Seq(S), q # << >>, NEW s \in Seq(S)
    PROVE  /\ Tail(q) \in Seq(S) /\ 1 \in DOMAIN q /\ Head(q) = q[1] /\ Head(q) \in S
           /\ Append(s, Head(q)) \in Seq(S) /\ Append(s, Head(q)) \o Tail(q) = s \o q
           /\ \A i \in DOMAIN Tail(q) : i + 1 \in DOMAIN q /\ Tail(q)[i] = q[i + 1]
           /\ \A i \in DOMAIN q : i = 1 \/ (\E j \in DOMAIN Tail(q) : i = j + 1)
  <1>1. Len(q) \in Nat /\ Len(q) > 0 /\ DOMAIN q = 1 .. Len(q)
    BY LenProperties, EmptySeq
  <1>2. /\ Tail(q) \in Seq(S) /\ Len(Tail(q)) = Len(q) - 1 /\ Head(q) \in S
        /\ \A i \in 1 .. Len(Tail(q)) : Tail(q)[i] = q[i + 1]
    BY HeadTailProperties
  <1>3. DOMAIN Tail(q) = 1 .. Len(q) - 1
    BY <1>2, LenProperties
  <1>4. Head(q) = q[1]
    BY <1>1
  <1>5. Append(s, Head(q)) \o Tail(q) = s \o q
    <2>1. q = <<q[1]>> \o Tail(q)
      <3>1. SubSeq(q, 1, Len(q)) = q
        BY SubSeqFull
      <3>2. SubSeq(q, 1, Len(q)) = <<q[1]>> \o SubSeq(q, 1 + 1, Len(q))
        BY <1>1, SubSeqRecursiveFirst
      <3>3. Tail(q) = SubSeq(q, 2, Len(q))
        BY TailIsSubSeq
      <3> QED
        BY <3>1, <3>2, <3>3
    <2>2. Append(s, Head(q)) = s \o <<q[1]>> /\ <<q[1]>> \in Seq(S)
      BY <1>2, <1>4, AppendIsConcat
    <2> QED
      BY <1>2, <2>1, <2>2, ConcatAssociative
  <1>6. Append(s, Head(q)) \in Seq(S)
    BY <1>2, AppendProperties
  <1>7. \A i \in DOMAIN q : i = 1 \/ (\E j \in DOMAIN Tail(q) : i = j + 1)
    <2> SUFFICES ASSUME NEW i \in 1 .. Len(q), i # 1
                 PROVE  i - 1 \in 1 .. Len(q) - 1 /\ i = i - 1 + 1
      BY <1>1, <1>3
    <2> QED
      BY <1>1
  <1> QED
    BY <1>1, <1>2, <1>3, <1>4, <1>5, <1>6, <1>7

\* And what putting one more at its end does to the queue.
LEMMA PutFacts ==
    ASSUME NEW S, NEW q \in Seq(S), NEW p \in S, NEW e, e = Append(q, p)
    PROVE  /\ e \in Seq(S) /\ e = q \o <<p>>
           /\ DOMAIN e = DOMAIN q \union {Len(q) + 1} /\ e[Len(q) + 1] = p
           /\ \A i \in DOMAIN q : e[i] = q[i]
  <1>1. Len(q) \in Nat /\ DOMAIN q = 1 .. Len(q)
    BY LenProperties
  <1>2. /\ e \in Seq(S) /\ Len(e) = Len(q) + 1 /\ e[Len(q) + 1] = p
        /\ \A i \in 1 .. Len(q) : e[i] = q[i]
    BY AppendProperties
  <1>3. DOMAIN e = 1 .. Len(q) + 1
    BY <1>2, LenProperties
  <1>4. e = q \o <<p>>
    BY AppendIsConcat
  <1> QED
    BY <1>1, <1>2, <1>3, <1>4

\* A packet is in memory while a reader holds it, or it is linked and the interface up.
InMemory ==
    \A p \in Packet :
        chrMem[p] = "live" <=>
            \/ \E t \in Task : task[t].packet = p
            \/ (chrDev = "up" /\ \E i \in DOMAIN packets : packets[i] = p)

\* The set equation of ChrInOrder, packet by packet.
LEMMA MemoryFacts ==
    /\ ChrTypeOK /\ ChrInOrder => InMemory
    /\ ChrTypeOK /\ sent = taken \o packets /\ InMemory => ChrInOrder
  <1>1. ChrTypeOK => /\ Held \subseteq Packet /\ Linked \subseteq Packet
                     /\ \A p \in Packet : p \in Held <=> \E t \in Task : task[t].packet = p
                     /\ \A p : p \in Linked <=> \E i \in DOMAIN packets : packets[i] = p
    <2>1. ChrTypeOK => \A i \in DOMAIN packets : packets[i] \in Packet
      BY LenProperties, ElementOfSeq DEF ChrTypeOK
    <2>2. ChrTypeOK => Held \subseteq Packet
      BY DEF ChrTypeOK, Held
    <2> QED
      BY <2>1, <2>2 DEF Held, Linked, Packet, Null
  <1>2. ASSUME ChrTypeOK, ChrInOrder PROVE InMemory
    BY <1>1, <1>2 DEF ChrInOrder, InMemory
  <1>3. ASSUME ChrTypeOK, sent = taken \o packets, InMemory PROVE ChrInOrder
    <2>1. ASSUME NEW p \in Packet
          PROVE  chrMem[p] = "live" <=> p \in Held \/ (chrDev = "up" /\ p \in Linked)
      BY <1>1, <1>3 DEF InMemory
    <2> QED
      BY <1>1, <1>3, <2>1 DEF ChrInOrder
  <1> QED
    BY <1>2, <1>3

\* A reader takes the first packet, and is the only one that has it.
LEMMA ReadTakeInv == ASSUME ChrInv, NEW t \in Task, ReadTake(t) PROVE ChrInv'
  <1> USE DEF ChrInv
  <1>1. CASE chrDev # "up"
    BY <1>1, ChrOopsInv DEF ReadTake
  <1>2. CASE chrDev = "up"
    <2> DEFINE h == Head(packets)
    <2>1. /\ task[t].pc = "check" /\ packets # << >>
          /\ task' = [task EXCEPT ![t].pc = "copy", ![t].packet = h]
          /\ packets' = Tail(packets) /\ taken' = Append(taken, h) /\ waiting' = waiting \ {t}
          /\ UNCHANGED <<chrDev, chrMem, wakes, sent, chrOops, stats>>
      BY <1>2 DEF ReadTake, netVars
    <2>2. /\ packets' \in Seq(Packet) /\ 1 \in DOMAIN packets /\ h = packets[1] /\ h \in Packet
          /\ taken' \in Seq(Packet) /\ taken' \o packets' = taken \o packets
          /\ \A i \in DOMAIN packets' : i + 1 \in DOMAIN packets /\ packets'[i] = packets[i + 1]
          /\ \A i \in DOMAIN packets : i = 1 \/ (\E j \in DOMAIN packets' : i = j + 1)
      BY <2>1, TakeFacts, SMTT(30) DEF ChrTypeOK
    <2>3. DOMAIN packets \subseteq Nat /\ DOMAIN packets' \subseteq Nat
      BY <2>2, LenProperties DEF ChrTypeOK
    <2> HIDE DEF h
    <2>4. /\ task \in [Task -> Call] /\ task' \in [Task -> Call]
          /\ task'[t].packet = h /\ task'[t].pc = "copy" /\ task[t].packet = Null
          /\ \A s \in Task \ {t} : task'[s] = task[s]
      <3>1. task \in [Task -> Call] /\ task[t].packet = Null
        BY <2>1 DEF ChrTypeOK, Call, Place, Seated
      <3>2. task' = [task EXCEPT ![t] = [task[t] EXCEPT !.pc = "copy", !.packet = h]]
        BY <2>1, <3>1
      <3> QED
        BY <2>2, <3>1, <3>2, ZenonT(40) DEF Call, Place
    <2>5. ChrTypeOK'
      BY <2>1, <2>2, <2>4 DEF ChrTypeOK, Call, Place
    <2>6. InMemory'
      <3>1. InMemory
        BY MemoryFacts
      <3> SUFFICES ASSUME NEW p \in Packet
                   PROVE  chrMem[p] = "live" <=>
                              \/ \E s \in Task : task'[s].packet = p
                              \/ \E i \in DOMAIN packets' : packets'[i] = p
        BY <1>2, <2>1 DEF InMemory
      <3>2. (\E s \in Task : task'[s].packet = p) <=> p = h \/ (\E s \in Task : task[s].packet = p)
        BY <2>4 DEF Packet, Null
      <3>3. p = h \/ (\E i \in DOMAIN packets' : packets'[i] = p)
                <=> \E i \in DOMAIN packets : packets[i] = p
        BY <2>2, <2>3
      <3> QED
        BY <1>2, <3>1, <3>2, <3>3 DEF InMemory
    <2>7. ChrInOrder'
      <3>1. (sent = taken \o packets)'
        BY <2>1, <2>2 DEF ChrInOrder
      <3> QED
        BY <2>5, <2>6, <3>1, MemoryFacts, PTL
    <2>8. ChrNoLostWakeup' /\ (\A s \in Task : Seated(s))'
      <3>1. h # Null /\ \A s \in Task : Seated(s)
        BY <2>2 DEF Packet, Null
      <3>2. ASSUME NEW s \in Task PROVE Seated(s)'
        <4>1. CASE s = t
          BY <1>2, <2>1, <2>4, <3>1, <4>1 DEF Seated
        <4>2. CASE s # t
          BY <1>2, <2>1, <2>4, <3>1, <4>2 DEF Seated
        <4> QED
          BY <4>1, <4>2
      <3>3. ChrNoLostWakeup'
        BY <1>2, <2>1, <2>4 DEF ChrNoLostWakeup, ChrTypeOK
      <3> QED
        BY <3>2, <3>3
    <2>9. Apart'
      <3>1. \A i, j \in DOMAIN packets' : packets'[i] = packets'[j] => i = j
        BY <2>2, <2>3 DEF Apart
      <3>2. ASSUME NEW s \in Task, NEW i \in DOMAIN packets' PROVE packets'[i] # task'[s].packet
        <4>1. CASE s = t
          <5>1. i + 1 # 1 /\ i + 1 \in DOMAIN packets /\ packets'[i] = packets[i + 1]
            BY <2>2, <2>3
          <5>2. packets[i + 1] # packets[1]
            BY <2>2, <5>1 DEF Apart
          <5> QED
            BY <2>2, <2>4, <4>1, <5>1, <5>2
        <4>2. CASE s # t
          BY <2>2, <2>4, <4>2 DEF Apart
        <4> QED
          BY <4>1, <4>2
      <3>3. ASSUME NEW s \in Task, NEW u \in Task, task'[s].packet = task'[u].packet, s # u
            PROVE  task'[s].packet = Null
        <4>1. \A w \in Task : task[w].packet # h
          BY <2>2 DEF Apart
        <4>2. s # t /\ u # t
          BY <2>4, <3>3, <4>1
        <4> QED
          BY <2>4, <3>3, <4>2 DEF Apart
      <3> QED
        BY <3>1, <3>2, <3>3 DEF Apart
    <2> QED
      BY <2>1, <2>5, <2>7, <2>8, <2>9 DEF ChrCounted, Numbered
  <1> QED
    BY <1>1, <1>2

\* A reader that has copied its packet frees it.
LEMMA ReadCopyInv == ASSUME ChrInv, NEW t \in Task, ReadCopy(t) PROVE ChrInv'
  <1> USE DEF ChrInv
  <1> DEFINE h == task[t].packet
  <1>1. /\ task[t].pc = "copy" /\ chrMem' = [chrMem EXCEPT ![h] = "freed"]
        /\ task' = [task EXCEPT ![t].pc = "open", ![t].packet = Null]
        /\ UNCHANGED <<chrDev, packets, wakes, waiting, sent, taken, chrOops, stats>>
    BY DEF ReadCopy, netVars
  <1>2. h \in Packet /\ h # Null /\ chrMem[h] = "live"
    <2>1. h # Null /\ task[t] \in Call
      BY <1>1 DEF Seated, ChrTypeOK, Call, Place
    <2>2. h \in Packet
      BY <2>1 DEF Call
    <2> QED
      BY <2>1, <2>2, MemoryFacts DEF InMemory
  <1>3. /\ task \in [Task -> Call] /\ task' \in [Task -> Call]
        /\ task'[t].packet = Null /\ task'[t].pc = "open"
        /\ \A s \in Task \ {t} : task'[s] = task[s]
    <2>1. task \in [Task -> Call]
      BY DEF ChrTypeOK, Call, Place
    <2>2. task' = [task EXCEPT ![t] = [task[t] EXCEPT !.pc = "open", !.packet = Null]]
      BY <1>1, <2>1
    <2> QED
      BY <2>1, <2>2 DEF Call, Place
  <1>4. /\ \A i \in DOMAIN packets : packets[i] # h
        /\ \A s \in Task \ {t} : task[s].packet # h
    BY <1>2 DEF Apart
  <1> HIDE DEF h
  <1>5. ChrTypeOK'
    BY <1>1, <1>3 DEF ChrTypeOK, Call, Place
  <1>6. ChrInOrder'
    <2>1. InMemory'
      <3>1. InMemory /\ chrMem \in [Packet -> {"unused", "live", "freed"}]
        BY MemoryFacts DEF ChrTypeOK
      <3>2. ASSUME NEW p \in Packet, p # h
            PROVE  /\ chrMem'[p] = chrMem[p]
                   /\ (\E s \in Task : task'[s].packet = p) <=> (\E s \in Task : task[s].packet = p)
        <4>1. h = task[t].packet /\ p # Null
          BY DEF h, Packet, Null
        <4> QED
          BY <1>1, <1>3, <3>1, <3>2, <4>1
      <3>3. /\ chrMem'[h] = "freed" /\ \A s \in Task : task'[s].packet # h
        BY <1>1, <1>2, <1>3, <1>4, <3>1
      <3> SUFFICES ASSUME NEW p \in Packet
                   PROVE  chrMem'[p] = "live" <=>
                              \/ \E s \in Task : task'[s].packet = p
                              \/ (chrDev = "up" /\ \E i \in DOMAIN packets : packets[i] = p)
        BY <1>1 DEF InMemory
      <3>4. CASE p = h
        BY <1>4, <3>3, <3>4
      <3>5. CASE p # h
        BY <3>1, <3>2, <3>5 DEF InMemory
      <3> QED
        BY <3>4, <3>5
    <2>2. (sent = taken \o packets)'
      BY <1>1 DEF ChrInOrder
    <2> QED
      BY <1>5, <2>1, <2>2, MemoryFacts, PTL
  <1>7. ChrNoLostWakeup' /\ (\A s \in Task : Seated(s))'
    <2>1. t \notin waiting /\ waiting \subseteq Task /\ \A s \in Task : Seated(s)
      BY <1>1 DEF Seated, ChrTypeOK
    <2> QED
      BY <1>1, <1>3, <2>1 DEF ChrNoLostWakeup, Seated
  <1>8. Apart'
    <2>1. \A i \in DOMAIN packets : packets[i] # Null
      <3>1. packets \in Seq(Packet)
        BY DEF ChrTypeOK
      <3>2. \A i \in DOMAIN packets : packets[i] \in Packet
        BY <3>1, LenProperties, ElementOfSeq
      <3> QED
        BY <3>2 DEF Packet, Null
    <2> QED
      BY <1>1, <1>3, <2>1 DEF Apart
  <1>9. Numbered(chrMem)'
    BY <1>1, <1>2 DEF Numbered, ChrTypeOK
  <1> QED
    BY <1>1, <1>5, <1>6, <1>7, <1>8, <1>9 DEF ChrCounted

\* A packet that is sent goes to the end of the list, and its wake-up is on the way.
LEMMA ChrXmitInv == ASSUME ChrInv, NEW p \in Packet, ChrXmit(p) PROVE ChrInv'
  <1> USE DEF ChrInv
  <1>1. /\ chrDev = "up" /\ p \in Fresh(chrMem) /\ Counts("tx")
        /\ chrMem' = [chrMem EXCEPT ![p] = "live"]
        /\ packets' = Append(packets, p) /\ sent' = Append(sent, p)
        /\ task' = [t \in Task |-> [task[t] EXCEPT !.missed = @ \/ task[t].pc = "enrol"]]
        /\ wakes' = wakes + 1
        /\ UNCHANGED <<chrDev, waiting, taken, chrOops>>
    BY DEF ChrXmit, Xmitted, Count
  <1>2. /\ chrMem \in [Packet -> {"unused", "live", "freed"}] /\ chrMem[p] = "unused"
        /\ stats' \in [Counters -> Nat]
        /\ stats'["tx"] + stats'["tx_dropped"] = p /\ p <= MaxPackets
        /\ \A q \in Packet : q = p \/ (chrMem[q] # "unused" <=> q <= p)
        /\ stats'["tx"] = stats["tx"] + 1
        /\ \A c \in Counters \ {"tx"} : stats'[c] = stats[c]
    BY <1>1, Sends DEF ChrTypeOK
  <1>3. InMemory
    BY MemoryFacts
  <1>4. /\ \A i \in DOMAIN packets : packets[i] # p
        /\ \A t \in Task : task[t].packet # p
    BY <1>1, <1>2, <1>3 DEF InMemory
  <1>5. /\ packets' \in Seq(Packet) /\ sent' \in Seq(Packet) /\ sent' = taken \o packets'
        /\ DOMAIN packets' = DOMAIN packets \union {Len(packets) + 1}
        /\ packets'[Len(packets) + 1] = p
        /\ \A i \in DOMAIN packets : packets'[i] = packets[i]
    <2>1. sent = taken \o packets /\ sent \in Seq(Packet) /\ taken \in Seq(Packet)
          /\ packets \in Seq(Packet)
      BY DEF ChrInOrder, ChrTypeOK
    <2>2. packets' = Append(packets, p) /\ sent' = Append(sent, p)
      BY <1>1
    <2>3. /\ packets' \in Seq(Packet) /\ packets' = packets \o <<p>>
          /\ DOMAIN packets' = DOMAIN packets \union {Len(packets) + 1}
          /\ packets'[Len(packets) + 1] = p
          /\ \A i \in DOMAIN packets : packets'[i] = packets[i]
      BY ONLY <2>1, <2>2, PutFacts, p \in Packet
    <2>4. sent' \in Seq(Packet) /\ sent' = sent \o <<p>>
      BY ONLY <2>1, <2>2, PutFacts, p \in Packet
    <2>5. (taken \o packets) \o <<p>> = taken \o (packets \o <<p>>)
      BY <2>1, ConcatAssociative
    <2> QED
      BY <2>1, <2>3, <2>4, <2>5
  <1>6. task \in [Task -> Call]
    BY DEF ChrTypeOK, Call, Place
  <1>7. /\ task' \in [Task -> Call]
        /\ \A t \in Task :
              /\ task'[t].pc = task[t].pc /\ task'[t].block = task[t].block
              /\ task'[t].packet = task[t].packet
              /\ task[t].missed => task'[t].missed
              /\ task[t].pc = "enrol" => task'[t].missed
    <2> SUFFICES ASSUME NEW t \in Task
                 PROVE  /\ task'[t] \in Call
                        /\ task'[t].pc = task[t].pc /\ task'[t].block = task[t].block
                        /\ task'[t].packet = task[t].packet
                        /\ task[t].missed => task'[t].missed
                        /\ task[t].pc = "enrol" => task'[t].missed
      BY <1>1
    <2>1. task[t] \in Call /\ (task[t].missed \/ task[t].pc = "enrol") \in BOOLEAN
      BY <1>6
    <2>2. task'[t] = [task[t] EXCEPT !.missed = (task[t].missed \/ task[t].pc = "enrol")]
      BY <1>1
    <2> HIDE DEF ChrInv
    <2>3. /\ task'[t] \in Call /\ task'[t].pc = task[t].pc /\ task'[t].block = task[t].block
          /\ task'[t].packet = task[t].packet
          /\ task'[t].missed = (task[t].missed \/ task[t].pc = "enrol")
      BY <2>1, <2>2 DEF Call, Place
    <2> QED
      BY <2>1, <2>3
  <1>8. wakes \in Nat /\ stats["tx"] \in Nat /\ wakes' <= stats'["tx"]
        /\ wakes' \in 0 .. Cardinality(Packet)
    <2>1. wakes \in Nat /\ stats["tx"] \in Nat /\ stats["tx_dropped"] \in Nat /\ wakes <= stats["tx"]
          /\ stats'["tx_dropped"] = stats["tx_dropped"]
      BY <1>2, PacketSets, VirtnetNetAssumption DEF ChrTypeOK, ChrCounted, Counters
    <2>2. Cardinality(Packet) = MaxPackets /\ MaxPackets \in Nat
      BY PacketSets, VirtnetNetAssumption
    <2> QED
      BY <1>1, <1>2, <2>1, <2>2, SMTT(30) DEF Packet
  <1>9. ChrTypeOK'
    BY <1>1, <1>5, <1>7, <1>8 DEF ChrTypeOK, Call, Place
  <1>10. ChrInOrder'
    <2>1. InMemory'
      <3>1. \A q \in Packet : (\E i \in DOMAIN packets' : packets'[i] = q)
                <=> q = p \/ (\E i \in DOMAIN packets : packets[i] = q)
        BY <1>5
      <3>2. \A q \in Packet : (\E t \in Task : task'[t].packet = q)
                <=> \E t \in Task : task[t].packet = q
        BY <1>7
      <3>3. chrMem'[p] = "live" /\ \A q \in Packet \ {p} : chrMem'[q] = chrMem[q]
        BY <1>1, <1>2
      <3> SUFFICES ASSUME NEW q \in Packet
                   PROVE  chrMem'[q] = "live" <=>
                              \/ \E t \in Task : task'[t].packet = q
                              \/ \E i \in DOMAIN packets' : packets'[i] = q
        BY <1>1 DEF InMemory
      <3> QED
        BY <1>1, <1>3, <3>1, <3>2, <3>3 DEF InMemory
    <2>2. (sent = taken \o packets)'
      BY <1>1, <1>5
    <2> QED
      BY <1>9, <2>1, <2>2, MemoryFacts, PTL
  <1>11. ChrNoLostWakeup'
    BY <1>1, <1>8 DEF ChrNoLostWakeup
  <1>12. (\A t \in Task : Seated(t))'
    <2> SUFFICES ASSUME NEW t \in Task PROVE Seated(t)'
      OBVIOUS
    <2>1. Seated(t)
      OBVIOUS
    <2> QED
      BY <1>1, <1>7, <2>1 DEF Seated
  <1>13. Apart'
    <2>1. \A i, j \in DOMAIN packets' : packets'[i] = packets'[j] => i = j
      BY <1>4, <1>5 DEF Apart
    <2>2. \A t \in Task : \A i \in DOMAIN packets' : packets'[i] # task'[t].packet
      <3>1. \A i \in DOMAIN packets' : packets'[i] = p \/ (i \in DOMAIN packets /\ packets'[i] = packets[i])
        BY <1>5
      <3> QED
        BY <1>4, <1>7, <3>1 DEF Apart
    <2> QED
      BY <1>7, <2>1, <2>2 DEF Apart
  <1>14. ChrCounted'
    BY <1>1, <1>2, <1>8 DEF ChrCounted, Counters
  <1>15. Numbered(chrMem)'
    BY <1>1, <1>2 DEF Numbered, Packet
  <1> QED
    BY <1>2, <1>9, <1>10, <1>11, <1>12, <1>13, <1>14, <1>15

\* A packet whose entry finds no memory is gone.
LEMMA ChrXmitFailsInv == ASSUME ChrInv, NEW p \in Packet, ChrXmitFails(p) PROVE ChrInv'
  <1> USE DEF ChrInv
  <1>1. /\ chrDev = "up" /\ p \in Fresh(chrMem) /\ Counts("tx_dropped")
        /\ chrMem' = [chrMem EXCEPT ![p] = "freed"]
        /\ UNCHANGED <<chrDev, packets, wakes, task, waiting, sent, taken, chrOops>>
    BY DEF ChrXmitFails, Xmitted, Count, users
  <1>2. /\ chrMem \in [Packet -> {"unused", "live", "freed"}] /\ chrMem[p] = "unused"
        /\ stats' \in [Counters -> Nat]
        /\ stats'["tx"] + stats'["tx_dropped"] = p /\ p <= MaxPackets
        /\ \A q \in Packet : q = p \/ (chrMem[q] # "unused" <=> q <= p)
        /\ \A c \in Counters \ {"tx_dropped"} : stats'[c] = stats[c]
    BY <1>1, Sends DEF ChrTypeOK
  <1>3. ChrTypeOK'
    BY <1>1, <1>2 DEF ChrTypeOK
  <1>4. ChrInOrder'
    <2>1. \A q \in Packet : chrMem'[q] = "live" <=> chrMem[q] = "live"
      BY <1>1, <1>2
    <2> QED
      BY <1>1, <2>1 DEF ChrInOrder, Held, Linked
  <1>5. ChrNoLostWakeup' /\ (\A s \in Task : Seated(s))' /\ Apart'
    BY <1>1 DEF ChrNoLostWakeup, Seated, Apart
  <1>6. ChrCounted' /\ Numbered(chrMem)'
    BY <1>1, <1>2 DEF ChrCounted, Numbered, Counters, Packet
  <1> QED
    BY <1>2, <1>3, <1>4, <1>5, <1>6

\* After a wake-up nobody is on the wait queue.
LEMMA ChrWakeInv == ASSUME ChrInv, ChrWake PROVE ChrInv'
  <1>1. /\ wakes > 0 /\ wakes' = wakes - 1 /\ waiting' = {}
        /\ UNCHANGED <<chrDev, packets, chrMem, sent, taken, task, chrOops, stats>>
    BY DEF ChrWake, queue, netVars
  <1>2. wakes' \in 0 .. Cardinality(Packet) /\ wakes' <= stats["tx"]
    BY <1>1, PacketSets, VirtnetNetAssumption DEF ChrInv, ChrTypeOK, ChrCounted, Counters
  <1> QED
    BY <1>1, <1>2 DEF ChrInv, ChrTypeOK, ChrInOrder, Held, Linked, ChrNoLostWakeup, Seated, Apart,
                      ChrCounted, Numbered

\* The removal frees what is linked, and leaves readers theirs.
LEMMA ChrUninitInv == ASSUME ChrInv, ChrUninit PROVE ChrInv'
  <1> USE DEF ChrInv
  <1>1. /\ chrDev = "up" /\ chrDev' = "empty"
        /\ chrMem' = [p \in Packet |->
                        IF \E i \in DOMAIN packets : packets[i] = p THEN "freed" ELSE chrMem[p]]
        /\ UNCHANGED <<packets, wakes, task, waiting, sent, taken, chrOops, stats>>
    BY DEF ChrUninit, users, netVars
  <1>2. InMemory /\ chrMem \in [Packet -> {"unused", "live", "freed"}]
    BY MemoryFacts DEF ChrTypeOK
  <1>3. ChrTypeOK'
    BY <1>1, <1>2 DEF ChrTypeOK
  <1>4. ChrInOrder'
    <2>1. InMemory'
      BY <1>1, <1>2 DEF InMemory, Apart
    <2>2. (sent = taken \o packets)'
      BY <1>1 DEF ChrInOrder
    <2> QED
      BY <1>3, <2>1, <2>2, MemoryFacts, PTL
  <1>5. ChrNoLostWakeup' /\ (\A s \in Task : Seated(s))' /\ Apart'
    BY <1>1 DEF ChrNoLostWakeup, Seated, Apart
  <1>6. Numbered(chrMem)'
    <2>1. \A p \in Packet : chrMem'[p] # "unused" <=> chrMem[p] # "unused"
      BY <1>1, <1>2 DEF InMemory
    <2> QED
      BY <1>1, <2>1 DEF Numbered
  <1> QED
    BY <1>1, <1>3, <1>4, <1>5, <1>6 DEF ChrCounted

\* The rest of the removal frees no packet.
LEMMA ChrGoneInv == ASSUME ChrInv, ChrDestroyDevice \/ ChrFreeStats \/ ChrFreeNetdev PROVE ChrInv'
  <1>1. /\ chrDev # "up" /\ chrDev' \in {"gone", "nostats", "freed"}
        /\ UNCHANGED <<packets, chrMem, sent, taken, wakes, task, waiting, chrOops, stats>>
    BY DEF ChrDestroyDevice, ChrFreeStats, ChrFreeNetdev, queue, users, netVars
  <1> QED
    BY <1>1 DEF ChrInv, ChrTypeOK, ChrInOrder, Held, Linked, ChrNoLostWakeup, Seated, Apart,
                ChrCounted, Numbered

\* ChrInv is inductive.
LEMMA ChrStep == ASSUME ChrInv, ChrNext PROVE ChrInv'
  BY ChrXmitInv, ChrXmitFailsInv, ChrWakeInv, ChrUninitInv, ChrGoneInv, ReadMoves, ReadTakeInv,
     ReadCopyInv, ChrWriteInv, PollMoves
  DEF ChrNext, Reading

-----------------------------------------------------------------------------
(* The interface over the backend it was loaded with; the other one idles. *)

\* What the invariance proof needs of either choice.
IInv ==
    /\ netOops \in {"none", "skb"}
    /\ \/ backend = "lb" /\ LbInv /\ ChrInit
       \/ backend = "chr" /\ ChrInv /\ LbInit

\* The loopback backend when it is not used.
LEMMA LbIdle == LbInit => LbTypeOK /\ RemovalComplete
  BY PacketSets, EmptySeq, VirtnetNetAssumption DEF LbInit, LbTypeOK, RemovalComplete

\* The backend is chosen once; an skb is freed twice or not.
LEMMA SameBackend ==
    ASSUME netOops \in {"none", "skb"}, LbNext \/ ChrNext
    PROVE  backend' = backend /\ netOops' \in {"none", "skb"}
  BY DEF LbNext, Xmit, XmitFails, Expire, Handler, Recv, Unlink, Unlock, Uninit, Visit, Removal,
         DelTimer, NextEntry, Spin, FreeNetdev, LbOops, Xmitted, Received, Refused, Count, Counts,
         netVars, ChrNext, ChrXmit, ChrXmitFails, ChrWake, ChrUninit, ChrDestroyDevice,
         ChrFreeStats, ChrFreeNetdev, ChrOpen, ChrRelease, ReadCall, Reading, ReadPrepare,
         ReadEmpty, ReadTake, ReadWoken, ReadCopy, ReadInterrupted, ChrWrite, Polling, PollTest,
         PollEnrol, PollEnds, Using, ChrOops

\* A step of neither backend changes nothing.
LEMMA Stutter == IInv /\ UNCHANGED vars => IInv'
  <1> SUFFICES ASSUME IInv, UNCHANGED vars PROVE IInv'
    OBVIOUS
  <1>1. UNCHANGED netVars /\ UNCHANGED lbVars /\ UNCHANGED chrVars
    BY DEF vars
  <1>2. LbInv => LbInv'
    BY <1>1 DEF netVars, lbVars, LbInv, LbTypeOK, Handled, Chained, Cursors, Counted, Numbered,
                Live, ToCome
  <1>3. ChrInv => ChrInv'
    BY <1>1 DEF netVars, chrVars, ChrInv, ChrTypeOK, ChrInOrder, Held, Linked, ChrNoLostWakeup,
                Seated, Apart, ChrCounted, Numbered
  <1>4. (ChrInit => ChrInit') /\ (LbInit => LbInit')
    BY <1>1 DEF chrVars, ChrInit, lbVars, LbInit
  <1> QED
    BY <1>1, <1>2, <1>3, <1>4 DEF IInv, netVars

\* IInv is an inductive invariant of the interface: what a backend changes, the other
\* does not see, and each keeps its own invariant.
THEOREM Invariance == Spec => []IInv
  <1>1. Init => IInv
    BY LbInitInv, ChrInitInv DEF Init, NetInit, Backends, IInv
  <1>2. ASSUME IInv, [Next]_vars PROVE IInv'
    <2>1. CASE backend = "lb" /\ LbNext /\ UNCHANGED chrVars
      <3>1. LbInv'
        BY <1>2, <2>1, LbStep DEF IInv
      <3>2. ChrInit'
        BY <1>2, <2>1 DEF IInv, ChrInit, chrVars
      <3> QED
        BY <1>2, <2>1, <3>1, <3>2, SameBackend DEF IInv
    <2>2. CASE backend = "chr" /\ ChrNext /\ UNCHANGED lbVars
      <3>1. ChrInv'
        BY <1>2, <2>2, ChrStep DEF IInv
      <3>2. LbInit'
        BY <1>2, <2>2 DEF IInv, LbInit, lbVars
      <3> QED
        BY <1>2, <2>2, <3>1, <3>2, SameBackend DEF IInv
    <2>3. CASE UNCHANGED vars
      BY <1>2, <2>3, Stutter
    <2> QED
      BY <1>2, <2>1, <2>2, <2>3 DEF Next
  <1> QED
    BY <1>1, <1>2, PTL DEF Spec

\* The variables of the interface and of both backends always have their types; in
\* particular lbdev->allocated is never negative, and nothing is counted that was
\* neither sent nor written.
THEOREM TypeCorrect == Spec => []TypeOK
  <1>1. ASSUME IInv PROVE TypeOK
    <2>1. MaxPackets \in Nat /\ MaxWrites \in Nat /\ Cardinality(Packet) = MaxPackets
      BY PacketSets, VirtnetNetAssumption, VirtnetChrAssumption
    <2>2. CASE backend = "lb" /\ LbInv /\ ChrInit
      <3>1. Cardinality(ToCome) \in Nat
        BY PacketSets DEF ToCome, Live
      <3>2. stats \in [Counters -> 0 .. Cardinality(Packet) + MaxWrites]
        BY <2>1, <2>2, <3>1 DEF LbInv, Counted, Numbered, Counters
      <3> QED
        BY <1>1, <2>2, <3>2, ChrIdle DEF IInv, TypeOK, LbInv, Backends
    <2>3. CASE backend = "chr" /\ ChrInv /\ LbInit
      <3>1. stats \in [Counters -> 0 .. Cardinality(Packet) + MaxWrites]
        BY <2>1, <2>3 DEF ChrInv, ChrCounted, Numbered, Counters
      <3> QED
        BY <1>1, <2>3, <3>1, LbIdle DEF IInv, TypeOK, ChrInv, Backends
    <2> QED
      BY <1>1, <2>2, <2>3 DEF IInv
  <1> QED
    BY <1>1, Invariance, PTL

\* The counter the removal waits on is always the number of entries in memory, and
\* every packet looped back is received, dropped, discarded or still to come, once.
THEOREM Conserves == Spec => []Conservation
  <1>1. ASSUME IInv PROVE Conservation
    BY <1>1 DEF IInv, LbInv, Counted, ToCome, Conservation
  <1> QED
    BY <1>1, Invariance, PTL

\* When virtnet_lb_dev_uninit returns, no entry is left in memory and no timer is left
\* that could receive; a handler touches a freed entry, or its link, only if a removal
\* has begun. (The skb of a dropped packet is freed twice all the same: netOops.)
THEOREM RemovesAll == Spec => []RemovalComplete
  <1>1. ASSUME IInv PROVE RemovalComplete
    <2>1. CASE LbInv
      BY <2>1 DEF LbInv, LbTypeOK, Counted, Chained, Handled, Live, RemovalComplete
    <2> QED
      BY <1>1, <2>1, LbIdle DEF IInv
  <1> QED
    BY <1>1, Invariance, PTL

\* Any number of readers together get the packets in the order they were sent, each
\* once, and a packet is in memory exactly while it is linked or its reader copies it.
THEOREM ReadsInOrder == Spec => []ChrInOrder
  <1>1. ASSUME IInv PROVE ChrInOrder
    BY <1>1, ChrIdle DEF IInv, ChrInv
  <1> QED
    BY <1>1, Invariance, PTL

\* However many tasks read, poll and are signalled while packets are sent: while the
\* interface is up a task sleeps with a packet on the list only if its wake-up is to
\* come, or if it polls and the packet slipped in before its enrolment.
THEOREM NoLostWakeup == Spec => []ChrNoLostWakeup
  <1>1. ASSUME IInv PROVE ChrNoLostWakeup
    BY <1>1, ChrIdle DEF IInv, ChrInv
  <1> QED
    BY <1>1, Invariance, PTL
=============================================================================
