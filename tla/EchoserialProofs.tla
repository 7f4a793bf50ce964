-------------------------- MODULE EchoserialProofs --------------------------
(***************************************************************************)
(* Safety of a port of echoserial for any buffer sizes, any rates and any  *)
(* number of bytes written.                                                *)
(***************************************************************************)
EXTENDS Echoserial, SequenceTheorems, TLAPS

\* Only bytes that were written are flushed: without it the next byte could
\* already count as thrown away.
FlushedWritten == flushed \subseteq 1 .. written

\* The inductive invariant.
IInv == TypeOK /\ Echoes /\ FlushedWritten /\ FlowAgrees

-----------------------------------------------------------------------------
(* Arithmetic and sequences.                                               *)

\* The least of three numbers is one of them, and no other is smaller.
LEMMA MinThree ==
    ASSUME NEW a \in Int, NEW b \in Int, NEW c \in Int
    PROVE  /\ Min({a, b, c}) \in {a, b, c}
           /\ Min({a, b, c}) <= a /\ Min({a, b, c}) <= b /\ Min({a, b, c}) <= c
  <1> DEFINE S == {a, b, c}
  <1>1. \E x \in S : \A y \in S : x =< y
    <2>1. CASE a <= b /\ a <= c
      BY <2>1
    <2>2. CASE b <= a /\ b <= c
      BY <2>2
    <2>3. CASE c <= a /\ c <= b
      BY <2>3
    <2> QED
      BY <2>1, <2>2, <2>3
  <1>2. Min(S) \in S /\ \A y \in S : Min(S) =< y
    BY <1>1 DEF Min
  <1> QED
    BY <1>2

\* The lesser of two numbers, likewise.
LEMMA MinTwo ==
    ASSUME NEW a \in Int, NEW b \in Int
    PROVE  Min({a, b}) = IF a <= b THEN a ELSE b
  <1> DEFINE S == {a, b}
  <1>1. \E x \in S : \A y \in S : x =< y
    <2>1. CASE a <= b
      BY <2>1
    <2>2. CASE b <= a
      BY <2>2
    <2> QED
      BY <2>1, <2>2
  <1>2. Min(S) \in S /\ \A y \in S : Min(S) =< y
    BY <1>1 DEF Min
  <1> QED
    BY <1>2

\* A rate moves a natural number of bytes in an interval.
LEMMA BufsizeNat ==
    ASSUME NEW b \in Baud
    PROVE  BaudToBufsize(b) \in Nat
  <1>1. PICK q \in Nat : q = b \div 8
    BY EchoserialAssumption
  <1>2. PICK p \in Nat : p = q * Interval
    BY EchoserialAssumption
  <1>3. p \div 1000 \in Nat
    BY SMTT(30)
  <1> QED
    BY <1>1, <1>2, <1>3 DEF BaudToBufsize

\* A sequence is its first n elements and the others.
LEMMA Split ==
    ASSUME NEW S, NEW s \in Seq(S), NEW n \in 0 .. Len(s)
    PROVE  LET a == SubSeq(s, 1, n)
               b == SubSeq(s, n + 1, Len(s))
           IN  /\ a \in Seq(S) /\ b \in Seq(S)
               /\ Len(a) = n /\ Len(b) = Len(s) - n
               /\ s = a \o b
  <1> DEFINE a == SubSeq(s, 1, n)
             b == SubSeq(s, n + 1, Len(s))
  <1>1. Len(s) \in Nat /\ DOMAIN s = 1 .. Len(s) /\ \A i \in 1 .. Len(s) : s[i] \in S
    BY LenProperties
  <1>2. 1 \in Int /\ n \in Int /\ n + 1 \in Int /\ Len(s) \in Int
    BY <1>1
  <1>3. \A i \in 1 .. n : s[i] \in S
    BY <1>1
  <1>4. a \in Seq(S) /\ Len(a) = IF 1 <= n THEN n - 1 + 1 ELSE 0
    BY <1>2, <1>3, SubSeqProperties
  <1>5. \A i \in n + 1 .. Len(s) : s[i] \in S
    BY <1>1
  <1>6. b \in Seq(S) /\ Len(b) = IF n + 1 <= Len(s) THEN Len(s) - (n + 1) + 1 ELSE 0
    BY <1>2, <1>5, SubSeqProperties
  <1>7. SubSeq(s, 1, n) \o SubSeq(s, n + 1, Len(s)) = SubSeq(s, 1, Len(s))
    <2>1. 1 \in 1 .. Len(s) + 1 /\ n \in 1 - 1 .. Len(s) /\ Len(s) \in n .. Len(s)
      BY <1>1
    <2> QED
      BY <2>1, ConcatAdjacentSubSeq
  <1>8. SubSeq(s, 1, Len(s)) = s
    BY SubSeqFull
  <1> HIDE DEF a, b
  <1>9. Len(a) = n
    BY <1>4
  <1>10. Len(b) = Len(s) - n
    <2>1. PICK l \in Nat : l = Len(s) /\ n \in 0 .. l
      BY <1>1
    <2>2. Len(b) = IF n + 1 <= l THEN l - (n + 1) + 1 ELSE 0
      BY <2>1, <1>6
    <2>3. (IF n + 1 <= l THEN l - (n + 1) + 1 ELSE 0) = l - n
      BY <2>1
    <2> QED
      BY <2>1, <2>2, <2>3
  <1> QED
    BY <1>4, <1>6, <1>7, <1>8, <1>9, <1>10 DEF a, b

\* Concatenation of sequences of bytes is associative.
LEMMA BytesAssociative ==
    ASSUME NEW s \in Seq(1 .. MaxBytes), NEW t \in Seq(1 .. MaxBytes),
           NEW u \in Seq(1 .. MaxBytes)
    PROVE  (s \o t) \o u = s \o (t \o u)
  <1>1. PICK S : S = 1 .. MaxBytes
    OBVIOUS
  <1>2. s \in Seq(S) /\ t \in Seq(S) /\ u \in Seq(S)
    BY <1>1
  <1> QED
    BY <1>2, ConcatAssociative

\* Strictly increasing.
Increasing(s) == \A i, j \in DOMAIN s : i < j => s[i] < s[j]

\* What a sequence holds.
Elements(s) == {s[i] : i \in DOMAIN s}

\* The elements of a concatenation are those of its parts.
LEMMA ElementsConcat ==
    ASSUME NEW S, NEW s \in Seq(S), NEW t \in Seq(S)
    PROVE  Elements(s \o t) = Elements(s) \union Elements(t)
  <1>1. /\ Len(s) \in Nat /\ Len(t) \in Nat
        /\ DOMAIN s = 1 .. Len(s) /\ DOMAIN t = 1 .. Len(t)
    BY LenProperties
  <1>2. /\ s \o t \in Seq(S) /\ Len(s \o t) = Len(s) + Len(t)
        /\ DOMAIN (s \o t) = 1 .. Len(s) + Len(t)
        /\ \A i \in 1 .. Len(s) + Len(t) :
             (s \o t)[i] = IF i <= Len(s) THEN s[i] ELSE t[i - Len(s)]
    BY <1>1, ConcatProperties, LenProperties
  <1>3. ASSUME NEW x \in Elements(s \o t)
        PROVE  x \in Elements(s) \union Elements(t)
    <2>1. PICK i \in 1 .. Len(s) + Len(t) : x = (s \o t)[i]
      BY <1>2, <1>3 DEF Elements
    <2>2. CASE i <= Len(s)
      BY <2>1, <2>2, <1>1, <1>2 DEF Elements
    <2>3. CASE i > Len(s)
      <3>1. i - Len(s) \in 1 .. Len(t)
        BY <2>3, <1>1
      <3> QED
        BY <2>1, <2>3, <3>1, <1>1, <1>2 DEF Elements
    <2> QED
      BY <2>2, <2>3, <1>1
  <1>4. ASSUME NEW x \in Elements(s)
        PROVE  x \in Elements(s \o t)
    <2>1. PICK i \in 1 .. Len(s) : x = s[i]
      BY <1>1, <1>4 DEF Elements
    <2>2. i \in 1 .. Len(s) + Len(t) /\ i <= Len(s)
      BY <1>1
    <2> QED
      BY <2>1, <2>2, <1>2 DEF Elements
  <1>5. ASSUME NEW x \in Elements(t)
        PROVE  x \in Elements(s \o t)
    <2>1. PICK i \in 1 .. Len(t) : x = t[i]
      BY <1>1, <1>5 DEF Elements
    <2>2. PICK j \in 1 .. Len(s) + Len(t) : j = Len(s) + i
      BY <1>1
    <2>3. ~(j <= Len(s)) /\ j - Len(s) = i
      BY <2>2, <1>1
    <2> QED
      BY <2>1, <2>2, <2>3, <1>2 DEF Elements
  <1> QED
    BY <1>3, <1>4, <1>5

\* An initial part of an increasing sequence is increasing, and shares no
\* element with the rest.
LEMMA PrefixIncreasing ==
    ASSUME NEW S, NEW s \in Seq(S), NEW t \in Seq(S), S \subseteq Int, Increasing(s \o t)
    PROVE  Increasing(s) /\ Elements(s) \intersect Elements(t) = {}
  <1>1. /\ Len(s) \in Nat /\ Len(t) \in Nat
        /\ DOMAIN s = 1 .. Len(s) /\ DOMAIN t = 1 .. Len(t)
        /\ \A i \in 1 .. Len(s) : s[i] \in S
        /\ \A i \in 1 .. Len(t) : t[i] \in S
    BY LenProperties
  <1>2. /\ DOMAIN (s \o t) = 1 .. Len(s) + Len(t)
        /\ \A i \in 1 .. Len(s) + Len(t) :
             (s \o t)[i] = IF i <= Len(s) THEN s[i] ELSE t[i - Len(s)]
    BY <1>1, ConcatProperties, LenProperties
  <1>3. Increasing(s)
    <2> SUFFICES ASSUME NEW i \in 1 .. Len(s), NEW j \in 1 .. Len(s), i < j
                 PROVE  s[i] < s[j]
      BY <1>1 DEF Increasing
    <2>1. i \in 1 .. Len(s) + Len(t) /\ j \in 1 .. Len(s) + Len(t)
      BY <1>1
    <2>2. (s \o t)[i] = s[i] /\ (s \o t)[j] = s[j]
      BY <2>1, <1>2
    <2> QED
      BY <2>1, <2>2, <1>2 DEF Increasing
  <1>4. ASSUME NEW x \in Elements(s), x \in Elements(t)
        PROVE  FALSE
    <2>1. PICK i \in 1 .. Len(s) : x = s[i]
      BY <1>1, <1>4 DEF Elements
    <2>2. PICK j \in 1 .. Len(t) : x = t[j]
      BY <1>1, <1>4 DEF Elements
    <2>3. PICK k \in 1 .. Len(s) + Len(t) : k = Len(s) + j
      BY <2>2, <1>1
    <2>4. i \in 1 .. Len(s) + Len(t) /\ i < k /\ i <= Len(s) /\ ~(k <= Len(s)) /\ k - Len(s) = j
      BY <2>1, <2>2, <2>3, <1>1
    <2>5. (s \o t)[i] = x /\ (s \o t)[k] = x
      BY <2>1, <2>2, <2>3, <2>4, <1>2
    <2>6. x < x
      BY <2>3, <2>4, <2>5, <1>2 DEF Increasing
    <2>7. x \in Int
      BY <2>1, <1>1
    <2> QED
      BY <2>6, <2>7
  <1> QED
    BY <1>3, <1>4

\* An increasing sequence stays increasing when a larger element is appended.
LEMMA AppendIncreasing ==
    ASSUME NEW s \in Seq(1 .. MaxBytes), NEW e \in 1 .. MaxBytes,
           Increasing(s), \A x \in Elements(s) : x < e
    PROVE  Increasing(s \o <<e>>) /\ Elements(s \o <<e>>) = Elements(s) \union {e}
  <1> DEFINE r == s \o <<e>>
  <1> PICK S : S = 1 .. MaxBytes
    OBVIOUS
  <1> s \in Seq(S) /\ e \in S /\ S \subseteq Int
    OBVIOUS
  <1>1. Len(s) \in Nat /\ DOMAIN s = 1 .. Len(s)
    BY LenProperties
  <1>2. r = Append(s, e)
    BY AppendIsConcat
  <1>3. /\ r \in Seq(S) /\ Len(r) = Len(s) + 1 /\ r[Len(s) + 1] = e
        /\ \A i \in 1 .. Len(s) : r[i] = s[i]
    BY <1>1, <1>2, AppendProperties
  <1>4. DOMAIN r = 1 .. Len(s) + 1 /\ \A i \in 1 .. Len(s) : s[i] \in Int
    BY <1>3, LenProperties
  <1> HIDE DEF r
  <1>5. \A i \in 1 .. Len(s) : s[i] \in Elements(s)
    BY <1>1 DEF Elements
  <1>6. Increasing(r)
    <2> SUFFICES ASSUME NEW i \in 1 .. Len(s) + 1, NEW j \in 1 .. Len(s) + 1, i < j
                 PROVE  r[i] < r[j]
      BY <1>4 DEF Increasing
    <2>1. i \in 1 .. Len(s)
      BY <1>1
    <2>2. CASE j \in 1 .. Len(s)
      BY <2>1, <2>2, <1>1, <1>3, <1>4 DEF Increasing
    <2>3. CASE j = Len(s) + 1
      BY <2>1, <2>3, <1>3, <1>5
    <2> QED
      BY <2>2, <2>3, <1>1
  <1>7. Elements(r) = Elements(s) \union {e}
    <2>1. ASSUME NEW x \in Elements(r)
          PROVE  x \in Elements(s) \union {e}
      <3>1. PICK i \in 1 .. Len(s) + 1 : x = r[i]
        BY <2>1, <1>4 DEF Elements
      <3>2. CASE i \in 1 .. Len(s)
        BY <3>1, <3>2, <1>3, <1>5
      <3>3. CASE i = Len(s) + 1
        BY <3>1, <3>3, <1>3
      <3> QED
        BY <3>2, <3>3, <1>1
    <2>2. ASSUME NEW x \in Elements(s)
          PROVE  x \in Elements(r)
      <3>1. PICK i \in 1 .. Len(s) : x = s[i]
        BY <2>2, <1>1 DEF Elements
      <3>2. i \in 1 .. Len(s) + 1
        BY <1>1
      <3> QED
        BY <3>1, <3>2, <1>3, <1>4 DEF Elements
    <2>3. e \in Elements(r)
      <3>1. Len(s) + 1 \in 1 .. Len(s) + 1
        BY <1>1
      <3> QED
        BY <3>1, <1>3, <1>4 DEF Elements
    <2> QED
      BY <2>1, <2>2, <2>3
  <1> QED
    BY <1>6, <1>7 DEF r

-----------------------------------------------------------------------------
(* What the timers move.                                                   *)

\* The bytes that are somewhere, in the order in which they are given out.
All == (got \o fifo) \o xmit

\* What Echoes says, of All.
LEMMA EchoesMeaning ==
    Echoes <=> Increasing(All) /\ Elements(All) = (1 .. written) \ flushed
  BY DEF Echoes, All, Increasing, Elements

\* The rx timer takes what the kfifo has, at most, and only from its front: the
\* tty's bytes and the kfifo's are, together, the same as before.
LEMMA RxMoves ==
    ASSUME TypeOK
    PROVE  LET taken == SubSeq(fifo, 1, RxCount)
               rest == SubSeq(fifo, RxCount + 1, Len(fifo))
           IN  /\ got \o taken \in Seq(1 .. MaxBytes)
               /\ rest \in Seq(1 .. MaxBytes) /\ Len(rest) <= BSize
               /\ (got \o taken) \o rest = got \o fifo
  <1>1. /\ fifo \in Seq(1 .. MaxBytes) /\ got \in Seq(1 .. MaxBytes)
        /\ Len(fifo) \in Nat /\ Len(xmit) \in Nat /\ Len(fifo) <= BSize /\ Len(xmit) < XSize
    BY LenProperties DEF TypeOK
  <1>2. XSize \in Nat /\ BSize \in Nat
    BY EchoserialAssumption
  <1>3. BaudToBufsize(baud) \in Nat
    BY BufsizeNat DEF TypeOK
  <1>4. CharsFree \in Nat
    BY <1>1, <1>2 DEF CharsFree
  <1>5. PICK n \in 0 .. Len(fifo) : n = RxCount
    <2>1. PICK a \in Nat : a = CharsFree
      BY <1>4
    <2>2. PICK b \in Nat : b = Len(fifo)
      BY <1>1
    <2>3. PICK c \in Nat : c = BaudToBufsize(baud)
      BY <1>3
    <2>4. RxCount = Min({a, b, c})
      BY <2>1, <2>2, <2>3 DEF RxCount
    <2>5. PICK m : m = Min({a, b, c})
      OBVIOUS
    <2> a \in Int /\ b \in Int /\ c \in Int
      OBVIOUS
    <2>6. m \in {a, b, c} /\ m <= b
      BY <2>5, MinThree
    <2>7. m \in 0 .. Len(fifo)
      BY <2>2, <2>6
    <2> QED
      BY <2>4, <2>5, <2>7
  <1> DEFINE taken == SubSeq(fifo, 1, n)
             rest == SubSeq(fifo, n + 1, Len(fifo))
  <1>6. /\ taken \in Seq(1 .. MaxBytes) /\ rest \in Seq(1 .. MaxBytes)
        /\ Len(taken) = n /\ Len(rest) = Len(fifo) - n
        /\ fifo = taken \o rest
    BY <1>1, Split
  <1> HIDE DEF taken, rest
  <1>7. got \o taken \in Seq(1 .. MaxBytes)
    BY <1>1, <1>6, ConcatProperties
  <1>8. (got \o taken) \o rest = got \o (taken \o rest)
    BY <1>1, <1>6, BytesAssociative
  <1>9. Len(rest) <= BSize
    BY <1>1, <1>2, <1>6
  <1> QED
    BY <1>5, <1>6, <1>7, <1>8, <1>9 DEF taken, rest

\* The tx timer takes what the transmit buffer has and the kfifo has room for,
\* so that kfifo_in drops nothing: both together hold the same as before.
LEMMA TxMoves ==
    ASSUME TypeOK
    PROVE  LET filled == KfifoIn(fifo, SubSeq(xmit, 1, TxCount))
               rest == SubSeq(xmit, TxCount + 1, Len(xmit))
           IN  /\ filled \in Seq(1 .. MaxBytes) /\ Len(filled) <= BSize
               /\ rest \in Seq(1 .. MaxBytes) /\ Len(rest) < XSize
               /\ (got \o filled) \o rest = All
  <1>1. /\ fifo \in Seq(1 .. MaxBytes) /\ got \in Seq(1 .. MaxBytes)
        /\ xmit \in Seq(1 .. MaxBytes)
        /\ Len(fifo) \in Nat /\ Len(xmit) \in Nat /\ Len(fifo) <= BSize /\ Len(xmit) < XSize
    BY LenProperties DEF TypeOK
  <1>2. XSize \in Nat /\ BSize \in Nat
    BY EchoserialAssumption
  <1>3. BaudToBufsize(baud) \in Nat
    BY BufsizeNat DEF TypeOK
  <1>4. PICK n \in 0 .. Len(xmit) : n = TxCount /\ n <= BSize - Len(fifo)
    <2>1. PICK a \in Nat : a = Len(xmit)
      BY <1>1
    <2>2. PICK b \in Nat : b = BSize - Len(fifo)
      BY <1>1, <1>2
    <2>3. PICK c \in Nat : c = BaudToBufsize(baud)
      BY <1>3
    <2>4. TxCount = Min({a, b, c})
      BY <2>1, <2>2, <2>3 DEF TxCount
    <2>5. PICK m : m = Min({a, b, c})
      OBVIOUS
    <2> a \in Int /\ b \in Int /\ c \in Int
      OBVIOUS
    <2>6. m \in {a, b, c} /\ m <= a /\ m <= b
      BY <2>5, MinThree
    <2>7. m \in 0 .. Len(xmit) /\ m <= BSize - Len(fifo)
      BY <2>1, <2>2, <2>6
    <2> QED
      BY <2>4, <2>5, <2>7
  <1> DEFINE taken == SubSeq(xmit, 1, n)
             rest == SubSeq(xmit, n + 1, Len(xmit))
             filled == KfifoIn(fifo, taken)
  <1>5. /\ taken \in Seq(1 .. MaxBytes) /\ rest \in Seq(1 .. MaxBytes)
        /\ Len(taken) = n /\ Len(rest) = Len(xmit) - n
        /\ xmit = taken \o rest
    BY <1>1, Split
  <1> HIDE DEF taken, rest
  <1>6. filled = fifo \o taken
    <2>1. PICK b \in Nat : b = BSize - Len(fifo)
      BY <1>1, <1>2
    <2>2. Min({n, b}) = n
      BY <2>1, <1>4, MinTwo
    <2>3. filled = fifo \o SubSeq(taken, 1, Len(taken))
      BY <2>1, <2>2, <1>5 DEF KfifoIn
    <2> QED
      BY <2>3, <1>5, SubSeqFull
  <1> HIDE DEF filled
  <1>7. filled \in Seq(1 .. MaxBytes) /\ Len(filled) = Len(fifo) + n
    BY <1>1, <1>5, <1>6, ConcatProperties
  <1>8. Len(filled) <= BSize /\ Len(rest) < XSize
    BY <1>1, <1>2, <1>4, <1>5, <1>7
  <1>9. (got \o filled) \o rest = (got \o fifo) \o xmit
    <2>1. got \o filled = (got \o fifo) \o taken
      BY <1>1, <1>5, <1>6, BytesAssociative, ZenonT(40)
    <2>2. got \o fifo \in Seq(1 .. MaxBytes)
      BY <1>1, ConcatProperties
    <2>3. ((got \o fifo) \o taken) \o rest = (got \o fifo) \o (taken \o rest)
      BY <2>2, <1>5, BytesAssociative
    <2> QED
      BY <2>1, <2>3, <1>5
  <1> QED
    BY <1>4, <1>5, <1>7, <1>8, <1>9 DEF taken, rest, filled, All

-----------------------------------------------------------------------------
(* One lemma per property and kind of step.                                *)

\* What the core does when CTS changes: under CRTSCTS it then holds the
\* transmitter exactly if CTS is down, otherwise it touches nothing.
LEMMA CtsChangeFacts ==
    ASSUME hwStopped \in BOOLEAN, NEW flow \in BOOLEAN, NEW up \in BOOLEAN,
           NEW act \in SUBSET Timer, NEW arm \in SUBSET Timer
    PROVE  LET change == CtsChange(flow, up, act, arm) IN
           /\ change.stopped \in BOOLEAN /\ change.wakes \in BOOLEAN
           /\ change.active \in SUBSET Timer /\ change.armed \in SUBSET Timer
           /\ flow => (change.stopped <=> ~up)
           /\ ~flow => change.active = act /\ change.armed = arm
  <1>1. "tx" \in Timer
    BY DEF Timer
  <1> QED
    BY <1>1 DEF CtsChange

\* Rearm adds at most the handler's own timer, and only if it is active.
LEMMA RearmFacts ==
    ASSUME NEW t \in Timer, NEW act \in SUBSET Timer, NEW arm \in SUBSET Timer
    PROVE  Rearm(t, act, arm) \in SUBSET Timer /\ (act = {} => Rearm(t, act, arm) = arm)
  BY DEF Rearm

\* The types of the variables that control the port.
ControlOK ==
    /\ phase \in {"closed", "open", "closing", "shut", "freed", "crashed"}
    /\ active \in SUBSET Timer /\ armed \in SUBSET Timer /\ running \in SUBSET Timer
    /\ baud \in Baud
    /\ rtscts \in BOOLEAN /\ rts \in BOOLEAN /\ cts \in BOOLEAN
    /\ hwStopped \in BOOLEAN /\ writer \in BOOLEAN

\* The types of what the port carries.
BytesOK ==
    /\ fifo \in Seq(1 .. MaxBytes) /\ Len(fifo) <= BSize
    /\ xmit \in Seq(1 .. MaxBytes) /\ Len(xmit) < XSize
    /\ got \in Seq(1 .. MaxBytes)
    /\ written \in 0 .. MaxBytes /\ flushed \in SUBSET (1 .. MaxBytes)

\* TypeOK is the two together.
LEMMA TypeParts == TypeOK <=> ControlOK /\ BytesOK
  BY DEF TypeOK, ControlOK, BytesOK

\* No step can leave a control variable without its type.
LEMMA NextControl ==
    ASSUME ControlOK, Next
    PROVE  ControlOK'
  <1> USE DEF ControlOK
  <1>1. "rx" \in Timer /\ "tx" \in Timer /\ DefBaud \in Baud
    BY EchoserialAssumption DEF Timer
  <1>2. CASE Startup
    BY <1>1, <1>2 DEF Startup, Start
  <1>3. CASE SetMctrl
    BY <1>3 DEF SetMctrl
  <1>4. CASE Write
    <2>1. active' \in SUBSET Timer /\ armed' \in SUBSET Timer
      BY <1>1, <1>4 DEF Write, Start
    <2>2. writer' \in BOOLEAN
      BY <1>4 DEF Write
    <2> QED
      BY <1>4, <2>1, <2>2 DEF Write, line
  <1>5. CASE StopRx
    BY <1>5 DEF StopRx, Stop, line
  <1>6. CASE Shutdown
    BY <1>6 DEF Shutdown, Stop, line
  <1>11. CASE FreeXmit
    BY <1>11 DEF FreeXmit, line
  <1>12. CASE Flush
    BY <1>12 DEF Flush, line
  <1>13. CASE TxHandlerCrashes
    BY <1>13 DEF TxHandlerCrashes, line
  <1>7. CASE \E b \in Baud, flow \in BOOLEAN : SetTermios(b, flow)
    <2>1. PICK b \in Baud, flow \in BOOLEAN : SetTermios(b, flow)
      BY <1>7
    <2> PICK up \in BOOLEAN : up = cts
      OBVIOUS
    <2>2. PICK change : change = CtsChange(flow, up, active, armed)
      OBVIOUS
    <2>3. /\ change.stopped \in BOOLEAN /\ change.wakes \in BOOLEAN
          /\ change.active \in SUBSET Timer /\ change.armed \in SUBSET Timer
      BY <2>2, <1>1 DEF CtsChange
    <2>4. /\ active' \in SUBSET Timer /\ armed' \in SUBSET Timer /\ hwStopped' \in BOOLEAN
      BY <2>1, <2>2, <2>3, <1>1 DEF SetTermios, Start
    <2>5. writer' \in BOOLEAN
      BY <2>1 DEF SetTermios
    <2> QED
      BY <2>1, <2>4, <2>5 DEF SetTermios
  <1>8. CASE RxHandler
    <2>1. PICK change : change = CtsChange(rtscts, TRUE, active, armed)
      OBVIOUS
    <2>2. /\ change.stopped \in BOOLEAN /\ change.wakes \in BOOLEAN
          /\ change.active \in SUBSET Timer /\ change.armed \in SUBSET Timer
      BY <2>1, CtsChangeFacts
    <2>3. /\ active' \in SUBSET Timer /\ hwStopped' \in BOOLEAN
          /\ writer' \in BOOLEAN /\ cts' \in BOOLEAN
      <3>1. CASE ~rts /\ rtscts
        BY <1>8, <3>1 DEF RxHandler
      <3>2. CASE ~(~rts /\ rtscts)
        <4>1. cts' = TRUE
          BY <1>8, <3>2 DEF RxHandler
        <4>2. CASE cts
          BY <1>8, <3>2, <4>1, <4>2 DEF RxHandler
        <4>3. CASE ~cts
          BY <1>8, <2>1, <2>2, <3>2, <4>1, <4>3 DEF RxHandler
        <4> QED
          BY <4>2, <4>3
      <3> QED
        BY <3>1, <3>2
    <2>4. armed' \in SUBSET Timer
      <3>1. PICK arm \in SUBSET Timer : armed' = Rearm("rx", active, arm)
        BY <1>8, <2>1, <2>2 DEF RxHandler
      <3> QED
        BY <3>1, <1>1, RearmFacts
    <2> QED
      BY <1>8, <2>3, <2>4 DEF RxHandler, line
  <1>9. CASE TxHandler
    <2>1. PICK change : change = CtsChange(rtscts, FALSE, active, armed)
      OBVIOUS
    <2>2. /\ change.stopped \in BOOLEAN /\ change.wakes \in BOOLEAN
          /\ change.active \in SUBSET Timer /\ change.armed \in SUBSET Timer
      BY <2>1, CtsChangeFacts, ZenonT(40)
    <2>3. /\ active' \in SUBSET Timer /\ hwStopped' \in BOOLEAN
      BY <1>9, <2>1, <2>2 DEF TxHandler
    <2>4. writer' \in BOOLEAN /\ cts' \in BOOLEAN
      BY <1>9 DEF TxHandler, StillBlocked
    <2>5. armed' \in SUBSET Timer
      <3>1. PICK act \in SUBSET Timer, arm \in SUBSET Timer : armed' = Rearm("tx", act, arm)
        BY <1>9, <2>1, <2>2 DEF TxHandler
      <3> QED
        BY <3>1, <1>1, RearmFacts
    <2> QED
      BY <1>9, <2>3, <2>4, <2>5 DEF TxHandler, line
  <1>10. CASE \E t \in Timer : Expire(t)
    BY <1>10 DEF Expire, line
  <1> QED
    BY <1>2, <1>3, <1>4, <1>5, <1>6, <1>7, <1>8, <1>9, <1>10, <1>11, <1>12, <1>13
    DEF Next, User, Timers

\* Steps that move no byte keep the types of the buffers and the echo.
LEMMA SameBytes ==
    ASSUME BytesOK, Echoes, FlushedWritten, UNCHANGED <<fifo, xmit, got, written, flushed>>
    PROVE  BytesOK' /\ Echoes' /\ FlushedWritten'
  BY DEF BytesOK, Echoes, FlushedWritten

\* A byte that is written is larger than all before it and goes to the end of
\* the transmit buffer, which has room for it.
LEMMA WriteBytes ==
    ASSUME TypeOK, Echoes, FlushedWritten, Write
    PROVE  BytesOK' /\ Echoes' /\ FlushedWritten'
  <1>1. CASE CharsFree = 0
    <2>1. UNCHANGED <<fifo, xmit, got, written, flushed>>
      BY <1>1 DEF Write
    <2> QED
      BY <2>1, SameBytes, TypeParts
  <1>2. CASE CharsFree # 0
    <2>1. PICK n \in Nat : n = written + 1 /\ n \in 1 .. MaxBytes
      BY EchoserialAssumption DEF Write, TypeOK
    <2>2. written' = n /\ xmit' = Append(xmit, n) /\ UNCHANGED <<fifo, flushed, got>>
      BY <1>2, <2>1 DEF Write
    <2>3. /\ fifo \in Seq(1 .. MaxBytes) /\ got \in Seq(1 .. MaxBytes)
          /\ xmit \in Seq(1 .. MaxBytes) /\ <<n>> \in Seq(1 .. MaxBytes)
          /\ got \o fifo \in Seq(1 .. MaxBytes) /\ All \in Seq(1 .. MaxBytes)
      BY <2>1, ConcatProperties DEF TypeOK, All
    <2>4. xmit' = xmit \o <<n>>
      <3>1. PICK S : S = 1 .. MaxBytes
        OBVIOUS
      <3>2. xmit \in Seq(S) /\ n \in S
        BY <2>1, <2>3, <3>1
      <3>3. Append(xmit, n) = xmit \o <<n>>
        BY <3>2, AppendIsConcat
      <3> QED
        BY <2>2, <3>3
    <2>5. BytesOK'
      <3>1. xmit' \in Seq(1 .. MaxBytes) /\ Len(xmit') = Len(xmit) + 1
        BY <2>1, <2>2, <2>3, AppendProperties
      <3>2. Len(xmit) \in Nat /\ XSize \in Nat /\ Len(xmit) < XSize
        <4>1. XSize \in Nat
          BY EchoserialAssumption
        <4>2. Len(xmit) \in Nat
          BY <2>3, LenProperties
        <4> QED
          BY <4>1, <4>2 DEF TypeOK
      <3>3. Len(xmit) + 1 < XSize
        BY <1>2, <3>2 DEF CharsFree
      <3>4. n \in 0 .. MaxBytes
        BY <2>1, EchoserialAssumption
      <3> QED
        BY <2>2, <3>1, <3>3, <3>4 DEF BytesOK, TypeOK
    <2>6. All' = All \o <<n>>
      <3>1. ((got \o fifo) \o xmit) \o <<n>> = (got \o fifo) \o (xmit \o <<n>>)
        BY <2>3, BytesAssociative, ZenonT(40)
      <3> QED
        BY <3>1, <2>2, <2>4 DEF All
    <2>7. Increasing(All) /\ Elements(All) = (1 .. written) \ flushed
      BY EchoesMeaning
    <2>9. \A x \in Elements(All) : x < n
      BY <2>1, <2>7 DEF TypeOK
    <2>10. Increasing(All \o <<n>>) /\ Elements(All \o <<n>>) = Elements(All) \union {n}
      <3>1. n \in 1 .. MaxBytes
        BY <2>1
      <3> QED
        BY <3>1, <2>3, <2>7, <2>9, AppendIncreasing
    <2>11. Elements(All) \union {n} = (1 .. n) \ flushed
      BY <2>1, <2>7 DEF TypeOK, FlushedWritten
    <2>12. FlushedWritten'
      BY <2>1, <2>2 DEF FlushedWritten, TypeOK
    <2> QED
      BY <2>2, <2>5, <2>6, <2>10, <2>11, <2>12, ZenonT(40) DEF Echoes, All, Increasing, Elements
  <1> QED
    BY <1>1, <1>2

\* A close throws away what was still to be transmitted; what remains is an
\* initial part of what there was.
LEMMA FlushBytes ==
    ASSUME TypeOK, Echoes, FlushedWritten, Flush
    PROVE  BytesOK' /\ Echoes' /\ FlushedWritten'
  <1>1. PICK S : S = 1 .. MaxBytes
    OBVIOUS
  <1> S \subseteq Int
    BY <1>1
  <1>2. PICK s : s = got \o fifo
    OBVIOUS
  <1>3. /\ fifo \in Seq(S) /\ got \in Seq(S) /\ xmit \in Seq(S) /\ s \in Seq(S)
    BY <1>1, <1>2, ConcatProperties DEF TypeOK
  <1>4. /\ xmit' = << >> /\ UNCHANGED <<fifo, got, written>>
        /\ flushed' = flushed \union Elements(xmit)
    BY DEF Flush, Elements
  <1>5. Increasing(s \o xmit) /\ Elements(s \o xmit) = (1 .. written) \ flushed
    BY <1>2, EchoesMeaning DEF All
  <1>6. Increasing(s) /\ Elements(s) \intersect Elements(xmit) = {}
    BY <1>1, <1>3, <1>5, PrefixIncreasing
  <1>7. Elements(s) \union Elements(xmit) = (1 .. written) \ flushed
    BY <1>3, <1>5, ElementsConcat
  <1>8. Elements(s) = (1 .. written) \ flushed'
    BY <1>4, <1>6, <1>7
  <1>9. All' = s
    BY <1>2, <1>3, <1>4, ConcatEmptySeq DEF All
  <1>10. Echoes'
    <2>1. written' = written
      BY <1>4
    <2>2. Increasing(All') /\ Elements(All') = (1 .. written') \ flushed'
      BY <2>1, <1>6, <1>8, <1>9
    <2> QED
      BY <2>2 DEF Echoes, All, Increasing, Elements
  <1>11. FlushedWritten'
    BY <1>4, <1>7 DEF FlushedWritten
  <1>12. BytesOK'
    <2>1. xmit' \in Seq(1 .. MaxBytes) /\ Len(xmit') < XSize
      <3>1. Len(xmit') = 0 /\ 0 < XSize
        BY <1>4, EchoserialAssumption
      <3> QED
        BY <3>1, <1>4
    <2>2. flushed' \in SUBSET (1 .. MaxBytes)
      <3>1. written' \in 0 .. MaxBytes /\ MaxBytes \in Nat
        BY <1>4, EchoserialAssumption DEF TypeOK
      <3> QED
        BY <3>1, <1>11 DEF FlushedWritten
    <2> QED
      BY <2>1, <2>2, <1>4 DEF BytesOK, TypeOK
  <1> QED
    BY <1>10, <1>11, <1>12

\* The rx timer moves bytes and loses none.
LEMMA RxBytes ==
    ASSUME TypeOK, Echoes, FlushedWritten, RxHandler
    PROVE  BytesOK' /\ Echoes' /\ FlushedWritten'
  <1>1. CASE ~rts /\ rtscts
    <2>1. UNCHANGED <<fifo, xmit, got, written, flushed>>
      BY <1>1 DEF RxHandler
    <2> QED
      BY <2>1, SameBytes, TypeParts
  <1>2. CASE ~(~rts /\ rtscts)
    <2>1. /\ got' = got \o SubSeq(fifo, 1, RxCount)
          /\ fifo' = SubSeq(fifo, RxCount + 1, Len(fifo))
          /\ UNCHANGED <<xmit, written, flushed>>
      BY <1>2 DEF RxHandler
    <2>2. /\ got' \in Seq(1 .. MaxBytes) /\ fifo' \in Seq(1 .. MaxBytes)
          /\ Len(fifo') <= BSize /\ got' \o fifo' = got \o fifo
      BY <2>1, RxMoves
    <2>3. BytesOK'
      BY <2>1, <2>2 DEF BytesOK, TypeOK
    <2>4. All' = All
      BY <2>1, <2>2 DEF All
    <2>5. Echoes'
      BY <2>1, <2>4, EchoesMeaning DEF Echoes, All, Increasing, Elements
    <2> QED
      BY <2>1, <2>3, <2>5 DEF FlushedWritten
  <1> QED
    BY <1>1, <1>2

\* The tx timer moves bytes and loses none.
LEMMA TxBytes ==
    ASSUME TypeOK, Echoes, FlushedWritten, TxHandler
    PROVE  BytesOK' /\ Echoes' /\ FlushedWritten'
  <1>1. /\ fifo' = KfifoIn(fifo, SubSeq(xmit, 1, TxCount))
        /\ xmit' = SubSeq(xmit, TxCount + 1, Len(xmit))
        /\ UNCHANGED <<got, written, flushed>>
    BY DEF TxHandler
  <1>2. /\ fifo' \in Seq(1 .. MaxBytes) /\ Len(fifo') <= BSize
        /\ xmit' \in Seq(1 .. MaxBytes) /\ Len(xmit') < XSize
        /\ (got \o fifo') \o xmit' = All
    BY <1>1, TxMoves
  <1>3. BytesOK'
    BY <1>1, <1>2 DEF BytesOK, TypeOK
  <1>4. All' = All
    BY <1>1, <1>2 DEF All
  <1>5. Echoes'
    BY <1>1, <1>4, EchoesMeaning DEF Echoes, All, Increasing, Elements
  <1> QED
    BY <1>1, <1>3, <1>5 DEF FlushedWritten

\* Every step keeps the echo.
LEMMA NextBytes ==
    ASSUME TypeOK, Echoes, FlushedWritten, Next
    PROVE  BytesOK' /\ Echoes' /\ FlushedWritten'
  <1>1. CASE Startup
    BY <1>1, SameBytes, TypeParts DEF Startup
  <1>2. CASE SetMctrl
    BY <1>2, SameBytes, TypeParts DEF SetMctrl
  <1>3. CASE StopRx
    BY <1>3, SameBytes, TypeParts DEF StopRx
  <1>4. CASE \E b \in Baud, flow \in BOOLEAN : SetTermios(b, flow)
    BY <1>4, SameBytes, TypeParts DEF SetTermios
  <1>5. CASE \E t \in Timer : Expire(t)
    BY <1>5, SameBytes, TypeParts DEF Expire
  <1>6. CASE Shutdown
    BY <1>6, SameBytes, TypeParts DEF Shutdown
  <1>7. CASE FreeXmit
    BY <1>7, SameBytes, TypeParts DEF FreeXmit
  <1>8. CASE TxHandlerCrashes
    BY <1>8, SameBytes, TypeParts DEF TxHandlerCrashes
  <1> QED
    BY <1>1, <1>2, <1>3, <1>4, <1>5, <1>6, <1>7, <1>8, WriteBytes, FlushBytes, RxBytes, TxBytes
    DEF Next, User, Timers

\* Every step keeps the core and the port in agreement.  Without CRTSCTS,
\* a handler that outlives the shutdown finds no active timer to arm again;
\* with it, a change of CTS and the core's reaction to it are one step.
LEMMA NextFlow ==
    ASSUME TypeOK, FlowAgrees, Next
    PROVE  FlowAgrees'
  <1> USE DEF FlowAgrees
  <1>1. ControlOK
    BY TypeParts
  <1>2. CASE Startup
    BY <1>2 DEF Startup
  <1>3. CASE SetMctrl
    BY <1>3 DEF SetMctrl
  <1>4. CASE Write
    BY <1>4 DEF Write, line
  <1>5. CASE StopRx
    BY <1>5 DEF StopRx
  <1>6. CASE Shutdown
    <2>1. phase' = "shut" /\ active' = {} /\ armed' = {}
      BY <1>1, <1>6 DEF Shutdown, Stop, ControlOK, Timer
    <2> QED
      BY <2>1
  <1>11. CASE FreeXmit
    BY <1>11 DEF FreeXmit, line
  <1>12. CASE Flush
    BY <1>12 DEF Flush, line
  <1>13. CASE TxHandlerCrashes
    BY <1>13 DEF TxHandlerCrashes, ReadsFreed, line
  <1>7. CASE \E b \in Baud, flow \in BOOLEAN : SetTermios(b, flow)
    <2>1. PICK b \in Baud, flow \in BOOLEAN : SetTermios(b, flow)
      BY <1>7
    <2> PICK up \in BOOLEAN : up = cts
      BY <1>1 DEF ControlOK
    <2>2. PICK change : change = CtsChange(flow, up, active, armed)
      OBVIOUS
    <2>3. flow => (change.stopped <=> ~up)
      BY <1>1, <2>2 DEF ControlOK, CtsChange
    <2>4. /\ phase' = "open" /\ rtscts' = flow /\ cts' = cts
          /\ flow => hwStopped' = change.stopped
      BY <2>1, <2>2 DEF SetTermios
    <2> QED
      BY <2>2, <2>3, <2>4
  <1>8. CASE RxHandler
    <2>1. PICK change : change = CtsChange(rtscts, TRUE, active, armed)
      OBVIOUS
    <2>2. /\ rtscts => (change.stopped <=> ~TRUE)
          /\ ~rtscts => change.active = active /\ change.armed = armed
      BY <1>1, <2>1 DEF ControlOK, CtsChange
    <2>3. UNCHANGED <<phase, rtscts>>
      BY <1>8 DEF RxHandler, line
    <2>4. rtscts => (hwStopped' = hwStopped /\ cts' = cts) \/ (~hwStopped' /\ cts')
      BY <1>8, <2>1, <2>2 DEF RxHandler
    <2>5. ~rtscts => active' = active
      BY <1>8, <2>1, <2>2 DEF RxHandler
    <2>6. ~rtscts => armed' = Rearm("rx", active, armed)
      BY <1>8, <2>1, <2>2 DEF RxHandler
    <2>7. "rx" \in Timer
      BY DEF Timer
    <2>8. active = {} => Rearm("rx", active, armed) = armed
      BY <1>1, <2>7, RearmFacts DEF ControlOK
    <2> QED
      BY <2>3, <2>4, <2>5, <2>6, <2>8
  <1>9. CASE TxHandler
    <2>1. PICK change : change = CtsChange(rtscts, FALSE, active, armed)
      OBVIOUS
    <2>2. /\ rtscts => (change.stopped <=> ~FALSE)
          /\ ~rtscts => change.active = active /\ change.armed = armed
      BY <1>1, <2>1 DEF ControlOK, CtsChange
    <2>3. UNCHANGED <<phase, rtscts>>
      BY <1>9 DEF TxHandler, line
    <2>4. rtscts => (hwStopped' = hwStopped /\ (cts' <=> cts)) \/ (hwStopped' /\ ~cts')
      BY <1>9, <2>1, <2>2 DEF TxHandler
    <2>5. ~rtscts => active' = active
      BY <1>9, <2>1, <2>2 DEF TxHandler
    <2>6. ~rtscts => armed' = Rearm("tx", active, armed)
      BY <1>9, <2>1, <2>2 DEF TxHandler
    <2>7. "tx" \in Timer
      BY DEF Timer
    <2>8. active = {} => Rearm("tx", active, armed) = armed
      BY <1>1, <2>7, RearmFacts DEF ControlOK
    <2> QED
      BY <2>3, <2>4, <2>5, <2>6, <2>8
  <1>10. CASE \E t \in Timer : Expire(t)
    BY <1>10 DEF Expire, line
  <1> QED
    BY <1>2, <1>3, <1>4, <1>5, <1>6, <1>7, <1>8, <1>9, <1>10, <1>11, <1>12, <1>13
    DEF Next, User, Timers

-----------------------------------------------------------------------------

\* The invariant holds initially and every step preserves it.
THEOREM Invariance == Spec => []IInv
  <1>1. Init => IInv
    <2> SUFFICES ASSUME Init PROVE IInv
      OBVIOUS
    <2>1. ControlOK
      BY EchoserialAssumption DEF Init, ControlOK
    <2>2. BytesOK
      <3>1. /\ << >> \in Seq(1 .. MaxBytes) /\ Len(<< >>) = 0
            /\ 0 <= BSize /\ 0 < XSize /\ 0 \in 0 .. MaxBytes
        BY EchoserialAssumption
      <3> QED
        BY <3>1 DEF Init, BytesOK
    <2>3. Echoes
      <3>1. got \o fifo \o xmit = << >>
        BY DEF Init
      <3>2. 1 .. written = {}
        BY DEF Init
      <3> QED
        BY <3>1, <3>2 DEF Echoes
    <2>4. FlushedWritten /\ FlowAgrees
      BY DEF Init, FlushedWritten, FlowAgrees
    <2> QED
      BY <2>1, <2>2, <2>3, <2>4, TypeParts DEF IInv
  <1>2. IInv /\ [Next]_vars => IInv'
    <2> SUFFICES ASSUME IInv, [Next]_vars
                 PROVE  IInv'
      OBVIOUS
    <2>1. TypeOK /\ Echoes /\ FlushedWritten /\ FlowAgrees
      BY DEF IInv
    <2>2. CASE Next
      <3>1. ControlOK'
        BY <2>1, <2>2, TypeParts, NextControl
      <3>2. BytesOK' /\ Echoes' /\ FlushedWritten'
        BY <2>1, <2>2, NextBytes
      <3>3. FlowAgrees'
        BY <2>1, <2>2, NextFlow
      <3>4. TypeOK'
        BY <3>1, <3>2 DEF TypeOK, ControlOK, BytesOK
      <3> QED
        BY <3>2, <3>3, <3>4 DEF IInv
    <2>3. CASE UNCHANGED vars
      BY <2>1, <2>3 DEF vars, line, IInv, TypeOK, Echoes, FlushedWritten, FlowAgrees
    <2> QED
      BY <2>2, <2>3
  <1> QED
    BY <1>1, <1>2, PTL DEF Spec

\* No buffer ever exceeds its capacity, whatever the timers' lateness and the
\* order of the users' calls.
THEOREM TypeCorrect == Spec => []TypeOK
  <1>1. IInv => TypeOK
    BY DEF IInv
  <1> QED
    BY <1>1, Invariance, PTL

\* Whatever the buffers' sizes and the rates that are set, the bytes come back
\* in the order in which they were written, each once, save those of a close.
THEOREM EchoesAlways == Spec => []Echoes
  <1>1. IInv => Echoes
    BY DEF IInv
  <1> QED
    BY <1>1, Invariance, PTL

\* Flow control and the core's hold on the transmitter never disagree while the
\* port is open, and after its shutdown a port without CRTSCTS has no timer.
THEOREM FlowAgreesAlways == Spec => []FlowAgrees
  <1>1. IInv => FlowAgrees
    BY DEF IInv
  <1> QED
    BY <1>1, Invariance, PTL
=============================================================================
