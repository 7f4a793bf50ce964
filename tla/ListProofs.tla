----------------------------- MODULE ListProofs -----------------------------
(***************************************************************************)
(* What list_add, list_add_tail, list_del and a search do to a list of the *)
(* kernel that has each entry once: lemmas that the proofs about several   *)
(* drivers cite.                                                           *)
(***************************************************************************)
EXTENDS Integers, Sequences, FiniteSets, SequencesExt, SequenceTheorems, FiniteSetTheorems,
        WellFoundedInduction, TLAPS

\* A list contains what is among its entries.
LEMMA ListContains ==
    ASSUME NEW S, NEW s \in Seq(S), NEW x
    PROVE  Contains(s, x) <=> x \in ToSet(s)
  <1>1. DOMAIN s = 1 .. Len(s)
    BY LenProperties
  <1> QED
    BY <1>1 DEF Contains, ToSet

\* list_del takes one entry off the list and leaves the others on it.
LEMMA ListDel ==
    ASSUME NEW S, NEW s \in Seq(S), IsInjective(s), NEW k \in DOMAIN s
    PROVE  LET e == RemoveAt(s, k) IN
           /\ e \in Seq(S) /\ Len(e) = Len(s) - 1
           /\ IsInjective(e)
           /\ ToSet(e) = ToSet(s) \ {s[k]}
  <1> DEFINE n == Len(s)
             a == SubSeq(s, 1, k - 1)
             b == SubSeq(s, k + 1, n)
             e == a \o b
  <1>1. /\ n \in Nat /\ DOMAIN s = 1 .. n /\ \A i \in 1 .. n : s[i] \in S
    BY LenProperties, ElementOfSeq
  <1>2. \A i, j \in 1 .. n : s[i] = s[j] => i = j
    BY <1>1 DEF IsInjective
  <1>3. RemoveAt(s, k) = e
    BY DEF RemoveAt
  <1>4. /\ a \in Seq(S) /\ Len(a) = k - 1 /\ \A i \in 1 .. k - 1 : a[i] = s[i]
    BY <1>1, SubSeqProperties
  <1>5. /\ b \in Seq(S) /\ Len(b) = n - k /\ \A i \in 1 .. n - k : b[i] = s[i + k]
    BY <1>1, SubSeqProperties
  <1> HIDE DEF a, b, n
  <1>6. k \in 1 .. n /\ Len(a) + Len(b) = n - 1
    BY <1>1, <1>4, <1>5
  <1>7. /\ e \in Seq(S) /\ Len(e) = n - 1 /\ DOMAIN e = 1 .. n - 1
        /\ \A i \in 1 .. n - 1 : e[i] = IF i <= Len(a) THEN a[i] ELSE b[i - Len(a)]
    <2>0. a \in Seq(S) /\ b \in Seq(S)
      BY <1>4, <1>5
    <2>1. /\ e \in Seq(S) /\ Len(e) = Len(a) + Len(b)
          /\ \A i \in 1 .. Len(a) + Len(b) : e[i] = IF i <= Len(a) THEN a[i] ELSE b[i - Len(a)]
      BY <2>0, ConcatProperties
    <2> QED
      BY <1>6, <2>1, LenProperties
  <1> HIDE DEF e
  <1>8. \A i \in 1 .. n - 1 : (i < k => e[i] = s[i]) /\ (i >= k => e[i] = s[i + 1])
    <2> SUFFICES ASSUME NEW i \in 1 .. n - 1
                 PROVE  (i < k => e[i] = s[i]) /\ (i >= k => e[i] = s[i + 1])
      OBVIOUS
    <2>1. CASE i < k
      BY <1>1, <1>4, <1>6, <1>7, <2>1
    <2>2. CASE i >= k
      <3>1. i - Len(a) \in 1 .. n - k /\ ~(i <= Len(a)) /\ i - Len(a) + k = i + 1
        BY <1>1, <1>4, <1>6, <2>2
      <3>2. e[i] = b[i - Len(a)] /\ b[i - Len(a)] = s[i - Len(a) + k]
        BY <1>5, <1>7, <3>1
      <3> QED
        BY <1>1, <1>6, <2>2, <3>1, <3>2, SMTT(30)
    <2> QED
      BY <1>1, <1>6, <2>1, <2>2
  <1>9. \A i, j \in DOMAIN e : e[i] = e[j] => i = j
    <2> SUFFICES ASSUME NEW i \in 1 .. n - 1, NEW j \in 1 .. n - 1, e[i] = e[j] PROVE i = j
      BY <1>7
    <2>1. PICK u \in 1 .. n : e[i] = s[u] /\ u = IF i < k THEN i ELSE i + 1
      BY <1>1, <1>6, <1>8
    <2>2. PICK v \in 1 .. n : e[j] = s[v] /\ v = IF j < k THEN j ELSE j + 1
      BY <1>1, <1>6, <1>8
    <2>3. u = v
      BY <1>2, <2>1, <2>2
    <2> QED
      BY <1>1, <1>6, <2>1, <2>2, <2>3
  <1>10. \A i \in DOMAIN e : \E j \in DOMAIN s : j # k /\ e[i] = s[j]
    <2> SUFFICES ASSUME NEW i \in 1 .. n - 1 PROVE \E j \in 1 .. n : j # k /\ e[i] = s[j]
      BY <1>1, <1>7
    <2>1. CASE i < k
      BY <1>1, <1>6, <1>8, <2>1
    <2>2. CASE i >= k
      BY <1>1, <1>6, <1>8, <2>2
    <2> QED
      BY <1>1, <1>6, <2>1, <2>2
  <1>11. \A j \in DOMAIN s : j # k => \E i \in DOMAIN e : e[i] = s[j]
    <2> SUFFICES ASSUME NEW j \in 1 .. n, j # k PROVE \E i \in 1 .. n - 1 : e[i] = s[j]
      BY <1>1, <1>7
    <2>1. CASE j < k
      BY <1>1, <1>6, <1>8, <2>1
    <2>2. CASE j > k
      <3>1. j - 1 \in 1 .. n - 1 /\ j - 1 >= k /\ (j - 1) + 1 = j
        BY <1>1, <1>6, <2>2
      <3> QED
        BY <1>8, <3>1
    <2> QED
      BY <1>1, <1>6, <2>1, <2>2
  <1>12. IsInjective(e)
    BY <1>9 DEF IsInjective
  <1>13. ToSet(e) = ToSet(s) \ {s[k]}
    <2>1. ASSUME NEW x \in ToSet(e) PROVE x \in ToSet(s) \ {s[k]}
      <3>1. PICK i \in DOMAIN e : x = e[i]
        BY <2>1 DEF ToSet
      <3>2. PICK j \in DOMAIN s : j # k /\ x = s[j]
        BY <1>10, <3>1
      <3> QED
        BY <1>1, <1>2, <3>2 DEF ToSet
    <2>2. ASSUME NEW x \in ToSet(s), x # s[k] PROVE x \in ToSet(e)
      <3>1. PICK j \in DOMAIN s : x = s[j]
        BY <2>2 DEF ToSet
      <3>2. PICK i \in DOMAIN e : e[i] = x
        BY <1>11, <2>2, <3>1 DEF ToSet
      <3> QED
        BY <3>2 DEF ToSet
    <2> QED
      BY <2>1, <2>2
  <1> QED
    BY <1>3, <1>7, <1>12, <1>13 DEF n

\* The entry that is deleted by its address is found.
LEMMA ListFind ==
    ASSUME NEW S, NEW s \in Seq(S), NEW x \in ToSet(s)
    PROVE  LET k == CHOOSE i \in DOMAIN s : s[i] = x IN k \in DOMAIN s /\ s[k] = x
  <1>1. \E i \in DOMAIN s : s[i] = x
    BY DEF ToSet
  <1> QED
    BY <1>1

\* list_add puts an entry before the others.
LEMMA ListAdd ==
    ASSUME NEW S, NEW s \in Seq(S), IsInjective(s), NEW x \in S, x \notin ToSet(s),
           NEW h, h = <<x>> \o s
    PROVE  /\ h \in Seq(S) /\ Len(h) = Len(s) + 1 /\ IsInjective(h)
           /\ \A y : y \in ToSet(h) <=> y \in ToSet(s) \/ y = x
  <1> DEFINE n == Len(s)
  <1>1. n \in Nat /\ DOMAIN s = 1 .. n
    BY LenProperties
  <1>2. \A i, j \in 1 .. n : (s[i] = s[j] => i = j) /\ s[i] # x
    BY <1>1 DEF IsInjective, ToSet
  <1>3. h \in Seq(S) /\ Len(h) = n + 1 /\ \A i \in 1 .. n + 1 : h[i] = IF i = 1 THEN x ELSE s[i - 1]
    <2>1. <<x>> \in Seq(S) /\ Len(<<x>>) = 1 /\ <<x>>[1] = x
      OBVIOUS
    <2>2. /\ h \in Seq(S) /\ Len(h) = 1 + n
          /\ \A i \in 1 .. 1 + n : h[i] = IF i <= 1 THEN <<x>>[i] ELSE s[i - 1]
      BY <2>1, ConcatProperties
    <2> HIDE DEF n
    <2> QED
      BY <1>1, <2>1, <2>2
  <1>4. DOMAIN h = 1 .. n + 1
    BY <1>1, <1>3, LenProperties
  <1> HIDE DEF n
  <1>5. \A i, j \in 1 .. n + 1 : h[i] = h[j] => i = j
    <2> SUFFICES ASSUME NEW i \in 1 .. n + 1, NEW j \in 1 .. n + 1, h[i] = h[j] PROVE i = j
      OBVIOUS
    <2>1. CASE i # 1 /\ j # 1
      <3>1. i - 1 \in 1 .. n /\ j - 1 \in 1 .. n /\ s[i - 1] = s[j - 1]
        BY <1>1, <1>3, <2>1
      <3>2. i - 1 = j - 1
        BY <1>2, <3>1
      <3> QED
        BY <1>1, <3>2
    <2>2. CASE i # 1 /\ j = 1
      <3>1. i - 1 \in 1 .. n /\ h[i] = s[i - 1] /\ h[j] = x
        BY <1>1, <1>3, <2>2
      <3> QED
        BY <1>2, <3>1
    <2>3. CASE i = 1 /\ j # 1
      <3>1. j - 1 \in 1 .. n /\ h[j] = s[j - 1] /\ h[i] = x
        BY <1>1, <1>3, <2>3
      <3> QED
        BY <1>2, <3>1
    <2> QED
      BY <2>1, <2>2, <2>3
  <1>6. ToSet(h) = ToSet(s) \union {x}
    <2>1. \A i \in 1 .. n : i + 1 \in 1 .. n + 1 /\ h[i + 1] = s[i]
      BY <1>1, <1>3
    <2>2. 1 \in 1 .. n + 1 /\ h[1] = x
      BY <1>1, <1>3
    <2>3. \A i \in 1 .. n + 1 : i # 1 => i - 1 \in 1 .. n /\ h[i] = s[i - 1]
      BY <1>1, <1>3
    <2>4. ASSUME NEW y \in ToSet(h) PROVE y \in ToSet(s) \union {x}
      <3>1. PICK i \in 1 .. n + 1 : y = h[i]
        BY <1>4, <2>4 DEF ToSet
      <3> QED
        BY <1>1, <2>2, <2>3, <3>1 DEF ToSet
    <2>5. ASSUME NEW y \in ToSet(s) \union {x} PROVE y \in ToSet(h)
      <3>1. CASE y \in ToSet(s)
        <4>1. PICK i \in 1 .. n : y = s[i]
          BY <1>1, <3>1 DEF ToSet
        <4> QED
          BY <1>4, <2>1, <4>1 DEF ToSet
      <3>2. CASE y = x
        BY <1>4, <2>2, <3>2 DEF ToSet
      <3> QED
        BY <2>5, <3>1, <3>2
    <2> QED
      BY <2>4, <2>5
  <1> QED
    BY <1>3, <1>4, <1>5, <1>6 DEF n, IsInjective

\* list_add_tail puts it behind them.
LEMMA ListAddTail ==
    ASSUME NEW S, NEW s \in Seq(S), IsInjective(s), NEW x \in S, x \notin ToSet(s),
           NEW t, t = Append(s, x)
    PROVE  /\ t \in Seq(S) /\ Len(t) = Len(s) + 1 /\ IsInjective(t)
           /\ \A y : y \in ToSet(t) <=> y \in ToSet(s) \/ y = x
  <1> DEFINE n == Len(s)
  <1>1. n \in Nat /\ DOMAIN s = 1 .. n
    BY LenProperties
  <1>2. \A i, j \in 1 .. n : (s[i] = s[j] => i = j) /\ s[i] # x
    BY <1>1 DEF IsInjective, ToSet
  <1>3. t \in Seq(S) /\ Len(t) = n + 1 /\ \A i \in 1 .. n + 1 : t[i] = IF i <= n THEN s[i] ELSE x
    BY AppendProperties
  <1>4. DOMAIN t = 1 .. n + 1
    BY <1>1, <1>3, LenProperties
  <1> HIDE DEF n
  <1>5. \A i, j \in 1 .. n + 1 : t[i] = t[j] => i = j
    <2> SUFFICES ASSUME NEW i \in 1 .. n + 1, NEW j \in 1 .. n + 1, t[i] = t[j] PROVE i = j
      OBVIOUS
    <2>1. CASE i <= n /\ j <= n
      BY <1>1, <1>2, <1>3, <2>1
    <2>2. CASE i <= n /\ j = n + 1
      BY <1>1, <1>2, <1>3, <2>2
    <2>3. CASE i = n + 1 /\ j <= n
      BY <1>1, <1>2, <1>3, <2>3
    <2>4. (i <= n \/ i = n + 1) /\ (j <= n \/ j = n + 1)
      BY <1>1
    <2> QED
      BY <2>1, <2>2, <2>3, <2>4
  <1>6. ToSet(t) = ToSet(s) \union {x}
    <2>1. \A i \in 1 .. n : i \in 1 .. n + 1 /\ t[i] = s[i]
      BY <1>1, <1>3
    <2>2. n + 1 \in 1 .. n + 1 /\ t[n + 1] = x /\ \A i \in 1 .. n + 1 : i \in 1 .. n \/ i = n + 1
      BY <1>1, <1>3
    <2> QED
      BY <1>1, <1>4, <2>1, <2>2 DEF ToSet
  <1> QED
    BY <1>3, <1>4, <1>5, <1>6 DEF n, IsInjective

-----------------------------------------------------------------------------
(* Sets of numbers, and putting them in order.                             *)

\* A set of numbers that is not empty has a least element.
LEMMA LeastNatural ==
    ASSUME NEW S \in SUBSET Nat, S # {}
    PROVE  \E m \in S : \A k \in S : m <= k
  <1> DEFINE R == {ss \in Nat \X Nat : ss[1] < ss[2]}
  <1>1. IsWellFoundedOn(R, Nat)
    BY NatLessThanWellFounded DEF OpToRel
  <1>2. PICK m \in S : \A k \in S : ~ (<<k, m>> \in R)
    BY <1>1, WFMin
  <1>3. ASSUME NEW k \in S PROVE m <= k
    <2>1. <<k, m>> \in R <=> k < m
      BY <1>2
    <2> QED
      BY <1>2, <2>1
  <1> QED
    BY <1>2, <1>3

\* Induction: a set of numbers that has 0, and with a number the next one, has them all.
LEMMA Inductive ==
    ASSUME NEW S, 0 \in S, \A n \in Nat : n \in S => n + 1 \in S
    PROVE  \A n \in Nat : n \in S
  <1> SUFFICES ASSUME Nat \ S # {} PROVE FALSE
    OBVIOUS
  <1>1. PICK m \in Nat \ S : \A k \in Nat \ S : m <= k
    <2>1. Nat \ S \in SUBSET Nat
      OBVIOUS
    <2> QED
      BY <2>1, LeastNatural
  <1>2. m - 1 \in Nat /\ m - 1 \in S
    BY <1>1
  <1> QED
    BY <1>1, <1>2

\* The elements of a finite set of numbers can be put in order.
LEMMA OrderExists ==
    ASSUME NEW S \in SUBSET Nat, IsFiniteSet(S), NEW b \in Nat, \A e \in S : e < b
    PROVE  \E s \in [1 .. Cardinality(S) -> S] :
               \A i, j \in 1 .. Cardinality(S) : i < j => s[i] < s[j]
  <1> DEFINE Ordered(k, s, n) ==
                 /\ s \in [1 .. k -> S] /\ \A i, j \in 1 .. k : i < j => s[i] < s[j]
                 /\ \A e \in S : e < n <=> \E i \in 1 .. k : s[i] = e
             T == {n \in Nat : \E k \in Nat : \E s : Ordered(k, s, n)}
  <1>1. 0 \in T
    <2>1. Ordered(0, << >>, 0)
      OBVIOUS
    <2> HIDE DEF Ordered
    <2> QED
      BY <2>1
  <1>2. ASSUME NEW n \in Nat, n \in T PROVE n + 1 \in T
    <2>0. PICK k \in Nat : \E s : Ordered(k, s, n)
      BY <1>2
    <2>1. PICK s : Ordered(k, s, n)
      BY <2>0
    <2>2. CASE n \notin S
      <3>1. Ordered(k, s, n + 1)
        BY <2>1, <2>2
      <3> HIDE DEF Ordered
      <3> QED
        BY <3>1
    <2>3. CASE n \in S
      <3>1. PICK t : t = [i \in 1 .. k + 1 |-> IF i = k + 1 THEN n ELSE s[i]]
        OBVIOUS
      <3>2. t \in [1 .. k + 1 -> S] /\ t[k + 1] = n /\ \A i \in 1 .. k : t[i] = s[i] /\ t[i] < n
        <4>1. k + 1 \in 1 .. k + 1
          OBVIOUS
        <4>2. ASSUME NEW i \in 1 .. k PROVE i \in 1 .. k + 1 /\ i # k + 1 /\ s[i] \in S /\ s[i] < n
          <5>1. s[i] \in S
            BY <2>1
          <5>2. \A e \in S : (\E j \in 1 .. k : s[j] = e) => e < n
            BY <2>1
          <5>3. s[i] < n
            BY <5>1, <5>2
          <5> QED
            BY <5>1, <5>3
        <4>3. \A i \in 1 .. k + 1 : i # k + 1 => i \in 1 .. k
          OBVIOUS
        <4> QED
          BY <2>3, <3>1, <4>1, <4>2, <4>3
      <3>3. \A i, j \in 1 .. k + 1 : i < j => t[i] < t[j]
        <4> TAKE i \in 1 .. k + 1, j \in 1 .. k + 1
        <4>1. ASSUME j = k + 1, i < j PROVE t[i] < t[j]
          <5>1. i \in 1 .. k
            BY <4>1
          <5> QED
            BY <3>2, <4>1, <5>1
        <4>2. CASE j # k + 1
          <5>1. j \in 1 .. k
            BY <4>2
          <5>2. i < j => i \in 1 .. k
            BY <5>1
          <5> QED
            BY <2>1, <3>2, <5>1, <5>2
        <4> QED
          BY <4>1, <4>2
      <3>4. \A e \in S : e < n + 1 <=> \E i \in 1 .. k + 1 : t[i] = e
        <4> TAKE e \in S
        <4>1. CASE e = n
          <5>1. k + 1 \in 1 .. k + 1
            OBVIOUS
          <5> QED
            BY <3>2, <4>1, <5>1
        <4>2. ASSUME e < n PROVE \E i \in 1 .. k + 1 : t[i] = e
          <5>1. PICK i \in 1 .. k : s[i] = e
            BY <2>1, <4>2
          <5>2. i \in 1 .. k + 1 /\ t[i] = e
            BY <3>2, <5>1
          <5> QED
            BY <5>2
        <4>3. ASSUME NEW i \in 1 .. k + 1, t[i] = e PROVE e < n + 1
          <5>1. i = k + 1 \/ i \in 1 .. k
            OBVIOUS
          <5> QED
            BY <3>2, <4>3, <5>1
        <4> QED
          BY <4>1, <4>2, <4>3
      <3>5. Ordered(k + 1, t, n + 1) /\ k + 1 \in Nat
        BY <3>2, <3>3, <3>4
      <3> HIDE DEF Ordered
      <3> QED
        BY <3>5
    <2> QED
      BY <2>2, <2>3
  <1>3. b \in T
    <2> HIDE DEF T
    <2> QED
      BY <1>1, <1>2, Inductive
  <1>3a. PICK k \in Nat : \E s : Ordered(k, s, b)
    BY <1>3
  <1>4. PICK s : Ordered(k, s, b)
    BY <1>3a
  <1>5. k = Cardinality(S)
    <2>1. \A i, j \in 1 .. k : i # j => s[i] # s[j]
      <3> TAKE i \in 1 .. k, j \in 1 .. k
      <3>1. i # j => i < j \/ j < i
        OBVIOUS
      <3>2. s[i] \in Nat /\ s[j] \in Nat
        BY <1>4
      <3> QED
        BY <1>4, <3>1, <3>2
    <2>2. \A e \in S : \E i \in 1 .. k : s[i] = e
      BY <1>4
    <2>3. s \in Bijection(1 .. k, S)
      BY <1>4, <2>1, <2>2 DEF Bijection, Injection, Surjection, IsInjective
    <2>4. ExistsBijection(1 .. k, S)
      BY <2>3 DEF ExistsBijection
    <2> QED
      BY <2>4, FS_CountingElements
  <1> QED
    BY <1>4, <1>5

\* Numbers in order are as far apart as their places, at least.
LEMMA OrderSpreads ==
    ASSUME NEW c \in Nat, NEW s \in [1 .. c -> Nat],
           \A i, j \in 1 .. c : i < j => s[i] < s[j],
           NEW i \in 1 .. c, NEW j \in i .. c
    PROVE  s[j] >= s[i] + (j - i)
  <1> DEFINE T == {n \in Nat : i + n <= c => s[i + n] >= s[i] + n}
  <1>1. 0 \in T
    BY Z3
  <1>2. ASSUME NEW n \in Nat, n \in T PROVE n + 1 \in T
    <2>1. CASE i + (n + 1) <= c
      <3>1. i + n \in 1 .. c /\ i + (n + 1) \in 1 .. c /\ i + n < i + (n + 1)
        BY <2>1
      <3>2. s[i + n] < s[i + (n + 1)] /\ s[i + n] >= s[i] + n
        BY <1>2, <2>1, <3>1
      <3>3. s[i + n] \in Nat /\ s[i + (n + 1)] \in Nat /\ s[i] \in Nat
        BY <3>1
      <3>4. s[i + (n + 1)] >= s[i] + (n + 1)
        BY <3>2, <3>3
      <3> QED
        BY <3>4
    <2> QED
      BY <2>1
  <1>3. j - i \in Nat /\ i + (j - i) = j /\ j <= c
    OBVIOUS
  <1>4. j - i \in T
    <2> HIDE DEF T
    <2> QED
      BY <1>1, <1>2, <1>3, Inductive
  <1> QED
    BY <1>3, <1>4

\* A list and the first entries of another one.
WithFirst(seen, s, n) == seen \o SubSeq(s, 1, n)

\* It has the elements of both, each once if the second list is in order and shares none.
LEMMA ListConcatFirst ==
    ASSUME NEW seen \in Seq(Nat), NEW s \in Seq(Nat), NEW n \in Nat, n <= Len(s)
    PROVE  /\ WithFirst(seen, s, n) \in Seq(Nat)
           /\ ToSet(WithFirst(seen, s, n)) = ToSet(seen) \union {s[i] : i \in 1 .. n}
           /\ (/\ IsInjective(seen) /\ \A i, j \in 1 .. n : i < j => s[i] < s[j]
               /\ \A i \in 1 .. n : s[i] \notin ToSet(seen))
                 => IsInjective(WithFirst(seen, s, n))
  <1> DEFINE t == seen \o SubSeq(s, 1, n)
  <1>0. t = WithFirst(seen, s, n)
    BY DEF WithFirst
  <1> HIDE DEF t
  <1>1. PICK l, u : l = Len(seen) /\ u = SubSeq(s, 1, n)
    OBVIOUS
  <1>2. l \in Nat /\ Len(s) \in Nat /\ n \in Nat /\ n <= Len(s) /\ DOMAIN seen = 1 .. l
        /\ DOMAIN s = 1 .. Len(s)
    BY <1>1, LenProperties
  <1>3. u \in Seq(Nat) /\ Len(u) = n /\ \A i \in 1 .. n : u[i] = s[i] /\ s[i] \in Nat
    <2>1. \A i \in 1 .. n : s[i] \in Nat
      <3>1. \A i \in 1 .. n : i \in 1 .. Len(s)
        BY <1>2
      <3> QED
        BY <3>1, ElementOfSeq
    <2>2. /\ u \in Seq(Nat) /\ Len(u) = IF 1 <= n THEN n - 1 + 1 ELSE 0
          /\ \A i \in 1 .. n - 1 + 1 : u[i] = s[1 + i - 1]
      BY <1>1, <1>2, <2>1, SubSeqProperties
    <2>3. \A i \in 1 .. n : i \in 1 .. n - 1 + 1 /\ 1 + i - 1 = i
      BY <1>2
    <2>4. Len(u) = n
      BY <1>2, <2>2
    <2>5. \A i \in 1 .. n : u[i] = s[i]
      BY <2>2, <2>3
    <2> QED
      BY <2>1, <2>2, <2>4, <2>5
  <1>4. /\ t \in Seq(Nat) /\ Len(t) = l + n
        /\ \A i \in 1 .. l + n : t[i] = IF i <= l THEN seen[i] ELSE u[i - l]
    <2>1. /\ seen \o u \in Seq(Nat) /\ Len(seen \o u) = Len(seen) + Len(u)
          /\ \A i \in 1 .. Len(seen) + Len(u) :
                (seen \o u)[i] = IF i <= Len(seen) THEN seen[i] ELSE u[i - Len(seen)]
      BY <1>3, ConcatProperties
    <2> QED
      BY <1>1, <1>3, <2>1 DEF t
  <1>5. DOMAIN t = 1 .. l + n
    BY <1>4, LenProperties
  <1>6. \A i \in 1 .. l : i \in 1 .. l + n /\ t[i] = seen[i]
    <2>1. \A i \in 1 .. l : i \in 1 .. l + n /\ i <= l
      BY <1>2
    <2> QED
      BY <1>4, <2>1
  <1>7. ASSUME NEW i \in 1 .. n PROVE i + l \in 1 .. l + n /\ t[i + l] = s[i]
    <2>1. PICK k : k = i + l
      OBVIOUS
    <2>2. k \in 1 .. l + n /\ ~(k <= l) /\ k - l = i
      BY <1>2, <2>1
    <2>3. t[k] = u[i]
      BY <1>4, <2>2
    <2> QED
      BY <1>3, <2>1, <2>2, <2>3
  <1>8. ASSUME NEW k \in 1 .. l + n
        PROVE  (k \in 1 .. l /\ t[k] = seen[k])
                 \/ (k > l /\ k - l \in 1 .. n /\ t[k] = s[k - l])
    <2>1. CASE k <= l
      <3>1. k \in 1 .. l
        BY <2>1
      <3> QED
        BY <1>6, <3>1
    <2>2. CASE ~(k <= l)
      <3>1. k - l \in 1 .. n /\ k > l
        BY <1>2, <2>2
      <3>2. t[k] = u[k - l]
        BY <1>4, <2>2
      <3> QED
        BY <1>3, <3>1, <3>2
    <2> QED
      BY <2>1, <2>2
  <1>9. ASSUME NEW x PROVE x \in ToSet(t) <=> x \in ToSet(seen) \/ \E i \in 1 .. n : s[i] = x
    <2>1. ASSUME x \in ToSet(t) PROVE x \in ToSet(seen) \/ \E i \in 1 .. n : s[i] = x
      <3>1. PICK k \in 1 .. l + n : t[k] = x
        BY <1>5, <2>1 DEF ToSet
      <3> QED
        BY <1>2, <1>8, <3>1 DEF ToSet
    <2>2. ASSUME x \in ToSet(seen) PROVE x \in ToSet(t)
      <3>1. PICK k \in 1 .. l : seen[k] = x
        BY <1>2, <2>2 DEF ToSet
      <3> QED
        BY <1>5, <1>6, <3>1 DEF ToSet
    <2>3. ASSUME NEW i \in 1 .. n, s[i] = x PROVE x \in ToSet(t)
      BY <1>5, <1>7, <2>3 DEF ToSet
    <2> QED
      BY <2>1, <2>2, <2>3
  <1>10. ASSUME IsInjective(seen), \A i, j \in 1 .. n : i < j => s[i] < s[j],
                \A i \in 1 .. n : s[i] \notin ToSet(seen)
         PROVE  IsInjective(t)
    <2> SUFFICES ASSUME NEW j \in 1 .. l + n, NEW k \in 1 .. l + n, t[j] = t[k] PROVE j = k
      BY <1>5 DEF IsInjective
    <2>1. CASE j \in 1 .. l /\ k \in 1 .. l
      BY <1>2, <1>6, <1>10, <2>1 DEF IsInjective
    <2>2. \A p \in 1 .. l : seen[p] \in ToSet(seen)
      BY <1>2 DEF ToSet
    <2>3. CASE j \in 1 .. l /\ k - l \in 1 .. n /\ t[k] = s[k - l]
      BY <1>6, <1>10, <2>2, <2>3
    <2>4. CASE k \in 1 .. l /\ j - l \in 1 .. n /\ t[j] = s[j - l]
      BY <1>6, <1>10, <2>2, <2>4
    <2>5. CASE /\ k - l \in 1 .. n /\ t[k] = s[k - l]
               /\ j - l \in 1 .. n /\ t[j] = s[j - l]
      <3>1. s[k - l] \in Nat /\ s[j - l] \in Nat /\ s[k - l] = s[j - l]
        BY <1>3, <2>5
      <3>2. PICK p \in 1 .. n, q \in 1 .. n : p = k - l /\ q = j - l
        BY <2>5
      <3>3. s[p] = s[q] /\ s[p] \in Nat /\ s[q] \in Nat
        BY <3>1, <3>2
      <3>4. ~(p < q) /\ ~(q < p)
        BY <1>2, <1>10, <3>3
      <3>5. p \in Int /\ q \in Int /\ k \in Int /\ j \in Int /\ l \in Int
        BY <1>2
      <3> QED
        BY <3>2, <3>4, <3>5
    <2> QED
      BY <1>8, <2>1, <2>3, <2>4, <2>5
  <1>11. ToSet(t) = ToSet(seen) \union {s[i] : i \in 1 .. n}
    BY <1>9
  <1> QED
    BY <1>0, <1>4, <1>10, <1>11
=============================================================================
