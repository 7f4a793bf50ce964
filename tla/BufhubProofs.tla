---------------------------- MODULE BufhubProofs ----------------------------
(***************************************************************************)
(* Safety of bufhub's clipboards for any number of masters, files,         *)
(* clipboards and minors.                                                  *)
(***************************************************************************)
EXTENDS Bufhub, FiniteSetTheorems, FunctionTheorems, SequenceTheorems, TLAPS

-----------------------------------------------------------------------------
(* The inductive invariant.                                                *)

Destroying == {"x_unlink", "x_node", "x_slot", "x_free"}
Creating == {"c_node", "c_link", "c_undo"}
Unlinking == Creating \union {"r_orphan", "x_node", "x_slot", "x_free"}

\* The thread has a clipboard in hand.
Handle(x) ==
    \/ pc[x] \in {"d_check", "put", "r_unlink", "r_orphan", "o_get", "o_trunc", "c_init"}
                    \union Creating \union Destroying
    \/ x \in File /\ pc[x] = "open"

\* And counts for something in what is said of that clipboard.
Grip(x) ==
    \/ pc[x] \in {"put", "c_init", "r_orphan", "o_trunc"} \union Creating \union Destroying
    \/ x \in File /\ pc[x] = "open"

At(x, c, where) == cur[x] = c /\ pc[x] \in where
SomeAt(c, where) == \E x \in Thread : At(x, c, where)

\* The reference of the master.
MasterHolds(c) == master[c] # Null \/ \E m \in Master : At(m, c, {"put"})
Share(c) == IF MasterHolds(c) THEN 1 ELSE 0

Types ==
    /\ ptrs \in [Slot -> Clip \union {Null}]
    /\ node \in [Slot -> Clip \union {Null}]
    /\ mem \in [Clip -> {"unused", "alloc", "live", "freed"}]
    /\ slot \in [Clip -> Slot]
    /\ kref \in [Clip -> Nat]
    /\ master \in [Clip -> Master \union {Null}]
    /\ locked \subseteq Clip
    /\ slaves \in [Master -> Seq(Clip)]
    /\ pc \in [Thread -> PCs]
    /\ cur \in [Thread -> Clip \union Slot \union {Null}]
    /\ next \in [Master -> Clip \union {Null}]
    /\ closing \subseteq Master
    /\ dropped \subseteq Clip
    /\ oops \in {"none", "put", "unlink", "lookup", "walk", "open", "fileop", "race"}
    /\ \A f \in File : pc[f] \in {"closed", "o_load", "o_get", "o_trunc", "open", "put"}
                                     \union Destroying
    /\ \A m \in Master : pc[m] \notin {"o_load", "o_get", "o_trunc"}

\* What a thread has in hand has been allocated, and is initialised unless the thread
\* creates it or is about to take a reference.
HandleOK(x) ==
    /\ pc[x] = "o_load" => cur[x] \in Slot
    /\ Handle(x) =>
          /\ cur[x] \in Clip /\ mem[cur[x]] # "unused"
          /\ mem[cur[x]] = "alloc" => pc[x] \in {"c_init", "o_get"}

\* A clipboard that is being created has its master and no other destroys it.
CreatorOK(m) ==
    /\ pc[m] = "c_init" => mem[cur[m]] = "alloc"
    /\ pc[m] \in Creating =>
          /\ mem[cur[m]] = "live" /\ master[cur[m]] = m /\ cur[m] \notin dropped
          /\ ~Linked(cur[m], m)
    /\ pc[m] \in {"c_init", "c_node", "c_undo"} => \A s \in Slot : node[s] # cur[m]

\* A clipboard that is being destroyed has no reference left and is forgotten bit by bit.
DestroyerOK(x) ==
    pc[x] \in Destroying =>
        /\ mem[cur[x]] = "live" /\ kref[cur[x]] = 0
        /\ pc[x] # "x_unlink" => \A m \in Master : ~Linked(cur[x], m)
        /\ pc[x] # "x_free" => ptrs[slot[cur[x]]] = cur[x]
        /\ pc[x] \in {"x_slot", "x_free"} => \A s \in Slot : node[s] # cur[x]
        /\ pc[x] = "x_free" => \A s \in Slot : ptrs[s] # cur[x]

UserOK(f) ==
    pc[f] \in {"o_trunc", "open", "put"} /\ cur[f] \notin dropped => mem[cur[f]] = "live"

\* A master that gives its reference up has left the list and the clipboard, or it has
\* used IOCDESTROY.
MasterOK(m) ==
    /\ pc[m] = "put" => cur[m] \in dropped \/ (master[cur[m]] = Null /\ mem[cur[m]] = "live")
    /\ pc[m] \in {"r_unlink", "r_orphan"} =>
          master[cur[m]] = m /\ (cur[m] \notin dropped => mem[cur[m]] = "live")
    /\ pc[m] = "r_unlink" => cur[m] \in dropped \/ Linked(cur[m], m)
    /\ pc[m] = "r_orphan" => ~Linked(cur[m], m)

\* No two threads create or destroy one clipboard, or give up its master's reference.
Alone ==
    \A x, y \in Thread : cur[x] = cur[y] =>
        /\ pc[x] \in Destroying /\ pc[y] \in Destroying => x = y
        /\ pc[x] = "c_init" /\ pc[y] = "c_init" => x = y
        /\ x \in Master /\ y \in Master /\ pc[x] = "put" /\ pc[y] = "put"
              /\ cur[x] \notin dropped => x = y

\* The references of a clipboard, and where it is to be found.
ClipOK(c) ==
    /\ mem[c] \in {"unused", "alloc"} => kref[c] = 0 /\ c \notin dropped
    /\ mem[c] = "alloc" =>
          ptrs[slot[c]] = c /\ SomeAt(c, {"c_init"})
    /\ mem[c] = "live" => kref[c] > 0 \/ SomeAt(c, Destroying)
    /\ mem[c] = "live" => ptrs[slot[c]] = c \/ SomeAt(c, {"x_free"})
    /\ mem[c] = "live" /\ master[c] # Null =>
          \/ Linked(c, master[c])
          \/ SomeAt(c, Unlinking)
    /\ mem[c] = "live" /\ c \notin dropped => kref[c] = Cardinality(Users(c)) + Share(c)
    /\ kref[c] <= Cardinality(Users(c)) + Share(c)

SlotOK(s) ==
    /\ ptrs[s] # Null => slot[ptrs[s]] = s /\ mem[ptrs[s]] \in {"alloc", "live"}
    /\ node[s] # Null => ptrs[s] = node[s] /\ mem[node[s]] = "live"

\* The slaves of a master, and how far its release has come with them.
ListOK(m) ==
    /\ \A i, j \in DOMAIN slaves[m] : slaves[m][i] = slaves[m][j] => i = j
    /\ \A i \in DOMAIN slaves[m] : mem[slaves[m][i]] = "live" /\ master[slaves[m][i]] = m
    /\ pc[m] = "closed" => slaves[m] = << >>
    /\ m \notin closing => pc[m] \notin {"r_loop", "r_unlink", "r_orphan"}
    /\ m \in closing =>
          /\ pc[m] \in {"r_loop", "r_unlink", "r_orphan", "put"} \union Destroying
          /\ next[m] = Null => \A c \in Clip : Linked(c, m) => At(m, c, {"r_unlink"})
          /\ dropped = {} =>
                IF pc[m] = "r_unlink"
                THEN slaves[m] # << >> /\ cur[m] = Head(slaves[m]) /\ next[m] = First(Tail(slaves[m]))
                ELSE next[m] = First(slaves[m])

IInv ==
    /\ Types
    /\ \A x \in Thread : HandleOK(x) /\ DestroyerOK(x)
    /\ \A m \in Master : CreatorOK(m) /\ MasterOK(m) /\ ListOK(m)
    /\ \A f \in File : UserOK(f)
    /\ Alone
    /\ \A c \in Clip : ClipOK(c)
    /\ \A s \in Slot : SlotOK(s)
    /\ oops \in {"none", "open", "lookup", "race"} \/ dropped # {}

-----------------------------------------------------------------------------
(* Lists and sets.                                                         *)

\* Sets of files are finite, and a set that gains or loses one is larger or smaller by one.
LEMMA FileSets ==
    /\ \A S \in SUBSET File : Cardinality(S) \in Nat /\ Cardinality(S) <= Cardinality(File)
    /\ \A S \in SUBSET File : Cardinality(S) = 0 => S = {}
    /\ \A S \in SUBSET File : \A f \in File \ S :
           Cardinality(S \union {f}) = Cardinality(S) + 1
    /\ \A S \in SUBSET File : \A f \in S : Cardinality(S \ {f}) = Cardinality(S) - 1
    /\ Cardinality(File) \in Nat
  <1>1. IsFiniteSet(File)
    BY BufhubAssumption
  <1>2. \A S \in SUBSET File : IsFiniteSet(S) /\ Cardinality(S) <= Cardinality(File)
    BY <1>1, FS_Subset
  <1>3. \A S \in SUBSET File : Cardinality(S) \in Nat
    BY <1>2, FS_CardinalityType
  <1>4. \A S \in SUBSET File : Cardinality(S) = 0 => S = {}
    BY <1>2, FS_EmptySet
  <1>5. \A S \in SUBSET File : \A f \in File \ S :
            Cardinality(S \union {f}) = Cardinality(S) + 1
    BY <1>2, FS_AddElement
  <1>6. \A S \in SUBSET File : \A f \in S : Cardinality(S \ {f}) = Cardinality(S) - 1
    BY <1>2, FS_RemoveElement
  <1> QED
    BY <1>1, <1>2, <1>3, <1>4, <1>5, <1>6, FS_CardinalityType

\* list_del takes one entry off the list and leaves the others on it.
LEMMA WithoutFacts ==
    ASSUME NEW S, NEW s \in Seq(S), \A i, j \in DOMAIN s : s[i] = s[j] => i = j,
           NEW k \in DOMAIN s
    PROVE  LET e == Without(s, s[k]) IN
           /\ e \in Seq(S)
           /\ \A i, j \in DOMAIN e : e[i] = e[j] => i = j
           /\ \A i \in DOMAIN e : \E j \in DOMAIN s : j # k /\ e[i] = s[j]
           /\ \A j \in DOMAIN s : j # k => \E i \in DOMAIN e : e[i] = s[j]
           /\ k = 1 => e = Tail(s)
  <1> DEFINE n == Len(s)
             a == SubSeq(s, 1, k - 1)
             b == SubSeq(s, k + 1, n)
             e == a \o b
  <1>1. /\ n \in Nat /\ DOMAIN s = 1 .. n /\ \A i \in 1 .. n : s[i] \in S
    BY LenProperties, ElementOfSeq
  <1>2. k = CHOOSE i \in DOMAIN s : s[i] = s[k]
    OBVIOUS
  <1>3. Without(s, s[k]) = e
    BY <1>2 DEF Without
  <1>4. /\ a \in Seq(S) /\ Len(a) = k - 1 /\ \A i \in 1 .. k - 1 : a[i] = s[i]
    BY <1>1, SubSeqProperties
  <1>5. /\ b \in Seq(S) /\ Len(b) = n - k /\ \A i \in 1 .. n - k : b[i] = s[i + k]
    BY <1>1, SubSeqProperties
  <1> HIDE DEF a, b, n
  <1>6. k \in 1 .. n /\ Len(a) + Len(b) = n - 1
    BY <1>1, <1>4, <1>5
  <1>7. /\ e \in Seq(S) /\ Len(e) = n - 1 /\ DOMAIN e = 1 .. n - 1
        /\ \A i \in 1 .. n - 1 : e[i] = IF i <= Len(a) THEN a[i] ELSE b[i - Len(a)]
    <2>0. a \in Seq(S) /\ b \in Seq(S)
      BY <1>4, <1>5
    <2>1. /\ e \in Seq(S) /\ Len(e) = Len(a) + Len(b)
          /\ \A i \in 1 .. Len(a) + Len(b) : e[i] = IF i <= Len(a) THEN a[i] ELSE b[i - Len(a)]
      BY <2>0, ConcatProperties
    <2> QED
      BY <1>6, <2>1, LenProperties
  <1> HIDE DEF e
  <1>8. \A i \in 1 .. n - 1 : (i < k => e[i] = s[i]) /\ (i >= k => e[i] = s[i + 1])
    <2> SUFFICES ASSUME NEW i \in 1 .. n - 1
                 PROVE  (i < k => e[i] = s[i]) /\ (i >= k => e[i] = s[i + 1])
      OBVIOUS
    <2>1. CASE i < k
      BY <1>1, <1>4, <1>6, <1>7, <2>1
    <2>2. CASE i >= k
      <3>1. i - Len(a) \in 1 .. n - k /\ ~(i <= Len(a)) /\ i - Len(a) + k = i + 1
        BY <1>1, <1>4, <1>6, <2>2
      <3>2. e[i] = b[i - Len(a)] /\ b[i - Len(a)] = s[i - Len(a) + k]
        BY <1>5, <1>7, <3>1
      <3> QED
        BY <1>1, <1>6, <2>2, <3>1, <3>2
    <2> QED
      BY <1>1, <1>6, <2>1, <2>2
  <1>9. \A i, j \in DOMAIN e : e[i] = e[j] => i = j
    <2> SUFFICES ASSUME NEW i \in 1 .. n - 1, NEW j \in 1 .. n - 1, e[i] = e[j] PROVE i = j
      BY <1>7
    <2>1. PICK u \in 1 .. n : e[i] = s[u] /\ u = IF i < k THEN i ELSE i + 1
      BY <1>1, <1>6, <1>8
    <2>2. PICK v \in 1 .. n : e[j] = s[v] /\ v = IF j < k THEN j ELSE j + 1
      BY <1>1, <1>6, <1>8
    <2>3. u = v
      BY <1>1, <2>1, <2>2
    <2> QED
      BY <1>1, <1>6, <2>1, <2>2, <2>3
  <1>10. \A i \in DOMAIN e : \E j \in DOMAIN s : j # k /\ e[i] = s[j]
    <2> SUFFICES ASSUME NEW i \in 1 .. n - 1 PROVE \E j \in 1 .. n : j # k /\ e[i] = s[j]
      BY <1>1, <1>7
    <2>1. CASE i < k
      BY <1>1, <1>6, <1>8, <2>1
    <2>2. CASE i >= k
      BY <1>1, <1>6, <1>8, <2>2
    <2> QED
      BY <1>1, <1>6, <2>1, <2>2
  <1>11. \A j \in DOMAIN s : j # k => \E i \in DOMAIN e : e[i] = s[j]
    <2> SUFFICES ASSUME NEW j \in 1 .. n, j # k PROVE \E i \in 1 .. n - 1 : e[i] = s[j]
      BY <1>1, <1>7
    <2>1. CASE j < k
      BY <1>1, <1>6, <1>8, <2>1
    <2>2. CASE j > k
      <3>1. j - 1 \in 1 .. n - 1 /\ j - 1 >= k /\ (j - 1) + 1 = j
        BY <1>1, <1>6, <2>2
      <3> QED
        BY <1>8, <3>1
    <2> QED
      BY <1>1, <1>6, <2>1, <2>2
  <1>12. ASSUME k = 1 PROVE e = Tail(s)
    <2>1. s # << >>
      BY <1>1, <1>6, EmptySeq
    <2>2. Tail(s) \in Seq(S) /\ Len(Tail(s)) = n - 1 /\ \A i \in 1 .. n - 1 : Tail(s)[i] = s[i + 1]
      BY <2>1, HeadTailProperties DEF n
    <2>3. \A i \in 1 .. n - 1 : e[i] = Tail(s)[i]
      BY <1>8, <1>12, <2>2
    <2> QED
      BY <1>7, <2>2, <2>3, SeqEqual
  <1> QED
    BY <1>3, <1>7, <1>9, <1>10, <1>11, <1>12

-----------------------------------------------------------------------------
(* Frames.  A step is one of thread x, and says nothing but of clipboard c. *)

Touch(x, c) ==
    /\ \A y \in Thread \ {x} : pc'[y] = pc[y] /\ cur'[y] = cur[y]
    /\ \A d \in Clip \ {c} :
          /\ mem'[d] = mem[d] /\ slot'[d] = slot[d] /\ kref'[d] = kref[d]
          /\ master'[d] = master[d] /\ (d \in dropped' <=> d \in dropped)
          /\ ~(Handle(x) /\ cur[x] = d) /\ ~(Handle(x) /\ cur[x] = d)'
          /\ ptrs'[slot[d]] = d <=> ptrs[slot[d]] = d
          /\ \A m \in Master : Linked(d, m)' <=> Linked(d, m)
    /\ \A s \in Slot : node'[s] \in {node[s], Null, c} /\ ptrs'[s] \in {ptrs[s], Null, c}
    /\ dropped \subseteq dropped'

\* Who has a clipboard in hand is not changed by a thread that does not.
LEMMA SameUsers ==
    ASSUME IInv, Types', NEW x \in Thread, NEW d,
           \A y \in Thread \ {x} : pc'[y] = pc[y] /\ cur'[y] = cur[y],
           ~(Grip(x) /\ cur[x] = d), ~(Grip(x) /\ cur[x] = d)'
    PROVE  /\ Users(d)' = Users(d) /\ (MasterHolds(d)' <=> (master'[d] # Null \/ \E m \in Master : At(m, d, {"put"})))
           /\ SomeAt(d, {"c_init"})' = SomeAt(d, {"c_init"})
           /\ SomeAt(d, Destroying)' = SomeAt(d, Destroying)
           /\ SomeAt(d, {"x_free"})' = SomeAt(d, {"x_free"})
           /\ SomeAt(d, Unlinking)' = SomeAt(d, Unlinking)
  <1>1. File \subseteq Thread /\ Master \subseteq Thread
    BY DEF Thread
  <1>2. \A y \in Thread : y \in File /\ pc[y] \in {"o_trunc", "open", "put"} => Grip(y)
    BY DEF Grip
  <1>3. \A y \in Thread : y \in File /\ pc'[y] \in {"o_trunc", "open", "put"} => Grip(y)'
    BY DEF Grip
  <1>4. Users(d)' = Users(d)
    <2> SUFFICES ASSUME NEW f \in File PROVE f \in Users(d)' <=> f \in Users(d)
      BY DEF Users
    <2>1. CASE f = x
      BY <1>1, <1>2, <1>3, <2>1 DEF Users
    <2>2. CASE f # x
      BY <1>1, <2>2 DEF Users
    <2> QED
      BY <2>1, <2>2
  <1>5. \A where \in SUBSET ({"put", "c_init", "r_orphan"} \union Creating \union Destroying) :
            SomeAt(d, where)' = SomeAt(d, where)
    <2> SUFFICES ASSUME NEW where \in SUBSET ({"put", "c_init", "r_orphan"} \union Creating \union Destroying)
                 PROVE  SomeAt(d, where)' = SomeAt(d, where)
      OBVIOUS
    <2>1. ~At(x, d, where) /\ ~At(x, d, where)'
      BY DEF At, Grip
    <2>2. \A y \in Thread \ {x} : At(y, d, where)' = At(y, d, where)
      BY DEF At
    <2> QED
      BY <2>1, <2>2 DEF SomeAt
  <1>6. \A m \in Master : At(m, d, {"put"})' = At(m, d, {"put"})
    <2> SUFFICES ASSUME NEW m \in Master PROVE At(m, d, {"put"})' = At(m, d, {"put"})
      OBVIOUS
    <2>1. CASE m = x
      BY <2>1 DEF At, Grip
    <2>2. CASE m # x
      BY <1>1, <2>2 DEF At
    <2> QED
      BY <2>1, <2>2
  <1>7. (MasterHolds(d)' <=> (master'[d] # Null \/ \E m \in Master : At(m, d, {"put"})))
    BY <1>6 DEF MasterHolds
  <1> QED
    BY <1>4, <1>5, <1>7 DEF Unlinking, Creating, Destroying

\* A clipboard that neither changes nor is taken or let go of.
LEMMA SameClip ==
    ASSUME IInv, Types', NEW x \in Thread, NEW d \in Clip,
           \A y \in Thread \ {x} : pc'[y] = pc[y] /\ cur'[y] = cur[y],
           ~(Grip(x) /\ cur[x] = d), ~(Grip(x) /\ cur[x] = d)',
           mem'[d] = mem[d], slot'[d] = slot[d], kref'[d] = kref[d], master'[d] = master[d],
           d \in dropped' <=> d \in dropped, ptrs'[slot[d]] = d <=> ptrs[slot[d]] = d,
           \A m \in Master : Linked(d, m)' <=> Linked(d, m)
    PROVE  ClipOK(d)'
  <1>2. /\ Users(d)' = Users(d)
        /\ MasterHolds(d)' <=> (master'[d] # Null \/ \E m \in Master : At(m, d, {"put"}))
        /\ SomeAt(d, {"c_init"})' = SomeAt(d, {"c_init"})
        /\ SomeAt(d, Destroying)' = SomeAt(d, Destroying)
        /\ SomeAt(d, {"x_free"})' = SomeAt(d, {"x_free"})
        /\ SomeAt(d, Unlinking)' = SomeAt(d, Unlinking)
    BY SameUsers
  <1>3. Share(d)' = Share(d)
    BY <1>2 DEF Share, MasterHolds
  <1>4. ClipOK(d) /\ master[d] \in Master \union {Null}
    BY DEF IInv, Types
  <1> QED
    BY <1>2, <1>3, <1>4 DEF ClipOK

\* The clipboards a step says nothing of.
LEMMA OtherClips ==
    ASSUME IInv, Types', NEW x \in Thread, NEW c, Touch(x, c)
    PROVE  \A d \in Clip \ {c} : ClipOK(d)'
  <1> SUFFICES ASSUME NEW d \in Clip, d # c PROVE ClipOK(d)'
    OBVIOUS
  <1>1. Grip(x) => Handle(x)
    BY DEF Grip, Handle
  <1>2. Grip(x)' => Handle(x)'
    BY DEF Grip, Handle
  <1> QED
    BY <1>1, <1>2, SameClip DEF Touch

\* The threads that have another clipboard in hand.
LEMMA OtherThreads ==
    ASSUME IInv, Types', NEW x \in Thread, NEW c, Touch(x, c),
           NEW y \in Thread \ {x}, ~(Handle(y) /\ cur[y] = c)
    PROVE  /\ HandleOK(y)' /\ DestroyerOK(y)'
           /\ y \in Master => CreatorOK(y)' /\ MasterOK(y)'
           /\ y \in File => UserOK(y)'
  <1>1. pc'[y] = pc[y] /\ cur'[y] = cur[y] /\ (Handle(y)' <=> Handle(y))
    BY DEF Touch, Handle
  <1>2. Handle(y) => cur[y] \in Clip \ {c} /\ cur[y] # Null
    BY BufhubAssumption DEF IInv, HandleOK
  <1>3. Handle(y) =>
          /\ mem'[cur[y]] = mem[cur[y]] /\ slot'[cur[y]] = slot[cur[y]]
          /\ kref'[cur[y]] = kref[cur[y]] /\ master'[cur[y]] = master[cur[y]]
          /\ cur[y] \in dropped' <=> cur[y] \in dropped
          /\ ptrs'[slot[cur[y]]] = cur[y] <=> ptrs[slot[cur[y]]] = cur[y]
          /\ \A m \in Master : Linked(cur[y], m)' <=> Linked(cur[y], m)
    BY <1>2 DEF Touch
  <1>4. Handle(y) => \A s \in Slot : /\ node[s] # cur[y] => node'[s] # cur[y]
                                     /\ ptrs[s] # cur[y] => ptrs'[s] # cur[y]
    BY <1>2 DEF Touch
  <1>5. HandleOK(y)'
    BY <1>1, <1>3 DEF IInv, HandleOK
  <1>6. DestroyerOK(y)'
    <2> SUFFICES ASSUME pc[y] \in Destroying PROVE DestroyerOK(y)'
      BY <1>1 DEF DestroyerOK
    <2>1. Handle(y)
      BY DEF Handle
    <2>2. DestroyerOK(y)
      BY DEF IInv
    <2> QED
      BY <1>1, <1>3, <1>4, <2>1, <2>2 DEF DestroyerOK
  <1>7. ASSUME y \in Master PROVE CreatorOK(y)'
    <2> SUFFICES ASSUME pc[y] \in Creating \union {"c_init"} PROVE CreatorOK(y)'
      BY <1>1 DEF CreatorOK, Creating
    <2>1. Handle(y)
      BY DEF Handle
    <2>2. CreatorOK(y)
      BY <1>7 DEF IInv
    <2> QED
      BY <1>1, <1>3, <1>4, <1>7, <2>1, <2>2 DEF CreatorOK
  <1>8. ASSUME y \in Master PROVE MasterOK(y)'
    <2> SUFFICES ASSUME pc[y] \in {"put", "r_unlink", "r_orphan"} PROVE MasterOK(y)'
      BY <1>1 DEF MasterOK
    <2>1. Handle(y)
      BY DEF Handle
    <2>2. MasterOK(y)
      BY <1>8 DEF IInv
    <2> QED
      BY <1>1, <1>3, <1>8, <2>1, <2>2 DEF MasterOK
  <1>9. ASSUME y \in File PROVE UserOK(y)'
    <2> SUFFICES ASSUME pc[y] \in {"o_trunc", "open", "put"} PROVE UserOK(y)'
      BY <1>1 DEF UserOK
    <2>1. Handle(y)
      BY <1>9 DEF Handle
    <2>2. UserOK(y)
      BY <1>9 DEF IInv
    <2> QED
      BY <1>1, <1>3, <2>1, <2>2 DEF UserOK
  <1> QED
    BY <1>5, <1>6, <1>7, <1>8, <1>9

\* The lists of the other masters.
LEMMA OtherLists ==
    ASSUME IInv, Types', NEW x \in Thread, NEW c, Touch(x, c), NEW m \in Master, m # x,
           slaves'[m] = slaves[m], next'[m] = next[m], m \in closing' <=> m \in closing,
           Linked(c, m) => mem'[c] = "live" /\ master'[c] = m
    PROVE  ListOK(m)'
  <1>1. m \in Thread /\ pc'[m] = pc[m] /\ cur'[m] = cur[m] /\ (dropped' = {} => dropped = {})
    BY DEF Touch, Thread
  <1>2. ListOK(m)
    BY DEF IInv
  <1>3. DOMAIN slaves[m] = 1 .. Len(slaves[m]) /\ \A i \in DOMAIN slaves[m] : slaves[m][i] \in Clip
    BY LenProperties, ElementOfSeq DEF IInv, Types
  <1>4. \A i \in DOMAIN slaves[m] : mem'[slaves[m][i]] = "live" /\ master'[slaves[m][i]] = m
    <2> SUFFICES ASSUME NEW i \in DOMAIN slaves[m]
                 PROVE  mem'[slaves[m][i]] = "live" /\ master'[slaves[m][i]] = m
      OBVIOUS
    <2>1. CASE slaves[m][i] = c
      BY <2>1 DEF Linked
    <2>2. CASE slaves[m][i] # c
      BY <1>2, <1>3, <2>2 DEF Touch, ListOK
    <2> QED
      BY <2>1, <2>2
  <1>5. \A d : Linked(d, m)' <=> Linked(d, m)
    BY DEF Linked
  <1> QED
    BY <1>1, <1>2, <1>4, <1>5 DEF ListOK, At

\* Nobody joins a thread that creates or destroys a clipboard.
LEMMA StillAlone ==
    ASSUME IInv, NEW x \in Thread, NEW c, Touch(x, c),
           pc'[x] \in Destroying \union {"c_init"} =>
               /\ cur'[x] = cur[x]
               /\ pc[x] \in Destroying <=> pc'[x] \in Destroying
               /\ pc[x] = "c_init" <=> pc'[x] = "c_init",
           x \in Master /\ pc'[x] = "put" => cur'[x] \in dropped'
    PROVE  Alone'
  <1>1. Alone
    BY DEF IInv
  <1>2. \A y \in Thread \ {x} : pc'[y] = pc[y] /\ cur'[y] = cur[y]
    BY DEF Touch
  <1>3. dropped \subseteq dropped'
    BY DEF Touch
  <1> SUFFICES ASSUME NEW y \in Thread, NEW z \in Thread, cur'[y] = cur'[z], y # z
               PROVE  /\ ~(pc'[y] \in Destroying /\ pc'[z] \in Destroying)
                      /\ ~(pc'[y] = "c_init" /\ pc'[z] = "c_init")
                      /\ ~(y \in Master /\ z \in Master /\ pc'[y] = "put" /\ pc'[z] = "put"
                             /\ cur'[y] \notin dropped')
    BY DEF Alone
  <1>4. CASE y # x /\ z # x
    BY <1>1, <1>2, <1>3, <1>4 DEF Alone
  <1>5. CASE y = x \/ z = x
    BY <1>1, <1>2, <1>3, <1>5 DEF Alone
  <1> QED
    BY <1>4, <1>5

ThreadOK(x) ==
    /\ HandleOK(x) /\ DestroyerOK(x)
    /\ x \in Master => CreatorOK(x) /\ MasterOK(x)
    /\ x \in File => UserOK(x)

\* What there is to show of a step.
LEMMA StepInv ==
    ASSUME IInv, Types', NEW x \in Thread, NEW c, Touch(x, c),
           c \in Clip => ClipOK(c)',
           ThreadOK(x)',
           \A y \in Thread \ {x} : Handle(y) /\ cur[y] = c => ThreadOK(y)',
           \A m \in Master : ListOK(m)',
           \A s \in Slot : /\ ptrs'[s] = c /\ c # Null => slot'[c] = s /\ mem'[c] \in {"alloc", "live"}
                           /\ node'[s] = c /\ c # Null => ptrs'[s] = c /\ mem'[c] = "live",
           Alone', oops' = "none"
    PROVE  IInv'
  <1>1. \A y \in Thread : ThreadOK(y)'
    <2> SUFFICES ASSUME NEW y \in Thread, y # x, ~(Handle(y) /\ cur[y] = c) PROVE ThreadOK(y)'
      OBVIOUS
    <2> QED
      BY OtherThreads DEF ThreadOK
  <1>2. \A d \in Clip : ClipOK(d)'
    BY OtherClips
  <1>3. \A s \in Slot : SlotOK(s)'
    <2> SUFFICES ASSUME NEW s \in Slot PROVE SlotOK(s)'
      OBVIOUS
    <2>1. SlotOK(s) /\ ptrs'[s] \in Clip \union {Null} /\ node'[s] \in Clip \union {Null}
      BY DEF IInv, Types
    <2>2. ptrs'[s] # Null => slot'[ptrs'[s]] = s /\ mem'[ptrs'[s]] \in {"alloc", "live"}
      BY <2>1 DEF Touch, SlotOK
    <2>3. node'[s] # Null => ptrs'[s] = node'[s] /\ mem'[node'[s]] = "live"
      BY <2>1 DEF Touch, SlotOK
    <2> QED
      BY <2>2, <2>3 DEF SlotOK
  <1> QED
    BY <1>1, <1>2, <1>3 DEF IInv, ThreadOK, Thread

\* A step that leaves the lists alone.
LEMMA SameLists ==
    ASSUME IInv, Types', NEW x \in Thread, NEW c, Touch(x, c),
           UNCHANGED <<slaves, next, closing>>,
           \A m \in Master : Linked(c, m) => mem'[c] = "live" /\ master'[c] = m,
           x \in Master => ListOK(x)'
    PROVE  \A m \in Master : ListOK(m)'
  <1> SUFFICES ASSUME NEW m \in Master, m # x PROVE ListOK(m)'
    OBVIOUS
  <1> QED
    BY OtherLists

\* IOCCREATE: the new clipboard is in nobody else's hand and on no list.
LEMMA CreateAllocInv == ASSUME IInv, oops = "none", NEW m \in Master, CreateAlloc(m) PROVE IInv'
  <1>1. PICK c \in Clip, s \in Free :
            /\ mem[c] = "unused"
            /\ ptrs' = [ptrs EXCEPT ![s] = c]
            /\ slot' = [slot EXCEPT ![c] = s]
            /\ mem' = [mem EXCEPT ![c] = "alloc"]
            /\ cur' = [cur EXCEPT ![m] = c]
    BY DEF CreateAlloc, Hold
  <1>2. /\ pc[m] = "open" /\ pc' = [pc EXCEPT ![m] = "c_init"]
        /\ UNCHANGED <<node, kref, master, locked, slaves, next, closing, dropped, oops>>
    BY DEF CreateAlloc, Goto
  <1>3. Types /\ ClipOK(c) /\ ListOK(m)
    BY DEF IInv
  <1>4. s \in Slot /\ ptrs[s] = Null /\ m \in Thread /\ c # Null /\ m \notin File
    BY BufhubAssumption DEF Free, Thread
  <1>5. Types'
    BY <1>1, <1>2, <1>3, <1>4 DEF Types, PCs
  <1>6. /\ pc'[m] = "c_init" /\ cur'[m] = c /\ mem'[c] = "alloc" /\ slot'[c] = s /\ ptrs'[s] = c
        /\ \A x \in Thread \ {m} : pc'[x] = pc[x] /\ cur'[x] = cur[x]
        /\ \A d \in Clip \ {c} : mem'[d] = mem[d] /\ slot'[d] = slot[d]
        /\ \A r \in Slot \ {s} : ptrs'[r] = ptrs[r]
    BY <1>1, <1>2, <1>3, <1>4 DEF Types
  <1>7. \A x \in Thread : ~(Handle(x) /\ cur[x] = c)
    BY <1>1 DEF IInv, HandleOK
  <1>8. \A r \in Slot : node[r] # c /\ ptrs[r] # c
    BY <1>1, <1>4 DEF IInv, SlotOK
  <1>9. Touch(m, c)
    <2>1. ~Handle(m)
      BY <1>2, <1>4 DEF Handle, Creating, Destroying
    <2>2. \A d \in Clip \ {c} : ptrs'[slot[d]] = d <=> ptrs[slot[d]] = d
      BY <1>3, <1>4, <1>6, BufhubAssumption DEF Types
    <2> QED
      BY <1>1, <1>2, <1>6, <2>1, <2>2 DEF Touch, Linked
  <1>10. ClipOK(c)'
    <2>1. SomeAt(c, {"c_init"})'
      BY <1>4, <1>6 DEF SomeAt, At
    <2>2. MasterHolds(c)' => master[c] # Null
      BY <1>2, <1>4, <1>6, <1>7 DEF MasterHolds, At, Handle, Thread
    <2>3. kref[c] = 0 /\ c \notin dropped
      BY <1>1, <1>3 DEF ClipOK
    <2>4. Users(c)' \in SUBSET File
      BY DEF Users
    <2>5. Cardinality(Users(c)') \in Nat
      BY <2>4, FileSets
    <2> QED
      BY <1>2, <1>6, <2>1, <2>3, <2>5 DEF ClipOK, Share
  <1>11. ThreadOK(m)'
    BY <1>2, <1>4, <1>6, <1>8 DEF ThreadOK, HandleOK, DestroyerOK, CreatorOK, MasterOK, Handle, Destroying, Creating
  <1>12. \A n \in Master : ListOK(n)'
    <2>1. \A n \in Master : ~Linked(c, n)
      BY <1>1 DEF IInv, ListOK, Linked
    <2>2. ListOK(m)'
      <3>1. \A i \in DOMAIN slaves[m] : slaves[m][i] \in Clip \ {c}
        BY <1>3, <2>1, ElementOfSeq, LenProperties DEF Types, Linked
      <3>2. m \notin closing
        BY <1>2, <1>3 DEF ListOK, Destroying
      <3> QED
        BY <1>2, <1>3, <1>6, <3>1, <3>2 DEF ListOK
    <2> QED
      BY <1>2, <1>4, <1>5, <1>9, <2>1, <2>2, SameLists
  <1>13. Alone'
    BY <1>2, <1>6, <1>7 DEF IInv, Alone, Destroying, Handle
  <1> QED
    BY <1>2, <1>4, <1>5, <1>6, <1>7, <1>8, <1>9, <1>10, <1>11, <1>12, <1>13, StepInv

\* IOCCREATE: the one reference is the master's.
LEMMA CreateInitInv == ASSUME IInv, oops = "none", NEW m \in Master, CreateInit(m) PROVE IInv'
  <1>0. PICK c : c = cur[m]
    OBVIOUS
  <1>1. /\ pc[m] = "c_init" /\ pc' = [pc EXCEPT ![m] = "c_node"]
        /\ master' = [master EXCEPT ![c] = m]
        /\ kref' = [kref EXCEPT ![c] = 1]
        /\ mem' = [mem EXCEPT ![c] = "live"]
        /\ locked' = locked \union {c}
        /\ UNCHANGED <<ptrs, node, slot, slaves, cur, next, closing, dropped, oops>>
    BY <1>0 DEF CreateInit, Goto
  <1>2. Types /\ ListOK(m) /\ CreatorOK(m) /\ HandleOK(m) /\ m \in Thread /\ m \notin File
    BY BufhubAssumption DEF IInv, Thread
  <1>3. c \in Clip /\ c # Null /\ mem[c] = "alloc" /\ ClipOK(c) /\ \A s \in Slot : node[s] # c
    BY <1>0, <1>1, <1>2, BufhubAssumption DEF IInv, CreatorOK, HandleOK, Handle
  <1>4. Types'
    BY <1>1, <1>2, <1>3 DEF Types, PCs
  <1>5. /\ pc'[m] = "c_node" /\ mem'[c] = "live" /\ master'[c] = m /\ kref'[c] = 1
        /\ \A x \in Thread \ {m} : pc'[x] = pc[x]
        /\ \A d \in Clip \ {c} : mem'[d] = mem[d] /\ kref'[d] = kref[d] /\ master'[d] = master[d]
    BY <1>1, <1>2, <1>3 DEF Types
  <1>6. \A n \in Master : ~Linked(c, n)
    BY <1>3 DEF IInv, ListOK, Linked
  <1>7. Touch(m, c)
    BY <1>0, <1>1, <1>5 DEF Touch, Linked, Handle
  <1>8. \A x \in Thread : Handle(x) /\ cur[x] = c => pc[x] \in {"c_init", "o_get"}
    BY <1>3 DEF IInv, HandleOK
  <1>9. \A x \in Thread \ {m} : Handle(x) /\ cur[x] = c => pc[x] = "o_get"
    BY <1>0, <1>1, <1>2, <1>8 DEF IInv, Alone
  <1>10. Users(c)' = {}
    <2> SUFFICES ASSUME NEW f \in File, cur'[f] = c, pc'[f] \in {"o_trunc", "open", "put"} PROVE FALSE
      BY DEF Users
    <2>1. f \in Thread \ {m}
      BY <1>2 DEF Thread
    <2>2. Handle(f) /\ cur[f] = c /\ pc[f] \in {"o_trunc", "open", "put"}
      BY <1>1, <1>5, <2>1 DEF Handle
    <2> QED
      BY <1>9, <2>1, <2>2
  <1>11. ClipOK(c)'
    <2>1. Cardinality(Users(c)') = 0
      BY <1>10, FS_EmptySet
    <2>2. Share(c)' = 1
      BY <1>5, <1>2, BufhubAssumption DEF Share, MasterHolds
    <2>3. SomeAt(c, Unlinking)'
      BY <1>0, <1>1, <1>2, <1>5 DEF SomeAt, At, Unlinking, Creating
    <2> QED
      BY <1>1, <1>3, <1>5, <2>1, <2>2, <2>3 DEF ClipOK
  <1>12. ThreadOK(m)'
    BY <1>0, <1>1, <1>2, <1>3, <1>5, <1>6 DEF ThreadOK, HandleOK, DestroyerOK, CreatorOK, MasterOK, Handle,
       Destroying, Creating, Linked, ClipOK
  <1>13. ASSUME NEW y \in Thread \ {m}, Handle(y) /\ cur[y] = c PROVE ThreadOK(y)'
    BY <1>1, <1>3, <1>5, <1>9, <1>13 DEF ThreadOK, HandleOK, DestroyerOK, CreatorOK, MasterOK, UserOK,
       Destroying, Creating
  <1>14. \A n \in Master : ListOK(n)'
    <2>1. ListOK(m)'
      <3>1. \A i \in DOMAIN slaves[m] : slaves[m][i] \in Clip \ {c}
        BY <1>2, <1>6, ElementOfSeq, LenProperties DEF Types, Linked
      <3>2. m \notin closing
        BY <1>1, <1>2 DEF ListOK, Destroying
      <3> QED
        BY <1>1, <1>2, <1>5, <3>1, <3>2 DEF ListOK
    <2> QED
      BY <1>1, <1>2, <1>4, <1>6, <1>7, <2>1, SameLists
  <1>15. Alone'
    BY <1>1, <1>2, <1>5, <1>7, StillAlone DEF Destroying
  <1>16. \A s \in Slot : ptrs'[s] = c => slot'[c] = s
    BY <1>1, <1>3 DEF IInv, SlotOK
  <1> QED
    BY <1>1, <1>2, <1>3, <1>4, <1>5, <1>7, <1>11, <1>12, <1>13, <1>14, <1>15, <1>16, StepInv

\* A master that has no more than a clipboard in hand and is not in its release.
LEMMA SameList ==
    ASSUME IInv, NEW m \in Master, pc[m] \notin {"closed", "r_loop", "r_unlink", "r_orphan", "put"} \union Destroying,
           pc'[m] \notin {"closed", "r_loop", "r_unlink", "r_orphan"},
           slaves'[m] = slaves[m], m \notin closing' \/ closing' = closing,
           \A c \in Clip : Linked(c, m) => mem'[c] = "live" /\ master'[c] = m
    PROVE  ListOK(m)'
  <1>1. ListOK(m) /\ slaves[m] \in Seq(Clip)
    BY DEF IInv, Types
  <1>2. m \notin closing'
    BY <1>1 DEF ListOK
  <1>3. \A i \in DOMAIN slaves[m] : slaves[m][i] \in Clip
    BY <1>1, ElementOfSeq, LenProperties
  <1> QED
    BY <1>1, <1>2, <1>3 DEF ListOK, Linked

\* The files of a clipboard are unchanged by a master's step.
LEMMA SameFiles ==
    ASSUME NEW m \in Thread \ File, \A y \in Thread \ {m} : pc'[y] = pc[y] /\ cur'[y] = cur[y]
    PROVE  \A d : Users(d)' = Users(d) /\ Cardinality(Users(d)) \in Nat
  <1> SUFFICES ASSUME NEW d PROVE Users(d)' = Users(d) /\ Cardinality(Users(d)) \in Nat
    OBVIOUS
  <1>1. Users(d)' = Users(d)
    BY DEF Users, Thread
  <1>2. Users(d) \in SUBSET File
    BY DEF Users
  <1> QED
    BY <1>1, <1>2, FileSets

\* A thread that holds the clipboard which another one's step is about.
LEMMA Bystander ==
    ASSUME IInv, NEW x \in Thread, NEW c \in Clip, Touch(x, c),
           NEW y \in Thread \ {x}, Handle(y) /\ cur[y] = c,
           mem'[c] = mem[c] /\ master'[c] = master[c],
           \A m \in Master : Linked(c, m)' <=> Linked(c, m),
           pc[y] \in Destroying => UNCHANGED <<kref, slot, ptrs, node>>,
           y \in Master => pc[y] \notin Creating \union {"c_init"}
    PROVE  ThreadOK(y)'
  <1>1. pc'[y] = pc[y] /\ cur'[y] = c /\ dropped \subseteq dropped'
    BY DEF Touch
  <1>2. HandleOK(y) /\ DestroyerOK(y) /\ (y \in Master => MasterOK(y)) /\ (y \in File => UserOK(y))
    BY DEF IInv
  <1>3. HandleOK(y)'
    BY <1>1, <1>2 DEF HandleOK, Handle
  <1>4. DestroyerOK(y)'
    BY <1>1, <1>2 DEF DestroyerOK
  <1>5. y \in Master => MasterOK(y)' /\ CreatorOK(y)'
    BY <1>1, <1>2 DEF MasterOK, CreatorOK, Creating
  <1>6. y \in File => UserOK(y)'
    BY <1>1, <1>2 DEF UserOK
  <1> QED
    BY <1>3, <1>4, <1>5, <1>6 DEF ThreadOK

\* Nobody destroys a clipboard that has a reference.
LEMMA NotDestroyed ==
    ASSUME IInv, NEW c \in Clip, kref[c] # 0
    PROVE  /\ \A x \in Thread : cur[x] = c => pc[x] \notin Destroying
           /\ mem[c] = "live" => ptrs[slot[c]] = c
  <1>1. \A x \in Thread : cur[x] = c => pc[x] \notin Destroying
    BY DEF IInv, DestroyerOK
  <1>2. ~SomeAt(c, {"x_free"})
    BY <1>1 DEF SomeAt, At, Destroying
  <1> QED
    BY <1>1, <1>2 DEF IInv, ClipOK

\* IOCCREATE: the device appears while the clipboard has a reference, or it does not.
LEMMA CreateNodeInv == ASSUME IInv, oops = "none", NEW m \in Master, CreateNode(m) PROVE IInv'
  <1>0. PICK c : c = cur[m]
    OBVIOUS
  <1>1. /\ pc[m] = "c_node"
        /\ \/ node' = [node EXCEPT ![slot[c]] = c] /\ pc' = [pc EXCEPT ![m] = "c_link"]
           \/ pc' = [pc EXCEPT ![m] = "c_undo"] /\ UNCHANGED node
        /\ UNCHANGED <<ptrs, mem, slot, kref, master, locked, slaves, cur, next, closing, dropped, oops>>
    BY <1>0 DEF CreateNode, Goto
  <1>2. Types /\ CreatorOK(m) /\ HandleOK(m) /\ m \in Thread /\ m \notin File
    BY BufhubAssumption DEF IInv, Thread
  <1>3. /\ c \in Clip /\ c # Null /\ mem[c] = "live" /\ ClipOK(c) /\ \A s \in Slot : node[s] # c
        /\ master[c] = m /\ c \notin dropped /\ ~Linked(c, m)
    BY <1>0, <1>1, <1>2, BufhubAssumption DEF IInv, CreatorOK, HandleOK, Handle, Creating
  <1>4. Types'
    <2>1. pc' \in [Thread -> PCs] /\ pc'[m] \in {"c_link", "c_undo"}
          /\ \A x \in Thread \ {m} : pc'[x] = pc[x]
      BY <1>1, <1>2 DEF Types, PCs
    <2>2. node' \in [Slot -> Clip \union {Null}]
      BY <1>1, <1>2, <1>3 DEF Types
    <2>3. \A f \in File : f \in Thread \ {m}
      BY <1>2 DEF Thread
    <2>4. \A n \in Master : pc'[n] \notin {"o_load", "o_get", "o_trunc"}
      BY <1>2, <2>1 DEF Types, Thread
    <2> QED
      BY <1>1, <1>2, <2>1, <2>2, <2>3, <2>4 DEF Types
  <1>5. /\ pc'[m] \in {"c_link", "c_undo"} /\ \A x \in Thread \ {m} : pc'[x] = pc[x]
        /\ \A s \in Slot : s # slot[c] => node'[s] = node[s]
        /\ node'[slot[c]] = IF pc'[m] = "c_link" THEN c ELSE node[slot[c]]
    BY <1>1, <1>2, <1>3 DEF Types
  <1>6. Touch(m, c)
    BY <1>0, <1>1, <1>5 DEF Touch, Linked, Handle
  <1>7. kref[c] # 0 /\ Share(c) = 1 /\ Share(c)' = 1 /\ Users(c)' = Users(c)
    <2>1. Share(c) = 1 /\ Share(c)' = 1
      BY <1>1, <1>2, <1>3, BufhubAssumption DEF Share, MasterHolds
    <2>2. Users(c)' = Users(c) /\ Cardinality(Users(c)) \in Nat
      BY <1>1, <1>2, <1>5, SameFiles
    <2>3. kref[c] = Cardinality(Users(c)) + Share(c)
      BY <1>3 DEF ClipOK
    <2> QED
      BY <2>1, <2>2, <2>3
  <1>14. ptrs[slot[c]] = c /\ \A x \in Thread : cur[x] = c => pc[x] \notin Destroying
    BY <1>3, <1>7, NotDestroyed
  <1>8. ClipOK(c)'
    <2>1. SomeAt(c, Unlinking)'
      BY <1>0, <1>1, <1>2, <1>5 DEF SomeAt, At, Unlinking, Creating
    <2>2. kref[c] > 0
      BY <1>2, <1>3, <1>7 DEF Types
    <2> QED
      BY <1>1, <1>3, <1>7, <1>14, <2>1, <2>2 DEF ClipOK
  <1>9. ThreadOK(m)'
    BY <1>0, <1>1, <1>2, <1>3, <1>5 DEF ThreadOK, HandleOK, DestroyerOK, CreatorOK, MasterOK, Handle,
       Destroying, Creating, Linked
  <1>10. ASSUME NEW y \in Thread \ {m}, Handle(y) /\ cur[y] = c PROVE ThreadOK(y)'
    <2>1. y \in Master => pc[y] \notin Creating \union {"c_init"}
      BY <1>3, <1>10 DEF IInv, CreatorOK
    <2> QED
      BY <1>1, <1>2, <1>3, <1>6, <1>10, <1>14, <2>1, Bystander DEF Linked
  <1>11. \A n \in Master : ListOK(n)'
    <2>1. ListOK(m)'
      BY <1>1, <1>3, <1>5, SameList DEF Destroying, IInv, ListOK, Linked
    <2> QED
      BY <1>1, <1>2, <1>4, <1>3, <1>6, <2>1, SameLists DEF IInv, ListOK, Linked
  <1>12. Alone'
    BY <1>1, <1>2, <1>5, <1>6, StillAlone DEF Destroying
  <1>13. \A s \in Slot : /\ ptrs'[s] = c => slot'[c] = s
                         /\ node'[s] = c => ptrs'[s] = c
    BY <1>1, <1>3, <1>5, <1>14 DEF IInv, SlotOK
  <1> QED
    BY <1>1, <1>2, <1>3, <1>4, <1>5, <1>6, <1>8, <1>9, <1>10, <1>11, <1>12, <1>13, StepInv

Has(s, d) == \E i \in DOMAIN s : s[i] = d

\* list_add puts one entry in front of the others.
LEMMA PushFacts ==
    ASSUME NEW S, NEW s \in Seq(S), NEW c \in S, NEW t \in Seq(S), t = <<c>> \o s
    PROVE  /\ t \in Seq(S) /\ t # << >> /\ Head(t) = c /\ Tail(t) = s
           /\ \A d : Has(t, d) <=> (d = c \/ Has(s, d))
           /\ (\A i, j \in DOMAIN s : s[i] = s[j] => i = j) /\ (\A i \in DOMAIN s : s[i] # c) =>
                  \A i, j \in DOMAIN t : t[i] = t[j] => i = j
  <1>1. /\ Len(s) \in Nat /\ DOMAIN s = 1 .. Len(s)
        /\ <<c>> \in Seq(S) /\ Len(<<c>>) = 1 /\ <<c>>[1] = c
    BY LenProperties
  <1>2. /\ t \in Seq(S) /\ Len(t) = 1 + Len(s)
        /\ \A i \in 1 .. 1 + Len(s) : t[i] = IF i <= 1 THEN <<c>>[i] ELSE s[i - 1]
    BY <1>1, ConcatProperties
  <1>3. DOMAIN t = 1 .. 1 + Len(s) /\ t[1] = c
    BY <1>1, <1>2, LenProperties
  <1>4. \A i \in 1 .. Len(s) : t[i + 1] = s[i] /\ i + 1 \in DOMAIN t
    BY <1>1, <1>2, <1>3
  <1>5. \A i \in DOMAIN t : i = 1 \/ (i - 1 \in DOMAIN s /\ t[i] = s[i - 1])
    BY <1>1, <1>2, <1>3
  <1>6. \A d : (\E i \in DOMAIN t : t[i] = d) <=> (d = c \/ \E i \in DOMAIN s : s[i] = d)
    <2> SUFFICES ASSUME NEW d
                 PROVE  (\E i \in DOMAIN t : t[i] = d) <=> (d = c \/ \E i \in DOMAIN s : s[i] = d)
      OBVIOUS
    <2>1. ASSUME NEW i \in DOMAIN t, t[i] = d PROVE d = c \/ \E j \in DOMAIN s : s[j] = d
      BY <1>3, <1>5, <2>1
    <2>2. ASSUME d = c PROVE \E i \in DOMAIN t : t[i] = d
      BY <1>1, <1>3, <2>2
    <2>3. ASSUME NEW i \in DOMAIN s, s[i] = d PROVE \E j \in DOMAIN t : t[j] = d
      BY <1>1, <1>4, <2>3
    <2> QED
      BY <2>1, <2>2, <2>3
  <1>7. ASSUME \A i, j \in DOMAIN s : s[i] = s[j] => i = j, \A i \in DOMAIN s : s[i] # c,
               NEW i \in DOMAIN t, NEW j \in DOMAIN t, t[i] = t[j]
        PROVE  i = j
    <2>1. i \in Int /\ j \in Int
      BY <1>1, <1>3
    <2>2. CASE i = 1
      BY <1>3, <1>5, <1>7, <2>2
    <2>3. CASE j = 1
      BY <1>3, <1>5, <1>7, <2>3
    <2>4. CASE i # 1 /\ j # 1
      <3>1. i - 1 = j - 1
        BY <1>5, <1>7, <2>4
      <3> QED
        BY <2>1, <3>1
    <2> QED
      BY <2>2, <2>3, <2>4
  <1>8. t # << >> /\ Head(t) = c
    BY <1>1, <1>2, <1>3, EmptySeq, HeadTailProperties
  <1>9. Tail(t) = s
    <2>1. Tail(t) \in Seq(S) /\ Len(Tail(t)) = Len(s) /\ \A i \in 1 .. Len(Tail(t)) : Tail(t)[i] = t[i + 1]
      BY <1>1, <1>2, <1>8, HeadTailProperties
    <2> QED
      BY <1>4, <2>1, SeqEqual
  <1> QED
    BY <1>2, <1>6, <1>7, <1>8, <1>9 DEF Has

\* IOCCREATE: the clipboard is on its master's list, once.
LEMMA CreateLinkInv == ASSUME IInv, oops = "none", NEW m \in Master, CreateLink(m) PROVE IInv'
  <1>0. PICK c : c = cur[m]
    OBVIOUS
  <1>1. /\ pc[m] = "c_link" /\ pc' = [pc EXCEPT ![m] = "open"]
        /\ cur' = [cur EXCEPT ![m] = Null]
        /\ slaves' = [slaves EXCEPT ![m] = <<c>> \o slaves[m]]
        /\ locked' = locked \ {c}
        /\ UNCHANGED <<ptrs, node, mem, slot, kref, master, next, closing, dropped, oops>>
    BY <1>0 DEF CreateLink, Goto, Hold
  <1>2. /\ Types /\ CreatorOK(m) /\ HandleOK(m) /\ ListOK(m) /\ m \in Thread /\ m \notin File
        /\ slaves[m] \in Seq(Clip)
    BY BufhubAssumption DEF IInv, Thread, Types
  <1>3. /\ c \in Clip /\ c # Null /\ mem[c] = "live" /\ ClipOK(c)
        /\ master[c] = m /\ c \notin dropped /\ ~Linked(c, m)
    BY <1>0, <1>1, <1>2, BufhubAssumption DEF IInv, CreatorOK, HandleOK, Handle, Creating
  <1>4. /\ slaves'[m] = <<c>> \o slaves[m] /\ slaves'[m] \in Seq(Clip)
        /\ \A n \in Master \ {m} : slaves'[n] = slaves[n]
        /\ slaves' \in [Master -> Seq(Clip)]
    <2>1. <<c>> \o slaves[m] \in Seq(Clip)
      <3>1. <<c>> \in Seq(Clip)
        BY <1>3
      <3> QED
        BY <1>2, <3>1, ConcatProperties
    <2> QED
      BY <1>1, <1>2, <2>1 DEF Types
  <1>5. /\ \A d : Linked(d, m)' <=> (d = c \/ Linked(d, m))
        /\ \A i, j \in DOMAIN slaves'[m] : slaves'[m][i] = slaves'[m][j] => i = j
    <2>1. \A i \in DOMAIN slaves[m] : slaves[m][i] # c
      BY <1>3 DEF Linked
    <2> DEFINE s == slaves[m]
    <2>2. PICK t : t = slaves'[m]
      OBVIOUS
    <2>3. s \in Seq(Clip) /\ t \in Seq(Clip) /\ t = <<c>> \o s /\ c \in Clip
          /\ \A i, j \in DOMAIN s : s[i] = s[j] => i = j
      BY <1>2, <1>3, <1>4, <2>2 DEF ListOK
    <2> HIDE DEF s
    <2>4. \A d : Has(t, d) <=> (d = c \/ Has(s, d))
      BY <2>3, PushFacts
    <2>5. (\A i \in DOMAIN s : s[i] # c) => \A i, j \in DOMAIN t : t[i] = t[j] => i = j
      BY <2>3, PushFacts
    <2> QED
      BY <2>1, <2>2, <2>4, <2>5 DEF Linked, Has, s
  <1>6. /\ pc'[m] = "open" /\ cur'[m] = Null
        /\ \A x \in Thread \ {m} : pc'[x] = pc[x] /\ cur'[x] = cur[x]
    BY <1>1, <1>2 DEF Types
  <1>7. Types'
    BY <1>1, <1>2, <1>3, <1>4 DEF Types, PCs
  <1>8. Touch(m, c)
    <2>1. \A d \in Clip \ {c} : \A n \in Master : Linked(d, n)' <=> Linked(d, n)
      BY <1>4, <1>5, ZenonT(40) DEF Linked
    <2>2. \A d \in Clip \ {c} : cur[m] # d /\ cur'[m] # d
      BY <1>0, <1>6, BufhubAssumption
    <2> QED
      BY <1>1, <1>6, <2>1, <2>2 DEF Touch
  <1>9. kref[c] # 0 /\ Share(c) = 1 /\ Share(c)' = 1 /\ Users(c)' = Users(c)
    <2>1. Share(c) = 1 /\ Share(c)' = 1
      BY <1>1, <1>2, <1>3, BufhubAssumption DEF Share, MasterHolds
    <2>2. Users(c)' = Users(c) /\ Cardinality(Users(c)) \in Nat
      BY <1>2, <1>6, SameFiles
    <2>3. kref[c] = Cardinality(Users(c)) + Share(c)
      BY <1>3 DEF ClipOK
    <2> QED
      BY <2>1, <2>2, <2>3
  <1>10. ptrs[slot[c]] = c /\ \A x \in Thread : cur[x] = c => pc[x] \notin Destroying
    BY <1>3, <1>9, NotDestroyed
  <1>11. ClipOK(c)'
    <2>1. Linked(c, master[c])'
      BY <1>1, <1>3, <1>5
    <2>2. kref[c] > 0
      BY <1>2, <1>3, <1>9 DEF Types
    <2> QED
      BY <1>1, <1>3, <1>9, <1>10, <2>1, <2>2 DEF ClipOK
  <1>12. ThreadOK(m)'
    BY <1>2, <1>6 DEF ThreadOK, HandleOK, DestroyerOK, CreatorOK, MasterOK, Handle, Destroying, Creating
  <1>13. ASSUME NEW y \in Thread \ {m}, Handle(y) /\ cur[y] = c PROVE ThreadOK(y)'
    <2>1. HandleOK(y) /\ (y \in Master => CreatorOK(y) /\ MasterOK(y)) /\ (y \in File => UserOK(y))
      BY DEF IInv
    <2>2. pc'[y] = pc[y] /\ cur'[y] = c /\ pc[y] \notin Destroying
      BY <1>6, <1>10, <1>13
    <2>3. y \in Master => pc[y] \notin Creating \union {"c_init", "r_unlink", "r_orphan"}
      BY <1>3, <1>13, <2>1 DEF CreatorOK, MasterOK
    <2>4. y \in Master => MasterOK(y)' /\ CreatorOK(y)'
      BY <1>1, <1>3, <1>13, <2>1, <2>2, <2>3 DEF MasterOK, CreatorOK, Creating
    <2> QED
      BY <1>1, <1>3, <1>13, <2>1, <2>2, <2>4 DEF ThreadOK, HandleOK, Handle, DestroyerOK, UserOK
  <1>14. \A n \in Master : ListOK(n)'
    <2>1. ListOK(m)'
      <3>1. \A i \in DOMAIN slaves'[m] : slaves'[m][i] \in Clip
        BY <1>4, ElementOfSeq, LenProperties
      <3>2. \A d \in Clip : Linked(d, m) => mem[d] = "live" /\ master[d] = m
        BY <1>2 DEF ListOK, Linked
      <3>5. \A d \in Clip : Linked(d, m)' => mem'[d] = "live" /\ master'[d] = m
        BY <1>1, <1>3, <1>5, <3>2
      <3>3. \A i \in DOMAIN slaves'[m] : mem'[slaves'[m][i]] = "live" /\ master'[slaves'[m][i]] = m
        BY <3>1, <3>5 DEF Linked
      <3>4. m \notin closing
        BY <1>1, <1>2 DEF ListOK, Destroying
      <3> QED
        BY <1>1, <1>5, <1>6, <3>3, <3>4 DEF ListOK
    <2>2. ASSUME NEW n \in Master, n # m PROVE ListOK(n)'
      <3>1. slaves'[n] = slaves[n] /\ next'[n] = next[n] /\ (n \in closing' <=> n \in closing)
        BY <1>1, <1>4, <2>2
      <3>2. ~Linked(c, n)
        BY <1>3, <2>2 DEF IInv, ListOK, Linked
      <3> QED
        BY <1>2, <1>7, <1>8, <2>2, <3>1, <3>2, OtherLists
    <2> QED
      BY <2>1, <2>2
  <1>15. Alone'
    BY <1>2, <1>6, <1>8, StillAlone DEF Destroying
  <1>16. \A s \in Slot : /\ ptrs'[s] = c => slot'[c] = s
                         /\ node'[s] = c => ptrs'[s] = c
    BY <1>1, <1>3, <1>10 DEF IInv, SlotOK
  <1> QED
    BY <1>1, <1>2, <1>3, <1>7, <1>8, <1>11, <1>12, <1>13, <1>14, <1>15, <1>16, StepInv

\* IOCCREATE that fails: the files that have opened the clipboard by then are robbed of it.
LEMMA CreateUndoInv == ASSUME IInv, oops = "none", NEW m \in Master, CreateUndo(m) PROVE IInv'
  <1>0. PICK c : c = cur[m]
    OBVIOUS
  <1>1. /\ pc[m] = "c_undo" /\ pc' = [pc EXCEPT ![m] = "open"]
        /\ cur' = [cur EXCEPT ![m] = Null]
        /\ locked' = locked \ {c}
        /\ ptrs' = [ptrs EXCEPT ![slot[c]] = Null]
        /\ mem' = [mem EXCEPT ![c] = "freed"]
        /\ dropped' = dropped \union {c}
        /\ UNCHANGED <<node, slot, kref, master, slaves, next, closing, oops>>
    BY <1>0 DEF CreateUndo, Goto, Hold
  <1>2. Types /\ CreatorOK(m) /\ HandleOK(m) /\ ListOK(m) /\ m \in Thread /\ m \notin File
    BY BufhubAssumption DEF IInv, Thread
  <1>3. /\ c \in Clip /\ c # Null /\ mem[c] = "live" /\ ClipOK(c)
        /\ master[c] = m /\ c \notin dropped /\ ~Linked(c, m) /\ \A s \in Slot : node[s] # c
    BY <1>0, <1>1, <1>2, BufhubAssumption DEF IInv, CreatorOK, HandleOK, Handle, Creating
  <1>4. Types'
    BY <1>1, <1>2, <1>3 DEF Types, PCs
  <1>5. /\ pc'[m] = "open" /\ cur'[m] = Null /\ mem'[c] = "freed"
        /\ \A x \in Thread \ {m} : pc'[x] = pc[x] /\ cur'[x] = cur[x]
        /\ \A d \in Clip \ {c} : mem'[d] = mem[d]
    BY <1>1, <1>2, <1>3 DEF Types
  <1>6. \A s \in Slot : (ptrs[s] = c => s = slot[c]) /\ ptrs'[s] # c
                        /\ (s # slot[c] => ptrs'[s] = ptrs[s]) /\ ptrs'[s] \in {ptrs[s], Null}
    <2> SUFFICES ASSUME NEW s \in Slot
                 PROVE  (ptrs[s] = c => s = slot[c]) /\ ptrs'[s] # c
                        /\ (s # slot[c] => ptrs'[s] = ptrs[s]) /\ ptrs'[s] \in {ptrs[s], Null}
      OBVIOUS
    <2>1. ptrs[s] = c => s = slot[c]
      BY <1>3 DEF IInv, SlotOK
    <2> QED
      BY <1>1, <1>2, <1>3, <2>1 DEF Types
  <1>7. kref[c] # 0 /\ Share(c) = 1 /\ Share(c)' = 1 /\ Users(c)' = Users(c)
    <2>1. Share(c) = 1 /\ Share(c)' = 1
      BY <1>1, <1>2, <1>3, BufhubAssumption DEF Share, MasterHolds
    <2>2. Users(c)' = Users(c) /\ Cardinality(Users(c)) \in Nat
      BY <1>2, <1>5, SameFiles
    <2>3. kref[c] = Cardinality(Users(c)) + Share(c)
      BY <1>3 DEF ClipOK
    <2> QED
      BY <2>1, <2>2, <2>3
  <1>8. ptrs[slot[c]] = c /\ \A x \in Thread : cur[x] = c => pc[x] \notin Destroying
    BY <1>3, <1>7, NotDestroyed
  <1>9. Touch(m, c)
    <2>1. \A d \in Clip \ {c} : cur[m] # d /\ cur'[m] # d
      BY <1>0, <1>5, BufhubAssumption
    <2>2. \A d \in Clip \ {c} : ptrs'[slot[d]] = d <=> ptrs[slot[d]] = d
      BY <1>2, <1>6, <1>8, BufhubAssumption DEF Types
    <2> QED
      BY <1>1, <1>5, <1>6, <2>1, <2>2 DEF Touch, Linked
  <1>10. ClipOK(c)'
    BY <1>1, <1>3, <1>5, <1>7 DEF ClipOK
  <1>11. ThreadOK(m)'
    BY <1>2, <1>5 DEF ThreadOK, HandleOK, DestroyerOK, CreatorOK, MasterOK, Handle, Destroying, Creating
  <1>12. ASSUME NEW y \in Thread \ {m}, Handle(y) /\ cur[y] = c PROVE ThreadOK(y)'
    <2>1. HandleOK(y) /\ (y \in Master => CreatorOK(y) /\ MasterOK(y))
      BY DEF IInv
    <2>2. pc'[y] = pc[y] /\ cur'[y] = c /\ pc[y] \notin Destroying /\ c \in dropped'
      BY <1>1, <1>5, <1>8, <1>12
    <2>3. y \in Master => pc[y] \notin Creating \union {"c_init", "r_unlink", "r_orphan"}
      BY <1>3, <1>12, <2>1 DEF CreatorOK, MasterOK
    <2>4. y \in Master => MasterOK(y)' /\ CreatorOK(y)'
      BY <2>2, <2>3 DEF MasterOK, CreatorOK, Creating
    <2>5. HandleOK(y)'
      BY <1>3, <1>5, <1>12, <2>1, <2>2 DEF HandleOK, Handle
    <2> QED
      BY <2>2, <2>4, <2>5 DEF ThreadOK, DestroyerOK, UserOK
  <1>13. \A n \in Master : ListOK(n)'
    <2>1. \A n \in Master : ~Linked(c, n)
      BY <1>3 DEF IInv, ListOK, Linked
    <2>2. \A d \in Clip : Linked(d, m) => mem'[d] = "live" /\ master'[d] = m
      BY <1>1, <1>2, <1>5, <2>1 DEF ListOK, Linked
    <2>3. ListOK(m)'
      BY <1>1, <1>5, <2>2, SameList DEF Destroying
    <2> QED
      BY <1>1, <1>2, <1>4, <1>9, <2>1, <2>3, SameLists
  <1>14. Alone'
    BY <1>2, <1>5, <1>9, StillAlone DEF Destroying
  <1> QED
    BY <1>1, <1>2, <1>3, <1>4, <1>6, <1>9, <1>10, <1>11, <1>12, <1>13, <1>14, StepInv

\* An access to memory that is gone says nothing of what follows.
LEMMA OopsInv ==
    ASSUME IInv, NEW where \in {"put", "unlink", "lookup", "walk", "open", "fileop", "race"},
           Oops(where),
           where \in {"open", "lookup", "race"} \/ dropped # {}
    PROVE  IInv'
  <1>1. /\ UNCHANGED <<ptrs, node, mem, slot, kref, master, locked, slaves, pc, cur, next,
                       closing, dropped>>
        /\ oops' = where
    BY DEF Oops
  <1>2. Types'
    BY <1>1 DEF IInv, Types
  <1>3. \A x \in Thread : HandleOK(x)' /\ DestroyerOK(x)'
    BY <1>1 DEF IInv, HandleOK, Handle, DestroyerOK, Linked
  <1>4. \A m \in Master : CreatorOK(m)' /\ MasterOK(m)'
    BY <1>1 DEF IInv, CreatorOK, MasterOK, Linked
  <1>5. \A m \in Master : ListOK(m)'
    BY <1>1 DEF IInv, ListOK, Linked, At
  <1>6. (\A f \in File : UserOK(f)') /\ Alone'
    BY <1>1 DEF IInv, UserOK, Alone
  <1>7. \A c \in Clip : ClipOK(c)'
    <2> SUFFICES ASSUME NEW c \in Clip PROVE ClipOK(c)'
      OBVIOUS
    <2>1. /\ Users(c)' = Users(c) /\ Share(c)' = Share(c)
          /\ \A w : SomeAt(c, w)' = SomeAt(c, w)
          /\ \A m : Linked(c, m)' = Linked(c, m)
      BY <1>1 DEF Users, Share, MasterHolds, SomeAt, At, Linked
    <2> QED
      BY <1>1, <2>1 DEF IInv, ClipOK
  <1>8. \A s \in Slot : SlotOK(s)'
    BY <1>1 DEF IInv, SlotOK
  <1> QED
    BY <1>1, <1>2, <1>3, <1>4, <1>5, <1>6, <1>7, <1>8 DEF IInv

\* A step that changes nothing but where its thread is: it neither takes nor lets go of
\* a reference.
Idle(x) ==
    /\ UNCHANGED <<ptrs, node, mem, slot, kref, master, slaves, dropped, oops>>
    /\ \A y \in Thread \ {x} : pc'[y] = pc[y] /\ cur'[y] = cur[y]
    /\ \A m \in Master \ {x} : next'[m] = next[m] /\ (m \in closing' <=> m \in closing)
    /\ \/ ~Grip(x) /\ ~Grip(x)'
       \/ /\ x \in File /\ cur'[x] = cur[x]
          /\ {pc[x], pc'[x]} \subseteq {"o_trunc", "open", "put"}

\* Nobody notices such a step.
LEMMA IdleInv ==
    ASSUME IInv, oops = "none", NEW x \in Thread, Types', Idle(x),
           ThreadOK(x)', x \in Master => ListOK(x)'
    PROVE  IInv'
  <1>1. \A y \in Thread : ThreadOK(y)'
    <2> SUFFICES ASSUME NEW y \in Thread, y # x PROVE ThreadOK(y)'
      OBVIOUS
    <2>1. /\ UNCHANGED <<ptrs, node, mem, slot, kref, master, slaves, dropped>>
          /\ pc'[y] = pc[y] /\ cur'[y] = cur[y]
      BY DEF Idle
    <2>2. HandleOK(y)' /\ DestroyerOK(y)'
      BY <2>1 DEF IInv, HandleOK, Handle, DestroyerOK, Linked
    <2>3. y \in Master => CreatorOK(y)' /\ MasterOK(y)'
      BY <2>1 DEF IInv, CreatorOK, MasterOK, Linked
    <2>4. y \in File => UserOK(y)'
      BY <2>1 DEF IInv, UserOK
    <2> QED
      BY <2>2, <2>3, <2>4 DEF ThreadOK
  <1>2. \A m \in Master : ListOK(m)'
    <2> SUFFICES ASSUME NEW m \in Master, m # x PROVE ListOK(m)'
      OBVIOUS
    <2>1. /\ UNCHANGED <<mem, master, slaves, dropped>>
          /\ pc'[m] = pc[m] /\ cur'[m] = cur[m] /\ next'[m] = next[m] /\ (m \in closing' <=> m \in closing)
      BY DEF Idle, Thread
    <2>2. ListOK(m)
      BY DEF IInv
    <2> QED
      BY <2>1, <2>2 DEF ListOK, Linked, At
  <1>3. Alone'
    <2>1. \A y \in Thread : /\ pc'[y] \in Destroying \union {"c_init"} => pc'[y] = pc[y] /\ cur'[y] = cur[y]
                            /\ y \in Master /\ pc'[y] = "put" => pc'[y] = pc[y] /\ cur'[y] = cur[y]
      BY BufhubAssumption DEF Idle, Grip, Destroying
    <2> QED
      BY <2>1 DEF IInv, Alone, Idle
  <1>4. \A d \in Clip : ClipOK(d)'
    <2> SUFFICES ASSUME NEW d \in Clip PROVE ClipOK(d)'
      OBVIOUS
    <2>1. UNCHANGED <<ptrs, node, mem, slot, kref, master, slaves, dropped>>
          /\ \A m \in Master : Linked(d, m)' <=> Linked(d, m)
      BY DEF Idle, Linked
    <2>2. CASE ~Grip(x) /\ ~Grip(x)'
      BY <2>1, <2>2, SameClip DEF Idle
    <2>3. CASE x \in File /\ cur'[x] = cur[x] /\ {pc[x], pc'[x]} \subseteq {"o_trunc", "open", "put"}
      <3>1. Users(d)' = Users(d)
        BY <2>3 DEF Users, Idle, Thread
      <3>2. \A w \in {{"c_init"}, Destroying, {"x_free"}, Unlinking} : SomeAt(d, w)' = SomeAt(d, w)
        <4> SUFFICES ASSUME NEW w \in {{"c_init"}, Destroying, {"x_free"}, Unlinking}
                     PROVE  SomeAt(d, w)' = SomeAt(d, w)
          OBVIOUS
        <4>1. pc[x] \notin w /\ pc'[x] \notin w
          BY <2>3 DEF Destroying, Unlinking, Creating
        <4>2. \A y \in Thread : At(y, d, w)' = At(y, d, w)
          BY <4>1 DEF At, Idle
        <4> QED
          BY <4>2 DEF SomeAt
      <3>3. Share(d)' = Share(d)
        <4>1. \A m \in Master : At(m, d, {"put"})' = At(m, d, {"put"})
          BY <2>3, BufhubAssumption DEF At, Idle, Thread
        <4> QED
          BY <2>1, <4>1 DEF Share, MasterHolds
      <3>4. ClipOK(d) /\ master[d] \in Master \union {Null}
        BY DEF IInv, Types
      <3> QED
        BY <2>1, <3>1, <3>2, <3>3, <3>4 DEF ClipOK
    <2> QED
      BY <2>2, <2>3 DEF Idle
  <1>5. \A s \in Slot : SlotOK(s)'
    BY DEF IInv, SlotOK, Idle
  <1> QED
    BY <1>1, <1>2, <1>3, <1>4, <1>5 DEF IInv, ThreadOK, Thread, Idle

\* A master outside its release: what matters of its list is what is on it.
LEMMA IdleMaster ==
    ASSUME IInv, NEW m \in Master, UNCHANGED <<slaves, mem, master>>, m \notin closing, m \notin closing',
           pc'[m] \in {"open", "d_check"}
    PROVE  ListOK(m)'
  BY DEF IInv, ListOK

\* The list of a master that is closed is empty, so emptying it loses nothing.
LEMMA MiscdevOpenInv == ASSUME IInv, oops = "none", NEW m \in Master, MiscdevOpen(m) PROVE IInv'
  <1>1. /\ pc[m] = "closed" /\ pc' = [pc EXCEPT ![m] = "open"]
        /\ slaves' = [slaves EXCEPT ![m] = << >>]
        /\ UNCHANGED <<ptrs, node, mem, slot, kref, master, locked, cur, next, closing, dropped,
                   oops>>
    BY DEF MiscdevOpen, Goto
  <1>2. Types /\ ListOK(m) /\ m \in Thread /\ m \notin File
    BY BufhubAssumption DEF IInv, Thread
  <1>3. slaves' = slaves
    BY <1>1, <1>2 DEF Types, ListOK
  <1>4. pc'[m] = "open" /\ \A y \in Thread \ {m} : pc'[y] = pc[y]
    BY <1>1, <1>2 DEF Types
  <1>5. Types'
    BY <1>1, <1>2, <1>3 DEF Types, PCs
  <1>6. Idle(m)
    BY <1>1, <1>2, <1>3, <1>4 DEF Idle, Grip, Creating, Destroying
  <1>7. ThreadOK(m)'
    BY <1>2, <1>4 DEF ThreadOK, HandleOK, DestroyerOK, CreatorOK, MasterOK, Handle, Destroying, Creating
  <1>8. ListOK(m)'
    BY <1>1, <1>2, <1>3, <1>4, IdleMaster DEF ListOK, Destroying
  <1> QED
    BY <1>2, <1>5, <1>6, <1>7, <1>8, IdleInv

\* IOCDESTROY takes no reference, so nothing is said of what it finds.
LEMMA DestroyLookupInv == ASSUME IInv, oops = "none", NEW m \in Master, DestroyLookup(m) PROVE IInv'
  <1>1. PICK s \in Slot : node[s] # Null /\ cur' = [cur EXCEPT ![m] = node[s]]
    BY DEF DestroyLookup, Hold
  <1>2. /\ pc[m] = "open" /\ pc' = [pc EXCEPT ![m] = "d_check"]
        /\ UNCHANGED <<ptrs, node, mem, slot, kref, master, locked, slaves, next, closing, dropped,
                       oops>>
    BY DEF DestroyLookup, Goto
  <1>3. Types /\ ListOK(m) /\ m \in Thread /\ m \notin File /\ SlotOK(s)
    BY BufhubAssumption DEF IInv, Thread
  <1>4. node[s] \in Clip /\ mem[node[s]] = "live"
    BY <1>1, <1>3 DEF Types, SlotOK
  <1>5. /\ pc'[m] = "d_check" /\ cur'[m] = node[s]
        /\ \A y \in Thread \ {m} : pc'[y] = pc[y] /\ cur'[y] = cur[y]
    BY <1>1, <1>2, <1>3 DEF Types
  <1>6. Types'
    BY <1>1, <1>2, <1>3, <1>4 DEF Types, PCs
  <1>7. Idle(m)
    BY <1>2, <1>3, <1>5 DEF Idle, Grip, Creating, Destroying
  <1>8. ThreadOK(m)'
    BY <1>2, <1>3, <1>4, <1>5 DEF ThreadOK, HandleOK, DestroyerOK, CreatorOK, MasterOK, Handle,
       Destroying, Creating
  <1>9. ListOK(m)'
    BY <1>2, <1>3, <1>5, IdleMaster DEF ListOK, Destroying
  <1> QED
    BY <1>3, <1>6, <1>7, <1>8, <1>9, IdleInv

\* The walk starts at the head of the list.
LEMMA MiscdevReleaseInv == ASSUME IInv, oops = "none", NEW m \in Master, MiscdevRelease(m) PROVE IInv'
  <1>1. /\ pc[m] = "open" /\ pc' = [pc EXCEPT ![m] = "r_loop"]
        /\ closing' = closing \union {m}
        /\ next' = [next EXCEPT ![m] = First(slaves[m])]
        /\ UNCHANGED <<ptrs, node, mem, slot, kref, master, locked, slaves, cur, dropped, oops>>
    BY DEF MiscdevRelease, Goto
  <1>2. Types /\ ListOK(m) /\ m \in Thread /\ m \notin File /\ slaves[m] \in Seq(Clip)
    BY BufhubAssumption DEF IInv, Thread, Types
  <1>3. First(slaves[m]) \in Clip \union {Null} /\ (First(slaves[m]) = Null => slaves[m] = << >>)
    BY <1>2, HeadTailProperties, BufhubAssumption DEF First
  <1>4. pc'[m] = "r_loop" /\ next'[m] = First(slaves[m])
        /\ \A y \in Thread \ {m} : pc'[y] = pc[y]
        /\ \A n \in Master \ {m} : next'[n] = next[n]
    BY <1>1, <1>2 DEF Types
  <1>5. Types'
    BY <1>1, <1>2, <1>3 DEF Types, PCs
  <1>6. Idle(m)
    BY <1>1, <1>2, <1>4 DEF Idle, Grip, Creating, Destroying
  <1>7. ThreadOK(m)'
    BY <1>2, <1>4 DEF ThreadOK, HandleOK, DestroyerOK, CreatorOK, MasterOK, Handle, Destroying, Creating
  <1>8. ListOK(m)'
    <2>1. slaves[m] = << >> => \A c \in Clip : ~Linked(c, m)
      BY DEF Linked
    <2> QED
      BY <1>1, <1>2, <1>3, <1>4, <2>1 DEF ListOK, Linked
  <1> QED
    BY <1>2, <1>5, <1>6, <1>7, <1>8, IdleInv

\* A path that is resolved leads to a minor.
LEMMA OpenNodeInv == ASSUME IInv, oops = "none", NEW f \in File, OpenNode(f) PROVE IInv'
  <1>1. PICK s \in Slot : cur' = [cur EXCEPT ![f] = s]
    BY DEF OpenNode, Hold
  <1>2. /\ pc[f] = "closed" /\ pc' = [pc EXCEPT ![f] = "o_load"]
        /\ UNCHANGED <<ptrs, node, mem, slot, kref, master, locked, slaves, next, closing, dropped,
                       oops>>
    BY DEF OpenNode, Goto
  <1>3. Types /\ f \in Thread /\ f \notin Master
    BY BufhubAssumption DEF IInv, Thread
  <1>4. /\ pc'[f] = "o_load" /\ cur'[f] = s
        /\ \A y \in Thread \ {f} : pc'[y] = pc[y] /\ cur'[y] = cur[y]
    BY <1>1, <1>2, <1>3 DEF Types
  <1>5. Types'
    <2>1. pc' \in [Thread -> PCs] /\ cur' \in [Thread -> Clip \union Slot \union {Null}]
      BY <1>1, <1>2, <1>3 DEF Types, PCs
    <2>2. \A n \in Master : pc'[n] \notin {"o_load", "o_get", "o_trunc"}
      BY <1>3, <1>4 DEF Types, Thread
    <2>3. \A g \in File : pc'[g] \in {"closed", "o_load", "o_get", "o_trunc", "open", "put"} \union Destroying
      BY <1>3, <1>4 DEF Types, Thread
    <2> QED
      BY <1>2, <1>3, <2>1, <2>2, <2>3 DEF Types
  <1>6. Idle(f)
    BY <1>2, <1>3, <1>4 DEF Idle, Grip, Creating, Destroying
  <1>7. ThreadOK(f)'
    BY <1>3, <1>4 DEF ThreadOK, HandleOK, DestroyerOK, UserOK, Handle, Destroying, Creating
  <1> QED
    BY <1>3, <1>5, <1>6, <1>7, IdleInv

\* A minor that is in use leads to a clipboard with memory.
LEMMA OpenLoadInv == ASSUME IInv, oops = "none", NEW f \in File, OpenLoad(f) PROVE IInv'
  <1>1. PICK c : c = ptrs[cur[f]]
    OBVIOUS
  <1>2. CASE c = Null
    BY <1>1, <1>2, OopsInv DEF OpenLoad
  <1>3. CASE c # Null
    <2>1. /\ pc[f] = "o_load" /\ pc' = [pc EXCEPT ![f] = "o_get"] /\ cur' = [cur EXCEPT ![f] = c]
          /\ UNCHANGED <<ptrs, node, mem, slot, kref, master, locked, slaves, next, closing,
                         dropped, oops>>
      BY <1>1, <1>3 DEF OpenLoad, Goto, Hold
    <2>2. Types /\ f \in Thread /\ f \notin Master /\ HandleOK(f)
      BY BufhubAssumption DEF IInv, Thread
    <2>3. c \in Clip /\ mem[c] \in {"alloc", "live"}
      BY <1>1, <1>3, <2>1, <2>2 DEF IInv, Types, SlotOK, HandleOK
    <2>4. /\ pc'[f] = "o_get" /\ cur'[f] = c
          /\ \A y \in Thread \ {f} : pc'[y] = pc[y] /\ cur'[y] = cur[y]
      BY <2>1, <2>2 DEF Types
    <2>5. Types'
      <3>1. pc' \in [Thread -> PCs] /\ cur' \in [Thread -> Clip \union Slot \union {Null}]
        BY <2>1, <2>2, <2>3 DEF Types, PCs
      <3>2. \A n \in Master : pc'[n] \notin {"o_load", "o_get", "o_trunc"}
        BY <2>2, <2>4 DEF Types, Thread
      <3>3. \A g \in File : pc'[g] \in {"closed", "o_load", "o_get", "o_trunc", "open", "put"} \union Destroying
        BY <2>2, <2>4 DEF Types, Thread
      <3> QED
        BY <2>1, <2>2, <3>1, <3>2, <3>3 DEF Types
    <2>6. Idle(f)
      BY <2>1, <2>2, <2>4 DEF Idle, Grip, Creating, Destroying
    <2>7. ThreadOK(f)'
      BY <2>1, <2>2, <2>3, <2>4 DEF ThreadOK, HandleOK, DestroyerOK, UserOK, Handle, Destroying, Creating
    <2> QED
      BY <2>2, <2>5, <2>6, <2>7, IdleInv
  <1> QED
    BY <1>2, <1>3

\* A file that goes on with the reference it has.
LEMMA FileKeeps ==
    ASSUME IInv, oops = "none", NEW f \in File, pc[f] \in {"o_trunc", "open"},
           pc' = [pc EXCEPT ![f] = "open"] \/ pc' = [pc EXCEPT ![f] = "put"],
           UNCHANGED <<ptrs, node, mem, slot, kref, master, locked, slaves, cur, next, closing,
                       dropped, oops>>
    PROVE  IInv'
  <1>1. Types /\ f \in Thread /\ f \notin Master /\ HandleOK(f) /\ UserOK(f)
    BY BufhubAssumption DEF IInv, Thread
  <1>2. pc'[f] \in {"open", "put"} /\ \A y \in Thread \ {f} : pc'[y] = pc[y]
    BY <1>1 DEF Types
  <1>3. Types'
    <2>1. pc' \in [Thread -> PCs]
      BY <1>1, ZenonT(40) DEF Types, PCs
    <2>2. \A n \in Master : pc'[n] \notin {"o_load", "o_get", "o_trunc"}
      BY <1>1, <1>2 DEF Types, Thread
    <2>3. \A g \in File : pc'[g] \in {"closed", "o_load", "o_get", "o_trunc", "open", "put"} \union Destroying
      BY <1>1, <1>2 DEF Types, Thread
    <2> QED
      BY <1>1, <2>1, <2>2, <2>3 DEF Types
  <1>4. Idle(f)
    BY <1>1, <1>2 DEF Idle
  <1>5. ThreadOK(f)'
    BY <1>1, <1>2 DEF ThreadOK, HandleOK, DestroyerOK, UserOK, Handle, Destroying
  <1> QED
    BY <1>1, <1>3, <1>4, <1>5, IdleInv

\* An open file finds its clipboard's memory, unless it has been robbed of it.
LEMMA OpenTruncateInv == ASSUME IInv, oops = "none", NEW f \in File, OpenTruncate(f) PROVE IInv'
  <1>1. CASE mem[cur[f]] = "freed"
    <2>1. Oops("fileop") /\ UserOK(f) /\ pc[f] = "o_trunc"
      BY <1>1 DEF OpenTruncate, IInv
    <2>2. dropped # {}
      BY <1>1, <2>1 DEF UserOK
    <2> QED
      BY <2>1, <2>2, OopsInv
  <1>2. CASE mem[cur[f]] # "freed"
    BY <1>2, FileKeeps DEF OpenTruncate, Goto
  <1> QED
    BY <1>1, <1>2

\* So do its reads and writes.
LEMMA AccessInv == ASSUME IInv, oops = "none", NEW f \in File, Access(f) PROVE IInv'
  <1>1. Oops("fileop") /\ UserOK(f) /\ pc[f] = "open" /\ mem[cur[f]] = "freed"
    BY DEF Access, IInv
  <1>2. dropped # {}
    BY <1>1 DEF UserOK
  <1> QED
    BY <1>1, <1>2, OopsInv

\* A close still has the reference it is about to put.
LEMMA CloseInv == ASSUME IInv, oops = "none", NEW f \in File, Close(f) PROVE IInv'
  BY FileKeeps DEF Close, Goto

\* Where else a clipboard is in hand is not changed by a thread that is not there.
LEMMA SameSome ==
    ASSUME NEW x, \A y \in Thread \ {x} : pc'[y] = pc[y] /\ cur'[y] = cur[y],
           NEW d, NEW w, ~At(x, d, w), ~At(x, d, w)'
    PROVE  SomeAt(d, w)' = SomeAt(d, w)
  <1>1. \A y \in Thread : At(y, d, w)' = At(y, d, w)
    BY DEF At
  <1> QED
    BY <1>1 DEF SomeAt

\* A reference is taken of a clipboard that has one already, or none is.
LEMMA OpenGetInv == ASSUME IInv, oops = "none", NEW f \in File, OpenGet(f) PROVE IInv'
  <1>0. PICK c : c = cur[f]
    OBVIOUS
  <1>1. Types /\ f \in Thread /\ f \notin Master /\ HandleOK(f) /\ pc[f] = "o_get"
    BY BufhubAssumption DEF IInv, Thread, OpenGet
  <1>2. c \in Clip /\ c # Null /\ mem[c] # "unused" /\ ClipOK(c)
    BY <1>0, <1>1, BufhubAssumption DEF IInv, HandleOK, Handle
  <1>3. CASE mem[c] = "freed"
    BY <1>0, <1>3, OopsInv DEF OpenGet
  <1>4. CASE mem[c] # "freed" /\ kref[c] = 0
    <2>1. /\ pc' = [pc EXCEPT ![f] = "closed"] /\ cur' = [cur EXCEPT ![f] = Null]
          /\ UNCHANGED <<ptrs, node, mem, slot, kref, master, locked, slaves, next, closing,
                         dropped, oops>>
      BY <1>0, <1>4 DEF OpenGet, Goto, Hold
    <2>2. /\ pc'[f] = "closed" /\ cur'[f] = Null
          /\ \A y \in Thread \ {f} : pc'[y] = pc[y] /\ cur'[y] = cur[y]
      BY <1>1, <2>1 DEF Types
    <2>3. Types'
      <3>1. pc' \in [Thread -> PCs] /\ cur' \in [Thread -> Clip \union Slot \union {Null}]
        BY <1>1, <2>1 DEF Types, PCs
      <3>2. \A n \in Master : pc'[n] \notin {"o_load", "o_get", "o_trunc"}
        BY <1>1, <2>2 DEF Types, Thread
      <3>3. \A g \in File : pc'[g] \in {"closed", "o_load", "o_get", "o_trunc", "open", "put"} \union Destroying
        BY <1>1, <2>2 DEF Types, Thread
      <3> QED
        BY <1>1, <2>1, <3>1, <3>2, <3>3 DEF Types
    <2>4. Idle(f)
      BY <1>1, <2>1, <2>2 DEF Idle, Grip, Creating, Destroying
    <2>5. ThreadOK(f)'
      BY <1>1, <2>2 DEF ThreadOK, HandleOK, DestroyerOK, UserOK, Handle, Destroying, Creating
    <2> QED
      BY <1>1, <2>3, <2>4, <2>5, IdleInv
  <1>5. CASE mem[c] # "freed" /\ kref[c] # 0
    <2>1. /\ kref' = [kref EXCEPT ![c] = @ + 1]
          /\ pc' = [pc EXCEPT ![f] = "open"] \/ pc' = [pc EXCEPT ![f] = "o_trunc"]
          /\ UNCHANGED <<ptrs, node, mem, slot, master, locked, slaves, cur, next, closing,
                         dropped, oops>>
      BY <1>0, <1>5 DEF OpenGet, Goto
    <2>2. mem[c] = "live"
      BY <1>1, <1>2, <1>5 DEF Types, ClipOK
    <2>3. /\ pc'[f] \in {"open", "o_trunc"} /\ cur'[f] = c /\ kref'[c] = kref[c] + 1
          /\ \A y \in Thread \ {f} : pc'[y] = pc[y] /\ cur'[y] = cur[y]
          /\ \A d \in Clip \ {c} : kref'[d] = kref[d]
      BY <1>0, <1>1, <1>2, <2>1 DEF Types
    <2>4. Types'
      <3>0. kref[c] + 1 \in Nat
        BY <1>1, <1>2 DEF Types
      <3>1. pc' \in [Thread -> PCs] /\ kref' \in [Clip -> Nat]
        <4>1. pc' \in [Thread -> PCs]
          BY <1>1, <2>1 DEF Types, PCs
        <4>2. kref' \in [Clip -> Nat]
          BY <1>1, <1>2, <2>1, <3>0 DEF Types
        <4> QED
          BY <4>1, <4>2
      <3>2. \A n \in Master : pc'[n] \notin {"o_load", "o_get", "o_trunc"}
        BY <1>1, <2>3 DEF Types, Thread
      <3>3. \A g \in File : pc'[g] \in {"closed", "o_load", "o_get", "o_trunc", "open", "put"} \union Destroying
        BY <1>1, <2>3 DEF Types, Thread
      <3> QED
        BY <1>1, <2>1, <3>1, <3>2, <3>3 DEF Types
    <2>5. Touch(f, c)
      BY <1>0, <2>1, <2>3 DEF Touch, Linked
    <2>6. ptrs[slot[c]] = c /\ \A x \in Thread : cur[x] = c => pc[x] \notin Destroying
      BY <1>2, <1>5, <2>2, NotDestroyed
    <2>7. Cardinality(Users(c)') = Cardinality(Users(c)) + 1 /\ Cardinality(Users(c)) \in Nat
      <3>1. Users(c)' = Users(c) \union {f}
        BY <2>3 DEF Users, Thread
      <3>2. Users(c) \in SUBSET File /\ f \in File \ Users(c)
        BY <1>1 DEF Users
      <3> QED
        BY <3>1, <3>2, FileSets
    <2>8. Share(c)' = Share(c) /\ Share(c) \in {0, 1}
      <3>1. \A m \in Master : At(m, c, {"put"})' = At(m, c, {"put"})
        BY <1>1, <2>3 DEF At, Thread
      <3> QED
        BY <2>1, <3>1 DEF Share, MasterHolds
    <2>9. /\ SomeAt(c, Destroying)' = SomeAt(c, Destroying)
          /\ SomeAt(c, Unlinking)' = SomeAt(c, Unlinking)
      <3>1. pc[f] \notin Destroying \union Unlinking /\ pc'[f] \notin Destroying \union Unlinking
        BY <1>1, <2>3 DEF Destroying, Unlinking, Creating
      <3> QED
        BY <2>3, <3>1, SameSome DEF At
    <2>10. ClipOK(c)'
      <3>1. kref'[c] > 0 /\ (kref[c] = Cardinality(Users(c)) + Share(c) => kref'[c] = Cardinality(Users(c)') + Share(c)')
            /\ kref'[c] <= Cardinality(Users(c)') + Share(c)'
        <4>1. kref[c] \in Nat /\ kref[c] <= Cardinality(Users(c)) + Share(c)
          BY <1>1, <1>2 DEF Types, ClipOK
        <4> QED
          BY <2>3, <2>7, <2>8, <4>1
      <3>2. Linked(c, master[c])' = Linked(c, master[c])
        BY <2>1 DEF Linked
      <3> QED
        BY <1>2, <2>1, <2>2, <2>6, <2>9, <3>1, <3>2 DEF ClipOK
    <2>11. ThreadOK(f)'
      BY <1>1, <1>2, <2>1, <2>2, <2>3 DEF ThreadOK, HandleOK, DestroyerOK, UserOK, Handle, Destroying, Creating
    <2>12. ASSUME NEW y \in Thread \ {f}, Handle(y) /\ cur[y] = c PROVE ThreadOK(y)'
      <3>1. pc'[y] = pc[y] /\ cur'[y] = c /\ pc[y] \notin Destroying
        BY <2>3, <2>6, <2>12
      <3>2. HandleOK(y)' /\ DestroyerOK(y)'
        BY <2>1, <2>12, <3>1 DEF IInv, HandleOK, Handle, DestroyerOK
      <3>3. y \in Master => CreatorOK(y)' /\ MasterOK(y)'
        BY <2>1, <2>12, <3>1 DEF IInv, CreatorOK, MasterOK, Linked
      <3>4. y \in File => UserOK(y)'
        BY <2>1, <2>12, <3>1 DEF IInv, UserOK
      <3> QED
        BY <3>2, <3>3, <3>4 DEF ThreadOK
    <2>13. \A n \in Master : ListOK(n)'
      <3>1. \A n \in Master : Linked(c, n) => mem'[c] = "live" /\ master'[c] = n
        BY <2>1 DEF IInv, ListOK, Linked
      <3> QED
        BY <1>1, <2>1, <2>4, <2>5, <3>1, SameLists
    <2>14. Alone'
      BY <1>1, <2>3, <2>5, StillAlone DEF Destroying
    <2>15. \A s \in Slot : /\ ptrs'[s] = c => slot'[c] = s
                           /\ node'[s] = c => ptrs'[s] = c
      BY <1>2, <2>1 DEF IInv, SlotOK
    <2> QED
      BY <1>1, <1>2, <2>1, <2>2, <2>4, <2>5, <2>10, <2>11, <2>12, <2>13, <2>14, <2>15, StepInv
  <1> QED
    BY <1>3, <1>4, <1>5

\* IOCDESTROY takes its clipboard out of all that is said of references.
LEMMA DestroyCheckInv == ASSUME IInv, oops = "none", NEW m \in Master, DestroyCheck(m) PROVE IInv'
  <1>0. PICK c : c = cur[m]
    OBVIOUS
  <1>1. Types /\ m \in Thread /\ m \notin File /\ HandleOK(m) /\ ListOK(m) /\ pc[m] = "d_check"
    BY BufhubAssumption DEF IInv, Thread, DestroyCheck
  <1>2. /\ c \in Clip /\ c # Null /\ mem[c] \in {"live", "freed"} /\ ClipOK(c)
        /\ m \notin closing
    <2>1. c \in Clip /\ mem[c] # "unused" /\ mem[c] # "alloc"
      BY <1>0, <1>1 DEF HandleOK, Handle
    <2> QED
      BY <1>1, <2>1, BufhubAssumption DEF IInv, ListOK, Destroying, Types
  <1>3. CASE mem[c] = "freed"
    BY <1>0, <1>3, OopsInv DEF DestroyCheck
  <1>4. CASE mem[c] # "freed" /\ master[c] # m
    <2>1. /\ pc' = [pc EXCEPT ![m] = "open"] /\ cur' = [cur EXCEPT ![m] = Null]
          /\ UNCHANGED <<ptrs, node, mem, slot, kref, master, locked, slaves, next, closing,
                         dropped, oops>>
      BY <1>0, <1>4 DEF DestroyCheck, Goto, Hold
    <2>2. /\ pc'[m] = "open" /\ cur'[m] = Null
          /\ \A y \in Thread \ {m} : pc'[y] = pc[y] /\ cur'[y] = cur[y]
      BY <1>1, <2>1 DEF Types
    <2>3. Types'
      BY <1>1, <2>1 DEF Types, PCs
    <2>4. Idle(m)
      BY <1>1, <2>1, <2>2 DEF Idle, Grip, Creating, Destroying
    <2>5. ThreadOK(m)'
      BY <1>1, <2>2 DEF ThreadOK, HandleOK, DestroyerOK, CreatorOK, MasterOK, Handle, Destroying, Creating
    <2>6. ListOK(m)'
      BY <1>2, <2>1, <2>2, IdleMaster
    <2> QED
      BY <1>1, <2>3, <2>4, <2>5, <2>6, IdleInv
  <1>5. CASE mem[c] # "freed" /\ master[c] = m
    <2>1. /\ pc' = [pc EXCEPT ![m] = "put"] /\ dropped' = dropped \union {c}
          /\ UNCHANGED <<ptrs, node, mem, slot, kref, master, locked, slaves, cur, next, closing,
                         oops>>
      BY <1>0, <1>5 DEF DestroyCheck, Goto
    <2>2. mem[c] = "live"
      BY <1>2, <1>5
    <2>3. /\ pc'[m] = "put" /\ cur'[m] = c /\ c \in dropped' /\ dropped' # {}
          /\ \A y \in Thread \ {m} : pc'[y] = pc[y] /\ cur'[y] = cur[y]
      BY <1>0, <1>1, <2>1 DEF Types
    <2>4. Types'
      BY <1>1, <1>2, <2>1 DEF Types, PCs
    <2>5. Touch(m, c)
      BY <1>0, <2>1, <2>3 DEF Touch, Linked
    <2>6. Share(c) = 1 /\ Share(c)' = 1 /\ Users(c)' = Users(c)
      <3>1. Share(c) = 1 /\ Share(c)' = 1
        BY <1>5, <2>1, BufhubAssumption DEF Share, MasterHolds
      <3> QED
        BY <1>1, <2>3, <3>1, SameFiles
    <2>7. \A w \in {Destroying, {"x_free"}, Unlinking} : SomeAt(c, w)' = SomeAt(c, w)
      <3> SUFFICES ASSUME NEW w \in {Destroying, {"x_free"}, Unlinking} PROVE SomeAt(c, w)' = SomeAt(c, w)
        OBVIOUS
      <3>1. pc[m] \notin w /\ pc'[m] \notin w
        BY <1>1, <2>3 DEF Destroying, Unlinking, Creating
      <3> QED
        BY <2>3, <3>1, SameSome DEF At
    <2>8. ClipOK(c)'
      <3>1. Linked(c, master[c])' = Linked(c, master[c])
        BY <2>1 DEF Linked
      <3> QED
        BY <1>2, <2>1, <2>2, <2>3, <2>6, <2>7, <3>1 DEF ClipOK
    <2>9. ThreadOK(m)'
      BY <1>1, <1>2, <2>1, <2>2, <2>3 DEF ThreadOK, HandleOK, DestroyerOK, CreatorOK, MasterOK, Handle,
         Destroying, Creating
    <2>10. ASSUME NEW y \in Thread \ {m}, Handle(y) /\ cur[y] = c PROVE ThreadOK(y)'
      <3>1. y \in Master => pc[y] \notin Creating \union {"c_init"}
        BY <1>5, <2>2, <2>10 DEF IInv, CreatorOK
      <3>2. \A n \in Master : Linked(c, n)' <=> Linked(c, n)
        BY <2>1 DEF Linked
      <3> QED
        BY <1>1, <1>2, <2>1, <2>5, <2>10, <3>1, <3>2, Bystander
    <2>11. \A n \in Master : ListOK(n)'
      <3>1. \A n \in Master : \A d \in Clip : Linked(d, n) => mem'[d] = "live" /\ master'[d] = n
        BY <2>1 DEF IInv, ListOK, Linked
      <3>2. ListOK(m)'
        BY <1>1, <2>1, <2>3, <3>1, SameList DEF Destroying
      <3> QED
        BY <1>1, <1>2, <2>1, <2>4, <2>5, <3>1, <3>2, SameLists
    <2>12. Alone'
      BY <1>1, <2>3, <2>5, StillAlone DEF Destroying
    <2>13. \A s \in Slot : /\ ptrs'[s] = c => slot'[c] = s
                           /\ node'[s] = c => ptrs'[s] = c
      BY <1>2, <2>1 DEF IInv, SlotOK
    <2> QED
      BY <1>1, <1>2, <2>1, <2>2, <2>4, <2>5, <2>8, <2>9, <2>10, <2>11, <2>12, <2>13, StepInv
  <1> QED
    BY <1>3, <1>4, <1>5

\* The first entry of a list, and the one after it.
LEMMA HeadFacts ==
    ASSUME NEW S, NEW s \in Seq(S), s # << >>
    PROVE  /\ Head(s) \in S /\ Has(s, Head(s))
           /\ First(Tail(s)) \in S \union {Null}
           /\ First(Tail(s)) = Null /\ Null \notin S => \A d : Has(s, d) => d = Head(s)
  <1>1. /\ Tail(s) \in Seq(S) /\ Head(s) = s[1] /\ Len(Tail(s)) = Len(s) - 1
        /\ \A i \in 1 .. Len(Tail(s)) : Tail(s)[i] = s[i + 1]
    BY HeadTailProperties
  <1>2. Len(s) \in Nat /\ Len(s) # 0 /\ DOMAIN s = 1 .. Len(s) /\ \A i \in 1 .. Len(s) : s[i] \in S
    BY LenProperties, EmptySeq, ElementOfSeq
  <1>3. 1 \in DOMAIN s
    BY <1>2
  <1>4. Tail(s) # << >> => Head(Tail(s)) \in S
    BY <1>1, HeadTailProperties
  <1>5. ASSUME Tail(s) = << >> PROVE \A i \in DOMAIN s : i = 1
    <2>1. PICK n : n = Len(s)
      OBVIOUS
    <2>2. n - 1 = 0 /\ n \in Nat
      BY <1>1, <1>2, <1>5, <2>1, EmptySeq
    <2>3. DOMAIN s = 1 .. 1
      <3>1. n = 1
        BY <2>2
      <3> QED
        BY <1>2, <2>1, <3>1
    <2> QED
      BY <2>3
  <1> QED
    BY <1>1, <1>2, <1>3, <1>4, <1>5 DEF First, Has

\* The walk is over when the list is empty, and goes from head to head otherwise.
LEMMA ReleaseNextInv == ASSUME IInv, oops = "none", NEW m \in Master, ReleaseNext(m) PROVE IInv'
  <1>0. PICK c : c = next[m]
    OBVIOUS
  <1>1. Types /\ m \in Thread /\ m \notin File /\ ListOK(m) /\ pc[m] = "r_loop" /\ m \in closing
        /\ slaves[m] \in Seq(Clip) /\ c \in Clip \union {Null}
    BY <1>0, BufhubAssumption, ZenonT(40) DEF IInv, Thread, ReleaseNext, ListOK, Types
  <1>2. CASE c = Null
    <2>1. /\ pc' = [pc EXCEPT ![m] = "closed"] /\ closing' = closing \ {m}
          /\ UNCHANGED <<ptrs, node, mem, slot, kref, master, locked, slaves, cur, next,
                         dropped, oops>>
      BY <1>0, <1>2 DEF ReleaseNext, Goto
    <2>2. pc'[m] = "closed" /\ \A y \in Thread \ {m} : pc'[y] = pc[y]
      BY <1>1, <2>1 DEF Types
    <2>3. Types'
      BY <1>1, <2>1 DEF Types, PCs
    <2>4. Idle(m)
      BY <1>1, <2>1, <2>2 DEF Idle, Grip, Creating, Destroying
    <2>5. ThreadOK(m)'
      BY <1>1, <2>2 DEF ThreadOK, HandleOK, DestroyerOK, CreatorOK, MasterOK, Handle, Destroying, Creating
    <2>6. slaves[m] = << >>
      <3>1. \A d \in Clip : ~Linked(d, m)
        BY <1>0, <1>1, <1>2 DEF ListOK, At
      <3> QED
        BY <1>1, <3>1, HeadFacts DEF Linked, Has
    <2>7. ListOK(m)'
      BY <1>1, <2>1, <2>2, <2>6 DEF ListOK
    <2> QED
      BY <1>1, <2>3, <2>4, <2>5, <2>7, IdleInv
  <1>3. CASE c # Null /\ c # First(slaves[m])
    <2>1. Oops("walk")
      BY <1>0, <1>3 DEF ReleaseNext
    <2>2. dropped # {}
      BY <1>0, <1>1, <1>3 DEF ListOK
    <2> QED
      BY <2>1, <2>2, OopsInv
  <1>4. CASE c # Null /\ c = First(slaves[m])
    <2>1. /\ pc' = [pc EXCEPT ![m] = "r_unlink"] /\ cur' = [cur EXCEPT ![m] = c]
          /\ next' = [next EXCEPT ![m] = First(Tail(slaves[m]))]
          /\ UNCHANGED <<ptrs, node, mem, slot, kref, master, locked, slaves, closing,
                         dropped, oops>>
      BY <1>0, <1>4 DEF ReleaseNext, Goto, Hold
    <2>2. slaves[m] # << >> /\ c = Head(slaves[m]) /\ c \in Clip
      BY <1>1, <1>4 DEF First
    <2>3. PICK n : n = First(Tail(slaves[m]))
      OBVIOUS
    <2>4. /\ Linked(c, m) /\ n \in Clip \union {Null}
          /\ n = Null => \A d : Linked(d, m) => d = c
      BY <1>1, <2>2, <2>3, HeadFacts, BufhubAssumption DEF Linked, Has
    <2>5. mem[c] = "live" /\ master[c] = m
      BY <1>1, <2>4 DEF ListOK, Linked
    <2>6. /\ pc'[m] = "r_unlink" /\ cur'[m] = c /\ next'[m] = n
          /\ \A y \in Thread \ {m} : pc'[y] = pc[y] /\ cur'[y] = cur[y]
          /\ \A k \in Master \ {m} : next'[k] = next[k]
      BY <1>1, <2>1, <2>3 DEF Types
    <2>7. Types'
      BY <1>1, <2>1, <2>2, <2>3, <2>4 DEF Types, PCs
    <2>8. Idle(m)
      BY <1>1, <2>1, <2>6 DEF Idle, Grip, Creating, Destroying
    <2>9. ThreadOK(m)'
      BY <1>1, <2>1, <2>2, <2>4, <2>5, <2>6 DEF ThreadOK, HandleOK, DestroyerOK, CreatorOK, MasterOK, Handle,
         Destroying, Creating, Linked
    <2>10. ListOK(m)'
      <3>1. \A d : Linked(d, m)' <=> Linked(d, m)
        BY <2>1 DEF Linked
      <3> QED
        BY <1>1, <2>1, <2>2, <2>3, <2>4, <2>6, <3>1 DEF ListOK, At
    <2> QED
      BY <1>1, <2>7, <2>8, <2>9, <2>10, IdleInv
  <1> QED
    BY <1>2, <1>3, <1>4

\* One entry of one list goes.
LEMMA UnlinkFacts ==
    ASSUME IInv, NEW m \in Master, NEW c, Linked(c, m),
           slaves' = [slaves EXCEPT ![m] = Without(slaves[m], c)]
    PROVE  /\ slaves' \in [Master -> Seq(Clip)]
           /\ \A n \in Master \ {m} : slaves'[n] = slaves[n]
           /\ \A d : Linked(d, m)' <=> (d # c /\ Linked(d, m))
           /\ \A i, j \in DOMAIN slaves'[m] : slaves'[m][i] = slaves'[m][j] => i = j
           /\ c = Head(slaves[m]) => slaves'[m] = Tail(slaves[m])
  <1>1. PICK s : s = slaves[m]
    OBVIOUS
  <1>2. PICK t : t = Without(s, c)
    OBVIOUS
  <1>3. /\ s \in Seq(Clip) /\ \A i, j \in DOMAIN s : s[i] = s[j] => i = j
        /\ slaves \in [Master -> Seq(Clip)]
    BY <1>1 DEF IInv, Types, ListOK
  <1>4. PICK k \in DOMAIN s : s[k] = c
    BY <1>1 DEF Linked
  <1>5. /\ t \in Seq(Clip)
        /\ \A i, j \in DOMAIN t : t[i] = t[j] => i = j
        /\ \A i \in DOMAIN t : \E j \in DOMAIN s : j # k /\ t[i] = s[j]
        /\ \A j \in DOMAIN s : j # k => \E i \in DOMAIN t : t[i] = s[j]
        /\ k = 1 => t = Tail(s)
    BY <1>2, <1>3, <1>4, WithoutFacts
  <1>6. \A d : Has(t, d) <=> (d # c /\ Has(s, d))
    <2> SUFFICES ASSUME NEW d PROVE Has(t, d) <=> (d # c /\ Has(s, d))
      OBVIOUS
    <2>1. ASSUME NEW i \in DOMAIN t, t[i] = d PROVE d # c /\ \E j \in DOMAIN s : s[j] = d
      <3>1. PICK j \in DOMAIN s : j # k /\ t[i] = s[j]
        BY <1>5
      <3> QED
        BY <1>3, <1>4, <2>1, <3>1
    <2>2. ASSUME d # c, NEW j \in DOMAIN s, s[j] = d PROVE \E i \in DOMAIN t : t[i] = d
      BY <1>4, <1>5, <2>2
    <2> QED
      BY <2>1, <2>2 DEF Has
  <1>7. c = Head(s) => k = 1
    <2>1. s # << >> /\ 1 \in DOMAIN s
      <3>1. DOMAIN s = 1 .. Len(s) /\ Len(s) \in Nat
        BY <1>3, LenProperties
      <3> QED
        BY <1>3, <1>4, <3>1, EmptySeq
    <2>2. Head(s) = s[1]
      BY <1>3, <2>1, HeadTailProperties
    <2> QED
      BY <1>3, <1>4, <2>1, <2>2
  <1>8. slaves'[m] = t /\ slaves' \in [Master -> Seq(Clip)] /\ \A n \in Master \ {m} : slaves'[n] = slaves[n]
    BY <1>1, <1>2, <1>3, <1>5
  <1>9. \A d : (Linked(d, m)' <=> Has(t, d)) /\ (Linked(d, m) <=> Has(s, d))
    BY <1>1, <1>8 DEF Linked, Has
  <1> QED
    BY <1>1, <1>5, <1>6, <1>7, <1>8, <1>9

\* The entries of a list are what it has.
LEMMA Members ==
    ASSUME NEW S, NEW s \in Seq(S)
    PROVE  \A i \in DOMAIN s : s[i] \in S /\ Has(s, s[i])
  BY ElementOfSeq, LenProperties DEF Has

\* The clipboard in the walk's hand leaves the list, and the cursor is its new head.
LEMMA MasterPutUnlinkInv ==
    ASSUME IInv, oops = "none", NEW m \in Master, MasterPutUnlink(m) PROVE IInv'
  <1>0. PICK c : c = cur[m]
    OBVIOUS
  <1>1. Types /\ m \in Thread /\ m \notin File /\ HandleOK(m) /\ ListOK(m) /\ MasterOK(m)
        /\ pc[m] = "r_unlink"
    BY BufhubAssumption DEF IInv, Thread, MasterPutUnlink
  <1>2. /\ c \in Clip /\ c # Null /\ mem[c] \in {"live", "freed"} /\ ClipOK(c) /\ master[c] = m
        /\ m \in closing
        /\ c \notin dropped => mem[c] = "live" /\ Linked(c, m)
    <2>1. c \in Clip /\ mem[c] # "unused" /\ mem[c] # "alloc"
      BY <1>0, <1>1 DEF HandleOK, Handle
    <2> QED
      BY <1>0, <1>1, <2>1, BufhubAssumption DEF IInv, ListOK, MasterOK, Types
  <1>3. CASE mem[c] = "freed" \/ ~Linked(c, m)
    <2>1. Oops("walk")
      BY <1>0, <1>3 DEF MasterPutUnlink
    <2>2. dropped # {}
      BY <1>2, <1>3
    <2> QED
      BY <2>1, <2>2, OopsInv
  <1>4. CASE mem[c] # "freed" /\ Linked(c, m)
    <2>1. /\ pc' = [pc EXCEPT ![m] = "r_orphan"]
          /\ slaves' = [slaves EXCEPT ![m] = Without(slaves[m], c)]
          /\ UNCHANGED <<ptrs, node, mem, slot, kref, master, locked, cur, next, closing,
                         dropped, oops>>
      BY <1>0, <1>4 DEF MasterPutUnlink, Goto
    <2>2. mem[c] = "live"
      BY <1>2, <1>4
    <2>3. /\ pc'[m] = "r_orphan" /\ cur'[m] = c
          /\ \A y \in Thread \ {m} : pc'[y] = pc[y] /\ cur'[y] = cur[y]
      BY <1>0, <1>1, <2>1 DEF Types
    <2>4. /\ slaves' \in [Master -> Seq(Clip)]
          /\ \A n \in Master \ {m} : slaves'[n] = slaves[n]
          /\ \A d : Linked(d, m)' <=> (d # c /\ Linked(d, m))
          /\ \A i, j \in DOMAIN slaves'[m] : slaves'[m][i] = slaves'[m][j] => i = j
          /\ c = Head(slaves[m]) => slaves'[m] = Tail(slaves[m])
      BY <1>4, <2>1, UnlinkFacts
    <2>5. Types'
      BY <1>1, <2>1, <2>4 DEF Types, PCs
    <2>6. Touch(m, c)
      <3>1. \A d \in Clip \ {c} : \A n \in Master : Linked(d, n)' <=> Linked(d, n)
        BY <2>4, ZenonT(40) DEF Linked
      <3> QED
        BY <1>0, <2>1, <2>3, <3>1 DEF Touch
    <2>7. Share(c) = 1 /\ Share(c)' = 1 /\ Users(c)' = Users(c)
      <3>1. Share(c) = 1 /\ Share(c)' = 1
        BY <1>2, <2>1, BufhubAssumption DEF Share, MasterHolds
      <3> QED
        BY <1>1, <2>3, <3>1, SameFiles
    <2>8. /\ \A w \in {Destroying, {"x_free"}} : SomeAt(c, w)' = SomeAt(c, w)
          /\ SomeAt(c, Unlinking)'
      <3>1. ASSUME NEW w \in {Destroying, {"x_free"}} PROVE SomeAt(c, w)' = SomeAt(c, w)
        <4>1. pc[m] \notin w /\ pc'[m] \notin w
          BY <1>1, <2>3, <3>1 DEF Destroying
        <4> QED
          BY <2>3, <4>1, SameSome DEF At
      <3>2. SomeAt(c, Unlinking)'
        BY <1>1, <2>3 DEF SomeAt, At, Unlinking
      <3> QED
        BY <3>1, <3>2
    <2>9. ClipOK(c)'
      BY <1>2, <2>1, <2>2, <2>7, <2>8 DEF ClipOK
    <2>10. ThreadOK(m)'
      BY <1>1, <1>2, <2>1, <2>2, <2>3, <2>4 DEF ThreadOK, HandleOK, DestroyerOK, CreatorOK, MasterOK, Handle,
         Destroying, Creating
    <2>11. ASSUME NEW y \in Thread \ {m}, Handle(y) /\ cur[y] = c PROVE ThreadOK(y)'
      <3>1. y \in Master => pc[y] \notin Creating \union {"c_init", "r_unlink", "r_orphan"}
        BY <1>2, <2>2, <2>11 DEF IInv, CreatorOK, MasterOK
      <3>2. \A n \in Master : Linked(c, n)' => Linked(c, n)
        BY <2>4 DEF Linked
      <3>3. pc'[y] = pc[y] /\ cur'[y] = c
        BY <2>3, <2>11
      <3>4. HandleOK(y)' /\ DestroyerOK(y)'
        BY <2>1, <2>11, <3>2, <3>3 DEF IInv, HandleOK, Handle, DestroyerOK
      <3>5. y \in Master => CreatorOK(y)' /\ MasterOK(y)'
        BY <2>1, <2>11, <3>1, <3>3 DEF IInv, CreatorOK, MasterOK, Creating
      <3>6. y \in File => UserOK(y)'
        BY <2>1, <2>11, <3>3 DEF IInv, UserOK
      <3> QED
        BY <3>4, <3>5, <3>6 DEF ThreadOK
    <2>12. \A n \in Master : ListOK(n)'
      <3>1. ListOK(m)'
        <4>1. \A d \in Clip : Linked(d, m)' => mem'[d] = "live" /\ master'[d] = m
          <5>1. \A d : Linked(d, m) => mem[d] = "live" /\ master[d] = m
            BY <1>1 DEF ListOK, Linked
          <5> QED
            BY <2>1, <2>4, <5>1
        <4>2. \A i \in DOMAIN slaves'[m] : mem'[slaves'[m][i]] = "live" /\ master'[slaves'[m][i]] = m
          <5>1. PICK t : t = slaves'[m]
            OBVIOUS
          <5>2. \A i \in DOMAIN t : t[i] \in Clip /\ Has(t, t[i])
            BY <2>4, <5>1, Members
          <5>3. \A d : Linked(d, m)' <=> Has(t, d)
            BY <5>1 DEF Linked, Has
          <5> QED
            BY <4>1, <5>1, <5>2, <5>3
        <4>3. next'[m] = Null => \A d \in Clip : ~Linked(d, m)'
          BY <1>0, <1>1, <1>2, <2>1, <2>4 DEF ListOK, At
        <4>4. dropped' = {} => next'[m] = First(slaves'[m])
          BY <1>0, <1>1, <1>2, <2>1, <2>4 DEF ListOK
        <4> QED
          BY <1>2, <2>1, <2>3, <2>4, <4>2, <4>3, <4>4 DEF ListOK
      <3>2. ASSUME NEW n \in Master, n # m PROVE ListOK(n)'
        <4>1. ~Linked(c, n)
          BY <1>2, <3>2 DEF IInv, ListOK, Linked
        <4>2. slaves'[n] = slaves[n] /\ next'[n] = next[n] /\ (n \in closing' <=> n \in closing)
          BY <2>1, <2>4, <3>2
        <4> QED
          BY <1>1, <2>5, <2>6, <3>2, <4>1, <4>2, OtherLists
      <3> QED
        BY <3>1, <3>2
    <2>13. Alone'
      BY <1>1, <2>3, <2>6, StillAlone DEF Destroying
    <2>14. \A s \in Slot : /\ ptrs'[s] = c => slot'[c] = s
                           /\ node'[s] = c => ptrs'[s] = c
      BY <1>2, <2>1 DEF IInv, SlotOK
    <2> QED
      BY <1>1, <1>2, <2>1, <2>2, <2>5, <2>6, <2>9, <2>10, <2>11, <2>12, <2>13, <2>14, StepInv
  <1> QED
    BY <1>3, <1>4

\* A thread that comes to destroy a clipboard or to give up a master's reference finds
\* nobody there.
LEMMA NewAlone ==
    ASSUME IInv, NEW x \in Thread, NEW c, Touch(x, c), pc'[x] # "c_init",
           pc'[x] \in Destroying => \A y \in Thread \ {x} : ~At(y, cur'[x], Destroying),
           x \in Master /\ pc'[x] = "put" => \A y \in Master \ {x} : ~At(y, cur'[x], {"put"})
    PROVE  Alone'
  <1>1. Alone
    BY DEF IInv
  <1>2. \A y \in Thread \ {x} : pc'[y] = pc[y] /\ cur'[y] = cur[y]
    BY DEF Touch
  <1>3. dropped \subseteq dropped'
    BY DEF Touch
  <1> SUFFICES ASSUME NEW y \in Thread, NEW z \in Thread, cur'[y] = cur'[z], y # z
               PROVE  /\ ~(pc'[y] \in Destroying /\ pc'[z] \in Destroying)
                      /\ ~(pc'[y] = "c_init" /\ pc'[z] = "c_init")
                      /\ ~(y \in Master /\ z \in Master /\ pc'[y] = "put" /\ pc'[z] = "put"
                             /\ cur'[y] \notin dropped')
    BY DEF Alone
  <1>4. CASE y # x /\ z # x
    BY <1>1, <1>2, <1>3, <1>4 DEF Alone
  <1>5. CASE y = x
    BY <1>1, <1>2, <1>3, <1>5 DEF At
  <1>6. CASE z = x
    BY <1>1, <1>2, <1>3, <1>6 DEF At
  <1> QED
    BY <1>4, <1>5, <1>6

\* A master's put and what it leads to do not move it along its own list.
LEMMA PutterList ==
    ASSUME IInv, NEW m \in Master, pc[m] \in {"r_orphan", "put"} \union Destroying,
           pc'[m] \in {"put", AfterPut(m)} \union Destroying,
           slaves'[m] = slaves[m], UNCHANGED <<next, closing, dropped>>,
           \A d \in Clip : Linked(d, m) => mem'[d] = "live" /\ master'[d] = m
    PROVE  ListOK(m)'
  <1>1. ListOK(m) /\ slaves[m] \in Seq(Clip) /\ m \notin File
    BY BufhubAssumption DEF IInv, Types
  <1>2. pc[m] # "r_unlink" /\ pc'[m] \notin {"r_unlink", "r_orphan", "closed"}
    BY <1>1 DEF AfterPut, Destroying
  <1>3. \A d : Linked(d, m)' <=> Linked(d, m)
    BY DEF Linked
  <1>4. \A i \in DOMAIN slaves[m] : mem'[slaves[m][i]] = "live" /\ master'[slaves[m][i]] = m
    <2>1. PICK t : t = slaves[m]
      OBVIOUS
    <2>2. \A i \in DOMAIN t : t[i] \in Clip /\ Has(t, t[i])
      BY <1>1, <2>1, Members
    <2>3. \A d : Linked(d, m) <=> Has(t, d)
      BY <2>1 DEF Linked, Has
    <2> QED
      BY <2>1, <2>2, <2>3
  <1>5. m \notin closing => pc'[m] # "r_loop"
    BY <1>1 DEF AfterPut, Destroying
  <1>6. m \in closing => pc'[m] \in {"r_loop", "put"} \union Destroying
    BY <1>1 DEF AfterPut
  <1>7. m \in closing /\ next[m] = Null => \A d \in Clip : ~Linked(d, m)
    BY <1>1, <1>2 DEF ListOK, At
  <1> QED
    BY <1>1, <1>2, <1>3, <1>4, <1>5, <1>6, <1>7 DEF ListOK

\* The reference of the master is now that of the walk.
LEMMA MasterPutOrphanInv ==
    ASSUME IInv, oops = "none", NEW m \in Master, MasterPutOrphan(m) PROVE IInv'
  <1>0. PICK c : c = cur[m]
    OBVIOUS
  <1>1. Types /\ m \in Thread /\ m \notin File /\ HandleOK(m) /\ ListOK(m) /\ MasterOK(m)
        /\ pc[m] = "r_orphan"
    BY BufhubAssumption DEF IInv, Thread, MasterPutOrphan
  <1>2. /\ c \in Clip /\ c # Null /\ mem[c] \in {"live", "freed"} /\ ClipOK(c) /\ master[c] = m
        /\ c \notin dropped => mem[c] = "live"
        /\ ~Linked(c, m)
    <2>1. c \in Clip /\ mem[c] # "unused" /\ mem[c] # "alloc"
      BY <1>0, <1>1 DEF HandleOK, Handle
    <2> QED
      BY <1>0, <1>1, <2>1, BufhubAssumption DEF IInv, MasterOK, Types
  <1>3. CASE mem[c] = "freed"
    <2>1. Oops("walk") /\ dropped # {}
      BY <1>0, <1>2, <1>3 DEF MasterPutOrphan
    <2> QED
      BY <2>1, OopsInv
  <1>4. CASE mem[c] # "freed"
    <2>1. /\ pc' = [pc EXCEPT ![m] = "put"]
          /\ master' = [master EXCEPT ![c] = Null]
          /\ UNCHANGED <<ptrs, node, mem, slot, kref, locked, slaves, cur, next, closing,
                         dropped, oops>>
      BY <1>0, <1>4 DEF MasterPutOrphan, Goto
    <2>2. mem[c] = "live"
      BY <1>2, <1>4
    <2>3. /\ pc'[m] = "put" /\ cur'[m] = c /\ master'[c] = Null
          /\ \A y \in Thread \ {m} : pc'[y] = pc[y] /\ cur'[y] = cur[y]
          /\ \A d \in Clip \ {c} : master'[d] = master[d]
      BY <1>0, <1>1, <1>2, <2>1 DEF Types
    <2>4. Types'
      BY <1>1, <1>2, <2>1 DEF Types, PCs
    <2>5. Touch(m, c)
      BY <1>0, <2>1, <2>3 DEF Touch, Linked
    <2>6. Share(c) = 1 /\ Share(c)' = 1 /\ Users(c)' = Users(c)
      <3>1. Share(c) = 1 /\ Share(c)' = 1
        BY <1>2, <2>3, BufhubAssumption DEF Share, MasterHolds, At
      <3> QED
        BY <1>1, <2>3, <3>1, SameFiles
    <2>7. \A w \in {Destroying, {"x_free"}} : SomeAt(c, w)' = SomeAt(c, w)
      <3> SUFFICES ASSUME NEW w \in {Destroying, {"x_free"}} PROVE SomeAt(c, w)' = SomeAt(c, w)
        OBVIOUS
      <3>1. pc[m] \notin w /\ pc'[m] \notin w
        BY <1>1, <2>3 DEF Destroying
      <3> QED
        BY <2>3, <3>1, SameSome DEF At
    <2>8. ClipOK(c)'
      BY <1>2, <2>1, <2>2, <2>3, <2>6, <2>7 DEF ClipOK
    <2>9. ThreadOK(m)'
      BY <1>1, <1>2, <2>1, <2>2, <2>3 DEF ThreadOK, HandleOK, DestroyerOK, CreatorOK, MasterOK, Handle,
         Destroying, Creating
    <2>10. ASSUME NEW y \in Thread \ {m}, Handle(y) /\ cur[y] = c PROVE ThreadOK(y)'
      <3>1. y \in Master => pc[y] \notin Creating \union {"c_init", "r_unlink", "r_orphan"}
        BY <1>2, <2>2, <2>10 DEF IInv, CreatorOK, MasterOK
      <3>2. pc'[y] = pc[y] /\ cur'[y] = c
        BY <2>3, <2>10
      <3>3. HandleOK(y)' /\ DestroyerOK(y)'
        BY <2>1, <2>10, <3>2 DEF IInv, HandleOK, Handle, DestroyerOK, Linked
      <3>4. y \in Master => CreatorOK(y)' /\ MasterOK(y)'
        BY <2>1, <2>2, <2>3, <2>10, <3>1, <3>2 DEF IInv, CreatorOK, MasterOK, Creating
      <3>5. y \in File => UserOK(y)'
        BY <2>1, <2>10, <3>2 DEF IInv, UserOK
      <3> QED
        BY <3>3, <3>4, <3>5 DEF ThreadOK
    <2>11. \A n \in Master : ListOK(n)'
      <3>1. \A n \in Master : ~Linked(c, n)
        BY <1>2 DEF IInv, ListOK, Linked
      <3>2. \A d \in Clip : Linked(d, m) => mem'[d] = "live" /\ master'[d] = m
        BY <1>1, <2>1, <2>3, <3>1 DEF ListOK, Linked
      <3>3. ListOK(m)'
        BY <1>1, <2>1, <2>3, <3>2, PutterList
      <3> QED
        BY <1>1, <2>1, <2>4, <2>5, <3>1, <3>3, SameLists
    <2>12. Alone'
      <3>1. \A y \in Master \ {m} : At(y, c, {"put"}) => c \in dropped
        BY <1>2, BufhubAssumption DEF IInv, MasterOK, At
      <3>2. CASE c \in dropped
        BY <1>1, <2>1, <2>3, <2>5, <3>2, StillAlone DEF Destroying
      <3>3. CASE c \notin dropped
        BY <1>1, <2>3, <2>5, <3>1, <3>3, NewAlone DEF Destroying
      <3> QED
        BY <3>2, <3>3
    <2>13. \A s \in Slot : /\ ptrs'[s] = c => slot'[c] = s
                           /\ node'[s] = c => ptrs'[s] = c
      BY <1>2, <2>1 DEF IInv, SlotOK
    <2> QED
      BY <1>1, <1>2, <2>1, <2>2, <2>4, <2>5, <2>8, <2>9, <2>10, <2>11, <2>12, <2>13, StepInv
  <1> QED
    BY <1>3, <1>4

\* The last reference of a clipboard is nobody's any more.
LEMMA NoRefs ==
    ASSUME IInv, NEW c \in Clip, mem[c] = "live", kref[c] = 0, c \notin dropped
    PROVE  Users(c) = {} /\ ~MasterHolds(c)
  <1>1. ClipOK(c) /\ Users(c) \in SUBSET File
    BY DEF IInv, Users
  <1>2. Cardinality(Users(c)) \in Nat /\ (Cardinality(Users(c)) = 0 => Users(c) = {})
    BY <1>1, FileSets
  <1>3. 0 = Cardinality(Users(c)) + Share(c) /\ Share(c) \in {0, 1}
    BY <1>1 DEF ClipOK, Share
  <1>4. Share(c) = 0 /\ Cardinality(Users(c)) = 0
    BY <1>2, <1>3
  <1> QED
    BY <1>2, <1>4 DEF Share

\* Types of the thread's place, wherever a put may lead.
LEMMA PutterTypes ==
    ASSUME Types, NEW x \in Thread, pc[x] \in {"put"} \union Destroying,
           NEW l \in {AfterPut(x)} \union Destroying, pc' = [pc EXCEPT ![x] = l]
    PROVE  /\ pc' \in [Thread -> PCs] /\ pc'[x] = l
           /\ \A y \in Thread \ {x} : pc'[y] = pc[y]
           /\ \A f \in File : pc'[f] \in {"closed", "o_load", "o_get", "o_trunc", "open", "put"}
                                            \union Destroying
           /\ \A m \in Master : pc'[m] \notin {"o_load", "o_get", "o_trunc"}
  <1>1. pc \in [Thread -> PCs] /\ File \subseteq Thread /\ Master \subseteq Thread
    BY DEF Types, Thread
  <1>2. l \in {"closed", "open", "r_loop"} \union Destroying /\ (x \in File => l # "open" /\ l # "r_loop")
    BY DEF AfterPut, Destroying
  <1>3. l \in PCs
    BY <1>2 DEF PCs, Destroying
  <1>4. pc' \in [Thread -> PCs] /\ pc'[x] = l /\ \A y \in Thread \ {x} : pc'[y] = pc[y]
    BY <1>1, <1>3
  <1>5. ASSUME NEW f \in File
        PROVE  pc'[f] \in {"closed", "o_load", "o_get", "o_trunc", "open", "put"} \union Destroying
    BY <1>1, <1>2, <1>4 DEF Types
  <1>6. ASSUME NEW m \in Master PROVE pc'[m] \notin {"o_load", "o_get", "o_trunc"}
    BY <1>1, <1>2, <1>4 DEF Types, Destroying
  <1> QED
    BY <1>4, <1>5, <1>6

\* A put takes a reference that is there, and the last one leaves its thread alone with the clipboard.
LEMMA PutInv == ASSUME IInv, oops = "none", NEW x \in Thread, Put(x) PROVE IInv'
  <1>0. PICK c : c = cur[x]
    OBVIOUS
  <1>1. Types /\ pc[x] = "put" /\ HandleOK(x) /\ File \subseteq Thread /\ Master \subseteq Thread
        /\ (x \in File => UserOK(x)) /\ (x \in Master => MasterOK(x)) /\ (x \in File <=> x \notin Master)
    BY BufhubAssumption DEF IInv, Put, Thread
  <1>2. /\ c \in Clip /\ c # Null /\ mem[c] \in {"live", "freed"} /\ ClipOK(c) /\ kref[c] \in Nat
        /\ c \notin dropped => mem[c] = "live" /\ (x \in Master => master[c] = Null)
    <2>1. c \in Clip /\ mem[c] # "unused" /\ mem[c] # "alloc"
      BY <1>0, <1>1 DEF HandleOK, Handle
    <2> QED
      BY <1>0, <1>1, <2>1, BufhubAssumption DEF IInv, MasterOK, UserOK, Types
  <1>3. x \in Master => MasterHolds(c)
    BY <1>0, <1>1 DEF MasterHolds, At
  <1>4. x \in File => x \in Users(c)
    BY <1>0, <1>1 DEF Users
  <1>5. CASE mem[c] = "freed" \/ kref[c] = 0
    <2>1. Oops("put")
      BY <1>0, <1>5 DEF Put
    <2>2. c \in dropped
      <3> SUFFICES ASSUME c \notin dropped PROVE FALSE
        OBVIOUS
      <3>1. mem[c] = "live" /\ kref[c] = 0
        BY <1>2, <1>5
      <3>2. Users(c) = {} /\ ~MasterHolds(c)
        BY <1>2, <3>1, NoRefs
      <3>3. x \in File \/ x \in Master
        BY DEF Thread
      <3> QED
        BY <1>3, <1>4, <3>2, <3>3
    <2>3. dropped # {}
      BY <2>2
    <2> QED
      BY <2>1, <2>3, OopsInv
  <1>6. CASE mem[c] # "freed" /\ kref[c] # 0
    <2>1. /\ kref' = [kref EXCEPT ![c] = kref[c] - 1]
          /\ pc' = [pc EXCEPT ![x] = IF kref'[c] = 0 THEN "x_unlink" ELSE AfterPut(x)]
          /\ cur' = [cur EXCEPT ![x] = IF kref'[c] = 0 THEN c ELSE Null]
          /\ UNCHANGED <<ptrs, node, mem, slot, master, locked, slaves, next, closing,
                         dropped, oops>>
      BY <1>0, <1>6 DEF Put, Goto, Hold
    <2>2. mem[c] = "live" /\ kref[c] - 1 \in Nat
      BY <1>2, <1>6
    <2>3. PICK l : l = IF kref'[c] = 0 THEN "x_unlink" ELSE AfterPut(x)
      OBVIOUS
    <2>4. l \in {AfterPut(x)} \union Destroying /\ (l = "x_unlink" \/ l \in {"closed", "open", "r_loop"})
      BY <2>3 DEF Destroying, AfterPut
    <2>5. /\ pc' \in [Thread -> PCs] /\ pc'[x] = l
          /\ \A y \in Thread \ {x} : pc'[y] = pc[y]
          /\ \A f \in File : pc'[f] \in {"closed", "o_load", "o_get", "o_trunc", "open", "put"}
                                           \union Destroying
          /\ \A m \in Master : pc'[m] \notin {"o_load", "o_get", "o_trunc"}
      BY <1>1, <2>1, <2>3, <2>4, PutterTypes
    <2>6. /\ cur'[x] = (IF kref'[c] = 0 THEN c ELSE Null) /\ \A y \in Thread \ {x} : cur'[y] = cur[y]
          /\ cur' \in [Thread -> Clip \union Slot \union {Null}]
      BY <1>1, <1>2, <2>1 DEF Types
    <2>7. kref'[c] = kref[c] - 1 /\ \A d \in Clip \ {c} : kref'[d] = kref[d]
      BY <1>1, <1>2, <2>1 DEF Types
    <2>8. kref' \in [Clip -> Nat]
      BY <1>1, <1>2, <2>1, <2>2 DEF Types
    <2>9. Types'
      BY <1>1, <2>1, <2>5, <2>6, <2>8 DEF Types
    <2>10. Touch(x, c)
      BY <1>0, <2>1, <2>5, <2>6, <2>7, BufhubAssumption DEF Touch, Linked
    <2>11. ptrs[slot[c]] = c /\ \A y \in Thread : cur[y] = c => pc[y] \notin Destroying
      BY <1>2, <1>6, <2>2, NotDestroyed
    <2>12. /\ Cardinality(Users(c)) \in Nat /\ Cardinality(Users(c)') \in Nat
           /\ Cardinality(Users(c)') = IF x \in File THEN Cardinality(Users(c)) - 1 ELSE Cardinality(Users(c))
      <3>1. Users(c) \in SUBSET File /\ Users(c)' \in SUBSET File
        BY DEF Users
      <3>2. CASE x \in File
        <4>1. Users(c)' = Users(c) \ {x}
          BY <1>0, <1>1, <2>3, <2>4, <2>5, <2>6, <3>2, BufhubAssumption DEF Users, Thread, AfterPut
        <4> QED
          BY <1>4, <3>1, <3>2, <4>1, FileSets
      <3>3. CASE x \notin File
        BY <2>5, <2>6, <3>1, <3>3, FileSets, SameFiles
      <3> QED
        BY <3>2, <3>3
    <2>13. /\ Share(c) \in {0, 1} /\ Share(c)' \in {0, 1}
           /\ x \in File => Share(c)' = Share(c)
           /\ x \in Master => Share(c) = 1 /\ (c \notin dropped => Share(c)' = 0)
      <3>1. Share(c) \in {0, 1} /\ Share(c)' \in {0, 1}
        BY DEF Share
      <3>2. ASSUME x \in File PROVE Share(c)' = Share(c)
        <4>1. \A m \in Master : At(m, c, {"put"})' = At(m, c, {"put"})
          BY <1>1, <2>5, <2>6, <3>2 DEF At
        <4> QED
          BY <2>1, <4>1 DEF Share, MasterHolds
      <3>3. ASSUME x \in Master, c \notin dropped PROVE Share(c)' = 0
        <4>1. master'[c] = Null
          BY <1>2, <2>1, <3>3
        <4>2. \A m \in Master : ~At(m, c, {"put"})'
          <5> SUFFICES ASSUME NEW m \in Master, m # x, cur[m] = c, pc[m] = "put" PROVE FALSE
            BY <1>1, <2>4, <2>5, <2>6 DEF At
          <5> QED
            BY <1>0, <1>1, <3>3 DEF IInv, Alone
        <4> QED
          BY <4>1, <4>2 DEF Share, MasterHolds
      <3> QED
        BY <1>3, <3>1, <3>2, <3>3 DEF Share
    <2>14. /\ c \notin dropped => kref'[c] = Cardinality(Users(c)') + Share(c)'
           /\ kref'[c] <= Cardinality(Users(c)') + Share(c)'
      <3>1. /\ c \notin dropped => kref[c] = Cardinality(Users(c)) + Share(c)
            /\ kref[c] <= Cardinality(Users(c)) + Share(c)
        BY <1>2, <2>2 DEF ClipOK
      <3>2. CASE x \in File
        BY <1>2, <2>7, <2>12, <2>13, <3>1, <3>2
      <3>3. CASE x \notin File
        BY <1>1, <1>2, <2>7, <2>12, <2>13, <3>1, <3>3
      <3> QED
        BY <3>2, <3>3
    <2>15. ClipOK(c)'
      <3>1. kref'[c] > 0 \/ SomeAt(c, Destroying)'
        <4>1. kref'[c] = 0 => SomeAt(c, Destroying)'
          BY <2>3, <2>5, <2>6 DEF SomeAt, At, Destroying
        <4>2. kref'[c] = 0 \/ kref'[c] > 0
          <5>1. PICK n : n = kref'[c]
            OBVIOUS
          <5>2. n \in Nat
            BY <1>2, <2>8, <5>1
          <5>3. n = 0 \/ n > 0
            BY <5>2
          <5> QED
            BY <5>1, <5>3
        <4> QED
          BY <4>1, <4>2
      <3>2. SomeAt(c, Unlinking)' = SomeAt(c, Unlinking)
        <4>1. pc[x] \notin Unlinking /\ pc'[x] \notin Unlinking
          BY <1>1, <2>4, <2>5 DEF Unlinking, Creating
        <4> QED
          BY <2>5, <2>6, <4>1, SameSome DEF At
      <3>3. Linked(c, master[c])' = Linked(c, master[c])
        BY <2>1 DEF Linked
      <3> QED
        BY <1>2, <2>1, <2>2, <2>11, <2>14, <3>1, <3>2, <3>3 DEF ClipOK
    <2>16. ThreadOK(x)'
      <3>1. CASE kref'[c] = 0
        BY <1>1, <1>2, <2>1, <2>2, <2>3, <2>5, <2>6, <2>11, <3>1
           DEF ThreadOK, HandleOK, DestroyerOK, CreatorOK, MasterOK, UserOK, Handle, Destroying, Creating
      <3>2. CASE kref'[c] # 0
        <4>1. pc'[x] = AfterPut(x)
          BY <2>3, <2>5, <3>2
        <4>2. pc'[x] \in {"closed", "open", "r_loop"} /\ (x \in File => pc'[x] = "closed")
          BY <4>1 DEF AfterPut
        <4>3. ~Handle(x)'
          BY <4>2 DEF Handle, Destroying, Creating
        <4>4. /\ pc'[x] \notin {"o_load", "c_init", "c_node", "c_undo", "r_unlink", "r_orphan",
                              "put", "o_trunc"}
              /\ pc'[x] \notin Creating /\ pc'[x] \notin Destroying
              /\ x \in File => pc'[x] # "open"
          BY <4>2 DEF Destroying, Creating
        <4> QED
          BY <4>3, <4>4 DEF ThreadOK, HandleOK, DestroyerOK, CreatorOK, MasterOK, UserOK
      <3> QED
        BY <3>1, <3>2
    <2>17. ASSUME NEW y \in Thread \ {x}, Handle(y) /\ cur[y] = c PROVE ThreadOK(y)'
      <3>1. pc'[y] = pc[y] /\ cur'[y] = c /\ pc[y] \notin Destroying
        BY <2>5, <2>6, <2>11, <2>17
      <3>2. HandleOK(y)' /\ DestroyerOK(y)'
        BY <2>1, <2>17, <3>1 DEF IInv, HandleOK, Handle, DestroyerOK
      <3>3. y \in Master => CreatorOK(y)' /\ MasterOK(y)'
        BY <2>1, <2>17, <3>1 DEF IInv, CreatorOK, MasterOK, Linked
      <3>4. y \in File => UserOK(y)'
        BY <2>1, <2>17, <3>1 DEF IInv, UserOK
      <3> QED
        BY <3>2, <3>3, <3>4 DEF ThreadOK
    <2>18. \A n \in Master : ListOK(n)'
      <3>1. \A n \in Master : \A d \in Clip : Linked(d, n) => mem'[d] = "live" /\ master'[d] = n
        BY <2>1 DEF IInv, ListOK, Linked
      <3>2. x \in Master => ListOK(x)'
        BY <1>1, <2>1, <2>4, <2>5, <3>1, PutterList
      <3> QED
        BY <1>2, <2>1, <2>9, <2>10, <3>1, <3>2, SameLists
    <2>19. Alone'
      <3>1. pc'[x] \in Destroying => cur'[x] = c
        <4>1. pc'[x] \in Destroying => kref'[c] = 0
          BY <2>3, <2>5 DEF AfterPut, Destroying
        <4> QED
          BY <2>6, <4>1
      <3>2. pc'[x] # "c_init" /\ pc'[x] # "put"
        BY <2>4, <2>5
      <3> QED
        BY <2>10, <2>11, <3>1, <3>2, NewAlone DEF At
    <2>20. \A s \in Slot : /\ ptrs'[s] = c => slot'[c] = s
                           /\ node'[s] = c => ptrs'[s] = c
      BY <1>2, <2>1 DEF IInv, SlotOK
    <2> QED
      BY <1>2, <2>1, <2>2, <2>9, <2>10, <2>15, <2>16, <2>17, <2>18, <2>19, <2>20, StepInv
  <1> QED
    BY <1>5, <1>6

\* Whoever still has the clipboard in hand that a thread destroys has been robbed of it
\* by an IOCDESTROY.
LEMMA Robbed ==
    ASSUME IInv, NEW x \in Thread, NEW c \in Clip, Touch(x, c), pc[x] \in Destroying, cur[x] = c,
           NEW y \in Thread \ {x}, Handle(y) /\ cur[y] = c,
           master'[c] = master[c], mem'[c] \in {mem[c], "freed"},
           \A m \in Master : Linked(c, m)' => Linked(c, m)
    PROVE  ThreadOK(y)'
  <1>1. mem[c] = "live" /\ kref[c] = 0
    BY DEF IInv, DestroyerOK
  <1>2. c \notin dropped => Users(c) = {} /\ ~MasterHolds(c)
    BY <1>1, NoRefs
  <1>3. /\ pc'[y] = pc[y] /\ cur'[y] = c /\ dropped \subseteq dropped'
        /\ pc[y] \notin Destroying
    BY DEF Touch, IInv, Alone
  <1>4. HandleOK(y) /\ (y \in Master => CreatorOK(y) /\ MasterOK(y)) /\ (y \in File => UserOK(y))
    BY DEF IInv
  <1>5. HandleOK(y)'
    BY <1>1, <1>3, <1>4 DEF HandleOK, Handle
  <1>6. ASSUME y \in Master PROVE CreatorOK(y)' /\ MasterOK(y)'
    <2>1. y # Null
      BY <1>6, BufhubAssumption
    <2>2. pc[y] \notin Creating \union {"c_init"}
      BY <1>1, <1>2, <1>4, <1>6, <2>1 DEF CreatorOK, MasterHolds
    <2>3. pc[y] \in {"put", "r_unlink", "r_orphan"} => c \in dropped
      BY <1>2, <1>4, <1>6, <2>1 DEF MasterOK, MasterHolds, At
    <2> QED
      BY <1>3, <1>4, <1>6, <2>2, <2>3 DEF CreatorOK, MasterOK, Creating
  <1>7. ASSUME y \in File PROVE UserOK(y)'
    <2>1. pc[y] \in {"o_trunc", "open", "put"} => c \in dropped
      BY <1>2, <1>7 DEF Users
    <2> QED
      BY <1>3, <2>1 DEF UserOK
  <1> QED
    BY <1>3, <1>5, <1>6, <1>7 DEF ThreadOK, DestroyerOK

\* A thread that destroys a clipboard is neither one of its files nor does it hold the
\* reference of its master.
LEMMA DestroyerFiles ==
    ASSUME IInv, NEW x \in Thread, NEW c \in Clip, pc[x] \in Destroying,
           pc'[x] \in Destroying \union {AfterPut(x)},
           \A y \in Thread \ {x} : pc'[y] = pc[y] /\ cur'[y] = cur[y], master'[c] = master[c]
    PROVE  Users(c)' = Users(c) /\ Share(c)' = Share(c) /\ Cardinality(Users(c)) \in Nat
  <1>1. /\ pc'[x] # "put" /\ pc[x] # "put"
        /\ x \in File => pc[x] \notin {"o_trunc", "open", "put"} /\ pc'[x] \notin {"o_trunc", "open", "put"}
    BY DEF AfterPut, Destroying
  <1>2. Users(c)' = Users(c)
    <2> SUFFICES ASSUME NEW f \in File PROVE f \in Users(c)' <=> f \in Users(c)
      BY DEF Users
    <2> QED
      BY <1>1 DEF Users, Thread
  <1>3. \A m \in Master : At(m, c, {"put"})' = At(m, c, {"put"})
    BY <1>1 DEF At, Thread
  <1>4. Users(c) \in SUBSET File
    BY DEF Users
  <1> QED
    BY <1>2, <1>3, <1>4, FileSets DEF Share, MasterHolds

\* What every step of the destruction starts from.
LEMMA DestroyerFacts ==
    ASSUME IInv, NEW x \in Thread, pc[x] \in Destroying
    PROVE  /\ Types /\ cur[x] \in Clip /\ cur[x] # Null /\ ClipOK(cur[x])
           /\ mem[cur[x]] = "live" /\ kref[cur[x]] = 0
           /\ \A s \in Slot : /\ ptrs[s] = cur[x] => slot[cur[x]] = s
                              /\ node[s] = cur[x] => slot[cur[x]] = s /\ ptrs[s] = cur[x]
  <1>1. Types /\ HandleOK(x) /\ DestroyerOK(x) /\ Handle(x)
    BY DEF IInv, Handle
  <1>2. cur[x] \in Clip /\ cur[x] # Null
    BY <1>1, BufhubAssumption DEF HandleOK
  <1> QED
    BY <1>1, <1>2 DEF IInv, DestroyerOK, SlotOK

\* The device of the clipboard was the only one at its minor.
LEMMA DestroyNodeInv == ASSUME IInv, oops = "none", NEW x \in Thread, DestroyNode(x) PROVE IInv'
  <1>0. PICK c : c = cur[x]
    OBVIOUS
  <1>1. /\ pc[x] = "x_node" /\ pc' = [pc EXCEPT ![x] = "x_slot"]
        /\ node' = [node EXCEPT ![slot[c]] = Null]
        /\ UNCHANGED <<ptrs, mem, slot, kref, master, locked, slaves, cur, next, closing,
                       dropped, oops>>
    BY <1>0 DEF DestroyNode, Goto
  <1>2. pc[x] \in Destroying /\ DestroyerOK(x)
    BY <1>1 DEF Destroying, IInv
  <1>3. /\ Types /\ c \in Clip /\ c # Null /\ ClipOK(c) /\ mem[c] = "live" /\ kref[c] = 0
        /\ ptrs[slot[c]] = c /\ (\A m \in Master : ~Linked(c, m))
        /\ \A s \in Slot : /\ ptrs[s] = c => slot[c] = s
                           /\ node[s] = c => slot[c] = s /\ ptrs[s] = c
    BY <1>0, <1>1, <1>2, DestroyerFacts DEF DestroyerOK
  <1>4. /\ pc' \in [Thread -> PCs] /\ pc'[x] = "x_slot"
        /\ \A y \in Thread \ {x} : pc'[y] = pc[y] /\ cur'[y] = cur[y]
        /\ \A f \in File : pc'[f] \in {"closed", "o_load", "o_get", "o_trunc", "open", "put"}
                                         \union Destroying
        /\ \A m \in Master : pc'[m] \notin {"o_load", "o_get", "o_trunc"}
    <2>1. "x_slot" \in Destroying
      BY DEF Destroying
    <2> QED
      BY <1>1, <1>2, <1>3, <2>1, PutterTypes
  <1>5. Types'
    BY <1>1, <1>3, <1>4 DEF Types
  <1>6. Touch(x, c)
    BY <1>0, <1>1, <1>3, <1>4 DEF Touch, Linked, Types
  <1>7. \A s \in Slot : node'[s] # c
    BY <1>1, <1>3 DEF Types
  <1>8. Users(c)' = Users(c) /\ Share(c)' = Share(c)
    BY <1>1, <1>2, <1>3, <1>4, DestroyerFiles DEF Destroying
  <1>9. ClipOK(c)'
    <2>1. SomeAt(c, Destroying)' /\ SomeAt(c, Unlinking)'
      BY <1>0, <1>1, <1>4 DEF SomeAt, At, Destroying, Unlinking
    <2> QED
      BY <1>1, <1>3, <1>8, <2>1 DEF ClipOK
  <1>10. ThreadOK(x)'
    BY <1>0, <1>1, <1>3, <1>4, <1>7 DEF ThreadOK, HandleOK, DestroyerOK, CreatorOK, MasterOK, UserOK, Handle,
       Destroying, Creating, Linked
  <1>11. ASSUME NEW y \in Thread \ {x}, Handle(y) /\ cur[y] = c PROVE ThreadOK(y)'
    BY <1>0, <1>1, <1>2, <1>3, <1>6, <1>11, Robbed DEF Linked
  <1>12. \A n \in Master : ListOK(n)'
    <2>1. \A n \in Master : \A d \in Clip : Linked(d, n) => mem'[d] = "live" /\ master'[d] = n
      BY <1>1 DEF IInv, ListOK, Linked
    <2>2. x \in Master => ListOK(x)'
      BY <1>1, <1>2, <1>4, <2>1, PutterList DEF Destroying
    <2> QED
      BY <1>1, <1>3, <1>5, <1>6, <2>1, <2>2, SameLists
  <1>13. Alone'
    BY <1>1, <1>4, <1>6, StillAlone DEF Destroying
  <1> QED
    BY <1>1, <1>3, <1>5, <1>6, <1>7, <1>9, <1>10, <1>11, <1>12, <1>13, StepInv

\* So was its entry in bufhub_clipboard_ptrs.
LEMMA DestroySlotInv == ASSUME IInv, oops = "none", NEW x \in Thread, DestroySlot(x) PROVE IInv'
  <1>0. PICK c : c = cur[x]
    OBVIOUS
  <1>1. /\ pc[x] = "x_slot" /\ pc' = [pc EXCEPT ![x] = "x_free"]
        /\ ptrs' = [ptrs EXCEPT ![slot[c]] = Null]
        /\ UNCHANGED <<node, mem, slot, kref, master, locked, slaves, cur, next, closing,
                       dropped, oops>>
    BY <1>0 DEF DestroySlot, Goto
  <1>2. pc[x] \in Destroying /\ DestroyerOK(x)
    BY <1>1 DEF Destroying, IInv
  <1>3. /\ Types /\ c \in Clip /\ c # Null /\ ClipOK(c) /\ mem[c] = "live" /\ kref[c] = 0
        /\ ptrs[slot[c]] = c /\ (\A m \in Master : ~Linked(c, m)) /\ (\A s \in Slot : node[s] # c)
        /\ \A s \in Slot : ptrs[s] = c => slot[c] = s
    BY <1>0, <1>1, <1>2, DestroyerFacts DEF DestroyerOK
  <1>4. /\ pc' \in [Thread -> PCs] /\ pc'[x] = "x_free"
        /\ \A y \in Thread \ {x} : pc'[y] = pc[y] /\ cur'[y] = cur[y]
        /\ \A f \in File : pc'[f] \in {"closed", "o_load", "o_get", "o_trunc", "open", "put"}
                                         \union Destroying
        /\ \A m \in Master : pc'[m] \notin {"o_load", "o_get", "o_trunc"}
    <2>1. "x_free" \in Destroying
      BY DEF Destroying
    <2> QED
      BY <1>1, <1>2, <1>3, <2>1, PutterTypes
  <1>5. Types'
    BY <1>1, <1>3, <1>4 DEF Types
  <1>6. /\ \A s \in Slot : ptrs'[s] # c /\ ptrs'[s] \in {ptrs[s], Null}
        /\ \A s \in Slot : s # slot[c] => ptrs'[s] = ptrs[s]
    BY <1>1, <1>3 DEF Types
  <1>7. Touch(x, c)
    <2>1. \A d \in Clip \ {c} : ptrs'[slot[d]] = d <=> ptrs[slot[d]] = d
      BY <1>3, <1>6, BufhubAssumption DEF Types
    <2> QED
      BY <1>0, <1>1, <1>3, <1>4, <1>6, <2>1 DEF Touch, Linked
  <1>8. Users(c)' = Users(c) /\ Share(c)' = Share(c)
    BY <1>1, <1>2, <1>3, <1>4, DestroyerFiles DEF Destroying
  <1>9. ClipOK(c)'
    <2>1. SomeAt(c, Destroying)' /\ SomeAt(c, Unlinking)' /\ SomeAt(c, {"x_free"})'
      BY <1>0, <1>1, <1>4 DEF SomeAt, At, Destroying, Unlinking
    <2> QED
      BY <1>1, <1>3, <1>8, <2>1 DEF ClipOK
  <1>10. ThreadOK(x)'
    BY <1>0, <1>1, <1>3, <1>4, <1>6 DEF ThreadOK, HandleOK, DestroyerOK, CreatorOK, MasterOK, UserOK, Handle,
       Destroying, Creating, Linked
  <1>11. ASSUME NEW y \in Thread \ {x}, Handle(y) /\ cur[y] = c PROVE ThreadOK(y)'
    BY <1>0, <1>1, <1>2, <1>3, <1>7, <1>11, Robbed DEF Linked
  <1>12. \A n \in Master : ListOK(n)'
    <2>1. \A n \in Master : \A d \in Clip : Linked(d, n) => mem'[d] = "live" /\ master'[d] = n
      BY <1>1 DEF IInv, ListOK, Linked
    <2>2. x \in Master => ListOK(x)'
      BY <1>1, <1>2, <1>4, <2>1, PutterList DEF Destroying
    <2> QED
      BY <1>1, <1>3, <1>5, <1>7, <2>1, <2>2, SameLists
  <1>13. Alone'
    BY <1>1, <1>4, <1>7, StillAlone DEF Destroying
  <1> QED
    BY <1>1, <1>3, <1>5, <1>6, <1>7, <1>9, <1>10, <1>11, <1>12, <1>13, StepInv

\* Nothing leads to the clipboard any more.
LEMMA DestroyFreeInv == ASSUME IInv, oops = "none", NEW x \in Thread, DestroyFree(x) PROVE IInv'
  <1>0. PICK c : c = cur[x]
    OBVIOUS
  <1>1. /\ pc[x] = "x_free" /\ pc' = [pc EXCEPT ![x] = AfterPut(x)]
        /\ cur' = [cur EXCEPT ![x] = Null] /\ mem' = [mem EXCEPT ![c] = "freed"]
        /\ UNCHANGED <<ptrs, node, slot, kref, master, locked, slaves, next, closing,
                       dropped, oops>>
    BY <1>0 DEF DestroyFree, Goto, Hold
  <1>2. pc[x] \in Destroying /\ DestroyerOK(x)
    BY <1>1 DEF Destroying, IInv
  <1>3. /\ Types /\ c \in Clip /\ c # Null /\ ClipOK(c) /\ mem[c] = "live" /\ kref[c] = 0
        /\ (\A m \in Master : ~Linked(c, m))
        /\ \A s \in Slot : node[s] # c /\ ptrs[s] # c
    BY <1>0, <1>1, <1>2, DestroyerFacts DEF DestroyerOK
  <1>4. /\ pc' \in [Thread -> PCs] /\ pc'[x] = AfterPut(x)
        /\ \A y \in Thread \ {x} : pc'[y] = pc[y]
        /\ \A f \in File : pc'[f] \in {"closed", "o_load", "o_get", "o_trunc", "open", "put"}
                                         \union Destroying
        /\ \A m \in Master : pc'[m] \notin {"o_load", "o_get", "o_trunc"}
    BY <1>1, <1>2, <1>3, PutterTypes
  <1>5. /\ cur'[x] = Null /\ \A y \in Thread \ {x} : cur'[y] = cur[y]
        /\ mem'[c] = "freed" /\ \A d \in Clip \ {c} : mem'[d] = mem[d]
    BY <1>1, <1>3 DEF Types
  <1>6. Types'
    BY <1>1, <1>3, <1>4 DEF Types
  <1>7. Touch(x, c)
    BY <1>0, <1>1, <1>4, <1>5, BufhubAssumption DEF Touch, Linked
  <1>8. Users(c)' = Users(c) /\ Share(c)' = Share(c) /\ Cardinality(Users(c)) \in Nat
    BY <1>1, <1>2, <1>3, <1>4, <1>5, DestroyerFiles
  <1>9. ClipOK(c)'
    BY <1>1, <1>3, <1>5, <1>8 DEF ClipOK
  <1>10. ThreadOK(x)'
    <2>1. pc'[x] \in {"closed", "open", "r_loop"} /\ (x \in File => pc'[x] = "closed")
      BY <1>4 DEF AfterPut
    <2>2. ~Handle(x)'
      BY <2>1 DEF Handle, Destroying, Creating
    <2>3. /\ pc'[x] \notin {"o_load", "c_init", "c_node", "c_undo", "r_unlink", "r_orphan",
                            "put", "o_trunc"}
          /\ pc'[x] \notin Creating /\ pc'[x] \notin Destroying
          /\ x \in File => pc'[x] # "open"
      BY <2>1 DEF Destroying, Creating
    <2> QED
      BY <2>2, <2>3 DEF ThreadOK, HandleOK, DestroyerOK, CreatorOK, MasterOK, UserOK
  <1>11. ASSUME NEW y \in Thread \ {x}, Handle(y) /\ cur[y] = c PROVE ThreadOK(y)'
    BY <1>0, <1>1, <1>2, <1>3, <1>5, <1>7, <1>11, Robbed DEF Linked
  <1>12. \A n \in Master : ListOK(n)'
    <2>1. \A n \in Master : \A d \in Clip : Linked(d, n) => mem'[d] = "live" /\ master'[d] = n
      BY <1>1, <1>3, <1>5 DEF IInv, ListOK, Linked
    <2>2. x \in Master => ListOK(x)'
      BY <1>1, <1>2, <1>4, <2>1, PutterList
    <2> QED
      BY <1>1, <1>3, <1>6, <1>7, <2>1, <2>2, SameLists
  <1>13. Alone'
    <2>1. pc'[x] \notin Destroying /\ pc'[x] # "c_init" /\ pc'[x] # "put"
      BY <1>4 DEF AfterPut, Destroying
    <2> QED
      BY <1>7, <2>1, NewAlone
  <1> QED
    BY <1>1, <1>3, <1>5, <1>6, <1>7, <1>9, <1>10, <1>11, <1>12, <1>13, StepInv

\* A clipboard is still on a list here only if it has been destroyed by IOCDESTROY.
LEMMA DestroyUnlinkInv == ASSUME IInv, oops = "none", NEW x \in Thread, DestroyUnlink(x) PROVE IInv'
  <1>0. PICK c : c = cur[x]
    OBVIOUS
  <1>p. PICK p : p = master[c]
    OBVIOUS
  <1>1. pc[x] = "x_unlink" /\ pc[x] \in Destroying /\ DestroyerOK(x)
    BY DEF DestroyUnlink, Destroying, IInv
  <1>2. /\ Types /\ c \in Clip /\ c # Null /\ ClipOK(c) /\ mem[c] = "live" /\ kref[c] = 0
        /\ ptrs[slot[c]] = c /\ \A s \in Slot : ptrs[s] = c => slot[c] = s
    BY <1>0, <1>1, DestroyerFacts DEF DestroyerOK
  <1>3. p \in Master \union {Null} /\ (c \notin dropped => p = Null)
    BY <1>p, <1>2, NoRefs DEF MasterHolds, Types
  <1>4. CASE p # Null /\ ~Linked(c, p)
    <2>1. Oops("unlink") /\ dropped # {}
      BY <1>0, <1>p, <1>3, <1>4 DEF DestroyUnlink
    <2> QED
      BY <2>1, OopsInv
  <1>5. CASE ~(p # Null /\ ~Linked(c, p))
    <2>1. /\ pc' = [pc EXCEPT ![x] = "x_node"]
          /\ slaves' = IF p = Null THEN slaves ELSE [slaves EXCEPT ![p] = Without(slaves[p], c)]
          /\ UNCHANGED <<ptrs, node, mem, slot, kref, master, locked, cur, next, closing,
                         dropped, oops>>
      BY <1>0, <1>p, <1>5 DEF DestroyUnlink, Goto
    <2>2. /\ pc' \in [Thread -> PCs] /\ pc'[x] = "x_node"
          /\ \A y \in Thread \ {x} : pc'[y] = pc[y] /\ cur'[y] = cur[y]
          /\ \A f \in File : pc'[f] \in {"closed", "o_load", "o_get", "o_trunc", "open", "put"}
                                           \union Destroying
          /\ \A m \in Master : pc'[m] \notin {"o_load", "o_get", "o_trunc"}
      <3>1. "x_node" \in Destroying
        BY DEF Destroying
      <3> QED
        BY <1>1, <1>2, <2>1, <3>1, PutterTypes
    <2>3. p # Null =>
            /\ slaves' \in [Master -> Seq(Clip)]
            /\ \A n \in Master \ {p} : slaves'[n] = slaves[n]
            /\ \A d : Linked(d, p)' <=> (d # c /\ Linked(d, p))
            /\ \A i, j \in DOMAIN slaves'[p] : slaves'[p][i] = slaves'[p][j] => i = j
      <3> SUFFICES ASSUME p # Null
                   PROVE  /\ slaves' \in [Master -> Seq(Clip)]
                          /\ \A n \in Master \ {p} : slaves'[n] = slaves[n]
                          /\ \A d : Linked(d, p)' <=> (d # c /\ Linked(d, p))
                          /\ \A i, j \in DOMAIN slaves'[p] : slaves'[p][i] = slaves'[p][j] => i = j
        OBVIOUS
      <3>1. p \in Master /\ Linked(c, p) /\ slaves' = [slaves EXCEPT ![p] = Without(slaves[p], c)]
        BY <1>3, <1>5, <2>1
      <3> QED
        BY <3>1, UnlinkFacts
    <2>4. slaves' \in [Master -> Seq(Clip)] /\ \A n \in Master \ {p} : slaves'[n] = slaves[n]
      BY <1>2, <2>1, <2>3 DEF Types
    <2>5. \A n \in Master : Linked(c, n) => n = p
      BY <1>p DEF IInv, ListOK, Linked
    <2>6. \A n \in Master : \A d : Linked(d, n)' <=> (d # c /\ Linked(d, n))
      <3> SUFFICES ASSUME NEW n \in Master, NEW d PROVE Linked(d, n)' <=> (d # c /\ Linked(d, n))
        OBVIOUS
      <3>1. CASE n = p
        BY <2>3, <3>1, BufhubAssumption
      <3>2. CASE n # p
        <4>1. ~Linked(c, n) /\ (Linked(d, n)' <=> Linked(d, n))
          BY <2>4, <2>5, <3>2 DEF Linked
        <4> QED
          BY <4>1
      <3> QED
        BY <3>1, <3>2
    <2>7. Types'
      BY <1>2, <2>1, <2>2, <2>4 DEF Types
    <2>8. Touch(x, c)
      BY <1>0, <2>1, <2>2, <2>6 DEF Touch
    <2>9. Users(c)' = Users(c) /\ Share(c)' = Share(c)
      BY <1>1, <1>2, <2>1, <2>2, DestroyerFiles DEF Destroying
    <2>10. ClipOK(c)'
      <3>1. SomeAt(c, Destroying)' /\ SomeAt(c, Unlinking)'
        BY <1>0, <2>1, <2>2 DEF SomeAt, At, Destroying, Unlinking
      <3> QED
        BY <1>2, <2>1, <2>9, <3>1 DEF ClipOK
    <2>11. ThreadOK(x)'
      BY <1>0, <1>1, <1>2, <2>1, <2>2, <2>6 DEF ThreadOK, HandleOK, DestroyerOK, CreatorOK, MasterOK, UserOK,
         Handle, Destroying, Creating
    <2>12. ASSUME NEW y \in Thread \ {x}, Handle(y) /\ cur[y] = c PROVE ThreadOK(y)'
      BY <1>0, <1>1, <1>2, <2>1, <2>6, <2>8, <2>12, Robbed
    <2>13. \A n \in Master : ListOK(n)'
      <3> SUFFICES ASSUME NEW n \in Master PROVE ListOK(n)'
        OBVIOUS
      <3>1. \A d \in Clip : Linked(d, n) => mem'[d] = "live" /\ master'[d] = n
        BY <2>1 DEF IInv, ListOK, Linked
      <3>2. CASE n # p /\ n = x
        BY <1>1, <2>1, <2>2, <2>4, <3>1, <3>2, PutterList DEF Destroying
      <3>3. CASE n # p /\ n # x
        <4>1. ~Linked(c, n)
          BY <2>5, <3>3
        <4>2. slaves'[n] = slaves[n] /\ next'[n] = next[n] /\ (n \in closing' <=> n \in closing)
          BY <2>1, <2>4, <3>3
        <4> QED
          BY <2>7, <2>8, <3>3, <4>1, <4>2, OtherLists
      <3>4. CASE n = p
        <4>1. ListOK(n) /\ n \in Thread /\ n # Null /\ Linked(c, n) /\ c \in dropped
          BY <1>3, <1>5, <3>4, BufhubAssumption DEF IInv, Thread
        <4>2. \A i \in DOMAIN slaves'[n] : mem'[slaves'[n][i]] = "live" /\ master'[slaves'[n][i]] = n
          <5>1. PICK t : t = slaves'[n]
            OBVIOUS
          <5>2. \A i \in DOMAIN t : t[i] \in Clip /\ Has(t, t[i])
            BY <2>4, <5>1, Members
          <5>3. \A d : Linked(d, n)' <=> Has(t, d)
            BY <5>1 DEF Linked, Has
          <5> QED
            BY <2>6, <3>1, <5>1, <5>2, <5>3
        <4>3. \A i, j \in DOMAIN slaves'[n] : slaves'[n][i] = slaves'[n][j] => i = j
          BY <2>3, <3>4, <4>1
        <4>4. pc[n] # "closed" /\ (n = x \/ pc'[n] = pc[n])
          BY <2>2, <4>1 DEF ListOK, Linked
        <4>5. pc'[n] # "closed"
          BY <2>2, <4>4
        <4>6. n \notin closing' => pc'[n] \notin {"r_loop", "r_unlink", "r_orphan"}
          BY <2>1, <2>2, <4>1, <4>4 DEF ListOK
        <4>7. n \in closing' => pc'[n] \in {"r_loop", "r_unlink", "r_orphan", "put"} \union Destroying
          BY <2>1, <2>2, <4>1, <4>4 DEF ListOK, Destroying
        <4>8. ASSUME n \in closing', next'[n] = Null, NEW d \in Clip, Linked(d, n)'
              PROVE  At(n, d, {"r_unlink"})'
          <5>1. Linked(d, n)
            BY <2>6, <4>8
          <5>2. At(n, d, {"r_unlink"})
            BY <2>1, <4>1, <4>8, <5>1 DEF ListOK
          <5> QED
            BY <1>1, <2>1, <4>4, <5>2 DEF At
        <4>9. dropped' # {}
          BY <2>1, <4>1
        <4> QED
          BY <4>2, <4>3, <4>5, <4>6, <4>7, <4>8, <4>9 DEF ListOK
      <3> QED
        BY <3>2, <3>3, <3>4
    <2>14. Alone'
      BY <1>1, <2>1, <2>2, <2>8, StillAlone DEF Destroying
    <2>15. \A s \in Slot : /\ ptrs'[s] = c => slot'[c] = s
                           /\ node'[s] = c => ptrs'[s] = c
      BY <1>2, <2>1 DEF IInv, SlotOK
    <2> QED
      BY <1>2, <2>1, <2>7, <2>8, <2>10, <2>11, <2>12, <2>13, <2>14, <2>15, StepInv
  <1> QED
    BY <1>4, <1>5

-----------------------------------------------------------------------------
(* The invariant holds throughout.                                         *)

\* Nothing is in use.
LEMMA InitInv == Init => IInv
  <1> SUFFICES ASSUME Init PROVE IInv
    OBVIOUS
  <1>1. 0 \in Slot
    BY BufhubAssumption DEF Slot
  <1>2. Types
    BY <1>1 DEF Init, Types, PCs, Thread
  <1>3. /\ \A x \in Thread : pc[x] = "closed"
        /\ \A m \in Master : pc[m] = "closed" /\ slaves[m] = << >> /\ m \notin closing
        /\ \A f \in File : pc[f] = "closed"
        /\ \A s \in Slot : ptrs[s] = Null /\ node[s] = Null
        /\ \A c \in Clip : mem[c] = "unused" /\ kref[c] = 0
        /\ dropped = {} /\ oops = "none"
    BY DEF Init, Thread
  <1>4. \A x \in Thread : HandleOK(x) /\ DestroyerOK(x)
    <2> SUFFICES ASSUME NEW x \in Thread PROVE HandleOK(x) /\ DestroyerOK(x)
      OBVIOUS
    <2>1. ~Handle(x)
      BY <1>3 DEF Handle, Destroying, Creating
    <2> QED
      BY <1>3, <2>1 DEF HandleOK, DestroyerOK, Destroying
  <1>5. \A m \in Master : CreatorOK(m) /\ MasterOK(m) /\ ListOK(m)
    <2> SUFFICES ASSUME NEW m \in Master PROVE CreatorOK(m) /\ MasterOK(m) /\ ListOK(m)
      OBVIOUS
    <2> QED
      BY <1>3 DEF CreatorOK, MasterOK, ListOK, Creating
  <1>6. (\A f \in File : UserOK(f)) /\ Alone
    BY <1>3 DEF UserOK, Alone, Destroying
  <1>7. \A c \in Clip : ClipOK(c)
    <2> SUFFICES ASSUME NEW c \in Clip PROVE ClipOK(c)
      OBVIOUS
    <2>1. Users(c) \in SUBSET File
      BY DEF Users
    <2>2. Cardinality(Users(c)) \in Nat /\ Share(c) \in {0, 1}
      BY <2>1, FileSets DEF Share
    <2>3. 0 <= Cardinality(Users(c)) + Share(c)
      BY <2>2
    <2> QED
      BY <1>3, <2>3 DEF ClipOK
  <1>8. \A s \in Slot : SlotOK(s)
    BY <1>3 DEF SlotOK
  <1> QED
    BY <1>2, <1>3, <1>4, <1>5, <1>6, <1>7, <1>8 DEF IInv

\* Every step keeps the invariant.
LEMMA NextInv == IInv /\ [Next]_vars => IInv'
  <1> SUFFICES ASSUME IInv, [Next]_vars PROVE IInv'
    OBVIOUS
  <1>0. \A x \in Master \union File : x \in Thread
    BY DEF Thread
  <1>1. ASSUME oops = "none", NEW x \in Thread, Putting(x) PROVE IInv'
    BY <1>1, PutInv, DestroyUnlinkInv, DestroyNodeInv, DestroySlotInv, DestroyFreeInv DEF Putting
  <1>2. ASSUME oops = "none", NEW m \in Master, MasterStep(m) PROVE IInv'
    <2>1. CASE CreateInit(m) \/ CreateNode(m) \/ CreateLink(m) \/ CreateUndo(m)
      BY <1>2, <2>1, CreateInitInv, CreateNodeInv, CreateLinkInv, CreateUndoInv
    <2>2. CASE DestroyCheck(m) \/ IoctlRaces(m)
      BY <1>2, <2>2, DestroyCheckInv, OopsInv DEF IoctlRaces
    <2>3. CASE ReleaseNext(m) \/ MasterPutUnlink(m) \/ MasterPutOrphan(m)
      BY <1>2, <2>3, ReleaseNextInv, MasterPutUnlinkInv, MasterPutOrphanInv
    <2>4. CASE Putting(m)
      BY <1>0, <1>1, <1>2, <2>4
    <2> QED
      BY <1>2, <2>1, <2>2, <2>3, <2>4 DEF MasterStep
  <1>3. ASSUME oops = "none", NEW m \in Master,
               MiscdevOpen(m) \/ CreateAlloc(m) \/ DestroyLookup(m) \/ MiscdevRelease(m)
        PROVE  IInv'
    BY <1>3, MiscdevOpenInv, CreateAllocInv, DestroyLookupInv, MiscdevReleaseInv
  <1>4. ASSUME oops = "none", NEW f \in File, FileStep(f) PROVE IInv'
    <2>1. CASE OpenLoad(f) \/ OpenGet(f)
      BY <1>4, <2>1, OpenLoadInv, OpenGetInv
    <2>2. CASE OpenTruncate(f) \/ Access(f)
      BY <1>4, <2>2, OpenTruncateInv, AccessInv
    <2>3. CASE Putting(f)
      BY <1>0, <1>1, <1>4, <2>3
    <2> QED
      BY <1>4, <2>1, <2>2, <2>3 DEF FileStep
  <1>5. ASSUME oops = "none", NEW f \in File, OpenNode(f) \/ Close(f) PROVE IInv'
    BY <1>5, OpenNodeInv, CloseInv
  <1>6. ASSUME UNCHANGED vars PROVE IInv'
    <2>1. Types' /\ Alone'
      BY <1>6 DEF IInv, vars, Types, Alone
    <2>2. \A x \in Thread : HandleOK(x)' /\ DestroyerOK(x)'
      BY <1>6 DEF IInv, vars, HandleOK, Handle, DestroyerOK, Linked
    <2>3. \A m \in Master : CreatorOK(m)' /\ MasterOK(m)' /\ ListOK(m)'
      BY <1>6 DEF IInv, vars, CreatorOK, MasterOK, ListOK, Linked, At
    <2>4. \A f \in File : UserOK(f)'
      BY <1>6 DEF IInv, vars, UserOK
    <2>5. \A c \in Clip : ClipOK(c)'
      <3> SUFFICES ASSUME NEW c \in Clip PROVE ClipOK(c)'
        OBVIOUS
      <3>1. /\ Users(c)' = Users(c) /\ Share(c)' = Share(c)
            /\ \A w : SomeAt(c, w)' = SomeAt(c, w)
            /\ \A m : Linked(c, m)' = Linked(c, m)
        BY <1>6 DEF vars, Users, Share, MasterHolds, SomeAt, At, Linked
      <3> QED
        BY <1>6, <3>1 DEF IInv, vars, ClipOK
    <2>6. \A s \in Slot : SlotOK(s)'
      BY <1>6 DEF IInv, vars, SlotOK
    <2> QED
      BY <1>6, <2>1, <2>2, <2>3, <2>4, <2>5, <2>6 DEF IInv, vars
  <1> QED
    BY <1>2, <1>3, <1>4, <1>5, <1>6 DEF Next

\* The clipboards are consistent throughout.
THEOREM Invariance == Spec => []IInv
  BY InitInv, NextInv, PTL DEF Spec

-----------------------------------------------------------------------------
(* The properties.                                                         *)

\* A list without repetitions has as many entries as elements.
LEMMA CountOnce ==
    ASSUME NEW S, NEW s \in Seq(S), \A i, j \in DOMAIN s : s[i] = s[j] => i = j
    PROVE  Cardinality({s[i] : i \in DOMAIN s}) = Len(s)
  <1> DEFINE T == {s[i] : i \in DOMAIN s}
  <1>1. PICK n \in Nat : n = Len(s)
    BY LenProperties
  <1>2. DOMAIN s = 1 .. n /\ s \in [1 .. n -> T]
    BY <1>1, LenProperties
  <1>3. \A t \in T : \E i \in 1 .. n : s[i] = t
    BY <1>2
  <1> HIDE DEF T
  <1>4. s \in Bijection(1 .. n, T)
    BY <1>2, <1>3, Fun_IsBij
  <1>5. ExistsBijection(1 .. n, T)
    BY <1>4, Fun_ExistsBij
  <1>6. IsFiniteSet(1 .. n) /\ Cardinality(1 .. n) = n
    BY FS_Interval
  <1>7. Cardinality(T) = n
    BY <1>5, <1>6, FS_Bijection
  <1> QED
    BY <1>1, <1>7 DEF T

\* The counts of the invariant are those of the property.
LEMMA ImpliesRefs == IInv => RefsExact
  <1> SUFFICES ASSUME IInv PROVE RefsExact
    OBVIOUS
  <1>1. ASSUME NEW c \in Clip PROVE kref[c] \in 0 .. (1 + Cardinality(File))
    <2>1. kref[c] \in Nat /\ kref[c] <= Cardinality(Users(c)) + Share(c) /\ Users(c) \in SUBSET File
      BY DEF IInv, Types, ClipOK, Users
    <2>2. /\ Cardinality(Users(c)) \in Nat /\ Cardinality(Users(c)) <= Cardinality(File)
          /\ Cardinality(File) \in Nat
      BY <2>1, FileSets
    <2>3. Share(c) \in {0, 1}
      BY DEF Share
    <2> QED
      BY <2>1, <2>2, <2>3
  <1>2. TypeOK
    <2>1. kref \in [Clip -> 0 .. (1 + Cardinality(File))]
      BY <1>1 DEF IInv, Types
    <2> QED
      BY <2>1 DEF IInv, Types, TypeOK
  <1>3. ASSUME NEW c \in Clip, mem[c] = "live", c \notin dropped
        PROVE  kref[c] = Cardinality(Users(c)) +
                         (IF master[c] # Null \/ \E m \in Master : cur[m] = c /\ pc[m] = "put" THEN 1 ELSE 0)
    <2>1. kref[c] = Cardinality(Users(c)) + Share(c)
      BY <1>3 DEF IInv, ClipOK
    <2>2. MasterHolds(c) <=> (master[c] # Null \/ \E m \in Master : cur[m] = c /\ pc[m] = "put")
      BY DEF MasterHolds, At
    <2> QED
      BY <2>1, <2>2 DEF Share
  <1>4. ASSUME NEW m \in Master
        PROVE  /\ \A i \in DOMAIN slaves[m] : mem[slaves[m][i]] = "live" /\ master[slaves[m][i]] = m
               /\ Cardinality({slaves[m][i] : i \in DOMAIN slaves[m]}) = Len(slaves[m])
    <2>1. ListOK(m) /\ slaves[m] \in Seq(Clip)
      BY DEF IInv, Types
    <2>2. PICK s : s = slaves[m]
      OBVIOUS
    <2>3. s \in Seq(Clip) /\ \A i, j \in DOMAIN s : s[i] = s[j] => i = j
      BY <2>1, <2>2 DEF ListOK
    <2>4. Cardinality({s[i] : i \in DOMAIN s}) = Len(s)
      BY <2>3, CountOnce
    <2> QED
      BY <2>1, <2>2, <2>4 DEF ListOK
  <1> QED
    BY <1>2, <1>3, <1>4 DEF RefsExact

\* The reference count of a clipboard is what its files and its master hold, whoever else
\* creates, opens, closes or destroys, until IOCDESTROY is used on it; and the list of
\* slaves of a master holds its live clipboards, once each.
THEOREM RefsExactAlways == Spec => []RefsExact
  BY Invariance, ImpliesRefs, PTL

\* A file that is open is a reference, and nobody destroys what has one.
LEMMA ImpliesSurvival == IInv => OpenSurvivesUndropped
  <1> SUFFICES ASSUME IInv PROVE OpenSurvivesUndropped
    OBVIOUS
  <1>1. ASSUME NEW f \in File, NEW c \in Clip, f \in Users(c), c \notin dropped
        PROVE  mem[c] = "live" /\ ptrs[slot[c]] = c
    <2>1. mem[c] = "live"
      BY <1>1 DEF IInv, UserOK, Users
    <2>2. kref[c] # 0
      BY <1>1, <2>1, NoRefs
    <2> QED
      BY <2>1, <2>2, NotDestroyed
  <1>2. oops \in {"none", "open", "lookup", "race"} \/ dropped # {}
    BY DEF IInv
  <1> QED
    BY <1>1, <1>2 DEF OpenSurvivesUndropped

\* A clipboard that is open keeps its memory and its minor, however the steps of the
\* threads interleave, unless IOCDESTROY was used on it or its IOCCREATE failed; and only
\* the lookups without a reference, an ioctl that meets another on the same control
\* device, or such an IOCDESTROY, lead to memory that is gone.
THEOREM OpenSurvives == Spec => []OpenSurvivesUndropped
  BY Invariance, ImpliesSurvival, PTL

\* What is left needs a reference or a thread, and nobody has either.
LEMMA ImpliesNoLeak == IInv => NothingLeaks
  <1> SUFFICES ASSUME IInv, \A x \in Thread : pc[x] = "closed", NEW s \in Slot
               PROVE  ptrs[s] = Null /\ node[s] = Null
    BY DEF NothingLeaks
  <1>1. SlotOK(s) /\ ptrs[s] \in Clip \union {Null}
    BY DEF IInv, Types
  <1>2. \A c, w : SomeAt(c, w) => "closed" \in w
    BY DEF SomeAt, At
  <1>3. ptrs[s] = Null
    <2> SUFFICES ASSUME NEW c \in Clip, ptrs[s] = c, c # Null PROVE FALSE
      BY <1>1
    <2>1. mem[c] \in {"alloc", "live"} /\ ClipOK(c) /\ kref[c] \in Nat /\ master[c] \in Master \union {Null}
      BY <1>1 DEF SlotOK, IInv, Types
    <2>2. ~SomeAt(c, {"c_init"}) /\ ~SomeAt(c, Destroying) /\ ~SomeAt(c, Unlinking)
      BY <1>2 DEF Destroying, Unlinking, Creating
    <2>3. mem[c] = "live" /\ kref[c] > 0
      BY <2>1, <2>2 DEF ClipOK
    <2>4. Users(c) = {}
      BY DEF Users, Thread
    <2>5. Cardinality(Users(c)) = 0
      BY <2>4, FS_EmptySet
    <2>6. kref[c] <= Cardinality(Users(c)) + Share(c) /\ Share(c) \in {0, 1}
      BY <2>1 DEF ClipOK, Share
    <2>7. Share(c) # 0
      BY <2>1, <2>3, <2>5, <2>6
    <2>8. master[c] # Null
      BY <2>7 DEF Share, MasterHolds, At, Thread
    <2>9. master[c] \in Master /\ Linked(c, master[c])
      BY <2>1, <2>2, <2>3, <2>8 DEF ClipOK
    <2>10. slaves[master[c]] = << >>
      BY <2>9 DEF IInv, ListOK, Thread
    <2> QED
      BY <2>9, <2>10 DEF Linked
  <1> QED
    BY <1>1, <1>3 DEF SlotOK

\* When every control device and every clipboard is closed no minor is in use and no
\* device node is left, in whatever order they were created, opened, destroyed and closed.
THEOREM NothingLeaksEver == Spec => []NothingLeaks
  BY Invariance, ImpliesNoLeak, PTL
=============================================================================
