-------------------------- MODULE BringupProofs ---------------------------
(***************************************************************************)
(* Bringing the drivers up and down, with any number of devices.           *)
(*                                                                         *)
(* The argument has two halves.  That every driver's table fits (BuFits)   *)
(* says what its lists must be, and is checked table by table: init makes  *)
(* what is used before its users, each chain of labels releases what was   *)
(* made before the step it belongs to, and the cleanup releases the rest,  *)
(* in an order in which there always is what is used.  That the loops over *)
(* the devices keep the invariant BuInv needs no table, only that it fits: *)
(* BuInv says what there is of the devices before the one the loop is at,  *)
(* of that one, and of those after it.                                     *)
(***************************************************************************)
EXTENDS Bringup, ListProofs, TLAPS

-----------------------------------------------------------------------------
(* What a table must be.                                                   *)

\* What a loop has been through when it comes to its k-th.
BuFirst(s, k) == {s[j] : j \in 1 .. k - 1}

\* Whoever there is has what it uses, but for the gaps.
BuClosed(row, gaps, S) ==
    \A p \in row.needs : p[1] \in S => p[2] \in S \/ p[1] \in gaps

\* A loop that releases all of S but what may stay, nothing twice, and in an order in
\* which there always is what is used; it may release some resources that are absent.
BuReleases(row, gaps, todo, S, stay, absent) ==
    /\ \A k \in 1 .. Len(todo) :
          /\ BuClosed(row, gaps, S \ BuFirst(todo, k))
          /\ todo[k] \in (S \ BuFirst(todo, k)) \union absent
    /\ BuClosed(row, gaps, S \ ToSet(todo)) /\ S \ ToSet(todo) \subseteq stay

\* What a table must be: the lists name the driver's resources, ...
BuOf(row) == ToSet(row.once) \union ToSet(row.each) \union ToSet(row.final)
BuLists(row, gaps) ==
    /\ {row.once, row.each, row.final, row.cleanup, row.down} \subseteq Seq(BuOf(row))
    /\ "none" \notin BuOf(row) \union row.lies
    /\ ToSet(row.final) \subseteq row.sure
    /\ \A p \in row.needs : p[1] \in row.leaks => p[1] \in gaps

\* ... init makes first what is used, ...
BuMakes(row, gaps) ==
    /\ \A k \in 1 .. Len(row.once) : BuClosed(row, gaps, BuFirst(row.once, k))
    /\ \A k \in 1 .. Len(row.each) : BuClosed(row, gaps, BuFirst(row.each, k))
    /\ \A k \in 1 .. Len(row.final) :
          BuClosed(row, gaps, ToSet(row.each) \union BuFirst(row.final, k))
    /\ BuClosed(row, gaps, ToSet(row.once)) /\ BuClosed(row, gaps, ToSet(row.each))
    /\ BuClosed(row, gaps, ToSet(row.each) \union ToSet(row.final))

\* ... a step that fails releases what was made before it, ...
BuUndo(row, gaps, made, k, stay) ==
    made[k] \notin row.sure =>
        /\ row.undo[made[k]] \in Seq(BuOf(row))
        /\ BuReleases(row, gaps, row.undo[made[k]], BuFirst(made, k), stay, {})
BuUndoes(row, gaps) ==
    /\ \A k \in 1 .. Len(row.once) : BuUndo(row, gaps, row.once, k, {})
    /\ \A k \in 1 .. Len(row.each) : BuUndo(row, gaps, row.each, k, row.leaks)

\* ... and the cleanup all of it, of a device that came up and of one that did not yet.
BuCleans(row, gaps, absent) ==
    /\ BuReleases(row, gaps, row.cleanup, ToSet(row.each), row.leaks, absent)
    /\ BuReleases(row, gaps, row.cleanup, ToSet(row.each) \union ToSet(row.final), row.leaks, {})
    /\ BuReleases(row, gaps, row.down, ToSet(row.once), {}, {})

BuGapsOf(drv) == {r \in {"dev", "dev0", "dev1", "padd"} : <<drv, r>> \in BuGaps}
BuAbsent(drv) == IF drv = "virtblock" THEN {"added"} ELSE {}

BuFits(drv, row) ==
    /\ BuLists(row, BuGapsOf(drv)) /\ BuMakes(row, BuGapsOf(drv))
    /\ BuUndoes(row, BuGapsOf(drv)) /\ BuCleans(row, BuGapsOf(drv), BuAbsent(drv))

\* There is nothing to release when all may stay.
LEMMA BuReleasesNone ==
    ASSUME NEW row, NEW gaps, NEW S, NEW stay, BuClosed(row, gaps, S), S \subseteq stay
    PROVE  BuReleases(row, gaps, << >>, S, stay, {})
  BY DEF BuReleases, BuClosed, BuFirst, ToSet

-----------------------------------------------------------------------------
(* The tables fit.                                                         *)

\* One lemma per driver; what each chain of labels releases is a step of its own.
LEMMA BuVirtblockFits ==
    ASSUME NEW row, row = VirtblockTable
    PROVE  BuFits("virtblock", row)
  <1>1. PICK gaps, absent : gaps = BuGapsOf("virtblock") /\ absent = BuAbsent("virtblock")
    OBVIOUS
  <1>2. gaps = {} /\ absent = {"added"}
    BY <1>1 DEF BuGapsOf, BuGaps, BuAbsent
  <1>3. BuLists(row, gaps)
    BY <1>2 DEF BuLists, BuOf, ToSet, VirtblockTable
  <1>4. BuMakes(row, gaps)
    BY <1>2 DEF BuMakes, BuClosed, BuFirst, ToSet, VirtblockTable
  <1>5. BuCleans(row, gaps, absent)
    BY <1>2 DEF BuCleans, BuReleases, BuClosed, BuFirst, ToSet, VirtblockTable
  <1>6. BuUndo(row, gaps, row.once, 1, {})
    <2>1. PICK u : u = << >>
      OBVIOUS
    <2>2. row.undo[row.once[1]] = u
      BY <2>1 DEF VirtblockTable
    <2>3. u \in Seq(BuOf(row))
      BY <2>1 DEF BuOf, ToSet, VirtblockTable
    <2>4. BuReleases(row, gaps, u, BuFirst(row.once, 1), {}, {})
      BY <1>2, <2>1, BuReleasesNone DEF BuReleases, BuClosed, BuFirst, ToSet, VirtblockTable
    <2> QED
      BY <2>2, <2>3, <2>4 DEF BuUndo
  <1>7. BuUndo(row, gaps, row.once, 2, {})
    <2>1. PICK u : u = <<"mem">>
      OBVIOUS
    <2>2. row.undo[row.once[2]] = u
      BY <2>1 DEF VirtblockTable
    <2>3. u \in Seq(BuOf(row))
      BY <2>1 DEF BuOf, ToSet, VirtblockTable
    <2>4. BuReleases(row, gaps, u, BuFirst(row.once, 2), {}, {})
      BY <1>2, <2>1 DEF BuReleases, BuClosed, BuFirst, ToSet, VirtblockTable
    <2> QED
      BY <2>2, <2>3, <2>4 DEF BuUndo
  <1>8. \A k \in 1 .. Len(row.once) : k = 1 \/ k = 2
    BY DEF VirtblockTable
  <1>9. \A k \in 1 .. Len(row.once) : BuUndo(row, gaps, row.once, k, {})
    BY <1>6, <1>7, <1>8
  <1>10. BuUndo(row, gaps, row.each, 1, row.leaks)
    <2>1. PICK u : u = << >>
      OBVIOUS
    <2>2. row.undo[row.each[1]] = u
      BY <2>1 DEF VirtblockTable
    <2>3. u \in Seq(BuOf(row))
      BY <2>1 DEF BuOf, ToSet, VirtblockTable
    <2>4. BuReleases(row, gaps, u, BuFirst(row.each, 1), row.leaks, {})
      BY <1>2, <2>1, BuReleasesNone DEF BuReleases, BuClosed, BuFirst, ToSet, VirtblockTable
    <2> QED
      BY <2>2, <2>3, <2>4 DEF BuUndo
  <1>11. BuUndo(row, gaps, row.each, 2, row.leaks)
    <2>1. PICK u : u = <<"data">>
      OBVIOUS
    <2>2. row.undo[row.each[2]] = u
      BY <2>1 DEF VirtblockTable
    <2>3. u \in Seq(BuOf(row))
      BY <2>1 DEF BuOf, ToSet, VirtblockTable
    <2>4. BuReleases(row, gaps, u, BuFirst(row.each, 2), row.leaks, {})
      BY <1>2, <2>1 DEF BuReleases, BuClosed, BuFirst, ToSet, VirtblockTable
    <2> QED
      BY <2>2, <2>3, <2>4 DEF BuUndo
  <1>12. BuUndo(row, gaps, row.each, 3, row.leaks)
    <2>1. PICK u : u = <<"queue", "data">>
      OBVIOUS
    <2>2. row.undo[row.each[3]] = u
      BY <2>1 DEF VirtblockTable
    <2>3. u \in Seq(BuOf(row))
      BY <2>1 DEF BuOf, ToSet, VirtblockTable
    <2>4. BuReleases(row, gaps, u, BuFirst(row.each, 3), row.leaks, {})
      BY <1>2, <2>1 DEF BuReleases, BuClosed, BuFirst, ToSet, VirtblockTable
    <2> QED
      BY <2>2, <2>3, <2>4 DEF BuUndo
  <1>13. \A k \in 1 .. Len(row.each) : k = 1 \/ k = 2 \/ k = 3
    BY DEF VirtblockTable
  <1>14. \A k \in 1 .. Len(row.each) : BuUndo(row, gaps, row.each, k, row.leaks)
    BY <1>10, <1>11, <1>12, <1>13
  <1> QED
    BY <1>1, <1>3, <1>4, <1>5, <1>9, <1>14 DEF BuFits, BuUndoes

LEMMA BuRtcFits ==
    ASSUME NEW row, row = RtcTable
    PROVE  BuFits("rtc", row)
  <1>1. PICK gaps, absent : gaps = BuGapsOf("rtc") /\ absent = BuAbsent("rtc")
    OBVIOUS
  <1>2. gaps = {} /\ absent = {}
    BY <1>1 DEF BuGapsOf, BuGaps, BuAbsent
  <1>3. BuLists(row, gaps)
    BY <1>2 DEF BuLists, BuOf, ToSet, RtcTable
  <1>4. BuMakes(row, gaps)
    BY <1>2 DEF BuMakes, BuClosed, BuFirst, ToSet, RtcTable
  <1>5. BuCleans(row, gaps, absent)
    BY <1>2 DEF BuCleans, BuReleases, BuClosed, BuFirst, ToSet, RtcTable
  <1>6. BuUndo(row, gaps, row.once, 1, {})
    <2>1. PICK u : u = << >>
      OBVIOUS
    <2>2. row.undo[row.once[1]] = u
      BY <2>1 DEF RtcTable
    <2>3. u \in Seq(BuOf(row))
      BY <2>1 DEF BuOf, ToSet, RtcTable
    <2>4. BuReleases(row, gaps, u, BuFirst(row.once, 1), {}, {})
      BY <1>2, <2>1, BuReleasesNone DEF BuReleases, BuClosed, BuFirst, ToSet, RtcTable
    <2> QED
      BY <2>2, <2>3, <2>4 DEF BuUndo
  <1>7. BuUndo(row, gaps, row.once, 2, {})
    <2>1. PICK u : u = <<"mem">>
      OBVIOUS
    <2>2. row.undo[row.once[2]] = u
      BY <2>1 DEF RtcTable
    <2>3. u \in Seq(BuOf(row))
      BY <2>1 DEF BuOf, ToSet, RtcTable
    <2>4. BuReleases(row, gaps, u, BuFirst(row.once, 2), {}, {})
      BY <1>2, <2>1 DEF BuReleases, BuClosed, BuFirst, ToSet, RtcTable
    <2> QED
      BY <2>2, <2>3, <2>4 DEF BuUndo
  <1>8. \A k \in 1 .. Len(row.once) : k = 1 \/ k = 2
    BY DEF RtcTable
  <1>9. \A k \in 1 .. Len(row.once) : BuUndo(row, gaps, row.once, k, {})
    BY <1>6, <1>7, <1>8
  <1>10. BuUndo(row, gaps, row.each, 1, row.leaks)
    <2>1. PICK u : u = << >>
      OBVIOUS
    <2>2. row.undo[row.each[1]] = u
      BY <2>1 DEF RtcTable
    <2>3. u \in Seq(BuOf(row))
      BY <2>1 DEF BuOf, ToSet, RtcTable
    <2>4. BuReleases(row, gaps, u, BuFirst(row.each, 1), row.leaks, {})
      BY <1>2, <2>1, BuReleasesNone DEF BuReleases, BuClosed, BuFirst, ToSet, RtcTable
    <2> QED
      BY <2>2, <2>3, <2>4 DEF BuUndo
  <1>11. BuUndo(row, gaps, row.each, 2, row.leaks)
    <2>1. PICK u : u = <<"dev">>
      OBVIOUS
    <2>2. row.undo[row.each[2]] = u
      BY <2>1 DEF RtcTable
    <2>3. u \in Seq(BuOf(row))
      BY <2>1 DEF BuOf, ToSet, RtcTable
    <2>4. BuReleases(row, gaps, u, BuFirst(row.each, 2), row.leaks, {})
      BY <1>2, <2>1 DEF BuReleases, BuClosed, BuFirst, ToSet, RtcTable
    <2> QED
      BY <2>2, <2>3, <2>4 DEF BuUndo
  <1>12. \A k \in 1 .. Len(row.each) : k = 1 \/ k = 2
    BY DEF RtcTable
  <1>13. \A k \in 1 .. Len(row.each) : BuUndo(row, gaps, row.each, k, row.leaks)
    BY <1>10, <1>11, <1>12
  <1> QED
    BY <1>1, <1>3, <1>4, <1>5, <1>9, <1>13 DEF BuFits, BuUndoes

LEMMA BuFirmreqFits ==
    ASSUME NEW row, row = FirmreqTable
    PROVE  BuFits("firmreq", row)
  <1>1. PICK gaps, absent : gaps = BuGapsOf("firmreq") /\ absent = BuAbsent("firmreq")
    OBVIOUS
  <1>2. gaps = {"dev"} /\ absent = {}
    BY <1>1 DEF BuGapsOf, BuGaps, BuAbsent
  <1>3. BuLists(row, gaps)
    BY <1>2 DEF BuLists, BuOf, ToSet, FirmreqTable
  <1>4. BuMakes(row, gaps)
    BY <1>2 DEF BuMakes, BuClosed, BuFirst, ToSet, FirmreqTable
  <1>5. BuCleans(row, gaps, absent)
    BY <1>2 DEF BuCleans, BuReleases, BuClosed, BuFirst, ToSet, FirmreqTable
  <1>6. BuUndo(row, gaps, row.once, 1, {})
    <2>1. PICK u : u = << >>
      OBVIOUS
    <2>2. row.undo[row.once[1]] = u
      BY <2>1 DEF FirmreqTable
    <2>3. u \in Seq(BuOf(row))
      BY <2>1 DEF BuOf, ToSet, FirmreqTable
    <2>4. BuReleases(row, gaps, u, BuFirst(row.once, 1), {}, {})
      BY <1>2, <2>1, BuReleasesNone DEF BuReleases, BuClosed, BuFirst, ToSet, FirmreqTable
    <2> QED
      BY <2>2, <2>3, <2>4 DEF BuUndo
  <1>7. BuUndo(row, gaps, row.once, 2, {})
    <2>1. PICK u : u = <<"mem">>
      OBVIOUS
    <2>2. row.undo[row.once[2]] = u
      BY <2>1 DEF FirmreqTable
    <2>3. u \in Seq(BuOf(row))
      BY <2>1 DEF BuOf, ToSet, FirmreqTable
    <2>4. BuReleases(row, gaps, u, BuFirst(row.once, 2), {}, {})
      BY <1>2, <2>1 DEF BuReleases, BuClosed, BuFirst, ToSet, FirmreqTable
    <2> QED
      BY <2>2, <2>3, <2>4 DEF BuUndo
  <1>8. \A k \in 1 .. Len(row.once) : k = 1 \/ k = 2
    BY DEF FirmreqTable
  <1>9. \A k \in 1 .. Len(row.once) : BuUndo(row, gaps, row.once, k, {})
    BY <1>6, <1>7, <1>8
  <1>10. BuUndo(row, gaps, row.each, 1, row.leaks)
    <2>1. PICK u : u = << >>
      OBVIOUS
    <2>2. row.undo[row.each[1]] = u
      BY <2>1 DEF FirmreqTable
    <2>3. u \in Seq(BuOf(row))
      BY <2>1 DEF BuOf, ToSet, FirmreqTable
    <2>4. BuReleases(row, gaps, u, BuFirst(row.each, 1), row.leaks, {})
      BY <1>2, <2>1, BuReleasesNone DEF BuReleases, BuClosed, BuFirst, ToSet, FirmreqTable
    <2> QED
      BY <2>2, <2>3, <2>4 DEF BuUndo
  <1>11. BuUndo(row, gaps, row.each, 2, row.leaks)
    <2>1. PICK u : u = <<"dev">>
      OBVIOUS
    <2>2. row.undo[row.each[2]] = u
      BY <2>1 DEF FirmreqTable
    <2>3. u \in Seq(BuOf(row))
      BY <2>1 DEF BuOf, ToSet, FirmreqTable
    <2>4. BuReleases(row, gaps, u, BuFirst(row.each, 2), row.leaks, {})
      BY <1>2, <2>1 DEF BuReleases, BuClosed, BuFirst, ToSet, FirmreqTable
    <2> QED
      BY <2>2, <2>3, <2>4 DEF BuUndo
  <1>12. \A k \in 1 .. Len(row.each) : k = 1 \/ k = 2
    BY DEF FirmreqTable
  <1>13. \A k \in 1 .. Len(row.each) : BuUndo(row, gaps, row.each, k, row.leaks)
    BY <1>10, <1>11, <1>12
  <1> QED
    BY <1>1, <1>3, <1>4, <1>5, <1>9, <1>13 DEF BuFits, BuUndoes

LEMMA BuSimpleattrFits ==
    ASSUME NEW row, row = SimpleattrTable
    PROVE  BuFits("simpleattr", row)
  <1>1. PICK gaps, absent : gaps = BuGapsOf("simpleattr") /\ absent = BuAbsent("simpleattr")
    OBVIOUS
  <1>2. gaps = {} /\ absent = {}
    BY <1>1 DEF BuGapsOf, BuGaps, BuAbsent
  <1>3. BuLists(row, gaps)
    BY <1>2 DEF BuLists, BuOf, ToSet, SimpleattrTable
  <1>4. BuMakes(row, gaps)
    BY <1>2 DEF BuMakes, BuClosed, BuFirst, ToSet, SimpleattrTable
  <1>5. BuCleans(row, gaps, absent)
    BY <1>2 DEF BuCleans, BuReleases, BuClosed, BuFirst, ToSet, SimpleattrTable
  <1>6. BuUndo(row, gaps, row.once, 1, {})
    <2>1. PICK u : u = << >>
      OBVIOUS
    <2>2. row.undo[row.once[1]] = u
      BY <2>1 DEF SimpleattrTable
    <2>3. u \in Seq(BuOf(row))
      BY <2>1 DEF BuOf, ToSet, SimpleattrTable
    <2>4. BuReleases(row, gaps, u, BuFirst(row.once, 1), {}, {})
      BY <1>2, <2>1, BuReleasesNone DEF BuReleases, BuClosed, BuFirst, ToSet, SimpleattrTable
    <2> QED
      BY <2>2, <2>3, <2>4 DEF BuUndo
  <1>7. BuUndo(row, gaps, row.once, 2, {})
    <2>1. PICK u : u = <<"mem">>
      OBVIOUS
    <2>2. row.undo[row.once[2]] = u
      BY <2>1 DEF SimpleattrTable
    <2>3. u \in Seq(BuOf(row))
      BY <2>1 DEF BuOf, ToSet, SimpleattrTable
    <2>4. BuReleases(row, gaps, u, BuFirst(row.once, 2), {}, {})
      BY <1>2, <2>1 DEF BuReleases, BuClosed, BuFirst, ToSet, SimpleattrTable
    <2> QED
      BY <2>2, <2>3, <2>4 DEF BuUndo
  <1>8. \A k \in 1 .. Len(row.once) : k = 1 \/ k = 2
    BY DEF SimpleattrTable
  <1>9. \A k \in 1 .. Len(row.once) : BuUndo(row, gaps, row.once, k, {})
    BY <1>6, <1>7, <1>8
  <1>10. BuUndo(row, gaps, row.each, 1, row.leaks)
    <2>1. PICK u : u = << >>
      OBVIOUS
    <2>2. row.undo[row.each[1]] = u
      BY <2>1 DEF SimpleattrTable
    <2>3. u \in Seq(BuOf(row))
      BY <2>1 DEF BuOf, ToSet, SimpleattrTable
    <2>4. BuReleases(row, gaps, u, BuFirst(row.each, 1), row.leaks, {})
      BY <1>2, <2>1, BuReleasesNone DEF BuReleases, BuClosed, BuFirst, ToSet, SimpleattrTable
    <2> QED
      BY <2>2, <2>3, <2>4 DEF BuUndo
  <1>11. BuUndo(row, gaps, row.each, 2, row.leaks)
    <2>1. PICK u : u = <<"dev">>
      OBVIOUS
    <2>2. row.undo[row.each[2]] = u
      BY <2>1 DEF SimpleattrTable
    <2>3. u \in Seq(BuOf(row))
      BY <2>1 DEF BuOf, ToSet, SimpleattrTable
    <2>4. BuReleases(row, gaps, u, BuFirst(row.each, 2), row.leaks, {})
      BY <1>2, <2>1 DEF BuReleases, BuClosed, BuFirst, ToSet, SimpleattrTable
    <2> QED
      BY <2>2, <2>3, <2>4 DEF BuUndo
  <1>12. \A k \in 1 .. Len(row.each) : k = 1 \/ k = 2
    BY DEF SimpleattrTable
  <1>13. \A k \in 1 .. Len(row.each) : BuUndo(row, gaps, row.each, k, row.leaks)
    BY <1>10, <1>11, <1>12
  <1> QED
    BY <1>1, <1>3, <1>4, <1>5, <1>9, <1>13 DEF BuFits, BuUndoes

LEMMA BuSimplatFits ==
    ASSUME NEW row, row = SimplatTable
    PROVE  BuFits("simplat", row)
  <1>1. PICK gaps, absent : gaps = BuGapsOf("simplat") /\ absent = BuAbsent("simplat")
    OBVIOUS
  <1>2. gaps = {} /\ absent = {}
    BY <1>1 DEF BuGapsOf, BuGaps, BuAbsent
  <1>3. BuLists(row, gaps)
    BY <1>2 DEF BuLists, BuOf, ToSet, SimplatTable
  <1>4. BuMakes(row, gaps)
    BY <1>2 DEF BuMakes, BuClosed, BuFirst, ToSet, SimplatTable
  <1>5. BuCleans(row, gaps, absent)
    BY <1>2 DEF BuCleans, BuReleases, BuClosed, BuFirst, ToSet, SimplatTable
  <1>6. BuUndo(row, gaps, row.once, 1, {})
    <2>1. PICK u : u = << >>
      OBVIOUS
    <2>2. row.undo[row.once[1]] = u
      BY <2>1 DEF SimplatTable
    <2>3. u \in Seq(BuOf(row))
      BY <2>1 DEF BuOf, ToSet, SimplatTable
    <2>4. BuReleases(row, gaps, u, BuFirst(row.once, 1), {}, {})
      BY <1>2, <2>1, BuReleasesNone DEF BuReleases, BuClosed, BuFirst, ToSet, SimplatTable
    <2> QED
      BY <2>2, <2>3, <2>4 DEF BuUndo
  <1>7. \A k \in 1 .. Len(row.once) : k = 1
    BY DEF SimplatTable
  <1>8. \A k \in 1 .. Len(row.once) : BuUndo(row, gaps, row.once, k, {})
    BY <1>6, <1>7
  <1>9. BuUndo(row, gaps, row.each, 1, row.leaks)
    <2>1. PICK u : u = << >>
      OBVIOUS
    <2>2. row.undo[row.each[1]] = u
      BY <2>1 DEF SimplatTable
    <2>3. u \in Seq(BuOf(row))
      BY <2>1 DEF BuOf, ToSet, SimplatTable
    <2>4. BuReleases(row, gaps, u, BuFirst(row.each, 1), row.leaks, {})
      BY <1>2, <2>1, BuReleasesNone DEF BuReleases, BuClosed, BuFirst, ToSet, SimplatTable
    <2> QED
      BY <2>2, <2>3, <2>4 DEF BuUndo
  <1>10. BuUndo(row, gaps, row.each, 2, row.leaks)
    <2>1. PICK u : u = <<"alloc">>
      OBVIOUS
    <2>2. row.undo[row.each[2]] = u
      BY <2>1 DEF SimplatTable
    <2>3. u \in Seq(BuOf(row))
      BY <2>1 DEF BuOf, ToSet, SimplatTable
    <2>4. BuReleases(row, gaps, u, BuFirst(row.each, 2), row.leaks, {})
      BY <1>2, <2>1 DEF BuReleases, BuClosed, BuFirst, ToSet, SimplatTable
    <2> QED
      BY <2>2, <2>3, <2>4 DEF BuUndo
  <1>11. \A k \in 1 .. Len(row.each) : k = 1 \/ k = 2
    BY DEF SimplatTable
  <1>12. \A k \in 1 .. Len(row.each) : BuUndo(row, gaps, row.each, k, row.leaks)
    BY <1>9, <1>10, <1>11
  <1> QED
    BY <1>1, <1>3, <1>4, <1>5, <1>8, <1>12 DEF BuFits, BuUndoes

LEMMA BuGpioFits ==
    ASSUME NEW row, row = GpioTable
    PROVE  BuFits("gpio", row)
  <1>1. PICK gaps, absent : gaps = BuGapsOf("gpio") /\ absent = BuAbsent("gpio")
    OBVIOUS
  <1>2. gaps = {} /\ absent = {}
    BY <1>1 DEF BuGapsOf, BuGaps, BuAbsent
  <1>3. BuLists(row, gaps)
    BY <1>2 DEF BuLists, BuOf, ToSet, GpioTable
  <1>4. BuMakes(row, gaps)
    BY <1>2 DEF BuMakes, BuClosed, BuFirst, ToSet, GpioTable
  <1>5. BuCleans(row, gaps, absent)
    BY <1>2 DEF BuCleans, BuReleases, BuClosed, BuFirst, ToSet, GpioTable
  <1>6. BuUndo(row, gaps, row.once, 1, {})
    <2>1. PICK u : u = << >>
      OBVIOUS
    <2>2. row.undo[row.once[1]] = u
      BY <2>1 DEF GpioTable
    <2>3. u \in Seq(BuOf(row))
      BY <2>1 DEF BuOf, ToSet, GpioTable
    <2>4. BuReleases(row, gaps, u, BuFirst(row.once, 1), {}, {})
      BY <1>2, <2>1, BuReleasesNone DEF BuReleases, BuClosed, BuFirst, ToSet, GpioTable
    <2> QED
      BY <2>2, <2>3, <2>4 DEF BuUndo
  <1>7. BuUndo(row, gaps, row.once, 2, {})
    <2>1. PICK u : u = <<"mem">>
      OBVIOUS
    <2>2. row.undo[row.once[2]] = u
      BY <2>1 DEF GpioTable
    <2>3. u \in Seq(BuOf(row))
      BY <2>1 DEF BuOf, ToSet, GpioTable
    <2>4. BuReleases(row, gaps, u, BuFirst(row.once, 2), {}, {})
      BY <1>2, <2>1 DEF BuReleases, BuClosed, BuFirst, ToSet, GpioTable
    <2> QED
      BY <2>2, <2>3, <2>4 DEF BuUndo
  <1>8. \A k \in 1 .. Len(row.once) : k = 1 \/ k = 2
    BY DEF GpioTable
  <1>9. \A k \in 1 .. Len(row.once) : BuUndo(row, gaps, row.once, k, {})
    BY <1>6, <1>7, <1>8
  <1>10. BuUndo(row, gaps, row.each, 1, row.leaks)
    <2>1. PICK u : u = << >>
      OBVIOUS
    <2>2. row.undo[row.each[1]] = u
      BY <2>1 DEF GpioTable
    <2>3. u \in Seq(BuOf(row))
      BY <2>1 DEF BuOf, ToSet, GpioTable
    <2>4. BuReleases(row, gaps, u, BuFirst(row.each, 1), row.leaks, {})
      BY <1>2, <2>1, BuReleasesNone DEF BuReleases, BuClosed, BuFirst, ToSet, GpioTable
    <2> QED
      BY <2>2, <2>3, <2>4 DEF BuUndo
  <1>11. BuUndo(row, gaps, row.each, 2, row.leaks)
    <2>1. PICK u : u = <<"regs">>
      OBVIOUS
    <2>2. row.undo[row.each[2]] = u
      BY <2>1 DEF GpioTable
    <2>3. u \in Seq(BuOf(row))
      BY <2>1 DEF BuOf, ToSet, GpioTable
    <2>4. BuReleases(row, gaps, u, BuFirst(row.each, 2), row.leaks, {})
      BY <1>2, <2>1 DEF BuReleases, BuClosed, BuFirst, ToSet, GpioTable
    <2> QED
      BY <2>2, <2>3, <2>4 DEF BuUndo
  <1>12. BuUndo(row, gaps, row.each, 3, row.leaks)
    <2>1. PICK u : u = <<"dev", "regs">>
      OBVIOUS
    <2>2. row.undo[row.each[3]] = u
      BY <2>1 DEF GpioTable
    <2>3. u \in Seq(BuOf(row))
      BY <2>1 DEF BuOf, ToSet, GpioTable
    <2>4. BuReleases(row, gaps, u, BuFirst(row.each, 3), row.leaks, {})
      BY <1>2, <2>1 DEF BuReleases, BuClosed, BuFirst, ToSet, GpioTable
    <2> QED
      BY <2>2, <2>3, <2>4 DEF BuUndo
  <1>13. \A k \in 1 .. Len(row.each) : k = 1 \/ k = 2 \/ k = 3
    BY DEF GpioTable
  <1>14. \A k \in 1 .. Len(row.each) : BuUndo(row, gaps, row.each, k, row.leaks)
    BY <1>10, <1>11, <1>12, <1>13
  <1> QED
    BY <1>1, <1>3, <1>4, <1>5, <1>9, <1>14 DEF BuFits, BuUndoes

LEMMA BuEchoserialFits ==
    ASSUME NEW row, row = EchoserialTable
    PROVE  BuFits("echoserial", row)
  <1>1. PICK gaps, absent : gaps = BuGapsOf("echoserial") /\ absent = BuAbsent("echoserial")
    OBVIOUS
  <1>2. gaps = {} /\ absent = {}
    BY <1>1 DEF BuGapsOf, BuGaps, BuAbsent
  <1>3. BuLists(row, gaps)
    BY <1>2 DEF BuLists, BuOf, ToSet, EchoserialTable
  <1>4. BuMakes(row, gaps)
    BY <1>2 DEF BuMakes, BuClosed, BuFirst, ToSet, EchoserialTable
  <1>5. BuCleans(row, gaps, absent)
    BY <1>2 DEF BuCleans, BuReleases, BuClosed, BuFirst, ToSet, EchoserialTable
  <1>6. BuUndo(row, gaps, row.once, 1, {})
    <2>1. PICK u : u = << >>
      OBVIOUS
    <2>2. row.undo[row.once[1]] = u
      BY <2>1 DEF EchoserialTable
    <2>3. u \in Seq(BuOf(row))
      BY <2>1 DEF BuOf, ToSet, EchoserialTable
    <2>4. BuReleases(row, gaps, u, BuFirst(row.once, 1), {}, {})
      BY <1>2, <2>1, BuReleasesNone DEF BuReleases, BuClosed, BuFirst, ToSet, EchoserialTable
    <2> QED
      BY <2>2, <2>3, <2>4 DEF BuUndo
  <1>7. BuUndo(row, gaps, row.once, 2, {})
    <2>1. PICK u : u = <<"mem">>
      OBVIOUS
    <2>2. row.undo[row.once[2]] = u
      BY <2>1 DEF EchoserialTable
    <2>3. u \in Seq(BuOf(row))
      BY <2>1 DEF BuOf, ToSet, EchoserialTable
    <2>4. BuReleases(row, gaps, u, BuFirst(row.once, 2), {}, {})
      BY <1>2, <2>1 DEF BuReleases, BuClosed, BuFirst, ToSet, EchoserialTable
    <2> QED
      BY <2>2, <2>3, <2>4 DEF BuUndo
  <1>8. \A k \in 1 .. Len(row.once) : k = 1 \/ k = 2
    BY DEF EchoserialTable
  <1>9. \A k \in 1 .. Len(row.once) : BuUndo(row, gaps, row.once, k, {})
    BY <1>6, <1>7, <1>8
  <1>10. BuUndo(row, gaps, row.each, 1, row.leaks)
    <2>1. PICK u : u = << >>
      OBVIOUS
    <2>2. row.undo[row.each[1]] = u
      BY <2>1 DEF EchoserialTable
    <2>3. u \in Seq(BuOf(row))
      BY <2>1 DEF BuOf, ToSet, EchoserialTable
    <2>4. BuReleases(row, gaps, u, BuFirst(row.each, 1), row.leaks, {})
      BY <1>2, <2>1, BuReleasesNone DEF BuReleases, BuClosed, BuFirst, ToSet, EchoserialTable
    <2> QED
      BY <2>2, <2>3, <2>4 DEF BuUndo
  <1>11. BuUndo(row, gaps, row.each, 2, row.leaks)
    <2>1. PICK u : u = <<"fifo">>
      OBVIOUS
    <2>2. row.undo[row.each[2]] = u
      BY <2>1 DEF EchoserialTable
    <2>3. u \in Seq(BuOf(row))
      BY <2>1 DEF BuOf, ToSet, EchoserialTable
    <2>4. BuReleases(row, gaps, u, BuFirst(row.each, 2), row.leaks, {})
      BY <1>2, <2>1 DEF BuReleases, BuClosed, BuFirst, ToSet, EchoserialTable
    <2> QED
      BY <2>2, <2>3, <2>4 DEF BuUndo
  <1>12. \A k \in 1 .. Len(row.each) : k = 1 \/ k = 2
    BY DEF EchoserialTable
  <1>13. \A k \in 1 .. Len(row.each) : BuUndo(row, gaps, row.each, k, row.leaks)
    BY <1>10, <1>11, <1>12
  <1> QED
    BY <1>1, <1>3, <1>4, <1>5, <1>9, <1>13 DEF BuFits, BuUndoes

LEMMA BuBufhubFits ==
    ASSUME NEW row, row = BufhubTable
    PROVE  BuFits("bufhub", row)
  <1>1. PICK gaps, absent : gaps = BuGapsOf("bufhub") /\ absent = BuAbsent("bufhub")
    OBVIOUS
  <1>2. gaps = {} /\ absent = {}
    BY <1>1 DEF BuGapsOf, BuGaps, BuAbsent
  <1>3. BuLists(row, gaps)
    BY <1>2 DEF BuLists, BuOf, ToSet, BufhubTable
  <1>4. BuMakes(row, gaps)
    BY <1>2 DEF BuMakes, BuClosed, BuFirst, ToSet, BufhubTable
  <1>5. BuCleans(row, gaps, absent)
    BY <1>2 DEF BuCleans, BuReleases, BuClosed, BuFirst, ToSet, BufhubTable
  <1>6. BuUndo(row, gaps, row.once, 1, {})
    <2>1. PICK u : u = << >>
      OBVIOUS
    <2>2. row.undo[row.once[1]] = u
      BY <2>1 DEF BufhubTable
    <2>3. u \in Seq(BuOf(row))
      BY <2>1 DEF BuOf, ToSet, BufhubTable
    <2>4. BuReleases(row, gaps, u, BuFirst(row.once, 1), {}, {})
      BY <1>2, <2>1, BuReleasesNone DEF BuReleases, BuClosed, BuFirst, ToSet, BufhubTable
    <2> QED
      BY <2>2, <2>3, <2>4 DEF BuUndo
  <1>7. BuUndo(row, gaps, row.once, 2, {})
    <2>1. PICK u : u = <<"mem">>
      OBVIOUS
    <2>2. row.undo[row.once[2]] = u
      BY <2>1 DEF BufhubTable
    <2>3. u \in Seq(BuOf(row))
      BY <2>1 DEF BuOf, ToSet, BufhubTable
    <2>4. BuReleases(row, gaps, u, BuFirst(row.once, 2), {}, {})
      BY <1>2, <2>1 DEF BuReleases, BuClosed, BuFirst, ToSet, BufhubTable
    <2> QED
      BY <2>2, <2>3, <2>4 DEF BuUndo
  <1>8. BuUndo(row, gaps, row.once, 3, {})
    <2>1. PICK u : u = <<"chrdev", "mem">>
      OBVIOUS
    <2>2. row.undo[row.once[3]] = u
      BY <2>1 DEF BufhubTable
    <2>3. u \in Seq(BuOf(row))
      BY <2>1 DEF BuOf, ToSet, BufhubTable
    <2>4. BuReleases(row, gaps, u, BuFirst(row.once, 3), {}, {})
      BY <1>2, <2>1 DEF BuReleases, BuClosed, BuFirst, ToSet, BufhubTable
    <2> QED
      BY <2>2, <2>3, <2>4 DEF BuUndo
  <1>9. BuUndo(row, gaps, row.once, 4, {})
    <2>1. PICK u : u = <<"class", "chrdev", "mem">>
      OBVIOUS
    <2>2. row.undo[row.once[4]] = u
      BY <2>1 DEF BufhubTable
    <2>3. u \in Seq(BuOf(row))
      BY <2>1 DEF BuOf, ToSet, BufhubTable
    <2>4. BuReleases(row, gaps, u, BuFirst(row.once, 4), {}, {})
      BY <1>2, <2>1 DEF BuReleases, BuClosed, BuFirst, ToSet, BufhubTable
    <2> QED
      BY <2>2, <2>3, <2>4 DEF BuUndo
  <1>10. \A k \in 1 .. Len(row.once) : k = 1 \/ k = 2 \/ k = 3 \/ k = 4
    BY DEF BufhubTable
  <1>11. \A k \in 1 .. Len(row.once) : BuUndo(row, gaps, row.once, k, {})
    BY <1>6, <1>7, <1>8, <1>9, <1>10
  <1>12. Len(row.each) = 0
    BY DEF BufhubTable
  <1>13. \A k \in 1 .. Len(row.each) : BuUndo(row, gaps, row.each, k, row.leaks)
    BY <1>12
  <1> QED
    BY <1>1, <1>3, <1>4, <1>5, <1>11, <1>13 DEF BuFits, BuUndoes

LEMMA BuCpipeFits ==
    ASSUME NEW row, row = CpipeTable
    PROVE  BuFits("cpipe", row)
  <1>1. PICK gaps, absent : gaps = BuGapsOf("cpipe") /\ absent = BuAbsent("cpipe")
    OBVIOUS
  <1>2. gaps = {"dev0", "dev1"} /\ absent = {}
    BY <1>1 DEF BuGapsOf, BuGaps, BuAbsent
  <1>3. BuLists(row, gaps)
    BY <1>2 DEF BuLists, BuOf, ToSet, CpipeTable
  <1>4. BuMakes(row, gaps)
    BY <1>2 DEF BuMakes, BuClosed, BuFirst, ToSet, CpipeTable
  <1>5. BuCleans(row, gaps, absent)
    BY <1>2 DEF BuCleans, BuReleases, BuClosed, BuFirst, ToSet, CpipeTable
  <1>6. BuUndo(row, gaps, row.once, 1, {})
    <2>1. PICK u : u = << >>
      OBVIOUS
    <2>2. row.undo[row.once[1]] = u
      BY <2>1 DEF CpipeTable
    <2>3. u \in Seq(BuOf(row))
      BY <2>1 DEF BuOf, ToSet, CpipeTable
    <2>4. BuReleases(row, gaps, u, BuFirst(row.once, 1), {}, {})
      BY <1>2, <2>1, BuReleasesNone DEF BuReleases, BuClosed, BuFirst, ToSet, CpipeTable
    <2> QED
      BY <2>2, <2>3, <2>4 DEF BuUndo
  <1>7. BuUndo(row, gaps, row.once, 2, {})
    <2>1. PICK u : u = <<"mem">>
      OBVIOUS
    <2>2. row.undo[row.once[2]] = u
      BY <2>1 DEF CpipeTable
    <2>3. u \in Seq(BuOf(row))
      BY <2>1 DEF BuOf, ToSet, CpipeTable
    <2>4. BuReleases(row, gaps, u, BuFirst(row.once, 2), {}, {})
      BY <1>2, <2>1 DEF BuReleases, BuClosed, BuFirst, ToSet, CpipeTable
    <2> QED
      BY <2>2, <2>3, <2>4 DEF BuUndo
  <1>8. BuUndo(row, gaps, row.once, 3, {})
    <2>1. PICK u : u = <<"chrdev", "mem">>
      OBVIOUS
    <2>2. row.undo[row.once[3]] = u
      BY <2>1 DEF CpipeTable
    <2>3. u \in Seq(BuOf(row))
      BY <2>1 DEF BuOf, ToSet, CpipeTable
    <2>4. BuReleases(row, gaps, u, BuFirst(row.once, 3), {}, {})
      BY <1>2, <2>1 DEF BuReleases, BuClosed, BuFirst, ToSet, CpipeTable
    <2> QED
      BY <2>2, <2>3, <2>4 DEF BuUndo
  <1>9. \A k \in 1 .. Len(row.once) : k = 1 \/ k = 2 \/ k = 3
    BY DEF CpipeTable
  <1>10. \A k \in 1 .. Len(row.once) : BuUndo(row, gaps, row.once, k, {})
    BY <1>6, <1>7, <1>8, <1>9
  <1>11. BuUndo(row, gaps, row.each, 1, row.leaks)
    <2>1. PICK u : u = << >>
      OBVIOUS
    <2>2. row.undo[row.each[1]] = u
      BY <2>1 DEF CpipeTable
    <2>3. u \in Seq(BuOf(row))
      BY <2>1 DEF BuOf, ToSet, CpipeTable
    <2>4. BuReleases(row, gaps, u, BuFirst(row.each, 1), row.leaks, {})
      BY <1>2, <2>1, BuReleasesNone DEF BuReleases, BuClosed, BuFirst, ToSet, CpipeTable
    <2> QED
      BY <2>2, <2>3, <2>4 DEF BuUndo
  <1>12. BuUndo(row, gaps, row.each, 2, row.leaks)
    <2>1. PICK u : u = <<"fifo0">>
      OBVIOUS
    <2>2. row.undo[row.each[2]] = u
      BY <2>1 DEF CpipeTable
    <2>3. u \in Seq(BuOf(row))
      BY <2>1 DEF BuOf, ToSet, CpipeTable
    <2>4. BuReleases(row, gaps, u, BuFirst(row.each, 2), row.leaks, {})
      BY <1>2, <2>1 DEF BuReleases, BuClosed, BuFirst, ToSet, CpipeTable
    <2> QED
      BY <2>2, <2>3, <2>4 DEF BuUndo
  <1>13. BuUndo(row, gaps, row.each, 3, row.leaks)
    <2>1. PICK u : u = <<"dev0", "fifo0">>
      OBVIOUS
    <2>2. row.undo[row.each[3]] = u
      BY <2>1 DEF CpipeTable
    <2>3. u \in Seq(BuOf(row))
      BY <2>1 DEF BuOf, ToSet, CpipeTable
    <2>4. BuReleases(row, gaps, u, BuFirst(row.each, 3), row.leaks, {})
      BY <1>2, <2>1 DEF BuReleases, BuClosed, BuFirst, ToSet, CpipeTable
    <2> QED
      BY <2>2, <2>3, <2>4 DEF BuUndo
  <1>14. BuUndo(row, gaps, row.each, 4, row.leaks)
    <2>1. PICK u : u = <<"fifo1", "dev0", "fifo0">>
      OBVIOUS
    <2>2. row.undo[row.each[4]] = u
      BY <2>1 DEF CpipeTable
    <2>3. u \in Seq(BuOf(row))
      BY <2>1 DEF BuOf, ToSet, CpipeTable
    <2>4. BuReleases(row, gaps, u, BuFirst(row.each, 4), row.leaks, {})
      BY <1>2, <2>1 DEF BuReleases, BuClosed, BuFirst, ToSet, CpipeTable
    <2> QED
      BY <2>2, <2>3, <2>4 DEF BuUndo
  <1>15. BuUndo(row, gaps, row.each, 5, row.leaks)
    BY DEF BuUndo, CpipeTable
  <1>16. BuUndo(row, gaps, row.each, 6, row.leaks)
    <2>1. PICK u : u = <<"dev1", "fifo1", "dev0", "fifo0">>
      OBVIOUS
    <2>2. row.undo[row.each[6]] = u
      BY <2>1 DEF CpipeTable
    <2>3. u \in Seq(BuOf(row))
      BY <2>1 DEF BuOf, ToSet, CpipeTable
    <2>4. BuReleases(row, gaps, u, BuFirst(row.each, 6), row.leaks, {})
      BY <1>2, <2>1 DEF BuReleases, BuClosed, BuFirst, ToSet, CpipeTable
    <2> QED
      BY <2>2, <2>3, <2>4 DEF BuUndo
  <1>17. BuUndo(row, gaps, row.each, 7, row.leaks)
    <2>1. PICK u : u = <<"link0", "dev1", "fifo1", "dev0", "fifo0">>
      OBVIOUS
    <2>2. row.undo[row.each[7]] = u
      BY <2>1 DEF CpipeTable
    <2>3. u \in Seq(BuOf(row))
      BY <2>1 DEF BuOf, ToSet, CpipeTable
    <2>4. BuReleases(row, gaps, u, BuFirst(row.each, 7), row.leaks, {})
      BY <1>2, <2>1 DEF BuReleases, BuClosed, BuFirst, ToSet, CpipeTable
    <2> QED
      BY <2>2, <2>3, <2>4 DEF BuUndo
  <1>18. \A k \in 1 .. Len(row.each) : k = 1 \/ k = 2 \/ k = 3 \/ k = 4 \/ k = 5 \/ k = 6 \/ k = 7
    BY DEF CpipeTable
  <1>19. \A k \in 1 .. Len(row.each) : BuUndo(row, gaps, row.each, k, row.leaks)
    BY <1>11, <1>12, <1>13, <1>14, <1>15, <1>16, <1>17, <1>18
  <1> QED
    BY <1>1, <1>3, <1>4, <1>5, <1>10, <1>19 DEF BuFits, BuUndoes

LEMMA BuUsblbFits ==
    ASSUME NEW row, row = UsblbTable
    PROVE  BuFits("usblb", row)
  <1>1. PICK gaps, absent : gaps = BuGapsOf("usblb") /\ absent = BuAbsent("usblb")
    OBVIOUS
  <1>2. gaps = {"padd"} /\ absent = {}
    BY <1>1 DEF BuGapsOf, BuGaps, BuAbsent
  <1>3. BuLists(row, gaps)
    BY <1>2 DEF BuLists, BuOf, ToSet, UsblbTable
  <1>4. BuMakes(row, gaps)
    BY <1>2 DEF BuMakes, BuClosed, BuFirst, ToSet, UsblbTable
  <1>5. BuCleans(row, gaps, absent)
    BY <1>2 DEF BuCleans, BuReleases, BuClosed, BuFirst, ToSet, UsblbTable
  <1>6. BuUndo(row, gaps, row.once, 1, {})
    <2>1. PICK u : u = << >>
      OBVIOUS
    <2>2. row.undo[row.once[1]] = u
      BY <2>1 DEF UsblbTable, UsblbGadgetUndo, UsblbHostUndo
    <2>3. u \in Seq(BuOf(row))
      BY <2>1 DEF BuOf, ToSet, UsblbTable
    <2>4. BuReleases(row, gaps, u, BuFirst(row.once, 1), {}, {})
      BY <1>2, <2>1, BuReleasesNone DEF BuReleases, BuClosed, BuFirst, ToSet, UsblbTable
    <2> QED
      BY <2>2, <2>3, <2>4 DEF BuUndo
  <1>7. BuUndo(row, gaps, row.once, 2, {})
    <2>1. PICK u : u = <<"gadgets">>
      OBVIOUS
    <2>2. row.undo[row.once[2]] = u
      BY <2>1 DEF UsblbTable, UsblbGadgetUndo, UsblbHostUndo
    <2>3. u \in Seq(BuOf(row))
      BY <2>1 DEF BuOf, ToSet, UsblbTable
    <2>4. BuReleases(row, gaps, u, BuFirst(row.once, 2), {}, {})
      BY <1>2, <2>1 DEF BuReleases, BuClosed, BuFirst, ToSet, UsblbTable
    <2> QED
      BY <2>2, <2>3, <2>4 DEF BuUndo
  <1>8. BuUndo(row, gaps, row.once, 3, {})
    <2>1. PICK u : u = <<"hosts", "gadgets">>
      OBVIOUS
    <2>2. row.undo[row.once[3]] = u
      BY <2>1 DEF UsblbTable, UsblbGadgetUndo, UsblbHostUndo
    <2>3. u \in Seq(BuOf(row))
      BY <2>1 DEF BuOf, ToSet, UsblbTable
    <2>4. BuReleases(row, gaps, u, BuFirst(row.once, 3), {}, {})
      BY <1>2, <2>1 DEF BuReleases, BuClosed, BuFirst, ToSet, UsblbTable
    <2> QED
      BY <2>2, <2>3, <2>4 DEF BuUndo
  <1>9. \A k \in 1 .. Len(row.once) : k = 1 \/ k = 2 \/ k = 3
    BY DEF UsblbTable
  <1>10. \A k \in 1 .. Len(row.once) : BuUndo(row, gaps, row.once, k, {})
    BY <1>6, <1>7, <1>8, <1>9
  <1>11. BuUndo(row, gaps, row.each, 1, row.leaks)
    <2>1. PICK u : u = << >>
      OBVIOUS
    <2>2. row.undo[row.each[1]] = u
      BY <2>1 DEF UsblbTable, UsblbGadgetUndo, UsblbHostUndo
    <2>3. u \in Seq(BuOf(row))
      BY <2>1 DEF BuOf, ToSet, UsblbTable
    <2>4. BuReleases(row, gaps, u, BuFirst(row.each, 1), row.leaks, {})
      BY <1>2, <2>1, BuReleasesNone DEF BuReleases, BuClosed, BuFirst, ToSet, UsblbTable
    <2> QED
      BY <2>2, <2>3, <2>4 DEF BuUndo
  <1>12. BuUndo(row, gaps, row.each, 2, row.leaks)
    <2>1. PICK u : u = <<"gdev">>
      OBVIOUS
    <2>2. row.undo[row.each[2]] = u
      BY <2>1 DEF UsblbTable, UsblbGadgetUndo, UsblbHostUndo
    <2>3. u \in Seq(BuOf(row))
      BY <2>1 DEF BuOf, ToSet, UsblbTable
    <2>4. BuReleases(row, gaps, u, BuFirst(row.each, 2), row.leaks, {})
      BY <1>2, <2>1 DEF BuReleases, BuClosed, BuFirst, ToSet, UsblbTable
    <2> QED
      BY <2>2, <2>3, <2>4 DEF BuUndo
  <1>13. BuUndo(row, gaps, row.each, 3, row.leaks)
    <2>1. PICK u : u = <<"ep", "gdev">>
      OBVIOUS
    <2>2. row.undo[row.each[3]] = u
      BY <2>1 DEF UsblbTable, UsblbGadgetUndo, UsblbHostUndo
    <2>3. u \in Seq(BuOf(row))
      BY <2>1 DEF BuOf, ToSet, UsblbTable
    <2>4. BuReleases(row, gaps, u, BuFirst(row.each, 3), row.leaks, {})
      BY <1>2, <2>1 DEF BuReleases, BuClosed, BuFirst, ToSet, UsblbTable
    <2> QED
      BY <2>2, <2>3, <2>4 DEF BuUndo
  <1>14. BuUndo(row, gaps, row.each, 4, row.leaks)
    <2>1. PICK u : u = <<"udc", "ep", "gdev">>
      OBVIOUS
    <2>2. row.undo[row.each[4]] = u
      BY <2>1 DEF UsblbTable, UsblbGadgetUndo, UsblbHostUndo
    <2>3. u \in Seq(BuOf(row))
      BY <2>1 DEF BuOf, ToSet, UsblbTable
    <2>4. BuReleases(row, gaps, u, BuFirst(row.each, 4), row.leaks, {})
      BY <1>2, <2>1 DEF BuReleases, BuClosed, BuFirst, ToSet, UsblbTable
    <2> QED
      BY <2>2, <2>3, <2>4 DEF BuUndo
  <1>15. BuUndo(row, gaps, row.each, 5, row.leaks)
    <2>1. PICK u : u = <<"palloc", "udc", "ep", "gdev">>
      OBVIOUS
    <2>2. row.undo[row.each[5]] = u
      BY <2>1 DEF UsblbTable, UsblbGadgetUndo, UsblbHostUndo
    <2>3. u \in Seq(BuOf(row))
      BY <2>1 DEF BuOf, ToSet, UsblbTable
    <2>4. BuReleases(row, gaps, u, BuFirst(row.each, 5), row.leaks, {})
      BY <1>2, <2>1 DEF BuReleases, BuClosed, BuFirst, ToSet, UsblbTable
    <2> QED
      BY <2>2, <2>3, <2>4 DEF BuUndo
  <1>16. BuUndo(row, gaps, row.each, 6, row.leaks)
    <2>1. PICK u : u = <<"palloc", "udc", "ep", "gdev">>
      OBVIOUS
    <2>2. row.undo[row.each[6]] = u
      BY <2>1 DEF UsblbTable, UsblbGadgetUndo, UsblbHostUndo
    <2>3. u \in Seq(BuOf(row))
      BY <2>1 DEF BuOf, ToSet, UsblbTable
    <2>4. BuReleases(row, gaps, u, BuFirst(row.each, 6), row.leaks, {})
      BY <1>2, <2>1 DEF BuReleases, BuClosed, BuFirst, ToSet, UsblbTable
    <2> QED
      BY <2>2, <2>3, <2>4 DEF BuUndo
  <1>17. BuUndo(row, gaps, row.each, 7, row.leaks)
    <2>1. PICK u : u = <<"hcd", "palloc", "udc", "ep", "gdev">>
      OBVIOUS
    <2>2. row.undo[row.each[7]] = u
      BY <2>1 DEF UsblbTable, UsblbGadgetUndo, UsblbHostUndo
    <2>3. u \in Seq(BuOf(row))
      BY <2>1 DEF BuOf, ToSet, UsblbTable
    <2>4. BuReleases(row, gaps, u, BuFirst(row.each, 7), row.leaks, {})
      BY <1>2, <2>1 DEF BuReleases, BuClosed, BuFirst, ToSet, UsblbTable
    <2> QED
      BY <2>2, <2>3, <2>4 DEF BuUndo
  <1>18. BuUndo(row, gaps, row.each, 8, row.leaks)
    <2>1. PICK u : u = <<"hcdadd", "hcd", "padd", "palloc", "udc", "ep", "gdev">>
      OBVIOUS
    <2>2. row.undo[row.each[8]] = u
      BY <2>1 DEF UsblbTable, UsblbGadgetUndo, UsblbHostUndo
    <2>3. u \in Seq(BuOf(row))
      BY <2>1 DEF BuOf, ToSet, UsblbTable
    <2>4. BuReleases(row, gaps, u, BuFirst(row.each, 8), row.leaks, {})
      BY <1>2, <2>1 DEF BuReleases, BuClosed, BuFirst, ToSet, UsblbTable
    <2> QED
      BY <2>2, <2>3, <2>4 DEF BuUndo
  <1>19. BuUndo(row, gaps, row.each, 9, row.leaks)
    BY DEF BuUndo, UsblbTable
  <1>20. \A k \in 1 .. Len(row.each) : k = 1 \/ k = 2 \/ k = 3 \/ k = 4 \/ k = 5 \/ k = 6 \/ k = 7 \/ k = 8 \/ k = 9
    BY DEF UsblbTable
  <1>21. \A k \in 1 .. Len(row.each) : BuUndo(row, gaps, row.each, k, row.leaks)
    BY <1>11, <1>12, <1>13, <1>14, <1>15, <1>16, <1>17, <1>18, <1>19, <1>20
  <1> QED
    BY <1>1, <1>3, <1>4, <1>5, <1>10, <1>21 DEF BuFits, BuUndoes

LEMMA BuVirtnetFits ==
    ASSUME NEW row, row = VirtnetTable
    PROVE  BuFits("virtnet", row)
  <1>1. PICK gaps, absent : gaps = BuGapsOf("virtnet") /\ absent = BuAbsent("virtnet")
    OBVIOUS
  <1>2. gaps = {} /\ absent = {}
    BY <1>1 DEF BuGapsOf, BuGaps, BuAbsent
  <1>3. BuLists(row, gaps)
    BY <1>2 DEF BuLists, BuOf, ToSet, VirtnetTable
  <1>4. BuMakes(row, gaps)
    BY <1>2 DEF BuMakes, BuClosed, BuFirst, ToSet, VirtnetTable
  <1>5. BuCleans(row, gaps, absent)
    BY <1>2 DEF BuCleans, BuReleases, BuClosed, BuFirst, ToSet, VirtnetTable
  <1>6. BuUndo(row, gaps, row.once, 1, {})
    <2>1. PICK u : u = << >>
      OBVIOUS
    <2>2. row.undo[row.once[1]] = u
      BY <2>1 DEF VirtnetTable, VirtnetChrUndo
    <2>3. u \in Seq(BuOf(row))
      BY <2>1 DEF BuOf, ToSet, VirtnetTable
    <2>4. BuReleases(row, gaps, u, BuFirst(row.once, 1), {}, {})
      BY <1>2, <2>1, BuReleasesNone DEF BuReleases, BuClosed, BuFirst, ToSet, VirtnetTable
    <2> QED
      BY <2>2, <2>3, <2>4 DEF BuUndo
  <1>7. BuUndo(row, gaps, row.once, 2, {})
    <2>1. PICK u : u = <<"chrdev">>
      OBVIOUS
    <2>2. row.undo[row.once[2]] = u
      BY <2>1 DEF VirtnetTable, VirtnetChrUndo
    <2>3. u \in Seq(BuOf(row))
      BY <2>1 DEF BuOf, ToSet, VirtnetTable
    <2>4. BuReleases(row, gaps, u, BuFirst(row.once, 2), {}, {})
      BY <1>2, <2>1 DEF BuReleases, BuClosed, BuFirst, ToSet, VirtnetTable
    <2> QED
      BY <2>2, <2>3, <2>4 DEF BuUndo
  <1>8. BuUndo(row, gaps, row.once, 3, {})
    <2>1. PICK u : u = <<"class", "chrdev">>
      OBVIOUS
    <2>2. row.undo[row.once[3]] = u
      BY <2>1 DEF VirtnetTable, VirtnetChrUndo
    <2>3. u \in Seq(BuOf(row))
      BY <2>1 DEF BuOf, ToSet, VirtnetTable
    <2>4. BuReleases(row, gaps, u, BuFirst(row.once, 3), {}, {})
      BY <1>2, <2>1 DEF BuReleases, BuClosed, BuFirst, ToSet, VirtnetTable
    <2> QED
      BY <2>2, <2>3, <2>4 DEF BuUndo
  <1>9. \A k \in 1 .. Len(row.once) : k = 1 \/ k = 2 \/ k = 3
    BY DEF VirtnetTable
  <1>10. \A k \in 1 .. Len(row.once) : BuUndo(row, gaps, row.once, k, {})
    BY <1>6, <1>7, <1>8, <1>9
  <1>11. BuUndo(row, gaps, row.each, 1, row.leaks)
    <2>1. PICK u : u = << >>
      OBVIOUS
    <2>2. row.undo[row.each[1]] = u
      BY <2>1 DEF VirtnetTable, VirtnetChrUndo
    <2>3. u \in Seq(BuOf(row))
      BY <2>1 DEF BuOf, ToSet, VirtnetTable
    <2>4. BuReleases(row, gaps, u, BuFirst(row.each, 1), row.leaks, {})
      BY <1>2, <2>1, BuReleasesNone DEF BuReleases, BuClosed, BuFirst, ToSet, VirtnetTable
    <2> QED
      BY <2>2, <2>3, <2>4 DEF BuUndo
  <1>12. BuUndo(row, gaps, row.each, 2, row.leaks)
    <2>1. PICK u : u = <<"netdev">>
      OBVIOUS
    <2>2. row.undo[row.each[2]] = u
      BY <2>1 DEF VirtnetTable, VirtnetChrUndo
    <2>3. u \in Seq(BuOf(row))
      BY <2>1 DEF BuOf, ToSet, VirtnetTable
    <2>4. BuReleases(row, gaps, u, BuFirst(row.each, 2), row.leaks, {})
      BY <1>2, <2>1 DEF BuReleases, BuClosed, BuFirst, ToSet, VirtnetTable
    <2> QED
      BY <2>2, <2>3, <2>4 DEF BuUndo
  <1>13. \A k \in 1 .. Len(row.each) : k = 1 \/ k = 2
    BY DEF VirtnetTable
  <1>14. \A k \in 1 .. Len(row.each) : BuUndo(row, gaps, row.each, k, row.leaks)
    BY <1>11, <1>12, <1>13
  <1> QED
    BY <1>1, <1>3, <1>4, <1>5, <1>10, <1>14 DEF BuFits, BuUndoes

\* Every table fits its driver.
LEMMA BuTablesFit == \A drv \in DOMAIN BuTable : BuFits(drv, BuTable[drv])
  <1>1. DOMAIN BuTable = {"virtblock", "rtc", "firmreq", "simpleattr", "simplat", "gpio",
                          "echoserial", "bufhub", "cpipe", "usblb", "virtnet"}
    BY DEF BuTable
  <1>2. BuFits("virtblock", BuTable["virtblock"])
    BY BuVirtblockFits DEF BuTable
  <1>3. BuFits("rtc", BuTable["rtc"])
    BY BuRtcFits DEF BuTable
  <1>4. BuFits("firmreq", BuTable["firmreq"])
    BY BuFirmreqFits DEF BuTable
  <1>5. BuFits("simpleattr", BuTable["simpleattr"])
    BY BuSimpleattrFits DEF BuTable
  <1>6. BuFits("simplat", BuTable["simplat"])
    BY BuSimplatFits DEF BuTable
  <1>7. BuFits("gpio", BuTable["gpio"])
    BY BuGpioFits DEF BuTable
  <1>8. BuFits("echoserial", BuTable["echoserial"])
    BY BuEchoserialFits DEF BuTable
  <1>9. BuFits("bufhub", BuTable["bufhub"])
    BY BuBufhubFits DEF BuTable
  <1>10. BuFits("cpipe", BuTable["cpipe"])
    BY BuCpipeFits DEF BuTable
  <1>11. BuFits("usblb", BuTable["usblb"])
    BY BuUsblbFits DEF BuTable
  <1>12. BuFits("virtnet", BuTable["virtnet"])
    BY BuVirtnetFits DEF BuTable
  <1> QED
    BY <1>1, <1>2, <1>3, <1>4, <1>5, <1>6, <1>7, <1>8, <1>9, <1>10, <1>11, <1>12

-----------------------------------------------------------------------------
(* The inductive invariant.                                                *)

BuPcs == {"once", "each", "final", "up", "undo", "unwind", "abort", "exit", "down", "gone"}

BuTypes(row) ==
    /\ DOMAIN bu = {"drv", "n", "pc", "dev", "todo", "pos", "held", "bad", "failed"}
    /\ bu.drv \in DOMAIN BuTable /\ row = BuTable[bu.drv]
    /\ bu.n \in 1 .. BuDevices /\ bu.dev \in 0 .. bu.n /\ bu.pc \in BuPcs
    /\ bu.todo \in Seq(BuOf(row)) /\ bu.pos \in 1 .. (Len(bu.todo) + 1)
    /\ bu.held \in [0 .. bu.n -> SUBSET BuOf(row)] /\ bu.bad \subseteq BuOf(row)
    /\ bu.failed \in BuOf(row) \union {"none"}

\* What there is: what is shared; and of the devices before the one a loop is at, of that
\* device, and of those after it.
BuHeld(shared, before, here, after) ==
    /\ bu.held[0] = shared
    /\ \A i \in 1 .. bu.n :
          /\ i < bu.dev => bu.held[i] \in before
          /\ i = bu.dev => bu.held[i] = here
          /\ i > bu.dev => bu.held[i] \in after

BuFine == bu.failed = "none" /\ bu.bad = {}
BuBroken == bu.failed # "none" /\ bu.bad \subseteq BuAbsent(bu.drv)

\* A device that is set up, and one with everything.
BuReady(row) == ToSet(row.each)
BuFull(row) == ToSet(row.each) \union ToSet(row.final)

BuInOnce(row) ==
    /\ bu.pc = "once" /\ bu.dev = 0 /\ bu.todo = row.once /\ BuFine
    /\ BuHeld(BuFirst(row.once, bu.pos), {}, {}, {{}})
BuInEach(row) ==
    /\ bu.pc = "each" /\ bu.dev > 0 /\ bu.todo = row.each /\ BuFine
    /\ BuHeld(ToSet(row.once), {BuReady(row)}, BuFirst(row.each, bu.pos), {{}})
BuInFinal(row) ==
    /\ bu.pc = "final" /\ bu.dev > 0 /\ bu.todo = row.final /\ BuFine
    /\ BuHeld(ToSet(row.once), {BuFull(row)}, BuReady(row) \union BuFirst(row.final, bu.pos),
              {BuReady(row)})
BuIsUp(row) ==
    /\ bu.pc = "up" /\ bu.dev = 0 /\ BuFine
    /\ BuHeld(ToSet(row.once), {}, {}, {BuFull(row)})
BuInUndoOnce(row) ==
    /\ bu.pc = "undo" /\ bu.dev = 0 /\ BuBroken /\ bu.bad = {}
    /\ \E k \in 1 .. Len(row.once) :
          /\ bu.failed = row.once[k] /\ row.once[k] \notin row.sure
          /\ bu.todo = row.undo[row.once[k]]
          /\ BuHeld(BuFirst(row.once, k) \ BuFirst(bu.todo, bu.pos), {}, {}, {{}})
BuInUndoEach(row) ==
    /\ bu.pc = "undo" /\ bu.dev > 0 /\ BuBroken /\ bu.bad = {}
    /\ \E k \in 1 .. Len(row.each) :
          /\ bu.failed = row.each[k] /\ row.each[k] \notin row.sure
          /\ bu.todo = row.undo[row.each[k]]
          /\ BuHeld(ToSet(row.once), {BuReady(row)},
                    BuFirst(row.each, k) \ BuFirst(bu.todo, bu.pos), {{}})
BuInUnwind(row) ==
    /\ bu.pc = "unwind" /\ bu.dev > 0 /\ bu.todo = row.cleanup /\ BuBroken
    /\ BuHeld(ToSet(row.once), {BuReady(row)}, BuReady(row) \ BuFirst(row.cleanup, bu.pos),
              SUBSET row.leaks)
BuInAbort(row) ==
    /\ bu.pc = "abort" /\ bu.dev = 0 /\ bu.todo = row.down /\ BuBroken
    /\ BuHeld(ToSet(row.once) \ BuFirst(row.down, bu.pos), {}, {}, SUBSET row.leaks)
BuInExit(row) ==
    /\ bu.pc = "exit" /\ bu.dev > 0 /\ bu.todo = row.cleanup /\ BuFine
    /\ BuHeld(ToSet(row.once), SUBSET row.leaks, BuFull(row) \ BuFirst(row.cleanup, bu.pos),
              {BuFull(row)})
BuInDown(row) ==
    /\ bu.pc = "down" /\ bu.dev = 0 /\ bu.todo = row.down /\ BuFine
    /\ BuHeld(ToSet(row.once) \ BuFirst(row.down, bu.pos), {}, {}, SUBSET row.leaks)
BuIsGone(row) ==
    /\ bu.pc = "gone" /\ bu.dev = 0 /\ (BuFine \/ BuBroken)
    /\ BuHeld({}, {}, {}, SUBSET row.leaks)
\* Init failed and said that it did not.
BuLied(row) ==
    /\ bu.pc \in {"up", "exit", "down", "gone"} /\ bu.failed \in row.lies
    /\ bu.pc = "exit" => bu.dev > 0
    /\ bu.held[0] = {} /\ \A i \in 1 .. bu.n : bu.held[i] \subseteq row.leaks

BuPhase(row) ==
    \/ BuInOnce(row) \/ BuInEach(row) \/ BuInFinal(row) \/ BuIsUp(row) \/ BuInUndoOnce(row)
    \/ BuInUndoEach(row) \/ BuInUnwind(row) \/ BuInAbort(row) \/ BuInExit(row)
    \/ BuInDown(row) \/ BuIsGone(row) \/ BuLied(row)

BuInv == \E drv \in DOMAIN BuTable : BuTypes(BuTable[drv]) /\ BuPhase(BuTable[drv])

-----------------------------------------------------------------------------
(* What the actions do to a loop.                                          *)

\* What a loop has been through: nothing, one more, all.
LEMMA BuFirstFacts ==
    ASSUME NEW S, NEW s \in Seq(S)
    PROVE  /\ BuFirst(s, 1) = {} /\ BuFirst(s, Len(s) + 1) = ToSet(s)
           /\ \A k \in 1 .. Len(s) : BuFirst(s, k + 1) = BuFirst(s, k) \union {s[k]}
  <1>1. Len(s) \in Nat /\ DOMAIN s = 1 .. Len(s)
    BY LenProperties
  <1>2. BuFirst(s, 1) = {}
    BY DEF BuFirst
  <1>3. BuFirst(s, Len(s) + 1) = ToSet(s)
    BY <1>1 DEF BuFirst, ToSet
  <1>4. ASSUME NEW k \in 1 .. Len(s) PROVE BuFirst(s, k + 1) = BuFirst(s, k) \union {s[k]}
    <2>1. \A j : j \in 1 .. k + 1 - 1 <=> j \in 1 .. k - 1 \/ j = k
      BY <1>1
    <2> QED
      BY <2>1 DEF BuFirst
  <1> QED
    BY <1>2, <1>3, <1>4

\* What an action leaves, and what it does to the fields.
LEMMA BuLoopTo ==
    ASSUME NEW row, BuTypes(row), NEW pc \in BuPcs, NEW dev \in 0 .. bu.n,
           NEW todo \in Seq(BuOf(row)), BuLoop(pc, dev, todo)
    PROVE  /\ BuTypes(row)' /\ bu'.pc = pc /\ bu'.dev = dev /\ bu'.todo = todo /\ bu'.pos = 1
           /\ bu'.drv = bu.drv /\ bu'.n = bu.n /\ bu'.held = bu.held /\ bu'.bad = bu.bad
           /\ bu'.failed = bu.failed
  <1>1. /\ bu'.pc = pc /\ bu'.dev = dev /\ bu'.todo = todo /\ bu'.pos = 1
        /\ bu'.drv = bu.drv /\ bu'.n = bu.n /\ bu'.held = bu.held /\ bu'.bad = bu.bad
        /\ bu'.failed = bu.failed
        /\ DOMAIN bu' = {"drv", "n", "pc", "dev", "todo", "pos", "held", "bad", "failed"}
    BY DEF BuTypes, BuLoop
  <1>2. 1 \in 1 .. (Len(todo) + 1)
    BY LenProperties
  <1> QED
    BY <1>1, <1>2 DEF BuTypes

LEMMA BuStepTo ==
    ASSUME NEW row, BuTypes(row), BuStep
    PROVE  /\ BuTypes(row)' /\ bu'.pos = bu.pos + 1 /\ bu.pos \in 1 .. Len(bu.todo)
           /\ bu'.held = [bu.held EXCEPT ![bu.dev] = @ \union {bu.todo[bu.pos]}]
           /\ bu'.drv = bu.drv /\ bu'.n = bu.n /\ bu'.pc = bu.pc /\ bu'.dev = bu.dev
           /\ bu'.todo = bu.todo /\ bu'.bad = bu.bad /\ bu'.failed = bu.failed
  <1>1. PICK held : held = [bu.held EXCEPT ![bu.dev] = @ \union {bu.todo[bu.pos]}]
    OBVIOUS
  <1>2. bu' = [bu EXCEPT !.held = held, !.pos = @ + 1]
    BY <1>1 DEF BuStep
  <1>3. /\ bu'.pos = bu.pos + 1 /\ bu'.held = held
        /\ bu'.drv = bu.drv /\ bu'.n = bu.n /\ bu'.pc = bu.pc /\ bu'.dev = bu.dev
        /\ bu'.todo = bu.todo /\ bu'.bad = bu.bad /\ bu'.failed = bu.failed
        /\ DOMAIN bu' = {"drv", "n", "pc", "dev", "todo", "pos", "held", "bad", "failed"}
    BY <1>2 DEF BuTypes
  <1>4. /\ bu.pos \in 1 .. Len(bu.todo) /\ bu.pos + 1 \in 1 .. (Len(bu.todo) + 1)
        /\ bu.todo[bu.pos] \in BuOf(row)
    <2>1. Len(bu.todo) \in Nat
      BY LenProperties DEF BuTypes
    <2>2. bu.pos \in 1 .. Len(bu.todo)
      BY <2>1 DEF BuTypes, BuStep
    <2> QED
      BY <2>1, <2>2, ElementOfSeq DEF BuTypes
  <1>5. held \in [0 .. bu.n -> SUBSET BuOf(row)]
    BY <1>1, <1>4 DEF BuTypes
  <1> QED
    BY <1>1, <1>3, <1>4, <1>5 DEF BuTypes

LEMMA BuReleaseTo ==
    ASSUME NEW row, BuTypes(row), BuRelease
    PROVE  /\ BuTypes(row)' /\ bu'.pos = bu.pos + 1 /\ bu.pos \in 1 .. Len(bu.todo)
           /\ bu'.held = [bu.held EXCEPT ![bu.dev] = @ \ {bu.todo[bu.pos]}]
           /\ bu'.bad = bu.bad \union ({bu.todo[bu.pos]} \ bu.held[bu.dev])
           /\ bu'.drv = bu.drv /\ bu'.n = bu.n /\ bu'.pc = bu.pc /\ bu'.dev = bu.dev
           /\ bu'.todo = bu.todo /\ bu'.failed = bu.failed
  <1>1. PICK held, bad : /\ held = [bu.held EXCEPT ![bu.dev] = @ \ {bu.todo[bu.pos]}]
                         /\ bad = bu.bad \union ({bu.todo[bu.pos]} \ bu.held[bu.dev])
    OBVIOUS
  <1>2. bu' = [bu EXCEPT !.held = held, !.pos = @ + 1, !.bad = bad]
    BY <1>1 DEF BuRelease
  <1>3. /\ bu'.pos = bu.pos + 1 /\ bu'.held = held /\ bu'.bad = bad
        /\ bu'.drv = bu.drv /\ bu'.n = bu.n /\ bu'.pc = bu.pc /\ bu'.dev = bu.dev
        /\ bu'.todo = bu.todo /\ bu'.failed = bu.failed
        /\ DOMAIN bu' = {"drv", "n", "pc", "dev", "todo", "pos", "held", "bad", "failed"}
    BY <1>2 DEF BuTypes
  <1>4. /\ bu.pos \in 1 .. Len(bu.todo) /\ bu.pos + 1 \in 1 .. (Len(bu.todo) + 1)
        /\ bu.todo[bu.pos] \in BuOf(row)
    <2>1. Len(bu.todo) \in Nat
      BY LenProperties DEF BuTypes
    <2>2. bu.pos \in 1 .. Len(bu.todo)
      BY <2>1 DEF BuTypes, BuRelease
    <2> QED
      BY <2>1, <2>2, ElementOfSeq DEF BuTypes
  <1>5. held \in [0 .. bu.n -> SUBSET BuOf(row)] /\ bad \subseteq BuOf(row)
    BY <1>1, <1>4 DEF BuTypes
  <1> QED
    BY <1>1, <1>3, <1>4, <1>5 DEF BuTypes

\* One place changes: the one the loop is at.
LEMMA BuHeldSet ==
    ASSUME NEW row, BuTypes(row), NEW S, bu'.held = [bu.held EXCEPT ![bu.dev] = S],
           bu'.dev = bu.dev, bu'.n = bu.n,
           NEW shared, NEW before, NEW here, NEW after, BuHeld(shared, before, here, after)
    PROVE  /\ bu.dev > 0 => bu.held[bu.dev] = here /\ BuHeld(shared, before, S, after)'
           /\ bu.dev = 0 => bu.held[bu.dev] = shared /\ BuHeld(S, before, here, after)'
  <1>1. PICK held, dev, n : held = bu.held /\ dev = bu.dev /\ n = bu.n
    OBVIOUS
  <1>2. n \in Nat /\ dev \in 0 .. n /\ DOMAIN held = 0 .. n
    BY <1>1 DEF BuTypes
  <1>3. /\ held[0] = shared
        /\ \A i \in 1 .. n : /\ i < dev => held[i] \in before
                             /\ i = dev => held[i] = here
                             /\ i > dev => held[i] \in after
    BY <1>1 DEF BuHeld
  <1>4. PICK new : new = bu'.held
    OBVIOUS
  <1>5. new = [held EXCEPT ![dev] = S] /\ bu'.dev = dev /\ bu'.n = n
    BY <1>1, <1>4
  <1>6. new[dev] = S /\ \A i \in 0 .. n : i # dev => new[i] = held[i]
    BY <1>2, <1>5
  <1>7. ASSUME dev > 0 PROVE held[dev] = here /\ BuHeld(shared, before, S, after)'
    <2>1. held[dev] = here
      BY <1>2, <1>3, <1>7
    <2>2. new[0] = shared
      BY <1>2, <1>3, <1>6, <1>7
    <2>3. ASSUME NEW i \in 1 .. n
          PROVE  /\ i < dev => new[i] \in before
                 /\ i = dev => new[i] = S
                 /\ i > dev => new[i] \in after
      BY <1>2, <1>3, <1>6
    <2> QED
      BY <1>4, <1>5, <2>1, <2>2, <2>3 DEF BuHeld
  <1>8. ASSUME dev = 0 PROVE held[dev] = shared /\ BuHeld(S, before, here, after)'
    <2>1. held[dev] = shared /\ new[0] = S
      BY <1>3, <1>6, <1>8
    <2>2. ASSUME NEW i \in 1 .. n
          PROVE  /\ i < dev => new[i] \in before
                 /\ i = dev => new[i] = here
                 /\ i > dev => new[i] \in after
      BY <1>2, <1>3, <1>6, <1>8
    <2> QED
      BY <1>4, <1>5, <2>1, <2>2 DEF BuHeld
  <1> QED
    BY <1>1, <1>7, <1>8

\* The loop goes on to the next device, ...
LEMMA BuHeldUp ==
    ASSUME NEW row, BuTypes(row), bu'.held = bu.held, bu'.n = bu.n, bu'.dev = bu.dev + 1,
           bu.dev \in 1 .. bu.n - 1,
           NEW shared, NEW before, NEW here, NEW next,
           BuHeld(shared, before, here, {next}), here \in before
    PROVE  BuHeld(shared, before, next, {next})'
  <1>1. PICK held, dev, n : held = bu.held /\ dev = bu.dev /\ n = bu.n
    OBVIOUS
  <1>2. n \in Nat /\ dev \in 1 .. n - 1
    BY <1>1 DEF BuTypes
  <1>3. /\ held[0] = shared
        /\ \A i \in 1 .. n : /\ i < dev => held[i] \in before
                             /\ i = dev => held[i] = here
                             /\ i > dev => held[i] = next
    BY <1>1 DEF BuHeld
  <1>4. ASSUME NEW i \in 1 .. n
        PROVE  /\ i < dev + 1 => held[i] \in before
               /\ i = dev + 1 => held[i] = next
               /\ i > dev + 1 => held[i] = next
    BY <1>2, <1>3
  <1> QED
    BY <1>1, <1>3, <1>4 DEF BuHeld

\* ... or back to the one before, ...
LEMMA BuHeldDown ==
    ASSUME NEW row, BuTypes(row), bu'.held = bu.held, bu'.n = bu.n, bu'.dev = bu.dev - 1,
           bu.dev \in 1 .. bu.n,
           NEW shared, NEW next, NEW here, NEW after, NEW now,
           BuHeld(shared, {next}, here, now), here \in after, now \subseteq after
    PROVE  BuHeld(shared, {next}, next, after)'
  <1>1. PICK held, dev, n : held = bu.held /\ dev = bu.dev /\ n = bu.n
    OBVIOUS
  <1>2. n \in Nat /\ dev \in 1 .. n
    BY <1>1 DEF BuTypes
  <1>3. /\ held[0] = shared
        /\ \A i \in 1 .. n : /\ i < dev => held[i] = next
                             /\ i = dev => held[i] = here
                             /\ i > dev => held[i] \in now
    BY <1>1 DEF BuHeld
  <1>4. ASSUME NEW i \in 1 .. n
        PROVE  /\ i < dev - 1 => held[i] = next
               /\ i = dev - 1 => held[i] = next
               /\ i > dev - 1 => held[i] \in after
    BY <1>2, <1>3
  <1> QED
    BY <1>1, <1>3, <1>4 DEF BuHeld

\* ... or has been through all of them, and another one begins: at what the devices
\* share, or at the first one.
LEMMA BuHeldAll ==
    ASSUME NEW row, BuTypes(row), bu'.held = bu.held, bu'.n = bu.n, bu'.dev \in {0, 1},
           NEW shared, NEW before, NEW here, NEW after, NEW all,
           BuHeld(shared, before, here, after),
           \/ bu.dev = bu.n /\ before \subseteq all /\ here \in all
           \/ bu.dev = 0 /\ after \subseteq all
           \/ bu.dev = 1 /\ here \in all /\ after \subseteq all
    PROVE  /\ bu'.dev = 0 => BuHeld(shared, {}, {}, all)'
           /\ \A x, b : all = {x} /\ bu'.dev = 1 => BuHeld(shared, b, x, all)'
  <1>1. PICK held, dev, n, new : held = bu.held /\ dev = bu.dev /\ n = bu.n /\ new = bu'.dev
    OBVIOUS
  <1>2. n \in Nat /\ dev \in 0 .. n /\ new \in {0, 1}
    BY <1>1 DEF BuTypes
  <1>3. /\ held[0] = shared
        /\ \A i \in 1 .. n : /\ i < dev => held[i] \in before
                             /\ i = dev => held[i] = here
                             /\ i > dev => held[i] \in after
    BY <1>1 DEF BuHeld
  <1>4. ASSUME NEW i \in 1 .. n PROVE held[i] \in all
    <2>1. CASE dev = n /\ before \subseteq all /\ here \in all
      BY <1>2, <1>3, <2>1
    <2>2. CASE dev = 0 /\ after \subseteq all
      BY <1>2, <1>3, <2>2
    <2>3. CASE dev = 1 /\ here \in all /\ after \subseteq all
      BY <1>2, <1>3, <2>3
    <2> QED
      BY <1>1, <2>1, <2>2, <2>3
  <1>5. ASSUME new = 0 PROVE BuHeld(shared, {}, {}, all)'
    <2>1. \A i \in 1 .. n : ~(i < new) /\ i # new /\ held[i] \in all
      BY <1>2, <1>4, <1>5
    <2> QED
      BY <1>1, <1>3, <2>1 DEF BuHeld
  <1>6. ASSUME NEW x, NEW b, all = {x}, new = 1 PROVE BuHeld(shared, b, x, all)'
    <2>1. \A i \in 1 .. n : ~(i < new) /\ held[i] = x /\ held[i] \in all
      BY <1>2, <1>4, <1>6
    <2> QED
      BY <1>1, <1>3, <2>1 DEF BuHeld
  <1> QED
    BY <1>1, <1>5, <1>6

\* What goes through a list has come to its end when it is past it.
LEMMA BuPast ==
    ASSUME NEW row, BuTypes(row), bu.pos > Len(bu.todo)
    PROVE  BuFirst(bu.todo, bu.pos) = ToSet(bu.todo)
  <1>1. PICK todo, pos : todo = bu.todo /\ pos = bu.pos
    OBVIOUS
  <1>2. Len(todo) \in Nat /\ pos \in 1 .. (Len(todo) + 1) /\ pos > Len(todo) /\ todo \in Seq(BuOf(row))
    BY <1>1, LenProperties DEF BuTypes
  <1>3. pos = Len(todo) + 1
    BY <1>2
  <1> QED
    BY <1>1, <1>2, <1>3, BuFirstFacts

\* One step of init more.
LEMMA BuStepMakes ==
    ASSUME NEW row, BuTypes(row), BuStep,
           NEW S, bu.held[bu.dev] = S \union BuFirst(bu.todo, bu.pos)
    PROVE  bu'.held = [bu.held EXCEPT ![bu.dev] = S \union BuFirst(bu.todo, bu'.pos)]
  <1>1. /\ bu'.pos = bu.pos + 1 /\ bu.pos \in 1 .. Len(bu.todo)
        /\ bu'.held = [bu.held EXCEPT ![bu.dev] = bu.held[bu.dev] \union {bu.todo[bu.pos]}]
    BY BuStepTo
  <1>2. BuFirst(bu.todo, bu'.pos) = BuFirst(bu.todo, bu.pos) \union {bu.todo[bu.pos]}
    BY <1>1, BuFirstFacts DEF BuTypes
  <1>3. S \union BuFirst(bu.todo, bu'.pos) = bu.held[bu.dev] \union {bu.todo[bu.pos]}
    BY <1>2
  <1> QED
    BY <1>1, <1>3

\* One release more: nothing that is not there, but for what may be absent.
LEMMA BuReleaseTakes ==
    ASSUME NEW row, BuTypes(row), BuRelease, NEW gaps, NEW S, NEW stay, NEW absent,
           BuReleases(row, gaps, bu.todo, S, stay, absent),
           bu.held[bu.dev] = S \ BuFirst(bu.todo, bu.pos)
    PROVE  /\ bu'.held = [bu.held EXCEPT ![bu.dev] = S \ BuFirst(bu.todo, bu'.pos)]
           /\ bu'.bad \subseteq bu.bad \union absent
  <1>1. /\ bu'.pos = bu.pos + 1 /\ bu.pos \in 1 .. Len(bu.todo)
        /\ bu'.held = [bu.held EXCEPT ![bu.dev] = bu.held[bu.dev] \ {bu.todo[bu.pos]}]
        /\ bu'.bad = bu.bad \union ({bu.todo[bu.pos]} \ bu.held[bu.dev])
    BY BuReleaseTo
  <1>2. BuFirst(bu.todo, bu'.pos) = BuFirst(bu.todo, bu.pos) \union {bu.todo[bu.pos]}
    BY <1>1, BuFirstFacts DEF BuTypes
  <1>3. S \ BuFirst(bu.todo, bu'.pos) = bu.held[bu.dev] \ {bu.todo[bu.pos]}
    BY <1>2
  <1>4. bu.todo[bu.pos] \in (S \ BuFirst(bu.todo, bu.pos)) \union absent
    BY <1>1 DEF BuReleases
  <1> QED
    BY <1>1, <1>3, <1>4

\* The labels take over.
LEMMA BuFailTo ==
    ASSUME NEW row, BuTypes(row), BuFail, NEW r, r = bu.todo[bu.pos],
           row.undo[r] \in Seq(BuOf(row))
    PROVE  /\ BuTypes(row)' /\ bu'.pos = 1 /\ bu.pos \in 1 .. Len(bu.todo)
           /\ bu'.held = bu.held /\ bu'.bad = bu.bad
           /\ bu'.drv = bu.drv /\ bu'.n = bu.n /\ bu'.pc = "undo" /\ bu'.dev = bu.dev
           /\ bu'.todo = row.undo[r] /\ bu'.failed = r /\ r \in BuOf(row) \ row.sure
  <1>1. BuRow = row
    BY DEF BuRow, BuTypes
  <1>2. PICK todo : todo = row.undo[r]
    OBVIOUS
  <1>3. bu' = [bu EXCEPT !.pc = "undo", !.todo = todo, !.pos = 1, !.failed = r] /\ r \notin row.sure
    BY <1>1, <1>2 DEF BuFail
  <1>4. /\ bu'.pos = 1 /\ bu'.held = bu.held /\ bu'.bad = bu.bad
        /\ bu'.drv = bu.drv /\ bu'.n = bu.n /\ bu'.pc = "undo" /\ bu'.dev = bu.dev
        /\ bu'.todo = todo /\ bu'.failed = r
        /\ DOMAIN bu' = {"drv", "n", "pc", "dev", "todo", "pos", "held", "bad", "failed"}
    BY <1>3 DEF BuTypes
  <1>5. bu.pos \in 1 .. Len(bu.todo) /\ r \in BuOf(row)
    <2>1. Len(bu.todo) \in Nat
      BY LenProperties DEF BuTypes
    <2>2. bu.pos \in 1 .. Len(bu.todo)
      BY <2>1 DEF BuTypes, BuFail
    <2> QED
      BY <2>1, <2>2, ElementOfSeq DEF BuTypes
  <1>6. 1 \in 1 .. (Len(todo) + 1)
    BY <1>2, LenProperties
  <1>7. BuTypes(row)'
    BY <1>2, <1>4, <1>5, <1>6 DEF BuTypes, BuPcs
  <1> QED
    BY <1>2, <1>3, <1>4, <1>5, <1>7

\* The end of init that failed.
LEMMA BuReturns ==
    ASSUME NEW row, BuTypes(row), BuLists(row, BuGapsOf(bu.drv)), BuReturn, BuBroken,
           NEW before, NEW here, NEW after, BuHeld({}, before, here, after), bu.dev = 0,
           after \subseteq SUBSET row.leaks
    PROVE  BuTypes(row)' /\ BuPhase(row)'
  <1>1. BuRow = row /\ << >> \in Seq(BuOf(row)) /\ 0 \in 0 .. bu.n
    BY DEF BuRow, BuTypes
  <1>2. CASE bu.failed \in row.lies
    <2>1. BuLoop("up", 0, << >>)
      BY <1>1, <1>2 DEF BuReturn
    <2>2. /\ BuTypes(row)' /\ bu'.pc = "up" /\ bu'.dev = 0 /\ bu'.n = bu.n /\ bu'.held = bu.held
          /\ bu'.failed = bu.failed
      BY <1>1, <2>1, BuLoopTo DEF BuPcs
    <2>3. BuHeld({}, {}, {}, SUBSET row.leaks)'
      BY <2>2, BuHeldAll
    <2>4. bu'.held[0] = {} /\ \A i \in 1 .. bu'.n : bu'.held[i] \subseteq row.leaks
      BY <2>2, <2>3 DEF BuHeld, BuTypes
    <2> QED
      BY <1>2, <2>2, <2>4 DEF BuPhase, BuLied
  <1>3. CASE bu.failed \notin row.lies
    <2>1. BuLoop("gone", 0, << >>)
      BY <1>1, <1>3 DEF BuReturn
    <2>2. /\ BuTypes(row)' /\ bu'.pc = "gone" /\ bu'.dev = 0 /\ bu'.n = bu.n /\ bu'.held = bu.held
          /\ bu'.failed = bu.failed /\ bu'.bad = bu.bad /\ bu'.drv = bu.drv
      BY <1>1, <2>1, BuLoopTo DEF BuPcs
    <2>3. BuHeld({}, {}, {}, SUBSET row.leaks)'
      BY <2>2, BuHeldAll
    <2>4. BuBroken'
      BY <2>2 DEF BuBroken
    <2> QED
      BY <2>2, <2>3, <2>4 DEF BuPhase, BuIsGone
  <1> QED
    BY <1>2, <1>3

-----------------------------------------------------------------------------
(* What keeps the invariant, in each of the loops.                         *)

\* init: what the devices share, each device, and each device once more.
LEMMA BuOnceKeeps ==
    ASSUME NEW row, BuTypes(row), BuFits(bu.drv, row), BuInOnce(row), BuNext
    PROVE  BuTypes(row)' /\ BuPhase(row)'
  <1>1. BuRow = row /\ bu.pc = "once" /\ bu.dev = 0 /\ bu.todo = row.once
    BY DEF BuRow, BuTypes, BuInOnce
  <1>2. BuHeld(BuFirst(row.once, bu.pos), {}, {}, {{}})
    BY DEF BuInOnce
  <1>3. CASE BuStep
    <2>1. /\ BuTypes(row)' /\ bu'.drv = bu.drv /\ bu'.n = bu.n /\ bu'.pc = bu.pc /\ bu'.dev = bu.dev
          /\ bu'.todo = bu.todo /\ bu'.bad = bu.bad /\ bu'.failed = bu.failed
      BY <1>3, BuStepTo
    <2>2. bu.held[bu.dev] = {} \union BuFirst(bu.todo, bu.pos)
      BY <1>1, <1>2 DEF BuHeld
    <2>3. PICK S : S = {} \union BuFirst(bu.todo, bu'.pos)
      OBVIOUS
    <2>4. bu'.held = [bu.held EXCEPT ![bu.dev] = S] /\ S = BuFirst(row.once, bu'.pos)
      BY <1>1, <1>3, <2>2, <2>3, BuStepMakes
    <2>5. BuHeld(S, {}, {}, {{}})'
      BY <1>1, <1>2, <2>1, <2>4, BuHeldSet
    <2>6. BuHeld(BuFirst(row.once, bu.pos), {}, {}, {{}})'
      BY <2>4, <2>5 DEF BuHeld
    <2>7. BuFine'
      BY <2>1 DEF BuFine, BuInOnce
    <2> QED
      BY <1>1, <2>1, <2>6, <2>7 DEF BuPhase, BuInOnce
  <1>4. CASE BuUp
    <2>1. bu.pos > Len(bu.todo) /\ BuLoop("each", 1, row.each)
      BY <1>1, <1>4 DEF BuUp
    <2>2. row.each \in Seq(BuOf(row)) /\ 1 \in 0 .. bu.n
      BY DEF BuFits, BuLists, BuTypes
    <2>3. /\ BuTypes(row)' /\ bu'.pc = "each" /\ bu'.dev = 1 /\ bu'.todo = row.each /\ bu'.pos = 1
          /\ bu'.n = bu.n /\ bu'.held = bu.held /\ bu'.bad = bu.bad /\ bu'.failed = bu.failed
      BY <2>1, <2>2, BuLoopTo DEF BuPcs
    <2>4. BuFirst(row.once, bu.pos) = ToSet(row.once) /\ BuFirst(row.each, 1) = {}
      BY <1>1, <2>1, <2>2, BuPast, BuFirstFacts
    <2>5. BuHeld(ToSet(row.once), {}, {}, {{}})
      BY <1>2, <2>4
    <2>6. BuHeld(ToSet(row.once), {BuReady(row)}, {}, {{}})'
      BY <1>1, <2>3, <2>5, BuHeldAll
    <2>7. BuHeld(ToSet(row.once), {BuReady(row)}, BuFirst(row.each, bu.pos), {{}})'
      BY <2>3, <2>4, <2>6 DEF BuHeld
    <2>8. BuFine'
      BY <2>3 DEF BuFine, BuInOnce
    <2> QED
      BY <2>3, <2>7, <2>8 DEF BuPhase, BuInEach
  <1>5. CASE BuFail
    <2>1. PICK k, r : k = bu.pos /\ r = row.once[k]
      OBVIOUS
    <2>2. k \in 1 .. Len(row.once) /\ r \notin row.sure
      BY <1>1, <1>5, <2>1, LenProperties DEF BuFail, BuTypes
    <2>3. row.undo[r] \in Seq(BuOf(row))
      BY <2>1, <2>2 DEF BuFits, BuUndoes, BuUndo
    <2>4. /\ BuTypes(row)' /\ bu'.pos = 1 /\ bu'.held = bu.held /\ bu'.bad = bu.bad
          /\ bu'.drv = bu.drv /\ bu'.n = bu.n /\ bu'.pc = "undo" /\ bu'.dev = bu.dev
          /\ bu'.todo = row.undo[r] /\ bu'.failed = r /\ r \in BuOf(row) \ row.sure
      BY <1>1, <1>5, <2>1, <2>3, BuFailTo
    <2>5. BuBroken' /\ bu'.bad = {}
      BY <2>4 DEF BuBroken, BuInOnce, BuFine, BuFits, BuLists
    <2>6. BuFirst(row.undo[r], 1) = {}
      BY <2>3, BuFirstFacts
    <2>7. PICK S : S = BuFirst(row.once, k) \ BuFirst(row.undo[r], 1)
      OBVIOUS
    <2>8. BuHeld(S, {}, {}, {{}})
      BY <1>2, <2>1, <2>6, <2>7
    <2>9. BuHeld(S, {}, {}, {{}})'
      BY <1>1, <2>4, <2>8, BuHeldAll
    <2>10. (BuHeld(BuFirst(row.once, k) \ BuFirst(bu.todo, bu.pos), {}, {}, {{}}))'
      BY <2>4, <2>7, <2>9 DEF BuHeld
    <2> QED
      BY <1>1, <2>1, <2>2, <2>4, <2>5, <2>10 DEF BuPhase, BuInUndoOnce
  <1> QED
    BY <1>1, <1>3, <1>4, <1>5 DEF BuNext, BuRelease, BuUnwind, BuExit, BuExited

LEMMA BuEachKeeps ==
    ASSUME NEW row, BuTypes(row), BuFits(bu.drv, row), BuInEach(row), BuNext
    PROVE  BuTypes(row)' /\ BuPhase(row)'
  <1>1. BuRow = row /\ bu.pc = "each" /\ bu.dev > 0 /\ bu.dev \in 1 .. bu.n /\ bu.todo = row.each
    BY DEF BuRow, BuTypes, BuInEach
  <1>2. BuHeld(ToSet(row.once), {BuReady(row)}, BuFirst(row.each, bu.pos), {{}})
    BY DEF BuInEach
  <1>3. CASE BuStep
    <2>1. /\ BuTypes(row)' /\ bu'.drv = bu.drv /\ bu'.n = bu.n /\ bu'.pc = bu.pc /\ bu'.dev = bu.dev
          /\ bu'.todo = bu.todo /\ bu'.bad = bu.bad /\ bu'.failed = bu.failed
      BY <1>3, BuStepTo
    <2>2. bu.held[bu.dev] = {} \union BuFirst(bu.todo, bu.pos)
      BY <1>1, <1>2 DEF BuHeld
    <2>3. PICK S : S = {} \union BuFirst(bu.todo, bu'.pos)
      OBVIOUS
    <2>4. bu'.held = [bu.held EXCEPT ![bu.dev] = S] /\ S = BuFirst(row.each, bu'.pos)
      BY <1>1, <1>3, <2>2, <2>3, BuStepMakes
    <2>5. BuHeld(ToSet(row.once), {BuReady(row)}, S, {{}})'
      BY <1>1, <1>2, <2>1, <2>4, BuHeldSet
    <2>6. BuHeld(ToSet(row.once), {BuReady(row)}, BuFirst(row.each, bu.pos), {{}})'
      BY <2>4, <2>5 DEF BuHeld
    <2>7. BuFine'
      BY <2>1 DEF BuFine, BuInEach
    <2> QED
      BY <1>1, <2>1, <2>6, <2>7 DEF BuPhase, BuInEach
  <1>4. CASE BuUp
    <2>1. bu.pos > Len(bu.todo)
      BY <1>4 DEF BuUp
    <2>2. row.each \in Seq(BuOf(row)) /\ row.final \in Seq(BuOf(row)) /\ bu.n \in Nat
      BY DEF BuFits, BuLists, BuTypes
    <2>3. /\ BuFirst(row.each, bu.pos) = BuReady(row)
          /\ BuFirst(row.each, 1) = {} /\ BuFirst(row.final, 1) = {}
      BY <1>1, <2>1, <2>2, BuPast, BuFirstFacts DEF BuReady
    <2>4. BuHeld(ToSet(row.once), {BuReady(row)}, BuReady(row), {{}})
      BY <1>2, <2>3
    <2>5. CASE bu.dev < bu.n
      <3>1. BuLoop("each", bu.dev + 1, row.each) /\ bu.dev + 1 \in 0 .. bu.n /\ bu.dev \in 1 .. bu.n - 1
        BY <1>1, <1>4, <2>2, <2>5 DEF BuUp
      <3>2. /\ BuTypes(row)' /\ bu'.pc = "each" /\ bu'.dev = bu.dev + 1 /\ bu'.todo = row.each
            /\ bu'.pos = 1 /\ bu'.n = bu.n /\ bu'.held = bu.held /\ bu'.bad = bu.bad
            /\ bu'.failed = bu.failed
        BY <2>2, <3>1, BuLoopTo DEF BuPcs
      <3>3. BuHeld(ToSet(row.once), {BuReady(row)}, {}, {{}})'
        BY <2>4, <3>1, <3>2, BuHeldUp
      <3>4. BuHeld(ToSet(row.once), {BuReady(row)}, BuFirst(row.each, bu.pos), {{}})'
        BY <2>3, <3>2, <3>3 DEF BuHeld
      <3>5. BuFine' /\ bu'.dev > 0
        BY <1>1, <3>2 DEF BuFine, BuInEach
      <3> QED
        BY <3>2, <3>4, <3>5 DEF BuPhase, BuInEach
    <2>6. CASE ~(bu.dev < bu.n)
      <3>1. BuLoop("final", 1, row.final) /\ 1 \in 0 .. bu.n /\ bu.dev = bu.n
        BY <1>1, <1>4, <2>2, <2>6 DEF BuUp
      <3>2. /\ BuTypes(row)' /\ bu'.pc = "final" /\ bu'.dev = 1 /\ bu'.todo = row.final
            /\ bu'.pos = 1 /\ bu'.n = bu.n /\ bu'.held = bu.held /\ bu'.bad = bu.bad
            /\ bu'.failed = bu.failed
        BY <2>2, <3>1, BuLoopTo DEF BuPcs
      <3>3. BuHeld(ToSet(row.once), {BuFull(row)}, BuReady(row), {BuReady(row)})'
        BY <2>4, <3>1, <3>2, BuHeldAll
      <3>4. BuHeld(ToSet(row.once), {BuFull(row)}, BuReady(row) \union BuFirst(row.final, bu.pos),
                   {BuReady(row)})'
        BY <2>3, <3>2, <3>3 DEF BuHeld
      <3>5. BuFine' /\ bu'.dev > 0
        BY <1>1, <3>2 DEF BuFine, BuInEach
      <3> QED
        BY <3>2, <3>4, <3>5 DEF BuPhase, BuInFinal
    <2> QED
      BY <2>5, <2>6
  <1>5. CASE BuFail
    <2>1. PICK k, r : k = bu.pos /\ r = row.each[k]
      OBVIOUS
    <2>2. k \in 1 .. Len(row.each) /\ r \notin row.sure
      BY <1>1, <1>5, <2>1, LenProperties DEF BuFail, BuTypes
    <2>3. row.undo[r] \in Seq(BuOf(row))
      BY <2>1, <2>2 DEF BuFits, BuUndoes, BuUndo
    <2>4. /\ BuTypes(row)' /\ bu'.pos = 1 /\ bu'.held = bu.held /\ bu'.bad = bu.bad
          /\ bu'.drv = bu.drv /\ bu'.n = bu.n /\ bu'.pc = "undo" /\ bu'.dev = bu.dev
          /\ bu'.todo = row.undo[r] /\ bu'.failed = r /\ r \in BuOf(row) \ row.sure
      BY <1>1, <1>5, <2>1, <2>3, BuFailTo
    <2>5. BuBroken' /\ bu'.bad = {}
      BY <2>4 DEF BuBroken, BuInEach, BuFine, BuFits, BuLists
    <2>6. BuFirst(row.undo[r], 1) = {}
      BY <2>3, BuFirstFacts
    <2>7. PICK S : S = BuFirst(row.each, k) \ BuFirst(row.undo[r], 1)
      OBVIOUS
    <2>8. BuHeld(ToSet(row.once), {BuReady(row)}, S, {{}})
      BY <1>2, <2>1, <2>6, <2>7
    <2>9. BuHeld(ToSet(row.once), {BuReady(row)}, S, {{}})'
      BY <2>4, <2>8 DEF BuHeld
    <2>10. (BuHeld(ToSet(row.once), {BuReady(row)},
                   BuFirst(row.each, k) \ BuFirst(bu.todo, bu.pos), {{}}))'
      BY <2>4, <2>7, <2>9 DEF BuHeld
    <2> QED
      BY <1>1, <2>1, <2>2, <2>4, <2>5, <2>10 DEF BuPhase, BuInUndoEach
  <1> QED
    BY <1>1, <1>3, <1>4, <1>5 DEF BuNext, BuRelease, BuUnwind, BuExit, BuExited

LEMMA BuFinalKeeps ==
    ASSUME NEW row, BuTypes(row), BuFits(bu.drv, row), BuInFinal(row), BuNext
    PROVE  BuTypes(row)' /\ BuPhase(row)'
  <1>1. BuRow = row /\ bu.pc = "final" /\ bu.dev > 0 /\ bu.dev \in 1 .. bu.n /\ bu.todo = row.final
    BY DEF BuRow, BuTypes, BuInFinal
  <1>2. BuHeld(ToSet(row.once), {BuFull(row)}, BuReady(row) \union BuFirst(row.final, bu.pos),
               {BuReady(row)})
    BY DEF BuInFinal
  <1>3. CASE BuStep
    <2>1. /\ BuTypes(row)' /\ bu'.drv = bu.drv /\ bu'.n = bu.n /\ bu'.pc = bu.pc /\ bu'.dev = bu.dev
          /\ bu'.todo = bu.todo /\ bu'.bad = bu.bad /\ bu'.failed = bu.failed
      BY <1>3, BuStepTo
    <2>2. bu.held[bu.dev] = BuReady(row) \union BuFirst(bu.todo, bu.pos)
      BY <1>1, <1>2 DEF BuHeld
    <2>3. PICK S : S = BuReady(row) \union BuFirst(bu.todo, bu'.pos)
      OBVIOUS
    <2>4. bu'.held = [bu.held EXCEPT ![bu.dev] = S]
      BY <1>3, <2>2, <2>3, BuStepMakes
    <2>5. BuHeld(ToSet(row.once), {BuFull(row)}, S, {BuReady(row)})'
      BY <1>1, <1>2, <2>1, <2>4, BuHeldSet
    <2>6. BuHeld(ToSet(row.once), {BuFull(row)}, BuReady(row) \union BuFirst(row.final, bu.pos),
                 {BuReady(row)})'
      BY <1>1, <2>3, <2>5 DEF BuHeld
    <2>7. BuFine'
      BY <2>1 DEF BuFine, BuInFinal
    <2> QED
      BY <1>1, <2>1, <2>6, <2>7 DEF BuPhase, BuInFinal
  <1>4. CASE BuUp
    <2>1. bu.pos > Len(bu.todo)
      BY <1>4 DEF BuUp
    <2>2. row.final \in Seq(BuOf(row)) /\ << >> \in Seq(BuOf(row)) /\ bu.n \in Nat
      BY DEF BuFits, BuLists, BuTypes
    <2>3. /\ BuReady(row) \union BuFirst(row.final, bu.pos) = BuFull(row)
          /\ BuFirst(row.final, 1) = {}
      BY <1>1, <2>1, <2>2, BuPast, BuFirstFacts DEF BuReady, BuFull
    <2>4. BuHeld(ToSet(row.once), {BuFull(row)}, BuFull(row), {BuReady(row)})
      BY <1>2, <2>3
    <2>5. CASE bu.dev < bu.n
      <3>1. BuLoop("final", bu.dev + 1, row.final) /\ bu.dev + 1 \in 0 .. bu.n
            /\ bu.dev \in 1 .. bu.n - 1
        BY <1>1, <1>4, <2>2, <2>5 DEF BuUp
      <3>2. /\ BuTypes(row)' /\ bu'.pc = "final" /\ bu'.dev = bu.dev + 1 /\ bu'.todo = row.final
            /\ bu'.pos = 1 /\ bu'.n = bu.n /\ bu'.held = bu.held /\ bu'.bad = bu.bad
            /\ bu'.failed = bu.failed
        BY <2>2, <3>1, BuLoopTo DEF BuPcs
      <3>3. BuHeld(ToSet(row.once), {BuFull(row)}, BuReady(row), {BuReady(row)})'
        BY <2>4, <3>1, <3>2, BuHeldUp
      <3>4. BuHeld(ToSet(row.once), {BuFull(row)}, BuReady(row) \union BuFirst(row.final, bu.pos),
                   {BuReady(row)})'
        BY <2>3, <3>2, <3>3 DEF BuHeld
      <3>5. BuFine' /\ bu'.dev > 0
        BY <1>1, <3>2 DEF BuFine, BuInFinal
      <3> QED
        BY <3>2, <3>4, <3>5 DEF BuPhase, BuInFinal
    <2>6. CASE ~(bu.dev < bu.n)
      <3>1. BuLoop("up", 0, << >>) /\ 0 \in 0 .. bu.n /\ bu.dev = bu.n
        BY <1>1, <1>4, <2>2, <2>6 DEF BuUp
      <3>2. /\ BuTypes(row)' /\ bu'.pc = "up" /\ bu'.dev = 0
            /\ bu'.n = bu.n /\ bu'.held = bu.held /\ bu'.bad = bu.bad /\ bu'.failed = bu.failed
        BY <2>2, <3>1, BuLoopTo DEF BuPcs
      <3>3. BuHeld(ToSet(row.once), {}, {}, {BuFull(row)})'
        BY <2>4, <3>1, <3>2, BuHeldAll
      <3>4. BuFine'
        BY <3>2 DEF BuFine, BuInFinal
      <3> QED
        BY <3>2, <3>3, <3>4 DEF BuPhase, BuIsUp
    <2> QED
      BY <2>5, <2>6
  <1>5. ASSUME BuFail PROVE FALSE
    <2>1. bu.pos \in 1 .. Len(row.final) /\ row.final[bu.pos] \notin row.sure
      BY <1>1, <1>5, LenProperties DEF BuFail, BuTypes
    <2>2. row.final \in Seq(BuOf(row)) /\ ToSet(row.final) \subseteq row.sure
      BY DEF BuFits, BuLists
    <2> QED
      BY <2>1, <2>2, LenProperties DEF ToSet
  <1> QED
    BY <1>1, <1>3, <1>4, <1>5 DEF BuNext, BuRelease, BuUnwind, BuExit, BuExited

\* The way back from a device: to the one before, or to what the devices share.
LEMMA BuCleanups ==
    ASSUME NEW row, BuTypes(row), BuFits(bu.drv, row), bu.dev \in 1 .. bu.n,
           BuCleanup(bu.dev - 1), BuBroken, NEW here, NEW after,
           BuHeld(ToSet(row.once), {BuReady(row)}, here, after),
           here \in SUBSET row.leaks, after \subseteq SUBSET row.leaks
    PROVE  BuTypes(row)' /\ BuPhase(row)'
  <1>1. /\ BuRow = row /\ bu.n \in Nat
        /\ row.cleanup \in Seq(BuOf(row)) /\ row.down \in Seq(BuOf(row))
    BY DEF BuRow, BuTypes, BuFits, BuLists
  <1>2. BuFirst(row.cleanup, 1) = {} /\ BuFirst(row.down, 1) = {}
    BY <1>1, BuFirstFacts
  <1>3. PICK shared, ready, stay : /\ shared = ToSet(row.once) /\ ready = BuReady(row)
                                   /\ stay = SUBSET row.leaks
    OBVIOUS
  <1>4. BuHeld(shared, {ready}, here, after) /\ here \in stay /\ after \subseteq stay
    BY <1>3
  <1>5. CASE bu.dev - 1 = 0
    <2>1. BuLoop("abort", 0, row.down) /\ bu.dev = 1 /\ 0 \in 0 .. bu.n
      BY <1>1, <1>5 DEF BuCleanup
    <2>2. /\ BuTypes(row)' /\ bu'.pc = "abort" /\ bu'.dev = 0 /\ bu'.todo = row.down /\ bu'.pos = 1
          /\ bu'.n = bu.n /\ bu'.held = bu.held /\ bu'.bad = bu.bad /\ bu'.failed = bu.failed
          /\ bu'.drv = bu.drv
      BY <1>1, <2>1, BuLoopTo DEF BuPcs
    <2>3. BuHeld(shared, {}, {}, stay)'
      BY <1>4, <2>1, <2>2, BuHeldAll
    <2>4. (BuHeld(ToSet(row.once) \ BuFirst(row.down, bu.pos), {}, {}, SUBSET row.leaks))'
      BY <1>2, <1>3, <2>2, <2>3 DEF BuHeld
    <2>5. BuBroken'
      BY <2>2 DEF BuBroken
    <2> QED
      BY <2>2, <2>4, <2>5 DEF BuPhase, BuInAbort
  <1>6. CASE bu.dev - 1 # 0
    <2>1. BuLoop("unwind", bu.dev - 1, row.cleanup) /\ bu.dev - 1 \in 0 .. bu.n /\ bu.dev - 1 > 0
      BY <1>1, <1>6 DEF BuCleanup
    <2>2. /\ BuTypes(row)' /\ bu'.pc = "unwind" /\ bu'.dev = bu.dev - 1 /\ bu'.todo = row.cleanup
          /\ bu'.pos = 1 /\ bu'.n = bu.n /\ bu'.held = bu.held /\ bu'.bad = bu.bad
          /\ bu'.failed = bu.failed /\ bu'.drv = bu.drv
      BY <1>1, <2>1, BuLoopTo DEF BuPcs
    <2>3. BuHeld(shared, {ready}, ready, stay)'
      BY <1>4, <2>2, BuHeldDown
    <2>4. (BuHeld(ToSet(row.once), {BuReady(row)}, BuReady(row) \ BuFirst(row.cleanup, bu.pos),
                  SUBSET row.leaks))'
      BY <1>2, <1>3, <2>2, <2>3 DEF BuHeld
    <2>5. BuBroken'
      BY <2>2 DEF BuBroken
    <2> QED
      BY <2>1, <2>2, <2>4, <2>5 DEF BuPhase, BuInUnwind
  <1> QED
    BY <1>5, <1>6

\* A loop that releases takes one resource more.
LEMMA BuReleaseKeeps ==
    ASSUME NEW row, BuTypes(row), BuRelease, NEW gaps, NEW S, NEW stay, NEW absent,
           BuReleases(row, gaps, bu.todo, S, stay, absent),
           NEW shared, NEW before, NEW here, NEW after, BuHeld(shared, before, here, after),
           S \ BuFirst(bu.todo, bu.pos) = IF bu.dev = 0 THEN shared ELSE here
    PROVE  /\ bu'.bad \subseteq bu.bad \union absent
           /\ \A T : T = S \ BuFirst(bu.todo, bu'.pos) =>
                 /\ bu.dev > 0 => BuHeld(shared, before, T, after)'
                 /\ bu.dev = 0 => BuHeld(T, before, here, after)'
  <1>1. bu.dev \in 0 .. bu.n /\ bu.n \in Nat
    BY DEF BuTypes
  <1>2. bu.held[bu.dev] = S \ BuFirst(bu.todo, bu.pos)
    <2>1. CASE bu.dev = 0
      BY <2>1 DEF BuHeld
    <2>2. CASE bu.dev # 0
      <3>1. bu.dev \in 1 .. bu.n
        BY <1>1, <2>2
      <3> QED
        BY <2>2, <3>1 DEF BuHeld
    <2> QED
      BY <2>1, <2>2
  <1>3. ASSUME NEW T, T = S \ BuFirst(bu.todo, bu'.pos)
        PROVE  /\ bu.dev > 0 => BuHeld(shared, before, T, after)'
               /\ bu.dev = 0 => BuHeld(T, before, here, after)'
    <2>1. bu'.held = [bu.held EXCEPT ![bu.dev] = T]
      BY <1>2, <1>3, BuReleaseTakes
    <2>2. bu'.dev = bu.dev /\ bu'.n = bu.n
      BY BuReleaseTo
    <2> QED
      BY <2>1, <2>2, BuHeldSet
  <1> QED
    BY <1>2, <1>3, BuReleaseTakes

\* A loop that has come to its end has left what may stay.
LEMMA BuReleased ==
    ASSUME NEW row, BuTypes(row), bu.pos > Len(bu.todo), NEW gaps, NEW S, NEW stay, NEW absent,
           BuReleases(row, gaps, bu.todo, S, stay, absent)
    PROVE  S \ BuFirst(bu.todo, bu.pos) \subseteq stay
  BY BuPast DEF BuReleases

\* init that failed: the labels, the devices before, what they share.
LEMMA BuUndoOnceKeeps ==
    ASSUME NEW row, BuTypes(row), BuFits(bu.drv, row), BuInUndoOnce(row), BuNext
    PROVE  BuTypes(row)' /\ BuPhase(row)'
  <1>1. BuRow = row /\ bu.pc = "undo" /\ bu.dev = 0 /\ BuBroken /\ bu.bad = {}
    BY DEF BuRow, BuTypes, BuInUndoOnce
  <1>2. PICK k \in 1 .. Len(row.once) :
            /\ bu.failed = row.once[k] /\ row.once[k] \notin row.sure
            /\ bu.todo = row.undo[row.once[k]]
            /\ BuHeld(BuFirst(row.once, k) \ BuFirst(bu.todo, bu.pos), {}, {}, {{}})
    BY DEF BuInUndoOnce
  <1>3. PICK gaps : gaps = BuGapsOf(bu.drv)
    OBVIOUS
  <1>4. BuReleases(row, gaps, bu.todo, BuFirst(row.once, k), {}, {})
    BY <1>2, <1>3 DEF BuFits, BuUndoes, BuUndo
  <1>5. PICK S, shared : S = BuFirst(row.once, k) /\ shared = S \ BuFirst(bu.todo, bu.pos)
    OBVIOUS
  <1>6. BuHeld(shared, {}, {}, {{}})
    BY <1>2, <1>5
  <1>7. CASE BuRelease
    <2>1. /\ BuTypes(row)' /\ bu'.drv = bu.drv /\ bu'.n = bu.n /\ bu'.pc = bu.pc /\ bu'.dev = bu.dev
          /\ bu'.todo = bu.todo /\ bu'.failed = bu.failed
      BY <1>7, BuReleaseTo
    <2>2. PICK T : T = S \ BuFirst(bu.todo, bu'.pos)
      OBVIOUS
    <2>3. bu'.bad = {} /\ BuHeld(T, {}, {}, {{}})'
      <3>1. BuReleases(row, gaps, bu.todo, S, {}, {})
        BY <1>4, <1>5
      <3>2. S \ BuFirst(bu.todo, bu.pos) = IF bu.dev = 0 THEN shared ELSE {}
        BY <1>1, <1>5
      <3>3. bu'.bad \subseteq bu.bad \union {}
        BY <1>6, <1>7, <3>1, <3>2, BuReleaseKeeps
      <3>4. BuHeld(T, {}, {}, {{}})'
        BY <1>1, <1>6, <1>7, <2>2, <3>1, <3>2, BuReleaseKeeps
      <3> QED
        BY <1>1, <3>3, <3>4
    <2>4. (BuHeld(BuFirst(row.once, k) \ BuFirst(bu.todo, bu.pos), {}, {}, {{}}))'
      BY <1>5, <2>1, <2>2, <2>3 DEF BuHeld
    <2>5. BuBroken'
      BY <1>1, <2>1, <2>3 DEF BuBroken
    <2> QED
      BY <1>1, <1>2, <2>1, <2>3, <2>4, <2>5 DEF BuPhase, BuInUndoOnce
  <1>8. CASE BuUnwind
    <2>1. BuReturn /\ bu.pos > Len(bu.todo)
      BY <1>1, <1>8 DEF BuUnwind
    <2>2. shared \subseteq {}
      BY <1>4, <1>5, <2>1, BuReleased
    <2>3. BuHeld({}, {}, {}, {{}})
      BY <1>6, <2>2
    <2>4. {{}} \subseteq SUBSET row.leaks
      OBVIOUS
    <2>5. BuLists(row, BuGapsOf(bu.drv))
      BY DEF BuFits
    <2> QED
      BY <1>1, <2>1, <2>3, <2>4, <2>5, BuReturns
  <1> QED
    BY <1>1, <1>7, <1>8 DEF BuNext, BuStep, BuUp, BuFail, BuExit, BuExited

LEMMA BuUndoEachKeeps ==
    ASSUME NEW row, BuTypes(row), BuFits(bu.drv, row), BuInUndoEach(row), BuNext
    PROVE  BuTypes(row)' /\ BuPhase(row)'
  <1>1. /\ BuRow = row /\ bu.pc = "undo" /\ bu.dev > 0 /\ bu.dev \in 1 .. bu.n /\ bu.n \in Nat
        /\ BuBroken /\ bu.bad = {}
    BY DEF BuRow, BuTypes, BuInUndoEach
  <1>2. PICK k \in 1 .. Len(row.each) :
            /\ bu.failed = row.each[k] /\ row.each[k] \notin row.sure
            /\ bu.todo = row.undo[row.each[k]]
            /\ BuHeld(ToSet(row.once), {BuReady(row)},
                      BuFirst(row.each, k) \ BuFirst(bu.todo, bu.pos), {{}})
    BY DEF BuInUndoEach
  <1>3. PICK gaps, shared : gaps = BuGapsOf(bu.drv) /\ shared = ToSet(row.once)
    OBVIOUS
  <1>4. BuReleases(row, gaps, bu.todo, BuFirst(row.each, k), row.leaks, {})
    BY <1>2, <1>3 DEF BuFits, BuUndoes, BuUndo
  <1>5. PICK S, here : S = BuFirst(row.each, k) /\ here = S \ BuFirst(bu.todo, bu.pos)
    OBVIOUS
  <1>6. BuHeld(shared, {BuReady(row)}, here, {{}})
    BY <1>2, <1>3, <1>5
  <1>7. CASE BuRelease
    <2>1. /\ BuTypes(row)' /\ bu'.drv = bu.drv /\ bu'.n = bu.n /\ bu'.pc = bu.pc /\ bu'.dev = bu.dev
          /\ bu'.todo = bu.todo /\ bu'.failed = bu.failed
      BY <1>7, BuReleaseTo
    <2>2. PICK T : T = S \ BuFirst(bu.todo, bu'.pos)
      OBVIOUS
    <2>3. bu'.bad = {} /\ BuHeld(shared, {BuReady(row)}, T, {{}})'
      <3>1. BuReleases(row, gaps, bu.todo, S, row.leaks, {})
        BY <1>4, <1>5
      <3>2. S \ BuFirst(bu.todo, bu.pos) = IF bu.dev = 0 THEN shared ELSE here
        BY <1>1, <1>5
      <3>3. bu'.bad \subseteq bu.bad \union {}
        BY <1>6, <1>7, <3>1, <3>2, BuReleaseKeeps
      <3>4. BuHeld(shared, {BuReady(row)}, T, {{}})'
        BY <1>1, <1>6, <1>7, <2>2, <3>1, <3>2, BuReleaseKeeps
      <3> QED
        BY <1>1, <3>3, <3>4
    <2>4. (BuHeld(ToSet(row.once), {BuReady(row)},
                  BuFirst(row.each, k) \ BuFirst(bu.todo, bu.pos), {{}}))'
      BY <1>3, <1>5, <2>1, <2>2, <2>3 DEF BuHeld
    <2>5. BuBroken'
      BY <1>1, <2>1, <2>3 DEF BuBroken
    <2> QED
      BY <1>1, <1>2, <2>1, <2>3, <2>4, <2>5 DEF BuPhase, BuInUndoEach
  <1>8. CASE BuUnwind
    <2>1. BuCleanup(bu.dev - 1) /\ bu.pos > Len(bu.todo)
      BY <1>1, <1>8 DEF BuUnwind
    <2>2. here \in SUBSET row.leaks
      BY <1>4, <1>5, <2>1, BuReleased
    <2> QED
      BY <1>1, <1>3, <1>6, <2>1, <2>2, BuCleanups
  <1> QED
    BY <1>1, <1>7, <1>8 DEF BuNext, BuStep, BuUp, BuFail, BuExit, BuExited

LEMMA BuUnwindKeeps ==
    ASSUME NEW row, BuTypes(row), BuFits(bu.drv, row), BuInUnwind(row), BuNext
    PROVE  BuTypes(row)' /\ BuPhase(row)'
  <1>1. /\ BuRow = row /\ bu.pc = "unwind" /\ bu.dev > 0 /\ bu.dev \in 1 .. bu.n /\ bu.n \in Nat
        /\ BuBroken /\ bu.todo = row.cleanup
    BY DEF BuRow, BuTypes, BuInUnwind
  <1>2. PICK gaps, shared, absent :
            gaps = BuGapsOf(bu.drv) /\ shared = ToSet(row.once) /\ absent = BuAbsent(bu.drv)
    OBVIOUS
  <1>3. PICK S, here, stay : /\ S = BuReady(row) /\ here = S \ BuFirst(bu.todo, bu.pos)
                             /\ stay = SUBSET row.leaks
    OBVIOUS
  <1>4. BuReleases(row, gaps, bu.todo, S, row.leaks, absent)
    BY <1>1, <1>2, <1>3 DEF BuFits, BuCleans, BuReady
  <1>5. BuHeld(shared, {S}, here, stay)
    BY <1>1, <1>2, <1>3 DEF BuInUnwind
  <1>6. CASE BuRelease
    <2>1. /\ BuTypes(row)' /\ bu'.drv = bu.drv /\ bu'.n = bu.n /\ bu'.pc = bu.pc /\ bu'.dev = bu.dev
          /\ bu'.todo = bu.todo /\ bu'.failed = bu.failed
      BY <1>6, BuReleaseTo
    <2>2. PICK T : T = S \ BuFirst(bu.todo, bu'.pos)
      OBVIOUS
    <2>3. S \ BuFirst(bu.todo, bu.pos) = IF bu.dev = 0 THEN shared ELSE here
      BY <1>1, <1>3
    <2>4. bu'.bad \subseteq bu.bad \union absent
      BY <1>4, <1>5, <1>6, <2>3, BuReleaseKeeps
    <2>5. BuHeld(shared, {S}, T, stay)'
      BY <1>1, <1>4, <1>5, <1>6, <2>2, <2>3, BuReleaseKeeps
    <2>6. (BuHeld(ToSet(row.once), {BuReady(row)}, BuReady(row) \ BuFirst(row.cleanup, bu.pos),
                  SUBSET row.leaks))'
      BY <1>1, <1>2, <1>3, <2>1, <2>2, <2>5 DEF BuHeld
    <2>7. BuBroken'
      BY <1>1, <1>2, <2>1, <2>4 DEF BuBroken
    <2> QED
      BY <1>1, <2>1, <2>6, <2>7 DEF BuPhase, BuInUnwind
  <1>7. CASE BuUnwind
    <2>1. BuCleanup(bu.dev - 1) /\ bu.pos > Len(bu.todo)
      BY <1>1, <1>7 DEF BuUnwind
    <2>2. here \in SUBSET row.leaks
      BY <1>3, <1>4, <2>1, BuReleased
    <2> QED
      BY <1>1, <1>2, <1>3, <1>5, <2>1, <2>2, BuCleanups
  <1> QED
    BY <1>1, <1>6, <1>7 DEF BuNext, BuStep, BuUp, BuFail, BuExit, BuExited

LEMMA BuAbortKeeps ==
    ASSUME NEW row, BuTypes(row), BuFits(bu.drv, row), BuInAbort(row), BuNext
    PROVE  BuTypes(row)' /\ BuPhase(row)'
  <1>1. BuRow = row /\ bu.pc = "abort" /\ bu.dev = 0 /\ bu.todo = row.down /\ BuBroken
    BY DEF BuRow, BuTypes, BuInAbort
  <1>2. PICK gaps, S, shared, stay :
            /\ gaps = BuGapsOf(bu.drv) /\ S = ToSet(row.once)
            /\ shared = S \ BuFirst(bu.todo, bu.pos) /\ stay = SUBSET row.leaks
    OBVIOUS
  <1>3. BuReleases(row, gaps, bu.todo, S, {}, {})
    BY <1>1, <1>2 DEF BuFits, BuCleans
  <1>4. BuHeld(shared, {}, {}, stay)
    BY <1>1, <1>2 DEF BuInAbort
  <1>5. CASE BuRelease
    <2>1. /\ BuTypes(row)' /\ bu'.drv = bu.drv /\ bu'.n = bu.n /\ bu'.pc = bu.pc /\ bu'.dev = bu.dev
          /\ bu'.todo = bu.todo /\ bu'.failed = bu.failed
      BY <1>5, BuReleaseTo
    <2>2. PICK T : T = S \ BuFirst(bu.todo, bu'.pos)
      OBVIOUS
    <2>3. S \ BuFirst(bu.todo, bu.pos) = IF bu.dev = 0 THEN shared ELSE {}
      BY <1>1, <1>2
    <2>4. bu'.bad \subseteq bu.bad \union {}
      BY <1>3, <1>4, <1>5, <2>3, BuReleaseKeeps
    <2>5. BuHeld(T, {}, {}, stay)'
      BY <1>1, <1>3, <1>4, <1>5, <2>2, <2>3, BuReleaseKeeps
    <2>6. (BuHeld(ToSet(row.once) \ BuFirst(row.down, bu.pos), {}, {}, SUBSET row.leaks))'
      BY <1>1, <1>2, <2>1, <2>2, <2>5 DEF BuHeld
    <2>7. BuBroken'
      BY <1>1, <2>1, <2>4 DEF BuBroken
    <2> QED
      BY <1>1, <2>1, <2>6, <2>7 DEF BuPhase, BuInAbort
  <1>6. CASE BuUnwind
    <2>1. BuReturn /\ bu.pos > Len(bu.todo)
      BY <1>1, <1>6 DEF BuUnwind
    <2>2. shared \subseteq {}
      BY <1>2, <1>3, <2>1, BuReleased
    <2>3. BuHeld({}, {}, {}, stay)
      BY <1>4, <2>2
    <2>4. stay \subseteq SUBSET row.leaks /\ BuLists(row, BuGapsOf(bu.drv))
      BY <1>2 DEF BuFits
    <2> QED
      BY <1>1, <2>1, <2>3, <2>4, BuReturns
  <1> QED
    BY <1>1, <1>5, <1>6 DEF BuNext, BuStep, BuUp, BuFail, BuExit, BuExited

\* exit.
LEMMA BuUpKeeps ==
    ASSUME NEW row, BuTypes(row), BuFits(bu.drv, row), BuIsUp(row), BuNext
    PROVE  BuTypes(row)' /\ BuPhase(row)'
  <1>1. BuRow = row /\ bu.pc = "up" /\ bu.dev = 0 /\ BuFine /\ 1 \in 0 .. bu.n
    BY DEF BuRow, BuTypes, BuIsUp
  <1>2. CASE BuExit
    <2>1. BuLoop("exit", 1, row.cleanup) /\ row.cleanup \in Seq(BuOf(row))
      BY <1>1, <1>2 DEF BuExit, BuFits, BuLists
    <2>2. /\ BuTypes(row)' /\ bu'.pc = "exit" /\ bu'.dev = 1 /\ bu'.todo = row.cleanup
          /\ bu'.pos = 1 /\ bu'.n = bu.n /\ bu'.held = bu.held /\ bu'.bad = bu.bad
          /\ bu'.failed = bu.failed
      BY <1>1, <2>1, BuLoopTo DEF BuPcs
    <2>3. PICK shared, full, before :
              shared = ToSet(row.once) /\ full = BuFull(row) /\ before = SUBSET row.leaks
      OBVIOUS
    <2>4. BuHeld(shared, {}, {}, {full})
      BY <2>3 DEF BuIsUp
    <2>5. BuHeld(shared, before, full, {full})'
      BY <1>1, <2>2, <2>4, BuHeldAll
    <2>6. BuFirst(row.cleanup, 1) = {}
      BY <2>1, BuFirstFacts
    <2>7. (BuHeld(ToSet(row.once), SUBSET row.leaks, BuFull(row) \ BuFirst(row.cleanup, bu.pos),
                  {BuFull(row)}))'
      BY <2>2, <2>3, <2>5, <2>6 DEF BuHeld
    <2>8. BuFine' /\ bu'.dev > 0
      BY <1>1, <2>2 DEF BuFine
    <2> QED
      BY <2>2, <2>7, <2>8 DEF BuPhase, BuInExit
  <1> QED
    BY <1>1, <1>2 DEF BuNext, BuStep, BuUp, BuFail, BuRelease, BuUnwind, BuExited

LEMMA BuExitKeeps ==
    ASSUME NEW row, BuTypes(row), BuFits(bu.drv, row), BuInExit(row), BuNext
    PROVE  BuTypes(row)' /\ BuPhase(row)'
  <1>1. /\ BuRow = row /\ bu.pc = "exit" /\ bu.dev > 0 /\ bu.dev \in 1 .. bu.n /\ bu.n \in Nat
        /\ BuFine /\ bu.todo = row.cleanup
    BY DEF BuRow, BuTypes, BuInExit
  <1>2. PICK gaps, shared, stay :
            gaps = BuGapsOf(bu.drv) /\ shared = ToSet(row.once) /\ stay = SUBSET row.leaks
    OBVIOUS
  <1>3. PICK S, here : S = BuFull(row) /\ here = S \ BuFirst(bu.todo, bu.pos)
    OBVIOUS
  <1>4. BuReleases(row, gaps, bu.todo, S, row.leaks, {})
    BY <1>1, <1>2, <1>3 DEF BuFits, BuCleans, BuFull
  <1>5. BuHeld(shared, stay, here, {S})
    BY <1>1, <1>2, <1>3 DEF BuInExit
  <1>6. CASE BuRelease
    <2>1. /\ BuTypes(row)' /\ bu'.drv = bu.drv /\ bu'.n = bu.n /\ bu'.pc = bu.pc /\ bu'.dev = bu.dev
          /\ bu'.todo = bu.todo /\ bu'.failed = bu.failed
      BY <1>6, BuReleaseTo
    <2>2. PICK T : T = S \ BuFirst(bu.todo, bu'.pos)
      OBVIOUS
    <2>3. S \ BuFirst(bu.todo, bu.pos) = IF bu.dev = 0 THEN shared ELSE here
      BY <1>1, <1>3
    <2>4. bu'.bad \subseteq bu.bad \union {}
      BY <1>4, <1>5, <1>6, <2>3, BuReleaseKeeps
    <2>5. BuHeld(shared, stay, T, {S})'
      BY <1>1, <1>4, <1>5, <1>6, <2>2, <2>3, BuReleaseKeeps
    <2>6. (BuHeld(ToSet(row.once), SUBSET row.leaks, BuFull(row) \ BuFirst(row.cleanup, bu.pos),
                  {BuFull(row)}))'
      BY <1>1, <1>2, <1>3, <2>1, <2>2, <2>5 DEF BuHeld
    <2>7. BuFine'
      BY <1>1, <2>1, <2>4 DEF BuFine
    <2> QED
      BY <1>1, <2>1, <2>6, <2>7 DEF BuPhase, BuInExit
  <1>7. CASE BuExited
    <2>1. bu.pos > Len(bu.todo) /\ row.cleanup \in Seq(BuOf(row)) /\ row.down \in Seq(BuOf(row))
      BY <1>7 DEF BuExited, BuFits, BuLists
    <2>2. here \in stay
      BY <1>2, <1>3, <1>4, <2>1, BuReleased
    <2>3. BuFirst(row.cleanup, 1) = {} /\ BuFirst(row.down, 1) = {}
      BY <2>1, BuFirstFacts
    <2>4. CASE bu.dev < bu.n
      <3>1. BuLoop("exit", bu.dev + 1, row.cleanup) /\ bu.dev + 1 \in 0 .. bu.n
            /\ bu.dev \in 1 .. bu.n - 1
        BY <1>1, <1>7, <2>4 DEF BuExited
      <3>2. /\ BuTypes(row)' /\ bu'.pc = "exit" /\ bu'.dev = bu.dev + 1 /\ bu'.todo = row.cleanup
            /\ bu'.pos = 1 /\ bu'.n = bu.n /\ bu'.held = bu.held /\ bu'.bad = bu.bad
            /\ bu'.failed = bu.failed
        BY <2>1, <3>1, BuLoopTo DEF BuPcs
      <3>3. BuHeld(shared, stay, S, {S})'
        BY <1>5, <2>2, <3>1, <3>2, BuHeldUp
      <3>4. (BuHeld(ToSet(row.once), SUBSET row.leaks, BuFull(row) \ BuFirst(row.cleanup, bu.pos),
                    {BuFull(row)}))'
        BY <1>2, <1>3, <2>3, <3>2, <3>3 DEF BuHeld
      <3>5. BuFine' /\ bu'.dev > 0
        BY <1>1, <3>2 DEF BuFine
      <3> QED
        BY <3>2, <3>4, <3>5 DEF BuPhase, BuInExit
    <2>5. CASE ~(bu.dev < bu.n)
      <3>1. BuLoop("down", 0, row.down) /\ 0 \in 0 .. bu.n /\ bu.dev = bu.n
        BY <1>1, <1>7, <2>5 DEF BuExited
      <3>2. /\ BuTypes(row)' /\ bu'.pc = "down" /\ bu'.dev = 0 /\ bu'.todo = row.down
            /\ bu'.pos = 1 /\ bu'.n = bu.n /\ bu'.held = bu.held /\ bu'.bad = bu.bad
            /\ bu'.failed = bu.failed
        BY <2>1, <3>1, BuLoopTo DEF BuPcs
      <3>3. BuHeld(shared, {}, {}, stay)'
        BY <1>5, <2>2, <3>1, <3>2, BuHeldAll
      <3>4. (BuHeld(ToSet(row.once) \ BuFirst(row.down, bu.pos), {}, {}, SUBSET row.leaks))'
        BY <1>2, <2>3, <3>2, <3>3 DEF BuHeld
      <3>5. BuFine'
        BY <1>1, <3>2 DEF BuFine
      <3> QED
        BY <3>2, <3>4, <3>5 DEF BuPhase, BuInDown
    <2> QED
      BY <2>4, <2>5
  <1> QED
    BY <1>1, <1>6, <1>7 DEF BuNext, BuStep, BuUp, BuFail, BuUnwind, BuExit

LEMMA BuDownKeeps ==
    ASSUME NEW row, BuTypes(row), BuFits(bu.drv, row), BuInDown(row), BuNext
    PROVE  BuTypes(row)' /\ BuPhase(row)'
  <1>1. BuRow = row /\ bu.pc = "down" /\ bu.dev = 0 /\ bu.todo = row.down /\ BuFine
    BY DEF BuRow, BuTypes, BuInDown
  <1>2. PICK gaps, S, shared, stay :
            /\ gaps = BuGapsOf(bu.drv) /\ S = ToSet(row.once)
            /\ shared = S \ BuFirst(bu.todo, bu.pos) /\ stay = SUBSET row.leaks
    OBVIOUS
  <1>3. BuReleases(row, gaps, bu.todo, S, {}, {})
    BY <1>1, <1>2 DEF BuFits, BuCleans
  <1>4. BuHeld(shared, {}, {}, stay)
    BY <1>1, <1>2 DEF BuInDown
  <1>5. CASE BuRelease
    <2>1. /\ BuTypes(row)' /\ bu'.drv = bu.drv /\ bu'.n = bu.n /\ bu'.pc = bu.pc /\ bu'.dev = bu.dev
          /\ bu'.todo = bu.todo /\ bu'.failed = bu.failed
      BY <1>5, BuReleaseTo
    <2>2. PICK T : T = S \ BuFirst(bu.todo, bu'.pos)
      OBVIOUS
    <2>3. S \ BuFirst(bu.todo, bu.pos) = IF bu.dev = 0 THEN shared ELSE {}
      BY <1>1, <1>2
    <2>4. bu'.bad \subseteq bu.bad \union {}
      BY <1>3, <1>4, <1>5, <2>3, BuReleaseKeeps
    <2>5. BuHeld(T, {}, {}, stay)'
      BY <1>1, <1>3, <1>4, <1>5, <2>2, <2>3, BuReleaseKeeps
    <2>6. (BuHeld(ToSet(row.once) \ BuFirst(row.down, bu.pos), {}, {}, SUBSET row.leaks))'
      BY <1>1, <1>2, <2>1, <2>2, <2>5 DEF BuHeld
    <2>7. BuFine'
      BY <1>1, <2>1, <2>4 DEF BuFine
    <2> QED
      BY <1>1, <2>1, <2>6, <2>7 DEF BuPhase, BuInDown
  <1>6. CASE BuExited
    <2>1. /\ bu.pos > Len(bu.todo) /\ BuLoop("gone", 0, << >>) /\ 0 \in 0 .. bu.n
          /\ << >> \in Seq(BuOf(row))
      BY <1>1, <1>6 DEF BuExited, BuTypes
    <2>2. shared \subseteq {}
      BY <1>2, <1>3, <2>1, BuReleased
    <2>3. BuHeld({}, {}, {}, stay)
      BY <1>4, <2>2
    <2>4. /\ BuTypes(row)' /\ bu'.pc = "gone" /\ bu'.dev = 0 /\ bu'.n = bu.n /\ bu'.held = bu.held
          /\ bu'.bad = bu.bad /\ bu'.failed = bu.failed
      BY <2>1, BuLoopTo DEF BuPcs
    <2>5. BuHeld({}, {}, {}, stay)'
      BY <1>1, <2>3, <2>4, BuHeldAll
    <2>6. (BuHeld({}, {}, {}, SUBSET row.leaks))'
      BY <1>2, <2>5 DEF BuHeld
    <2>7. BuFine'
      BY <1>1, <2>4 DEF BuFine
    <2> QED
      BY <2>4, <2>6, <2>7 DEF BuPhase, BuIsGone
  <1> QED
    BY <1>1, <1>5, <1>6 DEF BuNext, BuStep, BuUp, BuFail, BuUnwind, BuExit

\* A module that is gone does nothing.
LEMMA BuGoneKeeps ==
    ASSUME NEW row, BuIsGone(row), BuNext
    PROVE  FALSE
  BY DEF BuIsGone, BuNext, BuStep, BuUp, BuFail, BuRelease, BuUnwind, BuExit, BuExited

\* One whose init lied has nothing but the leaks, whatever it releases.
LEMMA BuLiedKeeps ==
    ASSUME NEW row, BuTypes(row), BuFits(bu.drv, row), BuLied(row), BuNext
    PROVE  BuTypes(row)' /\ BuPhase(row)'
  <1>1. /\ BuRow = row /\ bu.n \in Nat /\ bu.dev \in 0 .. bu.n /\ 1 \in 0 .. bu.n
        /\ row.cleanup \in Seq(BuOf(row)) /\ row.down \in Seq(BuOf(row))
        /\ << >> \in Seq(BuOf(row))
    BY DEF BuRow, BuTypes, BuFits, BuLists
  <1>2. CASE BuRelease
    <2>1. /\ BuTypes(row)' /\ bu'.n = bu.n /\ bu'.pc = bu.pc /\ bu'.dev = bu.dev
          /\ bu'.failed = bu.failed
          /\ bu'.held = [bu.held EXCEPT ![bu.dev] = @ \ {bu.todo[bu.pos]}]
      BY <1>2, BuReleaseTo
    <2>2. DOMAIN bu.held = 0 .. bu.n
      BY DEF BuTypes
    <2>3. \A i \in 0 .. bu.n : bu'.held[i] \subseteq bu.held[i]
      BY <2>1, <2>2
    <2>4. bu'.held[0] = {} /\ \A i \in 1 .. bu'.n : bu'.held[i] \subseteq row.leaks
      BY <1>1, <2>1, <2>3 DEF BuLied
    <2> QED
      BY <2>1, <2>4 DEF BuPhase, BuLied
  <1>3. CASE BuExit
    <2>1. BuLoop("exit", 1, row.cleanup)
      BY <1>1, <1>3 DEF BuExit
    <2>2. /\ BuTypes(row)' /\ bu'.pc = "exit" /\ bu'.dev = 1 /\ bu'.n = bu.n
          /\ bu'.held = bu.held /\ bu'.failed = bu.failed
      BY <1>1, <2>1, BuLoopTo DEF BuPcs
    <2> QED
      BY <2>2 DEF BuPhase, BuLied
  <1>4. CASE BuExited /\ bu.pc = "exit" /\ bu.dev < bu.n
    <2>1. BuLoop("exit", bu.dev + 1, row.cleanup) /\ bu.dev + 1 \in 0 .. bu.n /\ bu.dev + 1 > 0
      BY <1>1, <1>4 DEF BuExited
    <2>2. /\ BuTypes(row)' /\ bu'.pc = "exit" /\ bu'.dev = bu.dev + 1 /\ bu'.n = bu.n
          /\ bu'.held = bu.held /\ bu'.failed = bu.failed
      BY <1>1, <2>1, BuLoopTo DEF BuPcs
    <2> QED
      BY <2>1, <2>2 DEF BuPhase, BuLied
  <1>5. CASE BuExited /\ bu.pc = "exit" /\ ~(bu.dev < bu.n)
    <2>1. BuLoop("down", 0, row.down) /\ 0 \in 0 .. bu.n
      BY <1>1, <1>5 DEF BuExited
    <2>2. /\ BuTypes(row)' /\ bu'.pc = "down" /\ bu'.n = bu.n
          /\ bu'.held = bu.held /\ bu'.failed = bu.failed
      BY <1>1, <2>1, BuLoopTo DEF BuPcs
    <2> QED
      BY <2>2 DEF BuPhase, BuLied
  <1>6. CASE BuExited /\ bu.pc = "down"
    <2>1. BuLoop("gone", 0, << >>) /\ 0 \in 0 .. bu.n
      BY <1>1, <1>6 DEF BuExited
    <2>2. /\ BuTypes(row)' /\ bu'.pc = "gone" /\ bu'.n = bu.n
          /\ bu'.held = bu.held /\ bu'.failed = bu.failed
      BY <1>1, <2>1, BuLoopTo DEF BuPcs
    <2> QED
      BY <2>2 DEF BuPhase, BuLied
  <1>7. ~BuStep /\ ~BuUp /\ ~BuFail /\ ~BuUnwind
    BY DEF BuLied, BuStep, BuUp, BuFail, BuUnwind
  <1>8. BuExited => bu.pc \in {"exit", "down"}
    BY DEF BuExited
  <1> QED
    BY <1>2, <1>3, <1>4, <1>5, <1>6, <1>7, <1>8 DEF BuNext

\* The invariant: it holds when the module is loaded, ...
LEMMA BuInitInv == ASSUME BuInit PROVE BuInv
  <1>1. PICK drv \in DOMAIN BuTable, n \in 1 .. BuDevices :
            bu = [drv |-> drv, n |-> n, pc |-> "once", dev |-> 0, todo |-> BuTable[drv].once,
                  pos |-> 1, held |-> [i \in 0 .. n |-> {}], bad |-> {}, failed |-> "none"]
    BY DEF BuInit
  <1>2. PICK row, todo, held : row = BuTable[drv] /\ todo = row.once /\ held = [i \in 0 .. n |-> {}]
    OBVIOUS
  <1>3. bu = [drv |-> drv, n |-> n, pc |-> "once", dev |-> 0, todo |-> todo,
              pos |-> 1, held |-> held, bad |-> {}, failed |-> "none"]
    BY <1>1, <1>2
  <1>4. BuFits(drv, row)
    BY <1>2, BuTablesFit
  <1>5. todo \in Seq(BuOf(row)) /\ 1 \in 1 .. (Len(todo) + 1)
    BY <1>2, <1>4, LenProperties DEF BuFits, BuLists
  <1>6. n \in Nat \ {0} /\ 0 \in 0 .. n
    BY BringupAssumption
  <1>7. held \in [0 .. n -> SUBSET BuOf(row)]
    BY <1>2
  <1>8. BuTypes(row)
    BY <1>2, <1>3, <1>5, <1>6, <1>7 DEF BuTypes, BuPcs
  <1>9. BuFirst(row.once, 1) = {}
    BY <1>2, <1>5, BuFirstFacts
  <1>10. BuHeld(BuFirst(row.once, bu.pos), {}, {}, {{}})
    <2>1. held[0] = {} /\ \A i \in 1 .. n : ~(i < 0) /\ i # 0 /\ held[i] \in {{}}
      BY <1>2, <1>6
    <2> QED
      BY <1>3, <1>9, <2>1 DEF BuHeld
  <1>11. BuInOnce(row)
    BY <1>2, <1>3, <1>10 DEF BuInOnce, BuFine
  <1>12. BuPhase(row)
    BY <1>11 DEF BuPhase
  <1> QED
    BY <1>2, <1>8, <1>12 DEF BuInv

\* ... and every step keeps it.
LEMMA BuInvStep == ASSUME BuInv, [BuNext]_bu PROVE BuInv'
  <1>1. PICK row : row = BuTable[bu.drv]
    OBVIOUS
  <1>2. BuTypes(row) /\ BuPhase(row)
    BY <1>1 DEF BuInv, BuTypes
  <1>3. CASE BuNext
    <2>1. BuFits(bu.drv, row)
      BY <1>1, <1>2, BuTablesFit DEF BuTypes
    <2>2. BuTypes(row)' /\ BuPhase(row)'
      <3>1. CASE BuInOnce(row) \/ BuInEach(row) \/ BuInFinal(row) \/ BuIsUp(row)
        BY <1>2, <1>3, <2>1, <3>1, BuOnceKeeps, BuEachKeeps, BuFinalKeeps, BuUpKeeps
      <3>2. CASE BuInUndoOnce(row) \/ BuInUndoEach(row) \/ BuInUnwind(row) \/ BuInAbort(row)
        BY <1>2, <1>3, <2>1, <3>2, BuUndoOnceKeeps, BuUndoEachKeeps, BuUnwindKeeps, BuAbortKeeps
      <3>3. CASE BuInExit(row) \/ BuInDown(row) \/ BuIsGone(row) \/ BuLied(row)
        BY <1>2, <1>3, <2>1, <3>3, BuExitKeeps, BuDownKeeps, BuGoneKeeps, BuLiedKeeps
      <3> QED
        BY <1>2, <3>1, <3>2, <3>3 DEF BuPhase
    <2>3. row = BuTable[bu'.drv] /\ bu'.drv \in DOMAIN BuTable
      BY <2>2 DEF BuTypes
    <2>4. PICK drv \in DOMAIN BuTable : row = BuTable[drv]
      BY <2>3
    <2>5. BuTypes(BuTable[drv])' /\ BuPhase(BuTable[drv])'
      BY <2>2, <2>4
    <2> QED
      BY <2>5 DEF BuInv
  <1>4. CASE bu' = bu
    <2>1. BuTypes(row)'
      BY <1>2, <1>4 DEF BuTypes
    <2>2. /\ BuInOnce(row) => BuInOnce(row)'
          /\ BuInEach(row) => BuInEach(row)'
          /\ BuInFinal(row) => BuInFinal(row)'
          /\ BuIsUp(row) => BuIsUp(row)'
      BY <1>4 DEF BuInOnce, BuInEach, BuInFinal, BuIsUp, BuHeld, BuFine
    <2>3. /\ BuInUndoOnce(row) => BuInUndoOnce(row)'
          /\ BuInUndoEach(row) => BuInUndoEach(row)'
          /\ BuInUnwind(row) => BuInUnwind(row)'
          /\ BuInAbort(row) => BuInAbort(row)'
      BY <1>4 DEF BuInUndoOnce, BuInUndoEach, BuInUnwind, BuInAbort, BuHeld, BuBroken
    <2>4. /\ BuInExit(row) => BuInExit(row)'
          /\ BuInDown(row) => BuInDown(row)'
          /\ BuIsGone(row) => BuIsGone(row)'
          /\ BuLied(row) => BuLied(row)'
      BY <1>4 DEF BuInExit, BuInDown, BuIsGone, BuLied, BuHeld, BuFine, BuBroken
    <2>5. BuPhase(row)'
      BY <1>2, <2>2, <2>3, <2>4 DEF BuPhase
    <2>6. PICK drv \in DOMAIN BuTable : row = BuTable[drv]
      BY <1>1, <1>2 DEF BuTypes
    <2>7. BuTypes(BuTable[drv])' /\ BuPhase(BuTable[drv])'
      BY <2>1, <2>5, <2>6
    <2> QED
      BY <2>7 DEF BuInv
  <1> QED
    BY <1>3, <1>4

\* The invariant has the types, ...
LEMMA BuInvTypes == ASSUME BuInv PROVE BuTypeOK
  <1>1. PICK row : row = BuTable[bu.drv]
    OBVIOUS
  <1>2. BuTypes(row) /\ BuResources = BuOf(row)
    BY <1>1 DEF BuInv, BuTypes, BuResources, BuRow, BuOf
  <1> QED
    BY <1>2 DEF BuTypes, BuTypeOK, BuPcs

\* A list that fits its driver: what a loop has made, or left, has what it uses.
LEMMA BuMadeClosed ==
    ASSUME NEW row, NEW gaps, BuLists(row, gaps), BuMakes(row, gaps), NEW k \in Nat \ {0}
    PROVE  /\ k <= Len(row.once) + 1 => BuClosed(row, gaps, BuFirst(row.once, k))
           /\ k <= Len(row.each) + 1 => BuClosed(row, gaps, BuFirst(row.each, k))
           /\ k <= Len(row.final) + 1 =>
                 BuClosed(row, gaps, BuReady(row) \union BuFirst(row.final, k))
  <1>1. /\ row.once \in Seq(BuOf(row)) /\ row.each \in Seq(BuOf(row)) /\ row.final \in Seq(BuOf(row))
    BY DEF BuLists
  <1>2. Len(row.once) \in Nat /\ Len(row.each) \in Nat /\ Len(row.final) \in Nat
    BY <1>1, LenProperties
  <1>3. ASSUME k <= Len(row.once) + 1 PROVE BuClosed(row, gaps, BuFirst(row.once, k))
    <2>1. k \in 1 .. Len(row.once) \/ k = Len(row.once) + 1
      BY <1>2, <1>3
    <2> QED
      BY <1>1, <2>1, BuFirstFacts DEF BuMakes
  <1>4. ASSUME k <= Len(row.each) + 1 PROVE BuClosed(row, gaps, BuFirst(row.each, k))
    <2>1. k \in 1 .. Len(row.each) \/ k = Len(row.each) + 1
      BY <1>2, <1>4
    <2> QED
      BY <1>1, <2>1, BuFirstFacts DEF BuMakes
  <1>5. ASSUME k <= Len(row.final) + 1
        PROVE  BuClosed(row, gaps, BuReady(row) \union BuFirst(row.final, k))
    <2>1. k \in 1 .. Len(row.final) \/ k = Len(row.final) + 1
      BY <1>2, <1>5
    <2> QED
      BY <1>1, <2>1, BuFirstFacts DEF BuMakes, BuReady
  <1> QED
    BY <1>3, <1>4, <1>5

LEMMA BuLeftClosed ==
    ASSUME NEW row, BuTypes(row), NEW gaps, NEW S, NEW stay, NEW absent,
           BuReleases(row, gaps, bu.todo, S, stay, absent)
    PROVE  BuClosed(row, gaps, S \ BuFirst(bu.todo, bu.pos))
  <1>1. Len(bu.todo) \in Nat /\ bu.pos \in 1 .. (Len(bu.todo) + 1)
    BY LenProperties DEF BuTypes
  <1>2. bu.pos \in 1 .. Len(bu.todo) \/ bu.pos > Len(bu.todo)
    BY <1>1
  <1> QED
    BY <1>2, BuPast DEF BuReleases

LEMMA BuLeaksClosed ==
    ASSUME NEW row, NEW gaps, BuLists(row, gaps), NEW S \in SUBSET row.leaks
    PROVE  BuClosed(row, gaps, S)
  BY DEF BuLists, BuClosed

LEMMA BuHeldClosed ==
    ASSUME NEW row, BuTypes(row), NEW gaps, NEW shared, NEW before, NEW here, NEW after,
           BuHeld(shared, before, here, after),
           BuClosed(row, gaps, shared), BuClosed(row, gaps, here),
           \A S \in before \union after : BuClosed(row, gaps, S)
    PROVE  \A i \in 0 .. bu.n : BuClosed(row, gaps, bu.held[i])
  <1>1. bu.n \in Nat /\ bu.dev \in 0 .. bu.n
    BY DEF BuTypes
  <1>2. ASSUME NEW i \in 0 .. bu.n PROVE BuClosed(row, gaps, bu.held[i])
    <2>1. CASE i = 0
      BY <2>1 DEF BuHeld
    <2>2. CASE i # 0
      <3>1. i \in 1 .. bu.n /\ (i < bu.dev \/ i = bu.dev \/ i > bu.dev)
        BY <1>1, <2>2
      <3>2. bu.held[i] = here \/ bu.held[i] \in before \union after
        BY <3>1 DEF BuHeld
      <3> QED
        BY <3>2
    <2> QED
      BY <2>1, <2>2
  <1> QED
    BY <1>2

\* A device without what is shared is one that leaks.
LEMMA BuHeldAlone ==
    ASSUME NEW row, BuTypes(row), bu.dev = 0, NEW shared, NEW here, NEW after,
           BuHeld(shared, {}, here, after), after \subseteq SUBSET row.leaks
    PROVE  \A i \in 1 .. bu.n : bu.held[i] \subseteq row.leaks
  <1>1. bu.n \in Nat
    BY DEF BuTypes
  <1>2. \A i \in 1 .. bu.n : i > bu.dev
    BY <1>1
  <1> QED
    BY <1>2 DEF BuHeld

\* Every state of the invariant has what its users use.
LEMMA BuInvClosed ==
    ASSUME NEW row, NEW gaps, gaps = BuGapsOf(bu.drv), BuTypes(row), BuPhase(row),
           BuFits(bu.drv, row)
    PROVE  /\ \A i \in 0 .. bu.n : BuClosed(row, gaps, bu.held[i])
           /\ \/ bu.held[0] = ToSet(row.once)
              \/ \A i \in 1 .. bu.n : bu.held[i] \subseteq row.leaks
  <1>1. BuLists(row, gaps) /\ BuMakes(row, gaps)
    BY DEF BuFits
  <1>2. /\ bu.pos \in Nat \ {0} /\ bu.pos <= Len(bu.todo) + 1
        /\ BuClosed(row, gaps, {}) /\ {{}} \subseteq SUBSET row.leaks
    BY LenProperties DEF BuTypes, BuClosed
  <1>3. PICK shared, ready, full, stay :
            /\ shared = ToSet(row.once) /\ ready = BuReady(row) /\ full = BuFull(row)
            /\ stay = SUBSET row.leaks
    OBVIOUS
  <1>4. BuClosed(row, gaps, shared) /\ BuClosed(row, gaps, ready) /\ BuClosed(row, gaps, full)
    BY <1>1, <1>3 DEF BuMakes, BuReady, BuFull
  <1>5. \A S \in stay : BuClosed(row, gaps, S)
    BY <1>1, <1>3, BuLeaksClosed
  <1>6. CASE BuInOnce(row)
    <2>1. PICK S : S = BuFirst(row.once, bu.pos)
      OBVIOUS
    <2>2. BuHeld(S, {}, {}, {{}}) /\ bu.dev = 0 /\ BuClosed(row, gaps, S)
      BY <1>1, <1>2, <1>6, <2>1, BuMadeClosed DEF BuInOnce
    <2>3. \A T \in {} \union {{}} : BuClosed(row, gaps, T)
      BY <1>2
    <2>4. \A i \in 0 .. bu.n : BuClosed(row, gaps, bu.held[i])
      BY <1>2, <2>2, <2>3, BuHeldClosed
    <2>5. \A i \in 1 .. bu.n : bu.held[i] \subseteq row.leaks
      BY <1>2, <2>2, BuHeldAlone
    <2> QED
      BY <2>4, <2>5
  <1>7. CASE BuInEach(row)
    <2>1. PICK S : S = BuFirst(row.each, bu.pos)
      OBVIOUS
    <2>2. BuHeld(shared, {ready}, S, {{}}) /\ BuClosed(row, gaps, S)
      BY <1>1, <1>2, <1>3, <1>7, <2>1, BuMadeClosed DEF BuInEach
    <2>3. \A T \in {ready} \union {{}} : BuClosed(row, gaps, T)
      BY <1>2, <1>4
    <2>4. bu.held[0] = shared
      BY <2>2 DEF BuHeld
    <2> QED
      BY <1>3, <1>4, <2>2, <2>3, <2>4, BuHeldClosed
  <1>8. CASE BuInFinal(row)
    <2>1. PICK S : S = BuReady(row) \union BuFirst(row.final, bu.pos)
      OBVIOUS
    <2>2. BuHeld(shared, {full}, S, {ready}) /\ BuClosed(row, gaps, S)
      BY <1>1, <1>2, <1>3, <1>8, <2>1, BuMadeClosed DEF BuInFinal
    <2>3. \A T \in {full} \union {ready} : BuClosed(row, gaps, T)
      BY <1>4
    <2>4. bu.held[0] = shared
      BY <2>2 DEF BuHeld
    <2> QED
      BY <1>3, <1>4, <2>2, <2>3, <2>4, BuHeldClosed
  <1>9. CASE BuIsUp(row)
    <2>1. BuHeld(shared, {}, {}, {full})
      BY <1>3, <1>9 DEF BuIsUp
    <2>2. \A T \in {} \union {full} : BuClosed(row, gaps, T)
      BY <1>4
    <2>3. bu.held[0] = shared
      BY <2>1 DEF BuHeld
    <2> QED
      BY <1>2, <1>3, <1>4, <2>1, <2>2, <2>3, BuHeldClosed
  <1>10. CASE BuInUndoOnce(row)
    <2>1. PICK k \in 1 .. Len(row.once) :
              /\ row.once[k] \notin row.sure /\ bu.todo = row.undo[row.once[k]]
              /\ BuHeld(BuFirst(row.once, k) \ BuFirst(bu.todo, bu.pos), {}, {}, {{}})
      BY <1>10 DEF BuInUndoOnce
    <2>2. PICK T, S : T = BuFirst(row.once, k) /\ S = T \ BuFirst(bu.todo, bu.pos)
      OBVIOUS
    <2>3. BuReleases(row, gaps, bu.todo, T, {}, {})
      BY <2>1, <2>2 DEF BuFits, BuUndoes, BuUndo
    <2>4. BuHeld(S, {}, {}, {{}}) /\ bu.dev = 0 /\ BuClosed(row, gaps, S)
      BY <1>10, <2>1, <2>2, <2>3, BuLeftClosed DEF BuInUndoOnce
    <2>5. \A U \in {} \union {{}} : BuClosed(row, gaps, U)
      BY <1>2
    <2>6. \A i \in 0 .. bu.n : BuClosed(row, gaps, bu.held[i])
      BY <1>2, <2>4, <2>5, BuHeldClosed
    <2>7. \A i \in 1 .. bu.n : bu.held[i] \subseteq row.leaks
      BY <1>2, <2>4, BuHeldAlone
    <2> QED
      BY <2>6, <2>7
  <1>11. CASE BuInUndoEach(row)
    <2>1. PICK k \in 1 .. Len(row.each) :
              /\ row.each[k] \notin row.sure /\ bu.todo = row.undo[row.each[k]]
              /\ BuHeld(ToSet(row.once), {BuReady(row)},
                        BuFirst(row.each, k) \ BuFirst(bu.todo, bu.pos), {{}})
      BY <1>11 DEF BuInUndoEach
    <2>2. PICK T, S : T = BuFirst(row.each, k) /\ S = T \ BuFirst(bu.todo, bu.pos)
      OBVIOUS
    <2>3. BuReleases(row, gaps, bu.todo, T, row.leaks, {})
      BY <2>1, <2>2 DEF BuFits, BuUndoes, BuUndo
    <2>4. BuHeld(shared, {ready}, S, {{}}) /\ BuClosed(row, gaps, S)
      BY <1>3, <2>1, <2>2, <2>3, BuLeftClosed
    <2>5. \A U \in {ready} \union {{}} : BuClosed(row, gaps, U)
      BY <1>2, <1>4
    <2>6. bu.held[0] = shared
      BY <2>4 DEF BuHeld
    <2> QED
      BY <1>3, <1>4, <2>4, <2>5, <2>6, BuHeldClosed
  <1>12. CASE BuInUnwind(row)
    <2>1. PICK absent, S : absent = BuAbsent(bu.drv) /\ S = ready \ BuFirst(bu.todo, bu.pos)
      OBVIOUS
    <2>2. BuReleases(row, gaps, bu.todo, ready, row.leaks, absent)
      BY <1>3, <1>12, <2>1 DEF BuFits, BuCleans, BuReady, BuInUnwind
    <2>3. BuHeld(shared, {ready}, S, stay) /\ BuClosed(row, gaps, S)
      BY <1>3, <1>12, <2>1, <2>2, BuLeftClosed DEF BuInUnwind
    <2>4. \A U \in {ready} \union stay : BuClosed(row, gaps, U)
      BY <1>4, <1>5
    <2>5. bu.held[0] = shared
      BY <2>3 DEF BuHeld
    <2> QED
      BY <1>3, <1>4, <2>3, <2>4, <2>5, BuHeldClosed
  <1>13. CASE BuInAbort(row) \/ BuInDown(row)
    <2>1. PICK S : S = shared \ BuFirst(bu.todo, bu.pos)
      OBVIOUS
    <2>2. bu.dev = 0 /\ bu.todo = row.down
      BY <1>13 DEF BuInAbort, BuInDown
    <2>3. BuReleases(row, gaps, bu.todo, shared, {}, {})
      BY <1>3, <2>2 DEF BuFits, BuCleans
    <2>4. BuHeld(S, {}, {}, stay) /\ BuClosed(row, gaps, S)
      BY <1>3, <1>13, <2>1, <2>2, <2>3, BuLeftClosed DEF BuInAbort, BuInDown
    <2>5. \A i \in 0 .. bu.n : BuClosed(row, gaps, bu.held[i])
      BY <1>2, <1>5, <2>4, BuHeldClosed
    <2>6. \A i \in 1 .. bu.n : bu.held[i] \subseteq row.leaks
      BY <1>3, <2>2, <2>4, BuHeldAlone
    <2> QED
      BY <2>5, <2>6
  <1>14. CASE BuInExit(row)
    <2>1. PICK S : S = full \ BuFirst(bu.todo, bu.pos)
      OBVIOUS
    <2>2. BuReleases(row, gaps, bu.todo, full, row.leaks, {})
      BY <1>3, <1>14 DEF BuFits, BuCleans, BuFull, BuInExit
    <2>3. BuHeld(shared, stay, S, {full}) /\ BuClosed(row, gaps, S)
      BY <1>3, <1>14, <2>1, <2>2, BuLeftClosed DEF BuInExit
    <2>4. \A U \in stay \union {full} : BuClosed(row, gaps, U)
      BY <1>4, <1>5
    <2>5. bu.held[0] = shared
      BY <2>3 DEF BuHeld
    <2> QED
      BY <1>3, <1>4, <2>3, <2>4, <2>5, BuHeldClosed
  <1>15. CASE BuIsGone(row)
    <2>1. BuHeld({}, {}, {}, stay) /\ bu.dev = 0
      BY <1>3, <1>15 DEF BuIsGone
    <2>2. \A i \in 0 .. bu.n : BuClosed(row, gaps, bu.held[i])
      BY <1>2, <1>5, <2>1, BuHeldClosed
    <2>3. \A i \in 1 .. bu.n : bu.held[i] \subseteq row.leaks
      BY <1>3, <2>1, BuHeldAlone
    <2> QED
      BY <2>2, <2>3
  <1>16. CASE BuLied(row)
    <2>1. bu.held[0] = {} /\ \A i \in 1 .. bu.n : bu.held[i] \in stay
      BY <1>3, <1>16 DEF BuLied
    <2>2. \A i \in 0 .. bu.n : i = 0 \/ i \in 1 .. bu.n
      BY DEF BuTypes
    <2> QED
      BY <1>2, <1>3, <1>5, <2>1, <2>2
  <1> QED
    BY <1>6, <1>7, <1>8, <1>9, <1>10, <1>11, <1>12, <1>13, <1>14, <1>15, <1>16 DEF BuPhase

\* ... and what is promised.
LEMMA BuInvSound == ASSUME BuInv PROVE BringupSound
  <1>1. PICK row, gaps : row = BuTable[bu.drv] /\ gaps = BuGapsOf(bu.drv)
    OBVIOUS
  <1>2. BuTypes(row) /\ BuPhase(row) /\ BuRow = row
    BY <1>1 DEF BuInv, BuTypes, BuRow
  <1>3. BuFits(bu.drv, row) /\ bu.n \in Nat
    BY <1>1, <1>2, BuTablesFit DEF BuTypes
  <1>4. bu.failed \in row.lies \/ BuFine \/ BuBroken
    BY <1>2 DEF BuPhase, BuInOnce, BuInEach, BuInFinal, BuIsUp, BuInUndoOnce, BuInUndoEach,
                BuInUnwind, BuInAbort, BuInExit, BuInDown, BuIsGone, BuLied
  <1>5. bu.failed \in row.lies \/ \A r \in bu.bad :
            bu.drv = "virtblock" /\ r = "added" /\ bu.failed # "none"
    BY <1>4 DEF BuFine, BuBroken, BuAbsent
  <1>6. /\ \A i \in 0 .. bu.n : BuClosed(row, gaps, bu.held[i])
        /\ \/ bu.held[0] = ToSet(row.once)
           \/ \A i \in 1 .. bu.n : bu.held[i] \subseteq row.leaks
    BY <1>1, <1>2, <1>3, BuInvClosed
  <1>7. ASSUME NEW i \in 0 .. bu.n, NEW r \in bu.held[i]
        PROVE  /\ \A p \in row.needs :
                     p[1] = r => p[2] \in bu.held[i] \/ <<bu.drv, r>> \in BuGaps
               /\ i = 0 \/ r \in row.leaks \/ ToSet(row.once) \subseteq bu.held[0]
    <2>1. ASSUME NEW p \in row.needs, p[1] = r
          PROVE  p[2] \in bu.held[i] \/ <<bu.drv, r>> \in BuGaps
      BY <1>1, <1>6, <1>7, <2>1 DEF BuClosed, BuGapsOf
    <2>2. i = 0 \/ i \in 1 .. bu.n
      BY <1>3
    <2>3. i = 0 \/ r \in row.leaks \/ ToSet(row.once) \subseteq bu.held[0]
      BY <1>6, <1>7, <2>2
    <2> QED
      BY <2>1, <2>3
  <1>8. bu.pc = "gone" => BuIsGone(row) \/ BuLied(row)
    BY <1>2 DEF BuPhase, BuInOnce, BuInEach, BuInFinal, BuIsUp, BuInUndoOnce, BuInUndoEach,
                BuInUnwind, BuInAbort, BuInExit, BuInDown
  <1>9. ASSUME bu.pc = "gone"
        PROVE  bu.held[0] = {} /\ \A i \in 1 .. bu.n : bu.held[i] \subseteq row.leaks
    <2>1. CASE BuIsGone(row)
      <3>1. PICK stay : stay = SUBSET row.leaks
        OBVIOUS
      <3>2. BuHeld({}, {}, {}, stay) /\ bu.dev = 0
        BY <2>1, <3>1 DEF BuIsGone
      <3> QED
        BY <1>2, <3>1, <3>2, BuHeldAlone DEF BuHeld
    <2>2. CASE BuLied(row)
      BY <2>2 DEF BuLied
    <2> QED
      BY <1>8, <1>9, <2>1, <2>2
  <1> QED
    BY <1>2, <1>5, <1>7, <1>9 DEF BringupSound
=============================================================================
