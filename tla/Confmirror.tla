----------------------------- MODULE Confmirror ----------------------------
(***************************************************************************)
(* confmirror: every item made in its configfs directory is mirrored by a  *)
(* kobject in sysfs.  The item's memory is counted by configfs (the item   *)
(* itself, its open files) and by the kobject, which is released when the  *)
(* last read of its file has ended.  mkdir and rmdir in the directory are  *)
(* serialised by configfs; there is one name, so one item at a time.       *)
(***************************************************************************)
EXTENDS Integers

CONSTANTS
    Item,      \* the items that can ever be allocated; memory is not reused
    NoItem,
    MaxFiles   \* how often an item's files can be open at once: a bound for model checking

ASSUME ConfmirrorAssumption == NoItem \notin Item /\ MaxFiles \in Nat

VARIABLES
    cm,      \* per item: struct confmirror_item and its users, see CmInit
    cmDir,   \* where mkdir or rmdir is, and its item
    cmUp,    \* the module is loaded
    cmOops   \* "none", or what was used after it was freed: "item" or "name"

cmVars == <<cm, cmDir, cmUp, cmOops>>

CmIdle == [pc |-> "idle", item |-> NoItem, rmdir |-> FALSE]

CmInit ==
    /\ cm = [c \in Item |->
               [mem   |-> "unused",   \* "unused", "live" or "freed"
                refs  |-> 0,          \* of the config_item
                dir   |-> FALSE,      \* the directory is in configfs
                kobj  |-> "none",     \* "none", "live" or "released"
                files |-> 0,          \* open files in configfs
                reads |-> 0]]         \* reads in sysfs
    /\ cmDir = CmIdle /\ cmUp = TRUE /\ cmOops = "none"

CmAt(pc) == cmDir.pc = pc
CmGoto(pc) == cmDir' = [cmDir EXCEPT !.pc = pc]
CmSet(c, item) == cm' = [cm EXCEPT ![c] = item]

\* config_item_put: the last reference frees the item.
CmPut(item) ==
    [item EXCEPT !.refs = @ - 1, !.mem = IF item.refs = 1 THEN "freed" ELSE @]

-----------------------------------------------------------------------------
(* mkdir and rmdir.                                                        *)

CmMake(c) ==
    /\ CmAt("idle") /\ cmUp
    /\ cm[c].mem = "unused" /\ \A d \in Item : ~cm[d].dir
    /\ CmSet(c, [cm[c] EXCEPT !.mem = "live", !.refs = 1])
    /\ cmDir' = [pc |-> "add", item |-> c, rmdir |-> FALSE]
    /\ UNCHANGED <<cmUp, cmOops>>

\* kobject_add: the name is in sysfs until the last item's kobject is released.
CmAdd(c) ==
    /\ CmAt("add") /\ cmDir.item = c
    /\ \/ /\ \A d \in Item : cm[d].kobj # "live"
          /\ CmSet(c, [cm[c] EXCEPT !.kobj = "live"])
          /\ CmGoto("get")
       \/ /\ CmSet(c, [cm[c] EXCEPT !.mem = "freed", !.refs = 0])
          /\ cmDir' = CmIdle
    /\ UNCHANGED <<cmUp, cmOops>>

\* Mutant of CmGet: no reference for the kobject.
CmGetNot(c) ==
    /\ CmAt("get") /\ cmDir.item = c
    /\ CmGoto("attach")
    /\ UNCHANGED <<cm, cmUp, cmOops>>

CmGet(c) ==
    /\ CmAt("get") /\ cmDir.item = c
    /\ CmSet(c, [cm[c] EXCEPT !.refs = @ + 1])
    /\ CmGoto("attach")
    /\ UNCHANGED <<cmUp, cmOops>>

\* configfs makes the directory, or drops the item again when it cannot.
CmAttach(c) ==
    /\ CmAt("attach") /\ cmDir.item = c
    /\ \/ CmSet(c, [cm[c] EXCEPT !.dir = TRUE]) /\ cmDir' = CmIdle
       \/ CmGoto("drop") /\ UNCHANGED cm
    /\ UNCHANGED <<cmUp, cmOops>>

\* rmdir has a reference of its own while it drops the item.
CmRmdir(c) ==
    /\ CmAt("idle") /\ cm[c].dir
    /\ CmSet(c, [cm[c] EXCEPT !.dir = FALSE, !.refs = @ + 1])
    /\ cmDir' = [pc |-> "drop", item |-> c, rmdir |-> TRUE]
    /\ UNCHANGED <<cmUp, cmOops>>

\* confmirror_drop_item, first line.
CmDrop(c) ==
    /\ CmAt("drop") /\ cmDir.item = c
    /\ CmSet(c, CmPut(cm[c]))
    /\ CmGoto("kobj")
    /\ UNCHANGED <<cmUp, cmOops>>

\* And second: kobject_put waits for the reads of the file, then comes the release.
CmKobjPut(c) ==
    /\ CmAt("kobj") /\ cmDir.item = c
    /\ IF cm[c].mem # "live"
       THEN cmOops' = "item" /\ UNCHANGED <<cm, cmDir>>
       ELSE /\ cm[c].reads = 0
            /\ CmSet(c, CmPut([cm[c] EXCEPT !.kobj = "released"]))
            /\ IF cmDir.rmdir THEN CmGoto("end") ELSE cmDir' = CmIdle
            /\ UNCHANGED cmOops
    /\ UNCHANGED cmUp

CmRmdirEnd(c) ==
    /\ CmAt("end") /\ cmDir.item = c
    /\ CmSet(c, CmPut(cm[c]))
    /\ cmDir' = CmIdle
    /\ UNCHANGED <<cmUp, cmOops>>

-----------------------------------------------------------------------------
(* The files.                                                              *)

\* An open file in configfs has a reference to the item.
CmOpen(c) ==
    /\ cm[c].dir /\ cm[c].files < MaxFiles
    /\ CmSet(c, [cm[c] EXCEPT !.files = @ + 1, !.refs = @ + 1])
    /\ UNCHANGED <<cmDir, cmUp, cmOops>>

CmClose(c) ==
    /\ cm[c].files > 0
    /\ CmSet(c, CmPut([cm[c] EXCEPT !.files = @ - 1]))
    /\ UNCHANGED <<cmDir, cmUp, cmOops>>

\* show and store use the value, and print the kobject's name.
CmUse(c) ==
    /\ cm[c].files > 0
    /\ cmOops' = IF cm[c].mem # "live" THEN "item"
                 ELSE IF cm[c].kobj # "live" THEN "name" ELSE "none"
    /\ UNCHANGED <<cm, cmDir, cmUp>>

\* A read in sysfs, which nothing but the kobject's removal waits for.
CmRead(c) ==
    /\ cm[c].kobj = "live" /\ cm[c].reads < MaxFiles
    /\ CmSet(c, [cm[c] EXCEPT !.reads = @ + 1])
    /\ UNCHANGED <<cmDir, cmUp, cmOops>>

CmReadEnd(c) ==
    /\ cm[c].reads > 0
    /\ CmSet(c, [cm[c] EXCEPT !.reads = @ - 1])
    /\ cmOops' = IF cm[c].mem # "live" THEN "item" ELSE cmOops
    /\ UNCHANGED <<cmDir, cmUp>>

\* Items and open files pin the module, and mkdir fails once it goes.
CmExit ==
    /\ cmUp /\ CmAt("idle") /\ \A c \in Item : ~cm[c].dir /\ cm[c].files = 0
    /\ cmUp' = FALSE
    /\ UNCHANGED <<cm, cmDir, cmOops>>

CmStep(c) ==
    \/ CmMake(c) \/ CmAdd(c) \/ CmGet(c) \/ CmAttach(c) \/ CmRmdir(c) \/ CmDrop(c)
    \/ CmKobjPut(c) \/ CmRmdirEnd(c)
    \/ CmOpen(c) \/ CmClose(c) \/ CmUse(c) \/ CmRead(c) \/ CmReadEnd(c)

CmNext ==
    /\ cmOops = "none"
    /\ CmExit \/ \E c \in Item : CmStep(c)

-----------------------------------------------------------------------------
(* Properties.                                                             *)

CmItem == [mem : {"unused", "live", "freed"}, refs : Nat, dir : BOOLEAN,
           kobj : {"none", "live", "released"}, files : Nat, reads : Nat]

\* The variables of confmirror have their types.
CmTypeOK ==
    /\ cm \in [Item -> CmItem]
    /\ cmDir \in [pc : {"idle", "add", "get", "attach", "drop", "kobj", "end"},
                  item : Item \union {NoItem}, rmdir : BOOLEAN]
    /\ cmUp \in BOOLEAN /\ cmOops \in {"none", "item", "name"}

\* Who has a reference: configfs until it drops the item, the kobject, rmdir, files.
CmBusy(c, pcs) == cmDir.item = c /\ cmDir.pc \in pcs
CmOne(b) == IF b THEN 1 ELSE 0
CmHolders(c) ==
    CmOne(cm[c].dir \/ CmBusy(c, {"add", "get", "attach", "drop"}))
      + CmOne(cm[c].kobj = "live" /\ ~CmBusy(c, {"get"}))
      + CmOne(cmDir.rmdir /\ CmBusy(c, {"drop", "kobj", "end"}))
      + cm[c].files

\* The item's references are exactly those of its holders and its memory is there
\* exactly as long as it has one, however reads in sysfs, open files, mkdir and rmdir
\* are interleaved: nobody uses a freed item.  Outside mkdir and rmdir an item is in
\* configfs exactly when it is in sysfs (test.sh tests both), and what is used after
\* it was freed is at most the name of a kobject, by a file open across rmdir.
Mirrored ==
    /\ cmOops # "item"
    /\ cmOops = "name" => \E c \in Item : cm[c].files > 0 /\ cm[c].kobj # "live"
    /\ \A c \in Item :
          /\ cm[c].refs = CmHolders(c)
          /\ cm[c].mem = "live" <=> cm[c].refs > 0
          /\ cm[c].reads > 0 => cm[c].kobj = "live"
          /\ cmDir.item # c => (cm[c].dir <=> cm[c].kobj = "live")
=============================================================================
