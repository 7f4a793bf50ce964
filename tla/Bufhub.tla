------------------------------- MODULE Bufhub -------------------------------
(***************************************************************************)
(* The life of clipboards in bufhub/bufhub.c: created and destroyed        *)
(* through an open control device (a master), opened and closed through    *)
(* their own device nodes, reference counted, found through a table of     *)
(* minors.  Masters and files act concurrently; the steps are the pieces   *)
(* of code between two points at which another thread can interfere.  An   *)
(* open control device has one ioctl at a time; where a second one does    *)
(* harm, IoctlRaces ends the behaviour.  What a clipboard's buffer holds   *)
(* is not part of this module.                                             *)
(***************************************************************************)
EXTENDS Integers, Sequences, FiniteSets

CONSTANTS
    Master,   \* open file descriptions of the control device
    File,     \* open file descriptions of clipboards
    Clip,     \* clipboards that can ever be allocated; memory is not reused
    Slots,    \* bufhub_max_clipboards
    Null

Slot == 0 .. (Slots - 1)
Thread == Master \union File

ASSUME BufhubAssumption ==
    /\ Slots \in Nat \ {0} /\ IsFiniteSet(File) /\ Master \intersect File = {}
    /\ Null \notin Master \union Clip \union Slot

VARIABLES
    ptrs,     \* bufhub_clipboard_ptrs: the clipboard of each minor
    node,     \* the devices of the clipboard class, by minor
    mem,      \* "unused", "alloc" (not initialised yet), "live" or "freed"
    slot,     \* MINOR(dev->dev->devt)
    kref,     \* dev->kref
    master,   \* dev->master
    locked,   \* clipboards whose buf_mutex is held across steps
    slaves,   \* master->slaves_list, most recent first
    pc,       \* where each thread is
    cur,      \* the clipboard a thread works on; for an open file private_data
    next,     \* the cursor of list_for_each_entry_safe in miscdev_release
    closing,  \* masters inside miscdev_release
    dropped,  \* history: clipboards an IOCDESTROY put or a failing IOCCREATE freed
    oops      \* "none", or where freed or missing memory was accessed

vars == <<ptrs, node, mem, slot, kref, master, locked, slaves, pc, cur, next, closing,
          dropped, oops>>

Goto(x, l) == pc' = [pc EXCEPT ![x] = l]
Hold(x, c) == cur' = [cur EXCEPT ![x] = c]

\* list_del, for an entry that is on the list; on any other it is an error.
Without(s, c) ==
    LET i == CHOOSE i \in DOMAIN s : s[i] = c
    IN  SubSeq(s, 1, i - 1) \o SubSeq(s, i + 1, Len(s))
Linked(c, m) == \E i \in DOMAIN slaves[m] : slaves[m][i] = c

\* An access to freed or missing memory: nothing is said of what follows.
Oops(where) ==
    /\ oops' = where
    /\ UNCHANGED <<ptrs, node, mem, slot, kref, master, locked, slaves, pc, cur, next,
                   closing, dropped>>

Init ==
    /\ ptrs = [s \in Slot |-> Null]
    /\ node = [s \in Slot |-> Null]
    /\ mem = [c \in Clip |-> "unused"]
    /\ slot = [c \in Clip |-> 0]
    /\ kref = [c \in Clip |-> 0]
    /\ master = [c \in Clip |-> Null]
    /\ locked = {}
    /\ slaves = [m \in Master |-> << >>]
    /\ pc = [x \in Thread |-> "closed"]
    /\ cur = [x \in Thread |-> Null]
    /\ next = [m \in Master |-> Null]
    /\ closing = {}
    /\ dropped = {}
    /\ oops = "none"

-----------------------------------------------------------------------------
(* bufhub_clipboard_put and, for the last reference, clipboard_destroy.    *)

\* Where a thread goes once its put is done.
AfterPut(x) == IF x \in File THEN "closed" ELSE IF x \in closing THEN "r_loop" ELSE "open"

\* A put of a count that is zero already belongs to no reference.
Put(x) ==
    LET c == cur[x] IN
    /\ pc[x] = "put"
    /\ IF mem[c] = "freed" \/ kref[c] = 0
       THEN Oops("put")
       ELSE /\ kref' = [kref EXCEPT ![c] = @ - 1]
            /\ Goto(x, IF kref'[c] = 0 THEN "x_unlink" ELSE AfterPut(x))
            /\ Hold(x, IF kref'[c] = 0 THEN c ELSE Null)
            /\ UNCHANGED <<ptrs, node, mem, slot, master, locked, slaves, next, closing,
                           dropped, oops>>

\* Under master_lock and slaves_list_lock: leave the master's list, if any.
DestroyUnlink(x) ==
    LET c == cur[x] IN
    /\ pc[x] = "x_unlink"
    /\ IF master[c] # Null /\ ~Linked(c, master[c])
       THEN Oops("unlink")
       ELSE /\ slaves' = IF master[c] = Null THEN slaves
                         ELSE [slaves EXCEPT ![master[c]] = Without(@, c)]
            /\ Goto(x, "x_node")
            /\ UNCHANGED <<ptrs, node, mem, slot, kref, master, locked, cur, next, closing,
                           dropped, oops>>

DestroyNode(x) ==
    /\ pc[x] = "x_node"
    /\ node' = [node EXCEPT ![slot[cur[x]]] = Null]
    /\ Goto(x, "x_slot")
    /\ UNCHANGED <<ptrs, mem, slot, kref, master, locked, slaves, cur, next, closing,
                   dropped, oops>>

DestroySlot(x) ==
    /\ pc[x] = "x_slot"
    /\ ptrs' = [ptrs EXCEPT ![slot[cur[x]]] = Null]
    /\ Goto(x, "x_free")
    /\ UNCHANGED <<node, mem, slot, kref, master, locked, slaves, cur, next, closing,
                   dropped, oops>>

DestroyFree(x) ==
    /\ pc[x] = "x_free"
    /\ mem' = [mem EXCEPT ![cur[x]] = "freed"]
    /\ Goto(x, AfterPut(x))
    /\ Hold(x, Null)
    /\ UNCHANGED <<ptrs, node, slot, kref, master, locked, slaves, next, closing, dropped,
                   oops>>

Putting(x) ==
    Put(x) \/ DestroyUnlink(x) \/ DestroyNode(x) \/ DestroySlot(x) \/ DestroyFree(x)

-----------------------------------------------------------------------------
(* The control device.                                                     *)

MiscdevOpen(m) ==
    /\ pc[m] = "closed"
    /\ Goto(m, "open")
    /\ slaves' = [slaves EXCEPT ![m] = << >>]
    /\ UNCHANGED <<ptrs, node, mem, slot, kref, master, locked, cur, next, closing, dropped,
                   oops>>

\* The minors below bufhub_max_clipboards that have no clipboard.
Free == {s \in Slot : ptrs[s] = Null}

\* BUFHUB_IOCCREATE: a zeroed clipboard takes the first free minor.  Without
\* memory or a free minor the ioctl fails and changes nothing.
CreateAlloc(m) ==
    /\ pc[m] = "open"
    /\ \E c \in Clip, s \in Free :
         /\ mem[c] = "unused"
         /\ \A r \in Free : s <= r
         /\ ptrs' = [ptrs EXCEPT ![s] = c]
         /\ slot' = [slot EXCEPT ![c] = s]
         /\ mem' = [mem EXCEPT ![c] = "alloc"]
         /\ Hold(m, c)
    /\ Goto(m, "c_init")
    /\ UNCHANGED <<node, kref, master, locked, slaves, next, closing, dropped, oops>>

\* kref_init, and buf_mutex taken to block I/O until everything is in place.
CreateInit(m) ==
    LET c == cur[m] IN
    /\ pc[m] = "c_init"
    /\ master' = [master EXCEPT ![c] = m]
    /\ kref' = [kref EXCEPT ![c] = 1]
    /\ mem' = [mem EXCEPT ![c] = "live"]
    /\ locked' = locked \union {c}
    /\ Goto(m, "c_node")
    /\ UNCHANGED <<ptrs, node, slot, slaves, cur, next, closing, dropped, oops>>

CreateNode(m) ==
    /\ pc[m] = "c_node"
    /\ \/ node' = [node EXCEPT ![slot[cur[m]]] = cur[m]] /\ Goto(m, "c_link")
       \/ Goto(m, "c_undo") /\ UNCHANGED node
    /\ UNCHANGED <<ptrs, mem, slot, kref, master, locked, slaves, cur, next, closing, dropped,
                   oops>>

\* list_add and mutex_unlock; whether put_user then fails changes nothing.
CreateLink(m) ==
    LET c == cur[m] IN
    /\ pc[m] = "c_link"
    /\ slaves' = [slaves EXCEPT ![m] = <<c>> \o @]
    /\ locked' = locked \ {c}
    /\ Goto(m, "open")
    /\ Hold(m, Null)
    /\ UNCHANGED <<ptrs, node, mem, slot, kref, master, next, closing, dropped, oops>>

\* device_create failed: the clipboard goes, whatever its reference count.
CreateUndo(m) ==
    LET c == cur[m] IN
    /\ pc[m] = "c_undo"
    /\ locked' = locked \ {c}
    /\ ptrs' = [ptrs EXCEPT ![slot[c]] = Null]
    /\ mem' = [mem EXCEPT ![c] = "freed"]
    /\ Goto(m, "open")
    /\ Hold(m, Null)
    /\ dropped' = dropped \union {c}
    /\ UNCHANGED <<node, slot, kref, master, slaves, next, closing, oops>>

\* BUFHUB_IOCDESTROY: class_for_each_device finds the clipboard, no reference
\* is taken.
DestroyLookup(m) ==
    /\ pc[m] = "open"
    /\ \E s \in Slot : node[s] # Null /\ Hold(m, node[s])
    /\ Goto(m, "d_check")
    /\ UNCHANGED <<ptrs, node, mem, slot, kref, master, locked, slaves, next, closing, dropped,
                   oops>>

DestroyCheck(m) ==
    LET c == cur[m] IN
    /\ pc[m] = "d_check"
    /\ IF mem[c] = "freed"
       THEN Oops("lookup")
       ELSE /\ IF master[c] = m
               THEN Goto(m, "put") /\ dropped' = dropped \union {c} /\ UNCHANGED cur
               ELSE Goto(m, "open") /\ Hold(m, Null) /\ UNCHANGED dropped
            /\ UNCHANGED <<ptrs, node, mem, slot, kref, master, locked, slaves, next, closing,
                           oops>>

\* miscdev_release walks the slaves, dropping the list's lock around each put.
First(s) == IF s = << >> THEN Null ELSE Head(s)

MiscdevRelease(m) ==
    /\ pc[m] = "open"
    /\ closing' = closing \union {m}
    /\ next' = [next EXCEPT ![m] = First(slaves[m])]
    /\ Goto(m, "r_loop")
    /\ UNCHANGED <<ptrs, node, mem, slot, kref, master, locked, slaves, cur, dropped, oops>>

\* Mutant of ReleaseNext: the walk stops after the first slave.
ReleaseFirstOnly(m) ==
    /\ pc[m] = "r_loop"
    /\ IF next[m] # Null /\ next[m] = First(slaves[m]) /\ Len(slaves[m]) > 1
       THEN Goto(m, "r_unlink") /\ Hold(m, next[m]) /\ UNCHANGED closing
       ELSE Goto(m, "closed") /\ closing' = closing \ {m} /\ UNCHANGED cur
    /\ next' = [next EXCEPT ![m] = Null]
    /\ UNCHANGED <<ptrs, node, mem, slot, kref, master, locked, slaves, dropped, oops>>

\* The cursor was read before the lock was dropped: its clipboard may be gone.
ReleaseNext(m) ==
    LET c == next[m] IN
    /\ pc[m] = "r_loop"
    /\ IF c = Null
       THEN /\ Goto(m, "closed")
            /\ closing' = closing \ {m}
            /\ UNCHANGED <<ptrs, node, mem, slot, kref, master, locked, slaves, cur, next,
                           dropped, oops>>
       ELSE IF c # First(slaves[m])
       THEN Oops("walk")
       ELSE /\ next' = [next EXCEPT ![m] = First(Tail(slaves[m]))]
            /\ Hold(m, c)
            /\ Goto(m, "r_unlink")
            /\ UNCHANGED <<ptrs, node, mem, slot, kref, master, locked, slaves, closing,
                           dropped, oops>>

\* bufhub_clipboard_master_put: off the list, then no master, then the put.
MasterPutUnlink(m) ==
    LET c == cur[m] IN
    /\ pc[m] = "r_unlink"
    /\ IF mem[c] = "freed" \/ ~Linked(c, m)
       THEN Oops("walk")
       ELSE /\ slaves' = [slaves EXCEPT ![m] = Without(@, c)]
            /\ Goto(m, "r_orphan")
            /\ UNCHANGED <<ptrs, node, mem, slot, kref, master, locked, cur, next, closing,
                           dropped, oops>>

MasterPutOrphan(m) ==
    LET c == cur[m] IN
    /\ pc[m] = "r_orphan"
    /\ IF mem[c] = "freed"
       THEN Oops("walk")
       ELSE /\ master' = [master EXCEPT ![c] = Null]
            /\ Goto(m, "put")
            /\ UNCHANGED <<ptrs, node, mem, slot, kref, locked, slaves, cur, next, closing,
                           dropped, oops>>

\* Another thread calls IOCDESTROY on the same control device for the clipboard that the
\* one in the ioctl is linking or destroying: it finds the node and the right master, and
\* drops a reference that is not its own.  Nothing is said of what follows.
IoctlRaces(m) ==
    LET c == cur[m] IN
    /\ m \notin closing /\ pc[m] \in {"c_link", "d_check", "put", "x_unlink", "x_node"}
    /\ mem[c] = "live" /\ master[c] = m /\ node[slot[c]] = c
    /\ Oops("race")

MasterStep(m) ==
    \/ CreateInit(m) \/ CreateNode(m) \/ CreateLink(m) \/ CreateUndo(m)
    \/ DestroyCheck(m) \/ IoctlRaces(m)
    \/ ReleaseNext(m) \/ MasterPutUnlink(m) \/ MasterPutOrphan(m)
    \/ Putting(m)

-----------------------------------------------------------------------------
(* Clipboard devices.                                                      *)

\* The path of a device node is resolved; the driver's open is still to come.
OpenNode(f) ==
    /\ pc[f] = "closed"
    /\ \E s \in Slot : node[s] # Null /\ Hold(f, s)
    /\ Goto(f, "o_load")
    /\ UNCHANGED <<ptrs, node, mem, slot, kref, master, locked, slaves, next, closing, dropped,
                   oops>>

\* bufhub_clipboard_ptrs[minor], without ptrs_lock.
OpenLoad(f) ==
    LET c == ptrs[cur[f]] IN
    /\ pc[f] = "o_load"
    /\ IF c = Null
       THEN Oops("open")
       ELSE /\ Hold(f, c)
            /\ Goto(f, "o_get")
            /\ UNCHANGED <<ptrs, node, mem, slot, kref, master, locked, slaves, next, closing,
                           dropped, oops>>

\* Mutant of OpenGet: kref_get without "unless zero".
OpenGetAlways(f) ==
    LET c == cur[f] IN
    /\ pc[f] = "o_get"
    /\ mem[c] # "freed"
    /\ kref' = [kref EXCEPT ![c] = @ + 1]
    /\ Goto(f, "open")
    /\ UNCHANGED <<ptrs, node, mem, slot, master, locked, slaves, cur, next, closing, dropped,
                   oops>>

\* kref_get_unless_zero, else -ENODEV; O_WRONLY goes on to empty the buffer.
OpenGet(f) ==
    LET c == cur[f] IN
    /\ pc[f] = "o_get"
    /\ IF mem[c] = "freed"
       THEN Oops("open")
       ELSE /\ IF kref[c] = 0
               THEN Goto(f, "closed") /\ Hold(f, Null) /\ UNCHANGED kref
               ELSE /\ kref' = [kref EXCEPT ![c] = @ + 1]
                    /\ Goto(f, "open") \/ Goto(f, "o_trunc")
                    /\ UNCHANGED cur
            /\ UNCHANGED <<ptrs, node, mem, slot, master, locked, slaves, next, closing,
                           dropped, oops>>

\* Mutant of OpenTruncate: a failing open keeps its reference.
OpenTruncateKeeps(f) ==
    /\ pc[f] = "o_trunc"
    /\ \/ cur[f] \notin locked /\ Goto(f, "open") /\ UNCHANGED cur
       \/ cur[f] \in locked /\ Goto(f, "closed") /\ Hold(f, Null)
    /\ UNCHANGED <<ptrs, node, mem, slot, kref, master, locked, slaves, next, closing, dropped,
                   oops>>

\* The open fails if the mutex is busy (O_NONBLOCK) or a signal ends the wait.
OpenTruncate(f) ==
    /\ pc[f] = "o_trunc"
    /\ IF mem[cur[f]] = "freed"
       THEN Oops("fileop")
       ELSE /\ \/ cur[f] \notin locked /\ Goto(f, "open")
               \/ cur[f] \in locked /\ Goto(f, "put")
            /\ UNCHANGED <<ptrs, node, mem, slot, kref, master, locked, slaves, cur, next,
                           closing, dropped, oops>>

\* Reads and writes use the clipboard and leave its reference count alone.
Access(f) ==
    /\ pc[f] = "open"
    /\ mem[cur[f]] = "freed"
    /\ Oops("fileop")

Close(f) ==
    /\ pc[f] = "open"
    /\ Goto(f, "put")
    /\ UNCHANGED <<ptrs, node, mem, slot, kref, master, locked, slaves, cur, next, closing,
                   dropped, oops>>

FileStep(f) == OpenLoad(f) \/ OpenGet(f) \/ OpenTruncate(f) \/ Access(f) \/ Putting(f)

-----------------------------------------------------------------------------
Next ==
    /\ oops = "none"
    /\ \/ \E m \in Master : \/ MiscdevOpen(m) \/ CreateAlloc(m) \/ DestroyLookup(m)
                            \/ MiscdevRelease(m) \/ MasterStep(m)
       \/ \E f \in File : OpenNode(f) \/ Close(f) \/ FileStep(f)

Spec == Init /\ [][Next]_vars

-----------------------------------------------------------------------------
(* Properties.                                                             *)

PCs == {"closed", "open", "put", "x_unlink", "x_node", "x_slot", "x_free", "c_init", "c_node",
        "c_link", "c_undo", "d_check", "r_loop", "r_unlink", "r_orphan", "o_load", "o_get",
        "o_trunc"}

\* The variables have their types; no reference count is negative.
TypeOK ==
    /\ ptrs \in [Slot -> Clip \union {Null}]
    /\ node \in [Slot -> Clip \union {Null}]
    /\ mem \in [Clip -> {"unused", "alloc", "live", "freed"}]
    /\ slot \in [Clip -> Slot]
    /\ kref \in [Clip -> 0 .. (1 + Cardinality(File))]
    /\ master \in [Clip -> Master \union {Null}]
    /\ locked \subseteq Clip
    /\ slaves \in [Master -> Seq(Clip)]
    /\ pc \in [Thread -> PCs]
    /\ cur \in [Thread -> Clip \union Slot \union {Null}]
    /\ next \in [Master -> Clip \union {Null}]
    /\ closing \subseteq Master
    /\ dropped \subseteq Clip
    /\ oops \in {"none", "put", "unlink", "lookup", "walk", "open", "fileop", "race"}

Users(c) == {f \in File : cur[f] = c /\ pc[f] \in {"o_trunc", "open", "put"}}

\* The variables have their types; the reference count of a clipboard is what its
\* files and its master hold, as long as the master has not used IOCDESTROY on it; and
\* the slaves list of a master holds live clipboards of that master, once each, so that
\* its release never touches a clipboard that is gone nor drops a reference twice.
RefsExact ==
    /\ TypeOK
    /\ \A c \in Clip : mem[c] = "live" /\ c \notin dropped =>
          kref[c] = Cardinality(Users(c)) +
                    (IF master[c] # Null \/ \E m \in Master : cur[m] = c /\ pc[m] = "put"
                     THEN 1 ELSE 0)
    /\ \A m \in Master :
          /\ \A i \in DOMAIN slaves[m] :
               mem[slaves[m][i]] = "live" /\ master[slaves[m][i]] = m
          /\ Cardinality({slaves[m][i] : i \in DOMAIN slaves[m]}) = Len(slaves[m])

\* Closing the control device does not destroy a clipboard that is open (the
\* test in bufhub/test.c:282).
ReleaseSparesOpen ==
    \A m \in closing :
        pc[m] \in {"x_unlink", "x_node", "x_slot", "x_free"} => Users(cur[m]) = {}

\* A clipboard that is open keeps its memory and its minor, unless IOCDESTROY
\* was used on it or its IOCCREATE failed after the device node had appeared; and
\* memory that is gone is touched by the lookups that take no reference (open and
\* IOCDESTROY, which may also meet another ioctl on the same control device), and
\* otherwise only after IOCDESTROY of an open clipboard.
OpenSurvivesUndropped ==
    /\ \A f \in File, c \in Clip :
          f \in Users(c) /\ c \notin dropped => mem[c] = "live" /\ ptrs[slot[c]] = c
    /\ oops \in {"none", "open", "lookup", "race"} \/ dropped # {}

\* When every control device and every clipboard is closed, all clipboards are
\* gone: no minor is leaked and no device node is left behind.
NothingLeaks ==
    oops = "none" /\ (\A x \in Thread : pc[x] = "closed") =>
        \A s \in Slot : ptrs[s] = Null /\ node[s] = Null
=============================================================================
