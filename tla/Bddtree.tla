------------------------------ MODULE Bddtree ------------------------------
(***************************************************************************)
(* bddtree: drivers are added to and deleted from a bus by writes to the   *)
(* bus's add and del files, devices by writes to a driver's.  Writers run  *)
(* concurrently; the locks cover the lists, not the objects that a lookup  *)
(* returned.  The driver core keeps its own account of what is registered. *)
(* There is one driver name, and a few ids of devices.                     *)
(***************************************************************************)
EXTENDS Sequences, SequencesExt

CONSTANTS
    BdDriver,   \* the struct bddtree_driver that can be allocated; memory is not reused
    BdDevice,   \* the struct bddtree_device likewise
    BdId,       \* ids of devices
    BdWriter,   \* open file descriptions of the add and del files
    NoBd

ASSUME BddtreeAssumption ==
    "rmmod" \notin BdWriter /\ NoBd \notin BdDriver \union BdDevice

VARIABLES
    bdDrv,    \* per driver: its memory, registration, files, link and list of devices
    bdDev,    \* per device: its memory, registration, driver, id and link
    bdAt,     \* per actor: where it is, what it holds, whether it destroys a driver
    bdUp,     \* the bus is registered
    bdRaced,  \* history: an actor was given an object that another one destroys or makes
    bdOops    \* "none", or who used freed memory or an entry that was unlinked

bdVars == <<bdDrv, bdDev, bdAt, bdUp, bdRaced, bdOops>>

BdRmmod == "rmmod"
BdActor == BdWriter \union {BdRmmod}
BdIdle == [pc |-> "idle", drv |-> NoBd, dev |-> NoBd, next |-> NoBd, id |-> NoBd,
           all |-> FALSE]

BdInit ==
    /\ bdDrv = [d \in BdDriver |-> [mem |-> "unused", reg |-> FALSE, files |-> FALSE,
                                    link |-> "self", devices |-> << >>]]
    /\ bdDev = [v \in BdDevice |-> [mem |-> "unused", reg |-> FALSE, bound |-> FALSE,
                                    drv |-> NoBd, id |-> NoBd, link |-> "self"]]
    /\ bdAt = [a \in BdActor |-> BdIdle]
    /\ bdUp = TRUE /\ bdRaced = FALSE /\ bdOops = "none"

BdPc(a, pc) == bdAt[a].pc = pc
BdHold(a, at) == bdAt' = [bdAt EXCEPT ![a] = at]
BdGoto(a, pc) == BdHold(a, [bdAt[a] EXCEPT !.pc = pc])
BdOopsAt(a) == bdOops' = a /\ UNCHANGED <<bdDrv, bdDev, bdAt, bdUp, bdRaced>>

\* Somebody else holds driver d; destroys it; holds device v.
BdHeld(a, d) == \E b \in BdActor \ {a} : bdAt[b].drv = d
BdDying(a, d) == \E b \in BdActor \ {a} : bdAt[b].drv = d /\ bdAt[b].all
BdTaken(a, v) == \E b \in BdActor \ {a} : v \in {bdAt[b].dev, bdAt[b].next}

-----------------------------------------------------------------------------
(* The bus: add and del.                                                   *)

\* bddtree_driver_create up to driver_register, which knows the name or does not.
BdAddDriver(w, d) ==
    /\ BdPc(w, "idle") /\ bdUp
    /\ bdDrv[d].mem = "unused" /\ \A e \in BdDriver : ~bdDrv[e].reg
    /\ bdDrv' = [bdDrv EXCEPT ![d].mem = "live", ![d].reg = TRUE, ![d].files = TRUE]
    /\ BdHold(w, [BdIdle EXCEPT !.pc = "link", !.drv = d])
    /\ bdRaced' = (bdRaced \/ ~BdPc(BdRmmod, "idle"))
    /\ UNCHANGED <<bdDev, bdUp, bdOops>>

BdLink(w) ==
    /\ BdPc(w, "link")
    /\ LET d == bdAt[w].drv IN
       IF bdDrv[d].mem = "freed" THEN BdOopsAt(w)
       ELSE /\ bdDrv' = [bdDrv EXCEPT ![d].link = "on"]
            /\ BdHold(w, BdIdle)
            /\ UNCHANGED <<bdDev, bdUp, bdRaced, bdOops>>

\* driver_find gives its reference back before it returns the driver.
BdDelDriver(w) ==
    /\ BdPc(w, "idle") /\ bdUp
    /\ \E d \in BdDriver :
          /\ bdDrv[d].reg
          /\ BdHold(w, [BdIdle EXCEPT !.pc = "unlink", !.drv = d, !.all = TRUE])
          /\ bdRaced' = (bdRaced \/ BdHeld(w, d) \/ ~BdPc(BdRmmod, "idle"))
    /\ UNCHANGED <<bdDrv, bdDev, bdUp, bdOops>>

\* bddtree_driver_destroy: off the bus's list first,
BdUnlink(a) ==
    /\ BdPc(a, "unlink")
    /\ LET d == bdAt[a].drv IN
       IF bdDrv[d].mem = "freed" \/ bdDrv[d].link = "poison" THEN BdOopsAt(a)
       ELSE /\ bdDrv' = [bdDrv EXCEPT ![d].link = "poison"]
            /\ BdGoto(a, "first")
            /\ UNCHANGED <<bdDev, bdUp, bdRaced, bdOops>>

\* then its devices, one by one; the next one is chosen before the lock is dropped.
BdLoop(a) ==
    /\ \/ BdPc(a, "first") \/ BdPc(a, "loop")
    /\ LET d == bdAt[a].drv
           devices == bdDrv[d].devices
           After(v) == LET k == CHOOSE i \in DOMAIN devices : devices[i] = v IN
                       IF k = Len(devices) THEN NoBd ELSE devices[k + 1]
           dev == IF BdPc(a, "loop") THEN bdAt[a].next
                  ELSE IF devices = << >> THEN NoBd ELSE Head(devices)
       IN  IF dev = NoBd
           THEN BdGoto(a, "closing") /\ UNCHANGED <<bdDrv, bdDev, bdUp, bdRaced, bdOops>>
           ELSE IF ~Contains(devices, dev) THEN BdOopsAt(a)
           ELSE /\ BdHold(a, [bdAt[a] EXCEPT !.pc = "destroy", !.dev = dev, !.next = After(dev)])
                /\ UNCHANGED <<bdDrv, bdDev, bdUp, bdRaced, bdOops>>

\* driver_unregister: the add and del files go, which waits for the writes to them,
BdClose(a) ==
    /\ BdPc(a, "closing")
    /\ IF bdDrv[bdAt[a].drv].mem = "freed" THEN BdOopsAt(a)
       ELSE /\ bdDrv' = [bdDrv EXCEPT ![bdAt[a].drv].files = FALSE]
            /\ BdGoto(a, "unregister")
            /\ UNCHANGED <<bdDev, bdUp, bdRaced, bdOops>>

\* and the driver lets go of the devices it still has.
BdUnregister(a) ==
    /\ BdPc(a, "unregister")
    /\ LET d == bdAt[a].drv IN
       /\ \A b \in BdActor \ {a} : bdAt[b].drv = d => bdAt[b].all \/ BdPc(b, "link")
       /\ bdDrv' = [bdDrv EXCEPT ![d].reg = FALSE]
       /\ bdDev' = [v \in BdDevice |->
                       [bdDev[v] EXCEPT !.bound = @ /\ bdDev[v].drv # d]]
    /\ BdGoto(a, "free")
    /\ UNCHANGED <<bdUp, bdRaced, bdOops>>

BdFree(a) ==
    /\ BdPc(a, "free")
    /\ bdDrv' = [bdDrv EXCEPT ![bdAt[a].drv].mem = "freed"]
    /\ BdHold(a, IF a = BdRmmod THEN [BdIdle EXCEPT !.pc = "bus"] ELSE BdIdle)
    /\ UNCHANGED <<bdDev, bdUp, bdRaced, bdOops>>

-----------------------------------------------------------------------------
(* A driver: add and del.                                                  *)

\* bddtree_device_create: the driver has no device with that id yet.
BdAddDevice(w, d, id) ==
    /\ BdPc(w, "idle") /\ bdDrv[d].files
    /\ ~\E v \in BdDevice : bdDev[v].bound /\ bdDev[v].drv = d /\ bdDev[v].id = id
    /\ BdHold(w, [BdIdle EXCEPT !.pc = "create", !.drv = d, !.id = id])
    /\ bdRaced' = (bdRaced \/ BdDying(w, d))
    /\ UNCHANGED <<bdDrv, bdDev, bdUp, bdOops>>

\* Mutant of BdCreate: a device whose device_add failed is used all the same.
BdCreateTwice(w, v) ==
    /\ BdPc(w, "create") /\ bdDev[v].mem = "unused"
    /\ bdDev' = [bdDev EXCEPT ![v] = [mem |-> "live", reg |-> TRUE, bound |-> TRUE, id |-> bdAt[w].id,
                                      drv |-> bdAt[w].drv, link |-> "self"]]
    /\ BdHold(w, [bdAt[w] EXCEPT !.pc = "dlink", !.dev = v])
    /\ UNCHANGED <<bdDrv, bdUp, bdRaced, bdOops>>

\* device_add binds it, or fails because the name is taken (the device is freed).
BdCreate(w, v) ==
    /\ BdPc(w, "create") /\ bdDev[v].mem = "unused"
    /\ IF \E u \in BdDevice : bdDev[u].reg /\ bdDev[u].id = bdAt[w].id
       THEN BdHold(w, BdIdle) /\ UNCHANGED bdDev
       ELSE /\ bdDev' = [bdDev EXCEPT ![v] =
                            [mem |-> "live", reg |-> TRUE, bound |-> TRUE, id |-> bdAt[w].id,
                             drv |-> bdAt[w].drv, link |-> "self"]]
            /\ BdHold(w, [bdAt[w] EXCEPT !.pc = "dlink", !.dev = v])
    /\ UNCHANGED <<bdDrv, bdUp, bdRaced, bdOops>>

BdDevLink(w) ==
    /\ BdPc(w, "dlink")
    /\ LET v == bdAt[w].dev IN
       IF bdDev[v].mem = "freed" THEN BdOopsAt(w)
       ELSE /\ bdDev' = [bdDev EXCEPT ![v].link = "on"]
            /\ bdDrv' = [bdDrv EXCEPT ![bdAt[w].drv].devices = <<v>> \o @]
            /\ BdHold(w, BdIdle)
            /\ UNCHANGED <<bdUp, bdRaced, bdOops>>

\* driver_find_device, whose reference bddtree_device_find puts before it returns.
BdDelDevice(w, v) ==
    /\ BdPc(w, "idle") /\ bdDev[v].bound /\ bdDrv[bdDev[v].drv].files
    /\ BdHold(w, [BdIdle EXCEPT !.pc = "destroy", !.drv = bdDev[v].drv, !.dev = v])
    /\ bdRaced' = (bdRaced \/ BdTaken(w, v) \/ BdDying(w, bdDev[v].drv))
    /\ UNCHANGED <<bdDrv, bdDev, bdUp, bdOops>>

\* list_del, which does nothing to an entry that is not linked yet.
BdListDel(list, v) ==
    IF Contains(list, v) THEN RemoveAt(list, CHOOSE i \in DOMAIN list : list[i] = v) ELSE list

\* bddtree_device_destroy: off the driver's list,
BdDestroy(a) ==
    /\ BdPc(a, "destroy")
    /\ LET v == bdAt[a].dev
           d == bdDev[v].drv IN
       IF bdDev[v].mem = "freed" \/ bdDrv[d].mem = "freed" \/ bdDev[v].link = "poison"
       THEN BdOopsAt(a)
       ELSE /\ bdDev' = [bdDev EXCEPT ![v].link = "poison"]
            /\ bdDrv' = [bdDrv EXCEPT ![d].devices = BdListDel(@, v)]
            /\ BdGoto(a, "release")
            /\ UNCHANGED <<bdUp, bdRaced, bdOops>>

\* then device_del, and put_device frees it.
BdRelease(a) ==
    /\ BdPc(a, "release")
    /\ IF bdDev[bdAt[a].dev].mem = "freed" THEN BdOopsAt(a)
       ELSE /\ bdDev' = [bdDev EXCEPT ![bdAt[a].dev].mem = "freed", ![bdAt[a].dev].reg = FALSE,
                                      ![bdAt[a].dev].bound = FALSE]
            /\ BdHold(a, IF bdAt[a].all THEN [bdAt[a] EXCEPT !.pc = "loop", !.dev = NoBd]
                         ELSE BdIdle)
            /\ UNCHANGED <<bdDrv, bdUp, bdRaced, bdOops>>

-----------------------------------------------------------------------------
(* bddtree_bus_unregister.                                                 *)

\* The drivers on the list are destroyed, with the lock dropped,
BdExit ==
    /\ BdPc(BdRmmod, "idle") /\ bdUp
    /\ LET listed == {d \in BdDriver : bdDrv[d].link = "on"} IN
       \/ \E d \in listed : BdHold(BdRmmod, [BdIdle EXCEPT !.pc = "unlink", !.drv = d, !.all = TRUE])
       \/ listed = {} /\ BdHold(BdRmmod, [BdIdle EXCEPT !.pc = "bus"])
    /\ bdRaced' = (bdRaced \/ \E w \in BdWriter : ~BdPc(w, "idle"))
    /\ UNCHANGED <<bdDrv, bdDev, bdUp, bdOops>>

\* then the bus's files go, which waits for the writes to them, and the bus.
BdBusGone ==
    /\ BdPc(BdRmmod, "bus")
    /\ \A w \in BdWriter : ~bdAt[w].all /\ ~BdPc(w, "link")
    /\ bdUp' = FALSE
    /\ BdHold(BdRmmod, [BdIdle EXCEPT !.pc = "gone"])
    /\ UNCHANGED <<bdDrv, bdDev, bdRaced, bdOops>>

BdNext ==
    /\ bdOops = "none"
    /\ \/ \E w \in BdWriter, d \in BdDriver :
             BdAddDriver(w, d) \/ \E id \in BdId : BdAddDevice(w, d, id)
       \/ \E w \in BdWriter, v \in BdDevice :
             BdDelDevice(w, v) \/ BdCreate(w, v)
       \/ \E w \in BdWriter : BdLink(w) \/ BdDevLink(w) \/ BdDelDriver(w)
       \/ \E a \in BdActor :
             \/ BdUnlink(a) \/ BdLoop(a) \/ BdDestroy(a) \/ BdRelease(a)
             \/ BdClose(a) \/ BdUnregister(a) \/ BdFree(a)
       \/ BdExit \/ BdBusGone

BdSpec == BdInit /\ [][BdNext]_bdVars

-----------------------------------------------------------------------------
(* Properties.                                                             *)

\* The variables of bddtree have their types.
BdTypeOK ==
    LET Mem == {"unused", "live", "freed"}
        Link == {"self", "on", "poison"}
    IN  /\ bdDrv \in [BdDriver -> [mem : Mem, reg : BOOLEAN, files : BOOLEAN, link : Link,
                                   devices : Seq(BdDevice)]]
        /\ bdDev \in [BdDevice -> [mem : Mem, reg : BOOLEAN, bound : BOOLEAN, link : Link,
                                   drv : BdDriver \union {NoBd}, id : BdId \union {NoBd}]]
        /\ bdAt \in [BdActor ->
              [pc : {"idle", "link", "unlink", "first", "loop", "destroy", "release", "closing",
                     "unregister", "free", "create", "dlink", "bus", "gone"},
               drv : BdDriver \union {NoBd}, dev : BdDevice \union {NoBd},
               next : BdDevice \union {NoBd}, id : BdId \union {NoBd}, all : BOOLEAN]]
        /\ bdUp \in BOOLEAN /\ bdRaced \in BOOLEAN /\ bdOops \in BdActor \union {"none"}

\* No two devices have one name.  As long as no write was given an object that
\* another write, or the exit, was making or destroying, what is registered is what
\* is listed (but for what an actor has in hand), a registered device has its driver,
\* nothing freed or unlinked is used, and the removal of the module leaves nothing
\* behind (test.sh looks for the device and the driver after their removal).
BddtreeSound ==
    /\ \A u, v \in BdDevice :
          bdDev[u].reg /\ bdDev[v].reg /\ bdDev[u].id = bdDev[v].id => u = v
    /\ ~bdRaced =>
         /\ bdOops = "none"
         /\ \A v \in BdDevice :
               LET d == bdDev[v].drv IN
               /\ bdDev[v].reg => bdDev[v].bound /\ bdDrv[d].reg
               /\ ~(\E a \in BdActor : bdAt[a].dev = v) =>
                     (bdDev[v].mem = "live" <=> d # NoBd /\ Contains(bdDrv[d].devices, v))
         /\ \A d \in BdDriver :
               /\ bdDrv[d].reg => bdDrv[d].mem = "live"
               /\ ~(\E a \in BdActor : bdAt[a].drv = d) =>
                     (bdDrv[d].mem = "live" <=> bdDrv[d].reg /\ bdDrv[d].link = "on")
         /\ ~bdUp => /\ \A d \in BdDriver : bdDrv[d].mem # "live"
                     /\ \A v \in BdDevice : bdDev[v].mem # "live"
=============================================================================
