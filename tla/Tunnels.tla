------------------------------ MODULE Tunnels -------------------------------
(***************************************************************************)
(* usbtunnel's list of tunnels: added and deleted by writes to the match   *)
(* attribute, looked up when a device is plugged into their port.  Writers *)
(* and the hub's thread run concurrently; the lock covers the list, not    *)
(* what a lookup returns.  There is one port; what matters about another   *)
(* is that its tunnels are not found.                                      *)
(***************************************************************************)
EXTENDS Integers, Sequences, SequencesExt

CONSTANTS
    Tunnel,   \* the tunnels that can ever be allocated; memory is not reused
    Writer,   \* open file descriptions of the match attribute
    NoTunnel

ASSUME TunnelsAssumption == "hub" \notin Writer

VARIABLES
    tlList,   \* usbtunnel_list, the newest first
    tlMem,    \* per tunnel: "unused", "live" or "freed"
    tlUdev,   \* per tunnel: "none", "here" or "stale" (a device whose probe has failed)
    tlAt,     \* per actor: where it is, and the tunnel that its lookup returned
    tlRaced,  \* history: a lookup returned a tunnel that another actor still held
    tlOops    \* "none", or who used a tunnel that was freed

tlVars == <<tlList, tlMem, tlUdev, tlAt, tlRaced, tlOops>>

Hub == "hub"
TlActor == Writer \union {Hub}
TlIdle == [pc |-> "idle", ut |-> NoTunnel]

TlInit ==
    /\ tlList = << >>
    /\ tlMem = [t \in Tunnel |-> "unused"]
    /\ tlUdev = [t \in Tunnel |-> "none"]
    /\ tlAt = [a \in TlActor |-> TlIdle]
    /\ tlRaced = FALSE /\ tlOops = "none"

TlGoto(a, pc, t) == tlAt' = [tlAt EXCEPT ![a] = [pc |-> pc, ut |-> t]]

\* usbtunnel_lookup: the first on the list, without a reference.
TlLookup(a, pc) ==
    /\ IF tlList = << >> THEN TlGoto(a, "idle", NoTunnel) ELSE TlGoto(a, pc, Head(tlList))
    /\ tlRaced' = (tlRaced \/ \E b \in TlActor \ {a} :
                      tlList # << >> /\ tlAt[b].ut = Head(tlList) /\ tlAt[b].pc # "bound")
    /\ UNCHANGED <<tlList, tlMem, tlUdev, tlOops>>

TlOopsAt(a) == tlOops' = a /\ UNCHANGED <<tlList, tlMem, tlUdev, tlAt, tlRaced>>

-----------------------------------------------------------------------------
(* Writes to match.                                                        *)

\* usbtunnel_add: nobody asks whether the port has a tunnel already.
TlAdd(w, t) ==
    /\ tlAt[w].pc = "idle" /\ tlMem[t] = "unused"
    /\ tlMem' = [tlMem EXCEPT ![t] = "live"]
    /\ tlList' = <<t>> \o tlList
    /\ UNCHANGED <<tlUdev, tlAt, tlRaced, tlOops>>

TlDel(w) == tlAt[w].pc = "idle" /\ TlLookup(w, "found")

\* Mutant of TlDelCheck: a tunnel with a device is deleted as well.
TlDelCheckNot(w) ==
    /\ tlAt[w].pc = "found"
    /\ IF tlMem[tlAt[w].ut] = "freed" THEN TlOopsAt(w)
       ELSE /\ TlGoto(w, "cleanup", tlAt[w].ut)
            /\ UNCHANGED <<tlList, tlMem, tlUdev, tlRaced, tlOops>>

\* A tunnel that has a device is busy.
TlDelCheck(w) ==
    /\ tlAt[w].pc = "found"
    /\ LET t == tlAt[w].ut IN
       IF tlMem[t] = "freed" THEN TlOopsAt(w)
       ELSE /\ IF tlUdev[t] = "none" THEN TlGoto(w, "cleanup", t) ELSE TlGoto(w, "idle", NoTunnel)
            /\ UNCHANGED <<tlList, tlMem, tlUdev, tlRaced, tlOops>>

\* usbtunnel_cleanup.
TlCleanup(w) ==
    /\ tlAt[w].pc = "cleanup"
    /\ LET t == tlAt[w].ut IN
       IF tlMem[t] = "freed" THEN TlOopsAt(w)
       ELSE /\ tlList' = RemoveAt(tlList, CHOOSE i \in DOMAIN tlList : tlList[i] = t)
            /\ tlMem' = [tlMem EXCEPT ![t] = "freed"]
            /\ TlGoto(w, "idle", NoTunnel)
            /\ UNCHANGED <<tlUdev, tlRaced, tlOops>>

-----------------------------------------------------------------------------
(* The hub's thread: one device after the other on the port.               *)

TlProbe == tlAt[Hub].pc = "idle" /\ TlLookup(Hub, "probe")

TlProbeUdev ==
    /\ tlAt[Hub].pc = "probe"
    /\ LET t == tlAt[Hub].ut IN
       IF tlMem[t] = "freed" THEN TlOopsAt(Hub)
       ELSE /\ tlUdev' = [tlUdev EXCEPT ![t] = "here"]
            /\ TlGoto(Hub, "gadget", t)
            /\ UNCHANGED <<tlList, tlMem, tlRaced, tlOops>>

\* usb_gadget_probe_driver; when it fails ut->udev stays, and disconnect is not
\* called for a device that was not bound.
TlProbeGadget ==
    /\ tlAt[Hub].pc = "gadget"
    /\ LET t == tlAt[Hub].ut IN
       IF tlMem[t] = "freed" THEN TlOopsAt(Hub)
       ELSE /\ \/ TlGoto(Hub, "bound", t) /\ UNCHANGED tlUdev
               \/ TlGoto(Hub, "idle", NoTunnel) /\ tlUdev' = [tlUdev EXCEPT ![t] = "stale"]
            /\ UNCHANGED <<tlList, tlMem, tlRaced, tlOops>>

TlDisconnect ==
    /\ tlAt[Hub].pc = "bound"
    /\ LET t == tlAt[Hub].ut IN
       IF tlMem[t] = "freed" THEN TlOopsAt(Hub)
       ELSE /\ tlUdev' = [tlUdev EXCEPT ![t] = "none"]
            /\ TlGoto(Hub, "idle", NoTunnel)
            /\ UNCHANGED <<tlList, tlMem, tlRaced, tlOops>>

\* usbtunnel_exit: nobody writes to match or has a device any more.
TlExit ==
    /\ \A a \in TlActor : tlAt[a].pc = "idle"
    /\ tlList' = << >>
    /\ tlMem' = [t \in Tunnel |-> IF Contains(tlList, t) THEN "freed" ELSE tlMem[t]]
    /\ UNCHANGED <<tlUdev, tlAt, tlRaced, tlOops>>

TlNext ==
    /\ tlOops = "none"
    /\ \/ \E w \in Writer :
            (\E t \in Tunnel : TlAdd(w, t)) \/ TlDel(w) \/ TlDelCheck(w) \/ TlCleanup(w)
       \/ TlProbe \/ TlProbeUdev \/ TlProbeGadget \/ TlDisconnect \/ TlExit

-----------------------------------------------------------------------------
(* Properties.                                                             *)

\* The variables of the list have their types.
TlTypeOK ==
    /\ tlList \in Seq(Tunnel)
    /\ tlMem \in [Tunnel -> {"unused", "live", "freed"}]
    /\ tlUdev \in [Tunnel -> {"none", "here", "stale"}]
    /\ tlAt \in [TlActor -> [pc : {"idle", "found", "cleanup", "probe", "gadget", "bound"},
                             ut : Tunnel \union {NoTunnel}]]
    /\ tlRaced \in BOOLEAN /\ tlOops \in TlActor \union {"none"}

\* The list holds exactly the tunnels that are allocated, each once; as long as no
\* two lookups overlap on a tunnel, the one that a device is bound to is among them
\* and says so (usbtunnel.c:586: it can't be removed while active), and no tunnel is
\* used after it was freed.
TunnelsSound ==
    /\ ToSet(tlList) = {t \in Tunnel : tlMem[t] = "live"} /\ IsInjective(tlList)
    /\ ~tlRaced =>
         /\ tlOops = "none"
         /\ tlAt[Hub].pc = "bound" =>
              tlMem[tlAt[Hub].ut] = "live" /\ tlUdev[tlAt[Hub].ut] = "here"
=============================================================================
