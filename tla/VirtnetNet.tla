----------------------------- MODULE VirtnetNet -----------------------------
(***************************************************************************)
(* What virtnet/virtnet_net.c does for either backend: the choice of the   *)
(* backend when the module is loaded, and the accounting of every packet   *)
(* that is sent (virtnet_xmit) or received (virtnet_recv).  Modules        *)
(* VirtnetLb and VirtnetChr are the backends, Virtnet puts them together.  *)
(***************************************************************************)
EXTENDS Integers, Sequences, FiniteSets

CONSTANT MaxPackets \* bound: the packets that are sent; memory is not reused

ASSUME VirtnetNetAssumption == MaxPackets \in Nat

Packet == 1 .. MaxPackets
Null == 0

VARIABLES
    backend, \* virtnet_backend_ops: "lb" or "chr"
    stats,   \* the interface's counters; "discarded" is history, see VirtnetLb
    netOops  \* "none", or "skb": an skb was freed that had been freed

netVars == <<backend, stats, netOops>>

\* The packet to be sent next: packets are numbered in the order they are sent.
Fresh(m) == {p \in Packet : m[p] = "unused" /\ \A q \in 1 .. p - 1 : m[q] # "unused"}

Backends == {"lb", "chr"}
Counters == {"tx", "tx_dropped", "rx", "rx_dropped", "discarded"}

NetInit ==
    /\ backend \in Backends
    /\ stats = [c \in Counters |-> 0]
    /\ netOops = "none"

Counts(what) == stats' = [stats EXCEPT ![what] = @ + 1] /\ UNCHANGED backend
Count(what) == Counts(what) /\ UNCHANGED netOops

\* The skb is freed whether the backend took a copy of it or not.
Xmitted(ok) == Count(IF ok THEN "tx" ELSE "tx_dropped")

\* virtnet_recv fails: there is no memory for an skb; or netif_rx, whose backlog is
\* full, has freed the skb and says so, and it is freed again: nothing is known of
\* the kernel after that, and LbGoesOn and ChrGoesOn end the model.
Refused ==
    \/ Count("rx_dropped")
    \/ Counts("rx_dropped") /\ netOops' = "skb"

Received == Count("rx") \/ Refused
=============================================================================
