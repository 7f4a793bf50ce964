------------------------------ MODULE Virtnet -------------------------------
(***************************************************************************)
(* A virtnet interface over the backend chosen at load time, with what     *)
(* virtnet_net.c counts for it, and its small instances for TLC.           *)
(***************************************************************************)
EXTENDS VirtnetLb, VirtnetChr

vars == <<netVars, lbVars, chrVars>>

Init == NetInit /\ LbInit /\ ChrInit

Next ==
    \/ backend = "lb" /\ LbNext /\ UNCHANGED chrVars
    \/ backend = "chr" /\ ChrNext /\ UNCHANGED lbVars

Spec == Init /\ [][Next]_vars
FairSpec == Spec /\ LbFairness /\ ChrFairness

-----------------------------------------------------------------------------
\* The variables of the interface and of its backends have their types.
TypeOK ==
    /\ backend \in Backends /\ netOops \in {"none", "skb"}
    /\ stats \in [Counters -> 0 .. Cardinality(Packet) + MaxWrites]
    /\ LbTypeOK
    /\ ChrTypeOK
=============================================================================
