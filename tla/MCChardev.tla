----------------------------- MODULE MCChardev ------------------------------
(***************************************************************************)
(* Small instances for TLC of the drivers whose files several processes    *)
(* use at once: a pair of cpipe devices, the life of bufhub's clipboards,  *)
(* and the attribute files of bddtree.  They have nothing in common, so a  *)
(* behaviour is one of one of them.                                        *)
(***************************************************************************)
EXTENDS MCCpipe, Bufhub, Bddtree, TLC

VARIABLE driver
shared == <<driver, cpVars, vars, bdVars>>

ChInit ==
    /\ driver \in {"cpipe", "bufhub", "bddtree"}
    /\ CpInit /\ Init /\ BdInit

ChNext ==
    /\ UNCHANGED driver
    /\ \/ driver = "cpipe"   /\ CpNext /\ UNCHANGED <<vars, bdVars>>
       \/ driver = "bufhub"  /\ Next   /\ UNCHANGED <<cpVars, bdVars>>
       \/ driver = "bddtree" /\ BdNext /\ UNCHANGED <<cpVars, vars>>

ChSpec == ChInit /\ [][ChNext]_shared

\* Each set has two elements.  As a behaviour is of one driver, the elements of
\* several drivers' sets can be swapped together, which leaves TLC fewer permutations.
Swap(S, yes) == CHOOSE p \in Permutations(S) : \A x \in S : (p[x] # x) = yes
Symmetry ==
    { Swap(Task, a) @@ Swap(Master, a) @@ Swap(BdWriter, a)
        @@ Swap(File, b) @@ Swap(BdDevice, b) @@ Swap(Clip, c) @@ Swap(BdId, c)
      : a, b, c \in BOOLEAN }
=============================================================================
