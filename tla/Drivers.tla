------------------------------ MODULE Drivers ------------------------------
(***************************************************************************)
(* The drivers of the collection that have no users in it but their files, *)
(* the contents of bufhub's clipboards, and how all drivers come up and go. *)
(* They share nothing, so a behaviour is one of one of them.               *)
(***************************************************************************)
EXTENDS Bringup, Sleeper, Confmirror, Deepfs, Clipboard

VARIABLE part
vars == <<part, bu, slVars, cmVars, dfVars, clVars>>

Init ==
    /\ part \in {"bringup", "sleeper", "confmirror", "deepfs", "clipboard"}
    /\ BuInit /\ SlInit /\ CmInit /\ DfInit /\ ClInit
    /\ part # "bringup" => bu.drv = "cpipe" /\ bu.n = 1

Next ==
    /\ UNCHANGED part
    /\ \/ part = "bringup"    /\ BuNext /\ UNCHANGED <<slVars, cmVars, dfVars, clVars>>
       \/ part = "sleeper"    /\ SlNext /\ UNCHANGED <<bu, cmVars, dfVars, clVars>>
       \/ part = "confmirror" /\ CmNext /\ UNCHANGED <<bu, slVars, dfVars, clVars>>
       \/ part = "deepfs"     /\ DfNext /\ UNCHANGED <<bu, slVars, cmVars, clVars>>
       \/ part = "clipboard"  /\ ClNext /\ UNCHANGED <<bu, slVars, cmVars, dfVars>>

Spec == Init /\ [][Next]_vars

\* The module's init and exit go on, and so do the threads that are not asleep.
ThreadFairness ==
    /\ WF_slVars(part = "sleeper" /\ slOops = "none" /\ SlModStep)
    /\ \A t \in SlThread : WF_slVars(part = "sleeper" /\ slOops = "none" /\ SlStep(t))

-----------------------------------------------------------------------------
\* The variables of all of them have their types.
TypeOK == BuTypeOK /\ SlTypeOK /\ CmTypeOK /\ DfTypeOK /\ ClTypeOK
=============================================================================
