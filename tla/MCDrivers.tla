----------------------------- MODULE MCDrivers ------------------------------
(***************************************************************************)
(* Small instances for TLC of the parts of Drivers, and beside them of     *)
(* what cpipe's sleepers wait for: three threads in blocking calls.  A     *)
(* behaviour is one of one of them.                                        *)
(***************************************************************************)
EXTENDS Drivers, MCCpipe

VARIABLE piping \* cpipe is what the behaviour is of

DrInit ==
    /\ Init /\ CpInit
    /\ piping \in BOOLEAN
    /\ piping => part = "bringup" /\ bu.drv = "cpipe" /\ bu.n = 1

DrNext ==
    /\ UNCHANGED piping
    /\ \/ piping  /\ CpNext /\ UNCHANGED vars
       \/ ~piping /\ Next   /\ UNCHANGED cpVars

DrFairSpec ==
    /\ DrInit /\ [][DrNext]_<<piping, vars, cpVars>>
    /\ ThreadFairness /\ Fairness
=============================================================================
