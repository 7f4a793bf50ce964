-------------------------------- MODULE Usb ---------------------------------
(***************************************************************************)
(* The USB drivers of the collection and their small instances for TLC.    *)
(* They share nothing, so a behaviour is one of one of them: a tunnel's    *)
(* control requests, usbtunnel's list, a bus of usblb, or usbticker.       *)
(***************************************************************************)
EXTENDS Usbtunnel, Tunnels, Usblb, Ticker

VARIABLE part
vars == <<part, tunVars, tlVars, busVars, tkVars>>

Init ==
    /\ part \in {"tunnel", "list", "bus", "ticker"}
    /\ TunInit /\ TlInit /\ BusInit /\ TkInit

Next ==
    /\ UNCHANGED part
    /\ \/ part = "tunnel" /\ TunNext /\ UNCHANGED <<tlVars, busVars, tkVars>>
       \/ part = "list"   /\ TlNext  /\ UNCHANGED <<tunVars, busVars, tkVars>>
       \/ part = "bus"    /\ BusNext /\ UNCHANGED <<tunVars, tlVars, tkVars>>
       \/ part = "ticker" /\ TkNext  /\ UNCHANGED <<tunVars, tlVars, busVars>>

Spec == Init /\ [][Next]_vars

\* The controller serves what is queued, work items run and the device answers one
\* way or the other; timers expire and their handlers run on; endpoints are polled.
FairSpec ==
    /\ Spec
    /\ WF_tunVars(part = "tunnel" /\ tunOops = "none" /\ UdcCompletes)
    /\ WF_tunVars(part = "tunnel" /\ tunOops = "none" /\ (Work \/ WorkFails))
    /\ WF_busVars(part = "bus" /\ busOops = "none" /\ Timers)
    /\ WF_tkVars(part = "ticker" /\ tkOops = "none" /\ TkTimer)
    /\ WF_tkVars(part = "ticker" /\ tkOops = "none" /\ TkPoll)

-----------------------------------------------------------------------------
\* The variables of the four have their types.
TypeOK == TunTypeOK /\ TlTypeOK /\ BusTypeOK /\ TkTypeOK
=============================================================================
