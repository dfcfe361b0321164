----------------------------- MODULE MCDialogue -----------------------------
(***************************************************************************)
(* Four parts of the dialogue with the opener, checked in one run: each    *)
(* behaviour exercises one of them, "unit", and leaves the others at rest. *)
(***************************************************************************)
EXTENDS Sec2Refresh, LightLock, Sec1, Sec2Rx

VARIABLE unit

\* The start-up sequence of a panel, shortened.
MCStates == <<49, 53, 56, 57, 58>>

MCInit ==
    /\ unit \in {"refresh", "light", "one", "rx"}
    /\ Init /\ LightInit /\ Sec1Init /\ RxInit
    /\ unit # "refresh" => now = 0
    /\ unit # "light" => device = "light" /\ real = "OFF"
    /\ unit # "one" => panel = "absent" /\ watched = 56 /\ truth = 85
    /\ unit # "rx" => ~scheduled

MCNext ==
    \/ unit = "refresh" /\ Next /\ UNCHANGED <<unit, lightVars, sec1Vars, rxVars>>
    \/ unit = "light" /\ LightNext /\ UNCHANGED <<unit, vars, sec1Vars, rxVars>>
    \/ unit = "one" /\ Sec1Next /\ UNCHANGED <<unit, vars, lightVars, rxVars>>
    \/ unit = "rx" /\ RxNext /\ UNCHANGED <<unit, vars, lightVars, sec1Vars>>

mcVars == <<unit, vars, lightVars, sec1Vars, rxVars>>

\* Fairness of LightLock and of Sec2Rx, for the unit at work.
LightStep(A) == unit = "light" /\ A /\ UNCHANGED <<unit, vars, sec1Vars, rxVars>>
RxStep(A) == unit = "rx" /\ A /\ UNCHANGED <<unit, vars, lightVars, sec1Vars>>

MCSpec ==
    /\ MCInit /\ [][MCNext]_mcVars
    /\ WF_mcVars(LightStep(Poll)) /\ WF_mcVars(LightStep(Opener))
    /\ WF_mcVars(LightStep(RxLightStatus)) /\ WF_mcVars(LightStep(RxPanel))
    /\ WF_mcVars(RxStep(ReceivePass)) /\ WF_mcVars(RxStep(Arrive))
-----------------------------------------------------------------------------
\* The state of every unit has its type.
UnitsTypeOK == TypeOK /\ LightTypeOK /\ Sec1TypeOK /\ RxTypeOK

\* RecordSettles of LightLock, when its unit is the one at work.
LightRecordSettles == unit = "light" => RecordSettles

\* PacketsComeThrough of Sec2Rx, when its unit is the one at work.
RxPacketsComeThrough == unit = "rx" => PacketsComeThrough
=============================================================================
