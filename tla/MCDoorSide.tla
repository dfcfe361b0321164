----------------------------- MODULE MCDoorSide -----------------------------
(***************************************************************************)
(* Four parts that watch or record what the door does, checked in one run: *)
(* each behaviour exercises one of them, "unit", and leaves the others at  *)
(* rest.                                                                   *)
(***************************************************************************)
EXTENDS DoorAlerts, DryContact, DoorTimes, LogRing

VARIABLE unit

MCInit ==
    /\ unit \in {"alerts", "contacts", "times", "log"}
    /\ Init /\ DryInit /\ TimesInit /\ RingInit
    /\ unit # "alerts" => now = 0 /\ limit = 0
    /\ unit # "contacts" => ~dryDoor /\ ~openClose
    /\ unit # "times" => garage = "CLOSED"

MCNext ==
    \/ unit = "alerts" /\ Next /\ UNCHANGED <<unit, dryVars, timesVars, ringVars>>
    \/ unit = "contacts" /\ DryNext /\ UNCHANGED <<unit, vars, timesVars, ringVars>>
    \/ unit = "times" /\ TimesNext /\ UNCHANGED <<unit, vars, dryVars, ringVars>>
    \/ unit = "log" /\ RingNext /\ UNCHANGED <<unit, vars, dryVars, timesVars>>

MCSpec == MCInit /\ [][MCNext]_<<unit, vars, dryVars, timesVars, ringVars>>
-----------------------------------------------------------------------------
\* The state of every unit has its type.
UnitsTypeOK == TypeOK /\ DryTypeOK /\ TimesTypeOK /\ RingTypeOK
=============================================================================
