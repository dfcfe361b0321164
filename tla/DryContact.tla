----------------------------- MODULE DryContact -----------------------------
(***************************************************************************)
(* The two contacts of drycontact.cpp.  On a dry contact opener they tell  *)
(* the ends of the door's travel, and the state in between is guessed from *)
(* the end it left last.  On the other openers they are buttons, if a      *)
(* setting says so; else what OneButton calls back is left unread.         *)
(*                                                                         *)
(* OneButton (external) debounces a contact and calls back when it closes, *)
(* and when it opens again after a long press - not after a short one.     *)
(***************************************************************************)
EXTENDS Naturals, Sequences

CONSTANTS MaxRequests   \* bound of the model: requests the buttons make

Contact == {"open", "close"}

VARIABLES
    dryDoor,    \* doorControlType is DOOR_CONTROL_DRY_CONTACT
    openClose,  \* userConfig: the contacts are buttons (getDCOpenClose)
    place,      \* where the door is: an end, or "between"; of the buttons: those held
    stage,      \* of each OneButton: "up", "down" or "long"
    contact,    \* dryContactDoorOpen, dryContactDoorClose
    was,        \* previousDryContactDoorOpen, previousDryContactDoorClose
    doorState,
    told,       \* previousDoorState of comms_loop_drycontact
    requests,   \* what the buttons asked for
    lastEnd,    \* history: the end seen last
    short       \* history: a contact was shorter than a long press

dryVars == <<dryDoor, openClose, place, stage, contact, was, doorState, told,
             requests, lastEnd, short>>

DoorStates == {"UNKNOWN", "OPEN", "CLOSED", "OPENING", "CLOSING"}

DryTypeOK ==
    /\ dryDoor \in BOOLEAN /\ openClose \in BOOLEAN
    /\ place \subseteq Contact /\ (dryDoor => place # Contact)
    /\ stage \in [Contact -> {"up", "down", "long"}]
    /\ contact \in [Contact -> BOOLEAN] /\ was \in [Contact -> BOOLEAN]
    /\ doorState \in DoorStates /\ told \in DoorStates
    /\ requests \in Seq({"open", "close", "toggle"}) /\ Len(requests) <= MaxRequests + 3
    /\ lastEnd \in Contact \cup {"none"}
    /\ short \in BOOLEAN

DryInit ==
    /\ dryDoor \in BOOLEAN /\ openClose \in BOOLEAN
    /\ place \in IF dryDoor THEN {{}, {"open"}, {"close"}} ELSE {{}}
    /\ stage = [c \in Contact |-> "up"]
    /\ contact = [c \in Contact |-> FALSE] /\ was = contact
    /\ doorState = "UNKNOWN" /\ told = "UNKNOWN"
    /\ requests = <<>> /\ lastEnd = "none" /\ short = FALSE
-----------------------------------------------------------------------------
\* The door moves between its ends, or a button is pressed or let go.
Moves ==
    /\ place' \in IF dryDoor THEN (IF place = {} THEN {{"open"}, {"close"}} ELSE {{}})
                  ELSE SUBSET Contact \ {place}
    /\ ~dryDoor => Len(requests) < MaxRequests
    /\ UNCHANGED <<dryDoor, openClose, stage, contact, was, doorState, told, requests,
                   lastEnd, short>>

\* OneButton::tick: it may still see the contact as it was before.
NextStage(c, s, t) ==
    \/ t = s
    \/ c \in place /\ <<s, t>> \in {<<"up", "down">>, <<"down", "long">>}
    \/ c \notin place /\ <<s, t>> \in {<<"down", "up">>, <<"long", "up">>}

\* onOpenSwitchPress and onOpenSwitchRelease, and those of the other contact.
Pressed(c, t) == IF stage[c] = "up" /\ t[c] # "up" THEN TRUE
                 ELSE IF stage[c] = "long" /\ t[c] = "up" THEN FALSE
                 ELSE contact[c]

\* (mutant) A door that leaves its open end keeps its state.
GuessedFrom(now) ==
    IF now["close"] THEN "CLOSED" ELSE IF now["open"] THEN "OPEN"
    ELSE IF was["close"] THEN "OPENING" ELSE doorState

\* The state of a dry contact door; the closed end wins.
StateNow(now) ==
    IF now["close"] THEN "CLOSED"
    ELSE IF now["open"] THEN "OPEN"
    ELSE IF was["close"] THEN "OPENING"
    ELSE IF was["open"] THEN "CLOSING"
    ELSE doorState

\* What pressed buttons ask for; both in one pass are a toggle.
Asked(now) ==
    IF now["open"] /\ now["close"] THEN <<"toggle">>
    ELSE (IF now["open"] THEN <<"open">> ELSE <<>>)
         \o (IF now["close"] THEN <<"close">> ELSE <<>>)

\* drycontact_loop.
Loop ==
    /\ \E t \in [Contact -> {"up", "down", "long"}] :
         LET now == [c \in Contact |-> Pressed(c, t)]
         IN  /\ \A c \in Contact : NextStage(c, stage[c], t[c])
             /\ stage' = t
             /\ short' = (short \/ \E c \in Contact : stage[c] = "down" /\ t[c] = "up")
             /\ lastEnd' = IF t["close"] # "up" THEN "close"
                           ELSE IF t["open"] # "up" THEN "open" ELSE lastEnd
             /\ IF dryDoor
                THEN /\ doorState' = StateNow(now)
                     /\ contact' = now /\ was' = now
                     /\ requests' = requests
                ELSE /\ requests' = IF openClose THEN requests \o Asked(now) ELSE requests
                     /\ contact' = IF openClose THEN [c \in Contact |-> FALSE] ELSE now
                     /\ UNCHANGED <<doorState, was>>
    /\ UNCHANGED <<dryDoor, openClose, place, told>>

\* comms_loop_drycontact hands a new state on.
Tell ==
    /\ dryDoor /\ told # doorState
    /\ told' = doorState
    /\ UNCHANGED <<dryDoor, openClose, place, stage, contact, was, doorState, requests,
                   lastEnd, short>>

\* The buttons' requests are done.
Done ==
    /\ requests # <<>> /\ requests' = <<>>
    /\ UNCHANGED <<dryDoor, openClose, place, stage, contact, was, doorState, told,
                   lastEnd, short>>

\* The setting is changed on the web page.
SetOpenClose ==
    /\ ~dryDoor
    /\ openClose' = ~openClose
    /\ UNCHANGED <<dryDoor, place, stage, contact, was, doorState, told, requests,
                   lastEnd, short>>

DryNext == Moves \/ Loop \/ Tell \/ Done \/ SetOpenClose
DrySpec == DryInit /\ [][DryNext]_dryVars
-----------------------------------------------------------------------------
At(c) == stage[c] # "up"

\* A dry contact door is at the end its contact says, and between the ends moves
\* away from the one it was at last, as long as no contact was so short that its
\* opening goes unnoticed - after that a door is taken to be at an end it has left.
StateFollowsEnds ==
    dryDoor /\ ~short =>
        doorState = IF At("close") THEN "CLOSED"
                    ELSE IF At("open") THEN "OPEN"
                    ELSE IF lastEnd = "close" THEN "OPENING"
                    ELSE IF lastEnd = "open" THEN "CLOSING" ELSE "UNKNOWN"
=============================================================================
