----------------------------- MODULE DoorTimes ------------------------------
(***************************************************************************)
(* How comms.cpp learns the time the door needs to open: update_door_state *)
(* measures the openings, keeps the last ones in a ring that survives a    *)
(* restart, and estimates with their median.  Closing is the same code.    *)
(*                                                                         *)
(* What is measured is the time between two reports, not the travel.  A    *)
(* stop or a turn that is reported ends the measurement; one whose report  *)
(* is lost does not, and the reports of start and end come late.           *)
(***************************************************************************)
EXTENDS Integers, SequencesExt

CONSTANTS History,     \* DOOR_MAX_HISTORY
          MinDuration, MaxDuration,
          Travels,     \* the times an uninterrupted opening takes
          MaxOpenings  \* bound of the model: openings recorded

ASSUME DoorTimesAssumption ==
    /\ History \in Nat \ {0}
    /\ MinDuration \in Nat /\ MaxDuration \in Nat /\ MaxOpenings \in Nat

VARIABLES
    garage,    \* what the door does
    heard,     \* garage_door.current_state
    started,   \* time since start_opening, -1 if that is 0; saturates
    durations,      \* openHistory.duration, and whether each is a true travel time
    count,     \* openHistory.count
    estimate   \* garage_door.openDuration

\* History: how long the door has been opening from its closed end without a
\* break, -1 if it does not; whether a report has been lost or late since an
\* opening was last reported as it began.
VARIABLES travel, missed

timesVars == <<garage, heard, started, durations, count, estimate, travel, missed>>

Places == {"CLOSED", "OPENING", "OPEN", "CLOSING", "STOPPED"}
Elapsed == -1..(MaxDuration + 1)
Never == [time |-> 0, exact |-> FALSE]

TimesTypeOK ==
    /\ garage \in Places /\ heard \in Places \cup {"UNKNOWN"}
    /\ started \in Elapsed /\ travel \in Elapsed
    /\ durations \in [0..(History - 1) -> [time : {0} \cup MinDuration..MaxDuration,
                                      exact : BOOLEAN]]
    /\ count \in 0..MaxOpenings
    /\ estimate \in 0..MaxDuration
    /\ missed \in BOOLEAN

TimesInit ==
    /\ garage \in {"CLOSED", "OPEN"} /\ heard = "UNKNOWN"
    /\ started = -1 /\ travel = -1 /\ missed = FALSE
    /\ durations = [i \in 0..(History - 1) |-> Never] /\ count = 0 /\ estimate = 0
-----------------------------------------------------------------------------
\* One pass of the insertion sort: t goes behind the last time that is not longer.
InsertTime(sorted, t) ==
    LET place == Max({0} \cup {i \in DOMAIN sorted : sorted[i] <= t})
    IN  InsertAt(sorted, place + 1, t)

Sort(s) ==
    LET pass[i \in 0..Len(s)] == IF i = 0 THEN <<>> ELSE InsertTime(pass[i - 1], s[i])
    IN  pass[Len(s)]

\* (mutant) The times are not sorted.
MiddleOfAll(s) == IF s = <<>> THEN 0 ELSE s[Len(s) \div 2 + 1]

\* doorMedian, rounded to a unit (a second) like its result.
DoorMedian(s) ==
    LET sorted == Sort(s)
        n == Len(s)
    IN  IF n = 0 THEN 0
        ELSE IF n % 2 = 1 THEN sorted[n \div 2 + 1]
        ELSE (sorted[n \div 2] + sorted[n \div 2 + 1] + 1) \div 2

\* The entries of r that are in use after n openings.
Kept(r, n) == [i \in 1..(IF n < History THEN n ELSE History) |-> r[i - 1]]
Times(r, n) == [i \in 1..Len(Kept(r, n)) |-> Kept(r, n)[i].time]

Later(t) == IF t \in 0..MaxDuration THEN t + 1 ELSE t

\* An opening of the given time is recorded and written to flash.
Record(time) ==
    /\ durations' = [durations EXCEPT ![count % History] =
                    [time |-> time, exact |-> time = travel]]
    /\ count' = count + 1
    /\ estimate' = DoorMedian(Times(durations', count'))
    /\ UNCHANGED started

\* (mutant) A stop or a turn leaves the measurement running.
NeverAborts(s) == FALSE

\* The door is neither open nor closed, and not on its way as it was.
Aborts(s) ==
    \/ s = "STOPPED"
    \/ s = "OPENING" /\ heard = "CLOSING"
    \/ s = "CLOSING" /\ heard = "OPENING"

\* update_door_state, what it does about the time of an opening.
UpdateDoorState(s) ==
    /\ heard' = s
    /\ IF s = "OPENING" /\ heard = "CLOSED"
       THEN started' = 0 /\ UNCHANGED <<durations, count, estimate>>
       ELSE IF s = "OPEN" /\ heard = "OPENING" /\ started # -1
       THEN IF started \in MinDuration..MaxDuration
            THEN Record(started)
            ELSE started' = -1 /\ UNCHANGED <<durations, count, estimate>>
       ELSE /\ started' = IF Aborts(s) THEN -1 ELSE started
            /\ UNCHANGED <<durations, count, estimate>>

\* The door does something else, and the opener's report of it arrives or is lost.
CanBecome(s) ==
    CASE garage = "CLOSED"  -> s = "OPENING"
      [] garage = "OPEN"    -> s = "CLOSING"
      [] garage = "STOPPED" -> s \in {"OPENING", "CLOSING"}
      [] garage = "OPENING" -> \/ s \in {"STOPPED", "CLOSING"}
                               \/ s = "OPEN" /\ (travel # -1 => travel \in Travels)
      [] OTHER              -> s \in {"STOPPED", "OPENING", "CLOSED"}

DoorChanges ==
    /\ count < MaxOpenings
    /\ \E s \in Places :
         /\ CanBecome(s)
         /\ garage' = s
         /\ travel' = IF garage = "CLOSED" THEN 0 ELSE -1
         /\ \/ /\ UpdateDoorState(s)
               /\ missed' = (missed /\ ~(garage = "CLOSED" /\ heard = "CLOSED"))
            \/ /\ missed' = TRUE
               /\ UNCHANGED <<heard, started, durations, count, estimate>>

\* The state is reported again; it may have been missed before.
Repeats ==
    /\ count < MaxOpenings
    /\ heard # garage
    /\ UpdateDoorState(garage)
    /\ missed' = TRUE
    /\ UNCHANGED <<garage, travel>>

Waits ==
    /\ \/ garage # "OPENING" \/ travel = -1
       \/ \E t \in Travels : travel < t
    /\ started' = Later(started) /\ travel' = Later(travel)
    /\ UNCHANGED <<garage, heard, durations, count, estimate, missed>>

\* A restart: the durations are read back and the estimate made from it anew.
Restarts ==
    /\ heard' = "UNKNOWN" /\ started' = -1
    /\ estimate' = DoorMedian(Times(durations, count))
    /\ UNCHANGED <<garage, durations, count, travel, missed>>

TimesNext == DoorChanges \/ Repeats \/ Waits \/ Restarts
TimesSpec == TimesInit /\ [][TimesNext]_timesVars
-----------------------------------------------------------------------------
\* What is recorded is the travel of the door: no opening that stopped or turned
\* on the way is taken for a long one, unless a report was lost or late.
TravelUnlessMissed ==
    [][count' # count => missed \/ durations'[count % History].exact]_timesVars

\* As long as fewer than half of the openings kept are mismeasured - the door
\* paused or turned and the report of it was lost, or the report of the start or
\* the end was late - the estimate, which arms the watch for a door that does not
\* get there and times partial openings, is between the shortest and the longest
\* true travel kept.
EstimateOutlivesErrors ==
    LET kept  == Kept(durations, count)
        exact == {i \in DOMAIN kept : kept[i].exact}
    IN  2 * Cardinality(exact) > Len(kept) =>
            /\ \E i \in exact : kept[i].time <= estimate
            /\ \E i \in exact : kept[i].time >= estimate
=============================================================================
