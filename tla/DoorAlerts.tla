----------------------------- MODULE DoorAlerts -----------------------------
(***************************************************************************)
(* The two HomeKit alert sensors, "Garage Left Open" and "Garage Close     *)
(* Failed": class DoorAlerts (door_alerts.h) with the code in homekit.cpp  *)
(* that feeds it.  It is updated in every pass of homekit_loop and at every*)
(* change of the reported door state, with the 32-bit millisecond clock.   *)
(*                                                                         *)
(* Here the clock counts larger units modulo ClockSpace, so that the checks*)
(* cover its rollover.  The exact times are kept beside it as history.     *)
(***************************************************************************)
EXTENDS Integers

CONSTANTS ClockSpace,    \* values of the clock (2^32 ms)
          CloseTimeout,  \* closeTimeoutMs
          OneDay,        \* 1440 minutes: where the elapsed time saturates
          Limits,        \* values of getLeftOpenMinutes; 0 switches it off
          MaxGap         \* bound of the model: time between two updates

ASSUME DoorAlertsAssumption ==
    /\ ClockSpace \in Nat \ {0}
    /\ CloseTimeout \in Nat \ {0}
    /\ OneDay \in Nat \ {0}
    /\ MaxGap \in Nat \ {0}
    /\ Limits \subseteq 0..OneDay
    /\ CloseTimeout + MaxGap < ClockSpace
    /\ OneDay < ClockSpace

VARIABLES
    now,      \* millis()
    state,    \* garage_door.current_state
    limit,    \* the configured minutes
    didNot,   \* closeDidNotStart: set by the timer, taken by the loop
    alerts    \* the fields of class DoorAlerts

\* History: the limit at the last update; how long the door has been known not to
\* be closed, -1 if it is not; and how long it has been closing.  Both times
\* count up to the point beyond which they make no difference.
VARIABLES shown, openFor, closingFor

history == <<shown, openFor, closingFor>>
vars == <<now, state, limit, didNot, alerts, history>>

Known == {"OPEN", "CLOSED", "OPENING", "CLOSING", "STOPPED"}
State == Known \cup {"UNKNOWN"}
Clock == 0..(ClockSpace - 1)

Alerts == [away : BOOLEAN, closing : BOOLEAN, leftOpen : BOOLEAN,
           closeFailed : BOOLEAN, lastUpdate : Clock, awayElapsed : 0..OneDay,
           closingSince : Clock]

TypeOK ==
    /\ now \in Clock
    /\ state \in State
    /\ limit \in Limits
    /\ didNot \in BOOLEAN
    /\ alerts \in Alerts
    /\ shown \in Limits
    /\ openFor \in -1..OneDay
    /\ closingFor \in 0..CloseTimeout

Init ==
    /\ now = 0
    /\ state = "UNKNOWN"
    /\ limit \in Limits
    /\ didNot = FALSE
    /\ alerts = [away |-> FALSE, closing |-> FALSE, leftOpen |-> FALSE,
                 closeFailed |-> FALSE, lastUpdate |-> 0, awayElapsed |-> 0,
                 closingSince |-> 0]
    /\ shown = limit /\ openFor = -1 /\ closingFor = 0
-----------------------------------------------------------------------------
(* DoorAlerts::update.                                                      *)

Since(t, then) == (t - then) % ClockSpace

AddedUp(elapsed, delta) == elapsed + delta   \* (mutant) no saturation
Accrued(elapsed, delta) ==
    IF delta < OneDay - elapsed THEN elapsed + delta ELSE OneDay

AwayIfKnown(a, s) == s # "UNKNOWN"   \* (mutant) an unknown state ends it
Away(a, s) == a.away \/ s # "UNKNOWN"

ClosingSeen(a, s) == s = "CLOSING"   \* (mutant) starts the time again
ClosingBegins(a, s) == s = "CLOSING" /\ ~a.closing /\ ~a.closeFailed

FailsNow(a, fails) == fails   \* (mutant) no latch
CloseFailed(a, fails) == a.closeFailed \/ fails

Closed(a, t) ==
    [a EXCEPT !.away = FALSE, !.closing = FALSE, !.leftOpen = FALSE,
              !.closeFailed = FALSE, !.awayElapsed = 0, !.lastUpdate = t]

NotClosed(a, s, t, lim) ==
    LET away    == Away(a, s)
        elapsed == IF a.away THEN Accrued(a.awayElapsed, Since(t, a.lastUpdate))
                   ELSE 0
        begins  == ClosingBegins(a, s)
        closing == a.closing \/ begins
        since   == IF begins THEN t ELSE a.closingSince
        fails   == closing /\ \/ s \in Known \ {"CLOSING"}
                              \/ Since(t, since) >= CloseTimeout
    IN  [away         |-> away,
         closing      |-> closing /\ ~fails,
         leftOpen     |-> away /\ lim # 0 /\ elapsed >= lim,
         closeFailed  |-> CloseFailed(a, fails),
         lastUpdate   |-> t,
         awayElapsed  |-> elapsed,
         closingSince |-> since]

Update(a, s, t, lim) ==
    IF s = "CLOSED" THEN Closed(a, t) ELSE NotClosed(a, s, t, lim)

CloseDidNotStart(a) == [a EXCEPT !.closeFailed = TRUE, !.closing = FALSE]
-----------------------------------------------------------------------------
(* homekit.cpp.                                                             *)

Capped(n, cap) == IF n < cap THEN n ELSE cap

\* Time passes and the alerts, as they stand in a, are updated with state s.
UpdateAlerts(gap, a, s) ==
    /\ now' = (now + gap) % ClockSpace
    /\ alerts' = Update(a, s, now', limit)
    /\ shown' = limit
    /\ openFor' = IF s = "CLOSED" \/ (openFor = -1 /\ s = "UNKNOWN") THEN -1
                  ELSE IF openFor = -1 THEN 0
                  ELSE Capped(openFor + gap, OneDay)
    /\ closingFor' = IF s = "CLOSING" /\ state = "CLOSING"
                     THEN Capped(closingFor + gap, CloseTimeout) ELSE 0

\* A pass of homekit_loop.  The timer's alert is dropped for a closed door.
HomekitLoop ==
    /\ \E gap \in 1..MaxGap :
         UpdateAlerts(gap,
                      IF didNot /\ state # "CLOSED" THEN CloseDidNotStart(alerts)
                      ELSE alerts,
                      state)
    /\ didNot' = FALSE
    /\ UNCHANGED <<state, limit>>

\* notify_homekit_current_door_state_change.
StateChange ==
    /\ \E gap \in 0..MaxGap, s \in State : state' = s /\ UpdateAlerts(gap, alerts, s)
    /\ UNCHANGED <<limit, didNot>>

\* checkDoorMoving fires after a close command (comms.cpp): the alert is left
\* for the loop and the state is notified again.
CloseNotStarted ==
    /\ didNot' = TRUE
    /\ \E gap \in 0..MaxGap : UpdateAlerts(gap, alerts, state)
    /\ UNCHANGED <<state, limit>>

\* The user saves another duration; it is read at the next update.
SetLimit ==
    /\ limit' \in Limits
    /\ UNCHANGED <<now, state, didNot, alerts, history>>

Next == HomekitLoop \/ StateChange \/ CloseNotStarted \/ SetLimit

Spec == Init /\ [][Next]_vars
-----------------------------------------------------------------------------
(* Properties (docs/door-alerts.md).                                        *)

\* Left Open is raised exactly when the door has been known not to be closed
\* for the configured time, whatever the state in between, the clock's rollover
\* and changes of the setting; it stays raised after a day.
LeftOpenOnTime == alerts.leftOpen <=> shown # 0 /\ openFor >= shown

\* A close that is not complete in time has failed, however often the state was
\* reported again meanwhile and wherever the clock rolls over.
CloseFailsInTime ==
    state = "CLOSING" /\ closingFor >= CloseTimeout => alerts.closeFailed

\* "A later retry does not clear a failure until the door is fully closed."
FailureLatched ==
    [][alerts.closeFailed /\ ~alerts'.closeFailed => state' = "CLOSED"]_vars
=============================================================================
