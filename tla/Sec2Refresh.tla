---------------------------- MODULE Sec2Refresh ----------------------------
(***************************************************************************)
(* When the firmware asks a Security+ 2.0 opener for its status of its own *)
(* accord: class Sec2StatusRefresh (sec2_rx.h) as comms_loop_sec2 uses it. *)
(*                                                                         *)
(* The millisecond clock is 32 bits wide; here it counts larger units      *)
(* modulo ClockSpace.  The exact times since the last status and the last  *)
(* query are kept beside it as history.                                    *)
(***************************************************************************)
EXTENDS Integers

CONSTANTS ClockSpace,  \* values of millis() (2^32)
          Fast, Slow,  \* the two intervals (5000 and 300000 ms)
          MaxFast,     \* queries before the fast interval is given up (3)
          PassGap,     \* bound of the model: time between two passes
          MaxBusy      \* bound of the model: passes that find the queue filled

ASSUME Sec2RefreshAssumption ==
    /\ ClockSpace \in Nat \ {0}
    /\ Fast \in Nat \ {0}
    /\ Slow \in Nat /\ Fast < Slow
    /\ MaxFast \in Nat \ {0}
    /\ PassGap \in Nat \ {0}
    /\ MaxBusy \in Nat
    /\ 2 * (Slow + (MaxBusy + 2) * PassGap) < ClockSpace

VARIABLES
    now,         \* millis()
    lastStatus, lastQuery, recovery, hasStatus, unanswered,  \* the class
    statusDone,  \* comms_status_done
    moving,      \* current_state is OPENING or CLOSING
    asked,       \* pendingDoorCommand or another answer is awaited
    busy         \* passes in a row that found the transmit queue filled

\* History, exact and capped where it makes no difference: time since the last
\* status and the last query, and fast polls since the last status.
VARIABLES sinceStatus, sinceQuery, fastPolls

refresh == <<lastStatus, lastQuery, recovery, hasStatus, unanswered>>
history == <<sinceStatus, sinceQuery, fastPolls>>
vars == <<now, refresh, statusDone, moving, asked, busy, history>>

Clock == 0..(ClockSpace - 1)
Long  == 2 * (Slow + (MaxBusy + 2) * PassGap)   \* cap of the exact times

TypeOK ==
    /\ now \in Clock /\ lastStatus \in Clock /\ lastQuery \in Clock
    /\ recovery \in BOOLEAN
    /\ hasStatus \in BOOLEAN
    /\ unanswered \in 0..MaxFast
    /\ statusDone \in BOOLEAN
    /\ moving \in BOOLEAN
    /\ asked \in BOOLEAN
    /\ busy \in 0..MaxBusy
    /\ sinceStatus \in 0..Long /\ sinceQuery \in 0..Long
    /\ fastPolls \in 0..(MaxFast + 1)

\* setup_comms: reset(millis()).
Init ==
    /\ now \in Clock
    /\ lastStatus = now /\ lastQuery = now
    /\ recovery = FALSE /\ hasStatus = FALSE /\ unanswered = 0
    /\ statusDone = FALSE /\ moving = FALSE /\ asked = FALSE
    /\ busy = 0
    /\ sinceStatus = 0 /\ sinceQuery = 0 /\ fastPolls = 0
-----------------------------------------------------------------------------
Since(t, then) == (t - then) % ClockSpace
Capped(n, cap) == IF n < cap THEN n ELSE cap

Interval(t, lost) == IF (moving \/ lost) /\ unanswered < MaxFast THEN Fast ELSE Slow

\* (mutant) Deadlines are compared instead of elapsed times.
DueByDeadline(t, lost) ==
    /\ t >= lastQuery + Interval(t, lost)
    /\ lost \/ t >= lastStatus + Interval(t, lost)

\* due, when "lost" says whether recovery is wanted.
Due(t, lost) ==
    /\ Since(t, lastQuery) >= Interval(t, lost)
    /\ lost \/ Since(t, lastStatus) >= Interval(t, lost)

QueriedOnAndOn == unanswered + 1   \* (mutant) the count is not capped
Queried == Capped(unanswered + 1, MaxFast)

\* The top of a pass of comms_loop_sec2: time has passed, bytes may have been
\* lost, and with an empty queue the status is asked for when that is due.
Pass ==
    /\ \E gap \in 1..PassGap, loss \in BOOLEAN, filled \in BOOLEAN :
         LET t    == (now + gap) % ClockSpace
             lost == recovery \/ loss
             poll == statusDone /\ ~filled /\ Due(t, lost)
         IN  /\ filled => busy < MaxBusy
             /\ busy' = IF filled THEN busy + 1 ELSE 0
             /\ now' = t
             /\ recovery' = lost
             /\ lastQuery' = IF poll THEN t ELSE lastQuery
             /\ unanswered' = IF poll THEN Queried ELSE unanswered
             /\ sinceStatus' = Capped(sinceStatus + gap, Long)
             /\ sinceQuery' = IF poll THEN 0 ELSE Capped(sinceQuery + gap, Long)
             /\ fastPolls' = IF poll /\ sinceQuery + gap < Slow
                             THEN Capped(fastPolls + 1, MaxFast + 1)
                             ELSE fastPolls
    /\ UNCHANGED <<lastStatus, hasStatus, statusDone, moving, asked>>

\* A status packet: received(millis()); it says whether the door moves and
\* answers what was awaited.
RxStatus ==
    /\ lastStatus' = now
    /\ hasStatus' = TRUE
    /\ recovery' = FALSE
    /\ unanswered' = 0
    /\ statusDone' = TRUE
    /\ moving' \in BOOLEAN
    /\ asked' = FALSE
    /\ sinceStatus' = 0 /\ fastPolls' = 0
    /\ UNCHANGED <<now, lastQuery, busy, sinceQuery>>

\* (mutant) A lost packet also forgives the unanswered queries.
RxUnknownForgives ==
    /\ ~hasStatus \/ Since(now, lastStatus) > Slow \/ moving \/ asked
    /\ recovery' = TRUE
    /\ unanswered' = 0
    /\ UNCHANGED <<now, lastStatus, lastQuery, hasStatus, statusDone, moving,
                   asked, busy, history>>

\* A packet that does not decode may have been a status that was needed.
RxUnknown ==
    /\ ~hasStatus \/ Since(now, lastStatus) > Slow \/ moving \/ asked
    /\ recovery' = TRUE
    /\ UNCHANGED <<now, lastStatus, lastQuery, hasStatus, unanswered, statusDone,
                   moving, asked, busy, history>>

\* Another part of the firmware queues a status query, with a door, light or
\* lock command or in answer to a packet.
OtherQuery ==
    /\ lastQuery' = now
    /\ unanswered' = Queried
    /\ asked' \in {asked, TRUE}
    /\ sinceQuery' = 0
    /\ UNCHANGED <<now, lastStatus, recovery, hasStatus, statusDone, moving, busy,
                   sinceStatus, fastPolls>>

Next == Pass \/ RxStatus \/ RxUnknown \/ OtherQuery

Spec == Init /\ [][Next]_vars
-----------------------------------------------------------------------------
(* Properties (docs/door-alerts.md).                                        *)

Silence == IF sinceStatus < sinceQuery THEN sinceStatus ELSE sinceQuery
\* The passes until the queue is empty, when the clock turns and when it is due.
Slack   == (2 * MaxBusy + 1) * PassGap

\* "After five minutes without valid status, the controller asks the opener
\* again": however the clock rolls over, a silent bus is asked again within twice
\* the slow interval.  Not within one: where the opener has talked of its own
\* accord for a whole turn of the clock, the last query seems to be recent.
SilenceBounded == statusDone => Silence < 2 * Slow + Slack

\* "Three unanswered queries cause a fallback to the five-minute cadence": losses
\* and undecodable packets do not keep the fast polling alive.
FastRetriesBounded == fastPolls <= MaxFast
=============================================================================
