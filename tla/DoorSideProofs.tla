--------------------------- MODULE DoorSideProofs ---------------------------
(***************************************************************************)
(* What a dry contact door is reported to do follows its two contacts, the *)
(* alerts of a door that stays open or does not close are raised in time,  *)
(* the log is printed in order, and the estimate of a travel outlives      *)
(* mismeasured openings; each unit of MCDoorSide keeps its types.          *)
(***************************************************************************)
EXTENDS MCDoorSide, SequenceTheorems, FiniteSetTheorems, WellFoundedInduction, TLAPS

\* The types of what a pass of the loop reads.
FlagTypes ==
    /\ dryDoor \in BOOLEAN /\ short \in BOOLEAN
    /\ stage \in [Contact -> {"up", "down", "long"}]
    /\ contact \in [Contact -> BOOLEAN] /\ was \in [Contact -> BOOLEAN]

\* The flags of a dry contact door, and those of the pass before, agree with what
\* OneButton sees.
FlagsFollow == dryDoor /\ ~short => \A c \in Contact : contact[c] = At(c) /\ was[c] = At(c)

\* The end that is seen is the one remembered.
EndRemembered ==
    /\ At("close") => lastEnd = "close"
    /\ At("open") /\ ~At("close") => lastEnd = "open"

\* The inductive invariant.
ContactInv == FlagTypes /\ FlagsFollow /\ EndRemembered /\ StateFollowsEnds
-----------------------------------------------------------------------------
\* A contact's flag after a pass, if the opening of no contact has gone unnoticed.
LEMMA PressedFollows ==
    ASSUME FlagTypes, NEW c \in Contact, contact[c] = At(c),
           NEW t \in [Contact -> {"up", "down", "long"}],
           ~(stage[c] = "down" /\ t[c] = "up")
    PROVE  Pressed(c, t) = (t[c] # "up")
<1>1. stage[c] \in {"up", "down", "long"} /\ t[c] \in {"up", "down", "long"}
      /\ contact[c] \in BOOLEAN
  BY DEF FlagTypes
<1>2. contact[c] = (stage[c] # "up")
  BY DEF At
<1> QED
  BY <1>1, <1>2 DEF Pressed

\* One pass of drycontact_loop of a dry contact door.
LEMMA LoopKeepsInv == ContactInv /\ Loop => ContactInv'
<1> SUFFICES ASSUME ContactInv, Loop PROVE ContactInv'
  OBVIOUS
<1> USE DEF ContactInv
<1>1. PICK t \in [Contact -> {"up", "down", "long"}] :
         LET flags == [c \in Contact |-> Pressed(c, t)]
         IN  /\ \A c \in Contact : NextStage(c, stage[c], t[c])
             /\ stage' = t
             /\ short' = (short \/ \E c \in Contact : stage[c] = "down" /\ t[c] = "up")
             /\ lastEnd' = IF t["close"] # "up" THEN "close"
                           ELSE IF t["open"] # "up" THEN "open" ELSE lastEnd
             /\ IF dryDoor
                THEN /\ doorState' = StateNow(flags)
                     /\ contact' = flags /\ was' = flags
                     /\ requests' = requests
                ELSE /\ requests' = IF openClose THEN requests \o Asked(flags) ELSE requests
                     /\ contact' = IF openClose THEN [c \in Contact |-> FALSE] ELSE flags
                     /\ UNCHANGED <<doorState, was>>
  BY DEF Loop
<1> DEFINE flags == [c \in Contact |-> Pressed(c, t)]
<1>2. dryDoor' = dryDoor
  BY DEF Loop
<1>3. flags \in [Contact -> BOOLEAN]
  <2>1. ASSUME NEW c \in Contact PROVE Pressed(c, t) \in BOOLEAN
    BY DEF Pressed, FlagTypes
  <2> QED
    BY <2>1
<1>4. FlagTypes'
  BY <1>1, <1>2, <1>3 DEF FlagTypes
<1>5. EndRemembered'
  BY <1>1 DEF EndRemembered, At
<1>6. ASSUME dryDoor, ~short' PROVE FlagsFollow' /\ StateFollowsEnds'
  <2>1. ~short /\ \A c \in Contact : ~(stage[c] = "down" /\ t[c] = "up")
    BY <1>1, <1>6 DEF FlagTypes
  <2>2. \A c \in Contact : contact[c] = At(c) /\ was[c] = At(c)
    BY <2>1, <1>6 DEF FlagsFollow
  <2>3. \A c \in Contact : flags[c] = (t[c] # "up")
    BY <2>1, <2>2, PressedFollows
  <2>4. \A c \in Contact : At(c)' = (t[c] # "up")
    BY <1>1 DEF At
  <2>5. contact' = flags /\ was' = flags /\ doorState' = StateNow(flags)
    BY <1>1, <1>6
  <2>6. FlagsFollow'
    BY <2>3, <2>4, <2>5 DEF FlagsFollow
  <2>7. lastEnd' = IF t["close"] # "up" THEN "close"
                   ELSE IF t["open"] # "up" THEN "open" ELSE lastEnd
    BY <1>1
  <2>8. "close" \in Contact /\ "open" \in Contact
    BY DEF Contact
  <2>9. StateFollowsEnds'
    <3> HIDE DEF flags
    <3> USE <2>8
    <3>1. CASE At("close")' \/ At("open")'
      BY <3>1, <2>3, <2>4, <2>5 DEF StateFollowsEnds, StateNow
    <3>2. CASE ~At("close")' /\ ~At("open")'
      <4>1. ~flags["close"] /\ ~flags["open"] /\ lastEnd' = lastEnd
        BY <3>2, <2>3, <2>4, <2>7
      <4>2. was["close"] = At("close") /\ was["open"] = At("open")
        BY <2>2
      <4>3. doorState' = IF At("close") THEN "OPENING"
                         ELSE IF At("open") THEN "CLOSING" ELSE doorState
        BY <4>1, <4>2, <2>5 DEF StateNow
      <4>4. doorState' = IF lastEnd = "close" THEN "OPENING"
                         ELSE IF lastEnd = "open" THEN "CLOSING" ELSE "UNKNOWN"
        BY <4>3, <2>1, <1>6 DEF StateFollowsEnds, EndRemembered
      <4> QED
        BY <4>1, <4>4, <3>2 DEF StateFollowsEnds
    <3> QED
      BY <3>1, <3>2
  <2> QED
    BY <2>6, <2>9
<1>7. ASSUME ~(dryDoor /\ ~short') PROVE FlagsFollow' /\ StateFollowsEnds'
  BY <1>2, <1>7 DEF FlagsFollow, StateFollowsEnds
<1> QED
  BY <1>4, <1>5, <1>6, <1>7

\* ContactInv is inductive.
THEOREM ContactInvariant == DrySpec => []ContactInv
<1>1. DryInit => ContactInv
  BY DEF DryInit, ContactInv, FlagTypes, FlagsFollow, EndRemembered, StateFollowsEnds,
         At, Contact
<1>2. ContactInv /\ [DryNext]_dryVars => ContactInv'
  <2> SUFFICES ASSUME ContactInv, [DryNext]_dryVars PROVE ContactInv'
    OBVIOUS
  <2> USE DEF ContactInv, FlagTypes, FlagsFollow, EndRemembered, StateFollowsEnds, At
  <2>1. CASE Moves
    BY <2>1 DEF Moves
  <2>2. CASE Loop
    BY <2>2, LoopKeepsInv
  <2>3. CASE Tell
    BY <2>3 DEF Tell
  <2>4. CASE Done \/ SetOpenClose
    BY <2>4 DEF Done, SetOpenClose
  <2>5. CASE UNCHANGED dryVars
    BY <2>5 DEF dryVars
  <2> QED
    BY <2>1, <2>2, <2>3, <2>4, <2>5 DEF DryNext
<1> QED
  BY <1>1, <1>2, PTL DEF DrySpec

\* For any number of requests: a dry contact door is where its contacts say, and
\* moves away from the end it left last, unless a contact was too short to be seen
\* to open.
THEOREM StateFollows == DrySpec => []StateFollowsEnds
<1>1. ContactInv => StateFollowsEnds
  BY DEF ContactInv
<1> QED
  BY <1>1, ContactInvariant, PTL
-----------------------------------------------------------------------------
\* The fields that time is measured with, as they stand in a, agree with the exact
\* times beside them.
AwayFollows(a) ==
    /\ a.lastUpdate = now
    /\ a.away <=> openFor # -1
    /\ a.away => a.awayElapsed = openFor

\* A close that is watched has not run out, and has been watched since it began; one
\* that is not watched has failed.
CloseWatched(a) ==
    /\ a.closing => Since(now, a.closingSince) < CloseTimeout
    /\ a.closing /\ state = "CLOSING" => closingFor <= Since(now, a.closingSince)
    /\ state = "CLOSING" => a.closing \/ a.closeFailed

\* The inductive invariant.
AlertsInv ==
    TypeOK /\ AwayFollows(alerts) /\ CloseWatched(alerts) /\ LeftOpenOnTime
-----------------------------------------------------------------------------
\* Remainders of what is less than two turns of the clock away.
LEMMA Remainders ==
    ASSUME NEW n \in Nat \ {0}, NEW x \in 0..(n - 1)
    PROVE  x % n = x /\ (x + n) % n = x /\ (x - n) % n = x
OBVIOUS

\* The clock is a clock.
LEMMA ClockRuns ==
    ASSUME NEW t \in Clock, NEW gap \in 0..MaxGap
    PROVE  (t + gap) % ClockSpace \in Clock
BY DoorAlertsAssumption DEF Clock

\* Times on the clock differ by less than a turn of it.
LEMMA SinceClock ==
    ASSUME NEW t \in Clock, NEW then \in Clock
    PROVE  Since(t, then) \in Clock /\ Since(t, then) \in Nat /\ Since(t, t) = 0
BY DoorAlertsAssumption DEF Clock, Since

\* Elapsed time adds up across the rollover of the clock, up to a turn of it.
LEMMA SinceAdds ==
    ASSUME NEW t \in Clock, NEW then \in Clock, NEW gap \in 0..MaxGap,
           Since(t, then) + gap < ClockSpace
    PROVE  Since((t + gap) % ClockSpace, then) = Since(t, then) + gap
<1> DEFINE n == ClockSpace
           u == (t + gap) % n
<1>1. /\ n \in Nat \ {0} /\ MaxGap < n
      /\ t \in 0..(n - 1) /\ then \in 0..(n - 1) /\ gap \in 0..(n - 1)
  BY DoorAlertsAssumption DEF Clock
<1>2. Since(t, then) = IF t >= then THEN t - then ELSE t - then + n
  <2>1. CASE t >= then
    BY <1>1, <2>1, Remainders DEF Since
  <2>2. CASE t < then
    <3>1. t - then + n \in 0..(n - 1) /\ t - then = (t - then + n) - n
      BY <1>1, <2>2
    <3>2. ((t - then + n) - n) % n = t - then + n
      BY <1>1, <3>1, Remainders
    <3> QED
      BY <1>1, <2>2, <3>1, <3>2 DEF Since
  <2> QED
    BY <1>1, <2>1, <2>2
<1>3. u = IF t + gap < n THEN t + gap ELSE t + gap - n
  <2>1. CASE t + gap < n
    BY <1>1, <2>1, Remainders
  <2>2. CASE t + gap >= n
    <3>1. t + gap - n \in 0..(n - 1) /\ t + gap = (t + gap - n) + n
      BY <1>1, <2>2
    <3>2. ((t + gap - n) + n) % n = t + gap - n
      BY <1>1, <3>1, Remainders
    <3> QED
      BY <1>1, <2>2, <3>1, <3>2
  <2> QED
    BY <1>1, <2>1, <2>2
<1> DEFINE r == Since(t, then) + gap
<1>4. r \in 0..(n - 1) /\ (u - then = r \/ u - then = r - n)
  BY <1>1, <1>2, <1>3
<1> HIDE DEF u, r
<1>5. (u - then) % n = r
  BY <1>1, <1>4, Remainders
<1> QED
  BY <1>5 DEF Since, u, r

\* An update of the alerts, which stood as in a.
LEMMA UpdateKeeps ==
    ASSUME TypeOK, NEW gap \in 0..MaxGap, NEW s \in State, NEW a \in Alerts,
           AwayFollows(a), CloseWatched(a), UpdateAlerts(gap, a, s),
           state' = s, UNCHANGED limit, didNot' \in BOOLEAN
    PROVE  AlertsInv'
<1> DEFINE t == now'
           added == Since(t, a.lastUpdate)
<1>1. /\ ClockSpace \in Nat /\ CloseTimeout \in Nat \ {0} /\ OneDay \in Nat \ {0}
      /\ MaxGap \in Nat /\ CloseTimeout + MaxGap < ClockSpace /\ OneDay < ClockSpace
      /\ Limits \subseteq 0..OneDay
  BY DoorAlertsAssumption
<1>2. /\ now \in Clock /\ limit \in Limits /\ openFor \in -1..OneDay
      /\ closingFor \in 0..CloseTimeout /\ state \in State
  BY DEF TypeOK
<1>3. /\ a.away \in BOOLEAN /\ a.closing \in BOOLEAN /\ a.closeFailed \in BOOLEAN
      /\ a.awayElapsed \in 0..OneDay /\ a.closingSince \in Clock
  BY DEF Alerts
<1>4. t \in Clock /\ t = (now + gap) % ClockSpace
  BY <1>2, ClockRuns DEF UpdateAlerts
<1>5. added = gap
  <2>1. Since(now, now) = 0 /\ Since(now, now) + gap < ClockSpace
    BY <1>1, <1>2, SinceClock
  <2> QED
    BY <1>2, <1>4, <2>1, SinceAdds DEF AwayFollows
<1>6. /\ alerts' = Update(a, s, t, limit) /\ shown' = limit
      /\ openFor' = IF s = "CLOSED" \/ (openFor = -1 /\ s = "UNKNOWN") THEN -1
                    ELSE IF openFor = -1 THEN 0
                    ELSE Capped(openFor + gap, OneDay)
      /\ closingFor' = IF s = "CLOSING" /\ state = "CLOSING"
                       THEN Capped(closingFor + gap, CloseTimeout) ELSE 0
  BY DEF UpdateAlerts
<1>7. openFor' \in -1..OneDay /\ closingFor' \in 0..CloseTimeout
  BY <1>1, <1>2, <1>6 DEF Capped
<1>8. CASE s = "CLOSED"
  <2>1. alerts' = Closed(a, t)
    BY <1>6, <1>8 DEF Update
  <2>2. /\ ~alerts'.away /\ ~alerts'.closing /\ ~alerts'.leftOpen /\ ~alerts'.closeFailed
        /\ alerts'.lastUpdate = t
    BY <2>1 DEF Closed, Alerts
  <2>3. alerts' = [away |-> FALSE, closing |-> FALSE, leftOpen |-> FALSE,
                   closeFailed |-> FALSE, lastUpdate |-> t, awayElapsed |-> 0,
                   closingSince |-> a.closingSince]
    BY <2>1 DEF Closed, Alerts
  <2>4. alerts' \in Alerts
    BY <1>1, <1>3, <1>4, <2>3 DEF Alerts
  <2>5. /\ ~alerts'.away /\ ~alerts'.closing /\ ~alerts'.leftOpen /\ ~alerts'.closeFailed
        /\ alerts'.lastUpdate = t /\ alerts' \in Alerts
    BY <2>2, <2>4
  <2>6. openFor' = -1
    BY <1>6, <1>8
  <2>7. TypeOK'
    BY <1>2, <1>4, <1>6, <1>7, <2>5 DEF TypeOK
  <2>8. LeftOpenOnTime'
    BY <1>1, <1>2, <1>6, <2>5, <2>6 DEF LeftOpenOnTime
  <2> QED
    BY <1>8, <2>5, <2>6, <2>7, <2>8 DEF AlertsInv, AwayFollows, CloseWatched
<1>9. CASE s # "CLOSED"
  <2> DEFINE away    == Away(a, s)
             elapsed == IF a.away THEN Accrued(a.awayElapsed, added) ELSE 0
             begins  == ClosingBegins(a, s)
             closing == a.closing \/ begins
             since   == IF begins THEN t ELSE a.closingSince
             fails   == closing /\ \/ s \in Known \ {"CLOSING"}
                                   \/ Since(t, since) >= CloseTimeout
  <2>1. alerts' = [away         |-> away,
                   closing      |-> closing /\ ~fails,
                   leftOpen     |-> away /\ limit # 0 /\ elapsed >= limit,
                   closeFailed  |-> CloseFailed(a, fails),
                   lastUpdate   |-> t,
                   awayElapsed  |-> elapsed,
                   closingSince |-> since]
    BY <1>6, <1>9 DEF Update, NotClosed
  <2>2. /\ alerts'.away = away /\ alerts'.closing = (closing /\ ~fails)
        /\ alerts'.leftOpen = (away /\ limit # 0 /\ elapsed >= limit)
        /\ alerts'.closeFailed = CloseFailed(a, fails)
        /\ alerts'.lastUpdate = t /\ alerts'.awayElapsed = elapsed
        /\ alerts'.closingSince = since
    BY <2>1, Zenon
  <2>3. /\ away \in BOOLEAN /\ begins \in BOOLEAN /\ closing \in BOOLEAN
        /\ fails \in BOOLEAN /\ CloseFailed(a, fails) \in BOOLEAN
    BY <1>3 DEF Away, ClosingBegins, CloseFailed
  <2>4. elapsed \in 0..OneDay
    BY <1>1, <1>3, <1>5 DEF Accrued
  <2>5. since \in Clock
    BY <1>3, <1>4
  <2>6. alerts' \in Alerts
    <3> HIDE DEF away, elapsed, begins, closing, since, fails
    <3> QED
      BY <1>4, <2>1, <2>3, <2>4, <2>5 DEF Alerts
  <2>7. TypeOK'
    BY <1>2, <1>4, <1>6, <1>7, <2>6 DEF TypeOK
  <2>8. (openFor' # -1 <=> away) /\ (away => openFor' = elapsed)
    BY <1>1, <1>2, <1>3, <1>5, <1>6, <1>9 DEF Away, Accrued, Capped, AwayFollows
  <2>9. AwayFollows(alerts)'
    BY <2>2, <2>8 DEF AwayFollows
  <2>10. LeftOpenOnTime'
    <3>1. shown' = limit /\ limit \in Nat /\ openFor' \in Int
      BY <1>1, <1>2, <1>6, <1>7
    <3>2. alerts'.leftOpen <=> away /\ limit # 0 /\ elapsed >= limit
      BY <2>2, <2>3, Zenon
    <3> HIDE DEF away, elapsed
    <3>3. away /\ limit # 0 /\ elapsed >= limit <=> limit # 0 /\ openFor' >= limit
      <4>1. CASE away
        BY <2>8, <4>1
      <4>2. CASE ~away
        BY <2>8, <3>1, <4>2
      <4> QED
        BY <4>1, <4>2
    <3> QED
      BY <3>1, <3>2, <3>3 DEF LeftOpenOnTime
  <2>11. closing => Since(t, since) = IF begins THEN 0 ELSE Since(now, a.closingSince) + gap
    <3>1. CASE begins
      <4>1. since = t /\ Since(t, t) = 0
        BY <1>4, <3>1, SinceClock
      <4> HIDE DEF since, begins
      <4> QED
        BY <3>1, <4>1
    <3>2. CASE ~begins /\ a.closing
      <4>1. Since(now, a.closingSince) \in Nat
        BY <1>2, <1>3, SinceClock
      <4>2. Since(now, a.closingSince) + gap < ClockSpace
        BY <1>1, <3>2, <4>1 DEF CloseWatched
      <4>3. Since(t, a.closingSince) = Since(now, a.closingSince) + gap
        BY <1>2, <1>3, <1>4, <4>2, SinceAdds
      <4>4. since = a.closingSince
        BY <3>2
      <4> HIDE DEF since, begins
      <4> QED
        BY <3>2, <4>3, <4>4
    <3> QED
      BY <3>1, <3>2
  <2>12. CloseWatched(alerts)'
    <3>1. ASSUME alerts'.closing
          PROVE  Since(t, since) < CloseTimeout
      <4>1. Since(t, since) \in Clock /\ ~(Since(t, since) >= CloseTimeout)
        BY <1>4, <2>2, <2>5, <3>1, SinceClock
      <4> QED
        BY <1>1, <4>1 DEF Clock
    <3>2. ASSUME alerts'.closing, s = "CLOSING"
          PROVE  closingFor' <= Since(t, since)
      <4>1. CASE begins
        <5>1. state # "CLOSING"
          BY <4>1 DEF ClosingBegins, CloseWatched
        <5>2. closingFor' = 0
          BY <1>6, <5>1
        <5> QED
          BY <2>11, <4>1, <5>2
      <4>2. CASE ~begins
        <5>1. a.closing /\ Since(t, since) = Since(now, a.closingSince) + gap
          BY <2>2, <2>11, <3>1, <3>2, <4>2, Zenon
        <5>2. Since(now, a.closingSince) \in Nat
          BY <1>2, <1>3, SinceClock
        <5>3. state = "CLOSING" => closingFor <= Since(now, a.closingSince)
          BY <5>1 DEF CloseWatched
        <5> QED
          BY <1>1, <1>2, <1>6, <5>1, <5>2, <5>3 DEF Capped
      <4> QED
        BY <4>1, <4>2
    <3>3. s = "CLOSING" => alerts'.closing \/ alerts'.closeFailed
      BY <1>3, <2>2 DEF ClosingBegins, CloseFailed
    <3>4. s = state' /\ t = now' /\ since = alerts'.closingSince
      BY <2>2
    <3> HIDE DEF t, since
    <3> QED
      BY <3>1, <3>2, <3>3, <3>4 DEF CloseWatched
  <2> QED
    BY <2>7, <2>9, <2>10, <2>12 DEF AlertsInv
<1> QED
  BY <1>8, <1>9

\* The alerts start with nothing timed.
LEMMA AlertsStarts == Init => AlertsInv
<1> SUFFICES ASSUME Init PROVE AlertsInv
  OBVIOUS
<1>1. /\ ClockSpace \in Nat \ {0} /\ CloseTimeout \in Nat \ {0} /\ OneDay \in Nat
      /\ Limits \subseteq 0..OneDay
  BY DoorAlertsAssumption
<1>2. alerts \in Alerts /\ 0 \in Clock
  BY <1>1 DEF Init, Alerts, Clock
<1>3. /\ now = 0 /\ state = "UNKNOWN" /\ limit \in Limits /\ didNot = FALSE
      /\ shown = limit /\ openFor = -1 /\ closingFor = 0
      /\ ~alerts.away /\ ~alerts.closing /\ ~alerts.leftOpen /\ alerts.lastUpdate = 0
  BY DEF Init
<1>4. TypeOK
  <2>1. state \in State /\ didNot \in BOOLEAN
    BY Zenon DEF Init, State
  <2>2. openFor \in -1..OneDay
    BY <1>1 DEF Init
  <2>3. closingFor \in 0..CloseTimeout
    BY <1>1 DEF Init
  <2> QED
    BY <1>2, <1>3, <2>1, <2>2, <2>3, Zenon DEF TypeOK
<1>5. AwayFollows(alerts) /\ CloseWatched(alerts)
  BY <1>3 DEF AwayFollows, CloseWatched
<1>6. LeftOpenOnTime
  BY <1>1, <1>3 DEF LeftOpenOnTime
<1> QED
  BY <1>4, <1>5, <1>6 DEF AlertsInv

\* A pass, a change of the door, a close that did not start and a new limit.
LEMMA AlertsSteps == AlertsInv /\ [Next]_vars => AlertsInv'
<1> SUFFICES ASSUME AlertsInv, [Next]_vars PROVE AlertsInv'
  OBVIOUS
<1>1. TypeOK /\ AwayFollows(alerts) /\ CloseWatched(alerts) /\ alerts \in Alerts
      /\ state \in State /\ didNot \in BOOLEAN /\ MaxGap \in Nat
  BY DoorAlertsAssumption DEF AlertsInv, TypeOK
<1>2. CASE HomekitLoop
  <2> DEFINE a == IF didNot /\ state # "CLOSED" THEN CloseDidNotStart(alerts) ELSE alerts
  <2>1. PICK gap \in 1..MaxGap : UpdateAlerts(gap, a, state)
    BY <1>2, Zenon DEF HomekitLoop
  <2>2. gap \in 0..MaxGap
    BY <1>1
  <2>3. state' = state /\ UNCHANGED limit /\ didNot' \in BOOLEAN
    BY <1>2, Zenon DEF HomekitLoop
  <2>4. a \in Alerts /\ AwayFollows(a) /\ CloseWatched(a)
    <3>1. CASE a = alerts
      BY <1>1, <3>1
    <3>2. CASE a = CloseDidNotStart(alerts)
      <4>1. /\ a.away = alerts.away /\ a.lastUpdate = alerts.lastUpdate
            /\ a.awayElapsed = alerts.awayElapsed /\ a.closingSince = alerts.closingSince
            /\ a.closing = FALSE /\ a.closeFailed = TRUE /\ a \in Alerts
        BY <1>1, <3>2 DEF CloseDidNotStart, Alerts
      <4> HIDE DEF a
      <4> QED
        BY <1>1, <4>1 DEF AwayFollows, CloseWatched
    <3> QED
      BY <3>1, <3>2
  <2> HIDE DEF a
  <2> QED
    BY <1>1, <2>2, <2>1, <2>3, <2>4, UpdateKeeps
<1>3. CASE StateChange
  <2>1. PICK gap \in 0..MaxGap, s \in State : state' = s /\ UpdateAlerts(gap, alerts, s)
    BY <1>3 DEF StateChange
  <2>2. UNCHANGED limit /\ didNot' \in BOOLEAN
    BY <1>1, <1>3 DEF StateChange
  <2> QED
    BY <1>1, <2>1, <2>2, UpdateKeeps
<1>4. CASE CloseNotStarted
  <2>1. PICK gap \in 0..MaxGap : UpdateAlerts(gap, alerts, state)
    BY <1>4 DEF CloseNotStarted
  <2>2. state' = state /\ UNCHANGED limit /\ didNot' \in BOOLEAN
    BY <1>1, <1>4 DEF CloseNotStarted
  <2> QED
    BY <1>1, <2>1, <2>2, UpdateKeeps
<1>5. CASE SetLimit \/ UNCHANGED vars
  <2>1. limit' \in Limits
        /\ UNCHANGED <<now, state, didNot, alerts, shown, openFor, closingFor>>
    BY <1>5 DEF SetLimit, vars, history, AlertsInv, TypeOK
  <2> QED
    BY <2>1 DEF AlertsInv, TypeOK, AwayFollows, CloseWatched, LeftOpenOnTime, Since
<1> QED
  BY <1>2, <1>3, <1>4, <1>5 DEF Next

\* AlertsInv is inductive: the times that the alerts go by are the true ones.
THEOREM AlertsInvariant == Spec => []AlertsInv
<1> QED
  BY AlertsStarts, AlertsSteps, PTL DEF Spec

\* The door has been left open exactly when it has been away from closed for the time
\* that was set: refresh_door_alerts, at every pass and every change of the door.
THEOREM LeftOpenRaised == Spec => []LeftOpenOnTime
<1>1. AlertsInv => LeftOpenOnTime
  BY DEF AlertsInv
<1> QED
  BY <1>1, AlertsInvariant, PTL

\* A door that has been closing for the whole timeout is reported as having failed to
\* close, though the clock may have turned meanwhile.
THEOREM CloseFailureSeen == Spec => []CloseFailsInTime
<1>1. AlertsInv => CloseFailsInTime
  <2> SUFFICES ASSUME AlertsInv, state = "CLOSING", closingFor >= CloseTimeout
               PROVE  alerts.closeFailed
    BY DEF CloseFailsInTime
  <2>1. /\ now \in Clock /\ alerts.closingSince \in Clock /\ closingFor \in Nat
        /\ CloseTimeout \in Nat
    BY DoorAlertsAssumption DEF AlertsInv, TypeOK, Alerts
  <2>2. Since(now, alerts.closingSince) \in Nat
    BY <2>1, SinceClock
  <2> QED
    BY <2>1, <2>2 DEF AlertsInv, CloseWatched
<1> QED
  BY <1>1, AlertsInvariant, PTL

\* A failure to close is not taken back before the door is closed.
THEOREM FailureStays == Spec => FailureLatched
<1>1. AlertsInv /\ [Next]_vars
      => [alerts.closeFailed /\ ~alerts'.closeFailed => state' = "CLOSED"]_vars
  <2> SUFFICES ASSUME AlertsInv, Next, alerts.closeFailed, ~alerts'.closeFailed
               PROVE  state' = "CLOSED"
    BY DEF vars
  <2>1. ASSUME NEW gap, NEW a, NEW s, UpdateAlerts(gap, a, s), a.closeFailed
        PROVE  s = "CLOSED"
    BY <2>1 DEF UpdateAlerts, Update, NotClosed, CloseFailed
  <2>2. alerts \in Alerts
    BY DEF AlertsInv, TypeOK
  <2>3. CloseDidNotStart(alerts).closeFailed
    BY <2>2 DEF CloseDidNotStart, Alerts
  <2>4. CASE HomekitLoop
    BY <2>1, <2>3, <2>4 DEF HomekitLoop
  <2>5. CASE StateChange
    BY <2>1, <2>5 DEF StateChange
  <2>6. CASE CloseNotStarted
    BY <2>1, <2>6 DEF CloseNotStarted
  <2>7. CASE SetLimit
    BY <2>7 DEF SetLimit
  <2> QED
    BY <2>4, <2>5, <2>6, <2>7 DEF Next
<1> QED
  BY <1>1, AlertsInvariant, PTL DEF Spec, FailureLatched
-----------------------------------------------------------------------------
\* With the NUL at h of a ring that has wrapped or not, after t bytes: whether that can
\* be, and the byte at i.
Fits(h, w, t)    == IF w THEN t >= h + Size ELSE t = h
Text(h, w, t, i) ==
    IF i < h THEN t - h + i + 1 ELSE IF i = h \/ ~w THEN 0 ELSE t - h - Size + i + 1

\* The ring in state x holds the last bytes that were logged, up to the NUL.
Holds(x) ==
    /\ x.head \in Slots /\ x.wrapped \in BOOLEAN /\ x.total \in Nat
    /\ Fits(x.head, x.wrapped, x.total)
    /\ x.slots = [i \in Slots |-> Text(x.head, x.wrapped, x.total, i)]

\* The bytes of the old part, and the i-th byte of what is to be printed.
OldLen    == IF wrapped THEN Size - Oldest ELSE 0
Source(i) == IF i <= OldLen THEN ring[Oldest + i - 1] ELSE ring[i - OldLen - 1]

\* How far a print has come that nothing has disturbed.
Reached ==
    /\ printing = "old" => wrapped /\ start + len = Size /\ Len(out) = start - Oldest
    /\ printing = "new" => start + len = ringHead /\ Len(out) = OldLen + start
    /\ printing = "done" => Len(out) = OldLen + ringHead
    /\ \A i \in 1..Len(out) : out[i] = Source(i)

PrintTypes ==
    /\ printing \in {"no", "old", "new", "done"} /\ calm \in BOOLEAN
    /\ out \in Seq(0..MaxBytes) /\ start \in 0..Size /\ len \in 0..Size
    /\ start + len <= Size
    /\ printing = "no" => out = <<>>
    /\ Len(out) <= IF printing = "old" THEN start ELSE Size + start

\* The inductive invariant.
LogInv == Holds(Logged) /\ total <= MaxBytes /\ PrintTypes /\ (calm => Reached)
-----------------------------------------------------------------------------
\* Where the bytes behind a place of the ring go.
LEMMA Behind ==
    ASSUME NEW h \in Slots, NEW k \in 0..(Size - 1)
    PROVE  (h + k) % Size = IF h + k < Size THEN h + k ELSE h + k - Size
<1>1. Size \in Nat \ {0} /\ h \in 0..(Size - 1)
  BY LogRingAssumption DEF Slots
<1>2. CASE h + k < Size
  BY <1>1, <1>2, Remainders
<1>3. CASE h + k >= Size
  <2>1. h + k - Size \in 0..(Size - 1) /\ h + k = (h + k - Size) + Size
    BY <1>1, <1>3
  <2>2. ((h + k - Size) + Size) % Size = h + k - Size
    BY <1>1, <2>1, Remainders
  <2> QED
    BY <1>1, <1>3, <2>1, <2>2
<1> QED
  BY <1>1, <1>2, <1>3

\* The places that n bytes behind h take.
LEMMA RingPlaces ==
    ASSUME NEW h \in Slots, NEW n \in 1..(Size - 1), NEW i \in Slots
    PROVE  (\E k \in 0..(n - 1) : i = (h + k) % Size)
           <=> (i >= h /\ i - h < n) \/ (i < h /\ i + Size - h < n)
<1>1. /\ Size \in Nat \ {0} /\ h \in 0..(Size - 1) /\ i \in 0..(Size - 1)
  BY LogRingAssumption DEF Slots
<1>2. ASSUME NEW k \in 0..(n - 1)
      PROVE  (h + k) % Size = IF h + k < Size THEN h + k ELSE h + k - Size
  <2>1. k \in 0..(Size - 1)
    BY <1>1
  <2> QED
    BY <2>1, Behind
<1>3. ASSUME NEW k \in 0..(n - 1), i = (h + k) % Size
      PROVE  (i >= h /\ i - h < n) \/ (i < h /\ i + Size - h < n)
  <2>1. i = IF h + k < Size THEN h + k ELSE h + k - Size
    BY <1>2, <1>3
  <2> QED
    BY <1>1, <2>1
<1>4. ASSUME i >= h, i - h < n PROVE \E k \in 0..(n - 1) : i = (h + k) % Size
  <2>1. i - h \in 0..(n - 1) /\ h + (i - h) = i /\ i < Size
    BY <1>1, <1>4
  <2>2. i = (h + (i - h)) % Size
    BY <1>1, <1>2, <2>1
  <2> QED
    BY <2>1, <2>2
<1>5. ASSUME i < h, i + Size - h < n PROVE \E k \in 0..(n - 1) : i = (h + k) % Size
  <2>1. i + Size - h \in 0..(n - 1) /\ h + (i + Size - h) - Size = i
        /\ h + (i + Size - h) >= Size
    BY <1>1, <1>5
  <2>2. i = (h + (i + Size - h)) % Size
    BY <1>1, <1>2, <2>1
  <2> QED
    BY <2>1, <2>2
<1> QED
  BY <1>3, <1>4, <1>5

\* What a line of n bytes leaves in the ring.
LEMMA LineAdded ==
    ASSUME NEW h \in Slots, NEW w \in BOOLEAN, NEW t \in Nat, Fits(h, w, t),
           NEW n \in 1..(Size - 1), NEW i \in Slots
    PROVE  LET g == (h + n) % Size
               v == w \/ h + n >= Size
           IN  /\ g \in Slots /\ Fits(g, v, t + n)
               /\ Text(g, v, t + n, i) =
                     IF i = g THEN 0
                     ELSE IF (i >= h /\ i - h < n) \/ (i < h /\ i + Size - h < n)
                     THEN t + 1 + (IF i >= h THEN i ELSE i + Size) - h
                     ELSE Text(h, w, t, i)
<1> DEFINE g == (h + n) % Size
           v == w \/ h + n >= Size
<1>1. /\ Size \in Nat \ {0} /\ h \in 0..(Size - 1) /\ i \in 0..(Size - 1)
      /\ n \in 0..(Size - 1) /\ Slots = 0..(Size - 1)
  BY LogRingAssumption DEF Slots
<1>2. g = IF h + n < Size THEN h + n ELSE h + n - Size
  BY <1>1, Behind
<1>3. v \in BOOLEAN /\ (v <=> w \/ h + n >= Size)
  OBVIOUS
<1> HIDE DEF g, v
<1>4. g \in Slots
  BY <1>1, <1>2
<1>5. Fits(g, v, t + n)
  BY <1>1, <1>2, <1>3 DEF Fits
<1>6. Text(g, v, t + n, i) =
         IF i = g THEN 0
         ELSE IF (i >= h /\ i - h < n) \/ (i < h /\ i + Size - h < n)
         THEN t + 1 + (IF i >= h THEN i ELSE i + Size) - h
         ELSE Text(h, w, t, i)
  <2>1. CASE w
    BY <1>1, <1>2, <1>3, <2>1 DEF Fits, Text
  <2>2. CASE ~w /\ h + n < Size
    BY <1>1, <1>2, <1>3, <2>2 DEF Fits, Text
  <2>3. CASE ~w /\ h + n >= Size
    BY <1>1, <1>2, <1>3, <2>3 DEF Fits, Text
  <2> QED
    BY <1>1, <2>1, <2>2, <2>3
<1> QED
  BY <1>4, <1>5, <1>6 DEF g, v

\* A line is added.
LEMMA AppendedHolds ==
    ASSUME NEW x, Holds(x), NEW n \in 1..(Size - 1)
    PROVE  Holds(Appended(x, n))
<1> DEFINE h == x.head
           w == x.wrapped
           t == x.total
           g == (h + n) % Size
           v == w \/ h + n >= Size
           new(i) == \E k \in 0..(n - 1) : i = (h + k) % Size
           byte(i) == t + 1 + (IF i >= h THEN i ELSE i + Size) - h
           y == Appended(x, n)
<1>1. /\ y.head = g /\ y.wrapped = v /\ y.total = t + n
      /\ y.slots = [i \in Slots |-> IF i = g THEN 0
                                    ELSE IF new(i) THEN byte(i) ELSE x.slots[i]]
  BY DEF Appended
<1>2. /\ h \in Slots /\ w \in BOOLEAN /\ t \in Nat /\ Fits(h, w, t)
      /\ x.slots = [i \in Slots |-> Text(h, w, t, i)]
  BY DEF Holds
<1> HIDE DEF h, w, t, y
<1>3. ASSUME NEW i \in Slots
      PROVE  y.slots[i] = Text(g, v, t + n, i)
  <2>1. y.slots[i] = IF i = g THEN 0 ELSE IF new(i) THEN byte(i) ELSE Text(h, w, t, i)
    BY <1>1, <1>2
  <2>2. new(i) <=> (i >= h /\ i - h < n) \/ (i < h /\ i + Size - h < n)
    BY <1>2, RingPlaces
  <2>3. Text(g, v, t + n, i) =
            IF i = g THEN 0
            ELSE IF (i >= h /\ i - h < n) \/ (i < h /\ i + Size - h < n) THEN byte(i)
            ELSE Text(h, w, t, i)
    BY <1>2, LineAdded
  <2> HIDE DEF g, v, new, byte
  <2>4. CASE i = g
    BY <2>1, <2>3, <2>4
  <2>5. CASE i # g /\ new(i)
    BY <2>1, <2>2, <2>3, <2>5
  <2>6. CASE i # g /\ ~new(i)
    BY <2>1, <2>2, <2>3, <2>6
  <2> QED
    BY <2>4, <2>5, <2>6
<1>4. y.slots = [i \in Slots |-> Text(g, v, t + n, i)]
  <2> HIDE DEF g, v, new, byte
  <2>1. y.slots = [i \in Slots |-> y.slots[i]]
    BY <1>1
  <2> QED
    BY <1>3, <2>1
<1>5. g \in Slots /\ Fits(g, v, t + n)
  BY <1>2, LineAdded
<1>6. v \in BOOLEAN /\ t + n \in Nat
  BY <1>2
<1> HIDE DEF g, v
<1> QED
  BY <1>1, <1>4, <1>5, <1>6 DEF Holds, y

\* The first NUL of the ring is the one behind the newest line.
LEMMA TextEnds ==
    ASSUME Holds(Logged)
    PROVE  TextLen = ringHead
<1>1. /\ ringHead \in 0..(Size - 1) /\ Slots = 0..(Size - 1) /\ Size \in Nat /\ total \in Nat
      /\ Fits(ringHead, wrapped, total) /\ wrapped \in BOOLEAN
      /\ \A i \in Slots : ring[i] = Text(ringHead, wrapped, total, i)
  BY LogRingAssumption DEF Holds, Logged, Slots
<1>2. ring[ringHead] = 0 /\ \A i \in 0..(ringHead - 1) : ring[i] # 0
  BY <1>1 DEF Text, Fits
<1>3. \A n \in Slots : ring[n] = 0 /\ (\A i \in 0..(n - 1) : ring[i] # 0) => n = ringHead
  BY <1>1, <1>2
<1> QED
  BY <1>1, <1>2, <1>3 DEF TextLen

\* What is in the ring are bytes that were logged.
LEMMA RingTypes ==
    ASSUME Holds(Logged), total <= MaxBytes
    PROVE  /\ ringHead \in Slots /\ wrapped \in BOOLEAN /\ total \in Nat
           /\ Slots = 0..(Size - 1) /\ Size \in Nat \ {0} /\ Oldest \in Slots
           /\ Fits(ringHead, wrapped, total)
           /\ ring \in [Slots -> 0..MaxBytes] /\ ring[ringHead] = 0
           /\ \A i \in Slots : ring[i] = Text(ringHead, wrapped, total, i)
<1>1. /\ ringHead \in Slots /\ wrapped \in BOOLEAN /\ total \in Nat
      /\ Fits(ringHead, wrapped, total)
      /\ ring = [i \in Slots |-> Text(ringHead, wrapped, total, i)]
  BY DEF Holds, Logged
<1>2. /\ Slots = 0..(Size - 1) /\ Size \in Nat \ {0} /\ MaxBytes \in Nat
      /\ ringHead \in 0..(Size - 1)
  BY <1>1, LogRingAssumption DEF Slots
<1>3. ASSUME NEW i \in Slots PROVE Text(ringHead, wrapped, total, i) \in 0..MaxBytes
  BY <1>1, <1>2 DEF Text, Fits
<1>4. Text(ringHead, wrapped, total, ringHead) = 0
  BY <1>2 DEF Text
<1>5. Oldest \in Slots
  BY <1>2 DEF Oldest
<1> QED
  BY <1>1, <1>2, <1>3, <1>4, <1>5

\* A chunk of n bytes from the place s is printed.
LEMMA ChunkAdded ==
    ASSUME ring \in [Slots -> 0..MaxBytes], Slots = 0..(Size - 1),
           NEW p \in Seq(0..MaxBytes), NEW n \in Nat, NEW s \in Nat, s + n <= Size, Size \in Nat
    PROVE  LET q == p \o [i \in 1..n |-> ring[s + i - 1]]
           IN  /\ q \in Seq(0..MaxBytes) /\ Len(q) = Len(p) + n
               /\ \A i \in 1..Len(q) : q[i] = IF i <= Len(p) THEN p[i]
                                              ELSE ring[s + (i - Len(p)) - 1]
<1> DEFINE c == [i \in 1..n |-> ring[s + i - 1]]
<1>1. c \in Seq(0..MaxBytes) /\ Len(c) = n
  <2>1. c \in [1..n -> 0..MaxBytes]
    OBVIOUS
  <2>2. c \in Seq(0..MaxBytes)
    BY <2>1, SeqDef
  <2> QED
    BY <2>1, <2>2, LenProperties
<1>2. \A i \in 1..n : c[i] = ring[s + i - 1]
  OBVIOUS
<1> HIDE DEF c
<1>3. /\ p \o c \in Seq(0..MaxBytes) /\ Len(p \o c) = Len(p) + n
      /\ \A i \in 1..(Len(p) + n) : (p \o c)[i] = IF i <= Len(p) THEN p[i] ELSE c[i - Len(p)]
  BY <1>1, ConcatProperties
<1>4. Len(p) \in Nat
  BY LenProperties
<1>5. ASSUME NEW i \in 1..(Len(p) + n), i > Len(p) PROVE c[i - Len(p)] = ring[s + (i - Len(p)) - 1]
  <2>1. i - Len(p) \in 1..n
    BY <1>4, <1>5
  <2> QED
    BY <1>2, <2>1
<1>6. \A i \in 1..Len(p \o c) : (p \o c)[i] = IF i <= Len(p) THEN p[i]
                                               ELSE ring[s + (i - Len(p)) - 1]
  BY <1>3, <1>4, <1>5
<1> QED
  BY <1>3, <1>6 DEF c

\* The ring starts empty.
LEMMA LogStarts == RingInit => LogInv
<1> SUFFICES ASSUME RingInit PROVE LogInv
  OBVIOUS
<1>1. /\ Size \in Nat \ {0} /\ 0 \in Slots /\ Slots = 0..(Size - 1) /\ MaxBytes \in Nat
  BY LogRingAssumption DEF Slots
<1>2. \A i \in Slots : Text(0, FALSE, 0, i) = 0
  BY <1>1 DEF Text
<1>3. Holds(Logged)
  BY <1>1, <1>2 DEF RingInit, Holds, Logged, Fits
<1>4. Len(out) = 0 /\ out \in Seq(0..MaxBytes)
  BY DEF RingInit
<1> QED
  BY <1>1, <1>3, <1>4 DEF RingInit, LogInv, PrintTypes, Reached

\* Lines are logged and the ring is printed.
LEMMA LogSteps == LogInv /\ [RingNext]_ringVars => LogInv'
<1> SUFFICES ASSUME LogInv, [RingNext]_ringVars PROVE LogInv'
  OBVIOUS
<1>1. /\ Holds(Logged) /\ total <= MaxBytes /\ PrintTypes
      /\ ringHead \in Slots /\ wrapped \in BOOLEAN /\ total \in Nat
      /\ Slots = 0..(Size - 1) /\ Size \in Nat \ {0} /\ Oldest \in Slots
      /\ ring \in [Slots -> 0..MaxBytes] /\ TextLen = ringHead
      /\ Chunk \in Nat \ {0}
  BY LogRingAssumption, RingTypes, TextEnds DEF LogInv
<1>2. CASE LogToBuffer
  <2>1. PICK n \in LineLens, nested \in LineLens \cup {0} :
           LET once == Appended(Logged, n)
               all  == IF nested = 0 THEN once ELSE Appended(once, nested)
           IN  /\ all.total <= MaxBytes
               /\ ring' = all.slots /\ ringHead' = all.head
               /\ wrapped' = all.wrapped /\ total' = all.total
    BY <1>2 DEF LogToBuffer
  <2> DEFINE once == Appended(Logged, n)
             all  == IF nested = 0 THEN once ELSE Appended(once, nested)
  <2>2. n \in 1..(Size - 1) /\ (nested # 0 => nested \in 1..(Size - 1))
    BY LogRingAssumption
  <2>3. Holds(once)
    BY <1>1, <2>2, AppendedHolds
  <2> HIDE DEF once
  <2>4. Holds(all)
    BY <2>2, <2>3, AppendedHolds
  <2>5. /\ Logged' = [slots |-> all.slots, head |-> all.head,
                      wrapped |-> all.wrapped, total |-> all.total]
        /\ total' <= MaxBytes
    BY <2>1 DEF Logged, once
  <2> HIDE DEF all
  <2>6. Holds(Logged')
    BY <2>4, <2>5 DEF Holds
  <2>7. Holds(Logged)'
    BY <2>6 DEF Holds, Logged
  <2>8. PrintTypes'
    BY <1>1, <1>2 DEF LogToBuffer, PrintTypes
  <2> QED
    BY <1>2, <2>5, <2>7, <2>8 DEF LogToBuffer, LogInv
<1>3. CASE PrintBegins
  <2>1. UNCHANGED <<ring, ringHead, wrapped, total>> /\ out' = <<>> /\ calm' = TRUE
    BY <1>3 DEF PrintBegins
  <2>2. Holds(Logged)' /\ total' <= MaxBytes
    BY <1>1, <2>1 DEF Holds, Logged
  <2>3. Len(out') = 0 /\ out' \in Seq(0..MaxBytes)
    BY <2>1
  <2>4. CASE wrapped
    <3>1. printing' = "old" /\ start' = Oldest /\ len' = Size - Oldest
      BY <1>3, <2>4 DEF PrintBegins
    <3>2. PrintTypes'
      BY <1>1, <2>1, <2>3, <3>1 DEF PrintTypes
    <3>3. Reached'
      BY <1>1, <2>1, <2>3, <2>4, <3>1 DEF Reached, Oldest
    <3> QED
      BY <2>2, <3>2, <3>3 DEF LogInv
  <2>5. CASE ~wrapped
    <3>1. printing' = "new" /\ start' = 0 /\ len' = ringHead
      BY <1>1, <1>3, <2>5 DEF PrintBegins
    <3>2. PrintTypes'
      BY <1>1, <2>1, <2>3, <3>1 DEF PrintTypes
    <3>3. Reached'
      BY <1>1, <2>1, <2>3, <2>5, <3>1 DEF Reached, OldLen
    <3> QED
      BY <2>2, <3>2, <3>3 DEF LogInv
  <2> QED
    BY <2>4, <2>5
<1>4. CASE PrintChunk
  <2>1. /\ UNCHANGED <<ring, ringHead, wrapped, total, calm>> /\ printing \in {"old", "new"}
    BY <1>4 DEF PrintChunk
  <2>2. /\ Holds(Logged)' /\ total' <= MaxBytes /\ Oldest' = Oldest /\ OldLen' = OldLen
        /\ \A i : Source(i)' = Source(i)
    BY <1>1, <2>1 DEF Holds, Logged, Oldest, OldLen, Source
  <2>3. CASE len > 0
    <3> DEFINE chunk == IF len < Chunk THEN len ELSE Chunk
    <3>1. /\ out' = out \o [i \in 1..chunk |-> ring[start + i - 1]]
          /\ start' = start + chunk /\ len' = len - chunk /\ printing' = printing
      BY <1>4, <2>3 DEF PrintChunk
    <3>2. /\ out \in Seq(0..MaxBytes) /\ start \in 0..Size /\ len \in 0..Size
          /\ start + len <= Size /\ chunk \in Nat /\ chunk <= len /\ Len(out) \in Nat
          /\ start \in Nat /\ start + chunk <= Size
      BY <1>1, LenProperties DEF PrintTypes
    <3> HIDE DEF chunk
    <3>3. /\ out' \in Seq(0..MaxBytes) /\ Len(out') = Len(out) + chunk
          /\ \A i \in 1..Len(out') : out'[i] = IF i <= Len(out) THEN out[i]
                                               ELSE ring[start + (i - Len(out)) - 1]
      BY <1>1, <3>1, <3>2, ChunkAdded
    <3>4. PrintTypes'
      BY <1>1, <2>1, <3>1, <3>2, <3>3 DEF PrintTypes
    <3>5. ASSUME calm PROVE Reached'
      <4>1. Reached
        BY <3>5 DEF LogInv
      <4>2. Len(out) = IF printing = "old" THEN start - Oldest ELSE OldLen + start
        BY <2>1, <4>1 DEF Reached
      <4>3. ASSUME NEW i \in 1..Len(out') PROVE out'[i] = Source(i)
        <5>1. CASE i <= Len(out)
          <6>1. i \in 1..Len(out)
            BY <3>2, <3>3, <5>1
          <6> QED
            BY <3>3, <4>1, <5>1, <6>1 DEF Reached
        <5>2. CASE i > Len(out)
          <6>1. out'[i] = ring[start + (i - Len(out)) - 1]
            BY <3>2, <3>3, <5>2
          <6>2. CASE printing = "old"
            <7>1. i <= OldLen /\ start + (i - Len(out)) - 1 = Oldest + i - 1
              BY <1>1, <3>2, <3>3, <4>1, <4>2, <6>2 DEF Reached, OldLen
            <7> QED
              BY <6>1, <7>1 DEF Source
          <6>3. CASE printing = "new"
            <7>1. OldLen \in Nat
              BY <1>1 DEF OldLen
            <7>2. ~(i <= OldLen) /\ start + (i - Len(out)) - 1 = i - OldLen - 1
              BY <3>2, <3>3, <4>2, <5>2, <6>3, <7>1
            <7> QED
              BY <6>1, <7>2 DEF Source
          <6> QED
            BY <2>1, <6>2, <6>3
        <5> QED
          BY <3>2, <3>3, <5>1, <5>2
      <4>4. OldLen \in Nat
        BY <1>1 DEF OldLen
      <4>5. \A i \in 1..Len(out') : out'[i] = Source(i)'
        BY <2>2, <4>3
      <4>6. printing = "old" => /\ wrapped' /\ start' + len' = Size
                                /\ Len(out') = start' - Oldest'
        <5>1. Oldest \in Nat
          BY <1>1
        <5>2. printing = "old" => wrapped /\ start + len = Size /\ Len(out) = start - Oldest
          BY <4>1 DEF Reached
        <5>3. wrapped' = wrapped /\ Oldest' = Oldest
          BY <2>1, <2>2
        <5>4. start' + len' = start + len
          BY <3>1, <3>2
        <5>5. ASSUME Len(out) = start - Oldest PROVE Len(out') = start' - Oldest
          BY <3>1, <3>2, <3>3, <5>1, <5>5
        <5> QED
          BY <5>2, <5>3, <5>4, <5>5
      <4>7. printing = "new" => /\ start' + len' = ringHead'
                                /\ Len(out') = OldLen' + start'
        BY <1>1, <2>1, <2>2, <3>1, <3>2, <3>3, <4>1, <4>4 DEF Reached
      <4> QED
        BY <2>1, <3>1, <4>5, <4>6, <4>7 DEF Reached
    <3> QED
      BY <2>1, <2>2, <3>4, <3>5 DEF LogInv
  <2>4. CASE ~(len > 0)
    <3>1. len = 0 /\ out' = out
      BY <1>1, <1>4, <2>4 DEF PrintChunk, PrintTypes
    <3>2. CASE printing = "old"
      <4>1. printing' = "new" /\ start' = 0 /\ len' = ringHead
        BY <1>1, <1>4, <2>4, <3>2 DEF PrintChunk
      <4>2. PrintTypes'
        BY <1>1, <2>1, <3>1, <3>2, <4>1 DEF PrintTypes
      <4>3. ASSUME calm PROVE Reached'
        BY <1>1, <2>1, <2>2, <3>1, <3>2, <4>1, <4>3 DEF LogInv, Reached, OldLen, PrintTypes
      <4> QED
        BY <2>1, <2>2, <4>2, <4>3 DEF LogInv
    <3>3. CASE printing = "new"
      <4>1. printing' = "done" /\ start' = start /\ len' = len
        BY <1>4, <2>4, <3>3 DEF PrintChunk
      <4>2. PrintTypes'
        BY <1>1, <2>1, <3>1, <3>3, <4>1 DEF PrintTypes
      <4>3. ASSUME calm PROVE Reached'
        BY <1>1, <2>1, <2>2, <3>1, <3>3, <4>1, <4>3 DEF LogInv, Reached, PrintTypes
      <4> QED
        BY <2>1, <2>2, <4>2, <4>3 DEF LogInv
    <3> QED
      BY <2>1, <3>2, <3>3
  <2> QED
    BY <2>3, <2>4
<1>5. CASE UNCHANGED ringVars
  BY <1>5 DEF ringVars, LogInv, Holds, Logged, PrintTypes, Reached, Source, OldLen, Oldest
<1> QED
  BY <1>2, <1>3, <1>4, <1>5 DEF RingNext

\* LogInv is inductive: what has been printed is what the ring held from Oldest on.
THEOREM LogInvariant == RingSpec => []LogInv
<1> QED
  BY LogStarts, LogSteps, PTL DEF RingSpec

\* What is printed of a ring that nothing is logged to meanwhile is the end of
\* everything logged, in order: logToBuffer and printMessageLog.
THEOREM LogInOrder == RingSpec => []LogReadsInOrder
<1>1. LogInv => LogReadsInOrder
  <2> SUFFICES ASSUME LogInv, printing = "done", calm, wrapped => ringHead < Size - 4
               PROVE  /\ out = [i \in 1..Len(out) |-> total - Len(out) + i]
                      /\ Len(out) >= IF wrapped THEN Size - 4 ELSE total
    BY DEF LogReadsInOrder
  <2>1. /\ ringHead \in Slots /\ wrapped \in BOOLEAN /\ total \in Nat
        /\ Slots = 0..(Size - 1) /\ Size \in Nat \ {0} /\ Oldest \in Slots
        /\ Fits(ringHead, wrapped, total)
        /\ \A i \in Slots : ring[i] = Text(ringHead, wrapped, total, i)
        /\ out \in Seq(0..MaxBytes) /\ Size % 4 = 0
    BY LogRingAssumption, RingTypes DEF LogInv, PrintTypes
  <2>2. wrapped => Oldest > ringHead /\ Oldest <= ringHead + 4
    <3>1. SUFFICES ASSUME wrapped, ringHead < Size - 4
                   PROVE  Oldest > ringHead /\ Oldest <= ringHead + 4
      OBVIOUS
    <3> DEFINE o == ((ringHead + 1 + 3) \div 4) * 4
    <3>2. o \in Nat /\ o > ringHead /\ o <= ringHead + 4
      BY <2>1
    <3>3. o < Size
      BY <2>1, <3>1, <3>2
    <3> HIDE DEF o
    <3>4. o % Size = o
      <4>1. o \in 0..(Size - 1)
        BY <2>1, <3>2, <3>3
      <4> QED
        BY <2>1, <4>1, Remainders
    <3> QED
      BY <3>2, <3>4 DEF Oldest, o
  <2>3. /\ Len(out) = OldLen + ringHead /\ Len(out) \in Nat
        /\ \A i \in 1..Len(out) : out[i] = Source(i)
    BY <2>1, LenProperties DEF LogInv, Reached
  <2>4. ASSUME NEW i \in 1..Len(out) PROVE out[i] = total - Len(out) + i
    <3>1. CASE wrapped /\ i <= OldLen
      <4>1. OldLen = Size - Oldest
        BY <3>1 DEF OldLen
      <4>2. Oldest + i - 1 \in Slots /\ Oldest + i - 1 > ringHead
        BY <2>1, <2>2, <3>1, <4>1
      <4>3. out[i] = Text(ringHead, wrapped, total, Oldest + i - 1)
        BY <2>1, <2>3, <3>1, <4>2 DEF Source
      <4> QED
        BY <2>1, <2>3, <3>1, <4>1, <4>2, <4>3 DEF Text
    <3>2. CASE i > OldLen
      <4>1. OldLen \in Nat
        BY <2>1 DEF OldLen
      <4>2. i - OldLen - 1 \in Slots /\ i - OldLen - 1 < ringHead
        BY <2>1, <2>3, <3>2, <4>1
      <4>3. out[i] = Text(ringHead, wrapped, total, i - OldLen - 1)
        BY <2>1, <2>3, <3>2, <4>1, <4>2 DEF Source
      <4> QED
        BY <2>1, <2>3, <3>2, <4>1, <4>2, <4>3 DEF Text
    <3>3. OldLen \in Nat /\ (~wrapped => OldLen = 0)
      BY <2>1 DEF OldLen
    <3> QED
      BY <2>3, <3>1, <3>2, <3>3
  <2>5. out = [i \in 1..Len(out) |-> total - Len(out) + i]
    <3>1. out = [i \in 1..Len(out) |-> out[i]]
      BY <2>1, LenProperties
    <3> QED
      BY <2>4, <3>1
  <2>6. Len(out) >= IF wrapped THEN Size - 4 ELSE total
    BY <2>1, <2>2, <2>3 DEF OldLen, Fits
  <2> QED
    BY <2>5, <2>6
<1> QED
  BY <1>1, LogInvariant, PTL

\* What the invariant says bounds what is printed.
LEMMA RingFits == LogInv => RingTypeOK
<1> SUFFICES ASSUME LogInv PROVE RingTypeOK
  OBVIOUS
<1>1. /\ ringHead \in Slots /\ wrapped \in BOOLEAN /\ total \in Nat /\ total <= MaxBytes
      /\ ring \in [Slots -> 0..MaxBytes] /\ ring[ringHead] = 0 /\ PrintTypes
      /\ Size \in Nat /\ MaxBytes \in Nat
  BY LogRingAssumption, RingTypes DEF LogInv
<1> QED
  BY <1>1, LenProperties DEF RingTypeOK, PrintTypes

\* The ring, and what is printed of it, have their types: a print is never longer than
\* two rings.
THEOREM RingTyped == RingSpec => []RingTypeOK
<1> QED
  BY RingFits, LogInvariant, PTL
-----------------------------------------------------------------------------
(* Door times.                                                             *)

\* Whatever holds of 0, and of each number up to n after one it holds of.
LEMMA Climbs ==
    ASSUME NEW n \in Nat, NEW S, 0 \in S, \A m \in 0..n : m \in S /\ m < n => m + 1 \in S
    PROVE  \A m \in 0..n : m \in S
<1> SUFFICES ASSUME NEW k \in 0..n, k \notin S PROVE FALSE
  OBVIOUS
<1> DEFINE Missing == (0..n) \ S
<1>1. Missing \in SUBSET Nat /\ Missing # {}
  OBVIOUS
<1>2. PICK x \in Missing : \A y \in Missing : ~(<<y, x>> \in OpToRel(<, Nat))
  BY <1>1, NatLessThanWellFounded, WFMin
<1>3. \A y \in Missing : ~(y < x)
  BY <1>1, <1>2 DEF OpToRel
<1>4. x \in 0..n /\ x \notin S /\ x # 0
  OBVIOUS
<1>5. x - 1 \in 0..n /\ x - 1 < n /\ x - 1 < x /\ (x - 1) + 1 = x
  BY <1>4
<1>6. x - 1 \in S
  BY <1>3, <1>5
<1>7. (x - 1) + 1 \in S
  BY <1>5, <1>6
<1> QED
  BY <1>4, <1>5, <1>7

\* The highest of some numbers is one of them.
LEMMA HighestIsOne ==
    ASSUME NEW n \in Nat, NEW S \in SUBSET (0..n), S # {}
    PROVE  Max(S) \in S /\ \A y \in S : y <= Max(S)
<1> DEFINE T == {n - x : x \in S}
<1>1. T \in SUBSET Nat /\ T # {}
  <2>1. \A x \in S : n - x \in Nat
    OBVIOUS
  <2> QED
    BY <2>1
<1>2. PICK k \in T : \A y \in T : ~(<<y, k>> \in OpToRel(<, Nat))
  BY <1>1, NatLessThanWellFounded, WFMin
<1>3. PICK x \in S : k = n - x
  OBVIOUS
<1>4. \A y \in T : ~(y < k)
  BY <1>1, <1>2 DEF OpToRel
<1>5. \A y \in S : ~(n - y < k)
  BY <1>4
<1>6. \A y \in S : x >= y
  BY <1>3, <1>5
<1>7. \E z \in S : \A y \in S : z >= y
  BY <1>6
<1>8. Max(S) \in S /\ \A y \in S : Max(S) >= y
  BY <1>7 DEF Max
<1> QED
  BY <1>8

\* Where the elements are when one is inserted behind the first k.
LEMMA InsertedPlaces ==
    ASSUME NEW f \in Seq(Nat), NEW t \in Nat, NEW k \in 0..Len(f)
    PROVE  LET g == InsertAt(f, k + 1, t)
           IN  /\ g \in Seq(Nat) /\ Len(g) = Len(f) + 1
               /\ \A i \in 1..k : g[i] = f[i]
               /\ g[k + 1] = t
               /\ \A i \in (k + 2)..(Len(f) + 1) : g[i] = f[i - 1]
<1> DEFINE n == Len(f)
           a == SubSeq(f, 1, k)
           b == SubSeq(f, k + 1, n)
           u == <<t>>
           g == InsertAt(f, k + 1, t)
<1>1. n \in Nat /\ k \in Nat /\ k <= n
  BY LenProperties
<1>2. a \in Seq(Nat) /\ Len(a) = k /\ \A i \in 1..k : a[i] = f[i]
  <2>1. CASE k = 0
    <3>1. a = <<>>
      BY <2>1
    <3> QED
      BY <2>1, <3>1
  <2>2. CASE k # 0
    <3>1. \A i \in 1..k : f[i] \in Nat
      BY <1>1
    <3> QED
      BY <1>1, <2>2, <3>1, SubSeqProperties
  <2> QED
    BY <2>1, <2>2
<1>3. b \in Seq(Nat) /\ Len(b) = n - k /\ \A i \in 1..(n - k) : b[i] = f[k + i]
  <2>1. CASE k = n
    <3>1. b = <<>>
      BY <1>1, <2>1
    <3> QED
      BY <1>1, <2>1, <3>1
  <2>2. CASE k # n
    <3>1. \A i \in (k + 1)..n : f[i] \in Nat
      BY <1>1
    <3>2. b \in Seq(Nat) /\ Len(b) = n - k
      BY <1>1, <2>2, <3>1, SubSeqProperties
    <3>3. \A i \in 1..(n - k) : b[i] = f[k + i]
      BY <1>1, <2>2, <3>1, SubSeqProperties
    <3> QED
      BY <3>2, <3>3
  <2> QED
    BY <2>1, <2>2
<1>4. u \in Seq(Nat) /\ Len(u) = 1 /\ u[1] = t
  OBVIOUS
<1>5. g = (a \o u) \o b
  <2>1. (k + 1) - 1 = k
    BY <1>1
  <2> QED
    BY <2>1 DEF InsertAt
<1> HIDE DEF a, b, u, g, n
<1> DEFINE au == a \o u
<1>6. au \in Seq(Nat) /\ Len(au) = k + 1
  <2>1. au \in Seq(Nat) /\ Len(au) = Len(a) + Len(u)
    BY <1>2, <1>4, ConcatProperties
  <2> HIDE DEF au
  <2> QED
    BY <1>2, <1>4, <2>1
<1>7. (\A i \in 1..k : au[i] = f[i]) /\ au[k + 1] = t
  <2>1. \A i \in 1..(Len(a) + Len(u)) : au[i] = IF i <= Len(a) THEN a[i] ELSE u[i - Len(a)]
    BY <1>2, <1>4, ConcatProperties
  <2>2. \A i \in 1..(k + 1) : au[i] = IF i <= k THEN a[i] ELSE u[i - k]
    BY <1>2, <1>4, <2>1
  <2> HIDE DEF au
  <2>3. \A i \in 1..k : au[i] = a[i]
    BY <1>1, <2>2
  <2>4. au[k + 1] = u[1]
    BY <1>1, <2>2
  <2> QED
    BY <1>2, <1>4, <2>3, <2>4
<1> HIDE DEF au
<1>8. g = au \o b
  BY <1>5 DEF au
<1>9. g \in Seq(Nat) /\ Len(g) = n + 1
  <2>1. g \in Seq(Nat) /\ Len(g) = Len(au) + Len(b)
    BY <1>3, <1>6, <1>8, ConcatProperties
  <2> QED
    BY <1>1, <1>3, <1>6, <2>1
<1>10. \A i \in 1..(n + 1) : g[i] = IF i <= k + 1 THEN au[i] ELSE b[i - (k + 1)]
  <2>1. \A i \in 1..(Len(au) + Len(b)) : g[i] = IF i <= Len(au) THEN au[i] ELSE b[i - Len(au)]
    BY <1>3, <1>6, <1>8, ConcatProperties
  <2> QED
    BY <1>1, <1>3, <1>6, <2>1
<1>11. (\A i \in 1..k : g[i] = f[i]) /\ g[k + 1] = t
  BY <1>1, <1>7, <1>10
<1>12. \A i \in (k + 2)..(n + 1) : g[i] = f[i - 1]
  <2> TAKE i \in (k + 2)..(n + 1)
  <2>1. g[i] = b[i - (k + 1)] /\ i - (k + 1) \in 1..(n - k) /\ k + (i - (k + 1)) = i - 1
    BY <1>1, <1>10
  <2> QED
    BY <1>3, <2>1
<1> QED
  BY <1>9, <1>11, <1>12 DEF g, n
-----------------------------------------------------------------------------
\* f holds the first n times of s in order, each once.
Arranged(f, s, n) ==
    /\ f \in Seq(Nat) /\ Len(f) = n
    /\ \A i, j \in 1..n : i <= j => f[i] <= f[j]
    /\ \E p \in [1..n -> 1..n] : /\ \A i, j \in 1..n : p[i] = p[j] => i = j
                                 /\ \A i \in 1..n : f[i] = s[p[i]]

\* A pass of the sort puts the next time into its place.
LEMMA InsertArranges ==
    ASSUME NEW s \in Seq(Nat), NEW n \in Nat, n < Len(s), NEW f, Arranged(f, s, n)
    PROVE  Arranged(InsertTime(f, s[n + 1]), s, n + 1)
<1> DEFINE t == s[n + 1]
           below == {0} \cup {i \in DOMAIN f : f[i] <= t}
           k == Max(below)
           g == InsertTime(f, t)
<1>1. t \in Nat /\ f \in Seq(Nat) /\ Len(f) = n /\ DOMAIN f = 1..n
  BY DEF Arranged
<1>2. \A i \in 1..n : f[i] \in Nat
  BY <1>1
<1>3. k \in 0..n /\ k \in below /\ \A y \in below : y <= k
  <2>1. below \in SUBSET (0..n) /\ below # {}
    BY <1>1
  <2>2. k \in below /\ \A y \in below : y <= k
    BY <2>1, HighestIsOne
  <2> QED
    BY <2>1, <2>2
<1>4. k # 0 => f[k] <= t
  BY <1>3
<1>5. \A i \in 1..n : i > k => f[i] > t
  <2> SUFFICES ASSUME NEW i \in 1..n, i > k PROVE f[i] > t
    OBVIOUS
  <2>1. i \notin below
    BY <1>3
  <2>2. ~(f[i] <= t)
    BY <1>1, <2>1
  <2> QED
    BY <1>1, <1>2, <2>2
<1>6. g = InsertAt(f, k + 1, t)
  BY DEF InsertTime
<1>7. k \in Nat /\ k <= n
  BY <1>3
<1> HIDE DEF k, below, g, t
<1>8. g \in Seq(Nat) /\ Len(g) = n + 1 /\ g[k + 1] = t
  BY <1>1, <1>3, <1>6, InsertedPlaces
<1>9. /\ \A i \in 1..k : g[i] = f[i]
      /\ \A i \in (k + 2)..(n + 1) : g[i] = f[i - 1]
  BY <1>1, <1>3, <1>6, InsertedPlaces
<1>10. \A i, j \in 1..n : i <= j => f[i] <= f[j]
  BY DEF Arranged
<1>11. ASSUME NEW i \in 1..(n + 1)
       PROVE  \/ i <= k /\ i \in 1..k /\ i \in 1..n
              \/ i = k + 1
              \/ i > k + 1 /\ i \in (k + 2)..(n + 1) /\ i - 1 \in 1..n /\ i - 1 > k
  BY <1>7
<1>12. ASSUME NEW i \in 1..(n + 1), NEW j \in 1..(n + 1), i < j PROVE g[i] <= g[j]
  <2>1. CASE j <= k
    <3>1. i \in 1..k /\ j \in 1..k /\ i \in 1..n /\ j \in 1..n
      BY <1>7, <1>12, <2>1
    <3> QED
      BY <1>9, <1>10, <1>12, <3>1
  <2>2. CASE j = k + 1
    <3>1. i \in 1..k /\ k # 0 /\ k \in 1..n /\ i \in 1..n /\ i <= k
      BY <1>7, <1>12, <2>2
    <3>2. f[i] <= f[k] /\ f[k] <= t /\ f[i] \in Nat /\ f[k] \in Nat
      BY <1>2, <1>4, <1>10, <3>1
    <3>3. g[i] = f[i] /\ g[j] = t
      BY <1>8, <1>9, <2>2, <3>1
    <3> QED
      BY <1>1, <3>2, <3>3
  <2>3. CASE j > k + 1
    <3>1. j \in (k + 2)..(n + 1) /\ j - 1 \in 1..n /\ j - 1 > k
      BY <1>7, <2>3
    <3>2. f[j - 1] > t /\ f[j - 1] \in Nat /\ g[j] = f[j - 1]
      BY <1>2, <1>5, <1>9, <3>1
    <3>3. CASE i <= k
      <4>1. i \in 1..k /\ i \in 1..n /\ i <= j - 1
        BY <1>7, <1>12, <3>1, <3>3
      <4>2. g[i] = f[i] /\ f[i] <= f[j - 1]
        BY <1>9, <1>10, <3>1, <4>1
      <4> QED
        BY <3>2, <4>2
    <3>4. CASE i = k + 1
      BY <1>1, <1>8, <3>2, <3>4
    <3>5. CASE i > k + 1
      <4>1. i \in (k + 2)..(n + 1) /\ i - 1 \in 1..n /\ i - 1 <= j - 1
        BY <1>7, <1>12, <3>5
      <4>2. g[i] = f[i - 1] /\ f[i - 1] <= f[j - 1]
        BY <1>9, <1>10, <3>1, <4>1
      <4> QED
        BY <3>2, <4>2
    <3> QED
      BY <1>11, <3>3, <3>4, <3>5
  <2> QED
    BY <1>11, <2>1, <2>2, <2>3
<1>13. \A i, j \in 1..(n + 1) : i <= j => g[i] <= g[j]
  <2> SUFFICES ASSUME NEW i \in 1..(n + 1), NEW j \in 1..(n + 1), i <= j PROVE g[i] <= g[j]
    OBVIOUS
  <2>1. CASE i < j
    BY <1>12, <2>1
  <2>2. CASE i = j
    <3>1. g[i] \in Nat
      BY <1>8
    <3> QED
      BY <2>2, <3>1
  <2> QED
    BY <2>1, <2>2
<1>14. PICK p \in [1..n -> 1..n] : /\ \A i, j \in 1..n : p[i] = p[j] => i = j
                                   /\ \A i \in 1..n : f[i] = s[p[i]]
  BY DEF Arranged
<1> DEFINE q == [i \in 1..(n + 1) |-> IF i <= k THEN p[i] ELSE IF i = k + 1 THEN n + 1
                                      ELSE p[i - 1]]
           from(i) == IF i <= k THEN i ELSE i - 1
<1>15. q[k + 1] = n + 1
  <2>1. k + 1 \in 1..(n + 1) /\ ~(k + 1 <= k)
    BY <1>7
  <2> QED
    BY <2>1
<1>16. ASSUME NEW i \in 1..(n + 1), i # k + 1
       PROVE  /\ from(i) \in 1..n /\ q[i] = p[from(i)] /\ q[i] \in 1..n
              /\ g[i] = f[from(i)]
  <2>1. CASE i <= k
    <3>1. from(i) = i /\ i \in 1..k /\ i \in 1..n
      BY <1>7, <2>1
    <3>2. q[i] = p[i]
      BY <2>1
    <3>3. p[i] \in 1..n
      BY <3>1
    <3> HIDE DEF q, from
    <3> QED
      BY <1>9, <3>1, <3>2, <3>3
  <2>2. CASE ~(i <= k)
    <3>1. from(i) = i - 1 /\ i \in (k + 2)..(n + 1) /\ i - 1 \in 1..n
      BY <1>7, <1>16, <2>2
    <3>2. q[i] = p[i - 1]
      BY <1>16, <2>2
    <3>3. p[i - 1] \in 1..n
      BY <3>1
    <3> HIDE DEF q, from
    <3> QED
      BY <1>9, <3>1, <3>2, <3>3
  <2> QED
    BY <2>1, <2>2
<1>17. q = [i \in 1..(n + 1) |-> q[i]]
  OBVIOUS
<1>18. ASSUME NEW i \in 1..(n + 1), NEW j \in 1..(n + 1), i # k + 1, j # k + 1,
              from(i) = from(j)
       PROVE  i = j
  BY <1>7, <1>18
<1> HIDE DEF q, from
<1>19. q \in [1..(n + 1) -> 1..(n + 1)]
  <2>1. n + 1 \in 1..(n + 1) /\ \A i \in 1..n : i \in 1..(n + 1)
    OBVIOUS
  <2>2. ASSUME NEW i \in 1..(n + 1) PROVE q[i] \in 1..(n + 1)
    BY <1>15, <1>16, <2>1
  <2> QED
    BY <1>17, <2>2
<1>20. ASSUME NEW i \in 1..(n + 1), NEW j \in 1..(n + 1), q[i] = q[j] PROVE i = j
  <2>1. n + 1 \notin 1..n
    OBVIOUS
  <2>2. CASE i = k + 1 \/ j = k + 1
    BY <1>15, <1>16, <1>20, <2>1, <2>2
  <2>3. CASE i # k + 1 /\ j # k + 1
    <3>1. p[from(i)] = p[from(j)] /\ from(i) \in 1..n /\ from(j) \in 1..n
      BY <1>16, <1>20, <2>3
    <3>2. from(i) = from(j)
      BY <1>14, <3>1
    <3> QED
      BY <1>18, <2>3, <3>2
  <2> QED
    BY <2>2, <2>3
<1>21. ASSUME NEW i \in 1..(n + 1) PROVE g[i] = s[q[i]]
  <2>1. CASE i = k + 1
    BY <1>8, <1>15, <2>1 DEF t
  <2>2. CASE i # k + 1
    <3>1. from(i) \in 1..n /\ q[i] = p[from(i)] /\ g[i] = f[from(i)]
      BY <1>16, <2>2
    <3>2. f[from(i)] = s[p[from(i)]]
      BY <1>14, <3>1
    <3> QED
      BY <3>1, <3>2
  <2> QED
    BY <2>1, <2>2
<1> QED
  BY <1>8, <1>13, <1>19, <1>20, <1>21 DEF Arranged, g, t

\* The sort puts all times in order and loses none: doorMedian's insertion sort.
LEMMA SortArranges ==
    ASSUME NEW s \in Seq(Nat)
    PROVE  Arranged(Sort(s), s, Len(s))
<1> DEFINE N == Len(s)
           Next1(f, i) == IF i = 0 THEN <<>> ELSE InsertTime(f[i - 1], s[i])
           Passes(f, m) == f = [i \in 0..m |-> Next1(f, i)]
           pass == CHOOSE f : Passes(f, N)
<1>1. N \in Nat /\ 0 \in 0..N
  BY LenProperties
<1>2. \E f : Passes(f, N)
  <2> DEFINE Good == {m \in 0..N : \E f : Passes(f, m)}
  <2>1. 0 \in Good
    <3> DEFINE h == [i \in 0..0 |-> <<>>]
    <3>1. \A i \in 0..0 : i = 0
      OBVIOUS
    <3>2. Passes(h, 0)
      BY <3>1
    <3> QED
      BY <1>1, <3>2
  <2>2. ASSUME NEW m \in 0..N, m \in Good, m < N PROVE m + 1 \in Good
    <3>1. PICK f : Passes(f, m)
      BY <2>2
    <3> DEFINE h == [i \in 0..(m + 1) |-> IF i <= m THEN f[i] ELSE InsertTime(f[m], s[m + 1])]
    <3>2. \A i \in 0..(m + 1) : h[i] = Next1(h, i)
      <4> TAKE i \in 0..(m + 1)
      <4>1. CASE i = 0
        BY <1>1, <3>1, <4>1
      <4>2. CASE i # 0 /\ i <= m
        <5>1. i \in 0..m /\ i - 1 \in 0..m /\ i - 1 \in 0..(m + 1) /\ i - 1 <= m
          BY <4>2
        <5>2. h[i] = f[i] /\ h[i - 1] = f[i - 1]
          BY <4>2, <5>1
        <5>3. f[i] = InsertTime(f[i - 1], s[i])
          BY <3>1, <4>2, <5>1
        <5> HIDE DEF h
        <5> QED
          BY <4>2, <5>2, <5>3
      <4>3. CASE i = m + 1
        <5>1. i # 0 /\ i - 1 = m /\ ~(i <= m) /\ m \in 0..(m + 1) /\ m <= m
          BY <4>3
        <5>2. h[i] = InsertTime(f[m], s[i]) /\ h[m] = f[m]
          BY <4>3, <5>1
        <5> HIDE DEF h
        <5> QED
          BY <5>1, <5>2
      <4> QED
        BY <4>1, <4>2, <4>3
    <3>3. Passes(h, m + 1)
      BY <3>2
    <3>4. m + 1 \in 0..N
      BY <1>1, <2>2
    <3> HIDE DEF h, Passes
    <3> QED
      BY <3>3, <3>4
  <2> HIDE DEF Good
  <2>3. N \in Good
    <3>1. \A m \in 0..N : m \in Good
      BY <1>1, <2>1, <2>2, Climbs
    <3> QED
      BY <1>1, <3>1
  <2> QED
    BY <2>3 DEF Good
<1>3. Passes(pass, N)
  BY <1>2
<1>4. Sort(s) = pass[N]
  BY DEF Sort
<1> HIDE DEF pass
<1> DEFINE SortedUpTo == {m \in 0..N : Arranged(pass[m], s, m)}
<1>5. 0 \in SortedUpTo
  <2>1. pass[0] = <<>>
    BY <1>1, <1>3
  <2>2. Arranged(<<>>, s, 0)
    <3>1. \A i \in 1..0 : FALSE
      OBVIOUS
    <3> DEFINE p == [i \in 1..0 |-> i]
    <3>2. p \in [1..0 -> 1..0]
      OBVIOUS
    <3> HIDE DEF p
    <3>3. <<>> \in Seq(Nat) /\ Len(<<>>) = 0
      OBVIOUS
    <3>4. \E x \in [1..0 -> 1..0] : /\ \A i, j \in 1..0 : x[i] = x[j] => i = j
                                    /\ \A i \in 1..0 : <<>>[i] = s[x[i]]
      BY <3>1, <3>2
    <3> QED
      BY <3>1, <3>3, <3>4 DEF Arranged
  <2> QED
    BY <1>1, <2>1, <2>2
<1>6. ASSUME NEW m \in 0..N, m \in SortedUpTo, m < N PROVE m + 1 \in SortedUpTo
  <2>1. m + 1 \in 0..N /\ m + 1 # 0 /\ (m + 1) - 1 = m /\ m \in Nat
    BY <1>1, <1>6
  <2>2. pass[m + 1] = InsertTime(pass[m], s[m + 1])
    BY <1>3, <2>1
  <2>3. Arranged(pass[m + 1], s, m + 1)
    BY <1>6, <2>1, <2>2, InsertArranges
  <2> QED
    BY <2>1, <2>3
<1> HIDE DEF SortedUpTo
<1>7. N \in SortedUpTo
  <2>1. \A m \in 0..N : m \in SortedUpTo
    BY <1>1, <1>5, <1>6, Climbs
  <2> QED
    BY <1>1, <2>1
<1> QED
  BY <1>4, <1>7 DEF SortedUpTo
-----------------------------------------------------------------------------
\* Places of a majority of the times include one from the lower half, and from the
\* upper: of what p arranges, half of the places D hold some time of E.
LEMMA MajorityMeets ==
    ASSUME NEW n \in Nat, NEW p \in [1..n -> 1..n], \A i, j \in 1..n : p[i] = p[j] => i = j,
           NEW D \in SUBSET (1..n), NEW E \in SUBSET (1..n),
           2 * Cardinality(D) >= n, 2 * Cardinality(E) > n
    PROVE  \E j \in D : p[j] \in E
<1> DEFINE P == {p[j] : j \in D}
           onto == [j \in D |-> p[j]]
<1>1. IsFiniteSet(1..n) /\ Cardinality(1..n) = n
  BY FS_Interval
<1>2. IsFiniteSet(D) /\ IsFiniteSet(E) /\ P \in SUBSET (1..n) /\ IsFiniteSet(P)
  <2>1. P \in SUBSET (1..n)
    OBVIOUS
  <2> QED
    BY <1>1, <2>1, FS_Subset
<1>3. Cardinality(P) = Cardinality(D)
  <2>1. onto \in Bijection(D, P)
    <3>1. onto \in [D -> P] /\ \A y \in P : \E j \in D : onto[j] = y
      OBVIOUS
    <3>2. \A i, j \in D : onto[i] = onto[j] => i = j
      OBVIOUS
    <3> QED
      BY <3>1, <3>2 DEF Bijection, Injection, Surjection, IsInjective
  <2>2. ExistsBijection(D, P)
    BY <2>1 DEF ExistsBijection
  <2> QED
    BY <1>2, <2>2, FS_Bijection
<1>4. IsFiniteSet(E \cup P) /\ Cardinality(E \cup P) = Cardinality(E) + Cardinality(P)
                                                  - Cardinality(E \cap P)
  BY <1>2, FS_Union
<1> HIDE DEF P
<1>5. Cardinality(E \cup P) <= n
  <2>1. E \cup P \in SUBSET (1..n)
    BY <1>2
  <2> QED
    BY <1>1, <2>1, FS_Subset
<1>6. IsFiniteSet(E \cap P) /\ Cardinality(E \cap P) \in Nat /\ Cardinality(E \cup P) \in Nat
      /\ Cardinality(E) \in Nat /\ Cardinality(P) \in Nat
  <2>1. IsFiniteSet(E \cap P)
    <3>1. E \cap P \in SUBSET (1..n)
      BY <1>2
    <3> QED
      BY <1>1, <3>1, FS_Subset
  <2> QED
    BY <1>2, <1>4, <2>1, FS_CardinalityType
<1>7. Cardinality(E \cap P) # 0
  BY <1>3, <1>4, <1>5, <1>6
<1>8. E \cap P # {}
  BY <1>7, FS_EmptySet
<1> QED
  BY <1>8 DEF P

\* Of a majority of the times, one is not above the median and one not below it.
LEMMA MedianBetween ==
    ASSUME NEW s \in Seq(Nat), NEW E \in SUBSET (1..Len(s)), 2 * Cardinality(E) > Len(s)
    PROVE  /\ DoorMedian(s) \in Nat
           /\ \E i \in E : s[i] <= DoorMedian(s)
           /\ \E i \in E : s[i] >= DoorMedian(s)
<1> DEFINE n == Len(s)
           f == Sort(s)
           m == DoorMedian(s)
           h == n \div 2
<1>1. n \in Nat /\ h \in Nat /\ (n = 2 * h \/ n = 2 * h + 1) /\ (n % 2 = 1 <=> n = 2 * h + 1)
  BY LenProperties
<1>2. n # 0
  <2>1. CASE n = 0
    <3>1. E = {}
      BY <2>1
    <3>2. Cardinality(E) = 0
      BY <3>1, FS_EmptySet
    <3> QED
      BY <2>1, <3>2
  <2> QED
    BY <2>1
<1>3. Arranged(f, s, n)
  BY SortArranges
<1>4. m = IF n = 0 THEN 0
          ELSE IF n % 2 = 1 THEN f[h + 1]
          ELSE (f[h] + f[h + 1] + 1) \div 2
  BY DEF DoorMedian
<1> HIDE DEF n, f, m, h
<1>5. /\ f \in Seq(Nat) /\ Len(f) = n
      /\ \A i, j \in 1..n : i <= j => f[i] <= f[j]
  BY <1>3 DEF Arranged
<1>6. PICK p \in [1..n -> 1..n] : /\ \A i, j \in 1..n : p[i] = p[j] => i = j
                                  /\ \A i \in 1..n : f[i] = s[p[i]]
  BY <1>3 DEF Arranged
<1>7. \A i \in 1..n : f[i] \in Nat
  BY <1>5
<1>8. /\ m \in Nat
      /\ \A i \in 1..(n - h) : f[i] <= m
      /\ \A i \in (h + 1)..n : f[i] >= m
  <2>1. CASE n = 2 * h + 1
    <3>1. m = f[h + 1] /\ h + 1 \in 1..n /\ n - h = h + 1
      BY <1>1, <1>2, <1>4, <2>1
    <3>2. \A i \in 1..(n - h) : i \in 1..n /\ i <= h + 1
      BY <1>1, <2>1
    <3>3. \A i \in (h + 1)..n : i \in 1..n /\ h + 1 <= i
      BY <1>1
    <3>4. \A i \in 1..(n - h) : f[i] <= f[h + 1]
      BY <1>5, <3>1, <3>2
    <3>5. \A i \in (h + 1)..n : f[h + 1] <= f[i] /\ f[i] \in Nat
      BY <1>5, <1>7, <3>1, <3>3
    <3>6. f[h + 1] \in Nat
      BY <1>7, <3>1
    <3> QED
      BY <3>1, <3>4, <3>5, <3>6
  <2>2. CASE n = 2 * h
    <3>1. m = (f[h] + f[h + 1] + 1) \div 2 /\ h \in 1..n /\ h + 1 \in 1..n /\ n - h = h
      BY <1>1, <1>2, <1>4, <2>2
    <3>2. f[h] \in Nat /\ f[h + 1] \in Nat /\ f[h] <= f[h + 1]
      BY <1>1, <1>5, <1>7, <3>1
    <3>3. m \in Nat /\ f[h] <= m /\ m <= f[h + 1]
      BY <3>1, <3>2
    <3>4. \A i \in 1..h : i \in 1..n /\ i <= h
      BY <1>1, <2>2
    <3>5. \A i \in (h + 1)..n : i \in 1..n /\ h + 1 <= i
      BY <1>1
    <3>6. \A i \in 1..h : f[i] <= f[h] /\ f[i] \in Nat
      BY <1>5, <1>7, <3>1, <3>4
    <3>7. \A i \in (h + 1)..n : f[h + 1] <= f[i] /\ f[i] \in Nat
      BY <1>5, <1>7, <3>1, <3>5
    <3>8. \A i \in 1..h : f[i] <= m
      BY <3>2, <3>3, <3>6
    <3>9. \A i \in (h + 1)..n : f[i] >= m
      BY <3>2, <3>3, <3>7
    <3> QED
      BY <3>1, <3>3, <3>8, <3>9
  <2> QED
    BY <1>1, <2>1, <2>2
<1>9. E \in SUBSET (1..n) /\ 2 * Cardinality(E) > n
  BY DEF n
<1>10. /\ 1..(n - h) \in SUBSET (1..n) /\ (h + 1)..n \in SUBSET (1..n)
       /\ 2 * (n - h) >= n /\ n - h >= 0 /\ n - h \in Int
  BY <1>1
<1>11. Cardinality(1..(n - h)) = n - h
  <2>1. 1 \in Int /\ n - h \in Int /\ (1 > n - h => n - h = 0) /\ (n - h) - 1 + 1 = n - h
    BY <1>10
  <2>2. Cardinality(1..(n - h)) = IF 1 > n - h THEN 0 ELSE (n - h) - 1 + 1
    BY <2>1, FS_Interval
  <2> QED
    BY <2>1, <2>2
<1>12. Cardinality((h + 1)..n) = n - h
  <2>1. /\ h + 1 \in Int /\ n \in Int /\ (h + 1 > n => n - h = 0)
        /\ n - (h + 1) + 1 = n - h
    BY <1>1
  <2>2. Cardinality((h + 1)..n) = IF h + 1 > n THEN 0 ELSE n - (h + 1) + 1
    BY <2>1, FS_Interval
  <2> QED
    BY <2>1, <2>2
<1>13. PICK i \in 1..(n - h) : p[i] \in E
  <2> DEFINE D == 1..(n - h)
  <2>1. 2 * Cardinality(D) >= n /\ D \in SUBSET (1..n)
    BY <1>10, <1>11
  <2> HIDE DEF D
  <2>2. \E i \in D : p[i] \in E
    BY <1>1, <1>6, <1>9, <2>1, MajorityMeets
  <2> QED
    BY <2>2 DEF D
<1>14. PICK j \in (h + 1)..n : p[j] \in E
  <2>1. 2 * Cardinality((h + 1)..n) >= n
    BY <1>10, <1>12
  <2> QED
    BY <1>1, <1>6, <1>9, <1>10, <2>1, MajorityMeets
<1>15. f[i] = s[p[i]] /\ f[j] = s[p[j]]
  BY <1>6, <1>10
<1>16. s[p[i]] <= m /\ s[p[j]] >= m
  BY <1>8, <1>15
<1> QED
  BY <1>8, <1>13, <1>14, <1>16 DEF m
-----------------------------------------------------------------------------
\* The openings that are kept.
Opening == [time : {0} \cup MinDuration..MaxDuration, exact : BOOLEAN]
Rings == [0..(History - 1) -> Opening]

\* The inductive invariant: whatever is estimated is the median of what is kept.
Estimated == estimate = DoorMedian(Times(durations, count))
TimesInv == TimesTypeOK /\ Estimated

\* What a report may change.
HistoryKept ==
    /\ heard \in Places \cup {"UNKNOWN"} /\ started \in Elapsed
    /\ durations \in Rings /\ count \in 0..MaxOpenings
    /\ estimate \in 0..MaxDuration /\ Estimated

\* What is kept of some durations, and the times of it.
LEMMA KeptTimes ==
    ASSUME NEW r \in Rings,
           NEW n \in Nat
    PROVE  /\ Len(Kept(r, n)) \in Nat /\ Len(Kept(r, n)) = Len(Times(r, n))
           /\ DOMAIN Kept(r, n) = 1..Len(Times(r, n))
           /\ Times(r, n) \in Seq(Nat)
           /\ \A i \in 1..Len(Times(r, n)) : /\ Times(r, n)[i] = Kept(r, n)[i].time
                                             /\ Times(r, n)[i] \in 0..MaxDuration
<1> DEFINE k == IF n < History THEN n ELSE History
           kept == Kept(r, n)
           times == Times(r, n)
<1>1. k \in Nat /\ k <= History
  BY DoorTimesAssumption
<1>2. \A i \in 1..k : i - 1 \in 0..(History - 1)
  BY <1>1, DoorTimesAssumption
<1>3. kept = [i \in 1..k |-> r[i - 1]]
  BY DEF Kept
<1> HIDE DEF k, kept
<1>4. \A i \in 1..k : kept[i] \in Opening
  BY <1>2, <1>3 DEF Rings
<1>5. \A i \in 1..k : kept[i].time \in 0..MaxDuration
  BY <1>4, DoorTimesAssumption DEF Opening
<1>6. DOMAIN kept = 1..k /\ Len(kept) = k
  <2>1. kept \in Seq(Opening)
    BY <1>1, <1>3, <1>4
  <2>2. DOMAIN kept = 1..k
    BY <1>3
  <2> QED
    BY <1>1, <2>1, <2>2, LenProperties
<1>7. times = [i \in 1..k |-> kept[i].time]
  BY <1>6 DEF Times, kept
<1> HIDE DEF times
<1>8. times \in Seq(Nat) /\ Len(times) = k
  <2>1. \A i \in 1..k : kept[i].time \in Nat
    BY <1>5
  <2>2. times \in Seq(Nat)
    BY <1>1, <1>7, <2>1
  <2>3. DOMAIN times = 1..k
    BY <1>7
  <2> QED
    BY <1>1, <2>2, <2>3, LenProperties
<1> QED
  BY <1>1, <1>5, <1>6, <1>7, <1>8 DEF kept, times

\* The median of what is kept is no longer than the longest time that is recorded.
LEMMA EstimateTyped ==
    ASSUME NEW r \in Rings,
           NEW n \in Nat
    PROVE  DoorMedian(Times(r, n)) \in 0..MaxDuration
<1> DEFINE s == Times(r, n)
           m == DoorMedian(s)
<1>1. s \in Seq(Nat) /\ Len(s) \in Nat /\ \A i \in 1..Len(s) : s[i] \in 0..MaxDuration
  BY KeptTimes, LenProperties
<1>2. CASE Len(s) = 0
  BY <1>2, DoorTimesAssumption DEF DoorMedian
<1>3. CASE Len(s) # 0
  <2> DEFINE E == 1..Len(s)
  <2> HIDE DEF s
  <2>1. Cardinality(E) = Len(s)
    <3>1. Cardinality(1..Len(s)) = IF 1 > Len(s) THEN 0 ELSE Len(s) - 1 + 1
      BY <1>1, FS_Interval
    <3> QED
      BY <1>1, <1>3, <3>1
  <2>2. E \in SUBSET (1..Len(s)) /\ 2 * Cardinality(E) > Len(s)
    BY <1>1, <1>3, <2>1
  <2> HIDE DEF m
  <2>3. m \in Nat /\ \E i \in E : s[i] >= m
    BY <1>1, <2>2, MedianBetween DEF m
  <2>4. PICK i \in E : s[i] >= m
    BY <2>3
  <2> QED
    BY <1>1, <2>3, <2>4, DoorTimesAssumption DEF m, s
<1> QED
  BY <1>1, <1>2, <1>3

\* What a report of the door does about the times.
LEMMA ReportKeeps ==
    ASSUME TimesInv, count < MaxOpenings, NEW s \in Places, UpdateDoorState(s)
    PROVE  HistoryKept'
<1>1. /\ started \in Elapsed /\ durations \in Rings /\ count \in 0..MaxOpenings
      /\ estimate \in 0..MaxDuration /\ Estimated
  BY DEF TimesInv, TimesTypeOK, Rings, Opening
<1>2. heard' = s
  BY DEF UpdateDoorState
<1>3. CASE UNCHANGED <<durations, count, estimate>> /\ started' \in {started, 0, -1}
  <2>1. 0 \in Elapsed /\ -1 \in Elapsed
    BY DoorTimesAssumption DEF Elapsed
  <2>2. Estimated'
    BY <1>1, <1>3 DEF Estimated
  <2> QED
    BY <1>1, <1>2, <1>3, <2>1, <2>2 DEF HistoryKept
<1>4. CASE Record(started) /\ started \in MinDuration..MaxDuration
  <2> DEFINE e == [time |-> started, exact |-> started = travel]
  <2>1. e \in Opening
    BY <1>4 DEF Opening
  <2>2. durations' = [durations EXCEPT ![count % History] = e]
    BY <1>4 DEF Record
  <2> HIDE DEF e
  <2>3. durations' \in Rings
    BY <1>1, <2>1, <2>2 DEF Rings
  <2>4. count' \in 0..MaxOpenings /\ count' \in Nat
    BY <1>1, <1>4, DoorTimesAssumption DEF Record
  <2>5. estimate' = DoorMedian(Times(durations', count')) /\ started' = started /\ Estimated'
    BY <1>4 DEF Record, Estimated
  <2>6. DoorMedian(Times(durations', count')) \in 0..MaxDuration
    BY <2>3, <2>4, EstimateTyped
  <2> QED
    BY <1>1, <1>2, <2>3, <2>4, <2>5, <2>6 DEF HistoryKept
<1>5. \/ UNCHANGED <<durations, count, estimate>> /\ started' \in {started, 0, -1}
      \/ Record(started) /\ started \in MinDuration..MaxDuration
  <2>1. CASE s = "OPENING" /\ heard = "CLOSED"
    BY <2>1 DEF UpdateDoorState
  <2>2. CASE s = "OPEN" /\ heard = "OPENING" /\ started # -1
    BY <2>2 DEF UpdateDoorState
  <2>3. CASE /\ ~(s = "OPENING" /\ heard = "CLOSED")
             /\ ~(s = "OPEN" /\ heard = "OPENING" /\ started # -1)
    BY <2>3, Zenon DEF UpdateDoorState
  <2> QED
    BY <2>1, <2>2, <2>3
<1>6. HistoryKept'
  BY <1>3, <1>4, <1>5
<1> QED
  BY <1>6

\* TimesInv is inductive.
LEMMA TimesStart == TimesInit => TimesInv
<1> SUFFICES ASSUME TimesInit PROVE TimesInv
  OBVIOUS
<1>1. Never \in Opening
  BY DEF Never, Opening
<1>2. /\ durations \in Rings
      /\ count = 0 /\ estimate = 0
  BY <1>1 DEF TimesInit, Rings
<1>3. DoorMedian(Times(durations, count)) = 0
  <2>1. Kept(durations, 0) = <<>>
    BY DoorTimesAssumption DEF Kept
  <2>2. Len(Times(durations, 0)) = 0
    BY <2>1 DEF Times
  <2> QED
    BY <1>2, <2>2 DEF DoorMedian
<1>4. /\ garage \in Places /\ heard \in Places \cup {"UNKNOWN"}
      /\ started \in Elapsed /\ travel \in Elapsed
      /\ count \in 0..MaxOpenings /\ estimate \in 0..MaxDuration
  BY <1>2, DoorTimesAssumption DEF TimesInit, Places, Elapsed
<1>5. missed \in BOOLEAN
  BY DEF TimesInit
<1> QED
  BY <1>2, <1>3, <1>4, <1>5 DEF TimesInv, Estimated, TimesTypeOK, Rings, Opening

\* What the door does and reports, the time that passes, and restarts.
LEMMA TimesStep == TimesInv /\ [TimesNext]_timesVars => TimesInv'
<1> SUFFICES ASSUME TimesInv, [TimesNext]_timesVars PROVE TimesInv'
  OBVIOUS
<1>1. /\ garage \in Places /\ heard \in Places \cup {"UNKNOWN"}
      /\ started \in Elapsed /\ travel \in Elapsed
      /\ durations \in Rings /\ count \in 0..MaxOpenings /\ count \in Nat
      /\ estimate \in 0..MaxDuration /\ Estimated /\ missed \in BOOLEAN
  BY DoorTimesAssumption DEF TimesInv, TimesTypeOK, Rings, Opening
<1>2. 0 \in Elapsed /\ -1 \in Elapsed /\ \A t \in Elapsed : Later(t) \in Elapsed
  BY DoorTimesAssumption DEF Elapsed, Later
<1>3. CASE DoorChanges
  <2>1. PICK s \in Places :
          /\ garage' = s /\ travel' \in {0, -1} /\ missed' \in BOOLEAN
          /\ UpdateDoorState(s) \/ UNCHANGED <<heard, started, durations, count, estimate>>
    BY <1>1, <1>3 DEF DoorChanges
  <2>2. count < MaxOpenings
    BY <1>3 DEF DoorChanges
  <2>3. travel' \in Elapsed
    BY <1>2, <2>1
  <2>4. CASE UpdateDoorState(s)
    <3>1. HistoryKept'
      BY <2>2, <2>4, ReportKeeps
    <3> QED
      BY <2>1, <2>3, <3>1 DEF HistoryKept, TimesInv, TimesTypeOK, Rings, Opening
  <2>5. CASE UNCHANGED <<heard, started, durations, count, estimate>>
    BY <1>1, <2>1, <2>3, <2>5 DEF TimesInv, Estimated, TimesTypeOK, Rings, Opening
  <2> QED
    BY <2>1, <2>4, <2>5
<1>4. CASE Repeats
  <2>1. /\ UpdateDoorState(garage) /\ count < MaxOpenings /\ UNCHANGED <<garage, travel>>
        /\ missed' \in BOOLEAN
    BY <1>4 DEF Repeats
  <2>2. HistoryKept'
    BY <1>1, <2>1, ReportKeeps
  <2> QED
    BY <1>1, <2>1, <2>2 DEF HistoryKept, TimesInv, TimesTypeOK, Rings, Opening
<1>5. CASE Waits
  <2>1. started' = Later(started) /\ travel' = Later(travel)
        /\ UNCHANGED <<garage, heard, durations, count, estimate, missed>>
    BY <1>5 DEF Waits
  <2>2. started' \in Elapsed /\ travel' \in Elapsed
    BY <1>1, <1>2, <2>1
  <2> QED
    BY <1>1, <2>1, <2>2 DEF TimesInv, Estimated, TimesTypeOK, Rings, Opening
<1>6. CASE Restarts
  <2>1. DoorMedian(Times(durations, count)) \in 0..MaxDuration
    BY <1>1, EstimateTyped
  <2> QED
    BY <1>1, <1>2, <1>6, <2>1 DEF Restarts, TimesInv, Estimated, TimesTypeOK, Rings, Opening
<1>7. CASE UNCHANGED timesVars
  BY <1>7 DEF timesVars, TimesInv, Estimated, TimesTypeOK
<1> QED
  BY <1>3, <1>4, <1>5, <1>6, <1>7 DEF TimesNext

\* Whatever is estimated, after openings and restarts, is the median of what is kept,
\* and no longer than the longest time that is recorded.
THEOREM TimesInvariant == TimesSpec => []TimesInv
<1> QED
  BY TimesStart, TimesStep, PTL DEF TimesSpec

\* While no report has been missed the record follows the door, and a measurement
\* that runs while the door opens began with it.
Measuring ==
    /\ heard = "UNKNOWN" => started = -1
    /\ ~missed => /\ heard \in {garage, "UNKNOWN"}
                  /\ heard = "STOPPED" => started = -1
                  /\ heard = "OPENING" /\ started # -1 => started = travel

\* Measuring is inductive.
LEMMA MeasuringStep ==
    ASSUME TimesTypeOK, Measuring, [TimesNext]_timesVars
    PROVE  Measuring'
<1>1. garage \in Places /\ heard \in Places \cup {"UNKNOWN"} /\ missed \in BOOLEAN
  BY DEF TimesTypeOK
<1>2. CASE DoorChanges
  <2>1. PICK s \in Places :
          /\ CanBecome(s) /\ garage' = s
          /\ travel' = IF garage = "CLOSED" THEN 0 ELSE -1
          /\ \/ /\ UpdateDoorState(s)
                /\ missed' = (missed /\ ~(garage = "CLOSED" /\ heard = "CLOSED"))
             \/ /\ missed' = TRUE
                /\ UNCHANGED <<heard, started, durations, count, estimate>>
    BY <1>2 DEF DoorChanges
  <2>2. CASE UNCHANGED <<heard, started>> /\ missed'
    BY <2>2 DEF Measuring
  <2>3. CASE /\ UpdateDoorState(s)
             /\ missed' = (missed /\ ~(garage = "CLOSED" /\ heard = "CLOSED"))
    <3>1. heard' = s /\ s # "UNKNOWN"
      BY <2>1, <2>3 DEF UpdateDoorState, Places
    <3>2. CASE missed'
      BY <3>1, <3>2 DEF Measuring
    <3>3. CASE ~missed' /\ garage = "CLOSED" /\ heard = "CLOSED"
      <4>1. s = "OPENING"
        BY <2>1, <3>3 DEF CanBecome
      <4>2. started' = 0 /\ travel' = 0
        BY <2>1, <2>3, <3>3, <4>1 DEF UpdateDoorState
      <4> QED
        BY <2>1, <3>1, <4>1, <4>2 DEF Measuring
    <3>4. CASE ~missed /\ ~(garage = "CLOSED" /\ heard = "CLOSED")
      <4>1. heard \in {garage, "UNKNOWN"}
        BY <3>4 DEF Measuring
      <4>2. ASSUME s = "STOPPED" PROVE started' = -1
        BY <2>3, <4>2 DEF UpdateDoorState, Aborts
      <4>3. ASSUME s = "OPENING" PROVE started' = -1
        <5>1. garage \in {"CLOSED", "STOPPED", "CLOSING"}
          BY <1>1, <2>1, <4>3 DEF CanBecome, Places
        <5>2. heard \in {"STOPPED", "CLOSING", "UNKNOWN"}
          BY <3>4, <4>1, <5>1
        <5>3. heard \in {"STOPPED", "UNKNOWN"} => started = -1
          BY <3>4 DEF Measuring
        <5> QED
          BY <2>3, <4>3, <5>2, <5>3 DEF UpdateDoorState, Aborts
      <4> QED
        BY <2>1, <3>1, <4>2, <4>3 DEF Measuring
    <3> QED
      BY <1>1, <2>3, <3>2, <3>3, <3>4
  <2> QED
    BY <2>1, <2>2, <2>3
<1>3. CASE Repeats
  <2>1. heard' = garage /\ missed'
    BY <1>3 DEF Repeats, UpdateDoorState
  <2> QED
    BY <1>1, <2>1 DEF Measuring, Places
<1>4. CASE Waits
  BY <1>4 DEF Waits, Measuring, Later
<1>5. CASE Restarts
  BY <1>5 DEF Restarts, Measuring
<1>6. CASE UNCHANGED timesVars
  BY <1>6 DEF timesVars, Measuring
<1> QED
  BY <1>2, <1>3, <1>4, <1>5, <1>6 DEF TimesNext

\* An opening that is recorded is the travel of the door, unless a report was lost or
\* late: whatever stops and turns are reported on the way, and whatever restarts.
THEOREM RecordsTravel == TimesSpec => TravelUnlessMissed
<1> DEFINE Recorded == count' # count => missed \/ durations'[count % History].exact
<1>1. TimesInit => Measuring
  BY DEF TimesInit, Measuring
<1>2. TimesInv /\ Measuring /\ [TimesNext]_timesVars => Measuring'
  BY MeasuringStep DEF TimesInv
<1>3. TimesInv /\ Measuring /\ [TimesNext]_timesVars => [Recorded]_timesVars
  <2> SUFFICES ASSUME TimesInv, Measuring, TimesNext, count' # count, ~missed
               PROVE  durations'[count % History].exact
    OBVIOUS
  <2>1. durations \in Rings /\ count \in Nat /\ count % History \in 0..(History - 1)
    BY DoorTimesAssumption DEF TimesInv, TimesTypeOK, Rings, Opening
  <2>2. PICK s \in Places : UpdateDoorState(s) /\ (DoorChanges \/ heard # garage)
    BY DEF TimesInv, TimesTypeOK, TimesNext, DoorChanges, Repeats, Waits, Restarts
  <2>3. heard = "OPENING" /\ started # -1 /\ Record(started)
    BY <2>2 DEF UpdateDoorState
  <2>4. started = travel
    BY <2>3 DEF Measuring
  <2>5. durations' = [durations EXCEPT ![count % History] =
                        [time |-> started, exact |-> TRUE]]
    BY <2>3, <2>4 DEF Record
  <2>6. durations'[count % History] = [time |-> started, exact |-> TRUE]
    BY <2>1, <2>5 DEF Rings
  <2> QED
    BY <2>6
<1> QED
  BY <1>1, <1>2, <1>3, TimesInvariant, PTL DEF TimesSpec, TravelUnlessMissed

\* For a history of any size and any times: as long as fewer than half of the openings
\* kept are mismeasured, the estimate lies between the shortest and the longest true
\* travel that is kept (doorMedian).
THEOREM EstimateOutlives == TimesSpec => []EstimateOutlivesErrors
<1>1. TimesInv => EstimateOutlivesErrors
  <2> SUFFICES ASSUME TimesInv PROVE EstimateOutlivesErrors
    OBVIOUS
  <2> DEFINE kept == Kept(durations, count)
             s == Times(durations, count)
             exact == {i \in DOMAIN kept : kept[i].exact}
  <2>1. /\ Len(kept) = Len(s) /\ DOMAIN kept = 1..Len(s) /\ s \in Seq(Nat)
        /\ \A i \in 1..Len(s) : s[i] = kept[i].time
    <3>1. /\ durations \in Rings
          /\ count \in Nat
      BY DoorTimesAssumption DEF TimesInv, TimesTypeOK, Rings, Opening
    <3> QED
      BY <3>1, KeptTimes
  <2>2. estimate = DoorMedian(s)
    BY DEF TimesInv, Estimated
  <2>3. exact \in SUBSET (1..Len(s))
    BY <2>1
  <2> HIDE DEF kept, s, exact
  <2>4. ASSUME 2 * Cardinality(exact) > Len(s)
        PROVE  /\ \E i \in exact : kept[i].time <= estimate
               /\ \E i \in exact : kept[i].time >= estimate
    <3>1. (\E i \in exact : s[i] <= estimate) /\ (\E i \in exact : s[i] >= estimate)
      BY <2>1, <2>2, <2>3, <2>4, MedianBetween
    <3> QED
      BY <2>1, <2>3, <3>1
  <2> QED
    BY <2>1, <2>4 DEF EstimateOutlivesErrors, kept, exact
<1> QED
  BY <1>1, TimesInvariant, PTL
-----------------------------------------------------------------------------
(* The types of the dry contacts, and of the units side by side.           *)

\* What a button may ask for yet: one that is held has not been seen, and one that
\* was seen has not been read.
Waiting(c) == (IF c \in place /\ stage[c] = "up" THEN 1 ELSE 0)
              + (IF contact[c] THEN 1 ELSE 0)

\* The inductive invariant: nothing is asked for at a dry contact door, and at the
\* others no more than the presses there have been.
RequestsFit ==
    /\ dryDoor => requests = <<>>
    /\ ~dryDoor => Len(requests) + Waiting("open") + Waiting("close") <= MaxRequests + 3
DryInv == DryTypeOK /\ RequestsFit

\* What is asked for in a pass are the buttons seen in it.
LEMMA AskedAtMost ==
    ASSUME NEW flags \in [Contact -> BOOLEAN]
    PROVE  /\ Asked(flags) \in Seq({"open", "close", "toggle"})
           /\ Len(Asked(flags)) <= (IF flags["open"] THEN 1 ELSE 0)
                                   + (IF flags["close"] THEN 1 ELSE 0)
<1> DEFINE R == {"open", "close", "toggle"}
<1>1. /\ <<"toggle">> \in Seq(R) /\ Len(<<"toggle">>) = 1
      /\ <<"open">> \in Seq(R) /\ Len(<<"open">>) = 1
      /\ <<"close">> \in Seq(R) /\ Len(<<"close">>) = 1
      /\ <<>> \in Seq(R) /\ Len(<<>>) = 0
  OBVIOUS
<1>2. CASE flags["open"] /\ flags["close"]
  BY <1>1, <1>2 DEF Asked
<1>3. CASE flags["open"] /\ ~flags["close"]
  <2>1. Asked(flags) = <<"open">> \o <<>>
    BY <1>3 DEF Asked
  <2>2. <<"open">> \o <<>> = <<"open">>
    OBVIOUS
  <2> QED
    BY <1>1, <1>3, <2>1, <2>2
<1>4. CASE ~flags["open"] /\ flags["close"]
  <2>1. Asked(flags) = <<>> \o <<"close">>
    BY <1>4 DEF Asked
  <2>2. <<>> \o <<"close">> = <<"close">>
    OBVIOUS
  <2> QED
    BY <1>1, <1>4, <2>1, <2>2
<1>5. CASE ~flags["open"] /\ ~flags["close"]
  <2>1. Asked(flags) = <<>> \o <<>>
    BY <1>5 DEF Asked
  <2>2. <<>> \o <<>> = <<>>
    OBVIOUS
  <2> QED
    BY <1>1, <1>5, <2>1, <2>2
<1> QED
  BY <1>2, <1>3, <1>4, <1>5

\* DryInv is inductive.
LEMMA DryStarts == MaxRequests \in Nat /\ DryInit => DryInv
<1> SUFFICES ASSUME MaxRequests \in Nat, DryInit PROVE DryInv
  OBVIOUS
<1>1. /\ stage \in [Contact -> {"up", "down", "long"}]
      /\ contact \in [Contact -> BOOLEAN] /\ was \in [Contact -> BOOLEAN]
      /\ \A c \in Contact : contact[c] = FALSE
  BY DEF DryInit
<1>2. requests \in Seq({"open", "close", "toggle"}) /\ Len(requests) = 0
  BY DEF DryInit
<1>3. place \subseteq Contact /\ (dryDoor => place # Contact) /\ (~dryDoor => place = {})
  BY DEF DryInit, Contact
<1>4. DryTypeOK
  <2>1. dryDoor \in BOOLEAN /\ openClose \in BOOLEAN /\ short \in BOOLEAN
    BY DEF DryInit
  <2>2. doorState \in DoorStates /\ told \in DoorStates /\ lastEnd \in Contact \cup {"none"}
    BY DEF DryInit, DoorStates
  <2>3. Len(requests) <= MaxRequests + 3
    BY <1>2
  <2> QED
    BY <1>1, <1>2, <1>3, <2>1, <2>2, <2>3 DEF DryTypeOK
<1>5. ~dryDoor => Waiting("open") = 0 /\ Waiting("close") = 0
  BY <1>1, <1>3 DEF Waiting, Contact
<1>6. RequestsFit
  BY <1>1, <1>2, <1>5 DEF DryInit, RequestsFit
<1> QED
  BY <1>4, <1>6 DEF DryInv

\* What is added to one summand and taken from the others leaves the sum.
LEMMA ThreeSums ==
  ASSUME NEW l \in Nat, NEW k \in Nat, NEW m \in Nat, m = l + k,
         NEW a \in Nat, NEW b \in Nat, NEW x \in Nat, NEW y \in Nat,
         k + x + y <= a + b
  PROVE  m + x + y <= l + a + b
OBVIOUS

\* A summand is within the bound of the sum, and so is a smaller sum.
LEMMA PartOfSum ==
  ASSUME NEW m \in Nat, NEW x \in Nat, NEW y \in Nat,
         NEW s \in Nat, NEW n \in Nat, m + x + y <= s, s <= n
  PROVE  m + x + y <= n /\ m <= n
OBVIOUS

\* A pass of the loop.
LEMMA LoopFits == MaxRequests \in Nat /\ DryInv /\ Loop => DryInv'
<1> SUFFICES ASSUME MaxRequests \in Nat, DryInv, Loop PROVE DryInv'
  OBVIOUS
<1>1. DryTypeOK /\ RequestsFit
  BY DEF DryInv
<1>2. PICK t \in [Contact -> {"up", "down", "long"}] :
        LET flags == [c \in Contact |-> Pressed(c, t)]
        IN  /\ \A c \in Contact : NextStage(c, stage[c], t[c])
            /\ stage' = t
            /\ short' = (short \/ \E c \in Contact : stage[c] = "down" /\ t[c] = "up")
            /\ lastEnd' = IF t["close"] # "up" THEN "close"
                          ELSE IF t["open"] # "up" THEN "open" ELSE lastEnd
            /\ IF dryDoor
               THEN /\ doorState' = StateNow(flags)
                    /\ contact' = flags /\ was' = flags
                    /\ requests' = requests
               ELSE /\ requests' = IF openClose THEN requests \o Asked(flags) ELSE requests
                    /\ contact' = IF openClose THEN [c \in Contact |-> FALSE] ELSE flags
                    /\ UNCHANGED <<doorState, was>>
  BY DEF Loop
<1> DEFINE flags == [c \in Contact |-> Pressed(c, t)]
<1>3. UNCHANGED <<dryDoor, openClose, place, told>> /\ stage' = t
  BY <1>2 DEF Loop
<1>4. flags \in [Contact -> BOOLEAN] /\ \A c \in Contact : flags[c] = Pressed(c, t)
  BY <1>1 DEF DryTypeOK, Pressed
<1>5. short' \in BOOLEAN
  <2>1. \E p \in BOOLEAN : short' = (short \/ p)
    BY <1>2, Zenon
  <2> QED
    BY <1>1, <2>1 DEF DryTypeOK
<1>6. lastEnd' \in Contact \cup {"none"}
  BY <1>1, <1>2 DEF DryTypeOK, Contact
<1>7. \A c \in Contact : NextStage(c, stage[c], t[c])
  BY <1>2
<1>8. IF dryDoor
      THEN doorState' = StateNow(flags) /\ contact' = flags /\ was' = flags
           /\ requests' = requests
      ELSE /\ requests' = IF openClose THEN requests \o Asked(flags) ELSE requests
           /\ contact' = IF openClose THEN [c \in Contact |-> FALSE] ELSE flags
           /\ UNCHANGED <<doorState, was>>
  BY <1>2
<1> HIDE DEF flags
<1>9. CASE dryDoor
  <2>1. doorState' \in DoorStates
    BY <1>1, <1>8, <1>9 DEF DryTypeOK, StateNow, DoorStates
  <2>2. requests' = <<>> /\ requests' \in Seq({"open", "close", "toggle"})
        /\ Len(requests') <= MaxRequests + 3
    BY <1>1, <1>8, <1>9 DEF DryTypeOK, RequestsFit
  <2>3. DryTypeOK'
    BY <1>1, <1>3, <1>4, <1>5, <1>6, <1>8, <1>9, <2>1, <2>2 DEF DryTypeOK
  <2> QED
    BY <1>3, <1>9, <2>2, <2>3 DEF DryInv, RequestsFit
<1>10. CASE ~dryDoor
  <2> DEFINE Flag(c) == IF flags[c] THEN 1 ELSE 0
  <2>1. "open" \in Contact /\ "close" \in Contact
    BY DEF Contact
  <2>2. ASSUME NEW c \in Contact
        PROVE  /\ Waiting(c) \in Nat /\ Waiting(c)' \in Nat /\ Flag(c) \in Nat
               /\ IF openClose THEN Flag(c) + Waiting(c)' <= Waiting(c)
                  ELSE Waiting(c)' <= Waiting(c)
    <3>1. NextStage(c, stage[c], t[c])
      BY <1>7
    <3>2. contact'[c] = (IF openClose THEN FALSE ELSE flags[c]) /\ stage' = t /\ place' = place
      BY <1>3, <1>4, <1>8, <1>10
    <3>3. CASE stage[c] = "up" /\ t[c] # "up"
      BY <3>1, <3>2, <3>3 DEF NextStage, Waiting
    <3>4. CASE stage[c] # "up" /\ t[c] = "up"
      <4>1. c \notin place
        BY <3>1, <3>4 DEF NextStage
      <4>2. flags[c] => contact[c]
        BY <1>4, <3>4 DEF Pressed
      <4> QED
        BY <3>2, <4>1, <4>2 DEF Waiting
    <3>5. CASE (stage[c] = "up") = (t[c] = "up")
      <4>1. flags[c] = contact[c]
        BY <1>4, <3>5 DEF Pressed
      <4> QED
        BY <3>2, <3>5, <4>1 DEF Waiting
    <3> QED
      BY <3>3, <3>4, <3>5
  <2>3. Len(requests) + Waiting("open") + Waiting("close") <= MaxRequests + 3
    BY <1>1, <1>10 DEF RequestsFit
  <2>4. Len(requests) \in Nat /\ requests \in Seq({"open", "close", "toggle"})
    BY <1>1, LenProperties DEF DryTypeOK
  <2>5. /\ Waiting("open") \in Nat /\ Waiting("open")' \in Nat /\ Flag("open") \in Nat
        /\ Waiting("close") \in Nat /\ Waiting("close")' \in Nat /\ Flag("close") \in Nat
    BY <2>1, <2>2
  <2>6. /\ requests' \in Seq({"open", "close", "toggle"})
        /\ Len(requests') + Waiting("open")' + Waiting("close")' <= MaxRequests + 3
        /\ Len(requests') <= MaxRequests + 3
    <3>1. CASE openClose
      <4>1. requests' = requests \o Asked(flags)
        BY <1>8, <1>10, <3>1
      <4>2. /\ requests' \in Seq({"open", "close", "toggle"})
            /\ Len(requests') = Len(requests) + Len(Asked(flags))
            /\ Len(Asked(flags)) \in Nat
            /\ Len(Asked(flags)) <= Flag("open") + Flag("close")
        BY <1>4, <2>4, <4>1, AskedAtMost, ConcatProperties, LenProperties
      <4>3. /\ Flag("open") + Waiting("open")' <= Waiting("open")
            /\ Flag("close") + Waiting("close")' <= Waiting("close")
        BY <2>1, <2>2, <3>1
      <4> HIDE DEF Flag
      <4>4. Len(Asked(flags)) + Waiting("open")' + Waiting("close")'
              <= Waiting("open") + Waiting("close")
        BY <2>5, <4>2, <4>3
      <4>5. Len(requests') + Waiting("open")' + Waiting("close")'
              <= Len(requests) + Waiting("open") + Waiting("close")
        BY <2>4, <2>5, <4>2, <4>4, ThreeSums
      <4>6. Len(requests') \in Nat
        BY <4>2, LenProperties
      <4> QED
        BY <2>3, <2>4, <2>5, <4>2, <4>5, <4>6, PartOfSum
    <3>2. CASE ~openClose
      <4>1. requests' = requests
        BY <1>8, <1>10, <3>2
      <4>2. Waiting("open")' <= Waiting("open") /\ Waiting("close")' <= Waiting("close")
        BY <2>1, <2>2, <3>2
      <4> HIDE DEF Flag
      <4> QED
        BY <2>3, <2>4, <2>5, <4>1, <4>2
    <3> QED
      BY <3>1, <3>2
  <2>7. /\ was' \in [Contact -> BOOLEAN] /\ doorState' \in DoorStates
        /\ contact' \in [Contact -> BOOLEAN]
    BY <1>1, <1>4, <1>8, <1>10 DEF DryTypeOK
  <2>8. DryTypeOK'
    BY <1>1, <1>3, <1>5, <1>6, <1>10, <2>6, <2>7 DEF DryTypeOK
  <2> QED
    BY <1>3, <1>10, <2>6, <2>8 DEF DryInv, RequestsFit
<1> QED
  BY <1>9, <1>10

\* Every step of the contacts.
LEMMA DrySteps == MaxRequests \in Nat /\ DryInv /\ [DryNext]_dryVars => DryInv'
<1> SUFFICES ASSUME MaxRequests \in Nat, DryInv, [DryNext]_dryVars PROVE DryInv'
  OBVIOUS
<1>1. DryTypeOK /\ RequestsFit
  BY DEF DryInv
<1>2. requests \in Seq({"open", "close", "toggle"}) /\ Len(requests) \in Nat
  BY <1>1, LenProperties DEF DryTypeOK
<1>3. CASE Loop
  BY <1>3, LoopFits
<1>4. CASE Moves
  <2>1. UNCHANGED <<dryDoor, openClose, stage, contact, was, doorState, told, requests,
                    lastEnd, short>>
    BY <1>4 DEF Moves
  <2>2. place' \subseteq Contact /\ (dryDoor => place' # Contact)
    <3>1. place' \in IF dryDoor THEN (IF place = {} THEN {{"open"}, {"close"}} ELSE {{}})
                     ELSE SUBSET Contact \ {place}
      BY <1>4 DEF Moves
    <3>2. CASE dryDoor /\ place = {}
      <4>1. place' = {"open"} \/ place' = {"close"}
        BY <3>1, <3>2
      <4> QED
        BY <4>1 DEF Contact
    <3>3. CASE dryDoor /\ place # {}
      <4>1. place' = {}
        BY <3>1, <3>3
      <4> QED
        BY <4>1 DEF Contact
    <3>4. CASE ~dryDoor
      BY <3>1, <3>4
    <3> QED
      BY <3>2, <3>3, <3>4
  <2>3. ~dryDoor => Len(requests) < MaxRequests
    BY <1>4 DEF Moves
  <2>4. Waiting("open")' \in {0, 1, 2} /\ Waiting("close")' \in {0, 1, 2}
    BY DEF Waiting
  <2>5. ~dryDoor => Len(requests) + Waiting("open")' + Waiting("close")' <= MaxRequests + 3
    BY <1>2, <2>3, <2>4
  <2>6. DryTypeOK'
    BY <1>1, <2>1, <2>2 DEF DryTypeOK
  <2>7. RequestsFit'
    BY <1>1, <2>1, <2>5 DEF RequestsFit
  <2> QED
    BY <2>6, <2>7 DEF DryInv
<1>5. CASE Tell \/ SetOpenClose \/ UNCHANGED dryVars
  <2>1. UNCHANGED <<dryDoor, place, stage, contact, was, doorState, requests, lastEnd, short>>
        /\ told' \in {told, doorState} /\ openClose' \in {openClose, ~openClose}
    BY <1>5 DEF Tell, SetOpenClose, dryVars
  <2>2. DryTypeOK'
    BY <1>1, <2>1 DEF DryTypeOK
  <2>3. RequestsFit'
    BY <1>1, <2>1 DEF RequestsFit, Waiting
  <2> QED
    BY <2>2, <2>3 DEF DryInv
<1>6. CASE Done
  <2>1. UNCHANGED <<dryDoor, openClose, place, stage, contact, was, doorState, told,
                    lastEnd, short>>
        /\ requests' = <<>>
    BY <1>6 DEF Done
  <2>2. requests' \in Seq({"open", "close", "toggle"}) /\ Len(requests') = 0
    BY <2>1
  <2>3. DryTypeOK'
    BY <1>1, <2>1, <2>2 DEF DryTypeOK
  <2>4. /\ Waiting("open")' = Waiting("open") /\ Waiting("open") \in {0, 1, 2}
        /\ Waiting("close")' = Waiting("close") /\ Waiting("close") \in {0, 1, 2}
    BY <2>1 DEF Waiting
  <2>5. RequestsFit'
    BY <1>1, <1>2, <2>1, <2>2, <2>4 DEF RequestsFit
  <2> QED
    BY <2>3, <2>5 DEF DryInv
<1> QED
  BY <1>3, <1>4, <1>5, <1>6 DEF DryNext

\* The contacts have their types, and nothing is asked for without a press:
\* drycontact_loop.
THEOREM DryTyped == ASSUME MaxRequests \in Nat PROVE DrySpec => []DryTypeOK
<1>1. DryInv => DryTypeOK
  BY DEF DryInv
<1> QED
  BY <1>1, DryStarts, DrySteps, PTL DEF DrySpec

\* Whichever unit is at work, each keeps its types, for all sizes of the ring, of the
\* history and of the clock.
THEOREM DoorSideTyped == ASSUME MaxRequests \in Nat PROVE MCSpec => []UnitsTypeOK
<1> DEFINE UnitsInv == AlertsInv /\ DryInv /\ TimesInv /\ LogInv
           units    == <<unit, vars, dryVars, timesVars, ringVars>>
<1>1. MCInit => UnitsInv
  BY AlertsStarts, DryStarts, TimesStart, LogStarts DEF MCInit
<1>2. UnitsInv /\ [MCNext]_units => UnitsInv'
  <2> SUFFICES ASSUME UnitsInv, [MCNext]_units PROVE UnitsInv'
    OBVIOUS
  <2>1. [Next]_vars /\ [DryNext]_dryVars /\ [TimesNext]_timesVars /\ [RingNext]_ringVars
    BY DEF MCNext
  <2> QED
    BY <2>1, AlertsSteps, DrySteps, TimesStep, LogSteps
<1>3. UnitsInv => UnitsTypeOK
  <2>1. LogInv => RingTypeOK
    BY RingFits
  <2> QED
    BY <2>1 DEF AlertsInv, DryInv, TimesInv, UnitsTypeOK
<1> QED
  BY <1>1, <1>2, <1>3, PTL DEF MCSpec
=============================================================================
