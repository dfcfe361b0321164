---------------------------- MODULE DoorControl ----------------------------
(***************************************************************************)
(* The door logic of comms.cpp on a Security+ 2.0 opener: requests from    *)
(* HomeKit, the web page and hardwired buttons become door commands; status*)
(* packets become the state that is reported; stop-then-reverse, the two   *)
(* watch timers, the time-to-close (TTC) delay and the partial opening     *)
(* hold requests back until later.                                         *)
(*                                                                         *)
(* Handlers of the cooperative loop do not yield, so each is one step.     *)
(* Between them come timer callbacks (Ticker) and functions a timer has    *)
(* handed to the loop (schedule_recurrent_function_us); a detached timer   *)
(* no longer fires, but a function already handed over still runs.  The    *)
(* length of a delay is abstracted: an armed timer may fire at any time.   *)
(*                                                                         *)
(* A door command is one element of txq, press and release together, and   *)
(* the packets of other commands are left out (Sec2Tx models the queue).   *)
(* A request that the code ignores changes nothing and is no step.         *)
(***************************************************************************)
EXTENDS Naturals, Sequences

CONSTANTS UseToggle,       \* userConfig: close with a toggle (BOOLEAN)
          ReverseOnStop,   \* userConfig: reverse a moving door (BOOLEAN)
          KnownDurations,  \* open and close durations have been measured
          TTCTicks,        \* TTC delay in ticks of TTCinterval, 0 if none
          TxLen,           \* bound of the model: commands in the queue
          RxLen            \* bound of the model: packets on their way back

ASSUME DoorControlAssumption ==
    /\ UseToggle \in BOOLEAN
    /\ ReverseOnStop \in BOOLEAN
    /\ KnownDurations \in BOOLEAN
    /\ TTCTicks \in Nat
    /\ TxLen \in Nat \ {0}
    /\ RxLen \in Nat \ {0}

VARIABLES
    door,       \* where the real door is
    txq,        \* door commands queued for the opener
    rx,         \* packets from the opener, not handled yet
    current,    \* garage_door.current_state
    target,     \* garage_door.target_state
    pending,    \* pendingDoorCommand
    pinSensor,  \* garage_door.pinModeObstructionSensor
    moving,     \* checkDoorMoving: "off", or the direction it watches
    completed,  \* checkDoorCompleted, likewise
    stopOpen,   \* stopSentOpenPending: "none", "fresh" (< 2 s old) or "late"
    stopClose,  \* stopSentClosePending, likewise
    partial,    \* openPartialDelay is armed
    ttc,        \* TTCtimer is active
    ticks,      \* TTCiterations
    tickDue,    \* TTCtimerFn has been handed to the loop
    delayOver,  \* callbackDelay is armed
    closeDue    \* door_command_close has been handed to the loop

\* History: whether the last state the opener reported is CLOSED, and whether
\* open_door has cancelled the delay of the last close request.
VARIABLES heardClosed, cancelled

report   == <<current, target>>
watches  == <<moving, completed>>
reversal == <<stopOpen, stopClose>>
countdown == <<ttc, ticks>>
delayed  == <<tickDue, delayOver, closeDue>>
history  == <<heardClosed, cancelled>>
vars == <<door, txq, rx, report, pending, pinSensor, watches, reversal,
          partial, countdown, delayed, history>>

State  == {"OPEN", "CLOSED", "OPENING", "CLOSING", "STOPPED"}
Packet == State \cup {"UNKNOWN", "MOTOR"}   \* a status, or MotorOn
Action == {"Open", "Close", "Toggle", "Stop"}
Watch  == {"off", "open", "close"}
Age    == {"none", "fresh", "late"}

TypeOK ==
    /\ door \in State
    /\ txq \in Seq(Action) /\ Len(txq) <= TxLen
    /\ rx \in Seq(Packet) /\ Len(rx) <= RxLen
    /\ current \in State \cup {"UNKNOWN"}
    /\ target \in {"OPEN", "CLOSED", "UNKNOWN"}
    /\ pending \in BOOLEAN
    /\ pinSensor \in BOOLEAN
    /\ moving \in Watch /\ completed \in Watch
    /\ stopOpen \in Age /\ stopClose \in Age
    /\ partial \in BOOLEAN
    /\ ttc \in BOOLEAN
    /\ ticks \in 0..TTCTicks
    /\ tickDue \in BOOLEAN
    /\ delayOver \in BOOLEAN
    /\ closeDue \in BOOLEAN
    /\ heardClosed \in BOOLEAN
    /\ cancelled \in BOOLEAN

Init ==
    /\ door \in {"OPEN", "CLOSED", "STOPPED"}
    /\ txq = <<>> /\ rx = <<>>
    /\ current = "UNKNOWN" /\ target = "UNKNOWN"
    /\ pending = FALSE /\ pinSensor = FALSE
    /\ moving = "off" /\ completed = "off"
    /\ stopOpen = "none" /\ stopClose = "none"
    /\ partial = FALSE
    /\ ttc = FALSE /\ ticks = 0
    /\ tickDue = FALSE /\ delayOver = FALSE /\ closeDue = FALSE
    /\ heardClosed = FALSE /\ cancelled = FALSE
-----------------------------------------------------------------------------
(* Issuing commands.  A pair [txq, pending] stands for the queue and        *)
(* pendingDoorCommand, so that commands can be issued one after another.    *)

Outgoing == [txq |-> txq, pending |-> pending]

\* (mutant) The queue takes every command.
CommandPastFull(o, a) ==
    IF o.pending THEN o ELSE [txq |-> Append(o.txq, a), pending |-> TRUE]

\* door_command: dropped while another command is pending or the queue is full.
Command(o, a) ==
    IF o.pending \/ Len(o.txq) = TxLen
    THEN o
    ELSE [txq |-> Append(o.txq, a), pending |-> TRUE]

\* What door_command_close sends: Close when an obstruction sensor is wired to
\* the board, else a Toggle if the door is thought to be open or stopped.
CloseCommand(o) ==
    IF pinSensor /\ ~UseToggle THEN Command(o, "Close")
    ELSE IF current \in {"OPEN", "STOPPED"} THEN Command(o, "Toggle")
    ELSE o

Issue(o) == txq' = o.txq /\ pending' = o.pending

\* door_command_open and door_command_close arm both watch timers, whether or
\* not the command was queued, and cancel a partial opening.
WatchFor(direction) ==
    /\ moving' = direction
    /\ completed' = IF KnownDurations THEN direction ELSE completed
    /\ partial' = FALSE

DoorCommandOpen  == Issue(Command(Outgoing, "Open")) /\ WatchFor("open")
DoorCommandClose == Issue(CloseCommand(Outgoing)) /\ WatchFor("close")

\* The stop half of a request that finds the door moving.
DoorCommandStop ==
    /\ Issue(Command(Outgoing, "Stop"))
    /\ moving' = "off" /\ completed' = "off"
-----------------------------------------------------------------------------
(* update_door_state.                                                       *)

TargetOf(s) ==
    IF s \in {"OPEN", "OPENING"} THEN "OPEN"
    ELSE IF s \in {"CLOSED", "CLOSING"} THEN "CLOSED"
    ELSE IF s = "STOPPED" /\ current = "CLOSING" THEN "CLOSED"
    ELSE IF s = "STOPPED" /\ current = "OPENING" THEN "OPEN"
    ELSE target

\* Is HomeKit told?  The mutant wants both states to differ.
BothChanged(s) == TargetOf(s) # target /\ s # current   \* (mutant)
Changed(s) == TargetOf(s) # target \/ s # current

Report(s) ==
    IF Changed(s) THEN current' = s /\ target' = TargetOf(s)
    ELSE UNCHANGED report

\* A new state means that no command is pending any more.
StillPending == [txq |-> txq, pending |-> pending]   \* (mutant) forgets that
Answered == [txq |-> txq, pending |-> FALSE]

\* The answer to our stop came within two seconds: reverse.  Both calls are
\* made for a Security+ 2.0 door; the first leaves its command pending.
FollowUp ==
    /\ "fresh" \in {stopOpen, stopClose}
    /\ IF stopOpen # "none"
       THEN /\ Issue(Command(Command(Answered, "Open"), "Open"))
            /\ WatchFor("open")
       ELSE /\ Issue(CloseCommand(CloseCommand(Answered)))
            /\ WatchFor("close")

NoFollowUp ==
    /\ "fresh" \notin {stopOpen, stopClose}
    /\ Issue(Answered)
    /\ moving' = "off" /\ completed' = "off"
    /\ UNCHANGED partial

UpdateDoorState(s) ==
    /\ Report(s)
    /\ IF s = "STOPPED"
       THEN /\ FollowUp \/ NoFollowUp
            /\ stopOpen' = "none" /\ stopClose' = "none"
       ELSE /\ Issue(Answered)
            /\ moving' = "off"
            /\ completed' = IF s \in {"OPEN", "CLOSED"} THEN "off" ELSE completed
            /\ UNCHANGED <<partial, reversal>>
    /\ ttc' = (ttc /\ s # "CLOSING")
    /\ UNCHANGED ticks

\* A packet is handled: a status, or the MotorOn that may stand in for a missed
\* one.  MotorOn says nothing new about a door that is not open or closed.
RxStateOf(states) ==
    /\ rx # <<>> /\ Head(rx) \in states
    /\ rx' = Tail(rx)
    /\ heardClosed' = (Head(rx) = "CLOSED")
    /\ UpdateDoorState(Head(rx))
    /\ UNCHANGED <<door, pinSensor, delayed, cancelled>>

RxStatus == RxStateOf(State)

\* A status whose door state the code does not know.
RxUnknown == RxStateOf({"UNKNOWN"})

RxMotorOn ==
    /\ rx # <<>> /\ Head(rx) = "MOTOR"
    /\ rx' = Tail(rx)
    /\ \/ current = "OPEN" /\ UpdateDoorState("CLOSING")
       \/ current = "CLOSED" /\ UpdateDoorState("OPENING")
       \/ /\ current \notin {"OPEN", "CLOSED"}
          /\ UNCHANGED <<report, txq, pending, watches, reversal, partial, countdown>>
    /\ UNCHANGED <<door, pinSensor, delayed, history>>
-----------------------------------------------------------------------------
(* Requests.                                                                *)

\* open_door during the TTC delay only cancels the delay.
OpenCancelsDelay ==
    /\ ttc
    /\ ttc' = FALSE
    /\ cancelled' = TRUE
    /\ UNCHANGED <<door, txq, rx, report, pending, pinSensor, watches, reversal,
                   partial, ticks, delayed, heardClosed>>

\* (mutant) Leaves an earlier wish to close standing.
OpenReversesOnly ==
    /\ ~ttc /\ current = "CLOSING"
    /\ DoorCommandStop
    /\ IF ReverseOnStop THEN stopOpen' = "fresh" ELSE UNCHANGED stopOpen
    /\ UNCHANGED <<door, rx, report, pinSensor, stopClose, partial, countdown,
                   delayed, history>>

\* open_door while closing: stop, and open once the door has stopped.
OpenReverses ==
    /\ ~ttc /\ current = "CLOSING"
    /\ DoorCommandStop
    /\ IF ReverseOnStop THEN stopOpen' = "fresh" /\ stopClose' = "none"
       ELSE UNCHANGED reversal
    /\ UNCHANGED <<door, rx, report, pinSensor, partial, countdown, delayed,
                   history>>

OpenDoor ==
    /\ ~ttc /\ current \notin {"OPEN", "OPENING", "CLOSING"}
    /\ DoorCommandOpen
    /\ UNCHANGED <<door, rx, report, pinSensor, reversal, countdown, delayed,
                   history>>

\* open_door_partial from a closed door: the stop comes after part of the
\* opening time.  For a very short opening the door is reported as opening at
\* once and the check that it moves is dropped.
OpenPartial ==
    /\ KnownDurations /\ current = "CLOSED"
    /\ \/ /\ Issue(Command(Outgoing, "Open"))
          /\ moving' = "open"
          /\ UNCHANGED report
       \/ /\ Issue([Command(Outgoing, "Open") EXCEPT !.pending = FALSE])
          /\ moving' = "off"
          /\ Report("OPENING")
    /\ completed' = "open"
    /\ partial' = TRUE
    /\ UNCHANGED <<door, rx, pinSensor, reversal, countdown, delayed, history>>

StopDoor ==
    /\ current \in {"OPENING", "CLOSING"}
    /\ DoorCommandStop
    /\ UNCHANGED <<door, rx, report, pinSensor, reversal, partial, countdown,
                   delayed, history>>

\* close_door while opening: stop, and close once the door has stopped.
CloseReverses ==
    /\ current = "OPENING"
    /\ DoorCommandStop
    /\ IF ReverseOnStop THEN stopClose' = "fresh" /\ stopOpen' = "none"
       ELSE UNCHANGED reversal
    /\ cancelled' = FALSE
    /\ UNCHANGED <<door, rx, report, pinSensor, partial, countdown, delayed,
                   heardClosed>>

\* close_door without a delay: none is configured, or a hardwired button
\* bypasses it (and cancels one that is running).
CloseNow ==
    /\ current \notin {"CLOSED", "CLOSING", "OPENING"}
    /\ \E bypass \in BOOLEAN :
         /\ bypass \/ TTCTicks = 0
         /\ ttc' = (ttc /\ ~bypass)
    /\ DoorCommandClose
    /\ cancelled' = FALSE
    /\ UNCHANGED <<door, rx, report, pinSensor, reversal, ticks, delayed,
                   heardClosed>>

\* (mutant) A second close request starts the delay again.
RestartDelay ==
    /\ current \notin {"CLOSED", "CLOSING", "OPENING"}
    /\ TTCTicks > 0
    /\ ttc' = TRUE
    /\ ticks' = TTCTicks
    /\ cancelled' = FALSE
    /\ UNCHANGED <<door, txq, rx, report, pending, pinSensor, watches, reversal,
                   partial, delayed, heardClosed>>

\* close_door with a delay starts it; a second request lets it run on.
StartDelay ==
    /\ current \notin {"CLOSED", "CLOSING", "OPENING"}
    /\ TTCTicks > 0 /\ ~ttc
    /\ ttc' = TRUE
    /\ ticks' = TTCTicks
    /\ cancelled' = FALSE
    /\ UNCHANGED <<door, txq, rx, report, pending, pinSensor, watches, reversal,
                   partial, delayed, heardClosed>>

ToggleDoor ==
    /\ Issue(Command(Outgoing, "Toggle"))
    /\ ttc' = FALSE
    /\ cancelled' = FALSE
    /\ UNCHANGED <<door, rx, report, pinSensor, watches, reversal, partial,
                   ticks, delayed, heardClosed>>

Ask == \/ OpenCancelsDelay \/ OpenReverses \/ OpenDoor \/ OpenPartial
       \/ StopDoor \/ CloseReverses \/ CloseNow \/ StartDelay \/ ToggleDoor
-----------------------------------------------------------------------------
(* Timers.                                                                  *)

\* TTCtimer fires: the timer hands TTCtimerFn to the loop ...
Tick ==
    /\ ttc /\ ~tickDue
    /\ tickDue' = TRUE
    /\ UNCHANGED <<door, txq, rx, report, pending, pinSensor, watches, reversal,
                   partial, countdown, delayOver, closeDue, history>>

\* ... which counts down, and at the end arms callbackDelay.
TTCtimerFn ==
    /\ tickDue
    /\ tickDue' = FALSE
    /\ \/ /\ ticks > 0
          /\ ticks' = ticks - 1
          /\ UNCHANGED <<ttc, delayOver>>
       \/ /\ ticks = 0
          /\ ttc' = FALSE
          /\ delayOver' = TRUE
          /\ UNCHANGED ticks
    /\ UNCHANGED <<door, txq, rx, report, pending, pinSensor, watches, reversal,
                   partial, closeDue, history>>

CallbackDelay ==
    /\ delayOver
    /\ delayOver' = FALSE
    /\ closeDue' = TRUE
    /\ UNCHANGED <<door, txq, rx, report, pending, pinSensor, watches, reversal,
                   partial, countdown, tickDue, history>>

DelayedClose ==
    /\ closeDue
    /\ closeDue' = FALSE
    /\ DoorCommandClose
    /\ UNCHANGED <<door, rx, report, pinSensor, reversal, countdown, tickDue,
                   delayOver, history>>

PartialStop ==
    /\ partial
    /\ partial' = FALSE
    /\ Issue(Command(Outgoing, "Stop"))
    /\ UNCHANGED <<door, rx, report, pinSensor, watches, reversal, countdown,
                   delayed, history>>

\* checkDoorMoving: three seconds and no status.  The state is reported again.
DidNotMove ==
    /\ moving # "off"
    /\ moving' = "off" /\ completed' = "off"
    /\ pending' = FALSE
    /\ UNCHANGED <<door, txq, rx, report, pinSensor, reversal, partial,
                   countdown, delayed, history>>

\* (mutant) A close that should be complete is taken to be complete.
NotConfirmedIsClosed ==
    /\ completed # "off" /\ moving = "off"
    /\ completed' = "off"
    /\ pending' = FALSE
    /\ current' = IF completed = "open" THEN "OPEN" ELSE "CLOSED"
    /\ target' = current'
    /\ UNCHANGED <<door, txq, rx, pinSensor, moving, reversal, partial,
                   countdown, delayed, history>>

\* checkDoorCompleted: an opening is taken to be complete, a closing is not.
\* It is armed with checkDoorMoving and for longer, so that one fires first.
NotConfirmed ==
    /\ completed # "off" /\ moving = "off"
    /\ completed' = "off"
    /\ pending' = FALSE
    /\ IF completed = "open" THEN current' = "OPEN" /\ target' = "OPEN"
       ELSE UNCHANGED report
    /\ UNCHANGED <<door, txq, rx, pinSensor, moving, reversal, partial,
                   countdown, delayed, history>>

\* Two seconds pass after a stop.
StopAnswerLate ==
    /\ "fresh" \in {stopOpen, stopClose}
    /\ stopOpen' = IF stopOpen = "fresh" THEN "late" ELSE stopOpen
    /\ stopClose' = IF stopClose = "fresh" THEN "late" ELSE stopClose
    /\ UNCHANGED <<door, txq, rx, report, pending, pinSensor, watches, partial,
                   countdown, delayed, history>>

\* Pulses of a wired obstruction sensor are seen for the first time.
PinDetected ==
    /\ ~pinSensor
    /\ pinSensor' = TRUE
    /\ UNCHANGED <<door, txq, rx, report, pending, watches, reversal, partial,
                   countdown, delayed, history>>

Timer == \/ Tick \/ TTCtimerFn \/ CallbackDelay \/ DelayedClose \/ PartialStop
         \/ DidNotMove \/ NotConfirmed \/ StopAnswerLate \/ PinDetected
-----------------------------------------------------------------------------
(* The opener and the bus.                                                  *)

\* Where the door may go on a command.
Obeys(a, d) ==
    IF a = "Toggle" /\ d = "STOPPED" THEN {"OPENING", "CLOSING"}
    ELSE IF a \in {"Stop", "Toggle"} /\ d \in {"OPENING", "CLOSING"} THEN {"STOPPED"}
    ELSE IF \/ a = "Open" /\ d \notin {"OPEN", "OPENING"}
            \/ a = "Toggle" /\ d = "CLOSED"
         THEN {"OPENING"}
    ELSE IF \/ a = "Close" /\ d \notin {"CLOSED", "CLOSING"}
            \/ a = "Toggle" /\ d = "OPEN"
         THEN {"CLOSING"}
    ELSE {d}

\* The opener announces the new state; a MotorOn packet goes with a start.
\* What does not fit (or is lost, LosePacket) is never heard.
Goes(d) ==
    /\ door' = d
    /\ \E m \in {d} \cup (IF d \in {"OPENING", "CLOSING"} THEN {"MOTOR"} ELSE {}) :
         rx' = IF Len(rx) < RxLen THEN Append(rx, m) ELSE rx

firmware == <<report, pending, pinSensor, watches, reversal, partial, countdown,
              delayed, history>>

OpenerObeys ==
    /\ txq # <<>>
    /\ txq' = Tail(txq)
    /\ \E d \in Obeys(Head(txq), door) :
         IF d = door THEN UNCHANGED <<door, rx>> ELSE Goes(d)
    /\ UNCHANGED firmware

\* A command is given up after MAX_COMMS_RETRY collisions.
CommandLost ==
    /\ txq # <<>>
    /\ txq' = Tail(txq)
    /\ UNCHANGED <<door, rx, firmware>>

\* The door reaches its limit, or an obstruction reverses it.
DoorMoves ==
    /\ \/ door = "OPENING" /\ Goes("OPEN")
       \/ door = "CLOSING" /\ Goes("CLOSED")
       \/ door = "CLOSING" /\ Goes("OPENING")
    /\ UNCHANGED <<txq, firmware>>

WallButton ==
    /\ \E d \in Obeys("Toggle", door) : Goes(d)
    /\ UNCHANGED <<txq, firmware>>

\* The opener answers a status query or repeats its status.
Sends(s) ==
    /\ Len(rx) < RxLen
    /\ rx' = Append(rx, s)
    /\ UNCHANGED <<door, txq, firmware>>

StatusSent == Sends(door)

\* The opener does not know its state itself.
UnknownSent == Sends("UNKNOWN")

LosePacket ==
    /\ rx # <<>>
    /\ rx' = Tail(rx)
    /\ UNCHANGED <<door, txq, firmware>>

Opener == \/ OpenerObeys \/ CommandLost \/ DoorMoves \/ WallButton
          \/ StatusSent \/ UnknownSent \/ LosePacket

Next == RxStatus \/ RxUnknown \/ RxMotorOn \/ Ask \/ Timer \/ Opener

Spec == Init /\ [][Next]_vars

\* The loop handles what arrives.  The opener is asked for its status at least
\* every five minutes for ever; of the answers some are sent and some arrive.
FairSpec ==
    /\ Spec
    /\ SF_vars(RxStatus) /\ WF_vars(RxUnknown \/ RxMotorOn)
    /\ SF_vars(StatusSent)

\* A periodic timer keeps firing, and what it hands to the loop runs.
FairTimer == Spec /\ WF_vars(Tick) /\ WF_vars(TTCtimerFn)
-----------------------------------------------------------------------------
(* Properties.                                                              *)

\* "A missing completion message is not proof of closure": the door is reported
\* closed only while the opener's own last word is that it is.
ClosedIsHeard == current = "CLOSED" => heardClosed

\* "One or other of these will always be zero": at most one reversal is waiting
\* for its stop, whatever requests and reports came before.
OneReversal == stopOpen = "none" \/ stopClose = "none"

Stopped == RxStatus /\ Head(rx) = "STOPPED"
Room    == Len(txq) < TxLen

\* Commands a have been queued, and nothing else.
GoesOut(a) ==
    /\ Len(txq') > Len(txq)
    /\ \A i \in (Len(txq) + 1)..Len(txq') : txq'[i] = a

\* A reversal whose stop is answered in time goes out, even if the command that
\* stopped the door is still pending: an opening always, a closing when the
\* board can send Close.  (How often it should is ReversalSentTwice.)
ReversalGoesOut ==
    [][Stopped /\ Room =>
          /\ stopOpen = "fresh" => GoesOut("Open")
          /\ stopClose = "fresh" /\ pinSensor /\ ~UseToggle => GoesOut("Close")]_vars

\* A pending command never shuts out later ones for good.
NeverShutOut == pending ~> ~pending

\* Once the door stays where it is, the firmware comes to report that, again
\* and again: no lost packet, assumption or faked state is final.
ReportCatchesUp ==
    \A d \in {"OPEN", "CLOSED"} :
        <>[](door = d) => []<>(current = d /\ target = d)

\* The TTC delay comes to an end, also when close is requested again and again
\* ("TTC will continue").
DelayEnds == ttc ~> ~ttc
-----------------------------------------------------------------------------
(* What comments and the README say of the same code.                       *)

CloseQueued == txq' = Append(txq, "Close")

\* open_door: "Effect of open is to cancel the timeout (leaving door open)".
OpenLeavesDoorOpen == [][CloseQueued => ~cancelled']_vars

\* update_door_state: "Sec+2.0 doors seem to require the command to be sent twice
\* immediately after a stop", where the queue has room for both.
ReversalSentTwice ==
    [][Stopped /\ Len(txq) + 2 <= TxLen /\ stopOpen = "fresh"
         => txq' = txq \o <<"Open", "Open">>]_vars

\* README: "stopping the door and then immediately reversing it".
CloseReversalGoesOut ==
    [][Stopped /\ Room /\ stopClose = "fresh" => txq' # txq]_vars
=============================================================================
