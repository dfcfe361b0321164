-------------------------- MODULE DoorControlProofs --------------------------
(***************************************************************************)
(* Theorems about DoorControl, for queues of any length and every choice of*)
(* the settings: types, the two claims comments make about the reported    *)
(* state and about reversals, and that a reversal goes out.                *)
(***************************************************************************)
EXTENDS DoorControl, TLAPS

\* A queue and a pending flag of the right types.
OutgoingOK(o) ==
    o.txq \in Seq(Action) /\ Len(o.txq) <= TxLen /\ o.pending \in BOOLEAN

\* The inductive invariant.
DoorInv == TypeOK /\ ClosedIsHeard /\ OneReversal
-----------------------------------------------------------------------------
(* Commands.                                                                *)

\* A command leaves the queue within its length.
LEMMA CommandKeeps ==
    ASSUME NEW o, OutgoingOK(o), NEW a \in Action
    PROVE  OutgoingOK(Command(o, a))
<1>1. CASE Command(o, a) = o
  BY <1>1
<1>2. CASE Len(o.txq) # TxLen /\ Command(o, a) = [txq |-> Append(o.txq, a), pending |-> TRUE]
  <2>1. /\ Append(o.txq, a) \in Seq(Action)
        /\ Len(Append(o.txq, a)) <= TxLen
    BY <1>2, DoorControlAssumption DEF OutgoingOK
  <2> QED
    BY <1>2, <2>1 DEF OutgoingOK
<1> QED
  BY <1>1, <1>2, Zenon DEF Command

\* So does what door_command_close sends.
LEMMA CloseCommandKeeps ==
    ASSUME NEW o, OutgoingOK(o)
    PROVE  OutgoingOK(CloseCommand(o))
<1>1. OutgoingOK(Command(o, "Close")) /\ OutgoingOK(Command(o, "Toggle"))
  BY CommandKeeps DEF Action
<1> QED
  BY <1>1, Zenon DEF CloseCommand

\* The queue, and the queue when a report has come.
LEMMA OutgoingTypes ==
    ASSUME TypeOK
    PROVE  OutgoingOK(Outgoing) /\ OutgoingOK(Answered)
BY DEF TypeOK, OutgoingOK, Outgoing, Answered

\* What is issued is within its types.
LEMMA Issued ==
    ASSUME NEW o, OutgoingOK(o), Issue(o)
    PROVE  txq' \in Seq(Action) /\ Len(txq') <= TxLen /\ pending' \in BOOLEAN
BY Zenon DEF OutgoingOK, Issue

\* The two watches and the partial opening after door_command_open and _close.
LEMMA Watched ==
    ASSUME TypeOK, NEW d \in {"open", "close"}, WatchFor(d)
    PROVE  moving' \in Watch /\ completed' \in Watch /\ partial' \in BOOLEAN
BY DoorControlAssumption DEF TypeOK, WatchFor, Watch

\* Conjuncts of TypeOK about what requests, reports and timers command.
CommandTypes ==
    /\ txq \in Seq(Action) /\ Len(txq) <= TxLen /\ pending \in BOOLEAN
    /\ moving \in Watch /\ completed \in Watch /\ partial \in BOOLEAN

\* The commands of requests and timers.
LEMMA CommandTypesKept ==
    ASSUME TypeOK,
           \/ DoorCommandOpen \/ DoorCommandClose
           \/ DoorCommandStop /\ partial' = partial
    PROVE  CommandTypes'
<1>1. OutgoingOK(Outgoing)
  BY OutgoingTypes
<1>2. CASE DoorCommandOpen
  <2>1. OutgoingOK(Command(Outgoing, "Open"))
    BY <1>1, CommandKeeps DEF Action
  <2> QED
    BY <1>2, <2>1, Issued, Watched DEF DoorCommandOpen, CommandTypes
<1>3. CASE DoorCommandClose
  <2>1. OutgoingOK(CloseCommand(Outgoing))
    BY <1>1, CloseCommandKeeps
  <2> QED
    BY <1>3, <2>1, Issued, Watched DEF DoorCommandClose, CommandTypes
<1>4. CASE DoorCommandStop /\ partial' = partial
  <2>1. OutgoingOK(Command(Outgoing, "Stop"))
    BY <1>1, CommandKeeps DEF Action
  <2>2. moving' \in Watch /\ completed' \in Watch /\ partial' \in BOOLEAN
    BY <1>4 DEF DoorCommandStop, TypeOK, Watch
  <2> QED
    BY <1>4, <2>1, <2>2, Issued DEF DoorCommandStop, CommandTypes
<1> QED
  BY <1>2, <1>3, <1>4
-----------------------------------------------------------------------------
(* Reports.                                                                 *)

\* Whether or not HomeKit is told, the reported state is the one handed over.
LEMMA ReportIs ==
    ASSUME TypeOK, NEW s \in State \cup {"UNKNOWN"}, Report(s)
    PROVE  /\ current' = s
           /\ target' \in {"OPEN", "CLOSED", "UNKNOWN"}
<1>1. TargetOf(s) \in {"OPEN", "CLOSED", "UNKNOWN"}
  BY DEF TypeOK, TargetOf
<1> QED
  BY <1>1 DEF TypeOK, Report, Changed, report

\* update_door_state keeps the types, reports the state, and leaves at most one
\* reversal waiting.
LEMMA UpdateKeeps ==
    ASSUME DoorInv, NEW s \in State \cup {"UNKNOWN"}, UpdateDoorState(s)
    PROVE  /\ CommandTypes'
           /\ current' = s /\ target' \in {"OPEN", "CLOSED", "UNKNOWN"}
           /\ stopOpen' \in Age /\ stopClose' \in Age /\ OneReversal'
           /\ ttc' \in BOOLEAN /\ ticks' = ticks
<1>0. TypeOK /\ OneReversal
  BY DEF DoorInv
<1>1. current' = s /\ target' \in {"OPEN", "CLOSED", "UNKNOWN"}
  BY <1>0, ReportIs DEF UpdateDoorState
<1>2. ttc' \in BOOLEAN /\ ticks' = ticks
  BY <1>0 DEF UpdateDoorState, TypeOK
<1>3. OutgoingOK(Answered)
  BY <1>0, OutgoingTypes
<1>4. CASE s = "STOPPED"
  <2>1. stopOpen' = "none" /\ stopClose' = "none" /\ (FollowUp \/ NoFollowUp)
    BY <1>4 DEF UpdateDoorState
  <2>2. stopOpen' \in Age /\ stopClose' \in Age /\ OneReversal'
    BY <2>1 DEF Age, OneReversal
  <2>3. CASE FollowUp
    <3>1. OutgoingOK(Command(Command(Answered, "Open"), "Open"))
      BY <1>3, CommandKeeps DEF Action
    <3>2. OutgoingOK(CloseCommand(CloseCommand(Answered)))
      BY <1>3, CloseCommandKeeps
    <3>3. CASE stopOpen # "none"
      <4>1. Issue(Command(Command(Answered, "Open"), "Open")) /\ WatchFor("open")
        BY <2>3, <3>3 DEF FollowUp
      <4>2. CommandTypes'
        BY <1>0, <3>1, <4>1, Issued, Watched DEF CommandTypes
      <4> QED
        BY <1>1, <1>2, <2>2, <4>2
    <3>4. CASE stopOpen = "none"
      <4>1. Issue(CloseCommand(CloseCommand(Answered))) /\ WatchFor("close")
        BY <2>3, <3>4 DEF FollowUp
      <4>2. CommandTypes'
        BY <1>0, <3>2, <4>1, Issued, Watched DEF CommandTypes
      <4> QED
        BY <1>1, <1>2, <2>2, <4>2
    <3> QED
      BY <3>3, <3>4
  <2>4. CASE NoFollowUp
    <3>1. Issue(Answered)
      BY <2>4 DEF NoFollowUp
    <3>2. moving' \in Watch /\ completed' \in Watch /\ partial' \in BOOLEAN
      BY <1>0, <2>4 DEF NoFollowUp, Watch, TypeOK
    <3> QED
      BY <1>1, <1>2, <1>3, <2>2, <3>1, <3>2, Issued DEF CommandTypes
  <2> QED
    BY <2>1, <2>3, <2>4
<1>5. CASE s # "STOPPED"
  <2>1. Issue(Answered) /\ UNCHANGED <<partial, stopOpen, stopClose>>
    BY <1>5 DEF UpdateDoorState, reversal
  <2>2. moving' \in Watch /\ completed' \in Watch /\ partial' \in BOOLEAN
    BY <1>0, <1>5 DEF UpdateDoorState, Watch, TypeOK
  <2>3. stopOpen' \in Age /\ stopClose' \in Age /\ OneReversal'
    BY <1>0, <2>1 DEF TypeOK, OneReversal
  <2> QED
    BY <1>1, <1>2, <1>3, <2>1, <2>2, <2>3, Issued DEF CommandTypes
<1> QED
  BY <1>4, <1>5

\* A packet is handled.
LEMMA ReceivedKeeps ==
    ASSUME DoorInv, RxStatus \/ RxUnknown \/ RxMotorOn
    PROVE  DoorInv'
<1>0. TypeOK /\ ClosedIsHeard /\ OneReversal
  BY DEF DoorInv
<1>1. /\ rx # <<>> /\ rx' = Tail(rx) /\ UNCHANGED <<door, pinSensor, delayed, cancelled>>
  BY DEF RxStatus, RxUnknown, RxStateOf, RxMotorOn, history
<1>2. rx' \in Seq(Packet) /\ Len(rx') <= RxLen
  BY <1>0, <1>1, DoorControlAssumption DEF TypeOK
<1>3. ASSUME NEW s \in State \cup {"UNKNOWN"}, UpdateDoorState(s), heardClosed' \in BOOLEAN,
             s = "CLOSED" => heardClosed'
      PROVE  DoorInv'
  <2>1. /\ CommandTypes' /\ current' = s /\ target' \in {"OPEN", "CLOSED", "UNKNOWN"}
        /\ stopOpen' \in Age /\ stopClose' \in Age /\ OneReversal'
        /\ ttc' \in BOOLEAN /\ ticks' = ticks
    BY <1>3, UpdateKeeps
  <2>2. TypeOK'
    BY <1>0, <1>1, <1>2, <1>3, <2>1 DEF TypeOK, CommandTypes, delayed
  <2>3. ClosedIsHeard'
    BY <1>3, <2>1 DEF ClosedIsHeard
  <2> QED
    BY <2>1, <2>2, <2>3 DEF DoorInv
<1>4. CASE RxStatus \/ RxUnknown
  <2>1. Head(rx) \in State \cup {"UNKNOWN"} /\ UpdateDoorState(Head(rx))
        /\ heardClosed' = (Head(rx) = "CLOSED")
    BY <1>4 DEF RxStatus, RxUnknown, RxStateOf
  <2> QED
    BY <1>3, <2>1
<1>5. CASE RxMotorOn
  <2>1. UNCHANGED heardClosed /\ heardClosed \in BOOLEAN
    BY <1>0, <1>5 DEF RxMotorOn, history, TypeOK
  <2>2. CASE UpdateDoorState("CLOSING") \/ UpdateDoorState("OPENING")
    BY <1>3, <2>1, <2>2 DEF State
  <2>3. CASE UNCHANGED <<report, txq, pending, watches, reversal, partial, countdown>>
    BY <1>0, <1>1, <1>2, <2>1, <2>3
       DEF DoorInv, TypeOK, ClosedIsHeard, OneReversal, report, watches, reversal,
           countdown, delayed
  <2> QED
    BY <1>5, <2>2, <2>3 DEF RxMotorOn
<1> QED
  BY <1>4, <1>5
-----------------------------------------------------------------------------
(* Requests.                                                                *)

\* A request that only issues commands.
LEMMA CommandedKeeps ==
    ASSUME DoorInv, CommandTypes', UNCHANGED <<door, rx, report, pinSensor, heardClosed>>,
           stopOpen' \in Age, stopClose' \in Age, OneReversal',
           ttc' \in BOOLEAN, ticks' \in 0..TTCTicks, tickDue' \in BOOLEAN,
           delayOver' \in BOOLEAN, closeDue' \in BOOLEAN, cancelled' \in BOOLEAN
    PROVE  DoorInv'
BY DEF DoorInv, TypeOK, CommandTypes, ClosedIsHeard, report

\* A request of a user.
LEMMA AskKeeps ==
    ASSUME DoorInv, Ask
    PROVE  DoorInv'
<1>0. TypeOK /\ ClosedIsHeard /\ OneReversal
  BY DEF DoorInv
<1> USE DEF report, reversal, countdown, delayed, history, watches
<1>1. /\ stopOpen \in Age /\ stopClose \in Age
      /\ ttc \in BOOLEAN /\ ticks \in 0..TTCTicks /\ tickDue \in BOOLEAN
      /\ delayOver \in BOOLEAN /\ closeDue \in BOOLEAN /\ cancelled \in BOOLEAN
      /\ CommandTypes /\ TTCTicks \in 0..TTCTicks
  BY <1>0, DoorControlAssumption DEF TypeOK, CommandTypes
<1>2. CASE OpenCancelsDelay \/ StartDelay
  <2>1. CommandTypes' /\ OneReversal' /\ ttc' \in BOOLEAN /\ ticks' \in 0..TTCTicks
    BY <1>0, <1>1, <1>2 DEF OpenCancelsDelay, StartDelay, CommandTypes, OneReversal
  <2> QED
    BY <1>1, <1>2, <2>1, CommandedKeeps DEF OpenCancelsDelay, StartDelay
<1>3. CASE OpenReverses \/ CloseReverses \/ StopDoor
  <2>1. CommandTypes'
    BY <1>0, <1>3, CommandTypesKept DEF OpenReverses, CloseReverses, StopDoor
  <2>2. stopOpen' \in Age /\ stopClose' \in Age /\ OneReversal'
    BY <1>0, <1>1, <1>3 DEF OpenReverses, CloseReverses, StopDoor, Age, OneReversal
  <2> QED
    BY <1>1, <1>3, <2>1, <2>2, CommandedKeeps DEF OpenReverses, CloseReverses, StopDoor
<1>4. CASE OpenDoor \/ CloseNow
  <2>1. CommandTypes' /\ ttc' \in BOOLEAN
    BY <1>0, <1>1, <1>4, CommandTypesKept DEF OpenDoor, CloseNow
  <2>2. OneReversal'
    BY <1>0, <1>4 DEF OpenDoor, CloseNow, OneReversal
  <2> QED
    BY <1>1, <1>4, <2>1, <2>2, CommandedKeeps DEF OpenDoor, CloseNow
<1>5. CASE ToggleDoor
  <2>1. OutgoingOK(Command(Outgoing, "Toggle"))
    BY <1>0, OutgoingTypes, CommandKeeps DEF Action
  <2>2. CommandTypes' /\ OneReversal'
    BY <1>0, <1>1, <1>5, <2>1, Issued DEF ToggleDoor, CommandTypes, OneReversal
  <2> QED
    BY <1>1, <1>5, <2>2, CommandedKeeps DEF ToggleDoor
<1>6. CASE OpenPartial
  <2>1. OutgoingOK(Command(Outgoing, "Open"))
        /\ OutgoingOK([Command(Outgoing, "Open") EXCEPT !.pending = FALSE])
    <3>1. OutgoingOK(Command(Outgoing, "Open"))
      BY <1>0, OutgoingTypes, CommandKeeps DEF Action
    <3>2. /\ [Command(Outgoing, "Open") EXCEPT !.pending = FALSE].txq
                = Command(Outgoing, "Open").txq
          /\ [Command(Outgoing, "Open") EXCEPT !.pending = FALSE].pending = FALSE
      BY DEF Command, Outgoing
    <3> QED
      BY <3>1, <3>2 DEF OutgoingOK
  <2>2. CommandTypes'
    <3>1. \/ Issue(Command(Outgoing, "Open"))
          \/ Issue([Command(Outgoing, "Open") EXCEPT !.pending = FALSE])
      BY <1>6 DEF OpenPartial
    <3>2. txq' \in Seq(Action) /\ Len(txq') <= TxLen /\ pending' \in BOOLEAN
      BY <2>1, <3>1, Issued
    <3>3. moving' \in Watch /\ completed' \in Watch /\ partial' \in BOOLEAN
      BY <1>6 DEF OpenPartial, Watch
    <3> QED
      BY <3>2, <3>3 DEF CommandTypes
  <2>3. current' \in {"OPENING", current} /\ target' \in {"OPEN", "CLOSED", "UNKNOWN"}
    <3>1. CASE Report("OPENING")
      BY <1>0, <3>1, ReportIs DEF State
    <3>2. CASE UNCHANGED report
      BY <1>0, <3>2 DEF TypeOK
    <3> QED
      BY <1>6, <3>1, <3>2 DEF OpenPartial
  <2>4. UNCHANGED <<door, rx, pinSensor, reversal, countdown, delayed, history>>
    BY <1>6 DEF OpenPartial
  <2> QED
    BY <1>0, <2>2, <2>3, <2>4
       DEF DoorInv, TypeOK, CommandTypes, ClosedIsHeard, OneReversal, State
<1> QED
  BY <1>2, <1>3, <1>4, <1>5, <1>6 DEF Ask
-----------------------------------------------------------------------------
(* Timers, the opener and the bus.                                          *)

\* A timer fires, or what it left for the loop runs.
LEMMA TimerKeeps ==
    ASSUME DoorInv, Timer
    PROVE  DoorInv'
<1>0. TypeOK /\ ClosedIsHeard /\ OneReversal
  BY DEF DoorInv
<1> USE DEF report, reversal, countdown, delayed, history, watches
<1>1. /\ stopOpen \in Age /\ stopClose \in Age
      /\ ttc \in BOOLEAN /\ ticks \in 0..TTCTicks /\ tickDue \in BOOLEAN
      /\ delayOver \in BOOLEAN /\ closeDue \in BOOLEAN /\ cancelled \in BOOLEAN
      /\ CommandTypes
  BY <1>0 DEF TypeOK, CommandTypes
<1>2. CASE Tick \/ CallbackDelay
  <2>1. CommandTypes' /\ OneReversal'
    BY <1>0, <1>1, <1>2 DEF Tick, CallbackDelay, CommandTypes, OneReversal
  <2> QED
    BY <1>1, <1>2, <2>1, CommandedKeeps DEF Tick, CallbackDelay
<1>3. CASE TTCtimerFn
  <2>1. CommandTypes' /\ OneReversal'
    BY <1>0, <1>1, <1>3 DEF TTCtimerFn, CommandTypes, OneReversal
  <2>2. ticks' \in 0..TTCTicks /\ ttc' \in BOOLEAN /\ delayOver' \in BOOLEAN
    <3>1. \/ ticks > 0 /\ ticks' = ticks - 1 /\ UNCHANGED <<ttc, delayOver>>
          \/ ticks' = ticks /\ ttc' = FALSE /\ delayOver' = TRUE
      BY <1>3 DEF TTCtimerFn
    <3>2. ticks' \in 0..TTCTicks
      BY <1>1, <3>1, DoorControlAssumption
    <3> QED
      BY <1>1, <3>1, <3>2
  <2> QED
    BY <1>1, <1>3, <2>1, <2>2, CommandedKeeps DEF TTCtimerFn
<1>4. CASE DelayedClose
  <2>1. CommandTypes' /\ OneReversal'
    BY <1>0, <1>4, CommandTypesKept DEF DelayedClose, OneReversal
  <2> QED
    BY <1>1, <1>4, <2>1, CommandedKeeps DEF DelayedClose
<1>5. CASE PartialStop
  <2>1. OutgoingOK(Command(Outgoing, "Stop"))
    BY <1>0, OutgoingTypes, CommandKeeps DEF Action
  <2>2. CommandTypes' /\ OneReversal'
    BY <1>0, <1>1, <1>5, <2>1, Issued DEF PartialStop, CommandTypes, OneReversal
  <2> QED
    BY <1>1, <1>5, <2>2, CommandedKeeps DEF PartialStop
<1>6. CASE DidNotMove
  <2>1. CommandTypes' /\ OneReversal'
    BY <1>0, <1>1, <1>6 DEF DidNotMove, CommandTypes, OneReversal, Watch
  <2> QED
    BY <1>1, <1>6, <2>1, CommandedKeeps DEF DidNotMove
<1>7. CASE NotConfirmed
  <2>1. CommandTypes' /\ OneReversal'
    BY <1>0, <1>1, <1>7 DEF NotConfirmed, CommandTypes, OneReversal, Watch
  <2>2. \/ current' = "OPEN" /\ target' = "OPEN"
        \/ UNCHANGED report
    BY <1>7 DEF NotConfirmed
  <2> QED
    BY <1>0, <1>7, <2>1, <2>2
       DEF NotConfirmed, DoorInv, TypeOK, CommandTypes, ClosedIsHeard, State
<1>8. CASE StopAnswerLate
  <2>1. stopOpen' \in Age /\ stopClose' \in Age /\ OneReversal'
    BY <1>0, <1>1, <1>8 DEF StopAnswerLate, Age, OneReversal
  <2>2. CommandTypes'
    BY <1>1, <1>8 DEF StopAnswerLate, CommandTypes
  <2> QED
    BY <1>1, <1>8, <2>1, <2>2, CommandedKeeps DEF StopAnswerLate
<1>9. CASE PinDetected
  BY <1>0, <1>9 DEF PinDetected, DoorInv, TypeOK, ClosedIsHeard, OneReversal
<1> QED
  BY <1>2, <1>3, <1>4, <1>5, <1>6, <1>7, <1>8, <1>9 DEF Timer

\* The opener obeys, moves, reports; commands and packets are lost.
LEMMA OpenerKeeps ==
    ASSUME DoorInv, Opener
    PROVE  DoorInv'
<1>0. TypeOK /\ ClosedIsHeard /\ OneReversal
  BY DEF DoorInv
<1>1. UNCHANGED firmware
  BY DEF Opener, OpenerObeys, CommandLost, DoorMoves, WallButton, StatusSent,
         UnknownSent, Sends, LosePacket
<1>2. ASSUME NEW d \in State, Goes(d)
      PROVE  door' \in State /\ rx' \in Seq(Packet) /\ Len(rx') <= RxLen
  BY <1>0, <1>2, DoorControlAssumption DEF Goes, TypeOK, Packet
<1>3. ASSUME NEW a, NEW d \in Obeys(a, door) PROVE d \in State
  BY <1>0, <1>3 DEF Obeys, TypeOK, State
<1>4. door' \in State /\ rx' \in Seq(Packet) /\ Len(rx') <= RxLen
  <2>1. CASE OpenerObeys
    <3>1. PICK d \in Obeys(Head(txq), door) :
            IF d = door THEN UNCHANGED <<door, rx>> ELSE Goes(d)
      BY <2>1 DEF OpenerObeys
    <3> QED
      BY <1>0, <1>2, <1>3, <3>1 DEF TypeOK
  <2>2. CASE CommandLost
    BY <1>0, <2>2 DEF CommandLost, TypeOK
  <2>3. CASE DoorMoves
    BY <1>2, <2>3 DEF DoorMoves, State
  <2>4. CASE WallButton
    BY <1>2, <1>3, <2>4 DEF WallButton
  <2>5. CASE StatusSent \/ UnknownSent
    BY <1>0, <2>5, DoorControlAssumption DEF StatusSent, UnknownSent, Sends, TypeOK, Packet
  <2>6. CASE LosePacket
    BY <1>0, <2>6, DoorControlAssumption DEF LosePacket, TypeOK
  <2> QED
    BY <2>1, <2>2, <2>3, <2>4, <2>5, <2>6 DEF Opener
<1>5. txq' \in Seq(Action) /\ Len(txq') <= TxLen
  <2>1. CASE OpenerObeys \/ CommandLost
    <3>1. txq # <<>> /\ txq' = Tail(txq)
      BY <2>1 DEF OpenerObeys, CommandLost
    <3>2. Tail(txq) \in Seq(Action) /\ Len(Tail(txq)) = Len(txq) - 1 /\ Len(txq) \in Nat
      BY <1>0, <3>1 DEF TypeOK
    <3> QED
      BY <1>0, <3>1, <3>2, DoorControlAssumption DEF TypeOK
  <2>2. CASE DoorMoves \/ WallButton \/ StatusSent \/ UnknownSent \/ LosePacket
    BY <1>0, <2>2
       DEF DoorMoves, WallButton, StatusSent, UnknownSent, Sends, LosePacket, TypeOK
  <2> QED
    BY <2>1, <2>2 DEF Opener
<1> QED
  BY <1>0, <1>1, <1>4, <1>5
     DEF DoorInv, TypeOK, ClosedIsHeard, OneReversal, firmware, report, watches,
         reversal, countdown, delayed, history
-----------------------------------------------------------------------------
(* Theorems.                                                                *)

\* DoorInv is inductive.
THEOREM DoorInvariant == Spec => []DoorInv
<1>1. Init => DoorInv
  <2> SUFFICES ASSUME Init PROVE DoorInv
    OBVIOUS
  <2>1. /\ txq \in Seq(Action) /\ Len(txq) <= TxLen
        /\ rx \in Seq(Packet) /\ Len(rx) <= RxLen
        /\ ticks \in 0..TTCTicks
    BY DoorControlAssumption DEF Init
  <2> QED
    BY <2>1 DEF Init, DoorInv, TypeOK, ClosedIsHeard, OneReversal, State, Watch, Age
<1>2. DoorInv /\ [Next]_vars => DoorInv'
  <2> SUFFICES ASSUME DoorInv, [Next]_vars PROVE DoorInv'
    OBVIOUS
  <2>1. CASE RxStatus \/ RxUnknown \/ RxMotorOn
    BY <2>1, ReceivedKeeps
  <2>2. CASE Ask
    BY <2>2, AskKeeps
  <2>3. CASE Timer
    BY <2>3, TimerKeeps
  <2>4. CASE Opener
    BY <2>4, OpenerKeeps
  <2>5. CASE UNCHANGED vars
    BY <2>5 DEF vars, DoorInv, TypeOK, ClosedIsHeard, OneReversal, report, watches,
                reversal, countdown, delayed, history
  <2> QED
    BY <2>1, <2>2, <2>3, <2>4, <2>5 DEF Next
<1> QED
  BY <1>1, <1>2, PTL DEF Spec

\* The queue of door commands never exceeds its length, and every timer, flag and
\* state has its type.
THEOREM DoorTypeCorrect == Spec => []TypeOK
<1>1. DoorInv => TypeOK
  BY DEF DoorInv
<1> QED
  BY <1>1, DoorInvariant, PTL

\* For every setting: the door is reported closed only while the last state the
\* opener told is that it is; no timer, guess or partial opening claims it.
THEOREM ClosedOnlyWhenHeard == Spec => []ClosedIsHeard
<1>1. DoorInv => ClosedIsHeard
  BY DEF DoorInv
<1> QED
  BY <1>1, DoorInvariant, PTL

\* At most one reversal is waiting for its stop, whatever requests came before.
THEOREM ReversalsExclude == Spec => []OneReversal
<1>1. DoorInv => OneReversal
  BY DEF DoorInv
<1> QED
  BY <1>1, DoorInvariant, PTL

\* With room in the queue, a reversal whose stop is answered in time goes out,
\* whatever the length of the queue and whatever is pending.
THEOREM ReversalsGoOut == Spec => ReversalGoesOut
<1> DEFINE Reverses ==
      Stopped /\ Room =>
          /\ stopOpen = "fresh" => GoesOut("Open")
          /\ stopClose = "fresh" /\ pinSensor /\ ~UseToggle => GoesOut("Close")
<1>1. DoorInv /\ [Next]_vars => [Reverses]_vars
  <2> SUFFICES ASSUME DoorInv, Stopped, Room PROVE Reverses
    OBVIOUS
  <2>1. UpdateDoorState("STOPPED") /\ Len(txq) # TxLen /\ OneReversal
    BY DoorControlAssumption DEF Stopped, RxStatus, RxStateOf, Room, DoorInv, TypeOK
  <2>2. ASSUME NEW a, Issue(Command(Command(Answered, a), a)) PROVE GoesOut(a)
    <3>1. txq' = Append(txq, a)
      BY <2>1, <2>2 DEF Command, Answered, Issue
    <3>2. txq \in Seq(Action) /\ Len(txq) \in Nat
      BY DEF DoorInv, TypeOK
    <3>3. Len(txq') = Len(txq) + 1 /\ txq'[Len(txq) + 1] = a
      BY <3>1, <3>2
    <3> QED
      BY <3>2, <3>3 DEF GoesOut
  <2>3. ASSUME stopOpen = "fresh" PROVE GoesOut("Open")
    <3>1. Issue(Command(Command(Answered, "Open"), "Open"))
      BY <2>1, <2>3 DEF UpdateDoorState, FollowUp, NoFollowUp
    <3> QED
      BY <2>2, <3>1
  <2>4. ASSUME stopClose = "fresh", pinSensor, ~UseToggle PROVE GoesOut("Close")
    <3>1. stopOpen = "none"
      BY <2>1, <2>4 DEF OneReversal
    <3>2. Issue(CloseCommand(CloseCommand(Answered)))
      BY <2>1, <2>4, <3>1 DEF UpdateDoorState, FollowUp, NoFollowUp
    <3>3. CloseCommand(CloseCommand(Answered)) = Command(Command(Answered, "Close"), "Close")
      BY <2>4 DEF CloseCommand
    <3> QED
      BY <2>2, <3>2, <3>3
  <2> QED
    BY <2>3, <2>4
<1> QED
  BY <1>1, DoorInvariant, PTL DEF Spec, ReversalGoesOut
=============================================================================
