-------------------------------- MODULE Sec1 --------------------------------
(***************************************************************************)
(* The Security+ 1.0 bus as comms_loop_sec1 works it: one wire on which a  *)
(* wall panel, or this firmware in its place, polls the opener and gets one*)
(* byte back.  Nothing but the order of the bytes says which poll an answer*)
(* belongs to, and buttons are a press byte and a release byte.            *)
(*                                                                         *)
(* Bytes keep their values; Bad stands for a byte with a parity error.  The*)
(* answers to one query are followed, "watched": the door's or the light's.*)
(* Times become choices: a reply is late, the transmit window closes, the  *)
(* search for a panel ends.  0x37 panels, which are not supported, are left*)
(* out, and the lock, which shares the light's query and is treated alike. *)
(***************************************************************************)
EXTENDS Integers, Sequences

CONSTANTS States,     \* secplus1States: the start-up sequence of a panel
          PollItems,  \* SECPLUS1_POLL_ITEMS: its last entries, polled for ever
          QueueLen,   \* COMMAND_QUEUE_SIZE
          MaxRetry,   \* MAX_COMMS_RETRY
          MaxFaults,  \* bound of the model: bytes lost, spoilt or late
          MaxEvents,  \* bound of the model: changes and buttons pressed
          MaxAhead    \* bound of the model: bytes queued when one is emulated

DoorPress == 48   DoorRelease == 49   LightPress == 50   LightRelease == 51
QueryDoor == 56   QueryObstruction == 57   QueryLightLock == 58
QueryUnknown == 83
None == 255   \* 0xFF, which no answer is
Bad  == 256

Buttons == {DoorPress, DoorRelease, LightPress, LightRelease, 52, 53}
Queries == {QueryDoor, QueryObstruction, QueryLightLock, QueryUnknown}

\* What the opener answers: the door is open, closing or closed, the light lit or
\* not and the remotes unlocked.
DoorBytes  == {82, 84, 85}
LightBytes == {88, 92}
Answers    == DoorBytes \cup LightBytes \cup {0}

VARIABLES
    \* the bus and its other parties
    panel,      \* the wall panel: "absent", "booting" or "polling"
    truth,      \* what the opener would answer to the watched query
    owed,       \* queries the opener has not answered yet
    late,       \* the first of them has been counted as late
    held,       \* buttons the opener takes to be held down
    inbox,      \* bytes received and not read
    \* reading
    watched,    \* QueryDoor or QueryLightLock
    reading,    \* sec1cmd while reading_msg, else 0
    prev,       \* prevDoor or prevLightLock, None before the first
    report,     \* garage_door.current_state or .light, as the byte for it; 0 is
                \* also taken for: the opener has not answered anything yet
    flashing,   \* TTCtimer is active
    \* sending
    queue, retries,
    clearToSend,
    windowOpen, \* less than SECPLUS1_TX_WINDOW_CLOSE since msg_start
    \* the wall panel's place
    searching,  \* less than SECPLUS1_DIGITAL_WALLPLATE_TIMEOUT since the start
    detected, booting, emulating, stateIndex, pollRate,
    \* bounds, and history: whether a release was dropped, what has been true
    faults, events, dropped, been

bus      == <<panel, truth, owed, late, held, inbox>>
parsed   == <<watched, reading, prev, report, flashing>>
sending  == <<queue, retries, clearToSend, windowOpen>>
place    == <<searching, detected, booting, emulating, stateIndex, pollRate>>
counted  == <<faults, events, dropped, been>>
sec1Vars == <<bus, parsed, sending, place, counted>>

Watchable(q) == IF q = QueryDoor THEN DoorBytes ELSE LightBytes

Sec1TypeOK ==
    /\ panel \in {"absent", "booting", "polling"}
    /\ watched \in {QueryDoor, QueryLightLock}
    /\ truth \in Watchable(watched)
    /\ owed \in Seq(Queries)
    /\ held \subseteq {"door", "light"}
    /\ inbox \in Seq(Buttons \cup Queries \cup Answers \cup {Bad})
    /\ reading \in {0} \cup Queries
    /\ prev \in {None} \cup Answers
    /\ report \in {0} \cup Watchable(watched) \cup {80}
    /\ queue \in Seq(Buttons \cup Queries) /\ Len(queue) <= QueueLen
    /\ retries \in 0..MaxRetry
    /\ stateIndex \in 0..(Len(States) - 1)
    /\ \A b \in {late, flashing, clearToSend, windowOpen, searching, detected, booting,
                 emulating, pollRate, dropped} : b \in BOOLEAN

Sec1Init ==
    /\ panel \in {"absent", "booting", "polling"}
    /\ watched \in {QueryDoor, QueryLightLock}
    /\ truth \in Watchable(watched) \ {84}
    /\ owed = <<>> /\ late = FALSE /\ held = {} /\ inbox = <<>>
    /\ reading = 0 /\ prev = None /\ report = 0 /\ flashing = FALSE
    /\ queue = <<>> /\ retries = 0
    /\ clearToSend = FALSE /\ windowOpen = FALSE
    /\ searching = TRUE /\ detected = FALSE /\ booting = FALSE
    /\ emulating = FALSE /\ stateIndex = 0 /\ pollRate = FALSE
    /\ faults = 0 /\ events = 0 /\ dropped = FALSE
    /\ been = {truth}
-----------------------------------------------------------------------------
(* The wire (external).                                                     *)

\* Byte b arrives, or it is lost, spoilt or turned into another answer.
Arrives(b) ==
    \/ inbox' = Append(inbox, b) /\ faults' = faults
    \/ /\ faults < MaxFaults /\ faults' = faults + 1
       /\ \/ inbox' = inbox
          \/ \E x \in {Bad} \cup Watchable(watched) : inbox' = Append(inbox, x)

\* The panel starts up, with the releases of its buttons, or polls.  The opener
\* is late if it has not answered by then.
PanelStarts ==
    /\ panel = "booting" /\ panel' = "polling"
    /\ Arrives(DoorRelease)
    /\ UNCHANGED <<truth, owed, late, held, parsed, sending, place, events, dropped, been>>
PanelPolls(q) ==
    /\ panel = "polling" /\ inbox = <<>> /\ owed = <<>> /\ late' = late
    /\ owed' = <<q>> /\ Arrives(q)
    /\ UNCHANGED <<panel, truth, held, parsed, sending, place, events, dropped, been>>

OpenerAnswers ==
    /\ owed # <<>>
    /\ owed' = Tail(owed) /\ late' = FALSE
    /\ Arrives(IF Head(owed) = watched THEN truth
               ELSE IF Head(owed) = QueryDoor THEN 85
               ELSE IF Head(owed) = QueryLightLock THEN 88 ELSE 0)
    /\ UNCHANGED <<panel, truth, held, parsed, sending, place, events, dropped, been>>

Changes ==
    /\ events < MaxEvents /\ events' = events + 1
    /\ truth' \in Watchable(watched) \ {truth}
    /\ been' = been \cup {truth'}
    /\ UNCHANGED <<panel, owed, late, held, inbox, parsed, sending, place, faults, dropped>>
-----------------------------------------------------------------------------
(* comms_loop_sec1: reading.                                                *)

Bit(b, i) == (b \div 2^i) % 2

\* (mutant) One answer is believed.
SeenOnce(b) == TRUE
\* "sec+1 doors sometimes report wrong door status": two equal answers in a row.
SeenTwice(b) == prev = b

\* What door bits 0 to 2 say: stopped (80), opening, open, closing, closed, or 0.
\* An open door does not open, a closed one does not close.
DoorBits == <<80, 81, 82, 0, 84, 85, 80, 0>>
DoorState(b) ==
    LET said == DoorBits[(b % 8) + 1]
    IN  IF (said = 81 /\ report = 82) \/ (said = 84 /\ report = 85) THEN report ELSE said

LightState(b) == IF Bit(b, 2) = 1 THEN 92 ELSE 88

\* sec1_process_message of an answer.  While the light flashes nothing is believed.
ProcessAnswer(q, b) ==
    IF q # watched THEN UNCHANGED <<prev, report>>
    ELSE IF q = QueryLightLock /\ flashing THEN prev' = None /\ report' = report
    ELSE /\ prev' = b
         /\ report' = IF ~SeenTwice(b) THEN report
                      ELSE IF q = QueryDoor THEN DoorState(b) ELSE LightState(b)

\* The query that is being read, after byte b.
NowReading(b) == IF b \in Queries THEN b ELSE 0

ReadByte ==
    /\ inbox # <<>>
    /\ LET b == Head(inbox)
       IN  /\ reading' = NowReading(b)
           /\ booting' = (booting \/ (b = DoorRelease /\ report = 0))
           /\ windowOpen' = (windowOpen \/ b \in Queries)
           /\ IF reading # 0 /\ b \in Answers THEN ProcessAnswer(reading, b)
              ELSE UNCHANGED <<prev, report>>
    /\ inbox' = Tail(inbox)
    /\ clearToSend' = FALSE
    /\ UNCHANGED <<panel, truth, owed, late, held, watched, flashing, queue, retries,
                   searching, detected, emulating, stateIndex, pollRate, counted>>

\* An answer that comes after the firmware gave it up, or after the next query, is
\* late; that is a fault.
IsLate == late' = TRUE /\ faults < MaxFaults /\ faults' = faults + 1

\* No answer came within SECPLUS1_RX_MESSAGE_TIMEOUT.
GiveUp ==
    /\ inbox = <<>> /\ reading # 0
    /\ reading' = 0
    /\ IF owed # <<>> /\ ~late THEN IsLate ELSE UNCHANGED <<late, faults>>
    /\ UNCHANGED <<panel, truth, owed, held, inbox, watched, prev, report, flashing,
                   sending, place, events, dropped, been>>

\* Time: the transmit window opens SECPLUS1_TX_WINDOW_OPEN after a message, and
\* closes much later.  Without a panel it makes no difference.
WindowOpens ==
    /\ detected /\ inbox = <<>> /\ reading = 0
    /\ ~clearToSend /\ clearToSend' = TRUE
    /\ UNCHANGED <<bus, parsed, queue, retries, windowOpen, place, counted>>
WindowCloses ==
    /\ detected /\ clearToSend /\ windowOpen /\ windowOpen' = FALSE
    /\ UNCHANGED <<bus, parsed, queue, retries, clearToSend, place, counted>>
-----------------------------------------------------------------------------
(* comms_loop_sec1: sending.                                                *)

InPass == inbox = <<>> /\ reading = 0   \* else the pass has ended before
MaySend == detected => clearToSend /\ windowOpen

\* process_send_queue when the byte could not be sent: retried, then dropped.
SendFailed ==
    IF retries < MaxRetry
    THEN retries' = retries + 1 /\ UNCHANGED <<queue, dropped>>
    ELSE /\ retries' = 0 /\ queue' = Tail(queue)
         /\ dropped' = (dropped \/ Head(queue) = DoorRelease)
Sent == retries' = 0 /\ queue' = Tail(queue) /\ dropped' = dropped

\* transmitSec1 finds the bus busy.
Busy ==
    /\ InPass /\ queue # <<>> /\ MaySend
    /\ faults < MaxFaults /\ faults' = faults + 1
    /\ SendFailed /\ clearToSend' = FALSE
    /\ UNCHANGED <<bus, parsed, windowOpen, place, events, been>>

Heard(b) == CASE b = DoorPress    -> held \cup {"door"}
              [] b = DoorRelease  -> held \ {"door"}
              [] b = LightPress   -> held \cup {"light"}
              [] b = LightRelease -> held \ {"light"}
              [] OTHER            -> held

\* A query: its echo stays in the receive buffer, to be read like a panel's.
WriteQuery ==
    /\ InPass /\ queue # <<>> /\ MaySend /\ Head(queue) \in Queries
    /\ owed' = Append(owed, Head(queue))
    /\ IF owed = <<>> THEN Arrives(Head(queue)) /\ late' = FALSE
       ELSE /\ inbox' = Append(inbox, Head(queue)) /\ late' = FALSE
            /\ IF late THEN faults' = faults
               ELSE faults < MaxFaults /\ faults' = faults + 1
    /\ Sent
    /\ UNCHANGED <<panel, truth, held, parsed, clearToSend, windowOpen, place,
                   events, been>>

\* A button: its echo is read back at once.  A wrong echo sends it again, a
\* missing one does not; the opener may have heard it either way.
WriteButton ==
    /\ InPass /\ queue # <<>> /\ MaySend /\ Head(queue) \in Buttons
    /\ \/ held' = Heard(Head(queue)) /\ Sent /\ faults' = faults
       \/ /\ faults < MaxFaults /\ faults' = faults + 1
          /\ held' \in {held, Heard(Head(queue))}
          /\ Sent \/ SendFailed
    /\ UNCHANGED <<panel, truth, owed, late, inbox, parsed, clearToSend, windowOpen,
                   place, events, been>>

\* Pushes the bytes of s one by one; those that find the queue full are dropped.
Push(q, s) == q \o SubSeq(s, 1, IF QueueLen - Len(q) < Len(s) THEN QueueLen - Len(q) ELSE Len(s))

\* (mutant) The release of the door button is not repeated.
DoorButtonOnce == <<DoorPress, DoorRelease>>
DoorButton == <<DoorPress, DoorRelease, DoorRelease>>
LightButton == IF emulating THEN <<LightPress, QueryLightLock, LightRelease, LightRelease>>
               ELSE <<LightPress, LightRelease, LightRelease>>
FlashButton == IF emulating THEN <<LightPress, QueryLightLock>> ELSE <<LightPress>>

Pushes(s) ==
    /\ queue' = Push(queue, s)
    /\ dropped' = (dropped \/ (s = DoorButton /\ Len(queue) + 3 > QueueLen))
    /\ UNCHANGED <<bus, watched, reading, prev, report, retries, clearToSend,
                   windowOpen, place, faults, been>>
Presses(s) == events < MaxEvents /\ events' = events + 1 /\ Pushes(s)

\* door_command and set_light; while the time-to-close delay flashes the light
\* with presses alone, and releases the button when the delay has run out.
DoorCommand == flashing' = flashing /\ Presses(DoorButton)
SetLight    == flashing' = flashing /\ Presses(LightButton)
FlashLight  == flashing' = TRUE /\ Presses(FlashButton)
FlashEnds ==
    /\ flashing /\ flashing' = FALSE /\ events' = events
    /\ Pushes(<<LightRelease, LightRelease, LightRelease, LightRelease>>)
\* open_door ends the delay: set_light finds the light as it was recorded before.
FlashCancelled ==
    /\ flashing /\ flashing' = FALSE
    /\ UNCHANGED <<bus, watched, reading, prev, report, sending, place, counted>>
-----------------------------------------------------------------------------
(* wallPlate_Emulation.                                                     *)

\* The first LockButtonRelease.
RestartIndex ==
    IF \E i \in 1..Len(States) : States[i] = 53
    THEN (CHOOSE i \in 1..Len(States) : States[i] = 53 /\ \A j \in 1..(i - 1) : States[j] # 53) - 1
    ELSE 0

\* The search for a panel.  One that is running is found in time.
SearchEnds ==
    /\ panel = "absent" \/ booting
    /\ searching /\ searching' = FALSE
    /\ UNCHANGED <<bus, parsed, sending, detected, booting, emulating, stateIndex,
                   pollRate, counted>>
Look ==
    /\ InPass /\ ~detected /\ ~emulating
    /\ IF searching \/ booting
       THEN report # 0 /\ detected' = TRUE /\ booting' = FALSE /\ emulating' = emulating
       ELSE emulating' = TRUE /\ UNCHANGED <<detected, booting>>
    /\ UNCHANGED <<bus, parsed, sending, searching, stateIndex, pollRate, counted>>

\* The next item is queued, slowly from the first query on.  At the end, when it
\* has been five seconds, the sequence is started again if nothing is known.
Emulate ==
    /\ InPass /\ emulating /\ Len(queue) < MaxAhead
    /\ LET next == stateIndex + 1
           rate == pollRate \/ (next < Len(States) /\ States[next + 1] = QueryDoor)
       IN  \/ /\ stateIndex' = IF next < Len(States) THEN next ELSE Len(States) - PollItems
              /\ pollRate' = rate
           \/ /\ next = Len(States) /\ report = 0
              /\ stateIndex' = RestartIndex /\ pollRate' = FALSE
    /\ queue' = Push(queue, <<States[stateIndex + 1]>>)
    /\ UNCHANGED <<bus, parsed, retries, clearToSend, windowOpen, searching, detected,
                   booting, emulating, counted>>

Sec1Next ==
    \/ PanelStarts \/ (\E q \in {QueryDoor, QueryLightLock} : PanelPolls(q))
    \/ OpenerAnswers \/ Changes
    \/ ReadByte \/ GiveUp \/ WindowOpens \/ WindowCloses
    \/ Busy \/ WriteQuery \/ WriteButton
    \/ DoorCommand \/ SetLight \/ FlashLight \/ FlashEnds \/ FlashCancelled
    \/ SearchEnds \/ Look \/ Emulate

Sec1Spec == Sec1Init /\ [][Sec1Next]_sec1Vars
-----------------------------------------------------------------------------
\* One byte lost, spoilt, late or wrong never changes a report: what is reported
\* has been true.
NotFooledOnce == report # 0 => report \in been

\* While the opener takes the door button to be held, a release is queued, though a
\* byte got lost, unless a release was dropped at a full queue or given up.
DoorButtonReleased ==
    "door" \in held => dropped \/ \E i \in 1..Len(queue) : queue[i] = DoorRelease
=============================================================================
