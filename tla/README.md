# Verification of homekit-ratgdo

TLA+ models of the ratgdo garage-door firmware (`src/src`, ESP8266 build), the
TLC configurations that check them, and TLAPS proofs about all of them. The
models are translated from the code; comments, tests and the documents in
`src/docs` say what the code promises.

Check a model with `tlc -config <file>.cfg <module>.tla`, proofs with
`tlapm <module>Proofs.tla`.

## 1. The program

The firmware speaks the encrypted serial protocol of a garage door opener
(Security+ 2.0; Security+ 1.0 and dry contacts as alternatives), and offers the
door, light, lock and sensors to HomeKit and to a web page.

It runs on one core, cooperatively. `loop()` calls, in this order,
`comms_loop`, `drycontact_loop`, `wifi_loop`, `homekit_loop`, `web_loop`,
`improv_loop`, `soft_ap_loop` and `service_timer_loop`. Three other things run:

- receive and pin **interrupts**, between any two instructions;
- **Ticker callbacks**, between handlers. Most of them only call
  `schedule_recurrent_function_us`, which leaves a function for the loop;
- **functions so scheduled**, whenever the program yields, i.e. inside any handler
  that logs to a subscriber, writes to a socket, or waits for bytes.

A handler that does not yield is therefore atomic, and is one action in the
models. Where one yields, or where power may fail inside one, it is split.

### Inventory

| Component | State | Operations | Interacts with | Hard behaviour | What makes it correct |
|---|---|---|---|---|---|
| Security+ 2.0 sender (`comms.cpp`) | queue of packets, retry count, client id, rolling code, last saved code; two files in flash | start, synchronise, push, transmit, collide, new id on timeout, save, reset, restart | door control, refresh, light and lock push packets; flash | collisions, full queue, power loss between a transmission and the save | no retired code is sent again; a start resumes above everything sent; the queue moves on |
| Door control (`comms.cpp`) | reported and target state, `pendingDoorCommand`, two stop-then-reverse times, watch timers, close delay | open, close, stop, toggle, partial opening; status and MotorOn packets; timers | sender, HomeKit, web, dry contacts | requests crossing late or lost answers; timers already handed to the loop | no claimed closure; a reversal goes out; no request is blocked for good; the report catches up |
| Door alerts (`door_alerts.h`, `homekit.cpp`) | elapsed times and latches | update, close did not start | door control's notifications, timer, HomeKit | 32-bit clock, late updates, an alert left for the loop | raised on time, cleared only by a closed door |
| Status refresh (`sec2_rx.h`) | last status, last query, recovery flag, unanswered count | received, lost, queried, due | receive buffer, sender | rollover, loss on loss, dead opener | silence is bounded, fast polling is bounded |
| Receive buffer and reader (`sec2_rx.h`, `Reader.h`) | ring of bytes, loss flag; reader's mode and count | pump, read, take loss, push byte | serial interrupt, yields, refresh | overflow in the middle of a packet, pump from a yield | the two sides of a loss are not joined; the stream is found again |
| Firmware update (`ota_session.h`, `web.cpp`) | session flags, updater, staged image, idle timer | file start, write, end, abort, finish, verify, recover | web server, every service it stops, restart | a client that stalls at any byte, late timer, aborts, verification of a staged image | only whole images are selected; the board comes back |
| Packets (`Packet.h`, `secplus2.h`) | - | encode, decode | sender, reader | bit layout | round trip |
| Light and lock (`comms.cpp`) | pending on/off flags | request, confirm | sender, status packets | request dropped while its flag is set | a request is not swallowed |
| Obstruction, motion, motor (`comms.cpp`) | pulse counts, timers | pin interrupts, packets | door control, HomeKit | counting window against pulses | obstruction is neither missed nor stuck |
| Security+ 1.0 (`comms.cpp`) | panel emulation, transmit window, byte parser | poll, send, receive | door control | timing windows of a half-duplex bus | door state needs confirming reads; a press is paired with its release |
| Dry contacts (`drycontact.cpp`) | debounced inputs | press, release, limit switches | door control | bouncing, two inputs tied together | one press is one request |
| HomeKit (`homekit.cpp`, `patches/homekit`) | characteristics, queued events of clients | get, set, notify, pairing callbacks | everything above | a client leaves while its events are queued; pairing during an update | no event outlives its client |
| Server-sent events (`web.cpp`) | eight subscription slots, count | subscribe, listen, heartbeat, broadcast, remove | log, status | client gone between steps; broadcast inside a broadcast | slots and count agree; slots come free |
| Settings (`config.cpp`) | table of values, one file | set, save, load | all | power loss or a failure while writing, settings changed but never saved | settings that keep the board off its network are left again |
| WiFi and provisioning (`wifi_8266.cpp`, `softAP.cpp`, `provision.cpp`) | connection state, fallback timers | connect, time out, access point | loop, restart | fall back and return | the board stays reachable |
| Log ring (`log.cpp`) | ring of text, head, wrapped flag | append, print, save | every component | exact fill, logging while logging | history is kept |
| Main loop, restart (`ratgdo.cpp`, `utilities.cpp`) | uptime timers | set-up, loop, `sync_and_restart` | sender, log, WiFi | restart from anywhere | state is saved first |
| Serial console, LED, encoder, web pages, build scripts, ESP32/GDOLIB branches | - | - | - | - | not core logic of this build |

`PROJECT.json` gives the status of every component, and lists under `hazards`
what is hard to test, each at its line with the properties that cover it.

## 2. Modules

| Module | Models | Kind |
|---|---|---|
| `CodeLedger` | what an opener relies on when it hears one client id | abstract specification |
| `Sec2Tx` | sender, rolling code and flash; refines `CodeLedger` | component |
| `DoorControl` | door requests, reports, timers, with door and opener | component with its environment |
| `Sec2Rx` | serial buffer, receive buffer, reader | component |
| `Sec2Refresh` | when the status is asked for | component |
| `LightLock` | light and remote lock on Security+ 2.0 | component with opener and wall panel |
| `Sec1` | the Security+ 1.0 bus: reading, sending, emulated panel | component with opener and wall panel |
| `DoorAlerts` | the two alert sensors and the code that feeds them | component |
| `DryContact` | two contacts, as ends of the travel or as buttons | component |
| `DoorTimes` | measured openings and the estimate they give | component with the door |
| `LogRing` | the ring of log lines and its printing | component |
| `OtaUpdate` | upload, verification, idle timer, recovery | component with its client |
| `Board` | start, settings, WiFi, access point, provisioning, recovery by pushes | component with network, flash and users |
| `EventChannels` | subscriptions to server-sent events | component with browsers |
| `MCSec2Tx` | the set of ids | for TLC |
| `MCDialogue` | `Sec2Refresh`, `LightLock`, `Sec1`, `Sec2Rx` | for TLC |
| `MCDoorSide` | `DoorAlerts`, `DryContact`, `DoorTimes`, `LogRing` | for TLC |
| `MCBoardSide` | `OtaUpdate`, `Board`, `EventChannels` | for TLC |
| `Sec2TxProofs`, `Sec2RxProofs`, `DoorControlProofs`, `OtaUpdateProofs`, `Sec1Proofs` | theorems about the module they are named after; the last also about `MCDialogue` as a whole | proofs |
| `Sec2DialogueProofs` | theorems about `Sec2Refresh` and `LightLock` | proofs |
| `DoorSideProofs`, `BoardSideProofs` | theorems about `MCDoorSide` and its four units; about `MCBoardSide`, `Board` and `EventChannels` | proofs |

The last three MC modules put components side by side that share no state in the
code. A behaviour exercises one of them, named by `unit`, while the others stay in
one fixed state, so that the state spaces add up and do not multiply. Every
initial state of the unit at work is included, and its fairness is that of its own
specification. That is why the definitions of these modules have names such as
`LightInit`, `Sec1Next`, `RxTypeOK` and `BoardFairSpec`.

Definitions marked `(mutant)` are plausible mistakes kept beside the definition they
distort. They are used by no specification; they serve to confirm that the
properties can fail.

### Sec2Tx and CodeLedger

Every Security+ 2.0 packet carries a rolling code; the opener discards codes it
has passed. A door command is two packets, press and release, that share a code
(`inc_counter` is false for the press). The code is saved to flash every
`SaveEvery` codes and a start skips as many ahead.

| Model | Code |
|---|---|
| `Boot`, `SaveAndSync`, `NewId` | `setup_comms`, `initialize_gdo_codes` |
| `WithDoorCommand`, `PushQueries` | `door_command` (press, release and status query), `txQueuePush` |
| `Transmit`, `Collide` | `process_send_queue` with the two results of `transmitSec2` |
| `StatusTimeout`, `Housekeeping` | the tail of `comms_loop_sec2` |
| `RxStatus`, `RxOther` | what received packets do to the queue |
| `ResetDoor`, `EraseId` | `reset_door`, split between its two file removals |
| `Restart`, `PowerLoss` | `sync_and_restart`; RAM is lost, flash is kept |

Data that is abstracted: a packet is its client id and what it does to the
counter. Three history variables record what the bus has heard: `aired` (one more
than the highest code sent), `floor` (codes below it are retired) and
`abandoned` (`reset_door` has given the id up; without the restart that the web
page asks for, the old id is sent with codes from zero, and the code properties
leave that interval out).

`CodeLedger` has those two numbers only: a code not below the floor goes on the
air, a restart retires everything aired, a new id begins afresh. `LedgerKept` is
the refinement.

### DoorControl

A door command is one element of `txq`; `rx` holds packets on their way back;
the door, the opener, the wall button and the loss of packets are its
environment. The delay of a timer is abstracted: an armed timer may fire at any
time, except where one timer is always armed with and shorter than another. Where
a Ticker only schedules a function, the callback and the function are two steps
(`Tick`/`TTCtimerFn`, `CallbackDelay`/`DelayedClose`), so that a request can
come in between.

| Model | Code |
|---|---|
| `Command`, `CloseCommand`, `WatchFor` | `door_command`, `door_command_close`, `door_command_open` |
| `UpdateDoorState`, `FollowUp` | `update_door_state` |
| `RxStatus`, `RxUnknown`, `RxMotorOn` | the cases of `comms_loop_sec2`; a state that is not known still clears the pending command |
| `OpenCancelsDelay`, `OpenReverses`, `OpenDoor`, `OpenPartial`, `StopDoor`, `CloseReverses`, `CloseNow`, `StartDelay`, `ToggleDoor` | the branches of `open_door`, `open_door_partial`, `stop_door`, `close_door`, `toggle_door` |
| `Tick`, `TTCtimerFn`, `CallbackDelay`, `DelayedClose` | the close delay |
| `DidNotMove`, `NotConfirmed` | `checkDoorMoving`, `checkDoorCompleted` |
| `PartialStop`, `StopAnswerLate`, `PinDetected` | partial opening, the two-second window, pin-sensed obstruction |

### DoorAlerts and Sec2Refresh

Both are small classes driven by the 32-bit millisecond clock. The models count
larger units modulo a small `ClockSpace`, with exact elapsed times kept beside
it as history, so that the checks cover every rollover. `Update` translates
`DoorAlerts::update`; `HomekitLoop`, `StateChange` and `CloseNotStarted` are its
three callers. `Pass` in `Sec2Refresh` is the head of `comms_loop_sec2`, with
the loss flag and the state of the transmit queue as inputs.

### Sec2Rx

A byte is its position in its packet and a mark that bytes before it are
missing. `Arrive` is the interrupt; `Service` is the pump called from a yield;
`Begin`, `Logged`, `TakeByte` and `PassEnds` are one pass of `comms_loop_sec2`.
Between the reads of a pass nothing yields; the overflow log does, so it has a
state of its own (`pass = "log"`). It is checked as a unit of `MCDialogue`.

### OtaUpdate

The multipart parser is synchronous: from the start of a file to its end or
abort nothing else of `loop()` runs, but timers and scheduled functions do.
`FileStart` goes through the returns of the handler in order, `FileWrite`,
`FileEnd`, `FileAborted` and `HandleUpdate` are its other branches and the final
handler. `TimerFires` and `CheckTimeout` are the two halves of the idle timer,
`PollRecovery` the head of `web_loop`. Any flash operation may fail. The client
may send, stop sending, leave, or end its file early. Two variables are history:
`image`, how much of its upload the image in flash is, and `quiet`, whether the
client has sent nothing for 30 s. The code's own idea of that is `silent`, which only
`note_upload_progress` ends.

### LightLock

A request to switch is ignored when the recorded state already has the value or
the same request is pending. `awaited` is the set of the value whose pending flag
(`pendingLightOn`, `pendingLightOff` and those of the lock) is set; `cmdq` and
`replies` are what is under way to and from the opener.

| Model | Code |
|---|---|
| `SetDevice`, `SetPackets`, `Pushed` | `set_light`, `set_lock`, `txQueuePush` |
| `Request`, `Flash` | the callers of them; `TTCtimerFn` switches without looking at the state |
| `Poll` | `Sec2Refresh` asks for the status |
| `RxLightStatus`, `RxPanel` | the Status, Light and Lock cases of `comms_loop_sec2` |
| `Opener`, `WallPanel`, `Lose` | external |

`spoilt` records that something was lost, dropped at the full queue, not verified
or switched by another: then a pending flag may be left set for good.

### Sec1

The answer to a poll carries nothing that says which poll it answers; order is
all there is. Bytes keep their values, `Bad` is one with a parity error, and the
answers to one query are followed (`watched`), the door's or the light's.
`faults` counts bytes that are lost, wrong or late. Delays are choices: when the
window for sending opens and closes, when an answer is given up, when the search
for a panel ends.

| Model | Code |
|---|---|
| `ReadByte`, `NowReading`, `ProcessAnswer`, `GiveUp` | the reading half of `comms_loop_sec1`, `sec1_process_message` |
| `WindowOpens`, `WindowCloses`, `MaySend`, `Busy`, `WriteQuery`, `WriteButton`, `Sent`, `SendFailed` | `process_send_queue`, `transmitSec1` |
| `DoorCommand`, `SetLight`, `FlashLight`, `FlashEnds`, `FlashCancelled` | the buttons of door and light, each a press and two releases |
| `SearchEnds`, `Look`, `Emulate` | `sec1_poll_status`, the emulated panel |
| `PanelStarts`, `PanelPolls`, `OpenerAnswers`, `Changes` | external |

0x37 panels, which the code does not support, and the lock, whose bit is in the
light's answer and is treated alike, are left out.

### DryContact, DoorTimes and LogRing

`DryContact`: `Loop` is `drycontact_loop` with the callbacks of both contacts,
`Tell` is `comms_loop_drycontact`. OneButton is external: it calls back when a
contact closes, and when it opens after a long press. Buttons are read only while a
setting says so (`openClose`), which `SetOpenClose` changes at any time; what
OneButton calls back before stays latched. `lastEnd` is history.

`DoorTimes`: `UpdateDoorState` is what `update_door_state` does about the time of an
opening: a report of the start begins a measurement, one of the end records it
(`Record`), and a stop or a turn that is reported abandons it (`Aborts`). `DoorMedian`
is `doorMedian`; `Restarts` keeps the history, which is in a file. Each recorded
opening is marked as exact or not, by comparing the time between two reports with
the time the door really travelled; `missed` is history, a report that was lost or
late since the opening began. The times of closing go through the same code
and are not modelled a second time.

`LogRing`: text is the numbers of its bytes, so that what is printed can be
compared with what was logged. `LogToBuffer` is one line, `PrintBegins` and
`PrintChunk` are `printMessageLog`, between whose chunks other lines are logged.

### Board

What decides whether the board can be reached: the settings in RAM and in their
file, the network and settings WiFi runs with, the mode, and the timers that lead
to a restart. Of the networks two are in reach, `home` and `guest`, one is gone, and
there may be none; a radio setting reaches them or does not; a static address is one
of `home` or of `guest` and fits no other network.

| Model | Code |
|---|---|
| `SetUp`, `WifiConnect`, `StartSoftAp` | `setup`, `wifi_connect`, `start_soft_ap` |
| `Save` | `userSettings::save`, cut by a power failure or failing at each of its steps |
| `SyncAndRestart`, `PageRestarts`, `TimerRestarts`, `ApTimeout`, `FactoryReset` | `sync_and_restart` and what leads to it |
| `Join`, `Drop`, `WifiCheck` | `onGotIP`, `wifi_loop` and its three outcomes |
| `SetGdo`, `SetSsid` | `handle_setgdo`; `handle_setssid`, which is served in access point mode and to a connected station |
| `Improv`, `ImprovNoise`, `SerialWifi`, `AskForAp` | `improv_loop`, the command line |
| `Push`, `PushesAge`, `RestartFires`, `DoorRequest` | `manual_recovery`, and the close delay that shares its timer |

### EventChannels

`Subscribe`, `Listen`, `StatusBroadcast`, `LogBroadcast` and `Heartbeat` are the
handlers of `web.cpp`; `Leave` is the browser's. In a build that logs debug
messages a removal logs, the log is broadcast, and the broadcast may remove the
same channel again (`MaybeTwice`).

## 3. Runs

| Run | Bounds | Distinct states | Shows |
|---|---|---|---|
| `sec2tx` | 2 ids, queue 3, 2 sync packets, 1 retry, save every 2, codes to 6 | 558,415 | `NextCodeFresh`, `RebootAhead`, `FlashFollows`, refinement `LedgerKept`, `HeadNeverStuck` |
| `sec2tx_reuse` | queue 4 | - | violation, see findings |
| `door` | queue 2, one packet under way, no delay | 462,440 | `ClosedIsHeard`, `OneReversal`, `ReversalGoesOut`, `NeverShutOut`, `ReportCatchesUp` |
| `door_delay` | queue 1, delay of one tick | 653,120 | `DelayEnds` |
| `door_open_cancel`, `door_reverse`, `door_twice` | queue 2 | - | violations, see findings |
| `alerts` | clock of 8, limits 0, 2 and 5; history of 4 openings; ring of 12 bytes | 551,816 | `LeftOpenOnTime`, `CloseFailsInTime`, `FailureLatched`, `StateFollowsEnds`, `TravelUnlessMissed`, `EstimateOutlivesErrors`, `LogReadsInOrder` |
| `refresh` | clock of 20, intervals 1 and 4; light queue 2; Security+ 1.0 queue 4, one fault; packet 4, preamble 2, serial 2, ring 5, pass 4 | 775,519 | `SilenceBounded`, `FastRetriesBounded`, `PendingIsUnderWay`, `LightRecordSettles`, `NotFooledOnce`, `DoorButtonReleased`, `GapFlagged`, `SpliceNoticed`, `LossRecovers`, `RxPacketsComeThrough` |
| `rx_joined` | packets and buffers as in `refresh` | - | violation, see findings |
| `ota` | uploads of up to 2 chunks; 3 requests and 2 mishaps; 3 channels for 4 browsers | 173,917 | `OnlyWholeImages`, `VerifyHarmless`, `LiveUploadKept`, `UploadEnds`, `FailedUploadRestarts`, `BoardComesBack`, `ChannelsAddUp` |
| `ota_stalled` | same | - | violation, see findings |

Each passing run also checks the module's `TypeOK`, or `UnitsTypeOK` of all modules
side by side (except `door_delay`, a second instance of a checked module). Only `ota`
is checked without deadlock: a connected board, with the bounds on what users do and
what goes wrong used up, rests.

### Why the bounds are enough

- `sec2tx`: a door command needs three places of the queue (press, release,
  query), so a queue of 3 meets the full, the nearly full and the empty queue.
  Codes to 6 allow three saves, or two starts with a save between. One retry
  reaches the give-up. `CodeLimit` is the only cap on a counter: at it
  `Transmit` and the two kinds of restart stop. `CodeSpace` is larger, so
  codes do not wrap in the model (28 bits in the code).
- `door`: the code asks only whether a command is pending and the queue is full; a
  queue of 2 is full, has room for one command, and has room for both commands of a
  reversal. One packet under way already crosses with any request; a packet that does
  not fit is lost. `door_delay` asks about timers only and has a queue of 1.
- `alerts`, `refresh`: the clock is longer than every interval compared with it
  (an `ASSUME`), as in the code, and wraps many times in the reachable states.
- `Sec2Rx`: the pump empties the serial buffer and one packet fits a pass, as in the
  code (64 bytes against 32, and against 19); the ring is no multiple of the
  packet, so overflow cuts at every position.
- `ota`: the first, a middle and the last moment of an upload are distinct with 2
  chunks. A board needs one bad setting and one mishap while it is saved or tried to
  be lost, two mishaps also meet one during the recovery, and three requests let a
  recovery, a change on the command line and a door request cross: the exception
  `Unfit` of `Board` takes all three. With 3 channels and 4 browsers the channels
  run out while one is being taken over and another removed.
- `LightLock`: a verified switch of the light needs two places, so a queue of 2 is
  empty, half full and full; one lost packet and two switches by others cross with
  any request.
- `Sec1`: the start-up sequence has one entry of each kind the code treats apart, the
  query of the obstruction and its answer of zero among them, and the last three are
  polled for ever, as in the code; a door button needs
  three places, so a queue of 4 cuts every second button. One fault is the claim; two
  do fool the reader, which believes an answer it has seen twice.
- `DryContact`: two requests pile up, one more than the loop leaves, and up to three
  that were latched or are still being pressed.
- `DoorTimes`: 4 openings kept of 5 recorded wrap the ring once, an even and an odd
  number of times are sorted, and one to two of them are wrong.
- `LogRing`: lines of 2, 5 and 7 bytes fill a ring of 12 at every alignment, 30 bytes
  wrap it twice, and a chunk is shorter than what is printed.

### Fairness

- `Sec2Tx!FairSpec`: the loop goes on while there is power (weak fairness of the
  tail of a pass and of boot and erase once begun). The head of the queue is
  offered again and again: strong fairness, because a pass that receives a packet
  does not transmit and the minimum gap between packets disables it for a while.
- `DoorControl!FairSpec`: received packets are handled; of the endless status
  queries (every five minutes, `Sec2Refresh`) infinitely many are answered and
  heard. A state that is not known and a MotorOn are handled like any packet. Nothing
  is assumed of commands, timers or the user. `FairTimer` says
  only that an active periodic timer fires and that what it schedules runs.
- `Sec2Rx!RxFairSpec`: the loop goes on; the opener goes on sending. Nothing is
  assumed of the scheduled pump, which may not even exist (`sec2RxScheduled`).
- `OtaUpdate!FairSpec`: the parser, loop, timers and scheduled functions go on;
  `PollRecovery` is strongly fair because `web_loop` polls it before it takes a
  request. Nothing is assumed of the client.
- `LightLock!Fairness`: the loop sends the head of the queue and handles what is
  received in every pass, the opener answers, and the status is asked for whenever
  the queue is empty and the interval is over. Nothing is assumed of users.
- `Board!Fairness`: power returns, `setup` runs to its end, timers fire, and a
  network that is in reach is joined. Nothing is assumed of users, of the flash, of
  the gateway's answers, or that the network stays.

## 4. Proofs

`Sec2TxProofs` proves, for every set of ids and every size, under
`Sec2TxAssumption` only (sizes are naturals, codes do not wrap below the bound):

| Theorem | Statement |
|---|---|
| `TypeCorrect` | `Spec => []TypeOK`: in particular the queue never exceeds its size |
| `CodeInvariant` | `Spec => []CodeInv`, the inductive invariant |
| `CodesFresh` | `Spec => []NextCodeFresh` |
| `RebootsAhead` | `Spec => []RebootAhead` |
| `FlashFollowsCode` | `Spec => []FlashFollows` |
| `LedgerImplemented` | `Spec => LedgerKept`, i.e. `Sec2Tx` implements `CodeLedger` |

None of the properties is inductive. `RebootAhead` compares flash with what was
sent, and a transmission moves only the counter in RAM. `CodeInv` links them for
every point of the loop: in `loop` and `tail`, `lastSaved` is what flash holds
and what was sent is at most one above the counter; at the top of a pass the
counter is less than `SaveEvery` above flash; in `tail`, after a transmission, at
most `SaveEvery` above; in `save` the counter has already jumped and flash has
not. A power loss anywhere then finds `aired <= nvRolling + SaveEvery`, which is
where the next boot starts. Each conjunct was model-checked before it was proved.
The refinement uses `CodeInv` to show that each `Transmit` is an `Air` of a code
not below the floor, `Boot` with a stored id is `Retire`, a new id is `Renew`,
and all else stutters.

`Sec2RxProofs` proves, for every size of packet, preamble and buffers, under
`Sec2RxAssumption` only (a pump empties the serial library, a pass may take a
whole packet, the preamble is shorter than a packet):

| Theorem | Statement |
|---|---|
| `RxTypeCorrect` | `RxSpec => [](RxTypeOK /\ CountInv)`: neither buffer exceeds its size, the reader never writes behind `m_rx_buf` |
| `GapsFlagged` | `RxSpec => []GapFlagged` |
| `SplicesNoticed` | `RxSpec => []SpliceNoticed` |

`GapFlagged` speaks of the receive buffer only and is not inductive: bytes may
have been lost in the serial library long before a pump moves what follows them.
`GapInv` says where the stream goes on after a loss: at the head of the receive
buffer, or else at the head of the serial library, or else at the next byte of
the opener, with nothing buffered before it; while the library still holds bytes
from before a loss it is full and its flag is set, so that the next pump clears
them. In each of the first three cases the reader holds nothing or `loss` is set.
`PumpKeepsGaps` is the lemma about a pump that both `Service` and `Begin` use.

`DoorControlProofs` proves, for queues of every length and every setting, under
`DoorControlAssumption` only:

| Theorem | Statement |
|---|---|
| `DoorInvariant`, `DoorTypeCorrect` | `Spec => []DoorInv`, `Spec => []TypeOK` |
| `ClosedOnlyWhenHeard` | `Spec => []ClosedIsHeard` |
| `ReversalsExclude` | `Spec => []OneReversal` |
| `ReversalsGoOut` | `Spec => ReversalGoesOut`: with room in the queue the reversal goes out, and nothing else |

`update_door_state` is called with a packet's state, a guess from MotorOn or a
partial opening, so `UpdateKeeps` is proved once for any state, and `ReportIs` says
that the reported state becomes the one handed over whether or not HomeKit is told.
How often the reversal goes out is another matter, see `door_twice` under findings.
`ReversalsGoOut` rests on `OneReversal`: the code looks at `stopSentOpenPending`
first, and a closing only goes out because that is then zero.

`Sec2DialogueProofs`, for every clock, interval and number of retries under
`Sec2RefreshAssumption`, and for queues of every length (`CmdLen` a natural number;
`LightSized` says the same of all sizes of `LightLock`):

| Theorem | Statement |
|---|---|
| `RequestInvariant` | `LightSpec => []RequestInv`, the inductive invariant of requests |
| `PendingUnderWay` | `LightSpec => []PendingIsUnderWay` |
| `LightTyped` | `LightSpec => []LightTypeOK` |
| `RefreshInvariant` | `Spec => []RefreshInv`, the inductive invariant of the refresh |
| `FastRetries` | `Spec => []FastRetriesBounded` |
| `SilenceEnds` | `Spec => []SilenceBounded` |

`PendingIsUnderWay` says that a command or an answer is somewhere; to keep saying so
one must know where. In `RequestInv` either the last switching command in the queue
is the pending one and, for the light, a status is asked for behind it; or none is
queued, the opener has obeyed, and a light's answer is on its way back or asked for.
`PushedOrDropped` says that a queue either takes all of what is pushed or is seen to
drop some, which sets `spoilt`.

`SilenceBounded` speaks of true times, the code of clock readings, which forget whole
turns. `RefreshInv` compares the two: a query is not overdue by what the clock says,
or it was not when the clock last turned, and then the opener had been talking until
then. `FilledPass` and `RecentPass` carry that over one pass, with and without room in
the queue. `FastRetriesBounded` follows because each fast query is unanswered:
`fastPolls <= unanswered`.

`Sec1Proofs`:

| Theorem | If | Statement |
|---|---|---|
| `ButtonInvariant` | `OneFault` | `Sec1Spec => []ButtonInv`, the inductive invariant of buttons |
| `DoorReleased` | `OneFault` | `Sec1Spec => []DoorButtonReleased` |
| `AnswerInvariant` | at most one fault | `Sec1Spec => []AnswerInv`, the inductive invariant of answers |
| `NotFooled` | at most one fault | `Sec1Spec => []NotFooledOnce` |
| `Sec1Typed` | `Sized` | `Sec1Spec => []Sec1TypeOK` |
| `DialogueTyped` | `Sized`, `LightSized` | `MCSpec => []UnitsTypeOK`, with the receive buffers by `RxSteps` |

`OneFault` also says that no entry of the start-up sequence presses the door button,
`Sized` that the polled entries are part of that sequence, which is the code's table.
More than one fault does fool the reader, see above; with one it is what the code
claims.

Every press of the door in the queue has two releases right behind it, so one may be
lost; while the opener holds the button, either the press is still to be sent again,
or two releases head the queue, or one and the fault is used up.

A report takes two answers in a row that agree. `AnswerInv` counts the wrong ones among
those that will be taken for answers, wherever they are: what was seen last (`prev`),
the byte being waited for, and each byte of the buffer behind a query. One fault makes
at most one of them wrong. This holds because the wire is in step: where one answer is
owed, the query that waits for it is the last byte on the wire, and more than one is
owed only after the fault, before anything wrong has arrived (`InStep`).

`DoorSideProofs`, under the named assumptions of `DoorAlerts`, `DoorTimes` and
`LogRing`:

| Theorem | Statement |
|---|---|
| `ContactInvariant`, `StateFollows` | `DrySpec => []ContactInv`, `DrySpec => []StateFollowsEnds` |
| `AlertsInvariant` | `Spec => []AlertsInv`, the inductive invariant of the alerts |
| `LeftOpenRaised` | `Spec => []LeftOpenOnTime` |
| `CloseFailureSeen` | `Spec => []CloseFailsInTime` |
| `FailureStays` | `Spec => FailureLatched` |
| `TimesInvariant` | `TimesSpec => []TimesInv`: the estimate is the median of what is kept |
| `RecordsTravel` | `TimesSpec => TravelUnlessMissed` |
| `EstimateOutlives` | `TimesSpec => []EstimateOutlivesErrors` |
| `LogInvariant` | `RingSpec => []LogInv`, the inductive invariant of the ring |
| `LogInOrder` | `RingSpec => []LogReadsInOrder` |
| `RingTyped`, `DryTyped` | `RingSpec => []RingTypeOK`; `DrySpec => []DryTypeOK` if `MaxRequests` is a natural number |
| `DoorSideTyped` | `MCSpec => []UnitsTypeOK`, likewise |

- Dry contacts: the invariant ties the flags of the callbacks to the stages of
  OneButton. That few requests pile up needs more: a button that is held and has not
  been seen yet is counted like the request it is going to make (`RequestsFit`).
- Alerts: `SinceAdds` is the fact about a clock that turns over. An interval
  shorter than a turn is told exactly; as the assumption has updates come often enough,
  the time the alerts go by is the true one, up to the day at which both stop. A closing
  door is watched from its true start, so the alert cannot come late.
- Ring: the byte `k` places behind the head is the one logged `k` bytes ago. Together
  with how far a print has come (`Reached`), this gives its text, up to the four bytes
  that alignment may cost. `LineAdded` treats a line that wraps.
- Times: while a measurement runs and no report was missed, the door is on its way from
  the closed end, is known to be, and has travelled for as long as is measured
  (`Measuring`). A stop or a turn ends that, and so does the code's measurement; without
  the abandoned measurements `RecordsTravel` would be false.
- Times: that the median survives a minority of errors is a fact about sorting, and the
  sort is a recursive function. What that computes is proved here without
  an induction principle over operators: the places up to which it is right are a set
  of naturals, and a least one outside it would contradict its predecessor (`Climbs`, by
  well-foundedness of the order). `InsertArranges` and `SortArranges` give a sorted
  permutation; `MajorityMeets` says that a majority of its places has a member in each
  half, so that a true time is not above the median and one not below.

`OtaUpdateProofs`, under `OtaUpdateAssumption`: `ImageInvariant`, `OtaTypeCorrect`,
`WholeImagesOnly` (`Spec => []OnlyWholeImages`), `VerifyingIsHarmless` (`Spec =>
VerifyHarmless`) and `TimeoutSparesLive` (`Spec => LiveUploadKept`). For the last the
client's silence, a history of what came, is compared with the code's: `QuietInv` says
that while an upload that is let in has not failed, what the code takes for silence is
the client's, as every chunk that is heeded starts the idle time anew. `ImageInv`, the
invariant of the others, adds that while an accepted file is being written the services
are stopped and nothing has failed (`UploadClean`), and that an image is selected only
by the session that stopped the services, which lasts until the restart (`StagedOnce`).

`BoardSideProofs`, if `MaxAsks` and `MaxMishaps` are natural numbers (`Bounded`), and
`Channels` is one and no browser's id is empty (`Channelled`):

| Theorem | Statement |
|---|---|
| `ChannelsInvariant`, `ChannelsCounted` | `ChannelsSpec => []ChannelsInv`, `ChannelsSpec => []ChannelsAddUp` |
| `SettingsWatched` | `BoardSpec => [](~spoilt => NeverUnchecked)` |
| `BoardSideTyped` | `MCSpec => []UnitsTypeOK` |

Cardinalities of channels are followed through sets of removed ones; `LowestIsOne`
gives the channel that a newcomer takes.

`SettingsWatched` is the safety half of `ComesBack`, whose liveness half TLC checks: for
any number of requests and mishaps, no setting that keeps a network in reach from being
used is in the file, in RAM or in use without the mark that makes the next check find
it, unless one of the exceptions named at `ComesBack` happened; the network page used
in station mode (`Stale`) is among them. Its invariant adds what a connected board shows: the
network is one of those in reach and the radio is automatic.

Proving corrected the models where the checks had been too small to object:

- `Board`: `ComesBack` was false with three requests. A rename that fails leaves the
  defaults in the file; the command `W` then moves a running station to a network for
  which its static address does not work; a door request cancels the restart a recovery
  had armed. The station never connects, and never checks. This exception (`Unfit`)
  is now named, and the run takes three requests.
- `Sec2Refresh`: the slack of `SilenceBounded` was too small where a pass takes more
  than one unit of time. It is now `(2 * MaxBusy + 1) * PassGap`.
- `Sec1`: nothing seen yet was modelled by zero, which is also an answer, the one
  about the obstruction. It is now 0xFF as in the code, and the start-up sequence
  includes that query.
- `DoorTimes`: a time is inserted behind the last one that is not longer, where the
  code's loop stops.

Only model-checked, because fairness and ENABLED are out of the prover's reach: the
liveness properties `HeadNeverStuck`, `NeverShutOut`, `ReportCatchesUp`, `DelayEnds`,
`LossRecovers`, `RxPacketsComeThrough`, `LightRecordSettles`, `UploadEnds`,
`FailedUploadRestarts` and `BoardComesBack`. Every invariant and every action property
of a passing run has a theorem.

## 5. Findings

| Run | What the code does | What the repository says |
|---|---|---|
| `sec2tx_reuse` | If the release cannot be queued behind its press (full queue), or is dropped after too many collisions, the next packet carries the code of the press. | `docs/syncing.md:5` each packet's code must be higher than the last |
| `door_reverse` | Where closing needs a toggle, a close request on an opening door stops it, but the follow-up looks at a state not updated yet and sends nothing. | `README.md:206`, `comms.cpp:1089` |
| `door_twice` | After a stop the reversal is commanded twice on purpose, but the first call sets `pendingDoorCommand`, and `door_command` drops the second at that check (`comms.cpp:2608`): one command is queued, with room for two. | `comms.cpp:1093-1095` |
| `door_open_cancel` | `open_door` detaches `TTCtimer`, not a tick already handed over nor the last `callbackDelay`; the door closes after the cancellation. | `comms.cpp:2798` |
| `ota_stalled` | An upload refused before the idle timer is armed (not authenticated, or services already stopped) holds the parser as long as its client stays connected. | `web.cpp:2048-2049` |
| `rx_joined` | A loss while an earlier overflow is being logged joins both sides of the gap into one packet; the reader is reset a pass later. `SpliceNoticed` shows that the status is then asked for. | `test/host/sec2_rx.cpp:42-43` |

Met while modelling, visible in the models, without a run of their own:

- After `reset_door` without a restart the old id is sent with codes from zero.
- The status of a silent opener may be asked for after up to twice five minutes,
  when the opener has talked unasked for a whole turn of the clock
  (`SilenceBounded`).
- `close_door` on an opening door does not use the close delay; a `CLOSED` report
  does not cancel a running delay, so an open request then only cancels it.
- `stop_door` does not cancel a reversal that is waiting for its stop.
- `README.md:380` says that after a failed update the device stays up if the user
  cancels; the code restarts it after 1.5 seconds.
- Light and lock: the pending flag is set before the queue is found to be full, and
  nothing but a change of the recorded state clears it (`comms.cpp:3446`, `3454`). A
  request whose packets were dropped or lost is then taken for a duplicate for good.
- Security+ 1.0: reports about the light are ignored while the close delay's timer
  runs, so that cancelling the delay never restores the light as the comment at
  `comms.cpp:2803` has it; a flashing press is not released when the delay is cancelled;
  a panel once detected is never searched for again.
- A comment on the obstruction sensor says at least 3 pulses, the code takes more than 3.
- `userSettings::save` (`config.cpp:628-648`) writes a new file and means to replace the old
  one at once, but removes the old one first; a power cut there, or a rename that fails,
  leaves none, and the defaults at the next start.
- `handle_setgdo`: the settings before a key that fails stay in RAM, and the next save
  stores them unchecked; any request clears the flag that asks for the check of a
  changed WiFi setting (`web.cpp:1434`). A factory reset from the access point
  writes the old settings again.
- Recovery by pushes: a push after the 3 seconds sets the count to zero and is not
  itself counted, so that five pushes (`README.md:333`) may take six; a door request
  cancels the restart while the request for an access point stays saved.
- The command `W` of the serial console asks "Connect ... and restart?"
  (`serialCLI.cpp:325`) and does not restart: a station goes on with the static
  address of the network before, which nothing is going to check (`Unfit`).
- Improv as a station does not save the settings it resets; a failed attempt leaves
  WiFi disconnected; a damaged Improv packet closes the file system. Credentials are
  stored before the settings that go with them.
- `wifi_loop` pings the gateway under DHCP too. A gateway that does not answer pings
  leads to a new connection and a write to flash every 30 seconds; one lost ping drops a
  good static address.
- The attempts counted in `connect_wifi` stay at one (`softAP.cpp:556`).
- `printMessageLog` prints a wrapped ring twice when the head is in its last four bytes;
  a line logged while another one is broadcast replaces it in the shared buffer.
- Server-sent events: the release of a channel after failed heartbeats is not reached
  on the ESP8266 (`web.cpp:1552`); the handler replaces the client of a channel before
  it compares ids (`web.cpp:1574`), and an empty id would match a free one; with debug
  messages a channel may be removed, and counted out, twice.
- A dry contact that closes for less than a long press leaves its flag set
  (`DryContact`, `short`); contacts tied together may ask to open and to close
  where `README.md:250` has a toggle.
- Buttons pressed while their setting is off stay latched (`drycontact.cpp:136`); turned
  on, it acts on them.
- The time of an opening that is paused or turned is recorded when the report of that is
  lost, and a wrong time when the report of its start or end is late. What is reported
  ends the measurement (`comms.cpp:1167-1175`).
- `/setssid` on a connected station resets the static address and the radio in RAM only
  (`softAP.cpp:505-511`), under the comment "We should reset WiFi if changing networks";
  the restart saves settings in access point mode only (`utilities.cpp:299-309`), and
  joining the new network has saved the old ones. The next start uses the old address
  in the new network, and nothing is going to check it (an exception of `ComesBack`).

## 6. Plan

Built, in this order: `CodeLedger`, `Sec2Tx`, `Sec2TxProofs` (a mistake there makes
the opener ignore the board for good), `DoorControl` (what the program is for),
`DoorAlerts`, `Sec2Refresh`, `OtaUpdate`, `Sec2Rx`, `Sec2RxProofs`; then `LightLock`,
`Sec1`, `DryContact`, `DoorTimes`, `LogRing`, `Board`, `EventChannels`, and the proofs
about all of them: first `DoorControlProofs`, `OtaUpdateProofs`, and what is now in
`Sec2DialogueProofs`, `Sec1Proofs`, `DoorSideProofs` and `BoardSideProofs`.

Next, the model:

1. `DoorControl`: stopping cancels what is waiting (`StopStops`); the timer that is
   built into the opener. An abstract `Door` (requested, moving, at rest) for it to
   implement.
2. `HomeKitEvents`: the ownership patch, pairing callbacks, and their effect on
   communication during `OtaUpdate`.
3. `Sec2Link`: `Sec2Rx` composed with `Sec2Refresh`, loss to recovery to query.
4. The pulses of the obstruction sensor, and motion.

Next, the proofs, each from an invariant checked first:

1. `DoorControl` implements the abstract `Door` of item 1, step by step.
2. `StopStops`, once modelled: nothing that waits survives an explicit stop.
3. `Sec2Link`: what `SpliceNoticed` and `FastRetriesBounded` say together, that a
   loss is followed by a query and not by a flood of them.

## 7. Not modelled, and why

- The bit layout and cipher of packets: the cipher is an external library; the
  models use decoded packets.
- HTTP, JSON, HTML, logging text and the status LED: formatting, no state that the
  properties tell apart.
- Settings that do not decide how the board comes up: values with range checks in the
  same file.
- The crash log, time keeping, and the pages and scans of the access point: output.
- The ESP32 and GDOLIB branches, and the rotary encoder: no build environment of
  the repository compiles them.
- Libraries (serial, Ticker, WiFi, `Update`, HomeKit server, flash file system)
  are modelled only as far as the firmware uses them; such definitions are marked
  external in the map.
- The components under "Plan" above, until their modules exist.
