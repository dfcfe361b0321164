------------------------------- MODULE Sec2Tx -------------------------------
(***************************************************************************)
(* The Security+ 2.0 transmit side of comms.cpp: the bounded command queue,*)
(* collisions and retries, the rolling code that every packet carries, and *)
(* the two integers kept in flash (client id, rolling code) that let the   *)
(* firmware pick up after a power loss.                                    *)
(*                                                                         *)
(* The firmware is one cooperative loop.  A pass of comms_loop_sec2 first  *)
(* either handles one received packet or offers the head of the queue to   *)
(* the bus, then does its housekeeping (new id on timeout, daily queries,  *)
(* saving the code).  The two halves are separate steps here because power *)
(* can fail between them; nothing else can run between them.               *)
(*                                                                         *)
(* Packets are abstracted to the client id they were built with and to     *)
(* what they do to the counter: a door-button "press" leaves it alone      *)
(* (inc_counter = false), a "release" and every other packet ("query":     *)
(* status, openings, battery, light, lock, TTC) advance it.                *)
(***************************************************************************)
EXTENDS Naturals, Sequences

CONSTANTS Id,         \* client ids that random() can produce
          NoId,       \* the zero read when no id is stored
          QueueSize,  \* COMMAND_QUEUE_SIZE (16)
          SyncLen,    \* packets queued by initialize_gdo_codes (5)
          MaxRetry,   \* MAX_COMMS_RETRY (10)
          SaveEvery,  \* MAX_CODES_WITHOUT_FLASH_WRITE (10)
          CodeSpace,  \* codes are 28 bits wide
          CodeLimit   \* bound of the model: the highest code it counts to

ASSUME Sec2TxAssumption ==
    /\ NoId \notin Id
    /\ QueueSize \in Nat \ {0}
    /\ SyncLen \in Nat
    /\ MaxRetry \in Nat
    /\ SaveEvery \in Nat \ {0}
    /\ CodeSpace \in Nat
    /\ CodeLimit \in Nat
    /\ CodeLimit < CodeSpace   \* the counter does not wrap within the model

VARIABLES
    pc,           \* "off"; "save": code chosen, not in flash yet; "loop": at the
                  \* top of a pass; "tail": housekeeping half of a pass;
                  \* "erase": reset_door between its two file removals
    nvId,         \* flash: nvram_id_code
    nvRolling,    \* flash: nvram_rolling
    idCode,       \* id_code
    rolling,      \* rolling_code
    lastSaved,    \* last_saved_code
    queue,        \* pkt_q
    retry,        \* retryCount of process_send_queue
    pendingDoor,  \* pendingDoorCommand
    statusStart,  \* comms_status_start # 0
    statusDone    \* comms_status_done

\* History, not state of the program: what has been on the air under idCode
\* (see CodeLedger), and whether reset_door has since given that id up.
VARIABLES aired, floor, abandoned

flash   == <<nvId, nvRolling>>
codes   == <<idCode, rolling, lastSaved>>
status  == <<statusStart, statusDone>>
history == <<aired, floor, abandoned>>
vars    == <<pc, flash, codes, queue, retry, pendingDoor, status, history>>

Cmd    == {"press", "release", "query"}
Packet == [id : Id \cup {NoId}, cmd : Cmd]

TypeOK ==
    /\ pc \in {"off", "save", "loop", "tail", "erase"}
    /\ nvId \in Id \cup {NoId}
    /\ nvRolling \in Nat
    /\ idCode \in Id \cup {NoId}
    /\ rolling \in Nat
    /\ lastSaved \in Nat
    /\ queue \in Seq(Packet) /\ Len(queue) <= QueueSize
    /\ retry \in 0..MaxRetry
    /\ pendingDoor \in BOOLEAN
    /\ statusStart \in BOOLEAN
    /\ statusDone \in BOOLEAN
    /\ aired \in Nat /\ floor \in Nat
    /\ abandoned \in BOOLEAN

Init ==
    /\ pc = "off"
    /\ nvId = NoId /\ nvRolling = 0
    /\ idCode = NoId /\ rolling = 0 /\ lastSaved = 0
    /\ queue = <<>> /\ retry = 0 /\ pendingDoor = FALSE
    /\ statusStart = FALSE /\ statusDone = FALSE
    /\ aired = 0 /\ floor = 0 /\ abandoned = FALSE
-----------------------------------------------------------------------------
(* The transmit queue.                                                      *)

\* inc_counter of a packet.
Advances(p) == p.cmd # "press"

\* (mutant) The queue is not asked whether it is full.
PushPastFull(q, id, n) == q \o [i \in 1..n |-> [id |-> id, cmd |-> "query"]]

\* n pushes of a query packet; a push onto a full queue drops the packet.
PushQueries(q, id, n) ==
    LET room == QueueSize - Len(q)
        k    == IF n <= room THEN n ELSE room
    IN  q \o [i \in 1..k |-> [id |-> id, cmd |-> "query"]]

\* door_command: press and release are pushed one by one, and the command only
\* counts as pending once both are in the queue; a status query follows.
WithDoorCommand(q, pending, id) ==
    LET press   == [id |-> id, cmd |-> "press"]
        release == [id |-> id, cmd |-> "release"]
    IN  IF pending \/ Len(q) = QueueSize
        THEN [queue |-> q, pending |-> pending]
        ELSE IF Len(q) + 1 = QueueSize
        THEN [queue |-> Append(q, press), pending |-> FALSE]
        ELSE [queue   |-> PushQueries(Append(Append(q, press), release), id, 1),
              pending |-> TRUE]
-----------------------------------------------------------------------------
(* Boot and initialize_gdo_codes.                                           *)

\* The code initialize_gdo_codes resumes from, given the one in flash.
ResumeWithoutJump(saved) == saved   \* (mutant) trusts the saved code
ResumeCode(saved) == saved + SaveEvery

\* (mutant) A new id that is used but not written to flash.
NewIdNotStored ==
    \E i \in Id :
        /\ idCode' = i
        /\ rolling' = 0
        /\ aired' = 0 /\ floor' = 0 /\ abandoned' = FALSE
        /\ UNCHANGED nvId

\* initialize_gdo_codes(0): a new random id, written to flash at once.
NewId ==
    \E i \in Id :
        /\ nvId' = i
        /\ idCode' = i
        /\ rolling' = 0
        /\ aired' = 0 /\ floor' = 0 /\ abandoned' = FALSE

\* Power on and setup_comms: with an id in flash the rolling code resumes
\* SaveEvery past the saved one.
Boot ==
    /\ pc = "off"
    /\ pc' = "save"
    /\ \/ /\ nvId = NoId
          /\ NewId
       \/ /\ nvId # NoId
          /\ idCode' = nvId
          /\ rolling' = ResumeCode(nvRolling)
          /\ floor' = aired
          /\ UNCHANGED <<nvId, aired, abandoned>>
    /\ UNCHANGED <<nvRolling, lastSaved, queue, retry, pendingDoor, status>>

\* The rest of initialize_gdo_codes: save the code, then queue the sync packets.
SaveAndSync ==
    /\ pc = "save"
    /\ pc' = "loop"
    /\ nvRolling' = rolling
    /\ lastSaved' = rolling
    /\ queue' = PushQueries(queue, idCode, SyncLen)
    /\ UNCHANGED <<nvId, idCode, rolling, retry, pendingDoor, status, history>>
-----------------------------------------------------------------------------
(* First half of a pass: receive, or offer the head of the queue.           *)

\* A status packet: update_door_state clears pendingDoorCommand, may follow a
\* stop up with the reversing command (issued twice) and may ask for the
\* openings; the first status after start-up completes initialization.
RxStatus ==
    /\ pc = "loop"
    /\ pc' = "tail"
    /\ \E followUp \in BOOLEAN, openings \in 0..1 :
         LET one  == WithDoorCommand(queue, FALSE, idCode)
             two  == WithDoorCommand(one.queue, one.pending, idCode)
             door == IF followUp THEN two
                     ELSE [queue |-> queue, pending |-> FALSE]
             done == ~statusDone /\ statusStart
         IN  /\ pendingDoor' = door.pending
             /\ queue' = PushQueries(door.queue, idCode,
                                     openings + IF done THEN 1 ELSE 0)
             /\ statusDone' = (statusDone \/ statusStart)
    /\ UNCHANGED <<flash, codes, retry, statusStart, history>>

\* Any other packet changes nothing here except that some are answered with a
\* status query.  A pass in which nothing arrives and nothing may be sent yet
\* (minimum gap between packets) is the case n = 0.
RxOther ==
    /\ pc = "loop"
    /\ pc' = "tail"
    /\ \E n \in 0..1 : queue' = PushQueries(queue, idCode, n)
    /\ UNCHANGED <<flash, codes, retry, pendingDoor, status, history>>

\* transmitSec2 succeeds: the head goes on the air with the present code.
Transmit ==
    /\ pc = "loop" /\ queue # <<>>
    /\ rolling < CodeLimit
    /\ pc' = "tail"
    /\ LET p == Head(queue) IN
         /\ rolling' = IF Advances(p) THEN (rolling + 1) % CodeSpace ELSE rolling
         /\ IF p.id = idCode /\ ~abandoned
            THEN /\ aired' = IF rolling + 1 > aired THEN rolling + 1 ELSE aired
                 /\ floor' = IF Advances(p) THEN rolling + 1 ELSE floor
            ELSE UNCHANGED <<aired, floor>>
    /\ statusStart' = (statusStart \/ ~statusDone)
    /\ queue' = Tail(queue)
    /\ retry' = 0
    /\ UNCHANGED <<flash, idCode, lastSaved, pendingDoor, statusDone, abandoned>>

\* (mutant) Retries without end.
CollideForEver ==
    /\ pc = "loop" /\ queue # <<>>
    /\ pc' = "tail"
    /\ retry' = IF retry < MaxRetry THEN retry + 1 ELSE retry
    /\ UNCHANGED <<queue, flash, codes, pendingDoor, status, history>>

\* transmitSec2 sees a collision: the head stays for another attempt, until
\* MaxRetry attempts have failed before this one and it is dropped.
Collide ==
    /\ pc = "loop" /\ queue # <<>>
    /\ pc' = "tail"
    /\ \/ /\ retry < MaxRetry
          /\ retry' = retry + 1
          /\ UNCHANGED queue
       \/ /\ retry >= MaxRetry
          /\ retry' = 0
          /\ queue' = Tail(queue)
    /\ UNCHANGED <<flash, codes, pendingDoor, status, history>>
-----------------------------------------------------------------------------
(* Second half of a pass: the housekeeping of comms_loop_sec2.              *)

\* No status within COMMS_STATUS_TIMEOUT of the first packet: try a new id.
StatusTimeout ==
    /\ pc = "tail"
    /\ ~statusDone /\ statusStart
    /\ pc' = "save"
    /\ statusStart' = FALSE
    /\ NewId
    /\ UNCHANGED <<nvRolling, lastSaved, queue, retry, pendingDoor, statusDone>>

SaveDueLate == rolling > lastSaved + SaveEvery   \* (mutant) one code late
SaveDue == rolling >= lastSaved + SaveEvery

\* The timeout has not expired: every 55 minutes queue two queries, and save
\* the code once SaveEvery codes have been used since the last save.
Housekeeping ==
    /\ pc = "tail"
    /\ pc' = "loop"
    /\ \E n \in {0, 2} : queue' = PushQueries(queue, idCode, n)
    /\ IF SaveDue
       THEN nvRolling' = rolling /\ lastSaved' = rolling
       ELSE UNCHANGED <<nvRolling, lastSaved>>
    /\ UNCHANGED <<nvId, idCode, rolling, retry, pendingDoor, status, history>>
-----------------------------------------------------------------------------
(* Between passes: requests, timers, resets and power.                      *)

\* A door request from HomeKit, the web page, a switch or a delayed close.
DoorCommand ==
    /\ pc = "loop"
    /\ LET door == WithDoorCommand(queue, pendingDoor, idCode)
       IN  queue' = door.queue /\ pendingDoor' = door.pending
    /\ UNCHANGED <<pc, flash, codes, retry, status, history>>

\* Any request that queues one advancing packet (light, lock, status, TTC).
Request ==
    /\ pc = "loop"
    /\ queue' = PushQueries(queue, idCode, 1)
    /\ UNCHANGED <<pc, flash, codes, retry, pendingDoor, status, history>>

\* The door did not move, or did not finish, in time: the command is no longer
\* pending; the completion timers also ask for the status.
DoorTimer ==
    /\ pc = "loop"
    /\ pendingDoor' = FALSE
    /\ \E n \in 0..1 : queue' = PushQueries(queue, idCode, n)
    /\ UNCHANGED <<pc, flash, codes, retry, status, history>>

\* reset_door, from the serial console or from a web request.  The two files
\* are removed one after the other, the rolling code first.
ResetDoor ==
    /\ pc = "loop"
    /\ pc' = "erase"
    /\ rolling' = 0
    /\ nvRolling' = 0
    /\ abandoned' = TRUE
    /\ UNCHANGED <<nvId, idCode, lastSaved, queue, retry, pendingDoor, status,
                   aired, floor>>

EraseId ==
    /\ pc = "erase"
    /\ pc' = "loop"
    /\ nvId' = NoId
    /\ UNCHANGED <<nvRolling, codes, queue, retry, pendingDoor, status, history>>

\* Variables in RAM come back with their initial values.
RamLost ==
    /\ idCode' = NoId /\ rolling' = 0 /\ lastSaved' = 0
    /\ queue' = <<>> /\ retry' = 0 /\ pendingDoor' = FALSE
    /\ statusStart' = FALSE /\ statusDone' = FALSE

\* sync_and_restart: the code is saved and the chip restarts.
Restart ==
    /\ pc = "loop"
    /\ rolling + SaveEvery <= CodeLimit
    /\ pc' = "off"
    /\ nvRolling' = rolling
    /\ RamLost
    /\ UNCHANGED <<nvId, history>>

\* Power fails, the watchdog bites or the code crashes: only flash survives.
PowerLoss ==
    /\ pc # "off"
    /\ nvRolling + SaveEvery <= CodeLimit
    /\ pc' = "off"
    /\ RamLost
    /\ UNCHANGED <<flash, history>>
-----------------------------------------------------------------------------
Pass == \/ RxStatus \/ RxOther \/ Transmit \/ Collide
        \/ StatusTimeout \/ Housekeeping

Next ==
    \/ Boot \/ SaveAndSync
    \/ Pass
    \/ DoorCommand \/ Request \/ DoorTimer
    \/ ResetDoor \/ EraseId
    \/ Restart \/ PowerLoss

Spec == Init /\ [][Next]_vars

\* The loop keeps running while there is power, and the bus is offered the head
\* of the queue again and again (the minimum gap between packets passes, and
\* received packets do not fill every pass).
FairSpec ==
    /\ Spec
    /\ WF_vars(SaveAndSync)
    /\ WF_vars(EraseId)
    /\ WF_vars(Housekeeping \/ StatusTimeout)
    /\ SF_vars(Transmit \/ Collide)
-----------------------------------------------------------------------------
(* Properties.                                                              *)

Live == pc # "off"

\* The code a packet would carry now has not been retired: no command before
\* it consumed that code, and no earlier life of the firmware put it on the
\* air.  (transmitSec2 with initialize_gdo_codes and the save in the loop.)
NextCodeFresh == Live /\ ~abandoned => rolling >= floor

\* Wherever power fails, also between a transmission and the save that follows
\* it, the code the next boot resumes from lies above everything on the air:
\* "Increment rolling code so that it will be ahead of what the GDO thinks".
RebootAhead == ~abandoned => ResumeCode(nvRolling) >= aired

\* Flash lags the counter by at most SaveEvery codes between passes, and a
\* restart never finds an id in flash other than the one on the air.
FlashFollows ==
    /\ pc = "loop" /\ ~abandoned => rolling < nvRolling + SaveEvery
    /\ Live /\ ~abandoned => nvId = idCode

\* The bookkeeping keeps the promise of CodeLedger, step by step.
Ledger == INSTANCE CodeLedger WITH Code <- 0..CodeLimit
LedgerKept == Ledger!Spec

\* A packet that collides is sent or given up: no head of the queue blocks the
\* packets behind it for ever (process_send_queue).
HeadNeverStuck == retry > 0 ~> retry = 0

\* docs/syncing.md: "Each subsequent packet's rolling code must be higher than
\* the last one sent, for the given client ID."  Stated here for every packet
\* except a release, which the firmware sends with the code of its press.
EachCommandHigher ==
    [][Transmit /\ ~abandoned /\ Head(queue).id = idCode
                /\ Head(queue).cmd # "release"
       => rolling >= aired]_vars
=============================================================================
