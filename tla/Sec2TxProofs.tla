---------------------------- MODULE Sec2TxProofs ----------------------------
(***************************************************************************)
(* Proofs about Sec2Tx for every queue size, retry limit, save interval,   *)
(* id set and code bound that Sec2TxAssumption admits.                     *)
(***************************************************************************)
EXTENDS Sec2Tx, SequenceTheorems, TLAPS

\* Pushing queries keeps the queue typed and within its capacity (q_push on a
\* full queue drops the packet).
LEMMA PushQueriesType ==
    ASSUME NEW q \in Seq(Packet), Len(q) <= QueueSize,
           NEW id \in Id \cup {NoId}, NEW n \in Nat
    PROVE  /\ PushQueries(q, id, n) \in Seq(Packet)
           /\ Len(PushQueries(q, id, n)) <= QueueSize
<1> DEFINE k == IF n <= QueueSize - Len(q) THEN n ELSE QueueSize - Len(q)
           p == [id |-> id, cmd |-> "query"]
           s == [i \in 1..k |-> p]
<1>1. Len(q) \in Nat /\ QueueSize \in Nat
  BY Sec2TxAssumption, LenProperties
<1>2. k \in Nat /\ Len(q) + k <= QueueSize
  BY <1>1
<1>3. p \in Packet
  BY DEF Packet, Cmd
<1>4. s \in [1..k -> Packet]
  BY <1>3
<1>5. s \in Seq(Packet)
  BY <1>2, <1>4, SeqDef
<1>6. Len(s) = k
  BY <1>2, <1>4, <1>5, LenProperties
<1>7. PushQueries(q, id, n) = q \o s
  BY DEF PushQueries
<1> HIDE DEF s, k, p
<1>8. QED
  BY <1>1, <1>2, <1>5, <1>6, <1>7, ConcatProperties

\* A door command keeps the queue typed and within its capacity, whichever of
\* its packets still fit.
LEMMA WithDoorCommandType ==
    ASSUME NEW q \in Seq(Packet), Len(q) <= QueueSize,
           NEW pending \in BOOLEAN, NEW id \in Id \cup {NoId}
    PROVE  LET d == WithDoorCommand(q, pending, id)
           IN  /\ d.queue \in Seq(Packet)
               /\ Len(d.queue) <= QueueSize
               /\ d.pending \in BOOLEAN
<1> DEFINE press   == [id |-> id, cmd |-> "press"]
           release == [id |-> id, cmd |-> "release"]
           one     == Append(q, press)
           two     == Append(one, release)
<1>1. Len(q) \in Nat /\ QueueSize \in Nat
  BY Sec2TxAssumption, LenProperties
<1>2. press \in Packet /\ release \in Packet
  BY DEF Packet, Cmd
<1>3. one \in Seq(Packet) /\ Len(one) = Len(q) + 1
  BY <1>2, AppendProperties
<1>4. two \in Seq(Packet) /\ Len(two) = Len(q) + 2
  BY <1>1, <1>2, <1>3, AppendProperties
<1>5. CASE pending \/ Len(q) = QueueSize
  BY <1>5 DEF WithDoorCommand
<1>6. CASE ~(pending \/ Len(q) = QueueSize) /\ Len(q) + 1 = QueueSize
  BY <1>6, <1>3 DEF WithDoorCommand
<1>7. CASE ~(pending \/ Len(q) = QueueSize) /\ Len(q) + 1 # QueueSize
  <2>1. Len(two) <= QueueSize
    BY <1>1, <1>4, <1>7
  <2>2. /\ PushQueries(two, id, 1) \in Seq(Packet)
        /\ Len(PushQueries(two, id, 1)) <= QueueSize
    BY <2>1, <1>4, PushQueriesType
  <2>3. WithDoorCommand(q, pending, id)
          = [queue |-> PushQueries(two, id, 1), pending |-> TRUE]
    BY <1>7 DEF WithDoorCommand
  <2>4. QED
    BY <2>2, <2>3
<1>8. QED
  BY <1>5, <1>6, <1>7

\* Taking the head off keeps the rest typed and within capacity.
LEMMA TailType ==
    ASSUME NEW q \in Seq(Packet), Len(q) <= QueueSize, q # <<>>
    PROVE  /\ Tail(q) \in Seq(Packet)
           /\ Len(Tail(q)) <= QueueSize
           /\ Head(q) \in Packet
BY Sec2TxAssumption, HeadTailProperties, LenProperties
-----------------------------------------------------------------------------
(* Type correctness.                                                        *)

\* The counter does not wrap below CodeLimit.
LEMMA NextCode ==
    ASSUME NEW r \in Nat, r < CodeLimit
    PROVE  (r + 1) % CodeSpace = r + 1
<1>1. r + 1 \in Nat /\ r + 1 < CodeSpace /\ CodeSpace \in Nat
  BY Sec2TxAssumption
<1>2. QED
  BY <1>1

\* Every state the firmware reaches is well typed; in particular the queue never
\* exceeds its capacity and the retry counter never exceeds its limit.
THEOREM TypeCorrect == Spec => []TypeOK
<1>1. Init => TypeOK
  <2> SUFFICES ASSUME Init PROVE TypeOK
    OBVIOUS
  <2>1. /\ pendingDoor \in BOOLEAN
        /\ statusStart \in BOOLEAN
        /\ statusDone \in BOOLEAN
        /\ abandoned \in BOOLEAN
    BY DEF Init
  <2>2. /\ queue \in Seq(Packet)
        /\ Len(queue) <= QueueSize
        /\ retry \in 0..MaxRetry
    BY Sec2TxAssumption, EmptySeq DEF Init
  <2>3. QED
    BY <2>1, <2>2 DEF Init, TypeOK
<1>2. TypeOK /\ [Next]_vars => TypeOK'
  <2> SUFFICES ASSUME TypeOK, [Next]_vars
               PROVE  TypeOK'
    OBVIOUS
  <2> USE Sec2TxAssumption
  <2>1. CASE Boot
    <3>1. abandoned' \in BOOLEAN
      BY <2>1 DEF TypeOK, Boot, NewId
    <3>2. /\ nvId' \in Id \cup {NoId}
          /\ idCode' \in Id \cup {NoId}
          /\ rolling' \in Nat
          /\ aired' \in Nat
          /\ floor' \in Nat
      BY <2>1 DEF TypeOK, Boot, NewId, ResumeCode
    <3>3. QED
      BY <2>1, <3>1, <3>2 DEF TypeOK, Boot, status
  <2>2. CASE SaveAndSync
    <3>1. /\ queue' \in Seq(Packet)
          /\ Len(queue') <= QueueSize
      BY <2>2, PushQueriesType DEF TypeOK, SaveAndSync
    <3>2. QED
      BY <2>2, <3>1 DEF TypeOK, SaveAndSync, status, history
  <2>3. CASE RxStatus
    <3> PICK followUp \in BOOLEAN, openings \in 0..1 :
          LET one  == WithDoorCommand(queue, FALSE, idCode)
              two  == WithDoorCommand(one.queue, one.pending, idCode)
              door == IF followUp THEN two
                      ELSE [queue |-> queue, pending |-> FALSE]
              done == ~statusDone /\ statusStart
          IN  /\ pendingDoor' = door.pending
              /\ queue' = PushQueries(door.queue, idCode,
                                      openings + IF done THEN 1 ELSE 0)
              /\ statusDone' = (statusDone \/ statusStart)
      BY <2>3 DEF RxStatus
    <3> DEFINE one  == WithDoorCommand(queue, FALSE, idCode)
               two  == WithDoorCommand(one.queue, one.pending, idCode)
               door == IF followUp THEN two
                       ELSE [queue |-> queue, pending |-> FALSE]
               n    == openings + IF ~statusDone /\ statusStart THEN 1 ELSE 0
    <3>1. /\ one.queue \in Seq(Packet)
          /\ Len(one.queue) <= QueueSize
          /\ one.pending \in BOOLEAN
      BY WithDoorCommandType DEF TypeOK
    <3>2. /\ two.queue \in Seq(Packet)
          /\ Len(two.queue) <= QueueSize
          /\ two.pending \in BOOLEAN
      <4> HIDE DEF one
      <4>1. QED
        BY <3>1, WithDoorCommandType DEF TypeOK
    <3>3. /\ door.queue \in Seq(Packet)
          /\ Len(door.queue) <= QueueSize
          /\ door.pending \in BOOLEAN
      <4> HIDE DEF two
      <4>1. QED
        BY <3>2 DEF TypeOK
    <3>4. n \in Nat
      OBVIOUS
    <3>5. /\ queue' = PushQueries(door.queue, idCode, n)
          /\ pendingDoor' = door.pending
          /\ statusDone' = (statusDone \/ statusStart)
      OBVIOUS
    <3> HIDE DEF door, n
    <3>6. /\ queue' \in Seq(Packet)
          /\ Len(queue') <= QueueSize
          /\ pendingDoor' \in BOOLEAN
      BY <3>3, <3>4, <3>5, PushQueriesType DEF TypeOK
    <3>7. /\ pc' = "tail"
          /\ UNCHANGED <<nvId, nvRolling, idCode, rolling, lastSaved, retry,
                         statusStart, aired, floor, abandoned>>
      BY <2>3 DEF RxStatus, flash, codes, history
    <3>8. statusDone' \in BOOLEAN
      BY <3>5 DEF TypeOK
    <3>9. QED
      BY <3>6, <3>7, <3>8 DEF TypeOK
  <2>4. CASE RxOther
    <3>1. /\ queue' \in Seq(Packet)
          /\ Len(queue') <= QueueSize
      BY <2>4, PushQueriesType DEF TypeOK, RxOther
    <3>2. QED
      BY <2>4, <3>1 DEF TypeOK, RxOther, flash, codes, status, history
  <2>5. CASE Transmit
    <3>1. /\ queue' \in Seq(Packet)
          /\ Len(queue') <= QueueSize
      BY <2>5, TailType DEF TypeOK, Transmit
    <3>2. rolling' \in Nat
      BY <2>5, NextCode DEF TypeOK, Transmit
    <3>3. aired' \in Nat /\ floor' \in Nat
      BY <2>5 DEF TypeOK, Transmit
    <3>4. statusStart' \in BOOLEAN
      BY <2>5 DEF TypeOK, Transmit
    <3>5. QED
      BY <2>5, <3>1, <3>2, <3>3, <3>4 DEF TypeOK, Transmit, flash
  <2>6. CASE Collide
    <3>1. /\ queue' \in Seq(Packet)
          /\ Len(queue') <= QueueSize
      BY <2>6, TailType DEF TypeOK, Collide
    <3>2. retry' \in 0..MaxRetry
      BY <2>6 DEF TypeOK, Collide
    <3>3. QED
      BY <2>6, <3>1, <3>2 DEF TypeOK, Collide, flash, codes, status, history
  <2>7. CASE StatusTimeout
    <3>1. statusStart' \in BOOLEAN /\ abandoned' \in BOOLEAN
      BY <2>7 DEF StatusTimeout, NewId
    <3>2. /\ nvId' \in Id \cup {NoId}
          /\ idCode' \in Id \cup {NoId}
          /\ rolling' \in Nat
          /\ aired' \in Nat
          /\ floor' \in Nat
      BY <2>7 DEF StatusTimeout, NewId
    <3>3. QED
      BY <2>7, <3>1, <3>2 DEF TypeOK, StatusTimeout
  <2>8. CASE Housekeeping
    <3>1. /\ queue' \in Seq(Packet)
          /\ Len(queue') <= QueueSize
      BY <2>8, PushQueriesType DEF TypeOK, Housekeeping
    <3>2. QED
      BY <2>8, <3>1 DEF TypeOK, Housekeeping, status, history
  <2>9. CASE DoorCommand
    <3>1. /\ queue' \in Seq(Packet)
          /\ Len(queue') <= QueueSize
          /\ pendingDoor' \in BOOLEAN
      BY <2>9, WithDoorCommandType DEF TypeOK, DoorCommand
    <3>2. QED
      BY <2>9, <3>1 DEF TypeOK, DoorCommand, flash, codes, status, history
  <2>10. CASE Request
    <3>1. /\ queue' \in Seq(Packet)
          /\ Len(queue') <= QueueSize
      BY <2>10, PushQueriesType DEF TypeOK, Request
    <3>2. QED
      BY <2>10, <3>1 DEF TypeOK, Request, flash, codes, status, history
  <2>11. CASE DoorTimer
    <3>1. /\ queue' \in Seq(Packet)
          /\ Len(queue') <= QueueSize
      BY <2>11, PushQueriesType DEF TypeOK, DoorTimer
    <3>2. QED
      BY <2>11, <3>1 DEF TypeOK, DoorTimer, flash, codes, status, history
  <2>12. CASE ResetDoor
    BY <2>12 DEF TypeOK, ResetDoor, status
  <2>13. CASE EraseId
    BY <2>13 DEF TypeOK, EraseId, codes, status, history
  <2>14. CASE Restart
    <3>1. /\ pendingDoor' \in BOOLEAN
          /\ statusStart' \in BOOLEAN
          /\ statusDone' \in BOOLEAN
      BY <2>14 DEF Restart, RamLost
    <3>2. /\ queue' \in Seq(Packet)
          /\ Len(queue') <= QueueSize
          /\ retry' \in 0..MaxRetry
      BY <2>14, EmptySeq DEF Restart, RamLost
    <3>3. QED
      BY <2>14, <3>1, <3>2 DEF TypeOK, Restart, RamLost, history
  <2>15. CASE PowerLoss
    <3>1. /\ pendingDoor' \in BOOLEAN
          /\ statusStart' \in BOOLEAN
          /\ statusDone' \in BOOLEAN
      BY <2>15 DEF PowerLoss, RamLost
    <3>2. /\ queue' \in Seq(Packet)
          /\ Len(queue') <= QueueSize
          /\ retry' \in 0..MaxRetry
      BY <2>15, EmptySeq DEF PowerLoss, RamLost
    <3>3. QED
      BY <2>15, <3>1, <3>2 DEF TypeOK, PowerLoss, RamLost, flash, history
  <2>16. CASE UNCHANGED vars
    BY <2>16 DEF TypeOK, vars, flash, codes, status, history
  <2>17. QED
    BY <2>1, <2>2, <2>3, <2>4, <2>5, <2>6, <2>7, <2>8, <2>9, <2>10, <2>11,
       <2>12, <2>13, <2>14, <2>15, <2>16 DEF Next, Pass
<1>3. QED
  BY <1>1, <1>2, PTL DEF Spec
-----------------------------------------------------------------------------
(* The rolling code.  The inductive invariant relates the code in flash, the *)
(* code in RAM and what has been on the air at each point of the loop.       *)

CodeInv ==
    /\ ~abandoned => aired <= nvRolling + SaveEvery
    /\ pc \in {"loop", "tail"} /\ ~abandoned =>
          /\ lastSaved = nvRolling
          /\ nvId = idCode
          /\ floor <= rolling
          /\ aired <= rolling + 1
    /\ pc = "loop" /\ ~abandoned => rolling < nvRolling + SaveEvery
    /\ pc = "tail" /\ ~abandoned => rolling <= nvRolling + SaveEvery
    /\ pc = "save" /\ ~abandoned =>
          /\ nvId = idCode
          /\ floor <= rolling
          /\ aired <= rolling
    /\ pc = "erase" => abandoned

\* CodeInv holds at power on and every step of the firmware preserves it.
THEOREM CodeInvariant == Spec => []CodeInv
<1> USE Sec2TxAssumption
<1>1. Init => CodeInv
  BY DEF Init, CodeInv
<1>2. TypeOK /\ CodeInv /\ [Next]_vars => CodeInv'
  <2> SUFFICES ASSUME TypeOK, CodeInv, [Next]_vars
               PROVE  CodeInv'
    OBVIOUS
  <2>1. CASE Boot
    BY <2>1 DEF TypeOK, CodeInv, Boot, NewId, ResumeCode
  <2>2. CASE SaveAndSync
    BY <2>2 DEF TypeOK, CodeInv, SaveAndSync, history
  <2>3. CASE RxStatus
    BY <2>3 DEF TypeOK, CodeInv, RxStatus, flash, codes, history
  <2>4. CASE RxOther
    BY <2>4 DEF TypeOK, CodeInv, RxOther, flash, codes, history
  <2>5. CASE Transmit
    \* The only step that advances the code: it moves from "loop", where the
    \* code is below the save mark, to "tail", where it may have reached it.
    <3>1. rolling' = IF Advances(Head(queue)) THEN rolling + 1 ELSE rolling
      BY <2>5, NextCode DEF TypeOK, Transmit
    <3>2. UNCHANGED <<nvId, nvRolling, idCode, lastSaved, abandoned>>
      BY <2>5 DEF Transmit, flash
    <3>3. pc = "loop" /\ pc' = "tail"
      BY <2>5 DEF Transmit
    <3>4. CASE abandoned
      BY <3>2, <3>3, <3>4 DEF CodeInv
    <3>5. CASE ~abandoned
      <4>1. /\ aired' \in Nat /\ floor' \in Nat
            /\ aired' <= rolling + 1
            /\ floor' <= rolling'
        BY <2>5, <3>1, <3>5 DEF TypeOK, CodeInv, Transmit
      <4>2. rolling < nvRolling + SaveEvery
        BY <3>3, <3>5 DEF CodeInv
      <4>3. rolling \in Nat /\ nvRolling \in Nat
        BY DEF TypeOK
      <4>4. rolling <= rolling' /\ rolling' <= nvRolling + SaveEvery
        BY <3>1, <4>2, <4>3
      <4>5. rolling' \in Nat
        BY <3>1, <4>3
      <4>6. aired' <= nvRolling + SaveEvery
        <5>1. rolling + 1 <= nvRolling + SaveEvery
          BY <4>2, <4>3
        <5>2. QED
          BY <5>1, <4>1, <4>3
      <4>7. aired' <= rolling' + 1
        <5>1. CASE Advances(Head(queue))
          BY <3>1, <4>1, <4>3, <5>1
        <5>2. CASE ~Advances(Head(queue))
          BY <3>1, <4>1, <4>3, <5>2
        <5>3. QED
          BY <5>1, <5>2
      <4>8. lastSaved = nvRolling /\ nvId = idCode
        BY <3>3, <3>5 DEF CodeInv
      <4>9. QED
        BY <3>2, <3>3, <4>1, <4>4, <4>6, <4>7, <4>8 DEF CodeInv
    <3>6. QED
      BY <3>4, <3>5
  <2>6. CASE Collide
    BY <2>6 DEF TypeOK, CodeInv, Collide, flash, codes, history
  <2>7. CASE StatusTimeout
    BY <2>7 DEF TypeOK, CodeInv, StatusTimeout, NewId
  <2>8. CASE Housekeeping
    BY <2>8 DEF TypeOK, CodeInv, Housekeeping, SaveDue, history
  <2>9. CASE DoorCommand
    BY <2>9 DEF TypeOK, CodeInv, DoorCommand, flash, codes, history
  <2>10. CASE Request
    BY <2>10 DEF TypeOK, CodeInv, Request, flash, codes, history
  <2>11. CASE DoorTimer
    BY <2>11 DEF TypeOK, CodeInv, DoorTimer, flash, codes, history
  <2>12. CASE ResetDoor
    BY <2>12 DEF TypeOK, CodeInv, ResetDoor
  <2>13. CASE EraseId
    BY <2>13 DEF TypeOK, CodeInv, EraseId, codes, history
  <2>14. CASE Restart
    BY <2>14 DEF TypeOK, CodeInv, Restart, RamLost, history
  <2>15. CASE PowerLoss
    BY <2>15 DEF TypeOK, CodeInv, PowerLoss, RamLost, flash, history
  <2>16. CASE UNCHANGED vars
    BY <2>16 DEF TypeOK, CodeInv, vars, flash, codes, history
  <2>17. QED
    BY <2>1, <2>2, <2>3, <2>4, <2>5, <2>6, <2>7, <2>8, <2>9, <2>10, <2>11,
       <2>12, <2>13, <2>14, <2>15, <2>16 DEF Next, Pass
<1>3. QED
  BY <1>1, <1>2, TypeCorrect, PTL DEF Spec

\* The code the next packet would carry has never been retired.
THEOREM CodesFresh == Spec => []NextCodeFresh
<1>1. TypeOK /\ CodeInv => NextCodeFresh
  BY DEF TypeOK, CodeInv, NextCodeFresh, Live
<1>2. QED
  BY <1>1, TypeCorrect, CodeInvariant, PTL

\* Wherever power fails, the next boot resumes above everything on the air.
THEOREM RebootsAhead == Spec => []RebootAhead
<1>1. CodeInv => RebootAhead
  BY DEF CodeInv, RebootAhead, ResumeCode
<1>2. QED
  BY <1>1, CodeInvariant, PTL

\* Flash lags by less than SaveEvery codes between passes, and holds the id on
\* the air.
THEOREM FlashFollowsCode == Spec => []FlashFollows
<1>1. TypeOK /\ CodeInv => FlashFollows
  BY DEF TypeOK, CodeInv, FlashFollows, Live
<1>2. QED
  BY <1>1, TypeCorrect, CodeInvariant, PTL

\* The firmware's bookkeeping implements the abstract ledger: until reset_door
\* gives an id up, every packet sent under it airs a code that is not retired,
\* a restart retires what was aired, and only a new id starts over.
THEOREM LedgerImplemented == Spec => LedgerKept
<1> USE Sec2TxAssumption
<1>1. Init => Ledger!Init
  BY DEF Init, Ledger!Init
<1>2. TypeOK /\ CodeInv /\ [Next]_vars => [Ledger!Next]_(Ledger!vars)
  <2> SUFFICES ASSUME TypeOK, CodeInv, [Next]_vars
               PROVE  Ledger!Next \/ UNCHANGED <<floor, aired>>
    BY DEF Ledger!vars
  <2>1. CASE Boot
    <3>1. CASE nvId = NoId
      BY <2>1, <3>1 DEF Boot, NewId, Ledger!Next, Ledger!Renew
    <3>2. CASE nvId # NoId
      BY <2>1, <3>2 DEF Boot, Ledger!Next, Ledger!Retire
    <3>3. QED
      BY <3>1, <3>2
  <2>2. CASE StatusTimeout
    BY <2>2 DEF StatusTimeout, NewId, Ledger!Next, Ledger!Renew
  <2>3. CASE Transmit
    <3> DEFINE p == Head(queue)
    <3>1. CASE p.id = idCode /\ ~abandoned
      <4>1. /\ aired' = IF rolling + 1 > aired THEN rolling + 1 ELSE aired
            /\ floor' = IF Advances(p) THEN rolling + 1 ELSE floor
        BY <2>3, <3>1 DEF Transmit
      <4>2. rolling >= floor
        BY <2>3, <3>1 DEF TypeOK, CodeInv, Transmit
      <4>3. rolling \in 0..CodeLimit
        BY <2>3 DEF TypeOK, Transmit
      <4>4. Advances(p) \in BOOLEAN
        BY DEF Advances
      <4>5. Ledger!Air(rolling, Advances(p))
        BY <4>1, <4>2 DEF Ledger!Air
      <4>6. Ledger!Next
        BY <4>3, <4>4, <4>5 DEF Ledger!Next
      <4>7. QED
        BY <4>6
    <3>2. CASE ~(p.id = idCode /\ ~abandoned)
      BY <2>3, <3>2 DEF Transmit
    <3>3. QED
      BY <3>1, <3>2
  <2>4. CASE \/ SaveAndSync \/ RxStatus \/ RxOther \/ Collide \/ Housekeeping
             \/ DoorCommand \/ Request \/ DoorTimer \/ ResetDoor \/ EraseId
             \/ Restart \/ PowerLoss
    BY <2>4 DEF SaveAndSync, RxStatus, RxOther, Collide, Housekeeping,
         DoorCommand, Request, DoorTimer, ResetDoor, EraseId, Restart,
         PowerLoss, history
  <2>5. CASE UNCHANGED vars
    BY <2>5 DEF vars, history
  <2>6. QED
    BY <2>1, <2>2, <2>3, <2>4, <2>5 DEF Next, Pass
<1>3. QED
  BY <1>1, <1>2, TypeCorrect, CodeInvariant, PTL
     DEF Spec, LedgerKept, Ledger!Spec
=============================================================================
