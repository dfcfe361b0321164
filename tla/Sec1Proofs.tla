----------------------------- MODULE Sec1Proofs -----------------------------
(***************************************************************************)
(* A door button that was pressed on the Security+ 1.0 bus is released,    *)
(* nothing is reported that was never true, though one byte goes wrong,    *)
(* and each unit of MCDialogue keeps its types.                            *)
(***************************************************************************)
EXTENDS MCDialogue, Sec2DialogueProofs, Sec2RxProofs, SequenceTheorems,
        WellFoundedInduction, TLAPS

BusByte == Buttons \cup Queries

\* A panel's start-up sequence is as long as the part of it that is polled.
Sequenced == States \in Seq(BusByte) /\ PollItems \in 1..Len(States)

\* A panel's start-up sequence presses no button of the door, and is as long as the
\* part of it that is polled; at most one thing goes wrong.
OneFault ==
    /\ States \in Seq(BusByte) /\ \A i \in 1..Len(States) : States[i] # DoorPress
    /\ PollItems \in 1..Len(States)
    /\ QueueLen \in Nat /\ MaxFaults \in {0, 1}

\* Each press in the queue q has two releases behind it.
Paired(q) ==
    \A i \in 1..Len(q) : q[i] = DoorPress =>
        /\ i + 2 <= Len(q)
        /\ q[i + 1] = DoorRelease /\ q[i + 2] = DoorRelease

\* q begins with what releases the button, though one more byte gets lost unless f
\* of them are.
Releases(q, f) ==
    /\ Len(q) >= 1
    /\ \/ q[1] = DoorPress
       \/ q[1] = DoorRelease /\ (f = 0 => Len(q) >= 2 /\ q[2] = DoorRelease)

SendTypes ==
    /\ queue \in Seq(BusByte)
    /\ faults \in Nat /\ faults <= MaxFaults
    /\ held \in SUBSET {"door", "light"}
    /\ dropped \in BOOLEAN
    /\ stateIndex \in 0..(Len(States) - 1)

\* The inductive invariant.
ButtonInv ==
    /\ SendTypes
    /\ ~dropped => Paired(queue)
    /\ ~dropped /\ "door" \in held => Releases(queue, faults)
-----------------------------------------------------------------------------
(* Queues.                                                                  *)

\* The next byte goes.
LEMMA TailPaired ==
    ASSUME NEW q \in Seq(BusByte), q # <<>>, Paired(q)
    PROVE  Paired(Tail(q))
<1> DEFINE t == Tail(q)
<1>1. /\ t \in Seq(BusByte) /\ Len(t) = Len(q) - 1 /\ Len(q) \in Nat /\ Len(t) \in Nat
      /\ \A i \in 1..Len(t) : t[i] = q[i + 1]
  BY HeadTailProperties
<1> HIDE DEF t
<1>2. ASSUME NEW i \in 1..Len(t), t[i] = DoorPress
      PROVE  i + 2 <= Len(t) /\ t[i + 1] = DoorRelease /\ t[i + 2] = DoorRelease
  <2>1. i + 1 \in 1..Len(q) /\ q[i + 1] = DoorPress
    BY <1>1, <1>2
  <2>2. (i + 1) + 2 <= Len(q) /\ q[(i + 1) + 1] = DoorRelease /\ q[(i + 1) + 2] = DoorRelease
    BY <2>1 DEF Paired
  <2>3. i + 1 \in 1..Len(t) /\ i + 2 \in 1..Len(t)
    BY <1>1, <2>2
  <2>4. t[i + 1] = q[(i + 1) + 1] /\ t[i + 2] = q[(i + 2) + 1]
    BY <1>1, <2>3
  <2>5. (i + 2) + 1 = (i + 1) + 2
    OBVIOUS
  <2> QED
    BY <2>2, <2>3, <2>4, <2>5
<1> QED
  BY <1>2 DEF Paired, t

\* A press goes, and its releases are next.
LEMMA PressGoes ==
    ASSUME NEW q \in Seq(BusByte), q # <<>>, q[1] = DoorPress, Paired(q), NEW f
    PROVE  Releases(Tail(q), f)
<1>1. /\ Len(Tail(q)) = Len(q) - 1 /\ Len(q) \in Nat /\ Len(q) >= 1
      /\ \A i \in 1..Len(Tail(q)) : Tail(q)[i] = q[i + 1]
  BY HeadTailProperties, EmptySeq
<1>2. 3 <= Len(q) /\ q[2] = DoorRelease /\ q[3] = DoorRelease
  BY <1>1 DEF Paired
<1>3. 1 \in 1..Len(Tail(q)) /\ 2 \in 1..Len(Tail(q))
  BY <1>1, <1>2
<1>4. Tail(q)[1] = DoorRelease /\ Tail(q)[2] = DoorRelease
  BY <1>1, <1>2, <1>3
<1> QED
  BY <1>3, <1>4 DEF Releases

\* The first release goes, and there is another one.
LEMMA ReleaseGoes ==
    ASSUME NEW q \in Seq(BusByte), q[1] = DoorRelease, Releases(q, 0)
    PROVE  Releases(Tail(q), 1)
<1>1. Len(q) >= 2 /\ q[2] = DoorRelease /\ q # <<>> /\ Len(q) \in Nat
  BY EmptySeq DEF Releases, DoorPress, DoorRelease
<1>2. /\ Len(Tail(q)) = Len(q) - 1
      /\ \A i \in 1..Len(Tail(q)) : Tail(q)[i] = q[i + 1]
  BY <1>1, HeadTailProperties
<1>3. 1 \in 1..Len(Tail(q))
  BY <1>1, <1>2
<1> QED
  BY <1>1, <1>2, <1>3 DEF Releases

\* What is added behind does no harm.
LEMMA LongerQueue ==
    ASSUME NEW q \in Seq(BusByte), NEW s \in Seq(BusByte)
    PROVE  /\ q \o s \in Seq(BusByte)
           /\ Paired(q) /\ Paired(s) => Paired(q \o s)
           /\ \A f : Releases(q, f) => Releases(q \o s, f)
<1> DEFINE r == q \o s
<1>1. /\ r \in Seq(BusByte) /\ Len(r) = Len(q) + Len(s) /\ Len(q) \in Nat /\ Len(s) \in Nat
      /\ \A i \in 1..(Len(q) + Len(s)) : r[i] = IF i <= Len(q) THEN q[i] ELSE s[i - Len(q)]
  BY ConcatProperties
<1> HIDE DEF r
<1>2. ASSUME Paired(q), Paired(s), NEW i \in 1..Len(r), r[i] = DoorPress
      PROVE  i + 2 <= Len(r) /\ r[i + 1] = DoorRelease /\ r[i + 2] = DoorRelease
  <2>1. CASE i <= Len(q)
    <3>1. i + 2 <= Len(q) /\ q[i + 1] = DoorRelease /\ q[i + 2] = DoorRelease
      BY <1>1, <1>2, <2>1 DEF Paired
    <3> QED
      BY <1>1, <3>1
  <2>2. CASE i > Len(q)
    <3>1. i - Len(q) \in 1..Len(s) /\ s[i - Len(q)] = DoorPress
      BY <1>1, <1>2, <2>2
    <3>2. /\ (i - Len(q)) + 2 <= Len(s)
          /\ s[(i - Len(q)) + 1] = DoorRelease /\ s[(i - Len(q)) + 2] = DoorRelease
      BY <1>2, <3>1 DEF Paired
    <3>3. i + 1 \in 1..(Len(q) + Len(s)) /\ i + 2 \in 1..(Len(q) + Len(s))
      BY <1>1, <2>2, <3>2
    <3>4. r[i + 1] = s[(i + 1) - Len(q)] /\ r[i + 2] = s[(i + 2) - Len(q)]
      BY <1>1, <2>2, <3>3
    <3>5. (i + 1) - Len(q) = (i - Len(q)) + 1 /\ (i + 2) - Len(q) = (i - Len(q)) + 2
      BY <1>1
    <3> QED
      BY <1>1, <3>2, <3>3, <3>4, <3>5
  <2> QED
    BY <1>1, <2>1, <2>2
<1>3. ASSUME NEW f, Releases(q, f) PROVE Releases(r, f)
  <2>1. Len(r) >= 1 /\ r[1] = q[1] /\ (Len(q) >= 2 => r[2] = q[2] /\ Len(r) >= 2)
    BY <1>1, <1>3 DEF Releases
  <2> QED
    BY <1>3, <2>1 DEF Releases
<1>4. Paired(q) /\ Paired(s) => Paired(r)
  BY <1>2 DEF Paired
<1> QED
  BY <1>1, <1>3, <1>4 DEF r

\* What is pushed: all of s, or a part of it.
LEMMA PushIsPart ==
    ASSUME OneFault, NEW q \in Seq(BusByte), NEW s \in Seq(BusByte)
    PROVE  \E p \in Seq(BusByte) :
               /\ Push(q, s) = q \o p
               /\ \A i \in 1..Len(p) : \E j \in 1..Len(s) : p[i] = s[j]
               /\ Len(q) + Len(s) <= QueueLen => p = s
<1> DEFINE n == IF QueueLen - Len(q) < Len(s) THEN QueueLen - Len(q) ELSE Len(s)
           p == SubSeq(s, 1, n)
<1>0. QueueLen \in Nat
  BY DEF OneFault
<1>1. Len(q) \in Nat /\ Len(s) \in Nat /\ n \in Int /\ n <= Len(s)
  BY <1>0
<1>2. \A i \in 1..n : s[i] \in BusByte
  BY <1>1
<1>3. /\ p \in Seq(BusByte) /\ Len(p) = IF 1 <= n THEN n - 1 + 1 ELSE 0
      /\ \A i \in 1..(n - 1 + 1) : p[i] = s[1 + i - 1]
  BY <1>1, <1>2, SubSeqProperties
<1>4. Len(q) + Len(s) <= QueueLen => p = s
  BY <1>0, <1>1, SubSeqFull
<1>5. Push(q, s) = q \o p
  BY DEF Push
<1> HIDE DEF p, n
<1>6. \A i \in 1..Len(p) : i \in 1..Len(s) /\ p[i] = s[i]
  BY <1>1, <1>3
<1> QED
  BY <1>3, <1>4, <1>5, <1>6
-----------------------------------------------------------------------------
(* Steps.                                                                   *)

\* A step that at most makes something go wrong keeps the invariant.
LEMMA FaultKeeps ==
    ASSUME OneFault, ButtonInv, UNCHANGED <<queue, held, dropped, stateIndex>>,
           faults' = faults \/ (faults < MaxFaults /\ faults' = faults + 1)
    PROVE  ButtonInv'
<1>1. faults' \in Nat /\ faults' <= MaxFaults /\ (faults' = 0 => faults = 0)
  BY DEF ButtonInv, SendTypes, OneFault
<1>2. Releases(queue, faults) => Releases(queue, faults')
  BY <1>1 DEF Releases
<1> QED
  BY <1>1, <1>2 DEF ButtonInv, SendTypes, Paired, Releases

\* A step that queues bytes among which is no press, or a whole door button.
LEMMA PushKeeps ==
    ASSUME OneFault, ButtonInv, NEW s \in Seq(BusByte), queue' = Push(queue, s),
           UNCHANGED <<held, faults>>,
           stateIndex' \in 0..(Len(States) - 1),
           dropped' \in BOOLEAN, dropped => dropped',
           ~dropped' => \/ \A i \in 1..Len(s) : s[i] # DoorPress
                        \/ Paired(s) /\ Len(queue) + Len(s) <= QueueLen
    PROVE  ButtonInv'
<1>1. queue \in Seq(BusByte)
  BY DEF ButtonInv, SendTypes
<1>2. PICK p \in Seq(BusByte) :
        /\ queue' = queue \o p
        /\ \A i \in 1..Len(p) : \E j \in 1..Len(s) : p[i] = s[j]
        /\ Len(queue) + Len(s) <= QueueLen => p = s
  BY <1>1, PushIsPart
<1>3. ~dropped' => Paired(p)
  BY <1>2 DEF Paired
<1>4. /\ queue \o p \in Seq(BusByte)
      /\ Paired(queue) /\ Paired(p) => Paired(queue \o p)
      /\ Releases(queue, faults) => Releases(queue \o p, faults)
  BY <1>1, LongerQueue
<1>5. SendTypes'
  BY <1>2, <1>4 DEF ButtonInv, SendTypes
<1>6. ~dropped' => Paired(queue')
  BY <1>2, <1>3, <1>4 DEF ButtonInv
<1>7. ~dropped' /\ "door" \in held => Releases(queue', faults)
  BY <1>2, <1>4 DEF ButtonInv
<1> QED
  BY <1>5, <1>6, <1>7 DEF ButtonInv, Paired, Releases

\* The head of the queue is sent, given up or kept.
LEMMA HeadKeeps ==
    ASSUME OneFault, ButtonInv, queue # <<>>, UNCHANGED stateIndex,
           queue' \in {queue, Tail(queue)},
           dropped' \in BOOLEAN, dropped => dropped',
           faults' = faults \/ (faults < MaxFaults /\ faults' = faults + 1),
           held' = held \/ held' = Heard(Head(queue)),
           queue[1] = DoorPress \/ "door" \notin held' \/ "door" \in held,
           queue[1] = DoorRelease /\ queue' # queue =>
               dropped' \/ "door" \notin held' \/ faults' = faults + 1,
           "door" \in held /\ ~dropped => queue[1] \in {DoorPress, DoorRelease}
    PROVE  ButtonInv'
<1>1. /\ queue \in Seq(BusByte) /\ faults \in Nat /\ MaxFaults \in {0, 1}
      /\ held \in SUBSET {"door", "light"}
  BY DEF ButtonInv, SendTypes, OneFault
<1>2. Tail(queue) \in Seq(BusByte) /\ Head(queue) = queue[1] /\ Head(queue) \in BusByte
  BY <1>1, HeadTailProperties
<1>3. held' \in SUBSET {"door", "light"}
  BY <1>1 DEF Heard
<1>4. faults' \in Nat /\ faults' <= MaxFaults /\ (faults' = 0 => faults = 0)
  BY <1>1 DEF ButtonInv, SendTypes
<1>5. SendTypes'
  BY <1>1, <1>2, <1>3, <1>4 DEF ButtonInv, SendTypes
<1>6. ~dropped' => Paired(queue')
  BY <1>1, TailPaired DEF ButtonInv
<1>7. ASSUME ~dropped', "door" \in held' PROVE Releases(queue', faults')
  <2>1. ~dropped /\ Paired(queue) /\ Len(queue) \in Nat /\ Len(queue) >= 1
    BY <1>1, <1>7, EmptySeq DEF ButtonInv
  <2>2. CASE queue[1] = DoorPress
    <3>1. CASE queue' = queue
      BY <2>1, <2>2, <3>1 DEF Releases
    <3>2. CASE queue' = Tail(queue)
      BY <1>1, <2>1, <2>2, <3>2, PressGoes
    <3> QED
      BY <3>1, <3>2
  <2>3. CASE queue[1] # DoorPress
    <3>1. "door" \in held /\ Releases(queue, faults) /\ queue[1] = DoorRelease
      BY <1>7, <2>1, <2>3 DEF ButtonInv
    <3>2. CASE queue' = queue
      BY <1>4, <3>1, <3>2 DEF Releases
    <3>3. CASE queue' = Tail(queue) /\ queue' # queue
      <4>1. faults = 0 /\ faults' = 1
        BY <1>1, <1>4, <1>7, <3>1, <3>3
      <4> QED
        BY <1>1, <3>1, <3>3, <4>1, ReleaseGoes
    <3> QED
      BY <3>2, <3>3
  <2> QED
    BY <2>2, <2>3
<1> QED
  BY <1>5, <1>6, <1>7 DEF ButtonInv, Paired, Releases
-----------------------------------------------------------------------------
\* The start-up sequence is started again from within.
LEMMA RestartWithin ==
    ASSUME Sequenced
    PROVE  RestartIndex \in 0..(Len(States) - 1)
<1> DEFINE S == {i \in 1..Len(States) : States[i] = 53}
<1>1. Len(States) \in Nat /\ Len(States) >= 1
  <2>1. Len(States) \in Nat
    BY LenProperties DEF Sequenced
  <2> QED
    BY <2>1 DEF Sequenced
<1>2. CASE S = {}
  BY <1>1, <1>2 DEF RestartIndex
<1>3. CASE S # {}
  <2>1. S \subseteq Nat
    BY <1>1
  <2>2. PICK x \in S : \A y \in S : ~(<<y, x>> \in OpToRel(<, Nat))
    BY <1>3, <2>1, NatLessThanWellFounded, WFMin
  <2>3. \A y \in S : ~(y < x)
    BY <2>1, <2>2 DEF OpToRel
  <2>4. x \in 1..Len(States) /\ States[x] = 53 /\ \A j \in 1..(x - 1) : States[j] # 53
    BY <1>1, <2>3
  <2> QED
    BY <1>1, <2>4 DEF RestartIndex
<1> QED
  BY <1>2, <1>3

\* A byte that arrives may go wrong.
LEMMA ArrivesFault ==
    ASSUME NEW b, Arrives(b)
    PROVE  faults' = faults \/ (faults < MaxFaults /\ faults' = faults + 1)
BY DEF Arrives

\* The bytes of the buttons.
LEMMA ButtonBytes ==
    /\ DoorButton \in Seq(BusByte) /\ Paired(DoorButton) /\ Len(DoorButton) = 3
    /\ LightButton \in Seq(BusByte) /\ \A i \in 1..Len(LightButton) : LightButton[i] # DoorPress
    /\ FlashButton \in Seq(BusByte) /\ \A i \in 1..Len(FlashButton) : FlashButton[i] # DoorPress
<1> USE DEF DoorPress, DoorRelease, LightPress, LightRelease, QueryDoor, QueryObstruction,
            QueryLightLock, QueryUnknown
<1>1. DoorPress \in BusByte /\ DoorRelease \in BusByte /\ LightPress \in BusByte
      /\ LightRelease \in BusByte /\ QueryLightLock \in BusByte
  BY DEF BusByte, Buttons, Queries
<1>2. DoorButton \in Seq(BusByte) /\ Len(DoorButton) = 3
      /\ DoorButton[1] = DoorPress /\ DoorButton[2] = DoorRelease /\ DoorButton[3] = DoorRelease
  BY <1>1 DEF DoorButton
<1>3. Paired(DoorButton)
  <2> HIDE DEF DoorPress, DoorRelease
  <2> SUFFICES ASSUME NEW i \in 1..Len(DoorButton), DoorButton[i] = DoorPress
               PROVE  /\ i + 2 <= Len(DoorButton)
                      /\ DoorButton[i + 1] = DoorRelease /\ DoorButton[i + 2] = DoorRelease
    BY DEF Paired
  <2>1. i \in {1, 2, 3} /\ DoorPress # DoorRelease
    BY <1>2 DEF DoorPress, DoorRelease
  <2>2. i = 1
    BY <1>2, <2>1
  <2> QED
    BY <1>2, <2>2
<1>4. LightButton \in Seq(BusByte) /\ \A i \in 1..Len(LightButton) : LightButton[i] # DoorPress
  BY <1>1 DEF LightButton
<1>5. FlashButton \in Seq(BusByte) /\ \A i \in 1..Len(FlashButton) : FlashButton[i] # DoorPress
  BY <1>1 DEF FlashButton
<1> QED
  BY <1>2, <1>3, <1>4, <1>5

\* Buttons of the door and the light.
LEMMA PushesKeep ==
    ASSUME OneFault, ButtonInv, DoorCommand \/ SetLight \/ FlashLight \/ FlashEnds
    PROVE  ButtonInv'
<1>1. ASSUME NEW s \in Seq(BusByte), Pushes(s),
             s = DoorButton \/ \A i \in 1..Len(s) : s[i] # DoorPress
      PROVE  ButtonInv'
  <2>1. /\ queue' = Push(queue, s) /\ UNCHANGED <<held, faults, stateIndex>>
        /\ dropped' = (dropped \/ (s = DoorButton /\ Len(queue) + 3 > QueueLen))
    BY <1>1 DEF Pushes, bus, place
  <2>2. dropped' \in BOOLEAN /\ (dropped => dropped') /\ stateIndex' \in 0..(Len(States) - 1)
    BY <2>1 DEF ButtonInv, SendTypes
  <2>3. Len(queue) \in Nat /\ QueueLen \in Nat
    BY DEF ButtonInv, SendTypes, OneFault
  <2>4. ~dropped' => \/ \A i \in 1..Len(s) : s[i] # DoorPress
                     \/ Paired(s) /\ Len(queue) + Len(s) <= QueueLen
    <3>1. CASE s = DoorButton
      <4>1. Paired(s) /\ Len(s) = 3
        BY <3>1, ButtonBytes
      <4>2. Len(queue) + 3 > QueueLen => dropped'
        BY <2>1, <3>1, Zenon
      <4>3. ~(Len(queue) + 3 > QueueLen) => Len(queue) + 3 <= QueueLen
        BY <2>3
      <4> QED
        BY <4>1, <4>2, <4>3, Zenon
    <3>2. CASE \A i \in 1..Len(s) : s[i] # DoorPress
      BY <3>2
    <3> QED
      BY <1>1, <3>1, <3>2
  <2> QED
    BY <2>1, <2>2, <2>4, PushKeeps
<1>2. CASE DoorCommand
  BY <1>1, <1>2, ButtonBytes DEF DoorCommand, Presses
<1>3. CASE SetLight
  BY <1>1, <1>3, ButtonBytes DEF SetLight, Presses
<1>4. CASE FlashLight
  BY <1>1, <1>4, ButtonBytes DEF FlashLight, Presses
<1>5. CASE FlashEnds
  <2> DEFINE s == <<LightRelease, LightRelease, LightRelease, LightRelease>>
  <2>1. s \in Seq(BusByte) /\ \A i \in 1..Len(s) : s[i] # DoorPress
    BY DEF LightRelease, BusByte, Buttons, DoorPress
  <2>2. Pushes(s)
    BY <1>5 DEF FlashEnds
  <2> QED
    BY <1>1, <2>1, <2>2
<1> QED
  BY <1>2, <1>3, <1>4, <1>5

\* The emulated panel queues a byte of its sequence.
LEMMA EmulateKeeps ==
    ASSUME OneFault, ButtonInv, Emulate
    PROVE  ButtonInv'
<1> DEFINE b == States[stateIndex + 1]
           s == <<b>>
<1>1. Len(States) \in Nat /\ stateIndex \in 0..(Len(States) - 1) /\ PollItems \in 1..Len(States)
  BY DEF OneFault, ButtonInv, SendTypes
<1>2. stateIndex + 1 \in 1..Len(States)
  BY <1>1
<1>3. b \in BusByte /\ b # DoorPress
  BY <1>2 DEF OneFault
<1>4. s \in Seq(BusByte) /\ \A i \in 1..Len(s) : s[i] # DoorPress
  BY <1>3
<1>5. queue' = Push(queue, s) /\ UNCHANGED <<held, faults, dropped>>
  BY DEF Emulate, bus, counted
<1>6. stateIndex' \in 0..(Len(States) - 1)
  <2>1. \/ stateIndex' = IF stateIndex + 1 < Len(States) THEN stateIndex + 1
                         ELSE Len(States) - PollItems
        \/ stateIndex' = RestartIndex
    BY DEF Emulate
  <2>2. RestartIndex \in 0..(Len(States) - 1)
    BY RestartWithin DEF OneFault, Sequenced
  <2> QED
    BY <1>1, <2>1, <2>2
<1>7. dropped' \in BOOLEAN
  BY <1>5 DEF ButtonInv, SendTypes
<1> HIDE DEF s
<1> QED
  BY <1>4, <1>5, <1>6, <1>7, PushKeeps

\* The bytes that are sent, or are not.
LEMMA SendKeeps ==
    ASSUME OneFault, ButtonInv, Busy \/ WriteQuery \/ WriteButton
    PROVE  ButtonInv'
<1>1. /\ queue \in Seq(BusByte) /\ queue # <<>> /\ dropped \in BOOLEAN
      /\ faults \in Nat
  BY DEF Busy, WriteQuery, WriteButton, ButtonInv, SendTypes
<1>2. Head(queue) = queue[1]
  BY <1>1, HeadTailProperties
<1>3. "door" \in held /\ ~dropped => queue[1] \in {DoorPress, DoorRelease}
  BY DEF ButtonInv, Releases
<1>4. UNCHANGED stateIndex
  BY DEF Busy, WriteQuery, WriteButton, place
<1>5. \A h : "door" \in Heard(h) => "door" \in held \/ h = DoorPress
  BY DEF Heard
<1>6. "door" \notin Heard(DoorRelease)
  BY DEF Heard, DoorPress, DoorRelease, LightPress, LightRelease
<1>7. ASSUME SendFailed
      PROVE  /\ queue' \in {queue, Tail(queue)}
             /\ dropped' \in BOOLEAN /\ (dropped => dropped')
             /\ queue[1] = DoorRelease /\ queue' # queue => dropped'
  BY <1>1, <1>2, <1>7 DEF SendFailed
<1>8. ASSUME Sent PROVE queue' = Tail(queue) /\ dropped' = dropped
  BY <1>8 DEF Sent
<1>9. CASE Busy
  <2>1. SendFailed /\ held' = held /\ faults < MaxFaults /\ faults' = faults + 1
    BY <1>9 DEF Busy, bus
  <2> QED
    BY <1>1, <1>3, <1>4, <1>7, <2>1, HeadKeeps
<1>10. CASE WriteQuery
  <2>1. Sent /\ held' = held /\ Head(queue) \in Queries
    BY <1>10 DEF WriteQuery
  <2>2. faults' = faults \/ (faults < MaxFaults /\ faults' = faults + 1)
    BY <1>10, ArrivesFault DEF WriteQuery
  <2>3. queue[1] # DoorRelease /\ queue[1] # DoorPress
    BY <1>2, <2>1 DEF Queries, QueryDoor, QueryObstruction, QueryLightLock, QueryUnknown,
                      DoorPress, DoorRelease
  <2> QED
    BY <1>1, <1>3, <1>4, <1>8, <2>1, <2>2, <2>3, HeadKeeps
<1>11. CASE WriteButton
  <2>1. CASE held' = Heard(Head(queue)) /\ Sent /\ faults' = faults
    BY <1>1, <1>2, <1>3, <1>4, <1>5, <1>6, <1>8, <2>1, HeadKeeps
  <2>2. CASE /\ faults < MaxFaults /\ faults' = faults + 1
             /\ held' \in {held, Heard(Head(queue))}
             /\ Sent \/ SendFailed
    BY <1>1, <1>2, <1>3, <1>4, <1>5, <1>7, <1>8, <2>2, HeadKeeps
  <2> QED
    BY <1>11, <2>1, <2>2 DEF WriteButton
<1> QED
  BY <1>9, <1>10, <1>11

\* Whatever else happens on the bus.
LEMMA SilentKeep ==
    ASSUME OneFault, ButtonInv,
           \/ PanelStarts \/ (\E q \in {QueryDoor, QueryLightLock} : PanelPolls(q))
           \/ OpenerAnswers \/ Changes \/ ReadByte \/ GiveUp \/ WindowOpens \/ WindowCloses
           \/ FlashCancelled \/ SearchEnds \/ Look
    PROVE  ButtonInv'
<1> USE DEF bus, sending, place, counted
<1>1. UNCHANGED <<queue, held, dropped, stateIndex>>
  BY DEF PanelStarts, PanelPolls, OpenerAnswers, Changes, ReadByte, GiveUp, WindowOpens,
         WindowCloses, FlashCancelled, SearchEnds, Look
<1>2. faults' = faults \/ (faults < MaxFaults /\ faults' = faults + 1)
  BY ArrivesFault
     DEF PanelStarts, PanelPolls, OpenerAnswers, Changes, ReadByte, GiveUp, IsLate,
         WindowOpens, WindowCloses, FlashCancelled, SearchEnds, Look
<1> QED
  BY <1>1, <1>2, FaultKeeps
-----------------------------------------------------------------------------
\* ButtonInv is inductive.
THEOREM ButtonInvariant ==
    ASSUME OneFault
    PROVE  Sec1Spec => []ButtonInv
<1>1. Sec1Init => ButtonInv
  <2> SUFFICES ASSUME Sec1Init PROVE ButtonInv
    OBVIOUS
  <2>1. /\ queue = <<>> /\ held = {} /\ faults = 0 /\ dropped = FALSE /\ stateIndex = 0
    BY DEF Sec1Init
  <2>2. Len(States) \in Nat /\ Len(States) >= 1 /\ MaxFaults \in {0, 1}
    BY DEF OneFault
  <2>3. queue \in Seq(BusByte) /\ Len(queue) = 0
    BY <2>1
  <2>4. Paired(queue)
    BY <2>3 DEF Paired
  <2>5. /\ faults \in Nat /\ faults <= MaxFaults
        /\ stateIndex \in 0..(Len(States) - 1)
    BY <2>1, <2>2
  <2>6. held \in SUBSET {"door", "light"} /\ dropped \in BOOLEAN
    BY <2>1
  <2>7. SendTypes
    BY <2>3, <2>5, <2>6 DEF SendTypes
  <2> QED
    BY <2>1, <2>4, <2>7 DEF ButtonInv
<1>2. ButtonInv /\ [Sec1Next]_sec1Vars => ButtonInv'
  <2> SUFFICES ASSUME ButtonInv, [Sec1Next]_sec1Vars PROVE ButtonInv'
    OBVIOUS
  <2>1. CASE Busy \/ WriteQuery \/ WriteButton
    BY <2>1, SendKeeps
  <2>2. CASE DoorCommand \/ SetLight \/ FlashLight \/ FlashEnds
    BY <2>2, PushesKeep
  <2>3. CASE Emulate
    BY <2>3, EmulateKeeps
  <2>4. CASE \/ PanelStarts \/ (\E q \in {QueryDoor, QueryLightLock} : PanelPolls(q))
             \/ OpenerAnswers \/ Changes \/ ReadByte \/ GiveUp \/ WindowOpens \/ WindowCloses
             \/ FlashCancelled \/ SearchEnds \/ Look
    BY <2>4, SilentKeep
  <2>5. CASE UNCHANGED sec1Vars
    BY <2>5, FaultKeeps DEF sec1Vars, bus, sending, place, counted
  <2> QED
    BY <2>1, <2>2, <2>3, <2>4, <2>5 DEF Sec1Next
<1> QED
  BY <1>1, <1>2, PTL DEF Sec1Spec

\* For every start-up sequence, length of the queue, number of retries and history
\* of bytes read and polls answered: while the opener takes the door button to be
\* held a release is queued, though one byte goes wrong.
THEOREM DoorReleased ==
    ASSUME OneFault
    PROVE  Sec1Spec => []DoorButtonReleased
<1>1. ButtonInv => DoorButtonReleased
  <2> SUFFICES ASSUME ButtonInv, "door" \in held, ~dropped
               PROVE  \E i \in 1..Len(queue) : queue[i] = DoorRelease
    BY DEF DoorButtonReleased
  <2>1. Releases(queue, faults) /\ Paired(queue) /\ Len(queue) \in Nat
    BY DEF ButtonInv, SendTypes
  <2>2. 1 \in 1..Len(queue)
    BY <2>1 DEF Releases
  <2>3. CASE queue[1] = DoorRelease
    BY <2>2, <2>3
  <2>4. CASE queue[1] = DoorPress
    BY <2>1, <2>2, <2>4 DEF Paired
  <2> QED
    BY <2>1, <2>3, <2>4 DEF Releases
<1> QED
  BY <1>1, ButtonInvariant, PTL
-----------------------------------------------------------------------------
\* What is read from the bus.
WireByte == Buttons \cup Queries \cup Answers \cup {Bad}

\* Of the bytes s behind the query r that is being read: those that pass for the
\* answer to query q and are not in T.
Before(r, s, i) == IF i = 1 THEN r ELSE s[i - 1]
Wrong(r, s, q, T) ==
    {i \in 1..Len(s) : Before(r, s, i) = q /\ s[i] \in Answers \ T}
LastOf(r, s) == IF s = <<>> THEN r ELSE s[Len(s)]

WrongAnswers == Wrong(reading, inbox, watched, been)
LastByte     == LastOf(reading, inbox)

WireTypes ==
    /\ watched \in {QueryDoor, QueryLightLock}
    /\ truth \in been /\ been \subseteq Watchable(watched)
    /\ reading \in {0} \cup Queries
    /\ inbox \in Seq(WireByte)
    /\ owed \in Seq(Queries)
    /\ late \in BOOLEAN
    /\ faults \in 0..MaxFaults

\* What was seen last was true once; and so is all that will be taken for an answer.
PrevTrue == prev \in been \cup {None}
AllTrue  == PrevTrue /\ WrongAnswers = {}

\* At most one of the two is wrong, and one answer at most.
OneWrong ==
    \/ WrongAnswers = {}
    \/ PrevTrue /\ \A i, j \in WrongAnswers : i = j

\* Where one answer is owed, a query at the end of the wire waits for it.  More is
\* owed only after a fault, and before anything wrong has arrived.
InStep ==
    /\ Len(owed) <= 2
    /\ Len(owed) = 2 => ~late /\ faults = 1
    /\ late => faults = 1 /\ Len(owed) = 1 /\ LastByte # watched
    /\ Len(owed) = 1 /\ LastByte = watched => Head(owed) = watched
    /\ faults = 0 /\ owed = <<>> => LastByte # watched

\* The inductive invariant.
AnswerInv ==
    /\ WireTypes
    /\ NotFooledOnce
    /\ OneWrong
    /\ faults = 0 \/ late \/ Len(owed) = 2 => AllTrue
    /\ InStep
-----------------------------------------------------------------------------
\* What is a query is no answer.
LEMMA BytesDiffer ==
    /\ Queries \cap Answers = {} /\ 0 \notin Queries /\ Bad \notin Queries \cup Answers
    /\ DoorRelease \notin Queries \cup Answers /\ Bad \in WireByte
    /\ QueryDoor \in Queries /\ QueryLightLock \in Queries /\ DoorRelease \in WireByte
    /\ Queries \subseteq WireByte /\ Answers \subseteq WireByte
    /\ \A q : Watchable(q) \subseteq Answers
    /\ 85 \in Answers /\ 88 \in Answers /\ 0 \in Answers /\ None \notin Answers
BY DEF Queries, Answers, DoorBytes, LightBytes, Bad, QueryDoor, QueryObstruction,
       QueryLightLock, QueryUnknown, DoorRelease, WireByte, Watchable, Buttons, None

\* A byte more on the wire.
LEMMA OneMore ==
    ASSUME NEW r, NEW s \in Seq(WireByte), NEW b \in WireByte, NEW q, NEW T
    PROVE  /\ Append(s, b) \in Seq(WireByte)
           /\ LastOf(r, Append(s, b)) = b
           /\ Wrong(r, Append(s, b), q, T) =
                 IF LastOf(r, s) = q /\ b \in Answers \ T
                 THEN Wrong(r, s, q, T) \cup {Len(s) + 1} ELSE Wrong(r, s, q, T)
           /\ Len(s) + 1 \notin Wrong(r, s, q, T)
<1> DEFINE t == Append(s, b)
<1>1. /\ t \in Seq(WireByte) /\ Len(t) = Len(s) + 1 /\ Len(s) \in Nat /\ t # <<>>
      /\ t[Len(s) + 1] = b /\ \A i \in 1..Len(s) : t[i] = s[i]
  BY AppendProperties
<1>2. s = <<>> <=> Len(s) = 0
  BY EmptySeq
<1> HIDE DEF t
<1>3. LastOf(r, t) = b
  BY <1>1 DEF LastOf
<1>4. \A i \in 1..Len(s) : Before(r, t, i) = Before(r, s, i)
  BY <1>1 DEF Before
<1>5. Before(r, t, Len(s) + 1) = LastOf(r, s)
  BY <1>1, <1>2 DEF Before, LastOf
<1>6. \A i : i \in Wrong(r, t, q, T) <=>
              \/ i \in Wrong(r, s, q, T)
              \/ i = Len(s) + 1 /\ LastOf(r, s) = q /\ b \in Answers \ T
  <2> TAKE i
  <2>1. CASE i \in 1..Len(s)
    BY <1>1, <1>4, <2>1 DEF Wrong
  <2>2. CASE i = Len(s) + 1
    BY <1>1, <1>5, <2>2 DEF Wrong
  <2>3. CASE i \notin 1..(Len(s) + 1)
    BY <1>1, <2>3 DEF Wrong
  <2> QED
    BY <1>1, <2>1, <2>2, <2>3
<1>7. Len(s) + 1 \notin Wrong(r, s, q, T)
  BY <1>1 DEF Wrong
<1> QED
  BY <1>1, <1>3, <1>6, <1>7 DEF t

\* A byte is read.
LEMMA OneLess ==
    ASSUME NEW r, NEW s \in Seq(WireByte), s # <<>>, NEW q \in Queries, NEW T
    PROVE  LET h == NowReading(Head(s))
           IN  /\ Tail(s) \in Seq(WireByte) /\ Head(s) \in WireByte
               /\ h \in {0} \cup Queries
               /\ LastOf(h, Tail(s)) = q <=> LastOf(r, s) = q
               /\ \A i \in Wrong(h, Tail(s), q, T) : i + 1 \in Wrong(r, s, q, T) /\ i \in Nat
                                                     /\ i >= 1
               /\ r = q /\ Head(s) \in Answers \ T <=> 1 \in Wrong(r, s, q, T)
<1> DEFINE t == Tail(s)
           b == Head(s)
           h == NowReading(b)
<1>1. /\ t \in Seq(WireByte) /\ Len(t) = Len(s) - 1 /\ Len(s) \in Nat /\ Len(s) >= 1
      /\ b = s[1] /\ b \in WireByte /\ \A i \in 1..Len(t) : t[i] = s[i + 1]
  BY HeadTailProperties, EmptySeq
<1>2. t = <<>> <=> Len(t) = 0
  BY <1>1, EmptySeq
<1>3. h \in {0} \cup Queries /\ (h = q <=> b = q)
  BY BytesDiffer DEF NowReading
<1> HIDE DEF t, b, h
<1>4. LastOf(h, t) = q <=> LastOf(r, s) = q
  <2>1. CASE Len(t) = 0
    <3>1. t = <<>>
      BY <1>2, <2>1
    <3>2. Len(s) = 1
      BY <1>1, <2>1
    <3>3. t = <<>> /\ s[Len(s)] = b /\ s # <<>>
      BY <1>1, <3>1, <3>2
    <3>4. LastOf(h, t) = h /\ LastOf(r, s) = b
      BY <3>3 DEF LastOf
    <3> QED
      BY <1>3, <3>4
  <2>2. CASE Len(t) # 0
    <3>1. Len(t) \in 1..Len(t) /\ Len(t) + 1 = Len(s)
      BY <1>1, <2>2
    <3>2. t[Len(t)] = s[Len(s)]
      BY <1>1, <3>1
    <3> QED
      BY <1>2, <2>2, <3>2 DEF LastOf
  <2> QED
    BY <2>1, <2>2
<1>5. ASSUME NEW i \in Wrong(h, t, q, T)
      PROVE  i + 1 \in Wrong(r, s, q, T) /\ i \in Nat /\ i >= 1
  <2>1. i \in 1..Len(t) /\ Before(h, t, i) = q /\ t[i] \in Answers \ T
    BY <1>5 DEF Wrong
  <2>2. i \in Nat /\ i >= 1 /\ i + 1 \in 1..Len(s) /\ t[i] = s[i + 1] /\ i + 1 # 1
        /\ (i + 1) - 1 = i
    BY <1>1, <2>1
  <2>3. s[i] = q
    <3>1. CASE i = 1
      BY <1>1, <1>3, <2>1, <3>1 DEF Before
    <3>2. CASE i # 1
      <4>1. i - 1 \in 1..Len(t) /\ (i - 1) + 1 = i
        BY <1>1, <2>1, <2>2, <3>2
      <4>2. t[i - 1] = s[i]
        BY <1>1, <4>1
      <4> QED
        BY <2>1, <3>2, <4>2 DEF Before
    <3> QED
      BY <3>1, <3>2
  <2>4. Before(r, s, i + 1) = q
    BY <2>2, <2>3 DEF Before
  <2> QED
    BY <2>1, <2>2, <2>4 DEF Wrong
<1>6. r = q /\ b \in Answers \ T <=> 1 \in Wrong(r, s, q, T)
  BY <1>1 DEF Wrong, Before
<1> QED
  BY <1>1, <1>3, <1>4, <1>5, <1>6 DEF t, b, h

\* A state is reported as it was seen.
LEMMA ReportedAsSeen ==
    ASSUME NEW b \in been, been \subseteq Watchable(watched), NotFooledOnce,
           watched \in {QueryDoor, QueryLightLock},
           report' = IF watched = QueryDoor THEN DoorState(b) ELSE LightState(b)
    PROVE  report' \in been
<1>1. CASE watched = QueryDoor
  <2>1. b \in {82, 84, 85}
    BY <1>1 DEF Watchable, DoorBytes
  <2>2. (82 % 8) + 1 = 3 /\ (84 % 8) + 1 = 5 /\ (85 % 8) + 1 = 6
    OBVIOUS
  <2>3. DoorBits[3] = 82 /\ DoorBits[5] = 84 /\ DoorBits[6] = 85
    BY DEF DoorBits
  <2>4. DoorBits[(b % 8) + 1] = b
    BY <2>1, <2>2, <2>3
  <2>5. report' = b \/ (report' = report /\ report \in {82, 85})
    BY <1>1, <2>4 DEF DoorState
  <2> QED
    BY <2>5 DEF NotFooledOnce
<1>2. CASE watched = QueryLightLock
  <2>1. b \in {88, 92} /\ watched # QueryDoor
    BY <1>2 DEF Watchable, LightBytes, QueryDoor, QueryLightLock
  <2>2. LightState(b) = b
    BY <2>1 DEF LightState, Bit
  <2> QED
    BY <2>1, <2>2
<1> QED
  BY <1>1, <1>2
-----------------------------------------------------------------------------
\* What the wire is after another byte.
LEMMA WireGrows ==
    ASSUME inbox \in Seq(WireByte), NEW x \in WireByte, inbox' = Append(inbox, x),
           UNCHANGED <<watched, been, reading>>
    PROVE  /\ inbox' \in Seq(WireByte) /\ LastByte' = x
           /\ WrongAnswers' = IF LastByte = watched /\ x \in Answers \ been
                              THEN WrongAnswers \cup {Len(inbox) + 1} ELSE WrongAnswers
<1>1. /\ Append(inbox, x) \in Seq(WireByte)
      /\ LastOf(reading, Append(inbox, x)) = x
      /\ Wrong(reading, Append(inbox, x), watched, been) =
            IF LastOf(reading, inbox) = watched /\ x \in Answers \ been
            THEN Wrong(reading, inbox, watched, been) \cup {Len(inbox) + 1}
            ELSE Wrong(reading, inbox, watched, been)
  BY OneMore
<1>2. /\ LastByte' = LastOf(reading, Append(inbox, x))
      /\ WrongAnswers' = Wrong(reading, Append(inbox, x), watched, been)
  BY DEF LastByte, WrongAnswers
<1> QED
  BY <1>1, <1>2 DEF LastByte, WrongAnswers

\* What may become of a byte on its way.
LEMMA ArrivesWhole ==
    ASSUME WireTypes, MaxFaults \in {0, 1}, NEW b \in WireByte, Arrives(b)
    PROVE  \/ inbox' = Append(inbox, b) /\ faults' = faults
           \/ faults = 0 /\ faults' = 1 /\ inbox' = inbox
           \/ /\ faults = 0 /\ faults' = 1
              /\ \E x \in (WireByte \cap Answers) \cup {Bad} :
                     x \notin Queries /\ x \in WireByte /\ inbox' = Append(inbox, x)
<1>1. faults < MaxFaults => faults = 0 /\ faults + 1 = 1
  BY DEF WireTypes
<1>2. \A x \in {Bad} \cup Watchable(watched) :
          x \in (WireByte \cap Answers) \cup {Bad} /\ x \notin Queries /\ x \in WireByte
  BY BytesDiffer
<1> QED
  BY <1>1, <1>2 DEF Arrives

\* Nothing on the wire changes, but another thing may go wrong.
LEMMA WireStays ==
    ASSUME AnswerInv, MaxFaults \in {0, 1},
           UNCHANGED <<watched, truth, been, reading, inbox, owed, late, prev, report>>,
           faults' = faults \/ (faults < MaxFaults /\ faults' = faults + 1)
    PROVE  AnswerInv'
<1>1. faults' \in 0..MaxFaults /\ (faults' = 0 => faults = 0) /\ (faults = 1 => faults' = 1)
  BY DEF AnswerInv, WireTypes
<1>2. WrongAnswers' = WrongAnswers /\ LastByte' = LastByte
  BY DEF WrongAnswers, LastByte
<1>3. NotFooledOnce' /\ OneWrong' /\ PrevTrue' = PrevTrue /\ AllTrue' = AllTrue
  BY <1>2 DEF AnswerInv, NotFooledOnce, OneWrong, PrevTrue, AllTrue
<1>4. InStep'
  BY <1>1, <1>2 DEF AnswerInv, InStep
<1>5. WireTypes'
  BY <1>1 DEF AnswerInv, WireTypes
<1> QED
  BY <1>1, <1>3, <1>4, <1>5 DEF AnswerInv

\* The panel starts up: a byte that belongs to no query.
LEMMA PanelStartsKeeps ==
    ASSUME AnswerInv, MaxFaults \in {0, 1}, PanelStarts
    PROVE  AnswerInv'
<1>1. UNCHANGED <<watched, truth, been, reading, owed, late, prev, report>>
  BY DEF PanelStarts, parsed
<1>2. WireTypes /\ DoorRelease \in WireByte /\ Arrives(DoorRelease)
  BY BytesDiffer DEF AnswerInv, PanelStarts
<1>3. CASE inbox' = inbox /\ faults = 0 /\ faults' = 1
  <2>1. faults < MaxFaults /\ faults' = faults + 1
    BY <1>2, <1>3 DEF PanelStarts, Arrives
  <2> QED
    BY <1>1, <1>3, <2>1, WireStays
<1>4. ASSUME NEW x \in WireByte, x \notin Queries, inbox' = Append(inbox, x),
             \/ faults' = faults /\ x \notin Answers
             \/ faults = 0 /\ faults' = 1
      PROVE  AnswerInv'
  <2>1. /\ inbox \in Seq(WireByte) /\ inbox' \in Seq(WireByte) /\ LastByte' = x
        /\ WrongAnswers' = IF LastByte = watched /\ x \in Answers \ been
                           THEN WrongAnswers \cup {Len(inbox) + 1} ELSE WrongAnswers
    BY <1>1, <1>2, <1>4, WireGrows DEF WireTypes
  <2>2. LastByte' # watched'
    BY <1>1, <1>2, <1>4, <2>1, BytesDiffer DEF WireTypes
  <2>3. faults' \in 0..MaxFaults /\ (faults' = 0 => faults = 0) /\ (faults = 1 => faults' = 1)
    BY <1>2, <1>4, <2>1 DEF WireTypes, PanelStarts, Arrives
  <2>4. WireTypes'
    BY <1>1, <1>2, <2>1, <2>3 DEF WireTypes
  <2>5. InStep'
    BY <1>1, <2>2, <2>3 DEF AnswerInv, InStep
  <2>6. PrevTrue' = PrevTrue /\ NotFooledOnce'
    BY <1>1 DEF PrevTrue, AnswerInv, NotFooledOnce
  <2>7. CASE faults' = faults /\ x \notin Answers
    BY <1>1, <2>1, <2>4, <2>5, <2>6, <2>7 DEF AnswerInv, OneWrong, AllTrue
  <2>8. CASE faults = 0 /\ faults' = 1
    <3>1. PrevTrue /\ WrongAnswers = {} /\ ~late /\ Len(owed) # 2
      BY <2>8 DEF AnswerInv, AllTrue, InStep
    <3>2. OneWrong'
      BY <2>1, <2>6, <3>1 DEF OneWrong
    <3> QED
      BY <1>1, <2>4, <2>5, <2>6, <2>8, <3>1, <3>2 DEF AnswerInv
  <2> QED
    BY <1>4, <2>7, <2>8
<1> QED
  BY <1>2, <1>3, <1>4, ArrivesWhole, BytesDiffer

\* A query is sent, by a panel or this firmware, when no answer is owed.
LEMMA QueryKeeps ==
    ASSUME AnswerInv, MaxFaults \in {0, 1}, NEW q \in Queries, Arrives(q),
           owed = <<>>, owed' = <<q>>, late' = FALSE, inbox = <<>>,
           UNCHANGED <<watched, truth, been, reading, prev, report>>
    PROVE  AnswerInv'
<1>1. WireTypes /\ q \in WireByte /\ inbox \in Seq(WireByte) /\ LastByte = reading
      /\ WrongAnswers = {} /\ Len(owed') = 1 /\ Head(owed') = q /\ owed' \in Seq(Queries)
      /\ owed' # <<>>
  <2>1. WireTypes /\ q \in WireByte /\ inbox \in Seq(WireByte)
    BY BytesDiffer DEF AnswerInv, WireTypes
  <2>2. WrongAnswers = {} /\ LastByte = reading
    BY DEF WrongAnswers, Wrong, LastByte, LastOf
  <2> QED
    BY <2>1, <2>2
<1>2. PrevTrue' = PrevTrue /\ NotFooledOnce'
  BY DEF PrevTrue, AnswerInv, NotFooledOnce
<1>3. CASE inbox' = inbox /\ faults = 0 /\ faults' = 1
  <2>1. WrongAnswers' = {} /\ LastByte' = LastByte /\ LastByte # watched
    BY <1>1, <1>3 DEF WrongAnswers, LastByte, AnswerInv, InStep
  <2>2. WireTypes'
    <3>1. faults < MaxFaults
      BY <1>3 DEF Arrives
    <3>2. faults' \in 0..MaxFaults
      BY <1>1, <1>3, <3>1 DEF WireTypes
    <3>3. late' \in BOOLEAN
      OBVIOUS
    <3> QED
      BY <1>1, <1>3, <3>2, <3>3 DEF WireTypes
  <2> QED
    BY <1>1, <1>2, <1>3, <2>1, <2>2 DEF AnswerInv, OneWrong, InStep
<1>4. ASSUME NEW x \in WireByte, inbox' = Append(inbox, x),
             \/ faults' = faults /\ x = q
             \/ faults = 0 /\ faults' = 1 /\ x \notin Queries
      PROVE  AnswerInv'
  <2>1. /\ inbox' \in Seq(WireByte) /\ LastByte' = x
        /\ WrongAnswers' = IF LastByte = watched /\ x \in Answers \ been
                           THEN WrongAnswers \cup {Len(inbox) + 1} ELSE WrongAnswers
    BY <1>1, <1>4, WireGrows
  <2>2. WrongAnswers' = {}
    BY <1>1, <1>4, <2>1, BytesDiffer DEF AnswerInv, InStep
  <2>3. faults' \in 0..MaxFaults
    BY <1>1, <1>4 DEF WireTypes, Arrives
  <2>4. WireTypes'
    BY <1>1, <2>1, <2>3 DEF WireTypes
  <2>5. LastByte' = watched' => Head(owed') = watched'
    BY <1>1, <1>4, <2>1, BytesDiffer DEF WireTypes
  <2>6. InStep'
    BY <1>1, <2>5 DEF InStep
  <2>7. faults' = 0 => AllTrue'
    BY <1>2, <1>4, <2>2 DEF AnswerInv, AllTrue
  <2> QED
    BY <1>1, <1>2, <2>2, <2>4, <2>6, <2>7 DEF AnswerInv, OneWrong
<1> QED
  BY <1>1, <1>3, <1>4, ArrivesWhole, BytesDiffer

\* The firmware sends a query before the last one was answered.
LEMMA OverlapKeeps ==
    ASSUME AnswerInv, MaxFaults \in {0, 1}, NEW q \in Queries,
           owed # <<>>, owed' = Append(owed, q), late' = FALSE, inbox = <<>>, reading = 0,
           inbox' = Append(inbox, q),
           IF late THEN faults' = faults ELSE faults < MaxFaults /\ faults' = faults + 1,
           UNCHANGED <<watched, truth, been, reading, prev, report>>
    PROVE  AnswerInv'
<1>1. WireTypes /\ q \in WireByte /\ inbox \in Seq(WireByte) /\ LastByte = reading
      /\ WrongAnswers = {} /\ owed \in Seq(Queries) /\ late \in BOOLEAN
  <2>1. WireTypes /\ q \in WireByte /\ inbox \in Seq(WireByte)
        /\ owed \in Seq(Queries) /\ late \in BOOLEAN
    BY BytesDiffer DEF AnswerInv, WireTypes
  <2>2. WrongAnswers = {} /\ LastByte = reading
    BY DEF WrongAnswers, Wrong, LastByte, LastOf
  <2> QED
    BY <2>1, <2>2
<1>2. faults' = 1 /\ faults' \in 0..MaxFaults /\ (late \/ faults = 0)
  BY <1>1 DEF AnswerInv, InStep, WireTypes
<1>3. Len(owed) \in Nat /\ Len(owed) >= 1 /\ Len(owed) <= 2 /\ Len(owed) # 2
  BY <1>1, <1>2, EmptySeq DEF AnswerInv, InStep
<1>4. owed' \in Seq(Queries) /\ Len(owed') = 2
  <2>1. Append(owed, q) \in Seq(Queries) /\ Len(Append(owed, q)) = Len(owed) + 1
    BY <1>1, AppendProperties
  <2>2. Len(owed) = 1
    <3>1. \A n \in Nat : n >= 1 /\ n <= 2 /\ n # 2 => n = 1
      OBVIOUS
    <3> QED
      BY <1>3, <3>1, Zenon
  <2>3. Len(Append(owed, q)) = 2
    BY <2>1, <2>2
  <2> QED
    BY <2>1, <2>3
<1>5. inbox' \in Seq(WireByte) /\ WrongAnswers' = {}
  <2>1. q \notin Answers
    BY BytesDiffer
  <2> QED
    BY <1>1, <2>1, WireGrows
<1>6. AllTrue' /\ NotFooledOnce'
  BY <1>2, <1>5 DEF AnswerInv, AllTrue, PrevTrue, NotFooledOnce
<1>7. WireTypes'
  BY <1>1, <1>2, <1>4, <1>5 DEF WireTypes
<1>8. InStep'
  BY <1>2, <1>4 DEF InStep
<1> QED
  BY <1>5, <1>6, <1>7, <1>8 DEF AnswerInv, OneWrong

\* The firmware sends the query at the head of its queue.
LEMMA WriteQueryKeeps ==
    ASSUME AnswerInv, MaxFaults \in {0, 1}, WriteQuery
    PROVE  AnswerInv'
<1>1. /\ inbox = <<>> /\ reading = 0 /\ Head(queue) \in Queries
      /\ owed' = Append(owed, Head(queue)) /\ late' = FALSE
      /\ UNCHANGED <<watched, truth, been, reading, prev, report>>
  BY DEF WriteQuery, InPass, parsed
<1>2. CASE owed = <<>>
  <2>1. Arrives(Head(queue)) /\ owed' = <<Head(queue)>>
    BY <1>1, <1>2 DEF WriteQuery
  <2> QED
    BY <1>1, <1>2, <2>1, QueryKeeps
<1>3. CASE owed # <<>>
  <2>1. /\ inbox' = Append(inbox, Head(queue))
        /\ IF late THEN faults' = faults ELSE faults < MaxFaults /\ faults' = faults + 1
    BY <1>3 DEF WriteQuery
  <2> QED
    BY <1>1, <1>3, <2>1, OverlapKeeps
<1> QED
  BY <1>2, <1>3

\* A panel asks.
LEMMA PanelPollsKeeps ==
    ASSUME AnswerInv, MaxFaults \in {0, 1}, NEW q \in {QueryDoor, QueryLightLock},
           PanelPolls(q)
    PROVE  AnswerInv'
<1>1. /\ inbox = <<>> /\ owed = <<>> /\ owed' = <<q>> /\ Arrives(q) /\ late' = late
      /\ UNCHANGED <<watched, truth, been, reading, prev, report>>
  BY DEF PanelPolls, parsed
<1>2. q \in Queries
  BY BytesDiffer
<1>3. late = FALSE
  <2>1. Len(owed) = 0 /\ late \in BOOLEAN
    BY <1>1 DEF AnswerInv, WireTypes
  <2> QED
    BY <2>1 DEF AnswerInv, InStep
<1> QED
  BY <1>1, <1>2, <1>3, QueryKeeps

\* The opener answers the first query it has not answered.
LEMMA OpenerAnswersKeeps ==
    ASSUME AnswerInv, MaxFaults \in {0, 1}, OpenerAnswers
    PROVE  AnswerInv'
<1> DEFINE a == IF Head(owed) = watched THEN truth
                ELSE IF Head(owed) = QueryDoor THEN 85
                ELSE IF Head(owed) = QueryLightLock THEN 88 ELSE 0
<1>1. /\ owed # <<>> /\ owed' = Tail(owed) /\ late' = FALSE /\ Arrives(a)
      /\ UNCHANGED <<watched, truth, been, reading, prev, report>>
  BY DEF OpenerAnswers, parsed
<1>2. WireTypes /\ inbox \in Seq(WireByte) /\ owed \in Seq(Queries)
  BY DEF AnswerInv, WireTypes
<1>3. /\ Tail(owed) \in Seq(Queries) /\ Len(Tail(owed)) = Len(owed) - 1
      /\ Len(owed) \in Nat /\ Len(owed) >= 1 /\ Len(owed) <= 2
  <2>1. Tail(owed) \in Seq(Queries) /\ Len(Tail(owed)) = Len(owed) - 1
    BY <1>1, <1>2, HeadTailProperties
  <2>2. Len(owed) \in Nat /\ Len(owed) # 0
    BY <1>1, <1>2, EmptySeq
  <2>3. Len(owed) <= 2
    BY DEF AnswerInv, InStep
  <2> QED
    BY <2>1, <2>2, <2>3
<1>4. a \in Answers /\ a \in WireByte /\ a \notin Queries
  BY <1>2, BytesDiffer DEF WireTypes
<1>5. LastByte = watched /\ ~late /\ Len(owed) # 2 => a \in been
  <2>1. SUFFICES ASSUME LastByte = watched, Len(owed) # 2 PROVE a \in been
    OBVIOUS
  <2>2. Len(owed) = 1
    <3>1. \A n \in Nat : n >= 1 /\ n <= 2 /\ n # 2 => n = 1
      OBVIOUS
    <3> QED
      BY <1>3, <2>1, <3>1, Zenon
  <2>3. Head(owed) = watched
    BY <2>1, <2>2 DEF AnswerInv, InStep
  <2> QED
    BY <1>2, <2>3 DEF WireTypes
<1>6. PrevTrue' = PrevTrue /\ NotFooledOnce'
  BY <1>1 DEF PrevTrue, AnswerInv, NotFooledOnce
<1>7. /\ Len(owed') = Len(owed) - 1 /\ owed' \in Seq(Queries)
      /\ Len(owed') <= 2 /\ Len(owed') # 2 /\ ~late' /\ Len(owed') \in Nat
      /\ Len(owed') = 1 => Len(owed) = 2
      /\ Len(owed) # 2 => Len(owed') = 0
  <2>1. Len(owed') = Len(owed) - 1 /\ owed' \in Seq(Queries) /\ ~late'
    BY <1>1, <1>3
  <2>2. \A m \in Nat : m >= 1 /\ m <= 2 =>
             /\ m - 1 <= 2 /\ m - 1 # 2 /\ m - 1 \in Nat
             /\ m - 1 = 1 => m = 2
             /\ m # 2 => m - 1 = 0
    OBVIOUS
  <2> QED
    BY <1>3, <2>1, <2>2, Zenon
<1> HIDE DEF a
<1>8. CASE inbox' = inbox /\ faults = 0 /\ faults' = 1
  <2>1. WrongAnswers' = WrongAnswers /\ LastByte' = LastByte /\ AllTrue
    BY <1>1, <1>8 DEF WrongAnswers, LastByte, AnswerInv
  <2>2. Len(owed) # 2
    BY <1>8 DEF AnswerInv, InStep
  <2>3. Len(owed') = 0
    BY <1>7, <2>2
  <2>4. Len(owed') # 1
    BY <2>3
  <2>5. faults' \in 0..MaxFaults
    BY <1>1, <1>8 DEF Arrives
  <2>6. WireTypes'
    BY <1>1, <1>2, <1>7, <1>8, <2>5 DEF WireTypes
  <2>7. InStep'
    BY <1>7, <1>8, <2>4 DEF InStep
  <2> QED
    BY <1>1, <1>6, <2>1, <2>3, <2>6, <2>7 DEF AnswerInv, AllTrue, OneWrong
<1>9. ASSUME NEW x \in WireByte, x \notin Queries, inbox' = Append(inbox, x),
             \/ faults' = faults /\ x = a
             \/ faults = 0 /\ faults' = 1
      PROVE  AnswerInv'
  <2>1. /\ inbox' \in Seq(WireByte) /\ LastByte' = x
        /\ WrongAnswers' = IF LastByte = watched /\ x \in Answers \ been
                           THEN WrongAnswers \cup {Len(inbox) + 1} ELSE WrongAnswers
    BY <1>1, <1>2, <1>9, WireGrows
  <2>2. LastByte' # watched'
    BY <1>1, <1>2, <1>9, <2>1, BytesDiffer DEF WireTypes
  <2>3. faults' \in 0..MaxFaults /\ (faults' = 0 => faults = 0) /\ (faults = 1 => faults' = 1)
    BY <1>1, <1>2, <1>9 DEF WireTypes, Arrives
  <2>4. WireTypes'
    BY <1>1, <1>2, <1>7, <2>1, <2>3 DEF WireTypes
  <2>5. InStep'
    BY <1>7, <2>2 DEF InStep
  <2>6. CASE faults' = faults /\ x = a /\ ~late /\ Len(owed) # 2
    <3>1. WrongAnswers' = WrongAnswers /\ Len(owed') # 2
      BY <1>5, <1>7, <2>1, <2>6
    <3> QED
      BY <1>1, <1>6, <2>4, <2>5, <2>6, <3>1 DEF AnswerInv, OneWrong, AllTrue
  <2>7. CASE faults = 0 \/ late \/ Len(owed) = 2
    <3>1. PrevTrue /\ WrongAnswers = {} /\ Len(owed') # 2
      BY <1>7, <2>7 DEF AnswerInv, AllTrue
    <3>2. OneWrong'
      BY <1>6, <2>1, <3>1 DEF OneWrong
    <3>3. faults' = 0 => WrongAnswers' = {}
      <4>1. SUFFICES ASSUME faults' = 0 PROVE WrongAnswers' = {}
        OBVIOUS
      <4>2. faults = 0 /\ x = a
        BY <1>9, <2>3, <4>1
      <4>3. ~late /\ Len(owed) # 2
        BY <1>2, <4>2 DEF AnswerInv, InStep, WireTypes
      <4> QED
        BY <1>5, <2>1, <3>1, <4>2, <4>3
    <3> QED
      BY <1>1, <1>6, <2>4, <2>5, <3>1, <3>2, <3>3 DEF AnswerInv, AllTrue
  <2> QED
    BY <1>9, <2>6, <2>7
<1> QED
  BY <1>1, <1>2, <1>4, <1>8, <1>9, ArrivesWhole, BytesDiffer

\* A byte is read; it may be taken for an answer.
LEMMA ReadKeeps ==
    ASSUME AnswerInv, MaxFaults \in {0, 1}, ReadByte
    PROVE  AnswerInv'
<1> DEFINE b == Head(inbox)
<1>1. /\ inbox # <<>> /\ inbox' = Tail(inbox) /\ reading' = NowReading(b)
      /\ UNCHANGED <<watched, truth, been, owed, late, faults>>
      /\ IF reading # 0 /\ b \in Answers THEN ProcessAnswer(reading, b)
         ELSE UNCHANGED <<prev, report>>
  BY DEF ReadByte, counted
<1>2. WireTypes /\ inbox \in Seq(WireByte) /\ watched \in Queries /\ NotFooledOnce /\ OneWrong
      /\ been \subseteq Watchable(watched) /\ watched \in {QueryDoor, QueryLightLock}
      /\ reading \in {0} \cup Queries /\ 0 \notin Queries
  BY BytesDiffer DEF AnswerInv, WireTypes
<1>3. /\ inbox' \in Seq(WireByte) /\ reading' \in {0} \cup Queries
      /\ LastByte' = watched' <=> LastByte = watched
      /\ \A i \in WrongAnswers' : i + 1 \in WrongAnswers /\ i \in Nat /\ i >= 1
      /\ reading = watched /\ b \in Answers \ been <=> 1 \in WrongAnswers
  <2>1. LET h == NowReading(Head(inbox))
        IN  /\ Tail(inbox) \in Seq(WireByte) /\ Head(inbox) \in WireByte
            /\ h \in {0} \cup Queries
            /\ LastOf(h, Tail(inbox)) = watched <=> LastOf(reading, inbox) = watched
            /\ \A i \in Wrong(h, Tail(inbox), watched, been) :
                  i + 1 \in Wrong(reading, inbox, watched, been) /\ i \in Nat /\ i >= 1
            /\ reading = watched /\ Head(inbox) \in Answers \ been
               <=> 1 \in Wrong(reading, inbox, watched, been)
    BY <1>1, <1>2, OneLess
  <2>2. /\ WrongAnswers' = Wrong(NowReading(b), Tail(inbox), watched, been)
        /\ LastByte' = LastOf(NowReading(b), Tail(inbox)) /\ watched' = watched
    BY <1>1 DEF WrongAnswers, LastByte
  <2> QED
    BY <1>1, <2>1, <2>2 DEF WrongAnswers, LastByte
<1>4. WrongAnswers = {} => WrongAnswers' = {}
  BY <1>3
<1>5. (\A i, j \in WrongAnswers : i = j) => \A i, j \in WrongAnswers' : i = j
  <2>1. SUFFICES ASSUME \A i, j \in WrongAnswers : i = j,
                        NEW i \in WrongAnswers', NEW j \in WrongAnswers'
                 PROVE  i = j
    OBVIOUS
  <2>2. i + 1 = j + 1 /\ i \in Nat /\ j \in Nat
    BY <1>3, <2>1
  <2> QED
    BY <2>2
<1>6. (\A i, j \in WrongAnswers : i = j) /\ 1 \in WrongAnswers => WrongAnswers' = {}
  <2>1. SUFFICES ASSUME \A i, j \in WrongAnswers : i = j, 1 \in WrongAnswers,
                        NEW i \in WrongAnswers'
                 PROVE  FALSE
    OBVIOUS
  <2>2. i + 1 = 1 /\ i \in Nat /\ i >= 1
    BY <1>3, <2>1
  <2> QED
    BY <2>2
<1>7. WireTypes'
  BY <1>1, <1>2, <1>3 DEF WireTypes
<1>8. InStep'
  BY <1>1, <1>3 DEF AnswerInv, InStep
<1>9. CASE UNCHANGED <<prev, report>>
  <2>1. PrevTrue' = PrevTrue /\ NotFooledOnce'
    BY <1>1, <1>2, <1>9 DEF PrevTrue, NotFooledOnce
  <2>2. OneWrong'
    BY <1>2, <1>4, <1>5, <2>1 DEF OneWrong
  <2> QED
    BY <1>1, <1>4, <1>7, <1>8, <2>1, <2>2 DEF AnswerInv, AllTrue
<1>10. CASE reading # 0 /\ b \in Answers /\ ~UNCHANGED <<prev, report>>
  <2>1. ProcessAnswer(reading, b) /\ reading = watched
    BY <1>1, <1>10 DEF ProcessAnswer
  <2>2. CASE prev' = None /\ report' = report
    <3>1. PrevTrue' /\ NotFooledOnce'
      BY <1>1, <1>2, <2>2 DEF PrevTrue, NotFooledOnce
    <3>2. OneWrong'
      BY <1>2, <1>4, <1>5, <3>1 DEF OneWrong
    <3> QED
      BY <1>1, <1>4, <1>7, <1>8, <3>1, <3>2 DEF AnswerInv, AllTrue
  <2>3. CASE /\ prev' = b
             /\ report' = IF ~SeenTwice(b) THEN report
                          ELSE IF watched = QueryDoor THEN DoorState(b) ELSE LightState(b)
    <3>1. CASE b \in been
      <4>1. PrevTrue'
        BY <1>1, <2>3, <3>1 DEF PrevTrue
      <4>2. NotFooledOnce'
        <5>1. CASE SeenTwice(b)
          <6>1. report' \in been
            BY <1>2, <2>3, <3>1, <5>1, ReportedAsSeen
          <6> QED
            BY <1>1, <6>1 DEF NotFooledOnce
        <5>2. CASE ~SeenTwice(b)
          BY <1>1, <1>2, <2>3, <5>2 DEF NotFooledOnce
        <5> QED
          BY <5>1, <5>2
      <4>3. OneWrong'
        BY <1>2, <1>4, <1>5, <4>1 DEF OneWrong
      <4> QED
        BY <1>1, <1>4, <1>7, <1>8, <4>1, <4>2, <4>3 DEF AnswerInv, AllTrue
    <3>2. CASE b \notin been
      <4>1. 1 \in WrongAnswers
        BY <1>3, <1>10, <2>1, <3>2
      <4>2. PrevTrue /\ WrongAnswers' = {} /\ ~(faults = 0 \/ late \/ Len(owed) = 2)
        BY <1>2, <1>6, <4>1 DEF AnswerInv, OneWrong, AllTrue
      <4>3. prev # b
        BY <1>10, <3>2, <4>2, BytesDiffer DEF PrevTrue
      <4>4. NotFooledOnce'
        BY <1>1, <1>2, <2>3, <4>3 DEF SeenTwice, NotFooledOnce
      <4> QED
        BY <1>1, <1>7, <1>8, <4>2, <4>4 DEF AnswerInv, OneWrong
    <3> QED
      BY <3>1, <3>2
  <2> QED
    BY <2>1, <2>2, <2>3 DEF ProcessAnswer
<1> QED
  BY <1>1, <1>9, <1>10

\* The firmware gives up an answer.
LEMMA GiveUpKeeps ==
    ASSUME AnswerInv, MaxFaults \in {0, 1}, GiveUp
    PROVE  AnswerInv'
<1>1. /\ inbox = <<>> /\ inbox' = <<>> /\ reading' = 0
      /\ UNCHANGED <<watched, truth, been, owed, prev, report>>
      /\ IF owed # <<>> /\ ~late THEN IsLate ELSE UNCHANGED <<late, faults>>
  BY DEF GiveUp
<1>2. WireTypes /\ watched \in Queries /\ 0 \notin Queries /\ owed \in Seq(Queries)
      /\ late \in BOOLEAN
  BY BytesDiffer DEF AnswerInv, WireTypes
<1>3. LastByte' = 0 /\ WrongAnswers' = {} /\ WrongAnswers = {} /\ LastByte' # watched'
  BY <1>1, <1>2 DEF LastByte, LastOf, WrongAnswers, Wrong
<1>4. PrevTrue' = PrevTrue /\ NotFooledOnce' /\ OneWrong'
  BY <1>1, <1>3 DEF PrevTrue, AnswerInv, NotFooledOnce, OneWrong
<1>5. CASE UNCHANGED <<late, faults>>
  <2>1. WireTypes'
    BY <1>1, <1>2, <1>5 DEF WireTypes
  <2>2. InStep'
    BY <1>1, <1>3, <1>5 DEF AnswerInv, InStep
  <2> QED
    BY <1>1, <1>3, <1>4, <1>5, <2>1, <2>2 DEF AnswerInv, AllTrue
<1>6. CASE owed # <<>> /\ ~late /\ IsLate
  <2>1. faults = 0 /\ faults' = 1 /\ late' = TRUE /\ faults' \in 0..MaxFaults
    BY <1>2, <1>6 DEF IsLate, WireTypes
  <2>2. Len(owed) # 0 /\ Len(owed) \in Nat /\ Len(owed) <= 2 /\ Len(owed) # 2
    BY <1>2, <1>6, <2>1, EmptySeq DEF AnswerInv, InStep
  <2>3. Len(owed') = 1
    <3>1. \A n \in Nat : n # 0 /\ n <= 2 /\ n # 2 => n = 1
      OBVIOUS
    <3> QED
      BY <1>1, <2>2, <3>1, Zenon
  <2>4. WireTypes'
    BY <1>1, <1>2, <2>1 DEF WireTypes
  <2>5. InStep'
    BY <1>1, <1>3, <2>1, <2>3 DEF InStep
  <2>6. AllTrue'
    BY <1>3, <1>4, <2>1 DEF AnswerInv, AllTrue
  <2> QED
    BY <1>4, <2>4, <2>5, <2>6 DEF AnswerInv
<1> QED
  BY <1>1, <1>5, <1>6

\* What the opener would say changes; what has been true is not forgotten.
LEMMA ChangesKeeps ==
    ASSUME AnswerInv, MaxFaults \in {0, 1}, Changes
    PROVE  AnswerInv'
<1>1. /\ truth' \in Watchable(watched) \ {truth} /\ been' = been \cup {truth'}
      /\ UNCHANGED <<watched, reading, inbox, owed, late, faults, prev, report>>
  BY DEF Changes, parsed
<1>2. been \subseteq been'
  BY <1>1
<1>3. WrongAnswers' \subseteq WrongAnswers /\ LastByte' = LastByte
  BY <1>1, <1>2 DEF WrongAnswers, LastByte, Wrong
<1>4. (PrevTrue => PrevTrue') /\ NotFooledOnce'
  BY <1>1 DEF PrevTrue, AnswerInv, NotFooledOnce
<1>5. OneWrong' /\ (AllTrue => AllTrue')
  BY <1>3, <1>4 DEF AnswerInv, OneWrong, AllTrue
<1>6. WireTypes'
  BY <1>1 DEF AnswerInv, WireTypes
<1>7. InStep'
  BY <1>1, <1>3 DEF AnswerInv, InStep
<1> QED
  BY <1>1, <1>4, <1>5, <1>6, <1>7 DEF AnswerInv

\* AnswerInv is inductive: of the two answers a report needs one at most is wrong.
THEOREM AnswerInvariant ==
    ASSUME MaxFaults \in {0, 1}
    PROVE  Sec1Spec => []AnswerInv
<1>1. Sec1Init => AnswerInv
  <2> SUFFICES ASSUME Sec1Init PROVE AnswerInv
    OBVIOUS
  <2>1. /\ watched \in {QueryDoor, QueryLightLock} /\ truth \in Watchable(watched)
        /\ owed = <<>> /\ late = FALSE /\ inbox = <<>> /\ reading = 0 /\ prev = None
        /\ report = 0 /\ faults = 0 /\ been = {truth}
    BY DEF Sec1Init
  <2>2. 0 \in 0..MaxFaults /\ Len(owed) = 0 /\ owed \in Seq(Queries) /\ inbox \in Seq(WireByte)
    BY <2>1
  <2>3. WrongAnswers = {} /\ LastByte = 0 /\ LastByte # watched
    BY <2>1, BytesDiffer DEF WrongAnswers, Wrong, LastByte, LastOf
  <2>4. WireTypes
    BY <2>1, <2>2 DEF WireTypes
  <2>5. PrevTrue /\ NotFooledOnce /\ OneWrong
    BY <2>1, <2>3 DEF PrevTrue, NotFooledOnce, OneWrong
  <2>6. InStep
    BY <2>1, <2>2, <2>3 DEF InStep
  <2> QED
    BY <2>3, <2>4, <2>5, <2>6 DEF AnswerInv, AllTrue
<1>2. AnswerInv /\ [Sec1Next]_sec1Vars => AnswerInv'
  <2> SUFFICES ASSUME AnswerInv, [Sec1Next]_sec1Vars PROVE AnswerInv'
    OBVIOUS
  <2>1. CASE PanelStarts
    BY <2>1, PanelStartsKeeps
  <2>2. CASE \E q \in {QueryDoor, QueryLightLock} : PanelPolls(q)
    BY <2>2, PanelPollsKeeps
  <2>3. CASE OpenerAnswers
    BY <2>3, OpenerAnswersKeeps
  <2>4. CASE Changes
    BY <2>4, ChangesKeeps
  <2>5. CASE ReadByte
    BY <2>5, ReadKeeps
  <2>6. CASE GiveUp
    BY <2>6, GiveUpKeeps
  <2>7. CASE WriteQuery
    BY <2>7, WriteQueryKeeps
  <2>8. CASE \/ WindowOpens \/ WindowCloses \/ Busy \/ WriteButton
             \/ DoorCommand \/ SetLight \/ FlashLight \/ FlashEnds \/ FlashCancelled
             \/ SearchEnds \/ Look \/ Emulate \/ UNCHANGED sec1Vars
    <3>1. UNCHANGED <<watched, truth, been, reading, inbox, owed, late, prev, report>>
      BY <2>8 DEF WindowOpens, WindowCloses, Busy, WriteButton, DoorCommand, SetLight,
                  FlashLight, FlashEnds, FlashCancelled, SearchEnds, Look, Emulate, Presses,
                  Pushes, sec1Vars, bus, parsed, sending, place, counted
    <3>2. faults' = faults \/ (faults < MaxFaults /\ faults' = faults + 1)
      BY <2>8 DEF WindowOpens, WindowCloses, Busy, WriteButton, DoorCommand, SetLight,
                  FlashLight, FlashEnds, FlashCancelled, SearchEnds, Look, Emulate, Presses,
                  Pushes, sec1Vars, bus, parsed, sending, place, counted
    <3> QED
      BY <3>1, <3>2, WireStays
  <2> QED
    BY <2>1, <2>2, <2>3, <2>4, <2>5, <2>6, <2>7, <2>8 DEF Sec1Next
<1> QED
  BY <1>1, <1>2, PTL DEF Sec1Spec

\* What is reported of the door or the light was true at some time, though one byte
\* goes wrong, gets lost or comes late: a state is taken over when it is seen twice in
\* a row.
THEOREM NotFooled ==
    ASSUME MaxFaults \in {0, 1}
    PROVE  Sec1Spec => []NotFooledOnce
<1>1. AnswerInv => NotFooledOnce
  BY DEF AnswerInv
<1> QED
  BY <1>1, AnswerInvariant, PTL
-----------------------------------------------------------------------------
(* Types. *)

\* The sizes of the queue and of the start-up sequence, and the retries, are any.
Sized ==
    /\ Sequenced
    /\ QueueLen \in Nat /\ MaxRetry \in Nat

\* A queue is filled up to its length.
LEMMA PushFits ==
    ASSUME QueueLen \in Nat, NEW q \in Seq(BusByte), Len(q) <= QueueLen, NEW s \in Seq(BusByte)
    PROVE  Push(q, s) \in Seq(BusByte) /\ Len(Push(q, s)) <= QueueLen
<1> DEFINE n == IF QueueLen - Len(q) < Len(s) THEN QueueLen - Len(q) ELSE Len(s)
           p == SubSeq(s, 1, n)
<1>1. Len(q) \in Nat /\ Len(s) \in Nat
  BY LenProperties
<1>2. n \in 0..Len(s) /\ n <= QueueLen - Len(q)
  BY <1>1
<1> HIDE DEF n
<1>3. p \in Seq(BusByte) /\ Len(p) = n
  <2>1. CASE n = 0
    <3>1. p = <<>>
      BY <2>1
    <3> QED
      BY <2>1, <3>1
  <2>2. CASE n # 0
    BY <1>1, <1>2, <2>2, SubSeqProperties
  <2> QED
    BY <2>1, <2>2
<1> HIDE DEF p
<1>4. q \o p \in Seq(BusByte) /\ Len(q \o p) = Len(q) + Len(p)
  BY <1>3, ConcatProperties
<1>5. Push(q, s) = q \o p
  BY DEF Push, p, n
<1> QED
  BY <1>1, <1>2, <1>3, <1>4, <1>5

\* The flags, one by one.
Flags ==
    /\ late \in BOOLEAN /\ flashing \in BOOLEAN /\ clearToSend \in BOOLEAN
    /\ windowOpen \in BOOLEAN /\ searching \in BOOLEAN /\ detected \in BOOLEAN
    /\ booting \in BOOLEAN /\ emulating \in BOOLEAN /\ pollRate \in BOOLEAN
    /\ dropped \in BOOLEAN

BusTypes ==
    /\ panel \in {"absent", "booting", "polling"}
    /\ watched \in {QueryDoor, QueryLightLock}
    /\ truth \in Watchable(watched)
    /\ owed \in Seq(Queries)
    /\ held \subseteq {"door", "light"}
    /\ inbox \in Seq(WireByte)
    /\ reading \in {0} \cup Queries

ReportTypes ==
    /\ prev \in {None} \cup Answers
    /\ report \in {0} \cup Watchable(watched) \cup {80}

SendingTypes ==
    /\ queue \in Seq(BusByte) /\ Len(queue) <= QueueLen
    /\ retries \in 0..MaxRetry
    /\ stateIndex \in 0..(Len(States) - 1)

\* The types, in parts.
LEMMA TypesSplit ==
    /\ Sec1TypeOK => BusTypes /\ ReportTypes /\ SendingTypes /\ Flags
    /\ BusTypes /\ ReportTypes /\ SendingTypes /\ Flags => Sec1TypeOK
    /\ BusTypes' /\ ReportTypes' /\ SendingTypes' /\ Flags' => Sec1TypeOK'
BY DEF Sec1TypeOK, BusTypes, ReportTypes, SendingTypes, Flags, WireByte, BusByte

\* A byte that arrives, or not, is one that is read from the bus.
LEMMA ArrivesTyped ==
    ASSUME inbox \in Seq(WireByte), NEW b \in WireByte, Arrives(b)
    PROVE  inbox' \in Seq(WireByte)
<1>1. \A x \in {Bad} \cup Watchable(watched) : x \in WireByte
  BY BytesDiffer
<1>2. \A x \in WireByte : Append(inbox, x) \in Seq(WireByte)
  BY AppendProperties
<1> QED
  BY <1>1, <1>2 DEF Arrives

\* Whatever the answer, a state is reported that is known.
LEMMA StateTyped ==
    ASSUME NEW b \in Answers, report \in {0} \cup Watchable(watched) \cup {80}
    PROVE  /\ watched = QueryDoor => DoorState(b) \in {0} \cup Watchable(watched) \cup {80}
           /\ watched = QueryLightLock => LightState(b) \in {0} \cup Watchable(watched) \cup {80}
<1>1. ASSUME watched = QueryDoor
      PROVE  DoorState(b) \in {0} \cup Watchable(watched) \cup {80}
  <2>1. /\ (82 % 8) + 1 = 3 /\ (84 % 8) + 1 = 5 /\ (85 % 8) + 1 = 6
        /\ (88 % 8) + 1 = 1 /\ (92 % 8) + 1 = 5 /\ (0 % 8) + 1 = 1
    OBVIOUS
  <2>2. DoorBits[1] = 80 /\ DoorBits[3] = 82 /\ DoorBits[5] = 84 /\ DoorBits[6] = 85
    BY DEF DoorBits
  <2>3. b \in {82, 84, 85, 88, 92, 0}
    BY DEF Answers, DoorBytes, LightBytes
  <2>4. DoorBits[(b % 8) + 1] \in {80, 82, 84, 85}
    BY <2>1, <2>2, <2>3
  <2>5. DoorState(b) \in {report, DoorBits[(b % 8) + 1]}
    BY DEF DoorState
  <2> QED
    BY <1>1, <2>4, <2>5 DEF Watchable, DoorBytes
<1>2. ASSUME watched = QueryLightLock
      PROVE  LightState(b) \in {0} \cup Watchable(watched) \cup {80}
  BY <1>2 DEF LightState, Watchable, LightBytes, QueryDoor, QueryLightLock
<1> QED
  BY <1>1, <1>2
-----------------------------------------------------------------------------
\* The bus: what the other parties do, and what is read.
LEMMA BusTyped ==
    ASSUME Sec1TypeOK,
           \/ PanelStarts \/ (\E q \in {QueryDoor, QueryLightLock} : PanelPolls(q))
           \/ OpenerAnswers \/ Changes \/ ReadByte \/ GiveUp
    PROVE  Sec1TypeOK'
<1>1. BusTypes /\ ReportTypes /\ SendingTypes /\ Flags
  BY TypesSplit
<1> USE DEF parsed, sending, place, counted
<1>2. SendingTypes'
  BY <1>1 DEF PanelStarts, PanelPolls, OpenerAnswers, Changes, ReadByte, GiveUp, SendingTypes
<1>3. Flags'
  <2>1. CASE ReadByte
    <3>1. /\ clearToSend' = FALSE
          /\ UNCHANGED <<late, flashing, searching, detected, emulating, pollRate, dropped>>
      BY <2>1 DEF ReadByte
    <3>2. booting' \in BOOLEAN /\ windowOpen' \in BOOLEAN
      <4>1. \E p, q \in BOOLEAN : booting' = (booting \/ p) /\ windowOpen' = (windowOpen \/ q)
        BY <2>1, Zenon DEF ReadByte
      <4> QED
        BY <1>1, <4>1 DEF Flags
    <3> QED
      BY <1>1, <3>1, <3>2 DEF Flags
  <2>2. CASE PanelStarts \/ OpenerAnswers \/ Changes
    <3>1. /\ late' \in {late, FALSE}
          /\ UNCHANGED <<flashing, clearToSend, windowOpen, searching, detected, booting,
                         emulating, pollRate, dropped>>
      BY <2>2 DEF PanelStarts, OpenerAnswers, Changes
    <3> QED
      BY <1>1, <3>1 DEF Flags
  <2>3. CASE \E q \in {QueryDoor, QueryLightLock} : PanelPolls(q)
    <3>1. UNCHANGED <<late, flashing, clearToSend, windowOpen, searching, detected, booting,
                      emulating, pollRate, dropped>>
      BY <2>3 DEF PanelPolls
    <3> QED
      BY <1>1, <3>1 DEF Flags
  <2>4. CASE GiveUp
    <3>1. late' \in BOOLEAN
      BY <1>1, <2>4 DEF GiveUp, IsLate, Flags
    <3> QED
      BY <1>1, <2>4, <3>1 DEF GiveUp, Flags
  <2> QED
    BY <2>1, <2>2, <2>3, <2>4
<1>4. ASSUME UNCHANGED <<watched, prev, report>> PROVE ReportTypes'
  BY <1>1, <1>4 DEF ReportTypes
<1>5. CASE PanelStarts
  <2>1. inbox' \in Seq(WireByte)
    BY <1>1, <1>5, ArrivesTyped, BytesDiffer DEF PanelStarts, BusTypes
  <2>2. BusTypes'
    BY <1>1, <1>5, <2>1 DEF PanelStarts, BusTypes
  <2> QED
    BY <1>2, <1>3, <1>4, <1>5, <2>2, TypesSplit DEF PanelStarts
<1>6. CASE \E q \in {QueryDoor, QueryLightLock} : PanelPolls(q)
  <2>1. PICK q \in {QueryDoor, QueryLightLock} : PanelPolls(q)
    BY <1>6
  <2>2. q \in Queries /\ q \in WireByte
    BY BytesDiffer
  <2>3. inbox' \in Seq(WireByte)
    BY <1>1, <2>1, <2>2, ArrivesTyped DEF PanelPolls, BusTypes
  <2>4. owed' \in Seq(Queries)
    BY <2>1, <2>2 DEF PanelPolls
  <2>5. BusTypes'
    BY <1>1, <2>1, <2>3, <2>4 DEF PanelPolls, BusTypes
  <2> QED
    BY <1>2, <1>3, <1>4, <2>1, <2>5, TypesSplit DEF PanelPolls
<1>7. CASE OpenerAnswers
  <2> DEFINE a == IF Head(owed) = watched THEN truth
                  ELSE IF Head(owed) = QueryDoor THEN 85
                  ELSE IF Head(owed) = QueryLightLock THEN 88 ELSE 0
  <2>1. a \in WireByte
    BY <1>1, BytesDiffer DEF BusTypes
  <2>2. Arrives(a)
    BY <1>7 DEF OpenerAnswers
  <2> HIDE DEF a
  <2>3. inbox' \in Seq(WireByte)
    BY <1>1, <2>1, <2>2, ArrivesTyped DEF BusTypes
  <2>4. owed' \in Seq(Queries)
    BY <1>1, <1>7, HeadTailProperties DEF OpenerAnswers, BusTypes
  <2>5. BusTypes'
    BY <1>1, <1>7, <2>3, <2>4 DEF OpenerAnswers, BusTypes
  <2> QED
    BY <1>2, <1>3, <1>4, <1>7, <2>5, TypesSplit DEF OpenerAnswers
<1>8. CASE Changes \/ GiveUp
  <2>1. BusTypes'
    BY <1>1, <1>8 DEF Changes, GiveUp, BusTypes
  <2>2. UNCHANGED <<watched, prev, report>>
    BY <1>8 DEF Changes, GiveUp
  <2> QED
    BY <1>2, <1>3, <1>4, <2>1, <2>2, TypesSplit
<1>9. CASE ReadByte
  <2>1. inbox # <<>> /\ inbox' = Tail(inbox) /\ inbox' \in Seq(WireByte)
    BY <1>1, <1>9, HeadTailProperties DEF ReadByte, BusTypes
  <2>2. UNCHANGED <<panel, truth, owed, held, watched>> /\ reading' \in {0} \cup Queries
    BY <1>9 DEF ReadByte, NowReading
  <2>3. BusTypes'
    BY <1>1, <2>1, <2>2 DEF BusTypes
  <2> DEFINE b == Head(inbox)
  <2>4. IF reading # 0 /\ b \in Answers THEN ProcessAnswer(reading, b)
        ELSE UNCHANGED <<prev, report>>
    BY <1>9 DEF ReadByte
  <2> HIDE DEF b
  <2>5. CASE b \in Answers /\ ProcessAnswer(reading, b)
    <3>1. report \in {0} \cup Watchable(watched) \cup {80} /\ watched \in {QueryDoor, QueryLightLock}
      BY <1>1 DEF ReportTypes, BusTypes
    <3>2. CASE UNCHANGED <<prev, report>>
      BY <1>4, <2>2, <2>3, <1>2, <1>3, <3>2, TypesSplit
    <3>3. CASE prev' = None /\ report' = report
      <4>1. ReportTypes'
        BY <2>2, <3>1, <3>3 DEF ReportTypes
      <4> QED
        BY <1>2, <1>3, <2>3, <4>1, TypesSplit
    <3>4. CASE /\ reading = watched /\ prev' = b
               /\ report' = IF ~SeenTwice(b) THEN report
                            ELSE IF reading = QueryDoor THEN DoorState(b) ELSE LightState(b)
      <4>1. report' \in {0} \cup Watchable(watched) \cup {80}
        BY <2>5, <3>1, <3>4, StateTyped
      <4>2. ReportTypes'
        BY <2>2, <2>5, <3>4, <4>1 DEF ReportTypes
      <4> QED
        BY <1>2, <1>3, <2>3, <4>2, TypesSplit
    <3> QED
      BY <2>5, <3>2, <3>3, <3>4 DEF ProcessAnswer
  <2>6. CASE UNCHANGED <<prev, report>>
    BY <1>2, <1>3, <1>4, <2>2, <2>3, <2>6, TypesSplit
  <2> QED
    BY <2>4, <2>5, <2>6
<1> QED
  BY <1>5, <1>6, <1>7, <1>8, <1>9

\* What is sent.
LEMMA SendTyped ==
    ASSUME Sized, Sec1TypeOK, Busy \/ WriteQuery \/ WriteButton
    PROVE  Sec1TypeOK'
<1>1. BusTypes /\ ReportTypes /\ SendingTypes /\ Flags
  BY TypesSplit
<1> USE DEF bus, parsed, sending, place, counted
<1>2. ReportTypes'
  BY <1>1 DEF Busy, WriteQuery, WriteButton, ReportTypes
<1>3. queue # <<>> /\ (queue' = queue \/ queue' = Tail(queue))
  BY DEF Busy, WriteQuery, WriteButton, Sent, SendFailed
<1>4. queue' \in Seq(BusByte) /\ Len(queue') <= QueueLen
  <2>1. queue \in Seq(BusByte) /\ Len(queue) <= QueueLen /\ QueueLen \in Nat
    BY <1>1 DEF SendingTypes, Sized
  <2>2. Tail(queue) \in Seq(BusByte) /\ Len(Tail(queue)) = Len(queue) - 1 /\ Len(queue) \in Nat
    BY <1>3, <2>1, HeadTailProperties
  <2>3. Len(Tail(queue)) <= QueueLen
    BY <2>1, <2>2
  <2> QED
    BY <1>3, <2>1, <2>2, <2>3
<1>5. SendingTypes'
  <2>1. retries' \in 0..MaxRetry
    <3>1. retries' \in {0, retries} \/ (retries < MaxRetry /\ retries' = retries + 1)
      BY DEF Busy, WriteQuery, WriteButton, Sent, SendFailed
    <3> QED
      BY <1>1, <3>1 DEF SendingTypes, Sized
  <2>2. stateIndex' = stateIndex
    BY DEF Busy, WriteQuery, WriteButton
  <2> QED
    BY <1>1, <1>4, <2>1, <2>2 DEF SendingTypes
<1>6. Flags'
  <2>1. dropped' \in BOOLEAN
    BY <1>1 DEF Busy, WriteQuery, WriteButton, Sent, SendFailed, Flags
  <2> QED
    BY <1>1, <2>1 DEF Busy, WriteQuery, WriteButton, Flags
<1>7. BusTypes'
  <2>1. CASE Busy
    BY <1>1, <2>1 DEF Busy, BusTypes
  <2>2. CASE WriteQuery
    <3>1. Head(queue) \in Queries /\ Head(queue) \in WireByte
      BY <2>2, BytesDiffer DEF WriteQuery
    <3>2. inbox' \in Seq(WireByte)
      <4>1. Arrives(Head(queue)) \/ inbox' = Append(inbox, Head(queue))
        BY <2>2 DEF WriteQuery
      <4> QED
        BY <1>1, <3>1, <4>1, ArrivesTyped, AppendProperties DEF BusTypes
    <3>3. owed' \in Seq(Queries)
      BY <1>1, <2>2, <3>1, AppendProperties DEF WriteQuery, BusTypes
    <3> QED
      BY <1>1, <2>2, <3>2, <3>3 DEF WriteQuery, BusTypes
  <2>3. CASE WriteButton
    <3>1. held' \subseteq {"door", "light"}
      <4>1. Heard(Head(queue)) \subseteq {"door", "light"}
        BY <1>1 DEF BusTypes, Heard
      <4> QED
        BY <1>1, <2>3, <4>1 DEF WriteButton, BusTypes
    <3> QED
      BY <1>1, <2>3, <3>1 DEF WriteButton, BusTypes
  <2> QED
    BY <2>1, <2>2, <2>3
<1> QED
  BY <1>2, <1>5, <1>6, <1>7, TypesSplit

\* What is queued, and the flags.
LEMMA QueueTyped ==
    ASSUME Sized, Sec1TypeOK,
           \/ WindowOpens \/ WindowCloses \/ DoorCommand \/ SetLight \/ FlashLight \/ FlashEnds
           \/ FlashCancelled \/ SearchEnds \/ Look \/ Emulate
    PROVE  Sec1TypeOK'
<1>1. BusTypes /\ ReportTypes /\ SendingTypes /\ Flags
  BY TypesSplit
<1> USE DEF bus, parsed, sending, place, counted
<1>2. UNCHANGED <<panel, watched, truth, owed, held, inbox, reading, prev, report, retries>>
  BY DEF WindowOpens, WindowCloses, DoorCommand, SetLight, FlashLight, FlashEnds,
         FlashCancelled, SearchEnds, Look, Emulate, Presses, Pushes
<1>3. BusTypes' /\ ReportTypes'
  BY <1>1, <1>2 DEF BusTypes, ReportTypes
<1>4. Flags'
  <2>1. CASE WindowOpens \/ WindowCloses \/ FlashCancelled \/ SearchEnds \/ Look
    BY <1>1, <2>1 DEF WindowOpens, WindowCloses, FlashCancelled, SearchEnds, Look, Flags
  <2>2. CASE Emulate
    BY <1>1, <2>2 DEF Emulate, Flags
  <2>3. CASE DoorCommand \/ SetLight \/ FlashLight \/ FlashEnds
    <3>1. PICK s : Pushes(s) /\ flashing' \in BOOLEAN
      BY <1>1, <2>3 DEF DoorCommand, SetLight, FlashLight, FlashEnds, Presses, Flags
    <3> QED
      BY <1>1, <3>1 DEF Pushes, Flags
  <2> QED
    BY <2>1, <2>2, <2>3
<1>5. Len(States) \in Nat /\ stateIndex \in 0..(Len(States) - 1) /\ PollItems \in 1..Len(States)
      /\ queue \in Seq(BusByte) /\ Len(queue) <= QueueLen /\ QueueLen \in Nat
  BY <1>1 DEF Sized, Sequenced, SendingTypes
<1>6. ASSUME NEW s \in Seq(BusByte), queue' = Push(queue, s) \/ queue' = queue,
             stateIndex' \in 0..(Len(States) - 1)
      PROVE  SendingTypes'
  <2>1. queue' \in Seq(BusByte) /\ Len(queue') <= QueueLen
    BY <1>5, <1>6, PushFits
  <2> QED
    BY <1>1, <1>2, <1>6, <2>1 DEF SendingTypes
<1>7. CASE Emulate
  <2>1. stateIndex + 1 \in 1..Len(States)
    BY <1>5
  <2>2. States[stateIndex + 1] \in BusByte
    BY <2>1 DEF Sized, Sequenced
  <2>3. <<States[stateIndex + 1]>> \in Seq(BusByte)
    BY <2>2
  <2>4. stateIndex' \in 0..(Len(States) - 1)
    BY <1>5, <1>7, RestartWithin DEF Emulate, Sized
  <2>5. queue' = Push(queue, <<States[stateIndex + 1]>>)
    BY <1>7 DEF Emulate
  <2>6. SendingTypes'
    BY <1>6, <2>3, <2>4, <2>5
  <2> QED
    BY <1>3, <1>4, <2>6, TypesSplit
<1>8. CASE ~Emulate
  <2>1. \/ queue' = queue
        \/ \E s \in {DoorButton, LightButton, FlashButton,
                     <<LightRelease, LightRelease, LightRelease, LightRelease>>} :
              queue' = Push(queue, s)
    BY <1>8 DEF WindowOpens, WindowCloses, DoorCommand, SetLight, FlashLight, FlashEnds,
                FlashCancelled, SearchEnds, Look, Presses, Pushes
  <2>2. \A s \in {DoorButton, LightButton, FlashButton,
                  <<LightRelease, LightRelease, LightRelease, LightRelease>>} : s \in Seq(BusByte)
    <3>1. LightRelease \in BusByte
      BY DEF BusByte, Buttons
    <3>2. <<LightRelease, LightRelease, LightRelease, LightRelease>> \in Seq(BusByte)
      BY <3>1
    <3>3. DoorButton \in Seq(BusByte) /\ LightButton \in Seq(BusByte) /\ FlashButton \in Seq(BusByte)
      BY ButtonBytes
    <3> QED
      BY <3>2, <3>3
  <2>3. stateIndex' = stateIndex
    BY <1>8 DEF WindowOpens, WindowCloses, DoorCommand, SetLight, FlashLight, FlashEnds,
                FlashCancelled, SearchEnds, Look, Presses, Pushes
  <2>4. SendingTypes'
    BY <1>5, <1>6, <2>1, <2>2, <2>3, ButtonBytes
  <2> QED
    BY <1>3, <1>4, <2>4, TypesSplit
<1> QED
  BY <1>7, <1>8

\* Sec1TypeOK is inductive.
LEMMA Sec1Starts == Sized /\ Sec1Init => Sec1TypeOK
<1> SUFFICES ASSUME Sized, Sec1Init PROVE Sec1TypeOK
  OBVIOUS
<1>1. BusTypes
  BY DEF Sec1Init, BusTypes
<1>2. ReportTypes /\ Flags
  BY DEF Sec1Init, ReportTypes, Flags
<1>3. SendingTypes
  BY DEF Sec1Init, SendingTypes, Sized, Sequenced
<1> QED
  BY <1>1, <1>2, <1>3, TypesSplit

\* Every step of the bus.
LEMMA Sec1Steps == Sized /\ Sec1TypeOK /\ [Sec1Next]_sec1Vars => Sec1TypeOK'
<1> SUFFICES ASSUME Sized, Sec1TypeOK, [Sec1Next]_sec1Vars PROVE Sec1TypeOK'
  OBVIOUS
<1>1. CASE UNCHANGED sec1Vars
  BY <1>1 DEF sec1Vars, bus, parsed, sending, place, counted, Sec1TypeOK
<1>2. CASE Sec1Next
  BY <1>2, BusTyped, SendTyped, QueueTyped DEF Sec1Next
<1> QED
  BY <1>1, <1>2

\* The bytes queued never pass the queue's size, the place in the start-up sequence
\* stays within it, whatever the sizes and the sequence, and no report is made that
\* no answer stands for.
THEOREM Sec1Typed == ASSUME Sized PROVE Sec1Spec => []Sec1TypeOK
<1>1. Sec1Init => Sec1TypeOK
  BY Sec1Starts
<1>2. Sec1TypeOK /\ [Sec1Next]_sec1Vars => Sec1TypeOK'
  BY Sec1Steps
<1> QED
  BY <1>1, <1>2, PTL DEF Sec1Spec
-----------------------------------------------------------------------------
(* The units of the dialogue, side by side.                                *)

\* Whichever unit is at work, each keeps its types, the queues their sizes and the
\* clock its values, for all sizes and every start-up sequence.
THEOREM DialogueTyped ==
    ASSUME Sized, LightSized
    PROVE  MCSpec => []UnitsTypeOK
<1> DEFINE UnitsInv == RefreshInv /\ LightTypeOK /\ Sec1TypeOK /\ RxTypeOK /\ CountInv
<1>1. MCInit => UnitsInv
  BY RefreshStarts, LightStarts, Sec1Starts, RxStarts DEF MCInit
<1>2. UnitsInv /\ [MCNext]_mcVars => UnitsInv'
  <2> SUFFICES ASSUME UnitsInv, [MCNext]_mcVars PROVE UnitsInv'
    OBVIOUS
  <2>1. [Next]_vars /\ [LightNext]_lightVars /\ [Sec1Next]_sec1Vars /\ [RxNext]_rxVars
    BY DEF MCNext, mcVars
  <2> QED
    BY <2>1, RefreshSteps, LightSteps, Sec1Steps, RxSteps
<1>3. UnitsInv => UnitsTypeOK
  BY DEF RefreshInv, UnitsTypeOK
<1> QED
  BY <1>1, <1>2, <1>3, PTL DEF MCSpec
=============================================================================
