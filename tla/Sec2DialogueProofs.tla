------------------------- MODULE Sec2DialogueProofs -------------------------
(***************************************************************************)
(* A pending request of the light or the lock is under way, and the status *)
(* is asked for again soon enough and not too often.                       *)
(***************************************************************************)
EXTENDS Sec2Refresh, LightLock, SequenceTheorems, TLAPS

\* The places of the queue that switch the device, and those that ask about it.
SetAt(q, i)   == \E b \in Value : q[i] = Set(b)
AsksAt(q, i)  == q[i] = GetStatus

\* The last command to switch is for b, and a light is asked about after it.
EndsWith(q, b) ==
    \E i \in 1..Len(q) :
        /\ q[i] = Set(b)
        /\ \A j \in (i + 1)..Len(q) : ~SetAt(q, j)
        /\ device = "light" => \E j \in (i + 1)..Len(q) : AsksAt(q, j)

\* The opener has obeyed, and the answer of a light is still to come.
Obeyed(q, r, b) ==
    /\ real = b
    /\ \A j \in 1..Len(q) : ~SetAt(q, j)
    /\ device = "light" => \/ \E j \in 1..Len(q) : AsksAt(q, j)
                           \/ \E j \in 1..Len(r) : r[j] = Status(b)

\* The types that a proof about requests needs.
QueueTypes ==
    /\ device \in {"light", "lock"} /\ real \in Value
    /\ cmdq \in Seq(Commands) /\ replies \in Seq(Replies)
    /\ awaited \in SUBSET Value /\ spoilt \in BOOLEAN

\* What is pending is under way, and the opener alone has spoken.
UnderWay ==
    ~spoilt =>
        /\ \A i \in 1..Len(replies) : replies[i].kind = "status"
        /\ \A b \in awaited : /\ recorded # b
                              /\ EndsWith(cmdq, b) \/ Obeyed(cmdq, replies, b)

\* The inductive invariant.
RequestInv == QueueTypes /\ UnderWay
-----------------------------------------------------------------------------
\* A command either switches or asks, and not both.
LEMMA CommandKinds ==
    /\ \A c \in Commands : \/ c.kind = "set" /\ c.on \in Value /\ c = Set(c.on)
                           \/ c.kind # "set" /\ c = GetStatus
    /\ \A b \in Value : Set(b) \in Commands /\ Set(b) # GetStatus /\ Set(b).on = b
    /\ GetStatus \in Commands
<1>1. \A b \in Value : Set(b).kind = "set" /\ Set(b).on = b
  BY DEF Set
<1>2. GetStatus.kind = "status"
  BY DEF GetStatus
<1>3. \A c \in Commands : c = GetStatus \/ \E b \in Value : c = Set(b)
  BY DEF Commands
<1>4. \A b \in Value : Set(b) \in Commands
  BY DEF Commands
<1>5. GetStatus \in Commands
  BY DEF Commands
<1> QED
  BY <1>1, <1>2, <1>3, <1>4, <1>5

\* A report of the opener is no command of the wall panel.
LEMMA ReplyKinds ==
    /\ \A b \in Value : Status(b) \in Replies /\ Status(b).kind = "status" /\ Status(b).on = b
    /\ \A r \in Replies : r.kind = "status" => r.on \in Value /\ r = Status(r.on)
<1>1. \A b \in Value : Status(b).kind = "status" /\ Status(b).on = b /\ Status(b) \in Replies
  BY DEF Status, Replies
<1>2. \A b \in Value : Set(b).kind = "set"
  BY DEF Set
<1>3. Toggle.kind = "toggle"
  BY DEF Toggle
<1>4. \A r \in Replies : \/ r = Toggle \/ \E b \in Value : r = Set(b)
                         \/ \E b \in Value : r = Status(b)
  BY DEF Replies
<1> QED
  BY <1>1, <1>2, <1>3, <1>4

\* What is pushed arrives whole, unless the queue ends up shorter for it.
LEMMA PushedOrDropped ==
    ASSUME CmdLen \in Nat, NEW q \in Seq(Commands), NEW s \in Seq(Commands)
    PROVE  /\ Pushed(q, s) \in Seq(Commands)
           /\ Len(Pushed(q, s)) >= Len(q) + Len(s) => Pushed(q, s) = q \o s
<1> DEFINE n == IF CmdLen - Len(q) < Len(s) THEN CmdLen - Len(q) ELSE Len(s)
           kept == SubSeq(s, 1, n)
<1>1. Len(q) \in Nat /\ Len(s) \in Nat /\ n \in Int /\ n <= Len(s)
  OBVIOUS
<1>2. \A i \in 1..n : s[i] \in Commands
  BY <1>1
<1>3. kept \in Seq(Commands) /\ Len(kept) = IF 1 <= n THEN n ELSE 0
  BY <1>1, <1>2, SubSeqProperties
<1>4. Pushed(q, s) = q \o kept
  BY DEF Pushed
<1> HIDE DEF kept, n
<1>5. Pushed(q, s) \in Seq(Commands) /\ Len(Pushed(q, s)) = Len(q) + Len(kept)
  BY <1>3, <1>4, ConcatProperties
<1>6. ASSUME Len(kept) >= Len(s) PROVE kept = s
  <2>1. CASE n = Len(s)
    BY <2>1, SubSeqFull DEF kept
  <2>2. CASE n # Len(s)
    <3>1. Len(s) = 0 /\ Len(kept) = 0
      BY <1>1, <1>3, <1>6, <2>2
    <3>2. s = <<>> /\ kept = <<>>
      BY <1>3, <3>1, EmptySeq
    <3> QED
      BY <3>2
  <2> QED
    BY <2>1, <2>2
<1>7. Len(kept) \in Nat
  BY <1>3
<1>8. Len(Pushed(q, s)) >= Len(q) + Len(s) => Len(kept) >= Len(s)
  BY <1>1, <1>5, <1>7
<1> QED
  BY <1>4, <1>5, <1>6, <1>8

\* What a request that is verified queues.
Verified(b) == IF device = "light" THEN <<Set(b), GetStatus>> ELSE <<Set(b)>>

\* A request that is queued whole is the last command of the queue.
LEMMA RequestEnds ==
    ASSUME QueueTypes, NEW b \in Value, NEW q, q = cmdq \o Verified(b)
    PROVE  EndsWith(q, b)
<1> DEFINE i == Len(cmdq) + 1
<1>1. Set(b) \in Commands /\ GetStatus \in Commands /\ cmdq \in Seq(Commands)
      /\ Len(cmdq) \in Nat
  BY CommandKinds DEF QueueTypes
<1>2. GetStatus # Set("ON") /\ GetStatus # Set("OFF")
  BY CommandKinds DEF Value
<1>3. CASE device = "light"
  <2> DEFINE s == <<Set(b), GetStatus>>
  <2>1. q = cmdq \o s
    BY <1>3 DEF Verified
  <2>2. s \in Seq(Commands) /\ Len(s) = 2 /\ s[1] = Set(b) /\ s[2] = GetStatus
    BY <1>1
  <2> HIDE DEF s
  <2>3. /\ Len(q) = Len(cmdq) + Len(s)
        /\ \A k \in 1..(Len(cmdq) + Len(s)) :
              q[k] = IF k <= Len(cmdq) THEN cmdq[k] ELSE s[k - Len(cmdq)]
    <3>1. cmdq \in Seq(Commands) /\ s \in Seq(Commands)
      BY <1>1, <2>2
    <3>2. /\ Len(cmdq \o s) = Len(cmdq) + Len(s)
          /\ \A k \in 1..(Len(cmdq) + Len(s)) :
                (cmdq \o s)[k] = IF k <= Len(cmdq) THEN cmdq[k] ELSE s[k - Len(cmdq)]
      BY <3>1, ConcatProperties
    <3> QED
      BY <2>1, <3>2
  <2>4. Len(q) = i + 1 /\ i \in Nat /\ i >= 1
    BY <1>1, <2>2, <2>3
  <2>5. q[i] = Set(b) /\ q[i + 1] = GetStatus
    <3>1. q[i] = s[1] /\ q[i + 1] = s[2]
      BY <1>1, <2>2, <2>3
    <3> QED
      BY <2>2, <3>1
  <2> HIDE DEF i
  <2>6. i \in 1..Len(q) /\ i + 1 \in (i + 1)..Len(q) /\ \A j \in (i + 1)..Len(q) : j = i + 1
    BY <2>4
  <2>7. ~SetAt(q, i + 1) /\ AsksAt(q, i + 1)
    BY <2>5, CommandKinds DEF SetAt, AsksAt
  <2> QED
    BY <2>5, <2>6, <2>7 DEF EndsWith
<1>4. CASE device = "lock"
  <2> DEFINE s == <<Set(b)>>
  <2>1. q = cmdq \o s
    BY <1>4 DEF Verified
  <2>2. s \in Seq(Commands) /\ Len(s) = 1 /\ s[1] = Set(b)
    BY <1>1
  <2> HIDE DEF s
  <2>3. /\ Len(q) = Len(cmdq) + Len(s)
        /\ \A k \in 1..(Len(cmdq) + Len(s)) :
              q[k] = IF k <= Len(cmdq) THEN cmdq[k] ELSE s[k - Len(cmdq)]
    <3>1. cmdq \in Seq(Commands) /\ s \in Seq(Commands)
      BY <1>1, <2>2
    <3>2. /\ Len(cmdq \o s) = Len(cmdq) + Len(s)
          /\ \A k \in 1..(Len(cmdq) + Len(s)) :
                (cmdq \o s)[k] = IF k <= Len(cmdq) THEN cmdq[k] ELSE s[k - Len(cmdq)]
      BY <3>1, ConcatProperties
    <3> QED
      BY <2>1, <3>2
  <2>4. Len(q) = i /\ i \in Nat /\ i >= 1
    BY <1>1, <2>2, <2>3
  <2>5. q[i] = Set(b)
    <3>1. q[i] = s[1]
      BY <1>1, <2>2, <2>3
    <3> QED
      BY <2>2, <3>1
  <2> HIDE DEF i
  <2>6. i \in 1..Len(q) /\ \A j \in (i + 1)..Len(q) : FALSE
    BY <2>4
  <2> QED
    BY <1>4, <2>5, <2>6 DEF EndsWith
<1> QED
  BY <1>3, <1>4 DEF QueueTypes

\* Requests keep the invariant: the one before is no longer pending.
LEMMA RequestKeeps ==
    ASSUME CmdLen \in Nat, RequestInv, NEW b \in Value, NEW verify \in BOOLEAN,
           SetDevice(b, verify)
    PROVE  RequestInv'
<1> USE DEF RequestInv
<1> DEFINE s == SetPackets(b, verify)
<1>1. s \in Seq(Commands) /\ (verify => s = Verified(b))
  <2>1. s \in {<<Set(b), GetStatus>>, <<Set(b)>>} /\ (verify => s = Verified(b))
    BY DEF SetPackets, Verified
  <2>2. <<Set(b), GetStatus>> \in Seq(Commands) /\ <<Set(b)>> \in Seq(Commands)
    BY CommandKinds
  <2> QED
    BY <2>1, <2>2
<1>2. /\ verify => recorded # b
      /\ cmdq' = Pushed(cmdq, s) /\ awaited' = {b}
      /\ UNCHANGED <<device, recorded, replies, real>>
      /\ spoilt' = (spoilt \/ ~verify \/ Len(cmdq') < Len(cmdq) + Len(s))
  BY DEF SetDevice
<1> HIDE DEF s
<1>3. QueueTypes'
  <2>1. cmdq' \in Seq(Commands)
    BY <1>1, <1>2, PushedOrDropped DEF QueueTypes
  <2>2. spoilt' \in BOOLEAN
    BY <1>2 DEF QueueTypes
  <2> QED
    BY <1>2, <2>1, <2>2 DEF QueueTypes
<1>4. ASSUME ~spoilt' PROVE UnderWay'
  <2>1. ~spoilt /\ verify /\ ~(Len(cmdq') < Len(cmdq) + Len(s))
    BY <1>2, <1>4 DEF QueueTypes
  <2>2. recorded # b
    BY <1>2, <2>1
  <2>3. Len(cmdq') >= Len(cmdq) + Len(s)
    BY <1>1, <1>3, <2>1 DEF QueueTypes
  <2>4. cmdq' = cmdq \o Verified(b)
    BY <1>1, <1>2, <2>1, <2>3, PushedOrDropped DEF QueueTypes
  <2>5. EndsWith(cmdq', b)
    BY <2>4, RequestEnds
  <2>6. EndsWith(cmdq, b)'
    BY <1>2, <2>5 DEF EndsWith
  <2> QED
    BY <1>2, <2>1, <2>2, <2>6 DEF UnderWay
<1> QED
  BY <1>3, <1>4 DEF UnderWay

\* What the opener takes out of the queue leaves every pending request under way.
LEMMA OpenerKeeps == RequestInv /\ Opener => RequestInv'
<1> SUFFICES ASSUME RequestInv, Opener PROVE RequestInv'
  OBVIOUS
<1> DEFINE c == Head(cmdq)
<1>1. /\ cmdq # <<>> /\ cmdq' = Tail(cmdq)
      /\ UNCHANGED <<device, recorded, awaited, spoilt>>
      /\ c.kind = "set" => real' = c.on /\ replies' \in {replies, Append(replies, Status(c.on))}
      /\ c.kind # "set" => real' = real /\ replies' = Append(replies, Status(real))
  BY DEF Opener
<1>2. cmdq \in Seq(Commands) /\ replies \in Seq(Replies) /\ real \in Value
  BY DEF RequestInv, QueueTypes
<1>3. /\ c \in Commands /\ cmdq' \in Seq(Commands)
      /\ Len(cmdq') = Len(cmdq) - 1 /\ Len(cmdq) \in Nat /\ Len(cmdq') \in Nat
      /\ \A i \in 1..Len(cmdq') : cmdq'[i] = cmdq[i + 1]
      /\ c = cmdq[1]
  BY <1>1, <1>2, HeadTailProperties
<1>4. \/ c.kind = "set" /\ c.on \in Value /\ c = Set(c.on)
      \/ c.kind # "set" /\ c = GetStatus
  BY <1>3, CommandKinds
<1>5. PICK v \in Value : replies' \in {replies, Append(replies, Status(v))} /\ real' = v
  BY <1>1, <1>2, <1>4
<1>6. /\ replies' \in Seq(Replies) /\ Len(replies) \in Nat
      /\ Len(replies') >= Len(replies)
      /\ \A i \in 1..Len(replies) : replies'[i] = replies[i]
      /\ \A i \in 1..Len(replies') : i \in 1..Len(replies) \/ replies'[i] = Status(v)
  <2>1. Status(v) \in Replies
    BY ReplyKinds
  <2>2. CASE replies' = replies
    BY <1>2, <2>2
  <2>3. CASE replies' = Append(replies, Status(v))
    BY <1>2, <2>1, <2>3, AppendProperties
  <2> QED
    BY <1>5, <2>2, <2>3
<1>7. QueueTypes'
  BY <1>1, <1>3, <1>5, <1>6 DEF RequestInv, QueueTypes
<1>8. ASSUME ~spoilt PROVE UnderWay'
  <2>1. \A i \in 1..Len(replies') : replies'[i].kind = "status"
    BY <1>6, <1>8, ReplyKinds DEF RequestInv, UnderWay
  <2>2. ASSUME NEW b \in awaited, EndsWith(cmdq, b)
        PROVE  EndsWith(cmdq, b)' \/ Obeyed(cmdq, replies, b)'
    <3>1. PICK i \in 1..Len(cmdq) :
            /\ cmdq[i] = Set(b)
            /\ \A j \in (i + 1)..Len(cmdq) : ~SetAt(cmdq, j)
            /\ device = "light" => \E j \in (i + 1)..Len(cmdq) : AsksAt(cmdq, j)
      BY <2>2 DEF EndsWith
    <3>2. \A j \in i..Len(cmdq') : j \in 1..Len(cmdq') /\ ~SetAt(cmdq', j)
      BY <1>3, <3>1 DEF SetAt
    <3>3. device = "light" => \E j \in i..Len(cmdq') : AsksAt(cmdq', j)
      <4> SUFFICES ASSUME device = "light" PROVE \E j \in i..Len(cmdq') : AsksAt(cmdq', j)
        OBVIOUS
      <4>1. PICK j \in (i + 1)..Len(cmdq) : cmdq[j] = GetStatus
        BY <3>1 DEF AsksAt
      <4>2. j - 1 \in i..Len(cmdq') /\ j - 1 \in 1..Len(cmdq') /\ j = (j - 1) + 1
        BY <1>3, <4>1
      <4>3. cmdq'[j - 1] = GetStatus
        BY <1>3, <4>1, <4>2
      <4> QED
        BY <4>2, <4>3 DEF AsksAt
    <3>4. CASE i = 1
      <4>1. real' = b
        <5>1. b \in Value
          BY DEF RequestInv, QueueTypes
        <5>2. c = Set(b)
          BY <1>3, <3>1, <3>4
        <5>3. c.kind = "set" /\ c.on = b
          BY <5>1, <5>2, <1>4, CommandKinds
        <5> QED
          BY <1>1, <5>3
      <4> QED
        BY <1>1, <3>2, <3>3, <3>4, <4>1 DEF Obeyed
    <3>5. CASE i # 1
      <4>1. i - 1 \in 1..Len(cmdq') /\ (i - 1) + 1 = i
        BY <1>3, <3>1, <3>5
      <4>2. cmdq'[i - 1] = Set(b)
        BY <1>3, <3>1, <4>1
      <4> QED
        BY <1>1, <3>2, <3>3, <4>1, <4>2 DEF EndsWith
    <3> QED
      BY <3>4, <3>5
  <2>3. ASSUME NEW b \in awaited, Obeyed(cmdq, replies, b)
        PROVE  Obeyed(cmdq, replies, b)'
    <3>1. c.kind # "set" /\ real = b
      <4>1. ~SetAt(cmdq, 1)
        BY <1>1, <1>3, <2>3, EmptySeq, <1>2 DEF Obeyed
      <4> QED
        BY <1>3, <1>4, <2>3, <4>1 DEF SetAt, Obeyed
    <3>2. real' = b /\ replies' = Append(replies, Status(b))
      BY <1>1, <3>1
    <3>3. \A j \in 1..Len(cmdq') : ~SetAt(cmdq', j)
      BY <1>3, <2>3 DEF Obeyed, SetAt
    <3>4. \E j \in 1..Len(replies') : replies'[j] = Status(b)
      <4>1. Status(b) \in Replies
        BY ReplyKinds DEF RequestInv, QueueTypes
      <4>2. /\ Len(replies) + 1 \in 1..Len(replies')
            /\ replies'[Len(replies) + 1] = Status(b)
        BY <1>2, <3>2, <4>1, AppendProperties
      <4> QED
        BY <4>2
    <3> QED
      BY <3>2, <3>3, <3>4 DEF Obeyed
  <2> QED
    BY <1>1, <1>8, <2>1, <2>2, <2>3 DEF RequestInv, UnderWay
<1> QED
  BY <1>1, <1>7, <1>8 DEF RequestInv, UnderWay

\* A status packet ends a request, or it says nothing new and the answer that the
\* request waits for is another one.
LEMMA RxStatusKeeps == RequestInv /\ RxLightStatus => RequestInv'
<1> SUFFICES ASSUME RequestInv, RxLightStatus PROVE RequestInv'
  OBVIOUS
<1> DEFINE r == Head(replies)
<1>1. /\ replies # <<>> /\ replies' = Tail(replies) /\ r.kind = "status"
      /\ recorded' = r.on
      /\ awaited' = IF recorded' # recorded THEN {} ELSE awaited
      /\ UNCHANGED <<device, real, cmdq, spoilt>>
  BY DEF RxLightStatus, Hear, Unheard, Believed, Answered
<1>2. replies \in Seq(Replies)
  BY DEF RequestInv, QueueTypes
<1>3. /\ r \in Replies /\ replies' \in Seq(Replies) /\ r = replies[1]
      /\ Len(replies') = Len(replies) - 1 /\ Len(replies) \in Nat /\ Len(replies') \in Nat
      /\ \A i \in 1..Len(replies') : replies'[i] = replies[i + 1]
  BY <1>1, <1>2, HeadTailProperties
<1>4. QueueTypes'
  BY <1>1, <1>3 DEF RequestInv, QueueTypes
<1>5. ASSUME ~spoilt PROVE UnderWay'
  <2>1. \A i \in 1..Len(replies') : replies'[i].kind = "status"
    BY <1>3, <1>5 DEF RequestInv, UnderWay
  <2>2. ASSUME NEW b \in awaited, recorded' = recorded
        PROVE  recorded' # b /\ (EndsWith(cmdq, b)' \/ Obeyed(cmdq, replies, b)')
    <3>1. recorded # b /\ (EndsWith(cmdq, b) \/ Obeyed(cmdq, replies, b))
      BY <1>5 DEF RequestInv, UnderWay
    <3>2. CASE EndsWith(cmdq, b)
      BY <1>1, <2>2, <3>1, <3>2 DEF EndsWith
    <3>3. CASE Obeyed(cmdq, replies, b)
      <4>1. r # Status(b)
        BY <1>1, <2>2, <3>1, ReplyKinds DEF RequestInv, QueueTypes
      <4>2. ASSUME NEW j \in 1..Len(replies), replies[j] = Status(b)
            PROVE  \E k \in 1..Len(replies') : replies'[k] = Status(b)
        <5>1. j # 1
          BY <1>3, <4>1, <4>2
        <5>2. j - 1 \in 1..Len(replies') /\ (j - 1) + 1 = j
          BY <1>3, <5>1
        <5>3. replies'[j - 1] = Status(b)
          BY <1>3, <4>2, <5>2
        <5> QED
          BY <5>2, <5>3
      <4>3. Obeyed(cmdq, replies, b)'
        BY <1>1, <3>3, <4>2 DEF Obeyed
      <4> QED
        BY <2>2, <3>1, <4>3
    <3> QED
      BY <3>1, <3>2, <3>3
  <2> QED
    BY <1>1, <2>1, <2>2 DEF UnderWay
<1> QED
  BY <1>1, <1>4, <1>5 DEF RequestInv, UnderWay

\* The status may be asked for again.
LEMMA PollKeeps == RequestInv /\ Poll => RequestInv'
<1> SUFFICES ASSUME RequestInv, Poll PROVE RequestInv'
  OBVIOUS
<1>1. /\ cmdq = <<>> /\ cmdq' = <<GetStatus>>
      /\ UNCHANGED <<device, recorded, awaited, replies, real, spoilt>>
  BY DEF Poll
<1>2. QueueTypes'
  BY <1>1, CommandKinds DEF RequestInv, QueueTypes
<1>3. ASSUME NEW b \in awaited, EndsWith(cmdq, b) \/ Obeyed(cmdq, replies, b)
      PROVE  Obeyed(cmdq, replies, b)'
  <2>1. Len(cmdq) = 0 /\ Len(cmdq') = 1 /\ cmdq'[1] = GetStatus
    BY <1>1
  <2>2. Obeyed(cmdq, replies, b)
    BY <1>3, <2>1 DEF EndsWith
  <2>3. ~SetAt(cmdq', 1) /\ AsksAt(cmdq', 1)
    BY <2>1, CommandKinds DEF SetAt, AsksAt
  <2> QED
    BY <1>1, <2>1, <2>2, <2>3 DEF Obeyed
<1>4. UnderWay'
  BY <1>1, <1>3 DEF RequestInv, UnderWay
<1> QED
  BY <1>2, <1>4 DEF RequestInv

\* Losses and the wall panel take the promise back.
LEMMA OthersKeep == ASSUME CmdLen \in Nat, RequestInv, Lose \/ WallPanel \/ RxPanel
                    PROVE  RequestInv'
<1>1. CASE Lose
  <2>1. spoilt' = TRUE /\ UNCHANGED <<device, real, awaited>>
    BY <1>1 DEF Lose
  <2>2. cmdq' \in Seq(Commands) /\ replies' \in Seq(Replies)
    <3>1. CASE cmdq # <<>> /\ cmdq' = Tail(cmdq) /\ replies' = replies
      BY <3>1, HeadTailProperties DEF RequestInv, QueueTypes
    <3>2. CASE replies # <<>> /\ replies' = Tail(replies) /\ cmdq' = cmdq
      BY <3>2, HeadTailProperties DEF RequestInv, QueueTypes
    <3> QED
      BY <1>1, <3>1, <3>2 DEF Lose
  <2> QED
    BY <2>1, <2>2 DEF RequestInv, QueueTypes, UnderWay
<1>2. CASE WallPanel
  <2>1. spoilt' = TRUE /\ UNCHANGED <<device, cmdq, awaited>>
    BY <1>2 DEF WallPanel
  <2>2. real' \in Value /\ \E r \in Replies : replies' = Append(replies, r)
    <3>1. CASE real' = Opposite(real) /\ replies' = Append(replies, Toggle)
      BY <3>1 DEF Opposite, Value, Replies
    <3>2. ASSUME NEW b \in Value, real' = b, replies' = Append(replies, Set(b))
          PROVE  real' \in Value /\ \E r \in Replies : replies' = Append(replies, r)
      <4>1. Set(b) \in Replies
        BY DEF Replies
      <4> QED
        BY <3>2, <4>1
    <3> QED
      BY <1>2, <3>1, <3>2 DEF WallPanel
  <2>3. replies' \in Seq(Replies)
    BY <2>2 DEF RequestInv, QueueTypes
  <2> QED
    BY <2>1, <2>2, <2>3 DEF RequestInv, QueueTypes, UnderWay
<1>3. CASE RxPanel
  <2>1. replies # <<>> /\ replies \in Seq(Replies) /\ replies' = Tail(replies)
        /\ Head(replies).kind \in {"set", "toggle"}
        /\ spoilt' = spoilt /\ UNCHANGED <<device, real>>
    BY <1>3 DEF RxPanel, Hear, Unheard, RequestInv, QueueTypes
  <2>2. Head(replies) = replies[1] /\ 1 \in 1..Len(replies) /\ replies' \in Seq(Replies)
    BY <2>1, HeadTailProperties
  <2>3. spoilt
    BY <2>1, <2>2 DEF RequestInv, UnderWay
  <2>4. awaited' \in SUBSET Value
    BY <1>3 DEF RxPanel, Answered, RequestInv, QueueTypes
  <2>5. cmdq' \in Seq(Commands)
    <3>1. <<GetStatus>> \in Seq(Commands) /\ cmdq \in Seq(Commands)
      BY CommandKinds DEF RequestInv, QueueTypes
    <3>2. Pushed(cmdq, <<GetStatus>>) \in Seq(Commands)
      BY <3>1, PushedOrDropped
    <3>3. cmdq' \in {cmdq, Pushed(cmdq, <<GetStatus>>)}
      BY <1>3 DEF RxPanel
    <3> QED
      BY <3>1, <3>2, <3>3
  <2> QED
    BY <2>1, <2>2, <2>3, <2>4, <2>5 DEF RequestInv, QueueTypes, UnderWay
<1> QED
  BY <1>1, <1>2, <1>3
-----------------------------------------------------------------------------
\* RequestInv is inductive.
THEOREM RequestInvariant ==
    ASSUME CmdLen \in Nat
    PROVE  LightSpec => []RequestInv
<1>1. LightInit => RequestInv
  <2> SUFFICES ASSUME LightInit PROVE RequestInv
    OBVIOUS
  <2>1. awaited = {} /\ replies = <<>> /\ cmdq = <<>>
    BY DEF LightInit
  <2>2. QueueTypes
    <3>1. cmdq \in Seq(Commands) /\ replies \in Seq(Replies)
      BY <2>1, EmptySeq
    <3> QED
      BY <3>1 DEF LightInit, QueueTypes
  <2> QED
    BY <2>1, <2>2 DEF RequestInv, UnderWay
<1>2. RequestInv /\ [LightNext]_lightVars => RequestInv'
  <2> SUFFICES ASSUME RequestInv, [LightNext]_lightVars PROVE RequestInv'
    OBVIOUS
  <2>1. CASE Request \/ Flash
    <3>1. \E b \in Value, verify \in BOOLEAN : SetDevice(b, verify)
      BY <2>1 DEF Request, Flash
    <3> QED
      BY <3>1, RequestKeeps
  <2>2. CASE Poll
    BY <2>2, PollKeeps
  <2>3. CASE Opener
    BY <2>3, OpenerKeeps
  <2>4. CASE RxLightStatus
    BY <2>4, RxStatusKeeps
  <2>5. CASE Lose \/ WallPanel \/ RxPanel
    BY <2>5, OthersKeep
  <2>6. CASE UNCHANGED lightVars
    BY <2>6 DEF lightVars, RequestInv, QueueTypes, UnderWay, EndsWith, Obeyed, SetAt, AsksAt
  <2> QED
    BY <2>1, <2>2, <2>3, <2>4, <2>5, <2>6 DEF LightNext
<1> QED
  BY <1>1, <1>2, PTL DEF LightSpec

\* For a queue of any size and any number of packets on the way: a request of the
\* light or the lock is pending only while its command or the answer to it is under
\* way and the recorded state differs, as long as nothing was lost or dropped and
\* nobody else switched.
THEOREM PendingUnderWay ==
    ASSUME CmdLen \in Nat
    PROVE  LightSpec => []PendingIsUnderWay
<1>1. RequestInv => PendingIsUnderWay
  BY DEF RequestInv, UnderWay, PendingIsUnderWay, EndsWith, Obeyed, TellsOpener, TellsBack, AsksAt
<1> QED
  BY <1>1, RequestInvariant, PTL
-----------------------------------------------------------------------------
(* The light and the lock: types.                                         *)

\* The sizes of the two queues are any, and so are the bounds of the model.
LightSized == /\ CmdLen \in Nat \ {0} /\ ReplyLen \in Nat
              /\ MaxLost \in Nat /\ MaxOthers \in Nat

\* A queue is filled up to its length.
LEMMA PushedFits ==
    ASSUME CmdLen \in Nat, NEW q \in Seq(Commands), Len(q) <= CmdLen,
           NEW s \in Seq(Commands)
    PROVE  Pushed(q, s) \in Seq(Commands) /\ Len(Pushed(q, s)) <= CmdLen
<1> DEFINE n == IF CmdLen - Len(q) < Len(s) THEN CmdLen - Len(q) ELSE Len(s)
           p == SubSeq(s, 1, n)
<1>1. Len(q) \in Nat /\ Len(s) \in Nat
  BY LenProperties
<1>2. n \in 0..Len(s) /\ n <= CmdLen - Len(q)
  BY <1>1
<1> HIDE DEF n
<1>3. p \in Seq(Commands) /\ Len(p) = n
  <2>1. CASE n = 0
    <3>1. p = <<>>
      BY <2>1
    <3> QED
      BY <2>1, <3>1
  <2>2. CASE n # 0
    BY <1>1, <1>2, <2>2, SubSeqProperties
  <2> QED
    BY <2>1, <2>2
<1> HIDE DEF p
<1>4. q \o p \in Seq(Commands) /\ Len(q \o p) = Len(q) + Len(p)
  BY <1>3, ConcatProperties
<1>5. Pushed(q, s) = q \o p
  BY DEF Pushed, p, n
<1> QED
  BY <1>1, <1>2, <1>3, <1>4, <1>5

\* A reply that is expected fits, and one that was heard is gone.
LEMMA RepliesFit ==
    ASSUME ReplyLen \in Nat, NEW q \in Seq(Replies), Len(q) <= ReplyLen
    PROVE  /\ \A r \in Replies : Len(q) < ReplyLen =>
                  Append(q, r) \in Seq(Replies) /\ Len(Append(q, r)) <= ReplyLen
           /\ q # <<>> => Head(q) \in Replies /\ Tail(q) \in Seq(Replies)
                          /\ Len(Tail(q)) <= ReplyLen
<1>1. Len(q) \in Nat
  BY LenProperties
<1>2. \A r \in Replies : Append(q, r) \in Seq(Replies) /\ Len(Append(q, r)) = Len(q) + 1
  BY AppendProperties
<1>3. q # <<>> => Head(q) \in Replies /\ Tail(q) \in Seq(Replies) /\ Len(Tail(q)) = Len(q) - 1
  BY HeadTailProperties
<1> QED
  BY <1>1, <1>2, <1>3

\* The two devices' state apart from the queues, and the queues.
DeviceTypes ==
    /\ device \in {"light", "lock"}
    /\ recorded \in Value \cup {"UNKNOWN"} /\ goal \in Value \cup {"UNKNOWN"}
    /\ awaited \in {{}, {"ON"}, {"OFF"}}
    /\ real \in Value
    /\ lost \in 0..MaxLost /\ others \in 0..MaxOthers
QueuesFit ==
    /\ cmdq \in Seq(Commands) /\ Len(cmdq) <= CmdLen
    /\ replies \in Seq(Replies) /\ Len(replies) <= ReplyLen

\* What is asked of the opener.
LEMMA AskTyped ==
    ASSUME LightSized, LightTypeOK, Request \/ Flash \/ Poll
    PROVE  LightTypeOK'
<1> USE DEF LightTypeOK, LightSized
<1>1. CASE Poll
  <2>1. <<GetStatus>> \in Seq(Commands) /\ Len(<<GetStatus>>) = 1
    BY CommandKinds
  <2> QED
    BY <1>1, <2>1 DEF Poll
<1>2. CASE Request \/ Flash
  <2>1. PICK b \in Value, v \in BOOLEAN : SetDevice(b, v)
    BY <1>2 DEF Request, Flash
  <2>2. others' \in 0..MaxOthers
    <3>1. others' = others \/ (others < MaxOthers /\ others' = others + 1)
      BY <1>2 DEF Request, Flash
    <3> QED
      BY <3>1
  <2>3. SetPackets(b, v) \in Seq(Commands)
    <3>1. Set(b) \in Commands /\ GetStatus \in Commands
      BY CommandKinds
    <3>2. <<Set(b), GetStatus>> \in Seq(Commands) /\ <<Set(b)>> \in Seq(Commands)
      BY <3>1
    <3> QED
      BY <3>2 DEF SetPackets
  <2>4. cmdq' = Pushed(cmdq, SetPackets(b, v))
    BY <2>1 DEF SetDevice
  <2>5. cmdq' \in Seq(Commands) /\ Len(cmdq') <= CmdLen
    BY <2>3, <2>4, PushedFits
  <2>6. spoilt' \in BOOLEAN
    <3>1. \E p \in BOOLEAN : spoilt' = (spoilt \/ p)
      BY <2>1, Zenon DEF SetDevice
    <3> QED
      BY <3>1
  <2>7. goal' \in Value \cup {"UNKNOWN"} /\ awaited' \in {{}, {"ON"}, {"OFF"}}
    BY <2>1 DEF SetDevice, Value
  <2> QED
    BY <2>1, <2>2, <2>5, <2>6, <2>7 DEF SetDevice
<1> QED
  BY <1>1, <1>2

\* What the opener and the wall panel do, and what is lost.
LEMMA ElsewhereTyped ==
    ASSUME LightSized, LightTypeOK, Opener \/ Lose \/ WallPanel
    PROVE  LightTypeOK'
<1>1. DeviceTypes /\ QueuesFit /\ spoilt \in BOOLEAN
  BY DEF LightTypeOK, DeviceTypes, QueuesFit
<1>2. \A b \in Value : Status(b) \in Replies /\ Set(b) \in Replies
  BY DEF Replies
<1>3. Toggle \in Replies
  BY DEF Replies
<1>4. cmdq # <<>> => /\ Head(cmdq) \in Commands /\ Tail(cmdq) \in Seq(Commands)
                     /\ Len(Tail(cmdq)) <= CmdLen
  <2>1. cmdq \in Seq(Commands) /\ Len(cmdq) \in Nat /\ Len(cmdq) <= CmdLen /\ CmdLen \in Nat
    BY <1>1 DEF QueuesFit, LightSized
  <2>2. cmdq # <<>> => /\ Head(cmdq) \in Commands /\ Tail(cmdq) \in Seq(Commands)
                       /\ Len(Tail(cmdq)) = Len(cmdq) - 1
    BY <2>1, HeadTailProperties
  <2> QED
    BY <2>1, <2>2
<1>5. replies \in Seq(Replies) /\ Len(replies) <= ReplyLen /\ ReplyLen \in Nat
  BY <1>1 DEF QueuesFit, LightSized
<1>6. ASSUME DeviceTypes', QueuesFit', spoilt' \in BOOLEAN PROVE LightTypeOK'
  BY <1>6 DEF LightTypeOK, DeviceTypes, QueuesFit
<1>7. CASE Opener
  <2> DEFINE c == Head(cmdq)
  <2>1. c \in Commands /\ c.kind = "set" => c.on \in Value
    BY <1>4, <1>7, CommandKinds DEF Opener
  <2>2. real' \in Value /\ \E r \in Replies : replies' \in {replies, Append(replies, r)}
    BY <1>1, <1>2, <1>4, <1>7, CommandKinds DEF Opener, DeviceTypes
  <2>3. replies' \in Seq(Replies) /\ Len(replies') <= ReplyLen
    BY <1>5, <1>7, <2>2, RepliesFit DEF Opener
  <2>4. QueuesFit'
    BY <1>4, <1>7, <2>3 DEF Opener, QueuesFit
  <2>5. DeviceTypes'
    BY <1>1, <1>7, <2>2 DEF Opener, DeviceTypes
  <2> QED
    BY <1>1, <1>6, <1>7, <2>4, <2>5 DEF Opener
<1>8. CASE Lose
  <2>1. DeviceTypes'
    BY <1>1, <1>8 DEF Lose, DeviceTypes, LightSized
  <2>2. QueuesFit'
    BY <1>1, <1>4, <1>5, <1>8, RepliesFit DEF Lose, QueuesFit
  <2> QED
    BY <1>6, <1>8, <2>1, <2>2 DEF Lose
<1>9. CASE WallPanel
  <2>1. \E r \in Replies : replies' = Append(replies, r) /\ Len(replies) < ReplyLen
    BY <1>2, <1>3, <1>9 DEF WallPanel
  <2>2. replies' \in Seq(Replies) /\ Len(replies') <= ReplyLen
    BY <1>5, <2>1, RepliesFit
  <2>3. QueuesFit'
    BY <1>1, <1>9, <2>2 DEF WallPanel, QueuesFit
  <2>4. DeviceTypes'
    BY <1>1, <1>9 DEF WallPanel, Opposite, Value, DeviceTypes, LightSized
  <2> QED
    BY <1>6, <1>9, <2>3, <2>4 DEF WallPanel
<1> QED
  BY <1>7, <1>8, <1>9

\* What is heard.
LEMMA HearTyped ==
    ASSUME LightSized, LightTypeOK, RxLightStatus \/ RxPanel
    PROVE  LightTypeOK'
<1>1. DeviceTypes /\ QueuesFit /\ spoilt \in BOOLEAN
  BY DEF LightTypeOK, DeviceTypes, QueuesFit
<1>2. ASSUME DeviceTypes', QueuesFit', spoilt' \in BOOLEAN PROVE LightTypeOK'
  BY <1>2 DEF LightTypeOK, DeviceTypes, QueuesFit
<1>3. replies \in Seq(Replies) /\ Len(replies) <= ReplyLen /\ ReplyLen \in Nat
  BY <1>1 DEF QueuesFit, LightSized
<1>4. Head(replies) \in Replies /\ replies' \in Seq(Replies) /\ Len(replies') <= ReplyLen
  BY <1>3, RepliesFit DEF RxLightStatus, RxPanel, Hear
<1>5. spoilt' = spoilt /\ UNCHANGED <<device, real, lost, others>>
  BY DEF RxLightStatus, RxPanel, Unheard
<1>6. cmdq' \in Seq(Commands) /\ Len(cmdq') <= CmdLen
  <2>1. cmdq' = cmdq \/ cmdq' = Pushed(cmdq, <<GetStatus>>)
    BY DEF RxLightStatus, RxPanel
  <2>2. <<GetStatus>> \in Seq(Commands)
    BY CommandKinds
  <2> QED
    BY <1>1, <2>1, <2>2, PushedFits DEF QueuesFit, LightSized
<1>7. QueuesFit'
  BY <1>4, <1>6 DEF QueuesFit
<1>8. CASE RxLightStatus
  <2>1. recorded' \in Value
    BY <1>4, <1>8, ReplyKinds DEF RxLightStatus, Believed
  <2>2. DeviceTypes'
    BY <1>1, <1>5, <1>8, <2>1 DEF RxLightStatus, Answered, DeviceTypes
  <2> QED
    BY <1>1, <1>2, <1>5, <1>7, <2>2
<1>9. CASE RxPanel
  <2>1. goal' \in Value
    <3>1. \A b \in Value : Status(b).kind = "status" /\ Set(b).kind = "set" /\ Set(b).on = b
      BY DEF Status, Set
    <3>2. Toggle.kind = "toggle"
      BY DEF Toggle
    <3>3. Head(replies).kind = "set" => Head(replies).on \in Value
      BY <1>4, <3>1, <3>2 DEF Replies
    <3>4. goal' = IF Head(replies).kind = "set" THEN Head(replies).on ELSE Opposite(goal)
      BY <1>9 DEF RxPanel
    <3> QED
      BY <3>3, <3>4 DEF Opposite, Value
  <2>2. recorded' \in {recorded, goal'} /\ awaited' \in {awaited, {}}
    BY <1>9 DEF RxPanel, Answered
  <2>3. DeviceTypes'
    BY <1>1, <1>5, <2>1, <2>2 DEF DeviceTypes
  <2> QED
    BY <1>1, <1>2, <1>5, <1>7, <2>3
<1> QED
  BY <1>8, <1>9

\* LightTypeOK is inductive.
LEMMA LightStarts == LightSized /\ LightInit => LightTypeOK
<1> SUFFICES ASSUME LightSized, LightInit PROVE LightTypeOK
  OBVIOUS
<1>1. /\ cmdq \in Seq(Commands) /\ Len(cmdq) = 0
      /\ replies \in Seq(Replies) /\ Len(replies) = 0
  BY DEF LightInit
<1>2. Len(cmdq) <= CmdLen /\ Len(replies) <= ReplyLen
  BY <1>1 DEF LightSized
<1>3. recorded \in Value \cup {"UNKNOWN"} /\ goal = recorded
  BY DEF LightInit, Value
<1>4. lost \in 0..MaxLost /\ others \in 0..MaxOthers
  BY DEF LightInit, LightSized
<1>5. /\ device \in {"light", "lock"} /\ awaited \in {{}, {"ON"}, {"OFF"}}
      /\ real \in Value /\ spoilt \in BOOLEAN
  BY DEF LightInit
<1> QED
  BY <1>1, <1>2, <1>3, <1>4, <1>5 DEF LightTypeOK

\* Every step of a request.
LEMMA LightSteps == LightSized /\ LightTypeOK /\ [LightNext]_lightVars => LightTypeOK'
<1> SUFFICES ASSUME LightSized, LightTypeOK, [LightNext]_lightVars PROVE LightTypeOK'
  OBVIOUS
<1>1. CASE UNCHANGED lightVars
  BY <1>1 DEF lightVars, LightTypeOK
<1>2. CASE LightNext
  BY <1>2, AskTyped, ElsewhereTyped, HearTyped DEF LightNext
<1> QED
  BY <1>1, <1>2

\* The queues of the light and the lock never pass their sizes, whatever these are, and
\* no two opposite requests are pending.
THEOREM LightTyped == ASSUME LightSized PROVE LightSpec => []LightTypeOK
<1>1. LightInit => LightTypeOK
  BY LightStarts
<1>2. LightTypeOK /\ [LightNext]_lightVars => LightTypeOK'
  BY LightSteps
<1> QED
  BY <1>1, <1>2, PTL DEF LightSpec
-----------------------------------------------------------------------------
(* The status refresh.                                                     *)

\* The clock tells how long ago the last status and the last query were, unless that
\* is too long ago.
TimesTold ==
    /\ sinceStatus < Long => Since(now, lastStatus) = sinceStatus
    /\ sinceQuery < Long => Since(now, lastQuery) = sinceQuery

\* What was x ago seems to have been X ago, with b passes that found the queue filled;
\* and what was y ago seems recent, since the clock turned when x was nearly due.
TurnedAfter(x, y, Y, b) ==
    /\ y = Long /\ Y < Slow + b * PassGap
    /\ x < Y + Slow + (MaxBusy + 1) * PassGap

\* The query is not overdue, or it was not when the clock turned.
NotOverdue(x, X, y, Y, b) ==
    \/ x < Slow + b * PassGap
    \/ y < Slow + b * PassGap
    \/ TurnedAfter(x, y, Y, b)
    \/ TurnedAfter(y, x, X, b)

\* The inductive invariant.
RefreshInv ==
    /\ TypeOK
    /\ fastPolls <= unanswered
    /\ TimesTold
    /\ statusDone => NotOverdue(sinceStatus, Since(now, lastStatus),
                                sinceQuery, Since(now, lastQuery), busy)
-----------------------------------------------------------------------------
\* Remainders of what is less than two turns of the clock away.
LEMMA Remainders ==
    ASSUME NEW n \in Nat \ {0}, NEW x \in 0..(n - 1)
    PROVE  x % n = x /\ (x + n) % n = x /\ (x - n) % n = x
OBVIOUS

\* The bounds of the model that the proofs use, linearly.
LEMMA Bounds ==
    /\ ClockSpace \in Nat \ {0} /\ Fast \in Nat \ {0} /\ Slow \in Nat /\ Fast < Slow
    /\ MaxFast \in Nat \ {0} /\ PassGap \in Nat \ {0} /\ MaxBusy \in Nat
    /\ MaxBusy * PassGap \in Nat
    /\ (MaxBusy + 1) * PassGap = MaxBusy * PassGap + PassGap
    /\ Slack = 2 * (MaxBusy * PassGap) + PassGap
    /\ Long = 2 * Slow + 2 * (MaxBusy * PassGap) + 4 * PassGap
    /\ Long \in Nat /\ Long < ClockSpace
BY Sec2RefreshAssumption DEF Long, Slack

\* How long passes that found the queue filled take.
LEMMA BusyBounds ==
    ASSUME NEW b \in 0..MaxBusy
    PROVE  /\ b * PassGap \in Nat /\ b * PassGap <= MaxBusy * PassGap
           /\ (b + 1) * PassGap = b * PassGap + PassGap
           /\ 0 * PassGap = 0
BY Bounds

\* How the time that seems to have passed since then changes.
LEMMA SinceMoves ==
    ASSUME NEW t \in Clock, NEW then \in Clock, NEW gap \in 0..PassGap
    PROVE  LET u == (t + gap) % ClockSpace
           IN  /\ u \in Clock /\ Since(t, then) \in Nat /\ Since(u, then) \in Nat
               /\ Since(t, t) = 0 /\ Since(t, then) < ClockSpace
               /\ Since(u, then) <= Since(t, then) + gap
               /\ Since(t, then) + gap < ClockSpace => Since(u, then) = Since(t, then) + gap
<1> DEFINE n == ClockSpace
           u == (t + gap) % n
<1>1. /\ n \in Nat \ {0} /\ PassGap < n
      /\ t \in 0..(n - 1) /\ then \in 0..(n - 1) /\ gap \in 0..(n - 1)
  BY Bounds DEF Clock
<1>2. Since(t, then) = IF t >= then THEN t - then ELSE t - then + n
  <2>1. CASE t >= then
    BY <1>1, <2>1, Remainders DEF Since
  <2>2. CASE t < then
    <3>1. t - then + n \in 0..(n - 1) /\ t - then = (t - then + n) - n
      BY <1>1, <2>2
    <3>2. ((t - then + n) - n) % n = t - then + n
      BY <1>1, <3>1, Remainders
    <3> QED
      BY <1>1, <2>2, <3>1, <3>2 DEF Since
  <2> QED
    BY <1>1, <2>1, <2>2
<1>3. u = IF t + gap < n THEN t + gap ELSE t + gap - n
  <2>1. CASE t + gap < n
    BY <1>1, <2>1, Remainders
  <2>2. CASE t + gap >= n
    <3>1. t + gap - n \in 0..(n - 1) /\ t + gap = (t + gap - n) + n
      BY <1>1, <2>2
    <3>2. ((t + gap - n) + n) % n = t + gap - n
      BY <1>1, <3>1, Remainders
    <3> QED
      BY <1>1, <2>2, <3>1, <3>2
  <2> QED
    BY <1>1, <2>1, <2>2
<1> DEFINE r == Since(t, then) + gap
<1>4. u \in 0..(n - 1) /\ r \in 0..(2 * n - 2) /\ Since(t, then) \in 0..(n - 1)
      /\ (u - then = r \/ u - then = r - n \/ u - then = r - 2 * n)
  BY <1>1, <1>2, <1>3
<1>5. Since(u, then) = IF r < n THEN r ELSE r - n
  <2> HIDE DEF u, r
  <2> DEFINE d == u - then
  <2>1. d \in (1 - n)..(n - 1)
    BY <1>1, <1>4
  <2>2. d % n = IF d >= 0 THEN d ELSE d + n
    <3>1. CASE d >= 0
      BY <1>1, <2>1, <3>1, Remainders
    <3>2. CASE d < 0
      <4>1. d + n \in 0..(n - 1) /\ d = (d + n) - n
        BY <1>1, <2>1, <3>2
      <4>2. ((d + n) - n) % n = d + n
        BY <1>1, <4>1, Remainders
      <4> QED
        BY <1>1, <3>2, <4>1, <4>2
    <3> QED
      BY <1>1, <2>1, <3>1, <3>2
  <2>3. Since(u, then) = d % n
    BY DEF Since
  <2> QED
    BY <1>1, <1>4, <2>1, <2>2, <2>3
<1>6. Since(t, t) = 0
  BY <1>1 DEF Since
<1> HIDE DEF u
<1>7. u \in Clock
  BY <1>4 DEF Clock
<1> QED
  BY <1>1, <1>4, <1>5, <1>6, <1>7 DEF u

\* A pass that finds the queue filled: nothing turns that is nearly due.
LEMMA FilledPass ==
    ASSUME NEW x \in 0..Long, NEW X \in Nat, NEW y \in 0..Long, NEW Y \in Nat,
           NEW b \in 0..MaxBusy, b < MaxBusy, NEW gap \in 0..PassGap,
           NEW U \in Nat, NEW V \in Nat,
           X + gap < ClockSpace => U = X + gap,
           Y + gap < ClockSpace => V = Y + gap,
           NotOverdue(x, X, y, Y, b)
    PROVE  NotOverdue(Capped(x + gap, Long), U, Capped(y + gap, Long), V, b + 1)
<1>1. /\ b * PassGap \in Nat /\ b * PassGap <= MaxBusy * PassGap
      /\ (b + 1) * PassGap = b * PassGap + PassGap
  BY BusyBounds
<1>2. /\ PassGap \in Nat /\ Slow \in Nat /\ Long \in Nat /\ MaxBusy * PassGap \in Nat
      /\ Long = 2 * Slow + 2 * (MaxBusy * PassGap) + 4 * PassGap /\ Long < ClockSpace
      /\ ClockSpace \in Nat
  BY Bounds
<1>3. Capped(x + gap, Long) <= x + gap /\ Capped(y + gap, Long) <= y + gap
      /\ Capped(x + gap, Long) \in Nat /\ Capped(y + gap, Long) \in Nat
      /\ (x = Long => Capped(x + gap, Long) = Long)
      /\ (y = Long => Capped(y + gap, Long) = Long)
  BY <1>2 DEF Capped
<1> DEFINE B == b * PassGap
           C == (b + 1) * PassGap
           L == (MaxBusy + 1) * PassGap
<1>4. L \in Nat
  BY Bounds
<1>5. B \in Nat /\ C = B + PassGap /\ B <= MaxBusy * PassGap
  BY <1>1
<1>6. CASE x < Slow + B \/ y < Slow + B
  <2>1. x + gap < Slow + C \/ y + gap < Slow + C
    BY <1>2, <1>5, <1>6
  <2> QED
    BY <1>2, <1>3, <1>5, <2>1 DEF NotOverdue
<1>7. CASE TurnedAfter(x, y, Y, b)
  <2>1. y = Long /\ Y < Slow + B /\ x < Y + Slow + L
    BY <1>7 DEF TurnedAfter
  <2>2. V = Y + gap /\ V < Slow + C
    BY <1>2, <1>5, <2>1
  <2>3. Capped(x + gap, Long) < V + Slow + L
    BY <1>2, <1>3, <1>4, <2>1, <2>2
  <2> QED
    BY <1>3, <2>1, <2>2, <2>3 DEF NotOverdue, TurnedAfter
<1>8. CASE TurnedAfter(y, x, X, b)
  <2>1. x = Long /\ X < Slow + B /\ y < X + Slow + L
    BY <1>8 DEF TurnedAfter
  <2>2. U = X + gap /\ U < Slow + C
    BY <1>2, <1>5, <2>1
  <2>3. Capped(y + gap, Long) < U + Slow + L
    BY <1>2, <1>3, <1>4, <2>1, <2>2
  <2> QED
    BY <1>3, <2>1, <2>2, <2>3 DEF NotOverdue, TurnedAfter
<1> QED
  BY <1>6, <1>7, <1>8 DEF NotOverdue

\* A pass that could ask but finds that what was y ago seems recent.
LEMMA RecentPass ==
    ASSUME NEW x \in 0..Long, NEW X \in Nat, NEW y \in 0..Long, NEW Y \in Nat,
           NEW b \in 0..MaxBusy, NEW gap \in 0..PassGap,
           NEW U \in Nat, NEW V \in Nat,
           Y + gap < ClockSpace => V = Y + gap,
           Capped(y + gap, Long) < Long => V = Capped(y + gap, Long),
           NotOverdue(x, X, y, Y, b),
           V < Slow
    PROVE  NotOverdue(Capped(x + gap, Long), U, Capped(y + gap, Long), V, 0)
<1>1. b * PassGap \in Nat /\ b * PassGap <= MaxBusy * PassGap /\ 0 * PassGap = 0
  BY BusyBounds
<1>2. /\ PassGap \in Nat /\ Slow \in Nat /\ Long \in Nat /\ MaxBusy * PassGap \in Nat
      /\ Long = 2 * Slow + 2 * (MaxBusy * PassGap) + 4 * PassGap /\ Long < ClockSpace
      /\ ClockSpace \in Nat
  BY Bounds
<1> DEFINE B == b * PassGap
           L == (MaxBusy + 1) * PassGap
<1>3. L = MaxBusy * PassGap + PassGap /\ L \in Nat
  BY Bounds
<1>4. CASE Capped(y + gap, Long) < Long
  <2>1. Capped(y + gap, Long) < Slow + 0 * PassGap
    BY <1>1, <1>2, <1>4
  <2> QED
    BY <2>1 DEF NotOverdue
<1>5. CASE ~(Capped(y + gap, Long) < Long)
  <2>1. Capped(y + gap, Long) = Long /\ y + gap >= Long
    BY <1>2, <1>5 DEF Capped
  <2>2. Capped(x + gap, Long) <= x + gap /\ Capped(x + gap, Long) \in Nat
    BY <1>2 DEF Capped
  <2>3. x + gap < V + Slow + L
    <3>1. CASE x < Slow + B
      BY <1>1, <1>2, <1>3, <3>1
    <3>2. CASE y < Slow + B
      BY <1>1, <1>2, <2>1, <3>2
    <3>3. CASE TurnedAfter(x, y, Y, b)
      <4>1. Y < Slow + B /\ x < Y + Slow + L
        BY <3>3 DEF TurnedAfter
      <4> QED
        BY <1>1, <1>2, <1>3, <4>1
    <3>4. CASE TurnedAfter(y, x, X, b)
      <4>1. X < Slow + B /\ y < X + Slow + L
        BY <3>4 DEF TurnedAfter
      <4> QED
        BY <1>1, <1>2, <1>3, <2>1, <4>1
    <3> QED
      BY <3>1, <3>2, <3>3, <3>4 DEF NotOverdue
  <2>4. Capped(x + gap, Long) < V + Slow + L
    BY <1>2, <1>3, <2>2, <2>3
  <2> QED
    BY <1>1, <1>2, <2>1, <2>4 DEF NotOverdue, TurnedAfter
<1> QED
  BY <1>4, <1>5

\* A pass of the loop.
LEMMA PassKeeps ==
    ASSUME RefreshInv, Pass
    PROVE  RefreshInv'
<1>1. PICK gap \in 1..PassGap, loss \in BOOLEAN, filled \in BOOLEAN :
         LET t    == (now + gap) % ClockSpace
             lapse == recovery \/ loss
             poll == statusDone /\ ~filled /\ Due(t, lapse)
         IN  /\ filled => busy < MaxBusy
             /\ busy' = IF filled THEN busy + 1 ELSE 0
             /\ now' = t
             /\ recovery' = lapse
             /\ lastQuery' = IF poll THEN t ELSE lastQuery
             /\ unanswered' = IF poll THEN Queried ELSE unanswered
             /\ sinceStatus' = Capped(sinceStatus + gap, Long)
             /\ sinceQuery' = IF poll THEN 0 ELSE Capped(sinceQuery + gap, Long)
             /\ fastPolls' = IF poll /\ sinceQuery + gap < Slow
                             THEN Capped(fastPolls + 1, MaxFast + 1)
                             ELSE fastPolls
  BY DEF Pass
<1> DEFINE t    == (now + gap) % ClockSpace
           lapse == recovery \/ loss
           poll == statusDone /\ ~filled /\ Due(t, lapse)
           S == Since(now, lastStatus)
           Q == Since(now, lastQuery)
<1>2. /\ now \in Clock /\ lastStatus \in Clock /\ lastQuery \in Clock
      /\ recovery \in BOOLEAN /\ hasStatus \in BOOLEAN /\ unanswered \in 0..MaxFast
      /\ statusDone \in BOOLEAN /\ moving \in BOOLEAN /\ asked \in BOOLEAN
      /\ busy \in 0..MaxBusy /\ sinceStatus \in 0..Long /\ sinceQuery \in 0..Long
      /\ fastPolls \in 0..(MaxFast + 1) /\ fastPolls <= unanswered
      /\ gap \in 0..PassGap /\ gap \in Nat
  BY DEF RefreshInv, TypeOK
<1>3. UNCHANGED <<lastStatus, hasStatus, statusDone, moving, asked>>
  BY DEF Pass
<1>4. /\ ClockSpace \in Nat /\ Fast \in Nat /\ Slow \in Nat /\ Fast < Slow
      /\ MaxFast \in Nat \ {0} /\ PassGap \in Nat /\ MaxBusy \in Nat
      /\ Long \in Nat /\ Long < ClockSpace /\ Slow < Long
  BY Bounds
<1>5. /\ t \in Clock /\ now' = t /\ Since(t, t) = 0
      /\ S \in Nat /\ Since(t, lastStatus) \in Nat /\ Since(t, lastStatus) <= S + gap
      /\ S + gap < ClockSpace => Since(t, lastStatus) = S + gap
      /\ Q \in Nat /\ Since(t, lastQuery) \in Nat /\ Since(t, lastQuery) <= Q + gap
      /\ Q + gap < ClockSpace => Since(t, lastQuery) = Q + gap
  <2> HIDE DEF t
  <2>1. t \in Clock /\ S \in Nat /\ Since(t, lastStatus) \in Nat /\ Since(t, lastStatus) <= S + gap
        /\ (S + gap < ClockSpace => Since(t, lastStatus) = S + gap)
    BY <1>2, SinceMoves DEF t
  <2>2. Q \in Nat /\ Since(t, lastQuery) \in Nat /\ Since(t, lastQuery) <= Q + gap
        /\ (Q + gap < ClockSpace => Since(t, lastQuery) = Q + gap)
    BY <1>2, SinceMoves DEF t
  <2>3. Since(t, t) = 0
    BY <1>2, <1>4, <2>1, SinceMoves
  <2> QED
    BY <1>1, <2>1, <2>2, <2>3 DEF t
<1> HIDE DEF t
<1>6. Capped(sinceStatus + gap, Long) \in 0..Long /\ Capped(sinceQuery + gap, Long) \in 0..Long
  BY <1>2, <1>4 DEF Capped
<1>7. /\ Capped(sinceStatus + gap, Long) < Long
           => Since(t, lastStatus) = Capped(sinceStatus + gap, Long)
      /\ Capped(sinceQuery + gap, Long) < Long
           => Since(t, lastQuery) = Capped(sinceQuery + gap, Long)
  BY <1>2, <1>4, <1>5 DEF Capped, RefreshInv, TimesTold
<1>8. busy' \in 0..MaxBusy
  BY <1>1, <1>2, <1>4
<1>9. Queried \in 0..MaxFast /\ unanswered <= Queried
  BY <1>2, <1>4 DEF Queried, Capped
<1>10. poll \in BOOLEAN /\ lapse \in BOOLEAN
  BY <1>2 DEF Due
<1>11. CASE poll
  <2>1. /\ lastQuery' = t /\ unanswered' = Queried /\ sinceQuery' = 0
        /\ recovery' = lapse /\ busy' = 0
        /\ sinceStatus' = Capped(sinceStatus + gap, Long)
        /\ fastPolls' = IF sinceQuery + gap < Slow
                        THEN Capped(fastPolls + 1, MaxFast + 1) ELSE fastPolls
    BY <1>1, <1>11 DEF t
  <2>2. sinceQuery + gap < Slow => unanswered < MaxFast
    <3>1. SUFFICES ASSUME sinceQuery + gap < Slow PROVE unanswered < MaxFast
      OBVIOUS
    <3>2. Since(t, lastQuery) = sinceQuery + gap
      BY <1>2, <1>4, <1>7, <3>1 DEF Capped
    <3>3. sinceQuery + gap >= Interval(t, lapse)
      BY <1>11, <3>2 DEF Due
    <3> QED
      BY <1>2, <1>4, <3>1, <3>3 DEF Interval
  <2>3. fastPolls' \in 0..(MaxFast + 1) /\ fastPolls' <= unanswered'
    BY <1>2, <1>4, <2>1, <2>2 DEF Capped, Queried
  <2>4. TypeOK'
    <3>1. sinceQuery' \in 0..Long
      BY <1>4, <2>1
    <3> QED
      BY <1>2, <1>3, <1>5, <1>6, <1>8, <1>9, <1>10, <2>1, <2>3, <3>1, Zenon DEF TypeOK
  <2>5. TimesTold'
    BY <1>3, <1>4, <1>5, <1>7, <2>1 DEF TimesTold
  <2>6. sinceQuery' < Slow + busy' * PassGap
    BY <1>4, <2>1
  <2> QED
    BY <2>3, <2>4, <2>5, <2>6 DEF RefreshInv, NotOverdue
<1>12. CASE ~poll
  <2>1. /\ lastQuery' = lastQuery /\ unanswered' = unanswered /\ recovery' = lapse
        /\ sinceQuery' = Capped(sinceQuery + gap, Long)
        /\ sinceStatus' = Capped(sinceStatus + gap, Long)
        /\ fastPolls' = fastPolls
    BY <1>1, <1>12 DEF t
  <2>2. TypeOK'
    BY <1>2, <1>3, <1>5, <1>6, <1>8, <1>10, <2>1, Zenon DEF TypeOK
  <2>3. TimesTold'
    BY <1>3, <1>5, <1>7, <2>1 DEF TimesTold
  <2>4. ASSUME statusDone
        PROVE  NotOverdue(Capped(sinceStatus + gap, Long), Since(t, lastStatus),
                          Capped(sinceQuery + gap, Long), Since(t, lastQuery), busy')
    <3>1. NotOverdue(sinceStatus, S, sinceQuery, Q, busy)
      BY <2>4 DEF RefreshInv
    <3>2. CASE filled
      <4>1. busy < MaxBusy /\ busy' = busy + 1
        BY <1>1, <3>2
      <4> QED
        BY <1>2, <1>5, <3>1, <4>1, FilledPass
    <3>3. CASE ~filled
      <4>1. busy' = 0
        BY <1>1, <3>3
      <4>2. ~Due(t, lapse)
        BY <1>12, <2>4, <3>3
      <4>3. Interval(t, lapse) <= Slow /\ Interval(t, lapse) \in Nat
        BY <1>4 DEF Interval
      <4>4. Since(t, lastQuery) < Slow \/ Since(t, lastStatus) < Slow
        BY <1>4, <1>5, <4>2, <4>3 DEF Due
      <4>5. CASE Since(t, lastQuery) < Slow
        BY <1>2, <1>5, <1>7, <3>1, <4>1, <4>5, RecentPass
      <4>6. CASE Since(t, lastStatus) < Slow
        <5>1. NotOverdue(sinceQuery, Q, sinceStatus, S, busy)
          BY <3>1 DEF NotOverdue
        <5>2. NotOverdue(Capped(sinceQuery + gap, Long), Since(t, lastQuery),
                         Capped(sinceStatus + gap, Long), Since(t, lastStatus), 0)
          BY <1>2, <1>5, <1>7, <4>6, <5>1, RecentPass
        <5> QED
          BY <4>1, <5>2 DEF NotOverdue
      <4> QED
        BY <4>4, <4>5, <4>6
    <3> QED
      BY <3>2, <3>3
  <2>5. statusDone' => NotOverdue(sinceStatus', Since(now', lastStatus'),
                                  sinceQuery', Since(now', lastQuery'), busy')
    BY <1>3, <1>5, <2>1, <2>4
  <2>6. fastPolls' <= unanswered'
    BY <1>2, <2>1
  <2> QED
    BY <2>2, <2>3, <2>5, <2>6 DEF RefreshInv, Since, NotOverdue, TurnedAfter
<1> QED
  BY <1>10, <1>11, <1>12

\* RefreshInv is inductive.
LEMMA RefreshStarts == Init => RefreshInv
<1> SUFFICES ASSUME Init PROVE RefreshInv
  OBVIOUS
<1>1. Since(now, now) = 0
  BY Bounds, SinceMoves DEF Init
<1>2. TimesTold /\ fastPolls <= unanswered /\ ~statusDone
  BY <1>1 DEF Init, TimesTold
<1>3. unanswered \in 0..MaxFast /\ busy \in 0..MaxBusy /\ fastPolls \in 0..(MaxFast + 1)
      /\ sinceStatus \in 0..Long /\ sinceQuery \in 0..Long
  BY Bounds DEF Init
<1>4. TypeOK
  BY <1>3, Zenon DEF Init, TypeOK
<1> QED
  BY <1>2, <1>4 DEF RefreshInv

\* A pass, a status, a packet that cannot be decoded and another query.
LEMMA RefreshSteps == RefreshInv /\ [Next]_vars => RefreshInv'
<1> SUFFICES ASSUME RefreshInv, [Next]_vars PROVE RefreshInv'
  OBVIOUS
<1>1. /\ TypeOK /\ now \in Clock /\ Since(now, now) = 0 /\ Queried \in 0..MaxFast
      /\ unanswered <= Queried /\ 0 \in 0..MaxFast /\ 0 \in 0..Long
      /\ 0 \in 0..(MaxFast + 1)
      /\ unanswered \in Nat /\ fastPolls \in Nat /\ fastPolls <= unanswered
      /\ Queried \in Nat
  <2>1. now \in Clock /\ unanswered \in 0..MaxFast /\ fastPolls \in 0..(MaxFast + 1)
        /\ TypeOK /\ fastPolls <= unanswered
    BY DEF RefreshInv, TypeOK
  <2>2. Since(now, now) = 0
    BY Bounds, SinceMoves, <2>1
  <2> QED
    BY Bounds, <2>1, <2>2 DEF Queried, Capped
<1>2. ASSUME NEW b \in Nat PROVE 0 < Slow + b * PassGap
  BY Bounds
<1>3. CASE Pass
  BY <1>3, PassKeeps
<1>4. CASE RxStatus
  <2>1. TypeOK'
    BY <1>1, <1>4, Zenon DEF RxStatus, TypeOK
  <2>2. TimesTold' /\ fastPolls' <= unanswered'
    BY <1>1, <1>4 DEF RxStatus, TimesTold, RefreshInv
  <2>3. sinceStatus' < Slow + busy' * PassGap
    BY <1>1, <1>2, <1>4, Bounds DEF RxStatus, TypeOK
  <2> QED
    BY <2>1, <2>2, <2>3 DEF RefreshInv, NotOverdue
<1>5. CASE RxUnknown
  <2>1. TypeOK'
    BY <1>1, <1>5, Zenon DEF RxUnknown, history, TypeOK
  <2> QED
    BY <2>1, <1>5 DEF RxUnknown, history, TimesTold, RefreshInv, NotOverdue, TurnedAfter,
                      Since
<1>6. CASE OtherQuery
  <2>1. TypeOK'
    <3>1. asked' \in BOOLEAN
      BY <1>1, <1>6 DEF OtherQuery, TypeOK
    <3> QED
      BY <1>1, <1>6, <3>1, Zenon DEF OtherQuery, TypeOK
  <2>2. TimesTold' /\ fastPolls' <= unanswered'
    BY <1>1, <1>6 DEF OtherQuery, TimesTold, RefreshInv
  <2>3. sinceQuery' < Slow + busy' * PassGap
    BY <1>1, <1>2, <1>6, Bounds DEF OtherQuery, TypeOK
  <2> QED
    BY <2>1, <2>2, <2>3 DEF RefreshInv, NotOverdue
<1>7. CASE UNCHANGED vars
  <2>1. UNCHANGED <<now, lastStatus, lastQuery, recovery, hasStatus, unanswered, statusDone,
                    moving, asked, busy, sinceStatus, sinceQuery, fastPolls>>
    BY <1>7 DEF vars, refresh, history
  <2> QED
    BY <2>1 DEF TypeOK, TimesTold, RefreshInv, NotOverdue, TurnedAfter, Since
<1> QED
  BY <1>3, <1>4, <1>5, <1>6, <1>7 DEF Next

\* The clock goes by the times that have really passed since the last status and the
\* last query, and neither is overdue.
THEOREM RefreshInvariant == Spec => []RefreshInv
<1>1. Init => RefreshInv
  BY RefreshStarts
<1>2. RefreshInv /\ [Next]_vars => RefreshInv'
  BY RefreshSteps
<1> QED
  BY <1>1, <1>2, PTL DEF Spec

\* Without an answer the queries are repeated at the short interval only so often
\* in a row: pollStatus and the count that sendGetStatus keeps.
THEOREM FastRetries == Spec => []FastRetriesBounded
<1>1. RefreshInv => FastRetriesBounded
  BY Bounds DEF RefreshInv, TypeOK, FastRetriesBounded
<1> QED
  BY <1>1, RefreshInvariant, PTL

\* Of an opener that is silent the status is asked for again after two long
\* intervals at most, the passes aside that found the queue filled, though the clock
\* may have turned.
THEOREM SilenceEnds == Spec => []SilenceBounded
<1>1. RefreshInv => SilenceBounded
  <2> SUFFICES ASSUME RefreshInv, statusDone
               PROVE  Silence < 2 * Slow + Slack
    BY DEF SilenceBounded
  <2>1. /\ sinceStatus \in Nat /\ sinceQuery \in Nat /\ busy \in 0..MaxBusy
        /\ Since(now, lastStatus) \in Nat /\ Since(now, lastQuery) \in Nat
    <3>1. now \in Clock /\ lastStatus \in Clock /\ lastQuery \in Clock /\ 0 \in 0..PassGap
      BY Bounds DEF RefreshInv, TypeOK
    <3> QED
      BY <3>1, Bounds, SinceMoves DEF RefreshInv, TypeOK
  <2>2. busy * PassGap \in Nat /\ busy * PassGap <= MaxBusy * PassGap
    BY <2>1, BusyBounds
  <2>3. NotOverdue(sinceStatus, Since(now, lastStatus),
                   sinceQuery, Since(now, lastQuery), busy)
    BY DEF RefreshInv
  <2>4. ASSUME NEW x \in Nat, NEW y \in Nat, NEW Y \in Nat, TurnedAfter(x, y, Y, busy)
        PROVE  x < 2 * Slow + Slack
    BY <2>2, <2>4, Bounds DEF TurnedAfter
  <2>5. sinceStatus < 2 * Slow + Slack \/ sinceQuery < 2 * Slow + Slack
    BY <2>1, <2>2, <2>3, <2>4, Bounds DEF NotOverdue
  <2> QED
    BY <2>1, <2>5, Bounds DEF Silence
<1> QED
  BY <1>1, RefreshInvariant, PTL
=============================================================================
