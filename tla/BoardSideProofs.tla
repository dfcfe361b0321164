-------------------------- MODULE BoardSideProofs ---------------------------
(***************************************************************************)
(* The count of the event channels agrees with the channels that are taken,*)
(* the board holds no setting that keeps its network out of reach without  *)
(* checking it, and each unit of MCBoardSide keeps its types.              *)
(***************************************************************************)
EXTENDS MCBoardSide, OtaUpdateProofs, FiniteSetTheorems, WellFoundedInduction, TLAPS

(* The event channels.                                                     *)

\* The lowest of some channels is one of them.
LEMMA LowestIsOne ==
    ASSUME NEW S \in SUBSET Nat, S # {}
    PROVE  Min(S) \in S
<1>1. PICK x \in S : \A y \in S : ~(<<y, x>> \in OpToRel(<, Nat))
  BY NatLessThanWellFounded, WFMin
<1>2. \A y \in S : ~(y < x)
  BY <1>1 DEF OpToRel
<1>3. \A y \in S : x =< y
  BY <1>2
<1> QED
  BY <1>3 DEF Min

Slot == [owner : Viewers \cup {""}, on : BOOLEAN, alive : BOOLEAN]

\* The channels taken, and those sent to, of the slots s.
TakenIn(s) == {i \in Indices : s[i].owner # ""}

\* Of s, no browser holds two and only taken ones are sent to.
WellOwned(s) ==
    /\ s \in [Indices -> Slot]
    /\ \A i, j \in TakenIn(s) : s[i].owner = s[j].owner => i = j
    /\ \A i \in Indices : s[i].on => i \in TakenIn(s)

\* The count n is right for s, or too low when debug messages are logged.
Counts(n, s) ==
    /\ n \in Nat /\ n <= Cardinality(TakenIn(s))
    /\ ~chatty => n = Cardinality(TakenIn(s))

\* The inductive invariant.
ChannelsInv == WellOwned(slots) /\ Counts(subscribed, slots) /\ chatty \in BOOLEAN

\* There are some number of channels, and no browser has the empty UUID.
Channelled == Channels \in Nat /\ "" \notin Viewers
-----------------------------------------------------------------------------
\* Sets of channels are finite, and there are no more than all of them.
LEMMA FiniteChannels ==
    ASSUME Channelled, NEW S \in SUBSET Indices
    PROVE  IsFiniteSet(S) /\ Cardinality(S) \in Nat /\ Cardinality(S) <= Channels
<1>1. IsFiniteSet(Indices) /\ Cardinality(Indices) = Channels
  <2>0. Channels \in Nat
    BY DEF Channelled
  <2>1. 0 \in Int /\ Channels - 1 \in Int /\ Channels \in Nat
    BY <2>0
  <2>2. /\ IsFiniteSet(0..(Channels - 1))
        /\ Cardinality(0..(Channels - 1)) = IF 0 > Channels - 1 THEN 0 ELSE Channels - 1 - 0 + 1
    BY <2>1, FS_Interval
  <2> QED
    BY <2>1, <2>2 DEF Indices
<1>2. IsFiniteSet(S) /\ Cardinality(S) <= Cardinality(Indices)
  BY <1>1, FS_Subset
<1> QED
  BY <1>1, <1>2, FS_CardinalityType

\* The removal of taken channels frees them and nothing else.
LEMMA RemovalFrees ==
    ASSUME Channelled, ChannelsInv, NEW gone \in SUBSET TakenIn(slots)
    PROVE  /\ WellOwned(Removed(gone))
           /\ TakenIn(Removed(gone)) = TakenIn(slots) \ gone
           /\ Cardinality(TakenIn(Removed(gone)))
                = Cardinality(TakenIn(slots)) - Cardinality(gone)
<1>1. Free \in Slot /\ Free.owner = "" /\ ~Free.on
  BY DEF Free, Slot
<1>2. Removed(gone) \in [Indices -> Slot]
  BY <1>1 DEF Removed, ChannelsInv, WellOwned
<1>3. \A i \in Indices : /\ i \in gone => ~Removed(gone)[i].on /\ Removed(gone)[i].owner = ""
                         /\ i \notin gone => Removed(gone)[i] = slots[i]
  BY <1>1 DEF Removed
<1>4. TakenIn(Removed(gone)) = TakenIn(slots) \ gone
  BY <1>3 DEF TakenIn
<1>5. WellOwned(Removed(gone))
  BY <1>2, <1>3, <1>4 DEF WellOwned, ChannelsInv, TakenIn
<1>6. gone \in SUBSET Indices /\ TakenIn(slots) \in SUBSET Indices
  BY DEF TakenIn
<1>7. TakenIn(slots) \cap gone = gone
  OBVIOUS
<1>8. Cardinality(TakenIn(slots) \ gone) = Cardinality(TakenIn(slots)) - Cardinality(gone)
  BY <1>6, <1>7, FiniteChannels, FS_Difference
<1> QED
  BY <1>4, <1>5, <1>8

\* The count stays right over a removal, or falls below it when channels are
\* removed twice.
LEMMA RemovalCounts ==
    ASSUME Channelled, ChannelsInv, NEW gone \in SUBSET TakenIn(slots),
           NEW twice \in MaybeTwice(gone)
    PROVE  Counts(CountWithout(gone, twice), Removed(gone))
<1>1. gone \in SUBSET Indices /\ TakenIn(slots) \in SUBSET Indices /\ twice \in SUBSET Indices
  BY DEF TakenIn, MaybeTwice
<1>2. /\ Cardinality(gone) \in Nat /\ Cardinality(twice) \in Nat
      /\ Cardinality(TakenIn(slots)) \in Nat
  BY <1>1, FiniteChannels
<1>3. Cardinality(gone) <= Cardinality(TakenIn(slots))
  BY <1>1, FiniteChannels, FS_Subset
<1>4. ~chatty => Cardinality(twice) = 0
  BY FS_EmptySet DEF MaybeTwice
<1>5. /\ subscribed \in Nat /\ subscribed <= Cardinality(TakenIn(slots))
      /\ ~chatty => subscribed = Cardinality(TakenIn(slots))
  BY DEF ChannelsInv, Counts
<1>6. Cardinality(TakenIn(Removed(gone))) = Cardinality(TakenIn(slots)) - Cardinality(gone)
  BY RemovalFrees
<1> QED
  BY <1>2, <1>3, <1>4, <1>5, <1>6 DEF Counts, CountWithout, Less

\* Channels that are sent to are taken, the dead among them too.
LEMMA ConnectedTaken ==
    ChannelsInv => Connected \in SUBSET TakenIn(slots) /\ Dead \in SUBSET TakenIn(slots)
BY DEF ChannelsInv, WellOwned, Connected, Dead, TakenIn

\* A step that removes channels and does nothing else keeps the invariant.
LEMMA RemovalKeeps ==
    ASSUME Channelled, ChannelsInv, NEW gone \in SUBSET TakenIn(slots),
           NEW twice \in MaybeTwice(gone),
           slots' = Removed(gone), subscribed' = CountWithout(gone, twice), UNCHANGED chatty
    PROVE  ChannelsInv'
<1>1. WellOwned(Removed(gone)) /\ Counts(CountWithout(gone, twice), Removed(gone))
  BY RemovalFrees, RemovalCounts
<1> QED
  BY <1>1 DEF ChannelsInv, Counts, TakenIn, WellOwned

\* The place that a browser is given is its own old one, which does not listen, or
\* a free one.
LEMMA SubscribeKeeps ==
    ASSUME Channelled, ChannelsInv, NEW v \in Viewers, Subscribe(v)
    PROVE  ChannelsInv'
<1> DEFINE old == {i \in Indices : slots[i].owner = v}
           gone == old \cap Connected
           rest == Removed(gone)
           found == old \ gone
           places == IF found # {} THEN found ELSE {i \in Indices : rest[i].owner = ""}
<1>1. PICK accepted \in BOOLEAN, twice \in MaybeTwice(gone) :
        LET n == CountWithout(gone, twice)
            taken == accepted /\ places # {}
        IN  /\ slots' = (IF taken
                         THEN [rest EXCEPT ![Min(places)] =
                                 [owner |-> v, on |-> FALSE, alive |-> TRUE]]
                         ELSE rest)
            /\ subscribed' = CountAfter(n, found # {}, taken)
  BY DEF Subscribe
<1> DEFINE n == CountWithout(gone, twice)
           place == Min(places)
           mine == [owner |-> v, on |-> FALSE, alive |-> TRUE]
<1>2. chatty' = chatty
  BY DEF Subscribe
<1>3. gone \in SUBSET TakenIn(slots)
  BY ConnectedTaken
<1>4. /\ WellOwned(rest) /\ TakenIn(rest) = TakenIn(slots) \ gone
      /\ Counts(n, rest)
  BY <1>3, RemovalFrees, RemovalCounts
<1>5. \A i \in Indices : rest[i].owner = v => i \in found
  BY DEF Removed, Free, Channelled
<1>6. \A i \in found : rest[i] = slots[i] /\ rest[i].owner = v
  BY DEF Removed
<1>7. CASE ~(accepted /\ places # {})
  <2>1. slots' = rest /\ subscribed' = n
    BY <1>1, <1>7 DEF CountAfter
  <2> QED
    BY <1>2, <1>4, <2>1 DEF ChannelsInv, WellOwned, Counts, TakenIn
<1>8. CASE accepted /\ places # {}
  <2>1. places \in SUBSET Nat /\ places \subseteq Indices
    <3>0. Channels \in Nat
      BY DEF Channelled
    <3>1. Indices \subseteq Nat
      BY <3>0 DEF Indices
    <3>2. places \subseteq Indices
      OBVIOUS
    <3> QED
      BY <3>1, <3>2
  <2>2. place \in places /\ place \in Indices
    BY <1>8, <2>1, LowestIsOne
  <2>3. /\ slots' = [rest EXCEPT ![place] = mine]
        /\ subscribed' = IF found # {} THEN n ELSE n + 1
    BY <1>1, <1>8 DEF CountAfter
  <2>4. mine \in Slot /\ mine.owner = v /\ ~mine.on /\ v # ""
    BY DEF Slot, Channelled
  <2> HIDE DEF mine, place, rest, n, gone
  <2>5. /\ slots' \in [Indices -> Slot] /\ slots'[place] = mine
        /\ \A i \in Indices \ {place} : slots'[i] = rest[i]
    BY <1>4, <2>2, <2>3, <2>4 DEF WellOwned
  <2>6. TakenIn(slots') = TakenIn(rest) \cup {place}
    BY <2>2, <2>4, <2>5 DEF TakenIn
  <2>7. \A i \in Indices \ {place} : rest[i].owner # v
    <3>1. CASE found # {}
      <4>1. \A i \in found : i = place
        BY <1>4, <1>6, <2>2, <2>4, <3>1 DEF WellOwned, TakenIn
      <4> QED
        BY <1>5, <4>1
    <3>2. CASE found = {}
      BY <1>5, <3>2
    <3> QED
      BY <3>1, <3>2
  <2>8. WellOwned(slots')
    <3>1. \A i \in TakenIn(slots') : i \in Indices /\ (i = place \/ i \in TakenIn(rest))
      BY <2>2, <2>6 DEF TakenIn
    <3>2. \A i, j \in TakenIn(rest) : rest[i].owner = rest[j].owner => i = j
      BY <1>4 DEF WellOwned
    <3>3. \A i, j \in TakenIn(slots') : slots'[i].owner = slots'[j].owner => i = j
      <4> SUFFICES ASSUME NEW i \in TakenIn(slots'), NEW j \in TakenIn(slots'),
                          slots'[i].owner = slots'[j].owner
                   PROVE  i = j
        OBVIOUS
      <4>1. CASE i = place
        BY <2>4, <2>5, <2>7, <3>1, <4>1
      <4>2. CASE j = place
        BY <2>4, <2>5, <2>7, <3>1, <4>2
      <4>3. CASE i # place /\ j # place
        BY <2>5, <3>1, <3>2, <4>3
      <4> QED
        BY <4>1, <4>2, <4>3
    <3>4. \A i \in Indices : slots'[i].on => i \in TakenIn(slots')
      <4> SUFFICES ASSUME NEW i \in Indices, slots'[i].on PROVE i \in TakenIn(slots')
        OBVIOUS
      <4>1. i # place /\ rest[i].on
        BY <2>4, <2>5
      <4>2. i \in TakenIn(rest)
        BY <1>4, <4>1 DEF WellOwned
      <4> QED
        BY <2>6, <4>2
    <3> QED
      BY <2>5, <3>3, <3>4 DEF WellOwned
  <2>9. IsFiniteSet(TakenIn(rest)) /\ Cardinality(TakenIn(rest)) \in Nat
    BY FiniteChannels DEF TakenIn
  <2>10. place \in TakenIn(rest) <=> found # {}
    BY <1>6, <2>2, <2>4 DEF TakenIn
  <2>11. Cardinality(TakenIn(slots')) =
           IF found # {} THEN Cardinality(TakenIn(rest)) ELSE Cardinality(TakenIn(rest)) + 1
    BY <2>6, <2>9, <2>10, FS_AddElement
  <2>12. Counts(subscribed', slots')
    BY <1>4, <2>3, <2>9, <2>11 DEF Counts
  <2> QED
    BY <1>2, <2>8, <2>12 DEF ChannelsInv, WellOwned, Counts, TakenIn
<1> QED
  BY <1>7, <1>8

\* A step that leaves the owners, the count and what is sent to alone, but that the
\* owner of a channel may begin to listen.
LEMMA OwnersKeep ==
    ASSUME ChannelsInv, slots' \in [Indices -> Slot],
           \A i \in Indices : /\ slots'[i].owner = slots[i].owner
                              /\ slots'[i].on => slots[i].on \/ slots[i].owner # "",
           UNCHANGED <<subscribed, chatty>>
    PROVE  ChannelsInv'
<1>1. TakenIn(slots') = TakenIn(slots)
  BY DEF TakenIn
<1>2. WellOwned(slots')
  BY <1>1 DEF ChannelsInv, WellOwned, TakenIn
<1>3. Counts(subscribed, slots')
  BY <1>1 DEF ChannelsInv, Counts
<1> QED
  BY <1>2, <1>3 DEF ChannelsInv, WellOwned, Counts, TakenIn

\* The channels start free.
LEMMA ChannelsStarts == Channelled /\ ChannelsInit => ChannelsInv
<1> SUFFICES ASSUME Channelled, ChannelsInit PROVE ChannelsInv
  OBVIOUS
<1>1. Free \in Slot /\ Free.owner = "" /\ ~Free.on
  BY DEF Free, Slot
<1>2. slots \in [Indices -> Slot] /\ \A i \in Indices : slots[i] = Free
  BY <1>1 DEF ChannelsInit
<1>3. TakenIn(slots) = {}
  BY <1>1, <1>2 DEF TakenIn
<1> QED
  <2>1. WellOwned(slots)
    BY <1>1, <1>2, <1>3 DEF WellOwned
  <2>2. Cardinality(TakenIn(slots)) = 0
    BY <1>3, FS_EmptySet
  <2>3. Counts(subscribed, slots)
    BY <2>2 DEF ChannelsInit, Counts
  <2> QED
    BY <2>1, <2>3 DEF ChannelsInit, ChannelsInv

\* Browsers come, listen and go, and broadcasts and heartbeats find out.
LEMMA ChannelsSteps ==
    Channelled /\ ChannelsInv /\ [ChannelsNext]_channelVars => ChannelsInv'
<1> SUFFICES ASSUME Channelled, ChannelsInv, [ChannelsNext]_channelVars PROVE ChannelsInv'
  OBVIOUS
<1>1. ASSUME NEW v \in Viewers, Subscribe(v) PROVE ChannelsInv'
  BY <1>1, SubscribeKeeps
<1>2. ASSUME NEW v \in Viewers, NEW i \in Indices, Listen(v, i) PROVE ChannelsInv'
  <2> DEFINE now == IF slots[i].owner = v THEN [owner |-> v, on |-> TRUE, alive |-> TRUE]
                    ELSE [slots[i] EXCEPT !.alive = TRUE]
  <2>1. slots[i] \in Slot /\ slots \in [Indices -> Slot]
    BY DEF ChannelsInv, WellOwned
  <2>2. /\ now \in Slot /\ now.owner = slots[i].owner
        /\ now.on => slots[i].on \/ slots[i].owner # ""
    BY <2>1 DEF Slot, Channelled
  <2>3. slots' = [slots EXCEPT ![i] = now] /\ UNCHANGED <<subscribed, chatty>>
    BY <1>2 DEF Listen
  <2> HIDE DEF now
  <2>4. slots' \in [Indices -> Slot]
    BY <2>1, <2>2, <2>3
  <2> QED
    BY <2>1, <2>2, <2>3, <2>4, OwnersKeep
<1>3. ASSUME NEW i \in Indices, Leave(i) PROVE ChannelsInv'
  <2> DEFINE now == [slots[i] EXCEPT !.alive = FALSE]
  <2>1. slots[i] \in Slot /\ slots \in [Indices -> Slot]
    BY DEF ChannelsInv, WellOwned
  <2>2. now \in Slot /\ now.owner = slots[i].owner /\ now.on = slots[i].on
    BY <2>1 DEF Slot
  <2>3. slots' = [slots EXCEPT ![i] = now] /\ UNCHANGED <<subscribed, chatty>>
    BY <1>3 DEF Leave
  <2> HIDE DEF now
  <2>4. slots' \in [Indices -> Slot]
    BY <2>1, <2>2, <2>3
  <2> QED
    BY <2>1, <2>2, <2>3, <2>4, OwnersKeep
<1>4. ASSUME NEW i \in Indices, Heartbeat(i) PROVE ChannelsInv'
  <2>1. {i} \in SUBSET TakenIn(slots)
    BY <1>4, ConnectedTaken DEF Heartbeat, Connected
  <2> QED
    BY <1>4, <2>1, RemovalKeeps DEF Heartbeat
<1>5. CASE StatusBroadcast
  <2>1. PICK failed \in SUBSET (Connected \ Dead), twice \in MaybeTwice(Dead) :
          /\ slots' = Removed(Dead \cup failed)
          /\ subscribed' = CountWithout(Dead \cup failed, twice)
    BY <1>5 DEF StatusBroadcast
  <2>2. Dead \cup failed \in SUBSET TakenIn(slots)
    BY ConnectedTaken
  <2>3. twice \in MaybeTwice(Dead \cup failed)
    BY DEF MaybeTwice
  <2> QED
    BY <1>5, <2>1, <2>2, <2>3, RemovalKeeps DEF StatusBroadcast
<1>6. CASE LogBroadcast
  <2>1. {} \in MaybeTwice(Dead)
    BY DEF MaybeTwice
  <2> QED
    BY <1>6, <2>1, ConnectedTaken, RemovalKeeps DEF LogBroadcast
<1>7. CASE UNCHANGED channelVars
  BY <1>7 DEF channelVars, ChannelsInv, WellOwned, Counts, TakenIn
<1> QED
  BY <1>1, <1>2, <1>3, <1>4, <1>5, <1>6, <1>7 DEF ChannelsNext

\* ChannelsInv is inductive.
THEOREM ChannelsInvariant ==
    ASSUME Channelled
    PROVE  ChannelsSpec => []ChannelsInv
<1> QED
  BY ChannelsStarts, ChannelsSteps, PTL DEF ChannelsSpec

\* For any number of channels and browsers: no browser holds two channels, what is
\* sent goes to a channel that is taken, and the count is that of the channels
\* taken, or lower when debug messages are logged.
THEOREM ChannelsCounted ==
    ASSUME Channelled
    PROVE  ChannelsSpec => []ChannelsAddUp
<1>1. ChannelsInv => ChannelsAddUp
  BY DEF ChannelsInv, WellOwned, Counts, TakenIn, ChannelsAddUp, Occupied, Connected
<1> QED
  BY <1>1, ChannelsInvariant, PTL
-----------------------------------------------------------------------------
(* The types of the board.                                                 *)

\* What users and mishaps there can be is bounded.
Bounded == MaxAsks \in Nat /\ MaxMishaps \in Nat

\* The settings that one setting at a time makes of others.
LEMMA OneSetting ==
    ASSUME NEW s \in Settings
    PROVE  /\ \A b \in BOOLEAN : /\ [s EXCEPT !.softAP = b] \in Settings
                                 /\ [s EXCEPT !.wifiChanged = b] \in Settings
           /\ \A a \in Addresses : [s EXCEPT !.ip = a] \in Settings
           /\ \A r \in Radios : [s EXCEPT !.radio = r] \in Settings
           /\ Fresh(s) \in Settings
BY DEF Settings, Radios, Addresses, Fresh

\* The defaults are settings.
LEMMA DefaultTyped == Defaults \in Settings
BY DEF Defaults, Settings, Radios, Addresses

\* userSettings::set keeps the settings' types.
LEMMA GivenTyped ==
    ASSUME NEW s \in Settings, NEW radio \in Radios \cup {"keep"},
           NEW ip \in Addresses \cup {"keep"}, NEW ap \in BOOLEAN
    PROVE  Given(s, radio, ip, ap) \in Settings
<1> DEFINE r == IF radio = "keep" THEN s.radio ELSE radio
           i == IF ip = "keep" THEN s.ip ELSE ip
           p == s.softAP \/ ap
<1>1. Given(s, radio, ip, ap) = [s EXCEPT !.radio = r, !.ip = i, !.softAP = p]
  BY Zenon DEF Given, Settings
<1>2. r \in Radios /\ i \in Addresses
  BY DEF Settings
<1>3. p \in BOOLEAN
  BY Zenon DEF Settings
<1> HIDE DEF r, i, p
<1> QED
  BY <1>1, <1>2, <1>3 DEF Settings

\* A mishap is counted.
LEMMA MishapCounts == Bounded /\ BoardTypeOK /\ Mishap => mishaps' \in 0..MaxMishaps
BY DEF Bounded, BoardTypeOK, Mishap

\* What a save leaves: the file has its types, and the board goes on as asked or is off.
LEMMA SaveTyped ==
    ASSUME Bounded, BoardTypeOK, NEW s \in Settings, NEW next, Save(s, next)
    PROVE  file' \in Settings /\ mode' \in {"off", next} /\ mishaps' \in 0..MaxMishaps
<1>1. file \in Settings /\ mishaps \in 0..MaxMishaps
  BY DEF BoardTypeOK
<1>2. CASE /\ file' = (IF FsOpen THEN s ELSE file)
           /\ mode' = next /\ UNCHANGED mishaps
  BY <1>1, <1>2
<1>3. CASE Mishap /\ file' \in {file, Defaults} /\ mode' = "off"
  BY <1>1, <1>3, MishapCounts, DefaultTyped
<1>4. CASE Mishap /\ file' = Defaults /\ mode' = next
  BY <1>4, MishapCounts, DefaultTyped
<1> QED
  BY <1>2, <1>3, <1>4 DEF Save

\* A restart turns the board off.
LEMMA RestartTyped ==
    ASSUME Bounded, BoardTypeOK, NEW s \in Settings, SyncAndRestart(s)
    PROVE  file' \in Settings /\ mode' = "off" /\ linked' = FALSE /\ mishaps' \in 0..MaxMishaps
<1>1. StationNext(s) \in Settings
  BY OneSetting DEF StationNext
<1>2. file \in Settings /\ mishaps \in 0..MaxMishaps
  BY DEF BoardTypeOK
<1>3. CASE mode = "ap"
  <2>1. Save(StationNext(s), "off") /\ linked' = FALSE
    BY <1>3 DEF SyncAndRestart
  <2> QED
    BY <1>1, <2>1, SaveTyped
<1>4. CASE mode # "ap"
  BY <1>2, <1>4 DEF SyncAndRestart
<1> QED
  BY <1>3, <1>4

\* What a user does is counted.
LEMMA AskCounts == Bounded /\ BoardTypeOK /\ Asked => asks' \in 0..MaxAsks
BY DEF Bounded, BoardTypeOK, Asked

\* A step keeps the types if what it saves, links and counts has its type.
LEMMA StepTyped ==
    ASSUME Bounded, BoardTypeOK,
           mode' \in {"off", "station", "ap"}, settings' \in Settings, file' \in Settings,
           linked' \in BOOLEAN, linked' => mode' = "station",
           asks' \in 0..MaxAsks, mishaps' \in 0..MaxMishaps,
           mounted' \in BOOLEAN, ssid' \in Networks,
           inUse' \in [radio : Radios, ip : Addresses], tuned' \in BOOLEAN,
           pushes' \in 0..5, fresh' \in BOOLEAN, restartArmed' \in BOOLEAN,
           spoilt' \in BOOLEAN
    PROVE  BoardTypeOK'
BY Zenon DEF BoardTypeOK

\* A new board, or one that knew a network.
LEMMA BoardStarts == Bounded /\ BoardInit => BoardTypeOK
<1> SUFFICES ASSUME Bounded, BoardInit PROVE BoardTypeOK
  OBVIOUS
<1>1. PICK known \in {<<"none", "dhcp">>, <<"gone", "dhcp">>, <<"gone", "guest">>,
                      <<"home", "dhcp">>, <<"home", "home">>} :
         ssid = known[1] /\ file = [Defaults EXCEPT !.ip = known[2]]
  BY DEF BoardInit
<1>2. known[1] \in Networks /\ known[2] \in Addresses
  BY DEF Networks, Addresses, Near
<1>3. ssid \in Networks /\ file \in Settings /\ settings \in Settings
  BY <1>1, <1>2, DefaultTyped, OneSetting DEF BoardInit
<1>4. inUse \in [radio : Radios, ip : Addresses]
  BY DEF BoardInit, Radios, Addresses
<1>5. mode = "off" /\ mounted \in BOOLEAN /\ tuned \in BOOLEAN /\ linked = FALSE
      /\ fresh \in BOOLEAN /\ restartArmed \in BOOLEAN /\ spoilt \in BOOLEAN
  BY DEF BoardInit
<1>6. pushes \in 0..5 /\ asks \in 0..MaxAsks /\ mishaps \in 0..MaxMishaps
  BY DEF BoardInit, Bounded
<1> QED
  BY <1>3, <1>4, <1>5, <1>6, Zenon DEF BoardTypeOK

\* Starting, and what turns the board off.
LEMMA StartsTyped ==
    ASSUME Bounded, BoardTypeOK,
           SetUp \/ PowerCut \/ PageRestarts \/ TimerRestarts \/ ApTimeout \/ FactoryReset
                 \/ RestartFires
    PROVE  BoardTypeOK'
<1> USE DEF recovery
<1>1. CASE SetUp
  <2>1. /\ mounted' = TRUE /\ tuned' = TRUE /\ pushes' = 0 /\ fresh' = FALSE
        /\ restartArmed' = FALSE /\ Use(file) /\ UNCHANGED <<ssid, linked, asks, spoilt>>
        /\ mode = "off"
    BY <1>1 DEF SetUp, Loaded
  <2>2. file \in Settings /\ ~linked /\ linked \in BOOLEAN /\ mishaps \in 0..MaxMishaps
    BY <2>1 DEF BoardTypeOK
  <2>3. inUse' \in [radio : Radios, ip : Addresses]
    BY <2>1, <2>2 DEF Use, Settings
  <2>4. mode' \in {"off", "station", "ap"} /\ settings' \in Settings /\ file' \in Settings
        /\ mishaps' \in 0..MaxMishaps
    <3>1. CASE ModeOf(Loaded) = "ap"
      BY <1>1, <2>2, <3>1 DEF SetUp, StartSoftAp, Loaded
    <3>2. CASE ModeOf(Loaded) # "ap" /\ ssid # "none"
      BY <1>1, <2>2, <3>2 DEF SetUp, WifiConnect, Loaded
    <3>3. CASE ModeOf(Loaded) # "ap" /\ ssid = "none"
      <4>1. settings' = [file EXCEPT !.softAP = TRUE] /\ Save(settings', "off")
        BY <1>1, <3>3 DEF SetUp, WifiConnect, Loaded
      <4>2. settings' \in Settings
        BY <2>2, <4>1, OneSetting
      <4> QED
        BY <4>1, <4>2, SaveTyped
    <3> QED
      BY <3>1, <3>2, <3>3
  <2>5. pushes' \in 0..5 /\ fresh' \in BOOLEAN /\ restartArmed' \in BOOLEAN
        /\ mounted' \in BOOLEAN /\ tuned' \in BOOLEAN
    <3>1. pushes' = 0
      BY <2>1
    <3>2. pushes' \in 0..5
      BY <3>1
    <3> QED
      BY <2>1, <3>2, Zenon
  <2>6. ssid' \in Networks /\ asks' \in 0..MaxAsks /\ spoilt' \in BOOLEAN
        /\ linked' \in BOOLEAN /\ ~linked'
    BY <2>1, <2>2 DEF BoardTypeOK
  <2> QED
    BY <2>3, <2>4, <2>5, <2>6, StepTyped
<1>2. CASE PowerCut
  <2>1. mode' = "off" /\ linked' = FALSE /\ mishaps' \in 0..MaxMishaps
        /\ UNCHANGED <<settings, file, mounted, ssid, inUse, tuned, recovery, asks, spoilt>>
    BY <1>2, MishapCounts DEF PowerCut
  <2> QED
    BY <2>1 DEF BoardTypeOK
<1>3. CASE PageRestarts \/ TimerRestarts \/ ApTimeout \/ RestartFires
  <2>1. /\ SyncAndRestart(settings) /\ (Asked \/ UNCHANGED asks)
        /\ UNCHANGED <<settings, mounted, ssid, inUse, tuned, recovery, spoilt>>
    BY <1>3 DEF PageRestarts, TimerRestarts, ApTimeout, RestartFires
  <2>2. settings \in Settings /\ asks \in 0..MaxAsks
    BY DEF BoardTypeOK
  <2>3. file' \in Settings /\ mode' = "off" /\ linked' = FALSE /\ mishaps' \in 0..MaxMishaps
        /\ asks' \in 0..MaxAsks
    BY <2>1, <2>2, RestartTyped, AskCounts
  <2> QED
    BY <2>1, <2>3 DEF BoardTypeOK
<1>4. CASE FactoryReset
  <2>1. /\ Asked /\ ssid' = "none" /\ linked' = FALSE
        /\ UNCHANGED <<settings, mounted, inUse, tuned, recovery, spoilt>>
    BY <1>4 DEF FactoryReset
  <2>2. settings \in Settings /\ file \in Settings /\ mishaps \in 0..MaxMishaps
    BY DEF BoardTypeOK
  <2>3. file' \in Settings /\ mode' = "off" /\ mishaps' \in 0..MaxMishaps
    <3>1. CASE mode = "ap" /\ mounted
      <4>1. Save(StationNext(settings), "off")
        BY <1>4, <3>1 DEF FactoryReset
      <4>2. StationNext(settings) \in Settings
        BY <2>2, OneSetting DEF StationNext
      <4> QED
        BY <4>1, <4>2, SaveTyped
    <3>2. CASE ~(mode = "ap" /\ mounted)
      BY <1>4, <2>2, <3>2, DefaultTyped DEF FactoryReset
    <3> QED
      BY <3>1, <3>2
  <2>4. asks' \in 0..MaxAsks
    BY <2>1, AskCounts
  <2>5. ssid' \in Networks
    BY <2>1 DEF Networks
  <2> QED
    BY <2>1, <2>3, <2>4, <2>5 DEF BoardTypeOK
<1> QED
  BY <1>1, <1>2, <1>3, <1>4

\* The network comes, goes and is checked.
LEMMA NetworkTyped ==
    ASSUME Bounded, BoardTypeOK, Join \/ Drop \/ WifiCheck
    PROVE  BoardTypeOK'
<1> USE DEF recovery
<1>1. settings \in Settings /\ file \in Settings /\ inUse \in [radio : Radios, ip : Addresses]
      /\ linked \in BOOLEAN /\ mode \in {"off", "station", "ap"}
      /\ (linked => mode = "station") /\ mishaps \in 0..MaxMishaps
  BY DEF BoardTypeOK
<1>2. CASE Join
  <2>1. /\ Save(settings, "station") /\ linked' = (mode' = "station")
        /\ UNCHANGED <<settings, mounted, ssid, inUse, tuned, recovery, asks, spoilt>>
    BY <1>2 DEF Join
  <2>2. file' \in Settings /\ mode' \in {"off", "station"} /\ mishaps' \in 0..MaxMishaps
    BY <1>1, <2>1, SaveTyped
  <2>3. linked' \in BOOLEAN /\ (linked' => mode' = "station")
    BY <2>1
  <2> QED
    BY <2>1, <2>2, <2>3 DEF BoardTypeOK
<1>3. CASE Drop
  <2>1. linked' = FALSE /\ mishaps' \in 0..MaxMishaps
        /\ UNCHANGED <<mode, settings, file, mounted, ssid, inUse, tuned, recovery, asks,
                       spoilt>>
    BY <1>3, MishapCounts DEF Drop
  <2> QED
    BY <2>1 DEF BoardTypeOK
<1>4. CASE NotConnected
  <2>1. /\ settings' = [settings EXCEPT !.radio = "auto"]
        /\ inUse' = [inUse EXCEPT !.radio = "auto"]
        /\ Save(settings', "station") /\ ~linked
        /\ UNCHANGED <<mounted, ssid, tuned, linked, recovery, asks, spoilt>>
    BY <1>4 DEF NotConnected, RadioReset
  <2>2. settings' \in Settings /\ inUse' \in [radio : Radios, ip : Addresses]
    BY <1>1, <2>1 DEF Settings, Radios
  <2>3. file' \in Settings /\ mode' \in {"off", "station"} /\ mishaps' \in 0..MaxMishaps
    BY <2>1, <2>2, SaveTyped
  <2> QED
    BY <2>1, <2>2, <2>3 DEF BoardTypeOK
<1>5. CASE NoGateway
  <2>1. /\ settings' = [settings EXCEPT !.ip = "dhcp"]
        /\ inUse' = [inUse EXCEPT !.ip = "dhcp"] /\ linked' = FALSE
        /\ UNCHANGED <<mounted, ssid, tuned, recovery, asks, spoilt>>
    BY <1>5 DEF NoGateway
  <2>2. settings' \in Settings /\ inUse' \in [radio : Radios, ip : Addresses]
    BY <1>1, <2>1 DEF Settings, Addresses
  <2>3. file' \in Settings /\ mode' \in {"off", "station"} /\ mishaps' \in 0..MaxMishaps
    <3>1. CASE Save(settings', "station")
      BY <2>2, <3>1, SaveTyped
    <3>2. CASE /\ Mishap /\ mode' = "station"
               /\ file' = (IF mounted THEN settings' ELSE file)
      BY <1>1, <2>2, <3>2, MishapCounts
    <3> QED
      BY <1>5, <3>1, <3>2 DEF NoGateway
  <2> QED
    BY <2>1, <2>2, <2>3 DEF BoardTypeOK
<1>6. CASE GatewayAnswers
  <2>1. /\ settings' = [settings EXCEPT !.wifiChanged = FALSE]
        /\ Save(settings', "station") /\ linked' = (mode' = "station")
        /\ UNCHANGED <<mounted, ssid, inUse, tuned, recovery, asks, spoilt>>
    BY <1>6 DEF GatewayAnswers
  <2>2. settings' \in Settings
    BY <1>1, <2>1 DEF Settings
  <2>3. file' \in Settings /\ mode' \in {"off", "station"} /\ mishaps' \in 0..MaxMishaps
    BY <2>1, <2>2, SaveTyped
  <2>4. linked' \in BOOLEAN /\ (linked' => mode' = "station")
    BY <2>1
  <2> QED
    BY <2>1, <2>2, <2>3, <2>4 DEF BoardTypeOK
<1> QED
  BY <1>2, <1>3, <1>4, <1>5, <1>6 DEF WifiCheck

\* The settings page.
LEMMA SetGdoTyped ==
    ASSUME Bounded, BoardTypeOK, SetGdo
    PROVE  BoardTypeOK'
<1> USE DEF recovery
<1>1. PICK radio \in Radios \cup {"keep"}, ip \in Addresses \cup {"keep"},
           ap \in BOOLEAN, fails \in BOOLEAN :
         LET touched == radio # "keep" \/ ip # "keep"
             set == Given(settings, radio, ip, ap)
             reboot == set.radio # settings.radio \/ ip # "keep" \/ ap
         IN  IF fails
             THEN /\ settings' = set
                  /\ spoilt' = (spoilt \/ touched)
                  /\ UNCHANGED <<mode, file, mishaps, linked>>
             ELSE /\ settings' = [set EXCEPT !.wifiChanged = touched]
                  /\ spoilt' = (spoilt \/ (settings.wifiChanged /\ ~touched))
                  /\ Save(settings', IF reboot THEN "off" ELSE "station")
                  /\ linked' = (mode' = "station")
  BY Zenon DEF SetGdo
<1> DEFINE touched == radio # "keep" \/ ip # "keep"
           set == Given(settings, radio, ip, ap)
           next == IF set.radio # settings.radio \/ ip # "keep" \/ ap
                   THEN "off" ELSE "station"
<1>2. Asked /\ UNCHANGED <<mounted, ssid, inUse, tuned, recovery>>
  BY DEF SetGdo
<1>3. settings \in Settings /\ file \in Settings /\ mode \in {"off", "station", "ap"}
      /\ linked \in BOOLEAN /\ (linked => mode = "station") /\ mishaps \in 0..MaxMishaps
  BY DEF BoardTypeOK
<1>4. set \in Settings /\ next \in {"off", "station"} /\ touched \in BOOLEAN
  BY <1>3, GivenTyped
<1>5. asks' \in 0..MaxAsks
  BY <1>2, AskCounts
<1>6. CASE fails
  <2>1. settings' = set /\ UNCHANGED <<mode, file, mishaps, linked>>
    BY <1>1, <1>6
  <2>2. spoilt' \in BOOLEAN
    <3>1. spoilt' = (spoilt \/ touched)
      BY <1>1, <1>6, Zenon
    <3> HIDE DEF touched
    <3> QED
      BY <3>1, Zenon DEF BoardTypeOK
  <2> HIDE DEF set
  <2> QED
    BY <1>2, <1>3, <1>4, <1>5, <2>1, <2>2 DEF BoardTypeOK
<1>7. CASE ~fails
  <2>1. settings' = [set EXCEPT !.wifiChanged = touched] /\ Save(settings', next)
    BY <1>1, <1>7, Zenon
  <2>2. linked' = (mode' = "station")
    BY <1>1, <1>7, Zenon
  <2>3. spoilt' \in BOOLEAN
    <3>1. spoilt' = (spoilt \/ (settings.wifiChanged /\ ~touched))
      BY <1>1, <1>7, Zenon
    <3> HIDE DEF touched
    <3> QED
      BY <3>1, Zenon DEF BoardTypeOK
  <2> HIDE DEF set, touched, next
  <2>4. settings' \in Settings
    BY <1>4, <2>1, OneSetting
  <2>5. file' \in Settings /\ mode' \in {"off", "station"} /\ mishaps' \in 0..MaxMishaps
    BY <1>4, <2>1, <2>4, SaveTyped
  <2>6. linked' \in BOOLEAN /\ (linked' => mode' = "station")
    BY <2>2
  <2> QED
    BY <1>2, <1>5, <2>3, <2>4, <2>5, <2>6 DEF BoardTypeOK
<1> QED
  BY <1>6, <1>7

\* A history flag that a step may raise stays a flag.
LEMMA StillFlag == ASSUME BoardTypeOK, NEW p \in BOOLEAN, spoilt' = (spoilt \/ p)
                   PROVE  spoilt' \in BOOLEAN
BY Zenon DEF BoardTypeOK

\* The network page, and what comes over the serial port.
LEMMA InputTyped ==
    ASSUME Bounded, BoardTypeOK, SetSsid \/ SerialInput
    PROVE  BoardTypeOK'
<1> USE DEF recovery
<1>1. settings \in Settings /\ file \in Settings /\ mode \in {"off", "station", "ap"}
      /\ linked \in BOOLEAN /\ (linked => mode = "station") /\ mishaps \in 0..MaxMishaps
      /\ Fresh(settings) \in Settings /\ [settings EXCEPT !.softAP = TRUE] \in Settings
      /\ asks \in 0..MaxAsks
  BY OneSetting DEF BoardTypeOK
<1>2. CASE SetSsid
  <2>1. Asked /\ UNCHANGED <<mounted, inUse, tuned, recovery>>
    BY <1>2 DEF SetSsid
  <2>2. PICK net \in Networks \ {"none"}, reached \in BOOLEAN, connected \in IsConnected :
         /\ reached => net \in Near
         /\ ssid' = (IF reached THEN net ELSE ssid)
         /\ settings' = (IF connected /\ (reached => net = ssid)
                         THEN settings ELSE Fresh(settings))
         /\ \/ (mode = "ap" \/ ~reached) /\ SyncAndRestart(settings')
            \/ mode = "station" /\ Save(settings, "off") /\ linked' = FALSE
         /\ spoilt' = (spoilt \/ (reached /\ net # ssid /\ Stale(file')))
    BY <1>2, Zenon DEF SetSsid
  <2>3. settings' \in Settings
    BY <1>1, <2>2
  <2>4. file' \in Settings /\ mode' = "off" /\ linked' = FALSE /\ mishaps' \in 0..MaxMishaps
    <3>1. CASE SyncAndRestart(settings')
      BY <2>3, <3>1, RestartTyped
    <3>2. CASE Save(settings, "off") /\ linked' = FALSE
      BY <1>1, <3>2, SaveTyped
    <3> QED
      BY <2>2, <3>1, <3>2
  <2>5. spoilt' \in BOOLEAN
    BY <2>2, StillFlag, Zenon
  <2>6. ssid' \in Networks
    BY <2>2 DEF BoardTypeOK
  <2>7. asks' \in 0..MaxAsks
    BY <2>1, AskCounts
  <2> QED
    BY <2>1, <2>3, <2>4, <2>5, <2>6, <2>7 DEF BoardTypeOK
<1>3. CASE Improv
  <2>1. Asked /\ UNCHANGED <<mounted, inUse, recovery>>
    BY <1>3 DEF Improv
  <2>2. asks' \in 0..MaxAsks
    BY <2>1, AskCounts
  <2>3. ASSUME NEW net \in Near,
               ssid' = net /\ settings' = Fresh(settings),
               SyncAndRestart(settings'),
               spoilt' = (spoilt \/ (net # ssid /\ Stale(file'))),
               UNCHANGED tuned
        PROVE  BoardTypeOK'
    <3>1. settings' \in Settings /\ ssid' \in Networks
      BY <1>1, <2>3 DEF Networks
    <3>2. file' \in Settings /\ mode' = "off" /\ linked' = FALSE
          /\ mishaps' \in 0..MaxMishaps
      BY <2>3, <3>1, RestartTyped
    <3>3. spoilt' \in BOOLEAN
      BY <2>3, StillFlag, Zenon
    <3> QED
      BY <2>1, <2>2, <2>3, <3>1, <3>2, <3>3 DEF BoardTypeOK
  <2>4. CASE /\ tuned' = FALSE /\ linked' = FALSE
             /\ spoilt' = (spoilt \/ mode = "station")
             /\ UNCHANGED <<mode, settings, file, ssid, mishaps>>
    <3>1. spoilt' \in BOOLEAN
      BY <2>4, StillFlag, Zenon
    <3> QED
      BY <2>1, <2>2, <2>4, <3>1 DEF BoardTypeOK
  <2> QED
    BY <1>3, <2>3, <2>4 DEF Improv
<1>4. CASE SerialWifi
  <2>1. PICK net \in Near, reached \in BOOLEAN, connected \in IsConnected :
         /\ ssid' = (IF reached THEN net ELSE ssid)
         /\ settings' = (IF connected /\ (reached => net = ssid)
                         THEN settings ELSE Fresh(settings))
         /\ tuned' = (reached \/ connected)
         /\ spoilt' = (\/ spoilt
                       \/ reached /\ net # ssid /\ (Stale(file) \/ Unfit(net))
                       \/ ~reached /\ ~connected /\ mode = "station")
    BY <1>4, Zenon DEF SerialWifi
  <2>2. /\ linked' = FALSE /\ Asked
        /\ UNCHANGED <<mode, file, mounted, inUse, recovery, mishaps>>
    BY <1>4 DEF SerialWifi
  <2>3. settings' \in Settings /\ ssid' \in Networks
    BY <1>1, <2>1 DEF BoardTypeOK, Networks
  <2>4. tuned' \in BOOLEAN
    <3>1. connected \in BOOLEAN
      <4>1. CASE mode = "ap"
        BY <4>1 DEF IsConnected
      <4>2. CASE mode # "ap"
        BY <1>1, <4>2 DEF IsConnected
      <4> QED
        BY <4>1, <4>2
    <3> QED
      BY <2>1, <3>1, Zenon
  <2>5. spoilt' \in BOOLEAN
    <3> DEFINE p == \/ reached /\ net # ssid /\ (Stale(file) \/ Unfit(net))
                    \/ ~reached /\ ~connected /\ mode = "station"
    <3>1. p \in BOOLEAN /\ spoilt' = (spoilt \/ p)
      BY <2>1, Zenon
    <3> HIDE DEF p
    <3> QED
      BY <3>1, StillFlag, Zenon
  <2>6. asks' \in 0..MaxAsks
    BY <2>2, AskCounts
  <2> QED
    BY <1>1, <2>2, <2>3, <2>4, <2>5, <2>6 DEF BoardTypeOK
<1>5. CASE ImprovNoise
  <2>1. mounted' = FALSE /\ mishaps' \in 0..MaxMishaps
        /\ UNCHANGED <<mode, settings, file, ssid, inUse, tuned, linked, recovery, asks, spoilt>>
    BY <1>5, MishapCounts DEF ImprovNoise
  <2> QED
    BY <2>1 DEF BoardTypeOK
<1>6. CASE AskForAp
  <2>1. settings' = [settings EXCEPT !.softAP = TRUE] /\ Asked
        /\ UNCHANGED <<mounted, ssid, inUse, tuned, recovery, spoilt>>
    BY <1>6 DEF AskForAp
  <2>2. settings' \in Settings /\ asks' \in 0..MaxAsks
    BY <1>1, <2>1, AskCounts
  <2>3. file' \in Settings /\ mode' = "off" /\ linked' = FALSE /\ mishaps' \in 0..MaxMishaps
    <3>1. CASE SyncAndRestart(settings')
      BY <2>2, <3>1, RestartTyped
    <3>2. CASE linked' = FALSE /\ Save(settings', "off")
      BY <2>2, <3>2, SaveTyped
    <3> QED
      BY <1>6, <3>1, <3>2 DEF AskForAp
  <2> QED
    BY <2>1, <2>2, <2>3 DEF BoardTypeOK
<1> QED
  BY <1>2, <1>3, <1>4, <1>5, <1>6 DEF SerialInput

\* Pushes on the wall panel, and what they arm.
LEMMA PushTyped ==
    ASSUME Bounded, BoardTypeOK, Push \/ PushesAge \/ DoorRequest
    PROVE  BoardTypeOK'
<1> USE DEF recovery
<1>1. settings \in Settings /\ file \in Settings /\ mode \in {"off", "station", "ap"}
      /\ linked \in BOOLEAN /\ (linked => mode = "station") /\ mishaps \in 0..MaxMishaps
      /\ [settings EXCEPT !.softAP = TRUE] \in Settings
      /\ pushes \in 0..5 /\ fresh \in BOOLEAN /\ asks \in 0..MaxAsks
  BY OneSetting DEF BoardTypeOK
<1>2. CASE Push
  <2>1. /\ pushes' = PushCount /\ fresh' = (pushes = 0 \/ fresh)
        /\ restartArmed' = (PushCount = 5) /\ mode = "station"
        /\ UNCHANGED <<mounted, ssid, inUse, tuned, spoilt>>
    BY <1>2 DEF Push
  <2>2. PushCount \in 0..5
    BY <1>1 DEF PushCount
  <2>3. fresh' \in BOOLEAN /\ restartArmed' \in BOOLEAN
    BY <1>1, <2>1, Zenon
  <2>4. asks' \in 0..MaxAsks
    BY <1>1, <1>2, AskCounts DEF Push
  <2>5. /\ settings' \in Settings /\ file' \in Settings /\ mode' \in {"off", "station"}
        /\ mishaps' \in 0..MaxMishaps
        /\ linked' \in BOOLEAN /\ (linked' => mode' = "station")
    <3>1. CASE PushCount = 5
      <4>1. /\ settings' = [settings EXCEPT !.softAP = TRUE] /\ Save(settings', "station")
        BY <1>2, <3>1 DEF Push
      <4>2. linked' = (linked /\ mode' = "station")
        BY <1>2, <3>1 DEF Push
      <4>3. file' \in Settings /\ mode' \in {"off", "station"} /\ mishaps' \in 0..MaxMishaps
        BY <1>1, <4>1, SaveTyped
      <4>4. linked' \in BOOLEAN /\ (linked' => mode' = "station")
        BY <1>1, <4>2, Zenon
      <4> QED
        BY <1>1, <4>1, <4>3, <4>4
    <3>2. CASE PushCount # 5
      BY <1>1, <1>2, <2>1, <3>2 DEF Push
    <3> QED
      BY <3>1, <3>2
  <2> QED
    BY <2>1, <2>2, <2>3, <2>4, <2>5 DEF BoardTypeOK
<1>3. CASE PushesAge
  BY <1>3 DEF PushesAge, BoardTypeOK
<1>4. CASE DoorRequest
  <2>1. asks' \in 0..MaxAsks /\ restartArmed' = FALSE
        /\ UNCHANGED <<mode, settings, file, mounted, ssid, inUse, tuned, linked, pushes,
                       fresh, mishaps, spoilt>>
    BY <1>4, AskCounts DEF DoorRequest
  <2> QED
    BY <2>1 DEF BoardTypeOK
<1> QED
  BY <1>2, <1>3, <1>4

\* Every step of the board.
LEMMA BoardSteps == Bounded /\ BoardTypeOK /\ [BoardNext]_boardVars => BoardTypeOK'
<1> SUFFICES ASSUME Bounded, BoardTypeOK, [BoardNext]_boardVars PROVE BoardTypeOK'
  OBVIOUS
<1>1. CASE UNCHANGED boardVars
  BY <1>1 DEF boardVars, recovery, BoardTypeOK
<1> QED
  BY <1>1, StartsTyped, NetworkTyped, SetGdoTyped, InputTyped, PushTyped DEF BoardNext
-----------------------------------------------------------------------------
(* What the board keeps of its settings.                                   *)

\* With these settings the network net is joined, if in reach, and its gateway answers.
Works(net, s) == s.radio = "auto" /\ Fits(s.ip, net)

\* Settings that do not work for the network net are marked as to be checked.
Watched(net, s) == net \in Near /\ ~Works(net, s) => s.wifiChanged

\* A station that runs with an address that does not work will check it, and what
\* it will check is what it runs with, or works.
UseWatched ==
    mode = "station" /\ ssid \in Near =>
      /\ ~Works(ssid, inUse) => settings.wifiChanged
      /\ settings.wifiChanged =>
           \/ Works(ssid, settings)
           \/ settings.radio = inUse.radio /\ settings.ip = inUse.ip

\* Settings that keep a network in reach from being used are never stored, held or
\* used unless the next check will find them out.
NeverUnchecked == Watched(ssid, file) /\ Watched(ssid, settings) /\ UseWatched

\* The inductive invariant.
WatchInv ==
    /\ BoardTypeOK
    /\ linked => ssid \in Near /\ inUse.radio = "auto"
    /\ ~spoilt => NeverUnchecked

\* A history flag that is not raised was not.
LEMMA FlagOnly == ASSUME NEW p, spoilt' = (spoilt \/ p), ~spoilt'
                  PROVE  ~spoilt /\ ~p
OBVIOUS

\* What a save leaves in the file are the settings given, those of before or the
\* defaults.
LEMMA SaveLeaves ==
    ASSUME NEW s, NEW next, Save(s, next)
    PROVE  file' \in {s, file, Defaults} /\ mode' \in {"off", next}
BY DEF Save, Mishap

\* What a restart leaves.
LEMMA RestartLeaves ==
    ASSUME NEW s, SyncAndRestart(s)
    PROVE  file' \in {StationNext(s), file, Defaults} /\ mode' = "off" /\ linked' = FALSE
BY SaveLeaves DEF SyncAndRestart

\* What the settings of the next start are worth does not depend on the mode.
LEMMA SameWorth ==
    ASSUME NEW s \in Settings, NEW b \in BOOLEAN, NEW net
    PROVE  /\ Works(net, [s EXCEPT !.softAP = b]) <=> Works(net, s)
           /\ Watched(net, [s EXCEPT !.softAP = b]) <=> Watched(net, s)
           /\ Works(net, Fresh(s)) /\ Works(net, Defaults)
           /\ Watched(net, Fresh(s)) /\ Watched(net, Defaults)
           /\ Watched(net, StationNext(s)) <=> Watched(net, s)
           /\ Fresh(s).wifiChanged = s.wifiChanged
           /\ [s EXCEPT !.softAP = b].wifiChanged = s.wifiChanged
           /\ [s EXCEPT !.softAP = b].radio = s.radio /\ [s EXCEPT !.softAP = b].ip = s.ip
BY DEF Works, Fits, Watched, Settings, Fresh, Defaults, StationNext

\* No station, with settings and a file that are watched.
LEMMA OffWatched ==
    ASSUME BoardTypeOK', ~linked', mode' # "station",
           ~spoilt' => Watched(ssid', file') /\ Watched(ssid', settings')
    PROVE  WatchInv'
BY DEF WatchInv, NeverUnchecked, UseWatched

\* The address of a board that starts is for the network it knew.
LEMMA WatchStarts == Bounded /\ BoardInit => WatchInv
<1> SUFFICES ASSUME Bounded, BoardInit PROVE WatchInv
  OBVIOUS
<1>1. BoardTypeOK /\ mode = "off" /\ ~linked /\ settings = file
  BY BoardStarts DEF BoardInit
<1>2. Watched(ssid, file)
  <2>1. PICK known \in {<<"none", "dhcp">>, <<"gone", "dhcp">>, <<"gone", "guest">>,
                        <<"home", "dhcp">>, <<"home", "home">>} :
           ssid = known[1] /\ file = [Defaults EXCEPT !.ip = known[2]]
    BY DEF BoardInit
  <2>2. known[1] \in Near => Fits(known[2], known[1])
    BY DEF Near, Fits
  <2>3. file.radio = "auto" /\ file.ip = known[2]
    BY <2>1 DEF Defaults
  <2> QED
    BY <2>1, <2>2, <2>3 DEF Watched, Works
<1> QED
  BY <1>1, <1>2 DEF WatchInv, NeverUnchecked, UseWatched

\* Starting, and what turns the board off.
LEMMA StartsWatched ==
    ASSUME Bounded, WatchInv, BoardTypeOK',
           SetUp \/ PowerCut \/ PageRestarts \/ TimerRestarts \/ ApTimeout \/ FactoryReset
                 \/ RestartFires
    PROVE  WatchInv'
<1>1. /\ settings \in Settings /\ file \in Settings /\ TRUE \in BOOLEAN
      /\ (linked => ssid \in Near /\ inUse.radio = "auto") /\ (linked => mode = "station")
      /\ ~spoilt => NeverUnchecked
  BY DEF WatchInv, BoardTypeOK
<1>2. CASE SetUp
  <2>1. /\ Use(file) /\ UNCHANGED <<ssid, linked, asks, spoilt>> /\ mode = "off"
    BY <1>2 DEF SetUp, Loaded
  <2>2. ~linked'
    BY <1>1, <2>1
  <2>3. CASE ModeOf(Loaded) = "ap"
    <3>1. mode' = "ap" /\ settings' = file /\ file' = file
      BY <1>2, <2>3 DEF SetUp, StartSoftAp, Loaded
    <3> QED
      BY <1>1, <2>1, <2>2, <3>1, OffWatched DEF NeverUnchecked
  <2>4. CASE ModeOf(Loaded) # "ap" /\ ssid # "none"
    <3>1. mode' = "station" /\ settings' = file /\ file' = file
      BY <1>2, <2>4 DEF SetUp, WifiConnect, Loaded
    <3>2. inUse'.radio = file.radio /\ inUse'.ip = file.ip
      BY <2>1 DEF Use
    <3> QED
      BY <1>1, <2>1, <2>2, <3>1, <3>2 DEF WatchInv, NeverUnchecked, UseWatched, Watched, Works
  <2>5. CASE ModeOf(Loaded) # "ap" /\ ssid = "none"
    <3>1. settings' = [file EXCEPT !.softAP = TRUE] /\ Save(settings', "off")
      BY <1>2, <2>5 DEF SetUp, WifiConnect, Loaded
    <3>2. mode' = "off"
      BY <3>1, SaveLeaves
    <3> QED
      BY <2>1, <2>2, <2>5, <3>2, OffWatched DEF Watched, Near
  <2> QED
    BY <2>3, <2>4, <2>5
<1>3. CASE PowerCut
  <2>1. mode' = "off" /\ linked' = FALSE /\ UNCHANGED <<settings, file, ssid, spoilt>>
    BY <1>3 DEF PowerCut
  <2> QED
    BY <1>1, <2>1, OffWatched DEF NeverUnchecked
<1>4. CASE PageRestarts \/ TimerRestarts \/ ApTimeout \/ RestartFires
  <2>1. SyncAndRestart(settings) /\ UNCHANGED <<settings, ssid, spoilt>>
    BY <1>4 DEF PageRestarts, TimerRestarts, ApTimeout, RestartFires
  <2>2. file' \in {StationNext(settings), file, Defaults} /\ mode' = "off" /\ linked' = FALSE
    BY <2>1, RestartLeaves
  <2>3. ASSUME ~spoilt PROVE Watched(ssid, file') /\ Watched(ssid, settings)
    <3>1. Watched(ssid, StationNext(settings)) /\ Watched(ssid, file)
          /\ Watched(ssid, Defaults) /\ Watched(ssid, settings)
      BY <1>1, <2>3, SameWorth DEF NeverUnchecked
    <3> QED
      BY <2>2, <3>1
  <2> QED
    BY <2>1, <2>2, <2>3, OffWatched
<1>5. CASE FactoryReset
  <2>1. ssid' = "none" /\ linked' = FALSE
    BY <1>5 DEF FactoryReset
  <2>2. mode' = "off"
    BY <1>5, SaveLeaves DEF FactoryReset
  <2> QED
    BY <2>1, <2>2, OffWatched DEF Watched, Near
<1> QED
  BY <1>2, <1>3, <1>4, <1>5

\* The network comes, goes and is checked.
LEMMA NetworkWatched ==
    ASSUME Bounded, WatchInv, BoardTypeOK', Join \/ Drop \/ WifiCheck
    PROVE  WatchInv'
<1>1. /\ settings \in Settings /\ file \in Settings
      /\ inUse \in [radio : Radios, ip : Addresses]
      /\ (linked => ssid \in Near /\ inUse.radio = "auto") /\ (linked => mode = "station")
      /\ ~spoilt => NeverUnchecked
      /\ \A net : Watched(net, Defaults)
  BY SameWorth DEF WatchInv, BoardTypeOK
<1>2. CASE Join
  <2>1. /\ file' \in {settings, file, Defaults} /\ mode' \in {"off", "station"}
        /\ linked' = (mode' = "station")
        /\ UNCHANGED <<settings, ssid, inUse, spoilt>>
        /\ mode = "station" /\ ssid \in Near /\ inUse.radio = "auto"
    BY <1>2, SaveLeaves DEF Join
  <2>2. ~spoilt' => NeverUnchecked'
    BY <1>1, <2>1 DEF NeverUnchecked, UseWatched
  <2> QED
    BY <2>1, <2>2 DEF WatchInv
<1>3. CASE Drop
  <2>1. linked' = FALSE /\ UNCHANGED <<mode, settings, file, ssid, inUse, spoilt>>
    BY <1>3 DEF Drop
  <2>2. ~spoilt' => NeverUnchecked'
    BY <1>1, <2>1 DEF NeverUnchecked, UseWatched
  <2> QED
    BY <2>1, <2>2 DEF WatchInv
<1>4. CASE NotConnected
  <2>1. /\ settings' = [settings EXCEPT !.radio = "auto"]
        /\ inUse' = [inUse EXCEPT !.radio = "auto"]
        /\ UNCHANGED <<ssid, linked, spoilt>> /\ mode = "station"
        /\ ~linked /\ settings.wifiChanged
    BY <1>4 DEF NotConnected, RadioReset, Checkable
  <2>2. file' \in {settings', file, Defaults} /\ mode' \in {"off", "station"}
    BY <1>4, SaveLeaves DEF NotConnected
  <2>3. /\ settings'.radio = "auto" /\ settings'.ip = settings.ip /\ settings'.wifiChanged
        /\ inUse'.radio = "auto" /\ inUse'.ip = inUse.ip
    BY <1>1, <2>1 DEF Settings
  <2>4. ~spoilt' => NeverUnchecked'
    BY <1>1, <2>1, <2>2, <2>3 DEF NeverUnchecked, UseWatched, Watched, Works
  <2> QED
    BY <2>1, <2>4 DEF WatchInv
<1>5. CASE NoGateway
  <2>1. /\ settings' = [settings EXCEPT !.ip = "dhcp"]
        /\ inUse' = [inUse EXCEPT !.ip = "dhcp"] /\ linked' = FALSE
        /\ UNCHANGED <<ssid, spoilt>> /\ mode = "station"
        /\ linked /\ settings.wifiChanged
    BY <1>5 DEF NoGateway, Checkable
  <2>2. file' \in {settings', file, Defaults} /\ mode' \in {"off", "station"}
    BY <1>5, SaveLeaves DEF NoGateway
  <2>3. /\ settings'.radio = settings.radio /\ settings'.ip = "dhcp" /\ settings'.wifiChanged
        /\ inUse'.radio = inUse.radio /\ inUse'.ip = "dhcp"
    BY <1>1, <2>1 DEF Settings
  <2>4. ~spoilt' => NeverUnchecked'
    BY <1>1, <2>1, <2>2, <2>3 DEF NeverUnchecked, UseWatched, Watched, Works
  <2> QED
    BY <2>1, <2>4 DEF WatchInv
<1>6. CASE GatewayAnswers
  <2>1. /\ settings' = [settings EXCEPT !.wifiChanged = FALSE]
        /\ linked' = (mode' = "station")
        /\ UNCHANGED <<ssid, inUse, spoilt>> /\ mode = "station"
        /\ linked /\ settings.wifiChanged /\ Fits(inUse.ip, ssid)
    BY <1>6 DEF GatewayAnswers, Checkable
  <2>2. file' \in {settings', file, Defaults} /\ mode' \in {"off", "station"}
    BY <1>6, SaveLeaves DEF GatewayAnswers
  <2>3. /\ settings'.radio = settings.radio /\ settings'.ip = settings.ip
        /\ ~settings'.wifiChanged
    BY <1>1, <2>1 DEF Settings
  <2>4. ~spoilt' => NeverUnchecked'
    BY <1>1, <2>1, <2>2, <2>3 DEF NeverUnchecked, UseWatched, Watched, Works
  <2> QED
    BY <1>1, <2>1, <2>4 DEF WatchInv
<1> QED
  BY <1>2, <1>3, <1>4, <1>5, <1>6 DEF WifiCheck

\* The settings page: a setting that could keep the network from being used is marked
\* as to be checked in the same save.
LEMMA SetGdoWatched ==
    ASSUME Bounded, WatchInv, BoardTypeOK', SetGdo
    PROVE  WatchInv'
<1>1. PICK radio \in Radios \cup {"keep"}, ip \in Addresses \cup {"keep"},
           ap \in BOOLEAN, fails \in BOOLEAN :
         LET touched == radio # "keep" \/ ip # "keep"
             set == Given(settings, radio, ip, ap)
             reboot == set.radio # settings.radio \/ ip # "keep" \/ ap
         IN  IF fails
             THEN /\ settings' = set
                  /\ spoilt' = (spoilt \/ touched)
                  /\ UNCHANGED <<mode, file, mishaps, linked>>
             ELSE /\ settings' = [set EXCEPT !.wifiChanged = touched]
                  /\ spoilt' = (spoilt \/ (settings.wifiChanged /\ ~touched))
                  /\ Save(settings', IF reboot THEN "off" ELSE "station")
                  /\ linked' = (mode' = "station")
  BY Zenon DEF SetGdo
<1> DEFINE touched == radio # "keep" \/ ip # "keep"
           set == Given(settings, radio, ip, ap)
           next == IF set.radio # settings.radio \/ ip # "keep" \/ ap
                   THEN "off" ELSE "station"
<1>2. linked /\ UNCHANGED <<mounted, ssid, inUse, tuned>>
  BY DEF SetGdo
<1>3. /\ settings \in Settings /\ file \in Settings /\ mode = "station"
      /\ ssid \in Near /\ inUse.radio = "auto"
      /\ ~spoilt => NeverUnchecked
  BY <1>2 DEF WatchInv, BoardTypeOK
<1>4. /\ set \in Settings
      /\ set.wifiChanged <=> settings.wifiChanged
      /\ set.radio = (IF radio = "keep" THEN settings.radio ELSE radio)
      /\ set.ip = (IF ip = "keep" THEN settings.ip ELSE ip)
  <2>1. set.wifiChanged = settings.wifiChanged
    BY <1>3 DEF Given, Settings
  <2>2. set.radio = (IF radio = "keep" THEN settings.radio ELSE radio)
    BY <1>3 DEF Given, Settings
  <2>3. set.ip = (IF ip = "keep" THEN settings.ip ELSE ip)
    BY <1>3 DEF Given, Settings
  <2> QED
    BY <1>3, <2>1, <2>2, <2>3, GivenTyped
<1>5. CASE fails
  <2>1. settings' = set /\ UNCHANGED <<mode, file, mishaps, linked>>
    BY <1>1, <1>5
  <2>2. ASSUME ~spoilt' PROVE ~spoilt /\ ~touched
    <3>1. spoilt' = (spoilt \/ touched)
      BY <1>1, <1>5, Zenon
    <3> HIDE DEF touched
    <3> QED
      BY <2>2, <3>1, FlagOnly, Zenon
  <2>3. ASSUME ~spoilt' PROVE NeverUnchecked'
    <3>1. /\ settings'.radio = settings.radio /\ settings'.ip = settings.ip
          /\ settings'.wifiChanged <=> settings.wifiChanged
      BY <1>4, <2>1, <2>2, <2>3
    <3> HIDE DEF set, touched
    <3> QED
      BY <1>2, <1>3, <2>1, <2>2, <2>3, <3>1 DEF NeverUnchecked, UseWatched, Watched, Works
  <2> QED
    BY <1>2, <1>3, <2>1, <2>3 DEF WatchInv
<1>6. CASE ~fails
  <2>1. /\ settings' = [set EXCEPT !.wifiChanged = touched] /\ Save(settings', next)
        /\ linked' = (mode' = "station")
    BY <1>1, <1>6, Zenon
  <2>2. spoilt' = (spoilt \/ (settings.wifiChanged /\ ~touched))
    BY <1>1, <1>6, Zenon
  <2>3. file' \in {settings', file, Defaults} /\ mode' \in {"off", next}
    BY <2>1, SaveLeaves
  <2>4. ASSUME ~spoilt' PROVE ~spoilt /\ (settings.wifiChanged => touched)
    <3> HIDE DEF touched
    <3> QED
      BY <2>2, <2>4, FlagOnly, Zenon
  <2>5. settings'.radio = set.radio /\ settings'.ip = set.ip
        /\ (settings'.wifiChanged <=> touched)
    <3>1. touched \in BOOLEAN
      OBVIOUS
    <3> HIDE DEF touched, set
    <3> QED
      BY <1>4, <2>1, <3>1 DEF Settings
  <2>6. Watched(ssid, Defaults)
    BY SameWorth, <1>3
  <2>7. ASSUME ~spoilt' PROVE NeverUnchecked'
    <3>1. Watched(ssid, file) /\ Watched(ssid, settings) /\ UseWatched
      BY <1>3, <2>4, <2>7 DEF NeverUnchecked
    <3>2. Watched(ssid, settings')
      <4>1. CASE touched
        BY <2>5, <4>1 DEF Watched
      <4>2. CASE ~touched
        <5>1. settings'.radio = settings.radio /\ settings'.ip = settings.ip
              /\ ~settings.wifiChanged
          BY <1>4, <2>4, <2>5, <2>7, <4>2
        <5> QED
          BY <3>1, <5>1 DEF Watched, Works
      <4> QED
        BY <4>1, <4>2
    <3>3. UseWatched'
      <4>1. SUFFICES ASSUME mode' = "station" PROVE UseWatched'
        BY DEF UseWatched
      <4>2. set.radio = settings.radio /\ ip = "keep"
        BY <2>3, <4>1
      <4>3. settings'.radio = settings.radio /\ settings'.ip = settings.ip
        BY <1>4, <2>5, <4>2
      <4>4. settings.wifiChanged => settings'.wifiChanged
        BY <2>4, <2>5, <2>7
      <4> HIDE DEF set, touched, next
      <4>5. settings'.wifiChanged =>
              Works(ssid, settings') \/ (settings'.radio = inUse.radio /\ settings'.ip = inUse.ip)
        <5>1. CASE settings.wifiChanged
          BY <1>3, <3>1, <4>3, <5>1 DEF UseWatched, Works
        <5>2. CASE ~settings.wifiChanged
          BY <1>3, <3>1, <4>3, <5>2 DEF Watched, Works
        <5> QED
          BY <5>1, <5>2
      <4> QED
        BY <1>2, <1>3, <3>1, <4>4, <4>5 DEF UseWatched, Works
    <3> QED
      BY <1>2, <2>3, <2>6, <3>1, <3>2, <3>3 DEF NeverUnchecked
  <2> QED
    BY <1>2, <1>3, <2>7 DEF WatchInv
<1> QED
  BY <1>5, <1>6

\* The network page, and what comes over the serial port: settings of the network left
\* are not watched, and that is what the history remembers.
LEMMA InputWatched ==
    ASSUME Bounded, WatchInv, BoardTypeOK', SetSsid \/ SerialInput
    PROVE  WatchInv'
<1>1. /\ settings \in Settings /\ file \in Settings /\ TRUE \in BOOLEAN
      /\ (linked => ssid \in Near /\ inUse.radio = "auto") /\ (linked => mode = "station")
      /\ ~spoilt => NeverUnchecked
      /\ \A net : Watched(net, Fresh(settings)) /\ Watched(net, Defaults)
  BY SameWorth DEF WatchInv, BoardTypeOK
<1>2. ASSUME NEW s \in Settings, ~Stale(s) PROVE \A net : Watched(net, s)
  <2>1. s.wifiChanged \/ s = Fresh(s)
    BY <1>2 DEF Stale
  <2>2. \A net : Watched(net, Fresh(s))
    BY <1>1, SameWorth
  <2>3. CASE s.wifiChanged
    BY <2>3 DEF Watched
  <2>4. CASE s = Fresh(s)
    BY <2>2, <2>4
  <2> QED
    BY <2>1, <2>3, <2>4
<1>3. file' \in Settings
  BY DEF BoardTypeOK
<1>4. CASE SetSsid
  <2>1. PICK net \in Networks \ {"none"}, reached \in BOOLEAN, connected \in IsConnected :
         /\ reached => net \in Near
         /\ ssid' = (IF reached THEN net ELSE ssid)
         /\ settings' = (IF connected /\ (reached => net = ssid)
                         THEN settings ELSE Fresh(settings))
         /\ \/ (mode = "ap" \/ ~reached) /\ SyncAndRestart(settings')
            \/ mode = "station" /\ Save(settings, "off") /\ linked' = FALSE
         /\ spoilt' = (spoilt \/ (reached /\ net # ssid /\ Stale(file')))
    BY <1>4, Zenon DEF SetSsid
  <2>2. /\ file' \in {StationNext(settings'), settings, file, Defaults}
        /\ mode' = "off" /\ ~linked'
    BY <2>1, RestartLeaves, SaveLeaves
  <2>3. ASSUME ~spoilt' PROVE ~spoilt /\ ~(reached /\ net # ssid /\ Stale(file'))
    BY <2>1, <2>3, FlagOnly, Zenon
  <2>4. ASSUME ~spoilt' PROVE Watched(ssid', settings')
    <3>1. CASE settings' = settings /\ ssid' = ssid
      BY <1>1, <2>3, <2>4, <3>1 DEF NeverUnchecked
    <3>2. CASE settings' = Fresh(settings)
      BY <1>1, <3>2
    <3> QED
      BY <2>1, <3>1, <3>2
  <2>5. ASSUME ~spoilt' PROVE Watched(ssid', file')
    <3>1. CASE reached /\ net # ssid
      BY <1>2, <1>3, <2>3, <2>5, <3>1
    <3>2. CASE ~(reached /\ net # ssid)
      <4>1. ssid' = ssid
        BY <2>1, <3>2
      <4>2. settings' \in Settings
        BY DEF BoardTypeOK
      <4>3. Watched(ssid', StationNext(settings'))
        BY <2>4, <2>5, <4>2, SameWorth
      <4> QED
        BY <1>1, <2>2, <2>3, <2>5, <4>1, <4>3 DEF NeverUnchecked
    <3> QED
      BY <3>1, <3>2
  <2> QED
    BY <2>2, <2>4, <2>5, OffWatched
<1>5. CASE Improv
  <2>1. ASSUME NEW net \in Near,
               ssid' = net /\ settings' = Fresh(settings),
               SyncAndRestart(settings'),
               spoilt' = (spoilt \/ (net # ssid /\ Stale(file')))
        PROVE  WatchInv'
    <3>1. file' \in {StationNext(settings'), file, Defaults} /\ mode' = "off" /\ ~linked'
      BY <2>1, RestartLeaves
    <3>2. ASSUME ~spoilt' PROVE ~spoilt /\ ~(net # ssid /\ Stale(file'))
      BY <2>1, <3>2, FlagOnly, Zenon
    <3>3. ASSUME ~spoilt' PROVE Watched(ssid', file')
      <4>1. CASE net # ssid
        BY <1>2, <1>3, <3>2, <3>3, <4>1
      <4>2. CASE net = ssid
        <5>1. Watched(ssid, StationNext(settings'))
          <6>1. settings' \in Settings /\ Watched(ssid, settings')
            BY <1>1, <2>1 DEF BoardTypeOK
          <6> QED
            BY <1>1, <6>1, SameWorth
        <5> QED
          BY <1>1, <2>1, <3>1, <3>2, <3>3, <4>2, <5>1 DEF NeverUnchecked
      <4> QED
        BY <4>1, <4>2
    <3> QED
      BY <1>1, <2>1, <3>1, <3>3, OffWatched
  <2>2. CASE /\ linked' = FALSE
             /\ spoilt' = (spoilt \/ mode = "station")
             /\ UNCHANGED <<mode, settings, file, ssid, mishaps>>
    <3>1. ASSUME ~spoilt' PROVE ~spoilt
      BY <2>2, <3>1, FlagOnly, Zenon
    <3>2. UNCHANGED inUse
      BY <1>5 DEF Improv
    <3> QED
      BY <1>1, <2>2, <3>1, <3>2 DEF WatchInv, NeverUnchecked, UseWatched
  <2> QED
    BY <1>5, <2>1, <2>2 DEF Improv
<1>6. CASE SerialWifi
  <2>1. PICK net \in Near, reached \in BOOLEAN, connected \in IsConnected :
         /\ reached /\ mode = "station" => inUse.radio = "auto"
         /\ ssid' = (IF reached THEN net ELSE ssid)
         /\ settings' = (IF connected /\ (reached => net = ssid)
                         THEN settings ELSE Fresh(settings))
         /\ spoilt' = (\/ spoilt
                       \/ reached /\ net # ssid /\ (Stale(file) \/ Unfit(net))
                       \/ ~reached /\ ~connected /\ mode = "station")
    BY <1>6, Zenon DEF SerialWifi
  <2>2. linked' = FALSE /\ UNCHANGED <<mode, file, inUse>>
    BY <1>6 DEF SerialWifi
  <2>3. (settings' = settings /\ ssid' = ssid) \/ settings' = Fresh(settings)
    BY <2>1
  <2>4. ASSUME ~spoilt'
        PROVE  /\ ~spoilt
               /\ ~(reached /\ net # ssid /\ (Stale(file) \/ Unfit(net)))
               /\ ~(~reached /\ ~connected /\ mode = "station")
    <3> DEFINE p == \/ reached /\ net # ssid /\ (Stale(file) \/ Unfit(net))
                    \/ ~reached /\ ~connected /\ mode = "station"
    <3>1. spoilt' = (spoilt \/ p)
      BY <2>1, Zenon
    <3>2. ~spoilt /\ ~p
      <4> HIDE DEF p
      <4> QED
        BY <2>4, <3>1, FlagOnly, Zenon
    <3> QED
      BY <3>2
  <2>5. ASSUME ~spoilt' PROVE NeverUnchecked'
    <3>1. Watched(ssid, file) /\ Watched(ssid, settings) /\ UseWatched
      BY <1>1, <2>4, <2>5 DEF NeverUnchecked
    <3>2. Watched(ssid', file')
      BY <1>1, <1>2, <2>1, <2>2, <2>4, <2>5, <3>1
    <3>3. Watched(ssid', settings')
      BY <1>1, <2>1, <2>3, <3>1
    <3>4. UseWatched'
      <4>1. SUFFICES ASSUME mode = "station", ssid' \in Near
                     PROVE  /\ ~Works(ssid', inUse) => settings'.wifiChanged
                            /\ settings'.wifiChanged =>
                                 \/ Works(ssid', settings')
                                 \/ settings'.radio = inUse.radio /\ settings'.ip = inUse.ip
        BY <2>2 DEF UseWatched, Works
      <4>2. CASE settings' = settings /\ ssid' = ssid
        BY <3>1, <4>1, <4>2 DEF UseWatched
      <4>3. CASE settings' = Fresh(settings)
        <5>1. Works(ssid', settings') /\ (settings'.wifiChanged <=> settings.wifiChanged)
          BY <1>1, <4>3, SameWorth
        <5>2. ~Works(ssid', inUse) => settings.wifiChanged
          <6>1. CASE ssid' = ssid
            BY <3>1, <4>1, <6>1 DEF UseWatched
          <6>2. CASE ssid' # ssid
            <7>1. reached /\ net # ssid /\ ssid' = net
              BY <2>1, <6>2
            <7> QED
              BY <2>1, <2>4, <2>5, <4>1, <7>1 DEF Unfit, Works
          <6> QED
            BY <6>1, <6>2
        <5> QED
          BY <5>1, <5>2
      <4> QED
        BY <2>3, <4>2, <4>3
    <3> QED
      BY <3>2, <3>3, <3>4 DEF NeverUnchecked
  <2> QED
    BY <2>2, <2>5 DEF WatchInv
<1>7. CASE ImprovNoise
  <2>1. UNCHANGED <<mode, settings, file, ssid, inUse, linked, spoilt>>
    BY <1>7 DEF ImprovNoise
  <2> QED
    BY <1>1, <2>1 DEF WatchInv, NeverUnchecked, UseWatched
<1>8. CASE AskForAp
  <2>1. settings' = [settings EXCEPT !.softAP = TRUE] /\ UNCHANGED <<ssid, spoilt>>
    BY <1>8 DEF AskForAp
  <2>2. /\ file' \in {StationNext(settings'), settings', file, Defaults}
        /\ mode' = "off" /\ ~linked'
    BY <1>8, RestartLeaves, SaveLeaves DEF AskForAp
  <2>3. settings' \in Settings
    BY DEF BoardTypeOK
  <2>4. ASSUME ~spoilt' PROVE Watched(ssid', settings') /\ Watched(ssid', file')
    <3>1. Watched(ssid, settings) /\ Watched(ssid, file)
      BY <1>1, <2>1, <2>4 DEF NeverUnchecked
    <3>2. Watched(ssid, settings')
      BY <1>1, <2>1, <3>1, SameWorth
    <3>3. Watched(ssid, StationNext(settings'))
      BY <2>3, <3>2, SameWorth
    <3> QED
      BY <1>1, <2>1, <2>2, <3>1, <3>2, <3>3
  <2> QED
    BY <2>2, <2>4, OffWatched
<1> QED
  BY <1>4, <1>5, <1>6, <1>7, <1>8 DEF SerialInput

\* Pushes on the wall panel, and what they arm.
LEMMA PushWatched ==
    ASSUME Bounded, WatchInv, BoardTypeOK', Push \/ PushesAge \/ DoorRequest
    PROVE  WatchInv'
<1>1. /\ settings \in Settings /\ file \in Settings /\ TRUE \in BOOLEAN
      /\ (linked => ssid \in Near /\ inUse.radio = "auto") /\ (linked => mode = "station")
      /\ ~spoilt => NeverUnchecked
      /\ \A net : Watched(net, Defaults)
  BY SameWorth DEF WatchInv, BoardTypeOK
<1>2. CASE Push /\ PushCount = 5
  <2>1. /\ settings' = [settings EXCEPT !.softAP = TRUE] /\ Save(settings', "station")
        /\ linked' = (linked /\ mode' = "station")
        /\ UNCHANGED <<ssid, inUse, spoilt>> /\ mode = "station"
    BY <1>2 DEF Push
  <2>2. file' \in {settings', file, Defaults} /\ mode' \in {"off", "station"}
    BY <2>1, SaveLeaves
  <2>3. /\ settings'.radio = settings.radio /\ settings'.ip = settings.ip
        /\ settings'.wifiChanged <=> settings.wifiChanged
    BY <1>1, <2>1, SameWorth
  <2>4. linked' => linked
    BY <2>1, Zenon
  <2>5. ASSUME ~spoilt PROVE NeverUnchecked'
    <3>1. Watched(ssid, file) /\ Watched(ssid, settings) /\ UseWatched
      BY <1>1, <2>5 DEF NeverUnchecked
    <3>2. Watched(ssid, settings')
      BY <1>1, <2>1, <3>1, SameWorth
    <3>3. UseWatched'
      BY <2>1, <2>3, <3>1 DEF UseWatched, Works
    <3> QED
      BY <1>1, <2>1, <2>2, <3>1, <3>2, <3>3 DEF NeverUnchecked
  <2> QED
    BY <1>1, <2>1, <2>4, <2>5 DEF WatchInv
<1>3. CASE (Push /\ PushCount # 5) \/ PushesAge \/ DoorRequest
  <2>1. UNCHANGED <<mode, settings, file, ssid, inUse, linked, spoilt>>
    BY <1>3 DEF Push, PushesAge, DoorRequest
  <2> QED
    BY <1>1, <2>1 DEF WatchInv, NeverUnchecked, UseWatched
<1> QED
  BY <1>2, <1>3

\* Every step of the board.
LEMMA WatchSteps == Bounded /\ WatchInv /\ [BoardNext]_boardVars => WatchInv'
<1> SUFFICES ASSUME Bounded, WatchInv, [BoardNext]_boardVars PROVE WatchInv'
  OBVIOUS
<1>1. BoardTypeOK'
  BY BoardSteps DEF WatchInv
<1>2. CASE UNCHANGED boardVars
  BY <1>1, <1>2 DEF boardVars, recovery, WatchInv, NeverUnchecked, UseWatched
<1> QED
  BY <1>1, <1>2, StartsWatched, NetworkWatched, SetGdoWatched, InputWatched, PushWatched
     DEF BoardNext

\* With any number of requests, power cuts, failing saves and lost pings: unless one of
\* the exceptions of ComesBack has happened - among them that the network page or Improv
\* gave a station the credentials of another network, and the restart did not save what
\* they reset - a board that knows a network in reach has no setting in its file, in RAM
\* or in use that keeps it from being used, but one that wifi_loop is going to check:
\* what handle_setgdo marks, and what onGotIP, the check itself, a restart and the
\* recovery save, leave nothing that stays.
THEOREM SettingsWatched ==
    ASSUME Bounded
    PROVE  BoardSpec => [](~spoilt => NeverUnchecked)
<1>1. WatchInv => (~spoilt => NeverUnchecked)
  BY DEF WatchInv
<1> QED
  BY <1>1, WatchStarts, WatchSteps, PTL DEF BoardSpec
-----------------------------------------------------------------------------
(* The units side by side.                                                 *)

\* Whichever unit is at work, each keeps its types, for an upload of any size, any
\* number of channels and browsers, and any number of requests and mishaps.
THEOREM BoardSideTyped ==
    ASSUME Bounded, Channelled
    PROVE  MCSpec => []UnitsTypeOK
<1> DEFINE UnitsInv == ImageInv /\ BoardTypeOK /\ ChannelsInv
<1>1. MCInit => UnitsInv
  BY ImageStarts, BoardStarts, ChannelsStarts DEF MCInit
<1>2. UnitsInv /\ [MCNext]_mcVars => UnitsInv'
  <2> SUFFICES ASSUME UnitsInv, [MCNext]_mcVars PROVE UnitsInv'
    OBVIOUS
  <2>1. [Next]_vars /\ [BoardNext]_boardVars /\ [ChannelsNext]_channelVars
    BY DEF MCNext, mcVars
  <2> QED
    BY <2>1, ImageSteps, BoardSteps, ChannelsSteps
<1>3. UnitsInv => UnitsTypeOK
  <2> SUFFICES ASSUME UnitsInv PROVE UnitsTypeOK
    OBVIOUS
  <2>1. TakenIn(slots) \in SUBSET Indices /\ Channels \in Nat
    BY DEF TakenIn, Channelled
  <2>2. Cardinality(TakenIn(slots)) \in Nat /\ Cardinality(TakenIn(slots)) <= Channels
    BY <2>1, FiniteChannels
  <2>3. subscribed \in 0..Channels
    BY <2>1, <2>2 DEF ChannelsInv, Counts
  <2>4. ChannelsTypeOK
    BY <2>3 DEF ChannelsInv, WellOwned, ChannelsTypeOK, Slot
  <2> QED
    BY <2>4 DEF ImageInv, UnitsTypeOK
<1> QED
  BY <1>1, <1>2, <1>3, PTL DEF MCSpec
=============================================================================
