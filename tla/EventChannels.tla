---------------------------- MODULE EventChannels ----------------------------
(***************************************************************************)
(* The server-sent event channels of web.cpp: browsers subscribe, listen,  *)
(* and go away without a word; broadcasts and heartbeats find out.         *)
(*                                                                         *)
(* Every handler runs to its end, but a message logged inside one is       *)
(* broadcast to the channels at once, and that can remove the very channel *)
(* the handler is about to remove.  Only a build that logs at debug level  *)
(* logs just there.                                                        *)
(*                                                                         *)
(* A browser is known by the UUID it made up, which is never empty.        *)
(***************************************************************************)
EXTENDS Naturals, FiniteSets, FiniteSetsExt

CONSTANTS Channels,  \* SSE_MAX_CHANNELS
          Viewers    \* the browsers' UUIDs

VARIABLES
    slots,    \* subscription: its UUID or "" (owner), SSEconnected (on), and
              \* client.connected() (alive)
    subscribed, \* subscriptionCount
    chatty    \* debug messages are logged

channelVars == <<slots, subscribed, chatty>>

Indices == 0..(Channels - 1)
Free == [owner |-> "", on |-> FALSE, alive |-> FALSE]

ChannelsTypeOK ==
    /\ slots \in [Indices -> [owner : Viewers \cup {""}, on : BOOLEAN, alive : BOOLEAN]]
    /\ subscribed \in 0..Channels
    /\ chatty \in BOOLEAN

ChannelsInit ==
    /\ slots = [i \in Indices |-> Free]
    /\ subscribed = 0
    /\ chatty \in BOOLEAN
-----------------------------------------------------------------------------
Occupied == {i \in Indices : slots[i].owner # ""}
Connected == {i \in Indices : slots[i].on}
Dead == {i \in Connected : ~slots[i].alive}

Less(n, k) == IF n > k THEN n - k ELSE 0

\* removeSSEsubscription on every slot in gone, on those in twice two times; the
\* count does not go below zero.
Removed(gone) == [i \in Indices |-> IF i \in gone THEN Free ELSE slots[i]]
CountWithout(gone, twice) == Less(subscribed, Cardinality(gone) + Cardinality(twice))

\* The slots that the message before their removal can have removed already.
MaybeTwice(gone) == SUBSET (IF chatty THEN gone ELSE {})

\* (mutant) The count goes up as soon as the browser is known to be new.
CountOnArrival(n, found, accepted) == IF found THEN n ELSE n + 1
\* "Count only after the slot is validated and about to be assigned".
CountAfter(n, found, accepted) == IF accepted /\ ~found THEN n + 1 ELSE n

\* handle_subscribe.  A browser that is still connected loses its old channel; the
\* request may then be turned away, for a client that has gone or is not allowed.
Subscribe(v) ==
    /\ subscribed # Channels
    /\ \E accepted \in BOOLEAN :
         LET old == {i \in Indices : slots[i].owner = v}
             gone == old \cap Connected
         IN  \E twice \in MaybeTwice(gone) :
               LET left == Removed(gone)
                   n == CountWithout(gone, twice)
                   found == old \ gone
                   places == IF found # {} THEN found
                             ELSE {i \in Indices : left[i].owner = ""}
                   taken == accepted /\ places # {}
               IN  /\ slots' = (IF taken
                                THEN [left EXCEPT ![Min(places)] =
                                        [owner |-> v, on |-> FALSE, alive |-> TRUE]]
                                ELSE left)
                   /\ subscribed' = CountAfter(n, found # {}, taken)
    /\ UNCHANGED chatty

\* SSEHandler: the client is taken over before the UUID is compared.
Listen(v, i) ==
    /\ slots' = [slots EXCEPT ![i] =
                   IF @.owner = v THEN [owner |-> v, on |-> TRUE, alive |-> TRUE]
                   ELSE [@ EXCEPT !.alive = TRUE]]
    /\ UNCHANGED <<subscribed, chatty>>

\* A browser is closed, its network fails, or its request has been answered.
Leave(i) ==
    /\ slots[i].alive
    /\ slots' = [slots EXCEPT ![i].alive = FALSE]
    /\ UNCHANGED <<subscribed, chatty>>

\* SSEBroadcastState of a status: the channels in failed cannot be written to, and
\* the warning about it is broadcast, which removes them.
StatusBroadcast ==
    /\ subscribed # 0
    /\ \E failed \in SUBSET (Connected \ Dead) :
         \E twice \in MaybeTwice(Dead) :
           /\ slots' = Removed(Dead \cup failed)
           /\ subscribed' = CountWithout(Dead \cup failed, twice)
    /\ UNCHANGED chatty

\* SSEBroadcastState of a message, from logToBuffer; what is logged meanwhile is
\* not broadcast.
LogBroadcast ==
    /\ subscribed # 0 /\ Dead # {}
    /\ slots' = Removed(Dead)
    /\ subscribed' = CountWithout(Dead, {})
    /\ UNCHANGED chatty

\* serviceSSEheartbeats with SSEheartbeat, on a channel that listens.
Heartbeat(i) ==
    /\ slots[i].on /\ ~slots[i].alive
    /\ \E twice \in MaybeTwice({i}) :
         /\ slots' = Removed({i})
         /\ subscribed' = CountWithout({i}, twice)
    /\ UNCHANGED chatty

ChannelsNext ==
    \/ \E v \in Viewers : Subscribe(v)
    \/ \E v \in Viewers, i \in Indices : Listen(v, i)
    \/ \E i \in Indices : Leave(i) \/ Heartbeat(i)
    \/ StatusBroadcast \/ LogBroadcast

ChannelsSpec == ChannelsInit /\ [][ChannelsNext]_channelVars
-----------------------------------------------------------------------------
\* However browsers subscribe twice, listen on channels that are no longer theirs
\* and vanish, no browser holds two channels, a channel that is sent to belongs to
\* one, and the count that decides whether anything is sent at all, and whether
\* another browser is let in, is that of the channels taken.  With debug messages
\* it may be lower, for channels that were removed twice, but never higher.
ChannelsAddUp ==
    /\ \A i, j \in Occupied : slots[i].owner = slots[j].owner => i = j
    /\ Connected \subseteq Occupied
    /\ subscribed <= Cardinality(Occupied)
    /\ ~chatty => subscribed = Cardinality(Occupied)
=============================================================================
