----------------------------- MODULE LightLock -----------------------------
(***************************************************************************)
(* The light and the remote lock of a Security+ 2.0 opener: set_light,     *)
(* set_lock and the packets of comms_loop_sec2 that report on them.  The   *)
(* two are handled alike and share nothing but the transmit queue, so each *)
(* behaviour is about one of them, "device".                               *)
(*                                                                         *)
(* A request is ignored when the recorded state already has its value or   *)
(* the same request is pending; the pending flags are cleared only by a    *)
(* packet that changes the recorded state.  pendingLightOn/Off (and        *)
(* pendingLockOn/Off) are never both set: "awaited" is the set of the value*)
(* that is pending.  On stands for a lit light and for locked remotes.     *)
(***************************************************************************)
EXTENDS Naturals, Sequences

CONSTANTS CmdLen,      \* places of the transmit queue (PACKET_QUEUE_SIZE)
          ReplyLen,    \* bound of the model: packets on their way back
          MaxLost,     \* bound of the model: packets that get lost
          MaxOthers    \* bound of the model: flashes and uses of the wall panel

VARIABLES
    device,    \* "light" or "lock"
    recorded,  \* garage_door.light, garage_door.current_lock
    goal,      \* garage_door.target_lock; of a light, the recorded state
    awaited,   \* the pending flags
    cmdq,      \* packets queued for the opener
    replies,   \* packets from the opener and the wall panel, not handled yet
    real,      \* whether the opener's light is on, its remotes locked
    lost, others,  \* how many
    spoilt     \* history: something was lost, dropped, unverified or switched by another

lightVars == <<device, recorded, goal, awaited, cmdq, replies, real, lost,
               others, spoilt>>

Value == {"ON", "OFF"}

Set(b)    == [kind |-> "set", on |-> b]       \* a Light or Lock packet
GetStatus == [kind |-> "status"]
Status(b) == [kind |-> "status", on |-> b]
Toggle    == [kind |-> "toggle"]

Commands == {GetStatus} \cup {Set(b) : b \in Value}
Replies  == {Toggle} \cup {Set(b) : b \in Value} \cup {Status(b) : b \in Value}

\* An unknown state is not locked, and is toggled to locked.
Opposite(b) == IF b = "ON" THEN "OFF" ELSE "ON"

LightTypeOK ==
    /\ device \in {"light", "lock"}
    /\ recorded \in Value \cup {"UNKNOWN"}
    /\ goal \in Value \cup {"UNKNOWN"}
    /\ awaited \in {{}, {"ON"}, {"OFF"}}
    /\ cmdq \in Seq(Commands) /\ Len(cmdq) <= CmdLen
    /\ replies \in Seq(Replies) /\ Len(replies) <= ReplyLen
    /\ real \in Value
    /\ lost \in 0..MaxLost /\ others \in 0..MaxOthers
    /\ spoilt \in BOOLEAN

\* garage_door (ratgdo.cpp): a light is taken to be off, a lock is not known.
LightInit ==
    /\ device \in {"light", "lock"}
    /\ recorded = IF device = "light" THEN "OFF" ELSE "UNKNOWN"
    /\ goal = recorded
    /\ awaited = {}
    /\ cmdq = <<>> /\ replies = <<>>
    /\ real \in Value
    /\ lost = 0 /\ others = 0 /\ spoilt = FALSE
-----------------------------------------------------------------------------
(* Requests.                                                                *)

\* txQueuePush of the packets of s, each dropped when the queue is full.
Pushed(q, s) == q \o SubSeq(s, 1, IF CmdLen - Len(q) < Len(s) THEN CmdLen - Len(q) ELSE Len(s))

\* (mutant) The opener is not asked for its status.
SetUnasked(b, verify) == <<Set(b)>>
\* What set_light and set_lock queue; only a verified light asks for the status.
SetPackets(b, verify) ==
    IF device = "light" /\ verify THEN <<Set(b), GetStatus>> ELSE <<Set(b)>>

\* set_light and set_lock.  The flags are set, and a lock's target changed,
\* before the queue is found to be full; an ignored request is no step.
SetDevice(b, verify) ==
    /\ verify => recorded # b /\ b \notin awaited
    /\ awaited' = {b}
    /\ goal' = IF device = "lock" THEN b ELSE goal
    /\ cmdq' = Pushed(cmdq, SetPackets(b, verify))
    /\ spoilt' = (spoilt \/ ~verify \/ Len(cmdq') < Len(cmdq) + Len(SetPackets(b, verify)))
    /\ UNCHANGED <<device, recorded, replies, real, lost>>

\* HomeKit, the web page; toggle_light is a request for the opposite.
Request == (\E b \in Value : SetDevice(b, TRUE)) /\ others' = others

\* TTCtimerFn flashes the light without looking at its state.
Flash ==
    /\ device = "light" /\ others < MaxOthers
    /\ others' = others + 1
    /\ \E b \in Value : SetDevice(b, FALSE)

\* The status is asked for when the queue is empty (Sec2Refresh says when).
Poll ==
    /\ cmdq = <<>>
    /\ cmdq' = <<GetStatus>>
    /\ UNCHANGED <<device, recorded, goal, awaited, replies, real, lost, others, spoilt>>
-----------------------------------------------------------------------------
(* The opener and the wall panel (external).                                *)

\* The opener obeys or answers; it may report a change of its own accord.
Opener ==
    /\ cmdq # <<>> /\ Len(replies) < ReplyLen
    /\ cmdq' = Tail(cmdq)
    /\ LET c == Head(cmdq)
       IN  IF c.kind = "set"
           THEN /\ real' = c.on
                /\ replies' \in {replies, Append(replies, Status(c.on))}
           ELSE /\ real' = real
                /\ replies' = Append(replies, Status(real))
    /\ UNCHANGED <<device, recorded, goal, awaited, lost, others, spoilt>>

\* A command or a packet on its way back is lost.
Lose ==
    /\ lost < MaxLost
    /\ \/ cmdq # <<>> /\ cmdq' = Tail(cmdq) /\ replies' = replies
       \/ replies # <<>> /\ replies' = Tail(replies) /\ cmdq' = cmdq
    /\ lost' = lost + 1 /\ spoilt' = TRUE
    /\ UNCHANGED <<device, recorded, goal, awaited, real, others>>

\* The wall panel's packet is heard by the opener and, late, by the firmware.
WallPanel ==
    /\ others < MaxOthers /\ Len(replies) < ReplyLen
    /\ others' = others + 1 /\ spoilt' = TRUE
    /\ \/ real' = Opposite(real) /\ replies' = Append(replies, Toggle)
       \/ \E b \in Value : real' = b /\ replies' = Append(replies, Set(b))
    /\ UNCHANGED <<device, recorded, goal, awaited, cmdq, lost>>
-----------------------------------------------------------------------------
(* comms_loop_sec2.                                                         *)

Hear == replies # <<>> /\ replies' = Tail(replies)
Unheard == UNCHANGED <<device, real, lost, others>>

\* The flags are cleared when the recorded state changes.
Answered(old, new) == IF new # old THEN {} ELSE awaited

\* (mutant) Reports are not believed while a request is pending.
BelievedAtRest(old, new) == IF awaited = {} THEN new ELSE old
Believed(old, new) == new

\* A Status packet.
RxLightStatus ==
    /\ Hear /\ Head(replies).kind = "status"
    /\ recorded' = Believed(recorded, Head(replies).on)
    /\ awaited' = Answered(recorded, recorded')
    /\ goal' = IF recorded' # recorded THEN recorded' ELSE goal
    /\ UNCHANGED <<cmdq, spoilt>> /\ Unheard

\* A Light packet changes the recorded light, a Lock packet the target only; a
\* toggle goes by what is recorded, and the status is asked for.
RxPanel ==
    /\ Hear /\ Head(replies).kind \in {"set", "toggle"}
    /\ LET r   == Head(replies)
           new == IF r.kind = "set" THEN r.on ELSE Opposite(goal)
       IN  /\ goal' = new
           /\ recorded' = IF device = "light" THEN new ELSE recorded
           /\ awaited' = Answered(goal, new)
           /\ cmdq' = IF r.kind = "set" THEN cmdq ELSE Pushed(cmdq, <<GetStatus>>)
    /\ spoilt' = spoilt /\ Unheard

LightNext == Request \/ Flash \/ Poll \/ Opener \/ Lose \/ WallPanel \/ RxLightStatus \/ RxPanel

\* The loop sends and hears in every pass and polls at a bounded pace.
Fairness == WF_lightVars(Poll) /\ WF_lightVars(Opener) /\ WF_lightVars(RxLightStatus)
            /\ WF_lightVars(RxPanel)
LightSpec == LightInit /\ [][LightNext]_lightVars /\ Fairness
-----------------------------------------------------------------------------
\* The opener has been or will be told b, and the firmware that it was.
TellsOpener(b) == \E i \in 1..Len(cmdq) : cmdq[i] = Set(b)
TellsBack(b) ==
    \/ \E i \in 1..Len(replies) : replies[i] = Status(b)
    \/ device = "light" => \E i \in 1..Len(cmdq) : cmdq[i] = GetStatus

\* A request stays pending, and repetitions of it are ignored, only while its
\* command or the answer is still under way and the recorded state differs - as
\* long as nothing was lost or dropped and nobody else switched.  Otherwise the
\* flag can outlive the command for good: nothing but a change clears it.
PendingIsUnderWay ==
    ~spoilt => \A b \in awaited :
        /\ recorded # b
        /\ TellsOpener(b) \/ (real = b /\ TellsBack(b))

\* Once requests cease and the opener's state no longer changes, what is recorded
\* settles on it, whatever was lost, toggled at the panel or crossed before.
RecordSettles ==
    \A b \in Value :
        <>[][~Request]_lightVars /\ <>[](real = b) => <>[](recorded = b)
=============================================================================
