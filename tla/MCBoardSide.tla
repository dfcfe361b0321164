----------------------------- MODULE MCBoardSide -----------------------------
(***************************************************************************)
(* The firmware update, the start of the board with its settings, and the  *)
(* event channels, checked in one run: each behaviour exercises one of     *)
(* them, "unit", and leaves the others at rest.                            *)
(***************************************************************************)
EXTENDS OtaUpdate, Board, EventChannels

VARIABLE unit

mcVars == <<unit, vars, boardVars, channelVars>>

MCInit ==
    /\ unit \in {"ota", "board", "events"}
    /\ Init /\ BoardInit /\ ChannelsInit
    /\ unit # "board" => ssid = "none"
    /\ unit # "events" => ~chatty

MCNext ==
    \/ unit = "ota" /\ Next /\ UNCHANGED <<unit, boardVars, channelVars>>
    \/ unit = "board" /\ BoardNext /\ UNCHANGED <<unit, vars, channelVars>>
    \/ unit = "events" /\ ChannelsNext /\ UNCHANGED <<unit, vars, boardVars>>

\* Fairness of FairSpec and BoardFairSpec, for the unit at work.
OtaStep(A) == unit = "ota" /\ A /\ UNCHANGED <<unit, boardVars, channelVars>>
BoardStep(A) == unit = "board" /\ A /\ UNCHANGED <<unit, vars, channelVars>>

MCFairness ==
    /\ WF_mcVars(OtaStep(FileAborted)) /\ WF_mcVars(OtaStep(HandleUpdate))
    /\ WF_mcVars(OtaStep(Silence)) /\ WF_mcVars(OtaStep(TimerFires))
    /\ WF_mcVars(OtaStep(CheckTimeout))
    /\ SF_mcVars(OtaStep(PollRecovery))
    /\ WF_mcVars(OtaStep(Boot))
    /\ WF_mcVars(BoardStep(SetUp)) /\ WF_mcVars(BoardStep(ApTimeout))
    /\ WF_mcVars(BoardStep(Join)) /\ WF_mcVars(BoardStep(WifiCheck))
    /\ WF_mcVars(BoardStep(RestartFires))

MCSpec == MCInit /\ [][MCNext]_mcVars /\ MCFairness
-----------------------------------------------------------------------------
\* The state of every unit has its type.
UnitsTypeOK == TypeOK /\ BoardTypeOK /\ ChannelsTypeOK

\* ComesBack of Board, when its unit is the one at work.
BoardComesBack == unit = "board" => ComesBack
=============================================================================
