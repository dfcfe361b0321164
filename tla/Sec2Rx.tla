------------------------------ MODULE Sec2Rx ------------------------------
(***************************************************************************)
(* Receiving Security+ 2.0 packets on the ESP8266: bytes go from the       *)
(* buffer of the serial library through class Sec2RxBuffer (sec2_rx.h) to  *)
(* class SecPlus2Reader (Reader.h), which cuts them into packets.          *)
(*                                                                         *)
(* Bytes arrive from an interrupt, at any time.  pump() moves them when the*)
(* program yields (service_sec2_rx) and at the head of a pass of           *)
(* comms_loop_sec2, the only place where a loss reaches the reader.        *)
(*                                                                         *)
(* The opener sends whole packets, one after the other.  A byte is its     *)
(* position in its packet, positions below PreLen being the preamble, and a*)
(* mark if bytes before it have been lost.  No byte after the preamble     *)
(* looks like one.                                                         *)
(***************************************************************************)
EXTENDS Naturals, Sequences

CONSTANTS
    PacketLen,  \* SECPLUS2_CODE_LEN
    PreLen,     \* bytes of SECPLUS2_PREAMBLE
    SerialCap,  \* bytes the serial library buffers
    Capacity,   \* Sec2RxBuffer::capacity
    PumpMax,    \* bytes one pump() moves
    DrainMax    \* bytes one pass takes

ASSUME Sec2RxAssumption ==
    /\ PacketLen \in Nat /\ PreLen \in 1..(PacketLen - 1)
    /\ SerialCap \in Nat \ {0} /\ Capacity \in Nat \ {0}
    /\ PumpMax \in Nat /\ PumpMax > SerialCap
    /\ DrainMax \in Nat /\ DrainMax >= PacketLen

VARIABLES
    next,       \* position of the byte the opener sends next
    serial,     \* bytes in the serial library
    flag,       \* the overflow flag of the library
    data,       \* Sec2RxBuffer::data, from head to tail
    loss,       \* Sec2RxBuffer::loss
    unreported, \* overflows # sec2OverflowReported
    scheduled,  \* sec2RxScheduled
    mode,       \* SecPlus2Reader::m_mode
    count,      \* m_byte_count; while scanning, bytes of preamble in m_msg_start
    pass,       \* of comms_loop_sec2: "out", "log", "drain"
    budget,     \* bytes this pass may still take
    resync      \* Sec2StatusRefresh::recovery

\* History: the last byte sent is lost, the reader's bytes have a gap, what the
\* last packet handed on was.
VARIABLES cut, spliced, packet

wire == <<next, serial, flag, cut>>
buffer == <<data, loss, unreported>>
reader == <<mode, count, spliced>>
rxVars == <<wire, buffer, scheduled, reader, pass, budget, resync, packet>>

Byte == [pos : 0..(PacketLen - 1), gap : BOOLEAN]

RxTypeOK ==
    /\ next \in 0..(PacketLen - 1)
    /\ serial \in Seq(Byte) /\ Len(serial) <= SerialCap
    /\ flag \in BOOLEAN
    /\ data \in Seq(Byte) /\ Len(data) <= Capacity
    /\ loss \in BOOLEAN /\ unreported \in BOOLEAN /\ scheduled \in BOOLEAN
    /\ mode \in {"SCANNING", "RECEIVING"}
    /\ count \in 0..(PacketLen - 1)
    /\ pass \in {"out", "log", "drain"}
    /\ budget \in 0..DrainMax
    /\ resync \in BOOLEAN
    /\ cut \in BOOLEAN /\ spliced \in BOOLEAN
    /\ packet \in {"none", "whole", "spliced"}

RxInit ==
    /\ next = 0 /\ serial = <<>> /\ flag = FALSE /\ cut = FALSE
    /\ data = <<>> /\ loss = FALSE /\ unreported = FALSE
    /\ scheduled \in BOOLEAN
    /\ mode = "SCANNING" /\ count = 0 /\ spliced = FALSE
    /\ pass = "out" /\ budget = 0
    /\ resync = FALSE
    /\ packet = "none"
-----------------------------------------------------------------------------
(* The wire and the buffers.                                                *)

\* The serial library stores a byte, or drops it and sets its flag.
Arrive ==
    /\ next' = (next + 1) % PacketLen
    /\ IF Len(serial) < SerialCap
       THEN /\ serial' = Append(serial, [pos |-> next, gap |-> cut])
            /\ cut' = FALSE
            /\ UNCHANGED flag
       ELSE /\ cut' = TRUE /\ flag' = TRUE
            /\ UNCHANGED serial
    /\ UNCHANGED <<buffer, scheduled, reader, pass, budget, resync, packet>>

Full == Len(data) + Len(serial) > Capacity

Overflows == flag \/ Full

\* (mutant) Only what came before the loss is cleared.
PumpedAfter == IF Overflows THEN serial ELSE data \o serial

\* What pump() leaves to be read.  It empties the serial library, PumpMax being
\* the larger.
Pumped == IF Overflows THEN <<>> ELSE data \o serial

\* (mutant) The reader is not told.
PumpSilent ==
    /\ serial' = <<>> /\ flag' = FALSE /\ UNCHANGED next
    /\ data' = Pumped
    /\ cut' = (cut \/ Overflows)
    /\ unreported' = (unreported \/ Overflows)
    /\ UNCHANGED loss

\* Sec2RxBuffer::pump.
Pump ==
    /\ serial' = <<>> /\ flag' = FALSE /\ UNCHANGED next
    /\ data' = Pumped
    /\ cut' = (cut \/ Overflows)
    /\ unreported' = (unreported \/ Overflows)
    /\ loss' = (loss \/ Overflows)

\* service_sec2_rx, when the program yields: not between two reads of a pass.
Service ==
    /\ scheduled /\ pass # "drain"
    /\ Pump
    /\ UNCHANGED <<scheduled, reader, pass, budget, resync, packet>>
-----------------------------------------------------------------------------
(* A pass of comms_loop_sec2.                                               *)

\* (mutant) The status is not asked for.
TakeLossQuietly(lost) ==
    /\ loss' = FALSE
    /\ IF lost
       THEN mode' = "SCANNING" /\ count' = 0 /\ spliced' = FALSE
       ELSE UNCHANGED reader
    /\ UNCHANGED resync

\* (mutant) The loss is taken again and again.
TakeLossKept(lost) ==
    /\ loss' = lost
    /\ IF lost
       THEN mode' = "SCANNING" /\ count' = 0 /\ spliced' = FALSE /\ resync' = TRUE
       ELSE UNCHANGED <<reader, resync>>

\* takeLoss, a new reader and Sec2StatusRefresh::lost.
TakeLoss(lost) ==
    /\ loss' = FALSE
    /\ IF lost
       THEN mode' = "SCANNING" /\ count' = 0 /\ spliced' = FALSE /\ resync' = TRUE
       ELSE UNCHANGED <<reader, resync>>

\* The head of a pass: pump, then takeLoss, then perhaps the log.
Begin ==
    /\ pass = "out"
    /\ serial' = <<>> /\ flag' = FALSE /\ UNCHANGED next
    /\ data' = Pumped
    /\ cut' = (cut \/ Overflows)
    /\ TakeLoss(loss \/ Overflows)
    /\ \/ pass' = "drain" /\ unreported' = (unreported \/ Overflows)
       \/ (unreported \/ Overflows) /\ pass' = "log" /\ unreported' = FALSE
    /\ budget' = DrainMax
    /\ packet' = "none"
    /\ UNCHANGED scheduled

\* The overflow has been logged; to do so the program has yielded.
Logged ==
    /\ pass = "log"
    /\ pass' = "drain"
    /\ UNCHANGED <<wire, buffer, scheduled, reader, budget, resync, packet>>

\* SecPlus2Reader::push_byte, for the byte b.
Scan(b) ==
    /\ mode = "SCANNING"
    /\ count' = IF b.pos = count THEN count + 1 ELSE IF b.pos = 0 THEN 1 ELSE 0
    /\ mode' = IF count' = PreLen THEN "RECEIVING" ELSE mode
    /\ spliced' = (count' > 1 /\ (spliced \/ b.gap))
    /\ UNCHANGED <<pass, resync, packet>>

Receive(b) ==
    /\ mode = "RECEIVING" /\ count + 1 < PacketLen
    /\ count' = count + 1
    /\ spliced' = (spliced \/ b.gap)
    /\ UNCHANGED <<mode, pass, resync, packet>>

\* The packet is handed on and the pass ends; a status ends the recovery, and
\* what cannot be decoded may begin one.
Complete(b) ==
    /\ mode = "RECEIVING" /\ count + 1 = PacketLen
    /\ mode' = "SCANNING" /\ count' = 0 /\ spliced' = FALSE
    /\ packet' = IF spliced \/ b.gap THEN "spliced" ELSE "whole"
    /\ resync' \in BOOLEAN
    /\ pass' = "out"

TakeByte ==
    /\ pass = "drain" /\ budget > 0 /\ data # <<>>
    /\ data' = Tail(data)
    /\ budget' = budget - 1
    /\ LET b == Head(data) IN Scan(b) \/ Receive(b) \/ Complete(b)
    /\ UNCHANGED <<wire, loss, unreported, scheduled>>

\* Nothing is left to read, or the pass has read enough.
PassEnds ==
    /\ pass = "drain" /\ (budget = 0 \/ data = <<>>)
    /\ pass' = "out"
    /\ UNCHANGED <<wire, buffer, scheduled, reader, budget, resync, packet>>

ReceivePass == Begin \/ Logged \/ TakeByte \/ PassEnds

RxNext == Arrive \/ Service \/ ReceivePass

RxSpec == RxInit /\ [][RxNext]_rxVars

\* The loop goes on, and the opener goes on sending.
RxFairSpec == RxSpec /\ WF_rxVars(ReceivePass) /\ WF_rxVars(Arrive)
-----------------------------------------------------------------------------
(* Properties.                                                              *)

\* Bytes before and after a loss never follow each other in the buffer, and a
\* reader that holds the first part of a packet and would read on after a gap
\* is about to be told, whichever buffer lost the bytes and whoever pumped.
GapFlagged ==
    /\ \A i \in 2..Len(data) : ~data[i].gap
    /\ data # <<>> /\ Head(data).gap /\ count > 0 => loss

\* Where a packet is joined from both sides of a loss all the same, the reader
\* starts afresh and the status is asked for at the head of the next pass.
SpliceNoticed == packet = "spliced" => loss

\* Every loss makes the program ask for the status, see Sec2Refresh.
LossRecovers == loss ~> resync

\* Unless bytes are lost for ever, whole packets keep coming through: a reader
\* that starts in the middle of a packet finds the next one.
PacketsComeThrough == []<>(packet = "whole") \/ []<>cut

\* test/host/sec2_rx.cpp: "discard the broken byte stream, and request
\* resynchronization rather than joining pre/post-loss bytes".
NeverJoined == packet # "spliced"
=============================================================================
