---------------------------- MODULE Sec2RxProofs ----------------------------
(***************************************************************************)
(* Theorems about the receive buffer and the reader, for every size of     *)
(* packet and buffers.                                                     *)
(***************************************************************************)
EXTENDS Sec2Rx, SequenceTheorems, TLAPS

\* What a pump leaves in the buffer is well typed and fits.
LEMMA PumpedType ==
    ASSUME RxTypeOK
    PROVE  /\ Pumped \in Seq(Byte)
           /\ Len(Pumped) <= Capacity
<1>1. CASE Overflows
  BY <1>1, EmptySeq, Sec2RxAssumption DEF Pumped
<1>2. CASE ~Overflows
  <2>1. /\ data \o serial \in Seq(Byte)
        /\ Len(data \o serial) = Len(data) + Len(serial)
    BY ConcatProperties DEF RxTypeOK
  <2>2. Len(data) + Len(serial) <= Capacity
    BY <1>2, LenProperties, Sec2RxAssumption DEF Overflows, Full, RxTypeOK
  <2>3. QED
    BY <1>2, <2>1, <2>2 DEF Pumped
<1>3. QED
  BY <1>1, <1>2

\* The reader's count stays within the packet: beyond the preamble only when it
\* has been seen whole.
CountInv ==
    /\ mode = "SCANNING" => count < PreLen
    /\ mode = "RECEIVING" => count >= PreLen

\* The receiving side starts well typed.
LEMMA RxStarts == RxInit => RxTypeOK /\ CountInv
<1> USE Sec2RxAssumption
<1> SUFFICES ASSUME RxInit PROVE RxTypeOK /\ CountInv
  OBVIOUS
<1>1. /\ serial \in Seq(Byte) /\ Len(serial) <= SerialCap
      /\ data \in Seq(Byte) /\ Len(data) <= Capacity
  BY EmptySeq DEF RxInit
<1>2. /\ next \in 0..(PacketLen - 1)
      /\ count \in 0..(PacketLen - 1)
      /\ budget \in 0..DrainMax
      /\ CountInv
  BY DEF RxInit, CountInv
<1>3. /\ flag \in BOOLEAN /\ loss \in BOOLEAN /\ unreported \in BOOLEAN
      /\ scheduled \in BOOLEAN /\ resync \in BOOLEAN
      /\ cut \in BOOLEAN /\ spliced \in BOOLEAN
  BY DEF RxInit
<1>4. QED
  BY <1>1, <1>2, <1>3 DEF RxInit, RxTypeOK

\* And stays so: every step of the wire, the pump and the pass.
LEMMA RxSteps == RxTypeOK /\ CountInv /\ [RxNext]_rxVars => (RxTypeOK /\ CountInv)'
<1> USE Sec2RxAssumption
<1> SUFFICES ASSUME RxTypeOK, CountInv, [RxNext]_rxVars
             PROVE  RxTypeOK' /\ CountInv'
  OBVIOUS
<1>1. CASE Arrive
  <2>1. next \in 0..(PacketLen - 1) /\ next' \in 0..(PacketLen - 1)
    BY <1>1 DEF Arrive, RxTypeOK
  <2>2. serial' \in Seq(Byte) /\ Len(serial') <= SerialCap
    <3>1. CASE Len(serial) < SerialCap
      <4> DEFINE b == [pos |-> next, gap |-> cut]
      <4>1. b \in Byte
        BY <2>1 DEF RxTypeOK, Byte
      <4>2. serial' = Append(serial, b)
        BY <1>1, <3>1 DEF Arrive
      <4> HIDE DEF b
      <4>3. QED
        BY <3>1, <4>1, <4>2, AppendProperties, LenProperties DEF RxTypeOK
    <3>2. CASE ~(Len(serial) < SerialCap)
      BY <1>1, <3>2 DEF Arrive, RxTypeOK
    <3>3. QED
      BY <3>1, <3>2
  <2>3. flag' \in BOOLEAN /\ cut' \in BOOLEAN
    BY <1>1 DEF Arrive, RxTypeOK
  <2>4. QED
    BY <1>1, <2>1, <2>2, <2>3 DEF Arrive, RxTypeOK, CountInv, buffer, reader
<1>2. CASE Service
  <2>1. data' \in Seq(Byte) /\ Len(data') <= Capacity
    BY <1>2, PumpedType DEF Service, Pump
  <2>2. serial' \in Seq(Byte) /\ Len(serial') <= SerialCap
    BY <1>2, EmptySeq DEF Service, Pump
  <2>3. /\ flag' \in BOOLEAN /\ cut' \in BOOLEAN
        /\ loss' \in BOOLEAN /\ unreported' \in BOOLEAN
    BY <1>2 DEF Service, Pump, RxTypeOK, Overflows, Full
  <2>4. QED
    BY <1>2, <2>1, <2>2, <2>3 DEF Service, Pump, RxTypeOK, CountInv, reader
<1>3. CASE Begin
  <2>1. data' \in Seq(Byte) /\ Len(data') <= Capacity
    BY <1>3, PumpedType DEF Begin
  <2>2. serial' \in Seq(Byte) /\ Len(serial') <= SerialCap
    BY <1>3, EmptySeq DEF Begin
  <2>3. /\ flag' \in BOOLEAN /\ cut' \in BOOLEAN
        /\ loss' \in BOOLEAN /\ unreported' \in BOOLEAN
    BY <1>3 DEF Begin, TakeLoss, RxTypeOK, Overflows, Full
  <2>4. /\ mode' \in {"SCANNING", "RECEIVING"}
        /\ count' \in 0..(PacketLen - 1)
        /\ CountInv'
    BY <1>3 DEF Begin, TakeLoss, RxTypeOK, CountInv, reader
  <2>5. spliced' \in BOOLEAN /\ resync' \in BOOLEAN
    BY <1>3 DEF Begin, TakeLoss, RxTypeOK, reader
  <2>6. QED
    BY <1>3, <2>1, <2>2, <2>3, <2>4, <2>5 DEF Begin, RxTypeOK
<1>4. CASE Logged
  BY <1>4 DEF Logged, RxTypeOK, CountInv, wire, buffer, reader
<1>5. CASE TakeByte
  <2> DEFINE b == Head(data)
  <2>1. data' \in Seq(Byte) /\ Len(data') <= Capacity /\ b \in Byte
    BY <1>5, HeadTailProperties, LenProperties DEF TakeByte, RxTypeOK
  <2>2. budget' \in 0..DrainMax
    BY <1>5 DEF TakeByte, RxTypeOK
  <2>3. Scan(b) \/ Receive(b) \/ Complete(b)
    BY <1>5 DEF TakeByte
  <2> HIDE DEF b
  <2>4. /\ mode' \in {"SCANNING", "RECEIVING"}
        /\ count' \in 0..(PacketLen - 1)
        /\ CountInv'
    <3>1. CASE Scan(b)
      <4>1. count' \in {count + 1, 0, 1} /\ count < PreLen
        BY <3>1 DEF Scan, CountInv
      <4>2. count' <= PreLen /\ count' \in 0..(PacketLen - 1)
        BY <4>1 DEF RxTypeOK
      <4>3. QED
        BY <3>1, <4>2 DEF Scan, CountInv, RxTypeOK
    <3>2. CASE Receive(b)
      BY <3>2 DEF Receive, RxTypeOK, CountInv
    <3>3. CASE Complete(b)
      BY <3>3 DEF Complete, RxTypeOK, CountInv
    <3>4. QED
      BY <2>3, <3>1, <3>2, <3>3
  <2>5. spliced' \in BOOLEAN
    BY <2>1, <2>3 DEF Scan, Receive, Complete, RxTypeOK, Byte
  <2>6. /\ pass' \in {"out", "log", "drain"}
        /\ resync' \in BOOLEAN
        /\ packet' \in {"none", "whole", "spliced"}
    BY <2>3 DEF Scan, Receive, Complete, RxTypeOK
  <2>7. UNCHANGED <<wire, loss, unreported, scheduled>>
    BY <1>5 DEF TakeByte
  <2>8. QED
    BY <2>1, <2>2, <2>4, <2>5, <2>6, <2>7 DEF RxTypeOK, wire
<1>6. CASE PassEnds
  BY <1>6 DEF PassEnds, RxTypeOK, CountInv, wire, buffer, reader
<1>7. CASE UNCHANGED rxVars
  BY <1>7 DEF rxVars, RxTypeOK, CountInv, wire, buffer, reader
<1>8. QED
  BY <1>1, <1>2, <1>3, <1>4, <1>5, <1>6, <1>7 DEF RxNext, ReceivePass

\* Every state of the receiving side is well typed: neither buffer exceeds its
\* size, and push_byte never writes behind m_rx_buf.
THEOREM RxTypeCorrect == RxSpec => [](RxTypeOK /\ CountInv)
  BY RxStarts, RxSteps, PTL DEF RxSpec
-----------------------------------------------------------------------------
(* Gaps.                                                                    *)

\* The bytes before s have been lost.
AfterGap(s) == s # <<>> /\ Head(s).gap

\* Only the first byte of s may be after a gap.
OnlyHead(s) == \A i \in 2..Len(s) : ~s[i].gap

\* The inductive invariant.  A gap is at the head of the buffer, or else of the
\* serial library, or else before the byte the opener sends next, with nothing
\* buffered before it unless the library has flagged it; and a reader which
\* holds a part of a packet is then to be told.
GapInv ==
    /\ OnlyHead(data) /\ OnlyHead(serial)
    /\ AfterGap(serial) \/ (cut /\ serial = <<>>) => data = <<>>
    /\ cut /\ serial # <<>> => flag /\ Len(serial) = SerialCap
    /\ AfterGap(data) \/ AfterGap(serial) \/ (cut /\ serial = <<>>) =>
         count = 0 \/ loss
    /\ spliced => loss
    /\ packet = "spliced" => loss

\* A pump leaves no gap but at the head, and where it leaves one the reader is
\* to be told, unless it holds nothing.
LEMMA PumpKeepsGaps ==
    ASSUME RxTypeOK, GapInv
    PROVE  /\ OnlyHead(Pumped)
           /\ AfterGap(Pumped) => count = 0 \/ loss
           /\ ~Overflows /\ cut => Pumped = <<>> /\ (count = 0 \/ loss)
<1>1. CASE Overflows
  BY <1>1, EmptySeq DEF Pumped, OnlyHead, AfterGap
<1>2. CASE ~Overflows
  <2>1. Pumped = data \o serial /\ ~flag
    BY <1>2 DEF Pumped, Overflows
  <2>2. data \in Seq(Byte) /\ serial \in Seq(Byte)
    BY DEF RxTypeOK
  <2>3. CASE data = <<>>
    <3>1. Pumped = serial
      BY <2>1, <2>2, <2>3, ConcatEmptySeq
    <3>2. QED
      BY <2>1, <2>3, <3>1 DEF GapInv, AfterGap
  <2>4. CASE data # <<>>
    <3>1. ~AfterGap(serial) /\ ~cut
      BY <2>1, <2>4 DEF GapInv
    <3>2. Len(data) \in Nat /\ Len(data) > 0 /\ Len(serial) \in Nat
      BY <2>2, <2>4, LenProperties, EmptySeq
    <3>3. \A i \in 1..Len(serial) : ~serial[i].gap
      BY <2>2, <3>1, <3>2, HeadTailProperties, EmptySeq, LenProperties
         DEF GapInv, OnlyHead, AfterGap
    <3>4. /\ Len(Pumped) = Len(data) + Len(serial)
          /\ \A i \in 1..(Len(data) + Len(serial)) :
               Pumped[i] = IF i <= Len(data) THEN data[i] ELSE serial[i - Len(data)]
      BY <2>1, <2>2, ConcatProperties
    <3>5. OnlyHead(Pumped)
      <4> SUFFICES ASSUME NEW i \in 2..Len(Pumped) PROVE ~Pumped[i].gap
        BY DEF OnlyHead
      <4>1. CASE i <= Len(data)
        BY <3>2, <3>4, <4>1 DEF GapInv, OnlyHead
      <4>2. CASE ~(i <= Len(data))
        <5>1. i - Len(data) \in 1..Len(serial) /\ Pumped[i] = serial[i - Len(data)]
          BY <3>2, <3>4, <4>2
        <5>2. QED
          BY <3>3, <5>1
      <4>3. QED
        BY <4>1, <4>2
    <3>6. Head(Pumped) = Head(data)
      BY <2>1, <2>2, <2>4, ConcatProperties, HeadTailProperties, <3>2, <3>4
    <3>7. AfterGap(Pumped) => count = 0 \/ loss
      BY <2>4, <3>6 DEF AfterGap, GapInv
    <3>8. QED
      BY <3>1, <3>5, <3>7
  <2>5. QED
    BY <2>3, <2>4
<1>3. QED
  BY <1>1, <1>2

\* Every step keeps gaps where the invariant says.
LEMMA GapStep ==
    ASSUME RxTypeOK, CountInv, GapInv, [RxNext]_rxVars
    PROVE  GapInv'
<1> USE Sec2RxAssumption
<1>1. CASE Arrive
  <2>1. CASE Len(serial) < SerialCap
    <3> DEFINE b == [pos |-> next, gap |-> cut]
    <3>1. b \in Byte /\ serial \in Seq(Byte)
      BY DEF RxTypeOK, Byte
    <3>2. serial' = Append(serial, b) /\ cut' = FALSE /\ b.gap = cut
      BY <1>1, <2>1 DEF Arrive
    <3>3. UNCHANGED <<data, loss, flag, count, spliced, packet>>
      BY <1>1, <2>1 DEF Arrive, buffer, reader
    <3> HIDE DEF b
    <3>4. /\ Len(serial) \in Nat
          /\ serial' \in Seq(Byte) /\ Len(serial') = Len(serial) + 1
          /\ \A i \in 1..Len(serial) : serial'[i] = serial[i]
          /\ serial'[Len(serial) + 1] = b
      BY <3>1, <3>2, AppendProperties, LenProperties
    <3>5. CASE serial = <<>>
      <4>1. Len(serial) = 0
        BY <3>5, EmptySeq
      <4>2. Len(serial') = 1 /\ serial'[1] = b
        BY <3>4, <4>1
      <4>3. serial' # <<>> /\ Head(serial') = b
        BY <3>4, <4>2, EmptySeq, HeadTailProperties
      <4>4. OnlyHead(serial')
        BY <4>2 DEF OnlyHead
      <4>5. QED
        BY <3>2, <3>3, <3>5, <4>3, <4>4 DEF GapInv, AfterGap, OnlyHead
    <3>6. CASE serial # <<>>
      <4>1. ~cut /\ Len(serial) > 0
        BY <2>1, <3>1, <3>4, <3>6, EmptySeq DEF GapInv
      <4>2. OnlyHead(serial')
        BY <3>2, <3>4, <4>1 DEF GapInv, OnlyHead
      <4>3. serial' # <<>> /\ Head(serial') = Head(serial)
        BY <3>1, <3>2, <3>4, <3>6, <4>1, AppendProperties, EmptySeq
      <4>4. QED
        BY <3>2, <3>3, <3>6, <4>2, <4>3 DEF GapInv, AfterGap, OnlyHead
    <3>7. QED
      BY <3>5, <3>6
  <2>2. CASE ~(Len(serial) < SerialCap)
    <3>1. /\ cut' /\ flag'
          /\ UNCHANGED <<serial, data, loss, count, spliced, packet>>
      BY <1>1, <2>2 DEF Arrive, buffer, reader
    <3>2. serial # <<>> /\ Len(serial) = SerialCap
      BY <2>2, EmptySeq, LenProperties DEF RxTypeOK
    <3>3. QED
      BY <3>1, <3>2 DEF GapInv, AfterGap, OnlyHead
  <2>3. QED
    BY <2>1, <2>2
<1>2. CASE Service
  <2>1. /\ serial' = <<>> /\ data' = Pumped
        /\ cut' = (cut \/ Overflows) /\ loss' = (loss \/ Overflows)
        /\ UNCHANGED <<count, spliced, packet>>
    BY <1>2 DEF Service, Pump, reader
  <2>2. OnlyHead(serial')
    BY <2>1, EmptySeq DEF OnlyHead
  <2>3. Overflows => Pumped = <<>>
    BY DEF Pumped
  <2>4. OnlyHead(data') /\ (AfterGap(data') => count = 0 \/ loss)
    BY <2>1, PumpKeepsGaps DEF OnlyHead, AfterGap
  <2>5. cut' => data' = <<>> /\ (count' = 0 \/ loss')
    BY <2>1, <2>3, PumpKeepsGaps
  <2>6. (spliced' => loss') /\ (packet' = "spliced" => loss')
    BY <2>1 DEF GapInv
  <2>7. QED
    BY <2>1, <2>2, <2>4, <2>5, <2>6 DEF GapInv, AfterGap
<1>3. CASE Begin
  <2> DEFINE lost == loss \/ Overflows
  <2>1. /\ serial' = <<>> /\ data' = Pumped
        /\ cut' = (cut \/ Overflows)
        /\ loss' = FALSE /\ packet' = "none"
    BY <1>3 DEF Begin, TakeLoss
  <2>2. IF lost THEN count' = 0 /\ ~spliced' ELSE UNCHANGED <<count, spliced>>
    BY <1>3 DEF Begin, TakeLoss, reader
  <2>3. OnlyHead(serial')
    BY <2>1, EmptySeq DEF OnlyHead
  <2>4. Overflows => Pumped = <<>>
    BY DEF Pumped
  <2>5. OnlyHead(data')
    BY <2>1, PumpKeepsGaps DEF OnlyHead
  <2>6. AfterGap(data') => count' = 0
    BY <2>1, <2>2, PumpKeepsGaps DEF AfterGap
  <2>7. cut' => data' = <<>> /\ count' = 0
    BY <2>1, <2>2, <2>4, PumpKeepsGaps
  <2>8. ~spliced'
    BY <2>2 DEF GapInv
  <2>9. QED
    BY <2>1, <2>3, <2>5, <2>6, <2>7, <2>8 DEF GapInv, AfterGap
<1>4. CASE Logged
  BY <1>4 DEF Logged, GapInv, OnlyHead, AfterGap, wire, buffer, reader
<1>5. CASE TakeByte
  <2> DEFINE b == Head(data)
  <2>1. /\ data # <<>> /\ data' = Tail(data)
        /\ UNCHANGED <<serial, flag, cut, loss>>
        /\ Scan(b) \/ Receive(b) \/ Complete(b)
    BY <1>5 DEF TakeByte, wire
  <2>2. /\ data' \in Seq(Byte) /\ Len(data') = Len(data) - 1
        /\ \A i \in 1..Len(data') : data'[i] = data[i + 1]
        /\ Len(data) \in Nat
    BY <2>1, HeadTailProperties, LenProperties DEF RxTypeOK
  <2>3. \A i \in 1..Len(data') : ~data'[i].gap
    BY <2>2 DEF GapInv, OnlyHead
  <2>4. OnlyHead(data') /\ ~AfterGap(data')
    BY <2>2, <2>3, EmptySeq, LenProperties DEF OnlyHead, AfterGap
  <2>5. ~AfterGap(serial) /\ ~(cut /\ serial = <<>>)
    BY <2>1 DEF GapInv
  <2>6. b.gap => count = 0 \/ loss
    BY <2>1 DEF GapInv, AfterGap
  <2>7. mode = "RECEIVING" => count # 0
    BY DEF CountInv, RxTypeOK
  <2> HIDE DEF b
  <2>8. (spliced' => loss) /\ (packet' = "spliced" => loss)
    <3>1. CASE Scan(b)
      <4>1. spliced' => count' > 1 /\ (spliced \/ b.gap)
        BY <3>1 DEF Scan
      <4>2. count' \in {count + 1, 0, 1}
        BY <3>1 DEF Scan
      <4>3. count' > 1 => count # 0
        BY <4>2
      <4>4. spliced' => loss
        BY <2>6, <4>1, <4>3 DEF GapInv
      <4>5. QED
        BY <3>1, <4>4 DEF Scan, GapInv
    <3>2. CASE Receive(b)
      <4>1. b.gap => loss
        BY <2>6, <2>7, <3>2 DEF Receive
      <4>2. (spliced' => spliced \/ b.gap) /\ UNCHANGED packet
        BY <3>2 DEF Receive
      <4>3. QED
        BY <2>1, <4>1, <4>2 DEF GapInv
    <3>3. CASE Complete(b)
      <4>1. b.gap => loss
        BY <2>6, <2>7, <3>3 DEF Complete
      <4>2. ~spliced' /\ (packet' = "spliced" => spliced \/ b.gap)
        BY <3>3 DEF Complete
      <4>3. QED
        BY <2>1, <4>1, <4>2 DEF GapInv
    <3>4. QED
      BY <2>1, <3>1, <3>2, <3>3
  <2>9. QED
    BY <2>1, <2>4, <2>5, <2>8 DEF GapInv, AfterGap, OnlyHead
<1>6. CASE PassEnds
  BY <1>6 DEF PassEnds, GapInv, OnlyHead, AfterGap, wire, buffer, reader
<1>7. CASE UNCHANGED rxVars
  BY <1>7 DEF rxVars, GapInv, OnlyHead, AfterGap, wire, buffer, reader
<1>8. QED
  BY <1>1, <1>2, <1>3, <1>4, <1>5, <1>6, <1>7 DEF RxNext, ReceivePass

LEMMA GapsKept == RxSpec => []GapInv
<1>1. RxInit => GapInv
  BY EmptySeq DEF RxInit, GapInv, OnlyHead, AfterGap
<1>2. RxTypeOK /\ CountInv /\ GapInv /\ [RxNext]_rxVars => GapInv'
  BY GapStep
<1>3. QED
  BY <1>1, <1>2, RxTypeCorrect, PTL DEF RxSpec

\* No loss is overlooked: bytes from both sides of one are never neighbours in
\* the buffer, and a reader in the middle of a packet is to be told of a gap
\* before it reads on behind it.
THEOREM GapsFlagged == RxSpec => []GapFlagged
<1>1. GapInv => GapFlagged
  BY DEF GapInv, GapFlagged, OnlyHead, AfterGap
<1>2. QED
  BY <1>1, GapsKept, PTL

\* A packet joined from both sides of a loss is handed on only while the loss
\* waits to be taken by the next pass.
THEOREM SplicesNoticed == RxSpec => []SpliceNoticed
<1>1. GapInv => SpliceNoticed
  BY DEF GapInv, SpliceNoticed
<1>2. QED
  BY <1>1, GapsKept, PTL
=============================================================================
