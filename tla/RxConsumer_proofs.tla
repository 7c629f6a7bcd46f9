-------------------------- MODULE RxConsumer_proofs --------------------------
(***************************************************************************)
(* Proofs about the receivers for every size of the rings, the queue and   *)
(* the batches.  What the UDP fallback and the frame ring promise needs a  *)
(* relation between the sizes, stated in the theorems.                     *)
(***************************************************************************)
EXTENDS RxConsumer, SequenceTheorems, FiniteSetTheorems, TLAPS

BuffersOf(m) ==
    IF m = "af_xdp" THEN UmemFrames ELSE IF m = "packet_mmap" THEN Frames ELSE IF m = "udp" THEN UdpRows ELSE {}
Packets == [buf : BuffersOf(mode), id : Nat]

\* The packets between receiver and parser, the oldest first.
Line == batch \o queue

HandoffType ==
    /\ mode \in Modes \cup {NoReceiver}
    /\ content \in [BuffersOf(mode) -> Nat]
    /\ queue \in Seq(Packets) /\ Len(queue) <= QueueCap
    /\ batch \in Seq(Packets) /\ Len(batch) <= BatchMax
    /\ w_pc \in {"poll", "parse", "release"} /\ (w_pc = "poll" <=> batch = <<>>)
    /\ parsed \in Seq(Nat)
    /\ arrived \in 0..MaxPackets /\ foreign \in 0..ForeignMax
    /\ status \in [Frames -> {"KERNEL", "USER"}]
    /\ k_idx \in Frames /\ frame_idx \in Frames /\ udp_slot \in UdpRows
    /\ c_pc \in {"poll", "push"}

\* Before the factory's choice nothing has happened.
NothingYet ==
    mode = NoReceiver =>
        /\ queue = <<>> /\ batch = <<>> /\ parsed = <<>> /\ c_pc = "poll"
        /\ status = [f \in Frames |-> "KERNEL"] /\ k_idx = 0 /\ frame_idx = 0 /\ udp_slot = 0
        /\ rx = <<>>

----------------------------------------------------------------------------
(* AF_XDP: the frames circulate, and only this receiver has descriptors.   *)

XdpInv ==
    /\ fill \in Seq(UmemFrames) /\ rx \in Seq(UmemFrames) /\ peeked \in Seq(UmemFrames)
    /\ rx_done \in Nat
    /\ mode # "af_xdp" => peeked = <<>>
    /\ FramesConserved

\* What holds on every receiver.
BaseInv == HandoffType /\ NothingYet /\ XdpInv

----------------------------------------------------------------------------
(* The UDP fallback: the queued packets are in the rows just before the    *)
(* one to be written next, in order.                                       *)

\* Steps from row r forward to row s.
RowsTo(r, s) == IF r <= s THEN s - r ELSE s - r + UdpSlots

UdpInv ==
    mode = "udp" =>
        \A i \in 1..Len(queue) :
            /\ RowsTo(queue[i].buf, udp_slot) = Len(queue) - i + 1
            /\ content[queue[i].buf] = queue[i].id

\* The rows of udp_ring are one more than the places of the queue, or more.
RowToSpare == UdpSlots > QueueCap

----------------------------------------------------------------------------
(* The frame ring, seen from frame_idx: first come the frames the kernel   *)
(* has filled and the receiver has not looked at, then free frames and the *)
(* frames of the line, these in the order of the line.                     *)

\* Steps from frame_idx forward to frame f.
At(f) == IF frame_idx <= f THEN f - frame_idx ELSE f - frame_idx + FrameNr

\* How many frames are filled and not looked at.
Ahead == IF k_idx # frame_idx THEN At(k_idx)
         ELSE IF status[k_idx] = "USER" THEN FrameNr ELSE 0

Pending(f) == f \in Frames /\ At(f) < Ahead
PendingForeign == {f \in Frames : Pending(f) /\ content[f] = Blank}
InLine(f) == \E i \in 1..Len(Line) : Line[i].buf = f

\* tp_status is truthful.
RingStatus ==
    \A f \in Frames : status[f] = "USER" <=> Pending(f) \/ InLine(f)

\* The frames of the line lie behind the pending ones, in the order of the
\* line, and are apart by no more than the foreign frames seen so far: this is
\* what keeps the receiver from meeting a delegated frame again.
RingPlaces ==
    /\ \A i \in 1..Len(Line) : Line[i].buf \in Frames /\ Ahead <= At(Line[i].buf)
    /\ \A i, j \in 1..Len(Line) : i < j => At(Line[i].buf) < At(Line[j].buf)
    /\ Cardinality(PendingForeign) <= foreign
    /\ \A i \in 1..Len(Line) :
          FrameNr - At(Line[i].buf) + Cardinality(PendingForeign) <= Len(Line) - i + 1 + foreign

\* The datagrams parsed, in the line and pending are in arrival order.
RingOrder ==
    /\ \A f \in Frames : Pending(f) => content[f] <= arrived
    /\ \A f, g \in Frames : Pending(f) /\ Pending(g) /\ At(f) < At(g) /\ content[f] # Blank /\ content[g] # Blank
          => content[f] < content[g]
    /\ \A i \in 1..Len(Line) : content[Line[i].buf] = Line[i].id /\ Line[i].id \in 1..arrived
    /\ \A i, j \in 1..Len(Line) : i < j => Line[i].id < Line[j].id
    /\ \A i \in 1..Len(Line), f \in Frames : Pending(f) /\ content[f] # Blank => Line[i].id < content[f]

ParsedOrder ==
    /\ \A i \in 1..Len(parsed) : parsed[i] \in 1..arrived
    /\ \A i, j \in 1..Len(parsed) : i < j => parsed[i] < parsed[j]
    /\ \A i \in 1..Len(parsed), j \in 1..Len(Line) : j > 1 \/ w_pc # "release" => parsed[i] < Line[j].id
    /\ \A i \in 1..Len(parsed), f \in Frames : Pending(f) /\ content[f] # Blank => parsed[i] < content[f]

RingPush == c_pc = "push" => status[frame_idx] = "USER" /\ content[frame_idx] # Blank

RingState == RingStatus /\ RingPlaces /\ RingOrder /\ ParsedOrder /\ RingPush
RingInv == mode = "packet_mmap" => RingState

\* The ring is larger than what queue and batch hold and foreign traffic can be.
RingToSpare == FrameNr > QueueCap + BatchMax + ForeignMax
----------------------------------------------------------------------------
USE HandoffAssumption, RxRingAssumption, AfXdpAssumption

\* The elements of a sequence, and of its parts.
LEMMA ToSetElements ==
    ASSUME NEW S, NEW p \in Seq(S)
    PROVE  ToSet(p) = {p[i] : i \in 1..Len(p)}
<1>1. DOMAIN p = 1..Len(p)
  OBVIOUS
<1> QED BY <1>1, Zenon DEF ToSet

\* The elements of a concatenation.
LEMMA ToSetConcat ==
    ASSUME NEW S, NEW p \in Seq(S), NEW q \in Seq(S)
    PROVE  ToSet(p \o q) = ToSet(p) \cup ToSet(q)
<1>1. ToSet(p) = Range(p) /\ ToSet(q) = Range(q) /\ ToSet(p \o q) = Range(p \o q)
  BY Zenon DEF ToSet, Range
<1> QED BY <1>1, RangeConcatenation

\* The first element and the others.
LEMMA ToSetHeadTail ==
    ASSUME NEW S, NEW p \in Seq(S), p # <<>>
    PROVE  Head(p) \in S /\ Tail(p) \in Seq(S) /\ ToSet(p) = {Head(p)} \cup ToSet(Tail(p))
<1>1. /\ Head(p) \in S /\ Tail(p) \in Seq(S) /\ Len(Tail(p)) = Len(p) - 1 /\ Len(p) \in Nat /\ Len(p) >= 1
      /\ \A i \in 1..Len(Tail(p)) : Tail(p)[i] = p[i + 1]
  OBVIOUS
<1>2. Head(p) = p[1]
  OBVIOUS
<1>3. ToSet(p) = {p[i] : i \in 1..Len(p)} /\ ToSet(Tail(p)) = {Tail(p)[i] : i \in 1..Len(Tail(p))}
  BY <1>1, ToSetElements
<1>4. ASSUME NEW x \in ToSet(p) PROVE x \in {Head(p)} \cup ToSet(Tail(p))
  <2>1. PICK i \in 1..Len(p) : x = p[i]
    BY <1>3
  <2>2. CASE i = 1
    BY <1>2, <2>1, <2>2
  <2>3. CASE i # 1
    <3>1. i - 1 \in 1..Len(Tail(p)) /\ Tail(p)[i - 1] = p[i]
      BY <1>1, <2>3
    <3> QED BY <1>3, <2>1, <3>1
  <2> QED BY <2>2, <2>3
<1>5. ASSUME NEW x \in {Head(p)} \cup ToSet(Tail(p)) PROVE x \in ToSet(p)
  <2>1. CASE x = Head(p)
    BY <1>1, <1>2, <1>3, <2>1
  <2>2. CASE x \in ToSet(Tail(p))
    <3>1. PICK i \in 1..Len(Tail(p)) : x = Tail(p)[i]
      BY <1>3, <2>2
    <3>2. i + 1 \in 1..Len(p) /\ x = p[i + 1]
      BY <1>1, <3>1
    <3> QED BY <1>3, <3>2
  <2> QED BY <2>1, <2>2
<1> QED BY <1>1, <1>4, <1>5

\* One element more.
LEMMA ToSetAppend ==
    ASSUME NEW S, NEW p \in Seq(S), NEW e \in S
    PROVE  ToSet(Append(p, e)) = ToSet(p) \cup {e}
BY SMTT(30) DEF ToSet

\* A prefix and the rest.
LEMMA ToSetSplit ==
    ASSUME NEW S, NEW p \in Seq(S), NEW n \in 0..Len(p)
    PROVE  /\ SubSeq(p, 1, n) \in Seq(S) /\ SubSeq(p, n + 1, Len(p)) \in Seq(S)
           /\ Len(SubSeq(p, 1, n)) = n /\ Len(SubSeq(p, n + 1, Len(p))) = Len(p) - n
           /\ ToSet(p) = ToSet(SubSeq(p, 1, n)) \cup ToSet(SubSeq(p, n + 1, Len(p)))
           /\ SubSeq(p, 1, n) \o SubSeq(p, n + 1, Len(p)) = p
<1>1. Len(p) \in Nat /\ \A i \in 1..Len(p) : p[i] \in S
  OBVIOUS
<1>2. /\ SubSeq(p, 1, n) \in Seq(S) /\ SubSeq(p, n + 1, Len(p)) \in Seq(S)
      /\ Len(SubSeq(p, 1, n)) = n /\ Len(SubSeq(p, n + 1, Len(p))) = Len(p) - n
  BY <1>1, SubSeqProperties
<1>3. SubSeq(p, 1, n) \o SubSeq(p, n + 1, Len(p)) = SubSeq(p, 1, Len(p))
  <2>1. 1 \in 1..Len(p) + 1 /\ n \in (1 - 1)..Len(p) /\ Len(p) \in n..Len(p)
    BY <1>1
  <2> QED BY <2>1, ConcatAdjacentSubSeq
<1>4. SubSeq(p, 1, Len(p)) = p
  BY SubSeqFull
<1>5. ToSet(SubSeq(p, 1, n) \o SubSeq(p, n + 1, Len(p))) = ToSet(SubSeq(p, 1, n)) \cup ToSet(SubSeq(p, n + 1, Len(p)))
  <2> DEFINE a == SubSeq(p, 1, n)
             b == SubSeq(p, n + 1, Len(p))
  <2>1. a \in Seq(S) /\ b \in Seq(S)
    BY <1>2
  <2> HIDE DEF a, b
  <2>2. ToSet(a \o b) = ToSet(a) \cup ToSet(b)
    BY <2>1, ToSetConcat
  <2> QED BY <2>2 DEF a, b
<1> QED BY <1>2, <1>3, <1>4, <1>5

----------------------------------------------------------------------------
(* The frames of AF_XDP.                                                   *)

\* Length and elements of the three places together.
LEMMA Circulation ==
    ASSUME NEW f \in Seq(UmemFrames), NEW r \in Seq(UmemFrames), NEW p \in Seq(UmemFrames)
    PROVE  /\ Len(f \o r \o p) = Len(f) + Len(r) + Len(p)
           /\ ToSet(f \o r \o p) = ToSet(f) \cup ToSet(r) \cup ToSet(p)
<1>1. f \o r \in Seq(UmemFrames) /\ Len(f \o r) = Len(f) + Len(r)
  BY ConcatProperties
<1>2. ToSet(f \o r) = ToSet(f) \cup ToSet(r)
  BY ToSetConcat
<1> DEFINE g == f \o r
<1> HIDE DEF g
<1>3. g \in Seq(UmemFrames) /\ Len(g \o p) = Len(g) + Len(p) /\ ToSet(g \o p) = ToSet(g) \cup ToSet(p)
  BY <1>1, ConcatProperties, ToSetConcat, ZenonT(30) DEF g
<1> QED BY <1>1, <1>2, <1>3 DEF g

\* The frames are conserved when their number and their set are.
LEMMA MovedFrames ==
    ASSUME XdpInv, mode' = "af_xdp", mode = "af_xdp",
           fill' \in Seq(UmemFrames), rx' \in Seq(UmemFrames), peeked' \in Seq(UmemFrames), rx_done' \in Nat,
           Len(fill') + Len(rx') + Len(peeked') = Len(fill) + Len(rx) + Len(peeked),
           ToSet(fill') \cup ToSet(rx') \cup ToSet(peeked') = ToSet(fill) \cup ToSet(rx) \cup ToSet(peeked)
    PROVE  XdpInv'
<1>1. Len(fill \o rx \o peeked) = NumFrames /\ ToSet(fill \o rx \o peeked) = UmemFrames
  BY DEF XdpInv, FramesConserved
<1>2. /\ Len(fill \o rx \o peeked) = Len(fill) + Len(rx) + Len(peeked)
      /\ ToSet(fill \o rx \o peeked) = ToSet(fill) \cup ToSet(rx) \cup ToSet(peeked)
  BY Circulation DEF XdpInv
<1>3. /\ Len(fill' \o rx' \o peeked') = Len(fill') + Len(rx') + Len(peeked')
      /\ ToSet(fill' \o rx' \o peeked') = ToSet(fill') \cup ToSet(rx') \cup ToSet(peeked')
  BY Circulation
<1>4. Len(fill' \o rx' \o peeked') = NumFrames /\ ToSet(fill' \o rx' \o peeked') = UmemFrames
  BY <1>1, <1>2, <1>3
<1>5. FramesConserved'
  BY <1>4 DEF FramesConserved, ToSet
<1> QED BY <1>5 DEF XdpInv

\* init() puts every frame on the fill ring.
LEMMA AllFramesSubmitted ==
    ASSUME rx = <<>>, peeked = <<>>, rx_done \in Nat, InitUmem
    PROVE  XdpInv'
<1> DEFINE all == [k \in 1..NumFrames |-> k - 1]
<1>1. fill' = all /\ rx' = <<>> /\ peeked' = <<>> /\ rx_done' = rx_done /\ mode' = "af_xdp"
  BY DEF InitUmem, Install
<1>2. all \in Seq(UmemFrames) /\ Len(all) = NumFrames /\ <<>> \in Seq(UmemFrames)
  <2>1. all \in [1..NumFrames -> UmemFrames]
    BY DEF UmemFrames
  <2> QED BY <2>1
<1>3. ToSet(all) = UmemFrames
  <2>1. ToSet(all) = {all[i] : i \in 1..NumFrames}
    BY <1>2, ToSetElements
  <2>2. ASSUME NEW x \in UmemFrames PROVE x \in ToSet(all)
    <3>1. x + 1 \in 1..NumFrames /\ all[x + 1] = x
      BY DEF UmemFrames
    <3> HIDE DEF all
    <3> QED BY <2>1, <3>1
  <2>3. ASSUME NEW x \in ToSet(all) PROVE x \in UmemFrames
    BY <2>1 DEF UmemFrames
  <2> QED BY <2>2, <2>3
<1> HIDE DEF all
<1>4. ToSet(<<>>) = {}
  BY DEF ToSet
<1>5. Len(all \o <<>> \o <<>>) = NumFrames /\ ToSet(all \o <<>> \o <<>>) = UmemFrames
  BY <1>2, <1>3, <1>4, Circulation
<1>6. FramesConserved'
  BY <1>1, <1>5 DEF FramesConserved, ToSet
<1> QED BY <1>1, <1>2, <1>6 DEF XdpInv

\* The kernel moves the first frame of the fill ring to the RX ring.
LEMMA KernelMovesFrame ==
    ASSUME XdpInv, mode = "af_xdp", mode' = mode, UNCHANGED <<peeked, rx_done>>, NEW what, KernelRx(what)
    PROVE  XdpInv'
<1>1. CASE fill = <<>>
  BY <1>1, MovedFrames DEF KernelRx, XdpInv
<1>2. CASE fill # <<>>
  <2>0. fill \in Seq(UmemFrames) /\ rx \in Seq(UmemFrames)
    BY DEF XdpInv
  <2>1. rx' = Append(rx, Head(fill)) /\ fill' = Tail(fill)
    BY <1>2 DEF KernelRx
  <2>2. Head(fill) \in UmemFrames /\ fill' \in Seq(UmemFrames) /\ ToSet(fill) = {Head(fill)} \cup ToSet(fill')
    BY <1>2, <2>0, <2>1, ToSetHeadTail
  <2>3. ToSet(rx') = ToSet(rx) \cup {Head(fill)} /\ rx' \in Seq(UmemFrames)
    BY <2>0, <2>1, <2>2, ToSetAppend
  <2>4. Len(rx') = Len(rx) + 1 /\ Len(fill') = Len(fill) - 1 /\ Len(fill) \in Nat /\ Len(rx) \in Nat /\ Len(peeked) \in Nat
    BY <1>2, <2>0, <2>1, <2>2 DEF XdpInv
  <2> QED BY <2>2, <2>3, <2>4, MovedFrames DEF XdpInv
<1> QED BY <1>1, <1>2

\* One round of the receiver moves frames from the RX ring to its descriptors
\* and from there to the fill ring.
LEMMA RoundMovesFrames ==
    ASSUME HandoffType, XdpInv, XdpReceiver
    PROVE  XdpInv' /\ mode = "af_xdp" /\ mode' = mode
<1>0. /\ fill \in Seq(UmemFrames) /\ rx \in Seq(UmemFrames) /\ peeked \in Seq(UmemFrames) /\ rx_done \in Nat
      /\ mode # "af_xdp" => peeked = <<>>
      /\ Len(fill) \in Nat /\ Len(rx) \in Nat /\ Len(peeked) \in Nat
  BY DEF XdpInv
<1>1. ASSUME NEW n \in 1..RxBatch, Peek(n) PROVE XdpInv' /\ mode = "af_xdp" /\ mode' = mode
  <2>1. /\ mode = "af_xdp" /\ mode' = mode /\ peeked = <<>> /\ n \in 0..Len(rx)
        /\ peeked' = SubSeq(rx, 1, n) /\ rx' = SubSeq(rx, n + 1, Len(rx)) /\ rx_done' = 0 /\ fill' = fill
    BY <1>0, <1>1 DEF Peek
  <2>2. /\ peeked' \in Seq(UmemFrames) /\ rx' \in Seq(UmemFrames)
        /\ Len(peeked') = n /\ Len(rx') = Len(rx) - n
        /\ ToSet(rx) = ToSet(peeked') \cup ToSet(rx')
    BY <1>0, <2>1, ToSetSplit
  <2>3. ToSet(peeked) = {} /\ Len(peeked) = 0
    BY <2>1 DEF ToSet
  <2>4. Len(fill') + Len(rx') + Len(peeked') = Len(fill) + Len(rx) + Len(peeked)
    BY <1>0, <2>1, <2>2, <2>3, SMTT(30)
  <2> QED BY <1>0, <2>1, <2>2, <2>3, <2>4, MovedFrames
<1>2. CASE PeekNothing
  BY <1>2 DEF PeekNothing, XdpInv, FramesConserved, xdpVars
<1>3. CASE PushFrame \/ SkipFrame
  <2>1. mode' = mode /\ UNCHANGED <<fill, rx, peeked>> /\ rx_done' \in Nat /\ rx_done < Len(peeked)
    BY <1>0, <1>3 DEF PushFrame, SkipFrame
  <2>2. mode = "af_xdp"
    BY <1>0, <2>1
  <2> QED BY <2>1, <2>2 DEF XdpInv, FramesConserved
<1>4. CASE Submit
  <2>1. /\ mode' = mode /\ peeked # <<>> /\ fill' = fill \o peeked /\ peeked' = <<>> /\ rx_done' = 0 /\ rx' = rx
    BY <1>4 DEF Submit
  <2>2. mode = "af_xdp"
    BY <1>0, <2>1
  <2>3. fill' \in Seq(UmemFrames) /\ Len(fill') = Len(fill) + Len(peeked) /\ ToSet(fill') = ToSet(fill) \cup ToSet(peeked)
    BY <1>0, <2>1, ConcatProperties, ToSetConcat
  <2>4. ToSet(peeked') = {} /\ Len(peeked') = 0 /\ peeked' \in Seq(UmemFrames)
    BY <2>1 DEF ToSet
  <2>5. Len(fill') + Len(rx') + Len(peeked') = Len(fill) + Len(rx) + Len(peeked)
    BY <1>0, <2>1, <2>3, <2>4
  <2> QED BY <1>0, <2>1, <2>2, <2>3, <2>4, <2>5, MovedFrames
<1> QED BY <1>1, <1>2, <1>3, <1>4 DEF XdpReceiver

----------------------------------------------------------------------------
(* The types, on every receiver.                                           *)

\* The empty hand-off with a receiver just set up.
LEMMA InstallType ==
    ASSUME BaseInv, mode = NoReceiver, NEW m \in Modes, Install(m, BuffersOf(m)), UNCHANGED ringVars
    PROVE  HandoffType' /\ NothingYet'
<1>1. /\ mode' = m /\ content' = [b \in BuffersOf(m) |-> Blank]
      /\ UNCHANGED <<queue, batch, w_pc, parsed, arrived, foreign, status, k_idx, frame_idx, udp_slot, c_pc>>
  BY DEF Install, workerVars, trafficVars, ringVars
<1>2. mode' \in Modes \cup {NoReceiver} /\ mode' # NoReceiver
  BY <1>1 DEF Modes, NoReceiver
<1>3. content' \in [BuffersOf(mode') -> Nat]
  BY <1>1 DEF Blank
<1>4. queue' = <<>> /\ batch' = <<>> /\ queue' \in Seq(Packets') /\ batch' \in Seq(Packets')
  BY <1>1 DEF BaseInv, NothingYet
<1> QED BY <1>1, <1>2, <1>3, <1>4 DEF HandoffType, NothingYet, BaseInv

\* While the receiver stays the same, so do the types of packets.
LEMMA SameReceiver ==
    ASSUME mode' = mode
    PROVE  Packets' = Packets /\ BuffersOf(mode') = BuffersOf(mode)
BY DEF Packets

\* A packet for a buffer of the receiver may be queued.
LEMMA PushType ==
    ASSUME HandoffType, NEW b \in BuffersOf(mode), ~QueueFull, queue' = Append(queue, Packet(b))
    PROVE  /\ Packet(b) \in Packets /\ Packet(b).buf = b /\ Packet(b).id = content[b]
           /\ queue' \in Seq(Packets) /\ Len(queue') = Len(queue) + 1 /\ Len(queue') <= QueueCap
<1>1. Packet(b) \in Packets /\ Packet(b).buf = b /\ Packet(b).id = content[b]
  BY DEF HandoffType, Packet, Packets
<1>2. queue \in Seq(Packets) /\ Len(queue) \in Nat /\ Len(queue) < QueueCap
  BY DEF HandoffType, QueueFull
<1> QED BY <1>1, <1>2, AppendProperties

\* The next frame and the next row are ones.
LEMMA NextInRing ==
    /\ \A f \in Frames : NextFrame(f) \in Frames
    /\ \A r \in UdpRows : NextRow(r) = IF r + 1 = UdpSlots THEN 0 ELSE r + 1
    /\ \A r \in UdpRows : NextRow(r) \in UdpRows
<1>1. \A f \in Frames : NextFrame(f) \in Frames
  BY DEF Frames, NextFrame
<1>2. ASSUME NEW r \in UdpRows PROVE NextRow(r) = (IF r + 1 = UdpSlots THEN 0 ELSE r + 1) /\ NextRow(r) \in UdpRows
  BY DEF UdpRows, NextRow
<1> QED BY <1>1, <1>2

\* The kernel, on the frame ring ...
LEMMA RingKernelType ==
    ASSUME HandoffType, RingDatagram \/ RingForeign
    PROVE  HandoffType' /\ mode = "packet_mmap" /\ mode' = mode
<1>1. PICK what \in Nat : Fill(what)
  BY DEF RingDatagram, RingForeign, HandoffType, Blank
<1>2. /\ mode = "packet_mmap" /\ mode' = mode /\ arrived' \in 0..MaxPackets /\ foreign' \in 0..ForeignMax
      /\ UNCHANGED <<queue, batch, w_pc, parsed, frame_idx, udp_slot, c_pc>>
  BY DEF RingDatagram, RingForeign, HandoffType, workerVars
<1>3. content' \in [BuffersOf(mode) -> Nat] /\ status' \in [Frames -> {"KERNEL", "USER"}] /\ k_idx' \in Frames
  BY <1>1, <1>2, NextInRing, ZenonT(30) DEF Fill, HandoffType, BuffersOf
<1> QED BY <1>2, <1>3, SameReceiver DEF HandoffType

\* ... and on the UMEM.
LEMMA XdpKernelType ==
    ASSUME HandoffType, XdpDatagram \/ XdpForeign, UNCHANGED ringVars
    PROVE  HandoffType' /\ mode = "af_xdp" /\ mode' = mode
<1>1. PICK what \in Nat : KernelRx(what)
  BY DEF XdpDatagram, XdpForeign, HandoffType, Blank
<1>2. /\ mode = "af_xdp" /\ mode' = mode /\ arrived' \in 0..MaxPackets /\ foreign' \in 0..ForeignMax
      /\ UNCHANGED <<queue, batch, w_pc, parsed>>
  BY DEF XdpDatagram, XdpForeign, HandoffType, workerVars
<1>3. content' \in [BuffersOf(mode) -> Nat]
  BY <1>1, <1>2 DEF KernelRx, HandoffType, BuffersOf
<1> QED BY <1>2, <1>3, SameReceiver DEF HandoffType, ringVars

\* The receiver thread of the frame ring and of the fallback socket.
LEMMA RingReceiverType ==
    ASSUME HandoffType, RingReceiver
    PROVE  HandoffType' /\ mode \in {"packet_mmap", "udp"} /\ mode' = mode
<1> USE DEF workerVars, trafficVars, ringVars
<1>1. CASE PollEmpty \/ RecvNothing
  BY <1>1, SameReceiver DEF PollEmpty, RecvNothing, HandoffType
<1>2. CASE PollForeign \/ PollMatch
  <2>1. /\ mode = "packet_mmap" /\ status' \in [Frames -> {"KERNEL", "USER"}] /\ frame_idx' \in Frames
        /\ c_pc' \in {"poll", "push"} /\ UNCHANGED <<mode, content, workerVars, trafficVars, k_idx, udp_slot>>
    BY <1>2, NextInRing DEF PollForeign, PollMatch, HandoffType
  <2> QED BY <2>1, SameReceiver DEF HandoffType
<1>3. CASE Push
  <2>1. /\ mode = "packet_mmap" /\ mode' = mode /\ ~QueueFull /\ queue' = Append(queue, Packet(frame_idx))
        /\ frame_idx' \in Frames /\ c_pc' = "poll"
        /\ UNCHANGED <<content, batch, w_pc, parsed, trafficVars, status, k_idx, udp_slot>>
    BY <1>3, NextInRing DEF Push, HandoffType
  <2>2. queue' \in Seq(Packets) /\ Len(queue') <= QueueCap
    BY <2>1, PushType DEF BuffersOf, HandoffType
  <2> QED BY <2>1, <2>2, SameReceiver DEF HandoffType
<1>4. CASE Recv
  <2>1. /\ mode = "udp" /\ mode' = mode /\ arrived' \in 0..MaxPackets /\ content' \in [BuffersOf(mode) -> Nat] /\ c_pc' = "push"
        /\ UNCHANGED <<workerVars, foreign, status, k_idx, frame_idx, udp_slot>>
    BY <1>4 DEF Recv, HandoffType, BuffersOf
  <2> QED BY <2>1, SameReceiver DEF HandoffType
<1>5. CASE PushRow
  <2>1. /\ mode = "udp" /\ mode' = mode /\ ~QueueFull /\ queue' = Append(queue, Packet(udp_slot))
        /\ udp_slot' \in UdpRows /\ c_pc' = "poll"
        /\ UNCHANGED <<content, batch, w_pc, parsed, trafficVars, status, k_idx, frame_idx>>
    BY <1>5, NextInRing DEF PushRow, HandoffType
  <2>2. queue' \in Seq(Packets) /\ Len(queue') <= QueueCap
    BY <2>1, PushType DEF BuffersOf, HandoffType
  <2> QED BY <2>1, <2>2, SameReceiver DEF HandoffType
<1> QED BY <1>1, <1>2, <1>3, <1>4, <1>5 DEF RingReceiver

\* The receiver thread of AF_XDP.
LEMMA XdpReceiverType ==
    ASSUME HandoffType, XdpInv, XdpReceiver, UNCHANGED ringVars
    PROVE  HandoffType'
<1> USE DEF workerVars, trafficVars, ringVars
<1>0. mode = "af_xdp" /\ mode' = mode
  BY RoundMovesFrames
<1>1. CASE PushFrame
  <2>1. /\ ~QueueFull /\ queue' = Append(queue, Packet(peeked[rx_done + 1])) /\ rx_done < Len(peeked)
        /\ UNCHANGED <<content, batch, w_pc, parsed, trafficVars>>
    BY <1>1 DEF PushFrame
  <2>2. peeked[rx_done + 1] \in UmemFrames
    BY <2>1, ElementOfSeq DEF XdpInv
  <2>3. queue' \in Seq(Packets) /\ Len(queue') <= QueueCap
    BY <1>0, <2>1, <2>2, PushType DEF BuffersOf
  <2> QED BY <1>0, <2>1, <2>3, SameReceiver DEF HandoffType
<1>2. CASE UNCHANGED <<content, workerVars, trafficVars>>
  BY <1>0, <1>2, SameReceiver DEF HandoffType
<1> QED BY <1>1, <1>2 DEF XdpReceiver, Peek, PeekNothing, SkipFrame, Submit

----------------------------------------------------------------------------
(* The worker, and what every step does to the line.                       *)

\* The line is a sequence of packets, and begins with the batch.
LEMMA LineType ==
    ASSUME HandoffType
    PROVE  /\ Line \in Seq(Packets) /\ Len(Line) = Len(batch) + Len(queue) /\ Len(Line) \in Nat
           /\ Len(Line) <= QueueCap + BatchMax
           /\ \A i \in 1..Len(Line) : Line[i] \in Packets
           /\ ToSet(Line) = InFlight
           /\ w_pc # "poll" => Line # <<>> /\ Len(Line) >= 1 /\ Line[1] = Head(batch)
<1>1. queue \in Seq(Packets) /\ batch \in Seq(Packets) /\ Len(queue) \in Nat /\ Len(batch) \in Nat
  BY DEF HandoffType
<1>2. Line \in Seq(Packets) /\ Len(Line) = Len(batch) + Len(queue)
  BY <1>1, ConcatProperties DEF Line
<1>3. ToSet(Line) = InFlight
  BY <1>1, ToSetConcat DEF Line, InFlight
<1>4. \A i \in 1..Len(Line) : Line[i] \in Packets
  BY <1>2, ElementOfSeq
<1>5. ASSUME w_pc # "poll" PROVE Line # <<>> /\ Len(Line) >= 1 /\ Line[1] = Head(batch)
  <2>1. batch # <<>> /\ Len(batch) >= 1 /\ Head(batch) = batch[1]
    BY <1>1, <1>5 DEF HandoffType
  <2>2. 1 \in 1..Len(batch) + Len(queue) /\ 1 <= Len(batch)
    BY <1>1, <2>1
  <2>3. Line[1] = batch[1]
    BY <1>1, <2>2, ConcatProperties DEF Line
  <2> QED BY <1>1, <1>2, <2>1, <2>3
<1> QED BY <1>1, <1>2, <1>3, <1>4, <1>5 DEF HandoffType

\* A packet joins the line at its end when it is queued.
LEMMA LineGrows ==
    ASSUME HandoffType, NEW p \in Packets, queue' = Append(queue, p), batch' = batch
    PROVE  /\ Len(Line') = Len(Line) + 1 /\ Line'[Len(Line) + 1] = p
           /\ \A i \in 1..Len(Line) : Line'[i] = Line[i]
<1>1. queue \in Seq(Packets) /\ batch \in Seq(Packets)
  BY DEF HandoffType
<1>2. Line' = Append(Line, p)
  BY <1>1 DEF Line
<1> QED BY <1>2, LineType, AppendProperties

\* pop_batch moves the boundary between batch and queue, not the line.
LEMMA LinePopped ==
    ASSUME HandoffType, NEW n \in 1..BatchMax, WorkerPop(n), UNCHANGED ringVars
    PROVE  /\ HandoffType' /\ Line' = Line /\ w_pc' = "parse"
           /\ Len(queue') = Len(queue) - n /\ \A i \in 1..Len(queue') : queue'[i] = queue[i + n]
<1>1. queue \in Seq(Packets) /\ batch = <<>> /\ Len(queue) \in Nat /\ n \in 0..Len(queue)
  BY DEF HandoffType, WorkerPop
<1>2. /\ batch' = SubSeq(queue, 1, n) /\ queue' = SubSeq(queue, n + 1, Len(queue)) /\ w_pc' = "parse"
      /\ UNCHANGED <<mode, content, parsed, trafficVars>>
  BY DEF WorkerPop
<1>3. /\ batch' \in Seq(Packets) /\ queue' \in Seq(Packets) /\ Len(batch') = n /\ Len(queue') = Len(queue) - n
      /\ batch' \o queue' = queue
  BY <1>1, <1>2, ToSetSplit
<1>4. Line' = queue /\ Line = queue
  <2>1. <<>> \o queue = queue
    BY <1>1, ConcatEmptySeq
  <2> QED BY <1>1, <1>3, <2>1 DEF Line
<1>5. \A i \in 1..Len(queue') : queue'[i] = queue[i + n]
  <2>1. \A i \in (n + 1)..Len(queue) : queue[i] \in Packets
    BY <1>1, ElementOfSeq
  <2>2. \A i \in 1..(Len(queue) - (n + 1) + 1) : SubSeq(queue, n + 1, Len(queue))[i] = queue[(n + 1) + i - 1]
    BY <1>1, <2>1, SubSeqProperties
  <2> QED BY <1>1, <1>2, <1>3, <2>2
<1>6. batch' # <<>>
  BY <1>3
<1>7. HandoffType'
  <2>1. Len(batch') <= BatchMax /\ Len(queue') <= QueueCap
    BY <1>1, <1>3 DEF HandoffType
  <2>2. Packets' = Packets /\ BuffersOf(mode') = BuffersOf(mode)
    BY <1>2, SameReceiver
  <2> QED BY <1>2, <1>3, <1>6, <2>1, <2>2 DEF HandoffType, ringVars, trafficVars
<1> QED BY <1>2, <1>3, <1>4, <1>5, <1>7

\* The packet whose turn is over leaves the line at its front.
LEMMA LineShrinks ==
    ASSUME HandoffType, WorkerNext
    PROVE  /\ Len(Line') = Len(Line) - 1 /\ Len(Line) >= 1
           /\ \A i \in 1..Len(Line') : Line'[i] = Line[i + 1]
           /\ batch' \in Seq(Packets) /\ Len(batch') <= BatchMax
           /\ w_pc' \in {"poll", "parse"} /\ (w_pc' = "poll" <=> batch' = <<>>)
<1>1. /\ queue \in Seq(Packets) /\ batch \in Seq(Packets) /\ batch # <<>> /\ Len(batch) \in Nat /\ Len(queue) \in Nat
      /\ Len(batch) <= BatchMax
  BY DEF HandoffType, WorkerNext
<1>2. batch' = Tail(batch) /\ queue' = queue /\ w_pc' = IF Len(batch) = 1 THEN "poll" ELSE "parse"
  BY DEF WorkerNext
<1>3. batch' \in Seq(Packets) /\ Len(batch') = Len(batch) - 1
  BY <1>1, <1>2, HeadTailProperties
<1>4. Line' = Tail(Line) /\ Line # <<>> /\ Line \in Seq(Packets) /\ Len(Line) \in Nat
  BY <1>1, <1>2 DEF Line
<1>5. /\ Len(Line') = Len(Line) - 1 /\ Len(Line) >= 1
      /\ \A i \in 1..Len(Line') : Line'[i] = Line[i + 1]
  BY <1>4, HeadTailProperties, EmptySeq
<1>6. w_pc' \in {"poll", "parse"} /\ (w_pc' = "poll" <=> batch' = <<>>)
  <2>1. Len(batch') = 0 <=> batch' = <<>>
    BY <1>3, EmptySeq
  <2>2. CASE Len(batch) = 1
    BY <1>2, <1>3, <2>1, <2>2
  <2>3. CASE Len(batch) # 1
    BY <1>1, <1>2, <1>3, <2>1, <2>3
  <2> QED BY <2>2, <2>3
<1> QED BY <1>1, <1>3, <1>5, <1>6

\* The worker's steps keep the types; parsing leaves the line alone.
LEMMA WorkerType ==
    ASSUME HandoffType, NothingYet, Pop \/ Parse \/ Finish
    PROVE  HandoffType' /\ mode' = mode /\ mode # NoReceiver
<1>1. CASE Pop
  <2>1. PICK n \in 1..BatchMax : WorkerPop(n)
    BY <1>1 DEF Pop
  <2>2. HandoffType' /\ mode' = mode
    BY <1>1, <2>1, LinePopped DEF Pop, WorkerPop
  <2>3. n <= Len(queue)
    BY <2>1 DEF WorkerPop
  <2>4. queue # <<>>
    BY <2>3
  <2> QED BY <2>2, <2>4 DEF NothingYet
<1>2. CASE Parse
  <2>1. /\ w_pc = "parse" /\ parsed' = Append(parsed, content[Head(batch).buf]) /\ w_pc' = "release"
        /\ UNCHANGED <<mode, content, queue, batch, arrived, foreign, status, k_idx, frame_idx, udp_slot, c_pc>>
    BY <1>2 DEF Parse, WorkerParse, trafficVars, ringVars
  <2>2. batch # <<>> /\ batch \in Seq(Packets)
    BY <2>1 DEF HandoffType
  <2>3. Head(batch) \in Packets
    BY <2>2, HeadTailProperties
  <2>4. content[Head(batch).buf] \in Nat
    BY <2>3 DEF Packets, HandoffType
  <2>5. parsed' \in Seq(Nat)
    BY <2>1, <2>4 DEF HandoffType
  <2> QED BY <2>1, <2>2, <2>5, SameReceiver DEF HandoffType, NothingYet
<1>3. CASE Finish
  <2>1. /\ WorkerNext /\ w_pc = "release" /\ queue' = queue
        /\ UNCHANGED <<mode, content, parsed, arrived, foreign, k_idx, frame_idx, udp_slot, c_pc>>
    BY <1>3 DEF Finish, Release, WorkerNext, trafficVars
  <2>2. batch # <<>> /\ Head(batch) \in Packets
    <3>1. batch # <<>> /\ batch \in Seq(Packets)
      BY <2>1 DEF HandoffType
    <3> QED BY <3>1, HeadTailProperties
  <2>3. status' \in [Frames -> {"KERNEL", "USER"}]
    BY <1>3 DEF Finish, Release, HandoffType
  <2> QED BY <2>1, <2>2, <2>3, LineShrinks, SameReceiver DEF HandoffType, NothingYet
<1> QED BY <1>1, <1>2, <1>3

----------------------------------------------------------------------------
\* The base invariant is kept by every step.
LEMMA StepKeepsBase == BaseInv /\ [Next]_vars => BaseInv'
<1> SUFFICES ASSUME BaseInv, [Next]_vars PROVE BaseInv'
  OBVIOUS
<1>0. HandoffType /\ NothingYet /\ XdpInv
  BY DEF BaseInv
<1>s. ASSUME UNCHANGED <<xdpVars, mode>> PROVE XdpInv'
  BY <1>0, <1>s DEF XdpInv, FramesConserved, xdpVars
<1>n. ASSUME mode \in Modes, mode' = mode PROVE NothingYet'
  BY <1>n DEF NothingYet, Modes, NoReceiver
<1>1. CASE UNCHANGED vars
  <2>1. HandoffType' /\ NothingYet'
    BY <1>0, <1>1, SameReceiver DEF HandoffType, NothingYet, vars, workerVars, trafficVars, ringVars, xdpVars
  <2> QED BY <1>1, <1>s, <2>1 DEF BaseInv, vars
<1>2. CASE Create
  <2>0. mode = NoReceiver /\ rx = <<>> /\ peeked = <<>> /\ rx_done \in Nat
    BY <1>0, <1>2 DEF Create, NothingYet, XdpInv, NoReceiver
  <2>1. CASE InitUmem /\ UNCHANGED ringVars
    <3>1. Install("af_xdp", BuffersOf("af_xdp"))
      BY <2>1 DEF InitUmem, BuffersOf
    <3>2. HandoffType' /\ NothingYet'
      BY <2>0, <2>1, <3>1, InstallType DEF Modes
    <3>3. XdpInv'
      BY <2>0, <2>1, AllFramesSubmitted
    <3> QED BY <3>2, <3>3 DEF BaseInv
  <2>2. CASE (MapRing \/ BindUdp) /\ UNCHANGED xdpVars
    <3>1. PICK m \in {"packet_mmap", "udp"} : Install(m, BuffersOf(m)) /\ UNCHANGED ringVars
      BY <2>2 DEF MapRing, BindUdp, BuffersOf
    <3>2. HandoffType' /\ NothingYet'
      BY <2>0, <3>1, InstallType DEF Modes
    <3>3. mode' # "af_xdp" /\ mode # "af_xdp"
      BY <2>0, <3>1 DEF Install, NoReceiver
    <3>4. XdpInv'
      BY <1>0, <2>2, <3>3 DEF XdpInv, FramesConserved, xdpVars
    <3> QED BY <3>2, <3>4 DEF BaseInv
  <2> QED BY <1>2, <2>1, <2>2 DEF Create
<1>3. CASE (RingDatagram \/ RingForeign) /\ UNCHANGED xdpVars
  BY <1>0, <1>3, <1>s, <1>n, RingKernelType DEF BaseInv, Modes
<1>4. CASE (XdpDatagram \/ XdpForeign) /\ UNCHANGED ringVars
  <2>1. HandoffType' /\ mode = "af_xdp" /\ mode' = mode
    BY <1>0, <1>4, XdpKernelType
  <2>2. PICK what \in Nat : KernelRx(what) /\ UNCHANGED <<peeked, rx_done>>
    BY <1>0, <1>4 DEF XdpDatagram, XdpForeign, HandoffType, Blank
  <2>3. XdpInv'
    BY <1>0, <2>1, <2>2, KernelMovesFrame
  <2> QED BY <1>n, <2>1, <2>3 DEF BaseInv, Modes
<1>5. CASE RingReceiver /\ UNCHANGED xdpVars
  BY <1>0, <1>5, <1>s, <1>n, RingReceiverType DEF BaseInv, Modes
<1>6. CASE XdpReceiver /\ UNCHANGED ringVars
  BY <1>0, <1>6, <1>n, XdpReceiverType, RoundMovesFrames DEF BaseInv, Modes
<1>7. CASE Worker
  <2>1. HandoffType' /\ mode' = mode /\ mode # NoReceiver
    BY <1>0, <1>7, WorkerType DEF Worker
  <2>2. UNCHANGED xdpVars
    BY <1>7 DEF Worker, Pop, Parse, Finish
  <2>3. mode \in Modes
    BY <1>0, <2>1 DEF HandoffType
  <2> QED BY <1>s, <1>n, <2>1, <2>2, <2>3 DEF BaseInv
<1> QED BY <1>1, <1>2, <1>3, <1>4, <1>5, <1>6, <1>7 DEF Next, Kernel, Receiver

\* The base invariant holds in every reachable state.
THEOREM BaseInvariance == Spec => []BaseInv
<1>1. Init => BaseInv
  <2> SUFFICES ASSUME Init PROVE BaseInv
    OBVIOUS
  <2> USE DEF Init, InitHandoff, InitRing, InitXdp, NoReceiver
  <2>1. content \in [BuffersOf(mode) -> Nat]
    BY DEF BuffersOf
  <2>2. HandoffType
    BY <2>1 DEF HandoffType, Frames, UdpRows, Packets
  <2>3. NothingYet /\ XdpInv
    BY DEF NothingYet, XdpInv, FramesConserved
  <2> QED BY <2>2, <2>3 DEF BaseInv
<1> QED BY <1>1, StepKeepsBase, PTL DEF Spec

\* Every UMEM frame is at every moment in exactly one of the fill ring, the RX
\* ring and the receiver's round, for every number of frames and round size:
\* AfXdpRxConsumer neither leaks a frame nor submits one twice.
THEOREM UmemFramesConserved == Spec => []FramesConserved
<1>1. BaseInv => FramesConserved
  BY DEF BaseInv, XdpInv
<1> QED BY <1>1, BaseInvariance, PTL

----------------------------------------------------------------------------
(* The rows of the UDP fallback.                                           *)

\* A step that leaves queue, rows and the next row alone.
LEMMA RowsUntouched ==
    ASSUME UdpInv, UNCHANGED <<mode, content, queue, udp_slot>>
    PROVE  UdpInv'
BY DEF UdpInv, RowsTo

\* A queued packet keeps its row: recv() writes the row after the last queued
\* one, and with a row to spare that is not the first one again.
LEMMA StepKeepsRows == RowToSpare /\ BaseInv /\ UdpInv /\ [Next]_vars => UdpInv'
<1> SUFFICES ASSUME RowToSpare, BaseInv, UdpInv, [Next]_vars, mode' = "udp" PROVE UdpInv'
  BY DEF UdpInv
<1>0. HandoffType /\ NothingYet /\ XdpInv
  BY DEF BaseInv
<1>1. CASE mode = NoReceiver
  <2>1. queue' = <<>>
    <3>1. CASE UNCHANGED vars
      BY <1>0, <1>1, <3>1 DEF NothingYet, vars, workerVars
    <3>2. CASE Create
      BY <1>0, <1>1, <3>2 DEF NothingYet, Create, InitUmem, MapRing, BindUdp, Install, workerVars
    <3>3. CASE RingReceiver \/ RingDatagram \/ RingForeign \/ XdpDatagram \/ XdpForeign
      BY <1>0, <1>1, <3>3, RingReceiverType DEF RingDatagram, RingForeign, XdpDatagram, XdpForeign, NoReceiver
    <3>4. CASE XdpReceiver
      BY <1>0, <1>1, <3>4, RoundMovesFrames DEF NoReceiver
    <3>5. CASE Worker
      BY <1>0, <1>1, <3>5, WorkerType DEF Worker
    <3> QED BY <3>1, <3>2, <3>3, <3>4, <3>5 DEF Next, Kernel, Receiver
  <2> QED BY <2>1 DEF UdpInv
<1>2. CASE mode # NoReceiver
  <2>0. mode = "udp" /\ BuffersOf(mode) = UdpRows
    <3>1. CASE Create
      BY <1>2, <3>1 DEF Create
    <3>2. CASE mode' = mode
      BY <3>2 DEF BuffersOf
    <3>3. CASE Kernel \/ Receiver
      BY <1>0, <3>2, <3>3, RingReceiverType, RoundMovesFrames
         DEF Kernel, Receiver, RingDatagram, RingForeign, XdpDatagram, XdpForeign
    <3>4. CASE Worker
      BY <1>0, <3>2, <3>4, WorkerType DEF Worker
    <3> QED BY <3>1, <3>2, <3>3, <3>4 DEF Next, vars
  <2>1. /\ queue \in Seq(Packets) /\ Len(queue) \in Nat /\ Len(queue) <= QueueCap
        /\ content \in [UdpRows -> Nat] /\ udp_slot \in UdpRows
        /\ \A i \in 1..Len(queue) : queue[i].buf \in UdpRows
    <3>1. /\ queue \in Seq(Packets) /\ Len(queue) <= QueueCap
          /\ content \in [UdpRows -> Nat] /\ udp_slot \in UdpRows
      BY <1>0, <2>0 DEF HandoffType
    <3>2. Len(queue) \in Nat /\ \A i \in 1..Len(queue) : queue[i] \in Packets
      BY <3>1, LenProperties, ElementOfSeq
    <3> QED BY <2>0, <3>1, <3>2 DEF Packets
  <2>2. \A i \in 1..Len(queue) :
            RowsTo(queue[i].buf, udp_slot) = Len(queue) - i + 1 /\ content[queue[i].buf] = queue[i].id
    BY <2>0 DEF UdpInv
  <2>3. CASE UNCHANGED vars
    BY <2>3, RowsUntouched DEF vars, workerVars, ringVars
  <2>4. CASE PollEmpty \/ RecvNothing \/ PollForeign \/ PollMatch \/ Push
    BY <2>0, <2>4, RowsUntouched DEF PollEmpty, RecvNothing, PollForeign, PollMatch, Push, workerVars, ringVars
  <2>5. CASE Recv
    <3>1. UNCHANGED <<queue, udp_slot>> /\ content' = [content EXCEPT ![udp_slot] = arrived + 1]
      BY <2>5 DEF Recv, workerVars
    <3>2. ASSUME NEW i \in 1..Len(queue) PROVE queue[i].buf # udp_slot
      <4>1. RowsTo(udp_slot, udp_slot) = 0
        BY <2>1 DEF RowsTo, UdpRows
      <4>2. RowsTo(queue[i].buf, udp_slot) # 0
        BY <2>1, <2>2
      <4> QED BY <4>1, <4>2
    <3>3. \A i \in 1..Len(queue) : content'[queue[i].buf] = content[queue[i].buf]
      BY <2>1, <3>1, <3>2
    <3> QED BY <2>2, <3>1, <3>3 DEF UdpInv, RowsTo
  <2>6. CASE PushRow
    <3>1. /\ ~QueueFull /\ queue' = Append(queue, Packet(udp_slot)) /\ udp_slot' = NextRow(udp_slot)
          /\ content' = content
      BY <2>6 DEF PushRow
    <3>2. /\ Packet(udp_slot) \in Packets /\ Packet(udp_slot).buf = udp_slot /\ Packet(udp_slot).id = content[udp_slot]
          /\ Len(queue') = Len(queue) + 1 /\ Len(queue') <= QueueCap
      BY <1>0, <2>0, <2>1, <3>1, PushType
    <3>3. /\ \A i \in 1..Len(queue) : queue'[i] = queue[i]
          /\ queue'[Len(queue) + 1] = Packet(udp_slot)
      BY <2>1, <3>1, <3>2, AppendProperties
    <3>4. udp_slot' = IF udp_slot + 1 = UdpSlots THEN 0 ELSE udp_slot + 1
      BY <2>1, <3>1, NextInRing
    <3>5. ASSUME NEW i \in 1..Len(queue')
          PROVE  RowsTo(queue'[i].buf, udp_slot') = Len(queue') - i + 1 /\ content'[queue'[i].buf] = queue'[i].id
      <4>1. CASE i \in 1..Len(queue)
        <5>1. /\ queue'[i] = queue[i] /\ queue[i].buf \in UdpRows
              /\ RowsTo(queue[i].buf, udp_slot) = Len(queue) - i + 1 /\ content[queue[i].buf] = queue[i].id
          BY <2>1, <2>2, <3>3, <4>1
        <5>2. RowsTo(queue[i].buf, udp_slot') = RowsTo(queue[i].buf, udp_slot) + 1
          <6>1. RowsTo(queue[i].buf, udp_slot) + 1 < UdpSlots \/ RowsTo(queue[i].buf, udp_slot) + 1 <= QueueCap
            BY <2>1, <3>2, <4>1, <5>1
          <6>2. ASSUME NEW r \in UdpRows, RowsTo(r, udp_slot) + 1 < UdpSlots
                PROVE  RowsTo(r, udp_slot') = RowsTo(r, udp_slot) + 1
            BY <2>1, <3>4, <6>2 DEF RowsTo, UdpRows
          <6>3. RowsTo(queue[i].buf, udp_slot) + 1 < UdpSlots
            BY <2>1, <5>1, <6>1, SMTT(30) DEF RowsTo, UdpRows, RowToSpare
          <6> QED BY <5>1, <6>2, <6>3
        <5> QED BY <2>1, <3>1, <3>2, <5>1, <5>2
      <4>2. CASE i = Len(queue) + 1
        <5>1. RowsTo(udp_slot, udp_slot') = 1
          BY <2>1, <3>4 DEF RowsTo, UdpRows, RowToSpare
        <5> QED BY <2>1, <3>1, <3>2, <3>3, <4>2, <5>1
      <4> QED BY <2>1, <3>2, <4>1, <4>2
    <3> QED BY <3>5 DEF UdpInv, RowsTo
  <2>7. CASE Pop
    <3>1. PICK n \in 1..BatchMax : WorkerPop(n) /\ UNCHANGED ringVars
      BY <2>7 DEF Pop
    <3>2. /\ Len(queue') = Len(queue) - n /\ (\A i \in 1..Len(queue') : queue'[i] = queue[i + n])
          /\ content' = content /\ udp_slot' = udp_slot /\ n <= Len(queue)
      BY <1>0, <3>1, LinePopped DEF WorkerPop, ringVars
    <3>3. ASSUME NEW i \in 1..Len(queue')
          PROVE  RowsTo(queue'[i].buf, udp_slot') = Len(queue') - i + 1 /\ content'[queue'[i].buf] = queue'[i].id
      <4>0. Len(queue') = Len(queue) - n /\ Len(queue) \in Nat /\ n <= Len(queue)
        BY <2>1, <3>2
      <4>1. i + n \in 1..Len(queue) /\ Len(queue) - (i + n) + 1 = Len(queue') - i + 1
        BY <4>0
      <4>2. queue'[i] = queue[i + n]
        BY <3>2
      <4> QED BY <2>2, <3>2, <4>1, <4>2
    <3> QED BY <3>3 DEF UdpInv, RowsTo
  <2>8. CASE Parse \/ Finish
    BY <2>0, <2>8, RowsUntouched DEF Parse, WorkerParse, Finish, Release, WorkerNext, ringVars
  <2>9. CASE Create \/ Kernel \/ XdpReceiver
    BY <1>0, <1>2, <2>0, <2>9, RoundMovesFrames DEF Create, Kernel, RingDatagram, RingForeign, XdpDatagram, XdpForeign
  <2> QED BY <2>3, <2>4, <2>5, <2>6, <2>7, <2>8, <2>9 DEF Next, Receiver, RingReceiver, Worker
<1> QED BY <1>1, <1>2

\* With a row to spare, the rows of queued packets are intact in every state.
THEOREM RowsIntact == RowToSpare => (Spec => []UdpInv)
<1> SUFFICES ASSUME RowToSpare PROVE Spec => []UdpInv
  OBVIOUS
<1>1. Init => UdpInv
  BY DEF Init, InitHandoff, UdpInv, NoReceiver
<1>2. BaseInv /\ UdpInv /\ [Next]_vars => UdpInv'
  BY StepKeepsRows
<1> QED BY <1>1, <1>2, BaseInvariance, PTL DEF Spec

----------------------------------------------------------------------------
(* The frame ring, seen from frame_idx.                                    *)

RingView ==
    /\ \A f \in Frames : At(f) \in 0..(FrameNr - 1)
    /\ \A f, g \in Frames : At(f) = At(g) => f = g
    /\ At(frame_idx) = 0
    /\ Ahead \in 0..FrameNr
    /\ Ahead < FrameNr => At(k_idx) = Ahead
    /\ Ahead = FrameNr => k_idx = frame_idx /\ status[k_idx] = "USER"
    /\ Ahead = 0 => k_idx = frame_idx /\ status[k_idx] = "KERNEL"
    /\ Line \in Seq(Packets) /\ Len(Line) \in Nat /\ Len(Line) <= QueueCap + BatchMax
    /\ \A i \in 1..Len(Line) : Line[i].buf \in Frames /\ Line[i].id \in Nat
    /\ content \in [Frames -> Nat]
    /\ IsFiniteSet(PendingForeign) /\ Cardinality(PendingForeign) \in Nat

\* Elementary facts about this view.
LEMMA RingViewHolds == mode = "packet_mmap" /\ HandoffType => RingView
<1> SUFFICES ASSUME mode = "packet_mmap", HandoffType PROVE RingView
  OBVIOUS
<1>1. frame_idx \in Frames /\ k_idx \in Frames /\ status \in [Frames -> {"KERNEL", "USER"}]
  BY DEF HandoffType
<1>2. /\ \A f \in Frames : At(f) \in 0..(FrameNr - 1)
      /\ \A f, g \in Frames : At(f) = At(g) => f = g
      /\ At(frame_idx) = 0
  BY <1>1 DEF At, Frames
<1>3. /\ Ahead \in 0..FrameNr
      /\ Ahead < FrameNr => At(k_idx) = Ahead
      /\ Ahead = FrameNr => k_idx = frame_idx /\ status[k_idx] = "USER"
      /\ Ahead = 0 => k_idx = frame_idx /\ status[k_idx] = "KERNEL"
  BY <1>1, <1>2 DEF Ahead
<1>4. BuffersOf(mode) = Frames
  BY DEF BuffersOf
<1>5. Line \in Seq(Packets) /\ Len(Line) \in Nat /\ Len(Line) <= QueueCap + BatchMax
  BY LineType
<1>6. \A i \in 1..Len(Line) : Line[i].buf \in Frames /\ Line[i].id \in Nat
  BY <1>4, LineType DEF Packets
<1>7. IsFiniteSet(PendingForeign) /\ Cardinality(PendingForeign) \in Nat
  <2>1. IsFiniteSet(Frames)
    BY FS_Interval DEF Frames
  <2>2. PendingForeign \subseteq Frames
    BY DEF PendingForeign
  <2> QED BY <2>1, <2>2, FS_Subset, FS_CardinalityType
<1> QED BY <1>2, <1>3, <1>4, <1>5, <1>6, <1>7 DEF RingView, HandoffType

\* The same after a step.
LEMMA RingViewNext == (mode = "packet_mmap" /\ HandoffType => RingView)'
BY RingViewHolds, PTL

\* The kernel fills the frame behind the pending ones.
LEMMA FillExtends ==
    ASSUME RingView, RingStatus, HandoffType, mode = "packet_mmap", NEW what, Fill(what), status[k_idx] = "KERNEL",
           frame_idx' = frame_idx
    PROVE  /\ k_idx \in Frames /\ ~Pending(k_idx) /\ ~InLine(k_idx)
           /\ \A f \in Frames : At(f)' = At(f)
           /\ Ahead < FrameNr /\ Ahead' = Ahead + 1 /\ At(k_idx) = Ahead
           /\ \A f \in Frames : Pending(f)' <=> Pending(f) \/ f = k_idx
<1>1. /\ content' = [content EXCEPT ![k_idx] = what] /\ status' = [status EXCEPT ![k_idx] = "USER"]
      /\ k_idx' = NextFrame(k_idx) /\ k_idx \in Frames /\ frame_idx \in Frames
      /\ status \in [Frames -> {"KERNEL", "USER"}]
  BY DEF Fill, HandoffType
<1>2. \A f \in Frames : At(f)' = At(f)
  BY DEF At
<1>3. ~Pending(k_idx) /\ ~InLine(k_idx) /\ Ahead \in 0..FrameNr /\ Ahead < FrameNr /\ At(k_idx) = Ahead
  BY <1>1 DEF RingStatus, RingView
<1>4. Ahead' = Ahead + 1
  <2>1. CASE k_idx' # frame_idx
    <3>1. At(k_idx') = At(k_idx) + 1
      BY <1>1, <2>1 DEF At, NextFrame, Frames
    <3>2. Ahead' = At(k_idx')
      BY <2>1 DEF Ahead, At
    <3> QED BY <1>3, <3>1, <3>2
  <2>2. CASE k_idx' = frame_idx
    <3>1. At(k_idx) = FrameNr - 1
      BY <1>1, <2>2 DEF At, NextFrame, Frames
    <3>2. status[frame_idx] = "USER" \/ k_idx = frame_idx
      <4>1. CASE FrameNr = 1
        BY <1>1, <4>1 DEF Frames
      <4>2. CASE FrameNr # 1
        <5>1. Pending(frame_idx)
          BY <1>1, <1>3, <3>1, <4>2 DEF Pending, RingView
        <5> QED BY <1>1, <5>1 DEF RingStatus
      <4> QED BY <4>1, <4>2
    <3>3. status'[k_idx'] = "USER"
      BY <1>1, <2>2, <3>2
    <3>4. Ahead' = FrameNr
      BY <2>2, <3>3 DEF Ahead
    <3> QED BY <1>3, <3>1, <3>4
  <2> QED BY <2>1, <2>2
<1>5. ASSUME NEW f \in Frames PROVE Pending(f)' <=> Pending(f) \/ f = k_idx
  <2>1. At(f) \in 0..(FrameNr - 1) /\ (At(f) = At(k_idx) => f = k_idx)
    BY <1>1 DEF RingView
  <2>2. Pending(f)' <=> At(f) < Ahead + 1
    BY <1>2, <1>4 DEF Pending
  <2>3. Pending(f) <=> At(f) < Ahead
    BY DEF Pending
  <2> QED BY <1>3, <2>1, <2>2, <2>3
<1> QED BY <1>1, <1>2, <1>3, <1>4, <1>5

\* The receiver leaves the frame it looked at behind, and cannot meet a frame
\* of the line as long as the ring is large enough.
LEMMA FrameLeft ==
    ASSUME RingView, RingStatus, RingPlaces, HandoffType, HandoffType', status[frame_idx] = "USER",
           frame_idx' = NextFrame(frame_idx), k_idx' = k_idx,
           \A f \in Frames : f # frame_idx => status'[f] = status[f],
           status'[frame_idx] = "KERNEL" \/ FrameNr > 1,
           Len(Line) + foreign < FrameNr + Cardinality(PendingForeign) - 1
    PROVE  /\ frame_idx \in Frames /\ Pending(frame_idx) /\ ~InLine(frame_idx)
           /\ \A f \in Frames : f = frame_idx => At(f)' = FrameNr - 1
           /\ \A f \in Frames : f # frame_idx => At(f)' = At(f) - 1 /\ At(f) > 0
           /\ Ahead > 0 /\ Ahead' = Ahead - 1
           /\ \A f \in Frames : Pending(f)' <=> Pending(f) /\ f # frame_idx
<1>1. frame_idx \in Frames /\ k_idx \in Frames /\ status \in [Frames -> {"KERNEL", "USER"}] /\ foreign \in Nat
  BY DEF HandoffType
<1>2. Ahead \in 0..FrameNr /\ Ahead > 0
  BY DEF RingView
<1>3. Pending(frame_idx)
  BY <1>1, <1>2 DEF Pending, RingView
<1>4. ~InLine(frame_idx)
  BY <1>2 DEF InLine, RingPlaces, RingView
<1>5. /\ \A f \in Frames : f = frame_idx => At(f)' = FrameNr - 1
      /\ \A f \in Frames : f # frame_idx => At(f)' = At(f) - 1 /\ At(f) > 0
  BY <1>1 DEF At, NextFrame, Frames
<1>6. Ahead' = Ahead - 1
  <2>0. PICK k \in Frames : k = k_idx
    BY <1>1
  <2>1. CASE Ahead = FrameNr
    <3>1. k_idx = frame_idx
      BY <2>1 DEF RingView
    <3>2. CASE FrameNr = 1
      <4>1. frame_idx' = frame_idx
        BY <1>1, <3>2 DEF Frames, NextFrame
      <4>2. status'[k_idx'] = "KERNEL"
        BY <3>1, <3>2
      <4>3. Ahead' = 0
        BY <3>1, <4>1, <4>2 DEF Ahead
      <4> QED BY <2>1, <3>2, <4>3
    <3>3. CASE FrameNr # 1
      <4>1. frame_idx' # frame_idx
        BY <1>1, <3>3 DEF Frames, NextFrame
      <4>2. Ahead' = At(k)'
        BY <2>0, <3>1, <4>1 DEF Ahead, At
      <4> QED BY <1>5, <2>0, <2>1, <3>1, <4>2
    <3> QED BY <3>2, <3>3
  <2>2. CASE Ahead # FrameNr /\ Ahead # 1
    <3>1. At(k_idx) = Ahead /\ k_idx # frame_idx
      BY <1>2, <2>2 DEF RingView
    <3>2. At(k)' = Ahead - 1
      BY <1>5, <2>0, <3>1
    <3>3. k_idx' # frame_idx'
      BY <1>1, <1>2, <2>0, <2>2, <3>2, SMTT(30) DEF At, Frames, HandoffType
    <3>4. Ahead' = At(k)'
      BY <2>0, <3>3 DEF Ahead, At
    <3> QED BY <3>2, <3>4
  <2>3. CASE Ahead # FrameNr /\ Ahead = 1
    <3>1. At(k_idx) = 1 /\ k_idx # frame_idx
      BY <1>2, <2>3 DEF RingView
    <3>2. k_idx = frame_idx'
      BY <1>1, <3>1 DEF At, NextFrame, Frames
    <3>3. ~Pending(k_idx)
      BY <2>3, <3>1 DEF Pending
    <3>4. ~InLine(k_idx)
      <4>1. SUFFICES ASSUME NEW i \in 1..Len(Line), Line[i].buf = k_idx PROVE FALSE
        BY DEF InLine
      <4>2. FrameNr - 1 + Cardinality(PendingForeign) <= Len(Line) - i + 1 + foreign
        BY <3>1, <4>1 DEF RingPlaces
      <4>3. Len(Line) \in Nat /\ Cardinality(PendingForeign) \in Nat
        BY DEF RingView
      <4> QED BY <1>1, <4>2, <4>3
    <3>5. status'[k_idx] = "KERNEL"
      BY <1>1, <3>1, <3>3, <3>4 DEF RingStatus
    <3>6. Ahead' = 0
      BY <3>2, <3>5 DEF Ahead
    <3> QED BY <2>3, <3>6
  <2> QED BY <2>1, <2>2, <2>3
<1>7. ASSUME NEW f \in Frames PROVE Pending(f)' <=> Pending(f) /\ f # frame_idx
  <2>1. CASE f = frame_idx
    BY <1>2, <1>5, <1>6, <2>1 DEF Pending
  <2>2. CASE f # frame_idx
    <3>1. At(f) \in 0..(FrameNr - 1) /\ At(f)' = At(f) - 1
      BY <1>5, <2>2 DEF RingView
    <3> QED BY <1>2, <1>6, <2>2, <3>1 DEF Pending
  <2> QED BY <2>1, <2>2
<1> QED BY <1>1, <1>2, <1>3, <1>4, <1>5, <1>6, <1>7

\* A datagram or a foreign frame reaches the ring, or is dropped.
LEMMA FillKeepsRing ==
    ASSUME mode = "packet_mmap", HandoffType, HandoffType', RingState, RingDatagram \/ RingForeign
    PROVE  RingState'
<1>1. PICK what \in Nat :
        /\ Fill(what)
        /\ \/ what = arrived + 1 /\ arrived' = arrived + 1 /\ foreign' = foreign
           \/ what = Blank /\ arrived' = arrived /\ foreign' = foreign + 1
        /\ UNCHANGED <<mode, queue, batch, w_pc, parsed, frame_idx, c_pc>>
  BY DEF RingDatagram, RingForeign, HandoffType, Blank, workerVars
<1>2. RingView /\ RingView' /\ arrived \in Nat /\ foreign \in Nat /\ parsed \in Seq(Nat) /\ frame_idx \in Frames
  BY <1>1, RingViewHolds, RingViewNext DEF HandoffType
<1>3. Line' = Line
  BY <1>1 DEF Line
<1>4. RingStatus /\ RingPlaces /\ RingOrder /\ ParsedOrder /\ RingPush
  BY DEF RingState
<1>5. CASE status[k_idx] # "KERNEL"
  <2>1. UNCHANGED <<content, status, k_idx, frame_idx>>
    BY <1>1, <1>5 DEF Fill
  <2>2. (\A f \in Frames : At(f)' = At(f)) /\ Ahead' = Ahead
    BY <2>1 DEF At, Ahead
  <2>3. \A f \in Frames : (Pending(f)' <=> Pending(f)) /\ (InLine(f)' <=> InLine(f))
    BY <1>3, <2>2 DEF Pending, InLine
  <2>4. PendingForeign' = PendingForeign
    BY <2>1, <2>3 DEF PendingForeign
  <2>5. RingStatus'
    BY <1>4, <2>1, <2>3 DEF RingStatus
  <2>6. RingPlaces'
    <3>1. \A i \in 1..Len(Line) : Line[i].buf \in Frames /\ Ahead <= At(Line[i].buf) /\ At(Line[i].buf) \in Int
      BY <1>2, <1>4, SMTT(30) DEF RingPlaces, RingView
    <3>2. foreign' \in Nat /\ foreign <= foreign' /\ Cardinality(PendingForeign) \in Nat /\ Len(Line) \in Nat
      BY <1>1, <1>2, SMTT(30) DEF RingView
    <3>3. Cardinality(PendingForeign) <= foreign'
      BY <1>2, <1>4, <3>2 DEF RingPlaces
    <3>4. ASSUME NEW i \in 1..Len(Line)
          PROVE  FrameNr - At(Line[i].buf) + Cardinality(PendingForeign) <= Len(Line) - i + 1 + foreign'
      <4>1. FrameNr - At(Line[i].buf) + Cardinality(PendingForeign) <= Len(Line) - i + 1 + foreign
        BY <1>4 DEF RingPlaces
      <4> QED BY <1>2, <3>1, <3>2, <4>1
    <3>5. \A i, j \in 1..Len(Line) : i < j => At(Line[i].buf) < At(Line[j].buf)
      BY <1>4 DEF RingPlaces
    <3> QED BY <1>3, <2>2, <2>4, <3>1, <3>3, <3>4, <3>5 DEF RingPlaces
  <2>7. RingOrder'
    <3>1. arrived' \in Nat /\ arrived <= arrived'
      BY <1>1, <1>2
    <3>2. content \in [Frames -> Nat]
      BY <1>2 DEF RingView
    <3>3. \A f \in Frames : Pending(f) => content[f] <= arrived'
      <4> TAKE f \in Frames
      <4>1. content[f] \in Nat /\ (Pending(f) => content[f] <= arrived)
        BY <1>4, <3>2 DEF RingOrder
      <4> QED BY <1>2, <3>1, <4>1
    <3>4. \A i \in 1..Len(Line) : content[Line[i].buf] = Line[i].id /\ Line[i].id \in 1..arrived'
      <4> TAKE i \in 1..Len(Line)
      <4>1. content[Line[i].buf] = Line[i].id /\ Line[i].id \in 1..arrived
        BY <1>4 DEF RingOrder
      <4> QED BY <1>2, <3>1, <4>1
    <3> QED BY <1>3, <1>4, <2>1, <2>2, <2>3, <3>3, <3>4 DEF RingOrder
  <2>8. ParsedOrder' /\ RingPush'
    <3>1. \A i \in 1..Len(parsed) : parsed[i] \in 1..arrived'
      BY <1>1, <1>2, <1>4 DEF ParsedOrder
    <3>2. ParsedOrder'
      BY <1>1, <1>3, <1>4, <2>1, <2>3, <3>1 DEF ParsedOrder
    <3> QED BY <1>1, <1>4, <2>1, <3>2 DEF RingPush
  <2> QED BY <2>5, <2>6, <2>7, <2>8 DEF RingState
<1>6. CASE status[k_idx] = "KERNEL"
  <2>1. /\ content' = [content EXCEPT ![k_idx] = what] /\ status' = [status EXCEPT ![k_idx] = "USER"]
        /\ status \in [Frames -> {"KERNEL", "USER"}] /\ content \in [Frames -> Nat]
    BY <1>1, <1>2, <1>6 DEF Fill, HandoffType, RingView
  <2>2. PICK k \in Frames : k = k_idx
    BY DEF HandoffType
  <2>3. /\ ~Pending(k) /\ ~InLine(k) /\ At(k) = Ahead /\ Ahead' = Ahead + 1
        /\ \A f \in Frames : At(f)' = At(f)
        /\ \A f \in Frames : Pending(f)' <=> Pending(f) \/ f = k
    BY <1>1, <1>2, <1>4, <1>6, <2>2, FillExtends
  <2>4. /\ \A f \in Frames : f # k => content'[f] = content[f] /\ status'[f] = status[f]
        /\ content'[k] = what /\ status'[k] = "USER"
    BY <2>1, <2>2
  <2>5. \A f \in Frames : InLine(f)' <=> InLine(f)
    BY <1>3 DEF InLine
  <2>6. \A i \in 1..Len(Line) : Line[i].buf \in Frames /\ Line[i].buf # k /\ content'[Line[i].buf] = content[Line[i].buf]
    BY <1>2, <2>3, <2>4 DEF InLine, RingView
  <2>7. /\ Cardinality(PendingForeign)' <= foreign'
        /\ Cardinality(PendingForeign)' - foreign' <= Cardinality(PendingForeign) - foreign
    <3>0. IsFiniteSet(PendingForeign) /\ Cardinality(PendingForeign) \in Nat /\ Cardinality(PendingForeign) <= foreign
      BY <1>2, <1>4 DEF RingView, RingPlaces
    <3>1. CASE what = Blank
      <4>1. PendingForeign' = PendingForeign \cup {k}
        BY <2>3, <2>4, <3>1 DEF PendingForeign
      <4>2. k \notin PendingForeign
        BY <2>3 DEF PendingForeign
      <4>3. Cardinality(PendingForeign \cup {k}) = Cardinality(PendingForeign) + 1
        BY <3>0, <4>2, FS_AddElement
      <4>4. foreign' = foreign + 1
        BY <1>1, <1>2, <3>1 DEF Blank
      <4> QED BY <1>2, <3>0, <4>1, <4>3, <4>4
    <3>2. CASE what # Blank
      <4>1. PendingForeign' = PendingForeign
        BY <2>3, <2>4, <3>2 DEF PendingForeign
      <4>2. foreign' = foreign
        BY <1>1, <3>2
      <4> QED BY <1>2, <3>0, <4>1, <4>2
    <3> QED BY <3>1, <3>2
  <2>8. RingStatus'
    BY <1>4, <2>3, <2>4, <2>5 DEF RingStatus
  <2>9. RingPlaces'
    <3>1. \A i \in 1..Len(Line) : Ahead + 1 <= At(Line[i].buf)
      <4> TAKE i \in 1..Len(Line)
      <4>1. Ahead <= At(Line[i].buf)
        BY <1>4 DEF RingPlaces
      <4>2. Line[i].buf \in Frames /\ Line[i].buf # k
        BY <2>6
      <4>3. Ahead \in Int /\ \A f \in Frames : At(f) \in Int /\ (At(f) = At(k) => f = k)
        BY <1>2 DEF RingView
      <4> QED BY <2>3, <4>1, <4>2, <4>3
    <3>2. \A i, j \in 1..Len(Line) : i < j => At(Line[i].buf) < At(Line[j].buf)
      BY <1>4 DEF RingPlaces
    <3>3. \A i \in 1..Len(Line) :
            FrameNr - At(Line[i].buf) + Cardinality(PendingForeign)' <= Len(Line) - i + 1 + foreign'
      <4> TAKE i \in 1..Len(Line)
      <4>1. FrameNr - At(Line[i].buf) + Cardinality(PendingForeign) <= Len(Line) - i + 1 + foreign
        BY <1>4 DEF RingPlaces
      <4>2. At(Line[i].buf) \in Nat /\ Cardinality(PendingForeign) \in Nat /\ Cardinality(PendingForeign)' \in Nat
            /\ foreign' \in Nat /\ Len(Line) \in Nat
        <5>0. \A f \in Frames : At(f) \in Nat
          BY <1>2 DEF RingView
        <5>1. At(Line[i].buf) \in Nat
          BY <2>6, <5>0
        <5>4. Cardinality(PendingForeign) \in Nat /\ Len(Line) \in Nat
          BY <1>2 DEF RingView
        <5>2. Cardinality(PendingForeign)' \in Nat
          BY <1>2 DEF RingView
        <5>3. foreign' \in Nat
          BY <1>1, <1>2
        <5> QED BY <5>1, <5>2, <5>3, <5>4
      <4> QED BY <1>2, <2>7, <4>1, <4>2, SMTT(30)
    <3> QED BY <1>3, <2>3, <2>6, <2>7, <3>1, <3>2, <3>3 DEF RingPlaces
  <2>10. RingOrder'
    <3>1. \A f \in Frames : Pending(f) => content[f] \in Nat /\ content[f] <= arrived /\ f # k
      BY <1>2, <1>4, <2>3 DEF RingOrder, RingView
    <3>2. \A f \in Frames : Pending(f)' => content'[f] <= arrived'
      BY <1>1, <1>2, <2>3, <2>4, <3>1 DEF Blank
    <3>3. ASSUME NEW f \in Frames, NEW g \in Frames, Pending(f)', Pending(g)', At(f) < At(g),
                 content'[f] # Blank, content'[g] # Blank
          PROVE  content'[f] < content'[g]
      <4>1. CASE g = k
        <5>0. f # k
          BY <1>2, <3>3, <4>1 DEF RingView
        <5>1. Pending(f) /\ f # k
          BY <2>3, <3>3, <5>0
        <5>2. what = arrived + 1
          BY <1>1, <2>4, <3>3, <4>1
        <5> QED BY <1>2, <2>4, <3>1, <4>1, <5>1, <5>2
      <4>2. CASE g # k
        <5>1. Pending(g) /\ Pending(f)
          BY <1>2, <2>3, <3>3, <4>2, SMTT(30) DEF Pending, RingView
        <5>2. f # k
          BY <2>3, <5>1
        <5> QED BY <1>4, <2>4, <3>3, <4>2, <5>1, <5>2 DEF RingOrder
      <4> QED BY <4>1, <4>2
    <3>4. \A i \in 1..Len(Line) : content'[Line[i].buf] = Line[i].id /\ Line[i].id \in 1..arrived'
      BY <1>1, <1>2, <1>4, <2>6 DEF RingOrder
    <3>5. ASSUME NEW i \in 1..Len(Line), NEW f \in Frames, Pending(f)', content'[f] # Blank
          PROVE  Line[i].id < content'[f]
      <4>1. CASE f = k
        BY <1>1, <1>2, <1>4, <2>4, <3>5, <4>1 DEF RingOrder
      <4>2. CASE f # k
        BY <1>4, <2>3, <2>4, <3>5, <4>2 DEF RingOrder
      <4> QED BY <4>1, <4>2
    <3>6. \A i, j \in 1..Len(Line) : i < j => Line[i].id < Line[j].id
      BY <1>4 DEF RingOrder
    <3> QED BY <1>3, <2>3, <3>2, <3>3, <3>4, <3>5, <3>6 DEF RingOrder
  <2>11. ParsedOrder'
    <3>1. \A i \in 1..Len(parsed) : parsed[i] \in 1..arrived /\ parsed[i] \in 1..arrived'
      BY <1>1, <1>2, <1>4 DEF ParsedOrder
    <3>2. ASSUME NEW i \in 1..Len(parsed), NEW f \in Frames, Pending(f)', content'[f] # Blank
          PROVE  parsed[i] < content'[f]
      <4>1. CASE f = k
        BY <1>1, <1>2, <2>4, <3>1, <3>2, <4>1
      <4>2. CASE f # k
        BY <1>4, <2>3, <2>4, <3>2, <4>2 DEF ParsedOrder
      <4> QED BY <4>1, <4>2
    <3> QED BY <1>1, <1>3, <1>4, <3>1, <3>2 DEF ParsedOrder
  <2>12. RingPush'
    BY <1>1, <1>2, <1>4, <1>6, <2>2, <2>4 DEF RingPush
  <2> QED BY <2>8, <2>9, <2>10, <2>11, <2>12 DEF RingState
<1> QED BY <1>5, <1>6

\* A step that leaves frames, line and traffic alone.
LEMMA RingUntouched ==
    ASSUME RingState, UNCHANGED <<content, status, k_idx, frame_idx, arrived, foreign, parsed>>, Line' = Line,
           w_pc' = "release" <=> w_pc = "release", RingPush'
    PROVE  RingState'
<1>1. (\A f \in Frames : At(f)' = At(f)) /\ Ahead' = Ahead
  BY DEF At, Ahead
<1>2. \A f \in Frames : (Pending(f)' <=> Pending(f)) /\ (InLine(f)' <=> InLine(f))
  BY <1>1 DEF Pending, InLine
<1>3. PendingForeign' = PendingForeign
  BY <1>2 DEF PendingForeign
<1>4. RingStatus' /\ RingOrder'
  BY <1>1, <1>2 DEF RingState, RingStatus, RingOrder
<1>5. ParsedOrder'
  BY <1>2 DEF RingState, ParsedOrder
<1>6. RingPlaces'
  BY <1>1, <1>3 DEF RingState, RingPlaces
<1> QED BY <1>4, <1>5, <1>6 DEF RingState

\* A frame the receiver finds in user space is a pending one.
LEMMA LookedAt ==
    ASSUME RingView, HandoffType, status[frame_idx] = "USER"
    PROVE  frame_idx \in Frames /\ Pending(frame_idx)
<1>1. frame_idx \in Frames /\ Ahead \in 0..FrameNr /\ Ahead # 0 /\ At(frame_idx) = 0
  BY DEF RingView, HandoffType
<1> QED BY <1>1 DEF Pending

\* The receiver skips a foreign frame.
LEMMA SkipKeepsRing ==
    ASSUME RingToSpare, mode = "packet_mmap", HandoffType, HandoffType', RingState, PollForeign
    PROVE  RingState'
<1>1. /\ status[frame_idx] = "USER" /\ content[frame_idx] = Blank /\ frame_idx' = NextFrame(frame_idx)
      /\ status' = [status EXCEPT ![frame_idx] = "KERNEL"] /\ c_pc' = "poll"
      /\ UNCHANGED <<mode, content, queue, batch, w_pc, parsed, arrived, foreign, k_idx>>
  BY DEF PollForeign, workerVars, trafficVars
<1>2. /\ RingView /\ RingView' /\ arrived \in 0..MaxPackets /\ foreign \in 0..ForeignMax
      /\ status \in [Frames -> {"KERNEL", "USER"}]
  BY <1>1, RingViewHolds, RingViewNext DEF HandoffType
<1>3. Line' = Line
  BY <1>1 DEF Line
<1>4. RingStatus /\ RingPlaces /\ RingOrder /\ ParsedOrder
  BY DEF RingState
<1>5. PICK r \in Frames : r = frame_idx /\ r \in PendingForeign
  BY <1>1, <1>2, LookedAt DEF PendingForeign
<1>6. /\ Cardinality(PendingForeign \ {r}) = Cardinality(PendingForeign) - 1
      /\ Cardinality(PendingForeign) \in Nat /\ Cardinality(PendingForeign) >= 1 /\ Len(Line) \in Nat
  <2>1. IsFiniteSet(PendingForeign) /\ Cardinality(PendingForeign) \in Nat /\ Len(Line) \in Nat
    BY <1>2 DEF RingView
  <2>2. Cardinality(PendingForeign \ {r}) = Cardinality(PendingForeign) - 1 /\ IsFiniteSet(PendingForeign \ {r})
    BY <1>5, <2>1, FS_RemoveElement
  <2>3. Cardinality(PendingForeign \ {r}) \in Nat
    BY <2>2, FS_CardinalityType
  <2> QED BY <2>1, <2>2, <2>3
<1>7. /\ ~InLine(r) /\ Ahead' = Ahead - 1
      /\ \A f \in Frames : f # r => At(f)' = At(f) - 1 /\ At(f) > 0
      /\ \A f \in Frames : Pending(f)' <=> Pending(f) /\ f # r
  <2>1. Len(Line) + foreign < FrameNr + Cardinality(PendingForeign) - 1
    <3>1. Len(Line) <= QueueCap + BatchMax
      BY <1>2 DEF RingView
    <3> QED BY <1>2, <1>6, <3>1 DEF RingToSpare
  <2>2. status'[frame_idx] = "KERNEL" /\ \A f \in Frames : f # frame_idx => status'[f] = status[f]
    BY <1>1, <1>2, <1>5
  <2> QED BY <1>1, <1>2, <1>4, <1>5, <2>1, <2>2, FrameLeft
<1>8. PendingForeign' = PendingForeign \ {r}
  BY <1>1, <1>7 DEF PendingForeign
<1>9. \A f \in Frames : InLine(f)' <=> InLine(f)
  BY <1>3 DEF InLine
<1>10. \A i \in 1..Len(Line) : Line[i].buf \in Frames /\ Line[i].buf # r
  BY <1>2, <1>7 DEF InLine, RingView
<1>11. \A f \in Frames : At(f) \in Nat
  BY <1>2 DEF RingView
<1>12. Ahead \in Nat
  BY <1>2 DEF RingView
<1>13. RingStatus'
  BY <1>1, <1>2, <1>4, <1>5, <1>7, <1>9 DEF RingStatus
<1>14. RingPlaces'
  <2>1. \A i \in 1..Len(Line) : Ahead - 1 <= At(Line[i].buf) - 1
    BY <1>4, <1>10, <1>11, <1>12 DEF RingPlaces
  <2>2. \A i, j \in 1..Len(Line) : i < j => At(Line[i].buf) - 1 < At(Line[j].buf) - 1
    BY <1>4, <1>10, <1>11, SMTT(30) DEF RingPlaces
  <2>3. Cardinality(PendingForeign') = Cardinality(PendingForeign) - 1 /\ Cardinality(PendingForeign') <= foreign'
    BY <1>1, <1>2, <1>4, <1>6, <1>8 DEF RingPlaces
  <2>4. ASSUME NEW i \in 1..Len(Line)
        PROVE  FrameNr - (At(Line[i].buf) - 1) + Cardinality(PendingForeign') <= Len(Line) - i + 1 + foreign'
    <3>1. FrameNr - At(Line[i].buf) + Cardinality(PendingForeign) <= Len(Line) - i + 1 + foreign
      BY <1>4 DEF RingPlaces
    <3>2. At(Line[i].buf) \in Nat
      BY <1>10, <1>11
    <3> QED BY <1>1, <1>2, <1>6, <2>3, <3>1, <3>2
  <2> QED BY <1>3, <1>7, <1>10, <2>1, <2>2, <2>3, <2>4 DEF RingPlaces
<1>15. RingOrder'
  <2>1. ASSUME NEW f \in Frames, NEW g \in Frames, Pending(f)', Pending(g)', At(f)' < At(g)',
               content[f] # Blank, content[g] # Blank
        PROVE  content[f] < content[g]
    <3>1. Pending(f) /\ Pending(g) /\ At(f) < At(g)
      BY <1>7, <1>11, <2>1
    <3> QED BY <1>4, <2>1, <3>1 DEF RingOrder
  <2> QED BY <1>1, <1>3, <1>4, <1>7, <2>1 DEF RingOrder
<1>16. ParsedOrder' /\ RingPush'
  BY <1>1, <1>3, <1>4, <1>7 DEF ParsedOrder, RingPush
<1> QED BY <1>13, <1>14, <1>15, <1>16 DEF RingState

\* The receiver delegates the frame it looked at to the worker.
LEMMA PushKeepsRing ==
    ASSUME RingToSpare, mode = "packet_mmap", HandoffType, HandoffType', RingState, Push
    PROVE  RingState'
<1>1. /\ c_pc = "push" /\ ~QueueFull /\ queue' = Append(queue, Packet(frame_idx)) /\ c_pc' = "poll"
      /\ frame_idx' = NextFrame(frame_idx)
      /\ UNCHANGED <<mode, content, batch, w_pc, parsed, arrived, foreign, status, k_idx>>
  BY DEF Push, trafficVars
<1>2. /\ RingView /\ RingView' /\ arrived \in 0..MaxPackets /\ foreign \in 0..ForeignMax
      /\ status \in [Frames -> {"KERNEL", "USER"}]
  BY <1>1, RingViewHolds, RingViewNext DEF HandoffType
<1>4. RingStatus /\ RingPlaces /\ RingOrder /\ ParsedOrder /\ RingPush
  BY DEF RingState
<1>5. PICK r \in Frames : r = frame_idx /\ Pending(r) /\ content[r] # Blank /\ status[r] = "USER"
  BY <1>1, <1>2, <1>4, LookedAt DEF RingPush
<1>0. PICK n \in Nat : n = Len(Line)
  BY <1>2 DEF RingView
<1> DEFINE p == Packet(frame_idx)
<1>3. /\ p.buf = r /\ p.id = content[r] /\ Len(Line') = n + 1 /\ Line'[n + 1] = p
      /\ \A i \in 1..n : Line'[i] = Line[i]
  <2>1. p \in Packets /\ p.buf = frame_idx /\ p.id = content[frame_idx]
    BY <1>1, <1>5, PushType DEF BuffersOf
  <2> QED BY <1>0, <1>1, <1>5, <2>1, LineGrows
<1> HIDE DEF p
<1>6. Cardinality(PendingForeign) \in Nat
  BY <1>2 DEF RingView
<1>7. /\ ~InLine(r) /\ Ahead' = Ahead - 1 /\ At(r)' = FrameNr - 1
      /\ \A f \in Frames : f # r => At(f)' = At(f) - 1 /\ At(f) > 0
      /\ \A f \in Frames : Pending(f)' <=> Pending(f) /\ f # r
  <2>1. n + foreign < FrameNr + Cardinality(PendingForeign) - 1
    <3>1. n <= QueueCap - 1 + BatchMax
      BY <1>0, <1>1, LineType DEF HandoffType, QueueFull
    <3> QED BY <1>2, <1>3, <1>6, <3>1 DEF RingToSpare
  <2>2. FrameNr > 1
    BY DEF RingToSpare
  <2> QED BY <1>0, <1>1, <1>2, <1>4, <1>5, <2>1, <2>2, FrameLeft
<1>8. PendingForeign' = PendingForeign
  BY <1>1, <1>5, <1>7 DEF PendingForeign
<1>9. \A f \in Frames : InLine(f)' <=> InLine(f) \/ f = r
  BY <1>0, <1>3 DEF InLine
<1>10. \A i \in 1..n : Line[i].buf \in Frames /\ Line[i].buf # r
  BY <1>0, <1>2, <1>7 DEF InLine, RingView
<1>11. \A f \in Frames : At(f) \in 0..(FrameNr - 1)
  BY <1>2 DEF RingView
<1>12. Ahead \in 0..FrameNr
  BY <1>2 DEF RingView
<1>13. RingStatus'
  BY <1>1, <1>4, <1>5, <1>7, <1>9 DEF RingStatus
<1>14. RingPlaces'
  <2>0. \A i \in 1..n : At(Line[i].buf) \in 0..(FrameNr - 1) /\ At(Line[i].buf)' = At(Line[i].buf) - 1
    <3> TAKE i \in 1..n
    <3>1. PICK f \in Frames : f = Line[i].buf /\ f # r
      BY <1>10
    <3>2. At(f) \in 0..(FrameNr - 1) /\ At(f)' = At(f) - 1
      BY <1>7, <1>11, <3>1
    <3>3. Line'[i].buf = f
      BY <1>3, <3>1
    <3> QED BY <3>1, <3>2, <3>3
  <2>1. At(Line[n + 1].buf)' = FrameNr - 1
    <3>1. Line'[n + 1].buf = r /\ At(r)' = FrameNr - 1
      BY <1>3, <1>7
    <3> QED BY <1>3, <3>1
  <2>2. \A i \in 1..n : /\ Ahead <= At(Line[i].buf)
                       /\ FrameNr - At(Line[i].buf) + Cardinality(PendingForeign) <= n - i + 1 + foreign
    BY <1>0, <1>4 DEF RingPlaces
  <2>3. \A i \in 1..(n + 1) : i \in 1..n \/ i = n + 1
    OBVIOUS
  <2>4. ASSUME NEW i \in 1..(n + 1) PROVE Line'[i].buf \in Frames /\ Ahead' <= At(Line[i].buf)'
    <3>1. CASE i \in 1..n
      <4>1. Line'[i].buf \in Frames
        BY <1>3, <1>10, <3>1
      <4>2. Ahead <= At(Line[i].buf) /\ At(Line[i].buf) \in 0..(FrameNr - 1) /\ At(Line[i].buf)' = At(Line[i].buf) - 1
        BY <2>0, <2>2, <3>1
      <4> QED BY <1>7, <1>12, <4>1, <4>2
    <3>2. CASE i = n + 1
      BY <1>3, <1>7, <1>12, <2>1, <3>2
    <3> QED BY <2>3, <3>1, <3>2
  <2>5. ASSUME NEW i \in 1..(n + 1), NEW j \in 1..(n + 1), i < j PROVE At(Line[i].buf)' < At(Line[j].buf)'
    <3>0. i \in 1..n
      BY <2>5
    <3>1. CASE j \in 1..n
      <4>1. At(Line[i].buf) < At(Line[j].buf)
        BY <1>0, <1>4, <2>5, <3>0, <3>1 DEF RingPlaces
      <4> QED BY <2>0, <3>0, <3>1, <4>1
    <3>2. CASE j = n + 1
      BY <2>0, <2>1, <3>0, <3>2
    <3> QED BY <2>3, <3>1, <3>2
  <2>6. Cardinality(PendingForeign) <= foreign
    BY <1>4 DEF RingPlaces
  <2>7. ASSUME NEW i \in 1..(n + 1)
        PROVE  FrameNr - At(Line[i].buf)' + Cardinality(PendingForeign) <= (n + 1) - i + 1 + foreign
    <3>1. CASE i \in 1..n
      BY <1>2, <1>6, <2>0, <2>2, <3>1
    <3>2. CASE i = n + 1
      BY <1>2, <1>6, <2>1, <2>6, <3>2
    <3> QED BY <2>3, <3>1, <3>2
  <2> QED BY <1>1, <1>3, <1>8, <2>4, <2>5, <2>6, <2>7 DEF RingPlaces
<1>15. RingOrder'
  <2>0. content \in [Frames -> Nat]
    BY <1>2 DEF RingView
  <2>1. ASSUME NEW f \in Frames, NEW g \in Frames, Pending(f)', Pending(g)', At(f)' < At(g)',
               content[f] # Blank, content[g] # Blank
        PROVE  content[f] < content[g]
    <3>1. Pending(f) /\ Pending(g) /\ At(f) < At(g)
      BY <1>7, <1>11, <2>1
    <3> QED BY <1>4, <2>1, <3>1 DEF RingOrder
  <2>2. content[r] \in 1..arrived
    BY <1>2, <1>4, <1>5, <2>0 DEF RingOrder, Blank
  <2>3. ASSUME NEW i \in 1..(n + 1) PROVE content[Line'[i].buf] = Line'[i].id /\ Line'[i].id \in 1..arrived
    <3>1. CASE i \in 1..n
      BY <1>0, <1>3, <1>4, <3>1 DEF RingOrder
    <3>2. CASE i = n + 1
      BY <1>3, <2>2, <3>2
    <3> QED BY <3>1, <3>2
  <2>4. ASSUME NEW i \in 1..(n + 1), NEW j \in 1..(n + 1), i < j PROVE Line'[i].id < Line'[j].id
    <3>0. i \in 1..n /\ (j \in 1..n \/ j = n + 1)
      BY <2>4
    <3> QED BY <1>0, <1>3, <1>4, <1>5, <2>4, <3>0 DEF RingOrder
  <2>5. ASSUME NEW i \in 1..(n + 1), NEW f \in Frames, Pending(f)', content[f] # Blank
        PROVE  Line'[i].id < content[f]
    <3>0. Pending(f) /\ f # r
      BY <1>7, <2>5
    <3>1. CASE i \in 1..n
      BY <1>0, <1>3, <1>4, <2>5, <3>0, <3>1 DEF RingOrder
    <3>2. CASE i = n + 1
      <4>1. At(r) < At(f)
        BY <1>2, <1>5, <1>7, <3>0 DEF RingView
      <4>2. content[r] < content[f]
        BY <1>4, <1>5, <2>5, <3>0, <4>1 DEF RingOrder
      <4> QED BY <1>3, <3>2, <4>2
    <3> QED BY <3>1, <3>2
  <2> QED BY <1>1, <1>3, <1>4, <1>7, <2>1, <2>3, <2>4, <2>5 DEF RingOrder
<1>16. ParsedOrder'
  <2>1. ASSUME NEW i \in 1..Len(parsed), NEW j \in 1..(n + 1), j > 1 \/ w_pc # "release"
        PROVE  parsed[i] < Line'[j].id
    <3>1. CASE j \in 1..n
      BY <1>0, <1>3, <1>4, <2>1, <3>1 DEF ParsedOrder
    <3>2. CASE j = n + 1
      BY <1>3, <1>4, <1>5, <3>2 DEF ParsedOrder
    <3> QED BY <3>1, <3>2
  <2> QED BY <1>1, <1>3, <1>4, <1>7, <2>1 DEF ParsedOrder
<1>17. RingPush'
  BY <1>1 DEF RingPush
<1> QED BY <1>13, <1>14, <1>15, <1>16, <1>17 DEF RingState

\* The worker parses the oldest packet of the line.
LEMMA ParseKeepsRing ==
    ASSUME mode = "packet_mmap", HandoffType, HandoffType', RingState, Parse
    PROVE  RingState'
<1>1. /\ w_pc = "parse" /\ parsed' = Append(parsed, content[Head(batch).buf]) /\ w_pc' = "release"
      /\ UNCHANGED <<mode, content, queue, batch, arrived, foreign, status, k_idx, frame_idx, c_pc>>
  BY DEF Parse, WorkerParse, trafficVars, ringVars
<1>2. RingView /\ Len(Line) >= 1 /\ Line[1] = Head(batch) /\ parsed \in Seq(Nat) /\ arrived \in Nat
  BY <1>1, RingViewHolds, LineType DEF HandoffType
<1>3. Line' = Line
  BY <1>1 DEF Line
<1>4. RingStatus /\ RingPlaces /\ RingOrder /\ ParsedOrder /\ RingPush
  BY DEF RingState
<1>5. (\A f \in Frames : At(f)' = At(f)) /\ Ahead' = Ahead
  BY <1>1 DEF At, Ahead
<1>6. \A f \in Frames : (Pending(f)' <=> Pending(f)) /\ (InLine(f)' <=> InLine(f))
  BY <1>3, <1>5 DEF Pending, InLine
<1>7. PendingForeign' = PendingForeign
  BY <1>1, <1>6 DEF PendingForeign
<1>8. RingStatus' /\ RingOrder' /\ RingPush'
  BY <1>1, <1>3, <1>4, <1>5, <1>6 DEF RingStatus, RingOrder, RingPush
<1>9. RingPlaces'
  BY <1>1, <1>3, <1>4, <1>5, <1>7 DEF RingPlaces
<1>10. PICK e \in 1..arrived : e = Line[1].id /\ parsed' = Append(parsed, e)
  <2>1. 1 \in 1..Len(Line)
    BY <1>2 DEF RingView
  <2>2. content[Line[1].buf] = Line[1].id /\ Line[1].id \in 1..arrived
    BY <1>4, <2>1 DEF RingOrder
  <2> QED BY <1>1, <1>2, <2>2
<1>11. /\ Len(parsed') = Len(parsed) + 1 /\ parsed'[Len(parsed) + 1] = e /\ Len(parsed) \in Nat
       /\ \A i \in 1..Len(parsed) : parsed'[i] = parsed[i]
  BY <1>2, <1>10
<1>12. ParsedOrder'
  <2> DEFINE n == Len(parsed)
  <2>1. \A i \in 1..n : parsed[i] \in 1..arrived /\ parsed[i] < e
    <3>1. 1 \in 1..Len(Line) /\ w_pc # "release"
      BY <1>1, <1>2 DEF RingView
    <3> QED BY <1>4, <1>10, <3>1 DEF ParsedOrder
  <2>2. \A i \in 1..(n + 1) : i \in 1..n \/ i = n + 1
    BY <1>11
  <2>3. \A i \in 1..(n + 1) : parsed'[i] \in 1..arrived
    BY <1>11, <2>1, <2>2
  <2>4. ASSUME NEW i \in 1..(n + 1), NEW j \in 1..(n + 1), i < j PROVE parsed'[i] < parsed'[j]
    <3>1. i \in 1..n
      BY <1>11, <2>4
    <3>2. CASE j \in 1..n
      BY <1>4, <1>11, <2>4, <3>1, <3>2 DEF ParsedOrder
    <3>3. CASE j = n + 1
      BY <1>11, <2>1, <3>1, <3>3
    <3> QED BY <2>2, <3>2, <3>3
  <2>5. ASSUME NEW i \in 1..(n + 1), NEW j \in 1..Len(Line), j > 1 PROVE parsed'[i] < Line[j].id
    <3>1. CASE i \in 1..n
      BY <1>4, <1>11, <2>5, <3>1 DEF ParsedOrder
    <3>2. CASE i = n + 1
      BY <1>2, <1>4, <1>10, <1>11, <2>5, <3>2 DEF RingOrder
    <3> QED BY <2>2, <3>1, <3>2
  <2>6. ASSUME NEW i \in 1..(n + 1), NEW f \in Frames, Pending(f), content[f] # Blank PROVE parsed'[i] < content[f]
    <3>1. CASE i \in 1..n
      BY <1>4, <1>11, <2>6, <3>1 DEF ParsedOrder
    <3>2. CASE i = n + 1
      <4>1. 1 \in 1..Len(Line)
        BY <1>2 DEF RingView
      <4> QED BY <1>4, <1>10, <1>11, <2>6, <3>2, <4>1 DEF RingOrder
    <3> QED BY <2>2, <3>1, <3>2
  <2> QED BY <1>1, <1>3, <1>6, <1>11, <2>3, <2>4, <2>5, <2>6 DEF ParsedOrder
<1> QED BY <1>8, <1>9, <1>12 DEF RingState

\* The worker gives the frame of the oldest packet back to the kernel.
LEMMA ReleaseKeepsRing ==
    ASSUME mode = "packet_mmap", HandoffType, HandoffType', RingState, Finish
    PROVE  RingState'
<1>1. /\ WorkerNext /\ w_pc = "release" /\ status' = [status EXCEPT ![Head(batch).buf] = "KERNEL"]
      /\ UNCHANGED <<mode, content, queue, parsed, arrived, foreign, k_idx, frame_idx, c_pc>>
  BY DEF Finish, Release, WorkerNext, trafficVars
<1>2. /\ RingView /\ Len(Line) >= 1 /\ Line[1] = Head(batch) /\ status \in [Frames -> {"KERNEL", "USER"}]
      /\ frame_idx \in Frames /\ k_idx \in Frames /\ foreign \in Nat
  BY <1>1, RingViewHolds, LineType DEF HandoffType
<1>0. PICK n \in Nat : n = Len(Line) /\ n >= 1
  BY <1>2 DEF RingView
<1>3. /\ Len(Line') = n - 1 /\ (\A i \in 1..(n - 1) : Line'[i] = Line[i + 1]) /\ w_pc' # "release"
  BY <1>0, <1>1, LineShrinks
<1>4. RingStatus /\ RingPlaces /\ RingOrder /\ ParsedOrder /\ RingPush
  BY DEF RingState
<1>5. PICK r \in Frames : r = Line[1].buf /\ Ahead <= At(r)
  <2>1. 1 \in 1..Len(Line)
    BY <1>0
  <2> QED BY <1>4, <2>1 DEF RingPlaces
<1>6. \A f \in Frames : status'[f] = IF f = r THEN "KERNEL" ELSE status[f]
  BY <1>1, <1>2, <1>5
<1>7. \A f \in Frames : At(f) \in 0..(FrameNr - 1) /\ At(f)' = At(f)
  BY <1>1, <1>2 DEF At, RingView
<1>8. Ahead' = Ahead
  <2>1. CASE k_idx # frame_idx
    BY <1>1, <2>1 DEF Ahead, At
  <2>2. CASE k_idx = frame_idx
    <3>1. Ahead # FrameNr
      BY <1>2, <1>5, <1>7
    <3>2. status[k_idx] # "USER"
      BY <2>2, <3>1 DEF Ahead
    <3>3. status'[k_idx'] # "USER"
      BY <1>1, <1>2, <1>6, <3>2
    <3> QED BY <1>1, <2>2, <3>2, <3>3 DEF Ahead
  <2> QED BY <2>1, <2>2
<1>9. \A f \in Frames : Pending(f)' <=> Pending(f)
  BY <1>7, <1>8 DEF Pending
<1>10. PendingForeign' = PendingForeign
  BY <1>1, <1>9 DEF PendingForeign
<1>11. \A i \in 1..(n - 1) : i + 1 \in 1..n /\ Line'[i] = Line[i + 1]
  BY <1>0, <1>3
<1>12. \A i \in 1..n : Line[i].buf \in Frames /\ (i > 1 => At(r) < At(Line[i].buf))
  BY <1>0, <1>4, <1>5 DEF RingPlaces
<1>13. \A f \in Frames : InLine(f)' <=> InLine(f) /\ f # r
  <2> TAKE f \in Frames
  <2>1. ASSUME NEW i \in 1..(n - 1), Line'[i].buf = f PROVE InLine(f) /\ f # r
    <3>1. i + 1 \in 1..n /\ i + 1 > 1 /\ Line[i + 1].buf = f
      BY <1>11, <2>1
    <3>2. At(r) < At(f)
      BY <1>12, <3>1
    <3> QED BY <1>0, <1>7, <3>1, <3>2 DEF InLine
  <2>2. ASSUME NEW i \in 1..n, Line[i].buf = f, f # r PROVE \E j \in 1..(n - 1) : Line'[j].buf = f
    <3>1. i # 1
      BY <1>5, <2>2
    <3>2. i - 1 \in 1..(n - 1) /\ (i - 1) + 1 = i
      BY <3>1
    <3>3. Line'[i - 1] = Line[i]
      BY <1>11, <3>2
    <3> QED BY <2>2, <3>2, <3>3
  <2> QED BY <1>0, <1>3, <2>1, <2>2 DEF InLine
<1>14. RingStatus'
  <2>1. ~Pending(r)
    BY <1>2, <1>5, <1>7 DEF Pending, RingView
  <2> QED BY <1>4, <1>6, <1>9, <1>13, <2>1 DEF RingStatus
<1>15. RingPlaces'
  <2>1. \A i \in 1..n : /\ Line[i].buf \in Frames /\ Ahead <= At(Line[i].buf)
                       /\ FrameNr - At(Line[i].buf) + Cardinality(PendingForeign) <= n - i + 1 + foreign
    BY <1>0, <1>4 DEF RingPlaces
  <2>2. ASSUME NEW i \in 1..(n - 1)
        PROVE  /\ Line'[i].buf \in Frames /\ At(Line[i].buf)' = At(Line[i + 1].buf)
               /\ Ahead' <= At(Line[i].buf)'
               /\ FrameNr - At(Line[i].buf)' + Cardinality(PendingForeign') <= (n - 1) - i + 1 + foreign'
    <3>1. PICK f \in Frames : f = Line[i + 1].buf /\ f = Line'[i].buf
      BY <1>11, <2>1
    <3>2. At(f)' = At(f)
      BY <1>7
    <3>3. At(Line[i].buf)' = At(Line[i + 1].buf)
      BY <3>1, <3>2
    <3>4. i + 1 \in 1..n /\ n - (i + 1) + 1 = (n - 1) - i + 1
      BY <1>11
    <3> QED BY <1>1, <1>8, <1>10, <2>1, <3>1, <3>3, <3>4
  <2>3. ASSUME NEW i \in 1..(n - 1), NEW j \in 1..(n - 1), i < j PROVE At(Line[i].buf)' < At(Line[j].buf)'
    <3>1. i + 1 \in 1..n /\ j + 1 \in 1..n /\ i + 1 < j + 1
      BY <1>11, <2>3
    <3>2. At(Line[i + 1].buf) < At(Line[j + 1].buf)
      BY <1>0, <1>4, <3>1 DEF RingPlaces
    <3> QED BY <2>2, <3>2
  <2>4. Cardinality(PendingForeign') <= foreign'
    BY <1>1, <1>4, <1>10 DEF RingPlaces
  <2> QED BY <1>3, <2>2, <2>3, <2>4 DEF RingPlaces
<1>16. RingOrder'
  <2>1. \A i \in 1..(n - 1) : content[Line'[i].buf] = Line'[i].id /\ Line'[i].id \in 1..arrived
    BY <1>0, <1>4, <1>11 DEF RingOrder
  <2>2. \A i, j \in 1..(n - 1) : i < j => Line'[i].id < Line'[j].id
    BY <1>0, <1>4, <1>11 DEF RingOrder
  <2>3. \A i \in 1..(n - 1), f \in Frames : Pending(f) /\ content[f] # Blank => Line'[i].id < content[f]
    BY <1>0, <1>4, <1>11 DEF RingOrder
  <2> QED BY <1>1, <1>3, <1>4, <1>7, <1>9, <2>1, <2>2, <2>3 DEF RingOrder
<1>17. ParsedOrder'
  <2>1. \A i \in 1..Len(parsed), j \in 1..(n - 1) : parsed[i] < Line'[j].id
    <3> TAKE i \in 1..Len(parsed), j \in 1..(n - 1)
    <3>1. j + 1 \in 1..Len(Line) /\ j + 1 > 1 /\ Line'[j] = Line[j + 1]
      BY <1>0, <1>11
    <3> QED BY <1>4, <3>1 DEF ParsedOrder
  <2> QED BY <1>1, <1>3, <1>4, <1>9, <2>1 DEF ParsedOrder
<1>18. RingPush'
  <2>1. c_pc = "push" => r # frame_idx
    <3>1. c_pc = "push" => Pending(frame_idx)
      BY <1>2, <1>4, LookedAt DEF RingPush
    <3> QED BY <1>2, <1>5, <1>7, <3>1 DEF Pending, RingView
  <2> QED BY <1>1, <1>2, <1>4, <1>6, <2>1 DEF RingPush
<1> QED BY <1>14, <1>15, <1>16, <1>17, <1>18 DEF RingState

----------------------------------------------------------------------------
\* The ring as it was mapped: nothing is pending and the line is empty.
LEMMA FreshRing ==
    ASSUME HandoffType', mode' = "packet_mmap", queue' = <<>>, batch' = <<>>, parsed' = <<>>, c_pc' = "poll",
           status' = [f \in Frames |-> "KERNEL"], k_idx' = 0, frame_idx' = 0
    PROVE  RingState'
<1>1. RingView'
  BY RingViewNext
<1>2. Ahead' = 0
  BY DEF Ahead, Frames
<1>3. \A f \in Frames : ~Pending(f)'
  <2>1. \A f \in Frames : At(f)' \in 0..(FrameNr - 1)
    BY <1>1 DEF RingView
  <2> QED BY <1>2, <2>1 DEF Pending
<1>4. Line' = <<>> /\ Len(Line') = 0
  BY DEF Line
<1>5. PendingForeign' = {}
  BY <1>3 DEF PendingForeign
<1>6. Cardinality(PendingForeign') = 0
  BY <1>5, FS_EmptySet
<1>7. RingStatus'
  BY <1>3, <1>4 DEF RingStatus, InLine
<1>8. RingPlaces'
  BY <1>4, <1>6 DEF RingPlaces, HandoffType
<1>9. RingOrder' /\ ParsedOrder' /\ RingPush'
  BY <1>3, <1>4 DEF RingOrder, ParsedOrder, RingPush
<1> QED BY <1>7, <1>8, <1>9 DEF RingState

\* Every step keeps the frame ring in order, if the ring is large enough.
LEMMA StepKeepsRing == RingToSpare /\ BaseInv /\ BaseInv' /\ RingInv /\ [Next]_vars => RingInv'
<1> SUFFICES ASSUME RingToSpare, BaseInv, BaseInv', RingInv, [Next]_vars, mode' = "packet_mmap" PROVE RingState'
  BY DEF RingInv
<1>0. HandoffType /\ NothingYet /\ XdpInv /\ HandoffType'
  BY DEF BaseInv
<1>1. CASE mode = NoReceiver
  <2>1. UNCHANGED vars \/ Create
    <3>1. CASE RingReceiver \/ RingDatagram \/ RingForeign \/ XdpDatagram \/ XdpForeign
      BY <1>0, <1>1, <3>1, RingReceiverType DEF RingDatagram, RingForeign, XdpDatagram, XdpForeign, NoReceiver
    <3>2. CASE XdpReceiver
      BY <1>0, <1>1, <3>2, RoundMovesFrames DEF NoReceiver
    <3>3. CASE Worker
      BY <1>0, <1>1, <3>3, WorkerType DEF Worker
    <3> QED BY <3>1, <3>2, <3>3 DEF Next, Kernel, Receiver
  <2>2. UNCHANGED <<queue, batch, parsed, ringVars>>
    BY <2>1 DEF vars, workerVars, Create, InitUmem, MapRing, BindUdp, Install
  <2> QED BY <1>0, <1>1, <2>2, FreshRing DEF NothingYet, ringVars
<1>2. CASE mode # NoReceiver
  <2>0. mode = "packet_mmap"
    <3>1. CASE Create
      BY <1>2, <3>1 DEF Create
    <3>2. CASE Kernel \/ Receiver
      BY <1>0, <3>2, RingReceiverType, RoundMovesFrames
         DEF Kernel, Receiver, RingDatagram, RingForeign, XdpDatagram, XdpForeign
    <3>3. CASE Worker
      BY <1>0, <3>3, WorkerType DEF Worker
    <3>4. CASE UNCHANGED vars
      BY <3>4 DEF vars
    <3> QED BY <3>1, <3>2, <3>3, <3>4 DEF Next
  <2>1. RingState
    BY <2>0 DEF RingInv
  <2>2. CASE UNCHANGED vars \/ PollEmpty
    <3>1. UNCHANGED <<mode, content, queue, batch, w_pc, parsed, arrived, foreign, status, k_idx, frame_idx, c_pc>>
      BY <2>2 DEF vars, PollEmpty, workerVars, trafficVars, ringVars
    <3>2. Line' = Line /\ RingPush'
      BY <2>1, <3>1 DEF Line, RingState, RingPush
    <3> QED BY <2>1, <3>1, <3>2, RingUntouched
  <2>3. CASE PollMatch
    <3>1. /\ UNCHANGED <<mode, content, queue, batch, w_pc, parsed, arrived, foreign, status, k_idx, frame_idx>>
          /\ status[frame_idx] = "USER" /\ content[frame_idx] # Blank
      BY <2>3 DEF PollMatch, workerVars, trafficVars
    <3>2. Line' = Line /\ RingPush'
      BY <3>1 DEF Line, RingPush
    <3> QED BY <2>1, <3>1, <3>2, RingUntouched
  <2>4. CASE Pop
    <3>1. PICK n \in 1..BatchMax : WorkerPop(n) /\ UNCHANGED ringVars
      BY <2>4 DEF Pop
    <3>2. /\ UNCHANGED <<mode, content, parsed, arrived, foreign, status, k_idx, frame_idx, c_pc>>
          /\ w_pc = "poll" /\ w_pc' = "parse" /\ Line' = Line
      BY <1>0, <3>1, LinePopped DEF WorkerPop, trafficVars, ringVars
    <3>3. RingPush'
      BY <2>1, <3>2 DEF RingState, RingPush
    <3> QED BY <2>1, <3>2, <3>3, RingUntouched
  <2>5. CASE RingDatagram \/ RingForeign
    BY <1>0, <2>0, <2>1, <2>5, FillKeepsRing
  <2>6. CASE PollForeign
    BY <1>0, <2>0, <2>1, <2>6, SkipKeepsRing
  <2>7. CASE Push
    BY <1>0, <2>0, <2>1, <2>7, PushKeepsRing
  <2>8. CASE Parse
    BY <1>0, <2>0, <2>1, <2>8, ParseKeepsRing
  <2>9. CASE Finish
    BY <1>0, <2>0, <2>1, <2>9, ReleaseKeepsRing
  <2>10. CASE Recv \/ RecvNothing \/ PushRow \/ Create \/ XdpDatagram \/ XdpForeign
    BY <1>2, <2>0, <2>10 DEF Recv, RecvNothing, PushRow, Create, XdpDatagram, XdpForeign
  <2>11. CASE XdpReceiver
    BY <1>0, <2>0, <2>11, RoundMovesFrames
  <2> QED BY <2>2, <2>3, <2>4, <2>5, <2>6, <2>7, <2>8, <2>9, <2>10, <2>11
          DEF Next, Kernel, Receiver, RingReceiver, Worker
<1> QED BY <1>1, <1>2

\* With frames to spare, the frame ring is in order in every state: the status
\* words, the places of the delegated frames and the arrival order fit together.
THEOREM RingInvariance == RingToSpare => (Spec => []RingInv)
<1> SUFFICES ASSUME RingToSpare PROVE Spec => []RingInv
  OBVIOUS
<1>1. Init => RingInv
  BY DEF Init, InitHandoff, RingInv, NoReceiver
<1>2. BaseInv /\ BaseInv' /\ RingInv /\ [Next]_vars => RingInv'
  BY StepKeepsRing
<1> QED BY <1>1, <1>2, BaseInvariance, PTL DEF Spec

\* The bytes behind every packet of the frame ring between the receiver and the
\* parser, and behind every queued packet of the UDP fallback, are those of the
\* datagram the receiver saw: neither the kernel nor recv() overtakes the
\* worker.  Needed: a row more than the queue has places, and a frame ring that
\* queue, batch and foreign traffic together cannot wrap.
THEOREM PayloadsStayIntact == RowToSpare /\ RingToSpare => (Spec => []PayloadIntact)
<1> SUFFICES ASSUME RowToSpare, RingToSpare PROVE Spec => []PayloadIntact
  OBVIOUS
<1>1. BaseInv /\ UdpInv /\ RingInv => PayloadIntact
  <2> SUFFICES ASSUME BaseInv, UdpInv, RingInv PROVE PayloadIntact
    OBVIOUS
  <2>0. HandoffType /\ queue \in Seq(Packets)
    BY DEF BaseInv, HandoffType
  <2>1. ASSUME mode = "packet_mmap", NEW pkt \in InFlight
        PROVE  content[pkt.buf] = pkt.id /\ status[pkt.buf] = "USER"
    <3>1. Line \in Seq(Packets) /\ InFlight = {Line[i] : i \in 1..Len(Line)}
      BY <2>0, LineType, ToSetElements
    <3>2. PICK i \in 1..Len(Line) : pkt = Line[i]
      BY <2>1, <3>1
    <3>3. RingStatus /\ RingPlaces /\ RingOrder
      BY <2>1 DEF RingInv, RingState
    <3>4. Line[i].buf \in Frames /\ InLine(Line[i].buf)
      BY <3>3 DEF RingPlaces, InLine
    <3> QED BY <3>2, <3>3, <3>4 DEF RingOrder, RingStatus
  <2>2. ASSUME mode = "udp", NEW pkt \in ToSet(queue)
        PROVE  content[pkt.buf] = pkt.id
    <3>1. PICK i \in 1..Len(queue) : pkt = queue[i]
      BY <2>0, <2>2, ToSetElements
    <3> QED BY <2>2, <3>1 DEF UdpInv
  <2> QED BY <2>1, <2>2 DEF PayloadIntact
<1> QED BY <1>1, BaseInvariance, RowsIntact, RingInvariance, PTL

\* Each datagram of the frame ring is parsed at most once and in arrival order,
\* and no foreign frame and no frame without a datagram ever is.
THEOREM ParsesInOrderOnce == RingToSpare => (Spec => []ParsedInOrderOnce)
<1> SUFFICES ASSUME RingToSpare PROVE Spec => []ParsedInOrderOnce
  OBVIOUS
<1>1. BaseInv /\ RingInv => ParsedInOrderOnce
  <2> SUFFICES ASSUME BaseInv, RingInv, mode = "packet_mmap"
               PROVE  /\ \A i \in DOMAIN parsed : parsed[i] \in Datagrams
                      /\ \A i, j \in DOMAIN parsed : i < j => parsed[i] < parsed[j]
    BY DEF ParsedInOrderOnce
  <2>1. ParsedOrder
    BY DEF RingInv, RingState
  <2>2. DOMAIN parsed = 1..Len(parsed) /\ arrived \in 0..MaxPackets
    BY DEF BaseInv, HandoffType
  <2> QED BY <2>1, <2>2 DEF ParsedOrder, Datagrams
<1> QED BY <1>1, BaseInvariance, RingInvariance, PTL
=============================================================================
