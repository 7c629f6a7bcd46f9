------------------------------- MODULE RxRing -------------------------------
(***************************************************************************)
(* PacketMmapRxConsumer::run in both of its modes.                         *)
(*                                                                         *)
(* PACKET_RX_RING: the kernel fills the frames of a ring in order, the     *)
(* receiver hands a matching frame to the worker and gives a foreign one   *)
(* back, the worker gives its frames back when it has parsed them.         *)
(* tp_status is the only synchronisation.                                  *)
(*                                                                         *)
(* UDP fallback, without AF_PACKET privileges: recv() copies each datagram *)
(* into the next row of the static udp_ring and queues a pointer to it.    *)
(* Nobody gives rows back (ring_hdr is nullptr): a row is reused after     *)
(* UdpSlots further datagrams, whoever still points to it.                 *)
(***************************************************************************)
EXTENDS PacketHandoff

CONSTANTS FrameNr,      \* FRAME_NR (65536)
          UdpSlots      \* rows of udp_ring (8192, one more than QueueCap)

ASSUME RxRingAssumption ==
    /\ FrameNr \in Nat /\ FrameNr >= 1
    /\ UdpSlots \in Nat /\ UdpSlots >= 1

VARIABLES status,       \* tp_status of each frame: "KERNEL" or "USER"
          k_idx,        \* the frame the kernel fills next
          frame_idx,    \* the frame the receiver looks at
          udp_slot,     \* the row the next recv() writes
          c_pc          \* "poll", or "push" while it spins on m_queue.push

ringVars == <<status, k_idx, frame_idx, udp_slot, c_pc>>

Frames == 0..(FrameNr - 1)
UdpRows == 0..(UdpSlots - 1)

NextFrame(f) == IF f = FrameNr - 1 THEN 0 ELSE f + 1

NextRowShort(s) == (s + 1) % (UdpSlots - 1)
NextRow(s) == (s + 1) % UdpSlots

InitRing ==
    /\ status = [f \in Frames |-> "KERNEL"]
    /\ k_idx = 0 /\ frame_idx = 0 /\ udp_slot = 0
    /\ c_pc = "poll"

\* run(): the ring is mapped, or, when socket(AF_PACKET) is refused, a plain
\* UDP socket is bound instead (is_udp_fallback).
MapRing == Install("packet_mmap", Frames) /\ UNCHANGED ringVars
BindUdp == Install("udp", UdpRows) /\ UNCHANGED ringVars

----------------------------------------------------------------------------
(* The kernel (external): fills the next frame if it owns it, else drops.  *)

Fill(what) ==
    IF status[k_idx] = "KERNEL"
      THEN /\ content' = [content EXCEPT ![k_idx] = what]
           /\ status' = [status EXCEPT ![k_idx] = "USER"]
           /\ k_idx' = NextFrame(k_idx)
      ELSE UNCHANGED <<content, status, k_idx>>

RingDatagram ==
    /\ mode = "packet_mmap" /\ arrived < MaxPackets
    /\ arrived' = arrived + 1
    /\ Fill(arrived + 1)
    /\ UNCHANGED <<mode, workerVars, frame_idx, udp_slot, c_pc, foreign>>

RingForeign ==
    /\ mode = "packet_mmap" /\ foreign < ForeignMax
    /\ foreign' = foreign + 1
    /\ Fill(Blank)
    /\ UNCHANGED <<mode, workerVars, frame_idx, udp_slot, c_pc, arrived>>

----------------------------------------------------------------------------
(* The receiver thread on the frame ring.                                  *)

\* The frame still belongs to the kernel: spin, yield or poll, then retry.
PollEmpty ==
    /\ c_pc = "poll" /\ mode = "packet_mmap"
    /\ status[frame_idx] = "KERNEL"
    /\ UNCHANGED <<mode, content, workerVars, trafficVars, ringVars>>

\* Not for the filter port: back to the kernel, next frame.
PollForeignStays ==
    /\ c_pc = "poll" /\ mode = "packet_mmap"
    /\ status[frame_idx] = "USER"
    /\ content[frame_idx] = Blank
    /\ status' = [status EXCEPT ![frame_idx] = "KERNEL"]
    /\ UNCHANGED <<mode, content, workerVars, trafficVars, k_idx, frame_idx, udp_slot, c_pc>>
PollForeign ==
    /\ c_pc = "poll" /\ mode = "packet_mmap"
    /\ status[frame_idx] = "USER"
    /\ content[frame_idx] = Blank
    /\ status' = [status EXCEPT ![frame_idx] = "KERNEL"]
    /\ frame_idx' = NextFrame(frame_idx)
    /\ UNCHANGED <<mode, content, workerVars, trafficVars, k_idx, udp_slot, c_pc>>

PollMatch ==
    /\ c_pc = "poll" /\ mode = "packet_mmap"
    /\ status[frame_idx] = "USER"
    /\ content[frame_idx] # Blank
    /\ c_pc' = "push"
    /\ UNCHANGED <<mode, content, workerVars, trafficVars, status, k_idx, frame_idx, udp_slot>>

\* m_queue.push(pkt) succeeds: the frame is delegated to the worker.
PushTwice ==
    /\ c_pc = "push" /\ mode = "packet_mmap"
    /\ ~QueueFull
    /\ queue' = Append(queue, Packet(frame_idx))
    /\ c_pc' = "poll"
    /\ UNCHANGED <<mode, content, batch, w_pc, parsed, trafficVars, status, k_idx, frame_idx,
                   udp_slot>>
Push ==
    /\ c_pc = "push" /\ mode = "packet_mmap"
    /\ ~QueueFull
    /\ queue' = Append(queue, Packet(frame_idx))
    /\ frame_idx' = NextFrame(frame_idx)
    /\ c_pc' = "poll"
    /\ UNCHANGED <<mode, content, batch, w_pc, parsed, trafficVars, status, k_idx, udp_slot>>

----------------------------------------------------------------------------
(* The receiver thread on the fallback socket.                             *)

\* recv(..., MSG_DONTWAIT) finds a datagram: its bytes are in the row before
\* the receiver knows whether the queue has room.
Recv ==
    /\ c_pc = "poll" /\ mode = "udp"
    /\ arrived < MaxPackets
    /\ arrived' = arrived + 1
    /\ content' = [content EXCEPT ![udp_slot] = arrived + 1]
    /\ c_pc' = "push"
    /\ UNCHANGED <<mode, workerVars, foreign, status, k_idx, frame_idx, udp_slot>>

\* recv() finds nothing.
RecvNothing ==
    /\ c_pc = "poll" /\ mode = "udp"
    /\ UNCHANGED <<mode, content, workerVars, trafficVars, ringVars>>

PushRow ==
    /\ c_pc = "push" /\ mode = "udp"
    /\ ~QueueFull
    /\ queue' = Append(queue, Packet(udp_slot))
    /\ udp_slot' = NextRow(udp_slot)
    /\ c_pc' = "poll"
    /\ UNCHANGED <<mode, content, batch, w_pc, parsed, trafficVars, status, k_idx, frame_idx>>

RingReceiver ==
    \/ PollEmpty \/ PollForeign \/ PollMatch \/ Push
    \/ Recv \/ RecvNothing \/ PushRow

\* hdr->tp_status = TP_STATUS_KERNEL when the packet has a ring_hdr (the
\* fallback's packets and AF_XDP's have none), then the next of the batch.
ReleaseForgotten == WorkerNext /\ UNCHANGED ringVars
Release ==
    /\ WorkerNext
    /\ status' = IF mode = "packet_mmap" THEN [status EXCEPT ![Head(batch).buf] = "KERNEL"] ELSE status
    /\ UNCHANGED <<k_idx, frame_idx, udp_slot, c_pc>>

----------------------------------------------------------------------------
\* The bytes behind a packet are still those of the datagram the receiver
\* queued.  A ring frame whose pointer is in the queue or in the worker's batch
\* belongs to user space, given back by nobody but the worker and only when it
\* is done, so no kernel write reaches it; recv() writes no row whose pointer
\* is in the queue, even when it runs ahead of a full queue.  (One row more than the queue has
\* places does not cover the packets already popped into the batch.)
PayloadIntact ==
    /\ mode = "packet_mmap" =>
          \A pkt \in InFlight : content[pkt.buf] = pkt.id /\ status[pkt.buf] = "USER"
    /\ mode = "udp" => \A pkt \in ToSet(queue) : content[pkt.buf] = pkt.id

\* Each datagram of the ring is parsed at most once and in arrival order, and
\* nothing that is not a datagram of the feed is parsed.
ParsedInOrderOnce ==
    mode = "packet_mmap" =>
        /\ \A i \in DOMAIN parsed : parsed[i] \in Datagrams
        /\ \A i, j \in DOMAIN parsed : i < j => parsed[i] < parsed[j]

\* Every datagram the kernel stored in the ring is eventually parsed.
EveryStoredParsed ==
    \A id \in Datagrams :
        (mode = "packet_mmap" /\ \E f \in Frames : status[f] = "USER" /\ content[f] = id) ~> (id \in ToSet(parsed))
=============================================================================
