------------------------------ MODULE AfXdpRx ------------------------------
(***************************************************************************)
(* AfXdpRxConsumer: UMEM frames circulate from the fill ring (frames the   *)
(* kernel may write) through the RX ring to the receiver, which pushes a   *)
(* pointer into the frame and puts the frame back on the fill ring.        *)
(***************************************************************************)
EXTENDS PacketHandoff

CONSTANTS NumFrames,    \* NUM_FRAMES, also the size of both rings (4096)
          RxBatch       \* BATCH_SIZE of one peek (64)

ASSUME AfXdpAssumption ==
    /\ NumFrames \in Nat /\ NumFrames >= 1
    /\ RxBatch \in Nat /\ RxBatch >= 1

VARIABLES fill,         \* submitted part of the fill ring
          rx,           \* received descriptors, not yet peeked
          peeked,       \* the rcvd descriptors of this round
          rx_done       \* how many of them are done

xdpVars == <<fill, rx, peeked, rx_done>>

UmemFrames == 0..(NumFrames - 1)

InitXdp == fill = <<>> /\ rx = <<>> /\ peeked = <<>> /\ rx_done = 0

\* init() succeeds, in zero-copy or in SKB mode: every UMEM frame is reserved
\* and submitted to the fill ring.
InitUmem ==
    /\ Install("af_xdp", UmemFrames)
    /\ fill' = [k \in 1..NumFrames |-> k - 1]
    /\ UNCHANGED <<rx, peeked, rx_done>>

\* The kernel (external) writes a frame of the fill ring and posts it on the
\* RX ring; without one it drops the datagram.
KernelRx(what) ==
    IF fill = <<>>
      THEN UNCHANGED <<content, fill, rx>>
      ELSE /\ content' = [content EXCEPT ![Head(fill)] = what]
           /\ rx' = Append(rx, Head(fill))
           /\ fill' = Tail(fill)

XdpDatagram ==
    /\ mode = "af_xdp" /\ arrived < MaxPackets
    /\ arrived' = arrived + 1
    /\ KernelRx(arrived + 1)
    /\ UNCHANGED <<mode, workerVars, peeked, rx_done, foreign>>

XdpForeign ==
    /\ mode = "af_xdp" /\ foreign < ForeignMax
    /\ foreign' = foreign + 1
    /\ KernelRx(Blank)
    /\ UNCHANGED <<mode, workerVars, peeked, rx_done, arrived>>

\* xsk_ring_cons__peek finds n descriptors; the fill ring has room for all
\* NUM_FRAMES frames, so the reservation succeeds at once.
Peek(n) ==
    /\ mode = "af_xdp" /\ peeked = <<>>
    /\ n <= Len(rx)
    /\ peeked' = SubSeq(rx, 1, n)
    /\ rx' = SubSeq(rx, n + 1, Len(rx))
    /\ rx_done' = 0
    /\ UNCHANGED <<mode, content, workerVars, trafficVars, fill>>

PeekNothing ==
    /\ mode = "af_xdp" /\ peeked = <<>>
    /\ rx = <<>>
    /\ UNCHANGED <<mode, content, workerVars, trafficVars, xdpVars>>

\* A matching frame: spin until the queue takes the packet.
PushFrame ==
    /\ rx_done < Len(peeked)
    /\ content[peeked[rx_done + 1]] # Blank
    /\ ~QueueFull
    /\ queue' = Append(queue, Packet(peeked[rx_done + 1]))
    /\ rx_done' = rx_done + 1
    /\ UNCHANGED <<mode, content, batch, w_pc, parsed, trafficVars, fill, rx, peeked>>

SkipFrame ==
    /\ rx_done < Len(peeked)
    /\ content[peeked[rx_done + 1]] = Blank
    /\ rx_done' = rx_done + 1
    /\ UNCHANGED <<mode, content, workerVars, trafficVars, fill, rx, peeked>>

\* Release the RX descriptors, submit the same frames to the fill ring.
SubmitNothing ==
    /\ peeked # <<>> /\ rx_done = Len(peeked)
    /\ peeked' = <<>>
    /\ rx_done' = 0
    /\ UNCHANGED <<mode, content, workerVars, trafficVars, fill, rx>>
Submit ==
    /\ peeked # <<>> /\ rx_done = Len(peeked)
    /\ fill' = fill \o peeked
    /\ peeked' = <<>>
    /\ rx_done' = 0
    /\ UNCHANGED <<mode, content, workerVars, trafficVars, rx>>

XdpReceiver == (\E n \in 1..RxBatch : Peek(n)) \/ PeekNothing \/ PushFrame \/ SkipFrame \/ Submit

----------------------------------------------------------------------------
\* Every UMEM frame is at every moment in exactly one of the fill ring, the RX
\* ring and the receiver's round: none leaks and none circulates twice, so the
\* kernel always finds room for NUM_FRAMES datagrams.
FramesConserved ==
    LET all == fill \o rx \o peeked
    IN  mode = "af_xdp" => Len(all) = NumFrames /\ ToSet(all) = UmemFrames

\* The receiver puts back only "consumed UMEM frame buffers": a frame on the
\* fill ring, which the kernel may overwrite, backs no packet the worker has
\* still to parse.
RecycledFramesConsumed == \A pkt \in InFlight : pkt.buf \notin ToSet(fill)
=============================================================================
