--------------------------- MODULE PacketHandoff ---------------------------
(***************************************************************************)
(* The zero-copy hand-off between a receiver thread and the worker thread. *)
(* A FixMessagePacket carries a pointer, not bytes: the payload stays in a *)
(* buffer of the receiver (a PACKET_MMAP ring frame, a slot of udp_ring, a *)
(* UMEM frame) until the worker parses it.  This module has the queue and  *)
(* the worker's loop, common to FixWorker, MatchingWorker and              *)
(* HftOrderBookEngine; RxRing and AfXdpRx add the receivers, RxConsumer    *)
(* composes them.                                                          *)
(* The queue is the atomic FIFO that SPSCQueue is shown to implement.      *)
(***************************************************************************)
EXTENDS Integers, Sequences, SequencesExt

CONSTANTS QueueCap,     \* SPSCQueue::capacity() of the packet queue (8191)
          BatchMax,     \* pkt_batch.size() (32)
          MaxPackets,   \* bound: datagrams that reach the receiver
          ForeignMax    \* bound: frames of other traffic on the interface

ASSUME HandoffAssumption ==
    /\ QueueCap \in Nat /\ QueueCap >= 1
    /\ BatchMax \in Nat /\ BatchMax >= 1
    /\ MaxPackets \in Nat /\ ForeignMax \in Nat

VARIABLES mode,         \* the receiver in use, NoReceiver before there is one
          content,      \* what each payload buffer holds: a datagram or Blank
          queue,        \* the packets in the SPSC queue
          batch,        \* pkt_batch: popped, not yet finished
          w_pc,         \* "poll", "parse" or "release"
          parsed,       \* the datagrams the worker has parsed, in order
          arrived,      \* datagrams that reached the interface
          foreign       \* other frames that reached it

workerVars == <<queue, batch, w_pc, parsed>>
trafficVars == <<arrived, foreign>>

Blank == 0              \* no datagram of this feed
Datagrams == 1..MaxPackets

\* FixMessagePacket: buf stands for payload (and ring_hdr); id, a history
\* field, is the datagram the receiver saw there when it built the packet.
Packet(b) == [buf |-> b, id |-> content[b]]

QueueFull == Len(queue) = QueueCap

NoReceiver == "none"
Modes == {"af_xdp", "packet_mmap", "udp"}

InitHandoff ==
    /\ mode = NoReceiver
    /\ content = <<>>
    /\ queue = <<>> /\ batch = <<>>
    /\ w_pc = "poll"
    /\ parsed = <<>>
    /\ arrived = 0 /\ foreign = 0

\* A receiver is set up: its buffers hold no datagram yet.
Install(m, Buffers) ==
    /\ mode' = m
    /\ content' = [b \in Buffers |-> Blank]
    /\ UNCHANGED <<workerVars, trafficVars>>

\* pop_batch: at least one packet, at most 32; a stale cached write index may
\* make it return fewer than are queued.
WorkerPop(n) ==
    /\ w_pc = "poll"
    /\ n <= Len(queue)
    /\ batch' = SubSeq(queue, 1, n)
    /\ queue' = SubSeq(queue, n + 1, Len(queue))
    /\ w_pc' = "parse"
    /\ UNCHANGED <<mode, content, parsed, trafficVars>>

\* parse_in_place reads the bytes the payload pointer refers to now.
WorkerParse ==
    /\ w_pc = "parse"
    /\ parsed' = Append(parsed, content[Head(batch).buf])
    /\ w_pc' = "release"
    /\ UNCHANGED <<mode, content, queue, batch, trafficVars>>

\* End of the body of the batch loop, after the frame was released.
WorkerNext ==
    /\ w_pc = "release"
    /\ batch' = Tail(batch)
    /\ w_pc' = IF Len(batch) = 1 THEN "poll" ELSE "parse"
    /\ UNCHANGED <<mode, content, queue, parsed, trafficVars>>

InFlight == ToSet(queue) \cup ToSet(batch)
=============================================================================
