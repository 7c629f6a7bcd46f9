-------------------------- MODULE SPSCQueue_proofs --------------------------
(***************************************************************************)
(* Proofs about SPSCQueue for every ring size, batch size and stream: its  *)
(* invariants, and that it implements BoundedFifo; and, with QueueObserver *)
(* beside it, the depth that CsvPerformanceMonitor samples.                *)
(***************************************************************************)
EXTENDS QueueObserver, Sequences, SequenceTheorems, TLAPS

\* The number of unread slots is the number of items published and not yet
\* returned.
Occupancy == sent - received = Dist(m_read_pos, m_write_pos)

\* What the producer believes about the consumer is old: seen from its cached
\* read index the ring is at least as full as it is, and there is still room
\* for the part of the call that was decided on it.
ProducerView ==
    /\ Dist(m_read_pos, m_write_pos) <= Dist(m_cached_read_pos, m_write_pos)
    /\ p_pc \in {"copy", "publish"} =>
          Dist(m_cached_read_pos, m_write_pos) + p_count <= Capacity - 1
    /\ p_pc = "batch_reload" => p_done = 0 /\ p_count >= 1
    /\ p_pc = "reload" => p_done = 0 /\ p_count = 1
    /\ p_pc = "copy" => p_done < p_count
    /\ p_pc = "publish" => p_done = p_count

\* What the consumer believes about the producer is old: every slot up to its
\* cached write index has been published.
ConsumerView ==
    /\ Dist(m_read_pos, m_cached_write_pos) <= Dist(m_read_pos, m_write_pos)
    /\ c_pc \in {"take", "release"} =>
          c_count <= Dist(m_read_pos, m_cached_write_pos)
    /\ c_pc = "reload" => c_want >= 1 /\ c_done = 0
    /\ c_pc = "take" => c_done < c_count
    /\ c_pc = "release" => c_done = c_count

\* The unread slots hold the items received + 1, received + 2, ... in order.
UnreadContents ==
    \A i \in Slots :
        Dist(m_read_pos, i) < Dist(m_read_pos, m_write_pos) =>
            m_buffer[i] = received + Dist(m_read_pos, i) + 1

\* The slots copied by the call in progress hold the items that follow.
StagedContents ==
    p_pc \in {"copy", "publish"} =>
        \A i \in Slots :
            Dist(m_write_pos, i) < p_done => m_buffer[i] = sent + Dist(m_write_pos, i) + 1

\* The elements moved out so far are the next items of the stream.
TakenItems ==
    c_pc \in {"take", "release"} =>
        \A j \in 1..MaxBatch : j <= c_done => c_out[j] = received + j

\* The inductive invariant.
IInv ==
    /\ TypeOK
    /\ Occupancy
    /\ ProducerView
    /\ ConsumerView
    /\ UnreadContents
    /\ StagedContents
    /\ TakenItems
    /\ CanPushIsStable

----------------------------------------------------------------------------
USE CapacityAssumption, MaxBatchAssumption, MaxItemsAssumption

\* Advancing an index by at most the ring size stays in the ring.
LEMMA WrapInSlots ==
    ASSUME NEW a \in Slots, NEW k \in 0..Capacity
    PROVE  Wrap(a + k) \in Slots
BY DEF Wrap, Slots

\* Distances are less than the ring size, and Dist undoes Wrap.
LEMMA DistWrap ==
    ASSUME NEW a \in Slots, NEW k \in Slots
    PROVE  Dist(a, Wrap(a + k)) = k
BY DEF Wrap, Dist, Slots

\* A distance is less than the ring size.
LEMMA DistInSlots ==
    ASSUME NEW a \in Slots, NEW b \in Slots
    PROVE  Dist(a, b) \in Slots
BY DEF Dist, Slots

\* A slot is the one at its distance.
LEMMA WrapDist ==
    ASSUME NEW a \in Slots, NEW b \in Slots
    PROVE  Wrap(a + Dist(a, b)) = b
BY DEF Wrap, Dist, Slots

\* Room computed by push_batch is the part of the ring that is not unread.
LEMMA FreeSlotsDist ==
    ASSUME NEW r \in Slots, NEW w \in Slots
    PROVE  FreeSlots(r, w) = Capacity - 1 - Dist(r, w)
BY DEF FreeSlots, Dist, Slots

\* Moving the far end of a distance forward lengthens it, as long as the
\* sum stays inside the ring.
LEMMA DistAdvanceEnd ==
    ASSUME NEW r \in Slots, NEW w \in Slots, NEW k \in Nat, Dist(r, w) + k <= Capacity - 1
    PROVE  Dist(r, Wrap(w + k)) = Dist(r, w) + k
BY DEF Wrap, Dist, Slots

\* Moving the near end forward shortens it.
LEMMA DistAdvanceStart ==
    ASSUME NEW r \in Slots, NEW w \in Slots, NEW k \in Nat, k <= Dist(r, w)
    PROVE  Dist(Wrap(r + k), w) = Dist(r, w) - k
BY DEF Wrap, Dist, Slots

\* The size of a batch is within both bounds, and not zero if neither is.
LEMMA LesserProperty ==
    ASSUME NEW a \in Nat, NEW b \in Nat
    PROVE  /\ Lesser(a, b) \in Nat /\ Lesser(a, b) <= a /\ Lesser(a, b) <= b
           /\ a >= 1 /\ b >= 1 => Lesser(a, b) >= 1
BY DEF Lesser

----------------------------------------------------------------------------
\* Initially nothing is stored, staged or taken.
LEMMA InitEstablishes == Init => IInv
<1> SUFFICES ASSUME Init PROVE IInv
  OBVIOUS
<1> USE DEF Init
<1>1. 0 \in Slots /\ Dist(0, 0) = 0 /\ Dist(0, 0) + 0 <= Capacity - 1
  BY DEF Slots, Dist
<1>2. TypeOK
  BY <1>1 DEF TypeOK
<1>3. Occupancy /\ ProducerView /\ ConsumerView
  BY <1>1 DEF Occupancy, ProducerView, ConsumerView
<1>4. UnreadContents
  BY DEF UnreadContents, Slots, Dist
<1>5. StagedContents /\ TakenItems /\ CanPushIsStable
  BY DEF StagedContents, TakenItems, CanPushIsStable
<1> QED BY <1>2, <1>3, <1>4, <1>5 DEF IInv

\* Each step of the producer preserves the invariant.
LEMMA ProducerPreserves == IInv /\ Producer => IInv'
<1> SUFFICES ASSUME IInv, Producer PROVE IInv'
  OBVIOUS
<1> USE DEF IInv
<1>0. /\ Dist(m_read_pos, m_write_pos) \in Slots
      /\ Dist(m_cached_read_pos, m_write_pos) \in Slots
  BY DistInSlots DEF TypeOK
<1>1. CASE PushStart
  <2> USE <1>1 DEF PushStart, consumerVars
  <2>1. Wrap(m_write_pos + 1) # m_cached_read_pos => Dist(m_cached_read_pos, m_write_pos) + 1 <= Capacity - 1
    BY <1>0 DEF TypeOK, Slots, Dist, Wrap
  <2>2. TypeOK'
    BY DEF TypeOK
  <2>3. Occupancy' /\ ConsumerView' /\ UnreadContents' /\ TakenItems'
    BY DEF Occupancy, ConsumerView, UnreadContents, TakenItems
  <2>4. ProducerView'
    BY <2>1 DEF ProducerView
  <2>5. StagedContents'
    BY DEF StagedContents, TypeOK, Slots, Dist
  <2>6. CanPushIsStable'
    BY DEF CanPushIsStable
  <2> QED BY <2>2, <2>3, <2>4, <2>5, <2>6
<1>2. CASE PushReload
  <2> USE <1>2 DEF PushReload, consumerVars
  <2>1. Wrap(m_write_pos + 1) # m_read_pos => Dist(m_read_pos, m_write_pos) + 1 <= Capacity - 1
    BY <1>0 DEF TypeOK, Slots, Dist, Wrap
  <2>2. TypeOK'
    BY DEF TypeOK
  <2>3. Occupancy' /\ ConsumerView' /\ UnreadContents' /\ TakenItems'
    BY DEF Occupancy, ConsumerView, UnreadContents, TakenItems
  <2>4. ProducerView'
    BY <1>0, <2>1 DEF ProducerView, Slots
  <2>5. StagedContents'
    BY DEF StagedContents, ProducerView, TypeOK, Slots, Dist
  <2>6. CanPushIsStable'
    BY DEF CanPushIsStable
  <2> QED BY <2>2, <2>3, <2>4, <2>5, <2>6
<1>3. ASSUME NEW n \in 1..MaxBatch, PushBatchStart(n) PROVE IInv'
  <2> USE <1>3 DEF PushBatchStart, consumerVars
  <2>1. FreeSlots(m_cached_read_pos, m_write_pos) >= n => Dist(m_cached_read_pos, m_write_pos) + n <= Capacity - 1
    BY <1>0, FreeSlotsDist, SMTT(30) DEF TypeOK, Slots
  <2>0. FreeSlots(m_cached_read_pos, m_write_pos) \in Int
    BY <1>0, FreeSlotsDist DEF TypeOK, Slots
  <2>2. TypeOK'
    BY DEF TypeOK
  <2>3. Occupancy' /\ ConsumerView' /\ UnreadContents' /\ TakenItems'
    BY DEF Occupancy, ConsumerView, UnreadContents, TakenItems
  <2>4. ProducerView'
    BY <2>0, <2>1 DEF ProducerView
  <2>5. StagedContents'
    BY DEF StagedContents, TypeOK, Slots, Dist
  <2>6. CanPushIsStable'
    BY DEF CanPushIsStable
  <2> QED BY <2>2, <2>3, <2>4, <2>5, <2>6
<1>4. CASE PushBatchReload
  <2> USE <1>4 DEF PushBatchReload, consumerVars
  <2>1. /\ FreeSlots(m_read_pos, m_write_pos) \in Nat
        /\ FreeSlots(m_read_pos, m_write_pos) = Capacity - 1 - Dist(m_read_pos, m_write_pos)
    BY <1>0 DEF TypeOK, Slots, Dist, FreeSlots
  <2>2. /\ p_count' \in Nat
        /\ Dist(m_read_pos, m_write_pos) + p_count' <= Capacity - 1
    <3>1. p_count \in Nat /\ p_count' = Lesser(FreeSlots(m_read_pos, m_write_pos), p_count)
      BY DEF TypeOK
    <3>2. p_count' \in Nat /\ p_count' <= FreeSlots(m_read_pos, m_write_pos)
      BY <3>1, <2>1, LesserProperty
    <3> QED BY <1>0, <2>1, <3>2 DEF Slots
  <2>3. TypeOK'
    BY <2>2 DEF TypeOK
  <2>4. Occupancy' /\ ConsumerView' /\ UnreadContents' /\ TakenItems'
    BY DEF Occupancy, ConsumerView, UnreadContents, TakenItems
  <2>5. ProducerView'
    BY <1>0, <2>2 DEF ProducerView, Slots
  <2>6. StagedContents'
    BY DEF StagedContents, ProducerView, TypeOK, Slots, Dist
  <2>7. CanPushIsStable'
    BY DEF CanPushIsStable
  <2> QED BY <2>3, <2>4, <2>5, <2>6, <2>7
<1>5. CASE CopyItem
  <2> USE <1>5 DEF CopyItem, consumerVars
  <2> DEFINE s == Wrap(m_write_pos + p_done)
  <2>1. /\ p_done \in Nat /\ p_count \in Nat /\ p_done < p_count
        /\ Dist(m_read_pos, m_write_pos) + p_done < Capacity - 1
        /\ p_done \in Slots
    BY <1>0 DEF TypeOK, ProducerView, Slots, Dist
  <2>2. /\ s \in Slots
        /\ Dist(m_write_pos, s) = p_done
        /\ Dist(m_read_pos, s) = Dist(m_read_pos, m_write_pos) + p_done
    BY <1>0, <2>1 DEF TypeOK, Slots, Wrap, Dist
  <2>3. \A i \in Slots : m_buffer'[i] = IF i = s THEN sent + p_done + 1 ELSE m_buffer[i]
    BY DEF TypeOK
  <2>4. \A i \in Slots : Dist(m_write_pos, i) = p_done => i = s
    BY WrapDist DEF TypeOK
  <2>5. TypeOK'
    BY <2>1, <2>2 DEF TypeOK
  <2>6. Occupancy' /\ ConsumerView' /\ TakenItems'
    BY DEF Occupancy, ConsumerView, TakenItems
  <2>7. ProducerView'
    BY <2>1 DEF ProducerView
  <2>8. UnreadContents'
    <3> SUFFICES ASSUME NEW i \in Slots, Dist(m_read_pos, i) < Dist(m_read_pos, m_write_pos)
                 PROVE  m_buffer'[i] = received + Dist(m_read_pos, i) + 1
      BY DEF UnreadContents
    <3>1. i # s
      BY <1>0, <2>1, <2>2 DEF Slots
    <3> QED BY <3>1, <2>3 DEF UnreadContents
  <2>9. StagedContents'
    <3> SUFFICES ASSUME NEW i \in Slots, Dist(m_write_pos, i) < p_done + 1
                 PROVE  m_buffer'[i] = sent + Dist(m_write_pos, i) + 1
      BY DEF StagedContents
    <3>1. Dist(m_write_pos, i) \in Nat
      BY DistInSlots DEF TypeOK, Slots
    <3>2. CASE i = s
      BY <3>2, <2>2, <2>3
    <3>3. CASE i # s
      <4>1. Dist(m_write_pos, i) < p_done
        BY <3>1, <3>3, <2>1, <2>4
      <4> QED BY <4>1, <3>3, <2>3 DEF StagedContents
    <3> QED BY <3>2, <3>3
  <2>10. CanPushIsStable'
    BY DEF CanPushIsStable
  <2> QED BY <2>5, <2>6, <2>7, <2>8, <2>9, <2>10
<1>6. CASE Publish
  <2> USE <1>6 DEF Publish, consumerVars
  <2> DEFINE w == Wrap(m_write_pos + p_count)
             d == Dist(m_read_pos, m_write_pos)
  <2>1. /\ p_done = p_count /\ p_count \in Slots
        /\ d + p_count <= Capacity - 1
        /\ Dist(m_cached_read_pos, m_write_pos) + p_count <= Capacity - 1
    BY <1>0 DEF TypeOK, ProducerView, Slots, Dist
  <2>2. /\ w \in Slots
        /\ Dist(m_read_pos, w) = d + p_count
        /\ Dist(m_cached_read_pos, w) = Dist(m_cached_read_pos, m_write_pos) + p_count
    BY <1>0, <2>1 DEF TypeOK, Slots, Wrap, Dist
  <2>3. TypeOK'
    <3>1. m_write_pos' \in Slots
      BY <2>2
    <3>2. sent' \in Nat
      BY DEF TypeOK
    <3> QED BY <3>1, <3>2 DEF TypeOK
  <2>4. Occupancy'
    BY <1>0, <2>1, <2>2 DEF Occupancy, TypeOK, Slots
  <2>5. ProducerView'
    BY <1>0, <2>1, <2>2 DEF ProducerView, Slots
  <2>6. ConsumerView'
    <3>1. Dist(m_read_pos, m_cached_write_pos) \in Slots
      BY DistInSlots DEF TypeOK
    <3> QED BY <1>0, <2>1, <2>2, <3>1 DEF ConsumerView, Slots
  <2>7. UnreadContents'
    <3> SUFFICES ASSUME NEW i \in Slots, Dist(m_read_pos, i) < d + p_count
                 PROVE  m_buffer[i] = received + Dist(m_read_pos, i) + 1
      BY <2>2 DEF UnreadContents
    <3>1. CASE Dist(m_read_pos, i) < d
      BY <3>1 DEF UnreadContents
    <3>2. CASE Dist(m_read_pos, i) >= d
      <4>1. Dist(m_read_pos, i) = d + Dist(m_write_pos, i)
        BY <3>2 DEF Dist, TypeOK, Slots
      <4>2. Dist(m_write_pos, i) < p_done
        BY <4>1, <1>0, <2>1 DEF TypeOK, Slots, Dist
      <4>3. m_buffer[i] = sent + Dist(m_write_pos, i) + 1
        BY <4>2 DEF StagedContents
      <4> QED BY <4>1, <4>3, <1>0 DEF Occupancy, TypeOK, Slots, Dist
    <3>3. Dist(m_read_pos, i) \in Int /\ d \in Int
      BY <1>0, DistInSlots DEF TypeOK, Slots
    <3> QED BY <3>1, <3>2, <3>3
  <2>8. StagedContents' /\ TakenItems'
    BY DEF StagedContents, TakenItems
  <2>9. CanPushIsStable'
    BY DEF CanPushIsStable
  <2> QED BY <2>3, <2>4, <2>5, <2>6, <2>7, <2>8, <2>9
<1>7. CASE CanPush
  <2> USE <1>7 DEF CanPush, consumerVars
  <2>1. TypeOK'
    BY DEF TypeOK
  <2>2. Occupancy' /\ ProducerView' /\ ConsumerView' /\ UnreadContents' /\ StagedContents' /\ TakenItems'
    BY DEF Occupancy, ProducerView, ConsumerView, UnreadContents, StagedContents, TakenItems
  <2>3. CanPushIsStable'
    BY DEF CanPushIsStable
  <2> QED BY <2>1, <2>2, <2>3
<1> QED BY <1>1, <1>2, <1>3, <1>4, <1>5, <1>6, <1>7 DEF Producer

\* Each step of the consumer preserves the invariant.
LEMMA ConsumerPreserves == IInv /\ Consumer => IInv'
<1> SUFFICES ASSUME IInv, Consumer PROVE IInv'
  OBVIOUS
<1> USE DEF IInv
<1>0. /\ Dist(m_read_pos, m_write_pos) \in Slots
      /\ Dist(m_read_pos, m_cached_write_pos) \in Slots
      /\ Dist(m_cached_read_pos, m_write_pos) \in Slots
  BY DistInSlots DEF TypeOK
<1>1. ASSUME NEW n \in 1..MaxBatch, PopStart(n) PROVE IInv'
  <2> USE <1>1 DEF PopStart, producerVars
  <2>1. c_pc' = "take" => /\ c_count' \in 1..n
                          /\ c_count' <= Dist(m_read_pos, m_cached_write_pos)
    BY <1>0, SMTT(30) DEF TypeOK, Slots, Lesser, Dist
  <2>2. TypeOK'
    BY <2>1 DEF TypeOK
  <2>3. Occupancy' /\ ProducerView' /\ UnreadContents' /\ StagedContents' /\ CanPushIsStable'
    BY DEF Occupancy, ProducerView, UnreadContents, StagedContents, CanPushIsStable
  <2>4. ConsumerView'
    BY <2>1 DEF ConsumerView
  <2>5. TakenItems'
    BY DEF TakenItems
  <2> QED BY <2>2, <2>3, <2>4, <2>5
<1>2. CASE PopReload
  <2> USE <1>2 DEF PopReload, producerVars
  <2>1. /\ c_count' \in 0..MaxBatch
        /\ c_count' <= Dist(m_read_pos, m_write_pos)
        /\ c_pc' = "take" => c_count' >= 1
    BY <1>0 DEF TypeOK, ConsumerView, Slots, Lesser, Dist
  <2>2. TypeOK'
    BY <2>1 DEF TypeOK
  <2>3. Occupancy' /\ ProducerView' /\ UnreadContents' /\ StagedContents' /\ CanPushIsStable'
    BY DEF Occupancy, ProducerView, UnreadContents, StagedContents, CanPushIsStable
  <2>4. ConsumerView'
    BY <1>0, <2>1 DEF ConsumerView, Slots
  <2>5. TakenItems'
    BY DEF TakenItems, ConsumerView
  <2> QED BY <2>2, <2>3, <2>4, <2>5
<1>3. CASE TakeItem
  <2> USE <1>3 DEF TakeItem, producerVars
  <2> DEFINE s == Wrap(m_read_pos + c_done)
  <2>1. /\ c_done \in Slots /\ c_done < c_count /\ c_count \in 1..MaxBatch
        /\ c_done < Dist(m_read_pos, m_write_pos)
    BY <1>0 DEF TypeOK, ConsumerView, Slots, Dist
  <2>0. c_done \in Nat /\ c_count \in Nat /\ received \in Nat
    BY DEF TypeOK
  <2>2. s \in Slots /\ Dist(m_read_pos, s) = c_done
    BY <2>1, WrapInSlots, DistWrap DEF TypeOK, Slots
  <2>3. m_buffer[s] = received + c_done + 1
    BY <2>1, <2>2 DEF UnreadContents
  <2>4. TypeOK'
    <3>1. c_done + 1 \in 0..MaxBatch /\ m_buffer[s] \in Nat
      <4>1. c_done + 1 \in 0..MaxBatch
        BY <2>0, <2>1
      <4>2. m_buffer[s] \in Nat
        BY <2>0, <2>3
      <4> QED BY <4>1, <4>2
    <3>2. c_out' \in [1..MaxBatch -> Nat]
      BY <3>1 DEF TypeOK
    <3>3. c_done' \in 0..MaxBatch /\ c_pc' \in {"take", "release"}
      BY <3>1
    <3> QED BY <3>2, <3>3 DEF TypeOK
  <2>5. Occupancy' /\ ProducerView' /\ UnreadContents' /\ StagedContents' /\ CanPushIsStable'
    BY DEF Occupancy, ProducerView, UnreadContents, StagedContents, CanPushIsStable
  <2>6. ConsumerView'
    BY <2>0, <2>1 DEF ConsumerView
  <2>7. TakenItems'
    <3> SUFFICES ASSUME NEW j \in 1..MaxBatch, j <= c_done + 1
                 PROVE  c_out'[j] = received + j
      BY DEF TakenItems
    <3>1. CASE j = c_done + 1
      BY <3>1, <2>0, <2>3 DEF TypeOK
    <3>2. CASE j # c_done + 1
      <4>1. j <= c_done
        BY <3>2, <2>0
      <4> QED BY <4>1, <3>2 DEF TakenItems, TypeOK
    <3> QED BY <3>1, <3>2
  <2> QED BY <2>4, <2>5, <2>6, <2>7
<1>4. CASE Release
  <2> USE <1>4 DEF Release, producerVars
  <2> DEFINE r == Wrap(m_read_pos + c_count)
  <2>1. /\ c_count \in Slots
        /\ c_count <= Dist(m_read_pos, m_cached_write_pos)
        /\ c_count <= Dist(m_read_pos, m_write_pos)
    BY <1>0 DEF TypeOK, ConsumerView, Slots, Dist
  <2>2. /\ r \in Slots
        /\ Dist(r, m_write_pos) = Dist(m_read_pos, m_write_pos) - c_count
        /\ Dist(r, m_cached_write_pos) = Dist(m_read_pos, m_cached_write_pos) - c_count
    BY <2>1, WrapInSlots, DistAdvanceStart, SMTT(30) DEF TypeOK, Slots
  <2>3. TypeOK'
    BY <2>1, <2>2 DEF TypeOK
  <2>4. Occupancy'
    BY <1>0, <2>1, <2>2 DEF Occupancy, TypeOK, Slots
  <2>5. ProducerView'
    BY <1>0, <2>1, <2>2 DEF ProducerView, Slots
  <2>6. ConsumerView'
    BY <1>0, <2>1, <2>2 DEF ConsumerView, Slots
  <2>7. UnreadContents'
    <3> SUFFICES ASSUME NEW i \in Slots, Dist(r, i) < Dist(r, m_write_pos)
                 PROVE  m_buffer[i] = received + c_count + Dist(r, i) + 1
      BY DEF UnreadContents
    <3>1. Dist(m_read_pos, i) = Dist(r, i) + c_count
      BY <2>1, <2>2 DEF Dist, Wrap, TypeOK, Slots
    <3>2. Dist(m_read_pos, i) < Dist(m_read_pos, m_write_pos)
      BY <3>1, <2>1, <2>2, <1>0 DEF Slots, Dist
    <3>3. m_buffer[i] = received + Dist(m_read_pos, i) + 1
      BY <3>2 DEF UnreadContents
    <3>4. Dist(r, i) \in Nat /\ c_count \in Nat /\ received \in Nat
      <4>1. Dist(r, i) \in Slots
        BY <2>2, DistInSlots
      <4> QED BY <4>1, <2>1 DEF TypeOK, Slots
    <3> QED BY <3>1, <3>3, <3>4
  <2>8. StagedContents' /\ TakenItems'
    BY DEF StagedContents, TakenItems
  <2>9. CanPushIsStable'
    BY <1>0, <2>1, <2>2 DEF CanPushIsStable, TypeOK, Slots, Dist, Wrap
  <2> QED BY <2>3, <2>4, <2>5, <2>6, <2>7, <2>8, <2>9
<1> QED BY <1>1, <1>2, <1>3, <1>4 DEF Consumer

\* A step of anyone else leaves the invariant alone.
LEMMA StutterPreserves == IInv /\ UNCHANGED vars => IInv'
BY DEF IInv, TypeOK, Occupancy, ProducerView, ConsumerView, UnreadContents, StagedContents,
       TakenItems, CanPushIsStable, vars, producerVars, consumerVars

\* The invariant holds in every reachable state of every instance.
THEOREM Invariance == Spec => []IInv
<1>1. IInv /\ [Next]_vars => IInv'
  BY ProducerPreserves, ConsumerPreserves, StutterPreserves DEF Next
<1> QED BY InitEstablishes, <1>1, PTL DEF Spec

----------------------------------------------------------------------------
\* The indices, cached indices, buffer and call state keep their types for
\* every ring size.
THEOREM TypeCorrect == Spec => []TypeOK
<1>1. IInv => TypeOK
  BY DEF IInv
<1> QED BY Invariance, <1>1, PTL

\* pop and pop_batch return exactly the next items pushed, for every ring
\* size, batch size and interleaving.
THEOREM DeliversInOrder == Spec => []FifoDelivery
<1>1. IInv => FifoDelivery
  BY DEF IInv, TakenItems, ConsumerView, FifoDelivery, TypeOK
<1> QED BY Invariance, <1>1, PTL

\* The producer never overwrites a published item that was not released.
THEOREM NeverOverwrites == Spec => []NoOverwrite
<1>1. IInv => NoOverwrite
  BY DEF IInv, ProducerView, NoOverwrite, TypeOK, Slots, Dist
<1> QED BY Invariance, <1>1, PTL

\* push and pop never touch the same slot at the same time.
THEOREM SlotRaceFree == Spec => []NoSlotRace
<1>1. IInv => NoSlotRace
  <2> SUFFICES ASSUME IInv, p_pc = "copy", c_pc = "take"
               PROVE  Wrap(m_write_pos + p_done) # Wrap(m_read_pos + c_done)
    BY DEF NoSlotRace
  <2>0. /\ Dist(m_read_pos, m_write_pos) \in Slots
        /\ Dist(m_cached_read_pos, m_write_pos) \in Slots
        /\ Dist(m_read_pos, m_cached_write_pos) \in Slots
    BY DistInSlots DEF IInv, TypeOK
  <2>1. /\ p_done \in Nat /\ Dist(m_read_pos, m_write_pos) + p_done <= Capacity - 1
        /\ c_done \in Slots /\ c_done < Dist(m_read_pos, m_write_pos)
    BY <2>0 DEF IInv, TypeOK, ProducerView, ConsumerView, Slots, Dist
  <2>2. /\ Dist(m_read_pos, Wrap(m_write_pos + p_done)) = Dist(m_read_pos, m_write_pos) + p_done
        /\ Dist(m_read_pos, Wrap(m_read_pos + c_done)) = c_done
    BY <2>1, DistAdvanceEnd, DistWrap DEF IInv, TypeOK
  <2> QED BY <2>0, <2>1, <2>2 DEF Slots
<1> QED BY Invariance, <1>1, PTL

\* can_push() answering TRUE guarantees the push() that follows.
THEOREM CanPushGuarantees == Spec => []CanPushIsStable
<1>1. IInv => CanPushIsStable
  BY DEF IInv
<1> QED BY Invariance, <1>1, PTL

----------------------------------------------------------------------------
(***************************************************************************)
(* SPSCQueue implements BoundedFifo.  The mapped queue always holds the    *)
(* consecutive items received + 1 .. sent; the release store of            *)
(* m_write_pos is Enqueue, that of m_read_pos is Dequeue, and every other  *)
(* step is invisible.                                                      *)
(***************************************************************************)

\* n consecutive items of the stream, after the first a.
Items(a, n) == [i \in 1..n |-> a + i]

\* A call stays within what its caller asked for and the stream has left, and
\* a pop that reaches its release has something to return.
CallBounds ==
    /\ p_pc # "idle" => p_count <= MaxBatch /\ sent + p_count <= MaxItems
    /\ c_pc = "release" => c_count >= 1

\* The bounds of a call in progress are kept by every step.
LEMMA CallBoundsInvariance == Spec => []CallBounds
<1>1. Init => CallBounds
  BY DEF Init, CallBounds
<1>2. IInv /\ CallBounds /\ [Next]_vars => CallBounds'
  <2> SUFFICES ASSUME IInv, CallBounds, [Next]_vars PROVE CallBounds'
    OBVIOUS
  <2> USE DEF IInv, CallBounds, TypeOK
  <2>1. CASE PushStart
    BY <2>1 DEF PushStart, consumerVars
  <2>2. CASE PushReload
    BY <2>2 DEF PushReload, consumerVars
  <2>3. ASSUME NEW n \in 1..MaxBatch, PushBatchStart(n) PROVE CallBounds'
    BY <2>3 DEF PushBatchStart, consumerVars
  <2>4. CASE PushBatchReload
    <3>1. FreeSlots(m_read_pos, m_write_pos) \in Nat
      BY DEF FreeSlots, Slots
    <3>2. p_count' \in Nat /\ p_count' <= p_count
      BY <2>4, <3>1, LesserProperty DEF PushBatchReload
    <3> QED BY <2>4, <3>2 DEF PushBatchReload, consumerVars
  <2>5. CASE CopyItem
    BY <2>5 DEF CopyItem, consumerVars
  <2>6. CASE Publish
    BY <2>6 DEF Publish, consumerVars
  <2>7. CASE CanPush
    BY <2>7 DEF CanPush, consumerVars
  <2>8. ASSUME NEW n \in 1..MaxBatch, PopStart(n) PROVE CallBounds'
    BY <2>8 DEF PopStart, producerVars
  <2>9. CASE PopReload
    BY <2>9 DEF PopReload, producerVars
  <2>10. CASE TakeItem
    BY <2>10 DEF TakeItem, ConsumerView, producerVars
  <2>11. CASE Release
    BY <2>11 DEF Release, producerVars
  <2>12. CASE UNCHANGED vars
    BY <2>12 DEF vars, producerVars, consumerVars
  <2> QED BY <2>1, <2>2, <2>3, <2>4, <2>5, <2>6, <2>7, <2>8, <2>9, <2>10, <2>11, <2>12
          DEF Next, Producer, Consumer
<1> QED BY <1>1, <1>2, Invariance, PTL DEF Spec

\* Runs of consecutive items are sequences of their length.
LEMMA ItemsSeq ==
    ASSUME NEW a \in Nat, NEW n \in Nat
    PROVE  /\ Items(a, n) \in Seq(Nat) /\ Len(Items(a, n)) = n
           /\ \A i \in 1..n : Items(a, n)[i] = a + i
<1>1. \A i \in 1..n : a + i \in Nat
  OBVIOUS
<1> QED BY <1>1, IsASeq DEF Items

\* They concatenate, and split, into runs of consecutive items.
LEMMA ItemsConcat ==
    ASSUME NEW a \in Nat, NEW m \in Nat, NEW n \in Nat
    PROVE  Items(a, m) \o Items(a + m, n) = Items(a, m + n)
<1> DEFINE s == Items(a, m)
           t == Items(a + m, n)
           u == Items(a, m + n)
<1>1. /\ s \in Seq(Nat) /\ Len(s) = m /\ \A i \in 1..m : s[i] = a + i
      /\ t \in Seq(Nat) /\ Len(t) = n /\ \A i \in 1..n : t[i] = a + m + i
      /\ u \in Seq(Nat) /\ Len(u) = m + n /\ \A i \in 1..(m + n) : u[i] = a + i
  BY ItemsSeq, a + m \in Nat, m + n \in Nat
<1> HIDE DEF s, t, u
<1>2. s \o t \in Seq(Nat) /\ Len(s \o t) = m + n
  BY <1>1, ConcatProperties
<1>3. \A i \in 1..(m + n) : (s \o t)[i] = u[i]
  <2> SUFFICES ASSUME NEW i \in 1..(m + n) PROVE (s \o t)[i] = a + i
    BY <1>1
  <2>1. (s \o t)[i] = IF i <= m THEN s[i] ELSE t[i - m]
    BY <1>1, ConcatProperties
  <2>2. CASE i <= m
    BY <2>1, <2>2, <1>1
  <2>3. CASE ~(i <= m)
    <3>1. i - m \in 1..n /\ a + m + (i - m) = a + i
      BY <2>3
    <3> QED BY <2>1, <2>3, <3>1, <1>1
  <2> QED BY <2>2, <2>3
<1>4. s \o t = u
  BY <1>1, <1>2, <1>3, SeqEqual
<1> QED BY <1>4 DEF s, t, u

\* The first n of a run of items, and the others, are runs of items.
LEMMA ItemsSplit ==
    ASSUME NEW a \in Nat, NEW m \in Nat, NEW n \in 0..m
    PROVE  /\ SubSeq(Items(a, m), 1, n) = Items(a, n)
           /\ SubSeq(Items(a, m), n + 1, m) = Items(a + n, m - n)
BY DEF Items

\* Under the invariant the mapped queue is a run of consecutive items.
LEMMA MappedQueue == IInv => Contents = Items(received, Dist(m_read_pos, m_write_pos))
<1> SUFFICES ASSUME IInv PROVE Contents = Items(received, Dist(m_read_pos, m_write_pos))
  OBVIOUS
<1> DEFINE d == Dist(m_read_pos, m_write_pos)
<1>0. d \in Slots /\ m_read_pos \in Slots
  BY DistInSlots DEF IInv, TypeOK
<1>1. ASSUME NEW i \in 1..d
      PROVE  m_buffer[Wrap(m_read_pos + i - 1)] = received + i
  <2>1. i - 1 \in Slots /\ m_read_pos + i - 1 = m_read_pos + (i - 1)
    BY <1>0 DEF Slots
  <2>2. Wrap(m_read_pos + (i - 1)) \in Slots /\ Dist(m_read_pos, Wrap(m_read_pos + (i - 1))) = i - 1
    <3>1. i - 1 \in 0..Capacity
      BY <2>1 DEF Slots
    <3> QED BY <1>0, <2>1, <3>1, WrapInSlots, DistWrap
  <2>3. m_buffer[Wrap(m_read_pos + (i - 1))] = received + (i - 1) + 1
    BY <1>0, <2>2 DEF IInv, UnreadContents, Slots
  <2> QED BY <2>1, <2>3 DEF IInv, TypeOK
<1> QED BY <1>1 DEF Contents, Items

\* The same after a step.
LEMMA MappedQueueNext == (IInv => Contents = Items(received, Dist(m_read_pos, m_write_pos)))'
BY MappedQueue, PTL

\* A step of the ring is a step of the FIFO or leaves it alone.
LEMMA RefinesStep == IInv /\ IInv' /\ CallBounds /\ [Next]_vars => [Fifo!Next]_(Fifo!vars)
<1> SUFFICES ASSUME IInv, IInv', CallBounds, [Next]_vars
             PROVE  [Fifo!Next]_(Fifo!vars)
  OBVIOUS
<1> DEFINE d == Dist(m_read_pos, m_write_pos)
<1>0. /\ d \in Nat /\ received \in Nat /\ sent = received + d
      /\ Contents = Items(received, d) /\ Contents' = Items(received', d')
      /\ Len(Contents) = d
      /\ Dist(m_cached_read_pos, m_write_pos) \in Nat
      /\ Dist(m_read_pos, m_cached_write_pos) \in Nat
  <2>0. /\ Dist(m_cached_read_pos, m_write_pos) \in Slots
        /\ Dist(m_read_pos, m_cached_write_pos) \in Slots
    BY DistInSlots DEF IInv, TypeOK
  <2>1. d \in Slots /\ Contents = Items(received, d) /\ Contents' = Items(received', d')
    <3>1. Contents = Items(received, d) /\ Contents' = Items(received', d')
      BY MappedQueue, MappedQueueNext
    <3>2. d \in Slots
      BY DistInSlots DEF IInv, TypeOK
    <3> QED BY <3>1, <3>2
  <2>2. d \in Nat /\ received \in Nat /\ sent = received + d
    BY <2>1 DEF IInv, TypeOK, Occupancy, Slots
  <2> QED BY <2>0, <2>1, <2>2, ItemsSeq DEF Slots
<1>1. ASSUME Publish, p_count >= 1 PROVE Fifo!Next
  <2>1. /\ p_count \in 1..MaxBatch /\ sent + p_count <= MaxItems
        /\ d + p_count <= Capacity - 1
    <3>1. p_count \in Nat /\ p_pc = "publish"
      BY <1>1 DEF Publish, IInv, TypeOK
    <3>2. p_count \in 1..MaxBatch /\ sent + p_count <= MaxItems
      BY <1>1, <3>1 DEF CallBounds
    <3>3. /\ d <= Dist(m_cached_read_pos, m_write_pos)
          /\ Dist(m_cached_read_pos, m_write_pos) + p_count <= Capacity - 1
      BY <3>1 DEF IInv, ProducerView
    <3> QED BY <1>0, <3>1, <3>2, <3>3
  <2>2. d' = d + p_count /\ received' = received /\ ret' = ret /\ sent' = sent + p_count
    BY <1>1, <2>1, DistAdvanceEnd DEF Publish, consumerVars, IInv, TypeOK
  <2>3. Contents' = Contents \o Items(sent, p_count)
    <3>1. Items(received, d) \o Items(received + d, p_count) = Items(received, d + p_count)
      BY <1>0, <2>1, p_count \in Nat, ItemsConcat, ZenonT(30)
    <3> QED BY <1>0, <2>2, <3>1
  <2>4. Fifo!Enqueue(p_count)
    BY <1>0, <2>1, <2>2, <2>3 DEF Fifo!Enqueue, Items
  <2> QED BY <2>1, <2>4 DEF Fifo!Next
<1>2. ASSUME Release PROVE Fifo!Next
  <2>1. /\ c_count \in 1..MaxBatch /\ c_count <= d
        /\ \A j \in 1..c_count : c_out[j] = received + j
    <3>1. c_count \in 1..MaxBatch /\ c_done = c_count
      BY <1>2 DEF Release, CallBounds, IInv, TypeOK, ConsumerView
    <3>2. c_count <= d
      BY <1>0, <1>2, <3>1 DEF Release, IInv, ConsumerView
    <3>3. \A j \in 1..c_count : c_out[j] = received + j
      BY <1>2, <3>1 DEF Release, IInv, TakenItems
    <3> QED BY <3>1, <3>2, <3>3
  <2>2. d' = d - c_count /\ received' = received + c_count /\ sent' = sent
    BY <1>0, <1>2, <2>1, DistAdvanceStart DEF Release, producerVars, IInv, TypeOK
  <2>3. ret' = Items(received, c_count)
    BY <1>2, <2>1 DEF Release, Items
  <2>4. /\ SubSeq(Contents, 1, c_count) = Items(received, c_count)
        /\ SubSeq(Contents, c_count + 1, d) = Items(received + c_count, d - c_count)
    <3>1. c_count \in 0..d
      BY <1>0, <2>1
    <3>2. /\ SubSeq(Items(received, d), 1, c_count) = Items(received, c_count)
          /\ SubSeq(Items(received, d), c_count + 1, d) = Items(received + c_count, d - c_count)
      BY <1>0, <3>1, ItemsSplit
    <3> QED BY <1>0, <3>2
  <2>5. Fifo!Dequeue(c_count)
    BY <1>0, <2>1, <2>2, <2>3, <2>4 DEF Fifo!Dequeue
  <2> QED BY <2>1, <2>5 DEF Fifo!Next
<1>3. ASSUME ~(Publish /\ p_count >= 1), ~Release PROVE UNCHANGED Fifo!vars
  <2>1. UNCHANGED <<m_read_pos, m_write_pos, sent, received, ret>>
    <3>1. CASE Publish
      <4>1. p_count = 0 /\ m_write_pos \in Slots
        BY <3>1, <1>3 DEF IInv, TypeOK
      <4>2. Wrap(m_write_pos + p_count) = m_write_pos /\ sent + p_count = sent
        BY <4>1 DEF Wrap, Slots, IInv, TypeOK
      <4> QED BY <3>1, <4>2 DEF Publish, consumerVars
    <3>2. CASE ~Publish
      BY <1>3, <3>2
         DEF Next, Producer, Consumer, PushStart, PushReload, PushBatchStart, PushBatchReload,
             CopyItem, CanPush, PopStart, PopReload, TakeItem, vars, producerVars, consumerVars
    <3> QED BY <3>1, <3>2
  <2>2. d' = d
    BY <2>1
  <2> QED BY <1>0, <2>1, <2>2 DEF Fifo!vars
<1> QED BY <1>1, <1>2, <1>3

\* The ring with its cached indices implements the bounded FIFO, for every
\* ring size, batch size, stream and interleaving of the two threads.
THEOREM RingImplementsFifo == Spec => ImplementsFifo
<1>1. Init => Fifo!Init
  <2> SUFFICES ASSUME Init PROVE Contents = <<>> /\ sent = 0 /\ ret = <<>>
    BY DEF Fifo!Init, Init
  <2>1. Dist(m_read_pos, m_write_pos) = 0
    BY DEF Init, Dist
  <2> QED BY <2>1 DEF Contents, Init
<1> QED BY <1>1, RefinesStep, Invariance, CallBoundsInvariance, PTL
        DEF Spec, ImplementsFifo, Fifo!Spec
----------------------------------------------------------------------------
(* QueueObserver: the depth CsvPerformanceMonitor samples, whatever the two *)
(* threads of the queue do between the loads of size().                    *)

\* The write index the observer has loaded is the end of the items that were
\* published at that load, for as long as the consumer has not passed it.
LoadedEnd ==
    o_pc = "loaded" =>
        /\ o_write \in Slots /\ o_sent \in Nat /\ o_sent <= sent
        /\ received <= o_sent => Dist(m_read_pos, o_write) = o_sent - received

\* The inductive invariant: the ring's own, and what the observer holds.
ObservedInv == IInv /\ LoadedEnd

----------------------------------------------------------------------------
\* The observer only loads: with it beside them the two threads behave as
\* they do alone.
THEOREM ObserverIsPassive == ObservedSpec => Spec
<1>1. ObservedInit => Init
  BY DEF ObservedInit
<1>2. [ObservedNext]_observedVars => [Next]_vars
  BY DEF ObservedNext, Observer, SizeLoadWrite, SizeLoadRead, observedVars
<1> QED BY <1>1, <1>2, PTL DEF ObservedSpec, Spec

\* A step of the queue moves neither the loaded index nor the published items
\* before it; a release by the consumer shortens the distance to it by what
\* it returns.
LEMMA QueuePreservesLoaded ==
    ObservedInv /\ Next /\ UNCHANGED observerVars => LoadedEnd'
<1> SUFFICES ASSUME IInv, LoadedEnd, Next, UNCHANGED observerVars, o_pc = "loaded"
             PROVE  /\ o_write \in Slots /\ o_sent \in Nat /\ o_sent <= sent'
                    /\ received' <= o_sent => Dist(m_read_pos', o_write) = o_sent - received'
  BY DEF ObservedInv, LoadedEnd, observerVars
<1>1. /\ o_write \in Slots /\ o_sent \in Nat /\ o_sent <= sent
      /\ received <= o_sent => Dist(m_read_pos, o_write) = o_sent - received
      /\ sent \in Nat /\ received \in Nat /\ p_count \in Nat /\ c_count \in Nat
      /\ m_read_pos \in Slots
  BY DEF LoadedEnd, IInv, TypeOK
<1>2. CASE Release
  <2>1. sent' = sent /\ received' = received + c_count /\ m_read_pos' = Wrap(m_read_pos + c_count)
    BY <1>2 DEF Release, producerVars
  <2>2. ASSUME received + c_count <= o_sent
        PROVE  Dist(Wrap(m_read_pos + c_count), o_write) = o_sent - (received + c_count)
    <3>1. Dist(m_read_pos, o_write) = o_sent - received /\ c_count <= Dist(m_read_pos, o_write)
      BY <1>1, <2>2
    <3> QED BY <1>1, <3>1, DistAdvanceStart
  <2> QED BY <1>1, <2>1, <2>2
<1>3. CASE Publish
  <2>1. sent' = sent + p_count /\ received' = received /\ m_read_pos' = m_read_pos
    BY <1>3 DEF Publish, consumerVars
  <2> QED BY <1>1, <2>1
<1>4. ASSUME ~Release, ~Publish
      PROVE  UNCHANGED <<sent, received, m_read_pos>>
  BY <1>4 DEF Next, Producer, Consumer, PushStart, PushReload, PushBatchStart, PushBatchReload,
              CopyItem, CanPush, PopStart, PopReload, TakeItem, producerVars, consumerVars
<1> QED BY <1>1, <1>2, <1>3, <1>4

\* The two loads of size().
LEMMA ObserverPreservesLoaded == ObservedInv /\ Observer => LoadedEnd'
<1> SUFFICES ASSUME IInv, LoadedEnd, Observer PROVE LoadedEnd'
  BY DEF ObservedInv
<1>1. CASE SizeLoadWrite
  BY <1>1 DEF SizeLoadWrite, LoadedEnd, IInv, TypeOK, Occupancy, vars, producerVars, consumerVars
<1>2. CASE SizeLoadRead
  BY <1>2 DEF SizeLoadRead, LoadedEnd
<1> QED BY <1>1, <1>2 DEF Observer

\* The invariant holds in every reachable state, with the observer running.
THEOREM ObservedInvariance == ObservedSpec => []ObservedInv
<1>1. ObservedInit => LoadedEnd
  BY DEF ObservedInit, ObserverInit, LoadedEnd
<1>2. ObservedInv /\ [ObservedNext]_observedVars => LoadedEnd'
  <2> SUFFICES ASSUME ObservedInv, [ObservedNext]_observedVars PROVE LoadedEnd'
    OBVIOUS
  <2>1. CASE UNCHANGED observedVars
    BY <2>1 DEF ObservedInv, LoadedEnd, observedVars, observerVars, vars, producerVars, consumerVars
  <2> QED BY <2>1, QueuePreservesLoaded, ObserverPreservesLoaded DEF ObservedNext
<1>3. ObservedSpec => []IInv
  BY ObserverIsPassive, Invariance, PTL
<1> QED BY <1>1, <1>2, <1>3, PTL DEF ObservedSpec, ObservedInv

\* What size() is about to return is a possible depth, and exact for the items
\* published at its first load as long as the consumer has not passed them.
THEOREM SampledDepthSound == ObservedSpec => []SizeSound
<1>1. ObservedInv => SizeSound
  <2> SUFFICES ASSUME ObservedInv, o_pc = "loaded"
               PROVE  /\ Size \in 0..(Capacity - 1)
                      /\ received <= o_sent => Size = o_sent - received /\ Size <= sent - received
    BY DEF SizeSound
  <2>1. Size = Dist(m_read_pos, o_write) /\ Size \in Slots
    BY DistInSlots DEF ObservedInv, LoadedEnd, IInv, TypeOK, Size, Dist
  <2> QED BY <2>1 DEF ObservedInv, LoadedEnd, IInv, TypeOK, Slots
<1> QED BY ObservedInvariance, <1>1, PTL
=============================================================================
