----------------------------- MODULE SPSCQueue -----------------------------
(***************************************************************************)
(* hft::common::SPSCQueue<T, Capacity>: the lock-free ring between one     *)
(* producer thread and one consumer thread, with the index caching that    *)
(* lets each side avoid loading the other side's atomic.                   *)
(*                                                                         *)
(* One action is one access to state the other thread can see: the load of *)
(* the other side's index, the copy of one element, the release store of   *)
(* the thread's own index.  What a thread does between two such accesses   *)
(* (reading its own index, comparing with its cached copy) is local and is *)
(* merged with the access that follows.  The element stored by the k-th    *)
(* successful push is the number k.                                        *)
(***************************************************************************)
EXTENDS Integers

CONSTANTS Capacity,     \* slots of m_buffer; a power of two (static_assert)
          MaxBatch,     \* bound: largest batch a caller asks for
          MaxItems      \* bound: length of the producer's stream

ASSUME CapacityAssumption == Capacity \in Nat /\ Capacity > 1
ASSUME MaxBatchAssumption == MaxBatch \in Nat /\ MaxBatch >= 1
ASSUME MaxItemsAssumption == MaxItems \in Nat

VARIABLES
    m_write_pos, m_cached_read_pos,     \* written by the producer only
    m_read_pos, m_cached_write_pos,     \* written by the consumer only
    m_buffer,                           \* 0 is a slot never written
    p_pc, p_count, p_done,              \* call in progress in the producer
    p_can,                              \* can_push() answered TRUE and nothing was pushed since
    sent,                               \* items published so far
    c_pc, c_want, c_count, c_done,      \* call in progress in the consumer
    c_out,                              \* output_items
    ret,                                \* the items the last successful pop returned
    received                            \* items returned so far

producerVars == <<m_write_pos, m_cached_read_pos, p_pc, p_count, p_done, p_can, sent>>
consumerVars == <<m_read_pos, m_cached_write_pos, c_pc, c_want, c_count, c_done, c_out, ret, received>>
vars == <<producerVars, consumerVars, m_buffer>>

Slots == 0..(Capacity - 1)

----------------------------------------------------------------------------
(***************************************************************************)
(* Index arithmetic.  Wrap(x) is x & (Capacity - 1) for 0 <= x < 2*Capacity*)
(* (Capacity is a power of two); Dist(r, w) is the number of elements from *)
(* read index r to write index w; FreeSlots keeps one slot empty.          *)
(***************************************************************************)
Wrap(x) == IF x < Capacity THEN x ELSE x - Capacity

Dist(r, w) == IF w >= r THEN w - r ELSE Capacity - r + w

FreeSlotsNoReserve(r, w) == IF r > w THEN r - w ELSE Capacity - w + r
FreeSlots(r, w) == IF r > w THEN r - w - 1 ELSE Capacity - w + r - 1

Lesser(a, b) == IF a < b THEN a ELSE b

Init ==
    /\ m_write_pos = 0 /\ m_cached_read_pos = 0
    /\ m_read_pos = 0 /\ m_cached_write_pos = 0
    /\ m_buffer = [i \in Slots |-> 0]
    /\ p_pc = "idle" /\ p_count = 0 /\ p_done = 0 /\ p_can = FALSE /\ sent = 0
    /\ c_pc = "idle" /\ c_want = 0 /\ c_count = 0 /\ c_done = 0 /\ received = 0
    /\ c_out = [i \in 1..MaxBatch |-> 0]
    /\ ret = <<>>

----------------------------------------------------------------------------
(***************************************************************************)
(* Producer: push, push_batch, can_push.                                   *)
(***************************************************************************)

\* push(): compare the next index with the cached read index.
PushStart ==
    /\ p_pc = "idle"
    /\ sent < MaxItems
    /\ p_count' = 1
    /\ p_done' = 0
    /\ p_pc' = IF Wrap(m_write_pos + 1) = m_cached_read_pos THEN "reload" ELSE "copy"
    /\ UNCHANGED <<m_write_pos, m_cached_read_pos, p_can, sent, consumerVars, m_buffer>>

\* push(): refresh the cached read index; "return false" when still full.
PushReload ==
    /\ p_pc = "reload"
    /\ m_cached_read_pos' = m_read_pos
    /\ p_pc' = IF Wrap(m_write_pos + 1) = m_read_pos THEN "idle" ELSE "copy"
    /\ p_can' = (p_can /\ p_pc' = "copy")
    /\ UNCHANGED <<m_write_pos, p_count, p_done, sent, consumerVars, m_buffer>>

\* push_batch(items, n): enough room according to the cached read index?
PushBatchStart(n) ==
    /\ p_pc = "idle"
    /\ sent + n <= MaxItems
    /\ p_count' = n
    /\ p_done' = 0
    /\ p_pc' = IF FreeSlots(m_cached_read_pos, m_write_pos) < n THEN "batch_reload" ELSE "copy"
    /\ UNCHANGED <<m_write_pos, m_cached_read_pos, p_can, sent, consumerVars, m_buffer>>

\* push_batch(): to_push = min(free_slots, count), possibly 0.
PushBatchReload ==
    /\ p_pc = "batch_reload"
    /\ m_cached_read_pos' = m_read_pos
    /\ p_count' = Lesser(FreeSlots(m_read_pos, m_write_pos), p_count)
    /\ p_pc' = IF p_count' = 0 THEN "publish" ELSE "copy"
    /\ UNCHANGED <<m_write_pos, p_done, p_can, sent, consumerVars, m_buffer>>

\* m_buffer[current_write] = item, element by element for a batch (the two
\* contiguous segments of push_batch together visit the wrapped indices).
CopyItem ==
    /\ p_pc = "copy"
    /\ m_buffer' = [m_buffer EXCEPT ![Wrap(m_write_pos + p_done)] = sent + p_done + 1]
    /\ p_done' = p_done + 1
    /\ p_pc' = IF p_done' = p_count THEN "publish" ELSE "copy"
    /\ UNCHANGED <<m_write_pos, m_cached_read_pos, p_count, p_can, sent, consumerVars>>

\* The single release store of m_write_pos.
PublishNoWrap ==
    /\ p_pc = "publish"
    /\ m_write_pos' = m_write_pos + p_count
    /\ sent' = sent + p_count
    /\ p_can' = FALSE
    /\ p_pc' = "idle"
    /\ UNCHANGED <<m_cached_read_pos, p_count, p_done, consumerVars, m_buffer>>
Publish ==
    /\ p_pc = "publish"
    /\ m_write_pos' = Wrap(m_write_pos + p_count)
    /\ sent' = sent + p_count
    /\ p_can' = FALSE
    /\ p_pc' = "idle"
    /\ UNCHANGED <<m_cached_read_pos, p_count, p_done, consumerVars, m_buffer>>

\* can_push(), called by the logging producers right before push().
CanPushOffByOne ==
    /\ p_pc = "idle"
    /\ p_can' = (m_write_pos # Wrap(m_read_pos + Capacity - 2))
    /\ UNCHANGED <<m_write_pos, m_cached_read_pos, p_pc, p_count, p_done, sent, consumerVars, m_buffer>>
CanPush ==
    /\ p_pc = "idle"
    /\ p_can' = (Wrap(m_write_pos + 1) # m_read_pos)
    /\ UNCHANGED <<m_write_pos, m_cached_read_pos, p_pc, p_count, p_done, sent, consumerVars, m_buffer>>

Producer ==
    \/ PushStart \/ PushReload
    \/ \E n \in 1..MaxBatch : PushBatchStart(n)
    \/ PushBatchReload
    \/ CopyItem \/ Publish \/ CanPush

----------------------------------------------------------------------------
(***************************************************************************)
(* Consumer: pop is pop_batch with max_items = 1.                          *)
(***************************************************************************)

\* Trust the cached write index while it differs from the read index.
PopStart(n) ==
    /\ c_pc = "idle"
    /\ c_want' = n
    /\ c_done' = 0
    /\ IF m_read_pos = m_cached_write_pos
         THEN c_pc' = "reload" /\ c_count' = 0
         ELSE c_pc' = "take" /\ c_count' = Lesser(Dist(m_read_pos, m_cached_write_pos), n)
    /\ UNCHANGED <<m_read_pos, m_cached_write_pos, c_out, ret, received, producerVars, m_buffer>>

\* Refresh the cached write index; "return 0" when still empty.
PopReloadGreedy ==
    /\ c_pc = "reload"
    /\ m_cached_write_pos' = m_write_pos
    /\ c_pc' = IF m_read_pos = m_write_pos THEN "idle" ELSE "take"
    /\ c_count' = IF m_read_pos = m_write_pos THEN 0 ELSE c_want
    /\ UNCHANGED <<m_read_pos, c_want, c_done, c_out, ret, received, producerVars, m_buffer>>
PopReloadForgets ==
    /\ c_pc = "reload"
    /\ c_pc' = "idle"
    /\ UNCHANGED <<m_read_pos, m_cached_write_pos, c_want, c_count, c_done, c_out, ret, received, producerVars, m_buffer>>
PopReload ==
    /\ c_pc = "reload"
    /\ m_cached_write_pos' = m_write_pos
    /\ c_count' = Lesser(Dist(m_read_pos, m_write_pos), c_want)
    /\ c_pc' = IF m_read_pos = m_write_pos THEN "idle" ELSE "take"
    /\ UNCHANGED <<m_read_pos, c_want, c_done, c_out, ret, received, producerVars, m_buffer>>

\* output_items[c_done] = std::move(m_buffer[...]).
TakeItem ==
    /\ c_pc = "take"
    /\ c_out' = [c_out EXCEPT ![c_done + 1] = m_buffer[Wrap(m_read_pos + c_done)]]
    /\ c_done' = c_done + 1
    /\ c_pc' = IF c_done' = c_count THEN "release" ELSE "take"
    /\ UNCHANGED <<m_read_pos, m_cached_write_pos, c_want, c_count, ret, received, producerVars, m_buffer>>

\* The single release store of m_read_pos; the call returns.
ReleaseOneOnly ==
    /\ c_pc = "release"
    /\ m_read_pos' = Wrap(m_read_pos + 1)
    /\ received' = received + c_count
    /\ ret' = [i \in 1..c_count |-> c_out[i]]
    /\ c_pc' = "idle"
    /\ UNCHANGED <<m_cached_write_pos, c_want, c_count, c_done, c_out, producerVars, m_buffer>>
Release ==
    /\ c_pc = "release"
    /\ m_read_pos' = Wrap(m_read_pos + c_count)
    /\ received' = received + c_count
    /\ ret' = [i \in 1..c_count |-> c_out[i]]
    /\ c_pc' = "idle"
    /\ UNCHANGED <<m_cached_write_pos, c_want, c_count, c_done, c_out, producerVars, m_buffer>>

Consumer ==
    \/ \E n \in 1..MaxBatch : PopStart(n)
    \/ PopReload \/ TakeItem \/ Release

Next == Producer \/ Consumer

Spec == Init /\ [][Next]_vars

\* The consumer thread polls the queue in a loop and is never blocked by it;
\* a call the producer has begun is finished.  Nothing forces the producer to
\* begin another one.
Fairness == WF_vars(Consumer) /\ WF_vars(CopyItem \/ Publish)

FairSpec == Spec /\ Fairness

----------------------------------------------------------------------------
(***************************************************************************)
(* Properties.                                                             *)
(***************************************************************************)

\* Types of the two indices, their cached copies, the buffer and the calls.
TypeOK ==
    /\ m_write_pos \in Slots /\ m_cached_read_pos \in Slots
    /\ m_read_pos \in Slots /\ m_cached_write_pos \in Slots
    /\ m_buffer \in [Slots -> Nat]
    /\ p_pc \in {"idle", "reload", "batch_reload", "copy", "publish"}
    /\ p_count \in Nat /\ p_done \in Nat /\ p_can \in BOOLEAN /\ sent \in Nat
    /\ c_pc \in {"idle", "reload", "take", "release"}
    /\ c_want \in 0..MaxBatch /\ c_count \in 0..MaxBatch /\ c_done \in 0..MaxBatch
    /\ received \in Nat
    /\ c_out \in [1..MaxBatch -> Nat]

\* Whatever the interleaving of a push/push_batch with a pop/pop_batch and
\* however stale the cached indices, a call that is about to return hands out
\* exactly the next items of the stream: none lost, repeated, reordered, or
\* read before its copy into the slot was finished.
FifoDelivery ==
    c_pc = "release" => \A j \in 1..c_count : c_out[j] = received + j

\* push()/push_batch() never write the slot pop()/pop_batch() is reading: the
\* two plain accesses to m_buffer are never concurrent on one slot, which is
\* what makes them free of data races.
NoSlotRace ==
    (p_pc = "copy" /\ c_pc = "take") =>
        Wrap(m_write_pos + p_done) # Wrap(m_read_pos + c_done)

\* The producer never writes a slot that holds a published item the consumer
\* has not released (the stale m_cached_read_pos only ever errs towards full).
NoOverwrite ==
    p_pc = "copy" => Dist(m_read_pos, m_write_pos) + p_done < Capacity - 1

\* A TRUE answer of can_push() stays true until the producer itself pushes, so
\* FixWorker may ignore the result of the push() that follows it.
CanPushIsStable ==
    (p_can /\ p_pc \in {"idle", "reload", "batch_reload"}) =>
        Wrap(m_write_pos + 1) # m_read_pos

\* The ring behaves as the bounded FIFO of BoundedFifo: an item enters at the
\* release store of m_write_pos and leaves at the one of m_read_pos.
Contents == [i \in 1..Dist(m_read_pos, m_write_pos) |-> m_buffer[Wrap(m_read_pos + i - 1)]]
Fifo == INSTANCE BoundedFifo WITH Bound <- Capacity - 1, queue <- Contents
ImplementsFifo == Fifo!Spec

\* Every published item is eventually returned by a pop: the cached write
\* index is refreshed in time and no item is stranded in the ring.
EveryItemDelivered == \A n \in 1..MaxItems : (sent >= n) ~> (received >= n)
=============================================================================
