----------------------- MODULE SequenceReorderBuffer -----------------------
(***************************************************************************)
(* SequenceReorderBuffer<Capacity>: messages ahead of the expected number  *)
(* wait in a ring, one slot per number modulo Capacity, until the gap      *)
(* before them is closed.  A message is its number and its length.         *)
(***************************************************************************)
EXTENDS Integers, Sequences, SequencesExt, FiniteSetsExt

CONSTANTS Capacity,         \* slots of m_ring, a power of two (256)
          MaxPayloadLen,    \* bytes of ReorderSlot::payload (512)
          MaxSeq, Lengths,  \* bounds: the messages that may come
          MaxCalls          \* bound: calls of push

ASSUME ReorderAssumption ==
    /\ Capacity \in Nat /\ Capacity >= 1
    /\ MaxPayloadLen \in Nat /\ MaxSeq \in Nat /\ MaxCalls \in Nat
    /\ Lengths \subseteq Nat

VARIABLES m_expected_seq, m_ring,
          m_out_of_order_buffered_count, m_duplicates_count, m_overflow_count,
          out_emitted,      \* the messages handed to the caller since the last reset
          accepted          \* history: non-empty messages emitted or buffered since then

counters == <<m_out_of_order_buffered_count, m_duplicates_count, m_overflow_count>>
vars == <<m_expected_seq, m_ring, counters, out_emitted, accepted>>

Empty == [seq_num |-> 0, len |-> 0, occupied |-> FALSE]

Cleared ==
    /\ m_ring' = [i \in 0..(Capacity - 1) |-> Empty]
    /\ m_out_of_order_buffered_count' = 0 /\ m_duplicates_count' = 0 /\ m_overflow_count' = 0
    /\ out_emitted' = <<>>
    /\ accepted' = {}

Init ==
    /\ m_expected_seq = 1
    /\ m_ring = [i \in 0..(Capacity - 1) |-> Empty]
    /\ m_out_of_order_buffered_count = 0 /\ m_duplicates_count = 0 /\ m_overflow_count = 0
    /\ out_emitted = <<>>
    /\ accepted = {}

Index(s) == s % Capacity

Message(s, len) == [seq |-> s, len |-> len]

\* drain_buffered: how many slots follow without a gap from number e on.
Holds(s) == m_ring[Index(s)].occupied /\ m_ring[Index(s)].seq_num = s
DrainOnce(e) == IF Holds(e) THEN 1 ELSE 0
DrainCount(e) == Max({n \in 0..Capacity : \A k \in 0..(n - 1) : Holds(e + k)})

IsNextOrEarlier(s) == s <= m_expected_seq
IsNext(s) == s = m_expected_seq

\* push, the next message in order.  An empty payload is not emitted.
PushInOrder(s, len) ==
    /\ IsNext(s)
    /\ LET n == DrainCount(s + 1)
           own == IF len > 0 THEN <<Message(s, len)>> ELSE <<>>
           rest == [k \in 1..n |-> Message(m_ring[Index(s + k)].seq_num, m_ring[Index(s + k)].len)]
       IN  /\ out_emitted' = out_emitted \o own \o rest
           /\ m_expected_seq' = s + n + 1
           /\ m_ring' = [i \in DOMAIN m_ring |->
                            IF \E k \in 1..n : i = Index(s + k)
                              THEN [m_ring[i] EXCEPT !.occupied = FALSE] ELSE m_ring[i]]
    /\ accepted' = IF len > 0 THEN accepted \cup {Message(s, len)} ELSE accepted
    /\ UNCHANGED counters

\* push, ahead of order: buffered when it is inside the look-ahead window.
InWindowWide(s) == s <= m_expected_seq + Capacity + 1
InWindow(s) == s < m_expected_seq + Capacity

BufferedLen(len) == IF len < MaxPayloadLen THEN len ELSE MaxPayloadLen

PushAhead(s, len) ==
    /\ s > m_expected_seq
    /\ InWindow(s)
    /\ m_ring' = [m_ring EXCEPT ![Index(s)] =
                    [seq_num |-> s, len |-> BufferedLen(len), occupied |-> TRUE]]
    /\ m_out_of_order_buffered_count' = m_out_of_order_buffered_count + 1
    /\ accepted' = IF len > 0 THEN accepted \cup {Message(s, len)} ELSE accepted
    /\ UNCHANGED <<m_expected_seq, m_duplicates_count, m_overflow_count, out_emitted>>

PushBeyond(s) ==
    /\ s > m_expected_seq
    /\ ~InWindow(s)
    /\ m_overflow_count' = m_overflow_count + 1
    /\ UNCHANGED <<m_expected_seq, m_ring, m_out_of_order_buffered_count, m_duplicates_count,
                   out_emitted, accepted>>

PushLate(s) ==
    /\ s < m_expected_seq
    /\ m_duplicates_count' = m_duplicates_count + 1
    /\ UNCHANGED <<m_expected_seq, m_ring, m_out_of_order_buffered_count, m_overflow_count,
                   out_emitted, accepted>>

\* Every copy of a message has the same length.
LengthOf(s) == {len \in Lengths : \A m \in accepted : m.seq = s => m.len = len}

Calls == m_out_of_order_buffered_count + m_duplicates_count + m_overflow_count

Push(s) ==
    /\ Calls < MaxCalls
    /\ \/ \E len \in LengthOf(s) : PushInOrder(s, len) \/ PushAhead(s, len)
       \/ PushBeyond(s) \/ PushLate(s)

Reset(e) ==
    /\ m_expected_seq' = e
    /\ Cleared

Next == (\E s \in 1..MaxSeq : Push(s)) \/ (\E e \in {1, MaxSeq} : Reset(e))

Spec == Init /\ [][Next]_vars

----------------------------------------------------------------------------
(* Properties.                                                             *)

\* "Emits them in strict sequential order": no message is emitted twice or
\* after a later one.
StrictOrder ==
    \A i, j \in DOMAIN out_emitted : i < j => out_emitted[i].seq < out_emitted[j].seq

\* A message that push took, at once or into the ring, is never lost or cut:
\* it has been emitted as it came in or still waits whole in its slot, which no
\* other message of the look-ahead window shares.  Nothing else is emitted,
\* apart from empty messages that had to wait.
NothingTakenIsLost ==
    /\ \A m \in accepted : \/ Holds(m.seq) /\ m_ring[Index(m.seq)].len = m.len
                          \/ m \in ToSet(out_emitted)
    /\ \A m \in ToSet(out_emitted) : m \in accepted \/ m.len = 0

\* A message that waits is strictly ahead: drain_buffered has left nothing
\* behind that could go out.
NothingReadyWaits == \A i \in DOMAIN m_ring :
    m_ring[i].occupied => m_ring[i].seq_num > m_expected_seq
=============================================================================
