------------------------ MODULE FeedRecovery_proofs ------------------------
(***************************************************************************)
(* Proofs about the two parts that repair a feed.  SequenceReorderBuffer:  *)
(* for every capacity (a power of two or not), every set of messages and   *)
(* any number of calls.  OrderBookRecovery: for every MaxLevels, every feed*)
(* of updates and every order in which updates, losses and snapshots come. *)
(* The two specifications share no variable.                               *)
(***************************************************************************)
EXTENDS SequenceReorderBuffer, OrderBookRecovery, SequenceTheorems, FiniteSetTheorems,
        WellFoundedInduction, TLAPS

----------------------------------------------------------------------------
(* SequenceReorderBuffer.                                                  *)

Slots == 0..(Capacity - 1)
Slot == [seq_num : Nat, len : Nat, occupied : BOOLEAN]
Messages == [seq : Nat, len : Nat]

ReorderType ==
    /\ m_expected_seq \in Nat
    /\ m_ring \in [Slots -> Slot]
    /\ out_emitted \in Seq(Messages)
    /\ accepted \in SUBSET Messages

\* What waits is strictly ahead, inside the look-ahead window and in the slot
\* of its number, so that no two numbers of the window meet in a slot.
WindowKept ==
    \A i \in Slots : m_ring[i].occupied =>
        /\ m_expected_seq < m_ring[i].seq_num
        /\ m_ring[i].seq_num < m_expected_seq + Capacity
        /\ Index(m_ring[i].seq_num) = i

\* What has been emitted is before the expected number, in strict order.
Before(msgs, e) == \A i \in 1..Len(msgs) : msgs[i].seq < e
Increasing(msgs) == \A i, j \in 1..Len(msgs) : i < j => msgs[i].seq < msgs[j].seq
EmittedBefore == Before(out_emitted, m_expected_seq) /\ Increasing(out_emitted)

\* The inductive invariant of the order.
OrderInv ==
    /\ ReorderType
    /\ WindowKept
    /\ EmittedBefore

\* A slot holds a message as it was accepted, or an empty one.
SlotsTruthful ==
    \A i \in Slots : m_ring[i].occupied =>
        \/ Message(m_ring[i].seq_num, m_ring[i].len) \in accepted
        \/ m_ring[i].len = 0

\* No message is longer than the payload array of a slot.
PayloadsFit == \A len \in Lengths : len <= MaxPayloadLen

\* The inductive invariant of the contents, on top of OrderInv.
ContentInv ==
    /\ SlotsTruthful
    /\ NothingTakenIsLost

----------------------------------------------------------------------------
USE ReorderAssumption

\* A number is bound to one of the slots.
LEMMA IndexInSlots ==
    ASSUME NEW s \in Nat
    PROVE  Index(s) \in Slots
BY DEF Index, Slots

\* Two numbers of one window have different slots.
LEMMA IndexInjective ==
    ASSUME NEW s \in Nat, NEW t \in Nat, Index(s) = Index(t), s - t < Capacity, t - s < Capacity
    PROVE  s = t
<1>1. ASSUME NEW a \in Int, NEW b \in Int,
             Capacity * a - Capacity * b < Capacity, Capacity * b - Capacity * a < Capacity
      PROVE  a = b
  BY <1>1
<1> DEFINE a == s \div Capacity
           b == t \div Capacity
<1>2. /\ a \in Int /\ b \in Int /\ s % Capacity \in Int
      /\ s = Capacity * a + (s % Capacity) /\ t = Capacity * b + (t % Capacity)
  OBVIOUS
<1>3. Capacity * a \in Int /\ Capacity * b \in Int /\ s % Capacity = t % Capacity
  BY <1>2 DEF Index
<1>4. Capacity * a - Capacity * b < Capacity /\ Capacity * b - Capacity * a < Capacity
  <2> HIDE DEF a, b
  <2> QED BY <1>2, <1>3
<1>5. a = b
  <2> HIDE DEF a, b
  <2> QED BY <1>1, <1>2, <1>4
<1> QED BY <1>2, <1>3, <1>5

\* A bounded set of naturals that is not empty has a greatest element.
LEMMA GreatestElement ==
    ASSUME NEW b \in Nat, NEW S \in SUBSET (0..b), S # {}
    PROVE  Max(S) \in S /\ \A y \in S : Max(S) >= y
<1> DEFINE T == {b - x : x \in S}
<1>1. T \subseteq Nat /\ T # {}
  <2>1. PICK z : z \in S
    OBVIOUS
  <2>2. b - z \in T
    BY <2>1
  <2>3. \A x \in S : b - x \in Nat
    OBVIOUS
  <2> QED BY <2>2, <2>3
<1> DEFINE R == OpToRel(<, Nat)
<1>2. PICK m \in T : \A y \in T : ~(<<y, m>> \in R)
  <2> HIDE DEF T, R
  <2> QED BY <1>1, NatLessThanWellFounded, WFMin DEF R
<1>3. \A y \in T : ~(y < m)
  BY <1>1, <1>2 DEF OpToRel
<1>4. PICK x \in S : m = b - x
  OBVIOUS
<1>5. \A y \in S : x >= y
  <2> TAKE y \in S
  <2>1. b - y \in T /\ x \in Nat /\ y \in Nat
    OBVIOUS
  <2>2. ~(b - y < b - x)
    BY <1>3, <1>4, <2>1
  <2> QED BY <2>1, <2>2
<1> QED BY <1>5 DEF Max

\* Later messages behind earlier ones.
LEMMA IncreasingConcat ==
    ASSUME NEW p \in Seq(Messages), NEW q \in Seq(Messages), NEW b \in Nat, NEW c \in Nat,
           Before(p, b), Increasing(p), Before(q, c), Increasing(q), b <= c,
           \A i \in 1..Len(q) : b <= q[i].seq
    PROVE  p \o q \in Seq(Messages) /\ Before(p \o q, c) /\ Increasing(p \o q)
<1> DEFINE r == p \o q
<1>1. /\ r \in Seq(Messages) /\ Len(r) = Len(p) + Len(q) /\ Len(p) \in Nat /\ Len(q) \in Nat
      /\ \A i \in 1..Len(r) : r[i] = IF i <= Len(p) THEN p[i] ELSE q[i - Len(p)]
  BY ConcatProperties
<1>2. /\ \A i \in 1..Len(p) : p[i].seq \in Nat /\ p[i].seq < b
      /\ \A i \in 1..Len(q) : q[i].seq \in Nat /\ b <= q[i].seq /\ q[i].seq < c
  <2>1. (\A i \in 1..Len(p) : p[i] \in Messages) /\ (\A i \in 1..Len(q) : q[i] \in Messages)
    BY ElementOfSeq
  <2> QED BY <2>1 DEF Before, Messages
<1> HIDE DEF r
<1>3. Before(r, c)
  <2> SUFFICES ASSUME NEW i \in 1..Len(r) PROVE r[i].seq < c
    BY DEF Before
  <2>1. CASE i <= Len(p)
    BY <1>1, <1>2, <2>1, SMTT(30)
  <2>2. CASE i > Len(p)
    <3>1. i - Len(p) \in 1..Len(q) /\ r[i] = q[i - Len(p)]
      BY <1>1, <2>2
    <3> QED BY <1>2, <3>1
  <2> QED BY <1>1, <2>1, <2>2
<1>4. Increasing(r)
  <2> SUFFICES ASSUME NEW i \in 1..Len(r), NEW j \in 1..Len(r), i < j PROVE r[i].seq < r[j].seq
    BY DEF Increasing
  <2>1. CASE j <= Len(p)
    BY <1>1, <2>1 DEF Increasing
  <2>2. CASE i <= Len(p) /\ j > Len(p)
    <3>1. i \in 1..Len(p) /\ r[i] = p[i] /\ j - Len(p) \in 1..Len(q) /\ r[j] = q[j - Len(p)]
      BY <1>1, <2>2
    <3> QED BY <1>2, <3>1, SMTT(30)
  <2>3. CASE i > Len(p)
    <3>1. /\ i - Len(p) \in 1..Len(q) /\ r[i] = q[i - Len(p)]
          /\ j - Len(p) \in 1..Len(q) /\ r[j] = q[j - Len(p)] /\ i - Len(p) < j - Len(p)
      <4>1. /\ i - Len(p) \in 1..Len(q) /\ j - Len(p) \in 1..Len(q) /\ i - Len(p) < j - Len(p)
            /\ ~(i <= Len(p)) /\ ~(j <= Len(p))
        BY <1>1, <2>3
      <4> QED BY <1>1, <4>1
    <3> QED BY <3>1 DEF Increasing
  <2> QED BY <1>1, <2>1, <2>2, <2>3
<1> QED BY <1>1, <1>3, <1>4 DEF r

----------------------------------------------------------------------------
\* drain_buffered stops at the first gap, and never gets around the ring: the
\* numbers it takes follow the expected one, and the next one is not there.
LEMMA DrainStopsAtGap ==
    ASSUME OrderInv
    PROVE  LET n == DrainCount(m_expected_seq + 1)
           IN  /\ n \in 0..(Capacity - 1)
               /\ \A k \in 1..n : Holds(m_expected_seq + k)
               /\ ~Holds(m_expected_seq + n + 1)
<1> DEFINE e == m_expected_seq + 1
           S == {n \in 0..Capacity : \A k \in 0..(n - 1) : Holds(e + k)}
           n == Max(S)
<1>0. m_expected_seq \in Nat /\ e \in Nat
  BY DEF OrderInv, ReorderType
<1>1. 0 \in S
  OBVIOUS
<1>2. n \in S /\ \A y \in S : n >= y
  <2> HIDE DEF S
  <2>1. S \in SUBSET (0..Capacity)
    BY DEF S
  <2> QED BY <1>1, <2>1, GreatestElement
<1>3. n \in 0..Capacity /\ \A k \in 0..(n - 1) : Holds(e + k)
  BY <1>2
<1>4. \A k \in 1..n : Holds(m_expected_seq + k)
  <2> TAKE k \in 1..n
  <2> HIDE DEF n
  <2>1. k - 1 \in 0..(n - 1) /\ e + (k - 1) = m_expected_seq + k
    BY <1>0, <1>3
  <2>2. Holds(e + (k - 1))
    BY <1>3, <2>1
  <2> QED BY <2>1, <2>2
<1>5. ~Holds(m_expected_seq + Capacity)
  <2> DEFINE t == m_expected_seq + Capacity
  <2>1. t \in Nat /\ Index(t) \in Slots
    BY <1>0, IndexInSlots
  <2> QED BY <2>1, <1>0 DEF Holds, OrderInv, WindowKept
<1>6. n # Capacity
  <2>1. SUFFICES ASSUME n = Capacity PROVE FALSE
    OBVIOUS
  <2>2. Capacity \in 1..n
    BY <2>1
  <2> QED BY <1>4, <1>5, <2>2
<1>7. ~Holds(e + n)
  <2> HIDE DEF n
  <2>1. SUFFICES ASSUME Holds(e + n) PROVE FALSE
    OBVIOUS
  <2>2. n + 1 \in 0..Capacity
    BY <1>3, <1>6
  <2>3. \A k \in 0..((n + 1) - 1) : Holds(e + k)
    <3> TAKE k \in 0..((n + 1) - 1)
    <3>1. k = n \/ k \in 0..(n - 1)
      BY <1>3
    <3> QED BY <1>3, <2>1, <3>1
  <2>4. n + 1 \in S
    BY <2>2, <2>3
  <2>5. n >= n + 1
    BY <1>2, <2>4
  <2> QED BY <1>3, <2>5
<1>8. n = DrainCount(m_expected_seq + 1)
  BY DEF DrainCount
<1>9. n \in 0..(Capacity - 1) /\ e + n = m_expected_seq + n + 1
  <2> HIDE DEF n
  <2> QED BY <1>0, <1>3, <1>6
<1> HIDE DEF n, e, S
<1> QED BY <1>4, <1>7, <1>8, <1>9

----------------------------------------------------------------------------
\* The buffer after construction and after reset satisfies both invariants.
EmptyState ==
    /\ m_expected_seq \in Nat
    /\ m_ring = [i \in 0..(Capacity - 1) |-> Empty]
    /\ out_emitted = <<>> /\ accepted = {}

\* Such a buffer does.
LEMMA EmptyBuffer == EmptyState => OrderInv /\ ContentInv
<1> SUFFICES ASSUME EmptyState PROVE OrderInv /\ ContentInv
  OBVIOUS
<1> USE DEF EmptyState
<1>1. Empty \in Slot /\ \A i \in Slots : ~m_ring[i].occupied
  BY DEF Empty, Slot, Slots
<1>2. ReorderType
  BY <1>1 DEF ReorderType, Slots
<1>3. WindowKept /\ EmittedBefore /\ SlotsTruthful
  BY <1>1 DEF WindowKept, EmittedBefore, Before, Increasing, SlotsTruthful
<1>4. NothingTakenIsLost
  BY DEF NothingTakenIsLost, ToSet
<1> QED BY <1>2, <1>3, <1>4 DEF OrderInv, ContentInv

\* What a push that is next in order changes, with n the slots drained.
Drained(s, len, n, own, rest) ==
    /\ s = m_expected_seq
    /\ \A k \in 1..n : Holds(s + k)
    /\ ~Holds(s + n + 1)
    /\ own = IF len > 0 THEN <<Message(s, len)>> ELSE <<>>
    /\ Len(rest) = n
    /\ \A k \in 1..n : rest[k] = Message(s + k, m_ring[Index(s + k)].len)
    /\ out_emitted' = (out_emitted \o own) \o rest
    /\ m_expected_seq' = s + n + 1
    /\ m_ring' \in [Slots -> Slot]
    /\ \A i \in Slots : \/ m_ring'[i] = m_ring[i] /\ ~\E k \in 1..n : i = Index(s + k)
                        \/ ~m_ring'[i].occupied /\ \E k \in 1..n : i = Index(s + k)
    /\ accepted' = IF len > 0 THEN accepted \cup {Message(s, len)} ELSE accepted

\* Every push that is next in order is such a step.
LEMMA InOrderStep ==
    ASSUME OrderInv, NEW s \in Nat, NEW len \in Nat, PushInOrder(s, len)
    PROVE  \E n \in 0..(Capacity - 1), own \in Seq(Messages), rest \in Seq(Messages) :
               Drained(s, len, n, own, rest)
<1> DEFINE n == DrainCount(s + 1)
           own == IF len > 0 THEN <<Message(s, len)>> ELSE <<>>
           rest == [k \in 1..n |-> Message(m_ring[Index(s + k)].seq_num, m_ring[Index(s + k)].len)]
<1>1. s = m_expected_seq
  BY DEF PushInOrder, IsNext
<1>2. n \in 0..(Capacity - 1) /\ (\A k \in 1..n : Holds(s + k)) /\ ~Holds(s + n + 1)
  <2> HIDE DEF n
  <2> QED BY <1>1, DrainStopsAtGap DEF n
<1>3. /\ out_emitted' = (out_emitted \o own) \o rest
      /\ m_expected_seq' = s + n + 1
      /\ m_ring' = [i \in DOMAIN m_ring |->
                        IF \E k \in 1..n : i = Index(s + k)
                          THEN [m_ring[i] EXCEPT !.occupied = FALSE] ELSE m_ring[i]]
      /\ accepted' = IF len > 0 THEN accepted \cup {Message(s, len)} ELSE accepted
  BY DEF PushInOrder
<1> HIDE DEF n
<1>4. own \in Seq(Messages)
  <2>1. Message(s, len) \in Messages
    BY DEF Message, Messages
  <2>2. <<Message(s, len)>> \in Seq(Messages) /\ <<>> \in Seq(Messages)
    BY <2>1
  <2> QED BY <2>2
<1>5. \A k \in 1..n : Index(s + k) \in Slots /\ m_ring[Index(s + k)] \in Slot /\ m_ring[Index(s + k)].seq_num = s + k
  BY <1>2, IndexInSlots, SMTT(30) DEF Holds, OrderInv, ReorderType
<1>6. \A k \in 1..n : rest[k] = Message(s + k, m_ring[Index(s + k)].len) /\ rest[k] \in Messages
  BY <1>5 DEF Message, Messages, Slot
<1>7. rest \in Seq(Messages) /\ Len(rest) = n
  <2>1. rest \in [1..n -> Messages] /\ n \in Nat
    BY <1>2, <1>6
  <2> QED BY <2>1
<1>8. m_ring \in [Slots -> Slot] /\ DOMAIN m_ring = Slots
  BY DEF OrderInv, ReorderType
<1>9. \A i \in Slots : [m_ring[i] EXCEPT !.occupied = FALSE] \in Slot /\ ~[m_ring[i] EXCEPT !.occupied = FALSE].occupied
  BY <1>8 DEF Slot
<1>10. m_ring' \in [Slots -> Slot]
  BY <1>3, <1>8, <1>9
<1>11. \A i \in Slots : \/ m_ring'[i] = m_ring[i] /\ ~\E k \in 1..n : i = Index(s + k)
                        \/ ~m_ring'[i].occupied /\ \E k \in 1..n : i = Index(s + k)
  BY <1>3, <1>8, <1>9
<1> HIDE DEF own, rest
<1> QED BY <1>1, <1>2, <1>3, <1>4, <1>6, <1>7, <1>10, <1>11 DEF own, Drained

----------------------------------------------------------------------------
\* The message in order and the run behind it keep the order: they continue
\* what was emitted, and what still waits lies beyond the gap.
LEMMA InOrderKeepsOrder ==
    ASSUME OrderInv, NEW s \in Nat, NEW len \in Nat, PushInOrder(s, len)
    PROVE  OrderInv'
<1>1. PICK n \in 0..(Capacity - 1), own \in Seq(Messages), rest \in Seq(Messages) : Drained(s, len, n, own, rest)
  BY InOrderStep
<1>2. /\ m_expected_seq \in Nat /\ m_ring \in [Slots -> Slot] /\ out_emitted \in Seq(Messages)
      /\ accepted \in SUBSET Messages
  BY DEF OrderInv, ReorderType
<1>3. s = m_expected_seq /\ m_expected_seq' = s + n + 1 /\ m_ring' \in [Slots -> Slot]
  BY <1>1 DEF Drained
<1>4. ReorderType'
  <2>1. out_emitted' \in Seq(Messages)
    <3>1. out_emitted \o own \in Seq(Messages)
      BY <1>2, ConcatProperties
    <3>2. (out_emitted \o own) \o rest \in Seq(Messages)
      BY <3>1, ConcatProperties
    <3> QED BY <1>1, <3>2 DEF Drained
  <2>2. accepted' \in SUBSET Messages
    BY <1>1, <1>2 DEF Drained, Message, Messages
  <2> QED BY <1>3, <2>1, <2>2 DEF ReorderType
<1>5. WindowKept'
  <2> SUFFICES ASSUME NEW i \in Slots, m_ring'[i].occupied
               PROVE  /\ s + n + 1 < m_ring'[i].seq_num
                      /\ m_ring'[i].seq_num < s + n + 1 + Capacity
                      /\ Index(m_ring'[i].seq_num) = i
    BY <1>3 DEF WindowKept, Index
  <2> DEFINE t == m_ring[i].seq_num
  <2>1. m_ring'[i] = m_ring[i] /\ ~\E k \in 1..n : i = Index(s + k)
    BY <1>1 DEF Drained
  <2>2. t \in Nat /\ s < t /\ t < s + Capacity /\ Index(t) = i /\ m_ring[i].occupied
    BY <1>2, <1>3, <2>1 DEF OrderInv, WindowKept, Slot
  <2>3. t > s + n
    <3>1. SUFFICES ASSUME t <= s + n PROVE FALSE
      BY <2>2
    <3>2. t - s \in 1..n /\ s + (t - s) = t
      BY <2>2, <3>1, SMTT(30)
    <3> HIDE DEF t
    <3> QED BY <2>1, <2>2, <3>2
  <2>4. t # s + n + 1
    BY <1>1, <2>2 DEF Drained, Holds
  <2> QED BY <2>1, <2>2, <2>3, <2>4
<1>6. EmittedBefore'
  <2>1. Before(own, s + 1) /\ Increasing(own) /\ \A i \in 1..Len(own) : s <= own[i].seq
    BY <1>1 DEF Drained, Message, Before, Increasing
  <2>2. Before(rest, s + n + 1) /\ Increasing(rest) /\ \A i \in 1..Len(rest) : s + 1 <= rest[i].seq
    BY <1>1 DEF Drained, Message, Before, Increasing
  <2>3. Before(out_emitted, s) /\ Increasing(out_emitted)
    BY <1>3 DEF OrderInv, EmittedBefore
  <2> DEFINE prefix == out_emitted \o own
  <2>4. prefix \in Seq(Messages) /\ Before(prefix, s + 1) /\ Increasing(prefix)
    BY <1>2, <2>1, <2>3, IncreasingConcat, SMTT(30)
  <2> HIDE DEF prefix
  <2>5. Before(prefix \o rest, s + n + 1) /\ Increasing(prefix \o rest)
    <3>1. s + 1 \in Nat /\ s + n + 1 \in Nat /\ s + 1 <= s + n + 1
      OBVIOUS
    <3> QED BY <2>2, <2>4, <3>1, IncreasingConcat
  <2>6. out_emitted' = prefix \o rest
    BY <1>1 DEF Drained, prefix
  <2> QED BY <1>3, <2>5, <2>6 DEF EmittedBefore, Before, Increasing
<1> QED BY <1>4, <1>5, <1>6 DEF OrderInv

\* A message ahead of order is put where no other of the window can be.
LEMMA AheadKeepsOrder ==
    ASSUME OrderInv, NEW s \in Nat, NEW len \in Nat, PushAhead(s, len)
    PROVE  OrderInv'
<1> DEFINE new == [seq_num |-> s, len |-> BufferedLen(len), occupied |-> TRUE]
<1>1. /\ s > m_expected_seq /\ s < m_expected_seq + Capacity
      /\ m_ring' = [m_ring EXCEPT ![Index(s)] = new]
      /\ accepted' = (IF len > 0 THEN accepted \cup {Message(s, len)} ELSE accepted)
      /\ m_expected_seq' = m_expected_seq /\ out_emitted' = out_emitted
  BY DEF PushAhead, InWindow
<1>2. Index(s) \in Slots /\ new \in Slot
  BY IndexInSlots DEF BufferedLen, Slot
<1>3. m_ring \in [Slots -> Slot] /\ m_expected_seq \in Nat /\ accepted \in SUBSET Messages
  BY DEF OrderInv, ReorderType
<1>4. m_ring' \in [Slots -> Slot] /\ \A i \in Slots : m_ring'[i] = IF i = Index(s) THEN new ELSE m_ring[i]
  <2> HIDE DEF new
  <2> QED BY <1>1, <1>2, <1>3
<1>5. ReorderType'
  <2>1. accepted' \in SUBSET Messages
    BY <1>1, <1>3 DEF Message, Messages
  <2> QED BY <1>1, <1>4, <2>1 DEF OrderInv, ReorderType
<1>6. WindowKept'
  <2> SUFFICES ASSUME NEW i \in Slots, m_ring'[i].occupied
               PROVE  /\ m_expected_seq < m_ring'[i].seq_num
                      /\ m_ring'[i].seq_num < m_expected_seq + Capacity
                      /\ Index(m_ring'[i].seq_num) = i
    BY <1>1 DEF WindowKept, Index
  <2>1. CASE i = Index(s)
    BY <1>1, <1>4, <2>1
  <2>2. CASE i # Index(s)
    BY <1>4, <2>2 DEF OrderInv, WindowKept
  <2> QED BY <2>1, <2>2
<1>7. EmittedBefore'
  BY <1>1 DEF OrderInv, EmittedBefore, Before, Increasing
<1> QED BY <1>5, <1>6, <1>7 DEF OrderInv

\* Reset leaves an empty buffer.
LEMMA ResetEmpties == ASSUME NEW e \in Nat, Reset(e) PROVE (OrderInv /\ ContentInv)'
<1>1. /\ m_expected_seq' \in Nat /\ m_ring' = [i \in 0..(Capacity - 1) |-> Empty]
      /\ out_emitted' = <<>> /\ accepted' = {}
  BY DEF Reset, Cleared
<1>2. (EmptyState => OrderInv /\ ContentInv)'
  BY EmptyBuffer, PTL
<1> QED BY <1>1, <1>2 DEF EmptyState

\* Calls that change counters only, and no call at all.
LEMMA CountersOnly ==
    ASSUME OrderInv, UNCHANGED <<m_expected_seq, m_ring, out_emitted, accepted>>
    PROVE  OrderInv' /\ (ContentInv => ContentInv')
BY DEF OrderInv, ReorderType, WindowKept, EmittedBefore, Before, Increasing,
       ContentInv, SlotsTruthful, NothingTakenIsLost, Holds, Index

\* The order is kept by every call.
LEMMA StepKeepsOrder == OrderInv /\ [Next]_vars => OrderInv'
<1> SUFFICES ASSUME OrderInv, [Next]_vars PROVE OrderInv'
  OBVIOUS
<1>1. CASE UNCHANGED vars
  BY <1>1, CountersOnly DEF vars
<1>2. ASSUME NEW s \in 1..MaxSeq, Push(s) PROVE OrderInv'
  <2>1. \A len \in LengthOf(s) : len \in Nat
    BY DEF LengthOf
  <2>2. ASSUME NEW len \in LengthOf(s), PushInOrder(s, len) PROVE OrderInv'
    BY <2>1, <2>2, InOrderKeepsOrder
  <2>3. ASSUME NEW len \in LengthOf(s), PushAhead(s, len) PROVE OrderInv'
    BY <2>1, <2>3, AheadKeepsOrder
  <2>4. CASE PushBeyond(s)
    BY <2>4, CountersOnly DEF PushBeyond
  <2>5. CASE PushLate(s)
    BY <2>5, CountersOnly DEF PushLate
  <2> QED BY <1>2, <2>2, <2>3, <2>4, <2>5 DEF Push
<1>3. ASSUME NEW e \in {1, MaxSeq}, Reset(e) PROVE OrderInv'
  BY <1>3, ResetEmpties
<1> QED BY <1>1, <1>2, <1>3 DEF Next

\* The order part of the invariant holds in every reachable state.
THEOREM OrderInvariance == Spec => []OrderInv
<1>1. Init => OrderInv
  BY EmptyBuffer DEF Init, EmptyState
<1> QED BY <1>1, StepKeepsOrder, PTL DEF Spec

\* The messages handed to the caller are in strictly increasing order: push
\* emits none twice and none after a later one, for every capacity.
THEOREM EmitsInStrictOrder == Spec => []StrictOrder
<1>1. OrderInv => StrictOrder
  BY DEF OrderInv, ReorderType, EmittedBefore, Increasing, StrictOrder
<1> QED BY <1>1, OrderInvariance, PTL

\* drain_buffered leaves nothing behind that could go out: what waits is
\* strictly ahead of the expected number.
THEOREM DrainLeavesNothingReady == Spec => []NothingReadyWaits
<1>1. OrderInv => NothingReadyWaits
  BY DEF OrderInv, ReorderType, WindowKept, NothingReadyWaits, Slot
<1> QED BY <1>1, OrderInvariance, PTL

----------------------------------------------------------------------------
\* The elements of a concatenation.
LEMMA ToSetConcat ==
    ASSUME NEW S, NEW p \in Seq(S), NEW q \in Seq(S)
    PROVE  ToSet(p \o q) = ToSet(p) \cup ToSet(q)
<1>1. ToSet(p) = Range(p) /\ ToSet(q) = Range(q) /\ ToSet(p \o q) = Range(p \o q)
  BY Zenon DEF ToSet, Range
<1> QED BY <1>1, RangeConcatenation

\* Whatever the push in order takes out of the ring it emits as it was taken,
\* and it touches no other slot.
LEMMA InOrderKeepsContent ==
    ASSUME OrderInv, ContentInv, NEW s \in Nat, NEW len \in Nat, PushInOrder(s, len)
    PROVE  ContentInv'
<1>1. PICK n \in 0..(Capacity - 1), own \in Seq(Messages), rest \in Seq(Messages) : Drained(s, len, n, own, rest)
  BY InOrderStep
<1>2. /\ m_expected_seq \in Nat /\ m_ring \in [Slots -> Slot] /\ out_emitted \in Seq(Messages)
      /\ accepted \in SUBSET Messages
  BY DEF OrderInv, ReorderType
<1>3. ToSet(out_emitted') = ToSet(out_emitted) \cup ToSet(own) \cup ToSet(rest)
  <2>1. out_emitted \o own \in Seq(Messages)
    BY <1>2, ConcatProperties
  <2>2. ToSet((out_emitted \o own) \o rest) = ToSet(out_emitted \o own) \cup ToSet(rest)
    BY <2>1, ToSetConcat, ZenonT(30)
  <2>3. ToSet(out_emitted \o own) = ToSet(out_emitted) \cup ToSet(own)
    BY <1>2, ToSetConcat
  <2> QED BY <1>1, <2>2, <2>3 DEF Drained
<1>4. /\ len > 0 => ToSet(own) = {Message(s, len)}
      /\ ~(len > 0) => ToSet(own) = {}
  BY <1>1 DEF Drained, ToSet
<1>5. ToSet(rest) = {rest[k] : k \in 1..n}
  BY <1>1 DEF Drained, ToSet
<1>6. ASSUME NEW k \in 1..n
      PROVE  /\ rest[k] = Message(s + k, m_ring[Index(s + k)].len) /\ Index(s + k) \in Slots
             /\ m_ring[Index(s + k)].occupied /\ m_ring[Index(s + k)].seq_num = s + k
  BY <1>1, IndexInSlots DEF Drained, Holds
<1>7. accepted \subseteq accepted' /\ accepted' \subseteq accepted \cup ToSet(own) /\ ToSet(own) \subseteq accepted'
  BY <1>1, <1>4 DEF Drained
<1>8. SlotsTruthful'
  <2> SUFFICES ASSUME NEW i \in Slots, m_ring'[i].occupied
               PROVE  Message(m_ring'[i].seq_num, m_ring'[i].len) \in accepted' \/ m_ring'[i].len = 0
    BY DEF SlotsTruthful, Message
  <2>1. m_ring'[i] = m_ring[i]
    BY <1>1 DEF Drained
  <2> QED BY <1>7, <2>1 DEF ContentInv, SlotsTruthful
<1>9. ASSUME NEW m \in accepted'
      PROVE  \/ /\ m_ring'[Index(m.seq)].occupied /\ m_ring'[Index(m.seq)].seq_num = m.seq
                /\ m_ring'[Index(m.seq)].len = m.len
             \/ m \in ToSet(out_emitted')
  <2>1. CASE m \in ToSet(own) \/ m \in ToSet(out_emitted)
    BY <1>3, <2>1
  <2>2. CASE m \in accepted /\ Holds(m.seq) /\ m_ring[Index(m.seq)].len = m.len
    <3>1. m \in Messages /\ m = Message(m.seq, m.len) /\ Index(m.seq) \in Slots
      BY <1>2, <2>2, IndexInSlots DEF Messages, Message
    <3>2. CASE m_ring'[Index(m.seq)] = m_ring[Index(m.seq)]
      BY <2>2, <3>2 DEF Holds
    <3>3. CASE \E k \in 1..n : Index(m.seq) = Index(s + k)
      <4>1. PICK k \in 1..n : Index(m.seq) = Index(s + k)
        BY <3>3
      <4>2. m.seq = s + k
        BY <1>6, <2>2, <4>1 DEF Holds
      <4>3. rest[k] = m
        BY <1>6, <2>2, <3>1, <4>1, <4>2
      <4> QED BY <1>3, <1>5, <4>3
    <3> QED BY <1>1, <3>1, <3>2, <3>3 DEF Drained
  <2> QED BY <1>7, <2>1, <2>2 DEF ContentInv, NothingTakenIsLost
<1>10. ASSUME NEW m \in ToSet(out_emitted') PROVE m \in accepted' \/ m.len = 0
  <2>1. CASE m \in ToSet(out_emitted) \/ m \in ToSet(own)
    BY <1>7, <2>1 DEF ContentInv, NothingTakenIsLost
  <2>2. CASE m \in ToSet(rest)
    <3>1. PICK k \in 1..n : m = rest[k]
      BY <1>5, <2>2
    <3>2. Message(s + k, m_ring[Index(s + k)].len) \in accepted \/ m_ring[Index(s + k)].len = 0
      BY <1>6 DEF ContentInv, SlotsTruthful
    <3>3. m = Message(s + k, m_ring[Index(s + k)].len)
      BY <1>6, <3>1
    <3>4. m.len = m_ring[Index(s + k)].len
      BY <3>3 DEF Message
    <3> QED BY <1>7, <3>2, <3>3, <3>4
  <2> QED BY <1>3, <2>1, <2>2
<1>11. NothingTakenIsLost'
  BY <1>9, <1>10 DEF NothingTakenIsLost, Holds, Index
<1> QED BY <1>8, <1>11 DEF ContentInv

\* A message that waits is kept whole and takes no other message's slot.
LEMMA AheadKeepsContent ==
    ASSUME OrderInv, ContentInv, NEW s \in Nat, NEW len \in LengthOf(s), len \in Nat, len <= MaxPayloadLen,
           PushAhead(s, len)
    PROVE  ContentInv'
<1> DEFINE new == [seq_num |-> s, len |-> len, occupied |-> TRUE]
<1>0. BufferedLen(len) = len
  BY DEF BufferedLen
<1>1. /\ s > m_expected_seq /\ s < m_expected_seq + Capacity
      /\ m_ring' = [m_ring EXCEPT ![Index(s)] = new]
      /\ accepted' = (IF len > 0 THEN accepted \cup {Message(s, len)} ELSE accepted)
      /\ m_expected_seq' = m_expected_seq /\ out_emitted' = out_emitted
  BY <1>0 DEF PushAhead, InWindow
<1>2. m_ring \in [Slots -> Slot] /\ m_expected_seq \in Nat /\ accepted \in SUBSET Messages /\ Index(s) \in Slots
  BY IndexInSlots DEF OrderInv, ReorderType
<1>3. \A i \in Slots : m_ring'[i] = IF i = Index(s) THEN new ELSE m_ring[i]
  <2> HIDE DEF new
  <2> QED BY <1>1, <1>2
<1>4. accepted \subseteq accepted' /\ (len > 0 => Message(s, len) \in accepted')
  BY <1>1
<1>5. SlotsTruthful'
  <2> SUFFICES ASSUME NEW i \in Slots, m_ring'[i].occupied
               PROVE  Message(m_ring'[i].seq_num, m_ring'[i].len) \in accepted' \/ m_ring'[i].len = 0
    BY DEF SlotsTruthful, Message
  <2>1. CASE i = Index(s)
    BY <1>3, <1>4, <2>1
  <2>2. CASE i # Index(s)
    BY <1>3, <1>4, <2>2 DEF ContentInv, SlotsTruthful
  <2> QED BY <2>1, <2>2
<1>6. ASSUME NEW m \in accepted'
      PROVE  \/ /\ m_ring'[Index(m.seq)].occupied /\ m_ring'[Index(m.seq)].seq_num = m.seq
                /\ m_ring'[Index(m.seq)].len = m.len
             \/ m \in ToSet(out_emitted')
  <2>1. CASE m \in ToSet(out_emitted)
    BY <1>1, <2>1
  <2>2. CASE m = Message(s, len)
    BY <1>2, <1>3, <2>2 DEF Message
  <2>3. CASE m \in accepted /\ Holds(m.seq) /\ m_ring[Index(m.seq)].len = m.len
    <3>1. m.seq \in Nat /\ Index(m.seq) \in Slots
      BY <1>2, <2>3, IndexInSlots DEF Messages
    <3>2. CASE Index(m.seq) # Index(s)
      BY <1>3, <2>3, <3>1, <3>2 DEF Holds
    <3>3. CASE Index(m.seq) = Index(s)
      <4>1. m_expected_seq < m.seq /\ m.seq < m_expected_seq + Capacity
        BY <2>3, <3>1 DEF Holds, OrderInv, WindowKept
      <4>2. m.seq = s
        BY <1>1, <1>2, <3>1, <3>3, <4>1, IndexInjective
      <4>3. m.len = len
        BY <2>3, <4>2 DEF LengthOf
      <4> QED BY <1>2, <1>3, <4>2, <4>3
    <3> QED BY <3>2, <3>3
  <2> QED BY <1>1, <2>1, <2>2, <2>3 DEF ContentInv, NothingTakenIsLost
<1>7. ASSUME NEW m \in ToSet(out_emitted') PROVE m \in accepted' \/ m.len = 0
  BY <1>1, <1>4 DEF ContentInv, NothingTakenIsLost
<1>8. NothingTakenIsLost'
  BY <1>6, <1>7 DEF NothingTakenIsLost, Holds, Index
<1> QED BY <1>5, <1>8 DEF ContentInv

\* The contents are kept by every call, if no payload is too long for a slot.
LEMMA StepKeepsContent == PayloadsFit /\ OrderInv /\ ContentInv /\ [Next]_vars => ContentInv'
<1> SUFFICES ASSUME PayloadsFit, OrderInv, ContentInv, [Next]_vars PROVE ContentInv'
  OBVIOUS
<1>1. CASE UNCHANGED vars
  BY <1>1, CountersOnly DEF vars
<1>2. ASSUME NEW s \in 1..MaxSeq, Push(s) PROVE ContentInv'
  <2>1. \A len \in LengthOf(s) : len \in Nat /\ len <= MaxPayloadLen
    BY DEF LengthOf, PayloadsFit
  <2>2. ASSUME NEW len \in LengthOf(s), PushInOrder(s, len) PROVE ContentInv'
    BY <2>1, <2>2, InOrderKeepsContent
  <2>3. ASSUME NEW len \in LengthOf(s), PushAhead(s, len) PROVE ContentInv'
    BY <2>1, <2>3, AheadKeepsContent
  <2>4. CASE PushBeyond(s)
    BY <2>4, CountersOnly DEF PushBeyond
  <2>5. CASE PushLate(s)
    BY <2>5, CountersOnly DEF PushLate
  <2> QED BY <1>2, <2>2, <2>3, <2>4, <2>5 DEF Push
<1>3. ASSUME NEW e \in {1, MaxSeq}, Reset(e) PROVE ContentInv'
  BY <1>3, ResetEmpties
<1> QED BY <1>1, <1>2, <1>3 DEF Next

\* A message that push took is emitted as it came or waits whole in its slot,
\* and nothing else is emitted, for every capacity and every set of messages
\* that fit into a slot.  (A longer one is cut when it has to wait.)
THEOREM BufferLosesNothing == PayloadsFit => (Spec => []NothingTakenIsLost)
<1> SUFFICES ASSUME PayloadsFit PROVE Spec => []NothingTakenIsLost
  OBVIOUS
<1>1. Init => ContentInv
  BY EmptyBuffer DEF Init, EmptyState
<1>2. OrderInv /\ ContentInv /\ [Next]_vars => ContentInv'
  BY StepKeepsContent
<1>3. ContentInv => NothingTakenIsLost
  BY DEF ContentInv
<1> QED BY <1>1, <1>2, <1>3, OrderInvariance, PTL DEF Spec

HIDE ReorderAssumption

----------------------------------------------------------------------------
(* OrderBookRecovery: the levels of a FlatOrderBook.                       *)

Change == [price : Nat, qty : Nat]

\* Membership of the elements, without the set of them.
In(l, book) == \E i \in 1..Len(book) : book[i] = l
Priced(p, book) == \E i \in 1..Len(book) : book[i].price = p

\* What a book holds after it took the change u.
Taken(book, u, after) ==
    /\ u.qty = 0 => \A l : In(l, after) <=> In(l, book) /\ l.price # u.price
    /\ u.qty > 0 /\ (Priced(u.price, book) \/ Len(book) < MaxLevels) =>
          /\ Priced(u.price, after)
          /\ \A l : In(l, after) => l = [price |-> u.price, qty |-> u.qty] \/ (In(l, book) /\ l.price # u.price)
          /\ \A l : In(l, book) /\ l.price # u.price => In(l, after)
    /\ u.qty > 0 /\ ~Priced(u.price, book) /\ Len(book) >= MaxLevels => after = book
    /\ Len(after) <= Len(book) + 1

\* The smallest element of a set of numbers.
LEMMA LeastElement ==
    ASSUME NEW T \in SUBSET Nat, T # {}
    PROVE  Min(T) \in T /\ \A y \in T : Min(T) <= y
<1> DEFINE R == OpToRel(<, Nat)
<1>1. PICK m \in T : \A y \in T : ~(<<y, m>> \in R)
  <2> HIDE DEF R
  <2> QED BY NatLessThanWellFounded, WFMin DEF R
<1>2. \A y \in T : ~(y < m)
  BY <1>1 DEF OpToRel
<1>3. \A y \in T : m <= y
  <2> TAKE y \in T
  <2>1. y \in Nat /\ m \in Nat
    OBVIOUS
  <2> QED BY <1>2, <2>1
<1> QED BY <1>3 DEF Min

\* Element j of an array after the insertion of e at k.
Inserted(p, k, e, j) == IF j < k THEN p[j] ELSE IF j = k THEN e ELSE p[j - 1]

\* What an array holds after an insertion: the elements before the place, the
\* new one, and the others moved by one.
LEMMA InsertAtElements ==
    ASSUME NEW S, NEW p \in Seq(S), NEW e \in S, NEW k \in 1..(Len(p) + 1)
    PROVE  /\ InsertAt(p, k, e) \in Seq(S) /\ Len(InsertAt(p, k, e)) = Len(p) + 1
           /\ \A j \in 1..(Len(p) + 1) : InsertAt(p, k, e)[j] = Inserted(p, k, e, j)
<1> DEFINE a == SubSeq(p, 1, k - 1)
           b == SubSeq(p, k, Len(p))
           c == a \o <<e>>
<1>1. Len(p) \in Nat /\ \A i \in 1..Len(p) : p[i] \in S
  OBVIOUS
<1>2. /\ a \in Seq(S) /\ Len(a) = k - 1
      /\ \A j \in 1..(k - 1) : a[j] = p[j]
  <2>1. \A i \in 1..(k - 1) : p[i] \in S
    BY <1>1
  <2> QED BY <1>1, <2>1, SubSeqProperties
<1>3. /\ b \in Seq(S) /\ Len(b) = Len(p) - k + 1
      /\ \A j \in 1..(Len(p) - k + 1) : b[j] = p[k + j - 1]
  <2>1. \A i \in k..Len(p) : p[i] \in S
    BY <1>1
  <2> QED BY <1>1, <2>1, SubSeqProperties
<1> HIDE DEF a, b
<1>4. /\ c \in Seq(S) /\ Len(c) = k
      /\ \A j \in 1..k : c[j] = IF j < k THEN p[j] ELSE e
  BY <1>1, <1>2
<1> HIDE DEF c
<1>5. /\ c \o b \in Seq(S) /\ Len(c \o b) = Len(p) + 1
      /\ \A j \in 1..(Len(p) + 1) : (c \o b)[j] = IF j <= k THEN c[j] ELSE b[j - k]
  <2>1. /\ c \o b \in Seq(S) /\ Len(c \o b) = Len(c) + Len(b)
        /\ \A j \in 1..(Len(c) + Len(b)) : (c \o b)[j] = IF j <= Len(c) THEN c[j] ELSE b[j - Len(c)]
    BY <1>3, <1>4, ConcatProperties
  <2>2. Len(c) + Len(b) = Len(p) + 1
    BY <1>1, <1>3, <1>4
  <2> QED BY <1>4, <2>1, <2>2
<1>6. InsertAt(p, k, e) = c \o b
  BY DEF InsertAt, a, b, c
<1>7. ASSUME NEW j \in 1..(Len(p) + 1)
      PROVE  (c \o b)[j] = IF j < k THEN p[j] ELSE IF j = k THEN e ELSE p[j - 1]
  <2>1. CASE j <= k
    BY <1>1, <1>4, <1>5, <2>1
  <2>2. CASE j > k
    <3>1. j - k \in 1..(Len(p) - k + 1) /\ k + (j - k) - 1 = j - 1
      BY <1>1, <2>2
    <3>2. b[j - k] = p[j - 1]
      BY <1>3, <3>1
    <3>3. ~(j <= k) /\ ~(j < k) /\ j # k
      BY <1>1, <2>2
    <3>4. (c \o b)[j] = b[j - k]
      BY <1>5, <3>3
    <3> QED BY <3>2, <3>3, <3>4
  <2>3. j <= k \/ j > k
    BY <1>1
  <2> QED BY <2>1, <2>2, <2>3
<1> QED BY <1>5, <1>6, <1>7 DEF Inserted

\* What an array holds after erase: the others, those behind moved by one.
LEMMA RemoveAtElements ==
    ASSUME NEW S, NEW p \in Seq(S), NEW k \in 1..Len(p)
    PROVE  /\ RemoveAt(p, k) \in Seq(S) /\ Len(RemoveAt(p, k)) = Len(p) - 1
           /\ \A j \in 1..(Len(p) - 1) : RemoveAt(p, k)[j] = IF j < k THEN p[j] ELSE p[j + 1]
<1> DEFINE a == SubSeq(p, 1, k - 1)
           b == SubSeq(p, k + 1, Len(p))
<1>1. Len(p) \in Nat /\ \A i \in 1..Len(p) : p[i] \in S
  OBVIOUS
<1>2. /\ a \in Seq(S) /\ Len(a) = k - 1
      /\ \A j \in 1..(k - 1) : a[j] = p[j]
  <2>1. \A i \in 1..(k - 1) : p[i] \in S
    BY <1>1
  <2> QED BY <1>1, <2>1, SubSeqProperties
<1>3. /\ b \in Seq(S) /\ Len(b) = Len(p) - k
      /\ \A j \in 1..(Len(p) - k) : b[j] = p[k + j]
  <2>1. \A i \in (k + 1)..Len(p) : p[i] \in S
    BY <1>1
  <2> QED BY <1>1, <2>1, SubSeqProperties
<1> HIDE DEF a, b
<1>4. /\ a \o b \in Seq(S) /\ Len(a \o b) = Len(a) + Len(b)
      /\ \A j \in 1..(Len(a) + Len(b)) : (a \o b)[j] = IF j <= Len(a) THEN a[j] ELSE b[j - Len(a)]
  BY <1>2, <1>3, ConcatProperties
<1>5. RemoveAt(p, k) = a \o b
  BY DEF RemoveAt, a, b
<1>6. ASSUME NEW j \in 1..(Len(p) - 1) PROVE (a \o b)[j] = IF j < k THEN p[j] ELSE p[j + 1]
  <2>1. CASE j < k
    BY <1>1, <1>2, <1>3, <1>4, <2>1
  <2>2. CASE j >= k
    <3>1. j - (k - 1) \in 1..(Len(p) - k) /\ k + (j - (k - 1)) = j + 1 /\ ~(j <= k - 1) /\ ~(j < k)
      BY <1>1, <2>2
    <3>2. j \in 1..(Len(a) + Len(b))
      BY <1>1, <1>2, <1>3
    <3>3. (a \o b)[j] = b[j - (k - 1)]
      BY <1>2, <1>4, <3>1, <3>2
    <3> QED BY <1>3, <3>1, <3>3
  <2>3. j < k \/ j >= k
    BY <1>1
  <2> QED BY <2>1, <2>2, <2>3
<1>7. Len(a) + Len(b) = Len(p) - 1
  BY <1>1, <1>2, <1>3
<1> QED BY <1>4, <1>5, <1>6, <1>7

\* The place where insert_or_update stops divides the better prices from the
\* others.
LEMMA StopPlace ==
    ASSUME NEW isBid \in BOOLEAN, NEW book \in Seq(Level), NEW p \in Nat
    PROVE  LET i == StopAt(isBid, book, p)
           IN  /\ i \in 1..(Len(book) + 1)
               /\ i <= Len(book) => book[i].price = p \/ PlaceBefore(isBid, p, book[i].price)
               /\ \A j \in 1..(i - 1) : PlaceBefore(isBid, book[j].price, p)
<1> DEFINE T == {i \in 1..(Len(book) + 1) :
                    i <= Len(book) => book[i].price = p \/ PlaceBefore(isBid, p, book[i].price)}
           i == StopAt(isBid, book, p)
<1>1. Len(book) \in Nat /\ \A j \in 1..Len(book) : book[j].price \in Nat
  <2>1. \A j \in 1..Len(book) : book[j] \in Level
    OBVIOUS
  <2> QED BY <2>1 DEF Level
<1>2. i = Min(T)
  BY DEF StopAt
<1>3. Len(book) + 1 \in T
  BY <1>1
<1>4. T \in SUBSET Nat /\ T # {}
  BY <1>1, <1>3
<1>5. i \in T /\ \A y \in T : i <= y
  <2> HIDE DEF T, i
  <2> QED BY <1>2, <1>4, LeastElement
<1> HIDE DEF i
<1>6. ASSUME NEW j \in 1..(i - 1) PROVE PlaceBefore(isBid, book[j].price, p)
  <2>1. i \in 1..(Len(book) + 1)
    BY <1>5
  <2>2. j \in 1..Len(book) /\ ~(i <= j)
    BY <1>1, <2>1
  <2>3. j \notin T
    <3> HIDE DEF T
    <3> QED BY <1>5, <2>2
  <2>4. ~(book[j].price = p \/ PlaceBefore(isBid, p, book[j].price))
    BY <1>1, <2>2, <2>3
  <2> QED BY <1>1, <2>2, <2>4 DEF PlaceBefore
<1> QED BY <1>5, <1>6 DEF i

\* A sorted book names no price twice.
LEMMA PricesDiffer ==
    ASSUME NEW isBid \in BOOLEAN, NEW book \in Seq(Level), Sorted(isBid, book)
    PROVE  \A i, j \in 1..Len(book) : i # j => book[i].price # book[j].price
<1>1. Len(book) \in Nat /\ \A j \in 1..Len(book) : book[j].price \in Nat
  <2>1. \A j \in 1..Len(book) : book[j] \in Level
    OBVIOUS
  <2> QED BY <2>1 DEF Level
<1> QED BY <1>1 DEF Sorted, PlaceBefore

\* The types of a book's levels.
LEMMA LevelFields ==
    ASSUME NEW book \in Seq(Level)
    PROVE  /\ Len(book) \in Nat
           /\ \A j \in 1..Len(book) : book[j] \in Level /\ book[j].price \in Nat
<1>1. \A j \in 1..Len(book) : book[j] \in Level
  OBVIOUS
<1> QED BY <1>1 DEF Level

\* erase keeps the order and takes the level of that price out.
LEMMA EraseEffect ==
    ASSUME NEW isBid \in BOOLEAN, NEW book \in Seq(Level), Sorted(isBid, book), NEW p \in Nat
    PROVE  /\ Erase(book, p) \in Seq(Level) /\ Sorted(isBid, Erase(book, p))
           /\ \A l : In(l, Erase(book, p)) <=> In(l, book) /\ l.price # p
           /\ Len(Erase(book, p)) <= Len(book)
<1> DEFINE found == {i \in 1..Len(book) : book[i].price = p}
           m == Min(found)
           c == Erase(book, p)
<1>1. Len(book) \in Nat /\ \A j \in 1..Len(book) : book[j] \in Level /\ book[j].price \in Nat
  BY LevelFields
<1>2. CASE found = {}
  <2>1. c = book
    BY <1>2 DEF Erase
  <2>2. \A i \in 1..Len(book) : book[i].price # p
    BY <1>2
  <2> HIDE DEF c
  <2>3. \A l : In(l, c) <=> In(l, book) /\ l.price # p
    BY <2>1, <2>2 DEF In
  <2> QED BY <1>1, <2>1, <2>3 DEF c
<1>3. CASE found # {}
  <2>1. c = RemoveAt(book, m)
    BY <1>3 DEF Erase
  <2>2. m \in 1..Len(book) /\ book[m].price = p
    <3>1. found \in SUBSET Nat
      OBVIOUS
    <3>2. m \in found
      <4> HIDE DEF found
      <4> QED BY <1>3, <3>1, LeastElement
    <3> HIDE DEF m
    <3> QED BY <3>2
  <2> HIDE DEF m, c, found
  <2>3. c \in Seq(Level) /\ Len(c) = Len(book) - 1
    BY <2>1, <2>2, RemoveAtElements
  <2>4. \A j \in 1..(Len(book) - 1) : c[j] = IF j < m THEN book[j] ELSE book[j + 1]
    BY <2>1, <2>2, RemoveAtElements
  <2>5. Sorted(isBid, c)
    <3>1. Len(c) <= MaxLevels
      BY <1>1, <2>3, RecoveryAssumption DEF Sorted
    <3>2. ASSUME NEW i \in 1..Len(c), NEW j \in 1..Len(c), i < j
          PROVE  PlaceBefore(isBid, c[i].price, c[j].price)
      <4> DEFINE x == IF i < m THEN i ELSE i + 1
                 y == IF j < m THEN j ELSE j + 1
      <4>1. x \in 1..Len(book) /\ y \in 1..Len(book) /\ x < y
        BY <1>1, <2>2, <2>3, <3>2
      <4>2. c[i] = book[x] /\ c[j] = book[y]
        BY <1>1, <2>3, <2>4
      <4> HIDE DEF x, y
      <4> QED BY <4>1, <4>2 DEF Sorted
    <3> QED BY <3>1, <3>2 DEF Sorted
  <2>6. ASSUME NEW l PROVE In(l, c) <=> In(l, book) /\ l.price # p
    <3>1. ASSUME In(l, c) PROVE In(l, book) /\ l.price # p
      <4>1. PICK i \in 1..Len(c) : c[i] = l
        BY <3>1 DEF In
      <4> DEFINE x == IF i < m THEN i ELSE i + 1
      <4>2. x \in 1..Len(book) /\ x # m
        BY <1>1, <2>2, <2>3
      <4>3. c[i] = book[x]
        BY <1>1, <2>3, <2>4
      <4> HIDE DEF x
      <4>4. book[x].price # p
        BY <2>2, <4>2, PricesDiffer
      <4> QED BY <4>1, <4>2, <4>3, <4>4 DEF In
    <3>2. ASSUME In(l, book), l.price # p PROVE In(l, c)
      <4>1. PICK x \in 1..Len(book) : book[x] = l
        BY <3>2 DEF In
      <4>2. x # m
        BY <2>2, <3>2, <4>1
      <4> DEFINE i == IF x < m THEN x ELSE x - 1
      <4>3. i \in 1..(Len(book) - 1) /\ x = (IF i < m THEN i ELSE i + 1)
        BY <1>1, <2>2, <4>2
      <4>4. c[i] = book[x]
        <5> HIDE DEF i
        <5> QED BY <1>1, <2>2, <2>4, <4>3
      <4> HIDE DEF i
      <4> QED BY <2>3, <4>1, <4>3, <4>4 DEF In
    <3> QED BY <3>1, <3>2
  <2>7. Len(c) <= Len(book)
    BY <1>1, <2>3
  <2> QED BY <2>3, <2>5, <2>6, <2>7 DEF c
<1> QED BY <1>2, <1>3

\* A level's quantity is replaced where the price is.
LEMMA ReplaceEffect ==
    ASSUME NEW isBid \in BOOLEAN, NEW book \in Seq(Level), Sorted(isBid, book),
           NEW i \in 1..Len(book), NEW e \in Level, book[i].price = e.price
    PROVE  /\ ReplaceAt(book, i, e) \in Seq(Level) /\ Sorted(isBid, ReplaceAt(book, i, e))
           /\ Len(ReplaceAt(book, i, e)) = Len(book)
           /\ In(e, ReplaceAt(book, i, e))
           /\ \A l : In(l, ReplaceAt(book, i, e)) => l = e \/ (In(l, book) /\ l.price # e.price)
           /\ \A l : In(l, book) /\ l.price # e.price => In(l, ReplaceAt(book, i, e))
<1> DEFINE c == ReplaceAt(book, i, e)
<1>1. Len(book) \in Nat /\ \A j \in 1..Len(book) : book[j] \in Level /\ book[j].price \in Nat
  BY LevelFields
<1>2. /\ c \in Seq(Level) /\ Len(c) = Len(book)
      /\ \A j \in 1..Len(book) : c[j] = IF j = i THEN e ELSE book[j]
  BY <1>1 DEF ReplaceAt
<1> HIDE DEF c
<1>3. \A j \in 1..Len(book) : c[j].price = book[j].price
  BY <1>2
<1>4. Sorted(isBid, c)
  BY <1>2, <1>3 DEF Sorted
<1>5. In(e, c)
  BY <1>2 DEF In
<1>6. \A l : In(l, c) => l = e \/ (In(l, book) /\ l.price # e.price)
  BY <1>2, PricesDiffer DEF In
<1>7. \A l : In(l, book) /\ l.price # e.price => In(l, c)
  BY <1>2 DEF In
<1> QED BY <1>2, <1>4, <1>5, <1>6, <1>7 DEF c

\* A level is inserted at the place that divides the better prices from the
\* others.
LEMMA InsertEffect ==
    ASSUME NEW isBid \in BOOLEAN, NEW book \in Seq(Level), Sorted(isBid, book), Len(book) < MaxLevels,
           NEW k \in 1..(Len(book) + 1), NEW e \in Level,
           k <= Len(book) => PlaceBefore(isBid, e.price, book[k].price),
           \A j \in 1..(k - 1) : PlaceBefore(isBid, book[j].price, e.price)
    PROVE  /\ InsertAt(book, k, e) \in Seq(Level) /\ Sorted(isBid, InsertAt(book, k, e))
           /\ Len(InsertAt(book, k, e)) = Len(book) + 1
           /\ In(e, InsertAt(book, k, e))
           /\ \A l : In(l, InsertAt(book, k, e)) => l = e \/ (In(l, book) /\ l.price # e.price)
           /\ \A l : In(l, book) /\ l.price # e.price => In(l, InsertAt(book, k, e))
<1> DEFINE c == InsertAt(book, k, e)
<1>1. Len(book) \in Nat /\ \A j \in 1..Len(book) : book[j] \in Level /\ book[j].price \in Nat
  BY LevelFields
<1>2. e.price \in Nat
  BY DEF Level
<1>3. /\ c \in Seq(Level) /\ Len(c) = Len(book) + 1
      /\ \A j \in 1..(Len(book) + 1) : c[j] = IF j < k THEN book[j] ELSE IF j = k THEN e ELSE book[j - 1]
  <2>1. book \in Seq(Level) /\ e \in Level /\ k \in 1..(Len(book) + 1)
    OBVIOUS
  <2>2. c \in Seq(Level) /\ Len(c) = Len(book) + 1
    BY ONLY <2>1, InsertAtElements
  <2>3. \A j \in 1..(Len(book) + 1) : c[j] = Inserted(book, k, e, j)
    BY ONLY <2>1, InsertAtElements
  <2> QED BY <2>2, <2>3 DEF Inserted
<1> HIDE DEF c
<1>4. \A j \in k..Len(book) : PlaceBefore(isBid, e.price, book[j].price)
  <2> TAKE j \in k..Len(book)
  <2>1. j \in 1..Len(book) /\ k \in 1..Len(book)
    BY <1>1
  <2>2. k < j => PlaceBefore(isBid, book[k].price, book[j].price)
    BY <2>1 DEF Sorted
  <2>3. PlaceBefore(isBid, e.price, book[k].price)
    BY <1>1, <2>1
  <2> QED BY <1>1, <1>2, <2>1, <2>2, <2>3 DEF PlaceBefore
<1>5. Sorted(isBid, c)
  <2>1. Len(c) <= MaxLevels
    BY <1>1, <1>3, RecoveryAssumption
  <2>2. ASSUME NEW x \in 1..Len(c), NEW y \in 1..Len(c), x < y
        PROVE  PlaceBefore(isBid, c[x].price, c[y].price)
    <3>1. CASE y < k
      <4>1. x \in 1..Len(book) /\ y \in 1..Len(book) /\ x < k
        BY <1>1, <1>3, <2>2, <3>1
      <4>2. c[x] = book[x] /\ c[y] = book[y]
        BY <1>1, <1>3, <3>1, <4>1
      <4> QED BY <2>2, <4>1, <4>2 DEF Sorted
    <3>2. CASE y = k
      <4>1. x \in 1..(k - 1) /\ x < k
        BY <1>1, <1>3, <2>2, <3>2
      <4>2. c[x] = book[x] /\ c[y] = e
        BY <1>1, <1>3, <3>2, <4>1
      <4> QED BY <4>1, <4>2
    <3>3. CASE y > k /\ x < k
      <4>1. x \in 1..Len(book) /\ y - 1 \in 1..Len(book) /\ x < y - 1
        BY <1>1, <1>3, <2>2, <3>3
      <4>2. c[x] = book[x] /\ c[y] = book[y - 1]
        BY <1>1, <1>3, <3>3
      <4> QED BY <4>1, <4>2 DEF Sorted
    <3>4. CASE y > k /\ x = k
      <4>1. y - 1 \in k..Len(book)
        BY <1>1, <1>3, <3>4
      <4>2. c[x] = e /\ c[y] = book[y - 1]
        BY <1>1, <1>3, <3>4
      <4> QED BY <1>4, <4>1, <4>2
    <3>5. CASE y > k /\ x > k
      <4>1. x - 1 \in 1..Len(book) /\ y - 1 \in 1..Len(book) /\ x - 1 < y - 1
        BY <1>1, <1>3, <2>2, <3>5
      <4>2. c[x] = book[x - 1] /\ c[y] = book[y - 1]
        BY <1>1, <1>3, <3>5
      <4> QED BY <4>1, <4>2 DEF Sorted
    <3> QED BY <1>1, <1>3, <3>1, <3>2, <3>3, <3>4, <3>5
  <2> QED BY <2>1, <2>2 DEF Sorted
<1>6. \A j \in 1..Len(book) : book[j].price # e.price
  <2> TAKE j \in 1..Len(book)
  <2>1. j \in 1..(k - 1) \/ j \in k..Len(book)
    BY <1>1
  <2> QED BY <1>1, <1>2, <1>4, <2>1 DEF PlaceBefore
<1>7. In(e, c)
  <2>1. k \in 1..Len(c) /\ c[k] = e
    BY <1>1, <1>3
  <2> QED BY <2>1 DEF In
<1>8. ASSUME NEW l, In(l, c) PROVE l = e \/ (In(l, book) /\ l.price # e.price)
  <2>1. PICK x \in 1..Len(c) : c[x] = l
    BY <1>8 DEF In
  <2>2. CASE x = k
    BY <1>3, <2>1, <2>2
  <2>3. CASE x < k
    <3>1. x \in 1..Len(book) /\ c[x] = book[x]
      BY <1>1, <1>3, <2>3
    <3> QED BY <1>6, <2>1, <3>1 DEF In
  <2>4. CASE x > k
    <3>1. x - 1 \in 1..Len(book) /\ c[x] = book[x - 1]
      BY <1>1, <1>3, <2>4
    <3> QED BY <1>6, <2>1, <3>1 DEF In
  <2> QED BY <1>1, <1>3, <2>2, <2>3, <2>4
<1>9. ASSUME NEW l, In(l, book) PROVE In(l, c)
  <2>1. PICK x \in 1..Len(book) : book[x] = l
    BY <1>9 DEF In
  <2>2. CASE x < k
    <3>1. x \in 1..Len(c) /\ c[x] = book[x]
      BY <1>1, <1>3, <2>2
    <3> QED BY <2>1, <3>1 DEF In
  <2>3. CASE x >= k
    <3>1. x + 1 \in 1..Len(c) /\ ~(x + 1 < k) /\ x + 1 # k /\ x + 1 - 1 = x
      BY <1>1, <1>3, <2>3
    <3>2. c[x + 1] = book[x]
      BY <1>3, <3>1
    <3> QED BY <2>1, <3>1, <3>2 DEF In
  <2> QED BY <1>1, <2>2, <2>3
<1> QED BY <1>3, <1>5, <1>7, <1>8, <1>9 DEF c

\* apply_incremental keeps a book sorted, and takes the change unless the book
\* is full and the price is not in it.
LEMMA ApplyEffect ==
    ASSUME NEW isBid \in BOOLEAN, NEW book \in Seq(Level), Sorted(isBid, book), NEW u \in Change
    PROVE  /\ Apply(isBid, book, u) \in Seq(Level) /\ Sorted(isBid, Apply(isBid, book, u))
           /\ Taken(book, u, Apply(isBid, book, u))
<1> DEFINE p == u.price
           e == [price |-> u.price, qty |-> u.qty]
           i == StopAt(isBid, book, p)
           c == Apply(isBid, book, u)
<1>1. Len(book) \in Nat /\ \A j \in 1..Len(book) : book[j] \in Level /\ book[j].price \in Nat
  BY LevelFields
<1>2. p \in Nat /\ u.qty \in Nat
  BY DEF Change
<1>3. CASE u.qty = 0
  <2>1. c = Erase(book, p)
    BY <1>3 DEF Apply
  <2>2. ~(u.qty > 0)
    BY <1>3
  <2> HIDE DEF c
  <2>3. c \in Seq(Level) /\ Sorted(isBid, c) /\ Len(c) <= Len(book)
    BY <1>2, <2>1, EraseEffect
  <2>4. \A l : In(l, c) <=> In(l, book) /\ l.price # p
    BY <1>2, <2>1, EraseEffect
  <2>5. Len(c) <= Len(book) + 1
    BY <1>1, <2>3
  <2>6. Taken(book, u, c)
    BY <2>2, <2>4, <2>5 DEF Taken
  <2> QED BY <2>3, <2>6 DEF c
<1>4. CASE u.qty > 0
  <2>0. c = InsertOrUpdate(isBid, book, p, u.qty) /\ u.qty # 0
    BY <1>2, <1>4 DEF Apply
  <2>1. e \in Level /\ e.price = p
    BY <1>2, <2>0 DEF Level
  <2>2. /\ i \in 1..(Len(book) + 1)
        /\ i <= Len(book) => book[i].price = p \/ PlaceBefore(isBid, p, book[i].price)
        /\ \A j \in 1..(i - 1) : PlaceBefore(isBid, book[j].price, p)
    BY <1>2, StopPlace
  <2>3. c = IF i <= Len(book) /\ book[i].price = p THEN ReplaceAt(book, i, e)
            ELSE IF Len(book) < MaxLevels THEN InsertAt(book, i, e)
            ELSE book
    BY <2>0 DEF InsertOrUpdate
  <2>4. ASSUME c \in Seq(Level), Sorted(isBid, c), Len(c) <= Len(book) + 1, In(e, c),
               \A l : In(l, c) => l = e \/ (In(l, book) /\ l.price # p),
               \A l : In(l, book) /\ l.price # p => In(l, c),
               Priced(p, book) \/ Len(book) < MaxLevels
        PROVE  c \in Seq(Level) /\ Sorted(isBid, c) /\ Taken(book, u, c)
    <3> HIDE DEF c
    <3>1. Priced(p, c)
      BY <2>1, <2>4 DEF In, Priced
    <3>2. ~(~Priced(p, book) /\ Len(book) >= MaxLevels)
      BY <1>1, <2>4, RecoveryAssumption
    <3> QED BY <2>0, <2>4, <3>1, <3>2 DEF Taken
  <2> HIDE DEF c, i, e
  <2>5. CASE i <= Len(book) /\ book[i].price = p
    <3>1. i \in 1..Len(book) /\ book[i].price = e.price /\ c = ReplaceAt(book, i, e)
      BY <1>1, <2>1, <2>2, <2>3, <2>5
    <3>2. c \in Seq(Level) /\ Sorted(isBid, c) /\ Len(c) = Len(book) /\ In(e, c)
      BY <2>1, <3>1, ReplaceEffect
    <3>3. \A l : In(l, c) => l = e \/ (In(l, book) /\ l.price # e.price)
      BY <2>1, <3>1, ReplaceEffect
    <3>4. \A l : In(l, book) /\ l.price # e.price => In(l, c)
      BY <2>1, <3>1, ReplaceEffect
    <3>5. Priced(p, book)
      BY <2>5, <3>1 DEF Priced
    <3>6. Len(c) <= Len(book) + 1
      BY <1>1, <3>2
    <3> QED BY <2>1, <2>4, <3>2, <3>3, <3>4, <3>5, <3>6 DEF c
  <2>6. CASE ~(i <= Len(book) /\ book[i].price = p) /\ Len(book) < MaxLevels
    <3>1. c = InsertAt(book, i, e)
      BY <2>3, <2>6
    <3>2. /\ i <= Len(book) => PlaceBefore(isBid, e.price, book[i].price)
          /\ \A j \in 1..(i - 1) : PlaceBefore(isBid, book[j].price, e.price)
      BY <2>1, <2>2, <2>6
    <3>3. c \in Seq(Level) /\ Sorted(isBid, c) /\ Len(c) = Len(book) + 1 /\ In(e, c)
      BY <2>1, <2>2, <2>6, <3>1, <3>2, InsertEffect
    <3>4. \A l : In(l, c) => l = e \/ (In(l, book) /\ l.price # e.price)
      BY <2>1, <2>2, <2>6, <3>1, <3>2, InsertEffect
    <3>5. \A l : In(l, book) /\ l.price # e.price => In(l, c)
      BY <2>1, <2>2, <2>6, <3>1, <3>2, InsertEffect
    <3>6. Len(c) <= Len(book) + 1
      BY <1>1, <3>3
    <3> QED BY <2>1, <2>4, <2>6, <3>3, <3>4, <3>5, <3>6 DEF c
  <2>7. CASE ~(i <= Len(book) /\ book[i].price = p) /\ ~(Len(book) < MaxLevels)
    <3>1. c = book
      BY <2>3, <2>7
    <3>2. ~Priced(p, book)
      <4> SUFFICES ASSUME NEW j \in 1..Len(book), book[j].price = p PROVE FALSE
        BY DEF Priced
      <4>1. ~(j \in 1..(i - 1))
        BY <1>1, <1>2, <2>2 DEF PlaceBefore
      <4>2. i \in 1..Len(book) /\ i <= j
        BY <1>1, <2>2, <4>1
      <4>3. PlaceBefore(isBid, p, book[i].price) /\ i # j
        BY <2>2, <2>7, <4>2
      <4>4. PlaceBefore(isBid, book[i].price, p)
        BY <1>1, <4>2, <4>3 DEF Sorted
      <4> QED BY <1>1, <1>2, <4>2, <4>3, <4>4 DEF PlaceBefore
    <3>3. Len(c) <= Len(book) + 1
      BY <1>1, <3>1
    <3>4. Taken(book, u, c)
      BY <2>0, <2>7, <3>1, <3>2, <3>3 DEF Taken
    <3> QED BY <3>1, <3>4 DEF c
  <2> QED BY <2>5, <2>6, <2>7
<1> QED BY <1>2, <1>3, <1>4

----------------------------------------------------------------------------
(* OrderBookRecovery: clear() and one update after the other.              *)

\* Induction over the numbers from 0 to n, for a set of them.
LEMMA Induction ==
    ASSUME NEW n \in Nat, NEW S, 0 \in S,
           \A k \in 1..n : k - 1 \in S => k \in S
    PROVE  \A k \in 0..n : k \in S
<1> DEFINE T == {k \in 0..n : k \notin S}
<1> SUFFICES ASSUME T # {} PROVE FALSE
  OBVIOUS
<1> DEFINE m == Min(T)
<1>1. m \in T /\ \A k \in T : m <= k
  <2>1. T \in SUBSET Nat
    OBVIOUS
  <2> HIDE DEF T
  <2> QED BY <2>1, LeastElement
<1> HIDE DEF m
<1>2. m \in 0..n /\ m \notin S
  BY <1>1
<1>3. m \in 1..n /\ m - 1 \in 0..n /\ ~(m <= m - 1)
  BY <1>2
<1>4. m - 1 \in S
  BY <1>1, <1>3
<1> QED BY <1>2, <1>3, <1>4

\* One step of the rebuilding.
StepOn(isBid, book, u) == IF u = Skip THEN book ELSE Apply(isBid, book, u)

\* b[k] is the book after the first k updates, up to the n-th.
Steps(b, isBid, us, n) == b[0] = <<>> /\ \A k \in 1..n : b[k] = StepOn(isBid, b[k - 1], us[k])

IsRebuild(b, isBid, us) ==
    b = [k \in 0..Len(us) |->
            IF k = 0 THEN <<>> ELSE IF us[k] = Skip THEN b[k - 1] ELSE Apply(isBid, b[k - 1], us[k])]

\* There is a function that satisfies the recursion.
LEMMA StepsExist ==
    ASSUME NEW isBid, NEW us, NEW n \in Nat
    PROVE  \E b : b = [k \in 0..n |-> b[k]] /\ Steps(b, isBid, us, n)
<1> DEFINE S == {m \in Nat : \E b : b = [k \in 0..m |-> b[k]] /\ Steps(b, isBid, us, m)}
<1>1. 0 \in S
  <2> DEFINE b == [k \in 0..0 |-> <<>>]
  <2>1. b = [k \in 0..0 |-> b[k]] /\ b[0] = <<>>
    OBVIOUS
  <2>2. Steps(b, isBid, us, 0)
    <3> HIDE DEF b
    <3> QED BY <2>1 DEF Steps
  <2> HIDE DEF b
  <2> QED BY <2>1, <2>2
<1>2. ASSUME NEW m \in 1..n, m - 1 \in S PROVE m \in S
  <2>1. PICK g : g = [k \in 0..(m - 1) |-> g[k]] /\ Steps(g, isBid, us, m - 1)
    BY <1>2
  <2> DEFINE h == [k \in 0..m |-> IF k < m THEN g[k] ELSE StepOn(isBid, g[m - 1], us[m])]
  <2>2. /\ h = [k \in 0..m |-> h[k]]
        /\ \A k \in 0..m : h[k] = IF k < m THEN g[k] ELSE StepOn(isBid, g[m - 1], us[m])
    OBVIOUS
  <2> HIDE DEF h
  <2>3. h[0] = <<>>
    BY <2>1, <2>2 DEF Steps
  <2>4. ASSUME NEW k \in 1..m PROVE h[k] = StepOn(isBid, h[k - 1], us[k])
    <3>1. k - 1 \in 0..m /\ k - 1 < m /\ k \in 0..m
      OBVIOUS
    <3>2. h[k - 1] = g[k - 1]
      BY <2>2, <3>1
    <3>3. CASE k < m
      <4>1. k \in 1..(m - 1)
        BY <3>3
      <4> QED BY <2>1, <2>2, <3>1, <3>2, <3>3, <4>1 DEF Steps
    <3>4. CASE k = m
      BY <2>2, <3>1, <3>2, <3>4
    <3> QED BY <3>3, <3>4
  <2>5. Steps(h, isBid, us, m)
    BY <2>3, <2>4 DEF Steps
  <2> QED BY <2>2, <2>5
<1> HIDE DEF S
<1>3. n \in S
  BY <1>1, <1>2, Induction
<1> QED BY <1>3 DEF S

\* The books that rebuilding goes through.
LEMMA RebuildSteps ==
    ASSUME NEW isBid, NEW us, Len(us) \in Nat
    PROVE  \E b : Steps(b, isBid, us, Len(us)) /\ Rebuild(isBid, us) = b[Len(us)]
<1> DEFINE n == Len(us)
           f == CHOOSE b : IsRebuild(b, isBid, us)
<1>1. Rebuild(isBid, us) = f[n]
  BY DEF Rebuild, IsRebuild
<1>2. PICK g : g = [k \in 0..n |-> g[k]] /\ Steps(g, isBid, us, n)
  BY StepsExist
<1>3. IsRebuild(g, isBid, us)
  <2> DEFINE H(k) == IF k = 0 THEN <<>> ELSE IF us[k] = Skip THEN g[k - 1] ELSE Apply(isBid, g[k - 1], us[k])
  <2>1. ASSUME NEW k \in 0..n PROVE g[k] = H(k)
    <3>1. CASE k = 0
      BY <1>2, <3>1 DEF Steps
    <3>2. CASE k # 0
      <4>1. k \in 1..n
        BY <3>2
      <4> QED BY <1>2, <3>2, <4>1 DEF Steps, StepOn
    <3> QED BY <3>1, <3>2
  <2>2. [k \in 0..n |-> g[k]] = [k \in 0..n |-> H(k)]
    <3> HIDE DEF H
    <3> QED BY <2>1
  <2> QED BY <1>2, <2>2 DEF IsRebuild
<1>4. IsRebuild(f, isBid, us)
  BY <1>3
<1> HIDE DEF f
<1>5. \A k \in 0..n :
         f[k] = IF k = 0 THEN <<>> ELSE IF us[k] = Skip THEN f[k - 1] ELSE Apply(isBid, f[k - 1], us[k])
  BY <1>4 DEF IsRebuild
<1>6. Steps(f, isBid, us, n)
  <2>1. f[0] = <<>>
    BY <1>5
  <2>2. ASSUME NEW k \in 1..n PROVE f[k] = StepOn(isBid, f[k - 1], us[k])
    <3>1. k \in 0..n /\ k # 0
      OBVIOUS
    <3> QED BY <1>5, <3>1 DEF StepOn
  <2> QED BY <2>1, <2>2 DEF Steps
<1> QED BY <1>1, <1>6

\* An empty book is sorted.
LEMMA EmptySorted ==
    ASSUME NEW isBid
    PROVE  <<>> \in Seq(Level) /\ Sorted(isBid, <<>>) /\ \A l : ~In(l, <<>>)
<1>1. <<>> \in Seq(Level) /\ Len(<<>>) = 0
  OBVIOUS
<1>2. 0 <= MaxLevels
  BY RecoveryAssumption
<1>3. \A i \in 1..Len(<<>>) : FALSE
  BY <1>1
<1> QED BY <1>1, <1>2, <1>3 DEF Sorted, In

\* Every one of them is sorted.
LEMMA StepsSorted ==
    ASSUME NEW isBid \in BOOLEAN, NEW us, NEW n \in Nat, NEW b, Steps(b, isBid, us, n),
           \A k \in 1..n : us[k] = Skip \/ us[k] \in Change
    PROVE  \A k \in 0..n : b[k] \in Seq(Level) /\ Sorted(isBid, b[k])
<1> DEFINE S == {k \in Nat : b[k] \in Seq(Level) /\ Sorted(isBid, b[k])}
<1>1. 0 \in S
  <2>1. b[0] = <<>>
    BY DEF Steps
  <2> QED BY <2>1, EmptySorted
<1>2. ASSUME NEW k \in 1..n, k - 1 \in S PROVE k \in S
  <2>1. b[k - 1] \in Seq(Level) /\ Sorted(isBid, b[k - 1])
    BY <1>2
  <2>2. b[k] = StepOn(isBid, b[k - 1], us[k])
    BY DEF Steps
  <2>3. CASE us[k] = Skip
    BY <2>1, <2>2, <2>3 DEF StepOn
  <2>4. CASE us[k] # Skip
    <3>1. us[k] \in Change /\ b[k] = Apply(isBid, b[k - 1], us[k])
      BY <2>2, <2>4 DEF StepOn
    <3>2. b[k] \in Seq(Level) /\ Sorted(isBid, b[k])
      BY <2>1, <3>1, ApplyEffect
    <3> QED BY <3>2
  <2> QED BY <2>3, <2>4
<1> HIDE DEF S
<1>3. \A k \in 0..n : k \in S
  BY <1>1, <1>2, Induction
<1> QED BY <1>3 DEF S

\* A level is a change that is not skipped.
LEMMA LevelIsChange ==
    ASSUME NEW l \in Level
    PROVE  l \in Change /\ l # Skip /\ l.qty > 0 /\ l = [price |-> l.price, qty |-> l.qty]
BY DEF Level, Change, Skip

\* Some of the first k levels of a snapshot, and all of them if they fit.
Loaded(book, us, k) ==
    /\ Len(book) <= k
    /\ \A l : In(l, book) => \E j \in 1..k : l = us[j]
    /\ k <= MaxLevels => \A j \in 1..k : In(us[j], book)

\* That is what the book holds after k of them, in whatever order they came.
LEMMA LevelsLoaded ==
    ASSUME NEW isBid \in BOOLEAN, NEW us, NEW n \in Nat, NEW b, Steps(b, isBid, us, n),
           \A k \in 1..n : us[k] \in Level,
           \A i, j \in 1..n : i # j => us[i].price # us[j].price
    PROVE  \A k \in 0..n : Loaded(b[k], us, k)
<1> DEFINE S == {k \in Nat : Loaded(b[k], us, k)}
<1>1. 0 \in S
  <2>1. b[0] = <<>> /\ Len(b[0]) = 0
    BY DEF Steps
  <2>2. \A l : ~In(l, b[0])
    BY <2>1, EmptySorted
  <2> QED BY <2>1, <2>2 DEF Loaded
<1>2. \A k \in 0..n : b[k] \in Seq(Level) /\ Sorted(isBid, b[k])
  BY StepsSorted, LevelIsChange
<1>3. ASSUME NEW k \in 1..n, k - 1 \in S PROVE k \in S
  <2> DEFINE c == b[k - 1]
             d == b[k]
             u == us[k]
  <2>1. Loaded(c, us, k - 1)
    BY <1>3
  <2>2. u \in Level /\ u \in Change /\ u # Skip /\ u.qty > 0 /\ u = [price |-> u.price, qty |-> u.qty]
    BY LevelIsChange
  <2>3. c \in Seq(Level) /\ Sorted(isBid, c) /\ Len(c) \in Nat
    BY <1>2
  <2>4. d = Apply(isBid, c, u)
    BY <2>2 DEF Steps, StepOn
  <2> HIDE DEF c, d
  <2>5. Taken(c, u, d)
    <3> HIDE DEF u
    <3> QED BY <2>2, <2>3, <2>4, ApplyEffect
  <2>6. ~Priced(u.price, c)
    <3> SUFFICES ASSUME NEW i \in 1..Len(c), c[i].price = u.price PROVE FALSE
      BY DEF Priced
    <3>1. In(c[i], c)
      BY DEF In
    <3>2. PICK j \in 1..(k - 1) : c[i] = us[j]
      BY <2>1, <3>1 DEF Loaded
    <3>3. j \in 1..n /\ j # k
      OBVIOUS
    <3> QED BY <3>2, <3>3
  <2>7. Len(c) <= k - 1 /\ Len(d) <= Len(c) + 1
    BY <2>1, <2>5 DEF Loaded, Taken
  <2>8. d = <<>> \/ d \in Seq(Level)
    BY <1>2 DEF d
  <2>9. Len(d) <= k
    BY <2>3, <2>7, <2>8
  <2>10. CASE Len(c) < MaxLevels
    <3>1. /\ Priced(u.price, d)
          /\ \A l : In(l, d) => l = u \/ (In(l, c) /\ l.price # u.price)
          /\ \A l : In(l, c) /\ l.price # u.price => In(l, d)
      BY <2>2, <2>5, <2>10 DEF Taken
    <3>2. ASSUME NEW l, In(l, d) PROVE \E j \in 1..k : l = us[j]
      <4>1. CASE l = u
        BY <4>1
      <4>2. CASE In(l, c)
        <5>1. PICK j \in 1..(k - 1) : l = us[j]
          BY <2>1, <4>2 DEF Loaded
        <5>2. j \in 1..k
          OBVIOUS
        <5> QED BY <5>1, <5>2
      <4> QED BY <3>1, <3>2, <4>1, <4>2
    <3>3. ASSUME k <= MaxLevels, NEW j \in 1..k PROVE In(us[j], d)
      <4>1. CASE j = k
        <5>1. PICK i \in 1..Len(d) : d[i].price = u.price
          BY <3>1 DEF Priced
        <5>2. In(d[i], d)
          BY DEF In
        <5>3. d[i] = u
          BY <3>1, <5>1, <5>2
        <5> QED BY <4>1, <5>2, <5>3
      <4>2. CASE j # k
        <5>1. j \in 1..(k - 1) /\ j \in 1..n /\ k - 1 <= MaxLevels
          BY <3>3, <4>2, RecoveryAssumption
        <5>2. In(us[j], c) /\ us[j].price # u.price
          BY <2>1, <4>2, <5>1 DEF Loaded
        <5> QED BY <3>1, <5>2
      <4> QED BY <4>1, <4>2
    <3>4. Loaded(d, us, k)
      BY <2>9, <3>2, <3>3 DEF Loaded
    <3> QED BY <3>4 DEF d
  <2>11. CASE Len(c) >= MaxLevels
    <3>1. d = c
      BY <2>2, <2>5, <2>6, <2>11 DEF Taken
    <3>2. ~(k <= MaxLevels)
      BY <2>3, <2>7, <2>11, RecoveryAssumption
    <3>3. ASSUME NEW l, In(l, d) PROVE \E j \in 1..k : l = us[j]
      <4>1. PICK j \in 1..(k - 1) : l = us[j]
        BY <2>1, <3>1, <3>3 DEF Loaded
      <4>2. j \in 1..k
        OBVIOUS
      <4> QED BY <4>1, <4>2
    <3>4. Loaded(d, us, k)
      BY <2>9, <3>2, <3>3 DEF Loaded
    <3> QED BY <3>4 DEF d
  <2> QED BY <2>3, <2>10, <2>11, RecoveryAssumption
<1> HIDE DEF S
<1>4. \A k \in 0..n : k \in S
  BY <1>1, <1>3, Induction
<1> QED BY <1>4 DEF S

----------------------------------------------------------------------------
(* OrderBookRecovery: the books between two images of the exchange.        *)

Qty(im, n, p) == im[n + 1][p]

\* The images are those of the updates in f.
Follows(im, f) ==
    /\ im \in Seq([Prices -> Nat]) /\ f \in Seq([price : Prices, qty : Nat]) /\ Len(im) = Len(f) + 1
    /\ \A n \in 1..Len(f) : \A p \in Prices :
          Qty(im, n, p) = IF p = f[n].price THEN f[n].qty ELSE Qty(im, n - 1, p)

\* Every price is as in the exchange's book after a updates or, while the
\* updates from a on are still to be applied to the image after c, as in that
\* image: the update that made the difference is still to come.
InTune(im, book, a, c) ==
    /\ \A l : In(l, book) =>
          l.price \in Prices /\ (l.qty = Qty(im, a, l.price) \/ (a < c /\ l.qty = Qty(im, c, l.price)))
    /\ \A p \in Prices : Priced(p, book) \/ Qty(im, a, p) = 0 \/ (a < c /\ Qty(im, c, p) = 0)

\* The prices such a book may hold.
HeldIn(im, n, c) == {p \in Prices : Qty(im, n, p) > 0 \/ (n < c /\ Qty(im, c, p) > 0)}

\* A set listed without repetition by 1..n has n elements.
LEMMA CountByIndex ==
    ASSUME NEW n \in Nat, NEW S, NEW f, f \in [1..n -> S],
           \A i, j \in 1..n : i # j => f[i] # f[j],
           \A x \in S : \E i \in 1..n : f[i] = x
    PROVE  IsFiniteSet(S) /\ Cardinality(S) = n
<1>1. f \in Bijection(1..n, S)
  BY DEF Bijection, Injection, Surjection, IsInjective
<1>2. ExistsBijection(1..n, S)
  BY <1>1 DEF ExistsBijection
<1> QED BY <1>2, FS_CountingElements, FS_NatBijection

\* A sorted book whose prices are in H, and not all of them, has fewer levels
\* than H elements.
LEMMA BookFits ==
    ASSUME NEW book \in Seq(Level), Sorted(TRUE, book), NEW H, IsFiniteSet(H),
           \A i \in 1..Len(book) : book[i].price \in H, NEW q \in H, ~Priced(q, book)
    PROVE  Len(book) < Cardinality(H)
<1> DEFINE P == {book[i].price : i \in 1..Len(book)}
           f == [i \in 1..Len(book) |-> book[i].price]
<1>1. Len(book) \in Nat /\ f \in [1..Len(book) -> P]
  OBVIOUS
<1>2. \A i \in 1..Len(book) : f[i] = book[i].price
  OBVIOUS
<1>3. \A x \in P : \E i \in 1..Len(book) : f[i] = x
  OBVIOUS
<1>4. P \in SUBSET (H \ {q})
  BY DEF Priced
<1> HIDE DEF P, f
<1>5. \A i, j \in 1..Len(book) : i # j => f[i] # f[j]
  <2>1. TRUE \in BOOLEAN
    OBVIOUS
  <2>2. \A i, j \in 1..Len(book) : i # j => book[i].price # book[j].price
    BY <2>1, PricesDiffer
  <2> QED BY <1>2, <2>2
<1>6. IsFiniteSet(P) /\ Cardinality(P) = Len(book)
  BY <1>1, <1>3, <1>5, CountByIndex
<1>7. IsFiniteSet(H \ {q}) /\ Cardinality(H \ {q}) = Cardinality(H) - 1 /\ Cardinality(H) \in Nat
  BY FS_RemoveElement, FS_CardinalityType
<1>8. Cardinality(P) <= Cardinality(H \ {q})
  BY <1>4, <1>7, FS_Subset
<1> QED BY <1>1, <1>6, <1>7, <1>8

\* The quantities of an image.
LEMMA QtyTypes ==
    ASSUME NEW im, NEW f, Follows(im, f)
    PROVE  Len(f) \in Nat /\ \A n \in 0..Len(f) : \A p \in Prices : Qty(im, n, p) \in Nat
<1>1. Len(f) \in Nat /\ Len(im) = Len(f) + 1 /\ im \in Seq([Prices -> Nat])
  BY DEF Follows
<1>2. \A n \in 0..Len(f) : n + 1 \in 1..Len(im)
  BY <1>1
<1>3. \A n \in 0..Len(f) : im[n + 1] \in [Prices -> Nat]
  BY <1>1, <1>2
<1> QED BY <1>1, <1>3 DEF Qty

\* The next update keeps a book in tune, if it has room.
LEMMA InTuneStep ==
    ASSUME NEW im, NEW f, Follows(im, f), NEW a \in Nat, a + 1 \in 1..Len(f), NEW c \in 0..Len(f),
           NEW book \in Seq(Level), Sorted(TRUE, book), InTune(im, book, a, c),
           Cardinality(HeldIn(im, a + 1, c)) <= MaxLevels
    PROVE  InTune(im, Apply(TRUE, book, f[a + 1]), a + 1, c)
<1> DEFINE u == f[a + 1]
           d == Apply(TRUE, book, u)
           H == HeldIn(im, a + 1, c)
<1>1. u.price \in Prices /\ u.price \in Nat /\ u.qty \in Nat /\ u \in Change
  <2>1. f \in Seq([price : Prices, qty : Nat])
    BY DEF Follows
  <2>2. u \in [price : Prices, qty : Nat]
    BY <2>1, ElementOfSeq
  <2> HIDE DEF u
  <2> QED BY <2>2, RecoveryAssumption DEF Change
<1>2. Len(f) \in Nat /\ \A n \in 0..Len(f) : \A p \in Prices : Qty(im, n, p) \in Nat
  BY QtyTypes
<1>3. \A p \in Prices : Qty(im, a + 1, p) = IF p = u.price THEN u.qty ELSE Qty(im, a, p)
  <2>1. \A p \in Prices : Qty(im, a + 1, p) = IF p = u.price THEN u.qty ELSE Qty(im, (a + 1) - 1, p)
    BY DEF Follows
  <2>2. (a + 1) - 1 = a
    OBVIOUS
  <2> HIDE DEF u
  <2> QED BY <2>1, <2>2
<1>4. a \in 0..Len(f) /\ a + 1 \in 0..Len(f) /\ (a < c => a + 1 < c \/ a + 1 = c)
  BY <1>2
<1>5. Taken(book, u, d)
  BY <1>1, ApplyEffect
<1>6. \A i \in 1..Len(book) : book[i] \in Level /\ book[i].qty \in Nat /\ book[i].qty > 0
  <2>1. \A i \in 1..Len(book) : book[i] \in Level
    BY LevelFields
  <2> QED BY <2>1 DEF Level
<1> HIDE DEF u, d
<1>7. ASSUME NEW l, In(l, book), l.price # u.price
      PROVE  /\ l.price \in Prices
             /\ l.qty = Qty(im, a + 1, l.price) \/ (a + 1 < c /\ l.qty = Qty(im, c, l.price))
  <2>1. l.price \in Prices /\ (l.qty = Qty(im, a, l.price) \/ (a < c /\ l.qty = Qty(im, c, l.price)))
    BY <1>7 DEF InTune
  <2> QED BY <1>3, <1>4, <1>7, <2>1
<1>8. u.qty > 0 => Priced(u.price, book) \/ Len(book) < MaxLevels
  <2> SUFFICES ASSUME u.qty > 0, ~Priced(u.price, book) PROVE Len(book) < MaxLevels
    OBVIOUS
  <2>1. IsFiniteSet(H)
    BY FS_Subset, RecoveryAssumption DEF HeldIn
  <2>2. u.price \in H
    BY <1>1, <1>3 DEF HeldIn
  <2>3. ASSUME NEW i \in 1..Len(book) PROVE book[i].price \in H
    <3>1. In(book[i], book) /\ book[i].price # u.price
      BY DEF In, Priced
    <3>2. /\ book[i].price \in Prices
          /\ book[i].qty = Qty(im, a + 1, book[i].price) \/ (a + 1 < c /\ book[i].qty = Qty(im, c, book[i].price))
      BY <1>7, <3>1
    <3> QED BY <1>6, <3>2 DEF HeldIn
  <2> HIDE DEF H
  <2>4. Len(book) < Cardinality(H)
    BY <2>1, <2>2, <2>3, BookFits
  <2>5. Len(book) \in Nat /\ Cardinality(H) \in Nat /\ Cardinality(H) <= MaxLevels
    BY <2>1, FS_CardinalityType DEF H
  <2> QED BY <2>4, <2>5, RecoveryAssumption
<1>9. ASSUME NEW l, In(l, d)
      PROVE  l.price \in Prices /\ (l.qty = Qty(im, a + 1, l.price) \/ (a + 1 < c /\ l.qty = Qty(im, c, l.price)))
  <2>1. CASE u.qty = 0
    BY <1>5, <1>7, <1>9, <2>1 DEF Taken
  <2>2. CASE u.qty > 0
    <3>1. l = [price |-> u.price, qty |-> u.qty] \/ (In(l, book) /\ l.price # u.price)
      BY <1>5, <1>8, <1>9, <2>2 DEF Taken
    <3>2. CASE l = [price |-> u.price, qty |-> u.qty]
      <4>1. l.price = u.price /\ l.qty = u.qty
        BY <3>2
      <4> QED BY <1>1, <1>3, <4>1
    <3> QED BY <1>7, <3>1, <3>2
  <2> QED BY <1>1, <2>1, <2>2
<1>10. ASSUME NEW p \in Prices
       PROVE  Priced(p, d) \/ Qty(im, a + 1, p) = 0 \/ (a + 1 < c /\ Qty(im, c, p) = 0)
  <2>1. CASE p = u.price
    <3>1. u.qty > 0 => Priced(p, d)
      BY <1>5, <1>8, <2>1 DEF Taken
    <3> QED BY <1>1, <1>3, <2>1, <3>1
  <2>2. CASE p # u.price
    <3>1. Priced(p, book) \/ Qty(im, a, p) = 0 \/ (a < c /\ Qty(im, c, p) = 0)
      BY DEF InTune
    <3>2. CASE Priced(p, book)
      <4>1. PICK i \in 1..Len(book) : book[i].price = p
        BY <3>2 DEF Priced
      <4>2. In(book[i], book) /\ book[i].price # u.price
        BY <2>2, <4>1 DEF In
      <4>3. In(book[i], d)
        <5>1. u.qty = 0 \/ u.qty > 0
          BY <1>1
        <5> QED BY <1>5, <1>8, <4>2, <5>1 DEF Taken
      <4> QED BY <4>1, <4>3 DEF In, Priced
    <3>3. CASE Qty(im, a, p) = 0 \/ (a < c /\ Qty(im, c, p) = 0)
      BY <1>3, <1>4, <2>2, <3>3
    <3> QED BY <3>1, <3>2, <3>3
  <2> QED BY <2>1, <2>2
<1>11. InTune(im, d, a + 1, c)
  BY <1>9, <1>10 DEF InTune
<1> QED BY <1>11 DEF d, u

LevelOf(im, n, p) == [price |-> p, qty |-> Qty(im, n, p)]
LevelsOf(im, n) == {LevelOf(im, n, p) : p \in HeldIn(im, n, n)}

\* The levels of an image, one for each price it holds.
LEMMA LevelsOfFields ==
    ASSUME NEW im, NEW f, Follows(im, f), NEW n \in 0..Len(f)
    PROVE  /\ \A p \in HeldIn(im, n, n) :
                 /\ p \in Prices /\ Qty(im, n, p) \in Nat /\ Qty(im, n, p) > 0
                 /\ LevelOf(im, n, p) \in Level /\ LevelOf(im, n, p).price = p
                 /\ LevelOf(im, n, p).qty = Qty(im, n, p)
           /\ IsFiniteSet(LevelsOf(im, n))
           /\ Cardinality(LevelsOf(im, n)) = Cardinality(HeldIn(im, n, n))
           /\ Cardinality(LevelsOf(im, n)) \in Nat
<1> DEFINE P == HeldIn(im, n, n)
           L == LevelsOf(im, n)
           g == [p \in P |-> LevelOf(im, n, p)]
<1>1. ASSUME NEW p \in P
      PROVE  /\ p \in Prices /\ Qty(im, n, p) \in Nat /\ Qty(im, n, p) > 0
             /\ LevelOf(im, n, p) \in Level /\ LevelOf(im, n, p).price = p
             /\ LevelOf(im, n, p).qty = Qty(im, n, p)
  <2>1. n \in Nat /\ ~(n < n)
    BY QtyTypes
  <2>2. p \in Prices /\ p \in Nat /\ Qty(im, n, p) > 0
    BY <2>1, RecoveryAssumption DEF HeldIn
  <2>3. Qty(im, n, p) \in Nat \ {0}
    BY <2>2, QtyTypes
  <2> QED BY <2>2, <2>3 DEF LevelOf, Level
<1>2. IsFiniteSet(P)
  BY FS_Subset, RecoveryAssumption DEF HeldIn
<1>3. g \in Bijection(P, L)
  <2>1. \A p \in P : g[p] = LevelOf(im, n, p)
    OBVIOUS
  <2>2. g \in [P -> L]
    BY DEF LevelsOf
  <2>3. \A l \in L : \E p \in P : g[p] = l
    BY <2>1 DEF LevelsOf
  <2> HIDE DEF g, P, L
  <2>4. \A p, q \in P : g[p] = g[q] => p = q
    BY <1>1, <2>1
  <2> QED BY <2>2, <2>3, <2>4 DEF Bijection, Injection, Surjection, IsInjective
<1>4. ExistsBijection(P, L)
  <2> HIDE DEF g, P, L
  <2> QED BY <1>3 DEF ExistsBijection
<1> HIDE DEF P, L
<1>5. IsFiniteSet(L) /\ Cardinality(L) = Cardinality(P) /\ Cardinality(L) \in Nat
  BY <1>2, <1>4, FS_Bijection, FS_CardinalityType
<1> QED BY <1>1, <1>5 DEF P, L

\* A snapshot lists them all, each once.
LEMMA SnapshotLists ==
    ASSUME NEW im, NEW f, Follows(im, f), NEW n \in 0..Len(f), NEW bids \in SetToSeqs(LevelsOf(im, n))
    PROVE  /\ bids \in Seq(Level) /\ Len(bids) = Cardinality(HeldIn(im, n, n))
           /\ \A i, j \in 1..Len(bids) : i # j => bids[i].price # bids[j].price
           /\ \A i \in 1..Len(bids) : bids[i] \in LevelsOf(im, n)
           /\ \A l \in LevelsOf(im, n) : \E i \in 1..Len(bids) : bids[i] = l
<1> DEFINE L == LevelsOf(im, n)
           N == Cardinality(L)
<1>1. /\ IsFiniteSet(L) /\ N \in Nat /\ N = Cardinality(HeldIn(im, n, n))
  BY LevelsOfFields
<1>2. bids \in [1..N -> L] /\ \A i, j \in 1..N : i # j => bids[i] # bids[j]
  BY DEF SetToSeqs
<1>3. \A l \in L : \E p \in HeldIn(im, n, n) : l = LevelOf(im, n, p)
  BY DEF LevelsOf
<1> HIDE DEF L
<1>4. \A l \in L : l \in Level /\ \A k \in L : l # k => l.price # k.price
  BY <1>3, LevelsOfFields
<1>5. bids \in Seq(Level) /\ Len(bids) = N
  <2>1. bids \in [1..N -> Level]
    BY <1>2, <1>4
  <2> HIDE DEF N
  <2> QED BY <1>1, <2>1
<1>6. \A l \in L : \E i \in 1..N : bids[i] = l
  <2>1. bids \in Injection(1..N, L)
    BY <1>2 DEF Injection, IsInjective
  <2>2. Cardinality(1..N) = N
    <3> HIDE DEF N
    <3> QED BY <1>1, FS_Interval
  <2>3. bids \in Surjection(1..N, L)
    BY <1>1, <2>1, <2>2, FS_Injection
  <2> QED BY <2>3 DEF Surjection
<1>7. \A i, j \in 1..N : i # j => bids[i].price # bids[j].price
  BY <1>2, <1>4
<1>8. \A i \in 1..N : bids[i] \in L
  BY <1>2
<1> QED BY <1>1, <1>5, <1>6, <1>7, <1>8 DEF L

\* A book that holds an image is in tune with it and with every earlier one.
LEMMA ImageInTune ==
    ASSUME NEW im, NEW f, Follows(im, f), NEW n \in 0..Len(f), NEW a \in 0..n, NEW book,
           \A l : In(l, book) <=> l \in LevelsOf(im, n)
    PROVE  InTune(im, book, a, n)
<1>1. a = n \/ a < n
  BY QtyTypes
<1>2. ASSUME NEW l, In(l, book)
      PROVE  l.price \in Prices /\ (l.qty = Qty(im, a, l.price) \/ (a < n /\ l.qty = Qty(im, n, l.price)))
  <2>1. PICK p \in HeldIn(im, n, n) : l = LevelOf(im, n, p)
    BY <1>2 DEF LevelsOf
  <2>2. p \in Prices /\ l.price = p /\ l.qty = Qty(im, n, p)
    BY <2>1, LevelsOfFields
  <2> QED BY <1>1, <2>2
<1>3. ASSUME NEW p \in Prices
      PROVE  Priced(p, book) \/ Qty(im, a, p) = 0 \/ (a < n /\ Qty(im, n, p) = 0)
  <2>1. CASE p \in HeldIn(im, n, n)
    <3>1. In(LevelOf(im, n, p), book) /\ LevelOf(im, n, p).price = p
      BY <2>1, LevelsOfFields DEF LevelsOf
    <3>2. PICK i \in 1..Len(book) : book[i] = LevelOf(im, n, p)
      BY <3>1 DEF In
    <3> QED BY <3>1, <3>2 DEF Priced
  <2>2. CASE p \notin HeldIn(im, n, n)
    <3>1. ~(Qty(im, n, p) > 0)
      BY <2>2 DEF HeldIn
    <3>2. Qty(im, n, p) = 0
      BY <3>1, QtyTypes
    <3> QED BY <1>1, <3>2
  <2> QED BY <2>1, <2>2
<1> QED BY <1>2, <1>3 DEF InTune

\* A book in tune that has caught up with the snapshot holds the image.
LEMMA CaughtUpImage ==
    ASSUME NEW im, NEW f, Follows(im, f), NEW a \in 0..Len(f), NEW c \in 0..Len(f), c <= a,
           NEW book \in Seq(Level), Sorted(TRUE, book), InTune(im, book, a, c)
    PROVE  ToSet(book) = LevelsOf(im, a)
<1>1. ~(a < c) /\ ~(a < a)
  BY QtyTypes
<1>2. \A i \in 1..Len(book) :
         book[i] \in Level /\ book[i].qty > 0 /\ book[i] = [price |-> book[i].price, qty |-> book[i].qty]
  BY LevelFields, LevelIsChange
<1>3. ASSUME NEW i \in 1..Len(book) PROVE book[i] \in LevelsOf(im, a)
  <2>1. In(book[i], book)
    BY DEF In
  <2>2. book[i].price \in Prices /\ book[i].qty = Qty(im, a, book[i].price)
    BY <1>1, <2>1 DEF InTune
  <2>3. book[i].price \in HeldIn(im, a, a)
    BY <1>2, <2>2 DEF HeldIn
  <2>4. book[i] = LevelOf(im, a, book[i].price)
    BY <1>2, <2>2 DEF LevelOf
  <2> QED BY <2>3, <2>4 DEF LevelsOf
<1>4. ASSUME NEW l \in LevelsOf(im, a) PROVE \E i \in 1..Len(book) : book[i] = l
  <2>1. PICK p \in HeldIn(im, a, a) : l = LevelOf(im, a, p)
    BY DEF LevelsOf
  <2>2. p \in Prices /\ Qty(im, a, p) # 0
    BY LevelsOfFields
  <2>3. PICK i \in 1..Len(book) : book[i].price = p
    BY <1>1, <2>2 DEF InTune, Priced
  <2>4. In(book[i], book)
    BY DEF In
  <2>5. book[i].qty = Qty(im, a, p)
    BY <1>1, <2>3, <2>4 DEF InTune
  <2>6. book[i] = LevelOf(im, a, p)
    BY <1>2, <2>3, <2>5 DEF LevelOf
  <2> QED BY <2>1, <2>6
<1>5. DOMAIN book = 1..Len(book)
  OBVIOUS
<1>6. \A l : l \in ToSet(book) <=> \E i \in 1..Len(book) : book[i] = l
  BY <1>5 DEF ToSet
<1> QED BY <1>3, <1>4, <1>6

\* An update of the feed is a change that is not skipped.
LEMMA UpdateIsChange ==
    ASSUME NEW u \in [price : Prices, qty : Nat]
    PROVE  u \in Change /\ u # Skip
<1>1. u.price \in Nat /\ u.qty \in Nat /\ u \in Change
  BY RecoveryAssumption DEF Change
<1> QED BY <1>1 DEF Skip

\* The books that apply_snapshot goes through while it replays: the snapshot's
\* image, as long as the buffered updates are skipped, and then the images
\* after each of those that are fresh.
ReplayedTo(im, book, a, n) ==
    /\ a <= n => \A l : In(l, book) <=> l \in LevelsOf(im, n)
    /\ a >= n => InTune(im, book, a, n)

\* What apply_snapshot makes of the m buffered updates after the s-th: those
\* the snapshot already contains are skipped.
ReplayOf(rep, f, s, m, n) ==
    /\ rep \in Seq(Change \cup {Skip}) /\ Len(rep) = m
    /\ \A k \in 1..m : rep[k] = IF s + k > n THEN f[s + k] ELSE Skip

\* Room for every image from the snapshot's on.
RoomFrom(im, f, n) == \A t \in n..Len(f) : Cardinality(HeldIn(im, t, n)) <= MaxLevels

\* apply_snapshot rebuilds a sorted book, in tune with the image after the last
\* buffered update if there is room.
LEMMA SnapshotBook ==
    ASSUME NEW im, NEW f, Follows(im, f), NEW n \in 0..Len(f), NEW bids \in SetToSeqs(LevelsOf(im, n)),
           NEW s \in 0..n, NEW m \in Nat, s + m <= Len(f), NEW rep, ReplayOf(rep, f, s, m, n)
    PROVE  /\ Rebuild(TRUE, bids \o rep) \in Seq(Level)
           /\ Sorted(TRUE, Rebuild(TRUE, bids \o rep))
           /\ RoomFrom(im, f, n) => InTune(im, Rebuild(TRUE, bids \o rep), s + m, n)
<1> DEFINE us == bids \o rep
           L == Len(bids)
<1>0. /\ rep \in Seq(Change \cup {Skip}) /\ Len(rep) = m
      /\ \A k \in 1..m : rep[k] = IF s + k > n THEN f[s + k] ELSE Skip
  BY DEF ReplayOf
<1>1. /\ bids \in Seq(Level) /\ L \in Nat /\ L = Cardinality(HeldIn(im, n, n))
      /\ \A i, j \in 1..L : i # j => bids[i].price # bids[j].price
      /\ \A i \in 1..L : bids[i] \in LevelsOf(im, n)
      /\ \A l \in LevelsOf(im, n) : \E i \in 1..L : bids[i] = l
  BY SnapshotLists
<1>2. \A i \in 1..L : bids[i] \in Level /\ bids[i] \in Change
  BY <1>1, LevelFields, LevelIsChange
<1>3. bids \in Seq(Change \cup {Skip})
  <2>1. Level \subseteq Change \cup {Skip}
    BY LevelIsChange
  <2> QED BY <1>1, <1>2, <2>1
<1>4. /\ us \in Seq(Change \cup {Skip}) /\ Len(us) = L + m
      /\ \A i \in 1..(L + m) : us[i] = IF i <= L THEN bids[i] ELSE rep[i - L]
  BY <1>0, <1>3, ConcatProperties
<1> HIDE DEF us
<1>5. Len(us) \in Nat /\ \A i \in 1..Len(us) : us[i] = Skip \/ us[i] \in Change
  <2>1. \A i \in 1..Len(us) : us[i] \in Change \cup {Skip}
    BY <1>4, ElementOfSeq
  <2> QED BY <1>1, <1>4, <2>1
<1>6. PICK b : Steps(b, TRUE, us, Len(us)) /\ Rebuild(TRUE, us) = b[Len(us)]
  BY <1>5, RebuildSteps
<1>7. \A k \in 0..Len(us) : b[k] \in Seq(Level) /\ Sorted(TRUE, b[k])
  BY <1>5, <1>6, StepsSorted
<1>8. L \in 0..Len(us) /\ Len(us) \in 0..Len(us) /\ \A i \in 1..L : us[i] = bids[i] /\ i \in 1..Len(us)
  BY <1>1, <1>4
<1>9. ASSUME RoomFrom(im, f, n)
      PROVE  InTune(im, Rebuild(TRUE, us), s + m, n)
  <2>0. n \in Nat /\ s \in Nat /\ Len(f) \in Nat /\ n \in n..Len(f)
    BY QtyTypes
  <2>1. \A l : In(l, b[L]) <=> l \in LevelsOf(im, n)
    <3>1. Steps(b, TRUE, us, L)
      BY <1>6, <1>8 DEF Steps
    <3>2. \A i \in 1..L : us[i] \in Level
      BY <1>2, <1>8
    <3>3. \A i, j \in 1..L : i # j => us[i].price # us[j].price
      BY <1>1, <1>8
    <3>4. L \in 0..L
      BY <1>1
    <3>5. Loaded(b[L], us, L)
      <4>1. \A k \in 0..L : Loaded(b[k], us, k)
        <5> HIDE DEF L
        <5> QED BY <1>1, <3>1, <3>2, <3>3, LevelsLoaded
      <4> QED BY <3>4, <4>1
    <3>6. L <= MaxLevels
      BY <1>1, <1>9, <2>0 DEF RoomFrom
    <3>7. ASSUME NEW l, In(l, b[L]) PROVE l \in LevelsOf(im, n)
      BY <1>1, <1>8, <3>5, <3>7 DEF Loaded
    <3>8. ASSUME NEW l \in LevelsOf(im, n) PROVE In(l, b[L])
      <4>1. PICK i \in 1..L : bids[i] = l
        BY <1>1
      <4> QED BY <1>8, <3>5, <3>6, <4>1 DEF Loaded
    <3> QED BY <3>7, <3>8
  <2>2. ASSUME NEW book, NEW a \in 0..n, \A l : In(l, book) <=> l \in LevelsOf(im, n)
        PROVE  InTune(im, book, a, n)
    BY <2>2, ImageInTune
  <2> DEFINE S == {k \in Nat : ReplayedTo(im, b[L + k], s + k, n)}
  <2>3. 0 \in S
    <3>1. L + 0 = L /\ s + 0 = s
      BY <1>1
    <3>2. InTune(im, b[L], s, n)
      BY <2>1, <2>2
    <3>3. ReplayedTo(im, b[L], s, n)
      BY <2>1, <3>2 DEF ReplayedTo
    <3> QED BY <3>1, <3>3
  <2>4. ASSUME NEW k \in 1..m, k - 1 \in S PROVE k \in S
    <3>1. ReplayedTo(im, b[L + (k - 1)], s + (k - 1), n)
      BY <2>4
    <3> DEFINE old == b[L + (k - 1)]
    <3>2. /\ L + k \in 1..Len(us) /\ L + (k - 1) \in 0..Len(us) /\ (L + k) - 1 = L + (k - 1)
          /\ ~(L + k <= L) /\ (L + k) - L = k
      BY <1>1, <1>4, SMTT(30)
    <3>3. b[L + k] = StepOn(TRUE, old, rep[k])
      <4>1. b[L + k] = StepOn(TRUE, b[(L + k) - 1], us[L + k])
        BY <1>6, <3>2 DEF Steps
      <4>2. us[L + k] = rep[k]
        BY <1>4, <3>2
      <4> QED BY <3>2, <4>1, <4>2
    <3>4. old \in Seq(Level) /\ Sorted(TRUE, old)
      BY <1>7, <3>2
    <3> HIDE DEF old
    <3>5. CASE s + k <= n
      <4>1. ~(s + k > n) /\ s + (k - 1) <= n /\ s + k \in 0..n
        BY <2>0, <3>5
      <4>2. b[L + k] = old
        BY <1>0, <3>3, <4>1 DEF StepOn
      <4>3. \A l : In(l, b[L + k]) <=> l \in LevelsOf(im, n)
        BY <3>1, <4>1, <4>2 DEF ReplayedTo, old
      <4>4. InTune(im, b[L + k], s + k, n)
        BY <2>2, <4>1, <4>3
      <4>5. ReplayedTo(im, b[L + k], s + k, n)
        BY <4>3, <4>4 DEF ReplayedTo
      <4> QED BY <4>5
    <3>6. CASE s + k > n
      <4> DEFINE a == s + (k - 1)
      <4>1. a \in Nat /\ a + 1 = s + k /\ a + 1 \in 1..Len(f) /\ a >= n /\ a + 1 \in n..Len(f) /\ ~(s + k <= n)
        BY <2>0, <3>6
      <4>2. InTune(im, old, a, n)
        BY <3>1, <4>1 DEF ReplayedTo, old
      <4> HIDE DEF a
      <4>3. f[a + 1] # Skip
        <5>1. f \in Seq([price : Prices, qty : Nat])
          BY DEF Follows
        <5>2. f[a + 1] \in [price : Prices, qty : Nat]
          BY <4>1, <5>1, ElementOfSeq
        <5> QED BY <5>2, UpdateIsChange
      <4>4. b[L + k] = Apply(TRUE, old, f[a + 1])
        BY <1>0, <3>3, <3>6, <4>1, <4>3 DEF StepOn
      <4>5. Cardinality(HeldIn(im, a + 1, n)) <= MaxLevels
        BY <1>9, <4>1 DEF RoomFrom
      <4>6. InTune(im, Apply(TRUE, old, f[a + 1]), a + 1, n)
        BY <3>4, <4>1, <4>2, <4>5, InTuneStep
      <4>7. ReplayedTo(im, b[L + k], s + k, n)
        BY <4>1, <4>4, <4>6 DEF ReplayedTo
      <4> QED BY <4>7
    <3> QED BY <2>0, <3>5, <3>6
  <2> HIDE DEF S
  <2>5. \A k \in 0..m : k \in S
    BY <2>3, <2>4, Induction
  <2>6. ReplayedTo(im, b[L + m], s + m, n)
    BY <2>5 DEF S
  <2>7. InTune(im, b[L + m], s + m, n)
    <3>1. CASE s + m <= n
      <4>1. s + m \in 0..n
        BY <2>0, <3>1
      <4> QED BY <2>2, <2>6, <3>1, <4>1 DEF ReplayedTo
    <3>2. CASE s + m >= n
      BY <2>6, <3>2 DEF ReplayedTo
    <3> QED BY <2>0, <3>1, <3>2
  <2> QED BY <1>4, <1>6, <2>7
<1>10. Rebuild(TRUE, us) \in Seq(Level) /\ Sorted(TRUE, Rebuild(TRUE, us))
  BY <1>6, <1>7, <1>8
<1> QED BY <1>9, <1>10 DEF us

----------------------------------------------------------------------------
(* OrderBookRecovery: the invariant.                                       *)

\* The buffer holds the numbers of the last updates delivered, without a gap.
BufferRuns ==
    /\ m_buffered_incrementals \in Seq(Nat) /\ Len(m_buffered_incrementals) <= next - 1
    /\ \A k \in 1..Len(m_buffered_incrementals) :
          m_buffered_incrementals[k] = next - 1 - Len(m_buffered_incrementals) + k

RoomIn(im, len, c, r) == \A n \in 0..len : n >= c \/ n >= r => Cardinality(HeldIn(im, n, c)) <= MaxLevels

RecoveryInv ==
    /\ Follows(images, feed) /\ Len(feed) <= MaxUpdates
    /\ next \in 1..(Len(feed) + 1)
    /\ m_state \in {"RECOVERING", "SYNCHRONIZED"}
    /\ m_bids \in Seq(Level) /\ m_asks \in Seq(Level) /\ LevelsSorted
    /\ covered \in 0..Len(feed) /\ resumed \in 1..(Len(feed) + 1)
    /\ BufferRuns
    /\ m_state = "SYNCHRONIZED" => m_buffered_incrementals = <<>> /\ resumed <= next
    /\ m_state = "SYNCHRONIZED" /\ RoomIn(images, Len(feed), covered, resumed) =>
           InTune(images, m_bids, next - 1, covered)

\* The exchange's levels and the condition on them, in terms of the images.
LEMMA ImageTerms ==
    /\ \A n : TrueLevels(n) = {LevelOf(images, n, p) : p \in {q \in Prices : Qty(images, n, q) > 0}}
    /\ Room <=> RoomIn(images, Len(feed), covered, resumed)
<1>1. \A n, p : QtyAt(n, p) = Qty(images, n, p)
  BY DEF QtyAt, Qty
<1>2. \A n : Held(n) = HeldIn(images, n, covered)
  BY <1>1 DEF Held, HeldIn
<1>3. \A n : TrueLevels(n) = {LevelOf(images, n, p) : p \in {q \in Prices : Qty(images, n, q) > 0}}
  BY <1>1, Zenon DEF TrueLevels, LevelOf
<1> QED BY <1>2, <1>3 DEF Room, RoomIn

\* The exchange's levels are those of the image.
LEMMA TrueLevelsOf ==
    ASSUME NEW n \in Nat
    PROVE  TrueLevels(n) = LevelsOf(images, n)
<1>1. ~(n < n)
  OBVIOUS
<1>2. HeldIn(images, n, n) = {q \in Prices : Qty(images, n, q) > 0}
  BY <1>1 DEF HeldIn
<1> QED BY <1>2, ImageTerms DEF LevelsOf

\* The images with that of one more update.
Grown(im, f, u) == Append(im, [im[Len(f) + 1] EXCEPT ![u.price] = u.qty])

\* An update more changes nothing about the earlier images.
LEMMA FeedGrows ==
    ASSUME NEW im, NEW f, Follows(im, f), NEW u \in [price : Prices, qty : Nat]
    PROVE  /\ Follows(Grown(im, f, u), Append(f, u)) /\ Len(Append(f, u)) = Len(f) + 1 /\ Len(f) \in Nat
           /\ \A n \in 0..Len(f) : \A p : Qty(Grown(im, f, u), n, p) = Qty(im, n, p)
<1> DEFINE last == [im[Len(f) + 1] EXCEPT ![u.price] = u.qty]
           jm == Append(im, last)
           g == Append(f, u)
<1>1. /\ Len(f) \in Nat /\ Len(im) = Len(f) + 1 /\ im \in Seq([Prices -> Nat])
      /\ f \in Seq([price : Prices, qty : Nat])
  BY DEF Follows
<1>2. im[Len(f) + 1] \in [Prices -> Nat] /\ u.price \in Prices /\ u.qty \in Nat
  <2>1. Len(f) + 1 \in 1..Len(im)
    BY <1>1
  <2> QED BY <1>1, <2>1, ElementOfSeq
<1>3. /\ last \in [Prices -> Nat]
      /\ \A p \in Prices : last[p] = IF p = u.price THEN u.qty ELSE im[Len(f) + 1][p]
  BY <1>2
<1> HIDE DEF last
<1>4. /\ jm \in Seq([Prices -> Nat]) /\ Len(jm) = Len(im) + 1
      /\ \A i \in 1..Len(im) : jm[i] = im[i]
      /\ jm[Len(im) + 1] = last
  <2>1. im \in Seq([Prices -> Nat]) /\ last \in [Prices -> Nat]
    BY <1>1, <1>3
  <2> QED BY <2>1, AppendProperties
<1>5. /\ g \in Seq([price : Prices, qty : Nat]) /\ Len(g) = Len(f) + 1
      /\ \A i \in 1..Len(f) : g[i] = f[i]
      /\ g[Len(f) + 1] = u
  BY <1>1, AppendProperties
<1> HIDE DEF jm, g
<1>6. \A n \in 0..Len(f) : \A p : Qty(jm, n, p) = Qty(im, n, p)
  <2>1. \A n \in 0..Len(f) : n + 1 \in 1..Len(im)
    BY <1>1
  <2> QED BY <1>4, <2>1 DEF Qty
<1>7. ASSUME NEW n \in 1..Len(g), NEW p \in Prices
      PROVE  Qty(jm, n, p) = IF p = g[n].price THEN g[n].qty ELSE Qty(jm, n - 1, p)
  <2>1. CASE n \in 1..Len(f)
    <3>1. n \in 0..Len(f) /\ n - 1 \in 0..Len(f)
      BY <1>1, <2>1
    <3>2. Qty(im, n, p) = IF p = f[n].price THEN f[n].qty ELSE Qty(im, n - 1, p)
      BY <2>1 DEF Follows
    <3> QED BY <1>5, <1>6, <2>1, <3>1, <3>2
  <2>2. CASE n = Len(f) + 1
    <3>1. n - 1 = Len(f) /\ Len(f) \in 0..Len(f) /\ n + 1 = Len(im) + 1
      BY <1>1, <2>2
    <3>2. Qty(jm, n - 1, p) = im[Len(f) + 1][p]
      BY <1>6, <3>1 DEF Qty
    <3>3. Qty(jm, n, p) = last[p]
      BY <1>4, <3>1 DEF Qty
    <3>4. g[n] = u
      BY <1>5, <2>2
    <3> QED BY <1>3, <3>2, <3>3, <3>4
  <2> QED BY <1>1, <1>5, <2>1, <2>2
<1>8. Len(jm) = Len(g) + 1
  BY <1>1, <1>4, <1>5
<1>9. Follows(jm, g)
  BY <1>4, <1>5, <1>7, <1>8 DEF Follows
<1>10. Grown(im, f, u) = jm
  BY DEF Grown, jm, last
<1> QED BY <1>1, <1>5, <1>6, <1>9, <1>10 DEF g

\* RecoveryInv holds at the start.
LEMMA RecoveryStarts == RecoveryInit => RecoveryInv
<1> SUFFICES ASSUME RecoveryInit PROVE RecoveryInv
  OBVIOUS
<1>1. /\ feed = <<>> /\ Len(feed) = 0 /\ images = <<[p \in Prices |-> 0]>> /\ next = 1
      /\ m_state = "RECOVERING" /\ m_bids = <<>> /\ m_asks = <<>>
      /\ m_buffered_incrementals = <<>> /\ covered = 0 /\ resumed = 1
  BY DEF RecoveryInit
<1>2. Follows(images, feed)
  <2> DEFINE z == [p \in Prices |-> 0]
  <2>1. z \in [Prices -> Nat]
    OBVIOUS
  <2> HIDE DEF z
  <2>2. <<z>> \in Seq([Prices -> Nat]) /\ Len(<<z>>) = 1
    BY <2>1
  <2> QED BY <1>1, <2>2 DEF Follows, z
<1>3. BufferRuns
  BY <1>1 DEF BufferRuns
<1>4. LevelsSorted
  <2>1. AskImages[0] = <<>>
    BY RecoveryAssumption
  <2> QED BY <1>1, <2>1, EmptySorted DEF LevelsSorted
<1> QED BY <1>1, <1>2, <1>3, <1>4, RecoveryAssumption DEF RecoveryInv

\* Publishing changes nothing the manager holds.
LEMMA PublishKeeps == RecoveryInv /\ Publish => RecoveryInv'
<1> SUFFICES ASSUME RecoveryInv, Publish PROVE RecoveryInv'
  OBVIOUS
<1>1. Follows(images, feed) /\ Len(feed) <= MaxUpdates /\ Len(feed) \in Nat /\ MaxUpdates \in Nat
  BY QtyTypes, RecoveryAssumption DEF RecoveryInv
<1>2. PICK u \in Updates[Len(feed) + 1] :
          /\ feed' = Append(feed, u)
          /\ images' = Append(images, [images[Len(feed) + 1] EXCEPT ![u.price] = u.qty])
  BY DEF Publish
<1>3. Len(feed) + 1 \in 1..MaxUpdates
  BY <1>1 DEF Publish
<1>4. u \in [price : Prices, qty : Nat]
  BY <1>3, RecoveryAssumption
<1>5. /\ Follows(images', feed') /\ Len(feed') = Len(feed) + 1
      /\ \A n \in 0..Len(feed) : \A p : Qty(images', n, p) = Qty(images, n, p)
  <2>1. images' = Grown(images, feed, u)
    BY <1>2 DEF Grown
  <2>2. feed' = Append(feed, u)
    BY <1>2
  <2>3. Follows(images', feed') /\ Len(feed') = Len(feed) + 1
    BY <1>1, <1>4, <2>1, <2>2, FeedGrows
  <2>4. \A n \in 0..Len(feed) : \A p : Qty(images', n, p) = Qty(images, n, p)
    BY <1>1, <1>4, <2>1, FeedGrows
  <2> QED BY <2>3, <2>4
<1>6. /\ next' = next /\ m_state' = m_state /\ m_bids' = m_bids /\ m_asks' = m_asks
      /\ m_buffered_incrementals' = m_buffered_incrementals /\ covered' = covered /\ resumed' = resumed
  BY DEF Publish, managerVars
<1>7. /\ next \in 1..(Len(feed) + 1) /\ covered \in 0..Len(feed) /\ resumed \in 1..(Len(feed) + 1)
      /\ next - 1 \in 0..Len(feed)
  BY <1>1 DEF RecoveryInv
<1>8. RoomIn(images', Len(feed'), covered', resumed') => RoomIn(images, Len(feed), covered, resumed)
  <2> SUFFICES ASSUME RoomIn(images', Len(feed'), covered', resumed'), NEW n \in 0..Len(feed),
                      n >= covered \/ n >= resumed
               PROVE  Cardinality(HeldIn(images, n, covered)) <= MaxLevels
    BY DEF RoomIn
  <2>1. n \in 0..Len(feed')
    BY <1>1, <1>5
  <2>2. HeldIn(images', n, covered) = HeldIn(images, n, covered)
    BY <1>5, <1>7 DEF HeldIn
  <2> QED BY <1>6, <2>1, <2>2 DEF RoomIn
<1>9. InTune(images, m_bids, next - 1, covered) => InTune(images', m_bids, next - 1, covered)
  BY <1>5, <1>7 DEF InTune
<1>10. BufferRuns'
  BY <1>6 DEF BufferRuns, RecoveryInv
<1>11. LevelsSorted'
  BY <1>6 DEF LevelsSorted, RecoveryInv
<1>12. /\ next' \in 1..(Len(feed') + 1) /\ covered' \in 0..Len(feed') /\ resumed' \in 1..(Len(feed') + 1)
       /\ Len(feed') <= MaxUpdates
  BY <1>1, <1>3, <1>5, <1>6, <1>7
<1>13. m_state = "SYNCHRONIZED" /\ RoomIn(images', Len(feed'), covered', resumed') =>
           InTune(images', m_bids, next - 1, covered)
  BY <1>8, <1>9 DEF RecoveryInv
<1> QED BY <1>5, <1>6, <1>10, <1>11, <1>12, <1>13 DEF RecoveryInv

\* Buffering an update continues the run of the buffer.
LEMMA BufferKeeps == RecoveryInv /\ BufferIncremental => RecoveryInv'
<1> SUFFICES ASSUME RecoveryInv, BufferIncremental PROVE RecoveryInv'
  OBVIOUS
<1> DEFINE buf == m_buffered_incrementals
<1>1. /\ m_state = "RECOVERING" /\ next <= Len(feed) /\ next' = next + 1 /\ buf' = Append(buf, next)
      /\ feed' = feed /\ images' = images /\ m_state' = m_state /\ m_bids' = m_bids /\ m_asks' = m_asks
      /\ covered' = covered /\ resumed' = resumed
  BY DEF BufferIncremental
<1>2. /\ buf \in Seq(Nat) /\ Len(buf) \in Nat /\ next \in Nat /\ Len(buf) <= next - 1
      /\ \A k \in 1..Len(buf) : buf[k] = next - 1 - Len(buf) + k
  BY DEF RecoveryInv, BufferRuns
<1>3. /\ buf' \in Seq(Nat) /\ Len(buf') = Len(buf) + 1
      /\ \A k \in 1..Len(buf) : buf'[k] = buf[k]
      /\ buf'[Len(buf) + 1] = next
  BY <1>1, <1>2, AppendProperties
<1> HIDE DEF buf
<1>4. \A k \in 1..Len(buf') : buf'[k] = next' - 1 - Len(buf') + k
  <2> TAKE k \in 1..Len(buf')
  <2>1. CASE k \in 1..Len(buf)
    BY <1>1, <1>2, <1>3, <2>1
  <2>2. CASE k = Len(buf) + 1
    BY <1>1, <1>2, <1>3, <2>2
  <2> QED BY <1>2, <1>3, <2>1, <2>2
<1>5. Len(buf') <= next' - 1
  BY <1>1, <1>2, <1>3
<1>6. BufferRuns'
  BY <1>3, <1>4, <1>5 DEF BufferRuns, buf
<1>7. LevelsSorted'
  BY <1>1 DEF LevelsSorted, RecoveryInv
<1>8. next' \in 1..(Len(feed') + 1)
  <2>1. Len(feed) \in Nat
    BY QtyTypes DEF RecoveryInv
  <2> QED BY <1>1, <1>2, <2>1
<1> QED BY <1>1, <1>6, <1>7, <1>8 DEF RecoveryInv

\* Losing an update empties the buffer.
LEMMA TriggerKeeps == RecoveryInv /\ TriggerRecovery => RecoveryInv'
<1> SUFFICES ASSUME RecoveryInv, TriggerRecovery PROVE RecoveryInv'
  OBVIOUS
<1>1. /\ next <= Len(feed) /\ next' = next + 1 /\ m_buffered_incrementals' = <<>>
      /\ feed' = feed /\ images' = images /\ m_state' = "RECOVERING" /\ m_bids' = m_bids /\ m_asks' = m_asks
      /\ covered' = covered /\ resumed' = resumed
  BY DEF TriggerRecovery
<1>2. Len(feed) \in Nat /\ next \in 1..(Len(feed) + 1)
  BY QtyTypes DEF RecoveryInv
<1>3. next' \in 1..(Len(feed') + 1) /\ 0 <= next' - 1
  BY <1>1, <1>2
<1>4. BufferRuns'
  <2>1. <<>> \in Seq(Nat) /\ Len(<<>>) = 0
    OBVIOUS
  <2> QED BY <1>1, <1>3, <2>1 DEF BufferRuns
<1>5. LevelsSorted'
  BY <1>1 DEF LevelsSorted, RecoveryInv
<1> QED BY <1>1, <1>3, <1>4, <1>5 DEF RecoveryInv

\* An update applied directly, also one that the snapshot already contained.
LEMMA IncrementalKeeps == RecoveryInv /\ ApplyIncremental => RecoveryInv'
<1> SUFFICES ASSUME RecoveryInv, ApplyIncremental PROVE RecoveryInv'
  OBVIOUS
<1>1. /\ m_state = "SYNCHRONIZED" /\ next <= Len(feed) /\ next' = next + 1
      /\ m_bids' = Apply(TRUE, m_bids, feed[next])
      /\ feed' = feed /\ images' = images /\ m_state' = m_state /\ m_asks' = m_asks
      /\ m_buffered_incrementals' = m_buffered_incrementals /\ covered' = covered /\ resumed' = resumed
  BY DEF ApplyIncremental
<1>2. /\ Follows(images, feed) /\ Len(feed) \in Nat /\ next \in 1..(Len(feed) + 1)
      /\ covered \in 0..Len(feed) /\ resumed \in Nat /\ resumed <= next /\ m_buffered_incrementals = <<>>
      /\ m_bids \in Seq(Level) /\ Sorted(TRUE, m_bids)
  <2>1. LevelsSorted
    BY DEF RecoveryInv
  <2>2. Sorted(TRUE, m_bids)
    BY <2>1 DEF LevelsSorted
  <2>3. Follows(images, feed) /\ Len(feed) \in Nat
    BY QtyTypes DEF RecoveryInv
  <2>4. /\ next \in 1..(Len(feed) + 1) /\ covered \in 0..Len(feed) /\ resumed \in 1..(Len(feed) + 1)
        /\ resumed <= next /\ m_buffered_incrementals = <<>> /\ m_bids \in Seq(Level)
    BY <1>1 DEF RecoveryInv
  <2>5. resumed \in Nat
    BY <2>3, <2>4
  <2> QED BY <2>2, <2>3, <2>4, <2>5
<1>3. /\ next - 1 \in Nat /\ (next - 1) + 1 = next /\ next \in 1..Len(feed) /\ next \in 0..Len(feed)
      /\ next' \in 1..(Len(feed) + 1) /\ next' - 1 = next /\ resumed <= next'
  BY <1>1, <1>2
<1>4. feed[next] \in Change
  <2>1. feed \in Seq([price : Prices, qty : Nat])
    BY <1>2 DEF Follows
  <2>2. feed[next] \in [price : Prices, qty : Nat]
    BY <1>3, <2>1, ElementOfSeq
  <2> QED BY <2>2, UpdateIsChange
<1>5. m_bids' \in Seq(Level) /\ Sorted(TRUE, m_bids')
  BY <1>1, <1>2, <1>4, ApplyEffect
<1>6. RoomIn(images, Len(feed), covered, resumed) => InTune(images, m_bids', next, covered)
  <2> SUFFICES ASSUME RoomIn(images, Len(feed), covered, resumed) PROVE InTune(images, m_bids', next, covered)
    OBVIOUS
  <2>1. InTune(images, m_bids, next - 1, covered)
    BY <1>1 DEF RecoveryInv
  <2>2. Cardinality(HeldIn(images, next, covered)) <= MaxLevels
    <3>1. next >= resumed
      BY <1>2
    <3> QED BY <1>3, <3>1 DEF RoomIn
  <2>3. InTune(images, Apply(TRUE, m_bids, feed[(next - 1) + 1]), (next - 1) + 1, covered)
    BY <1>2, <1>3, <2>1, <2>2, InTuneStep
  <2> QED BY <1>1, <1>3, <2>3
<1>7. BufferRuns'
  <2>1. <<>> \in Seq(Nat) /\ Len(<<>>) = 0
    OBVIOUS
  <2> QED BY <1>1, <1>2, <1>3, <2>1 DEF BufferRuns
<1>8. LevelsSorted'
  BY <1>1, <1>5 DEF LevelsSorted, RecoveryInv
<1> QED BY <1>1, <1>2, <1>3, <1>5, <1>6, <1>7, <1>8 DEF RecoveryInv

\* The asks of a snapshot, sorted.
LEMMA AsksLoaded ==
    ASSUME NEW us, Listing(us)
    PROVE  /\ Rebuild(FALSE, us) \in Seq(Level) /\ Sorted(FALSE, Rebuild(FALSE, us))
           /\ ToSet(Rebuild(FALSE, us)) \subseteq ToSet(us)
           /\ Len(us) <= MaxLevels => ToSet(us) = ToSet(Rebuild(FALSE, us))
<1> DEFINE n == Len(us)
           d == Rebuild(FALSE, us)
<1>1. /\ us \in Seq(Level) /\ n \in Nat /\ DOMAIN us = 1..n
      /\ \A i \in 1..n : us[i] \in Level /\ us[i] \in Change
      /\ \A i, j \in 1..n : i # j => us[i].price # us[j].price
  BY LevelFields, LevelIsChange DEF Listing
<1>2. PICK b : Steps(b, FALSE, us, n) /\ d = b[n]
  BY <1>1, RebuildSteps
<1> HIDE DEF d
<1>3. n \in 0..n
  BY <1>1
<1>4. d \in Seq(Level) /\ Sorted(FALSE, d)
  <2>1. \A k \in 0..n : b[k] \in Seq(Level) /\ Sorted(FALSE, b[k])
    <3> HIDE DEF n
    <3> QED BY <1>1, <1>2, StepsSorted
  <2> QED BY <1>2, <1>3, <2>1
<1>5. Loaded(d, us, n)
  <2>1. \A k \in 0..n : Loaded(b[k], us, k)
    <3> HIDE DEF n
    <3> QED BY <1>1, <1>2, LevelsLoaded
  <2> QED BY <1>2, <1>3, <2>1
<1>6. \A l : In(l, d) <=> l \in ToSet(d)
  <2>1. DOMAIN d = 1..Len(d)
    BY <1>4
  <2> QED BY <2>1 DEF In, ToSet
<1>7. \A l : l \in ToSet(us) <=> \E j \in 1..n : l = us[j]
  BY <1>1 DEF ToSet
<1> QED BY <1>4, <1>5, <1>6, <1>7 DEF Loaded, d

\* A snapshot and the replay of what was buffered.
LEMMA SnapshotKeeps ==
    ASSUME RecoveryInv, NEW n \in 0..Len(feed), n >= next - 1 - Len(m_buffered_incrementals),
           NEW bids \in SetToSeqs(TrueLevels(n)), ApplySnapshot(n, bids)
    PROVE  RecoveryInv'
<1> DEFINE buf == m_buffered_incrementals
           m == Len(buf)
           s == next - 1 - m
           rep == Replayed(n)
<1>1. /\ m_bids' = Rebuild(TRUE, bids \o rep) /\ m_asks' = Rebuild(FALSE, AskImages[n])
      /\ m_buffered_incrementals' = <<>> /\ m_state' = "SYNCHRONIZED" /\ covered' = n /\ resumed' = next
      /\ feed' = feed /\ images' = images /\ next' = next
  BY DEF ApplySnapshot
<1>2. /\ Follows(images, feed) /\ Len(feed) \in Nat /\ next \in 1..(Len(feed) + 1) /\ Len(feed) <= MaxUpdates
      /\ buf \in Seq(Nat) /\ m \in Nat /\ m <= next - 1
      /\ \A k \in 1..m : buf[k] = next - 1 - m + k
  BY QtyTypes DEF RecoveryInv, BufferRuns
<1> HIDE DEF buf, m
<1>3. s \in 0..n /\ s + m = next - 1 /\ s + m <= Len(feed) /\ n \in Nat /\ n \in 0..MaxUpdates
  BY <1>2, RecoveryAssumption DEF m, buf
<1>4. \A k \in 1..m : buf[k] = s + k /\ s + k \in 1..Len(feed)
  BY <1>2, <1>3
<1> HIDE DEF s
<1>5. bids \in SetToSeqs(LevelsOf(images, n))
  BY <1>3, TrueLevelsOf
<1>6. ReplayOf(rep, feed, s, m, n)
  <2> DEFINE R(k) == IF s + k > n THEN feed[s + k] ELSE Skip
  <2>1. \A k \in 1..m : R(k) \in Change \cup {Skip}
    <3> TAKE k \in 1..m
    <3>1. feed \in Seq([price : Prices, qty : Nat])
      BY <1>2 DEF Follows
    <3>2. feed[s + k] \in [price : Prices, qty : Nat]
      BY <1>4, <3>1, ElementOfSeq
    <3> QED BY <3>2, UpdateIsChange
  <2>2. rep = [k \in 1..m |-> IF buf[k] > n THEN feed[buf[k]] ELSE Skip]
    BY DEF Replayed, Fresh, m, buf
  <2>3. rep = [k \in 1..m |-> R(k)]
    BY <1>4, <2>2
  <2> HIDE DEF R, rep
  <2>4. rep \in [1..m -> Change \cup {Skip}] /\ \A k \in 1..m : rep[k] = R(k)
    BY <2>1, <2>3
  <2>5. rep \in Seq(Change \cup {Skip}) /\ Len(rep) = m
    BY <1>2, <2>4
  <2> QED BY <2>4, <2>5 DEF R, ReplayOf
<1> HIDE DEF rep
<1>7. /\ m_bids' \in Seq(Level) /\ Sorted(TRUE, m_bids')
      /\ RoomFrom(images, feed, n) => InTune(images, m_bids', s + m, n)
  <2> DEFINE im == images
             f == feed
             d == Rebuild(TRUE, bids \o rep)
  <2>1. /\ Follows(im, f) /\ n \in 0..Len(f) /\ bids \in SetToSeqs(LevelsOf(im, n))
        /\ s \in 0..n /\ m \in Nat /\ s + m <= Len(f) /\ ReplayOf(rep, f, s, m, n)
    BY <1>2, <1>3, <1>5, <1>6
  <2> HIDE DEF im, f
  <2>2. d \in Seq(Level) /\ Sorted(TRUE, d) /\ (RoomFrom(im, f, n) => InTune(im, d, s + m, n))
    BY ONLY <2>1, SnapshotBook
  <2> QED BY <1>1, <2>2 DEF im, f
<1>8. RoomIn(images, Len(feed), n, next) => RoomFrom(images, feed, n)
  <2> SUFFICES ASSUME RoomIn(images, Len(feed), n, next), NEW t \in n..Len(feed)
               PROVE  Cardinality(HeldIn(images, t, n)) <= MaxLevels
    BY DEF RoomFrom
  <2>1. t \in 0..Len(feed) /\ t >= n
    BY <1>2, <1>3
  <2> QED BY <2>1 DEF RoomIn
<1>9. RoomIn(images, Len(feed), n, next) => InTune(images, m_bids', next - 1, n)
  BY <1>3, <1>7, <1>8
<1>10. /\ m_asks' \in Seq(Level) /\ Sorted(FALSE, m_asks')
       /\ ToSet(m_asks') \subseteq ToSet(AskImages[n])
       /\ Len(AskImages[n]) <= MaxLevels => ToSet(AskImages[n]) = ToSet(m_asks')
  <2>1. Listing(AskImages[n])
    BY <1>3, RecoveryAssumption
  <2> QED BY <1>1, <2>1, AsksLoaded
<1>11. LevelsSorted'
  BY <1>1, <1>7, <1>10 DEF LevelsSorted
<1>12. BufferRuns'
  <2>1. <<>> \in Seq(Nat) /\ Len(<<>>) = 0 /\ 0 <= next - 1
    BY <1>2
  <2> QED BY <1>1, <2>1 DEF BufferRuns
<1>13. next <= next
  BY <1>2
<1> QED BY <1>1, <1>2, <1>7, <1>9, <1>10, <1>11, <1>12, <1>13 DEF RecoveryInv

\* The books are sorted, and in tune with the exchange whenever the manager is
\* synchronized and there is room.
THEOREM RecoveryInvariance == RecoverySpec => []RecoveryInv
<1>1. RecoveryInit => RecoveryInv
  BY RecoveryStarts
<1>2. RecoveryInv /\ [RecoveryNext]_recoveryVars => RecoveryInv'
  <2> SUFFICES ASSUME RecoveryInv, [RecoveryNext]_recoveryVars PROVE RecoveryInv'
    OBVIOUS
  <2>1. CASE Publish
    BY <2>1, PublishKeeps
  <2>2. CASE BufferIncremental
    BY <2>2, BufferKeeps
  <2>3. CASE ApplyIncremental
    BY <2>3, IncrementalKeeps
  <2>4. CASE CoveringSnapshot
    BY <2>4, SnapshotKeeps DEF CoveringSnapshot
  <2>5. CASE TriggerRecovery
    BY <2>5, TriggerKeeps
  <2>6. CASE UNCHANGED recoveryVars
    BY <2>6 DEF recoveryVars, managerVars, RecoveryInv, BufferRuns, LevelsSorted
  <2> QED BY <2>1, <2>2, <2>3, <2>4, <2>5, <2>6 DEF RecoveryNext
<1> QED BY <1>1, <1>2, PTL DEF RecoverySpec

\* Both sides of the book stay strictly sorted and within MaxLevels, and the
\* asks are those of the last snapshot, for every MaxLevels, every feed and
\* every order in which snapshots, updates and losses come.
THEOREM RecoveredLevelsSorted == RecoverySpec => []LevelsSorted
<1>1. RecoveryInv => LevelsSorted
  BY DEF RecoveryInv
<1> QED BY <1>1, RecoveryInvariance, PTL

\* Once the incrementals have caught up with the snapshot, a synchronized book
\* holds the exchange's levels, if there was room: for every feed, however far
\* the snapshot was ahead of the updates or behind them.
THEOREM RecoveredBookIsTrue == RecoverySpec => []CaughtUpBookIsTrue
<1>1. RecoveryInv => CaughtUpBookIsTrue
  <2> SUFFICES ASSUME RecoveryInv, m_state = "SYNCHRONIZED", next > covered, Room
               PROVE  ToSet(m_bids) = TrueLevels(next - 1)
    BY DEF CaughtUpBookIsTrue
  <2>1. /\ Follows(images, feed) /\ next - 1 \in 0..Len(feed) /\ next - 1 \in Nat
        /\ covered \in 0..Len(feed) /\ covered <= next - 1
        /\ m_bids \in Seq(Level) /\ Sorted(TRUE, m_bids)
    <3>1. LevelsSorted
      BY DEF RecoveryInv
    <3>2. Sorted(TRUE, m_bids)
      BY <3>1 DEF LevelsSorted
    <3>3. Follows(images, feed) /\ Len(feed) \in Nat
      BY QtyTypes DEF RecoveryInv
    <3>4. next \in 1..(Len(feed) + 1) /\ covered \in 0..Len(feed) /\ m_bids \in Seq(Level)
      BY DEF RecoveryInv
    <3>5. next - 1 \in 0..Len(feed) /\ next - 1 \in Nat /\ covered <= next - 1
      BY <3>3, <3>4
    <3> QED BY <3>2, <3>3, <3>4, <3>5
  <2>2. InTune(images, m_bids, next - 1, covered)
    BY ImageTerms DEF RecoveryInv
  <2>3. ToSet(m_bids) = LevelsOf(images, next - 1)
    BY <2>1, <2>2, CaughtUpImage
  <2> QED BY <2>1, <2>3, TrueLevelsOf
<1> QED BY <1>1, RecoveryInvariance, PTL
=============================================================================
