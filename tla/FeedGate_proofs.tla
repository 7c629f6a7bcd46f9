--------------------------- MODULE FeedGate_proofs ---------------------------
(***************************************************************************)
(* Proofs about FeedGate for every window, number range and arrival order, *)
(* as long as no copy comes a whole window behind the newest message.      *)
(***************************************************************************)
EXTENDS FeedGate, FiniteSetTheorems, TLAPS

\* How late a copy may be for the window of FeedArbitrator to remember its
\* number: the one condition on the feed that the results below need.
LagWithinWindow == MaxLag <= WindowSize

GateType ==
    /\ m_seen_sequences \in [Window -> Nat]
    /\ m_winner_lines \in [Window -> Lines]
    /\ m_unique_processed \in Nat /\ m_duplicates_suppressed \in Nat
    /\ m_line_wins \in [Lines -> Nat]
    /\ m_gaps_detected \in Nat /\ m_packets_lost \in Nat /\ m_duplicates_count \in Nat
    /\ passed \in [0..MaxSeq -> Nat]
    /\ newest \in 0..MaxSeq
    /\ first \in [Seqs -> Lines \cup {NoLine}]

\* The gap detector expects the number after the newest.
ExpectsNext == m_expected_seq = newest + 1

\* Only numbers up to the newest have arrived.
ArrivedUpToNewest == \A s \in Seqs : first[s] # NoLine => s <= newest

\* The window remembers every number that has arrived and is less than a
\* window behind the newest: its slot was not taken over by another number.
WindowRemembers ==
    \A s \in Seqs : first[s] # NoLine /\ s > newest - WindowSize => m_seen_sequences[s % WindowSize] = s

\* It remembers nothing else, and with each number the line of its first copy.
WindowTruthful ==
    \A s \in Seqs : m_seen_sequences[s % WindowSize] = s =>
        first[s] # NoLine /\ m_winner_lines[s % WindowSize] = first[s]

\* The numbers below the expected one that have not reached the engine, and
\* those whose race line l has won.
Missing == {s \in Seqs : s < m_expected_seq /\ passed[s] = 0}
WonBy(l) == {s \in Seqs : first[s] = l}

LossCounted == m_packets_lost - m_duplicates_count = Cardinality(Missing)

WinsCounted ==
    /\ \A l \in Lines : m_line_wins[l] = Cardinality(WonBy(l))
    /\ m_unique_processed = m_line_wins["LINE_A"] + m_line_wins["LINE_B"]

\* The inductive invariant.
GateInv ==
    /\ GateType
    /\ ExpectsNext
    /\ ArrivedUpToNewest
    /\ WindowRemembers
    /\ WindowTruthful
    /\ PassedOnce
    /\ LossCounted
    /\ WinsCounted

----------------------------------------------------------------------------
USE GateAssumption

\* Every number has its slot.
LEMMA SlotInWindow ==
    ASSUME NEW s \in Nat
    PROVE  s % WindowSize \in Window
BY DEF Window

\* Two numbers that share a slot are at least a window apart.
LEMMA SlotShared ==
    ASSUME NEW s \in Nat, NEW t \in Nat, s % WindowSize = t % WindowSize,
           s - t < WindowSize, t - s < WindowSize
    PROVE  s = t
<1>1. ASSUME NEW a \in Int, NEW b \in Int, WindowSize * a - WindowSize * b < WindowSize,
             WindowSize * b - WindowSize * a < WindowSize
      PROVE  a = b
  BY <1>1
<1> DEFINE q == s \div WindowSize
           p == t \div WindowSize
<1>2. /\ q \in Int /\ p \in Int /\ s % WindowSize \in Int
      /\ s = WindowSize * q + (s % WindowSize)
      /\ t = WindowSize * p + (t % WindowSize)
  OBVIOUS
<1>3. WindowSize * q \in Int /\ WindowSize * p \in Int
  BY <1>2
<1>4. WindowSize * q - WindowSize * p < WindowSize /\ WindowSize * p - WindowSize * q < WindowSize
  <2> HIDE DEF q, p
  <2> QED BY <1>2, <1>3
<1>5. q = p
  <2> HIDE DEF q, p
  <2> QED BY <1>1, <1>2, <1>4
<1> QED BY <1>2, <1>5

\* Sets of sequence numbers are finite.
LEMMA SeqsFinite == IsFiniteSet(Seqs) /\ \A S \in SUBSET Seqs : IsFiniteSet(S) /\ Cardinality(S) \in Nat
<1>1. IsFiniteSet(Seqs)
  BY FS_Interval DEF Seqs
<1> QED BY <1>1, FS_Subset, FS_CardinalityType

----------------------------------------------------------------------------
\* A gate that has seen nothing satisfies the invariant.
LEMMA EmptyGate == Init => GateInv
<1> SUFFICES ASSUME Init PROVE GateInv
  OBVIOUS
<1> USE DEF Init
<1>1. GateType
  BY DEF GateType, Lines
<1>2. ExpectsNext /\ ArrivedUpToNewest /\ WindowRemembers /\ PassedOnce
  BY DEF ExpectsNext, ArrivedUpToNewest, WindowRemembers, PassedOnce, Seqs
<1>3. \A s \in Seqs : m_seen_sequences[s % WindowSize] # s
  BY SlotInWindow DEF Seqs
<1>4. LossCounted
  <2>1. Missing = {}
    BY DEF Seqs, Missing
  <2> QED BY <2>1, FS_EmptySet DEF LossCounted
<1>5. WinsCounted
  <2>1. \A l \in Lines : WonBy(l) = {}
    BY DEF Seqs, WonBy
  <2>2. \A l \in Lines : m_line_wins[l] = 0 /\ Cardinality(WonBy(l)) = 0
    BY <2>1, FS_EmptySet
  <2>3. m_line_wins["LINE_A"] = 0 /\ m_line_wins["LINE_B"] = 0
    BY <2>2 DEF Lines
  <2> QED BY <2>2, <2>3 DEF WinsCounted
<1> QED BY <1>1, <1>2, <1>3, <1>4, <1>5 DEF GateInv, WindowTruthful

\* The arbitrator's verdict is exact: it calls a copy a duplicate if and only
\* if the number has arrived before.
LEMMA VerdictExact ==
    ASSUME LagWithinWindow, GateInv, NEW s \in Seqs, s > newest - MaxLag
    PROVE  IsDuplicate(s) <=> first[s] # NoLine
<1>1. s > newest - WindowSize
  BY DEF LagWithinWindow, GateInv, GateType, Seqs
<1> QED BY <1>1 DEF GateInv, WindowRemembers, WindowTruthful, IsDuplicate

\* A copy the arbitrator knows changes nothing but a counter.
LEMMA DuplicatePreserves ==
    ASSUME LagWithinWindow, GateInv, NEW l \in Lines, NEW s \in Seqs, Arrive(l, s), IsDuplicate(s)
    PROVE  GateInv'
<1> USE DEF GateInv
<1>1. first[s] # NoLine
  BY VerdictExact DEF Arrive
<1>2. UNCHANGED <<newest, first>>
  <2>1. s <= newest
    BY <1>1 DEF ArrivedUpToNewest
  <2> QED BY <1>1, <2>1 DEF Arrive, Sequenced, GateType, Seqs
<1>3. /\ m_duplicates_suppressed' \in Nat
      /\ UNCHANGED <<m_seen_sequences, m_winner_lines, m_unique_processed, m_line_wins, detectorVars, passed>>
  BY DEF Arrive, Sequenced, GateType
<1>4. GateType'
  BY <1>2, <1>3 DEF GateType, detectorVars
<1>5. ExpectsNext' /\ ArrivedUpToNewest' /\ WindowRemembers' /\ WindowTruthful' /\ PassedOnce'
  BY <1>2, <1>3 DEF ExpectsNext, ArrivedUpToNewest, WindowRemembers, WindowTruthful, PassedOnce, detectorVars
<1>6. LossCounted' /\ WinsCounted'
  BY <1>2, <1>3 DEF LossCounted, WinsCounted, Missing, WonBy, detectorVars
<1> QED BY <1>4, <1>5, <1>6

\* A first copy: what it does to the arbitrator's window and to the histories.
LEMMA FirstCopyStep ==
    ASSUME LagWithinWindow, GateInv, NEW l \in Lines, NEW s \in Seqs, Arrive(l, s), ~IsDuplicate(s)
    PROVE  /\ first[s] = NoLine /\ passed[s] = 0
           /\ first' = [first EXCEPT ![s] = l]
           /\ passed' = [passed EXCEPT ![s] = @ + 1]
           /\ ProcessPacket(l, s) /\ ProcessSequence(s)
           /\ s > newest - WindowSize
           /\ newest' = IF s > newest THEN s ELSE newest
<1>1. first[s] = NoLine
  BY VerdictExact DEF Arrive
<1>2. passed[s] = 0
  BY <1>1 DEF GateInv, PassedOnce
<1>3. first' = [first EXCEPT ![s] = l]
  BY <1>1 DEF Arrive, Sequenced, GateInv, GateType
<1>4. s > newest - WindowSize
  BY DEF Arrive, LagWithinWindow, GateInv, GateType, Seqs
<1> QED BY <1>1, <1>2, <1>3, <1>4 DEF Arrive, Sequenced

\* A first copy takes its slot of the window, and passes.
LEMMA FirstCopyWindow ==
    ASSUME LagWithinWindow, GateInv, NEW l \in Lines, NEW s \in Seqs, Arrive(l, s), ~IsDuplicate(s)
    PROVE  /\ GateType' /\ ExpectsNext' /\ ArrivedUpToNewest'
           /\ WindowRemembers' /\ WindowTruthful' /\ PassedOnce'
<1> USE DEF GateInv
<1>0. /\ first[s] = NoLine /\ passed[s] = 0
      /\ first' = [first EXCEPT ![s] = l]
      /\ passed' = [passed EXCEPT ![s] = @ + 1]
      /\ ProcessPacket(l, s) /\ ProcessSequence(s)
      /\ s > newest - WindowSize
      /\ newest' = IF s > newest THEN s ELSE newest
  BY FirstCopyStep
<1>1. /\ s \in Nat /\ s \in 0..MaxSeq /\ newest \in Nat /\ s % WindowSize \in Window
      /\ newest' \in 0..MaxSeq /\ newest' >= s /\ newest' >= newest
      /\ l # NoLine
  <2>1. s \in Nat /\ s \in 0..MaxSeq /\ newest \in Nat
    BY DEF Seqs, GateType
  <2>2. newest' \in 0..MaxSeq /\ newest' >= s /\ newest' >= newest
    BY <1>0, <2>1 DEF GateType
  <2> QED BY <2>1, <2>2, SlotInWindow
<1>2. /\ m_seen_sequences' = [m_seen_sequences EXCEPT ![s % WindowSize] = s]
      /\ m_winner_lines' = [m_winner_lines EXCEPT ![s % WindowSize] = l]
      /\ m_line_wins' = [m_line_wins EXCEPT ![l] = @ + 1]
      /\ m_unique_processed' = m_unique_processed + 1
      /\ UNCHANGED m_duplicates_suppressed
  BY <1>0 DEF ProcessPacket
<1>3. ASSUME NEW t \in Seqs, t # s, first[t] # NoLine, t > newest' - WindowSize
      PROVE  t % WindowSize # s % WindowSize
  <2>1. t <= newest /\ t \in Nat /\ t - s < WindowSize /\ s - t < WindowSize
    BY <1>0, <1>1, <1>3 DEF ArrivedUpToNewest, Seqs
  <2> QED BY <1>1, <1>3, <2>1, SlotShared
<1>4. GateType'
  <2>1. /\ m_seen_sequences' \in [Window -> Nat] /\ m_winner_lines' \in [Window -> Lines]
        /\ m_line_wins' \in [Lines -> Nat] /\ m_unique_processed' \in Nat /\ m_duplicates_suppressed' \in Nat
    BY <1>1, <1>2 DEF GateType
  <2>2. passed' \in [0..MaxSeq -> Nat] /\ first' \in [Seqs -> Lines \cup {NoLine}]
    BY <1>0, <1>1 DEF GateType
  <2>3. m_gaps_detected' \in Nat /\ m_packets_lost' \in Nat /\ m_duplicates_count' \in Nat
    <3>1. /\ m_gaps_detected \in Nat /\ m_packets_lost \in Nat /\ m_duplicates_count \in Nat
          /\ m_expected_seq \in Nat
      BY <1>1 DEF GateType, ExpectsNext
    <3> QED BY <1>0, <1>1, <3>1 DEF ProcessSequence
  <2> QED BY <1>1, <2>1, <2>2, <2>3 DEF GateType
<1>5. ExpectsNext'
  BY <1>0, <1>1 DEF ProcessSequence, ExpectsNext
<1>6. ArrivedUpToNewest'
  BY <1>0, <1>1 DEF ArrivedUpToNewest, GateType, Seqs
<1>7. WindowRemembers'
  <2> SUFFICES ASSUME NEW t \in Seqs, first'[t] # NoLine, t > newest' - WindowSize
               PROVE  m_seen_sequences'[t % WindowSize] = t
    BY DEF WindowRemembers
  <2>1. CASE t = s
    BY <1>1, <1>2, <2>1 DEF GateType
  <2>2. CASE t # s
    <3>1. first[t] # NoLine /\ t > newest - WindowSize /\ t % WindowSize \in Window
      BY <1>0, <1>1, <2>2, SlotInWindow DEF GateType, Seqs
    <3>2. t % WindowSize # s % WindowSize
      BY <1>3, <2>2, <3>1
    <3> QED BY <1>2, <3>1, <3>2 DEF WindowRemembers, GateType
  <2> QED BY <2>1, <2>2
<1>8. WindowTruthful'
  <2> SUFFICES ASSUME NEW t \in Seqs, m_seen_sequences'[t % WindowSize] = t
               PROVE  first'[t] # NoLine /\ m_winner_lines'[t % WindowSize] = first'[t]
    BY DEF WindowTruthful
  <2>0. t % WindowSize \in Window
    BY SlotInWindow DEF Seqs
  <2>1. CASE t = s
    BY <1>0, <1>1, <1>2, <2>1 DEF GateType
  <2>2. CASE t # s
    <3>1. t % WindowSize # s % WindowSize
      BY <1>1, <1>2, <2>0, <2>2 DEF GateType
    <3> QED BY <1>0, <1>1, <1>2, <2>0, <2>2, <3>1 DEF WindowTruthful, GateType
  <2> QED BY <2>1, <2>2
<1>9. PassedOnce'
  <2> SUFFICES ASSUME NEW t \in Seqs
               PROVE  passed'[t] = IF first'[t] = NoLine THEN 0 ELSE 1
    BY DEF PassedOnce
  <2>1. t \in 0..MaxSeq /\ passed[t] = IF first[t] = NoLine THEN 0 ELSE 1
    BY DEF PassedOnce, Seqs
  <2> QED BY <1>0, <1>1, <2>1 DEF GateType
<1> QED BY <1>4, <1>5, <1>6, <1>7, <1>8, <1>9

\* A first copy fills a hole, extends the stream, or opens new holes, and the
\* two counters of the detector follow.
LEMMA FirstCopyLoss ==
    ASSUME LagWithinWindow, GateInv, NEW l \in Lines, NEW s \in Seqs, Arrive(l, s), ~IsDuplicate(s)
    PROVE  LossCounted'
<1>0. /\ passed[s] = 0
      /\ passed' = [passed EXCEPT ![s] = @ + 1]
      /\ ProcessSequence(s)
  BY FirstCopyStep
<1>1. /\ m_expected_seq \in Nat /\ s \in Nat /\ s >= 1 /\ s <= MaxSeq /\ m_expected_seq >= 1
      /\ m_packets_lost \in Nat /\ m_duplicates_count \in Nat
      /\ m_packets_lost - m_duplicates_count = Cardinality(Missing)
  BY DEF GateInv, GateType, ExpectsNext, LossCounted, Seqs
<1>2. \A t \in Seqs : passed'[t] = IF t = s THEN 1 ELSE passed[t]
  BY <1>0 DEF GateInv, GateType, Seqs
<1>3. \A t \in Seqs : t >= m_expected_seq => passed[t] = 0
  BY DEF GateInv, GateType, PassedOnce, ArrivedUpToNewest, ExpectsNext, Seqs
<1>4. Missing \in SUBSET Seqs /\ IsFiniteSet(Missing) /\ Cardinality(Missing) \in Nat
  BY SeqsFinite DEF Missing
<1>5. CASE s = m_expected_seq
  <2>1. m_expected_seq' = s + 1 /\ UNCHANGED <<m_packets_lost, m_duplicates_count>>
    BY <1>0, <1>1, <1>5 DEF ProcessSequence
  <2>2. Missing' = Missing
    BY <1>1, <1>2, <1>5, <2>1 DEF Missing, Seqs
  <2> QED BY <1>1, <2>1, <2>2 DEF LossCounted
<1>6. CASE s > m_expected_seq
  <2>1. /\ m_expected_seq' = s + 1 /\ UNCHANGED m_duplicates_count
        /\ m_packets_lost' = m_packets_lost + (s - m_expected_seq)
    BY <1>0, <1>1, <1>6 DEF ProcessSequence
  <2> DEFINE gap == m_expected_seq..(s - 1)
  <2>2. Missing' = Missing \cup gap
    <3>1. ASSUME NEW t \in Seqs
          PROVE  t \in Missing' <=> t \in Missing \cup gap
      BY <1>1, <1>2, <1>3, <1>6, <2>1 DEF Missing, Seqs
    <3>2. gap \subseteq Seqs
      BY <1>1 DEF Seqs
    <3>3. Missing' \subseteq Seqs /\ Missing \subseteq Seqs
      BY DEF Missing
    <3> QED BY <3>1, <3>2, <3>3
  <2>3. Missing \cap gap = {}
    BY <1>1 DEF Missing, Seqs
  <2>4. IsFiniteSet(gap) /\ Cardinality(gap) = s - m_expected_seq
    BY <1>1, <1>6, FS_Interval
  <2> HIDE DEF gap
  <2>5. Cardinality(Missing') = Cardinality(Missing) + (s - m_expected_seq)
    <3>1. Cardinality(Missing \cup gap) = Cardinality(Missing) + Cardinality(gap) - Cardinality(Missing \cap gap)
      BY <1>4, <2>4, FS_Union
    <3>2. Cardinality(Missing \cap gap) = 0
      BY <2>3, FS_EmptySet
    <3> QED BY <1>1, <1>4, <2>2, <2>4, <3>1, <3>2
  <2> QED BY <1>1, <1>4, <2>1, <2>5 DEF LossCounted
<1>7. CASE s < m_expected_seq
  <2>1. UNCHANGED <<m_expected_seq, m_packets_lost>> /\ m_duplicates_count' = m_duplicates_count + 1
    BY <1>0, <1>1, <1>7 DEF ProcessSequence
  <2>2. s \in Missing /\ Missing' = Missing \ {s}
    BY <1>0, <1>2, <1>7, <2>1 DEF Missing
  <2>3. Cardinality(Missing') = Cardinality(Missing) - 1
    BY <1>4, <2>2, FS_RemoveElement
  <2> QED BY <1>1, <1>4, <2>1, <2>3 DEF LossCounted
<1> QED BY <1>1, <1>5, <1>6, <1>7

\* A first copy is one more win for its line, and for no other.
LEMMA FirstCopyWins ==
    ASSUME LagWithinWindow, GateInv, NEW l \in Lines, NEW s \in Seqs, Arrive(l, s), ~IsDuplicate(s)
    PROVE  WinsCounted'
<1>0. /\ first[s] = NoLine /\ first' = [first EXCEPT ![s] = l] /\ ProcessPacket(l, s)
  BY FirstCopyStep
<1>1. /\ m_line_wins' = [m_line_wins EXCEPT ![l] = @ + 1]
      /\ m_unique_processed' = m_unique_processed + 1
  BY <1>0 DEF ProcessPacket
<1>2. /\ m_line_wins \in [Lines -> Nat] /\ first \in [Seqs -> Lines \cup {NoLine}]
      /\ \A k \in Lines : m_line_wins[k] = Cardinality(WonBy(k))
      /\ m_unique_processed = m_line_wins["LINE_A"] + m_line_wins["LINE_B"]
  BY DEF GateInv, GateType, WinsCounted
<1>3. ASSUME NEW k \in Lines PROVE m_line_wins'[k] = Cardinality(WonBy(k)')
  <2>1. CASE k = l
    <3>1. s \notin WonBy(k) /\ WonBy(k)' = WonBy(k) \cup {s}
      BY <1>0, <1>2, <2>1 DEF WonBy
    <3>2. IsFiniteSet(WonBy(k)) /\ Cardinality(WonBy(k)) \in Nat
      BY SeqsFinite DEF WonBy
    <3>3. Cardinality(WonBy(k)') = Cardinality(WonBy(k)) + 1
      BY <3>1, <3>2, FS_AddElement
    <3> QED BY <1>1, <1>2, <2>1, <3>3
  <2>2. CASE k # l
    <3>1. WonBy(k)' = WonBy(k)
      BY <1>0, <1>2, <2>2 DEF WonBy
    <3> QED BY <1>1, <1>2, <2>2, <3>1
  <2> QED BY <2>1, <2>2
<1>4. m_unique_processed' = m_line_wins'["LINE_A"] + m_line_wins'["LINE_B"]
  BY <1>1, <1>2 DEF Lines
<1> QED BY <1>3, <1>4 DEF WinsCounted

\* Every step preserves the invariant.
LEMMA GateStep == LagWithinWindow /\ GateInv /\ [Next]_vars => GateInv'
<1> SUFFICES ASSUME LagWithinWindow, GateInv, [Next]_vars PROVE GateInv'
  OBVIOUS
<1>1. ASSUME NEW l \in Lines, NEW s \in Seqs, Arrive(l, s) PROVE GateInv'
  <2>1. CASE IsDuplicate(s)
    BY <1>1, <2>1, DuplicatePreserves
  <2>2. CASE ~IsDuplicate(s)
    BY <1>1, <2>2, FirstCopyWindow, FirstCopyLoss, FirstCopyWins DEF GateInv
  <2> QED BY <2>1, <2>2
<1>2. CASE Unsequenced
  <2> USE <1>2 DEF Unsequenced, GateInv, arbitratorVars, detectorVars
  <2>1. \A s \in Seqs : passed'[s] = passed[s]
    BY DEF GateType, Seqs
  <2>2. GateType'
    BY DEF GateType
  <2>3. ExpectsNext' /\ ArrivedUpToNewest' /\ WindowRemembers' /\ WindowTruthful' /\ PassedOnce'
    BY <2>1 DEF ExpectsNext, ArrivedUpToNewest, WindowRemembers, WindowTruthful, PassedOnce
  <2>4. LossCounted'
    <3>1. Missing' = Missing
      BY <2>1 DEF Missing
    <3> QED BY <3>1 DEF LossCounted
  <2>5. WinsCounted'
    BY DEF WinsCounted, WonBy
  <2> QED BY <2>2, <2>3, <2>4, <2>5
<1>3. CASE Reset
  <2>1. Init'
    BY <1>3 DEF Reset, ResetArbitrator, ResetDetector, Init
  <2>2. (Init => GateInv)'
    BY EmptyGate, PTL
  <2> QED BY <2>1, <2>2
<1>4. CASE UNCHANGED vars
  BY <1>4 DEF vars, arbitratorVars, detectorVars, GateInv, GateType, ExpectsNext, ArrivedUpToNewest,
     WindowRemembers, WindowTruthful, PassedOnce, LossCounted, WinsCounted, Missing, WonBy
<1> QED BY <1>1, <1>2, <1>3, <1>4 DEF Next

\* The invariant holds in every reachable state, for every feed whose copies
\* are less than a window late.
THEOREM GateInvariance == LagWithinWindow => (Spec => []GateInv)
<1> SUFFICES ASSUME LagWithinWindow PROVE Spec => []GateInv
  OBVIOUS
<1>1. GateInv /\ [Next]_vars => GateInv'
  BY GateStep
<1> QED BY EmptyGate, <1>1, PTL DEF Spec

----------------------------------------------------------------------------
\* Every message that arrives passes the gate exactly once, however often and
\* in whatever order its copies come and whichever numbers share its slot.
THEOREM EveryMessagePassesOnce == LagWithinWindow => (Spec => []PassedOnce)
<1>1. GateInv => PassedOnce
  BY DEF GateInv
<1> QED BY GateInvariance, <1>1, PTL

\* m_packets_lost less m_duplicates_count is the number of holes below the
\* expected number.
THEOREM DetectorAccountsLosses == LagWithinWindow => (Spec => []LossAccounted)
<1>1. GateInv => LossAccounted
  BY DEF GateInv, LossCounted, LossAccounted, Missing
<1> QED BY GateInvariance, <1>1, PTL

\* The recorded winner of a race is the line of the first copy, and the wins
\* of the lines add up.
THEOREM FirstCopyWinsRace == LagWithinWindow => (Spec => []RaceWonByFirst)
<1>1. GateInv => RaceWonByFirst
  <2> SUFFICES ASSUME GateInv PROVE RaceWonByFirst
    OBVIOUS
  <2>1. \A s \in Seqs : IsDuplicate(s) => m_winner_lines[s % WindowSize] = first[s]
    BY DEF GateInv, WindowTruthful, IsDuplicate
  <2>2. /\ \A l \in Lines : m_line_wins[l] = Cardinality({s \in Seqs : first[s] = l})
        /\ m_unique_processed = m_line_wins["LINE_A"] + m_line_wins["LINE_B"]
    BY DEF GateInv, WinsCounted, WonBy
  <2> QED BY <2>1, <2>2 DEF RaceWonByFirst
<1> QED BY GateInvariance, <1>1, PTL
=============================================================================
