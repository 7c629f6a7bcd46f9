------------------------------ MODULE FeedGate ------------------------------
(***************************************************************************)
(* The gate every sequenced message passes in MatchingWorker and           *)
(* HftOrderBookEngine before risk checks and matching: FeedArbitrator      *)
(* (drop what the window has seen) and then SequenceGapDetector (account   *)
(* for what is missing).  The feed loses, repeats and reorders messages.   *)
(* The workers call the arbitrator for LINE_A only; TestArena drives both  *)
(* lines, and so does this module.                                         *)
(***************************************************************************)
EXTENDS Integers, FiniteSets

CONSTANTS WindowSize,       \* entries of m_seen_sequences (65536)
          MaxSeq,           \* bound: largest MsgSeqNum
          MaxLag,           \* bound: how far behind the newest a message may come
          MaxArrivals,      \* bound: messages that arrive
          NoLine

Lines == {"LINE_A", "LINE_B"}

ASSUME GateAssumption ==
    /\ WindowSize \in Nat /\ WindowSize >= 1
    /\ MaxSeq \in Nat /\ MaxLag \in Nat /\ MaxArrivals \in Nat
    /\ NoLine \notin Lines

VARIABLES m_seen_sequences, m_winner_lines,                 \* FeedArbitrator
          m_unique_processed, m_duplicates_suppressed,
          m_line_wins,      \* m_line_a_wins, m_line_b_wins
          m_expected_seq, m_gaps_detected, m_packets_lost, m_duplicates_count,
          passed,           \* how often each message went on to risk and matching
          newest,           \* history: largest MsgSeqNum that has arrived
          first             \* history: the line of the first copy of each message

arbitratorVars == <<m_seen_sequences, m_winner_lines, m_unique_processed, m_duplicates_suppressed, m_line_wins>>
detectorVars == <<m_expected_seq, m_gaps_detected, m_packets_lost, m_duplicates_count>>
vars == <<arbitratorVars, detectorVars, passed, newest, first>>

Seqs == 1..MaxSeq
Window == 0..(WindowSize - 1)

Init ==
    /\ m_seen_sequences = [i \in Window |-> 0]
    /\ m_winner_lines = [i \in Window |-> "LINE_A"]
    /\ m_unique_processed = 0 /\ m_duplicates_suppressed = 0
    /\ m_line_wins = [l \in Lines |-> 0]
    /\ m_expected_seq = 1 /\ m_gaps_detected = 0 /\ m_packets_lost = 0 /\ m_duplicates_count = 0
    /\ passed = [s \in 0..MaxSeq |-> 0] /\ newest = 0 /\ first = [s \in Seqs |-> NoLine]

\* FeedArbitrator::process_packet: the slot is shared by all numbers that are
\* equal modulo WindowSize.
IsDuplicateOlder(s) == m_seen_sequences[s % WindowSize] > s
IsDuplicate(s) == m_seen_sequences[s % WindowSize] = s

\* The first copy wins the race for its line.
ProcessPacketKeepsWinner(l, s) ==
    /\ m_seen_sequences' = [m_seen_sequences EXCEPT ![s % WindowSize] = s]
    /\ m_line_wins' = [m_line_wins EXCEPT ![l] = @ + 1]
    /\ m_unique_processed' = m_unique_processed + 1
    /\ UNCHANGED <<m_duplicates_suppressed, m_winner_lines>>
ProcessPacket(l, s) ==
    /\ m_seen_sequences' = [m_seen_sequences EXCEPT ![s % WindowSize] = s]
    /\ m_winner_lines' = [m_winner_lines EXCEPT ![s % WindowSize] = l]
    /\ m_line_wins' = [m_line_wins EXCEPT ![l] = @ + 1]
    /\ m_unique_processed' = m_unique_processed + 1
    /\ UNCHANGED m_duplicates_suppressed

\* SequenceGapDetector::process_sequence.
ProcessSequenceCountsIncoming(s) ==
    \/ /\ s = m_expected_seq
       /\ m_expected_seq' = s + 1
       /\ UNCHANGED <<m_gaps_detected, m_packets_lost, m_duplicates_count>>
    \/ /\ s > m_expected_seq
       /\ m_gaps_detected' = m_gaps_detected + 1
       /\ m_packets_lost' = m_packets_lost + (s - m_expected_seq) + 1
       /\ m_expected_seq' = s + 1
       /\ UNCHANGED m_duplicates_count
    \/ /\ s < m_expected_seq
       /\ m_duplicates_count' = m_duplicates_count + 1
       /\ UNCHANGED <<m_expected_seq, m_gaps_detected, m_packets_lost>>
ProcessSequence(s) ==
    \/ /\ s = m_expected_seq
       /\ m_expected_seq' = m_expected_seq + 1
       /\ UNCHANGED <<m_gaps_detected, m_packets_lost, m_duplicates_count>>
    \/ /\ s > m_expected_seq
       /\ m_gaps_detected' = m_gaps_detected + 1
       /\ m_packets_lost' = m_packets_lost + (s - m_expected_seq)
       /\ m_expected_seq' = s + 1
       /\ UNCHANGED m_duplicates_count
    \/ /\ s < m_expected_seq
       /\ m_duplicates_count' = m_duplicates_count + 1
       /\ UNCHANGED <<m_expected_seq, m_gaps_detected, m_packets_lost>>

\* The worker's handling of one parsed message: a duplicate is skipped; any
\* verdict of the gap detector lets the message pass.
Sequenced(l, s) ==
    /\ IF IsDuplicate(s)
         THEN /\ m_duplicates_suppressed' = m_duplicates_suppressed + 1
              /\ UNCHANGED <<m_seen_sequences, m_winner_lines, m_unique_processed, m_line_wins>>
              /\ UNCHANGED <<detectorVars, passed>>
         ELSE /\ ProcessPacket(l, s)
              /\ ProcessSequence(s)
              /\ passed' = [passed EXCEPT ![s] = @ + 1]
    /\ newest' = IF s > newest THEN s ELSE newest
    /\ first' = [first EXCEPT ![s] = IF @ = NoLine THEN l ELSE @]

\* A message without a sequence number (parsed as 0) takes neither test.
Unsequenced ==
    /\ passed' = [passed EXCEPT ![0] = @ + 1]
    /\ UNCHANGED <<arbitratorVars, detectorVars, newest, first>>

\* The number of messages that have arrived.
Total == m_unique_processed + m_duplicates_suppressed + passed[0]

Arrive(l, s) ==
    /\ Total < MaxArrivals
    /\ s > newest - MaxLag
    /\ Sequenced(l, s)

\* FeedArbitrator::reset and SequenceGapDetector::reset.
ResetArbitrator ==
    /\ m_seen_sequences' = [i \in Window |-> 0]
    /\ m_winner_lines' = [i \in Window |-> "LINE_A"]
    /\ m_unique_processed' = 0 /\ m_duplicates_suppressed' = 0
    /\ m_line_wins' = [l \in Lines |-> 0]

ResetDetector ==
    m_expected_seq' = 1 /\ m_gaps_detected' = 0 /\ m_packets_lost' = 0 /\ m_duplicates_count' = 0

\* Both are reset for a new session, which starts at number 1 again.
Reset ==
    /\ newest > 0
    /\ ResetArbitrator /\ ResetDetector
    /\ passed' = [s \in 0..MaxSeq |-> 0] /\ newest' = 0 /\ first' = [s \in Seqs |-> NoLine]

Next ==
    \/ \E l \in Lines, s \in Seqs : Arrive(l, s)
    \/ Total < MaxArrivals /\ Unsequenced
    \/ Reset
    \/ Total = MaxArrivals /\ UNCHANGED vars

Spec == Init /\ [][Next]_vars

----------------------------------------------------------------------------
(* Properties.                                                             *)

\* "True if packet was already processed": every message that arrives reaches
\* the matching engine exactly once, the first copy never mistaken for a
\* duplicate whatever other numbers share its slot, and no later copy let
\* through.  It holds while no copy comes WindowSize or more behind the newest
\* message; nothing in the gate stops an older copy.
PassedOnce == \A s \in Seqs : passed[s] = IF first[s] = NoLine THEN 0 ELSE 1

\* The detector's counters account for the feed: packets reported lost, less
\* those that came late, are the ones below the expected number that never
\* reached the engine.
LossAccounted ==
    m_packets_lost - m_duplicates_count =
        Cardinality({s \in Seqs : s < m_expected_seq /\ passed[s] = 0})

\* Every race has one winner, the line of the first copy: it is what a later
\* copy is told while its number is in the window, and the statistics of the
\* lines count the races each has won, also when numbers share a slot.
RaceWonByFirst ==
    /\ \A s \in Seqs : IsDuplicate(s) => m_winner_lines[s % WindowSize] = first[s]
    /\ \A l \in Lines : m_line_wins[l] = Cardinality({s \in Seqs : first[s] = l})
    /\ m_unique_processed = m_line_wins["LINE_A"] + m_line_wins["LINE_B"]
=============================================================================
