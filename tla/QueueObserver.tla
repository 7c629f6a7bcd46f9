--------------------------- MODULE QueueObserver ---------------------------
(***************************************************************************)
(* A third thread beside the two of SPSCQueue: CsvPerformanceMonitor, which *)
(* samples the depth of the queue with size().  size() loads m_write_pos    *)
(* and then m_read_pos; producer and consumer run on between the loads.     *)
(***************************************************************************)
EXTENDS SPSCQueue

VARIABLES o_pc,         \* "idle", or "loaded" between the two loads of size()
          o_write,      \* the m_write_pos it has loaded
          o_sent        \* history: items published at that load

observerVars == <<o_pc, o_write, o_sent>>
observedVars == <<vars, observerVars>>

ObserverInit == o_pc = "idle" /\ o_write = 0 /\ o_sent = 0

\* What size() returns if its second load is made now.
SizeNoWrap == o_write - m_read_pos
Size == IF o_write >= m_read_pos THEN o_write - m_read_pos ELSE Capacity - m_read_pos + o_write

SizeLoadWrite ==
    /\ o_pc = "idle"
    /\ o_pc' = "loaded" /\ o_write' = m_write_pos /\ o_sent' = sent
    /\ UNCHANGED vars

\* The second load; the sample goes into the row of the CSV file.
SizeLoadRead ==
    /\ o_pc = "loaded"
    /\ o_pc' = "idle" /\ o_write' = 0 /\ o_sent' = 0
    /\ UNCHANGED vars

Observer == SizeLoadWrite \/ SizeLoadRead

ObservedNext == (Next /\ UNCHANGED observerVars) \/ Observer

ObservedInit == Init /\ ObserverInit

ObservedSpec == ObservedInit /\ [][ObservedNext]_observedVars /\ Fairness

----------------------------------------------------------------------------
\* The depth size() reports is always a depth the queue can have.  While the
\* consumer has not passed the write index that was loaded, it is exactly the
\* items published at the first load that are still queued at the second, so
\* never more than are queued then.  A consumer that passes it makes a nearly
\* empty queue look nearly full, and nothing in size() tells.
SizeSound ==
    o_pc = "loaded" =>
        /\ Size \in 0..(Capacity - 1)
        /\ received <= o_sent => Size = o_sent - received /\ Size <= sent - received
=============================================================================
