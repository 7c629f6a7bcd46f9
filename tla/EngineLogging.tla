--------------------------- MODULE EngineLogging ---------------------------
(***************************************************************************)
(* What the engine's threads write and how it gets out of the process:     *)
(* ConsoleLogger with its MpscQueue and its thread, the file log of the    *)
(* worker with its SPSC queue and its thread, and the end of               *)
(* EngineLauncher::run, which stops both after the joins.  Every section   *)
(* of MpscQueue under m_mutex is one step; the file log's queue is the     *)
(* FIFO that SPSCQueue implements.  A line is its writer and its number.   *)
(***************************************************************************)
EXTENDS Integers, Sequences

CONSTANTS Threads,      \* threads that call log_info, log_warn, log_error
          Worker,       \* the one of them that also fills the file log
          MaxLines,     \* bound: console lines of a thread
          BlankLines,   \* numbers of the lines that are log_info("")
          MaxEntries,   \* bound: file log entries
          LogCap        \* SPSCQueue::capacity() of m_log_queue (16383)

ASSUME LoggingAssumption ==
    /\ Worker \in Threads
    /\ BlankLines \subseteq Nat
    /\ MaxLines \in Nat /\ MaxEntries \in Nat
    /\ LogCap \in Nat /\ LogCap >= 1

VARIABLES
    t_pc,               \* per thread: "run", "push" (inside log) or "done"
    lines,              \* per thread: console lines begun
    m_running,          \* ConsoleLogger::m_running
    m_queue,            \* the MpscQueue
    l_pc,               \* where ConsoleLogger::run_loop is
    printed,            \* the console, oldest line first
    made, accepted,     \* entries written by the worker; those it could queue
    m_log_queue,
    m_logging_running,
    f_pc,               \* where run_logging_loop is
    file,               \* the log file
    counters,           \* the TelemetryCounters are mapped
    main                \* where the launcher thread is

threadVars == <<t_pc, lines, made, accepted>>
consoleVars == <<m_running, m_queue, l_pc, printed>>
fileVars == <<m_log_queue, m_logging_running, f_pc, file>>
vars == <<threadVars, consoleVars, fileVars, counters, main>>

\* The empty message: shutdown() pushes one to wake the logger thread, and
\* log_info("") pushes one that looks the same.
Dummy == <<>>

Message(t, k) == IF k \in BlankLines THEN Dummy ELSE <<t, k>>

\* After initialize(), the construction of the worker and the thread starts.
\* The lines the launcher itself logs before that are those of one thread more.
Init ==
    /\ t_pc = [t \in Threads |-> "run"] /\ lines = [t \in Threads |-> 0]
    /\ m_running = TRUE /\ m_queue = <<>> /\ l_pc = "loop" /\ printed = <<>>
    /\ made = 0 /\ accepted = <<>>
    /\ m_log_queue = <<>> /\ m_logging_running = TRUE /\ f_pc = "loop" /\ file = <<>>
    /\ counters = TRUE
    /\ main = "join_threads"

----------------------------------------------------------------------------
(* The engine's threads.                                                   *)

\* log() reads m_running; without a logger thread it prints directly.
Log(t) ==
    /\ t_pc[t] = "run" /\ lines[t] < MaxLines
    /\ lines' = [lines EXCEPT ![t] = @ + 1]
    /\ IF m_running
         THEN t_pc' = [t_pc EXCEPT ![t] = "push"] /\ UNCHANGED printed
         ELSE printed' = Append(printed, Message(t, lines'[t])) /\ UNCHANGED t_pc
    /\ UNCHANGED <<m_running, m_queue, l_pc, made, accepted, fileVars, counters, main>>

\* ... and then m_queue.push(m).
LogPush(t) ==
    /\ t_pc[t] = "push"
    /\ m_queue' = Append(m_queue, Message(t, lines[t]))
    /\ t_pc' = [t_pc EXCEPT ![t] = "run"]
    /\ UNCHANGED <<lines, made, accepted, m_running, l_pc, printed, fileVars, counters, main>>

\* A file log entry of the worker; it is given up if the queue is full.
LogEntry ==
    /\ t_pc[Worker] = "run" /\ made < MaxEntries
    /\ made' = made + 1
    /\ IF Len(m_log_queue) < LogCap
         THEN m_log_queue' = Append(m_log_queue, made') /\ accepted' = Append(accepted, made')
         ELSE UNCHANGED <<m_log_queue, accepted>>
    /\ UNCHANGED <<t_pc, lines, consoleVars, m_logging_running, f_pc, file, counters, main>>

\* run() returns.  EngineLifecycle shows that every thread gets there.
ThreadEnds(t) ==
    /\ t_pc[t] = "run"
    /\ t_pc' = [t_pc EXCEPT ![t] = "done"]
    /\ UNCHANGED <<lines, made, accepted, consoleVars, fileVars, counters, main>>

----------------------------------------------------------------------------
(* run_logging_loop of the worker.                                         *)

\* while (m_logging_running || !m_log_queue.empty()): the flag is read first.
FileLoop ==
    /\ f_pc = "loop"
    /\ f_pc' = IF m_logging_running THEN "pop" ELSE "test_empty"
    /\ UNCHANGED <<threadVars, consoleVars, m_log_queue, m_logging_running, file, counters, main>>

FileTestEmptyIgnored ==
    /\ f_pc = "test_empty"
    /\ f_pc' = "ended"
    /\ UNCHANGED <<threadVars, consoleVars, m_log_queue, m_logging_running, file, counters, main>>
FileTestEmpty ==
    /\ f_pc = "test_empty"
    /\ f_pc' = IF m_log_queue = <<>> THEN "ended" ELSE "pop"
    /\ UNCHANGED <<threadVars, consoleVars, m_log_queue, m_logging_running, file, counters, main>>

\* pop; an empty queue means a short sleep.
FilePop ==
    /\ f_pc = "pop"
    /\ f_pc' = "loop"
    /\ IF m_log_queue = <<>>
         THEN UNCHANGED <<m_log_queue, file>>
         ELSE /\ file' = Append(file, Head(m_log_queue))
              /\ m_log_queue' = Tail(m_log_queue)
    /\ UNCHANGED <<threadVars, consoleVars, m_logging_running, counters, main>>

FileThread == FileLoop \/ FileTestEmpty \/ FilePop

----------------------------------------------------------------------------
(* ConsoleLogger::run_loop.                                                *)

\* Print the oldest message, unless it is the empty one.
PrintFront ==
    /\ printed' = IF Head(m_queue) = Dummy THEN printed ELSE Append(printed, Head(m_queue))
    /\ m_queue' = Tail(m_queue)

\* while (m_running || !m_queue.empty())
ConsoleLoop ==
    /\ l_pc = "loop"
    /\ l_pc' = IF m_running THEN "pop" ELSE "test_empty"
    /\ UNCHANGED <<threadVars, m_running, m_queue, printed, fileVars, counters, main>>

ConsoleTestEmpty ==
    /\ l_pc = "test_empty"
    /\ l_pc' = IF m_queue = <<>> THEN "drain" ELSE "pop"
    /\ UNCHANGED <<threadVars, m_running, m_queue, printed, fileVars, counters, main>>

\* pop_with_timeout: with an item, or empty after 50 ms or the end of m_running.
ConsolePop ==
    /\ l_pc = "pop"
    /\ IF m_queue = <<>>
         THEN UNCHANGED <<m_queue, printed>>
         ELSE PrintFront
    /\ l_pc' = IF m_queue = <<>> \/ Head(m_queue) = Dummy THEN "recheck" ELSE "draw"
    /\ UNCHANGED <<threadVars, m_running, fileVars, counters, main>>

\* Nothing to print: break if (!m_running && m_queue.empty()).
ConsoleRecheck ==
    /\ l_pc = "recheck"
    /\ l_pc' = IF m_running THEN "draw" ELSE "recheck_empty"
    /\ UNCHANGED <<threadVars, m_running, m_queue, printed, fileVars, counters, main>>

ConsoleRecheckEmpty ==
    /\ l_pc = "recheck_empty"
    /\ l_pc' = IF m_queue = <<>> THEN "drain" ELSE "draw"
    /\ UNCHANGED <<threadVars, m_running, m_queue, printed, fileVars, counters, main>>

\* The progress bar, from messages_processed of the counters; after the last
\* one the terminal is restored.
ConsoleDraw ==
    /\ l_pc \in {"draw", "final_draw"}
    /\ l_pc' = IF l_pc = "draw" THEN "loop" ELSE "ended"
    /\ UNCHANGED <<threadVars, m_running, m_queue, printed, fileVars, counters, main>>

\* The counters are no longer mapped: reading them ends the process, or finds
\* other memory at that address and goes on (ConsoleDraw).
ConsoleReadsUnmapped ==
    /\ l_pc \in {"draw", "final_draw"} /\ ~counters
    /\ main' = "crashed"
    /\ UNCHANGED <<threadVars, consoleVars, fileVars, counters>>

\* while (m_queue.try_pop(m)): the rest.
ConsoleDrain ==
    /\ l_pc = "drain"
    /\ IF m_queue = <<>>
         THEN l_pc' = "final_draw" /\ UNCHANGED <<m_queue, printed>>
         ELSE PrintFront /\ UNCHANGED l_pc
    /\ UNCHANGED <<threadVars, m_running, fileVars, counters, main>>

ConsoleThread ==
    \/ ConsoleLoop \/ ConsoleTestEmpty \/ ConsolePop \/ ConsoleRecheck
    \/ ConsoleRecheckEmpty \/ ConsoleDraw \/ ConsoleReadsUnmapped \/ ConsoleDrain

----------------------------------------------------------------------------
(* The end of EngineLauncher::run and of the process.                      *)

JoinThreadsWorkerOnly ==
    /\ main = "join_threads" /\ t_pc[Worker] = "done"
    /\ main' = "release"
    /\ UNCHANGED <<threadVars, consoleVars, fileVars, counters>>
JoinThreads ==
    /\ main = "join_threads" /\ \A t \in Threads : t_pc[t] = "done"
    /\ main' = "release"
    /\ UNCHANGED <<threadVars, consoleVars, fileVars, counters>>

\* The summary, then deallocate_huge_pages(shared_telemetry).
ReleaseShared ==
    /\ main = "release"
    /\ counters' = FALSE
    /\ main' = "destroy_worker"
    /\ UNCHANGED <<threadVars, consoleVars, fileVars>>

\* Destructor of the worker: m_logging_running.store(false) ...
StopFileLog ==
    /\ main = "destroy_worker"
    /\ m_logging_running' = FALSE
    /\ main' = "join_file"
    /\ UNCHANGED <<threadVars, consoleVars, m_log_queue, f_pc, file, counters>>

\* ... and m_logging_thread.join().
JoinFileLog ==
    /\ main = "join_file" /\ f_pc = "ended"
    /\ main' = "shutdown"
    /\ UNCHANGED <<threadVars, consoleVars, fileVars, counters>>

\* shutdown(), from the destructor of the singleton: m_running.store(false) ...
ShutdownStopForgotten ==
    /\ main = "shutdown" /\ m_running
    /\ main' = "wake"
    /\ UNCHANGED <<threadVars, consoleVars, fileVars, counters>>
ShutdownStop ==
    /\ main = "shutdown" /\ m_running
    /\ m_running' = FALSE
    /\ main' = "wake"
    /\ UNCHANGED <<threadVars, m_queue, l_pc, printed, fileVars, counters>>

\* ... the dummy message ...
ShutdownWake ==
    /\ main = "wake"
    /\ m_queue' = Append(m_queue, Dummy)
    /\ main' = "join_console"
    /\ UNCHANGED <<threadVars, m_running, l_pc, printed, fileVars, counters>>

\* ... and m_thread.join().
JoinConsole ==
    /\ main = "join_console" /\ l_pc = "ended"
    /\ main' = "exited"
    /\ UNCHANGED <<threadVars, consoleVars, fileVars, counters>>

Main == JoinThreads \/ ReleaseShared \/ StopFileLog \/ JoinFileLog \/ ShutdownStop \/ ShutdownWake \/ JoinConsole

\* The process has ended, by itself or by a signal of the memory system.
Ended == main \in {"exited", "crashed"}
Stay == Ended /\ UNCHANGED vars

Next ==
    \/ /\ ~Ended
       /\ \/ \E t \in Threads : Log(t) \/ LogPush(t) \/ ThreadEnds(t)
          \/ LogEntry \/ FileThread \/ ConsoleThread \/ Main
    \/ Stay

Spec == Init /\ [][Next]_vars

\* Every thread is scheduled; nobody is made to log.
FairSpec ==
    /\ Spec
    /\ \A t \in Threads : WF_vars(~Ended /\ (LogPush(t) \/ ThreadEnds(t)))
    /\ WF_vars(~Ended /\ FileThread) /\ WF_vars(~Ended /\ ConsoleThread)
    /\ WF_vars(~Ended /\ Main)

----------------------------------------------------------------------------
\* Two console lines in this order are not two of the same thread the wrong
\* way round (or twice the same).
InThreadOrder(m, n) == m # Dummy /\ n # Dummy /\ m[1] = n[1] => m[2] < n[2]

\* When the process has exited, every line that a thread has passed to log()
\* (blank ones excepted) is on the console once, in that thread's order, and
\* nothing else is: no line was left in the queue by the way shutdown() stops
\* the logger thread, none was pushed after its drain.
ConsoleComplete ==
    main = "exited" =>
        /\ \A t \in Threads : \A k \in 1..lines[t] :
              k \notin BlankLines => \E i \in 1..Len(printed) : printed[i] = <<t, k>>
        /\ \A i, j \in 1..Len(printed) : i < j => InThreadOrder(printed[i], printed[j])
        /\ \A i \in 1..Len(printed) : printed[i] = Dummy \/
              \E t \in Threads : \E k \in 1..lines[t] : printed[i] = <<t, k>>

\* When the worker's destructor has joined its logging thread, the file holds
\* exactly the entries the queue has accepted, in order: clearing
\* m_logging_running does not cut off what is still queued.
FileComplete ==
    main \in {"shutdown", "wake", "join_console", "exited"} => file = accepted

\* The process ends: both logging threads notice that they are to stop, also
\* when the flag falls between their test of it and their wait for a message.
ProcessEnds == <>Ended

\* "Shuts down the console logging thread and restores terminal settings": the
\* process does not end with the logger thread still in its loop.
TerminalRestored == Ended => l_pc = "ended"
=============================================================================
