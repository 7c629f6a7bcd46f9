------------------------ MODULE EngineLogging_proofs ------------------------
(***************************************************************************)
(* Proofs about EngineLogging for every set of threads, every number of    *)
(* lines and entries, blank or not, and every size of the file log queue.  *)
(***************************************************************************)
EXTENDS EngineLogging, SequenceTheorems, TLAPS

\* A console message: a line of a thread, or the empty one.
Texts == (Threads \X Nat) \cup {Dummy}

LoggingType ==
    /\ t_pc \in [Threads -> {"run", "push", "done"}] /\ lines \in [Threads -> Nat]
    /\ \A t \in Threads : t_pc[t] = "push" => lines[t] >= 1
    /\ m_running \in BOOLEAN /\ m_logging_running \in BOOLEAN /\ counters \in BOOLEAN
    /\ m_queue \in Seq(Texts) /\ printed \in Seq(Texts)
    /\ l_pc \in {"loop", "test_empty", "pop", "recheck", "recheck_empty", "draw", "drain", "final_draw", "ended"}
    /\ made \in Nat /\ accepted \in Seq(Nat) /\ m_log_queue \in Seq(Nat) /\ file \in Seq(Nat)
    /\ f_pc \in {"loop", "test_empty", "pop", "ended"}
    /\ main \in {"join_threads", "release", "destroy_worker", "join_file", "shutdown", "wake",
                 "join_console", "exited", "crashed"}

\* The order in which EngineLauncher::run and the destructors stop things: who
\* has been told to stop, and who can therefore no longer log.
StopOrder ==
    /\ main # "join_threads" => \A t \in Threads : t_pc[t] = "done"
    /\ ~counters => main \notin {"join_threads", "release"}
    /\ ~m_logging_running => main \notin {"join_threads", "release", "destroy_worker"}
    /\ ~m_running => main \in {"wake", "join_console", "exited", "crashed"}
    /\ main \in {"shutdown", "wake", "join_console", "exited"} => f_pc = "ended"
    /\ main = "exited" => l_pc = "ended"

\* The file log: nothing accepted is lost or reordered, and its thread leaves
\* only after it was told to and with the queue empty.
FileLog ==
    /\ file \o m_log_queue = accepted
    /\ f_pc \in {"test_empty", "ended"} => ~m_logging_running
    /\ f_pc = "ended" => m_log_queue = <<>>

\* The logger thread is past its loop only after it was told to stop, and
\* after its drain only the wake-up message of shutdown() can be queued.
ConsoleStop ==
    /\ l_pc \in {"test_empty", "recheck_empty", "drain", "final_draw", "ended"} => ~m_running
    /\ l_pc \in {"final_draw", "ended"} => \A i \in 1..Len(m_queue) : m_queue[i] = Dummy

Holds(s, m) == \E i \in 1..Len(s) : s[i] = m

\* Every line begun is on the console, queued, blank, or about to be pushed by
\* its thread ...
LinesKept ==
    \A t \in Threads : \A k \in 1..lines[t] :
        \/ k \in BlankLines
        \/ k = lines[t] /\ t_pc[t] = "push"
        \/ Holds(printed, <<t, k>>) \/ Holds(m_queue, <<t, k>>)

\* ... and nothing else is on the console or queued: m is a line already pushed.
Pushed(m) == m = Dummy \/ \E t \in Threads : \E k \in 1..lines[t] :
                            m = <<t, k>> /\ (t_pc[t] = "push" => k < lines[t])
OnlyLines ==
    /\ \A i \in 1..Len(printed) : Pushed(printed[i])
    /\ \A i \in 1..Len(m_queue) : Pushed(m_queue[i])

\* The lines of a thread are in its order on the console, in the queue, and
\* from the one to the other.
Ordered(s) == \A i, j \in 1..Len(s) : i < j => InThreadOrder(s[i], s[j])
LinesOrdered ==
    /\ Ordered(printed) /\ Ordered(m_queue)
    /\ \A i \in 1..Len(printed), j \in 1..Len(m_queue) : InThreadOrder(printed[i], m_queue[j])

\* The inductive invariant.
LoggingInv ==
    /\ LoggingType
    /\ StopOrder
    /\ FileLog
    /\ ConsoleStop
    /\ LinesKept
    /\ OnlyLines
    /\ LinesOrdered

----------------------------------------------------------------------------
USE LoggingAssumption

\* A line is not the empty message.
LEMMA LineNotDummy == \A t \in Threads, k \in Nat : <<t, k>> # Dummy /\ <<t, k>> \in Texts
BY DEF Dummy, Texts

\* What LogString pushes is a console message.
LEMMA MessageText == \A t \in Threads, k \in Nat : Message(t, k) \in Texts
BY LineNotDummy DEF Message, Texts

\* Moving the front of the queue to the end of the file keeps their sequence.
LEMMA MoveFront ==
    ASSUME NEW S, NEW s \in Seq(S), NEW q \in Seq(S), q # <<>>
    PROVE  /\ Append(s, Head(q)) \in Seq(S) /\ Tail(q) \in Seq(S)
           /\ Append(s, Head(q)) \o Tail(q) = s \o q
OBVIOUS

\* Adding at the end of the queue adds at the end of both.
LEMMA PutBack ==
    ASSUME NEW S, NEW s \in Seq(S), NEW q \in Seq(S), NEW e \in S
    PROVE  Append(q, e) \in Seq(S) /\ s \o Append(q, e) = Append(s \o q, e)
OBVIOUS

----------------------------------------------------------------------------
\* The engine starts in the invariant.
LEMMA InitLogging == Init => LoggingInv
<1> SUFFICES ASSUME Init PROVE LoggingInv
  OBVIOUS
<1> USE DEF Init
<1>1. LoggingType
  BY DEF LoggingType
<1>2. StopOrder /\ ConsoleStop
  BY DEF StopOrder, ConsoleStop
<1>3. FileLog
  BY DEF FileLog
<1>4. LinesKept /\ OnlyLines /\ LinesOrdered
  BY DEF LinesKept, OnlyLines, LinesOrdered, Ordered
<1> QED BY <1>1, <1>2, <1>3, <1>4 DEF LoggingInv

\* The engine's threads: log() with its push, file log entries, the end of run().
LEMMA ThreadsPreserve ==
    ASSUME LoggingInv, NEW t \in Threads, Log(t) \/ LogPush(t) \/ ThreadEnds(t) \/ LogEntry
    PROVE  LoggingInv'
<1> USE DEF LoggingInv
<1>1. CASE Log(t)
  <2>0. m_running
    BY <1>1 DEF Log, StopOrder, LoggingType
  <2>1. /\ t_pc[t] = "run" /\ lines' = [lines EXCEPT ![t] = @ + 1] /\ t_pc' = [t_pc EXCEPT ![t] = "push"]
        /\ UNCHANGED <<printed, m_running, m_queue, l_pc, made, accepted, fileVars, counters, main>>
    BY <1>1, <2>0 DEF Log
  <2>2. LoggingType'
    BY <2>1 DEF LoggingType, fileVars
  <2>3. StopOrder' /\ FileLog' /\ ConsoleStop' /\ LinesOrdered'
    BY <2>1 DEF StopOrder, FileLog, ConsoleStop, LinesOrdered, LoggingType, fileVars
  <2>4. LinesKept'
    <3> SUFFICES ASSUME NEW u \in Threads, NEW k \in 1..lines'[u]
                 PROVE  \/ k \in BlankLines
                        \/ k = lines'[u] /\ t_pc'[u] = "push"
                        \/ Holds(printed, <<u, k>>) \/ Holds(m_queue, <<u, k>>)
      BY <2>1 DEF LinesKept, Holds
    <3>1. CASE u = t /\ k = lines'[t]
      BY <2>1, <3>1 DEF LoggingType
    <3>2. CASE u = t /\ k # lines'[t]
      <4>1. k \in 1..lines[u] /\ t_pc[u] # "push"
        BY <2>1, <3>2 DEF LoggingType
      <4> QED BY <4>1 DEF LinesKept
    <3>3. CASE u # t
      <4>1. k \in 1..lines[u] /\ lines'[u] = lines[u] /\ t_pc'[u] = t_pc[u]
        BY <2>1, <3>3 DEF LoggingType
      <4> QED BY <4>1 DEF LinesKept
    <3> QED BY <3>1, <3>2, <3>3
  <2>5. OnlyLines'
    <3>1. ASSUME NEW m, Pushed(m) PROVE Pushed(m)'
      <4>1. CASE m = Dummy
        BY <4>1 DEF Pushed
      <4>2. ASSUME NEW u \in Threads, NEW k \in 1..lines[u], m = <<u, k>> PROVE Pushed(m)'
        <5>1. lines[u] \in Nat /\ lines'[u] \in Nat /\ lines'[u] >= lines[u]
          BY <2>1 DEF LoggingType
        <5>2. k \in 1..lines'[u]
          BY <5>1
        <5>3. t_pc'[u] = "push" => k < lines'[u]
          <6>1. CASE u = t
            BY <2>1, <5>1, <6>1 DEF LoggingType
          <6>2. CASE u # t
            <7>1. t_pc'[u] = t_pc[u] /\ lines'[u] = lines[u]
              BY <2>1, <6>2 DEF LoggingType
            <7>2. t_pc[u] = "push" => k < lines[u]
              BY <3>1, <4>2, LineNotDummy DEF Pushed
            <7> QED BY <7>1, <7>2
          <6> QED BY <6>1, <6>2
        <5> QED BY <4>2, <5>2, <5>3 DEF Pushed
      <4> QED BY <3>1, <4>1, <4>2 DEF Pushed
    <3> QED BY <2>1, <3>1 DEF OnlyLines
  <2> QED BY <2>2, <2>3, <2>4, <2>5
<1>2. CASE LogPush(t)
  <2> DEFINE m == Message(t, lines[t])
  <2>1. /\ t_pc[t] = "push" /\ m_queue' = Append(m_queue, m) /\ t_pc' = [t_pc EXCEPT ![t] = "run"]
        /\ UNCHANGED <<lines, made, accepted, m_running, l_pc, printed, fileVars, counters, main>>
    BY <1>2 DEF LogPush
  <2>2. m \in Texts /\ lines[t] \in Nat /\ m_queue \in Seq(Texts) /\ printed \in Seq(Texts)
    BY MessageText DEF LoggingType
  <2>3. /\ m_queue' \in Seq(Texts) /\ Len(m_queue') = Len(m_queue) + 1
        /\ \A i \in 1..Len(m_queue) : m_queue'[i] = m_queue[i]
        /\ m_queue'[Len(m_queue) + 1] = m
    BY <2>1, <2>2
  <2>4. m_running
    BY <2>1 DEF StopOrder, LoggingType
  <2>5. LoggingType'
    BY <2>1, <2>3 DEF LoggingType, fileVars
  <2>6. StopOrder' /\ FileLog' /\ ConsoleStop'
    BY <2>1, <2>4 DEF StopOrder, FileLog, ConsoleStop, LoggingType, fileVars
  <2>7. LinesKept'
    <3> SUFFICES ASSUME NEW u \in Threads, NEW k \in 1..lines[u], k \notin BlankLines
                 PROVE  \/ k = lines[u] /\ t_pc'[u] = "push"
                        \/ Holds(printed, <<u, k>>) \/ Holds(m_queue', <<u, k>>)
      BY <2>1 DEF LinesKept, Holds
    <3>1. CASE u = t /\ k = lines[t]
      <4>1. m = <<u, k>>
        BY <3>1 DEF Message
      <4> QED BY <2>2, <2>3, <4>1, SMTT(30) DEF Holds
    <3>2. CASE ~(u = t /\ k = lines[t])
      <4>1. (k = lines[u] /\ t_pc[u] = "push") \/ Holds(printed, <<u, k>>) \/ Holds(m_queue, <<u, k>>)
        BY DEF LinesKept
      <4>2. Holds(m_queue, <<u, k>>) => Holds(m_queue', <<u, k>>)
        BY <2>2, <2>3 DEF Holds
      <4>3. u # t => t_pc'[u] = t_pc[u]
        BY <2>1 DEF LoggingType
      <4> QED BY <3>2, <4>1, <4>2, <4>3
    <3> QED BY <3>1, <3>2
  <2>8. OnlyLines'
    <3>1. ASSUME NEW x, Pushed(x) PROVE Pushed(x)'
      BY <2>1, <3>1 DEF Pushed, LoggingType
    <3>2. Pushed(m)'
      <4>1. CASE lines[t] \in BlankLines
        <5>1. m = Dummy /\ lines' = lines
          BY <2>1, <4>1 DEF Message
        <5> QED BY <4>1, <5>1 DEF Pushed, Message
      <4>2. CASE lines[t] \notin BlankLines
        <5>1. m = <<t, lines[t]>> /\ lines'[t] = lines[t] /\ lines[t] \in 1..lines[t] /\ t_pc'[t] = "run"
          BY <2>1, <2>2, <4>2 DEF Message, LoggingType
        <5> QED BY <5>1 DEF Pushed
      <4> QED BY <4>1, <4>2
    <3> QED BY <2>1, <2>2, <2>3, <3>1, <3>2 DEF OnlyLines
  <2>9. LinesOrdered'
    <3>1. ASSUME NEW x, Pushed(x) PROVE InThreadOrder(x, m)
      BY <2>1, <2>2, <3>1 DEF Pushed, InThreadOrder, Message, LoggingType
    <3>2. Ordered(m_queue')
      BY <2>2, <2>3, <3>1, SMTT(30) DEF Ordered, LinesOrdered, OnlyLines
    <3>3. \A i \in 1..Len(printed), j \in 1..Len(m_queue') : InThreadOrder(printed[i], m_queue'[j])
      BY <2>2, <2>3, <3>1 DEF LinesOrdered, OnlyLines
    <3> QED BY <2>1, <3>2, <3>3 DEF LinesOrdered, Ordered
  <2> QED BY <2>5, <2>6, <2>7, <2>8, <2>9
<1>3. CASE ThreadEnds(t)
  <2>1. /\ t_pc[t] = "run" /\ t_pc' = [t_pc EXCEPT ![t] = "done"]
        /\ UNCHANGED <<lines, made, accepted, consoleVars, fileVars, counters, main>>
    BY <1>3 DEF ThreadEnds
  <2>2. LoggingType' /\ StopOrder' /\ FileLog' /\ ConsoleStop'
    BY <2>1 DEF LoggingType, StopOrder, FileLog, ConsoleStop, consoleVars, fileVars
  <2>3. \A u \in Threads : t_pc'[u] = "push" <=> t_pc[u] = "push"
    BY <2>1 DEF LoggingType
  <2>4. LinesKept' /\ OnlyLines'
    BY <2>1, <2>3 DEF LinesKept, OnlyLines, Pushed, consoleVars
  <2>5. LinesOrdered'
    BY <2>1 DEF LinesOrdered, consoleVars
  <2> QED BY <2>2, <2>4, <2>5
<1>4. CASE LogEntry
  <2>0. main = "join_threads" /\ m_logging_running
    BY <1>4 DEF LogEntry, StopOrder, LoggingType
  <2>1. /\ made' \in Nat
        /\ UNCHANGED <<t_pc, lines, consoleVars, m_logging_running, f_pc, file, counters, main>>
        /\ \/ m_log_queue' = Append(m_log_queue, made') /\ accepted' = Append(accepted, made')
           \/ UNCHANGED <<m_log_queue, accepted>>
    BY <1>4 DEF LogEntry, LoggingType
  <2>2. LoggingType' /\ FileLog'
    <3>0. /\ file \in Seq(Nat) /\ m_log_queue \in Seq(Nat) /\ accepted \in Seq(Nat)
          /\ file \o m_log_queue = accepted
      BY DEF LoggingType, FileLog
    <3>1. m_log_queue' \in Seq(Nat) /\ accepted' \in Seq(Nat) /\ file \o m_log_queue' = accepted'
      <4>1. CASE m_log_queue' = Append(m_log_queue, made') /\ accepted' = Append(accepted, made')
        <5>1. PICK e \in Nat : m_log_queue' = Append(m_log_queue, e) /\ accepted' = Append(accepted, e)
          BY <2>1, <4>1
        <5>2. Append(m_log_queue, e) \in Seq(Nat) /\ file \o Append(m_log_queue, e) = Append(file \o m_log_queue, e)
          <6>1. file \in Seq(Nat) /\ m_log_queue \in Seq(Nat)
            BY <3>0
          <6> QED BY ONLY <6>1, e \in Nat, PutBack
        <5>3. Append(accepted, e) \in Seq(Nat)
          BY <3>0
        <5> QED BY <3>0, <5>1, <5>2, <5>3
      <4>2. CASE UNCHANGED <<m_log_queue, accepted>>
        BY <3>0, <4>2
      <4> QED BY <2>1, <4>1, <4>2
    <3>2. LoggingType'
      BY <2>1, <3>1 DEF LoggingType, consoleVars
    <3>3. FileLog'
      BY <2>0, <2>1, <3>1 DEF FileLog
    <3> QED BY <3>2, <3>3
  <2>4. StopOrder' /\ ConsoleStop' /\ LinesKept' /\ OnlyLines' /\ LinesOrdered'
    BY <2>1 DEF StopOrder, ConsoleStop, LinesKept, OnlyLines, Pushed, LinesOrdered, consoleVars
  <2> QED BY <2>2, <2>4
<1> QED BY <1>1, <1>2, <1>3, <1>4

\* The thread of the file log.
LEMMA FileThreadPreserves == LoggingInv /\ FileThread => LoggingInv'
<1> SUFFICES ASSUME LoggingInv, FileThread PROVE LoggingInv'
  OBVIOUS
<1> USE DEF LoggingInv
<1>1. CASE FileLoop
  <2> USE <1>1 DEF FileLoop, threadVars, consoleVars, fileVars
  <2>1. LoggingType' /\ StopOrder' /\ ConsoleStop'
    BY DEF LoggingType, StopOrder, ConsoleStop, FileLog
  <2>2. FileLog' /\ LinesKept' /\ OnlyLines' /\ LinesOrdered'
    BY DEF StopOrder, FileLog, LinesKept, OnlyLines, Pushed, LinesOrdered
  <2> QED BY <2>1, <2>2
<1>2. CASE FileTestEmpty
  <2> USE <1>2 DEF FileTestEmpty, threadVars, consoleVars, fileVars
  <2>1. LoggingType' /\ StopOrder' /\ ConsoleStop'
    BY DEF LoggingType, StopOrder, ConsoleStop, FileLog
  <2>2. FileLog' /\ LinesKept' /\ OnlyLines' /\ LinesOrdered'
    BY DEF StopOrder, FileLog, LinesKept, OnlyLines, Pushed, LinesOrdered
  <2> QED BY <2>1, <2>2
<1>3. CASE FilePop
  <2> USE <1>3 DEF FilePop, threadVars, consoleVars
  <2>1. /\ m_log_queue' \in Seq(Nat) /\ file' \in Seq(Nat)
        /\ file' \o m_log_queue' = file \o m_log_queue
    <3>0. file \in Seq(Nat) /\ m_log_queue \in Seq(Nat)
      BY DEF LoggingType
    <3>1. CASE m_log_queue = <<>>
      BY <3>0, <3>1
    <3>2. CASE m_log_queue # <<>>
      <4>1. file' = Append(file, Head(m_log_queue)) /\ m_log_queue' = Tail(m_log_queue)
        BY <3>2
      <4>2. /\ Append(file, Head(m_log_queue)) \in Seq(Nat) /\ Tail(m_log_queue) \in Seq(Nat)
            /\ Append(file, Head(m_log_queue)) \o Tail(m_log_queue) = file \o m_log_queue
        BY <3>0, <3>2, MoveFront, ZenonT(30)
      <4> HIDE <1>3
      <4> QED BY <4>1, <4>2
    <3> QED BY <3>1, <3>2
  <2>2. main \notin {"shutdown", "wake", "join_console", "exited"}
    BY DEF StopOrder
  <2>3. LoggingType' /\ StopOrder' /\ ConsoleStop'
    BY <2>1, <2>2 DEF LoggingType, StopOrder, ConsoleStop
  <2>4. FileLog'
    BY <2>1 DEF FileLog
  <2>5. LinesKept' /\ OnlyLines' /\ LinesOrdered'
    BY DEF LinesKept, OnlyLines, Pushed, LinesOrdered
  <2> QED BY <2>3, <2>4, <2>5
<1> QED BY <1>1, <1>2, <1>3 DEF FileThread

\* Printing the oldest message of the queue, or dropping it when it is empty,
\* keeps every line, adds none and keeps their order.
LEMMA PrintFrontKeeps ==
    ASSUME LoggingType, LinesKept, OnlyLines, LinesOrdered, m_queue # <<>>, PrintFront, UNCHANGED <<t_pc, lines>>
    PROVE  /\ m_queue' \in Seq(Texts) /\ printed' \in Seq(Texts)
           /\ LinesKept' /\ OnlyLines' /\ LinesOrdered'
<1> DEFINE h == Head(m_queue)
<1>1. /\ m_queue \in Seq(Texts) /\ printed \in Seq(Texts) /\ Len(m_queue) >= 1 /\ h = m_queue[1] /\ h \in Texts
      /\ m_queue' = Tail(m_queue)
  BY DEF LoggingType, PrintFront
<1>2. /\ m_queue' \in Seq(Texts) /\ Len(m_queue') = Len(m_queue) - 1
      /\ \A i \in 1..Len(m_queue') : m_queue'[i] = m_queue[i + 1]
  BY <1>1
<1>3. ASSUME NEW m, m # Dummy, Holds(m_queue, m) PROVE m = h \/ Holds(m_queue', m)
  <2>1. PICK i \in 1..Len(m_queue) : m_queue[i] = m
    BY <1>3 DEF Holds
  <2>2. CASE i = 1
    BY <1>1, <2>1, <2>2
  <2>3. CASE i # 1
    <3>1. i - 1 \in 1..Len(m_queue') /\ (i - 1) + 1 = i /\ Len(m_queue) \in Nat
      BY <1>1, <1>2, <2>3
    <3> QED BY <1>2, <2>1, <3>1 DEF Holds
  <2> QED BY <2>2, <2>3
<1>4. \A m : Pushed(m)' <=> Pushed(m)
  BY DEF Pushed
<1>5. Ordered(m_queue')
  BY <1>1, <1>2 DEF LinesOrdered, Ordered
<1>6. CASE h = Dummy
  <2>1. printed' = printed
    BY <1>6 DEF PrintFront
  <2>2. LinesKept'
    <3>1. ASSUME NEW t \in Threads, NEW k \in 1..lines[t], Holds(m_queue, <<t, k>>)
          PROVE  Holds(m_queue', <<t, k>>)
      <4>1. <<t, k>> # Dummy
        BY LineNotDummy DEF LoggingType
      <4> QED BY <1>3, <1>6, <3>1, <4>1
    <3> QED BY <2>1, <3>1 DEF LinesKept, Holds
  <2>3. OnlyLines'
    BY <1>1, <1>2, <1>4, <2>1 DEF OnlyLines
  <2>4. LinesOrdered'
    BY <1>1, <1>2, <1>5, <2>1 DEF LinesOrdered, Ordered
  <2> QED BY <1>1, <1>2, <2>1, <2>2, <2>3, <2>4
<1>7. CASE h # Dummy
  <2>1. /\ printed' \in Seq(Texts) /\ Len(printed') = Len(printed) + 1
        /\ \A i \in 1..Len(printed) : printed'[i] = printed[i]
        /\ printed'[Len(printed) + 1] = h
    BY <1>1, <1>7 DEF PrintFront
  <2>2. \A m : Holds(printed, m) => Holds(printed', m)
    BY <1>1, <2>1 DEF Holds
  <2>3. Holds(printed', h)
    BY <1>1, <2>1, SMTT(30) DEF Holds
  <2>4. LinesKept'
    <3>1. ASSUME NEW t \in Threads, NEW k \in 1..lines[t], Holds(m_queue, <<t, k>>)
          PROVE  Holds(m_queue', <<t, k>>) \/ Holds(printed', <<t, k>>)
      <4>1. <<t, k>> # Dummy
        BY LineNotDummy DEF LoggingType
      <4> QED BY <1>3, <2>3, <3>1, <4>1
    <3>2. \A t \in Threads : \A k \in 1..lines[t] :
              \/ k \in BlankLines
              \/ k = lines[t] /\ t_pc[t] = "push"
              \/ Holds(printed', <<t, k>>) \/ Holds(m_queue', <<t, k>>)
      BY <2>2, <3>1 DEF LinesKept
    <3> QED BY <3>2 DEF LinesKept, Holds
  <2>0. Len(printed) \in Nat /\ \A i \in 1..Len(printed') : i \in 1..Len(printed) \/ i = Len(printed) + 1
    BY <1>1, <2>1
  <2>5. OnlyLines'
    <3>1. \A i \in 1..Len(printed') : Pushed(printed'[i])
      BY <1>1, <2>0, <2>1 DEF OnlyLines
    <3>2. \A i \in 1..Len(m_queue') : Pushed(m_queue'[i])
      BY <1>1, <1>2 DEF OnlyLines
    <3> QED BY <3>1, <3>2 DEF OnlyLines, Pushed
  <2>6. Ordered(printed')
    <3> SUFFICES ASSUME NEW i \in 1..Len(printed'), NEW j \in 1..Len(printed'), i < j
                 PROVE  InThreadOrder(printed'[i], printed'[j])
      BY DEF Ordered
    <3>1. i \in 1..Len(printed) /\ printed'[i] = printed[i]
      BY <2>0, <2>1
    <3>2. CASE j \in 1..Len(printed)
      BY <2>1, <3>1, <3>2 DEF LinesOrdered, Ordered
    <3>3. CASE j = Len(printed) + 1
      BY <1>1, <2>1, <3>1, <3>3 DEF LinesOrdered
    <3> QED BY <2>0, <3>2, <3>3
  <2>7. \A i \in 1..Len(printed'), j \in 1..Len(m_queue') : InThreadOrder(printed'[i], m_queue'[j])
    BY <1>1, <1>2, <2>1 DEF LinesOrdered, Ordered
  <2> QED BY <1>2, <1>5, <2>1, <2>4, <2>5, <2>6, <2>7 DEF LinesOrdered, Ordered
<1> QED BY <1>6, <1>7

\* The thread of the console logger.
LEMMA ConsoleThreadPreserves == LoggingInv /\ ConsoleThread => LoggingInv'
<1> SUFFICES ASSUME LoggingInv, ConsoleThread PROVE LoggingInv'
  OBVIOUS
<1> USE DEF LoggingInv
<1>1. CASE ConsoleLoop
  <2> USE <1>1 DEF ConsoleLoop, threadVars, consoleVars, fileVars
  <2>1. LoggingType' /\ StopOrder' /\ ConsoleStop'
    BY DEF LoggingType, StopOrder, ConsoleStop, FileLog
  <2>2. FileLog' /\ LinesKept' /\ OnlyLines' /\ LinesOrdered'
    BY DEF StopOrder, FileLog, LinesKept, OnlyLines, Pushed, LinesOrdered
  <2> QED BY <2>1, <2>2
<1>2. CASE ConsoleTestEmpty
  <2> USE <1>2 DEF ConsoleTestEmpty, threadVars, consoleVars, fileVars
  <2>1. LoggingType' /\ StopOrder' /\ ConsoleStop'
    BY DEF LoggingType, StopOrder, ConsoleStop, FileLog
  <2>2. FileLog' /\ LinesKept' /\ OnlyLines' /\ LinesOrdered'
    BY DEF StopOrder, FileLog, LinesKept, OnlyLines, Pushed, LinesOrdered
  <2> QED BY <2>1, <2>2
<1>3. CASE ConsolePop
  <2>0. /\ l_pc = "pop" /\ l_pc' \in {"recheck", "draw"}
        /\ UNCHANGED <<threadVars, m_running, fileVars, counters, main>>
    BY <1>3 DEF ConsolePop
  <2>1. m_queue' \in Seq(Texts) /\ printed' \in Seq(Texts) /\ LinesKept' /\ OnlyLines' /\ LinesOrdered'
    <3>1. CASE m_queue = <<>>
      BY <1>3, <2>0, <3>1 DEF ConsolePop, LoggingType, LinesKept, OnlyLines, Pushed, LinesOrdered, threadVars
    <3>2. CASE m_queue # <<>>
      BY <1>3, <2>0, <3>2, PrintFrontKeeps DEF ConsolePop, threadVars
    <3> QED BY <3>1, <3>2
  <2>2. LoggingType' /\ StopOrder' /\ ConsoleStop' /\ FileLog'
    BY <2>0, <2>1 DEF LoggingType, StopOrder, ConsoleStop, FileLog, threadVars, fileVars
  <2> QED BY <2>1, <2>2
<1>4. CASE ConsoleRecheck
  <2> USE <1>4 DEF ConsoleRecheck, threadVars, consoleVars, fileVars
  <2>1. LoggingType' /\ StopOrder' /\ ConsoleStop'
    BY DEF LoggingType, StopOrder, ConsoleStop, FileLog
  <2>2. FileLog' /\ LinesKept' /\ OnlyLines' /\ LinesOrdered'
    BY DEF StopOrder, FileLog, LinesKept, OnlyLines, Pushed, LinesOrdered
  <2> QED BY <2>1, <2>2
<1>5. CASE ConsoleRecheckEmpty
  <2> USE <1>5 DEF ConsoleRecheckEmpty, threadVars, consoleVars, fileVars
  <2>1. LoggingType' /\ StopOrder' /\ ConsoleStop'
    BY DEF LoggingType, StopOrder, ConsoleStop, FileLog
  <2>2. FileLog' /\ LinesKept' /\ OnlyLines' /\ LinesOrdered'
    BY DEF StopOrder, FileLog, LinesKept, OnlyLines, Pushed, LinesOrdered
  <2> QED BY <2>1, <2>2
<1>6. CASE ConsoleDraw
  <2> USE <1>6 DEF ConsoleDraw, threadVars, consoleVars, fileVars
  <2>1. LoggingType' /\ StopOrder' /\ ConsoleStop'
    BY DEF LoggingType, StopOrder, ConsoleStop, FileLog
  <2>2. FileLog' /\ LinesKept' /\ OnlyLines' /\ LinesOrdered'
    BY DEF StopOrder, FileLog, LinesKept, OnlyLines, Pushed, LinesOrdered
  <2> QED BY <2>1, <2>2
<1>7. CASE ConsoleReadsUnmapped
  <2> USE <1>7 DEF ConsoleReadsUnmapped, threadVars, consoleVars, fileVars
  <2>1. LoggingType' /\ StopOrder' /\ ConsoleStop'
    BY DEF LoggingType, StopOrder, ConsoleStop
  <2>2. FileLog' /\ LinesKept' /\ OnlyLines' /\ LinesOrdered'
    BY DEF FileLog, LinesKept, OnlyLines, Pushed, LinesOrdered
  <2> QED BY <2>1, <2>2
<1>8. CASE ConsoleDrain
  <2>0. /\ l_pc = "drain" /\ l_pc' \in {"drain", "final_draw"}
        /\ l_pc' = "final_draw" => m_queue' = <<>>
        /\ UNCHANGED <<threadVars, m_running, fileVars, counters, main>>
    BY <1>8 DEF ConsoleDrain
  <2>1. m_queue' \in Seq(Texts) /\ printed' \in Seq(Texts) /\ LinesKept' /\ OnlyLines' /\ LinesOrdered'
    <3>1. CASE m_queue = <<>>
      BY <1>8, <2>0, <3>1 DEF ConsoleDrain, LoggingType, LinesKept, OnlyLines, Pushed, LinesOrdered, threadVars
    <3>2. CASE m_queue # <<>>
      BY <1>8, <2>0, <3>2, PrintFrontKeeps DEF ConsoleDrain, threadVars
    <3> QED BY <3>1, <3>2
  <2>2. LoggingType' /\ StopOrder' /\ FileLog'
    BY <2>0, <2>1 DEF LoggingType, StopOrder, FileLog, threadVars, fileVars
  <2>3. ConsoleStop'
    BY <2>0 DEF ConsoleStop
  <2> QED BY <2>1, <2>2, <2>3
<1> QED BY <1>1, <1>2, <1>3, <1>4, <1>5, <1>6, <1>7, <1>8 DEF ConsoleThread

\* The launcher: the joins, the release of the shared memory, the destructors.
LEMMA MainPreserves == LoggingInv /\ Main => LoggingInv'
<1> SUFFICES ASSUME LoggingInv, Main PROVE LoggingInv'
  OBVIOUS
<1> USE DEF LoggingInv
<1>1. CASE JoinThreads
  <2> USE <1>1 DEF JoinThreads, threadVars, consoleVars, fileVars
  <2>1. LoggingType' /\ StopOrder' /\ ConsoleStop'
    BY DEF LoggingType, StopOrder, ConsoleStop, FileLog
  <2>2. FileLog' /\ LinesKept' /\ OnlyLines' /\ LinesOrdered'
    BY DEF StopOrder, FileLog, LinesKept, OnlyLines, Pushed, LinesOrdered
  <2> QED BY <2>1, <2>2
<1>2. CASE ReleaseShared
  <2> USE <1>2 DEF ReleaseShared, threadVars, consoleVars, fileVars
  <2>1. LoggingType' /\ StopOrder' /\ ConsoleStop'
    BY DEF LoggingType, StopOrder, ConsoleStop, FileLog
  <2>2. FileLog' /\ LinesKept' /\ OnlyLines' /\ LinesOrdered'
    BY DEF StopOrder, FileLog, LinesKept, OnlyLines, Pushed, LinesOrdered
  <2> QED BY <2>1, <2>2
<1>3. CASE StopFileLog
  <2> USE <1>3 DEF StopFileLog, threadVars, consoleVars, fileVars
  <2>1. LoggingType' /\ StopOrder' /\ ConsoleStop'
    BY DEF LoggingType, StopOrder, ConsoleStop, FileLog
  <2>2. FileLog' /\ LinesKept' /\ OnlyLines' /\ LinesOrdered'
    BY DEF StopOrder, FileLog, LinesKept, OnlyLines, Pushed, LinesOrdered
  <2> QED BY <2>1, <2>2
<1>4. CASE JoinFileLog
  <2> USE <1>4 DEF JoinFileLog, threadVars, consoleVars, fileVars
  <2>1. LoggingType' /\ StopOrder' /\ ConsoleStop'
    BY DEF LoggingType, StopOrder, ConsoleStop, FileLog
  <2>2. FileLog' /\ LinesKept' /\ OnlyLines' /\ LinesOrdered'
    BY DEF StopOrder, FileLog, LinesKept, OnlyLines, Pushed, LinesOrdered
  <2> QED BY <2>1, <2>2
<1>5. CASE ShutdownStop
  <2> USE <1>5 DEF ShutdownStop, threadVars, consoleVars, fileVars
  <2>1. LoggingType' /\ StopOrder' /\ ConsoleStop'
    BY DEF LoggingType, StopOrder, ConsoleStop, FileLog
  <2>2. FileLog' /\ LinesKept' /\ OnlyLines' /\ LinesOrdered'
    BY DEF StopOrder, FileLog, LinesKept, OnlyLines, Pushed, LinesOrdered
  <2> QED BY <2>1, <2>2
<1>6. CASE ShutdownWake
  <2> USE <1>6 DEF ShutdownWake, threadVars, fileVars
  <2>1. m_queue \in Seq(Texts) /\ Dummy \in Texts
    BY DEF LoggingType, Texts
  <2>2. /\ m_queue' \in Seq(Texts) /\ Len(m_queue') = Len(m_queue) + 1
        /\ \A i \in 1..Len(m_queue) : m_queue'[i] = m_queue[i]
        /\ m_queue'[Len(m_queue) + 1] = Dummy
    BY <2>1
  <2>3. LoggingType' /\ StopOrder' /\ FileLog'
    BY <2>2 DEF LoggingType, StopOrder, FileLog
  <2>4. ConsoleStop'
    BY <2>1, <2>2 DEF ConsoleStop
  <2>5. LinesKept'
    <3>1. \A m : Holds(m_queue, m) => Holds(m_queue', m)
      BY <2>1, <2>2 DEF Holds
    <3> QED BY <3>1 DEF LinesKept, Holds
  <2>6. OnlyLines'
    BY <2>1, <2>2 DEF OnlyLines, Pushed
  <2>7. LinesOrdered'
    <3>1. \A m : InThreadOrder(m, Dummy)
      BY DEF InThreadOrder
    <3> QED BY <2>1, <2>2, <3>1 DEF LinesOrdered, Ordered
  <2> QED BY <2>3, <2>4, <2>5, <2>6, <2>7
<1>7. CASE JoinConsole
  <2> USE <1>7 DEF JoinConsole, threadVars, consoleVars, fileVars
  <2>1. LoggingType' /\ StopOrder' /\ ConsoleStop'
    BY DEF LoggingType, StopOrder, ConsoleStop, FileLog
  <2>2. FileLog' /\ LinesKept' /\ OnlyLines' /\ LinesOrdered'
    BY DEF StopOrder, FileLog, LinesKept, OnlyLines, Pushed, LinesOrdered
  <2> QED BY <2>1, <2>2
<1> QED BY <1>1, <1>2, <1>3, <1>4, <1>5, <1>6, <1>7 DEF Main

\* The invariant holds in every reachable state of every instance.
THEOREM LoggingInvariance == Spec => []LoggingInv
<1>1. LoggingInv /\ [Next]_vars => LoggingInv'
  <2> SUFFICES ASSUME LoggingInv, [Next]_vars PROVE LoggingInv'
    OBVIOUS
  <2>1. CASE UNCHANGED vars
    <3> USE <2>1 DEF LoggingInv, vars, threadVars, consoleVars, fileVars
    <3>1. LoggingType' /\ StopOrder' /\ FileLog' /\ ConsoleStop'
      BY SMTT(30) DEF LoggingType, StopOrder, FileLog, ConsoleStop
    <3>2. LinesKept' /\ OnlyLines' /\ LinesOrdered'
      BY DEF LinesKept, OnlyLines, Pushed, LinesOrdered
    <3> QED BY <3>1, <3>2
  <2> QED BY <2>1, ThreadsPreserve, FileThreadPreserves, ConsoleThreadPreserves, MainPreserves
          DEF Next, Stay
<1> QED BY InitLogging, <1>1, PTL DEF Spec

----------------------------------------------------------------------------
\* The destructor of the worker never cuts off a queued entry of the log file,
\* for every queue size and number of entries.
THEOREM FileLogComplete == Spec => []FileComplete
<1>1. LoggingInv => FileComplete
  <2> SUFFICES ASSUME LoggingInv, main \in {"shutdown", "wake", "join_console", "exited"}
               PROVE  file = accepted
    BY DEF FileComplete
  <2>1. m_log_queue = <<>> /\ file \o m_log_queue = accepted /\ file \in Seq(Nat)
    BY DEF LoggingInv, LoggingType, StopOrder, FileLog
  <2> QED BY <2>1
<1> QED BY LoggingInvariance, <1>1, PTL

\* A process that has exited has printed every line of every thread once and
\* in order, for every number of threads and lines.
THEOREM ConsoleLogComplete == Spec => []ConsoleComplete
<1>1. LoggingInv => ConsoleComplete
  <2> SUFFICES ASSUME LoggingInv, main = "exited" PROVE ConsoleComplete
    BY DEF ConsoleComplete
  <2>1. (\A t \in Threads : t_pc[t] = "done") /\ \A i \in 1..Len(m_queue) : m_queue[i] = Dummy
    BY DEF LoggingInv, StopOrder, ConsoleStop
  <2>2. \A t \in Threads : \A k \in 1..lines[t] : k \notin BlankLines => Holds(printed, <<t, k>>)
    <3> SUFFICES ASSUME NEW t \in Threads, NEW k \in 1..lines[t], k \notin BlankLines
                 PROVE  Holds(printed, <<t, k>>)
      OBVIOUS
    <3>1. <<t, k>> # Dummy
      BY LineNotDummy DEF LoggingInv, LoggingType
    <3>2. ~Holds(m_queue, <<t, k>>)
      BY <2>1, <3>1 DEF Holds
    <3> QED BY <2>1, <3>2 DEF LoggingInv, LinesKept
  <2>3. \A i, j \in 1..Len(printed) : i < j => InThreadOrder(printed[i], printed[j])
    BY DEF LoggingInv, LinesOrdered, Ordered
  <2>4. \A i \in 1..Len(printed) : printed[i] = Dummy \/
            \E t \in Threads : \E k \in 1..lines[t] : printed[i] = <<t, k>>
    BY DEF LoggingInv, OnlyLines, Pushed
  <2> QED BY <2>2, <2>3, <2>4 DEF ConsoleComplete, Holds
<1> QED BY LoggingInvariance, <1>1, PTL
=============================================================================
