----------------------- MODULE EngineLifecycle_proofs -----------------------
(***************************************************************************)
(* Proofs about EngineLifecycle for every dataset, queue, batch and idle   *)
(* limit, every set of setups, with and without signals and failures.      *)
(***************************************************************************)
EXTENDS EngineLifecycle, TLAPS

\* Neither the user nor a failed receiver has told the engine to stop.
Undisturbed == ~g_user_stopped /\ consumer # "failed"

LifecycleType ==
    /\ setup \in Kinds \X Modes
    /\ g_running \in BOOLEAN /\ g_producer_done \in BOOLEAN
    /\ g_consumer_done \in BOOLEAN /\ g_user_stopped \in BOOLEAN
    /\ launcher \in {"join_producer", "join_consumer", "join_worker", "join_monitor", "exited", "crashed"}
    /\ producer \in {"start", "send", "put", "finish", "done"}
    /\ consumer \in {"start", "loop", "push", "cleanup", "flag", "done", "failed"}
    /\ worker \in {"loop", "batch", "end", "done"}
    /\ monitor \in {"start", "loop", "done"}
    /\ injected \in Nat /\ wire \in Nat /\ rcvd \in Nat
    /\ queue \in Nat /\ batch \in Nat /\ handled \in Nat /\ processed \in Nat
    /\ final_row \in Nat \cup {NoRow}
    /\ consumer = "push" => rcvd >= 1
    /\ worker = "batch" => batch >= 1

\* What the launcher's joins and the three flags say about the threads: who is
\* still running may be read off them, and while nobody disturbs the engine
\* g_running falls only once the worker has left.
FlagsTruthful ==
    /\ launcher \in {"join_consumer", "join_worker", "join_monitor", "exited"} => producer = "done"
    /\ launcher \in {"join_monitor", "exited"} => worker = "done"
    /\ g_producer_done <=> producer = "done"
    /\ g_consumer_done => producer = "done" \/ consumer = "done"
    /\ consumer \in {"cleanup", "flag", "done"} => producer = "done" \/ ~g_running
    /\ Undisturbed /\ ~g_running => worker = "done"

\* The monitor's last sample was taken after the worker's last count.
LastSample ==
    /\ final_row # NoRow => ~g_running
    /\ final_row # NoRow /\ Undisturbed => final_row = processed

\* Direct mode, while the worker runs: what was injected is queued, popped or
\* handled, and only a disturbance may have cut a message off.
DirectRunning ==
    worker \in {"loop", "batch"} =>
        /\ worker = "loop" <=> batch = 0
        /\ handled + batch + queue <= injected
        /\ Undisturbed => handled + batch + queue = injected
        /\ Undisturbed /\ producer \in {"finish", "done"} => injected = Messages

\* Direct mode, the three ways the worker leaves: it found the queue drained
\* after the producer was done; it was stopped with an empty queue, and the
\* producer may still finish the push it was in; or it counted the last
\* message.
Drained ==
    /\ batch = 0 /\ queue = 0 /\ producer = "done"
    /\ Undisturbed => handled = Messages
Stopped ==
    /\ batch = 0 /\ queue <= 1 /\ (producer = "put" => queue = 0)
    /\ ~g_running /\ ~Undisturbed
CountedAll ==
    /\ batch = 1 /\ queue = 0 /\ handled = Messages /\ injected = Messages

DirectFeed ==
    Mode = "direct" =>
        /\ wire = 0 /\ rcvd = 0 /\ consumer # "push"
        /\ injected <= Messages /\ (producer = "put" => injected < Messages)
        /\ processed <= handled
        /\ DirectRunning
        /\ worker \in {"end", "done"} => Drained \/ Stopped \/ CountedAll

\* The inductive invariant.
LifecycleInv == LifecycleType /\ FlagsTruthful /\ LastSample /\ DirectFeed

----------------------------------------------------------------------------
USE LifecycleAssumption

\* Every run starts in the invariant.
LEMMA InitLifecycle == Init => LifecycleInv
<1> SUFFICES ASSUME Init PROVE LifecycleInv
  OBVIOUS
<1> USE DEF Init
<1>1. LifecycleType
  BY DEF LifecycleType, NoRow
<1>2. FlagsTruthful /\ LastSample
  BY DEF FlagsTruthful, LastSample, Undisturbed
<1>3. DirectFeed
  BY DEF DirectFeed, DirectRunning
<1> QED BY <1>1, <1>2, <1>3 DEF LifecycleInv

\* Every step of every thread preserves it.
LEMMA StepLifecycle == LifecycleInv /\ [Next]_vars => LifecycleInv'
<1> SUFFICES ASSUME LifecycleInv, [Next]_vars PROVE LifecycleInv'
  OBVIOUS
<1> USE DEF LifecycleInv, flags
<1>1. CASE JoinProducer
  <2> USE <1>1 DEF JoinProducer
  <2>1. LifecycleType'
    BY DEF LifecycleType
  <2>2. FlagsTruthful'
    BY DEF LifecycleType, FlagsTruthful, Undisturbed
  <2>3. LastSample'
    BY DEF LifecycleType, FlagsTruthful, LastSample, Undisturbed, NoRow
  <2>4. DirectFeed'
    BY DEF LifecycleType, FlagsTruthful, DirectFeed, DirectRunning, Drained, Stopped, CountedAll, Undisturbed, Mode
  <2> QED BY <2>1, <2>2, <2>3, <2>4
<1>2. CASE JoinConsumer
  <2> USE <1>2 DEF JoinConsumer
  <2>1. LifecycleType'
    BY DEF LifecycleType
  <2>2. FlagsTruthful'
    BY DEF LifecycleType, FlagsTruthful, Undisturbed
  <2>3. LastSample'
    BY DEF LifecycleType, FlagsTruthful, LastSample, Undisturbed, NoRow
  <2>4. DirectFeed'
    BY DEF LifecycleType, FlagsTruthful, DirectFeed, DirectRunning, Drained, Stopped, CountedAll, Undisturbed, Mode
  <2> QED BY <2>1, <2>2, <2>3, <2>4
<1>3. CASE JoinWorker
  <2> USE <1>3 DEF JoinWorker
  <2>1. LifecycleType'
    BY ZenonT(30) DEF LifecycleType
  <2>2. FlagsTruthful'
    BY DEF LifecycleType, FlagsTruthful, Undisturbed
  <2>3. LastSample'
    BY DEF LifecycleType, FlagsTruthful, LastSample, Undisturbed, NoRow
  <2>4. DirectFeed'
    BY DEF LifecycleType, FlagsTruthful, DirectFeed, DirectRunning, Drained, Stopped, CountedAll, Undisturbed, Mode
  <2> QED BY <2>1, <2>2, <2>3, <2>4
<1>4. CASE JoinMonitor
  <2> USE <1>4 DEF JoinMonitor
  <2>1. LifecycleType'
    BY DEF LifecycleType
  <2>2. FlagsTruthful'
    BY DEF LifecycleType, FlagsTruthful, Undisturbed
  <2>3. LastSample'
    BY DEF LifecycleType, FlagsTruthful, LastSample, Undisturbed, NoRow
  <2>4. DirectFeed'
    BY DEF LifecycleType, FlagsTruthful, DirectFeed, DirectRunning, Drained, Stopped, CountedAll, Undisturbed, Mode
  <2> QED BY <2>1, <2>2, <2>3, <2>4
<1>5. CASE HandleSignal
  <2> USE <1>5 DEF HandleSignal
  <2>1. LifecycleType'
    <3>1. g_running' \in BOOLEAN /\ g_user_stopped' \in BOOLEAN
      OBVIOUS
    <3> QED BY <3>1 DEF LifecycleType
  <2>2. FlagsTruthful'
    BY DEF LifecycleType, FlagsTruthful, Undisturbed
  <2>3. LastSample'
    BY DEF LifecycleType, FlagsTruthful, LastSample, Undisturbed, NoRow
  <2>4. DirectFeed'
    BY DEF LifecycleType, FlagsTruthful, DirectFeed, DirectRunning, Drained, Stopped, CountedAll, Undisturbed, Mode
  <2> QED BY <2>1, <2>2, <2>3, <2>4
<1>6. CASE ProducerStart
  <2> USE <1>6 DEF ProducerStart
  <2>1. LifecycleType'
    BY DEF LifecycleType
  <2>2. FlagsTruthful'
    BY DEF LifecycleType, FlagsTruthful, Undisturbed
  <2>3. LastSample'
    BY DEF LifecycleType, FlagsTruthful, LastSample, Undisturbed, NoRow
  <2>4. DirectFeed'
    BY DEF LifecycleType, FlagsTruthful, DirectFeed, DirectRunning, Drained, Stopped, CountedAll, Undisturbed, Mode
  <2> QED BY <2>1, <2>2, <2>3, <2>4
<1>7. CASE ProducerCheck
  <2> USE <1>7 DEF ProducerCheck
  <2>1. LifecycleType'
    BY DEF LifecycleType
  <2>2. FlagsTruthful'
    BY DEF LifecycleType, FlagsTruthful, Undisturbed
  <2>3. LastSample'
    BY DEF LifecycleType, FlagsTruthful, LastSample, Undisturbed, NoRow
  <2>4. DirectFeed'
    BY DEF LifecycleType, FlagsTruthful, DirectFeed, DirectRunning, Drained, Stopped, CountedAll, Undisturbed, Mode
  <2> QED BY <2>1, <2>2, <2>3, <2>4
<1>8. CASE DirectPush
  <2> USE <1>8 DEF DirectPush
  <2>1. LifecycleType'
    BY DEF LifecycleType
  <2>2. FlagsTruthful'
    BY DEF LifecycleType, FlagsTruthful, Undisturbed
  <2>3. LastSample'
    BY DEF LifecycleType, FlagsTruthful, LastSample, Undisturbed, NoRow
  <2>4. DirectFeed'
    BY DEF LifecycleType, FlagsTruthful, DirectFeed, DirectRunning, Drained, Stopped, CountedAll, Undisturbed, Mode
  <2> QED BY <2>1, <2>2, <2>3, <2>4
<1>9. CASE SendTo
  <2> USE <1>9 DEF SendTo
  <2>1. LifecycleType'
    BY DEF LifecycleType
  <2>2. FlagsTruthful'
    BY DEF LifecycleType, FlagsTruthful, Undisturbed
  <2>3. LastSample'
    BY DEF LifecycleType, FlagsTruthful, LastSample, Undisturbed, NoRow
  <2>4. DirectFeed'
    BY DEF LifecycleType, FlagsTruthful, DirectFeed, DirectRunning, Drained, Stopped, CountedAll, Undisturbed, Mode
  <2> QED BY <2>1, <2>2, <2>3, <2>4
<1>10. CASE ProducerFinish
  <2> USE <1>10 DEF ProducerFinish
  <2>1. LifecycleType'
    BY DEF LifecycleType
  <2>2. FlagsTruthful'
    BY DEF LifecycleType, FlagsTruthful, Undisturbed
  <2>3. LastSample'
    BY DEF LifecycleType, FlagsTruthful, LastSample, Undisturbed, NoRow
  <2>4. DirectFeed'
    BY DEF LifecycleType, FlagsTruthful, DirectFeed, DirectRunning, Drained, Stopped, CountedAll, Undisturbed, Mode
  <2> QED BY <2>1, <2>2, <2>3, <2>4
<1>11. CASE ConsumerInit
  <2> USE <1>11 DEF ConsumerInit
  <2>1. LifecycleType'
    BY DEF LifecycleType
  <2>2. FlagsTruthful'
    BY DEF LifecycleType, FlagsTruthful, Undisturbed
  <2>3. LastSample'
    BY DEF LifecycleType, FlagsTruthful, LastSample, Undisturbed, NoRow
  <2>4. DirectFeed'
    BY DEF LifecycleType, FlagsTruthful, DirectFeed, DirectRunning, Drained, Stopped, CountedAll, Undisturbed, Mode
  <2> QED BY <2>1, <2>2, <2>3, <2>4
<1>12. CASE ConsumerInitFails
  <2> USE <1>12 DEF ConsumerInitFails
  <2>1. LifecycleType'
    <3>1. g_running' \in BOOLEAN /\ consumer' = "failed"
      OBVIOUS
    <3> QED BY <3>1 DEF LifecycleType
  <2>2. FlagsTruthful'
    BY DEF LifecycleType, FlagsTruthful, Undisturbed
  <2>3. LastSample'
    BY DEF LifecycleType, FlagsTruthful, LastSample, Undisturbed, NoRow
  <2>4. DirectFeed'
    BY DEF LifecycleType, FlagsTruthful, DirectFeed, DirectRunning, Drained, Stopped, CountedAll, Undisturbed, Mode
  <2> QED BY <2>1, <2>2, <2>3, <2>4
<1>13. CASE ConsumerTake
  <2> USE <1>13 DEF ConsumerTake
  <2>1. LifecycleType'
    <3>1. rcvd' \in 1..RxBatch \/ rcvd' \in 1..1
      BY Zenon
    <3>2. wire \in Nat /\ wire' = wire - rcvd' /\ rcvd' <= wire
      BY DEF LifecycleType
    <3>3. /\ consumer' = "push"
          /\ UNCHANGED <<setup, flags, launcher, producer, worker, monitor, injected,
                         queue, batch, handled, processed, final_row>>
      OBVIOUS
    <3> HIDE <1>13
    <3>4. rcvd' \in Nat /\ rcvd' >= 1 /\ wire' \in Nat
      BY <3>1, <3>2
    <3> QED BY <3>3, <3>4 DEF LifecycleType
  <2>2. FlagsTruthful'
    BY DEF LifecycleType, FlagsTruthful, Undisturbed
  <2>3. LastSample'
    BY DEF LifecycleType, FlagsTruthful, LastSample, Undisturbed, NoRow
  <2>4. DirectFeed'
    BY DEF LifecycleType, FlagsTruthful, DirectFeed, DirectRunning, Drained, Stopped, CountedAll, Undisturbed, Mode
  <2> QED BY <2>1, <2>2, <2>3, <2>4
<1>14. CASE ConsumerIdle
  <2> USE <1>14 DEF ConsumerIdle
  <2>1. LifecycleType'
    BY DEF LifecycleType
  <2>2. FlagsTruthful'
    BY DEF LifecycleType, FlagsTruthful, Undisturbed
  <2>3. LastSample'
    BY DEF LifecycleType, FlagsTruthful, LastSample, Undisturbed, NoRow
  <2>4. DirectFeed'
    BY DEF LifecycleType, FlagsTruthful, DirectFeed, DirectRunning, Drained, Stopped, CountedAll, Undisturbed, Mode
  <2> QED BY <2>1, <2>2, <2>3, <2>4
<1>15. CASE ConsumerStops
  <2> USE <1>15 DEF ConsumerStops
  <2>1. LifecycleType'
    BY DEF LifecycleType
  <2>2. FlagsTruthful'
    BY DEF LifecycleType, FlagsTruthful, Undisturbed
  <2>3. LastSample'
    BY DEF LifecycleType, FlagsTruthful, LastSample, Undisturbed, NoRow
  <2>4. DirectFeed'
    BY DEF LifecycleType, FlagsTruthful, DirectFeed, DirectRunning, Drained, Stopped, CountedAll, Undisturbed, Mode
  <2> QED BY <2>1, <2>2, <2>3, <2>4
<1>16. CASE ConsumerPush
  <2> USE <1>16 DEF ConsumerPush
  <2>1. LifecycleType'
    BY DEF LifecycleType
  <2>2. FlagsTruthful'
    BY DEF LifecycleType, FlagsTruthful, Undisturbed
  <2>3. LastSample'
    BY DEF LifecycleType, FlagsTruthful, LastSample, Undisturbed, NoRow
  <2>4. DirectFeed'
    BY DEF LifecycleType, FlagsTruthful, DirectFeed, DirectRunning, Drained, Stopped, CountedAll, Undisturbed, Mode
  <2> QED BY <2>1, <2>2, <2>3, <2>4
<1>17. CASE ConsumerCleanup
  <2> USE <1>17 DEF ConsumerCleanup
  <2>1. LifecycleType'
    BY DEF LifecycleType
  <2>2. FlagsTruthful'
    BY DEF LifecycleType, FlagsTruthful, Undisturbed
  <2>3. LastSample'
    BY DEF LifecycleType, FlagsTruthful, LastSample, Undisturbed, NoRow
  <2>4. DirectFeed'
    BY DEF LifecycleType, FlagsTruthful, DirectFeed, DirectRunning, Drained, Stopped, CountedAll, Undisturbed, Mode
  <2> QED BY <2>1, <2>2, <2>3, <2>4
<1>18. CASE ConsumerFlags
  <2> USE <1>18 DEF ConsumerFlags
  <2>1. LifecycleType'
    BY DEF LifecycleType
  <2>2. FlagsTruthful'
    BY DEF LifecycleType, FlagsTruthful, Undisturbed
  <2>3. LastSample'
    BY DEF LifecycleType, FlagsTruthful, LastSample, Undisturbed, NoRow
  <2>4. DirectFeed'
    BY DEF LifecycleType, FlagsTruthful, DirectFeed, DirectRunning, Drained, Stopped, CountedAll, Undisturbed, Mode
  <2> QED BY <2>1, <2>2, <2>3, <2>4
<1>19. ASSUME NEW n \in 1..BatchMax, WorkerPop(n) PROVE LifecycleInv'
  <2> USE <1>19 DEF WorkerPop
  <2>1. LifecycleType'
    BY DEF LifecycleType
  <2>2. FlagsTruthful'
    BY DEF LifecycleType, FlagsTruthful, Undisturbed
  <2>3. LastSample'
    BY DEF LifecycleType, FlagsTruthful, LastSample, Undisturbed, NoRow
  <2>4. DirectFeed'
    BY DEF LifecycleType, FlagsTruthful, DirectFeed, DirectRunning, Drained, Stopped, CountedAll, Undisturbed, Mode
  <2> QED BY <2>1, <2>2, <2>3, <2>4
<1>20. ASSUME NEW duplicate \in BOOLEAN, WorkerHandle(duplicate) PROVE LifecycleInv'
  <2> USE <1>20 DEF WorkerHandle
  <2>1. LifecycleType'
    BY DEF LifecycleType
  <2>2. FlagsTruthful'
    BY DEF LifecycleType, FlagsTruthful, Undisturbed
  <2>3. LastSample'
    BY DEF LifecycleType, FlagsTruthful, LastSample, Undisturbed, NoRow
  <2>4. DirectFeed'
    BY DEF LifecycleType, FlagsTruthful, DirectFeed, DirectRunning, Drained, Stopped, CountedAll, Undisturbed, Mode
  <2> QED BY <2>1, <2>2, <2>3, <2>4
<1>21. CASE WorkerReadsUnmapped
  <2> USE <1>21 DEF WorkerReadsUnmapped
  <2>1. LifecycleType'
    BY DEF LifecycleType
  <2>2. FlagsTruthful'
    BY DEF LifecycleType, FlagsTruthful, Undisturbed
  <2>3. LastSample'
    BY DEF LifecycleType, FlagsTruthful, LastSample, Undisturbed, NoRow
  <2>4. DirectFeed'
    BY DEF LifecycleType, FlagsTruthful, DirectFeed, DirectRunning, Drained, Stopped, CountedAll, Undisturbed, Mode
  <2> QED BY <2>1, <2>2, <2>3, <2>4
<1>22. CASE WorkerDrained
  <2> USE <1>22 DEF WorkerDrained
  <2>1. LifecycleType'
    BY DEF LifecycleType
  <2>2. FlagsTruthful'
    BY DEF LifecycleType, FlagsTruthful, Undisturbed
  <2>3. LastSample'
    BY DEF LifecycleType, FlagsTruthful, LastSample, Undisturbed, NoRow
  <2>4. DirectFeed'
    BY DEF LifecycleType, FlagsTruthful, DirectFeed, DirectRunning, Drained, Stopped, CountedAll, Undisturbed, Mode
  <2> QED BY <2>1, <2>2, <2>3, <2>4
<1>23. CASE WorkerStops
  <2> USE <1>23 DEF WorkerStops
  <2>1. LifecycleType'
    BY DEF LifecycleType
  <2>2. FlagsTruthful'
    BY DEF LifecycleType, FlagsTruthful, Undisturbed
  <2>3. LastSample'
    BY DEF LifecycleType, FlagsTruthful, LastSample, Undisturbed, NoRow
  <2>4. DirectFeed'
    BY DEF LifecycleType, FlagsTruthful, DirectFeed, DirectRunning, Drained, Stopped, CountedAll, Undisturbed, Mode
  <2> QED BY <2>1, <2>2, <2>3, <2>4
<1>24. CASE WorkerEnd
  <2> USE <1>24 DEF WorkerEnd
  <2>1. LifecycleType'
    <3>1. CASE Kind = "HftOrderBookEngine"
      BY <3>1 DEF LifecycleType
    <3>2. CASE Kind # "HftOrderBookEngine"
      <4>1. g_running' \in BOOLEAN
        BY <3>2
      <4>2. worker' = "done"
        OBVIOUS
      <4> QED BY <3>2, <4>1, <4>2 DEF LifecycleType
    <3> QED BY <3>1, <3>2
  <2>2. FlagsTruthful'
    BY DEF LifecycleType, FlagsTruthful, Undisturbed
  <2>3. LastSample'
    BY DEF LifecycleType, FlagsTruthful, LastSample, Undisturbed, NoRow
  <2>4. DirectFeed'
    BY DEF LifecycleType, FlagsTruthful, DirectFeed, DirectRunning, Drained, Stopped, CountedAll, Undisturbed, Mode
  <2> QED BY <2>1, <2>2, <2>3, <2>4
<1>25. CASE Monitor
  <2> USE <1>25 DEF Monitor
  <2>1. LifecycleType'
    BY DEF LifecycleType
  <2>2. FlagsTruthful'
    BY DEF LifecycleType, FlagsTruthful, Undisturbed
  <2>3. LastSample'
    BY DEF LifecycleType, FlagsTruthful, LastSample, Undisturbed, NoRow
  <2>4. DirectFeed'
    BY DEF LifecycleType, FlagsTruthful, DirectFeed, DirectRunning, Drained, Stopped, CountedAll, Undisturbed, Mode
  <2> QED BY <2>1, <2>2, <2>3, <2>4
<1>26. CASE UNCHANGED vars
  BY <1>26 DEF vars, LifecycleType, FlagsTruthful, LastSample, DirectFeed, DirectRunning, Drained,
     Stopped, CountedAll, Undisturbed, Mode
<1> QED BY <1>1, <1>2, <1>3, <1>4, <1>5, <1>6, <1>7, <1>8, <1>9, <1>10, <1>11, <1>12, <1>13, <1>14, <1>15, <1>16, <1>17, <1>18, <1>19, <1>20, <1>21, <1>22, <1>23, <1>24, <1>25, <1>26
        DEF Next, Launcher, Producer, Consumer, Worker, Stay

\* The invariant holds in every reachable state of every instance.
THEOREM LifecycleInvariance == Spec => []LifecycleInv
BY InitLifecycle, StepLifecycle, PTL DEF Spec

----------------------------------------------------------------------------
\* UdpFixProducer's "(0% packet loss guaranteed)": a direct run that nobody
\* disturbs hands every message to the worker, for every dataset, queue and
\* batch size and every worker class.
THEOREM DirectRunsLoseNothing == Spec => []DirectNeverLoses
<1>1. LifecycleInv => DirectNeverLoses
  BY DEF LifecycleInv, FlagsTruthful, DirectFeed, Drained, Stopped, CountedAll, Undisturbed,
     DirectNeverLoses
<1> QED BY LifecycleInvariance, <1>1, PTL

\* A direct run, however stopped, leaves at most the message of the push that
\* was under way.
THEOREM StopStrandsAtMostOne == Spec => []AtMostOneStranded
<1>1. LifecycleInv => AtMostOneStranded
  BY DEF LifecycleInv, LifecycleType, FlagsTruthful, DirectFeed, Drained, Stopped, CountedAll,
     AtMostOneStranded
<1> QED BY LifecycleInvariance, <1>1, PTL

\* Whatever its idle counter reaches, the receiver does not unmap the frames
\* of queued packets while the feed runs.
THEOREM FeedKeepsFrames == Spec => []FramesKeptWhileFeeding
<1>1. LifecycleInv => FramesKeptWhileFeeding
  BY DEF LifecycleInv, LifecycleType, FlagsTruthful, FramesKeptWhileFeeding
<1> QED BY LifecycleInvariance, <1>1, PTL

\* The last row of the CSV file is the total the launcher reports, in every
\* ingest mode, unless the engine was disturbed.
THEOREM LastRowIsTotal == Spec => []LastRowComplete
<1>1. LifecycleInv => LastRowComplete
  BY DEF LifecycleInv, LastSample, Undisturbed, LastRowComplete
<1> QED BY LifecycleInvariance, <1>1, PTL
=============================================================================
