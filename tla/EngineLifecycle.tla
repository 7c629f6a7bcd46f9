-------------------------- MODULE EngineLifecycle --------------------------
(***************************************************************************)
(* EngineLauncher::run and its four threads: UdpFixProducer, the receiver  *)
(* (an IRxConsumer), the worker and CsvPerformanceMonitor, coordinated by  *)
(* the global flags g_running, g_producer_done and g_consumer_done and by  *)
(* the joins of the launcher.  Packets are counted, not identified; what   *)
(* the worker does with one is in the modules of the worker's components.  *)
(***************************************************************************)
EXTENDS Integers

CONSTANTS Setups,       \* set of <<worker class, ingest mode>> to run
          Messages,     \* total_messages, the size of the dataset
          QueueCap,     \* SPSCQueue::capacity() of the packet queue
          BatchMax,     \* pkt_batch.size()
          RxBatch,      \* BATCH_SIZE of AfXdpRxConsumer
          EmptyLimit,   \* empty_checks that end the receiver (100, 200, 2000)
          InitMayFail,  \* may the receiver's socket set-up fail?
          SignalMayCome \* may SIGINT / SIGTERM arrive?

Kinds == {"FixWorker", "MatchingWorker", "HftOrderBookEngine"}
Modes == {"direct", "ring", "udp", "xdp"}     \* "direct": beside an idle ring receiver

ASSUME LifecycleAssumption ==
    /\ Setups \subseteq Kinds \X Modes
    /\ Messages \in Nat /\ QueueCap \in Nat /\ QueueCap >= 1
    /\ BatchMax \in Nat /\ BatchMax >= 1 /\ RxBatch \in Nat /\ RxBatch >= 1
    /\ EmptyLimit \in Nat /\ EmptyLimit >= 1
    /\ InitMayFail \in BOOLEAN /\ SignalMayCome \in BOOLEAN

VARIABLES
    setup,                                          \* command line and program
    g_running, g_producer_done, g_consumer_done, g_user_stopped,
    launcher, producer, consumer, worker, monitor,  \* where each thread is
    injected,       \* messages the producer is done with
    wire,           \* datagrams in the kernel's ring or socket buffer
    rcvd,           \* datagrams the receiver has taken and not yet pushed
    queue,          \* packets in the SPSC queue
    batch,          \* packets popped and not yet handled
    handled,        \* packets the worker has gone through
    processed,      \* those it counted (duplicates are not)
    empty_checks,
    final_row,      \* total_processed in the last row of the CSV file, or NoRow
    mapped          \* the frame memory of PACKET_RX_RING, or the UMEM, is mapped

flags == <<g_running, g_producer_done, g_consumer_done, g_user_stopped>>
vars == <<setup, flags, launcher, producer, consumer, worker, monitor, injected, wire, rcvd,
          queue, batch, handled, processed, empty_checks, mapped, final_row>>

NoRow == -1

Kind == setup[1]
Mode == setup[2]

Init ==
    /\ setup \in Setups
    /\ g_running = TRUE /\ g_producer_done = FALSE
    /\ g_consumer_done = FALSE /\ g_user_stopped = FALSE
    /\ launcher = "join_producer"
    /\ producer = "start" /\ consumer = "start" /\ worker = "loop" /\ monitor = "start"
    /\ injected = 0 /\ wire = 0 /\ rcvd = 0 /\ queue = 0 /\ batch = 0 /\ handled = 0 /\ processed = 0
    /\ empty_checks = 0 /\ mapped = (Mode = "xdp") /\ final_row = NoRow

----------------------------------------------------------------------------
(* The launcher thread, after it has started the other four.               *)

\* t_producer.join(), then g_consumer_done.store(true).
JoinProducer ==
    /\ launcher = "join_producer" /\ producer = "done"
    /\ launcher' = "join_consumer"
    /\ g_consumer_done' = TRUE
    /\ UNCHANGED <<setup, g_running, g_producer_done, g_user_stopped, producer, consumer, worker, monitor,
                   injected, wire, rcvd, queue, batch, handled, processed, empty_checks, mapped, final_row>>

JoinConsumerStops ==
    /\ launcher = "join_consumer" /\ consumer \in {"done", "failed"}
    /\ launcher' = "join_worker"
    /\ g_running' = FALSE
    /\ UNCHANGED <<setup, g_producer_done, g_consumer_done, g_user_stopped, producer, consumer, worker, monitor,
                   injected, wire, rcvd, queue, batch, handled, processed, empty_checks, mapped, final_row>>
JoinConsumer ==
    /\ launcher = "join_consumer" /\ consumer \in {"done", "failed"}
    /\ launcher' = "join_worker"
    /\ UNCHANGED <<setup, flags, producer, consumer, worker, monitor, injected, wire, rcvd, queue, batch,
                   handled, processed, empty_checks, mapped, final_row>>

\* t_worker.join(), then g_running.store(false).
JoinWorker ==
    /\ launcher = "join_worker" /\ worker = "done"
    /\ launcher' = "join_monitor"
    /\ g_running' = FALSE
    /\ UNCHANGED <<setup, g_producer_done, g_consumer_done, g_user_stopped, producer, consumer, worker,
                   monitor, injected, wire, rcvd, queue, batch, handled, processed, empty_checks, mapped, final_row>>

\* t_monitor.join(), the report, the release of the shared memory.
JoinMonitor ==
    /\ launcher = "join_monitor" /\ monitor = "done"
    /\ launcher' = "exited"
    /\ UNCHANGED <<setup, flags, producer, consumer, worker, monitor, injected, wire, rcvd, queue, batch,
                   handled, processed, empty_checks, mapped, final_row>>

Launcher == JoinProducer \/ JoinConsumer \/ JoinWorker \/ JoinMonitor

\* handle_signal, at any time before the process ends.
HandleSignal ==
    /\ SignalMayCome /\ ~g_user_stopped /\ launcher # "exited"
    /\ g_user_stopped' = TRUE
    /\ g_running' = FALSE
    /\ UNCHANGED <<setup, g_producer_done, g_consumer_done, launcher, producer, consumer, worker, monitor,
                   injected, wire, rcvd, queue, batch, handled, processed, empty_checks, mapped, final_row>>

----------------------------------------------------------------------------
(* UdpFixProducer::run.                                                    *)

\* Opening the socket may fail; direct mode opens none.
ProducerStart ==
    /\ producer = "start"
    /\ producer' \in (IF Mode = "direct" THEN {"send"} ELSE {"send", "finish"})
    /\ UNCHANGED <<setup, flags, launcher, consumer, worker, monitor, injected, wire, rcvd, queue, batch,
                   handled, processed, empty_checks, mapped, final_row>>

\* Head of the loop over the messages.
ProducerCheck ==
    /\ producer = "send"
    /\ producer' = IF injected < Messages /\ g_running THEN "put" ELSE "finish"
    /\ UNCHANGED <<setup, flags, launcher, consumer, worker, monitor, injected, wire, rcvd, queue, batch,
                   handled, processed, empty_checks, mapped, final_row>>

\* Direct mode: while (!push(pkt) && g_running) yield; ++injected.
DirectPushNoRetry ==
    /\ producer = "put" /\ Mode = "direct"
    /\ queue' = IF queue < QueueCap THEN queue + 1 ELSE queue
    /\ injected' = injected + 1
    /\ producer' = "send"
    /\ UNCHANGED <<setup, flags, launcher, consumer, worker, monitor, wire, rcvd, batch,
                   handled, processed, empty_checks, mapped, final_row>>
DirectPush ==
    /\ producer = "put" /\ Mode = "direct"
    /\ queue < QueueCap \/ ~g_running
    /\ queue' = IF queue < QueueCap THEN queue + 1 ELSE queue
    /\ injected' = injected + 1
    /\ producer' = "send"
    /\ UNCHANGED <<setup, flags, launcher, consumer, worker, monitor, wire, rcvd, batch,
                   handled, processed, empty_checks, mapped, final_row>>

\* Network mode: sendto, whose datagram may be lost.
SendTo ==
    /\ producer = "put" /\ Mode # "direct"
    /\ wire' \in {wire, wire + 1}
    /\ injected' = injected + 1
    /\ producer' = "send"
    /\ UNCHANGED <<setup, flags, launcher, consumer, worker, monitor, rcvd, queue, batch,
                   handled, processed, empty_checks, mapped, final_row>>

ProducerFinish ==
    /\ producer = "finish"
    /\ producer' = "done"
    /\ g_producer_done' = TRUE
    /\ UNCHANGED <<setup, g_running, g_consumer_done, g_user_stopped, launcher, consumer, worker, monitor,
                   injected, wire, rcvd, queue, batch, handled, processed, empty_checks, mapped, final_row>>

Producer == ProducerStart \/ ProducerCheck \/ DirectPush \/ SendTo \/ ProducerFinish

----------------------------------------------------------------------------
(* PacketMmapRxConsumer::run and AfXdpRxConsumer::run.                     *)

\* Each fatal error of the set-up stops the engine; g_consumer_done stays.  The
\* factory has set up an AF_XDP receiver before the threads start, and falls
\* back to the ring when that fails.
ConsumerInitFails ==
    /\ consumer = "start" /\ InitMayFail /\ Mode # "xdp"
    /\ g_running' = FALSE
    /\ consumer' = "failed"
    /\ UNCHANGED <<setup, g_producer_done, g_consumer_done, g_user_stopped, launcher, producer, worker, monitor,
                   injected, wire, rcvd, queue, batch, handled, processed, empty_checks, mapped, final_row>>

ConsumerInit ==
    /\ consumer = "start"
    /\ consumer' = "loop"
    /\ mapped' = (Mode # "udp")
    /\ UNCHANGED <<setup, flags, launcher, producer, worker, monitor, injected, wire, rcvd, queue, batch,
                   handled, processed, empty_checks, final_row>>

\* One datagram is there, or up to RxBatch for AF_XDP; only the recv loop does
\* not reset empty_checks.
ConsumerTake ==
    /\ consumer = "loop" /\ g_running
    /\ rcvd' \in 1..(IF Mode = "xdp" THEN RxBatch ELSE 1)
    /\ rcvd' <= wire
    /\ wire' = wire - rcvd'
    /\ consumer' = "push"
    /\ empty_checks' = IF Mode = "udp" THEN empty_checks ELSE 0
    /\ UNCHANGED <<setup, flags, launcher, producer, worker, monitor, injected, queue, batch,
                   handled, processed, mapped, final_row>>

\* Nothing there and the producer is done: give up after EmptyLimit rounds.
ConsumerIdleAnytime ==
    /\ consumer = "loop" /\ g_running /\ wire = 0
    /\ empty_checks' = empty_checks + 1
    /\ consumer' = IF empty_checks' >= EmptyLimit THEN "cleanup" ELSE "loop"
    /\ UNCHANGED <<setup, flags, launcher, producer, worker, monitor, injected, wire, rcvd, queue, batch,
                   handled, processed, mapped, final_row>>
ConsumerIdleNoCount ==
    /\ consumer = "loop" /\ g_running /\ wire = 0 /\ g_producer_done
    /\ consumer' = IF empty_checks >= EmptyLimit THEN "cleanup" ELSE "loop"
    /\ UNCHANGED <<setup, flags, launcher, producer, worker, monitor, injected, wire, rcvd, queue, batch,
                   handled, processed, empty_checks, mapped, final_row>>
ConsumerIdle ==
    /\ consumer = "loop" /\ g_running /\ wire = 0 /\ g_producer_done
    /\ empty_checks' = empty_checks + 1
    /\ consumer' = IF empty_checks' >= EmptyLimit THEN "cleanup" ELSE "loop"
    /\ UNCHANGED <<setup, flags, launcher, producer, worker, monitor, injected, wire, rcvd, queue, batch,
                   handled, processed, mapped, final_row>>

ConsumerStops ==
    /\ consumer = "loop" /\ ~g_running
    /\ consumer' = "cleanup"
    /\ UNCHANGED <<setup, flags, launcher, producer, worker, monitor, injected, wire, rcvd, queue, batch,
                   handled, processed, empty_checks, mapped, final_row>>

\* while (!m_queue.push(pkt) && g_running) pause, for each datagram taken.
ConsumerPush ==
    /\ consumer = "push"
    /\ queue < QueueCap \/ ~g_running
    /\ queue' = IF queue < QueueCap THEN queue + 1 ELSE queue
    /\ rcvd' = rcvd - 1
    /\ consumer' = IF rcvd = 1 THEN "loop" ELSE "push"
    /\ UNCHANGED <<setup, flags, launcher, producer, worker, monitor, injected, wire, batch,
                   handled, processed, empty_checks, mapped, final_row>>

\* cleanup() unmaps the frame memory ...
ConsumerCleanup ==
    /\ consumer = "cleanup"
    /\ mapped' = FALSE
    /\ consumer' = "flag"
    /\ UNCHANGED <<setup, flags, launcher, producer, worker, monitor, injected, wire, rcvd, queue, batch,
                   handled, processed, empty_checks, final_row>>

\* ... then g_consumer_done is set.
ConsumerFlags ==
    /\ consumer = "flag"
    /\ g_consumer_done' = TRUE
    /\ consumer' = "done"
    /\ UNCHANGED <<setup, g_running, g_producer_done, g_user_stopped, launcher, producer, worker, monitor,
                   injected, wire, rcvd, queue, batch, handled, processed, empty_checks, mapped, final_row>>

Consumer ==
    \/ ConsumerInit \/ ConsumerInitFails \/ ConsumerTake \/ ConsumerIdle
    \/ ConsumerStops \/ ConsumerPush \/ ConsumerCleanup \/ ConsumerFlags

----------------------------------------------------------------------------
(* The worker's run.                                                       *)

WorkerPop(n) ==
    /\ worker = "loop" /\ n <= queue
    /\ batch' = n
    /\ queue' = queue - n
    /\ worker' = "batch"
    /\ UNCHANGED <<setup, flags, launcher, producer, consumer, monitor, injected, wire, rcvd,
                   handled, processed, empty_checks, mapped, final_row>>

\* pop_batch returned 0 and g_consumer_done && m_queue.empty(): the flag is
\* never cleared, so the three reads are as good as one.
WorkerDrained ==
    /\ worker = "loop" /\ g_running /\ queue = 0 /\ g_consumer_done
    /\ worker' = "end"
    /\ UNCHANGED <<setup, flags, launcher, producer, consumer, monitor, injected, wire, rcvd, queue, batch,
                   handled, processed, empty_checks, mapped, final_row>>

\* The loop condition g_running || !m_queue.empty() is false.
WorkerStopsAtOnce ==
    /\ worker = "loop" /\ ~g_running
    /\ worker' = "end"
    /\ UNCHANGED <<setup, flags, launcher, producer, consumer, monitor, injected, wire, rcvd, queue, batch,
                   handled, processed, empty_checks, mapped, final_row>>
WorkerStops ==
    /\ worker = "loop" /\ ~g_running /\ queue = 0
    /\ worker' = "end"
    /\ UNCHANGED <<setup, flags, launcher, producer, consumer, monitor, injected, wire, rcvd, queue, batch,
                   handled, processed, empty_checks, mapped, final_row>>

\* One packet of the batch.  A duplicate line packet is skipped uncounted by
\* the two matching workers; FixWorker and MatchingWorker stop at
\* m_expected_messages, in the middle of a batch if need be.
WorkerHandle(duplicate) ==
    /\ worker = "batch"
    /\ duplicate => Kind # "FixWorker"
    /\ handled' = handled + 1
    /\ processed' = IF duplicate THEN processed ELSE processed + 1
    /\ IF ~duplicate /\ Kind # "HftOrderBookEngine" /\ processed' >= Messages
         THEN worker' = "end" /\ batch' = batch
         ELSE worker' = (IF batch = 1 THEN "loop" ELSE "batch") /\ batch' = batch - 1
    /\ UNCHANGED <<setup, flags, launcher, producer, consumer, monitor, injected, wire, rcvd, queue,
                   empty_checks, mapped, final_row>>

\* The frame of the packet at hand is no longer mapped: reading it ends the
\* process, or finds other memory there and goes on (WorkerHandle).
WorkerReadsUnmapped ==
    /\ worker = "batch" /\ Mode \in {"ring", "xdp"} /\ consumer \in {"flag", "done"} /\ ~mapped
    /\ launcher' = "crashed"
    /\ UNCHANGED <<setup, flags, producer, consumer, worker, monitor, injected, wire, rcvd, queue, batch,
                   handled, processed, empty_checks, mapped, final_row>>

\* End of run: FixWorker and MatchingWorker stop the engine.
WorkerEnd ==
    /\ worker = "end"
    /\ worker' = "done"
    /\ g_running' = IF Kind = "HftOrderBookEngine" THEN g_running ELSE FALSE
    /\ UNCHANGED <<setup, g_producer_done, g_consumer_done, g_user_stopped, launcher, producer, consumer,
                   monitor, injected, wire, rcvd, queue, batch, handled, processed, empty_checks, mapped, final_row>>

Worker ==
    \/ \E n \in 1..BatchMax : WorkerPop(n)
    \/ \E duplicate \in BOOLEAN : WorkerHandle(duplicate)
    \/ WorkerReadsUnmapped \/ WorkerDrained \/ WorkerStops \/ WorkerEnd

\* CsvPerformanceMonitor::run: leave at once if the file cannot be opened, else
\* sample until g_running is false, and then write a last row.
Monitor ==
    /\ \/ /\ monitor = "start" /\ monitor' \in {"loop", "done"}
          /\ UNCHANGED final_row
       \/ /\ monitor = "loop" /\ ~g_running /\ monitor' = "done"
          /\ final_row' = processed
    /\ UNCHANGED <<setup, flags, launcher, producer, consumer, worker, injected, wire, rcvd, queue, batch,
                   handled, processed, empty_checks, mapped>>

\* The process has ended, by itself or by a signal of the memory system.
Ended == launcher \in {"exited", "crashed"}
Stay == Ended /\ UNCHANGED vars

Next ==
    \/ ~Ended /\ (Launcher \/ HandleSignal \/ Producer \/ Consumer \/ Worker \/ Monitor)
    \/ Stay

Spec == Init /\ [][Next]_vars

\* The operating system runs every thread; none is promised a signal.
Fairness ==
    /\ WF_vars(~Ended /\ Launcher) /\ WF_vars(~Ended /\ Producer)
    /\ WF_vars(~Ended /\ Consumer) /\ WF_vars(~Ended /\ Worker)
    /\ WF_vars(~Ended /\ Monitor)

FairSpec == Spec /\ Fairness

----------------------------------------------------------------------------
\* HftOrderBookEngine has left without clearing g_running, and the receiver
\* spins in push on the queue that nobody empties any more.
ReceiverStranded ==
    /\ Kind = "HftOrderBookEngine" /\ worker = "done" /\ g_running
    /\ consumer = "push" /\ queue = QueueCap

\* Every run ends, whatever is lost, whenever the signal comes and whether or
\* not the receiver came up: no thread waits for one that has left, with one
\* exception, an order book engine that leaves its receiver stranded.
Termination == <>(Ended \/ ReceiverStranded)

\* However a direct run is stopped, the worker goes through everything queued
\* except at most the one message whose push was under way.
AtMostOneStranded ==
    (launcher = "exited" /\ Mode = "direct") => queue + batch <= 1

\* "(0% packet loss guaranteed)": in direct mode no message is lost unless the
\* user stops the engine or the receiver fails to start; neither the launcher's
\* early g_consumer_done nor any exit of the worker cuts a message off.
DirectNeverLoses ==
    (launcher = "exited" /\ Mode = "direct" /\ ~g_user_stopped /\ consumer # "failed")
        => handled = Messages

\* The receiver never takes the frame memory away under packets that are
\* queued or being handled while the feed is running: until the producer is
\* done or the engine is told to stop, whatever the idle counter has reached.
\* After that nothing makes it wait for the worker.
FramesKeptWhileFeeding ==
    ((queue > 0 \/ batch > 0) /\ g_running /\ ~g_producer_done)
        => consumer \notin {"cleanup", "flag", "done"}

\* The last row of the CSV file counts every message: unless the user stops
\* the engine or the receiver fails to start, g_running falls only when the
\* worker has counted its last one, so the monitor's last sample is the total
\* the launcher prints.
LastRowComplete ==
    (launcher = "exited" /\ final_row # NoRow /\ ~g_user_stopped /\ consumer # "failed")
        => final_row = processed
=============================================================================
