---------------------------- MODULE BoundedFifo ----------------------------
(***************************************************************************)
(* What hft::common::SPSCQueue promises to its two users: a FIFO channel   *)
(* of at most Bound items in which the k-th item pushed is the k-th item   *)
(* popped.  Items are named by their position in the producer's stream.    *)
(* Calls that fail (full, empty) change nothing here.                      *)
(***************************************************************************)
EXTENDS Integers, Sequences

CONSTANTS Bound,        \* SPSCQueue::capacity(), one less than its slots
          MaxBatch,     \* largest batch of one push_batch / pop_batch call
          MaxItems      \* bound on the producer's stream

VARIABLES queue,        \* items pushed and not yet popped, oldest first
          sent,         \* number of items pushed so far
          ret           \* what the last successful pop handed to its caller

vars == <<queue, sent, ret>>

Init == queue = <<>> /\ sent = 0 /\ ret = <<>>

Enqueue(n) ==
    /\ Len(queue) + n <= Bound
    /\ sent + n <= MaxItems
    /\ queue' = queue \o [i \in 1..n |-> sent + i]
    /\ sent' = sent + n
    /\ UNCHANGED ret

Dequeue(n) ==
    /\ n <= Len(queue)
    /\ ret' = SubSeq(queue, 1, n)
    /\ queue' = SubSeq(queue, n + 1, Len(queue))
    /\ UNCHANGED sent

Next == \E n \in 1..MaxBatch : Enqueue(n) \/ Dequeue(n)

Spec == Init /\ [][Next]_vars
=============================================================================
