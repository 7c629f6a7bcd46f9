---------------------------- MODULE MCSPSCQueue ----------------------------
(* A ring of 4 slots, batches of up to 3: the stream wraps the ring.       *)
EXTENDS QueueObserver

\* Wrap is the mask the code applies: for a power of two, x & (Capacity - 1)
\* is the remainder of x.
ASSUME WrapIsMask == \A x \in 0..(2 * Capacity - 1) : Wrap(x) = x % Capacity

\* The ring is a power of two, as the static_assert demands.
ASSUME PowerOfTwo == \E k \in 1..Capacity : Capacity = 2^k
=============================================================================
