----------------------------- MODULE RxConsumer -----------------------------
(***************************************************************************)
(* create_rx_consumer and the engine behind it: AF_XDP when its init()     *)
(* succeeds, else PacketMmapRxConsumer, whose run() falls back once more,  *)
(* to a UDP socket, without AF_PACKET privileges.  Whichever receiver it   *)
(* is, the same worker pops and parses its packets.                        *)
(***************************************************************************)
EXTENDS RxRing, AfXdpRx

vars == <<mode, content, workerVars, trafficVars, ringVars, xdpVars>>

Init == InitHandoff /\ InitRing /\ InitXdp

\* The factory's choice, before any receiver thread runs.
Create ==
    /\ mode = NoReceiver
    /\ \/ InitUmem /\ UNCHANGED ringVars
       \/ MapRing /\ UNCHANGED xdpVars
       \/ BindUdp /\ UNCHANGED xdpVars

Kernel ==
    \/ (RingDatagram \/ RingForeign) /\ UNCHANGED xdpVars
    \/ (XdpDatagram \/ XdpForeign) /\ UNCHANGED ringVars

Receiver ==
    \/ RingReceiver /\ UNCHANGED xdpVars
    \/ XdpReceiver /\ UNCHANGED ringVars

----------------------------------------------------------------------------
(* The worker thread.                                                      *)

Pop == (\E n \in 1..BatchMax : WorkerPop(n)) /\ UNCHANGED <<ringVars, xdpVars>>

Parse == WorkerParse /\ UNCHANGED <<ringVars, xdpVars>>

Finish == Release /\ UNCHANGED xdpVars

Worker == Pop \/ Parse \/ Finish

Next == Create \/ Kernel \/ Receiver \/ Worker

Spec == Init /\ [][Next]_vars

\* Both threads poll in loops and finish what they have begun; nothing forces a
\* datagram to arrive.
RingProgress == (PollForeign \/ PollMatch \/ Push \/ PushRow) /\ UNCHANGED xdpVars
XdpProgress == XdpReceiver /\ UNCHANGED ringVars

FairSpec == Spec /\ WF_vars(RingProgress \/ XdpProgress) /\ WF_vars(Worker)

----------------------------------------------------------------------------
\* "PACKET_RX_RING never starves", nor does the fill ring: whichever receiver
\* is in use, the kernel again and again finds a buffer it may fill next,
\* however slow the worker is.
RingsNeverStarve ==
    []<>(IF mode = "af_xdp" THEN fill # <<>> ELSE status[k_idx] = "KERNEL")
=============================================================================
