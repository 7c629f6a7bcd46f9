--------------------------- MODULE ProtocolParser ---------------------------
(***************************************************************************)
(* ProtocolParser::parse_in_place: what a datagram of each wire protocol   *)
(* becomes as a ParsedOrder.  A FIX message arrives here as FixParser read *)
(* it; an OUCH or SBE packet carries unsigned binary fields, which the     *)
(* ParsedOrder holds in signed ones.                                       *)
(***************************************************************************)
EXTENDS Integers

CONSTANTS Width,        \* bits of uint64_t and int64_t (64)
          QtyWidth      \* bits of uint32_t and int (32)

\* The provers know nothing of ^: what they need of these powers is said here.
ASSUME WidthAssumption ==
    \A w \in {Width, QtyWidth} :
        w \in Nat \ {0} /\ 2^(w - 1) \in Nat \ {0} /\ 2^w = 2 * 2^(w - 1)

SignedValues(w) == (-(2^(w - 1)))..(2^(w - 1) - 1)
UnsignedValues(w) == 0..(2^w - 1)

\* The datagrams: a FIX message as FixParser read it, a binary packet as it is
\* on the wire; one that is not whole is shorter than its struct.
Datagrams ==
    [protocol : {"FIX"}, new_order : BOOLEAN, side : Int,
     quantity : SignedValues(QtyWidth), price : SignedValues(Width)] \cup
    [protocol : {"OUCH"}, whole : BOOLEAN, side : 0..2,
     quantity : UnsignedValues(QtyWidth), price : UnsignedValues(QtyWidth)] \cup
    [protocol : {"SBE"}, whole : BOOLEAN, side : 0..2,
     quantity : UnsignedValues(QtyWidth), price : UnsignedValues(Width)]

\* static_cast to a signed type of w bits.
SignedCast(x, w) == IF x >= 2^(w - 1) THEN x - 2^w ELSE x

\* ParsedOrder{}: what a packet shorter than its struct yields.
EmptyOrder == [new_order |-> FALSE, side |-> 0, quantity |-> 0, price |-> 0]

\* On the wire side 1 is 'B' or '1', 2 is 'S', 0 is any other byte.
OuchSide(side) == IF side = 1 THEN 1 ELSE 2

Decode(m) ==
    CASE m.protocol = "FIX" ->
            [new_order |-> m.new_order, side |-> m.side, quantity |-> m.quantity, price |-> m.price]
      [] m.protocol # "FIX" /\ ~m.whole -> EmptyOrder
      [] m.protocol = "OUCH" /\ m.whole ->
            [new_order |-> TRUE, side |-> OuchSide(m.side),
             quantity |-> SignedCast(m.quantity, QtyWidth), price |-> m.price]
      [] m.protocol = "SBE" /\ m.whole ->
            [new_order |-> TRUE, side |-> m.side,
             quantity |-> SignedCast(m.quantity, QtyWidth), price |-> SignedCast(m.price, Width)]
=============================================================================
