----------------------- MODULE MatchingWorker_proofs -----------------------
(***************************************************************************)
(* Proofs about MatchingWorker, with the risk check, the decoding and the  *)
(* matching engine it is made of: which orders the check lets through, for *)
(* every width of the integers and every datagram that fits its fields,    *)
(* and what the books then make of them.                                   *)
(***************************************************************************)
EXTENDS MatchingWorker, SequenceTheorems, FiniteSetTheorems, WellFoundedInduction, TLAPS

----------------------------------------------------------------------------
(* Arithmetic.                                                             *)

\* The remainder is the one number of 0..(v - 1) that differs from a by a
\* multiple of v.
LEMMA RemainderUnique ==
    ASSUME NEW v \in Nat, v > 0, NEW k \in Int, NEW r \in 0..(v - 1), NEW a \in Int, a = v * k + r
    PROVE  a % v = r
OBVIOUS

\* A number below the modulus is its own remainder.
LEMMA RemainderSmall ==
    ASSUME NEW v \in Nat, v > 0, NEW r \in 0..(v - 1)
    PROVE  r % v = r
OBVIOUS

\* Products of naturals grow with their factors.
LEMMA ProductMonotone ==
    ASSUME NEW a \in Nat, NEW b \in Nat, NEW c \in Nat, NEW d \in Nat, a <= b, c <= d
    PROVE  a * c \in Nat /\ a * c <= b * d
<1>1. a * c <= b * c /\ b * c <= b * d /\ a * c \in Nat /\ b * c \in Nat /\ b * d \in Nat
  OBVIOUS
<1> QED BY <1>1

\* A quotient is within a bound exactly when the dividend is below the next
\* multiple of the divisor.
LEMMA QuotientBound ==
    ASSUME NEW a \in Nat, NEW d \in Nat, d > 0, NEW m \in Nat
    PROVE  a \div d <= m <=> a < d * (m + 1)
OBVIOUS

----------------------------------------------------------------------------
(* ProtocolParser.                                                         *)

\* A decoded quantity fits the signed field, and is the one on the wire when
\* it is not negative.
LEMMA DecodedFields ==
    ASSUME NEW m \in Datagrams
    PROVE  /\ Decode(m) \in [new_order : BOOLEAN, side : Int,
                             quantity : SignedValues(QtyWidth), price : Int]
           /\ Decode(m).new_order /\ Decode(m).quantity >= 0 => Decode(m).quantity = m.quantity
<1> DEFINE H == 2^(QtyWidth - 1)
           G == 2^(Width - 1)
<1>1. /\ H \in Nat \ {0} /\ 2^QtyWidth = 2 * H
      /\ G \in Nat \ {0} /\ 2^Width = 2 * G
  BY WidthAssumption
<1>2. CASE m \in [protocol : {"FIX"}, new_order : BOOLEAN, side : Int,
                  quantity : SignedValues(QtyWidth), price : SignedValues(Width)]
  <2>1. Decode(m) = [new_order |-> m.new_order, side |-> m.side, quantity |-> m.quantity, price |-> m.price]
    BY <1>2 DEF Decode
  <2>2. m.price \in Int
    BY <1>1, <1>2 DEF SignedValues
  <2> QED BY <1>2, <2>1, <2>2
<1>3. ASSUME NEW q \in UnsignedValues(QtyWidth)
      PROVE  SignedCast(q, QtyWidth) \in SignedValues(QtyWidth) /\ (SignedCast(q, QtyWidth) >= 0 => SignedCast(q, QtyWidth) = q)
  BY <1>1, <1>3 DEF SignedCast, SignedValues, UnsignedValues
<1>4. ASSUME m.protocol \in {"OUCH", "SBE"}, m.whole = FALSE
      PROVE  Decode(m) = EmptyOrder
  BY <1>4 DEF Decode
<1>7. EmptyOrder \in [new_order : BOOLEAN, side : Int, quantity : SignedValues(QtyWidth), price : Int]
      /\ EmptyOrder.new_order = FALSE
  BY <1>1 DEF EmptyOrder, SignedValues
<1>5. CASE m \in [protocol : {"OUCH"}, whole : BOOLEAN, side : 0..2,
                  quantity : UnsignedValues(QtyWidth), price : UnsignedValues(QtyWidth)]
  <2>1. CASE ~m.whole
    <3>1. m.protocol \in {"OUCH", "SBE"} /\ m.whole = FALSE
      BY <1>5, <2>1
    <3> QED BY <1>4, <1>7, <3>1
  <2>2. CASE m.whole
    <3>1. Decode(m) = [new_order |-> TRUE, side |-> OuchSide(m.side),
                       quantity |-> SignedCast(m.quantity, QtyWidth), price |-> m.price]
      BY <1>5, <2>2 DEF Decode
    <3>2. OuchSide(m.side) \in Int /\ m.price \in Int /\ m.quantity \in UnsignedValues(QtyWidth)
      BY <1>1, <1>5 DEF OuchSide, UnsignedValues
    <3> QED BY <1>3, <3>1, <3>2
  <2> QED BY <2>1, <2>2
<1>6. CASE m \in [protocol : {"SBE"}, whole : BOOLEAN, side : 0..2,
                  quantity : UnsignedValues(QtyWidth), price : UnsignedValues(Width)]
  <2>1. CASE ~m.whole
    <3>1. m.protocol \in {"OUCH", "SBE"} /\ m.whole = FALSE
      BY <1>6, <2>1
    <3> QED BY <1>4, <1>7, <3>1
  <2>2. CASE m.whole
    <3>1. Decode(m) = [new_order |-> TRUE, side |-> m.side,
                       quantity |-> SignedCast(m.quantity, QtyWidth), price |-> SignedCast(m.price, Width)]
      BY <1>6, <2>2 DEF Decode
    <3>2. m.side \in Int /\ SignedCast(m.price, Width) \in Int /\ m.quantity \in UnsignedValues(QtyWidth)
      BY <1>1, <1>6 DEF SignedCast, UnsignedValues
    <3> QED BY <1>3, <3>1, <3>2
  <2> QED BY <2>1, <2>2
<1> QED BY <1>2, <1>5, <1>6 DEF Datagrams

\* The messages the worker sees, decoded.
LEMMA OrderFields ==
    ASSUME NEW o \in Orders
    PROVE  o \in [new_order : BOOLEAN, side : Int, quantity : SignedValues(QtyWidth), price : Int]
BY DecodedFields, RiskAssumption DEF Orders

----------------------------------------------------------------------------
(* PreTradeRisk.                                                           *)

RiskType == m_limits \in Limits /\ kill_switch_active \in BOOLEAN

\* The value of an order within the collar, computed in unsigned arithmetic:
\* exact for a quantity that is not negative, above the cap for any other.
LEMMA NotionalExact ==
    ASSUME LimitsBelowWrap, NEW l \in Limits, NEW o, o.quantity \in SignedValues(QtyWidth),
           o.price \in 1..(Reference + l.max_price_deviation_scaled)
    PROVE  /\ o.quantity >= 0 => Notional(o) = (o.quantity * o.price) \div Scale
           /\ o.quantity < 0 => Notional(o) > l.max_notional_value_usd
<1> DEFINE H == 2^(QtyWidth - 1)
           V == 2^Width
           R == Reference + l.max_price_deviation_scaled
           C == Scale * (l.max_notional_value_usd + 1)
           q == o.quantity
           p == o.price
<1>1. /\ H \in Nat \ {0} /\ V \in Nat \ {0}
      /\ Scale \in Nat \ {0} /\ R \in Nat \ {0} /\ l.max_notional_value_usd \in Nat
  BY WidthAssumption, RiskAssumption
<1>2. H * R + C <= V
  BY DEF LimitsBelowWrap
<1>3. q \in (-H)..(H - 1) /\ p \in 1..R
  BY <1>1 DEF SignedValues
<1>4. C \in Nat /\ C > 0 /\ Notional(o) = (((q % V) * (p % V)) % V) \div Scale
  BY <1>1 DEF Notional, Unsigned
<1> HIDE DEF H, V, R, C, q, p
<1>5. H <= H * R /\ R <= H * R /\ H * R \in Nat
  BY <1>1
<1>6. H < V /\ R < V /\ H * R < V
  BY <1>1, <1>2, <1>4, <1>5
<1>7. p % V = p
  BY <1>1, <1>3, <1>6, RemainderSmall
<1>8. CASE q >= 0
  <2>1. q % V = q
    BY <1>1, <1>3, <1>6, <1>8, RemainderSmall
  <2>2. q * p \in Nat /\ q * p <= H * R
    BY <1>1, <1>3, <1>8, ProductMonotone
  <2>3. (q * p) % V = q * p
    BY <1>1, <1>5, <1>6, <2>2, RemainderSmall
  <2>4. Notional(o) = (q * p) \div Scale
    BY <1>4, <1>7, <2>1, <2>3
  <2> QED BY <1>3, <1>8, <2>4 DEF q, p
<1>9. CASE q < 0
  <2>1. q % V = V + q
    BY <1>1, <1>3, <1>6, <1>9, RemainderUnique
  <2>2. (-q) * p \in Nat /\ (-q) * p <= H * R /\ (-q) * p >= 1
    BY <1>1, <1>3, <1>9, ProductMonotone
  <2> DEFINE d == (-q) * p
  <2>3. (V + q) * p = V * (p - 1) + (V - d)
    BY <1>1, <1>3
  <2> HIDE DEF d
  <2>4. V - d \in 0..(V - 1) /\ V - d >= C
    BY <1>1, <1>2, <1>4, <1>5, <2>2 DEF d
  <2>5. ((V + q) * p) % V = V - d
    <3> DEFINE a == (V + q) * p
               k == p - 1
               r == V - d
    <3>1. a \in Int /\ k \in Int /\ V \in Nat /\ V > 0 /\ r \in 0..(V - 1) /\ a = V * k + r
      BY <1>1, <1>3, <2>3, <2>4
    <3> HIDE DEF a, k, r
    <3>2. a % V = r
      BY ONLY <3>1, RemainderUnique
    <3> QED BY <3>2 DEF a, r
  <2>6. (V - d) \div Scale > l.max_notional_value_usd
    BY <1>1, <2>4, QuotientBound DEF C
  <2>7. Notional(o) = (V - d) \div Scale
    BY <1>4, <1>7, <2>1, <2>5
  <2> QED BY <1>3, <1>9, <2>6, <2>7 DEF q
<1> QED BY <1>1, <1>3, <1>8, <1>9 DEF q

\* One order, one state: the verdict is APPROVED exactly for a safe order.
LEMMA VerdictExact ==
    ASSUME LimitsBelowWrap, RiskType, NEW o \in Orders
    PROVE  Verdict(o) = "APPROVED" <=> Safe(o)
<1>1. /\ o.quantity \in SignedValues(QtyWidth) /\ o.price \in Int
      /\ o.quantity \in Int
  BY OrderFields, WidthAssumption DEF SignedValues
<1>2. /\ m_limits.max_order_qty \in Nat /\ m_limits.max_price_deviation_scaled \in Nat
      /\ m_limits.max_notional_value_usd \in Nat /\ m_limits.max_price_deviation_scaled < Reference
      /\ Reference \in Nat /\ Scale \in Nat \ {0}
  BY RiskAssumption DEF RiskType, LimitsBelowWrap
<1>3. Verdict(o) = "APPROVED" <=>
         /\ ~kill_switch_active /\ ~TooMany(o)
         /\ Deviation(o) <= m_limits.max_price_deviation_scaled
         /\ Notional(o) <= m_limits.max_notional_value_usd
  <2>1. Deviation(o) \in Int
    BY <1>1, <1>2 DEF Deviation
  <2>2. Notional(o) \in Int
    BY <1>1, <1>2, WidthAssumption DEF Notional, Unsigned
  <2>3. TooMany(o) \in BOOLEAN
    BY DEF TooMany
  <2>4. Deviation(o) > m_limits.max_price_deviation_scaled <=> ~(Deviation(o) <= m_limits.max_price_deviation_scaled)
    BY <1>2, <2>1
  <2>5. Notional(o) > m_limits.max_notional_value_usd <=> ~(Notional(o) <= m_limits.max_notional_value_usd)
    BY <1>2, <2>2
  <2> QED BY <2>3, <2>4, <2>5 DEF Verdict, RiskType
<1>4. TooMany(o) <=> o.quantity > m_limits.max_order_qty
  BY <1>1, <1>2 DEF TooMany
<1>5. Deviation(o) <= m_limits.max_price_deviation_scaled <=>
         /\ o.price - Reference <= m_limits.max_price_deviation_scaled
         /\ Reference - o.price <= m_limits.max_price_deviation_scaled
  BY <1>1, <1>2 DEF Deviation
<1>6. CASE Deviation(o) <= m_limits.max_price_deviation_scaled
  <2>1. o.price \in 1..(Reference + m_limits.max_price_deviation_scaled)
    BY <1>1, <1>2, <1>5, <1>6
  <2>2. /\ o.quantity >= 0 => Notional(o) = (o.quantity * o.price) \div Scale
        /\ o.quantity < 0 => Notional(o) > m_limits.max_notional_value_usd
    BY <1>1, <2>1, NotionalExact DEF RiskType
  <2>3. o.quantity < 0 => ~(Notional(o) <= m_limits.max_notional_value_usd)
    BY <1>1, <1>2, <2>2, WidthAssumption DEF Notional, Unsigned
  <2>4. o.quantity >= 0 <=> ~(o.quantity < 0)
    BY <1>1
  <2>5. o.quantity <= m_limits.max_order_qty <=> ~(o.quantity > m_limits.max_order_qty)
    BY <1>1, <1>2
  <2> QED BY <1>3, <1>4, <1>5, <1>6, <2>2, <2>3, <2>4, <2>5 DEF Safe
<1>7. CASE ~(Deviation(o) <= m_limits.max_price_deviation_scaled)
  BY <1>3, <1>5, <1>7 DEF Safe
<1> QED BY <1>6, <1>7

\* Nothing but the risk manager's owner touches the limits, and only between
\* sets of limits it may be given.
LEMMA StepKeepsRisk == RiskType /\ [Next]_vars => RiskType'
<1> SUFFICES ASSUME RiskType, [Next]_vars PROVE RiskType'
  OBVIOUS
<1>1. CASE UNCHANGED vars
  BY <1>1 DEF RiskType, vars, riskVars
<1>2. CASE \E o \in Orders : HandleMessage(o)
  BY <1>2 DEF RiskType, HandleMessage, EvaluateOrder
<1>3. CASE Match \/ Place
  BY <1>3 DEF RiskType, Match, Place, riskVars
<1>4. CASE Settings
  BY <1>4 DEF RiskType, Settings, SetKillSwitch, SetLimits
<1> QED BY <1>1, <1>2, <1>3, <1>4 DEF Next

\* The limits in force are always ones the manager was given.
THEOREM RiskTypeInvariance == Spec => []RiskType
<1>1. Init => RiskType
  BY DEF Init, RiskInit, RiskType
<1> QED BY <1>1, StepKeepsRisk, PTL DEF Spec

\* evaluate_order, in 64-bit unsigned arithmetic, approves exactly the orders
\* that are within the limits in exact arithmetic.
THEOREM RiskCheckExact == LimitsBelowWrap => (Spec => []ApprovedIffSafe)
<1> SUFFICES ASSUME LimitsBelowWrap PROVE Spec => []ApprovedIffSafe
  OBVIOUS
<1>1. RiskType => ApprovedIffSafe
  BY VerdictExact DEF ApprovedIffSafe
<1> QED BY <1>1, RiskTypeInvariance, PTL

\* The book is given the quantity its sender wrote.
THEOREM QuantityReachesBook == LimitsBelowWrap => (Spec => []WireQuantityKept)
<1> SUFFICES ASSUME LimitsBelowWrap PROVE Spec => []WireQuantityKept
  OBVIOUS
<1>1. RiskType => WireQuantityKept
  <2> SUFFICES ASSUME RiskType, NEW m \in WireMessages,
                      Verdict(Decode(m)) = "APPROVED", Decode(m).new_order
               PROVE  RemainingQty(Decode(m)) = m.quantity
    BY DEF WireQuantityKept
  <2>1. m \in Datagrams /\ Decode(m) \in Orders
    BY RiskAssumption DEF Orders
  <2>2. Decode(m).quantity >= 0
    BY <2>1, VerdictExact DEF Safe
  <2>3. Decode(m).quantity = m.quantity /\ Decode(m).quantity \in SignedValues(QtyWidth)
    BY <2>1, <2>2, DecodedFields
  <2>4. 2^QtyWidth \in Nat /\ 2^QtyWidth > 0 /\ Decode(m).quantity \in 0..(2^QtyWidth - 1)
    BY <2>2, <2>3, WidthAssumption DEF SignedValues
  <2> QED BY <2>3, <2>4, RemainderSmall DEF RemainingQty
<1> QED BY <1>1, RiskTypeInvariance, PTL

----------------------------------------------------------------------------
(* Sequences.                                                              *)

\* The elements of a sequence.
LEMMA ToSetElements ==
    ASSUME NEW S, NEW p \in Seq(S)
    PROVE  ToSet(p) = {p[i] : i \in 1..Len(p)}
<1>1. DOMAIN p = 1..Len(p)
  OBVIOUS
<1> QED BY <1>1, Zenon DEF ToSet

\* The smallest element of a set of indices.
LEMMA LeastElement ==
    ASSUME NEW T \in SUBSET Nat, T # {}
    PROVE  Min(T) \in T /\ \A y \in T : Min(T) <= y
<1> DEFINE R == OpToRel(<, Nat)
<1>1. PICK m \in T : \A y \in T : ~(<<y, m>> \in R)
  <2> HIDE DEF R
  <2> QED BY NatLessThanWellFounded, WFMin DEF R
<1>2. \A y \in T : ~(y < m)
  BY <1>1 DEF OpToRel
<1>3. \A y \in T : m <= y
  <2> TAKE y \in T
  <2>1. y \in Nat /\ m \in Nat
    OBVIOUS
  <2> QED BY <1>2, <2>1
<1> QED BY <1>3 DEF Min

\* What a vector holds after insert: the elements before the place, the new
\* one, and the others moved by one.
LEMMA InsertAtElements ==
    ASSUME NEW S, NEW p \in Seq(S), NEW e \in S, NEW k \in 1..(Len(p) + 1)
    PROVE  /\ InsertAt(p, k, e) \in Seq(S) /\ Len(InsertAt(p, k, e)) = Len(p) + 1
           /\ \A j \in 1..(Len(p) + 1) :
                 InsertAt(p, k, e)[j] = IF j < k THEN p[j] ELSE IF j = k THEN e ELSE p[j - 1]
<1> DEFINE a == SubSeq(p, 1, k - 1)
           b == SubSeq(p, k, Len(p))
           c == a \o <<e>>
<1>1. Len(p) \in Nat /\ \A i \in 1..Len(p) : p[i] \in S
  OBVIOUS
<1>2. /\ a \in Seq(S) /\ Len(a) = k - 1
      /\ \A j \in 1..(k - 1) : a[j] = p[j]
  <2>1. \A i \in 1..(k - 1) : p[i] \in S
    BY <1>1
  <2> QED BY <1>1, <2>1, SubSeqProperties
<1>3. /\ b \in Seq(S) /\ Len(b) = Len(p) - k + 1
      /\ \A j \in 1..(Len(p) - k + 1) : b[j] = p[k + j - 1]
  <2>1. \A i \in k..Len(p) : p[i] \in S
    BY <1>1
  <2> QED BY <1>1, <2>1, SubSeqProperties
<1> HIDE DEF a, b
<1>4. /\ c \in Seq(S) /\ Len(c) = k
      /\ \A j \in 1..k : c[j] = IF j < k THEN p[j] ELSE e
  BY <1>1, <1>2
<1> HIDE DEF c
<1>5. /\ c \o b \in Seq(S) /\ Len(c \o b) = Len(p) + 1
      /\ \A j \in 1..(Len(p) + 1) : (c \o b)[j] = IF j <= k THEN c[j] ELSE b[j - k]
  <2>1. /\ c \o b \in Seq(S) /\ Len(c \o b) = Len(c) + Len(b)
        /\ \A j \in 1..(Len(c) + Len(b)) : (c \o b)[j] = IF j <= Len(c) THEN c[j] ELSE b[j - Len(c)]
    BY <1>3, <1>4, ConcatProperties
  <2>2. Len(c) + Len(b) = Len(p) + 1
    BY <1>1, <1>3, <1>4
  <2> QED BY <1>4, <2>1, <2>2
<1>6. InsertAt(p, k, e) = c \o b
  BY DEF InsertAt, a, b, c
<1>7. ASSUME NEW j \in 1..(Len(p) + 1)
      PROVE  (c \o b)[j] = IF j < k THEN p[j] ELSE IF j = k THEN e ELSE p[j - 1]
  <2>1. CASE j <= k
    BY <1>1, <1>4, <1>5, <2>1
  <2>2. CASE j > k
    <3>1. j - k \in 1..(Len(p) - k + 1) /\ k + (j - k) - 1 = j - 1
      BY <1>1, <2>2
    <3>2. b[j - k] = p[j - 1]
      BY <1>3, <3>1
    <3>3. ~(j <= k) /\ ~(j < k) /\ j # k
      BY <1>1, <2>2
    <3>4. (c \o b)[j] = b[j - k]
      BY <1>5, <3>3
    <3> QED BY <3>2, <3>3, <3>4
  <2>3. j <= k \/ j > k
    BY <1>1
  <2> QED BY <2>1, <2>2, <2>3
<1> QED BY <1>5, <1>6, <1>7

----------------------------------------------------------------------------
(* One side of a book.                                                     *)

BookOrder == [id : Nat, side : {1, 2}, price : Int, qty : Nat]

\* a has priority over b on side s.
Precedes(s, a, b) ==
    \/ IF s = 1 THEN a.price > b.price ELSE a.price < b.price
    \/ a.price = b.price /\ a.id < b.id

\* The vector of side s holds unspent orders of that side with numbers up to
\* n, in the order of their priority.
SideInOrder(side, s, n) ==
    /\ side \in Seq(BookOrder)
    /\ \A i \in 1..Len(side) : side[i].side = s /\ side[i].qty > 0 /\ side[i].id <= n
    /\ \A i, j \in 1..Len(side) : i < j => Precedes(s, side[i], side[j])

\* The order that gives up qty.
Reduced(o, qty) == [o EXCEPT !.qty = @ - qty]

\* The order that gives up qty is the same order otherwise.
LEMMA ReducedFields ==
    ASSUME NEW o \in BookOrder, NEW q \in Nat, q <= o.qty
    PROVE  /\ Reduced(o, q) \in BookOrder
           /\ Reduced(o, q).id = o.id /\ Reduced(o, q).side = o.side
           /\ Reduced(o, q).price = o.price /\ Reduced(o, q).qty = o.qty - q
BY DEF BookOrder, Reduced

\* An order has no priority over itself.
LEMMA PrecedesIrreflexive ==
    ASSUME NEW s \in {1, 2}, NEW a \in BookOrder
    PROVE  ~Precedes(s, a, a)
BY DEF Precedes, BookOrder

\* The front order is the one with priority over all others.
LEMMA FrontIsBest ==
    ASSUME NEW s \in {1, 2}, NEW n \in Nat, NEW side, SideInOrder(side, s, n), side # <<>>
    PROVE  /\ Head(side) \in ToSet(side) /\ Head(side) \in BookOrder
           /\ Head(side).side = s /\ Head(side).qty > 0 /\ Head(side).id <= n
           /\ \A x \in ToSet(side) : x = Head(side) \/ Precedes(s, Head(side), x)
<1>1. side \in Seq(BookOrder) /\ Len(side) \in Nat /\ Len(side) >= 1 /\ Head(side) = side[1] /\ side[1] \in BookOrder
  BY DEF SideInOrder
<1>2. ToSet(side) = {side[i] : i \in 1..Len(side)}
  BY <1>1, ToSetElements
<1>3. 1 \in 1..Len(side)
  BY <1>1
<1>4. ASSUME NEW i \in 1..Len(side), i # 1 PROVE Precedes(s, side[1], side[i])
  BY <1>1, <1>3, <1>4 DEF SideInOrder
<1> QED BY <1>1, <1>2, <1>3, <1>4 DEF SideInOrder

\* More orders may have arrived at other books since.
LEMMA SideInOrderLater ==
    ASSUME NEW s, NEW n \in Nat, NEW m \in Nat, n <= m, NEW side, SideInOrder(side, s, n)
    PROVE  SideInOrder(side, s, m)
<1>1. \A i \in 1..Len(side) : side[i] \in BookOrder
  BY DEF SideInOrder
<1>2. \A i \in 1..Len(side) : side[i].id \in Nat
  BY <1>1 DEF BookOrder
<1> QED BY <1>2 DEF SideInOrder

\* TakeFront leaves the side in order, and takes from the front order alone.
LEMMA TakeFrontEffect ==
    ASSUME NEW s \in {1, 2}, NEW n \in Nat, NEW side, SideInOrder(side, s, n), side # <<>>,
           NEW q \in Nat, q > 0, q <= Head(side).qty
    PROVE  /\ SideInOrder(TakeFront(side, q), s, n)
           /\ ToSet(TakeFront(side, q)) =
                 IF q = Head(side).qty THEN ToSet(side) \ {Head(side)}
                 ELSE (ToSet(side) \ {Head(side)}) \cup {Reduced(Head(side), q)}
<1> DEFINE f == Head(side)
           r == Tail(side)
           N == Len(side)
<1>1. /\ side \in Seq(BookOrder) /\ N \in Nat /\ N >= 1
      /\ f = side[1] /\ f \in BookOrder
      /\ r \in Seq(BookOrder) /\ Len(r) = N - 1
      /\ \A i \in 1..(N - 1) : r[i] = side[i + 1]
      /\ \A i \in 1..N : side[i] \in BookOrder
  BY DEF SideInOrder
<1>2. /\ \A i \in 1..N : side[i].side = s /\ side[i].qty > 0 /\ side[i].id <= n
      /\ \A i, j \in 1..N : i < j => Precedes(s, side[i], side[j])
  BY DEF SideInOrder
<1> HIDE DEF f, r, N
<1>3. ToSet(side) = {side[i] : i \in 1..N} /\ ToSet(r) = {r[i] : i \in 1..(N - 1)}
  BY <1>1, ToSetElements DEF N
<1>4. ASSUME NEW i \in 1..N, i # 1
      PROVE  side[i] # f /\ i - 1 \in 1..(N - 1) /\ r[i - 1] = side[i]
  <2>1. Precedes(s, f, side[i])
    BY <1>1, <1>2, <1>4
  <2>2. side[i] # f
    BY <1>1, <2>1, PrecedesIrreflexive
  <2>3. i - 1 \in 1..(N - 1) /\ (i - 1) + 1 = i
    BY <1>1, <1>4
  <2> QED BY <1>1, <2>2, <2>3
<1>5. ToSet(r) = ToSet(side) \ {f}
  <2>1. ASSUME NEW x \in ToSet(r) PROVE x \in ToSet(side) \ {f}
    <3>1. PICK i \in 1..(N - 1) : x = r[i]
      BY <1>3
    <3>2. i + 1 \in 1..N /\ i + 1 # 1 /\ x = side[i + 1]
      BY <1>1, <3>1
    <3> QED BY <1>3, <1>4, <3>2
  <2>2. ASSUME NEW x \in ToSet(side), x # f PROVE x \in ToSet(r)
    <3>1. PICK i \in 1..N : x = side[i]
      BY <1>3
    <3>2. i # 1
      BY <1>1, <2>2, <3>1
    <3> QED BY <1>3, <1>4, <3>1, <3>2
  <2> QED BY <2>1, <2>2
<1>6. CASE q = f.qty
  <2>1. TakeFront(side, q) = r
    BY <1>6 DEF TakeFront, f, r
  <2>2. SideInOrder(r, s, n)
    <3>1. \A i \in 1..(N - 1) : i + 1 \in 1..N
      BY <1>1
    <3>2. ASSUME NEW i \in 1..(N - 1), NEW j \in 1..(N - 1), i < j PROVE Precedes(s, r[i], r[j])
      <4>1. i + 1 < j + 1
        BY <1>1, <3>2
      <4>2. i + 1 \in 1..N /\ j + 1 \in 1..N /\ r[i] = side[i + 1] /\ r[j] = side[j + 1]
        BY <1>1, <3>1
      <4> QED BY <1>2, <4>1, <4>2
    <3>3. \A i \in 1..(N - 1) : r[i].side = s /\ r[i].qty > 0 /\ r[i].id <= n
      BY <1>1, <1>2, <3>1
    <3>4. r \in Seq(BookOrder) /\ Len(r) = N - 1
      BY <1>1
    <3> QED BY <3>2, <3>3, <3>4 DEF SideInOrder
  <2> QED BY <1>5, <1>6, <2>1, <2>2 DEF f
<1>7. CASE q # f.qty
  <2> DEFINE g == Reduced(f, q)
             t == <<g>> \o r
  <2>1. TakeFront(side, q) = t
    BY <1>7 DEF TakeFront, f, r, Reduced
  <2>2. g \in BookOrder /\ g.side = s /\ g.qty > 0 /\ g.id = f.id /\ g.price = f.price /\ g.id <= n
    <3>1. q <= f.qty /\ f.qty \in Nat /\ f.side = s /\ f.id <= n
      BY <1>1, <1>2 DEF f, BookOrder
    <3> QED BY <1>1, <1>7, <3>1, ReducedFields
  <2> HIDE DEF g
  <2>3. /\ t \in Seq(BookOrder) /\ Len(t) = N /\ t[1] = g
        /\ \A i \in 1..N : i # 1 => t[i] = side[i]
    <3>1. t \in Seq(BookOrder) /\ Len(t) = 1 + Len(r)
          /\ \A i \in 1..(1 + Len(r)) : t[i] = IF i <= 1 THEN <<g>>[i] ELSE r[i - 1]
      BY <1>1, <2>2
    <3> HIDE DEF t
    <3>2. 1 + Len(r) = N /\ 1 \in 1..N
      BY <1>1
    <3>3. t[1] = g
      BY <3>1, <3>2
    <3>4. ASSUME NEW i \in 1..N, i # 1 PROVE t[i] = side[i]
      <4>1. i \in 1..(1 + Len(r)) /\ ~(i <= 1)
        BY <1>1, <3>2, <3>4
      <4>2. t[i] = r[i - 1]
        BY <3>1, <4>1
      <4> QED BY <1>4, <3>4, <4>2
    <3> QED BY <3>1, <3>2, <3>3, <3>4
  <2> HIDE DEF t
  <2>4. SideInOrder(t, s, n)
    <3>1. \A i \in 1..N : t[i].side = s /\ t[i].qty > 0 /\ t[i].id <= n
      BY <1>2, <2>2, <2>3
    <3>2. ASSUME NEW i \in 1..N, NEW j \in 1..N, i < j PROVE Precedes(s, t[i], t[j])
      <4>1. Precedes(s, side[i], side[j]) /\ j # 1 /\ t[j] = side[j]
        BY <1>1, <1>2, <2>3, <3>2
      <4>2. t[i].price = side[i].price /\ t[i].id = side[i].id
        BY <1>1, <2>2, <2>3
      <4> QED BY <4>1, <4>2 DEF Precedes
    <3> QED BY <2>3, <3>1, <3>2 DEF SideInOrder
  <2>5. ToSet(t) = {t[i] : i \in 1..N}
    BY <2>3, ToSetElements
  <2>6. ASSUME NEW x \in ToSet(t) PROVE x \in (ToSet(side) \ {f}) \cup {g}
    BY <1>3, <1>4, <2>3, <2>5
  <2>7. ASSUME NEW x \in (ToSet(side) \ {f}) \cup {g} PROVE x \in ToSet(t)
    <3>1. CASE x = g
      BY <1>1, <2>3, <2>5, <3>1
    <3>2. CASE x \in ToSet(side) \ {f}
      <4>1. PICK i \in 1..N : x = side[i] /\ i # 1
        BY <1>1, <1>3, <3>2
      <4> QED BY <2>3, <2>5, <4>1
    <3> QED BY <3>1, <3>2
  <2>8. ToSet(t) = (ToSet(side) \ {f}) \cup {g}
    BY <2>6, <2>7
  <2> QED BY <1>7, <2>1, <2>4, <2>8 DEF f, g
<1> QED BY <1>6, <1>7

\* The place std::upper_bound finds: no order before it is worse than o, every
\* order from it on is.
LEMMA UpperBoundPlace ==
    ASSUME NEW s \in {1, 2}, NEW n \in Nat, NEW side, SideInOrder(side, s, n),
           NEW o \in BookOrder, o.side = s
    PROVE  \E k \in 1..(Len(side) + 1) :
              /\ InsertSorted(side, o) = InsertAt(side, k, o)
              /\ \A i \in 1..Len(side) :
                    i >= k <=> IF s = 1 THEN side[i].price < o.price ELSE side[i].price > o.price
<1> DEFINE Worse(i) == IF s = 1 THEN side[i].price < o.price ELSE side[i].price > o.price
           worse == {i \in 1..Len(side) : Worse(i)}
           k == IF worse = {} THEN Len(side) + 1 ELSE Min(worse)
<1>1. side \in Seq(BookOrder) /\ Len(side) \in Nat /\ DOMAIN side = 1..Len(side)
  BY DEF SideInOrder
<1>2. \A i \in 1..Len(side) : side[i] \in BookOrder
  BY <1>1
<1>3. InsertSorted(side, o) = InsertAt(side, k, o)
  <2>1. {i \in DOMAIN side : IF o.side = 1 THEN side[i].price < o.price ELSE side[i].price > o.price} = worse
    BY <1>1
  <2> QED BY <2>1, Zenon DEF InsertSorted
<1>4. ASSUME NEW i \in 1..Len(side), NEW j \in 1..Len(side), i <= j, Worse(i)
      PROVE  Worse(j)
  <2>1. i = j \/ Precedes(s, side[i], side[j])
    BY <1>1, <1>4 DEF SideInOrder
  <2>2. side[i].price \in Int /\ side[j].price \in Int /\ o.price \in Int
    BY <1>2 DEF BookOrder
  <2> QED BY <1>4, <2>1, <2>2 DEF Precedes
<1>5. CASE worse = {}
  <2>1. k = Len(side) + 1 /\ k \in 1..(Len(side) + 1)
    BY <1>1, <1>5
  <2>2. \A i \in 1..Len(side) : ~Worse(i) /\ ~(i >= k)
    BY <1>1, <1>5, <2>1
  <2> QED BY <1>3, <2>1, <2>2
<1>6. CASE worse # {}
  <2>1. k \in worse /\ \A y \in worse : k <= y
    <3>1. worse \in SUBSET Nat
      BY <1>1
    <3>2. k = Min(worse)
      BY <1>6
    <3> HIDE DEF worse, k
    <3> QED BY <1>6, <3>1, <3>2, LeastElement
  <2>2. k \in 1..(Len(side) + 1) /\ k \in 1..Len(side) /\ Worse(k)
    BY <1>1, <2>1
  <2>3. ASSUME NEW i \in 1..Len(side) PROVE i >= k <=> Worse(i)
    <3> HIDE DEF k
    <3>1. i >= k => Worse(i)
      BY <1>4, <2>2
    <3>2. Worse(i) => i \in worse
      OBVIOUS
    <3>3. Worse(i) => k <= i
      BY <2>1, <3>2
    <3> QED BY <2>2, <3>1, <3>3
  <2> QED BY <1>3, <2>2, <2>3
<1> QED BY <1>5, <1>6

\* InsertSorted leaves the side in order and adds the new order, which is
\* none of the others.
LEMMA InsertSortedEffect ==
    ASSUME NEW s \in {1, 2}, NEW n \in Nat, NEW side, SideInOrder(side, s, n),
           NEW o \in BookOrder, o.side = s, o.qty > 0, o.id > n
    PROVE  /\ SideInOrder(InsertSorted(side, o), s, o.id)
           /\ ToSet(InsertSorted(side, o)) = ToSet(side) \cup {o}
           /\ o \notin ToSet(side)
<1> DEFINE Worse(i) == IF s = 1 THEN side[i].price < o.price ELSE side[i].price > o.price
           N == Len(side)
<1>1. PICK k \in 1..(N + 1) : /\ InsertSorted(side, o) = InsertAt(side, k, o)
                             /\ \A i \in 1..N : i >= k <=> Worse(i)
  BY UpperBoundPlace
<1>2. /\ side \in Seq(BookOrder) /\ N \in Nat
      /\ \A i \in 1..N : side[i].side = s /\ side[i].qty > 0 /\ side[i].id <= n
      /\ \A i, j \in 1..N : i < j => Precedes(s, side[i], side[j])
  BY DEF SideInOrder
<1>3. \A i \in 1..N : side[i] \in BookOrder
  BY <1>2
<1>4. \A i \in 1..N : side[i].price \in Int /\ side[i].id \in Nat
  BY <1>3 DEF BookOrder
<1>5. o.price \in Int /\ o.id \in Nat
  BY DEF BookOrder
<1> DEFINE t == InsertAt(side, k, o)
<1>6. /\ t \in Seq(BookOrder) /\ Len(t) = N + 1
      /\ \A j \in 1..(N + 1) : t[j] = IF j < k THEN side[j] ELSE IF j = k THEN o ELSE side[j - 1]
  <2>1. side \in Seq(BookOrder) /\ o \in BookOrder /\ k \in 1..(Len(side) + 1)
    BY <1>2
  <2>2. InsertAt(side, k, o) \in Seq(BookOrder) /\ Len(InsertAt(side, k, o)) = Len(side) + 1
    BY ONLY <2>1, InsertAtElements
  <2>3. \A j \in 1..(Len(side) + 1) :
              InsertAt(side, k, o)[j] = IF j < k THEN side[j] ELSE IF j = k THEN o ELSE side[j - 1]
    BY ONLY <2>1, InsertAtElements
  <2> QED BY <2>2, <2>3
<1> HIDE DEF t, N
<1>7. ASSUME NEW i \in 1..N, i < k PROVE Precedes(s, side[i], o)
  <2>1. ~Worse(i)
    BY <1>1, <1>2, <1>7
  <2>2. side[i].id < o.id
    BY <1>2, <1>4, <1>5
  <2> QED BY <1>4, <1>5, <2>1, <2>2 DEF Precedes
<1>8. ASSUME NEW i \in 1..N, i >= k PROVE Precedes(s, o, side[i])
  BY <1>1, <1>8 DEF Precedes
<1>9. ASSUME NEW j \in 1..(N + 1)
      PROVE  /\ j < k => j \in 1..N /\ t[j] = side[j]
             /\ j = k => t[j] = o
             /\ j > k => j - 1 \in 1..N /\ j - 1 >= k /\ t[j] = side[j - 1]
  BY <1>2, <1>6
<1>10. SideInOrder(t, s, o.id)
  <2>1. ASSUME NEW j \in 1..(N + 1) PROVE t[j].side = s /\ t[j].qty > 0 /\ t[j].id <= o.id
    <3>1. \A i \in 1..N : side[i].id <= o.id
      BY <1>2, <1>4, <1>5
    <3>2. j < k \/ j = k \/ j > k
      BY <1>2
    <3> QED BY <1>2, <1>5, <1>9, <3>1, <3>2
  <2>2. ASSUME NEW i \in 1..(N + 1), NEW j \in 1..(N + 1), i < j PROVE Precedes(s, t[i], t[j])
    <3>1. CASE j < k
      BY <1>2, <1>9, <2>2, <3>1
    <3>2. CASE j = k
      BY <1>2, <1>7, <1>9, <2>2, <3>2
    <3>3. CASE j > k /\ i < k
      <4>1. i < j - 1
        BY <1>2, <3>3
      <4> QED BY <1>2, <1>9, <3>3, <4>1
    <3>4. CASE i = k
      BY <1>2, <1>8, <1>9, <2>2, <3>4
    <3>5. CASE i > k
      <4>1. i - 1 < j - 1 /\ j > k
        BY <1>2, <2>2, <3>5
      <4> QED BY <1>2, <1>9, <3>5, <4>1
    <3> QED BY <1>2, <2>2, <3>1, <3>2, <3>3, <3>4, <3>5
  <2> QED BY <1>6, <2>1, <2>2 DEF SideInOrder
<1>11. ToSet(side) = {side[i] : i \in 1..N} /\ ToSet(t) = {t[i] : i \in 1..(N + 1)}
  BY <1>2, <1>6, ToSetElements DEF N
<1>12. ToSet(t) = ToSet(side) \cup {o}
  <2>1. ASSUME NEW x \in ToSet(t) PROVE x \in ToSet(side) \cup {o}
    <3>1. PICK j \in 1..(N + 1) : x = t[j]
      BY <1>11
    <3>2. j < k \/ j = k \/ j > k
      BY <1>2
    <3> QED BY <1>9, <1>11, <3>1, <3>2
  <2>2. o \in ToSet(t)
    BY <1>9, <1>11
  <2>3. ASSUME NEW x \in ToSet(side) PROVE x \in ToSet(t)
    <3>1. PICK i \in 1..N : x = side[i]
      BY <1>11
    <3>2. CASE i < k
      <4>1. i \in 1..(N + 1) /\ t[i] = side[i]
        BY <1>2, <1>9, <3>2
      <4> QED BY <1>11, <3>1, <4>1
    <3>3. CASE i >= k
      <4>1. i + 1 \in 1..(N + 1) /\ i + 1 > k /\ (i + 1) - 1 = i
        BY <1>2, <3>3
      <4>2. t[i + 1] = side[i]
        BY <1>9, <4>1
      <4> QED BY <1>11, <3>1, <4>1, <4>2
    <3> QED BY <1>2, <3>2, <3>3
  <2> QED BY <2>1, <2>2, <2>3
<1>13. o \notin ToSet(side)
  BY <1>2, <1>4, <1>5, <1>11
<1> QED BY <1>1, <1>10, <1>12, <1>13 DEF t

----------------------------------------------------------------------------
(* MatchingEngine.                                                         *)

TakerOrder == [sym : Symbols, id : Nat, side : {1, 2}, price : Int, qty : Nat]

EngineType ==
    /\ DOMAIN m_books \subseteq Symbols
    /\ m_books \in [DOMAIN m_books -> [{1, 2} -> Seq(BookOrder)]]
    /\ taker # NoOrder =>
          /\ taker \in TakerOrder /\ taker.sym \in DOMAIN m_books
          /\ taker.id = latest[taker.sym] /\ taker.id >= 1
    /\ last \in Nat
    /\ latest \in [Symbols -> Nat] /\ \A sym \in Symbols : latest[sym] <= last
    /\ submitted \in [Symbols -> Nat] /\ m_total_volume \in [Symbols -> Nat]

\* The number of the newest order that may rest in a book: the taker has its
\* number already.
Newest(sym) == IF taker # NoOrder /\ taker.sym = sym THEN taker.id - 1 ELSE latest[sym]

\* Both sides of every book are in the order of priority.
BooksInOrder == \A sym \in Symbols, s \in {1, 2} : SideInOrder(BookOf(sym)[s], s, Newest(sym))

\* The orders in the engine have passed the risk check: a part of one is
\* within the same limits, since its price is positive.
Admitted(o) ==
    /\ o.price >= 1
    /\ \E l \in Limits :
          o.qty <= l.max_order_qty /\ (o.qty * o.price) \div Scale <= l.max_notional_value_usd
OrdersAdmitted ==
    /\ \A sym \in Symbols : \A o \in Resting(sym) : Admitted(o)
    /\ taker # NoOrder => Admitted(taker)

EngineInv == EngineType /\ BooksInOrder

\* The books as functions.
LEMMA BookOfType ==
    ASSUME EngineType, NEW sym \in Symbols
    PROVE  BookOf(sym) \in [{1, 2} -> Seq(BookOrder)]
BY DEF EngineType, BookOf, EmptyBook

\* NoOrder is none of the orders.
LEMMA TakerIsNoOrder == NoOrder \notin TakerOrder /\ NoOrder \notin BookOrder
BY EngineAssumption DEF TakerOrder, BookOrder

\* The symbol of the book process_order finds or creates.
LEMMA BookKeyType ==
    ASSUME NEW sym \in Symbols \cup {EmptySymbol}
    PROVE  BookKey(sym) \in Symbols
BY EngineAssumption DEF BookKey

\* Creating a book changes no book.
LEMMA CreateEffect ==
    ASSUME EngineType, NEW key \in Symbols,
           m_books' = [b \in DOMAIN m_books \cup {key} |-> BookOf(b)]
    PROVE  /\ DOMAIN m_books' = DOMAIN m_books \cup {key}
           /\ m_books' \in [DOMAIN m_books' -> [{1, 2} -> Seq(BookOrder)]]
           /\ \A sym \in Symbols : BookOf(sym)' = BookOf(sym)
<1>1. \A b \in DOMAIN m_books \cup {key} : BookOf(b) \in [{1, 2} -> Seq(BookOrder)]
  BY BookOfType DEF EngineType
<1>2. DOMAIN m_books' = DOMAIN m_books \cup {key} /\ \A b \in DOMAIN m_books' : m_books'[b] = BookOf(b)
  OBVIOUS
<1>3. ASSUME NEW sym \in Symbols PROVE BookOf(sym)' = BookOf(sym)
  <2>1. CASE sym \in DOMAIN m_books'
    BY <1>2, <2>1 DEF BookOf
  <2>2. CASE sym \notin DOMAIN m_books'
    <3>1. sym \notin DOMAIN m_books
      BY <1>2, <2>2
    <3> QED BY <2>2, <3>1 DEF BookOf, EmptyBook
  <2> QED BY <2>1, <2>2
<1> QED BY <1>1, <1>2, <1>3

\* The book of a symbol in a set of books.
BookIn(books, sym) == IF sym \in DOMAIN books THEN books[sym] ELSE EmptyBook

\* The books with one side of one of them replaced.
WithSide(books, key, side, new) == [books EXCEPT ![key][side] = new]

\* What the sides of the books are after one side of one book is replaced.
LEMMA ReplaceSide ==
    ASSUME NEW books, books \in [DOMAIN books -> [{1, 2} -> Seq(BookOrder)]],
           NEW key \in DOMAIN books, NEW side \in {1, 2}, NEW new \in Seq(BookOrder),
           NEW after, after = WithSide(books, key, side, new),
           NEW sym, NEW s \in {1, 2}
    PROVE  BookIn(after, sym)[s] = IF sym = key /\ s = side THEN new ELSE BookIn(books, sym)[s]
<1>1. DOMAIN after = DOMAIN books
  BY DEF WithSide
<1>2. CASE sym \in DOMAIN books
  BY <1>2 DEF BookIn, WithSide
<1>3. CASE sym \notin DOMAIN books
  BY <1>1, <1>3 DEF BookIn
<1> QED BY <1>2, <1>3

\* A step that replaces one side of one book.
LEMMA ReplaceEffect ==
    ASSUME EngineType, NEW key \in DOMAIN m_books, NEW side \in {1, 2}, NEW new \in Seq(BookOrder),
           m_books' = WithSide(m_books, key, side, new), NEW sym, NEW s \in {1, 2}
    PROVE  /\ DOMAIN m_books' = DOMAIN m_books
           /\ m_books' \in [DOMAIN m_books' -> [{1, 2} -> Seq(BookOrder)]]
           /\ sym = key /\ s = side => BookIn(m_books', sym)[s] = new
           /\ sym # key \/ s # side => BookIn(m_books', sym)[s] = BookIn(m_books, sym)[s]
<1>1. m_books \in [DOMAIN m_books -> [{1, 2} -> Seq(BookOrder)]]
  BY DEF EngineType
<1>2. DOMAIN m_books' = DOMAIN m_books /\ m_books' \in [DOMAIN m_books' -> [{1, 2} -> Seq(BookOrder)]]
  <2> DEFINE D == DOMAIN m_books
             B == [{1, 2} -> Seq(BookOrder)]
  <2>1. m_books \in [D -> B] /\ key \in D /\ m_books[key] \in B
    BY <1>1
  <2>2. [m_books[key] EXCEPT ![side] = new] \in B
    BY <2>1
  <2>3. m_books' = [m_books EXCEPT ![key] = [m_books[key] EXCEPT ![side] = new]]
    BY DEF WithSide
  <2> HIDE DEF D, B
  <2>4. m_books' \in [D -> B] /\ DOMAIN m_books' = D
    BY <2>1, <2>2, <2>3
  <2> QED BY <2>4 DEF D, B
<1>3. BookIn(m_books', sym)[s] = IF sym = key /\ s = side THEN new ELSE BookIn(m_books, sym)[s]
  BY <1>1, ReplaceSide, SMTT(30)
<1> QED BY <1>2, <1>3

\* The books before and after a step.
LEMMA BooksOf ==
    ASSUME NEW sym
    PROVE  BookOf(sym) = BookIn(m_books, sym) /\ BookOf(sym)' = BookIn(m_books', sym)
BY DEF BookOf, BookIn, EmptyBook

\* The quantity of one fill.
MatchQty == IF taker.qty < Head(Other).qty THEN taker.qty ELSE Head(Other).qty

\* One iteration of the matching loop: the front order of the other side and
\* the taker give up the same quantity, and nothing else changes.
LEMMA MatchEffect ==
    ASSUME EngineInv, MatchFront
    PROVE  /\ taker \in TakerOrder /\ taker # NoOrder /\ taker.sym \in Symbols /\ taker.sym \in DOMAIN m_books
           /\ Other = BookOf(taker.sym)[3 - taker.side] /\ Other # <<>> /\ taker.qty > 0
           /\ SideInOrder(Other, 3 - taker.side, taker.id - 1) /\ 3 - taker.side \in {1, 2}
           /\ ~LimitReached(Head(Other).price)
           /\ MatchQty \in Nat /\ MatchQty > 0 /\ MatchQty <= taker.qty /\ MatchQty <= Head(Other).qty
           /\ taker' = [taker EXCEPT !.qty = @ - MatchQty]
           /\ TakeFront(Other, MatchQty) \in Seq(BookOrder)
           /\ m_books' = WithSide(m_books, taker.sym, 3 - taker.side, TakeFront(Other, MatchQty))
           /\ m_total_volume' = [m_total_volume EXCEPT ![taker.sym] = @ + MatchQty]
           /\ UNCHANGED <<last, latest, submitted>>
<1>1. taker \in TakerOrder /\ taker # NoOrder /\ taker.sym \in DOMAIN m_books
  BY DEF MatchFront, Matches, EngineInv, EngineType
<1>2. taker.sym \in Symbols /\ taker.side \in {1, 2} /\ 3 - taker.side \in {1, 2} /\ taker.qty \in Nat /\ taker.id \in Nat /\ taker.id >= 1
  BY <1>1 DEF TakerOrder, EngineInv, EngineType
<1>3. Other = BookOf(taker.sym)[3 - taker.side]
  BY <1>1 DEF Other, BookOf
<1>4. Other # <<>> /\ taker.qty > 0 /\ ~LimitReached(Head(Other).price)
  BY DEF MatchFront, Matches
<1>5. SideInOrder(Other, 3 - taker.side, taker.id - 1)
  <2>1. Newest(taker.sym) = taker.id - 1
    BY <1>1 DEF Newest
  <2> QED BY <1>2, <1>3, <2>1 DEF EngineInv, BooksInOrder
<1>6. Head(Other).qty \in Nat /\ Head(Other).qty > 0
  <2>1. taker.id - 1 \in Nat
    BY <1>2
  <2>2. Head(Other) \in BookOrder /\ Head(Other).qty > 0
    BY <1>2, <1>4, <1>5, <2>1, FrontIsBest
  <2> QED BY <2>2 DEF BookOrder
<1>7. MatchQty \in Nat /\ MatchQty > 0 /\ MatchQty <= taker.qty /\ MatchQty <= Head(Other).qty
  BY <1>2, <1>4, <1>6 DEF MatchQty
<1>8. TakeFront(Other, MatchQty) \in Seq(BookOrder)
  <2>1. taker.id - 1 \in Nat
    BY <1>2
  <2>2. SideInOrder(TakeFront(Other, MatchQty), 3 - taker.side, taker.id - 1)
    BY <1>2, <1>4, <1>5, <1>7, <2>1, TakeFrontEffect
  <2> QED BY <2>2 DEF SideInOrder
<1>9. /\ taker' = [taker EXCEPT !.qty = @ - MatchQty]
      /\ m_books' = [m_books EXCEPT ![taker.sym][3 - taker.side] = TakeFront(@, MatchQty)]
      /\ m_total_volume' = [m_total_volume EXCEPT ![taker.sym] = @ + MatchQty]
      /\ UNCHANGED <<last, latest, submitted>>
  BY DEF MatchFront, MatchQty
<1>10. m_books' = WithSide(m_books, taker.sym, 3 - taker.side, TakeFront(Other, MatchQty))
  BY <1>9 DEF Other, WithSide
<1> QED BY <1>1, <1>2, <1>3, <1>4, <1>5, <1>7, <1>8, <1>9, <1>10

\* After the loop what is left of the taker, if anything, goes into its side.
LEMMA RestEffect ==
    ASSUME EngineInv, Rest
    PROVE  /\ taker \in TakerOrder /\ taker # NoOrder /\ taker.sym \in Symbols /\ taker.sym \in DOMAIN m_books
           /\ taker.side \in {1, 2} /\ taker.id = latest[taker.sym] /\ taker.id \in Nat /\ taker.id >= 1
           /\ Entry \in BookOrder /\ Entry.id = taker.id /\ Entry.side = taker.side
           /\ Entry.price = taker.price /\ Entry.qty = taker.qty
           /\ taker' = NoOrder
           /\ SideInOrder(BookOf(taker.sym)[taker.side], taker.side, taker.id - 1)
           /\ taker.qty > 0 =>
                 /\ InsertSorted(BookOf(taker.sym)[taker.side], Entry) \in Seq(BookOrder)
                 /\ m_books' = WithSide(m_books, taker.sym, taker.side,
                              InsertSorted(BookOf(taker.sym)[taker.side], Entry))
           /\ taker.qty = 0 => UNCHANGED m_books
           /\ UNCHANGED <<last, latest, submitted, m_total_volume>>
<1>1. taker \in TakerOrder /\ taker # NoOrder /\ taker.sym \in DOMAIN m_books /\ taker.id = latest[taker.sym] /\ taker.id >= 1
  BY DEF Rest, EngineInv, EngineType
<1>2. taker.sym \in Symbols /\ taker.side \in {1, 2} /\ taker.qty \in Nat /\ taker.id \in Nat /\ taker.price \in Int
  BY <1>1 DEF TakerOrder
<1>3. /\ Entry \in BookOrder /\ Entry.id = taker.id /\ Entry.side = taker.side
      /\ Entry.price = taker.price /\ Entry.qty = taker.qty
  BY <1>2 DEF Entry, BookOrder
<1>4. taker' = NoOrder /\ UNCHANGED <<last, latest, submitted, m_total_volume>>
  BY DEF Rest
<1>5. SideInOrder(BookOf(taker.sym)[taker.side], taker.side, taker.id - 1)
  <2>1. Newest(taker.sym) = taker.id - 1
    BY <1>1 DEF Newest
  <2> QED BY <1>2, <2>1 DEF EngineInv, BooksInOrder
<1>6. ASSUME taker.qty > 0
      PROVE  /\ InsertSorted(BookOf(taker.sym)[taker.side], Entry) \in Seq(BookOrder)
             /\ m_books' = WithSide(m_books, taker.sym, taker.side,
                              InsertSorted(BookOf(taker.sym)[taker.side], Entry))
  <2>1. m_books' = [m_books EXCEPT ![taker.sym][taker.side] = InsertSorted(@, Entry)]
    BY <1>6 DEF Rest
  <2>2. m_books[taker.sym][taker.side] = BookOf(taker.sym)[taker.side]
    BY <1>1 DEF BookOf
  <2>3. taker.id - 1 \in Nat /\ taker.id > taker.id - 1
    BY <1>1, <1>2
  <2>4. SideInOrder(InsertSorted(BookOf(taker.sym)[taker.side], Entry), taker.side, Entry.id)
    BY <1>2, <1>3, <1>5, <1>6, <2>3, InsertSortedEffect
  <2> QED BY <2>1, <2>2, <2>4 DEF SideInOrder, WithSide
<1>7. taker.qty = 0 => UNCHANGED m_books
  BY DEF Rest
<1> QED BY <1>1, <1>2, <1>3, <1>4, <1>5, <1>6, <1>7

\* process_order gives an order its number; the orders that rest are older.
LEMMA RouteKeepsEngine ==
    ASSUME EngineInv, NEW sym \in Symbols \cup {EmptySymbol}, NEW s, NEW p \in Int, NEW q \in Nat,
           Route(sym, s, p, q)
    PROVE  EngineInv'
<1> DEFINE key == BookKey(sym)
<1>1. key \in Symbols /\ s \in {1, 2} /\ taker = NoOrder
  BY BookKeyType DEF Route
<1>2. /\ last' = last + 1
      /\ taker' = [sym |-> key, id |-> last + 1, side |-> s, price |-> p, qty |-> q]
      /\ m_books' = [b \in DOMAIN m_books \cup {key} |-> BookOf(b)]
      /\ latest' = [latest EXCEPT ![key] = last + 1]
      /\ submitted' = [submitted EXCEPT ![key] = @ + q]
      /\ m_total_volume' = m_total_volume
  BY DEF Route
<1> HIDE DEF key
<1>3. /\ last \in Nat /\ latest \in [Symbols -> Nat] /\ submitted \in [Symbols -> Nat]
      /\ m_total_volume \in [Symbols -> Nat] /\ \A b \in Symbols : latest[b] <= last
      /\ DOMAIN m_books \subseteq Symbols /\ EngineType
  BY DEF EngineInv, EngineType
<1>4. /\ DOMAIN m_books' = DOMAIN m_books \cup {key}
      /\ m_books' \in [DOMAIN m_books' -> [{1, 2} -> Seq(BookOrder)]]
      /\ \A b \in Symbols : BookOf(b)' = BookOf(b)
  BY <1>1, <1>2, <1>3, CreateEffect
<1>5. taker' \in TakerOrder /\ taker'.sym = key /\ taker'.id = last + 1
  BY <1>1, <1>2, <1>3 DEF TakerOrder
<1>6. /\ latest' \in [Symbols -> Nat] /\ latest'[key] = last + 1
      /\ \A b \in Symbols : b # key => latest'[b] = latest[b]
      /\ \A b \in Symbols : latest'[b] <= last'
      /\ submitted' \in [Symbols -> Nat]
  BY <1>1, <1>2, <1>3
<1>7. EngineType'
  <2>1. DOMAIN m_books' \subseteq Symbols /\ key \in DOMAIN m_books'
    BY <1>1, <1>3, <1>4
  <2>2. /\ taker'.sym \in DOMAIN m_books' /\ taker'.id = latest'[taker'.sym] /\ taker'.id >= 1
        /\ last' \in Nat /\ m_total_volume' \in [Symbols -> Nat]
    BY <1>2, <1>3, <1>5, <1>6, <2>1
  <2> QED BY <1>4, <1>5, <1>6, <2>1, <2>2 DEF EngineType
<1>8. ASSUME NEW b \in Symbols, NEW d \in {1, 2}
      PROVE  SideInOrder(BookOf(b)'[d], d, Newest(b)')
  <2>1. Newest(b) = latest[b] /\ SideInOrder(BookOf(b)[d], d, latest[b])
    BY <1>1 DEF Newest, EngineInv, BooksInOrder
  <2>2. Newest(b)' = IF b = key THEN last ELSE latest[b]
    BY <1>3, <1>5, <1>6, TakerIsNoOrder DEF Newest
  <2>3. latest[b] \in Nat /\ latest[b] <= last
    BY <1>3
  <2> QED BY <1>3, <1>4, <2>1, <2>2, <2>3, SideInOrderLater
<1>9. BooksInOrder'
  BY <1>8 DEF BooksInOrder
<1> QED BY <1>7, <1>9 DEF EngineInv

\* An order without a side leaves an empty book at most.
LEMMA RouteNoSideKeepsEngine ==
    ASSUME EngineInv, NEW sym \in Symbols \cup {EmptySymbol}, NEW s, RouteNoSide(sym, s)
    PROVE  EngineInv'
<1>1. /\ EngineType /\ BookKey(sym) \in Symbols /\ taker = NoOrder
      /\ UNCHANGED <<taker, last, latest, submitted, m_total_volume>>
      /\ m_books' = [b \in DOMAIN m_books \cup {BookKey(sym)} |-> BookOf(b)]
  BY BookKeyType DEF EngineInv, RouteNoSide
<1>2. /\ DOMAIN m_books' = DOMAIN m_books \cup {BookKey(sym)}
      /\ m_books' \in [DOMAIN m_books' -> [{1, 2} -> Seq(BookOrder)]]
      /\ \A b \in Symbols : BookOf(b)' = BookOf(b)
  BY <1>1, CreateEffect
<1>3. EngineType'
  BY <1>1, <1>2 DEF EngineType
<1>4. BooksInOrder'
  BY <1>1, <1>2 DEF EngineInv, BooksInOrder, Newest
<1> QED BY <1>3, <1>4 DEF EngineInv

\* A fill.
LEMMA MatchKeepsEngine ==
    ASSUME EngineInv, MatchFront
    PROVE  EngineInv'
<1> DEFINE new == TakeFront(Other, MatchQty)
           key == taker.sym
           o == 3 - taker.side
<1>1. /\ taker \in TakerOrder /\ taker # NoOrder /\ key \in Symbols /\ key \in DOMAIN m_books
      /\ Other = BookOf(key)[o] /\ Other # <<>> /\ SideInOrder(Other, o, taker.id - 1) /\ o \in {1, 2}
      /\ MatchQty \in Nat /\ MatchQty > 0 /\ MatchQty <= taker.qty /\ MatchQty <= Head(Other).qty
      /\ taker' = [taker EXCEPT !.qty = @ - MatchQty]
      /\ new \in Seq(BookOrder)
      /\ m_books' = WithSide(m_books, key, o, new)
      /\ m_total_volume' = [m_total_volume EXCEPT ![key] = @ + MatchQty]
      /\ UNCHANGED <<last, latest, submitted>>
  BY MatchEffect
<1>2. EngineType /\ taker.id \in Nat /\ taker.id >= 1 /\ taker.id = latest[key]
  <2>1. EngineType /\ taker.id >= 1 /\ taker.id = latest[key]
    BY <1>1 DEF EngineInv, EngineType
  <2> QED BY <1>1, <2>1 DEF TakerOrder
<1>3. /\ taker' \in TakerOrder /\ taker'.sym = taker.sym /\ taker'.id = taker.id
  BY <1>1 DEF TakerOrder
<1>4. SideInOrder(new, o, taker.id - 1)
  <2>1. taker.id - 1 \in Nat
    BY <1>2
  <2> QED BY <1>1, <2>1, TakeFrontEffect
<1> HIDE DEF new, key, o
<1>5. /\ DOMAIN m_books' = DOMAIN m_books
      /\ m_books' \in [DOMAIN m_books' -> [{1, 2} -> Seq(BookOrder)]]
      /\ \A b \in Symbols, d \in {1, 2} :
            BookOf(b)'[d] = IF b = key /\ d = o THEN new ELSE BookOf(b)[d]
  <2>1. /\ EngineType /\ key \in DOMAIN m_books /\ o \in {1, 2} /\ new \in Seq(BookOrder)
        /\ m_books' = WithSide(m_books, key, o, new)
    BY <1>1, <1>2
  <2>2. DOMAIN m_books' = DOMAIN m_books /\ m_books' \in [DOMAIN m_books' -> [{1, 2} -> Seq(BookOrder)]]
    BY ONLY <2>1, ReplaceEffect
  <2>3. ASSUME NEW sym, NEW s \in {1, 2}
        PROVE  BookIn(m_books', sym)[s] = IF sym = key /\ s = o THEN new ELSE BookIn(m_books, sym)[s]
    BY <2>1, ReplaceEffect
  <2> QED BY <2>2, <2>3, BooksOf
<1>6. m_total_volume' \in [Symbols -> Nat]
  <2>1. m_total_volume \in [Symbols -> Nat]
    BY <1>2 DEF EngineType
  <2> QED BY <1>1, <2>1
<1>7. EngineType'
  BY <1>1, <1>2, <1>3, <1>5, <1>6 DEF EngineType, key
<1>8. taker' # NoOrder
  BY <1>3, TakerIsNoOrder
<1>9. ASSUME NEW b \in Symbols, NEW d \in {1, 2}
      PROVE  SideInOrder(BookOf(b)'[d], d, Newest(b)')
  <2>1. Newest(b)' = Newest(b) /\ Newest(key) = taker.id - 1
    BY <1>1, <1>3, <1>8 DEF Newest, key
  <2> QED BY <1>4, <1>5, <2>1 DEF EngineInv, BooksInOrder
<1> QED BY <1>7, <1>9 DEF EngineInv, BooksInOrder

\* The end of submit_order.
LEMMA RestKeepsEngine ==
    ASSUME EngineInv, Rest
    PROVE  EngineInv'
<1> DEFINE new == InsertSorted(BookOf(taker.sym)[taker.side], Entry)
           key == taker.sym
           o == taker.side
<1>1. /\ taker \in TakerOrder /\ taker # NoOrder /\ key \in Symbols /\ key \in DOMAIN m_books
      /\ o \in {1, 2} /\ taker.id = latest[key] /\ taker.id \in Nat /\ taker.id >= 1
      /\ Entry \in BookOrder /\ Entry.id = taker.id /\ Entry.side = o /\ Entry.qty = taker.qty
      /\ taker' = NoOrder /\ SideInOrder(BookOf(key)[o], o, taker.id - 1)
      /\ taker.qty > 0 => new \in Seq(BookOrder) /\ m_books' = WithSide(m_books, key, o, new)
      /\ taker.qty = 0 => UNCHANGED m_books
      /\ UNCHANGED <<last, latest, submitted, m_total_volume>>
  BY RestEffect
<1>2. EngineType /\ taker.qty \in Nat
  BY <1>1 DEF EngineInv, TakerOrder
<1>3. taker.qty > 0 => SideInOrder(new, o, taker.id)
  <2>1. taker.id - 1 \in Nat /\ taker.id > taker.id - 1
    BY <1>1
  <2> QED BY <1>1, <2>1, InsertSortedEffect
<1> HIDE DEF new, key, o
<1>4. /\ DOMAIN m_books' = DOMAIN m_books
      /\ m_books' \in [DOMAIN m_books' -> [{1, 2} -> Seq(BookOrder)]]
      /\ \A b \in Symbols, d \in {1, 2} :
            BookOf(b)'[d] = IF taker.qty > 0 /\ b = key /\ d = o THEN new ELSE BookOf(b)[d]
  <2>1. CASE taker.qty > 0
    <3>1. /\ EngineType /\ key \in DOMAIN m_books /\ o \in {1, 2} /\ new \in Seq(BookOrder)
          /\ m_books' = WithSide(m_books, key, o, new)
      BY <1>1, <1>2, <2>1
    <3>2. DOMAIN m_books' = DOMAIN m_books /\ m_books' \in [DOMAIN m_books' -> [{1, 2} -> Seq(BookOrder)]]
      BY ONLY <3>1, ReplaceEffect
    <3>3. ASSUME NEW sym, NEW s \in {1, 2}
          PROVE  BookIn(m_books', sym)[s] = IF sym = key /\ s = o THEN new ELSE BookIn(m_books, sym)[s]
      BY <3>1, ReplaceEffect
    <3> QED BY <2>1, <3>2, <3>3, BooksOf
  <2>2. CASE ~(taker.qty > 0)
    <3>1. m_books' = m_books
      BY <1>1, <1>2, <2>2
    <3>2. \A b \in Symbols : BookOf(b)' = BookOf(b)
      BY <3>1 DEF BookOf, EmptyBook
    <3>3. m_books \in [DOMAIN m_books -> [{1, 2} -> Seq(BookOrder)]]
      BY <1>2 DEF EngineType
    <3> QED BY <2>2, <3>1, <3>2, <3>3
  <2> QED BY <2>1, <2>2
<1>5. EngineType'
  BY <1>1, <1>2, <1>4 DEF EngineType
<1>6. ASSUME NEW b \in Symbols, NEW d \in {1, 2}
      PROVE  SideInOrder(BookOf(b)'[d], d, Newest(b)')
  <2>1. Newest(b)' = latest[b] /\ latest[b] \in Nat
    BY <1>1, <1>2 DEF Newest, EngineType
  <2>2. Newest(b) \in Nat /\ Newest(b) <= latest[b]
    BY <1>1, <2>1 DEF Newest, key
  <2>3. SideInOrder(BookOf(b)[d], d, latest[b])
    BY <2>1, <2>2, SideInOrderLater DEF EngineInv, BooksInOrder
  <2> QED BY <1>1, <1>3, <1>4, <2>1, <2>3
<1> QED BY <1>5, <1>6 DEF EngineInv, BooksInOrder

\* What HandleMessage does to the engine.
LEMMA HandleCases ==
    ASSUME NEW o \in Orders, HandleMessage(o)
    PROVE  \/ UNCHANGED engineVars
           \/ /\ o.new_order /\ Verdict(o) = "APPROVED"
              /\ \E sym \in Symbols \cup {EmptySymbol} :
                    Route(sym, o.side, o.price, RemainingQty(o)) \/ RouteNoSide(sym, o.side)
BY DEF HandleMessage

\* A routed order has an integer price and a natural quantity.
LEMMA RoutedFields ==
    ASSUME NEW o \in Orders
    PROVE  o.price \in Int /\ RemainingQty(o) \in Nat
<1>1. o.price \in Int /\ o.quantity \in SignedValues(QtyWidth)
  BY OrderFields
<1>2. o.quantity \in Int /\ 2^QtyWidth \in Nat /\ 2^QtyWidth > 0
  BY <1>1, WidthAssumption DEF SignedValues
<1> QED BY <1>1, <1>2 DEF RemainingQty

\* Every step leaves the books in order.
LEMMA StepKeepsEngine == EngineInv /\ [Next]_vars => EngineInv'
<1> SUFFICES ASSUME EngineInv, [Next]_vars PROVE EngineInv'
  OBVIOUS
<1>1. ASSUME UNCHANGED engineVars PROVE EngineInv'
  BY <1>1 DEF EngineInv, EngineType, BooksInOrder, Newest, BookOf, EmptyBook, engineVars
<1>2. CASE UNCHANGED vars
  BY <1>1, <1>2 DEF vars
<1>3. CASE \E o \in Orders : HandleMessage(o)
  BY <1>1, <1>3, HandleCases, RoutedFields, RouteKeepsEngine, RouteNoSideKeepsEngine
<1>4. CASE Match
  BY <1>4, MatchKeepsEngine DEF Match
<1>5. CASE Place
  BY <1>5, RestKeepsEngine DEF Place
<1>6. CASE Settings
  BY <1>1, <1>6 DEF Settings
<1> QED BY <1>2, <1>3, <1>4, <1>5, <1>6 DEF Next

\* The sides of every book are sorted by price and arrival in every reachable
\* state, also in the middle of submit_order.
THEOREM EngineInvariance == Spec => []EngineInv
<1>1. Init => EngineInv
  <2> SUFFICES ASSUME Init PROVE EngineInv
    OBVIOUS
  <2>1. m_books = [sym \in {} |-> EmptyBook] /\ taker = NoOrder /\ last = 0
        /\ latest = [sym \in Symbols |-> 0] /\ submitted = [sym \in Symbols |-> 0]
        /\ m_total_volume = [sym \in Symbols |-> 0]
    BY DEF Init, EngineInit
  <2>2. DOMAIN m_books = {} /\ m_books \in [DOMAIN m_books -> [{1, 2} -> Seq(BookOrder)]]
    BY <2>1
  <2>3. EngineType
    BY <2>1, <2>2 DEF EngineType
  <2>4. ASSUME NEW sym \in Symbols, NEW s \in {1, 2} PROVE SideInOrder(BookOf(sym)[s], s, Newest(sym))
    <3>1. BookOf(sym)[s] = <<>>
      BY <2>2 DEF BookOf, EmptyBook
    <3> QED BY <3>1 DEF SideInOrder
  <2> QED BY <2>3, <2>4 DEF EngineInv, BooksInOrder
<1> QED BY <1>1, StepKeepsEngine, PTL DEF Spec

----------------------------------------------------------------------------
(* The resting orders as a set, which is what the abstract book sees.      *)

\* Creating a book, or changing nothing of the books.
LEMMA SameResting ==
    ASSUME NEW sym, BookOf(sym)' = BookOf(sym)
    PROVE  Resting(sym)' = Resting(sym)
BY DEF Resting

\* The orders of a book are those of its two sides, which no order shares.
LEMMA RestingOrders ==
    ASSUME EngineInv, NEW sym \in Symbols, NEW s \in {1, 2}
    PROVE  /\ Resting(sym) = ToSet(BookOf(sym)[s]) \cup ToSet(BookOf(sym)[3 - s])
           /\ \A o \in ToSet(BookOf(sym)[s]) :
                 o \in BookOrder /\ o.side = s /\ o.qty > 0 /\ o.id <= Newest(sym)
<1>1. Resting(sym) = ToSet(BookOf(sym)[s]) \cup ToSet(BookOf(sym)[3 - s])
  BY DEF Resting
<1>2. SideInOrder(BookOf(sym)[s], s, Newest(sym))
  BY DEF EngineInv, BooksInOrder
<1>3. BookOf(sym)[s] \in Seq(BookOrder)
  BY <1>2 DEF SideInOrder
<1>4. ToSet(BookOf(sym)[s]) = {BookOf(sym)[s][i] : i \in 1..Len(BookOf(sym)[s])}
  BY <1>3, ToSetElements
<1>5. ASSUME NEW i \in 1..Len(BookOf(sym)[s])
      PROVE  LET o == BookOf(sym)[s][i]
             IN  o \in BookOrder /\ o.side = s /\ o.qty > 0 /\ o.id <= Newest(sym)
  BY <1>2, <1>3 DEF SideInOrder
<1> QED BY <1>1, <1>4, <1>5

\* A fill changes one resting order of the taker's book: the one that goes
\* before all others of its side.
LEMMA MatchResting ==
    ASSUME EngineInv, MatchFront, NEW sym \in Symbols
    PROVE  /\ sym # taker.sym => Resting(sym)' = Resting(sym)
           /\ sym = taker.sym =>
                 /\ Head(Other) \in BookOrder /\ Head(Other) \in Resting(sym)
                 /\ Head(Other).side = 3 - taker.side
                 /\ \A n \in Resting(sym) : n.side = 3 - taker.side =>
                       n = Head(Other) \/ Precedes(3 - taker.side, Head(Other), n)
                 /\ Reduced(Head(Other), MatchQty) \notin Resting(sym) \ {Head(Other)}
                 /\ Resting(sym)' =
                       IF MatchQty = Head(Other).qty THEN Resting(sym) \ {Head(Other)}
                       ELSE (Resting(sym) \ {Head(Other)}) \cup {Reduced(Head(Other), MatchQty)}
<1> DEFINE new == TakeFront(Other, MatchQty)
           key == taker.sym
           o == 3 - taker.side
           m == Head(Other)
<1>1. /\ taker \in TakerOrder /\ taker # NoOrder /\ key \in Symbols /\ key \in DOMAIN m_books
      /\ Other = BookOf(key)[o] /\ Other # <<>> /\ SideInOrder(Other, o, taker.id - 1) /\ o \in {1, 2}
      /\ MatchQty \in Nat /\ MatchQty > 0 /\ MatchQty <= Head(Other).qty
      /\ new \in Seq(BookOrder) /\ m_books' = WithSide(m_books, key, o, new)
  BY MatchEffect
<1>2. EngineType /\ taker.id - 1 \in Nat /\ 3 - o \in {1, 2} /\ 3 - o # o
  <2>1. EngineType /\ taker.id >= 1 /\ taker.id \in Nat
    BY <1>1 DEF EngineInv, EngineType, TakerOrder
  <2> HIDE DEF o
  <2> QED BY <1>1, <2>1
<1>3. /\ ToSet(new) = IF MatchQty = m.qty THEN ToSet(Other) \ {m} ELSE (ToSet(Other) \ {m}) \cup {Reduced(m, MatchQty)}
  <2>1. /\ o \in {1, 2} /\ taker.id - 1 \in Nat /\ SideInOrder(Other, o, taker.id - 1) /\ Other # <<>>
        /\ MatchQty \in Nat /\ MatchQty > 0 /\ MatchQty <= Head(Other).qty
    BY <1>1, <1>2
  <2> QED BY ONLY <2>1, TakeFrontEffect
<1>4. /\ m \in ToSet(Other) /\ m \in BookOrder /\ m.side = o
      /\ \A x \in ToSet(Other) : x = m \/ Precedes(o, m, x)
  BY <1>1, <1>2, FrontIsBest
<1>5. /\ Reduced(m, MatchQty) \in BookOrder /\ Reduced(m, MatchQty).id = m.id
      /\ Reduced(m, MatchQty).side = o /\ Reduced(m, MatchQty).price = m.price
  BY <1>1, <1>4, ReducedFields
<1>6. Reduced(m, MatchQty) \notin ToSet(Other) \ {m}
  <2>1. ~Precedes(o, m, Reduced(m, MatchQty))
    <3>1. m.price \in Int /\ m.id \in Nat
      BY <1>4 DEF BookOrder
    <3> HIDE DEF m
    <3> QED BY <1>5, <3>1 DEF Precedes
  <2> QED BY <1>4, <2>1
<1> HIDE DEF new, key, o, m
<1>7. ASSUME NEW s \in {1, 2}
      PROVE  BookOf(sym)'[s] = IF sym = key /\ s = o THEN new ELSE BookOf(sym)[s]
  <2>1. BookIn(m_books', sym)[s] = IF sym = key /\ s = o THEN new ELSE BookIn(m_books, sym)[s]
    BY <1>1, <1>2, ReplaceEffect
  <2> QED BY <2>1, BooksOf
<1>8. CASE sym # key
  <2>1. BookOf(sym)'[1] = BookOf(sym)[1] /\ BookOf(sym)'[2] = BookOf(sym)[2]
    BY <1>7, <1>8
  <2>2. Resting(sym)' = Resting(sym)
    BY <2>1 DEF Resting
  <2> QED BY <1>8, <2>2 DEF key
<1>9. CASE sym = key
  <2> DEFINE P == ToSet(BookOf(sym)[3 - o])
             Q == ToSet(Other)
  <2>1. Resting(sym) = Q \cup P
    BY <1>1, <1>9, RestingOrders
  <2>2. \A x \in P : x.side = 3 - o /\ x # m /\ x # Reduced(m, MatchQty)
    <3>1. \A x \in P : x.side = 3 - o
      BY <1>2, RestingOrders
    <3> QED BY <1>1, <1>2, <1>4, <1>5, <3>1
  <2>3. Resting(sym)' = ToSet(new) \cup P
    <3>1. BookOf(sym)'[o] = new /\ BookOf(sym)'[3 - o] = BookOf(sym)[3 - o]
      BY <1>1, <1>2, <1>7, <1>9
    <3>2. Resting(sym)' = ToSet(BookOf(sym)'[1]) \cup ToSet(BookOf(sym)'[2])
      BY DEF Resting
    <3>3. (o = 1 /\ 3 - o = 2) \/ (o = 2 /\ 3 - o = 1)
      BY <1>1
    <3>4. CASE o = 1 /\ 3 - o = 2
      BY <3>1, <3>2, <3>4
    <3>5. CASE o = 2 /\ 3 - o = 1
      BY <3>1, <3>2, <3>5
    <3> QED BY <3>3, <3>4, <3>5
  <2> HIDE DEF P, Q
  <2>4. (Q \ {m}) \cup P = (Q \cup P) \ {m}
    BY <2>2
  <2>5. ToSet(new) = IF MatchQty = m.qty THEN Q \ {m} ELSE (Q \ {m}) \cup {Reduced(m, MatchQty)}
    BY <1>3 DEF Q
  <2>6. Resting(sym)' = IF MatchQty = m.qty THEN Resting(sym) \ {m}
                        ELSE (Resting(sym) \ {m}) \cup {Reduced(m, MatchQty)}
    <3>1. CASE MatchQty = m.qty
      BY <2>1, <2>3, <2>4, <2>5, <3>1
    <3>2. CASE MatchQty # m.qty
      BY <2>1, <2>3, <2>4, <2>5, <3>2
    <3> QED BY <3>1, <3>2
  <2>7. Reduced(m, MatchQty) \notin Resting(sym) \ {m}
    BY <1>6, <2>1, <2>2 DEF Q
  <2>8. m \in Resting(sym)
    BY <1>4, <2>1 DEF Q
  <2>9. \A n \in Resting(sym) : n.side = o => n = m \/ Precedes(o, m, n)
    BY <1>2, <1>4, <2>1, <2>2 DEF Q
  <2> QED BY <1>4, <1>9, <2>6, <2>7, <2>8, <2>9 DEF o, m, key
<1> QED BY <1>8, <1>9 DEF key

\* The end of submit_order adds what is left of the taker, and nothing of the
\* other side of the book crosses it.
LEMMA RestResting ==
    ASSUME EngineInv, Rest, NEW sym \in Symbols
    PROVE  /\ sym # taker.sym \/ taker.qty = 0 => Resting(sym)' = Resting(sym)
           /\ sym = taker.sym /\ taker.qty > 0 =>
                 Entry \notin Resting(sym) /\ Resting(sym)' = Resting(sym) \cup {Entry}
<1> DEFINE new == InsertSorted(BookOf(taker.sym)[taker.side], Entry)
           key == taker.sym
           o == taker.side
<1>1. /\ taker \in TakerOrder /\ key \in Symbols /\ key \in DOMAIN m_books
      /\ o \in {1, 2} /\ taker.id \in Nat /\ taker.id >= 1
      /\ Entry \in BookOrder /\ Entry.id = taker.id /\ Entry.side = o /\ Entry.qty = taker.qty
      /\ SideInOrder(BookOf(key)[o], o, taker.id - 1)
      /\ taker.qty > 0 => new \in Seq(BookOrder) /\ m_books' = WithSide(m_books, key, o, new)
      /\ taker.qty = 0 => UNCHANGED m_books
  BY RestEffect
<1>2. EngineType /\ taker.qty \in Nat /\ taker.id - 1 \in Nat /\ taker.id > taker.id - 1
  BY <1>1 DEF EngineInv, TakerOrder
<1>3. taker.qty > 0 =>
         ToSet(new) = ToSet(BookOf(key)[o]) \cup {Entry} /\ Entry \notin ToSet(BookOf(key)[o])
  BY <1>1, <1>2, InsertSortedEffect
<1> HIDE DEF new, key, o
<1>4. CASE taker.qty = 0
  <2>1. BookOf(sym)' = BookOf(sym)
    BY <1>1, <1>4 DEF BookOf, EmptyBook
  <2> QED BY <1>4, <2>1, SameResting
<1>5. CASE taker.qty > 0
  <2>1. ASSUME NEW s \in {1, 2}
        PROVE  BookOf(sym)'[s] = IF sym = key /\ s = o THEN new ELSE BookOf(sym)[s]
    <3>1. new \in Seq(BookOrder) /\ m_books' = WithSide(m_books, key, o, new)
      BY <1>1, <1>5
    <3>2. BookIn(m_books', sym)[s] = IF sym = key /\ s = o THEN new ELSE BookIn(m_books, sym)[s]
      BY <1>1, <1>2, <3>1, ReplaceEffect
    <3> QED BY <3>2, BooksOf
  <2>2. CASE sym # key
    <3>1. BookOf(sym)'[1] = BookOf(sym)[1] /\ BookOf(sym)'[2] = BookOf(sym)[2]
      BY <2>1, <2>2
    <3>2. Resting(sym)' = Resting(sym)
      BY <3>1 DEF Resting
    <3> QED BY <2>2, <3>2 DEF key
  <2>3. CASE sym = key
    <3> DEFINE P == ToSet(BookOf(sym)[3 - o])
               Q == ToSet(BookOf(sym)[o])
    <3>1. 3 - o \in {1, 2} /\ 3 - o # o /\ ((o = 1 /\ 3 - o = 2) \/ (o = 2 /\ 3 - o = 1))
      BY <1>1
    <3>2. Resting(sym) = Q \cup P
      BY <1>1, RestingOrders
    <3>3. \A x \in P : x.side = 3 - o
      BY <3>1, RestingOrders
    <3>4. BookOf(sym)'[o] = new /\ BookOf(sym)'[3 - o] = BookOf(sym)[3 - o]
      BY <1>1, <2>1, <2>3, <3>1
    <3>5. Resting(sym)' = ToSet(new) \cup P
      <4>1. Resting(sym)' = ToSet(BookOf(sym)'[1]) \cup ToSet(BookOf(sym)'[2])
        BY DEF Resting
      <4>2. CASE o = 1 /\ 3 - o = 2
        BY <3>4, <4>1, <4>2
      <4>3. CASE o = 2 /\ 3 - o = 1
        BY <3>4, <4>1, <4>3
      <4> QED BY <3>1, <4>2, <4>3
    <3>6. ToSet(new) = Q \cup {Entry} /\ Entry \notin Q
      BY <1>3, <1>5, <2>3
    <3>7. Entry \notin P
      BY <1>1, <3>1, <3>3
    <3> HIDE DEF P, Q
    <3>8. Entry \notin Resting(sym) /\ Resting(sym)' = Resting(sym) \cup {Entry}
      BY <3>2, <3>5, <3>6, <3>7
    <3> QED BY <1>5, <2>3, <3>8 DEF key
  <2> QED BY <2>2, <2>3
<1> QED BY <1>2, <1>4, <1>5

\* The other messages change no resting order.
LEMMA RouteResting ==
    ASSUME EngineInv, NEW key \in Symbols \cup {EmptySymbol}, NEW s, NEW p, NEW q,
           Route(key, s, p, q) \/ RouteNoSide(key, s), NEW sym \in Symbols
    PROVE  Resting(sym)' = Resting(sym)
<1>1. m_books' = [b \in DOMAIN m_books \cup {BookKey(key)} |-> BookOf(b)]
  BY DEF Route, RouteNoSide
<1>2. EngineType /\ BookKey(key) \in Symbols
  BY BookKeyType DEF EngineInv
<1>3. BookOf(sym)' = BookOf(sym)
  BY <1>1, <1>2, CreateEffect
<1> QED BY <1>3, SameResting

\* Nothing changes in the engine.
LEMMA IdleResting ==
    ASSUME UNCHANGED engineVars, NEW sym
    PROVE  Resting(sym)' = Resting(sym)
<1>1. BookOf(sym)' = BookOf(sym)
  BY DEF engineVars, BookOf, EmptyBook
<1> QED BY <1>1, SameResting

----------------------------------------------------------------------------
(* The orders in the books are within the limits.                          *)

\* A part of an admitted order is admitted.
LEMMA PartAdmitted ==
    ASSUME NEW o, Admitted(o), o.qty \in Nat, o.price \in Int,
           NEW r, r.price = o.price, r.qty \in Nat, r.qty <= o.qty
    PROVE  Admitted(r)
<1>1. PICK l \in Limits : o.qty <= l.max_order_qty /\ (o.qty * o.price) \div Scale <= l.max_notional_value_usd
  BY DEF Admitted
<1>2. /\ l.max_order_qty \in Nat /\ l.max_notional_value_usd \in Nat /\ Scale \in Nat /\ Scale > 0
      /\ o.price \in Nat /\ o.price >= 1
  BY RiskAssumption DEF Admitted
<1>3. r.qty * o.price \in Nat /\ o.qty * o.price \in Nat /\ r.qty * o.price <= o.qty * o.price
  BY <1>2, ProductMonotone
<1> DEFINE a == r.qty * o.price
           b == o.qty * o.price
           c == Scale * (l.max_notional_value_usd + 1)
<1>4. b < c /\ c \in Nat
  BY <1>1, <1>2, <1>3, QuotientBound
<1>5. a \in Nat /\ a < c
  <2> HIDE DEF a, b, c
  <2>1. a \in Nat /\ b \in Nat /\ a <= b
    BY <1>3 DEF a, b
  <2> QED BY <1>4, <2>1
<1>6. a \div Scale <= l.max_notional_value_usd
  <2> HIDE DEF a
  <2> QED BY <1>2, <1>5, QuotientBound
<1>7. r.qty <= l.max_order_qty
  BY <1>1, <1>2
<1> QED BY <1>2, <1>6, <1>7 DEF Admitted

\* An approved order is admitted, with the quantity the book gives it.
LEMMA ApprovedAdmitted ==
    ASSUME LimitsBelowWrap, RiskType, NEW o \in Orders, Verdict(o) = "APPROVED"
    PROVE  /\ RemainingQty(o) = o.quantity
           /\ \A r : r.price = o.price /\ r.qty = o.quantity => Admitted(r)
<1>1. Safe(o)
  BY VerdictExact
<1>2. o.quantity \in SignedValues(QtyWidth) /\ o.price \in Int
  BY OrderFields
<1>3. 2^QtyWidth \in Nat /\ 2^QtyWidth > 0 /\ o.quantity \in 0..(2^QtyWidth - 1)
  BY <1>1, <1>2, WidthAssumption DEF SignedValues, Safe
<1>4. RemainingQty(o) = o.quantity
  BY <1>3, RemainderSmall DEF RemainingQty
<1>5. o.price >= 1
  <2>1. m_limits \in Limits /\ m_limits.max_price_deviation_scaled < Reference
        /\ m_limits.max_price_deviation_scaled \in Nat /\ Reference \in Nat
    BY RiskAssumption DEF RiskType, LimitsBelowWrap
  <2> QED BY <1>1, <1>2, <2>1 DEF Safe
<1>6. o.quantity <= m_limits.max_order_qty /\ (o.quantity * o.price) \div Scale <= m_limits.max_notional_value_usd
  BY <1>1 DEF Safe
<1> QED BY <1>4, <1>5, <1>6 DEF Admitted, RiskType

\* Every step leaves admitted orders only.
LEMMA StepKeepsAdmitted ==
    LimitsBelowWrap /\ RiskType /\ EngineInv /\ OrdersAdmitted /\ [Next]_vars => OrdersAdmitted'
<1> SUFFICES ASSUME LimitsBelowWrap, RiskType, EngineInv, OrdersAdmitted, [Next]_vars
             PROVE  OrdersAdmitted'
  OBVIOUS
<1>1. ASSUME UNCHANGED engineVars PROVE OrdersAdmitted'
  BY <1>1, IdleResting DEF OrdersAdmitted, Admitted, engineVars
<1>2. CASE UNCHANGED vars
  BY <1>1, <1>2 DEF vars
<1>3. CASE \E o \in Orders : HandleMessage(o)
  <2>1. PICK o \in Orders : HandleMessage(o)
    BY <1>3
  <2>2. CASE UNCHANGED engineVars
    BY <1>1, <2>2
  <2>3. ASSUME NEW key \in Symbols \cup {EmptySymbol}, Verdict(o) = "APPROVED",
               Route(key, o.side, o.price, RemainingQty(o)) \/ RouteNoSide(key, o.side)
        PROVE  OrdersAdmitted'
    <3>1. \A sym \in Symbols : Resting(sym)' = Resting(sym)
      BY <2>3, RouteResting
    <3>2. taker' # NoOrder => taker'.price = o.price /\ taker'.qty = RemainingQty(o)
      BY <2>3 DEF Route, RouteNoSide
    <3>3. taker' # NoOrder => Admitted(taker')
      BY <2>3, <3>2, ApprovedAdmitted
    <3> QED BY <3>1, <3>3 DEF OrdersAdmitted, Admitted
  <2> QED BY <2>1, <2>2, <2>3, HandleCases
<1>4. CASE Match
  <2>1. MatchFront
    BY <1>4 DEF Match
  <2>2. /\ taker # NoOrder /\ taker \in TakerOrder
        /\ MatchQty \in Nat /\ MatchQty <= taker.qty /\ MatchQty <= Head(Other).qty
        /\ taker' = [taker EXCEPT !.qty = @ - MatchQty]
    BY <2>1, MatchEffect
  <2>3. taker.qty \in Nat /\ taker.price \in Int /\ taker'.price = taker.price /\ taker'.qty = taker.qty - MatchQty
    BY <2>2 DEF TakerOrder
  <2>4. taker'.qty \in Nat /\ taker'.qty <= taker.qty
    BY <2>2, <2>3
  <2>5. Admitted(taker')
    BY <2>2, <2>3, <2>4, PartAdmitted DEF OrdersAdmitted
  <2>6. ASSUME NEW sym \in Symbols, NEW x \in Resting(sym)' PROVE Admitted(x)
    <3>1. CASE x \in Resting(sym)
      BY <3>1 DEF OrdersAdmitted
    <3>2. CASE x \notin Resting(sym)
      <4>1. /\ Head(Other) \in BookOrder /\ Head(Other) \in Resting(sym)
            /\ x = Reduced(Head(Other), MatchQty)
        BY <2>1, <2>6, <3>2, MatchResting
      <4>2. x.price = Head(Other).price /\ x.qty = Head(Other).qty - MatchQty
        BY <2>2, <4>1, ReducedFields
      <4>3. Head(Other).qty \in Nat /\ Head(Other).price \in Int
        BY <4>1 DEF BookOrder
      <4>4. x.qty \in Nat /\ x.qty <= Head(Other).qty
        BY <2>2, <4>2, <4>3
      <4>5. Admitted(Head(Other))
        BY <4>1 DEF OrdersAdmitted
      <4> QED BY <4>2, <4>3, <4>4, <4>5, PartAdmitted
    <3> QED BY <3>1, <3>2
  <2> QED BY <2>5, <2>6 DEF OrdersAdmitted, Admitted
<1>5. CASE Place
  <2>1. Rest
    BY <1>5 DEF Place
  <2>2. /\ taker # NoOrder /\ taker' = NoOrder /\ taker \in TakerOrder
        /\ Entry.price = taker.price /\ Entry.qty = taker.qty
    BY <2>1, RestEffect
  <2>3. taker.qty \in Nat /\ Admitted(Entry)
    BY <2>2 DEF TakerOrder, OrdersAdmitted, Admitted
  <2>4. ASSUME NEW sym \in Symbols, NEW x \in Resting(sym)' PROVE Admitted(x)
    <3>1. x \in Resting(sym) \/ x = Entry
      <4>1. taker.qty = 0 \/ taker.qty > 0
        BY <2>3
      <4> QED BY <2>1, <2>4, <4>1, RestResting
    <3> QED BY <2>3, <3>1 DEF OrdersAdmitted
  <2> QED BY <2>2, <2>4 DEF OrdersAdmitted, Admitted
<1>6. CASE Settings
  BY <1>1, <1>6 DEF Settings
<1> QED BY <1>2, <1>3, <1>4, <1>5, <1>6 DEF Next

\* Every order that rests is within some limits of the risk manager, for
\* every sign and size its quantity had on the wire.
THEOREM BooksWithinLimits == LimitsBelowWrap => (Spec => []RestingWithinLimits)
<1> SUFFICES ASSUME LimitsBelowWrap PROVE Spec => []RestingWithinLimits
  OBVIOUS
<1>1. Init => OrdersAdmitted
  <2> SUFFICES ASSUME Init PROVE OrdersAdmitted
    OBVIOUS
  <2>1. taker = NoOrder /\ DOMAIN m_books = {}
    BY DEF Init, EngineInit
  <2>2. \A sym \in Symbols : Resting(sym) = {}
    BY <2>1 DEF Resting, BookOf, EmptyBook, ToSet
  <2> QED BY <2>1, <2>2 DEF OrdersAdmitted
<1>2. EngineInv /\ OrdersAdmitted => RestingWithinLimits
  <2> SUFFICES ASSUME EngineInv, OrdersAdmitted, NEW sym \in Symbols, NEW s \in {1, 2},
                      NEW k \in DOMAIN BookOf(sym)[s]
               PROVE  \E l \in Limits : LET o == BookOf(sym)[s][k]
                         IN  o.qty <= l.max_order_qty /\ (o.qty * o.price) \div Scale <= l.max_notional_value_usd
    BY DEF RestingWithinLimits
  <2>1. BookOf(sym)[s][k] \in Resting(sym)
    <3>1. BookOf(sym)[s][k] \in ToSet(BookOf(sym)[s])
      BY DEF ToSet
    <3> QED BY <3>1, RestingOrders
  <2>2. Admitted(BookOf(sym)[s][k])
    BY <2>1 DEF OrdersAdmitted
  <2> QED BY <2>2 DEF Admitted
<1>3. RiskType /\ EngineInv /\ OrdersAdmitted /\ [Next]_vars => OrdersAdmitted'
  BY StepKeepsAdmitted
<1> QED BY <1>1, <1>2, <1>3, RiskTypeInvariance, EngineInvariance, PTL DEF Spec

----------------------------------------------------------------------------
(* Quantities.                                                             *)

\* One order more adds its quantity.
LEMMA SumQtyAdd ==
    ASSUME NEW R, IsFiniteSet(Units(R)), NEW o, o \notin R, o.qty \in Nat
    PROVE  /\ IsFiniteSet(Units(R \cup {o})) /\ SumQty(R) \in Nat
           /\ SumQty(R \cup {o}) = SumQty(R) + o.qty
<1> DEFINE U == {o} \X (1..o.qty)
<1>1. IsFiniteSet(U) /\ Cardinality(U) = o.qty
  <2>1. IsFiniteSet(1..o.qty) /\ Cardinality(1..o.qty) = o.qty
    <3>1. IsFiniteSet(1..o.qty) /\ Cardinality(1..o.qty) = IF 1 > o.qty THEN 0 ELSE o.qty - 1 + 1
      BY FS_Interval, SMTT(30)
    <3>2. (IF 1 > o.qty THEN 0 ELSE o.qty - 1 + 1) = o.qty
      OBVIOUS
    <3> QED BY <3>1, <3>2
  <2>2. IsFiniteSet({o}) /\ Cardinality({o}) = 1
    BY FS_Singleton
  <2>3. IsFiniteSet(U) /\ Cardinality(U) = Cardinality({o}) * Cardinality(1..o.qty)
    BY <2>1, <2>2, FS_Product
  <2> QED BY <2>1, <2>2, <2>3
<1>2. Units(R \cup {o}) = Units(R) \cup U
  BY DEF Units
<1>3. Units(R) \cap U = {}
  BY DEF Units
<1> HIDE DEF U
<1>4. /\ IsFiniteSet(Units(R) \cup U)
      /\ Cardinality(Units(R) \cup U) = Cardinality(Units(R)) + Cardinality(U) - Cardinality(Units(R) \cap U)
  BY <1>1, FS_Union
<1>5. Cardinality(Units(R) \cap U) = 0 /\ Cardinality(Units(R)) \in Nat
  BY <1>3, FS_EmptySet, FS_CardinalityType
<1>6. Cardinality(Units(R) \cup U) = Cardinality(Units(R)) + o.qty
  BY <1>1, <1>4, <1>5
<1> QED BY <1>2, <1>4, <1>5, <1>6 DEF SumQty

\* One order less takes its quantity away.
LEMMA SumQtyRemove ==
    ASSUME NEW R, IsFiniteSet(Units(R)), NEW o \in R, o.qty \in Nat
    PROVE  /\ IsFiniteSet(Units(R \ {o})) /\ SumQty(R \ {o}) \in Nat
           /\ SumQty(R) = SumQty(R \ {o}) + o.qty
<1> DEFINE P == R \ {o}
<1>1. Units(P) \subseteq Units(R)
  BY DEF Units
<1>2. IsFiniteSet(Units(P))
  BY <1>1, FS_Subset
<1>3. P \cup {o} = R /\ o \notin P
  OBVIOUS
<1> HIDE DEF P
<1>4. SumQty(P) \in Nat /\ SumQty(P \cup {o}) = SumQty(P) + o.qty
  BY <1>2, <1>3, SumQtyAdd
<1> QED BY <1>2, <1>3, <1>4 DEF P

\* One order gives up a part of its quantity.
LEMMA SumQtyReduce ==
    ASSUME NEW R, IsFiniteSet(Units(R)), NEW o \in R, o.qty \in Nat,
           NEW r, r.qty \in Nat, r \notin R \ {o}
    PROVE  /\ IsFiniteSet(Units((R \ {o}) \cup {r})) /\ SumQty((R \ {o}) \cup {r}) \in Nat /\ SumQty(R) \in Nat
           /\ SumQty((R \ {o}) \cup {r}) = SumQty(R) - o.qty + r.qty
<1>1. /\ IsFiniteSet(Units(R \ {o})) /\ SumQty(R \ {o}) \in Nat
      /\ SumQty(R) = SumQty(R \ {o}) + o.qty
  BY SumQtyRemove
<1> DEFINE P == R \ {o}
<1> HIDE DEF P
<1>2. /\ IsFiniteSet(Units(P)) /\ SumQty(P) \in Nat
      /\ SumQty(R) = SumQty(P) + o.qty /\ r \notin P
  BY <1>1 DEF P
<1>3. IsFiniteSet(Units(P \cup {r})) /\ SumQty(P \cup {r}) = SumQty(P) + r.qty
  BY <1>2, SumQtyAdd
<1>4. SumQty(P \cup {r}) \in Nat /\ SumQty(R) \in Nat /\ SumQty(P \cup {r}) = SumQty(R) - o.qty + r.qty
  BY <1>2, <1>3
<1> QED BY <1>3, <1>4 DEF P

\* The inductive form: the sums are sums of finitely many units.
ConservedIn(sym) ==
    /\ IsFiniteSet(Units(Resting(sym)))
    /\ submitted[sym] = SumQty(Resting(sym)) + 2 * m_total_volume[sym]
                        + (IF TakerOf(sym) = NoOrder THEN 0 ELSE taker.qty)
Conserved == \A sym \in Symbols : ConservedIn(sym)

\* Whose order it is that the engine holds.
LEMMA TakerOfCases ==
    ASSUME EngineInv, NEW sym
    PROVE  TakerOf(sym) = NoOrder <=> taker = NoOrder \/ taker.sym # sym
<1>1. ASSUME taker # NoOrder PROVE Entry # NoOrder
  <2>1. taker \in TakerOrder
    BY <1>1 DEF EngineInv, EngineType
  <2>2. Entry \in BookOrder
    BY <2>1 DEF TakerOrder, BookOrder, Entry
  <2> QED BY <2>2, TakerIsNoOrder
<1> QED BY <1>1 DEF TakerOf

\* The same in the next state.
LEMMA TakerOfNext == (EngineInv => \A sym \in Symbols : (TakerOf(sym) = NoOrder <=> taker = NoOrder \/ taker.sym # sym))'
<1>1. EngineInv => \A sym \in Symbols : (TakerOf(sym) = NoOrder <=> taker = NoOrder \/ taker.sym # sym)
  BY TakerOfCases
<1> QED BY <1>1, PTL

\* A message brings its quantity into the hands of submit_order.
LEMMA RouteConserves ==
    ASSUME EngineInv, EngineInv', Conserved, NEW key \in Symbols \cup {EmptySymbol}, NEW s, NEW p \in Int, NEW q \in Nat,
           Route(key, s, p, q) \/ RouteNoSide(key, s), NEW sym \in Symbols
    PROVE  ConservedIn(sym)'
<1>1. Resting(sym)' = Resting(sym) /\ taker = NoOrder /\ TakerOf(sym) = NoOrder /\ m_total_volume' = m_total_volume
  BY RouteResting, TakerOfCases DEF Route, RouteNoSide
<1>2. /\ IsFiniteSet(Units(Resting(sym)))
      /\ submitted[sym] = SumQty(Resting(sym)) + 2 * m_total_volume[sym] + 0
  BY <1>1 DEF Conserved, ConservedIn
<1>3. /\ SumQty(Resting(sym)) \in Nat /\ m_total_volume[sym] \in Nat /\ submitted \in [Symbols -> Nat]
      /\ BookKey(key) \in Symbols
  BY <1>2, FS_CardinalityType, BookKeyType DEF SumQty, EngineInv, EngineType
<1>4. TakerOf(sym)' = NoOrder <=> taker' = NoOrder \/ taker'.sym # sym
  BY TakerOfNext
<1>5. submitted'[sym] = submitted[sym] + (IF TakerOf(sym)' = NoOrder THEN 0 ELSE taker'.qty)
  <2>1. CASE RouteNoSide(key, s)
    <3>1. taker' = NoOrder /\ submitted' = submitted
      BY <1>1, <2>1 DEF RouteNoSide
    <3> QED BY <1>3, <1>4, <3>1
  <2>2. CASE Route(key, s, p, q)
    <3>1. /\ taker' = [sym |-> BookKey(key), id |-> last + 1, side |-> s, price |-> p, qty |-> q]
          /\ submitted' = [submitted EXCEPT ![BookKey(key)] = @ + q]
      BY <2>2 DEF Route
    <3>2. taker'.sym = BookKey(key) /\ taker'.qty = q
      BY <3>1
    <3>3. taker' # NoOrder
      <4>1. taker' \in TakerOrder
        BY <1>3, <2>2, <3>1 DEF Route, EngineInv, EngineType, TakerOrder
      <4> QED BY <4>1, TakerIsNoOrder
    <3>4. CASE sym = BookKey(key)
      BY <1>3, <1>4, <3>1, <3>2, <3>3, <3>4
    <3>5. CASE sym # BookKey(key)
      BY <1>3, <1>4, <3>1, <3>2, <3>5
    <3> QED BY <3>4, <3>5
  <2> QED BY <2>1, <2>2
<1>6. (IF TakerOf(sym)' = NoOrder THEN 0 ELSE taker'.qty) \in Nat
  BY <1>4 DEF EngineInv, EngineType, TakerOrder
<1>7. submitted'[sym] = SumQty(Resting(sym)) + 2 * m_total_volume'[sym] + (IF TakerOf(sym)' = NoOrder THEN 0 ELSE taker'.qty)
  BY <1>1, <1>2, <1>3, <1>5, <1>6
<1> QED BY <1>1, <1>2, <1>7 DEF ConservedIn

\* A fill takes the same quantity from both orders and counts it as volume.
LEMMA MatchConserves ==
    ASSUME EngineInv, EngineInv', Conserved, MatchFront, NEW sym \in Symbols
    PROVE  ConservedIn(sym)'
<1> DEFINE m == Head(Other)
           R == Resting(sym)
           M == MatchQty
<1>1. /\ taker \in TakerOrder /\ taker # NoOrder /\ taker.sym \in Symbols
      /\ M \in Nat /\ M <= taker.qty /\ M <= Head(Other).qty
      /\ taker' = [taker EXCEPT !.qty = @ - M]
      /\ m_total_volume' = [m_total_volume EXCEPT ![taker.sym] = @ + M]
      /\ UNCHANGED submitted
  BY MatchEffect
<1>2. taker.qty \in Nat /\ taker'.sym = taker.sym /\ taker'.qty = taker.qty - M /\ taker' \in TakerOrder
  BY <1>1 DEF TakerOrder
<1>3. /\ TakerOf(sym) = NoOrder <=> taker.sym # sym
      /\ TakerOf(sym)' = NoOrder <=> taker.sym # sym
  BY <1>1, <1>2, TakerOfCases, TakerOfNext, TakerIsNoOrder
<1>4. /\ IsFiniteSet(Units(R)) /\ SumQty(R) \in Nat
      /\ submitted[sym] = SumQty(R) + 2 * m_total_volume[sym] + (IF TakerOf(sym) = NoOrder THEN 0 ELSE taker.qty)
      /\ m_total_volume \in [Symbols -> Nat] /\ m_total_volume[sym] \in Nat
  BY FS_CardinalityType DEF Conserved, ConservedIn, SumQty, EngineInv, EngineType
<1>5. CASE sym # taker.sym
  <2>1. Resting(sym)' = R
    BY <1>5, MatchResting
  <2>2. m_total_volume'[sym] = m_total_volume[sym]
    BY <1>1, <1>4, <1>5
  <2> QED BY <1>1, <1>3, <1>4, <1>5, <2>1, <2>2 DEF ConservedIn
<1>6. CASE sym = taker.sym
  <2>1. /\ m \in BookOrder /\ m \in R /\ Reduced(m, M) \notin R \ {m}
        /\ Resting(sym)' = IF M = m.qty THEN R \ {m} ELSE (R \ {m}) \cup {Reduced(m, M)}
    BY <1>6, MatchResting
  <2>2. m.qty \in Nat /\ Reduced(m, M).qty = m.qty - M /\ m.qty - M \in Nat
    BY <1>1, <2>1, ReducedFields DEF BookOrder
  <2>3. m_total_volume'[sym] = m_total_volume[sym] + M
    BY <1>1, <1>4, <1>6
  <2> HIDE DEF m, R, M
  <2>4. IsFiniteSet(Units(Resting(sym)')) /\ SumQty(Resting(sym)') = SumQty(R) - M
    <3>1. CASE M = m.qty
      <4>1. Resting(sym)' = R \ {m}
        BY <2>1, <3>1
      <4>2. IsFiniteSet(Units(R \ {m})) /\ SumQty(R \ {m}) \in Nat /\ SumQty(R) = SumQty(R \ {m}) + m.qty
        BY <1>4, <2>1, <2>2, SumQtyRemove
      <4>3. SumQty(R \ {m}) = SumQty(R) - M
        BY <2>2, <3>1, <4>2
      <4> QED BY <4>1, <4>2, <4>3
    <3>2. CASE M # m.qty
      <4>1. Resting(sym)' = (R \ {m}) \cup {Reduced(m, M)}
        BY <2>1, <3>2
      <4>2. /\ IsFiniteSet(Units((R \ {m}) \cup {Reduced(m, M)}))
            /\ SumQty((R \ {m}) \cup {Reduced(m, M)}) = SumQty(R) - m.qty + Reduced(m, M).qty
        BY <1>4, <2>1, <2>2, SumQtyReduce
      <4>3. SumQty(R) - m.qty + Reduced(m, M).qty = SumQty(R) - M
        BY <1>1, <1>4, <2>2
      <4> QED BY <4>1, <4>2, <4>3
    <3> QED BY <3>1, <3>2
  <2>5. submitted[sym] = SumQty(R) + 2 * m_total_volume[sym] + taker.qty
    BY <1>3, <1>4, <1>6
  <2>6. submitted[sym] = (SumQty(R) - M) + 2 * (m_total_volume[sym] + M) + (taker.qty - M)
    BY <1>1, <1>2, <1>4, <2>5
  <2>7. submitted'[sym] = SumQty(Resting(sym)') + 2 * m_total_volume'[sym] + (IF TakerOf(sym)' = NoOrder THEN 0 ELSE taker'.qty)
    BY <1>1, <1>2, <1>3, <1>6, <2>3, <2>4, <2>6
  <2> QED BY <2>4, <2>7 DEF ConservedIn
<1> QED BY <1>5, <1>6

\* What is left of the taker is the order that rests.
LEMMA RestConserves ==
    ASSUME EngineInv, EngineInv', Conserved, Rest, NEW sym \in Symbols
    PROVE  ConservedIn(sym)'
<1> DEFINE R == Resting(sym)
<1>1. /\ taker \in TakerOrder /\ taker # NoOrder /\ taker' = NoOrder /\ Entry.qty = taker.qty
      /\ UNCHANGED <<submitted, m_total_volume>>
  BY RestEffect
<1>2. /\ IsFiniteSet(Units(R)) /\ SumQty(R) \in Nat
      /\ submitted[sym] = SumQty(R) + 2 * m_total_volume[sym] + (IF TakerOf(sym) = NoOrder THEN 0 ELSE taker.qty)
      /\ m_total_volume[sym] \in Nat /\ taker.qty \in Nat
  BY <1>1, FS_CardinalityType DEF Conserved, ConservedIn, SumQty, EngineInv, EngineType, TakerOrder
<1>3. TakerOf(sym)' = NoOrder /\ (TakerOf(sym) = NoOrder <=> taker.sym # sym)
  BY <1>1, TakerOfCases, TakerOfNext
<1>4. CASE sym # taker.sym \/ taker.qty = 0
  <2>1. Resting(sym)' = R
    BY <1>4, RestResting
  <2>2. submitted[sym] = SumQty(R) + 2 * m_total_volume[sym] + 0
    BY <1>2, <1>3, <1>4
  <2> QED BY <1>1, <1>2, <1>3, <2>1, <2>2 DEF ConservedIn
<1>5. CASE sym = taker.sym /\ taker.qty > 0
  <2>1. Entry \notin R /\ Resting(sym)' = R \cup {Entry}
    BY <1>5, RestResting
  <2> HIDE DEF R
  <2>2. IsFiniteSet(Units(R \cup {Entry})) /\ SumQty(R \cup {Entry}) = SumQty(R) + taker.qty
    BY <1>1, <1>2, <2>1, SumQtyAdd
  <2>3. submitted[sym] = SumQty(R) + 2 * m_total_volume[sym] + taker.qty
    BY <1>2, <1>3, <1>5
  <2>4. submitted[sym] = (SumQty(R) + taker.qty) + 2 * m_total_volume[sym] + 0
    BY <1>2, <2>3
  <2> QED BY <1>1, <1>3, <2>1, <2>2, <2>4 DEF ConservedIn
<1> QED BY <1>2, <1>4, <1>5

\* Every step.
LEMMA StepConserves == EngineInv /\ EngineInv' /\ Conserved /\ [Next]_vars => Conserved'
<1> SUFFICES ASSUME EngineInv, EngineInv', Conserved, [Next]_vars, NEW sym \in Symbols
             PROVE  ConservedIn(sym)'
  BY DEF Conserved
<1>1. ASSUME UNCHANGED engineVars PROVE ConservedIn(sym)'
  <2>1. Resting(sym)' = Resting(sym) /\ TakerOf(sym)' = TakerOf(sym) /\ UNCHANGED <<submitted, m_total_volume, taker>>
    BY <1>1, IdleResting DEF engineVars, TakerOf, Entry
  <2> QED BY <2>1 DEF Conserved, ConservedIn
<1>2. CASE UNCHANGED vars
  BY <1>1, <1>2 DEF vars
<1>3. CASE \E o \in Orders : HandleMessage(o)
  BY <1>1, <1>3, HandleCases, RoutedFields, RouteConserves
<1>4. CASE Match
  BY <1>4, MatchConserves DEF Match
<1>5. CASE Place
  BY <1>5, RestConserves DEF Place
<1>6. CASE Settings
  BY <1>1, <1>6 DEF Settings
<1> QED BY <1>2, <1>3, <1>4, <1>5, <1>6 DEF Next

\* No quantity is created or lost, in any book, whatever is submitted.
THEOREM NoQuantityLost == Spec => []QuantityConserved
<1>1. Init => Conserved
  <2> SUFFICES ASSUME Init, NEW sym \in Symbols PROVE ConservedIn(sym)
    BY DEF Conserved
  <2>1. taker = NoOrder /\ DOMAIN m_books = {} /\ submitted[sym] = 0 /\ m_total_volume[sym] = 0
    BY DEF Init, EngineInit
  <2>2. Resting(sym) = {}
    BY <2>1 DEF Resting, BookOf, EmptyBook, ToSet
  <2>3. Units({}) = {}
    BY DEF Units
  <2>4. IsFiniteSet(Units(Resting(sym))) /\ SumQty(Resting(sym)) = 0
    BY <2>2, <2>3, FS_EmptySet DEF SumQty
  <2>5. TakerOf(sym) = NoOrder
    BY <2>1 DEF TakerOf
  <2> QED BY <2>1, <2>4, <2>5 DEF ConservedIn
<1>2. Conserved => QuantityConserved
  BY DEF Conserved, ConservedIn, QuantityConserved
<1> QED BY <1>1, <1>2, StepConserves, EngineInvariance, PTL DEF Spec

----------------------------------------------------------------------------
(* Every book implements PriceTimeBook.                                    *)

\* A step of the book of one symbol, as the abstract book sees it.
BookStep(sym) == [Book(sym)!Next]_(Book(sym)!vars)

\* Nothing of this book changes.
LEMMA StutterRefines ==
    ASSUME NEW sym, Resting(sym)' = Resting(sym), TakerOf(sym)' = TakerOf(sym), latest'[sym] = latest[sym]
    PROVE  BookStep(sym)
BY DEF BookStep, Book!vars

\* A routed order is a submission to the book of its symbol.
LEMMA RouteRefines ==
    ASSUME EngineInv, EngineInv', NEW key \in Symbols \cup {EmptySymbol}, NEW s, NEW p \in Int, NEW q \in Nat,
           \/ Route(key, s, p, q) /\ p \in Prices /\ q \in Quantities
           \/ RouteNoSide(key, s),
           NEW sym \in Symbols
    PROVE  BookStep(sym)
<1>1. Resting(sym)' = Resting(sym) /\ taker = NoOrder /\ TakerOf(sym) = NoOrder
  BY RouteResting, TakerOfCases DEF Route, RouteNoSide
<1>2. TakerOf(sym)' = NoOrder <=> taker' = NoOrder \/ taker'.sym # sym
  BY TakerOfNext
<1>3. CASE RouteNoSide(key, s)
  <2>1. taker' = NoOrder /\ latest' = latest
    BY <1>1, <1>3 DEF RouteNoSide
  <2> QED BY <1>1, <1>2, <2>1, StutterRefines
<1>4. CASE Route(key, s, p, q) /\ p \in Prices /\ q \in Quantities
  <2>1. /\ taker' = [sym |-> BookKey(key), id |-> last + 1, side |-> s, price |-> p, qty |-> q]
        /\ latest' = [latest EXCEPT ![BookKey(key)] = last + 1]
        /\ last < MaxOrders /\ s \in {1, 2} /\ BookKey(key) \in Symbols
    BY <1>4, BookKeyType DEF Route
  <2>2. taker'.sym = BookKey(key) /\ taker'.id = last + 1 /\ taker'.side = s /\ taker'.price = p /\ taker'.qty = q
    BY <2>1
  <2>3. latest \in [Symbols -> Nat] /\ last \in Nat /\ latest[sym] <= last /\ latest[sym] \in Nat /\ MaxOrders \in Nat
    BY EngineAssumption DEF EngineInv, EngineType
  <2>4. CASE sym # BookKey(key)
    <3>1. latest'[sym] = latest[sym] /\ TakerOf(sym)' = NoOrder
      BY <1>2, <2>1, <2>2, <2>3, <2>4
    <3> QED BY <1>1, <3>1, StutterRefines
  <2>5. CASE sym = BookKey(key)
    <3>1. latest'[sym] = last + 1 /\ latest'[sym] \in (latest[sym] + 1)..MaxOrders
      BY <2>1, <2>3, <2>5
    <3>2. taker' # NoOrder
      <4>1. taker' \in TakerOrder
        BY <2>1, <2>3 DEF TakerOrder
      <4> QED BY <4>1, TakerIsNoOrder
    <3>3. TakerOf(sym)' = [id |-> latest'[sym], side |-> s, price |-> p, qty |-> q]
      BY <2>2, <2>5, <3>1, <3>2 DEF TakerOf, Entry
    <3>4. Book(sym)!Submit
      BY <1>1, <1>4, <2>1, <3>1, <3>3 DEF Book!Submit
    <3> QED BY <3>4 DEF BookStep, Book!Next
  <2> QED BY <2>4, <2>5
<1> QED BY <1>3, <1>4

\* A fill of the vector's front order is a trade with the order that has
\* priority over all that cross.
LEMMA MatchRefines ==
    ASSUME EngineInv, EngineInv', MatchFront, NEW sym \in Symbols
    PROVE  BookStep(sym)
<1> DEFINE m == Head(Other)
           R == Resting(sym)
           M == MatchQty
<1>1. /\ taker \in TakerOrder /\ taker # NoOrder /\ taker.qty > 0
      /\ ~LimitReached(m.price)
      /\ M \in Nat /\ M <= taker.qty /\ M <= m.qty
      /\ taker' = [taker EXCEPT !.qty = @ - M]
      /\ UNCHANGED latest
  BY MatchEffect
<1>2. /\ taker.id \in Nat /\ taker.side \in {1, 2} /\ taker.price \in Int /\ taker.qty \in Nat
      /\ taker'.sym = taker.sym /\ taker'.id = taker.id /\ taker'.side = taker.side
      /\ taker'.price = taker.price /\ taker'.qty = taker.qty - M /\ taker' \in TakerOrder
  BY <1>1 DEF TakerOrder
<1>3. taker' # NoOrder
  BY <1>2, TakerIsNoOrder
<1>4. CASE sym # taker.sym
  <2>1. TakerOf(sym) = NoOrder /\ TakerOf(sym)' = NoOrder
    BY <1>2, <1>4 DEF TakerOf
  <2> QED BY <1>1, <1>4, <2>1, MatchResting, StutterRefines
<1>5. CASE sym = taker.sym
  <2>1. /\ m \in BookOrder /\ m \in R /\ m.side = 3 - taker.side
        /\ \A n \in R : n.side = 3 - taker.side => n = m \/ Precedes(3 - taker.side, m, n)
    BY <1>5, MatchResting
  <2>2. Resting(sym)' = IF M = m.qty THEN R \ {m} ELSE (R \ {m}) \cup {Reduced(m, M)}
    BY <1>5, MatchResting
  <2>3. TakerOf(sym) = Entry /\ TakerOf(sym)' = [Entry EXCEPT !.qty = @ - M]
    BY <1>1, <1>2, <1>3, <1>5 DEF TakerOf, Entry
  <2>4. /\ Entry.id = taker.id /\ Entry.side = taker.side
        /\ Entry.price = taker.price /\ Entry.qty = taker.qty /\ Entry # NoOrder
    <3>1. Entry \in BookOrder
      BY <1>2 DEF Entry, BookOrder
    <3> QED BY <3>1, TakerIsNoOrder DEF Entry
  <2>5. M = IF m.qty < Entry.qty THEN m.qty ELSE Entry.qty
    <3>1. m.qty \in Nat
      BY <2>1 DEF BookOrder
    <3> QED BY <1>2, <2>4, <3>1 DEF MatchQty
  <2> HIDE DEF m, R, M
  <2>6. Book(sym)!Crosses(Entry, m)
    <3>1. IF taker.side = 1 THEN ~(taker.price < m.price) ELSE ~(taker.price > m.price)
      BY <1>1 DEF LimitReached
    <3>2. m.price \in Int
      BY <2>1 DEF BookOrder
    <3> QED BY <1>2, <2>1, <2>4, <3>1, <3>2 DEF Book!Crosses
  <2>7. ASSUME NEW n \in R, Book(sym)!Crosses(Entry, n) PROVE n = m \/ Book(sym)!Before(m, n)
    <3>1. n.side = 3 - taker.side
      BY <2>4, <2>7 DEF Book!Crosses
    <3>2. n = m \/ Precedes(m.side, m, n)
      BY <2>1, <3>1
    <3>3. m.side \in {1, 2}
      BY <2>1 DEF BookOrder
    <3> QED BY <3>2, <3>3 DEF Precedes, Book!Before
  <2>8. Resting(sym)' = IF M = m.qty THEN R \ {m} ELSE (R \ {m}) \cup {[m EXCEPT !.qty = @ - M]}
    BY <2>2 DEF Reduced
  <2>9. Book(sym)!Trade
    BY <1>1, <2>1, <2>3, <2>4, <2>5, <2>6, <2>7, <2>8 DEF Book!Trade, R
  <2> QED BY <2>9 DEF BookStep, Book!Next
<1> QED BY <1>4, <1>5

\* When the loop has ended with something left, nothing crosses it: the side is
\* sorted, so the front order decides for all of them.
LEMMA NothingCrosses ==
    ASSUME EngineInv, taker # NoOrder, ~Matches, taker.qty > 0,
           NEW n \in Resting(taker.sym), n.side = 3 - taker.side
    PROVE  LimitReached(n.price)
<1> DEFINE o == 3 - taker.side
<1>1. /\ taker \in TakerOrder /\ taker.sym \in DOMAIN m_books /\ taker.sym \in Symbols
      /\ taker.side \in {1, 2} /\ taker.id \in Nat /\ taker.id >= 1 /\ taker.price \in Int
  BY DEF EngineInv, EngineType, TakerOrder
<1>2. o \in {1, 2} /\ 3 - o \in {1, 2} /\ 3 - o # o /\ taker.id - 1 \in Nat
  BY <1>1
<1>3. Other = BookOf(taker.sym)[o] /\ SideInOrder(Other, o, taker.id - 1)
  BY <1>1, <1>2 DEF Other, BookOf, EngineInv, BooksInOrder, Newest
<1> HIDE DEF o
<1>4. n \in ToSet(Other)
  <2>1. Resting(taker.sym) = ToSet(BookOf(taker.sym)[o]) \cup ToSet(BookOf(taker.sym)[3 - o])
    BY <1>1, <1>2, RestingOrders
  <2>2. \A x \in ToSet(BookOf(taker.sym)[3 - o]) : x.side = 3 - o
    BY <1>1, <1>2, RestingOrders
  <2> QED BY <1>2, <1>3, <2>1, <2>2 DEF o
<1>5. Other # <<>>
  <2>1. Other = <<>> => ToSet(Other) = {}
    BY DEF ToSet
  <2> QED BY <1>4, <2>1
<1>6. LimitReached(Head(Other).price)
  BY <1>5 DEF Matches
<1>7. Head(Other) \in BookOrder /\ (n = Head(Other) \/ Precedes(o, Head(Other), n))
  BY <1>2, <1>3, <1>4, <1>5, FrontIsBest
<1>8. n \in BookOrder
  BY <1>1, <1>2, <1>3, <1>4, RestingOrders
<1>9. n.price \in Int /\ Head(Other).price \in Int
  BY <1>7, <1>8 DEF BookOrder
<1> QED BY <1>1, <1>6, <1>7, <1>9 DEF LimitReached, Precedes, o

\* The end of submit_order rests what is left, or forgets a spent order.
LEMMA RestRefines ==
    ASSUME EngineInv, EngineInv', Rest, NEW sym \in Symbols
    PROVE  BookStep(sym)
<1>1. /\ taker \in TakerOrder /\ taker # NoOrder /\ ~Matches /\ taker' = NoOrder /\ UNCHANGED latest
      /\ Entry \in BookOrder /\ Entry.side = taker.side /\ Entry.price = taker.price /\ Entry.qty = taker.qty
  BY RestEffect DEF Rest
<1>2. TakerOf(sym)' = NoOrder
  BY <1>1 DEF TakerOf
<1>3. CASE sym # taker.sym
  <2>1. TakerOf(sym) = NoOrder
    BY <1>3 DEF TakerOf
  <2> QED BY <1>1, <1>2, <1>3, <2>1, RestResting, StutterRefines
<1>4. CASE sym = taker.sym
  <2>1. TakerOf(sym) = Entry /\ Entry # NoOrder /\ taker.qty \in Nat
    BY <1>1, <1>4, TakerIsNoOrder DEF TakerOf, TakerOrder
  <2>2. ASSUME Entry.qty > 0, NEW n \in Resting(sym) PROVE ~Book(sym)!Crosses(Entry, n)
    <3> SUFFICES ASSUME n.side = 3 - taker.side
                 PROVE  ~(IF taker.side = 1 THEN n.price <= taker.price ELSE n.price >= taker.price)
      BY <1>1 DEF Book!Crosses
    <3>1. LimitReached(n.price)
      BY <1>1, <1>4, <2>2, NothingCrosses
    <3>2. n \in BookOrder
      <4>1. \A x \in ToSet(BookOf(sym)[1]) : x \in BookOrder
        BY RestingOrders
      <4>2. \A x \in ToSet(BookOf(sym)[2]) : x \in BookOrder
        BY RestingOrders
      <4> QED BY <4>1, <4>2 DEF Resting
    <3>3. n.price \in Int /\ taker.price \in Int
      BY <1>1, <3>2 DEF BookOrder, TakerOrder
    <3> QED BY <3>1, <3>3 DEF LimitReached
  <2>3. \/ Entry.qty > 0 /\ Resting(sym)' = Resting(sym) \cup {Entry}
        \/ Entry.qty = 0 /\ Resting(sym)' = Resting(sym)
    <3>1. Entry.qty > 0 \/ Entry.qty = 0
      BY <1>1, <2>1
    <3> QED BY <1>1, <1>4, <3>1, RestResting
  <2>4. Book(sym)!Rest
    BY <1>1, <1>2, <2>1, <2>2, <2>3 DEF Book!Rest
  <2> QED BY <2>4 DEF BookStep, Book!Next
<1> QED BY <1>3, <1>4

\* Every step of the worker is a step of every book or leaves it alone.
LEMMA StepRefines ==
    LimitsBelowWrap /\ AskedWithinBounds /\ RiskType /\ EngineInv /\ EngineInv' /\ [Next]_vars
        => \A sym \in Symbols : BookStep(sym)
<1> SUFFICES ASSUME LimitsBelowWrap, AskedWithinBounds, RiskType, EngineInv, EngineInv', [Next]_vars,
                    NEW sym \in Symbols
             PROVE  BookStep(sym)
  OBVIOUS
<1>1. ASSUME UNCHANGED engineVars PROVE BookStep(sym)
  <2>1. Resting(sym)' = Resting(sym) /\ TakerOf(sym)' = TakerOf(sym) /\ latest' = latest
    BY <1>1, IdleResting DEF engineVars, TakerOf, Entry
  <2> QED BY <2>1, StutterRefines
<1>2. CASE UNCHANGED vars
  BY <1>1, <1>2 DEF vars
<1>3. CASE \E o \in Orders : HandleMessage(o)
  <2>1. PICK o \in Orders : HandleMessage(o)
    BY <1>3
  <2>2. CASE UNCHANGED engineVars
    BY <1>1, <2>2
  <2>3. ASSUME NEW key \in Symbols \cup {EmptySymbol}, Verdict(o) = "APPROVED",
               Route(key, o.side, o.price, RemainingQty(o)) \/ RouteNoSide(key, o.side)
        PROVE  BookStep(sym)
    <3>1. RemainingQty(o) = o.quantity
      BY <2>3, ApprovedAdmitted
    <3>2. o.price \in Int /\ RemainingQty(o) \in Nat
      BY RoutedFields
    <3>3. o.price \in Prices /\ o.quantity \in Quantities
      <4>1. Safe(o)
        BY <2>3, VerdictExact
      <4>2. m_limits \in Limits /\ m_limits.max_order_qty \in Nat
        BY RiskAssumption DEF RiskType
      <4>3. o.quantity \in 0..m_limits.max_order_qty
        BY <3>1, <3>2, <4>1, <4>2 DEF Safe
      <4> QED BY <4>1, <4>2, <4>3 DEF AskedWithinBounds, Safe
    <3> QED BY <2>3, <3>1, <3>2, <3>3, RouteRefines
  <2> QED BY <2>1, <2>2, <2>3, HandleCases
<1>4. CASE Match
  BY <1>4, MatchRefines DEF Match
<1>5. CASE Place
  BY <1>5, RestRefines DEF Place
<1>6. CASE Settings
  BY <1>1, <1>6 DEF Settings
<1> QED BY <1>2, <1>3, <1>4, <1>5, <1>6 DEF Next

\* Every book implements the abstract price-time book, whatever orders for
\* other symbols come in between.
THEOREM PriceTimePriority ==
    LimitsBelowWrap /\ AskedWithinBounds => (Spec => ImplementsPriceTime)
<1> SUFFICES ASSUME LimitsBelowWrap, AskedWithinBounds PROVE Spec => ImplementsPriceTime
  OBVIOUS
<1>1. Init => \A sym \in Symbols : Book(sym)!Init
  <2> SUFFICES ASSUME Init, NEW sym \in Symbols PROVE Book(sym)!Init
    OBVIOUS
  <2>1. taker = NoOrder /\ DOMAIN m_books = {} /\ latest[sym] = 0
    BY DEF Init, EngineInit
  <2>2. Resting(sym) = {}
    BY <2>1 DEF Resting, BookOf, EmptyBook, ToSet
  <2>3. TakerOf(sym) = NoOrder
    BY <2>1 DEF TakerOf
  <2> QED BY <2>1, <2>2, <2>3 DEF Book!Init
<1>2. RiskType /\ EngineInv /\ EngineInv' /\ [Next]_vars
         => [\A sym \in Symbols : [Book(sym)!Next]_(Book(sym)!vars)]_engineVars
  BY StepRefines DEF BookStep
<1> QED BY <1>1, <1>2, RiskTypeInvariance, EngineInvariance, PTL DEF Spec, ImplementsPriceTime
=============================================================================
