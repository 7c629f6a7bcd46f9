-------------------------- MODULE OrderBook_proofs --------------------------
(***************************************************************************)
(* Proofs about OrderBook, the allocation-free limit order book, for every *)
(* number of levels, every length of a level's ring, every size of the     *)
(* report array and all prices and quantities.                             *)
(***************************************************************************)
EXTENDS OrderBook, SequenceTheorems, FiniteSetTheorems, WellFoundedInduction, TLAPS

----------------------------------------------------------------------------
(* A level.                                                                *)

Entry == [id : Nat, qty : Nat]
LevelRecord == [price : Nat, orders : [Ring -> Entry], head : Ring,
                count : 0..MaxOrdersPerLevel, total : Int]
BookOrder == [id : Nat, side : Sides, price : Nat, qty : Nat]

\* The level of side s holds unspent orders with numbers up to n, in the order
\* of their arrival, and its cached total and count are theirs.
LevelOK(s, l, n) ==
    /\ l \in LevelRecord /\ l.price > 0
    /\ \A i \in 1..l.count : Queue(l)[i].qty > 0 /\ Queue(l)[i].id <= n
    /\ \A i, j \in 1..l.count : i < j => Queue(l)[i].id < Queue(l)[j].id
    /\ IsFiniteSet(Units(LevelOrders(s, l))) /\ l.total = SumQty(LevelOrders(s, l))
    /\ IsFiniteSet(LevelOrders(s, l)) /\ l.count = Cardinality(LevelOrders(s, l))

\* An index that leaves the ring comes back at its start.
LEMMA RingWraps ==
    ASSUME NEW i \in Nat, i < 2 * MaxOrdersPerLevel
    PROVE  /\ i % MaxOrdersPerLevel = IF i < MaxOrdersPerLevel THEN i ELSE i - MaxOrdersPerLevel
           /\ i % MaxOrdersPerLevel \in Ring
<1>1. MaxOrdersPerLevel \in Nat /\ MaxOrdersPerLevel >= 1
  BY BookAssumption
<1> DEFINE M == MaxOrdersPerLevel
<1> HIDE DEF M
<1>2. M \in Nat /\ M >= 1 /\ i < 2 * M
  BY <1>1 DEF M
<1>3. i % M = IF i < M THEN i ELSE i - M
  <2>1. CASE i < M
    BY <1>2, <2>1
  <2>2. CASE i >= M
    BY <1>2, <2>2
  <2> QED BY <1>2, <2>1, <2>2
<1>4. i % M \in 0..(M - 1)
  BY <1>2, <1>3
<1> QED BY <1>3, <1>4 DEF M, Ring

\* Where the i-th live order of a level lies.
Slot(l, i) == (l.head + i - 1) % MaxOrdersPerLevel

\* It lies in the ring, and Queue finds it there.
LEMMA QueueEntry ==
    ASSUME NEW l \in LevelRecord, NEW i \in 1..MaxOrdersPerLevel
    PROVE  /\ Slot(l, i) \in Ring
           /\ Slot(l, i) = IF l.head + i - 1 < MaxOrdersPerLevel THEN l.head + i - 1
                           ELSE l.head + i - 1 - MaxOrdersPerLevel
           /\ l.orders[Slot(l, i)] \in Entry
           /\ i <= l.count => Queue(l)[i] = l.orders[Slot(l, i)]
<1>1. MaxOrdersPerLevel \in Nat /\ MaxOrdersPerLevel >= 1
  BY BookAssumption
<1>2. l.head \in 0..(MaxOrdersPerLevel - 1) /\ l.count \in 0..MaxOrdersPerLevel /\ l.orders \in [Ring -> Entry]
  BY DEF LevelRecord, Ring
<1>3. l.head + i - 1 \in Nat /\ l.head + i - 1 < 2 * MaxOrdersPerLevel
  BY <1>1, <1>2
<1>4. /\ Slot(l, i) \in Ring
      /\ Slot(l, i) = IF l.head + i - 1 < MaxOrdersPerLevel THEN l.head + i - 1
                      ELSE l.head + i - 1 - MaxOrdersPerLevel
  <2> DEFINE x == l.head + i - 1
  <2> HIDE DEF x
  <2>1. x \in Nat /\ x < 2 * MaxOrdersPerLevel
    BY <1>3 DEF x
  <2>2. x % MaxOrdersPerLevel = IF x < MaxOrdersPerLevel THEN x ELSE x - MaxOrdersPerLevel
    BY <2>1, RingWraps
  <2>3. x % MaxOrdersPerLevel \in Ring
    BY <2>1, RingWraps
  <2>4. Slot(l, i) = x % MaxOrdersPerLevel
    BY DEF Slot, x
  <2>5. Slot(l, i) \in Ring
    BY <2>3, <2>4
  <2>6. Slot(l, i) = IF x < MaxOrdersPerLevel THEN x ELSE x - MaxOrdersPerLevel
    BY <2>2, <2>4
  <2> QED BY <1>1, <1>2, <2>1, <2>5, <2>6 DEF x
<1>5. l.orders[Slot(l, i)] \in Entry
  BY <1>2, <1>4
<1>6. i <= l.count => Queue(l)[i] = l.orders[Slot(l, i)]
  BY <1>1, <1>2 DEF Queue, Slot
<1> QED BY <1>4, <1>5, <1>6

\* No two live orders of a level lie in one place.
LEMMA SlotsDiffer ==
    ASSUME NEW l \in LevelRecord, NEW i \in 1..MaxOrdersPerLevel, NEW j \in 1..MaxOrdersPerLevel, i # j
    PROVE  Slot(l, i) # Slot(l, j)
<1>1. MaxOrdersPerLevel \in Nat /\ l.head \in 0..(MaxOrdersPerLevel - 1)
  BY BookAssumption DEF LevelRecord, Ring
<1> QED BY <1>1, QueueEntry

\* The orders of a level as the book shows them.
LEMMA OrderFields ==
    ASSUME NEW s \in Sides, NEW l \in LevelRecord, NEW i \in 1..l.count
    PROVE  /\ i \in 1..MaxOrdersPerLevel
           /\ Queue(l)[i] \in Entry
           /\ OrderIn(s, l, i) \in BookOrder
           /\ OrderIn(s, l, i).id = Queue(l)[i].id /\ OrderIn(s, l, i).qty = Queue(l)[i].qty
           /\ OrderIn(s, l, i).side = s /\ OrderIn(s, l, i).price = l.price
           /\ OrderIn(s, l, i) \in LevelOrders(s, l)
<1>1. i \in 1..MaxOrdersPerLevel /\ i <= l.count
  BY BookAssumption DEF LevelRecord
<1>2. Queue(l)[i] \in Entry
  BY <1>1, QueueEntry
<1>3. Queue(l)[i].id \in Nat /\ Queue(l)[i].qty \in Nat /\ l.price \in Nat
  BY <1>2 DEF Entry, LevelRecord
<1>4. /\ OrderIn(s, l, i) \in BookOrder
      /\ OrderIn(s, l, i).id = Queue(l)[i].id /\ OrderIn(s, l, i).qty = Queue(l)[i].qty
      /\ OrderIn(s, l, i).side = s /\ OrderIn(s, l, i).price = l.price
  BY <1>3 DEF OrderIn, BookOrder
<1> QED BY <1>1, <1>2, <1>4 DEF LevelOrders

\* The live orders of a good level differ in their numbers.
LEMMA OrdersDiffer ==
    ASSUME NEW s \in Sides, NEW l, NEW n, LevelOK(s, l, n), NEW i \in 1..l.count, NEW j \in 1..l.count, i # j
    PROVE  Queue(l)[i].id # Queue(l)[j].id /\ OrderIn(s, l, i) # OrderIn(s, l, j)
<1>1. l \in LevelRecord
  BY DEF LevelOK
<1>2. Queue(l)[i] \in Entry /\ Queue(l)[j] \in Entry /\ OrderIn(s, l, i).id = Queue(l)[i].id /\ OrderIn(s, l, j).id = Queue(l)[j].id
  BY <1>1, OrderFields
<1>3. Queue(l)[i].id \in Nat /\ Queue(l)[j].id \in Nat
  BY <1>2 DEF Entry
<1>4. i < j \/ j < i
  BY <1>1 DEF LevelRecord
<1>5. Queue(l)[i].id < Queue(l)[j].id \/ Queue(l)[j].id < Queue(l)[i].id
  BY <1>4 DEF LevelOK
<1> QED BY <1>2, <1>3, <1>5

----------------------------------------------------------------------------
(* Quantities.                                                             *)

\* One order more adds its quantity.
LEMMA SumQtyAdd ==
    ASSUME NEW R, IsFiniteSet(Units(R)), NEW o, o \notin R, o.qty \in Nat
    PROVE  /\ IsFiniteSet(Units(R \cup {o})) /\ SumQty(R) \in Nat
           /\ SumQty(R \cup {o}) = SumQty(R) + o.qty
<1> DEFINE U == {o} \X (1..o.qty)
<1>1. IsFiniteSet(U) /\ Cardinality(U) = o.qty
  <2>1. IsFiniteSet(1..o.qty) /\ Cardinality(1..o.qty) = o.qty
    <3>1. IsFiniteSet(1..o.qty) /\ Cardinality(1..o.qty) = IF 1 > o.qty THEN 0 ELSE o.qty - 1 + 1
      BY FS_Interval, SMTT(30)
    <3>2. (IF 1 > o.qty THEN 0 ELSE o.qty - 1 + 1) = o.qty
      OBVIOUS
    <3> QED BY <3>1, <3>2
  <2>2. IsFiniteSet({o}) /\ Cardinality({o}) = 1
    BY FS_Singleton
  <2>3. IsFiniteSet(U) /\ Cardinality(U) = Cardinality({o}) * Cardinality(1..o.qty)
    BY <2>1, <2>2, FS_Product
  <2> QED BY <2>1, <2>2, <2>3
<1>2. Units(R \cup {o}) = Units(R) \cup U
  BY DEF Units
<1>3. Units(R) \cap U = {}
  BY DEF Units
<1> HIDE DEF U
<1>4. /\ IsFiniteSet(Units(R) \cup U)
      /\ Cardinality(Units(R) \cup U) = Cardinality(Units(R)) + Cardinality(U) - Cardinality(Units(R) \cap U)
  BY <1>1, FS_Union
<1>5. Cardinality(Units(R) \cap U) = 0 /\ Cardinality(Units(R)) \in Nat
  BY <1>3, FS_EmptySet, FS_CardinalityType
<1>6. Cardinality(Units(R) \cup U) = Cardinality(Units(R)) + o.qty
  BY <1>1, <1>4, <1>5
<1> QED BY <1>2, <1>4, <1>5, <1>6 DEF SumQty

\* One order less takes its quantity away.
LEMMA SumQtyRemove ==
    ASSUME NEW R, IsFiniteSet(Units(R)), NEW o \in R, o.qty \in Nat
    PROVE  /\ IsFiniteSet(Units(R \ {o})) /\ SumQty(R \ {o}) \in Nat
           /\ SumQty(R) = SumQty(R \ {o}) + o.qty
<1> DEFINE P == R \ {o}
<1>1. Units(P) \subseteq Units(R)
  BY DEF Units
<1>2. IsFiniteSet(Units(P))
  BY <1>1, FS_Subset
<1>3. P \cup {o} = R /\ o \notin P
  OBVIOUS
<1> HIDE DEF P
<1>4. SumQty(P) \in Nat /\ SumQty(P \cup {o}) = SumQty(P) + o.qty
  BY <1>2, <1>3, SumQtyAdd
<1> QED BY <1>2, <1>3, <1>4 DEF P

\* One order gives up a part of its quantity.
LEMMA SumQtyReduce ==
    ASSUME NEW R, IsFiniteSet(Units(R)), NEW o \in R, o.qty \in Nat,
           NEW r, r.qty \in Nat, r \notin R \ {o}
    PROVE  /\ IsFiniteSet(Units((R \ {o}) \cup {r})) /\ SumQty((R \ {o}) \cup {r}) \in Nat /\ SumQty(R) \in Nat
           /\ SumQty((R \ {o}) \cup {r}) = SumQty(R) - o.qty + r.qty
<1>1. /\ IsFiniteSet(Units(R \ {o})) /\ SumQty(R \ {o}) \in Nat
      /\ SumQty(R) = SumQty(R \ {o}) + o.qty
  BY SumQtyRemove
<1> DEFINE P == R \ {o}
<1> HIDE DEF P
<1>2. /\ IsFiniteSet(Units(P)) /\ SumQty(P) \in Nat
      /\ SumQty(R) = SumQty(P) + o.qty /\ r \notin P
  BY <1>1 DEF P
<1>3. IsFiniteSet(Units(P \cup {r})) /\ SumQty(P \cup {r}) = SumQty(P) + r.qty
  BY <1>2, SumQtyAdd
<1>4. SumQty(P \cup {r}) \in Nat /\ SumQty(R) \in Nat /\ SumQty(P \cup {r}) = SumQty(R) - o.qty + r.qty
  BY <1>2, <1>3
<1> QED BY <1>3, <1>4 DEF P

\* Nothing has no quantity, and one order its own.
LEMMA SumQtySmall ==
    /\ IsFiniteSet(Units({})) /\ SumQty({}) = 0
    /\ \A o : o.qty \in Nat => IsFiniteSet(Units({o})) /\ SumQty({o}) = o.qty
<1>1. Units({}) = {}
  BY DEF Units
<1>2. IsFiniteSet(Units({})) /\ SumQty({}) = 0
  BY <1>1, FS_EmptySet DEF SumQty
<1>3. ASSUME NEW o, o.qty \in Nat PROVE IsFiniteSet(Units({o})) /\ SumQty({o}) = o.qty
  <2> DEFINE E == {}
  <2>1. IsFiniteSet(Units(E)) /\ SumQty(E) = 0 /\ o \notin E /\ E \cup {o} = {o}
    BY <1>2
  <2> HIDE DEF E
  <2>2. IsFiniteSet(Units(E \cup {o})) /\ SumQty(E \cup {o}) = SumQty(E) + o.qty
    BY <1>3, <2>1, SumQtyAdd
  <2> QED BY <1>3, <2>1, <2>2
<1> QED BY <1>2, <1>3

----------------------------------------------------------------------------
(* What the operations do to a level.                                      *)

NewEntry(id, qty) == [id |-> id, qty |-> qty]

\* The fields of a level after push_back_order, when there is room.
LEMMA PushBackFields ==
    ASSUME NEW l \in LevelRecord, l.count < MaxOrdersPerLevel, NEW id \in Nat, NEW qty \in Nat,
           NEW r, r = PushBack(l, id, qty)
    PROVE  /\ r \in LevelRecord /\ r.price = l.price /\ r.head = l.head
           /\ r.count = l.count + 1 /\ r.total = l.total + qty
           /\ \A j \in Ring : r.orders[j] = IF j = Slot(l, l.count + 1) THEN NewEntry(id, qty) ELSE l.orders[j]
<1>1. MaxOrdersPerLevel \in Nat /\ l.count \in 0..MaxOrdersPerLevel /\ l.head \in 0..(MaxOrdersPerLevel - 1)
  BY BookAssumption DEF LevelRecord, Ring
<1>2. l.count + 1 \in 1..MaxOrdersPerLevel /\ l.head + (l.count + 1) - 1 = l.head + l.count
  BY <1>1
<1> DEFINE t == Slot(l, l.count + 1)
           e == NewEntry(id, qty)
<1>3. t \in Ring /\ t = (l.head + l.count) % MaxOrdersPerLevel
  BY <1>2, QueueEntry DEF Slot
<1>4. e \in Entry
  BY DEF Entry, NewEntry
<1> HIDE DEF t, e
<1>5. r = [l EXCEPT !.orders[t] = e, !.count = @ + 1, !.total = @ + qty]
  BY <1>1, <1>3 DEF PushBack, NewEntry, e
<1>6. /\ r.price = l.price /\ r.head = l.head
      /\ r.count = l.count + 1 /\ r.total = l.total + qty
      /\ r.orders = [l.orders EXCEPT ![t] = e]
  BY <1>5 DEF LevelRecord
<1>7. \A j \in Ring : r.orders[j] = IF j = t THEN e ELSE l.orders[j]
  BY <1>3, <1>6 DEF LevelRecord
<1>8. r \in LevelRecord
  <2>1. l.count + 1 \in 0..MaxOrdersPerLevel /\ l.total + qty \in Int
    BY <1>1, <1>2 DEF LevelRecord
  <2>2. [l.orders EXCEPT ![t] = e] \in [Ring -> Entry]
    BY <1>3, <1>4 DEF LevelRecord
  <2> DEFINE a == [l.orders EXCEPT ![t] = e]
             b == l.count + 1
             c == l.total + qty
  <2>3. r = [l EXCEPT !.orders = a, !.count = b, !.total = c]
    BY <1>5, <1>6 DEF LevelRecord
  <2>4. a \in [Ring -> Entry] /\ b \in 0..MaxOrdersPerLevel /\ c \in Int
    BY <2>1, <2>2
  <2> HIDE DEF a, b, c
  <2> QED BY <2>3, <2>4 DEF LevelRecord
<1> QED BY <1>6, <1>7, <1>8 DEF t, e

\* The fields of a level whose front order gives up a part of its quantity.
LEMMA FillPartFields ==
    ASSUME NEW l \in LevelRecord, l.count >= 1, NEW q \in Nat, q < Queue(l)[1].qty,
           NEW r, r = FillFront(l, q)
    PROVE  /\ r \in LevelRecord /\ r.price = l.price /\ r.head = l.head
           /\ r.count = l.count /\ r.total = l.total - q
           /\ \A j \in Ring : r.orders[j] = IF j = Slot(l, 1) THEN [l.orders[j] EXCEPT !.qty = @ - q] ELSE l.orders[j]
<1>1. MaxOrdersPerLevel \in Nat /\ l.count \in 1..MaxOrdersPerLevel /\ l.head \in Ring /\ l.orders \in [Ring -> Entry]
  BY BookAssumption DEF LevelRecord
<1>2. 1 \in 1..MaxOrdersPerLevel /\ l.head + 1 - 1 < MaxOrdersPerLevel /\ l.head + 1 - 1 = l.head
  BY <1>1 DEF Ring
<1>3. Slot(l, 1) = l.head /\ Queue(l)[1] = l.orders[l.head]
  BY <1>1, <1>2, QueueEntry
<1>4. l.orders[l.head].qty \in Nat /\ l.orders[l.head].qty - q \in Nat /\ l.orders[l.head].qty - q # 0
  BY <1>1, <1>3 DEF Entry
<1> DEFINE e == [l.orders[l.head] EXCEPT !.qty = @ - q]
           f == [l EXCEPT !.orders[l.head].qty = @ - q, !.total = @ - q]
<1>5. e \in Entry /\ e.qty = l.orders[l.head].qty - q
  BY <1>1, <1>4 DEF Entry
<1>6. f.orders = [l.orders EXCEPT ![l.head] = e]
  BY <1>1 DEF LevelRecord
<1>7. f.orders[f.head] = e
  BY <1>1, <1>6 DEF LevelRecord
<1>8. r = f
  BY <1>4, <1>5, <1>7 DEF FillFront
<1>9. /\ f.price = l.price /\ f.head = l.head
      /\ f.count = l.count /\ f.total = l.total - q
  BY DEF LevelRecord
<1>10. \A j \in Ring : f.orders[j] = IF j = l.head THEN e ELSE l.orders[j]
  BY <1>1, <1>6
<1>11. f \in LevelRecord
  <2>1. f.orders \in [Ring -> Entry]
    BY <1>1, <1>5, <1>6
  <2>2. l.total - q \in Int
    BY DEF LevelRecord
  <2> QED BY <1>9, <2>1, <2>2 DEF LevelRecord
<1> QED BY <1>3, <1>8, <1>9, <1>10, <1>11

\* The fields of a level whose front order is spent and popped.
LEMMA FillAllFields ==
    ASSUME NEW l \in LevelRecord, l.count >= 1,
           NEW r, r = FillFront(l, Queue(l)[1].qty)
    PROVE  /\ r \in LevelRecord /\ r.price = l.price
           /\ r.head = IF l.count = 1 THEN 0 ELSE Slot(l, 2)
           /\ r.count = l.count - 1 /\ r.total = l.total - Queue(l)[1].qty
           /\ \A j \in Ring \ {Slot(l, 1)} : r.orders[j] = l.orders[j]
<1>1. /\ MaxOrdersPerLevel \in Nat /\ l.count \in 1..MaxOrdersPerLevel /\ l.head \in Ring
      /\ l.orders \in [Ring -> Entry] /\ l.total \in Int /\ 0 \in Ring
  BY BookAssumption DEF LevelRecord, Ring
<1>2. 1 \in 1..MaxOrdersPerLevel /\ l.head + 1 - 1 < MaxOrdersPerLevel /\ l.head + 1 - 1 = l.head
  BY <1>1 DEF Ring
<1>3. Slot(l, 1) = l.head /\ Queue(l)[1] = l.orders[l.head]
  BY <1>1, <1>2, QueueEntry
<1> DEFINE q == Queue(l)[1].qty
           e == [l.orders[l.head] EXCEPT !.qty = @ - q]
           f == [l EXCEPT !.orders[l.head].qty = @ - q, !.total = @ - q]
<1>4. l.orders[l.head].qty = q /\ q \in Nat /\ q - q = 0
  BY <1>1, <1>3 DEF Entry
<1> HIDE DEF q
<1>5. e \in Entry /\ e.qty = 0
  BY <1>1, <1>4 DEF Entry
<1>6. f.orders = [l.orders EXCEPT ![l.head] = e]
  BY <1>1 DEF LevelRecord
<1>7. f.orders[f.head] = e
  BY <1>1, <1>6 DEF LevelRecord
<1>8. r = PopFront(f)
  BY <1>5, <1>7 DEF FillFront, q
<1>9. /\ f.price = l.price /\ f.head = l.head
      /\ f.count = l.count /\ f.total = l.total - q
  BY DEF LevelRecord
<1>10. f \in LevelRecord
  <2>1. f.orders \in [Ring -> Entry]
    BY <1>1, <1>5, <1>6
  <2>2. l.total - q \in Int
    BY <1>1, <1>4
  <2> QED BY <1>9, <2>1, <2>2 DEF LevelRecord
<1>11. \A j \in Ring \ {l.head} : f.orders[j] = l.orders[j]
  BY <1>1, <1>6
<1> HIDE DEF f
<1>12. /\ r.price = f.price /\ r.orders = f.orders /\ r.total = f.total /\ r.count = f.count - 1
       /\ r.head = IF f.count = 1 THEN 0 ELSE (f.head + 1) % MaxOrdersPerLevel
  BY <1>8, <1>10 DEF PopFront, LevelRecord
<1>13. l.count # 1 => (l.head + 1) % MaxOrdersPerLevel = Slot(l, 2) /\ Slot(l, 2) \in Ring
  <2>1. l.count # 1 => 2 \in 1..MaxOrdersPerLevel
    BY <1>1
  <2>2. l.head + 2 - 1 = l.head + 1
    BY <1>1 DEF Ring
  <2> QED BY <2>1, <2>2, QueueEntry DEF Slot
<1>14. r.head = (IF l.count = 1 THEN 0 ELSE Slot(l, 2)) /\ r.head \in Ring
  BY <1>1, <1>9, <1>12, <1>13
<1>15. r \in LevelRecord
  <2>1. r.count \in 0..MaxOrdersPerLevel
    BY <1>1, <1>9, <1>12
  <2> DEFINE h == r.head
             c == r.count
  <2>2. r = [f EXCEPT !.count = c, !.head = h]
    BY <1>8, <1>10, <1>12 DEF PopFront, LevelRecord
  <2>3. h \in Ring /\ c \in 0..MaxOrdersPerLevel
    BY <1>14, <2>1
  <2> HIDE DEF h, c
  <2> QED BY <1>10, <2>2, <2>3 DEF LevelRecord
<1>16. r.price = l.price /\ r.count = l.count - 1 /\ r.total = l.total - q
  BY <1>9, <1>12
<1>17. \A j \in Ring \ {Slot(l, 1)} : r.orders[j] = l.orders[j]
  BY <1>3, <1>11, <1>12
<1> QED BY <1>14, <1>15, <1>16, <1>17 DEF q

\* push_back_order puts the order at the end of the level, if there is room.
LEMMA PushBackEffect ==
    ASSUME NEW s \in Sides, NEW l, NEW n \in Nat, LevelOK(s, l, n), l.count < MaxOrdersPerLevel,
           NEW id \in Nat, n < id, NEW qty \in Nat, qty > 0,
           NEW r, r = PushBack(l, id, qty),
           NEW o, o = [id |-> id, side |-> s, price |-> l.price, qty |-> qty]
    PROVE  /\ LevelOK(s, r, id) /\ r.price = l.price /\ r.count = l.count + 1
           /\ LevelOrders(s, r) = LevelOrders(s, l) \cup {o}
<1>1. l \in LevelRecord /\ l.count \in Nat /\ l.count + 1 \in 1..MaxOrdersPerLevel /\ MaxOrdersPerLevel \in Nat
  BY BookAssumption DEF LevelOK, LevelRecord
<1> DEFINE e == NewEntry(id, qty)
<1>2. /\ r \in LevelRecord /\ r.price = l.price /\ r.head = l.head
      /\ r.count = l.count + 1 /\ r.total = l.total + qty
  <2>1. l \in LevelRecord /\ l.count < MaxOrdersPerLevel /\ id \in Nat /\ qty \in Nat /\ r = PushBack(l, id, qty)
    BY <1>1
  <2> QED BY ONLY <2>1, PushBackFields
<1>3. \A j \in Ring : r.orders[j] = IF j = Slot(l, l.count + 1) THEN e ELSE l.orders[j]
  BY <1>1, PushBackFields
<1>4. \A i \in 1..MaxOrdersPerLevel : Slot(r, i) = Slot(l, i) /\ Slot(l, i) \in Ring
  BY <1>1, <1>2, QueueEntry DEF Slot
<1>5. ASSUME NEW i \in 1..l.count
      PROVE  Queue(r)[i] = Queue(l)[i] /\ i \in 1..r.count
  <2>1. i \in 1..MaxOrdersPerLevel /\ i # l.count + 1 /\ i <= l.count /\ i <= r.count /\ i \in 1..r.count
    BY <1>1, <1>2
  <2>2. Slot(l, i) # Slot(l, l.count + 1)
    BY <1>1, <2>1, SlotsDiffer
  <2>3. Queue(r)[i] = r.orders[Slot(r, i)] /\ Queue(l)[i] = l.orders[Slot(l, i)]
    BY <1>1, <1>2, <2>1, QueueEntry
  <2> QED BY <1>3, <1>4, <2>1, <2>2, <2>3
<1>6. Queue(r)[l.count + 1] = e
  <2>1. Queue(r)[l.count + 1] = r.orders[Slot(r, l.count + 1)]
    BY <1>1, <1>2, QueueEntry
  <2> QED BY <1>1, <1>3, <1>4, <2>1
<1>7. \A i \in 1..r.count : i \in 1..l.count \/ i = l.count + 1
  BY <1>1, <1>2
<1>8. \A i \in 1..l.count : OrderIn(s, r, i) = OrderIn(s, l, i)
  BY <1>2, <1>5 DEF OrderIn
<1>9. OrderIn(s, r, l.count + 1) = o /\ l.count + 1 \in 1..r.count
  BY <1>1, <1>2, <1>6 DEF OrderIn, NewEntry
<1>10. LevelOrders(s, r) = LevelOrders(s, l) \cup {o}
  BY <1>5, <1>7, <1>8, <1>9 DEF LevelOrders
<1>11. o \notin LevelOrders(s, l)
  <2>1. ASSUME NEW i \in 1..l.count PROVE OrderIn(s, l, i) # o
    <3>1. OrderIn(s, l, i).id = Queue(l)[i].id /\ Queue(l)[i].id \in Nat
      BY <1>1, OrderFields DEF Entry
    <3>2. Queue(l)[i].id <= n
      BY DEF LevelOK
    <3> QED BY <3>1, <3>2
  <2> QED BY <2>1 DEF LevelOrders
<1> DEFINE R == LevelOrders(s, l)
<1> HIDE DEF R
<1>12. IsFiniteSet(R) /\ l.count = Cardinality(R) /\ IsFiniteSet(Units(R)) /\ l.total = SumQty(R) /\ o \notin R /\ o.qty = qty
  BY <1>11 DEF R, LevelOK
<1>13. IsFiniteSet(R \cup {o}) /\ Cardinality(R \cup {o}) = l.count + 1
  BY <1>12, FS_AddElement
<1>14. IsFiniteSet(Units(R \cup {o})) /\ SumQty(R \cup {o}) = l.total + qty
  BY <1>12, SumQtyAdd
<1>15. ASSUME NEW i \in 1..r.count PROVE Queue(r)[i].qty > 0 /\ Queue(r)[i].id <= id
  <2>1. CASE i \in 1..l.count
    <3>1. Queue(l)[i].id \in Nat
      BY <1>1, <2>1, OrderFields DEF Entry
    <3>2. Queue(l)[i].qty > 0 /\ Queue(l)[i].id <= n
      BY <2>1 DEF LevelOK
    <3> QED BY <1>5, <2>1, <3>1, <3>2
  <2>2. CASE i = l.count + 1
    BY <1>6, <2>2 DEF NewEntry
  <2> QED BY <1>7, <2>1, <2>2
<1>16. ASSUME NEW i \in 1..r.count, NEW j \in 1..r.count, i < j
       PROVE  Queue(r)[i].id < Queue(r)[j].id
  <2>1. i \in 1..l.count
    BY <1>1, <1>2, <1>16
  <2>2. CASE j \in 1..l.count
    BY <1>5, <1>16, <2>1, <2>2 DEF LevelOK
  <2>3. CASE j = l.count + 1
    <3>1. Queue(l)[i].id \in Nat
      BY <1>1, <2>1, OrderFields DEF Entry
    <3>2. Queue(l)[i].id <= n
      BY <2>1 DEF LevelOK
    <3> QED BY <1>5, <1>6, <2>1, <2>3, <3>1, <3>2 DEF NewEntry
  <2> QED BY <1>7, <2>2, <2>3
<1>17. l.price > 0
  BY DEF LevelOK
<1>18. LevelOK(s, r, id)
  <2>1. IsFiniteSet(Units(LevelOrders(s, r))) /\ r.total = SumQty(LevelOrders(s, r))
    BY <1>2, <1>10, <1>14 DEF R
  <2>2. IsFiniteSet(LevelOrders(s, r)) /\ r.count = Cardinality(LevelOrders(s, r))
    BY <1>2, <1>10, <1>13 DEF R
  <2> QED BY <1>2, <1>15, <1>16, <1>17, <2>1, <2>2 DEF LevelOK
<1> QED BY <1>2, <1>10, <1>18

\* The order that gives up qty.
Reduced(o, qty) == [o EXCEPT !.qty = @ - qty]

\* A fill that leaves something of the front order.
LEMMA FillPartEffect ==
    ASSUME NEW s \in Sides, NEW l, NEW n \in Nat, LevelOK(s, l, n), l.count >= 1,
           NEW q \in Nat, q < Queue(l)[1].qty, NEW r, r = FillFront(l, q),
           NEW m, m = OrderIn(s, l, 1)
    PROVE  /\ LevelOK(s, r, n) /\ r.price = l.price /\ r.count = l.count
           /\ LevelOrders(s, r) = (LevelOrders(s, l) \ {m}) \cup {Reduced(m, q)}
<1>1. l \in LevelRecord /\ l.count \in 1..MaxOrdersPerLevel /\ MaxOrdersPerLevel \in Nat /\ 1 \in 1..l.count
  BY BookAssumption DEF LevelOK, LevelRecord
<1>2. /\ r \in LevelRecord /\ r.price = l.price /\ r.head = l.head
      /\ r.count = l.count /\ r.total = l.total - q
  BY <1>1, FillPartFields
<1>3. ASSUME NEW j \in Ring
      PROVE  /\ j = Slot(l, 1) => r.orders[j] = [l.orders[j] EXCEPT !.qty = @ - q]
             /\ j # Slot(l, 1) => r.orders[j] = l.orders[j]
  BY <1>1, FillPartFields
<1>4. \A i \in 1..MaxOrdersPerLevel : Slot(r, i) = Slot(l, i) /\ Slot(l, i) \in Ring
  BY <1>1, <1>2, QueueEntry DEF Slot
<1>5. ASSUME NEW i \in 1..l.count, i # 1
      PROVE  Queue(r)[i] = Queue(l)[i]
  <2>1. i \in 1..MaxOrdersPerLevel /\ 1 \in 1..MaxOrdersPerLevel /\ i <= l.count
    BY <1>1
  <2>2. Slot(l, i) # Slot(l, 1)
    BY <1>1, <1>5, <2>1, SlotsDiffer
  <2>3. Queue(r)[i] = r.orders[Slot(r, i)] /\ Queue(l)[i] = l.orders[Slot(l, i)]
    BY <1>1, <1>2, <2>1, QueueEntry
  <2> QED BY <1>3, <1>4, <2>1, <2>2, <2>3
<1>6. Queue(r)[1] = [Queue(l)[1] EXCEPT !.qty = @ - q] /\ Queue(l)[1] \in Entry
  <2>1. 1 \in 1..MaxOrdersPerLevel /\ 1 <= l.count
    BY <1>1
  <2>2. Queue(r)[1] = r.orders[Slot(r, 1)] /\ Queue(l)[1] = l.orders[Slot(l, 1)] /\ l.orders[Slot(l, 1)] \in Entry
    BY <1>1, <1>2, <2>1, QueueEntry
  <2> QED BY <1>3, <1>4, <2>1, <2>2
<1>7. Queue(r)[1].id = Queue(l)[1].id /\ Queue(r)[1].qty = Queue(l)[1].qty - q
  BY <1>6 DEF Entry
<1>8. /\ m \in BookOrder /\ m.id = Queue(l)[1].id /\ m.qty = Queue(l)[1].qty /\ m.side = s /\ m.price = l.price
      /\ m \in LevelOrders(s, l)
  BY <1>1, OrderFields
<1>9. OrderIn(s, r, 1) = Reduced(m, q)
  BY <1>2, <1>7, <1>8 DEF OrderIn, Reduced, BookOrder
<1>10. \A i \in 1..l.count : i # 1 => OrderIn(s, r, i) = OrderIn(s, l, i)
  BY <1>2, <1>5 DEF OrderIn
<1>11. \A i \in 1..l.count : i # 1 => OrderIn(s, l, i) # m
  BY <1>1, OrdersDiffer
<1>12. LevelOrders(s, r) = (LevelOrders(s, l) \ {m}) \cup {Reduced(m, q)}
  BY <1>1, <1>2, <1>9, <1>10, <1>11 DEF LevelOrders
<1>13. Reduced(m, q).id = m.id /\ Reduced(m, q).qty = m.qty - q /\ m.qty - q \in Nat /\ m.qty \in Nat
  BY <1>8 DEF Reduced, BookOrder
<1>14. Reduced(m, q) \notin LevelOrders(s, l) \ {m}
  <2>1. ASSUME NEW i \in 1..l.count, i # 1 PROVE OrderIn(s, l, i) # Reduced(m, q)
    <3>1. OrderIn(s, l, i).id = Queue(l)[i].id
      BY <1>1, OrderFields
    <3>2. Queue(l)[i].id # Queue(l)[1].id
      BY <1>1, <2>1, OrdersDiffer
    <3> QED BY <1>8, <1>13, <3>1, <3>2
  <2> QED BY <2>1 DEF LevelOrders
<1> DEFINE R == LevelOrders(s, l)
           d == Reduced(m, q)
<1> HIDE DEF R, d
<1>15. /\ IsFiniteSet(R) /\ l.count = Cardinality(R) /\ IsFiniteSet(Units(R)) /\ l.total = SumQty(R)
       /\ m \in R /\ d \notin R \ {m} /\ m.qty \in Nat /\ d.qty \in Nat /\ d.qty = m.qty - q
  BY <1>8, <1>13, <1>14 DEF R, d, LevelOK
<1>16. IsFiniteSet((R \ {m}) \cup {d}) /\ Cardinality((R \ {m}) \cup {d}) = l.count
  <2>1. IsFiniteSet(R \ {m}) /\ Cardinality(R \ {m}) = Cardinality(R) - 1
    <3>1. IsFiniteSet(R) /\ m \in R
      BY <1>15
    <3> QED BY ONLY <3>1, FS_RemoveElement
  <2>2. IsFiniteSet((R \ {m}) \cup {d}) /\ Cardinality((R \ {m}) \cup {d}) = Cardinality(R \ {m}) + 1
    BY <1>15, <2>1, FS_AddElement
  <2> QED BY <1>1, <1>15, <2>1, <2>2
<1>17. IsFiniteSet(Units((R \ {m}) \cup {d})) /\ SumQty((R \ {m}) \cup {d}) = l.total - q
  <2>1. /\ IsFiniteSet(Units((R \ {m}) \cup {d})) /\ SumQty(R) \in Nat
        /\ SumQty((R \ {m}) \cup {d}) = SumQty(R) - m.qty + d.qty
    BY <1>15, SumQtyReduce
  <2> QED BY <1>15, <2>1
<1>18. ASSUME NEW i \in 1..r.count PROVE Queue(r)[i].qty > 0 /\ Queue(r)[i].id <= n
  <2>1. i \in 1..l.count /\ Queue(l)[i].qty > 0 /\ Queue(l)[i].id <= n
    BY <1>2 DEF LevelOK
  <2>2. CASE i # 1
    BY <1>5, <2>1, <2>2
  <2>3. CASE i = 1
    BY <1>6, <1>7, <2>1, <2>3 DEF Entry
  <2> QED BY <2>2, <2>3
<1>19. \A i \in 1..l.count : Queue(r)[i].id = Queue(l)[i].id
  BY <1>5, <1>7
<1>20. \A i, j \in 1..r.count : i < j => Queue(r)[i].id < Queue(r)[j].id
  BY <1>2, <1>19 DEF LevelOK
<1>21. LevelOK(s, r, n)
  <2>1. IsFiniteSet(Units(LevelOrders(s, r))) /\ r.total = SumQty(LevelOrders(s, r))
    BY <1>2, <1>12, <1>17 DEF R, d
  <2>2. IsFiniteSet(LevelOrders(s, r)) /\ r.count = Cardinality(LevelOrders(s, r))
    BY <1>2, <1>12, <1>16 DEF R, d
  <2> QED BY <1>2, <1>18, <1>20, <2>1, <2>2 DEF LevelOK
<1> QED BY <1>2, <1>12, <1>21

\* The orders behind the front move up by one when it is popped.
LEMMA PoppedQueue ==
    ASSUME NEW l \in LevelRecord, l.count >= 1, NEW r, r = FillFront(l, Queue(l)[1].qty),
           NEW i \in 1..(l.count - 1)
    PROVE  i + 1 \in 1..l.count /\ Queue(r)[i] = Queue(l)[i + 1]
<1>1. MaxOrdersPerLevel \in Nat /\ l.count \in 1..MaxOrdersPerLevel /\ l.head \in 0..(MaxOrdersPerLevel - 1)
  BY BookAssumption DEF LevelRecord, Ring
<1>2. /\ i \in 1..MaxOrdersPerLevel /\ i + 1 \in 1..MaxOrdersPerLevel /\ i + 1 \in 1..l.count
      /\ 2 \in 1..MaxOrdersPerLevel /\ 1 \in 1..MaxOrdersPerLevel /\ i + 1 # 1 /\ l.count # 1
  BY <1>1
<1>3. /\ r \in LevelRecord /\ r.head = Slot(l, 2) /\ r.count = l.count - 1
      /\ \A j \in Ring \ {Slot(l, 1)} : r.orders[j] = l.orders[j]
  BY <1>2, FillAllFields
<1>4. Slot(r, i) = Slot(l, i + 1)
  <2>1. Slot(r, i) = IF r.head + i - 1 < MaxOrdersPerLevel THEN r.head + i - 1
                     ELSE r.head + i - 1 - MaxOrdersPerLevel
    BY <1>2, <1>3, QueueEntry
  <2>2. Slot(l, 2) = IF l.head + 2 - 1 < MaxOrdersPerLevel THEN l.head + 2 - 1
                     ELSE l.head + 2 - 1 - MaxOrdersPerLevel
    BY <1>2, QueueEntry
  <2>3. Slot(l, i + 1) = IF l.head + (i + 1) - 1 < MaxOrdersPerLevel THEN l.head + (i + 1) - 1
                         ELSE l.head + (i + 1) - 1 - MaxOrdersPerLevel
    BY <1>2, QueueEntry
  <2> QED BY <1>1, <1>2, <1>3, <2>1, <2>2, <2>3
<1>5. Slot(l, i + 1) # Slot(l, 1) /\ Slot(l, i + 1) \in Ring
  BY <1>2, SlotsDiffer, QueueEntry
<1>6. Queue(r)[i] = r.orders[Slot(r, i)]
  <2>1. i <= r.count
    BY <1>1, <1>3
  <2> QED BY <1>2, <1>3, <2>1, QueueEntry
<1>7. Queue(l)[i + 1] = l.orders[Slot(l, i + 1)]
  BY <1>2, QueueEntry
<1> QED BY <1>2, <1>3, <1>4, <1>5, <1>6, <1>7

\* A fill that spends the front order.
LEMMA FillAllEffect ==
    ASSUME NEW s \in Sides, NEW l, NEW n \in Nat, LevelOK(s, l, n), l.count >= 1,
           NEW r, r = FillFront(l, Queue(l)[1].qty),
           NEW m, m = OrderIn(s, l, 1)
    PROVE  /\ LevelOK(s, r, n) /\ r.price = l.price /\ r.count = l.count - 1
           /\ LevelOrders(s, r) = LevelOrders(s, l) \ {m}
<1>1. l \in LevelRecord /\ l.count \in 1..MaxOrdersPerLevel /\ MaxOrdersPerLevel \in Nat /\ 1 \in 1..l.count
  BY BookAssumption DEF LevelOK, LevelRecord
<1> DEFINE q == Queue(l)[1].qty
<1>2. r \in LevelRecord /\ r.price = l.price /\ r.count = l.count - 1 /\ r.total = l.total - q
  BY <1>1, FillAllFields
<1>3. \A i \in 1..r.count : i + 1 \in 1..l.count /\ Queue(r)[i] = Queue(l)[i + 1]
  BY <1>1, <1>2, PoppedQueue
<1>4. /\ m \in BookOrder /\ m.id = Queue(l)[1].id /\ m.qty = q
      /\ m \in LevelOrders(s, l)
  BY <1>1, OrderFields
<1>5. \A i \in 1..r.count : OrderIn(s, r, i) = OrderIn(s, l, i + 1)
  BY <1>2, <1>3 DEF OrderIn
<1>6. \A i \in 1..l.count : i # 1 => OrderIn(s, l, i) # m
  BY <1>1, OrdersDiffer
<1>7. \A j \in 1..l.count : j # 1 => j - 1 \in 1..r.count /\ (j - 1) + 1 = j
  BY <1>1, <1>2
<1>8. LevelOrders(s, r) = LevelOrders(s, l) \ {m}
  <2>1. \A i \in 1..r.count : OrderIn(s, r, i) \in LevelOrders(s, l) \ {m}
    <3> TAKE i \in 1..r.count
    <3>1. i + 1 \in 1..l.count /\ i + 1 # 1
      BY <1>1, <1>2, <1>3
    <3> QED BY <1>5, <1>6, <3>1 DEF LevelOrders
  <2>2. \A j \in 1..l.count : OrderIn(s, l, j) # m => OrderIn(s, l, j) \in LevelOrders(s, r)
    <3> SUFFICES ASSUME NEW j \in 1..l.count, OrderIn(s, l, j) # m PROVE OrderIn(s, l, j) \in LevelOrders(s, r)
      OBVIOUS
    <3>1. j # 1
      OBVIOUS
    <3>2. j - 1 \in 1..r.count /\ OrderIn(s, r, j - 1) = OrderIn(s, l, j)
      BY <1>5, <1>7, <3>1
    <3> QED BY <3>2 DEF LevelOrders
  <2> QED BY <2>1, <2>2 DEF LevelOrders
<1> DEFINE R == LevelOrders(s, l)
<1> HIDE DEF R, q
<1>9. /\ IsFiniteSet(R) /\ l.count = Cardinality(R) /\ IsFiniteSet(Units(R)) /\ l.total = SumQty(R)
      /\ m \in R /\ m.qty \in Nat
  BY <1>4 DEF R, LevelOK, BookOrder
<1>10. IsFiniteSet(R \ {m}) /\ Cardinality(R \ {m}) = l.count - 1
  BY <1>9, FS_RemoveElement
<1>11. IsFiniteSet(Units(R \ {m})) /\ SumQty(R \ {m}) = l.total - q
  <2>1. IsFiniteSet(Units(R \ {m})) /\ SumQty(R \ {m}) \in Nat /\ SumQty(R) = SumQty(R \ {m}) + m.qty
    BY <1>9, SumQtyRemove
  <2> QED BY <1>4, <1>9, <2>1
<1>12. ASSUME NEW i \in 1..r.count PROVE Queue(r)[i].qty > 0 /\ Queue(r)[i].id <= n
  BY <1>3 DEF LevelOK
<1>13. ASSUME NEW i \in 1..r.count, NEW j \in 1..r.count, i < j PROVE Queue(r)[i].id < Queue(r)[j].id
  <2>1. i + 1 \in 1..l.count /\ j + 1 \in 1..l.count /\ i + 1 < j + 1
    BY <1>2, <1>3, <1>13
  <2>2. Queue(l)[i + 1].id < Queue(l)[j + 1].id
    BY <2>1 DEF LevelOK
  <2> QED BY <1>3, <2>2
<1>14. LevelOK(s, r, n)
  <2>1. IsFiniteSet(Units(LevelOrders(s, r))) /\ r.total = SumQty(LevelOrders(s, r))
    BY <1>2, <1>8, <1>11 DEF R
  <2>2. IsFiniteSet(LevelOrders(s, r)) /\ r.count = Cardinality(LevelOrders(s, r))
    BY <1>2, <1>8, <1>10 DEF R
  <2>3. r.price > 0
    BY <1>2 DEF LevelOK
  <2> QED BY <1>2, <1>12, <1>13, <2>1, <2>2, <2>3 DEF LevelOK
<1> QED BY <1>2, <1>8, <1>14

FreshLevel(k, p) == [LevelReset(k) EXCEPT !.price = p]

\* A level taken from the free list is reset: it is good and has no orders.
LEMMA ResetEffect ==
    ASSUME NEW s \in Sides, NEW k \in LevelRecord, NEW p \in Nat, p > 0, NEW n \in Nat,
           NEW l, l = FreshLevel(k, p)
    PROVE  LevelOK(s, l, n) /\ l.price = p /\ l.count = 0 /\ LevelOrders(s, l) = {}
<1>1. MaxOrdersPerLevel \in Nat /\ MaxOrdersPerLevel >= 1 /\ 0 \in Ring
  BY BookAssumption DEF Ring
<1>2. l.price = p /\ l.head = 0 /\ l.count = 0 /\ l.total = 0 /\ l \in LevelRecord
  <2>1. l = [k EXCEPT !.price = p, !.head = 0, !.count = 0, !.total = 0]
    BY DEF FreshLevel, LevelReset, LevelRecord
  <2>2. l.price = p /\ l.head = 0 /\ l.count = 0 /\ l.total = 0
    BY <2>1 DEF LevelRecord
  <2>3. l \in LevelRecord
    <3>1. 0 \in 0..MaxOrdersPerLevel
      BY <1>1
    <3>2. l = [price |-> p, orders |-> k.orders, head |-> 0, count |-> 0, total |-> 0]
      BY <2>1 DEF LevelRecord
    <3>3. k.orders \in [Ring -> Entry]
      BY DEF LevelRecord
    <3> DEFINE a == k.orders
    <3>4. p \in Nat /\ a \in [Ring -> Entry] /\ 0 \in Ring /\ 0 \in 0..MaxOrdersPerLevel /\ 0 \in Int
      BY <1>1, <3>1, <3>3
    <3>5. l = [price |-> p, orders |-> a, head |-> 0, count |-> 0, total |-> 0]
      BY <3>2
    <3> HIDE DEF a
    <3> QED BY ONLY <3>4, <3>5 DEF LevelRecord
  <2> QED BY <2>2, <2>3
<1>3. LevelOrders(s, l) = {}
  BY <1>2 DEF LevelOrders
<1>4. IsFiniteSet({}) /\ Cardinality({}) = 0
  BY FS_EmptySet
<1>5. IsFiniteSet(Units({})) /\ SumQty({}) = 0
  BY SumQtySmall
<1> QED BY <1>2, <1>3, <1>4, <1>5 DEF LevelOK

----------------------------------------------------------------------------
(* The binary search of add_to_book.                                       *)

\* The smallest element of a set of indices.
LEMMA LeastElement ==
    ASSUME NEW T \in SUBSET Nat, T # {}
    PROVE  Min(T) \in T /\ \A y \in T : Min(T) <= y
<1> DEFINE R == OpToRel(<, Nat)
<1>1. PICK m \in T : \A y \in T : ~(<<y, m>> \in R)
  <2> HIDE DEF R
  <2> QED BY NatLessThanWellFounded, WFMin DEF R
<1>2. \A y \in T : ~(y < m)
  BY <1>1 DEF OpToRel
<1>3. \A y \in T : m <= y
  <2> TAKE y \in T
  <2>1. y \in Nat /\ m \in Nat
    OBVIOUS
  <2> QED BY <1>2, <2>1
<1> QED BY <1>3 DEF Min

\* Prices of side s, best first.
Descending(s, pr, n) ==
    /\ n \in Nat /\ pr \in [1..n -> Nat]
    /\ \A j, k \in 1..n : j < k => Better(s, pr[j], pr[k])

\* The outcome of a search for p among the prices low + 1 to high: the place of
\* p, or the place that divides the better prices from the others.
Outcome(s, pr, p, low, high, r) ==
    \/ \E a \in (low + 1)..high : pr[a] = p /\ r = [found |-> TRUE, at |-> a]
    \/ \E a \in (low + 1)..(high + 1) :
          /\ r = [found |-> FALSE, at |-> a]
          /\ \A k \in (low + 1)..high : pr[k] # p /\ (k < a <=> Better(s, pr[k], p))

\* There is one outcome only.
LEMMA OutcomeUnique ==
    ASSUME NEW s \in Sides, NEW pr, NEW n, Descending(s, pr, n), NEW p \in Nat,
           NEW low \in 0..n, NEW high \in low..n,
           NEW r, Outcome(s, pr, p, low, high, r), NEW t, Outcome(s, pr, p, low, high, t)
    PROVE  r = t
<1>1. n \in Nat /\ \A k \in 1..n : pr[k] \in Nat
  BY DEF Descending
<1>2. (low + 1)..high \subseteq 1..n
  BY <1>1
<1>3. CASE \E a \in (low + 1)..high : pr[a] = p /\ r = [found |-> TRUE, at |-> a]
  <2>1. PICK a \in (low + 1)..high : pr[a] = p /\ r = [found |-> TRUE, at |-> a]
    BY <1>3
  <2>2. PICK b \in (low + 1)..high : pr[b] = p /\ t = [found |-> TRUE, at |-> b]
    BY <2>1 DEF Outcome
  <2>3. a = b
    <3>1. a \in 1..n /\ b \in 1..n
      BY <1>2
    <3>2. a < b => Better(s, p, p)
      BY <2>1, <2>2, <3>1 DEF Descending
    <3>3. b < a => Better(s, p, p)
      BY <2>1, <2>2, <3>1 DEF Descending
    <3>4. ~Better(s, p, p)
      BY DEF Better
    <3> QED BY <1>1, <3>1, <3>2, <3>3, <3>4
  <2> QED BY <2>1, <2>2, <2>3
<1>4. CASE ~\E a \in (low + 1)..high : pr[a] = p /\ r = [found |-> TRUE, at |-> a]
  <2>1. PICK a \in (low + 1)..(high + 1) :
          /\ r = [found |-> FALSE, at |-> a]
          /\ \A k \in (low + 1)..high : pr[k] # p /\ (k < a <=> Better(s, pr[k], p))
    BY <1>4 DEF Outcome
  <2>2. PICK b \in (low + 1)..(high + 1) :
          /\ t = [found |-> FALSE, at |-> b]
          /\ \A k \in (low + 1)..high : pr[k] # p /\ (k < b <=> Better(s, pr[k], p))
    BY <2>1 DEF Outcome
  <2>3. ~(a < b)
    <3> SUFFICES ASSUME a < b PROVE FALSE
      OBVIOUS
    <3>1. a \in (low + 1)..high /\ ~(a < a)
      BY <1>1
    <3> QED BY <2>1, <2>2, <3>1
  <2>4. ~(b < a)
    <3> SUFFICES ASSUME b < a PROVE FALSE
      OBVIOUS
    <3>1. b \in (low + 1)..high /\ ~(b < b)
      BY <1>1
    <3> QED BY <2>1, <2>2, <3>1
  <2>5. a = b
    BY <1>1, <2>3, <2>4
  <2> QED BY <2>1, <2>2, <2>5
<1> QED BY <1>3, <1>4

\* There is one.
LEMMA OutcomeExists ==
    ASSUME NEW s \in Sides, NEW pr, NEW n, Descending(s, pr, n), NEW p \in Nat,
           NEW low \in 0..n, NEW high \in low..n
    PROVE  \E r : Outcome(s, pr, p, low, high, r)
<1>1. n \in Nat /\ \A k \in 1..n : pr[k] \in Nat
  BY DEF Descending
<1>2. (low + 1)..high \subseteq 1..n
  BY <1>1
<1>3. CASE \E a \in (low + 1)..high : pr[a] = p
  BY <1>3 DEF Outcome
<1>4. CASE \A a \in (low + 1)..high : pr[a] # p
  <2> DEFINE T == {k \in (low + 1)..high : ~Better(s, pr[k], p)} \cup {high + 1}
             a == Min(T)
  <2>1. T \in SUBSET Nat /\ T # {}
    BY <1>1
  <2>2. a \in T /\ \A y \in T : a <= y
    <3> HIDE DEF T
    <3> QED BY <2>1, LeastElement
  <2>3. a \in (low + 1)..(high + 1)
    BY <1>1, <2>2
  <2> HIDE DEF a
  <2>4. ASSUME NEW k \in (low + 1)..high PROVE pr[k] # p /\ (k < a <=> Better(s, pr[k], p))
    <3>1. ASSUME k < a PROVE Better(s, pr[k], p)
      <4>1. k \notin T
        BY <1>1, <2>2, <2>3, <3>1
      <4> QED BY <4>1
    <3>2. ASSUME Better(s, pr[k], p), ~(k < a) PROVE FALSE
      <4>1. a \in (low + 1)..high
        BY <1>1, <2>3, <3>2
      <4>2. ~Better(s, pr[a], p)
        BY <2>2, <4>1, <1>1
      <4>3. a = k \/ a < k
        BY <1>1, <3>2, <4>1
      <4>4. a < k => Better(s, pr[a], pr[k])
        BY <1>2, <4>1 DEF Descending
      <4>5. pr[a] \in Nat /\ pr[k] \in Nat
        BY <1>1, <1>2, <4>1
      <4> QED BY <3>2, <4>2, <4>3, <4>4, <4>5 DEF Better
    <3> QED BY <1>4, <3>1, <3>2
  <2> DEFINE r == [found |-> FALSE, at |-> a]
  <2>5. Outcome(s, pr, p, low, high, r)
    BY <2>3, <2>4 DEF Outcome
  <2> QED BY <2>5
<1> QED BY <1>3, <1>4

\* Where the search looks between low and high.
Middle(low, high) == low + (high - low) \div 2

\* It leaves a smaller half on either side.
LEMMA MiddleBetween ==
    ASSUME NEW low \in Nat, NEW high \in Nat, low < high
    PROVE  Middle(low, high) \in Nat /\ low <= Middle(low, high) /\ Middle(low, high) < high
BY DEF Middle

\* One step of the search: what is found in the half it goes on with is the
\* outcome for the whole.
LEMMA HalfOutcome ==
    ASSUME NEW s \in Sides, NEW pr, NEW n, Descending(s, pr, n), NEW p \in Nat,
           NEW low \in 0..n, NEW high \in low..n, NEW mid \in low..(high - 1), NEW r
    PROVE  /\ pr[mid + 1] = p => Outcome(s, pr, p, low, high, [found |-> TRUE, at |-> mid + 1])
           /\ pr[mid + 1] # p /\ Better(s, p, pr[mid + 1]) /\ Outcome(s, pr, p, low, mid, r)
                 => Outcome(s, pr, p, low, high, r)
           /\ pr[mid + 1] # p /\ ~Better(s, p, pr[mid + 1]) /\ Outcome(s, pr, p, mid + 1, high, r)
                 => Outcome(s, pr, p, low, high, r)
<1>1. /\ n \in Nat /\ \A k \in 1..n : pr[k] \in Nat
      /\ \A j, k \in 1..n : j < k => Better(s, pr[j], pr[k])
  BY DEF Descending
<1>2. mid + 1 \in (low + 1)..high /\ mid + 1 \in 1..n /\ mid \in Nat
  BY <1>1
<1>3. \A k \in (low + 1)..high : k \in 1..n
  BY <1>1
<1>4. pr[mid + 1] = p => Outcome(s, pr, p, low, high, [found |-> TRUE, at |-> mid + 1])
  BY <1>2 DEF Outcome
<1>5. ASSUME pr[mid + 1] # p, Better(s, p, pr[mid + 1]), Outcome(s, pr, p, low, mid, r)
      PROVE  Outcome(s, pr, p, low, high, r)
  <2>1. ASSUME NEW k \in (mid + 1)..high PROVE pr[k] # p /\ ~Better(s, pr[k], p)
    <3>1. k \in 1..n /\ (k = mid + 1 \/ mid + 1 < k)
      BY <1>1, <1>2
    <3>2. pr[k] \in Nat /\ pr[mid + 1] \in Nat
      BY <1>1, <1>2, <3>1
    <3>3. mid + 1 < k => Better(s, pr[mid + 1], pr[k])
      BY <1>1, <1>2, <3>1
    <3> QED BY <1>5, <3>1, <3>2, <3>3 DEF Better
  <2>2. CASE \E a \in (low + 1)..mid : pr[a] = p /\ r = [found |-> TRUE, at |-> a]
    <3>1. PICK a \in (low + 1)..mid : pr[a] = p /\ r = [found |-> TRUE, at |-> a]
      BY <2>2
    <3>2. a \in (low + 1)..high
      BY <1>1
    <3> QED BY <3>1, <3>2 DEF Outcome
  <2>3. CASE ~\E a \in (low + 1)..mid : pr[a] = p /\ r = [found |-> TRUE, at |-> a]
    <3>1. PICK a \in (low + 1)..(mid + 1) :
            /\ r = [found |-> FALSE, at |-> a]
            /\ \A k \in (low + 1)..mid : pr[k] # p /\ (k < a <=> Better(s, pr[k], p))
      BY <1>5, <2>3 DEF Outcome
    <3>2. a \in (low + 1)..(high + 1)
      BY <1>1
    <3>3. ASSUME NEW k \in (low + 1)..high PROVE pr[k] # p /\ (k < a <=> Better(s, pr[k], p))
      <4>1. CASE k <= mid
        <5>1. k \in (low + 1)..mid
          BY <1>2, <4>1
        <5> QED BY <3>1, <5>1
      <4>2. CASE k > mid
        <5>1. k \in (mid + 1)..high /\ ~(k < a)
          BY <1>1, <1>2, <4>2
        <5> QED BY <2>1, <5>1
      <4> QED BY <1>1, <1>2, <4>1, <4>2
    <3> QED BY <3>1, <3>2, <3>3 DEF Outcome
  <2> QED BY <2>2, <2>3
<1>6. ASSUME pr[mid + 1] # p, ~Better(s, p, pr[mid + 1]), Outcome(s, pr, p, mid + 1, high, r)
      PROVE  Outcome(s, pr, p, low, high, r)
  <2>1. ASSUME NEW k \in (low + 1)..(mid + 1) PROVE pr[k] # p /\ Better(s, pr[k], p)
    <3>1. k \in 1..n /\ (k = mid + 1 \/ k < mid + 1)
      BY <1>1, <1>2
    <3>2. pr[k] \in Nat /\ pr[mid + 1] \in Nat
      BY <1>1, <1>2, <3>1
    <3>3. k < mid + 1 => Better(s, pr[k], pr[mid + 1])
      BY <1>1, <1>2, <3>1
    <3> QED BY <1>6, <3>1, <3>2, <3>3 DEF Better
  <2>2. CASE \E a \in (mid + 1 + 1)..high : pr[a] = p /\ r = [found |-> TRUE, at |-> a]
    <3>1. PICK a \in (mid + 1 + 1)..high : pr[a] = p /\ r = [found |-> TRUE, at |-> a]
      BY <2>2
    <3>2. a \in (low + 1)..high
      BY <1>1
    <3> QED BY <3>1, <3>2 DEF Outcome
  <2>3. CASE ~\E a \in (mid + 1 + 1)..high : pr[a] = p /\ r = [found |-> TRUE, at |-> a]
    <3>1. PICK a \in (mid + 1 + 1)..(high + 1) :
            /\ r = [found |-> FALSE, at |-> a]
            /\ \A k \in (mid + 1 + 1)..high : pr[k] # p /\ (k < a <=> Better(s, pr[k], p))
      BY <1>6, <2>3 DEF Outcome
    <3>2. a \in (low + 1)..(high + 1)
      BY <1>1
    <3>3. ASSUME NEW k \in (low + 1)..high PROVE pr[k] # p /\ (k < a <=> Better(s, pr[k], p))
      <4>1. CASE k > mid + 1
        <5>1. k \in (mid + 1 + 1)..high
          BY <1>2, <4>1
        <5> QED BY <3>1, <5>1
      <4>2. CASE k <= mid + 1
        <5>1. k \in (low + 1)..(mid + 1) /\ k < a
          BY <1>1, <1>2, <4>2
        <5> QED BY <2>1, <5>1
      <4> QED BY <1>1, <1>2, <4>1, <4>2
    <3> QED BY <3>1, <3>2, <3>3 DEF Outcome
  <2> QED BY <2>2, <2>3
<1> QED BY <1>4, <1>5, <1>6

\* The recursive function of SearchLevel, over the prices of the levels.
SearchBody(f, s, pr, p, low, high) ==
    IF low >= high THEN [found |-> FALSE, at |-> low + 1]
    ELSE IF pr[Middle(low, high) + 1] = p THEN [found |-> TRUE, at |-> Middle(low, high) + 1]
    ELSE IF Better(s, p, pr[Middle(low, high) + 1]) THEN f[<<low, Middle(low, high)>>]
    ELSE f[<<Middle(low, high) + 1, high>>]
IsSearch(f, s, pr, p, n) ==
    f = [r \in (0..n) \X (0..n) |-> SearchBody(f, s, pr, p, r[1], r[2])]

\* An empty range has the place before it as its outcome.
LEMMA EmptyOutcome ==
    ASSUME NEW s, NEW pr, NEW p, NEW low \in Nat
    PROVE  Outcome(s, pr, p, low, low, [found |-> FALSE, at |-> low + 1])
<1>1. (low + 1)..low = {} /\ low + 1 \in (low + 1)..(low + 1)
  OBVIOUS
<1> QED BY <1>1 DEF Outcome

\* What a step does with two right answers is a right answer.
LEMMA BodyOutcome ==
    ASSUME NEW s \in Sides, NEW pr, NEW n, Descending(s, pr, n), NEW p \in Nat,
           NEW low \in 0..n, NEW high \in low..n, NEW f,
           \A a \in 0..n : \A b \in a..n : b - a < high - low => Outcome(s, pr, p, a, b, f[<<a, b>>])
    PROVE  Outcome(s, pr, p, low, high, SearchBody(f, s, pr, p, low, high))
<1>1. n \in Nat
  BY DEF Descending
<1>2. CASE low >= high
  <2>1. low = high /\ low \in Nat
    BY <1>1, <1>2
  <2>2. SearchBody(f, s, pr, p, low, high) = [found |-> FALSE, at |-> low + 1]
    BY <1>2 DEF SearchBody
  <2> QED BY <2>1, <2>2, EmptyOutcome
<1>3. CASE low < high
  <2> DEFINE mid == Middle(low, high)
  <2>1. mid \in Nat /\ low <= mid /\ mid < high
    BY <1>1, <1>3, MiddleBetween
  <2>2. ~(low >= high)
    BY <1>1, <1>3
  <2>3. /\ pr[mid + 1] = p => SearchBody(f, s, pr, p, low, high) = [found |-> TRUE, at |-> mid + 1]
        /\ pr[mid + 1] # p /\ Better(s, p, pr[mid + 1]) => SearchBody(f, s, pr, p, low, high) = f[<<low, mid>>]
        /\ pr[mid + 1] # p /\ ~Better(s, p, pr[mid + 1]) => SearchBody(f, s, pr, p, low, high) = f[<<mid + 1, high>>]
    BY <2>2 DEF SearchBody
  <2> HIDE DEF mid
  <2>4. /\ mid \in low..(high - 1) /\ mid \in low..n /\ mid + 1 \in 0..n /\ high \in (mid + 1)..n
        /\ mid - low < high - low /\ high - (mid + 1) < high - low
    BY <1>1, <1>3, <2>1
  <2>5. Outcome(s, pr, p, low, mid, f[<<low, mid>>])
    BY <2>4
  <2>6. Outcome(s, pr, p, mid + 1, high, f[<<mid + 1, high>>])
    BY <2>4
  <2>7. CASE pr[mid + 1] = p
    BY <2>3, <2>4, <2>7, HalfOutcome
  <2>8. CASE pr[mid + 1] # p /\ Better(s, p, pr[mid + 1])
    BY <2>3, <2>4, <2>5, <2>8, HalfOutcome
  <2>9. CASE pr[mid + 1] # p /\ ~Better(s, p, pr[mid + 1])
    BY <2>3, <2>4, <2>6, <2>9, HalfOutcome
  <2> QED BY <2>7, <2>8, <2>9
<1> QED BY <1>1, <1>2, <1>3

\* There is a function that satisfies the recursion.
LEMMA SearchDefined ==
    ASSUME NEW s \in Sides, NEW pr, NEW n, Descending(s, pr, n), NEW p \in Nat
    PROVE  \E f : IsSearch(f, s, pr, p, n)
<1> DEFINE H(low, high) == IF low > high THEN [found |-> FALSE, at |-> low + 1]
                           ELSE CHOOSE r : Outcome(s, pr, p, low, high, r)
           f == [r \in (0..n) \X (0..n) |-> H(r[1], r[2])]
<1>1. n \in Nat
  BY DEF Descending
<1>2. \A a \in 0..n : \A b \in a..n : Outcome(s, pr, p, a, b, H(a, b))
  <2> TAKE a \in 0..n
  <2> TAKE b \in a..n
  <2>1. ~(a > b)
    BY <1>1
  <2>2. \E r : Outcome(s, pr, p, a, b, r)
    BY OutcomeExists
  <2> QED BY <2>1, <2>2
<1>3. \A a, b \in 0..n : f[<<a, b>>] = H(a, b)
  <2> HIDE DEF H
  <2> QED OBVIOUS
<1>4. \A a, b \in 0..n : b < a => H(a, b) = [found |-> FALSE, at |-> a + 1]
  BY <1>1
<1>5. f = [r \in (0..n) \X (0..n) |-> f[r]]
  OBVIOUS
<1> HIDE DEF H, f
<1>6. \A a \in 0..n : \A b \in a..n : Outcome(s, pr, p, a, b, f[<<a, b>>])
  <2> TAKE a \in 0..n
  <2> TAKE b \in a..n
  <2>1. b \in 0..n
    BY <1>1
  <2> QED BY <1>2, <1>3, <2>1
<1>7. ASSUME NEW a \in 0..n, NEW b \in 0..n PROVE f[<<a, b>>] = SearchBody(f, s, pr, p, a, b)
  <2>1. CASE b < a
    <3>1. a >= b
      BY <1>1, <2>1
    <3>2. SearchBody(f, s, pr, p, a, b) = [found |-> FALSE, at |-> a + 1]
      BY <3>1 DEF SearchBody
    <3> QED BY <1>3, <1>4, <2>1, <3>2
  <2>2. CASE a <= b
    <3>1. b \in a..n
      BY <1>1, <2>2
    <3>2. Outcome(s, pr, p, a, b, SearchBody(f, s, pr, p, a, b))
      BY <1>6, <3>1, BodyOutcome
    <3>3. Outcome(s, pr, p, a, b, f[<<a, b>>])
      BY <1>6, <3>1
    <3> QED BY <3>1, <3>2, <3>3, OutcomeUnique
  <2> QED BY <1>1, <2>1, <2>2
<1>8. IsSearch(f, s, pr, p, n)
  <2>1. ASSUME NEW r \in (0..n) \X (0..n) PROVE f[r] = SearchBody(f, s, pr, p, r[1], r[2])
    <3>1. r = <<r[1], r[2]>> /\ r[1] \in 0..n /\ r[2] \in 0..n
      OBVIOUS
    <3> QED BY <1>7, <3>1
  <2> QED BY <1>5, <2>1 DEF IsSearch
<1> QED BY <1>8

\* Every function that does finds the place of the price.
LEMMA SearchRight ==
    ASSUME NEW s \in Sides, NEW pr, NEW n, Descending(s, pr, n), NEW p \in Nat,
           NEW f, IsSearch(f, s, pr, p, n)
    PROVE  \A low \in 0..n : \A high \in low..n : Outcome(s, pr, p, low, high, f[<<low, high>>])
<1>1. n \in Nat
  BY DEF Descending
<1> DEFINE Bad(k) == \E a \in 0..n : \E b \in a..n : b - a = k /\ ~Outcome(s, pr, p, a, b, f[<<a, b>>])
           T == {k \in Nat : Bad(k)}
<1>2. T = {}
  <2> SUFFICES ASSUME T # {} PROVE FALSE
    OBVIOUS
  <2> DEFINE m == Min(T)
  <2>1. m \in T /\ \A k \in T : m <= k
    <3>1. T \in SUBSET Nat
      OBVIOUS
    <3> HIDE DEF T
    <3> QED BY <3>1, LeastElement
  <2> HIDE DEF m
  <2>2. PICK low \in 0..n : \E b \in low..n : b - low = m /\ ~Outcome(s, pr, p, low, b, f[<<low, b>>])
    BY <2>1
  <2>3. PICK high \in low..n : high - low = m /\ ~Outcome(s, pr, p, low, high, f[<<low, high>>])
    BY <2>2
  <2>4. ASSUME NEW a \in 0..n, NEW b \in a..n, b - a < high - low
        PROVE  Outcome(s, pr, p, a, b, f[<<a, b>>])
    <3>1. b - a \in Nat /\ b - a < m /\ m \in Nat
      BY <1>1, <2>1, <2>3, <2>4
    <3>2. b - a \notin T
      <4> HIDE DEF T
      <4>1. b - a \in T => m <= b - a
        BY <2>1
      <4> QED BY <3>1, <4>1
    <3> QED BY <3>1, <3>2
  <2>5. high \in 0..n
    BY <1>1
  <2>6. f[<<low, high>>] = SearchBody(f, s, pr, p, low, high)
    BY <2>5 DEF IsSearch
  <2>7. Outcome(s, pr, p, low, high, SearchBody(f, s, pr, p, low, high))
    BY <2>4, BodyOutcome
  <2> QED BY <2>3, <2>6, <2>7
<1>3. ASSUME NEW a \in 0..n, NEW b \in a..n PROVE Outcome(s, pr, p, a, b, f[<<a, b>>])
  <2>1. b - a \in Nat
    BY <1>1
  <2>2. ~Bad(b - a)
    BY <1>2, <2>1
  <2> QED BY <2>2
<1> QED BY <1>3

\* The levels of a side are in the pool, and strictly sorted.
SideSorted(s) ==
    /\ levels[s] \in Seq(PoolSlots)
    /\ \A k \in 1..Len(levels[s]) : Level(s, k).price \in Nat
    /\ \A j, k \in 1..Len(levels[s]) : j < k => Better(s, Level(s, j).price, Level(s, k).price)

IsLevelSearch(f, s, p) ==
    f = [r \in (0..Len(levels[s])) \X (0..Len(levels[s])) |->
            LET low == r[1]
                high == r[2]
                mid == low + (high - low) \div 2
            IN  IF low >= high THEN [found |-> FALSE, at |-> low + 1]
                ELSE IF Level(s, mid + 1).price = p THEN [found |-> TRUE, at |-> mid + 1]
                ELSE IF Better(s, p, Level(s, mid + 1).price) THEN f[<<low, mid>>]
                ELSE f[<<mid + 1, high>>]]

\* The search of add_to_book finds the level of the price, if there is one, and
\* otherwise the place where it belongs.
LEMMA SearchLevelRight ==
    ASSUME NEW s \in Sides, SideSorted(s), NEW p \in Nat
    PROVE  LET n == Len(levels[s])
               hit == SearchLevel(s, p)
           IN  \/ \E a \in 1..n : Level(s, a).price = p /\ hit = [found |-> TRUE, at |-> a]
               \/ \E a \in 1..(n + 1) :
                     /\ hit = [found |-> FALSE, at |-> a]
                     /\ \A k \in 1..n : Level(s, k).price # p /\ (k < a <=> Better(s, Level(s, k).price, p))
<1> DEFINE n == Len(levels[s])
           pr == [k \in 1..n |-> Level(s, k).price]
           f == CHOOSE f : IsLevelSearch(f, s, p)
<1>1. n \in Nat
  BY DEF SideSorted
<1>2. Descending(s, pr, n)
  BY <1>1 DEF Descending, SideSorted
<1>3. \A k \in 1..n : pr[k] = Level(s, k).price
  OBVIOUS
<1>4. \A g : IsSearch(g, s, pr, p, n) <=> IsLevelSearch(g, s, p)
  <2> SUFFICES ASSUME NEW g, NEW r \in (0..n) \X (0..n)
               PROVE  SearchBody(g, s, pr, p, r[1], r[2]) =
                        LET low == r[1]
                            high == r[2]
                            mid == low + (high - low) \div 2
                        IN  IF low >= high THEN [found |-> FALSE, at |-> low + 1]
                            ELSE IF Level(s, mid + 1).price = p THEN [found |-> TRUE, at |-> mid + 1]
                            ELSE IF Better(s, p, Level(s, mid + 1).price) THEN g[<<low, mid>>]
                            ELSE g[<<mid + 1, high>>]
    BY ZenonT(30) DEF IsSearch, IsLevelSearch
  <2>1. r[1] \in 0..n /\ r[2] \in 0..n
    OBVIOUS
  <2>2. CASE r[1] >= r[2]
    BY <2>2 DEF SearchBody
  <2>3. CASE r[1] < r[2]
    <3>1. Middle(r[1], r[2]) + 1 \in 1..n /\ ~(r[1] >= r[2])
      <4> DEFINE low == r[1]
                 high == r[2]
      <4>1. low \in 0..n /\ high \in 0..n /\ low < high
        BY <2>1, <2>3
      <4> HIDE DEF low, high, n
      <4>2. Middle(low, high) \in Nat /\ low <= Middle(low, high) /\ Middle(low, high) < high
        BY <1>1, <4>1, MiddleBetween
      <4>3. Middle(low, high) + 1 \in 1..n /\ ~(low >= high)
        BY <1>1, <4>1, <4>2
      <4> QED BY <4>3 DEF low, high
    <3>2. pr[Middle(r[1], r[2]) + 1] = Level(s, Middle(r[1], r[2]) + 1).price
      BY <1>3, <3>1
    <3> HIDE DEF pr
    <3> QED BY <3>1, <3>2 DEF SearchBody, Middle
  <2> QED BY <1>1, <2>1, <2>2, <2>3
<1> HIDE DEF pr
<1>5. SearchLevel(s, p) = f[<<0, n>>]
  BY DEF SearchLevel, IsLevelSearch
<1>6. IsSearch(f, s, pr, p, n)
  <2>1. \E g : IsLevelSearch(g, s, p)
    BY <1>2, <1>4, SearchDefined
  <2>2. IsLevelSearch(f, s, p)
    BY <2>1
  <2> HIDE DEF f
  <2> QED BY <1>4, <2>2
<1> HIDE DEF f, n
<1>7. Outcome(s, pr, p, 0, n, f[<<0, n>>])
  <2>1. 0 \in 0..n /\ n \in 0..n
    BY <1>1
  <2> QED BY <1>2, <1>6, <2>1, SearchRight
<1>8. 0 + 1 = 1
  OBVIOUS
<1> DEFINE hit == SearchLevel(s, p)
<1>9. \/ \E a \in 1..n : pr[a] = p /\ hit = [found |-> TRUE, at |-> a]
      \/ \E a \in 1..(n + 1) :
            /\ hit = [found |-> FALSE, at |-> a]
            /\ \A k \in 1..n : pr[k] # p /\ (k < a <=> Better(s, pr[k], p))
  BY <1>5, <1>7, <1>8 DEF Outcome
<1> HIDE DEF hit
<1>10. \/ \E a \in 1..n : Level(s, a).price = p /\ hit = [found |-> TRUE, at |-> a]
       \/ \E a \in 1..(n + 1) :
             /\ hit = [found |-> FALSE, at |-> a]
             /\ \A k \in 1..n : Level(s, k).price # p /\ (k < a <=> Better(s, Level(s, k).price, p))
  BY <1>3, <1>9
<1> QED BY <1>10 DEF hit, n

----------------------------------------------------------------------------
(* One side of the book: its pool P, its sorted levels L and free list F.  *)

\* Every level of the pool is in the book or on the free list, in one place.
Partition(L, F) ==
    /\ L \in Seq(PoolSlots) /\ F \in Seq(PoolSlots)
    /\ Len(L) + Len(F) = MaxBookLevels
    /\ \A x \in PoolSlots : (\E k \in 1..Len(L) : L[k] = x) \/ (\E k \in 1..Len(F) : F[k] = x)
    /\ \A j, k \in 1..Len(L) : j # k => L[j] # L[k]
    /\ \A j, k \in 1..Len(F) : j # k => F[j] # F[k]
    /\ \A j \in 1..Len(L), k \in 1..Len(F) : L[j] # F[k]

\* The levels in the book, best price first.
InOrder(s, P, L) == \A j, k \in 1..Len(L) : j < k => Better(s, P[L[j]].price, P[L[k]].price)

\* None of them is empty, and what they cache of their orders is true.
AllGood(s, P, L, n) == \A k \in 1..Len(L) : LevelOK(s, P[L[k]], n) /\ P[L[k]].count >= 1

SideGood(s, P, L, F, n) ==
    /\ P \in [PoolSlots -> LevelRecord]
    /\ Partition(L, F)
    /\ InOrder(s, P, L)
    /\ AllGood(s, P, L, n)

SideOrders(s, P, L) == UNION {LevelOrders(s, P[L[k]]) : k \in 1..Len(L)}

\* The best level goes back to the free list.
LEMMA ReleaseFirst ==
    ASSUME NEW L, NEW F, Partition(L, F), L # <<>>
    PROVE  /\ Partition(Tail(L), Append(F, Head(L)))
           /\ Len(L) \in Nat /\ Len(L) >= 1 /\ Len(Tail(L)) = Len(L) - 1 /\ Head(L) = L[1]
           /\ \A k \in 1..(Len(L) - 1) : Tail(L)[k] = L[k + 1]
<1>1. L \in Seq(PoolSlots) /\ F \in Seq(PoolSlots) /\ Len(L) \in Nat /\ Len(F) \in Nat /\ Len(L) >= 1
  BY DEF Partition
<1> DEFINE T == Tail(L)
           A == Append(F, Head(L))
<1>2. /\ T \in Seq(PoolSlots) /\ Len(T) = Len(L) - 1 /\ Head(L) = L[1] /\ L[1] \in PoolSlots
      /\ \A k \in 1..(Len(L) - 1) : T[k] = L[k + 1]
  BY <1>1
<1>3. /\ A \in Seq(PoolSlots) /\ Len(A) = Len(F) + 1 /\ A[Len(F) + 1] = L[1]
      /\ \A k \in 1..Len(F) : A[k] = F[k]
  BY <1>1, <1>2
<1> HIDE DEF T, A
<1>4. MaxBookLevels = Len(T) + Len(A)
  BY <1>1, <1>2, <1>3 DEF Partition
<1>5. ASSUME NEW x \in PoolSlots
      PROVE  (\E k \in 1..Len(T) : T[k] = x) \/ (\E k \in 1..Len(A) : A[k] = x)
  <2>1. CASE \E k \in 1..Len(L) : L[k] = x
    <3>1. PICK k \in 1..Len(L) : L[k] = x
      BY <2>1
    <3>2. CASE k = 1
      <4>1. Len(F) + 1 \in 1..Len(A)
        BY <1>1, <1>3
      <4> QED BY <1>3, <3>1, <3>2, <4>1
    <3>3. CASE k # 1
      <4>1. k - 1 \in 1..Len(T) /\ k - 1 \in 1..(Len(L) - 1) /\ (k - 1) + 1 = k
        BY <1>1, <1>2, <3>3
      <4> QED BY <1>2, <3>1, <4>1
    <3> QED BY <3>2, <3>3
  <2>2. CASE \E k \in 1..Len(F) : F[k] = x
    <3>1. PICK k \in 1..Len(F) : F[k] = x
      BY <2>2
    <3>2. k \in 1..Len(A)
      BY <1>1, <1>3
    <3> QED BY <1>3, <3>1, <3>2
  <2> QED BY <2>1, <2>2 DEF Partition
<1>6. ASSUME NEW j \in 1..Len(T), NEW k \in 1..Len(T), j # k PROVE T[j] # T[k]
  <2>1. j + 1 \in 1..Len(L) /\ k + 1 \in 1..Len(L) /\ j + 1 # k + 1 /\ j \in 1..(Len(L) - 1) /\ k \in 1..(Len(L) - 1)
    BY <1>1, <1>2, <1>6
  <2> QED BY <1>2, <2>1, SMTT(30) DEF Partition
<1>7. ASSUME NEW j \in 1..Len(T), NEW k \in 1..Len(A) PROVE T[j] # A[k]
  <2>1. j + 1 \in 1..Len(L) /\ 1 \in 1..Len(L) /\ j + 1 # 1 /\ j \in 1..(Len(L) - 1)
    BY <1>1, <1>2
  <2>2. k \in 1..Len(F) \/ k = Len(F) + 1
    BY <1>1, <1>3
  <2> QED BY <1>2, <1>3, <2>1, <2>2 DEF Partition
<1>8. ASSUME NEW j \in 1..Len(A), NEW k \in 1..Len(A), j # k PROVE A[j] # A[k]
  <2>1. 1 \in 1..Len(L) /\ (j \in 1..Len(F) \/ j = Len(F) + 1) /\ (k \in 1..Len(F) \/ k = Len(F) + 1)
    BY <1>1, <1>3
  <2> QED BY <1>3, <1>8, <2>1 DEF Partition
<1>9. Partition(T, A)
  BY <1>2, <1>3, <1>4, <1>5, <1>6, <1>7, <1>8 DEF Partition
<1> QED BY <1>1, <1>2, <1>9 DEF T, A
\* What a vector holds after insert: the elements before the place, the new
\* one, and the others moved by one.
LEMMA InsertAtElements ==
    ASSUME NEW S, NEW p \in Seq(S), NEW e \in S, NEW k \in 1..(Len(p) + 1)
    PROVE  /\ InsertAt(p, k, e) \in Seq(S) /\ Len(InsertAt(p, k, e)) = Len(p) + 1
           /\ \A j \in 1..(Len(p) + 1) :
                 InsertAt(p, k, e)[j] = IF j < k THEN p[j] ELSE IF j = k THEN e ELSE p[j - 1]
<1> DEFINE a == SubSeq(p, 1, k - 1)
           b == SubSeq(p, k, Len(p))
           c == a \o <<e>>
<1>1. Len(p) \in Nat /\ \A i \in 1..Len(p) : p[i] \in S
  OBVIOUS
<1>2. /\ a \in Seq(S) /\ Len(a) = k - 1
      /\ \A j \in 1..(k - 1) : a[j] = p[j]
  <2>1. \A i \in 1..(k - 1) : p[i] \in S
    BY <1>1
  <2> QED BY <1>1, <2>1, SubSeqProperties
<1>3. /\ b \in Seq(S) /\ Len(b) = Len(p) - k + 1
      /\ \A j \in 1..(Len(p) - k + 1) : b[j] = p[k + j - 1]
  <2>1. \A i \in k..Len(p) : p[i] \in S
    BY <1>1
  <2> QED BY <1>1, <2>1, SubSeqProperties
<1> HIDE DEF a, b
<1>4. /\ c \in Seq(S) /\ Len(c) = k
      /\ \A j \in 1..k : c[j] = IF j < k THEN p[j] ELSE e
  BY <1>1, <1>2
<1> HIDE DEF c
<1>5. /\ c \o b \in Seq(S) /\ Len(c \o b) = Len(p) + 1
      /\ \A j \in 1..(Len(p) + 1) : (c \o b)[j] = IF j <= k THEN c[j] ELSE b[j - k]
  <2>1. /\ c \o b \in Seq(S) /\ Len(c \o b) = Len(c) + Len(b)
        /\ \A j \in 1..(Len(c) + Len(b)) : (c \o b)[j] = IF j <= Len(c) THEN c[j] ELSE b[j - Len(c)]
    BY <1>3, <1>4, ConcatProperties
  <2>2. Len(c) + Len(b) = Len(p) + 1
    BY <1>1, <1>3, <1>4
  <2> QED BY <1>4, <2>1, <2>2
<1>6. InsertAt(p, k, e) = c \o b
  BY DEF InsertAt, a, b, c
<1>7. ASSUME NEW j \in 1..(Len(p) + 1)
      PROVE  (c \o b)[j] = IF j < k THEN p[j] ELSE IF j = k THEN e ELSE p[j - 1]
  <2>1. CASE j <= k
    BY <1>1, <1>4, <1>5, <2>1
  <2>2. CASE j > k
    <3>1. j - k \in 1..(Len(p) - k + 1) /\ k + (j - k) - 1 = j - 1
      BY <1>1, <2>2
    <3>2. b[j - k] = p[j - 1]
      BY <1>3, <3>1
    <3>3. ~(j <= k) /\ ~(j < k) /\ j # k
      BY <1>1, <2>2
    <3>4. (c \o b)[j] = b[j - k]
      BY <1>5, <3>3
    <3> QED BY <3>2, <3>3, <3>4
  <2>3. j <= k \/ j > k
    BY <1>1
  <2> QED BY <2>1, <2>2, <2>3
<1> QED BY <1>5, <1>6, <1>7

\* The top of the free list goes to its place in the book.
LEMMA AcquireLast ==
    ASSUME NEW L, NEW F, Partition(L, F), Len(L) < MaxBookLevels, NEW a \in 1..(Len(L) + 1)
    PROVE  /\ Partition(InsertAt(L, a, Last(F)), Front(F))
           /\ Len(L) \in Nat /\ Last(F) \in PoolSlots /\ \A k \in 1..Len(L) : L[k] # Last(F)
           /\ Len(InsertAt(L, a, Last(F))) = Len(L) + 1
           /\ \A j \in 1..(Len(L) + 1) :
                 InsertAt(L, a, Last(F))[j] = IF j < a THEN L[j] ELSE IF j = a THEN Last(F) ELSE L[j - 1]
<1>1. L \in Seq(PoolSlots) /\ F \in Seq(PoolSlots) /\ Len(L) \in Nat /\ Len(F) \in Nat /\ Len(F) >= 1
  BY BookAssumption DEF Partition
<1> DEFINE e == Last(F)
           I == InsertAt(L, a, e)
           R == Front(F)
<1>2. e = F[Len(F)] /\ Len(F) \in 1..Len(F) /\ e \in PoolSlots
  BY <1>1 DEF Last
<1>3. R \in Seq(PoolSlots) /\ Len(R) = Len(F) - 1 /\ \A k \in 1..(Len(F) - 1) : R[k] = F[k]
  <2>1. \A i \in 1..(Len(F) - 1) : F[i] \in PoolSlots
    BY <1>1
  <2>2. 1 \in Int /\ Len(F) - 1 \in Int /\ Len(F) - 1 - 1 + 1 = Len(F) - 1 /\ Len(F) - 1 \in Nat
    BY <1>1
  <2> QED BY <1>1, <2>1, <2>2, SubSeqProperties DEF Front
<1> HIDE DEF e, R
<1>4. I \in Seq(PoolSlots) /\ Len(I) = Len(L) + 1
  BY <1>1, <1>2, InsertAtElements
<1>5. \A j \in 1..(Len(L) + 1) : I[j] = IF j < a THEN L[j] ELSE IF j = a THEN e ELSE L[j - 1]
  <2>1. L \in Seq(PoolSlots) /\ e \in PoolSlots /\ a \in 1..(Len(L) + 1)
    BY <1>1, <1>2
  <2> QED BY ONLY <2>1, InsertAtElements
<1> HIDE DEF I
<1>6. \A k \in 1..Len(L) : L[k] # e
  BY <1>2 DEF Partition
<1>7. ASSUME NEW j \in 1..Len(I), j # a
      PROVE  \E k \in 1..Len(L) : I[j] = L[k] /\ k = IF j < a THEN j ELSE j - 1
  <2>1. j \in 1..(Len(L) + 1)
    BY <1>4
  <2>2. CASE j < a
    <3>1. j \in 1..Len(L)
      BY <1>1, <2>1, <2>2
    <3> QED BY <1>5, <2>1, <2>2, <3>1
  <2>3. CASE j > a
    <3>1. j - 1 \in 1..Len(L) /\ ~(j < a)
      BY <1>1, <2>1, <2>3
    <3> QED BY <1>5, <1>7, <2>1, <2>3, <3>1
  <2> QED BY <1>1, <1>7, <2>1, <2>2, <2>3
<1>8. a \in 1..Len(I) /\ I[a] = e
  BY <1>1, <1>4, <1>5
<1>9. MaxBookLevels = Len(I) + Len(R)
  BY <1>1, <1>3, <1>4 DEF Partition
<1>10. ASSUME NEW x \in PoolSlots
       PROVE  (\E k \in 1..Len(I) : I[k] = x) \/ (\E k \in 1..Len(R) : R[k] = x)
  <2>1. CASE \E k \in 1..Len(L) : L[k] = x
    <3>1. PICK k \in 1..Len(L) : L[k] = x
      BY <2>1
    <3>2. CASE k < a
      <4>1. k \in 1..Len(I) /\ k \in 1..(Len(L) + 1)
        BY <1>1, <1>4
      <4> QED BY <1>5, <3>1, <3>2, <4>1
    <3>3. CASE k >= a
      <4>1. k + 1 \in 1..Len(I) /\ k + 1 \in 1..(Len(L) + 1) /\ ~(k + 1 < a) /\ k + 1 # a /\ (k + 1) - 1 = k
        BY <1>1, <1>4, <3>3
      <4> QED BY <1>5, <3>1, <4>1
    <3> QED BY <1>1, <3>2, <3>3
  <2>2. CASE \E k \in 1..Len(F) : F[k] = x
    <3>1. PICK k \in 1..Len(F) : F[k] = x
      BY <2>2
    <3>2. CASE k = Len(F)
      BY <1>2, <1>8, <3>1, <3>2
    <3>3. CASE k # Len(F)
      <4>1. k \in 1..Len(R) /\ k \in 1..(Len(F) - 1)
        BY <1>1, <1>3, <3>3
      <4> QED BY <1>3, <3>1, <4>1
    <3> QED BY <3>2, <3>3
  <2> QED BY <2>1, <2>2 DEF Partition
<1>11. ASSUME NEW j \in 1..Len(I), NEW k \in 1..Len(I), j # k PROVE I[j] # I[k]
  <2>1. CASE j = a
    BY <1>6, <1>7, <1>8, <1>11, <2>1
  <2>2. CASE k = a
    BY <1>6, <1>7, <1>8, <1>11, <2>2
  <2>3. CASE j # a /\ k # a
    <3>1. PICK x \in 1..Len(L) : I[j] = L[x] /\ x = IF j < a THEN j ELSE j - 1
      BY <1>7, <2>3
    <3>2. PICK y \in 1..Len(L) : I[k] = L[y] /\ y = IF k < a THEN k ELSE k - 1
      BY <1>7, <2>3
    <3>3. x # y
      BY <1>1, <1>4, <1>11, <2>3, <3>1, <3>2
    <3> QED BY <3>1, <3>2, <3>3, SMTT(30) DEF Partition
  <2> QED BY <2>1, <2>2, <2>3
<1>12. ASSUME NEW j \in 1..Len(I), NEW k \in 1..Len(R) PROVE I[j] # R[k]
  <2>1. k \in 1..(Len(F) - 1) /\ k \in 1..Len(F) /\ k # Len(F)
    BY <1>1, <1>3
  <2>2. CASE j = a
    BY <1>2, <1>3, <1>8, <2>1, <2>2 DEF Partition
  <2>3. CASE j # a
    <3>1. PICK x \in 1..Len(L) : I[j] = L[x]
      BY <1>7, <2>3
    <3>2. L[x] # F[k]
      BY <2>1 DEF Partition
    <3> QED BY <1>3, <2>1, <3>1, <3>2
  <2> QED BY <2>2, <2>3
<1>13. ASSUME NEW j \in 1..Len(R), NEW k \in 1..Len(R), j # k PROVE R[j] # R[k]
  <2>1. j \in 1..(Len(F) - 1) /\ k \in 1..(Len(F) - 1) /\ j \in 1..Len(F) /\ k \in 1..Len(F)
    BY <1>1, <1>3
  <2> QED BY <1>3, <1>13, <2>1 DEF Partition
<1>14. Partition(I, R)
  BY <1>3, <1>4, <1>9, <1>10, <1>11, <1>12, <1>13 DEF Partition
<1> QED BY <1>1, <1>2, <1>4, <1>5, <1>6, <1>14 DEF I, R, e

WithLevel(P, x, r) == [P EXCEPT ![x] = r]

\* The orders of a good level.
LEMMA LevelMembers ==
    ASSUME NEW s \in Sides, NEW l, NEW n, LevelOK(s, l, n), NEW o \in LevelOrders(s, l)
    PROVE  o \in BookOrder /\ o.side = s /\ o.price = l.price /\ o.price > 0 /\ o.qty > 0 /\ o.id <= n
<1>1. l \in LevelRecord
  BY DEF LevelOK
<1>2. PICK i \in 1..l.count : o = OrderIn(s, l, i)
  BY DEF LevelOrders
<1>3. /\ OrderIn(s, l, i) \in BookOrder /\ OrderIn(s, l, i).side = s /\ OrderIn(s, l, i).price = l.price
      /\ OrderIn(s, l, i).qty = Queue(l)[i].qty /\ OrderIn(s, l, i).id = Queue(l)[i].id
  BY <1>1, OrderFields
<1>4. Queue(l)[i].qty > 0 /\ Queue(l)[i].id <= n /\ l.price > 0
  BY DEF LevelOK
<1> QED BY <1>2, <1>3, <1>4

\* Levels differ in their price, so no order is in two of them.
LEMMA SideMembers ==
    ASSUME NEW s \in Sides, NEW P, NEW L, NEW F, NEW n, SideGood(s, P, L, F, n)
    PROVE  /\ L \in Seq(PoolSlots) /\ Len(L) \in Nat
           /\ \A k \in 1..Len(L) : L[k] \in PoolSlots /\ P[L[k]] \in LevelRecord
           /\ \A k \in 1..Len(L) : \A o \in LevelOrders(s, P[L[k]]) :
                 o \in BookOrder /\ o.side = s /\ o.price = P[L[k]].price /\ o.price > 0 /\ o.qty > 0 /\ o.id <= n
           /\ \A j, k \in 1..Len(L) : j # k => P[L[j]].price # P[L[k]].price
<1>1. L \in Seq(PoolSlots) /\ Len(L) \in Nat /\ \A k \in 1..Len(L) : L[k] \in PoolSlots
  BY DEF SideGood, Partition
<1>2. \A k \in 1..Len(L) : P[L[k]] \in LevelRecord
  BY <1>1 DEF SideGood
<1>3. ASSUME NEW k \in 1..Len(L), NEW o \in LevelOrders(s, P[L[k]])
      PROVE  o \in BookOrder /\ o.side = s /\ o.price = P[L[k]].price /\ o.price > 0 /\ o.qty > 0 /\ o.id <= n
  <2>1. LevelOK(s, P[L[k]], n)
    BY DEF SideGood, AllGood
  <2> QED BY <2>1, LevelMembers
<1>4. ASSUME NEW j \in 1..Len(L), NEW k \in 1..Len(L), j # k PROVE P[L[j]].price # P[L[k]].price
  <2>1. j < k \/ k < j
    BY <1>1, <1>4
  <2>2. Better(s, P[L[j]].price, P[L[k]].price) \/ Better(s, P[L[k]].price, P[L[j]].price)
    BY <2>1 DEF SideGood, InOrder
  <2>3. P[L[j]].price \in Nat /\ P[L[k]].price \in Nat
    BY <1>2 DEF LevelRecord
  <2> QED BY <2>2, <2>3 DEF Better
<1> QED BY <1>1, <1>2, <1>3, <1>4

\* A level remains good when later orders exist.
LEMMA LevelLater ==
    ASSUME NEW s \in Sides, NEW l, NEW n \in Nat, LevelOK(s, l, n), NEW m \in Nat, n <= m
    PROVE  LevelOK(s, l, m)
<1>1. l \in LevelRecord
  BY DEF LevelOK
<1>2. ASSUME NEW i \in 1..l.count PROVE Queue(l)[i].id <= m
  <2>1. Queue(l)[i].id \in Nat
    BY <1>1, OrderFields DEF Entry
  <2>2. Queue(l)[i].id <= n
    BY DEF LevelOK
  <2> QED BY <2>1, <2>2
<1> QED BY <1>2 DEF LevelOK

\* One level changes and keeps its price and its place.
LEMMA ReplaceLevel ==
    ASSUME NEW s \in Sides, NEW P, NEW L, NEW F, NEW n \in Nat, SideGood(s, P, L, F, n),
           NEW m \in Nat, n <= m, NEW k \in 1..Len(L),
           NEW r, LevelOK(s, r, m), r.count >= 1, r.price = P[L[k]].price,
           NEW Q, Q = WithLevel(P, L[k], r)
    PROVE  /\ SideGood(s, Q, L, F, m)
           /\ SideOrders(s, Q, L) = (SideOrders(s, P, L) \ LevelOrders(s, P[L[k]])) \cup LevelOrders(s, r)
<1>1. /\ L \in Seq(PoolSlots) /\ Len(L) \in Nat
      /\ \A j \in 1..Len(L) : L[j] \in PoolSlots /\ P[L[j]] \in LevelRecord
  BY SideMembers
<1>2. P \in [PoolSlots -> LevelRecord] /\ r \in LevelRecord /\ Partition(L, F)
  BY DEF SideGood, LevelOK
<1>3. Q \in [PoolSlots -> LevelRecord] /\ Q[L[k]] = r
  BY <1>1, <1>2 DEF WithLevel
<1>4. \A j \in 1..Len(L) : j # k => Q[L[j]] = P[L[j]]
  BY <1>1, <1>2 DEF WithLevel, Partition
<1>5. \A j \in 1..Len(L) : Q[L[j]].price = P[L[j]].price
  BY <1>3, <1>4
<1>6. InOrder(s, Q, L)
  BY <1>5 DEF SideGood, InOrder
<1>7. AllGood(s, Q, L, m)
  <2> SUFFICES ASSUME NEW j \in 1..Len(L) PROVE LevelOK(s, Q[L[j]], m) /\ Q[L[j]].count >= 1
    BY DEF AllGood
  <2>1. CASE j = k
    BY <1>3, <2>1
  <2>2. CASE j # k
    <3>1. LevelOK(s, P[L[j]], n) /\ P[L[j]].count >= 1
      BY DEF SideGood, AllGood
    <3> QED BY <1>4, <2>2, <3>1, LevelLater
  <2> QED BY <2>1, <2>2
<1>8. SideGood(s, Q, L, F, m)
  BY <1>2, <1>3, <1>6, <1>7 DEF SideGood
<1>9. \A j \in 1..Len(L) : j # k => LevelOrders(s, P[L[j]]) \cap LevelOrders(s, P[L[k]]) = {}
  <2>1. \A j \in 1..Len(L) : \A o \in LevelOrders(s, P[L[j]]) : o.price = P[L[j]].price
    BY SideMembers
  <2>2. \A j \in 1..Len(L) : j # k => P[L[j]].price # P[L[k]].price
    BY SideMembers
  <2> QED BY <2>1, <2>2
<1>10. SideOrders(s, Q, L) = (SideOrders(s, P, L) \ LevelOrders(s, P[L[k]])) \cup LevelOrders(s, r)
  <2>1. ASSUME NEW o \in SideOrders(s, Q, L)
        PROVE  o \in (SideOrders(s, P, L) \ LevelOrders(s, P[L[k]])) \cup LevelOrders(s, r)
    <3>1. PICK j \in 1..Len(L) : o \in LevelOrders(s, Q[L[j]])
      BY DEF SideOrders
    <3>2. CASE j = k
      BY <1>3, <3>1, <3>2
    <3>3. CASE j # k
      <4>1. o \in LevelOrders(s, P[L[j]])
        BY <1>4, <3>1, <3>3
      <4>2. o \in SideOrders(s, P, L)
        BY <4>1 DEF SideOrders
      <4> QED BY <1>9, <3>3, <4>1, <4>2
    <3> QED BY <3>2, <3>3
  <2>2. ASSUME NEW o \in SideOrders(s, P, L), o \notin LevelOrders(s, P[L[k]])
        PROVE  o \in SideOrders(s, Q, L)
    <3>1. PICK j \in 1..Len(L) : o \in LevelOrders(s, P[L[j]])
      BY DEF SideOrders
    <3>2. j # k
      BY <2>2, <3>1
    <3>3. o \in LevelOrders(s, Q[L[j]])
      BY <1>4, <3>1, <3>2
    <3> QED BY <3>3 DEF SideOrders
  <2>3. ASSUME NEW o \in LevelOrders(s, r) PROVE o \in SideOrders(s, Q, L)
    BY <1>3 DEF SideOrders
  <2> QED BY <2>1, <2>2, <2>3
<1> QED BY <1>8, <1>10

\* The best level leaves the book.
LEMMA RemoveBestLevel ==
    ASSUME NEW s \in Sides, NEW P, NEW L, NEW F, NEW n \in Nat, SideGood(s, P, L, F, n), L # <<>>,
           NEW r \in LevelRecord, NEW Q, Q = WithLevel(P, L[1], r)
    PROVE  /\ SideGood(s, Q, Tail(L), Append(F, Head(L)), n)
           /\ SideOrders(s, Q, Tail(L)) = SideOrders(s, P, L) \ LevelOrders(s, P[L[1]])
<1> DEFINE T == Tail(L)
           A == Append(F, Head(L))
<1>1. /\ Partition(T, A) /\ Len(L) \in Nat /\ Len(L) >= 1 /\ Len(T) = Len(L) - 1
      /\ \A k \in 1..(Len(L) - 1) : T[k] = L[k + 1]
  BY ReleaseFirst DEF SideGood
<1> HIDE DEF T, A
<1>2. \A j \in 1..Len(L) : L[j] \in PoolSlots
  BY SideMembers
<1>3. P \in [PoolSlots -> LevelRecord] /\ Q \in [PoolSlots -> LevelRecord]
  BY <1>1, <1>2 DEF SideGood, WithLevel
<1>4. ASSUME NEW k \in 1..Len(T) PROVE k + 1 \in 1..Len(L) /\ k + 1 # 1 /\ T[k] = L[k + 1] /\ Q[T[k]] = P[L[k + 1]]
  <2>1. k + 1 \in 1..Len(L) /\ k + 1 # 1 /\ 1 \in 1..Len(L) /\ k \in 1..(Len(L) - 1)
    BY <1>1
  <2>2. L[k + 1] # L[1]
    BY <2>1 DEF SideGood, Partition
  <2>3. Q[L[k + 1]] = P[L[k + 1]]
    BY <1>2, <1>3, <2>1, <2>2 DEF WithLevel
  <2> QED BY <1>1, <2>1, <2>3
<1>5. InOrder(s, Q, T)
  <2> SUFFICES ASSUME NEW j \in 1..Len(T), NEW k \in 1..Len(T), j < k PROVE Better(s, Q[T[j]].price, Q[T[k]].price)
    BY DEF InOrder
  <2>1. j + 1 < k + 1
    BY <1>1
  <2>2. j + 1 \in 1..Len(L) /\ k + 1 \in 1..Len(L)
    BY <1>4
  <2>3. Better(s, P[L[j + 1]].price, P[L[k + 1]].price)
    BY <2>1, <2>2 DEF SideGood, InOrder
  <2> QED BY <1>4, <2>3
<1>6. AllGood(s, Q, T, n)
  BY <1>4 DEF SideGood, AllGood
<1>7. 1 \in 1..Len(L)
  BY <1>1
<1>8. \A j \in 1..Len(L) : j # 1 => LevelOrders(s, P[L[j]]) \cap LevelOrders(s, P[L[1]]) = {}
  <2>1. \A j \in 1..Len(L) : \A o \in LevelOrders(s, P[L[j]]) : o.price = P[L[j]].price
    BY SideMembers
  <2>2. \A j \in 1..Len(L) : j # 1 => P[L[j]].price # P[L[1]].price
    BY <1>7, SideMembers
  <2> QED BY <1>7, <2>1, <2>2
<1>9. SideOrders(s, Q, T) = SideOrders(s, P, L) \ LevelOrders(s, P[L[1]])
  <2>1. ASSUME NEW o \in SideOrders(s, Q, T) PROVE o \in SideOrders(s, P, L) \ LevelOrders(s, P[L[1]])
    <3>1. PICK k \in 1..Len(T) : o \in LevelOrders(s, Q[T[k]])
      BY DEF SideOrders
    <3>2. o \in LevelOrders(s, P[L[k + 1]]) /\ k + 1 \in 1..Len(L) /\ k + 1 # 1
      BY <1>4, <3>1
    <3> QED BY <1>8, <3>2 DEF SideOrders
  <2>2. ASSUME NEW o \in SideOrders(s, P, L), o \notin LevelOrders(s, P[L[1]]) PROVE o \in SideOrders(s, Q, T)
    <3>1. PICK j \in 1..Len(L) : o \in LevelOrders(s, P[L[j]])
      BY DEF SideOrders
    <3>2. j # 1
      BY <2>2, <3>1
    <3>3. j - 1 \in 1..Len(T) /\ (j - 1) + 1 = j
      BY <1>1, <3>2
    <3>4. o \in LevelOrders(s, Q[T[j - 1]])
      BY <1>4, <3>1, <3>3
    <3> QED BY <3>3, <3>4 DEF SideOrders
  <2> QED BY <2>1, <2>2
<1>10. SideGood(s, Q, T, A, n)
  BY <1>1, <1>3, <1>5, <1>6 DEF SideGood
<1> QED BY <1>9, <1>10 DEF T, A

\* The place a divides the levels of better prices than p from the others.
Divides(s, P, L, p, a) ==
    \A k \in 1..Len(L) : P[L[k]].price # p /\ (k < a <=> Better(s, P[L[k]].price, p))

\* A level enters the book at the place the search has found.
LEMMA InsertLevel ==
    ASSUME NEW s \in Sides, NEW P, NEW L, NEW F, NEW n \in Nat, SideGood(s, P, L, F, n), Len(L) < MaxBookLevels,
           NEW m \in Nat, n <= m, NEW a \in 1..(Len(L) + 1), NEW p \in Nat,
           Divides(s, P, L, p, a), NEW r, LevelOK(s, r, m), r.count >= 1, r.price = p,
           NEW Q, Q = WithLevel(P, Last(F), r)
    PROVE  /\ SideGood(s, Q, InsertAt(L, a, Last(F)), Front(F), m)
           /\ SideOrders(s, Q, InsertAt(L, a, Last(F))) = SideOrders(s, P, L) \cup LevelOrders(s, r)
<1> DEFINE e == Last(F)
           I == InsertAt(L, a, e)
           R == Front(F)
<1>1. Partition(L, F)
  BY DEF SideGood
<1>2. /\ Partition(I, R) /\ Len(L) \in Nat /\ e \in PoolSlots /\ Len(I) = Len(L) + 1
      /\ \A k \in 1..Len(L) : L[k] # e
  BY <1>1, AcquireLast
<1>3. \A j \in 1..(Len(L) + 1) : I[j] = IF j < a THEN L[j] ELSE IF j = a THEN e ELSE L[j - 1]
  <2>1. Partition(L, F) /\ Len(L) < MaxBookLevels /\ a \in 1..(Len(L) + 1)
    BY <1>1
  <2> QED BY ONLY <2>1, AcquireLast
<1> HIDE DEF e, I, R
<1>4. \A j \in 1..Len(L) : L[j] \in PoolSlots /\ P[L[j]].price \in Nat
  BY SideMembers DEF LevelRecord
<1>5. P \in [PoolSlots -> LevelRecord] /\ Q \in [PoolSlots -> LevelRecord] /\ Q[e] = r
  BY <1>2 DEF SideGood, WithLevel, LevelOK, e
<1>6. \A j \in 1..Len(L) : Q[L[j]] = P[L[j]]
  BY <1>2, <1>4, <1>5 DEF WithLevel, e
<1>7. ASSUME NEW j \in 1..Len(I)
      PROVE  /\ j < a => j \in 1..Len(L) /\ Q[I[j]] = P[L[j]]
             /\ j = a => Q[I[j]] = r
             /\ j > a => j - 1 \in 1..Len(L) /\ ~(j - 1 < a) /\ Q[I[j]] = P[L[j - 1]]
  <2>1. j \in 1..(Len(L) + 1)
    BY <1>2
  <2>2. CASE j < a
    <3>1. j \in 1..Len(L) /\ j # a /\ ~(j > a)
      BY <1>2, <2>1, <2>2
    <3>2. I[j] = L[j]
      BY <1>3, <2>1, <2>2
    <3> QED BY <1>6, <2>2, <3>1, <3>2
  <2>3. CASE j = a
    <3>1. ~(j < a) /\ ~(j > a)
      BY <1>2, <2>1, <2>3
    <3>2. I[j] = e
      BY <1>3, <2>1, <2>3, <3>1
    <3> QED BY <1>5, <3>1, <3>2
  <2>4. CASE j > a
    <3>1. j - 1 \in 1..Len(L) /\ ~(j - 1 < a) /\ j # a /\ ~(j < a)
      BY <1>2, <2>1, <2>4
    <3>2. I[j] = L[j - 1]
      BY <1>3, <2>1, <3>1
    <3> QED BY <1>6, <3>1, <3>2
  <2> QED BY <1>2, <2>1, <2>2, <2>3, <2>4
<1>8. \A k \in 1..Len(L) : ~(k < a) => Better(s, p, P[L[k]].price)
  BY <1>4, SMTT(30) DEF Divides, Better
<1>9. InOrder(s, Q, I)
  <2> SUFFICES ASSUME NEW j \in 1..Len(I), NEW k \in 1..Len(I), j < k PROVE Better(s, Q[I[j]].price, Q[I[k]].price)
    BY DEF InOrder
  <2>1. j \in Nat /\ k \in Nat /\ a \in Nat
    BY <1>2
  <2>2. CASE k < a
    <3>1. j < a
      BY <2>1, <2>2
    <3>2. j \in 1..Len(L) /\ k \in 1..Len(L) /\ Q[I[j]] = P[L[j]] /\ Q[I[k]] = P[L[k]]
      BY <1>7, <2>2, <3>1
    <3> QED BY <3>2 DEF SideGood, InOrder
  <2>3. CASE k = a
    <3>1. j < a
      BY <2>3
    <3>2. j \in 1..Len(L) /\ Q[I[j]] = P[L[j]] /\ Q[I[k]] = r
      BY <1>7, <2>3, <3>1
    <3> QED BY <3>1, <3>2 DEF Divides
  <2>4. CASE k > a /\ j < a
    <3>1. j \in 1..Len(L) /\ k - 1 \in 1..Len(L) /\ Q[I[j]] = P[L[j]] /\ Q[I[k]] = P[L[k - 1]]
      BY <1>7, <2>4
    <3>2. j < k - 1
      BY <2>1, <2>4
    <3> QED BY <3>1, <3>2 DEF SideGood, InOrder
  <2>5. CASE k > a /\ j = a
    <3>1. k - 1 \in 1..Len(L) /\ ~(k - 1 < a) /\ Q[I[j]] = r /\ Q[I[k]] = P[L[k - 1]]
      BY <1>7, <2>5
    <3> QED BY <1>8, <3>1
  <2>6. CASE j > a
    <3>1. k > a /\ j - 1 < k - 1
      BY <2>1, <2>6
    <3>2. j - 1 \in 1..Len(L) /\ k - 1 \in 1..Len(L) /\ Q[I[j]] = P[L[j - 1]] /\ Q[I[k]] = P[L[k - 1]]
      BY <1>7, <2>6, <3>1
    <3> QED BY <3>1, <3>2 DEF SideGood, InOrder
  <2> QED BY <2>1, <2>2, <2>3, <2>4, <2>5, <2>6
<1>10. \A j \in 1..Len(I) : j < a \/ j = a \/ j > a
  BY <1>2
<1>11. \A k \in 1..Len(L) : LevelOK(s, P[L[k]], m) /\ P[L[k]].count >= 1
  BY LevelLater DEF SideGood, AllGood
<1>12. AllGood(s, Q, I, m)
  <2> SUFFICES ASSUME NEW j \in 1..Len(I) PROVE LevelOK(s, Q[I[j]], m) /\ Q[I[j]].count >= 1
    BY DEF AllGood
  <2> QED BY <1>7, <1>10, <1>11
<1>13. SideGood(s, Q, I, R, m)
  BY <1>2, <1>5, <1>9, <1>12 DEF SideGood
<1>14. SideOrders(s, Q, I) = SideOrders(s, P, L) \cup LevelOrders(s, r)
  <2>1. ASSUME NEW o \in SideOrders(s, Q, I) PROVE o \in SideOrders(s, P, L) \cup LevelOrders(s, r)
    <3>1. PICK j \in 1..Len(I) : o \in LevelOrders(s, Q[I[j]])
      BY DEF SideOrders
    <3> QED BY <1>7, <1>10, <3>1 DEF SideOrders
  <2>2. ASSUME NEW o \in SideOrders(s, P, L) PROVE o \in SideOrders(s, Q, I)
    <3>1. PICK k \in 1..Len(L) : o \in LevelOrders(s, P[L[k]])
      BY DEF SideOrders
    <3>2. CASE k < a
      <4>1. k \in 1..Len(I)
        BY <1>2
      <4> QED BY <1>7, <3>1, <3>2, <4>1 DEF SideOrders
    <3>3. CASE k >= a
      <4>1. k + 1 \in 1..Len(I) /\ k + 1 > a /\ (k + 1) - 1 = k
        BY <1>2, <3>3
      <4>2. Q[I[k + 1]] = P[L[k]]
        BY <1>7, <4>1
      <4> QED BY <3>1, <4>1, <4>2 DEF SideOrders
    <3> QED BY <1>2, <3>2, <3>3
  <2>3. ASSUME NEW o \in LevelOrders(s, r) PROVE o \in SideOrders(s, Q, I)
    <3>1. a \in 1..Len(I) /\ Q[I[a]] = r
      BY <1>2, <1>7
    <3> QED BY <3>1 DEF SideOrders
  <2> QED BY <2>1, <2>2, <2>3
<1> QED BY <1>13, <1>14 DEF e, I, R

\* a has priority over b on side s.
Precedes(s, a, b) == Better(s, a.price, b.price) \/ (a.price = b.price /\ a.id < b.id)

\* The front order of the best level has priority over all others.
LEMMA FrontIsBest ==
    ASSUME NEW s \in Sides, NEW P, NEW L, NEW F, NEW n, SideGood(s, P, L, F, n), L # <<>>
    PROVE  /\ 1 \in 1..Len(L) /\ Head(L) = L[1] /\ L[1] \in PoolSlots /\ LevelOK(s, P[L[1]], n) /\ P[L[1]].count >= 1
           /\ OrderIn(s, P[L[1]], 1) \in SideOrders(s, P, L)
           /\ OrderIn(s, P[L[1]], 1) \in LevelOrders(s, P[L[1]])
           /\ \A o \in SideOrders(s, P, L) : o = OrderIn(s, P[L[1]], 1) \/ Precedes(s, OrderIn(s, P[L[1]], 1), o)
<1>1. L \in Seq(PoolSlots) /\ 1 \in 1..Len(L) /\ Head(L) = L[1] /\ L[1] \in PoolSlots
  BY DEF SideGood, Partition
<1> DEFINE l == P[L[1]]
<1>2. LevelOK(s, l, n) /\ l.count >= 1
  BY <1>1 DEF SideGood, AllGood
<1>3. LevelOrders(s, l) \subseteq SideOrders(s, P, L)
  BY <1>1 DEF SideOrders
<1>4. ASSUME NEW k \in 1..Len(L), k # 1 PROVE Better(s, l.price, P[L[k]].price)
  <2>1. 1 < k
    BY <1>1, <1>4
  <2> QED BY <1>1, <2>1 DEF SideGood, InOrder
<1> HIDE DEF l
<1>5. l \in LevelRecord /\ 1 \in 1..l.count
  BY <1>2 DEF LevelOK, LevelRecord
<1>6. OrderIn(s, l, 1) \in LevelOrders(s, l) /\ OrderIn(s, l, 1).price = l.price /\ OrderIn(s, l, 1).id = Queue(l)[1].id
  BY <1>5, OrderFields
<1>7. ASSUME NEW o \in SideOrders(s, P, L) PROVE o = OrderIn(s, l, 1) \/ Precedes(s, OrderIn(s, l, 1), o)
  <2>1. PICK k \in 1..Len(L) : o \in LevelOrders(s, P[L[k]])
    BY DEF SideOrders
  <2>2. CASE k # 1
    <3>1. o.price = P[L[k]].price
      BY <2>1, SideMembers
    <3> QED BY <1>4, <1>6, <2>2, <3>1 DEF Precedes
  <2>3. CASE k = 1
    <3>1. o \in LevelOrders(s, l)
      BY <2>1, <2>3 DEF l
    <3>2. PICK i \in 1..l.count : o = OrderIn(s, l, i)
      BY <3>1 DEF LevelOrders
    <3>3. OrderIn(s, l, i).price = l.price /\ OrderIn(s, l, i).id = Queue(l)[i].id
      BY <1>5, OrderFields
    <3>4. CASE i # 1
      <4>1. 1 < i
        BY <1>5, <3>4
      <4>2. Queue(l)[1].id < Queue(l)[i].id
        BY <1>2, <1>5, <4>1 DEF LevelOK
      <4> QED BY <1>6, <3>2, <3>3, <4>2 DEF Precedes
    <3> QED BY <3>2, <3>4
  <2> QED BY <2>2, <2>3
<1> QED BY <1>1, <1>2, <1>3, <1>6, <1>7 DEF l

\* The orders R when m has given up q.
AfterFill(R, m, q) == IF q = m.qty THEN R \ {m} ELSE (R \ {m}) \cup {Reduced(m, q)}

\* A fill with the best order: it loses q, or leaves the book when nothing is
\* left of it, and its level with it when it was the last one there.
LEMMA FillSide ==
    ASSUME NEW s \in Sides, NEW P, NEW L, NEW F, NEW n \in Nat, SideGood(s, P, L, F, n), L # <<>>,
           NEW l, l = P[L[1]], NEW m, m = OrderIn(s, l, 1), NEW q \in Nat, q <= m.qty,
           NEW r, r = FillFront(l, q), NEW Q, Q = WithLevel(P, L[1], r),
           NEW L2, NEW F2,
           r.count = 0 => L2 = Tail(L) /\ F2 = Append(F, Head(L)),
           r.count # 0 => L2 = L /\ F2 = F
    PROVE  /\ SideGood(s, Q, L2, F2, n)
           /\ SideOrders(s, Q, L2) = AfterFill(SideOrders(s, P, L), m, q)
<1>1. /\ 1 \in 1..Len(L) /\ LevelOK(s, l, n) /\ l.count >= 1
      /\ m \in SideOrders(s, P, L) /\ m \in LevelOrders(s, l)
  BY FrontIsBest
<1>2. LevelOrders(s, l) \subseteq SideOrders(s, P, L)
  BY <1>1 DEF SideOrders
<1>3. l \in LevelRecord /\ l.count \in Nat /\ 1 \in 1..l.count
  BY <1>1 DEF LevelOK, LevelRecord
<1>4. m.qty = Queue(l)[1].qty /\ m \in BookOrder
  BY <1>3, OrderFields
<1>5. m.qty \in Nat
  BY <1>4 DEF BookOrder
<1>6. CASE q # m.qty
  <2>1. q < Queue(l)[1].qty
    BY <1>4, <1>5, <1>6
  <2>2. /\ LevelOK(s, r, n) /\ r.price = l.price /\ r.count = l.count
        /\ LevelOrders(s, r) = (LevelOrders(s, l) \ {m}) \cup {Reduced(m, q)}
    BY <1>1, <2>1, FillPartEffect
  <2>3. r.count >= 1 /\ r.count # 0 /\ L2 = L /\ F2 = F
    BY <1>1, <1>3, <2>2
  <2>4. n <= n
    OBVIOUS
  <2>5. /\ SideGood(s, Q, L, F, n)
        /\ SideOrders(s, Q, L) = (SideOrders(s, P, L) \ LevelOrders(s, P[L[1]])) \cup LevelOrders(s, r)
    BY <1>1, <2>2, <2>3, <2>4, ReplaceLevel
  <2>6. SideOrders(s, Q, L) = (SideOrders(s, P, L) \ {m}) \cup {Reduced(m, q)}
    BY <1>1, <1>2, <2>2, <2>5
  <2> QED BY <1>6, <2>3, <2>5, <2>6 DEF AfterFill
<1>7. CASE q = m.qty
  <2>1. /\ LevelOK(s, r, n) /\ r.price = l.price /\ r.count = l.count - 1
        /\ LevelOrders(s, r) = LevelOrders(s, l) \ {m}
    <3>1. r = FillFront(l, Queue(l)[1].qty)
      BY <1>4, <1>7
    <3> QED BY <1>1, <3>1, FillAllEffect
  <2>2. CASE r.count # 0
    <3>1. r.count >= 1 /\ L2 = L /\ F2 = F
      BY <1>1, <1>3, <2>1, <2>2
    <3>2. n <= n
      OBVIOUS
    <3>3. /\ SideGood(s, Q, L, F, n)
          /\ SideOrders(s, Q, L) = (SideOrders(s, P, L) \ LevelOrders(s, P[L[1]])) \cup LevelOrders(s, r)
      BY <1>1, <2>1, <3>1, <3>2, ReplaceLevel
    <3>4. SideOrders(s, Q, L) = SideOrders(s, P, L) \ {m}
      BY <1>1, <1>2, <2>1, <3>3
    <3> QED BY <1>7, <3>1, <3>3, <3>4 DEF AfterFill
  <2>3. CASE r.count = 0
    <3>1. LevelOrders(s, r) = {}
      BY <2>3 DEF LevelOrders
    <3>2. LevelOrders(s, l) = {m}
      BY <1>1, <2>1, <3>1
    <3>3. r \in LevelRecord
      BY <2>1 DEF LevelOK
    <3>4. /\ SideGood(s, Q, Tail(L), Append(F, Head(L)), n)
          /\ SideOrders(s, Q, Tail(L)) = SideOrders(s, P, L) \ LevelOrders(s, P[L[1]])
      BY <3>3, RemoveBestLevel
    <3> QED BY <1>7, <2>3, <3>2, <3>4 DEF AfterFill
  <2> QED BY <2>2, <2>3
<1> QED BY <1>6, <1>7

\* A side remains good when later orders exist.
LEMMA SideLater ==
    ASSUME NEW s \in Sides, NEW P, NEW L, NEW F, NEW n \in Nat, SideGood(s, P, L, F, n), NEW m \in Nat, n <= m
    PROVE  SideGood(s, P, L, F, m)
BY LevelLater DEF SideGood, AllGood

\* An order is placed at the level of its price, unless that is full.
LEMMA PlaceAtLevel ==
    ASSUME NEW s \in Sides, NEW P, NEW L, NEW F, NEW n \in Nat, SideGood(s, P, L, F, n),
           NEW t \in BookOrder, t.side = s, t.qty > 0, n < t.id,
           NEW a \in 1..Len(L), P[L[a]].price = t.price,
           NEW Q, Q = WithLevel(P, L[a], PushBack(P[L[a]], t.id, t.qty))
    PROVE  /\ SideGood(s, Q, L, F, t.id)
           /\ P[L[a]].count = MaxOrdersPerLevel => SideOrders(s, Q, L) = SideOrders(s, P, L)
           /\ P[L[a]].count # MaxOrdersPerLevel => SideOrders(s, Q, L) = SideOrders(s, P, L) \cup {t}
<1> DEFINE l == P[L[a]]
           r == PushBack(l, t.id, t.qty)
<1>1. l \in LevelRecord /\ L[a] \in PoolSlots
  BY SideMembers
<1>2. LevelOK(s, l, n) /\ l.count >= 1
  BY DEF SideGood, AllGood
<1>3. LevelOrders(s, l) \subseteq SideOrders(s, P, L)
  BY DEF SideOrders
<1>4. t.id \in Nat /\ t.qty \in Nat /\ n <= t.id
  BY DEF BookOrder
<1>5. t = [id |-> t.id, side |-> s, price |-> t.price, qty |-> t.qty]
  BY DEF BookOrder
<1>6. CASE l.count = MaxOrdersPerLevel
  <2>1. r = l
    BY <1>6 DEF PushBack
  <2>2. Q = P
    BY <1>1, <2>1 DEF WithLevel, SideGood
  <2> QED BY <1>4, <1>6, <2>2, SideLater
<1>7. CASE l.count # MaxOrdersPerLevel
  <2> HIDE DEF l
  <2>1. l.count < MaxOrdersPerLevel /\ l.count \in Nat
    BY <1>1, <1>7, BookAssumption DEF LevelRecord
  <2>2. t = [id |-> t.id, side |-> s, price |-> l.price, qty |-> t.qty]
    BY <1>5 DEF l
  <2>3. LevelOK(s, r, t.id) /\ r.price = l.price /\ r.count = l.count + 1 /\ LevelOrders(s, r) = LevelOrders(s, l) \cup {t}
    BY <1>2, <1>4, <2>1, <2>2, PushBackEffect
  <2>4. r.count >= 1
    BY <2>1, <2>3
  <2> HIDE DEF r
  <2>5. r.price = P[L[a]].price /\ Q = WithLevel(P, L[a], r)
    BY <2>3 DEF l, r
  <2>6. /\ SideGood(s, Q, L, F, t.id)
        /\ SideOrders(s, Q, L) = (SideOrders(s, P, L) \ LevelOrders(s, P[L[a]])) \cup LevelOrders(s, r)
    BY <1>4, <2>3, <2>4, <2>5, ReplaceLevel
  <2>7. SideOrders(s, Q, L) = SideOrders(s, P, L) \cup {t}
    BY <1>3, <2>3, <2>6 DEF l
  <2> QED BY <1>7, <2>6, <2>7 DEF l
<1> QED BY <1>6, <1>7

\* An order of a new price gets a level of its own.
LEMMA PlaceAtNewLevel ==
    ASSUME NEW s \in Sides, NEW P, NEW L, NEW F, NEW n \in Nat, SideGood(s, P, L, F, n), Len(L) < MaxBookLevels,
           NEW t \in BookOrder, t.side = s, t.qty > 0, t.price > 0, n < t.id,
           NEW a \in 1..(Len(L) + 1),
           Divides(s, P, L, t.price, a),
           NEW b, b = FreshLevel(P[Last(F)], t.price),
           NEW Q, Q = WithLevel(P, Last(F), PushBack(b, t.id, t.qty))
    PROVE  /\ SideGood(s, Q, InsertAt(L, a, Last(F)), Front(F), t.id)
           /\ SideOrders(s, Q, InsertAt(L, a, Last(F))) = SideOrders(s, P, L) \cup {t}
<1>1. t.id \in Nat /\ t.qty \in Nat /\ t.price \in Nat /\ n <= t.id
  BY DEF BookOrder
<1>2. Last(F) \in PoolSlots
  BY AcquireLast DEF SideGood
<1>3. P[Last(F)] \in LevelRecord
  BY <1>2 DEF SideGood
<1>4. LevelOK(s, b, n) /\ b.price = t.price /\ b.count = 0 /\ LevelOrders(s, b) = {}
  BY <1>1, <1>3, ResetEffect
<1>5. b.count < MaxOrdersPerLevel
  BY <1>4, BookAssumption
<1>6. t = [id |-> t.id, side |-> s, price |-> b.price, qty |-> t.qty]
  BY <1>4 DEF BookOrder
<1> DEFINE r == PushBack(b, t.id, t.qty)
<1>7. LevelOK(s, r, t.id) /\ r.price = b.price /\ r.count = b.count + 1 /\ LevelOrders(s, r) = LevelOrders(s, b) \cup {t}
  BY <1>1, <1>4, <1>5, <1>6, PushBackEffect
<1> HIDE DEF r
<1>8. r.price = t.price /\ r.count >= 1 /\ LevelOrders(s, r) = {t} /\ Q = WithLevel(P, Last(F), r)
  BY <1>4, <1>7 DEF r
<1>9. /\ SideGood(s, Q, InsertAt(L, a, Last(F)), Front(F), t.id)
      /\ SideOrders(s, Q, InsertAt(L, a, Last(F))) = SideOrders(s, P, L) \cup LevelOrders(s, r)
  BY <1>1, <1>7, <1>8, InsertLevel
<1> QED BY <1>8, <1>9

----------------------------------------------------------------------------
(* The book.                                                               *)

\* Orders with numbers up to Placed may rest.
Placed == IF taker = NoOrder THEN last ELSE last - 1

SideOK(s) == SideGood(s, pool[s], levels[s], free[s], Placed)

\* The inductive invariant.
BookInv ==
    /\ pool \in [Sides -> [PoolSlots -> LevelRecord]]
    /\ levels \in [Sides -> Seq(PoolSlots)] /\ free \in [Sides -> Seq(PoolSlots)]
    /\ last \in Nat
    /\ taker # NoOrder => taker \in BookOrder /\ taker.id = last /\ last >= 1 /\ taker.price > 0
    /\ \A s \in Sides : SideOK(s)

\* The orders of the book are those of its two sides.
LEMMA RestingSides ==
    ASSUME NEW o PROVE o \in Resting <=> \E s \in Sides : o \in SideOrders(s, pool[s], levels[s])
BY DEF Resting, SideOrders, Level

\* What every resting order is.
LEMMA RestingOrders ==
    ASSUME BookInv
    PROVE  /\ Placed \in Nat /\ Placed <= last /\ (taker # NoOrder => Placed < taker.id)
           /\ \A o \in Resting : /\ o \in BookOrder /\ o.price > 0 /\ o.qty > 0 /\ o.id <= Placed
                                 /\ o.side \in Sides /\ o \in SideOrders(o.side, pool[o.side], levels[o.side])
           /\ \A s \in Sides : SideOrders(s, pool[s], levels[s]) \subseteq Resting
           /\ \A s \in Sides : \A o \in SideOrders(s, pool[s], levels[s]) : o.side = s
<1>1. Placed \in Nat /\ Placed <= last /\ (taker # NoOrder => Placed < taker.id)
  BY DEF BookInv, Placed
<1>2. ASSUME NEW s \in Sides, NEW o \in SideOrders(s, pool[s], levels[s])
      PROVE  o \in BookOrder /\ o.side = s /\ o.price > 0 /\ o.qty > 0 /\ o.id <= Placed
  <2>1. PICK k \in 1..Len(levels[s]) : o \in LevelOrders(s, pool[s][levels[s][k]])
    BY DEF SideOrders
  <2>2. SideGood(s, pool[s], levels[s], free[s], Placed)
    BY DEF BookInv, SideOK
  <2> QED BY <2>1, <2>2, SideMembers
<1>3. ASSUME NEW o \in Resting
      PROVE  /\ o \in BookOrder /\ o.price > 0 /\ o.qty > 0 /\ o.id <= Placed
             /\ o.side \in Sides /\ o \in SideOrders(o.side, pool[o.side], levels[o.side])
  <2>1. PICK s \in Sides : o \in SideOrders(s, pool[s], levels[s])
    BY RestingSides
  <2> QED BY <1>2, <2>1
<1>4. \A s \in Sides : SideOrders(s, pool[s], levels[s]) \subseteq Resting
  BY RestingSides
<1> QED BY <1>1, <1>2, <1>3, <1>4

\* NoOrder stands for none of the orders.
LEMMA NoOrderIsNone == NoOrder \notin BookOrder
BY BookAssumption DEF BookOrder, Sides

\* The book starts empty, with all levels on the free list.
LEMMA InitBook == Init => BookInv /\ Resting = {}
<1> SUFFICES ASSUME Init PROVE BookInv /\ Resting = {}
  OBVIOUS
<1>1. MaxBookLevels \in Nat /\ MaxBookLevels >= 1 /\ MaxOrdersPerLevel \in Nat /\ MaxOrdersPerLevel >= 1
  BY BookAssumption
<1>2. EmptyLevel \in LevelRecord
  <2> DEFINE f == [i \in Ring |-> [id |-> 0, qty |-> 0]]
  <2>1. f \in [Ring -> Entry] /\ 0 \in Ring /\ 0 \in 0..MaxOrdersPerLevel
    BY <1>1 DEF Entry, Ring
  <2> HIDE DEF f
  <2>2. [price |-> 0, orders |-> f, head |-> 0, count |-> 0, total |-> 0] \in LevelRecord
    BY <2>1 DEF LevelRecord
  <2> QED BY <2>2 DEF EmptyLevel, f
<1>3. pool \in [Sides -> [PoolSlots -> LevelRecord]]
  BY <1>2 DEF Init
<1> DEFINE all == [k \in PoolSlots |-> k]
<1>4. all \in Seq(PoolSlots) /\ Len(all) = MaxBookLevels /\ \A k \in 1..MaxBookLevels : all[k] = k
  BY <1>1 DEF PoolSlots
<1> HIDE DEF all
<1>5. levels = [s \in Sides |-> <<>>] /\ free = [s \in Sides |-> all] /\ taker = NoOrder /\ last = 0
  BY DEF Init, all
<1>6. levels \in [Sides -> Seq(PoolSlots)] /\ free \in [Sides -> Seq(PoolSlots)]
  BY <1>4, <1>5
<1>7. ASSUME NEW s \in Sides PROVE SideOK(s)
  <2>1. levels[s] = <<>> /\ free[s] = all /\ pool[s] \in [PoolSlots -> LevelRecord] /\ Len(levels[s]) = 0 /\ 1..0 = {}
    BY <1>3, <1>5
  <2>2. Partition(<<>>, all)
    BY <1>1, <1>4 DEF Partition, PoolSlots
  <2> QED BY <2>1, <2>2 DEF SideOK, SideGood, InOrder, AllGood
<1>8. \A s \in Sides : SideOrders(s, pool[s], levels[s]) = {}
  BY <1>5 DEF SideOrders
<1>9. Resting = {}
  BY <1>8, RestingSides
<1> QED BY <1>3, <1>5, <1>6, <1>7, <1>9 DEF BookInv

\* Steps that leave the levels alone leave the orders alone.
LEMMA SameBook ==
    ASSUME UNCHANGED <<pool, levels>> PROVE Resting' = Resting
BY DEF Resting, Level

\* A new order touches no level.
LEMMA SubmitKeepsBook ==
    ASSUME BookInv, Submit PROVE BookInv' /\ Resting' = Resting /\ before' = Resting /\ last' = last + 1
<1>1. PICK s \in Sides, p \in Prices, q \in Quantities : taker' = [id |-> last + 1, side |-> s, price |-> p, qty |-> q]
  BY DEF Submit
<1>2. p \in Nat /\ p > 0 /\ q \in Nat /\ last \in Nat
  BY BookAssumption DEF BookInv
<1>3. taker' \in BookOrder /\ taker'.id = last + 1 /\ taker'.price > 0
  BY <1>1, <1>2 DEF BookOrder
<1>4. taker' # NoOrder /\ taker = NoOrder /\ last' = last + 1 /\ UNCHANGED <<pool, levels, free>> /\ before' = Resting
  BY <1>3, NoOrderIsNone DEF Submit
<1>5. Placed' = Placed
  BY <1>2, <1>4 DEF Placed
<1>6. \A s1 \in Sides : SideOK(s1)'
  BY <1>4, <1>5 DEF BookInv, SideOK
<1>7. BookInv'
  BY <1>2, <1>3, <1>4, <1>6, SMTT(30) DEF BookInv
<1> QED BY <1>4, <1>7, SameBook

\* The order a fill is made with, and its quantity.
Best == OrderIn(Opposite(taker.side), pool[Opposite(taker.side)][levels[Opposite(taker.side)][1]], 1)
Traded == IF taker.qty < Best.qty THEN taker.qty ELSE Best.qty

\* What Matches says of them.
LEMMA BestOrder ==
    ASSUME BookInv, Matches
    PROVE  LET o == Opposite(taker.side)
               l == pool[o][levels[o][1]]
           IN  /\ taker \in BookOrder /\ o \in Sides /\ levels[o] # <<>> /\ taker.qty > 0 /\ taker.qty \in Nat
               /\ Head(levels[o]) = levels[o][1] /\ levels[o][1] \in PoolSlots
               /\ Best \in SideOrders(o, pool[o], levels[o]) /\ Best \in Resting /\ Best \in BookOrder
               /\ Best.side = o /\ Best.price = l.price /\ ~LimitReached(Best.price)
               /\ l.orders[l.head].qty = Best.qty /\ l.orders[l.head].id = Best.id
               /\ Traded \in Nat /\ Traded > 0 /\ Traded <= Best.qty /\ Traded <= taker.qty /\ Best.qty \in Nat
               /\ \A n \in Resting : n.side = o => n = Best \/ Precedes(o, Best, n)
<1> DEFINE o == Opposite(taker.side)
           P == pool[o]
           L == levels[o]
           l == P[L[1]]
<1>1. taker \in BookOrder /\ taker.qty > 0 /\ taker.qty \in Nat /\ L # <<>> /\ ~LimitReached(P[Head(L)].price)
  BY DEF Matches, BookInv, BookOrder
<1>2. o \in Sides
  BY <1>1 DEF BookOrder, Sides, Opposite
<1> DEFINE F == free[o]
<1>3. SideGood(o, P, L, F, Placed)
  BY <1>2 DEF BookInv, SideOK
<1>4. Best = OrderIn(o, l, 1)
  BY DEF Best
<1> HIDE DEF o, P, L, F
<1>5. /\ Head(L) = L[1] /\ L[1] \in PoolSlots /\ LevelOK(o, l, Placed) /\ l.count >= 1
      /\ Best \in SideOrders(o, P, L) /\ Best \in LevelOrders(o, l)
  BY <1>1, <1>2, <1>3, <1>4, FrontIsBest
<1>6. \A n \in SideOrders(o, P, L) : n = Best \/ Precedes(o, Best, n)
  BY <1>1, <1>2, <1>3, <1>4, FrontIsBest
<1>7. Best \in BookOrder /\ Best.side = o /\ Best.price = l.price /\ Best.qty > 0
  BY <1>2, <1>5, LevelMembers
<1>8. l.orders[l.head] = Queue(l)[1] /\ Best.qty = Queue(l)[1].qty /\ Best.id = Queue(l)[1].id
  <2> HIDE DEF l
  <2>1. l \in LevelRecord /\ 1 \in 1..l.count /\ 1 <= l.count /\ l.head \in 0..(MaxOrdersPerLevel - 1) /\ MaxOrdersPerLevel \in Nat
    BY <1>5, BookAssumption DEF LevelOK, LevelRecord, Ring
  <2>2. 1 \in 1..MaxOrdersPerLevel /\ l.head + 1 - 1 = l.head /\ l.head < MaxOrdersPerLevel
    BY <2>1
  <2>3. Slot(l, 1) = l.head /\ Queue(l)[1] = l.orders[Slot(l, 1)]
    BY <2>1, <2>2, QueueEntry
  <2>4. Best.qty = Queue(l)[1].qty /\ Best.id = Queue(l)[1].id
    BY <1>2, <1>4, <2>1, OrderFields
  <2> QED BY <2>3, <2>4
<1>9. Best.qty \in Nat
  BY <1>7 DEF BookOrder
<1>10. Traded \in Nat /\ Traded > 0 /\ Traded <= Best.qty /\ Traded <= taker.qty
  BY <1>1, <1>7, <1>9 DEF Traded
<1>11. Best \in Resting /\ \A n \in Resting : n.side = o => n \in SideOrders(o, P, L)
  BY <1>2, <1>5, RestingOrders DEF o, P, L
<1> QED BY <1>1, <1>2, <1>5, <1>6, <1>7, <1>8, <1>9, <1>10, <1>11, ZenonT(30) DEF o, P, L

\* What a fill leaves of an order.
LEMMA ReducedFields ==
    ASSUME NEW o \in BookOrder, NEW q \in Nat, q <= o.qty
    PROVE  /\ Reduced(o, q) \in BookOrder /\ Reduced(o, q).id = o.id /\ Reduced(o, q).side = o.side
           /\ Reduced(o, q).price = o.price /\ Reduced(o, q).qty = o.qty - q
<1>1. o.id \in Nat /\ o.side \in Sides /\ o.price \in Nat /\ o.qty \in Nat /\ o.qty - q \in Nat
  BY DEF BookOrder
<1>2. Reduced(o, q) = [id |-> o.id, side |-> o.side, price |-> o.price, qty |-> o.qty - q]
  BY SMTT(30) DEF BookOrder, Reduced
<1> QED BY <1>1, <1>2 DEF BookOrder

\* One iteration of the matching loop.
LEMMA MatchEffect ==
    ASSUME BookInv, MatchOne
    PROVE  /\ BookInv' /\ taker' = Reduced(taker, Traded) /\ taker' # NoOrder /\ UNCHANGED <<last, before>>
           /\ Resting' = AfterFill(Resting, Best, Traded)
           /\ Len(out_trades) < MaxTrades =>
                 /\ trade_counter' = trade_counter + 1
                 /\ out_trades' = Append(out_trades, [trade_id |-> trade_counter + 1, passive |-> Best.id,
                                                     match_price |-> Best.price, match_qty |-> Traded])
           /\ ~(Len(out_trades) < MaxTrades) => UNCHANGED <<out_trades, trade_counter>>
<1> DEFINE o == Opposite(taker.side)
           P == pool[o]
           L == levels[o]
           F == free[o]
           l == P[L[1]]
           r == FillFront(l, Traded)
<1>1. Matches
  BY ZenonT(30) DEF MatchOne
<1>2. /\ taker \in BookOrder /\ o \in Sides /\ L # <<>>
      /\ Head(L) = L[1] /\ L[1] \in PoolSlots
      /\ Best.side = o /\ Best.price = l.price /\ Best \in BookOrder
      /\ l.orders[l.head].qty = Best.qty /\ l.orders[l.head].id = Best.id
      /\ Traded \in Nat /\ Traded <= Best.qty /\ Traded <= taker.qty
  BY <1>1, BestOrder, ZenonT(30)
<1>3. /\ taker' = Reduced(taker, Traded)
      /\ pool' = [pool EXCEPT ![o][L[1]] = r]
      /\ Report(l.orders[l.head], Best.price, Traded)
      /\ r.count = 0 => levels' = [levels EXCEPT ![o] = Tail(@)] /\ free' = [free EXCEPT ![o] = Append(@, Head(L))]
      /\ r.count # 0 => UNCHANGED <<levels, free>>
      /\ UNCHANGED <<last, before>>
  <2>1. Traded = IF taker.qty < l.orders[l.head].qty THEN taker.qty ELSE l.orders[l.head].qty
    BY <1>2 DEF Traded
  <2> QED BY <1>2, <2>1, ZenonT(30) DEF MatchOne, Reduced
<1> HIDE DEF r
<1>4. /\ pool \in [Sides -> [PoolSlots -> LevelRecord]] /\ levels \in [Sides -> Seq(PoolSlots)]
      /\ free \in [Sides -> Seq(PoolSlots)] /\ last \in Nat
  BY SMTT(30) DEF BookInv
<1>5. /\ pool'[o] = WithLevel(P, L[1], r)
      /\ \A s \in Sides : s # o => pool'[s] = pool[s]
  BY <1>2, <1>3, <1>4, ZenonT(30) DEF WithLevel
<1>6. /\ r.count = 0 => levels'[o] = Tail(L) /\ free'[o] = Append(F, Head(L))
      /\ r.count # 0 => levels'[o] = L /\ free'[o] = F
      /\ \A s \in Sides : s # o => levels'[s] = levels[s] /\ free'[s] = free[s]
  BY <1>2, <1>3, <1>4, ZenonT(30)
<1>7. DOMAIN pool' = Sides /\ DOMAIN levels' = Sides /\ DOMAIN free' = Sides /\
      pool' = [s \in Sides |-> pool'[s]] /\ levels' = [s \in Sides |-> levels'[s]] /\ free' = [s \in Sides |-> free'[s]]
  BY <1>3, <1>4, ZenonT(30)
<1>8. taker' \in BookOrder /\ taker' # NoOrder /\ taker # NoOrder /\ taker'.id = taker.id /\ taker'.price = taker.price
  <2>1. Reduced(taker, Traded) \in BookOrder /\ Reduced(taker, Traded).id = taker.id /\ Reduced(taker, Traded).price = taker.price
    <3>1. taker \in BookOrder /\ Traded \in Nat /\ Traded <= taker.qty
      BY <1>2, ZenonT(30)
    <3> QED BY ONLY <3>1, ReducedFields, SMTT(30)
  <2>2. taker # NoOrder /\ Reduced(taker, Traded) # NoOrder
    BY <1>2, <2>1, NoOrderIsNone, ZenonT(30)
  <2> QED BY <1>3, <2>1, <2>2
<1>9. Placed' = Placed /\ Placed \in Nat
  BY <1>3, <1>8, RestingOrders, SMTT(30) DEF Placed
<1>10. SideGood(o, P, L, F, Placed)
  BY <1>2 DEF BookInv, SideOK
<1>11. /\ SideGood(o, pool'[o], levels'[o], free'[o], Placed)
       /\ SideOrders(o, pool'[o], levels'[o]) = AfterFill(SideOrders(o, P, L), Best, Traded)
  <2>1. Best = OrderIn(o, l, 1)
    BY DEF Best
  <2> DEFINE n == Placed
             q == Traded
             m == Best
             Q == pool'[o]
             L2 == levels'[o]
             F2 == free'[o]
  <2>2. /\ o \in Sides /\ n \in Nat /\ SideGood(o, P, L, F, n) /\ L # <<>>
        /\ m = OrderIn(o, l, 1) /\ q \in Nat /\ q <= m.qty
        /\ r = FillFront(l, q) /\ Q = WithLevel(P, L[1], r)
        /\ r.count = 0 => L2 = Tail(L) /\ F2 = Append(F, Head(L))
        /\ r.count # 0 => L2 = L /\ F2 = F
    BY <1>2, <1>5, <1>6, <1>9, <1>10, <2>1, ZenonT(30) DEF r
  <2>3. l = P[L[1]]
    OBVIOUS
  <2> HIDE DEF o, P, L, F, l, n, q, m, Q, L2, F2
  <2>4. SideGood(o, Q, L2, F2, n)
    BY ONLY <2>2, <2>3, FillSide
  <2>5. SideOrders(o, Q, L2) = AfterFill(SideOrders(o, P, L), m, q)
    BY ONLY <2>2, <2>3, FillSide
  <2> QED BY <2>4, <2>5, SMTT(30) DEF n, q, m, Q, L2, F2
<1>12. ASSUME NEW s \in Sides PROVE SideOK(s)'
  <2>1. CASE s = o
    BY <1>9, <1>11, <2>1 DEF SideOK
  <2>2. CASE s # o
    BY <1>5, <1>6, <1>9, <2>2 DEF SideOK, BookInv
  <2> QED BY <2>1, <2>2
<1>13. ASSUME NEW s \in Sides
       PROVE  pool'[s] \in [PoolSlots -> LevelRecord] /\ levels'[s] \in Seq(PoolSlots) /\ free'[s] \in Seq(PoolSlots)
  BY <1>12 DEF SideOK, SideGood, Partition
<1>14. pool' \in [Sides -> [PoolSlots -> LevelRecord]] /\ levels' \in [Sides -> Seq(PoolSlots)] /\ free' \in [Sides -> Seq(PoolSlots)]
  BY <1>7, <1>13
<1>15. BookInv'
  BY <1>3, <1>4, <1>8, <1>12, <1>14 DEF BookInv
<1>16. \A x : x \in Resting' <=> \E s \in Sides : x \in SideOrders(s, pool'[s], levels'[s])
  BY DEF Resting, SideOrders, Level
<1>17. \A s \in Sides : s # o => SideOrders(s, pool'[s], levels'[s]) = SideOrders(s, pool[s], levels[s])
  BY <1>5, <1>6, SMTT(30)
<1>18. \A s \in Sides : s # o => Best \notin SideOrders(s, pool[s], levels[s])
  BY <1>2, RestingOrders, ZenonT(30)
<1>19. Resting' = AfterFill(Resting, Best, Traded)
  <2>1. CASE Traded = Best.qty
    <3>1. SideOrders(o, pool'[o], levels'[o]) = SideOrders(o, P, L) \ {Best}
      BY <1>11, <2>1, SMTT(30) DEF AfterFill
    <3>2. Resting' = Resting \ {Best}
      BY <1>2, <1>16, <1>17, <1>18, <3>1, RestingSides, ZenonT(30)
    <3> QED BY <2>1, <3>2 DEF AfterFill
  <2>2. CASE Traded # Best.qty
    <3>1. SideOrders(o, pool'[o], levels'[o]) = (SideOrders(o, P, L) \ {Best}) \cup {Reduced(Best, Traded)}
      BY <1>11, <2>2 DEF AfterFill
    <3>2. Resting' = (Resting \ {Best}) \cup {Reduced(Best, Traded)}
      BY <1>2, <1>16, <1>17, <1>18, <3>1, RestingSides, ZenonT(30)
    <3> QED BY <2>2, <3>2 DEF AfterFill
  <2> QED BY <2>1, <2>2
<1>20. /\ Len(out_trades) < MaxTrades =>
             /\ trade_counter' = trade_counter + 1
             /\ out_trades' = Append(out_trades, [trade_id |-> trade_counter + 1, passive |-> Best.id,
                                                 match_price |-> Best.price, match_qty |-> Traded])
       /\ ~(Len(out_trades) < MaxTrades) => UNCHANGED <<out_trades, trade_counter>>
  BY <1>2, <1>3, ZenonT(30) DEF Report
<1> QED BY <1>3, <1>8, <1>15, <1>19, <1>20, SMTT(30)

\* What add_to_book does to the side of the order, in its two cases.
LEMMA AddToBookEffect ==
    ASSUME BookInv, NEW t \in BookOrder, t.price > 0, t.qty > 0, Placed < t.id,
           Len(levels[t.side]) < MaxBookLevels, AddToBook(t)
    PROVE  LET s == t.side
           IN  /\ s \in Sides /\ SideGood(s, pool'[s], levels'[s], free'[s], t.id)
               /\ \A x \in Sides : x # s => pool'[x] = pool[x] /\ levels'[x] = levels[x] /\ free'[x] = free[x]
               /\ pool' = [x \in Sides |-> pool'[x]] /\ levels' = [x \in Sides |-> levels'[x]]
               /\ free' = [x \in Sides |-> free'[x]]
               /\ \/ SideOrders(s, pool'[s], levels'[s]) = SideOrders(s, pool[s], levels[s]) \cup {t}
                  \/ /\ SideOrders(s, pool'[s], levels'[s]) = SideOrders(s, pool[s], levels[s])
                     /\ \E k \in 1..Len(levels[s]) : Level(s, k).price = t.price /\ Level(s, k).count = MaxOrdersPerLevel
<1> DEFINE s == t.side
           P == pool[s]
           L == levels[s]
           F == free[s]
           n == Placed
           hit == SearchLevel(s, t.price)
<1>1. s \in Sides /\ t.price \in Nat /\ n \in Nat
  BY RestingOrders DEF BookOrder
<1>2. /\ pool \in [Sides -> [PoolSlots -> LevelRecord]] /\ levels \in [Sides -> Seq(PoolSlots)]
      /\ free \in [Sides -> Seq(PoolSlots)]
  BY DEF BookInv
<1>3. SideGood(s, P, L, F, n)
  BY <1>1 DEF BookInv, SideOK
<1>4. SideSorted(s)
  <2>1. L \in Seq(PoolSlots) /\ \A k \in 1..Len(L) : P[L[k]] \in LevelRecord
    BY <1>1, <1>3, SideMembers
  <2>2. \A k \in 1..Len(L) : P[L[k]].price \in Nat
    BY <2>1 DEF LevelRecord
  <2> QED BY <1>3, <2>1, <2>2 DEF SideSorted, Level, SideGood, InOrder
<1>5. \/ \E a \in 1..Len(L) : Level(s, a).price = t.price /\ hit = [found |-> TRUE, at |-> a]
      \/ \E a \in 1..(Len(L) + 1) :
            /\ hit = [found |-> FALSE, at |-> a]
            /\ \A k \in 1..Len(L) : Level(s, k).price # t.price /\ (k < a <=> Better(s, Level(s, k).price, t.price))
  BY <1>1, <1>4, SearchLevelRight
<1>6. CASE \E a \in 1..Len(L) : Level(s, a).price = t.price /\ hit = [found |-> TRUE, at |-> a]
  <2>1. PICK a \in 1..Len(L) : Level(s, a).price = t.price /\ hit = [found |-> TRUE, at |-> a]
    BY <1>6
  <2> DEFINE r == PushBack(P[L[a]], t.id, t.qty)
  <2>2. hit.found = TRUE /\ hit.at = a
    BY <2>1
  <2> HIDE DEF hit
  <2>3. pool' = [pool EXCEPT ![s][L[a]] = r] /\ UNCHANGED <<levels, free>>
    BY <2>2 DEF AddToBook, hit
  <2>4. L[a] \in PoolSlots
    BY <1>1, <1>3, SideMembers
  <2> HIDE DEF r
  <2>5. /\ pool'[s] = WithLevel(P, L[a], r)
        /\ \A x \in Sides : x # s => pool'[x] = pool[x]
        /\ pool' = [x \in Sides |-> pool'[x]]
    BY <1>1, <1>2, <2>3, <2>4 DEF WithLevel
  <2>6. /\ levels'[s] = L /\ free'[s] = F /\ \A x \in Sides : levels'[x] = levels[x] /\ free'[x] = free[x]
        /\ levels' = [x \in Sides |-> levels'[x]] /\ free' = [x \in Sides |-> free'[x]]
    BY <1>1, <1>2, <2>3
  <2> DEFINE Q == pool'[s]
  <2>7. P[L[a]].price = t.price /\ Q = WithLevel(P, L[a], PushBack(P[L[a]], t.id, t.qty))
    BY <2>1, <2>5 DEF Level, r
  <2> HIDE DEF s, P, L, F, n, Q
  <2>8. t.side = s /\ n < t.id
    BY DEF s, n
  <2>9. /\ SideGood(s, Q, L, F, t.id)
        /\ P[L[a]].count = MaxOrdersPerLevel => SideOrders(s, Q, L) = SideOrders(s, P, L)
        /\ P[L[a]].count # MaxOrdersPerLevel => SideOrders(s, Q, L) = SideOrders(s, P, L) \cup {t}
    BY <1>1, <1>3, <2>7, <2>8, PlaceAtLevel, SMTT(30)
  <2>10. \/ SideOrders(s, Q, L) = SideOrders(s, P, L) \cup {t}
         \/ SideOrders(s, Q, L) = SideOrders(s, P, L) /\ P[L[a]].count = MaxOrdersPerLevel
    BY <2>9
  <2>11. a \in 1..Len(L) /\ Level(s, a).price = t.price /\ Level(s, a).count = P[L[a]].count
    BY <2>1 DEF Level, P, L
  <2>12. \/ SideOrders(s, Q, L) = SideOrders(s, P, L) \cup {t}
         \/ /\ SideOrders(s, Q, L) = SideOrders(s, P, L)
            /\ \E k \in 1..Len(L) : Level(s, k).price = t.price /\ Level(s, k).count = MaxOrdersPerLevel
    BY <2>10, <2>11
  <2> QED BY <1>1, <2>5, <2>6, <2>9, <2>12 DEF s, P, L, F, Q
<1>7. CASE \E a \in 1..(Len(L) + 1) :
            /\ hit = [found |-> FALSE, at |-> a]
            /\ \A k \in 1..Len(L) : Level(s, k).price # t.price /\ (k < a <=> Better(s, Level(s, k).price, t.price))
  <2>1. PICK a \in 1..(Len(L) + 1) :
            /\ hit = [found |-> FALSE, at |-> a]
            /\ \A k \in 1..Len(L) : Level(s, k).price # t.price /\ (k < a <=> Better(s, Level(s, k).price, t.price))
    BY <1>7
  <2> DEFINE e == Last(F)
             b == FreshLevel(P[e], t.price)
             r == PushBack(b, t.id, t.qty)
  <2>2. hit.found = FALSE /\ hit.at = a
    BY <2>1
  <2> HIDE DEF hit
  <2>3. pool' = [pool EXCEPT ![s][e] = r]
    BY <2>2 DEF AddToBook, hit, FreshLevel
  <2>4. levels' = [levels EXCEPT ![s] = InsertAt(@, a, e)] /\ free' = [free EXCEPT ![s] = Front(@)]
    BY <2>2 DEF AddToBook, hit
  <2>5. e \in PoolSlots
    BY <1>3, <2>1, AcquireLast DEF SideGood
  <2> HIDE DEF r, e
  <2>6. /\ pool'[s] = WithLevel(P, e, r)
        /\ \A x \in Sides : x # s => pool'[x] = pool[x]
        /\ pool' = [x \in Sides |-> pool'[x]]
    BY <1>1, <1>2, <2>3, <2>5 DEF WithLevel
  <2>7. /\ levels'[s] = InsertAt(L, a, e) /\ free'[s] = Front(F)
        /\ \A x \in Sides : x # s => levels'[x] = levels[x] /\ free'[x] = free[x]
        /\ levels' = [x \in Sides |-> levels'[x]] /\ free' = [x \in Sides |-> free'[x]]
    BY <1>1, <1>2, <2>4
  <2> DEFINE Q == pool'[s]
  <2>8. Divides(s, P, L, t.price, a)
    BY <2>1 DEF Divides, Level
  <2> HIDE DEF s, P, L, F, n, b, Q
  <2>9. /\ t.side = s /\ n < t.id /\ Len(L) < MaxBookLevels
        /\ b = FreshLevel(P[Last(F)], t.price) /\ Q = WithLevel(P, Last(F), PushBack(b, t.id, t.qty))
    BY <2>6 DEF s, n, L, b, r, e, Q
  <2>10. /\ SideGood(s, Q, InsertAt(L, a, e), Front(F), t.id)
         /\ SideOrders(s, Q, InsertAt(L, a, e)) = SideOrders(s, P, L) \cup {t}
    <3>1. /\ s \in Sides /\ n \in Nat /\ SideGood(s, P, L, F, n) /\ Len(L) < MaxBookLevels
          /\ t \in BookOrder /\ t.side = s /\ t.qty > 0 /\ t.price > 0 /\ n < t.id
          /\ a \in 1..(Len(L) + 1) /\ Divides(s, P, L, t.price, a)
          /\ b = FreshLevel(P[Last(F)], t.price) /\ Q = WithLevel(P, Last(F), PushBack(b, t.id, t.qty))
      BY <1>1, <1>3, <2>8, <2>9
    <3>2. SideGood(s, Q, InsertAt(L, a, Last(F)), Front(F), t.id)
      BY ONLY <3>1, PlaceAtNewLevel
    <3>3. SideOrders(s, Q, InsertAt(L, a, Last(F))) = SideOrders(s, P, L) \cup {t}
      BY ONLY <3>1, PlaceAtNewLevel, SMTT(30)
    <3> QED BY <3>2, <3>3 DEF e
  <2> QED BY <1>1, <2>6, <2>7, <2>10 DEF s, P, L, F, Q
<1> QED BY <1>5, <1>6, <1>7

\* When the loops end, what is left of the order crosses nothing.
LEMMA NothingCrosses ==
    ASSUME BookInv, taker # NoOrder, ~Matches, taker.qty > 0
    PROVE  \A m \in Resting : m.side = Opposite(taker.side) => LimitReached(m.price)
<1> DEFINE o == Opposite(taker.side)
           P == pool[o]
           L == levels[o]
           F == free[o]
<1>1. taker \in BookOrder /\ taker.price \in Nat
  BY DEF BookInv, BookOrder
<1>2. o \in Sides
  BY <1>1 DEF BookOrder, Sides, Opposite
<1>3. SideGood(o, P, L, F, Placed)
  BY <1>2 DEF BookInv, SideOK
<1>4. L = <<>> \/ LimitReached(P[Head(L)].price)
  BY DEF Matches
<1>5. ASSUME NEW m \in Resting, m.side = o PROVE LimitReached(m.price)
  <2>1. m \in SideOrders(o, P, L) /\ m \in BookOrder
    BY <1>5, RestingOrders
  <2>2. m.price \in Nat
    BY <2>1 DEF BookOrder
  <2> DEFINE b == OrderIn(o, P[L[1]], 1)
  <2> HIDE DEF o, P, L, F
  <2>3. L # <<>>
    <3> SUFFICES ASSUME L = <<>> PROVE FALSE
      OBVIOUS
    <3>1. Len(L) = 0 /\ 1..0 = {}
      OBVIOUS
    <3> QED BY <2>1, <3>1 DEF SideOrders
  <2>4. /\ Head(L) = L[1] /\ LevelOK(o, P[L[1]], Placed)
        /\ b \in LevelOrders(o, P[L[1]])
    BY <1>2, <1>3, <2>3, FrontIsBest
  <2>5. m = b \/ Precedes(o, b, m)
    BY <1>2, <1>3, <2>1, <2>3, FrontIsBest
  <2>6. b.price = P[L[1]].price /\ b \in BookOrder
    BY <1>2, <2>4, LevelMembers
  <2>7. b.price \in Nat /\ LimitReached(b.price)
    BY <1>4, <2>3, <2>4, <2>6 DEF BookOrder
  <2> HIDE DEF b
  <2>8. o = 3 - taker.side /\ (taker.side = 1 \/ taker.side = 2)
    BY <1>1 DEF o, Opposite, BookOrder, Sides
  <2> QED BY <1>1, <2>2, <2>5, <2>7, <2>8 DEF LimitReached, Precedes, Better
<1> QED BY <1>5

\* The end of submit_order: what is left of the order rests, or there is no
\* place for it.
LEMMA FinishEffect ==
    ASSUME BookInv, Finish
    PROVE  /\ BookInv' /\ taker \in BookOrder /\ taker' = NoOrder /\ last' = last /\ before' = {} /\ out_trades' = <<>>
           /\ taker.qty > 0 => \A m \in Resting : m.side = Opposite(taker.side) => LimitReached(m.price)
           /\ \/ taker.qty > 0 /\ Resting' = Resting \cup {taker}
              \/ (taker.qty = 0 \/ NoPlace) /\ Resting' = Resting
<1>1. /\ taker \in BookOrder /\ taker # NoOrder /\ ~Matches /\ taker' = NoOrder /\ last' = last
      /\ before' = {} /\ out_trades' = <<>> /\ taker.id = last /\ taker.price > 0 /\ taker.qty \in Nat
  BY DEF Finish, BookInv, BookOrder
<1>2. taker.qty > 0 => \A m \in Resting : m.side = Opposite(taker.side) => LimitReached(m.price)
  BY <1>1, NothingCrosses
<1>3. Placed' = last /\ Placed \in Nat /\ Placed <= last /\ last \in Nat /\ Placed < taker.id
  BY <1>1, RestingOrders DEF Placed, BookInv
<1> DEFINE s == taker.side
<1>4. s \in Sides
  BY <1>1 DEF BookOrder
<1>5. \A x \in Sides : SideGood(x, pool[x], levels[x], free[x], Placed)
  BY DEF BookInv, SideOK
<1>6. \A x \in Sides : SideGood(x, pool[x], levels[x], free[x], last)
  BY <1>3, <1>5, SideLater
<1>7. CASE taker.qty > 0 /\ Len(levels[s]) < MaxBookLevels
  <2>1. AddToBook(taker)
    BY <1>7 DEF Finish
  <2>2. /\ SideGood(s, pool'[s], levels'[s], free'[s], last)
        /\ \A x \in Sides : x # s => pool'[x] = pool[x] /\ levels'[x] = levels[x] /\ free'[x] = free[x]
        /\ pool' = [x \in Sides |-> pool'[x]] /\ levels' = [x \in Sides |-> levels'[x]]
        /\ free' = [x \in Sides |-> free'[x]]
    BY <1>1, <1>3, <1>7, <2>1, AddToBookEffect
  <2>3. \/ SideOrders(s, pool'[s], levels'[s]) = SideOrders(s, pool[s], levels[s]) \cup {taker}
        \/ /\ SideOrders(s, pool'[s], levels'[s]) = SideOrders(s, pool[s], levels[s])
           /\ \E k \in 1..Len(levels[s]) : Level(s, k).price = taker.price /\ Level(s, k).count = MaxOrdersPerLevel
    BY <1>1, <1>3, <1>7, <2>1, AddToBookEffect
  <2>4. ASSUME NEW x \in Sides PROVE SideGood(x, pool'[x], levels'[x], free'[x], last)
    BY <1>6, <2>2
  <2>5. ASSUME NEW x \in Sides
        PROVE  pool'[x] \in [PoolSlots -> LevelRecord] /\ levels'[x] \in Seq(PoolSlots) /\ free'[x] \in Seq(PoolSlots)
    BY <2>4 DEF SideGood, Partition
  <2>6. pool' \in [Sides -> [PoolSlots -> LevelRecord]] /\ levels' \in [Sides -> Seq(PoolSlots)] /\ free' \in [Sides -> Seq(PoolSlots)]
    BY <2>2, <2>5
  <2>7. BookInv'
    BY <1>1, <1>3, <2>4, <2>6 DEF BookInv, SideOK
  <2>8. \A x : x \in Resting' <=> \E y \in Sides : x \in SideOrders(y, pool'[y], levels'[y])
    BY DEF Resting, SideOrders, Level
  <2>9. \A y \in Sides : y # s => SideOrders(y, pool'[y], levels'[y]) = SideOrders(y, pool[y], levels[y])
    BY <2>2
  <2>10. CASE SideOrders(s, pool'[s], levels'[s]) = SideOrders(s, pool[s], levels[s]) \cup {taker}
    <3>1. Resting' = Resting \cup {taker}
      BY <1>4, <2>8, <2>9, <2>10, RestingSides
    <3> QED BY <1>1, <1>2, <1>7, <2>7, <3>1
  <2>11. CASE /\ SideOrders(s, pool'[s], levels'[s]) = SideOrders(s, pool[s], levels[s])
              /\ \E k \in 1..Len(levels[s]) : Level(s, k).price = taker.price /\ Level(s, k).count = MaxOrdersPerLevel
    <3>1. Resting' = Resting
      BY <1>4, <2>8, <2>9, <2>11, RestingSides
    <3>2. NoPlace
      BY <1>1, <2>11 DEF NoPlace
    <3> QED BY <1>1, <1>2, <2>7, <3>1, <3>2
  <2> QED BY <2>3, <2>10, <2>11
<1>8. CASE ~(taker.qty > 0 /\ Len(levels[s]) < MaxBookLevels)
  <2>1. UNCHANGED <<pool, levels, free>>
    BY <1>8 DEF Finish
  <2>2. BookInv'
    BY <1>1, <1>3, <1>6, <2>1 DEF BookInv, SideOK
  <2>3. Resting' = Resting
    BY <2>1, SameBook
  <2>4. taker.qty = 0 \/ NoPlace
    <3>1. SideGood(s, pool[s], levels[s], free[s], last)
      BY <1>4, <1>6
    <3>2. Partition(levels[s], free[s])
      BY <3>1 DEF SideGood
    <3>3. Len(levels[s]) \in Nat /\ Len(levels[s]) <= MaxBookLevels
      <4> DEFINE L == levels[s]
                 F == free[s]
      <4>1. L \in Seq(PoolSlots) /\ F \in Seq(PoolSlots) /\ Len(L) + Len(F) = MaxBookLevels
        BY <3>2 DEF Partition
      <4> HIDE DEF L, F
      <4>2. Len(L) \in Nat /\ Len(F) \in Nat
        BY <4>1
      <4>3. Len(L) \in Nat /\ Len(L) <= MaxBookLevels
        BY <4>1, <4>2
      <4> QED BY <4>3 DEF L
    <3>4. taker.qty > 0 => Len(levels[s]) = MaxBookLevels
      BY <1>8, <3>3, BookAssumption
    <3> QED BY <1>1, <3>4 DEF NoPlace
  <2> QED BY <1>1, <1>2, <2>2, <2>3, <2>4
<1> QED BY <1>7, <1>8

\* The invariant holds in every step.
LEMMA StepKeepsBook == BookInv /\ [Next]_vars => BookInv'
<1> SUFFICES ASSUME BookInv, [Next]_vars PROVE BookInv'
  OBVIOUS
<1>1. CASE Submit
  BY <1>1, SubmitKeepsBook
<1>2. CASE MatchOne
  BY <1>2, MatchEffect
<1>3. CASE Finish
  BY <1>3, FinishEffect
<1>4. CASE Stop \/ UNCHANGED vars
  <2>1. UNCHANGED vars
    BY <1>4 DEF Stop
  <2> QED BY <2>1 DEF vars, BookInv, SideOK, Placed
<1> QED BY <1>1, <1>2, <1>3, <1>4 DEF Next

\* The pool, the sorted pointers, the free lists and the rings of
\* ZeroAllocHftOrderBook keep their types and their mutual order, whatever is
\* submitted.
THEOREM BookInvariance == Spec => []BookInv
<1>1. Init => BookInv
  BY InitBook
<1>2. BookInv /\ [Next]_vars => BookInv'
  BY StepKeepsBook
<1> QED BY <1>1, <1>2, PTL DEF Spec

\* What an inductive invariant of the levels says of them.
LEMMA BookConsistent == BookInv => LevelsConsistent
<1> SUFFICES ASSUME BookInv PROVE LevelsConsistent
  OBVIOUS
<1>1. \A s \in Sides : SideGood(s, pool[s], levels[s], free[s], Placed)
  BY DEF BookInv, SideOK
<1>2. LevelsSorted
  BY <1>1 DEF LevelsSorted, Level, SideGood, InOrder
<1>3. LevelTotalsExact
  <2> SUFFICES ASSUME NEW s \in Sides, NEW k \in 1..Len(levels[s])
               PROVE  LET orders == LevelOrders(s, Level(s, k))
                      IN  /\ orders # {}
                          /\ \A o \in orders : o.qty > 0
                          /\ Level(s, k).total = SumQty(orders)
                          /\ Level(s, k).count = Cardinality(orders)
    BY DEF LevelTotalsExact
  <2> DEFINE l == Level(s, k)
  <2>1. LevelOK(s, l, Placed) /\ l.count >= 1
    BY <1>1 DEF SideGood, AllGood, Level
  <2> HIDE DEF l
  <2>2. l \in LevelRecord /\ 1 \in 1..l.count
    BY <2>1 DEF LevelOK, LevelRecord
  <2>3. LevelOrders(s, l) # {}
    BY <2>2, OrderFields
  <2>4. \A o \in LevelOrders(s, l) : o.qty > 0
    BY <2>1, LevelMembers
  <2> QED BY <2>1, <2>3, <2>4 DEF l, LevelOK
<1>4. PoolConserved
  <2> SUFFICES ASSUME NEW s \in Sides
               PROVE  /\ Len(levels[s]) + Len(free[s]) = MaxBookLevels
                      /\ ToSet(levels[s]) \cup ToSet(free[s]) = PoolSlots
    BY DEF PoolConserved
  <2> DEFINE L == levels[s]
             F == free[s]
  <2>1. Partition(L, F)
    BY <1>1 DEF SideGood
  <2> HIDE DEF L, F
  <2>2. L \in Seq(PoolSlots) /\ F \in Seq(PoolSlots)
    BY <2>1 DEF Partition
  <2>3. DOMAIN L = 1..Len(L) /\ DOMAIN F = 1..Len(F)
    BY <2>2
  <2>4. ToSet(L) \cup ToSet(F) \subseteq PoolSlots
    BY <2>2, <2>3 DEF ToSet
  <2>5. PoolSlots \subseteq ToSet(L) \cup ToSet(F)
    BY <2>1, <2>3 DEF ToSet, Partition
  <2>6. Len(L) + Len(F) = MaxBookLevels
    BY <2>1 DEF Partition
  <2> QED BY <2>4, <2>5, <2>6 DEF L, F
<1> QED BY <1>2, <1>3, <1>4 DEF LevelsConsistent

\* The levels are strictly sorted, their cached totals and counts are those of
\* their live orders, and no level of the pool leaks or is aliased: for every
\* capacity of the pool and of a level.
THEOREM LevelsStayConsistent == Spec => []LevelsConsistent
BY BookInvariance, BookConsistent, PTL

----------------------------------------------------------------------------
(* Price-time priority.                                                    *)

\* The arrival of an order.
LEMMA SubmitRefines ==
    ASSUME BookInv, Submit PROVE PriceTime!Submit
<1>1. Resting' = Resting /\ last' = last + 1 /\ last \in Nat
  BY SubmitKeepsBook DEF BookInv
<1>2. last' \in (last + 1)..MaxOrders
  BY <1>1, BookAssumption DEF Submit
<1>3. PICK s \in Sides, p \in Prices, q \in Quantities : taker' = [id |-> last + 1, side |-> s, price |-> p, qty |-> q]
  BY DEF Submit
<1>4. taker' = [id |-> last', side |-> s, price |-> p, qty |-> q] /\ s \in {1, 2}
  BY <1>1, <1>3 DEF Sides
<1>5. taker = NoOrder
  BY DEF Submit
<1> QED BY <1>1, <1>2, <1>3, <1>4, <1>5 DEF PriceTime!Submit

\* A fill with the front order of the best level is a trade with the order
\* that has priority over all that cross.
LEMMA MatchRefines ==
    ASSUME BookInv, MatchOne PROVE PriceTime!Trade
<1> DEFINE m == Best
           M == Traded
           o == Opposite(taker.side)
<1>1. Matches
  BY ZenonT(30) DEF MatchOne
<1>2. /\ taker \in BookOrder /\ taker.qty > 0 /\ taker.qty \in Nat /\ m \in Resting /\ m \in BookOrder
      /\ m.side = o /\ ~LimitReached(m.price) /\ m.qty \in Nat
      /\ \A n \in Resting : n.side = o => n = m \/ Precedes(o, m, n)
  BY <1>1, BestOrder, ZenonT(30)
<1>3. taker' = Reduced(taker, M) /\ Resting' = AfterFill(Resting, m, M) /\ UNCHANGED last
  BY MatchEffect
<1>4. M = IF m.qty < taker.qty THEN m.qty ELSE taker.qty
  BY <1>2 DEF Traded
<1>5. taker # NoOrder /\ taker.side \in {1, 2} /\ taker.price \in Nat /\ o = 3 - taker.side
  BY <1>2, NoOrderIsNone DEF BookOrder, Sides, Opposite
<1> HIDE DEF m, M, o
<1>6. PriceTime!Crosses(taker, m)
  <2>1. IF taker.side = 1 THEN ~(taker.price < m.price) ELSE ~(taker.price > m.price)
    BY <1>2 DEF LimitReached
  <2>2. m.price \in Nat
    BY <1>2 DEF BookOrder
  <2> QED BY <1>2, <1>5, <2>1, <2>2 DEF PriceTime!Crosses
<1>7. ASSUME NEW n \in Resting, PriceTime!Crosses(taker, n) PROVE n = m \/ PriceTime!Before(m, n)
  <2>1. n.side = o
    BY <1>5, <1>7 DEF PriceTime!Crosses
  <2>2. n = m \/ Precedes(m.side, m, n)
    BY <1>2, <2>1
  <2>3. m.side \in {1, 2}
    BY <1>2 DEF BookOrder, Sides
  <2> QED BY <2>2, <2>3 DEF Precedes, Better, PriceTime!Before
<1>8. Resting' = IF M = m.qty THEN Resting \ {m} ELSE (Resting \ {m}) \cup {[m EXCEPT !.qty = @ - M]}
  BY <1>3 DEF AfterFill, Reduced
<1>9. taker' = [taker EXCEPT !.qty = @ - M]
  BY <1>3 DEF Reduced
<1> QED BY <1>2, <1>3, <1>4, <1>5, <1>6, <1>7, <1>8, <1>9, ZenonT(30) DEF PriceTime!Trade

\* The end of submit_order: the rest of the order, or nothing, rests.
LEMMA FinishRefines ==
    ASSUME BookInv, Finish PROVE PriceTime!Rest
<1>1. /\ taker \in BookOrder /\ taker' = NoOrder /\ last' = last
      /\ \/ taker.qty > 0 /\ Resting' = Resting \cup {taker}
         \/ (taker.qty = 0 \/ NoPlace) /\ Resting' = Resting
  BY FinishEffect
<1>2. taker # NoOrder /\ taker.side \in {1, 2} /\ taker.price \in Nat
  BY <1>1, NoOrderIsNone DEF BookOrder, Sides
<1>3. ASSUME taker.qty > 0, NEW n \in Resting PROVE ~PriceTime!Crosses(taker, n)
  <2> SUFFICES ASSUME n.side = 3 - taker.side
               PROVE  ~(IF taker.side = 1 THEN n.price <= taker.price ELSE n.price >= taker.price)
    BY DEF PriceTime!Crosses
  <2>1. LimitReached(n.price)
    BY <1>3, FinishEffect DEF Opposite
  <2>2. n.price \in Nat
    BY RestingOrders DEF BookOrder
  <2> QED BY <1>2, <2>1, <2>2 DEF LimitReached
<1> QED BY <1>1, <1>2, <1>3 DEF PriceTime!Rest

\* The pool, the pointers and the rings implement the abstract book: every
\* fill of submit_order is with the resting order of best price and earliest
\* arrival, and a remainder is dropped only at the limits of the book.
THEOREM PriceTimePriority == Spec => ImplementsPriceTime
<1>1. Init => PriceTime!Init
  BY InitBook DEF Init, PriceTime!Init
<1>2. BookInv /\ [Next]_vars => [PriceTime!Next]_(PriceTime!vars)
  <2> SUFFICES ASSUME BookInv, [Next]_vars PROVE PriceTime!Next \/ UNCHANGED PriceTime!vars
    OBVIOUS
  <2>1. CASE Submit
    BY <2>1, SubmitRefines DEF PriceTime!Next
  <2>2. CASE MatchOne
    BY <2>2, MatchRefines DEF PriceTime!Next
  <2>3. CASE Finish
    BY <2>3, FinishRefines DEF PriceTime!Next
  <2>4. CASE Stop \/ UNCHANGED vars
    BY <2>4, SameBook DEF Stop, vars, PriceTime!vars
  <2> QED BY <2>1, <2>2, <2>3, <2>4 DEF Next
<1> QED BY <1>1, <1>2, BookInvariance, PTL DEF Spec, ImplementsPriceTime, PriceTime!Spec

----------------------------------------------------------------------------
(* The snapshot.                                                           *)

\* A set listed without repetition by 1..n has n elements.
LEMMA CountByIndex ==
    ASSUME NEW n \in Nat, NEW S, NEW f, f \in [1..n -> S],
           \A i, j \in 1..n : i # j => f[i] # f[j],
           \A x \in S : \E i \in 1..n : f[i] = x
    PROVE  IsFiniteSet(S) /\ Cardinality(S) = n
<1>1. f \in Bijection(1..n, S)
  BY DEF Bijection, Injection, Surjection, IsInjective
<1>2. ExistsBijection(1..n, S)
  BY <1>1 DEF ExistsBijection
<1> QED BY <1>2, FS_CountingElements, FS_NatBijection

\* The prices at which orders of a side rest are those of its levels, and the
\* orders at a price are those of its level.
LEMMA SidePrices ==
    ASSUME BookInv, NEW s \in Sides
    PROVE  /\ Len(levels[s]) \in Nat
           /\ \A k \in 1..Len(levels[s]) :
                 /\ Level(s, k).price \in Nat /\ Level(s, k).price > 0 /\ Level(s, k).price \in RestingPrices(s)
                 /\ At(s, Level(s, k).price) = LevelOrders(s, Level(s, k))
                 /\ Level(s, k).total = SumQty(At(s, Level(s, k).price))
                 /\ Level(s, k).count = Cardinality(At(s, Level(s, k).price))
           /\ \A p \in RestingPrices(s) : \E k \in 1..Len(levels[s]) : p = Level(s, k).price
           /\ \A j, k \in 1..Len(levels[s]) : j < k => Better(s, Level(s, j).price, Level(s, k).price)
<1> DEFINE P == pool[s]
           L == levels[s]
<1>1. SideGood(s, P, L, free[s], Placed)
  BY DEF BookInv, SideOK
<1>2. /\ L \in Seq(PoolSlots) /\ Len(L) \in Nat
      /\ \A k \in 1..Len(L) : P[L[k]] \in LevelRecord
      /\ \A k \in 1..Len(L) : \A o \in LevelOrders(s, P[L[k]]) :
            o \in BookOrder /\ o.side = s /\ o.price = P[L[k]].price
      /\ \A j, k \in 1..Len(L) : j # k => P[L[j]].price # P[L[k]].price
  BY <1>1, SideMembers
<1>3. \A o \in Resting : o.side = s => \E k \in 1..Len(L) : o \in LevelOrders(s, P[L[k]])
  BY RestingOrders DEF SideOrders
<1>4. \A k \in 1..Len(L) : \A o \in LevelOrders(s, P[L[k]]) : o \in Resting
  BY RestingSides DEF SideOrders
<1>5. \A k \in 1..Len(L) : Level(s, k) = P[L[k]]
  BY DEF Level
<1>6. ASSUME NEW k \in 1..Len(L)
      PROVE  /\ P[L[k]].price \in Nat /\ P[L[k]].price > 0 /\ P[L[k]].price \in RestingPrices(s)
             /\ At(s, P[L[k]].price) = LevelOrders(s, P[L[k]])
             /\ P[L[k]].total = SumQty(At(s, P[L[k]].price))
             /\ P[L[k]].count = Cardinality(At(s, P[L[k]].price))
  <2> DEFINE l == P[L[k]]
  <2>1. LevelOK(s, l, Placed) /\ l.count >= 1
    BY <1>1, SMTT(30) DEF SideGood, AllGood
  <2>2. l.price \in Nat /\ l.price > 0 /\ l \in LevelRecord /\ l.total = SumQty(LevelOrders(s, l))
        /\ l.count = Cardinality(LevelOrders(s, l))
    BY <2>1 DEF LevelOK, LevelRecord
  <2>3. \A o : o \in At(s, l.price) <=> o \in LevelOrders(s, l)
    <3>1. ASSUME NEW o \in At(s, l.price) PROVE o \in LevelOrders(s, l)
      <4>1. o \in Resting /\ o.side = s /\ o.price = l.price
        BY DEF At
      <4>2. PICK j \in 1..Len(L) : o \in LevelOrders(s, P[L[j]])
        BY <1>3, <4>1
      <4>3. j = k
        BY <1>2, <4>1, <4>2
      <4> QED BY <4>2, <4>3
    <3>2. ASSUME NEW o \in LevelOrders(s, l) PROVE o \in At(s, l.price)
      BY <1>2, <1>4 DEF At
    <3> QED BY <3>1, <3>2
  <2>4. At(s, l.price) = LevelOrders(s, l)
    BY <2>3
  <2>5. l.price \in RestingPrices(s)
    <3> HIDE DEF l
    <3>1. 1 \in 1..l.count
      BY <2>1, <2>2 DEF LevelRecord
    <3>2. OrderIn(s, l, 1) \in LevelOrders(s, l)
      BY <3>1 DEF LevelOrders
    <3>3. OrderIn(s, l, 1) \in Resting /\ OrderIn(s, l, 1).side = s /\ OrderIn(s, l, 1).price = l.price
      BY <2>4, <3>2 DEF At
    <3> QED BY <3>3 DEF RestingPrices
  <2> QED BY <2>2, <2>4, <2>5
<1>7. ASSUME NEW p \in RestingPrices(s) PROVE \E k \in 1..Len(L) : p = P[L[k]].price
  <2>1. PICK o \in Resting : o.side = s /\ p = o.price
    BY DEF RestingPrices
  <2> QED BY <1>2, <1>3, <2>1
<1>8. \A j, k \in 1..Len(L) : j < k => Better(s, P[L[j]].price, P[L[k]].price)
  BY <1>1 DEF SideGood, InOrder
<1>9. ASSUME NEW k \in 1..Len(L)
      PROVE  /\ Level(s, k).price \in Nat /\ Level(s, k).price > 0 /\ Level(s, k).price \in RestingPrices(s)
             /\ At(s, Level(s, k).price) = LevelOrders(s, Level(s, k))
             /\ Level(s, k).total = SumQty(At(s, Level(s, k).price))
             /\ Level(s, k).count = Cardinality(At(s, Level(s, k).price))
  BY <1>5, <1>6
<1>10. /\ \A p \in RestingPrices(s) : \E k \in 1..Len(L) : p = Level(s, k).price
       /\ \A j, k \in 1..Len(L) : j < k => Better(s, Level(s, j).price, Level(s, k).price)
  BY <1>5, <1>7, <1>8
<1> QED BY <1>2, <1>9, <1>10

\* A side has as many prices as levels, and the i-th level has i - 1 better
\* prices before it.
LEMMA PriceRank ==
    ASSUME BookInv, NEW s \in Sides
    PROVE  /\ Cardinality(RestingPrices(s)) = Len(levels[s])
           /\ \A i \in 1..Len(levels[s]) :
                 Cardinality({p \in RestingPrices(s) : Better(s, p, Level(s, i).price)}) = i - 1
<1> DEFINE n == Len(levels[s])
           pr == [k \in 1..n |-> Level(s, k).price]
           R == RestingPrices(s)
<1>1. /\ n \in Nat
      /\ \A k \in 1..n : pr[k] \in Nat /\ pr[k] \in R
      /\ \A p \in R : \E k \in 1..n : p = pr[k]
      /\ \A j, k \in 1..n : j < k => Better(s, pr[j], pr[k])
      /\ \A k \in 1..n : pr[k] = Level(s, k).price
  BY SidePrices
<1>2. pr \in [1..n -> R]
  BY <1>1
<1> HIDE DEF n, pr, R
<1>3. \A j, k \in 1..n : j # k => pr[j] # pr[k]
  <2> SUFFICES ASSUME NEW j \in 1..n, NEW k \in 1..n, j # k PROVE pr[j] # pr[k]
    OBVIOUS
  <2>1. j < k \/ k < j
    BY <1>1
  <2> QED BY <1>1, <2>1 DEF Better
<1>4. Cardinality(R) = n
  BY <1>1, <1>2, <1>3, CountByIndex, ZenonT(30)
<1>5. ASSUME NEW i \in 1..n PROVE Cardinality({p \in R : Better(s, p, pr[i])}) = i - 1
  <2> DEFINE B == {p \in R : Better(s, p, pr[i])}
             f == [k \in 1..(i - 1) |-> pr[k]]
  <2>1. i - 1 \in Nat /\ \A k \in 1..(i - 1) : k \in 1..n /\ k < i
    BY <1>1
  <2>2. f \in [1..(i - 1) -> B]
    BY <1>1, <2>1
  <2>3. \A j, k \in 1..(i - 1) : j # k => f[j] # f[k]
    BY <1>3, <2>1
  <2>4. \A x \in B : \E k \in 1..(i - 1) : f[k] = x
    <3> SUFFICES ASSUME NEW x \in B PROVE \E k \in 1..(i - 1) : pr[k] = x
      OBVIOUS
    <3>1. PICK k \in 1..n : x = pr[k]
      BY <1>1
    <3>2. Better(s, pr[k], pr[i])
      BY <3>1
    <3>3. ~(k = i) /\ ~(i < k)
      BY <1>1, <3>2 DEF Better
    <3>4. k \in 1..(i - 1)
      BY <1>1, <3>3
    <3> QED BY <3>1, <3>4
  <2> DEFINE m == i - 1
  <2> HIDE DEF B, f, m
  <2>5. Cardinality(B) = m
    BY <2>1, <2>2, <2>3, <2>4, CountByIndex DEF m
  <2> QED BY <2>5 DEF B, m
<1> QED BY <1>1, <1>4, <1>5 DEF n, R

\* No bid rests at or above an ask: everything that crosses has traded.
Uncrossed == \A a, b \in Resting : a.side = 1 /\ b.side = 2 => a.price < b.price

\* Fills only take orders away, and what is left of an order rests when no
\* order of the other side crosses it.
LEMMA StepKeepsUncrossed == BookInv /\ Uncrossed /\ [Next]_vars => Uncrossed'
<1> SUFFICES ASSUME BookInv, Uncrossed, [Next]_vars PROVE Uncrossed'
  OBVIOUS
<1>1. ASSUME Resting' = Resting PROVE Uncrossed'
  BY <1>1 DEF Uncrossed
<1>2. CASE Submit
  BY <1>1, <1>2, SubmitKeepsBook
<1>3. CASE MatchOne
  <2>1. Matches /\ Resting' = AfterFill(Resting, Best, Traded)
    BY <1>3, MatchEffect, ZenonT(30) DEF MatchOne
  <2>2. Best \in Resting /\ Best \in BookOrder /\ Traded \in Nat /\ Traded <= Best.qty
    BY <2>1, BestOrder
  <2>3. Reduced(Best, Traded).side = Best.side /\ Reduced(Best, Traded).price = Best.price
    BY <2>2, ReducedFields
  <2>4. \A x \in Resting' : \E y \in Resting : x.side = y.side /\ x.price = y.price
    BY <2>1, <2>2, <2>3 DEF AfterFill
  <2> QED BY <2>4, SMTT(30) DEF Uncrossed
<1>4. CASE Finish
  <2>1. taker \in BookOrder /\ (Resting' = Resting \/ (Resting' = Resting \cup {taker} /\ taker.qty > 0))
    BY <1>4, FinishEffect
  <2>2. CASE Resting' = Resting
    BY <1>1, <2>2
  <2>3. CASE Resting' = Resting \cup {taker} /\ taker.qty > 0
    <3>1. \A m \in Resting : m.side = Opposite(taker.side) => LimitReached(m.price)
      BY <1>4, <2>3, FinishEffect
    <3>2. \A m \in Resting : m.side = 3 - taker.side =>
             IF taker.side = 1 THEN taker.price < m.price ELSE m.price < taker.price
      <4> SUFFICES ASSUME NEW m \in Resting, m.side = 3 - taker.side
                   PROVE  IF taker.side = 1 THEN taker.price < m.price ELSE m.price < taker.price
        OBVIOUS
      <4>1. LimitReached(m.price)
        BY <3>1 DEF Opposite
      <4>2. m.price \in Nat /\ taker.price \in Nat
        BY <2>1, RestingOrders DEF BookOrder
      <4> QED BY <4>1, <4>2 DEF LimitReached
    <3> SUFFICES ASSUME NEW a \in Resting', NEW b \in Resting', a.side = 1, b.side = 2 PROVE a.price < b.price
      BY DEF Uncrossed
    <3>3. (a \in Resting \/ a = taker) /\ (b \in Resting \/ b = taker) /\ ~(a = taker /\ b = taker)
      BY <2>3
    <3>4. CASE a \in Resting /\ b \in Resting
      BY <3>4 DEF Uncrossed
    <3>5. CASE a = taker /\ b \in Resting
      BY <3>2, <3>5
    <3>6. CASE a \in Resting /\ b = taker
      BY <3>2, <3>6
    <3> QED BY <3>3, <3>4, <3>5, <3>6
  <2> QED BY <2>1, <2>2, <2>3
<1>5. CASE Stop \/ UNCHANGED vars
  BY <1>1, <1>5, SameBook DEF Stop, vars
<1> QED BY <1>2, <1>3, <1>4, <1>5 DEF Next

\* Between the bids and the asks there is always a gap.
THEOREM BookUncrossed == Spec => []Uncrossed
<1>1. Init => Uncrossed
  BY InitBook DEF Uncrossed
<1> QED BY <1>1, BookInvariance, StepKeepsUncrossed, PTL DEF Spec

\* The rows and the best prices of the snapshot.
LEMMA SnapshotFields ==
    ASSUME BookInv, NEW s \in Sides
    PROVE  LET n == Len(levels[s])
               rows == Snapshot.depth[s]
           IN  /\ n \in Nat
               /\ Len(rows) = IF n < DepthRows THEN n ELSE DepthRows
               /\ DOMAIN rows = 1..Len(rows)
               /\ \A i \in DOMAIN rows :
                     /\ i \in 1..n /\ rows[i].price = Level(s, i).price
                     /\ rows[i].qty = Level(s, i).total /\ rows[i].orders = Level(s, i).count
               /\ n = 0 => Snapshot.best_price[s] = 0 /\ Snapshot.best_qty[s] = 0
               /\ n # 0 => Snapshot.best_price[s] = Level(s, 1).price
<1> DEFINE n == Len(levels[s])
           d == IF n < DepthRows THEN n ELSE DepthRows
           rows == [i \in 1..d |-> [price |-> Level(s, i).price, qty |-> Level(s, i).total, orders |-> Level(s, i).count]]
<1>1. n \in Nat /\ levels[s] \in Seq(PoolSlots)
  BY SidePrices DEF BookInv
<1>2. Snapshot.depth[s] = rows
  BY DEF Snapshot, Depth
<1>3. d \in Nat /\ d <= n
  BY <1>1, BookAssumption
<1>4. n = 0 <=> levels[s] = <<>>
  BY <1>1
<1>5. Snapshot.best_price[s] = BestPrice(s) /\ Snapshot.best_qty[s] = BestQty(s)
  BY DEF Snapshot
<1>6. /\ n = 0 => BestPrice(s) = 0 /\ BestQty(s) = 0
      /\ n # 0 => BestPrice(s) = Level(s, 1).price
  BY <1>4 DEF BestPrice, BestQty
<1> HIDE DEF n, d
<1>7. Len(rows) = d /\ DOMAIN rows = 1..d
  BY <1>3
<1>8. \A i \in 1..d : i \in 1..n /\ rows[i].price = Level(s, i).price
                      /\ rows[i].qty = Level(s, i).total /\ rows[i].orders = Level(s, i).count
  BY <1>1, <1>3
<1> HIDE DEF rows
<1> QED BY <1>1, <1>2, <1>5, <1>6, <1>7, <1>8 DEF n, d

\* The depth report agrees with the orders in the book.
LEMMA SnapshotRight == BookInv /\ Uncrossed => SnapshotTrue
<1> SUFFICES ASSUME BookInv, Uncrossed PROVE SnapshotTrue
  OBVIOUS
<1>1. ASSUME NEW s \in Sides
      PROVE  LET rows == Snapshot.depth[s]
                 prices == RestingPrices(s)
             IN  /\ Len(rows) = IF Cardinality(prices) < DepthRows THEN Cardinality(prices) ELSE DepthRows
                 /\ \A i \in DOMAIN rows :
                       /\ rows[i].price \in prices
                       /\ Cardinality({p \in prices : Better(s, p, rows[i].price)}) = i - 1
                       /\ rows[i].qty = SumQty(At(s, rows[i].price))
                       /\ rows[i].orders = Cardinality(At(s, rows[i].price))
                 /\ IF prices = {}
                      THEN Snapshot.best_price[s] = 0 /\ Snapshot.best_qty[s] = 0
                      ELSE Snapshot.best_price[s] \in prices
                           /\ \A p \in prices : ~Better(s, p, Snapshot.best_price[s])
                 /\ prices = {} => Snapshot.best_price[s] = 0
                 /\ prices # {} => Snapshot.best_price[s] \in prices /\ Snapshot.best_price[s] > 0
                 /\ \A p \in prices : p \in Nat
  <2> DEFINE n == Len(levels[s])
             rows == Snapshot.depth[s]
             prices == RestingPrices(s)
             best == Snapshot.best_price[s]
             bestQty == Snapshot.best_qty[s]
  <2>1. /\ n \in Nat
        /\ Len(rows) = IF n < DepthRows THEN n ELSE DepthRows
        /\ \A i \in DOMAIN rows :
              /\ i \in 1..n /\ rows[i].price = Level(s, i).price
              /\ rows[i].qty = Level(s, i).total /\ rows[i].orders = Level(s, i).count
        /\ n = 0 => best = 0 /\ bestQty = 0
        /\ n # 0 => best = Level(s, 1).price
    BY SnapshotFields
  <2>2. /\ \A k \in 1..n :
              /\ Level(s, k).price \in Nat /\ Level(s, k).price > 0 /\ Level(s, k).price \in prices
              /\ Level(s, k).total = SumQty(At(s, Level(s, k).price))
              /\ Level(s, k).count = Cardinality(At(s, Level(s, k).price))
        /\ \A p \in prices : \E k \in 1..n : p = Level(s, k).price
        /\ \A j, k \in 1..n : j < k => Better(s, Level(s, j).price, Level(s, k).price)
    BY SidePrices
  <2>3. Cardinality(prices) = n
    BY PriceRank
  <2>4. \A i \in 1..n : Cardinality({p \in prices : Better(s, p, Level(s, i).price)}) = i - 1
    BY PriceRank
  <2> HIDE DEF n, rows, prices, best, bestQty
  <2>5. prices = {} <=> n = 0
    <3>1. n = 0 => prices = {}
      BY <2>2
    <3>2. n # 0 => 1 \in 1..n
      BY <2>1
    <3> QED BY <2>2, <3>1, <3>2
  <2>6. ASSUME NEW i \in DOMAIN rows
        PROVE  /\ rows[i].price \in prices
               /\ Cardinality({p \in prices : Better(s, p, rows[i].price)}) = i - 1
               /\ rows[i].qty = SumQty(At(s, rows[i].price))
               /\ rows[i].orders = Cardinality(At(s, rows[i].price))
    BY <2>1, <2>2, <2>4, ZenonT(30)
  <2>7. ASSUME prices # {}
        PROVE  best \in prices /\ best > 0 /\ \A p \in prices : ~Better(s, p, best)
    <3>1. 1 \in 1..n /\ best = Level(s, 1).price
      BY <2>1, <2>5, <2>7
    <3>2. best \in Nat /\ best \in prices /\ best > 0
      BY <2>2, <3>1
    <3>3. ASSUME NEW p \in prices PROVE ~Better(s, p, best)
      <4>1. PICK k \in 1..n : p = Level(s, k).price
        BY <2>2
      <4>2. p \in Nat /\ (k = 1 \/ 1 < k)
        BY <2>1, <2>2, <4>1
      <4>3. p = best \/ Better(s, best, p)
        BY <2>2, <3>1, <4>1, <4>2
      <4> QED BY <3>2, <4>2, <4>3 DEF Better
    <3> QED BY <3>2, <3>3
  <2>8. \A p \in prices : p \in Nat
    BY <2>2
  <2>9. prices = {} => best = 0 /\ bestQty = 0
    BY <2>1, <2>5
  <2>10. Len(rows) = IF Cardinality(prices) < DepthRows THEN Cardinality(prices) ELSE DepthRows
    BY <2>1, <2>3
  <2> QED BY <2>6, <2>7, <2>8, <2>9, <2>10 DEF rows, prices, best, bestQty
<1>2. Snapshot.spread_price > 0 <=> RestingPrices(1) # {} /\ RestingPrices(2) # {}
  <2> DEFINE bid == Snapshot.best_price[1]
             ask == Snapshot.best_price[2]
  <2>1. 1 \in Sides /\ 2 \in Sides
    BY DEF Sides
  <2>2. /\ RestingPrices(1) = {} => bid = 0
        /\ RestingPrices(1) # {} => bid \in RestingPrices(1) /\ bid \in Nat /\ bid > 0
        /\ RestingPrices(2) = {} => ask = 0
        /\ RestingPrices(2) # {} => ask \in RestingPrices(2) /\ ask \in Nat /\ ask > 0
    BY <1>1, <2>1
  <2>3. Snapshot.spread_price = IF bid > 0 /\ ask > 0 /\ ask >= bid THEN ask - bid ELSE 0
    BY <2>1 DEF Snapshot
  <2>4. bid \in RestingPrices(1) /\ ask \in RestingPrices(2) => bid < ask
    BY DEF RestingPrices, Uncrossed
  <2> HIDE DEF bid, ask
  <2> QED BY <2>2, <2>3, <2>4
<1> QED BY <1>1, <1>2 DEF SnapshotTrue

\* Whenever submit_order is not running, the depth report has one row per
\* price, best first, with the true quantity and number of its orders, and a
\* positive spread if both sides have orders.
THEOREM SnapshotStaysTrue == Spec => []SnapshotTrue
BY BookInvariance, BookUncrossed, SnapshotRight, PTL

----------------------------------------------------------------------------
(* The execution reports of a call.                                        *)

\* The orders that rested when submit_order began and no longer do as they did.
Touched == before \ Resting

UniqueIds(S) == \A a, b \in S : a.id = b.id => a = b

\* What rests during a call is what is left of an order that rested before it.
Descend ==
    \A r \in Resting : \E o \in before : r.id = o.id /\ r.side = o.side /\ r.price = o.price /\ r.qty <= o.qty

\* The touched orders are on the other side and had priority over the others.
Ranked ==
    /\ \A h \in Touched : h.side = Opposite(taker.side)
    /\ \A h \in Touched, o \in before \cap Resting : o.side = h.side => Precedes(h.side, h, o)

\* Only the last order touched may have something left, and then the taker is spent.
Spent == taker.qty > 0 => \A h \in Touched, r \in Resting : r.id # h.id

Trades == [trade_id : Int, passive : Nat, match_price : Nat, match_qty : Int]

\* The invariant of a call of submit_order.
CallInv ==
    /\ IsFiniteSet(Resting) /\ UniqueIds(Resting)
    /\ IsFiniteSet(before) /\ UniqueIds(before) /\ \A o \in before : o \in BookOrder /\ o.qty > 0
    /\ trade_counter \in Nat /\ out_trades \in Seq(Trades)
    /\ taker = NoOrder => before = {} /\ out_trades = <<>>
    /\ taker # NoOrder => Descend /\ Ranked /\ Spent

\* What a set of orders holds of an order.
LeftIn(R, o) == SumQty({r \in R : r.id = o.id /\ r.side = o.side})

\* Numbers are unique, so at most one resting order is what is left of another.
LEMMA LeftOne ==
    ASSUME NEW R, UniqueIds(R), NEW o, NEW r \in R, r.qty \in Nat, r.id = o.id, r.side = o.side
    PROVE  LeftIn(R, o) = r.qty
<1>1. {x \in R : x.id = o.id /\ x.side = o.side} = {r}
  BY DEF UniqueIds
<1> QED BY <1>1, SumQtySmall DEF LeftIn

\* An order none of whose number rests has nothing left.
LEMMA LeftNone ==
    ASSUME NEW R, NEW o, \A r \in R : ~(r.id = o.id /\ r.side = o.side)
    PROVE  LeftIn(R, o) = 0
<1>1. {x \in R : x.id = o.id /\ x.side = o.side} = {}
  OBVIOUS
<1> QED BY <1>1, SumQtySmall DEF LeftIn

\* The orders that gave up quantity are the touched ones.
LEMMA HitIsTouched ==
    ASSUME BookInv, CallInv PROVE Hit = Touched
<1>1. CASE taker = NoOrder
  BY <1>1 DEF CallInv, Hit, Touched
<1>2. CASE taker # NoOrder
  <2>1. \A r \in Resting : r \in BookOrder /\ r.qty \in Nat
    BY RestingOrders DEF BookOrder
  <2>2. UniqueIds(Resting) /\ UniqueIds(before) /\ Descend /\ \A o \in before : o \in BookOrder /\ o.qty > 0 /\ o.qty \in Nat
    BY <1>2 DEF CallInv, BookOrder
  <2>3. ASSUME NEW o \in before PROVE Left(o) < o.qty <=> o \notin Resting
    <3>1. Left(o) = LeftIn(Resting, o)
      BY DEF Left, LeftIn
    <3>2. CASE o \in Resting
      <4>1. LeftIn(Resting, o) = o.qty
        BY <2>2, <3>2, LeftOne
      <4> QED BY <2>2, <3>1, <3>2, <4>1
    <3>3. CASE o \notin Resting /\ \E r \in Resting : r.id = o.id /\ r.side = o.side
      <4>1. PICK r \in Resting : r.id = o.id /\ r.side = o.side
        BY <3>3
      <4>2. PICK a \in before : r.id = a.id /\ r.side = a.side /\ r.price = a.price /\ r.qty <= a.qty
        BY <2>2 DEF Descend
      <4>3. a = o
        BY <2>2, <4>1, <4>2 DEF UniqueIds
      <4>4. r.qty # o.qty
        <5> SUFFICES ASSUME r.qty = o.qty PROVE FALSE
          OBVIOUS
        <5>1. r = o
          BY <2>1, <2>2, <4>1, <4>2, <4>3 DEF BookOrder
        <5> QED BY <3>3, <5>1
      <4>5. LeftIn(Resting, o) = r.qty /\ r.qty \in Nat
        BY <2>1, <2>2, <4>1, LeftOne
      <4> QED BY <2>2, <3>1, <3>3, <4>2, <4>3, <4>4, <4>5
    <3>4. CASE o \notin Resting /\ \A r \in Resting : ~(r.id = o.id /\ r.side = o.side)
      <4>1. LeftIn(Resting, o) = 0
        BY <3>4, LeftNone
      <4> QED BY <2>2, <3>1, <3>4, <4>1
    <3> QED BY <3>2, <3>3, <3>4
  <2> QED BY <2>3 DEF Hit, Touched
<1> QED BY <1>1, <1>2

\* A fill touches one more order, the first of those not yet touched.
LEMMA MatchTouches ==
    ASSUME BookInv, CallInv, MatchOne
    PROVE  /\ Best \in before /\ Best \notin Touched /\ Touched' = Touched \cup {Best}
           /\ \A h \in Touched : h.side = Best.side /\ Precedes(Best.side, h, Best)
           /\ \A h \in Touched : LeftIn(Resting, h) = 0 /\ LeftIn(Resting', h) = 0
           /\ LeftIn(Resting', Best) = Best.qty - Traded
           /\ IsFiniteSet(Resting') /\ UniqueIds(Resting')
           /\ Descend' /\ Ranked' /\ Spent'
<1> DEFINE m == Best
           q == Traded
           w == Reduced(m, q)
<1>1. Matches
  BY ZenonT(30) DEF MatchOne
<1>2. /\ taker \in BookOrder /\ taker.qty > 0 /\ taker.qty \in Nat /\ m \in Resting /\ m \in BookOrder
      /\ m.side = Opposite(taker.side) /\ m.qty \in Nat
      /\ q \in Nat /\ q > 0 /\ q <= m.qty /\ q <= taker.qty
      /\ \A n \in Resting : n.side = m.side => n = m \/ Precedes(m.side, m, n)
  BY <1>1, BestOrder
<1>3. /\ taker' = Reduced(taker, q) /\ Resting' = AfterFill(Resting, m, q) /\ UNCHANGED before
  BY MatchEffect
<1>4. taker'.side = taker.side /\ taker'.qty = taker.qty - q
  BY <1>2, <1>3, ReducedFields
<1>5. w \in BookOrder /\ w.id = m.id /\ w.side = m.side /\ w.price = m.price /\ w.qty = m.qty - q
  BY <1>2, ReducedFields
<1>6. taker # NoOrder
  BY <1>2, NoOrderIsNone
<1>7. /\ IsFiniteSet(Resting) /\ UniqueIds(Resting) /\ UniqueIds(before) /\ Descend /\ Ranked
      /\ \A h \in Touched, r \in Resting : r.id # h.id
  BY <1>2, <1>6 DEF CallInv, Spent
<1>8. q = taker.qty \/ q = m.qty
  BY DEF Traded
<1> HIDE DEF m, q, w
<1>9. m \in before
  <2>1. PICK a \in before : m.id = a.id
    BY <1>2, <1>7 DEF Descend
  <2>2. a \in Resting
    BY <1>2, <1>7, <2>1 DEF Touched
  <2> QED BY <1>2, <1>7, <2>1, <2>2 DEF UniqueIds
<1>10. m \notin Touched
  BY <1>2 DEF Touched
<1>11. ASSUME NEW x
       PROVE  x \in Resting' <=> (x \in Resting /\ x # m) \/ (q # m.qty /\ x = w)
  BY <1>3 DEF AfterFill, w
<1>12. w \notin before /\ (\A x \in Resting : x.id = m.id => x = m) /\ w # m
  BY <1>2, <1>5, <1>7, <1>9 DEF UniqueIds
<1>13. Touched' = Touched \cup {m}
  <2>1. Touched' = before \ Resting'
    BY <1>3 DEF Touched
  <2> QED BY <1>2, <1>9, <1>11, <1>12, <2>1 DEF Touched
<1>14. ASSUME NEW h \in Touched PROVE h.side = m.side /\ Precedes(m.side, h, m)
  BY <1>2, <1>7, <1>9 DEF Ranked
<1>15. ASSUME NEW h \in Touched, NEW r \in Resting' PROVE r.id # h.id
  BY <1>2, <1>5, <1>7, <1>11
<1>16. \A h \in Touched : LeftIn(Resting, h) = 0 /\ LeftIn(Resting', h) = 0
  BY <1>7, <1>15, LeftNone
<1>17. UniqueIds(Resting')
  BY <1>5, <1>7, <1>11, <1>12 DEF UniqueIds
<1>18. LeftIn(Resting', m) = m.qty - q
  <2>1. CASE q = m.qty
    <3>1. \A r \in Resting' : r.id # m.id
      BY <1>11, <1>12, <2>1
    <3>2. LeftIn(Resting', m) = 0
      BY <3>1, LeftNone
    <3> QED BY <1>2, <2>1, <3>2
  <2>2. CASE q # m.qty
    <3>1. w \in Resting' /\ w.qty \in Nat
      BY <1>5, <1>11, <2>2 DEF BookOrder
    <3>2. LeftIn(Resting', m) = w.qty
      BY <1>5, <1>17, <3>1, LeftOne
    <3> QED BY <1>5, <3>2
  <2> QED BY <2>1, <2>2
<1>19. IsFiniteSet(Resting')
  <2>1. IsFiniteSet(Resting \cup {w})
    BY <1>7, FS_AddElement
  <2>2. Resting' \subseteq Resting \cup {w}
    BY <1>11
  <2> QED BY <2>1, <2>2, FS_Subset
<1>20. Descend'
  <2> SUFFICES ASSUME NEW r \in Resting'
               PROVE  \E o \in before : r.id = o.id /\ r.side = o.side /\ r.price = o.price /\ r.qty <= o.qty
    BY <1>3 DEF Descend
  <2>1. CASE r \in Resting
    BY <1>7, <2>1 DEF Descend
  <2>2. CASE r = w
    <3>1. w.qty <= m.qty
      BY <1>2, <1>5
    <3> QED BY <1>5, <1>9, <2>2, <3>1
  <2> QED BY <1>11, <2>1, <2>2
<1>21. Ranked'
  <2>1. \A h \in Touched' : h.side = Opposite(taker'.side)
    BY <1>2, <1>4, <1>13, <1>14
  <2>2. ASSUME NEW h \in Touched', NEW o \in before' \cap Resting', o.side = h.side PROVE Precedes(h.side, h, o)
    <3>1. o \in before /\ o \in Resting /\ o # m
      BY <1>3, <1>11, <1>12
    <3>2. CASE h \in Touched
      BY <1>7, <2>2, <3>1, <3>2 DEF Ranked
    <3>3. CASE h = m
      BY <1>2, <2>2, <3>1, <3>3
    <3> QED BY <1>13, <3>2, <3>3
  <2> QED BY <2>1, <2>2 DEF Ranked
<1>22. Spent'
  <2> SUFFICES ASSUME taker'.qty > 0, NEW h \in Touched', NEW r \in Resting' PROVE r.id # h.id
    BY DEF Spent
  <2>1. q = m.qty
    BY <1>2, <1>4, <1>8
  <2>2. CASE h \in Touched
    BY <1>15, <2>2
  <2>3. CASE h = m
    BY <1>11, <1>12, <2>1, <2>3
  <2> QED BY <1>13, <2>2, <2>3
<1> QED BY <1>9, <1>10, <1>13, <1>14, <1>16, <1>17, <1>18, <1>19, <1>20, <1>21, <1>22, SMTT(30) DEF m, q

\* A report names an order, its price and a quantity, under a number.
ReportOf(k, o, q) == [trade_id |-> k, passive |-> o.id, match_price |-> o.price, match_qty |-> q]

\* How many orders of T have priority over o.
Rank(T, o) == Cardinality({h \in T : Precedes(o.side, h, o)})

\* The trades tr, numbered up to c, tell in their order of priority what the
\* orders in T have lost, R being what still rests.
Reported(T, R, tr, c) ==
    /\ Len(tr) = IF Cardinality(T) < MaxTrades THEN Cardinality(T) ELSE MaxTrades
    /\ \A i \in 1..Len(tr) : \E o \in T :
          /\ tr[i] = ReportOf(c - Len(tr) + i, o, o.qty - LeftIn(R, o))
          /\ Rank(T, o) = i - 1

\* ReportsTrue in these terms.
LEMMA ReportsAreReported ==
    ASSUME BookInv, CallInv
    PROVE  ReportsTrue <=> Reported(Touched, Resting, out_trades, trade_counter)
<1>1. Hit = Touched
  BY HitIsTouched
<1>2. out_trades \in Seq(Trades) /\ DOMAIN out_trades = 1..Len(out_trades)
  BY DEF CallInv
<1>3. \A a, b \in Touched : a.side = b.side /\ a.side \in {1, 2}
  <2>1. CASE taker = NoOrder
    BY <2>1 DEF CallInv, Touched
  <2>2. CASE taker # NoOrder
    <3>1. \A a \in Touched : a.side = Opposite(taker.side) /\ a \in BookOrder
      BY <2>2 DEF CallInv, Ranked, Touched
    <3> QED BY <3>1 DEF BookOrder, Sides
  <2> QED BY <2>1, <2>2
<1>4. ASSUME NEW o \in Touched
      PROVE  {h \in Hit : PriceTime!Before(h, o)} = {h \in Touched : Precedes(o.side, h, o)}
  <2>1. ASSUME NEW h \in Touched PROVE PriceTime!Before(h, o) <=> Precedes(o.side, h, o)
    <3>1. h.side = o.side /\ (o.side = 1 \/ o.side = 2)
      BY <1>3
    <3> QED BY <3>1 DEF PriceTime!Before, Precedes, Better
  <2> QED BY <1>1, <2>1
<1>5. ASSUME NEW o, NEW i
      PROVE  [trade_id |-> trade_counter - Len(out_trades) + i, passive |-> o.id,
              match_price |-> o.price, match_qty |-> o.qty - Left(o)]
             = ReportOf(trade_counter - Len(out_trades) + i, o, o.qty - LeftIn(Resting, o))
  BY DEF ReportOf, Left, LeftIn
<1> DEFINE Rep(i, o) == /\ out_trades[i] = ReportOf(trade_counter - Len(out_trades) + i, o, o.qty - LeftIn(Resting, o))
                        /\ Rank(Touched, o) = i - 1
<1>6. ReportsTrue <=>
         /\ Len(out_trades) = IF Cardinality(Touched) < MaxTrades THEN Cardinality(Touched) ELSE MaxTrades
         /\ \A i \in 1..Len(out_trades) : \E o \in Touched : Rep(i, o)
  BY <1>1, <1>2, <1>4, <1>5 DEF ReportsTrue, Rank
<1> QED BY <1>6 DEF Reported

\* The same in the state after a step.
LEMMA ReportsAreReportedNext ==
    BookInv' /\ CallInv' => (ReportsTrue' <=> Reported(Touched', Resting', out_trades', trade_counter'))
<1>1. BookInv /\ CallInv => (ReportsTrue <=> Reported(Touched, Resting, out_trades, trade_counter))
  BY ReportsAreReported
<1>2. (BookInv /\ CallInv => (ReportsTrue <=> Reported(Touched, Resting, out_trades, trade_counter)))'
  BY <1>1, PTL
<1> QED BY <1>2 DEF Reported

\* One more order is touched, after all others, and reported if there is room.
LEMMA ReportAppended ==
    ASSUME NEW T, IsFiniteSet(T), \A h \in T : h \in BookOrder, NEW m \in BookOrder, m \notin T,
           \A h \in T : h.side = m.side /\ Precedes(m.side, h, m),
           NEW R, NEW R2, \A h \in T : LeftIn(R2, h) = LeftIn(R, h),
           NEW q, q \in Nat, LeftIn(R2, m) = m.qty - q,
           NEW tr \in Seq(Trades), NEW c \in Nat, NEW tr2, NEW c2, Reported(T, R, tr, c),
           Len(tr) < MaxTrades => c2 = c + 1 /\ tr2 = Append(tr, ReportOf(c + 1, m, q)),
           ~(Len(tr) < MaxTrades) => c2 = c /\ tr2 = tr
    PROVE  Reported(T \cup {m}, R2, tr2, c2)
<1> DEFINE T2 == T \cup {m}
           n == Cardinality(T)
<1>1. n \in Nat /\ IsFiniteSet(T2) /\ Cardinality(T2) = n + 1 /\ MaxTrades \in Nat
  <2>1. n \in Nat
    BY FS_CardinalityType
  <2>2. IsFiniteSet(T2) /\ Cardinality(T2) = n + 1
    BY FS_AddElement
  <2> QED BY <2>1, <2>2, BookAssumption
<1>2. Len(tr) = IF n < MaxTrades THEN n ELSE MaxTrades
  BY DEF Reported
<1>3. m.side \in {1, 2} /\ m.price \in Nat /\ m.id \in Nat /\ m.qty \in Nat
  BY DEF BookOrder, Sides
<1>4. ~Precedes(m.side, m, m)
  BY <1>3 DEF Precedes, Better
<1>5. ASSUME NEW o \in T
      PROVE  {h \in T2 : Precedes(o.side, h, o)} = {h \in T : Precedes(o.side, h, o)}
  <2>1. o.side = m.side /\ Precedes(m.side, o, m) /\ o.price \in Nat /\ o.id \in Nat
    BY DEF BookOrder
  <2>2. ~Precedes(o.side, m, o)
    BY <1>3, <2>1, SMTT(30) DEF Precedes, Better
  <2> QED BY <2>2
<1>6. {h \in T2 : Precedes(m.side, h, m)} = T
  BY <1>4
<1>7. ASSUME NEW i \in 1..Len(tr)
      PROVE  \E o \in T2 : /\ tr[i] = ReportOf(c - Len(tr) + i, o, o.qty - LeftIn(R2, o))
                           /\ Rank(T2, o) = i - 1
  <2>1. PICK o \in T : /\ tr[i] = ReportOf(c - Len(tr) + i, o, o.qty - LeftIn(R, o))
                       /\ Rank(T, o) = i - 1
    BY DEF Reported
  <2>2. tr[i] = ReportOf(c - Len(tr) + i, o, o.qty - LeftIn(R2, o))
    BY <2>1
  <2>3. Rank(T2, o) = i - 1
    BY <1>5, <2>1 DEF Rank
  <2> QED BY <2>2, <2>3
<1>8. CASE ~(Len(tr) < MaxTrades)
  <2>1. Len(tr) = IF Cardinality(T2) < MaxTrades THEN Cardinality(T2) ELSE MaxTrades
    BY <1>1, <1>2, <1>8
  <2>2. c2 = c /\ tr2 = tr
    BY <1>8
  <2> HIDE DEF T2
  <2>3. Reported(T2, R2, tr, c)
    BY <1>7, <2>1 DEF Reported
  <2> QED BY <2>2, <2>3 DEF T2
<1>9. CASE Len(tr) < MaxTrades
  <2> DEFINE e == ReportOf(c + 1, m, q)
  <2>1. c2 = c + 1 /\ tr2 = Append(tr, e) /\ Len(tr) \in Nat
    BY <1>9
  <2> HIDE DEF e, T2, n
  <2>2. Len(tr2) = Len(tr) + 1 /\ (\A i \in 1..Len(tr) : tr2[i] = tr[i]) /\ tr2[Len(tr) + 1] = e
    BY <2>1
  <2>3. Len(tr) = n
    BY <1>1, <1>2, <1>9
  <2>4. Len(tr2) = IF Cardinality(T2) < MaxTrades THEN Cardinality(T2) ELSE MaxTrades
    BY <1>1, <1>9, <2>2, <2>3
  <2>5. ASSUME NEW i \in 1..Len(tr2)
        PROVE  \E o \in T2 : /\ tr2[i] = ReportOf(c2 - Len(tr2) + i, o, o.qty - LeftIn(R2, o))
                             /\ Rank(T2, o) = i - 1
    <3>1. CASE i \in 1..Len(tr)
      <4>1. c2 - Len(tr2) + i = c - Len(tr) + i
        BY <2>1, <2>2, <3>1
      <4> QED BY <1>7, <2>2, <3>1, <4>1
    <3>2. CASE i = Len(tr) + 1
      <4>1. c2 - Len(tr2) + i = c + 1
        BY <2>1, <2>2, <3>2
      <4>2. m.qty - LeftIn(R2, m) = q
        BY <1>3
      <4>3. tr2[i] = ReportOf(c2 - Len(tr2) + i, m, m.qty - LeftIn(R2, m))
        BY <2>2, <3>2, <4>1, <4>2 DEF e
      <4>4. Rank(T2, m) = i - 1
        <5>1. i - 1 = n
          BY <1>1, <2>3, <3>2
        <5>2. Rank(T2, m) = n
          BY <1>6 DEF Rank, n
        <5> QED BY <5>1, <5>2
      <4>5. m \in T2
        BY DEF T2
      <4> QED BY <4>3, <4>4, <4>5
    <3> QED BY <2>1, <2>2, <3>1, <3>2
  <2>6. Reported(T2, R2, tr2, c2)
    BY <2>4, <2>5 DEF Reported
  <2> QED BY <2>6 DEF T2
<1> QED BY <1>8, <1>9

\* At the start of a call nothing is touched, and nothing reported.
LEMMA SubmitKeepsCall ==
    ASSUME BookInv, CallInv, Submit
    PROVE  CallInv' /\ Reported(Touched', Resting', out_trades', trade_counter')
<1>1. /\ BookInv' /\ Resting' = Resting /\ before' = Resting /\ taker = NoOrder /\ UNCHANGED <<out_trades, trade_counter>>
      /\ taker' # NoOrder
  <2>1. \E s \in Sides, p \in Prices, q \in Quantities : taker' = [id |-> last + 1, side |-> s, price |-> p, qty |-> q]
    BY DEF Submit
  <2>2. taker' \in BookOrder
    BY <2>1, BookAssumption DEF BookOrder, BookInv
  <2> QED BY <2>2, SubmitKeepsBook, NoOrderIsNone DEF Submit
<1>2. Touched' = {} /\ out_trades' = <<>>
  BY <1>1 DEF Touched, CallInv
<1>3. \A o \in Resting : o \in BookOrder /\ o.qty > 0 /\ o.qty \in Nat
  BY RestingOrders DEF BookOrder
<1>4. Descend'
  BY <1>1, <1>3 DEF Descend
<1>5. Ranked' /\ Spent'
  BY <1>2 DEF Ranked, Spent
<1>6. CallInv'
  BY <1>1, <1>3, <1>4, <1>5 DEF CallInv
<1>7. Reported({}, Resting', <<>>, trade_counter')
  <2>1. Cardinality({}) = 0 /\ Len(<<>>) = 0 /\ 1..0 = {}
    BY FS_EmptySet
  <2>2. (IF 0 < MaxTrades THEN 0 ELSE MaxTrades) = 0
    BY BookAssumption
  <2> QED BY <2>1, <2>2 DEF Reported
<1> QED BY <1>2, <1>6, <1>7

\* A fill reports the order it touches.
LEMMA MatchKeepsCall ==
    ASSUME BookInv, CallInv, MatchOne, Reported(Touched, Resting, out_trades, trade_counter)
    PROVE  CallInv' /\ Reported(Touched', Resting', out_trades', trade_counter')
<1> DEFINE m == Best
           q == Traded
           T == Touched
           R == Resting
           R2 == Resting'
           tr == out_trades
           c == trade_counter
           tr2 == out_trades'
           c2 == trade_counter'
<1>1. Matches /\ taker # NoOrder
  BY ZenonT(30) DEF MatchOne, Matches
<1>2. m \in BookOrder /\ q \in Nat
  BY <1>1, BestOrder
<1>3. /\ m \notin T /\ Touched' = T \cup {m}
      /\ \A h \in T : h.side = m.side /\ Precedes(m.side, h, m)
      /\ \A h \in T : LeftIn(R2, h) = LeftIn(R, h)
      /\ LeftIn(R2, m) = m.qty - q
  BY MatchTouches
<1>4. IsFiniteSet(Resting') /\ UniqueIds(Resting') /\ Descend' /\ Ranked' /\ Spent'
  BY MatchTouches
<1>5. /\ Len(tr) < MaxTrades => c2 = c + 1 /\ tr2 = Append(tr, ReportOf(c + 1, m, q))
      /\ ~(Len(tr) < MaxTrades) => c2 = c /\ tr2 = tr
  BY MatchEffect DEF ReportOf
<1>6. IsFiniteSet(T) /\ (\A h \in T : h \in BookOrder) /\ tr \in Seq(Trades) /\ c \in Nat
  BY FS_Subset DEF CallInv, Touched
<1>7. taker' # NoOrder /\ before' = before
  BY MatchEffect
<1>8. Reported(T, R, tr, c)
  OBVIOUS
<1> HIDE DEF m, q, T, R, R2, tr, c, tr2, c2
<1>9. Reported(T \cup {m}, R2, tr2, c2)
  BY <1>2, <1>3, <1>5, <1>6, <1>8, ReportAppended
<1>10. tr2 \in Seq(Trades) /\ c2 \in Nat
  <2>1. CASE Len(tr) < MaxTrades
    <3>1. ReportOf(c + 1, m, q) \in Trades /\ c + 1 \in Nat
      BY <1>2, <1>6 DEF ReportOf, Trades, BookOrder
    <3> QED BY <1>5, <1>6, <2>1, <3>1
  <2>2. CASE ~(Len(tr) < MaxTrades)
    BY <1>5, <1>6, <2>2
  <2> QED BY <2>1, <2>2
<1>11. CallInv'
  BY <1>4, <1>7, <1>10 DEF CallInv, tr2, c2
<1> QED BY <1>3, <1>9, <1>11, SMTT(30) DEF R2, tr2, c2

\* At the end of a call the reports have been handed over.
LEMMA FinishKeepsCall ==
    ASSUME BookInv, CallInv, Finish
    PROVE  CallInv' /\ Reported(Touched', Resting', out_trades', trade_counter')
<1>1. /\ taker \in BookOrder /\ taker' = NoOrder /\ before' = {} /\ out_trades' = <<>> /\ trade_counter' = trade_counter
      /\ Resting' = Resting \/ Resting' = Resting \cup {taker}
  BY FinishEffect DEF Finish
<1>2. \A r \in Resting : r.id \in Nat /\ r.id < taker.id
  <2>1. taker # NoOrder /\ taker.id \in Nat
    BY <1>1, NoOrderIsNone DEF BookOrder
  <2>2. Placed \in Nat /\ Placed < taker.id
    BY <2>1, RestingOrders
  <2>3. \A r \in Resting : r.id \in Nat /\ r.id <= Placed
    BY RestingOrders DEF BookOrder
  <2> QED BY <2>1, <2>2, <2>3
<1>3. IsFiniteSet(Resting')
  BY <1>1, FS_AddElement DEF CallInv
<1>4. UniqueIds(Resting')
  <2>1. taker.id \in Nat /\ UniqueIds(Resting)
    BY <1>1 DEF BookOrder, CallInv
  <2> QED BY <1>1, <1>2, <2>1 DEF UniqueIds
<1>5. Touched' = {}
  BY <1>1 DEF Touched
<1>6. IsFiniteSet({}) /\ Cardinality({}) = 0
  BY FS_EmptySet
<1>7. CallInv'
  BY <1>1, <1>3, <1>4, <1>6 DEF CallInv, UniqueIds
<1>8. Reported({}, Resting', <<>>, trade_counter')
  <2>1. Len(<<>>) = 0 /\ 1..0 = {}
    OBVIOUS
  <2>2. (IF 0 < MaxTrades THEN 0 ELSE MaxTrades) = 0
    BY BookAssumption
  <2> QED BY <1>6, <2>1, <2>2 DEF Reported
<1> QED BY <1>1, <1>5, <1>7, <1>8

\* The invariant of a call, with what the reports say, holds in every step.
LEMMA StepKeepsReports ==
    BookInv /\ BookInv' /\ CallInv /\ ReportsTrue /\ [Next]_vars => CallInv' /\ ReportsTrue'
<1> SUFFICES ASSUME BookInv, BookInv', CallInv, ReportsTrue, [Next]_vars PROVE CallInv' /\ ReportsTrue'
  OBVIOUS
<1>1. Reported(Touched, Resting, out_trades, trade_counter)
  BY ReportsAreReported
<1>2. ASSUME CallInv', Reported(Touched', Resting', out_trades', trade_counter') PROVE CallInv' /\ ReportsTrue'
  BY <1>2, ReportsAreReportedNext
<1>3. CASE Submit
  BY <1>2, <1>3, SubmitKeepsCall
<1>4. CASE MatchOne
  BY <1>1, <1>2, <1>4, MatchKeepsCall
<1>5. CASE Finish
  BY <1>2, <1>5, FinishKeepsCall
<1>6. CASE Stop \/ UNCHANGED vars
  <2>1. UNCHANGED vars /\ Resting' = Resting
    BY <1>6, SameBook DEF Stop, vars
  <2>2. Touched' = Touched
    BY <2>1 DEF Touched, vars
  <2>3. CallInv'
    BY <2>1, <2>2 DEF CallInv, Descend, Ranked, Spent, vars
  <2>4. Reported(Touched', Resting', out_trades', trade_counter')
    BY <1>1, <2>1, <2>2 DEF vars
  <2> QED BY <1>2, <2>3, <2>4
<1> QED BY <1>3, <1>4, <1>5, <1>6 DEF Next

\* The execution reports of every call of submit_order name the resting orders
\* that lost quantity, once each and in their priority, with their own price
\* and what they lost, under consecutive numbers, whatever the size of the
\* caller's array.
THEOREM ReportsStayTrue == Spec => []ReportsTrue
<1>1. Init => CallInv /\ ReportsTrue
  <2> SUFFICES ASSUME Init PROVE CallInv /\ ReportsTrue
    OBVIOUS
  <2>1. BookInv /\ Resting = {}
    BY InitBook
  <2>2. taker = NoOrder /\ before = {} /\ out_trades = <<>> /\ trade_counter = 0
    BY DEF Init
  <2>3. IsFiniteSet({}) /\ Cardinality({}) = 0
    BY FS_EmptySet
  <2>4. CallInv
    BY <2>1, <2>2, <2>3 DEF CallInv, UniqueIds
  <2>5. Touched = {}
    BY <2>2 DEF Touched
  <2>6. Reported({}, Resting, <<>>, trade_counter)
    <3>1. Len(<<>>) = 0 /\ 1..0 = {}
      OBVIOUS
    <3>2. (IF 0 < MaxTrades THEN 0 ELSE MaxTrades) = 0
      BY BookAssumption
    <3> QED BY <2>3, <3>1, <3>2 DEF Reported
  <2> QED BY <2>1, <2>2, <2>4, <2>5, <2>6, ReportsAreReported
<1> QED BY <1>1, BookInvariance, StepKeepsReports, PTL DEF Spec
=============================================================================
