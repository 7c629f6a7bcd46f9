----------------------------- MODULE OrderBook -----------------------------
(***************************************************************************)
(* ZeroAllocHftOrderBook: the allocation-free limit order book of          *)
(* HftOrderBookEngine.  Price levels live in a fixed pool per side; the    *)
(* side's array of level pointers is kept sorted, best price first; each   *)
(* level is a circular array of orders in arrival order.                   *)
(*                                                                         *)
(* submit_order is single-threaded.  It is modelled by Submit (its entry), *)
(* one MatchOne per iteration of its matching loops and Finish (what       *)
(* follows the loops); between Submit and Finish nothing else can happen.  *)
(***************************************************************************)
EXTENDS Integers, Sequences, FiniteSets, SequencesExt, FiniteSetsExt

CONSTANTS MaxBookLevels,        \* MAX_BOOK_LEVELS (64)
          MaxOrdersPerLevel,    \* MAX_ORDERS_PER_LEVEL (32)
          MaxTrades,            \* max_trades, the size of the caller's trade_batch (16)
          DepthRows,            \* levels of a side in a TopOfBookSnapshot (5)
          Prices, Quantities,   \* bounds: what orders may ask for
          MaxOrders,            \* bound: orders submitted
          NoOrder

ASSUME BookAssumption ==
    /\ MaxBookLevels \in Nat /\ MaxBookLevels >= 1
    /\ MaxOrdersPerLevel \in Nat /\ MaxOrdersPerLevel >= 1
    /\ MaxTrades \in Nat /\ DepthRows \in Nat /\ MaxOrders \in Nat
    /\ Prices \subseteq Nat \ {0} /\ Quantities \subseteq Nat
    /\ NoOrder \notin [id : Nat, side : {1, 2}, price : Nat, qty : Nat]

VARIABLES pool,         \* pool[side][k]: the k-th PriceLevel of m_bid_pool / m_ask_pool
          levels,       \* m_bids / m_asks: indices into the pool, best first
          free,         \* m_bid_free_list / m_ask_free_list, a stack
          taker,        \* the order in submit_order, its quantity being remaining_qty
          out_trades,   \* the first trades_generated entries, all the caller reads
          trade_counter,
          m_total_trades, m_total_volume,
          last,         \* orders submitted, also their arrival number
          before        \* history: the resting orders when the call began

vars == <<pool, levels, free, taker, out_trades, trade_counter,
          m_total_trades, m_total_volume, last, before>>

Sides == {1, 2}         \* order.side: 1 buy, 2 sell
Opposite(s) == 3 - s
PoolSlots == 1..MaxBookLevels
Ring == 0..(MaxOrdersPerLevel - 1)

EmptyLevel == [price |-> 0, orders |-> [i \in Ring |-> [id |-> 0, qty |-> 0]],
               head |-> 0, count |-> 0, total |-> 0]

Init ==
    /\ pool = [s \in Sides |-> [k \in PoolSlots |-> EmptyLevel]]
    /\ levels = [s \in Sides |-> <<>>]
    /\ free = [s \in Sides |-> [k \in PoolSlots |-> k]]
    /\ taker = NoOrder
    /\ out_trades = <<>> /\ trade_counter = 0
    /\ m_total_trades = 0 /\ m_total_volume = 0
    /\ last = 0 /\ before = {}

----------------------------------------------------------------------------
(* PriceLevel.                                                             *)

\* reset(): the orders array is left as it is.
LevelReset(l) == [l EXCEPT !.price = 0, !.head = 0, !.count = 0, !.total = 0]

\* pop_front_order().
PopFront(l) ==
    [l EXCEPT !.count = @ - 1,
              !.head = IF l.count = 1 THEN 0 ELSE (@ + 1) % MaxOrdersPerLevel]

\* push_back_order(): a full level takes nothing.
PushBackAtHead(l, id, qty) ==
    IF l.count = MaxOrdersPerLevel THEN l
    ELSE [l EXCEPT !.orders[l.count] = [id |-> id, qty |-> qty],
                   !.count = @ + 1, !.total = @ + qty]
PushBack(l, id, qty) ==
    IF l.count = MaxOrdersPerLevel THEN l
    ELSE [l EXCEPT !.orders[(l.head + l.count) % MaxOrdersPerLevel] = [id |-> id, qty |-> qty],
                   !.count = @ + 1, !.total = @ + qty]

\* The front order gives up qty; total_qty follows; a spent order is popped.
FillFrontKeepsTotal(l, qty) ==
    LET f == [l EXCEPT !.orders[l.head].qty = @ - qty]
    IN  IF f.orders[f.head].qty = 0 THEN PopFront(f) ELSE f
FillFront(l, qty) ==
    LET f == [l EXCEPT !.orders[l.head].qty = @ - qty, !.total = @ - qty]
    IN  IF f.orders[f.head].qty = 0 THEN PopFront(f) ELSE f

----------------------------------------------------------------------------
(* submit_order.                                                           *)

Level(s, k) == pool[s][levels[s][k]]

\* The live orders of a level, oldest first.
Queue(l) == [i \in 1..l.count |-> l.orders[(l.head + i - 1) % MaxOrdersPerLevel]]

OrderIn(s, l, i) == [id |-> Queue(l)[i].id, side |-> s, price |-> l.price, qty |-> Queue(l)[i].qty]
LevelOrders(s, l) == {OrderIn(s, l, i) : i \in 1..l.count}

Resting == UNION {UNION {LevelOrders(s, Level(s, k)) : k \in 1..Len(levels[s])} : s \in Sides}

\* For an order of another side the code returns at once, with nothing changed.
Submit ==
    /\ taker = NoOrder /\ last < MaxOrders
    /\ last' = last + 1
    /\ \E s \in Sides, p \in Prices, q \in Quantities :
          taker' = [id |-> last + 1, side |-> s, price |-> p, qty |-> q]
    /\ before' = Resting
    /\ UNCHANGED <<pool, levels, free, out_trades, trade_counter, m_total_trades, m_total_volume>>

\* The limit test of the matching loop against the best level's price.
LimitReachedStrict(price) ==
    IF taker.side = 1 THEN taker.price <= price ELSE taker.price >= price
LimitReached(price) ==
    IF taker.side = 1 THEN taker.price < price ELSE taker.price > price

Matches ==
    /\ taker # NoOrder
    /\ LET o == Opposite(taker.side)
       IN  /\ levels[o] # <<>>
           /\ taker.qty > 0
           /\ ~LimitReached(pool[o][Head(levels[o])].price)

\* The execution report of one fill; only a fill that finds room in
\* out_trades is reported and numbered.
ReportTakerPrice(front, price, match_qty) ==
    IF Len(out_trades) < MaxTrades
      THEN /\ trade_counter' = trade_counter + 1
           /\ out_trades' = Append(out_trades,
                 [trade_id |-> trade_counter + 1, passive |-> front.id,
                  match_price |-> taker.price, match_qty |-> match_qty])
      ELSE UNCHANGED <<out_trades, trade_counter>>
Report(front, price, match_qty) ==
    IF Len(out_trades) < MaxTrades
      THEN /\ trade_counter' = trade_counter + 1
           /\ out_trades' = Append(out_trades,
                 [trade_id |-> trade_counter + 1, passive |-> front.id,
                  match_price |-> price, match_qty |-> match_qty])
      ELSE UNCHANGED <<out_trades, trade_counter>>

\* One iteration of the inner loop, and the removal of the level it empties.
MatchOne ==
    /\ Matches
    /\ LET o == Opposite(taker.side)
           best == Head(levels[o])
           front == pool[o][best].orders[pool[o][best].head]
           match_qty == IF taker.qty < front.qty THEN taker.qty ELSE front.qty
           level == FillFront(pool[o][best], match_qty)
       IN  /\ taker' = [taker EXCEPT !.qty = @ - match_qty]
           /\ pool' = [pool EXCEPT ![o][best] = level]
           /\ m_total_volume' = m_total_volume + match_qty
           /\ Report(front, pool[o][best].price, match_qty)
           /\ IF level.count = 0
                THEN /\ levels' = [levels EXCEPT ![o] = Tail(@)]
                     /\ free' = [free EXCEPT ![o] = Append(@, best)]
                ELSE UNCHANGED <<levels, free>>
    /\ m_total_trades' = m_total_trades + 1
    /\ UNCHANGED <<last, before>>

\* add_to_book: binary search for the price among the sorted levels; at is the
\* position of the level, or the one where a new level belongs.
Better(s, p, q) == IF s = 1 THEN p > q ELSE p < q

SearchLevel(s, p) ==
    LET lv == levels[s]
        bs[r \in (0..Len(lv)) \X (0..Len(lv))] ==
            LET low == r[1]
                high == r[2]
                mid == low + (high - low) \div 2
            IN  IF low >= high THEN [found |-> FALSE, at |-> low + 1]
                ELSE IF Level(s, mid + 1).price = p THEN [found |-> TRUE, at |-> mid + 1]
                ELSE IF Better(s, p, Level(s, mid + 1).price) THEN bs[<<low, mid>>]
                ELSE bs[<<mid + 1, high>>]
    IN  bs[<<0, Len(lv)>>]

\* The pool level add_to_book pushes to: the one found, or the top of the
\* free list, reset and inserted.
AddToBook(t) ==
    LET s == t.side
        hit == SearchLevel(s, t.price)
        slot == IF hit.found THEN levels[s][hit.at] ELSE Last(free[s])
        base == IF hit.found THEN pool[s][slot] ELSE [LevelReset(pool[s][slot]) EXCEPT !.price = t.price]
    IN  /\ pool' = [pool EXCEPT ![s][slot] = PushBack(base, t.id, t.qty)]
        /\ IF hit.found
             THEN UNCHANGED <<levels, free>>
             ELSE /\ levels' = [levels EXCEPT ![s] = InsertAt(@, hit.at, slot)]
                  /\ free' = [free EXCEPT ![s] = Front(@)]

\* After the loops: place the residual, unless all levels are in use; a full
\* level drops it as well.  The caller logs out_trades and is done with them.
Finish ==
    /\ taker # NoOrder /\ ~Matches
    /\ IF taker.qty > 0 /\ Len(levels[taker.side]) < MaxBookLevels
         THEN AddToBook(taker)
         ELSE UNCHANGED <<pool, levels, free>>
    /\ taker' = NoOrder /\ out_trades' = <<>> /\ before' = {}
    /\ UNCHANGED <<trade_counter, m_total_trades, m_total_volume, last>>

\* All orders have been submitted.
Stop == taker = NoOrder /\ last = MaxOrders /\ UNCHANGED vars

Next == Submit \/ MatchOne \/ Finish \/ Stop

Spec == Init /\ [][Next]_vars

----------------------------------------------------------------------------
(* HftOrderBookEngine::get_top_of_book_snapshot, taken after the worker has *)
(* been joined.                                                            *)

BestPrice(s) == IF levels[s] = <<>> THEN 0 ELSE Level(s, 1).price
BestQty(s) == IF levels[s] = <<>> THEN 0 ELSE Level(s, 1).total

\* The i-th row of a side: price, cached quantity and order count of the level.
Depth(s) ==
    [i \in 1..(IF Len(levels[s]) < DepthRows THEN Len(levels[s]) ELSE DepthRows) |->
        [price |-> Level(s, i).price, qty |-> Level(s, i).total, orders |-> Level(s, i).count]]

\* spread_price is 0 unless both sides have a best price.
Snapshot ==
    [best_price |-> [s \in Sides |-> BestPrice(s)],
     best_qty |-> [s \in Sides |-> BestQty(s)],
     spread_price |-> IF BestPrice(1) > 0 /\ BestPrice(2) > 0 /\ BestPrice(2) >= BestPrice(1)
                        THEN BestPrice(2) - BestPrice(1) ELSE 0,
     depth |-> [s \in Sides |-> Depth(s)]]

----------------------------------------------------------------------------
(* Properties.                                                             *)

\* The total quantity of a set of orders, as the number of their units.
Units(orders) == UNION {{o} \X (1..o.qty) : o \in orders}
SumQty(orders) == Cardinality(Units(orders))

\* The level pointers are strictly sorted by price, best first, which the
\* binary search of add_to_book and the match against index 0 rely on.
LevelsSorted ==
    \A s \in Sides : \A j, k \in 1..Len(levels[s]) :
        j < k => Better(s, Level(s, j).price, Level(s, k).price)

\* The cached quantity of every level in the book, which the depth report
\* prints, is the sum of its live orders, and its count their number; no level
\* in the book is empty and no live order is spent.
LevelTotalsExact ==
    \A s \in Sides : \A k \in 1..Len(levels[s]) :
        LET orders == LevelOrders(s, Level(s, k))
        IN  /\ orders # {}
            /\ \A o \in orders : o.qty > 0
            /\ Level(s, k).total = SumQty(orders)
            /\ Level(s, k).count = Cardinality(orders)

\* Every level of the pool is either in the book, once, or on the free list,
\* once: none leaks and no two pointers alias one level, however levels are
\* released by matching and acquired again.
PoolConserved ==
    \A s \in Sides :
        /\ Len(levels[s]) + Len(free[s]) = MaxBookLevels
        /\ ToSet(levels[s]) \cup ToSet(free[s]) = PoolSlots

\* The levels stay consistent through every insertion, fill and removal.
LevelsConsistent == LevelsSorted /\ LevelTotalsExact /\ PoolConserved

\* The book implements price-time priority: every fill is with the resting
\* order of best price and earliest arrival, and what is left of an order is
\* discarded only when all levels of its side are in use or the level of its
\* price is full.
NoPlace ==
    /\ taker # NoOrder
    /\ \/ Len(levels[taker.side]) = MaxBookLevels
       \/ \E k \in 1..Len(levels[taker.side]) :
             /\ Level(taker.side, k).price = taker.price
             /\ Level(taker.side, k).count = MaxOrdersPerLevel
PriceTime == INSTANCE PriceTimeBook WITH resting <- Resting, noPlace <- NoPlace
ImplementsPriceTime == PriceTime!Spec

\* The reports submit_order hands out tell what it did to the book: they name,
\* in the order of priority, the resting orders that gave up quantity, each
\* once, with its own price and the quantity it lost, under consecutive trade
\* numbers.  Only when more orders were hit than out_trades holds are the last
\* ones missing, and those get no number.
Left(o) == SumQty({r \in Resting : r.id = o.id /\ r.side = o.side})
Hit == {o \in before : Left(o) < o.qty}
ReportsTrue ==
    /\ Len(out_trades) = IF Cardinality(Hit) < MaxTrades THEN Cardinality(Hit) ELSE MaxTrades
    /\ \A i \in DOMAIN out_trades : \E o \in Hit :
          /\ out_trades[i] = [trade_id |-> trade_counter - Len(out_trades) + i, passive |-> o.id,
                              match_price |-> o.price, match_qty |-> o.qty - Left(o)]
          /\ Cardinality({h \in Hit : PriceTime!Before(h, o)}) = i - 1

\* The snapshot printed at the end agrees with the orders left in the book:
\* its k-th row is the k-th best price at which orders rest, with their total
\* quantity and number, the best bid and ask are the first rows, and the
\* spread is the distance between them.  The spread is positive whenever both
\* sides have orders: between two orders everything that crosses has traded.
At(s, p) == {o \in Resting : o.side = s /\ o.price = p}
RestingPrices(s) == {o.price : o \in {r \in Resting : r.side = s}}
SnapshotTrue ==
    taker = NoOrder =>
        /\ \A s \in Sides :
              LET rows == Snapshot.depth[s]
                  prices == RestingPrices(s)
              IN  /\ Len(rows) = IF Cardinality(prices) < DepthRows THEN Cardinality(prices) ELSE DepthRows
                  /\ \A i \in DOMAIN rows :
                        /\ rows[i].price \in prices
                        /\ Cardinality({p \in prices : Better(s, p, rows[i].price)}) = i - 1
                        /\ rows[i].qty = SumQty(At(s, rows[i].price))
                        /\ rows[i].orders = Cardinality(At(s, rows[i].price))
                  /\ IF prices = {}
                       THEN Snapshot.best_price[s] = 0 /\ Snapshot.best_qty[s] = 0
                       ELSE Snapshot.best_price[s] \in prices
                            /\ \A p \in prices : ~Better(s, p, Snapshot.best_price[s])
        /\ Snapshot.spread_price > 0 <=> RestingPrices(1) # {} /\ RestingPrices(2) # {}
=============================================================================
