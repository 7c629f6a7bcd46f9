--------------------------- MODULE MatchingEngine ---------------------------
(***************************************************************************)
(* MatchingEngine and its MatchingBooks: one book per symbol, created when *)
(* the symbol is first seen, each side a vector of orders kept sorted by   *)
(* price.  process_order is single-threaded; Route is its entry, MatchFront*)
(* one iteration of the matching loop of submit_order, Rest what follows.  *)
(* The module MatchingWorker calls it.                                     *)
(***************************************************************************)
EXTENDS Integers, Sequences, FiniteSets, SequencesExt, FiniteSetsExt

CONSTANTS Symbols,              \* bound: symbols of the orders
          EmptySymbol,          \* the symbol of an order without one
          DefaultSymbol,        \* "PETR4"
          Prices, Quantities,   \* bounds: what orders may ask for
          MaxOrders,            \* bound: orders processed
          NoOrder

ASSUME EngineAssumption ==
    /\ DefaultSymbol \in Symbols /\ EmptySymbol \notin Symbols
    /\ Prices \subseteq Nat /\ Quantities \subseteq Nat /\ MaxOrders \in Nat
    /\ NoOrder \notin [id : Nat, side : {1, 2}, price : Int, qty : Nat]
    /\ NoOrder \notin [sym : Symbols, id : Nat, side : {1, 2}, price : Int, qty : Nat]

VARIABLES m_books,          \* the symbols that have a book -> its bids and asks
          taker,            \* the order being processed, qty its remaining_qty
          m_trade_counter,
          m_total_trades, m_total_volume,   \* per book
          last,             \* orders processed, also their arrival number
          latest,           \* history: arrival number of the latest order, per symbol
          submitted         \* history: quantity of all orders, per symbol

engineVars == <<m_books, taker, m_trade_counter, m_total_trades, m_total_volume, last, latest, submitted>>

EmptyBook == [s \in {1, 2} |-> <<>>]        \* 1: m_bids, 2: m_asks

EngineInit ==
    /\ m_books = [sym \in {} |-> EmptyBook]
    /\ taker = NoOrder
    /\ m_trade_counter = 0
    /\ m_total_trades = [sym \in Symbols |-> 0]
    /\ m_total_volume = [sym \in Symbols |-> 0]
    /\ last = 0
    /\ latest = [sym \in Symbols |-> 0]
    /\ submitted = [sym \in Symbols |-> 0]

BookKey(sym) == IF sym = EmptySymbol THEN DefaultSymbol ELSE sym

BookOf(sym) == IF sym \in DOMAIN m_books THEN m_books[sym] ELSE EmptyBook

\* process_order: find or create the book of the order's symbol.
Route(sym, s, p, q) ==
    /\ taker = NoOrder /\ last < MaxOrders /\ s \in {1, 2}
    /\ last' = last + 1
    /\ LET key == BookKey(sym)
       IN  /\ taker' = [sym |-> key, id |-> last + 1, side |-> s, price |-> p, qty |-> q]
           /\ m_books' = [b \in DOMAIN m_books \cup {key} |-> BookOf(b)]
           /\ latest' = [latest EXCEPT ![key] = last + 1]
           /\ submitted' = [submitted EXCEPT ![key] = @ + q]
    /\ UNCHANGED <<m_trade_counter, m_total_trades, m_total_volume>>

\* submit_order does nothing with any other side; the book has been created.
RouteNoSide(sym, s) ==
    /\ taker = NoOrder /\ s \notin {1, 2}
    /\ m_books' = [b \in DOMAIN m_books \cup {BookKey(sym)} |-> BookOf(b)]
    /\ UNCHANGED <<taker, m_trade_counter, m_total_trades, m_total_volume, last, latest, submitted>>

Other == m_books[taker.sym][3 - taker.side]

\* order.price < best_ask.price, order.price > best_bid.price: stop.
LimitReached(price) ==
    IF taker.side = 1 THEN taker.price < price ELSE taker.price > price

Matches ==
    /\ taker # NoOrder
    /\ Other # <<>> /\ taker.qty > 0
    /\ ~LimitReached(Head(Other).price)

\* The matched part leaves the front order; a spent one is erased.
TakeFrontErases(side, qty) == Tail(side)
TakeFront(side, qty) ==
    IF Head(side).qty = qty THEN Tail(side)
    ELSE <<[Head(side) EXCEPT !.qty = @ - qty]>> \o Tail(side)

MatchFront ==
    /\ Matches
    /\ LET front == Head(Other)
           match_qty == IF taker.qty < front.qty THEN taker.qty ELSE front.qty
       IN  /\ taker' = [taker EXCEPT !.qty = @ - match_qty]
           /\ m_books' = [m_books EXCEPT ![taker.sym][3 - taker.side] = TakeFront(@, match_qty)]
           /\ m_total_volume' = [m_total_volume EXCEPT ![taker.sym] = @ + match_qty]
    /\ m_total_trades' = [m_total_trades EXCEPT ![taker.sym] = @ + 1]
    /\ m_trade_counter' = m_trade_counter + 1
    /\ UNCHANGED <<last, latest, submitted>>

\* std::upper_bound by price: behind all orders of the same price.
InsertSortedFirst(side, o) ==
    LET worse == {i \in DOMAIN side : IF o.side = 1 THEN side[i].price <= o.price ELSE side[i].price >= o.price}
    IN  InsertAt(side, IF worse = {} THEN Len(side) + 1 ELSE Min(worse), o)
InsertSorted(side, o) ==
    LET worse == {i \in DOMAIN side : IF o.side = 1 THEN side[i].price < o.price ELSE side[i].price > o.price}
    IN  InsertAt(side, IF worse = {} THEN Len(side) + 1 ELSE Min(worse), o)

Entry == [id |-> taker.id, side |-> taker.side, price |-> taker.price, qty |-> taker.qty]

Rest ==
    /\ taker # NoOrder /\ ~Matches
    /\ IF taker.qty > 0
         THEN m_books' = [m_books EXCEPT ![taker.sym][taker.side] = InsertSorted(@, Entry)]
         ELSE UNCHANGED m_books
    /\ taker' = NoOrder
    /\ UNCHANGED <<m_trade_counter, m_total_trades, m_total_volume, last, latest, submitted>>

----------------------------------------------------------------------------
(* Properties.                                                             *)

\* Every book keeps price-time priority of its own symbol, whatever orders of
\* the other symbols are processed in between, and discards nothing.
Resting(sym) == ToSet(BookOf(sym)[1]) \cup ToSet(BookOf(sym)[2])
TakerOf(sym) == IF taker = NoOrder \/ taker.sym # sym THEN NoOrder ELSE Entry
Book(sym) ==
    INSTANCE PriceTimeBook WITH resting <- Resting(sym), taker <- TakerOf(sym),
                                last <- latest[sym], noPlace <- FALSE
ImplementsPriceTime ==
    /\ \A sym \in Symbols : Book(sym)!Init
    /\ [][\A sym \in Symbols : [Book(sym)!Next]_(Book(sym)!vars)]_engineVars

\* No quantity is created or lost in any book: what was submitted is resting,
\* in the hands of submit_order, or traded (one unit of volume uses one unit
\* of each side).
Units(orders) == UNION {{o} \X (1..o.qty) : o \in orders}
SumQty(orders) == Cardinality(Units(orders))
QuantityConserved ==
    \A sym \in Symbols :
        submitted[sym] = SumQty(Resting(sym)) + 2 * m_total_volume[sym]
                         + (IF TakerOf(sym) = NoOrder THEN 0 ELSE taker.qty)
=============================================================================
