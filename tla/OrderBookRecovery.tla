------------------------- MODULE OrderBookRecovery -------------------------
(***************************************************************************)
(* OrderBookRecoveryManager: rebuilds a book from a snapshot (35=W) and the*)
(* incremental updates (35=X) that were buffered while it was awaited.     *)
(* The two messages travel on different channels, so a snapshot may be     *)
(* taken before or after the updates that have been delivered.  The caller *)
(* is external: it delivers updates in order and calls trigger_recovery    *)
(* when it has lost one.  Updates carry no side and change m_bids only;    *)
(* m_asks is what the last snapshot said.  The counters of buffered,       *)
(* replayed and discarded updates are left out.                            *)
(***************************************************************************)
EXTENDS Integers, Sequences, FiniteSets, SequencesExt, FiniteSetsExt

CONSTANTS MaxLevels,            \* levels of a FlatOrderBook (1024)
          Prices,               \* bound: the prices updates may name
          Updates,              \* bound: n |-> what update n may say
          AskImages,            \* bound: n |-> the asks of a snapshot after n updates, in any order
          MaxUpdates            \* bound: length of the feed

Level == [price : Nat, qty : Nat \ {0}]

\* A list of levels as an exchange sends it names no price twice.
Listing(us) == us \in Seq(Level) /\ \A i, j \in 1..Len(us) : i # j => us[i].price # us[j].price

ASSUME RecoveryAssumption ==
    /\ MaxLevels \in Nat /\ MaxLevels >= 1
    /\ Prices \subseteq Nat /\ IsFiniteSet(Prices) /\ MaxUpdates \in Nat
    /\ \A n \in 1..MaxUpdates : Updates[n] \subseteq [price : Prices, qty : Nat]
    /\ AskImages[0] = <<>> /\ \A n \in 0..MaxUpdates : Listing(AskImages[n])

VARIABLES feed,                 \* the exchange's updates so far
          images,               \* images[n + 1]: its quantity at each price after n of them
          next,                 \* seq_num of the next update to deliver
          m_state, m_bids, m_asks, m_buffered_incrementals, m_last_applied_seq,
          covered,              \* history: seq_num the last snapshot reached to
          resumed               \* history: the update that was next when it was applied

managerVars == <<m_state, m_bids, m_asks, m_buffered_incrementals, m_last_applied_seq>>
recoveryVars == <<feed, images, next, managerVars, covered, resumed>>

----------------------------------------------------------------------------
(* FlatOrderBook<MaxLevels, IsBid>: a sequence of levels, best price first.*)

PlaceBefore(isBid, price, other) == IF isBid THEN price > other ELSE price < other

\* The index at which the loop of insert_or_update stops.
StopAt(isBid, book, price) ==
    Min({i \in 1..(Len(book) + 1) :
            i <= Len(book) => book[i].price = price \/ PlaceBefore(isBid, price, book[i].price)})

\* insert_or_update: a full book takes no further level.
InsertOrUpdateBeforeEqual(isBid, book, price, qty) ==
    IF Len(book) < MaxLevels
      THEN InsertAt(book, StopAt(isBid, book, price), [price |-> price, qty |-> qty]) ELSE book
InsertOrUpdate(isBid, book, price, qty) ==
    LET i == StopAt(isBid, book, price)
        level == [price |-> price, qty |-> qty]
    IN  IF i <= Len(book) /\ book[i].price = price THEN ReplaceAt(book, i, level)
        ELSE IF Len(book) < MaxLevels THEN InsertAt(book, i, level)
        ELSE book

\* erase: the first level with that price.
Erase(book, price) ==
    LET found == {i \in 1..Len(book) : book[i].price = price}
    IN  IF found = {} THEN book ELSE RemoveAt(book, Min(found))

\* apply_incremental, whose action '2', Delete, is a quantity of 0 here; it
\* always changes the bids.
Apply(isBid, book, u) ==
    IF u.qty = 0 THEN Erase(book, u.price) ELSE InsertOrUpdate(isBid, book, u.price, u.qty)

\* clear() and then one update after the other.
Skip == [price |-> -1, qty |-> 0]
Rebuild(isBid, us) ==
    LET b[k \in 0..Len(us)] ==
            IF k = 0 THEN <<>> ELSE IF us[k] = Skip THEN b[k - 1] ELSE Apply(isBid, b[k - 1], us[k])
    IN  b[Len(us)]

----------------------------------------------------------------------------
(* The exchange (external).                                                *)

QtyAt(n, p) == images[n + 1][p]

\* Its bids after n updates, as the levels of a snapshot.
TrueLevels(n) == {[price |-> p, qty |-> QtyAt(n, p)] : p \in {q \in Prices : QtyAt(n, q) > 0}}

Publish ==
    /\ Len(feed) < MaxUpdates
    /\ \E u \in Updates[Len(feed) + 1] :
          /\ feed' = Append(feed, u)
          /\ images' = Append(images, [images[Len(feed) + 1] EXCEPT ![u.price] = u.qty])
    /\ UNCHANGED <<next, managerVars, covered, resumed>>

----------------------------------------------------------------------------
(* OrderBookRecoveryManager.                                               *)

RecoveryInit ==
    /\ feed = <<>> /\ images = <<[p \in Prices |-> 0]>> /\ next = 1
    /\ m_state = "RECOVERING"
    /\ m_bids = <<>> /\ m_asks = <<>> /\ m_buffered_incrementals = <<>>
    /\ m_last_applied_seq = 0
    /\ covered = 0 /\ resumed = 1

\* process_incremental while recovering.
BufferIncremental ==
    /\ m_state = "RECOVERING" /\ next <= Len(feed)
    /\ m_buffered_incrementals' = Append(m_buffered_incrementals, next)
    /\ next' = next + 1
    /\ UNCHANGED <<feed, images, m_state, m_bids, m_asks, m_last_applied_seq, covered, resumed>>

\* process_incremental while synchronized: applied whatever its number.
ApplyIncremental ==
    /\ m_state = "SYNCHRONIZED" /\ next <= Len(feed)
    /\ m_bids' = Apply(TRUE, m_bids, feed[next])
    /\ m_last_applied_seq' = next
    /\ next' = next + 1
    /\ UNCHANGED <<feed, images, m_state, m_asks, m_buffered_incrementals, covered, resumed>>

\* apply_snapshot: the snapshot's levels, then the fresh ones of the buffered
\* updates; the others are skipped.
FreshInclusive(n, seq) == seq > n + 1
Fresh(n, seq) == seq > n

Replayed(n) ==
    [k \in 1..Len(m_buffered_incrementals) |->
        IF Fresh(n, m_buffered_incrementals[k]) THEN feed[m_buffered_incrementals[k]] ELSE Skip]

ApplySnapshot(n, bids) ==
    /\ m_bids' = Rebuild(TRUE, bids \o Replayed(n))
    /\ m_asks' = Rebuild(FALSE, AskImages[n])
    /\ m_last_applied_seq' = Max({n} \cup {k \in ToSet(m_buffered_incrementals) : Fresh(n, k)})
    /\ m_buffered_incrementals' = <<>>
    /\ m_state' = "SYNCHRONIZED"
    /\ covered' = n /\ resumed' = next
    /\ UNCHANGED <<feed, images, next>>

\* The caller passes a snapshot on if no update after it was lost: every one
\* delivered since is in the buffer.
CoveringSnapshot ==
    \E n \in 0..Len(feed) :
        /\ n >= next - 1 - Len(m_buffered_incrementals)
        /\ \E bids \in SetToSeqs(TrueLevels(n)) : ApplySnapshot(n, bids)

\* An update is lost and the caller notices: trigger_recovery.
TriggerRecovery ==
    /\ next <= Len(feed)
    /\ next' = next + 1
    /\ m_state' = "RECOVERING"
    /\ m_buffered_incrementals' = <<>>
    /\ UNCHANGED <<feed, images, m_bids, m_asks, m_last_applied_seq, covered, resumed>>

RecoveryNext ==
    \/ Publish
    \/ BufferIncremental \/ ApplyIncremental \/ CoveringSnapshot \/ TriggerRecovery

RecoverySpec == RecoveryInit /\ [][RecoveryNext]_recoveryVars

----------------------------------------------------------------------------
(* Properties.                                                             *)

\* Once the incrementals have caught up with the snapshot, a synchronized book
\* holds the exchange's levels after the last delivered update: no update
\* before, during or after the recovery is missed, and re-applying those that
\* the snapshot already contained, as process_incremental does, does no lasting
\* harm.  This needs room: an update that a full FlatOrderBook turns away never
\* comes back.  After a snapshot the exchange's own levels must fit; while old
\* updates are re-applied to a newer image, the levels of both together.
Held(n) == {p \in Prices : QtyAt(n, p) > 0 \/ (n < covered /\ QtyAt(covered, p) > 0)}
Room == \A n \in 0..Len(feed) : n >= covered \/ n >= resumed => Cardinality(Held(n)) <= MaxLevels
CaughtUpBookIsTrue ==
    (m_state = "SYNCHRONIZED" /\ next > covered /\ Room) => ToSet(m_bids) = TrueLevels(next - 1)

\* Both sides stay strictly sorted, best first, also in a book at its limit,
\* which insert_or_update and erase rely on; and the asks hold the levels of
\* the last snapshot, in whatever order it listed them, and nothing of an
\* earlier one.
Sorted(isBid, book) ==
    /\ Len(book) <= MaxLevels
    /\ \A i, j \in 1..Len(book) : i < j => PlaceBefore(isBid, book[i].price, book[j].price)
LevelsSorted ==
    /\ Sorted(TRUE, m_bids) /\ Sorted(FALSE, m_asks)
    /\ LET asks == AskImages[covered]
       IN  /\ ToSet(m_asks) \subseteq ToSet(asks)
           /\ Len(asks) <= MaxLevels => ToSet(asks) = ToSet(m_asks)
=============================================================================
