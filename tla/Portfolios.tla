----------------------------- MODULE Portfolios -----------------------------
(***************************************************************************)
(* The positions and transactions of one portfolio (services/portfolio.py, *)
(* api/routes/portfolio.py).                                               *)
(*                                                                         *)
(* A request reads the instrument's transactions and its position row and  *)
(* decides; it commits later, and the requests of other workers may commit *)
(* in between.  `unsure` holds the instruments whose last commit came from *)
(* a request that had read them before another commit.                     *)
(***************************************************************************)
EXTENDS Integers, FiniteSets, Sequences, FiniteSetsExt, SequencesExt

CONSTANTS
    Symbols,
    Clients,     \* request threads
    NoRequest,
    NoPosition,  \* no position row
    TradeDates,
    Orders,      \* bound: what a transaction may be, [side, qty, price]
    ByHand,      \* bound: quantities entered by hand
    MaxRecorded, \* bound: transaction ids
    PositionCap  \* the plan's portfolio_positions

ASSUME PortfoliosAssumption ==
    /\ TradeDates \subseteq Nat /\ ByHand \subseteq Nat \ {0}
    /\ {MaxRecorded, PositionCap} \subseteq Nat
    /\ \A o \in Orders : o.side \in {"BUY", "SELL"} /\ o.qty \in Nat \ {0} /\ o.price \in Nat \ {0}

VARIABLES
    recorded,   \* portfolio_transactions: [id, symbol, side, qty, price, day]
    position,   \* portfolio_positions: each symbol's row, [qty, cost], or NoPosition
    asked,      \* what each client's request read and will write
    unsure      \* history

bookVars == <<recorded, position, asked, unsure>>

Earlier(t, u) == t.day < u.day \/ (t.day = u.day /\ t.id < u.id)

Of(symbol, S) == {t \in S : t.symbol = symbol}

-----------------------------------------------------------------------------
(* The FIFO run *)

SharesIn(lots) == FoldLeft(LAMBDA n, lot : n + lot.qty, 0, lots)

\* The lots left when `qty` is taken from the oldest on.
Closed(lots, qty) ==
    LET before(i) == SharesIn(SubSeq(lots, 1, i - 1))
        taken(i) == Min({lots[i].qty, Max({0, qty - before(i)})})
        left == [i \in 1 .. Len(lots) |-> [lots[i] EXCEPT !.qty = @ - taken(i)]]
    IN SelectSeq(left, LAMBDA lot : lot.qty > 0)

Oversell == <<[qty |-> -1, price |-> 0]>>

\* fifo's loop over the transactions in trade order: the lots still held, or Oversell.
Lots(S) ==
    FoldLeft(LAMBDA lots, t :
                 IF lots = Oversell THEN lots
                 ELSE IF t.side = "BUY" THEN Append(lots, [qty |-> t.qty, price |-> t.price])
                 ELSE IF SharesIn(lots) < t.qty THEN Oversell
                 ELSE Closed(lots, t.qty),
             <<>>, SetToSortSeq(S, Earlier))

Oversold(S) == Lots(S) = Oversell

\* _rederive: the row the transactions of a symbol leave.
Derived(S) ==
    LET lots == Lots(S)
    IN IF lots = <<>> THEN NoPosition
       ELSE [qty |-> SharesIn(lots),
             cost |-> FoldLeft(LAMBDA n, lot : n + lot.qty * lot.price, 0, lots)]

-----------------------------------------------------------------------------
(* Requests *)

Positions == {s \in Symbols : position[s] # NoPosition}

AtCap == Cardinality(Positions) >= PositionCap

Ask(k, symbol, add, drop, row) ==
    /\ asked[k] = NoRequest
    /\ asked' = [asked EXCEPT ![k] = [symbol |-> symbol, add |-> add, drop |-> drop, row |-> row,
                                      had |-> position[symbol] # NoPosition, overtaken |-> FALSE]]
    /\ UNCHANGED <<recorded, position, unsure>>

\* upsert_position: refused for a derived row, and for a new row at the cap.
EnterByHand(k, symbol, qty) ==
    /\ Of(symbol, recorded) = {}
    /\ position[symbol] = NoPosition => ~ AtCap
    /\ Ask(k, symbol, {}, {}, [qty |-> qty, cost |-> 0])

DeletePosition(k, symbol) ==
    /\ position[symbol] # NoPosition
    /\ Ask(k, symbol, {}, Of(symbol, recorded), NoPosition)

NewId ==
    1 + Max({0} \cup {t.id : t \in recorded \cup UNION {asked[k].add : k \in {k \in Clients : asked[k] # NoRequest}}})

\* add_transaction: the run is tried with the new row; a symbol that has neither a row
\* nor a transaction counts against the cap.
AddTransaction(k, symbol, order, day) ==
    LET t == [id |-> NewId, symbol |-> symbol, side |-> order.side, qty |-> order.qty, price |-> order.price, day |-> day]
        existing == Of(symbol, recorded)
    IN /\ t.id <= MaxRecorded
       /\ ~ Oversold(existing \cup {t})
       /\ existing = {} /\ position[symbol] = NoPosition => ~ AtCap
       /\ Ask(k, symbol, {t}, {}, Derived(existing \cup {t}))

DeletedUnchecked(t) == TRUE

\* delete_transaction is refused when the remaining run would oversell.
Deletable(t) == ~ Oversold(Of(t.symbol, recorded) \ {t})

DeleteTransaction(k, t) ==
    /\ Deletable(t)
    /\ Ask(k, t.symbol, {}, {t}, Derived(Of(t.symbol, recorded) \ {t}))

\* The commit: a row inserted twice breaks the unique key, and one that has gone cannot
\* be updated; either takes the whole request down.
CommitBook(k) ==
    /\ asked[k] # NoRequest
    /\ LET r == asked[k]
           fails == r.row # NoPosition /\ r.had # (position[r.symbol] # NoPosition)
       IN IF fails THEN UNCHANGED <<recorded, position, unsure>> /\ asked' = [asked EXCEPT ![k] = NoRequest]
          ELSE /\ recorded' = (recorded \ r.drop) \cup r.add
               /\ position' = [position EXCEPT ![r.symbol] = r.row]
               /\ unsure' = IF r.overtaken THEN unsure \cup {r.symbol} ELSE unsure \ {r.symbol}
               /\ asked' = [j \in Clients |->
                     IF j = k THEN NoRequest
                     ELSE IF asked[j] # NoRequest /\ asked[j].symbol = r.symbol THEN [asked[j] EXCEPT !.overtaken = TRUE]
                     ELSE asked[j]]

BooksInit ==
    /\ recorded = {}
    /\ position = [s \in Symbols |-> NoPosition]
    /\ asked = [k \in Clients |-> NoRequest]
    /\ unsure = {}

BooksNext ==
    \E k \in Clients :
        \/ \E s \in Symbols, q \in ByHand : EnterByHand(k, s, q)
        \/ \E s \in Symbols : DeletePosition(k, s)
        \/ \E s \in Symbols, o \in Orders, d \in TradeDates : AddTransaction(k, s, o, d)
        \/ \E t \in recorded : DeleteTransaction(k, t)
        \/ CommitBook(k)

BooksSpec == BooksInit /\ [][BooksNext]_bookVars

-----------------------------------------------------------------------------
(* Properties *)

\* What is left of buy t when every sale has closed the oldest lots.
LeftOf(t, S) ==
    LET sum(T) == MapThenSumSet(LAMBDA u : u.qty, T)
        sold == sum({u \in S : u.side = "SELL"})
        older == sum({u \in S : u.side = "BUY" /\ Earlier(u, t)})
    IN Max({0, Min({t.qty, t.qty + older - sold})})

\* Numbers keep one source: where no request overtook another, a symbol with transactions
\* has the row they leave, first in first out, and none of its sales exceeds what was held
\* on its day; so whatever was entered by hand, added, backdated or taken back before.
RowsAreDerived ==
    \A s \in Symbols \ unsure :
        LET S == Of(s, recorded)
            buys == {t \in S : t.side = "BUY"}
            held == MapThenSumSet(LAMBDA t : LeftOf(t, S), buys)
            upTo(t) == {u \in S : u = t \/ Earlier(u, t)}
            net(T) == MapThenSumSet(LAMBDA u : IF u.side = "BUY" THEN u.qty ELSE -u.qty, T)
        IN S # {} =>
            /\ \A t \in S : net(upTo(t)) >= 0
            /\ position[s] = IF held = 0 THEN NoPosition
                             ELSE [qty |-> held, cost |-> MapThenSumSet(LAMBDA t : LeftOf(t, S) * t.price, buys)]

=============================================================================
