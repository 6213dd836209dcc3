-------------------------------- MODULE Baskets --------------------------------
(***************************************************************************)
(* What is read from the funds' books and from a basket of today's         *)
(* positions: the diagnostics of a portfolio and the funds that share its  *)
(* stocks (services/portfolio_analysis.py), who holds a stock and how the  *)
(* holding is spread, how far two books overlap (services/ownership.py),   *)
(* and the crowding score (engine/crowding.py).                            *)
(*                                                                         *)
(* One market.  A book is a fund's report for a day; the pipeline deletes  *)
(* the book of a superseded filing, or leaves it when the filing is        *)
(* superseded while it is parsed.  A read changes nothing, so a state is   *)
(* what the tables hold and the properties quantify over the reads.  A     *)
(* share of a total is the pair of its part and the total; scores are in   *)
(* hundredths, rounded down.                                               *)
(***************************************************************************)
EXTENDS Integers, FiniteSets, FiniteSetsExt, SequencesExt, Saturation

CONSTANTS
    Stocks,
    Holders,     \* the funds
    MarketDays,  \* bound: days, as numbers whose remainder by 7 is the weekday
    BookDays,    \* bound: the days of the books
    Contents,    \* bound: what a book states: [quantity, weight, grouped]
    Portfolios,  \* bound: positions: the quantity of each stock, 0 when it is not held
    Closes,      \* bound: closing prices; one of 0 is invalid
    Unstated,    \* no weight, no close
    BookAge,     \* staleness_days
    PriceAge,    \* MAX_PRICE_AGE_DAYS
    MinReturns,  \* MIN_RETURNS
    IssuedShares       \* bound: instruments.shares_outstanding, 0 while unknown

ASSUME BasketsAssumption ==
    /\ IsFiniteSet(Stocks) /\ IsFiniteSet(Holders) /\ MarketDays \subseteq Nat /\ BookDays \subseteq MarketDays
    /\ {BookAge, PriceAge, MinReturns} \subseteq Nat /\ IssuedShares \subseteq Nat

VARIABLES
    now,     \* the day
    books,   \* portfolio_snapshots: [fund, as_of, states, live]
    closes,  \* market_prices: the close of each stock on each day, or Unstated
    mine     \* portfolio_positions

basketVars == <<now, books, closes, mine>>

-----------------------------------------------------------------------------
(* Books *)

BooksBy(S, f, on) == {b \in S : b.fund = f /\ b.as_of <= on}

LatestBooks(S) == {b \in S : \A k \in S : k.as_of <= b.as_of}

StocksIn(b) == {s \in Stocks : b.states.quantity[s] > 0}

\* Mutant: books are matched with the stocks first and ranked after.
MatchedThenRanked(f, stocks, on) == LatestBooks({b \in BooksBy(books, f, on) : b.live /\ StocksIn(b) \cap stocks # {}})

\* common_funds: the newest live book of each fund, ranked before stocks are looked at.
RankedBooks(f, stocks, on) == LatestBooks({b \in BooksBy(books, f, on) : b.live})

CommonFunds(stocks, on) ==
    IF Cardinality(stocks) < 2 THEN {}
    ELSE {row \in {[fund |-> b.fund, symbols |-> StocksIn(b) \cap stocks] :
                   b \in {b \in UNION {RankedBooks(f, stocks, on) : f \in Holders} :
                          b.as_of >= on - BookAge /\ ~ b.states.grouped}} :
          Cardinality(row.symbols) >= 2}

\* _holder_rows and _split: the funds whose newest book has the stock, and how fresh it is
HoldersOf(s, on) ==
    {[fund |-> b.fund, quantity |-> b.states.quantity[s], fresh |-> b.as_of >= on - BookAge] :
     b \in {b \in UNION {LatestBooks(BooksBy(books, f, on)) : f \in Holders} : s \in StocksIn(b)}}

Fresh(s, on) == {h \in HoldersOf(s, on) : h.fresh}

Quantity(rows) == MapThenSumSet(LAMBDA h : h.quantity, rows)

\* concentration: the sum of the squared quantities, over the square of their total
Squares(rows) == MapThenSumSet(LAMBDA h : h.quantity * h.quantity, rows)

\* fund_books: whatever its age
BookOf(f) == LatestBooks({b \in books : b.fund = f})

WeightsOf(f) == [s \in UNION {StocksIn(b) : b \in BookOf(f)} |-> (CHOOSE b \in BookOf(f) : TRUE).states.weight[s]]

\* symbol_overlap, of two books' stocks: those both hold and those either holds
SymbolOverlap(a, b) == <<Cardinality(a \cap b), Cardinality(a \cup b)>>

\* weighted_overlap, of two books' weights
OverlapIn(a, b, common) ==
    IF \E s \in common : Unstated \in {a[s], b[s]} THEN Unstated
    ELSE MapThenSumSet(LAMBDA s : Min({a[s], b[s]}), common)

WeightedOverlap(a, b) == OverlapIn(a, b, DOMAIN a \cap DOMAIN b)

CommonToAll(funds) == {s \in Stocks : \A f \in funds : s \in DOMAIN WeightsOf(f)}

\* fund_overlap, of two funds or more: every pair's overlaps, and what every fund holds with
\* each one's weight
FundOverlap(funds) ==
    [pairwise |-> [x \in funds \X funds |->
                     [symbols |-> SymbolOverlap(DOMAIN WeightsOf(x[1]), DOMAIN WeightsOf(x[2])),
                      weighted |-> WeightedOverlap(WeightsOf(x[1]), WeightsOf(x[2]))]],
     common_all |-> [s \in CommonToAll(funds) |-> [f \in funds |-> WeightsOf(f)[s]]]]

-----------------------------------------------------------------------------
(* Crowding *)

Weights == [holders |-> 35, held_pct |-> 25, concentration |-> 20, momentum |-> 20]

\* effective_weights, over their sum
EffectiveWeights(known) == IF known THEN Weights ELSE [Weights EXCEPT !.held_pct = 0]

\* crowding_inputs, with the breadth of the score window given
InputsOf(rows, quantity, issued, breadth) ==
    [holders |-> Cardinality(rows),
     held_pct |-> IF issued = 0 THEN Unstated ELSE (100 * quantity) \div issued,
     hhi |-> IF rows = {} THEN Unstated ELSE (10000 * Squares(rows)) \div (quantity * quantity),
     breadth |-> breadth]

CrowdingInputs(rows, issued, breadth) == InputsOf(rows, Quantity(rows), issued, breadth)

\* stock_ownership: the totals of the page of a stock, over its fresh holders
OwnershipPage(fresh, stale, total, issued) ==
    [listed |-> {h.fund : h \in fresh}, stale |-> {h.fund : h \in stale}, quantity |-> total,
     pct_of_shares |-> IF issued = 0 THEN Unstated ELSE (100 * total) \div issued,
     hhi |-> IF total = 0 THEN Unstated ELSE (10000 * Squares(fresh)) \div (total * total)]

StockOwnership(holders, issued) ==
    OwnershipPage({h \in holders : h.fresh}, {h \in holders : ~ h.fresh}, Quantity({h \in holders : h.fresh}), issued)

CrowdingParts(i) ==
    [holders |-> Sat(i.holders, 25),
     held_pct |-> IF i.held_pct = Unstated THEN 0 ELSE Sat(i.held_pct, 30),
     concentration |-> IF i.hhi = Unstated THEN 0 ELSE 100 - i.hhi \div 100,
     momentum |-> IF i.breadth > 0 THEN Sat(i.breadth, 5) ELSE 0]

WeightedMean(w, parts) ==
    MapThenSumSet(LAMBDA k : w[k] * parts[k], DOMAIN w) \div MapThenSumSet(LAMBDA k : w[k], DOMAIN w)

CrowdingScore(i) == WeightedMean(EffectiveWeights(i.held_pct # Unstated), CrowdingParts(i))

LevelOf(score) == IF score < 35 THEN 1 ELSE IF score > 65 THEN 3 ELSE 2

-----------------------------------------------------------------------------
(* The basket of today's positions *)

Positions == {s \in Stocks : mine[s] > 0}

Dated(s) == {d \in MarketDays : d <= now /\ closes[s][d] # Unstated}

PricedStocks == {s \in Positions : Dated(s) # {} /\ closes[s][Max(Dated(s))] > 0}

Invalid == {s \in Positions : \E d \in Dated(s) : closes[s][d] = 0}

Stale == {s \in Positions : Dated(s) # {} /\ now - Max(Dated(s)) > PriceAge}

\* The first day from which every holding has history.
Start == Max({Min(Dated(s)) : s \in Positions})

\* Days every holding has a close of, and those any has one of.
Shared == {d \in MarketDays : d >= Start /\ \A s \in Positions : d \in Dated(s)}
Observed == {d \in MarketDays : d >= Start /\ \E s \in Positions : d \in Dated(s)}

Weekdays(days) == {d \in days : d % 7 < 5}

CoverageFails(shared) ==
    \/ Weekdays(IF shared = {} THEN {} ELSE Min(shared) .. Max(shared)) = {}
    \/ 10 * Cardinality(Weekdays(shared)) < 8 * Cardinality(Weekdays(Min(shared) .. Max(shared)))

Gapped(shared) == \E d \in shared : d # Max(shared) /\ \A k \in shared : k > d => k - d > PriceAge

HistoryStatus(shared, observed) ==
    IF shared # observed \/ CoverageFails(shared) \/ Gapped(shared) THEN "incomplete_history"
    ELSE IF Cardinality(shared) <= MinReturns THEN "insufficient_history" ELSE "ready"

RiskStatus ==
    CASE Positions = {} -> "empty"
      [] Positions # {} /\ PricedStocks # Positions -> "missing_prices"
      [] Positions # {} /\ PricedStocks = Positions /\ Invalid # {} -> "invalid_prices"
      [] OTHER -> IF Stale # {} THEN "stale_prices" ELSE HistoryStatus(Shared, Observed)

\* The basket's value on each shared day, in their order.
Value(d) == MapThenSumSet(LAMBDA s : mine[s] * closes[s][d], Positions)

Values(shared) == LET days == SetToSortSeq(shared, LAMBDA x, y : x < y) IN [k \in DOMAIN days |-> Value(days[k])]

\* basket_metrics: the deepest fall from the running peak, as <<value, peak>>
Drawdown(values) ==
    FoldLeftDomain(LAMBDA worst, k :
                       LET peak == Max({values[i] : i \in 1 .. k})
                       IN  IF values[k] * worst[2] < worst[1] * peak THEN <<values[k], peak>> ELSE worst,
                   <<1, 1>>, values)

-----------------------------------------------------------------------------
(* Actions *)

NoCloses == [s \in Stocks |-> [d \in MarketDays |-> Unstated]]

BasketsInit ==
    /\ now = Min(MarketDays) /\ books = {}
    /\ closes = NoCloses /\ mine \in Portfolios

\* _write_snapshot: a report's book replaces the fund's book of that day.
PublishBook(f, d, c) ==
    /\ d <= now /\ \A b \in books : b.fund = f /\ b.as_of = d => b.states # c
    /\ books' = {b \in books : ~ (b.fund = f /\ b.as_of = d)} \cup {[fund |-> f, as_of |-> d, states |-> c, live |-> TRUE]}
    /\ UNCHANGED <<now, closes, mine>>

\* _store_raw: the filing of a book is superseded, and its book deleted or left.
SupersedeBook(b, left) ==
    /\ b.live
    /\ books' = (books \ {b}) \cup IF left THEN {[b EXCEPT !.live = FALSE]} ELSE {}
    /\ UNCHANGED <<now, closes, mine>>

\* A close is printed for a day, in any order, or printed anew.
PrintClose(s, d, c) ==
    /\ d <= now /\ closes[s][d] # c
    /\ closes' = [closes EXCEPT ![s][d] = c]
    /\ UNCHANGED <<now, books, mine>>

NextMarketDay ==
    /\ now < Max(MarketDays)
    /\ now' = now + 1
    /\ UNCHANGED <<books, closes, mine>>

BasketsNext ==
    \/ \E f \in Holders, d \in BookDays, c \in Contents : PublishBook(f, d, c)
    \/ \E b \in books, left \in BOOLEAN : SupersedeBook(b, left)
    \/ \E s \in Stocks, d \in MarketDays, c \in Closes : PrintClose(s, d, c)
    \/ NextMarketDay

-----------------------------------------------------------------------------
(* Properties *)

\* A fund said to share the portfolio's stocks holds each of them today, on the page of
\* that stock and in its overlap with the others said so, unless a superseded book was
\* left behind; two funds of one row overlap in at least the stocks of both; an overlap
\* is the same from both sides and never more than either book
\* (common_funds, latest_holders, fund_overlap).
Clean(f) == \A b \in books : b.fund = f => b.live

RowsHeld(rows) ==
    /\ \A row \in rows : Clean(row.fund) =>
        /\ \A s \in row.symbols : \E h \in Fresh(s, now) : h.fund = row.fund
        /\ \A s \in Positions \ row.symbols : \A h \in HoldersOf(s, now) : h.fund # row.fund
    /\ \A x, y \in rows : Clean(x.fund) /\ Clean(y.fund) => (x.symbols \cap y.symbols) \subseteq CommonToAll({x.fund, y.fund})

OverlapSound(a, b, w) ==
    /\ w = WeightedOverlap(b, a) /\ SymbolOverlap(DOMAIN a, DOMAIN b) = SymbolOverlap(DOMAIN b, DOMAIN a)
    /\ w # Unstated /\ Unstated \notin {a[s] : s \in DOMAIN a} => w <= MapThenSumSet(LAMBDA s : a[s], DOMAIN a)
    /\ DOMAIN a \cap DOMAIN b = {} => w = 0

CommonHeld ==
    /\ RowsHeld(CommonFunds(Positions, now))
    /\ \A a, b \in {WeightsOf(b.fund) : b \in books} : OverlapSound(a, b, WeightedOverlap(a, b))

\* The page of a stock and the overlap of funds read the same books: the funds it lists,
\* the stale ones too, are those that have it in their book, compared with one another they
\* have it in common, and the crowding is scored on the totals it shows
\* (stock_ownership, fund_overlap, crowding_inputs).
PageAgrees(s, page, all, scored) ==
    /\ page.listed \cap page.stale = {}
    /\ all = {f \in Holders : s \in DOMAIN WeightsOf(f)}
    /\ Cardinality(all) >= 2 => s \in DOMAIN FundOverlap(all).common_all
    /\ <<page.pct_of_shares, page.hhi, Cardinality(page.listed)>> = <<scored.held_pct, scored.hhi, scored.holders>>

AgreesWith(s, page, issued) ==
    PageAgrees(s, page, page.listed \cup page.stale, CrowdingInputs(Fresh(s, now), issued, 0))

PagesAgree ==
    \A s \in Stocks, issued \in IssuedShares : AgreesWith(s, StockOwnership(HoldersOf(s, now), issued), issued)

\* The crowding of a stock is a score of 0 to 100 whose level only rises with the number of
\* its holders, whether or not the share count is known (crowding_score, level_of).
ScoreSound(i, score) ==
    /\ score \in 0 .. 100
    /\ i.hhi # Unstated => 10000 <= (i.hhi + 1) * i.holders /\ i.hhi <= 10000
    /\ \A more \in {1, 5} : LevelOf(CrowdingScore([i EXCEPT !.holders = @ + more])) >= LevelOf(score)

CrowdingSound ==
    \A s \in UNION {StocksIn(b) : b \in books}, issued \in IssuedShares, breadth \in {0, 5} :
        \A i \in {CrowdingInputs(Fresh(s, now), issued, breadth)} : ScoreSound(i, CrowdingScore(i))

\* A drawdown, a change and a volatility are told only of a basket each of whose holdings
\* has a close today or within a few days, and one on every day, from the first they share,
\* on which any of them has one; and the fall told is the deepest between any two of those
\* days, whatever the order in which closes were printed (analyze, basket_metrics).
DeepestFall(values, fall) ==
    /\ \A i, j \in DOMAIN values : i <= j => fall[1] * values[i] <= values[j] * fall[2]
    /\ fall = <<1, 1>> \/ \E i, j \in DOMAIN values : i < j /\ fall = <<values[j], values[i]>>

BasketTold ==
    RiskStatus = "ready" =>
        /\ \A s, k \in Positions : now - Max(Dated(s)) <= PriceAge /\ {d \in Dated(s) : d >= Min(Dated(k))} \subseteq Dated(k)
        /\ \A values \in {Values(Shared)} : DeepestFall(values, Drawdown(values))

\* The books and the baskets read from them agree.
BooksAgree == CommonHeld /\ PagesAgree /\ CrowdingSound /\ BasketTold

=============================================================================
