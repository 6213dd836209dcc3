-------------------------------- MODULE Scores --------------------------------
(***************************************************************************)
(* The published scores of one stock and the divergence of its price       *)
(* (engine/scoring.py, engine/signals.detect_divergence), computed from    *)
(* the activity of FundFlows by pipeline.compute_intelligence.             *)
(*                                                                         *)
(* A score is in hundredths of a point; shares, multipliers and components *)
(* in hundredths, each rounded down.  A book is worth the same at every    *)
(* report, so that a weight is the quantity's share of it.                 *)
(***************************************************************************)
EXTENDS FundFlows, Saturation

CONSTANTS
    Book,         \* the worth of each fund's book
    FlowFull,     \* FLOW_SATURATION_TRY
    Freshness,    \* 0.5 to the power of the days over FRESHNESS_HALF_LIFE_DAYS
    PriceSeries,  \* bound: the closes of the stock, from a window before the first day
    NoClose

ASSUME ScoresAssumption ==
    /\ {Book, FlowFull} \subseteq Nat \ {0}
    /\ Freshness \in [Days -> 0 .. 100]
    /\ \A d, k \in Days : d <= k => Freshness[k] <= Freshness[d]

Weights ==
    [breadth |-> 30, net_flow |-> 25, persistence |-> 15, new_positions |-> 10, conviction |-> 10, freshness |-> 10]

Multiplier == [EXACT |-> 100, GROUPED |-> 90, INFERRED |-> 80]

BreadthFull == 12
PersistenceFull == 4
NewPositionsFull == 4

Abs(n) == IF n < 0 THEN -n ELSE n

-----------------------------------------------------------------------------
(* Scores *)

\* conviction_score, of a weight in the fund's own book before and after
Conviction(before, after) ==
    LET growth == CASE before > 0 -> Sat(after - before, 2 * before)
                    [] before = 0 /\ after > 0 -> 100
                    [] OTHER -> 0
    IN  45 * Sat(after - before, 5) + 35 * growth + 20 * Sat(after, 8)

WeightOf(qty) == (100 * qty) \div Book

ConvictionOf(c) == Conviction(WeightOf(c.from), WeightOf(c.to))

Bought(changes) == {c \in changes : c.activity \in {"ADD", "NEW"}}

\* The mean over the increasing changes.
AvgConviction(bought) ==
    IF bought = {} THEN 0 ELSE MapThenSumSet(ConvictionOf, bought) \div (100 * Cardinality(bought))

FlowByConfidence(events, changes) ==
    [EXACT |-> MapThenSumSet(LAMBDA e : Abs(e.net), {e \in events : e.exact}),
     GROUPED |-> MapThenSumSet(LAMBDA e : Abs(e.net), {e \in events : ~ e.exact}),
     INFERRED |-> MapThenSumSet(LAMBDA c : Abs(c.delta), changes)]

ConfidenceMultiplier(flow) ==
    IF \A c \in DOMAIN flow : flow[c] = 0 THEN Multiplier.INFERRED
    ELSE MapThenSumSet(LAMBDA c : flow[c] * Multiplier[c], DOMAIN flow)
         \div MapThenSumSet(LAMBDA c : flow[c], DOMAIN flow)

\* The activity of FundFlows with what only the scores read.
Activity(a, events, changes) ==
    [counts |-> a, conviction |-> AvgConviction(Bought(changes)),
     quiet |-> today - Max({c.end : c \in changes} \cup {e.day : e \in events}),
     multiplier |-> ConfidenceMultiplier(FlowByConfidence(events, changes))]

Breakdown(raw, neutral, multiplier) ==
    [raw |-> raw, adjusted |-> neutral + ((raw - neutral) * multiplier) \div 100]

Parts(x, a) ==
    [breadth |-> Sat(a.funds_increasing - a.funds_reducing, BreadthFull),
     net_flow |-> Sat(a.net_flow, FlowFull),
     persistence |-> IF a.net_flow >= 0 THEN Sat(a.persistence, PersistenceFull) ELSE 0,
     new_positions |-> Sat(a.funds_new, NewPositionsFull),
     conviction |-> x.conviction, freshness |-> Freshness[x.quiet]]

Weighted(parts) == MapThenSumSet(LAMBDA k : Weights[k] * parts[k], DOMAIN Weights)

SmartMoney(x) == Breakdown(Weighted(Parts(x, x.counts)), 0, x.multiplier)

\* 0 when every fund sells, 50 when they are split, 100 when every one buys.
Tilt(tilted, active) ==
    IF active = 0 THEN 0 ELSE Max({-5000, Min({5000, (5000 * tilted) \div (4 * active)})})

ConsensusOf(a) ==
    5000 + Tilt(4 * (a.funds_increasing - a.funds_reducing) + a.funds_new - a.funds_exited,
                a.funds_increasing + a.funds_reducing + a.funds_unchanged)

Consensus(x) == Breakdown(ConsensusOf(x.counts), 5000, x.multiplier)

-----------------------------------------------------------------------------
(* Divergence *)

QuotedBy(closes, d) == {k \in DOMAIN closes : k <= d /\ closes[k] # NoClose}

CloseAt(closes, d) == closes[Max(QuotedBy(closes, d))]

\* _price_change_pct, as the change over the first close; <<0, 0>> when there is none.
PriceChange(closes, from, to) ==
    IF QuotedBy(closes, from) = {} \/ CloseAt(closes, from) = 0 THEN <<0, 0>>
    ELSE <<CloseAt(closes, to) - CloseAt(closes, from), CloseAt(closes, from)>>

Grown(from, to) == IF from > 0 THEN <<to - from, from>> ELSE <<0, 0>>

HoldingsChange(changes) ==
    Grown(MapThenSumSet(LAMBDA c : c.from, changes), MapThenSumSet(LAMBDA c : c.to, changes))

\* At least n hundredths, either way.
Moved(change, n) == change[2] > 0 /\ 100 * Abs(change[1]) >= n * change[2]

Divergence(price, holdings) ==
    CASE ~ Moved(price, 5) \/ ~ Moved(holdings, 10) -> "none"
      [] price[1] < 0 /\ holdings[1] > 0 -> "POSITIVE_DIVERGENCE"
      [] price[1] > 0 /\ holdings[1] < 0 -> "NEGATIVE_DIVERGENCE"
      [] OTHER -> "none"

DivergencesOn(on, holdings) ==
    {Divergence(PriceChange(closes, on - Window, on), holdings) : closes \in PriceSeries}

-----------------------------------------------------------------------------
(* Properties *)

\* Confidence only weakens a score and never moves it past neutral; a stock nobody bought
\* earns nothing but the memory of earlier buying and freshness; one everybody bought has
\* consensus 100 and one everybody sold 0, whatever new positions and exits tilt.
InBounds(a, sm, cs) ==
    /\ 0 <= sm.adjusted /\ sm.adjusted <= sm.raw /\ sm.raw <= 10000
    /\ a.funds_increasing = 0 => sm.raw <= 100 * (Weights.persistence + Weights.freshness)
    /\ cs.adjusted \in (cs.raw .. 5000) \cup (5000 .. cs.raw) /\ cs.raw \in 0 .. 10000
    /\ a.funds_unchanged = 0 /\ a.funds_increasing > 0 /\ a.funds_reducing = 0 => cs.raw = 10000
    /\ a.funds_unchanged = 0 /\ a.funds_reducing > 0 /\ a.funds_increasing = 0 => cs.raw = 0

\* A stock is scored while something moved in its window.
ScoresInBounds(events, changes, x) ==
    events # {} \/ changes # {} => InBounds(x.counts, SmartMoney(x), Consensus(x))

\* While no event of the window counts, a divergence is on the side of the net flow the
\* leaderboard shows: holdings rose against the price, or fell against it.
OnItsSide(divergences, row) ==
    /\ "POSITIVE_DIVERGENCE" \in divergences => row.net_qty > 0
    /\ "NEGATIVE_DIVERGENCE" \in divergences => row.net_qty < 0

DivergenceAgrees(events, changes, row) ==
    events = {} => OnItsSide(DivergencesOn(today, HoldingsChange(changes)), row)

AddUp(events, changes, moves, row, periods, activity) ==
    /\ TradesAddUp(events, changes, moves, row, periods, activity)
    /\ ScoresInBounds(events, changes, Activity(activity, events, changes))
    /\ DivergenceAgrees(events, changes, row)

AddUpIn(events, changes, moves, periods) ==
    AddUp(events, changes, moves, FlowRow(events, changes, moves), periods,
          InstrumentActivity(events, changes, moves, periods))

FiguresOf(events, changes) == AddUpIn(events, changes, Moves(events, changes), Periods(today))

\* A trade counts once, every reader of it finds the same figures, the parties named
\* account for them, and the scores and the divergence say of them what they promise.
FiguresAddUp == FiguresOf(Events(today), Changes(today))

=============================================================================
