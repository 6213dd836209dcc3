----------------------------- MODULE FundFlows -----------------------------
(***************************************************************************)
(* What the disclosed facts of one stock add up to: the position changes   *)
(* between a fund's reports (engine/positions.py, pipeline                 *)
(* .rebuild_positions), the transaction events no report covers yet, the   *)
(* activity the scores are computed from (pipeline._instrument_activity),  *)
(* the leaderboard rows (services/analytics.py), the warehouse's views     *)
(* (services/warehouse.py) and the holders (services/ownership.py).        *)
(*                                                                         *)
(* Funds of one house trade; the house discloses a day's trades in one     *)
(* filing or not at all, and may correct the filing; a fund's report for   *)
(* a report day is published on any later day, in any order.  Every share  *)
(* is worth one, so that a quantity is also a value.                       *)
(***************************************************************************)
EXTENDS Integers, FiniteSets, FiniteSetsExt

CONSTANTS
    Funds,
    House,          \* the institution, as a party
    MaxQty,         \* bound: shares one fund holds
    Openings,       \* bound: what the funds may hold at the start
    Shares,         \* bound: the ownership shares a day's filing states, "both", "after" or "none"
    LastDay,        \* bound: days
    ReportDays,     \* the report days of each fund
    MaxStep,        \* bound: shares a fund trades in a day
    MaxTrades,      \* bound: days on which something is traded
    Window,         \* MARKET_WINDOW_DAYS
    Fresh,          \* staleness_days
    MinPeriods,     \* ACCUMULATION_MIN_PERIODS
    MinFunds        \* CLUSTER_MIN_FUNDS

Days == 0 .. LastDay

ASSUME FundFlowsAssumption ==
    /\ IsFiniteSet(Funds) /\ House \notin Funds
    /\ {MaxQty, MaxStep, LastDay, MaxTrades, Window, Fresh, MinPeriods, MinFunds} \subseteq Nat
    /\ ReportDays \in [Funds -> SUBSET Days] /\ Shares \in [Days -> {"both", "after", "none"}] /\ Openings \subseteq [Funds -> 0 .. MaxQty]

VARIABLES
    today,
    opening,    \* what each fund holds before day 0
    traded,     \* what each fund bought (or, negative, sold) on each day
    filings,    \* transaction_events: [day, version, superseded]
    reports     \* portfolio_snapshots: the days of each fund's published reports

flowVars == <<today, opening, traded, filings, reports>>

Total(q) == MapThenSumSet(LAMBDA f : q[f], Funds)

\* A fund's holding at the close of day d.
Closing(f, d) == opening[f] + MapThenSumSet(LAMBDA k : traded[k][f], {k \in Days : k <= d})

HouseHolds(d) == MapThenSumSet(LAMBDA f : Closing(f, d), Funds)

FundsOf(e) == {f \in Funds : traded[e.day][f] # 0}

Net(e) == Total(traded[e.day])

Exact(e) == Cardinality(FundsOf(e)) = 1

TheFund(e) == CHOOSE f \in FundsOf(e) : TRUE

-----------------------------------------------------------------------------
(* Position changes *)

ActivityOf(from, to) ==
    CASE from = 0 /\ to > 0 -> "NEW"
      [] from > 0 /\ to = 0 -> "EXIT"
      [] to > from -> "ADD"
      [] to < from -> "REDUCE"
      [] OTHER -> "HOLD"

Change(f, p, c) ==
    LET from == Closing(f, p)
        to == Closing(f, c)
    IN  [fund |-> f, start |-> p, end |-> c, from |-> from, to |-> to, delta |-> to - from, activity |-> ActivityOf(from, to)]

\* diff_snapshots between each report and the next; the first is a baseline.
PositionChanges ==
    UNION {{Change(f, p, c) : p \in {p \in reports[f] : p < c /\ \A m \in reports[f] : m <= p \/ m >= c}} :
           <<f, c>> \in {x \in Funds \X Days : x[2] \in reports[x[1]]}}

Changes(on) ==
    {c \in PositionChanges : (c.delta # 0 \/ c.to # 0) /\ c.end > on - Window /\ c.end <= on}

-----------------------------------------------------------------------------
(* Transaction events *)

Known(f, on) == {s \in reports[f] : s <= on}

LatestSnapshot(f, on) == Max(Known(f, on))

CoveredLoosely(e, on) == \E f \in FundsOf(e) : Known(f, on) # {} /\ e.day < LatestSnapshot(f, on)

\* An event counts until a report of any of its funds covers its day.
Covered(e, on) == \E f \in FundsOf(e) : Known(f, on) # {} /\ e.day <= LatestSnapshot(f, on)

\* What the ownership shares before and after a trade say of it.
EntryOrExit(net, shares, before, after) ==
    CASE shares # "none" /\ net > 0 /\ after > 0 /\ (shares = "after" \/ before = 0) -> "NEW"
      [] shares # "none" /\ net < 0 /\ after = 0 -> "EXIT"
      [] OTHER -> "none"

Party(e) == IF Exact(e) THEN TheFund(e) ELSE House

\* What a reader takes from an event.
EventRow(e) ==
    [day |-> e.day, funds |-> FundsOf(e), exact |-> Exact(e), party |-> Party(e), net |-> Net(e),
     entry |-> EntryOrExit(Net(e), Shares[e.day], HouseHolds(e.day - 1), HouseHolds(e.day))]

Events(on) ==
    {EventRow(e) : e \in {e \in filings : ~ e.superseded /\ e.day > on - Window /\ e.day <= on /\ ~ Covered(e, on)}}

\* Events that disclose an entry or an exit not counted for one of their funds already.
UncountedOf(telling, counted) == {e \in telling : e.exact \/ \A f \in e.funds : <<f, e.entry>> \notin counted}

EntriesExitsOf(telling, changes) ==
    UncountedOf(telling, {<<c.fund, c.activity>> : c \in changes} \cup {<<e.party, e.entry>> : e \in {e \in telling : e.exact}})

EntriesExits(events, changes) == EntriesExitsOf({e \in events : e.entry # "none"}, changes)

Moves(events, changes) ==
    {<<c.fund, c.activity>> : c \in changes} \cup {<<e.party, e.entry>> : e \in EntriesExits(events, changes)}

Movers(moves, kind) == {m[1] : m \in {m \in moves : m[2] = kind}}

-----------------------------------------------------------------------------
(* The scores' input *)

Buyers(events, changes) ==
    {c.fund : c \in {c \in changes : c.activity \in {"ADD", "NEW"}}} \cup {e.party : e \in {e \in events : e.net > 0}}

Sellers(events, changes) ==
    {c.fund : c \in {c \in changes : c.activity \in {"REDUCE", "EXIT"}}} \cup {e.party : e \in {e \in events : e.net < 0}}

NetFlow(events, changes) ==
    MapThenSumSet(LAMBDA c : c.delta, changes) + MapThenSumSet(LAMBDA e : e.net, events)

\* The day and the net change of each period that ended by `on`.
PeriodFlows(changes) ==
    {[day |-> d, flow |-> MapThenSumSet(LAMBDA c : c.delta, {c \in changes : c.end = d})] : d \in {c.end : c \in changes}}

Periods(on) == PeriodFlows({c \in PositionChanges : c.end <= on /\ (c.delta # 0 \/ c.to # 0)})

Sign(n) == IF n > 0 THEN 1 ELSE IF n < 0 THEN -1 ELSE 0

\* The newest periods, back to the last one whose flow has another sign.
Streak(periods) ==
    {p \in periods : p.flow # 0 /\ \A k \in periods : k.day >= p.day => Sign(k.flow) = Sign(p.flow)}

Persistence(streak) == IF \E p \in streak : p.flow > 0 THEN Cardinality(streak) ELSE 0

Accumulation(periods, streak) ==
    IF Cardinality(periods) < MinPeriods \/ Cardinality(streak) < MinPeriods THEN "none"
    ELSE IF \E p \in streak : p.flow > 0 THEN "ACCUMULATION" ELSE "DISTRIBUTION"

Cluster(moves, kind) == Cardinality(Movers(moves, kind)) >= MinFunds

Unchanged(changes, moved) == {c.fund : c \in {c \in changes : c.activity = "HOLD"}} \ moved

InstrumentActivity(events, changes, moves, periods) ==
    [funds_increasing |-> Cardinality(Buyers(events, changes)), funds_reducing |-> Cardinality(Sellers(events, changes)),
     funds_unchanged |-> Cardinality(Unchanged(changes, Buyers(events, changes) \cup Sellers(events, changes))),
     funds_new |-> Cardinality(Movers(moves, "NEW")), funds_exited |-> Cardinality(Movers(moves, "EXIT")),
     net_flow |-> NetFlow(events, changes), persistence |-> Persistence(Streak(periods))]

-----------------------------------------------------------------------------
(* The read models *)

FlowRow(events, changes, moves) ==
    [net_qty |-> NetFlow(events, changes),
     funds_increasing |-> Cardinality(Buyers(events, changes)), funds_reducing |-> Cardinality(Sellers(events, changes)),
     funds_new |-> Cardinality(Movers(moves, "NEW")), funds_exited |-> Cardinality(Movers(moves, "EXIT"))]

\* The moves of one party, folded together: each is <<day, activity, quantity>>.
MovesOf(p, events, changes, telling) ==
    {<<c.end, c.activity, c.delta>> : c \in {c \in changes : c.fund = p /\ c.activity # "HOLD"}}
    \cup {<<e.day, IF e \in telling THEN e.entry ELSE IF e.net > 0 THEN "ADD" ELSE "REDUCE", e.net>> :
          e \in {e \in events : e.party = p /\ (e.net # 0 \/ e \in telling)}}

LastMove(ms) == CHOOSE m \in ms : \A k \in ms : k[1] <= m[1]

Label(ms, telling, qty) ==
    IF telling # {} THEN LastMove(telling)[2]
    ELSE IF qty > 0 THEN "ADD" ELSE IF qty < 0 THEN "REDUCE" ELSE LastMove(ms)[2]

PartyRow(p, ms, qty) ==
    [party |-> p, activity |-> Label(ms, {m \in ms : m[2] \in {"NEW", "EXIT"}}, qty), delta |-> qty]

Quantity(ms) == MapThenSumSet(LAMBDA m : m[3], ms)

\* Who moved, and by how much.
Parties(events, changes, telling) ==
    {PartyRow(x[1], x[2], Quantity(x[2])) :
     x \in {x \in {<<p, MovesOf(p, events, changes, telling)>> : p \in Funds \cup {House}} : x[2] # {}}}

\* The leaderboard's list of one kind: the parties a row names.
BuysNamed(row, parties) == IF row.net_qty > 0 THEN parties ELSE {}
ExitsNamed(row, parties) == IF row.funds_exited > 0 THEN {p \in parties : p.activity = "EXIT"} ELSE {}

\* v_flows, as its SQL computes it: the event's own columns, then the grouped entries not counted.
CoveredTo(e, on) == Max({-1} \cup UNION {Known(f, on) : f \in FundsOf(e)})

ViewEntry(net, before, after) ==
    IF net > 0 /\ before = 0 /\ \E n \in after : n > 0 THEN "NEW"
    ELSE IF net < 0 /\ 0 \in after THEN "EXIT" ELSE "null"

ViewEvents(on) ==
    {[day |-> e.day, funds |-> FundsOf(e), party |-> Party(e), exact |-> Exact(e), net |-> Net(e),
      entry |-> ViewEntry(Net(e), IF Shares[e.day] = "both" THEN HouseHolds(e.day - 1) ELSE 0,
                          IF Shares[e.day] = "none" THEN {} ELSE {HouseHolds(e.day)})] :
     e \in {e \in filings : ~ e.superseded /\ e.day > on - Window /\ e.day <= on /\ e.day > CoveredTo(e, on)}}

SnapshotMoves(changes) == {<<c.fund, c.activity>> : c \in changes}
ExactMoves(events) == {<<e.party, e.entry>> : e \in {e \in events : e.entry # "null" /\ e.exact}}
GroupedMoves(events, counted) ==
    {<<e.party, e.entry>> : e \in {e \in events : e.entry # "null" /\ ~ e.exact /\ ~ \E f \in e.funds : <<f, e.entry>> \in counted}}

AllMoves(events, snapshot, exact) ==
    snapshot \cup exact \cup GroupedMoves(events, {m \in snapshot : m[2] \in {"NEW", "EXIT"}} \cup exact)

ViewRow(events, changes, moves) ==
    [net_qty |-> MapThenSumSet(LAMBDA c : c.delta, changes) + MapThenSumSet(LAMBDA e : e.net, events),
     funds_increasing |-> Cardinality({c.fund : c \in {c \in changes : c.activity \in {"ADD", "NEW"}}}
                                      \cup {e.party : e \in {e \in events : e.net > 0}}),
     funds_reducing |-> Cardinality({c.fund : c \in {c \in changes : c.activity \in {"REDUCE", "EXIT"}}}
                                    \cup {e.party : e \in {e \in events : e.net < 0}}),
     funds_new |-> Cardinality({m[1] : m \in {m \in moves : m[2] = "NEW"}}),
     funds_exited |-> Cardinality({m[1] : m \in {m \in moves : m[2] = "EXIT"}})]

ViewFlowsOf(events, changes) ==
    ViewRow(events, changes, AllMoves(events, SnapshotMoves(changes), ExactMoves(events)))

ViewFlows(on) == ViewFlowsOf(ViewEvents(on), Changes(on))

\* The funds that hold the stock by their newest report, with the move that ended there.
HolderRows(on) ==
    {[fund |-> f, quantity |-> Closing(f, LatestSnapshot(f, on)), as_of |-> LatestSnapshot(f, on),
      last_move |-> {c.activity : c \in {c \in PositionChanges : c.fund = f /\ c.end = LatestSnapshot(f, on)}}] :
     f \in {f \in Funds : Known(f, on) # {} /\ Closing(f, LatestSnapshot(f, on)) > 0}}

Holders(on) == {h \in HolderRows(on) : h.as_of >= on - Fresh}
StaleHolders(on) == HolderRows(on) \ Holders(on)

\* v_ownership_latest: the stale holders are kept and flagged.
ViewOwnership(on) ==
    {[fund |-> f, is_stale |-> on - s > Fresh] :
     <<f, s>> \in {x \in Funds \X Days : x[2] \in Known(x[1], on) /\ Closing(x[1], x[2]) > 0
                                         /\ \A m \in Known(x[1], on) : m <= x[2]}}

-----------------------------------------------------------------------------
(* Actions *)

NoTrade == [f \in Funds |-> 0]

FlowsInit ==
    /\ today = 0
    /\ opening \in Openings
    /\ traded = [d \in Days |-> NoTrade]
    /\ filings = {}
    /\ reports = [f \in Funds |-> {}]

Trade(q) ==
    /\ q # NoTrade /\ traded[today] = NoTrade
    /\ Cardinality({d \in Days : traded[d] # NoTrade}) < MaxTrades
    /\ \A f \in Funds : Closing(f, today) + q[f] \in 0 .. MaxQty
    /\ traded' = [traded EXCEPT ![today] = q]
    /\ UNCHANGED <<today, opening, filings, reports>>

\* _write_transaction_event: the house tells of a day's trades.
Disclose(d) ==
    /\ d \in {today - 1, today} /\ traded[d] # NoTrade /\ \A e \in filings : e.day # d
    /\ filings' = filings \cup {[day |-> d, version |-> 1, superseded |-> FALSE]}
    /\ UNCHANGED <<today, opening, traded, reports>>

\* A correction with the same figures supersedes the filing.
Correct(e) ==
    /\ e.version = 1 /\ ~ e.superseded
    /\ filings' = (filings \ {e}) \cup {[e EXCEPT !.superseded = TRUE], [e EXCEPT !.version = 2]}
    /\ UNCHANGED <<today, opening, traded, reports>>

Publish(f, d) ==
    /\ d < today /\ d \notin reports[f]
    /\ reports' = [reports EXCEPT ![f] = @ \cup {d}]
    /\ UNCHANGED <<today, opening, traded, filings>>

NextDay ==
    /\ today < LastDay
    /\ today' = today + 1
    /\ UNCHANGED <<opening, traded, filings, reports>>

FlowsNext ==
    \/ \E q \in [Funds -> -MaxStep .. MaxStep] : Trade(q)
    \/ \E d \in Days : Disclose(d)
    \/ \E e \in filings : Correct(e)
    \/ \E f \in Funds : \E d \in ReportDays[f] : Publish(f, d)
    \/ NextDay

-----------------------------------------------------------------------------
(* Properties *)

\* The de-duplication law: no trade of a fund is counted twice, once by the filing that
\* disclosed it and once by the report that contains it, and the net flow is the sum of
\* the trades that are counted, whatever order reports and filings arrive in.
CountedOnceIn(trades, diffed, told, row) ==
    /\ diffed \cap told = {}
    /\ row.net_qty = MapThenSumSet(LAMBDA x : traded[x[2]][x[1]], {x \in trades : x \in diffed \/ x \in told})

TradesCountedOnce(trades, events, changes, row) ==
    CountedOnceIn(trades, {x \in trades : \E c \in changes : c.fund = x[1] /\ c.start < x[2] /\ x[2] <= c.end},
                  {x \in trades : \E e \in events : e.day = x[2]}, row)

\* The scores, the leaderboard and the warehouse's SQL give the same figures for the
\* same day; the signals agree with the counts the scores show; the warehouse flags as
\* stale exactly the holders the pages leave out.
ReadModelsAgree(a, row, moves, periods) ==
    /\ ViewFlows(today) = row
    /\ a.net_flow = row.net_qty
    /\ \A k \in {"funds_increasing", "funds_reducing", "funds_new", "funds_exited"} : a[k] = row[k]
    /\ Cluster(moves, "NEW") = (a.funds_new >= MinFunds)
    /\ Cluster(moves, "EXIT") = (a.funds_exited >= MinFunds)
    /\ (Accumulation(periods, Streak(periods)) = "ACCUMULATION") = (a.persistence >= MinPeriods)
    /\ {v.fund : v \in {v \in ViewOwnership(today) : v.is_stale}} = {h.fund : h \in StaleHolders(today)}

\* The parties a row names account for all of its flow, those counted as entering or
\* leaving are named unless they later did the opposite, and a row of the exits list
\* names somebody.
Named(parties, kind) == Cardinality({p \in parties : p.activity = kind})

PartiesAddUp(row, parties) ==
    /\ MapThenSumSet(LAMBDA p : p.delta, parties) = row.net_qty
    /\ Named(parties, "NEW") <= row.funds_new /\ Named(parties, "EXIT") <= row.funds_exited
    /\ row.net_qty > 0 => BuysNamed(row, parties) # {}
    /\ Named(parties, "NEW") = 0 /\ row.funds_new > 0 => ExitsNamed(row, parties) # {}

\* A trade counts once, every reader of it finds the same figures, and the parties named
\* account for them.
TradesAddUp(events, changes, moves, row, periods, activity) ==
    /\ TradesCountedOnce({x \in Funds \X Days : traded[x[2]][x[1]] # 0}, events, changes, row)
    /\ ReadModelsAgree(activity, row, moves, periods)
    /\ PartiesAddUp(row, Parties(events, changes, EntriesExits(events, changes)))

=============================================================================
