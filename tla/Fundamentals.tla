------------------------------ MODULE Fundamentals ------------------------------
(***************************************************************************)
(* The companies' reported statements (services/fundamentals.py, the Yahoo *)
(* adapter ingestion/fundamentals/yahoo.py, the weekly job of              *)
(* scheduler.py): a capped run asks for the stalest companies first and    *)
(* commits at its end; a page shows ratios of the stored lines.            *)
(*   Of a number only its print is kept: the number of the answer it came  *)
(* in.  Periods end at months; a zero denominator counts as a line that    *)
(* was not reported.                                                       *)
(***************************************************************************)
EXTENDS Integers, FiniteSets, FiniteSetsExt, Sequences, SequencesExt

CONSTANTS Companies,      \* numbered in the order of their symbols
          Placeholders,   \* CUSIP placeholders, which have no Yahoo symbol
          Silent,         \* companies Yahoo has nothing for
          Frames,         \* the statements Yahoo may answer: sets of [kind, period, end, labels]
          Quota,            \* settings.fundamentals_max_instruments
          MaxStatements,  \* of a kind, statements in a payload
          Tolerance,      \* months the statement of a year ago may be off
          NoRefresh,
          MaxAnswers,     \* bound
          MaxTroubles     \* bound: tickers that fail with an error of their own

ASSUME FundamentalsAssumption ==
    /\ Companies = 1 .. Cardinality(Companies)
    /\ Placeholders \union Silent \subseteq Companies
    /\ {Quota, MaxStatements} \subseteq Nat \ {0}

VARIABLES
    tracked,   \* in a recent change or transaction, or on a watchlist
    statements,       \* fundamentals: [company, kind, period, end, items, at], items a print by line
    snapshots,  \* when each company's newest metrics were fetched, 0 if never
    refreshing, \* the run: [todo, asked, over, statements, snapshots], or NoRefresh
    answered,   \* answers stored so far, the clock of fetched_at
    troubles,   \* history: tickers that failed
    waits,      \* history: completed runs that passed each company over since it was last asked
    without     \* history: the companies a later answer for which lacked a statement stored before

fundVars == <<tracked, statements, snapshots, refreshing, answered, troubles, waits, without>>

FundInit ==
    /\ tracked \in SUBSET Companies
    /\ statements = {}
    /\ snapshots = [c \in Companies |-> 0]
    /\ refreshing = NoRefresh
    /\ answered = 0
    /\ troubles = 0
    /\ waits = [c \in Companies |-> 0]
    /\ without = {}

-------------------------------------------------------------------------------
\* parse_statements.  A line is taken from the first of its labels that has a value; free cash flow
\* may be the sum of two others; a statement without a line is dropped.

Labels(line) ==
    CASE line = "revenue" -> {"Total Revenue", "Operating Revenue"}
      [] line = "net income" -> {"Net Income", "Net Income Common Stockholders"}
      [] line = "debt" -> {"Total Debt"}
      [] line = "equity" -> {"Stockholders Equity", "Common Stock Equity"}
      [] line = "free cash flow" -> {"Free Cash Flow"}

LinesOf(kind) == CASE kind = "income" -> {"revenue", "net income"}
                   [] kind = "balance" -> {"debt", "equity"}
                   [] kind = "cashflow" -> {"free cash flow"}

Carried(st) == {l \in LinesOf(st.kind) : \/ Labels(l) \intersect st.labels # {}
                                         \/ l = "free cash flow" /\ {"Operating Cash Flow", "Capital Expenditure"} \subseteq st.labels}

ParseStatements(frame) == {st \in frame : Carried(st) # {}}

-------------------------------------------------------------------------------
\* The refresh.

LastFetched(c, kept, shots) == Max({0, shots[c]} \union {s.at : s \in {x \in kept : x.company = c}})

\* Mutant: in the order of the symbols.
StalestBySymbol(some) == SetToSortSeq(some, LAMBDA a, b : a < b)
Stalest(some) ==
    LET age == [c \in some |-> LastFetched(c, statements, snapshots)]
    IN  SetToSortSeq(some, LAMBDA a, b : age[a] < age[b] \/ (age[a] = age[b] /\ a < b))

\* universe, at most Quota of it.
Turn == LET all == Stalest(tracked \ Placeholders) IN SubSeq(all, 1, IF Len(all) > Quota THEN Quota ELSE Len(all))

\* over is history: the companies a complete run would have passed over.
Run(todo, over) == [todo |-> todo, asked |-> {}, over |-> over, statements |-> statements, snapshots |-> snapshots]

StartRefresh ==
    /\ refreshing = NoRefresh
    /\ refreshing' = Run(Turn, tracked \ (Placeholders \union ToSet(Turn)))
    /\ UNCHANGED <<tracked, statements, snapshots, answered, troubles, waits, without>>

\* The command line may name a company.
StartNamed(c) ==
    /\ refreshing = NoRefresh
    /\ refreshing' = Run(<<c>>, {})
    /\ UNCHANGED <<tracked, statements, snapshots, answered, troubles, waits, without>>

\* Mutant: a hole does not erase what an earlier answer printed.
RowMerged(c, st, kept) ==
    LET old == {r \in kept : <<r.company, r.kind, r.period, r.end>> = <<c, st.kind, st.period, st.end>>}
        before == UNION {DOMAIN r.items : r \in old}
    IN  [company |-> c, kind |-> st.kind, period |-> st.period, end |-> st.end, at |-> answered + 1,
         items |-> [l \in Carried(st) \union before |->
                        IF l \in Carried(st) THEN answered + 1 ELSE (CHOOSE r \in old : TRUE).items[l]]]

\* _store replaces the numbers of a row in place: the provider's latest print of a period is the row.
Row(c, st, kept) ==
    [company |-> c, kind |-> st.kind, period |-> st.period, end |-> st.end, at |-> answered + 1,
     items |-> [l \in Carried(st) |-> answered + 1]]

Store(c, fetched, metrics) ==
    LET new == {Row(c, st, refreshing.statements) : st \in fetched}
        SameKey(r, x) == <<r.company, r.kind, r.period, r.end>> = <<x.company, x.kind, x.period, x.end>>
        kept == {r \in refreshing.statements : ~\E x \in new : SameKey(r, x)}
    IN  /\ refreshing' = [refreshing EXCEPT !.todo = Tail(@), !.asked = @ \union {c}, !.statements = kept \union new,
                                            !.snapshots = IF metrics THEN [@ EXCEPT ![c] = answered + 1] ELSE @]
        /\ without' = IF \E r \in kept : r.company = c THEN without \union {c} ELSE without
        /\ answered' = answered + 1

\* A company is passed: it failed with an error of its own, or Yahoo has nothing for it.
Skip(c) == refreshing' = [refreshing EXCEPT !.todo = Tail(@), !.asked = @ \union {c}]

\* The statements of a year and, if there are any, of a quarter; and the metrics.
AskCompany ==
    /\ refreshing # NoRefresh
    /\ refreshing.todo # <<>>
    /\ LET c == Head(refreshing.todo)
       IN  \/ /\ c \notin Silent
              /\ answered < MaxAnswers
              /\ \E frame \in Frames, metrics \in BOOLEAN :
                    LET parsed == ParseStatements(frame)
                        fetched == IF \E st \in parsed : st.period = "annual" THEN parsed ELSE {}
                    IN  /\ fetched # {} \/ metrics
                        /\ Store(c, fetched, metrics)
              /\ UNCHANGED troubles
           \/ /\ c \notin Silent
              /\ troubles < MaxTroubles
              /\ troubles' = troubles + 1
              /\ Skip(c)
              /\ UNCHANGED <<answered, without>>
           \/ /\ c \in Silent
              /\ Skip(c)
              /\ UNCHANGED <<answered, troubles, without>>
    /\ UNCHANGED <<tracked, statements, snapshots, waits>>

\* The run ends, at the end of its list or by an outage of the provider, and commits.
EndRefresh ==
    /\ refreshing # NoRefresh
    /\ statements' = refreshing.statements
    /\ snapshots' = refreshing.snapshots
    /\ waits' = [c \in Companies |-> IF c \in refreshing.asked THEN 0
                                     ELSE IF c \in refreshing.over /\ refreshing.todo = <<>> THEN waits[c] + 1 ELSE waits[c]]
    /\ refreshing' = NoRefresh
    /\ UNCHANGED <<tracked, answered, troubles, without>>

\* The process dies and the transaction with it.
CrashRefresh ==
    /\ refreshing # NoRefresh
    /\ refreshing' = NoRefresh
    /\ UNCHANGED <<tracked, statements, snapshots, answered, troubles, waits, without>>

Follow(c) ==
    /\ tracked' = tracked \union {c}
    /\ UNCHANGED <<statements, snapshots, refreshing, answered, troubles, waits, without>>

FundNext ==
    \/ StartRefresh \/ AskCompany \/ EndRefresh \/ CrashRefresh
    \/ \E c \in Companies : StartNamed(c) \/ Follow(c)

-------------------------------------------------------------------------------
\* derived, over statements of one company and one kind of period.  A ratio is the pair of the lines
\* it divides, or {}.

RatioOf(a, l, b, m) == IF a # {} /\ b # {} THEN
                        LET x == CHOOSE r \in a : TRUE
                            y == CHOOSE r \in b : TRUE
                        IN  IF l \in DOMAIN x.items /\ m \in DOMAIN y.items
                            THEN {[of |-> x, to |-> y, over |-> <<x.items[l], y.items[m]>>]} ELSE {}
                    ELSE {}

Of(kind, sts) == {r \in sts : r.kind = kind}
NewestOf(sts) == {r \in sts : \A x \in sts : x.end <= r.end}
Distance(a, b) == IF a > b THEN a - b ELSE b - a

\* _year_earlier: the nearest to a year before, within the tolerance.
YearEarlier(sts, r) ==
    LET near == {x \in sts \ {r} : Distance(x.end, r.end - 12) <= Tolerance}
    IN  {x \in near : \A y \in near : Distance(x.end, r.end - 12) <= Distance(y.end, r.end - 12)}

Derived(sts) ==
    LET newest == NewestOf(Of("income", sts))
        anchor == IF newest # {} THEN {r.end : r \in newest} ELSE {r.end : r \in NewestOf(sts)}
        balances == Of("balance", sts)
        same == {r \in balances : r.end \in anchor}
        balance == IF same # {} THEN same ELSE NewestOf(balances)
        cash == {r \in Of("cashflow", sts) : newest # {} /\ r.end \in anchor}
        prior == UNION {YearEarlier(Of("income", sts), r) : r \in newest}
    IN  [net_margin |-> RatioOf(newest, "net income", newest, "revenue"),
         fcf_margin |-> RatioOf(cash, "free cash flow", newest, "revenue"),
         debt_to_equity |-> RatioOf(balance, "debt", balance, "equity"),
         growth |-> RatioOf(newest, "revenue", prior, "revenue")]

StatementsOf(c, period) == {r \in statements : r.company = c /\ r.period = period}

\* stock_fundamentals: the newest MaxStatements of each kind; summary derives from all the annual ones.
NewestFew(sts) == {r \in sts : Cardinality({x \in sts : x.kind = r.kind /\ x.end > r.end}) < MaxStatements}
StockFundamentals(c, period) == Derived(NewestFew(StatementsOf(c, period)))
Summary(c) == Derived(StatementsOf(c, "annual"))

-------------------------------------------------------------------------------
\* "A capped weekly run walks the whole universe over a few weeks instead of re-fetching the same
\* head" (fundamentals.py:68): as long as the companies Yahoo has nothing for do not fill a run, a
\* tracked company is passed over by no more runs than the others take to be asked once each.
WalksUniverse ==
    LET mute == Silent \ Placeholders
        asked == Companies \ (Placeholders \union mute)
    IN  \A c \in asked : Quota > Cardinality(mute) =>
            waits[c] * (Quota - Cardinality(mute)) <= Cardinality(asked) - 1 + troubles

\* The two lines of a ratio come from one answer, unless a later one lacked one of the two
\* statements; growth is over the statement of a year ago; and the page and the short block of the
\* same company agree.
RatiosOfOnePrint ==
    \A c \in {r.company : r \in statements} :
        /\ \A period \in {"annual", "quarterly"} :
            LET d == StockFundamentals(c, period)
            IN  /\ \A x \in d.net_margin \union d.debt_to_equity : x.over[1] = x.over[2]
                /\ \A x \in d.fcf_margin : x.of.end = x.to.end /\ (x.over[1] = x.over[2] \/ c \in without)
                /\ \A x \in d.growth : x.of.end - x.to.end \in 12 - Tolerance .. 12 + Tolerance
        /\ StockFundamentals(c, "annual") = Summary(c)

FundamentalsSound == WalksUniverse /\ RatiosOfOnePrint
=============================================================================
