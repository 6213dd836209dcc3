--------------------------------- MODULE Candles ---------------------------------
(***************************************************************************)
(* The chart's candles (services/candles.py) and the daily prices they are *)
(* cut from (ingestion/prices/__init__.py, load_prices_csv of              *)
(* services/pipeline.py).  A process keeps the newest good answer of each  *)
(* key (symbol and interval), the least recently served dropped first, and *)
(* a lock for each key: a caller that finds nothing fresh fetches under    *)
(* the lock of its key, while other keys go on.                            *)
(***************************************************************************)
EXTENDS PriceProvider, FiniteSets

CONSTANTS Keys,
          Daily,      \* the keys of daily bars, of an instrument with rows in market_prices
          Worker,     \* the process whose cache this is
          Callers,    \* its threads
          Lookbacks,  \* bars a caller may ask for
          Charts,     \* what Yahoo may answer for a symbol: frames whose cells name their printer
          KeepFor,    \* CACHE_SECONDS
          CacheKeys,  \* answers kept
          LastSecond  \* bound

ASSUME CandlesAssumption == Daily \subseteq Keys /\ Worker \in Processes /\ {KeepFor, CacheKeys} \subseteq Nat \ {0}

VARIABLES
    prices,    \* market_prices of the daily instrument: rows by day, who printed each cell
    answers,   \* the cache: [key, at, look, by, bars, had] from the least recently served
    lockOf,    \* _fetching: a lock by key, or 0
    callers,   \* [step, key, look, now, by, lock, known, shown]
    orphaned   \* history: the keys whose lock was dropped while a caller held a reference to it

chartVars == <<prices, answers, lockOf, callers, orphaned>>

NotCalling == [step |-> "idle", key |-> NoAnswer, look |-> 0, now |-> 0, by |-> NoAnswer, lock |-> 0,
               known |-> NoAnswer, shown |-> NoAnswer]

ChartsInit ==
    /\ prices = {}
    /\ answers = <<>>
    /\ lockOf = [k \in Keys |-> 0]
    /\ callers = [c \in Callers |-> NotCalling]
    /\ orphaned = {}

-------------------------------------------------------------------------------
\* The daily rows.  A row of the table is [t, open, close], each cell the name of who printed it.

\* load_prices: every bar overwrites the close; a hole never erases what an earlier run printed.
LoadPrices(p) ==
    /\ Resolve(settings[p]["price_provider"]) = "yahoo"
    /\ \E frame \in Charts :
        LET bars == ParseBars(frame)
            old(t) == {x \in prices : x.t = t}
            open(b) == IF b.open # Hole THEN "yahoo" ELSE IF old(b.t) = {} THEN Hole ELSE (CHOOSE x \in old(b.t) : TRUE).open
        IN  prices' = {x \in prices : \A b \in bars : b.t # x.t} \union {[t |-> b.t, open |-> open(b), close |-> "yahoo"] : b \in bars}
    /\ UNCHANGED <<priceVars, answers, lockOf, callers, orphaned>>

\* load_prices_csv: the close of a day, laid over whatever row is there.
LoadCsv(t) ==
    /\ prices' = {IF x.t = t THEN [x EXCEPT !.close = "csv"] ELSE x : x \in prices} \union
                 (IF \E x \in prices : x.t = t THEN {} ELSE {[t |-> t, open |-> Hole, close |-> "csv"]})
    /\ UNCHANGED <<priceVars, answers, lockOf, callers, orphaned>>

\* Mutant: whoever wrote the row, it has its prices.
FromTableAnyone(look) ==
    LET rows == Tail2(ByTime(prices), look)
    IN  IF rows = <<>> \/ \E n \in DOMAIN rows : rows[n].open = Hole THEN NoAnswer ELSE rows

\* _from_table: the latest rows, if every one has its prices and was written by a provider.
FromTable(look) ==
    LET rows == Tail2(ByTime(prices), look)
    IN  IF rows = <<>> \/ \E n \in DOMAIN rows : rows[n].open = Hole \/ rows[n].close \notin Providers
        THEN NoAnswer ELSE rows

-------------------------------------------------------------------------------
\* The cache.

Entry(k) == {n \in DOMAIN answers : answers[n].key = k}
Cached(k) == IF Entry(k) = {} THEN NoAnswer ELSE answers[CHOOSE n \in Entry(k) : TRUE]

\* _remembered: young enough, from the caller's provider, and with bars enough.
IsFresh(e, c) ==
    /\ e # NoAnswer
    /\ e.by = callers[c].by
    /\ e.look >= callers[c].look
    /\ callers[c].now - e.at < KeepFor

Without(k) == SelectSeq(answers, LAMBDA e : e.key # k)

\* An answer goes out: the bars of an entry, the last ones asked for.
Shown(c, e, stale) == [at |-> e.at, by |-> e.by, bars |-> Tail2(e.bars, callers[c].look), had |-> e.had, stale |-> stale]

Show(c, what) == [callers EXCEPT ![c].step = "answered", ![c].lock = 0, ![c].known = NoAnswer, ![c].shown = what]

Locked(l) == l # 0 /\ \E c \in Callers : callers[c].step = "fetches" /\ callers[c].lock = l

InUse == {lockOf[k] : k \in Keys} \union {callers[c].lock : c \in Callers}
NewLock == CHOOSE l \in 1 .. Cardinality(InUse) + 1 : l \notin InUse

\* GET /stocks/{symbol}/candles applies the overrides first.
CallFor(c, k, look) ==
    /\ callers[c].step \in {"idle", "answered"}
    /\ Apply(Worker)
    /\ callers' = [callers EXCEPT ![c] = [NotCalling EXCEPT !.step = "applied", !.key = k, !.look = look]]
    /\ UNCHANGED <<keyed, clock, instant, prices, answers, lockOf, orphaned>>

\* candles: the time, then the table for daily bars, else the provider of the moment.
Open(c) ==
    LET table == IF callers[c].key \in Daily THEN FromTable(callers[c].look) ELSE NoAnswer
        opened == [callers[c] EXCEPT !.now = clock, !.by = Resolve(settings[Worker]["price_provider"])]
    IN  /\ callers[c].step = "applied"
        /\ callers' = [callers EXCEPT ![c] =
              IF table = NoAnswer THEN [opened EXCEPT !.step = "looks"]
              ELSE [opened EXCEPT !.step = "answered",
                                  !.shown = [at |-> clock, by |-> "table", bars |-> table, had |-> Len(table), stale |-> FALSE]]]
        /\ UNCHANGED <<priceVars, prices, answers, lockOf, orphaned>>

\* _from_provider, the first look: a fresh answer, or a reference to the lock of the key.
Look(c) ==
    LET k == callers[c].key
        e == Cached(k)
    IN  /\ callers[c].step = "looks"
        /\ IF IsFresh(e, c)
           THEN /\ callers' = Show(c, Shown(c, e, FALSE))
                /\ answers' = Append(Without(k), e)
                /\ UNCHANGED lockOf
           ELSE /\ lockOf' = IF lockOf[k] = 0 THEN [lockOf EXCEPT ![k] = NewLock] ELSE lockOf
                /\ callers' = [callers EXCEPT ![c].step = "queues", ![c].lock = lockOf'[k]]
                /\ UNCHANGED answers
        /\ UNCHANGED <<priceVars, prices, orphaned>>

\* The lock taken, the second look: the answer of the caller ahead, or a fetch of its own.
TakeLock(c) ==
    LET k == callers[c].key
        e == Cached(k)
    IN  /\ callers[c].step = "queues"
        /\ ~Locked(callers[c].lock)
        /\ IF IsFresh(e, c)
           THEN /\ callers' = Show(c, Shown(c, e, FALSE))
                /\ answers' = Append(Without(k), e)
           ELSE /\ callers' = [callers EXCEPT ![c].step = "fetches", ![c].known = e]
                /\ UNCHANGED answers
        /\ UNCHANGED <<priceVars, prices, lockOf, orphaned>>

\* What the provider can answer: YahooProvider.daily_bars and intraday_bars, an answer without a bar
\* being an outage; then _fetch drops the daily bars with a hole.
Bars(c) ==
    IF callers[c].by # "yahoo" THEN {}
    ELSE IF callers[c].key \in Daily
         THEN {ByTime(ParseCandles(f)) : f \in {x \in Charts : ParseBars(x) # {}}}
         ELSE {ByTime(ParseCandles(f)) : f \in {x \in Charts : ParseCandles(x) # {}}}

\* The lock of a dropped key goes with it unless it is held.
Dropped(kept) == {k \in Keys : (\E n \in DOMAIN answers : answers[n].key = k)
                               /\ (\A n \in DOMAIN kept : kept[n].key # k) /\ ~Locked(lockOf[k])}

\* The fetch is answered: remembered, and what exceeds the cache dropped.
Fetched(c) ==
    /\ callers[c].step = "fetches"
    /\ \E bars \in Bars(c) :
        LET k == callers[c].key
            e == [key |-> k, at |-> callers[c].now, look |-> callers[c].look, by |-> callers[c].by,
                  bars |-> Tail2(bars, callers[c].look), had |-> Len(bars)]
            kept == Tail2(Append(Without(k), e), CacheKeys)
            gone == Dropped(kept) \ {k}
        IN  /\ answers' = kept
            /\ lockOf' = [x \in Keys |-> IF x \in gone THEN 0 ELSE lockOf[x]]
            /\ orphaned' = orphaned \union {x \in gone : \E d \in Callers : callers[d].step = "queues" /\ callers[d].key = x}
            /\ callers' = Show(c, Shown(c, e, FALSE))
    /\ UNCHANGED <<priceVars, prices>>

\* An outage: what the caller knew, marked stale, or none.
FetchFails(c) ==
    /\ callers[c].step = "fetches"
    /\ callers' = IF callers[c].known = NoAnswer THEN [callers EXCEPT ![c] = NotCalling]
                  ELSE Show(c, Shown(c, callers[c].known, TRUE))
    /\ UNCHANGED <<priceVars, prices, answers, lockOf, orphaned>>

SecondPasses ==
    /\ clock < LastSecond
    /\ clock' = clock + 1
    /\ UNCHANGED <<settingVars, keyed, instant, chartVars>>

ChartsNext ==
    \/ \E c \in Callers : \/ \E k \in Keys, look \in Lookbacks : CallFor(c, k, look)
                          \/ Open(c) \/ Look(c) \/ TakeLock(c) \/ Fetched(c) \/ FetchFails(c)
    \/ \E p \in Processes : LoadPrices(p)
    \/ \E t \in 1 .. 2 : LoadCsv(t)
    \/ Apply(Worker) /\ UNCHANGED <<keyed, clock, instant, chartVars>>
    \/ EditSettings /\ UNCHANGED <<keyed, clock, instant, chartVars>>
    \/ SecondPasses

-------------------------------------------------------------------------------
\* "Concurrent callers of the same key share one fetch" (candles.py:51): two fetch at a time only
\* after the lock of the key was dropped under a caller that was about to take it.
OneFetch ==
    \A c, d \in Callers :
        (c # d /\ callers[c].step = "fetches" /\ callers[d].step = "fetches" /\ callers[c].key = callers[d].key)
            => callers[c].key \in orphaned

\* An answer that is not marked stale is of the caller's provider and young, or of the table; it
\* has the bars asked for as far as they were there, in order, and all the prices of each were
\* printed by a provider: "the chart never draws a padded candle".
ChartHonest ==
    \A c \in Callers : callers[c].step = "answered" =>
        LET shown == callers[c].shown
            n == Len(shown.bars)
        IN  /\ ~shown.stale => /\ shown.by \in {callers[c].by, "table"}
                               /\ callers[c].now - shown.at < KeepFor
                               /\ n = callers[c].look \/ n = shown.had
            /\ n <= callers[c].look
            /\ \A m \in 1 .. n : /\ {shown.bars[m].open, shown.bars[m].close} \subseteq Providers
                                 /\ m > 1 => shown.bars[m - 1].t < shown.bars[m].t

CandlesHonest == OneFetch /\ ChartHonest
=============================================================================
