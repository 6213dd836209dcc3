---------------------------------- MODULE Quotes ----------------------------------
(***************************************************************************)
(* The header's quotes (services/quotes.py, GET /quotes of                 *)
(* api/routes/v1.py): one cache in each process, over the provider the     *)
(* administrator has chosen, filled and read under one lock that is held   *)
(* across the fetch.                                                       *)
(***************************************************************************)
EXTENDS PriceProvider, FiniteSets

CONSTANTS Tickers,
          Here,       \* the process whose cache this is
          Requests,   \* to /quotes, threads of Here
          QuoteFrames,     \* what Yahoo may answer: rows by ticker
          CacheTime,  \* seconds an answer is served for
          MaxClock,   \* bound: seconds
          MaxInstant  \* bound: slots

ASSUME QuotesAssumption == Here \in Processes /\ "price_provider" \in Settings /\ CacheTime \in Nat \ {0}

VARIABLES
    cache,     \* [at, by, quotes], or NoAnswer
    lastGood,  \* the last quote of each ticker ever answered
    asked      \* the requests: [step, now, by, wanted, quotes]

quoteVars == <<cache, lastGood, asked>>

NotAsked == [step |-> "idle", now |-> 0, by |-> NoAnswer, wanted |-> {}, quotes |-> {}]

QuotesInit ==
    /\ cache = NoAnswer
    /\ lastGood = {}
    /\ asked = [r \in Requests |-> NotAsked]

\* GET /quotes applies the overrides first.  wanted is history: the choices committed, or in a
\* request not yet committed, since then.
Ask(r) ==
    /\ asked[r].step = "idle"
    /\ Apply(Here)
    /\ asked' = [asked EXCEPT ![r] = [NotAsked EXCEPT !.step = "applied",
                                      !.wanted = {Effective(overrides)["price_provider"], settings'[Here]["price_provider"]}]]
    /\ UNCHANGED <<keyed, clock, instant, cache, lastGood>>

\* snapshot, before its lock: the time, and the provider of the moment.
Enter(r) ==
    /\ asked[r].step = "applied"
    /\ asked' = [asked EXCEPT ![r].step = "waits", ![r].now = clock, ![r].by = Resolve(settings[Here]["price_provider"])]
    /\ UNCHANGED <<priceVars, cache, lastGood>>

\* _refresh: what the provider answers replaces the cache, an outage included; what it has answered
\* is remembered.
Answers(by) == IF by = "yahoo" THEN {YahooQuotes(f) : f \in QuoteFrames} ELSE {[x \in {} |-> NoAnswer]}

FreshQuotes(answer, r) == {[ticker |-> k, tick |-> answer[k], at |-> asked[r].now, by |-> asked[r].by] : k \in DOMAIN answer}

Remembered(fresh) == {q \in lastGood : \A x \in fresh : x.ticker # q.ticker} \union fresh

\* Mutant: the provider the cache was filled by is not looked at.
ExpiredByTime(r) == cache # NoAnswer => asked[r].now - cache.at >= CacheTime
Expired(r) == cache # NoAnswer => asked[r].now - cache.at >= CacheTime \/ cache.by # asked[r].by

\* The payload: the cached quotes and, marked stale, the last good ones of the other tickers.
Payload(fresh, good) ==
    {[quote |-> q, stale |-> FALSE] : q \in fresh} \union
    {[quote |-> q, stale |-> TRUE] : q \in {x \in good : \A y \in fresh : y.ticker # x.ticker}}

Answer(r, quotes) == asked' = [asked EXCEPT ![r].step = "answered", ![r].quotes = quotes]

\* snapshot, under its lock.
Snapshot(r) ==
    /\ asked[r].step = "waits"
    /\ \/ /\ Expired(r)
          /\ \E a \in Answers(asked[r].by) :
                LET fresh == FreshQuotes(a, r)
                IN  /\ cache' = [at |-> asked[r].now, by |-> asked[r].by, quotes |-> fresh]
                    /\ lastGood' = Remembered(fresh)
                    /\ Answer(r, Payload(fresh, lastGood'))
       \/ /\ ~Expired(r)
          /\ Answer(r, Payload(cache.quotes, lastGood))
          /\ UNCHANGED <<cache, lastGood>>
    /\ UNCHANGED priceVars

Leave(r) ==
    /\ asked[r].step = "answered"
    /\ asked' = [asked EXCEPT ![r] = NotAsked]
    /\ UNCHANGED <<priceVars, cache, lastGood>>

\* An edit reaches the requests on their way.
Edited ==
    /\ EditSettings
    /\ asked' = [r \in Requests |-> IF asked[r].step # "applied" THEN asked[r]
                                    ELSE [asked[r] EXCEPT !.wanted = @ \union {Effective(overrides')["price_provider"],
                                                                               settings'[Here]["price_provider"]}]]
    /\ UNCHANGED <<keyed, clock, instant, cache, lastGood>>

SecondTicks ==
    /\ clock < MaxClock
    /\ clock' = clock + 1
    /\ UNCHANGED <<settingVars, keyed, instant, quoteVars>>

QuotesNext ==
    \/ \E r \in Requests : Ask(r) \/ Enter(r) \/ Snapshot(r) \/ Leave(r)
    \/ Edited
    \/ SecondTicks

\* The market hours are read at any instant.
HourPasses ==
    /\ instant < MaxInstant
    /\ instant' = instant + 1
    /\ UNCHANGED <<settingVars, keyed, clock, quoteVars>>

HoursNext ==
    \/ HourPasses
    \/ EditSettings /\ UNCHANGED <<keyed, clock, instant, quoteVars>>

-------------------------------------------------------------------------------
\* The next change shown for an exchange is the first instant at which it opens, closes or goes from
\* one session to the next: nothing changes before it, and something does at it (docstring of
\* market_state).
HoursTrue ==
    \A m \in DOMAIN Segments :
        LET holidays == IF m = "TR" THEN settings[Here]["market_holidays_tr"] ELSE {}
            next == NextChange(m, instant, holidays)
        IN  /\ next > instant
            /\ \A i \in instant .. next - 1 : SessionAt(m, i, holidays) = SessionAt(m, instant, holidays)
            /\ SessionAt(m, next, holidays) # SessionAt(m, instant, holidays)

\* A quote that is not marked stale was printed by the provider chosen when the request read the
\* settings, less than CacheTime before the request; one marked stale stands for a ticker without
\* such a quote; and no ticker is shown twice ("never an old number presented as fresh").
QuotesHonest ==
    \A r \in Requests : asked[r].step = "answered" =>
        \A x, y \in asked[r].quotes :
            /\ ~x.stale => /\ \E name \in asked[r].wanted : x.quote.by = Resolve(name)
                           /\ asked[r].now - x.quote.at < CacheTime
            /\ x.quote.ticker = y.quote.ticker => x = y
            /\ x.quote.tick.price # 0
\* What the header shows: honest quotes, and the hours of the exchanges.
HeaderHonest == QuotesHonest /\ HoursTrue
=============================================================================
