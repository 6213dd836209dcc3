------------------------------ MODULE MCFlows ------------------------------
\* Instance for TLC of the figures a page shows and the plan it is shown for: the funds'
\* flows, which the pipeline run and the warehouse build compute, the locks of those two
\* jobs, the header's quotes, and two subscriptions of one account.
\* They share no state here but the settings; a behaviour tells one story of one of them.
\*   Two funds of one house over four days; the filings of the first two days state the
\* ownership share before and after, those of the third only the share after, those of
\* the last neither.
EXTENDS Scores, RunLocks, Quotes, Subscriptions, TLC

CONSTANTS f, g, u, v, w, asker1, asker2, sub1, sub2, Stories

VARIABLE story

MCReportDays == f :> {0, 1, 2} @@ g :> {0, 2}
MCOpenings == {f :> 0 @@ g :> 0, f :> 1 @@ g :> 0}
MCShares == 0 :> "both" @@ 1 :> "both" @@ 2 :> "after" @@ 3 :> "none"

\* Freshness by the days since the last move; a close of three days before the first day,
\* or none, and one of day 2: the price fell, rose a twentieth or doubled, or is unknown.
MCFreshness == 0 :> 100 @@ 1 :> 95 @@ 2 :> 90 @@ 3 :> 86
MCPriceSeries ==
    {-3 :> p[1] @@ 2 :> p[2] : p \in {<<NoClose, 10>>, <<20, NoClose>>, <<0, 10>>, <<20, 10>>, <<20, 21>>, <<20, 40>>}}

\* One administrator, from three processes.
MCNames == [x \in Workers |-> "admin"]

MCEditable == "price_provider" :> [type |-> "choice", among |-> Providers]
              @@ "market_holidays_tr" :> [type |-> "list", among |-> {1, 4}]
MCDefault == "price_provider" :> "yahoo" @@ "market_holidays_tr" :> {}
MCEntries == "price_provider" :> {"yahoo", "matriks", "other"} @@ "market_holidays_tr" :> {{}, {1}, {4}, {1, 4}, {9}}

\* A day of six slots: BIST in one session, NYSE in three.
MCSegments == "TR" :> <<<<2, 4>>>> @@ "US" :> <<<<1, 2>>, <<2, 3>>, <<3, 5>>>>

Bar(t, o, c) == [t |-> t, open |-> o, close |-> c]
MCQuoteFrames == {"a" :> {} @@ "b" :> {Bar(1, 1, 1), Bar(2, 1, 2)},
                  "a" :> {Bar(1, 1, 1), Bar(2, 1, Hole)} @@ "b" :> {Bar(1, 1, 0)}}

\* Processes, requests, threads and subscriptions of one kind are treated alike, and no
\* property names one.
ProcessSymmetry == Permutations(Workers) \cup Permutations(Requests) \cup Permutations(Subs)

MCInit ==
    /\ FlowsInit /\ LocksInit /\ PriceInit /\ QuotesInit /\ Init
    /\ story \in Stories
    /\ keyed = (story = "header")
    /\ story # "flows" => opening = f :> 0 @@ g :> 0
    /\ story # "plans" => user.plan = "FREE"

\* A correction has the figures of the filing: one tells what any number would.
OneCorrection == Cardinality({e \in filings' : e.superseded}) <= 1

\* Two requests are under way at the last second only.
OneAtFirst == clock' < MaxClock => Cardinality({r \in Requests : asked'[r] # NotAsked}) <= 1

\* The edits of a story are of one setting.
Edits(k) == edit' # NoEdit => \A x \in Settings \ {k} : edit'.rows[x] = NoOverride

MCNext ==
    /\ story' = story
    /\ \/ story = "flows" /\ FlowsNext /\ OneCorrection /\ UNCHANGED <<lockVars, priceVars, quoteVars, vars>>
       \/ story = "runs" /\ (RunStep \/ LockEnv) /\ UNCHANGED <<flowVars, priceVars, quoteVars, vars>>
       \/ story = "builds" /\ (BuildStep \/ LockEnv) /\ UNCHANGED <<flowVars, priceVars, quoteVars, vars>>
       \/ story = "header" /\ QuotesNext /\ Edits("price_provider") /\ OneAtFirst /\ UNCHANGED <<flowVars, lockVars, vars>>
       \/ story = "hours" /\ HoursNext /\ Edits("market_holidays_tr") /\ UNCHANGED <<flowVars, lockVars, vars>>
       \/ story = "plans" /\ Next /\ UNCHANGED <<flowVars, lockVars, priceVars, quoteVars>>

MCSpec == MCInit /\ [][MCNext]_<<flowVars, lockVars, priceVars, quoteVars, vars, story>>

=============================================================================
