------------------------------- MODULE MCSources -------------------------------
\* Instance for TLC of what is read from outside: the filings of people and of KAP, the
\* prices of the charts and the companies' statements.  They share no state in the model; a
\* behaviour tells one story: an issuer with two classes and its Form 4 documents, two issuers
\* that file nothing and one party's KAP filings, each by itself; the fetching of KAP through
\* the website, or through either adapter while it is switched; one KAP page; the daily prices and who charts them, two charts in
\* one cache, or one chart while the provider is switched; the weekly refresh of the
\* statements, of several companies or of one; or the books of the funds, and the closes of a
\* basket.
EXTENDS InsiderFilings, KapFetch, KapPages, Candles, Fundamentals, Baskets, TLC

CONSTANTS u, v, Stories

VARIABLE story

Filed(day, acc, amends, stated, period, owners, insider, listed, family) ==
    [day |-> day, acc |-> acc, amends |-> amends, stated |-> stated, period |-> period, names |-> Nobody,
     owners |-> owners, insider |-> insider, issuer |-> "X", listed |-> listed, family |-> family, buys |-> TRUE]

Reported(day, acc, amends, names, family) ==
    [day |-> day, acc |-> acc, amends |-> amends, stated |-> NoDay, period |-> 0, names |-> names,
     owners |-> {"party"}, insider |-> "party", issuer |-> "K", listed |-> {}, family |-> family, buys |-> TRUE]

MCClasses == 1..4
MCCikOf == <<"X", "Y", "X", "Z">>
MCForms == {"o1", "a1", "a2", "p1", "b1", "q1", "r1"}
MCKap == {"k1", "c1", "c2"}
MCDoc == [
    o1 |-> Filed(1, 2, FALSE, NoDay, 0, {"dir"}, "dir", {"X"}, 1),
    a1 |-> Filed(1, 1, TRUE, 1, 0, {"dir", "trust"}, "dir", {"X"}, 1),
    a2 |-> Filed(3, 4, TRUE, 1, 0, {"dir"}, "dir", {"X"}, 1),
    p1 |-> Filed(2, 3, FALSE, NoDay, 2, {"fund", "trust"}, "fund", {"X", "Y"}, 2),
    b1 |-> Filed(3, 5, TRUE, 1, 2, {"fund"}, "fund", {"X"}, 2),
    q1 |-> Filed(2, 6, FALSE, NoDay, 1, {"ceo"}, "ceo", {"X"}, 4),
    r1 |-> Filed(3, 7, TRUE, NoDay, 1, {"ceo"}, "ceo", {"X"}, 4),
    k1 |-> Reported(1, 1, FALSE, Nobody, 3),
    c1 |-> Reported(1, 2, TRUE, "k1", 3),
    c2 |-> Reported(2, 3, TRUE, Nobody, 3)]

FilingsInit ==
    /\ filed = {}
    /\ \/ followed = {1} /\ mapped = {1} /\ due = Forms \ {"q1", "r1"}
       \/ followed = {1, 2} /\ mapped = {2} /\ due = {"p1", "q1", "r1"}
       \/ followed = Classes /\ mapped = {1, 2} /\ due = {}
       \/ followed = {} /\ mapped = {} /\ due = Kap
    /\ Init

NoFilings == followed = {} /\ mapped = {} /\ due = {} /\ filed = {} /\ Init

\* A filing of a person among four that are wanted.
MCSort == <<"pys", "person", "report", "pys", "pys">>
MCPageCap == [pys |-> 1, report |-> 1, person |-> 1]

-------------------------------------------------------------------------------
\* Pages: who prints which rows, what the prose says of the prices, and what it corrects.

Cells(day, bought, sold, after, owner, wide) ==
    [day |-> day, bought |-> bought, sold |-> sold, before |-> 4, after |-> after, owner |-> owner, wide |-> wide, english |-> FALSE]

\* The filer trades on one day or two, and the other party of the first trade may be printed too,
\* in either order, with a ratio of its own or by chance the same.
Own == {<<Cells(1, 2, 0, 5, "filer", 10)>>,
        <<Cells(1, 2, 1, 5, "filer", 10), Cells(2, 0, 1, 3, "filer", 10)>>,
        <<Cells(1, 2, 0, 5, "filer", 10), Cells(1, 2, 0, 5, "filer", 10)>>,
        <<Cells(1, 0, 2, 3, "filer", 4)>>}
Counter(own, after) == <<[own[1] EXCEPT !.bought = own[1].sold, !.sold = own[1].bought, !.after = after, !.owner = "other"]>>
Tables == {<<>>} \union Own \union {o \o Counter(o, n) : o \in Own, n \in {1, 5}} \union {Counter(o, 1) \o o : o \in Own}

Sentence(days, trade, average, low, high, single) ==
    [days |-> days, trade |-> trade, average |-> average, low |-> low, high |-> high, single |-> single]
Trade(day) == <<[day |-> day, side |-> "ALIS", nominal |-> 1, before |-> NoRatio, after |-> 6, owner |-> "filer"]>>

Sentences ==
    {Sentence({1}, <<>>, NoPrice, NoPrice, NoPrice, 7), Sentence({2}, <<>>, NoPrice, 8, 9, 8),
     Sentence({2}, Trade(2), 6, 5, 7, NoPrice), Sentence({}, <<>>, NoPrice, 4, 4, NoPrice),
     Sentence({1}, Trade(1), NoPrice, NoPrice, NoPrice, NoPrice)}
Proses == {<<>>} \union {<<s>> : s \in Sentences} \union {<<s, t>> : s \in Sentences, t \in Sentences}

Who(id, fund, legal, words) == [id |-> id, fund |-> fund, legal |-> legal, words |-> words]
Holding == Who("holding", FALSE, TRUE, 3)
Claim(kind, words, what, regulator, who) == [kind |-> kind, words |-> words, what |-> what, regulator |-> regulator, who |-> who]
ClaimSets ==
    {<<>>,
     <<Claim("by", <<"low", "name">>, "rule", TRUE, Holding), Claim("self", <<>>, "trade", FALSE, Holding)>>,
     <<Claim("by", <<"director", "name", "joiner", "name">>, "trade", FALSE, Who("ceo", FALSE, FALSE, 2))>>}

Form(kind, cells, prose, correction) ==
    [kind |-> kind, cells |-> cells, prose |-> prose, party |-> Holding, correction |-> correction,
     signatory |-> TRUE, role |-> <<"officer">>]

PageOf(relayed, cells, prose, form, claims, correction, related, links) ==
    [index |-> 2, subject |-> TRUE, relayed |-> relayed, companies |-> <<"SYM">>, member |-> "SYM", title |-> Holding,
     sender |-> NoName, correction |-> correction, related |-> related, links |-> links, cells |-> cells, data |-> <<>>,
     prose |-> prose, form |-> form, claims |-> claims, answer |-> <<>>, parts |-> <<>>]

MCFilings ==
    {PageOf(FALSE, cells, prose, Form("none", <<>>, <<>>, FALSE), claims, TRUE, related, links) :
        cells \in Tables, prose \in Proses, claims \in ClaimSets, related \in {NoIndex, 1, 2}, links \in {<<>>, <<2>>, <<2, 1>>}}
    \union
    {PageOf(TRUE, <<>>, <<>>, Form(kind, cells, prose, TRUE), <<>>, FALSE, 2, links) :
        kind \in {"none", "broken", "read"}, cells \in Own, prose \in Proses, links \in {<<>>, <<2>>, <<2, 1>>}}

\* Reports in two parts: price 10, value 100, and the quantity before or after a weight.
Line(symbol, figures) == [symbol |-> symbol, figures |-> figures]
Rows == {<<Line("A", <<10, 100, 10, 3>>)>>, <<Line("B", <<10, 100, 3, 10>>), Line("C", <<10, 100, 3, 4>>)>>,
         <<Line("A", <<10, 100, 3, 10>>), Line("B", <<10, 100, 10>>)>>, <<Line("A", <<10, 100>>)>>}
Parts == [legible : BOOLEAN, rows : Rows]

MCReports ==
    {[PageOf(FALSE, <<>>, <<>>, Form("none", <<>>, <<>>, FALSE), <<>>, FALSE, NoIndex, <<>>) EXCEPT !.parts = <<x, y>>] :
        x \in Parts, y \in Parts}

\* Structured data in two languages, which the API has beside the page.
MCData ==
    {[PageOf(FALSE, own, <<>>, Form("none", <<>>, <<>>, FALSE), <<>>, FALSE, NoIndex, <<>>) EXCEPT
        !.data = Distinct(own) \o [k \in DOMAIN own |-> [own[k] EXCEPT !.english = TRUE]]] : own \in Own}

MCPages == MCFilings \union MCReports \union MCData

-------------------------------------------------------------------------------
\* The settings, and what Yahoo answers for a chart: two whole days, or a hole in the second.
MCEditable == "price_provider" :> [type |-> "choice", among |-> Providers]
MCDefault == "price_provider" :> "yahoo"
MCEntries == "price_provider" :> Providers

Bar(t, open) == [t |-> t, open |-> open, close |-> "yahoo"]
MCCharts == {{Bar(1, "yahoo"), Bar(2, "yahoo")}, {Bar(1, "yahoo"), Bar(2, Hole)}}

ThreadSymmetry == Permutations(Callers)

\* Answers with the statements of two years, of a year and a quarter, and of a later year with less.
St(kind, period, end, labels) == [kind |-> kind, period |-> period, end |-> end, labels |-> labels]
MCFrames ==
    {{},
     {St("income", "annual", 24, {"Total Revenue", "Net Income"}), St("income", "annual", 11, {"Operating Revenue"}),
      St("cashflow", "annual", 24, {"Operating Cash Flow", "Capital Expenditure"})},
     {St("income", "annual", 24, {"Operating Revenue"}), St("income", "quarterly", 27, {"Total Revenue", "Net Income"}),
      St("balance", "annual", 24, {"Total Debt", "Common Stock Equity"})},
     {St("income", "annual", 36, {"Net Income"}), St("cashflow", "annual", 36, {"Operating Cash Flow"}),
      St("income", "quarterly", 24, {"Total Revenue"})}}

\* Books of two stocks: of both, of one, of neither, and one grouped with an unstated weight.
Book(a, b, weight, grouped) ==
    [quantity |-> "A" :> a @@ "B" :> b, weight |-> "A" :> weight @@ "B" :> 40, grouped |-> grouped]
MCContents == {Book(2, 1, 60, FALSE), Book(0, 3, 30, FALSE), Book(0, 0, 0, FALSE), Book(2, 2, Unstated, TRUE)}
MCPortfolios == {"A" :> 1 @@ "B" :> 2, "A" :> 1 @@ "B" :> 0}

-------------------------------------------------------------------------------
MCInit ==
    /\ story \in Stories
    /\ IF story = "filings" THEN FilingsInit ELSE NoFilings
    /\ FetchInit
    /\ story # "adapters" => adapter = "public"
    /\ IF story = "pages" THEN KapInit ELSE page = NoPage
    /\ PriceInit /\ ChartsInit
    /\ story # "switch" => ~keyed
    /\ FundInit
    /\ BasketsInit
    /\ story # "basket" => mine["B"] > 0
    /\ tracked = CASE story = "walk" -> {1, 2, 3, 5} [] story = "figures" -> {2} [] OTHER -> {}

\* A story of the charts: the daily key by itself; both keys over no stored price, one
\* provider and whole answers; the other key by itself while the provider is switched.
Charted(c) ==
    CASE story = "table" -> c.key # "hourly"
      [] story = "cache" -> c.key = "daily" => c.look = 1
      [] story = "switch" -> c.key # "daily" /\ c.look < 2

ChartStory ==
    /\ ChartsNext
    /\ story # "switch" => edit' = NoEdit
    /\ story # "table" => prices' = {}
    /\ story = "cache" => \A n \in DOMAIN answers' : answers'[n].had = 2
    /\ \A c \in Callers : Charted(callers'[c])

\* A story of the statements: the turns of the companies, or the figures of one.
StatementStory ==
    /\ FundNext
    /\ IF story = "walk" THEN statements' = {} /\ (refreshing' # NoRefresh => refreshing'.statements = {})
       ELSE tracked' = {2} /\ (refreshing' # NoRefresh => ToSet(refreshing'.todo) \subseteq {2})

\* A story of the books without closes, or of the closes without books; only A's may be invalid.
BasketStory ==
    /\ BasketsNext
    /\ IF story = "books" THEN closes' = NoCloses ELSE books' = {} /\ \A d \in MarketDays : closes'["B"][d] # 0

MCNext ==
    /\ story' = story
    /\ page' = page
    /\ \/ story = "filings" /\ Next /\ UNCHANGED <<fetchVars, priceVars, chartVars, fundVars, basketVars>>
       \* On the website the two jobs read lists that have no filing in common; the API reads by index,
       \* whatever the website's window shows.
       \/ /\ story \in {"fetch", "adapters"}
          /\ FetchNext
          /\ IF story = "fetch" THEN adapter' = "public" /\ reads'["insiders"] = NoRead
             ELSE since' = 1 /\ faults' = faults
          /\ UNCHANGED <<vars, priceVars, chartVars, fundVars, basketVars>>
       \/ story \in {"table", "cache", "switch"} /\ ChartStory /\ UNCHANGED <<vars, fetchVars, fundVars, basketVars>>
       \/ story \in {"walk", "figures"} /\ StatementStory /\ UNCHANGED <<vars, fetchVars, priceVars, chartVars, basketVars>>
       \/ story \in {"books", "basket"} /\ BasketStory /\ UNCHANGED <<vars, fetchVars, priceVars, chartVars, fundVars>>

MCSpec == MCInit /\ [][MCNext]_<<vars, fetchVars, page, priceVars, chartVars, fundVars, basketVars, story>>
===============================================================================
