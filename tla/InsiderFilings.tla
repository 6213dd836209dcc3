------------------------------ MODULE InsiderFilings ------------------------------
(***************************************************************************)
(* Insider transactions (services/insiders.py, engine/insiders.py).        *)
(* Form 4 documents are read issuer by issuer, the stalest first, each     *)
(* issuer in a savepoint; KAP filings are read one by one.  An amendment   *)
(* (4/A, "Düzeltme") supersedes what it replaces, in whatever order the    *)
(* two are stored, and the purchases that stay live are counted by person. *)
(***************************************************************************)
EXTENDS Integers, FiniteSets, FiniteSetsExt

CONSTANTS Classes,   \* US instruments with a ticker, numbered by symbol
          Issuers,   \* CIKs
          CikOf,     \* the issuer of each class, as the SEC's ticker map has it
          Forms,     \* Form 4 and 4/A documents
          Kap,       \* KAP filings of persons and shareholders
          Doc,       \* what each of them says
          Cap,       \* classes asked for per run (sec_form4_max_issuers)
          Reach,     \* days an amendment looks back or ahead (60)
          Week,      \* days between a stated day and the filing it meant (7)
          Nobody, NoDay

Docs == Forms \union Kap

\* `day` is the date filed and `acc` orders a day's filings; `amends` is a 4/A
\* or a correction; `stated` is dateOfOriginalSubmission, `names` the related
\* index of a correction; a document is `listed` under its issuer and under any
\* company that is an owner.  `family` is the filing it really is about: no part
\* of the program reads that.
ASSUME InsiderAssumption ==
    /\ Classes \subseteq Nat /\ IsFiniteSet(Classes)
    /\ CikOf \in [Classes -> Issuers]
    /\ Forms \intersect Kap = {} /\ IsFiniteSet(Docs)
    /\ Nobody \notin Issuers \union Docs
    /\ Cap \in Nat \ {0} /\ Reach \in Nat /\ Week \in Nat
    /\ NoDay \notin Int
    /\ \A d \in Docs :
         /\ Doc[d].day \in Nat /\ Doc[d].acc \in Nat /\ Doc[d].amends \in BOOLEAN
         /\ Doc[d].issuer \in Issuers /\ Doc[d].listed \subseteq Issuers /\ Doc[d].period \in Nat
         /\ Doc[d].stated \in Nat \union {NoDay} /\ Doc[d].names \in Kap \union {Nobody}
         /\ Doc[d].insider \in Doc[d].owners
         /\ Doc[d].names # Nobody => Doc[Doc[d].names].day <= Doc[d].day
    /\ \A d, e \in Forms : Doc[d].acc = Doc[e].acc => d = e

VARIABLES
    followed,   \* classes the 13F flows or a watchlist name
    mapped,     \* classes with a CIK
    fetched,    \* sec_form4_fetched_at, by rank; 0 is never
    due,        \* documents that will be filed
    filed,      \* those that have been
    table,      \* the Form 4 disclosures as the running session sees them
    committed,  \* ... and as they are committed
    kap,        \* the KAP insider disclosures
    batch,      \* classes left in this run
    scheduled,  \* the run is the scheduler's, not one for given symbols
    reading,    \* the issuer whose savepoint is open
    todo,       \* its listed documents not yet looked at
    owed        \* history: owed[i], issuers not asked since i was last read

secVars == <<fetched, table, committed, batch, reading, todo>>
runVars == <<mapped, scheduled>>
vars == <<followed, mapped, fetched, due, filed, table, committed, kap, batch, scheduled, reading, todo, owed>>

\* `num` is disclosures.id (0: not stored), `rows` those attributed to a stock,
\* `home` those whose raw_uri is in their issuer's folder, `by` is supersedes_id
\* and `old` the is_superseded flag.
Table == [num : [Docs -> Nat], rows : SUBSET Docs, home : SUBSET Docs, by : [Docs -> Docs \union {Nobody}],
          old : SUBSET Docs]
Empty == [num |-> [d \in Docs |-> 0], rows |-> {}, home |-> {}, by |-> [d \in Docs |-> Nobody], old |-> {}]

Stored(t) == {d \in Docs : t.num[d] > 0}
Live(t) == t.rows \ t.old

TypeOK ==
    /\ followed \subseteq Classes /\ mapped \subseteq Classes
    /\ fetched \in [Classes -> 0..Cardinality(Classes)]
    /\ due \subseteq Docs /\ filed \subseteq Docs
    /\ table \in Table /\ committed \in Table /\ kap \in Table
    /\ batch \subseteq Classes
    /\ scheduled \in BOOLEAN
    /\ reading \in Issuers \union {Nobody}
    /\ todo \subseteq Forms
    /\ reading = Nobody => todo = {} /\ table = committed
    /\ owed \in [Issuers -> SUBSET Issuers]

Init ==
    /\ followed \in SUBSET Classes
    /\ mapped \in SUBSET Classes
    /\ fetched = [c \in Classes |-> 0]
    /\ filed \in SUBSET Docs
    /\ due \in SUBSET (Docs \ filed)
    /\ table = Empty /\ committed = Empty /\ kap = Empty
    /\ batch = {} /\ scheduled = FALSE
    /\ reading = Nobody /\ todo = {}
    /\ owed = [i \in Issuers |-> {}]

-------------------------------------------------------------------------------
\* Superseding.  All operators work on a Table t that already holds d.

\* (published_at, id): what max and min compare.
Later(t, d, e) == Doc[d].day > Doc[e].day \/ (Doc[d].day = Doc[e].day /\ t.num[d] >= t.num[e])
Latest(t, ds) == CHOOSE d \in ds : \A e \in ds : Later(t, d, e)
Earliest(t, ds) == CHOOSE d \in ds : \A e \in ds : Later(t, e, d)

\* _mark_superseded; the rows are flagged with their disclosure.
Mark(t, o, n) == [t EXCEPT !.by[n] = o, !.old = @ \union {o}]

Between(d, lower, upper) == Doc[d].day \in lower..upper

\* What the query can find: rows attributed to one of the owners of d, or the issuer's folder.
FoundBy(t, d, e) == Doc[e].insider \in Doc[d].owners \/ e \in t.home

\* Mutant: superseded documents are candidates again.
CandidatesAny(t, d, lower, upper) ==
    {e \in (Forms \intersect t.rows) \ {d} :
        /\ Between(e, lower, upper)
        /\ FoundBy(t, d, e) /\ Doc[e].issuer = Doc[d].issuer
        /\ Doc[e].owners \intersect Doc[d].owners # {}}

\* _amendment_candidates: live documents of the issuer and of one of the owners.
Candidates(t, d, lower, upper) ==
    {e \in (Forms \intersect t.rows) \ (t.old \union {d}) :
        /\ Between(e, lower, upper)
        /\ FoundBy(t, d, e) /\ Doc[e].issuer = Doc[d].issuer
        /\ Doc[e].owners \intersect Doc[d].owners # {}}

\* _supersede: a 4/A replaces the filing of the stated day, else the amendment
\* that states the same day, else the latest of the same period of report.
Replaced(t, d) ==
    LET stated == Doc[d].stated
        among == Candidates(t, d, IF stated = NoDay THEN Doc[d].period - Reach ELSE stated, Doc[d].day)
        exact == {e \in among : stated # NoDay /\ Doc[e].day = stated}
        prior == {e \in among : stated # NoDay /\ Doc[e].stated = stated}
        samePeriod == {e \in among : /\ Doc[e].period = Doc[d].period
                                     /\ stated = NoDay \/ Doc[e].day <= stated + Week}
    IN  IF exact # {} THEN exact ELSE IF prior # {} THEN prior ELSE samePeriod

Supersede(t, d) == IF Replaced(t, d) = {} THEN t ELSE Mark(t, Latest(t, Replaced(t, d)), d)

\* Mutant: an amendment that has superseded something is taken again.
ClaimantsTaken(t, d) ==
    {e \in Candidates(t, d, Doc[d].day, Doc[d].day + Reach) :
        /\ Doc[e].amends
        /\ \/ Doc[e].stated = Doc[d].day
           \/ Doc[e].stated = NoDay /\ Doc[e].period = Doc[d].period}

\* _superseded_on_arrival: the 4/As that were stored before the form d and mean it.
Claimants(t, d) ==
    {e \in Candidates(t, d, Doc[d].day, Doc[d].day + Reach) :
        /\ Doc[e].amends /\ t.by[e] = Nobody
        /\ \/ Doc[e].stated = Doc[d].day
           \/ Doc[e].stated = NoDay /\ Doc[e].period = Doc[d].period}

SupersededOnArrival(t, d) == IF Claimants(t, d) = {} THEN t ELSE Mark(t, d, Earliest(t, Claimants(t, d)))

\* _kap_filings_of: live filings of the same party on the same stock.
KapFilingsOf(t, d, lower, upper) ==
    {e \in (Kap \intersect t.rows) \ (t.old \union {d}) :
        Between(e, lower, upper) /\ Doc[e].issuer = Doc[d].issuer /\ Doc[e].insider = Doc[d].insider}

\* _supersede_kap: the filing a correction names, live or not, and nothing else when it names one.
SupersedeKap(t, d) ==
    LET named == {e \in Stored(t) \ {d} : e = Doc[d].names}
        recent == KapFilingsOf(t, d, Doc[d].day - Reach, Doc[d].day)
        replaced == IF Doc[d].names = Nobody THEN recent ELSE named
    IN  IF replaced = {} THEN t ELSE Mark(t, Latest(t, replaced), d)

\* Mutant: an unnamed correction is not looked for.
KapClaimantsNamed(t, d) ==
    {e \in KapFilingsOf(t, d, Doc[d].day, Doc[d].day + Reach) : Doc[e].amends /\ Doc[e].names = d}

\* _kap_superseded_on_arrival: corrections that came before the filing d.
KapClaimants(t, d) ==
    {e \in KapFilingsOf(t, d, Doc[d].day, Doc[d].day + Reach) :
        Doc[e].amends /\ (Doc[e].names = d \/ (Doc[e].names = Nobody /\ t.by[e] = Nobody))}

KapSupersededOnArrival(t, d) ==
    IF KapClaimants(t, d) = {} THEN t ELSE Mark(t, d, Earliest(t, KapClaimants(t, d)))

-------------------------------------------------------------------------------
\* Storing.

NextNum(t) == Cardinality(Stored(t)) + 1
WithoutRows(t, d) == [t EXCEPT !.num[d] = NextNum(t)]
WithRows(t, d, folder) ==
    [t EXCEPT !.num[d] = NextNum(t), !.rows = @ \union {d}, !.home = IF folder = Doc[d].issuer THEN @ \union {d} ELSE @]

\* _store_form4: a document about another company than the listing's gets rows
\* only when an instrument carries that company's CIK.
StoredForm4(t, d) ==
    IF Doc[d].issuer # reading /\ \A c \in mapped : CikOf[c] # Doc[d].issuer
    THEN WithoutRows(t, d)
    ELSE IF Doc[d].amends THEN Supersede(WithRows(t, d, reading), d)
    ELSE SupersededOnArrival(WithRows(t, d, reading), d)

\* _store_kap_filing, of a page that can be normalised.
StoredKap(t, d) ==
    IF Doc[d].amends THEN SupersedeKap(WithRows(t, d, Nobody), d) ELSE KapSupersededOnArrival(WithRows(t, d, Nobody), d)

-------------------------------------------------------------------------------
\* The feeds.

\* A document is filed; none is filed with a day that is over.
File(d) ==
    /\ d \in due
    /\ \A e \in filed : Doc[e].day <= Doc[d].day
    /\ due' = due \ {d}
    /\ filed' = filed \union {d}
    /\ UNCHANGED <<followed, kap, owed, secVars, runVars>>

\* refresh_kap takes the filings in the order of their index, but a page the
\* site cannot serve is left for a later run, so any of them may be the next.
\* A page that cannot be normalised is kept without rows and never read again.
RefreshKap(d) ==
    /\ d \in (Kap \intersect filed) \ Stored(kap)
    /\ kap' \in {StoredKap(kap, d), WithoutRows(kap, d)}
    /\ UNCHANGED <<followed, due, filed, owed, secVars, runVars>>

RunOver == batch = {} /\ reading = Nobody

\* The order of universe(): never fetched, then the oldest sec_form4_fetched_at,
\* then by symbol; symbols that were given go by symbol.
AskedBefore(c, e) == IF scheduled /\ fetched[c] # fetched[e] THEN fetched[c] < fetched[e] ELSE c < e
NextClass(cs) == CHOOSE c \in cs : \A e \in cs \ {c} : AskedBefore(c, e)
Universe(cs) == {c \in cs : Cardinality({e \in cs : fetched[e] < fetched[c] \/ (fetched[e] = fetched[c] /\ e < c)}) < Cap}

\* _map_ciks: the ticker map, when it can be fetched, names the issuers of
\* some classes that had none.  It is committed before an issuer is read.
MapCiks(learned) ==
    /\ mapped' = mapped \union learned
    /\ owed' = [i \in Issuers |-> IF \E c \in learned : CikOf[c] = i THEN {} ELSE owed[i]]

\* refresh() and refresh(symbols).
Refresh(learned) ==
    /\ RunOver
    /\ MapCiks(learned)
    /\ scheduled' = TRUE
    /\ batch' = Universe(followed \intersect mapped')
    /\ UNCHANGED <<followed, fetched, due, filed, table, committed, kap, reading, todo>>

\* A list of symbols is one such run after the other.
RefreshSymbol(c, learned) ==
    /\ RunOver
    /\ MapCiks(learned)
    /\ scheduled' = FALSE
    /\ batch' = {c} \intersect mapped'
    /\ UNCHANGED <<followed, fetched, due, filed, table, committed, kap, reading, todo>>

\* Plain forms before amendments of the same day, then by accession.
FiledBefore(d, e) ==
    \/ Doc[d].day < Doc[e].day
    \/ Doc[d].day = Doc[e].day /\ ~Doc[d].amends /\ Doc[e].amends
    \/ Doc[d].day = Doc[e].day /\ Doc[d].amends = Doc[e].amends /\ Doc[d].acc < Doc[e].acc

Oldest(ds) == CHOOSE d \in ds : \A e \in ds \ {d} : FiledBefore(d, e)
Listing(i) == {d \in Forms \intersect filed : i \in Doc[d].listed}

\* The savepoint opens and the listing is read.
OpenIssuer ==
    /\ batch # {} /\ reading = Nobody
    /\ reading' = CikOf[NextClass(batch)]
    /\ todo' = Listing(reading') \ Stored(table)
    /\ owed' = [i \in Issuers |-> owed[i] \ {reading'}]
    /\ UNCHANGED <<followed, due, filed, kap, fetched, table, committed, batch, runVars>>

ReadForm4 ==
    /\ todo # {}
    /\ table' = StoredForm4(table, Oldest(todo))
    /\ todo' = todo \ {Oldest(todo)}
    /\ UNCHANGED <<followed, due, filed, kap, owed, fetched, committed, batch, reading, runVars>>

\* A document that is not served or cannot be parsed waits for the next run.
PassForm4 ==
    /\ todo # {}
    /\ todo' = todo \ {Oldest(todo)}
    /\ UNCHANGED <<followed, due, filed, kap, owed, fetched, table, committed, batch, reading, runVars>>

\* Mutant: only the class that was asked for is stamped.
StampedAlone(i) == {NextClass(batch)}

\* Every class of the issuer gets the time.
Classed(i) == {c \in mapped : CikOf[c] = i}

\* Ranks stand for times: a class gets the number of times up to its own.
Ranked(times) == [c \in Classes |-> IF times[c] = 0 THEN 0
                                    ELSE Cardinality({times[e] : e \in {e \in Classes : times[e] \in 1..times[c]}})]

\* The savepoint is released and committed; the issuer's other classes have
\* nothing left to fetch in this run.
CloseIssuer ==
    /\ reading # Nobody /\ todo = {}
    /\ fetched' = Ranked([c \in Classes |-> IF c \in Classed(reading) THEN Cardinality(Classes) + 1 ELSE fetched[c]])
    /\ committed' = table
    /\ owed' = [owed EXCEPT ![reading] = {CikOf[c] : c \in followed \intersect mapped} \ {reading}]
    /\ batch' = {c \in batch : CikOf[c] # reading}
    /\ reading' = Nobody
    /\ UNCHANGED <<followed, due, filed, kap, table, todo, runVars>>

\* Mutant: without a savepoint the session keeps what the issuer wrote.
RollBackNothing ==
    /\ reading' = Nobody
    /\ todo' = {}
    /\ UNCHANGED <<followed, due, filed, kap, owed, fetched, table, committed, runVars>>

\* The savepoint is undone.
RollBack ==
    /\ table' = committed
    /\ reading' = Nobody
    /\ todo' = {}
    /\ UNCHANGED <<followed, due, filed, kap, owed, fetched, committed, runVars>>

\* The listing, or a write, fails: the class is given up for this run.
SkipIssuer == reading # Nobody /\ batch' = batch \ {NextClass(batch)} /\ RollBack

\* EDGAR refuses (403, 429, 5xx), or the process dies: the run ends here.
StopRun == ~RunOver /\ batch' = {} /\ RollBack

Next ==
    \/ \E d \in due : File(d)
    \/ \E d \in Kap : RefreshKap(d)
    \/ \E learned \in SUBSET (followed \ mapped) :
         Refresh(learned) \/ \E c \in followed : RefreshSymbol(c, learned)
    \/ OpenIssuer \/ ReadForm4 \/ PassForm4 \/ CloseIssuer
    \/ SkipIssuer \/ StopRun

Spec == Init /\ [][Next]_vars

-------------------------------------------------------------------------------
\* insider_groups: the live purchases of an issuer by the person behind them.

Hits(i) == {d \in Live(table) \union Live(kap) : Doc[d].buys /\ Doc[d].issuer = i}

Owners == UNION {Doc[d].owners : d \in Docs}

Find(parent, person) ==
    LET find[c \in Owners] == IF parent[c] = c THEN c ELSE find[parent[c]]
    IN  find[person]

\* Mutant: the insider a row is attributed to stands for all owners.
JoinedAlone(d, parent) == parent

\* Every owner of the filing joins the one its rows are attributed to.
Joined(d, parent) ==
    FoldSet(LAMBDA c, p : [p EXCEPT ![Find(p, c)] = Find(p, Doc[d].insider)], parent, Doc[d].owners)

Groups(hits) ==
    LET parent == FoldSet(Joined, [c \in Owners |-> c], hits)
        Root(d) == Find(parent, Doc[d].insider)
    IN  {{d \in hits : Root(d) = r} : r \in {Root(e) : e \in hits}}

-------------------------------------------------------------------------------
\* Properties.

Supersedes(t, n, o) == t.by[n] = o

\* A disclosure that is flagged was superseded by a stored one, and following
\* those links leads to one that is not flagged: no arrival order makes a
\* filing disappear from both sides (_mark_superseded, supersedes_id is None).
NothingLost ==
    \A t \in {table, committed, kap} :
      /\ t.old = {t.by[n] : n \in Stored(t)} \ {Nobody}
      /\ \A S \in SUBSET Stored(t) : S # {} => \E o \in S : \A n \in S : ~Supersedes(t, n, o)

\* Two Form 4 documents never supersede the same one: a second amendment
\* replaces the first, "not the long-superseded original" (_supersede).
ReplacedOnce ==
    \A n, m \in Forms : Supersedes(table, n, table.by[m]) /\ table.by[m] # Nobody => n = m

\* Both: no filing drops out by the links of the amendments, and none is replaced twice.
LinksKept == NothingLost /\ ReplacedOnce

Family(d) == {e \in Docs : Doc[e].family = Doc[d].family}
Amendments(F) == {e \in F : Doc[e].amends}
SameFiler(d, e) == Doc[d].issuer = Doc[e].issuer /\ Doc[d].owners \intersect Doc[e].owners # {}

MeansAnother(d, e) == Doc[d].amends /\ Doc[d].stated # NoDay /\ Doc[d].stated \in {Doc[e].day, Doc[e].stated}

\* The amendments state one day, or none, and nothing else the owners have
\* filed can be mistaken for what they mean.
Unambiguous(F) ==
    /\ \A d, e \in Amendments(F) : Doc[d].stated = Doc[e].stated
    /\ \A d \in F, e \in Docs \ F : SameFiler(d, e) =>
         /\ Doc[e].period # Doc[d].period
         /\ ~MeansAnother(d, e) /\ ~MeansAnother(e, d)

\* No two corrections name one filing.
NamedOnce(F) == \A d, e \in F : Doc[d].names = Doc[e].names /\ Doc[d].names # Nobody => d = e

Clear == {d \in Docs : ~Doc[d].amends /\ Unambiguous(Family(d)) /\ NamedOnce(Family(d))}

InOrder(t, F) == \A d, e \in F : FiledBefore(d, e) => t.num[d] < t.num[e]

\* An original and one amendment that states its day, or none.
Pair(F) == \E o, a \in F : F = {o, a} /\ ~Doc[o].amends /\ Doc[a].amends /\ Doc[a].stated \in {Doc[o].day, NoDay}

\* Of a filing and its amendments only the newest counts, when they were
\* stored in order; an original and its only amendment may come in any order
\* (_superseded_on_arrival: "the two never count together").
OneLive ==
    \A t \in {u \in {committed, kap} : u.rows # {}}, d \in Clear :
      LET F == Family(d) \intersect t.rows
      IN  /\ F # {} /\ Family(d) \intersect Stored(t) = F
          /\ InOrder(t, F) \/ Pair(F)
          => F \ t.old = {CHOOSE n \in F : \A e \in F \ {n} : FiledBefore(e, n)}

\* The scheduler does not read an issuer again before it has asked for every
\* other one it knew when it read it last (universe: "instead of re-reading
\* the same head").
RoundRobin == scheduled /\ reading # Nobody => owed[reading] = {}

\* Purchases are one insider's exactly when a chain of filings with an owner
\* in common connects them, whatever order they are taken in (insider_groups).
PersonsCountedOnce ==
    \A i \in Issuers :
      LET hits == Hits(i)
          groups == Groups(hits)
          Shared(d, e) == Doc[d].owners \intersect Doc[e].owners # {}
      IN  /\ UNION groups = hits
          /\ \A g \in groups : \A d \in g, e \in hits : Shared(d, e) => e \in g
          /\ \A g \in groups : \A S \in SUBSET g \ {{}, g} : \E d \in S, e \in g \ S : Shared(d, e)

\* The purchases the page counts are each one trade of one insider: a filing and its
\* amendments count once, and the owners of a joint filing are one buyer.
TradesOfOne == OneLive /\ PersonsCountedOnce

===============================================================================
