-------------------------------- MODULE KapFetch --------------------------------
(***************************************************************************)
(* Reading KAP (ingestion/kap/public_adapter.py, api_adapter.py, driven by *)
(* pipeline.ingest and insiders.refresh_kap).  The ingest job reads the    *)
(* PYS transactions and portfolio reports through the public website or    *)
(* the licensed API; the insiders job reads the other filings through the  *)
(* website, and does not run while the adapter is the API.  An             *)
(* administrator may switch the adapter at any time; a run that has begun  *)
(* goes on with the one it began with.  Every filing read is committed on  *)
(* its own.  The website is read by a window of days and skips what is     *)
(* stored; the API by disclosure index, from the highest index stored.     *)
(***************************************************************************)
EXTENDS Integers, FiniteSets, FiniteSetsExt, Sequences

CONSTANTS Filings,     \* KAP disclosures by index, in the order of publication: 1..N
          Sort,        \* "pys", "report", "person", or "other" for any other subject
          Legible,     \* the filings with numbers the parsers can read
          PageCap,     \* per sort, pages tried in a run of the public adapter
          MaxCalls,    \* calls in a run of the API adapter (kap_api_max_calls)
          PageSize,    \* disclosures of a page of the API (50)
          StartBack,   \* disclosures before the last one the first API run starts at (500)
          Retries,     \* times a throttled call is tried (3)
          MaxFaults    \* bound: pages the site cannot serve

ASSUME KapFetchAssumption ==
    /\ IsFiniteSet(Filings) /\ Filings = 1 .. Cardinality(Filings)
    /\ Sort \in [Filings -> {"pys", "report", "person", "other"}]
    /\ Legible \subseteq Filings
    /\ \A s \in {"pys", "report", "person"} : PageCap[s] \in Nat \ {0}
    /\ {MaxCalls, PageSize, Retries} \subseteq Nat \ {0} /\ {StartBack, MaxFaults} \subseteq Nat

VARIABLES
    adapter,    \* settings.kap_adapter
    published,  \* the last index
    since,      \* the first index the window of days still shows
    kept,       \* indexes of the stored disclosures
    reads,      \* the runs of the two jobs
    began,      \* history: where the API adapter started after the last switch to it, 0 if it has not
    faults,     \* history: pages tried and not stored, by sort
    ahead,      \* history: ahead[x], filings of x's sort unread when it was published
    passed      \* history: passed[x], runs that listed x and did not get to it

fetchVars == <<adapter, published, since, kept, reads, began, faults, ahead, passed>>

Jobs == {"ingest", "insiders"}
Wanted == {"pys", "report"}

\* A run through the website, of one list after the other; through the API, with its cursor.
PublicRead(step, sort, known, todo, tries) ==
    [step |-> step, sort |-> sort, known |-> known, todo |-> todo, tries |-> tries, cursor |-> 0, last |-> 0]
ApiRead(step, known, todo, tries, cursor, last) ==
    [step |-> step, sort |-> "pys", known |-> known, todo |-> todo, tries |-> tries, cursor |-> cursor, last |-> last]
NoRead == PublicRead("idle", "pys", {}, {}, 0)

FetchInit ==
    /\ adapter \in {"public", "api"}
    /\ published = 0
    /\ since = 1
    /\ kept = {}
    /\ reads = [j \in Jobs |-> NoRead]
    /\ began = 0
    /\ faults = [s \in {"pys", "report", "person"} |-> 0]
    /\ ahead = [x \in Filings |-> 0]
    /\ passed = [x \in Filings |-> 0]

Unread(s) == {x \in since .. published : Sort[x] = s /\ x \notin kept}

Publish ==
    /\ published + 1 \in Filings
    /\ published' = published + 1
    /\ ahead' = IF Sort[published'] = "other" THEN ahead
                ELSE [ahead EXCEPT ![published'] = Cardinality(Unread(Sort[published']))]
    /\ UNCHANGED <<adapter, since, kept, reads, began, faults, passed>>

\* A day goes by and the oldest filings leave the window.
WindowMoves ==
    /\ since <= published
    /\ since' = since + 1
    /\ UNCHANGED <<adapter, published, kept, reads, began, faults, ahead, passed>>

\* An administrator edits kap_adapter; jobs read it when they start, not while they run.
SwitchAdapter ==
    /\ adapter' = IF adapter = "public" THEN "api" ELSE "public"
    /\ began' = 0
    /\ UNCHANGED <<published, since, kept, reads, faults, ahead, passed>>

GoesOn(j, r) == reads' = [reads EXCEPT ![j] = r]

\* The run is over, of itself or by an exception; what it has stored is committed.
Ends(j) == GoesOn(j, NoRead)

-------------------------------------------------------------------------------
\* The public adapter.  Both its iterators take the rows of a list in ascending order.

StartPublic(j) ==
    /\ adapter = "public"
    /\ reads[j].step = "idle"
    /\ GoesOn(j, PublicRead("list", IF j = "ingest" THEN "pys" ELSE "person", kept, {}, 0))
    /\ UNCHANGED <<adapter, published, since, kept, began, faults, ahead, passed>>

\* list_disclosures, list_insider_disclosures and list_portfolio_reports tell the lists apart by
\* the member's title; _request raises after four attempts and that ends the run.
ListRows(j) ==
    /\ reads[j].step = "list"
    /\ LET r == reads[j]
           rows == {x \in since .. published : Sort[x] = r.sort}
       IN  GoesOn(j, PublicRead("rows", r.sort, r.known, rows \ r.known, 0)) \/ Ends(j)
    /\ UNCHANGED <<adapter, published, since, kept, began, faults, ahead, passed>>

\* Mutant: the newest first.
NextRowNewest(rows) == Max(rows)
NextRow(rows) == Min(rows)

\* A page of the list, stored as soon as it is read.  A page without numbers is left out, unless
\* the model makes something of its prose; of a person's it is stored as failed.  One the site does
\* not serve is skipped.
TryRow(j) ==
    LET r == reads[j]
        x == NextRow(r.todo)
    IN  /\ r.step = "rows" /\ r.todo # {} /\ r.tries < PageCap[r.sort]
        /\ GoesOn(j, PublicRead("rows", r.sort, r.known, r.todo \ {x}, r.tries + 1))
        /\ \/ /\ kept' = kept \union {x}
              /\ UNCHANGED faults
           \/ /\ x \notin Legible => r.sort # "person"
              /\ faults[r.sort] < MaxFaults
              /\ faults' = [faults EXCEPT ![r.sort] = @ + 1]
              /\ UNCHANGED kept
        /\ UNCHANGED <<adapter, published, since, began, ahead, passed>>

\* The end of the list or the cap, and the ingest job goes on to the reports.
EndList(j) ==
    LET r == reads[j]
    IN  /\ r.step = "rows" /\ (r.todo = {} \/ r.tries = PageCap[r.sort])
        /\ passed' = [x \in Filings |-> IF x \in r.todo THEN passed[x] + 1 ELSE passed[x]]
        /\ IF r.sort = "pys" THEN GoesOn(j, PublicRead("list", "report", r.known, {}, 0)) ELSE Ends(j)
        /\ UNCHANGED <<adapter, published, since, kept, began, faults, ahead>>

-------------------------------------------------------------------------------
\* The API adapter.  Calls are counted; a throttled call counts again and is given up after Retries.

Cost == 1 .. Retries

\* _last_source_id: of every disclosure stored, whichever job stored it.
HighestStored == IF kept = {} THEN 0 ELSE Max(kept)

Cursor(last) == IF kept = {} THEN Max({last - StartBack, 1}) ELSE HighestStored + 1

\* detect_auth and last_index.
StartApi ==
    /\ adapter = "api"
    /\ reads["ingest"].step = "idle"
    /\ published > 0
    /\ \E tries \in Cost :
         GoesOn("ingest", ApiRead("page", kept, {}, 1 + tries, Cursor(published), published))
    /\ began' = IF began = 0 \/ kept = {} THEN Cursor(published) ELSE began
    /\ UNCHANGED <<adapter, published, since, kept, faults, ahead, passed>>

\* list_from: the first disclosures from the cursor on; an error of the call ends the run.
ApiPage ==
    LET r == reads["ingest"]
        from == r.cursor .. published
    IN  /\ r.step = "page"
        /\ \/ /\ r.cursor <= r.last /\ r.tries < MaxCalls
              /\ \E tries \in Cost :
                   GoesOn("ingest", ApiRead("api rows", r.known, {x \in from : x < r.cursor + PageSize},
                                            r.tries + tries, r.cursor, r.last))
           \/ Ends("ingest")
        /\ UNCHANGED <<adapter, published, since, kept, began, faults, ahead, passed>>

NextOnPage(r, x, tries) ==
    GoesOn("ingest", ApiRead(IF r.todo = {x} THEN "page" ELSE "api rows", r.known, r.todo \ {x}, tries, x + 1, r.last))

\* A row that is stored, of another subject, or out of calls is passed.
Passes(r, x) == x \in r.known \/ r.tries >= MaxCalls \/ Sort[x] = "other"

\* The detail call says whether it is a PYS's at all; a filing of a person, or one without numbers,
\* has cost its calls and is not stored.
StoredByApi(x) == Sort[x] \in Wanted /\ x \in Legible

\* Mutant: an error of the detail call passes the row, as the public adapter does.
ApiFailsSkips(r, x) == NextOnPage(r, x, r.tries)

\* An error of the detail call goes up and ends the run.
ApiFails(r, x) == Ends("ingest")

ApiRow ==
    LET r == reads["ingest"]
        x == Min(r.todo)
    IN  /\ r.step = "api rows"
        /\ \/ /\ Passes(r, x)
              /\ NextOnPage(r, x, r.tries)
              /\ UNCHANGED kept
           \/ /\ ~Passes(r, x)
              /\ \E tries \in Cost : NextOnPage(r, x, r.tries + tries)
              /\ kept' = IF StoredByApi(x) THEN kept \union {x} ELSE kept
           \/ /\ ~Passes(r, x)
              /\ ApiFails(r, x)
              /\ UNCHANGED kept
        /\ UNCHANGED <<adapter, published, since, began, faults, ahead, passed>>

FetchNext ==
    \/ Publish
    \/ WindowMoves
    \/ SwitchAdapter
    \/ \E j \in Jobs : StartPublic(j) \/ ListRows(j) \/ TryRow(j) \/ EndList(j)
    \/ StartApi \/ ApiPage \/ ApiRow

FetchSpec == FetchInit /\ [][FetchNext]_fetchVars

-------------------------------------------------------------------------------
\* On the website older filings go first: every run that did not get to a filing has
\* spent its whole cap on older ones, so a filing is passed over at most once for every
\* PageCap filings that were unread before it and pages that could not be read meanwhile.
TakesTurns ==
    \A x \in Filings : passed[x] > 0 => passed[x] * PageCap[Sort[x]] <= ahead[x] + faults[Sort[x]]

MissedBelow(bar) == {x \in Filings : Sort[x] \in Wanted /\ x \in Legible \ kept /\ began <= x /\ x < bar}

\* Since the API was switched to, no filing that can be read is left behind one it has stored,
\* whatever call fails, unless the insiders job, begun before the switch, stored one beyond.
NoGap ==
    began > 0 =>
      \A y \in kept : Sort[y] \in Wanted =>
         \A x \in MissedBelow(y) : \E z \in kept : Sort[z] = "person" /\ z > x

\* Whichever adapter reads KAP, and however often it is switched, every listed filing gets its
\* turn and none is passed over.  (fetch_iter of both adapters, ingest(), refresh_kap())
ListReadThrough == TakesTurns /\ NoGap

=============================================================================
