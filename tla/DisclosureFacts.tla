--------------------------- MODULE DisclosureFacts ---------------------------
(***************************************************************************)
(* The disclosure pipeline of services/pipeline.py: filings are stored raw *)
(* one commit at a time, parsed in one transaction into transaction events *)
(* and portfolio snapshots, and the position changes between snapshots are *)
(* recomputed in another one.  Corrections supersede what they replace.    *)
(* Several jobs (scheduler.py: KAP, SEC; the administrator's run) do this  *)
(* on one database, and any of them may die between two commits.           *)
(*                                                                         *)
(* A transaction is a READ step, which remembers what the session loaded,  *)
(* and a COMMIT step.  In between the database row locks hold back every   *)
(* write to a filing the transaction has touched, so its writes happen at  *)
(* once for the others; a transaction that loses a conflict is rolled back *)
(* (Abort).                                                                *)
(***************************************************************************)
EXTENDS Integers, FiniteSets

CONSTANTS Filings,   \* row ids of disclosures (numbers: ties are broken by them)
          Events,    \* the filings that report a transaction; the others report a portfolio
          Published, \* published_at of each filing
          Amends,    \* amends_source_id of each filing, or NoFiling
          Restating, \* 13F amendments that restate the whole portfolio
          Additive,  \* 13F amendments that only list NEW HOLDINGS
          MayFail,   \* filings the parser may not be able to read
          Books,     \* pairs of a fund and a report date
          BookOf,    \* the one each portfolio report is for
          FundOf,    \* the fund of each book
          AsOf,      \* the report date of each book
          Jobs,      \* sessions that run the pipeline
          NoFiling,  \* the null disclosure
          MaxCrashes \* bound: rollbacks and crashes

Reports == Filings \ Events

ASSUME FactsAssumption ==
    /\ Filings \subseteq Nat /\ IsFiniteSet(Filings)
    /\ Events \subseteq Filings
    /\ NoFiling \notin Filings
    /\ Published \in [Filings -> Nat]
    /\ Amends \in [Filings -> Filings \union {NoFiling}]
    /\ Restating \subseteq Reports /\ Additive \subseteq Reports
    /\ Restating \intersect Additive = {}
    /\ MayFail \subseteq Filings
    /\ BookOf \in [Reports -> Books]
    /\ AsOf \in [Books -> Int]
    /\ MaxCrashes \in Nat

VARIABLES
    status,     \* status[f]: "absent", else parse_status of the disclosure
    superseded, \* the disclosures with is_superseded
    live,       \* live[f]: transaction events of f that count
    dead,       \* dead[f]: transaction events of f marked superseded
    base,       \* base[b]: disclosure_id of the snapshot of book b, or NoFiling
    parts,      \* parts[b]: the filings whose holdings are in that snapshot
    changes,    \* position changes: pairs of books, with the holdings compared
    phase,      \* phase[j]: what job j does
    batch,      \* batch[j]: the pending disclosures job j loaded
    flagged,    \* flagged[j]: those of them loaded with is_superseded set
    \* history, not state of the program
    late,       \* filings stored after one published later
    crashes     \* rollbacks and crashes so far

facts == <<live, dead, base, parts>>
job == <<phase, batch, flagged>>
vars == <<status, superseded, live, dead, base, parts, changes, phase, batch, flagged, late, crashes>>

Change == [from : Books, to : Books, old : SUBSET Filings, new : SUBSET Filings]

TypeOK ==
    /\ status \in [Filings -> {"absent", "PENDING", "PARSED", "FAILED"}]
    /\ superseded \subseteq Filings
    /\ live \in [Filings -> Nat]
    /\ dead \in [Filings -> Nat]
    /\ base \in [Books -> Filings \union {NoFiling}]
    /\ parts \in [Books -> SUBSET Filings]
    /\ changes \subseteq Change
    /\ phase \in [Jobs -> {"ingest", "parse", "compute"}]
    /\ batch \in [Jobs -> SUBSET Filings]
    /\ flagged \in [Jobs -> SUBSET Filings]
    /\ late \subseteq Filings
    /\ crashes \in Nat

Init ==
    /\ status = [f \in Filings |-> "absent"]
    /\ superseded = {}
    /\ live = [f \in Filings |-> 0]
    /\ dead = [f \in Filings |-> 0]
    /\ base = [b \in Books |-> NoFiling]
    /\ parts = [b \in Books |-> {}]
    /\ changes = {}
    /\ phase = [j \in Jobs |-> "ingest"]
    /\ batch = [j \in Jobs |-> {}]
    /\ flagged = [j \in Jobs |-> {}]
    /\ late = {}
    /\ crashes = 0

-----------------------------------------------------------------------------
Stored == {f \in Filings : status[f] # "absent"}
\* Mutants of Pending: parsed filings are taken again; superseded ones never.
PendingAgain == {f \in Filings : status[f] \in {"PENDING", "PARSED"}}
PendingUnlessSuperseded == {f \in Filings \ superseded : status[f] = "PENDING"}

Pending == {f \in Filings : status[f] = "PENDING"}

\* (published_at, id) of f is smaller than that of g.
Before(f, g) == Published[f] < Published[g] \/ (Published[f] = Published[g] /\ f < g)

\* 13F filings for the book of g that count as earlier than g: filed at most the same day.
EarlierFor(f, g) == f \in Stored \ (Events \union {g}) /\ BookOf[f] = BookOf[g] /\ Published[f] <= Published[g]

\* Mutant of Replaced: the filing named is not looked up.
ReplacedUnchecked(f) == {Amends[f]}

\* The stored filing the new filing f replaces: the one it names, or, for a
\* restating 13F-HR/A that names none, the latest earlier one of its book.
Replaced(f) ==
    {g \in Stored \ {f} :
        /\ f \notin Additive
        /\ \/ Amends[f] = g
           \/ /\ Amends[f] = NoFiling /\ f \in Restating
              /\ EarlierFor(g, f)
              /\ \A h \in Filings : EarlierFor(h, f) => h = g \/ Before(h, g)}

\* Mutant of Without: the changes that start from a deleted snapshot stay.
WithoutTo(gone) == {c \in changes : c.to \notin gone}

\* The changes left when the snapshots of the books in gone are deleted.
Without(gone) == {c \in changes : c.from \notin gone /\ c.to \notin gone}

-----------------------------------------------------------------------------
\* One turn of ingest(): the filing, the superseding and the loss of what it
\* replaces are one commit.
Store(j, f) ==
    LET old == Replaced(f)
        gone == {b \in Books : base[b] \in old}
    IN  /\ phase[j] = "ingest"
        /\ status[f] = "absent"
        /\ status' = [status EXCEPT ![f] = "PENDING"]
        /\ superseded' = superseded \union old
        /\ live' = [g \in Filings |-> IF g \in old THEN 0 ELSE live[g]]
        /\ dead' = [g \in Filings |-> IF g \in old THEN dead[g] + live[g] ELSE dead[g]]
        /\ base' = [b \in Books |-> IF b \in gone THEN NoFiling ELSE base[b]]
        /\ parts' = [b \in Books |-> IF b \in gone THEN {} ELSE parts[b]]
        /\ changes' = Without(gone)
        /\ late' = IF \E g \in Stored : Published[g] > Published[f] THEN late \union {f} ELSE late
        /\ UNCHANGED <<job, crashes>>

\* parse_pending() loads the pending disclosures, with the is_superseded they have now.
ReadPending(j) ==
    /\ phase[j] = "ingest"
    /\ Pending # {}
    /\ phase' = [phase EXCEPT ![j] = "parse"]
    /\ batch' = [batch EXCEPT ![j] = Pending]
    /\ flagged' = [flagged EXCEPT ![j] = Pending \intersect superseded]
    /\ UNCHANGED <<status, superseded, facts, changes, late, crashes>>

\* Mutant of After: ORDER BY published_at DESC.
AfterDescending(g, f, rising) ==
    Published[g] < Published[f] \/ (Published[f] = Published[g] /\ (IF rising THEN f < g ELSE g < f))

\* ORDER BY published_at: g has its turn after f.  The query leaves ties open; they
\* come by rising or by falling id here.
After(g, f, rising) ==
    \/ Published[f] < Published[g]
    \/ Published[f] = Published[g] /\ (IF rising THEN f < g ELSE g < f)

\* Mutant of Writers: is_superseded is not looked at.
WritersUnflagged(j, read, b) == {f \in read \ Events : BookOf[f] = b}

\* The reports of a batch that write to book b: of those read, the ones that were
\* not superseded when they were loaded.
Writers(j, read, b) == {f \in read \ (Events \union flagged[j]) : BookOf[f] = b}

\* Of the writers of b, those that replace its snapshot: every report but the
\* additive ones, and an additive one where there is no snapshot to add to.
Replacing(W, b, rising) ==
    {f \in W : f \notin Additive \/ (base[b] = NoFiling /\ \A g \in W \ {f} : After(g, f, rising))}

\* The last of the filings in S in the order they are parsed.
LastOf(S, rising) == CHOOSE f \in S : \A g \in S \ {f} : After(f, g, rising)

\* Mutant of NewParts: an additive amendment changes no existing snapshot.
NewPartsUnmerged(W, b, rising) ==
    LET R == Replacing(W, b, rising)
    IN  IF R = {} THEN parts[b] ELSE {LastOf(R, rising)}

\* The snapshot of b after writers W: the last replacing report and the additive
\* ones merged into it after.
NewParts(W, b, rising) ==
    LET R == Replacing(W, b, rising)
        last == LastOf(R, rising)
    IN  IF R = {} THEN parts[b] \union W
                  ELSE {f \in W : f = last \/ After(f, last, rising)}

\* The transaction of parse_pending(), in which the parser fails on bad: what is
\* read is written, what is not is FAILED.  Jobs that wrote no fact do not compute.
Commit(j, bad, rising) ==
    LET read == batch[j] \ bad
        replaced == {b \in Books : Replacing(Writers(j, read, b), b, rising) # {}}
    IN  /\ phase[j] = "parse"
        /\ status' = [f \in Filings |-> IF f \in bad THEN "FAILED"
                                        ELSE IF f \in read THEN "PARSED" ELSE status[f]]
        /\ live' = [f \in Filings |->
                       IF f \in (read \intersect Events) \ flagged[j] THEN live[f] + 1 ELSE live[f]]
        /\ dead' = [f \in Filings |->
                       IF f \in read \intersect Events \intersect flagged[j] THEN dead[f] + 1 ELSE dead[f]]
        /\ base' = [b \in Books |->
                       IF b \in replaced THEN LastOf(Replacing(Writers(j, read, b), b, rising), rising)
                                         ELSE base[b]]
        /\ parts' = [b \in Books |-> NewParts(Writers(j, read, b), b, rising)]
        /\ changes' = Without(replaced)
        /\ phase' = [phase EXCEPT ![j] = IF read = {} THEN "ingest" ELSE "compute"]
        /\ batch' = [batch EXCEPT ![j] = {}]
        /\ flagged' = [flagged EXCEPT ![j] = {}]
        /\ UNCHANGED <<superseded, late, crashes>>

CommitParse(j) ==
    \E bad \in SUBSET (batch[j] \intersect MayFail), rising \in BOOLEAN : Commit(j, bad, rising)

\* Consecutive snapshots of one fund.
Chain ==
    LET held == {b \in Books : base[b] # NoFiling}
        next(b, c) ==
            /\ FundOf[b] = FundOf[c] /\ AsOf[b] < AsOf[c]
            /\ ~ \E d \in held : FundOf[d] = FundOf[b] /\ AsOf[b] < AsOf[d] /\ AsOf[d] < AsOf[c]
    IN  {[from |-> p[1], to |-> p[2], old |-> parts[p[1]], new |-> parts[p[2]]] :
            p \in {q \in held \X held : next(q[1], q[2])}}

\* compute() after a run that parsed something: rebuild_positions() starts anew.
Compute(j) ==
    /\ phase[j] = "compute"
    /\ changes' = Chain
    /\ phase' = [phase EXCEPT ![j] = "ingest"]
    /\ UNCHANGED <<status, superseded, facts, batch, flagged, late, crashes>>

\* The scheduler computes every night, whether anything was parsed or not.
NightlyCompute ==
    /\ changes' = Chain
    /\ UNCHANGED <<status, superseded, facts, job, late, crashes>>

\* A job dies, or its transaction is rolled back: what it committed stays.
Abort(j) ==
    /\ phase[j] # "ingest"
    /\ crashes < MaxCrashes
    /\ crashes' = crashes + 1
    /\ phase' = [phase EXCEPT ![j] = "ingest"]
    /\ batch' = [batch EXCEPT ![j] = {}]
    /\ flagged' = [flagged EXCEPT ![j] = {}]
    /\ UNCHANGED <<status, superseded, facts, changes, late>>

-----------------------------------------------------------------------------
Run(j) == ReadPending(j) \/ CommitParse(j) \/ Compute(j)

Next ==
    \/ \E j \in Jobs : (\E f \in Filings : Store(j, f)) \/ Run(j) \/ Abort(j)
    \/ NightlyCompute

Spec == Init /\ [][Next]_vars

\* Jobs are scheduled again and again and each goes through its stages; nobody
\* must publish anything.
Fairness == WF_vars(NightlyCompute) /\ \A j \in Jobs : WF_vars(Run(j))

FairSpec == Spec /\ Fairness

-----------------------------------------------------------------------------
\* Properties.

\* "Re-running never double-counts": however often jobs are rolled back and start
\* again, a transaction filing that was parsed has exactly one event, the others
\* have none.
CountedOnce ==
    \A f \in Filings :
        live[f] + dead[f] = IF f \in Events /\ status[f] = "PARSED" THEN 1 ELSE 0

\* The supersede law: no event of a superseded filing counts and no snapshot is its
\* own, whether it was parsed before or after its correction came; the events of the
\* other filings all count.
SupersedeLaw ==
    /\ \A f \in superseded : live[f] = 0 /\ \A b \in Books : base[b] # f
    /\ \A f \in Filings \ superseded : dead[f] = 0

\* Book b has lost a report for good: one could not be read, or one was replaced by a filing
\* that is no report for b.
Orphaned(b) ==
    \/ \E f \in Reports : BookOf[f] = b /\ status[f] = "FAILED"
    \/ \E f \in Stored \ Additive, g \in Reports :
          Amends[f] = g /\ BookOf[g] = b /\ (f \in Events \/ BookOf[f] # b)

\* The snapshot of a book for which a full report counts is no older than that report,
\* unless an older one arrives late, and is never an amendment that lists new holdings
\* only, unless the book has lost a report.
NewestWins ==
    \A b \in Books, f \in Reports \ (Additive \union superseded) :
        BookOf[f] = b /\ status[f] = "PARSED" /\ base[b] # NoFiling =>
            /\ late = {} => Published[f] <= Published[base[b]]
            /\ ~ Orphaned(b) => base[b] \notin Additive

\* Unless it arrives late, a NEW HOLDINGS amendment that counts is part of the book
\* it completes.
AmendmentMerged ==
    \A b \in Books, f \in Additive \ superseded :
        /\ BookOf[f] = b /\ status[f] = "PARSED"
        /\ base[b] # NoFiling /\ Published[base[b]] < Published[f]
        /\ late = {}
        => f \in parts[b]

\* With nothing late, a book is what its newest filings say, in whatever order and batches
\* they were parsed.
BookIsNewest == NewestWins /\ AmendmentMerged

\* Position changes compare snapshots that exist; deleting a snapshot takes both its
\* changes along, and no snapshot is compared with itself or skipped over backwards.
ChangesLive ==
    \A c \in changes :
        /\ base[c.from] # NoFiling /\ base[c.to] # NoFiling
        /\ FundOf[c.from] = FundOf[c.to] /\ AsOf[c.from] < AsOf[c.to]

\* Every stored filing is parsed or fails in the end, and once no filing arrives any
\* more the position changes are those of the snapshots, whatever job died when.
Converges ==
    /\ \A f \in Filings : status[f] = "PENDING" ~> status[f] \in {"PARSED", "FAILED"}
    /\ <>[](changes = Chain)

=============================================================================
