---------------------------- MODULE SearchIndex ----------------------------
(***************************************************************************)
(* The full-text index of one market (services/search_index.py; read by    *)
(* services/search.py): a row for every document the product stores.       *)
(*                                                                         *)
(* Jobs write documents in transactions that stay open for a while: a row  *)
(* is stamped when it is flushed and seen when it commits.  A run of the   *)
(* index reads what was stamped since the last run, one kind of document   *)
(* after the other, and commits its rows with a new watermark; runs of     *)
(* other jobs read and commit in between.  A text is the set of what has   *)
(* changed in it since the document was stored.                            *)
(***************************************************************************)
EXTENDS Integers, Sequences, FiniteSets, FiniteSetsExt

CONSTANTS
    Docs,
    Kind,       \* of each document
    Corrects,   \* the document a correction supersedes, or the document itself
    FiledOn,    \* the day a filing bears
    Runners,    \* jobs that run the index at their tail
    NoRow,
    MaxClock,   \* bound
    OpenFor,    \* bound: how long an ingest transaction stays open
    RunFor,     \* bound: how long a run takes
    Slack,      \* SLACK
    PendingFor, \* PENDING_AI_DAYS
    Reread      \* the window reapply_news_rules re-reads

ASSUME SearchIndexAssumption ==
    /\ IsFiniteSet(Docs) /\ Kind \in [Docs -> {"disclosure", "filing", "news", "note"}]
    /\ Corrects \in [Docs -> Docs] /\ FiledOn \in [Docs -> Nat]
    /\ \A d \in Docs : Corrects[d] # d => Kind[d] = "disclosure" /\ Kind[Corrects[d]] = "disclosure"
    /\ {MaxClock, OpenFor, RunFor, Slack, PendingFor, Reread} \subseteq Nat
    /\ OpenFor + RunFor <= Slack

VARIABLES
    clock,
    doc,        \* what the product stores: [state, stamp, id, text]
    open,       \* flushed and not committed: [doc, stamp, id]
    index,      \* searchable_texts: each document's text, or NoRow
    watermark,  \* app_settings: [since, filing_id, pending]
    run,        \* what each run set out to do
    work,       \* how far it has come, and the rows it wrote and has not committed
    saw,        \* history: what a run that started alone found stored, unchanged since
    due,        \* history: the same of the last run to commit
    crossed,    \* history: the runs under way when another one committed
    excused     \* history: documents the watermark is known to pass over

indexVars == <<clock, doc, open, index, watermark, run, work, saw, due, crossed, excused>>

NoDoc(state) == [state |-> state, stamp |-> 0, id |-> 0, text |-> {}]

Stored(d) == doc[d].state = "stored"

News == {d \in Docs : Kind[d] = "news"}

-----------------------------------------------------------------------------
(* Documents *)

\* A text changed: no run that has started need have seen it.
Changed(S) ==
    /\ due' = due \ S
    /\ saw' = [r \in Runners |-> saw[r] \ S]

\* A flush stamps the row and, for a filing, takes the next id.  A note may be written
\* anew.  (Bound: once.)
Flush(d) ==
    /\ doc[d].state = "absent" \/ (Kind[d] = "note" /\ Stored(d) /\ doc[d].text = {})
    /\ \A o \in open : o.doc # d
    /\ Corrects[d] # d => Stored(Corrects[d])
    /\ FiledOn[d] <= clock
    /\ open' = open \cup {[doc |-> d, stamp |-> clock,
                           id |-> 1 + Max({0} \cup {o.id : o \in open} \cup {doc[e].id : e \in {e \in Docs : Stored(e)}})]}
    /\ UNCHANGED <<clock, doc, index, watermark, run, work, saw, due, crossed, excused>>

\* The commit; a correction supersedes its parent, whose stamp stays.
Land(o) ==
    /\ open' = open \ {o}
    /\ doc' = [d \in Docs |->
          IF d = o.doc THEN [state |-> "stored", stamp |-> o.stamp, id |-> o.id, text |-> IF Stored(d) THEN {"rewritten"} ELSE {}]
          ELSE IF d = Corrects[o.doc] THEN [doc[d] EXCEPT !.text = @ \cup {"superseded"}]
          ELSE doc[d]]
    /\ Changed({o.doc, Corrects[o.doc]})
    /\ excused' = IF Kind[o.doc] = "filing" /\ \E e \in Docs : Kind[e] = "filing" /\ Stored(e) /\ doc[e].id > o.id
                  THEN excused \cup {o.doc} ELSE excused
    /\ UNCHANGED <<clock, index, watermark, run, work, crossed>>

\* enrich: the AI pass tags a headline; its stamp stays.
Enrich(d) ==
    /\ Kind[d] = "news" /\ Stored(d) /\ "ai" \notin doc[d].text
    /\ \A r \in Runners : d \notin run[r].retags
    /\ doc' = [doc EXCEPT ![d].text = @ \cup {"ai"}]
    /\ Changed({d})
    /\ excused' = IF doc[d].stamp < clock - PendingFor THEN excused \cup {d} ELSE excused
    /\ UNCHANGED <<clock, open, index, watermark, run, work, crossed>>

-----------------------------------------------------------------------------
(* Runs *)

Order == <<"disclosure", "filing", "news", "note">>

\* An ordinary run reads from the last run's start, Slack earlier; -1 reads everything.
CutWithoutSlack(mark) == IF mark.since = -1 THEN -1 ELSE mark.since

Cut(mark) == IF mark.since = -1 THEN -1 ELSE mark.since - Slack

NoMark == [since |-> -1, filing_id |-> 0, pending |-> {}]

NoRun == [on |-> FALSE, started |-> 0, cut |-> 0, explicit |-> FALSE, retags |-> {}, drops |-> {}]

\* Nothing read yet; wrote are the rows a full rebuild has dropped.
Idle(mark, wrote) ==
    [at |-> 1, reading |-> TRUE, mark |-> mark, items |-> {}, read |-> [d \in Docs |-> NoRow],
     wrote |-> wrote, rows |-> [d \in Docs |-> NoRow]]

Begin(r, mark, cut, explicit, retags, drops, wrote) ==
    /\ run' = [run EXCEPT ![r] = [on |-> TRUE, started |-> clock, cut |-> cut, explicit |-> explicit,
                                  retags |-> retags, drops |-> drops]]
    /\ work' = [work EXCEPT ![r] = Idle(mark, wrote)]
    /\ saw' = [saw EXCEPT ![r] = IF \E q \in Runners : run[q].on THEN {} ELSE {d \in Docs : doc[d].state # "absent"}]
    /\ UNCHANGED <<clock, doc, open, index, watermark, due, crossed>>

\* Rows another run has written and not committed.
Locked(r, D) == \E q \in Runners \ {r} : D \cap (work[q].wrote \cup run[q].retags) # {}

Incremental(r) ==
    ~ run[r].on /\ Begin(r, watermark, Cut(watermark), FALSE, {}, {}, {}) /\ UNCHANGED excused

\* reindex --full drops the rows first.
Full(r) ==
    LET rows == {d \in Docs : index[d] # NoRow}
    IN ~ run[r].on /\ ~ Locked(r, rows) /\ Begin(r, NoMark, -1, FALSE, {}, {}, rows) /\ UNCHANGED excused

\* Stored, or corrected by what was stored, at x or later.
StampedSince(d, x) == \E e \in Docs : Stored(e) /\ (e = d \/ Corrects[e] = d) /\ doc[e].stamp >= x

\* reapply_news_rules retags the headlines of its window, deletes those that are not about
\* finance, and runs the index over the window, all in its own transaction.
Reapply(r) ==
    LET cut == clock - Reread
        window == {d \in Docs : Kind[d] = "news" /\ Stored(d) /\ doc[d].stamp >= cut}
    IN /\ ~ run[r].on /\ ~ Locked(r, window)
       /\ \E drops \in SUBSET window : Begin(r, watermark, cut, TRUE, window, drops, {})
       /\ excused' = excused \cup {d \in Docs : Stored(d) /\ Kind[d] # "filing" /\ ~ StampedSince(d, cut) /\ StampedSince(d, Cut(watermark))}

\* What a run's own transaction sees.
Text(r, d) == IF d \in run[r].retags THEN doc[d].text \cup {"tags"} ELSE doc[d].text

Seen(r, d) == Stored(d) /\ d \notin run[r].drops

Row(r, d) == IF d \in work[r].wrote THEN work[r].rows[d] ELSE index[d]

Childless(D) == {}

\* A correction leaves its parent's stamp alone, so the parent is read with it.
Parents(D) == {Corrects[d] : d \in D}

\* The documents of a kind that a run reads.
Selected(r, kind) ==
    LET m == work[r].mark
        all == {d \in Docs : Kind[d] = kind /\ Seen(r, d)}
        stamped == {d \in all : doc[d].stamp >= run[r].cut}
    IN CASE kind = "disclosure" -> stamped \cup Parents(stamped)
         [] kind = "filing" -> {d \in all : doc[d].id > m.filing_id \/ (run[r].explicit /\ FiledOn[d] >= run[r].cut)}
         [] kind = "news" -> stamped \cup (all \cap m.pending)
         [] kind = "note" -> stamped

\* Headlines the AI pass has not tagged yet are read again, for PENDING_AI_DAYS.
Pending(r, items) == {d \in items : "ai" \notin Text(r, d) /\ doc[d].stamp >= clock - PendingFor}

ReadKind(r) ==
    LET w == work[r]
        kind == Order[w.at]
        items == Selected(r, kind)
        idle == items = {} /\ kind # "news"    \* nothing to write
    IN /\ run[r].on /\ w.at <= 4 /\ w.reading
       /\ work' = [work EXCEPT ![r] =
             [at |-> IF idle THEN w.at + 1 ELSE w.at, reading |-> idle, items |-> items,
              read |-> [d \in Docs |-> IF d \in items THEN Text(r, d) ELSE NoRow],
              mark |-> [since |-> w.mark.since,
                        filing_id |-> IF kind = "filing" THEN Max({w.mark.filing_id} \cup {doc[d].id : d \in items})
                                      ELSE w.mark.filing_id,
                        pending |-> IF kind = "news" THEN Pending(r, items) ELSE w.mark.pending],
              wrote |-> w.wrote, rows |-> w.rows]]
       /\ UNCHANGED <<clock, doc, open, index, watermark, run, saw, due, crossed, excused>>

\* _upsert writes the rows that differ, once nobody else holds them; the news pass drops
\* the rows whose headline is gone.
WriteKind(r) ==
    LET w == work[r]
        differ == {d \in w.items : Row(r, d) # w.read[d]}
        orphans == {d \in News \ w.items : Order[w.at] = "news" /\ Row(r, d) # NoRow /\ ~ Seen(r, d)}
    IN /\ run[r].on /\ w.at <= 4 /\ ~ w.reading
       /\ ~ Locked(r, differ \cup orphans)
       /\ work' = [work EXCEPT ![r] =
             [at |-> w.at + 1, reading |-> TRUE, mark |-> w.mark, items |-> {}, read |-> [d \in Docs |-> NoRow],
              wrote |-> w.wrote \cup differ \cup orphans,
              rows |-> [d \in Docs |-> IF d \in differ THEN w.read[d] ELSE IF d \in orphans THEN NoRow ELSE w.rows[d]]]]
       /\ UNCHANGED <<clock, doc, open, index, watermark, run, saw, due, crossed, excused>>

\* A run is over: nothing of it is left.
End(r) ==
    /\ run' = [run EXCEPT ![r] = NoRun]
    /\ work' = [work EXCEPT ![r] = Idle(NoMark, {})]

CommitRun(r) ==
    LET w == work[r]
        others == {q \in Runners \ {r} : run[q].on}
    IN /\ run[r].on /\ w.at = 5
       /\ index' = [d \in Docs |-> Row(r, d)]
       /\ watermark' = [since |-> run[r].started, filing_id |-> w.mark.filing_id, pending |-> w.mark.pending]
       /\ doc' = [d \in Docs |->
             IF d \in run[r].drops THEN NoDoc("gone")
             ELSE IF d \in run[r].retags THEN [doc[d] EXCEPT !.text = @ \cup {"tags"}] ELSE doc[d]]
       /\ End(r)
       /\ due' = saw[r]
       /\ saw' = [q \in Runners |-> IF q = r THEN {} ELSE saw[q] \ run[r].retags]
       /\ crossed' = others
       /\ excused' = excused \cup (IF others = {} THEN {} ELSE run[r].retags)
                             \cup (IF r \in crossed THEN watermark.pending \ w.mark.pending ELSE {})
       /\ UNCHANGED <<clock, open>>

\* An indexing failure rolls the savepoint back, the watermark with it.
FailRun(r) ==
    /\ run[r].on
    /\ End(r)
    /\ saw' = [saw EXCEPT ![r] = {}] /\ crossed' = crossed \ {r}
    /\ UNCHANGED <<clock, doc, open, index, watermark, due, excused>>

Tick ==
    /\ clock < MaxClock /\ \A o \in open : clock < o.stamp + OpenFor
    /\ \A r \in Runners : run[r].on => clock < run[r].started + RunFor
    /\ clock' = clock + 1
    /\ UNCHANGED <<doc, open, index, watermark, run, work, saw, due, crossed, excused>>

IndexInit ==
    /\ clock = 0
    /\ doc = [d \in Docs |-> NoDoc("absent")] /\ open = {}
    /\ index = [d \in Docs |-> NoRow] /\ watermark = NoMark
    /\ run = [r \in Runners |-> NoRun] /\ work = [r \in Runners |-> Idle(NoMark, {})]
    /\ saw = [r \in Runners |-> {}] /\ due = {} /\ crossed = {} /\ excused = {}

IndexNext ==
    \/ \E d \in Docs : Flush(d) \/ Enrich(d)
    \/ \E o \in open : Land(o)
    \/ \E r \in Runners :
          \/ Incremental(r) \/ Full(r) \/ Reapply(r)
          \/ ReadKind(r) \/ WriteKind(r) \/ CommitRun(r) \/ FailRun(r)
    \/ Tick

IndexSpec == IndexInit /\ [][IndexNext]_indexVars

-----------------------------------------------------------------------------
(* Properties *)

\* What the last finished run saw when it started is in the index as it is now, although
\* transactions commit behind its back, other runs overlap it and neither a correction,
\* nor the AI pass, nor a deletion stamps the row it changes.  Excused are filings that
\* committed below a visible id, rows an explicit window passed over, headlines tagged
\* after PENDING_AI_DAYS or retagged while another run was under way, and headlines that
\* stopped waiting for the AI pass because a run stored its watermark over the one
\* another run had stored meanwhile.
IndexFollows ==
    \A d \in due \ excused : index[d] = IF Stored(d) THEN doc[d].text ELSE NoRow

=============================================================================
