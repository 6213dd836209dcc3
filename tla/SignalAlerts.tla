------------------------------ MODULE SignalAlerts ------------------------------
(***************************************************************************)
(* From a detected signal to a message (services/pipeline.py, alerts.py,   *)
(* notify.py, outcomes.py).  One instrument and one signal type: the       *)
(* `signals` rows that hold its episodes, the alert rules on it, their     *)
(* notifications and the messages sent for them.  A compute job is one     *)
(* transaction; what it has sent stays sent when it rolls back.            *)
(***************************************************************************)
EXTENDS Integers, FiniteSets, FiniteSetsExt

CONSTANTS Rules,        \* explicit and watchlist rules on the instrument
          Early,        \* rules that exist from the first day
          Chats,        \* rules whose owner has a Telegram chat or e-mail set
          Gap,          \* days within which a signal counts as still open (7)
          Windows,      \* lengths of the window a detector answers, in days
          Back,         \* how far in the past a compute may be asked for
          MaxDay,       \* bound: days
          MaxId,        \* bound: signals rows ever numbered
          MaxRollbacks  \* bound: computes that roll back

ASSUME SignalAlertsAssumption ==
    /\ Early \subseteq Rules /\ Chats \subseteq Rules
    /\ Windows \subseteq Nat
    /\ Gap \in Nat /\ Back \in Nat /\ MaxDay \in Nat /\ MaxId \in Nat /\ MaxRollbacks \in Nat

VARIABLES
    today,     \* date.today()
    rows,      \* the signals rows of this instrument and type
    nextId,    \* the sequence behind signals.id: a rollback does not return a number
    outcomes,  \* signal_id of the signal_outcomes rows
    rules,     \* the rules created so far, all active
    notes,     \* the notifications; rule and row make the dedup key
    done,      \* those with delivered_at set
    heard,     \* history: heard[n], computes that got a message for n accepted
    run,       \* history: last day of the detection run that is going on
    told,      \* history: told[r], notifications of r within that run
    rollbacks  \* history: computes rolled back so far

vars == <<today, rows, nextId, outcomes, rules, notes, done, heard, run, told, rollbacks>>

Days == 0..MaxDay
Ids == 1..MaxId
Note == [rule : Rules, row : Ids]
NoRun == -1
NoSignal == -1

\* `window_start` to `window_end` of an episode.
Signal == {r \in [id : Ids, start : Days, end : Days] : r.start <= r.end}

TypeOK ==
    /\ today \in Days
    /\ rows \subseteq Signal
    /\ nextId \in 1..(MaxId + 1)
    /\ outcomes \subseteq Ids
    /\ rules \subseteq Rules
    /\ notes \subseteq Note
    /\ done \subseteq notes
    /\ heard \in [Note -> Nat]
    /\ run \in Days \union {NoRun}
    /\ told \in [Rules -> Nat]
    /\ rollbacks \in 0..MaxRollbacks

Init ==
    /\ today = 0
    /\ rows = {}
    /\ nextId = 1
    /\ outcomes = {}
    /\ rules = Early
    /\ notes = {}
    /\ done = {}
    /\ heard = [n \in Note |-> 0]
    /\ run = NoRun
    /\ told = [r \in Rules |-> 0]
    /\ rollbacks = 0

IdsOf(rs) == {r.id : r \in rs}

-------------------------------------------------------------------------------
\* collapse_signal_episodes: in the order of (window_start, window_end) a row
\* that overlaps or touches the row being kept is merged into it and deleted.

Before(p, r) ==
    \/ p.start < r.start
    \/ p.start = r.start /\ p.end < r.end
    \/ p.start = r.start /\ p.end = r.end /\ p.id < r.id

Kept(rs) == {r \in rs : \A p \in rs : Before(p, r) => r.start > p.end + 1}

\* Mutants: a merge that leaves the outcome rows of what it deletes, and one
\* that does not carry over the end of the window.
OutcomesLeft(collapsed) == outcomes
CollapseShort(rs) == Kept(rs)

\* What the kept row h has swallowed, h itself included, lies before the next kept row.
Collapse(rs) ==
    LET kept == Kept(rs)
        Swallowed(h) == {p \in rs : Before(h, p) /\ \A g \in kept : Before(h, g) => Before(p, g)}
    IN  {[h EXCEPT !.end = Max({p.end : p \in {h} \union Swallowed(h)})] : h \in kept}

\* The outcomes of the rows merged away are deleted with them.
CollapseOutcomes(collapsed) == outcomes \ (IdsOf(rows) \ IdsOf(collapsed))

-------------------------------------------------------------------------------
\* compute_intelligence(as_of) on collapsed rows.

\* Mutant: the row of this day does not count as open.
OpenRowsBefore(rs, asOf) == {r \in rs : r.end \in (asOf - Gap)..(asOf - 1)}

\* _write_signal_episode: the row of this day, else the newest one still open.
OpenRows(rs, asOf) == {r \in rs : r.end \in (asOf - Gap)..asOf}
OpenRow(rs, asOf) == CHOOSE r \in OpenRows(rs, asOf) : \A p \in OpenRows(rs, asOf) : p.end <= r.end

\* Mutants: a new row that ends the day before, and an extension that moves the
\* first day.
DetectedEarlier(rs, asOf, start) ==
    IF OpenRows(rs, asOf) = {}
    THEN rs \union {[id |-> nextId, start |-> start, end |-> asOf - 1]}
    ELSE rs
DetectedRestarted(rs, asOf, start) ==
    IF OpenRows(rs, asOf) = {}
    THEN rs \union {[id |-> nextId, start |-> start, end |-> asOf]}
    ELSE LET open == OpenRow(rs, asOf)
         IN  (rs \ {open}) \union {[open EXCEPT !.start = start, !.end = asOf]}

Detected(rs, asOf, start) ==
    IF OpenRows(rs, asOf) = {}
    THEN rs \union {[id |-> nextId, start |-> start, end |-> asOf]}
    ELSE LET open == OpenRow(rs, asOf)
         IN  (rs \ {open}) \union {[open EXCEPT !.end = asOf]}

\* Not detected (again): the row that ends on this day is deleted.
NotDetected(rs, asOf) == {r \in rs : r.end # asOf}

\* The rows a compute leaves of the collapsed ones.  The detectors answer the window_start of the
\* signal, which may lie anywhere up to as_of, or nothing.
Computed(collapsed, asOf, hit) ==
    IF hit = NoSignal THEN NotDetected(collapsed, asOf)
                      ELSE Detected(collapsed, asOf, hit)

\* Their outcome rows: a row deleted takes its outcome with it.
ComputedOutcomes(collapsed, rs) == CollapseOutcomes(collapsed) \ (IdsOf(collapsed) \ IdsOf(rs))

\* compute_outcomes writes a row for every signal once closes of the instrument
\* are stored, and none before.
Priced(rs) == {{}, IdsOf(rs)}

NextIdAfter(rs) == IF nextId \in IdsOf(rs) THEN nextId + 1 ELSE nextId

-------------------------------------------------------------------------------
\* alerts.evaluate: every active rule fires for the rows that end on as_of.

\* Mutant: the rules read the rows as they were before this compute.
FiredBefore(rs, asOf) ==
    [rule : rules, row : IdsOf({r \in rows : r.end = asOf})]

Fired(rs, asOf) ==
    [rule : rules, row : IdsOf({r \in rs : r.end = asOf})]

\* A key that exists notifies no one again: the set of notifications absorbs it.
Announce(rs, asOf) == notes \union Fired(rs, asOf)

\* deliver_pending: a notification is delivered once one channel accepts it, or
\* when its owner has no chat or address to try again.
Pending(ns) == ns \ done

\* Mutant: delivered whatever the channels answered.
SettledAll(sentFor, ns) == Pending(ns)
\* Mutant: never marked when a push was enough.
SettledChats(sentFor, ns) == {n \in Pending(ns) : n \in sentFor /\ n.rule \in Chats}

Settled(sentFor, ns) == {n \in Pending(ns) : n \in sentFor \/ n.rule \notin Chats}

Heard(sentFor) == [n \in Note |-> IF n \in sentFor THEN heard[n] + 1 ELSE heard[n]]

-------------------------------------------------------------------------------
\* History of the detections: an unbroken run and what each rule said in it.  A day
\* that a stored episode ends after is past: what is found for it again, though the
\* episode may cover it, is neither part of the run nor the first of one.

Past(rs, asOf) == \E r \in rs : r.end > asOf

Continues(asOf) == run # NoRun /\ asOf \in run..(run + Gap)

RunAfter(rs, asOf, hit) ==
    IF hit = NoSignal THEN (IF asOf = run THEN NoRun ELSE run)
                      ELSE (IF Past(rs, asOf) THEN run ELSE asOf)

ToldBy(r, new) == Cardinality({n \in new : n.rule = r})

ToldAfter(rs, asOf, hit, new) ==
    IF hit = NoSignal \/ Past(rs, asOf) THEN told
    ELSE [r \in Rules |-> (IF Continues(asOf) THEN told[r] ELSE 0) + ToldBy(r, new)]

-------------------------------------------------------------------------------
\* scheduler.compute, the admin pipeline and `compute --as-of`: signals, alerts,
\* delivery and outcomes, in this order and in one transaction.  It begins with
\* collapse_signal_episodes, which makes `collapsed` of the rows.

Compute(collapsed, asOf, hit) ==
    LET rs == Computed(collapsed, asOf, hit)
        ns == Announce(rs, asOf)
        os == ComputedOutcomes(collapsed, rs)
    IN  /\ nextId \in IdsOf(rs) => nextId <= MaxId
        /\ rows' = rs
        /\ nextId' = NextIdAfter(rs)
        /\ notes' = ns
        /\ \E accepted \in SUBSET Pending(ns) :
              /\ done' = done \union Settled(accepted, ns)
              /\ heard' = Heard(accepted)
        /\ \E priced \in Priced(rs) : outcomes' = os \union priced
        /\ run' = RunAfter(rs, asOf, hit)
        /\ told' = ToldAfter(rs, asOf, hit, ns \ notes)
        /\ UNCHANGED <<today, rules, rollbacks>>

\* The same, failing after the delivery: the messages are out, nothing is kept.
RolledBack(collapsed, asOf, hit) ==
    LET rs == Computed(collapsed, asOf, hit)
        ns == Announce(rs, asOf)
    IN  /\ rollbacks < MaxRollbacks
        /\ nextId \in IdsOf(rs) => nextId <= MaxId
        /\ nextId' = NextIdAfter(rs)
        /\ \E accepted \in SUBSET Pending(ns) : heard' = Heard(accepted)
        /\ rollbacks' = rollbacks + 1
        /\ UNCHANGED <<today, rows, outcomes, rules, notes, done, run, told>>

\* POST /alerts/evaluate: as of the last day with a score, of any instrument.
EvaluateNow(asOf) ==
    /\ notes' = Announce(rows, asOf)
    /\ told' = IF asOf = run THEN [r \in Rules |-> told[r] + ToldBy(r, notes' \ notes)] ELSE told
    /\ UNCHANGED <<today, rows, nextId, outcomes, rules, done, heard, run, rollbacks>>

CreateRule(r) ==
    /\ r \notin rules
    /\ rules' = rules \union {r}
    /\ UNCHANGED <<today, rows, nextId, outcomes, notes, done, heard, run, told, rollbacks>>

\* POST /admin/outcomes/compute.
OutcomesNow ==
    /\ \E priced \in Priced(rows) : outcomes' = outcomes \union priced
    /\ UNCHANGED <<today, rows, nextId, rules, notes, done, heard, run, told, rollbacks>>

NextDay ==
    /\ today < MaxDay
    /\ today' = today + 1
    /\ UNCHANGED <<rows, nextId, outcomes, rules, notes, done, heard, run, told, rollbacks>>

AsOf == {d \in Days : d <= today /\ d + Back >= today}

\* The window_start a detector may answer on day d.
Starts(d) == {s \in Days : \E w \in Windows : s + w = d}

Next ==
    \/ LET collapsed == Collapse(rows)
       IN  \E d \in AsOf : \E hit \in {NoSignal} \union Starts(d) :
              \/ Compute(collapsed, d, hit)
              \/ RolledBack(collapsed, d, hit)
    \/ \E d \in 0..today : EvaluateNow(d)
    \/ \E r \in Rules : CreateRule(r)
    \/ OutcomesNow
    \/ NextDay

Spec == Init /\ [][Next]_vars

-------------------------------------------------------------------------------
\* Two episodes never end on the same day: the unique key of the signals table
\* asks for it but does not hold it, for its fund_id is NULL.
EndsDistinct == \A p, r \in rows : p # r => p.id # r.id /\ p.end # r.end

\* Every outcome belongs to a signal that exists, through merges and deletions.
OutcomeOwned == outcomes \subseteq IdsOf(rows)

\* An unbroken run of detections makes at most one notification per rule, for
\* the rules that were there when the instrument's first episode began.
EarlyNotifiedOnce == \A r \in Early : told[r] <= 1

\* A rule hears of an unbroken run of detections once, and no two rows of the run
\* lie side by side to be told of apart.
NotifiedAtMostOnce == EndsDistinct /\ EarlyNotifiedOnce

\* No episode goes by a rule that was active all along.
Announced ==
    \A r \in Early, s \in rows : [rule |-> r, row |-> s.id] \in notes

\* A message about one notification goes out once, and once more at most for
\* every compute that was rolled back after it had sent.
SentOnce == \A n \in Note : heard[n] <= 1 + rollbacks

\* A notification whose owner has a chat or an address is not given up before
\* some channel has taken it.
KeptTrying == \A n \in done : n.rule \in Chats => heard[n] >= 1

\* What a user is owed of a notification: heard once, over what failed and was rolled
\* back, and not given up unheard.
HeardAsOwed == SentOnce /\ KeptTrying

\* The first day of an episode never moves and its last day never goes back,
\* whatever is merged into it ("`window_start` is the episode's first day and
\* never moves", pipeline.py:501).
FirstDayKept ==
    [][\A p \in rows, q \in rows' : p.id = q.id => q.start = p.start /\ q.end >= p.end]_vars
=============================================================================
