----------------------------- MODULE LiveEvents -----------------------------
(***************************************************************************)
(* Live events (services/live.py, the stream of api/routes/v1.py, the      *)
(* publishing loop of services/feed.py) as one browser tab sees them       *)
(* (frontend/src/lib/live.ts).                                             *)
(*                                                                         *)
(* A producer's transaction takes the next id when it publishes and shows  *)
(* the row when it commits, which another transaction may do before it.    *)
(* A stream sends a page of rows above its cursor every few seconds; the   *)
(* tab keeps the id of the last row it received and asks for what follows  *)
(* when it connects again.                                                 *)
(***************************************************************************)
EXTENDS Integers, FiniteSets, Sequences, FiniteSetsExt

CONSTANTS
    Sorts,       \* bound: what the producers publish: [kind, ours], ours when it passes the tab's filter
    PageLimit,   \* the limit of live.since
    MaxIds,      \* bound: published events
    MaxPrints,   \* bound: changes of the quotes
    MaxDrops,    \* bound: lost connections
    NoCursor     \* a tab that has heard nothing yet

ASSUME LiveEventsAssumption ==
    /\ PageLimit \in Nat \ {0} /\ {MaxIds, MaxPrints, MaxDrops} \subseteq Nat
    /\ \A sort \in Sorts : sort.kind \notin {"quotes", "ready"} /\ sort.ours \in BOOLEAN
    /\ NoCursor \notin Nat

VARIABLES
    lastId,     \* the sequence behind live_events.id
    flushed,    \* rows of transactions that have not committed
    log,        \* live_events
    feed,       \* FeedState: the fingerprint last published; and what the provider says now
    stream,     \* the server's side of the tab's connection: its cursor, or NoCursor
    wire,       \* what the stream has sent and the tab not received
    after,      \* the tab's cursor
    got,        \* history: ids the tab received
    baseline,   \* history: the id the tab's first connection started from
    late,       \* history: ids that committed below a committed one
    swept,      \* history: rows the daily sweep removed
    drops

liveVars == <<lastId, flushed, log, feed, stream, wire, after, got, baseline, late, swept, drops>>

Ids(S) == {e.id : e \in S}

-----------------------------------------------------------------------------
(* Producers *)

\* publish, in a transaction that goes on.
PublishEvent(sort) ==
    /\ lastId < MaxIds
    /\ lastId' = lastId + 1
    /\ flushed' = flushed \cup {[id |-> lastId', kind |-> sort.kind, ours |-> sort.ours, print |-> 0]}
    /\ UNCHANGED <<log, feed, stream, wire, after, got, baseline, late, swept, drops>>

LandEvent(e) ==
    /\ flushed' = flushed \ {e}
    /\ log' = log \cup {e}
    /\ late' = IF \E id \in Ids(log \cup swept) : id > e.id THEN late \cup {e.id} ELSE late
    /\ UNCHANGED <<lastId, feed, stream, wire, after, got, baseline, swept, drops>>

RollBack(e) ==
    /\ flushed' = flushed \ {e}
    /\ UNCHANGED <<lastId, log, feed, stream, wire, after, got, baseline, late, swept, drops>>

NewPrint ==
    /\ feed.now < MaxPrints
    /\ feed' = [feed EXCEPT !.now = @ + 1]
    /\ UNCHANGED <<lastId, flushed, log, stream, wire, after, got, baseline, late, swept, drops>>

\* run_once: a snapshot that differs from the last published one is published and
\* committed at once.  Print 0 is the empty snapshot, which is never published.
FeedOnce ==
    /\ feed.now # feed.last /\ lastId < MaxIds
    /\ lastId' = lastId + 1
    /\ log' = log \cup {[id |-> lastId', kind |-> "quotes", ours |-> TRUE, print |-> feed.now]}
    /\ feed' = [feed EXCEPT !.last = feed.now]
    /\ UNCHANGED <<flushed, stream, wire, after, got, baseline, late, swept, drops>>

\* prune: rows older than KEEP.  (Bound: one sweep.)
SweepEvents(n) ==
    /\ swept = {} /\ \E e \in log : e.id <= n
    /\ swept' = swept \cup {e \in log : e.id <= n}
    /\ log' = {e \in log : e.id > n}
    /\ UNCHANGED <<lastId, flushed, feed, stream, wire, after, got, baseline, late, drops>>

-----------------------------------------------------------------------------
(* The stream and the tab *)

\* The rows above the cursor that pass the filter, and the oldest of them, a page.
Rows(cursor) == {e \in log : e.id > cursor /\ e.ours}
Page(cursor) == {e \in Rows(cursor) : Cardinality({d \in Rows(cursor) : d.id <= e.id}) <= PageLimit}

SinceWithoutQuotes(cursor) == {e \in Page(cursor) : e.kind # "quotes"}

\* live.since: of a page's quotes only the newest.
Since(cursor) ==
    {e \in Page(cursor) : e.kind = "quotes" => \A d \in Page(cursor) : d.kind = "quotes" => d.id <= e.id}

\* Rows in the order of their ids, in which the stream sends them.
SortedById(S) ==
    {q \in [1 .. Cardinality(S) -> S] : /\ S = {q[i] : i \in DOMAIN q}
                                        /\ \A i, j \in DOMAIN q : i < j => q[i].id < q[j].id}

\* Where a stream starts: from the tab's cursor, or from the newest row.
OpeningFrom(cursor) == IF cursor # NoCursor THEN cursor ELSE Max({0} \cup Ids(log))

Connect ==
    /\ stream = NoCursor
    /\ stream' = OpeningFrom(after)
    /\ wire' = <<[id |-> OpeningFrom(after), kind |-> "ready", ours |-> TRUE, print |-> 0]>>
    /\ UNCHANGED <<lastId, flushed, log, feed, after, got, baseline, late, swept, drops>>

Poll ==
    /\ stream # NoCursor /\ Since(stream) # {}
    /\ \E rows \in SortedById(Since(stream)) : wire' = wire \o rows
    /\ stream' = Max({stream} \cup Ids(Since(stream)))
    /\ UNCHANGED <<lastId, flushed, log, feed, after, got, baseline, late, swept, drops>>

Receive ==
    /\ wire # <<>>
    /\ wire' = Tail(wire)
    /\ after' = Head(wire).id
    /\ got' = IF Head(wire).kind = "ready" THEN got ELSE got \cup {Head(wire).id}
    /\ baseline' = IF baseline = NoCursor THEN Head(wire).id ELSE baseline
    /\ UNCHANGED <<lastId, flushed, log, feed, stream, late, swept, drops>>

Drop ==
    /\ stream # NoCursor /\ drops < MaxDrops
    /\ stream' = NoCursor /\ wire' = <<>>
    /\ drops' = drops + 1
    /\ UNCHANGED <<lastId, flushed, log, feed, after, got, baseline, late, swept>>

LiveInit ==
    /\ lastId = 0 /\ flushed = {} /\ log = {}
    /\ feed = [last |-> 0, now |-> 0]
    /\ stream = NoCursor /\ wire = <<>> /\ after = NoCursor
    /\ got = {} /\ baseline = NoCursor
    /\ late = {} /\ swept = {} /\ drops = 0

LiveNext ==
    \/ \E sort \in Sorts : PublishEvent(sort)
    \/ \E e \in flushed : LandEvent(e) \/ RollBack(e)
    \/ NewPrint \/ FeedOnce
    \/ \E n \in 1 .. MaxIds : SweepEvents(n)
    \/ Connect \/ Poll \/ Receive \/ Drop

LiveSpec == LiveInit /\ [][LiveNext]_liveVars

-----------------------------------------------------------------------------
(* Properties *)

\* An event of the tab's that is above the id it started from and not above its cursor,
\* and that the tab has not received.
Missed ==
    {e \in log : e.ours /\ baseline # NoCursor /\ e.id > baseline /\ e.id <= after /\ e.id \notin got}

\* Connections may drop and pages be cut anywhere: what the tab's cursor has passed it
\* has received, or it is a snapshot of quotes with a newer one received or still to
\* come, or it committed below an id that was already visible.
NothingPassedOver ==
    \A e \in Missed :
        \/ e.id \in late
        \/ e.kind = "quotes" /\ \E q \in log \cup swept : /\ q.kind = "quotes" /\ q.id > e.id
                                                        /\ (q.id \in got \/ q.id > after \/ q \in swept)

=============================================================================
