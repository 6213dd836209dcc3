------------------------------ MODULE RateLimits ------------------------------
(***************************************************************************)
(* The counters behind the request limits and the lockout                  *)
(* (api/hardening.py): rows of rate_hits that every process counts, read   *)
(* and written in two steps, with the process's own memory before the      *)
(* table exists and a refusal when the database does not answer.           *)
(*                                                                         *)
(* Rows of one key and moment are counted together.  A limited request    *)
(* hits the key of its address and, if that lets it, the one of everybody. *)
(***************************************************************************)
EXTENDS Integers, FiniteSets

CONSTANTS
    Askers,         \* concurrent requests, each in a process of its own
    LimitOf,        \* the limit of each key, "ip" and "global"
    WindowOf,       \* the window of each key
    LongestWindow,  \* _MAX_WINDOW_S
    Tries,          \* _RETRIES
    LastMoment,    \* bound: time
    Stall,          \* seconds a hit may take
    MaxOutages      \* bound: answers the database fails to give

LimitKeys == {"ip", "global"}
Moments == 0 .. LastMoment

ASSUME RateLimitsAssumption ==
    /\ IsFiniteSet(Askers) /\ {LastMoment, MaxOutages, Stall, LongestWindow} \subseteq Nat /\ Tries \in Nat \ {0}
    /\ \A k \in LimitKeys : LimitOf[k] \in Nat \ {0} /\ WindowOf[k] \in 0 .. LongestWindow

VARIABLES
    moment,
    table,    \* whether rate_hits exists
    hitRows,  \* rate_hits: how many rows each key has of each moment
    memory,   \* _MEMORY of each process, likewise
    ask,      \* the request of each asker: the key it hits, since when, what it counted, its tries
    outages,  \* failures of the database so far
    granted,  \* history: hits that rate_hits let through, not reset since, by key and moment
    alone     \* history: hits that each process let through before the table existed

rateVars == <<moment, table, hitRows, memory, ask, outages, granted, alone>>

NoHits == [k \in LimitKeys |-> [t \in Moments |-> 0]]
AtRest == [key |-> "none", at |-> 0, counted |-> -1, tries |-> 0]

RateInit ==
    /\ moment = 0 /\ table \in BOOLEAN /\ outages = 0
    /\ hitRows = NoHits /\ granted = NoHits
    /\ memory = [a \in Askers |-> NoHits] /\ alone = memory
    /\ ask = [a \in Askers |-> AtRest]

\* The hits of a key in some moments: which moment, and which of those of that moment.
HitsIn(counts, key, S) == UNION {{t} \X (1 .. counts[key][t]) : t \in S}

\* How many there are since a moment, the cutoff included.
Since(counts, key, cutoff) == Cardinality(HitsIn(counts, key, {t \in Moments : t >= cutoff}))

Plus(counts, key, at) == [counts EXCEPT ![key][at] = @ + 1]

-----------------------------------------------------------------------------
(* Hits *)

Limit(a) == LimitOf[ask[a].key]
Cutoff(a) == ask[a].at - WindowOf[ask[a].key]

Reach(a, key) == ask' = [ask EXCEPT ![a] = [key |-> key, at |-> moment, counted |-> -1, tries |-> 0]]

\* AuthRateLimitMiddleware: a request arrives at its first limit.
Arrive(a) ==
    /\ ask[a].key = "none"
    /\ Reach(a, "ip")
    /\ UNCHANGED <<moment, table, hitRows, memory, outages, granted, alone>>

\* What becomes of a request a limit lets through, or refuses.
LetThrough(a, at) ==
    /\ IF table THEN granted' = Plus(granted, ask[a].key, at) /\ UNCHANGED alone
       ELSE alone' = [alone EXCEPT ![a] = Plus(@, ask[a].key, at)] /\ UNCHANGED granted
    /\ IF ask[a].key = "ip" THEN Reach(a, "global") ELSE ask' = [ask EXCEPT ![a] = AtRest]

Refuse(a) == ask' = [ask EXCEPT ![a] = AtRest] /\ UNCHANGED <<granted, alone>>

TryAgain(a) ==
    /\ ask' = [ask EXCEPT ![a] = [key |-> ask[a].key, at |-> ask[a].at, counted |-> -1, tries |-> ask[a].tries + 1]]
    /\ UNCHANGED <<granted, alone>>

\* Mutant: what the database did not count is let through.
OutageOpens(a) ==
    IF ask[a].tries + 1 < Tries THEN TryAgain(a) ELSE LetThrough(a, ask[a].at)

\* _run: a failed try is made again, with the moment it was asked at; the last one refuses.
FailedTry(a) ==
    IF ask[a].tries + 1 < Tries THEN TryAgain(a) ELSE Refuse(a)

\* hit, up to its count: the rows no window can see go when it commits.
CountHits(a) ==
    /\ ask[a].key # "none" /\ ask[a].counted = -1 /\ table
    /\ ask' = [ask EXCEPT ![a].counted = Since(hitRows, ask[a].key, Cutoff(a))]
    /\ UNCHANGED <<moment, table, hitRows, memory, outages, granted, alone>>

\* The deletions of hit and of _sweep, which looks at all keys, at most once in a while.
Swept(counts, a, sweeps) ==
    [k \in LimitKeys |-> [t \in Moments |->
        IF (k = ask[a].key /\ t < Cutoff(a)) \/ (sweeps /\ t < ask[a].at - LongestWindow) THEN 0 ELSE counts[k][t]]]

InsertHit(a, sweeps) ==
    /\ ask[a].counted >= 0
    /\ IF ask[a].counted >= Limit(a)
       THEN hitRows' = Swept(hitRows, a, sweeps) /\ Refuse(a)
       ELSE hitRows' = Plus(Swept(hitRows, a, sweeps), ask[a].key, ask[a].at) /\ LetThrough(a, ask[a].at)
    /\ UNCHANGED <<moment, table, memory, outages>>

\* The database fails before the count, or at the commit, which may have been made.
Outage(a, committed) ==
    /\ table /\ ask[a].key # "none" /\ outages < MaxOutages
    /\ committed => ask[a].counted \in 0 .. Limit(a) - 1
    /\ hitRows' = IF committed THEN Plus(hitRows, ask[a].key, ask[a].at) ELSE hitRows
    /\ outages' = outages + 1
    /\ FailedTry(a)
    /\ UNCHANGED <<moment, table, memory>>

\* _mem_hit: the process counts for itself while there is no table, by its clock of then.
MemoryHit(a) ==
    /\ ask[a].key # "none" /\ ~ table
    /\ LET key == ask[a].key
           kept == [memory[a] EXCEPT ![key] = [t \in Moments |-> IF moment - t > WindowOf[key] THEN 0 ELSE @[t]]]
       IN  IF Since(kept, key, 0) >= LimitOf[key]
           THEN memory' = [memory EXCEPT ![a] = kept] /\ Refuse(a)
           ELSE memory' = [memory EXCEPT ![a] = Plus(kept, key, moment)] /\ LetThrough(a, moment)
    /\ UNCHANGED <<moment, table, hitRows, outages>>

\* The first migration; nobody is asking.  What memory counted is not looked at again.
Migrate ==
    /\ ~ table /\ \A a \in Askers : ask[a] = AtRest
    /\ table' = TRUE /\ memory' = [a \in Askers |-> NoHits] /\ alone' = memory'
    /\ UNCHANGED <<moment, hitRows, ask, outages, granted>>

Cleared(counts, key) == [counts EXCEPT ![key] = NoHits[key]]

\* reset_key, after which nothing before it counts; best effort.
ResetKey(key) ==
    /\ table /\ hitRows[key] # NoHits[key]
    /\ hitRows' = Cleared(hitRows, key) /\ granted' = Cleared(granted, key)
    /\ UNCHANGED <<moment, table, memory, ask, outages, alone>>

\* Before the table exists it clears what its own process remembers.
ForgetKey(a, key) ==
    /\ ~ table /\ memory[a][key] # NoHits[key]
    /\ memory' = [memory EXCEPT ![a] = Cleared(@, key)] /\ alone' = [alone EXCEPT ![a] = Cleared(@, key)]
    /\ UNCHANGED <<moment, table, hitRows, ask, outages, granted>>

PassMoment ==
    /\ moment < LastMoment
    /\ \A a \in Askers : ask[a].key # "none" => moment < ask[a].at + Stall
    /\ moment' = moment + 1
    /\ UNCHANGED <<table, hitRows, memory, ask, outages, granted, alone>>

RateNext ==
    \/ \E a \in Askers :
        \/ Arrive(a) \/ CountHits(a) \/ MemoryHit(a)
        \/ \E sweeps \in BOOLEAN : InsertHit(a, sweeps)
        \/ \E committed \in BOOLEAN : Outage(a, committed)
    \/ \E key \in LimitKeys : ResetKey(key) \/ \E a \in Askers : ForgetKey(a, key)
    \/ Migrate \/ PassMoment

RateSpec == RateInit /\ [][RateNext]_rateVars

\* failures, which the lockout reads: nothing is below what it answers without a database.
Failures(key, up) == IF up THEN Since(hitRows, key, moment - WindowOf[key]) ELSE LimitOf[key] + Cardinality(Askers)

-----------------------------------------------------------------------------
(* Properties *)

\* In no window, less the time a hit may take, does a key let through more than its limit
\* and one hit for every other request counted at the same time, whoever sweeps, retries or fails in between (before the
\* first migration: its limit in every process); and a lockout that holds is never read as
\* a lower count, whatever the database does (hardening.hit, _run, _sweep, failures).
LimitsHold ==
    \A k \in LimitKeys, t \in Moments :
        LET upTo(last) == {u \in Moments : t <= u /\ u <= last}
        IN  /\ Cardinality(HitsIn(granted, k, upTo(t + WindowOf[k] - Stall))) <= LimitOf[k] + Cardinality(Askers) - 1
            /\ \A a \in Askers : Cardinality(HitsIn(alone[a], k, upTo(t + WindowOf[k]))) <= LimitOf[k]
            /\ table => \A up \in BOOLEAN : Failures(k, up) >= Since(granted, k, moment - WindowOf[k])

=============================================================================
