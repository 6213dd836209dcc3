------------------------------ MODULE RunLocks ------------------------------
(***************************************************************************)
(* Two jobs that one worker at a time may do: the administrator's pipeline *)
(* run (api/hardening.py, routes/admin.py), whose lock is a unique key on  *)
(* its row of pipeline_runs, and the warehouse build                       *)
(* (services/warehouse.py), whose lock is a row of app_settings that names *)
(* the builder.                                                            *)
(*                                                                         *)
(* Either lock is taken over from a holder that has not reported for a     *)
(* while; the holder may be dead, or only slow and report later.           *)
(***************************************************************************)
EXTENDS Integers, FiniteSets, FiniteSetsExt

CONSTANTS
    Workers,     \* processes
    NameOf,      \* the user a worker acts for
    Nothing,
    StaleAfter,  \* PIPELINE_STALE_AFTER, STALE_AFTER
    MaxHour,     \* bound
    MaxRuns,     \* bound: pipeline runs
    KeepBuilds   \* KEEP_BUILDS

ASSUME RunLocksAssumption ==
    /\ Nothing \notin [by : {NameOf[w] : w \in Workers}, since : Nat] \cup Nat
    /\ {StaleAfter, MaxHour, MaxRuns} \subseteq Nat /\ KeepBuilds \in Nat \ {0}

VARIABLES
    hour,
    runs,       \* pipeline_runs: [id, by, locked, status, since]
    lock,       \* the warehouse's lock row, [by, since], or Nothing
    dated,      \* the days of the dated files
    latest,     \* latest.duckdb: the day of the file it is a copy of, or Nothing
    worker,     \* what each worker is doing
    behind,     \* history: latest was copied by an overdue build, or not copied by one that failed
    raced       \* history: a takeover removed a lock row that was not the overdue one it had read

lockVars == <<hour, runs, lock, dated, latest, worker, behind, raced>>

Resting == [pc |-> "rest", saw |-> Nothing, asked |-> 0, since |-> 0, id |-> 0]

Overdue(since) == since + StaleAfter < hour

-----------------------------------------------------------------------------
(* The pipeline run *)

\* acquire_pipeline_lock, up to its first query.
AskRun(w) ==
    /\ worker[w].pc = "rest"
    /\ LET stale == {r \in runs : r.locked /\ Overdue(r.since)}
       IN worker' = [worker EXCEPT ![w] = [pc |-> "asked", saw |-> {r.id : r \in stale}, asked |-> hour, since |-> 0, id |-> 0]]
    /\ UNCHANGED <<hour, runs, lock, dated, latest, behind, raced>>

\* The row that was overdue gives the key up.
Abandon(w) ==
    /\ worker[w].pc = "asked"
    /\ runs' = {IF r.id \in worker[w].saw THEN [r EXCEPT !.locked = FALSE, !.status = "ABANDONED"] ELSE r : r \in runs}
    /\ worker' = [worker EXCEPT ![w].pc = "insert", ![w].saw = Nothing]
    /\ UNCHANGED <<hour, lock, dated, latest, behind, raced>>

\* The insert breaks the unique key while another row holds it.
InsertRun(w) ==
    /\ worker[w].pc = "insert"
    /\ IF \E r \in runs : r.locked
       THEN worker' = [worker EXCEPT ![w] = Resting] /\ UNCHANGED runs
       ELSE /\ Cardinality(runs) < MaxRuns
            /\ LET id == Cardinality(runs) + 1
               IN /\ runs' = runs \cup {[id |-> id, by |-> w, locked |-> TRUE, status |-> "RUNNING", since |-> worker[w].asked]}
                  /\ worker' = [worker EXCEPT ![w].pc = "run", ![w].id = id]
    /\ UNCHANGED <<hour, lock, dated, latest, behind, raced>>

\* A run that clears whichever row is locked.
FreedAny(r, id) == r.locked

\* finish_pipeline_run clears the key of its own row only.
Freed(r, id) == r.id = id

\* An exception after the result was stored reports the run again, as an error.
FinishRun(w, status, again) ==
    /\ worker[w].pc = "run" /\ (again => status = "OK")
    /\ runs' = {IF Freed(r, worker[w].id) THEN [r EXCEPT !.locked = FALSE, !.status = IF again THEN "ERROR" ELSE status]
                ELSE r : r \in runs}
    /\ worker' = [worker EXCEPT ![w] = Resting]
    /\ UNCHANGED <<hour, lock, dated, latest, behind, raced>>

-----------------------------------------------------------------------------
(* The warehouse build *)

AskBuild(w) ==
    /\ worker[w].pc = "rest"
    /\ LET stale == lock # Nothing /\ Overdue(lock.since)
       IN worker' = [worker EXCEPT ![w] = [pc |-> IF stale THEN "drop" ELSE "add", saw |-> IF stale THEN lock ELSE Nothing,
                                           asked |-> hour, since |-> 0, id |-> 0]]
    /\ UNCHANGED <<hour, runs, lock, dated, latest, behind, raced>>

\* The delete names the key, not the holder.
DropLock(w) ==
    /\ worker[w].pc = "drop"
    /\ lock' = Nothing
    /\ raced' = (raced \/ lock \notin {Nothing, worker[w].saw})
    /\ worker' = [worker EXCEPT ![w].pc = "add", ![w].saw = Nothing]
    /\ UNCHANGED <<hour, runs, dated, latest, behind>>

AddLock(w) ==
    /\ worker[w].pc = "add"
    /\ IF lock # Nothing
       THEN worker' = [worker EXCEPT ![w] = Resting] /\ UNCHANGED lock
       ELSE /\ lock' = [by |-> NameOf[w], since |-> worker[w].asked]
            /\ worker' = [worker EXCEPT ![w].pc = "held"]
    /\ UNCHANGED <<hour, runs, dated, latest, behind, raced>>

\* run_build reads the lock to learn the start it was taken with; the file's day is today's.
BeginBuild(w) ==
    /\ worker[w].pc = "held"
    /\ worker' = [worker EXCEPT ![w].pc = "build", ![w].id = hour,
                                ![w].since = IF lock # Nothing /\ lock.by = NameOf[w] THEN lock.since ELSE hour]
    /\ UNCHANGED <<hour, runs, lock, dated, latest, behind, raced>>

\* The file takes the name of its day when it has been verified.
Place(w) ==
    /\ worker[w].pc = "build"
    /\ dated' = dated \cup {worker[w].id}
    /\ worker' = [worker EXCEPT ![w].pc = "placed"]
    /\ UNCHANGED <<hour, runs, lock, latest, behind, raced>>

\* latest.duckdb is copied from the dated file.
Refresh(w) ==
    /\ worker[w].pc = "placed"
    /\ worker[w].id \in dated
    /\ latest' = worker[w].id
    /\ behind' = Overdue(worker[w].asked)
    /\ worker' = [worker EXCEPT ![w].pc = "prune"]
    /\ UNCHANGED <<hour, runs, lock, dated, raced>>

Newest(S, n) == {f \in S : Cardinality({g \in S : g > f}) < n}

PruneBuilds(w) ==
    /\ worker[w].pc = "prune"
    /\ dated' = Newest(dated, KeepBuilds)
    /\ worker' = [worker EXCEPT ![w].pc = "built"]
    /\ UNCHANGED <<hour, runs, lock, latest, behind, raced>>

MineByName(w) == lock.by = NameOf[w]

\* release_lock: the row is this build's when it names its user and its start.
Mine(w) == lock.by = NameOf[w] /\ lock.since = worker[w].since

\* After the build, or when it failed anywhere.
Release(w) ==
    /\ worker[w].pc \in {"build", "placed", "prune", "built"}
    /\ lock' = IF lock # Nothing /\ Mine(w) THEN Nothing ELSE lock
    /\ behind' = (behind \/ worker[w].pc = "placed")
    /\ worker' = [worker EXCEPT ![w] = Resting]
    /\ UNCHANGED <<hour, runs, dated, latest, raced>>

-----------------------------------------------------------------------------

Crash(w) ==
    /\ worker[w] # Resting
    /\ behind' = (behind \/ worker[w].pc = "placed")
    /\ worker' = [worker EXCEPT ![w] = Resting]
    /\ UNCHANGED <<hour, runs, lock, dated, latest, raced>>

\* Taking a lock is a matter of seconds: the hours pass in the work it guards.
Hour ==
    /\ hour < MaxHour /\ \A w \in Workers : worker[w].pc \notin {"asked", "insert", "drop", "add", "held"}
    /\ hour' = hour + 1
    /\ UNCHANGED <<runs, lock, dated, latest, worker, behind, raced>>

LocksInit ==
    /\ hour = 0 /\ runs = {} /\ lock = Nothing
    /\ dated = {} /\ latest = Nothing
    /\ worker = [w \in Workers |-> Resting]
    /\ behind = FALSE /\ raced = FALSE

RunStep ==
    \E w \in Workers :
          \/ AskRun(w) \/ Abandon(w) \/ InsertRun(w)
          \/ \E status \in {"OK", "ERROR"}, again \in BOOLEAN : FinishRun(w, status, again)

BuildStep ==
    \E w \in Workers :
          \/ AskBuild(w) \/ DropLock(w) \/ AddLock(w) \/ BeginBuild(w)
          \/ Place(w) \/ Refresh(w) \/ PruneBuilds(w) \/ Release(w)

LockEnv == (\E w \in Workers : Crash(w)) \/ Hour

LocksNext == RunStep \/ BuildStep \/ LockEnv

LocksSpec == LocksInit /\ [][LocksNext]_lockVars

-----------------------------------------------------------------------------
(* Properties *)

Running == {w \in Workers : worker[w].pc = "run" /\ ~ Overdue(worker[w].asked)}

Building == {w \in Workers : worker[w].pc \in {"held", "build", "placed", "prune", "built"} /\ ~ Overdue(worker[w].asked)}

\* Takeovers, slow holders that report late and crashes leave at most one pipeline run and
\* one build that are not overdue.  (Except after a takeover that removed the row of
\* another takeover.)
OneAtATime ==
    /\ Cardinality(Running) <= 1
    /\ raced \/ Cardinality(Building) <= 1

\* acquire_lock's promise to the administrator, the weekly job and the command line.
NeverTwoBuilders == Cardinality(Building) <= 1

\* Unless a build was cut short or outlived its lock, the only file newer than
\* latest.duckdb is one whose build is about to copy it.
LatestIsNewest ==
    raced \/ behind \/
        \A f \in dated : \/ latest # Nothing /\ f <= latest
                        \/ \E w \in Workers : worker[w].pc = "placed" /\ worker[w].id = f

\* The runs of either job exclude each other, and the newest build is the one served
\* (acquire_pipeline_lock, acquire_lock, _refresh_latest).
JobsInOrder == OneAtATime /\ LatestIsNewest

=============================================================================
