----------------------------- MODULE Jobs_proofs ------------------------------
(***************************************************************************)
(* The scheduler's jobs: the locks they take and the index they leave.     *)
(*                                                                         *)
(* Locks.  For any number of processes, hours and runs: at most one        *)
(* pipeline run and one warehouse build that are not overdue, and the      *)
(* newest build is the one served.  Taking a lock is a matter of one hour, *)
(* so that a holder holds it from the hour it asked; who holds it and is   *)
(* not overdue is the one the lock row tells of, and nobody who asked      *)
(* later got it.                                                           *)
(*                                                                         *)
(* Index.  For any documents and any number of overlapping runs: what the  *)
(* last finished run saw when it started is in the index.  What the next   *)
(* run will not read is right in the index, what the run after it will not *)
(* read either is right in the rows of the runs under way or is still      *)
(* ahead of them, and SLACK covers what commits meanwhile.                 *)
(***************************************************************************)
EXTENDS RunLocks, SearchIndex, FiniteSetTheorems, WellFoundedInduction, TLAPS

-----------------------------------------------------------------------------
(* The inductive invariant *)

Taking == {"asked", "insert", "drop", "add", "held"}
Working == {"build", "placed", "prune", "built"}
Holding == Working \cup {"held"}

RunRows == [id : Nat, by : Workers, locked : BOOLEAN, status : {"RUNNING", "OK", "ERROR", "ABANDONED"}, since : Nat]

LockRows == [by : {NameOf[w] : w \in Workers}, since : Nat]

\* What a worker saw is anything here; Steady says what it is when it matters.
WorkerOK(x) == x \in [pc : {"rest", "run"} \cup Taking \cup Working, saw : {x.saw}, asked : Nat, since : Nat, id : Nat]

TypeOK ==
    /\ hour \in Nat
    /\ runs \subseteq RunRows /\ IsFiniteSet(runs)
    /\ lock \in LockRows \cup {Nothing}
    /\ dated \subseteq Nat /\ latest \in Nat \cup {Nothing}
    /\ worker = [w \in Workers |-> worker[w]] /\ \A w \in Workers : WorkerOK(worker[w])
    /\ behind \in BOOLEAN /\ raced \in BOOLEAN

\* Rows are numbered as they are inserted, and one at most is locked.
RunsNumbered ==
    /\ \A r \in runs : r.id \in 1 .. Cardinality(runs)
    /\ \A r, s \in runs : r.id = s.id \/ (r.locked /\ s.locked) => r = s

\* What a worker knows: the hour at which it asked, and what was overdue then.
Steady ==
    \A w \in Workers : LET x == worker[w] IN
        /\ x.asked <= hour
        /\ x.pc \in Taking => x.asked = hour
        /\ x.pc = "asked" => \A id \in x.saw : \E r \in runs : r.id = id /\ Overdue(r.since)
        /\ x.pc = "drop" => x.saw \in LockRows /\ Overdue(x.saw.since)
        /\ x.pc \in Working => x.id = x.asked

\* A run has a row, which is locked until the run is overdue.
RunsRecorded ==
    \A w \in Workers : worker[w].pc = "run" =>
        \E r \in runs : /\ r.id = worker[w].id /\ r.by = w /\ r.since = worker[w].asked
                        /\ r.locked \/ Overdue(r.since)

\* The build that is not overdue holds the row of the lock and is the last that took it.
LockTells ==
    \A w \in Building :
        /\ lock = [by |-> NameOf[w], since |-> worker[w].asked]
        /\ \A v \in Building : v = w
        /\ \A v \in Workers : worker[v].pc \in Holding => worker[v].asked <= worker[w].asked
        /\ \A f \in dated : f <= worker[w].asked

\* The start a build releases the lock by is the one it took it with.
StartsKnown == \A w \in Workers : worker[w].pc \in Working => worker[w].since = worker[w].asked

IInv ==
    /\ TypeOK /\ RunsNumbered /\ Steady /\ RunsRecorded
    /\ \A f \in dated : f <= hour
    /\ ~ raced => LockTells /\ StartsKnown
    /\ LatestIsNewest

-----------------------------------------------------------------------------
(* The rows of pipeline_runs *)

\* What a job changes of the rows keeps their number and their numbering.
LEMMA RowsKept ==
    ASSUME TypeOK, RunsNumbered, NEW g \in [runs -> RunRows],
           \A r \in runs : g[r].id = r.id /\ (g[r].locked => r.locked),
           runs' = {g[r] : r \in runs}
    PROVE  /\ runs' \subseteq RunRows /\ IsFiniteSet(runs')
           /\ Cardinality(runs') = Cardinality(runs)
           /\ RunsNumbered'
<1>1. g \in Surjection(runs, runs')
    BY DEF Surjection
<1>2. g \in Injection(runs, runs')
    <2>1. \A r, s \in runs : g[r] = g[s] => r = s
        BY DEF RunsNumbered
    <2> QED BY <2>1 DEF Injection, IsInjective
<1>3. IsFiniteSet(runs') /\ Cardinality(runs') = Cardinality(runs)
    BY <1>1, <1>2, FS_Surjection DEF TypeOK
<1>4. runs' \subseteq RunRows
    OBVIOUS
<1>5. RunsNumbered'
    <2>1. \A r \in runs : r.id \in 1 .. Cardinality(runs)
        BY DEF RunsNumbered
    <2>2. \A r \in runs' : r.id \in 1 .. Cardinality(runs')
        BY <1>3, <2>1
    <2>3. ASSUME NEW r \in runs, NEW s \in runs, g[r].id = g[s].id \/ (g[r].locked /\ g[s].locked) PROVE g[r] = g[s]
        BY <2>3 DEF RunsNumbered
    <2> QED BY <2>2, <2>3 DEF RunsNumbered
<1> QED BY <1>3, <1>4, <1>5

LEMMA AbandonedRows ==
    ASSUME TypeOK, RunsNumbered, NEW w \in Workers, Abandon(w)
    PROVE  /\ runs' \subseteq RunRows /\ IsFiniteSet(runs') /\ RunsNumbered'
           /\ \A r \in runs : \E s \in runs' : /\ s.id = r.id /\ s.by = r.by /\ s.since = r.since
                                               /\ r.id \notin worker[w].saw => s = r
<1> DEFINE g == [r \in runs |-> IF r.id \in worker[w].saw THEN [r EXCEPT !.locked = FALSE, !.status = "ABANDONED"] ELSE r]
<1>0. ASSUME NEW r \in runs
      PROVE  /\ g[r] \in RunRows /\ g[r].id = r.id /\ (g[r].locked => r.locked) /\ g[r].by = r.by /\ g[r].since = r.since
             /\ r.id \notin worker[w].saw => g[r] = r
    <2>1. r \in RunRows
        BY DEF TypeOK
    <2>2. CASE ~ (r.id \in worker[w].saw)
        BY <2>1, <2>2
    <2>3. CASE r.id \in worker[w].saw
        <3>1. g[r] = [r EXCEPT !.locked = FALSE, !.status = "ABANDONED"]
            BY <2>3
        <3>2. g[r] \in RunRows /\ g[r].id = r.id /\ ~ g[r].locked /\ g[r].by = r.by /\ g[r].since = r.since
            BY <2>1, <3>1 DEF RunRows
        <3> QED BY <2>3, <3>2
    <2> QED BY <2>2, <2>3
<1>1. g \in [runs -> RunRows]
    BY <1>0
<1>2. \A r \in runs : /\ g[r].id = r.id /\ (g[r].locked => r.locked) /\ g[r].by = r.by /\ g[r].since = r.since
                      /\ r.id \notin worker[w].saw => g[r] = r
    BY <1>0
<1>3. runs' = {g[r] : r \in runs}
    BY DEF Abandon
<1> HIDE DEF g
<1>4. \A r \in runs : g[r] \in runs'
    BY <1>3
<1> QED BY <1>1, <1>2, <1>3, <1>4, RowsKept

LEMMA FinishedRows ==
    ASSUME TypeOK, RunsNumbered, NEW w \in Workers, NEW status \in {"OK", "ERROR"}, NEW again \in BOOLEAN,
           FinishRun(w, status, again)
    PROVE  /\ runs' \subseteq RunRows /\ IsFiniteSet(runs') /\ RunsNumbered'
           /\ \A r \in runs : \E s \in runs' : /\ s.id = r.id /\ s.by = r.by /\ s.since = r.since
                                               /\ r.id # worker[w].id => s = r
<1> DEFINE g == [r \in runs |-> IF r.id = worker[w].id THEN [r EXCEPT !.locked = FALSE, !.status = IF again THEN "ERROR" ELSE status]
                                ELSE r]
<1>0. ASSUME NEW r \in runs
      PROVE  /\ g[r] \in RunRows /\ g[r].id = r.id /\ (g[r].locked => r.locked) /\ g[r].by = r.by /\ g[r].since = r.since
             /\ r.id # worker[w].id => g[r] = r
    <2>1. r \in RunRows
        BY DEF TypeOK
    <2>2. CASE ~ (r.id = worker[w].id)
        BY <2>1, <2>2
    <2>3. CASE r.id = worker[w].id
        <3>1. g[r] = [r EXCEPT !.locked = FALSE, !.status = IF again THEN "ERROR" ELSE status]
            BY <2>3
        <3>2. g[r] \in RunRows /\ g[r].id = r.id /\ ~ g[r].locked /\ g[r].by = r.by /\ g[r].since = r.since
            BY <2>1, <3>1 DEF RunRows
        <3> QED BY <2>3, <3>2
    <2> QED BY <2>2, <2>3
<1>1. g \in [runs -> RunRows]
    BY <1>0
<1>2. \A r \in runs : /\ g[r].id = r.id /\ (g[r].locked => r.locked) /\ g[r].by = r.by /\ g[r].since = r.since
                      /\ r.id # worker[w].id => g[r] = r
    BY <1>0
<1>3. runs' = {g[r] : r \in runs}
    BY DEF FinishRun, Freed
<1> HIDE DEF g
<1>4. runs' \subseteq RunRows /\ IsFiniteSet(runs') /\ RunsNumbered'
    BY <1>1, <1>2, <1>3, RowsKept
<1>5. \A r \in runs : g[r] \in runs'
    BY <1>3
<1> QED BY ONLY <1>2, <1>4, <1>5

\* A record of a worker with some of its fields replaced, as a record.
LEMMA Replaced ==
    ASSUME NEW x, WorkerOK(x), NEW pc, NEW other, NEW id
    PROVE  /\ [x EXCEPT !.pc = pc] = [pc |-> pc, saw |-> x.saw, asked |-> x.asked, since |-> x.since, id |-> x.id]
           /\ [x EXCEPT !.pc = pc, !.saw = other] = [pc |-> pc, saw |-> other, asked |-> x.asked, since |-> x.since, id |-> x.id]
           /\ [x EXCEPT !.pc = pc, !.id = id] = [pc |-> pc, saw |-> x.saw, asked |-> x.asked, since |-> x.since, id |-> id]
<1>1. x = [pc |-> x.pc, saw |-> x.saw, asked |-> x.asked, since |-> x.since, id |-> x.id]
    BY DEF WorkerOK
<1>2. PICK p, w, a, s, i : x = [pc |-> p, saw |-> w, asked |-> a, since |-> s, id |-> i]
    BY <1>1
<1>3. x.saw = w /\ x.asked = a /\ x.since = s /\ x.id = i
    BY <1>2
<1>4. [x EXCEPT !.pc = pc] = [pc |-> pc, saw |-> w, asked |-> a, since |-> s, id |-> i]
    BY <1>2
<1>5. PICK y : y = [x EXCEPT !.pc = pc]
    OBVIOUS
<1>6. y = [pc |-> pc, saw |-> w, asked |-> a, since |-> s, id |-> i]
    BY <1>4, <1>5
<1>7. PICK z : z = [y EXCEPT !.id = id]
    OBVIOUS
<1>8. z = [pc |-> pc, saw |-> w, asked |-> a, since |-> s, id |-> id]
    BY <1>6, <1>7
<1>9. [y EXCEPT !.saw = other] = [pc |-> pc, saw |-> other, asked |-> a, since |-> s, id |-> i]
    BY <1>6
<1>10. /\ [x EXCEPT !.pc = pc, !.saw = other] = [y EXCEPT !.saw = other]
       /\ [x EXCEPT !.pc = pc, !.id = id] = z
    BY <1>5, <1>7
<1> QED BY <1>3, <1>4, <1>8, <1>9, <1>10

LEMMA ReplacedStart ==
    ASSUME NEW x, WorkerOK(x), NEW pc, NEW id, NEW start
    PROVE  [x EXCEPT !.pc = pc, !.id = id, !.since = start] =
              [pc |-> pc, saw |-> x.saw, asked |-> x.asked, since |-> start, id |-> id]
<1>1. PICK y : y = [x EXCEPT !.pc = pc, !.id = id]
    OBVIOUS
<1>2. y = [pc |-> pc, saw |-> x.saw, asked |-> x.asked, since |-> x.since, id |-> id]
    BY <1>1, Replaced
<1>3. [y EXCEPT !.since = start] = [pc |-> pc, saw |-> x.saw, asked |-> x.asked, since |-> start, id |-> id]
    BY <1>2
<1>4. [x EXCEPT !.pc = pc, !.id = id, !.since = start] = [y EXCEPT !.since = start]
    BY <1>1
<1> QED BY <1>3, <1>4

\* The row a run inserts is locked, as no other is.
LEMMA InsertedRow ==
    ASSUME TypeOK, RunsNumbered, NEW w \in Workers, InsertRun(w)
    PROVE  /\ runs' \subseteq RunRows /\ IsFiniteSet(runs') /\ RunsNumbered'
           /\ runs \subseteq runs'
           /\ worker'[w].pc = "run" => \E r \in runs' : /\ r.id = worker'[w].id /\ r.by = w
                                                        /\ r.since = worker'[w].asked /\ r.locked
<1>0. worker[w] \in [pc : {"rest", "run"} \cup Taking \cup Working, saw : {worker[w].saw}, asked : Nat, since : Nat, id : Nat]
    BY DEF TypeOK, WorkerOK
<1>1. CASE \E r \in runs : r.locked
    <2>1. runs' = runs /\ worker'[w] = Resting
        BY <1>1 DEF InsertRun, TypeOK
    <2> QED BY <2>1 DEF TypeOK, RunsNumbered, Resting
<1>2. CASE \A r \in runs : ~ r.locked
    <2> DEFINE n == Cardinality(runs) + 1
               row == [id |-> n, by |-> w, locked |-> TRUE, status |-> "RUNNING", since |-> worker[w].asked]
    <2>1. Cardinality(runs) \in Nat
        BY FS_CardinalityType DEF TypeOK
    <2>2. runs' = runs \cup {row}
        BY <1>2 DEF InsertRun
    <2>3. worker'[w].pc = "run" /\ worker'[w].id = n /\ worker'[w].asked = worker[w].asked
        <3>1. worker' = [worker EXCEPT ![w] = [worker[w] EXCEPT !.pc = "run", !.id = n]]
            BY <1>2 DEF InsertRun
        <3>2. worker'[w] = [worker[w] EXCEPT !.pc = "run", !.id = n]
            BY <3>1 DEF TypeOK
        <3>3. WorkerOK(worker[w])
            BY DEF TypeOK
        <3> HIDE DEF n
        <3>4. worker'[w] = [pc |-> "run", saw |-> worker[w].saw, asked |-> worker[w].asked, since |-> worker[w].since, id |-> n]
            BY <3>2, <3>3, Replaced
        <3> QED BY <3>4
    <2>4. row \notin runs
        BY <2>1 DEF RunsNumbered
    <2>5. IsFiniteSet(runs') /\ Cardinality(runs') = n
        BY <2>2, <2>4, FS_AddElement DEF TypeOK
    <2>6. row \in RunRows
        BY <1>0, <2>1 DEF RunRows
    <2>7. row.id = n /\ row.locked /\ row.by = w /\ row.since = worker[w].asked
        OBVIOUS
    <2> HIDE DEF row, n
    <2>8. n = Cardinality(runs) + 1
        BY DEF n
    <2>9. \A r \in runs' : r.id \in 1 .. n
        BY <2>1, <2>2, <2>7, <2>8 DEF RunsNumbered
    <2>10. \A r \in runs : r.id # n /\ ~ r.locked
        BY <1>2, <2>1, <2>8 DEF RunsNumbered
    <2>11. RunsNumbered'
        BY <2>2, <2>5, <2>7, <2>9, <2>10 DEF RunsNumbered
    <2> QED BY <2>2, <2>3, <2>5, <2>6, <2>7, <2>11 DEF TypeOK
<1> QED BY <1>1, <1>2

-----------------------------------------------------------------------------
(* What a step makes of its worker *)

Goes(w, n) ==
    /\ worker' = [v \in Workers |-> worker'[v]]
    /\ worker'[w] = n /\ \A v \in Workers : v = w \/ worker'[v] = worker[v]
    /\ \A v \in Workers : WorkerOK(worker'[v])

On(w, pc, seen, since, id) == [pc |-> pc, saw |-> seen, asked |-> worker[w].asked, since |-> since, id |-> id]

LEMMA Moves ==
    ASSUME TypeOK, NEW w \in Workers
    PROVE  /\ AskRun(w) => Goes(w, [pc |-> "asked", saw |-> {r.id : r \in {s \in runs : s.locked /\ Overdue(s.since)}},
                                    asked |-> hour, since |-> 0, id |-> 0])
           /\ Abandon(w) => Goes(w, On(w, "insert", Nothing, worker[w].since, worker[w].id))
           /\ InsertRun(w) => \/ Goes(w, Resting)
                              \/ \E id \in Nat : Goes(w, On(w, "run", worker[w].saw, worker[w].since, id))
           /\ \A status, again : FinishRun(w, status, again) => Goes(w, Resting)
           /\ AskBuild(w) => \/ Goes(w, [pc |-> "add", saw |-> Nothing, asked |-> hour, since |-> 0, id |-> 0])
                             \/ /\ lock # Nothing /\ Overdue(lock.since)
                                /\ Goes(w, [pc |-> "drop", saw |-> lock, asked |-> hour, since |-> 0, id |-> 0])
           /\ DropLock(w) => Goes(w, On(w, "add", Nothing, worker[w].since, worker[w].id))
           /\ AddLock(w) => \/ lock # Nothing /\ lock' = lock /\ Goes(w, Resting)
                            \/ /\ lock = Nothing /\ lock' = [by |-> NameOf[w], since |-> worker[w].asked]
                               /\ Goes(w, On(w, "held", worker[w].saw, worker[w].since, worker[w].id))
           /\ BeginBuild(w) => Goes(w, On(w, "build", worker[w].saw,
                                          IF lock # Nothing /\ lock.by = NameOf[w] THEN lock.since ELSE hour, hour))
           /\ Place(w) => Goes(w, On(w, "placed", worker[w].saw, worker[w].since, worker[w].id))
           /\ Refresh(w) => Goes(w, On(w, "prune", worker[w].saw, worker[w].since, worker[w].id))
           /\ PruneBuilds(w) => Goes(w, On(w, "built", worker[w].saw, worker[w].since, worker[w].id))
           /\ Release(w) => Goes(w, Resting)
           /\ Crash(w) => Goes(w, Resting)
<1>2. WorkerOK(worker[w]) /\ worker[w].asked \in Nat /\ worker[w].since \in Nat /\ worker[w].id \in Nat
    BY DEF TypeOK, WorkerOK
<1>3. hour \in Nat /\ worker = [v \in Workers |-> worker[v]] /\ (lock # Nothing => lock.since \in Nat)
    BY DEF TypeOK, LockRows
<1>4. \A pc, seen, asked, since, id :
          pc \in {"rest", "run"} \cup Taking \cup Working /\ asked \in Nat /\ since \in Nat /\ id \in Nat
          => WorkerOK([pc |-> pc, saw |-> seen, asked |-> asked, since |-> since, id |-> id])
    BY DEF WorkerOK
<1>5. WorkerOK(Resting)
    BY <1>4 DEF Resting
<1>0. ASSUME NEW n, WorkerOK(n), worker' = [worker EXCEPT ![w] = n]
      PROVE  Goes(w, n)
    <2>1. worker' = [v \in Workers |-> IF v = w THEN n ELSE worker[v]]
        BY <1>0, <1>3
    <2>2. worker' = [v \in Workers |-> worker'[v]] /\ worker'[w] = n /\ \A v \in Workers : v = w \/ worker'[v] = worker[v]
        BY <2>1
    <2>3. \A v \in Workers : WorkerOK(worker[v])
        BY DEF TypeOK
    <2>4. ASSUME NEW v \in Workers PROVE WorkerOK(worker'[v])
        <3>1. CASE v = w BY <1>0, <2>2, <3>1
        <3>2. CASE v # w BY <2>2, <2>3, <3>2
        <3> QED BY <3>1, <3>2
    <2> QED BY <2>2, <2>4 DEF Goes
<1> USE DEF Taking, Working
<1>6. ASSUME AskRun(w) PROVE Goes(w, [pc |-> "asked", saw |-> {r.id : r \in {s \in runs : s.locked /\ Overdue(s.since)}},
                                      asked |-> hour, since |-> 0, id |-> 0])
    BY <1>0, <1>3, <1>4, <1>6 DEF AskRun
<1>7. ASSUME Abandon(w) PROVE Goes(w, On(w, "insert", Nothing, worker[w].since, worker[w].id))
    <2>1. worker' = [worker EXCEPT ![w] = On(w, "insert", Nothing, worker[w].since, worker[w].id)]
        <3>1. worker' = [worker EXCEPT ![w] = [worker[w] EXCEPT !.pc = "insert", !.saw = Nothing]]
            BY <1>7 DEF Abandon
        <3>2. [worker[w] EXCEPT !.pc = "insert", !.saw = Nothing] =
                 [pc |-> "insert", saw |-> Nothing, asked |-> worker[w].asked, since |-> worker[w].since, id |-> worker[w].id]
            BY <1>2, Replaced
        <3> QED BY <3>1, <3>2 DEF On
    <2> QED BY <1>0, <1>2, <1>4, <2>1 DEF On
<1>8. ASSUME InsertRun(w) PROVE \/ Goes(w, Resting)
                                \/ \E id \in Nat : Goes(w, On(w, "run", worker[w].saw, worker[w].since, id))
    <2>1. Cardinality(runs) + 1 \in Nat
        BY FS_CardinalityType DEF TypeOK
    <2>2. CASE \E r \in runs : r.locked
        BY <1>0, <1>5, <1>8, <2>2 DEF InsertRun
    <2>3. CASE ~ \E r \in runs : r.locked
        <3>1. worker' = [worker EXCEPT ![w].pc = "run", ![w].id = Cardinality(runs) + 1]
            BY <1>8, <2>3 DEF InsertRun
        <3>2. worker' = [worker EXCEPT ![w] = On(w, "run", worker[w].saw, worker[w].since, Cardinality(runs) + 1)]
            <4>1. worker' = [worker EXCEPT ![w] = [worker[w] EXCEPT !.pc = "run", !.id = Cardinality(runs) + 1]]
                BY <3>1
            <4> QED BY <1>2, <4>1, Replaced DEF On
        <3>3. Goes(w, On(w, "run", worker[w].saw, worker[w].since, Cardinality(runs) + 1))
            BY <1>0, <1>2, <1>4, <2>1, <3>2 DEF On
        <3> QED BY <2>1, <3>3
    <2> QED BY <2>2, <2>3
<1>9. ASSUME NEW status, NEW again, FinishRun(w, status, again) PROVE Goes(w, Resting)
    BY <1>0, <1>5, <1>9 DEF FinishRun
<1>10. ASSUME AskBuild(w) PROVE \/ Goes(w, [pc |-> "add", saw |-> Nothing, asked |-> hour, since |-> 0, id |-> 0])
                                \/ /\ lock # Nothing /\ Overdue(lock.since)
                                   /\ Goes(w, [pc |-> "drop", saw |-> lock, asked |-> hour, since |-> 0, id |-> 0])
    <2>1. CASE lock # Nothing /\ Overdue(lock.since)
        <3>1. worker' = [worker EXCEPT ![w] = [pc |-> "drop", saw |-> lock, asked |-> hour, since |-> 0, id |-> 0]]
            BY <1>10, <2>1 DEF AskBuild
        <3> QED BY <1>0, <1>3, <1>4, <2>1, <3>1
    <2>2. CASE ~ (lock # Nothing /\ Overdue(lock.since))
        <3>1. worker' = [worker EXCEPT ![w] = [pc |-> "add", saw |-> Nothing, asked |-> hour, since |-> 0, id |-> 0]]
            BY <1>10, <2>2 DEF AskBuild
        <3> QED BY <1>0, <1>3, <1>4, <3>1
    <2> QED BY <2>1, <2>2
<1>11. ASSUME DropLock(w) PROVE Goes(w, On(w, "add", Nothing, worker[w].since, worker[w].id))
    <2>1. worker' = [worker EXCEPT ![w] = On(w, "add", Nothing, worker[w].since, worker[w].id)]
        <3>1. worker' = [worker EXCEPT ![w] = [worker[w] EXCEPT !.pc = "add", !.saw = Nothing]]
            BY <1>11 DEF DropLock
        <3>2. [worker[w] EXCEPT !.pc = "add", !.saw = Nothing] =
                 [pc |-> "add", saw |-> Nothing, asked |-> worker[w].asked, since |-> worker[w].since, id |-> worker[w].id]
            BY <1>2, Replaced
        <3> QED BY <3>1, <3>2 DEF On
    <2> QED BY <1>0, <1>2, <1>4, <2>1 DEF On
<1>12. ASSUME AddLock(w) PROVE \/ lock # Nothing /\ lock' = lock /\ Goes(w, Resting)
                               \/ /\ lock = Nothing /\ lock' = [by |-> NameOf[w], since |-> worker[w].asked]
                                  /\ Goes(w, On(w, "held", worker[w].saw, worker[w].since, worker[w].id))
    <2>1. CASE lock # Nothing
        BY <1>0, <1>5, <1>12, <2>1 DEF AddLock
    <2>2. CASE lock = Nothing
        <3>1. worker' = [worker EXCEPT ![w] = On(w, "held", worker[w].saw, worker[w].since, worker[w].id)]
            <4>1. worker' = [worker EXCEPT ![w] = [worker[w] EXCEPT !.pc = "held"]]
                BY <1>12, <2>2 DEF AddLock
            <4> QED BY <1>2, <4>1, Replaced DEF On
        <3>2. Goes(w, On(w, "held", worker[w].saw, worker[w].since, worker[w].id))
            BY <1>0, <1>2, <1>4, <3>1 DEF On
        <3> QED BY <1>12, <2>2, <3>2 DEF AddLock
    <2> QED BY <2>1, <2>2
<1>13. ASSUME BeginBuild(w) PROVE Goes(w, On(w, "build", worker[w].saw,
                                             IF lock # Nothing /\ lock.by = NameOf[w] THEN lock.since ELSE hour, hour))
    <2>1. PICK start : start = IF lock # Nothing /\ lock.by = NameOf[w] THEN lock.since ELSE hour
        OBVIOUS
    <2>2. start \in Nat
        BY <1>3, <2>1
    <2>3. worker' = [worker EXCEPT ![w] = [worker[w] EXCEPT !.pc = "build", !.id = hour, !.since = start]]
        BY <1>13, <2>1 DEF BeginBuild
    <2>4. [worker[w] EXCEPT !.pc = "build", !.id = hour, !.since = start] = On(w, "build", worker[w].saw, start, hour)
        BY <1>2, ReplacedStart DEF On
    <2>5. Goes(w, On(w, "build", worker[w].saw, start, hour))
        BY <1>0, <1>2, <1>3, <1>4, <2>2, <2>3, <2>4 DEF On
    <2> QED BY <2>1, <2>5
<1>14. ASSUME Place(w) PROVE Goes(w, On(w, "placed", worker[w].saw, worker[w].since, worker[w].id))
    <2>1. worker' = [worker EXCEPT ![w] = On(w, "placed", worker[w].saw, worker[w].since, worker[w].id)]
        <3>1. worker' = [worker EXCEPT ![w] = [worker[w] EXCEPT !.pc = "placed"]]
            BY <1>14 DEF Place
        <3> QED BY <1>2, <3>1, Replaced DEF On
    <2> QED BY <1>0, <1>2, <1>4, <2>1 DEF On
<1>15. ASSUME Refresh(w) PROVE Goes(w, On(w, "prune", worker[w].saw, worker[w].since, worker[w].id))
    <2>1. worker' = [worker EXCEPT ![w] = On(w, "prune", worker[w].saw, worker[w].since, worker[w].id)]
        <3>1. worker' = [worker EXCEPT ![w] = [worker[w] EXCEPT !.pc = "prune"]]
            BY <1>15 DEF Refresh
        <3> QED BY <1>2, <3>1, Replaced DEF On
    <2> QED BY <1>0, <1>2, <1>4, <2>1 DEF On
<1>16. ASSUME PruneBuilds(w) PROVE Goes(w, On(w, "built", worker[w].saw, worker[w].since, worker[w].id))
    <2>1. worker' = [worker EXCEPT ![w] = On(w, "built", worker[w].saw, worker[w].since, worker[w].id)]
        <3>1. worker' = [worker EXCEPT ![w] = [worker[w] EXCEPT !.pc = "built"]]
            BY <1>16 DEF PruneBuilds
        <3> QED BY <1>2, <3>1, Replaced DEF On
    <2> QED BY <1>0, <1>2, <1>4, <2>1 DEF On
<1>17. ASSUME Release(w) PROVE Goes(w, Resting)
    BY <1>0, <1>5, <1>17 DEF Release
<1>18. ASSUME Crash(w) PROVE Goes(w, Resting)
    BY <1>0, <1>5, <1>18 DEF Crash
<1> QED BY <1>6, <1>7, <1>8, <1>9, <1>10, <1>11, <1>12, <1>13, <1>14, <1>15, <1>16, <1>17, <1>18

Acts(w) ==
    \/ AskRun(w) \/ Abandon(w) \/ InsertRun(w) \/ \E status \in {"OK", "ERROR"}, again \in BOOLEAN : FinishRun(w, status, again)
    \/ AskBuild(w) \/ DropLock(w) \/ AddLock(w) \/ BeginBuild(w)
    \/ Place(w) \/ Refresh(w) \/ PruneBuilds(w) \/ Release(w) \/ Crash(w)

LEMMA StepCases ==
    ASSUME [LocksNext]_lockVars
    PROVE  (\E w \in Workers : Acts(w)) \/ Hour \/ UNCHANGED lockVars
BY DEF LocksNext, RunStep, BuildStep, LockEnv, Acts

LEMMA ActsMove ==
    ASSUME TypeOK, NEW w \in Workers, Acts(w)
    PROVE  \E n : Goes(w, n)
<1> DEFINE Some == \E n : Goes(w, n)
<1>1. \A n : Goes(w, n) => Some
    OBVIOUS
<1> HIDE DEF Some
<1>2. Some
    BY <1>1, Moves DEF Acts
<1> QED BY <1>2 DEF Some

\* Where a step leaves its worker.
LEMMA NextPlace ==
    ASSUME TypeOK, NEW w \in Workers
    PROVE  /\ Acts(w) => \A v \in Workers : v = w \/ worker'[v] = worker[v]
           /\ AskRun(w) => worker'[w].pc = "asked"
           /\ Abandon(w) => worker'[w].pc = "insert"
           /\ InsertRun(w) => worker'[w].pc \in {"rest", "run"}
           /\ AskBuild(w) => worker'[w].pc \in {"add", "drop"}
           /\ DropLock(w) => worker'[w].pc = "add"
           /\ AddLock(w) => worker'[w].pc \in {"rest", "held"}
           /\ BeginBuild(w) => worker'[w].pc = "build"
           /\ Place(w) => worker'[w].pc = "placed"
           /\ Refresh(w) => worker'[w].pc = "prune"
           /\ PruneBuilds(w) => worker'[w].pc = "built"
           /\ \A status, again : FinishRun(w, status, again) => worker'[w].pc = "rest" /\ worker'[w].asked = 0
           /\ Release(w) \/ Crash(w) => worker'[w].pc = "rest"
<1>1. ASSUME AskRun(w) PROVE worker'[w].pc = "asked"
    <2>1. Goes(w, [pc |-> "asked", saw |-> {r.id : r \in {s \in runs : s.locked /\ Overdue(s.since)}},
                     asked |-> hour, since |-> 0, id |-> 0])
        BY <1>1, Moves
    <2> QED BY <2>1 DEF Goes
<1>2. ASSUME Abandon(w) PROVE worker'[w].pc = "insert"
    <2>1. Goes(w, On(w, "insert", Nothing, worker[w].since, worker[w].id))
        BY <1>2, Moves
    <2> QED BY <2>1 DEF Goes, On
<1>3. ASSUME InsertRun(w) PROVE worker'[w].pc \in {"rest", "run"}
    <2>1. Goes(w, Resting) \/ \E id \in Nat : Goes(w, On(w, "run", worker[w].saw, worker[w].since, id))
        BY <1>3, Moves
    <2>2. CASE Goes(w, Resting)
        BY <2>2 DEF Goes, Resting
    <2>3. ASSUME NEW id \in Nat, Goes(w, On(w, "run", worker[w].saw, worker[w].since, id)) PROVE worker'[w].pc = "run"
        BY <2>3 DEF Goes, On
    <2> QED BY <2>1, <2>2, <2>3
<1>4. ASSUME AskBuild(w) PROVE worker'[w].pc \in {"add", "drop"}
    <2>1. \/ Goes(w, [pc |-> "add", saw |-> Nothing, asked |-> hour, since |-> 0, id |-> 0])
          \/ Goes(w, [pc |-> "drop", saw |-> lock, asked |-> hour, since |-> 0, id |-> 0])
        BY <1>4, Moves
    <2> QED BY <2>1 DEF Goes
<1>5. ASSUME DropLock(w) PROVE worker'[w].pc = "add"
    <2>1. Goes(w, On(w, "add", Nothing, worker[w].since, worker[w].id))
        BY <1>5, Moves
    <2> QED BY <2>1 DEF Goes, On
<1>6. ASSUME AddLock(w) PROVE worker'[w].pc \in {"rest", "held"}
    <2>1. Goes(w, Resting) \/ Goes(w, On(w, "held", worker[w].saw, worker[w].since, worker[w].id))
        BY <1>6, Moves
    <2> QED BY <2>1 DEF Goes, On, Resting
<1>7. ASSUME BeginBuild(w) PROVE worker'[w].pc = "build"
    <2>1. \E start : Goes(w, On(w, "build", worker[w].saw, start, hour))
        BY <1>7, Moves
    <2> QED BY <2>1 DEF Goes, On
<1>8. ASSUME Place(w) PROVE worker'[w].pc = "placed"
    <2>1. Goes(w, On(w, "placed", worker[w].saw, worker[w].since, worker[w].id))
        BY <1>8, Moves
    <2> QED BY <2>1 DEF Goes, On
<1>9. ASSUME Refresh(w) PROVE worker'[w].pc = "prune"
    <2>1. Goes(w, On(w, "prune", worker[w].saw, worker[w].since, worker[w].id))
        BY <1>9, Moves
    <2> QED BY <2>1 DEF Goes, On
<1>10. ASSUME PruneBuilds(w) PROVE worker'[w].pc = "built"
    <2>1. Goes(w, On(w, "built", worker[w].saw, worker[w].since, worker[w].id))
        BY <1>10, Moves
    <2> QED BY <2>1 DEF Goes, On
<1>11. ASSUME NEW status, NEW again, FinishRun(w, status, again) PROVE worker'[w].pc = "rest" /\ worker'[w].asked = 0
    <2>1. Goes(w, Resting)
        BY <1>11, Moves
    <2> QED BY <2>1 DEF Goes, Resting
<1>12. ASSUME Release(w) \/ Crash(w) PROVE worker'[w].pc = "rest"
    <2>1. Goes(w, Resting)
        BY <1>12, Moves
    <2> QED BY <2>1 DEF Goes, Resting
<1>13. Acts(w) => \A v \in Workers : v = w \/ worker'[v] = worker[v]
    BY ActsMove DEF Goes
<1> QED BY <1>1, <1>2, <1>3, <1>4, <1>5, <1>6, <1>7, <1>8, <1>9, <1>10, <1>11, <1>12, <1>13

-----------------------------------------------------------------------------
(* The parts of the invariant, one by one *)

\* Rows stay, with their worker and hour.
LEMMA RowsStay ==
    ASSUME TypeOK, RunsNumbered, [LocksNext]_lockVars
    PROVE  /\ runs' \subseteq RunRows /\ IsFiniteSet(runs') /\ RunsNumbered'
           /\ \A r \in runs : \E s \in runs' : s.id = r.id /\ s.by = r.by /\ s.since = r.since
<1>1. ASSUME UNCHANGED runs
      PROVE  /\ runs' \subseteq RunRows /\ IsFiniteSet(runs') /\ RunsNumbered'
             /\ \A r \in runs : \E s \in runs' : s.id = r.id /\ s.by = r.by /\ s.since = r.since
    BY <1>1 DEF TypeOK, RunsNumbered
<1>2. CASE \E w \in Workers : Abandon(w)
    BY <1>2, AbandonedRows
<1>3. CASE \E w \in Workers : InsertRun(w)
    BY <1>3, InsertedRow
<1>4. CASE \E w \in Workers : \E status \in {"OK", "ERROR"}, again \in BOOLEAN : FinishRun(w, status, again)
    BY <1>4, FinishedRows
<1>5. \/ UNCHANGED runs \/ (\E w \in Workers : Abandon(w)) \/ (\E w \in Workers : InsertRun(w))
      \/ \E w \in Workers : \E status \in {"OK", "ERROR"}, again \in BOOLEAN : FinishRun(w, status, again)
    BY StepCases DEF Acts, lockVars, Hour, AskRun, AskBuild, DropLock, AddLock, BeginBuild, Place, Refresh, PruneBuilds, Release, Crash
<1> QED BY <1>1, <1>2, <1>3, <1>4, <1>5

LEMMA TypeStays ==
    ASSUME TypeOK, RunsNumbered, [LocksNext]_lockVars
    PROVE  TypeOK'
<1>1. runs' \subseteq RunRows /\ IsFiniteSet(runs')
    BY RowsStay
<1>2. worker' = [v \in Workers |-> worker'[v]] /\ \A v \in Workers : WorkerOK(worker'[v])
    <2>1. CASE \E w \in Workers : Acts(w)
        BY <2>1, ActsMove DEF Goes
    <2>2. CASE UNCHANGED worker
        BY <2>2 DEF TypeOK
    <2> QED BY <2>1, <2>2, StepCases DEF Hour, lockVars
<1>3. hour' \in Nat
    <2>1. hour' = hour \/ Hour
        BY StepCases DEF Acts, lockVars, AskRun, Abandon, InsertRun, FinishRun,
            AskBuild, DropLock, AddLock, BeginBuild, Place, Refresh, PruneBuilds, Release, Crash
    <2> QED BY <2>1 DEF TypeOK, Hour
<1>4. lock' \in LockRows \cup {Nothing}
    <2>1. ASSUME NEW w \in Workers, AddLock(w) PROVE lock' \in LockRows \cup {Nothing}
        <3>1. worker[w].asked \in Nat
            BY DEF TypeOK, WorkerOK
        <3> QED BY <2>1, <3>1 DEF TypeOK, LockRows, AddLock
    <2> QED BY <2>1, StepCases DEF TypeOK, Acts, lockVars, Hour, AskRun, Abandon, InsertRun, FinishRun,
                AskBuild, DropLock, BeginBuild, Place, Refresh, PruneBuilds, Release, Crash
<1>5. dated' \subseteq Nat /\ latest' \in Nat \cup {Nothing}
    <2>1. \A w \in Workers : worker[w].id \in Nat
        BY DEF TypeOK, WorkerOK
    <2> QED BY <2>1, StepCases DEF TypeOK, Acts, lockVars, Hour, AskRun, Abandon, InsertRun, FinishRun, Newest,
                AskBuild, DropLock, AddLock, BeginBuild, Place, Refresh, PruneBuilds, Release, Crash
<1>6. behind' \in BOOLEAN
    <2>1. behind \in BOOLEAN
        BY DEF TypeOK
    <2>2. ASSUME NEW w \in Workers, Refresh(w) PROVE behind' \in BOOLEAN
        BY <2>2 DEF Refresh, Overdue
    <2>3. ASSUME NEW w \in Workers, Release(w) \/ Crash(w) PROVE behind' \in BOOLEAN
        BY <2>3 DEF Release, Crash
    <2> QED BY <2>1, <2>2, <2>3, StepCases DEF Acts, lockVars, Hour, AskRun, Abandon, InsertRun, FinishRun,
                AskBuild, DropLock, AddLock, BeginBuild, Place, PruneBuilds
<1>7. raced' \in BOOLEAN
    <2>1. raced \in BOOLEAN
        BY DEF TypeOK
    <2>2. ASSUME NEW w \in Workers, DropLock(w) PROVE raced' \in BOOLEAN
        BY <2>2 DEF DropLock
    <2> QED BY <2>1, <2>2, StepCases DEF Acts, lockVars, Hour, AskRun, Abandon, InsertRun, FinishRun,
                AskBuild, AddLock, BeginBuild, Place, Refresh, PruneBuilds, Release, Crash
<1> QED BY <1>1, <1>2, <1>3, <1>4, <1>5, <1>6, <1>7 DEF TypeOK

LEMMA SteadyStays ==
    ASSUME IInv, [LocksNext]_lockVars
    PROVE  Steady'
<1> SUFFICES ASSUME NEW v \in Workers
             PROVE  /\ worker'[v].asked <= hour'
                    /\ worker'[v].pc \in Taking => worker'[v].asked = hour'
                    /\ worker'[v].pc = "asked" => \A id \in worker'[v].saw : \E r \in runs' : r.id = id /\ Overdue(r.since)'
                    /\ worker'[v].pc = "drop" => worker'[v].saw \in LockRows /\ worker'[v].saw.since + StaleAfter < hour'
                    /\ worker'[v].pc \in Working => worker'[v].id = worker'[v].asked
    BY DEF Steady, Overdue
<1>0. /\ hour \in Nat /\ StaleAfter \in Nat
      /\ \A w \in Workers : worker[w].asked \in Nat /\ worker[w].asked <= hour
      /\ \A w \in Workers : worker[w].pc \in Taking => worker[w].asked = hour
      /\ \A w \in Workers : worker[w].pc \in Working => worker[w].id = worker[w].asked
      /\ \A w \in Workers : worker[w].pc = "asked" => \A id \in worker[w].saw : \E r \in runs : r.id = id /\ Overdue(r.since)
      /\ \A w \in Workers : worker[w].pc = "drop" => worker[w].saw \in LockRows /\ Overdue(worker[w].saw.since)
    BY RunLocksAssumption DEF IInv, TypeOK, WorkerOK, Steady
<1>1. /\ \A r \in runs : \E s \in runs' : s.id = r.id /\ s.since = r.since
      /\ \A r \in runs : r.since \in Nat
    BY RowsStay DEF IInv, TypeOK, RunRows
<1>2. CASE UNCHANGED lockVars
    BY <1>0, <1>2 DEF lockVars, Overdue
<1>3. CASE Hour
    BY <1>0, <1>3 DEF Hour, Taking
<1>4. ASSUME NEW w \in Workers, Acts(w)
      PROVE  /\ worker'[v].asked <= hour'
             /\ worker'[v].pc \in Taking => worker'[v].asked = hour'
             /\ worker'[v].pc = "asked" => \A id \in worker'[v].saw : \E r \in runs' : r.id = id /\ Overdue(r.since)'
             /\ worker'[v].pc = "drop" => worker'[v].saw \in LockRows /\ worker'[v].saw.since + StaleAfter < hour'
             /\ worker'[v].pc \in Working => worker'[v].id = worker'[v].asked
    <2>0. hour' = hour
        BY <1>4 DEF Acts, AskRun, Abandon, InsertRun, FinishRun,
            AskBuild, DropLock, AddLock, BeginBuild, Place, Refresh, PruneBuilds, Release, Crash
    <2>2. v # w => worker'[v] = worker[v]
        BY <1>4, ActsMove DEF IInv, Goes
    <2>3. CASE v # w
        <3>1. worker'[v] = worker[v]
            BY <2>2, <2>3
        <3>2. worker[v].pc = "asked" => \A id \in worker[v].saw : \E r \in runs' : r.id = id /\ r.since + StaleAfter < hour
            BY <1>0, <1>1 DEF Overdue
        <3> QED BY <1>0, <2>0, <3>1, <3>2 DEF Overdue
    <2>4. CASE v = w
        <3> DEFINE Sound == /\ worker'[w].asked <= hour
                            /\ worker'[w].pc \in Taking => worker'[w].asked = hour
                            /\ worker'[w].pc \in Working => worker'[w].id = worker'[w].asked
                            /\ worker'[w].pc = "drop" => worker'[w].saw \in LockRows /\ Overdue(worker'[w].saw.since)
                            /\ worker'[w].pc = "asked" => \A id \in worker'[w].saw : \E r \in runs : r.id = id /\ Overdue(r.since)
        <3>0. TypeOK
            BY DEF IInv
        <3>1. ASSUME AskRun(w) PROVE Sound
            <4>1. Goes(w, [pc |-> "asked", saw |-> {r.id : r \in {s \in runs : s.locked /\ Overdue(s.since)}},
                         asked |-> hour, since |-> 0, id |-> 0])
                BY <3>0, <3>1, Moves
            <4> QED BY <1>0, <3>1, <4>1 DEF Goes, Taking, Working, AskRun
        <3>2. ASSUME Abandon(w) PROVE Sound
            <4>1. Goes(w, On(w, "insert", Nothing, worker[w].since, worker[w].id))
                BY <3>0, <3>2, Moves
            <4>2. worker'[w].pc = "insert" /\ worker'[w].asked = worker[w].asked
                BY <4>1 DEF Goes, On
            <4> QED BY <1>0, <3>2, <4>2 DEF Taking, Working, Abandon
        <3>3. ASSUME InsertRun(w) PROVE Sound
            <4>1. Goes(w, Resting) \/ \E id \in Nat : Goes(w, On(w, "run", worker[w].saw, worker[w].since, id))
                BY <3>0, <3>3, Moves
            <4>2. worker'[w].pc \in {"rest", "run"} /\ worker'[w].asked \in {0, worker[w].asked}
                <5>1. CASE Goes(w, Resting)
                    BY <5>1 DEF Goes, Resting
                <5>2. ASSUME NEW id \in Nat, Goes(w, On(w, "run", worker[w].saw, worker[w].since, id))
                      PROVE  worker'[w].pc \in {"rest", "run"} /\ worker'[w].asked \in {0, worker[w].asked}
                    BY <5>2 DEF Goes, On
                <5> QED BY <4>1, <5>1, <5>2
            <4> QED BY <1>0, <3>3, <4>2 DEF Taking, Working, InsertRun
        <3>4. ASSUME \E status \in {"OK", "ERROR"}, again \in BOOLEAN : FinishRun(w, status, again) PROVE Sound
            <4>1. worker'[w].pc = "rest" /\ worker'[w].asked = 0
                BY <3>0, <3>4, NextPlace
            <4> QED BY <1>0, <4>1 DEF Taking, Working
        <3>5. ASSUME AskBuild(w) PROVE Sound
            <4>1. \/ Goes(w, [pc |-> "add", saw |-> Nothing, asked |-> hour, since |-> 0, id |-> 0])
                  \/ /\ lock # Nothing /\ Overdue(lock.since)
                     /\ Goes(w, [pc |-> "drop", saw |-> lock, asked |-> hour, since |-> 0, id |-> 0])
                BY <3>0, <3>5, Moves
            <4>2. /\ worker'[w].pc \in {"add", "drop"} /\ worker'[w].asked = hour
                  /\ worker'[w].pc = "drop" => lock # Nothing /\ Overdue(lock.since) /\ worker'[w].saw = lock
                BY <4>1 DEF Goes
            <4> QED BY <1>0, <3>0, <4>2 DEF TypeOK, Working
        <3>6. ASSUME DropLock(w) PROVE Sound
            <4>1. Goes(w, On(w, "add", Nothing, worker[w].since, worker[w].id))
                BY <3>0, <3>6, Moves
            <4> QED BY <1>0, <3>6, <4>1 DEF Goes, On, Taking, Working, DropLock
        <3>7. ASSUME AddLock(w) PROVE Sound
            <4>1. Goes(w, Resting) \/ Goes(w, On(w, "held", worker[w].saw, worker[w].since, worker[w].id))
                BY <3>0, <3>7, Moves
            <4> QED BY <1>0, <3>7, <4>1 DEF Goes, On, Resting, Taking, Working, AddLock
        <3>8. ASSUME BeginBuild(w) PROVE Sound
            <4>1. \E start : Goes(w, On(w, "build", worker[w].saw, start, hour))
                BY <3>0, <3>8, Moves
            <4> QED BY <1>0, <3>8, <4>1 DEF Goes, On, Taking, Working, BeginBuild
        <3>9. ASSUME Place(w) PROVE Sound
            <4>1. Goes(w, On(w, "placed", worker[w].saw, worker[w].since, worker[w].id))
                BY <3>0, <3>9, Moves
            <4> QED BY <1>0, <3>9, <4>1 DEF Goes, On, Taking, Working, Place
        <3>10. ASSUME Refresh(w) PROVE Sound
            <4>1. Goes(w, On(w, "prune", worker[w].saw, worker[w].since, worker[w].id))
                BY <3>0, <3>10, Moves
            <4> QED BY <1>0, <3>10, <4>1 DEF Goes, On, Taking, Working, Refresh
        <3>11. ASSUME PruneBuilds(w) PROVE Sound
            <4>1. Goes(w, On(w, "built", worker[w].saw, worker[w].since, worker[w].id))
                BY <3>0, <3>11, Moves
            <4> QED BY <1>0, <3>11, <4>1 DEF Goes, On, Taking, Working, PruneBuilds
        <3>12. ASSUME Release(w) PROVE Sound
            <4>1. Goes(w, Resting)
                BY <3>0, <3>12, Moves
            <4> QED BY <1>0, <3>12, <4>1 DEF Goes, Resting, Taking, Working, Release
        <3>13. ASSUME Crash(w) PROVE Sound
            <4>1. Goes(w, Resting)
                BY <3>0, <3>13, Moves
            <4> QED BY <1>0, <3>13, <4>1 DEF Goes, Resting, Taking, Working, Crash
        <3>14. Sound
            BY <1>4, <3>1, <3>2, <3>3, <3>4, <3>5, <3>6, <3>7, <3>8, <3>9, <3>10, <3>11, <3>12, <3>13 DEF Acts
        <3> QED BY <1>0, <1>1, <2>0, <2>4, <3>14 DEF Overdue
    <2> QED BY <2>3, <2>4
<1> QED BY <1>2, <1>3, <1>4, StepCases

LEMMA RecordedStays ==
    ASSUME IInv, [LocksNext]_lockVars
    PROVE  RunsRecorded'
<1> SUFFICES ASSUME NEW v \in Workers, worker'[v].pc = "run"
             PROVE  \E r \in runs' : /\ r.id = worker'[v].id /\ r.by = v /\ r.since = worker'[v].asked
                                     /\ r.locked \/ Overdue(r.since)'
    BY DEF RunsRecorded, Overdue
<1> DEFINE Recorded == \E r \in runs' : /\ r.id = worker'[v].id /\ r.by = v /\ r.since = worker'[v].asked
                                        /\ r.locked \/ Overdue(r.since)'
<1>0. /\ TypeOK /\ RunsNumbered /\ Steady /\ StaleAfter \in Nat /\ hour \in Nat
      /\ \A r \in runs : r.since \in Nat
    BY RunLocksAssumption DEF IInv, TypeOK, RunRows
\* A run that was going on has its row still, and the row is locked still unless it is overdue.
<1>1. ASSUME worker'[v] = worker[v], hour' = hour \/ hour' = hour + 1,
             \A r \in runs : \E s \in runs' : /\ s.id = r.id /\ s.by = r.by /\ s.since = r.since
                                              /\ r.id = worker[v].id /\ r.by = v /\ ~ Overdue(r.since) => s = r
      PROVE  Recorded
    <2>1. PICK r \in runs : /\ r.id = worker[v].id /\ r.by = v /\ r.since = worker[v].asked
                            /\ r.locked \/ Overdue(r.since)
        BY <1>1 DEF IInv, RunsRecorded
    <2>2. PICK s \in runs' : /\ s.id = r.id /\ s.by = r.by /\ s.since = r.since
                             /\ ~ Overdue(r.since) => s = r
        BY <1>1, <2>1
    <2>3. Overdue(r.since) => Overdue(s.since)'
        BY <1>0, <1>1, <2>2 DEF Overdue
    <2> QED BY <1>1, <2>1, <2>2, <2>3
<1>2. CASE UNCHANGED <<runs, worker>> /\ (hour' = hour \/ hour' = hour + 1)
    BY <1>1, <1>2
<1>3. ASSUME NEW w \in Workers, Acts(w), w # v, runs' = runs, hour' = hour
      PROVE  Recorded
    BY <1>0, <1>1, <1>3, ActsMove DEF Goes
<1>4. ASSUME NEW w \in Workers, Acts(w), w = v, runs' = runs, ~ InsertRun(w)
      PROVE  Recorded
    BY <1>0, <1>4, NextPlace DEF Acts
<1>5. ASSUME NEW w \in Workers, Abandon(w)
      PROVE  Recorded
    <2>1. worker'[v] = worker[v]
        <3>1. Goes(w, On(w, "insert", Nothing, worker[w].since, worker[w].id))
            BY <1>0, <1>5, Moves
        <3> QED BY <3>1 DEF Goes, On
    <2>2. \A id \in worker[w].saw : \E r \in runs : r.id = id /\ Overdue(r.since)
        BY <1>0, <1>5 DEF Steady, Abandon
    <2>3. \A r \in runs : r.id \in worker[w].saw => Overdue(r.since)
        BY <1>0, <2>2 DEF RunsNumbered
    <2>4. hour' = hour
        BY <1>5 DEF Abandon
    <2> QED BY <1>0, <1>1, <1>5, <2>1, <2>3, <2>4, AbandonedRows
<1>6. ASSUME NEW w \in Workers, NEW status \in {"OK", "ERROR"}, NEW again \in BOOLEAN, FinishRun(w, status, again)
      PROVE  Recorded
    <2>1. w # v /\ worker'[v] = worker[v]
        <3>1. Goes(w, Resting)
            BY <1>0, <1>6, Moves
        <3> QED BY <3>1 DEF Goes, Resting
    <2>2. PICK r \in runs : r.id = worker[w].id /\ r.by = w
        BY <1>6 DEF IInv, RunsRecorded, FinishRun
    <2>3. \A q \in runs : q.by = v => q.id # worker[w].id
        BY <1>0, <2>1, <2>2 DEF RunsNumbered
    <2>4. hour' = hour
        BY <1>6 DEF FinishRun
    <2>5. \A q \in runs : \E s \in runs' : /\ s.id = q.id /\ s.by = q.by /\ s.since = q.since
                                           /\ q.id # worker[w].id => s = q
        BY <1>0, <1>6, FinishedRows
    <2>6. \A q \in runs : \E s \in runs' : /\ s.id = q.id /\ s.by = q.by /\ s.since = q.since
                                           /\ q.id = worker[v].id /\ q.by = v /\ ~ Overdue(q.since) => s = q
        BY <2>3, <2>5
    <2> QED BY <1>1, <2>1, <2>4, <2>6
<1>7. ASSUME NEW w \in Workers, InsertRun(w)
      PROVE  Recorded
    <2>1. CASE w = v
        BY <1>0, <1>7, <2>1, InsertedRow
    <2>2. CASE w # v
        <3>1. worker'[v] = worker[v] /\ hour' = hour
            BY <1>0, <1>7, <2>2, Moves DEF Goes, InsertRun
        <3>2. runs \subseteq runs'
            BY <1>0, <1>7, InsertedRow
        <3> QED BY <1>1, <3>1, <3>2
    <2> QED BY <2>1, <2>2
<1>8. \/ UNCHANGED <<runs, worker>> /\ (hour' = hour \/ hour' = hour + 1)
      \/ \E w \in Workers : \/ Acts(w) /\ runs' = runs /\ hour' = hour /\ ~ InsertRun(w)
                            \/ Abandon(w) \/ InsertRun(w)
                            \/ \E status \in {"OK", "ERROR"}, again \in BOOLEAN : FinishRun(w, status, again)
    <2>1. ASSUME NEW w \in Workers, Acts(w)
          PROVE  \/ runs' = runs /\ hour' = hour
                 \/ Abandon(w) \/ InsertRun(w)
                 \/ \E status \in {"OK", "ERROR"}, again \in BOOLEAN : FinishRun(w, status, again)
        BY <2>1 DEF Acts, AskRun, AskBuild, DropLock, AddLock, BeginBuild, Place, Refresh, PruneBuilds, Release, Crash
    <2> QED BY <2>1, StepCases DEF Hour, lockVars
<1> QED BY <1>2, <1>3, <1>4, <1>5, <1>6, <1>7, <1>8

LEMMA DatedStays ==
    ASSUME IInv, [LocksNext]_lockVars
    PROVE  \A f \in dated' : f <= hour'
<1>1. /\ hour \in Nat /\ dated \subseteq Nat /\ \A f \in dated : f <= hour
      /\ \A w \in Workers : worker[w].pc = "build" => worker[w].id <= hour
    BY DEF IInv, TypeOK, WorkerOK, Steady, Working
<1>2. ASSUME NEW w \in Workers, Place(w) PROVE \A f \in dated' : f <= hour'
    BY <1>1, <1>2 DEF Place
<1>3. \/ dated' \subseteq dated /\ (hour' = hour \/ hour' = hour + 1)
      \/ \E w \in Workers : Place(w)
    <2>1. ASSUME NEW w \in Workers, Acts(w), ~ Place(w) PROVE dated' \subseteq dated /\ hour' = hour
        <3>1. CASE PruneBuilds(w)
            BY <3>1 DEF PruneBuilds, Newest
        <3> QED BY <2>1, <3>1 DEF Acts, AskRun, Abandon, InsertRun, FinishRun,
                    AskBuild, DropLock, AddLock, BeginBuild, Refresh, Release, Crash
    <2>2. CASE Hour \/ UNCHANGED lockVars
        BY <2>2 DEF Hour, lockVars
    <2>3. CASE \E w \in Workers : Acts(w)
        BY <2>1, <2>3
    <2>4. (\E w \in Workers : Acts(w)) \/ (Hour \/ UNCHANGED lockVars)
        BY StepCases
    <2> QED BY <2>2, <2>3, <2>4
<1>4. ASSUME dated' \subseteq dated, hour' = hour \/ hour' = hour + 1, NEW f \in dated' PROVE f <= hour'
    <2>1. f \in Nat /\ f <= hour
        BY <1>1, <1>4
    <2> QED BY <1>1, <1>4, <2>1
<1> QED BY <1>2, <1>3, <1>4

\* Who builds and is not overdue is the holder the lock tells of, as long as no takeover raced.
LEMMA LockStays ==
    ASSUME IInv, [LocksNext]_lockVars, ~ raced'
    PROVE  LockTells' /\ StartsKnown'
<1>0. /\ TypeOK /\ Steady /\ StaleAfter \in Nat /\ hour \in Nat /\ Nothing \notin LockRows
      /\ \A v \in Workers : worker[v].asked \in Nat
    BY RunLocksAssumption DEF IInv, TypeOK, WorkerOK, LockRows
<1>1. ~ raced /\ LockTells /\ StartsKnown
    <2>1. ~ raced
        BY StepCases DEF Acts, lockVars, Hour, AskRun, Abandon, InsertRun, FinishRun,
            AskBuild, DropLock, AddLock, BeginBuild, Place, Refresh, PruneBuilds, Release, Crash
    <2> QED BY <2>1 DEF IInv
<1>2. /\ Building = {v \in Workers : worker[v].pc \in Holding /\ ~ Overdue(worker[v].asked)}
      /\ Building' = {v \in Workers : worker'[v].pc \in Holding /\ ~ (worker'[v].asked + StaleAfter < hour')}
    BY DEF Building, Holding, Working, Overdue
<1>3. \A b \in Building : lock # Nothing /\ lock.by = NameOf[b] /\ lock.since = worker[b].asked
    BY <1>0, <1>1, <1>2 DEF LockTells, LockRows
\* Nobody new holds the lock, and the row stays unless no holder is left that is not overdue.
<1>4. ASSUME \A v \in Workers : worker'[v].pc \in Holding => worker[v].pc \in Holding /\ worker'[v].asked = worker[v].asked,
             hour' = hour \/ hour' = hour + 1,
             Building' \subseteq Building => lock' = lock \/ Building' = {},
             \A f \in dated' : f \in dated \/ \E v \in Workers : worker[v].pc \in Holding /\ worker[v].asked = f
      PROVE  LockTells'
    <2>1. Building' \subseteq Building
        BY <1>0, <1>2, <1>4 DEF Overdue
    <2>2. ASSUME NEW b \in Building'
          PROVE  /\ lock' = [by |-> NameOf[b], since |-> worker'[b].asked]
                 /\ \A v \in Building' : v = b
                 /\ \A v \in Workers : worker'[v].pc \in Holding => worker'[v].asked <= worker'[b].asked
                 /\ \A f \in dated' : f <= worker'[b].asked
        <3>1. b \in Building /\ b \in Workers /\ lock' = lock /\ worker'[b].asked = worker[b].asked
            BY <1>2, <1>4, <2>1, <2>2
        <3>2. /\ lock = [by |-> NameOf[b], since |-> worker[b].asked]
              /\ \A v \in Building : v = b
              /\ \A v \in Workers : worker[v].pc \in Holding => worker[v].asked <= worker[b].asked
              /\ \A f \in dated : f <= worker[b].asked
            BY <1>1, <3>1 DEF LockTells
        <3> QED BY <1>4, <2>1, <3>1, <3>2
    <2> QED BY <2>2 DEF LockTells
\* Steps that leave the build's lock alone.
<1>5. ASSUME NEW w \in Workers, worker'[w].pc \notin Holding, \A v \in Workers : v = w \/ worker'[v] = worker[v],
             UNCHANGED <<hour, lock, dated>>
      PROVE  LockTells' /\ StartsKnown'
    <2>1. LockTells'
        BY <1>4, <1>5
    <2>2. StartsKnown'
        BY <1>1, <1>5 DEF StartsKnown, Holding
    <2> QED BY <2>1, <2>2
<1>6. ASSUME NEW w \in Workers, AskRun(w) \/ Abandon(w) \/ AskBuild(w) \/ Crash(w)
      PROVE  LockTells' /\ StartsKnown'
    <2>1. worker'[w].pc \notin Holding /\ \A v \in Workers : v = w \/ worker'[v] = worker[v]
        BY <1>0, <1>6, NextPlace DEF Acts, Holding, Working
    <2> QED BY <1>5, <1>6, <2>1 DEF AskRun, Abandon, AskBuild, Crash
<1>7. ASSUME NEW w \in Workers, InsertRun(w)
      PROVE  LockTells' /\ StartsKnown'
    <2>1. worker'[w].pc \notin Holding /\ \A v \in Workers : v = w \/ worker'[v] = worker[v]
        BY <1>0, <1>7, NextPlace DEF Acts, Holding, Working
    <2> QED BY <1>5, <1>7, <2>1 DEF InsertRun
<1>8. ASSUME NEW w \in Workers, NEW status, NEW again, FinishRun(w, status, again)
      PROVE  LockTells' /\ StartsKnown'
    <2>1. worker'[w].pc \notin Holding /\ \A v \in Workers : v = w \/ worker'[v] = worker[v]
        <3>1. Goes(w, Resting)
            BY <1>0, <1>8, Moves
        <3> QED BY <3>1 DEF Goes, Resting, Holding, Working
    <2> QED BY <1>5, <1>8, <2>1 DEF FinishRun
\* The row a takeover removes is the overdue one it read, so nobody who is not overdue holds the lock.
<1>9. ASSUME NEW w \in Workers, DropLock(w)
      PROVE  LockTells' /\ StartsKnown'
    <2>1. worker'[w].pc \notin Holding /\ \A v \in Workers : v = w \/ worker'[v] = worker[v]
        <3>1. Goes(w, On(w, "add", Nothing, worker[w].since, worker[w].id))
            BY <1>0, <1>9, Moves
        <3> QED BY <3>1 DEF Goes, On, Holding, Working
    <2>2. Overdue(worker[w].saw.since) /\ lock \in {Nothing, worker[w].saw}
        BY <1>0, <1>9 DEF Steady, DropLock
    <2>3. Building = {}
        BY <1>2, <1>3, <2>2
    <2>4. LockTells'
        BY <1>4, <1>9, <2>1, <2>3 DEF DropLock
    <2>5. StartsKnown'
        BY <1>1, <2>1 DEF StartsKnown, Holding
    <2> QED BY <2>4, <2>5
<1>10. ASSUME NEW w \in Workers, AddLock(w)
       PROVE  LockTells' /\ StartsKnown'
    <2>1. UNCHANGED <<hour, dated>>
        BY <1>10 DEF AddLock
    <2>2. CASE lock # Nothing /\ lock' = lock /\ Goes(w, Resting)
        <3>1. worker'[w].pc \notin Holding /\ \A v \in Workers : v = w \/ worker'[v] = worker[v]
            BY <2>2 DEF Goes, Resting, Holding, Working
        <3> QED BY <1>5, <2>1, <2>2, <3>1
    <2>3. CASE /\ lock = Nothing /\ lock' = [by |-> NameOf[w], since |-> worker[w].asked]
               /\ Goes(w, On(w, "held", worker[w].saw, worker[w].since, worker[w].id))
        <3>1. /\ worker'[w].pc = "held" /\ worker'[w].asked = worker[w].asked
              /\ \A v \in Workers : v = w \/ worker'[v] = worker[v]
            BY <2>3 DEF Goes, On
        <3>2. worker[w].asked = hour
            BY <1>0, <1>10 DEF Steady, Taking, AddLock
        <3>3. Building = {}
            BY <1>3, <2>3
        <3>4. \A b \in Building' : b = w
            BY <1>2, <2>1, <3>1, <3>3 DEF Overdue
        <3>5. \A v \in Workers : worker'[v].asked <= hour
            BY <1>0, <3>1 DEF Steady
        <3>6. \A f \in dated' : f <= hour
            BY <2>1 DEF IInv
        <3>7. LockTells'
            BY <1>2, <2>3, <3>1, <3>2, <3>4, <3>5, <3>6 DEF LockTells
        <3>8. StartsKnown'
            BY <1>1, <3>1 DEF StartsKnown, Working
        <3> QED BY <3>7, <3>8
    <2> QED BY <1>0, <1>10, <2>2, <2>3, Moves
\* A build reads its start from the row it took in the same hour.
<1>11. ASSUME NEW w \in Workers, BeginBuild(w)
       PROVE  LockTells' /\ StartsKnown'
    <2>1. worker[w].pc = "held" /\ worker[w].asked = hour /\ UNCHANGED <<hour, lock, dated>>
        BY <1>0, <1>11 DEF Steady, Taking, BeginBuild
    <2>2. w \in Building
        BY <1>0, <1>2, <2>1 DEF Holding, Overdue
    <2>3. lock # Nothing /\ lock.by = NameOf[w] /\ lock.since = worker[w].asked
        BY <1>3, <2>2
    <2>4. /\ worker'[w].pc = "build" /\ worker'[w].asked = worker[w].asked /\ worker'[w].since = worker[w].asked
          /\ \A v \in Workers : v = w \/ worker'[v] = worker[v]
        <3>1. Goes(w, On(w, "build", worker[w].saw, worker[w].asked, hour))
            BY <1>0, <1>11, <2>3, Moves
        <3> QED BY <3>1 DEF Goes, On
    <2>5. LockTells'
        BY <1>4, <2>1, <2>4 DEF Holding
    <2>6. StartsKnown'
        BY <1>1, <2>4 DEF StartsKnown
    <2> QED BY <2>5, <2>6
<1>12. ASSUME NEW w \in Workers, Place(w) \/ Refresh(w) \/ PruneBuilds(w)
       PROVE  LockTells' /\ StartsKnown'
    <2>1. worker[w].pc \in Working /\ UNCHANGED <<hour, lock>>
        BY <1>12 DEF Working, Place, Refresh, PruneBuilds
    <2>2. /\ worker'[w].pc \in Working /\ worker'[w].asked = worker[w].asked /\ worker'[w].since = worker[w].since
          /\ \A v \in Workers : v = w \/ worker'[v] = worker[v]
        <3>1. \E pc \in {"placed", "prune", "built"} : Goes(w, On(w, pc, worker[w].saw, worker[w].since, worker[w].id))
            BY <1>0, <1>12, Moves
        <3> QED BY <3>1 DEF Goes, On, Working
    <2>3. worker[w].id = worker[w].asked
        BY <1>0, <2>1 DEF Steady
    <2>4. \A f \in dated' : f \in dated \/ f = worker[w].asked
        BY <1>12, <2>3 DEF Place, Refresh, PruneBuilds, Newest
    <2>5. LockTells'
        BY <1>4, <2>1, <2>2, <2>4 DEF Holding
    <2>6. StartsKnown'
        BY <1>1, <2>1, <2>2 DEF StartsKnown
    <2> QED BY <2>5, <2>6
\* Who removes the row by its own name and start is the holder itself.
<1>13. ASSUME NEW w \in Workers, Release(w)
       PROVE  LockTells' /\ StartsKnown'
    <2>1. worker[w].pc \in Working /\ UNCHANGED <<hour, dated>>
        BY <1>13 DEF Working, Release
    <2>2. worker'[w].pc \notin Holding /\ \A v \in Workers : v = w \/ worker'[v] = worker[v]
        <3>1. Goes(w, Resting)
            BY <1>0, <1>13, Moves
        <3> QED BY <3>1 DEF Goes, Resting, Holding, Working
    <2>3. ASSUME lock # Nothing, Mine(w), NEW b \in Building, b # w PROVE FALSE
        <3>1. worker[w].asked = worker[b].asked
            BY <1>1, <1>3, <2>1, <2>3 DEF Mine, StartsKnown
        <3>2. w \in Building
            BY <1>2, <2>1, <2>3, <3>1 DEF Holding
        <3> QED BY <1>1, <2>3, <3>2 DEF LockTells
    <2>4. w \notin Building'
        BY <1>2, <2>2
    <2>5. Building' \subseteq Building => lock' = lock \/ Building' = {}
        BY <1>13, <2>3, <2>4 DEF Release
    <2>6. LockTells'
        BY <1>4, <2>1, <2>2, <2>5
    <2>7. StartsKnown'
        BY <1>1, <2>2 DEF StartsKnown, Holding
    <2> QED BY <2>6, <2>7
<1>14. CASE UNCHANGED <<lock, dated, worker>> /\ (hour' = hour \/ hour' = hour + 1)
    <2>1. LockTells'
        BY <1>4, <1>14
    <2>2. StartsKnown'
        BY <1>1, <1>14 DEF StartsKnown
    <2> QED BY <2>1, <2>2
<1> QED BY <1>6, <1>7, <1>8, <1>9, <1>10, <1>11, <1>12, <1>13, <1>14, StepCases DEF Acts, Hour, lockVars

LEMMA LatestStays ==
    ASSUME IInv, [LocksNext]_lockVars
    PROVE  LatestIsNewest'
<1> SUFFICES ASSUME ~ raced', ~ behind', NEW f \in dated'
             PROVE  \/ latest' # Nothing /\ f <= latest'
                    \/ \E w \in Workers : worker'[w].pc = "placed" /\ worker'[w].id = f
    BY DEF LatestIsNewest
<1> DEFINE Served == \/ latest' # Nothing /\ f <= latest'
                     \/ \E w \in Workers : worker'[w].pc = "placed" /\ worker'[w].id = f
<1>0. TypeOK /\ Steady /\ LatestIsNewest /\ Nothing \notin Nat
    BY RunLocksAssumption DEF IInv
<1>1. ~ raced
    BY StepCases DEF Acts, lockVars, Hour, AskRun, Abandon, InsertRun, FinishRun,
        AskBuild, DropLock, AddLock, BeginBuild, Place, Refresh, PruneBuilds, Release, Crash
<1>2. ASSUME ~ behind, latest' = latest, f \in dated,
             \A w \in Workers : worker[w].pc = "placed" => worker'[w] = worker[w]
      PROVE  Served
    BY <1>0, <1>1, <1>2 DEF LatestIsNewest
<1>3. CASE UNCHANGED <<behind, latest, dated, worker>>
    BY <1>2, <1>3
<1>4. ASSUME NEW w \in Workers, Acts(w), ~ Refresh(w), ~ Place(w)
      PROVE  Served
    <2>1. ~ behind /\ latest' = latest /\ f \in dated /\ worker[w].pc # "placed"
        <3>1. CASE PruneBuilds(w)
            BY <3>1 DEF PruneBuilds, Newest
        <3>2. CASE Release(w) \/ Crash(w)
            BY <3>2 DEF Release, Crash
        <3>3. CASE AskRun(w)
            BY <3>3 DEF AskRun
        <3>7. CASE Abandon(w)
            BY <3>7 DEF Abandon
        <3>6. ASSUME NEW status, NEW again, FinishRun(w, status, again)
              PROVE  ~ behind /\ latest' = latest /\ f \in dated /\ worker[w].pc # "placed"
            BY <3>6 DEF FinishRun
        <3>5. CASE InsertRun(w)
            BY <3>5 DEF InsertRun
        <3>4. CASE AskBuild(w) \/ DropLock(w) \/ AddLock(w) \/ BeginBuild(w)
            BY <3>4 DEF AskBuild, DropLock, AddLock, BeginBuild
        <3> QED BY <1>4, <3>1, <3>2, <3>3, <3>4, <3>5, <3>6, <3>7 DEF Acts
    <2>2. \A v \in Workers : v = w \/ worker'[v] = worker[v]
        BY <1>0, <1>4, ActsMove DEF Goes
    <2> QED BY <1>2, <2>1, <2>2
<1>5. ASSUME NEW w \in Workers, Place(w)
      PROVE  Served
    <2>1. /\ worker'[w].pc = "placed" /\ worker'[w].id = worker[w].id
          /\ \A v \in Workers : v = w \/ worker'[v] = worker[v]
        <3>1. Goes(w, On(w, "placed", worker[w].saw, worker[w].since, worker[w].id))
            BY <1>0, <1>5, Moves
        <3> QED BY <3>1 DEF Goes, On
    <2>2. ~ behind /\ latest' = latest /\ (f \in dated \/ f = worker[w].id) /\ worker[w].pc # "placed"
        BY <1>5 DEF Place
    <2> QED BY <1>2, <2>1, <2>2
\* The build that copies its file and is not overdue is the last that took the lock.
<1>6. ASSUME NEW w \in Workers, Refresh(w)
      PROVE  Served
    <2>1. worker[w].pc = "placed" /\ latest' = worker[w].id /\ dated' = dated /\ ~ Overdue(worker[w].asked)
        BY <1>6 DEF Refresh
    <2>2. w \in Building
        BY <2>1 DEF Building
    <2>3. f <= worker[w].asked
        BY <1>1, <2>1, <2>2 DEF IInv, LockTells
    <2>4. worker[w].id = worker[w].asked /\ worker[w].id \in Nat
        BY <1>0, <2>1 DEF Steady, Working, TypeOK, WorkerOK
    <2> QED BY <1>0, <2>1, <2>3, <2>4
<1> QED BY <1>3, <1>4, <1>5, <1>6, StepCases DEF Hour, lockVars

-----------------------------------------------------------------------------
(* Theorems *)

LEMMA Holds == LocksSpec => []IInv
<1>1. LocksInit => IInv
    <2> SUFFICES ASSUME LocksInit PROVE IInv
        OBVIOUS
    <2>1. \A w \in Workers : worker[w] = Resting
        BY DEF LocksInit
    <2>2. TypeOK
        BY <2>1, FS_EmptySet DEF LocksInit, TypeOK, WorkerOK, Resting
    <2>3. RunsNumbered /\ (\A f \in dated : f <= hour) /\ LatestIsNewest
        BY DEF LocksInit, RunsNumbered, LatestIsNewest
    <2>4. Steady /\ RunsRecorded /\ StartsKnown
        BY <2>1 DEF LocksInit, Steady, RunsRecorded, StartsKnown, Resting, Taking, Working
    <2>5. LockTells
        BY <2>1 DEF LockTells, Building, Resting
    <2> QED BY <2>2, <2>3, <2>4, <2>5 DEF IInv
<1>2. IInv /\ [LocksNext]_lockVars => IInv'
    <2> SUFFICES ASSUME IInv, [LocksNext]_lockVars PROVE IInv'
        OBVIOUS
    <2>1. TypeOK' /\ RunsNumbered'
        BY TypeStays, RowsStay DEF IInv
    <2> QED BY <2>1, SteadyStays, RecordedStays, DatedStays, LockStays, LatestStays DEF IInv
<1> QED BY <1>1, <1>2, PTL DEF LocksSpec

\* Sets of at most one worker have at most one member.
LEMMA AtMostOne ==
    ASSUME NEW S, \A v, w \in S : v = w
    PROVE  Cardinality(S) <= 1
<1>1. CASE S = {}
    BY <1>1, FS_EmptySet
<1>2. CASE S # {}
    <2>1. PICK w : w \in S
        BY <1>2
    <2>2. S = {w}
        BY <2>1
    <2>3. Cardinality(S) = 1
        BY <2>2, FS_Singleton
    <2> QED BY <2>3
<1> QED BY <1>1, <1>2

\* The administrator's runs exclude each other, and so do the warehouse's builds, although
\* locks are taken over and late holders report (acquire_pipeline_lock, acquire_lock); what
\* _refresh_latest serves is the newest build.
THEOREM JobsAreInOrder == LocksSpec => []JobsInOrder
<1>1. IInv => JobsInOrder
    <2> SUFFICES ASSUME IInv PROVE JobsInOrder
        OBVIOUS
    <2>1. \A v, w \in Running : v = w
        <3> SUFFICES ASSUME NEW v \in Running, NEW w \in Running PROVE v = w
            OBVIOUS
        <3>1. PICK r \in runs : r.by = v /\ r.locked
            BY DEF IInv, RunsRecorded, Running
        <3>2. PICK s \in runs : s.by = w /\ s.locked
            BY DEF IInv, RunsRecorded, Running
        <3> QED BY <3>1, <3>2 DEF IInv, RunsNumbered
    <2>2. ~ raced => \A v, w \in Building : v = w
        BY DEF IInv, LockTells
    <2> QED BY <2>1, <2>2, AtMostOne DEF JobsInOrder, OneAtATime, IInv
<1> QED BY <1>1, Holds, PTL

-----------------------------------------------------------------------------
(* The search index: the inductive invariant *)

Changes == {"rewritten", "superseded", "ai", "tags"}
IndexDocs == [state : {"absent", "stored", "gone"}, stamp : Nat, id : Nat, text : SUBSET Changes]
IndexRows == (SUBSET Changes) \cup {NoRow}
Marks == [since : Nat \cup {-1}, filing_id : Nat, pending : SUBSET Docs]
Tasks == [on : BOOLEAN, started : Nat, cut : Int, explicit : BOOLEAN, retags : SUBSET Docs, drops : SUBSET Docs]
Works == [at : 1 .. 5, reading : BOOLEAN, mark : Marks, items : SUBSET Docs, read : [Docs -> IndexRows],
          wrote : SUBSET Docs, rows : [Docs -> IndexRows]]

IndexTypeOK ==
    /\ clock \in Nat
    /\ doc \in [Docs -> IndexDocs]
    /\ open \subseteq [doc : Docs, stamp : Nat, id : Nat]
    /\ index \in [Docs -> IndexRows] /\ watermark \in Marks
    /\ run \in [Runners -> Tasks] /\ work \in [Runners -> Works]
    /\ saw \in [Runners -> SUBSET Docs]
    /\ due \subseteq Docs /\ crossed \subseteq Runners /\ excused \subseteq Docs

\* When a kind is read: its place in Order.
Turn(d) == IF Kind[d] = "disclosure" THEN 1 ELSE IF Kind[d] = "filing" THEN 2 ELSE IF Kind[d] = "news" THEN 3 ELSE 4

Stamped ==
    /\ \A d \in Docs : Stored(d) => doc[d].stamp <= clock
    /\ \A o \in open : o.stamp <= clock /\ clock <= o.stamp + OpenFor
    /\ \A o \in open : Stored(o.doc) => doc[o.doc].stamp <= o.stamp
    /\ \A o, p \in open : o.doc = p.doc => o = p
    /\ watermark.since <= clock

\* A run keeps to its time; of two runs, the one a commit did not cross is the younger.
Timed ==
    /\ \A r \in Runners : run[r].on => run[r].started <= clock /\ clock <= run[r].started + RunFor
    /\ \A r \in Runners : ~ run[r].on => run[r] = NoRun /\ work[r] = Idle(NoMark, {}) /\ saw[r] = {} /\ r \notin crossed
    /\ \A r, q \in Runners : run[r].on /\ run[q].on /\ r \in crossed /\ q \notin crossed => run[r].started <= run[q].started

\* A filing that is not committed yet is above every mark it may still be compared with,
\* or below a filing that is visible.
Reached(n) == n = 0 \/ \E e \in Docs : Kind[e] = "filing" /\ Stored(e) /\ doc[e].id = n

FilingsNumbered ==
    /\ \A d \in Docs : Stored(d) => doc[d].id > 0
    /\ \A o \in open : o.id > 0 /\ \A d \in Docs : Stored(d) => doc[d].id # o.id
    /\ \A o, p \in open : o.id = p.id => o = p
    /\ Reached(watermark.filing_id) /\ \A r \in Runners : Reached(work[r].mark.filing_id)
    /\ \E n \in Nat : (\A o \in open : o.id <= n) /\ \A d \in Docs : doc[d].id <= n

\* Parents are there before their corrections; only headlines go.
Families ==
    /\ \A d \in Docs : Stored(d) => Stored(Corrects[d])
    /\ \A o \in open : Corrects[o.doc] # o.doc => Stored(Corrects[o.doc])
    /\ \A o \in open : doc[o.doc].state = "absent" \/ (Kind[o.doc] = "note" /\ Stored(o.doc))
    /\ \A d \in Docs : doc[d].state = "gone" => Kind[d] = "news"

\* Rows are of documents that were stored, and two runs do not hold the same.
RowsHeld ==
    /\ \A d \in Docs : doc[d].state = "absent" =>
          index[d] = NoRow /\ \A r \in Runners : d \notin work[r].items /\ d \notin work[r].wrote
    /\ \A r, q \in Runners : r # q => (work[r].wrote \cup run[r].retags) \cap (work[q].wrote \cup run[q].retags) = {}

\* A run's retags are headlines of its window.
Retagged ==
    \A r \in Runners :
       /\ run[r].drops \subseteq run[r].retags
       /\ \A d \in run[r].retags : Kind[d] = "news" /\ Stored(d) /\ doc[d].stamp >= run[r].cut

\* The documents a run has read are of the kind whose turn it is.
Handed ==
    \A r \in Runners :
       /\ work[r].reading => work[r].items = {}
       /\ ~ work[r].reading => work[r].at <= 4
       /\ \A d \in work[r].items : Turn(d) = work[r].at
       /\ work[r].at = 3 /\ ~ work[r].reading => run[r].retags \ run[r].drops \subseteq work[r].items

\* Stamped at x or later; a filing's id counts instead of its stamp.
Late(d, x) == Kind[d] # "filing" /\ StampedSince(d, x)

\* The AI pass has tagged a headline, or has been given up for it.
Settled(d) == Kind[d] = "news" => "ai" \in doc[d].text \/ doc[d].stamp < clock - PendingFor

Awaited(d, pending) == Kind[d] = "news" /\ d \in pending

Above(d, filing_id) == Kind[d] = "filing" /\ doc[d].id > filing_id

\* What a run has still to read.
Ahead(r, d) ==
    /\ work[r].at < Turn(d) \/ (work[r].at = Turn(d) /\ work[r].reading)
    /\ Late(d, run[r].cut) \/ Awaited(d, work[r].mark.pending) \/ Above(d, work[r].mark.filing_id)

Passed(r, d) == work[r].at > Turn(d)

\* The rows a full rebuild dropped are written again.
Rebuilt ==
    \A r \in Runners : \A d \in work[r].wrote : ~ Passed(r, d) =>
       work[r].rows[d] = NoRow /\ (Seen(r, d) => Ahead(r, d) \/ d \in work[r].items)

\* What the next run will not read is in the index.
IndexCurrent ==
    \A d \in Docs \ excused : Stored(d) =>
       \/ index[d] = doc[d].text /\ Settled(d)
       \/ Late(d, Cut(watermark))
       \/ Awaited(d, watermark.pending)
       \/ Above(d, watermark.filing_id)

\* What the run after this one will not read either: this one has it, or will have it, in
\* its rows.
RunCovers(r, d) ==
    \/ Row(r, d) = Text(r, d) /\ Settled(d)
    \/ Late(d, run[r].started - Slack)
    \/ Awaited(d, work[r].mark.pending)
    \/ r \in crossed /\ Awaited(d, watermark.pending)
    \/ Ahead(r, d)
    \/ d \in work[r].items
    \/ Above(d, work[r].mark.filing_id)

RunsCover == \A r \in Runners : \A d \in Docs \ excused : run[r].on /\ Seen(r, d) => RunCovers(r, d)

\* What a run has read, and the rows it has written, are true, or will be read again.
ReadTrue ==
    \A r \in Runners : \A d \in work[r].items \ excused : Seen(r, d) =>
       \/ work[r].read[d] = Text(r, d) /\ Settled(d)
       \/ Late(d, run[r].started - OpenFor)
       \/ Awaited(d, work[r].mark.pending)

WrittenTrue ==
    \A r \in Runners : \A d \in (work[r].wrote \cup run[r].retags) \ excused : Passed(r, d) /\ Seen(r, d) =>
       \/ Row(r, d) = Text(r, d) /\ Settled(d)
       \/ Late(d, run[r].started - OpenFor)
       \/ Awaited(d, work[r].mark.pending)

\* What a run found stored when it started alone, and has not changed since: any run that
\* has read or written it has it right, and this one has it or will have it in its rows.
SawFresh ==
    \A r, q \in Runners : \A d \in saw[r] :
       /\ doc[d].state # "absent"
       /\ d \in work[q].items => Seen(q, d) /\ work[q].read[d] = Text(q, d)
       /\ d \in work[q].wrote /\ Passed(q, d) => work[q].rows[d] = IF Seen(q, d) THEN Text(q, d) ELSE NoRow

SawCovered ==
    \A r \in Runners : \A d \in saw[r] \ excused :
       /\ Seen(r, d) => Row(r, d) = Text(r, d) \/ Ahead(r, d) \/ d \in work[r].items
       /\ ~ Seen(r, d) => Row(r, d) = NoRow \/ work[r].at <= 3

IndexShape == IndexTypeOK /\ Stamped /\ Timed /\ FilingsNumbered /\ Families /\ RowsHeld /\ Retagged /\ Handed

IndexInv ==
    /\ IndexShape /\ Rebuilt /\ IndexCurrent /\ RunsCover /\ ReadTrue /\ WrittenTrue
    /\ SawFresh /\ SawCovered /\ IndexFollows

IndexStep == [IndexNext]_indexVars

-----------------------------------------------------------------------------
(* Operators *)

LEMMA IndexConstants ==
    /\ OpenFor \in Nat /\ RunFor \in Nat /\ Slack \in Nat /\ PendingFor \in Nat /\ Reread \in Nat
    /\ OpenFor + RunFor <= Slack
    /\ \A d \in Docs : Corrects[d] \in Docs /\ Kind[d] \in {"disclosure", "filing", "news", "note"}
    /\ \A d \in Docs : Corrects[d] # d => Kind[d] = "disclosure" /\ Kind[Corrects[d]] = "disclosure"
BY SearchIndexAssumption

\* Numbers below a bound have a greatest one.
LEMMA GreatestBelow ==
    ASSUME NEW n \in Nat, NEW S \in SUBSET (0 .. n), S # {}
    PROVE  Max(S) \in S /\ \A x \in S : x <= Max(S)
<1>1. IsFiniteSet(0 .. n)
  BY FS_Interval
<1>2. IsFiniteSet(S)
  BY ONLY <1>1, FS_Subset, S \in SUBSET (0 .. n)
<1>3. S \in SUBSET Nat
  OBVIOUS
<1> DEFINE Over(x) == {y \in S : y > x}
           T == {Over(x) : x \in S}
<1>4. IsWellFoundedOn(StrictSubsetOrdering(S), SUBSET S)
  <2>1. FiniteSubsetsOf(S) = SUBSET S
    BY ONLY <1>2, FS_FiniteSubsetsOfFinite
  <2>2. IsWellFoundedOn(StrictSubsetOrdering(S), FiniteSubsetsOf(S))
    BY ONLY FS_StrictSubsetOrderingWellFounded
  <2> QED BY ONLY <2>1, <2>2
<1>5. T \subseteq SUBSET S /\ T # {}
  BY ONLY S # {}
<1>6. PICK U \in T : \A V \in T : <<V, U>> \notin StrictSubsetOrdering(S)
  <2> HIDE DEF T
  <2> QED BY <1>4, <1>5, WFMin
<1>7. PICK x \in S : U = Over(x)
  BY <1>6
<1>8. ASSUME NEW y \in S, y > x PROVE FALSE
  <2> x \in Nat /\ y \in Nat /\ \A z \in S : z \in Nat
    BY <1>3
  <2>0. \A z \in S : z > y => z > x
    BY <1>8
  <2>1. Over(y) \subseteq Over(x) /\ y \in Over(x) /\ y \notin Over(y)
    <3>1. Over(y) \subseteq Over(x)
      BY <2>0
    <3>2. y \in Over(x)
      BY <1>8
    <3>3. ~ (y > y)
      OBVIOUS
    <3>4. y \notin Over(y)
      BY <3>3
    <3> QED BY ONLY <3>1, <3>2, <3>4
  <2>2. <<Over(y), U>> \in StrictSubsetOrdering(S)
    BY <1>7, <2>1 DEF StrictSubsetOrdering
  <2> QED BY <1>6, <2>2
<1>9. \A y \in S : y <= x
  BY <1>3, <1>8
<1>10. x \in S /\ \A y \in S : x >= y
  BY <1>3, <1>9
<1> QED BY <1>3, <1>10 DEF Max

\* A kind's place in the order.
LEMMA TurnOf ==
    ASSUME NEW d \in Docs
    PROVE  Turn(d) \in 1 .. 4 /\ \A n \in 1 .. 4 : Order[n] = Kind[d] <=> n = Turn(d)
<1>1. Kind[d] \in {"disclosure", "filing", "news", "note"}
  BY IndexConstants
<1>2. Order[1] = "disclosure" /\ Order[2] = "filing" /\ Order[3] = "news" /\ Order[4] = "note"
  BY DEF Order
<1> QED BY <1>1, <1>2 DEF Turn

\* The documents a run reads in a kind's turn.
LEMMA SelectedAre ==
    ASSUME IndexTypeOK, Retagged, Families, NEW r \in Runners, NEW n \in 1 .. 4
    PROVE  /\ Selected(r, Order[n]) \subseteq {d \in Docs : Turn(d) = n /\ Seen(r, d)}
           /\ \A d \in Docs : Turn(d) = n /\ Seen(r, d) /\ Late(d, run[r].cut) => d \in Selected(r, Order[n])
           /\ \A d \in Docs : Turn(d) = n /\ Seen(r, d) /\ Awaited(d, work[r].mark.pending) => d \in Selected(r, Order[n])
           /\ \A d \in Docs : Turn(d) = n /\ Seen(r, d) /\ Above(d, work[r].mark.filing_id) => d \in Selected(r, Order[n])
<1>1. \A d \in Docs : Order[n] = Kind[d] <=> n = Turn(d)
  BY TurnOf
<1>2. \A d \in Docs : Kind[d] = "disclosure" => d \notin run[r].drops
  BY DEF Retagged, IndexTypeOK
<1>3. \A d \in Docs : Stored(d) => Stored(Corrects[d])
  BY DEF Families
<1> DEFINE all == {d \in Docs : Kind[d] = Order[n] /\ Seen(r, d)}
           stamped == {d \in all : doc[d].stamp >= run[r].cut}
<1>4. CASE n = 1
  <2>1. Order[n] = "disclosure"
    BY <1>4 DEF Order
  <2>2. Selected(r, Order[n]) = stamped \cup Parents(stamped)
    BY <2>1 DEF Selected
  <2>3. \A d \in stamped : Corrects[d] \in Docs /\ Kind[Corrects[d]] = "disclosure" /\ Seen(r, Corrects[d])
    BY <2>1, <1>2, <1>3, IndexConstants DEF Seen
  <2>4. Selected(r, Order[n]) \subseteq {d \in Docs : Turn(d) = n /\ Seen(r, d)}
    BY <2>1, <2>2, <2>3, <1>1 DEF Parents
  <2>5. ASSUME NEW d \in Docs, Turn(d) = n, Seen(r, d), Late(d, run[r].cut) PROVE d \in Selected(r, Order[n])
    <3>1. PICK e \in Docs : Stored(e) /\ (e = d \/ Corrects[e] = d) /\ doc[e].stamp >= run[r].cut
      BY <2>5 DEF Late, StampedSince
    <3>2. Kind[e] = "disclosure" /\ Seen(r, e)
      BY <3>1, <2>1, <2>5, <1>1, <1>2, IndexConstants DEF Seen
    <3>3. e \in stamped
      BY <3>1, <3>2, <2>1
    <3> QED BY <3>1, <3>3, <2>2 DEF Parents
  <2> QED BY <2>1, <2>4, <2>5, <1>1 DEF Awaited, Above
<1>5. CASE n # 1
  <2>1. \A d \in Docs : Turn(d) = n /\ Late(d, run[r].cut) => doc[d].stamp >= run[r].cut
    BY <1>5, IndexConstants, TurnOf DEF Late, StampedSince, Turn
  <2>2. Order[n] \in {"filing", "news", "note"} /\ Order[n] # "disclosure"
    BY <1>5 DEF Order
  <2>3. CASE Order[n] = "filing"
    BY <2>3, <1>1 DEF Selected, Late, Awaited, Above
  <2>4. CASE Order[n] = "news"
    BY <2>4, <2>1, <1>1 DEF Selected, Awaited, Above
  <2>5. CASE Order[n] = "note"
    BY <2>5, <2>1, <1>1 DEF Selected, Awaited, Above
  <2> QED BY <2>2, <2>3, <2>4, <2>5
<1> QED BY <1>4, <1>5

\* A mark moves up to the highest id read.
HighestRead(r, S) == Max({work[r].mark.filing_id} \cup {doc[d].id : d \in S})

LEMMA MarkMoves ==
    ASSUME IndexTypeOK, FilingsNumbered, NEW r \in Runners, NEW S \in SUBSET Docs
    PROVE  /\ HighestRead(r, S) \in Nat
           /\ HighestRead(r, S) = work[r].mark.filing_id \/ \E d \in S : HighestRead(r, S) = doc[d].id
<1>1. PICK n \in Nat : \A d \in Docs : doc[d].id <= n
  BY DEF FilingsNumbered
<1>2. \A d \in Docs : doc[d].id \in Nat
  BY DEF IndexTypeOK, IndexDocs
<1>3. work[r].mark.filing_id \in Nat
  BY DEF IndexTypeOK, Works, Marks
<1>4. work[r].mark.filing_id = 0 \/ \E e \in Docs : doc[e].id = work[r].mark.filing_id
  BY DEF FilingsNumbered, Reached
<1>5. work[r].mark.filing_id \in 0 .. n
  BY <1>1, <1>2, <1>3, <1>4
<1> DEFINE A == {work[r].mark.filing_id} \cup {doc[d].id : d \in S}
<1>6. A \in SUBSET (0 .. n) /\ A # {}
  BY <1>1, <1>2, <1>5
<1>7. Max(A) \in A /\ \A x \in A : x <= Max(A)
  <2> HIDE DEF A
  <2> QED BY <1>6, GreatestBelow
<1> QED BY <1>2, <1>3, <1>7 DEF HighestRead

\* The next id is above all there are.
LEMMA IdMoves ==
    ASSUME IndexTypeOK, FilingsNumbered, NEW m,
           m = Max({0} \cup {o.id : o \in open} \cup {doc[e].id : e \in {e \in Docs : Stored(e)}})
    PROVE  /\ m \in Nat /\ \A o \in open : o.id <= m
           /\ \A d \in Docs : Stored(d) => doc[d].id <= m
           /\ \E n \in Nat : m <= n /\ (\A o \in open : o.id <= n) /\ \A d \in Docs : doc[d].id <= n
<1>1. PICK n \in Nat : (\A o \in open : o.id <= n) /\ \A d \in Docs : doc[d].id <= n
  BY DEF FilingsNumbered
<1>2. (\A d \in Docs : doc[d].id \in Nat) /\ \A o \in open : o.id \in Nat
  BY DEF IndexTypeOK, IndexDocs
<1> DEFINE A == {0} \cup {o.id : o \in open} \cup {doc[e].id : e \in {e \in Docs : Stored(e)}}
<1>3. A \in SUBSET (0 .. n) /\ A # {}
  BY <1>1, <1>2
<1>4. Max(A) \in A /\ \A x \in A : x <= Max(A)
  <2> HIDE DEF A
  <2> QED BY <1>3, GreatestBelow
<1>5. m \in 0 .. n
  BY <1>3, <1>4
<1>6. \A o \in open : o.id \in A
  OBVIOUS
<1>7. \A d \in Docs : Stored(d) => doc[d].id \in A
  OBVIOUS
<1>8. m = Max(A)
  OBVIOUS
<1>9. \A x \in A : x <= m
  BY <1>4, <1>8
<1> HIDE DEF A
<1>10. m \in Nat /\ m <= n
  BY <1>5
<1> QED BY ONLY <1>1, <1>6, <1>7, <1>9, <1>10

\* What each step of a run does to it.
LEMMA Beginning ==
    ASSUME IndexTypeOK, NEW r \in Runners, Incremental(r) \/ Full(r) \/ Reapply(r)
    PROVE  /\ ~ run[r].on /\ run'[r].on /\ run'[r].started = clock
           /\ run' \in [Runners -> Tasks] /\ work' \in [Runners -> Works] /\ saw' \in [Runners -> SUBSET Docs]
           /\ work'[r].at = 1 /\ work'[r].reading /\ work'[r].items = {} /\ \A d \in Docs : work'[r].rows[d] = NoRow
           /\ \A q \in Runners \ {r} : run'[q] = run[q] /\ work'[q] = work[q] /\ saw'[q] = saw[q]
           /\ saw'[r] = {} \/ (saw'[r] = {d \in Docs : doc[d].state # "absent"} /\ \A q \in Runners : ~ run[q].on)
           /\ UNCHANGED <<clock, doc, open, index, watermark, due, crossed>>
           /\ excused \subseteq excused' /\ excused' \subseteq Docs
           /\ \A d \in run'[r].retags : Kind[d] = "news" /\ Stored(d) /\ doc[d].stamp >= run'[r].cut
           /\ run'[r].drops \subseteq run'[r].retags
           /\ \A q \in Runners \ {r} : (work'[r].wrote \cup run'[r].retags) \cap (work[q].wrote \cup run[q].retags) = {}
           /\ \A d \in work'[r].wrote : index[d] # NoRow
           /\ \/ /\ work'[r].mark = watermark /\ work'[r].wrote = {}
                 /\ \/ run'[r].cut = Cut(watermark) /\ run'[r].retags = {}
                    \/ \A d \in Docs \ excused' : Stored(d) /\ Late(d, Cut(watermark)) => Late(d, run'[r].cut)
              \/ /\ work'[r].mark = NoMark /\ run'[r].cut = -1 /\ run'[r].retags = {}
                 /\ work'[r].wrote = {d \in Docs : index[d] # NoRow}
<1>1. clock \in Nat /\ Cut(watermark) \in Int /\ watermark \in Marks /\ NoMark \in Marks /\ Reread \in Nat /\ clock - Reread \in Int
  BY IndexConstants DEF IndexTypeOK, Cut, Marks, NoMark
<1>2. ASSUME NEW m \in Marks, NEW w \in SUBSET Docs PROVE Idle(m, w) \in Works
  <2>1. [d \in Docs |-> NoRow] \in [Docs -> IndexRows]
    BY DEF IndexRows
  <2>2. 1 \in 1 .. 5 /\ TRUE \in BOOLEAN /\ {} \in SUBSET Docs
    OBVIOUS
  <2> QED BY <2>1, <2>2 DEF Idle, Works
<1> DEFINE S == {d \in Docs : doc[d].state # "absent"}
<1>3. ASSUME NEW t \in Tasks, NEW w \in Works,
             run' = [run EXCEPT ![r] = t] /\ work' = [work EXCEPT ![r] = w]
             /\ saw' = [saw EXCEPT ![r] = IF \E q \in Runners : run[q].on THEN {} ELSE S]
      PROVE  /\ run' \in [Runners -> Tasks] /\ work' \in [Runners -> Works] /\ saw' \in [Runners -> SUBSET Docs]
             /\ run'[r] = t /\ work'[r] = w
             /\ \A q \in Runners \ {r} : run'[q] = run[q] /\ work'[q] = work[q] /\ saw'[q] = saw[q]
             /\ saw'[r] = {} \/ (saw'[r] = S /\ \A q \in Runners : ~ run[q].on)
  <2>1. run' \in [Runners -> Tasks] /\ run'[r] = t /\ \A q \in Runners \ {r} : run'[q] = run[q]
    BY <1>3 DEF IndexTypeOK
  <2>2. work' \in [Runners -> Works] /\ work'[r] = w /\ \A q \in Runners \ {r} : work'[q] = work[q]
    BY <1>3 DEF IndexTypeOK
  <2>3. saw' \in [Runners -> SUBSET Docs] /\ (\A q \in Runners \ {r} : saw'[q] = saw[q])
        /\ (saw'[r] = {} \/ (saw'[r] = S /\ \A q \in Runners : ~ run[q].on))
    BY <1>3 DEF IndexTypeOK
  <2> QED BY <2>1, <2>2, <2>3
<1>4. ASSUME NEW m \in Marks, NEW w \in SUBSET Docs
      PROVE  /\ Idle(m, w).at = 1 /\ Idle(m, w).reading /\ Idle(m, w).items = {} /\ Idle(m, w).mark = m /\ Idle(m, w).wrote = w
             /\ \A d \in Docs : Idle(m, w).rows[d] = NoRow
  BY DEF Idle
<1>5. excused \subseteq Docs
  BY DEF IndexTypeOK
<1>6. CASE Incremental(r)
  <2>1. ~ run[r].on /\ Begin(r, watermark, Cut(watermark), FALSE, {}, {}, {}) /\ excused' = excused
    BY <1>6 DEF Incremental
  <2>2. {} \in SUBSET Docs /\ FALSE \in BOOLEAN
    OBVIOUS
  <2> DEFINE rec == [on |-> TRUE, started |-> clock, cut |-> Cut(watermark), explicit |-> FALSE, retags |-> {}, drops |-> {}]
  <2>3. /\ run' \in [Runners -> Tasks] /\ work' \in [Runners -> Works] /\ saw' \in [Runners -> SUBSET Docs]
        /\ run'[r] = rec /\ work'[r] = Idle(watermark, {})
        /\ \A q \in Runners \ {r} : run'[q] = run[q] /\ work'[q] = work[q] /\ saw'[q] = saw[q]
        /\ saw'[r] = {} \/ (saw'[r] = S /\ \A q \in Runners : ~ run[q].on)
        /\ UNCHANGED <<clock, doc, open, index, watermark, due, crossed>>
    <3>1. /\ run' = [run EXCEPT ![r] = rec] /\ work' = [work EXCEPT ![r] = Idle(watermark, {})]
          /\ saw' = [saw EXCEPT ![r] = IF \E q \in Runners : run[q].on THEN {} ELSE S]
          /\ UNCHANGED <<clock, doc, open, index, watermark, due, crossed>>
      BY <2>1 DEF Begin
    <3>2. rec \in Tasks /\ Idle(watermark, {}) \in Works
      BY <2>2, <1>1, <1>2 DEF Tasks
    <3> HIDE DEF rec, S
    <3> QED BY <3>1, <3>2, <1>3
  <2>4. run'[r].on /\ run'[r].started = clock /\ run'[r].cut = Cut(watermark) /\ run'[r].retags = {} /\ run'[r].drops = {} /\ ~ run'[r].explicit
    BY <2>3
  <2>5. /\ work'[r].at = 1 /\ work'[r].reading /\ work'[r].items = {} /\ work'[r].mark = watermark /\ work'[r].wrote = {}
        /\ \A d \in Docs : work'[r].rows[d] = NoRow
    BY <2>2, <2>3, <1>1, <1>4
  <2> HIDE DEF rec, S
  <2> QED BY <2>1, <2>3, <2>4, <2>5, <1>5 DEF S
<1>7. CASE Full(r)
  <2> DEFINE rows == {d \in Docs : index[d] # NoRow}
             rec == [on |-> TRUE, started |-> clock, cut |-> -1, explicit |-> FALSE, retags |-> {}, drops |-> {}]
  <2>1. ~ run[r].on /\ ~ Locked(r, rows) /\ Begin(r, NoMark, -1, FALSE, {}, {}, rows) /\ excused' = excused
    BY <1>7 DEF Full
  <2>2. {} \in SUBSET Docs /\ rows \in SUBSET Docs /\ FALSE \in BOOLEAN /\ -1 \in Int
    OBVIOUS
  <2>3. /\ run' \in [Runners -> Tasks] /\ work' \in [Runners -> Works] /\ saw' \in [Runners -> SUBSET Docs]
        /\ run'[r] = rec /\ work'[r] = Idle(NoMark, rows)
        /\ \A q \in Runners \ {r} : run'[q] = run[q] /\ work'[q] = work[q] /\ saw'[q] = saw[q]
        /\ saw'[r] = {} \/ (saw'[r] = S /\ \A q \in Runners : ~ run[q].on)
        /\ UNCHANGED <<clock, doc, open, index, watermark, due, crossed>>
    <3>1. /\ run' = [run EXCEPT ![r] = rec] /\ work' = [work EXCEPT ![r] = Idle(NoMark, rows)]
          /\ saw' = [saw EXCEPT ![r] = IF \E q \in Runners : run[q].on THEN {} ELSE S]
          /\ UNCHANGED <<clock, doc, open, index, watermark, due, crossed>>
      BY <2>1 DEF Begin
    <3>2. rec \in Tasks /\ Idle(NoMark, rows) \in Works
      BY <2>2, <1>1, <1>2 DEF Tasks
    <3> HIDE DEF rec, S, rows
    <3> QED BY <3>1, <3>2, <1>3
  <2>4. run'[r].on /\ run'[r].started = clock /\ run'[r].cut = -1 /\ run'[r].retags = {} /\ run'[r].drops = {} /\ ~ run'[r].explicit
    BY <2>3
  <2>5. /\ work'[r].at = 1 /\ work'[r].reading /\ work'[r].items = {} /\ work'[r].mark = NoMark /\ work'[r].wrote = rows
        /\ \A d \in Docs : work'[r].rows[d] = NoRow
    <3> HIDE DEF rows
    <3> QED BY <2>2, <2>3, <1>1, <1>4
  <2>6. \A q \in Runners \ {r} : rows \cap (work[q].wrote \cup run[q].retags) = {}
    BY <2>1 DEF Locked
  <2> HIDE DEF rec, S
  <2> QED BY <2>1, <2>3, <2>4, <2>5, <2>6, <1>5 DEF S
<1>8. CASE Reapply(r)
  <2> DEFINE cut == clock - Reread
             window == {d \in Docs : Kind[d] = "news" /\ Stored(d) /\ doc[d].stamp >= cut}
  <2>1. /\ ~ run[r].on /\ ~ Locked(r, window)
        /\ \E drops \in SUBSET window : Begin(r, watermark, cut, TRUE, window, drops, {})
        /\ excused' = excused \cup {d \in Docs : Stored(d) /\ Kind[d] # "filing" /\ ~ StampedSince(d, cut) /\ StampedSince(d, Cut(watermark))}
    BY <1>8 DEF Reapply
  <2>2. PICK drops \in SUBSET window : Begin(r, watermark, cut, TRUE, window, drops, {})
    BY <2>1
  <2>3. {} \in SUBSET Docs /\ window \in SUBSET Docs /\ drops \in SUBSET Docs /\ TRUE \in BOOLEAN
    OBVIOUS
  <2> DEFINE rec == [on |-> TRUE, started |-> clock, cut |-> cut, explicit |-> TRUE, retags |-> window, drops |-> drops]
  <2>4. /\ run' \in [Runners -> Tasks] /\ work' \in [Runners -> Works] /\ saw' \in [Runners -> SUBSET Docs]
        /\ run'[r] = rec /\ work'[r] = Idle(watermark, {})
        /\ \A q \in Runners \ {r} : run'[q] = run[q] /\ work'[q] = work[q] /\ saw'[q] = saw[q]
        /\ saw'[r] = {} \/ (saw'[r] = S /\ \A q \in Runners : ~ run[q].on)
        /\ UNCHANGED <<clock, doc, open, index, watermark, due, crossed>>
    <3>1. /\ run' = [run EXCEPT ![r] = rec] /\ work' = [work EXCEPT ![r] = Idle(watermark, {})]
          /\ saw' = [saw EXCEPT ![r] = IF \E q \in Runners : run[q].on THEN {} ELSE S]
          /\ UNCHANGED <<clock, doc, open, index, watermark, due, crossed>>
      BY <2>2 DEF Begin
    <3>2. rec \in Tasks /\ Idle(watermark, {}) \in Works
      BY <2>3, <1>1, <1>2 DEF Tasks
    <3> HIDE DEF rec, S, window
    <3> QED BY <3>1, <3>2, <1>3
  <2>5. run'[r].on /\ run'[r].started = clock /\ run'[r].cut = cut /\ run'[r].retags = window /\ run'[r].drops = drops
    BY <2>4
  <2>6. /\ work'[r].at = 1 /\ work'[r].reading /\ work'[r].items = {} /\ work'[r].mark = watermark /\ work'[r].wrote = {}
        /\ \A d \in Docs : work'[r].rows[d] = NoRow
    BY <2>3, <2>4, <1>1, <1>4
  <2>7. \A q \in Runners \ {r} : window \cap (work[q].wrote \cup run[q].retags) = {}
    BY <2>1 DEF Locked
  <2>8. \A d \in Docs \ excused' : Stored(d) /\ Late(d, Cut(watermark)) => Late(d, run'[r].cut)
    BY <2>1, <2>5 DEF Late
  <2>9. excused \subseteq excused' /\ excused' \subseteq Docs
    BY <2>1, <1>5
  <2>10. \A d \in run'[r].retags : Kind[d] = "news" /\ Stored(d) /\ doc[d].stamp >= run'[r].cut
    BY <2>5
  <2> HIDE DEF rec, S, window, cut
  <2> QED BY <2>1, <2>4, <2>5, <2>6, <2>7, <2>8, <2>9, <2>10 DEF S
<1> QED BY <1>6, <1>7, <1>8

LEMMA Reading ==
    ASSUME IndexShape, NEW r \in Runners, ReadKind(r)
    PROVE  /\ run[r].on /\ work[r].reading /\ work[r].at \in 1 .. 4
           /\ work' \in [Runners -> Works] /\ \A q \in Runners \ {r} : work'[q] = work[q]
           /\ work'[r].items = Selected(r, Order[work[r].at])
           /\ work'[r].items = {} /\ Order[work[r].at] # "news" => work'[r].at = work[r].at + 1 /\ work'[r].reading
           /\ ~ (work'[r].items = {} /\ Order[work[r].at] # "news") => work'[r].at = work[r].at /\ ~ work'[r].reading
           /\ \A d \in work'[r].items : work'[r].read[d] = Text(r, d)
           /\ work'[r].wrote = work[r].wrote /\ work'[r].rows = work[r].rows
           /\ Order[work[r].at] = "news" => work'[r].mark.pending = Pending(r, work'[r].items)
           /\ Order[work[r].at] # "news" => work'[r].mark.pending = work[r].mark.pending
           /\ Order[work[r].at] # "filing" => work'[r].mark.filing_id = work[r].mark.filing_id
           /\ Order[work[r].at] = "filing" =>
                 \/ work'[r].mark.filing_id = work[r].mark.filing_id
                 \/ \E d \in work'[r].items : work'[r].mark.filing_id = doc[d].id
           /\ UNCHANGED <<clock, doc, open, index, watermark, run, saw, due, crossed, excused>>
<1> DEFINE w == work[r]
           kind == Order[w.at]
           items == Selected(r, kind)
           idle == items = {} /\ kind # "news"
           high == Max({w.mark.filing_id} \cup {doc[d].id : d \in items})
           mark == [since |-> w.mark.since, filing_id |-> IF kind = "filing" THEN high ELSE w.mark.filing_id,
                    pending |-> IF kind = "news" THEN Pending(r, items) ELSE w.mark.pending]
           read == [d \in Docs |-> IF d \in items THEN Text(r, d) ELSE NoRow]
           next == [at |-> IF idle THEN w.at + 1 ELSE w.at, reading |-> idle, items |-> items, read |-> read,
                    mark |-> mark, wrote |-> w.wrote, rows |-> w.rows]
<1> w \in Works
  BY DEF IndexShape, IndexTypeOK
<1>1. run[r].on /\ w.at <= 4 /\ w.reading
  BY DEF ReadKind
<1>2. w.at \in 1 .. 4
  BY <1>1 DEF Works
<1>3. work' = [work EXCEPT ![r] = next]
      /\ UNCHANGED <<clock, doc, open, index, watermark, run, saw, due, crossed, excused>>
  BY DEF ReadKind
<1>4. items \subseteq {d \in Docs : Turn(d) = w.at /\ Seen(r, d)}
  <2> HIDE DEF w
  <2> QED BY <1>2, SelectedAre DEF IndexShape, w
<1>5. items \in SUBSET Docs
  BY <1>4
<1>6. high \in Nat /\ (high = w.mark.filing_id \/ \E d \in items : high = doc[d].id)
  <2>1. high = HighestRead(r, items)
    BY DEF HighestRead
  <2>2. IndexTypeOK /\ FilingsNumbered
    BY DEF IndexShape
  <2> HIDE DEF items, high
  <2> QED BY ONLY <1>5, <2>1, <2>2, r \in Runners, MarkMoves
<1>7. Pending(r, items) \in SUBSET Docs
  <2> HIDE DEF items
  <2> QED BY <1>5 DEF Pending
<1>8. mark \in Marks
  <2>1. w.mark \in Marks
    BY DEF Works
  <2> HIDE DEF w, high, items, kind
  <2> QED BY <2>1, <1>6, <1>7 DEF Marks
<1>9. read \in [Docs -> IndexRows]
  <2>1. ASSUME NEW d \in Docs PROVE Text(r, d) \in SUBSET Changes
    <3>1. doc[d].text \in SUBSET Changes
      BY DEF IndexShape, IndexTypeOK, IndexDocs
    <3> QED BY <3>1 DEF Text, Changes
  <2> HIDE DEF items
  <2> QED BY <2>1 DEF IndexRows
<1>10. next \in Works
  <2>1. w.at + 1 \in 1 .. 5 /\ w.at \in 1 .. 5
    BY <1>2
  <2>2. w.wrote \in SUBSET Docs /\ w.rows \in [Docs -> IndexRows]
    BY DEF Works
  <2>3. idle \in BOOLEAN
    OBVIOUS
  <2> HIDE DEF w, mark, read, items, idle
  <2> QED BY <2>1, <2>2, <2>3, <1>5, <1>8, <1>9 DEF Works
<1>11. /\ next.items = items /\ next.read = read /\ next.wrote = w.wrote /\ next.rows = w.rows /\ next.mark = mark
       /\ idle => next.at = w.at + 1 /\ next.reading
       /\ ~ idle => next.at = w.at /\ ~ next.reading
  <2> HIDE DEF w, mark, read, items, idle
  <2> QED OBVIOUS
<1>12. work' \in [Runners -> Works] /\ work'[r] = next /\ \A q \in Runners \ {r} : work'[q] = work[q]
  <2> HIDE DEF next
  <2> QED BY <1>3, <1>10 DEF IndexShape, IndexTypeOK
<1>13. /\ kind = "news" => mark.pending = Pending(r, items)
       /\ kind # "news" => mark.pending = w.mark.pending
       /\ kind # "filing" => mark.filing_id = w.mark.filing_id
       /\ kind = "filing" => mark.filing_id = high
  <2> HIDE DEF w, items, kind, high
  <2> QED OBVIOUS
<1>14. \A d \in items : read[d] = Text(r, d)
  <2> HIDE DEF items
  <2> QED BY <1>5
<1> HIDE DEF next, mark, read, items, high
<1> QED BY <1>1, <1>2, <1>3, <1>6, <1>11, <1>12, <1>13, <1>14 DEF items

LEMMA Writing ==
    ASSUME IndexShape, NEW r \in Runners, WriteKind(r)
    PROVE  /\ run[r].on /\ ~ work[r].reading /\ work[r].at \in 1 .. 4
           /\ work' \in [Runners -> Works] /\ \A q \in Runners \ {r} : work'[q] = work[q]
           /\ work'[r].at = work[r].at + 1 /\ work'[r].reading /\ work'[r].items = {} /\ work'[r].mark = work[r].mark
           /\ work[r].wrote \subseteq work'[r].wrote
           /\ \A d \in work[r].items : Row(r, d)' = work[r].read[d]
                                       /\ (d \in work'[r].wrote => work'[r].rows[d] = work[r].read[d])
           /\ \A d \in Docs \ work[r].items :
                 \/ work'[r].wrote \cap {d} = work[r].wrote \cap {d} /\ work'[r].rows[d] = work[r].rows[d] /\ Row(r, d)' = Row(r, d)
                 \/ ~ Seen(r, d) /\ Row(r, d)' = NoRow /\ work'[r].rows[d] = NoRow /\ Kind[d] = "news" /\ work[r].at = 3 /\ Row(r, d) # NoRow
           /\ work[r].at = 3 => \A d \in News \ work[r].items : ~ Seen(r, d) => Row(r, d)' = NoRow
           /\ \A q \in Runners \ {r} : (work'[r].wrote \ work[r].wrote) \cap (work[q].wrote \cup run[q].retags) = {}
           /\ \A d \in work'[r].wrote : d \in work[r].wrote \/ d \in work[r].items \/ Row(r, d) # NoRow
           /\ UNCHANGED <<clock, doc, open, index, watermark, run, saw, due, crossed, excused>>
<1> DEFINE w == work[r]
           differ == {d \in w.items : Row(r, d) # w.read[d]}
           orphans == {d \in News \ w.items : Order[w.at] = "news" /\ Row(r, d) # NoRow /\ ~ Seen(r, d)}
           rows == [d \in Docs |-> IF d \in differ THEN w.read[d] ELSE IF d \in orphans THEN NoRow ELSE w.rows[d]]
           next == [at |-> w.at + 1, reading |-> TRUE, mark |-> w.mark, items |-> {}, read |-> [d \in Docs |-> NoRow],
                    wrote |-> w.wrote \cup differ \cup orphans, rows |-> rows]
<1> w \in Works
  BY DEF IndexShape, IndexTypeOK
<1>1. run[r].on /\ w.at <= 4 /\ ~ w.reading /\ ~ Locked(r, differ \cup orphans)
  BY DEF WriteKind
<1>2. w.at \in 1 .. 4
  BY <1>1 DEF Works
<1>3. work' = [work EXCEPT ![r] = next]
      /\ UNCHANGED <<clock, doc, open, index, watermark, run, saw, due, crossed, excused>>
  BY DEF WriteKind
<1>4. w.items \in SUBSET Docs /\ w.wrote \in SUBSET Docs /\ w.mark \in Marks /\ w.read \in [Docs -> IndexRows] /\ w.rows \in [Docs -> IndexRows]
  BY DEF Works
<1>5. differ \in SUBSET Docs /\ orphans \in SUBSET Docs /\ orphans \cap w.items = {} /\ differ \subseteq w.items
  <2> HIDE DEF w
  <2> QED BY <1>4 DEF News
<1>6. NoRow \in IndexRows
  BY DEF IndexRows
<1>7. rows \in [Docs -> IndexRows]
  <2> HIDE DEF w, differ, orphans
  <2> QED BY <1>4, <1>6
<1>8. next \in Works
  <2>1. w.at + 1 \in 1 .. 5 /\ TRUE \in BOOLEAN /\ {} \in SUBSET Docs
    BY <1>2
  <2>2. [d \in Docs |-> NoRow] \in [Docs -> IndexRows]
    BY <1>6
  <2> HIDE DEF w, differ, orphans, rows
  <2>3. w.wrote \cup differ \cup orphans \in SUBSET Docs
    BY <1>4, <1>5
  <2> QED BY <1>4, <1>7, <2>1, <2>2, <2>3 DEF Works
<1>9. /\ next.at = w.at + 1 /\ next.reading /\ next.items = {} /\ next.mark = w.mark
      /\ next.wrote = w.wrote \cup differ \cup orphans /\ next.rows = rows
  <2> HIDE DEF w, differ, orphans, rows
  <2> QED OBVIOUS
<1>10. work' \in [Runners -> Works] /\ work'[r] = next /\ \A q \in Runners \ {r} : work'[q] = work[q]
  <2> HIDE DEF next
  <2> QED BY <1>3, <1>8 DEF IndexShape, IndexTypeOK
<1>11. \A d \in Docs : Row(r, d)' = IF d \in next.wrote THEN next.rows[d] ELSE index[d]
  <2> HIDE DEF next
  <2> QED BY <1>3, <1>10 DEF Row
<1>12. \A d \in Docs : rows[d] = IF d \in differ THEN w.read[d] ELSE IF d \in orphans THEN NoRow ELSE w.rows[d]
  <2> HIDE DEF w, differ, orphans
  <2> QED OBVIOUS
<1>13. \A d \in differ : d \in w.items /\ Row(r, d) # w.read[d]
  OBVIOUS
<1>14. \A d \in w.items \ differ : Row(r, d) = w.read[d]
  OBVIOUS
<1>15. \A d \in Docs : Row(r, d) = IF d \in w.wrote THEN w.rows[d] ELSE index[d]
  BY DEF Row
<1>16. \A d \in orphans : ~ Seen(r, d) /\ Kind[d] = "news" /\ w.at = 3 /\ Row(r, d) # NoRow
  <2>1. \A d \in orphans : d \in Docs /\ Kind[d] = "news" /\ Order[w.at] = Kind[d] /\ ~ Seen(r, d) /\ Row(r, d) # NoRow
    BY DEF News
  <2>2. \A d \in Docs : Kind[d] = "news" => Turn(d) = 3
    BY DEF Turn
  <2> QED BY <2>1, <2>2, <1>2, TurnOf
<1>17. w.at = 3 => \A d \in News \ w.items : ~ Seen(r, d) => d \in orphans \/ Row(r, d) = NoRow
  BY DEF Order
<1>18. \A q \in Runners \ {r} : (differ \cup orphans) \cap (work[q].wrote \cup run[q].retags) = {}
  <2> HIDE DEF differ, orphans
  <2> QED BY <1>1 DEF Locked
<1> HIDE DEF next, rows, differ, orphans
<1>19. \A d \in w.items : Row(r, d)' = w.read[d] /\ (d \in next.wrote => next.rows[d] = w.read[d])
  BY <1>4, <1>5, <1>9, <1>11, <1>12, <1>14, <1>15
<1>20. ASSUME NEW d \in Docs \ w.items
       PROVE  \/ next.wrote \cap {d} = w.wrote \cap {d} /\ next.rows[d] = w.rows[d] /\ Row(r, d)' = Row(r, d)
              \/ ~ Seen(r, d) /\ Row(r, d)' = NoRow /\ next.rows[d] = NoRow /\ Kind[d] = "news" /\ w.at = 3 /\ Row(r, d) # NoRow
  <2>1. CASE d \in orphans
    BY <2>1, <1>5, <1>9, <1>11, <1>12, <1>16
  <2>2. CASE d \notin orphans
    BY <2>2, <1>5, <1>9, <1>11, <1>12, <1>15
  <2> QED BY <2>1, <2>2
<1>21. w.at = 3 => \A d \in News \ w.items : ~ Seen(r, d) => Row(r, d)' = NoRow
  <2>1. ASSUME w.at = 3, NEW d \in News \ w.items, ~ Seen(r, d) PROVE Row(r, d)' = NoRow
    <3>1. d \in Docs
      BY DEF News
    <3>2. CASE d \in orphans
      BY <3>1, <3>2, <1>5, <1>9, <1>11, <1>12
    <3>3. CASE d \notin orphans
      <4>1. Row(r, d) = NoRow
        BY <2>1, <3>3, <1>17
      <4> QED BY <4>1, <3>1, <1>20
    <3> QED BY <3>2, <3>3
  <2> QED BY <2>1
<1>22. \A d \in next.wrote : d \in w.wrote \/ d \in w.items \/ Row(r, d) # NoRow
  BY <1>5, <1>9, <1>16
<1>23. w.wrote \subseteq next.wrote /\ next.wrote \ w.wrote \subseteq differ \cup orphans
  BY <1>9
<1>24. \A q \in Runners \ {r} : (next.wrote \ w.wrote) \cap (work[q].wrote \cup run[q].retags) = {}
  BY <1>18, <1>23
<1> QED BY <1>1, <1>2, <1>3, <1>9, <1>10, <1>19, <1>20, <1>21, <1>22, <1>23, <1>24

LEMMA IdleRun ==
    /\ NoRun \in Tasks /\ Idle(NoMark, {}) \in Works /\ NoMark \in Marks
    /\ ~ NoRun.on /\ NoRun.retags = {} /\ NoRun.drops = {} /\ Idle(NoMark, {}).wrote = {} /\ Idle(NoMark, {}).items = {}
    /\ Idle(NoMark, {}).at = 1 /\ Idle(NoMark, {}).reading /\ Idle(NoMark, {}).mark = NoMark
    /\ NoMark.filing_id = 0 /\ NoMark.pending = {} /\ NoMark.since = -1
<1>1. NoRun \in Tasks /\ ~ NoRun.on /\ NoRun.retags = {} /\ NoRun.drops = {}
  BY DEF NoRun, Tasks
<1>2. NoMark \in Marks /\ NoMark.filing_id = 0 /\ NoMark.pending = {} /\ NoMark.since = -1
  BY DEF NoMark, Marks
<1>3. [d \in Docs |-> NoRow] \in [Docs -> IndexRows]
  BY DEF IndexRows
<1>4. 1 \in 1 .. 5 /\ TRUE \in BOOLEAN /\ {} \in SUBSET Docs
  OBVIOUS
<1>5. Idle(NoMark, {}) \in Works
  BY <1>2, <1>3, <1>4 DEF Idle, Works
<1>6. /\ Idle(NoMark, {}).wrote = {} /\ Idle(NoMark, {}).items = {} /\ Idle(NoMark, {}).at = 1
      /\ Idle(NoMark, {}).reading /\ Idle(NoMark, {}).mark = NoMark
  BY DEF Idle
<1> QED BY <1>1, <1>2, <1>5, <1>6

LEMMA Ending ==
    ASSUME IndexTypeOK, NEW r \in Runners, End(r)
    PROVE  /\ run' \in [Runners -> Tasks] /\ work' \in [Runners -> Works]
           /\ run'[r] = NoRun /\ work'[r] = Idle(NoMark, {})
           /\ \A q \in Runners \ {r} : run'[q] = run[q] /\ work'[q] = work[q]
BY IdleRun DEF IndexTypeOK, End

LEMMA Committing ==
    ASSUME IndexTypeOK, Retagged, NEW r \in Runners, CommitRun(r)
    PROVE  /\ run[r].on /\ work[r].at = 5 /\ End(r)
           /\ index' \in [Docs -> IndexRows] /\ \A d \in Docs : index'[d] = Row(r, d)
           /\ watermark' \in Marks /\ watermark'.since = run[r].started
           /\ watermark'.filing_id = work[r].mark.filing_id /\ watermark'.pending = work[r].mark.pending
           /\ doc' \in [Docs -> IndexDocs]
           /\ \A d \in Docs \ run[r].retags : doc'[d] = doc[d]
           /\ \A d \in run[r].drops : doc'[d] = NoDoc("gone")
           /\ \A d \in run[r].retags \ run[r].drops :
                 doc'[d].state = doc[d].state /\ doc'[d].stamp = doc[d].stamp /\ doc'[d].id = doc[d].id
                 /\ doc'[d].text = doc[d].text \cup {"tags"}
           /\ due' = saw[r] /\ saw' \in [Runners -> SUBSET Docs] /\ saw'[r] = {}
           /\ \A q \in Runners \ {r} : saw'[q] = saw[q] \ run[r].retags
           /\ crossed' = {q \in Runners \ {r} : run[q].on}
           /\ excused \subseteq excused' /\ excused' \subseteq Docs
           /\ (\E q \in Runners \ {r} : run[q].on) => run[r].retags \subseteq excused'
           /\ r \in crossed => watermark.pending \ work[r].mark.pending \subseteq excused'
           /\ UNCHANGED <<clock, open>>
<1>1. /\ run[r].on /\ work[r].at = 5 /\ End(r)
      /\ index' = [d \in Docs |-> Row(r, d)]
      /\ watermark' = [since |-> run[r].started, filing_id |-> work[r].mark.filing_id, pending |-> work[r].mark.pending]
      /\ doc' = [d \in Docs |-> IF d \in run[r].drops THEN NoDoc("gone")
                                ELSE IF d \in run[r].retags THEN [doc[d] EXCEPT !.text = @ \cup {"tags"}] ELSE doc[d]]
      /\ due' = saw[r]
      /\ saw' = [q \in Runners |-> IF q = r THEN {} ELSE saw[q] \ run[r].retags]
      /\ crossed' = {q \in Runners \ {r} : run[q].on}
      /\ UNCHANGED <<clock, open>>
  BY DEF CommitRun
<1>2. excused' = excused \cup (IF {q \in Runners \ {r} : run[q].on} = {} THEN {} ELSE run[r].retags)
                         \cup (IF r \in crossed THEN watermark.pending \ work[r].mark.pending ELSE {})
  BY DEF CommitRun
<1>3. run[r] \in Tasks /\ work[r] \in Works /\ work[r].mark \in Marks
  BY DEF IndexTypeOK, Works
<1>4. run[r].started \in Nat /\ run[r].retags \in SUBSET Docs /\ run[r].drops \subseteq run[r].retags
  BY <1>3 DEF Tasks, Retagged
<1>5. ASSUME NEW d \in Docs PROVE Row(r, d) \in IndexRows
  BY <1>3 DEF Row, Works, IndexTypeOK
<1>6. watermark' \in Marks /\ watermark'.since = run[r].started
      /\ watermark'.filing_id = work[r].mark.filing_id /\ watermark'.pending = work[r].mark.pending
  BY <1>1, <1>3, <1>4 DEF Marks
<1>7. ASSUME NEW d \in Docs
      PROVE  /\ doc[d] \in IndexDocs /\ NoDoc("gone") \in IndexDocs
             /\ [doc[d] EXCEPT !.text = @ \cup {"tags"}] \in IndexDocs
             /\ [doc[d] EXCEPT !.text = @ \cup {"tags"}].state = doc[d].state
             /\ [doc[d] EXCEPT !.text = @ \cup {"tags"}].stamp = doc[d].stamp
             /\ [doc[d] EXCEPT !.text = @ \cup {"tags"}].id = doc[d].id
             /\ [doc[d] EXCEPT !.text = @ \cup {"tags"}].text = doc[d].text \cup {"tags"}
  <2>1. doc[d] \in IndexDocs
    BY DEF IndexTypeOK, IndexDocs
  <2>2. NoDoc("gone") \in IndexDocs
    BY DEF NoDoc, IndexDocs
  <2> QED BY <2>1, <2>2 DEF IndexDocs, Changes
<1>8. doc' \in [Docs -> IndexDocs]
  BY <1>1, <1>7
<1>9. /\ \A d \in Docs \ run[r].retags : doc'[d] = doc[d]
      /\ \A d \in run[r].drops : doc'[d] = NoDoc("gone")
      /\ \A d \in run[r].retags \ run[r].drops : doc'[d] = [doc[d] EXCEPT !.text = @ \cup {"tags"}]
  BY <1>1, <1>4
<1>10. \A d \in run[r].retags \ run[r].drops :
          doc'[d].state = doc[d].state /\ doc'[d].stamp = doc[d].stamp /\ doc'[d].id = doc[d].id
          /\ doc'[d].text = doc[d].text \cup {"tags"}
  BY <1>4, <1>7, <1>9
<1>11. saw' \in [Runners -> SUBSET Docs] /\ saw'[r] = {} /\ \A q \in Runners \ {r} : saw'[q] = saw[q] \ run[r].retags
  BY <1>1 DEF IndexTypeOK
<1>12. /\ excused \subseteq excused' /\ excused' \subseteq Docs
       /\ (\E q \in Runners \ {r} : run[q].on) => run[r].retags \subseteq excused'
       /\ r \in crossed => watermark.pending \ work[r].mark.pending \subseteq excused'
  <2>1. watermark.pending \in SUBSET Docs /\ excused \in SUBSET Docs
    BY DEF IndexTypeOK, Marks
  <2> QED BY <1>2, <1>4, <2>1
<1>13. index' \in [Docs -> IndexRows] /\ \A d \in Docs : index'[d] = Row(r, d)
  BY <1>1, <1>5
<1> QED BY <1>1, <1>6, <1>8, <1>9, <1>10, <1>11, <1>12, <1>13

LEMMA Landing ==
    ASSUME IndexTypeOK, Families, NEW o \in open, Land(o)
    PROVE  /\ o.doc \in Docs /\ o.stamp \in Nat /\ o.id \in Nat /\ Corrects[o.doc] \in Docs
           /\ open' = open \ {o} /\ doc' \in [Docs -> IndexDocs]
           /\ doc'[o.doc].state = "stored" /\ doc'[o.doc].stamp = o.stamp /\ doc'[o.doc].id = o.id
           /\ Corrects[o.doc] # o.doc =>
                 LET p == Corrects[o.doc]
                 IN Stored(p) /\ doc'[p].state = "stored" /\ doc'[p].stamp = doc[p].stamp /\ doc'[p].id = doc[p].id
           /\ \A d \in Docs \ {o.doc, Corrects[o.doc]} : doc'[d] = doc[d]
           /\ due' = due \ {o.doc, Corrects[o.doc]}
           /\ saw' \in [Runners -> SUBSET Docs] /\ \A r \in Runners : saw'[r] = saw[r] \ {o.doc, Corrects[o.doc]}
           /\ excused \subseteq excused' /\ excused' \subseteq Docs
           /\ Kind[o.doc] = "filing" /\ o.doc \notin excused' =>
                 \A e \in Docs : Kind[e] = "filing" /\ Stored(e) => ~ (doc[e].id > o.id)
           /\ UNCHANGED <<clock, index, watermark, run, work, crossed>>
<1>1. o.doc \in Docs /\ o.stamp \in Nat /\ o.id \in Nat /\ Corrects[o.doc] \in Docs
  BY IndexConstants DEF IndexTypeOK
<1> DEFINE p == Corrects[o.doc]
           new == [state |-> "stored", stamp |-> o.stamp, id |-> o.id, text |-> IF Stored(o.doc) THEN {"rewritten"} ELSE {}]
<1>2. /\ open' = open \ {o} /\ Changed({o.doc, p})
      /\ doc' = [d \in Docs |-> IF d = o.doc
                                THEN [state |-> "stored", stamp |-> o.stamp, id |-> o.id, text |-> IF Stored(d) THEN {"rewritten"} ELSE {}]
                                ELSE IF d = p THEN [doc[d] EXCEPT !.text = @ \cup {"superseded"}] ELSE doc[d]]
      /\ excused' = IF Kind[o.doc] = "filing" /\ \E e \in Docs : Kind[e] = "filing" /\ Stored(e) /\ doc[e].id > o.id
                    THEN excused \cup {o.doc} ELSE excused
      /\ UNCHANGED <<clock, index, watermark, run, work, crossed>>
  BY DEF Land
<1>3. ASSUME NEW d \in Docs
      PROVE  /\ doc[d] \in IndexDocs
             /\ [doc[d] EXCEPT !.text = @ \cup {"superseded"}] \in IndexDocs
             /\ [doc[d] EXCEPT !.text = @ \cup {"superseded"}].state = doc[d].state
             /\ [doc[d] EXCEPT !.text = @ \cup {"superseded"}].stamp = doc[d].stamp
             /\ [doc[d] EXCEPT !.text = @ \cup {"superseded"}].id = doc[d].id
  <2>1. doc[d] \in IndexDocs
    BY DEF IndexTypeOK, IndexDocs
  <2> QED BY <2>1 DEF IndexDocs, Changes
<1>4. new \in IndexDocs /\ new.state = "stored" /\ new.stamp = o.stamp /\ new.id = o.id
  BY <1>1 DEF IndexDocs, Changes
<1>5. /\ doc'[o.doc] = new
      /\ p # o.doc => doc'[p] = [doc[p] EXCEPT !.text = @ \cup {"superseded"}]
      /\ \A d \in Docs \ {o.doc, p} : doc'[d] = doc[d]
  BY <1>1, <1>2
<1>6. doc' \in [Docs -> IndexDocs]
  <2>1. \A d \in Docs : doc'[d] \in IndexDocs
    <3> HIDE DEF new
    <3> QED BY <1>1, <1>3, <1>4, <1>5
  <2>2. DOMAIN doc' = Docs /\ doc' = [d \in Docs |-> doc'[d]]
    BY <1>2
  <2> QED BY <2>1, <2>2
<1>7. p # o.doc => Stored(p)
  BY DEF Families
<1>8. p # o.doc => doc'[p].state = "stored" /\ doc'[p].stamp = doc[p].stamp /\ doc'[p].id = doc[p].id
  BY <1>1, <1>3, <1>5, <1>7 DEF Stored
<1>9. due' = due \ {o.doc, p} /\ saw' \in [Runners -> SUBSET Docs] /\ \A r \in Runners : saw'[r] = saw[r] \ {o.doc, p}
  BY <1>2 DEF Changed, IndexTypeOK
<1>10. /\ excused \subseteq excused' /\ excused' \subseteq Docs
       /\ Kind[o.doc] = "filing" /\ o.doc \notin excused' =>
             \A e \in Docs : Kind[e] = "filing" /\ Stored(e) => ~ (doc[e].id > o.id)
  <2>1. excused \in SUBSET Docs
    BY DEF IndexTypeOK
  <2> QED BY <1>1, <1>2, <2>1
<1> HIDE DEF new
<1> QED BY <1>1, <1>2, <1>4, <1>5, <1>6, <1>7, <1>8, <1>9, <1>10

LEMMA Enriching ==
    ASSUME IndexTypeOK, NEW d \in Docs, Enrich(d)
    PROVE  /\ Kind[d] = "news" /\ Stored(d) /\ "ai" \notin doc[d].text /\ \A r \in Runners : d \notin run[r].retags
           /\ doc' \in [Docs -> IndexDocs] /\ \A e \in Docs \ {d} : doc'[e] = doc[e]
           /\ doc'[d].state = "stored" /\ doc'[d].stamp = doc[d].stamp /\ doc'[d].id = doc[d].id
           /\ due' = due \ {d} /\ saw' \in [Runners -> SUBSET Docs] /\ \A r \in Runners : saw'[r] = saw[r] \ {d}
           /\ excused \subseteq excused' /\ excused' \subseteq Docs
           /\ doc[d].stamp < clock - PendingFor => d \in excused'
           /\ UNCHANGED <<clock, open, index, watermark, run, work, crossed>>
<1>1. /\ Kind[d] = "news" /\ Stored(d) /\ "ai" \notin doc[d].text /\ \A r \in Runners : d \notin run[r].retags
      /\ doc' = [doc EXCEPT ![d].text = @ \cup {"ai"}] /\ Changed({d})
      /\ excused' = IF doc[d].stamp < clock - PendingFor THEN excused \cup {d} ELSE excused
      /\ UNCHANGED <<clock, open, index, watermark, run, work, crossed>>
  BY DEF Enrich
<1>2. doc \in [Docs -> IndexDocs] /\ doc[d] \in IndexDocs
  BY DEF IndexTypeOK, IndexDocs
<1>3. [doc[d] EXCEPT !.text = @ \cup {"ai"}] \in IndexDocs
      /\ [doc[d] EXCEPT !.text = @ \cup {"ai"}].state = doc[d].state
      /\ [doc[d] EXCEPT !.text = @ \cup {"ai"}].stamp = doc[d].stamp
      /\ [doc[d] EXCEPT !.text = @ \cup {"ai"}].id = doc[d].id
  BY <1>2 DEF IndexDocs, Changes
<1>4. doc' = [doc EXCEPT ![d] = [doc[d] EXCEPT !.text = @ \cup {"ai"}]]
  BY <1>1
<1>5. doc' \in [Docs -> IndexDocs] /\ doc'[d] = [doc[d] EXCEPT !.text = @ \cup {"ai"}] /\ \A e \in Docs \ {d} : doc'[e] = doc[e]
  BY <1>2, <1>3, <1>4
<1>6. due' = due \ {d} /\ saw' \in [Runners -> SUBSET Docs] /\ \A r \in Runners : saw'[r] = saw[r] \ {d}
  BY <1>1 DEF Changed, IndexTypeOK
<1>7. excused \subseteq excused' /\ excused' \subseteq Docs
  BY <1>1 DEF IndexTypeOK
<1> QED BY <1>1, <1>3, <1>5, <1>6, <1>7 DEF Stored

LEMMA Flushing ==
    ASSUME IndexTypeOK, FilingsNumbered, NEW d \in Docs, Flush(d)
    PROVE  \E o \in [doc : Docs, stamp : Nat, id : Nat] :
              /\ open' = open \cup {o} /\ o.doc = d /\ o.stamp = clock /\ o.id > 0
              /\ \A p \in open : p.doc # d /\ p.id # o.id
              /\ \A e \in Docs : Stored(e) => doc[e].id # o.id
              /\ doc[d].state = "absent" \/ (Kind[d] = "note" /\ Stored(d))
              /\ Corrects[d] # d => Stored(Corrects[d])
              /\ \E n \in Nat : o.id <= n /\ (\A p \in open : p.id <= n) /\ \A e \in Docs : doc[e].id <= n
              /\ UNCHANGED <<clock, doc, index, watermark, run, work, saw, due, crossed, excused>>
<1> DEFINE m == Max({0} \cup {p.id : p \in open} \cup {doc[e].id : e \in {e \in Docs : Stored(e)}})
           o == [doc |-> d, stamp |-> clock, id |-> 1 + m]
<1>1. /\ m \in Nat /\ \A p \in open : p.id <= m
      /\ \A e \in Docs : Stored(e) => doc[e].id <= m
      /\ \E n \in Nat : m <= n /\ (\A p \in open : p.id <= n) /\ \A e \in Docs : doc[e].id <= n
  <2>1. m = Max({0} \cup {p.id : p \in open} \cup {doc[e].id : e \in {e \in Docs : Stored(e)}})
    OBVIOUS
  <2> HIDE DEF m
  <2> QED BY <2>1, IdMoves
<1>2. /\ open' = open \cup {o} /\ \A p \in open : p.doc # d
      /\ doc[d].state = "absent" \/ (Kind[d] = "note" /\ Stored(d))
      /\ Corrects[d] # d => Stored(Corrects[d])
      /\ UNCHANGED <<clock, doc, index, watermark, run, work, saw, due, crossed, excused>>
  BY DEF Flush
<1>3. clock \in Nat /\ (\A e \in Docs : doc[e].id \in Nat) /\ \A p \in open : p.id \in Nat
  BY DEF IndexTypeOK, IndexDocs
<1> HIDE DEF m
<1>4. o \in [doc : Docs, stamp : Nat, id : Nat] /\ o.doc = d /\ o.stamp = clock /\ o.id = 1 + m
  BY <1>1, <1>3
<1>5. PICK n \in Nat : m <= n /\ (\A p \in open : p.id <= n) /\ \A e \in Docs : doc[e].id <= n
  BY <1>1
<1>6. n + 1 \in Nat /\ 1 + m <= n + 1 /\ (\A p \in open : p.id <= n + 1) /\ \A e \in Docs : doc[e].id <= n + 1
  BY <1>1, <1>3, <1>5
<1>7. (\A p \in open : p.id # 1 + m) /\ (\A e \in Docs : Stored(e) => doc[e].id # 1 + m) /\ 1 + m > 0
  BY <1>1, <1>3
<1> HIDE DEF o
<1> QED BY <1>2, <1>4, <1>6, <1>7

-----------------------------------------------------------------------------
(* Types, times and numbers *)

\* A step, by what takes it.
LEMMA IndexSteps ==
    ASSUME IndexStep
    PROVE  \/ \E d \in Docs : Flush(d)
           \/ \E d \in Docs : Enrich(d)
           \/ \E o \in open : Land(o)
           \/ \E r \in Runners : Incremental(r) \/ Full(r) \/ Reapply(r)
           \/ \E r \in Runners : ReadKind(r)
           \/ \E r \in Runners : WriteKind(r)
           \/ \E r \in Runners : CommitRun(r)
           \/ \E r \in Runners : FailRun(r)
           \/ Tick
           \/ UNCHANGED indexVars
BY DEF IndexStep, IndexNext

LEMMA IndexTypes == IndexShape /\ IndexStep => IndexTypeOK'
<1> SUFFICES ASSUME IndexShape, IndexStep PROVE IndexTypeOK'
  OBVIOUS
<1> IndexTypeOK /\ FilingsNumbered /\ Retagged /\ Families
  BY DEF IndexShape
<1>1. CASE \E d \in Docs : Flush(d)
  <2>1. PICK d \in Docs : Flush(d)
    BY <1>1
  <2>2. PICK o \in [doc : Docs, stamp : Nat, id : Nat] :
           open' = open \cup {o} /\ UNCHANGED <<clock, doc, index, watermark, run, work, saw, due, crossed, excused>>
    BY <2>1, Flushing
  <2> QED BY <2>2 DEF IndexTypeOK
<1>2. CASE \E d \in Docs : Enrich(d)
  BY <1>2, Enriching DEF IndexTypeOK
<1>3. CASE \E o \in open : Land(o)
  BY <1>3, Landing DEF IndexTypeOK
<1>4. CASE \E r \in Runners : Incremental(r) \/ Full(r) \/ Reapply(r)
  BY <1>4, Beginning DEF IndexTypeOK
<1>5. CASE \E r \in Runners : ReadKind(r)
  BY <1>5, Reading DEF IndexTypeOK
<1>6. CASE \E r \in Runners : WriteKind(r)
  BY <1>6, Writing DEF IndexTypeOK
<1>7. CASE \E r \in Runners : CommitRun(r)
  <2>1. PICK r \in Runners : CommitRun(r)
    BY <1>7
  <2>2. run' \in [Runners -> Tasks] /\ work' \in [Runners -> Works]
    BY <2>1, Committing, Ending
  <2> QED BY <2>1, <2>2, Committing DEF IndexTypeOK
<1>8. CASE \E r \in Runners : FailRun(r)
  <2>1. PICK r \in Runners : FailRun(r)
    BY <1>8
  <2>2. run' \in [Runners -> Tasks] /\ work' \in [Runners -> Works]
    BY <2>1, Ending DEF FailRun
  <2> QED BY <2>1, <2>2 DEF FailRun, IndexTypeOK
<1>9. CASE Tick
  BY <1>9 DEF Tick, IndexTypeOK
<1>10. CASE UNCHANGED indexVars
  BY <1>10 DEF indexVars, IndexTypeOK
<1> QED BY <1>1, <1>2, <1>3, <1>4, <1>5, <1>6, <1>7, <1>8, <1>9, <1>10, IndexSteps

\* A document keeps its stamp and its id for as long as it is stored, unless it is landed anew.
LEMMA DocsStay ==
    ASSUME IndexShape, IndexStep, ~ \E o \in open : Land(o), NEW d \in Docs
    PROVE  /\ Stored(d)' => Stored(d) /\ doc'[d].stamp = doc[d].stamp /\ doc'[d].id = doc[d].id
           /\ Stored(d) /\ Kind[d] # "news" => Stored(d)'
           /\ doc'[d].state = "absent" <=> doc[d].state = "absent"
           /\ Stored(d)' \/ doc'[d].id = 0 \/ doc'[d].id = doc[d].id
           /\ doc'[d].state = "gone" => doc[d].state = "gone" \/ Kind[d] = "news"
<1> IndexTypeOK /\ FilingsNumbered /\ Retagged /\ Families
  BY DEF IndexShape
<1>1. CASE doc'[d] = doc[d]
  BY <1>1 DEF Stored
<1>2. CASE \E e \in Docs : Enrich(e)
  <2>1. PICK e \in Docs : Enrich(e)
    BY <1>2
  <2>2. CASE d = e
    BY <2>1, <2>2, Enriching DEF Stored
  <2>3. CASE d # e
    BY <2>1, <2>3, <1>1, Enriching
  <2> QED BY <2>2, <2>3
<1>3. CASE \E r \in Runners : CommitRun(r)
  <2>1. PICK r \in Runners : CommitRun(r)
    BY <1>3
  <2>2. CASE d \notin run[r].retags
    BY <2>1, <2>2, <1>1, Committing
  <2>3. CASE d \in run[r].drops
    <3>1. doc'[d] = NoDoc("gone") /\ d \in run[r].retags
      BY <2>1, <2>3, Committing DEF Retagged
    <3>2. Kind[d] = "news" /\ Stored(d)
      BY <3>1 DEF Retagged
    <3> QED BY <3>1, <3>2 DEF NoDoc, Stored
  <2>4. CASE d \in run[r].retags \ run[r].drops
    <3>1. Kind[d] = "news" /\ Stored(d)
      BY <2>4 DEF Retagged
    <3> QED BY <2>1, <2>4, <3>1, Committing DEF Stored
  <2> QED BY <2>2, <2>3, <2>4
<1>4. CASE \E r \in Runners : Incremental(r) \/ Full(r) \/ Reapply(r)
  BY <1>4, <1>1, Beginning
<1>5. CASE ~ (\E e \in Docs : Enrich(e)) /\ ~ (\E r \in Runners : CommitRun(r))
           /\ ~ \E r \in Runners : Incremental(r) \/ Full(r) \/ Reapply(r)
  <2>1. doc' = doc
    BY <1>5, IndexSteps DEF Flush, ReadKind, WriteKind, FailRun, Tick, indexVars
  <2> QED BY <2>1, <1>1
<1> QED BY <1>2, <1>3, <1>4, <1>5

LEMMA StampTypes ==
    ASSUME IndexTypeOK
    PROVE  /\ clock \in Nat /\ watermark.since \in Int
           /\ \A d \in Docs : doc[d] \in IndexDocs /\ doc[d].stamp \in Nat /\ doc[d].id \in Nat
           /\ \A o \in open : o \in [doc : Docs, stamp : Nat, id : Nat] /\ o.doc \in Docs /\ o.stamp \in Nat /\ o.id \in Nat
           /\ \A r \in Runners : run[r] \in Tasks /\ run[r].started \in Nat /\ run[r].cut \in Int
                                 /\ run[r].retags \subseteq Docs /\ run[r].drops \subseteq Docs
           /\ \A r \in Runners : work[r] \in Works /\ work[r].at \in 1 .. 5 /\ work[r].mark \in Marks
                                 /\ work[r].mark.filing_id \in Nat /\ work[r].mark.pending \subseteq Docs
                                 /\ work[r].items \subseteq Docs /\ work[r].wrote \subseteq Docs
           /\ watermark.filing_id \in Nat /\ watermark.pending \subseteq Docs
<1>1. clock \in Nat /\ watermark \in Marks
  BY DEF IndexTypeOK
<1>2. \A d \in Docs : doc[d] \in IndexDocs
  BY DEF IndexTypeOK
<1>3. \A r \in Runners : run[r] \in Tasks
  BY DEF IndexTypeOK
<1>4. \A r \in Runners : work[r] \in Works
  BY DEF IndexTypeOK
<1>5. \A r \in Runners : work[r].mark \in Marks
  BY <1>4 DEF Works
<1>6. \A o \in open : o \in [doc : Docs, stamp : Nat, id : Nat]
  BY DEF IndexTypeOK
<1>7. watermark.since \in Int /\ watermark.filing_id \in Nat /\ watermark.pending \subseteq Docs
  BY <1>1 DEF Marks
<1> QED BY <1>1, <1>2, <1>3, <1>4, <1>5, <1>6, <1>7 DEF IndexDocs, Tasks, Works, Marks

LEMMA StampsStep == IndexShape /\ IndexStep => Stamped'
<1> SUFFICES ASSUME IndexShape, IndexStep PROVE Stamped'
  OBVIOUS
<1> IndexTypeOK /\ FilingsNumbered /\ Retagged /\ Families /\ Stamped /\ Timed
  BY DEF IndexShape
<1> USE StampTypes
<1>1. CASE \E o \in open : Land(o)
  <2>1. PICK o \in open : Land(o)
    BY <1>1
  <2>2. ASSUME NEW d \in Docs, Stored(d)' PROVE doc'[d].stamp <= clock'
    <3>1. CASE d = o.doc
      BY <2>1, <3>1, Landing DEF Stamped
    <3>2. CASE d # o.doc /\ d = Corrects[o.doc]
      <4>1. Stored(d) /\ doc'[d].stamp = doc[d].stamp /\ clock' = clock
        BY <2>1, <3>2, Landing
      <4> QED BY <4>1 DEF Stamped
    <3>3. CASE d \notin {o.doc, Corrects[o.doc]}
      <4>1. doc'[d] = doc[d] /\ clock' = clock
        BY <2>1, <3>3, Landing
      <4> QED BY <2>2, <4>1 DEF Stamped, Stored
    <3> QED BY <3>1, <3>2, <3>3
  <2>3. ASSUME NEW p \in open', Stored(p.doc)' PROVE doc'[p.doc].stamp <= p.stamp
    <3>1. p \in open /\ p.doc # o.doc /\ p.doc \in Docs
      BY <2>1, Landing DEF Stamped
    <3>2. CASE p.doc = Corrects[o.doc]
      <4>1. Stored(p.doc) /\ doc'[p.doc].stamp = doc[p.doc].stamp
        BY <2>1, <3>1, <3>2, Landing
      <4> QED BY <3>1, <4>1 DEF Stamped
    <3>3. CASE p.doc # Corrects[o.doc]
      <4>1. doc'[p.doc] = doc[p.doc]
        BY <2>1, <3>1, <3>3, Landing
      <4> QED BY <2>3, <3>1, <4>1 DEF Stamped, Stored
    <3> QED BY <3>2, <3>3
  <2>4. open' \subseteq open /\ clock' = clock /\ watermark' = watermark
    BY <2>1, Landing
  <2> QED BY <2>2, <2>3, <2>4 DEF Stamped
<1>2. CASE ~ \E o \in open : Land(o)
  <2>1. clock <= clock' /\ clock' \in Nat
    BY <1>2, IndexSteps, Enriching, Beginning, Reading, Writing, Committing DEF Flush, Tick, FailRun, indexVars
  <2>2. \A d \in Docs : Stored(d)' => doc'[d].stamp <= clock'
    BY <1>2, <2>1, DocsStay DEF Stamped
  <2>3. CASE \E d \in Docs : Flush(d)
    <3>1. PICK d \in Docs : Flush(d)
      BY <2>3
    <3>2. PICK o \in [doc : Docs, stamp : Nat, id : Nat] :
              /\ open' = open \cup {o} /\ o.doc = d /\ o.stamp = clock /\ \A p \in open : p.doc # d
              /\ UNCHANGED <<clock, doc, watermark>>
      BY <3>1, Flushing
    <3>3. OpenFor \in Nat /\ clock <= clock + OpenFor
      BY IndexConstants
    <3> QED BY <2>2, <3>2, <3>3 DEF Stamped, Stored
  <2>4. CASE Tick
    <3>1. /\ \A o \in open : clock < o.stamp + OpenFor
          /\ clock' = clock + 1 /\ UNCHANGED <<doc, open, watermark>>
      BY <2>4 DEF Tick
    <3>2. OpenFor \in Nat
      BY IndexConstants
    <3>3. \A o \in open : clock + 1 <= o.stamp + OpenFor /\ o.stamp <= clock + 1
      BY <3>1, <3>2 DEF Stamped
    <3>4. watermark.since <= clock + 1
      BY DEF Stamped
    <3> QED BY <2>2, <3>1, <3>3, <3>4 DEF Stamped, Stored
  <2>5. CASE ~ (\E d \in Docs : Flush(d)) /\ ~ Tick
    <3>1. open' = open /\ clock' = clock
      BY <1>2, <2>5, IndexSteps, Enriching, Beginning, Reading, Writing, Committing DEF FailRun, indexVars
    <3>2. \A p \in open : Stored(p.doc)' => doc'[p.doc].stamp <= p.stamp
      BY <1>2, DocsStay DEF Stamped
    <3>3. watermark'.since <= clock
      <4>1. CASE \E r \in Runners : CommitRun(r)
        BY <4>1, Committing DEF Timed
      <4>2. CASE ~ \E r \in Runners : CommitRun(r)
        <5>1. watermark' = watermark
          BY <1>2, <2>5, <4>2, IndexSteps, Enriching, Beginning, Reading, Writing DEF FailRun, indexVars
        <5> QED BY <5>1 DEF Stamped
      <4> QED BY <4>1, <4>2
    <3> QED BY <2>2, <3>1, <3>2, <3>3 DEF Stamped
  <2> QED BY <2>3, <2>4, <2>5
<1> QED BY <1>1, <1>2

\* What a step leaves of a run that it does not take.
LEMMA RunsStay ==
    ASSUME IndexShape, IndexStep, NEW r \in Runners
    PROVE  \/ run'[r] = run[r] /\ work'[r] = work[r]
           \/ Incremental(r) \/ Full(r) \/ Reapply(r)
           \/ ReadKind(r) \/ WriteKind(r)
           \/ ~ run'[r].on /\ run'[r] = NoRun /\ work'[r] = Idle(NoMark, {}) /\ saw'[r] = {} /\ r \notin crossed'
<1> IndexTypeOK /\ Retagged
  BY DEF IndexShape
<1>1. CASE \E q \in Runners : CommitRun(q)
  <2>1. PICK q \in Runners : CommitRun(q)
    BY <1>1
  <2> QED BY <2>1, Committing, Ending, IdleRun
<1>2. CASE \E q \in Runners : FailRun(q)
  <2>1. PICK q \in Runners : FailRun(q)
    BY <1>2
  <2>2. CASE r = q
    BY <2>1, <2>2, Ending, IdleRun DEF FailRun, IndexTypeOK
  <2>3. CASE r # q
    BY <2>1, <2>3, Ending DEF FailRun
  <2> QED BY <2>2, <2>3
<1>3. CASE \E q \in Runners : Incremental(q) \/ Full(q) \/ Reapply(q)
  BY <1>3, Beginning
<1>4. CASE \E q \in Runners : ReadKind(q)
  BY <1>4, Reading
<1>5. CASE \E q \in Runners : WriteKind(q)
  BY <1>5, Writing
<1>6. CASE UNCHANGED <<run, work>>
  BY <1>6
<1>7. CASE (\E d \in Docs : Flush(d) \/ Enrich(d)) \/ (\E o \in open : Land(o)) \/ Tick \/ UNCHANGED indexVars
  BY <1>6, <1>7 DEF Flush, Enrich, Land, Tick, indexVars
<1> QED BY <1>1, <1>2, <1>3, <1>4, <1>5, <1>7, IndexSteps

LEMMA TimesStep == IndexShape /\ IndexStep => Timed'
<1> SUFFICES ASSUME IndexShape, IndexStep PROVE Timed'
  OBVIOUS
<1> IndexTypeOK /\ FilingsNumbered /\ Retagged /\ Families /\ Stamped /\ Timed
  BY DEF IndexShape
<1> USE StampTypes
<1>1. ASSUME NEW r \in Runners, run'[r].on PROVE run'[r].started <= clock' /\ clock' <= run'[r].started + RunFor
  <2>1. RunFor \in Nat
    BY IndexConstants
  <2>2. CASE Incremental(r) \/ Full(r) \/ Reapply(r)
    BY <2>1, <2>2, Beginning
  <2>3. CASE run'[r] = run[r]
    <3>1. CASE Tick
      BY <1>1, <2>1, <2>3, <3>1 DEF Tick, Timed
    <3>2. CASE ~ Tick
      <4>1. clock' = clock
        BY <3>2, IndexSteps, Enriching, Landing, Beginning, Reading, Writing, Committing DEF Flush, FailRun, indexVars
      <4> QED BY <1>1, <2>3, <4>1 DEF Timed
    <3> QED BY <3>1, <3>2
  <2>4. CASE ReadKind(r) \/ WriteKind(r)
    BY <2>3, <2>4, Reading, Writing
  <2> QED BY <1>1, <2>2, <2>3, <2>4, RunsStay
<1>2. ASSUME NEW r \in Runners, ~ run'[r].on
      PROVE  run'[r] = NoRun /\ work'[r] = Idle(NoMark, {}) /\ saw'[r] = {} /\ r \notin crossed'
  <2>1. CASE run'[r] = run[r] /\ work'[r] = work[r]
    <3>1. run[r] = NoRun /\ work[r] = Idle(NoMark, {}) /\ saw[r] = {} /\ r \notin crossed
      BY <1>2, <2>1 DEF Timed
    <3>2. saw'[r] = {} /\ r \notin crossed'
      <4>1. CASE \E q \in Runners : CommitRun(q)
        <5>1. PICK q \in Runners : CommitRun(q)
          BY <4>1
        <5> QED BY <1>2, <2>1, <3>1, <5>1, Committing
      <4>2. CASE \E q \in Runners : FailRun(q)
        BY <3>1, <4>2 DEF FailRun, IndexTypeOK
      <4>3. CASE \E q \in Runners : Incremental(q) \/ Full(q) \/ Reapply(q)
        <5>1. PICK q \in Runners : Incremental(q) \/ Full(q) \/ Reapply(q)
          BY <4>3
        <5> QED BY <1>2, <3>1, <5>1, Beginning
      <4>4. CASE \E o \in open : Land(o)
        BY <3>1, <4>4, Landing
      <4>5. CASE \E d \in Docs : Enrich(d)
        BY <3>1, <4>5, Enriching
      <4> QED BY <3>1, <4>1, <4>2, <4>3, <4>4, <4>5, IndexSteps, Reading, Writing DEF Flush, Tick, indexVars
    <3> QED BY <2>1, <3>1, <3>2
  <2>2. CASE ReadKind(r) \/ WriteKind(r)
    BY <1>2, <2>2, Reading, Writing
  <2>3. CASE Incremental(r) \/ Full(r) \/ Reapply(r)
    BY <1>2, <2>3, Beginning
  <2> QED BY <2>1, <2>2, <2>3, RunsStay
<1>3. ASSUME NEW r \in Runners, NEW q \in Runners, run'[r].on, run'[q].on, r \in crossed', q \notin crossed'
      PROVE  run'[r].started <= run'[q].started
  <2>1. CASE \E p \in Runners : CommitRun(p)
    <3>1. PICK p \in Runners : CommitRun(p)
      BY <2>1
    <3>2. q # p /\ ~ run[q].on
      BY <1>3, <3>1, Committing, Ending, IdleRun
    <3>3. run'[q] = run[q]
      BY <3>1, <3>2, Committing, Ending
    <3> QED BY <1>3, <3>2, <3>3
  <2>2. CASE ~ \E p \in Runners : CommitRun(p)
    <3>1. crossed' \subseteq crossed /\ (~ (\E p \in Runners : FailRun(p)) => crossed' = crossed)
      BY <2>2, IndexSteps, Enriching, Landing, Beginning, Reading, Writing DEF Flush, FailRun, Tick, indexVars
    <3>2. r \in crossed /\ run[r].on
      BY <1>3, <3>1 DEF Timed
    <3>3. run'[r] = run[r]
      BY <1>3, <3>2, RunsStay, Beginning, Reading, Writing
    <3>4. CASE Incremental(q) \/ Full(q) \/ Reapply(q)
      BY <3>2, <3>3, <3>4, Beginning DEF Timed
    <3>5. CASE ~ (Incremental(q) \/ Full(q) \/ Reapply(q))
      <4>1. run'[q] = run[q]
        BY <1>3, <3>5, RunsStay, Reading, Writing
      <4>2. q \notin crossed
        BY <1>3, <4>1, <3>1, Ending, IdleRun DEF FailRun
      <4> QED BY <1>3, <3>2, <3>3, <4>1, <4>2 DEF Timed
    <3> QED BY <3>4, <3>5
  <2> QED BY <2>1, <2>2
<1> QED BY <1>1, <1>2, <1>3 DEF Timed

LEMMA OnlyCommits ==
    ASSUME IndexShape, IndexStep, ~ \E r \in Runners : CommitRun(r)
    PROVE  index' = index /\ watermark' = watermark
<1> IndexTypeOK /\ FilingsNumbered /\ Retagged /\ Families
  BY DEF IndexShape
<1> QED BY IndexSteps, Enriching, Landing, Beginning, Reading, Writing DEF Flush, FailRun, Tick, indexVars

LEMMA NumbersStep == IndexShape /\ IndexStep => FilingsNumbered'
<1> SUFFICES ASSUME IndexShape, IndexStep PROVE FilingsNumbered'
  OBVIOUS
<1> IndexTypeOK /\ FilingsNumbered /\ Retagged /\ Families /\ Stamped /\ Timed
  BY DEF IndexShape
<1>1. ASSUME NEW n, Reached(n), n \in Nat PROVE Reached(n)'
  <2>1. CASE n = 0
    BY <2>1 DEF Reached
  <2>2. CASE \E e \in Docs : Kind[e] = "filing" /\ Stored(e) /\ doc[e].id = n
    <3>1. PICK e \in Docs : Kind[e] = "filing" /\ Stored(e) /\ doc[e].id = n
      BY <2>2
    <3>2. CASE \E o \in open : Land(o)
      <4>1. PICK o \in open : Land(o)
        BY <3>2
      <4>2. e # o.doc
        BY <3>1 DEF Families, Stored
      <4>3. Stored(e)' /\ doc'[e].id = doc[e].id
        BY <3>1, <4>1, <4>2, Landing DEF Stored
      <4> QED BY <3>1, <4>3 DEF Reached
    <3>3. CASE ~ \E o \in open : Land(o)
      BY <3>1, <3>3, DocsStay DEF Reached
    <3> QED BY <3>2, <3>3
  <2> QED BY <1>1, <2>1, <2>2 DEF Reached
<1>2. Reached(watermark.filing_id)'
  <2>1. CASE \E r \in Runners : CommitRun(r)
    <3>1. PICK r \in Runners : CommitRun(r)
      BY <2>1
    <3>2. PICK n : n = work[r].mark.filing_id
      OBVIOUS
    <3>3. Reached(n)' /\ watermark'.filing_id = n
      BY <3>1, <3>2, <1>1, Committing, StampTypes DEF FilingsNumbered
    <3> QED BY <3>3
  <2>2. CASE ~ \E r \in Runners : CommitRun(r)
    <3>1. PICK n : n = watermark.filing_id
      OBVIOUS
    <3>2. Reached(n)' /\ watermark' = watermark
      BY <2>2, <3>1, <1>1, OnlyCommits, StampTypes DEF FilingsNumbered
    <3> QED BY <3>1, <3>2
  <2> QED BY <2>1, <2>2
<1>3. ASSUME NEW r \in Runners PROVE Reached(work[r].mark.filing_id)'
  <2>1. PICK n : n = work[r].mark.filing_id
    OBVIOUS
  <2>2. Reached(n)'
    BY <2>1, <1>1, StampTypes DEF FilingsNumbered
  <2>3. CASE work'[r].mark.filing_id = n
    BY <2>2, <2>3
  <2>4. CASE ReadKind(r)
    <3>1. CASE work'[r].mark.filing_id = n
      BY <2>2, <3>1
    <3>2. CASE work'[r].mark.filing_id # n
      <4>1. PICK d \in work'[r].items : work'[r].mark.filing_id = doc[d].id
        BY <2>1, <2>4, <3>2, Reading
      <4>2. Order[work[r].at] = "filing" /\ doc' = doc /\ work[r].at \in 1 .. 4
        BY <2>1, <2>4, <3>2, Reading
      <4>3. d \in Docs /\ Turn(d) = work[r].at /\ Seen(r, d)
        BY <2>4, <4>1, <4>2, SelectedAre, Reading
      <4>4. Kind[d] = "filing" /\ Stored(d)
        BY <4>2, <4>3, TurnOf DEF Seen
      <4>5. Stored(d)' /\ doc'[d].id = doc[d].id
        BY <4>2, <4>4 DEF Stored
      <4> QED BY <4>1, <4>3, <4>4, <4>5 DEF Reached
    <3> QED BY <3>1, <3>2
  <2>5. CASE Incremental(r) \/ Full(r) \/ Reapply(r)
    <3>1. work'[r].mark = watermark \/ work'[r].mark = NoMark
      BY <2>5, Beginning
    <3>2. watermark' = watermark
      BY <2>5, Beginning
    <3> QED BY <1>2, <3>1, <3>2, IdleRun DEF Reached
  <2>6. CASE work'[r] = Idle(NoMark, {})
    BY <2>6, IdleRun DEF Reached
  <2>7. CASE WriteKind(r)
    BY <2>1, <2>3, <2>7, Writing
  <2> QED BY <2>1, <2>3, <2>4, <2>5, <2>6, <2>7, RunsStay
<1>4. CASE \E d \in Docs : Flush(d)
  <2>1. PICK d \in Docs : Flush(d)
    BY <1>4
  <2>2. PICK o \in [doc : Docs, stamp : Nat, id : Nat] :
              /\ open' = open \cup {o} /\ o.id > 0 /\ \A p \in open : p.id # o.id
              /\ \A e \in Docs : Stored(e) => doc[e].id # o.id
              /\ \E n \in Nat : o.id <= n /\ (\A p \in open : p.id <= n) /\ \A e \in Docs : doc[e].id <= n
              /\ doc' = doc
    BY <2>1, Flushing
  <2> QED BY <2>2, <1>2, <1>3 DEF FilingsNumbered, Stored
<1>5. CASE \E o \in open : Land(o)
  <2>1. PICK o \in open : Land(o)
    BY <1>5
  <2>2. /\ open' = open \ {o} /\ o.doc \in Docs
        /\ Stored(o.doc)' /\ doc'[o.doc].id = o.id
        /\ \A d \in Docs \ {o.doc} : (Stored(d)' => Stored(d)) /\ doc'[d].id = doc[d].id
    BY <2>1, Landing DEF Stored
  <2>3. PICK n \in Nat : (\A p \in open : p.id <= n) /\ \A e \in Docs : doc[e].id <= n
    BY DEF FilingsNumbered
  <2>4. \A e \in Docs : doc'[e].id <= n
    BY <2>2, <2>3
  <2>5. \A d \in Docs : Stored(d)' => doc'[d].id > 0
    BY <2>2 DEF FilingsNumbered
  <2>6. \A p \in open' : p.id > 0 /\ \A d \in Docs : Stored(d)' => doc'[d].id # p.id
    BY <2>1, <2>2 DEF FilingsNumbered
  <2>7. \A p, q \in open' : p.id = q.id => p = q
    BY <2>2 DEF FilingsNumbered
  <2>8. \E k \in Nat : (\A p \in open' : p.id <= k) /\ \A e \in Docs : doc'[e].id <= k
    BY <2>2, <2>3, <2>4
  <2> QED BY <2>5, <2>6, <2>7, <2>8, <1>2, <1>3 DEF FilingsNumbered
<1>6. CASE ~ (\E d \in Docs : Flush(d)) /\ ~ \E o \in open : Land(o)
  <2>1. open' = open
    BY <1>6, IndexSteps, Enriching, Beginning, Reading, Writing, Committing DEF FailRun, Tick, indexVars
  <2>2. \A d \in Docs : Stored(d)' => Stored(d) /\ doc'[d].id = doc[d].id
    BY <1>6, DocsStay
  <2>3. PICK n \in Nat : (\A p \in open : p.id <= n) /\ \A e \in Docs : doc[e].id <= n
    BY DEF FilingsNumbered
  <2>4. \A e \in Docs : doc'[e].id <= n
    <3>1. \A e \in Docs : doc'[e].id = doc[e].id \/ doc'[e].id = 0
      BY <1>6, DocsStay
    <3>2. 0 <= n
      OBVIOUS
    <3> QED BY <2>3, <3>1, <3>2
  <2>5. \A d \in Docs : Stored(d)' => doc'[d].id > 0
    BY <2>2 DEF FilingsNumbered
  <2>6. \A p \in open' : p.id > 0 /\ \A d \in Docs : Stored(d)' => doc'[d].id # p.id
    BY <2>1, <2>2 DEF FilingsNumbered
  <2>7. \A p, q \in open' : p.id = q.id => p = q
    BY <2>1 DEF FilingsNumbered
  <2>8. \E k \in Nat : (\A p \in open' : p.id <= k) /\ \A e \in Docs : doc'[e].id <= k
    BY <2>1, <2>3, <2>4
  <2> QED BY <2>5, <2>6, <2>7, <2>8, <1>2, <1>3 DEF FilingsNumbered
<1> QED BY <1>4, <1>5, <1>6

LEMMA FamiliesStep == IndexShape /\ IndexStep => Families'
<1> SUFFICES ASSUME IndexShape, IndexStep PROVE Families'
  OBVIOUS
<1> IndexTypeOK /\ FilingsNumbered /\ Retagged /\ Families /\ Stamped /\ Timed
  BY DEF IndexShape
<1>0. \A d \in Docs : Corrects[d] \in Docs /\ (Corrects[d] # d => Kind[d] = "disclosure" /\ Kind[Corrects[d]] = "disclosure")
  BY IndexConstants
<1>1. CASE \E o \in open : Land(o)
  <2>1. PICK o \in open : Land(o)
    BY <1>1
  <2>2. /\ open' = open \ {o} /\ o.doc \in Docs /\ Stored(o.doc)'
        /\ Corrects[o.doc] # o.doc => Stored(Corrects[o.doc]) /\ Stored(Corrects[o.doc])'
        /\ \A d \in Docs \ {o.doc, Corrects[o.doc]} : doc'[d] = doc[d]
    BY <2>1, Landing DEF Stored
  <2>3. \A d \in Docs : Stored(d) => Stored(d)'
    BY <2>2 DEF Stored
  <2>4. \A d \in Docs : Stored(d)' => d = o.doc \/ Stored(d)
    BY <2>2 DEF Stored
  <2>5. \A d \in Docs : Stored(d)' => Stored(Corrects[d])'
    BY <1>0, <2>2, <2>3, <2>4 DEF Families
  <2>6. \A p \in open' : Corrects[p.doc] # p.doc => Stored(Corrects[p.doc])'
    BY <1>0, <2>2, <2>3, StampTypes DEF Families
  <2>7. \A p \in open' : doc'[p.doc].state = "absent" \/ (Kind[p.doc] = "note" /\ Stored(p.doc)')
    <3>1. \A p \in open' : p \in open /\ p.doc # o.doc /\ p.doc \in Docs
      BY <2>1, <2>2, StampTypes DEF Stamped
    <3>2. \A p \in open' : doc[p.doc].state = "absent" => p.doc # Corrects[o.doc]
      BY <3>1, <2>2 DEF Stored
    <3> QED BY <2>2, <2>3, <3>1, <3>2 DEF Families
  <2>8. \A d \in Docs : doc'[d].state = "gone" => Kind[d] = "news"
    <3>1. \A d \in Docs : doc'[d].state = "gone" => d # o.doc /\ (d = Corrects[o.doc] => d = o.doc)
      BY <2>2 DEF Stored
    <3> QED BY <2>2, <3>1 DEF Families
  <2> QED BY <2>5, <2>6, <2>7, <2>8 DEF Families
<1>2. CASE ~ \E o \in open : Land(o)
  <2>1. \A d \in Docs : Stored(d)' => Stored(d)
    BY <1>2, DocsStay
  <2>2. \A d \in Docs : Stored(d) /\ Kind[d] # "news" => Stored(d)'
    BY <1>2, DocsStay
  <2>3. \A d \in Docs : Stored(d)' => Stored(Corrects[d])'
    BY <1>0, <2>1, <2>2 DEF Families
  <2>4. \A d \in Docs : doc'[d].state = "gone" => Kind[d] = "news"
    BY <1>2, DocsStay DEF Families
  <2>5. ASSUME NEW p \in open'
        PROVE  /\ Corrects[p.doc] # p.doc => Stored(Corrects[p.doc])'
               /\ doc'[p.doc].state = "absent" \/ (Kind[p.doc] = "note" /\ Stored(p.doc)')
    <3>1. p.doc \in Docs /\ (Corrects[p.doc] # p.doc => Stored(Corrects[p.doc]))
          /\ (doc[p.doc].state = "absent" \/ (Kind[p.doc] = "note" /\ Stored(p.doc)))
      <4>1. CASE p \in open
        BY <4>1, StampTypes DEF Families
      <4>2. CASE p \notin open
        <5>1. PICK d \in Docs : Flush(d)
          BY <1>2, <4>2, <2>5, IndexSteps, Enriching, Beginning, Reading, Writing, Committing DEF FailRun, Tick, indexVars
        <5> QED BY <2>5, <4>2, <5>1, Flushing
      <4> QED BY <4>1, <4>2
    <3>2. doc'[p.doc].state = "absent" <=> doc[p.doc].state = "absent"
      BY <1>2, <3>1, DocsStay
    <3> QED BY <1>0, <2>2, <3>1, <3>2
  <2> QED BY <2>3, <2>4, <2>5 DEF Families
<1> QED BY <1>1, <1>2

LEMMA RetagsStep == IndexShape /\ IndexStep => Retagged'
<1> SUFFICES ASSUME IndexShape, IndexStep, NEW r \in Runners
             PROVE  /\ run'[r].drops \subseteq run'[r].retags
                    /\ \A d \in run'[r].retags : Kind[d] = "news" /\ Stored(d)' /\ doc'[d].stamp >= run'[r].cut
  BY DEF Retagged
<1> IndexTypeOK /\ FilingsNumbered /\ Retagged /\ Families /\ Stamped /\ Timed /\ RowsHeld
  BY DEF IndexShape
<1>1. CASE Incremental(r) \/ Full(r) \/ Reapply(r)
  BY <1>1, Beginning DEF Stored
<1>2. CASE run'[r] = NoRun
  BY <1>2, IdleRun
<1>3. CASE run'[r] = run[r] /\ run'[r] # NoRun
  <2>1. run'[r].drops \subseteq run'[r].retags
    BY <1>3 DEF Retagged
  <2>2. ASSUME NEW d \in run[r].retags PROVE Stored(d)' /\ doc'[d].stamp = doc[d].stamp
    <3>1. Kind[d] = "news" /\ Stored(d) /\ d \in Docs
      BY StampTypes DEF Retagged
    <3>2. CASE \E o \in open : Land(o)
      <4>1. PICK o \in open : Land(o)
        BY <3>2
      <4>2. d # o.doc /\ d # Corrects[o.doc]
        BY <3>1, IndexConstants, StampTypes DEF Families, Stored
      <4> QED BY <3>1, <4>1, <4>2, Landing DEF Stored
    <3>3. CASE \E q \in Runners : CommitRun(q)
      <4>1. PICK q \in Runners : CommitRun(q)
        BY <3>3
      <4>2. q # r
        BY <1>3, <4>1, Committing, Ending
      <4>3. d \notin run[q].retags
        BY <4>2 DEF RowsHeld
      <4> QED BY <3>1, <4>1, <4>3, Committing DEF Stored
    <3>4. CASE ~ (\E o \in open : Land(o)) /\ ~ \E q \in Runners : CommitRun(q)
      <4>1. CASE \E e \in Docs : Enrich(e)
        BY <3>1, <4>1, Enriching DEF Stored
      <4>2. CASE ~ \E e \in Docs : Enrich(e)
        <5>1. doc' = doc
          BY <3>4, <4>2, IndexSteps, Beginning, Reading, Writing DEF Flush, FailRun, Tick, indexVars
        <5> QED BY <3>1, <5>1 DEF Stored
      <4> QED BY <4>1, <4>2
    <3> QED BY <3>2, <3>3, <3>4
  <2> QED BY <1>3, <2>1, <2>2 DEF Retagged
<1> QED BY <1>1, <1>2, <1>3, RunsStay, Reading, Writing

LEMMA RowsHeldStep == IndexShape /\ IndexStep => RowsHeld'
<1> SUFFICES ASSUME IndexShape, IndexStep PROVE RowsHeld'
  OBVIOUS
<1> IndexTypeOK /\ FilingsNumbered /\ Retagged /\ Families /\ Stamped /\ Timed /\ RowsHeld
  BY DEF IndexShape
<1>1. ASSUME NEW d \in Docs, doc'[d].state = "absent" PROVE doc[d].state = "absent"
  <2>1. CASE \E o \in open : Land(o)
    <3>1. PICK o \in open : Land(o)
      BY <2>1
    <3>2. d # o.doc /\ (d = Corrects[o.doc] => d = o.doc)
      BY <1>1, <3>1, Landing
    <3> QED BY <1>1, <3>1, <3>2, Landing
  <2>2. CASE ~ \E o \in open : Land(o)
    BY <1>1, <2>2, DocsStay
  <2> QED BY <2>1, <2>2
<1>2. ASSUME NEW d \in Docs, doc'[d].state = "absent"
      PROVE  index'[d] = NoRow /\ \A r \in Runners : d \notin work'[r].items /\ d \notin work'[r].wrote
  <2>1. index[d] = NoRow /\ \A r \in Runners : d \notin work[r].items /\ d \notin work[r].wrote
    BY <1>1, <1>2 DEF RowsHeld
  <2>2. index'[d] = NoRow
    <3>1. CASE \E r \in Runners : CommitRun(r)
      BY <2>1, <3>1, Committing DEF Row
    <3>2. CASE ~ \E r \in Runners : CommitRun(r)
      BY <2>1, <3>2, OnlyCommits
    <3> QED BY <3>1, <3>2
  <2>3. ASSUME NEW r \in Runners PROVE d \notin work'[r].items /\ d \notin work'[r].wrote
    <3>1. CASE Incremental(r) \/ Full(r) \/ Reapply(r)
      <4>1. work'[r].items = {} /\ \A e \in work'[r].wrote : index[e] # NoRow
        BY <3>1, Beginning
      <4> QED BY <2>1, <4>1
    <3>2. CASE ReadKind(r)
      <4>1. work'[r].wrote = work[r].wrote /\ work'[r].items = Selected(r, Order[work[r].at]) /\ work[r].at \in 1 .. 4
        BY <3>2, Reading
      <4>2. d \in work'[r].items => Seen(r, d)
        BY <4>1, SelectedAre
      <4> QED BY <2>1, <4>1, <4>2, <1>1, <1>2 DEF Seen, Stored
    <3>3. CASE WriteKind(r)
      <4>1. work'[r].items = {} /\ \A e \in work'[r].wrote : e \in work[r].wrote \/ e \in work[r].items \/ Row(r, e) # NoRow
        BY <3>3, Writing
      <4> QED BY <2>1, <4>1 DEF Row
    <3>4. CASE work'[r] = Idle(NoMark, {})
      BY <3>4, IdleRun
    <3> QED BY <2>1, <3>1, <3>2, <3>3, <3>4, RunsStay
  <2> QED BY <2>2, <2>3
<1>3. ASSUME NEW r \in Runners, NEW q \in Runners, r # q,
             work'[r].wrote \cup run'[r].retags \subseteq work[r].wrote \cup run[r].retags
      PROVE  (work'[r].wrote \cup run'[r].retags) \cap (work'[q].wrote \cup run'[q].retags) = {}
  <2>1. (work[r].wrote \cup run[r].retags) \cap (work[q].wrote \cup run[q].retags) = {}
    BY <1>3 DEF RowsHeld
  <2>2. CASE Incremental(q) \/ Full(q) \/ Reapply(q)
    <3>1. (work'[q].wrote \cup run'[q].retags) \cap (work[r].wrote \cup run[r].retags) = {}
      BY <1>3, <2>2, Beginning
    <3> QED BY <1>3, <3>1
  <2>3. CASE WriteKind(q)
    <3>1. (work'[q].wrote \ work[q].wrote) \cap (work[r].wrote \cup run[r].retags) = {} /\ run' = run
      BY <1>3, <2>3, Writing
    <3> QED BY <1>3, <2>1, <3>1
  <2>4. CASE ReadKind(q)
    BY <1>3, <2>1, <2>4, Reading
  <2>5. CASE run'[q] = NoRun /\ work'[q] = Idle(NoMark, {})
    BY <2>5, IdleRun
  <2>6. CASE run'[q] = run[q] /\ work'[q] = work[q]
    BY <1>3, <2>1, <2>6
  <2> QED BY <2>2, <2>3, <2>4, <2>5, <2>6, RunsStay
<1>4. ASSUME NEW r \in Runners, NEW q \in Runners, r # q
      PROVE  \/ work'[r].wrote \cup run'[r].retags \subseteq work[r].wrote \cup run[r].retags
             \/ work'[q].wrote \cup run'[q].retags \subseteq work[q].wrote \cup run[q].retags
  <2>1. CASE run'[r] = run[r] /\ work'[r] = work[r]
    BY <2>1
  <2>2. CASE run'[r] = NoRun /\ work'[r] = Idle(NoMark, {})
    BY <2>2, IdleRun
  <2>3. CASE ReadKind(r)
    BY <2>3, Reading
  <2>4. CASE WriteKind(r)
    BY <1>4, <2>4, Writing
  <2>5. CASE Incremental(r) \/ Full(r) \/ Reapply(r)
    BY <1>4, <2>5, Beginning
  <2> QED BY <2>1, <2>2, <2>3, <2>4, <2>5, RunsStay
<1>5. ASSUME NEW r \in Runners, NEW q \in Runners, r # q
      PROVE  (work'[r].wrote \cup run'[r].retags) \cap (work'[q].wrote \cup run'[q].retags) = {}
  <2>1. CASE work'[r].wrote \cup run'[r].retags \subseteq work[r].wrote \cup run[r].retags
    BY <1>3, <1>5, <2>1
  <2>2. CASE work'[q].wrote \cup run'[q].retags \subseteq work[q].wrote \cup run[q].retags
    <3>1. (work'[q].wrote \cup run'[q].retags) \cap (work'[r].wrote \cup run'[r].retags) = {}
      BY <1>3, <1>5, <2>2
    <3> QED BY <3>1
  <2> QED BY <1>4, <1>5, <2>1, <2>2
<1> QED BY <1>2, <1>5 DEF RowsHeld

LEMMA HandedStep == IndexShape /\ IndexStep => Handed'
<1> SUFFICES ASSUME IndexShape, IndexStep, NEW r \in Runners
             PROVE  /\ work'[r].reading => work'[r].items = {}
                    /\ ~ work'[r].reading => work'[r].at <= 4
                    /\ \A d \in work'[r].items : Turn(d) = work'[r].at
                    /\ work'[r].at = 3 /\ ~ work'[r].reading => run'[r].retags \ run'[r].drops \subseteq work'[r].items
  BY DEF Handed
<1> IndexTypeOK /\ FilingsNumbered /\ Retagged /\ Families /\ Stamped /\ Timed /\ RowsHeld /\ Handed
  BY DEF IndexShape
<1>1. CASE run'[r] = run[r] /\ work'[r] = work[r]
  BY <1>1 DEF Handed
<1>2. CASE work'[r] = Idle(NoMark, {})
  BY <1>2, IdleRun
<1>3. CASE Incremental(r) \/ Full(r) \/ Reapply(r)
  BY <1>3, Beginning
<1>4. CASE WriteKind(r)
  BY <1>4, Writing
<1>5. CASE ReadKind(r)
  <2>1. /\ work[r].at \in 1 .. 4 /\ work'[r].items = Selected(r, Order[work[r].at]) /\ run' = run
        /\ work'[r].items = {} /\ Order[work[r].at] # "news" => work'[r].reading
        /\ ~ (work'[r].items = {} /\ Order[work[r].at] # "news") => work'[r].at = work[r].at /\ ~ work'[r].reading
    BY <1>5, Reading
  <2>2. work'[r].items \subseteq {d \in Docs : Turn(d) = work[r].at /\ Seen(r, d)}
    BY <2>1, SelectedAre
  <2>3. ASSUME work[r].at = 3, NEW d \in run[r].retags \ run[r].drops PROVE d \in work'[r].items
    <3>1. d \in Docs /\ Kind[d] = "news" /\ Seen(r, d) /\ doc[d].stamp >= run[r].cut
      BY StampTypes DEF Retagged, Seen
    <3>2. Turn(d) = 3
      BY <3>1 DEF Turn
    <3>3. Late(d, run[r].cut)
      BY <3>1 DEF Late, StampedSince, Seen
    <3> QED BY <2>1, <2>3, <3>1, <3>2, <3>3, SelectedAre
  <2> QED BY <2>1, <2>2, <2>3
<1> QED BY <1>1, <1>2, <1>3, <1>4, <1>5, RunsStay

LEMMA ShapeStep == IndexShape /\ IndexStep => IndexShape'
BY IndexTypes, StampsStep, TimesStep, NumbersStep, FamiliesStep, RowsHeldStep, RetagsStep, HandedStep DEF IndexShape

-----------------------------------------------------------------------------
(* Documents and their texts *)

LEMMA LateEarlier ==
    ASSUME IndexTypeOK, NEW d \in Docs, NEW x \in Int, NEW y \in Int, y <= x, Late(d, x)
    PROVE  Late(d, y)
<1>1. PICK e \in Docs : Stored(e) /\ (e = d \/ Corrects[e] = d) /\ doc[e].stamp >= x
  BY DEF Late, StampedSince
<1>2. doc[e].stamp >= y
  BY <1>1, StampTypes
<1> QED BY <1>1, <1>2 DEF Late, StampedSince

LEMMA EverythingIsLate ==
    ASSUME IndexTypeOK, NEW d \in Docs, Stored(d), Kind[d] # "filing"
    PROVE  Late(d, -1)
BY StampTypes DEF Late, StampedSince

LEMMA StoredNews ==
    ASSUME IndexShape, IndexStep, NEW d \in Docs, Stored(d)'
    PROVE  Stored(d) \/ doc[d].state = "absent"
<1> IndexTypeOK /\ Families
  BY DEF IndexShape
<1>1. CASE \E o \in open : Land(o)
  <2>1. PICK o \in open : Land(o)
    BY <1>1
  <2>2. CASE d = o.doc
    BY <2>2 DEF Families
  <2>3. CASE d # o.doc
    BY <2>1, <2>3, Landing DEF Stored
  <2> QED BY <2>2, <2>3
<1>2. CASE ~ \E o \in open : Land(o)
  BY <1>2, DocsStay
<1> QED BY <1>1, <1>2

LEMMA LateStays ==
    ASSUME IndexShape, IndexStep, NEW d \in Docs, NEW x \in Int, Late(d, x), Stored(d)'
    PROVE  Late(d, x)'
<1> IndexTypeOK /\ Families /\ Stamped
  BY DEF IndexShape
<1>1. PICK e \in Docs : Stored(e) /\ (e = d \/ Corrects[e] = d) /\ doc[e].stamp >= x
  BY DEF Late, StampedSince
<1>2. CASE \E o \in open : Land(o)
  <2>1. PICK o \in open : Land(o)
    BY <1>2
  <2>2. Stored(e)' /\ doc'[e].stamp >= doc[e].stamp
    <3>1. CASE e = o.doc
      BY <1>1, <2>1, <3>1, Landing, StampTypes DEF Stamped, Stored
    <3>2. CASE e # o.doc
      BY <1>1, <2>1, <3>2, Landing, StampTypes DEF Stored
    <3> QED BY <3>1, <3>2
  <2>3. doc'[e].stamp >= x
    <3>1. doc'[e].stamp \in Nat /\ doc[e].stamp \in Nat
      BY <2>1, Landing, StampTypes DEF IndexDocs
    <3> QED BY ONLY <3>1, <2>2, <1>1, x \in Int
  <2> QED BY <1>1, <2>2, <2>3 DEF Late, StampedSince
<1>3. CASE ~ \E o \in open : Land(o)
  <2>1. Stored(e)'
    BY <1>1, <1>3, DocsStay, IndexConstants
  <2>2. doc'[e].stamp = doc[e].stamp
    BY <1>3, <2>1, DocsStay
  <2> QED BY <1>1, <2>1, <2>2 DEF Late, StampedSince
<1> QED BY <1>2, <1>3

LEMMA AboveStays ==
    ASSUME IndexShape, IndexStep, NEW d \in Docs, Stored(d), Stored(d)', Kind[d] = "filing"
    PROVE  doc'[d].id = doc[d].id
<1> IndexTypeOK /\ Families /\ Stamped
  BY DEF IndexShape
<1>1. CASE \E o \in open : Land(o)
  <2>1. PICK o \in open : Land(o)
    BY <1>1
  <2>2. d # o.doc
    BY DEF Families, Stored
  <2> QED BY <2>1, <2>2, Landing
<1>2. CASE ~ \E o \in open : Land(o)
  BY <1>2, DocsStay
<1> QED BY <1>1, <1>2

\* What is landed was flushed no longer ago than a transaction stays open.
LEMMA LandsRecent ==
    ASSUME IndexShape, NEW o \in open, Land(o), NEW d \in {o.doc, Corrects[o.doc]}, Kind[d] # "filing",
           NEW x \in Int, x <= clock - OpenFor
    PROVE  Late(d, x)'
<1> IndexTypeOK /\ Families /\ Stamped
  BY DEF IndexShape
<1>1. o.doc \in Docs /\ Stored(o.doc)' /\ doc'[o.doc].stamp = o.stamp
  BY Landing DEF Stored
<1>2. clock \in Nat /\ o.stamp \in Nat /\ OpenFor \in Nat /\ clock <= o.stamp + OpenFor
  BY StampTypes, IndexConstants DEF Stamped
<1>3. o.stamp >= x
  BY ONLY <1>2, x \in Int, x <= clock - OpenFor
<1> QED BY <1>1, <1>3 DEF Late, StampedSince

\* The text of a document that is not excused stays, or the document is read again.
LEMMA TextStays ==
    ASSUME IndexShape, IndexStep, NEW d \in Docs \ excused', Stored(d)',
           \A r \in Runners : CommitRun(r) => d \notin run[r].retags
    PROVE  \/ Stored(d) /\ doc'[d].text = doc[d].text /\ (Settled(d) => Settled(d)')
           \/ Stored(d) /\ Kind[d] = "news" /\ ~ Settled(d) /\ \A r \in Runners : d \notin run[r].retags
           \/ Kind[d] # "filing" /\ \A x \in Int : x <= clock - OpenFor => Late(d, x)'
           \/ /\ Kind[d] = "filing" /\ doc[d].state = "absent"
              /\ \A n \in Nat : Reached(n) => doc'[d].id > n
<1> IndexTypeOK /\ Families /\ Stamped /\ FilingsNumbered /\ Retagged
  BY DEF IndexShape
<1>1. ASSUME doc'[d] = doc[d], clock' >= clock
      PROVE  Stored(d) /\ doc'[d].text = doc[d].text /\ (Settled(d) => Settled(d)')
  <2>1. IndexTypeOK'
    BY IndexTypes
  <2>2. clock' \in Nat /\ clock \in Nat /\ PendingFor \in Nat /\ doc[d].stamp \in Nat
    BY <2>1, StampTypes, IndexConstants DEF IndexTypeOK
  <2>3. doc[d].stamp < clock - PendingFor => doc[d].stamp < clock' - PendingFor
    BY ONLY <2>2, <1>1
  <2> QED BY <1>1, <2>3 DEF Stored, Settled
<1>2. CASE \E o \in open : Land(o)
  <2>1. PICK o \in open : Land(o)
    BY <1>2
  <2>2. CASE d \in {o.doc, Corrects[o.doc]} /\ Kind[d] # "filing"
    BY <2>1, <2>2, LandsRecent
  <2>3. CASE d \in {o.doc, Corrects[o.doc]} /\ Kind[d] = "filing"
    <3>1. d = o.doc
      BY <2>1, <2>3, IndexConstants, StampTypes
    <3>2. doc[d].state = "absent"
      BY <2>3, <3>1 DEF Families
    <3>3. \A e \in Docs : Kind[e] = "filing" /\ Stored(e) => ~ (doc[e].id > o.id)
      BY <2>1, <2>3, <3>1, Landing
    <3>4. doc'[d].id = o.id /\ o.id > 0 /\ (\A e \in Docs : Stored(e) => doc[e].id # o.id)
      BY <2>1, <3>1, Landing DEF FilingsNumbered
    <3>5. ASSUME NEW n \in Nat, Reached(n) PROVE o.id > n
      <4>1. CASE n = 0
        BY <3>4, <4>1
      <4>2. CASE \E e \in Docs : Kind[e] = "filing" /\ Stored(e) /\ doc[e].id = n
        <5>1. n # o.id /\ ~ (n > o.id)
          BY <4>2, <3>3, <3>4
        <5>2. o.id \in Nat
          BY StampTypes
        <5> QED BY ONLY <5>1, <5>2, n \in Nat
      <4> QED BY <3>5, <4>1, <4>2 DEF Reached
    <3> QED BY <2>3, <3>2, <3>4, <3>5
  <2>4. CASE d \notin {o.doc, Corrects[o.doc]}
    <3>1. doc'[d] = doc[d] /\ clock' = clock
      BY <2>1, <2>4, Landing
    <3>2. clock' >= clock
      BY <3>1, StampTypes
    <3> QED BY <1>1, <3>1, <3>2
  <2> QED BY <2>2, <2>3, <2>4
<1>3. CASE \E e \in Docs : Enrich(e)
  <2>1. PICK e \in Docs : Enrich(e)
    BY <1>3
  <2>2. CASE d = e
    BY <2>1, <2>2, Enriching DEF Settled
  <2>3. CASE d # e
    <3>1. doc'[d] = doc[d] /\ clock' = clock
      BY <2>1, <2>3, Enriching
    <3>2. clock' >= clock
      BY <3>1, StampTypes
    <3> QED BY <1>1, <3>1, <3>2
  <2> QED BY <2>2, <2>3
<1>4. CASE ~ (\E o \in open : Land(o)) /\ ~ \E e \in Docs : Enrich(e)
  <2>1. doc'[d] = doc[d]
    <3>1. CASE \E r \in Runners : CommitRun(r)
      BY <3>1, Committing
    <3>2. CASE ~ \E r \in Runners : CommitRun(r)
      BY <1>4, <3>2, IndexSteps, Beginning, Reading, Writing DEF Flush, FailRun, Tick, indexVars
    <3> QED BY <3>1, <3>2
  <2>2. clock' >= clock
    <3>1. clock' = clock \/ clock' = clock + 1
      BY <1>4, IndexSteps, Beginning, Reading, Writing, Committing DEF Flush, FailRun, Tick, indexVars
    <3> QED BY <3>1, StampTypes
  <2> QED BY <1>1, <2>1, <2>2
<1> QED BY <1>2, <1>3, <1>4

\* The same of what a run sees of it.
LEMMA SeenStays ==
    ASSUME IndexShape, IndexStep, NEW r \in Runners, run[r].on, run'[r] = run[r], NEW d \in Docs \ excused', Seen(r, d)'
    PROVE  \/ Seen(r, d) /\ Text(r, d)' = Text(r, d) /\ (Settled(d) => Settled(d)')
           \/ Seen(r, d) /\ Kind[d] = "news" /\ ~ Settled(d)
           \/ Kind[d] # "filing" /\ \A x \in Int : x <= clock - OpenFor => Late(d, x)'
           \/ /\ Kind[d] = "filing" /\ doc[d].state = "absent"
              /\ \A n \in Nat : Reached(n) => doc'[d].id > n
<1> IndexTypeOK /\ Families /\ Stamped /\ FilingsNumbered /\ Retagged
  BY DEF IndexShape
<1>1. Stored(d)' /\ d \notin run[r].drops
  BY DEF Seen
<1>2. ASSUME NEW q \in Runners, CommitRun(q) PROVE d \notin run[q].retags
  <2>1. q # r
    BY <1>2, Committing, Ending, IdleRun
  <2> QED BY <1>2, <2>1, Committing
<1>3. Stored(d) => (Seen(r, d) /\ (doc'[d].text = doc[d].text => Text(r, d)' = Text(r, d)))
  BY <1>1 DEF Seen, Text
<1> QED BY <1>1, <1>2, <1>3, TextStays

\* What a run has still to read, when another takes the step.
LEMMA AheadStays ==
    ASSUME IndexShape, IndexStep, NEW r \in Runners, run'[r] = run[r], work'[r] = work[r],
           NEW d \in Docs, Stored(d), Stored(d)', Ahead(r, d)
    PROVE  Ahead(r, d)'
<1> IndexTypeOK
  BY DEF IndexShape
<1>1. PICK x : x = run[r].cut
  OBVIOUS
<1>2. x \in Int
  BY <1>1, StampTypes
<1>3. Late(d, x) => Late(d, x)'
  BY <1>2, LateStays
<1>4. Late(d, run[r].cut) => Late(d, run[r].cut)'
  BY <1>1, <1>3
<1>5. PICK n : n = work[r].mark.filing_id
  OBVIOUS
<1>6. Above(d, n) => Above(d, n)'
  BY AboveStays DEF Above
<1>7. Above(d, work[r].mark.filing_id) => Above(d, work[r].mark.filing_id)'
  BY <1>5, <1>6
<1>8. Awaited(d, work[r].mark.pending) => Awaited(d, work[r].mark.pending)'
  BY DEF Awaited
<1> QED BY <1>4, <1>7, <1>8 DEF Ahead

-----------------------------------------------------------------------------
(* What the index promises *)

LEMMA InvParts ==
    ASSUME IndexInv
    PROVE  IndexShape /\ IndexTypeOK /\ Stamped /\ Timed /\ FilingsNumbered /\ Families /\ RowsHeld /\ Retagged /\ Handed
BY DEF IndexInv, IndexShape

\* A cut is no later than the moment before which nothing can still be landed, or it is -1.
LEMMA CutIs ==
    ASSUME IndexTypeOK, Stamped
    PROVE  /\ Cut(watermark) \in Int
           /\ Cut(watermark) = -1 \/ Cut(watermark) <= clock - OpenFor
<1>1. watermark.since \in Int /\ watermark.since <= clock /\ clock \in Nat
  BY StampTypes DEF Stamped
<1>2. OpenFor \in Nat /\ Slack \in Nat /\ RunFor \in Nat /\ OpenFor + RunFor <= Slack
  BY IndexConstants
<1>3. watermark.since - Slack \in Int /\ watermark.since - Slack <= clock - OpenFor
  BY ONLY <1>1, <1>2
<1> QED BY <1>3 DEF Cut

\* A run's rows and its watermark are committed together.
LEMMA CurrentCommit ==
    ASSUME IndexInv, IndexStep, NEW r \in Runners, CommitRun(r), NEW d \in Docs \ excused', Stored(d)'
    PROVE  \/ index'[d] = doc'[d].text /\ Settled(d)'
           \/ Late(d, Cut(watermark))'
           \/ Awaited(d, watermark.pending)'
           \/ Above(d, watermark.filing_id)'
<1> IndexShape /\ IndexTypeOK /\ Families /\ Retagged /\ Handed
  BY InvParts
<1>1. run[r].on /\ work[r].at = 5 /\ excused \subseteq excused' /\ index'[d] = Row(r, d) /\ clock' = clock
      /\ watermark'.since = run[r].started /\ watermark'.filing_id = work[r].mark.filing_id
      /\ watermark'.pending = work[r].mark.pending
      /\ (r \in crossed => watermark.pending \ work[r].mark.pending \subseteq excused')
  BY Committing
<1>2. d \notin run[r].drops /\ Stored(d)
  <2>1. d \notin run[r].drops
    BY Committing DEF Stored, NoDoc
  <2> QED BY <2>1, Committing DEF Stored
<1>3. doc'[d].text = Text(r, d) /\ doc'[d].stamp = doc[d].stamp
  <2>1. CASE d \in run[r].retags
    <3>1. doc'[d].text = doc[d].text \cup {"tags"} /\ doc'[d].stamp = doc[d].stamp
      BY <1>2, <2>1, Committing
    <3> QED BY <2>1, <3>1 DEF Text
  <2>2. CASE d \notin run[r].retags
    <3>1. doc'[d] = doc[d]
      BY <2>2, Committing
    <3> QED BY <2>2, <3>1 DEF Text
  <2> QED BY <2>1, <2>2
<1>4. RunCovers(r, d)
  BY <1>1, <1>2 DEF IndexInv, RunsCover, Seen
<1>5. ~ Ahead(r, d) /\ d \notin work[r].items
  <2>1. Turn(d) \in 1 .. 4
    BY TurnOf
  <2>2. ~ (5 < Turn(d)) /\ 5 # Turn(d)
    BY ONLY <2>1
  <2>3. ~ Ahead(r, d)
    BY <1>1, <2>2 DEF Ahead
  <2>4. work[r].items = {}
    BY <1>1 DEF Handed
  <2> QED BY <2>3, <2>4
<1>6. CASE Row(r, d) = Text(r, d) /\ Settled(d)
  <2>1. Settled(d)'
    <3>1. "ai" \in doc[d].text => "ai" \in Text(r, d)
      BY DEF Text
    <3> QED BY <1>1, <1>3, <1>6, <3>1 DEF Settled
  <2> QED BY <1>1, <1>3, <1>6, <2>1
<1>7. CASE Late(d, run[r].started - Slack)
  <2>1. PICK x : x = run[r].started - Slack
    OBVIOUS
  <2>2. run[r].started \in Nat /\ x \in Int
    BY <2>1, StampTypes, IndexConstants
  <2>3. Late(d, x)'
    BY <1>7, <2>1, <2>2, LateStays
  <2>4. Cut(watermark)' = x
    BY <1>1, <2>1, <2>2 DEF Cut
  <2> QED BY <2>3, <2>4
<1>8. CASE Awaited(d, work[r].mark.pending)
  BY <1>1, <1>8 DEF Awaited
<1>9. CASE r \in crossed /\ Awaited(d, watermark.pending)
  BY <1>1, <1>9 DEF Awaited
<1>10. CASE Above(d, work[r].mark.filing_id)
  BY <1>1, <1>2, <1>10, AboveStays DEF Above
<1> QED BY <1>4, <1>5, <1>6, <1>7, <1>8, <1>9, <1>10 DEF RunCovers

\* What is excused stays excused.
LEMMA ExcusedGrows ==
    ASSUME IndexInv, IndexStep
    PROVE  excused \subseteq excused'
<1> IndexShape /\ IndexTypeOK /\ Families /\ FilingsNumbered /\ Retagged
  BY InvParts
<1>1. CASE \E d \in Docs : Flush(d)
  BY <1>1 DEF Flush
<1>2. CASE \E d \in Docs : Enrich(d)
  BY <1>2, Enriching
<1>3. CASE \E o \in open : Land(o)
  BY <1>3, Landing
<1>4. CASE \E r \in Runners : Incremental(r) \/ Full(r) \/ Reapply(r)
  BY <1>4, Beginning
<1>5. CASE \E r \in Runners : ReadKind(r)
  BY <1>5, Reading
<1>6. CASE \E r \in Runners : WriteKind(r)
  BY <1>6, Writing
<1>7. CASE \E r \in Runners : CommitRun(r)
  BY <1>7, Committing
<1>8. CASE (\E r \in Runners : FailRun(r)) \/ Tick \/ UNCHANGED indexVars
  BY <1>8 DEF FailRun, Tick, indexVars
<1> QED BY <1>1, <1>2, <1>3, <1>4, <1>5, <1>6, <1>7, <1>8, IndexSteps

LEMMA CurrentStep == IndexInv /\ IndexStep => IndexCurrent'
<1> SUFFICES ASSUME IndexInv, IndexStep, NEW d \in Docs \ excused', Stored(d)'
             PROVE  \/ index'[d] = doc'[d].text /\ Settled(d)'
                    \/ Late(d, Cut(watermark))'
                    \/ Awaited(d, watermark.pending)'
                    \/ Above(d, watermark.filing_id)'
  BY DEF IndexCurrent
<1> IndexShape /\ IndexTypeOK /\ Stamped /\ FilingsNumbered
  BY InvParts
<1>1. CASE \E r \in Runners : CommitRun(r)
  BY <1>1, CurrentCommit
<1>2. CASE ~ \E r \in Runners : CommitRun(r)
  <2>1. index' = index /\ watermark' = watermark
    BY <1>2, OnlyCommits
  <2>2. d \notin excused
    BY ExcusedGrows
  <2>3. Stored(d) => \/ index[d] = doc[d].text /\ Settled(d)
                     \/ Late(d, Cut(watermark))
                     \/ Awaited(d, watermark.pending)
                     \/ Above(d, watermark.filing_id)
    BY <2>2 DEF IndexInv, IndexCurrent
  <2>4. PICK x : x = Cut(watermark)
    OBVIOUS
  <2>5. x \in Int /\ (x = -1 \/ x <= clock - OpenFor)
    BY <2>4, CutIs
  <2>6. Cut(watermark)' = x
    BY <2>1, <2>4 DEF Cut
  <2>7. Late(d, Cut(watermark)) => Late(d, Cut(watermark))'
    BY <2>4, <2>5, <2>6, LateStays
  <2>8. Awaited(d, watermark.pending) => Awaited(d, watermark.pending)'
    BY <2>1 DEF Awaited
  <2>9. Stored(d) /\ Above(d, watermark.filing_id) => Above(d, watermark.filing_id)'
    BY <2>1, AboveStays DEF Above
  <2>10. CASE Stored(d) /\ doc'[d].text = doc[d].text /\ (Settled(d) => Settled(d)')
    BY <2>1, <2>3, <2>7, <2>8, <2>9, <2>10
  <2>11. CASE Stored(d) /\ Kind[d] = "news" /\ ~ Settled(d)
    BY <2>3, <2>7, <2>8, <2>11 DEF Above
  <2>12. CASE Kind[d] # "filing" /\ \A y \in Int : y <= clock - OpenFor => Late(d, y)'
    <3>1. CASE x = -1
      <4>1. doc'[d].stamp \in Nat
        BY IndexTypes DEF IndexTypeOK, IndexDocs
      <4>2. doc'[d].stamp >= x
        BY ONLY <4>1, <3>1
      <4>3. Late(d, x)'
        BY <4>2, <2>12 DEF Late, StampedSince
      <4> QED BY <4>3, <2>6
    <3>2. CASE x <= clock - OpenFor
      BY <3>2, <2>5, <2>6, <2>12
    <3> QED BY <2>5, <3>1, <3>2
  <2>13. CASE Kind[d] = "filing" /\ doc[d].state = "absent" /\ \A n \in Nat : Reached(n) => doc'[d].id > n
    <3>1. watermark.filing_id \in Nat /\ Reached(watermark.filing_id)
      BY StampTypes DEF FilingsNumbered
    <3> QED BY <2>1, <2>13, <3>1 DEF Above
  <2> QED BY <1>2, <2>10, <2>11, <2>12, <2>13, TextStays
<1> QED BY <1>1, <1>2

\* A run begins: what it will not read is in the index.
LEMMA BeginsCovered ==
    ASSUME IndexInv, NEW r \in Runners, Incremental(r) \/ Full(r) \/ Reapply(r),
           NEW d \in Docs \ excused', Seen(r, d)'
    PROVE  (Row(r, d)' = Text(r, d)' /\ Settled(d)') \/ Ahead(r, d)'
<1> IndexShape /\ IndexTypeOK /\ FilingsNumbered
  BY InvParts
<1>1. /\ doc' = doc /\ index' = index /\ watermark' = watermark /\ clock' = clock /\ excused \subseteq excused'
      /\ work'[r].at = 1 /\ work'[r].reading /\ (\A e \in run'[r].retags : Kind[e] = "news" /\ Stored(e) /\ doc[e].stamp >= run'[r].cut)
  BY Beginning
<1>2. Stored(d) /\ d \notin run'[r].drops /\ d \notin excused
  BY <1>1 DEF Seen, Stored
<1>3. Turn(d) \in 1 .. 4
  BY TurnOf
<1>4. work'[r].at < Turn(d) \/ (work'[r].at = Turn(d) /\ work'[r].reading)
  <2>1. 1 < Turn(d) \/ 1 = Turn(d)
    BY ONLY <1>3
  <2> QED BY <1>1, <2>1
<1>5. Late(d, run'[r].cut) => Ahead(r, d)'
  <2>1. Late(d, run'[r].cut) => Late(d, run[r].cut)'
    BY <1>1 DEF Late, StampedSince, Stored
  <2> QED BY <1>4, <2>1 DEF Ahead, Turn
<1>6. CASE work'[r].mark = watermark /\ work'[r].wrote = {}
              /\ (\/ run'[r].cut = Cut(watermark) /\ run'[r].retags = {}
                  \/ \A e \in Docs \ excused' : Stored(e) /\ Late(e, Cut(watermark)) => Late(e, run'[r].cut))
  <2>1. CASE d \in run'[r].retags
    <3>1. Late(d, run'[r].cut)
      BY <1>1, <2>1 DEF Late, StampedSince
    <3> QED BY <1>5, <3>1
  <2>2. CASE d \notin run'[r].retags
    <3>1. CASE index[d] = doc[d].text /\ Settled(d)
      <4>1. Row(r, d)' = index[d]
        BY <1>1, <1>6 DEF Row
      <4>2. Text(r, d)' = doc[d].text
        BY <1>1, <2>2 DEF Text
      <4>3. Settled(d)'
        BY <1>1, <3>1 DEF Settled
      <4> QED BY <3>1, <4>1, <4>2, <4>3
    <3>2. CASE Late(d, Cut(watermark))
      BY <1>2, <1>5, <1>6, <3>2
    <3>3. CASE Awaited(d, watermark.pending)
      <4>1. Awaited(d, work[r].mark.pending)'
        BY <1>6, <3>3 DEF Awaited
      <4> QED BY <1>4, <4>1 DEF Ahead, Turn
    <3>4. CASE Above(d, watermark.filing_id)
      <4>1. Above(d, work[r].mark.filing_id)'
        BY <1>1, <1>6, <3>4 DEF Above
      <4> QED BY <1>4, <4>1 DEF Ahead, Turn
    <3> QED BY <1>2, <3>1, <3>2, <3>3, <3>4 DEF IndexInv, IndexCurrent
  <2> QED BY <2>1, <2>2
<1>7. CASE work'[r].mark = NoMark /\ run'[r].cut = -1
  <2>1. CASE Kind[d] # "filing"
    BY <1>2, <1>5, <1>7, <2>1, EverythingIsLate
  <2>2. CASE Kind[d] = "filing"
    <3>1. doc[d].id > 0
      BY <1>2 DEF FilingsNumbered
    <3>2. Above(d, work[r].mark.filing_id)'
      BY <1>1, <1>7, <2>2, <3>1, IdleRun DEF Above
    <3> QED BY <1>4, <3>2 DEF Ahead, Turn
  <2> QED BY <2>1, <2>2
<1> QED BY <1>6, <1>7, Beginning

LEMMA CoversBegin ==
    ASSUME IndexInv, NEW r \in Runners, Incremental(r) \/ Full(r) \/ Reapply(r),
           NEW d \in Docs \ excused', Seen(r, d)'
    PROVE  RunCovers(r, d)'
BY BeginsCovered DEF RunCovers

\* What a run has still to read, when it reads or writes a kind.
LEMMA AheadRead ==
    ASSUME IndexInv, NEW r \in Runners, ReadKind(r), NEW d \in Docs, Seen(r, d), Ahead(r, d)
    PROVE  Ahead(r, d)' \/ d \in work'[r].items
<1> IndexShape /\ IndexTypeOK /\ Families /\ Retagged
  BY InvParts
<1>1. /\ UNCHANGED <<clock, doc, open, index, watermark, run, saw, due, crossed, excused>>
      /\ work[r].at \in 1 .. 4 /\ work'[r].items = Selected(r, Order[work[r].at])
  BY Reading
<1>2. Turn(d) \in 1 .. 4 /\ (Order[work[r].at] = Kind[d] <=> work[r].at = Turn(d))
  BY <1>1, TurnOf
<1>3. CASE work[r].at = Turn(d)
  BY <1>1, <1>3, SelectedAre DEF Ahead
<1>4. CASE work[r].at # Turn(d)
  <2>1. work[r].at < Turn(d)
    BY <1>4 DEF Ahead
  <2>2. work'[r].at = work[r].at \/ (work'[r].at = work[r].at + 1 /\ work'[r].reading)
    BY Reading
  <2>3. work[r].at + 1 < Turn(d) \/ work[r].at + 1 = Turn(d)
    BY ONLY <2>1, <1>1, <1>2
  <2>4. work'[r].at < Turn(d) \/ (work'[r].at = Turn(d) /\ work'[r].reading)
    BY <2>1, <2>2, <2>3
  <2>5. Late(d, run[r].cut) => Late(d, run[r].cut)'
    BY <1>1 DEF Late, StampedSince, Stored
  <2>6. Awaited(d, work[r].mark.pending) => Awaited(d, work[r].mark.pending)'
    BY <1>2, <1>4, Reading DEF Awaited
  <2>7. Above(d, work[r].mark.filing_id) => Above(d, work[r].mark.filing_id)'
    BY <1>1, <1>2, <1>4, Reading DEF Above
  <2> QED BY <2>4, <2>5, <2>6, <2>7 DEF Ahead, Turn
<1> QED BY <1>3, <1>4

LEMMA AheadWrite ==
    ASSUME IndexInv, NEW r \in Runners, WriteKind(r), NEW d \in Docs, Ahead(r, d)
    PROVE  Ahead(r, d)'
<1> IndexShape
  BY InvParts
<1>1. /\ UNCHANGED <<clock, doc, open, index, watermark, run, saw, due, crossed, excused>>
      /\ ~ work[r].reading /\ work[r].at \in 1 .. 4
      /\ work'[r].at = work[r].at + 1 /\ work'[r].reading /\ work'[r].mark = work[r].mark
  BY Writing
<1>2. Turn(d) \in 1 .. 4
  BY TurnOf
<1>3. work[r].at < Turn(d)
  BY <1>1 DEF Ahead
<1>4. work[r].at + 1 < Turn(d) \/ work[r].at + 1 = Turn(d)
  BY ONLY <1>1, <1>2, <1>3
<1>5. Late(d, run[r].cut) => Late(d, run[r].cut)'
  BY <1>1 DEF Late, StampedSince, Stored
<1>6. work'[r].at < Turn(d) \/ (work'[r].at = Turn(d) /\ work'[r].reading)
  BY <1>1, <1>4
<1>7. Late(d, run[r].cut)' \/ Awaited(d, work[r].mark.pending)' \/ Above(d, work[r].mark.filing_id)'
  BY <1>1, <1>5 DEF Ahead, Awaited, Above
<1> QED BY <1>6, <1>7 DEF Ahead, Turn

\* A run reads a kind: what it selects is handed on, the rest it did not count on reading.
LEMMA CoversRead ==
    ASSUME IndexInv, NEW r \in Runners, ReadKind(r), NEW d \in Docs \ excused', Seen(r, d)'
    PROVE  RunCovers(r, d)'
<1> IndexShape /\ IndexTypeOK /\ FilingsNumbered /\ Families /\ Retagged /\ Handed
  BY InvParts
<1>1. /\ UNCHANGED <<clock, doc, open, index, watermark, run, saw, due, crossed, excused>>
      /\ work[r].reading /\ work[r].at \in 1 .. 4 /\ run[r].on
      /\ work'[r].items = Selected(r, Order[work[r].at])
      /\ work'[r].wrote = work[r].wrote /\ work'[r].rows = work[r].rows
  BY Reading
<1>2. Seen(r, d) /\ d \notin excused /\ work[r].items = {}
  BY <1>1 DEF Seen, Stored, Handed
<1>3. RunCovers(r, d)
  BY <1>1, <1>2 DEF IndexInv, RunsCover
<1>4. Row(r, d)' = Row(r, d) /\ Text(r, d)' = Text(r, d) /\ (Settled(d) => Settled(d)')
  BY <1>1 DEF Row, Text, Settled
<1>5. Turn(d) \in 1 .. 4 /\ (Order[work[r].at] = Kind[d] <=> work[r].at = Turn(d))
  BY <1>1, TurnOf
<1>6. work[r].at = Turn(d) /\ (Late(d, run[r].cut) \/ Awaited(d, work[r].mark.pending) \/ Above(d, work[r].mark.filing_id))
      => d \in work'[r].items
  BY <1>1, <1>2, SelectedAre
<1>7. d \in work'[r].items => RunCovers(r, d)'
  BY DEF RunCovers
<1>8. Awaited(d, work[r].mark.pending) => (work[r].at = Turn(d) \/ Awaited(d, work[r].mark.pending)')
  BY <1>5, Reading DEF Awaited
<1>9. Above(d, work[r].mark.filing_id) => (work[r].at = Turn(d) \/ Above(d, work[r].mark.filing_id)')
  BY <1>1, <1>5, Reading DEF Above
<1>10. CASE Row(r, d) = Text(r, d) /\ Settled(d)
  BY <1>4, <1>10 DEF RunCovers
<1>11. CASE Late(d, run[r].started - Slack)
  <2>1. Late(d, run[r].started - Slack)'
    BY <1>1, <1>11 DEF Late, StampedSince, Stored
  <2> QED BY <2>1 DEF RunCovers
<1>12. CASE Awaited(d, work[r].mark.pending)
  BY <1>6, <1>7, <1>8, <1>12 DEF RunCovers
<1>13. CASE r \in crossed /\ Awaited(d, watermark.pending)
  <2>1. r \in crossed' /\ Awaited(d, watermark.pending)'
    BY <1>1, <1>13 DEF Awaited
  <2> QED BY <2>1 DEF RunCovers
<1>14. CASE Ahead(r, d)
  BY <1>2, <1>7, <1>14, AheadRead DEF RunCovers
<1>15. CASE Above(d, work[r].mark.filing_id)
  BY <1>6, <1>7, <1>9, <1>15 DEF RunCovers
<1> QED BY <1>2, <1>3, <1>10, <1>11, <1>12, <1>13, <1>14, <1>15 DEF RunCovers

\* A run writes what it has read.
LEMMA CoversWrite ==
    ASSUME IndexInv, NEW r \in Runners, WriteKind(r), NEW d \in Docs \ excused', Seen(r, d)'
    PROVE  RunCovers(r, d)'
<1> IndexShape /\ IndexTypeOK /\ FilingsNumbered /\ Families /\ Retagged /\ Handed
  BY InvParts
<1>1. /\ UNCHANGED <<clock, doc, open, index, watermark, run, saw, due, crossed, excused>>
      /\ ~ work[r].reading /\ work[r].at \in 1 .. 4 /\ run[r].on
      /\ work'[r].at = work[r].at + 1 /\ work'[r].reading /\ work'[r].mark = work[r].mark
  BY Writing
<1>2. Seen(r, d) /\ d \notin excused
  BY <1>1 DEF Seen, Stored
<1>3. RunCovers(r, d)
  BY <1>1, <1>2 DEF IndexInv, RunsCover
<1>4. Text(r, d)' = Text(r, d) /\ (Settled(d) => Settled(d)')
  BY <1>1 DEF Text, Settled
<1>6. PICK x : x = run[r].started - Slack
  OBVIOUS
<1>7. run[r].started \in Nat /\ Slack \in Nat /\ OpenFor \in Nat /\ RunFor \in Nat /\ OpenFor + RunFor <= Slack
  BY StampTypes, IndexConstants
<1>8. x \in Int /\ run[r].started - OpenFor \in Int /\ x <= run[r].started - OpenFor
  BY ONLY <1>6, <1>7
<1>9. Late(d, x) => RunCovers(r, d)'
  <2>1. Late(d, x) => Late(d, run[r].started - Slack)'
    BY <1>1, <1>6 DEF Late, StampedSince, Stored
  <2> QED BY <2>1 DEF RunCovers
<1>10. Awaited(d, work[r].mark.pending) => RunCovers(r, d)'
  <2>1. Awaited(d, work[r].mark.pending) => Awaited(d, work[r].mark.pending)'
    BY <1>1 DEF Awaited
  <2> QED BY <2>1 DEF RunCovers
<1>11. CASE d \in work[r].items
  <2>1. Row(r, d)' = work[r].read[d]
    BY <1>11, Writing
  <2>2. \/ work[r].read[d] = Text(r, d) /\ Settled(d)
        \/ Late(d, run[r].started - OpenFor)
        \/ Awaited(d, work[r].mark.pending)
    BY <1>2, <1>11 DEF IndexInv, ReadTrue
  <2>3. CASE work[r].read[d] = Text(r, d) /\ Settled(d)
    BY <1>4, <2>1, <2>3 DEF RunCovers
  <2>4. CASE Late(d, run[r].started - OpenFor)
    BY <1>8, <1>9, <2>4, LateEarlier
  <2> QED BY <1>10, <2>2, <2>3, <2>4
<1>12. CASE d \notin work[r].items
  <2>1. Row(r, d)' = Row(r, d)
    BY <1>2, <1>12, Writing
  <2>2. CASE Row(r, d) = Text(r, d) /\ Settled(d)
    BY <1>4, <2>1, <2>2 DEF RunCovers
  <2>3. CASE r \in crossed /\ Awaited(d, watermark.pending)
    <3>1. r \in crossed' /\ Awaited(d, watermark.pending)'
      BY <1>1, <2>3 DEF Awaited
    <3> QED BY <3>1 DEF RunCovers
  <2>4. CASE Ahead(r, d)
    BY <2>4, AheadWrite DEF RunCovers
  <2>5. CASE Above(d, work[r].mark.filing_id)
    <3>1. Above(d, work[r].mark.filing_id)'
      BY <1>1, <2>5 DEF Above
    <3> QED BY <3>1 DEF RunCovers
  <2> QED BY <1>3, <1>6, <1>9, <1>10, <1>12, <2>2, <2>3, <2>4, <2>5 DEF RunCovers
<1> QED BY <1>11, <1>12

\* What a run counts on, other than its rows, still stands after the step of another.
LEMMA CoversKept ==
    ASSUME IndexInv, IndexStep, NEW r \in Runners, run[r].on, run'[r] = run[r], work'[r] = work[r],
           NEW d \in Docs, Stored(d), Stored(d)',
           \/ Late(d, run[r].started - Slack)
           \/ Awaited(d, work[r].mark.pending)
           \/ Ahead(r, d)
           \/ d \in work[r].items
           \/ Above(d, work[r].mark.filing_id)
    PROVE  RunCovers(r, d)'
<1> IndexShape /\ IndexTypeOK
  BY InvParts
<1>1. CASE Late(d, run[r].started - Slack)
  <2>1. PICK x : x = run[r].started - Slack
    OBVIOUS
  <2>2. x \in Int
    BY <2>1, StampTypes, IndexConstants
  <2>3. Late(d, x)'
    BY <1>1, <2>1, <2>2, LateStays
  <2>4. Late(d, run[r].started - Slack)'
    BY <2>1, <2>3
  <2> QED BY <2>4 DEF RunCovers
<1>2. CASE Awaited(d, work[r].mark.pending)
  <2>1. Awaited(d, work[r].mark.pending)'
    BY <1>2 DEF Awaited
  <2> QED BY <2>1 DEF RunCovers
<1>3. CASE Ahead(r, d)
  BY <1>3, AheadStays DEF RunCovers
<1>4. CASE d \in work[r].items
  BY <1>4 DEF RunCovers
<1>5. CASE Above(d, work[r].mark.filing_id)
  <2>1. Above(d, work[r].mark.filing_id)'
    BY <1>5, AboveStays DEF Above
  <2> QED BY <2>1 DEF RunCovers
<1> QED BY <1>1, <1>2, <1>3, <1>4, <1>5

\* Documents change while a run is under way.
LEMMA CoversStay ==
    ASSUME IndexInv, IndexStep, NEW r \in Runners, run[r].on, run'[r] = run[r], work'[r] = work[r],
           ~ \E q \in Runners : CommitRun(q), NEW d \in Docs \ excused', Seen(r, d)'
    PROVE  RunCovers(r, d)'
<1> IndexShape /\ IndexTypeOK /\ FilingsNumbered /\ Timed
  BY InvParts
<1>1. index' = index /\ watermark' = watermark /\ d \notin excused
  BY OnlyCommits, ExcusedGrows
<1>2. r \in crossed => r \in crossed'
  <2>1. CASE \E q \in Runners : FailRun(q)
    <3>1. PICK q \in Runners : FailRun(q)
      BY <2>1
    <3>2. End(q) /\ crossed' = crossed \ {q}
      BY <3>1 DEF FailRun
    <3>3. q # r
      BY <3>2, Ending, IdleRun
    <3> QED BY <3>2, <3>3
  <2>2. CASE ~ \E q \in Runners : FailRun(q)
    <3> Families /\ Retagged
      BY InvParts
    <3>1. CASE \E e \in Docs : Flush(e)
      BY <3>1 DEF Flush
    <3>2. CASE \E e \in Docs : Enrich(e)
      BY <3>2, Enriching
    <3>3. CASE \E o \in open : Land(o)
      BY <3>3, Landing
    <3>4. CASE \E q \in Runners : Incremental(q) \/ Full(q) \/ Reapply(q)
      BY <3>4, Beginning
    <3>5. CASE \E q \in Runners : ReadKind(q)
      BY <3>5, Reading
    <3>6. CASE \E q \in Runners : WriteKind(q)
      BY <3>6, Writing
    <3>7. CASE Tick \/ UNCHANGED indexVars
      BY <3>7 DEF Tick, indexVars
    <3> QED BY <2>2, <3>1, <3>2, <3>3, <3>4, <3>5, <3>6, <3>7, IndexSteps
  <2> QED BY <2>1, <2>2
<1>3. Seen(r, d) => RunCovers(r, d)
  BY <1>1 DEF IndexInv, RunsCover
<1>4. Stored(d)' /\ (Seen(r, d) => Stored(d))
  BY DEF Seen
<1>5. r \in crossed /\ Awaited(d, watermark.pending) => RunCovers(r, d)'
  <2>1. Awaited(d, watermark.pending) => Awaited(d, watermark.pending)'
    BY <1>1 DEF Awaited
  <2> QED BY <1>2, <2>1 DEF RunCovers
<1>6. CASE Seen(r, d) /\ Text(r, d)' = Text(r, d) /\ (Settled(d) => Settled(d)')
  <2>1. CASE Row(r, d) = Text(r, d) /\ Settled(d)
    <3>1. Row(r, d)' = Row(r, d)
      BY <1>1 DEF Row
    <3> QED BY <1>6, <2>1, <3>1 DEF RunCovers
  <2> QED BY <1>3, <1>4, <1>5, <1>6, <2>1, CoversKept DEF RunCovers
<1>7. CASE Seen(r, d) /\ Kind[d] = "news" /\ ~ Settled(d)
  BY <1>3, <1>4, <1>5, <1>7, CoversKept DEF RunCovers
<1>8. CASE Kind[d] # "filing" /\ \A x \in Int : x <= clock - OpenFor => Late(d, x)'
  <2>1. PICK x : x = run[r].started - Slack
    OBVIOUS
  <2>2. run[r].started \in Nat /\ Slack \in Nat /\ OpenFor \in Nat /\ RunFor \in Nat /\ OpenFor + RunFor <= Slack /\ clock \in Nat
        /\ run[r].started <= clock
    BY StampTypes, IndexConstants DEF Timed
  <2>3. x \in Int /\ x <= clock - OpenFor
    BY ONLY <2>1, <2>2
  <2>4. Late(d, x)'
    BY <1>8, <2>3
  <2>5. Late(d, run[r].started - Slack)'
    BY <2>1, <2>4
  <2> QED BY <2>5 DEF RunCovers
<1>9. CASE Kind[d] = "filing" /\ doc[d].state = "absent" /\ \A n \in Nat : Reached(n) => doc'[d].id > n
  <2>1. work[r].mark.filing_id \in Nat /\ Reached(work[r].mark.filing_id)
    BY StampTypes DEF FilingsNumbered
  <2>2. Above(d, work[r].mark.filing_id)'
    BY <1>9, <2>1 DEF Above
  <2> QED BY <2>2 DEF RunCovers
<1> QED BY <1>6, <1>7, <1>8, <1>9, SeenStays

\* Another run commits its rows and its watermark.
LEMMA CoversCross ==
    ASSUME IndexInv, IndexStep, NEW r \in Runners, run[r].on, run'[r] = run[r], work'[r] = work[r],
           NEW q \in Runners, CommitRun(q), NEW d \in Docs \ excused', Seen(r, d)'
    PROVE  RunCovers(r, d)'
<1> IndexShape /\ IndexTypeOK /\ Timed /\ RowsHeld /\ Retagged /\ Handed
  BY InvParts
<1>1. /\ run[q].on /\ work[q].at = 5 /\ clock' = clock /\ excused \subseteq excused'
      /\ index'[d] = Row(q, d) /\ watermark'.pending = work[q].mark.pending
      /\ crossed' = {p \in Runners \ {q} : run[p].on}
      /\ (q \in crossed => watermark.pending \ work[q].mark.pending \subseteq excused')
  BY Committing
<1>2. q # r
  BY <1>1, Committing, Ending, IdleRun
<1>3. r \in crossed' /\ d \notin run[q].retags /\ d \notin run[q].drops /\ d \notin excused
  <2>1. run[q].retags \subseteq excused'
    BY <1>2, Committing
  <2> QED BY <1>1, <1>2, <2>1 DEF Retagged
<1>4. doc'[d] = doc[d]
  BY <1>3, Committing
<1>5. Stored(d) /\ Stored(d)' /\ Seen(r, d) /\ Seen(q, d) /\ Text(r, d)' = Text(r, d) /\ Text(q, d) = doc[d].text
  BY <1>3, <1>4 DEF Seen, Stored, Text
<1>6. Settled(d) => Settled(d)'
  BY <1>1, <1>4 DEF Settled
<1>7. RunCovers(r, d) /\ RunCovers(q, d)
  BY <1>1, <1>3, <1>5 DEF IndexInv, RunsCover
<1>8. Passed(q, d) /\ ~ Ahead(q, d) /\ d \notin work[q].items
  <2>1. Turn(d) \in 1 .. 4
    BY TurnOf
  <2>2. ~ (5 < Turn(d)) /\ 5 # Turn(d) /\ 5 > Turn(d)
    BY ONLY <2>1
  <2> QED BY <1>1, <2>2 DEF Ahead, Passed, Handed
<1>9. /\ run[r].started \in Nat /\ run[q].started \in Nat /\ Slack \in Nat /\ OpenFor \in Nat /\ RunFor \in Nat
      /\ OpenFor + RunFor <= Slack /\ clock \in Nat
      /\ run[r].started <= clock /\ clock <= run[q].started + RunFor
  BY <1>1, StampTypes, IndexConstants DEF Timed
<1>10. /\ run[r].started - Slack \in Int /\ run[r].started - OpenFor \in Int /\ run[q].started - OpenFor \in Int /\ run[q].started - Slack \in Int
       /\ run[r].started - Slack <= run[r].started - OpenFor /\ run[r].started - Slack <= run[q].started - OpenFor
       /\ (run[r].started <= run[q].started => run[r].started - Slack <= run[q].started - Slack)
  BY ONLY <1>9
<1>11. Late(d, run[r].started - Slack) => RunCovers(r, d)'
  BY <1>5, CoversKept
<1>12. Awaited(d, work[q].mark.pending) => RunCovers(r, d)'
  <2>1. Awaited(d, work[q].mark.pending) => Awaited(d, watermark.pending)'
    BY <1>1 DEF Awaited
  <2> QED BY <1>3, <2>1 DEF RunCovers
<1>13. CASE Row(r, d) = Text(r, d) /\ Settled(d)
  <2>1. CASE d \in work[r].wrote \/ d \notin work[q].wrote
    <3>1. Row(r, d)' = Row(r, d)
      BY <1>1, <2>1 DEF Row
    <3> QED BY <1>5, <1>6, <1>13, <3>1 DEF RunCovers
  <2>2. CASE d \notin work[r].wrote /\ d \in work[q].wrote
    <3>1. \/ Row(q, d) = Text(q, d) /\ Settled(d)
          \/ Late(d, run[q].started - OpenFor)
          \/ Awaited(d, work[q].mark.pending)
      BY <1>3, <1>5, <1>8, <2>2 DEF IndexInv, WrittenTrue
    <3>2. CASE Row(q, d) = Text(q, d)
      <4>1. d \notin run[r].retags
        BY <1>2, <2>2 DEF RowsHeld
      <4>2. Text(r, d) = doc[d].text
        BY <4>1 DEF Text
      <4>3. Row(r, d)' = Text(r, d)'
        BY <1>1, <1>5, <2>2, <3>2, <4>2 DEF Row
      <4> QED BY <1>6, <1>13, <4>3 DEF RunCovers
    <3>3. CASE Late(d, run[q].started - OpenFor)
      BY <1>10, <1>11, <3>3, LateEarlier
    <3> QED BY <1>12, <3>1, <3>2, <3>3
  <2> QED BY <2>1, <2>2
<1>14. CASE r \in crossed /\ Awaited(d, watermark.pending)
  <2>1. CASE q \in crossed
    <3>1. d \in work[q].mark.pending /\ Kind[d] = "news"
      BY <1>1, <1>14, <2>1 DEF Awaited
    <3> QED BY <1>12, <3>1 DEF Awaited
  <2>2. CASE q \notin crossed
    <3>1. run[r].started <= run[q].started
      BY <1>1, <1>14, <2>2 DEF Timed
    <3>2. Kind[d] = "news"
      BY <1>14 DEF Awaited
    <3>3. \/ Row(q, d) = doc[d].text /\ Settled(d)
          \/ Late(d, run[q].started - Slack)
          \/ Awaited(d, work[q].mark.pending)
      BY <1>5, <1>7, <1>8, <2>2, <3>2 DEF RunCovers, Above
    <3>4. CASE Late(d, run[q].started - Slack)
      BY <1>10, <1>11, <3>1, <3>4, LateEarlier
    <3>5. CASE Row(q, d) = doc[d].text /\ Settled(d)
      <4>1. CASE d \notin work[r].wrote /\ d \notin run[r].retags
        <5>1. Row(r, d)' = Row(q, d) /\ Text(r, d)' = doc[d].text
          BY <1>1, <1>5, <4>1 DEF Row, Text
        <5> QED BY <1>6, <3>5, <5>1 DEF RunCovers
      <4>2. CASE (d \in work[r].wrote \/ d \in run[r].retags) /\ Passed(r, d)
        <5>1. \/ Row(r, d) = Text(r, d) /\ Settled(d)
              \/ Late(d, run[r].started - OpenFor)
              \/ Awaited(d, work[r].mark.pending)
          BY <1>3, <1>5, <4>2 DEF IndexInv, WrittenTrue
        <5>2. CASE Late(d, run[r].started - OpenFor)
          BY <1>10, <1>11, <5>2, LateEarlier
        <5>3. CASE Awaited(d, work[r].mark.pending)
          BY <1>5, <5>3, CoversKept
        <5> QED BY <1>13, <5>1, <5>2, <5>3
      <4>3. CASE d \in work[r].wrote /\ ~ Passed(r, d)
        <5>1. Ahead(r, d) \/ d \in work[r].items
          BY <1>5, <4>3 DEF IndexInv, Rebuilt
        <5> QED BY <1>5, <5>1, CoversKept
      <4>4. CASE d \in run[r].retags /\ ~ Passed(r, d)
        <5>1. Late(d, run[r].cut)
          BY <1>5, <3>2, <4>4 DEF Retagged, Late, StampedSince
        <5>2. Turn(d) = 3 /\ work[r].at \in 1 .. 5 /\ ~ (work[r].at > 3)
          BY <3>2, <4>4, StampTypes DEF Turn, Passed
        <5>3. work[r].at < 3 \/ work[r].at = 3
          BY ONLY <5>2
        <5>4. CASE work[r].at < 3 \/ work[r].reading
          <6>1. Ahead(r, d)
            BY <5>1, <5>2, <5>3, <5>4 DEF Ahead
          <6> QED BY <1>5, <6>1, CoversKept
        <5>5. CASE work[r].at = 3 /\ ~ work[r].reading
          <6>1. d \in work[r].items
            BY <1>5, <4>4, <5>5 DEF Handed, Seen
          <6> QED BY <1>5, <6>1, CoversKept
        <5> QED BY <5>3, <5>4, <5>5
      <4> QED BY <4>1, <4>2, <4>3, <4>4
    <3> QED BY <1>12, <3>3, <3>4, <3>5
  <2> QED BY <2>1, <2>2
<1>15. CASE \/ Late(d, run[r].started - Slack)
            \/ Awaited(d, work[r].mark.pending)
            \/ Ahead(r, d)
            \/ d \in work[r].items
            \/ Above(d, work[r].mark.filing_id)
  BY <1>5, <1>15, CoversKept
<1> QED BY <1>7, <1>13, <1>14, <1>15 DEF RunCovers

LEMMA CoversStep == IndexInv /\ IndexStep => RunsCover'
<1> SUFFICES ASSUME IndexInv, IndexStep, NEW r \in Runners, NEW d \in Docs \ excused', run'[r].on, Seen(r, d)'
             PROVE  RunCovers(r, d)'
  BY DEF RunsCover
<1> IndexShape
  BY InvParts
<1>1. CASE Incremental(r) \/ Full(r) \/ Reapply(r)
  BY <1>1, CoversBegin
<1>2. CASE ReadKind(r)
  BY <1>2, CoversRead
<1>3. CASE WriteKind(r)
  BY <1>3, CoversWrite
<1>4. CASE run'[r] = run[r] /\ work'[r] = work[r]
  BY <1>4, CoversStay, CoversCross
<1> QED BY <1>1, <1>2, <1>3, <1>4, RunsStay

\* What a run has read stays true, or is stamped late enough for the next one to read.
LEMMA ReadTrueStep == IndexInv /\ IndexStep => ReadTrue'
<1> SUFFICES ASSUME IndexInv, IndexStep, NEW r \in Runners, NEW d \in Docs \ excused', d \in work'[r].items, Seen(r, d)'
             PROVE  \/ work'[r].read[d] = Text(r, d)' /\ Settled(d)'
                    \/ Late(d, run[r].started - OpenFor)'
                    \/ Awaited(d, work[r].mark.pending)'
  <2>1. IndexInv /\ IndexStep => \A r \in Runners : work'[r].items \subseteq Docs
    BY InvParts, IndexTypes DEF IndexTypeOK, Works
  <2> QED BY <2>1 DEF ReadTrue
<1> IndexShape /\ IndexTypeOK /\ FilingsNumbered /\ Timed /\ RowsHeld /\ Families /\ Retagged
  BY InvParts
<1>1. CASE Incremental(r) \/ Full(r) \/ Reapply(r)
  BY <1>1, Beginning
<1>2. CASE ReadKind(r)
  <2>1. /\ UNCHANGED <<clock, doc, open, index, watermark, run, saw, due, crossed, excused>>
        /\ work'[r].read[d] = Text(r, d) /\ work[r].at \in 1 .. 4 /\ work'[r].items = Selected(r, Order[work[r].at])
    BY <1>2, Reading
  <2>2. Text(r, d)' = Text(r, d) /\ (Settled(d) => Settled(d)')
    BY <2>1 DEF Text, Settled
  <2>3. CASE Kind[d] = "news" /\ "ai" \notin Text(r, d) /\ doc[d].stamp >= clock - PendingFor
    <3>1. Turn(d) = work[r].at
      BY <2>1, SelectedAre
    <3>2. Order[work[r].at] = "news"
      BY <2>1, <2>3, <3>1, TurnOf
    <3>3. work'[r].mark.pending = Pending(r, work'[r].items)
      BY <1>2, <3>2, Reading
    <3>4. d \in Pending(r, work'[r].items)
      BY <2>3 DEF Pending
    <3>5. Awaited(d, work[r].mark.pending)'
      BY <2>3, <3>3, <3>4 DEF Awaited
    <3> QED BY <3>5
  <2>4. CASE ~ (Kind[d] = "news" /\ "ai" \notin Text(r, d) /\ doc[d].stamp >= clock - PendingFor)
    <3>1. doc[d].stamp \in Nat /\ clock \in Nat /\ PendingFor \in Nat
      BY StampTypes, IndexConstants
    <3>2. doc[d].stamp >= clock - PendingFor \/ doc[d].stamp < clock - PendingFor
      BY ONLY <3>1
    <3>3. "ai" \in Text(r, d) => "ai" \in doc[d].text
      BY DEF Text
    <3>4. Settled(d)
      BY <2>4, <3>2, <3>3 DEF Settled
    <3> QED BY <2>1, <2>2, <3>4
  <2> QED BY <2>3, <2>4
<1>3. CASE WriteKind(r)
  BY <1>3, Writing
<1>4. CASE run'[r] = run[r] /\ work'[r] = work[r]
  <2>1. run[r].on
    BY <1>4, IdleRun DEF Timed
  <2>2. d \notin excused /\ Stored(d)'
    BY ExcusedGrows DEF Seen
  <2>3. Seen(r, d) => \/ work[r].read[d] = Text(r, d) /\ Settled(d)
                      \/ Late(d, run[r].started - OpenFor)
                      \/ Awaited(d, work[r].mark.pending)
    BY <1>4, <2>2 DEF IndexInv, ReadTrue
  <2>4. Awaited(d, work[r].mark.pending) => Awaited(d, work[r].mark.pending)'
    BY <1>4 DEF Awaited
  <2>5. PICK x : x = run[r].started - OpenFor
    OBVIOUS
  <2>6. run[r].started \in Nat /\ OpenFor \in Nat /\ clock \in Nat /\ run[r].started <= clock
    BY <2>1, StampTypes, IndexConstants DEF Timed
  <2>7. x \in Int /\ x <= clock - OpenFor
    BY ONLY <2>5, <2>6
  <2>8. Late(d, x)' => Late(d, run[r].started - OpenFor)'
    BY <1>4, <2>5
  <2>9. Late(d, run[r].started - OpenFor) => Late(d, run[r].started - OpenFor)'
    BY <2>2, <2>5, <2>7, <2>8, LateStays
  <2>10. CASE Seen(r, d) /\ Text(r, d)' = Text(r, d) /\ (Settled(d) => Settled(d)')
    BY <1>4, <2>3, <2>4, <2>9, <2>10
  <2>11. CASE Seen(r, d) /\ Kind[d] = "news" /\ ~ Settled(d)
    BY <2>3, <2>4, <2>9, <2>11
  <2>12. CASE Kind[d] # "filing" /\ \A y \in Int : y <= clock - OpenFor => Late(d, y)'
    BY <2>7, <2>8, <2>12
  <2>13. CASE Kind[d] = "filing" /\ doc[d].state = "absent"
    BY <1>4, <2>13 DEF RowsHeld
  <2> QED BY <1>4, <2>1, <2>10, <2>11, <2>12, <2>13, SeenStays
<1>5. CASE run'[r] = NoRun /\ work'[r] = Idle(NoMark, {})
  BY <1>5, IdleRun
<1> QED BY <1>1, <1>2, <1>3, <1>4, <1>5, RunsStay

\* So do the rows it has written.
LEMMA WrittenTrueStep == IndexInv /\ IndexStep => WrittenTrue'
<1> SUFFICES ASSUME IndexInv, IndexStep, NEW r \in Runners, NEW d \in Docs \ excused',
                    d \in work'[r].wrote \cup run'[r].retags, Passed(r, d)', Seen(r, d)'
             PROVE  \/ Row(r, d)' = Text(r, d)' /\ Settled(d)'
                    \/ Late(d, run[r].started - OpenFor)'
                    \/ Awaited(d, work[r].mark.pending)'
  <2>1. IndexInv /\ IndexStep => \A r \in Runners : work'[r].wrote \subseteq Docs /\ run'[r].retags \subseteq Docs
    BY InvParts, IndexTypes DEF IndexTypeOK, Works, Tasks
  <2> QED BY <2>1 DEF WrittenTrue
<1> IndexShape /\ IndexTypeOK /\ FilingsNumbered /\ Timed /\ RowsHeld /\ Families /\ Retagged /\ Handed
  BY InvParts
<1>t. Turn(d) \in 1 .. 4 /\ Turn(d)' = Turn(d) /\ d \notin excused /\ Stored(d)'
  BY TurnOf, ExcusedGrows DEF Turn, Seen
<1>w. Passed(r, d) /\ Seen(r, d) /\ d \in work[r].wrote \cup run[r].retags
      => \/ Row(r, d) = Text(r, d) /\ Settled(d)
         \/ Late(d, run[r].started - OpenFor)
         \/ Awaited(d, work[r].mark.pending)
  BY <1>t DEF IndexInv, WrittenTrue
<1>1. CASE Incremental(r) \/ Full(r) \/ Reapply(r)
  <2>1. work'[r].at = 1 /\ work'[r].at > Turn(d)
    BY <1>1, <1>t, Beginning DEF Passed
  <2> QED BY ONLY <1>t, <2>1
<1>2. CASE ReadKind(r)
  <2>1. /\ UNCHANGED <<clock, doc, open, index, watermark, run, saw, due, crossed, excused>>
        /\ work'[r].wrote = work[r].wrote /\ work'[r].rows = work[r].rows /\ work[r].reading /\ work[r].at \in 1 .. 4
        /\ work'[r].items = Selected(r, Order[work[r].at])
    BY <1>2, Reading
  <2>2. Text(r, d)' = Text(r, d) /\ (Settled(d) => Settled(d)') /\ Row(r, d)' = Row(r, d)
        /\ (Late(d, run[r].started - OpenFor) => Late(d, run[r].started - OpenFor)') /\ Seen(r, d)
    BY <2>1 DEF Text, Settled, Row, Late, StampedSince, Stored, Seen
  <2>3. CASE Passed(r, d)
    <3>1. work[r].at # Turn(d)
      BY <1>t, <2>1, <2>3 DEF Passed
    <3>2. Order[work[r].at] # Kind[d]
      BY <2>1, <3>1, TurnOf
    <3>3. Awaited(d, work[r].mark.pending) => Awaited(d, work[r].mark.pending)'
      BY <1>2, <3>2, Reading DEF Awaited
    <3> QED BY <1>w, <2>1, <2>2, <2>3, <3>3
  <2>4. CASE ~ Passed(r, d)
    <3>1. ~ (work[r].at > Turn(d)) /\ work'[r].at > Turn(d)
      BY <1>t, <2>4 DEF Passed
    <3>2. work'[r].at = work[r].at + 1 /\ work'[r].items = {} /\ Order[work[r].at] # "news"
      BY <1>2, <3>1, Reading
    <3>3. work[r].at = Turn(d)
      BY ONLY <1>t, <2>1, <3>1, <3>2
    <3>4. Kind[d] # "news"
      BY <2>1, <3>2, <3>3, TurnOf
    <3>5. d \in work[r].wrote
      BY <2>1, <3>4 DEF Retagged
    <3>6. Ahead(r, d) \/ d \in work[r].items
      BY <2>2, <2>4, <3>5 DEF IndexInv, Rebuilt
    <3>7. Ahead(r, d)
      BY <2>1, <3>6 DEF Handed
    <3>8. ~ Ahead(r, d)'
      <4>1. ~ (work'[r].at < Turn(d)) /\ work'[r].at # Turn(d)
        BY ONLY <1>t, <2>1, <3>2, <3>3
      <4> QED BY <1>t, <4>1 DEF Ahead
    <3> QED BY <1>2, <2>2, <3>2, <3>7, <3>8, AheadRead
  <2> QED BY <2>3, <2>4
<1>3. CASE WriteKind(r)
  <2>1. /\ UNCHANGED <<clock, doc, open, index, watermark, run, saw, due, crossed, excused>>
        /\ ~ work[r].reading /\ work[r].at \in 1 .. 4 /\ work'[r].at = work[r].at + 1 /\ work'[r].mark = work[r].mark
    BY <1>3, Writing
  <2>2. Text(r, d)' = Text(r, d) /\ (Settled(d) => Settled(d)') /\ Seen(r, d)
        /\ (Late(d, run[r].started - OpenFor) => Late(d, run[r].started - OpenFor)')
        /\ (Awaited(d, work[r].mark.pending) => Awaited(d, work[r].mark.pending)')
    BY <2>1 DEF Text, Settled, Late, StampedSince, Stored, Seen, Awaited
  <2>3. CASE d \in work[r].items
    <3>1. Row(r, d)' = work[r].read[d]
      BY <1>3, <2>3, Writing
    <3>2. \/ work[r].read[d] = Text(r, d) /\ Settled(d)
          \/ Late(d, run[r].started - OpenFor)
          \/ Awaited(d, work[r].mark.pending)
      BY <1>t, <2>2, <2>3 DEF IndexInv, ReadTrue
    <3> QED BY <2>2, <3>1, <3>2
  <2>4. CASE d \notin work[r].items
    <3>1. Row(r, d)' = Row(r, d) /\ d \in work[r].wrote \cup run[r].retags
      BY <1>3, <2>1, <2>2, <2>4, Writing
    <3>2. CASE Passed(r, d)
      BY <1>w, <2>2, <3>1, <3>2
    <3>3. CASE ~ Passed(r, d)
      <4>1. ~ (work[r].at > Turn(d)) /\ work'[r].at > Turn(d)
        BY <1>t, <3>3 DEF Passed
      <4>2. work[r].at = Turn(d) /\ ~ (work[r].at < Turn(d))
        BY ONLY <1>t, <2>1, <4>1
      <4>3. CASE d \in work[r].wrote
        <5>1. Ahead(r, d)
          BY <2>2, <2>4, <3>3, <4>3 DEF IndexInv, Rebuilt
        <5> QED BY <2>1, <4>2, <5>1 DEF Ahead
      <4>4. CASE d \in run[r].retags
        <5>1. Kind[d] = "news"
          BY <4>4 DEF Retagged
        <5>2. work[r].at = 3
          BY <4>2, <5>1 DEF Turn
        <5>3. d \in work[r].items
          BY <2>1, <2>2, <4>4, <5>2 DEF Handed, Seen
        <5> QED BY <2>4, <5>3
      <4> QED BY <3>1, <4>3, <4>4
    <3> QED BY <3>2, <3>3
  <2> QED BY <2>3, <2>4
<1>4. CASE run'[r] = run[r] /\ work'[r] = work[r]
  <2>1. run[r].on /\ d \in work[r].wrote \cup run[r].retags /\ Passed(r, d)
    <3>1. d \in work[r].wrote \cup run[r].retags
      BY <1>4
    <3>2. run[r].on
      BY <3>1, IdleRun DEF Timed
    <3>3. Passed(r, d)
      BY <1>4, <1>t DEF Passed
    <3> QED BY <3>1, <3>2, <3>3
  <2>2. Row(r, d)' = Row(r, d)
    <3>1. CASE \E q \in Runners : CommitRun(q)
      <4>1. PICK q \in Runners : CommitRun(q)
        BY <3>1
      <4>2. q # r
        BY <1>4, <2>1, <4>1, Committing, Ending, IdleRun
      <4>3. d \notin work[q].wrote
        BY <2>1, <4>2 DEF RowsHeld
      <4>4. index'[d] = index[d]
        BY <4>1, <4>3, Committing DEF Row
      <4> QED BY <1>4, <4>4 DEF Row
    <3>2. CASE ~ \E q \in Runners : CommitRun(q)
      BY <1>4, <3>2, OnlyCommits DEF Row
    <3> QED BY <3>1, <3>2
  <2>4. Awaited(d, work[r].mark.pending) => Awaited(d, work[r].mark.pending)'
    BY <1>4 DEF Awaited
  <2>5. PICK x : x = run[r].started - OpenFor
    OBVIOUS
  <2>6. run[r].started \in Nat /\ OpenFor \in Nat /\ clock \in Nat /\ run[r].started <= clock
    BY <2>1, StampTypes, IndexConstants DEF Timed
  <2>7. x \in Int /\ x <= clock - OpenFor
    BY ONLY <2>5, <2>6
  <2>8. Late(d, x)' => Late(d, run[r].started - OpenFor)'
    BY <1>4, <2>5
  <2>9. Late(d, run[r].started - OpenFor) => Late(d, run[r].started - OpenFor)'
    BY <1>t, <2>5, <2>7, <2>8, LateStays
  <2>10. CASE Seen(r, d) /\ Text(r, d)' = Text(r, d) /\ (Settled(d) => Settled(d)')
    BY <1>w, <2>1, <2>2, <2>4, <2>9, <2>10
  <2>11. CASE Seen(r, d) /\ Kind[d] = "news" /\ ~ Settled(d)
    BY <1>w, <2>1, <2>4, <2>9, <2>11
  <2>12. CASE Kind[d] # "filing" /\ \A y \in Int : y <= clock - OpenFor => Late(d, y)'
    BY <2>7, <2>8, <2>12
  <2>13. CASE Kind[d] = "filing" /\ doc[d].state = "absent"
    BY <2>1, <2>13 DEF RowsHeld, Retagged
  <2> QED BY <1>4, <2>1, <2>10, <2>11, <2>12, <2>13, SeenStays
<1>5. CASE run'[r] = NoRun /\ work'[r] = Idle(NoMark, {})
  BY <1>5, IdleRun
<1> QED BY <1>1, <1>2, <1>3, <1>4, <1>5, RunsStay

\* The rows a full rebuild dropped are read again before it ends.
LEMMA RebuiltStep == IndexInv /\ IndexStep => Rebuilt'
<1> SUFFICES ASSUME IndexInv, IndexStep, NEW r \in Runners, NEW d \in Docs, d \in work'[r].wrote, ~ Passed(r, d)'
             PROVE  work'[r].rows[d] = NoRow /\ (Seen(r, d)' => Ahead(r, d)' \/ d \in work'[r].items)
  <2>1. IndexInv /\ IndexStep => \A r \in Runners : work'[r].wrote \subseteq Docs
    BY InvParts, IndexTypes DEF IndexTypeOK, Works
  <2> QED BY <2>1 DEF Rebuilt
<1> IndexShape /\ IndexTypeOK /\ FilingsNumbered /\ Timed /\ RowsHeld /\ Families /\ Retagged /\ Handed
  BY InvParts
<1>t. Turn(d) \in 1 .. 4 /\ Turn(d)' = Turn(d) /\ ~ (work'[r].at > Turn(d))
  BY TurnOf DEF Turn, Passed
<1>w. d \in work[r].wrote /\ ~ Passed(r, d) => work[r].rows[d] = NoRow /\ (Seen(r, d) => Ahead(r, d) \/ d \in work[r].items)
  BY DEF IndexInv, Rebuilt
<1>1. CASE Incremental(r) \/ Full(r) \/ Reapply(r)
  <2>1. /\ doc' = doc /\ work'[r].at = 1 /\ work'[r].reading /\ work'[r].rows[d] = NoRow
        /\ work'[r].mark = NoMark /\ run'[r].cut = -1
    BY <1>1, Beginning
  <2>2. ASSUME Seen(r, d)' PROVE Ahead(r, d)'
    <3>1. Stored(d)
      BY <2>1, <2>2 DEF Seen, Stored
    <3>2. 1 < Turn(d) \/ 1 = Turn(d)
      BY ONLY <1>t
    <3>3. Late(d, -1) => Late(d, run[r].cut)'
      BY <2>1 DEF Late, StampedSince, Stored
    <3>4. Kind[d] # "filing" => Late(d, run[r].cut)'
      BY <3>1, <3>3, EverythingIsLate
    <3>5. Kind[d] = "filing" => Above(d, work[r].mark.filing_id)'
      BY <2>1, <3>1, IdleRun DEF Above, FilingsNumbered
    <3> QED BY <1>t, <2>1, <3>2, <3>4, <3>5 DEF Ahead
  <2> QED BY <2>1, <2>2
<1>2. CASE ReadKind(r)
  <2>1. /\ UNCHANGED <<clock, doc, open, index, watermark, run, saw, due, crossed, excused>>
        /\ work'[r].wrote = work[r].wrote /\ work'[r].rows = work[r].rows /\ work[r].reading /\ work[r].at \in 1 .. 4
        /\ (work'[r].at = work[r].at \/ work'[r].at = work[r].at + 1)
    BY <1>2, Reading
  <2>2. ~ (work[r].at > Turn(d))
    BY ONLY <1>t, <2>1
  <2>3. Seen(r, d)' => Seen(r, d)
    BY <2>1 DEF Seen, Stored
  <2>4. work[r].items = {}
    BY <2>1 DEF Handed
  <2> QED BY <1>2, <1>w, <2>1, <2>2, <2>3, <2>4, AheadRead DEF Passed
<1>3. CASE WriteKind(r)
  <2>1. /\ UNCHANGED <<clock, doc, open, index, watermark, run, saw, due, crossed, excused>>
        /\ work[r].at \in 1 .. 4 /\ work'[r].at = work[r].at + 1
    BY <1>3, Writing
  <2>2. ~ (work[r].at > Turn(d)) /\ work[r].at # Turn(d)
    BY ONLY <1>t, <2>1
  <2>3. d \notin work[r].items
    BY <2>2 DEF Handed
  <2>4. d \in work[r].wrote /\ work'[r].rows[d] = work[r].rows[d]
    BY <1>3, <2>2, <2>3, Writing DEF Turn
  <2>5. Seen(r, d)' => Seen(r, d)
    BY <2>1 DEF Seen, Stored
  <2> QED BY <1>3, <1>w, <2>2, <2>3, <2>4, <2>5, AheadWrite DEF Passed
<1>4. CASE run'[r] = run[r] /\ work'[r] = work[r]
  <2>1. d \in work[r].wrote /\ ~ Passed(r, d)
    BY <1>4, <1>t DEF Passed
  <2>2. Seen(r, d)' => Stored(d)' /\ Seen(r, d) /\ Stored(d)
    BY <1>4, <2>1, StoredNews DEF RowsHeld, Seen
  <2> QED BY <1>4, <1>w, <2>1, <2>2, AheadStays
<1>5. CASE run'[r] = NoRun /\ work'[r] = Idle(NoMark, {})
  BY <1>5, IdleRun
<1> QED BY <1>1, <1>2, <1>3, <1>4, <1>5, RunsStay

-----------------------------------------------------------------------------
(* What a run saw when it started *)

\* It is found by a run that starts alone, and stays while the document does.
LEMMA SawStays ==
    ASSUME IndexInv, IndexStep, NEW r \in Runners, NEW d \in saw'[r]
    PROVE  \/ d \in saw[r] /\ doc'[d] = doc[d] /\ \A q \in Runners : CommitRun(q) => d \notin run[q].retags
           \/ /\ Incremental(r) \/ Full(r) \/ Reapply(r)
              /\ doc' = doc /\ doc[d].state # "absent" /\ \A q \in Runners : ~ run[q].on
<1> IndexShape /\ IndexTypeOK /\ Families /\ Retagged /\ FilingsNumbered
  BY InvParts
<1>1. d \in Docs
  BY IndexTypes DEF IndexTypeOK
<1>2. ASSUME NEW q \in Runners, CommitRun(q)
      PROVE  d \in saw[r] /\ doc'[d] = doc[d] /\ d \notin run[q].retags
  <2>1. r # q /\ saw'[r] = saw[r] \ run[q].retags
    BY <1>2, Committing
  <2> QED BY <1>1, <1>2, <2>1, Committing
<1>3. CASE \E q \in Runners : CommitRun(q)
  <2>1. d \in saw[r] /\ doc'[d] = doc[d]
    BY <1>2, <1>3
  <2> QED BY <1>2, <2>1
<1>4. CASE ~ \E q \in Runners : CommitRun(q)
  <2>1. CASE \E e \in Docs : Flush(e)
    BY <1>4, <2>1 DEF Flush
  <2>2. CASE \E e \in Docs : Enrich(e)
    BY <1>1, <1>4, <2>2, Enriching
  <2>3. CASE \E o \in open : Land(o)
    BY <1>1, <1>4, <2>3, Landing
  <2>4. CASE \E q \in Runners : Incremental(q) \/ Full(q) \/ Reapply(q)
    <3>1. PICK q \in Runners : Incremental(q) \/ Full(q) \/ Reapply(q)
      BY <2>4
    <3>2. CASE q = r
      BY <3>1, <3>2, Beginning
    <3>3. CASE q # r
      BY <1>4, <3>1, <3>3, Beginning
    <3> QED BY <3>2, <3>3
  <2>5. CASE \E q \in Runners : ReadKind(q)
    BY <1>4, <2>5, Reading
  <2>6. CASE \E q \in Runners : WriteKind(q)
    BY <1>4, <2>6, Writing
  <2>7. CASE \E q \in Runners : FailRun(q)
    <3>1. PICK q \in Runners : FailRun(q)
      BY <2>7
    <3>2. saw' = [saw EXCEPT ![q] = {}] /\ doc' = doc
      BY <3>1 DEF FailRun
    <3>3. saw'[r] \subseteq saw[r]
      BY <3>2 DEF IndexTypeOK
    <3> QED BY <1>4, <3>2, <3>3
  <2>8. CASE Tick \/ UNCHANGED indexVars
    BY <1>4, <2>8 DEF Tick, indexVars
  <2> QED BY <1>4, <2>1, <2>2, <2>3, <2>4, <2>5, <2>6, <2>7, <2>8, IndexSteps
<1> QED BY <1>3, <1>4

\* A turn goes by: what is dropped and was not read again is not stored.
LEMMA DroppedIsGone ==
    ASSUME IndexInv, NEW q \in Runners, NEW d \in Docs, d \in work[q].wrote, work'[q].wrote = work[q].wrote,
           ~ Passed(q, d), Passed(q, d)', ReadKind(q)
    PROVE  ~ Seen(q, d) /\ work[q].rows[d] = NoRow
<1> IndexShape /\ IndexTypeOK /\ Families /\ Retagged /\ Handed
  BY InvParts
<1>1. work[q].reading /\ work[q].at \in 1 .. 4 /\ (work'[q].at = work[q].at \/ work'[q].at = work[q].at + 1)
      /\ (work'[q].at = work[q].at + 1 => work'[q].items = {})
  BY Reading
<1>2. Turn(d) \in 1 .. 4 /\ ~ (work[q].at > Turn(d)) /\ work'[q].at > Turn(d)
  BY TurnOf DEF Passed, Turn
<1>3. work'[q].at = work[q].at + 1 /\ work[q].at = Turn(d) /\ ~ (work'[q].at < Turn(d)) /\ work'[q].at # Turn(d)
  BY ONLY <1>1, <1>2
<1>4. ~ Ahead(q, d)'
  BY <1>3 DEF Ahead, Turn
<1>5. ~ (Seen(q, d) /\ Ahead(q, d))
  BY <1>1, <1>3, <1>4, AheadRead
<1>6. d \notin work[q].items
  BY <1>1 DEF Handed
<1> QED BY <1>5, <1>6 DEF IndexInv, Rebuilt

LEMMA SawFreshStep == IndexInv /\ IndexStep => SawFresh'
<1> SUFFICES ASSUME IndexInv, IndexStep, NEW r \in Runners, NEW q \in Runners, NEW d \in saw'[r]
             PROVE  /\ doc'[d].state # "absent"
                    /\ d \in work'[q].items => Seen(q, d)' /\ work'[q].read[d] = Text(q, d)'
                    /\ d \in work'[q].wrote /\ Passed(q, d)' =>
                          work'[q].rows[d] = IF Seen(q, d)' THEN Text(q, d)' ELSE NoRow
  BY DEF SawFresh
<1> IndexShape /\ IndexTypeOK /\ Timed /\ Families /\ Retagged /\ Handed
  BY InvParts
<1>1. d \in Docs /\ Turn(d) \in 1 .. 4 /\ Turn(d)' = Turn(d)
  BY IndexTypes, TurnOf DEF IndexTypeOK, Turn
<1>2. ASSUME Incremental(q) \/ Full(q) \/ Reapply(q) PROVE d \notin work'[q].items /\ ~ Passed(q, d)'
  <2>1. work'[q].at = 1 /\ work'[q].items = {}
    BY <1>2, Beginning
  <2>2. ~ (1 > Turn(d))
    BY ONLY <1>1
  <2> QED BY <1>1, <2>1, <2>2 DEF Passed
<1>3. ASSUME run'[q] = NoRun, work'[q] = Idle(NoMark, {}) PROVE d \notin work'[q].items /\ d \notin work'[q].wrote
  BY <1>3, IdleRun
<1>4. CASE /\ Incremental(r) \/ Full(r) \/ Reapply(r)
           /\ doc' = doc /\ doc[d].state # "absent" /\ \A p \in Runners : ~ run[p].on
  <2>1. CASE q = r
    BY <1>2, <1>4, <2>1
  <2>2. CASE q # r
    <3>1. work'[q] = work[q] /\ work[q] = Idle(NoMark, {})
      BY <1>4, <2>2, Beginning DEF Timed
    <3> QED BY <1>4, <3>1, IdleRun
  <2> QED BY <2>1, <2>2
<1>5. CASE d \in saw[r] /\ doc'[d] = doc[d]
  <2>1. /\ doc'[d].state # "absent"
        /\ d \in work[q].items => Seen(q, d) /\ work[q].read[d] = Text(q, d)
        /\ d \in work[q].wrote /\ Passed(q, d) => work[q].rows[d] = IF Seen(q, d) THEN Text(q, d) ELSE NoRow
    BY <1>5 DEF IndexInv, SawFresh
  <2>2. run'[q] = run[q] => (Seen(q, d)' <=> Seen(q, d)) /\ Text(q, d)' = Text(q, d)
    BY <1>5 DEF Seen, Stored, Text
  <2>3. CASE ReadKind(q)
    <3>1. run'[q] = run[q] /\ work'[q].wrote = work[q].wrote /\ work'[q].rows = work[q].rows
          /\ work'[q].items = Selected(q, Order[work[q].at]) /\ work[q].at \in 1 .. 4
          /\ (d \in work'[q].items => work'[q].read[d] = Text(q, d))
      BY <2>3, Reading
    <3>2. d \in work'[q].items => Seen(q, d)
      BY <3>1, SelectedAre
    <3> QED BY <1>1, <2>1, <2>2, <2>3, <3>1, <3>2, DroppedIsGone
  <2>4. CASE WriteKind(q)
    <3>1. run'[q] = run[q] /\ work'[q].items = {} /\ ~ work[q].reading /\ work[q].at \in 1 .. 4 /\ work'[q].at = work[q].at + 1
      BY <2>4, Writing
    <3>2. CASE d \in work[q].items
      BY <2>1, <2>2, <2>4, <3>1, <3>2, Writing
    <3>3. CASE d \notin work[q].items
      <4>1. CASE ~ Seen(q, d) /\ work'[q].rows[d] = NoRow
        BY <2>1, <2>2, <3>1, <4>1
      <4>2. CASE work'[q].wrote \cap {d} = work[q].wrote \cap {d} /\ work'[q].rows[d] = work[q].rows[d]
        <5>1. ASSUME d \in work[q].wrote, ~ Passed(q, d), Passed(q, d)'
              PROVE  ~ Seen(q, d) /\ work[q].rows[d] = NoRow
          <6>1. ~ (work[q].at > Turn(d)) /\ work'[q].at > Turn(d)
            BY <1>1, <5>1 DEF Passed
          <6>2. ~ (work[q].at < Turn(d))
            BY ONLY <1>1, <3>1, <6>1
          <6>3. ~ Ahead(q, d)
            BY <3>1, <6>2 DEF Ahead
          <6> QED BY <1>1, <3>3, <5>1, <6>3 DEF IndexInv, Rebuilt
        <5> QED BY <2>1, <2>2, <3>1, <4>2, <5>1
      <4> QED BY <1>1, <2>4, <3>3, <4>1, <4>2, Writing
    <3> QED BY <3>2, <3>3
  <2>5. CASE run'[q] = run[q] /\ work'[q] = work[q]
    <3>1. Passed(q, d)' => Passed(q, d)
      BY <1>1, <2>5 DEF Passed
    <3> QED BY <2>1, <2>2, <2>5, <3>1
  <2> QED BY <1>2, <1>3, <2>1, <2>3, <2>4, <2>5, RunsStay
<1> QED BY <1>4, <1>5, SawStays

LEMMA SawCoveredStep == IndexInv /\ IndexStep => SawCovered'
<1> SUFFICES ASSUME IndexInv, IndexStep, NEW r \in Runners, NEW d \in saw'[r] \ excused'
             PROVE  /\ Seen(r, d)' => Row(r, d)' = Text(r, d)' \/ Ahead(r, d)' \/ d \in work'[r].items
                    /\ ~ Seen(r, d)' => Row(r, d)' = NoRow \/ work'[r].at <= 3
  BY DEF SawCovered
<1> IndexShape /\ IndexTypeOK /\ Timed /\ Families /\ RowsHeld /\ Retagged /\ Handed
  BY InvParts
<1>1. d \in Docs /\ d \notin excused
  BY IndexTypes, ExcusedGrows DEF IndexTypeOK
<1>2. CASE Incremental(r) \/ Full(r) \/ Reapply(r)
  <2>1. work'[r].at = 1 /\ 1 <= 3
    BY <1>2, Beginning
  <2> QED BY <1>1, <1>2, <2>1, BeginsCovered
<1>3. CASE /\ ~ (Incremental(r) \/ Full(r) \/ Reapply(r))
           /\ d \in saw[r] /\ doc'[d] = doc[d] /\ \A q \in Runners : CommitRun(q) => d \notin run[q].retags
  <2>1. /\ Seen(r, d) => Row(r, d) = Text(r, d) \/ Ahead(r, d) \/ d \in work[r].items
        /\ ~ Seen(r, d) => Row(r, d) = NoRow \/ work[r].at <= 3
    BY <1>1, <1>3 DEF IndexInv, SawCovered
  <2>2. run'[r] = run[r] => (Seen(r, d)' <=> Seen(r, d)) /\ Text(r, d)' = Text(r, d)
    BY <1>3 DEF Seen, Stored, Text
  <2>3. doc[d].state # "absent" /\ (d \in work[r].items => Seen(r, d) /\ work[r].read[d] = Text(r, d))
    BY <1>3 DEF IndexInv, SawFresh
  <2>4. CASE ReadKind(r)
    <3>1. /\ UNCHANGED <<clock, doc, open, index, watermark, run, saw, due, crossed, excused>>
          /\ work'[r].wrote = work[r].wrote /\ work'[r].rows = work[r].rows /\ work[r].reading /\ work[r].at \in 1 .. 4
          /\ (work'[r].at = work[r].at \/ (work'[r].at = work[r].at + 1 /\ Order[work[r].at] # "news"))
      BY <2>4, Reading
    <3>2. Row(r, d)' = Row(r, d)
      BY <3>1 DEF Row
    <3>3. work[r].items = {}
      BY <3>1 DEF Handed
    <3>4. work[r].at # 3 \/ Order[work[r].at] = "news"
      BY DEF Order
    <3>5. work[r].at <= 3 => work'[r].at <= 3
      BY ONLY <3>1, <3>4
    <3> QED BY <1>1, <2>1, <2>2, <2>4, <3>1, <3>2, <3>3, <3>5, AheadRead
  <2>5. CASE WriteKind(r)
    <3>1. /\ run'[r] = run[r] /\ work[r].at \in 1 .. 4 /\ work'[r].at = work[r].at + 1
      BY <2>5, Writing
    <3>2. CASE d \in work[r].items
      <4>1. Row(r, d)' = work[r].read[d]
        BY <2>5, <3>2, Writing
      <4> QED BY <2>2, <2>3, <3>1, <3>2, <4>1
    <3>3. CASE d \notin work[r].items /\ Seen(r, d)
      <4>1. Row(r, d)' = Row(r, d)
        BY <1>1, <2>5, <3>3, Writing
      <4> QED BY <1>1, <2>1, <2>2, <2>5, <3>1, <3>3, <4>1, AheadWrite
    <3>4. CASE d \notin work[r].items /\ ~ Seen(r, d)
      <4>1. Kind[d] = "news"
        <5>1. CASE d \in run[r].drops
          BY <5>1 DEF Retagged
        <5>2. CASE ~ Stored(d)
          <6>1. doc[d].state = "gone"
            BY <1>1, <2>3, <5>2 DEF Stored, IndexTypeOK, IndexDocs
          <6> QED BY <1>1, <6>1 DEF Families
        <5> QED BY <3>4, <5>1, <5>2 DEF Seen
      <4>2. CASE work[r].at = 3
        BY <1>1, <2>2, <2>5, <3>1, <3>4, <4>1, <4>2, Writing DEF News
      <4>3. CASE work[r].at > 3
        <5>1. Row(r, d) = NoRow
          <6>1. ~ (work[r].at <= 3)
            BY ONLY <3>1, <4>3
          <6> QED BY <2>1, <3>4, <6>1
        <5> QED BY <1>1, <2>2, <2>5, <3>1, <3>4, <5>1, Writing
      <4>4. CASE work[r].at < 3
        <5>1. work'[r].at <= 3
          BY ONLY <3>1, <4>4
        <5> QED BY <2>2, <3>1, <3>4, <5>1
      <4>5. work[r].at = 3 \/ work[r].at > 3 \/ work[r].at < 3
        BY ONLY <3>1
      <4> QED BY <4>2, <4>3, <4>4, <4>5
    <3> QED BY <3>2, <3>3, <3>4
  <2>6. CASE run'[r] = run[r] /\ work'[r] = work[r]
    <3>1. run[r].on
      BY <1>3 DEF Timed
    <3>2. Ahead(r, d) /\ Seen(r, d) => Ahead(r, d)'
      <4>1. Seen(r, d) => Stored(d) /\ Stored(d)'
        BY <1>3 DEF Seen, Stored
      <4> QED BY <1>1, <2>6, <4>1, AheadStays
    <3>3. CASE Row(r, d)' = Row(r, d)
      BY <2>1, <2>2, <2>6, <3>2, <3>3
    <3>4. CASE Row(r, d)' # Row(r, d)
      <4>1. \E q \in Runners : CommitRun(q)
        BY <2>6, <3>4, OnlyCommits DEF Row
      <4>2. PICK q \in Runners : CommitRun(q)
        BY <4>1
      <4>3. d \notin work[r].wrote /\ index'[d] = Row(q, d) /\ work[q].at = 5
        BY <1>1, <2>6, <3>4, <4>2, Committing DEF Row
      <4>4. d \in work[q].wrote
        BY <2>6, <3>4, <4>3 DEF Row
      <4>5. Passed(q, d)
        <5>1. Turn(d) \in 1 .. 4
          BY <1>1, TurnOf
        <5>2. 5 > Turn(d)
          BY ONLY <5>1
        <5> QED BY <4>3, <5>2 DEF Passed
      <4>6. Row(q, d) = IF Seen(q, d) THEN Text(q, d) ELSE NoRow
        BY <1>3, <4>4, <4>5 DEF IndexInv, SawFresh, Row
      <4>7. d \notin run[q].retags /\ d \notin run[q].drops
        BY <1>3, <4>2 DEF Retagged
      <4>8. d \notin run[r].retags /\ d \notin run[r].drops
        <5>1. q # r
          BY <4>3, <4>4
        <5> QED BY <4>4, <5>1 DEF RowsHeld, Retagged
      <4>9. Row(q, d) = IF Stored(d) THEN doc[d].text ELSE NoRow
        BY <4>6, <4>7 DEF Seen, Text
      <4>10. (Seen(r, d) <=> Stored(d)) /\ Text(r, d) = doc[d].text
        BY <4>8 DEF Seen, Text
      <4>11. Row(r, d)' = Row(q, d)
        BY <2>6, <4>3 DEF Row
      <4> QED BY <2>2, <2>6, <4>9, <4>10, <4>11
    <3> QED BY <3>3, <3>4
  <2>7. CASE saw'[r] = {}
    BY <2>7
  <2> QED BY <1>3, <2>4, <2>5, <2>6, <2>7, RunsStay
<1> QED BY <1>2, <1>3, SawStays

\* When it commits, its rows are the index.
LEMMA FollowsStep == IndexInv /\ IndexStep => IndexFollows'
<1> SUFFICES ASSUME IndexInv, IndexStep, NEW d \in due' \ excused'
             PROVE  index'[d] = IF Stored(d)' THEN doc'[d].text ELSE NoRow
  BY DEF IndexFollows
<1> IndexShape /\ IndexTypeOK /\ Timed /\ Families /\ RowsHeld /\ Retagged /\ Handed /\ FilingsNumbered
  BY InvParts
<1>1. d \in Docs /\ d \notin excused
  BY IndexTypes, ExcusedGrows DEF IndexTypeOK
<1>2. CASE \E r \in Runners : CommitRun(r)
  <2>1. PICK r \in Runners : CommitRun(r)
    BY <1>2
  <2>2. work[r].at = 5 /\ index'[d] = Row(r, d) /\ d \in saw[r]
    BY <1>1, <2>1, Committing
  <2>3. /\ Seen(r, d) => Row(r, d) = Text(r, d) \/ Ahead(r, d) \/ d \in work[r].items
        /\ ~ Seen(r, d) => Row(r, d) = NoRow \/ work[r].at <= 3
    BY <1>1, <2>2 DEF IndexInv, SawCovered
  <2>4. ~ Ahead(r, d) /\ d \notin work[r].items /\ ~ (work[r].at <= 3)
    <3>1. Turn(d) \in 1 .. 4
      BY <1>1, TurnOf
    <3>2. ~ (5 < Turn(d)) /\ 5 # Turn(d) /\ ~ (5 <= 4) /\ ~ (5 <= 3)
      BY ONLY <3>1
    <3> QED BY <2>2, <3>2 DEF Ahead, Handed
  <2>5. CASE d \in run[r].drops
    <3>1. ~ Seen(r, d) /\ ~ Stored(d)'
      BY <2>1, <2>5, Committing DEF Seen, Stored, NoDoc
    <3> QED BY <2>2, <2>3, <2>4, <3>1
  <2>6. CASE d \notin run[r].drops
    <3>1. doc'[d].text = Text(r, d) /\ (Stored(d)' <=> Stored(d))
      <4>1. CASE d \in run[r].retags
        <5>1. doc'[d].text = doc[d].text \cup {"tags"} /\ doc'[d].state = doc[d].state
          BY <1>1, <2>1, <2>6, <4>1, Committing
        <5> QED BY <4>1, <5>1 DEF Text, Stored
      <4>2. CASE d \notin run[r].retags
        <5>1. doc'[d] = doc[d]
          BY <1>1, <2>1, <4>2, Committing
        <5> QED BY <4>2, <5>1 DEF Text, Stored
      <4> QED BY <4>1, <4>2
    <3> QED BY <2>2, <2>3, <2>4, <2>6, <3>1 DEF Seen
  <2> QED BY <2>5, <2>6
<1>3. CASE ~ \E r \in Runners : CommitRun(r)
  <2>1. index' = index
    BY <1>3, OnlyCommits
  <2>2. d \in due /\ doc'[d] = doc[d]
    <3>1. CASE \E e \in Docs : Flush(e)
      BY <3>1 DEF Flush
    <3>2. CASE \E e \in Docs : Enrich(e)
      BY <1>1, <3>2, Enriching
    <3>3. CASE \E o \in open : Land(o)
      BY <1>1, <3>3, Landing
    <3>4. CASE \E q \in Runners : Incremental(q) \/ Full(q) \/ Reapply(q)
      BY <3>4, Beginning
    <3>5. CASE \E q \in Runners : ReadKind(q)
      BY <3>5, Reading
    <3>6. CASE \E q \in Runners : WriteKind(q)
      BY <3>6, Writing
    <3>7. CASE (\E q \in Runners : FailRun(q)) \/ Tick \/ UNCHANGED indexVars
      BY <3>7 DEF FailRun, Tick, indexVars
    <3> QED BY <1>3, <3>1, <3>2, <3>3, <3>4, <3>5, <3>6, <3>7, IndexSteps
  <2> QED BY <1>1, <2>1, <2>2 DEF IndexInv, IndexFollows, Stored
<1> QED BY <1>2, <1>3

-----------------------------------------------------------------------------
LEMMA IndexStarts == IndexInit => IndexInv
<1> SUFFICES ASSUME IndexInit PROVE IndexInv
  OBVIOUS
<1>1. /\ clock = 0 /\ open = {} /\ watermark = NoMark /\ due = {} /\ crossed = {} /\ excused = {}
      /\ (\A d \in Docs : doc[d] = NoDoc("absent") /\ index[d] = NoRow)
      /\ \A r \in Runners : run[r] = NoRun /\ work[r] = Idle(NoMark, {}) /\ saw[r] = {}
  BY DEF IndexInit
<1>2. NoDoc("absent") \in IndexDocs /\ NoDoc("absent").state = "absent" /\ NoDoc("absent").id = 0
  <2>1. "absent" \in {"absent", "stored", "gone"} /\ 0 \in Nat /\ {} \in SUBSET Changes
    OBVIOUS
  <2> QED BY <2>1 DEF NoDoc, IndexDocs
<1>3. \A d \in Docs : ~ Stored(d)
  BY <1>1, <1>2 DEF Stored
<1>4. IndexTypeOK
  BY <1>2, IdleRun DEF IndexInit, IndexTypeOK, IndexRows
<1>5. Stamped
  BY <1>1, <1>3, IdleRun DEF Stamped
<1>6. Timed
  BY <1>1, IdleRun DEF Timed
<1>7. FilingsNumbered
  <2>1. Reached(watermark.filing_id) /\ \A r \in Runners : Reached(work[r].mark.filing_id)
    BY <1>1, IdleRun DEF Reached
  <2>2. \A d \in Docs : doc[d].id = 0
    BY <1>1, <1>2
  <2>3. 0 \in Nat /\ 0 <= 0
    OBVIOUS
  <2> QED BY <1>1, <1>3, <2>1, <2>2, <2>3 DEF FilingsNumbered
<1>8. Families /\ RowsHeld /\ Retagged
  BY <1>1, <1>2, <1>3, IdleRun DEF Families, RowsHeld, Retagged
<1>9. Handed
  BY <1>1, IdleRun DEF Handed
<1>10. Rebuilt /\ IndexCurrent /\ RunsCover /\ ReadTrue /\ WrittenTrue
  BY <1>1, <1>3, IdleRun DEF Rebuilt, IndexCurrent, RunsCover, ReadTrue, WrittenTrue
<1>11. SawFresh /\ SawCovered /\ IndexFollows
  BY <1>1 DEF SawFresh, SawCovered, IndexFollows
<1> QED BY <1>4, <1>5, <1>6, <1>7, <1>8, <1>9, <1>10, <1>11 DEF IndexInv, IndexShape

\* The inductive invariant: what the next run will not read is in the index, and what the
\* one after it will not read is in the rows of the runs under way, or will be.
THEOREM IndexInvariant == IndexSpec => []IndexInv
<1>1. IndexInv /\ [IndexNext]_indexVars => IndexInv'
  <2> SUFFICES ASSUME IndexInv, IndexStep PROVE IndexInv'
    BY DEF IndexStep
  <2> IndexShape
    BY InvParts
  <2> QED BY ShapeStep, RebuiltStep, CurrentStep, CoversStep, ReadTrueStep, WrittenTrueStep,
             SawFreshStep, SawCoveredStep, FollowsStep DEF IndexInv
<1> QED BY IndexStarts, <1>1, PTL DEF IndexSpec

\* The index follows the documents although transactions commit behind a run's back and
\* runs overlap, whatever the documents, the runs and the bounds, as long as SLACK covers
\* the time a transaction stays open and the time a run takes (search_index.incremental).
THEOREM IndexFollowsDocuments == IndexSpec => []IndexFollows
<1>1. IndexInv => IndexFollows
  BY DEF IndexInv
<1> QED BY IndexInvariant, <1>1, PTL

=============================================================================
