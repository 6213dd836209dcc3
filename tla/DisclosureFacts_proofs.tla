------------------------- MODULE DisclosureFacts_proofs -------------------------
(***************************************************************************)
(* For any filings, amendments and books: position changes never refer to  *)
(* a snapshot that is gone, whatever number of jobs run; and with one job  *)
(* nothing is counted twice, nothing superseded counts, and each book is   *)
(* what its newest filings say.                                            *)
(***************************************************************************)
EXTENDS DisclosureFacts, TLAPS, FiniteSetTheorems, WellFoundedInduction

\* What one job knows of its batch: it is still pending, and still flagged as it was read.
BatchFresh ==
    \A j \in Jobs :
        /\ phase[j] # "parse" => batch[j] = {}
        /\ batch[j] \subseteq Pending
        /\ flagged[j] = batch[j] \intersect superseded

OneJob == \A i, j \in Jobs : i = j

-----------------------------------------------------------------------------
\* Among finitely many filings one is parsed last: otherwise each would have fewer
\* filings after it than some other, without end.
LEMMA LastExists ==
    ASSUME NEW S \in SUBSET Filings, S # {}, NEW rising \in BOOLEAN
    PROVE  \E f \in S : \A g \in S \ {f} : After(f, g, rising)
<1> DEFINE Later(f) == {g \in S : After(g, f, rising)}
           T == {Later(f) : f \in S}
<1>1. IsWellFoundedOn(StrictSubsetOrdering(S), SUBSET S)
  <2>1. IsFiniteSet(S)
    BY FactsAssumption, FS_Subset
  <2>2. FiniteSubsetsOf(S) = SUBSET S
    BY ONLY <2>1, FS_FiniteSubsetsOfFinite
  <2>3. IsWellFoundedOn(StrictSubsetOrdering(S), FiniteSubsetsOf(S))
    BY ONLY FS_StrictSubsetOrderingWellFounded
  <2> QED BY ONLY <2>2, <2>3
<1>2. T \subseteq SUBSET S /\ T # {}
  OBVIOUS
<1>3. PICK U \in T : \A V \in T : <<V, U>> \notin StrictSubsetOrdering(S)
  <2> HIDE DEF T
  <2> QED BY <1>1, <1>2, WFMin
<1>4. PICK f \in S : U = Later(f)
  BY <1>3
<1>5. ASSUME NEW g \in S \ {f}
      PROVE  After(f, g, rising)
  <2>1. SUFFICES ASSUME After(g, f, rising) PROVE FALSE
    BY FactsAssumption DEF After
  <2>2. Later(g) \subseteq Later(f)
    <3>1. S \subseteq Nat /\ \A h \in S : Published[h] \in Nat
      BY FactsAssumption
    <3>2. ASSUME NEW h \in S, After(h, g, rising)
          PROVE  After(h, f, rising)
      BY <3>1, <3>2, <2>1 DEF After
    <3> QED BY <3>2
  <2>3. g \in Later(f) /\ g \notin Later(g)
    BY <2>1, FactsAssumption DEF After
  <2>4. <<Later(g), U>> \in StrictSubsetOrdering(S)
    BY <1>4, <2>2, <2>3 DEF StrictSubsetOrdering
  <2> QED BY <1>3, <2>4
<1> QED BY <1>5

LEMMA LastOfIn ==
    ASSUME NEW S \in SUBSET Filings, S # {}, NEW rising \in BOOLEAN
    PROVE  LastOf(S, rising) \in S
BY LastExists DEF LastOf

\* The filing that becomes the base of a book is one of its writers.
LEMMA ReplacingIn ==
    ASSUME NEW W \in SUBSET Filings, NEW b \in Books, NEW rising \in BOOLEAN,
           Replacing(W, b, rising) # {}
    PROVE  LastOf(Replacing(W, b, rising), rising) \in W
<1>1. Replacing(W, b, rising) \subseteq W
  BY DEF Replacing
<1> QED BY <1>1, LastOfIn

\* The base of each book after a batch was read: as before, or a report that was read
\* and not flagged.
LEMMA BaseAfter ==
    ASSUME NEW j \in Jobs, NEW bad, NEW rising \in BOOLEAN, batch[j] \subseteq Filings,
           Commit(j, bad, rising), NEW b \in Books
    PROVE  base'[b] = base[b] \/ base'[b] \in ((batch[j] \ bad) \ flagged[j]) \ Events
<1> DEFINE read == batch[j] \ bad
           W == Writers(j, read, b)
           R == Replacing(W, b, rising)
<1>1. base'[b] = IF R # {} THEN LastOf(R, rising) ELSE base[b]
  BY DEF Commit
<1>2. W \subseteq (read \ flagged[j]) \ Events /\ W \in SUBSET Filings
  BY DEF Writers
<1> HIDE DEF W
<1>3. R # {} => LastOf(R, rising) \in W
  BY <1>2, ReplacingIn
<1> HIDE DEF R
<1> QED BY <1>1, <1>2, <1>3

LEMMA NewPartsType ==
    ASSUME TypeOK, NEW j \in Jobs, NEW read \in SUBSET Filings, NEW b \in Books, NEW rising \in BOOLEAN
    PROVE  NewParts(Writers(j, read, b), b, rising) \in SUBSET Filings
BY DEF NewParts, Writers, TypeOK

\* The chain of snapshots only has changes between snapshots that exist, in order of date.
LEMMA ChainSound ==
    ASSUME TypeOK, NEW c \in Chain
    PROVE  /\ c \in Change
           /\ base[c.from] # NoFiling /\ base[c.to] # NoFiling
           /\ FundOf[c.from] = FundOf[c.to] /\ AsOf[c.from] < AsOf[c.to]
BY DEF Chain, Change, TypeOK

LEMMA WithoutSound ==
    ASSUME NEW gone, NEW c \in Without(gone)
    PROVE  c \in changes /\ c.from \notin gone /\ c.to \notin gone
BY DEF Without

-----------------------------------------------------------------------------
\* Type correctness is preserved by every step.
LEMMA TypeStep == TypeOK /\ [Next]_vars => TypeOK'
<1> SUFFICES ASSUME TypeOK, [Next]_vars PROVE TypeOK'
  OBVIOUS
<1> USE FactsAssumption
<1>1. ASSUME NEW j \in Jobs, NEW f \in Filings, Store(j, f)
      PROVE  TypeOK'
  <2>1. Replaced(f) \subseteq Filings
    BY DEF Replaced, Stored
  <2>2. /\ status' \in [Filings -> {"absent", "PENDING", "PARSED", "FAILED"}]
        /\ superseded' \subseteq Filings
    BY <1>1, <2>1 DEF Store, TypeOK
  <2>3. live' \in [Filings -> Nat] /\ dead' \in [Filings -> Nat]
    BY <1>1 DEF Store, TypeOK
  <2>4. base' \in [Books -> Filings \union {NoFiling}] /\ parts' \in [Books -> SUBSET Filings]
    BY <1>1 DEF Store, TypeOK
  <2>5. changes' \subseteq Change
    BY <1>1, WithoutSound DEF Store, TypeOK
  <2>6. late' \subseteq Filings
    BY <1>1 DEF Store, TypeOK
  <2> QED BY <1>1, <2>2, <2>3, <2>4, <2>5, <2>6 DEF Store, job, TypeOK
<1>2. ASSUME NEW j \in Jobs, ReadPending(j)
      PROVE  TypeOK'
  BY <1>2 DEF ReadPending, Pending, facts, TypeOK
<1>3. ASSUME NEW j \in Jobs, CommitParse(j)
      PROVE  TypeOK'
  <2>1. PICK bad \in SUBSET (batch[j] \intersect MayFail), rising \in BOOLEAN : Commit(j, bad, rising)
    BY <1>3 DEF CommitParse
  <2> DEFINE read == batch[j] \ bad
  <2>2. read \in SUBSET Filings
    BY DEF TypeOK
  <2>3. status' \in [Filings -> {"absent", "PENDING", "PARSED", "FAILED"}]
    BY <2>1 DEF Commit, TypeOK
  <2>4. live' \in [Filings -> Nat] /\ dead' \in [Filings -> Nat]
    BY <2>1 DEF Commit, TypeOK
  <2>5. base' \in [Books -> Filings \union {NoFiling}]
    <3>1. ASSUME NEW b \in Books
          PROVE  base'[b] \in Filings \union {NoFiling}
      <4>1. batch[j] \subseteq Filings /\ base[b] \in Filings \union {NoFiling}
        BY DEF TypeOK
      <4>2. base'[b] = base[b] \/ base'[b] \in ((batch[j] \ bad) \ flagged[j]) \ Events
        BY <2>1, <4>1, BaseAfter
      <4> QED BY <4>1, <4>2
    <3>2. base' = [b \in Books |-> base'[b]]
      BY <2>1 DEF Commit
    <3> QED BY <3>1, <3>2
  <2>6. parts' \in [Books -> SUBSET Filings]
    BY <2>1, <2>2, NewPartsType DEF Commit
  <2>7. changes' \subseteq Change
    BY <2>1, WithoutSound DEF Commit, TypeOK
  <2>8. /\ phase' \in [Jobs -> {"ingest", "parse", "compute"}]
        /\ batch' \in [Jobs -> SUBSET Filings] /\ flagged' \in [Jobs -> SUBSET Filings]
        /\ UNCHANGED <<superseded, late, crashes>>
    BY <2>1 DEF Commit, TypeOK
  <2> QED BY <2>3, <2>4, <2>5, <2>6, <2>7, <2>8 DEF TypeOK
<1>4. ASSUME NEW j \in Jobs, Compute(j)
      PROVE  TypeOK'
  <2>1. changes' \subseteq Change
    BY <1>4, ChainSound DEF Compute
  <2> QED BY <1>4, <2>1 DEF Compute, facts, TypeOK
<1>5. CASE NightlyCompute
  <2>1. changes' \subseteq Change
    BY <1>5, ChainSound DEF NightlyCompute
  <2> QED BY <1>5, <2>1 DEF NightlyCompute, facts, job, TypeOK
<1>6. ASSUME NEW j \in Jobs, Abort(j)
      PROVE  TypeOK'
  BY <1>6 DEF Abort, facts, TypeOK
<1>7. CASE UNCHANGED vars
  BY <1>7 DEF vars, TypeOK
<1> QED BY <1>1, <1>2, <1>3, <1>4, <1>5, <1>6, <1>7 DEF Next, Run

THEOREM TypeCorrect == Spec => []TypeOK
<1>1. Init => TypeOK
  BY FactsAssumption DEF Init, TypeOK
<1> QED BY <1>1, TypeStep, PTL DEF Spec

-----------------------------------------------------------------------------
\* A step that deletes a snapshot deletes its changes; one that rebuilds them only
\* finds snapshots that are there.
LEMMA ChangesStep == TypeOK /\ ChangesLive /\ [Next]_vars => ChangesLive'
<1> SUFFICES ASSUME TypeOK, ChangesLive, [Next]_vars PROVE ChangesLive'
  OBVIOUS
<1>1. \A c \in changes : c.from \in Books /\ c.to \in Books
  BY DEF TypeOK, Change
<1>2. ASSUME NEW j \in Jobs, NEW f \in Filings, Store(j, f)
      PROVE  ChangesLive'
  <2> DEFINE gone == {b \in Books : base[b] \in Replaced(f)}
  <2>1. changes' = Without(gone)
    BY <1>2 DEF Store
  <2>2. \A b \in Books \ gone : base'[b] = base[b]
    BY <1>2 DEF Store
  <2> HIDE DEF gone
  <2> QED BY <1>1, <2>1, <2>2, WithoutSound DEF ChangesLive
<1>3. ASSUME NEW j \in Jobs, CommitParse(j)
      PROVE  ChangesLive'
  <2>1. PICK bad \in SUBSET (batch[j] \intersect MayFail), rising \in BOOLEAN : Commit(j, bad, rising)
    BY <1>3 DEF CommitParse
  <2>2. \A c \in changes' : c \in changes
    BY <2>1, WithoutSound DEF Commit
  <2>3. batch[j] \subseteq Filings
    BY DEF TypeOK
  <2>4. \A b \in Books : base'[b] = base[b] \/ base'[b] \in Filings
    BY <2>1, <2>3, BaseAfter
  <2> QED BY <1>1, <2>2, <2>4, FactsAssumption DEF ChangesLive
<1>4. CASE changes' = Chain /\ UNCHANGED base
  BY <1>4, ChainSound DEF ChangesLive
<1>5. CASE UNCHANGED <<base, changes>>
  BY <1>5 DEF ChangesLive
<1> QED BY <1>2, <1>3, <1>4, <1>5 DEF Next, Run, ReadPending, Compute, NightlyCompute, Abort, facts, vars

\* With any number of jobs, position changes compare snapshots that exist.
THEOREM ChangesAreLive == Spec => []ChangesLive
<1>1. Init => ChangesLive
  BY DEF Init, ChangesLive
<1> QED BY <1>1, TypeCorrect, ChangesStep, PTL DEF Spec

-----------------------------------------------------------------------------
\* With one job nothing is stored between the reading of a batch and its commit, so
\* the batch is still pending and its flags are still true.
LEMMA BatchStep ==
    ASSUME OneJob, TypeOK, BatchFresh, [Next]_vars
    PROVE  BatchFresh'
<1>1. ASSUME NEW j \in Jobs, NEW f \in Filings, Store(j, f)
      PROVE  BatchFresh'
  <2>1. \A i \in Jobs : batch[i] = {} /\ flagged[i] = {}
    BY <1>1 DEF OneJob, BatchFresh, Store
  <2>2. UNCHANGED <<phase, batch, flagged>>
    BY <1>1 DEF Store, job
  <2> QED BY <2>1, <2>2 DEF BatchFresh
<1>2. ASSUME NEW j \in Jobs, ReadPending(j)
      PROVE  BatchFresh'
  <2>1. /\ phase' = [phase EXCEPT ![j] = "parse"]
        /\ batch' = [batch EXCEPT ![j] = Pending]
        /\ flagged' = [flagged EXCEPT ![j] = Pending \intersect superseded]
        /\ UNCHANGED <<status, superseded>>
    BY <1>2 DEF ReadPending
  <2>2. Pending' = Pending
    BY <2>1 DEF Pending
  <2>3. \A i \in Jobs : i = j
    BY DEF OneJob
  <2> QED BY <2>1, <2>2, <2>3 DEF BatchFresh, TypeOK
<1>3. ASSUME NEW j \in Jobs, CommitParse(j) \/ Abort(j)
      PROVE  BatchFresh'
  <2>1. /\ batch' = [batch EXCEPT ![j] = {}]
        /\ flagged' = [flagged EXCEPT ![j] = {}]
    BY <1>3 DEF CommitParse, Commit, Abort
  <2>2. \A i \in Jobs : i = j
    BY DEF OneJob
  <2>3. \A i \in Jobs : batch'[i] = {} /\ flagged'[i] = {}
    BY <2>1, <2>2 DEF TypeOK
  <2> QED BY <2>3 DEF BatchFresh
<1>4. ASSUME NEW j \in Jobs, Compute(j)
      PROVE  BatchFresh'
  <2>1. /\ phase[j] = "compute" /\ phase' = [phase EXCEPT ![j] = "ingest"]
        /\ UNCHANGED <<status, superseded, batch, flagged>>
    BY <1>4 DEF Compute
  <2>2. \A i \in Jobs : i = j /\ batch[i] = {}
    BY <2>1 DEF OneJob, BatchFresh
  <2> QED BY <2>1, <2>2 DEF BatchFresh, Pending
<1>5. CASE UNCHANGED <<phase, batch, flagged, status, superseded>>
  BY <1>5 DEF BatchFresh, Pending
<1> QED BY <1>1, <1>2, <1>3, <1>4, <1>5 DEF Next, Run, NightlyCompute, job, vars

\* An event is written for a pending filing only, which has none yet.
LEMMA CountStep ==
    ASSUME TypeOK, BatchFresh, CountedOnce, [Next]_vars
    PROVE  CountedOnce'
<1>1. ASSUME NEW j \in Jobs, NEW f \in Filings, Store(j, f)
      PROVE  CountedOnce'
  <2>1. \A g \in Filings : live[g] \in Nat /\ dead[g] \in Nat
    BY DEF TypeOK
  <2>2. \A g \in Filings : live'[g] + dead'[g] = live[g] + dead[g]
    BY <1>1, <2>1 DEF Store
  <2>3. \A g \in Filings : status'[g] = "PARSED" <=> status[g] = "PARSED"
    BY <1>1 DEF Store, TypeOK
  <2> QED BY <2>2, <2>3 DEF CountedOnce
<1>2. ASSUME NEW j \in Jobs, CommitParse(j)
      PROVE  CountedOnce'
  <2>1. PICK bad \in SUBSET (batch[j] \intersect MayFail), rising \in BOOLEAN : Commit(j, bad, rising)
    BY <1>2 DEF CommitParse
  <2> DEFINE read == batch[j] \ bad
  <2>2. \A f \in batch[j] : status[f] = "PENDING"
    BY DEF BatchFresh, Pending
  <2>3. ASSUME NEW f \in Filings
        PROVE  live'[f] + dead'[f] = IF f \in Events /\ status'[f] = "PARSED" THEN 1 ELSE 0
    <3>1. live[f] \in Nat /\ dead[f] \in Nat
      BY DEF TypeOK
    <3>2. live[f] + dead[f] = IF f \in Events /\ status[f] = "PARSED" THEN 1 ELSE 0
      BY DEF CountedOnce
    <3>3. /\ live'[f] = IF f \in (read \intersect Events) \ flagged[j] THEN live[f] + 1 ELSE live[f]
          /\ dead'[f] = IF f \in read \intersect Events \intersect flagged[j] THEN dead[f] + 1 ELSE dead[f]
          /\ status'[f] = IF f \in bad THEN "FAILED" ELSE IF f \in read THEN "PARSED" ELSE status[f]
      BY <2>1 DEF Commit
    <3>4. CASE f \in read \intersect Events
      <4>1. live[f] + dead[f] = 0 /\ status'[f] = "PARSED"
        BY <2>2, <3>2, <3>3, <3>4
      <4>2. live'[f] + dead'[f] = live[f] + dead[f] + 1
        BY <3>1, <3>3, <3>4
      <4> QED BY <3>4, <4>1, <4>2
    <3>5. CASE f \notin read \intersect Events
      <4>1. live'[f] + dead'[f] = live[f] + dead[f]
        BY <3>3, <3>5
      <4>2. f \in Events => (status'[f] = "PARSED" <=> status[f] = "PARSED")
        BY <2>2, <3>3, <3>5
      <4> QED BY <3>2, <4>1, <4>2
    <3> QED BY <3>4, <3>5
  <2> QED BY <2>3 DEF CountedOnce
<1>3. CASE UNCHANGED <<live, dead, status>>
  BY <1>3 DEF CountedOnce
<1> QED BY <1>1, <1>2, <1>3 DEF Next, Run, ReadPending, Compute, NightlyCompute, Abort, facts, vars

\* Superseding takes the facts away, and what is parsed later does not bring them back.
LEMMA SupersedeStep ==
    ASSUME TypeOK, BatchFresh, SupersedeLaw, [Next]_vars
    PROVE  SupersedeLaw'
<1>1. ASSUME NEW j \in Jobs, NEW f \in Filings, Store(j, f)
      PROVE  SupersedeLaw'
  <2> DEFINE old == Replaced(f)
  <2>1. /\ superseded' = superseded \union old
        /\ live' = [g \in Filings |-> IF g \in old THEN 0 ELSE live[g]]
        /\ dead' = [g \in Filings |-> IF g \in old THEN dead[g] + live[g] ELSE dead[g]]
        /\ base' = [b \in Books |-> IF base[b] \in old THEN NoFiling ELSE base[b]]
    BY <1>1 DEF Store
  <2>2. old \subseteq Filings /\ superseded \subseteq Filings
    BY DEF Replaced, Stored, TypeOK
  <2> HIDE DEF old
  <2>3. \A g \in superseded' : live'[g] = 0
    BY <2>1, <2>2 DEF SupersedeLaw
  <2>4. \A g \in superseded', b \in Books : base'[b] # g
    BY <2>1, <2>2, FactsAssumption DEF SupersedeLaw
  <2>5. \A g \in Filings \ superseded' : dead'[g] = 0
    BY <2>1 DEF SupersedeLaw
  <2> QED BY <2>3, <2>4, <2>5 DEF SupersedeLaw
<1>2. ASSUME NEW j \in Jobs, CommitParse(j)
      PROVE  SupersedeLaw'
  <2>1. PICK bad \in SUBSET (batch[j] \intersect MayFail), rising \in BOOLEAN : Commit(j, bad, rising)
    BY <1>2 DEF CommitParse
  <2>2. superseded' = superseded /\ superseded \subseteq Filings /\ batch[j] \subseteq Filings
    BY <2>1 DEF Commit, TypeOK
  <2>3. flagged[j] = batch[j] \intersect superseded
    BY DEF BatchFresh
  <2>4. \A f \in superseded : live'[f] = 0
    BY <2>1, <2>2, <2>3 DEF Commit, SupersedeLaw
  <2>5. \A f \in Filings \ superseded : dead'[f] = 0
    BY <2>1, <2>3 DEF Commit, SupersedeLaw
  <2>6. \A b \in Books : base'[b] = base[b] \/ base'[b] \in ((batch[j] \ bad) \ flagged[j]) \ Events
    BY <2>1, <2>2, BaseAfter
  <2>7. \A f \in superseded, b \in Books : base'[b] # f
    BY <2>3, <2>6 DEF SupersedeLaw
  <2> QED BY <2>2, <2>4, <2>5, <2>7 DEF SupersedeLaw
<1>3. CASE UNCHANGED <<live, dead, base, superseded>>
  BY <1>3 DEF SupersedeLaw
<1> QED BY <1>1, <1>2, <1>3 DEF Next, Run, ReadPending, Compute, NightlyCompute, Abort, facts, vars

\* One job at a time keeps its batch fresh: what the two theorems below need.
LEMMA BatchIsFresh ==
    ASSUME OneJob
    PROVE  Spec => [](TypeOK /\ BatchFresh)
<1>1. Init => BatchFresh
  BY DEF Init, BatchFresh
<1>2. TypeOK /\ BatchFresh /\ [Next]_vars => BatchFresh'
  BY BatchStep
<1> QED BY <1>1, <1>2, TypeCorrect, PTL DEF Spec

\* "Re-running never double-counts": with one job at a time, every parsed transaction
\* filing has exactly one event, however often the job is rolled back or dies.
THEOREM CountsOnce ==
    ASSUME OneJob
    PROVE  Spec => []CountedOnce
<1>1. Init => CountedOnce
  BY DEF Init, CountedOnce
<1>2. TypeOK /\ BatchFresh /\ CountedOnce /\ [Next]_vars => CountedOnce'
  BY CountStep
<1> QED BY <1>1, <1>2, BatchIsFresh, PTL DEF Spec

\* The supersede law: with one job at a time, nothing superseded counts and everything
\* else does.
THEOREM Superseding ==
    ASSUME OneJob
    PROVE  Spec => []SupersedeLaw
<1>1. Init => SupersedeLaw
  BY DEF Init, SupersedeLaw
<1>2. TypeOK /\ BatchFresh /\ SupersedeLaw /\ [Next]_vars => SupersedeLaw'
  BY SupersedeStep
<1> QED BY <1>1, <1>2, BatchIsFresh, PTL DEF Spec

-----------------------------------------------------------------------------
\* What BookIsNewest rests on.

Settled(f) == status[f] \in {"PARSED", "FAILED"}

\* A full report that counts, or would if it were parsed.
Full(f, b) == f \in Reports \ (Additive \union superseded) /\ BookOf[f] = b

\* Unless something arrived late, what was read is no newer than what is still pending.
InOrder ==
    late = {} =>
        \A f, g \in Filings : Settled(f) /\ status[g] = "PENDING" => Published[f] <= Published[g]

\* A job at its parsing stage holds all that is pending.
BatchWhole == \A j \in Jobs : phase[j] = "parse" => batch[j] = Pending

\* The snapshot of a book is one of its reports, and only what is stored is superseded.
BaseSound ==
    /\ superseded \subseteq Stored
    /\ \A b \in Books : base[b] # NoFiling => base[b] \in Reports /\ BookOf[base[b]] = b

\* A full report that was read, but has no snapshot, has an heir that is still pending.
HeirPending ==
    \A b \in Books, f \in Filings :
        Full(f, b) /\ status[f] = "PARSED" /\ base[b] = NoFiling /\ ~ Orphaned(b) =>
            \E h \in Filings : Full(h, b) /\ status[h] = "PENDING"

NewestInv == TypeOK /\ BatchFresh /\ InOrder /\ BatchWhole /\ BaseSound /\ HeirPending /\ BookIsNewest

\* A book that lost a report has lost it for good.
LEMMA OrphanedStays ==
    ASSUME TypeOK, BatchFresh, [Next]_vars, NEW b \in Books, Orphaned(b)
    PROVE  Orphaned(b)'
<1>1. /\ \A f \in Filings : status[f] = "FAILED" => status'[f] = "FAILED"
      /\ \A f \in Filings : status[f] # "absent" => status'[f] # "absent"
  <2>1. CASE UNCHANGED status
    BY <2>1
  <2>2. ASSUME NEW j \in Jobs, NEW f \in Filings, Store(j, f)
        PROVE  <1>1!:
    BY <2>2 DEF Store, TypeOK
  <2>3. ASSUME NEW j \in Jobs, CommitParse(j)
        PROVE  <1>1!:
    <3>1. PICK bad \in SUBSET (batch[j] \intersect MayFail), rising \in BOOLEAN : Commit(j, bad, rising)
      BY <2>3 DEF CommitParse
    <3>2. \A f \in batch[j] : f \in Filings /\ status[f] = "PENDING"
      BY DEF BatchFresh, Pending
    <3>3. ASSUME NEW f \in Filings
          PROVE  status'[f] = IF f \in bad THEN "FAILED" ELSE IF f \in batch[j] \ bad THEN "PARSED" ELSE status[f]
      BY <3>1 DEF Commit
    <3> QED BY <3>1, <3>2, <3>3
  <2> QED BY <2>1, <2>2, <2>3 DEF Next, Run, ReadPending, Compute, NightlyCompute, Abort, vars
<1>2. CASE \E f \in Reports : BookOf[f] = b /\ status[f] = "FAILED"
  BY <1>1, <1>2 DEF Orphaned, Reports
<1>3. CASE \E f \in Stored \ Additive, g \in Reports :
              Amends[f] = g /\ BookOf[g] = b /\ (f \in Events \/ BookOf[f] # b)
  BY <1>1, <1>3 DEF Orphaned, Stored
<1> QED BY <1>2, <1>3 DEF Orphaned

\* The filing parsed last comes after every other of its set.
LEMMA LastOfIsLast ==
    ASSUME NEW S \in SUBSET Filings, S # {}, NEW rising \in BOOLEAN, NEW g \in S
    PROVE  /\ Published[g] <= Published[LastOf(S, rising)]
           /\ g # LastOf(S, rising) => After(LastOf(S, rising), g, rising)
<1> DEFINE last == LastOf(S, rising)
<1>1. last \in S /\ \A h \in S \ {last} : After(last, h, rising)
  BY LastExists DEF LastOf
<1>2. Published[g] \in Nat /\ Published[last] \in Nat
  BY <1>1, FactsAssumption
<1>3. g # last => After(last, g, rising)
  BY <1>1
<1> HIDE DEF last
<1>4. Published[g] <= Published[last]
  BY <1>2, <1>3 DEF After
<1> QED BY <1>3, <1>4 DEF last

\* What the writers of a book leave: the snapshot of a full report among them that no
\* other follows, or, where there is none, what was there and all they add.
LEMMA Written ==
    ASSUME NEW W \in SUBSET Filings, NEW b \in Books, NEW rising \in BOOLEAN
    PROVE  LET R == Replacing(W, b, rising)
               last == LastOf(R, rising)
           IN  /\ \A f \in W \ Additive : f \in R /\ Published[f] <= Published[last] /\ last \notin Additive
               /\ R # {} => last \in W
               /\ R # {} /\ last \in Additive => base[b] = NoFiling
<1> DEFINE R == Replacing(W, b, rising)
           last == LastOf(R, rising)
<1>1. R \in SUBSET Filings /\ R \subseteq W
  BY DEF Replacing
<1>2. \A f \in W \ Additive : f \in R
  BY DEF Replacing
<1>3. R # {} => last \in R
  BY <1>1, LastOfIn
<1>4. R # {} /\ last \in Additive => base[b] = NoFiling /\ \A g \in W \ {last} : After(g, last, rising)
  BY <1>3 DEF Replacing
<1>5. ASSUME NEW f \in W \ Additive
      PROVE  Published[f] <= Published[last] /\ last \notin Additive
  <2>1. f \in R
    BY <1>2
  <2>2. Published[f] <= Published[last] /\ (f # last => After(last, f, rising))
    BY <1>1, <2>1, LastOfIsLast
  <2>3. last \in R
    BY <1>3, <2>1
  <2>4. ASSUME last \in Additive PROVE FALSE
    <3>1. f # last
      BY <2>4
    <3>2. After(last, f, rising) /\ After(f, last, rising)
      BY <1>4, <2>1, <2>2, <2>4, <3>1
    <3>3. /\ f \in Nat /\ last \in Nat
          /\ Published[f] \in Nat /\ Published[last] \in Nat
      BY <1>1, <2>1, <2>3, FactsAssumption
    <3> HIDE DEF last
    <3> QED BY <3>1, <3>2, <3>3 DEF After
  <2> QED BY <2>2, <2>4
<1> QED BY <1>1, <1>2, <1>3, <1>4, <1>5

-----------------------------------------------------------------------------
\* A filing that replaces one of a book's reports is its heir, unless the book loses it.
LEMMA HeirStored ==
    ASSUME TypeOK, BaseSound, NEW j \in Jobs, NEW f \in Filings, Store(j, f),
           NEW b \in Books, ~ Orphaned(b)', NEW g \in Replaced(f), g \in Reports, BookOf[g] = b
    PROVE  Full(f, b)' /\ status'[f] = "PENDING"
<1>1. g \in Stored \ {f} /\ f \notin Additive
  BY DEF Replaced
<1>2. status'[f] = "PENDING" /\ superseded' = superseded \union Replaced(f) /\ status[f] = "absent"
  BY DEF Store, TypeOK
<1>3. f \notin superseded'
  BY <1>2 DEF BaseSound, Stored, Replaced
<1>4. f \in Reports /\ BookOf[f] = b
  <2>1. CASE Amends[f] = g
    <3>1. ~ (f \in Events \/ BookOf[f] # b)
      BY <1>1, <1>2, <2>1 DEF Orphaned, Stored
    <3> QED BY <3>1 DEF Reports
  <2>2. CASE f \in Restating /\ EarlierFor(g, f)
    BY <2>2, FactsAssumption DEF EarlierFor
  <2> QED BY <2>1, <2>2 DEF Replaced
<1> QED BY <1>1, <1>2, <1>3, <1>4 DEF Full

LEMMA StoreNewest ==
    ASSUME NewestInv, OneJob, NEW j \in Jobs, NEW f \in Filings, Store(j, f)
    PROVE  InOrder' /\ BatchWhole' /\ BaseSound' /\ HeirPending' /\ BookIsNewest'
<1> USE FactsAssumption
<1> DEFINE old == Replaced(f)
<1>1. /\ status[f] = "absent" /\ status' = [status EXCEPT ![f] = "PENDING"]
      /\ superseded' = superseded \union old
      /\ base' = [b \in Books |-> IF base[b] \in old THEN NoFiling ELSE base[b]]
      /\ parts' = [b \in Books |-> IF base[b] \in old THEN {} ELSE parts[b]]
      /\ late' = IF \E g \in Stored : Published[g] > Published[f] THEN late \union {f} ELSE late
      /\ phase[j] = "ingest" /\ phase' = phase
  BY DEF Store, job
<1>2. old \subseteq Filings \ {f} /\ old \subseteq Stored
  BY DEF Replaced, Stored
<1>3. /\ \A g \in Filings \ {f} : status'[g] = status[g]
      /\ status'[f] = "PENDING"
      /\ status \in [Filings -> {"absent", "PENDING", "PARSED", "FAILED"}]
  BY <1>1 DEF NewestInv, TypeOK
<1>4. \A b \in Books : base'[b] = NoFiling \/ (base'[b] = base[b] /\ parts'[b] = parts[b])
  BY <1>1
<1>5. late' = {} => late = {} /\ \A g \in Stored : Published[g] <= Published[f]
  BY <1>1 DEF Stored
<1>6. InOrder'
  <2>1. SUFFICES ASSUME late' = {}, NEW g \in Filings, NEW h \in Filings, Settled(g)', status'[h] = "PENDING"
                 PROVE  Published[g] <= Published[h]
    BY DEF InOrder
  <2>2. g # f /\ Settled(g) /\ g \in Stored
    BY <1>3, <2>1 DEF Settled, Stored
  <2>3. CASE h = f
    BY <1>5, <2>1, <2>2, <2>3
  <2>4. CASE h # f
    BY <1>3, <1>5, <2>1, <2>2, <2>4 DEF NewestInv, InOrder
  <2> QED BY <2>3, <2>4
<1>7. BatchWhole'
  BY <1>1 DEF OneJob, BatchWhole
<1>8. BaseSound'
  <2>1. superseded' \subseteq Stored'
    BY <1>1, <1>2, <1>3 DEF NewestInv, BaseSound, Stored
  <2>2. \A b \in Books : base'[b] # NoFiling => base'[b] \in Reports /\ BookOf[base'[b]] = b
    BY <1>4 DEF NewestInv, BaseSound
  <2> QED BY <2>1, <2>2 DEF BaseSound
<1>9. HeirPending'
  <2>1. SUFFICES ASSUME NEW b \in Books, NEW g \in Filings, Full(g, b)', status'[g] = "PARSED",
                        base'[b] = NoFiling, ~ Orphaned(b)'
                 PROVE  \E h \in Filings : Full(h, b)' /\ status'[h] = "PENDING"
    BY DEF HeirPending
  <2>2. g # f /\ Full(g, b) /\ status[g] = "PARSED"
    BY <1>1, <1>3, <2>1 DEF Full
  <2>3. ~ Orphaned(b)
    <3>1. [Next]_vars
      BY DEF Next
    <3> QED BY <2>1, <3>1, OrphanedStays DEF NewestInv
  <2>4. CASE base[b] # NoFiling
    <3>1. base[b] \in old
      BY <1>1, <2>1, <2>4
    <3>2. base[b] \in Reports /\ BookOf[base[b]] = b
      BY <2>4 DEF NewestInv, BaseSound
    <3>3. Full(f, b)' /\ status'[f] = "PENDING"
      BY <2>1, <3>1, <3>2, HeirStored DEF NewestInv
    <3> QED BY <3>3
  <2>5. CASE base[b] = NoFiling
    <3>1. PICK h \in Filings : Full(h, b) /\ status[h] = "PENDING"
      BY <2>2, <2>3, <2>5 DEF NewestInv, HeirPending
    <3>2. CASE h \in old
      <4>1. Full(f, b)' /\ status'[f] = "PENDING"
        BY <2>1, <3>1, <3>2, HeirStored DEF NewestInv, Full
      <4> QED BY <4>1
    <3>3. CASE h \notin old
      <4>1. h # f
        BY <1>1, <3>1
      <4>2. Full(h, b)' /\ status'[h] = "PENDING"
        BY <1>1, <1>3, <3>1, <3>3, <4>1 DEF Full
      <4> QED BY <4>2
    <3> QED BY <3>2, <3>3
  <2> QED BY <2>4, <2>5
<1>10. NewestWins'
  <2>1. SUFFICES ASSUME NEW b \in Books, NEW g \in Reports \ (Additive \union superseded'),
                        BookOf[g] = b, status'[g] = "PARSED", base'[b] # NoFiling
                 PROVE  /\ late' = {} => Published[g] <= Published[base'[b]]
                        /\ ~ Orphaned(b)' => base'[b] \notin Additive
    BY DEF NewestWins
  <2>2. g \in Reports \ (Additive \union superseded) /\ status[g] = "PARSED" /\ base[b] = base'[b]
    BY <1>1, <1>3, <1>4, <2>1 DEF Reports
  <2>3. Orphaned(b) => Orphaned(b)'
    <3>1. [Next]_vars
      BY DEF Next
    <3> QED BY <3>1, OrphanedStays DEF NewestInv
  <2> QED BY <1>5, <2>1, <2>2, <2>3 DEF NewestInv, BookIsNewest, NewestWins
<1>11. AmendmentMerged'
  <2>1. SUFFICES ASSUME NEW b \in Books, NEW g \in Additive \ superseded',
                        BookOf[g] = b, status'[g] = "PARSED", base'[b] # NoFiling,
                        Published[base'[b]] < Published[g], late' = {}
                 PROVE  g \in parts'[b]
    BY DEF AmendmentMerged
  <2>2. g \in Additive \ superseded /\ status[g] = "PARSED" /\ base[b] = base'[b] /\ parts'[b] = parts[b]
    BY <1>1, <1>3, <1>4, <2>1 DEF Reports
  <2> QED BY <1>5, <2>1, <2>2 DEF NewestInv, BookIsNewest, AmendmentMerged
<1> QED BY <1>6, <1>7, <1>8, <1>9, <1>10, <1>11 DEF BookIsNewest

LEMMA CommitNewest ==
    ASSUME NewestInv, OneJob, NEW j \in Jobs,
           NEW bad \in SUBSET (batch[j] \intersect MayFail), NEW rising \in BOOLEAN, Commit(j, bad, rising)
    PROVE  InOrder' /\ BatchWhole' /\ BaseSound' /\ HeirPending' /\ BookIsNewest'
<1> USE FactsAssumption
<1> DEFINE read == batch[j] \ bad
           W(b) == Writers(j, read, b)
           R(b) == Replacing(W(b), b, rising)
           last(b) == LastOf(R(b), rising)
<1>1. /\ phase[j] = "parse"
      /\ \A f \in Filings : status'[f] = IF f \in bad THEN "FAILED" ELSE IF f \in read THEN "PARSED" ELSE status[f]
      /\ \A b \in Books : base'[b] = IF R(b) # {} THEN last(b) ELSE base[b]
      /\ \A b \in Books : parts'[b] = NewParts(W(b), b, rising)
      /\ UNCHANGED <<superseded, late>>
      /\ phase' = [phase EXCEPT ![j] = IF read = {} THEN "ingest" ELSE "compute"]
  BY DEF Commit
<1>2. /\ batch[j] = Pending /\ flagged[j] = batch[j] \intersect superseded
      /\ status \in [Filings -> {"absent", "PENDING", "PARSED", "FAILED"}]
      /\ superseded \subseteq Stored
  BY <1>1 DEF NewestInv, BatchWhole, BatchFresh, BaseSound, TypeOK
<1>3. \A b \in Books : W(b) = {f \in read \ (Events \union superseded) : BookOf[f] = b}
  BY <1>2 DEF Writers
<1>4. \A b \in Books : W(b) \in SUBSET Filings /\ W(b) \subseteq read
  BY <1>2, <1>3 DEF Pending
<1>5. \A f \in Filings : /\ status[f] = "PENDING" => status'[f] \in {"PARSED", "FAILED"}
                         /\ status[f] # "PENDING" => status'[f] = status[f]
                         /\ status'[f] = "PARSED" /\ status[f] # "PARSED" => f \in read /\ status[f] = "PENDING"
                         /\ f \in read => status'[f] = "PARSED"
  BY <1>1, <1>2 DEF Pending
<1>6. ASSUME NEW b \in Books
      PROVE  /\ \A f \in W(b) \ Additive : f \in R(b) /\ Published[f] <= Published[last(b)] /\ last(b) \notin Additive
             /\ R(b) # {} => last(b) \in W(b)
             /\ R(b) # {} /\ last(b) \in Additive => base[b] = NoFiling
  <2> HIDE DEF W, R, last
  <2>1. W(b) \in SUBSET Filings
    BY <1>4
  <2> QED BY <2>1, Written DEF R, last
<1>7. ASSUME NEW b \in Books, NEW f \in Filings, Full(f, b)', status'[f] = "PARSED"
      PROVE  /\ Full(f, b)
             /\ status[f] = "PARSED" \/ f \in W(b) \ Additive
  <2>1. Full(f, b) /\ f \notin superseded /\ f \notin Events /\ BookOf[f] = b /\ f \notin Additive
    BY <1>1, <1>7 DEF Full, Reports
  <2>2. status[f] = "PARSED" \/ f \in read
    BY <1>5, <1>7
  <2>3. f \in read => f \in W(b)
    BY <1>3, <2>1
  <2> QED BY <2>1, <2>2, <2>3
<1> HIDE DEF W, R, last
<1>8. InOrder'
  <2>1. \A f \in Filings : status'[f] # "PENDING"
    BY <1>5
  <2> QED BY <2>1 DEF InOrder
<1>9. BatchWhole'
  <2>1. \A i \in Jobs : phase'[i] # "parse"
    BY <1>1 DEF OneJob, NewestInv, TypeOK
  <2> QED BY <2>1 DEF BatchWhole
<1>10. BaseSound'
  <2>1. superseded' \subseteq Stored'
    <3>1. \A f \in Filings : status[f] # "absent" => status'[f] # "absent"
      BY <1>5
    <3> QED BY <1>1, <1>2, <3>1 DEF Stored
  <2>2. ASSUME NEW b \in Books, base'[b] # NoFiling
        PROVE  base'[b] \in Reports /\ BookOf[base'[b]] = b
    <3>1. CASE R(b) # {}
      BY <1>1, <1>3, <1>4, <1>6, <3>1 DEF Reports
    <3>2. CASE R(b) = {}
      BY <1>1, <2>2, <3>2 DEF NewestInv, BaseSound
    <3> QED BY <3>1, <3>2
  <2> QED BY <2>1, <2>2 DEF BaseSound
<1>11. ASSUME NEW b \in Books, ~ Orphaned(b)'
       PROVE  ~ Orphaned(b)
  <2>1. [Next]_vars
    BY DEF Next, Run, CommitParse
  <2> QED BY <1>11, <2>1, OrphanedStays DEF NewestInv
\* The heir of a report without a snapshot is read with the batch, and replaces.
<1>12. ASSUME NEW b \in Books, NEW f \in Filings, Full(f, b), status[f] = "PARSED",
              base[b] = NoFiling, ~ Orphaned(b)'
       PROVE  R(b) # {} /\ last(b) \notin Additive
  <2>1. PICK h \in Filings : Full(h, b) /\ status[h] = "PENDING"
    BY <1>11, <1>12 DEF NewestInv, HeirPending
  <2>2. status'[h] # "FAILED"
    BY <1>12, <2>1 DEF Orphaned, Full
  <2>3. h \in read
    BY <1>1, <1>2, <2>1, <2>2 DEF Pending
  <2>4. h \in W(b) \ Additive
    BY <1>3, <2>1, <2>3 DEF Full, Reports
  <2> QED BY <1>6, <2>4
<1>13. HeirPending'
  <2>1. SUFFICES ASSUME NEW b \in Books, NEW f \in Filings, Full(f, b)', status'[f] = "PARSED",
                        base'[b] = NoFiling, ~ Orphaned(b)'
                 PROVE  FALSE
    BY DEF HeirPending
  <2>2. R(b) = {}
    BY <1>1, <1>4, <1>6, <2>1
  <2>3. base[b] = NoFiling
    BY <1>1, <2>1, <2>2
  <2>4. Full(f, b) /\ status[f] = "PARSED"
    BY <1>6, <1>7, <2>1, <2>2
  <2> QED BY <1>12, <2>1, <2>2, <2>3, <2>4
<1>14. NewestWins'
  <2>1. SUFFICES ASSUME NEW b \in Books, NEW f \in Reports \ (Additive \union superseded'),
                        BookOf[f] = b, status'[f] = "PARSED", base'[b] # NoFiling
                 PROVE  /\ late' = {} => Published[f] <= Published[base'[b]]
                        /\ ~ Orphaned(b)' => base'[b] \notin Additive
    BY DEF NewestWins
  <2>2. f \in Filings /\ Full(f, b)'
    BY <2>1 DEF Full, Reports
  <2>3. Full(f, b) /\ (status[f] = "PARSED" \/ f \in W(b) \ Additive)
    BY <1>7, <2>1, <2>2
  <2>4. CASE f \in W(b) \ Additive
    BY <1>1, <1>6, <2>4
  <2>5. CASE status[f] = "PARSED" /\ R(b) = {}
    <3>1. base'[b] = base[b] /\ base[b] # NoFiling
      BY <1>1, <2>1, <2>5
    <3> QED BY <1>1, <1>11, <2>1, <2>3, <2>5, <3>1 DEF NewestInv, BookIsNewest, NewestWins, Full
  <2>6. CASE status[f] = "PARSED" /\ R(b) # {}
    <3>1. base'[b] = last(b) /\ last(b) \in W(b)
      BY <1>1, <1>6, <2>6
    <3>2. last(b) \in Filings /\ status[last(b)] = "PENDING"
      BY <1>2, <1>4, <3>1 DEF Pending
    <3>3. late' = {} => Published[f] <= Published[last(b)]
      BY <1>1, <2>2, <2>6, <3>2 DEF NewestInv, InOrder, Settled
    <3>4. ASSUME ~ Orphaned(b)', last(b) \in Additive PROVE FALSE
      <4>1. base[b] = NoFiling
        BY <1>6, <2>6, <3>4
      <4> QED BY <1>12, <2>2, <2>3, <2>6, <3>4, <4>1
    <3> QED BY <3>1, <3>3, <3>4
  <2> QED BY <2>3, <2>4, <2>5, <2>6
<1>15. AmendmentMerged'
  <2>1. SUFFICES ASSUME NEW b \in Books, NEW f \in Additive \ superseded',
                        BookOf[f] = b, status'[f] = "PARSED", base'[b] # NoFiling,
                        Published[base'[b]] < Published[f], late' = {}
                 PROVE  f \in parts'[b]
    BY DEF AmendmentMerged
  <2>2. f \in Filings /\ f \notin Events
    BY DEF Reports
  <2>3. status[f] = "PARSED" \/ f \in W(b)
    BY <1>1, <1>3, <1>5, <2>1, <2>2
  <2>4. CASE R(b) = {}
    <3>1. parts'[b] = parts[b] \union W(b) /\ base'[b] = base[b]
      BY <1>1, <2>4 DEF NewParts, R
    <3> QED BY <1>1, <2>1, <2>3, <3>1 DEF NewestInv, BookIsNewest, AmendmentMerged
  <2>5. CASE R(b) # {}
    <3>1. base'[b] = last(b) /\ last(b) \in W(b)
      BY <1>1, <1>6, <2>5
    <3>2. last(b) \in Filings /\ status[last(b)] = "PENDING"
      BY <1>2, <1>4, <3>1 DEF Pending
    <3>3. Published[f] \in Nat /\ Published[last(b)] \in Nat /\ Published[last(b)] < Published[f]
      BY <2>1, <2>2, <3>1, <3>2
    <3>4. ASSUME status[f] = "PARSED" PROVE FALSE
      <4>1. Published[f] <= Published[last(b)]
        BY <1>1, <2>1, <2>2, <3>2, <3>4 DEF NewestInv, InOrder, Settled
      <4> QED BY ONLY <3>3, <4>1
    <3>5. parts'[b] = {g \in W(b) : g = last(b) \/ After(g, last(b), rising)}
      BY <1>1, <2>5 DEF NewParts, R, last
    <3> QED BY <2>3, <3>3, <3>4, <3>5 DEF After
  <2> QED BY <2>4, <2>5
<1> QED BY <1>8, <1>9, <1>10, <1>13, <1>14, <1>15 DEF BookIsNewest

LEMMA NewestStep ==
    ASSUME NewestInv, OneJob, [Next]_vars
    PROVE  NewestInv'
<1>1. TypeOK' /\ BatchFresh'
  BY TypeStep, BatchStep DEF NewestInv
<1>2. ASSUME NEW j \in Jobs, NEW f \in Filings, Store(j, f)
      PROVE  NewestInv'
  BY <1>1, <1>2, StoreNewest DEF NewestInv
<1>3. ASSUME NEW j \in Jobs, CommitParse(j)
      PROVE  NewestInv'
  <2>1. PICK bad \in SUBSET (batch[j] \intersect MayFail), rising \in BOOLEAN : Commit(j, bad, rising)
    BY <1>3 DEF CommitParse
  <2> QED BY <1>1, <2>1, CommitNewest DEF NewestInv
<1>4. CASE UNCHANGED <<status, superseded, facts, late>> /\ BatchWhole'
  BY <1>1, <1>4 DEF NewestInv, facts, InOrder, Settled, BaseSound, Stored, HeirPending, Full, Orphaned,
                    BookIsNewest, NewestWins, AmendmentMerged
<1>5. ASSUME NEW j \in Jobs, ReadPending(j)
      PROVE  UNCHANGED <<status, superseded, facts, late>> /\ BatchWhole'
  BY <1>5 DEF ReadPending, BatchWhole, Pending, OneJob, NewestInv, TypeOK
<1>6. ASSUME NEW j \in Jobs, Compute(j) \/ Abort(j)
      PROVE  UNCHANGED <<status, superseded, facts, late>> /\ BatchWhole'
  <2>1. phase' = [phase EXCEPT ![j] = "ingest"]
    BY <1>6 DEF Compute, Abort
  <2> QED BY <1>6, <2>1 DEF Compute, Abort, BatchWhole, OneJob, NewestInv, TypeOK
<1>7. CASE UNCHANGED <<status, superseded, facts, late, phase, batch>>
  <2>1. BatchWhole'
    BY <1>7 DEF BatchWhole, Pending, NewestInv
  <2> QED BY <1>4, <1>7, <2>1
<1> QED BY <1>2, <1>3, <1>4, <1>5, <1>6, <1>7 DEF Next, Run, NightlyCompute, facts, job, vars

\* With one job at a time, whatever the order of arrival and the batches: a book's snapshot
\* is no older than any full report of it that counts, is not a list of new holdings unless
\* a report was lost, and has every amendment filed after its base merged into it.
THEOREM BooksAreNewest ==
    ASSUME OneJob
    PROVE  Spec => []BookIsNewest
<1>1. Init => NewestInv
  BY FactsAssumption DEF Init, NewestInv, TypeOK, BatchFresh, InOrder, Settled, BatchWhole, Pending, BaseSound,
        HeirPending, BookIsNewest, NewestWins, AmendmentMerged, Reports
<1>2. NewestInv /\ [Next]_vars => NewestInv'
  BY NewestStep
<1>3. NewestInv => BookIsNewest
  BY DEF NewestInv
<1> QED BY <1>1, <1>2, <1>3, PTL DEF Spec

=============================================================================
