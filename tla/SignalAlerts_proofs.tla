-------------------------- MODULE SignalAlerts_proofs --------------------------
(***************************************************************************)
(* For any rules, days and number of computes: outcomes belong to signals, *)
(* every episode is announced to the rules that were always there, and a   *)
(* message goes out once, or again only after a rollback, and is not given *)
(* up before.                                                              *)
(*                                                                         *)
(* For any markets, users, runs of the job and readers: a brief reaches a  *)
(* user once per kind of channel, and once more at most for every run that *)
(* was lost.  What keeps runs that overlap apart is the row of the Turkish *)
(* note: a run delivers a market while its transaction holds that row, and *)
(* holds it until what it has delivered is recorded.                       *)
(***************************************************************************)
EXTENDS SignalAlerts, Briefs, TLAPS, FiniteSetTheorems, WellFoundedInduction

\* What the argument needs of a row; its last day may be anything.
Shaped(r) == r \in [id : Ids, start : Days, end : {r.end}]

DeliveryType ==
    /\ rules \subseteq Rules /\ Early \subseteq rules
    /\ notes \subseteq Note
    /\ done \subseteq notes
    /\ heard \in [Note -> Nat]
    /\ rollbacks \in Nat

RowsShaped == \A r \in rows : Shaped(r)

\* A rolled-back compute is the only way to hear of a notification that is not done.
HeardBound == \A n \in Note : heard[n] <= rollbacks + (IF n \in done THEN 1 ELSE 0)

IInv ==
    /\ DeliveryType
    /\ RowsShaped
    /\ OutcomeOwned
    /\ Announced
    /\ HeardBound
    /\ KeptTrying

-----------------------------------------------------------------------------
\* A new last day changes nothing else of a row.
LEMMA Extended ==
    ASSUME NEW h, Shaped(h), NEW e
    PROVE  /\ Shaped([h EXCEPT !.end = e])
           /\ [h EXCEPT !.end = e].id = h.id
           /\ [h EXCEPT !.end = e].end = e
BY DEF Shaped

\* Among rows that are open one has the last day: whole numbers up to asOf.
LEMMA NewestOpen ==
    ASSUME NEW C, NEW asOf \in Days, OpenRows(C, asOf) # {}
    PROVE  OpenRow(C, asOf) \in C
<1> DEFINE Open == OpenRows(C, asOf)
           Less == {ss \in Nat \X Nat : ss[1] < ss[2]}
           Ages == {asOf - r.end : r \in Open}
<1>1. IsWellFoundedOn(Less, Nat)
  BY NatLessThanWellFounded DEF OpToRel
<1>2. \A a, b \in Nat : a < b => <<a, b>> \in Less
  OBVIOUS
<1>3. Open \subseteq C /\ Open # {} /\ \A r \in Open : r.end \in Int /\ r.end <= asOf
  BY SignalAlertsAssumption DEF OpenRows, Days
<1>4. asOf \in Int
  BY DEF Days
<1> HIDE DEF Less, Open
<1>5. Ages \subseteq Nat /\ Ages # {}
  <2>1. \A r \in Open : asOf - r.end \in Nat
    BY <1>3, <1>4
  <2> QED BY <2>1, <1>3
<1> HIDE DEF Ages
<1>6. PICK a \in Ages : \A b \in Ages : <<b, a>> \notin Less
  BY <1>1, <1>5, WFMin
<1> USE DEF Ages
<1>7. PICK r \in Open : a = asOf - r.end
  BY <1>6
<1>8. \A p \in Open : p.end <= r.end
  <2>1. ASSUME NEW p \in Open PROVE p.end <= r.end
    <3>1. <<asOf - p.end, a>> \notin Less
      BY <1>6
    <3>2. asOf - p.end \in Nat /\ asOf - r.end \in Nat /\ p.end \in Int /\ r.end \in Int
      BY <1>3, <1>4
    <3>3. ~(asOf - p.end < asOf - r.end)
      BY <3>1, <3>2, <1>2, <1>7
    <3> HIDE DEF Ages
    <3> QED BY ONLY <3>2, <3>3, <1>4
  <2> QED BY <2>1
<1>9. OpenRow(C, asOf) \in Open
  BY <1>8 DEF OpenRow, Open
<1> QED BY <1>3, <1>9

\* Collapsing keeps rows well formed, and their ids are those of the kept rows.
LEMMA CollapseSound ==
    ASSUME RowsShaped
    PROVE  /\ \A r \in Collapse(rows) : Shaped(r)
           /\ IdsOf(Collapse(rows)) = IdsOf(Kept(rows))
           /\ IdsOf(Kept(rows)) \subseteq IdsOf(rows)
<1> DEFINE Swallowed(h) == {p \in rows : Before(h, p) /\ \A g \in Kept(rows) : Before(h, g) => Before(p, g)}
           E(h) == Max({p.end : p \in {h} \union Swallowed(h)})
<1>1. Collapse(rows) = {[h EXCEPT !.end = E(h)] : h \in Kept(rows)}
  BY DEF Collapse
<1>2. Kept(rows) \subseteq rows
  BY DEF Kept
<1> HIDE DEF E
<1>3. \A h \in Kept(rows) : Shaped([h EXCEPT !.end = E(h)]) /\ [h EXCEPT !.end = E(h)].id = h.id
  BY <1>2, Extended DEF RowsShaped
<1>4. \A r \in Collapse(rows) : Shaped(r)
  BY <1>1, <1>3
<1>5. IdsOf(Collapse(rows)) = IdsOf(Kept(rows))
  <2> DEFINE N(h) == [h EXCEPT !.end = E(h)]
  <2>1. Collapse(rows) = {N(h) : h \in Kept(rows)} /\ \A h \in Kept(rows) : N(h).id = h.id
    BY <1>1, <1>3
  <2> HIDE DEF N
  <2> QED BY <2>1 DEF IdsOf
<1>6. IdsOf(Kept(rows)) \subseteq IdsOf(rows)
  BY <1>2 DEF IdsOf
<1> QED BY <1>4, <1>5, <1>6

\* The rows a compute leaves: old ids, and the new one on a row that ends on its day.
LEMMA ComputedSound ==
    ASSUME IInv, NEW asOf \in AsOf, NEW hit \in {NoSignal} \union Starts(asOf),
           nextId \in Nat \ {0},
           nextId \in IdsOf(Computed(Collapse(rows), asOf, hit)) => nextId <= MaxId
    PROVE  /\ \A r \in Computed(Collapse(rows), asOf, hit) : Shaped(r)
           /\ \A r \in Computed(Collapse(rows), asOf, hit) : r.id \in IdsOf(rows) \/ r.end = asOf
<1> DEFINE C == Collapse(rows)
<1>1. (\A r \in C : Shaped(r)) /\ IdsOf(C) \subseteq IdsOf(rows)
  BY CollapseSound DEF IInv
<1> HIDE DEF C
<1>2. \A r \in C : r.id \in IdsOf(rows)
  BY <1>1 DEF IdsOf
<1>3. CASE hit = NoSignal
  <2>1. Computed(Collapse(rows), asOf, hit) = {r \in C : r.end # asOf}
    BY <1>3 DEF Computed, NotDetected, C
  <2> QED BY <2>1, <1>1, <1>2
<1>4. CASE hit # NoSignal
  <2>1. hit \in Days
    BY <1>4 DEF Starts
  <2>2. Computed(Collapse(rows), asOf, hit) = Detected(C, asOf, hit)
    BY <1>4 DEF Computed, C
  <2>3. CASE OpenRows(C, asOf) = {}
    <3> DEFINE new == [id |-> nextId, start |-> hit, end |-> asOf]
    <3>1. Computed(Collapse(rows), asOf, hit) = C \union {new}
      BY <2>2, <2>3 DEF Detected
    <3>2. new.id = nextId /\ new.end = asOf
      OBVIOUS
    <3>3. nextId \in Ids
      <4>1. nextId \in IdsOf(Computed(Collapse(rows), asOf, hit))
        BY <3>1, <3>2 DEF IdsOf
      <4> QED BY <4>1, SignalAlertsAssumption DEF Ids
    <3>4. Shaped(new)
      BY <2>1, <3>3 DEF Shaped
    <3> HIDE DEF new
    <3> QED BY <1>1, <1>2, <3>1, <3>2, <3>4
  <2>4. CASE OpenRows(C, asOf) # {}
    <3> DEFINE open == OpenRow(C, asOf)
    <3>1. Computed(Collapse(rows), asOf, hit) = (C \ {open}) \union {[open EXCEPT !.end = asOf]}
      BY <2>2, <2>4 DEF Detected
    <3>2. open \in C
      BY <2>4, NewestOpen DEF AsOf
    <3> HIDE DEF open
    <3>3. Shaped([open EXCEPT !.end = asOf]) /\ [open EXCEPT !.end = asOf].end = asOf
      BY <3>2, <1>1, Extended
    <3> QED BY <1>1, <1>2, <3>1, <3>3
  <2> QED BY <2>3, <2>4
<1> QED BY <1>3, <1>4

\* What is accepted is sent; a notification stays within the bound of its messages.
LEMMA DeliveryStep ==
    ASSUME IInv, NEW ns \in SUBSET Note, notes \subseteq ns,
           NEW accepted \in SUBSET Pending(ns),
           heard' = Heard(accepted), done' = done \union Settled(accepted, ns),
           rollbacks' = rollbacks
    PROVE  /\ done' \subseteq ns
           /\ heard' \in [Note -> Nat]
           /\ HeardBound'
           /\ KeptTrying'
<1> USE DEF IInv, DeliveryType, Heard, Settled, Pending
<1>1. done' \subseteq ns /\ heard' \in [Note -> Nat]
  OBVIOUS
<1>2. ASSUME NEW n \in Note
      PROVE  heard'[n] <= rollbacks' + (IF n \in done' THEN 1 ELSE 0)
  <2>1. heard'[n] = IF n \in accepted THEN heard[n] + 1 ELSE heard[n]
    OBVIOUS
  <2>2. n \in accepted => n \notin done /\ n \in done'
    OBVIOUS
  <2>3. n \in done => n \in done'
    OBVIOUS
  <2>4. heard[n] <= rollbacks + (IF n \in done THEN 1 ELSE 0)
    BY DEF HeardBound
  <2>5. heard[n] \in Nat /\ rollbacks \in Nat
    OBVIOUS
  <2> QED BY ONLY <2>1, <2>2, <2>3, <2>4, <2>5, rollbacks' = rollbacks
<1>3. ASSUME NEW n \in done', n.rule \in Chats
      PROVE  heard'[n] >= 1
  <2>1. n \in Note
    BY <1>1
  <2>2. heard'[n] = IF n \in accepted THEN heard[n] + 1 ELSE heard[n]
    BY <2>1
  <2>3. CASE n \in done
    BY <2>1, <2>2, <2>3, <1>3 DEF KeptTrying
  <2>4. CASE n \notin done
    BY <2>1, <2>2, <2>4, <1>3
  <2> QED BY <2>3, <2>4
<1> QED BY <1>1, <1>2, <1>3 DEF HeardBound, KeptTrying

\* The rules fire for well-formed rows of the day: notifications, one for each rule
\* there is and each such row.
LEMMA AnnounceSound ==
    ASSUME IInv, NEW rs, \A r \in rs : Shaped(r), NEW asOf
    PROVE  /\ Announce(rs, asOf) \in SUBSET Note
           /\ notes \subseteq Announce(rs, asOf)
           /\ \A r \in rules, s \in rs : s.end = asOf => [rule |-> r, row |-> s.id] \in Announce(rs, asOf)
<1>1. Fired(rs, asOf) = [rule : rules, row : {s.id : s \in {r \in rs : r.end = asOf}}]
  BY DEF Fired, IdsOf
<1>2. \A s \in rs : s.id \in Ids
  BY DEF Shaped
<1>3. rules \subseteq Rules /\ notes \subseteq Note
  BY DEF IInv, DeliveryType
<1>4. {s.id : s \in {r \in rs : r.end = asOf}} \subseteq Ids
  BY <1>2
<1>5. Fired(rs, asOf) \subseteq Note
  BY <1>1, <1>3, <1>4 DEF Note
<1>6. \A r \in rules, s \in rs : s.end = asOf => [rule |-> r, row |-> s.id] \in Fired(rs, asOf)
  BY <1>1
<1> QED BY <1>3, <1>5, <1>6 DEF Announce

LEMMA InitIInv == ASSUME Init PROVE IInv /\ nextId \in Nat \ {0}
BY SignalAlertsAssumption
   DEF Init, IInv, DeliveryType, RowsShaped, OutcomeOwned, Announced, HeardBound, KeptTrying, IdsOf, Note

LEMMA ComputeStep ==
    ASSUME IInv, nextId \in Nat \ {0}, NEW asOf \in AsOf, NEW hit \in {NoSignal} \union Starts(asOf),
           Compute(Collapse(rows), asOf, hit)
    PROVE  IInv'
<1> DEFINE C == Collapse(rows)
           rs == Computed(C, asOf, hit)
           ns == Announce(rs, asOf)
           os == ComputedOutcomes(C, rs)
<1>1. nextId \in IdsOf(rs) => nextId <= MaxId
  BY DEF Compute
<1>2. /\ \A r \in rs : Shaped(r)
      /\ \A r \in rs : r.id \in IdsOf(rows) \/ r.end = asOf
  BY <1>1, ComputedSound
<1>3. IdsOf(C) \subseteq IdsOf(rows)
  BY CollapseSound DEF IInv
<1>4. rows' = rs /\ notes' = ns /\ rules' = rules /\ rollbacks' = rollbacks
  BY DEF Compute
<1>5. PICK accepted \in SUBSET Pending(ns) :
          done' = done \union Settled(accepted, ns) /\ heard' = Heard(accepted)
  BY DEF Compute
<1>6. PICK priced \in Priced(rs) : outcomes' = os \union priced
  BY DEF Compute
<1>7. outcomes \subseteq IdsOf(rows)
  BY DEF IInv, OutcomeOwned
<1>8. outcomes' \subseteq IdsOf(rs)
  <2> HIDE DEF C, rs
  <2>1. priced \subseteq IdsOf(rs)
    BY <1>6 DEF Priced
  <2>2. os \subseteq IdsOf(rs)
    BY <1>3, <1>7 DEF ComputedOutcomes, CollapseOutcomes
  <2> QED BY <1>6, <2>1, <2>2
<1> HIDE DEF rs
<1>9. /\ ns \in SUBSET Note /\ notes \subseteq ns
      /\ \A r \in rules, s \in rs : s.end = asOf => [rule |-> r, row |-> s.id] \in ns
  BY <1>2, AnnounceSound
<1> HIDE DEF ns
<1>10. done' \subseteq ns /\ heard' \in [Note -> Nat] /\ HeardBound' /\ KeptTrying'
  BY <1>4, <1>5, <1>9, DeliveryStep
<1>11. DeliveryType'
  BY <1>4, <1>9, <1>10 DEF IInv, DeliveryType
<1>12. RowsShaped'
  BY <1>2, <1>4 DEF RowsShaped
<1>13. OutcomeOwned'
  BY <1>4, <1>8 DEF OutcomeOwned, IdsOf
<1>14. Announced'
  <2>1. SUFFICES ASSUME NEW r \in Early, NEW s \in rs
                 PROVE  [rule |-> r, row |-> s.id] \in ns
    BY <1>4 DEF Announced
  <2>2. r \in rules
    BY DEF IInv, DeliveryType
  <2>3. CASE s.id \in IdsOf(rows)
    BY <2>3, <1>9 DEF IInv, Announced, IdsOf
  <2>4. CASE s.end = asOf
    BY <2>2, <2>4, <1>9
  <2> QED BY <2>3, <2>4, <1>2
<1> QED BY <1>10, <1>11, <1>12, <1>13, <1>14 DEF IInv

LEMMA RolledBackStep ==
    ASSUME IInv, nextId \in Nat \ {0}, NEW asOf \in AsOf, NEW hit \in {NoSignal} \union Starts(asOf),
           RolledBack(Collapse(rows), asOf, hit)
    PROVE  IInv'
<1> DEFINE ns == Announce(Computed(Collapse(rows), asOf, hit), asOf)
<1>1. PICK accepted \in SUBSET Pending(ns) : heard' = Heard(accepted)
  BY DEF RolledBack
<1>2. /\ rollbacks' = rollbacks + 1 /\ done' = done /\ notes' = notes /\ rules' = rules
      /\ rows' = rows /\ outcomes' = outcomes
  BY DEF RolledBack
<1>3. heard' = [n \in Note |-> IF n \in accepted THEN heard[n] + 1 ELSE heard[n]]
  BY <1>1 DEF Heard
<1>4. DeliveryType /\ HeardBound /\ KeptTrying
  BY DEF IInv
<1>5. DeliveryType'
  BY <1>2, <1>3, <1>4 DEF DeliveryType
<1>6. HeardBound'
  <2>1. SUFFICES ASSUME NEW n \in Note
                 PROVE  heard'[n] <= rollbacks + 1 + (IF n \in done THEN 1 ELSE 0)
    BY <1>2 DEF HeardBound
  <2>2. heard[n] <= rollbacks + (IF n \in done THEN 1 ELSE 0) /\ heard[n] \in Nat /\ rollbacks \in Nat
    BY <1>4 DEF HeardBound, DeliveryType
  <2>3. heard'[n] = heard[n] + 1 \/ heard'[n] = heard[n]
    BY <1>3
  <2> QED BY <2>2, <2>3
<1>7. KeptTrying'
  <2>1. SUFFICES ASSUME NEW n \in done, n.rule \in Chats
                 PROVE  heard'[n] >= 1
    BY <1>2 DEF KeptTrying
  <2>2. n \in Note /\ heard[n] \in Nat /\ heard[n] >= 1
    BY <2>1, <1>4 DEF DeliveryType, KeptTrying
  <2> QED BY <2>2, <1>3
<1>8. RowsShaped' /\ OutcomeOwned' /\ Announced'
  BY <1>2 DEF IInv, RowsShaped, OutcomeOwned, Announced, IdsOf
<1> QED BY <1>5, <1>6, <1>7, <1>8 DEF IInv

LEMMA EvaluateStep ==
    ASSUME IInv, NEW asOf, EvaluateNow(asOf)
    PROVE  IInv'
<1>1. /\ notes' = Announce(rows, asOf)
      /\ UNCHANGED <<rows, outcomes, rules, done, heard, rollbacks>>
  BY DEF EvaluateNow
<1>2. Announce(rows, asOf) \in SUBSET Note /\ notes \subseteq Announce(rows, asOf)
  BY AnnounceSound DEF IInv, RowsShaped
<1>3. DeliveryType'
  BY <1>1, <1>2 DEF IInv, DeliveryType
<1>4. Announced'
  BY <1>1, <1>2 DEF IInv, Announced
<1> QED BY <1>1, <1>3, <1>4 DEF IInv, RowsShaped, OutcomeOwned, HeardBound, KeptTrying, IdsOf

\* The invariant is kept by every step; a new id is never 0.
LEMMA NextIInv ==
    ASSUME IInv, nextId \in Nat \ {0}, [Next]_vars
    PROVE  IInv' /\ nextId' \in Nat \ {0}
<1>1. nextId' \in Nat \ {0}
  <2>1. \A rs : NextIdAfter(rs) \in Nat \ {0}
    BY DEF NextIdAfter
  <2> QED BY <2>1 DEF Next, Compute, RolledBack, EvaluateNow, CreateRule, OutcomesNow, NextDay, vars
<1>2. ASSUME NEW d \in AsOf, NEW hit \in {NoSignal} \union Starts(d), Compute(Collapse(rows), d, hit)
      PROVE  IInv'
  BY <1>2, ComputeStep
<1>3. ASSUME NEW d \in AsOf, NEW hit \in {NoSignal} \union Starts(d), RolledBack(Collapse(rows), d, hit)
      PROVE  IInv'
  BY <1>3, RolledBackStep
<1>4. ASSUME NEW d \in 0..today, EvaluateNow(d)
      PROVE  IInv'
  BY <1>4, EvaluateStep
<1>5. ASSUME NEW r \in Rules, CreateRule(r)
      PROVE  IInv'
  BY <1>5 DEF CreateRule, IInv, DeliveryType, RowsShaped, OutcomeOwned, Announced, HeardBound, KeptTrying, IdsOf
<1>6. CASE OutcomesNow
  <2>1. PICK priced \in Priced(rows) : outcomes' = outcomes \union priced
    BY <1>6 DEF OutcomesNow
  <2>2. OutcomeOwned'
    BY <1>6, <2>1 DEF OutcomesNow, IInv, OutcomeOwned, IdsOf, Priced
  <2> QED BY <1>6, <2>2 DEF OutcomesNow, IInv, DeliveryType, RowsShaped, Announced, HeardBound, KeptTrying
<1>7. CASE NextDay \/ UNCHANGED vars
  BY <1>7 DEF NextDay, vars, IInv, DeliveryType, RowsShaped, OutcomeOwned, Announced, HeardBound, KeptTrying, IdsOf
<1> QED BY <1>1, <1>2, <1>3, <1>4, <1>5, <1>6, <1>7 DEF Next

THEOREM AlertsInvariant == Spec => [](IInv /\ nextId \in Nat \ {0})
<1>1. Init => IInv /\ nextId \in Nat \ {0}
  BY InitIInv
<1>2. (IInv /\ nextId \in Nat \ {0}) /\ [Next]_vars => (IInv /\ nextId \in Nat \ {0})'
  BY NextIInv
<1> QED BY <1>1, <1>2, PTL DEF Spec

\* Every outcome row belongs to a signal (SignalOutcome.signal_id).
THEOREM OutcomesOwned == Spec => []OutcomeOwned
<1>1. IInv => OutcomeOwned
  BY DEF IInv
<1> QED BY <1>1, AlertsInvariant, PTL

\* Rules that were always there are told of every episode (alerts.evaluate).
THEOREM EpisodesAnnounced == Spec => []Announced
<1>1. IInv => Announced
  BY DEF IInv
<1> QED BY <1>1, AlertsInvariant, PTL

\* deliver_pending neither repeats a message, rollbacks aside, nor gives one up.
THEOREM DeliverySafe == Spec => []HeardAsOwed
<1>1. IInv => HeardAsOwed
  <2>1. SUFFICES ASSUME IInv, NEW n \in Note PROVE heard[n] <= 1 + rollbacks
    BY DEF IInv, SentOnce, HeardAsOwed
  <2>2. heard[n] <= rollbacks + (IF n \in done THEN 1 ELSE 0) /\ heard[n] \in Nat /\ rollbacks \in Nat
    <3>1. HeardBound /\ heard \in [Note -> Nat] /\ rollbacks \in Nat
      BY <2>1 DEF IInv, DeliveryType
    <3> QED BY <2>1, <3>1 DEF HeardBound
  <2>3. CASE n \in done
    BY ONLY <2>2, <2>3
  <2>4. CASE n \notin done
    BY ONLY <2>2, <2>4
  <2> QED BY <2>3, <2>4
<1> QED BY <1>1, AlertsInvariant, PTL

-----------------------------------------------------------------------------
(* Episodes apart *)

\* The episodes of a table: numbered, each over some days, no two ending on one day.
Episodes(rs) ==
    /\ IsFiniteSet(rs)
    /\ \A r \in rs : Shaped(r) /\ r.end \in Days /\ r.start <= r.end
    /\ \A p, r \in rs : p # r => p.id # r.id /\ p.end # r.end

\* The run that is going on ends with the last episode.
RunIsLast == run # NoRun => (\E o \in rows : o.end = run) /\ \A r \in rows : r.end <= run

EpisodesInv ==
    /\ Episodes(rows)
    /\ nextId \in Nat \ {0} /\ \A r \in rows : r.id < nextId
    /\ run \in Days \union {NoRun}
    /\ RunIsLast
    /\ \A r \in Early : told[r] \in {0, 1}

\* A finite set has a maximal element in any strict order.
LEMMA Maximal ==
    ASSUME NEW S, IsFiniteSet(S), S # {}, NEW R,
           \A x \in S : <<x, x>> \notin R,
           \A x, y, z \in S : <<x, y>> \in R /\ <<y, z>> \in R => <<x, z>> \in R
    PROVE  \E f \in S : \A g \in S : <<f, g>> \notin R
<1> DEFINE Above(f) == {g \in S : <<f, g>> \in R}
           T == {Above(f) : f \in S}
<1>1. IsWellFoundedOn(StrictSubsetOrdering(S), SUBSET S)
  <2>1. FiniteSubsetsOf(S) = SUBSET S
    BY ONLY IsFiniteSet(S), FS_FiniteSubsetsOfFinite
  <2>2. IsWellFoundedOn(StrictSubsetOrdering(S), FiniteSubsetsOf(S))
    BY ONLY FS_StrictSubsetOrderingWellFounded
  <2> QED BY ONLY <2>1, <2>2
<1>2. T \subseteq SUBSET S /\ T # {}
  BY ONLY S # {}
<1>3. PICK U \in T : \A V \in T : <<V, U>> \notin StrictSubsetOrdering(S)
  <2> HIDE DEF T
  <2> QED BY <1>1, <1>2, WFMin
<1>4. PICK f \in S : U = Above(f)
  BY <1>3
<1>5. ASSUME NEW g \in S, <<f, g>> \in R PROVE FALSE
  <2>1. Above(g) \subseteq Above(f) /\ g \in Above(f) /\ g \notin Above(g)
    BY <1>5
  <2>2. <<Above(g), U>> \in StrictSubsetOrdering(S)
    BY <1>4, <2>1 DEF StrictSubsetOrdering
  <2> QED BY <1>3, <2>2
<1> QED BY <1>5

\* Some days have a last one.
LEMMA LastDay ==
    ASSUME NEW S \in SUBSET Days, S # {}
    PROVE  Max(S) \in S /\ \A d \in S : d <= Max(S)
<1> DEFINE R == {p \in S \X S : p[1] < p[2]}
<1>1. IsFiniteSet(S) /\ \A d \in S : d \in Int
  <2>1. IsFiniteSet(Days)
    <3>1. 0 \in Int /\ MaxDay \in Int
      BY SignalAlertsAssumption
    <3>2. IsFiniteSet(0 .. MaxDay)
      BY ONLY <3>1, FS_Interval
    <3> QED BY <3>2 DEF Days
  <2>2. IsFiniteSet(S)
    BY <2>1, FS_Subset
  <2> QED BY <2>2 DEF Days
<1>2. \A x, y \in S : <<x, y>> \in R <=> x < y
  OBVIOUS
<1> HIDE DEF R
<1>3. /\ \A x \in S : <<x, x>> \notin R
      /\ \A x, y, z \in S : <<x, y>> \in R /\ <<y, z>> \in R => <<x, z>> \in R
  BY <1>1, <1>2
<1>4. PICK m \in S : \A d \in S : <<m, d>> \notin R
  BY <1>1, <1>3, Maximal
<1>5. \A d \in S : m >= d
  <2>1. ASSUME NEW d \in S PROVE m >= d
    <3>1. m \in Int /\ d \in Int /\ ~ (m < d)
      BY <1>1, <1>2, <1>4
    <3> QED BY ONLY <3>1
  <2> QED BY <2>1
<1>6. Max(S) \in S /\ \A d \in S : Max(S) >= d
  BY <1>5 DEF Max
<1> QED BY <1>1, <1>6

\* Numbered rows come one after the other in the order of their days.
LEMMA BeforeOrders ==
    ASSUME NEW rs, Episodes(rs)
    PROVE  /\ \A p \in rs : ~ Before(p, p)
           /\ \A p, q, r \in rs : Before(p, q) /\ Before(q, r) => Before(p, r)
           /\ \A p, q \in rs : p = q \/ Before(p, q) \/ Before(q, p)
<1>1. \A r \in rs : r.id \in Int /\ r.start \in Int /\ r.end \in Int
  BY DEF Episodes, Shaped, Ids, Days
<1>2. \A p, q \in rs : p.id = q.id => p = q
  BY DEF Episodes
<1>3. \A p \in rs : ~ Before(p, p)
  BY <1>1 DEF Before
<1>4. \A p, q, r \in rs : Before(p, q) /\ Before(q, r) => Before(p, r)
  BY <1>1 DEF Before
<1>5. \A p, q \in rs : p = q \/ Before(p, q) \/ Before(q, p)
  BY <1>1, <1>2 DEF Before
<1> QED BY <1>3, <1>4, <1>5

Swallowed(rs, h) == {p \in rs : Before(h, p) /\ \A g \in Kept(rs) : Before(h, g) => Before(p, g)}

\* Every row is kept or swallowed by the last kept one before it.
LEMMA NoneLeft ==
    ASSUME NEW rs, Episodes(rs), NEW p \in rs
    PROVE  \E h \in Kept(rs) : p \in {h} \union Swallowed(rs, h)
<1> DEFINE Up == {q \in rs : q = p \/ Before(q, p)}
           Down == {q \in Up \X Up : Before(q[2], q[1])}
           K == {h \in Kept(rs) : h = p \/ Before(h, p)}
           Rise == {q \in K \X K : Before(q[1], q[2])}
<1>1. /\ \A x \in rs : ~ Before(x, x)
      /\ \A x, y, z \in rs : Before(x, y) /\ Before(y, z) => Before(x, z)
      /\ \A x, y \in rs : x = y \/ Before(x, y) \/ Before(y, x)
  BY BeforeOrders
<1>2. Up \subseteq rs /\ K \subseteq rs /\ Kept(rs) \subseteq rs /\ IsFiniteSet(Up) /\ IsFiniteSet(K)
  <2>1. Up \subseteq rs /\ K \subseteq rs /\ Kept(rs) \subseteq rs
    BY DEF Kept
  <2>2. IsFiniteSet(rs)
    BY DEF Episodes
  <2> QED BY <2>1, <2>2, FS_Subset
<1>3. PICK m \in Up : \A x \in Up : ~ Before(x, m)
  <2>1. \A x, y \in Up : <<x, y>> \in Down <=> Before(y, x)
    OBVIOUS
  <2>2. Up # {}
    OBVIOUS
  <2> HIDE DEF Down, Up
  <2>3. /\ \A x \in Up : <<x, x>> \notin Down
        /\ \A x, y, z \in Up : <<x, y>> \in Down /\ <<y, z>> \in Down => <<x, z>> \in Down
    BY <1>1, <1>2, <2>1
  <2>4. \E f \in Up : \A g \in Up : <<f, g>> \notin Down
    BY <1>2, <2>2, <2>3, Maximal
  <2> QED BY <2>1, <2>4
<1>4. m \in K
  <2>1. m \in rs /\ (m = p \/ Before(m, p))
    OBVIOUS
  <2>2. \A x \in rs : ~ Before(x, m)
    BY <1>1, <1>3, <2>1
  <2> QED BY <2>1, <2>2 DEF Kept
<1>5. PICK h \in K : \A x \in K : ~ Before(h, x)
  <2>1. \A x, y \in K : <<x, y>> \in Rise <=> Before(x, y)
    OBVIOUS
  <2> HIDE DEF Rise, K
  <2>3. /\ \A x \in K : <<x, x>> \notin Rise
        /\ \A x, y, z \in K : <<x, y>> \in Rise /\ <<y, z>> \in Rise => <<x, z>> \in Rise
    BY <1>1, <1>2, <2>1
  <2>4. \E f \in K : \A g \in K : <<f, g>> \notin Rise
    BY <1>2, <1>4, <2>3, Maximal
  <2> QED BY <2>1, <2>4
<1>6. ASSUME h # p PROVE p \in Swallowed(rs, h)
  <2>1. Before(h, p)
    BY <1>6
  <2>2. ASSUME NEW g \in Kept(rs), Before(h, g) PROVE Before(p, g)
    BY <1>1, <1>2, <1>5, <2>2
  <2> QED BY <2>1, <2>2 DEF Swallowed
<1> QED BY <1>6

\* The collapsed rows are the kept ones with a later end, and lie apart.
LEMMA CollapseApart ==
    ASSUME NEW rs, Episodes(rs)
    PROVE  /\ Episodes(Collapse(rs))
           /\ \A c \in Collapse(rs) : \E h \in rs : c.id = h.id /\ c.start = h.start /\ h.end <= c.end
           /\ \A c \in Collapse(rs) : \E p \in rs : c.end = p.end
           /\ \A p \in rs : \E c \in Collapse(rs) : p.end <= c.end
<1> DEFINE ends(h) == {p.end : p \in {h} \union Swallowed(rs, h)}
           E(h) == Max(ends(h))
           N(h) == [h EXCEPT !.end = E(h)]
<1>1. Collapse(rs) = {N(h) : h \in Kept(rs)}
  BY DEF Collapse, Swallowed
<1>2. Kept(rs) \subseteq rs /\ \A h : Swallowed(rs, h) \subseteq rs
  BY DEF Kept, Swallowed
<1>3. \A r \in rs : /\ Shaped(r) /\ r.end \in Days /\ r.start \in Days /\ r.start <= r.end
                    /\ r.end \in Int /\ r.start \in Int
  BY DEF Episodes, Shaped, Days
<1>4. ASSUME NEW h \in Kept(rs)
      PROVE  /\ E(h) \in Days /\ E(h) \in Int
             /\ \E p \in {h} \union Swallowed(rs, h) : E(h) = p.end
             /\ \A p \in {h} \union Swallowed(rs, h) : p.end <= E(h)
             /\ Shaped(N(h)) /\ N(h).id = h.id /\ N(h).start = h.start /\ N(h).end = E(h)
  <2>1. ends(h) \in SUBSET Days /\ h.end \in ends(h)
    BY <1>2, <1>3
  <2>2. E(h) \in ends(h) /\ \A d \in ends(h) : d <= E(h)
    <3> HIDE DEF ends
    <3> QED BY <2>1, LastDay
  <2>3. E(h) \in Days /\ E(h) \in Int
    BY <2>1, <2>2 DEF Days
  <2>4. Shaped(h)
    BY <1>2, <1>3
  <2>5. Shaped(N(h)) /\ N(h).id = h.id /\ N(h).end = E(h)
    <3> HIDE DEF E
    <3> QED BY <2>4, Extended
  <2>6. N(h).start = h.start
    <3> HIDE DEF E
    <3> QED BY <2>4 DEF Shaped
  <2> QED BY <2>2, <2>3, <2>5, <2>6
<1> HIDE DEF E, N
<1>5. ASSUME NEW h \in Kept(rs), NEW g \in Kept(rs), Before(h, g) PROVE E(h) + 1 < g.start
  <2>1. PICK p \in {h} \union Swallowed(rs, h) : E(h) = p.end
    BY <1>4
  <2>2. Before(p, g) /\ p \in rs
    BY <1>2, <1>5, <2>1 DEF Swallowed
  <2>3. g.start > p.end + 1
    BY <2>2 DEF Kept
  <2> QED BY <1>2, <1>3, <2>1, <2>2, <2>3
<1>6. ASSUME NEW h \in Kept(rs), NEW g \in Kept(rs), h # g
      PROVE  N(h).id # N(g).id /\ N(h).end # N(g).end
  <2>1. h.id # g.id
    BY <1>2, <1>6 DEF Episodes
  <2>2. \/ E(h) + 1 < g.start
        \/ E(g) + 1 < h.start
    BY <1>2, <1>5, <1>6, BeforeOrders
  <2>3. h.start <= h.end /\ h.end <= E(h) /\ g.start <= g.end /\ g.end <= E(g)
    BY <1>2, <1>3, <1>4
  <2>4. E(h) # E(g)
    BY <1>2, <1>3, <1>4, <2>2, <2>3
  <2> QED BY <1>4, <2>1, <2>4
<1>7. Episodes(Collapse(rs))
  <2>1. IsFiniteSet(Collapse(rs))
    <3>1. IsFiniteSet(Kept(rs))
      BY <1>2, FS_Subset DEF Episodes
    <3> DEFINE f == [h \in Kept(rs) |-> N(h)]
    <3>2. f \in Surjection(Kept(rs), {N(h) : h \in Kept(rs)})
      BY DEF Surjection
    <3> QED BY <1>1, <3>1, <3>2, FS_Surjection
  <2>2. \A c \in Collapse(rs) : Shaped(c) /\ c.end \in Days /\ c.start <= c.end
    <3>1. ASSUME NEW h \in Kept(rs) PROVE Shaped(N(h)) /\ N(h).end \in Days /\ N(h).start <= N(h).end
      <4>1. h.start <= h.end /\ h.end <= E(h) /\ h.start \in Int /\ h.end \in Int /\ E(h) \in Int
        BY <1>2, <1>3, <1>4
      <4> QED BY <1>4, <4>1
    <3> QED BY <1>1, <3>1
  <2>3. \A c, d \in Collapse(rs) : c # d => c.id # d.id /\ c.end # d.end
    BY <1>1, <1>6
  <2> QED BY <2>1, <2>2, <2>3 DEF Episodes
<1>8. \A c \in Collapse(rs) : \E h \in rs : c.id = h.id /\ c.start = h.start /\ h.end <= c.end
  BY <1>1, <1>2, <1>4
<1>9. \A c \in Collapse(rs) : \E p \in rs : c.end = p.end
  BY <1>1, <1>2, <1>4
<1>10. ASSUME NEW p \in rs PROVE \E c \in Collapse(rs) : p.end <= c.end
  <2>1. PICK h \in Kept(rs) : p \in {h} \union Swallowed(rs, h)
    BY NoneLeft
  <2> QED BY <1>1, <1>4, <2>1
<1> QED BY <1>7, <1>8, <1>9, <1>10

\* The row a compute extends is open, and none that is open ends later.
LEMMA OpenRowLast ==
    ASSUME NEW C, NEW asOf \in Days, OpenRows(C, asOf) # {}, Episodes(C)
    PROVE  /\ OpenRow(C, asOf) \in C
           /\ OpenRow(C, asOf).end <= asOf
           /\ \A p \in C : p.end = asOf => p = OpenRow(C, asOf)
<1> DEFINE ends == {p.end : p \in OpenRows(C, asOf)}
<1>1. /\ OpenRows(C, asOf) \subseteq C /\ \A p \in OpenRows(C, asOf) : p.end <= asOf
      /\ \A p \in C : p.end \in Days /\ p.end \in Int
      /\ asOf \in Int /\ Gap \in Nat
  BY SignalAlertsAssumption DEF OpenRows, Days, Episodes
<1>2. \A p \in C : p.end = asOf => p \in OpenRows(C, asOf)
  BY <1>1 DEF OpenRows
<1>3. ends \in SUBSET Days /\ ends # {}
  BY <1>1
<1>4. Max(ends) \in ends /\ \A d \in ends : d <= Max(ends)
  <2> HIDE DEF ends
  <2> QED BY <1>3, LastDay
<1>5. PICK r \in OpenRows(C, asOf) : r.end = Max(ends)
  BY <1>4
<1>6. \A p \in OpenRows(C, asOf) : p.end <= r.end
  BY <1>4, <1>5
<1>7. OpenRow(C, asOf) \in OpenRows(C, asOf) /\ \A p \in OpenRows(C, asOf) : p.end <= OpenRow(C, asOf).end
  BY <1>6 DEF OpenRow
<1>8. ASSUME NEW p \in C, p.end = asOf PROVE p = OpenRow(C, asOf)
  <2>1. p.end = OpenRow(C, asOf).end
    BY <1>1, <1>2, <1>7, <1>8
  <2> QED BY <1>1, <1>7, <1>8, <2>1 DEF Episodes
<1> QED BY <1>1, <1>7, <1>8

\* A compute leaves episodes apart, and of those that were there the first day.
LEMMA ComputedApart ==
    ASSUME EpisodesInv, NEW asOf \in AsOf, NEW hit \in {NoSignal} \union Starts(asOf),
           NEW rs, rs = Computed(Collapse(rows), asOf, hit),
           nextId \in IdsOf(rs) => nextId <= MaxId
    PROVE  /\ Episodes(rs)
           /\ NextIdAfter(rs) \in Nat \ {0} /\ \A r \in rs : r.id < NextIdAfter(rs)
           /\ \A p \in rows, q \in rs : p.id = q.id => q.start = p.start /\ q.end >= p.end
           /\ hit # NoSignal => \E o \in rs : o.end = asOf
           /\ \A r \in rs : r.end = asOf \/ \E c \in Collapse(rows) : c = r
           /\ \A c \in Collapse(rows) : /\ hit = NoSignal => c.end = asOf \/ c \in rs
                                        /\ hit # NoSignal => c.end <= asOf \/ c \in rs
           /\ OpenRows(Collapse(rows), asOf) # {} => \A r \in rs : \E p \in rows : r.id = p.id
           /\ \A r \in rs : r.id = nextId \/ \E p \in rows : r.id = p.id
<1> DEFINE C == Collapse(rows)
<1>1. /\ Episodes(rows) /\ Episodes(C) /\ nextId \in Nat \ {0} /\ nextId \in Int
      /\ \A c \in C : \E h \in rows : c.id = h.id /\ c.start = h.start /\ h.end <= c.end
  BY CollapseApart DEF EpisodesInv
<1>2. /\ \A r \in rows : r.id \in Int /\ r.id < nextId /\ r.end \in Int
      /\ \A p, r \in rows : p.id = r.id => p = r
  BY <1>1 DEF EpisodesInv, Episodes, Shaped, Ids, Days
<1>3. \A c \in C : c.id < nextId /\ c.id \in Int /\ c.end \in Int /\ c.end \in Days /\ c.start \in Days /\ Shaped(c)
  BY <1>1, <1>2 DEF Episodes, Shaped, Days
<1>4. \A p \in rows, c \in C : p.id = c.id => c.start = p.start /\ c.end >= p.end
  BY <1>1, <1>2, <1>3
<1>5. asOf \in Days /\ asOf \in Int
  BY DEF AsOf, Days
<1> HIDE DEF C
<1>6. CASE hit = NoSignal
  <2>1. rs = {r \in C : r.end # asOf} /\ rs \subseteq C
    BY <1>6 DEF Computed, NotDetected, C
  <2>2. Episodes(rs)
    BY <1>1, <2>1, FS_Subset DEF Episodes
  <2>3. nextId \notin IdsOf(rs) /\ NextIdAfter(rs) = nextId
    BY <1>1, <1>3, <2>1 DEF IdsOf, NextIdAfter
  <2> QED BY <1>1, <1>3, <1>4, <1>6, <2>1, <2>2, <2>3 DEF C
<1>7. CASE hit # NoSignal /\ OpenRows(C, asOf) = {}
  <2> DEFINE new == [id |-> nextId, start |-> hit, end |-> asOf]
  <2>1. rs = C \union {new}
    BY <1>7 DEF Computed, Detected, C
  <2>2. new.id = nextId /\ new.start = hit /\ new.end = asOf
    OBVIOUS
  <2>3. hit \in Days /\ hit <= asOf
    <3>1. PICK w \in Windows : hit \in Days /\ hit + w = asOf
      BY <1>7 DEF Starts
    <3>2. w \in Nat /\ hit \in Int
      BY <3>1, SignalAlertsAssumption DEF Days
    <3> QED BY <3>1, <3>2
  <2>4. nextId \in IdsOf(rs) /\ NextIdAfter(rs) = nextId + 1 /\ nextId \in Ids
    <3>1. new \in rs
      BY <2>1
    <3>2. nextId \in IdsOf(rs)
      BY <2>2, <3>1 DEF IdsOf
    <3>3. nextId <= MaxId
      BY <3>2
    <3> QED BY <1>1, <3>2, <3>3, SignalAlertsAssumption DEF NextIdAfter, Ids
  <2>5. Shaped(new)
    BY <2>3, <2>4 DEF Shaped
  <2>6. \A c \in C : c.end # asOf
    <3>1. asOf \in (asOf - Gap) .. asOf
      BY <1>5, SignalAlertsAssumption
    <3> QED BY <1>7, <3>1 DEF OpenRows
  <2> HIDE DEF new
  <2>7. Episodes(rs)
    <3>1. IsFiniteSet(rs)
      BY <1>1, <2>1, FS_AddElement DEF Episodes
    <3>2. \A r \in rs : Shaped(r) /\ r.end \in Days /\ r.start <= r.end
      BY <1>1, <1>5, <2>1, <2>2, <2>3, <2>5 DEF Episodes
    <3>3. \A p, r \in rs : p # r => p.id # r.id /\ p.end # r.end
      BY <1>1, <1>3, <2>1, <2>2, <2>6 DEF Episodes
    <3> QED BY <3>1, <3>2, <3>3 DEF Episodes
  <2>8. \A r \in rs : r.id < nextId + 1
    BY <1>1, <1>3, <2>1, <2>2
  <2>9. \A p \in rows, q \in rs : p.id = q.id => q.start = p.start /\ q.end >= p.end
    BY <1>2, <1>4, <2>1, <2>2
  <2>10. /\ new \in rs /\ new.end = asOf
         /\ \A r \in rs : r.end = asOf \/ r \in C
         /\ \A c \in C : c \in rs
         /\ \A r \in rs : r.id = nextId \/ \E p \in rows : r.id = p.id
    BY <1>1, <2>1, <2>2
  <2>11. NextIdAfter(rs) \in Nat \ {0} /\ \A r \in rs : r.id < NextIdAfter(rs)
    BY <1>1, <2>4, <2>8
  <2> QED BY <1>7, <2>7, <2>9, <2>10, <2>11 DEF C
<1>8. CASE hit # NoSignal /\ OpenRows(C, asOf) # {}
  <2> DEFINE open == OpenRow(C, asOf)
             new == [open EXCEPT !.end = asOf]
  <2>1. rs = (C \ {open}) \union {new}
    BY <1>8 DEF Computed, Detected, C
  <2>2. open \in C /\ open.end <= asOf /\ \A p \in C : p.end = asOf => p = open
    BY <1>1, <1>5, <1>8, OpenRowLast
  <2> HIDE DEF open
  <2>3. Shaped(new) /\ new.id = open.id /\ new.end = asOf
    BY <1>3, <2>2, Extended
  <2>4. new.start = open.start
    BY <1>3, <2>2 DEF Shaped
  <2>5. open.start <= asOf /\ open.start \in Int /\ open.end \in Int
    <3>1. open.start <= open.end /\ open.start \in Int /\ open.end \in Int
      BY <1>1, <1>3, <2>2 DEF Episodes, Days
    <3> QED BY <1>5, <2>2, <3>1
  <2> HIDE DEF new
  <2>6. Episodes(rs)
    <3>1. IsFiniteSet(rs)
      <4>1. IsFiniteSet(C)
        BY <1>1 DEF Episodes
      <4>2. IsFiniteSet(C \ {open})
        BY ONLY <4>1, FS_Subset, C \ {open} \subseteq C
      <4>3. IsFiniteSet((C \ {open}) \union {new})
        BY ONLY <4>2, FS_AddElement
      <4> QED BY ONLY <2>1, <4>3
    <3>2. \A r \in rs : Shaped(r) /\ r.end \in Days /\ r.start <= r.end
      BY <1>1, <1>5, <2>1, <2>3, <2>4, <2>5 DEF Episodes
    <3>3. \A p, r \in rs : p # r => p.id # r.id /\ p.end # r.end
      BY <1>1, <2>1, <2>2, <2>3 DEF Episodes
    <3> QED BY <3>1, <3>2, <3>3 DEF Episodes
  <2>7. \A r \in rs : \E c \in C : r.id = c.id
    BY <2>1, <2>2, <2>3
  <2>8. nextId \notin IdsOf(rs) /\ NextIdAfter(rs) = nextId /\ \A r \in rs : r.id < nextId
    BY <1>1, <1>3, <2>7 DEF IdsOf, NextIdAfter
  <2>9. \A p \in rows, q \in rs : p.id = q.id => q.start = p.start /\ q.end >= p.end
    BY <1>2, <1>3, <1>4, <1>5, <2>1, <2>2, <2>3, <2>4, <2>5
  <2>10. \A c \in C : c.end <= asOf \/ c \in rs
    BY <2>1, <2>2
  <2>11. /\ new \in rs /\ new.end = asOf
         /\ \A r \in rs : r.end = asOf \/ r \in C
         /\ \A r \in rs : \E p \in rows : r.id = p.id
    BY <1>1, <2>1, <2>3, <2>7
  <2> QED BY <1>1, <1>8, <2>6, <2>8, <2>9, <2>10, <2>11 DEF C
<1> QED BY <1>6, <1>7, <1>8

\* Only the row a compute numbers anew is news to a rule that heard of all the others.
LEMMA NewsToEarly ==
    ASSUME IInv, NEW r \in Early, NEW rs, NEW asOf, NEW id,
           \A s \in rs : s.id = id \/ \E p \in rows : s.id = p.id
    PROVE  /\ ToldBy(r, Announce(rs, asOf) \ notes) \in {0, 1}
           /\ (\A s \in rs : \E p \in rows : s.id = p.id) => ToldBy(r, Announce(rs, asOf) \ notes) = 0
<1> DEFINE news == {n \in Announce(rs, asOf) \ notes : n.rule = r}
<1>1. ASSUME NEW n \in news PROVE n = [rule |-> r, row |-> id] /\ ~ \A s \in rs : \E p \in rows : s.id = p.id
  <2>1. n \in Fired(rs, asOf) /\ n \notin notes /\ n.rule = r
    BY DEF Announce
  <2>2. PICK s \in rs : n = [rule |-> r, row |-> s.id]
    BY <2>1 DEF Fired, IdsOf
  <2>3. ~ \E p \in rows : s.id = p.id
    BY <2>1, <2>2 DEF IInv, Announced
  <2> QED BY <2>2, <2>3
<1>2. news = {} \/ news = {[rule |-> r, row |-> id]}
  BY <1>1
<1>3. Cardinality(news) \in {0, 1} /\ (news = {} => Cardinality(news) = 0)
  <2> HIDE DEF news
  <2> QED BY <1>2, FS_EmptySet, FS_Singleton
<1>4. (\A s \in rs : \E p \in rows : s.id = p.id) => news = {}
  BY <1>1
<1> QED BY <1>3, <1>4 DEF ToldBy

\* A compute, whatever day it is asked for.
LEMMA EpisodesCompute ==
    ASSUME IInv, EpisodesInv, NEW asOf \in AsOf, NEW hit \in {NoSignal} \union Starts(asOf),
           Compute(Collapse(rows), asOf, hit)
    PROVE  /\ EpisodesInv'
           /\ \A p \in rows, q \in rows' : p.id = q.id => q.start = p.start /\ q.end >= p.end
<1> DEFINE C == Collapse(rows)
<1>1. PICK rs : rs = Computed(C, asOf, hit)
  OBVIOUS
<1>2. /\ rows' = rs /\ nextId' = NextIdAfter(rs)
      /\ nextId \in IdsOf(rs) => nextId <= MaxId
      /\ run' = RunAfter(rs, asOf, hit)
      /\ told' = ToldAfter(rs, asOf, hit, Announce(rs, asOf) \ notes)
  BY <1>1 DEF Compute
<1>3. /\ Episodes(rs)
      /\ NextIdAfter(rs) \in Nat \ {0} /\ \A r \in rs : r.id < NextIdAfter(rs)
      /\ \A p \in rows, q \in rs : p.id = q.id => q.start = p.start /\ q.end >= p.end
      /\ hit # NoSignal => \E o \in rs : o.end = asOf
      /\ \A r \in rs : r.end = asOf \/ \E c \in C : c = r
      /\ \A c \in C : /\ hit = NoSignal => c.end = asOf \/ c \in rs
                      /\ hit # NoSignal => c.end <= asOf \/ c \in rs
      /\ OpenRows(C, asOf) # {} => \A r \in rs : \E p \in rows : r.id = p.id
      /\ \A r \in rs : r.id = nextId \/ \E p \in rows : r.id = p.id
  BY <1>1, <1>2, ComputedApart
<1>4. /\ \A c \in C : \E p \in rows : c.end = p.end
      /\ \A p \in rows : \E c \in C : p.end <= c.end
      /\ Episodes(rows) /\ Episodes(C)
  BY CollapseApart DEF EpisodesInv
<1>5. /\ \A r \in rows : r.end \in Int
      /\ \A c \in C : c.end \in Int
      /\ \A r \in rs : r.end \in Int
      /\ asOf \in Days /\ asOf \in Int
      /\ run # NoRun => run \in Days /\ run \in Int
      /\ NoRun \notin Days
  BY <1>3, <1>4 DEF Episodes, Days, AsOf, EpisodesInv, NoRun
<1> HIDE DEF C
<1>6. run # NoRun => (\E c \in C : c.end = run) /\ \A c \in C : c.end <= run
  <2> SUFFICES ASSUME run # NoRun PROVE (\E c \in C : c.end = run) /\ \A c \in C : c.end <= run
    OBVIOUS
  <2>1. PICK o \in rows : o.end = run /\ \A r \in rows : r.end <= run
    BY DEF EpisodesInv, RunIsLast
  <2>2. \A c \in C : c.end <= run
    BY <1>4, <2>1
  <2>3. PICK c \in C : o.end <= c.end
    BY <1>4, <2>1
  <2> QED BY <1>5, <2>1, <2>2, <2>3
<1>7. CASE hit = NoSignal
  <2>1. told' = told /\ run' = IF asOf = run THEN NoRun ELSE run
    BY <1>2, <1>7 DEF RunAfter, ToldAfter
  <2>2. RunIsLast'
    <3> SUFFICES ASSUME run' # NoRun PROVE (\E o \in rs : o.end = run) /\ \A r \in rs : r.end <= run
      BY <1>2, <2>1 DEF RunIsLast
    <3>1. run # NoRun /\ run # asOf
      BY <2>1
    <3>2. PICK c \in C : c.end = run
      BY <1>6, <3>1
    <3>3. c \in rs
      BY <1>3, <1>7, <3>1, <3>2
    <3>4. \A r \in rs : r.end = asOf => \E p \in C : p = r
      BY <1>1, <1>7 DEF Computed, NotDetected, C
    <3> QED BY <1>3, <1>6, <3>1, <3>2, <3>3, <3>4
  <2> QED BY <1>2, <1>3, <2>1, <2>2 DEF EpisodesInv
<1>8. CASE hit # NoSignal /\ Past(rs, asOf)
  <2>1. told' = told /\ run' = run
    BY <1>2, <1>8 DEF RunAfter, ToldAfter
  <2>2. RunIsLast'
    <3> SUFFICES ASSUME run # NoRun PROVE (\E o \in rs : o.end = run) /\ \A r \in rs : r.end <= run
      BY <1>2, <2>1 DEF RunIsLast
    <3>1. PICK r \in rs : r.end > asOf
      BY <1>8 DEF Past
    <3>2. r \in C /\ asOf < run
      BY <1>3, <1>5, <1>6, <3>1
    <3>3. PICK c \in C : c.end = run
      BY <1>6
    <3>4. c \in rs
      BY <1>3, <1>5, <1>8, <3>2, <3>3
    <3>5. \A s \in rs : s.end <= run
      BY <1>3, <1>5, <1>6, <3>2
    <3> QED BY <3>3, <3>4, <3>5
  <2> QED BY <1>2, <1>3, <2>1, <2>2 DEF EpisodesInv
<1>9. CASE hit # NoSignal /\ ~ Past(rs, asOf)
  <2>1. /\ run' = asOf
        /\ told' = [r \in Rules |-> (IF Continues(asOf) THEN told[r] ELSE 0) + ToldBy(r, Announce(rs, asOf) \ notes)]
    BY <1>2, <1>9 DEF RunAfter, ToldAfter
  <2>2. RunIsLast'
    BY <1>2, <1>3, <1>5, <1>9, <2>1 DEF RunIsLast, Past
  <2>3. ASSUME NEW r \in Early PROVE told'[r] \in {0, 1}
    <3>1. r \in Rules /\ told[r] \in {0, 1}
      BY SignalAlertsAssumption DEF EpisodesInv
    <3>2. /\ ToldBy(r, Announce(rs, asOf) \ notes) \in {0, 1}
          /\ (\A s \in rs : \E p \in rows : s.id = p.id) => ToldBy(r, Announce(rs, asOf) \ notes) = 0
      <4>1. \A s \in rs : s.id = nextId \/ \E p \in rows : s.id = p.id
        BY <1>3
      <4> QED BY <4>1, NewsToEarly
    <3>3. CASE Continues(asOf)
      <4>1. run # NoRun /\ asOf \in run .. (run + Gap)
        BY <3>3 DEF Continues
      <4>2. PICK c \in C : c.end = run
        BY <1>6, <4>1
      <4>3. run \in (asOf - Gap) .. asOf
        BY <1>5, <4>1, SignalAlertsAssumption
      <4>4. OpenRows(C, asOf) # {}
        BY <4>2, <4>3 DEF OpenRows
      <4> QED BY <1>3, <2>1, <3>1, <3>2, <3>3, <4>4
    <3>4. CASE ~ Continues(asOf)
      BY <2>1, <3>1, <3>2, <3>4
    <3> QED BY <3>3, <3>4
  <2> QED BY <1>2, <1>3, <1>5, <2>1, <2>2, <2>3 DEF EpisodesInv
<1> QED BY <1>2, <1>3, <1>7, <1>8, <1>9

\* Only computes write episodes, and an evaluation on demand has no news for an early rule.
LEMMA EpisodesStep ==
    ASSUME IInv, EpisodesInv, [Next]_vars
    PROVE  /\ EpisodesInv'
           /\ \A p \in rows, q \in rows' : p.id = q.id => q.start = p.start /\ q.end >= p.end
<1>1. ASSUME UNCHANGED <<rows, nextId, run>>, \A r \in Early : told'[r] = told[r]
      PROVE  /\ EpisodesInv'
             /\ \A p \in rows, q \in rows' : p.id = q.id => q.start = p.start /\ q.end >= p.end
  <2>1. \A p, q \in rows : p.id = q.id => q.start = p.start /\ q.end >= p.end
    BY DEF EpisodesInv, Episodes, Days
  <2> QED BY <1>1, <2>1 DEF EpisodesInv, RunIsLast
<1>2. ASSUME NEW d \in AsOf, NEW hit \in {NoSignal} \union Starts(d), Compute(Collapse(rows), d, hit)
      PROVE  /\ EpisodesInv'
             /\ \A p \in rows, q \in rows' : p.id = q.id => q.start = p.start /\ q.end >= p.end
  BY <1>2, EpisodesCompute
<1>3. ASSUME NEW d \in AsOf, NEW hit \in {NoSignal} \union Starts(d), RolledBack(Collapse(rows), d, hit)
      PROVE  /\ EpisodesInv'
             /\ \A p \in rows, q \in rows' : p.id = q.id => q.start = p.start /\ q.end >= p.end
  <2>1. UNCHANGED <<rows, run, told>> /\ nextId' \in {nextId, nextId + 1}
    BY <1>3 DEF RolledBack, NextIdAfter
  <2>2. nextId' \in Nat \ {0} /\ \A r \in rows : r.id < nextId'
    BY <2>1 DEF EpisodesInv, Episodes, Shaped, Ids
  <2>3. \A p, q \in rows : p.id = q.id => q.start = p.start /\ q.end >= p.end
    BY DEF EpisodesInv, Episodes, Days
  <2> QED BY <2>1, <2>2, <2>3 DEF EpisodesInv, RunIsLast
<1>4. ASSUME NEW d, EvaluateNow(d)
      PROVE  /\ EpisodesInv'
             /\ \A p \in rows, q \in rows' : p.id = q.id => q.start = p.start /\ q.end >= p.end
  <2>1. /\ UNCHANGED <<rows, nextId, run>> /\ notes' = Announce(rows, d)
        /\ told' = IF d = run THEN [r \in Rules |-> told[r] + ToldBy(r, notes' \ notes)] ELSE told
    BY <1>4 DEF EvaluateNow
  <2>2. ASSUME NEW r \in Early PROVE told'[r] = told[r]
    <3>1. ToldBy(r, Announce(rows, d) \ notes) = 0
      BY NewsToEarly
    <3>2. r \in Rules /\ told[r] \in {0, 1}
      BY SignalAlertsAssumption DEF EpisodesInv
    <3> QED BY <2>1, <3>1, <3>2
  <2> QED BY <1>1, <2>1, <2>2
<1>5. CASE (\E r \in Rules : CreateRule(r)) \/ OutcomesNow \/ NextDay \/ UNCHANGED vars
  BY <1>1, <1>5 DEF CreateRule, OutcomesNow, NextDay, vars
<1> QED BY <1>2, <1>3, <1>4, <1>5 DEF Next

LEMMA EpisodesHold == Spec => []EpisodesInv
<1>1. Init => EpisodesInv
  <2> SUFFICES ASSUME Init PROVE EpisodesInv
    OBVIOUS
  <2>1. Episodes(rows) /\ \A r \in rows : r.id < nextId
    BY FS_EmptySet DEF Init, Episodes
  <2>2. \A r \in Early : told[r] \in {0, 1}
    BY SignalAlertsAssumption DEF Init
  <2> QED BY <2>1, <2>2 DEF Init, EpisodesInv, RunIsLast
<1>2. EpisodesInv /\ IInv /\ [Next]_vars => EpisodesInv'
  BY EpisodesStep
<1> QED BY <1>1, <1>2, AlertsInvariant, PTL DEF Spec

\* Two episodes never end on one day, though nothing in the database forbids it, and an early
\* rule hears of an unbroken run of detections once (_write_signal_episode,
\* collapse_signal_episodes, alerts.evaluate).
THEOREM RunsNotifiedOnce == Spec => []NotifiedAtMostOnce
<1>1. EpisodesInv => NotifiedAtMostOnce
  BY DEF EpisodesInv, Episodes, NotifiedAtMostOnce, EndsDistinct, EarlyNotifiedOnce
<1> QED BY <1>1, EpisodesHold, PTL

\* What is merged into an episode moves neither its first day nor its last one back.
THEOREM FirstDaysStand == Spec => FirstDayKept
<1>1. IInv /\ EpisodesInv /\ [Next]_vars =>
          [\A p \in rows, q \in rows' : p.id = q.id => q.start = p.start /\ q.end >= p.end]_vars
  BY EpisodesStep
<1> QED BY <1>1, AlertsInvariant, EpisodesHold, PTL DEF Spec, FirstDayKept

-----------------------------------------------------------------------------
(* Briefs *)

TurkishNote(m) == [market |-> m, lang |-> "tr"]

Fields == {"at", "step", "notes", "looked", "holds", "left", "added"}

\* What the functions of the state are functions of.
BriefsShaped ==
    /\ lost \in Nat
    /\ DOMAIN brief = BriefJobs
    /\ DOMAIN sent = Users \X MarketSet \X Languages \X AllKinds
    /\ \A t \in DOMAIN sent : sent[t] \in Nat

\* A run delivers, and has delivered, markets whose Turkish note it holds.
RunSound(b) ==
    /\ DOMAIN b = Fields
    /\ \A row \in b.added : TurkishNote(row.market) \in b.holds
    /\ "tr" \in b.notes => TurkishNote(Markets[b.at]) \in b.holds
    /\ b.step \in {"deliver", "look insert"} => "tr" \in b.notes

\* No two open transactions have written the same note.
HoldApart == \A i, j \in BriefJobs : i # j => brief[i].holds \intersect brief[j].holds = {}

\* The user has been served on a channel of this kind, by what is recorded or by a run
\* that may yet record it.
Served(t) ==
    \E c \in ChannelsFor(t[4]) :
        \/ Row(t[1], t[2], t[3], c) \in recorded
        \/ \E j \in BriefJobs : Row(t[1], t[2], t[3], c) \in brief[j].added

Counted == \A t \in DOMAIN sent : sent[t] <= lost + (IF Served(t) THEN 1 ELSE 0)

BriefInv == BriefsShaped /\ (\A j \in BriefJobs : RunSound(brief[j])) /\ HoldApart /\ Counted

-----------------------------------------------------------------------------
\* A run that goes on to another market keeps the rows it has written and its deliveries.
LEMMA NextMarketKeeps ==
    ASSUME NEW b, DOMAIN b = Fields
    PROVE  LET n == NextMarket(b)
           IN  /\ DOMAIN n = Fields /\ n.holds = b.holds /\ n.added = b.added /\ n.notes = {}
               /\ n.step \in {"commit", "tr"}
BY DEF NextMarket, Fields

\* So does one that goes on to the next note, or to the users of the market: then it has
\* the Turkish note.
LEMMA AfterNoteKeeps ==
    ASSUME NEW b, DOMAIN b = Fields, b.step \in {"tr", "tr insert", "en", "en insert"} \/ "tr" \in b.notes
    PROVE  LET n == AfterNote(b)
           IN  /\ DOMAIN n = Fields /\ n.holds = b.holds /\ n.added = b.added
               /\ n.notes \in {{}, b.notes} /\ ("tr" \in n.notes => n.at = b.at)
               /\ n.step \in {"deliver", "look insert"} => "tr" \in n.notes
<1> DEFINE n == AfterNote(b)
<1>1. CASE b.step \in {"tr", "tr insert"}
  BY <1>1 DEF AfterNote, Fields
<1>2. CASE b.step \in {"en", "en insert"} /\ "tr" \in b.notes
  BY <1>2 DEF AfterNote, Fields
<1>3. CASE b.step = "look insert"
  BY <1>3 DEF AfterNote, Fields
<1>4. CASE b.step \notin {"tr", "tr insert", "look insert"} /\ ~ (b.step \in {"en", "en insert"} /\ "tr" \in b.notes)
  <2>1. n = NextMarket(b)
    BY <1>4 DEF AfterNote
  <2> QED BY <2>1, NextMarketKeeps
<1> QED BY <1>1, <1>2, <1>3, <1>4

\* Writing a note adds its row to those the run holds; the Turkish one is handed on.
LEMMA WroteKeeps ==
    ASSUME NEW b, DOMAIN b = Fields, NEW l \in Languages,
           b.step \in {l, InsertStep(l)} \/ (l = "en" /\ b.step = "look insert"),
           b.step = "look insert" => "tr" \in b.notes,
           "tr" \in b.notes => TurkishNote(Markets[b.at]) \in b.holds,
           \A row \in b.added : TurkishNote(row.market) \in b.holds
    PROVE  LET n == AfterNote(Wrote(b, l))
           IN  /\ RunSound(n) /\ n.added = b.added
               /\ n.holds = b.holds \union {[market |-> Markets[b.at], lang |-> l]}
<1> DEFINE w == Wrote(b, l)
           n == AfterNote(w)
<1>1. /\ DOMAIN w = Fields /\ w.step = b.step /\ w.at = b.at /\ w.added = b.added
      /\ w.holds = b.holds \union {[market |-> Markets[b.at], lang |-> l]}
      /\ w.notes = IF b.step \in {"en", "en insert"} THEN b.notes ELSE b.notes \union {l}
  BY DEF Wrote, Fields
<1>2. b.step \in {"tr", "tr insert", "en", "en insert"} \/ b.step = "look insert"
  BY DEF InsertStep, Languages
<1>3. "tr" \in w.notes => TurkishNote(Markets[w.at]) \in w.holds
  BY <1>1, <1>2 DEF TurkishNote, Languages, InsertStep
<1> HIDE DEF w
<1>4. /\ DOMAIN n = Fields /\ n.holds = w.holds /\ n.added = w.added
      /\ n.notes \in {{}, w.notes} /\ ("tr" \in n.notes => n.at = w.at)
      /\ n.step \in {"deliver", "look insert"} => "tr" \in n.notes
  <2>1. w.step \in {"tr", "tr insert", "en", "en insert"} \/ "tr" \in w.notes
    BY <1>1, <1>2
  <2> QED BY <1>1, <2>1, AfterNoteKeeps
<1> HIDE DEF n
<1>5. RunSound(n)
  BY <1>1, <1>3, <1>4 DEF RunSound
<1> QED BY <1>1, <1>4, <1>5 DEF n, w

-----------------------------------------------------------------------------
\* A step of one run that serves nobody: what it holds, others do not, and what it has
\* delivered it keeps.
LEMMA RunStep ==
    ASSUME BriefInv, NEW j \in BriefJobs, NEW b, RunSound(b),
           brief' = [brief EXCEPT ![j] = b], UNCHANGED <<recorded, sent, lost>>,
           b.added = brief[j].added,
           \A i \in BriefJobs \ {j} : b.holds \intersect brief[i].holds = {}
    PROVE  BriefInv'
<1>1. /\ DOMAIN brief' = BriefJobs
      /\ \A i \in BriefJobs : brief'[i] = IF i = j THEN b ELSE brief[i]
  BY DEF BriefInv, BriefsShaped
<1>2. BriefsShaped'
  BY <1>1 DEF BriefInv, BriefsShaped
<1>3. \A i \in BriefJobs : RunSound(brief'[i])
  BY <1>1 DEF BriefInv
<1>4. HoldApart'
  BY <1>1 DEF BriefInv, HoldApart
<1>5. \A i \in BriefJobs : brief'[i].added = brief[i].added
  BY <1>1
<1>6. \A t : Served(t)' <=> Served(t)
  BY <1>5 DEF Served
<1>7. Counted'
  BY <1>6 DEF BriefInv, Counted
<1> QED BY <1>2, <1>3, <1>4, <1>7 DEF BriefInv

\* A run that is lost takes its deliveries along, and is counted.
LEMMA LoseStep ==
    ASSUME BriefInv, NEW j \in BriefJobs, LoseJob(j), UNCHANGED sent
    PROVE  BriefInv'
<1>1. /\ DOMAIN brief' = BriefJobs
      /\ \A i \in BriefJobs : brief'[i] = IF i = j THEN Over ELSE brief[i]
      /\ lost' = lost + 1
  BY DEF BriefInv, BriefsShaped, LoseJob
<1>2. Over.holds = {} /\ RunSound(Over)
  BY DEF Over, NotBegun, RunSound, Fields
<1>3. BriefsShaped'
  BY <1>1 DEF BriefInv, BriefsShaped
<1>4. \A i \in BriefJobs : RunSound(brief'[i])
  BY <1>1, <1>2 DEF BriefInv
<1>5. HoldApart'
  BY <1>1, <1>2 DEF BriefInv, HoldApart
<1>6. Counted'
  <2>1. \A t \in DOMAIN sent : sent[t] \in Nat /\ sent[t] <= lost + (IF Served(t) THEN 1 ELSE 0)
    BY DEF BriefInv, BriefsShaped, Counted
  <2>2. \A t \in DOMAIN sent : sent[t] <= lost + 1
    BY <2>1 DEF BriefInv, BriefsShaped
  <2>3. \A t \in DOMAIN sent : sent[t] <= lost + 1 + (IF Served(t)' THEN 1 ELSE 0)
    BY <2>1, <2>2 DEF BriefInv, BriefsShaped
  <2> QED BY <1>1, <2>3 DEF Counted
<1> QED BY <1>3, <1>4, <1>5, <1>6 DEF BriefInv

\* What a run has delivered is recorded when it commits, so whoever was served still is.
LEMMA CommitStep ==
    ASSUME BriefInv, NEW j \in BriefJobs, CommitJob(j)
    PROVE  BriefInv'
<1>1. /\ DOMAIN brief' = BriefJobs
      /\ \A i \in BriefJobs : brief'[i] = IF i = j THEN Over ELSE brief[i]
      /\ recorded' = recorded \union brief[j].added
      /\ UNCHANGED <<sent, lost>>
  BY DEF BriefInv, BriefsShaped, CommitJob
<1>2. Over.holds = {} /\ Over.added = {} /\ RunSound(Over)
  BY DEF Over, NotBegun, RunSound, Fields
<1>3. BriefsShaped'
  BY <1>1 DEF BriefInv, BriefsShaped
<1>4. \A i \in BriefJobs : RunSound(brief'[i])
  BY <1>1, <1>2 DEF BriefInv
<1>5. HoldApart'
  BY <1>1, <1>2 DEF BriefInv, HoldApart
<1>6. \A t : Served(t)' <=> Served(t)
  BY <1>1, <1>2 DEF Served
<1>7. Counted'
  BY <1>1, <1>6 DEF BriefInv, Counted
<1> QED BY <1>3, <1>4, <1>5, <1>7 DEF BriefInv

\* Whom a run is about to serve is served by nobody: what is recorded, and what the run
\* itself has sent, it has looked up; and what another run has sent in this market would
\* need the note that this one holds.
LEMMA Unserved ==
    ASSUME BriefInv, NEW j \in BriefJobs, brief[j].step = "deliver",
           NEW u \in Users, NEW l, NEW k \in ToTry(j, u, l)
    PROVE  ~ Served(<<u, Markets[brief[j].at], l, k>>)
<1> DEFINE m == Markets[brief[j].at]
<1>1. TurkishNote(m) \in brief[j].holds
  BY DEF BriefInv, RunSound
<1>2. k \in {"push", "telegram", "email"} /\ k \in Kinds[u]
  BY BriefsAssumption DEF ToTry
<1>3. ASSUME NEW c \in ChannelsFor(k), Row(u, m, l, c) \in recorded \union brief[j].added
      PROVE  FALSE
  <2>1. c \in {"ONESIGNAL", "PUSH", "telegram", "email"}
    BY <1>2, <1>3 DEF ChannelsFor
  <2>2. c \in Delivered(j, u, l)
    BY <1>3, <2>1 DEF Delivered
  <2> QED BY <1>2, <1>3, <2>2 DEF ToTry, ChannelsFor
<1>4. ASSUME NEW c, NEW i \in BriefJobs \ {j}, Row(u, m, l, c) \in brief[i].added
      PROVE  FALSE
  <2>1. TurkishNote(Row(u, m, l, c).market) \in brief[i].holds
    BY <1>4 DEF BriefInv, RunSound
  <2>2. Row(u, m, l, c).market = m
    BY DEF Row
  <2> QED BY <1>1, <2>1, <2>2 DEF BriefInv, HoldApart
<1> HIDE DEF m
<1>5. ~ Served(<<u, m, l, k>>)
  BY <1>3, <1>4 DEF Served
<1> QED BY <1>5 DEF m

LEMMA DeliverStep ==
    ASSUME BriefInv, NEW j \in BriefJobs, NEW u \in Users, DeliverTo(j, u)
    PROVE  BriefInv'
<1> DEFINE m == Markets[brief[j].at]
           l == ServedLang(j, u)
<1>1. brief[j].step = "deliver" /\ UNCHANGED <<recorded, lost>>
  BY DEF DeliverTo
<1>2. PICK accepted \in SUBSET ToTry(j, u, l) : \E got \in [accepted -> UNION {ChannelsFor(k) : k \in accepted}] :
        /\ \A k \in accepted : got[k] \in ChannelsFor(k)
        /\ sent' = [t \in DOMAIN sent |-> IF \E k \in accepted : t = <<u, m, l, k>> THEN sent[t] + 1 ELSE sent[t]]
        /\ brief' = [brief EXCEPT ![j].left = @ \ {u},
                                  ![j].added = @ \union {Row(u, m, l, got[k]) : k \in accepted}]
  BY DEF DeliverTo
<1>0. PICK got \in [accepted -> UNION {ChannelsFor(k) : k \in accepted}] :
        /\ \A k \in accepted : got[k] \in ChannelsFor(k)
        /\ sent' = [t \in DOMAIN sent |-> IF \E k \in accepted : t = <<u, m, l, k>> THEN sent[t] + 1 ELSE sent[t]]
        /\ brief' = [brief EXCEPT ![j].left = @ \ {u},
                                  ![j].added = @ \union {Row(u, m, l, got[k]) : k \in accepted}]
  BY <1>2
<1>3. \A k \in accepted : ~ Served(<<u, m, l, k>>)
  BY <1>1, <1>2, Unserved
<1>4. /\ DOMAIN brief' = BriefJobs
      /\ \A i \in BriefJobs \ {j} : brief'[i] = brief[i]
      /\ DOMAIN brief'[j] = Fields /\ brief'[j].holds = brief[j].holds /\ brief'[j].notes = brief[j].notes
      /\ brief'[j].step = brief[j].step /\ brief'[j].at = brief[j].at
      /\ brief'[j].added = brief[j].added \union {Row(u, m, l, got[k]) : k \in accepted}
  BY <1>0 DEF BriefInv, BriefsShaped, RunSound, Fields
<1>5. BriefsShaped'
  <2>1. \A t \in DOMAIN sent' : sent'[t] \in Nat
    BY <1>0 DEF BriefInv, BriefsShaped
  <2> QED BY <1>1, <1>0, <1>4, <2>1 DEF BriefInv, BriefsShaped
<1>6. RunSound(brief'[j])
  <2>1. RunSound(brief[j]) /\ TurkishNote(m) \in brief[j].holds
    BY <1>1 DEF BriefInv, RunSound
  <2>2. \A row \in brief'[j].added : row \in brief[j].added \/ row.market = m
    BY <1>4 DEF Row
  <2> QED BY <1>4, <2>1, <2>2 DEF RunSound
<1>7. \A i \in BriefJobs : RunSound(brief'[i])
  BY <1>4, <1>6 DEF BriefInv
<1>8. HoldApart'
  BY <1>4 DEF BriefInv, HoldApart
<1>9. \A t : Served(t) => Served(t)'
  BY <1>1, <1>4 DEF Served
<1>10. ASSUME NEW k \in accepted, NEW t, t = <<u, m, l, k>>
       PROVE  Served(t)'
  <2>1. got[k] \in ChannelsFor(k) /\ Row(u, m, l, got[k]) \in brief'[j].added
    BY <1>0, <1>4
  <2>2. t[1] = u /\ t[2] = m /\ t[3] = l /\ t[4] = k
    BY <1>10
  <2> HIDE DEF m, l
  <2> QED BY <2>1, <2>2 DEF Served
<1>11. Counted'
  <2>1. SUFFICES ASSUME NEW t \in DOMAIN sent
                 PROVE  sent'[t] <= lost + (IF Served(t)' THEN 1 ELSE 0)
    BY <1>1, <1>0 DEF Counted
  <2>2. sent[t] \in Nat /\ lost \in Nat /\ sent[t] <= lost + (IF Served(t) THEN 1 ELSE 0)
    BY DEF BriefInv, BriefsShaped, Counted
  <2>3. CASE \E k \in accepted : t = <<u, m, l, k>>
    <3>1. ~ Served(t) /\ Served(t)'
      <4>1. PICK k \in accepted : t = <<u, m, l, k>>
        BY <2>3
      <4>2. ~ Served(t)
        BY <1>3, <4>1
      <4>3. Served(t)'
        BY <1>10, <4>1
      <4> QED BY <4>2, <4>3
    <3>2. sent'[t] = sent[t] + 1
      BY <1>0, <2>3
    <3>3. sent[t] <= lost
      BY <2>2, <3>1
    <3>4. sent'[t] <= lost + 1
      BY <2>2, <3>2, <3>3
    <3> QED BY <3>1, <3>4
  <2>4. CASE ~ \E k \in accepted : t = <<u, m, l, k>>
    <3>1. sent'[t] = sent[t]
      BY <1>0, <2>4
    <3>2. Served(t) => Served(t)'
      BY <1>9
    <3>3. CASE Served(t)'
      <4>1. sent[t] <= lost + 1
        BY <2>2
      <4> QED BY <3>1, <3>3, <4>1
    <3>4. CASE ~ Served(t)'
      <4>1. sent[t] <= lost + 0
        BY <2>2, <3>2, <3>4
      <4> QED BY <3>1, <3>4, <4>1
    <3> QED BY <3>3, <3>4
  <2> QED BY <2>3, <2>4
<1> QED BY <1>5, <1>7, <1>8, <1>11 DEF BriefInv

\* The markets, the notes and what a run writes next.
LEMMA OtherSteps ==
    ASSUME BriefInv, NEW j \in BriefJobs,
           \/ StartJob(j) \/ Unavailable(j) \/ LookUp(j) \/ DeliveredAll(j)
           \/ \E l \in Languages : WriteNote(j, l) \/ InsertNote(j, l) \/ NoNote(j, l)
    PROVE  BriefInv'
<1>1. RunSound(brief[j]) /\ DOMAIN brief = BriefJobs
  BY DEF BriefInv, BriefsShaped
<1>2. \A i \in BriefJobs \ {j} : brief[j].holds \intersect brief[i].holds = {}
  BY DEF BriefInv, HoldApart
\* A step that writes no row.
<1>3. ASSUME NEW b, brief' = [brief EXCEPT ![j] = b], UNCHANGED <<recorded, sent, lost>>,
             RunSound(b), b.added = brief[j].added, b.holds = brief[j].holds
      PROVE  BriefInv'
  BY <1>2, <1>3, RunStep
<1>4. CASE StartJob(j)
  <2>1. brief' = [brief EXCEPT ![j] = [brief[j] EXCEPT !.step = "tr"]] /\ UNCHANGED <<recorded, sent, lost>>
    BY <1>1, <1>4 DEF StartJob
  <2>2. RunSound([brief[j] EXCEPT !.step = "tr"])
    BY <1>1 DEF RunSound, Fields
  <2>3. /\ [brief[j] EXCEPT !.step = "tr"].added = brief[j].added
        /\ [brief[j] EXCEPT !.step = "tr"].holds = brief[j].holds
    BY <1>1 DEF RunSound, Fields
  <2> QED BY <1>3, <2>1, <2>2, <2>3
<1>5. CASE Unavailable(j) \/ DeliveredAll(j)
  <2>1. brief' = [brief EXCEPT ![j] = NextMarket(brief[j])] /\ UNCHANGED <<recorded, sent, lost>>
    BY <1>1, <1>5 DEF Unavailable, DeliveredAll
  <2>2. LET n == NextMarket(brief[j])
        IN  RunSound(n) /\ n.added = brief[j].added /\ n.holds = brief[j].holds
    BY <1>1, NextMarketKeeps DEF RunSound
  <2> QED BY <1>3, <2>1, <2>2
<1>6. CASE LookUp(j)
  <2>1. PICK b : /\ brief' = [brief EXCEPT ![j] = b] /\ UNCHANGED <<recorded, sent, lost>>
                 /\ \/ b = [brief[j] EXCEPT !.looked = TRUE, !.notes = @ \union {"en"}]
                    \/ b = [brief[j] EXCEPT !.looked = TRUE]
                    \/ b = [brief[j] EXCEPT !.step = "look insert"]
    BY <1>1, <1>6 DEF LookUp
  <2>2. brief[j].step = "deliver"
    BY <1>6 DEF LookUp
  <2>3. RunSound(b) /\ b.added = brief[j].added /\ b.holds = brief[j].holds
    BY <1>1, <2>1, <2>2 DEF RunSound, Fields
  <2> QED BY <1>3, <2>1, <2>3
\* A row that is written was held by no other run.
<1>7. ASSUME NEW l \in Languages, Key(j, l) \notin Held \ brief[j].holds,
             brief[j].step \in {l, InsertStep(l)} \/ (l = "en" /\ brief[j].step = "look insert"),
             brief' = [brief EXCEPT ![j] = AfterNote(Wrote(brief[j], l))], UNCHANGED <<recorded, sent, lost>>
      PROVE  BriefInv'
  <2> DEFINE n == AfterNote(Wrote(brief[j], l))
  <2>1. RunSound(n) /\ n.added = brief[j].added /\ n.holds = brief[j].holds \union {Key(j, l)}
    BY <1>1, <1>7, WroteKeeps DEF RunSound, Key
  <2> HIDE DEF n
  <2>2. \A i \in BriefJobs \ {j} : Key(j, l) \notin brief[i].holds
    BY <1>2, <1>7 DEF Held
  <2>3. \A i \in BriefJobs \ {j} : n.holds \intersect brief[i].holds = {}
    BY <1>2, <2>1, <2>2
  <2>4. brief' = [brief EXCEPT ![j] = n]
    BY <1>7 DEF n
  <2> QED BY <1>7, <2>1, <2>3, <2>4, RunStep
<1>8. ASSUME NEW l \in Languages, NoNote(j, l)
      PROVE  BriefInv'
  <2>1. brief' = [brief EXCEPT ![j] = AfterNote(brief[j])] /\ UNCHANGED <<recorded, sent, lost>> /\ brief[j].step = l
    BY <1>1, <1>8 DEF NoNote
  <2>2. LET n == AfterNote(brief[j])
        IN  /\ DOMAIN n = Fields /\ n.holds = brief[j].holds /\ n.added = brief[j].added
            /\ n.notes \in {{}, brief[j].notes} /\ ("tr" \in n.notes => n.at = brief[j].at)
            /\ n.step \in {"deliver", "look insert"} => "tr" \in n.notes
    BY <1>1, <2>1, AfterNoteKeeps DEF RunSound, Languages
  <2>3. RunSound(AfterNote(brief[j]))
    BY <1>1, <2>2 DEF RunSound
  <2> QED BY <1>3, <2>1, <2>2, <2>3
<1>9. ASSUME NEW l \in Languages, WriteNote(j, l)
      PROVE  BriefInv'
  <2>1. CASE Key(j, l) \in CachedFor(j)
    BY <1>1, <1>7, <1>9, <2>1 DEF WriteNote
  <2>2. CASE Key(j, l) \notin CachedFor(j)
    <3>1. brief' = [brief EXCEPT ![j] = [brief[j] EXCEPT !.step = InsertStep(l)]] /\ UNCHANGED <<recorded, sent, lost>>
      BY <1>1, <1>9, <2>2 DEF WriteNote
    <3> DEFINE b == [brief[j] EXCEPT !.step = InsertStep(l)]
    <3>2. RunSound(b) /\ b.added = brief[j].added /\ b.holds = brief[j].holds
      BY <1>1 DEF RunSound, Fields, InsertStep
    <3> QED BY <1>3, <3>1, <3>2
  <2> QED BY <2>1, <2>2
<1>10. ASSUME NEW l \in Languages, InsertNote(j, l)
       PROVE  BriefInv'
  <2>1. CASE Key(j, l) \in saved
    BY <1>10, <2>1, LoseStep DEF InsertNote
  <2>2. CASE Key(j, l) \notin saved
    BY <1>1, <1>7, <1>10, <2>2 DEF InsertNote
  <2> QED BY <2>1, <2>2
<1> QED BY <1>4, <1>5, <1>6, <1>8, <1>9, <1>10

\* What readers do, they do to their own rows.
LEMMA ReaderStep ==
    ASSUME BriefInv, UNCHANGED <<recorded, brief, sent, lost>>
    PROVE  BriefInv'
<1>1. BriefsShaped' /\ (\A j \in BriefJobs : RunSound(brief'[j])) /\ HoldApart'
  BY DEF BriefInv, BriefsShaped, HoldApart
<1>2. \A t : Served(t)' <=> Served(t)
  BY DEF Served
<1> QED BY <1>1, <1>2 DEF BriefInv, Counted

\* brief_deliveries "makes a re-run send nothing twice" (scheduler.py): whatever runs and
\* readers overlap, a user gets a market's brief in one language once per kind of channel,
\* and once more at most for every run that was lost.
THEOREM BriefsReachOnce == BriefsSpec => []BriefOnce
<1>1. BriefsInit => BriefInv
  <2> SUFFICES ASSUME BriefsInit PROVE BriefInv
    OBVIOUS
  <2>1. DOMAIN brief = BriefJobs /\ \A j \in BriefJobs : brief[j] = NotBegun
    BY DEF BriefsInit
  <2>2. RunSound(NotBegun) /\ NotBegun.holds = {}
    BY DEF NotBegun, RunSound, Fields
  <2>3. DOMAIN sent = Users \X MarketSet \X Languages \X AllKinds /\ \A t \in DOMAIN sent : sent[t] = 0
    BY DEF BriefsInit
  <2>4. BriefsShaped
    BY <2>1, <2>3 DEF BriefsInit, BriefsShaped
  <2>5. Counted
    BY <2>3 DEF BriefsInit, Counted
  <2> QED BY <2>1, <2>2, <2>4, <2>5 DEF BriefInv, HoldApart
<1>2. BriefInv /\ [BriefsNext]_briefVars => BriefInv'
  <2> SUFFICES ASSUME BriefInv, [BriefsNext]_briefVars PROVE BriefInv'
    OBVIOUS
  <2>1. ASSUME NEW j \in BriefJobs, CommitJob(j) PROVE BriefInv'
    BY <2>1, CommitStep
  <2>2. ASSUME NEW j \in BriefJobs, BreakJob(j) PROVE BriefInv'
    BY <2>2, LoseStep DEF BreakJob
  <2>3. ASSUME NEW j \in BriefJobs, NEW u \in Users, DeliverTo(j, u) PROVE BriefInv'
    BY <2>3, DeliverStep
  <2>4. ASSUME NEW r \in Readers, Answered(r) \/ Inserts(r) \/ Answers(r) \/ (\E k \in NoteKey : Asks(r, k)) PROVE BriefInv'
    BY <2>4, ReaderStep DEF Answered, Inserts, Answers, Asks
  <2>5. CASE UNCHANGED briefVars
    BY <2>5, ReaderStep DEF briefVars
  <2> QED BY <2>1, <2>2, <2>3, <2>4, <2>5, OtherSteps DEF BriefsNext
<1>3. BriefInv => BriefOnce
  <2> SUFFICES ASSUME BriefInv, NEW t \in DOMAIN sent PROVE sent[t] <= 1 + lost
    BY DEF BriefOnce
  <2>1. sent[t] \in Nat /\ lost \in Nat /\ sent[t] <= lost + (IF Served(t) THEN 1 ELSE 0)
    BY DEF BriefInv, BriefsShaped, Counted
  <2> QED BY <2>1
<1> QED BY <1>1, <1>2, <1>3, PTL DEF BriefsSpec

=============================================================================
