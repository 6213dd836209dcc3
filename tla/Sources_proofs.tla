----------------------------- MODULE Sources_proofs -----------------------------
(***************************************************************************)
(* For any documents, issuers and runs: no filing disappears because both  *)
(* it and what replaced it are flagged, no two Form 4 documents supersede  *)
(* the same one, and the scheduler's runs read the issuers in turn.  For   *)
(* any filings and caps of KAP's adapters: none is passed over for long.   *)
(***************************************************************************)
EXTENDS InsiderFilings, KapFetch, TLAPS, FiniteSetTheorems, WellFoundedInduction

\* The order along which links run: what supersedes was filed later, or is the
\* amendment of the same day, or the amendment stored later.
Precedes(t, o, n) ==
    \/ Doc[o].day < Doc[n].day
    \/ Doc[o].day = Doc[n].day /\ ~Doc[o].amends /\ Doc[n].amends
    \/ Doc[o].day = Doc[n].day /\ Doc[o].amends = Doc[n].amends /\ t.num[o] < t.num[n]

LinksSound(t) ==
    /\ t \in Table
    /\ t.rows \subseteq Stored(t) /\ t.old \subseteq Stored(t)
    /\ \A n \in Docs : t.num[n] <= Cardinality(Stored(t))
    /\ \A n \in Docs : t.by[n] # Nobody => n \in Stored(t) /\ t.by[n] \in t.old /\ Precedes(t, t.by[n], n)
    /\ \A o \in t.old : \E n \in Docs : t.by[n] = o

\* Form 4 documents that are superseded are no candidates, so links do not meet.
Form4Sound(t) ==
    /\ LinksSound(t)
    /\ Stored(t) \subseteq Forms
    /\ \A n, m \in Docs : t.by[n] = t.by[m] /\ t.by[n] # Nobody => n = m

\* A correction that names a filing supersedes that one or none.
KapSound(t) ==
    /\ LinksSound(t)
    /\ Stored(t) \subseteq Kap
    /\ \A n \in Docs : t.by[n] # Nobody /\ Doc[n].names # Nobody => t.by[n] = Doc[n].names

IInv ==
    /\ Form4Sound(table) /\ Form4Sound(committed) /\ KapSound(kap)
    /\ todo \subseteq Forms \ Stored(table)

-----------------------------------------------------------------------------
\* A finite set has a maximal element in any strict order: otherwise each
\* element would have fewer above it than some other, without end.
LEMMA Maximal ==
    ASSUME NEW S, IsFiniteSet(S), S # {}, NEW R,
           \A x \in S : <<x, x>> \notin R,
           \A x, y, z \in S : <<x, y>> \in R /\ <<y, z>> \in R => <<x, z>> \in R
    PROVE  \E f \in S : \A g \in S : <<f, g>> \notin R
<1> DEFINE Above(f) == {g \in S : <<f, g>> \in R}
           T == {Above(f) : f \in S}
<1>1. IsWellFoundedOn(StrictSubsetOrdering(S), SUBSET S)
  <2>1. FiniteSubsetsOf(S) = SUBSET S
    BY ONLY IsFiniteSet(S), FS_FiniteSubsetsOfFinite
  <2>2. IsWellFoundedOn(StrictSubsetOrdering(S), FiniteSubsetsOf(S))
    BY ONLY FS_StrictSubsetOrderingWellFounded
  <2> QED BY ONLY <2>1, <2>2
<1>2. T \subseteq SUBSET S /\ T # {}
  BY ONLY S # {}
<1>3. PICK U \in T : \A V \in T : <<V, U>> \notin StrictSubsetOrdering(S)
  <2> HIDE DEF T
  <2> QED BY <1>1, <1>2, WFMin
<1>4. PICK f \in S : U = Above(f)
  BY <1>3
<1>5. ASSUME NEW g \in S, <<f, g>> \in R
      PROVE  FALSE
  <2>1. Above(g) \subseteq Above(f)
    BY <1>5
  <2>2. g \in Above(f) /\ g \notin Above(g)
    BY <1>5
  <2>3. <<Above(g), U>> \in StrictSubsetOrdering(S)
    BY <1>4, <2>1, <2>2 DEF StrictSubsetOrdering
  <2> QED BY <1>3, <2>3
<1> QED BY <1>5

\* max and min by (published_at, id) answer one of the documents they are given.
LEMMA LatestIn ==
    ASSUME NEW t \in Table, NEW ds \in SUBSET Docs, ds # {}
    PROVE  Latest(t, ds) \in ds
<1> DEFINE R == {p \in ds \X ds : ~Later(t, p[1], p[2])}
<1>1. IsFiniteSet(ds)
  BY InsiderAssumption, FS_Subset
<1>2. \A x \in Docs : Doc[x].day \in Nat /\ t.num[x] \in Nat
  BY InsiderAssumption DEF Table
<1>3. \A x, y \in ds : <<x, y>> \in R <=> ~Later(t, x, y)
  OBVIOUS
<1> HIDE DEF R
<1>4. /\ \A x \in ds : <<x, x>> \notin R
      /\ \A x, y, z \in ds : <<x, y>> \in R /\ <<y, z>> \in R => <<x, z>> \in R
  BY <1>2, <1>3 DEF Later
<1>5. \E f \in ds : \A g \in ds : <<f, g>> \notin R
  BY <1>1, <1>4, Maximal
<1>6. \E f \in ds : \A g \in ds : Later(t, f, g)
  BY <1>3, <1>5
<1> QED BY <1>6 DEF Latest

LEMMA EarliestIn ==
    ASSUME NEW t \in Table, NEW ds \in SUBSET Docs, ds # {}
    PROVE  Earliest(t, ds) \in ds
<1> DEFINE R == {p \in ds \X ds : ~Later(t, p[2], p[1])}
<1>1. IsFiniteSet(ds)
  BY InsiderAssumption, FS_Subset
<1>2. \A x \in Docs : Doc[x].day \in Nat /\ t.num[x] \in Nat
  BY InsiderAssumption DEF Table
<1>3. \A x, y \in ds : <<x, y>> \in R <=> ~Later(t, y, x)
  OBVIOUS
<1> HIDE DEF R
<1>4. /\ \A x \in ds : <<x, x>> \notin R
      /\ \A x, y, z \in ds : <<x, y>> \in R /\ <<y, z>> \in R => <<x, z>> \in R
  BY <1>2, <1>3 DEF Later
<1>5. \E f \in ds : \A g \in ds : <<f, g>> \notin R
  BY <1>1, <1>4, Maximal
<1>6. \E f \in ds : \A g \in ds : Later(t, g, f)
  BY <1>3, <1>5
<1> QED BY <1>6 DEF Earliest

\* The listing is taken in order: one of the documents left is the oldest.
LEMMA OldestIn ==
    ASSUME NEW ds \in SUBSET Forms, ds # {}
    PROVE  Oldest(ds) \in ds
<1> DEFINE R == {p \in ds \X ds : FiledBefore(p[2], p[1])}
<1>1. IsFiniteSet(ds)
  BY InsiderAssumption, FS_Subset DEF Docs
<1>2. \A x \in ds : Doc[x].day \in Nat /\ Doc[x].acc \in Nat /\ Doc[x].amends \in BOOLEAN
  BY InsiderAssumption DEF Docs
<1>3. \A x, y \in ds : <<x, y>> \in R <=> FiledBefore(y, x)
  OBVIOUS
<1> HIDE DEF R
<1>4. /\ \A x \in ds : <<x, x>> \notin R
      /\ \A x, y, z \in ds : <<x, y>> \in R /\ <<y, z>> \in R => <<x, z>> \in R
  BY <1>2, <1>3 DEF FiledBefore
<1>5. PICK f \in ds : \A g \in ds : <<f, g>> \notin R
  BY <1>1, <1>4, Maximal
<1>6. ASSUME NEW g \in ds \ {f} PROVE FiledBefore(f, g)
  <2>1. Doc[g].acc # Doc[f].acc
    BY InsiderAssumption
  <2>2. ~FiledBefore(g, f)
    BY <1>3, <1>5
  <2> QED BY <1>2, <2>1, <2>2 DEF FiledBefore
<1> QED BY <1>6 DEF Oldest

-----------------------------------------------------------------------------
\* A document that is stored comes last, supersedes nothing yet and is live.
LEMMA Adding ==
    ASSUME NEW t, LinksSound(t), NEW d \in Docs \ Stored(t), NEW folder,
           NEW u \in {WithRows(t, d, folder), WithoutRows(t, d)}
    PROVE  /\ LinksSound(u)
           /\ Stored(u) = Stored(t) \union {d}
           /\ u.by = t.by /\ u.old = t.old
           /\ u.by[d] = Nobody /\ d \notin u.old
           /\ \A e \in Stored(t) : u.num[e] < u.num[d]
<1>1. IsFiniteSet(Stored(t))
  BY InsiderAssumption, FS_Subset DEF Stored
<1>2. Cardinality(Stored(t)) \in Nat
  BY <1>1, FS_CardinalityType
<1>3. /\ t \in Table /\ u \in Table
      /\ u.by = t.by /\ u.old = t.old
      /\ u.num = [t.num EXCEPT ![d] = NextNum(t)]
      /\ u.rows \in {t.rows, t.rows \union {d}}
  <2>1. t \in Table /\ d \in Docs
    BY DEF LinksSound
  <2>2. NextNum(t) \in Nat
    BY <1>2 DEF NextNum
  <2>3. CASE u = WithRows(t, d, folder)
    BY <2>1, <2>2, <2>3 DEF Table, WithRows
  <2>4. CASE u = WithoutRows(t, d)
    BY <2>1, <2>2, <2>4 DEF Table, WithoutRows
  <2> QED BY <2>1, <2>3, <2>4
<1>4. Stored(u) = Stored(t) \union {d}
  <2>1. t.num \in [Docs -> Nat] /\ NextNum(t) > 0
    BY <1>2, <1>3 DEF NextNum, Table
  <2>2. \A e \in Docs : u.num[e] > 0 <=> (t.num[e] > 0 \/ e = d)
    BY <1>3, <2>1
  <2> QED BY <2>2 DEF Stored
<1>5. Cardinality(Stored(u)) = Cardinality(Stored(t)) + 1
  BY <1>1, <1>4, FS_AddElement
<1>6. \A e \in Docs : u.num[e] <= Cardinality(Stored(u))
  BY <1>2, <1>3, <1>5 DEF LinksSound, NextNum, Table
<1>7. \A e \in Stored(t) : u.num[e] = t.num[e] /\ u.num[e] < u.num[d]
  BY <1>2, <1>3 DEF LinksSound, NextNum, Table, Stored
<1>8. u.by[d] = Nobody /\ d \notin u.old
  BY <1>3 DEF LinksSound
<1>9. ASSUME NEW n \in Docs, u.by[n] # Nobody
      PROVE  n \in Stored(u) /\ u.by[n] \in u.old /\ Precedes(u, u.by[n], n)
  <2>1. n \in Stored(t) /\ t.by[n] \in Stored(t) /\ Precedes(t, t.by[n], n)
    BY <1>3, <1>9 DEF LinksSound
  <2>2. u.num[n] = t.num[n] /\ u.num[t.by[n]] = t.num[t.by[n]]
    BY <1>7, <2>1
  <2> QED BY <1>3, <1>4, <1>9, <2>1, <2>2 DEF LinksSound, Precedes
<1>10. u.rows \subseteq Stored(u) /\ u.old \subseteq Stored(u) /\ \A o \in u.old : \E n \in Docs : u.by[n] = o
  BY <1>3, <1>4 DEF LinksSound
<1>11. LinksSound(u)
  BY <1>3, <1>6, <1>9, <1>10 DEF LinksSound
<1> QED BY <1>3, <1>4, <1>7, <1>8, <1>11

\* An amendment comes after every document of the same day that is stored
\* before it, and after every plain one.
LEMMA Preceding ==
    ASSUME NEW t, NEW o \in Docs, NEW n \in Docs, Doc[o].day <= Doc[n].day, Doc[n].amends,
           ~Doc[o].amends \/ t.num[o] < t.num[n]
    PROVE  Precedes(t, o, n)
<1>1. Doc[o].day \in Nat /\ Doc[n].day \in Nat /\ Doc[o].amends \in BOOLEAN /\ Doc[n].amends \in BOOLEAN
  BY InsiderAssumption
<1>2. CASE Doc[o].day < Doc[n].day
  BY <1>2 DEF Precedes
<1>3. CASE Doc[o].day = Doc[n].day
  <2>1. CASE ~Doc[o].amends
    BY <1>3, <2>1 DEF Precedes
  <2>2. CASE Doc[o].amends
    BY <1>1, <1>3, <2>2 DEF Precedes
  <2> QED BY <1>1, <2>1, <2>2
<1> QED BY <1>1, <1>2, <1>3

\* A link from what has none to what precedes it keeps the links sound.
LEMMA Linking ==
    ASSUME NEW t, LinksSound(t), NEW o \in Stored(t), NEW n \in Stored(t),
           t.by[n] = Nobody, Precedes(t, o, n)
    PROVE  /\ LinksSound(Mark(t, o, n))
           /\ Stored(Mark(t, o, n)) = Stored(t)
           /\ Mark(t, o, n).by = [t.by EXCEPT ![n] = o]
<1> DEFINE u == Mark(t, o, n)
<1>1. o \in Docs /\ n \in Docs /\ Nobody \notin Docs
  BY InsiderAssumption DEF Stored
<1>2. /\ t \in Table /\ u \in Table
      /\ u.num = t.num /\ u.rows = t.rows
      /\ u.by = [t.by EXCEPT ![n] = o] /\ u.old = t.old \union {o}
  BY <1>1 DEF LinksSound, Mark, Table
<1>3. Stored(u) = Stored(t)
  BY <1>2 DEF Stored
<1>4. \A m \in Docs : u.by[m] = IF m = n THEN o ELSE t.by[m]
  BY <1>2 DEF Table
<1> HIDE DEF u
<1>5. ASSUME NEW m \in Docs, u.by[m] # Nobody
      PROVE  m \in Stored(u) /\ u.by[m] \in u.old /\ Precedes(u, u.by[m], m)
  <2>1. CASE m = n
    BY <1>2, <1>3, <1>4, <2>1 DEF Precedes
  <2>2. CASE m # n
    BY <1>2, <1>3, <1>4, <1>5, <2>2 DEF LinksSound, Precedes
  <2> QED BY <2>1, <2>2
<1>6. ASSUME NEW p \in u.old PROVE \E m \in Docs : u.by[m] = p
  <2>1. CASE p = o
    BY <1>1, <1>4, <2>1
  <2>2. CASE p # o
    <3>1. p \in t.old /\ p # Nobody
      BY <1>1, <1>2, <2>2 DEF LinksSound, Stored
    <3>2. PICK m \in Docs : t.by[m] = p
      BY <3>1 DEF LinksSound
    <3> QED BY <1>4, <3>1, <3>2
  <2> QED BY <2>1, <2>2
<1>7. u.rows \subseteq Stored(u) /\ u.old \subseteq Stored(u) /\ \A m \in Docs : u.num[m] <= Cardinality(Stored(u))
  BY <1>2, <1>3 DEF LinksSound
<1>8. LinksSound(u)
  BY <1>2, <1>5, <1>6, <1>7 DEF LinksSound
<1> QED BY <1>2, <1>3, <1>8 DEF u

-----------------------------------------------------------------------------
\* _store_form4, whichever came first: the amendment links to a document that
\* is live, or an amendment without a link gets the form that arrives.
LEMMA StoringForm4 ==
    ASSUME NEW t, Form4Sound(t), NEW d \in Forms \ Stored(t)
    PROVE  Form4Sound(StoredForm4(t, d)) /\ Stored(StoredForm4(t, d)) = Stored(t) \union {d}
<1>1. d \in Docs \ Stored(t) /\ Nobody \notin Docs /\ Forms \subseteq Docs
  BY InsiderAssumption DEF Docs
<1> DEFINE u == WithRows(t, d, reading)
<1>2. /\ LinksSound(u)
      /\ Stored(u) = Stored(t) \union {d}
      /\ u.by = t.by /\ u.old = t.old
      /\ u.by[d] = Nobody /\ d \notin u.old
      /\ \A e \in Stored(t) : u.num[e] < u.num[d]
  BY <1>1, Adding DEF Form4Sound
<1>3. Form4Sound(WithoutRows(t, d)) /\ Stored(WithoutRows(t, d)) = Stored(t) \union {d}
  BY <1>1, Adding DEF Form4Sound
<1>4. u \in Table /\ Form4Sound(u)
  BY <1>2 DEF Form4Sound, LinksSound
<1> HIDE DEF u
<1>5. ASSUME NEW o \in Docs \ u.old, NEW n \in Docs, o \in Stored(u), n \in Stored(u),
             u.by[n] = Nobody, Precedes(u, o, n)
      PROVE  Form4Sound(Mark(u, o, n)) /\ Stored(Mark(u, o, n)) = Stored(u)
  <2>1. /\ LinksSound(Mark(u, o, n))
        /\ Stored(Mark(u, o, n)) = Stored(u)
        /\ Mark(u, o, n).by = [u.by EXCEPT ![n] = o]
    BY <1>2, <1>5, Linking
  <2>2. \A m \in Docs : Mark(u, o, n).by[m] = IF m = n THEN o ELSE u.by[m]
    BY <1>4, <2>1 DEF Table
  <2>3. \A m \in Docs : u.by[m] # o
    BY <1>1, <1>2, <1>5 DEF LinksSound
  <2>4. \A m, k \in Docs : Mark(u, o, n).by[m] = Mark(u, o, n).by[k] /\ Mark(u, o, n).by[m] # Nobody => m = k
    BY <1>4, <2>2, <2>3 DEF Form4Sound
  <2> QED BY <1>4, <2>1, <2>4 DEF Form4Sound
<1>6. ASSUME Doc[d].amends
      PROVE  Form4Sound(Supersede(u, d)) /\ Stored(Supersede(u, d)) = Stored(u)
  <2>1. CASE Replaced(u, d) = {}
    BY <1>4, <2>1 DEF Supersede
  <2>2. CASE Replaced(u, d) # {}
    <3> DEFINE o == Latest(u, Replaced(u, d))
    <3>1. \A e \in Replaced(u, d) : e \in (Forms \intersect u.rows) \ (u.old \union {d}) /\ Doc[e].day <= Doc[d].day
      <4>1. \E lower : Replaced(u, d) \subseteq Candidates(u, d, lower, Doc[d].day)
        BY Zenon DEF Replaced
      <4>2. \A e \in Docs : Doc[e].day \in Nat
        BY InsiderAssumption
      <4> QED BY <1>1, <4>1, <4>2 DEF Candidates, Between
    <3>2. o \in Replaced(u, d)
      BY <1>1, <1>4, <2>2, <3>1, LatestIn
    <3>3. o \in Docs \ u.old /\ o \in Stored(u) /\ o # d /\ Doc[o].day <= Doc[d].day
      BY <1>1, <1>2, <3>1, <3>2 DEF LinksSound
    <3>4. u.num[o] < u.num[d]
      BY <1>2, <3>3
    <3>5. Precedes(u, o, d)
      BY <1>1, <1>6, <3>3, <3>4, Preceding
    <3>6. Form4Sound(Mark(u, o, d)) /\ Stored(Mark(u, o, d)) = Stored(u)
      BY <1>1, <1>2, <1>5, <3>3, <3>5
    <3> QED BY <2>2, <3>6 DEF Supersede
  <2> QED BY <2>1, <2>2
<1>7. ASSUME ~Doc[d].amends
      PROVE  Form4Sound(SupersededOnArrival(u, d)) /\ Stored(SupersededOnArrival(u, d)) = Stored(u)
  <2>1. CASE Claimants(u, d) = {}
    BY <1>4, <2>1 DEF SupersededOnArrival
  <2>2. CASE Claimants(u, d) # {}
    <3> DEFINE e == Earliest(u, Claimants(u, d))
    <3>1. \A n \in Claimants(u, d) : n \in Forms \intersect u.rows /\ Doc[d].day <= Doc[n].day
                                    /\ Doc[n].amends /\ u.by[n] = Nobody
      <4>1. \A n \in Docs : Doc[n].day \in Nat
        BY InsiderAssumption
      <4> QED BY <1>1, <4>1, InsiderAssumption DEF Claimants, Candidates, Between
    <3>2. e \in Claimants(u, d)
      BY <1>1, <1>4, <2>2, <3>1, EarliestIn
    <3>3. e \in Docs /\ e \in Stored(u) /\ Doc[d].day <= Doc[e].day /\ Doc[e].amends /\ u.by[e] = Nobody
      BY <1>1, <1>2, <3>1, <3>2 DEF LinksSound
    <3>4. Precedes(u, d, e)
      BY <1>1, <1>7, <3>3, Preceding
    <3>5. Form4Sound(Mark(u, d, e)) /\ Stored(Mark(u, d, e)) = Stored(u)
      BY <1>1, <1>2, <1>5, <3>3, <3>4
    <3> QED BY <2>2, <3>5 DEF SupersededOnArrival
  <2> QED BY <2>1, <2>2
<1> QED BY <1>2, <1>3, <1>6, <1>7 DEF StoredForm4, u

\* _store_kap_filing and a page that cannot be normalised.
LEMMA StoringKap ==
    ASSUME NEW t, KapSound(t), NEW d \in Kap \ Stored(t), NEW v \in {StoredKap(t, d), WithoutRows(t, d)}
    PROVE  KapSound(v)
<1>1. d \in Docs \ Stored(t) /\ Nobody \notin Docs /\ Kap \subseteq Docs
  BY InsiderAssumption DEF Docs
<1> DEFINE u == WithRows(t, d, Nobody)
<1>2. /\ LinksSound(u)
      /\ Stored(u) = Stored(t) \union {d}
      /\ u.by = t.by /\ u.old = t.old
      /\ u.by[d] = Nobody /\ d \notin u.old
      /\ \A e \in Stored(t) : u.num[e] < u.num[d]
  BY <1>1, Adding DEF KapSound
<1>3. KapSound(WithoutRows(t, d))
  BY <1>1, Adding DEF KapSound
<1>4. u \in Table /\ KapSound(u)
  BY <1>2 DEF KapSound, LinksSound
<1> HIDE DEF u
<1>5. ASSUME NEW o \in Docs, NEW n \in Docs, o \in Stored(u), n \in Stored(u),
             u.by[n] = Nobody, Precedes(u, o, n), Doc[n].names \in {Nobody, o}
      PROVE  KapSound(Mark(u, o, n))
  <2>1. /\ LinksSound(Mark(u, o, n))
        /\ Stored(Mark(u, o, n)) = Stored(u)
        /\ Mark(u, o, n).by = [u.by EXCEPT ![n] = o]
    BY <1>2, <1>5, Linking
  <2>2. \A m \in Docs : Mark(u, o, n).by[m] = IF m = n THEN o ELSE u.by[m]
    BY <1>4, <2>1 DEF Table
  <2>3. \A m \in Docs : Mark(u, o, n).by[m] # Nobody /\ Doc[m].names # Nobody
                       => Mark(u, o, n).by[m] = Doc[m].names
    BY <1>4, <1>5, <2>2 DEF KapSound
  <2> QED BY <1>4, <2>1, <2>3 DEF KapSound
<1>6. ASSUME Doc[d].amends
      PROVE  KapSound(SupersedeKap(u, d))
  <2> DEFINE named == {e \in Stored(u) \ {d} : e = Doc[d].names}
             recent == KapFilingsOf(u, d, Doc[d].day - Reach, Doc[d].day)
             replaced == IF Doc[d].names = Nobody THEN recent ELSE named
             o == Latest(u, replaced)
  <2>1. CASE replaced = {}
    BY <1>4, <2>1 DEF SupersedeKap
  <2>2. CASE replaced # {}
    <3>1. ASSUME NEW e \in replaced
          PROVE  e \in Stored(u) \ {d} /\ Doc[e].day <= Doc[d].day /\ Doc[d].names \in {Nobody, e}
      <4>1. CASE Doc[d].names = Nobody
        <5>1. e \in KapFilingsOf(u, d, Doc[d].day - Reach, Doc[d].day)
          BY <3>1, <4>1
        <5>2. e \in u.rows \ {d} /\ e \in Kap /\ Between(e, Doc[d].day - Reach, Doc[d].day)
          BY <5>1 DEF KapFilingsOf
        <5>3. Doc[e].day \in Nat /\ Doc[d].day \in Nat /\ Reach \in Nat
          BY <1>1, <5>2, InsiderAssumption
        <5> QED BY <1>2, <4>1, <5>2, <5>3 DEF LinksSound, Between
      <4>2. CASE Doc[d].names # Nobody
        <5>1. e \in Stored(u) \ {d} /\ e = Doc[d].names
          BY <3>1, <4>2
        <5> QED BY <1>1, <4>2, <5>1, InsiderAssumption
      <4> QED BY <4>1, <4>2
    <3>2. replaced \in SUBSET Docs
      BY <3>1 DEF Stored
    <3> HIDE DEF replaced
    <3>3. o \in replaced
      BY <1>4, <2>2, <3>2, LatestIn
    <3>4. o \in Docs /\ o \in Stored(u) /\ o # d /\ Doc[o].day <= Doc[d].day /\ Doc[d].names \in {Nobody, o}
      BY <3>1, <3>2, <3>3
    <3>5. u.num[o] < u.num[d]
      BY <1>2, <3>4
    <3>6. Precedes(u, o, d)
      BY <1>1, <1>6, <3>4, <3>5, Preceding
    <3>7. KapSound(Mark(u, o, d))
      BY <1>1, <1>2, <1>5, <3>4, <3>6
    <3>8. SupersedeKap(u, d) = Mark(u, o, d)
      BY <2>2 DEF SupersedeKap, replaced
    <3> QED BY <3>7, <3>8
  <2> QED BY <2>1, <2>2
<1>7. ASSUME ~Doc[d].amends
      PROVE  KapSound(KapSupersededOnArrival(u, d))
  <2> DEFINE e == Earliest(u, KapClaimants(u, d))
  <2>1. CASE KapClaimants(u, d) = {}
    BY <1>4, <2>1 DEF KapSupersededOnArrival
  <2>2. CASE KapClaimants(u, d) # {}
    <3>1. ASSUME NEW n \in KapClaimants(u, d)
          PROVE  /\ n \in Stored(u) /\ n \in Docs /\ Doc[d].day <= Doc[n].day /\ Doc[n].amends
                 /\ Doc[n].names \in {Nobody, d} /\ u.by[n] = Nobody
      <4>1. /\ n \in u.rows /\ n \in Kap /\ Between(n, Doc[d].day, Doc[d].day + Reach) /\ Doc[n].amends
            /\ Doc[n].names = d \/ (Doc[n].names = Nobody /\ u.by[n] = Nobody)
        BY <3>1 DEF KapClaimants, KapFilingsOf
      <4>2. Doc[n].day \in Nat /\ Doc[d].day \in Nat /\ Reach \in Nat
        BY <1>1, <4>1, InsiderAssumption
      <4>3. Doc[n].names = d => u.by[n] = Nobody
        BY <1>1, <1>2, <1>4, <4>1 DEF KapSound, LinksSound
      <4> QED BY <1>1, <1>2, <4>1, <4>2, <4>3 DEF LinksSound, Between
    <3>2. e \in KapClaimants(u, d)
      BY <1>4, <2>2, <3>1, EarliestIn
    <3>3. Precedes(u, d, e)
      BY <1>1, <1>7, <3>1, <3>2, Preceding
    <3>4. KapSound(Mark(u, d, e))
      BY <1>1, <1>2, <1>5, <3>1, <3>2, <3>3
    <3> QED BY <2>2, <3>4 DEF KapSupersededOnArrival
  <2> QED BY <2>1, <2>2
<1> QED BY <1>3, <1>6, <1>7 DEF StoredKap, u

-----------------------------------------------------------------------------
\* The empty table is sound.
LEMMA EmptySound == Form4Sound(Empty) /\ KapSound(Empty)
<1>1. Empty \in Table /\ Stored(Empty) = {}
  BY InsiderAssumption DEF Empty, Table, Stored
<1>2. Cardinality(Stored(Empty)) = 0
  BY <1>1, FS_EmptySet
<1>3. /\ \A n \in Docs : Empty.num[n] = 0 /\ Empty.by[n] = Nobody
      /\ Empty.rows = {} /\ Empty.old = {}
  BY DEF Empty
<1>4. LinksSound(Empty)
  BY <1>1, <1>2, <1>3 DEF LinksSound
<1> QED BY <1>1, <1>3, <1>4 DEF Form4Sound, KapSound

\* The links are sound and no listed document that is stored is read again, at
\* every step of a run, whatever fails.
THEOREM Inductive == Spec => []IInv
<1>1. Init => IInv
  BY EmptySound DEF Init, IInv
<1>2. IInv /\ [Next]_vars => IInv'
  <2> SUFFICES ASSUME IInv, [Next]_vars PROVE IInv'
    OBVIOUS
  <2> USE DEF IInv
  <2>1. CASE UNCHANGED vars
    BY <2>1 DEF vars, Stored
  <2>2. ASSUME NEW d \in due, File(d) PROVE IInv'
    BY <2>2 DEF File, secVars, Stored
  <2>3. ASSUME NEW d \in Kap, RefreshKap(d) PROVE IInv'
    <3>1. d \in Kap \ Stored(kap) /\ kap' \in {StoredKap(kap, d), WithoutRows(kap, d)}
      BY <2>3 DEF RefreshKap
    <3>2. KapSound(kap')
      BY <3>1, StoringKap
    <3>3. UNCHANGED <<table, committed, todo>>
      BY <2>3 DEF RefreshKap, secVars
    <3> QED BY <3>2, <3>3 DEF Stored
  <2>4. ASSUME NEW learned, Refresh(learned) PROVE IInv'
    BY <2>4 DEF Refresh, Stored
  <2>5. ASSUME NEW learned, NEW c, RefreshSymbol(c, learned) PROVE IInv'
    BY <2>5 DEF RefreshSymbol, Stored
  <2>6. CASE OpenIssuer
    <3>1. UNCHANGED <<table, committed, kap>> /\ todo' = Listing(reading') \ Stored(table)
      BY <2>6 DEF OpenIssuer
    <3>2. Listing(reading') \subseteq Forms
      BY DEF Listing
    <3> QED BY <3>1, <3>2 DEF Stored
  <2>7. CASE ReadForm4
    <3> DEFINE d == Oldest(todo)
    <3>1. /\ table' = StoredForm4(table, d) /\ todo' = todo \ {d}
          /\ todo # {} /\ UNCHANGED <<committed, kap>>
      BY <2>7 DEF ReadForm4
    <3>2. d \in todo
      BY <3>1, OldestIn
    <3>3. Form4Sound(StoredForm4(table, d)) /\ Stored(StoredForm4(table, d)) = Stored(table) \union {d}
      BY <3>2, StoringForm4
    <3>4. Form4Sound(table') /\ Stored(table') = Stored(table) \union {d}
      BY <3>1, <3>3
    <3>5. todo' \subseteq Forms \ Stored(table')
      BY <3>1, <3>4
    <3> QED BY <3>1, <3>4, <3>5
  <2>8. CASE PassForm4
    BY <2>8 DEF PassForm4, Stored
  <2>9. CASE CloseIssuer
    BY <2>9 DEF CloseIssuer, Stored
  <2>10. ASSUME RollBack PROVE IInv'
    BY <2>10 DEF RollBack, Stored
  <2>11. CASE SkipIssuer
    BY <2>10, <2>11 DEF SkipIssuer
  <2>12. CASE StopRun
    BY <2>10, <2>12 DEF StopRun
  <2> QED BY <2>1, <2>2, <2>3, <2>4, <2>5, <2>6, <2>7, <2>8, <2>9, <2>11, <2>12 DEF Next
<1> QED BY <1>1, <1>2, PTL DEF Spec

\* Links along an order of the documents reach one that nothing supersedes.
LEMMA Ending ==
    ASSUME NEW t, LinksSound(t), NEW S \in SUBSET Stored(t), S # {}
    PROVE  \E o \in S : \A n \in S : ~Supersedes(t, n, o)
<1> DEFINE R == {p \in S \X S : Precedes(t, p[1], p[2])}
<1>1. IsFiniteSet(S) /\ S \subseteq Docs
  BY InsiderAssumption, FS_Subset DEF Stored
<1>2. \A x \in S : Doc[x].day \in Nat /\ Doc[x].amends \in BOOLEAN /\ t.num[x] \in Nat
  BY <1>1, InsiderAssumption DEF LinksSound, Table
<1>3. \A x, y \in S : <<x, y>> \in R <=> Precedes(t, x, y)
  OBVIOUS
<1> HIDE DEF R
<1>4. \A x \in S : <<x, x>> \notin R
  BY <1>2, <1>3 DEF Precedes
<1>5. \A x, y, z \in S : <<x, y>> \in R /\ <<y, z>> \in R => <<x, z>> \in R
  BY <1>2, <1>3 DEF Precedes
<1>6. PICK o \in S : \A n \in S : <<o, n>> \notin R
  BY <1>1, <1>4, <1>5, Maximal
<1>7. ASSUME NEW n \in S, t.by[n] = o PROVE FALSE
  <2>1. Precedes(t, o, n)
    BY <1>1, <1>7, InsiderAssumption DEF LinksSound
  <2> QED BY <1>3, <1>6, <2>1
<1> QED BY <1>6, <1>7 DEF Supersedes

\* A flagged disclosure was superseded by a stored one, and the links from it
\* end at one that is not flagged, whatever order documents arrive in.
THEOREM NothingIsLost == Spec => []NothingLost
<1>1. ASSUME NEW t, LinksSound(t)
      PROVE  /\ t.old = {t.by[n] : n \in Stored(t)} \ {Nobody}
             /\ \A S \in SUBSET Stored(t) : S # {} => \E o \in S : \A n \in S : ~Supersedes(t, n, o)
  <2>1. \A o \in t.old : o \in {t.by[n] : n \in Stored(t)} \ {Nobody}
    BY <1>1, InsiderAssumption DEF LinksSound, Stored
  <2>2. \A n \in Stored(t) : t.by[n] # Nobody => t.by[n] \in t.old
    BY <1>1 DEF LinksSound, Stored
  <2> QED BY <1>1, <2>1, <2>2, Ending
<1>2. IInv => NothingLost
  BY <1>1 DEF IInv, Form4Sound, KapSound, NothingLost
<1> QED BY <1>2, Inductive, PTL

\* Two Form 4 documents never supersede the same one, in either side of a
\* savepoint: an amendment that is superseded takes its own original with it.
THEOREM NoneReplacedTwice == Spec => []ReplacedOnce
<1>1. IInv => ReplacedOnce
  BY InsiderAssumption DEF IInv, Form4Sound, ReplacedOnce, Supersedes, Docs
<1> QED BY <1>1, Inductive, PTL

\* Together: the links of the amendments lose no filing and replace none twice
\* (_supersede_original, _superseded_on_arrival).
THEOREM LinksAreKept == Spec => []LinksKept
<1>1. NothingLost /\ ReplacedOnce => LinksKept
  BY DEF LinksKept
<1> QED BY <1>1, NothingIsLost, NoneReplacedTwice, PTL

-----------------------------------------------------------------------------
\* A run always has a class to ask for next: the one it asks for before every other.
LEMMA NextClassIn ==
    ASSUME TypeOK, batch # {}
    PROVE  /\ NextClass(batch) \in batch
           /\ \A e \in batch \ {NextClass(batch)} : AskedBefore(NextClass(batch), e)
<1> DEFINE R == {p \in batch \X batch : AskedBefore(p[2], p[1])}
<1>1. IsFiniteSet(batch)
  BY InsiderAssumption, FS_Subset DEF TypeOK
<1>2. Cardinality(Classes) \in Nat
  BY InsiderAssumption, FS_CardinalityType
<1>3. \A x \in batch : x \in Int /\ fetched[x] \in Int
  BY <1>2, InsiderAssumption DEF TypeOK
<1>4. \A x, y \in batch : <<x, y>> \in R <=> AskedBefore(y, x)
  OBVIOUS
<1> HIDE DEF R
<1>5. /\ \A x \in batch : <<x, x>> \notin R
      /\ \A x, y, z \in batch : <<x, y>> \in R /\ <<y, z>> \in R => <<x, z>> \in R
  BY <1>3, <1>4 DEF AskedBefore
<1>6. PICK f \in batch : \A g \in batch : <<f, g>> \notin R
  BY <1>1, <1>5, Maximal
<1>7. ASSUME NEW g \in batch \ {f} PROVE AskedBefore(f, g)
  <2>1. ~AskedBefore(g, f)
    BY <1>4, <1>6
  <2>2. f \in Int /\ g \in Int /\ f # g /\ fetched[f] \in Int /\ fetched[g] \in Int
    BY <1>3
  <2>3. CASE scheduled /\ fetched[f] # fetched[g]
    BY <2>1, <2>2, <2>3 DEF AskedBefore
  <2>4. CASE ~(scheduled /\ fetched[f] # fetched[g])
    BY <2>1, <2>2, <2>4 DEF AskedBefore
  <2> QED BY <2>3, <2>4
<1>8. \E c \in batch : \A e \in batch \ {c} : AskedBefore(c, e)
  BY <1>7
<1> QED BY <1>8, Zenon DEF NextClass

\* There are no more ranks than classes.
LEMMA RankedType ==
    ASSUME NEW times
    PROVE  Ranked(times) \in [Classes -> 0..Cardinality(Classes)]
<1>1. IsFiniteSet(Classes) /\ Cardinality(Classes) \in Nat
  BY InsiderAssumption, FS_CardinalityType
<1>2. ASSUME NEW c \in Classes
      PROVE  Cardinality({times[e] : e \in {e \in Classes : times[e] \in 1..times[c]}}) \in 0..Cardinality(Classes)
  <2> DEFINE E == {e \in Classes : times[e] \in 1..times[c]}
             f == [e \in E |-> times[e]]
  <2>1. IsFiniteSet(E) /\ Cardinality(E) <= Cardinality(Classes) /\ Cardinality(E) \in Nat
    BY <1>1, FS_Subset, FS_CardinalityType
  <2> HIDE DEF E
  <2>2. {times[e] : e \in E} = {f[e] : e \in E}
    OBVIOUS
  <2>3. f \in Surjection(E, {times[e] : e \in E})
    BY DEF Surjection
  <2>4. /\ IsFiniteSet({times[e] : e \in E})
        /\ Cardinality({times[e] : e \in E}) <= Cardinality(E)
    BY <2>1, <2>3, FS_Surjection
  <2>5. Cardinality({times[e] : e \in E}) \in Nat
    BY <2>4, FS_CardinalityType
  <2>6. Cardinality({times[e] : e \in E}) \in 0..Cardinality(Classes)
    BY <1>1, <2>1, <2>4, <2>5
  <2> QED BY <2>6, Zenon DEF E
<1>3. 0 \in 0..Cardinality(Classes)
  BY <1>1
<1> QED BY <1>2, <1>3, Zenon DEF Ranked

\* Type correctness; outside a savepoint the session holds what is committed.
THEOREM TypeCorrect == Spec => []TypeOK
<1>1. Nobody \notin Issuers /\ Cardinality(Classes) \in Nat /\ CikOf \in [Classes -> Issuers]
  BY InsiderAssumption, FS_CardinalityType
<1>2. Init => TypeOK
  <2>1. Empty \in Table
    BY EmptySound DEF Form4Sound, LinksSound
  <2>2. /\ [c \in Classes |-> 0] \in [Classes -> 0..Cardinality(Classes)]
        /\ [i \in Issuers |-> {}] \in [Issuers -> SUBSET Issuers]
    BY <1>1
  <2>3. Init => /\ fetched \in [Classes -> 0..Cardinality(Classes)]
                /\ owed \in [Issuers -> SUBSET Issuers]
    BY <2>2 DEF Init
  <2> QED BY <2>1, <2>3 DEF Init, TypeOK
<1>3. TypeOK /\ IInv /\ IInv' /\ [Next]_vars => TypeOK'
  <2> SUFFICES ASSUME TypeOK, IInv', [Next]_vars PROVE TypeOK'
    OBVIOUS
  <2> USE DEF TypeOK
  <2>1. table' \in Table /\ committed' \in Table /\ kap' \in Table
    BY DEF IInv, Form4Sound, KapSound, LinksSound
  <2>2. CASE UNCHANGED vars
    BY <2>2 DEF vars
  <2>3. ASSUME NEW d \in due, File(d) PROVE TypeOK'
    BY <2>3 DEF File, secVars, runVars
  <2>4. ASSUME NEW d \in Kap, RefreshKap(d) PROVE TypeOK'
    BY <2>1, <2>4 DEF RefreshKap, secVars, runVars
  <2>5. ASSUME NEW learned \in SUBSET (followed \ mapped), MapCiks(learned)
        PROVE  mapped' \subseteq Classes /\ owed' \in [Issuers -> SUBSET Issuers]
    BY <2>5 DEF MapCiks
  <2>6. ASSUME NEW learned \in SUBSET (followed \ mapped), Refresh(learned) PROVE TypeOK'
    <3>1. /\ mapped' \subseteq Classes /\ owed' \in [Issuers -> SUBSET Issuers]
          /\ scheduled' \in BOOLEAN /\ batch' \subseteq Classes
      BY <2>5, <2>6 DEF Refresh, Universe
    <3> QED BY <2>6, <3>1 DEF Refresh
  <2>7. ASSUME NEW learned \in SUBSET (followed \ mapped), NEW c \in followed, RefreshSymbol(c, learned)
        PROVE  TypeOK'
    <3>1. /\ mapped' \subseteq Classes /\ owed' \in [Issuers -> SUBSET Issuers]
          /\ scheduled' \in BOOLEAN /\ batch' \subseteq Classes
      BY <2>5, <2>7 DEF RefreshSymbol
    <3> QED BY <2>7, <3>1 DEF RefreshSymbol
  <2>8. CASE OpenIssuer
    <3>1. NextClass(batch) \in Classes
      BY <2>8, NextClassIn DEF OpenIssuer
    <3>2. reading' \in Issuers /\ reading' # Nobody
      BY <1>1, <2>8, <3>1 DEF OpenIssuer
    <3>3. todo' \subseteq Forms
      BY <2>8 DEF OpenIssuer, Listing
    <3>4. owed' \in [Issuers -> SUBSET Issuers]
      BY <2>8 DEF OpenIssuer
    <3> QED BY <2>8, <3>2, <3>3, <3>4 DEF OpenIssuer, runVars
  <2>9. CASE ReadForm4
    BY <2>1, <2>9 DEF ReadForm4, runVars
  <2>10. CASE PassForm4
    BY <2>10 DEF PassForm4, runVars
  <2>11. CASE CloseIssuer
    <3>1. fetched' \in [Classes -> 0..Cardinality(Classes)]
      BY <2>11, RankedType DEF CloseIssuer
    <3>2. {CikOf[c] : c \in followed \intersect mapped} \ {reading} \subseteq Issuers
      BY <1>1
    <3>3. owed' \in [Issuers -> SUBSET Issuers]
      BY <2>11, <3>2 DEF CloseIssuer
    <3> QED BY <2>1, <2>11, <3>1, <3>3 DEF CloseIssuer, runVars
  <2>12. ASSUME RollBack, batch' \subseteq Classes PROVE TypeOK'
    BY <2>1, <2>12 DEF RollBack, runVars
  <2>13. CASE SkipIssuer
    BY <2>12, <2>13 DEF SkipIssuer
  <2>14. CASE StopRun
    BY <2>12, <2>14 DEF StopRun
  <2> QED BY <2>2, <2>3, <2>4, <2>6, <2>7, <2>8, <2>9, <2>10, <2>11, <2>13, <2>14 DEF Next
<1> QED BY <1>2, <1>3, Inductive, PTL DEF Spec

-----------------------------------------------------------------------------
\* The order of the runs.

\* Ranks keep the order of the times they stand for.
LEMMA RankedRises ==
    ASSUME NEW times \in [Classes -> Nat], NEW c \in Classes, NEW e \in Classes, times[c] < times[e]
    PROVE  Ranked(times)[c] < Ranked(times)[e]
<1> DEFINE E(x) == {y \in Classes : times[y] \in 1..times[x]}
           T(x) == {times[y] : y \in E(x)}
<1>1. ASSUME NEW x \in Classes
      PROVE  Ranked(times)[x] = Cardinality(T(x)) /\ IsFiniteSet(T(x)) /\ Cardinality(T(x)) \in Nat
  <2>1. IsFiniteSet(E(x))
    BY InsiderAssumption, FS_Subset
  <2>2. IsFiniteSet(T(x))
    <3> DEFINE S == E(x)
               f == [y \in S |-> times[y]]
    <3>1. IsFiniteSet(S)
      BY <2>1
    <3> HIDE DEF S
    <3>2. f \in Surjection(S, {times[y] : y \in S})
      BY DEF Surjection
    <3>3. IsFiniteSet({times[y] : y \in S})
      BY <3>1, <3>2, FS_Surjection
    <3> QED BY <3>3, Zenon DEF S
  <2>3. times[x] = 0 => T(x) = {}
    OBVIOUS
  <2>4. Ranked(times)[x] = IF times[x] = 0 THEN 0 ELSE Cardinality(T(x))
    BY Zenon DEF Ranked
  <2>5. Cardinality({}) = 0
    BY FS_EmptySet
  <2>6. Ranked(times)[x] = Cardinality(T(x))
    BY <2>3, <2>4, <2>5
  <2> QED BY <2>2, <2>6, FS_CardinalityType
<1>2. T(c) \subseteq T(e)
  OBVIOUS
<1>3. times[e] \in T(e) /\ times[e] \notin T(c)
  OBVIOUS
<1>4. Cardinality(T(c)) <= Cardinality(T(e)) /\ Cardinality(T(c)) # Cardinality(T(e))
  <2> DEFINE A == T(c)
             B == T(e)
  <2>1. IsFiniteSet(B) /\ A \subseteq B /\ A # B
    BY <1>1, <1>2, <1>3
  <2> HIDE DEF A, B
  <2>2. Cardinality(A) <= Cardinality(B) /\ Cardinality(A) # Cardinality(B)
    BY <2>1, FS_Subset
  <2> QED BY <2>2, Zenon DEF A, B
<1> HIDE DEF T
<1> QED BY <1>1, <1>4

\* A class fetched before one the universe takes is taken too.
LEMMA UniverseDown ==
    ASSUME NEW cs \in SUBSET Classes, fetched \in [Classes -> Nat],
           NEW e \in Universe(cs), NEW c \in cs, fetched[c] < fetched[e]
    PROVE  c \in Universe(cs)
<1> DEFINE Ahead(x) == {y \in cs : fetched[y] < fetched[x] \/ (fetched[y] = fetched[x] /\ y < x)}
<1>1. Cardinality(Ahead(e)) < Cap /\ e \in cs
  BY DEF Universe
<1>2. Ahead(c) \subseteq Ahead(e)
  <2>1. \A y \in cs : y \in Nat /\ fetched[y] \in Nat
    BY InsiderAssumption
  <2>2. e \in cs
    BY <1>1
  <2> QED BY <2>1, <2>2
<1>3. IsFiniteSet(Ahead(e))
  BY InsiderAssumption, FS_Subset
<1>4. Cardinality(Ahead(c)) < Cap
  <2> DEFINE A == Ahead(c)
             B == Ahead(e)
  <2>1. IsFiniteSet(B) /\ A \in SUBSET B /\ Cardinality(B) < Cap
    BY <1>1, <1>2, <1>3, Zenon
  <2> HIDE DEF A, B
  <2>2. Cardinality(A) <= Cardinality(B) /\ Cardinality(A) \in Nat /\ Cardinality(B) \in Nat
    BY <2>1, FS_Subset, FS_CardinalityType
  <2>3. Cardinality(A) < Cap
    BY <2>1, <2>2, InsiderAssumption
  <2> QED BY <2>3, Zenon DEF A
<1> QED BY <1>4, Zenon DEF Universe

\* An issuer that was not asked since i was last read has a followed class that was
\* fetched before every class of i.
OwedSound ==
    \A i, j \in Issuers : j \in owed[i] =>
        /\ j # i
        /\ \E c \in followed \intersect mapped :
              CikOf[c] = j /\ \A e \in mapped : CikOf[e] = i => fetched[c] < fetched[e]

\* A scheduled run that holds a class holds one of every issuer that is owed a turn
\* before it; the issuer being read is owed none.
RunSound ==
    /\ batch \subseteq followed \intersect mapped
    /\ reading # Nobody =>
          batch # {} /\ reading = CikOf[NextClass(batch)] /\ \A i \in Issuers : reading \notin owed[i]
    /\ scheduled => \A e \in batch : \A j \in owed[CikOf[e]] :
                        \E c \in batch : CikOf[c] = j /\ fetched[c] < fetched[e]

RoundInv == OwedSound /\ RunSound /\ RoundRobin

LEMMA MapRound ==
    ASSUME TypeOK, OwedSound, UNCHANGED <<followed, fetched>>,
           NEW learned \in SUBSET (followed \ mapped), MapCiks(learned)
    PROVE  OwedSound'
<1>1. \A i \in Issuers : owed'[i] = IF \E c \in learned : CikOf[c] = i THEN {} ELSE owed[i]
  BY DEF MapCiks
<1>2. mapped' = mapped \union learned /\ followed' = followed /\ fetched' = fetched
  BY DEF MapCiks
<1>3. SUFFICES ASSUME NEW i \in Issuers, NEW j \in Issuers, j \in owed'[i]
               PROVE  /\ j # i
                      /\ \E c \in followed \intersect mapped' :
                            CikOf[c] = j /\ \A e \in mapped' : CikOf[e] = i => fetched[c] < fetched[e]
  BY <1>2 DEF OwedSound
<1>4. j \in owed[i] /\ \A c \in learned : CikOf[c] # i
  BY <1>1, <1>3
<1>5. j # i
  BY <1>4 DEF OwedSound
<1>6. PICK c \in followed \intersect mapped :
          CikOf[c] = j /\ \A e \in mapped : CikOf[e] = i => fetched[c] < fetched[e]
  BY <1>4 DEF OwedSound
<1> QED BY <1>2, <1>4, <1>5, <1>6

\* A scheduled run asks for the stalest classes, so for those that are owed first.
LEMMA RefreshRound ==
    ASSUME TypeOK, RoundInv, NEW learned \in SUBSET (followed \ mapped), Refresh(learned)
    PROVE  RoundInv'
<1>1. /\ MapCiks(learned) /\ UNCHANGED <<followed, fetched, reading>> /\ reading = Nobody
      /\ batch' = Universe(followed \intersect mapped')
  BY DEF Refresh, RunOver
<1>2. OwedSound'
  BY <1>1, MapRound DEF RoundInv
<1>3. mapped' \subseteq Classes /\ followed \subseteq Classes /\ Cardinality(Classes) \in Nat
  BY <1>1, InsiderAssumption, FS_CardinalityType DEF MapCiks, TypeOK
<1>4. fetched \in [Classes -> Nat]
  BY <1>3 DEF TypeOK
<1>5. batch' \subseteq followed \intersect mapped'
  BY <1>1 DEF Universe
<1>6. ASSUME NEW e \in batch', NEW j \in owed'[CikOf[e]]
      PROVE  \E c \in batch' : CikOf[c] = j /\ fetched[c] < fetched[e]
  <2>1. CikOf[e] \in Issuers /\ e \in mapped'
    BY <1>3, <1>5, InsiderAssumption
  <2>2. j \in Issuers
    BY <1>1, <1>6, <2>1 DEF MapCiks, TypeOK
  <2>3. PICK c \in followed \intersect mapped' :
            CikOf[c] = j /\ \A x \in mapped' : CikOf[x] = CikOf[e] => fetched[c] < fetched[x]
    <3>1. OwedSound' => \A i, k \in Issuers : k \in owed'[i] =>
              \E c \in followed \intersect mapped' :
                 CikOf[c] = k /\ \A x \in mapped' : CikOf[x] = i => fetched[c] < fetched[x]
      BY <1>1 DEF OwedSound
    <3> QED BY <1>2, <1>6, <2>1, <2>2, <3>1
  <2>4. fetched[c] < fetched[e]
    BY <2>1, <2>3
  <2>5. c \in Universe(followed \intersect mapped')
    <3> DEFINE cs == followed \intersect mapped'
    <3>1. cs \in SUBSET Classes /\ e \in Universe(cs) /\ c \in cs
      BY <1>1, <1>3, <2>3
    <3> HIDE DEF cs
    <3>2. c \in Universe(cs)
      BY <1>4, <2>4, <3>1, UniverseDown
    <3> QED BY <3>2 DEF cs
  <2> QED BY <1>1, <2>3, <2>4, <2>5
<1>7. RunSound'
  <2>1. reading' = Nobody /\ batch' \subseteq followed' \intersect mapped'
    BY <1>1, <1>5
  <2>2. \A e \in batch' : \A j \in owed'[CikOf[e]] :
            \E c \in batch' : CikOf[c] = j /\ fetched'[c] < fetched'[e]
    BY <1>1, <1>6
  <2> QED BY <2>1, <2>2 DEF RunSound
<1>8. RoundRobin'
  BY <1>1 DEF RoundRobin
<1> QED BY <1>2, <1>7, <1>8 DEF RoundInv

\* The class asked for next is of an issuer that nobody is owed a turn before.
LEMMA OpenRound ==
    ASSUME TypeOK, RoundInv, OpenIssuer
    PROVE  RoundInv'
<1> DEFINE n == NextClass(batch)
<1>1. /\ batch # {} /\ reading' = CikOf[n]
      /\ owed' = [i \in Issuers |-> owed[i] \ {reading'}]
      /\ UNCHANGED <<followed, mapped, fetched, batch, scheduled>>
  BY DEF OpenIssuer, runVars
<1>2. n \in batch /\ \A e \in batch \ {n} : AskedBefore(n, e)
  BY <1>1, NextClassIn
<1>3. CikOf[n] \in Issuers /\ batch \subseteq Classes
  BY <1>2, InsiderAssumption DEF TypeOK
<1>4. \A i \in Issuers : owed'[i] \subseteq owed[i] /\ reading' \notin owed'[i]
  BY <1>1
<1>5. OwedSound'
  BY <1>1, <1>4 DEF RoundInv, OwedSound
<1>6. ASSUME scheduled, NEW e \in batch, NEW j \in owed'[CikOf[e]]
      PROVE  \E c \in batch : CikOf[c] = j /\ fetched[c] < fetched[e]
  <2>1. j \in owed[CikOf[e]]
    BY <1>3, <1>4, <1>6, InsiderAssumption
  <2> QED BY <1>6, <2>1 DEF RoundInv, RunSound
<1>7. scheduled => owed'[reading'] = {}
  <2>1. SUFFICES ASSUME scheduled, NEW j \in owed'[reading'] PROVE FALSE
    OBVIOUS
  <2>2. PICK c \in batch : fetched[c] < fetched[n]
    BY <1>1, <1>2, <1>6, <2>1
  <2>3. fetched[c] \in Int /\ fetched[n] \in Int
    <3>1. Cardinality(Classes) \in Nat
      BY InsiderAssumption, FS_CardinalityType
    <3> QED BY <1>2, <1>3, <3>1 DEF TypeOK
  <2> QED BY <1>2, <2>1, <2>2, <2>3 DEF AskedBefore
<1>8. NextClass(batch)' = n
  BY <1>1 DEF NextClass, AskedBefore
<1>9. RunSound'
  <2>1. batch' \subseteq followed' \intersect mapped'
    BY <1>1 DEF RoundInv, RunSound
  <2>2. batch' # {} /\ reading' = CikOf[NextClass(batch)'] /\ \A i \in Issuers : reading' \notin owed'[i]
    BY <1>1, <1>4, <1>8
  <2>3. scheduled' => \A e \in batch' : \A j \in owed'[CikOf[e]] :
                         \E c \in batch' : CikOf[c] = j /\ fetched'[c] < fetched'[e]
    BY <1>1, <1>6
  <2> QED BY <2>1, <2>2, <2>3 DEF RunSound
<1> QED BY <1>1, <1>5, <1>7, <1>9 DEF RoundInv, RoundRobin

\* Reading an issuer puts its classes behind every other issuer's.
LEMMA CloseRound ==
    ASSUME TypeOK, RoundInv, CloseIssuer
    PROVE  RoundInv'
<1> DEFINE top == Cardinality(Classes) + 1
           times == [c \in Classes |-> IF c \in Classed(reading) THEN top ELSE fetched[c]]
<1>1. /\ reading # Nobody /\ fetched' = Ranked(times)
      /\ owed' = [owed EXCEPT ![reading] = {CikOf[c] : c \in followed \intersect mapped} \ {reading}]
      /\ batch' = {c \in batch : CikOf[c] # reading}
      /\ reading' = Nobody
      /\ UNCHANGED <<followed, mapped, scheduled>>
  BY DEF CloseIssuer, runVars
<1>2. /\ Cardinality(Classes) \in Nat /\ mapped \subseteq Classes /\ followed \subseteq Classes
      /\ reading \in Issuers /\ batch \subseteq Classes /\ owed \in [Issuers -> SUBSET Issuers]
      /\ fetched \in [Classes -> 0..Cardinality(Classes)] /\ CikOf \in [Classes -> Issuers]
  BY <1>1, InsiderAssumption, FS_CardinalityType DEF TypeOK
<1>3. times \in [Classes -> Nat]
  BY <1>2
<1>4. \A c \in Classes : CikOf[c] # reading => times[c] = fetched[c] /\ times[c] < top
  BY <1>2 DEF Classed
<1>5. \A c \in mapped : CikOf[c] = reading => times[c] = top
  BY <1>2 DEF Classed
<1> HIDE DEF times, top
<1>6. \A c, e \in Classes : times[c] < times[e] => fetched'[c] < fetched'[e]
  BY <1>1, <1>3, RankedRises
<1>7. \A i \in Issuers : reading \notin owed[i]
  BY <1>1 DEF RoundInv, RunSound
<1>8. OwedSound'
  <2>1. SUFFICES ASSUME NEW i \in Issuers, NEW j \in Issuers, j \in owed'[i]
                 PROVE  /\ j # i
                        /\ \E c \in followed \intersect mapped :
                              CikOf[c] = j /\ \A e \in mapped : CikOf[e] = i => fetched'[c] < fetched'[e]
    BY <1>1 DEF OwedSound
  <2>2. CASE i = reading
    <3>1. PICK c \in followed \intersect mapped : CikOf[c] = j
      BY <1>1, <1>2, <2>1, <2>2
    <3>2. j # reading
      BY <1>1, <1>2, <2>1, <2>2
    <3>3. \A e \in mapped : CikOf[e] = reading => times[c] < times[e]
      BY <1>2, <1>4, <1>5, <3>1, <3>2
    <3> QED BY <1>2, <1>6, <2>2, <3>1, <3>2, <3>3
  <2>3. CASE i # reading
    <3>1. j \in owed[i] /\ j # reading
      BY <1>1, <1>2, <1>7, <2>1, <2>3
    <3>2. j # i
      BY <3>1 DEF RoundInv, OwedSound
    <3>3. PICK c \in followed \intersect mapped :
              CikOf[c] = j /\ \A e \in mapped : CikOf[e] = i => fetched[c] < fetched[e]
      BY <3>1 DEF RoundInv, OwedSound
    <3>4. \A e \in mapped : CikOf[e] = i => times[c] < times[e]
      BY <1>2, <1>4, <2>3, <3>1, <3>3
    <3> QED BY <1>2, <1>6, <3>2, <3>3, <3>4
  <2> QED BY <2>2, <2>3
<1>9. ASSUME scheduled, NEW e \in batch', NEW j \in owed'[CikOf[e]]
      PROVE  \E c \in batch' : CikOf[c] = j /\ fetched'[c] < fetched'[e]
  <2>1. e \in batch /\ CikOf[e] # reading /\ CikOf[e] \in Issuers /\ e \in Classes
    BY <1>1, <1>2
  <2>2. j \in owed[CikOf[e]] /\ j # reading
    BY <1>1, <1>2, <1>7, <1>9, <2>1
  <2>3. PICK c \in batch : CikOf[c] = j /\ fetched[c] < fetched[e]
    BY <1>9, <2>1, <2>2 DEF RoundInv, RunSound
  <2>4. times[c] < times[e]
    BY <1>2, <1>4, <2>1, <2>2, <2>3
  <2> QED BY <1>1, <1>2, <1>6, <2>1, <2>2, <2>3, <2>4
<1>10. RunSound'
  <2>1. batch' \subseteq followed \intersect mapped
    BY <1>1 DEF RoundInv, RunSound
  <2> QED BY <1>1, <1>9, <2>1 DEF RunSound
<1> QED BY <1>1, <1>8, <1>10 DEF RoundInv, RoundRobin

\* A savepoint that is undone gives a turn to nobody: the class it was for, which no one
\* waits for, leaves the run, or the run ends.
LEMMA RollBackRound ==
    ASSUME TypeOK, RoundInv, RollBack, SkipIssuer \/ StopRun
    PROVE  RoundInv'
<1>1. reading' = Nobody /\ UNCHANGED <<followed, mapped, fetched, owed, scheduled>> /\ batch' \subseteq batch
  BY DEF RollBack, SkipIssuer, StopRun, runVars
<1>2. OwedSound'
  BY <1>1 DEF RoundInv, OwedSound
<1>3. ASSUME scheduled, NEW e \in batch', NEW j \in owed[CikOf[e]]
      PROVE  \E c \in batch' : CikOf[c] = j /\ fetched[c] < fetched[e]
  <2>1. CASE StopRun
    BY <1>3, <2>1 DEF StopRun
  <2>2. CASE SkipIssuer
    <3>1. PICK c \in batch : CikOf[c] = j /\ fetched[c] < fetched[e]
      BY <1>1, <1>3 DEF RoundInv, RunSound
    <3>2. CikOf[e] \in Issuers
      BY <1>1, InsiderAssumption DEF TypeOK
    <3>3. reading = CikOf[NextClass(batch)] /\ reading \notin owed[CikOf[e]]
      BY <2>2, <3>2 DEF SkipIssuer, RoundInv, RunSound
    <3>4. c \in batch'
      BY <1>3, <2>2, <3>1, <3>3 DEF SkipIssuer
    <3> QED BY <3>1, <3>4
  <2> QED BY <2>1, <2>2
<1>4. RunSound'
  <2>1. batch' \subseteq followed \intersect mapped
    BY <1>1 DEF RoundInv, RunSound
  <2> QED BY <1>1, <1>3, <2>1 DEF RunSound
<1> QED BY <1>1, <1>2, <1>4 DEF RoundInv, RoundRobin

\* The scheduler reads no issuer again while another one it knew is owed its turn, whatever
\* the cap, the symbols asked for in between, skipped issuers and stopped runs.
THEOREM RunsTakeTurns == Spec => []RoundRobin
<1>1. Init => RoundInv
  BY DEF Init, RoundInv, OwedSound, RunSound, RoundRobin
<1>2. TypeOK /\ RoundInv /\ [Next]_vars => RoundInv'
  <2> SUFFICES ASSUME TypeOK, RoundInv, [Next]_vars PROVE RoundInv'
    OBVIOUS
  <2>1. CASE UNCHANGED <<followed, mapped, fetched, batch, scheduled, reading, owed>>
    <3>1. NextClass(batch)' = NextClass(batch)
      BY <2>1 DEF NextClass, AskedBefore
    <3>2. OwedSound' /\ RoundRobin'
      BY <2>1 DEF RoundInv, OwedSound, RoundRobin
    <3>3. RunSound'
      BY <2>1, <3>1 DEF RoundInv, RunSound
    <3> QED BY <3>2, <3>3 DEF RoundInv
  <2>2. ASSUME NEW learned \in SUBSET (followed \ mapped), Refresh(learned) PROVE RoundInv'
    BY <2>2, RefreshRound
  <2>3. ASSUME NEW learned \in SUBSET (followed \ mapped), NEW c \in followed, RefreshSymbol(c, learned)
        PROVE  RoundInv'
    <3>1. /\ MapCiks(learned) /\ UNCHANGED <<followed, fetched, reading>> /\ reading = Nobody
          /\ scheduled' = FALSE /\ batch' = {c} \intersect mapped'
      BY <2>3 DEF RefreshSymbol, RunOver
    <3>2. OwedSound'
      BY <3>1, MapRound DEF RoundInv
    <3> QED BY <3>1, <3>2 DEF RoundInv, RunSound, RoundRobin
  <2>4. CASE OpenIssuer
    BY <2>4, OpenRound
  <2>5. CASE CloseIssuer
    BY <2>5, CloseRound
  <2>6. CASE SkipIssuer \/ StopRun
    BY <2>6, RollBackRound DEF SkipIssuer, StopRun
  <2>7. ASSUME NEW d \in due, File(d) PROVE RoundInv'
    BY <2>1, <2>7 DEF File, secVars, runVars
  <2>8. ASSUME NEW d \in Kap, RefreshKap(d) PROVE RoundInv'
    BY <2>1, <2>8 DEF RefreshKap, secVars, runVars
  <2>9. CASE ReadForm4 \/ PassForm4 \/ UNCHANGED vars
    BY <2>1, <2>9 DEF ReadForm4, PassForm4, vars, runVars
  <2> QED BY <2>2, <2>3, <2>4, <2>5, <2>6, <2>7, <2>8, <2>9 DEF Next
<1>3. RoundInv => RoundRobin
  BY DEF RoundInv
<1> QED BY <1>1, <1>2, <1>3, TypeCorrect, PTL DEF Spec

-----------------------------------------------------------------------------
\* Reading KAP.

Sorts == {"pys", "report", "person"}
Owner(s) == IF s = "person" THEN "insiders" ELSE "ingest"

Steps == {"idle", "list", "rows", "page", "api rows"}
Reads == [step : Steps, sort : Sorts, known : SUBSET Filings, todo : SUBSET Filings, tries : Nat, cursor : Nat, last : Nat]

\* Types, and the API is started only while it is the adapter.
FetchTypeOK ==
    /\ adapter \in {"public", "api"} /\ (adapter = "public" => began = 0)
    /\ published \in 0 .. Cardinality(Filings) /\ since \in Nat \ {0} /\ began \in Nat
    /\ kept \in SUBSET (1 .. published) /\ \A x \in kept : Sort[x] \in Sorts
    /\ faults \in [Sorts -> Nat] /\ ahead \in [Filings -> Nat] /\ passed \in [Filings -> Nat]
    /\ reads \in [Jobs -> Reads]

\* A run through the website tries what was listed and is not stored; the ingest job's was begun
\* before the API, and no other run of that job begins until it is over.
PublicRun(j, r) ==
    r.step \in {"list", "rows"} =>
      /\ Owner(r.sort) = j
      /\ j = "ingest" => began = 0
      /\ r.step = "list" => \A x \in kept : Sort[x] = r.sort => x \in r.known
      /\ r.sort = "pys" => \A x \in kept : Sort[x] = "report" => x \in r.known
      /\ r.step = "rows" => \A x \in r.todo : x \in 1 .. published /\ Sort[x] = r.sort /\ x \notin kept

\* Below a cursor of the API nothing readable is left that no person's filing hides, of what it
\* has begun with.
ReadBelow(c) == began > 0 => \A x \in MissedBelow(c) : \E z \in kept : Sort[z] = "person" /\ z > x

\* A run through the API reads on from a cursor with nothing readable below, or is out of calls.
ApiRun(j, r) ==
    r.step \in {"page", "api rows"} =>
      /\ j = "ingest"
      /\ r.known \subseteq kept /\ r.cursor > 0 /\ r.last <= published
      /\ r.tries >= MaxCalls \/ ReadBelow(r.cursor)
      /\ r.step = "api rows" => \E h \in r.cursor .. published : r.todo = r.cursor .. h

\* The rows of a list that a run has not tried yet, and its tries while x is one of them.
TodoOf(s, r) == IF r.step = "rows" /\ r.sort = s THEN r.todo ELSE {}
Todo(s) == TodoOf(s, reads[Owner(s)])
Waited(x) == IF x \in Todo(Sort[x]) THEN reads[Owner(Sort[x])].tries ELSE 0

\* The filings that come before x: unread, and in the window or listed with x.
Before(x) == {y \in 1 .. x - 1 : Sort[y] = Sort[x] /\ y \notin kept /\ (y >= since \/ {x, y} \subseteq Todo(Sort[x]))}

\* What a filing was passed over for, what it waits for, and what is unread before it.
Balanced(x) ==
    passed[x] * PageCap[Sort[x]] + Waited(x) + Cardinality(Before(x)) <= ahead[x] + faults[Sort[x]]

Listed == {x \in 1 .. published : Sort[x] \in Sorts}
Accounted == (\A x \in Listed : Balanced(x)) /\ (\A x \in Filings \ Listed : passed[x] = 0)

FetchInv ==
    /\ FetchTypeOK
    /\ \A j \in Jobs : PublicRun(j, reads[j]) /\ ApiRun(j, reads[j])
    /\ Accounted /\ NoGap

-----------------------------------------------------------------------------

LEMMA FilingRange ==
    /\ Cardinality(Filings) \in Nat /\ Filings = 1 .. Cardinality(Filings)
    /\ \A s \in Sorts : PageCap[s] \in Nat \ {0}
    /\ \A x \in Filings : Sort[x] \in Sorts \/ Sort[x] = "other"
    /\ MaxCalls \in Nat /\ StartBack \in Nat /\ PageSize \in Nat \ {0}
<1>1. Cardinality(Filings) \in Nat
  BY KapFetchAssumption, FS_CardinalityType
<1>2. \A s \in Sorts : PageCap[s] \in Nat \ {0}
  BY KapFetchAssumption DEF Sorts
<1>3. \A x \in Filings : Sort[x] \in Sorts \/ Sort[x] = "other"
  BY KapFetchAssumption DEF Sorts
<1> QED BY <1>1, <1>2, <1>3, KapFetchAssumption

LEMMA IndexesFinite == ASSUME NEW n \in Nat, NEW S \in SUBSET (1 .. n) PROVE IsFiniteSet(S) /\ Cardinality(S) \in Nat
<1>1. IsFiniteSet(1 .. n)
  BY FS_Interval
<1> QED BY <1>1, FS_Subset, FS_CardinalityType

LEMMA BeforeCard ==
    ASSUME NEW x \in Filings
    PROVE  /\ IsFiniteSet(Before(x)) /\ Cardinality(Before(x)) \in Nat
           /\ \A S : S \subseteq Before(x) => Cardinality(S) <= Cardinality(Before(x)) /\ Cardinality(S) \in Nat
           /\ \A S, y : S \subseteq Before(x) \ {y} /\ y \in Before(x) => Cardinality(S) + 1 <= Cardinality(Before(x)) /\ Cardinality(S) \in Nat
<1>1. x \in Nat /\ x - 1 \in Nat
  BY FilingRange
<1>2. Before(x) \in SUBSET (1 .. x - 1)
  BY DEF Before
<1>3. IsFiniteSet(Before(x)) /\ Cardinality(Before(x)) \in Nat
  BY <1>1, <1>2, IndexesFinite
<1>4. ASSUME NEW S, S \subseteq Before(x) PROVE Cardinality(S) <= Cardinality(Before(x)) /\ Cardinality(S) \in Nat
  BY <1>3, <1>4, FS_Subset, FS_CardinalityType
<1>5. ASSUME NEW S, NEW y, S \subseteq Before(x) \ {y}, y \in Before(x)
      PROVE  Cardinality(S) + 1 <= Cardinality(Before(x)) /\ Cardinality(S) \in Nat
  <2>1. IsFiniteSet(Before(x) \ {y}) /\ Cardinality(Before(x) \ {y}) = Cardinality(Before(x)) - 1
    BY <1>3, <1>5, FS_RemoveElement
  <2>2. Cardinality(S) <= Cardinality(Before(x) \ {y}) /\ Cardinality(S) \in Nat
    BY <1>5, <2>1, FS_Subset, FS_CardinalityType
  <2> QED BY ONLY <1>3, <2>1, <2>2
<1> QED BY <1>3, <1>4, <1>5

\* The first row, if there is one.
LEMMA FirstRow ==
    ASSUME NEW S \in SUBSET Nat, S # {}
    PROVE  Min(S) \in S /\ \A y \in S : Min(S) <= y
<1>1. PICK x \in S : \A y \in S : <<y, x>> \notin OpToRel(<, Nat)
  BY NatLessThanWellFounded, WFMin
<1>2. \A y \in S : ~ (y < x)
  BY <1>1 DEF OpToRel
<1>3. \A y \in S : x <= y
  BY <1>2
<1> QED BY <1>3 DEF Min

\* The last of some indexes.
LEMMA LastRow ==
    ASSUME NEW n \in Nat, NEW S \in SUBSET (0 .. n), S # {}
    PROVE  Max(S) \in S /\ \A y \in S : y <= Max(S)
<1> DEFINE T == {n - y : y \in S}
<1>1. T \in SUBSET Nat /\ T # {}
  <2>1. \A y \in S : y \in Int /\ 0 <= y /\ y <= n
    OBVIOUS
  <2>2. \A y \in S : n - y \in Nat
    BY <2>1
  <2> QED BY <2>2
<1>2. Min(T) \in T /\ \A y \in T : Min(T) <= y
  <2> HIDE DEF T
  <2> QED BY <1>1, FirstRow
<1>3. PICK x \in S : \A y \in S : n - x <= n - y
  BY <1>2
<1>4. \A y \in S : y <= x
  BY <1>3
<1> QED BY <1>4 DEF Max

\* What the counts are made of.
LEMMA FetchFacts ==
    ASSUME FetchInv
    PROVE  /\ published \in Nat /\ since \in Nat /\ began \in Nat /\ 1 .. published \subseteq Filings
           /\ \A x \in Filings : x \in Nat /\ x > 0 /\ passed[x] \in Nat /\ ahead[x] \in Nat
           /\ \A s \in Sorts : faults[s] \in Nat /\ PageCap[s] \in Nat \ {0} /\ Owner(s) \in Jobs
           /\ \A j \in Jobs : reads[j] \in Reads
           /\ \A x \in kept : x \in 1 .. published /\ x \in Filings /\ Sort[x] \in Sorts
<1>1. FetchTypeOK
  BY DEF FetchInv
<1>2. published \in Nat /\ since \in Nat /\ began \in Nat
  BY <1>1, FilingRange DEF FetchTypeOK
<1>3. published <= Cardinality(Filings) /\ Cardinality(Filings) \in Nat /\ Filings = 1 .. Cardinality(Filings)
  BY <1>1, FilingRange DEF FetchTypeOK
<1>4. 1 .. published \subseteq Filings /\ \A x \in Filings : x \in Nat /\ x > 0
  <2> DEFINE n == Cardinality(Filings)
  <2>1. \A x \in 1 .. published : x \in 1 .. n
    BY ONLY <1>2, <1>3
  <2> QED BY <2>1, <1>3
<1>5. \A x \in Filings : passed[x] \in Nat /\ ahead[x] \in Nat
  BY <1>1 DEF FetchTypeOK
<1>6. \A s \in Sorts : faults[s] \in Nat /\ PageCap[s] \in Nat \ {0} /\ Owner(s) \in Jobs
  BY <1>1, FilingRange DEF FetchTypeOK, Owner, Jobs
<1>7. \A j \in Jobs : reads[j] \in Reads
  BY <1>1 DEF FetchTypeOK
<1>8. \A x \in kept : x \in 1 .. published /\ Sort[x] \in Sorts
  BY <1>1 DEF FetchTypeOK
<1> QED BY <1>2, <1>4, <1>5, <1>6, <1>7, <1>8

\* The parts of the balance of a filing.
LEMMA Parts ==
    ASSUME FetchInv, NEW x \in Filings, x \in Listed
    PROVE  /\ Sort[x] \in Sorts /\ passed[x] \in Nat /\ PageCap[Sort[x]] \in Nat
           /\ passed[x] * PageCap[Sort[x]] \in Nat
           /\ Waited(x) \in Nat /\ Cardinality(Before(x)) \in Nat
           /\ ahead[x] \in Nat /\ faults[Sort[x]] \in Nat
           /\ Balanced(x)
<1>1. Sort[x] \in Sorts /\ passed[x] \in Nat /\ PageCap[Sort[x]] \in Nat /\ ahead[x] \in Nat /\ faults[Sort[x]] \in Nat
  BY FetchFacts DEF Listed
<1>2. passed[x] * PageCap[Sort[x]] \in Nat
  BY ONLY <1>1
<1>3. Waited(x) \in Nat
  BY <1>1, FetchFacts DEF Waited, Reads
<1>4. Cardinality(Before(x)) \in Nat
  BY BeforeCard
<1>5. Balanced(x)
  BY DEF FetchInv, Accounted
<1> QED BY <1>1, <1>2, <1>3, <1>4, <1>5

\* A filing keeps its balance while no more comes before it and it waits no longer.
LEMMA KeepsBalance ==
    ASSUME FetchInv, NEW x \in Filings, x \in Listed,
           passed'[x] = passed[x], ahead'[x] = ahead[x],
           faults'[Sort[x]] \in Nat, faults'[Sort[x]] >= faults[Sort[x]],
           Before(x)' \subseteq Before(x), Waited(x)' \in Nat, Waited(x)' <= Waited(x)
    PROVE  Balanced(x)'
<1>1. Cardinality(Before(x)') <= Cardinality(Before(x)) /\ Cardinality(Before(x)') \in Nat
  BY BeforeCard
<1>2. /\ passed[x] * PageCap[Sort[x]] \in Nat
      /\ Waited(x) \in Nat /\ Cardinality(Before(x)) \in Nat
      /\ ahead[x] \in Nat /\ faults[Sort[x]] \in Nat
  BY Parts
<1>3. passed[x] * PageCap[Sort[x]] + Waited(x) + Cardinality(Before(x)) <= ahead[x] + faults[Sort[x]]
  BY Parts DEF Balanced
<1> DEFINE p == passed[x] * PageCap[Sort[x]]
<1>4. p + Waited(x)' + Cardinality(Before(x)') <= ahead[x] + faults'[Sort[x]]
  <2> HIDE DEF p
  <2>1. p \in Nat /\ p + Waited(x) + Cardinality(Before(x)) <= ahead[x] + faults[Sort[x]]
    BY <1>2, <1>3 DEF p
  <2>2. faults'[Sort[x]] \in Nat /\ faults'[Sort[x]] >= faults[Sort[x]] /\ Waited(x)' \in Nat /\ Waited(x)' <= Waited(x)
    OBVIOUS
  <2> QED BY ONLY <1>1, <1>2, <2>1, <2>2
<1>5. passed'[x] * PageCap[Sort[x]] + Waited(x)' + Cardinality(Before(x)') <= ahead'[x] + faults'[Sort[x]]
  BY <1>4
<1> QED BY <1>5 DEF Balanced

\* What is read below a cursor stays so.
LEMMA ReadStays ==
    ASSUME NEW c, ReadBelow(c), began' = began, kept \subseteq kept'
    PROVE  ReadBelow(c)'
BY DEF ReadBelow, MissedBelow

\* The runs stay sound while none goes on and nothing is stored.
LEMMA RunsUntouched ==
    ASSUME FetchInv, UNCHANGED <<published, kept, reads>>, began' \in {began, 0}
    PROVE  \A i \in Jobs : PublicRun(i, reads[i])' /\ ApiRun(i, reads[i])'
<1> SUFFICES ASSUME NEW i \in Jobs PROVE PublicRun(i, reads[i])' /\ ApiRun(i, reads[i])'
  OBVIOUS
<1>1. PICK r : r = reads[i] /\ r = reads'[i]
  OBVIOUS
<1>2. PublicRun(i, r) /\ ApiRun(i, r)
  BY <1>1 DEF FetchInv
<1>3. PublicRun(i, r)'
  BY <1>2 DEF PublicRun
<1>4. ReadBelow(r.cursor) => ReadBelow(r.cursor)'
  <2>1. CASE began' = began
    BY <2>1, ReadStays
  <2>2. CASE began' = 0
    BY <2>2 DEF ReadBelow
  <2> QED BY <2>1, <2>2
<1>5. ApiRun(i, r)'
  BY <1>2, <1>4 DEF ApiRun
<1>6. reads[i]' = r
  BY <1>1
<1>7. PublicRun(i, reads[i])'
  BY <1>3, <1>6 DEF PublicRun
<1>8. ApiRun(i, reads[i])'
  BY <1>5, <1>6 DEF ApiRun, ReadBelow, MissedBelow
<1> QED BY <1>7, <1>8

\* The runs of both jobs stay sound when one goes on and stores, if anything, filings of its own.
LEMMA RunsStaySound ==
    ASSUME FetchInv, NEW j \in Jobs, NEW r \in Reads, GoesOn(j, r),
           adapter' = adapter, published' = published,
           began' = began \/ j = "ingest",
           kept \subseteq kept', \A x \in kept' \ kept : Owner(Sort[x]) = j,
           PublicRun(j, r)', ApiRun(j, r)'
    PROVE  \A i \in Jobs : PublicRun(i, reads[i])' /\ ApiRun(i, reads[i])'
<1> SUFFICES ASSUME NEW i \in Jobs PROVE PublicRun(i, reads[i])' /\ ApiRun(i, reads[i])'
  OBVIOUS
<1>1. reads \in [Jobs -> Reads] /\ PublicRun(i, reads[i]) /\ ApiRun(i, reads[i])
  BY DEF FetchInv, FetchTypeOK
<1>2. reads' = [reads EXCEPT ![j] = r]
  BY DEF GoesOn
<1>3. CASE i = j
  <2>1. reads'[i] = r
    BY <1>1, <1>2, <1>3
  <2>2. PublicRun(i, reads[i])'
    BY <1>3, <2>1 DEF PublicRun
  <2>3. ApiRun(i, reads[i])'
    BY <1>3, <2>1 DEF ApiRun, ReadBelow, MissedBelow
  <2> QED BY <2>2, <2>3
<1>4. CASE i # j
  <2>1. reads'[i] = reads[i]
    BY <1>1, <1>2, <1>4
  <2>2. \A x \in kept' : x \in kept \/ Owner(Sort[x]) # i
    BY <1>4
  <2>3. PublicRun(i, reads[i])'
    <3> SUFFICES ASSUME reads[i].step \in {"list", "rows"}
                 PROVE  PublicRun(i, reads[i])'
      BY <2>1 DEF PublicRun
    <3>1. Owner(reads[i].sort) = i /\ (i = "ingest" => began' = 0)
      BY <1>1, <1>4 DEF PublicRun
    <3>2. \A x \in kept' : Sort[x] = reads[i].sort => x \in kept
      BY <2>2, <3>1
    <3>3. reads[i].step = "list" => \A x \in kept' : Sort[x] = reads[i].sort => x \in reads[i].known
      BY <1>1, <3>2 DEF PublicRun
    <3>4. reads[i].sort = "pys" => \A x \in kept' : Sort[x] = "report" => x \in reads[i].known
      BY <1>1, <2>2, <3>1 DEF PublicRun, Owner
    <3>5. reads[i].step = "rows" => \A x \in reads[i].todo : x \in 1 .. published' /\ Sort[x] = reads[i].sort /\ x \notin kept'
      BY <1>1, <3>2 DEF PublicRun
    <3> QED BY <2>1, <3>1, <3>3, <3>4, <3>5 DEF PublicRun
  <2>4. ApiRun(i, reads[i])'
    <3> SUFFICES ASSUME reads[i].step \in {"page", "api rows"}
                 PROVE  ApiRun(i, reads[i])'
      BY <2>1 DEF ApiRun
    <3>1. i = "ingest" /\ began' = began
      BY <1>1, <1>4 DEF ApiRun
    <3>2. PICK q : q = reads[i]
      OBVIOUS
    <3>3. q.tries >= MaxCalls \/ ReadBelow(q.cursor)
      BY <1>1, <3>2 DEF ApiRun
    <3>4. q.tries >= MaxCalls \/ ReadBelow(q.cursor)'
      BY <3>1, <3>3, ReadStays
    <3>5. ApiRun(i, q)'
      BY <1>1, <3>1, <3>2, <3>4 DEF ApiRun
    <3> QED BY <2>1, <3>2, <3>5 DEF ApiRun, ReadBelow, MissedBelow
  <2> QED BY <2>3, <2>4
<1> QED BY <1>3, <1>4

\* A step of a run that passes nothing over: it starts, lists or reads on, and may store a filing of its own.
LEMMA StoresOn ==
    ASSUME FetchInv, NEW j \in Jobs, NEW r \in Reads, GoesOn(j, r),
           UNCHANGED <<adapter, published, since, faults, ahead, passed>>, NoGap',
           kept \subseteq kept', \A x \in kept' \ kept : x \in 1 .. published /\ Sort[x] \in Sorts /\ Owner(Sort[x]) = j,
           began' \in Nat, adapter = "public" => began' = 0, began' = began \/ j = "ingest",
           PublicRun(j, r)', ApiRun(j, r)',
           r.step = "rows" => r.tries = 0 /\ \A y \in r.todo : y >= since
    PROVE  FetchInv'
<1>1. reads' = [reads EXCEPT ![j] = r] /\ reads \in [Jobs -> Reads]
  BY DEF GoesOn, FetchInv, FetchTypeOK
<1>2. FetchTypeOK'
  <2>1. reads' \in [Jobs -> Reads]
    BY <1>1
  <2>2. kept' \in SUBSET (1 .. published) /\ \A x \in kept' : Sort[x] \in Sorts
    BY FetchFacts
  <2> QED BY <2>1, <2>2 DEF FetchInv, FetchTypeOK
<1>3. \A i \in Jobs : PublicRun(i, reads[i])' /\ ApiRun(i, reads[i])'
  BY RunsStaySound
<1>4. Listed' = Listed
  BY DEF Listed
<1>5. ASSUME NEW x \in Filings, x \in Listed PROVE Balanced(x)'
  <2>1. Sort[x] \in Sorts /\ Owner(Sort[x]) \in Jobs
    BY <1>5, FetchFacts DEF Listed
  <2>2. CASE Owner(Sort[x]) = j
    <3>1. reads'[Owner(Sort[x])] = r
      BY <1>1, <2>2
    <3>2. Waited(x)' = 0
      BY <3>1 DEF Waited, Todo, TodoOf
    <3>3. Before(x)' \subseteq Before(x)
      BY <3>1 DEF Before, Todo, TodoOf
    <3>4. faults'[Sort[x]] \in Nat /\ faults'[Sort[x]] >= faults[Sort[x]] /\ Waited(x) \in Nat
      BY <1>5, Parts
    <3>5. Waited(x)' \in Nat /\ Waited(x)' <= Waited(x)
      BY ONLY <3>2, <3>4
    <3> QED BY <1>5, <3>3, <3>4, <3>5, KeepsBalance
  <2>3. CASE Owner(Sort[x]) # j
    <3>1. reads'[Owner(Sort[x])] = reads[Owner(Sort[x])]
      BY <1>1, <2>1, <2>3
    <3>2. Waited(x)' = Waited(x) /\ Before(x)' \subseteq Before(x)
      BY <3>1 DEF Waited, Before, Todo, TodoOf
    <3>3. faults'[Sort[x]] \in Nat /\ faults'[Sort[x]] >= faults[Sort[x]] /\ Waited(x) \in Nat
      BY <1>5, Parts
    <3>4. Waited(x)' \in Nat /\ Waited(x)' <= Waited(x)
      BY ONLY <3>2, <3>3
    <3> QED BY <1>5, <3>2, <3>3, <3>4, KeepsBalance
  <2> QED BY <2>2, <2>3
<1>6. Accounted'
  <2>1. Listed \subseteq Filings
    BY FetchFacts DEF Listed
  <2> QED BY <1>4, <1>5, <2>1 DEF Accounted, FetchInv
<1> QED BY <1>2, <1>3, <1>6 DEF FetchInv

\* ... and one that stores nothing.
LEMMA RunsOn ==
    ASSUME FetchInv, NEW j \in Jobs, NEW r \in Reads, GoesOn(j, r),
           UNCHANGED <<adapter, published, since, kept, began, faults, ahead, passed>>,
           PublicRun(j, r)', ApiRun(j, r)',
           r.step = "rows" => r.tries = 0 /\ \A y \in r.todo : y >= since
    PROVE  FetchInv'
<1>1. NoGap'
  BY DEF NoGap, MissedBelow, FetchInv
<1>2. kept \subseteq kept' /\ \A x \in kept' \ kept : FALSE
  OBVIOUS
<1>3. began' \in Nat /\ (adapter = "public" => began' = 0)
  BY DEF FetchInv, FetchTypeOK
<1> QED BY <1>1, <1>2, <1>3, StoresOn

\* A filing is published.
LEMMA PublishKeeps == ASSUME FetchInv, Publish PROVE FetchInv'
<1>0. PICK n : n = published + 1
  OBVIOUS
<1>1. n = published + 1 /\ n \in Filings /\ published' = n /\ UNCHANGED <<adapter, since, kept, reads, began, faults, passed>>
  BY <1>0 DEF Publish
<1>2. FetchTypeOK /\ published \in Nat /\ since \in Nat
  BY FetchFacts DEF FetchInv
<1>3. \A x \in 1 .. n : x \in 1 .. published \/ x = n
  BY ONLY <1>1, <1>2
<1>4. \A x \in 1 .. published : x \in 1 .. n /\ x # n
  BY ONLY <1>1, <1>2
<1>5. \A x \in Filings : x # n => ahead'[x] = ahead[x]
  BY <1>1, <1>2 DEF Publish, FetchTypeOK
<1>6. Sort[n] \in Sorts => ahead'[n] = Cardinality(Unread(Sort[n]))
  <2>1. Sort[n] \in Sorts => Sort[n] # "other"
    BY DEF Sorts
  <2>2. ahead \in [Filings -> Nat]
    BY <1>2 DEF FetchTypeOK
  <2>3. Sort[n] # "other" => ahead' = [ahead EXCEPT ![n] = Cardinality(Unread(Sort[n]))]
    BY <1>1 DEF Publish
  <2> QED BY <1>1, <2>1, <2>2, <2>3
<1>7. Sort[n] \in Sorts => Unread(Sort[n]) = Before(n)' /\ Waited(n)' = 0
  <2> SUFFICES ASSUME Sort[n] \in Sorts PROVE Unread(Sort[n]) = Before(n)' /\ Waited(n)' = 0
    OBVIOUS
  <2>1. n \notin Todo(Sort[n])
    <3>1. PICK j \in Jobs : j = Owner(Sort[n]) /\ PublicRun(j, reads[j])
      BY FetchFacts DEF FetchInv
    <3>2. reads[j].step = "rows" => \A y \in reads[j].todo : y \in 1 .. published
      BY <3>1 DEF PublicRun
    <3>3. ~ (n \in 1 .. published)
      BY ONLY <1>4
    <3> QED BY <3>1, <3>2, <3>3 DEF Todo, TodoOf
  <2>2. n \notin Todo(Sort[n])'
    BY <1>1, <2>1 DEF Todo, TodoOf
  <2>3. \A y \in Int : y \in 1 .. n - 1 /\ y >= since <=> y \in since .. published
    BY <1>1, <1>2, FetchFacts DEF FetchTypeOK
  <2>4. Before(n)' = {y \in 1 .. n - 1 : Sort[y] = Sort[n] /\ y \notin kept /\ y >= since}
    BY <1>1, <2>2 DEF Before
  <2>5. Before(n)' = {y \in since .. published : Sort[y] = Sort[n] /\ y \notin kept}
    BY <2>3, <2>4
  <2>6. Waited(n)' = 0
    BY <2>2 DEF Waited
  <2> QED BY <2>5, <2>6 DEF Unread
<1>8. Sort[n] \in Sorts => Balanced(n)'
  <2> SUFFICES ASSUME Sort[n] \in Sorts PROVE Balanced(n)'
    OBVIOUS
  <2>1. n \notin Listed
    <3>1. ~ (n \in 1 .. published)
      BY ONLY <1>1, <1>2
    <3> QED BY <3>1 DEF Listed
  <2>2. passed'[n] = 0
    BY <1>1, <2>1 DEF FetchInv, Accounted
  <2>3. ahead'[n] = Cardinality(Before(n)') /\ Waited(n)' = 0
    BY <1>6, <1>7
  <2>4. Cardinality(Before(n)') \in Nat
    <3>1. Before(n)' \subseteq 1 .. n - 1 /\ n - 1 \in Nat
      BY <1>1, <1>2 DEF Before
    <3> QED BY <3>1, IndexesFinite
  <2>5. faults'[Sort[n]] \in Nat /\ PageCap[Sort[n]] \in Nat
    BY <1>1, FetchFacts
  <2>6. 0 * PageCap[Sort[n]] = 0
    BY ONLY <2>5
  <2>7. passed'[n] * PageCap[Sort[n]] + Waited(n)' + Cardinality(Before(n)') <= ahead'[n] + faults'[Sort[n]]
    <3> DEFINE k == Cardinality(Before(n)')
               g == faults'[Sort[n]]
    <3>1. k \in Nat /\ g \in Nat
      BY <2>4, <2>5
    <3> HIDE DEF k, g
    <3>2. 0 + 0 + k <= k + g
      BY ONLY <3>1
    <3> QED BY <2>2, <2>3, <2>6, <3>2 DEF k, g
  <2> QED BY <2>7 DEF Balanced
<1>9. ASSUME NEW x \in Filings, x \in Listed PROVE Balanced(x)'
  <2>1. x # n
    BY <1>4, <1>9 DEF Listed
  <2>2. passed'[x] = passed[x] /\ ahead'[x] = ahead[x]
    BY <1>1, <1>5, <2>1
  <2>3. Before(x)' = Before(x) /\ Waited(x)' = Waited(x)
    BY <1>1 DEF Before, Waited, Todo, TodoOf
  <2>4. faults'[Sort[x]] \in Nat /\ faults'[Sort[x]] >= faults[Sort[x]] /\ Waited(x) \in Nat
    BY <1>1, <1>9, Parts
  <2>5. Waited(x)' \in Nat /\ Waited(x)' <= Waited(x)
    BY ONLY <2>3, <2>4
  <2> QED BY <1>9, <2>2, <2>3, <2>4, <2>5, KeepsBalance
<1>10. Accounted'
  <2>1. Listed \subseteq Listed' /\ Listed' \subseteq Listed \cup {n} /\ Listed' \subseteq Filings
    <3>1. Listed' \subseteq Filings
      BY <1>1, <1>3, FetchFacts DEF Listed
    <3> QED BY <1>1, <1>3, <1>4, <3>1 DEF Listed
  <2>2. ASSUME NEW x \in Listed' PROVE Balanced(x)'
    <3>1. x \in Filings /\ (x \in Listed \/ (x = n /\ Sort[n] \in Sorts))
      BY <2>1, <2>2 DEF Listed
    <3>2. PICK m : m = n
      OBVIOUS
    <3>3. CASE x \in Listed
      BY <1>9, <3>1, <3>3
    <3>4. CASE x = n /\ Sort[n] \in Sorts
      BY <1>8, <3>4
    <3> QED BY <3>1, <3>3, <3>4
  <2>3. \A x \in Filings \ Listed' : passed'[x] = 0
    BY <1>1, <2>1 DEF FetchInv, Accounted
  <2> QED BY <2>2, <2>3 DEF Accounted
<1>11. FetchTypeOK'
  <2>1. published' \in 0 .. Cardinality(Filings)
    BY <1>1, <1>2, FilingRange
  <2>2. kept' \in SUBSET (1 .. published')
    BY <1>1, <1>2, <1>4, FetchFacts
  <2>3. \A s : Cardinality(Unread(s)) \in Nat
    <3>1. \A s : Unread(s) \in SUBSET (1 .. published)
      BY <1>2, FetchFacts DEF Unread, FetchTypeOK
    <3> QED BY <1>2, <3>1, IndexesFinite
  <2>4. ahead' \in [Filings -> Nat]
    BY <1>1, <1>2, <2>3 DEF FetchTypeOK, Publish
  <2> QED BY <1>1, <1>2, <2>1, <2>2, <2>4 DEF FetchTypeOK
<1>12. ASSUME NEW i \in Jobs PROVE PublicRun(i, reads[i])' /\ ApiRun(i, reads[i])'
  <2>1. PublicRun(i, reads[i]) /\ ApiRun(i, reads[i]) /\ reads[i] \in Reads
    BY FetchFacts DEF FetchInv
  <2>2. PublicRun(i, reads[i])'
    BY <1>1, <1>4, <2>1 DEF PublicRun
  <2>3. PICK r : r = reads[i] /\ r = reads'[i]
    BY <1>1
  <2>4. r.tries >= MaxCalls \/ ReadBelow(r.cursor) => r.tries >= MaxCalls \/ ReadBelow(r.cursor)'
    BY <1>1, ReadStays
  <2>5. r.last <= published => r.last <= published'
    BY <1>1, <1>2, <2>1, <2>3 DEF Reads
  <2>6. r.cursor .. published \subseteq r.cursor .. published'
    BY <1>1, <1>2, <2>1, <2>3 DEF Reads
  <2>7. ApiRun(i, r)'
    BY <1>1, <2>1, <2>3, <2>4, <2>5, <2>6 DEF ApiRun
  <2>8. ApiRun(i, reads[i])'
    BY <2>3, <2>7 DEF ApiRun, ReadBelow, MissedBelow
  <2> QED BY <2>2, <2>8
<1>13. NoGap'
  BY <1>1 DEF NoGap, MissedBelow, FetchInv
<1> QED BY <1>10, <1>11, <1>12, <1>13 DEF FetchInv

\* A day goes by.
LEMMA WindowKeeps == ASSUME FetchInv, WindowMoves PROVE FetchInv'
<1>1. since' = since + 1 /\ UNCHANGED <<adapter, published, kept, reads, began, faults, ahead, passed>>
  BY DEF WindowMoves
<1>2. FetchTypeOK'
  BY <1>1, FetchFacts DEF FetchInv, FetchTypeOK
<1>3. ASSUME NEW x \in Filings, x \in Listed PROVE Balanced(x)'
  <2>1. \A y \in Int : y >= since' => y >= since
    BY <1>1, FetchFacts
  <2>2. Waited(x)' = Waited(x) /\ Before(x)' \subseteq Before(x)
    BY <1>1, <2>1 DEF Waited, Before, Todo, TodoOf
  <2>3. faults'[Sort[x]] \in Nat /\ faults'[Sort[x]] >= faults[Sort[x]] /\ Waited(x) \in Nat
    BY <1>1, <1>3, Parts
  <2>4. Waited(x)' \in Nat /\ Waited(x)' <= Waited(x)
    BY ONLY <2>2, <2>3
  <2> QED BY <1>1, <1>3, <2>2, <2>3, <2>4, KeepsBalance
<1>4. Accounted'
  <2>1. Listed \subseteq Filings /\ Listed' = Listed
    BY <1>1, FetchFacts DEF Listed
  <2> QED BY <1>1, <1>3, <2>1 DEF Accounted, FetchInv
<1>5. \A i \in Jobs : PublicRun(i, reads[i])' /\ ApiRun(i, reads[i])'
  BY <1>1, RunsUntouched
<1>6. NoGap'
  BY <1>1 DEF NoGap, MissedBelow, FetchInv
<1> QED BY <1>2, <1>4, <1>5, <1>6 DEF FetchInv

\* The adapter is switched; the runs go on.
LEMMA SwitchKeeps == ASSUME FetchInv, SwitchAdapter PROVE FetchInv'
<1>1. began' = 0 /\ adapter' \in {"public", "api"} /\ UNCHANGED <<published, since, kept, reads, faults, ahead, passed>>
  BY DEF SwitchAdapter
<1>2. FetchTypeOK'
  BY <1>1 DEF FetchInv, FetchTypeOK
<1>3. \A x : Balanced(x)' <=> Balanced(x)
  BY <1>1 DEF Balanced, Waited, Before, Todo, TodoOf
<1>4. Accounted'
  BY <1>1, <1>3 DEF FetchInv, Accounted, Listed
<1>5. \A i \in Jobs : PublicRun(i, reads[i])' /\ ApiRun(i, reads[i])'
  BY <1>1, RunsUntouched
<1>6. NoGap'
  BY <1>1 DEF NoGap
<1> QED BY <1>2, <1>4, <1>5, <1>6 DEF FetchInv

\* A run that ends.
LEMMA EndsKeeps ==
    ASSUME FetchInv, NEW j \in Jobs, Ends(j), UNCHANGED <<adapter, published, since, kept, began, faults, ahead, passed>>
    PROVE  FetchInv'
<1>1. NoRead \in Reads /\ NoRead.step = "idle"
  BY DEF PublicRead, NoRead, Reads, Steps, Sorts
<1>2. PublicRun(j, NoRead)' /\ ApiRun(j, NoRead)'
  BY <1>1 DEF PublicRun, ApiRun, NoRead, PublicRead
<1>3. NoRead.step # "rows"
  BY <1>1
<1> HIDE DEF NoRead
<1>4. GoesOn(j, NoRead)
  BY DEF Ends
<1> QED BY <1>1, <1>2, <1>3, <1>4, RunsOn

\* A run through the website begins with its first list.
LEMMA StartPublicKeeps == ASSUME FetchInv, NEW j \in Jobs, StartPublic(j) PROVE FetchInv'
<1> DEFINE s == IF j = "ingest" THEN "pys" ELSE "person"
           r == PublicRead("list", s, kept, {}, 0)
<1>1. GoesOn(j, r) /\ adapter = "public" /\ UNCHANGED <<adapter, published, since, kept, began, faults, ahead, passed>>
  BY DEF StartPublic
<1>2. kept \in SUBSET Filings
  BY <1>1, FetchFacts
<1>3. r \in Reads /\ r.step = "list" /\ r.sort = s /\ r.known = kept
  BY <1>2 DEF PublicRead, Reads, Steps, Sorts
<1>4. Owner(s) = j /\ began = 0
  BY <1>1 DEF Owner, Jobs, FetchInv, FetchTypeOK
<1>5. PICK q : q = r
  OBVIOUS
<1> HIDE DEF r, s
<1>6. PublicRun(j, q)' /\ ApiRun(j, q)'
  BY <1>1, <1>3, <1>4, <1>5 DEF PublicRun, ApiRun
<1> QED BY <1>1, <1>3, <1>5, <1>6, RunsOn

\* A list is read: its rows that the run did not know are to be tried.
LEMMA ListRowsKeeps == ASSUME FetchInv, NEW j \in Jobs, ListRows(j) PROVE FetchInv'
<1> DEFINE r == reads[j]
           rows == {x \in since .. published : Sort[x] = r.sort}
           q == PublicRead("rows", r.sort, r.known, rows \ r.known, 0)
<1>1. /\ r.step = "list"
      /\ GoesOn(j, q) \/ Ends(j)
      /\ UNCHANGED <<adapter, published, since, kept, began, faults, ahead, passed>>
  BY DEF ListRows
<1>2. CASE Ends(j)
  BY <1>1, <1>2, EndsKeeps
<1>3. CASE GoesOn(j, q)
  <2>1. r \in Reads /\ PublicRun(j, r) /\ r.step = "list"
    BY <1>1, FetchFacts DEF FetchInv, ListRows
  <2>2. published \in Nat /\ since \in Nat \ {0} /\ 1 .. published \subseteq Filings
    BY <1>1, FetchFacts DEF FetchInv, FetchTypeOK
  <2>3. since .. published \subseteq 1 .. published
    BY ONLY <2>2
  <2>4. q \in Reads /\ q.step = "rows" /\ q.sort = r.sort /\ q.known = r.known /\ q.todo = rows \ r.known /\ q.tries = 0
    BY <2>1, <2>2, <2>3 DEF PublicRead, Reads, Steps
  <2>5. \A y \in q.todo : y >= since /\ y \in 1 .. published /\ Sort[y] = q.sort /\ y \notin kept
    BY <2>1, <2>2, <2>3, <2>4 DEF PublicRun
  <2>6. PICK p : p = q
    OBVIOUS
  <2>7. Owner(q.sort) = j /\ (j = "ingest" => began = 0) /\ (q.sort = "pys" => \A x \in kept : Sort[x] = "report" => x \in q.known)
    BY <2>1, <2>4 DEF PublicRun
  <2> HIDE DEF q, rows, r
  <2>8. PublicRun(j, p)' /\ ApiRun(j, p)'
    BY <1>1, <2>4, <2>5, <2>6, <2>7 DEF PublicRun, ApiRun
  <2> QED BY <1>1, <1>3, <2>2, <2>4, <2>5, <2>6, <2>8, RunsOn
<1> QED BY <1>1, <1>2, <1>3

\* A page is tried: the first row, which stands before every other row of the list.
LEMMA TryRowKeeps == ASSUME FetchInv, NEW j \in Jobs, TryRow(j) PROVE FetchInv'
<1>1. PICK r : r = reads[j]
  OBVIOUS
<1>2. PICK x : x = Min(r.todo)
  OBVIOUS
<1>3. PICK q : q = PublicRead("rows", r.sort, r.known, r.todo \ {x}, r.tries + 1)
  OBVIOUS
<1>4. /\ r.step = "rows" /\ r.todo # {} /\ GoesOn(j, q)
      /\ UNCHANGED <<adapter, published, since, began, ahead, passed>>
      /\ \/ kept' = kept \union {x} /\ UNCHANGED faults
         \/ faults' = [faults EXCEPT ![r.sort] = @ + 1] /\ UNCHANGED kept
  BY <1>1, <1>2, <1>3 DEF TryRow, NextRow
<1>5. FetchTypeOK /\ r \in Reads /\ PublicRun(j, r)
  BY <1>1, FetchFacts DEF FetchInv
<1>6. /\ \A y \in r.todo : y \in 1 .. published /\ y \in Filings /\ y \in Nat /\ Sort[y] = r.sort /\ y \notin kept
      /\ Owner(r.sort) = j /\ r.sort \in Sorts /\ r.tries \in Nat
  BY <1>4, <1>5, FetchFacts DEF PublicRun, Reads
<1>7. x \in r.todo /\ \A y \in r.todo : x <= y
  <2>1. r.todo \in SUBSET Nat
    BY <1>6
  <2> QED BY <1>2, <1>4, <2>1, FirstRow
<1>8. q \in Reads /\ q.step = "rows" /\ q.sort = r.sort /\ q.known = r.known /\ q.todo = r.todo \ {x} /\ q.tries = r.tries + 1
  <2>1. r.known \in SUBSET Filings /\ r.todo \ {x} \in SUBSET Filings /\ r.tries + 1 \in Nat /\ r.sort \in Sorts
    BY <1>5 DEF Reads
  <2>2. q \in Reads
    BY <1>3, <2>1 DEF PublicRead, Reads, Steps
  <2> QED BY <1>3, <2>2 DEF PublicRead
<1>9. kept \subseteq kept' /\ kept' \subseteq kept \union {x}
  BY <1>4
<1>10. reads' = [reads EXCEPT ![j] = q] /\ reads \in [Jobs -> Reads] /\ reads'[j] = q
  BY <1>4, <1>5 DEF GoesOn, FetchTypeOK
<1>11. faults' \in [Sorts -> Nat] /\ \A s \in Sorts : faults'[s] >= faults[s]
  <2>1. faults \in [Sorts -> Nat]
    BY <1>5 DEF FetchTypeOK
  <2> QED BY <1>4, <1>6, <2>1
<1>12. FetchTypeOK'
  <2>1. reads' \in [Jobs -> Reads]
    BY <1>8, <1>10
  <2>2. kept' \in SUBSET (1 .. published') /\ \A y \in kept' : Sort[y] \in Sorts
    BY <1>4, <1>6, <1>7, <1>9, FetchFacts
  <2> QED BY <1>4, <1>5, <1>11, <2>1, <2>2 DEF FetchTypeOK
<1>13. \A i \in Jobs : PublicRun(i, reads[i])' /\ ApiRun(i, reads[i])'
  <2>1. PublicRun(j, q)'
    <3>1. \A y \in kept' : y \in kept \/ Sort[y] = r.sort
      BY <1>6, <1>7, <1>9
    <3>2. q.sort = "pys" => \A y \in kept' : Sort[y] = "report" => y \in q.known
      BY <1>4, <1>5, <1>8, <3>1 DEF PublicRun
    <3>3. \A y \in q.todo : y \in 1 .. published' /\ Sort[y] = q.sort /\ y \notin kept'
      BY <1>4, <1>6, <1>8, <1>9
    <3>4. j = "ingest" => began' = 0
      BY <1>4, <1>5 DEF PublicRun
    <3> QED BY <1>6, <1>8, <3>2, <3>3, <3>4 DEF PublicRun
  <2>2. ApiRun(j, q)'
    BY <1>8 DEF ApiRun
  <2>3. \A y \in kept' \ kept : Owner(Sort[y]) = j
    BY <1>6, <1>7, <1>9
  <2> QED BY <1>4, <1>8, <1>9, <2>1, <2>2, <2>3, RunsStaySound
<1>14. ASSUME NEW w \in Filings, w \in Listed PROVE Balanced(w)'
  <2>1. Sort[w] \in Sorts /\ Owner(Sort[w]) \in Jobs
    BY <1>14, FetchFacts DEF Listed
  <2>2. faults'[Sort[w]] \in Nat /\ faults'[Sort[w]] >= faults[Sort[w]]
    BY <1>11, <2>1
  <2>3. Todo(Sort[w])' \subseteq Todo(Sort[w])
    <3>1. CASE Owner(Sort[w]) = j
      BY <1>1, <1>4, <1>8, <1>10, <3>1 DEF Todo, TodoOf
    <3>2. CASE Owner(Sort[w]) # j
      BY <1>10, <2>1, <3>2 DEF Todo, TodoOf
    <3> QED BY <3>1, <3>2
  <2>4. Before(w)' \subseteq Before(w)
    BY <1>4, <1>9, <2>3 DEF Before
  <2>5. CASE w \notin Todo(Sort[w])'
    <3>1. Waited(w)' = 0
      BY <2>5 DEF Waited
    <3>2. Waited(w) \in Nat
      BY <1>14, Parts
    <3>3. Waited(w)' \in Nat /\ Waited(w)' <= Waited(w)
      BY ONLY <3>1, <3>2
    <3> QED BY <1>4, <1>14, <2>2, <2>4, <3>3, KeepsBalance
  <2>6. CASE Owner(Sort[w]) # j
    <3>1. Waited(w)' = Waited(w)
      BY <1>10, <2>1, <2>6 DEF Waited, Todo, TodoOf
    <3>2. Waited(w) \in Nat
      BY <1>14, Parts
    <3>3. Waited(w)' \in Nat /\ Waited(w)' <= Waited(w)
      BY ONLY <3>1, <3>2
    <3> QED BY <1>4, <1>14, <2>2, <2>4, <3>3, KeepsBalance
  <2>7. CASE w \in Todo(Sort[w])' /\ Owner(Sort[w]) = j
    <3>1. w \in r.todo /\ w # x /\ Sort[w] = r.sort
      BY <1>8, <1>10, <2>7 DEF Todo, TodoOf
    <3>2. Todo(Sort[w]) = r.todo
      BY <1>1, <1>4, <2>7, <3>1 DEF Todo, TodoOf
    <3>3. Waited(w)' = r.tries + 1 /\ Waited(w) = r.tries
      BY <1>1, <1>8, <1>10, <2>7, <3>1, <3>2 DEF Waited
    <3>4. x \in 1 .. w - 1
      <4>1. x <= w /\ x \in 1 .. published /\ w \in Nat /\ published \in Nat
        BY <1>6, <1>7, <3>1, FetchFacts
      <4> QED BY ONLY <3>1, <4>1
    <3>5. x \in Before(w)
      BY <1>6, <1>7, <3>1, <3>2, <3>4 DEF Before
    <3> DEFINE p == passed[w] * PageCap[Sort[w]]
               b == Cardinality(Before(w))
               c == Cardinality(Before(w)')
    <3>6. b \in Nat /\ c \in Nat /\ c <= b /\ (Before(w)' \subseteq Before(w) \ {x} => c + 1 <= b)
      BY <2>4, <3>5, BeforeCard
    <3>7. p \in Nat /\ p + Waited(w) + b <= ahead[w] + faults[Sort[w]] /\ ahead[w] \in Nat /\ faults[Sort[w]] \in Nat
      BY <1>14, Parts DEF Balanced
    <3> HIDE DEF p, b, c
    <3>8. \/ c + 1 <= b
          \/ faults'[Sort[w]] = faults[Sort[w]] + 1
      <4>1. CASE x \in kept'
        <5>1. Before(w)' \subseteq Before(w) \ {x}
          BY <2>4, <4>1 DEF Before
        <5> QED BY <3>6, <5>1
      <4>2. CASE x \notin kept'
        <5>1. faults' = [faults EXCEPT ![r.sort] = @ + 1] /\ faults \in [Sorts -> Nat]
          BY <1>4, <1>5, <4>2 DEF FetchTypeOK
        <5> QED BY <1>6, <3>1, <5>1
      <4> QED BY <4>1, <4>2
    <3>9. p + Waited(w)' + c <= ahead[w] + faults'[Sort[w]]
      BY ONLY <1>6, <2>2, <3>3, <3>6, <3>7, <3>8
    <3> QED BY <1>4, <3>9 DEF Balanced, p, c
  <2> QED BY <2>5, <2>6, <2>7
<1>15. Accounted'
  <2>1. Listed \subseteq Filings /\ Listed' = Listed
    BY <1>4, FetchFacts DEF Listed
  <2> QED BY <1>4, <1>14, <2>1 DEF Accounted, FetchInv
<1>16. NoGap'
  <2> SUFFICES ASSUME began > 0, NEW y \in kept', Sort[y] \in Wanted, NEW z \in MissedBelow(y)'
               PROVE  \E t \in kept' : Sort[t] = "person" /\ t > z
    BY <1>4 DEF NoGap
  <2>1. r.sort = "person"
    BY <1>4, <1>5, <1>6 DEF PublicRun, Owner, Jobs
  <2>2. y \in kept
    BY <1>6, <1>7, <1>9, <2>1 DEF Wanted
  <2>3. z \in MissedBelow(y)
    BY <1>4, <1>9 DEF MissedBelow
  <2> QED BY <1>9, <2>2, <2>3 DEF FetchInv, NoGap
<1> QED BY <1>12, <1>13, <1>15, <1>16 DEF FetchInv

\* A list ends: what is left of it has been passed over once more, for a whole cap of tries.
LEMMA EndListKeeps == ASSUME FetchInv, NEW j \in Jobs, EndList(j) PROVE FetchInv'
<1>1. PICK r : r = reads[j]
  OBVIOUS
<1>2. PICK q : q = IF r.sort = "pys" THEN PublicRead("list", "report", r.known, {}, 0) ELSE NoRead
  OBVIOUS
<1>3. /\ r.step = "rows" /\ (r.todo = {} \/ r.tries = PageCap[r.sort])
      /\ passed' = [y \in Filings |-> IF y \in r.todo THEN passed[y] + 1 ELSE passed[y]]
      /\ UNCHANGED <<adapter, published, since, kept, began, faults, ahead>>
  BY <1>1 DEF EndList
<1>4. GoesOn(j, q)
  BY <1>1, <1>2 DEF EndList, Ends
<1>5. FetchTypeOK /\ r \in Reads /\ PublicRun(j, r)
  BY <1>1, FetchFacts DEF FetchInv
<1>6. /\ \A y \in r.todo : y \in 1 .. published /\ y \in Filings /\ Sort[y] = r.sort
      /\ Owner(r.sort) = j /\ r.sort \in Sorts /\ r.tries \in Nat
  BY <1>3, <1>5, FetchFacts DEF PublicRun, Reads
<1>7. /\ q \in Reads /\ q.step # "rows" /\ q.step \notin {"page", "api rows"}
      /\ q.step = "list" => q.sort = "report" /\ q.known = r.known /\ r.sort = "pys"
  <2>1. CASE r.sort = "pys"
    BY <1>2, <1>5, <2>1 DEF PublicRead, Reads, Steps, Sorts
  <2>2. CASE r.sort # "pys"
    BY <1>2, <2>2 DEF NoRead, PublicRead, Reads, Steps, Sorts
  <2> QED BY <2>1, <2>2
<1>8. reads' = [reads EXCEPT ![j] = q] /\ reads \in [Jobs -> Reads] /\ reads'[j] = q
  BY <1>4, <1>5 DEF GoesOn, FetchTypeOK
<1>9. passed' \in [Filings -> Nat]
  BY <1>3, FetchFacts
<1>10. FetchTypeOK'
  <2>1. reads' \in [Jobs -> Reads]
    BY <1>7, <1>8
  <2> QED BY <1>3, <1>5, <1>9, <2>1 DEF FetchTypeOK
<1>11. \A i \in Jobs : PublicRun(i, reads[i])' /\ ApiRun(i, reads[i])'
  <2>1. ApiRun(j, q)'
    BY <1>7 DEF ApiRun
  <2>2. PublicRun(j, q)'
    <3> SUFFICES ASSUME q.step \in {"list", "rows"} PROVE PublicRun(j, q)'
      BY DEF PublicRun
    <3>1. q.step = "list" /\ q.sort = "report" /\ q.known = r.known /\ r.sort = "pys"
      BY <1>7
    <3>2. Owner(q.sort) = j
      BY <1>6, <3>1 DEF Owner
    <3>3. (j = "ingest" => began' = 0) /\ \A y \in kept' : Sort[y] = "report" => y \in q.known
      BY <1>3, <1>5, <3>1 DEF PublicRun
    <3> QED BY <3>1, <3>2, <3>3 DEF PublicRun
  <2> QED BY <1>3, <1>4, <1>7, <2>1, <2>2, RunsStaySound
<1>12. ASSUME NEW w \in Filings, w \in Listed PROVE Balanced(w)'
  <2>1. Sort[w] \in Sorts /\ Owner(Sort[w]) \in Jobs
    BY <1>12, FetchFacts DEF Listed
  <2>2. faults'[Sort[w]] \in Nat /\ faults'[Sort[w]] >= faults[Sort[w]] /\ ahead'[w] = ahead[w] /\ Waited(w) \in Nat
    BY <1>3, <1>12, Parts
  <2>3. /\ Owner(Sort[w]) = j => Todo(Sort[w])' = {}
        /\ Owner(Sort[w]) # j => Todo(Sort[w])' = Todo(Sort[w]) /\ Waited(w)' = Waited(w)
    BY <1>7, <1>8, <2>1 DEF Todo, TodoOf, Waited
  <2>4. Before(w)' \subseteq Before(w)
    BY <1>3, <2>3 DEF Before
  <2>5. CASE w \notin r.todo
    <3>1. passed'[w] = passed[w]
      BY <1>3, <2>5
    <3>2. Waited(w)' = 0 \/ Waited(w)' = Waited(w)
      BY <2>3 DEF Waited
    <3>3. Waited(w)' \in Nat /\ Waited(w)' <= Waited(w)
      BY ONLY <2>2, <3>2
    <3> QED BY <1>12, <2>2, <2>4, <3>1, <3>3, KeepsBalance
  <2>6. CASE w \in r.todo
    <3> DEFINE p == passed[w]
               c == PageCap[Sort[w]]
               b == Cardinality(Before(w))
               d == Cardinality(Before(w)')
    <3>1. Sort[w] = r.sort /\ r.tries = PageCap[r.sort] /\ Owner(Sort[w]) = j
      BY <1>3, <1>6, <2>6
    <3>2. Waited(w) = c
      BY <1>1, <1>3, <2>6, <3>1 DEF Waited, Todo, TodoOf
    <3>3. Waited(w)' = 0 /\ passed'[w] = p + 1
      BY <1>3, <2>3, <2>6, <3>1 DEF Waited
    <3>4. b \in Nat /\ d \in Nat /\ d <= b
      BY <2>4, BeforeCard
    <3>5. p \in Nat /\ c \in Nat /\ ahead[w] \in Nat /\ faults[Sort[w]] \in Nat /\ p * c + Waited(w) + b <= ahead[w] + faults[Sort[w]]
      BY <1>12, Parts DEF Balanced
    <3> HIDE DEF p, c, b, d
    <3>6. (p + 1) * c = p * c + c /\ p * c \in Nat
      BY ONLY <3>5
    <3>7. (p + 1) * c + 0 + d <= ahead[w] + faults[Sort[w]]
      <4> DEFINE pc == p * c
      <4>1. pc \in Nat /\ pc + Waited(w) + b <= ahead[w] + faults[Sort[w]]
        BY <3>5, <3>6
      <4> HIDE DEF pc
      <4>2. pc + c + 0 + d <= ahead[w] + faults[Sort[w]]
        BY ONLY <3>2, <3>4, <3>5, <4>1
      <4> QED BY <3>6, <4>2 DEF pc
    <3>8. passed'[w] * c + Waited(w)' + d <= ahead'[w] + faults'[Sort[w]]
      BY <1>3, <3>3, <3>7
    <3> QED BY <3>8 DEF Balanced, c, d
  <2> QED BY <2>5, <2>6
<1>13. Accounted'
  <2>1. Listed \subseteq Filings /\ Listed' = Listed
    BY <1>3, FetchFacts DEF Listed
  <2>2. ASSUME NEW y \in Filings \ Listed' PROVE passed'[y] = 0
    <3>1. y \notin r.todo
      BY <1>6, <2>1, <2>2 DEF Listed
    <3> QED BY <1>3, <2>1, <2>2, <3>1 DEF FetchInv, Accounted
  <2> QED BY <1>12, <2>1, <2>2 DEF Accounted
<1>14. NoGap'
  BY <1>3 DEF FetchInv, NoGap, MissedBelow
<1> QED BY <1>10, <1>11, <1>13, <1>14 DEF FetchInv

LEMMA MaxOfTwo == ASSUME NEW a \in Int, NEW b \in Int PROVE Max({a, b}) \in {a, b} /\ Max({a, b}) >= a /\ Max({a, b}) >= b
<1>1. \E m \in {a, b} : \A y \in {a, b} : m >= y
  OBVIOUS
<1> QED BY <1>1 DEF Max

\* Nothing readable is left below the index after the highest one stored.
LEMMA ReadToHighest ==
    ASSUME FetchInv, kept # {}
    PROVE  HighestStored \in Nat /\ ReadBelow(HighestStored + 1)
<1>1. published \in Nat /\ kept \in SUBSET (0 .. published)
  BY FetchFacts
<1>2. HighestStored \in kept /\ \A y \in kept : y <= HighestStored
  BY <1>1, LastRow DEF HighestStored
<1>3. HighestStored \in Nat
  BY <1>1, <1>2
<1>4. ASSUME began > 0, NEW x \in MissedBelow(HighestStored + 1)
      PROVE  \E z \in kept : Sort[z] = "person" /\ z > x
  <2>1. x \in Filings /\ x \in Nat /\ x \notin kept /\ x < HighestStored + 1
    BY <1>4, FetchFacts DEF MissedBelow
  <2>2. x < HighestStored
    <3>1. x # HighestStored
      BY <1>2, <2>1
    <3> QED BY ONLY <1>3, <2>1, <3>1
  <2>3. CASE Sort[HighestStored] = "person"
    BY <1>2, <1>3, <2>1, <2>2, <2>3
  <2>4. CASE Sort[HighestStored] # "person"
    <3>1. Sort[HighestStored] \in Wanted
      BY <1>2, <2>4, FetchFacts DEF Sorts, Wanted
    <3>2. x \in MissedBelow(HighestStored)
      BY <1>4, <2>2 DEF MissedBelow
    <3> QED BY <1>2, <1>4, <3>1, <3>2 DEF FetchInv, NoGap
  <2> QED BY <2>3, <2>4
<1> QED BY <1>3, <1>4 DEF ReadBelow

\* A run through the API begins after the highest index stored.
LEMMA StartApiKeeps == ASSUME FetchInv, StartApi PROVE FetchInv'
<1>1. PICK tries \in Cost : GoesOn("ingest", ApiRead("page", kept, {}, 1 + tries, Cursor(published), published))
  BY DEF StartApi
<1>2. PICK c : c = Cursor(published)
  OBVIOUS
<1>3. PICK q : q = ApiRead("page", kept, {}, 1 + tries, c, published)
  OBVIOUS
<1>4. /\ began' = IF began = 0 \/ kept = {} THEN c ELSE began
      /\ adapter = "api" /\ UNCHANGED <<adapter, published, since, kept, faults, ahead, passed>>
  BY <1>2 DEF StartApi
<1>5. published \in Nat /\ kept \in SUBSET Filings /\ began \in Nat /\ tries \in Nat
  BY FetchFacts, FilingRange, KapFetchAssumption DEF Cost
<1>6. c \in Nat /\ c > 0
  <2>1. CASE kept = {}
    <3>1. published - StartBack \in Int /\ 1 \in Int
      BY <1>5, FilingRange
    <3>2. c = Max({published - StartBack, 1})
      BY <1>2, <2>1 DEF Cursor
    <3> HIDE DEF Max
    <3>3. c \in {published - StartBack, 1} /\ c >= 1
      BY <3>1, <3>2, MaxOfTwo
    <3> QED BY ONLY <3>1, <3>3
  <2>2. CASE kept # {}
    BY <1>2, <2>2, ReadToHighest DEF Cursor
  <2> QED BY <2>1, <2>2
<1>7. ReadBelow(c)'
  <2>1. CASE began = 0 \/ kept = {}
    BY <1>4, <1>6, <2>1, FetchFacts DEF ReadBelow, MissedBelow
  <2>2. CASE began # 0 /\ kept # {}
    <3>1. ReadBelow(c)
      BY <1>2, <2>2, ReadToHighest DEF Cursor
    <3> QED BY <1>4, <2>2, <3>1, ReadStays
  <2> QED BY <2>1, <2>2
<1>8. q \in Reads /\ q.step = "page" /\ q.known = kept /\ q.cursor = c /\ q.last = published
  <2>1. 1 + tries \in Nat
    BY <1>5
  <2> QED BY <1>3, <1>5, <1>6, <2>1 DEF ApiRead, Reads, Steps, Sorts
<1>9. PublicRun("ingest", q)' /\ ApiRun("ingest", q)'
  <2>1. q.last <= published' /\ q.cursor > 0 /\ q.known \subseteq kept' /\ ReadBelow(q.cursor)'
    BY <1>4, <1>5, <1>6, <1>7, <1>8
  <2> QED BY <1>8, <2>1 DEF PublicRun, ApiRun
<1>10. began' \in Nat /\ adapter # "public"
  BY <1>4, <1>5, <1>6
<1>11. GoesOn("ingest", q) /\ "ingest" \in Jobs /\ q.step # "rows"
  BY <1>1, <1>2, <1>3, <1>8 DEF Jobs
<1>12. NoGap'
  <2>1. CASE began # 0 /\ kept # {}
    BY <1>4, <2>1 DEF FetchInv, NoGap, MissedBelow
  <2>2. CASE kept = {}
    BY <1>4, <2>2 DEF NoGap
  <2>3. CASE began = 0 /\ kept # {}
    <3>1. c = HighestStored + 1 /\ HighestStored \in Nat /\ began' = c
      BY <1>2, <1>4, <2>3, ReadToHighest DEF Cursor
    <3>2. \A y \in kept : y \in Nat /\ y <= HighestStored
      <4>1. kept \in SUBSET (0 .. published)
        BY <1>5, FetchFacts
      <4> QED BY <1>5, <2>3, <4>1, FetchFacts, LastRow DEF HighestStored
    <3>3. ASSUME NEW y \in kept PROVE MissedBelow(y)' = {}
      <4> SUFFICES ASSUME NEW x \in Filings, began' <= x, x < y PROVE FALSE
        BY DEF MissedBelow
      <4>1. x \in Nat /\ y \in Nat /\ y <= HighestStored
        BY <3>2, <3>3, FetchFacts
      <4> QED BY ONLY <3>1, <4>1, began' <= x, x < y
    <3> QED BY <1>4, <3>3 DEF NoGap
  <2> QED BY <2>1, <2>2, <2>3
<1>13. kept \subseteq kept' /\ \A x \in kept' \ kept : FALSE
  BY <1>4
<1> QED BY <1>4, <1>8, <1>9, <1>10, <1>11, <1>12, <1>13, StoresOn

\* A page of the API: the indexes from the cursor on.
LEMMA ApiPageKeeps == ASSUME FetchInv, ApiPage PROVE FetchInv'
<1>1. PICK r : r = reads["ingest"]
  OBVIOUS
<1>2. /\ r.step = "page" /\ UNCHANGED <<adapter, published, since, kept, began, faults, ahead, passed>>
      /\ "ingest" \in Jobs
  BY <1>1 DEF ApiPage, Jobs
<1>3. CASE Ends("ingest")
  BY <1>2, <1>3, EndsKeeps
<1>4. CASE ~ Ends("ingest")
  <2> DEFINE rows == {x \in r.cursor .. published : x < r.cursor + PageSize}
  <2>1. PICK tries \in Cost : /\ r.cursor <= r.last
                              /\ GoesOn("ingest", ApiRead("api rows", r.known, rows, r.tries + tries, r.cursor, r.last))
    BY <1>1, <1>4 DEF ApiPage
  <2>2. PICK q : q = ApiRead("api rows", r.known, rows, r.tries + tries, r.cursor, r.last)
    OBVIOUS
  <2>3. r \in Reads /\ ApiRun("ingest", r)
    BY <1>1, <1>2, FetchFacts DEF FetchInv
  <2>12. 1 .. published \subseteq Filings /\ began \in Nat
    BY FetchFacts
  <2>4. published \in Nat /\ tries \in Nat /\ PageSize \in Nat \ {0} /\ MaxCalls \in Nat
    BY FetchFacts, FilingRange, KapFetchAssumption DEF Cost
  <2>5. r.cursor \in Nat /\ r.last \in Nat /\ r.tries \in Nat /\ r.known \in SUBSET Filings
    BY <2>3 DEF Reads
  <2>6. r.cursor > 0 /\ r.last <= published /\ (r.tries >= MaxCalls \/ ReadBelow(r.cursor))
    BY <1>2, <2>3 DEF ApiRun
  <2>7. \E h \in r.cursor .. published : rows = r.cursor .. h
    <3> DEFINE m == r.cursor + PageSize - 1
               h == IF m <= published THEN m ELSE published
    <3>1. m \in Nat /\ m >= r.cursor /\ r.cursor <= published
      <4>1. r.cursor <= r.last /\ r.last <= published
        BY <2>1, <2>6
      <4> QED BY ONLY <2>4, <2>5, <4>1
    <3>2. h \in r.cursor .. published
      BY ONLY <2>4, <2>5, <3>1
    <3>3. \A x \in Int : x \in rows <=> x \in r.cursor .. h
      BY <2>4, <2>5, <3>1
    <3> QED BY <3>2, <3>3
  <2>8. rows \in SUBSET Filings
    <3>1. rows \subseteq 1 .. published
      BY <2>5, <2>6
    <3> QED BY <2>12, <3>1
  <2> HIDE DEF rows
  <2>9. q \in Reads /\ q.step = "api rows" /\ q.known = r.known /\ q.todo = rows /\ q.tries = r.tries + tries
        /\ q.cursor = r.cursor /\ q.last = r.last
    <3>1. r.tries + tries \in Nat
      BY <2>4, <2>5
    <3> QED BY <2>2, <2>5, <2>8, <3>1 DEF ApiRead, Reads, Steps, Sorts
  <2>10. q.tries >= MaxCalls \/ ReadBelow(q.cursor)'
    <3>1. CASE ReadBelow(r.cursor)
      <4>1. ReadBelow(q.cursor)
        BY <2>9, <3>1
      <4> QED BY <1>2, <4>1, ReadStays
    <3>2. CASE r.tries >= MaxCalls
      <4>1. q.tries = r.tries + tries
        BY <2>9
      <4> QED BY ONLY <2>4, <2>5, <3>2, <4>1
    <3> QED BY <2>6, <3>1, <3>2
  <2>11. ApiRun("ingest", q)' /\ PublicRun("ingest", q)'
    <3>1. r.known \subseteq kept' /\ published' = published
      BY <1>2, <2>3 DEF ApiRun
    <3> QED BY <2>6, <2>7, <2>9, <2>10, <3>1 DEF ApiRun, PublicRun
  <2> QED BY <1>2, <2>1, <2>2, <2>12, <2>9, <2>11, RunsOn
<1> QED BY <1>3, <1>4

\* A row of a page of the API is passed or stored, and the cursor goes past it.
LEMMA NextOnPageKeeps ==
    ASSUME FetchInv, NEW r, r = reads["ingest"], r.step = "api rows", NEW x, x = Min(r.todo), NEW t \in Nat,
           NextOnPage(r, x, r.tries + t),
           UNCHANGED <<adapter, published, since, began, faults, ahead, passed>>,
           kept' = kept \/ (kept' = kept \union {x} /\ StoredByApi(x) /\ ~Passes(r, x)),
           r.tries >= MaxCalls \/ x \in kept' \/ ~ StoredByApi(x)
    PROVE  FetchInv'
<1>1. r \in Reads /\ ApiRun("ingest", r) /\ "ingest" \in Jobs
  <2>1. "ingest" \in Jobs
    BY DEF Jobs
  <2> QED BY <2>1, FetchFacts DEF FetchInv
<1>2. PICK h \in r.cursor .. published : r.todo = r.cursor .. h
  BY <1>1 DEF ApiRun
<1>3. published \in Nat /\ 1 .. published \subseteq Filings /\ MaxCalls \in Nat
  BY FetchFacts, FilingRange
<1>4. r.cursor \in Nat /\ r.last \in Nat /\ r.tries \in Nat /\ r.known \in SUBSET Filings /\ r.todo \in SUBSET Filings
  BY <1>1 DEF Reads
<1>5. r.cursor > 0 /\ r.known \subseteq kept /\ r.last <= published /\ (r.tries >= MaxCalls \/ ReadBelow(r.cursor))
  BY <1>1 DEF ApiRun
<1>6. x = r.cursor
  <2>1. PICK c : c = r.cursor
    OBVIOUS
  <2>2. c \in Nat /\ h \in Int /\ c <= h
    <3>1. c \in Nat /\ h \in c .. published /\ published \in Nat
      BY <1>2, <1>3, <1>4, <2>1
    <3> QED BY ONLY <3>1
  <2>3. \A y \in c .. h : y \in Nat /\ y >= c
    BY ONLY <2>2
  <2>4. c \in c .. h
    BY ONLY <2>2
  <2>5. r.todo = c .. h
    BY <1>2, <2>1
  <2>6. r.todo \in SUBSET Nat /\ r.todo # {} /\ c \in r.todo /\ \A y \in r.todo : y >= c
    BY ONLY <2>3, <2>4, <2>5
  <2>7. x \in r.todo /\ x <= c
    BY <2>6, FirstRow
  <2>8. x \in Nat /\ x >= c
    BY <2>6, <2>7
  <2>9. x = c
    BY ONLY <2>2, <2>7, <2>8
  <2> QED BY <2>1, <2>9
<1>7. x \in 1 .. published /\ x \in Filings /\ x \in Nat /\ x + 1 \in Nat /\ x + 1 > 0
  <2>1. x \in Nat /\ x > 0 /\ h \in x .. published
    BY <1>2, <1>4, <1>5, <1>6
  <2>2. x \in 1 .. published /\ x + 1 \in Nat /\ x + 1 > 0
    BY ONLY <1>3, <2>1
  <2> QED BY <1>3, <2>1, <2>2
<1>8. PICK q : q = ApiRead(IF r.todo = {x} THEN "page" ELSE "api rows", r.known, r.todo \ {x}, r.tries + t, x + 1, r.last)
  OBVIOUS
<1>9. /\ q \in Reads /\ q.step \in {"page", "api rows"} /\ (q.step = "api rows" => r.todo # {x})
      /\ q.known = r.known /\ q.todo = r.todo \ {x} /\ q.tries = r.tries + t /\ q.cursor = x + 1 /\ q.last = r.last
  <2>1. r.tries + t \in Nat /\ r.todo \ {x} \in SUBSET Filings
    <3>1. r.tries + t \in Nat
      BY ONLY <1>4, t \in Nat
    <3> QED BY <1>4, <3>1
  <2>2. CASE r.todo = {x}
    BY <1>4, <1>7, <1>8, <2>1, <2>2 DEF ApiRead, Reads, Steps, Sorts
  <2>3. CASE r.todo # {x}
    BY <1>4, <1>7, <1>8, <2>1, <2>3 DEF ApiRead, Reads, Steps, Sorts
  <2> QED BY <2>2, <2>3
<1>10. GoesOn("ingest", q)
  BY <1>8 DEF NextOnPage
<1>11. kept \subseteq kept' /\ \A y \in kept' \ kept : y = x /\ StoredByApi(x) /\ ~Passes(r, x)
  OBVIOUS
<1>12. q.tries >= MaxCalls \/ ReadBelow(x + 1)'
  <2>1. CASE r.tries >= MaxCalls
    <3>1. q.tries = r.tries + t
      BY <1>9
    <3> QED BY ONLY <1>3, <1>4, <2>1, <3>1, t \in Nat
  <2>2. CASE ~ (r.tries >= MaxCalls)
    <3>1. ReadBelow(r.cursor)'
      BY <1>5, <1>11, <2>2, ReadStays
    <3>2. x \notin MissedBelow(x + 1)'
      BY <2>2 DEF MissedBelow, StoredByApi
    <3>3. \A y \in Nat : y < x + 1 => y = x \/ y < x
      BY ONLY <1>7
    <3>4. MissedBelow(x + 1)' \subseteq MissedBelow(x)'
      BY <3>2, <3>3, FetchFacts DEF MissedBelow
    <3>5. ReadBelow(x)'
      BY <1>6, <3>1
    <3> QED BY <3>4, <3>5 DEF ReadBelow
  <2> QED BY <2>1, <2>2
<1>13. q.step = "api rows" => \E k \in x + 1 .. published : q.todo = x + 1 .. k
  <2> SUFFICES ASSUME q.step = "api rows" PROVE h \in x + 1 .. published /\ q.todo = x + 1 .. h
    OBVIOUS
  <2>1. r.todo = x .. h /\ h \in x .. published /\ r.todo # {x} /\ q.todo = r.todo \ {x}
    BY <1>2, <1>6, <1>9
  <2>2. h # x
    <3>1. x .. x = {x}
      BY ONLY <1>7
    <3> QED BY <2>1, <3>1
  <2> QED BY ONLY <1>3, <1>7, <2>1, <2>2
<1>14. ApiRun("ingest", q)' /\ PublicRun("ingest", q)'
  <2>1. q.tries >= MaxCalls \/ ReadBelow(q.cursor)'
    BY <1>9, <1>12
  <2>2. q.known \subseteq kept' /\ q.cursor > 0 /\ q.last <= published'
    BY <1>5, <1>7, <1>9, <1>11
  <2>3. q.step = "api rows" => \E k \in q.cursor .. published' : q.todo = q.cursor .. k
    BY <1>9, <1>13
  <2> QED BY <1>9, <2>1, <2>2, <2>3 DEF ApiRun, PublicRun
<1>15. NoGap'
  <2> SUFFICES ASSUME began > 0, NEW y \in kept', Sort[y] \in Wanted, NEW z \in MissedBelow(y)'
               PROVE  \E p \in kept' : Sort[p] = "person" /\ p > z
    BY DEF NoGap
  <2>1. z \in MissedBelow(y)
    BY <1>11 DEF MissedBelow
  <2>2. CASE y \in kept
    BY <1>5, <1>11, <2>1, <2>2 DEF FetchInv, NoGap
  <2>3. CASE y \notin kept
    <3>1. y = x /\ ~ (r.tries >= MaxCalls)
      BY <1>11, <2>3 DEF Passes
    <3>2. ReadBelow(r.cursor) /\ z \in MissedBelow(r.cursor)
      BY <1>5, <1>6, <2>1, <3>1
    <3> QED BY <1>11, <3>2 DEF ReadBelow
  <2> QED BY <2>2, <2>3
<1>16. \A y \in kept' \ kept : y \in 1 .. published /\ Sort[y] \in Sorts /\ Owner(Sort[y]) = "ingest"
  BY <1>7, <1>11 DEF StoredByApi, Wanted, Sorts, Owner
<1>17. began' \in Nat /\ began' = began /\ (adapter = "public" => began' = 0) /\ q.step # "rows"
  BY <1>9, FetchFacts DEF FetchInv, FetchTypeOK
<1> QED BY <1>1, <1>9, <1>10, <1>11, <1>14, <1>15, <1>16, <1>17, StoresOn

LEMMA ApiRowKeeps == ASSUME FetchInv, ApiRow PROVE FetchInv'
<1>1. PICK r : r = reads["ingest"]
  OBVIOUS
<1>2. PICK x : x = Min(r.todo)
  OBVIOUS
<1>3. r.step = "api rows" /\ UNCHANGED <<adapter, published, since, began, faults, ahead, passed>> /\ "ingest" \in Jobs
  BY <1>1 DEF ApiRow, Jobs
<1>4. r.tries \in Nat /\ r.known \subseteq kept
  <2>1. r \in Reads /\ ApiRun("ingest", r)
    BY <1>1, <1>3, FetchFacts DEF FetchInv
  <2> QED BY <1>3, <2>1 DEF Reads, ApiRun
<1>5. CASE Passes(r, x) /\ NextOnPage(r, x, r.tries) /\ UNCHANGED kept
  <2>1. r.tries + 0 = r.tries
    BY ONLY <1>4
  <2>2. NextOnPage(r, x, r.tries + 0)
    BY <1>5, <2>1
  <2>3. r.tries >= MaxCalls \/ x \in kept' \/ ~ StoredByApi(x)
    BY <1>4, <1>5 DEF Passes, StoredByApi, Wanted
  <2>4. 0 \in Nat
    OBVIOUS
  <2> QED BY <1>1, <1>2, <1>3, <1>5, <2>2, <2>3, <2>4, NextOnPageKeeps
<1>6. CASE /\ ~Passes(r, x)
           /\ \E tries \in Cost : NextOnPage(r, x, r.tries + tries)
           /\ kept' = IF StoredByApi(x) THEN kept \union {x} ELSE kept
  <2>1. PICK tries \in Cost : NextOnPage(r, x, r.tries + tries)
    BY <1>6
  <2>2. tries \in Nat
    BY KapFetchAssumption DEF Cost
  <2>3. kept' = kept \/ (kept' = kept \union {x} /\ StoredByApi(x) /\ ~Passes(r, x))
    BY <1>6
  <2>4. r.tries >= MaxCalls \/ x \in kept' \/ ~ StoredByApi(x)
    BY <1>6
  <2> QED BY <1>1, <1>2, <1>3, <2>1, <2>2, <2>3, <2>4, NextOnPageKeeps
<1>7. CASE Ends("ingest") /\ UNCHANGED kept
  BY <1>3, <1>7, EndsKeeps
<1> QED BY <1>1, <1>2, <1>5, <1>6, <1>7 DEF ApiRow, ApiFails

LEMMA FetchInitial == ASSUME FetchInit PROVE FetchInv
<1>1. published = 0 /\ since = 1 /\ kept = {} /\ began = 0 /\ adapter \in {"public", "api"}
  BY DEF FetchInit
<1>2. reads = [j \in Jobs |-> NoRead] /\ NoRead \in Reads /\ NoRead.step = "idle"
  BY DEF FetchInit, NoRead, PublicRead, Reads, Steps, Sorts
<1>3. FetchTypeOK
  <2>1. faults \in [Sorts -> Nat] /\ ahead \in [Filings -> Nat] /\ passed \in [Filings -> Nat]
    BY DEF FetchInit, Sorts
  <2>2. 0 \in 0 .. Cardinality(Filings)
    BY FilingRange
  <2> QED BY <1>1, <1>2, <2>1, <2>2 DEF FetchTypeOK
<1>4. \A j \in Jobs : PublicRun(j, reads[j]) /\ ApiRun(j, reads[j])
  BY <1>2 DEF PublicRun, ApiRun
<1>5. Listed = {}
  BY <1>1 DEF Listed
<1>6. Accounted
  BY <1>5 DEF Accounted, FetchInit
<1>7. NoGap
  BY <1>1 DEF NoGap
<1> QED BY <1>3, <1>4, <1>6, <1>7 DEF FetchInv

LEMMA FetchSteps == ASSUME FetchInv, [FetchNext]_fetchVars PROVE FetchInv'
<1>1. CASE Publish
  BY <1>1, PublishKeeps
<1>2. CASE WindowMoves
  BY <1>2, WindowKeeps
<1>3. ASSUME NEW j \in Jobs, StartPublic(j) PROVE FetchInv'
  BY <1>3, StartPublicKeeps
<1>4. ASSUME NEW j \in Jobs, ListRows(j) PROVE FetchInv'
  BY <1>4, ListRowsKeeps
<1>5. ASSUME NEW j \in Jobs, TryRow(j) PROVE FetchInv'
  BY <1>5, TryRowKeeps
<1>6. ASSUME NEW j \in Jobs, EndList(j) PROVE FetchInv'
  BY <1>6, EndListKeeps
<1>7. CASE StartApi
  BY <1>7, StartApiKeeps
<1>8. CASE ApiPage
  BY <1>8, ApiPageKeeps
<1>9. CASE ApiRow
  BY <1>9, ApiRowKeeps
<1>11. CASE SwitchAdapter
  BY <1>11, SwitchKeeps
<1>10. CASE UNCHANGED fetchVars
  <2>1. UNCHANGED <<adapter, published, since, kept, reads, began, faults, ahead, passed>>
    BY <1>10 DEF fetchVars
  <2>2. FetchTypeOK' /\ NoGap'
    BY <2>1 DEF FetchInv, FetchTypeOK, NoGap, MissedBelow
  <2>3. \A j \in Jobs : PublicRun(j, reads[j])' /\ ApiRun(j, reads[j])'
    BY <2>1, RunsUntouched
  <2>4. Listed' = Listed /\ \A x : Waited(x)' = Waited(x) /\ Before(x)' = Before(x)
    BY <2>1 DEF Listed, Waited, Before, Todo, TodoOf
  <2>5. \A x : Balanced(x)' <=> Balanced(x)
    BY <2>1, <2>4 DEF Balanced
  <2>6. Accounted'
    BY <2>1, <2>4, <2>5 DEF FetchInv, Accounted
  <2> QED BY <2>2, <2>3, <2>6 DEF FetchInv
<1> QED BY <1>1, <1>2, <1>3, <1>4, <1>5, <1>6, <1>7, <1>8, <1>9, <1>10, <1>11 DEF FetchNext

\* The runs of the adapters, their cursors and the books kept of what they passed over hold together.
THEOREM FetchInvariant == FetchSpec => []FetchInv
<1>1. FetchInit => FetchInv
  BY FetchInitial
<1>2. FetchInv /\ [FetchNext]_fetchVars => FetchInv'
  BY FetchSteps
<1> QED BY <1>1, <1>2, PTL DEF FetchSpec

\* For all filings, caps, windows, switches of the adapter and orders of the two jobs: a filing is passed
\* over once at most for every cap of filings unread before it, and the API leaves nothing readable behind
\* what it stored, unless a filing of the insiders job's lies beyond.
THEOREM ListsAreReadThrough == FetchSpec => []ListReadThrough
<1>1. ASSUME FetchInv PROVE ListReadThrough
  <2>1. NoGap
    BY <1>1 DEF FetchInv
  <2>2. ASSUME NEW x \in Filings, passed[x] > 0 PROVE passed[x] * PageCap[Sort[x]] <= ahead[x] + faults[Sort[x]]
    <3>1. x \in Listed
      <4>1. passed[x] # 0
        BY <2>2
      <4> QED BY <1>1, <4>1 DEF FetchInv, Accounted
    <3> DEFINE p == passed[x] * PageCap[Sort[x]]
    <3>2. p \in Nat /\ Waited(x) \in Nat /\ Cardinality(Before(x)) \in Nat /\ ahead[x] \in Nat /\ faults[Sort[x]] \in Nat
      BY <1>1, <3>1, Parts
    <3>3. p + Waited(x) + Cardinality(Before(x)) <= ahead[x] + faults[Sort[x]]
      BY <1>1, <3>1, Parts DEF Balanced
    <3> HIDE DEF p
    <3>4. p <= ahead[x] + faults[Sort[x]]
      BY ONLY <3>2, <3>3
    <3> QED BY <3>4 DEF p
  <2>3. TakesTurns
    BY <2>2 DEF TakesTurns
  <2> QED BY <2>1, <2>3 DEF ListReadThrough
<1> QED BY <1>1, FetchInvariant, PTL

=============================================================================
