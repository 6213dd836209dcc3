----------------------------- MODULE Surfaces_proofs -----------------------------
(***************************************************************************)
(* Three things a user reads or keeps, for any number of requests: the     *)
(* desktop releases, the events of an open tab, and a portfolio.           *)
(*                                                                         *)
(* An upload and a deletion of a release change the disk before they       *)
(* commit.  As long as nothing clashed on a version, each slot of its      *)
(* directory is what the one open upload into that slot will write, or     *)
(* else what the rows say; and what an open request read of its row is     *)
(* still true when it commits.                                             *)
(*                                                                         *)
(* A tab's stream has covered what lies below the stream's cursor, with    *)
(* what the tab has and what is on its way, in order, between the two      *)
(* cursors; so the tab has covered what lies below its own.                *)
(*                                                                         *)
(* A request of a portfolio that nothing overtook will write what the      *)
(* transactions it leaves amount to.                                       *)
(***************************************************************************)
EXTENDS Releases, LiveEvents, Portfolios, FiniteSetTheorems, TLAPS

-----------------------------------------------------------------------------
(* The inductive invariant *)

Pending == {job[h] : h \in Open}

TypeOK ==
    /\ release \in [Numbers -> ReleaseRows \cup {Missing}]
    /\ disk \in [Numbers -> [Artifacts -> Digests \cup {Missing}]]
    /\ job \in [Handlers -> Jobs \cup {Free}]
    /\ born \in Nat
    /\ frayed \subseteq Numbers

Listed(n) == IF release[n] = Missing THEN {} ELSE release[n].files

\* Releases are numbered as they are created.
BornBelow ==
    /\ \A n \in Numbers : release[n] # Missing => release[n].born <= born
    /\ \A j \in Pending : j.born <= born

\* A signature signs the bytes it came with.
Verifies(x) == x.signature \in {Missing, x.digest}

Signed ==
    /\ \A n \in Numbers : \A x \in Listed(n) : Verifies(x)
    /\ \A j \in Pending : j.op = "upload" => Verifies(j.file)

\* Requests that may not overlap fray their versions.
Apart == \A h, k \in Open : h # k /\ Clash(job[h], job[k]) => {job[h].version, job[k].version} \subseteq frayed

Offers(files) == \E x \in files : Downloadable(x, files)

NamesOf(n) == {x.name : x \in Listed(n)}

\* What a request read of its row is still so.
Fits(j) ==
    /\ j.creates =>
         /\ release[j.version] = Missing
         /\ \A m \in Numbers \ frayed : release[m] # Missing => m < j.version /\ release[m].born < j.born
    /\ ~ j.creates => release[j.version] # Missing /\ release[j.version].born = j.born
    /\ j.op = "upload" => j.older = {g \in NamesOf(j.version) \ {j.file.name} : SameSlot(j.file.name, g)}
    /\ j.op = "status" => (j.status = "PUBLISHED" => Offers(Listed(j.version)))

RequestsFit == \A j \in Pending : j.version \notin frayed => Fits(j)

InOrder ==
    \A m, n \in Numbers \ frayed :
        release[m] # Missing /\ release[n] # Missing /\ m < n => release[m].born < release[n].born

Kept(n) ==
    release[n] # Missing =>
        /\ OnePerSlot(n)
        /\ release[n].status = "PUBLISHED" => Offers(release[n].files)

\* What the disk holds of a name while nothing is on its way to it.
Tells(n, f) ==
    /\ \A x \in Listed(n) : x.name = f => disk[n][f] = x.digest
    /\ f \notin NamesOf(n) => disk[n][f] = Missing

Deleting(n) == \E j \in Pending : j.version = n /\ j.op = "delete"

Into(n, f) == {j \in Pending : j.version = n /\ j.op = "upload" /\ SameSlot(f, j.file.name)}

DiskTells(n) ==
    /\ Deleting(n) => \A f \in Artifacts : disk[n][f] = Missing
    /\ ~ Deleting(n) => \A f \in Artifacts :
          /\ \A j \in Into(n, f) : disk[n][f] = IF f = j.file.name THEN j.file.digest ELSE Missing
          /\ Into(n, f) = {} => Tells(n, f)

ReleasesInv ==
    /\ TypeOK /\ BornBelow /\ Signed /\ Apart /\ RequestsFit /\ InOrder
    /\ \A n \in Numbers \ frayed : Kept(n) /\ DiskTells(n)

-----------------------------------------------------------------------------
(* The newest version *)

\* A finite set has a maximal element in any strict order.
LEMMA Maximal ==
    ASSUME NEW S, IsFiniteSet(S), S # {}, NEW R,
           \A x \in S : <<x, x>> \notin R,
           \A x, y, z \in S : <<x, y>> \in R /\ <<y, z>> \in R => <<x, z>> \in R
    PROVE  \E f \in S : \A g \in S : <<f, g>> \notin R
<1> DEFINE Above(f) == {g \in S : <<f, g>> \in R}
           T == {Above(f) : f \in S}
<1>1. IsWellFoundedOn(StrictSubsetOrdering(S), SUBSET S)
  <2>1. FiniteSubsetsOf(S) = SUBSET S
    BY ONLY IsFiniteSet(S), FS_FiniteSubsetsOfFinite
  <2>2. IsWellFoundedOn(StrictSubsetOrdering(S), FiniteSubsetsOf(S))
    BY ONLY FS_StrictSubsetOrderingWellFounded
  <2> QED BY ONLY <2>1, <2>2
<1>2. T \subseteq SUBSET S /\ T # {}
  BY ONLY S # {}
<1>3. PICK U \in T : \A V \in T : <<V, U>> \notin StrictSubsetOrdering(S)
  <2> HIDE DEF T
  <2> QED BY <1>1, <1>2, WFMin
<1>4. PICK f \in S : U = Above(f)
  BY <1>3
<1>5. ASSUME NEW g \in S, <<f, g>> \in R PROVE FALSE
  <2>1. Above(g) \subseteq Above(f) /\ g \in Above(f) /\ g \notin Above(g)
    BY <1>5
  <2>2. <<Above(g), U>> \in StrictSubsetOrdering(S)
    BY <1>4, <2>1 DEF StrictSubsetOrdering
  <2> QED BY <1>3, <2>2
<1> QED BY <1>5

\* Some numbers have a greatest one.
LEMMA Greatest ==
    ASSUME NEW S \in SUBSET Nat, IsFiniteSet(S), S # {}
    PROVE  Max(S) \in S /\ \A n \in S : n <= Max(S)
<1> DEFINE R == {p \in S \X S : p[1] < p[2]}
<1>1. \A x, y \in S : <<x, y>> \in R <=> x < y
  OBVIOUS
<1>2. \E f \in S : \A g \in S : <<f, g>> \notin R
  <2>1. \A x \in S : <<x, x>> \notin R
    BY <1>1
  <2>2. \A x, y, z \in S : <<x, y>> \in R /\ <<y, z>> \in R => <<x, z>> \in R
    BY <1>1
  <2> HIDE DEF R
  <2> QED BY <2>1, <2>2, Maximal
<1>3. \E f \in S : \A g \in S : f >= g
  <2>1. PICK f \in S : \A g \in S : ~ (f < g)
    BY <1>1, <1>2
  <2>2. \A g \in S : f \in Nat /\ g \in Nat
    OBVIOUS
  <2> QED BY <2>1, <2>2
<1> QED BY <1>3 DEF Max

\* latest_version answers 0 or a release of the status, and none is above it.
LEMMA Newest ==
    ASSUME NEW status
    PROVE  /\ Latest(status) \in Known(status) \cup {0}
           /\ Latest(status) \in Nat
           /\ \A m \in Known(status) : m <= Latest(status)
<1> DEFINE S == Known(status) \cup {0}
<1>1. S \in SUBSET Nat /\ S # {}
  <2>1. Numbers \subseteq Nat
    BY ReleasesAssumption
  <2>2. Known(status) \subseteq Numbers
    BY DEF Known
  <2>3. ASSUME NEW n \in S PROVE n \in Nat
    <3>1. CASE n \in Known(status)
      <4>1. n \in Numbers
        BY <2>2, <3>1
      <4> QED BY <2>1, <4>1
    <3>2. CASE n = 0
      BY <3>2
    <3> QED BY <3>1, <3>2
  <2>4. 0 \in S
    OBVIOUS
  <2> HIDE DEF S
  <2> QED BY <2>3, <2>4
<1>2. IsFiniteSet(S)
  <2>1. IsFiniteSet(Known(status))
    BY ReleasesAssumption, FS_Subset DEF Known
  <2> QED BY <2>1, FS_AddElement
<1>3. Max(S) \in S /\ \A n \in S : n <= Max(S)
  BY <1>1, <1>2, Greatest
<1> QED BY <1>1, <1>3 DEF Latest

\* Every release has one of the three statuses.
LEMMA AllKnown ==
    ASSUME TypeOK
    PROVE  \A n \in Numbers : n \in Known({"DRAFT", "PUBLISHED", "WITHDRAWN"}) <=> release[n] # Missing
BY DEF TypeOK, ReleaseRows, Known

\* A number nobody has that the store accepts is above every release.
LEMMA NewNumber ==
    ASSUME TypeOK, NEW n \in Numbers, release[n] = Missing, NumberAccepted(n)
    PROVE  \A m \in Numbers : release[m] # Missing => m < n
<1>1. n >= Latest({"DRAFT", "PUBLISHED", "WITHDRAWN"})
  BY DEF NumberAccepted
<1>2. \A m \in Known({"DRAFT", "PUBLISHED", "WITHDRAWN"}) : m <= n
  BY <1>1, Newest, ReleasesAssumption DEF Known
<1> QED BY <1>2, AllKnown, ReleasesAssumption

-----------------------------------------------------------------------------
(* Requests *)

LEMMA ClashBothWays ==
    ASSUME NEW j, NEW k, Clash(j, k)
    PROVE  Clash(k, j)
BY DEF Clash, SameSlot

\* A request that opens leaves the others as they are, and frays what it clashes with.
LEMMA Opening ==
    ASSUME TypeOK, Apart, NEW h \in Handlers, NEW j \in Jobs, OpenRequest(h, j)
    PROVE  /\ job' \in [Handlers -> Jobs \cup {Free}]
           /\ release' = release
           /\ frayed' \subseteq Numbers /\ frayed \subseteq frayed'
           /\ Pending' = Pending \cup {j}
           /\ Apart'
           /\ \A k \in Pending : Clash(j, k) => j.version \in frayed' /\ k.version \in frayed'
<1>1. j # Free
  BY ReleasesAssumption
<1>2. h \notin Open /\ Open' = Open \cup {h} /\ job'[h] = j /\ \A k \in Open : job'[k] = job[k] /\ k # h
  BY <1>1 DEF OpenRequest, Open, TypeOK
<1>3. \A k \in Open : Clash(j, job[k]) => {j.version, job[k].version} \subseteq frayed'
  BY DEF OpenRequest
<1>4. \A k \in Open : job[k] \in Jobs
  BY DEF Open, TypeOK
<1>5. j.version \in Numbers /\ \A k \in Open : job[k].version \in Numbers
  BY <1>4 DEF Jobs, Uploads, Nexts, Changes, Deletions
<1>6. release' = release /\ frayed \subseteq frayed' /\ job' \in [Handlers -> Jobs \cup {Free}]
  BY DEF OpenRequest, TypeOK
<1>7. frayed' \subseteq Numbers
  BY <1>5 DEF OpenRequest, TypeOK
<1>8. Pending' = Pending \cup {j}
  BY <1>2 DEF Pending
<1>9. Apart'
  <2> SUFFICES ASSUME NEW a \in Open', NEW b \in Open', a # b, Clash(job'[a], job'[b])
               PROVE  {job'[a].version, job'[b].version} \subseteq frayed'
    BY DEF Apart
  <2>1. CASE a = h
    BY <1>2, <1>3, <2>1
  <2>2. CASE b = h
    <3>1. a \in Open /\ Clash(job[a], j)
      BY <1>2, <2>2
    <3>2. Clash(j, job[a])
      BY <3>1, ClashBothWays
    <3> QED BY <1>2, <1>3, <2>2, <3>1, <3>2
  <2>3. CASE a # h /\ b # h
    BY <1>2, <1>6, <2>3 DEF Apart
  <2> QED BY <2>1, <2>2, <2>3
<1>10. \A k \in Pending : Clash(j, k) => j.version \in frayed' /\ k.version \in frayed'
  BY <1>3 DEF Pending
<1> QED BY <1>6, <1>7, <1>8, <1>9, <1>10

\* What is known of the rows stays known when only requests and versions frayed are added.
LEMMA RowsUntouched ==
    ASSUME RequestsFit, InOrder, release' = release, frayed \subseteq frayed'
    PROVE  /\ \A j \in Pending : j.version \notin frayed' => Fits(j)'
           /\ InOrder'
           /\ \A n \in Numbers : Kept(n) => Kept(n)'
<1>1. ASSUME NEW j \in Pending, j.version \notin frayed' PROVE Fits(j)'
  <2>1. Fits(j)
    BY <1>1 DEF RequestsFit
  <2> QED BY <2>1 DEF Fits, Listed, NamesOf, Offers, Downloadable, SameSlot
<1>2. InOrder'
  BY DEF InOrder
<1>3. \A n \in Numbers : Kept(n) => Kept(n)'
  BY DEF Kept, OnePerSlot, Offers, Downloadable, SameSlot
<1> QED BY <1>1, <1>2, <1>3

\* A request in flight that fits, beside the others.
LEMMA OneMoreFits ==
    ASSUME RequestsFit, InOrder, release' = release, frayed \subseteq frayed',
           NEW j, Pending' = Pending \cup {j}, j.version \notin frayed' => Fits(j)'
    PROVE  RequestsFit' /\ InOrder' /\ \A n \in Numbers : Kept(n) => Kept(n)'
<1>1. \A k \in Pending : k.version \notin frayed' => Fits(k)'
  BY RowsUntouched
<1>2. RequestsFit'
  BY <1>1 DEF RequestsFit
<1> QED BY <1>2, RowsUntouched

\* Two names of one slot are of every slot together.
LEMMA Slots ==
    ASSUME NEW f, NEW g, NEW h
    PROVE  /\ SameSlot(f, f)
           /\ SameSlot(f, g) => SameSlot(g, f)
           /\ SameSlot(f, g) /\ SameSlot(g, h) => SameSlot(f, h)
BY DEF SameSlot

\* The types of what a request carries.
LEMMA JobTypes ==
    ASSUME NEW j \in Jobs
    PROVE  /\ j.version \in Numbers /\ j.creates \in BOOLEAN /\ j.born \in Nat
           /\ j.op \in {"upload", "next", "status", "delete"}
           /\ j.op = "upload" => j \in Uploads /\ j.file \in FileRows /\ j.file.name \in Artifacts
                                 /\ j.file.digest \in Digests /\ j.older \in SUBSET Artifacts
           /\ j.op = "next" => j.creates
           /\ j.op = "status" => ~ j.creates /\ j.status \in {"DRAFT", "PUBLISHED", "WITHDRAWN"}
           /\ j.op = "delete" => ~ j.creates
BY DEF Jobs, Uploads, Nexts, Changes, Deletions, FileRows

LEMMA PendingTypes ==
    ASSUME TypeOK
    PROVE  Pending \subseteq Jobs
BY DEF TypeOK, Pending, Open

\* Of a version in order, a slot that is being filled has one upload, and nothing is being deleted.
LEMMA RowTypes ==
    ASSUME TypeOK, NEW n \in Numbers
    PROVE  /\ Listed(n) \subseteq FileRows
           /\ NamesOf(n) \subseteq Artifacts
           /\ release[n] # Missing => release[n] \in ReleaseRows /\ release[n].born \in Nat
BY DEF TypeOK, Listed, NamesOf, ReleaseRows, FileRows

\* Uploading writes the file, unlinks what it replaces, and leaves the other slots alone.
LEMMA UploadKeeps ==
    ASSUME ReleasesInv, NEW h \in Handlers, NEW n \in Numbers, NEW b \in Builds, NEW s \in {b.bytes, Missing},
           Upload(h, n, b.name, b.bytes, s)
    PROVE  ReleasesInv'
<1> DEFINE f == b.name
           file == [name |-> f, digest |-> b.bytes, signature |-> s]
           bn == IF release[n] = Missing THEN born + 1 ELSE release[n].born
           r == [op |-> "upload", version |-> n, creates |-> release[n] = Missing, born |-> bn,
                 file |-> FileRow(n, f, b.bytes, s), older |-> Older(n, f),
                 new |-> release[n] = Missing \/ \A x \in release[n].files : x.name # f]
<1>1. TypeOK /\ BornBelow /\ Signed /\ Apart /\ RequestsFit /\ InOrder /\ \A m \in Numbers \ frayed : Kept(m) /\ DiskTells(m)
  BY DEF ReleasesInv
<1>2. f \in Artifacts /\ b.bytes \in Digests /\ file \in FileRows /\ FileRow(n, f, b.bytes, s) = file
  BY ReleasesAssumption DEF Digests, FileRows, FileRow
<1>3. Older(n, f) = {g \in NamesOf(n) \ {f} : SameSlot(f, g)}
  BY DEF Older, NamesOf, Listed
<1>4. bn \in Nat /\ bn <= born' /\ born <= born' /\ born' \in Nat
  BY <1>1, RowTypes DEF Upload, TypeOK, BornBelow
<1>5. PICK j \in Jobs : OpenRequest(h, j) /\ j = r
  <2>1. Older(n, f) \in SUBSET Artifacts
    BY <1>1, <1>3, RowTypes
  <2>2. r \in Jobs
    BY <1>2, <1>4, <2>1 DEF Jobs, Uploads
  <2>3. OpenRequest(h, r)
    BY DEF Upload
  <2> QED BY <2>2, <2>3
<1>6. NumberAccepted(n)
  BY DEF Upload
<1>7. /\ j.op = "upload" /\ j.version = n /\ j.creates = (release[n] = Missing) /\ j.born = bn
      /\ j.file = file /\ j.older = Older(n, f)
  BY <1>2, <1>5
<1>8. file.name = f /\ file.digest = b.bytes /\ file.signature = s
  OBVIOUS
<1> HIDE DEF r, file, bn, f
<1>9. /\ job' \in [Handlers -> Jobs \cup {Free}] /\ release' = release /\ frayed' \subseteq Numbers /\ frayed \subseteq frayed'
      /\ Pending' = Pending \cup {j} /\ Apart'
      /\ \A k \in Pending : Clash(j, k) => j.version \in frayed' /\ k.version \in frayed'
  BY <1>1, <1>5, Opening
<1>10. disk' = [disk EXCEPT ![n] = [g \in Artifacts |-> IF g = f THEN b.bytes ELSE IF g \in Older(n, f) THEN Missing ELSE @[g]]]
  BY DEF Upload, f
<1>11. /\ \A m \in Numbers : m # n => disk'[m] = disk[m]
       /\ \A g \in Artifacts : disk'[n][g] = IF g = f THEN b.bytes ELSE IF g \in Older(n, f) THEN Missing ELSE disk[n][g]
  BY <1>1, <1>10 DEF TypeOK
<1>12. TypeOK'
  <2>1. [g \in Artifacts |-> IF g = f THEN b.bytes ELSE IF g \in Older(n, f) THEN Missing ELSE disk[n][g]]
            \in [Artifacts -> Digests \cup {Missing}]
    BY <1>1, <1>2 DEF TypeOK
  <2>2. disk' \in [Numbers -> [Artifacts -> Digests \cup {Missing}]]
    BY <1>1, <1>10, <2>1 DEF TypeOK
  <2> QED BY <1>1, <1>4, <1>9, <2>2 DEF TypeOK
<1>13. BornBelow'
  <2>1. \A m \in Numbers : release'[m] # Missing => release'[m].born <= born'
    BY <1>1, <1>4, <1>9, RowTypes DEF BornBelow, TypeOK
  <2>2. \A k \in Pending : k.born <= born'
    BY <1>1, <1>4, PendingTypes, JobTypes DEF BornBelow, TypeOK
  <2> QED BY <1>4, <1>7, <1>9, <2>1, <2>2 DEF BornBelow
<1>14. Signed'
  BY <1>1, <1>7, <1>8, <1>9 DEF Signed, Verifies, Listed
<1>15. RequestsFit' /\ InOrder' /\ \A m \in Numbers : Kept(m) => Kept(m)'
  <2>1. ASSUME j.creates PROVE \A m \in Numbers \ frayed' : release'[m] # Missing => m < j.version /\ release'[m].born < j.born
    <3>1. release[n] = Missing /\ j.born = born + 1
      BY <1>7, <2>1 DEF bn
    <3>2. \A m \in Numbers : release[m] # Missing => m < n
      BY <1>1, <1>6, <3>1, NewNumber
    <3>3. \A m \in Numbers : release[m] # Missing => release[m].born < j.born
      BY <1>1, <3>1, RowTypes DEF BornBelow, TypeOK
    <3> QED BY <1>7, <1>9, <3>2, <3>3
  <2>2. ~ j.creates => release'[j.version] # Missing /\ release'[j.version].born = j.born
    BY <1>7, <1>9 DEF bn
  <2>3. j.creates => release'[j.version] = Missing
    BY <1>7, <1>9
  <2>4. j.older = {g \in NamesOf(j.version)' \ {j.file.name} : SameSlot(j.file.name, g)}
    BY <1>3, <1>7, <1>8, <1>9 DEF NamesOf, Listed
  <2>5. Fits(j)'
    BY <1>7, <2>1, <2>2, <2>3, <2>4 DEF Fits
  <2> QED BY <1>1, <1>9, <2>5, OneMoreFits
<1>16. ASSUME NEW m \in Numbers \ frayed' PROVE DiskTells(m)'
  <2>1. DiskTells(m)
    BY <1>1, <1>9, <1>16
  <2>2. Deleting(m)' <=> Deleting(m)
    BY <1>7, <1>9 DEF Deleting
  <2>3. CASE m # n
    <3>1. \A g : Into(m, g)' = Into(m, g)
      BY <1>7, <1>9, <2>3 DEF Into
    <3>2. NamesOf(m)' = NamesOf(m) /\ Listed(m)' = Listed(m) /\ disk'[m] = disk[m]
      BY <1>9, <1>11, <2>3 DEF NamesOf, Listed
    <3> QED BY <2>1, <2>2, <3>1, <3>2 DEF DiskTells, Tells
  <2>4. CASE m = n
    <3>1. \A k \in Pending : ~ Clash(j, k)
      BY <1>7, <1>9, <1>16, <2>4
    <3>2. ~ Deleting(n)
      BY <1>7, <3>1 DEF Deleting, Clash
    <3>3. \A k \in Pending : k.version = n /\ k.op = "upload" => ~ SameSlot(f, k.file.name)
      BY <1>7, <1>8, <3>1 DEF Clash
    <3>4. NamesOf(n)' = NamesOf(n) /\ Listed(n)' = Listed(n)
      BY <1>9 DEF NamesOf, Listed
    <3>5. ASSUME NEW g \in Artifacts
          PROVE  /\ \A k \in Into(n, g)' : disk'[n][g] = IF g = k.file.name THEN k.file.digest ELSE Missing
                 /\ Into(n, g)' = {} => Tells(n, g)'
      <4>1. CASE SameSlot(f, g)
        <5>1. Into(n, g) = {} /\ Into(n, g)' = {j}
          BY <1>7, <1>8, <1>9, <3>3, <4>1, Slots DEF Into
        <5>2. Tells(n, g)
          BY <2>1, <2>4, <3>2, <5>1 DEF DiskTells
        <5>3. g # f => disk'[n][g] = Missing
          BY <1>3, <1>11, <4>1, <5>2 DEF Tells
        <5> QED BY <1>7, <1>8, <1>11, <5>1, <5>3
      <4>2. CASE ~ SameSlot(f, g)
        <5>1. Into(n, g)' = Into(n, g)
          BY <1>7, <1>8, <1>9, <4>2, Slots DEF Into
        <5>2. disk'[n][g] = disk[n][g]
          BY <1>3, <1>11, <4>2, Slots
        <5> QED BY <2>1, <2>4, <3>2, <3>4, <5>1, <5>2 DEF DiskTells, Tells
      <4> QED BY <4>1, <4>2
    <3> QED BY <2>2, <2>4, <3>2, <3>5 DEF DiskTells
  <2> QED BY <2>3, <2>4
<1> QED BY <1>1, <1>9, <1>12, <1>13, <1>14, <1>15, <1>16 DEF ReleasesInv

\* Opening a request that leaves the disk alone.
LEMMA QuietOpening ==
    ASSUME ReleasesInv, NEW h \in Handlers, NEW j \in Jobs, OpenRequest(h, j), UNCHANGED disk,
           born' \in Nat, born <= born', j.born <= born', j.op \in {"next", "status"},
           release' = release => (j.version \notin frayed' => Fits(j)')
    PROVE  ReleasesInv'
<1>1. TypeOK /\ BornBelow /\ Signed /\ Apart /\ RequestsFit /\ InOrder /\ \A m \in Numbers \ frayed : Kept(m) /\ DiskTells(m)
  BY DEF ReleasesInv
<1>2. /\ job' \in [Handlers -> Jobs \cup {Free}] /\ release' = release /\ frayed' \subseteq Numbers /\ frayed \subseteq frayed'
      /\ Pending' = Pending \cup {j} /\ Apart'
  BY <1>1, Opening
<1>3. TypeOK'
  BY <1>1, <1>2 DEF TypeOK
<1>4. BornBelow'
  <2>1. \A m \in Numbers : release'[m] # Missing => release'[m].born <= born'
    BY <1>1, <1>2, RowTypes DEF BornBelow, TypeOK
  <2>2. \A k \in Pending : k.born <= born'
    BY <1>1, PendingTypes, JobTypes DEF BornBelow, TypeOK
  <2> QED BY <1>2, <2>1, <2>2 DEF BornBelow
<1>5. Signed'
  BY <1>1, <1>2 DEF Signed, Verifies, Listed
<1>6. RequestsFit' /\ InOrder' /\ \A m \in Numbers : Kept(m) => Kept(m)'
  BY <1>1, <1>2, OneMoreFits
<1>7. ASSUME NEW m \in Numbers \ frayed' PROVE DiskTells(m)'
  <2>1. DiskTells(m)
    BY <1>1, <1>2, <1>7
  <2>2. Deleting(m)' <=> Deleting(m)
    BY <1>2 DEF Deleting
  <2>3. \A g : Into(m, g)' = Into(m, g)
    BY <1>2 DEF Into
  <2>4. NamesOf(m)' = NamesOf(m) /\ Listed(m)' = Listed(m) /\ disk'[m] = disk[m]
    BY <1>2 DEF NamesOf, Listed
  <2> QED BY <2>1, <2>2, <2>3, <2>4 DEF DiskTells, Tells
<1> QED BY <1>1, <1>2, <1>3, <1>4, <1>5, <1>6, <1>7 DEF ReleasesInv

\* A new number is above the others.
LEMMA NextKeeps ==
    ASSUME ReleasesInv, NEW h \in Handlers, Next_version(h)
    PROVE  ReleasesInv'
<1> DEFINE last == Latest({"DRAFT", "PUBLISHED", "WITHDRAWN"})
           n == IF last = 0 THEN First ELSE last + 1
           r == [op |-> "next", version |-> n, creates |-> TRUE, born |-> born + 1]
<1>1. TypeOK /\ BornBelow
  BY DEF ReleasesInv
<1>2. n \in Numbers /\ born' = born + 1 /\ OpenRequest(h, r) /\ UNCHANGED disk
  BY DEF Next_version
<1>3. last \in Nat /\ \A m \in Numbers : release[m] # Missing => m <= last
  BY <1>1, AllKnown, Newest
<1>4. \A m \in Numbers : release[m] # Missing => m < n
  <2>1. \A m \in Numbers : m \in Nat /\ m # 0
    BY ReleasesAssumption
  <2>2. \A m \in Numbers : release[m] # Missing => last # 0
    BY <1>3, <2>1
  <2> HIDE DEF last
  <2> QED BY <1>3, <2>1, <2>2
<1>5. n \in Nat
  BY <1>2, ReleasesAssumption
<1>6. release[n] = Missing
  BY <1>2, <1>4, <1>5
<1>7. r.op = "next" /\ r.version = n /\ r.creates = TRUE /\ r.born = born + 1
  OBVIOUS
<1>8. PICK j \in Jobs : OpenRequest(h, j) /\ j.op = "next" /\ j.version = n /\ j.creates = TRUE /\ j.born = born + 1
  <2>1. r \in Jobs
    BY <1>1, <1>2 DEF Jobs, Nexts, TypeOK
  <2> HIDE DEF r, n
  <2> QED BY <1>2, <1>7, <2>1
<1> HIDE DEF r, n
<1>9. \A m \in Numbers : release[m] # Missing => release[m].born < born + 1
  BY <1>1, RowTypes DEF BornBelow, TypeOK
<1>10. release' = release => (j.version \notin frayed' => Fits(j)')
  BY <1>4, <1>6, <1>8, <1>9 DEF Fits
<1>11. born' \in Nat /\ born <= born' /\ j.born <= born'
  BY <1>1, <1>2, <1>8 DEF TypeOK
<1> QED BY <1>2, <1>8, <1>10, <1>11, QuietOpening

\* A publication has looked at what there is to download.
LEMMA StatusKeeps ==
    ASSUME ReleasesInv, NEW h \in Handlers, NEW n \in Numbers, NEW status \in {"DRAFT", "PUBLISHED", "WITHDRAWN"},
           SetStatus(h, n, status)
    PROVE  ReleasesInv'
<1> DEFINE r == [op |-> "status", version |-> n, creates |-> FALSE, born |-> release[n].born, status |-> status]
<1>1. TypeOK /\ BornBelow
  BY DEF ReleasesInv
<1>2. /\ release[n] # Missing /\ OpenRequest(h, r) /\ UNCHANGED <<disk, born>>
      /\ status = "PUBLISHED" => Offers(Listed(n))
  BY DEF SetStatus, Offers, Listed
<1>3. r.op = "status" /\ r.version = n /\ r.creates = FALSE /\ r.born = release[n].born /\ r.status = status
  OBVIOUS
<1>4. PICK j \in Jobs : /\ OpenRequest(h, j) /\ j.op = "status" /\ j.version = n /\ j.creates = FALSE
                      /\ j.born = release[n].born /\ j.status = status
  <2>1. r \in Jobs
    BY <1>1, <1>2, RowTypes DEF Jobs, Changes
  <2> HIDE DEF r
  <2> QED BY <1>2, <1>3, <2>1
<1> HIDE DEF r
<1>5. release' = release => (j.version \notin frayed' => Fits(j)')
  BY <1>2, <1>4 DEF Fits, Offers, Listed, Downloadable
<1>6. born' \in Nat /\ born <= born' /\ j.born <= born'
  BY <1>1, <1>2, <1>4 DEF TypeOK, BornBelow
<1> QED BY <1>2, <1>4, <1>5, <1>6, QuietOpening

\* A deletion empties the directory; what else is open on the version frays it.
LEMMA DeleteKeeps ==
    ASSUME ReleasesInv, NEW h \in Handlers, NEW n \in Numbers, DeleteRelease(h, n)
    PROVE  ReleasesInv'
<1> DEFINE r == [op |-> "delete", version |-> n, creates |-> FALSE, born |-> release[n].born,
                 loaded |-> {x.name : x \in release[n].files}]
<1>1. TypeOK /\ BornBelow /\ Signed /\ Apart /\ RequestsFit /\ InOrder /\ \A m \in Numbers \ frayed : Kept(m) /\ DiskTells(m)
  BY DEF ReleasesInv
<1>2. /\ release[n] # Missing /\ OpenRequest(h, r) /\ UNCHANGED born
      /\ disk' = [disk EXCEPT ![n] = [f \in Artifacts |-> Missing]]
  BY DEF DeleteRelease
<1>3. PICK j \in Jobs : /\ OpenRequest(h, j) /\ j.op = "delete" /\ j.version = n /\ j.creates = FALSE
                      /\ j.born = release[n].born
  <2>1. {x.name : x \in release[n].files} \in SUBSET Artifacts
    BY <1>1, <1>2, RowTypes DEF NamesOf, Listed
  <2>2. r \in Jobs
    BY <1>1, <1>2, <2>1, RowTypes DEF Jobs, Deletions
  <2>3. r.op = "delete" /\ r.version = n /\ r.creates = FALSE /\ r.born = release[n].born
    OBVIOUS
  <2> HIDE DEF r
  <2> QED BY <1>2, <2>2, <2>3
<1> HIDE DEF r
<1>5. /\ job' \in [Handlers -> Jobs \cup {Free}] /\ release' = release /\ frayed' \subseteq Numbers /\ frayed \subseteq frayed'
      /\ Pending' = Pending \cup {j} /\ Apart'
  BY <1>1, <1>3, Opening
<1>6. (\A m \in Numbers : m # n => disk'[m] = disk[m]) /\ \A f \in Artifacts : disk'[n][f] = Missing
  BY <1>1, <1>2 DEF TypeOK
<1>7. TypeOK'
  <2>1. disk' \in [Numbers -> [Artifacts -> Digests \cup {Missing}]]
    BY <1>1, <1>2 DEF TypeOK
  <2> QED BY <1>1, <1>2, <1>5, <2>1 DEF TypeOK
<1>8. BornBelow' /\ Signed'
  BY <1>1, <1>2, <1>3, <1>5 DEF BornBelow, Signed, Verifies, Listed
<1>9. RequestsFit' /\ InOrder' /\ \A m \in Numbers : Kept(m) => Kept(m)'
  <2>1. Fits(j)'
    BY <1>2, <1>3, <1>5 DEF Fits
  <2> QED BY <1>1, <1>5, <2>1, OneMoreFits
<1>10. ASSUME NEW m \in Numbers \ frayed' PROVE DiskTells(m)'
  <2>1. DiskTells(m)
    BY <1>1, <1>5, <1>10
  <2>2. CASE m = n
    BY <1>3, <1>5, <1>6, <2>2 DEF DiskTells, Deleting
  <2>3. CASE m # n
    <3>1. Deleting(m)' <=> Deleting(m)
      BY <1>3, <1>5, <2>3 DEF Deleting
    <3>2. \A g : Into(m, g)' = Into(m, g)
      BY <1>3, <1>5, <2>3 DEF Into
    <3>3. NamesOf(m)' = NamesOf(m) /\ Listed(m)' = Listed(m) /\ disk'[m] = disk[m]
      BY <1>5, <1>6, <2>3 DEF NamesOf, Listed
    <3> QED BY <2>1, <3>1, <3>2, <3>3 DEF DiskTells, Tells
  <2> QED BY <2>2, <2>3
<1> QED BY <1>1, <1>5, <1>7, <1>8, <1>9, <1>10 DEF ReleasesInv

-----------------------------------------------------------------------------
(* Commits *)

\* What a request is without its handler.
LEMMA Closing ==
    ASSUME TypeOK, Apart, NEW h \in Open, job' = [job EXCEPT ![h] = Free], frayed \subseteq frayed'
    PROVE  /\ job' \in [Handlers -> Jobs \cup {Free}]
           /\ job[h] \in Pending /\ job[h] \in Jobs
           /\ Pending' \subseteq Pending /\ Pending \subseteq Pending' \cup {job[h]}
           /\ Apart'
           /\ job[h].version \notin frayed => \A k \in Pending' : ~ Clash(job[h], k)
<1>1. h \in Handlers /\ job[h] \in Jobs /\ Open' = Open \ {h} /\ \A k \in Open \ {h} : job'[k] = job[k]
  BY DEF Open, TypeOK
<1>2. job' \in [Handlers -> Jobs \cup {Free}]
  BY DEF TypeOK
<1>3. Pending' = {job[k] : k \in Open \ {h}}
  BY <1>1 DEF Pending
<1>4. Pending' \subseteq Pending /\ Pending \subseteq Pending' \cup {job[h]} /\ job[h] \in Pending
  BY <1>3 DEF Pending
<1>5. Apart'
  BY <1>1 DEF Apart
<1>6. ASSUME job[h].version \notin frayed, NEW k \in Open \ {h} PROVE ~ Clash(job[h], job[k])
  BY <1>6 DEF Apart
<1>7. job[h].version \notin frayed => \A k \in Pending' : ~ Clash(job[h], k)
  BY <1>3, <1>6
<1> QED BY <1>1, <1>2, <1>4, <1>5, <1>7

\* What is written is a row.
LEMMA WrittenTypes ==
    ASSUME TypeOK, BornBelow, Signed, NEW j \in Pending, Commits(j)
    PROVE  /\ Written(j) \in ReleaseRows \cup {Missing}
           /\ Written(j) # Missing => Written(j).born <= born /\ \A x \in Written(j).files : Verifies(x)
<1>1. j \in Jobs
  BY PendingTypes
<1>2. j.version \in Numbers /\ j.creates \in BOOLEAN /\ j.born \in Nat
  BY <1>1, JobTypes
<1>3. CASE j.creates
  <2>1. Written(j) = [status |-> "DRAFT", born |-> j.born, files |-> IF j.op = "upload" THEN {j.file} ELSE {}]
    BY <1>1, <1>3, JobTypes DEF Written
  <2>2. (IF j.op = "upload" THEN {j.file} ELSE {}) \in SUBSET FileRows
    BY <1>1, JobTypes
  <2>3. \A x \in (IF j.op = "upload" THEN {j.file} ELSE {}) : Verifies(x)
    BY DEF Signed
  <2>4. Written(j) \in ReleaseRows
    BY <1>2, <2>1, <2>2 DEF ReleaseRows
  <2>5. Written(j).born = j.born /\ Written(j).files = IF j.op = "upload" THEN {j.file} ELSE {}
    BY <2>1
  <2> QED BY <2>3, <2>4, <2>5 DEF BornBelow
<1>4. CASE ~ j.creates /\ j.op = "upload"
  <2> DEFINE kept == {x \in release[j.version].files : x.name \notin j.older \cup {j.file.name}} \cup {j.file}
  <2>1. SameRow(j)
    BY <1>4 DEF Commits
  <2>2. release[j.version] # Missing /\ release[j.version] \in ReleaseRows
    BY <1>2, <2>1, RowTypes DEF SameRow
  <2>3. Written(j) = [release[j.version] EXCEPT !.files = kept]
    BY <1>4 DEF Written
  <2>4. kept \in SUBSET FileRows
    BY <1>1, <1>4, <2>2, JobTypes DEF ReleaseRows
  <2>5. \A x \in kept : Verifies(x)
    <3>1. Verifies(j.file)
      BY <1>4 DEF Signed
    <3>2. \A x \in release[j.version].files : Verifies(x)
      BY <1>2, <2>2 DEF Signed, Listed
    <3> QED BY <3>1, <3>2
  <2> HIDE DEF kept
  <2>6. Written(j) \in ReleaseRows /\ Written(j).born = release[j.version].born /\ Written(j).files = kept
    BY <2>2, <2>3, <2>4 DEF ReleaseRows
  <2> QED BY <1>2, <2>2, <2>5, <2>6 DEF BornBelow
<1>5. CASE j.op = "status"
  <2>1. ~ j.creates /\ j.status \in {"DRAFT", "PUBLISHED", "WITHDRAWN"}
    BY <1>1, <1>5, JobTypes
  <2>2. release[j.version] # Missing /\ release[j.version] \in ReleaseRows
    BY <1>2, <1>5, <2>1, RowTypes DEF Commits, SameRow
  <2>3. Written(j) = [release[j.version] EXCEPT !.status = j.status]
    BY <1>5, <2>1 DEF Written
  <2>4. /\ Written(j) \in ReleaseRows /\ Written(j).born = release[j.version].born
        /\ Written(j).files = release[j.version].files
    BY <2>1, <2>2, <2>3 DEF ReleaseRows
  <2> QED BY <1>2, <2>2, <2>4 DEF BornBelow, Signed, Listed
<1>6. CASE j.op = "delete"
  <2>1. ~ j.creates
    BY <1>1, <1>6, JobTypes
  <2>2. Written(j) = IF SameRow(j) THEN Missing ELSE release[j.version]
    BY <1>6, <2>1 DEF Written
  <2>3. CASE release[j.version] = Missing
    BY <2>2, <2>3
  <2>4. CASE release[j.version] # Missing
    BY <1>2, <2>2, <2>4, RowTypes DEF BornBelow, Signed, Listed
  <2> QED BY <2>3, <2>4
<1>7. j.op = "next" => j.creates
  BY <1>1, JobTypes
<1> QED BY <1>1, <1>2, <1>3, <1>4, <1>5, <1>6, <1>7, JobTypes

\* What a fitting request makes of its row, by its rows and its slots.
LEMMA WrittenFits ==
    ASSUME TypeOK, NEW j \in Jobs, Fits(j), Commits(j), NEW row, row = Written(j)
    PROVE  /\ j.creates => row = [status |-> "DRAFT", born |-> j.born, files |-> IF j.op = "upload" THEN {j.file} ELSE {}]
           /\ ~ j.creates /\ j.op # "delete" => row # Missing /\ row.born = release[j.version].born
           /\ ~ j.creates /\ j.op = "upload" =>
                 row.status = release[j.version].status
                 /\ row.files = {x \in Listed(j.version) : ~ SameSlot(j.file.name, x.name)} \cup {j.file}
           /\ j.op = "status" => row.status = j.status /\ row.files = Listed(j.version)
           /\ j.op = "delete" => row = Missing
<1>1. j.version \in Numbers /\ j.creates \in BOOLEAN
  BY JobTypes
<1>2. CASE j.creates
  BY <1>2, JobTypes DEF Written
<1>3. CASE ~ j.creates
  <2>1. /\ release[j.version] # Missing /\ release[j.version] \in ReleaseRows /\ SameRow(j)
        /\ Listed(j.version) = release[j.version].files
    BY <1>1, <1>3, RowTypes DEF Fits, SameRow, Listed
  <2>2. CASE j.op = "upload"
    <3> DEFINE kept == {x \in release[j.version].files : x.name \notin j.older \cup {j.file.name}} \cup {j.file}
    <3>1. row = [release[j.version] EXCEPT !.files = kept]
      BY <1>3, <2>2 DEF Written
    <3>2. kept = {x \in Listed(j.version) : ~ SameSlot(j.file.name, x.name)} \cup {j.file}
      <4>1. j.older = {g \in NamesOf(j.version) \ {j.file.name} : SameSlot(j.file.name, g)}
        BY <2>2 DEF Fits
      <4>2. \A x \in Listed(j.version) : x.name \notin j.older \cup {j.file.name} <=> ~ SameSlot(j.file.name, x.name)
        BY <4>1, Slots DEF NamesOf
      <4> QED BY <2>1, <4>2
    <3>3. \A x \in Listed(j.version) : x \in FileRows
      BY <1>1, RowTypes
    <3>4. kept \in SUBSET FileRows
      BY <2>2, <3>2, <3>3, JobTypes
    <3> HIDE DEF kept
    <3>5. row \in ReleaseRows /\ row.born = release[j.version].born /\ row.status = release[j.version].status /\ row.files = kept
      BY <2>1, <3>1, <3>4 DEF ReleaseRows
    <3> QED BY <1>3, <2>2, <3>2, <3>5, ReleasesAssumption
  <2>3. CASE j.op = "status"
    <3>1. row = [release[j.version] EXCEPT !.status = j.status]
      BY <1>3, <2>3 DEF Written
    <3>2. /\ row \in ReleaseRows /\ row.born = release[j.version].born /\ row.status = j.status
          /\ row.files = release[j.version].files
      BY <2>1, <2>3, <3>1, JobTypes DEF ReleaseRows
    <3> QED BY <1>3, <2>1, <2>3, <3>2, ReleasesAssumption
  <2>4. CASE j.op = "delete"
    BY <1>3, <2>1, <2>4 DEF Written
  <2>5. j.op \in {"upload", "status", "delete"}
    BY <1>3, JobTypes
  <2> QED BY <1>3, <2>2, <2>3, <2>4, <2>5
<1> QED BY <1>1, <1>2, <1>3

\* Replacing a file by one of its slot leaves something to download.
LEMMA OffersStay ==
    ASSUME NEW S, NEW file, Offers(S)
    PROVE  Offers({x \in S : ~ SameSlot(file.name, x.name)} \cup {file})
<1> DEFINE T == {x \in S : ~ SameSlot(file.name, x.name)} \cup {file}
<1>1. PICK x \in S : Downloadable(x, S)
  BY DEF Offers
<1>2. \E y \in T : Classified[y.name] = Classified[x.name]
  BY DEF SameSlot
<1>3. PICK y \in T : Classified[y.name] = Classified[x.name]
  BY <1>2
<1> SUFFICES Offers(T)
  OBVIOUS
<1> HIDE DEF T
<1>4. CASE \E z \in T : Classified[z.name].kind = "INSTALLER"
  BY <1>4 DEF Offers, Downloadable
<1>5. CASE ~ \E z \in T : Classified[z.name].kind = "INSTALLER"
  BY <1>1, <1>3, <1>5 DEF Offers, Downloadable
<1> QED BY <1>4, <1>5

\* A commit where nothing clashed: what the others read of the row is still so.
LEMMA CommitFits ==
    ASSUME ReleasesInv, NEW j \in Jobs, j.version \notin frayed, Fits(j), Commits(j), NEW row, row = Written(j),
           release' = [release EXCEPT ![j.version] = row], frayed' = frayed,
           Pending' \subseteq Pending, \A k \in Pending' : ~ Clash(j, k)
    PROVE  RequestsFit'
<1> DEFINE v == j.version
<1>1. TypeOK /\ RequestsFit /\ v \in Numbers /\ j.creates \in BOOLEAN
  BY JobTypes DEF ReleasesInv
<1>2. release'[v] = row /\ \A m \in Numbers : m # v => release'[m] = release[m]
  BY <1>1 DEF TypeOK
<1>3. /\ j.creates => row = [status |-> "DRAFT", born |-> j.born, files |-> IF j.op = "upload" THEN {j.file} ELSE {}]
      /\ ~ j.creates /\ j.op # "delete" => row # Missing /\ row.born = release[v].born
      /\ ~ j.creates /\ j.op = "upload" =>
            row.files = {x \in Listed(v) : ~ SameSlot(j.file.name, x.name)} \cup {j.file}
      /\ j.op = "status" => row.files = Listed(v)
      /\ j.op = "delete" => row = Missing
  BY <1>1, WrittenFits
<1> SUFFICES ASSUME NEW k \in Pending', k.version \notin frayed PROVE Fits(k)'
  BY DEF RequestsFit
<1>4. k \in Pending /\ k \in Jobs /\ Fits(k) /\ k.version \in Numbers /\ k.creates \in BOOLEAN /\ ~ Clash(j, k)
  BY <1>1, PendingTypes, JobTypes DEF RequestsFit
<1>5. CASE k.version # v
  <2>1. release'[k.version] = release[k.version] /\ Listed(k.version)' = Listed(k.version) /\ NamesOf(k.version)' = NamesOf(k.version)
    BY <1>2, <1>4, <1>5 DEF Listed, NamesOf
  <2>2. ASSUME k.creates, NEW m \in Numbers \ frayed, release'[m] # Missing
        PROVE  m < k.version /\ release'[m].born < k.born
    <3>1. ~ j.creates
      BY <1>4, <2>2 DEF Clash
    <3>2. m = v => release[v] # Missing /\ release'[m].born = release[v].born
      BY <1>2, <1>3, <2>2, <3>1 DEF Fits
    <3>3. release[m] # Missing /\ release'[m].born = release[m].born
      BY <1>2, <2>2, <3>2
    <3> QED BY <1>4, <2>2, <3>3 DEF Fits
  <2> QED BY <1>4, <2>1, <2>2 DEF Fits, Offers, Downloadable, SameSlot
<1>6. CASE k.version = v
  <2>1. j.op # "delete" /\ k.op # "delete"
    BY <1>4, <1>6 DEF Clash
  <2>2. ~ j.creates
    <3> SUFFICES ASSUME j.creates PROVE FALSE
      OBVIOUS
    <3>1. ~ k.creates
      BY <1>4 DEF Clash
    <3> QED BY <1>4, <1>6, <3>1 DEF Fits
  <2>3. ~ k.creates
    BY <1>4, <1>6, <2>2 DEF Fits
  <2>4. release'[v] # Missing /\ release'[v].born = k.born /\ Listed(v)' = row.files
    <3>1. row # Missing /\ row.born = release[v].born
      BY <1>3, <2>1, <2>2
    <3>2. release[v].born = k.born
      BY <1>4, <1>6, <2>3 DEF Fits
    <3> QED BY <1>2, <3>1, <3>2 DEF Listed
  <2>5. j.op \in {"upload", "status"}
    BY <2>1, <2>2, JobTypes
  <2>6. ASSUME k.op = "upload"
        PROVE  k.older = {g \in NamesOf(v)' \ {k.file.name} : SameSlot(k.file.name, g)}
    <3>1. k.older = {g \in NamesOf(v) \ {k.file.name} : SameSlot(k.file.name, g)}
      BY <1>4, <1>6, <2>6 DEF Fits
    <3>2. ASSUME NEW g, SameSlot(k.file.name, g) PROVE g \in NamesOf(v)' <=> g \in NamesOf(v)
      <4>1. CASE j.op = "status"
        BY <1>3, <2>4, <4>1 DEF NamesOf
      <4>2. CASE j.op = "upload"
        <5>1. ~ SameSlot(j.file.name, k.file.name)
          BY <1>4, <1>6, <2>6, <4>2 DEF Clash
        <5>2. ~ SameSlot(j.file.name, g)
          BY <3>2, <5>1, Slots
        <5>3. Listed(v)' = {x \in Listed(v) : ~ SameSlot(j.file.name, x.name)} \cup {j.file}
          BY <1>3, <2>2, <2>4, <4>2
        <5> QED BY <5>2, <5>3, Slots DEF NamesOf
      <4> QED BY <2>5, <4>1, <4>2
    <3> QED BY <3>1, <3>2
  <2>7. ASSUME k.op = "status", k.status = "PUBLISHED" PROVE Offers(Listed(v)')
    <3>1. Offers(Listed(v))
      BY <1>4, <1>6, <2>7 DEF Fits
    <3>2. CASE j.op = "status"
      BY <1>3, <2>4, <3>1, <3>2
    <3>3. CASE j.op = "upload"
      BY <1>3, <2>2, <2>4, <3>1, <3>3, OffersStay
    <3> QED BY <2>5, <3>2, <3>3
  <2> QED BY <1>6, <2>3, <2>4, <2>6, <2>7 DEF Fits, Offers, Downloadable
<1> QED BY <1>5, <1>6

\* A commit where nothing clashed: the row is in order.
LEMMA CommitRow ==
    ASSUME ReleasesInv, NEW j \in Jobs, j.version \notin frayed, Fits(j), Commits(j), NEW row, row = Written(j),
           release' = [release EXCEPT ![j.version] = row], frayed' = frayed
    PROVE  Kept(j.version)' /\ InOrder'
<1> DEFINE v == j.version
<1>1. TypeOK /\ InOrder /\ Kept(v) /\ v \in Numbers /\ j.creates \in BOOLEAN
  BY JobTypes DEF ReleasesInv
<1>2. release'[v] = row /\ \A m \in Numbers : m # v => release'[m] = release[m]
  BY <1>1 DEF TypeOK
<1>3. /\ j.creates => row = [status |-> "DRAFT", born |-> j.born, files |-> IF j.op = "upload" THEN {j.file} ELSE {}]
      /\ ~ j.creates /\ j.op # "delete" => row # Missing /\ row.born = release[v].born
      /\ ~ j.creates /\ j.op = "upload" =>
            row.status = release[v].status
            /\ row.files = {x \in Listed(v) : ~ SameSlot(j.file.name, x.name)} \cup {j.file}
      /\ j.op = "status" => row.status = j.status /\ row.files = Listed(v)
      /\ j.op = "delete" => row = Missing
  BY <1>1, WrittenFits
<1>4. ~ j.creates => release[v] # Missing /\ Listed(v) = release[v].files /\ j.op \in {"upload", "status", "delete"}
  BY JobTypes DEF Fits, Listed
<1>5. Kept(v)'
  <2> SUFFICES ASSUME row # Missing
               PROVE  /\ \A x, y \in row.files : SameSlot(x.name, y.name) => x = y
                      /\ row.status = "PUBLISHED" => Offers(row.files)
    BY <1>2 DEF Kept, OnePerSlot, Offers, Downloadable, SameSlot
  <2>1. CASE j.creates
    BY <1>3, <2>1
  <2>2. CASE ~ j.creates /\ j.op = "upload"
    <3>1. \A x, y \in Listed(v) : SameSlot(x.name, y.name) => x = y
      BY <1>1, <1>4, <2>2 DEF Kept, OnePerSlot
    <3>2. \A x, y \in row.files : SameSlot(x.name, y.name) => x = y
      BY <1>3, <2>2, <3>1, Slots
    <3>3. ASSUME row.status = "PUBLISHED" PROVE Offers(row.files)
      <4>1. Offers(Listed(v))
        BY <1>1, <1>3, <1>4, <2>2, <3>3 DEF Kept
      <4> QED BY <1>3, <2>2, <4>1, OffersStay
    <3> QED BY <3>2, <3>3
  <2>3. CASE ~ j.creates /\ j.op = "status"
    <3>1. \A x, y \in row.files : SameSlot(x.name, y.name) => x = y
      BY <1>1, <1>3, <1>4, <2>3 DEF Kept, OnePerSlot
    <3>2. row.status = "PUBLISHED" => Offers(row.files)
      BY <1>3, <2>3 DEF Fits
    <3> QED BY <3>1, <3>2
  <2> QED BY <1>1, <1>3, <1>4, <2>1, <2>2, <2>3
<1>6. InOrder'
  <2> SUFFICES ASSUME NEW m \in Numbers \ frayed, NEW n \in Numbers \ frayed,
                      release'[m] # Missing, release'[n] # Missing, m < n
               PROVE  release'[m].born < release'[n].born
    BY DEF InOrder
  <2>0. m # n /\ m \in Nat /\ n \in Nat
    BY ReleasesAssumption
  <2>1. CASE ~ j.creates
    <3>1. \A i \in {m, n} : release[i] # Missing /\ release'[i].born = release[i].born
      BY <1>2, <1>3, <1>4, <2>1
    <3> QED BY <1>1, <3>1 DEF InOrder
  <2>2. CASE j.creates
    <3>1. \A i \in Numbers \ frayed : release[i] # Missing => i < v /\ release[i].born < j.born
      BY <2>2 DEF Fits
    <3>2. m # v
      <4> SUFFICES ASSUME m = v PROVE FALSE
        OBVIOUS
      <4>1. release[n] # Missing
        BY <1>2, <2>0
      <4> QED BY <2>0, <3>1, <4>1
    <3>3. CASE n = v
      <4>1. release[m] # Missing /\ release'[m] = release[m]
        BY <1>2, <3>2
      <4>2. release'[n].born = j.born
        BY <1>2, <1>3, <2>2, <3>3
      <4> QED BY <3>1, <4>1, <4>2
    <3>4. CASE n # v
      BY <1>1, <1>2, <3>2, <3>4 DEF InOrder
    <3> QED BY <3>3, <3>4
  <2> QED BY <1>1, <2>1, <2>2
<1> QED BY <1>5, <1>6

\* A commit where nothing clashed: the directory is what the rows now say.
LEMMA CommitDisk ==
    ASSUME ReleasesInv, NEW j \in Pending, j.version \notin frayed, Fits(j), Commits(j), NEW row, row = Written(j),
           release' = [release EXCEPT ![j.version] = row], disk' = disk,
           Pending' \subseteq Pending, Pending \subseteq Pending' \cup {j}, \A k \in Pending' : ~ Clash(j, k)
    PROVE  DiskTells(j.version)'
<1> DEFINE v == j.version
<1>1. TypeOK /\ Kept(v) /\ DiskTells(v) /\ v \in Numbers /\ j.creates \in BOOLEAN /\ j \in Jobs
  BY JobTypes, PendingTypes DEF ReleasesInv
<1>2. Listed(v)' = IF row = Missing THEN {} ELSE row.files
  BY <1>1 DEF TypeOK, Listed
<1>3. /\ j.creates => row = [status |-> "DRAFT", born |-> j.born, files |-> IF j.op = "upload" THEN {j.file} ELSE {}]
      /\ ~ j.creates /\ j.op # "delete" => row # Missing
      /\ ~ j.creates /\ j.op = "upload" =>
            row.files = {x \in Listed(v) : ~ SameSlot(j.file.name, x.name)} \cup {j.file}
      /\ j.op = "status" => row.files = Listed(v)
      /\ j.op = "delete" => row = Missing
  BY <1>1, WrittenFits
<1>4. ~ Deleting(v)'
  BY DEF Deleting, Clash
<1>5. j.creates => Listed(v) = {} /\ row # Missing /\ row.files = IF j.op = "upload" THEN {j.file} ELSE {}
  <2>1. ASSUME j.creates PROVE row \in ReleaseRows
    <3>1. (IF j.op = "upload" THEN {j.file} ELSE {}) \in SUBSET FileRows
      BY <1>1, JobTypes
    <3> QED BY <1>1, <1>3, <2>1, <3>1, JobTypes DEF ReleaseRows
  <2> QED BY <1>3, <2>1, ReleasesAssumption DEF Fits, Listed
<1>6. CASE j.op = "delete"
  <2>1. \A f \in Artifacts : disk[v][f] = Missing
    BY <1>1, <1>6 DEF DiskTells, Deleting
  <2>2. Listed(v)' = {} /\ NamesOf(v)' = {}
    BY <1>2, <1>3, <1>6 DEF NamesOf
  <2>3. \A f : Into(v, f)' = {}
    BY <1>6 DEF Into, Clash
  <2> QED BY <1>4, <2>1, <2>2, <2>3 DEF DiskTells, Tells
<1>7. CASE j.op \in {"next", "status"}
  <2>1. Listed(v)' = Listed(v) /\ NamesOf(v)' = NamesOf(v)
    BY <1>1, <1>2, <1>3, <1>5, <1>7, JobTypes DEF NamesOf
  <2>2. \A f : Into(v, f)' = Into(v, f)
    BY <1>7 DEF Into
  <2>3. ~ Deleting(v)
    BY <1>4, <1>7 DEF Deleting
  <2> QED BY <1>1, <1>4, <2>1, <2>2, <2>3 DEF DiskTells, Tells
<1>8. CASE j.op = "upload"
  <2>1. Listed(v)' = {x \in Listed(v) : ~ SameSlot(j.file.name, x.name)} \cup {j.file}
    BY <1>1, <1>2, <1>3, <1>5, <1>8
  <2>2. ~ Deleting(v)
    BY <1>4, <1>8 DEF Deleting
  <2>3. ASSUME NEW f \in Artifacts
        PROVE  /\ \A k \in Into(v, f)' : disk[v][f] = IF f = k.file.name THEN k.file.digest ELSE Missing
               /\ Into(v, f)' = {} => Tells(v, f)'
    <3>1. CASE SameSlot(j.file.name, f)
      <4>1. Into(v, f)' = {}
        BY <1>8, <3>1, Slots DEF Into, Clash
      <4>2. disk[v][f] = IF f = j.file.name THEN j.file.digest ELSE Missing
        BY <1>1, <1>8, <2>2, <3>1, Slots DEF DiskTells, Into
      <4>3. \A x \in Listed(v)' : x.name = f => x = j.file
        BY <2>1, <3>1
      <4>4. f = j.file.name => f \in NamesOf(v)'
        BY <2>1 DEF NamesOf
      <4> QED BY <4>1, <4>2, <4>3, <4>4 DEF Tells
    <3>2. CASE ~ SameSlot(j.file.name, f)
      <4>1. Into(v, f)' = Into(v, f)
        BY <1>8, <3>2, Slots DEF Into
      <4>2. f # j.file.name
        BY <3>2, Slots
      <4>3. \A x : x.name = f => (x \in Listed(v)' <=> x \in Listed(v))
        BY <2>1, <3>2, <4>2
      <4>4. f \in NamesOf(v)' <=> f \in NamesOf(v)
        BY <4>3 DEF NamesOf
      <4> QED BY <1>1, <2>2, <4>1, <4>3, <4>4 DEF DiskTells, Tells
    <3> QED BY <3>1, <3>2
  <2> QED BY <1>4, <2>3 DEF DiskTells
<1> QED BY <1>1, <1>6, <1>7, <1>8, JobTypes

\* A commit writes one row and touches nothing on the disk.
LEMMA CommitKeeps ==
    ASSUME ReleasesInv, NEW h \in Handlers, CommitRelease(h)
    PROVE  ReleasesInv'
<1>1. TypeOK /\ BornBelow /\ Signed /\ Apart /\ RequestsFit /\ InOrder /\ \A m \in Numbers \ frayed : Kept(m) /\ DiskTells(m)
  BY DEF ReleasesInv
<1>2. PICK j \in Jobs : j = job[h] /\ h \in Open /\ Commits(j)
  BY <1>1 DEF CommitRelease, Open, TypeOK
<1>3. PICK row \in ReleaseRows \cup {Missing} : row = Written(j)
  BY <1>1, <1>2, WrittenTypes DEF Pending
<1> DEFINE v == j.version
<1>4. /\ release' = [release EXCEPT ![v] = row] /\ job' = [job EXCEPT ![h] = Free]
      /\ disk' = disk /\ born' = born /\ frayed' = frayed
  BY <1>2, <1>3 DEF CommitRelease
<1>5. /\ job' \in [Handlers -> Jobs \cup {Free}]
      /\ j \in Pending /\ Pending' \subseteq Pending /\ Pending \subseteq Pending' \cup {j}
      /\ Apart'
      /\ v \notin frayed => \A k \in Pending' : ~ Clash(j, k)
  BY <1>1, <1>2, <1>4, Closing
<1>6. v \in Numbers /\ release'[v] = row /\ \A m \in Numbers : m # v => release'[m] = release[m]
  BY <1>1, <1>4, JobTypes DEF TypeOK
<1>7. row # Missing => row.born <= born /\ \A x \in row.files : Verifies(x)
  BY <1>1, <1>2, <1>3, <1>5, WrittenTypes
<1>8. TypeOK'
  BY <1>1, <1>4, <1>5 DEF TypeOK
<1>9. BornBelow'
  BY <1>1, <1>4, <1>5, <1>6, <1>7 DEF BornBelow
<1>10. Signed'
  <2>1. \A m \in Numbers : \A x \in Listed(m)' : Verifies(x)
    BY <1>1, <1>6, <1>7 DEF Signed, Listed
  <2>2. \A k \in Pending' : k.op = "upload" => Verifies(k.file)
    BY <1>1, <1>5 DEF Signed
  <2> QED BY <2>1, <2>2 DEF Signed, Verifies
<1>11. ASSUME NEW m \in Numbers \ frayed, m # v
       PROVE  Kept(m)' /\ DiskTells(m)'
  <2>1. release'[m] = release[m] /\ Kept(m) /\ DiskTells(m)
    BY <1>1, <1>6, <1>11
  <2>2. Kept(m)'
    BY <2>1 DEF Kept, OnePerSlot, Offers, Downloadable, SameSlot
  <2>3. Listed(m)' = Listed(m) /\ NamesOf(m)' = NamesOf(m)
    BY <2>1 DEF Listed, NamesOf
  <2>4. Deleting(m)' <=> Deleting(m)
    BY <1>5, <1>11 DEF Deleting
  <2>5. \A f : Into(m, f)' = Into(m, f)
    BY <1>5, <1>11 DEF Into
  <2> QED BY <1>4, <2>1, <2>2, <2>3, <2>4, <2>5 DEF DiskTells, Tells
<1>12. CASE v \in frayed
  <2>1. InOrder'
    BY <1>1, <1>4, <1>6, <1>12 DEF InOrder
  <2>2. RequestsFit'
    <3> SUFFICES ASSUME NEW k \in Pending', k.version \notin frayed PROVE Fits(k)'
      BY <1>4 DEF RequestsFit
    <3>1. Fits(k) /\ k.version # v /\ k.version \in Numbers
      BY <1>1, <1>5, <1>12, PendingTypes, JobTypes DEF RequestsFit
    <3>2. release'[k.version] = release[k.version] /\ \A m \in Numbers \ frayed : release'[m] = release[m]
      BY <1>6, <1>12, <3>1
    <3> QED BY <1>4, <3>1, <3>2 DEF Fits, Listed, NamesOf, Offers, Downloadable, SameSlot
  <2> QED BY <1>4, <1>5, <1>8, <1>9, <1>10, <1>11, <1>12, <2>1, <2>2 DEF ReleasesInv
<1>13. CASE v \notin frayed
  <2>1. Fits(j)
    BY <1>1, <1>5, <1>13 DEF RequestsFit
  <2>2. Kept(v)' /\ InOrder'
    BY <1>2, <1>3, <1>4, <1>13, <2>1, CommitRow
  <2>3. RequestsFit'
    BY <1>2, <1>3, <1>4, <1>5, <1>13, <2>1, CommitFits
  <2>4. DiskTells(v)'
    BY <1>2, <1>3, <1>4, <1>5, <1>13, <2>1, CommitDisk
  <2> QED BY <1>4, <1>5, <1>8, <1>9, <1>10, <1>11, <2>2, <2>3, <2>4 DEF ReleasesInv
<1> QED BY <1>12, <1>13

\* What fails leaves the disk as it is, and frays the version if it had touched it.
LEMMA RollBackKeeps ==
    ASSUME ReleasesInv, NEW h \in Handlers, RollBackRelease(h)
    PROVE  ReleasesInv'
<1>1. TypeOK /\ BornBelow /\ Signed /\ Apart /\ RequestsFit /\ InOrder /\ \A m \in Numbers \ frayed : Kept(m) /\ DiskTells(m)
  BY DEF ReleasesInv
<1>2. PICK j \in Jobs : j = job[h] /\ h \in Open
  BY <1>1 DEF RollBackRelease, Open, TypeOK
<1>3. /\ job' = [job EXCEPT ![h] = Free] /\ UNCHANGED <<release, disk, born>>
      /\ frayed' = IF j.op \in {"upload", "delete"} THEN frayed \cup {j.version} ELSE frayed
  BY <1>2 DEF RollBackRelease
<1>4. frayed \subseteq frayed' /\ frayed' \subseteq Numbers
  BY <1>1, <1>3, JobTypes DEF TypeOK
<1>5. /\ job' \in [Handlers -> Jobs \cup {Free}]
      /\ j \in Pending /\ Pending' \subseteq Pending /\ Pending \subseteq Pending' \cup {j}
      /\ Apart'
  BY <1>1, <1>2, <1>3, <1>4, Closing
<1>6. TypeOK'
  BY <1>1, <1>3, <1>4, <1>5 DEF TypeOK
<1>7. BornBelow' /\ Signed'
  BY <1>1, <1>3, <1>5 DEF BornBelow, Signed, Verifies, Listed
<1>8. /\ \A k \in Pending : k.version \notin frayed' => Fits(k)'
      /\ InOrder'
      /\ \A n \in Numbers : Kept(n) => Kept(n)'
  BY <1>1, <1>3, <1>4, RowsUntouched
<1>9. RequestsFit'
  BY <1>5, <1>8 DEF RequestsFit
<1>10. ASSUME NEW m \in Numbers \ frayed' PROVE DiskTells(m)'
  <2>1. DiskTells(m)
    BY <1>1, <1>4, <1>10
  <2>2. j.op \in {"upload", "delete"} => j.version # m
    BY <1>3, <1>10
  <2>3. Deleting(m)' <=> Deleting(m)
    BY <1>5, <2>2 DEF Deleting
  <2>4. \A f : Into(m, f)' = Into(m, f)
    BY <1>5, <2>2 DEF Into
  <2>5. Listed(m)' = Listed(m) /\ NamesOf(m)' = NamesOf(m)
    BY <1>3 DEF Listed, NamesOf
  <2> QED BY <1>3, <2>1, <2>3, <2>4, <2>5 DEF DiskTells, Tells
<1> QED BY <1>1, <1>4, <1>5, <1>6, <1>7, <1>8, <1>9, <1>10 DEF ReleasesInv

-----------------------------------------------------------------------------
(* The theorems *)

LEMMA StartsSound == ReleasesInit => ReleasesInv
<1> SUFFICES ASSUME ReleasesInit PROVE ReleasesInv
  OBVIOUS
<1>1. Open = {} /\ Pending = {}
  BY DEF ReleasesInit, Open, Pending
<1>2. TypeOK
  BY DEF ReleasesInit, TypeOK
<1>3. \A n \in Numbers : release[n] = Missing /\ Listed(n) = {} /\ NamesOf(n) = {} /\ \A f \in Artifacts : disk[n][f] = Missing
  BY DEF ReleasesInit, Listed, NamesOf
<1>4. \A n \in Numbers : DiskTells(n)
  BY <1>1, <1>3 DEF DiskTells, Deleting, Into, Tells
<1> QED BY <1>1, <1>2, <1>3, <1>4 DEF ReleasesInv, BornBelow, Signed, Apart, RequestsFit, InOrder, Kept

LEMMA StepSound == ReleasesInv /\ [ReleaseStep]_releaseVars => ReleasesInv'
<1> SUFFICES ASSUME ReleasesInv, [ReleaseStep]_releaseVars PROVE ReleasesInv'
  OBVIOUS
<1>1. CASE UNCHANGED releaseVars
  <2>1. /\ Pending' = Pending /\ (\A n \in Numbers : Listed(n)' = Listed(n))
        /\ \A n, f : NamesOf(n)' = NamesOf(n) /\ Into(n, f)' = Into(n, f) /\ (Deleting(n)' <=> Deleting(n))
    BY <1>1 DEF releaseVars, Pending, Open, Listed, NamesOf, Into, Deleting
  <2>2. TypeOK' /\ BornBelow' /\ Signed' /\ Apart' /\ InOrder'
    BY <1>1 DEF ReleasesInv, releaseVars, TypeOK, BornBelow, Signed, Apart, InOrder, Pending, Open, Listed, Verifies, Clash, SameSlot
  <2>3. RequestsFit' /\ \A n \in Numbers : Kept(n) => Kept(n)'
    BY <1>1, <2>1, RowsUntouched DEF ReleasesInv, releaseVars, RequestsFit
  <2>4. \A n \in Numbers : DiskTells(n) => DiskTells(n)'
    BY <1>1, <2>1 DEF releaseVars, DiskTells, Tells
  <2> QED BY <1>1, <2>2, <2>3, <2>4 DEF ReleasesInv, releaseVars
<1>2. ASSUME NEW h \in Handlers, NEW n \in Numbers, NEW b \in Builds, NEW signed \in BOOLEAN,
             Upload(h, n, b.name, b.bytes, IF signed THEN b.bytes ELSE Missing)
      PROVE  ReleasesInv'
  BY <1>2, UploadKeeps
<1>3. ASSUME NEW h \in Handlers, NEW n \in Numbers, NEW status \in {"DRAFT", "PUBLISHED", "WITHDRAWN"}, SetStatus(h, n, status)
      PROVE  ReleasesInv'
  BY <1>3, StatusKeeps
<1>4. ASSUME NEW h \in Handlers, NEW n \in Numbers, DeleteRelease(h, n) PROVE ReleasesInv'
  BY <1>4, DeleteKeeps
<1>5. ASSUME NEW h \in Handlers, Next_version(h) PROVE ReleasesInv'
  BY <1>5, NextKeeps
<1>6. ASSUME NEW h \in Handlers, CommitRelease(h) PROVE ReleasesInv'
  BY <1>6, CommitKeeps
<1>7. ASSUME NEW h \in Handlers, RollBackRelease(h) PROVE ReleasesInv'
  BY <1>7, RollBackKeeps
<1> QED BY <1>1, <1>2, <1>3, <1>4, <1>5, <1>6, <1>7 DEF ReleaseStep

\* The invariant says what the property does of a version at rest.
LEMMA InvSound == ReleasesInv => ReleasesSound
<1> SUFFICES ASSUME ReleasesInv PROVE ReleasesSound
  OBVIOUS
<1>1. TypeOK /\ Signed /\ InOrder
  BY DEF ReleasesInv
<1>2. ASSUME NEW n \in Numbers, Settled(n)
      PROVE  /\ n \notin frayed /\ Kept(n)
             /\ \A f \in Artifacts : Tells(n, f)
             /\ \A x, y \in Listed(n) : x.name = y.name => x = y
  <2>1. n \notin frayed /\ Kept(n) /\ DiskTells(n)
    BY <1>2 DEF ReleasesInv, Settled
  <2>2. \A j \in Pending : j.version # n
    BY <1>2 DEF Settled, Pending
  <2>3. ~ Deleting(n) /\ \A f : Into(n, f) = {}
    BY <2>2 DEF Deleting, Into
  <2>4. \A x, y \in Listed(n) : x.name = y.name => x = y
    BY <2>1, Slots DEF Listed, Kept, OnePerSlot
  <2> QED BY <2>1, <2>3, <2>4 DEF DiskTells
<1>3. ASSUME NEW n \in Numbers, Settled(n)
      PROVE  DiskFollowsRows(n)
  <2> DEFINE shown(f) == IF release[n] # Missing /\ \E x \in release[n].files : x.name = f
                         THEN (CHOOSE x \in release[n].files : x.name = f).digest ELSE Missing
  <2>1. ASSUME NEW f \in Artifacts PROVE disk[n][f] = shown(f)
    <3>1. Tells(n, f) /\ \A x, y \in Listed(n) : x.name = y.name => x = y
      BY <1>2, <1>3
    <3>2. CASE release[n] # Missing /\ \E x \in release[n].files : x.name = f
      <4>1. PICK x \in Listed(n) : x.name = f /\ x = CHOOSE y \in release[n].files : y.name = f
        BY <3>2 DEF Listed
      <4> QED BY <3>1, <3>2, <4>1 DEF Tells
    <3>3. CASE ~ (release[n] # Missing /\ \E x \in release[n].files : x.name = f)
      BY <3>1, <3>3 DEF Tells, NamesOf, Listed
    <3> QED BY <3>2, <3>3
  <2>2. disk[n] = [f \in Artifacts |-> disk[n][f]]
    BY <1>1 DEF TypeOK
  <2> HIDE DEF shown
  <2>3. disk[n] = [f \in Artifacts |-> shown(f)]
    BY <2>1, <2>2
  <2> QED BY <2>3 DEF shown, DiskFollowsRows
<1>4. ASSUME NEW n \in Numbers, Settled(n), release[n] # Missing
      PROVE  /\ OnePerSlot(n)
             /\ release[n].status = "PUBLISHED" => \E x \in release[n].files : Downloadable(x, release[n].files)
             /\ \A m \in Numbers \ frayed : release[m] # Missing /\ m < n => release[m].born < release[n].born
  <2>1. n \notin frayed /\ Kept(n)
    BY <1>2, <1>4
  <2>2. \A m \in Numbers \ frayed : release[m] # Missing /\ m < n => release[m].born < release[n].born
    BY <1>1, <1>4, <2>1 DEF InOrder
  <2> QED BY <1>4, <2>1, <2>2 DEF Kept, Offers
<1>5. ASSUME NEW f \in Artifacts, NEW current \in Numbers \cup {0}, NEW x \in Manifest(Classified[f].platform, current)
      PROVE  LET n == Latest({"PUBLISHED"})
             IN  n > current /\ (Settled(n) => disk[n][x.name] = x.signature)
  <2> DEFINE n == Latest({"PUBLISHED"})
  <2>1. n \in Nat /\ current \in Nat /\ n \in Known({"PUBLISHED"}) \cup {0}
    <3>1. n \in Nat /\ n \in Known({"PUBLISHED"}) \cup {0}
      BY Newest
    <3>2. Numbers \subseteq Nat
      BY ReleasesAssumption
    <3>3. current \in Nat
      BY <3>2
    <3> QED BY <3>1, <3>3
  <2> HIDE DEF n
  <2>2. ~ (n <= current) /\ x \in release[n].files /\ x.signature # Missing
    BY DEF Manifest, n
  <2>3. n > current
    BY <2>1, <2>2
  <2>4. n \in Numbers /\ release[n] # Missing
    <3>1. n # 0
      BY <2>1, <2>3
    <3> QED BY <2>1, <3>1 DEF Known
  <2>5. x \in Listed(n) /\ x.name \in Artifacts
    BY <1>1, <2>2, <2>4, RowTypes DEF Listed, NamesOf
  <2>6. x.signature = x.digest
    BY <1>1, <2>2, <2>4, <2>5 DEF Signed, Verifies
  <2>7. Settled(n) => disk[n][x.name] = x.digest
    BY <1>2, <2>4, <2>5 DEF Tells
  <2> QED BY <2>3, <2>6, <2>7 DEF n
<1> QED BY <1>3, <1>4, <1>5 DEF ReleasesSound

\* The inductive invariant holds of every behaviour of the store: an upload or a deletion
\* that clashes with nothing finds its row as it read it when it commits.
THEOREM ReleasesInvariant == ReleasesSpec => []ReleasesInv
BY StartsSound, StepSound, PTL DEF ReleasesSpec

\* Once a version is at rest its directory and its rows agree, whatever was uploaded,
\* replaced or deleted; what is published can be downloaded, what the updater is offered
\* verifies, and numbers were handed out in their order (services/releases.py).
THEOREM ReleasesAreSound == ReleasesSpec => []ReleasesSound
BY ReleasesInvariant, InvSound, PTL

-----------------------------------------------------------------------------
(* Live events *)

LiveRows == [id : Nat, kind : {sort.kind : sort \in Sorts} \cup {"quotes", "ready"}, ours : BOOLEAN, print : Nat]

LiveTypeOK ==
    /\ lastId \in Nat /\ drops \in Nat
    /\ {flushed, log, swept} \subseteq SUBSET LiveRows /\ IsFiniteSet(log)
    /\ feed \in [last : Nat, now : Nat]
    /\ wire \in Seq(LiveRows)
    /\ {stream, after, baseline} \subseteq Nat \cup {NoCursor}
    /\ got \subseteq Nat /\ late \subseteq Nat

\* The events that were ever visible.
Shown == log \cup swept

\* An id is taken once.
Numbered ==
    /\ \A e \in flushed \cup Shown : e.id \in 1 .. lastId /\ e.kind # "ready" /\ (e.kind = "quotes" => e.ours)
    /\ \A d, e \in flushed \cup Shown : d.id = e.id => d = e
    /\ flushed \intersect Shown = {}

\* Cursors rest on visible events, the tab's behind the stream's; a tab that has heard
\* nothing is about to be told where it starts.
Cursors ==
    /\ {stream, after} \subseteq {NoCursor, 0} \cup Ids(Shown)
    /\ after = NoCursor <=> baseline = NoCursor
    /\ stream # NoCursor /\ after # NoCursor => after <= stream
    /\ stream # NoCursor /\ after = NoCursor => wire # <<>> /\ wire[1].kind = "ready"

\* What is under way comes in order, and lies between the two cursors.
Heading ==
    /\ wire # <<>> => stream # NoCursor
    /\ \A i \in DOMAIN wire :
        /\ wire[i].id <= stream /\ wire[i].id \in {0} \cup Ids(Shown)
        /\ wire[i].kind = "ready" => i = 1
        /\ after # NoCursor /\ wire[i].kind = "ready" => wire[i].id = after
        /\ after # NoCursor /\ wire[i].kind # "ready" => wire[i].id > after
    /\ \A i, j \in DOMAIN wire : i < j => wire[i].id < wire[j].id

\* Where the ids are what a reader has, and the cursor how far it looked.
Covered(e, ids, cursor) ==
    \/ e.id \in ids \cup late
    \/ e.kind = "quotes" /\ \E q \in Shown : /\ q.kind = "quotes" /\ q.id > e.id
                                             /\ (q.id \in ids \/ q.id > cursor \/ q \in swept)

OnWire == {wire[i].id : i \in {i \in DOMAIN wire : wire[i].kind # "ready"}}

Started == IF baseline # NoCursor THEN baseline ELSE wire[1].id

\* What the stream's cursor has passed is with the tab or on its way to it ...
StreamCovers ==
    stream # NoCursor =>
        \A e \in log : e.ours /\ e.id > Started /\ e.id <= stream => Covered(e, got \cup OnWire, stream)

\* ... and what the tab's has passed is with the tab.
TabCovers ==
    after # NoCursor =>
        \A e \in log : e.ours /\ e.id > baseline /\ e.id <= after => Covered(e, got, after)

LiveInv == LiveTypeOK /\ Numbered /\ Cursors /\ Heading /\ StreamCovers /\ TabCovers

-----------------------------------------------------------------------------
(* Pages *)

\* The newest of visible rows: a page's Max is one of its ids and none is above it.
LEMMA NewestId ==
    ASSUME LiveTypeOK, Numbered, NEW S \in SUBSET log, NEW n \in Nat
    PROVE  /\ Max({n} \cup Ids(S)) \in {n} \cup Ids(S)
           /\ Max({n} \cup Ids(S)) \in Nat
           /\ \A id \in {n} \cup Ids(S) : id <= Max({n} \cup Ids(S))
<1>1. \A e \in S : e.id \in 1 .. lastId
  BY DEF Numbered, Shown
<1>2. Ids(S) \subseteq 1 .. lastId
  BY <1>1 DEF Ids
<1>3. IsFiniteSet(1 .. lastId)
  BY FS_Interval DEF LiveTypeOK
<1>4. IsFiniteSet(Ids(S))
  BY ONLY <1>2, <1>3, FS_Subset
<1>5. IsFiniteSet(Ids(S) \cup {n})
  BY ONLY <1>4, FS_AddElement
<1>6. Ids(S) \cup {n} = {n} \cup Ids(S)
  OBVIOUS
<1>7. {n} \cup Ids(S) \in SUBSET Nat /\ {n} \cup Ids(S) # {}
  BY <1>2 DEF LiveTypeOK
<1>8. IsFiniteSet({n} \cup Ids(S))
  BY ONLY <1>5, <1>6
<1> QED BY ONLY <1>7, <1>8, Greatest

\* A page leaves out only what is newer than all of it.
LEMMA PageBelow ==
    ASSUME LiveTypeOK, NEW c \in Nat, NEW e \in Page(c), NEW d \in Rows(c), d.id <= e.id
    PROVE  d \in Page(c)
<1> DEFINE Upto(x) == {y \in Rows(c) : y.id <= x.id}
<1>1. Rows(c) \subseteq log /\ e \in Rows(c)
  BY DEF Rows, Page
<1>2. \A x \in log : x.id \in Nat
  BY DEF LiveTypeOK, LiveRows
<1>3. Upto(d) \subseteq Upto(e)
  BY <1>1, <1>2
<1>4. IsFiniteSet(Upto(e))
  BY <1>1, FS_Subset DEF LiveTypeOK
<1>5. Cardinality(Upto(d)) <= Cardinality(Upto(e)) /\ IsFiniteSet(Upto(d))
  BY ONLY <1>3, <1>4, FS_Subset
<1>6. Cardinality(Upto(d)) \in Nat /\ Cardinality(Upto(e)) \in Nat
  BY ONLY <1>4, <1>5, FS_CardinalityType
<1>7. Cardinality(Upto(e)) <= PageLimit
  BY DEF Page
<1>8. Cardinality(Upto(d)) <= PageLimit
  BY ONLY <1>5, <1>6, <1>7, LiveEventsAssumption
<1> QED BY <1>8 DEF Page

\* What a page holds the stream sends, or newer quotes in its place.
LEMMA PageSent ==
    ASSUME LiveTypeOK, Numbered, NEW c \in Nat, NEW e \in Page(c)
    PROVE  \/ e \in Since(c)
           \/ e.kind = "quotes" /\ \E q \in Since(c) : q.kind = "quotes" /\ q.id > e.id
<1> SUFFICES ASSUME e \notin Since(c)
             PROVE  e.kind = "quotes" /\ \E q \in Since(c) : q.kind = "quotes" /\ q.id > e.id
  OBVIOUS
<1> DEFINE S == {d \in Page(c) : d.kind = "quotes"}
<1>1. Page(c) \subseteq log
  BY DEF Page, Rows
<1>2. \A d \in log : d.id \in Nat
  BY DEF LiveTypeOK, LiveRows
<1>3. e \in S
  BY DEF Since
<1>4. PICK q \in S : \A d \in S : d.id <= q.id
  <2>1. S \in SUBSET log /\ 0 \in Nat
    BY <1>1
  <2>2. /\ Max({0} \cup Ids(S)) \in {0} \cup Ids(S)
        /\ \A id \in {0} \cup Ids(S) : id <= Max({0} \cup Ids(S))
    <3> HIDE DEF S
    <3> QED BY <2>1, NewestId
  <2>3. e.id \in Ids(S) /\ e.id > 0
    BY <1>3, <1>1 DEF Ids, Numbered, Shown
  <2>4. Max({0} \cup Ids(S)) # 0
    <3>1. e.id <= Max({0} \cup Ids(S)) /\ e.id \in Nat
      BY <1>1, <1>2, <1>3, <2>2, <2>3
    <3> QED BY ONLY <2>3, <3>1
  <2>5. PICK q \in S : q.id = Max({0} \cup Ids(S))
    BY <2>2, <2>4 DEF Ids
  <2>6. \A d \in S : d.id \in Ids(S)
    BY DEF Ids
  <2> QED BY <2>2, <2>5, <2>6
<1>5. q \in Since(c)
  BY <1>4 DEF Since
<1>6. q.id > e.id
  <2>1. PICK d \in S : ~ (d.id <= e.id)
    BY <1>3 DEF Since
  <2>2. d.id <= q.id /\ d.id \in Nat /\ q.id \in Nat /\ e.id \in Nat
    BY <1>1, <1>2, <1>3, <1>4
  <2> QED BY ONLY <2>1, <2>2
<1> QED BY <1>3, <1>4, <1>5, <1>6

-----------------------------------------------------------------------------
(* Types and numbers *)

LEMMA EventTypes ==
    ASSUME LiveTypeOK, NEW n \in Nat, NEW p \in Nat
    PROVE  /\ \A sort \in Sorts : [id |-> n, kind |-> sort.kind, ours |-> sort.ours, print |-> p] \in LiveRows
           /\ [id |-> n, kind |-> "quotes", ours |-> TRUE, print |-> p] \in LiveRows
           /\ [id |-> n, kind |-> "ready", ours |-> TRUE, print |-> p] \in LiveRows
BY LiveEventsAssumption DEF LiveRows

\* Where a stream starts is the tab's cursor, or the newest visible event.
LEMMA OpeningHolds ==
    ASSUME LiveTypeOK, Numbered, Cursors
    PROVE  /\ OpeningFrom(after) \in Nat
           /\ OpeningFrom(after) \in {0} \cup Ids(Shown)
           /\ after # NoCursor => OpeningFrom(after) = after
           /\ after = NoCursor => \A e \in log : e.id <= OpeningFrom(after)
<1>1. CASE after # NoCursor
  BY <1>1 DEF OpeningFrom, LiveTypeOK, Cursors
<1>2. CASE after = NoCursor
  <2>1. OpeningFrom(after) = Max({0} \cup Ids(log))
    BY <1>2 DEF OpeningFrom
  <2>2. /\ Max({0} \cup Ids(log)) \in {0} \cup Ids(log)
        /\ Max({0} \cup Ids(log)) \in Nat
        /\ \A id \in {0} \cup Ids(log) : id <= Max({0} \cup Ids(log))
    BY NewestId
  <2>3. \A e \in log : e.id \in Ids(log) /\ e.id \in Ids(Shown)
    BY DEF Ids, Shown
  <2>4. Ids(log) \subseteq Ids(Shown)
    BY DEF Ids, Shown
  <2> QED BY <1>2, <2>1, <2>2, <2>3, <2>4
<1> QED BY <1>1, <1>2

\* What a page adds to the wire, and where it leaves the cursor.
LEMMA PageHeads ==
    ASSUME LiveTypeOK, Numbered, stream # NoCursor, Since(stream) # {},
           NEW rows \in SortedById(Since(stream)), NEW top, top = Max({stream} \cup Ids(Since(stream)))
    PROVE  /\ rows \in Seq(LiveRows) /\ Since(stream) = {rows[i] : i \in DOMAIN rows}
           /\ \A i \in DOMAIN rows : rows[i] \in log /\ rows[i].id > stream /\ rows[i].id <= top
           /\ top \in Nat /\ top \in Ids(Since(stream)) /\ top > stream
<1>1. Since(stream) \in SUBSET log /\ stream \in Nat
  BY DEF Since, Page, Rows, LiveTypeOK
<1>2. \A e \in Since(stream) : e.id > stream /\ e.id \in Nat /\ e \in LiveRows
  BY <1>1 DEF Since, Page, Rows, LiveTypeOK, LiveRows
<1>3. /\ top \in {stream} \cup Ids(Since(stream)) /\ top \in Nat
      /\ \A id \in {stream} \cup Ids(Since(stream)) : id <= top
  <2> DEFINE S == Since(stream)
  <2>1. S \in SUBSET log /\ stream \in Nat
    BY <1>1
  <2> HIDE DEF S
  <2>2. /\ Max({stream} \cup Ids(S)) \in {stream} \cup Ids(S)
        /\ Max({stream} \cup Ids(S)) \in Nat
        /\ \A id \in {stream} \cup Ids(S) : id <= Max({stream} \cup Ids(S))
    BY <2>1, NewestId
  <2> QED BY <2>2 DEF S
<1>4. \A e \in Since(stream) : e.id <= top
  BY <1>3 DEF Ids
<1>5. top > stream
  <2>1. PICK e \in Since(stream) : TRUE
    OBVIOUS
  <2>2. e.id <= top /\ e.id > stream /\ e.id \in Nat
    BY <1>2, <1>4
  <2> QED BY ONLY <2>2, <1>1, <1>3
<1>6. top \in Ids(Since(stream))
  BY ONLY <1>1, <1>3, <1>5
<1>7. /\ rows \in [1 .. Cardinality(Since(stream)) -> Since(stream)]
      /\ Since(stream) = {rows[i] : i \in DOMAIN rows}
  BY DEF SortedById
<1>8. Cardinality(Since(stream)) \in Nat
  BY <1>1, FS_Subset, FS_CardinalityType DEF LiveTypeOK
<1>9. rows \in Seq(LiveRows)
  <2>1. Since(stream) \subseteq LiveRows
    BY <1>2
  <2> QED BY ONLY <1>7, <1>8, <2>1
<1> QED BY <1>1, <1>2, <1>3, <1>4, <1>5, <1>6, <1>7, <1>9

LEMMA LiveTypeStep == LiveInv /\ [LiveNext]_liveVars => LiveTypeOK'
<1> SUFFICES ASSUME LiveInv, [LiveNext]_liveVars
             PROVE  LiveTypeOK'
  OBVIOUS
<1> USE DEF LiveInv
<1>0. LiveTypeOK
  OBVIOUS
<1>1. ASSUME NEW sort \in Sorts, PublishEvent(sort) PROVE LiveTypeOK'
  <2>1. lastId' \in Nat
    BY <1>0, <1>1 DEF PublishEvent, LiveTypeOK
  <2>2. [id |-> lastId', kind |-> sort.kind, ours |-> sort.ours, print |-> 0] \in LiveRows
    BY <2>1, <1>0, EventTypes
  <2> QED BY <1>0, <1>1, <2>1, <2>2 DEF PublishEvent, LiveTypeOK
<1>2. ASSUME NEW e \in flushed, LandEvent(e) PROVE LiveTypeOK'
  <2>1. IsFiniteSet(log')
    <3>1. IsFiniteSet(log \cup {e})
      BY <1>0, FS_AddElement DEF LiveTypeOK
    <3> QED BY <1>2, <3>1 DEF LandEvent
  <2>2. e.id \in Nat
    BY <1>0 DEF LiveTypeOK, LiveRows
  <2> QED BY <1>0, <1>2, <2>1, <2>2 DEF LandEvent, LiveTypeOK
<1>3. ASSUME NEW e \in flushed, RollBack(e) PROVE LiveTypeOK'
  BY <1>0, <1>3 DEF RollBack, LiveTypeOK
<1>4. CASE NewPrint
  BY <1>0, <1>4 DEF NewPrint, LiveTypeOK
<1>5. CASE FeedOnce
  <2> DEFINE q == [id |-> lastId', kind |-> "quotes", ours |-> TRUE, print |-> feed.now]
  <2>1. lastId' \in Nat /\ feed.now \in Nat
    BY <1>0, <1>5 DEF FeedOnce, LiveTypeOK
  <2>2. q \in LiveRows
    BY <2>1, <1>0, EventTypes
  <2>3. log' = log \cup {q}
    BY <1>5 DEF FeedOnce
  <2>4. IsFiniteSet(log')
    BY <2>3, <1>0, FS_AddElement DEF LiveTypeOK
  <2> HIDE DEF q
  <2> QED BY <1>0, <1>5, <2>1, <2>2, <2>3, <2>4 DEF FeedOnce, LiveTypeOK
<1>6. ASSUME NEW n \in 1 .. MaxIds, SweepEvents(n) PROVE LiveTypeOK'
  <2>1. log' \subseteq log /\ swept' \subseteq LiveRows
    BY <1>0, <1>6 DEF SweepEvents, LiveTypeOK
  <2>2. IsFiniteSet(log')
    BY <2>1, <1>0, FS_Subset DEF LiveTypeOK
  <2> QED BY <1>0, <1>6, <2>1, <2>2 DEF SweepEvents, LiveTypeOK
<1>7. CASE Connect
  <2>1. OpeningFrom(after) \in Nat
    BY OpeningHolds
  <2>2. [id |-> OpeningFrom(after), kind |-> "ready", ours |-> TRUE, print |-> 0] \in LiveRows
    BY <1>0, <2>1, EventTypes
  <2> QED BY <1>0, <1>7, <2>1, <2>2 DEF Connect, LiveTypeOK
<1>8. CASE Poll
  <2>1. PICK rows \in SortedById(Since(stream)) : wire' = wire \o rows
    BY <1>8 DEF Poll
  <2>2. rows \in Seq(LiveRows) /\ stream' \in Nat
    BY <1>8, <2>1, PageHeads DEF Poll
  <2> QED BY <1>0, <1>8, <2>1, <2>2 DEF Poll, LiveTypeOK
<1>9. CASE Receive
  <2>1. Head(wire) \in LiveRows /\ Tail(wire) \in Seq(LiveRows)
    BY <1>0, <1>9 DEF Receive, LiveTypeOK
  <2>2. Head(wire).id \in Nat
    BY <2>1 DEF LiveRows
  <2> QED BY <1>0, <1>9, <2>1, <2>2 DEF Receive, LiveTypeOK
<1>10. CASE Drop
  BY <1>0, <1>10 DEF Drop, LiveTypeOK
<1>11. CASE UNCHANGED liveVars
  BY <1>0, <1>11 DEF liveVars, LiveTypeOK
<1> QED BY <1>1, <1>2, <1>3, <1>4, <1>5, <1>6, <1>7, <1>8, <1>9, <1>10, <1>11 DEF LiveNext

LEMMA NumberedStep == LiveInv /\ [LiveNext]_liveVars => Numbered'
<1> SUFFICES ASSUME LiveInv, [LiveNext]_liveVars
             PROVE  Numbered'
  OBVIOUS
<1>0. LiveTypeOK /\ Numbered /\ lastId \in Nat
  BY DEF LiveInv, LiveTypeOK
<1>1. ASSUME NEW sort \in Sorts, PublishEvent(sort) PROVE Numbered'
  <2> DEFINE x == [id |-> lastId + 1, kind |-> sort.kind, ours |-> sort.ours, print |-> 0]
  <2>1. x.id = lastId + 1 /\ x.kind \notin {"quotes", "ready"}
    BY LiveEventsAssumption
  <2>2. flushed' = flushed \cup {x} /\ lastId' = lastId + 1 /\ log' = log /\ swept' = swept
    BY <1>1 DEF PublishEvent
  <2> HIDE DEF x
  <2> QED BY <1>0, <2>1, <2>2 DEF Numbered, Shown
<1>2. ASSUME NEW e \in flushed, LandEvent(e) PROVE Numbered'
  BY <1>0, <1>2 DEF LandEvent, Numbered, Shown
<1>3. ASSUME NEW e \in flushed, RollBack(e) PROVE Numbered'
  BY <1>0, <1>3 DEF RollBack, Numbered, Shown
<1>4. CASE FeedOnce
  <2> DEFINE x == [id |-> lastId + 1, kind |-> "quotes", ours |-> TRUE, print |-> feed.now]
  <2>1. x.id = lastId + 1 /\ x.kind = "quotes" /\ x.ours
    OBVIOUS
  <2>2. log' = log \cup {x} /\ lastId' = lastId + 1 /\ flushed' = flushed /\ swept' = swept
    BY <1>4 DEF FeedOnce
  <2> HIDE DEF x
  <2> QED BY <1>0, <2>1, <2>2 DEF Numbered, Shown
<1>5. ASSUME NEW n \in 1 .. MaxIds, SweepEvents(n) PROVE Numbered'
  <2>1. log' \cup swept' = log \cup swept
    <3>1. \A e \in log : e.id \in Nat
      BY <1>0 DEF LiveTypeOK, LiveRows
    <3> QED BY <1>5, <3>1 DEF SweepEvents
  <2> QED BY <1>0, <1>5, <2>1 DEF SweepEvents, Numbered, Shown
<1>6. CASE NewPrint \/ Connect \/ Poll \/ Receive \/ Drop \/ UNCHANGED liveVars
  BY <1>0, <1>6 DEF NewPrint, Connect, Poll, Receive, Drop, liveVars, Numbered, Shown
<1> QED BY <1>1, <1>2, <1>3, <1>4, <1>5, <1>6 DEF LiveNext

-----------------------------------------------------------------------------
(* Cursors and what lies between them *)

LEMMA WireTypes ==
    ASSUME LiveTypeOK
    PROVE  \A i \in DOMAIN wire : i \in 1 .. Len(wire) /\ wire[i].id \in Nat
<1>1. wire \in Seq(LiveRows)
  BY DEF LiveTypeOK
<1>2. \A i \in DOMAIN wire : i \in 1 .. Len(wire) /\ wire[i] \in LiveRows
  BY ONLY <1>1
<1>3. \A e \in LiveRows : e.id \in Nat
  BY DEF LiveRows
<1> QED BY <1>2, <1>3

\* Nothing that was visible is forgotten.
LEMMA Grown ==
    ASSUME LiveInv, [LiveNext]_liveVars
    PROVE  Shown \subseteq Shown' /\ Ids(Shown) \subseteq Ids(Shown)' /\ late \subseteq late' /\ swept \subseteq swept'
<1>1. Shown \subseteq Shown' /\ late \subseteq late' /\ swept \subseteq swept'
  <2>1. \A e \in log : e.id \in Nat
    BY DEF LiveInv, LiveTypeOK, LiveRows
  <2>2. ASSUME NEW n \in 1 .. MaxIds, SweepEvents(n)
        PROVE  Shown \subseteq Shown' /\ late \subseteq late' /\ swept \subseteq swept'
    BY <2>1, <2>2 DEF SweepEvents, Shown
  <2>3. ASSUME NEW e \in flushed, LandEvent(e) \/ RollBack(e)
        PROVE  Shown \subseteq Shown' /\ late \subseteq late' /\ swept \subseteq swept'
    BY <2>3 DEF LandEvent, RollBack, Shown
  <2>4. ASSUME NEW sort \in Sorts, PublishEvent(sort)
        PROVE  Shown \subseteq Shown' /\ late \subseteq late' /\ swept \subseteq swept'
    BY <2>4 DEF PublishEvent, Shown
  <2>5. CASE NewPrint \/ FeedOnce \/ Connect \/ Poll \/ Receive \/ Drop \/ UNCHANGED liveVars
    BY <2>5 DEF NewPrint, FeedOnce, Connect, Poll, Receive, Drop, liveVars, Shown
  <2> QED BY <2>2, <2>3, <2>4, <2>5 DEF LiveNext
<1> QED BY <1>1 DEF Ids

Tabs == Connect \/ Poll \/ Receive \/ Drop

\* Producers, the feed and the sweep leave the tab and its stream alone.
LEMMA Elsewhere ==
    ASSUME [LiveNext]_liveVars
    PROVE  Tabs \/ UNCHANGED <<stream, wire, after, got, baseline>>
BY DEF LiveNext, Tabs, liveVars, PublishEvent, LandEvent, RollBack, NewPrint, FeedOnce, SweepEvents

LEMMA CursorStep == LiveInv /\ [LiveNext]_liveVars => Cursors'
<1> SUFFICES ASSUME LiveInv, [LiveNext]_liveVars
             PROVE  Cursors'
  OBVIOUS
<1>0. LiveTypeOK /\ Cursors /\ Numbered /\ Heading
  BY DEF LiveInv
<1>1. Ids(Shown) \subseteq Ids(Shown)'
  BY Grown
<1>2. CASE UNCHANGED <<stream, wire, after, got, baseline>>
  BY <1>0, <1>1, <1>2 DEF Cursors
<1>3. CASE Connect
  <2>1. stream' = OpeningFrom(after) /\ after' = after /\ baseline' = baseline /\ wire' # <<>> /\ wire'[1].kind = "ready"
    BY <1>3 DEF Connect
  <2>2. stream' \in {0} \cup Ids(Shown) /\ (after # NoCursor => stream' = after /\ stream' \in Nat)
    BY <1>0, <2>1, OpeningHolds
  <2> QED BY <1>0, <1>1, <2>1, <2>2 DEF Cursors
<1>4. CASE Poll
  <2>1. PICK rows \in SortedById(Since(stream)) : wire' = wire \o rows
    BY <1>4 DEF Poll
  <2>2. stream # NoCursor /\ Since(stream) # {} /\ stream' = Max({stream} \cup Ids(Since(stream)))
    BY <1>4 DEF Poll
  <2>3. stream' \in Nat /\ stream' \in Ids(Since(stream)) /\ stream' > stream /\ rows \in Seq(LiveRows)
    BY <1>0, <2>2, PageHeads
  <2>4. Ids(Since(stream)) \subseteq Ids(Shown)
    BY DEF Since, Page, Rows, Ids, Shown
  <2>5. after = NoCursor => wire' # <<>> /\ wire'[1] = wire[1]
    BY <1>0, <2>1, <2>2, <2>3 DEF LiveTypeOK, Cursors
  <2>6. after' = after /\ baseline' = baseline
    BY <1>4 DEF Poll
  <2>7. stream' # NoCursor
    BY <2>3, LiveEventsAssumption
  <2>8. after # NoCursor => after <= stream'
    <3>1. after # NoCursor => after \in Nat /\ after <= stream /\ stream \in Nat
      BY <1>0, <2>2 DEF Cursors, LiveTypeOK
    <3> QED BY <3>1, <2>3
  <2> QED BY <1>0, <1>1, <2>2, <2>3, <2>4, <2>5, <2>6, <2>7, <2>8 DEF Cursors
<1>5. CASE Receive
  <2>1. /\ wire # <<>> /\ after' = wire[1].id /\ stream' = stream
        /\ baseline' = IF baseline = NoCursor THEN wire[1].id ELSE baseline
    BY <1>5 DEF Receive
  <2>2. 1 \in DOMAIN wire /\ wire[1].id \in Nat
    <3>1. 1 \in DOMAIN wire
      BY <1>0, <2>1 DEF LiveTypeOK
    <3> QED BY <1>0, <3>1, WireTypes
  <2>3. wire[1].id <= stream /\ wire[1].id \in {0} \cup Ids(Shown) /\ wire[1].id # NoCursor /\ stream # NoCursor
    BY <1>0, <2>1, <2>2, LiveEventsAssumption DEF Heading
  <2> QED BY <1>0, <1>1, <2>1, <2>2, <2>3 DEF Cursors
<1>6. CASE Drop
  BY <1>0, <1>1, <1>6 DEF Drop, Cursors
<1> QED BY <1>2, <1>3, <1>4, <1>5, <1>6, Elsewhere DEF Tabs

LEMMA HeadingStep == LiveInv /\ [LiveNext]_liveVars => Heading'
<1> SUFFICES ASSUME LiveInv, [LiveNext]_liveVars
             PROVE  Heading'
  OBVIOUS
<1>0. LiveTypeOK /\ Cursors /\ Numbered /\ Heading
  BY DEF LiveInv
<1>1. Ids(Shown) \subseteq Ids(Shown)'
  BY Grown
<1>2. CASE UNCHANGED <<stream, wire, after, got, baseline>>
  BY <1>0, <1>1, <1>2 DEF Heading
<1>3. CASE Connect
  <2> DEFINE hello == [id |-> OpeningFrom(after), kind |-> "ready", ours |-> TRUE, print |-> 0]
  <2>1. wire' = <<hello>> /\ hello.id = OpeningFrom(after) /\ hello.kind = "ready"
        /\ stream' = OpeningFrom(after) /\ after' = after
    BY <1>3 DEF Connect
  <2> HIDE DEF hello
  <2>2. DOMAIN wire' = {1} /\ wire'[1] = hello
    BY <2>1
  <2>3. hello.id \in Nat /\ hello.id \in {0} \cup Ids(Shown) /\ (after # NoCursor => hello.id = after)
    BY <1>0, <2>1, OpeningHolds
  <2>4. stream' # NoCursor /\ hello.id <= stream'
    BY <2>1, <2>3, LiveEventsAssumption
  <2> QED BY <1>1, <2>1, <2>2, <2>3, <2>4 DEF Heading
<1>4. CASE Poll
  <2>1. PICK rows \in SortedById(Since(stream)) : wire' = wire \o rows
    BY <1>4 DEF Poll
  <2>2. stream # NoCursor /\ Since(stream) # {} /\ stream' = Max({stream} \cup Ids(Since(stream)))
    BY <1>4 DEF Poll
  <2>3. /\ stream' \in Nat /\ stream' > stream /\ rows \in Seq(LiveRows)
        /\ \A i \in DOMAIN rows : rows[i] \in log /\ rows[i].id > stream /\ rows[i].id <= stream'
    BY <1>0, <2>2, PageHeads
  <2>4. \A i \in DOMAIN rows : rows[i].kind # "ready" /\ rows[i].id \in Ids(Shown) /\ rows[i].id \in Nat
    BY <1>0, <2>3 DEF Numbered, Shown, Ids, LiveTypeOK, LiveRows
  <2>5. \A i, j \in DOMAIN rows : i < j => rows[i].id < rows[j].id
    BY DEF SortedById
  <2>6. wire \in Seq(LiveRows) /\ stream \in Nat /\ stream' # NoCursor
    BY <1>0, <2>2, <2>3, LiveEventsAssumption DEF LiveTypeOK
  <2>7. \A i \in DOMAIN wire' :
          \/ i \in DOMAIN wire /\ wire'[i] = wire[i]
          \/ i > Len(wire) /\ i - Len(wire) \in DOMAIN rows /\ wire'[i] = rows[i - Len(wire)]
    BY <2>1, <2>3, <2>6
  <2>8. \A i \in DOMAIN wire : i <= Len(wire) /\ wire[i].id \in Nat
    BY <1>0, WireTypes
  <2>9. ASSUME NEW i \in DOMAIN wire'
        PROVE  /\ wire'[i].id <= stream' /\ wire'[i].id \in {0} \cup Ids(Shown)
               /\ wire'[i].kind = "ready" => i = 1
               /\ after # NoCursor /\ wire'[i].kind = "ready" => wire'[i].id = after
               /\ after # NoCursor /\ wire'[i].kind # "ready" => wire'[i].id > after
    <3>1. CASE i \in DOMAIN wire /\ wire'[i] = wire[i]
      <4>1. wire[i].id <= stream /\ wire[i].id \in Nat
        BY <1>0, <2>8, <3>1 DEF Heading
      <4>2. wire[i].id <= stream'
        BY ONLY <4>1, <2>3, <2>6
      <4> QED BY <1>0, <3>1, <4>2 DEF Heading
    <3>2. CASE i > Len(wire) /\ i - Len(wire) \in DOMAIN rows /\ wire'[i] = rows[i - Len(wire)]
      <4>1. after # NoCursor => after \in Nat /\ after <= stream
        BY <1>0, <2>2 DEF Cursors, LiveTypeOK
      <4>2. wire'[i].id > stream /\ wire'[i].id <= stream' /\ wire'[i].id \in Nat
        BY <2>3, <2>4, <3>2
      <4>3. after # NoCursor => wire'[i].id > after
        BY ONLY <4>1, <4>2, <2>6
      <4> QED BY <2>4, <3>2, <4>2, <4>3
    <3> QED BY <2>7, <3>1, <3>2
  <2>10. ASSUME NEW i \in DOMAIN wire', NEW j \in DOMAIN wire', i < j
         PROVE  wire'[i].id < wire'[j].id
    <3>1. CASE i \in DOMAIN wire /\ j \in DOMAIN wire /\ wire'[i] = wire[i] /\ wire'[j] = wire[j]
      BY <1>0, <2>10, <3>1 DEF Heading
    <3>2. CASE i \in DOMAIN wire /\ wire'[i] = wire[i] /\ j > Len(wire) /\ j - Len(wire) \in DOMAIN rows /\ wire'[j] = rows[j - Len(wire)]
      <4>1. wire[i].id <= stream /\ wire[i].id \in Nat
        BY <1>0, <2>8, <3>2 DEF Heading
      <4>2. wire'[j].id > stream /\ wire'[j].id \in Nat
        BY <2>3, <2>4, <3>2
      <4> QED BY ONLY <3>2, <4>1, <4>2, <2>6
    <3>3. CASE i > Len(wire) /\ i - Len(wire) \in DOMAIN rows /\ wire'[i] = rows[i - Len(wire)]
               /\ j > Len(wire) /\ j - Len(wire) \in DOMAIN rows /\ wire'[j] = rows[j - Len(wire)]
      <4>1. i - Len(wire) < j - Len(wire)
        BY <2>1, <2>3, <2>6, <2>10
      <4> QED BY <2>5, <3>3, <4>1
    <3>4. ~ (i > Len(wire) /\ j \in DOMAIN wire)
      <4>1. Len(wire) \in Nat /\ i \in Nat /\ j \in Nat
        BY <2>1, <2>3, <2>6
      <4> QED BY ONLY <2>8, <2>10, <4>1
    <3> QED BY <2>7, <3>1, <3>2, <3>3, <3>4
  <2>11. after' = after
    BY <1>4 DEF Poll
  <2> QED BY <1>1, <2>6, <2>9, <2>10, <2>11 DEF Heading
<1>5. CASE Receive
  <2>1. wire # <<>> /\ after' = wire[1].id /\ stream' = stream /\ wire' = Tail(wire)
    BY <1>5 DEF Receive
  <2>2. wire \in Seq(LiveRows)
    BY <1>0 DEF LiveTypeOK
  <2>3. \A i \in DOMAIN wire' : i \in Nat /\ i + 1 \in DOMAIN wire /\ 1 < i + 1 /\ wire'[i] = wire[i + 1]
    BY <2>1, <2>2
  <2>4. 1 \in DOMAIN wire /\ \A i \in DOMAIN wire : wire[i].id \in Nat
    <3>1. 1 \in DOMAIN wire
      BY <2>1, <2>2
    <3> QED BY <1>0, <3>1, WireTypes
  <2>5. ASSUME NEW i \in DOMAIN wire'
        PROVE  /\ wire'[i].id <= stream /\ wire'[i].id \in {0} \cup Ids(Shown)
               /\ wire'[i].kind # "ready" /\ wire'[i].id > wire[1].id
    <3>1. i + 1 \in DOMAIN wire /\ 1 < i + 1 /\ i + 1 # 1 /\ wire'[i] = wire[i + 1]
      BY <2>3
    <3>2. wire[1].id < wire[i + 1].id /\ wire[i + 1].id \in Nat /\ wire[1].id \in Nat
      BY <1>0, <2>4, <3>1 DEF Heading
    <3>3. wire[i + 1].kind # "ready"
      BY <1>0, <3>1 DEF Heading
    <3> QED BY <1>0, <3>1, <3>2, <3>3 DEF Heading
  <2>6. ASSUME NEW i \in DOMAIN wire', NEW j \in DOMAIN wire', i < j
        PROVE  wire'[i].id < wire'[j].id
    <3>1. i + 1 < j + 1
      BY <2>3, <2>6
    <3> QED BY <1>0, <2>3, <3>1 DEF Heading
  <2>7. stream # NoCursor
    BY <1>0, <2>1 DEF Heading
  <2> QED BY <1>1, <2>1, <2>5, <2>6, <2>7 DEF Heading
<1>6. CASE Drop
  BY <1>6 DEF Drop, Heading
<1> QED BY <1>2, <1>3, <1>4, <1>5, <1>6, Elsewhere DEF Tabs

-----------------------------------------------------------------------------
(* What the cursors have passed *)

\* An event that becomes visible below a cursor is late.
LEMMA LandsLate ==
    ASSUME LiveInv, NEW e \in flushed, LandEvent(e), NEW c \in Nat, c \in {0} \cup Ids(Shown), e.id <= c
    PROVE  e.id \in late'
<1>0. LiveTypeOK /\ Numbered
  BY DEF LiveInv
<1>1. e.id \in 1 .. lastId /\ e.id \in Nat
  BY <1>0 DEF Numbered, LiveTypeOK
<1>2. c # 0
  BY <1>1
<1>3. PICK d \in Shown : d.id = c
  BY <1>2 DEF Ids
<1>4. d.id # e.id
  BY <1>0 DEF Numbered
<1>5. c > e.id
  BY ONLY <1>1, <1>3, <1>4, c \in Nat, e.id <= c
<1>6. \E id \in Ids(log \cup swept) : id > e.id
  BY <1>3, <1>5 DEF Ids, Shown
<1> QED BY <1>6 DEF LandEvent

\* A row becomes visible when its producer commits, or the feed publishes it.
LEMMA RowsAfter ==
    ASSUME LiveInv, [LiveNext]_liveVars, NEW e \in log', e \notin log
    PROVE  \/ e \in flushed /\ LandEvent(e)
           \/ FeedOnce /\ e.id = lastId + 1
<1>1. ASSUME NEW d \in flushed, LandEvent(d) PROVE e \in flushed /\ LandEvent(e)
  BY <1>1 DEF LandEvent
<1>2. CASE FeedOnce
  BY <1>2 DEF FeedOnce
<1>3. ASSUME NEW d \in flushed, RollBack(d) PROVE FALSE
  BY <1>3 DEF RollBack
<1>4. ASSUME NEW sort \in Sorts, PublishEvent(sort) PROVE FALSE
  BY <1>4 DEF PublishEvent
<1>5. ASSUME NEW n \in 1 .. MaxIds, SweepEvents(n) PROVE FALSE
  BY <1>5 DEF SweepEvents
<1>6. CASE NewPrint \/ Connect \/ Poll \/ Receive \/ Drop \/ UNCHANGED liveVars
  BY <1>6 DEF NewPrint, Connect, Poll, Receive, Drop, liveVars
<1> QED BY <1>1, <1>2, <1>3, <1>4, <1>5, <1>6 DEF LiveNext

\* What is covered stays covered, while readers gain and cursors stay.
LEMMA StaysCovered ==
    ASSUME LiveInv, [LiveNext]_liveVars, NEW e, NEW ids, NEW more, ids \subseteq more, NEW c, Covered(e, ids, c)
    PROVE  Covered(e, more, c)'
<1>1. Shown \subseteq Shown' /\ late \subseteq late' /\ swept \subseteq swept'
  BY Grown
<1> QED BY <1>1 DEF Covered

\* No event that anyone makes visible lies below a cursor uncovered.
LEMMA QuietStep ==
    ASSUME LiveInv, [LiveNext]_liveVars, NEW c \in Nat, c \in {0} \cup Ids(Shown), NEW b, NEW ids,
           \A e \in log : e.ours /\ e.id > b /\ e.id <= c => Covered(e, ids, c)
    PROVE  \A e \in log' : e.ours /\ e.id > b /\ e.id <= c => Covered(e, ids, c)'
<1> SUFFICES ASSUME NEW e \in log', e.ours, e.id > b, e.id <= c
             PROVE  Covered(e, ids, c)'
  OBVIOUS
<1>1. CASE e \in log
  <2>1. Covered(e, ids, c)
    BY <1>1
  <2> QED BY <2>1, StaysCovered
<1>2. CASE e \in flushed /\ LandEvent(e)
  <2>1. e.id \in late'
    BY <1>2, LandsLate
  <2> QED BY <2>1 DEF Covered
<1>3. CASE FeedOnce /\ e.id = lastId + 1
  <2>1. lastId \in Nat /\ \A id \in Ids(Shown) : id \in 1 .. lastId
    BY DEF LiveInv, LiveTypeOK, Numbered, Ids
  <2>2. c <= lastId
    BY <2>1
  <2> QED BY ONLY <1>3, <2>1, <2>2, c \in Nat, e.id <= c
<1>4. e \in log \/ (e \in flushed /\ LandEvent(e)) \/ (FeedOnce /\ e.id = lastId + 1)
  BY RowsAfter
<1> QED BY <1>1, <1>2, <1>3, <1>4

LEMMA StreamStep == LiveInv /\ [LiveNext]_liveVars => StreamCovers'
<1> SUFFICES ASSUME LiveInv, [LiveNext]_liveVars, stream' # NoCursor
             PROVE  \A e \in log' : e.ours /\ e.id > Started' /\ e.id <= stream' => Covered(e, got \cup OnWire, stream)'
  BY DEF StreamCovers
<1>0. LiveTypeOK /\ Numbered /\ Cursors /\ Heading /\ StreamCovers /\ TabCovers
  BY DEF LiveInv
<1>1. \A e \in log : e.id \in Nat
  BY <1>0 DEF LiveTypeOK, LiveRows
<1>2. CASE UNCHANGED <<stream, wire, after, got, baseline>>
  <2>1. stream \in Nat /\ stream \in {0} \cup Ids(Shown)
    BY <1>0, <1>2 DEF LiveTypeOK, Cursors
  <2>2. \A e \in log : e.ours /\ e.id > Started /\ e.id <= stream => Covered(e, got \cup OnWire, stream)
    BY <1>0, <1>2 DEF StreamCovers
  <2>3. Started' = Started /\ (got \cup OnWire)' = got \cup OnWire /\ stream' = stream
    BY <1>2 DEF Started, OnWire
  <2>4. ASSUME NEW b, NEW ids, NEW c, b = Started, ids = got \cup OnWire, c = stream
        PROVE  \A e \in log' : e.ours /\ e.id > b /\ e.id <= c => Covered(e, ids, c)'
    BY <2>1, <2>2, <2>4, QuietStep
  <2> QED BY <2>3, <2>4 DEF Covered
<1>3. CASE Connect
  <2>1. /\ stream' = OpeningFrom(after) /\ after' = after /\ baseline' = baseline /\ log' = log /\ swept' = swept
        /\ late' = late /\ got' = got
        /\ wire' = <<[id |-> OpeningFrom(after), kind |-> "ready", ours |-> TRUE, print |-> 0]>>
    BY <1>3 DEF Connect
  <2>2. CASE after = NoCursor
    <3>1. baseline' = NoCursor /\ wire'[1].id = stream'
      BY <1>0, <2>1, <2>2 DEF Cursors
    <3>2. Started' = stream' /\ stream' \in Nat
      BY <1>0, <2>1, <3>1, OpeningHolds DEF Started
    <3> QED BY <1>1, <2>1, <3>2
  <2>3. CASE after # NoCursor
    <3>1. stream' = after /\ baseline # NoCursor
      BY <1>0, <2>1, <2>3, OpeningHolds DEF Cursors
    <3>2. Started' = baseline /\ Shown' = Shown /\ got' \subseteq (got \cup OnWire)'
      BY <2>1, <3>1 DEF Started, Shown
    <3>3. \A e \in log : e.ours /\ e.id > baseline /\ e.id <= after => Covered(e, got, after)
      BY <1>0, <2>3 DEF TabCovers
    <3> QED BY <2>1, <3>1, <3>2, <3>3 DEF Covered
  <2> QED BY <2>2, <2>3
<1>4. CASE Poll
  <2>1. PICK rows \in SortedById(Since(stream)) : wire' = wire \o rows
    BY <1>4 DEF Poll
  <2>2. /\ stream # NoCursor /\ Since(stream) # {} /\ stream' = Max({stream} \cup Ids(Since(stream)))
        /\ after' = after /\ baseline' = baseline /\ log' = log /\ swept' = swept /\ late' = late /\ got' = got
    BY <1>4 DEF Poll
  <2>3. /\ stream' \in Nat /\ stream' > stream /\ stream' \in Ids(Since(stream)) /\ rows \in Seq(LiveRows)
        /\ Since(stream) = {rows[i] : i \in DOMAIN rows}
        /\ \A i \in DOMAIN rows : rows[i] \in log /\ rows[i].id > stream /\ rows[i].id <= stream'
    BY <1>0, <2>2, PageHeads
  <2>4. wire \in Seq(LiveRows) /\ stream \in Nat
    BY <1>0, <2>2 DEF LiveTypeOK
  <2>5. OnWire \subseteq OnWire'
    <3>1. \A i \in DOMAIN wire : i \in DOMAIN wire' /\ wire'[i] = wire[i]
      BY <2>1, <2>3, <2>4
    <3> QED BY <3>1 DEF OnWire
  <2>6. Ids(Since(stream)) \subseteq OnWire'
    <3>1. \A i \in DOMAIN rows : i + Len(wire) \in DOMAIN wire' /\ wire'[i + Len(wire)] = rows[i]
      BY <2>1, <2>3, <2>4
    <3>2. \A i \in DOMAIN rows : rows[i].kind # "ready"
      BY <1>0, <2>3 DEF Numbered, Shown
    <3>3. \A i \in DOMAIN rows : rows[i].id \in OnWire'
      BY <3>1, <3>2 DEF OnWire
    <3> QED BY <2>3, <3>3 DEF Ids
  <2>7. Started' = Started
    <3>1. baseline = NoCursor => wire # <<>>
      BY <1>0, <2>2 DEF Cursors
    <3>2. wire # <<>> => wire'[1] = wire[1]
      BY <2>1, <2>3, <2>4
    <3> QED BY <2>2, <3>1, <3>2 DEF Started
  <2>8. ASSUME NEW q \in log, q.ours, q.id > stream, q.id <= stream'
        PROVE  q.id \in OnWire' \/ (q.kind = "quotes" /\ \E p \in log : p.kind = "quotes" /\ p.id > q.id /\ p.id \in OnWire')
    <3>1. PICK d \in Since(stream) : d.id = stream'
      BY <2>3 DEF Ids
    <3>2. d \in Page(stream) /\ q \in Rows(stream)
      BY <2>8 DEF Since, Rows
    <3>3. q \in Page(stream)
      BY <1>0, <2>4, <2>8, <3>1, <3>2, PageBelow
    <3>4. q \in Since(stream) \/ (q.kind = "quotes" /\ \E p \in Since(stream) : p.kind = "quotes" /\ p.id > q.id)
      BY <1>0, <2>4, <3>3, PageSent
    <3>5. \A p \in Since(stream) : p \in log /\ p.id \in OnWire'
      BY <2>6 DEF Since, Page, Rows, Ids
    <3> QED BY <3>4, <3>5
  <2>9. ASSUME NEW e \in log, e.ours, e.id > Started, e.id <= stream'
        PROVE  Covered(e, got \cup OnWire, stream)'
    <3>1. e.id \in Nat
      BY <1>1
    <3>2. CASE e.id > stream
      BY <2>2, <2>8, <2>9, <3>2 DEF Covered, Shown
    <3>3. CASE e.id <= stream
      <4>1. Covered(e, got \cup OnWire, stream)
        BY <1>0, <2>2, <2>9, <3>3 DEF StreamCovers
      <4>2. CASE e.id \in got \cup OnWire \cup late
        BY <2>2, <2>5, <4>2 DEF Covered
      <4>3. ASSUME e.kind = "quotes", NEW q \in Shown, q.kind = "quotes", q.id > e.id,
                   q.id \in got \cup OnWire \/ q.id > stream \/ q \in swept
            PROVE  Covered(e, got \cup OnWire, stream)'
        <5>1. CASE q.id \in got \cup OnWire \/ q \in swept \/ q.id > stream'
          BY <2>2, <2>5, <4>3, <5>1 DEF Covered, Shown
        <5>2. CASE q \in log /\ q.id > stream /\ q.id <= stream'
          <6>1. q.ours
            BY <1>0, <4>3 DEF Numbered
          <6>2. q.id \in OnWire' \/ \E p \in log : p.kind = "quotes" /\ p.id > q.id /\ p.id \in OnWire'
            BY <2>8, <5>2, <6>1
          <6>3. \A p \in log : p.id > q.id => p.id > e.id
            <7>1. \A p \in log : p.id \in Nat /\ q.id \in Nat
              BY <1>1, <5>2
            <7> QED BY ONLY <3>1, <4>3, <7>1
          <6> QED BY <2>2, <4>3, <6>2, <6>3 DEF Covered, Shown
        <5>3. q \in swept \/ (q \in log /\ (q.id > stream' \/ q.id <= stream'))
          <6>1. q \in log => q.id \in Nat
            BY <1>1
          <6> QED BY <2>3, <6>1 DEF Shown
        <5> QED BY <4>3, <5>1, <5>2, <5>3
      <4> QED BY <4>1, <4>2, <4>3 DEF Covered
    <3> QED BY <2>4, <3>1, <3>2, <3>3
  <2> QED BY <2>2, <2>7, <2>9
<1>5. CASE Receive
  <2>1. /\ wire # <<>> /\ stream' = stream /\ wire' = Tail(wire) /\ log' = log /\ swept' = swept /\ late' = late
        /\ got' = IF wire[1].kind = "ready" THEN got ELSE got \cup {wire[1].id}
        /\ baseline' = IF baseline = NoCursor THEN wire[1].id ELSE baseline
    <3>1. Head(wire) = wire[1]
      BY <1>0 DEF LiveTypeOK
    <3> QED BY <1>5, <3>1 DEF Receive
  <2>2. wire \in Seq(LiveRows) /\ 1 \in DOMAIN wire
    BY <1>0, <2>1 DEF LiveTypeOK
  <2>3. wire[1].id # NoCursor
    BY <1>0, <2>2, WireTypes, LiveEventsAssumption
  <2>4. Started' = Started
    BY <2>1, <2>3 DEF Started
  <2>5. got \cup OnWire \subseteq (got \cup OnWire)'
    <3>1. \A i \in DOMAIN wire : i = 1 \/ (i - 1 \in DOMAIN wire' /\ wire'[i - 1] = wire[i])
      BY <2>1, <2>2
    <3> QED BY <2>1, <3>1 DEF OnWire
  <2>6. \A e \in log : e.ours /\ e.id > Started /\ e.id <= stream => Covered(e, got \cup OnWire, stream)
    BY <1>0, <2>1 DEF StreamCovers
  <2> QED BY <2>1, <2>4, <2>5, <2>6 DEF Covered, Shown
<1>6. CASE Drop
  BY <1>6 DEF Drop
<1> QED BY <1>2, <1>3, <1>4, <1>5, <1>6, Elsewhere DEF Tabs

LEMMA TabStep == LiveInv /\ [LiveNext]_liveVars => TabCovers'
<1> SUFFICES ASSUME LiveInv, [LiveNext]_liveVars, after' # NoCursor
             PROVE  \A e \in log' : e.ours /\ e.id > baseline' /\ e.id <= after' => Covered(e, got, after)'
  BY DEF TabCovers
<1>0. LiveTypeOK /\ Numbered /\ Cursors /\ Heading /\ TabCovers
  BY DEF LiveInv
<1>1. CASE UNCHANGED <<after, got, baseline>>
  <2>1. after \in Nat /\ after \in {0} \cup Ids(Shown)
    BY <1>0, <1>1 DEF LiveTypeOK, Cursors
  <2>2. \A e \in log : e.ours /\ e.id > baseline /\ e.id <= after => Covered(e, got, after)
    BY <1>0, <1>1 DEF TabCovers
  <2>3. ASSUME NEW b, NEW ids, NEW c, b = baseline, ids = got, c = after
        PROVE  \A e \in log' : e.ours /\ e.id > b /\ e.id <= c => Covered(e, ids, c)'
    BY <2>1, <2>2, <2>3, QuietStep
  <2> QED BY <1>1, <2>3 DEF Covered
<1>2. CASE Receive
  <2>1. wire # <<>> /\ stream' = stream /\ after' = wire[1].id /\ log' = log /\ swept' = swept
    BY <1>2 DEF Receive
  <2>2. StreamCovers' /\ Cursors' /\ Heading' /\ LiveTypeOK'
    BY StreamStep, CursorStep, HeadingStep, LiveTypeStep
  <2>3. stream # NoCursor
    BY <1>0, <2>1 DEF Heading
  <2>4. after' <= stream' /\ after' \in Nat /\ stream' \in Nat /\ baseline' # NoCursor
    BY <2>1, <2>2, <2>3 DEF Cursors, LiveTypeOK
  <2>5. Started' = baseline'
    BY <2>4 DEF Started
  <2>6. \A id \in OnWire' : id > after' /\ id \in Nat
    <3>1. \A i \in DOMAIN wire' : wire'[i].id \in Nat
      <4>1. \A i \in DOMAIN wire' : i + 1 \in DOMAIN wire /\ wire'[i] = wire[i + 1]
        BY <1>0, <1>2 DEF Receive, LiveTypeOK
      <4>2. \A i \in DOMAIN wire : wire[i].id \in Nat
        BY <1>0, WireTypes
      <4> QED BY <4>1, <4>2
    <3> QED BY <2>2, <3>1 DEF Heading, OnWire
  <2>7. \A e \in log' \cup swept' : e.id \in Nat
    BY <2>2 DEF LiveTypeOK, LiveRows
  <2>8. ASSUME NEW e \in log', e.ours, e.id > baseline', e.id <= after'
        PROVE  Covered(e, got, after)'
    <3>1. e.id <= stream' /\ e.id \in Nat
      <4>1. e.id \in Nat
        BY <2>7
      <4> QED BY ONLY <2>4, <2>8, <4>1
    <3>2. Covered(e, got \cup OnWire, stream)'
      BY <2>1, <2>2, <2>3, <2>5, <2>8, <3>1 DEF StreamCovers
    <3>3. e.id \notin OnWire'
      <4>1. ASSUME e.id \in OnWire' PROVE FALSE
        <5>1. e.id > after'
          BY <2>6, <4>1
        <5> QED BY ONLY <2>4, <2>8, <3>1, <5>1
      <4> QED BY <4>1
    <3>4. \A q \in log' \cup swept' : q.id > stream' => q.id > after'
      BY ONLY <2>4, <2>7
    <3> QED BY <2>6, <3>2, <3>3, <3>4 DEF Covered, Shown
  <2> QED BY <2>8
<1>3. CASE Connect \/ Poll \/ Drop
  BY <1>1, <1>3 DEF Connect, Poll, Drop
<1> QED BY <1>1, <1>2, <1>3, Elsewhere DEF Tabs

LEMMA LiveStarts == LiveInit => LiveInv
<1> SUFFICES ASSUME LiveInit PROVE LiveInv
  OBVIOUS
<1>1. LiveTypeOK
  BY FS_EmptySet DEF LiveInit, LiveTypeOK
<1>2. Numbered /\ Cursors /\ Heading
  BY DEF LiveInit, Numbered, Cursors, Heading, Shown, Ids
<1>3. StreamCovers /\ TabCovers
  BY DEF LiveInit, StreamCovers, TabCovers
<1> QED BY <1>1, <1>2, <1>3 DEF LiveInv

LEMMA LiveInvSound == LiveInv => NothingPassedOver
<1> SUFFICES ASSUME LiveInv, NEW e \in Missed
             PROVE  \/ e.id \in late
                    \/ e.kind = "quotes" /\ \E q \in log \cup swept : /\ q.kind = "quotes" /\ q.id > e.id
                                                                    /\ (q.id \in got \/ q.id > after \/ q \in swept)
  BY DEF NothingPassedOver
<1>1. e \in log /\ e.ours /\ baseline # NoCursor /\ e.id > baseline /\ e.id <= after /\ e.id \notin got
  BY DEF Missed
<1>2. Covered(e, got, after)
  BY <1>1 DEF LiveInv, TabCovers, Cursors
<1> QED BY <1>1, <1>2 DEF Covered, Shown

\* However connections drop, pages are cut and producers commit, the two cursors keep the
\* invariant (live.since, v1.stream_events, frontend lib/live.ts).
THEOREM LiveInvariant == LiveSpec => []LiveInv
<1>1. LiveInv /\ [LiveNext]_liveVars => LiveInv'
  <2> SUFFICES ASSUME LiveInv, [LiveNext]_liveVars PROVE LiveInv'
    OBVIOUS
  <2> QED BY LiveTypeStep, NumberedStep, CursorStep, HeadingStep, StreamStep, TabStep DEF LiveInv
<1> QED BY <1>1, LiveStarts, PTL DEF LiveSpec

\* For any producers, page size and number of drops: what a tab's cursor has passed the
\* tab has received, or it became visible late, or newer quotes replace it.
THEOREM NothingIsPassedOver == LiveSpec => []NothingPassedOver
BY LiveInvariant, LiveInvSound, PTL

-----------------------------------------------------------------------------
(* Portfolios *)

\* Where no request overtook another, a symbol with transactions has the row that running
\* them in trade order leaves, and the run does not oversell (portfolio._rederive, fifo).
RowsFollowRuns ==
    \A s \in Symbols \ unsure :
        LET S == Of(s, recorded)
        IN S # {} => ~ Oversold(S) /\ position[s] = Derived(S)

IsRequest(r) ==
    /\ r = [symbol |-> r.symbol, add |-> r.add, drop |-> r.drop, row |-> r.row, had |-> r.had, overtaken |-> r.overtaken]
    /\ r.symbol \in Symbols /\ r.overtaken \in BOOLEAN
    /\ \A t \in r.add \cup r.drop : t.symbol = r.symbol

\* The transactions its symbol will have.
Leaves(r) == (Of(r.symbol, recorded) \ r.drop) \cup r.add

\* A request that nothing overtook will write what these transactions leave.
Foresees(r) == ~ r.overtaken /\ Leaves(r) # {} => ~ Oversold(Leaves(r)) /\ r.row = Derived(Leaves(r))

BooksInv ==
    /\ position \in [Symbols -> {position[s] : s \in Symbols}]
    /\ asked \in [Clients -> {asked[k] : k \in Clients}]
    /\ unsure \subseteq Symbols
    /\ \A t \in recorded : t.symbol \in Symbols
    /\ \A k \in Clients : asked[k] # NoRequest => IsRequest(asked[k]) /\ Foresees(asked[k])
    /\ RowsFollowRuns

LEMMA AskKeeps ==
    ASSUME BooksInv, NEW k \in Clients, NEW s \in Symbols, NEW add, NEW drop, NEW row, Ask(k, s, add, drop, row),
           \A t \in add \cup drop : t.symbol = s,
           LET S == (Of(s, recorded) \ drop) \cup add IN S # {} => ~ Oversold(S) /\ row = Derived(S)
    PROVE  BooksInv'
<1> DEFINE r == [symbol |-> s, add |-> add, drop |-> drop, row |-> row, had |-> position[s] # NoPosition, overtaken |-> FALSE]
<1>1. /\ r.symbol = s /\ r.add = add /\ r.drop = drop /\ r.row = row /\ r.overtaken = FALSE
      /\ IsRequest(r)
  BY DEF IsRequest
<1>2. asked' = [asked EXCEPT ![k] = r] /\ UNCHANGED <<recorded, position, unsure>>
  BY DEF Ask
<1> HIDE DEF r
<1>3. Foresees(r)
  BY <1>1 DEF Foresees, Leaves
<1>4. asked' \in [Clients -> {asked'[j] : j \in Clients}] /\ \A j \in Clients : asked'[j] = r \/ asked'[j] = asked[j]
  BY <1>2 DEF BooksInv
<1>5. ASSUME NEW j \in Clients, asked'[j] # NoRequest PROVE IsRequest(asked'[j]) /\ Foresees(asked[j])'
  <2>1. IsRequest(asked'[j]) /\ Foresees(asked'[j])
    BY <1>1, <1>3, <1>4, <1>5 DEF BooksInv
  <2> QED BY <1>2, <2>1 DEF Foresees, Leaves, IsRequest
<1>6. RowsFollowRuns'
  BY <1>2 DEF BooksInv, RowsFollowRuns
<1> QED BY <1>2, <1>4, <1>5, <1>6 DEF BooksInv, IsRequest

LEMMA CommitKeepsBooks ==
    ASSUME BooksInv, NEW k \in Clients, CommitBook(k)
    PROVE  BooksInv'
<1> DEFINE r == asked[k]
           fails == r.row # NoPosition /\ r.had # (position[r.symbol] # NoPosition)
<1>1. r # NoRequest /\ IsRequest(r) /\ Foresees(r)
  BY DEF CommitBook, BooksInv
<1>2. CASE fails
  <2>1. UNCHANGED <<recorded, position, unsure>> /\ asked' = [asked EXCEPT ![k] = NoRequest]
    BY <1>2 DEF CommitBook
  <2>2. \A j \in Clients : asked'[j] = NoRequest \/ asked'[j] = asked[j]
    BY <2>1 DEF BooksInv
  <2>3. ASSUME NEW j \in Clients, asked'[j] # NoRequest PROVE IsRequest(asked'[j]) /\ Foresees(asked[j])'
    BY <2>1, <2>2, <2>3 DEF BooksInv, Foresees, Leaves
  <2>4. RowsFollowRuns'
    BY <2>1 DEF BooksInv, RowsFollowRuns
  <2>5. asked' \in [Clients -> {asked'[j] : j \in Clients}]
    BY <2>1 DEF BooksInv
  <2> QED BY <2>1, <2>3, <2>4, <2>5 DEF BooksInv, IsRequest
<1>3. CASE ~ fails
  <2>1. /\ recorded' = (recorded \ r.drop) \cup r.add
        /\ position' = [position EXCEPT ![r.symbol] = r.row]
        /\ unsure' = IF r.overtaken THEN unsure \cup {r.symbol} ELSE unsure \ {r.symbol}
        /\ asked' = [j \in Clients |->
                     IF j = k THEN NoRequest
                     ELSE IF asked[j] # NoRequest /\ asked[j].symbol = r.symbol THEN [asked[j] EXCEPT !.overtaken = TRUE]
                     ELSE asked[j]]
    BY <1>1, <1>3 DEF CommitBook
  <2>2. r.symbol \in Symbols /\ \A t \in r.add \cup r.drop : t.symbol = r.symbol
    BY <1>1 DEF IsRequest
  <2>3. Of(r.symbol, recorded') = Leaves(r)
    BY <2>1, <2>2 DEF Of, Leaves
  <2>4. \A s \in Symbols : s # r.symbol => Of(s, recorded') = Of(s, recorded)
    BY <2>1, <2>2 DEF Of
  <2>5. /\ position'[r.symbol] = r.row
        /\ \A s \in Symbols : s # r.symbol => position'[s] = position[s]
        /\ position' \in [Symbols -> {position'[s] : s \in Symbols}]
    BY <2>1, <2>2 DEF BooksInv
  <2>6. RowsFollowRuns'
    <3>1. ASSUME NEW s \in Symbols, s \notin unsure', NEW S, S = Of(s, recorded'), S # {}
          PROVE  ~ Oversold(S) /\ position'[s] = Derived(S)
      <4>1. CASE s = r.symbol
        <5>1. ~ r.overtaken
          BY <2>1, <3>1, <4>1
        <5> QED BY <1>1, <2>3, <2>5, <3>1, <4>1, <5>1 DEF Foresees
      <4>2. CASE s # r.symbol
        <5>1. s \notin unsure
          BY <2>1, <3>1, <4>2
        <5>2. S = Of(s, recorded) /\ position'[s] = position[s]
          BY <2>4, <2>5, <3>1, <4>2
        <5>3. ~ Oversold(S) /\ position[s] = Derived(S)
          BY <3>1, <5>1, <5>2 DEF BooksInv, RowsFollowRuns
        <5> QED BY <5>2, <5>3
      <4> QED BY <4>1, <4>2
    <3> QED BY <3>1 DEF RowsFollowRuns, Of
  <2>7. ASSUME NEW j \in Clients, asked'[j] # NoRequest PROVE IsRequest(asked'[j]) /\ Foresees(asked[j])'
    <3>1. j # k /\ asked[j] # NoRequest
      BY <2>1, <2>7
    <3>2. IsRequest(asked[j]) /\ Foresees(asked[j])
      BY <3>1 DEF BooksInv
    <3>3. CASE asked[j].symbol = r.symbol
      <4>1. asked'[j] = [asked[j] EXCEPT !.overtaken = TRUE]
        BY <2>1, <3>1, <3>3
      <4>2. ASSUME NEW q, IsRequest(q), NEW p, p = [q EXCEPT !.overtaken = TRUE]
            PROVE  IsRequest(p) /\ p.overtaken
        <5>1. q = [symbol |-> q.symbol, add |-> q.add, drop |-> q.drop, row |-> q.row, had |-> q.had, overtaken |-> q.overtaken]
          BY <4>2 DEF IsRequest
        <5>2. p = [symbol |-> q.symbol, add |-> q.add, drop |-> q.drop, row |-> q.row, had |-> q.had, overtaken |-> TRUE]
          BY <4>2, <5>1
        <5> QED BY <4>2, <5>2 DEF IsRequest
      <4>3. IsRequest(asked'[j]) /\ asked'[j].overtaken
        BY <3>2, <4>1, <4>2
      <4> QED BY <4>3 DEF Foresees
    <3>4. CASE asked[j].symbol # r.symbol
      <4>1. asked'[j] = asked[j]
        BY <2>1, <3>1, <3>4
      <4>2. Of(asked[j].symbol, recorded') = Of(asked[j].symbol, recorded)
        BY <2>4, <3>2, <3>4 DEF IsRequest
      <4> QED BY <3>2, <4>1, <4>2 DEF Foresees, Leaves
    <3> QED BY <3>3, <3>4
  <2>8. asked' \in [Clients -> {asked'[j] : j \in Clients}]
    BY <2>1
  <2>9. unsure' \subseteq Symbols /\ \A t \in recorded' : t.symbol \in Symbols
    BY <2>1, <2>2 DEF BooksInv
  <2> QED BY <2>5, <2>6, <2>7, <2>8, <2>9 DEF BooksInv, IsRequest
<1> QED BY <1>2, <1>3

LEMMA BooksStep == BooksInv /\ [BooksNext]_bookVars => BooksInv'
<1> SUFFICES ASSUME BooksInv, [BooksNext]_bookVars
             PROVE  BooksInv'
  OBVIOUS
<1>1. ASSUME NEW k \in Clients, NEW s \in Symbols, NEW q \in ByHand, EnterByHand(k, s, q) PROVE BooksInv'
  BY <1>1, AskKeeps DEF EnterByHand
<1>2. ASSUME NEW k \in Clients, NEW s \in Symbols, DeletePosition(k, s) PROVE BooksInv'
  <2>1. \A t \in {} \cup Of(s, recorded) : t.symbol = s
    BY DEF Of
  <2>2. (Of(s, recorded) \ Of(s, recorded)) \cup {} = {}
    OBVIOUS
  <2>3. Ask(k, s, {}, Of(s, recorded), NoPosition)
    BY <1>2 DEF DeletePosition
  <2> QED BY <2>1, <2>2, <2>3, AskKeeps
<1>3. ASSUME NEW k \in Clients, NEW s \in Symbols, NEW o \in Orders, NEW d \in TradeDates, AddTransaction(k, s, o, d)
      PROVE  BooksInv'
  <2> DEFINE t == [id |-> NewId, symbol |-> s, side |-> o.side, qty |-> o.qty, price |-> o.price, day |-> d]
  <2>1. /\ ~ Oversold(Of(s, recorded) \cup {t})
        /\ Ask(k, s, {t}, {}, Derived(Of(s, recorded) \cup {t}))
    BY <1>3 DEF AddTransaction
  <2>2. t.symbol = s
    OBVIOUS
  <2> HIDE DEF t
  <2>3. (Of(s, recorded) \ {}) \cup {t} = Of(s, recorded) \cup {t}
    OBVIOUS
  <2> QED BY <2>1, <2>2, <2>3, AskKeeps
<1>4. ASSUME NEW k \in Clients, NEW t \in recorded, DeleteTransaction(k, t) PROVE BooksInv'
  <2>1. t.symbol \in Symbols
    BY DEF BooksInv
  <2>2. (Of(t.symbol, recorded) \ {t}) \cup {} = Of(t.symbol, recorded) \ {t}
    OBVIOUS
  <2>3. ~ Oversold(Of(t.symbol, recorded) \ {t}) /\ Ask(k, t.symbol, {}, {t}, Derived(Of(t.symbol, recorded) \ {t}))
    BY <1>4 DEF DeleteTransaction, Deletable
  <2> QED BY <2>1, <2>2, <2>3, AskKeeps
<1>5. ASSUME NEW k \in Clients, CommitBook(k) PROVE BooksInv'
  BY <1>5, CommitKeepsBooks
<1>6. CASE UNCHANGED bookVars
  <2>1. UNCHANGED <<recorded, position, asked, unsure>>
    BY <1>6 DEF bookVars
  <2>2. RowsFollowRuns'
    BY <2>1 DEF BooksInv, RowsFollowRuns
  <2> QED BY <2>1, <2>2 DEF BooksInv, IsRequest, Foresees, Leaves
<1> QED BY <1>1, <1>2, <1>3, <1>4, <1>5, <1>6 DEF BooksNext

\* Whatever requests of a portfolio overlap: where none overtook another, the row of a
\* symbol is what running its transactions leaves, and none of them oversells
\* (portfolio.add_transaction, delete_transaction, delete_position, upsert_position).
THEOREM BooksFollowRuns == BooksSpec => []RowsFollowRuns
<1>1. BooksInit => BooksInv
  BY DEF BooksInit, BooksInv, RowsFollowRuns, Of
<1>2. BooksInv => RowsFollowRuns
  BY DEF BooksInv
<1> QED BY <1>1, <1>2, BooksStep, PTL DEF BooksSpec

=============================================================================
