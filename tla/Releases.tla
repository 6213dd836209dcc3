------------------------------- MODULE Releases -------------------------------
(***************************************************************************)
(* The desktop release store (services/releases.py, the release routes of  *)
(* api/routes/public.py and api/routes/admin.py): rows in the database and *)
(* files on disk that have to tell the same story.                         *)
(*                                                                         *)
(* Version numbers are naturals in their order, so that bump adds one; an  *)
(* artifact is a file name with what classify and _ext read from it; the   *)
(* bytes of a file stand for its digest, and a signature for the bytes it  *)
(* signs.  A request reads the tables and changes the disk in one step and *)
(* commits in a later one, which may fail.  The upload handler never gives *)
(* the event loop away once it has its bytes; an upload whose flush would  *)
(* wait for the row lock of another is not taken (it would hold the loop   *)
(* that the other's commit needs).  Notes and download counts are left out.*)
(***************************************************************************)
EXTENDS Integers, FiniteSets, FiniteSetsExt, Functions

CONSTANTS
    Numbers,     \* bound: version numbers
    First,       \* "0.2.0"
    Artifacts,   \* bound: file names
    Classified,  \* classify and _ext of each: [platform, kind, ext]
    Builds,      \* bound: [name, bytes] a build machine may send
    Handlers,    \* concurrent requests
    MaxBorn,     \* bound: releases ever created
    Free,        \* no open request
    Missing      \* no row, no file

Digests == {b.bytes : b \in Builds}

\* The row of an uploaded file: the digest of its bytes, and what its signature signs.
FileRows == [name : Artifacts, digest : Digests, signature : Digests \cup {Missing}]

ReleaseRows == [status : {"DRAFT", "PUBLISHED", "WITHDRAWN"}, born : Nat, files : SUBSET FileRows]

\* What a request has read and will write.
Uploads == [op : {"upload"}, version : Numbers, creates : BOOLEAN, born : Nat, file : FileRows, older : SUBSET Artifacts, new : BOOLEAN]
Nexts == [op : {"next"}, version : Numbers, creates : {TRUE}, born : Nat]
Changes == [op : {"status"}, version : Numbers, creates : {FALSE}, born : Nat, status : {"DRAFT", "PUBLISHED", "WITHDRAWN"}]
Deletions == [op : {"delete"}, version : Numbers, creates : {FALSE}, born : Nat, loaded : SUBSET Artifacts]

Jobs == Uploads \cup Nexts \cup Changes \cup Deletions

ASSUME ReleasesAssumption ==
    /\ Numbers \subseteq Nat \ {0} /\ IsFiniteSet(Numbers) /\ First \in Numbers /\ MaxBorn \in Nat
    /\ \A f \in Artifacts : Classified[f].kind \in {"INSTALLER", "UPDATE"}
    /\ \A b \in Builds : b.name \in Artifacts
    /\ Missing \notin ReleaseRows /\ Free \notin Jobs

VARIABLES
    release,  \* releases: [status, born, files] of each version, or Missing
    disk,     \* releases_dir/<version>/: the bytes of each file, or Missing
    job,      \* the open request of each handler, or Free
    born,     \* releases created so far: id and created_at
    frayed    \* history: versions whose disk a failed commit or an overlap may have parted from their rows

releaseVars == <<release, disk, job, born, frayed>>

ReleasesInit ==
    /\ release = [n \in Numbers |-> Missing]
    /\ disk = [n \in Numbers |-> [f \in Artifacts |-> Missing]]
    /\ job = [h \in Handlers |-> Free]
    /\ born = 0 /\ frayed = {}

-----------------------------------------------------------------------------
(* Reads *)

Known(status) == {n \in Numbers : release[n] # Missing /\ release[n].status \in status}

\* latest_version: 0 when there is none
Latest(status) == Max(Known(status) \cup {0})

\* One artifact per (platform, kind, extension).
SameSlot(f, g) == Classified[f] = Classified[g]

Downloadable(file, files) ==
    \/ Classified[file.name].kind = "INSTALLER"
    \/ /\ Classified[file.name].platform = "windows" /\ Classified[file.name].ext = "-setup.exe"
       /\ \A x \in files : ~ (Classified[x.name].platform = "windows" /\ Classified[x.name].kind = "INSTALLER")

\* updater_manifest: the file offered to a program of version current, or none
Manifest(platform, current) ==
    LET n == Latest({"PUBLISHED"})
    IN  IF n <= current THEN {}
        ELSE {file \in release[n].files : /\ Classified[file.name].platform = platform
                                          /\ Classified[file.name].kind = "UPDATE" /\ file.signature # Missing}

-----------------------------------------------------------------------------
(* Requests *)

Open == {h \in Handlers : job[h] # Free}

\* What may not overlap: a deletion with anything, two uploads into one slot, two creations.
Clash(j, k) ==
    \/ j.version = k.version /\ "delete" \in {j.op, k.op}
    \/ j.version = k.version /\ j.op = "upload" /\ k.op = "upload" /\ SameSlot(j.file.name, k.file.name)
    \/ j.creates /\ k.creates

OpenRequest(h, j) ==
    /\ job[h] = Free
    /\ frayed = {}  \* bound: nothing begins once a version is frayed
    /\ job' = [job EXCEPT ![h] = j]
    /\ frayed' = frayed \cup UNION {{j.version, job[k].version} : k \in {k \in Open : Clash(j, job[k])}}
    /\ UNCHANGED release

\* get_or_create: a withdrawn number is refused, and a new one may not go backwards.
NumberAccepted(n) ==
    IF release[n] # Missing THEN release[n].status # "WITHDRAWN" ELSE n >= Latest({"DRAFT", "PUBLISHED", "WITHDRAWN"})

\* The flush of a new or changed row waits for an open request that wrote the same row.
Waits(n, f) ==
    \E k \in Open : job[k].version = n /\ \/ job[k].creates /\ release[n] = Missing
                                          \/ job[k].op = "upload" /\ job[k].file.name = f

\* Mutant: a file is replaced only by one of its own name.
OlderKept(n, f) == {}

\* store_file: the artifacts of the release that the new one replaces
Older(n, f) == IF release[n] = Missing THEN {} ELSE {g \in {x.name : x \in release[n].files} \ {f} : SameSlot(f, g)}

\* The row of store_file: bytes, digest and signature of this upload, new or not.
FileRow(n, f, bytes, signature) == [name |-> f, digest |-> bytes, signature |-> signature]

Upload(h, n, f, bytes, signature) ==
    /\ NumberAccepted(n) /\ ~ Waits(n, f)
    /\ Classified[f].kind = "UPDATE" => signature # Missing
    /\ release[n] = Missing => born < MaxBorn  \* bound
    /\ disk' = [disk EXCEPT ![n] = [g \in Artifacts |-> IF g = f THEN bytes ELSE IF g \in Older(n, f) THEN Missing ELSE @[g]]]
    /\ born' = IF release[n] = Missing THEN born + 1 ELSE born
    /\ OpenRequest(h, [op |-> "upload", version |-> n, creates |-> release[n] = Missing,
                 born |-> IF release[n] = Missing THEN born + 1 ELSE release[n].born,
                 file |-> FileRow(n, f, bytes, signature), older |-> Older(n, f),
                 new |-> release[n] = Missing \/ \A x \in release[n].files : x.name # f])

\* next_version hands out an open draft, which changes nothing, or creates the next number.
Next_version(h) ==
    LET last == Latest({"DRAFT", "PUBLISHED", "WITHDRAWN"})
        n    == IF last = 0 THEN First ELSE last + 1
    IN  /\ Known({"DRAFT"}) = {} /\ n \in Numbers /\ born < MaxBorn
        /\ \A k \in Open : ~ (job[k].creates /\ job[k].version = n)
        /\ born' = born + 1 /\ UNCHANGED disk
        /\ OpenRequest(h, [op |-> "next", version |-> n, creates |-> TRUE, born |-> born + 1])

\* admin.patch_release with set_status
SetStatus(h, n, status) ==
    /\ release[n] # Missing
    /\ status = "PUBLISHED" => \E x \in release[n].files : Downloadable(x, release[n].files)
    /\ OpenRequest(h, [op |-> "status", version |-> n, creates |-> FALSE, born |-> release[n].born, status |-> status])
    /\ UNCHANGED <<disk, born>>

\* admin.delete_release: the directory goes at once, the rows when the request commits.
DeleteRelease(h, n) ==
    /\ release[n] # Missing /\ release[n].status = "DRAFT"
    /\ disk' = [disk EXCEPT ![n] = [f \in Artifacts |-> Missing]]
    /\ OpenRequest(h, [op |-> "delete", version |-> n, creates |-> FALSE, born |-> release[n].born,
                 loaded |-> {x.name : x \in release[n].files}])
    /\ UNCHANGED born

-----------------------------------------------------------------------------
(* Commits *)

SameRow(j) == release[j.version] # Missing /\ release[j.version].born = j.born

\* The database refuses rows of a release that is gone, a second row of one name, a change
\* of a row that is gone, and the deletion of a release with files that were not loaded.
Commits(j) ==
    CASE j.creates -> release[j.version] = Missing
      [] j.op = "upload" /\ ~ j.creates -> SameRow(j) /\ (j.new <=> \A x \in release[j.version].files : x.name # j.file.name)
      [] j.op = "status" -> SameRow(j)
      [] j.op = "delete" -> SameRow(j) => \A x \in release[j.version].files : x.name \in j.loaded

Written(j) ==
    CASE j.creates -> [status |-> "DRAFT", born |-> j.born, files |-> IF j.op = "upload" THEN {j.file} ELSE {}]
      [] j.op = "upload" /\ ~ j.creates ->
            [release[j.version] EXCEPT !.files = {x \in @ : x.name \notin j.older \cup {j.file.name}} \cup {j.file}]
      [] j.op = "status" -> [release[j.version] EXCEPT !.status = j.status]
      [] j.op = "delete" -> IF SameRow(j) THEN Missing ELSE release[j.version]

CommitRelease(h) ==
    /\ job[h] # Free /\ Commits(job[h])
    /\ release' = [release EXCEPT ![job[h].version] = Written(job[h])]
    /\ job' = [job EXCEPT ![h] = Free]
    /\ UNCHANGED <<disk, born, frayed>>

\* A refused commit, or a process that stops before it: what was done to the disk stays done.
RollBackRelease(h) ==
    /\ job[h] # Free
    /\ job' = [job EXCEPT ![h] = Free]
    /\ frayed' = IF job[h].op \in {"upload", "delete"} THEN frayed \cup {job[h].version} ELSE frayed
    /\ UNCHANGED <<release, disk, born>>

ReleaseStep ==
    \E h \in Handlers :
        \/ \E n \in Numbers, b \in Builds, signed \in BOOLEAN :
              Upload(h, n, b.name, b.bytes, IF signed THEN b.bytes ELSE Missing)
        \/ \E n \in Numbers : \/ \E status \in {"DRAFT", "PUBLISHED", "WITHDRAWN"} : SetStatus(h, n, status)
                              \/ DeleteRelease(h, n)
        \/ Next_version(h) \/ CommitRelease(h) \/ RollBackRelease(h)

ReleasesSpec == ReleasesInit /\ [][ReleaseStep]_releaseVars

-----------------------------------------------------------------------------
(* Properties *)

\* Nothing is being done to the version, and nothing went wrong with it.
Settled(n) == n \notin frayed /\ \A h \in Open : job[h].version # n

\* The disk holds the files of the rows, byte for byte, and no other.
DiskFollowsRows(n) ==
    disk[n] = [f \in Artifacts |->
        IF release[n] # Missing /\ \E x \in release[n].files : x.name = f
        THEN (CHOOSE x \in release[n].files : x.name = f).digest ELSE Missing]

OnePerSlot(n) == \A x, y \in release[n].files : SameSlot(x.name, y.name) => x = y

\* Once a version is at rest: its directory and its rows agree, whatever was uploaded
\* again, replaced or deleted; it lists one artifact of each platform, kind and extension;
\* if it is published there is something to download, and what the updater is offered
\* verifies against the signature sent with it and is newer than what asks; and numbers
\* were handed out in their order (releases.store_file, set_status, updater_manifest,
\* get_or_create, next_version; admin.delete_release).
ReleasesSound ==
    /\ \A n \in Numbers : Settled(n) =>
        /\ DiskFollowsRows(n)
        /\ release[n] # Missing =>
            /\ OnePerSlot(n)
            /\ release[n].status = "PUBLISHED" => \E x \in release[n].files : Downloadable(x, release[n].files)
            /\ \A m \in Numbers \ frayed : release[m] # Missing /\ m < n => release[m].born < release[n].born
    /\ \A f \in Artifacts, current \in Numbers \cup {0} : \A x \in Manifest(Classified[f].platform, current) :
        LET n == Latest({"PUBLISHED"})
        IN  n > current /\ (Settled(n) => disk[n][x.name] = x.signature)

=============================================================================
