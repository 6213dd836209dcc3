------------------------------ MODULE MCSurfaces ------------------------------
\* Instance for TLC of what a user reads and keeps: the search index, the live events, a
\* portfolio and the desktop releases.  They share no state; a behaviour tells one story of
\* one of them.
EXTENDS SearchIndex, LiveEvents, Portfolios, Releases, TLC

CONSTANTS disclosure1, correction1, filing1, filing2, headline1, note1, runner1, runner2, share1, client1, client2, handler1, handler2, Stories

VARIABLE story

MCKind == [x \in Docs |->
    CASE x \in {disclosure1, correction1} -> "disclosure" [] x \in {filing1, filing2} -> "filing"
      [] x = headline1 -> "news" [] OTHER -> "note"]
MCCorrects == [x \in Docs |-> IF x = correction1 THEN disclosure1 ELSE x]
MCFiledOn == [x \in Docs |-> IF x = filing2 THEN 1 ELSE 0]

\* Headlines the tab listens to, and another user's notifications.
MCSorts == {[kind |-> "news", ours |-> TRUE], [kind |-> "notification", ours |-> FALSE]}

MCOrders ==
    {[side |-> "BUY", qty |-> 2, price |-> 1], [side |-> "BUY", qty |-> 1, price |-> 3], [side |-> "SELL", qty |-> 2, price |-> 1]}

\* Runs and requests of either kind run the same code, and no property names one.
ProcessSymmetry == Permutations(Runners) \cup Permutations(Clients) \cup Permutations(Handlers)

\* The documents of a story of the index, and how many runs may overlap in it.  Runs of
\* every kind overlap while a headline is new; ordinary runs and runs that retag overlap
\* until it is no longer waited for.
Documents ==
    CASE story = "corrections" -> {disclosure1, correction1} [] story = "filings" -> {filing1, filing2}
      [] story \in {"headlines", "pending"} -> {headline1} [] OTHER -> {note1}
Overlapping == IF story \in {"headlines", "pending"} THEN 2 ELSE 1

\* How many requests are open over a portfolio: one when it holds every transaction.
Together == IF Cardinality(recorded) = MaxRecorded THEN 1 ELSE 2

\* A full rebuild of an index that has been built before.
Rebuilding(x) == run'[x].on /\ run'[x].cut = -1 /\ watermark # NoMark

\* Two builds of a Windows updater, one more under another name, and an installer.
MCClassified ==
    [f \in Artifacts |-> [platform |-> "windows", kind |-> IF f = "x64.msi" THEN "INSTALLER" ELSE "UPDATE",
                         ext |-> IF f = "x64.msi" THEN ".msi" ELSE "-setup.exe"]]

MCBuilds == {[name |-> f, bytes |-> 1] : f \in Artifacts} \cup {[name |-> "x64-setup.exe", bytes |-> 2]}

\* Build machines sign updaters only.
Unsigned ==
    \A h \in Handlers : job'[h] # Free /\ job'[h].op = "upload" /\ job'[h].file.signature # Missing
        => Classified[job'[h].file.name].kind = "UPDATE"

MCInit == IndexInit /\ LiveInit /\ BooksInit /\ ReleasesInit /\ story \in Stories

MCNext ==
    /\ story' = story
    /\ \/ /\ story \notin {"events", "books", "releases"}
          /\ IndexNext
          /\ \A x \in Docs \ Documents : doc'[x].state = "absent"
          /\ \A o \in open' : o.doc \in Documents
          /\ Cardinality({x \in Runners : run'[x].on}) <= Overlapping
          /\ story = "headlines" => clock' <= 1
          /\ story = "pending" => ~ \E x \in Runners : Rebuilding(x) \/ run'[x].drops # {}
          /\ UNCHANGED <<liveVars, bookVars, releaseVars>>
       \/ story = "events" /\ LiveNext /\ UNCHANGED <<indexVars, bookVars, releaseVars>>
       \/ /\ story = "books"
          /\ BooksNext
          /\ Cardinality({k \in Clients : asked'[k] # NoRequest}) <= Together
          /\ UNCHANGED <<indexVars, liveVars, releaseVars>>
       \/ story = "releases" /\ ReleaseStep /\ Unsigned /\ UNCHANGED <<indexVars, liveVars, bookVars>>

MCSpec == MCInit /\ [][MCNext]_<<indexVars, liveVars, bookVars, releaseVars, story>>

=============================================================================
