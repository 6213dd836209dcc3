-------------------------------- MODULE Briefs --------------------------------
(***************************************************************************)
(* The morning brief of one day (scheduler.briefs, ai/assess.py and        *)
(* notify.deliver_brief).  A job is one transaction: market by market it   *)
(* writes the note in both languages and hands it to the users, and what   *)
(* it has sent stays sent when the transaction is lost.  A reader's GET    *)
(* /brief may write a note of the same day at the same time.  The database *)
(* is PostgreSQL: a row another transaction has written but not committed  *)
(* makes the next writer wait.                                             *)
(***************************************************************************)
EXTENDS Integers, FiniteSets, Sequences

CONSTANTS Markets,    \* the markets, in the order a job takes them
          Users,      \* active users with notify_brief
          BriefLang,  \* their language, "tr" or "en"
          Receives,   \* per user: the markets of brief_markets
          Kinds,      \* per user: which of "push", "telegram", "email" are set up
          BriefJobs,  \* runs of the 08:30 job
          Readers,    \* requests for a note
          NoKey,      \* not a note
          MaxBreaks   \* bound: runs that fail for another reason, e.g. a restart

ASSUME BriefsAssumption ==
    /\ Markets \in Seq(STRING)
    /\ BriefLang \in [Users -> {"tr", "en"}]
    /\ Kinds \in [Users -> SUBSET {"push", "telegram", "email"}]
    /\ MaxBreaks \in Nat

VARIABLES
    saved,     \* ai_notes: the committed notes of the day
    recorded,  \* brief_deliveries: the committed rows
    brief,     \* the runs of the job
    reader,    \* the requests
    sent,      \* history: messages per user, market, language and kind of channel
    lost       \* history: runs whose transaction was lost

briefVars == <<saved, recorded, brief, reader, sent, lost>>

Languages == {"tr", "en"}
MarketSet == {Markets[m] : m \in DOMAIN Markets}
NoteKey == [market : MarketSet, lang : Languages]
AllKinds == {"push", "telegram", "email"}

NotBegun == [at |-> 1, step |-> "idle", notes |-> {}, looked |-> FALSE, holds |-> {}, left |-> {}, added |-> {}]
Over == [NotBegun EXCEPT !.step = "over"]

BriefsInit ==
    /\ saved = {}
    /\ recorded = {}
    /\ brief = [j \in BriefJobs |-> NotBegun]
    /\ reader = [r \in Readers |-> [step |-> "idle", key |-> NoKey]]
    /\ sent = [t \in Users \X MarketSet \X Languages \X AllKinds |-> 0]
    /\ lost = 0

-------------------------------------------------------------------------------
\* Notes.  `notes` are the languages deliver_brief has a note in for the market at hand, and
\* `looked` says that it has asked for the English one; `holds` are the rows the run's
\* transaction has written since it began.

Held == UNION {brief[j].holds : j \in BriefJobs} \union {reader[r].key : r \in {x \in Readers : reader[x].step = "holding"}}

\* _cached reads what is committed and what the session itself has written.
CachedFor(j) == saved \union brief[j].holds

Key(j, l) == [market |-> Markets[brief[j].at], lang |-> l]

LoseJob(j) ==
    /\ brief' = [brief EXCEPT ![j] = Over]
    /\ lost' = lost + 1
    /\ UNCHANGED <<saved, recorded, reader>>

StartJob(j) ==
    /\ brief[j].step = "idle"
    /\ brief' = [brief EXCEPT ![j].step = "tr"]
    /\ UNCHANGED <<saved, recorded, reader, sent, lost>>

\* The market is done with: the next one, or the commit.
NextMarket(b) ==
    LET done == [b EXCEPT !.notes = {}, !.looked = FALSE, !.left = {}]
    IN  IF b.at = Len(Markets) THEN [done EXCEPT !.step = "commit"]
                               ELSE [done EXCEPT !.step = "tr", !.at = b.at + 1]

\* After the Turkish note comes the English one, and after that the users of the market:
\* all of them when there is a Turkish note, none when there is not.
AfterNote(b) ==
    CASE b.step \in {"tr", "tr insert"} -> [b EXCEPT !.step = "en"]
      [] b.step \in {"en", "en insert"} /\ "tr" \in b.notes ->
           [b EXCEPT !.step = "deliver", !.left = {u \in Users : Markets[b.at] \in Receives[u]}]
      [] b.step = "look insert" -> [b EXCEPT !.step = "deliver", !.looked = TRUE]
      [] OTHER -> NextMarket(b)

\* The run has written the note: deliver_brief is handed the Turkish one, and looks for the
\* English one itself.
Wrote(b, l) ==
    [b EXCEPT !.holds = @ \union {[market |-> Markets[b.at], lang |-> l]},
              !.notes = IF b.step \in {"en", "en insert"} THEN @ ELSE @ \union {l}]

InsertStep(l) == IF l = "tr" THEN "tr insert" ELSE "en insert"

\* daily_brief(force=True): the model answers, and the row of the day is updated or
\* inserted; the writer waits while another transaction holds the row.
WriteNote(j, l) ==
    /\ brief[j].step = l
    /\ IF Key(j, l) \in CachedFor(j)
       THEN /\ Key(j, l) \notin Held \ brief[j].holds
            /\ brief' = [brief EXCEPT ![j] = AfterNote(Wrote(@, l))]
       ELSE brief' = [brief EXCEPT ![j].step = InsertStep(l)]
    /\ UNCHANGED <<saved, recorded, reader, sent, lost>>

\* The insert of a note _cached did not see waits for a transaction that inserts the
\* same.  One that has been committed since breaks the unique key: the session is of no
\* use any more, the other markets and the commit fail too, and the run is lost.
InsertNote(j, l) ==
    /\ \/ brief[j].step = InsertStep(l)
       \/ l = "en" /\ brief[j].step = "look insert"
    /\ Key(j, l) \notin Held
    /\ IF Key(j, l) \in saved
       THEN LoseJob(j) /\ UNCHANGED sent
       ELSE /\ brief' = [brief EXCEPT ![j] = AfterNote(Wrote(@, l))]
            /\ UNCHANGED <<saved, recorded, reader, sent, lost>>

\* The model refuses: no note in this language.  Or it is unavailable: the market is skipped.
NoNote(j, l) ==
    /\ brief[j].step = l
    /\ brief' = [brief EXCEPT ![j] = AfterNote(@)]
    /\ UNCHANGED <<saved, recorded, reader, sent, lost>>

Unavailable(j) ==
    /\ brief[j].step \in Languages
    /\ brief' = [brief EXCEPT ![j] = NextMarket(@)]
    /\ UNCHANGED <<saved, recorded, reader, sent, lost>>

-------------------------------------------------------------------------------
\* deliver_brief, user by user.

\* The first English user has the English note looked up, or written when it is not there.
LookUp(j) ==
    /\ brief[j].step = "deliver" /\ ~brief[j].looked
    /\ \E u \in brief[j].left : BriefLang[u] = "en"
    /\ \/ /\ Key(j, "en") \in CachedFor(j)
          /\ brief' = [brief EXCEPT ![j].looked = TRUE, ![j].notes = @ \union {"en"}]
       \/ /\ Key(j, "en") \notin CachedFor(j)
          /\ \/ brief' = [brief EXCEPT ![j].looked = TRUE]
             \/ brief' = [brief EXCEPT ![j].step = "look insert"]
    /\ UNCHANGED <<saved, recorded, reader, sent, lost>>

\* The language the user is served: their own when there is a note in it, else the Turkish note's.
ServedLang(j, u) == IF BriefLang[u] \in brief[j].notes THEN BriefLang[u] ELSE "tr"

Row(u, m, l, c) == [user |-> u, market |-> m, lang |-> l, channel |-> c]

\* _delivered: the rows of this user, market, day and language.
Delivered(j, u, l) ==
    {c \in {"ONESIGNAL", "PUSH", "telegram", "email"} :
        Row(u, Markets[brief[j].at], l, c) \in recorded \union brief[j].added}

\* Mutant: a push that was recorded does not count.
ToTrySamePath(j, u, l) ==
    LET done == Delivered(j, u, l)
    IN  {k \in Kinds[u] : k = "push" \/ k \notin done}

\* The kinds of channel still to try.
ToTry(j, u, l) ==
    LET done == Delivered(j, u, l)
    IN  {k \in Kinds[u] : IF k = "push" THEN done \intersect {"PUSH", "ONESIGNAL"} = {} ELSE k \notin done}

\* push_user: OneSignal when it reaches the user, else the user's devices; the others as they are.
ChannelsFor(k) == IF k = "push" THEN {"ONESIGNAL", "PUSH"} ELSE {k}

DeliverTo(j, u) ==
    /\ brief[j].step = "deliver"
    /\ u \in brief[j].left
    /\ BriefLang[u] = "en" => brief[j].looked
    /\ LET m == Markets[brief[j].at]
           l == ServedLang(j, u)
       IN  \E accepted \in SUBSET ToTry(j, u, l) :
           \E got \in [accepted -> UNION {ChannelsFor(k) : k \in accepted}] :
             /\ \A k \in accepted : got[k] \in ChannelsFor(k)
             /\ sent' = [t \in DOMAIN sent |->
                           IF \E k \in accepted : t = <<u, m, l, k>> THEN sent[t] + 1 ELSE sent[t]]
             /\ brief' = [brief EXCEPT ![j].left = @ \ {u},
                                       ![j].added = @ \union {Row(u, m, l, got[k]) : k \in accepted}]
    /\ UNCHANGED <<saved, recorded, reader, lost>>

DeliveredAll(j) ==
    /\ brief[j].step = "deliver"
    /\ brief[j].left = {}
    /\ brief' = [brief EXCEPT ![j] = NextMarket(@)]
    /\ UNCHANGED <<saved, recorded, reader, sent, lost>>

CommitJob(j) ==
    /\ brief[j].step = "commit"
    /\ saved' = saved \union brief[j].holds
    /\ recorded' = recorded \union brief[j].added
    /\ brief' = [brief EXCEPT ![j] = Over]
    /\ UNCHANGED <<reader, sent, lost>>

\* The process is restarted, or the commit fails.
BreakJob(j) ==
    /\ brief[j].step \notin {"idle", "over"}
    /\ lost < MaxBreaks
    /\ LoseJob(j)
    /\ UNCHANGED sent

-------------------------------------------------------------------------------
\* GET /brief: a note that is not there is written by the request that asked for it.

Asks(r, k) ==
    /\ reader[r].step = "idle"
    /\ k \notin saved
    /\ reader' = [reader EXCEPT ![r] = [step |-> "calling", key |-> k]]
    /\ UNCHANGED <<saved, recorded, brief, sent, lost>>

\* The model has answered; _write looks again before it inserts.
Answered(r) ==
    /\ reader[r].step = "calling"
    /\ \/ /\ reader[r].key \in saved
          /\ reader[r].key \notin Held
          /\ reader' = [reader EXCEPT ![r].step = "holding"]
       \/ /\ reader[r].key \notin saved
          /\ reader' = [reader EXCEPT ![r].step = "inserting"]
    /\ UNCHANGED <<saved, recorded, brief, sent, lost>>

\* The insert waits like the job's; the loser answers an error.
Inserts(r) ==
    /\ reader[r].step = "inserting"
    /\ reader[r].key \notin Held
    /\ reader' = [reader EXCEPT ![r] = IF @.key \in saved THEN [step |-> "over", key |-> NoKey]
                                                         ELSE [@ EXCEPT !.step = "holding"]]
    /\ UNCHANGED <<saved, recorded, brief, sent, lost>>

Answers(r) ==
    /\ reader[r].step = "holding"
    /\ saved' = saved \union {reader[r].key}
    /\ reader' = [reader EXCEPT ![r] = [step |-> "over", key |-> NoKey]]
    /\ UNCHANGED <<recorded, brief, sent, lost>>

BriefsNext ==
    \/ \E j \in BriefJobs :
          \/ StartJob(j) \/ Unavailable(j) \/ LookUp(j) \/ DeliveredAll(j) \/ CommitJob(j) \/ BreakJob(j)
          \/ \E l \in Languages : WriteNote(j, l) \/ InsertNote(j, l) \/ NoNote(j, l)
          \/ \E u \in Users : DeliverTo(j, u)
    \/ \E r \in Readers :
          \/ Answered(r) \/ Inserts(r) \/ Answers(r)
          \/ \E k \in NoteKey : Asks(r, k)

BriefsSpec == BriefsInit /\ [][BriefsNext]_briefVars

-------------------------------------------------------------------------------
\* A user gets one market's brief in one language once per kind of channel, and once more
\* at most for every run that was lost after it had sent: runs one after the other, runs
\* that overlap and readers who ask for the same note included (brief_deliveries "makes a
\* re-run send nothing twice", scheduler.py).
BriefOnce == \A t \in DOMAIN sent : sent[t] <= 1 + lost

=============================================================================
