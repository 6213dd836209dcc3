---------------------------- MODULE MCSignalAlerts ----------------------------
\* Instance for TLC of what a user is told: the alerts, the morning brief and its narration.
\* They share no state; a behaviour tells one story of one of them.
EXTENDS SignalAlerts, Briefs, Speech, TLC

CONSTANTS early, late, ayse, bob, briefJob1, briefJob2, listener1, listener2, warmer1, Stories

VARIABLE story

\* The day's markets in the order of the job.
MCMarkets == <<"TR", "US">>

\* ayse reads Turkish and takes both briefs as a push; bob reads English and takes one by e-mail.
MCBriefLang == ayse :> "tr" @@ bob :> "en"
MCReceives == ayse :> {"TR", "US"} @@ bob :> {"TR"}
MCKinds == ayse :> {"push"} @@ bob :> {"email"}

\* Every number to 120, and thousands with every kind of remainder.
MCNumbers == (0 .. 120) \union {1000 * t + d : t \in {1, 2, 10, 100, 119, 1000, 1001, 2000}, d \in {0, 1, 10, 101, 219}}

\* Runs and requests of a kind run the same code, and no property names one.
ProcessSymmetry == Permutations(BriefJobs) \union Permutations(Listeners)

MCInit ==
    /\ Init /\ BriefsInit /\ SpeechInit
    /\ story \in Stories
    /\ story # "numbers" => number = 0

MCNext ==
    /\ story' = story
    /\ \/ story = "alerts" /\ Next /\ UNCHANGED <<briefVars, speechVars>>
       \/ story = "briefs" /\ BriefsNext /\ UNCHANGED <<vars, speechVars>>
       \/ story = "speech" /\ SpeechNext /\ UNCHANGED <<vars, briefVars>>

MCSpec == MCInit /\ [][MCNext]_<<vars, briefVars, speechVars, story>>

=============================================================================
