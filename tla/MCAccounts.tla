----------------------------- MODULE MCAccounts -----------------------------
\* Instance of Organisations, and in it of Accounts, for TLC.  A behaviour tells one of
\* six stories, which restrict what its actors do: full compositions are beyond TLC at
\* these bounds.
EXTENDS Organisations, TLC

CONSTANTS ali, bora, cem, v, w, Stories

VARIABLE story

MCLinks == ali :> 2 @@ bora :> 1 @@ cem :> 0
MCSeats == "FREE" :> 0 @@ "PRO_PLUS" :> 2

\* Workers, whatever they serve, run the same code, and no property names one of them.
WorkerSymmetry == Permutations(Workers)

\* cem made bora an administrator; those in `signed` have a session, and ali and bora have
\* followed their verification links.
Settled(signed) ==
    /\ account = [u \in Users |-> [NewAccount EXCEPT !.verified = u # cem, !.role = IF u = ali THEN "USER" ELSE "ADMIN",
                                              !.version = IF u = bora THEN 2 ELSE 1]]
    /\ epoch = [u \in Users |-> IF u = bora THEN 1 ELSE 0]
    /\ tokens = {Session(u, account[u], epoch[u]) : u \in signed}
    /\ links = {} /\ crossed = {}
    /\ hits = [k \in Keys |-> 0] /\ tries = [k \in Keys |-> 0]
    /\ request = [x \in Workers |-> Idle] /\ attempt = [x \in Workers |-> Idle]
    /\ crowd = [k \in Keys \cup (Kinds \X Users) |-> 1]

MCInit ==
    /\ OrgInit
    /\ story \in Stories
    /\ CASE story = "admins" -> Settled({bora, cem})
         [] story = "recovery" -> Settled({ali, cem})
         [] story \in {"seats", "joins"} -> Settled({ali, bora})
         [] OTHER -> Init

Alone == account'[bora] = Absent /\ \A t \in tokens' : t.user = ali

Served(u) ==
    \A x \in Workers : (request'[x] # Idle => request'[x].user = u) /\ (attempt'[x] # Idle => attempt'[x].user = u)

\* Nobody mistypes, and sign-ins, which then have nothing in common, do not overlap.
Exact ==
    /\ \A x \in Workers : attempt'[x] # Idle => attempt'[x].stage # "wrong"
    /\ Cardinality({x \in Workers : attempt'[x] # Idle}) <= 1

\* The factor is set up or taken off by one request at a time.
OneEnrols == Cardinality({x \in Workers : request'[x] # Idle}) <= 1

\* A new row takes the least id that is free: which ids there are does not matter, only
\* which come back.
Compact == \A r \in rows', id \in FreeIds : (r.id \in FreeIds /\ r.id # id) => r.id < id

MCNext ==
    /\ story' = story
    /\ \/ /\ UNCHANGED teamVars
          /\ \/ story = "sessions" /\ (WorkerStep \/ SignInStep \/ SessionStep \/ LinkStep) /\ Alone
             \/ story = "factor" /\ (WorkerStep \/ SignInStep \/ FactorStep) /\ Alone /\ OneEnrols
             \/ story = "recovery" /\ (WorkerStep \/ SignInStep \/ SessionStep \/ OperatorStep) /\ Served(ali)
             \/ story = "admins" /\ (WorkerStep \/ OperatorStep)
          /\ story # "factor" => Exact
       \/ /\ story \in {"seats", "joins"} /\ OrgStep /\ Compact /\ (\A l \in links' : l.user # bora)
          /\ story = "seats" => bora \notin teams'
          /\ story = "joins" => /\ plan' \in {plan, [plan EXCEPT ![ali] = "PRO_PLUS"]}
                                /\ Cardinality(links') <= 1
                                /\ \A x \in Workers : call'[x] # Idle => call'[x].user # cem

MCSpec == MCInit /\ [][MCNext]_<<accountVars, teamVars, story>>

=============================================================================
