--------------------------- MODULE Organisations ---------------------------
(***************************************************************************)
(* Teams that share their owner's plan (services/org.py,                   *)
(* api/routes/org.py, the seat and membership parts of services/plans.py), *)
(* composed with the accounts that join them.                              *)
(*                                                                         *)
(* An organisation is named by its owner, of whom it is the only one.  As  *)
(* in Accounts, a request reads and answers in one step and commits in a   *)
(* later one; the unique and the foreign keys are checked when it commits. *)
(* The ids of deleted rows come back, as they do in SQLite.                *)
(***************************************************************************)
EXTENDS Accounts

CONSTANTS
    Plans,     \* plan names
    SeatsOf,   \* plans.FEATURES["org_seats"]
    Founders,  \* bound: the users who open teams
    Payers,    \* bound: the users whose plan moves
    RowIds,    \* bound: ids of org_members
    Nobody,    \* no user_id yet
    Enforced   \* settings.plans_enforced

\* The columns of org_members that the code below reads or writes.
SeatRows ==
    [id : RowIds, org : Users, user : Users \cup {Nobody}, email : Users, role : {"OWNER", "MEMBER"}, accepted : BOOLEAN]

\* What a request has read and will write.
Calls ==
    [op : {"create", "invite", "accept", "remove", "delete"}, org : Users, user : Users, held : SUBSET RowIds,
     seats : Nat, link : Nat]

ASSUME OrganisationsAssumption ==
    /\ "FREE" \in Plans /\ SeatsOf \in [Plans -> Nat] /\ Nobody \notin Users
    /\ RowIds \subseteq Nat \ {0} /\ Founders \cup Payers \subseteq Users /\ Enforced \in BOOLEAN

VARIABLES
    plan,    \* users.plan while in force (own_plan)
    teams,   \* organizations: the owners that have one
    rows,    \* org_members
    call,    \* the organisation request of each worker, or Idle
    most,    \* history: the most seats each team was granted since it was opened
    squeeze, \* history: the most requests for a seat of each team at once; at least 1
    joins    \* history: the most requests of each account to sit in a team at once; at least 1

teamVars == <<plan, teams, rows, call, most, squeeze, joins>>

OrgInit ==
    /\ plan = [u \in Users |-> "FREE"]
    /\ teams = {} /\ rows = {}
    /\ call = [w \in Workers |-> Idle]
    /\ most = [u \in Users |-> 0]
    /\ squeeze = [u \in Users |-> 1] /\ joins = [u \in Users |-> 1]

-----------------------------------------------------------------------------
(* Reads *)

RowsOf(o) == {r \in rows : r.org = o}

\* plans.memberships
Memberships(u) == {o \in teams : \E r \in RowsOf(o) : r.user = u /\ r.accepted}

\* plans.org_plan, as the number of seats: a deactivated owner's team is on FREE.
Seats(o) == IF account[o].active THEN SeatsOf[plan[o]] ELSE SeatsOf["FREE"]

SeatsUsed(o) == Cardinality(RowsOf(o))

EnforcedFor(u) == Enforced /\ account[u].role # "ADMIN"

LinkedRows(u, l) == {r \in RowsOf(l.user) : l.user \in teams /\ r.id = l.subject /\ ~ r.accepted}

\* org.accept: the row that the link names, if it is this account's invitation.
InvitedRows(u, l) ==
    {r \in RowsOf(l.user) : l.user \in teams /\ r.id = l.subject /\ r.email = u /\ ~ r.accepted}

-----------------------------------------------------------------------------
(* Requests *)

\* The seats an owner may fill: those of the plan, or as many as he asks for.
Granted(u, seats, asked) == IF EnforcedFor(u) THEN seats ELSE asked

\* What a request of this kind adds if it commits: a row of its team, a seat of its account.
AddsRow(op, held) == op = "create" \/ (op = "invite" /\ held = {})

AddsSeat(op) == op \in {"create", "accept"}

Taking(o) == {w \in Workers : call[w] # Idle /\ call[w].org = o /\ AddsRow(call[w].op, call[w].held)}

Joining(u) == {w \in Workers : call[w] # Idle /\ call[w].user = u /\ AddsSeat(call[w].op)}

Larger(m, n) == IF n > m THEN n ELSE m

BeginCall(w, op, org, user, held, seats, link) ==
    /\ call[w] = Idle /\ Unoccupied(w)
    /\ call' = [call EXCEPT ![w] = [op |-> op, org |-> org, user |-> user, held |-> held, seats |-> seats, link |-> link]]
    /\ most' = [most EXCEPT ![org] = IF op = "invite" /\ held = {} THEN Larger(@, seats) ELSE @]
    /\ squeeze' = [squeeze EXCEPT ![org] = IF AddsRow(op, held) THEN Larger(@, Cardinality(Taking(org)) + 1) ELSE @]
    /\ joins' = [joins EXCEPT ![user] = IF AddsSeat(op) THEN Larger(@, Cardinality(Joining(user)) + 1) ELSE @]
    /\ UNCHANGED <<plan, teams, rows>> /\ UNCHANGED accountVars

Create(w, u) ==
    /\ u \in Founders /\ SignedIn(u) /\ Memberships(u) = {}
    /\ EnforcedFor(u) => SeatsOf[plan[u]] > 0
    /\ BeginCall(w, "create", u, u, {}, Granted(u, SeatsOf[plan[u]], 1), 0)

Invite(w, u, email) ==
    /\ SignedIn(u) /\ u \in teams \cap Memberships(u) /\ Mailing(u)
    /\ ~ \E r \in RowsOf(u) : r.email = email /\ r.accepted
    /\ (EnforcedFor(u) /\ ~ \E r \in RowsOf(u) : r.email = email) => SeatsUsed(u) < Seats(u)
    /\ BeginCall(w, "invite", u, email, {r.id : r \in {x \in RowsOf(u) : x.email = email}},
                 Granted(u, Seats(u), SeatsUsed(u) + 1), 0)

Accept(w, u, l) ==
    /\ SignedIn(u) /\ l \in LiveLinks("ORG_INVITE")
    /\ account[u].verified \/ ~ Smtp
    /\ Memberships(u) = {}
    /\ \E r \in InvitedRows(u, l) : BeginCall(w, "accept", l.user, u, {r.id}, 0, l.id)

Remove(w, actor, r) ==
    /\ SignedIn(actor) /\ r.org \in Memberships(actor)
    /\ r.role # "OWNER"
    /\ r.org = actor \/ r.user = actor
    /\ BeginCall(w, "remove", r.org, r.email, {r.id}, 0, 0)

Delete(w, u) ==
    /\ SignedIn(u) /\ u \in Memberships(u)
    /\ BeginCall(w, "delete", u, u, {r.id : r \in RowsOf(u)}, 0, 0)

-----------------------------------------------------------------------------
(* Commits *)

Settle(w) ==
    /\ call' = [call EXCEPT ![w] = Idle]
    /\ UNCHANGED <<account, tokens, hits, request, attempt, epoch, tries, crowd, crossed, plan, squeeze, joins>>

\* Ids of deleted rows come back once no request holds them.
FreeIds == RowIds \ ({r.id : r \in rows} \cup UNION {call[w].held : w \in {x \in Workers : call[x] # Idle}})

InviteLink(u, id) == links \cup {Minted("ORG_INVITE", u, id)}

CommitCreate(w) ==
    /\ call[w] # Idle /\ call[w].op = "create" /\ call[w].org \notin teams
    /\ \E id \in FreeIds :
          rows' = rows \cup {[id |-> id, org |-> call[w].org, user |-> call[w].user, email |-> call[w].user,
                              role |-> "OWNER", accepted |-> TRUE]}
    /\ teams' = teams \cup {call[w].org}
    /\ most' = [most EXCEPT ![call[w].org] = call[w].seats]
    /\ Settle(w) /\ UNCHANGED links

CommitInvite(w) ==
    /\ call[w] # Idle /\ call[w].op = "invite"
    /\ IF call[w].held = {}
       THEN /\ call[w].org \in teams
            /\ ~ \E r \in RowsOf(call[w].org) : r.email = call[w].user
            /\ \E id \in FreeIds :
                  /\ rows' = rows \cup {[id |-> id, org |-> call[w].org, user |-> Nobody, email |-> call[w].user,
                                         role |-> "MEMBER", accepted |-> FALSE]}
                  /\ links' = InviteLink(call[w].org, id)
       ELSE /\ links' = InviteLink(call[w].org, CHOOSE id \in call[w].held : TRUE)
            /\ UNCHANGED rows
    /\ Settle(w) /\ UNCHANGED <<teams, most>>

CommitAccept(w) ==
    /\ call[w] # Idle /\ call[w].op = "accept" /\ \E r \in rows : r.id \in call[w].held
    /\ rows' = {IF r.id \in call[w].held THEN [r EXCEPT !.user = call[w].user, !.accepted = TRUE] ELSE r : r \in rows}
    /\ links' = {IF l.id = call[w].link THEN [l EXCEPT !.used = TRUE] ELSE l : l \in links}
    /\ Settle(w) /\ UNCHANGED <<teams, most>>

CommitRemove(w) ==
    /\ call[w] # Idle /\ call[w].op = "remove"
    /\ rows' = {r \in rows : r.id \notin call[w].held}
    /\ Settle(w) /\ UNCHANGED <<teams, links, most>>

CommitDelete(w) ==
    /\ call[w] # Idle /\ call[w].op = "delete"
    /\ {r.id : r \in RowsOf(call[w].org)} \subseteq call[w].held
    /\ rows' = {r \in rows : r.id \notin call[w].held}
    /\ teams' = teams \ {call[w].org}
    /\ Settle(w) /\ UNCHANGED <<links, most>>

CommitCall(w) ==
    CommitCreate(w) \/ CommitInvite(w) \/ CommitAccept(w) \/ CommitRemove(w) \/ CommitDelete(w)

\* A key that no longer holds, or a process that dies, rolls the request back.
LoseCall(w) ==
    /\ call[w] # Idle
    /\ call' = [call EXCEPT ![w] = Idle]
    /\ UNCHANGED <<plan, teams, rows, most, squeeze, joins>> /\ UNCHANGED accountVars

\* Billing, an administrator or the date moves the owner's own plan.
PlanMoves(u, p) ==
    /\ u \in Payers /\ p # plan[u]
    /\ plan' = [plan EXCEPT ![u] = p]
    /\ UNCHANGED <<teams, rows, call, most, squeeze, joins>> /\ UNCHANGED accountVars

OrgStep ==
    \/ \E w \in Workers : CommitCall(w) \/ LoseCall(w)
    \/ \E w \in Workers, u \in Users : Create(w, u) \/ Delete(w, u)
    \/ \E w \in Workers, u, email \in Users : Invite(w, u, email)
    \/ \E w \in Workers, u \in Users, l \in links : Accept(w, u, l)
    \/ \E w \in Workers, u \in Users, r \in rows : Remove(w, u, r)
    \/ \E u \in Users, p \in Plans : PlanMoves(u, p)

TeamNext == OrgStep \/ (Next /\ UNCHANGED teamVars)

TeamSpec == Init /\ OrgInit /\ [][TeamNext]_<<accountVars, teamVars>>

-----------------------------------------------------------------------------
(* Properties *)

\* A team has one OWNER row, its owner's; every accepted seat belongs to the account
\* of the invited address; and an account sits in no more teams than it had requests to
\* open or to join one under way at once, so in one if they never overlapped.
Members ==
    /\ \A o \in teams : \E r \in RowsOf(o) :
          /\ r.user = o /\ r.accepted
          /\ {x \in RowsOf(o) : x.role = "OWNER"} = {r}
    /\ \A r \in rows : r.accepted => r.org \in teams /\ r.user = r.email
    /\ \A u \in Users : Cardinality(Memberships(u)) <= joins[u]

\* Pending and accepted seats together exceed the most seats that the owner's plan gave, at
\* the creation or to an invitation, by at most one for each further request for a seat
\* that was under way at once, whatever sequence of invitations, acceptances, removals and
\* plan changes: by none if they never overlapped.
SeatsKept == \A o \in teams : Cardinality(RowsOf(o)) < most[o] + squeeze[o]

\* Both: a team is its owner and no more than the seats paid for, each its invitee's.
TeamsSound == Members /\ SeatsKept

=============================================================================
