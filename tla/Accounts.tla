------------------------------ MODULE Accounts ------------------------------
(***************************************************************************)
(* Accounts, sessions and e-mailed links (services/auth.py,                *)
(* api/routes/auth.py, api/deps.py, the user part of api/routes/admin.py   *)
(* and the `instilens users` commands).                                    *)
(*                                                                         *)
(* A request is two steps.  It begins by reading its rows, deciding, and   *)
(* answering; it commits when the session of its dependency closes, after  *)
(* the answer has left.  Other requests may begin and commit in between.   *)
(* The commit writes the columns whose value changed and leaves the others *)
(* as they then are.                                                       *)
(*                                                                         *)
(* Signing in is an attempt of up to four steps, for the counters it reads *)
(* and writes are in transactions of their own: the check of the lock, the *)
(* count of hit(), its insert, the answer.                                 *)
(*                                                                         *)
(* A token or a link that expires is one that nobody uses any more, so     *)
(* expiry needs no step.                                                   *)
(***************************************************************************)
EXTENDS Integers, FiniteSets

CONSTANTS
    Users,       \* e-mail addresses
    Created,     \* those `instilens users create` made an account for
    Operator,    \* the one created as administrator
    Workers,     \* request threads and command lines
    Idle,        \* a worker without a request
    Absent,      \* an address without an account
    Smtp,        \* whether mail can be sent (notify.smtp_configured)
    Clumsy,      \* bound: the users who mistype passwords and codes
    Enrolling,   \* bound: the users who set up a second factor
    Attempts,    \* settings.account_lockout_attempts
    MaxVersion,  \* bound: session generations of one account
    MaxLinks,    \* bound: e-mailed links of each account
    MaxCodes     \* bound: second-step challenges

\* The columns of a row that the code below reads or writes.
Rows == [role : {"USER", "ADMIN"}, active : BOOLEAN, version : Nat, verified : BOOLEAN, totp : {"none", "pending", "on"}]

ASSUME AccountsAssumption ==
    /\ Created \subseteq Users /\ Operator \in Created
    /\ Absent \notin Rows
    /\ Smtp \in BOOLEAN
    /\ Clumsy \subseteq Users /\ Enrolling \subseteq Users
    /\ {Attempts, MaxVersion, MaxCodes} \subseteq Nat \ {0} /\ MaxLinks \in [Users -> Nat]

Kinds == {"RESET", "VERIFY"}

\* The keys of rate_hits: failures of an address and of a second factor, and the uses of
\* the challenge with a number.
Keys == ({"acct", "mfa"} \X Users) \cup ({"jti"} \X (1 .. MaxCodes))

VARIABLES
    account,   \* users: the row of each address, or Absent
    links,     \* auth_tokens
    tokens,    \* the signed tokens handed out
    hits,      \* rate_hits inside the window
    request,   \* what each worker read and will write
    attempt,   \* what each worker knows of whoever signs in through it
    epoch,     \* history: revocations of each account's sessions that committed
    tries,     \* history: what each counter let pass since one of its hits left the window
    crowd,     \* history: the most workers at once on a counter, or on a kind of link; at least 1
    crossed    \* history: accounts of which one revocation overwrote another, or was lost after its answer

accountVars == <<account, links, tokens, hits, request, attempt, epoch, tries, crowd, crossed>>

NewAccount == [role |-> "USER", active |-> TRUE, version |-> 1, verified |-> FALSE, totp |-> "none"]

Init ==
    /\ account = [u \in Users |-> IF u \notin Created THEN Absent
                                  ELSE [NewAccount EXCEPT !.role = IF u = Operator THEN "ADMIN" ELSE @]]
    /\ links = {} /\ tokens = {}
    /\ hits = [k \in Keys |-> 0] /\ tries = [k \in Keys |-> 0]
    /\ request = [w \in Workers |-> Idle] /\ attempt = [w \in Workers |-> Idle]
    /\ epoch = [u \in Users |-> 0]
    /\ crowd = [k \in Keys \cup (Kinds \X Users) |-> 1]
    /\ crossed = {}

Unoccupied(w) == request[w] = Idle /\ attempt[w] = Idle

Crowded(k, n) == [crowd EXCEPT ![k] = IF n > @ THEN n ELSE @]

-----------------------------------------------------------------------------
(* Tokens *)

\* The claims of a token made from a row that follows `since` revocations.
Token(scope, u, row, since, code) ==
    [scope |-> scope, user |-> u, version |-> row.version, code |-> code, epoch |-> since]

Session(u, row, since) == Token("session", u, row, since, 0)

Challenges == {t \in tokens : t.scope = "mfa"}

\* A session, or the challenge of an account that carries a second factor.
SessionOrChallenge(u, row, since) ==
    IF row.totp = "on" THEN Token("mfa", u, row, since, Cardinality(Challenges) + 1)
                       ELSE Session(u, row, since)

\* What _decode lets through.
Accepted(t, scope) ==
    /\ t.scope = scope
    /\ account[t.user] # Absent
    /\ account[t.user].active
    /\ t.version = account[t.user].version

SignedIn(u) == \E t \in tokens : t.user = u /\ Accepted(t, "session")

-----------------------------------------------------------------------------
(* Requests *)

Unused(kind, u) == {l \in links : l.kind = kind /\ l.user = u /\ ~ l.used}

\* issue_email_token: earlier live links of the kind die.
Superseded(kind, u) == {l.id : l \in Unused(kind, u)}

Minted(kind, u, subject) ==
    [id |-> Cardinality(links) + 1, kind |-> kind, user |-> u, subject |-> subject, used |-> FALSE]

\* _live_token
LiveLinks(kind) ==
    {l \in links : l.kind = kind /\ ~ l.used /\ account[l.user] # Absent /\ account[l.user].active}

Minting(kind, u) == {w \in Workers : request[w] # Idle /\ request[w].user = u /\ request[w].mint = kind}

Mailing(u) ==
    Cardinality({l \in links : l.user = u}) + Cardinality(UNION {Minting(kind, u) : kind \in Kinds}) < MaxLinks[u]

\* Worker w reads the row of u, holds its new row, the links to burn and the kind of
\* link to mint, and has answered with the tokens `gives`; `ends` says whether the
\* request is one that ends the sessions of before.
Begin(w, u, new, ends, burn, mint, gives) ==
    /\ Unoccupied(w)
    /\ account[u] # Absent
    /\ account[u].version < MaxVersion /\ epoch[u] < MaxVersion
    /\ mint # "none" => Mailing(u)
    /\ request' = [request EXCEPT ![w] =
           [user |-> u, seen |-> account[u], new |-> new, ends |-> ends, burn |-> burn, mint |-> mint, gave |-> gives # {}]]
    /\ crowd' = IF mint = "none" THEN crowd ELSE Crowded(<<mint, u>>, Cardinality(Minting(mint, u)) + 1)
    /\ tokens' = tokens \cup gives
    /\ UNCHANGED <<account, links, attempt, epoch, crossed>>

\* The UPDATE of a flush names only the columns that changed.
Flushed(row, seen, new) == [c \in DOMAIN row |-> IF new[c] = seen[c] THEN row[c] ELSE new[c]]

Commit(w) ==
    /\ request[w] # Idle
    /\ LET r == request[w]
       IN  /\ account' = [account EXCEPT ![r.user] = Flushed(@, r.seen, r.new)]
           /\ links' = {IF l.id \in r.burn THEN [l EXCEPT !.used = TRUE] ELSE l : l \in links}
                       \cup (IF r.mint = "none" THEN {} ELSE {Minted(r.mint, r.user, 0)})
           /\ epoch' = [epoch EXCEPT ![r.user] = IF r.ends THEN @ + 1 ELSE @]
           /\ crossed' = IF r.ends /\ account[r.user].version # r.seen.version THEN crossed \cup {r.user} ELSE crossed
    /\ request' = [request EXCEPT ![w] = Idle]
    /\ UNCHANGED <<tokens, hits, attempt, tries, crowd>>

\* The process dies: a request between its answer and its commit, an attempt before its answer.
Lose(w) ==
    /\ ~ Unoccupied(w)
    /\ request' = [request EXCEPT ![w] = Idle] /\ attempt' = [attempt EXCEPT ![w] = Idle]
    /\ crossed' = IF request[w] # Idle /\ request[w].gave THEN crossed \cup {request[w].user} ELSE crossed
    /\ UNCHANGED <<account, links, tokens, hits, epoch, tries, crowd>>

-----------------------------------------------------------------------------
(* The counters of signing in *)

Limit(k) == IF k[1] = "jti" THEN 1 ELSE Attempts

FullLate(k) == hits[k] > Limit(k)

\* failures() >= limit, and the refusal of hit().
Full(k) == hits[k] >= Limit(k)

\* reset_key
ResetKey(k) ==
    /\ hits' = [hits EXCEPT ![k] = 0]
    /\ tries' = [tries EXCEPT ![k] = 0]

\* The counter that an attempt may still add to: that of its challenge when the code was
\* right, that of its failures before.
Door(a) == <<IF a.code = 0 THEN "acct" ELSE "mfa", a.user>>

Target(a) == IF a.stage = "right" THEN <<"jti", a.code>> ELSE Door(a)

AtWork(k) == {w \in Workers : attempt[w] # Idle /\ attempt[w].stage # "burnt" /\ Target(attempt[w]) = k}

\* An attempt that passed the check of its lock and holds the row of the account.  Nothing
\* follows from a failure, so that reading the failures and reading the row are one step.
Enters(w, k, code) ==
    /\ Unoccupied(w) /\ ~ Full(k)
    /\ attempt' = [attempt EXCEPT ![w] =
           [stage |-> "known", user |-> k[2], row |-> account[k[2]], since |-> epoch[k[2]], code |-> code]]
    /\ crowd' = Crowded(k, Cardinality(AtWork(k)) + 1)
    /\ UNCHANGED <<account, links, tokens, hits, request, epoch, tries, crossed>>

\* authenticate begins; an address without an account is let this far too.
Knock(w, u) == Enters(w, <<"acct", u>>, 0)

\* mfa_verify begins with a challenge.
Answer(w, t) == Accepted(t, "mfa") /\ Enters(w, <<"mfa", t.user>>, t.code)

Stage(w, a, stage) == attempt' = [attempt EXCEPT ![w] = [a EXCEPT !.stage = stage]]

Done(w) == attempt' = [attempt EXCEPT ![w] = Idle]

\* A wrong password or code: hit() counts, and refuses to insert at the limit.
Fail(w) ==
    /\ attempt[w] # Idle /\ attempt[w].stage = "known" /\ attempt[w].user \in Clumsy
    /\ LET k == Door(attempt[w])
       IN  IF Full(k) THEN Done(w) /\ tries' = [tries EXCEPT ![k] = @ + 1]
                      ELSE Stage(w, attempt[w], "wrong") /\ tries' = tries
    /\ UNCHANGED <<account, links, tokens, hits, request, epoch, crowd, crossed>>

\* The right code: hit() counts the uses of the challenge.
Prove(w) ==
    /\ attempt[w] # Idle /\ attempt[w].stage = "known" /\ attempt[w].code # 0
    /\ attempt[w].row.totp = "on"
    /\ LET k == <<"jti", attempt[w].code>>
       IN  IF Full(k) THEN Done(w) /\ crowd' = crowd
                      ELSE Stage(w, attempt[w], "right") /\ crowd' = Crowded(k, Cardinality(AtWork(k)) + 1)
    /\ UNCHANGED <<account, links, tokens, hits, request, epoch, tries, crossed>>

\* hit() inserts, in whatever state the counter is by then.
Insert(w) ==
    /\ attempt[w] # Idle /\ attempt[w].stage \in {"wrong", "right"}
    /\ LET k == Target(attempt[w])
       IN  hits' = [hits EXCEPT ![k] = @ + 1] /\ tries' = [tries EXCEPT ![k] = @ + 1]
    /\ IF attempt[w].stage = "right" THEN Stage(w, attempt[w], "burnt") ELSE Done(w)
    /\ UNCHANGED <<account, links, tokens, request, epoch, crowd, crossed>>

\* The right password: a session or a challenge for the row that was read.
Login(w) ==
    /\ attempt[w] # Idle /\ attempt[w].stage = "known" /\ attempt[w].code = 0
    /\ LET a == attempt[w]
       IN  /\ a.row # Absent /\ a.row.active
           /\ a.row.totp = "on" => Cardinality(Challenges) < MaxCodes
           /\ tokens' = tokens \cup {SessionOrChallenge(a.user, a.row, a.since)}
           /\ ResetKey(Door(a))
    /\ Done(w)
    /\ UNCHANGED <<account, links, request, epoch, crowd, crossed>>

\* The end of mfa_verify, with the challenge used up.
MfaVerify(w) ==
    /\ attempt[w] # Idle /\ attempt[w].stage = "burnt"
    /\ tokens' = tokens \cup {Session(attempt[w].user, attempt[w].row, attempt[w].since)}
    /\ ResetKey(Door(attempt[w]))
    /\ Done(w)
    /\ UNCHANGED <<account, links, request, epoch, crowd, crossed>>

\* The oldest hit of a key leaves the window; those of a challenge outlive it.
Lapse(k) ==
    /\ k[1] # "jti" /\ hits[k] > 0
    /\ hits' = [hits EXCEPT ![k] = @ - 1] /\ tries' = [tries EXCEPT ![k] = 0]
    /\ UNCHANGED <<account, links, tokens, request, attempt, epoch, crowd, crossed>>

\* Two registrations of one address race to the unique column; the loser's insert
\* fails, so registration is one step.
Register(u) ==
    /\ account[u] = Absent
    /\ account' = [account EXCEPT ![u] = NewAccount]
    /\ IF Smtp THEN Mailing(u) /\ links' = links \cup {Minted("VERIFY", u, 0)} ELSE links' = links
    /\ tokens' = tokens \cup {Session(u, NewAccount, 0)}
    /\ UNCHANGED <<hits, request, attempt, epoch, tries, crowd, crossed>>

-----------------------------------------------------------------------------
(* The account's own requests *)

RevokedNever(row) == row

Revoked(row) == [row EXCEPT !.version = @ + 1]

Forgot(w, u) ==
    /\ account[u] # Absent /\ account[u].active
    /\ Begin(w, u, account[u], FALSE, Superseded("RESET", u), "RESET", {})
    /\ UNCHANGED <<hits, tries>>

\* reset_password; the lock is cleared through the counter store, at once.
Reset(w, l) ==
    /\ l \in LiveLinks("RESET")
    /\ account[l.user].totp = "on" => Cardinality(Challenges) < MaxCodes
    /\ LET new == [Revoked(account[l.user]) EXCEPT !.verified = TRUE]
       IN  Begin(w, l.user, new, TRUE, {l.id}, "none", {SessionOrChallenge(l.user, new, epoch[l.user] + 1)})
    /\ ResetKey(<<"acct", l.user>>)

Resend(w, u) ==
    /\ SignedIn(u) /\ Smtp /\ ~ account[u].verified
    /\ Begin(w, u, account[u], FALSE, Superseded("VERIFY", u), "VERIFY", {})
    /\ UNCHANGED <<hits, tries>>

Verify(w, l) ==
    /\ l \in LiveLinks("VERIFY")
    /\ Begin(w, l.user, [account[l.user] EXCEPT !.verified = TRUE], FALSE, {l.id}, "none", {})
    /\ UNCHANGED <<hits, tries>>

\* mfa_setup, mfa_enable and mfa_disable: from a factor in one of `from` to `to`.
Enrol(w, u, from, to) ==
    /\ u \in Enrolling /\ SignedIn(u) /\ account[u].totp \in from
    /\ Begin(w, u, [account[u] EXCEPT !.totp = to], FALSE, {}, "none", {})
    /\ UNCHANGED <<hits, tries>>

ChangePassword(w, u) ==
    /\ SignedIn(u)
    /\ LET new == Revoked(account[u]) IN Begin(w, u, new, TRUE, {}, "none", {Session(u, new, epoch[u] + 1)})
    /\ UNCHANGED <<hits, tries>>

LogoutAll(w, u) ==
    /\ SignedIn(u)
    /\ Begin(w, u, Revoked(account[u]), TRUE, {}, "none", {})
    /\ UNCHANGED <<hits, tries>>

-----------------------------------------------------------------------------
(* Operators *)

Admins == {u \in Users : account[u] # Absent /\ account[u].role = "ADMIN" /\ account[u].active}

Demoting(role, active) == role = "USER" \/ ~ active

\* patch_user sends the role and the activity the row shall have.
PatchUser(w, actor, u, role, active) ==
    /\ SignedIn(actor) /\ actor \in Admins
    /\ account[u] # Absent /\ <<role, active>> # <<account[u].role, account[u].active>>
    /\ Demoting(role, active) => /\ u # actor
                                 /\ account[u].role = "ADMIN" => Cardinality(Admins) > 1
    /\ Begin(w, u, [Revoked(account[u]) EXCEPT !.role = role, !.active = active], TRUE, {}, "none", {})
    /\ UNCHANGED <<hits, tries>>

\* `instilens users set-password`
CliSetPassword(w, u) ==
    /\ account[u] # Absent
    /\ Begin(w, u, Revoked(account[u]), TRUE, {}, "none", {})
    /\ ResetKey(<<"acct", u>>)

WorkerStep == \E w \in Workers : Commit(w) \/ Lose(w)

SignInStep ==
    \/ \E u \in Users : Register(u) \/ \E w \in Workers : Knock(w, u)
    \/ \E w \in Workers : Login(w) \/ Fail(w) \/ Insert(w)
    \/ \E k \in Keys : Lapse(k)

SessionStep == \E w \in Workers, u \in Users : ChangePassword(w, u) \/ LogoutAll(w, u)

FactorStep ==
    \/ \E w \in Workers : Prove(w) \/ MfaVerify(w) \/ \E t \in tokens : Answer(w, t)
    \/ \E w \in Workers, u \in Users :
          \/ Enrol(w, u, {"none", "pending"}, "pending")
          \/ Enrol(w, u, {"pending"}, "on")
          \/ Enrol(w, u, {"on"}, "none")

LinkStep == \E w \in Workers :
    \/ \E u \in Users : Forgot(w, u) \/ Resend(w, u)
    \/ \E l \in links : Reset(w, l) \/ Verify(w, l)

OperatorStep == \E w \in Workers, u \in Users :
    \/ CliSetPassword(w, u)
    \/ \E actor \in Users, role \in {"USER", "ADMIN"}, active \in BOOLEAN : PatchUser(w, actor, u, role, active)

Next == WorkerStep \/ SignInStep \/ SessionStep \/ FactorStep \/ LinkStep \/ OperatorStep

Spec == Init /\ [][Next]_accountVars

-----------------------------------------------------------------------------
(* Properties *)

\* ORG_INVITE links are minted by Organisations, for a row of theirs.
Links == [id : Nat, kind : Kinds \cup {"ORG_INVITE"}, user : Users, subject : Nat, used : BOOLEAN]

Tokens == [scope : {"session", "mfa"}, user : Users, version : Nat, code : 0 .. MaxCodes, epoch : Nat]

Requests ==
    [user : Users, seen : Rows, new : Rows, ends : BOOLEAN, burn : SUBSET Nat, mint : Kinds \cup {"none"}, gave : BOOLEAN]

Stages == {"known", "wrong", "right", "burnt"}

Knocks == [stage : Stages, user : Users, row : Rows \cup {Absent}, since : Nat, code : 0 .. MaxCodes]

TypeOK ==
    /\ account \in [Users -> Rows \cup {Absent}]
    /\ links \subseteq Links /\ IsFiniteSet(links)
    /\ tokens \subseteq Tokens /\ IsFiniteSet(tokens)
    /\ hits \in [Keys -> Nat] /\ tries \in [Keys -> Nat]
    /\ request \in [Workers -> Requests \cup {Idle}]
    /\ attempt \in [Workers -> Knocks \cup {Idle}]
    /\ epoch \in [Users -> Nat]
    /\ crowd \in [Keys \cup (Kinds \X Users) -> Nat]
    /\ crossed \subseteq Users

\* The generation in the row tells exactly the sessions and challenges of before a password
\* change, a reset, a log-out-everywhere or a role change from those handed out with it or
\* after it: those are let in and the others are not, on every account of which no
\* revocation was written over another (see EveryOtherSessionDies) or lost with its answer
\* out, whatever else overlaps.
RevokedStaysOut ==
    \A t \in tokens : (t.user \notin crossed /\ account[t.user].active) =>
        (Accepted(t, t.scope) <=> t.epoch = epoch[t.user])

\* A reset or verification link kills the ones before: an account has no more usable ones
\* of a kind than requests for one were under way at once, so one if they never overlapped.
OneLiveLink ==
    \A u \in Users, kind \in Kinds : Cardinality(Unused(kind, u)) <= crowd[<<kind, u>>]

\* A session or a link that was replaced stops working, and the one that replaced it works.
CredentialsHold == RevokedStaysOut /\ OneLiveLink

\* Until a hit leaves its window or a sign-in clears it, a counter lets pass no more than
\* its limit and one for each further worker that was at it at once (hardening.hit): wrong
\* passwords answered for an address, wrong codes for a second factor, sessions for one
\* challenge, of which there is one when its answers do not overlap.
LimitsHold == \A k \in Keys : tries[k] < Limit(k) + crowd[k]

\* A password change, a reset, a log-out-everywhere or a role change ends every session of
\* before (services/auth.py:143, 241).  Two that overlap write the same generation, and the
\* sessions opened between their commits live on.
EveryOtherSessionDies ==
    \A t \in tokens : Accepted(t, "session") => t.epoch >= epoch[t.user]

\* "cannot remove the last active admin" (api/routes/admin.py:47).  Two administrators who
\* demote each other at once have both counted two.
AdminLeft == Admins # {}

=============================================================================
