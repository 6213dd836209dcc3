----------------------------- MODULE Subscriptions -----------------------------
(***************************************************************************)
(* The plan of one account (services/billing.py, services/plans.py).  Two  *)
(* writers set it: the events of the payment provider's subscriptions,     *)
(* which come in any order and any number of times, and the grants of an   *)
(* administrator, which may expire.  Every request is one transaction and  *)
(* one step; the provider itself is external.                              *)
(***************************************************************************)
EXTENDS Integers, Sequences, FiniteSets

CONSTANTS Subs,      \* subscription ids of the provider
          MaxTime,   \* bound: ticks of the clock
          MaxEvents  \* bound: events the provider sends

ASSUME SubscriptionsAssumption == MaxTime \in Nat /\ MaxEvents \in Nat

VARIABLES
    now,       \* the clock; events of one tick carry the same `created` second
    prov,      \* prov[s]: the provider's subscription s
    sent,      \* the events the provider has for us
    processed, \* those in processed_webhooks
    row,       \* row[s]: the subscriptions row of s
    grant,     \* the latest manual row of the account
    user,      \* plan, plan_source and plan_until of the account
    missed     \* history: subscriptions with an event dropped for want of a row

local == <<row, grant, user>>
vars == <<now, prov, sent, processed, row, grant, user, missed>>

Paid == {"PRO", "PRO_PLUS"}
Plans == {"FREE"} \union Paid
Rank == [FREE |-> 0, PRO |-> 1, PRO_PLUS |-> 2]
NoEnd == -1   \* plan_until of a plan that does not expire
Never == -1   \* provider_event_at of a row no event was applied to

Live == {"ACTIVE", "PAST_DUE"}
RowStatus == Live \union {"none", "INCOMPLETE", "CANCELED"}
ProvStatus == {"unused", "open", "incomplete", "active", "past_due", "paused", "canceled"}

\* _STRIPE_STATUS
StatusOf == [incomplete |-> "INCOMPLETE", active |-> "ACTIVE", past_due |-> "PAST_DUE",
             paused |-> "INCOMPLETE", canceled |-> "CANCELED"]

Event == [type : {"completed", "changed", "deleted", "failed"}, sub : Subs, n : Nat,
          status : DOMAIN StatusOf, plan : Paid, at : Nat]

TypeOK ==
    /\ now \in Nat
    /\ prov \in [Subs -> [status : ProvStatus, plan : Paid, n : Nat]]
    /\ sent \subseteq Event
    /\ processed \subseteq sent
    /\ row \in [Subs -> [status : RowStatus, plan : Paid, at : Nat \union {Never}]]
    /\ grant \in [live : BOOLEAN, plan : Plans]
    /\ user \in [plan : Plans, source : {"none", "manual", "stripe"}, until : Nat \union {NoEnd}]
    /\ missed \subseteq Subs

\* An account may hold a plan from before grants were recorded.
Init ==
    /\ now = 0
    /\ prov = [s \in Subs |-> [status |-> "unused", plan |-> "PRO", n |-> 0]]
    /\ sent = {}
    /\ processed = {}
    /\ row = [s \in Subs |-> [status |-> "none", plan |-> "PRO", at |-> Never]]
    /\ grant = [live |-> FALSE, plan |-> "FREE"]
    /\ user \in [plan : Plans, source : {"none"}, until : {NoEnd}]
    /\ missed = {}

-----------------------------------------------------------------------------
\* The plan on the account itself; FREE once a dated grant has run out.
OwnPlan == IF user.until # NoEnd /\ user.until < now THEN "FREE" ELSE user.plan

LiveRows == {s \in Subs : row[s].status \in Live}

\* Mutants of FallBack: other rows are not looked at; the wrong column is copied.
FallBackNone(S) == [plan |-> "FREE", source |-> "none", until |-> NoEnd]
FallBackStatus(S) ==
    [plan |-> IF S = {} THEN "FREE" ELSE row[CHOOSE s \in S : TRUE].status, source |-> "none", until |-> NoEnd]

\* The account on the plan of one of the paid rows in S, else on FREE.
FallBack(S) ==
    IF S = {} THEN [plan |-> "FREE", source |-> "none", until |-> NoEnd]
              ELSE [plan |-> row[CHOOSE s \in S : TRUE].plan, source |-> "stripe", until |-> NoEnd]

Deliverable == sent \ processed

\* Mutant of Stale: events are applied as they come.
StaleNever(e) == FALSE

\* An older event than the last one applied; one of the same second is not.
Stale(e) == row[e.sub].at # Never /\ e.at < row[e.sub].at

\* Mutant of Rows: an earlier subscription stays live.
RowsUnretired(s, r) == [row EXCEPT ![s] = r]

\* _retire_others(): a row that is live after its event is the only live paid one.
Rows(s, r) ==
    [x \in Subs |->
        IF x = s THEN r
        ELSE IF r.status \in Live /\ x \in LiveRows THEN [row[x] EXCEPT !.status = "CANCELED"]
        ELSE row[x]]

\* Mutants of Account: a subscription always wins; only a live one changes the account.
AccountOverridden(s, r) ==
    IF r.status \in Live THEN [plan |-> r.plan, source |-> "stripe", until |-> NoEnd] ELSE user
AccountKept(s, r) ==
    IF /\ r.status \in Live
       /\ user.source = "stripe" \/ Rank[r.plan] >= Rank[OwnPlan]
    THEN [plan |-> r.plan, source |-> "stripe", until |-> NoEnd] ELSE user

\* _apply_to_user(): the account after row s became r.
Account(s, r) ==
    CASE r.status \in Live /\ (user.source = "stripe" \/ Rank[r.plan] >= Rank[OwnPlan]) ->
            [plan |-> r.plan, source |-> "stripe", until |-> NoEnd]
      [] r.status \notin Live /\ user.source = "stripe" -> FallBack(LiveRows \ {s})
      [] OTHER -> user

\* A manual grant is kept beside a paid row only if it is of a higher plan.
Settle(s, r) ==
    /\ row' = Rows(s, r)
    /\ user' = Account(s, r)
    /\ grant' = IF r.status \in Live /\ Rank[grant.plan] <= Rank[r.plan]
                  THEN [grant EXCEPT !.live = FALSE] ELSE grant

-----------------------------------------------------------------------------
\* apply_event(): an event is applied once; a redelivery changes nothing.
Receive(e, type) ==
    /\ e \in Deliverable /\ e.type = type
    /\ processed' = processed \union {e}
    /\ UNCHANGED <<now, prov, sent>>

Ignore == UNCHANGED <<local, missed>>

\* checkout.session.completed: the row may be new; only a paid session makes it live.
CheckoutCompleted(e) ==
    LET known == row[e.sub].status # "none"
    IN  /\ Receive(e, "completed")
        /\ \/ known /\ Stale(e) /\ Ignore
           \/ /\ ~(known /\ Stale(e))
              /\ Settle(e.sub, [status |-> IF e.status = "active" THEN "ACTIVE"
                                           ELSE IF known THEN row[e.sub].status ELSE "INCOMPLETE",
                                plan |-> e.plan, at |-> e.at])
              /\ UNCHANGED missed

\* customer.subscription.created and .updated, which may be the first the row hears of.
SubscriptionChanged(e) ==
    /\ Receive(e, "changed")
    /\ \/ Stale(e) /\ Ignore
       \/ /\ ~Stale(e)
          /\ Settle(e.sub, [status |-> StatusOf[e.status], plan |-> e.plan, at |-> e.at])
          /\ UNCHANGED missed

\* An event for a row that does not exist yet is dropped, but counts as applied.
Unknown(e) ==
    /\ row[e.sub].status = "none"
    /\ missed' = missed \union {e.sub}
    /\ UNCHANGED local

\* customer.subscription.deleted
SubscriptionDeleted(e) ==
    /\ Receive(e, "deleted")
    /\ \/ Unknown(e)
       \/ Stale(e) /\ Ignore
       \/ /\ row[e.sub].status # "none" /\ ~Stale(e)
          /\ Settle(e.sub, [row[e.sub] EXCEPT !.status = "CANCELED", !.at = e.at])
          /\ UNCHANGED missed

\* invoice.payment_failed: the plan is kept while the provider retries.
PaymentFailed(e) ==
    /\ Receive(e, "failed")
    /\ \/ Unknown(e)
       \/ Stale(e) /\ Ignore
       \/ /\ row[e.sub].status # "none" /\ ~Stale(e)
          /\ Settle(e.sub, [row[e.sub] EXCEPT !.at = e.at,
                               !.status = IF @ \in Live THEN "PAST_DUE" ELSE @])
          /\ UNCHANGED missed

-----------------------------------------------------------------------------
\* ManualProvider.grant(): refused over a live paid row.
Grant(plan, until) ==
    /\ LiveRows = {}
    /\ grant' = [live |-> TRUE, plan |-> plan]
    /\ user' = [plan |-> plan, source |-> "manual", until |-> until]
    /\ UNCHANGED <<now, prov, sent, processed, row, missed>>

\* ManualProvider.grant() of FREE: back to the paid row, if there is one.
Revoke ==
    /\ grant' = [grant EXCEPT !.live = FALSE]
    /\ user' = FallBack(LiveRows)
    /\ UNCHANGED <<now, prov, sent, processed, row, missed>>

\* ManualProvider.redate(): a plan without a source is adopted as a grant.
Redate(until) ==
    /\ user.plan # "FREE"
    /\ user.source = "manual" \/ (user.source = "none" /\ LiveRows = {})
    /\ user' = [user EXCEPT !.source = "manual", !.until = until]
    /\ UNCHANGED <<now, prov, sent, processed, row, grant, missed>>

-----------------------------------------------------------------------------
\* The provider (external): s becomes status and plan, and its events of this
\* second are the types listed.
Emit(s, status, plan, types) ==
    /\ Cardinality(sent) + Len(types) <= MaxEvents
    /\ prov' = [prov EXCEPT ![s] = [status |-> status, plan |-> plan, n |-> @.n + Len(types)]]
    /\ sent' = sent \union {[type |-> types[i], sub |-> s, n |-> prov[s].n + i, status |-> status,
                             plan |-> plan, at |-> now] : i \in 1..Len(types)}
    /\ UNCHANGED <<now, processed, local, missed>>

\* checkout_session(): refused while a subscription is live; the session may be left open.
Checkout(s, plan) ==
    /\ LiveRows = {}
    /\ prov[s].status = "unused"
    /\ prov' = [prov EXCEPT ![s] = [@ EXCEPT !.status = "open", !.plan = plan]]
    /\ UNCHANGED <<now, sent, processed, local, missed>>

\* The customer completes the checkout, with a payment at once or a delayed one.
Pay(s) ==
    /\ prov[s].status = "open"
    /\ \E status \in {"active", "incomplete"} : Emit(s, status, prov[s].plan, <<"completed", "changed">>)

Lifecycle == [incomplete |-> {"active"}, active |-> {"active", "past_due", "paused"},
              past_due |-> {"active"}, paused |-> {"active"}]

\* A renewal, a payment or a pause; a failed renewal is also an invoice event.
Progress(s) ==
    /\ prov[s].status \in DOMAIN Lifecycle
    /\ \E status \in Lifecycle[prov[s].status] :
          Emit(s, status, prov[s].plan, IF status = "past_due" THEN <<"changed", "failed">> ELSE <<"changed">>)

\* The customer picks another plan in the portal, which opens for an account with a row of
\* the provider; only its direct way to the plan picker takes a live one.
Switch(s, plan) ==
    /\ \E t \in Subs : row[t].status # "none"
    /\ prov[s].status \in {"active", "past_due"} /\ plan # prov[s].plan
    /\ Emit(s, prov[s].status, plan, <<"changed">>)

\* The provider tries the card again.
Retry(s) ==
    /\ prov[s].status = "past_due"
    /\ Emit(s, "past_due", prov[s].plan, <<"failed">>)

End(s) ==
    /\ prov[s].status \in DOMAIN Lifecycle
    /\ Emit(s, "canceled", prov[s].plan, <<"deleted">>)

Tick ==
    /\ now < MaxTime
    /\ now' = now + 1
    /\ UNCHANGED <<prov, sent, processed, local, missed>>

-----------------------------------------------------------------------------
Deliver(e) == CheckoutCompleted(e) \/ SubscriptionChanged(e) \/ SubscriptionDeleted(e) \/ PaymentFailed(e)

Admin ==
    \/ \E until \in (now..MaxTime) \union {NoEnd} : (\E plan \in Paid : Grant(plan, until)) \/ Redate(until)
    \/ Revoke

Provider(s) ==
    \/ \E plan \in Paid : Checkout(s, plan) \/ Switch(s, plan)
    \/ Pay(s) \/ Progress(s) \/ Retry(s) \/ End(s)

Next == (\E e \in Deliverable : Deliver(e)) \/ Admin \/ (\E s \in Subs : Provider(s)) \/ Tick

Spec == Init /\ [][Next]_vars

-----------------------------------------------------------------------------
\* Properties.

\* "One live paid subscription per account": whatever order events of two
\* subscriptions come in, at most one of their rows is live.
OneLivePaid == \A s, t \in LiveRows : s = t

\* The account and the row behind its plan agree: a plan from the provider has a live
\* row of that plan, a granted one a live grant (unless it was adopted by a re-date).
PlanIsBacked ==
    /\ user.source = "stripe" => \E s \in LiveRows : row[s].plan = user.plan
    /\ user.source = "manual" => grant.plan = "FREE" \/ (grant.live /\ grant.plan = user.plan)

\* What is paid for is not lost to a grant: while a paid row is live the account is on
\* it, or on a plan that is higher by name.
PaidNotUndercut ==
    \A s \in LiveRows : user.source = "stripe" \/ Rank[user.plan] > Rank[row[s].plan]

\* Grants and subscriptions never contradict each other: the plan of the account has
\* something behind it, and is no less than what is paid for.
PlanSound == PlanIsBacked /\ PaidNotUndercut

EventsOf(s) == {e \in sent : e.sub = s}

\* Events in any order end in the right state: once all events of a subscription are
\* in and the newest is its own (not an invoice's) and of a later second than the
\* others, the row says what the provider says, or was retired by another one.  A
\* deletion that came before the row existed is dropped and exempt.
ProviderAgrees ==
    \A s \in Subs : \A last \in EventsOf(s) :
        /\ EventsOf(s) \subseteq processed
        /\ \A e \in EventsOf(s) \ {last} : e.at < last.at
        /\ last.type \in {"changed", "deleted"}
        /\ s \notin missed
        => \/ /\ row[s].status = StatusOf[prov[s].status]
              /\ last.type = "changed" => row[s].plan = prov[s].plan
           \/ row[s].status = "CANCELED" /\ \E t \in Subs \ {s} : row[t].status # "none"

\* A provider event never undoes a grant in force of a higher plan than those paid for.
HigherGrantKept ==
    [][ /\ processed' # processed
        /\ user.source = "manual" /\ (user.until = NoEnd \/ now <= user.until)
        /\ \A s \in Subs : row'[s].status \in Live => Rank[row'[s].plan] < Rank[user.plan]
        => user' = user /\ (grant.live => grant'.live) ]_vars

=============================================================================
