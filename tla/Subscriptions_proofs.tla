-------------------------- MODULE Subscriptions_proofs --------------------------
(***************************************************************************)
(* The account and its rows never contradict each other, for any number    *)
(* of subscriptions, any clock and any number of events.                   *)
(***************************************************************************)
EXTENDS Subscriptions, TLAPS

RowRecord == [status : RowStatus, plan : Paid, at : Nat \union {Never}]

\* A plan without a source is FREE, or from before the first grant.
Legacy == user.source = "none" /\ user.plan # "FREE" => grant.plan = "FREE"

\* What the local state satisfies by itself.
Rules ==
    /\ OneLivePaid
    /\ PlanIsBacked
    /\ PaidNotUndercut
    /\ Legacy

IInv == TypeOK /\ Rules

-----------------------------------------------------------------------------
\* The plan that counts today is the account's or FREE, and FREE ranks lowest.
LEMMA OwnPlanRank ==
    ASSUME TypeOK
    PROVE  OwnPlan \in Plans /\ Rank[OwnPlan] <= Rank[user.plan]
BY DEF TypeOK, OwnPlan, Plans, Paid, Rank

\* With one live row at most, falling back finds it: the account's new plan is backed.
LEMMA FallBackBacked ==
    ASSUME TypeOK, NEW S \in SUBSET LiveRows
    PROVE  \/ S = {} /\ FallBack(S) = [plan |-> "FREE", source |-> "none", until |-> NoEnd]
           \/ \E s \in S : FallBack(S) = [plan |-> row[s].plan, source |-> "stripe", until |-> NoEnd]
<1>1. CASE S = {}
  BY <1>1 DEF FallBack
<1>2. CASE S # {}
  <2>1. (CHOOSE s \in S : TRUE) \in S
    BY <1>2
  <2> QED BY <1>2, <2>1 DEF FallBack
<1> QED BY <1>1, <1>2

\* After an event the rows are the new one and, unless it is live, the other live ones.
LEMMA RowsAfter ==
    ASSUME TypeOK, NEW s \in Subs, NEW r \in RowRecord, row' = Rows(s, r)
    PROVE  /\ row' \in [Subs -> RowRecord]
           /\ row'[s] = r
           /\ r.status \in Live => LiveRows' = {s}
           /\ r.status \notin Live => LiveRows' = LiveRows \ {s}
           /\ \A x \in Subs \ {s} : row'[x].plan = row[x].plan
<1>1. \A x \in Subs : row[x] \in RowRecord /\ [row[x] EXCEPT !.status = "CANCELED"] \in RowRecord
  BY DEF TypeOK, RowRecord, RowStatus, Live
<1>2. row' \in [Subs -> RowRecord] /\ row'[s] = r
  BY <1>1 DEF Rows
<1>3. \A x \in Subs \ {s} : row'[x] = IF r.status \in Live /\ x \in LiveRows THEN [row[x] EXCEPT !.status = "CANCELED"] ELSE row[x]
  BY DEF Rows
<1>4. \A x \in Subs \ {s} : row'[x].plan = row[x].plan
  BY <1>1, <1>3 DEF RowRecord
<1>5. \A x \in Subs \ {s} : row'[x].status = IF r.status \in Live /\ x \in LiveRows THEN "CANCELED" ELSE row[x].status
  BY <1>1, <1>3 DEF RowRecord
<1>6. r.status \in Live => LiveRows' = {s}
  BY <1>2, <1>5 DEF LiveRows, Live
<1>7. r.status \notin Live => LiveRows' = LiveRows \ {s}
  BY <1>2, <1>5 DEF LiveRows, Live
<1> QED BY <1>2, <1>4, <1>6, <1>7

\* Whatever a provider event makes of one row, the account settles with it.
LEMMA SettleStep ==
    ASSUME IInv, NEW s \in Subs, NEW r \in RowRecord, Settle(s, r)
    PROVE  /\ row' \in [Subs -> RowRecord]
           /\ grant' \in [live : BOOLEAN, plan : Plans]
           /\ user' \in [plan : Plans, source : {"none", "manual", "stripe"}, until : Nat \union {NoEnd}]
           /\ Rules'
<1> USE DEF IInv
<1>1. /\ row' \in [Subs -> RowRecord] /\ row'[s] = r
      /\ r.status \in Live => LiveRows' = {s}
      /\ r.status \notin Live => LiveRows' = LiveRows \ {s}
      /\ \A x \in Subs \ {s} : row'[x].plan = row[x].plan
  BY RowsAfter DEF Settle
<1>2. LiveRows \subseteq Subs /\ LiveRows' \subseteq Subs
  BY DEF LiveRows
<1>3. \A x \in Subs : row[x].plan \in Paid /\ row'[x].plan \in Paid
  BY <1>1 DEF TypeOK, RowRecord
<1>4. /\ grant \in [live : BOOLEAN, plan : Plans]
      /\ user \in [plan : Plans, source : {"none", "manual", "stripe"}, until : Nat \union {NoEnd}]
  BY DEF TypeOK
<1>5. OwnPlan \in Plans /\ Rank[OwnPlan] <= Rank[user.plan]
  BY OwnPlanRank
<1>6. grant'.plan = grant.plan /\ grant' \in [live : BOOLEAN, plan : Plans]
  BY <1>4 DEF Settle
<1>7. OneLivePaid'
  BY <1>1 DEF Rules, OneLivePaid
<1>8. CASE r.status \in Live /\ (user.source = "stripe" \/ Rank[r.plan] >= Rank[OwnPlan])
  <2>1. user' = [plan |-> r.plan, source |-> "stripe", until |-> NoEnd]
    BY <1>8 DEF Settle, Account
  <2>2. user' \in [plan : Plans, source : {"none", "manual", "stripe"}, until : Nat \union {NoEnd}]
    BY <2>1 DEF RowRecord, Plans
  <2>3. PlanIsBacked' /\ PaidNotUndercut' /\ Legacy'
    BY <1>1, <1>8, <2>1 DEF PlanIsBacked, PaidNotUndercut, Legacy
  <2> QED BY <1>1, <1>6, <1>7, <2>2, <2>3 DEF Rules
<1>9. CASE r.status \in Live /\ ~(user.source = "stripe" \/ Rank[r.plan] >= Rank[OwnPlan])
  <2>1. user' = user
    BY <1>9 DEF Settle, Account
  <2>2. Rank[r.plan] \in Nat /\ Rank[user.plan] \in Nat /\ Rank[OwnPlan] \in Nat /\ Rank[grant.plan] \in Nat
    BY <1>4, <1>5 DEF RowRecord, Plans, Paid, Rank
  <2>3. Rank[user.plan] > Rank[r.plan]
    BY <1>5, <1>9, <2>2
  <2>4. PaidNotUndercut'
    BY <1>1, <1>9, <2>1, <2>3 DEF PaidNotUndercut
  <2>5. user.source = "manual" => grant.plan = "FREE" \/ (grant'.live /\ grant.plan = user.plan)
    <3>1. grant.plan = user.plan => ~(Rank[grant.plan] <= Rank[r.plan])
      BY <2>2, <2>3
    <3> QED BY <3>1, <1>4 DEF Rules, PlanIsBacked, Settle
  <2>6. PlanIsBacked'
    BY <1>6, <1>9, <2>1, <2>5 DEF PlanIsBacked
  <2>7. Legacy'
    BY <1>6, <2>1 DEF Rules, Legacy
  <2> QED BY <1>1, <1>4, <1>6, <1>7, <2>1, <2>4, <2>6, <2>7 DEF Rules
<1>10. CASE r.status \notin Live /\ user.source = "stripe"
  <2>1. user' = FallBack(LiveRows \ {s})
    BY <1>10 DEF Settle, Account
  <2>2. grant' = grant
    BY <1>10 DEF Settle
  <2>3. CASE LiveRows \ {s} = {} /\ user' = [plan |-> "FREE", source |-> "none", until |-> NoEnd]
    BY <1>1, <1>4, <1>6, <1>7, <1>10, <2>3
    DEF Rules, PlanIsBacked, PaidNotUndercut, Legacy, Plans, NoEnd
  <2>4. CASE \E x \in LiveRows \ {s} : user' = [plan |-> row[x].plan, source |-> "stripe", until |-> NoEnd]
    <3>1. PICK x \in LiveRows \ {s} : user' = [plan |-> row[x].plan, source |-> "stripe", until |-> NoEnd]
      BY <2>4
    <3>2. x \in LiveRows' /\ row'[x].plan = row[x].plan /\ row[x].plan \in Paid
      BY <1>1, <1>2, <1>3, <1>10
    <3>3. PlanIsBacked' /\ PaidNotUndercut' /\ Legacy'
      BY <3>1, <3>2 DEF PlanIsBacked, PaidNotUndercut, Legacy
    <3>4. user' \in [plan : Plans, source : {"none", "manual", "stripe"}, until : Nat \union {NoEnd}]
      BY <3>1, <3>2 DEF Plans
    <3> QED BY <1>1, <1>6, <1>7, <3>3, <3>4 DEF Rules
  <2> QED BY FallBackBacked, <2>1, <2>3, <2>4
<1>11. CASE r.status \notin Live /\ user.source # "stripe"
  <2>1. user' = user /\ grant' = grant
    BY <1>11 DEF Settle, Account
  <2>2. \A x \in LiveRows' : x \in LiveRows /\ row'[x].plan = row[x].plan
    BY <1>1, <1>2, <1>11
  <2>3. PaidNotUndercut'
    BY <2>1, <2>2, <1>11 DEF Rules, PaidNotUndercut
  <2>4. PlanIsBacked' /\ Legacy'
    BY <2>1, <1>11 DEF Rules, PlanIsBacked, Legacy
  <2> QED BY <1>1, <1>4, <1>6, <1>7, <2>1, <2>3, <2>4 DEF Rules
<1> QED BY <1>8, <1>9, <1>10, <1>11

\* Each handler either leaves the account alone or settles one row.
LEMMA EventSettles ==
    ASSUME IInv, NEW e \in Deliverable, Deliver(e)
    PROVE  UNCHANGED local \/ \E r \in RowRecord : Settle(e.sub, r)
<1> USE DEF IInv
<1>0. e \in Event /\ e.sub \in Subs /\ row[e.sub] \in RowRecord
  BY DEF Deliverable, TypeOK, Event, RowRecord
<1>1. CASE CheckoutCompleted(e)
  <2> DEFINE r == [status |-> IF e.status = "active" THEN "ACTIVE"
                              ELSE IF row[e.sub].status # "none" THEN row[e.sub].status ELSE "INCOMPLETE",
                   plan |-> e.plan, at |-> e.at]
  <2>1. r \in RowRecord
    BY <1>0 DEF Event, RowRecord, RowStatus, Live
  <2>2. UNCHANGED local \/ Settle(e.sub, r)
    BY <1>1 DEF CheckoutCompleted, Ignore
  <2> QED BY <2>1, <2>2
<1>2. CASE SubscriptionChanged(e)
  <2> DEFINE r == [status |-> StatusOf[e.status], plan |-> e.plan, at |-> e.at]
  <2>1. r \in RowRecord
    BY <1>0 DEF Event, RowRecord, RowStatus, Live, StatusOf
  <2>2. UNCHANGED local \/ Settle(e.sub, r)
    BY <1>2 DEF SubscriptionChanged, Ignore
  <2> QED BY <2>1, <2>2
<1>3. CASE SubscriptionDeleted(e)
  <2> DEFINE r == [row[e.sub] EXCEPT !.status = "CANCELED", !.at = e.at]
  <2>1. r \in RowRecord
    BY <1>0 DEF Event, RowRecord, RowStatus
  <2>2. UNCHANGED local \/ Settle(e.sub, r)
    BY <1>3 DEF SubscriptionDeleted, Ignore, Unknown
  <2> QED BY <2>1, <2>2
<1>4. CASE PaymentFailed(e)
  <2> DEFINE r == [row[e.sub] EXCEPT !.at = e.at, !.status = IF @ \in Live THEN "PAST_DUE" ELSE @]
  <2>1. r \in RowRecord
    BY <1>0 DEF Event, RowRecord, RowStatus, Live
  <2>2. UNCHANGED local \/ Settle(e.sub, r)
    BY <1>4 DEF PaymentFailed, Ignore, Unknown
  <2> QED BY <2>1, <2>2
<1> QED BY <1>1, <1>2, <1>3, <1>4 DEF Deliver

\* Each handler ignores its event or settles the row with a well-formed record.
LEMMA EventStep ==
    ASSUME IInv, NEW e \in Deliverable, Deliver(e)
    PROVE  IInv'
<1> USE DEF IInv
<1>1. e \in Event /\ e.sub \in Subs /\ row[e.sub] \in RowRecord
  BY DEF Deliverable, TypeOK, Event, RowRecord
<1>2. /\ UNCHANGED <<now, prov, sent>>
      /\ processed' = processed \union {e}
  BY DEF Deliver, CheckoutCompleted, SubscriptionChanged, SubscriptionDeleted, PaymentFailed, Receive
<1>3. missed' \subseteq Subs
  BY <1>1 DEF Deliver, CheckoutCompleted, SubscriptionChanged, SubscriptionDeleted, PaymentFailed,
              Ignore, Unknown, TypeOK
<1>4. UNCHANGED local \/ \E r \in RowRecord : Settle(e.sub, r)
  BY EventSettles
<1>5. CASE UNCHANGED local
  <2>1. Rules'
    BY <1>5 DEF local, Rules, OneLivePaid, PlanIsBacked, PaidNotUndercut, Legacy, LiveRows
  <2> QED BY <1>2, <1>3, <1>5, <2>1 DEF local, TypeOK, Deliverable
<1>6. CASE \E r \in RowRecord : Settle(e.sub, r)
  <2>1. /\ row' \in [Subs -> RowRecord]
        /\ grant' \in [live : BOOLEAN, plan : Plans]
        /\ user' \in [plan : Plans, source : {"none", "manual", "stripe"}, until : Nat \union {NoEnd}]
        /\ Rules'
    BY <1>1, <1>6, SettleStep
  <2> QED BY <1>2, <1>3, <2>1 DEF TypeOK, Deliverable, RowRecord
<1> QED BY <1>4, <1>5, <1>6

\* The administrator grants only where nothing paid is live, and revokes onto what is.
LEMMA AdminStep ==
    ASSUME IInv, Admin
    PROVE  IInv'
<1> USE DEF IInv
<1>1. UNCHANGED <<now, prov, sent, processed, row, missed>> /\ LiveRows' = LiveRows
  BY DEF Admin, Grant, Redate, Revoke, LiveRows
<1>2. \A t \in (now..MaxTime) \union {NoEnd} : t \in Nat \union {NoEnd}
  BY SubscriptionsAssumption DEF TypeOK
<1>3. ASSUME NEW until \in (now..MaxTime) \union {NoEnd}, NEW plan \in Paid, Grant(plan, until)
      PROVE  IInv'
  <2>1. user' = [plan |-> plan, source |-> "manual", until |-> until] /\ grant' = [live |-> TRUE, plan |-> plan]
    BY <1>3 DEF Grant
  <2>2. TypeOK'
    BY <1>1, <1>2, <2>1 DEF TypeOK, Plans
  <2>3. Rules'
    BY <1>1, <1>3, <2>1 DEF Grant, Rules, OneLivePaid, PlanIsBacked, PaidNotUndercut, Legacy
  <2> QED BY <2>2, <2>3
<1>4. ASSUME NEW until \in (now..MaxTime) \union {NoEnd}, Redate(until)
      PROVE  IInv'
  <2>1. /\ user'.plan = user.plan /\ user'.source = "manual"
        /\ user' \in [plan : Plans, source : {"none", "manual", "stripe"}, until : Nat \union {NoEnd}]
        /\ grant' = grant /\ user.plan # "FREE"
        /\ user.source = "manual" \/ (user.source = "none" /\ LiveRows = {})
    BY <1>2, <1>4 DEF Redate, TypeOK
  <2>2. TypeOK'
    BY <1>1, <2>1 DEF TypeOK
  <2>3. OneLivePaid' /\ PlanIsBacked' /\ Legacy'
    BY <1>1, <2>1 DEF Rules, OneLivePaid, PlanIsBacked, Legacy
  <2>4. PaidNotUndercut'
    BY <1>1, <2>1 DEF Rules, PaidNotUndercut
  <2> QED BY <2>2, <2>3, <2>4 DEF Rules
<1>5. CASE Revoke
  <2>1. user' = FallBack(LiveRows) /\ grant' = [grant EXCEPT !.live = FALSE]
    BY <1>5 DEF Revoke
  <2>2. grant'.plan = grant.plan /\ grant' \in [live : BOOLEAN, plan : Plans]
    BY <2>1 DEF TypeOK
  <2>3. CASE LiveRows = {} /\ user' = [plan |-> "FREE", source |-> "none", until |-> NoEnd]
    BY <1>1, <2>2, <2>3 DEF TypeOK, Rules, OneLivePaid, PlanIsBacked, PaidNotUndercut, Legacy, Plans
  <2>4. CASE \E x \in LiveRows : user' = [plan |-> row[x].plan, source |-> "stripe", until |-> NoEnd]
    <3>1. PICK x \in LiveRows : user' = [plan |-> row[x].plan, source |-> "stripe", until |-> NoEnd]
      BY <2>4
    <3>2. row[x].plan \in Paid
      BY <3>1 DEF LiveRows, TypeOK
    <3>3. Rules'
      BY <1>1, <3>1 DEF Rules, OneLivePaid, PlanIsBacked, PaidNotUndercut, Legacy
    <3> QED BY <1>1, <2>2, <3>1, <3>2, <3>3 DEF TypeOK, Plans
  <2> QED BY FallBackBacked, <2>1, <2>3, <2>4
<1> QED BY <1>3, <1>4, <1>5 DEF Admin

Reported == {"incomplete", "active", "past_due", "paused", "canceled"}
Types == {"completed", "changed", "deleted", "failed"}

\* The statuses the provider reports are those the table translates.
LEMMA StatusReported == DOMAIN StatusOf = Reported
BY DEF StatusOf, Reported

\* What happens at the provider only changes what it has sent.
LEMMA ProviderStep ==
    ASSUME IInv, NEW s \in Subs, Provider(s)
    PROVE  IInv'
<1> USE DEF IInv
<1>1. UNCHANGED <<now, processed, local, missed>>
  BY DEF Provider, Checkout, Switch, Pay, Progress, Retry, End, Emit
<1>2. Rules'
  BY <1>1 DEF local, Rules, OneLivePaid, PlanIsBacked, PaidNotUndercut, Legacy, LiveRows
<1>3. prov[s] \in [status : ProvStatus, plan : Paid, n : Nat] /\ prov[s].plan \in Paid
  BY DEF TypeOK
<1>4. ASSUME NEW status \in Reported, NEW plan \in Paid, NEW types \in Seq(Types),
             Emit(s, status, plan, types)
      PROVE  TypeOK'
  <2>1. status \in ProvStatus
    BY DEF Reported, ProvStatus
  <2>2. prov' \in [Subs -> [status : ProvStatus, plan : Paid, n : Nat]]
    BY <1>3, <1>4, <2>1 DEF Emit, TypeOK
  <2>3. \A i \in 1..Len(types) :
          [type |-> types[i], sub |-> s, n |-> prov[s].n + i, status |-> status, plan |-> plan, at |-> now] \in Event
    BY <1>3, StatusReported DEF Event, TypeOK, Types
  <2>4. sent' \subseteq Event /\ processed \subseteq sent'
    BY <1>4, <2>3 DEF Emit, TypeOK
  <2> QED BY <1>1, <2>2, <2>4 DEF local, TypeOK
<1>5. ASSUME NEW plan \in Paid, Checkout(s, plan)
      PROVE  TypeOK'
  BY <1>1, <1>3, <1>5 DEF Checkout, local, TypeOK, ProvStatus
<1>6. /\ <<"changed">> \in Seq(Types) /\ <<"failed">> \in Seq(Types) /\ <<"deleted">> \in Seq(Types)
      /\ <<"completed", "changed">> \in Seq(Types) /\ <<"changed", "failed">> \in Seq(Types)
  BY DEF Types
<1>7. ASSUME NEW plan \in Paid, Switch(s, plan)
      PROVE  TypeOK'
  <2>1. prov[s].status \in Reported /\ Emit(s, prov[s].status, plan, <<"changed">>)
    BY <1>7 DEF Switch, Reported
  <2> QED BY <1>4, <1>6, <2>1
<1>8. CASE Pay(s)
  <2>1. \E status \in Reported : Emit(s, status, prov[s].plan, <<"completed", "changed">>)
    BY <1>8 DEF Pay, Reported
  <2> QED BY <1>2, <1>3, <1>4, <1>6, <2>1
<1>9. CASE Progress(s)
  <2>1. \E status \in Reported :
           \/ Emit(s, status, prov[s].plan, <<"changed", "failed">>)
           \/ Emit(s, status, prov[s].plan, <<"changed">>)
    BY <1>9 DEF Progress, Lifecycle, Reported
  <2> QED BY <1>2, <1>3, <1>4, <1>6, <2>1
<1>10. CASE Retry(s)
  <2>1. "past_due" \in Reported /\ Emit(s, "past_due", prov[s].plan, <<"failed">>)
    BY <1>10 DEF Retry, Reported
  <2> QED BY <1>2, <1>3, <1>4, <1>6, <2>1
<1>11. CASE End(s)
  <2>1. "canceled" \in Reported /\ Emit(s, "canceled", prov[s].plan, <<"deleted">>)
    BY <1>11 DEF End, Reported
  <2> QED BY <1>2, <1>3, <1>4, <1>6, <2>1
<1> QED BY <1>2, <1>5, <1>7, <1>8, <1>9, <1>10, <1>11 DEF Provider

-----------------------------------------------------------------------------
\* The inductive invariant holds in every reachable state.
THEOREM RulesHold == Spec => []IInv
<1>1. Init => IInv
  BY DEF Init, IInv, TypeOK, Rules, OneLivePaid, PlanIsBacked, PaidNotUndercut, Legacy, LiveRows, Live,
         RowStatus, ProvStatus, Plans, Paid, Never, NoEnd
<1>2. IInv /\ [Next]_vars => IInv'
  <2> SUFFICES ASSUME IInv, [Next]_vars PROVE IInv'
    OBVIOUS
  <2>1. CASE \E e \in Deliverable : Deliver(e)
    BY <2>1, EventStep
  <2>2. CASE Admin
    BY <2>2, AdminStep
  <2>3. CASE \E s \in Subs : Provider(s)
    BY <2>3, ProviderStep
  <2>4. CASE Tick
    BY <2>4 DEF Tick, local, IInv, TypeOK, Rules, OneLivePaid, PlanIsBacked, PaidNotUndercut, Legacy, LiveRows
  <2>5. CASE UNCHANGED vars
    BY <2>5 DEF vars, local, IInv, TypeOK, Rules, OneLivePaid, PlanIsBacked, PaidNotUndercut, Legacy, LiveRows
  <2> QED BY <2>1, <2>2, <2>3, <2>4, <2>5 DEF Next
<1> QED BY <1>1, <1>2, PTL DEF Spec

\* However many subscriptions an account collects, at most one of them is live here.
THEOREM OneLiveSubscription == Spec => []OneLivePaid
<1>1. IInv => OneLivePaid
  BY DEF IInv, Rules
<1> QED BY <1>1, RulesHold, PTL

\* The source of the account's plan names a live row, or a live grant, of that plan.
THEOREM PlanBacked == Spec => []PlanIsBacked
<1>1. IInv => PlanIsBacked
  BY DEF IInv, Rules
<1> QED BY <1>1, RulesHold, PTL

\* No grant, re-date or revocation takes the account below the plan it pays for.
THEOREM NotUndercut == Spec => []PaidNotUndercut
<1>1. IInv => PaidNotUndercut
  BY DEF IInv, Rules
<1> QED BY <1>1, RulesHold, PTL

\* Plan, grant and rows agree after any events, grants, re-dates and revocations.
THEOREM PlanIsSound == Spec => []PlanSound
<1>1. PlanIsBacked /\ PaidNotUndercut => PlanSound
  BY DEF PlanSound
<1> QED BY <1>1, PlanBacked, NotUndercut, PTL

-----------------------------------------------------------------------------
(* Events in any order *)

HeardOf(s) == {e \in processed : e.sub = s}

\* last is of a later second than the other events in E.
Newest(E, last) == last \in E /\ \A e \in E \ {last} : e.at < last.at

\* The newest event of a subscription tells what the provider has.
ToldTruly ==
    /\ \A e \in sent : /\ e.at <= now
                       /\ prov[e.sub].status \notin {"unused", "open"}
                       /\ e.type = "deleted" => e.status = "canceled"
    /\ \A s \in Subs, last \in sent :
          Newest(EventsOf(s), last) => last.status = prov[s].status /\ last.plan = prov[s].plan

\* provider_event_at is the time of the newest event heard, unless one was dropped.
Dated ==
    \A s \in Subs :
        /\ row[s].status = "none" => row[s].at = Never
        /\ row[s].at # Never => \E e \in HeardOf(s) : e.at = row[s].at
        /\ s \notin missed => \A e \in HeardOf(s) : /\ row[s].status # "none" /\ row[s].at # Never
                                                   /\ e.at <= row[s].at

\* A row is what the newest event heard says, or was retired.
FollowsNewest ==
    \A s \in Subs \ missed, last \in processed :
        Newest(HeardOf(s), last) /\ last.type \in {"changed", "deleted"} =>
            \/ /\ row[s].status = StatusOf[last.status]
               /\ last.type = "changed" => row[s].plan = last.plan
            \/ row[s].status = "CANCELED" /\ \E t \in Subs \ {s} : row[t].status # "none"

EventsInv == IInv /\ ToldTruly /\ Dated /\ FollowsNewest

\* An event is dropped, stale, or becomes the last word on its row.
LEMMA Outcome ==
    ASSUME EventsInv, NEW e \in Deliverable, Deliver(e)
    PROVE  \/ UNCHANGED row /\ row[e.sub].status = "none" /\ missed' = missed \union {e.sub}
           \/ UNCHANGED <<row, missed>> /\ Stale(e)
           \/ /\ UNCHANGED missed /\ ~ Stale(e)
              /\ \E r \in RowRecord :
                    /\ row' = Rows(e.sub, r) /\ r.at = e.at /\ r.status # "none"
                    /\ e.type \in {"changed", "deleted"} => r.status = StatusOf[e.status]
                    /\ e.type = "changed" => r.plan = e.plan
<1>1. e \in Event /\ e \in sent /\ e.sub \in Subs /\ row[e.sub] \in RowRecord
  BY DEF Deliverable, EventsInv, IInv, TypeOK, Event, RowRecord
<1>2. CASE CheckoutCompleted(e)
  <2> DEFINE r == [status |-> IF e.status = "active" THEN "ACTIVE"
                              ELSE IF row[e.sub].status # "none" THEN row[e.sub].status ELSE "INCOMPLETE",
                   plan |-> e.plan, at |-> e.at]
  <2>1. r \in RowRecord /\ r.at = e.at /\ r.status # "none"
    BY <1>1 DEF Event, RowRecord, RowStatus, Live
  <2>2. Stale(e) => row[e.sub].status # "none"
    BY <1>1 DEF Stale, EventsInv, Dated
  <2>3. e.type = "completed"
    BY <1>2 DEF CheckoutCompleted, Receive
  <2> QED BY <1>2, <2>1, <2>2, <2>3 DEF CheckoutCompleted, Ignore, local, Settle
<1>3. CASE SubscriptionChanged(e)
  <2> DEFINE r == [status |-> StatusOf[e.status], plan |-> e.plan, at |-> e.at]
  <2>1. r \in RowRecord /\ r.at = e.at /\ r.status # "none" /\ r.status = StatusOf[e.status] /\ r.plan = e.plan
    BY <1>1 DEF Event, RowRecord, RowStatus, Live, StatusOf
  <2> QED BY <1>3, <2>1 DEF SubscriptionChanged, Ignore, local, Settle
<1>4. CASE SubscriptionDeleted(e)
  <2> DEFINE r == [row[e.sub] EXCEPT !.status = "CANCELED", !.at = e.at]
  <2>1. e.type = "deleted" /\ e.status = "canceled"
    BY <1>1, <1>4 DEF SubscriptionDeleted, Receive, EventsInv, ToldTruly
  <2>2. r \in RowRecord /\ r.at = e.at /\ r.status = "CANCELED"
    BY <1>1 DEF Event, RowRecord, RowStatus
  <2>3. StatusOf[e.status] = "CANCELED"
    BY <2>1 DEF StatusOf
  <2> QED BY <1>4, <2>3, <2>1, <2>2 DEF SubscriptionDeleted, Ignore, Unknown, local, Settle
<1>5. CASE PaymentFailed(e)
  <2> DEFINE r == [row[e.sub] EXCEPT !.at = e.at, !.status = IF @ \in Live THEN "PAST_DUE" ELSE @]
  <2>1. e.type = "failed"
    BY <1>5 DEF PaymentFailed, Receive
  <2>2. r \in RowRecord /\ r.at = e.at /\ (row[e.sub].status # "none" => r.status # "none")
    BY <1>1 DEF Event, RowRecord, RowStatus, Live
  <2> QED BY <1>5, <2>1, <2>2 DEF PaymentFailed, Ignore, Unknown, local, Settle
<1> QED BY <1>2, <1>3, <1>4, <1>5 DEF Deliver

\* Whatever an event meets, the rows still follow the newest ones.
LEMMA HearingStep ==
    ASSUME EventsInv, NEW e \in Deliverable, Deliver(e)
    PROVE  Dated' /\ FollowsNewest'
<1> DEFINE s == e.sub
<1>1. /\ e \in Event /\ s \in Subs /\ e \notin processed /\ e.at \in Nat
      /\ processed' = processed \union {e}
  BY DEF Deliverable, EventsInv, IInv, TypeOK, Event, Deliver, CheckoutCompleted, SubscriptionChanged,
         SubscriptionDeleted, PaymentFailed, Receive
<1>2. /\ HeardOf(s)' = HeardOf(s) \union {e}
      /\ \A x \in Subs \ {s} : HeardOf(x)' = HeardOf(x)
  BY <1>1 DEF HeardOf
<1>3. /\ row \in [Subs -> RowRecord]
      /\ \A f \in processed : f.at \in Nat /\ f \in Event
      /\ \A x \in Subs : HeardOf(x) \subseteq processed
  BY DEF EventsInv, IInv, TypeOK, RowRecord, Event, HeardOf
<1>4. CASE UNCHANGED row /\ row[s].status = "none" /\ missed' = missed \union {s}
  <2>1. Dated'
    BY <1>1, <1>2, <1>4 DEF EventsInv, Dated
  <2>2. FollowsNewest'
    BY <1>1, <1>2, <1>4 DEF EventsInv, FollowsNewest, Newest, HeardOf
  <2> QED BY <2>1, <2>2
<1>5. CASE UNCHANGED <<row, missed>> /\ Stale(e)
  <2>1. row[s].at # Never /\ e.at < row[s].at /\ row[s].status # "none" /\ row[s].at \in Nat
    BY <1>1, <1>3, <1>5 DEF Stale, EventsInv, Dated, RowRecord, Never
  <2>2. Dated'
    BY <1>1, <1>2, <1>5, <2>1 DEF EventsInv, Dated
  <2>3. PICK g \in HeardOf(s) : g.at = row[s].at
    BY <1>1, <2>1 DEF EventsInv, Dated
  <2>4. ASSUME NEW last, Newest(HeardOf(s)', last) PROVE last # e /\ Newest(HeardOf(s), last)
    BY <1>1, <1>2, <1>3, <2>1, <2>3, <2>4 DEF Newest
  <2>5. FollowsNewest'
    BY <1>1, <1>2, <1>5, <2>4 DEF EventsInv, FollowsNewest, Newest, HeardOf
  <2> QED BY <2>2, <2>5
<1>6. CASE /\ UNCHANGED missed /\ ~ Stale(e)
           /\ \E r \in RowRecord :
                 /\ row' = Rows(s, r) /\ r.at = e.at /\ r.status # "none"
                 /\ e.type \in {"changed", "deleted"} => r.status = StatusOf[e.status]
                 /\ e.type = "changed" => r.plan = e.plan
  <2>1. PICK r \in RowRecord :
                 /\ row' = Rows(s, r) /\ r.at = e.at /\ r.status # "none"
                 /\ e.type \in {"changed", "deleted"} => r.status = StatusOf[e.status]
                 /\ e.type = "changed" => r.plan = e.plan
    BY <1>6
  <2>2. row'[s] = r
    BY <1>1, <2>1 DEF Rows
  <2>3. ASSUME NEW x \in Subs \ {s}
        PROVE  /\ row'[x].at = row[x].at /\ row'[x].plan = row[x].plan
               /\ row'[x].status = row[x].status \/ (row'[x].status = "CANCELED" /\ row[x].status # "none")
    <3>1. row'[x] = row[x] \/ (row'[x] = [row[x] EXCEPT !.status = "CANCELED"] /\ row[x].status \in Live)
      BY <2>1 DEF Rows, LiveRows
    <3> QED BY <1>3, <3>1 DEF RowRecord, Live
  <2>4. \A f \in HeardOf(s) : s \notin missed => f.at <= e.at
    BY <1>1, <1>3, <1>6 DEF Stale, EventsInv, Dated, RowRecord
  <2>5. Dated'
    <3>1. ASSUME NEW x \in Subs \ {s}
          PROVE  /\ row'[x].status = "none" => row'[x].at = Never
                 /\ row'[x].at # Never => \E f \in HeardOf(x)' : f.at = row'[x].at
                 /\ x \notin missed' => \A f \in HeardOf(x)' : /\ row'[x].status # "none" /\ row'[x].at # Never
                                                             /\ f.at <= row'[x].at
      BY <1>2, <1>6, <2>3 DEF EventsInv, Dated
    <3>2. /\ row'[s].status # "none" /\ row'[s].at = e.at /\ e.at # Never /\ e \in HeardOf(s)'
          /\ s \notin missed' => \A f \in HeardOf(s)' : f.at <= row'[s].at
      BY <1>1, <1>2, <1>6, <2>1, <2>2, <2>4 DEF Never
    <3> QED BY <3>1, <3>2 DEF Dated
  <2>6. ASSUME NEW x \in Subs \ missed', NEW last \in processed', Newest(HeardOf(x)', last),
               last.type \in {"changed", "deleted"}
        PROVE  \/ /\ row'[x].status = StatusOf[last.status]
                  /\ last.type = "changed" => row'[x].plan = last.plan
               \/ row'[x].status = "CANCELED" /\ \E t \in Subs \ {x} : row'[t].status # "none"
    <3>1. CASE x = s
      <4>1. last = e
        BY <1>1, <1>2, <1>3, <1>6, <2>4, <2>6, <3>1 DEF Newest
      <4> QED BY <2>1, <2>2, <2>6, <3>1, <4>1
    <3>2. CASE x # s
      <4>1. Newest(HeardOf(x), last) /\ last \in processed
        BY <1>2, <1>3, <2>6, <3>2 DEF Newest
      <4>2. \/ /\ row[x].status = StatusOf[last.status]
               /\ last.type = "changed" => row[x].plan = last.plan
            \/ row[x].status = "CANCELED" /\ \E t \in Subs \ {x} : row[t].status # "none"
        BY <1>6, <2>6, <4>1 DEF EventsInv, FollowsNewest
      <4>3. row'[s].status # "none" /\ s \in Subs \ {x}
        BY <1>1, <2>1, <2>2, <3>2
      <4> QED BY <2>3, <3>2, <4>2, <4>3
    <3> QED BY <3>1, <3>2
  <2> QED BY <2>5, <2>6 DEF FollowsNewest
<1> QED BY <1>4, <1>5, <1>6, Outcome

\* What the provider sends is what it has become.
LEMMA TellingStep ==
    ASSUME EventsInv, NEW s \in Subs, Provider(s)
    PROVE  ToldTruly'
<1>1. /\ prov \in [Subs -> [status : ProvStatus, plan : Paid, n : Nat]] /\ now \in Nat /\ sent \subseteq Event
      /\ now' = now
  BY DEF EventsInv, IInv, TypeOK, Provider, Checkout, Switch, Pay, Progress, Retry, End, Emit
<1>2. ASSUME NEW status, NEW plan, NEW types, Emit(s, status, plan, types), status \notin {"unused", "open"},
             1 \in 1 .. Len(types), \A i \in 1 .. Len(types) : types[i] = "deleted" => status = "canceled"
      PROVE  ToldTruly'
  <2> DEFINE new == {[type |-> types[i], sub |-> s, n |-> prov[s].n + i, status |-> status,
                      plan |-> plan, at |-> now] : i \in 1..Len(types)}
  <2>1. /\ sent' = sent \union new
        /\ prov'[s].status = status /\ prov'[s].plan = plan
        /\ \A x \in Subs \ {s} : prov'[x] = prov[x]
    BY <1>1, <1>2 DEF Emit
  <2>6. [type |-> types[1], sub |-> s, n |-> prov[s].n + 1, status |-> status, plan |-> plan, at |-> now] \in new
    BY <1>2
  <2>2. /\ new # {}
        /\ \A e \in new : /\ e.sub = s /\ e.status = status /\ e.plan = plan /\ e.at = now
                          /\ e.type = "deleted" => status = "canceled"
    <3>1. new # {}
      BY <2>6
    <3>2. ASSUME NEW i \in 1 .. Len(types),
                 NEW e, e = [type |-> types[i], sub |-> s, n |-> prov[s].n + i, status |-> status, plan |-> plan, at |-> now]
          PROVE  /\ e.sub = s /\ e.status = status /\ e.plan = plan /\ e.at = now
                 /\ e.type = "deleted" => status = "canceled"
      BY <1>2, <3>2
    <3> QED BY <3>1, <3>2
  <2> HIDE DEF new
  <2>3. \A e \in sent : e.sub \in Subs /\ e.at \in Nat /\ e.at <= now
    BY <1>1 DEF EventsInv, ToldTruly, Event
  <2>4. \A e \in sent' : /\ e.at <= now'
                         /\ prov'[e.sub].status \notin {"unused", "open"}
                         /\ e.type = "deleted" => e.status = "canceled"
    BY <1>1, <1>2, <2>1, <2>2, <2>3 DEF EventsInv, ToldTruly
  <2>5. ASSUME NEW x \in Subs, NEW last \in sent', Newest(EventsOf(x)', last)
        PROVE  last.status = prov'[x].status /\ last.plan = prov'[x].plan
    <3>1. CASE x = s
      <4>1. PICK e \in new : TRUE
        BY <2>2
      <4>2. e \in EventsOf(s)' /\ e.at = now
        BY <2>1, <2>2 DEF EventsOf
      <4>3. last \in new
        BY <1>1, <2>1, <2>3, <2>5, <3>1, <4>2 DEF Newest
      <4> QED BY <2>1, <2>2, <3>1, <4>3
    <3>2. CASE x # s
      <4>1. EventsOf(x)' = EventsOf(x)
        BY <2>1, <2>2, <3>2 DEF EventsOf
      <4>2. last \in sent /\ Newest(EventsOf(x), last)
        BY <2>5, <4>1 DEF Newest, EventsOf
      <4> QED BY <2>1, <3>2, <4>2 DEF EventsInv, ToldTruly
    <3> QED BY <3>1, <3>2
  <2> QED BY <2>4, <2>5 DEF ToldTruly
<1>3. ASSUME NEW plan \in Paid, Checkout(s, plan) PROVE ToldTruly'
  <2>1. /\ sent' = sent /\ prov[s].status = "unused" /\ \A x \in Subs \ {s} : prov'[x] = prov[x]
    BY <1>1, <1>3 DEF Checkout
  <2>2. EventsOf(s) = {} /\ \A e \in sent : e.sub \in Subs \ {s}
    BY <1>1, <2>1 DEF EventsInv, ToldTruly, EventsOf, Event
  <2>3. \A x \in Subs : EventsOf(x)' = EventsOf(x)
    BY <2>1 DEF EventsOf
  <2> QED BY <1>1, <2>1, <2>2, <2>3 DEF EventsInv, ToldTruly, Newest
<1>4. ASSUME NEW plan \in Paid, Switch(s, plan) PROVE ToldTruly'
  <2>1. Emit(s, prov[s].status, plan, <<"changed">>) /\ prov[s].status \notin {"unused", "open"}
    BY <1>4 DEF Switch
  <2> QED BY <1>2, <2>1
<1>5. CASE Pay(s)
  <2> DEFINE types == <<"completed", "changed">>
  <2>1. PICK status \in {"active", "incomplete"} : Emit(s, status, prov[s].plan, types)
    BY <1>5, Zenon DEF Pay
  <2>2. /\ status \notin {"unused", "open"} /\ 1 \in 1 .. Len(types)
        /\ \A i \in 1 .. Len(types) : types[i] = "deleted" => status = "canceled"
    BY <2>1
  <2> HIDE DEF types
  <2> QED BY <1>2, <2>1, <2>2
<1>6. CASE Progress(s)
  <2>1. PICK status \in {"active", "past_due", "paused"} :
           \/ Emit(s, status, prov[s].plan, <<"changed", "failed">>)
           \/ Emit(s, status, prov[s].plan, <<"changed">>)
    BY <1>6 DEF Progress, Lifecycle
  <2>2. CASE Emit(s, status, prov[s].plan, <<"changed", "failed">>)
    BY <1>2, <2>1, <2>2
  <2>3. CASE Emit(s, status, prov[s].plan, <<"changed">>)
    BY <1>2, <2>1, <2>3
  <2> QED BY <2>1, <2>2, <2>3
<1>7. CASE Retry(s)
  <2>1. Emit(s, "past_due", prov[s].plan, <<"failed">>)
    BY <1>7 DEF Retry
  <2> QED BY <1>2, <2>1
<1>8. CASE End(s)
  <2> DEFINE types == <<"deleted">>
             status == "canceled"
  <2>1. Emit(s, status, prov[s].plan, types)
    BY <1>8 DEF End
  <2>2. /\ status \notin {"unused", "open"} /\ 1 \in 1 .. Len(types)
        /\ \A i \in 1 .. Len(types) : types[i] = "deleted" => status = "canceled"
    OBVIOUS
  <2> HIDE DEF types, status
  <2> QED BY <1>2, <2>1, <2>2
<1> QED BY <1>3, <1>4, <1>5, <1>6, <1>7, <1>8 DEF Provider

LEMMA EventsHold == Spec => []EventsInv
<1>1. Init => EventsInv
  <2> SUFFICES ASSUME Init PROVE EventsInv
    OBVIOUS
  <2>1. IInv
    BY DEF Init, IInv, TypeOK, Rules, OneLivePaid, PlanIsBacked, PaidNotUndercut, Legacy, LiveRows, Live,
           RowStatus, ProvStatus, Plans, Paid, Never, NoEnd
  <2> QED BY <2>1 DEF Init, EventsInv, ToldTruly, Dated, FollowsNewest, HeardOf
<1>2. EventsInv /\ IInv' /\ [Next]_vars => EventsInv'
  <2> SUFFICES ASSUME EventsInv, IInv', [Next]_vars PROVE EventsInv'
    OBVIOUS
  <2>1. ASSUME NEW e \in Deliverable, Deliver(e) PROVE EventsInv'
    <3>1. UNCHANGED <<now, prov, sent>>
      BY <2>1 DEF Deliver, CheckoutCompleted, SubscriptionChanged, SubscriptionDeleted, PaymentFailed, Receive
    <3>2. ToldTruly'
      BY <3>1 DEF EventsInv, ToldTruly, EventsOf
    <3> QED BY <2>1, <3>2, HearingStep DEF EventsInv
  <2>2. ASSUME NEW s \in Subs, Provider(s) PROVE EventsInv'
    <3>1. UNCHANGED <<processed, row, missed>>
      BY <2>2 DEF Provider, Checkout, Switch, Pay, Progress, Retry, End, Emit, local
    <3>2. Dated' /\ FollowsNewest'
      BY <3>1 DEF EventsInv, Dated, FollowsNewest, HeardOf
    <3> QED BY <2>2, <3>2, TellingStep DEF EventsInv
  <2>3. CASE Admin \/ Tick \/ UNCHANGED vars
    <3>1. UNCHANGED <<prov, sent, processed, row, missed>> /\ now' \in {now, now + 1}
      BY <2>3 DEF Admin, Grant, Redate, Revoke, Tick, vars, local
    <3>2. Dated' /\ FollowsNewest'
      BY <3>1 DEF EventsInv, Dated, FollowsNewest, HeardOf
    <3>3. now \in Nat /\ \A e \in sent : e.at \in Nat
      BY DEF EventsInv, IInv, TypeOK, Event
    <3>4. ToldTruly'
      BY <3>1, <3>3 DEF EventsInv, ToldTruly, EventsOf
    <3> QED BY <3>2, <3>4 DEF EventsInv
  <2> QED BY <2>1, <2>2, <2>3 DEF Next
<1>3. Spec => []IInv
  BY RulesHold
<1> QED BY <1>1, <1>2, <1>3, PTL DEF Spec

\* In whatever order the events of a subscription come, and however often, the row ends as
\* the provider has it or was retired by another (apply_event, _stale, _retire_others).
THEOREM RowsFollowTheProvider == Spec => []ProviderAgrees
<1>1. EventsInv => ProviderAgrees
  <2> SUFFICES ASSUME EventsInv, NEW s \in Subs, NEW last \in EventsOf(s),
                      EventsOf(s) \subseteq processed,
                      \A e \in EventsOf(s) \ {last} : e.at < last.at,
                      last.type \in {"changed", "deleted"},
                      s \notin missed
               PROVE  \/ /\ row[s].status = StatusOf[prov[s].status]
                         /\ last.type = "changed" => row[s].plan = prov[s].plan
                      \/ row[s].status = "CANCELED" /\ \E t \in Subs \ {s} : row[t].status # "none"
    BY DEF ProviderAgrees
  <2>1. HeardOf(s) = EventsOf(s) /\ last \in sent /\ last \in processed
    BY DEF HeardOf, EventsOf, EventsInv, IInv, TypeOK
  <2>2. Newest(EventsOf(s), last)
    BY DEF Newest
  <2>3. last.status = prov[s].status /\ last.plan = prov[s].plan
    BY <2>1, <2>2 DEF EventsInv, ToldTruly
  <2>4. \/ /\ row[s].status = StatusOf[last.status]
           /\ last.type = "changed" => row[s].plan = last.plan
        \/ row[s].status = "CANCELED" /\ \E t \in Subs \ {s} : row[t].status # "none"
    BY <2>1, <2>2 DEF EventsInv, FollowsNewest
  <2> QED BY <2>3, <2>4
<1> QED BY <1>1, EventsHold, PTL

-----------------------------------------------------------------------------
(* Grants in force *)

LiveGrantIsPaid == grant.live => grant.plan \in Paid

\* Events only end a grant, and grants are of paid plans.
LEMMA GrantsArePaid == Spec => []LiveGrantIsPaid
<1>1. Init => LiveGrantIsPaid
  BY DEF Init, LiveGrantIsPaid
<1>2. LiveGrantIsPaid /\ IInv /\ IInv' /\ [Next]_vars => LiveGrantIsPaid'
  <2> SUFFICES ASSUME LiveGrantIsPaid, IInv, [Next]_vars PROVE LiveGrantIsPaid'
    OBVIOUS
  <2>1. grant \in [live : BOOLEAN, plan : Plans]
    BY DEF IInv, TypeOK
  <2>2. ASSUME NEW e \in Deliverable, Deliver(e) PROVE LiveGrantIsPaid'
    <3>1. grant' \in {grant, [grant EXCEPT !.live = FALSE]}
      BY <2>2 DEF Deliver, CheckoutCompleted, SubscriptionChanged, SubscriptionDeleted, PaymentFailed,
                  Ignore, Unknown, local, Settle
    <3> QED BY <2>1, <3>1 DEF LiveGrantIsPaid
  <2>3. CASE Admin
    <3>1. grant' \in {grant, [grant EXCEPT !.live = FALSE]} \/ \E plan \in Paid : grant' = [live |-> TRUE, plan |-> plan]
      BY <2>3 DEF Admin, Grant, Redate, Revoke
    <3> QED BY <2>1, <3>1 DEF LiveGrantIsPaid
  <2>4. ASSUME NEW s \in Subs, Provider(s) PROVE LiveGrantIsPaid'
    BY <2>4 DEF Provider, Checkout, Switch, Pay, Progress, Retry, End, Emit, local, LiveGrantIsPaid
  <2>5. CASE Tick \/ UNCHANGED vars
    BY <2>5 DEF Tick, vars, local, LiveGrantIsPaid
  <2> QED BY <2>2, <2>3, <2>4, <2>5 DEF Next
<1> QED BY <1>1, <1>2, RulesHold, PTL DEF Spec

\* A provider's event leaves a grant of a higher plan that has not run out as it is: the
\* account does not move and the grant is not retired (_apply_to_user, _retire_others).
THEOREM HigherGrantsStand == Spec => HigherGrantKept
<1> DEFINE Before == user.source = "manual" /\ (user.until = NoEnd \/ now <= user.until)
           Higher == \A s \in Subs : row'[s].status \in Live => Rank[row'[s].plan] < Rank[user.plan]
           Kept == processed' # processed /\ Before /\ Higher => user' = user /\ (grant.live => grant'.live)
<1>1. IInv /\ LiveGrantIsPaid /\ [Next]_vars => [Kept]_vars
  <2> SUFFICES ASSUME IInv, LiveGrantIsPaid, Next, processed' # processed, Before, Higher
               PROVE  user' = user /\ (grant.live => grant'.live)
    OBVIOUS
  <2>1. PICK e \in Deliverable : Deliver(e)
    BY DEF Next, Admin, Grant, Redate, Revoke, Provider, Checkout, Switch, Pay, Progress, Retry, End, Emit, Tick
  <2>2. e.sub \in Subs /\ row[e.sub] \in RowRecord /\ e \in Event
    BY DEF Deliverable, IInv, TypeOK, Event, RowRecord
  <2>3. /\ grant \in [live : BOOLEAN, plan : Plans]
        /\ user \in [plan : Plans, source : {"none", "manual", "stripe"}, until : Nat \union {NoEnd}]
        /\ now \in Nat
    BY DEF IInv, TypeOK
  <2>4. OwnPlan = user.plan
    BY <2>3 DEF OwnPlan
  <2>5. CASE UNCHANGED local
    BY <2>5 DEF local
  <2>6. ASSUME NEW r \in RowRecord, Settle(e.sub, r)
        PROVE  user' = user /\ (grant.live => grant'.live)
    <3>1. row'[e.sub] = r /\ r.plan \in Paid
      BY <2>2, <2>6 DEF Settle, Rows, RowRecord
    <3>2. r.status \in Live => Rank[r.plan] < Rank[user.plan]
      BY <2>2, <3>1
    <3>3. user' = user
      BY <2>3, <2>4, <2>6, <3>1, <3>2 DEF Settle, Account, Plans, Paid, Rank
    <3>4. grant.live => grant.plan = user.plan
      BY DEF IInv, Rules, PlanIsBacked, LiveGrantIsPaid, Paid
    <3>5. grant.live => grant' = grant
      BY <2>3, <2>6, <3>1, <3>2, <3>4 DEF Settle, Plans, Paid, Rank
    <3> QED BY <3>3, <3>5
  <2> QED BY <2>5, <2>6, <2>1, EventSettles
<1> QED BY <1>1, RulesHold, GrantsArePaid, PTL DEF Spec, HigherGrantKept

=============================================================================
