---------------------------- MODULE WebhookOutbox ----------------------------
(***************************************************************************)
(* The durable outbox of services/webhooks.py: outgoing events are rows    *)
(* that scheduler workers claim with a compare-and-set, send outside any   *)
(* transaction, and settle only while they still hold the lease.  Workers  *)
(* crash, answers get lost or come after the lease ran out, owners pause   *)
(* an endpoint or ask for a failed event again (api/routes/webhooks.py).   *)
(*                                                                         *)
(* Time is a counter.  Comparisons with it are those of the code; only the *)
(* lengths are abstract: LeaseTime for the three minutes, Backoff for      *)
(* RETRY_SECONDS.                                                          *)
(***************************************************************************)
EXTENDS Integers, FiniteSets

CONSTANTS Messages,    \* row ids of outgoing events (numbers: the batch is ordered by them)
          Endpoints,   \* the endpoints of one account
          EndpointOf,  \* the endpoint of each event
          Workers,     \* processes that run dispatch()
          NoWorker,    \* the null lease token
          NoMessage,   \* a worker that sends nothing
          MaxAttempts, \* MAX_ATTEMPTS
          Backoff,     \* RETRY_SECONDS: pause after the n-th recorded attempt
          LeaseTime,   \* length of a lease
          BatchLimit,  \* events one dispatch() takes
          TimelySend,  \* TRUE: a live worker settles before its lease ends (10 s socket timeout, 3 min lease)
          MaxTime,     \* bound: last instant of the clock
          MaxRetries,  \* bound: manual retries of one event
          MaxCrashes   \* bound: crashes of workers

ASSUME OutboxAssumption ==
    /\ Messages \subseteq Nat
    /\ EndpointOf \in [Messages -> Endpoints]
    /\ NoWorker \notin Workers
    /\ NoMessage \notin Messages
    /\ MaxAttempts \in Nat \ {0}
    /\ Backoff \in [1 .. MaxAttempts - 1 -> Nat]
    /\ LeaseTime \in Nat \ {0}
    /\ BatchLimit \in Nat \ {0}
    /\ TimelySend \in BOOLEAN
    /\ MaxTime \in Nat /\ MaxRetries \in Nat /\ MaxCrashes \in Nat

VARIABLES
    now,         \* the database clock
    enabled,     \* enabled[e]: the endpoint is not paused
    active,      \* the owner's account is active
    status,      \* status[m]: "absent" before the event is queued, else WebhookStatus
    attempts,    \* attempts[m]: recorded attempts
    nextAttempt, \* nextAttempt[m]: earliest time of the next one
    holder,      \* holder[m]: whose lease_token the row carries
    leaseUntil,  \* leaseUntil[m]: end of that lease
    phase,       \* phase[w]: where worker w is in dispatch()
    instant,     \* instant[w]: the clock when its batch began
    batch,       \* batch[w]: selected events it has not reached yet
    current,     \* current[w]: the event it sends
    answer,      \* answer[w]: what came back
    \* history, not state of the program
    claimEnd,    \* claimEnd[w]: end of the lease worker w took for current[w]
    taken,       \* taken[m]: the receiver processed the event at least once
    retries,     \* retries[m]: manual retries so far
    crashes      \* crashes so far

row == <<status, attempts, nextAttempt, holder, leaseUntil>>
worker == <<phase, instant, batch, current, answer, claimEnd>>
account == <<enabled, active>>
vars == <<now, enabled, active, status, attempts, nextAttempt, holder, leaseUntil,
          phase, instant, batch, current, answer, claimEnd, taken, retries, crashes>>

Statuses == {"absent", "PENDING", "DELIVERING", "DELIVERED", "FAILED"}

\* "ok" is a 2xx; "retryable" a 5xx, 408, 429 or a transport error; "refused"
\* any other status; "blocked" a target the transport does not allow.
Answers == {"ok", "retryable", "refused", "blocked"}

TypeOK ==
    /\ now \in Nat
    /\ enabled \in [Endpoints -> BOOLEAN]
    /\ active \in BOOLEAN
    /\ status \in [Messages -> Statuses]
    /\ attempts \in [Messages -> Nat]
    /\ nextAttempt \in [Messages -> Nat]
    /\ holder \in [Messages -> Workers \union {NoWorker}]
    /\ leaseUntil \in [Messages -> Nat]
    /\ phase \in [Workers -> {"idle", "batch", "sending", "answered"}]
    /\ instant \in [Workers -> Nat]
    /\ batch \in [Workers -> SUBSET Messages]
    /\ current \in [Workers -> Messages \union {NoMessage}]
    /\ answer \in [Workers -> Answers]
    /\ claimEnd \in [Workers -> Nat]
    /\ taken \in [Messages -> BOOLEAN]
    /\ retries \in [Messages -> Nat]
    /\ crashes \in Nat

Init ==
    /\ now = 0
    /\ enabled = [e \in Endpoints |-> TRUE]
    /\ active = TRUE
    /\ status = [m \in Messages |-> "absent"]
    /\ attempts = [m \in Messages |-> 0]
    /\ nextAttempt = [m \in Messages |-> 0]
    /\ holder = [m \in Messages |-> NoWorker]
    /\ leaseUntil = [m \in Messages |-> 0]
    /\ phase = [w \in Workers |-> "idle"]
    /\ instant = [w \in Workers |-> 0]
    /\ batch = [w \in Workers |-> {}]
    /\ current = [w \in Workers |-> NoMessage]
    /\ answer = [w \in Workers |-> "retryable"]
    /\ claimEnd = [w \in Workers |-> 0]
    /\ taken = [m \in Messages |-> FALSE]
    /\ retries = [m \in Messages |-> 0]
    /\ crashes = 0

-----------------------------------------------------------------------------
\* What the queries of dispatch() ask.

\* Mutants of Due: the lease's end is not looked at; expired leases are not taken up.
DueIgnoringLease(m, t) ==
    \/ status[m] = "PENDING" /\ nextAttempt[m] <= t
    \/ status[m] = "DELIVERING"
DueOnlyPending(m, t) == status[m] = "PENDING" /\ nextAttempt[m] <= t

\* The `due` clause, as of time t.
Due(m, t) ==
    \/ status[m] = "PENDING" /\ nextAttempt[m] <= t
    \/ status[m] = "DELIVERING" /\ leaseUntil[m] <= t

Deliverable(m) == enabled[EndpointOf[m]] /\ active

Candidates == {m \in Messages : Due(m, now) /\ Deliverable(m)}

\* ORDER BY next_attempt_at, id
Earlier(m, n) ==
    \/ nextAttempt[m] < nextAttempt[n]
    \/ nextAttempt[m] = nextAttempt[n] /\ m < n

Selected == {m \in Candidates : Cardinality({n \in Candidates : Earlier(n, m)}) < BatchLimit}

\* The status a recorded answer leads to, given the attempts with it.
Verdict(a, n) ==
    CASE a = "ok" -> "DELIVERED"
      [] a # "ok" /\ (n >= MaxAttempts \/ a \in {"blocked", "refused"}) -> "FAILED"
      [] OTHER -> "PENDING"

-----------------------------------------------------------------------------
\* The account's side.

\* A new event id: the row is stored PENDING and due at once.
Queue(m) ==
    /\ active /\ enabled[EndpointOf[m]]
    /\ status[m] = "absent"
    /\ status' = [status EXCEPT ![m] = "PENDING"]
    /\ nextAttempt' = [nextAttempt EXCEPT ![m] = now]
    /\ UNCHANGED <<now, account, attempts, holder, leaseUntil, worker, taken, retries, crashes>>

\* A failed event is asked for again; its attempts stay on the row.
Retry(m) ==
    /\ active /\ enabled[EndpointOf[m]]
    /\ status[m] = "FAILED"
    /\ retries[m] < MaxRetries
    /\ status' = [status EXCEPT ![m] = "PENDING"]
    /\ nextAttempt' = [nextAttempt EXCEPT ![m] = now]
    /\ retries' = [retries EXCEPT ![m] = @ + 1]
    /\ UNCHANGED <<now, account, attempts, holder, leaseUntil, worker, taken, crashes>>

SetEnabled(e) ==
    /\ active
    /\ enabled' = [enabled EXCEPT ![e] = ~@]
    /\ UNCHANGED <<now, active, row, worker, taken, retries, crashes>>

\* An administrator deactivates the account, or brings it back.
SetActive ==
    /\ active' = ~active
    /\ UNCHANGED <<now, enabled, row, worker, taken, retries, crashes>>

-----------------------------------------------------------------------------
\* One worker in dispatch().

\* The clock is read and the due ids are selected; an empty batch ends at once.
StartBatch(w) ==
    /\ phase[w] = "idle"
    /\ Selected # {}
    /\ phase' = [phase EXCEPT ![w] = "batch"]
    /\ instant' = [instant EXCEPT ![w] = now]
    /\ batch' = [batch EXCEPT ![w] = Selected]
    /\ UNCHANGED <<now, account, row, current, answer, claimEnd, taken, retries, crashes>>

TakeLease(w, m, until) ==
    /\ phase[w] = "batch"
    /\ m \in batch[w]
    /\ status' = [status EXCEPT ![m] = "DELIVERING"]
    /\ holder' = [holder EXCEPT ![m] = w]
    /\ leaseUntil' = [leaseUntil EXCEPT ![m] = until]
    /\ phase' = [phase EXCEPT ![w] = "sending"]
    /\ batch' = [batch EXCEPT ![w] = @ \ {m}]
    /\ current' = [current EXCEPT ![w] = m]
    /\ claimEnd' = [claimEnd EXCEPT ![w] = until]
    /\ UNCHANGED <<now, account, attempts, nextAttempt, instant, answer, taken, retries, crashes>>

\* Mutants of Claim: the lease ends before it starts; no compare-and-set; the
\* endpoint is not read again.
ClaimBackwards(w, m) == Due(m, instant[w]) /\ Deliverable(m) /\ TakeLease(w, m, now - LeaseTime)
ClaimBlindly(w, m) == Deliverable(m) /\ TakeLease(w, m, now + LeaseTime)
ClaimUnheld(w, m) == Due(m, instant[w]) /\ TakeLease(w, m, now + LeaseTime)

\* The compare-and-set repeats the `due` clause with the time of the batch, and
\* the endpoint and its owner are read again in the same transaction.  The token
\* is fresh per claim in the code; a worker has one claim at a time, so its name
\* is as good.
Claim(w, m) ==
    /\ Due(m, instant[w])
    /\ Deliverable(m)
    /\ TakeLease(w, m, now + LeaseTime)

\* Somebody else was faster, or deliveries are held by now: on to the next event.
Skip(w, m) ==
    /\ phase[w] = "batch"
    /\ m \in batch[w]
    /\ ~(Due(m, instant[w]) /\ Deliverable(m))
    /\ batch' = [batch EXCEPT ![w] = @ \ {m}]
    /\ UNCHANGED <<now, account, row, phase, instant, current, answer, claimEnd, taken, retries, crashes>>

\* The request goes out, outside any transaction.  After a transport error the
\* receiver may or may not have processed the event.
Send(w) ==
    /\ phase[w] = "sending"
    /\ \E a \in Answers, got \in BOOLEAN :
          /\ a = "ok" => got
          /\ a = "blocked" => ~got
          /\ answer' = [answer EXCEPT ![w] = a]
          /\ taken' = [taken EXCEPT ![current[w]] = @ \/ got]
    /\ phase' = [phase EXCEPT ![w] = "answered"]
    /\ UNCHANGED <<now, account, row, instant, batch, current, claimEnd, retries, crashes>>

\* The locals of one turn of the loop.
Forget(w) ==
    /\ current' = [current EXCEPT ![w] = NoMessage]
    /\ answer' = [answer EXCEPT ![w] = "retryable"]
    /\ claimEnd' = [claimEnd EXCEPT ![w] = 0]

\* Mutant of HoldsLease: whoever has an answer records it.
AnyAnswerCounts(w, m) == current[w] = m

HoldsLease(w, m) == holder[m] = w /\ status[m] = "DELIVERING"

\* The answer of the lease's holder is recorded and the lease given back.
Record(w) ==
    LET m == current[w]
        n == attempts[m] + 1
        v == Verdict(answer[w], n)
    IN  /\ phase[w] = "answered"
        /\ HoldsLease(w, m)
        /\ attempts' = [attempts EXCEPT ![m] = n]
        /\ status' = [status EXCEPT ![m] = v]
        /\ nextAttempt' = IF v = "PENDING" THEN [nextAttempt EXCEPT ![m] = now + Backoff[n]]
                                           ELSE nextAttempt
        /\ holder' = [holder EXCEPT ![m] = NoWorker]
        /\ leaseUntil' = [leaseUntil EXCEPT ![m] = 0]
        /\ phase' = [phase EXCEPT ![w] = "batch"]
        /\ Forget(w)
        /\ UNCHANGED <<now, account, instant, batch, taken, retries, crashes>>

\* The lease went to another worker meanwhile: the answer is dropped.
DropLateAnswer(w) ==
    /\ phase[w] = "answered"
    /\ ~HoldsLease(w, current[w])
    /\ phase' = [phase EXCEPT ![w] = "batch"]
    /\ Forget(w)
    /\ UNCHANGED <<now, account, row, instant, batch, taken, retries, crashes>>

EndBatch(w) ==
    /\ phase[w] = "batch"
    /\ batch[w] = {}
    /\ phase' = [phase EXCEPT ![w] = "idle"]
    /\ instant' = [instant EXCEPT ![w] = 0]
    /\ UNCHANGED <<now, account, row, batch, current, answer, claimEnd, taken, retries, crashes>>

\* The process dies: its memory is gone, the rows stay as committed.
Crash(w) ==
    /\ phase[w] # "idle"
    /\ crashes < MaxCrashes
    /\ crashes' = crashes + 1
    /\ phase' = [phase EXCEPT ![w] = "idle"]
    /\ instant' = [instant EXCEPT ![w] = 0]
    /\ batch' = [batch EXCEPT ![w] = {}]
    /\ Forget(w)
    /\ UNCHANGED <<now, account, row, taken, retries>>

\* Time that nobody waits for is not observable, so the clock moves only while
\* a pause or a lease runs.
Waiting ==
    \E m \in Messages :
        \/ status[m] = "PENDING" /\ nextAttempt[m] > now
        \/ status[m] = "DELIVERING" /\ leaseUntil[m] > now

Busy(w) == phase[w] \in {"sending", "answered"}

Tick ==
    /\ now < MaxTime
    /\ Waiting
    /\ TimelySend => \A w \in Workers : Busy(w) => now + 1 < claimEnd[w]
    /\ now' = now + 1
    /\ UNCHANGED <<account, row, worker, taken, retries, crashes>>

-----------------------------------------------------------------------------
Dispatch(w) ==
    \/ StartBatch(w)
    \/ \E m \in Messages : Claim(w, m) \/ Skip(w, m)
    \/ Send(w)
    \/ Record(w)
    \/ DropLateAnswer(w)
    \/ EndBatch(w)

Next ==
    \/ \E m \in Messages : Queue(m) \/ Retry(m)
    \/ \E e \in Endpoints : SetEnabled(e)
    \/ SetActive
    \/ \E w \in Workers : Dispatch(w) \/ Crash(w)
    \/ Tick

Spec == Init /\ [][Next]_vars

\* The scheduler runs dispatch() every 30 seconds and the loop always goes on;
\* nothing obliges owners to act or workers to crash.
Fairness == WF_vars(Tick) /\ \A w \in Workers : WF_vars(Dispatch(w))

FairSpec == Spec /\ Fairness

-----------------------------------------------------------------------------
\* Properties.

\* An answer that comes back inside its lease is never lost to another worker:
\* as long as the lease runs, the row carries the sender's token.  (dispatch(),
\* the claim's WHERE clause and the token check before recording)
LeaseHeld ==
    \A w \in Workers :
        Busy(w) /\ now < claimEnd[w] => HoldsLease(w, current[w])

\* Two workers send the same event at the same time only after the lease of one
\* of them ran out: "another worker cannot claim an active lease".
NoConcurrentSend ==
    \A v, w \in Workers :
        v # w /\ Busy(v) /\ Busy(w) /\ current[v] = current[w]
            => now >= claimEnd[v] \/ now >= claimEnd[w]

\* Crashes, expired leases and late answers never buy an event more recorded
\* attempts than MAX_ATTEMPTS and one per manual retry, and an event still in the
\* outbox has budget left.
AttemptBudget ==
    \A m \in Messages :
        /\ attempts[m] <= MaxAttempts + retries[m]
        /\ status[m] \in {"PENDING", "DELIVERING"} => attempts[m] < MaxAttempts + retries[m]

\* What the lease is for: its holder's answer is the one recorded, nobody else sends
\* meanwhile, and the recorded attempts stay within the budget.
SendingSafe == LeaseHeld /\ NoConcurrentSend /\ AttemptBudget

\* What the account is told about each event.
Outcome ==
    [m \in Messages |->
        CASE status[m] = "absent" -> "absent"
          [] status[m] \in {"PENDING", "DELIVERING"} -> "queued"
          [] status[m] = "DELIVERED" -> "delivered"
          [] status[m] = "FAILED" -> "failed"]

\* The requests that have been decided on and may still reach the receiver.
Underway == [m \in Messages |-> {w \in Workers : phase[w] = "sending" /\ current[w] = m}]

Open == [m \in Messages |-> Deliverable(m)]

Promise == INSTANCE WebhookPromise
    WITH outcome <- Outcome, taken <- taken, open <- Open, underway <- Underway

\* At-least-once delivery: an event is reported DELIVERED only after the receiver
\* processed it, a DELIVERED event is final, only a FAILED one can be reopened.
\* While an endpoint is paused or its account deactivated nothing reaches the
\* receiver but the requests that were under way by then, each once at most, also
\* when the hold begins between the selection of a batch and a claim or a crash and
\* a takeover follow it.  (dispatch(), retry(), set_enabled(), update_user())
KeepsPromise == Promise!Spec

\* Unless deliveries are held again and again, every queued event is settled,
\* whatever workers crash and however often the receiver fails.
Settles ==
    <>[](active /\ \A e \in Endpoints : enabled[e]) =>
        \A m \in Messages :
            status[m] \in {"PENDING", "DELIVERING"} ~> status[m] \in {"DELIVERED", "FAILED"}

=============================================================================
