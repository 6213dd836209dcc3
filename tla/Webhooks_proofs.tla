--------------------------- MODULE Webhooks_proofs ---------------------------
(***************************************************************************)
(* For every number of events, workers, attempts, every lease length and   *)
(* every backoff: the lease protocol of the outbox is safe, its attempts   *)
(* stay in budget, and it implements WebhookPromise.  For every number of  *)
(* servers and of requests, every limit and window: the inbox keeps an     *)
(* event once, and the limits in front of it hold.                         *)
(*                                                                         *)
(* None of the properties is inductive alone.  A worker may record its     *)
(* answer because the row still carries its token; that a running lease    *)
(* keeps the token there holds because every claim compares the lease with *)
(* the start of a batch, which lies in the past (BatchInPast), and because *)
(* worker and row remember the same end of the lease (LeaseAgrees).  A     *)
(* window of a limit is kept because the hits it let through and the       *)
(* requests that have counted below it share one quota (Quota), which a    *)
(* count can only be made within (Backed).                                 *)
(***************************************************************************)
EXTENDS WebhookOutbox, WebhookInbox, FiniteSetTheorems, TLAPS

\* A row carries a token exactly while it is being delivered.
TokenIffDelivering ==
    \A m \in Messages : status[m] = "DELIVERING" <=> holder[m] # NoWorker

\* dispatch() started its batch before now.
BatchInPast == \A w \in Workers : instant[w] <= now

\* A worker that sends, sends a stored event; a 2xx means the receiver has it.
SendsStored ==
    \A w \in Workers : Busy(w) =>
        /\ current[w] \in Messages
        /\ status[current[w]] # "absent"
        /\ phase[w] = "answered" /\ answer[w] = "ok" => taken[current[w]]

LeaseAgrees ==
    \A w \in Workers : Busy(w) /\ now < claimEnd[w] =>
        HoldsLease(w, current[w]) /\ leaseUntil[current[w]] = claimEnd[w]

\* An event starts without attempts.
FreshStart == \A m \in Messages : status[m] = "absent" => attempts[m] = 0

IInv ==
    /\ TypeOK
    /\ FreshStart
    /\ TokenIffDelivering
    /\ BatchInPast
    /\ SendsStored
    /\ LeaseAgrees
    /\ AttemptBudget

-----------------------------------------------------------------------------
\* The verdict on a recorded answer is a settled status, or PENDING with
\* attempts left.
LEMMA VerdictType ==
    ASSUME NEW a \in Answers, NEW n \in Nat
    PROVE  /\ Verdict(a, n) \in {"DELIVERED", "FAILED", "PENDING"}
           /\ Verdict(a, n) = "PENDING" => n < MaxAttempts
           /\ Verdict(a, n) = "DELIVERED" <=> a = "ok"
  BY OutboxAssumption DEF Verdict, Answers

LEMMA OneMore == ASSUME NEW k \in Nat PROVE k + 1 \in Nat /\ k + 1 > 0
  OBVIOUS

\* A retry is scheduled at a natural time.
LEMMA BackoffType ==
    ASSUME NEW t \in Nat, NEW n \in Nat, n > 0, n < MaxAttempts
    PROVE  t + Backoff[n] \in Nat
  <1>1. n \in 1 .. MaxAttempts - 1
    BY OutboxAssumption
  <1>2. QED
    BY <1>1, OutboxAssumption

\* Every action keeps the types.
LEMMA TypeStep == TypeOK /\ [Next]_vars => TypeOK'
<1> SUFFICES ASSUME TypeOK, [Next]_vars PROVE TypeOK'
  OBVIOUS
<1> USE OutboxAssumption DEF TypeOK, Statuses
<1>1. ASSUME NEW m \in Messages, Queue(m) PROVE TypeOK'
  BY <1>1 DEF Queue, account, worker
<1>2. ASSUME NEW m \in Messages, Retry(m) PROVE TypeOK'
  <2>1. retries[m] + 1 \in Nat
    OBVIOUS
  <2>2. retries' \in [Messages -> Nat]
    BY <1>2, <2>1 DEF Retry
  <2>3. status' \in [Messages -> Statuses]
    BY <1>2 DEF Retry
  <2>. QED BY <1>2, <2>2, <2>3 DEF Retry, account, worker
<1>3. ASSUME NEW e \in Endpoints, SetEnabled(e) PROVE TypeOK'
  BY <1>3 DEF SetEnabled, row, worker
<1>4. CASE SetActive
  BY <1>4 DEF SetActive, row, worker
<1>5. ASSUME NEW w \in Workers, StartBatch(w) PROVE TypeOK'
  BY <1>5 DEF StartBatch, Selected, Candidates, account, row
<1>6. ASSUME NEW w \in Workers, NEW m \in Messages, Claim(w, m) PROVE TypeOK'
  <2>1. now + LeaseTime \in Nat
    OBVIOUS
  <2>2. /\ status' = [status EXCEPT ![m] = "DELIVERING"]
        /\ holder' = [holder EXCEPT ![m] = w]
        /\ leaseUntil' = [leaseUntil EXCEPT ![m] = now + LeaseTime]
        /\ phase' = [phase EXCEPT ![w] = "sending"]
        /\ batch' = [batch EXCEPT ![w] = @ \ {m}]
        /\ current' = [current EXCEPT ![w] = m]
        /\ claimEnd' = [claimEnd EXCEPT ![w] = now + LeaseTime]
        /\ UNCHANGED <<now, enabled, active, attempts, nextAttempt, instant, answer, taken, retries, crashes>>
    BY <1>6 DEF Claim, TakeLease, account
  <2>3. leaseUntil' \in [Messages -> Nat] /\ claimEnd' \in [Workers -> Nat]
    BY <2>1, <2>2
  <2>4. batch' \in [Workers -> SUBSET Messages]
    BY <2>2
  <2>. QED
    BY <2>2, <2>3, <2>4
<1>7. ASSUME NEW w \in Workers, NEW m \in Messages, Skip(w, m) PROVE TypeOK'
  BY <1>7 DEF Skip, account, row
<1>8. ASSUME NEW w \in Workers, Send(w) PROVE TypeOK'
  <2>1. PICK a \in Answers, got \in BOOLEAN :
           /\ answer' = [answer EXCEPT ![w] = a]
           /\ taken' = [taken EXCEPT ![current[w]] = @ \/ got]
    BY <1>8 DEF Send
  <2>2. taken' \in [Messages -> BOOLEAN]
    BY <2>1, Zenon
  <2>. QED
    BY <1>8, <2>1, <2>2 DEF Send, account, row
<1>9. ASSUME NEW w \in Workers, Record(w) PROVE TypeOK'
  <2> DEFINE m == current[w]
             n == attempts[m] + 1
             v == Verdict(answer[w], n)
  <2>1. /\ phase' \in [Workers -> {"idle", "batch", "sending", "answered"}]
        /\ current' \in [Workers -> Messages \union {NoMessage}]
        /\ answer' \in [Workers -> Answers]
        /\ claimEnd' \in [Workers -> Nat]
    BY <1>9 DEF Record, Forget, Answers
  <2>2. UNCHANGED <<now, enabled, active, instant, batch, taken, retries, crashes>>
    BY <1>9 DEF Record, account
  <2>3. holder' \in [Messages -> Workers \union {NoWorker}] /\ leaseUntil' \in [Messages -> Nat]
    BY <1>9 DEF Record
  <2>4. /\ attempts' = [attempts EXCEPT ![m] = n]
        /\ status' = [status EXCEPT ![m] = v]
        /\ nextAttempt' = IF v = "PENDING" THEN [nextAttempt EXCEPT ![m] = now + Backoff[n]]
                                           ELSE nextAttempt
    BY <1>9 DEF Record
  <2>5. CASE m \in Messages
    <3>1. attempts[m] \in Nat /\ answer[w] \in Answers /\ now \in Nat
      BY <2>5
    <3>2. n \in Nat /\ n > 0
      BY <3>1, OneMore
    <3>3. v \in {"DELIVERED", "FAILED", "PENDING"} /\ (v = "PENDING" => n < MaxAttempts)
      BY <3>1, <3>2, VerdictType
    <3> HIDE DEF n, v
    <3>4. v = "PENDING" => now + Backoff[n] \in Nat
      BY <3>1, <3>2, <3>3, BackoffType
    <3>5. attempts' \in [Messages -> Nat] /\ status' \in [Messages -> Statuses]
      BY <3>2, <3>3, <2>4
    <3>6. nextAttempt' \in [Messages -> Nat]
      BY <3>4, <2>4
    <3>7. QED
      BY <2>1, <2>2, <2>3, <3>5, <3>6
  <2>6. CASE m \notin Messages
    \* EXCEPT outside the domain leaves the rows alone
    <3>1. attempts' = attempts /\ status' = status /\ nextAttempt' = nextAttempt
      BY <2>4, <2>6
    <3>2. QED
      BY <2>1, <2>2, <2>3, <3>1
  <2>7. QED
    BY <2>5, <2>6
<1>10. ASSUME NEW w \in Workers, DropLateAnswer(w) PROVE TypeOK'
  BY <1>10 DEF DropLateAnswer, Forget, Answers, account, row
<1>11. ASSUME NEW w \in Workers, EndBatch(w) PROVE TypeOK'
  BY <1>11 DEF EndBatch, account, row
<1>12. ASSUME NEW w \in Workers, Crash(w) PROVE TypeOK'
  <2>1. /\ crashes' = crashes + 1
        /\ phase' = [phase EXCEPT ![w] = "idle"] /\ instant' = [instant EXCEPT ![w] = 0]
        /\ batch' = [batch EXCEPT ![w] = {}]
        /\ UNCHANGED <<now, enabled, active, status, attempts, nextAttempt, holder, leaseUntil, taken, retries>>
    BY <1>12 DEF Crash, account, row
  <2>2. /\ current' = [current EXCEPT ![w] = NoMessage]
        /\ answer' = [answer EXCEPT ![w] = "retryable"] /\ claimEnd' = [claimEnd EXCEPT ![w] = 0]
    BY <1>12 DEF Crash, Forget
  <2>3. phase' \in [Workers -> {"idle", "batch", "sending", "answered"}] /\ instant' \in [Workers -> Nat]
    BY <2>1
  <2>4. batch' \in [Workers -> SUBSET Messages] /\ current' \in [Workers -> Messages \union {NoMessage}]
    BY <2>1, <2>2
  <2>5. answer' \in [Workers -> Answers] /\ claimEnd' \in [Workers -> Nat]
    BY <2>2 DEF Answers
  <2>6. crashes' \in Nat
    BY <2>1
  <2>. QED
    BY <2>1, <2>3, <2>4, <2>5, <2>6
<1>13. CASE Tick
  BY <1>13 DEF Tick, account, row, worker
<1>14. CASE UNCHANGED vars
  BY <1>14 DEF vars
<1>15. QED
  BY <1>1, <1>2, <1>3, <1>4, <1>5, <1>6, <1>7, <1>8, <1>9, <1>10, <1>11, <1>12, <1>13, <1>14
     DEF Next, Dispatch
-----------------------------------------------------------------------------
\* The parts of the inductive invariant, one lemma each.

\* Claiming writes the token with the status, recording clears it with the status.
LEMMA TokenStep ==
    TypeOK /\ TokenIffDelivering /\ SendsStored /\ [Next]_vars => TokenIffDelivering'
<1> SUFFICES ASSUME TypeOK, TokenIffDelivering, SendsStored, [Next]_vars
             PROVE  TokenIffDelivering'
  OBVIOUS
<1> USE DEF TokenIffDelivering
<1>1. ASSUME NEW m \in Messages, Queue(m) PROVE TokenIffDelivering'
  BY <1>1 DEF Queue, TypeOK
<1>2. ASSUME NEW m \in Messages, Retry(m) PROVE TokenIffDelivering'
  BY <1>2 DEF Retry, TypeOK
<1>3. ASSUME NEW w \in Workers, NEW m \in Messages, Claim(w, m) PROVE TokenIffDelivering'
  BY <1>3, OutboxAssumption DEF Claim, TakeLease, TypeOK
<1>4. ASSUME NEW w \in Workers, Record(w) PROVE TokenIffDelivering'
  <2> DEFINE m == current[w]
             v == Verdict(answer[w], attempts[m] + 1)
  <2>1. m \in Messages
    BY <1>4 DEF Record, SendsStored, Busy
  <2>2. answer[w] \in Answers /\ attempts[m] \in Nat
    BY <2>1 DEF TypeOK
  <2>3. v # "DELIVERING"
    BY <2>2, OneMore, VerdictType
  <2>4. status' = [status EXCEPT ![m] = v] /\ holder' = [holder EXCEPT ![m] = NoWorker]
    BY <1>4 DEF Record
  <2> HIDE DEF v
  <2>5. QED
    BY <2>1, <2>3, <2>4 DEF TypeOK
<1>5. ASSUME UNCHANGED <<status, holder>> PROVE TokenIffDelivering'
  BY <1>5
<1>6. QED
  BY <1>1, <1>2, <1>3, <1>4, <1>5
     DEF Next, Dispatch, SetEnabled, SetActive, StartBatch, Skip, Send, DropLateAnswer, EndBatch,
         Crash, Tick, row, worker, vars

\* A batch starts now, and now never goes back.
LEMMA BatchStep == TypeOK /\ BatchInPast /\ [Next]_vars => BatchInPast'
<1> SUFFICES ASSUME TypeOK, BatchInPast, [Next]_vars PROVE BatchInPast'
  OBVIOUS
<1> USE DEF BatchInPast
<1>1. ASSUME NEW w \in Workers, StartBatch(w) PROVE BatchInPast'
  BY <1>1 DEF StartBatch, TypeOK
<1>2. ASSUME NEW w \in Workers, EndBatch(w) \/ Crash(w) PROVE BatchInPast'
  BY <1>2 DEF EndBatch, Crash, TypeOK
<1>3. CASE Tick
  BY <1>3 DEF Tick, worker, TypeOK
<1>4. ASSUME UNCHANGED <<now, instant>> PROVE BatchInPast'
  BY <1>4
<1>5. QED
  BY <1>1, <1>2, <1>3, <1>4
     DEF Next, Dispatch, Queue, Retry, SetEnabled, SetActive, Claim, TakeLease, Skip, Send, Record,
         DropLateAnswer, worker, vars

\* Nothing deletes an event, and a 2xx comes from a receiver that took it.
LEMMA StoredStep == TypeOK /\ SendsStored /\ [Next]_vars => SendsStored'
<1> SUFFICES ASSUME TypeOK, SendsStored, [Next]_vars PROVE SendsStored'
  OBVIOUS
<1> USE DEF SendsStored, Busy
<1>1. ASSUME NEW m \in Messages, Queue(m) \/ Retry(m) PROVE SendsStored'
  <2>1. \A n \in Messages : status[n] # "absent" => status'[n] # "absent"
    BY <1>1 DEF Queue, Retry, TypeOK
  <2>2. UNCHANGED <<phase, current, answer, taken>>
    BY <1>1 DEF Queue, Retry, worker
  <2>3. QED
    BY <2>1, <2>2
<1>2. ASSUME NEW w \in Workers, NEW m \in Messages, Claim(w, m) PROVE SendsStored'
  BY <1>2 DEF Claim, TakeLease, TypeOK
<1>3. ASSUME NEW w \in Workers, Send(w) PROVE SendsStored'
  <2>1. PICK a \in Answers, got \in BOOLEAN :
           /\ a = "ok" => got
           /\ answer' = [answer EXCEPT ![w] = a]
           /\ taken' = [taken EXCEPT ![current[w]] = @ \/ got]
    BY <1>3 DEF Send
  <2>2. \A n \in Messages : taken[n] => taken'[n]
    <3>1. taken \in [Messages -> BOOLEAN]
      BY DEF TypeOK
    <3>. QED
      BY ONLY <2>1, <3>1, Zenon
  <2>3. phase[w] = "sending" /\ phase' = [phase EXCEPT ![w] = "answered"]
    BY <1>3 DEF Send
  <2>4. current[w] \in Messages
    BY <2>3
  <2>5. got => taken'[current[w]]
    BY <2>1, <2>4, Zenon DEF TypeOK
  <2>6. UNCHANGED <<status, current>>
    BY <1>3 DEF Send, row
  <2>7. ASSUME NEW u \in Workers, u # w, phase'[u] \in {"sending", "answered"}
        PROVE  phase'[u] = "answered" /\ answer'[u] = "ok" => taken'[current'[u]]
    <3>1. phase'[u] = phase[u] /\ answer'[u] = answer[u] /\ current'[u] = current[u]
      BY <2>1, <2>3, <2>6, <2>7 DEF TypeOK
    <3>2. QED
      BY <2>2, <2>7, <3>1
  <2>8. answer'[w] = "ok" => taken'[current'[w]]
    BY <2>1, <2>5, <2>6 DEF TypeOK
  <2>9. \A u \in Workers : phase'[u] \in {"sending", "answered"} =>
            phase[u] \in {"sending", "answered"}
    BY <2>3 DEF TypeOK
  <2>10. QED
    BY <2>6, <2>7, <2>8, <2>9
<1>4. ASSUME NEW w \in Workers, Record(w) PROVE SendsStored'
  <2> DEFINE m == current[w]
             v == Verdict(answer[w], attempts[m] + 1)
  <2>1. m \in Messages
    BY <1>4 DEF Record
  <2>2. answer[w] \in Answers /\ attempts[m] \in Nat
    BY <2>1 DEF TypeOK
  <2>3. v # "absent"
    BY <2>2, OneMore, VerdictType
  <2>4. status' = [status EXCEPT ![m] = v]
    BY <1>4 DEF Record
  <2> HIDE DEF v
  <2>5. \A n \in Messages : status[n] # "absent" => status'[n] # "absent"
    BY <2>1, <2>3, <2>4 DEF TypeOK
  <2>6. /\ phase' = [phase EXCEPT ![w] = "batch"]
        /\ current' = [current EXCEPT ![w] = NoMessage]
        /\ answer' = [answer EXCEPT ![w] = "retryable"]
        /\ taken' = taken
    BY <1>4 DEF Record, Forget
  <2>7. \A u \in Workers : phase'[u] \in {"sending", "answered"} =>
            u # w /\ phase'[u] = phase[u] /\ current'[u] = current[u] /\ answer'[u] = answer[u]
    BY <2>6 DEF TypeOK
  <2>8. QED
    BY <2>5, <2>6, <2>7
<1>5. ASSUME NEW w \in Workers, DropLateAnswer(w) \/ Crash(w) \/ StartBatch(w) \/ EndBatch(w)
      PROVE  SendsStored'
  <2>1. /\ phase'[w] \in {"idle", "batch"}
        /\ \A u \in Workers \ {w} :
              phase'[u] = phase[u] /\ current'[u] = current[u] /\ answer'[u] = answer[u]
        /\ UNCHANGED <<status, taken>>
    BY <1>5 DEF DropLateAnswer, Crash, StartBatch, EndBatch, Forget, row, TypeOK
  <2>2. QED
    BY <2>1
<1>6. ASSUME UNCHANGED <<status, phase, current, answer, taken>> PROVE SendsStored'
  BY <1>6
<1>7. QED
  BY <1>1, <1>2, <1>3, <1>4, <1>5, <1>6
     DEF Next, Dispatch, SetEnabled, SetActive, Skip, Tick, row, worker, vars

\* A running lease keeps its token: a claim would need the lease to end before a
\* batch that started in the past.
LEMMA LeaseStep ==
    TypeOK /\ BatchInPast /\ SendsStored /\ LeaseAgrees /\ [Next]_vars => LeaseAgrees'
<1> SUFFICES ASSUME TypeOK, BatchInPast, SendsStored, LeaseAgrees, [Next]_vars
             PROVE  LeaseAgrees'
  OBVIOUS
<1> USE DEF LeaseAgrees, Busy, HoldsLease
<1>1. ASSUME NEW m \in Messages, Queue(m) \/ Retry(m) PROVE LeaseAgrees'
  <2>1. /\ status[m] # "DELIVERING"
        /\ \A n \in Messages \ {m} : status'[n] = status[n]
        /\ UNCHANGED <<now, holder, leaseUntil, phase, current, claimEnd>>
    BY <1>1 DEF Queue, Retry, worker, TypeOK
  <2>2. QED
    BY <2>1 DEF SendsStored
<1>2. ASSUME NEW w \in Workers, NEW m \in Messages, Claim(w, m) PROVE LeaseAgrees'
  <2>1. /\ status' = [status EXCEPT ![m] = "DELIVERING"]
        /\ holder' = [holder EXCEPT ![m] = w]
        /\ leaseUntil' = [leaseUntil EXCEPT ![m] = now + LeaseTime]
        /\ phase' = [phase EXCEPT ![w] = "sending"]
        /\ current' = [current EXCEPT ![w] = m]
        /\ claimEnd' = [claimEnd EXCEPT ![w] = now + LeaseTime]
        /\ now' = now
    BY <1>2 DEF Claim, TakeLease
  <2>2. ASSUME NEW u \in Workers, u # w, phase[u] \in {"sending", "answered"}, now < claimEnd[u]
        PROVE  current[u] # m
    <3>1. Due(m, instant[w]) /\ instant[w] <= now
      BY <1>2 DEF Claim, BatchInPast
    <3>2. ASSUME current[u] = m PROVE FALSE
      <4>1. status[m] = "DELIVERING" /\ leaseUntil[m] = claimEnd[u]
        BY <2>2, <3>2
      <4>2. leaseUntil[m] <= instant[w]
        BY <3>1, <4>1 DEF Due
      <4>3. instant[w] \in Int /\ claimEnd[u] \in Int /\ now \in Int
        BY DEF TypeOK
      <4>4. QED
        BY <2>2, <3>1, <4>1, <4>2, <4>3
    <3>3. QED
      BY <3>2
  <2>3. ASSUME NEW u \in Workers, u # w,
               phase'[u] \in {"sending", "answered"}, now' < claimEnd'[u]
        PROVE  /\ holder'[current'[u]] = u /\ status'[current'[u]] = "DELIVERING"
               /\ leaseUntil'[current'[u]] = claimEnd'[u]
    <3>1. phase'[u] = phase[u] /\ current'[u] = current[u] /\ claimEnd'[u] = claimEnd[u]
      BY <2>1, <2>3 DEF TypeOK
    <3>2. current[u] # m
      BY <2>1, <2>2, <2>3, <3>1
    <3>3. QED
      BY <2>1, <2>3, <3>1, <3>2 DEF TypeOK
  <2>4. /\ holder'[current'[w]] = w /\ status'[current'[w]] = "DELIVERING"
        /\ leaseUntil'[current'[w]] = claimEnd'[w]
    BY <2>1 DEF TypeOK
  <2>5. QED
    BY <2>3, <2>4
<1>3. ASSUME NEW w \in Workers, Record(w) PROVE LeaseAgrees'
  <2> DEFINE m == current[w]
  <2>1. holder[m] = w /\ m \in Messages
    BY <1>3 DEF Record, SendsStored
  <2>2. /\ phase' = [phase EXCEPT ![w] = "batch"]
        /\ current' = [current EXCEPT ![w] = NoMessage]
        /\ claimEnd' = [claimEnd EXCEPT ![w] = 0]
        /\ now' = now
        /\ \A n \in Messages \ {m} :
              status'[n] = status[n] /\ holder'[n] = holder[n] /\ leaseUntil'[n] = leaseUntil[n]
    BY <1>3 DEF Record, Forget, TypeOK
  <2>3. ASSUME NEW u \in Workers, phase'[u] \in {"sending", "answered"}, now' < claimEnd'[u]
        PROVE  /\ holder'[current'[u]] = u /\ status'[current'[u]] = "DELIVERING"
               /\ leaseUntil'[current'[u]] = claimEnd'[u]
    <3>1. u # w /\ phase'[u] = phase[u] /\ current'[u] = current[u] /\ claimEnd'[u] = claimEnd[u]
      BY <2>2, <2>3 DEF TypeOK
    <3>2. current[u] \in Messages \ {m}
      BY <2>1, <2>2, <2>3, <3>1 DEF SendsStored
    <3>3. QED
      BY <2>2, <2>3, <3>1, <3>2
  <2>4. QED
    BY <2>3
<1>4. ASSUME NEW w \in Workers,
             Send(w) \/ DropLateAnswer(w) \/ Crash(w) \/ StartBatch(w) \/ EndBatch(w)
      PROVE  LeaseAgrees'
  <2>1. /\ phase[w] = "sending" \/ phase'[w] \in {"idle", "batch"}
        /\ phase[w] = "sending" /\ phase'[w] \in {"sending", "answered"} =>
              current'[w] = current[w] /\ claimEnd'[w] = claimEnd[w]
        /\ \A u \in Workers \ {w} :
              phase'[u] = phase[u] /\ current'[u] = current[u] /\ claimEnd'[u] = claimEnd[u]
        /\ UNCHANGED <<now, status, holder, leaseUntil>>
    BY <1>4 DEF Send, DropLateAnswer, Crash, StartBatch, EndBatch, Forget, row, TypeOK
  <2>2. QED
    BY <2>1
<1>5. CASE Tick
  <2>1. now' = now + 1 /\ UNCHANGED <<status, holder, leaseUntil, phase, current, claimEnd>>
    BY <1>5 DEF Tick, row, worker
  <2>2. ASSUME NEW u \in Workers, now' < claimEnd'[u] PROVE now < claimEnd[u]
    BY <2>1, <2>2 DEF TypeOK
  <2>3. QED
    BY <2>1, <2>2
<1>6. ASSUME UNCHANGED <<now, status, holder, leaseUntil, phase, current, claimEnd>>
      PROVE  LeaseAgrees'
  BY <1>6
<1>7. QED
  BY <1>1, <1>2, <1>3, <1>4, <1>5, <1>6
     DEF Next, Dispatch, SetEnabled, SetActive, Skip, row, worker, vars

\* No action brings an absent event's attempts about: only a stored event is sent.
LEMMA FreshStep == TypeOK /\ SendsStored /\ FreshStart /\ [Next]_vars => FreshStart'
<1> SUFFICES ASSUME TypeOK, SendsStored, FreshStart, [Next]_vars PROVE FreshStart'
  OBVIOUS
<1> USE DEF FreshStart
<1>1. ASSUME NEW m \in Messages, Queue(m) \/ Retry(m) PROVE FreshStart'
  BY <1>1 DEF Queue, Retry, TypeOK
<1>2. ASSUME NEW w \in Workers, NEW m \in Messages, Claim(w, m) PROVE FreshStart'
  BY <1>2 DEF Claim, TakeLease, TypeOK
<1>3. ASSUME NEW w \in Workers, Record(w) PROVE FreshStart'
  <2> DEFINE m == current[w]
             v == Verdict(answer[w], attempts[m] + 1)
  <2>1. m \in Messages
    BY <1>3 DEF Record, SendsStored, Busy
  <2>2. answer[w] \in Answers /\ attempts[m] \in Nat
    BY <2>1 DEF TypeOK
  <2>3. v # "absent"
    BY <2>2, OneMore, VerdictType
  <2>4. /\ attempts' = [attempts EXCEPT ![m] = attempts[m] + 1]
        /\ status' = [status EXCEPT ![m] = v]
    BY <1>3 DEF Record
  <2> HIDE DEF v
  <2>5. status'[m] # "absent"
    BY <2>1, <2>3, <2>4 DEF TypeOK
  <2>6. \A n \in Messages \ {m} : status'[n] = status[n] /\ attempts'[n] = attempts[n]
    BY <2>4 DEF TypeOK
  <2>7. QED
    BY <2>5, <2>6
<1>4. ASSUME UNCHANGED <<status, attempts>> PROVE FreshStart'
  BY <1>4
<1>5. QED
  BY <1>1, <1>2, <1>3, <1>4
     DEF Next, Dispatch, SetEnabled, SetActive, StartBatch, Skip, Send, DropLateAnswer, EndBatch,
         Crash, Tick, row, worker, vars

\* Attempts are counted only for a row being delivered, whose budget is not spent;
\* a manual retry adds one.
LEMMA BudgetStep ==
    TypeOK /\ SendsStored /\ FreshStart /\ AttemptBudget /\ [Next]_vars => AttemptBudget'
<1> SUFFICES ASSUME TypeOK, SendsStored, FreshStart, AttemptBudget, [Next]_vars
             PROVE  AttemptBudget'
  OBVIOUS
<1> USE DEF AttemptBudget
<1>0. /\ MaxAttempts \in Nat /\ MaxAttempts > 0
      /\ \A n \in Messages : attempts[n] \in Nat /\ retries[n] \in Nat
  BY OutboxAssumption DEF TypeOK
<1>1. ASSUME NEW m \in Messages, Queue(m) PROVE AttemptBudget'
  <2>1. attempts[m] < MaxAttempts + retries[m]
    BY <1>0, <1>1 DEF Queue, FreshStart
  <2>2. UNCHANGED <<attempts, retries>> /\ \A n \in Messages \ {m} : status'[n] = status[n]
    BY <1>1 DEF Queue, TypeOK
  <2>3. QED
    BY <2>1, <2>2
<1>2. ASSUME NEW m \in Messages, Retry(m) PROVE AttemptBudget'
  <2>1. retries'[m] = retries[m] + 1 /\ attempts' = attempts
    BY <1>2 DEF Retry, TypeOK
  <2>2. attempts[m] <= MaxAttempts + retries[m]
    OBVIOUS
  <2>3. attempts'[m] < MaxAttempts + retries'[m]
    BY <1>0, <2>1, <2>2
  <2>4. \A n \in Messages \ {m} : status'[n] = status[n] /\ retries'[n] = retries[n]
    BY <1>2 DEF Retry, TypeOK
  <2>5. attempts'[m] <= MaxAttempts + retries'[m]
    BY <1>0, <2>1, <2>2
  <2>6. QED
    BY <2>1, <2>3, <2>4, <2>5
<1>3. ASSUME NEW w \in Workers, NEW m \in Messages, Claim(w, m) PROVE AttemptBudget'
  <2>1. status[m] \in {"PENDING", "DELIVERING"}
    BY <1>3 DEF Claim, Due
  <2>2. /\ UNCHANGED <<attempts, retries>>
        /\ \A n \in Messages \ {m} : status'[n] = status[n]
    BY <1>3 DEF Claim, TakeLease, TypeOK
  <2>3. QED
    BY <2>1, <2>2
<1>4. ASSUME NEW w \in Workers, Record(w) PROVE AttemptBudget'
  <2> DEFINE m == current[w]
             v == Verdict(answer[w], attempts[m] + 1)
  <2>1. m \in Messages /\ status[m] = "DELIVERING"
    BY <1>4 DEF Record, HoldsLease, SendsStored, Busy
  <2>2. answer[w] \in Answers /\ attempts[m] \in Nat /\ retries[m] \in Nat
    BY <2>1 DEF TypeOK
  <2>3. v \in {"DELIVERED", "FAILED", "PENDING"} /\ (v = "PENDING" => attempts[m] + 1 < MaxAttempts)
    BY <2>2, OneMore, VerdictType
  <2>4. /\ attempts' = [attempts EXCEPT ![m] = attempts[m] + 1]
        /\ status' = [status EXCEPT ![m] = v]
        /\ retries' = retries
    BY <1>4 DEF Record
  <2> HIDE DEF v
  <2>5. \A n \in Messages \ {m} : status'[n] = status[n] /\ attempts'[n] = attempts[n]
    BY <2>4 DEF TypeOK
  <2>6. attempts'[m] = attempts[m] + 1 /\ status'[m] = v
    BY <2>1, <2>4 DEF TypeOK
  <2>7. attempts[m] < MaxAttempts + retries[m]
    BY <2>1
  <2>8. attempts'[m] <= MaxAttempts + retries'[m]
    BY <1>0, <2>2, <2>4, <2>6, <2>7
  <2>9. status'[m] \in {"PENDING", "DELIVERING"} => attempts'[m] < MaxAttempts + retries'[m]
    BY <1>0, <2>2, <2>3, <2>4, <2>6
  <2>10. QED
    BY <2>4, <2>5, <2>8, <2>9
<1>5. ASSUME UNCHANGED <<status, attempts, retries>> PROVE AttemptBudget'
  BY <1>5
<1>6. QED
  BY <1>1, <1>2, <1>3, <1>4, <1>5
     DEF Next, Dispatch, SetEnabled, SetActive, StartBatch, Skip, Send, DropLateAnswer, EndBatch,
         Crash, Tick, row, worker, vars

-----------------------------------------------------------------------------
\* The inductive invariant.
THEOREM Invariant == Spec => []IInv
<1>1. Init => IInv
  BY OutboxAssumption
     DEF Init, IInv, TypeOK, FreshStart, TokenIffDelivering, BatchInPast, SendsStored, LeaseAgrees,
         AttemptBudget, Busy, Statuses, Answers
<1>2. IInv /\ [Next]_vars => IInv'
  BY TypeStep, FreshStep, TokenStep, BatchStep, StoredStep, LeaseStep, BudgetStep DEF IInv
<1>3. QED
  BY <1>1, <1>2, PTL DEF Spec

\* Type correctness of the outbox, for all constants.
THEOREM TypeCorrect == Spec => []TypeOK
<1>1. IInv => TypeOK
  BY DEF IInv
<1>2. QED
  BY <1>1, Invariant, PTL

\* An answer that is back inside its lease is recorded by its sender and nobody
\* else (dispatch(): the claim's WHERE clause and the token check), for any number
\* of workers.
THEOREM LeaseSafety == Spec => []LeaseHeld
<1>1. IInv => LeaseHeld
  BY DEF IInv, LeaseAgrees, LeaseHeld
<1>2. QED
  BY <1>1, Invariant, PTL

\* Two workers send one event at the same time only after a lease ran out.
THEOREM SendExclusion == Spec => []NoConcurrentSend
<1>1. IInv => NoConcurrentSend
  <2> SUFFICES ASSUME IInv, NEW v \in Workers, NEW w \in Workers, v # w,
                      Busy(v), Busy(w), current[v] = current[w]
               PROVE  now >= claimEnd[v] \/ now >= claimEnd[w]
    BY DEF NoConcurrentSend
  <2>1. ~(now < claimEnd[v] /\ now < claimEnd[w])
    BY DEF IInv, LeaseAgrees, HoldsLease
  <2>2. now \in Int /\ claimEnd[v] \in Int /\ claimEnd[w] \in Int
    BY DEF IInv, TypeOK
  <2>3. QED
    BY <2>1, <2>2
<1>2. QED
  BY <1>1, Invariant, PTL

\* Recorded attempts never pass MAX_ATTEMPTS and the manual retries.
THEOREM BudgetKept == Spec => []AttemptBudget
<1>1. IInv => AttemptBudget
  BY DEF IInv
<1>2. QED
  BY <1>1, Invariant, PTL

\* The three together are what dispatch() promises of the lease.
THEOREM SendingIsSafe == Spec => []SendingSafe
<1>1. LeaseHeld /\ NoConcurrentSend /\ AttemptBudget => SendingSafe
  BY DEF SendingSafe
<1> QED BY <1>1, LeaseSafety, SendExclusion, BudgetKept, PTL

-----------------------------------------------------------------------------
\* The refinement.

\* What the account is told changes only for the event whose status changes.
LEMMA OutcomeExcept ==
    ASSUME TypeOK, NEW m \in Messages, NEW s \in Statuses, NEW o,
           status' = [status EXCEPT ![m] = s],
           o = CASE s = "absent" -> "absent"
                 [] s \in {"PENDING", "DELIVERING"} -> "queued"
                 [] s = "DELIVERED" -> "delivered"
                 [] s = "FAILED" -> "failed"
    PROVE  Outcome' = [Outcome EXCEPT ![m] = o]
  BY DEF Outcome, TypeOK, Statuses

\* The requests that may still arrive change with one worker at a time.
LEMMA UnderwayChanges ==
    ASSUME TypeOK, NEW w \in Workers,
           \A v \in Workers \ {w} : phase'[v] = phase[v] /\ current'[v] = current[v]
    PROVE  /\ phase[w] # "sending" /\ phase'[w] # "sending" => Underway' = Underway
           /\ \A m \in Messages :
                 /\ phase[w] # "sending" /\ phase'[w] = "sending" /\ current'[w] = m
                       => w \notin Underway[m] /\ Underway' = [Underway EXCEPT ![m] = @ \cup {w}]
                 /\ phase[w] = "sending" /\ current[w] = m /\ phase'[w] # "sending"
                       => w \in Underway[m] /\ Underway' = [Underway EXCEPT ![m] = @ \ {w}]
<1>1. ASSUME phase[w] # "sending", phase'[w] # "sending" PROVE Underway' = Underway
  BY <1>1 DEF Underway
<1>2. ASSUME NEW m \in Messages, phase[w] # "sending", phase'[w] = "sending", current'[w] = m
      PROVE  w \notin Underway[m] /\ Underway' = [Underway EXCEPT ![m] = @ \cup {w}]
  BY <1>2 DEF Underway
<1>3. ASSUME NEW m \in Messages, phase[w] = "sending", current[w] = m, phase'[w] # "sending"
      PROVE  w \in Underway[m] /\ Underway' = [Underway EXCEPT ![m] = @ \ {w}]
  BY <1>3 DEF Underway
<1>4. QED
  BY <1>1, <1>2, <1>3

\* The receiver gets nothing from a request that dies on the way.
LEMMA NothingTaken == ASSUME TypeOK, NEW m \in Messages PROVE taken = [taken EXCEPT ![m] = @ \/ FALSE]
<1>1. taken[m] \in BOOLEAN
  BY DEF TypeOK
<1>2. (taken[m] \/ FALSE) = taken[m]
  BY <1>1, Zenon
<1> DEFINE b == taken[m] \/ FALSE
<1>3. [taken EXCEPT ![m] = @ \/ FALSE] = [taken EXCEPT ![m] = b]
  BY Zenon
<1>4. b = taken[m]
  BY <1>2
<1> HIDE DEF b
<1>5. [taken EXCEPT ![m] = b] = taken
  BY <1>4 DEF TypeOK
<1>6. QED
  BY <1>3, <1>5

\* Every step of the outbox is a step of the promise or changes nothing in it.
LEMMA PromiseStep ==
    IInv /\ [Next]_vars => [Promise!Next]_<<Outcome, taken, Open, Underway>>
<1> SUFFICES ASSUME IInv, [Next]_vars PROVE [Promise!Next]_<<Outcome, taken, Open, Underway>>
  OBVIOUS
<1> DEFINE Same == UNCHANGED <<Outcome, taken, Open, Underway>>
<1>0. TypeOK /\ SendsStored
  BY DEF IInv
<1>A. UNCHANGED account => Open' = Open
  BY DEF account, Open, Deliverable
<1>B. UNCHANGED worker => Underway' = Underway
  BY DEF worker, Underway
<1>1. ASSUME NEW m \in Messages, Queue(m) PROVE Promise!Enqueue(m)
  <2>1. Outcome' = [Outcome EXCEPT ![m] = "queued"]
    BY <1>0, <1>1, OutcomeExcept DEF Queue, Statuses
  <2>2. Outcome[m] = "absent" /\ taken' = taken /\ Open[m]
    BY <1>1 DEF Queue, Outcome, Open, Deliverable
  <2>3. Open' = Open /\ Underway' = Underway
    BY <1>1, <1>A, <1>B DEF Queue
  <2>4. QED
    BY <2>1, <2>2, <2>3 DEF Promise!Enqueue
<1>2. ASSUME NEW m \in Messages, Retry(m) PROVE Promise!Requeue(m)
  <2>1. Outcome' = [Outcome EXCEPT ![m] = "queued"]
    BY <1>0, <1>2, OutcomeExcept DEF Retry, Statuses
  <2>2. Outcome[m] = "failed" /\ taken' = taken /\ Open[m]
    BY <1>2 DEF Retry, Outcome, Open, Deliverable
  <2>3. Open' = Open /\ Underway' = Underway
    BY <1>2, <1>A, <1>B DEF Retry
  <2>4. QED
    BY <2>1, <2>2, <2>3 DEF Promise!Requeue
<1>3. ASSUME NEW w \in Workers, NEW m \in Messages, Claim(w, m) PROVE Promise!Begin(m, w)
  <2>1. status[m] \in {"PENDING", "DELIVERING"} /\ taken' = taken /\ Open[m]
    BY <1>3 DEF Claim, Due, TakeLease, Open
  <2>2. Outcome' = [Outcome EXCEPT ![m] = "queued"]
    BY <1>0, <1>3, OutcomeExcept DEF Claim, TakeLease, Statuses
  <2>3. Outcome[m] = "queued" /\ Outcome' = Outcome
    BY <2>1, <2>2 DEF Outcome
  <2>4. /\ phase[w] # "sending" /\ phase'[w] = "sending" /\ current'[w] = m
        /\ \A v \in Workers \ {w} : phase'[v] = phase[v] /\ current'[v] = current[v]
    BY <1>0, <1>3 DEF Claim, TakeLease, TypeOK
  <2>5. w \notin Underway[m] /\ Underway' = [Underway EXCEPT ![m] = @ \cup {w}]
    BY <1>0, <2>4, UnderwayChanges
  <2>6. Open' = Open
    BY <1>3, <1>A DEF Claim, TakeLease
  <2>7. QED
    BY <2>1, <2>3, <2>5, <2>6 DEF Promise!Begin
<1>4. ASSUME NEW w \in Workers, Send(w)
      PROVE  current[w] \in Messages /\ \E got \in BOOLEAN : Promise!Arrive(current[w], w, got)
  <2>1. PICK got \in BOOLEAN : taken' = [taken EXCEPT ![current[w]] = @ \/ got]
    BY <1>4 DEF Send
  <2>2. current[w] \in Messages
    BY <1>0, <1>4 DEF SendsStored, Busy, Send
  <2>3. Outcome' = Outcome
    BY <1>4 DEF Send, row, Outcome
  <2>4. /\ phase[w] = "sending" /\ phase'[w] # "sending"
        /\ \A v \in Workers \ {w} : phase'[v] = phase[v] /\ current'[v] = current[v]
    BY <1>0, <1>4 DEF Send, TypeOK
  <2>5. w \in Underway[current[w]] /\ Underway' = [Underway EXCEPT ![current[w]] = @ \ {w}]
    BY <1>0, <2>2, <2>4, UnderwayChanges
  <2>6. Open' = Open
    BY <1>4, <1>A DEF Send
  <2>7. Promise!Arrive(current[w], w, got)
    BY <2>1, <2>3, <2>5, <2>6, Zenon DEF Promise!Arrive
  <2>8. QED
    BY <2>2, <2>7
<1>5. ASSUME NEW w \in Workers, Record(w)
      PROVE  \/ Promise!ReportDelivered(current[w]) \/ Promise!ReportFailed(current[w])
             \/ Same
  <2> DEFINE m == current[w]
             v == Verdict(answer[w], attempts[m] + 1)
  <2>1. /\ m \in Messages /\ status[m] = "DELIVERING"
        /\ answer[w] = "ok" => taken[m]
    BY <1>0, <1>5 DEF Record, HoldsLease, SendsStored, Busy
  <2>2. answer[w] \in Answers /\ attempts[m] \in Nat
    BY <1>0, <2>1 DEF TypeOK
  <2>3. v \in {"DELIVERED", "FAILED", "PENDING"} /\ (v = "DELIVERED" => answer[w] = "ok")
    BY <2>2, OneMore, VerdictType
  <2>4. status' = [status EXCEPT ![m] = v] /\ taken' = taken
    BY <1>5 DEF Record
  <2>5. Outcome[m] = "queued"
    BY <2>1 DEF Outcome
  <2>0. /\ phase[w] # "sending" /\ phase'[w] # "sending"
        /\ \A u \in Workers \ {w} : phase'[u] = phase[u] /\ current'[u] = current[u]
    BY <1>0, <1>5 DEF Record, Forget, TypeOK
  <2>10. Underway' = Underway
    BY <1>0, <2>0, UnderwayChanges
  <2>11. Open' = Open
    BY <1>5, <1>A DEF Record
  <2> HIDE DEF v
  <2>6. CASE v = "DELIVERED"
    <3>1. Outcome' = [Outcome EXCEPT ![m] = "delivered"]
      BY <1>0, <2>1, <2>4, <2>6, OutcomeExcept DEF Statuses
    <3>2. QED
      BY <2>1, <2>3, <2>4, <2>5, <2>6, <2>10, <2>11, <3>1 DEF Promise!ReportDelivered
  <2>7. CASE v = "FAILED"
    <3>1. Outcome' = [Outcome EXCEPT ![m] = "failed"]
      BY <1>0, <2>1, <2>4, <2>7, OutcomeExcept DEF Statuses
    <3>2. QED
      BY <2>4, <2>5, <2>10, <2>11, <3>1 DEF Promise!ReportFailed
  <2>8. CASE v = "PENDING"
    <3>1. Outcome' = [Outcome EXCEPT ![m] = "queued"]
      BY <1>0, <2>1, <2>4, <2>8, OutcomeExcept DEF Statuses
    <3>2. Outcome' = Outcome
      BY <2>5, <3>1 DEF Outcome
    <3>3. QED
      BY <2>4, <2>10, <2>11, <3>2
  <2>9. QED
    BY <2>3, <2>6, <2>7, <2>8
<1>6. ASSUME NEW w \in Workers, Crash(w)
      PROVE  Same \/ (current[w] \in Messages /\ Promise!Arrive(current[w], w, FALSE))
  <2>1. Outcome' = Outcome /\ taken' = taken /\ Open' = Open
    BY <1>6, <1>A DEF Crash, row, Outcome
  <2>2. /\ phase'[w] # "sending"
        /\ \A v \in Workers \ {w} : phase'[v] = phase[v] /\ current'[v] = current[v]
    BY <1>0, <1>6 DEF Crash, Forget, TypeOK
  <2>3. CASE phase[w] # "sending"
    BY <1>0, <2>1, <2>2, <2>3, UnderwayChanges
  <2>4. CASE phase[w] = "sending"
    <3>1. current[w] \in Messages
      BY <1>0, <2>4 DEF SendsStored, Busy
    <3>2. w \in Underway[current[w]] /\ Underway' = [Underway EXCEPT ![current[w]] = @ \ {w}]
      BY <1>0, <2>2, <2>4, <3>1, UnderwayChanges
    <3>3. taken' = [taken EXCEPT ![current[w]] = @ \/ FALSE]
      BY <1>0, <2>1, <3>1, NothingTaken, Zenon
    <3>4. QED
      BY <2>1, <3>1, <3>2, <3>3, Zenon DEF Promise!Arrive
  <2>5. QED
    BY <2>3, <2>4
<1>7. ASSUME NEW w \in Workers, StartBatch(w) \/ DropLateAnswer(w) \/ EndBatch(w) PROVE Same
  <2>4. UNCHANGED <<account, row, taken>>
    BY <1>7 DEF StartBatch, DropLateAnswer, EndBatch
  <2>5. Outcome' = Outcome
    BY <2>4 DEF row, Outcome
  <2>1. Outcome' = Outcome /\ taken' = taken /\ Open' = Open
    BY <1>A, <2>4, <2>5
  <2>2. /\ phase[w] # "sending" /\ phase'[w] # "sending"
        /\ \A v \in Workers \ {w} : phase'[v] = phase[v] /\ current'[v] = current[v]
    BY <1>0, <1>7 DEF StartBatch, DropLateAnswer, EndBatch, Forget, TypeOK
  <2>3. QED
    BY <1>0, <2>1, <2>2, UnderwayChanges
<1>8. ASSUME NEW w \in Workers, NEW m \in Messages, Skip(w, m) PROVE Same
  BY <1>8, <1>A DEF Skip, row, Outcome, Underway
<1>9. ASSUME SetActive \/ \E e \in Endpoints : SetEnabled(e) PROVE Promise!Hold
  <2>1. Outcome' = Outcome /\ taken' = taken /\ Underway' = Underway
    <3>1. UNCHANGED <<row, worker, taken>>
      BY <1>9 DEF SetActive, SetEnabled
    <3>2. Outcome' = Outcome
      BY <3>1 DEF row, Outcome
    <3> QED BY <1>B, <3>1, <3>2
  <2>2. Open' \in [Messages -> BOOLEAN]
    <3>1. \A m \in Messages : Deliverable(m)' \in BOOLEAN
      BY DEF Deliverable
    <3> QED BY <3>1 DEF Open
  <2>3. QED
    BY <2>1, <2>2 DEF Promise!Hold
<1>10. CASE Tick
  BY <1>10, <1>A, <1>B DEF Tick, row, Outcome
<1>11. CASE UNCHANGED vars
  BY <1>11, <1>A, <1>B DEF vars, account, worker, Outcome
<1>12. \A w \in Workers : Record(w) => current[w] \in Messages
  BY <1>0 DEF SendsStored, Busy, Record
<1>13. QED
  BY <1>1, <1>2, <1>3, <1>4, <1>5, <1>6, <1>7, <1>8, <1>9, <1>10, <1>11, <1>12
     DEF Next, Dispatch, Promise!Next

\* The outbox implements the promise: at-least-once delivery, truthful reports,
\* final deliveries, and holds that only requests under way pass, whatever crashes
\* and however leases overlap.
THEOREM Implements == Spec => KeepsPromise
<1>1. Init => Promise!Init
  BY OutboxAssumption DEF Init, Outcome, Open, Deliverable, Underway, Promise!Init
<1>2. QED
  BY <1>1, PromiseStep, Invariant, PTL DEF Spec, KeepsPromise, Promise!Spec, Promise!promise

-----------------------------------------------------------------------------
(* The request limits *)

Counts == [LimitKeys -> [Moments -> Nat]]

HitsFinite(counts) == \A k \in LimitKeys : IsFiniteSet(HitsIn(counts, k, Moments))

Asks == [key : LimitKeys \cup {"none"}, at : Moments, counted : Nat \cup {-1}, tries : Nat]

RateTypeOK ==
    /\ moment \in Moments /\ table \in BOOLEAN /\ outages \in Nat
    /\ hitRows \in Counts /\ HitsFinite(hitRows) /\ granted \in Counts /\ HitsFinite(granted)
    /\ memory \in [Askers -> Counts] /\ alone \in [Askers -> Counts]
    /\ \A a \in Askers : HitsFinite(memory[a]) /\ HitsFinite(alone[a])
    /\ ask \in [Askers -> Asks]

\* A hit takes no longer than Stall, and counts in the table only once there is one.
Reached ==
    \A a \in Askers :
        /\ ask[a].key # "none" => ask[a].at <= moment /\ moment <= ask[a].at + Stall
        /\ ask[a].counted >= 0 => table /\ ask[a].key # "none"

From(t) == {u \in Moments : t <= u}
Between(t, last) == {u \in Moments : t <= u /\ u <= last}

\* What was let through and a window may still see is on record.
Backed ==
    /\ \A k \in LimitKeys, t \in Moments : moment - WindowOf[k] <= t => granted[k][t] <= hitRows[k][t]
    /\ \A a \in Askers, k \in LimitKeys, t \in Moments : moment - WindowOf[k] <= t => alone[a][k][t] <= memory[a][k][t]

\* Requests that have counted below the limit, of moments that are not before t.
Entrants(k, t) == {a \in Askers : ask[a].key = k /\ ask[a].counted \in 0 .. LimitOf[k] - 1 /\ t <= ask[a].at}

Most(k) == LimitOf[k] + Cardinality(Askers) - 1

\* Since any moment that a window reaches back to: what was let through, and what will be.
Quota ==
    \A k \in LimitKeys, t \in Int :
        moment <= t + WindowOf[k] => Cardinality(HitsIn(granted, k, From(t))) + Cardinality(Entrants(k, t)) <= Most(k)

\* Windows that are over.
Past ==
    \A k \in LimitKeys, t \in Int :
        t + WindowOf[k] < moment => Cardinality(HitsIn(granted, k, Between(t, t + WindowOf[k] - Stall))) <= Most(k)

AloneLimited ==
    \A a \in Askers, k \in LimitKeys, t \in Int : Cardinality(HitsIn(alone[a], k, Between(t, t + WindowOf[k]))) <= LimitOf[k]

RateInv == RateTypeOK /\ Reached /\ Backed /\ Quota /\ Past /\ AloneLimited

-----------------------------------------------------------------------------
(* Sets of hits *)

LEMMA HitOf ==
    ASSUME NEW counts, NEW k, NEW S, NEW t, NEW n
    PROVE  <<t, n>> \in HitsIn(counts, k, S) <=> t \in S /\ n \in 1 .. counts[k][t]
BY DEF HitsIn

LEMMA HitPairs ==
    ASSUME NEW counts, NEW k, NEW S, NEW h \in HitsIn(counts, k, S)
    PROVE  h = <<h[1], h[2]>>
BY DEF HitsIn

\* Hits of fewer moments, or of a count that is nowhere greater.
LEMMA FewerHits ==
    ASSUME NEW counts \in Counts, NEW more \in Counts, NEW k \in LimitKeys, NEW S \in SUBSET Moments, NEW T,
           S \subseteq T, \A t \in S : counts[k][t] <= more[k][t]
    PROVE  HitsIn(counts, k, S) \subseteq HitsIn(more, k, T)
<1> SUFFICES ASSUME NEW h \in HitsIn(counts, k, S) PROVE h \in HitsIn(more, k, T)
  OBVIOUS
<1>1. h = <<h[1], h[2]>>
  BY HitPairs
<1>2. h[1] \in S /\ h[2] \in 1 .. counts[k][h[1]]
  BY <1>1, HitOf
<1>3. counts[k][h[1]] \in Nat /\ more[k][h[1]] \in Nat /\ counts[k][h[1]] <= more[k][h[1]]
  BY <1>2 DEF Counts
<1>4. h[2] \in 1 .. more[k][h[1]]
  BY ONLY <1>2, <1>3
<1> QED BY <1>1, <1>2, <1>4, HitOf

LEMMA HitsCard ==
    ASSUME NEW counts \in Counts, HitsFinite(counts), NEW k \in LimitKeys, NEW S \in SUBSET Moments
    PROVE  IsFiniteSet(HitsIn(counts, k, S)) /\ Cardinality(HitsIn(counts, k, S)) \in Nat
<1>1. HitsIn(counts, k, S) \subseteq HitsIn(counts, k, Moments)
  <2>1. \A t \in S : counts[k][t] <= counts[k][t]
    BY DEF Counts
  <2> QED BY <2>1, FewerHits
<1>2. IsFiniteSet(HitsIn(counts, k, S))
  BY ONLY <1>1, HitsFinite(counts), k \in LimitKeys, FS_Subset DEF HitsFinite
<1> QED BY <1>2, FS_CardinalityType

LEMMA FewerHitsCard ==
    ASSUME NEW counts \in Counts, NEW more \in Counts, HitsFinite(counts), HitsFinite(more),
           NEW k \in LimitKeys, NEW S \in SUBSET Moments, NEW T \in SUBSET Moments,
           S \subseteq T, \A t \in S : counts[k][t] <= more[k][t]
    PROVE  Cardinality(HitsIn(counts, k, S)) <= Cardinality(HitsIn(more, k, T))
<1>1. HitsIn(counts, k, S) \subseteq HitsIn(more, k, T)
  BY FewerHits
<1>2. IsFiniteSet(HitsIn(more, k, T))
  BY HitsCard
<1> QED BY ONLY <1>1, <1>2, FS_Subset

LEMMA NoHitsCard ==
    ASSUME NEW counts \in Counts, NEW k \in LimitKeys, counts[k] = NoHits[k], NEW S \in SUBSET Moments
    PROVE  HitsIn(counts, k, S) = {} /\ Cardinality(HitsIn(counts, k, S)) = 0
<1>1. \A t \in S : counts[k][t] = 0
  BY DEF NoHits
<1>2. HitsIn(counts, k, S) = {}
  BY <1>1, HitPairs, HitOf
<1> QED BY <1>2, FS_EmptySet

\* One more hit.
LEMMA OneMoreHit ==
    ASSUME NEW counts \in Counts, HitsFinite(counts), NEW key \in LimitKeys, NEW at \in Moments
    PROVE  /\ Plus(counts, key, at) \in Counts /\ HitsFinite(Plus(counts, key, at))
           /\ \A k \in LimitKeys, t \in Moments :
                 Plus(counts, key, at)[k][t] = IF k = key /\ t = at THEN counts[k][t] + 1 ELSE counts[k][t]
           /\ \A k \in LimitKeys : \A S \in SUBSET Moments :
                 Cardinality(HitsIn(Plus(counts, key, at), k, S)) =
                 Cardinality(HitsIn(counts, k, S)) + (IF k = key /\ at \in S THEN 1 ELSE 0)
<1> DEFINE c == Plus(counts, key, at)
           new == <<at, counts[key][at] + 1>>
<1>1. c \in Counts /\ \A k \in LimitKeys, t \in Moments : c[k][t] = IF k = key /\ t = at THEN counts[k][t] + 1 ELSE counts[k][t]
  <2>1. counts[key][at] \in Nat /\ counts[key] \in [Moments -> Nat]
    BY DEF Counts
  <2>2. c = [counts EXCEPT ![key] = [counts[key] EXCEPT ![at] = counts[key][at] + 1]]
    BY DEF Plus, Counts
  <2>3. [counts[key] EXCEPT ![at] = counts[key][at] + 1] \in [Moments -> Nat]
    BY <2>1
  <2> QED BY <2>1, <2>2, <2>3 DEF Counts
<1> HIDE DEF c
<1>2. ASSUME NEW k \in LimitKeys, NEW S \in SUBSET Moments, k = key, at \in S
      PROVE  /\ HitsIn(c, k, S) = HitsIn(counts, k, S) \cup {new}
             /\ new \notin HitsIn(counts, k, S)
  <2>1. counts[key][at] \in Nat
    BY DEF Counts
  <2>2. c[key][at] = counts[key][at] + 1
    BY <1>1
  <2>3. new \notin HitsIn(counts, k, S)
    <3>1. counts[key][at] + 1 \notin 1 .. counts[key][at]
      BY ONLY <2>1
    <3> QED BY <1>2, <3>1, HitOf
  <2>4. new \in HitsIn(c, k, S)
    <3>1. counts[key][at] + 1 \in 1 .. c[key][at]
      BY ONLY <2>1, <2>2
    <3> QED BY <1>2, <3>1, HitOf
  <2>5. HitsIn(counts, k, S) \subseteq HitsIn(c, k, S)
    <3>1. \A t \in S : counts[k][t] <= c[k][t]
      <4>1. \A t \in S : counts[k][t] \in Nat
        BY DEF Counts
      <4> QED BY <1>1, <4>1
    <3> QED BY <1>1, <3>1, FewerHits
  <2>6. ASSUME NEW h \in HitsIn(c, k, S), h # new PROVE h \in HitsIn(counts, k, S)
    <3>1. h = <<h[1], h[2]>>
      BY HitPairs
    <3>2. h[1] \in S /\ h[2] \in 1 .. c[k][h[1]]
      BY <3>1, HitOf
    <3>3. h[2] \in 1 .. counts[k][h[1]]
      <4>1. CASE h[1] = at
        <5>1. h[2] # counts[key][at] + 1
          BY <2>6, <3>1, <4>1
        <5> QED BY ONLY <1>2, <2>1, <2>2, <3>2, <4>1, <5>1
      <4>2. CASE h[1] # at
        BY <1>1, <3>2, <4>2
      <4> QED BY <4>1, <4>2
    <3> QED BY <3>1, <3>2, <3>3, HitOf
  <2> QED BY <2>3, <2>4, <2>5, <2>6
<1>3. ASSUME NEW k \in LimitKeys, NEW S \in SUBSET Moments, ~ (k = key /\ at \in S)
      PROVE  HitsIn(c, k, S) = HitsIn(counts, k, S)
  <2>1. \A t \in S : c[k][t] = counts[k][t]
    BY <1>1, <1>3
  <2> QED BY <2>1 DEF HitsIn
<1>4. HitsFinite(c)
  <2> SUFFICES ASSUME NEW k \in LimitKeys PROVE IsFiniteSet(HitsIn(c, k, Moments))
    BY DEF HitsFinite
  <2>1. IsFiniteSet(HitsIn(counts, k, Moments))
    BY DEF HitsFinite
  <2>2. CASE k = key
    BY <1>2, <2>1, <2>2, FS_AddElement
  <2>3. CASE k # key
    BY <1>3, <2>1, <2>3
  <2> QED BY <2>2, <2>3
<1>5. ASSUME NEW k \in LimitKeys, NEW S \in SUBSET Moments
      PROVE  Cardinality(HitsIn(c, k, S)) = Cardinality(HitsIn(counts, k, S)) + (IF k = key /\ at \in S THEN 1 ELSE 0)
  <2>1. IsFiniteSet(HitsIn(counts, k, S)) /\ Cardinality(HitsIn(counts, k, S)) \in Nat
    BY HitsCard
  <2>2. CASE k = key /\ at \in S
    <3>1. HitsIn(c, k, S) = HitsIn(counts, k, S) \cup {new} /\ new \notin HitsIn(counts, k, S)
      BY <1>2, <2>2
    <3>2. Cardinality(HitsIn(counts, k, S) \cup {new}) = Cardinality(HitsIn(counts, k, S)) + 1
      BY ONLY <2>1, <3>1, FS_AddElement
    <3> QED BY <2>2, <3>1, <3>2
  <2>3. CASE ~ (k = key /\ at \in S)
    <3>1. HitsIn(c, k, S) = HitsIn(counts, k, S)
      BY <1>3, <2>3
    <3> QED BY <2>1, <2>3, <3>1
  <2> QED BY <2>2, <2>3
<1> QED BY <1>1, <1>4, <1>5 DEF c

LEMMA FewerFinite ==
    ASSUME NEW counts \in Counts, HitsFinite(counts), NEW less \in Counts,
           \A k \in LimitKeys, t \in Moments : less[k][t] <= counts[k][t]
    PROVE  HitsFinite(less)
<1> SUFFICES ASSUME NEW k \in LimitKeys PROVE IsFiniteSet(HitsIn(less, k, Moments))
  BY DEF HitsFinite
<1>1. HitsIn(less, k, Moments) \subseteq HitsIn(counts, k, Moments)
  BY FewerHits
<1>2. IsFiniteSet(HitsIn(counts, k, Moments))
  BY DEF HitsFinite
<1> QED BY ONLY <1>1, <1>2, FS_Subset

LEMMA NoneHit == NoHits \in Counts /\ HitsFinite(NoHits)
<1>1. NoHits \in Counts
  BY DEF NoHits, Counts
<1>2. \A k \in LimitKeys : HitsIn(NoHits, k, Moments) = {}
  BY <1>1, NoHitsCard
<1> QED BY <1>1, <1>2, FS_EmptySet DEF HitsFinite

LEMMA ClearedCounts ==
    ASSUME NEW counts \in Counts, HitsFinite(counts), NEW key \in LimitKeys
    PROVE  /\ Cleared(counts, key) \in Counts /\ HitsFinite(Cleared(counts, key))
           /\ \A k \in LimitKeys : Cleared(counts, key)[k] = IF k = key THEN NoHits[k] ELSE counts[k]
           /\ \A k \in LimitKeys, t \in Moments :
                 Cleared(counts, key)[k][t] <= counts[k][t] /\ (k = key => Cleared(counts, key)[k][t] = 0)
<1> DEFINE c == Cleared(counts, key)
<1>1. c \in Counts /\ \A k \in LimitKeys : c[k] = IF k = key THEN NoHits[k] ELSE counts[k]
  BY NoneHit DEF Counts, Cleared
<1>2. \A k \in LimitKeys, t \in Moments : NoHits[k][t] = 0 /\ counts[k][t] \in Nat
  BY DEF NoHits, Counts
<1> HIDE DEF c
<1>3. \A k \in LimitKeys, t \in Moments : c[k][t] <= counts[k][t] /\ (k = key => c[k][t] = 0)
  BY <1>1, <1>2
<1>4. HitsFinite(c)
  BY <1>1, <1>3, FewerFinite
<1> QED BY <1>1, <1>3, <1>4 DEF c

-----------------------------------------------------------------------------
(* What a request does *)

\* A request that has nothing counted: at rest, just arrived at a limit, or trying again.
Off(a) ==
    \E r \in Asks : /\ ask' = [ask EXCEPT ![a] = r]
                    /\ r.counted = -1
                    /\ r.key = "none" \/ r.at = moment \/ (r.key = ask[a].key /\ r.at = ask[a].at)

LEMMA ReachOff == ASSUME RateTypeOK, NEW a \in Askers, NEW key \in LimitKeys, Reach(a, key) PROVE Off(a)
<1> DEFINE r == [key |-> key, at |-> moment, counted |-> -1, tries |-> 0]
<1>1. r \in Asks /\ r.counted = -1 /\ r.at = moment /\ ask' = [ask EXCEPT ![a] = r]
  BY DEF RateTypeOK, Asks, Reach
<1> HIDE DEF r
<1> QED BY <1>1 DEF Off

LEMMA RestOff == ASSUME RateTypeOK, NEW a \in Askers, ask' = [ask EXCEPT ![a] = AtRest] PROVE Off(a)
<1>1. AtRest \in Asks /\ AtRest.counted = -1 /\ AtRest.key = "none"
  BY RateLimitsAssumption DEF AtRest, Asks, Moments
<1> QED BY <1>1 DEF Off

LEMMA ThroughOff ==
    ASSUME RateTypeOK, NEW a \in Askers, NEW at, LetThrough(a, at)
    PROVE  Off(a)
<1>1. CASE ask[a].key = "ip"
  BY <1>1, ReachOff DEF LetThrough, LimitKeys
<1>2. CASE ask[a].key # "ip"
  BY <1>2, RestOff DEF LetThrough
<1> QED BY <1>1, <1>2

LEMMA RefuseOff == ASSUME RateTypeOK, NEW a \in Askers, Refuse(a) PROVE Off(a) /\ UNCHANGED <<granted, alone>>
BY RestOff DEF Refuse

LEMMA FailedOff == ASSUME RateTypeOK, NEW a \in Askers, FailedTry(a) PROVE Off(a) /\ UNCHANGED <<granted, alone>>
<1>1. CASE ask[a].tries + 1 < Tries
  <2> DEFINE r == [key |-> ask[a].key, at |-> ask[a].at, counted |-> -1, tries |-> ask[a].tries + 1]
  <2>1. ask[a] \in Asks
    BY DEF RateTypeOK
  <2>2. r \in Asks /\ r.counted = -1 /\ r.key = ask[a].key /\ r.at = ask[a].at
    BY <2>1 DEF Asks
  <2>3. ask' = [ask EXCEPT ![a] = r] /\ UNCHANGED <<granted, alone>>
    BY <1>1 DEF FailedTry, TryAgain
  <2> HIDE DEF r
  <2> QED BY <2>2, <2>3 DEF Off
<1>2. CASE ~ (ask[a].tries + 1 < Tries)
  BY <1>2, RefuseOff DEF FailedTry
<1> QED BY <1>1, <1>2

\* Its part of the invariant.
LEMMA OffKeeps ==
    ASSUME RateTypeOK, Reached, NEW a \in Askers, Off(a), moment' = moment, table' = table
    PROVE  /\ ask' \in [Askers -> Asks] /\ Reached'
           /\ \A k, t : Entrants(k, t)' = Entrants(k, t) \ {a}
<1>1. PICK r \in Asks : /\ ask' = [ask EXCEPT ![a] = r]
                        /\ r.counted = -1
                        /\ r.key = "none" \/ r.at = moment \/ (r.key = ask[a].key /\ r.at = ask[a].at)
  BY DEF Off
<1>2. ask' \in [Askers -> Asks] /\ ask'[a] = r /\ \A b \in Askers : b # a => ask'[b] = ask[b]
  BY <1>1 DEF RateTypeOK
<1>3. r.key # "none" => r.at <= moment /\ moment <= r.at + Stall
  <2>1. moment \in Nat /\ Stall \in Nat
    BY RateLimitsAssumption DEF RateTypeOK, Moments
  <2>2. CASE r.at = moment
    BY <2>1, <2>2
  <2>3. CASE r.key = ask[a].key /\ r.at = ask[a].at
    BY <2>3 DEF Reached
  <2> QED BY <1>1, <2>2, <2>3
<1>4. Reached'
  BY <1>1, <1>2, <1>3 DEF Reached
<1>5. \A k, t : Entrants(k, t)' = Entrants(k, t) \ {a}
  BY <1>1, <1>2 DEF Entrants
<1> QED BY <1>2, <1>4, <1>5

LEMMA AskOf ==
    ASSUME RateTypeOK, Reached, NEW a \in Askers
    PROVE  /\ ask[a].key \in LimitKeys \cup {"none"} /\ ask[a].at \in Moments /\ ask[a].counted \in Nat \cup {-1}
           /\ ask[a].key # "none" => /\ ask[a].key \in LimitKeys
                                     /\ ask[a].at <= moment /\ moment <= ask[a].at + Stall
           /\ ask[a].counted >= 0 => table /\ ask[a].key # "none"
BY DEF RateTypeOK, Asks, Reached

LEMMA Windows ==
    /\ \A k \in LimitKeys : WindowOf[k] \in Nat /\ WindowOf[k] <= LongestWindow /\ LimitOf[k] \in Nat /\ LimitOf[k] > 0
    /\ LongestWindow \in Nat /\ Stall \in Nat /\ Cardinality(Askers) \in Nat /\ Moments \subseteq Nat
<1>1. Cardinality(Askers) \in Nat
  BY RateLimitsAssumption, FS_CardinalityType
<1> QED BY <1>1, RateLimitsAssumption DEF Moments

\* A sweep takes nothing that a window can still see.
LEMMA SweptKeeps ==
    ASSUME RateTypeOK, Reached, NEW a \in Askers, ask[a].key # "none", NEW sweeps \in BOOLEAN
    PROVE  /\ Swept(hitRows, a, sweeps) \in Counts /\ HitsFinite(Swept(hitRows, a, sweeps))
           /\ \A k \in LimitKeys, t \in Moments :
                 moment - WindowOf[k] <= t => Swept(hitRows, a, sweeps)[k][t] = hitRows[k][t]
<1> DEFINE c == Swept(hitRows, a, sweeps)
<1>1. \A k \in LimitKeys, t \in Moments : hitRows[k][t] \in Nat
  BY DEF RateTypeOK, Counts
<1>2. /\ c \in Counts
      /\ \A k \in LimitKeys, t \in Moments :
            c[k][t] = IF (k = ask[a].key /\ t < Cutoff(a)) \/ (sweeps /\ t < ask[a].at - LongestWindow) THEN 0 ELSE hitRows[k][t]
  BY <1>1 DEF Swept, Counts
<1> HIDE DEF c
<1>3. \A k \in LimitKeys, t \in Moments : c[k][t] <= hitRows[k][t]
  BY <1>1, <1>2
<1>4. HitsFinite(c)
  BY <1>2, <1>3, FewerFinite DEF RateTypeOK
<1>5. ASSUME NEW k \in LimitKeys, NEW t \in Moments, moment - WindowOf[k] <= t
      PROVE  c[k][t] = hitRows[k][t]
  <2>1. ask[a].at \in Nat /\ ask[a].at <= moment /\ moment \in Nat /\ t \in Nat /\ WindowOf[k] \in Nat
        /\ WindowOf[k] <= LongestWindow /\ LongestWindow \in Nat
    BY AskOf, Windows DEF RateTypeOK
  <2>2. ~ (t < ask[a].at - WindowOf[k]) /\ ~ (t < ask[a].at - LongestWindow)
    BY ONLY <2>1, <1>5
  <2>3. k = ask[a].key => ~ (t < Cutoff(a))
    BY <2>2 DEF Cutoff
  <2> QED BY <1>2, <2>2, <2>3
<1> QED BY <1>2, <1>4, <1>5 DEF c

\* What an insert does: it refuses, or enters one hit and lets it through.
LEMMA InsertDoes ==
    ASSUME RateTypeOK, Reached, NEW a \in Askers, NEW sweeps \in BOOLEAN, InsertHit(a, sweeps)
    PROVE  /\ table /\ ask[a].key \in LimitKeys /\ Off(a) /\ alone' = alone
           /\ UNCHANGED <<moment, table, memory, outages>>
           /\ \/ /\ hitRows' = Swept(hitRows, a, sweeps) /\ granted' = granted
              \/ /\ ask[a].counted \in 0 .. LimitOf[ask[a].key] - 1
                 /\ hitRows' = Plus(Swept(hitRows, a, sweeps), ask[a].key, ask[a].at)
                 /\ granted' = Plus(granted, ask[a].key, ask[a].at)
<1>1. ask[a].counted >= 0 /\ UNCHANGED <<moment, table, memory, outages>>
  BY DEF InsertHit
<1>2. table /\ ask[a].key \in LimitKeys /\ ask[a].counted \in Nat
  BY <1>1, AskOf
<1>3. CASE ask[a].counted >= Limit(a)
  <2>1. hitRows' = Swept(hitRows, a, sweeps) /\ Refuse(a)
    BY <1>3 DEF InsertHit
  <2> QED BY <1>1, <1>2, <2>1, RefuseOff
<1>4. CASE ~ (ask[a].counted >= Limit(a))
  <2>1. hitRows' = Plus(Swept(hitRows, a, sweeps), ask[a].key, ask[a].at) /\ LetThrough(a, ask[a].at)
    BY <1>4 DEF InsertHit
  <2>2. ask[a].counted \in 0 .. LimitOf[ask[a].key] - 1
    BY <1>2, <1>4, Windows DEF Limit
  <2>3. Off(a)
    BY <2>1, ThroughOff
  <2> QED BY <1>1, <1>2, <2>1, <2>2, <2>3 DEF LetThrough
<1> QED BY <1>3, <1>4

LEMMA OutageDoes ==
    ASSUME RateTypeOK, Reached, NEW a \in Askers, NEW committed \in BOOLEAN, Outage(a, committed)
    PROVE  /\ ask[a].key \in LimitKeys /\ Off(a) /\ UNCHANGED <<moment, table, memory, granted, alone>> /\ outages' = outages + 1
           /\ \/ hitRows' = hitRows
              \/ hitRows' = Plus(hitRows, ask[a].key, ask[a].at)
<1>1. FailedTry(a) /\ ask[a].key # "none"
  BY DEF Outage
<1>2. Off(a) /\ UNCHANGED <<granted, alone>>
  BY <1>1, FailedOff
<1>3. ask[a].key \in LimitKeys
  BY <1>1, AskOf
<1> QED BY <1>2, <1>3 DEF Outage

Kept(a) == [memory[a] EXCEPT ![ask[a].key] = [t \in Moments |-> IF moment - t > WindowOf[ask[a].key] THEN 0 ELSE @[t]]]

LEMMA KeptHits ==
    ASSUME RateTypeOK, Reached, NEW a \in Askers, ask[a].key # "none"
    PROVE  /\ Kept(a) \in Counts /\ HitsFinite(Kept(a))
           /\ \A k \in LimitKeys, t \in Moments : moment - WindowOf[k] <= t => Kept(a)[k][t] = memory[a][k][t]
<1> DEFINE key == ask[a].key
           kept == [t \in Moments |-> IF moment - t > WindowOf[key] THEN 0 ELSE memory[a][key][t]]
<1>1. key \in LimitKeys /\ memory[a] \in Counts /\ moment \in Nat
  BY AskOf, Windows DEF RateTypeOK
<1>2. \A k \in LimitKeys, t \in Moments : memory[a][k][t] \in Nat
  BY <1>1 DEF Counts
<1>3. Kept(a) = [memory[a] EXCEPT ![key] = kept]
  BY <1>1 DEF Kept, Counts
<1>4. kept \in [Moments -> Nat]
  BY <1>1, <1>2
<1>5. Kept(a) \in Counts /\ \A k \in LimitKeys : Kept(a)[k] = IF k = key THEN kept ELSE memory[a][k]
  <2> HIDE DEF kept, key
  <2> QED BY <1>1, <1>3, <1>4 DEF Counts
<1>6. /\ \A t \in Moments : kept[t] = memory[a][key][t] \/ (kept[t] = 0 /\ moment - t > WindowOf[key])
      /\ \A k \in LimitKeys, t \in Moments : Kept(a)[k][t] <= memory[a][k][t]
  <2>1. \A t \in Moments : kept[t] = memory[a][key][t] \/ (kept[t] = 0 /\ moment - t > WindowOf[key])
    OBVIOUS
  <2> HIDE DEF kept, key
  <2>2. \A t \in Moments : kept[t] <= memory[a][key][t]
    BY <1>1, <1>2, <2>1
  <2>3. ASSUME NEW k \in LimitKeys, NEW t \in Moments PROVE Kept(a)[k][t] <= memory[a][k][t]
    BY <1>2, <1>5, <2>2
  <2> QED BY <2>1, <2>3
<1>7. HitsFinite(Kept(a))
  <2>1. HitsFinite(memory[a])
    BY DEF RateTypeOK
  <2> QED BY <1>1, <1>5, <1>6, <2>1, FewerFinite
<1>8. ASSUME NEW k \in LimitKeys, NEW t \in Moments, moment - WindowOf[k] <= t
      PROVE  Kept(a)[k][t] = memory[a][k][t]
  <2>1. ~ (moment - t > WindowOf[k])
    BY <1>1, <1>8, Windows
  <2> HIDE DEF kept, key
  <2> QED BY <1>5, <1>6, <1>8, <2>1
<1> QED BY <1>5, <1>7, <1>8

\* What a process does by itself before there is a table.
LEMMA MemoryDoes ==
    ASSUME RateTypeOK, Reached, NEW a \in Askers, MemoryHit(a)
    PROVE  /\ ~ table /\ ask[a].key \in LimitKeys /\ Off(a)
           /\ UNCHANGED <<moment, table, hitRows, outages, granted>>
           /\ \/ memory' = [memory EXCEPT ![a] = Kept(a)] /\ alone' = alone
              \/ /\ Since(Kept(a), ask[a].key, 0) < LimitOf[ask[a].key]
                 /\ memory' = [memory EXCEPT ![a] = Plus(Kept(a), ask[a].key, moment)]
                 /\ alone' = [alone EXCEPT ![a] = Plus(alone[a], ask[a].key, moment)]
<1>1. ~ table /\ ask[a].key # "none" /\ UNCHANGED <<moment, table, hitRows, outages>>
  BY DEF MemoryHit
<1>2. ask[a].key \in LimitKeys
  BY <1>1, AskOf
<1>3. CASE Since(Kept(a), ask[a].key, 0) >= LimitOf[ask[a].key]
  <2>1. memory' = [memory EXCEPT ![a] = Kept(a)] /\ Refuse(a)
    BY <1>3 DEF MemoryHit, Kept
  <2> QED BY <1>1, <1>2, <2>1, RefuseOff
<1>4. CASE ~ (Since(Kept(a), ask[a].key, 0) >= LimitOf[ask[a].key])
  <2>1. memory' = [memory EXCEPT ![a] = Plus(Kept(a), ask[a].key, moment)] /\ LetThrough(a, moment)
    BY <1>4 DEF MemoryHit, Kept
  <2>2. Since(Kept(a), ask[a].key, 0) < LimitOf[ask[a].key]
    <3>1. Since(Kept(a), ask[a].key, 0) \in Nat
      BY <1>1, <1>2, KeptHits, HitsCard DEF Since
    <3> QED BY <1>2, <1>4, <3>1, Windows
  <2>3. Off(a)
    BY <2>1, ThroughOff
  <2>4. granted' = granted /\ alone' = [alone EXCEPT ![a] = Plus(alone[a], ask[a].key, moment)]
    BY <1>1, <2>1 DEF LetThrough
  <2> QED BY <1>1, <1>2, <2>1, <2>2, <2>3, <2>4
<1> QED BY <1>3, <1>4

LEMMA CountDoes ==
    ASSUME RateTypeOK, Reached, NEW a \in Askers, CountHits(a)
    PROVE  /\ table /\ ask[a].key \in LimitKeys /\ ask[a].counted = -1
           /\ UNCHANGED <<moment, table, hitRows, memory, outages, granted, alone>>
           /\ ask' \in [Askers -> Asks] /\ Reached'
           /\ ask'[a].key = ask[a].key /\ ask'[a].at = ask[a].at
           /\ ask'[a].counted = Since(hitRows, ask[a].key, ask[a].at - WindowOf[ask[a].key])
           /\ \A b \in Askers : b # a => ask'[b] = ask[b]
<1> DEFINE n == Since(hitRows, ask[a].key, Cutoff(a))
           r == [key |-> ask[a].key, at |-> ask[a].at, counted |-> n, tries |-> ask[a].tries]
<1>1. /\ table /\ ask[a].key # "none" /\ ask[a].counted = -1
      /\ UNCHANGED <<moment, table, hitRows, memory, outages, granted, alone>>
      /\ ask' = [ask EXCEPT ![a].counted = n]
  BY DEF CountHits
<1>2. ask[a].key \in LimitKeys
  BY <1>1, AskOf
<1>3. n \in Nat
  BY <1>2, HitsCard DEF Since, RateTypeOK
<1> HIDE DEF n
<1>4. ask[a] = [key |-> ask[a].key, at |-> ask[a].at, counted |-> ask[a].counted, tries |-> ask[a].tries]
      /\ ask[a] \in Asks
  BY DEF RateTypeOK, Asks
<1>5. [ask[a] EXCEPT !.counted = n] = r
  BY ONLY <1>4
<1>6. ask' = [ask EXCEPT ![a] = r]
  BY <1>1, <1>5
<1>7. r.key = ask[a].key /\ r.at = ask[a].at /\ r.counted = n /\ r \in Asks
  BY <1>3, <1>4 DEF Asks
<1> HIDE DEF r
<1>8. ask'[a] = r /\ ask' \in [Askers -> Asks] /\ \A b \in Askers : b # a => ask'[b] = ask[b]
  BY <1>6, <1>7 DEF RateTypeOK
<1>9. Reached'
  BY <1>1, <1>7, <1>8 DEF Reached
<1> QED BY <1>1, <1>2, <1>7, <1>8, <1>9 DEF n, Cutoff

LEMMA ArriveOff == ASSUME RateTypeOK, NEW a \in Askers, Arrive(a) PROVE Off(a) /\ UNCHANGED <<moment, table, hitRows, memory, outages, granted, alone>>
BY ReachOff DEF Arrive, LimitKeys

\* The types hold, and so does what a request's key, moment and count mean.
LEMMA RateTypeStep == RateTypeOK /\ Reached /\ [RateNext]_rateVars => RateTypeOK' /\ Reached'
<1> SUFFICES ASSUME RateTypeOK, Reached, [RateNext]_rateVars
             PROVE  RateTypeOK' /\ Reached'
  OBVIOUS
<1>1. ASSUME NEW a \in Askers, Arrive(a) PROVE RateTypeOK' /\ Reached'
  BY <1>1, ArriveOff, OffKeeps DEF RateTypeOK
<1>2. ASSUME NEW a \in Askers, CountHits(a) PROVE RateTypeOK' /\ Reached'
  BY <1>2, CountDoes DEF RateTypeOK
<1>3. ASSUME NEW a \in Askers, MemoryHit(a) PROVE RateTypeOK' /\ Reached'
  <2>1. /\ ~ table /\ ask[a].key \in LimitKeys /\ Off(a)
        /\ UNCHANGED <<moment, table, hitRows, outages, granted>>
        /\ \/ memory' = [memory EXCEPT ![a] = Kept(a)] /\ alone' = alone
           \/ /\ memory' = [memory EXCEPT ![a] = Plus(Kept(a), ask[a].key, moment)]
              /\ alone' = [alone EXCEPT ![a] = Plus(alone[a], ask[a].key, moment)]
    BY <1>3, MemoryDoes
  <2>2. ask' \in [Askers -> Asks] /\ Reached'
    BY <2>1, OffKeeps
  <2>3. Kept(a) \in Counts /\ HitsFinite(Kept(a))
    <3>1. ask[a].key # "none"
      BY <1>3 DEF MemoryHit
    <3> QED BY <3>1, KeptHits
  <2>4. /\ Plus(Kept(a), ask[a].key, moment) \in Counts /\ HitsFinite(Plus(Kept(a), ask[a].key, moment))
        /\ Plus(alone[a], ask[a].key, moment) \in Counts /\ HitsFinite(Plus(alone[a], ask[a].key, moment))
    <3>1. alone[a] \in Counts /\ HitsFinite(alone[a]) /\ moment \in Moments
      BY DEF RateTypeOK
    <3> QED BY <2>1, <2>3, <3>1, OneMoreHit
  <2> QED BY <2>1, <2>2, <2>3, <2>4 DEF RateTypeOK
<1>4. ASSUME NEW a \in Askers, NEW sweeps \in BOOLEAN, InsertHit(a, sweeps) PROVE RateTypeOK' /\ Reached'
  <2>1. /\ ask[a].key \in LimitKeys /\ Off(a) /\ UNCHANGED <<moment, table, memory, outages, alone>>
        /\ \/ /\ hitRows' = Swept(hitRows, a, sweeps) /\ granted' = granted
           \/ /\ hitRows' = Plus(Swept(hitRows, a, sweeps), ask[a].key, ask[a].at)
              /\ granted' = Plus(granted, ask[a].key, ask[a].at)
    BY <1>4, InsertDoes
  <2>2. ask' \in [Askers -> Asks] /\ Reached'
    BY <2>1, OffKeeps
  <2>3. Swept(hitRows, a, sweeps) \in Counts /\ HitsFinite(Swept(hitRows, a, sweeps)) /\ ask[a].at \in Moments
    <3>1. ask[a].key # "none"
      BY <2>1 DEF LimitKeys
    <3> QED BY <3>1, SweptKeeps, AskOf
  <2>4. /\ Plus(Swept(hitRows, a, sweeps), ask[a].key, ask[a].at) \in Counts
        /\ HitsFinite(Plus(Swept(hitRows, a, sweeps), ask[a].key, ask[a].at))
        /\ Plus(granted, ask[a].key, ask[a].at) \in Counts /\ HitsFinite(Plus(granted, ask[a].key, ask[a].at))
    BY <2>1, <2>3, OneMoreHit DEF RateTypeOK
  <2> QED BY <2>1, <2>2, <2>3, <2>4 DEF RateTypeOK
<1>5. ASSUME NEW a \in Askers, NEW committed \in BOOLEAN, Outage(a, committed) PROVE RateTypeOK' /\ Reached'
  <2>1. /\ ask[a].key \in LimitKeys /\ Off(a) /\ UNCHANGED <<moment, table, memory, granted, alone>> /\ outages' = outages + 1
        /\ \/ hitRows' = hitRows
           \/ hitRows' = Plus(hitRows, ask[a].key, ask[a].at)
    BY <1>5, OutageDoes
  <2>2. ask' \in [Askers -> Asks] /\ Reached'
    BY <2>1, OffKeeps
  <2>3. Plus(hitRows, ask[a].key, ask[a].at) \in Counts /\ HitsFinite(Plus(hitRows, ask[a].key, ask[a].at))
    BY <2>1, AskOf, OneMoreHit DEF RateTypeOK
  <2> QED BY <2>1, <2>2, <2>3 DEF RateTypeOK
<1>6. ASSUME NEW key \in LimitKeys, ResetKey(key) \/ \E a \in Askers : ForgetKey(a, key) PROVE RateTypeOK' /\ Reached'
  <2>1. CASE ResetKey(key)
    BY <2>1, ClearedCounts DEF ResetKey, RateTypeOK, Reached
  <2>2. ASSUME NEW a \in Askers, ForgetKey(a, key) PROVE RateTypeOK' /\ Reached'
    <3>1. /\ memory' = [memory EXCEPT ![a] = Cleared(memory[a], key)]
          /\ alone' = [alone EXCEPT ![a] = Cleared(alone[a], key)]
          /\ UNCHANGED <<moment, table, hitRows, ask, outages, granted>>
      BY <2>2 DEF ForgetKey
    <3>2. /\ Cleared(memory[a], key) \in Counts /\ HitsFinite(Cleared(memory[a], key))
          /\ Cleared(alone[a], key) \in Counts /\ HitsFinite(Cleared(alone[a], key))
      BY ClearedCounts DEF RateTypeOK
    <3> QED BY <3>1, <3>2 DEF RateTypeOK, Reached
  <2> QED BY <1>6, <2>1, <2>2
<1>7. CASE Migrate
  <2>1. \A a \in Askers : ask[a] = AtRest
    BY <1>7 DEF Migrate
  <2> QED BY <1>7, <2>1, NoneHit DEF Migrate, RateTypeOK, Reached, AtRest
<1>8. CASE PassMoment
  <2>1. moment \in Nat /\ moment + 1 \in Moments
    <3>1. moment \in Moments /\ moment < LastMoment
      BY <1>8 DEF PassMoment, RateTypeOK
    <3>2. LastMoment \in Nat
      BY RateLimitsAssumption
    <3> QED BY ONLY <3>1, <3>2 DEF Moments
  <2>2. ASSUME NEW a \in Askers, ask[a].key # "none" PROVE ask[a].at <= moment + 1 /\ moment + 1 <= ask[a].at + Stall
    <3>1. ask[a].at \in Nat /\ Stall \in Nat /\ ask[a].at <= moment /\ moment < ask[a].at + Stall
      BY <1>8, <2>2, AskOf, Windows DEF PassMoment
    <3> QED BY ONLY <2>1, <3>1
  <2> QED BY <1>8, <2>1, <2>2 DEF PassMoment, RateTypeOK, Reached
<1>9. CASE UNCHANGED rateVars
  BY <1>9 DEF rateVars, RateTypeOK, Reached
<1> QED BY <1>1, <1>2, <1>3, <1>4, <1>5, <1>6, <1>7, <1>8, <1>9 DEF RateNext

\* Records and history lose and gain alike.
LEMMA BackedStep == RateTypeOK /\ Reached /\ Backed /\ [RateNext]_rateVars => Backed'
<1> SUFFICES ASSUME RateTypeOK, Reached, Backed, [RateNext]_rateVars
             PROVE  Backed'
  OBVIOUS
<1>0. /\ \A k \in LimitKeys, t \in Moments : granted[k][t] \in Nat /\ hitRows[k][t] \in Nat /\ t \in Nat /\ WindowOf[k] \in Nat
      /\ \A b \in Askers, k \in LimitKeys, t \in Moments : alone[b][k][t] \in Nat /\ memory[b][k][t] \in Nat
      /\ moment \in Nat
  BY Windows DEF RateTypeOK, Counts
<1>1. ASSUME NEW a \in Askers, Arrive(a) PROVE Backed'
  BY <1>1, ArriveOff DEF Backed
<1>2. ASSUME NEW a \in Askers, CountHits(a) PROVE Backed'
  BY <1>2, CountDoes DEF Backed
<1>3. ASSUME NEW a \in Askers, MemoryHit(a) PROVE Backed'
  <2>1. /\ ask[a].key \in LimitKeys /\ UNCHANGED <<moment, hitRows, granted>>
        /\ \/ memory' = [memory EXCEPT ![a] = Kept(a)] /\ alone' = alone
           \/ /\ memory' = [memory EXCEPT ![a] = Plus(Kept(a), ask[a].key, moment)]
              /\ alone' = [alone EXCEPT ![a] = Plus(alone[a], ask[a].key, moment)]
    BY <1>3, MemoryDoes
  <2>2. /\ Kept(a) \in Counts /\ HitsFinite(Kept(a))
        /\ \A k \in LimitKeys, t \in Moments : moment - WindowOf[k] <= t => Kept(a)[k][t] = memory[a][k][t]
    <3>1. ask[a].key # "none"
      BY <1>3 DEF MemoryHit
    <3> QED BY <3>1, KeptHits
  <2>3. \A k \in LimitKeys, t \in Moments : moment - WindowOf[k] <= t => alone[a][k][t] <= Kept(a)[k][t]
    BY <2>2 DEF Backed
  <2>4. \A k \in LimitKeys, t \in Moments :
           moment - WindowOf[k] <= t => Plus(alone[a], ask[a].key, moment)[k][t] <= Plus(Kept(a), ask[a].key, moment)[k][t]
    <3>1. alone[a] \in Counts /\ HitsFinite(alone[a]) /\ moment \in Moments
      BY DEF RateTypeOK
    <3>2. \A k \in LimitKeys, t \in Moments :
            Plus(alone[a], ask[a].key, moment)[k][t] = IF k = ask[a].key /\ t = moment THEN alone[a][k][t] + 1 ELSE alone[a][k][t]
      BY <2>1, <3>1, OneMoreHit
    <3>3. \A k \in LimitKeys, t \in Moments :
            Plus(Kept(a), ask[a].key, moment)[k][t] = IF k = ask[a].key /\ t = moment THEN Kept(a)[k][t] + 1 ELSE Kept(a)[k][t]
      BY <2>1, <2>2, <3>1, OneMoreHit
    <3>4. \A k \in LimitKeys, t \in Moments : alone[a][k][t] \in Nat /\ Kept(a)[k][t] \in Nat
      BY <1>0, <2>2 DEF Counts
    <3> QED BY <2>3, <3>2, <3>3, <3>4
  <2>5. memory \in [Askers -> Counts] /\ alone \in [Askers -> Counts]
    BY DEF RateTypeOK
  <2>6. ASSUME NEW b \in Askers, NEW k \in LimitKeys, NEW t \in Moments, moment - WindowOf[k] <= t
        PROVE  alone'[b][k][t] <= memory'[b][k][t]
    <3>1. CASE b = a
      BY <2>1, <2>3, <2>4, <2>5, <2>6, <3>1
    <3>2. CASE b # a
      BY <2>1, <2>5, <2>6, <3>2 DEF Backed
    <3> QED BY <3>1, <3>2
  <2> QED BY <2>1, <2>6 DEF Backed
<1>4. ASSUME NEW a \in Askers, NEW sweeps \in BOOLEAN, InsertHit(a, sweeps) PROVE Backed'
  <2>1. /\ ask[a].key \in LimitKeys /\ UNCHANGED <<moment, memory, alone>>
        /\ \/ /\ hitRows' = Swept(hitRows, a, sweeps) /\ granted' = granted
           \/ /\ hitRows' = Plus(Swept(hitRows, a, sweeps), ask[a].key, ask[a].at)
              /\ granted' = Plus(granted, ask[a].key, ask[a].at)
    BY <1>4, InsertDoes
  <2>2. /\ Swept(hitRows, a, sweeps) \in Counts /\ HitsFinite(Swept(hitRows, a, sweeps))
        /\ \A k \in LimitKeys, t \in Moments : moment - WindowOf[k] <= t => Swept(hitRows, a, sweeps)[k][t] = hitRows[k][t]
    <3>1. ask[a].key # "none"
      BY <2>1 DEF LimitKeys
    <3> QED BY <3>1, SweptKeeps
  <2>3. \A k \in LimitKeys, t \in Moments : moment - WindowOf[k] <= t => granted[k][t] <= Swept(hitRows, a, sweeps)[k][t]
    BY <2>2 DEF Backed
  <2>4. \A k \in LimitKeys, t \in Moments :
           moment - WindowOf[k] <= t =>
              Plus(granted, ask[a].key, ask[a].at)[k][t] <= Plus(Swept(hitRows, a, sweeps), ask[a].key, ask[a].at)[k][t]
    <3>1. granted \in Counts /\ HitsFinite(granted) /\ ask[a].at \in Moments
      BY AskOf DEF RateTypeOK
    <3>2. \A k \in LimitKeys, t \in Moments :
            Plus(granted, ask[a].key, ask[a].at)[k][t] = IF k = ask[a].key /\ t = ask[a].at THEN granted[k][t] + 1 ELSE granted[k][t]
      BY <2>1, <3>1, OneMoreHit
    <3>3. \A k \in LimitKeys, t \in Moments :
            Plus(Swept(hitRows, a, sweeps), ask[a].key, ask[a].at)[k][t] =
            IF k = ask[a].key /\ t = ask[a].at THEN Swept(hitRows, a, sweeps)[k][t] + 1 ELSE Swept(hitRows, a, sweeps)[k][t]
      BY <2>1, <2>2, <3>1, OneMoreHit
    <3>4. \A k \in LimitKeys, t \in Moments : granted[k][t] \in Nat /\ Swept(hitRows, a, sweeps)[k][t] \in Nat
      BY <1>0, <2>2 DEF Counts
    <3> QED BY <2>3, <3>2, <3>3, <3>4
  <2> QED BY <2>1, <2>3, <2>4 DEF Backed
<1>5. ASSUME NEW a \in Askers, NEW committed \in BOOLEAN, Outage(a, committed) PROVE Backed'
  <2>1. /\ ask[a].key \in LimitKeys /\ UNCHANGED <<moment, memory, granted, alone>>
        /\ \/ hitRows' = hitRows
           \/ hitRows' = Plus(hitRows, ask[a].key, ask[a].at)
    BY <1>5, OutageDoes
  <2>2. \A k \in LimitKeys, t \in Moments :
          Plus(hitRows, ask[a].key, ask[a].at)[k][t] = IF k = ask[a].key /\ t = ask[a].at THEN hitRows[k][t] + 1 ELSE hitRows[k][t]
    <3>1. hitRows \in Counts /\ HitsFinite(hitRows) /\ ask[a].at \in Moments
      BY AskOf DEF RateTypeOK
    <3> QED BY <2>1, <3>1, OneMoreHit
  <2>3. \A k \in LimitKeys, t \in Moments : hitRows[k][t] <= hitRows'[k][t]
    BY <1>0, <2>1, <2>2
  <2>4. \A k \in LimitKeys, t \in Moments : moment - WindowOf[k] <= t => granted[k][t] <= hitRows'[k][t]
    <3>1. \A k \in LimitKeys, t \in Moments : moment - WindowOf[k] <= t => granted[k][t] <= hitRows[k][t]
      BY DEF Backed
    <3>2. \A k \in LimitKeys, t \in Moments : hitRows'[k][t] \in Nat
      BY <1>0, <2>1, <2>2
    <3> QED BY <1>0, <2>3, <3>1, <3>2
  <2> QED BY <2>1, <2>4 DEF Backed
<1>6. ASSUME NEW key \in LimitKeys, ResetKey(key) PROVE Backed'
  <2>1. /\ hitRows' = Cleared(hitRows, key) /\ granted' = Cleared(granted, key)
        /\ UNCHANGED <<moment, memory, alone>>
    BY <1>6 DEF ResetKey
  <2>2. \A k \in LimitKeys, t \in Moments :
          /\ k = key => granted'[k][t] = 0 /\ hitRows'[k][t] = 0
          /\ k # key => granted'[k][t] = granted[k][t] /\ hitRows'[k][t] = hitRows[k][t]
    BY <2>1, ClearedCounts DEF RateTypeOK
  <2>3. \A k \in LimitKeys, t \in Moments : moment - WindowOf[k] <= t => granted'[k][t] <= hitRows'[k][t]
    BY <2>2 DEF Backed
  <2> QED BY <2>1, <2>3 DEF Backed
<1>10. ASSUME NEW key \in LimitKeys, NEW a \in Askers, ForgetKey(a, key) PROVE Backed'
  <2>1. /\ memory' = [memory EXCEPT ![a] = Cleared(memory[a], key)]
        /\ alone' = [alone EXCEPT ![a] = Cleared(alone[a], key)]
        /\ UNCHANGED <<moment, hitRows, granted>>
    BY <1>10 DEF ForgetKey
  <2>2. \A k \in LimitKeys, t \in Moments :
          /\ k = key => Cleared(alone[a], key)[k][t] = 0 /\ Cleared(memory[a], key)[k][t] = 0
          /\ k # key => Cleared(alone[a], key)[k][t] = alone[a][k][t] /\ Cleared(memory[a], key)[k][t] = memory[a][k][t]
    BY ClearedCounts DEF RateTypeOK
  <2>3. memory \in [Askers -> Counts] /\ alone \in [Askers -> Counts]
    BY DEF RateTypeOK
  <2>4. ASSUME NEW b \in Askers, NEW k \in LimitKeys, NEW t \in Moments, moment - WindowOf[k] <= t
        PROVE  alone'[b][k][t] <= memory'[b][k][t]
    <3>1. alone[b][k][t] <= memory[b][k][t]
      BY <2>4 DEF Backed
    <3>2. CASE b = a
      BY <2>1, <2>2, <2>3, <3>1, <3>2
    <3>3. CASE b # a
      BY <2>1, <2>3, <3>1, <3>3
    <3> QED BY <3>2, <3>3
  <2> QED BY <2>1, <2>4 DEF Backed
<1>7. CASE Migrate
  <2>1. /\ memory' = [a \in Askers |-> NoHits] /\ alone' = memory'
        /\ UNCHANGED <<moment, hitRows, granted>>
    BY <1>7 DEF Migrate
  <2>2. \A b \in Askers, k \in LimitKeys, t \in Moments : alone'[b][k][t] <= memory'[b][k][t]
    BY <2>1 DEF NoHits
  <2> QED BY <2>1, <2>2 DEF Backed
<1>8. CASE PassMoment
  <2>1. moment' = moment + 1 /\ UNCHANGED <<hitRows, memory, granted, alone>>
    BY <1>8 DEF PassMoment
  <2>2. \A k \in LimitKeys, t \in Moments : moment' - WindowOf[k] <= t => moment - WindowOf[k] <= t
    BY <1>0, <2>1
  <2> QED BY <2>1, <2>2 DEF Backed
<1>9. CASE UNCHANGED rateVars
  BY <1>9 DEF rateVars, Backed
<1> QED BY <1>1, <1>2, <1>3, <1>4, <1>5, <1>6, <1>7, <1>8, <1>9, <1>10 DEF RateNext

\* The sets of requests under way are finite.
LEMMA EntrantsCard ==
    ASSUME NEW E \in SUBSET Askers
    PROVE  /\ IsFiniteSet(E) /\ Cardinality(E) \in Nat /\ Cardinality(E) <= Cardinality(Askers)
           /\ \A a \in Askers : /\ Cardinality(E \ {a}) = Cardinality(E) - (IF a \in E THEN 1 ELSE 0)
                                /\ IsFiniteSet(E \ {a})
<1>1. IsFiniteSet(Askers)
  BY RateLimitsAssumption
<1>2. IsFiniteSet(E) /\ Cardinality(E) <= Cardinality(Askers)
  BY <1>1, FS_Subset
<1>3. Cardinality(E) \in Nat
  BY <1>2, FS_CardinalityType
<1>4. ASSUME NEW a \in Askers
      PROVE  Cardinality(E \ {a}) = Cardinality(E) - (IF a \in E THEN 1 ELSE 0) /\ IsFiniteSet(E \ {a})
  BY <1>2, <1>3, FS_RemoveElement
<1> QED BY <1>2, <1>3, <1>4

\* What is let through since a moment, and what may yet be, when nothing more is let through.
LEMMA QuotaKept ==
    ASSUME RateTypeOK, Quota, moment' = moment, granted' = granted,
           NEW a, a \in Askers, \A k, t : Entrants(k, t)' = Entrants(k, t) \ {a}
    PROVE  Quota'
<1> SUFFICES ASSUME NEW k \in LimitKeys, NEW t \in Int, moment <= t + WindowOf[k]
             PROVE  Cardinality(HitsIn(granted, k, From(t))) + Cardinality(Entrants(k, t)') <= Most(k)
  BY DEF Quota
<1> DEFINE G == Cardinality(HitsIn(granted, k, From(t)))
           E == Entrants(k, t)
<1>1. G + Cardinality(E) <= Most(k)
  BY DEF Quota
<1>2. G \in Nat
  BY HitsCard DEF RateTypeOK, From
<1>3. Most(k) \in Int
  BY Windows DEF Most
<1>4. E \in SUBSET Askers
  BY DEF Entrants
<1>5. Cardinality(E) \in Nat /\ Cardinality(E \ {a}) = Cardinality(E) - (IF a \in E THEN 1 ELSE 0)
  BY <1>4, EntrantsCard
<1>6. Entrants(k, t)' = E \ {a}
  OBVIOUS
<1> HIDE DEF G, E
<1>7. G + Cardinality(E \ {a}) <= Most(k)
  BY <1>1, <1>2, <1>3, <1>5
<1> QED BY <1>6, <1>7 DEF G

LEMMA QuotaCount == ASSUME RateTypeOK, Reached, Backed, Quota, NEW a \in Askers, CountHits(a) PROVE Quota'
<1>1. /\ ask[a].key \in LimitKeys /\ ask[a].counted = -1 /\ moment' = moment /\ granted' = granted /\ hitRows' = hitRows
      /\ ask'[a].key = ask[a].key /\ ask'[a].at = ask[a].at
      /\ ask'[a].counted = Since(hitRows, ask[a].key, ask[a].at - WindowOf[ask[a].key])
      /\ \A b \in Askers : b # a => ask'[b] = ask[b]
  BY CountDoes
<1> SUFFICES ASSUME NEW k \in LimitKeys, NEW t \in Int, moment <= t + WindowOf[k]
             PROVE  Cardinality(HitsIn(granted, k, From(t))) + Cardinality(Entrants(k, t)') <= Most(k)
  BY <1>1 DEF Quota
<1>2. Cardinality(HitsIn(granted, k, From(t))) + Cardinality(Entrants(k, t)) <= Most(k)
  BY DEF Quota
<1>3. Cardinality(HitsIn(granted, k, From(t))) \in Nat
  BY HitsCard DEF RateTypeOK, From
<1>4. PICK E \in SUBSET Askers : E = Entrants(k, t)'
  BY DEF Entrants
<1>5. CASE a \notin E
  <2>1. E = Entrants(k, t)
    BY <1>1, <1>4, <1>5 DEF Entrants
  <2> QED BY <1>2, <1>4, <2>1
<1>6. CASE a \in E
  <2>1. k = ask[a].key /\ Since(hitRows, k, ask[a].at - WindowOf[k]) \in 0 .. LimitOf[k] - 1
    BY <1>1, <1>4, <1>6 DEF Entrants
  <2> DEFINE S == {u \in Moments : u >= ask[a].at - WindowOf[k]}
  <2>2. Cardinality(HitsIn(granted, k, From(t))) <= Cardinality(HitsIn(hitRows, k, S))
    <3>1. From(t) \in SUBSET Moments /\ S \in SUBSET Moments
      BY DEF From
    <3>2. ask[a].at \in Nat /\ moment \in Nat /\ ask[a].at <= moment /\ WindowOf[k] \in Nat
      <4>1. ask[a].key # "none"
        BY <1>1 DEF LimitKeys
      <4>2. ask[a].at \in Moments /\ ask[a].at <= moment
        BY <4>1, AskOf
      <4>3. moment \in Moments
        BY DEF RateTypeOK
      <4> QED BY <4>2, <4>3, Windows
    <3>3. ASSUME NEW u \in From(t) PROVE u \in S /\ moment - WindowOf[k] <= u
      <4>1. u \in Moments /\ u \in Nat /\ t <= u
        BY Windows DEF From
      <4>2. moment - WindowOf[k] <= u /\ u >= ask[a].at - WindowOf[k]
        BY ONLY <3>2, <4>1, t \in Int, moment <= t + WindowOf[k]
      <4> QED BY <4>1, <4>2
    <3>4. \A u \in From(t) : granted[k][u] <= hitRows[k][u]
      BY <3>1, <3>3 DEF Backed
    <3> HIDE DEF S
    <3> QED BY <3>1, <3>3, <3>4, FewerHitsCard DEF RateTypeOK
  <2>3. Cardinality(HitsIn(hitRows, k, S)) = Since(hitRows, k, ask[a].at - WindowOf[k])
    BY DEF Since
  <2>4. Cardinality(E) <= Cardinality(Askers) /\ Cardinality(E) \in Nat /\ Cardinality(Askers) \in Nat
    BY EntrantsCard, Windows
  <2>5. LimitOf[k] \in Nat
    BY Windows
  <2> HIDE DEF S
  <2>6. Cardinality(HitsIn(granted, k, From(t))) + Cardinality(E) <= LimitOf[k] + Cardinality(Askers) - 1
    BY ONLY <1>3, <2>1, <2>2, <2>3, <2>4, <2>5
  <2> QED BY <1>4, <2>6 DEF Most
<1> QED BY <1>5, <1>6

LEMMA QuotaInsert ==
    ASSUME RateTypeOK, Reached, Quota, NEW a \in Askers, NEW sweeps \in BOOLEAN, InsertHit(a, sweeps)
    PROVE  Quota'
<1>1. /\ table /\ ask[a].key \in LimitKeys /\ Off(a) /\ moment' = moment /\ table' = table
      /\ \/ granted' = granted
         \/ /\ ask[a].counted \in 0 .. LimitOf[ask[a].key] - 1
            /\ granted' = Plus(granted, ask[a].key, ask[a].at)
  BY InsertDoes
<1>2. \A k, t : Entrants(k, t)' = Entrants(k, t) \ {a}
  BY <1>1, OffKeeps
<1>3. CASE granted' = granted
  BY <1>1, <1>2, <1>3, QuotaKept
<1>4. CASE /\ ask[a].counted \in 0 .. LimitOf[ask[a].key] - 1
           /\ granted' = Plus(granted, ask[a].key, ask[a].at)
  <2> SUFFICES ASSUME NEW k \in LimitKeys, NEW t \in Int, moment <= t + WindowOf[k]
               PROVE  Cardinality(HitsIn(granted', k, From(t))) + Cardinality(Entrants(k, t)') <= Most(k)
    BY <1>1 DEF Quota
  <2> DEFINE G == Cardinality(HitsIn(granted, k, From(t)))
             E == Entrants(k, t)
             H == Cardinality(HitsIn(granted', k, From(t)))
  <2>1. G + Cardinality(E) <= Most(k)
    BY DEF Quota
  <2>2. G \in Nat /\ H = G + (IF k = ask[a].key /\ ask[a].at \in From(t) THEN 1 ELSE 0)
    <3>1. granted \in Counts /\ HitsFinite(granted) /\ ask[a].at \in Moments /\ From(t) \in SUBSET Moments
      BY AskOf DEF RateTypeOK, From
    <3>2. G \in Nat
      BY <3>1, HitsCard
    <3>3. HitsIn(granted', k, From(t)) = HitsIn(Plus(granted, ask[a].key, ask[a].at), k, From(t))
      BY <1>4
    <3> QED BY <1>1, <3>1, <3>2, <3>3, OneMoreHit
  <2>3. Most(k) \in Int
    BY Windows DEF Most
  <2>4. E \in SUBSET Askers
    BY DEF Entrants
  <2>5. Cardinality(E) \in Nat /\ Cardinality(E \ {a}) = Cardinality(E) - (IF a \in E THEN 1 ELSE 0)
    BY <2>4, EntrantsCard
  <2>6. Entrants(k, t)' = E \ {a}
    BY <1>2
  <2>7. a \in E <=> k = ask[a].key /\ ask[a].at \in From(t)
    BY <1>4, AskOf DEF Entrants, From
  <2> HIDE DEF G, E, H
  <2>8. H + Cardinality(E \ {a}) <= Most(k)
    BY <2>1, <2>2, <2>3, <2>5, <2>7
  <2> QED BY <2>6, <2>8 DEF H
<1> QED BY <1>1, <1>3, <1>4

LEMMA QuotaReset == ASSUME RateTypeOK, Quota, NEW key \in LimitKeys, ResetKey(key) PROVE Quota'
<1>1. granted' = Cleared(granted, key) /\ moment' = moment /\ ask' = ask
  BY DEF ResetKey
<1>2. \A k, t : Entrants(k, t)' = Entrants(k, t)
  BY <1>1 DEF Entrants
<1> SUFFICES ASSUME NEW k \in LimitKeys, NEW t \in Int, moment <= t + WindowOf[k]
             PROVE  Cardinality(HitsIn(granted', k, From(t))) + Cardinality(Entrants(k, t)) <= Most(k)
  BY <1>1, <1>2 DEF Quota
<1>3. CASE k = key
  <2>2. PICK c \in Counts : c = granted' /\ c[k] = NoHits[k]
    BY <1>1, <1>3, ClearedCounts DEF RateTypeOK
  <2>3. From(t) \in SUBSET Moments
    BY DEF From
  <2>4. Cardinality(HitsIn(granted', k, From(t))) = 0
    BY <2>2, <2>3, NoHitsCard
  <2>5. PICK E \in SUBSET Askers : E = Entrants(k, t)
    BY DEF Entrants
  <2>6. Cardinality(E) <= Cardinality(Askers) /\ Cardinality(E) \in Nat /\ Cardinality(Askers) \in Nat
        /\ LimitOf[k] \in Nat /\ LimitOf[k] > 0
    BY EntrantsCard, Windows
  <2>7. 0 + Cardinality(E) <= LimitOf[k] + Cardinality(Askers) - 1
    BY ONLY <2>6
  <2> QED BY <2>4, <2>5, <2>7 DEF Most
<1>4. CASE k # key
  <2>1. granted'[k] = granted[k]
    BY <1>1, <1>4, ClearedCounts DEF RateTypeOK
  <2>2. HitsIn(granted', k, From(t)) = HitsIn(granted, k, From(t))
    BY <2>1 DEF HitsIn
  <2> QED BY <2>2 DEF Quota
<1> QED BY <1>3, <1>4

LEMMA QuotaStep == RateTypeOK /\ Reached /\ Backed /\ Quota /\ [RateNext]_rateVars => Quota'
<1> SUFFICES ASSUME RateTypeOK, Reached, Backed, Quota, [RateNext]_rateVars
             PROVE  Quota'
  OBVIOUS
<1>1. ASSUME NEW a \in Askers, Arrive(a) PROVE Quota'
  <2>1. Off(a) /\ UNCHANGED <<moment, table, granted>>
    BY <1>1, ArriveOff
  <2>2. \A k, t : Entrants(k, t)' = Entrants(k, t) \ {a}
    BY <2>1, OffKeeps
  <2> QED BY <2>1, <2>2, QuotaKept
<1>2. ASSUME NEW a \in Askers, CountHits(a) PROVE Quota'
  BY <1>2, QuotaCount
<1>3. ASSUME NEW a \in Askers, MemoryHit(a) PROVE Quota'
  <2>1. Off(a) /\ UNCHANGED <<moment, table, granted>>
    BY <1>3, MemoryDoes
  <2>2. \A k, t : Entrants(k, t)' = Entrants(k, t) \ {a}
    BY <2>1, OffKeeps
  <2> QED BY <2>1, <2>2, QuotaKept
<1>4. ASSUME NEW a \in Askers, NEW sweeps \in BOOLEAN, InsertHit(a, sweeps) PROVE Quota'
  BY <1>4, QuotaInsert
<1>5. ASSUME NEW a \in Askers, NEW committed \in BOOLEAN, Outage(a, committed) PROVE Quota'
  <2>1. Off(a) /\ UNCHANGED <<moment, table, granted>>
    BY <1>5, OutageDoes
  <2>2. \A k, t : Entrants(k, t)' = Entrants(k, t) \ {a}
    BY <2>1, OffKeeps
  <2> QED BY <2>1, <2>2, QuotaKept
<1>6. ASSUME NEW key \in LimitKeys, ResetKey(key) PROVE Quota'
  BY <1>6, QuotaReset
<1>7. CASE Migrate \/ \E key \in LimitKeys, a \in Askers : ForgetKey(a, key)
  BY <1>7 DEF Migrate, ForgetKey, Quota, Entrants
<1>8. CASE PassMoment
  <2>1. moment' = moment + 1 /\ granted' = granted /\ ask' = ask
    BY <1>8 DEF PassMoment
  <2>2. \A k, t : Entrants(k, t)' = Entrants(k, t)
    BY <2>1 DEF Entrants
  <2>3. ASSUME NEW k \in LimitKeys, NEW t \in Int, moment' <= t + WindowOf[k] PROVE moment <= t + WindowOf[k]
    <3>1. moment \in Nat /\ WindowOf[k] \in Nat
      BY Windows DEF RateTypeOK
    <3> QED BY <2>1, <2>3, <3>1
  <2> QED BY <2>1, <2>2, <2>3 DEF Quota
<1>9. CASE UNCHANGED rateVars
  BY <1>9 DEF rateVars, Quota, Entrants
<1> QED BY <1>1, <1>2, <1>3, <1>4, <1>5, <1>6, <1>7, <1>8, <1>9 DEF RateNext

\* A window that is over is not added to: a hit is entered at most Stall after it was asked.
LEMMA PastStep == RateTypeOK /\ Reached /\ Quota /\ Past /\ [RateNext]_rateVars => Past'
<1> SUFFICES ASSUME RateTypeOK, Reached, Quota, Past, [RateNext]_rateVars
             PROVE  Past'
  OBVIOUS
<1>0. /\ granted \in Counts /\ HitsFinite(granted) /\ moment \in Nat
      /\ \A t, last : Between(t, last) \in SUBSET Moments /\ From(t) \in SUBSET Moments /\ Between(t, last) \subseteq From(t)
  BY Windows DEF RateTypeOK, Between, From
<1>1. CASE moment' = moment /\ granted' = granted
  BY <1>1 DEF Past
<1>2. ASSUME NEW a \in Askers, NEW sweeps \in BOOLEAN, InsertHit(a, sweeps) PROVE Past'
  <2>1. /\ ask[a].key \in LimitKeys /\ moment' = moment
        /\ granted' = granted \/ granted' = Plus(granted, ask[a].key, ask[a].at)
    BY <1>2, InsertDoes
  <2>2. CASE granted' = granted
    BY <1>1, <2>1, <2>2
  <2>3. CASE granted' = Plus(granted, ask[a].key, ask[a].at)
    <3> SUFFICES ASSUME NEW k \in LimitKeys, NEW t \in Int, t + WindowOf[k] < moment
                 PROVE  Cardinality(HitsIn(granted', k, Between(t, t + WindowOf[k] - Stall))) <= Most(k)
      BY <2>1 DEF Past
    <3>1. ask[a].at \in Moments /\ moment <= ask[a].at + Stall
      <4>1. ask[a].key # "none"
        BY <2>1 DEF LimitKeys
      <4> QED BY <4>1, AskOf
    <3>2. ask[a].at \notin Between(t, t + WindowOf[k] - Stall)
      <4>1. ask[a].at \in Nat /\ WindowOf[k] \in Nat /\ Stall \in Nat
        BY <3>1, Windows
      <4>2. ~ (ask[a].at <= t + WindowOf[k] - Stall)
        BY ONLY <1>0, <3>1, <4>1, t \in Int, t + WindowOf[k] < moment
      <4> QED BY <4>2 DEF Between
    <3>3. PICK S \in SUBSET Moments : S = Between(t, t + WindowOf[k] - Stall)
      BY <1>0
    <3>4. Cardinality(HitsIn(Plus(granted, ask[a].key, ask[a].at), k, S)) = Cardinality(HitsIn(granted, k, S)) + 0
      BY <1>0, <2>1, <3>1, <3>2, <3>3, OneMoreHit
    <3>5. Cardinality(HitsIn(granted, k, S)) \in Nat
      BY <1>0, HitsCard
    <3>6. Cardinality(HitsIn(granted, k, S)) <= Most(k)
      BY <3>3 DEF Past
    <3>7. Cardinality(HitsIn(Plus(granted, ask[a].key, ask[a].at), k, S)) <= Most(k)
      BY <3>4, <3>5, <3>6
    <3> QED BY <2>3, <3>3, <3>7
  <2> QED BY <2>1, <2>2, <2>3
<1>3. ASSUME NEW a \in Askers, Arrive(a) \/ CountHits(a) \/ MemoryHit(a) \/ (\E committed \in BOOLEAN : Outage(a, committed))
      PROVE  moment' = moment /\ granted' = granted
  <2>1. CASE Arrive(a)
    BY <2>1 DEF Arrive
  <2>2. CASE CountHits(a)
    BY <2>2 DEF CountHits
  <2>3. CASE MemoryHit(a)
    BY <2>3, MemoryDoes
  <2>4. ASSUME NEW committed \in BOOLEAN, Outage(a, committed) PROVE moment' = moment /\ granted' = granted
    BY <2>4, OutageDoes
  <2> QED BY <1>3, <2>1, <2>2, <2>3, <2>4
<1>4. ASSUME NEW key \in LimitKeys, ResetKey(key) PROVE Past'
  <2>1. granted' = Cleared(granted, key) /\ moment' = moment
    BY <1>4 DEF ResetKey
  <2> SUFFICES ASSUME NEW k \in LimitKeys, NEW t \in Int, t + WindowOf[k] < moment
               PROVE  Cardinality(HitsIn(granted', k, Between(t, t + WindowOf[k] - Stall))) <= Most(k)
    BY <2>1 DEF Past
  <2>2. PICK S \in SUBSET Moments : S = Between(t, t + WindowOf[k] - Stall)
    BY <1>0
  <2>3. Cardinality(HitsIn(granted, k, S)) <= Most(k)
    BY <2>2 DEF Past
  <2>4. CASE k = key
    <3>2. PICK c \in Counts : c = granted' /\ c[k] = NoHits[k]
      BY <1>0, <2>1, <2>4, ClearedCounts
    <3>3. Cardinality(HitsIn(granted', k, S)) = 0
      BY <3>2, NoHitsCard
    <3>4. 0 <= Most(k)
      BY Windows DEF Most
    <3> QED BY <2>2, <3>3, <3>4
  <2>5. CASE k # key
    <3>1. granted'[k] = granted[k]
      BY <1>0, <2>1, <2>5, ClearedCounts
    <3>2. HitsIn(granted', k, S) = HitsIn(granted, k, S)
      BY <3>1 DEF HitsIn
    <3> QED BY <2>2, <2>3, <3>2
  <2> QED BY <2>4, <2>5
<1>5. CASE Migrate \/ \E key \in LimitKeys, a \in Askers : ForgetKey(a, key)
  BY <1>1, <1>5 DEF Migrate, ForgetKey
<1>6. CASE PassMoment
  <2>1. moment' = moment + 1 /\ granted' = granted
    BY <1>6 DEF PassMoment
  <2> SUFFICES ASSUME NEW k \in LimitKeys, NEW t \in Int, t + WindowOf[k] < moment + 1
               PROVE  Cardinality(HitsIn(granted, k, Between(t, t + WindowOf[k] - Stall))) <= Most(k)
    BY <2>1 DEF Past
  <2>2. PICK S \in SUBSET Moments : S = Between(t, t + WindowOf[k] - Stall) /\ S \subseteq From(t)
    BY <1>0
  <2>3. CASE t + WindowOf[k] < moment
    BY <2>3 DEF Past
  <2>4. CASE ~ (t + WindowOf[k] < moment)
    <3>1. WindowOf[k] \in Nat
      BY Windows
    <3>2. moment <= t + WindowOf[k]
      BY <1>0, <2>4, <3>1
    <3>3. Cardinality(HitsIn(granted, k, From(t))) + Cardinality(Entrants(k, t)) <= Most(k)
      BY <3>2 DEF Quota
    <3>4. Cardinality(HitsIn(granted, k, S)) <= Cardinality(HitsIn(granted, k, From(t)))
      <4>1. \A u \in S : granted[k][u] <= granted[k][u]
        BY <1>0 DEF Counts
      <4>2. From(t) \in SUBSET Moments
        BY <1>0
      <4> QED BY <1>0, <2>2, <4>1, <4>2, FewerHitsCard
    <3>5. /\ Cardinality(HitsIn(granted, k, S)) \in Nat /\ Cardinality(HitsIn(granted, k, From(t))) \in Nat
          /\ Most(k) \in Int
      <4>1. From(t) \in SUBSET Moments
        BY <1>0
      <4> QED BY <1>0, <4>1, HitsCard, Windows DEF Most
    <3>6. Cardinality(Entrants(k, t)) \in Nat
      <4>1. Entrants(k, t) \in SUBSET Askers
        BY DEF Entrants
      <4> QED BY <4>1, EntrantsCard
    <3>7. Cardinality(HitsIn(granted, k, S)) <= Most(k)
      BY ONLY <3>3, <3>4, <3>5, <3>6
    <3> QED BY <2>2, <3>7
  <2> QED BY <2>3, <2>4
<1>7. CASE UNCHANGED rateVars
  BY <1>1, <1>7 DEF rateVars
<1> QED BY <1>1, <1>2, <1>3, <1>4, <1>5, <1>6, <1>7 DEF RateNext

\* A process that counts for itself lets no window have more than the limit.
LEMMA AloneStep == RateTypeOK /\ Reached /\ Backed /\ AloneLimited /\ [RateNext]_rateVars => AloneLimited'
<1> SUFFICES ASSUME RateTypeOK, Reached, Backed, AloneLimited, [RateNext]_rateVars
             PROVE  AloneLimited'
  OBVIOUS
<1>1. CASE alone' = alone
  BY <1>1 DEF AloneLimited
<1>2. ASSUME NEW a \in Askers, MemoryHit(a) PROVE AloneLimited'
  <2>1. /\ ask[a].key \in LimitKeys
        /\ \/ alone' = alone
           \/ /\ Since(Kept(a), ask[a].key, 0) < LimitOf[ask[a].key]
              /\ alone' = [alone EXCEPT ![a] = Plus(alone[a], ask[a].key, moment)]
    BY <1>2, MemoryDoes
  <2>2. CASE alone' = alone
    BY <1>1, <2>2
  <2>3. CASE /\ Since(Kept(a), ask[a].key, 0) < LimitOf[ask[a].key]
             /\ alone' = [alone EXCEPT ![a] = Plus(alone[a], ask[a].key, moment)]
    <3>1. alone'[a] = Plus(alone[a], ask[a].key, moment) /\ \A b \in Askers : b # a => alone'[b] = alone[b]
      BY <2>3 DEF RateTypeOK
    <3> SUFFICES ASSUME NEW k \in LimitKeys, NEW t \in Int
                 PROVE  Cardinality(HitsIn(Plus(alone[a], ask[a].key, moment), k, Between(t, t + WindowOf[k]))) <= LimitOf[k]
      BY <3>1 DEF AloneLimited
    <3>2. PICK S \in SUBSET Moments : S = Between(t, t + WindowOf[k])
      BY DEF Between
    <3>3. /\ alone[a] \in Counts /\ HitsFinite(alone[a]) /\ moment \in Moments /\ moment \in Nat
          /\ WindowOf[k] \in Nat /\ LimitOf[k] \in Nat
      BY Windows DEF RateTypeOK
    <3>4. /\ Cardinality(HitsIn(alone[a], k, S)) \in Nat
          /\ Cardinality(HitsIn(Plus(alone[a], ask[a].key, moment), k, S)) =
             Cardinality(HitsIn(alone[a], k, S)) + (IF k = ask[a].key /\ moment \in S THEN 1 ELSE 0)
      BY <2>1, <3>3, HitsCard, OneMoreHit
    <3>5. CASE ~ (k = ask[a].key /\ moment \in S)
      <4>1. Cardinality(HitsIn(alone[a], k, S)) <= LimitOf[k]
        BY <3>2 DEF AloneLimited
      <4> QED BY <3>2, <3>4, <3>5, <4>1
    <3>6. CASE k = ask[a].key /\ moment \in S
      <4> DEFINE T == {u \in Moments : u >= 0}
      <4>1. /\ Kept(a) \in Counts /\ HitsFinite(Kept(a))
            /\ \A u \in Moments : moment - WindowOf[k] <= u => Kept(a)[k][u] = memory[a][k][u]
        <5>1. ask[a].key # "none"
          BY <1>2 DEF MemoryHit
        <5> QED BY <5>1, KeptHits
      <4>2. ASSUME NEW u \in S PROVE u \in T /\ alone[a][k][u] <= Kept(a)[k][u]
        <5>1. u \in Moments /\ u \in Nat /\ t <= u /\ moment <= t + WindowOf[k]
          BY <3>2, <3>6, Windows DEF Between
        <5>2. moment - WindowOf[k] <= u /\ u >= 0
          BY ONLY <3>3, <5>1, t \in Int
        <5> QED BY <4>1, <5>1, <5>2 DEF Backed
      <4>3. Since(Kept(a), k, 0) = Cardinality(HitsIn(Kept(a), k, T))
        BY DEF Since
      <4>4. T \in SUBSET Moments
        OBVIOUS
      <4> HIDE DEF T
      <4>5. Cardinality(HitsIn(alone[a], k, S)) <= Cardinality(HitsIn(Kept(a), k, T))
        BY <3>3, <4>1, <4>2, <4>4, FewerHitsCard
      <4>6. Cardinality(HitsIn(Kept(a), k, T)) \in Nat /\ Cardinality(HitsIn(Kept(a), k, T)) < LimitOf[k]
        BY <2>3, <3>6, <4>1, <4>3, <4>4, HitsCard
      <4>7. Cardinality(HitsIn(alone[a], k, S)) + 1 <= LimitOf[k]
        BY ONLY <3>3, <3>4, <4>5, <4>6
      <4> QED BY <3>2, <3>4, <3>6, <4>7
    <3> QED BY <3>5, <3>6
  <2> QED BY <2>1, <2>2, <2>3
<1>3. ASSUME NEW a \in Askers, \/ Arrive(a) \/ CountHits(a)
                               \/ \E sweeps \in BOOLEAN : InsertHit(a, sweeps)
                               \/ \E committed \in BOOLEAN : Outage(a, committed)
      PROVE  alone' = alone
  <2>1. CASE Arrive(a)
    BY <2>1 DEF Arrive
  <2>2. CASE CountHits(a)
    BY <2>2 DEF CountHits
  <2>3. ASSUME NEW sweeps \in BOOLEAN, InsertHit(a, sweeps) PROVE alone' = alone
    BY <2>3, InsertDoes
  <2>4. ASSUME NEW committed \in BOOLEAN, Outage(a, committed) PROVE alone' = alone
    BY <2>4, OutageDoes
  <2> QED BY <1>3, <2>1, <2>2, <2>3, <2>4
<1>4. CASE (\E key \in LimitKeys : ResetKey(key)) \/ PassMoment \/ UNCHANGED rateVars
  BY <1>1, <1>4 DEF ResetKey, PassMoment, rateVars
<1>5. CASE Migrate
  <2>1. alone' = [a \in Askers |-> NoHits]
    BY <1>5 DEF Migrate
  <2>2. \A a \in Askers : alone'[a] = NoHits
    BY <2>1
  <2>3. ASSUME NEW k \in LimitKeys, NEW t \in Int
        PROVE  Cardinality(HitsIn(NoHits, k, Between(t, t + WindowOf[k]))) <= LimitOf[k]
    <3>1. Between(t, t + WindowOf[k]) \in SUBSET Moments
      BY DEF Between
    <3>2. Cardinality(HitsIn(NoHits, k, Between(t, t + WindowOf[k]))) = 0
      BY <3>1, NoneHit, NoHitsCard
    <3> QED BY <3>2, Windows
  <2> QED BY <2>2, <2>3 DEF AloneLimited
<1>6. ASSUME NEW key \in LimitKeys, NEW a \in Askers, ForgetKey(a, key) PROVE AloneLimited'
  <2>1. alone' = [alone EXCEPT ![a] = Cleared(alone[a], key)]
    BY <1>6 DEF ForgetKey
  <2>2. alone'[a] = Cleared(alone[a], key) /\ \A b \in Askers : b # a => alone'[b] = alone[b]
    BY <2>1 DEF RateTypeOK
  <2>3. ASSUME NEW k \in LimitKeys, NEW t \in Int
        PROVE  Cardinality(HitsIn(Cleared(alone[a], key), k, Between(t, t + WindowOf[k]))) <= LimitOf[k]
    <3>1. alone[a] \in Counts /\ HitsFinite(alone[a])
      BY DEF RateTypeOK
    <3>2. PICK S \in SUBSET Moments : S = Between(t, t + WindowOf[k])
      BY DEF Between
    <3>3. PICK c \in Counts : c = Cleared(alone[a], key) /\ c[k] = IF k = key THEN NoHits[k] ELSE alone[a][k]
      BY <3>1, ClearedCounts
    <3>4. CASE k = key
      <4>1. Cardinality(HitsIn(c, k, S)) = 0
        BY <3>3, <3>4, NoHitsCard
      <4> QED BY <3>2, <3>3, <4>1, Windows
    <3>5. CASE k # key
      <4>1. HitsIn(c, k, S) = HitsIn(alone[a], k, S)
        BY <3>3, <3>5 DEF HitsIn
      <4> QED BY <3>2, <3>3, <4>1 DEF AloneLimited
    <3> QED BY <3>4, <3>5
  <2> QED BY <2>2, <2>3 DEF AloneLimited
<1> QED BY <1>1, <1>2, <1>3, <1>4, <1>5, <1>6 DEF RateNext

LEMMA RateInitial == RateInit => RateInv
<1> SUFFICES ASSUME RateInit PROVE RateInv
  OBVIOUS
<1>1. /\ moment = 0 /\ table \in BOOLEAN /\ outages = 0 /\ hitRows = NoHits /\ granted = NoHits
      /\ memory = [a \in Askers |-> NoHits] /\ alone = [a \in Askers |-> NoHits] /\ ask = [a \in Askers |-> AtRest]
  BY DEF RateInit
<1>2. 0 \in Moments /\ AtRest \in Asks /\ AtRest.key = "none" /\ AtRest.counted = -1
  BY RateLimitsAssumption DEF Moments, AtRest, Asks
<1>3. RateTypeOK
  BY <1>1, <1>2, NoneHit DEF RateTypeOK
<1>4. Reached
  BY <1>1, <1>2 DEF Reached
<1>5. Backed
  <2>1. \A k \in LimitKeys, t \in Moments : NoHits[k][t] = 0
    BY DEF NoHits
  <2> QED BY <1>1, <2>1 DEF Backed
<1>6. \A k \in LimitKeys : \A S \in SUBSET Moments : Cardinality(HitsIn(NoHits, k, S)) = 0
  BY NoneHit, NoHitsCard
<1>7. \A k \in LimitKeys : 0 <= Most(k) /\ 0 <= LimitOf[k]
  BY Windows DEF Most
<1>8. Quota
  <2>1. \A k, t : Entrants(k, t) = {}
    BY <1>1, <1>2 DEF Entrants
  <2>2. \A t : From(t) \in SUBSET Moments
    BY DEF From
  <2>3. Cardinality({}) = 0
    BY FS_EmptySet
  <2> QED BY <1>1, <1>6, <1>7, <2>1, <2>2, <2>3 DEF Quota
<1>9. Past /\ AloneLimited
  <2>1. \A t, last : Between(t, last) \in SUBSET Moments
    BY DEF Between
  <2> QED BY <1>1, <1>6, <1>7, <2>1 DEF Past, AloneLimited
<1> QED BY <1>3, <1>4, <1>5, <1>8, <1>9 DEF RateInv

LEMMA RateStep == RateInv /\ [RateNext]_rateVars => RateInv'
BY RateTypeStep, BackedStep, QuotaStep, PastStep, AloneStep DEF RateInv

LEMMA RateInvHolds == RateInv => LimitsHold
<1> SUFFICES ASSUME RateInv, NEW k \in LimitKeys, NEW t \in Moments
             PROVE  /\ Cardinality(HitsIn(granted, k, Between(t, t + WindowOf[k] - Stall))) <= Most(k)
                    /\ \A a \in Askers : Cardinality(HitsIn(alone[a], k, Between(t, t + WindowOf[k]))) <= LimitOf[k]
                    /\ table => \A up \in BOOLEAN : Failures(k, up) >= Since(granted, k, moment - WindowOf[k])
  BY DEF LimitsHold, Between, Most
<1>1. /\ granted \in Counts /\ HitsFinite(granted) /\ hitRows \in Counts /\ HitsFinite(hitRows) /\ moment \in Nat /\ t \in Nat
      /\ Quota /\ Past /\ Backed /\ AloneLimited
  BY Windows DEF RateInv, RateTypeOK
<1>2. WindowOf[k] \in Nat /\ Most(k) \in Int /\ LimitOf[k] \in Nat /\ Cardinality(Askers) \in Nat
  BY Windows DEF Most
<1>3. ASSUME NEW s \in Int, NEW S \in SUBSET From(s), moment <= s + WindowOf[k]
      PROVE  Cardinality(HitsIn(granted, k, S)) <= Most(k)
  <2>1. Cardinality(HitsIn(granted, k, From(s))) + Cardinality(Entrants(k, s)) <= Most(k)
    BY <1>1, <1>3 DEF Quota
  <2>2. S \in SUBSET Moments /\ From(s) \in SUBSET Moments
    BY DEF From
  <2>3. Cardinality(HitsIn(granted, k, S)) <= Cardinality(HitsIn(granted, k, From(s)))
    <3>1. \A u \in S : granted[k][u] <= granted[k][u]
      BY <1>1, <2>2 DEF Counts
    <3> QED BY <1>1, <2>2, <3>1, FewerHitsCard
  <2>4. Cardinality(HitsIn(granted, k, S)) \in Nat /\ Cardinality(HitsIn(granted, k, From(s))) \in Nat
    BY <1>1, <2>2, HitsCard
  <2>5. Cardinality(Entrants(k, s)) \in Nat
    <3>1. Entrants(k, s) \in SUBSET Askers
      BY DEF Entrants
    <3> QED BY <3>1, EntrantsCard
  <2> QED BY ONLY <1>2, <2>1, <2>3, <2>4, <2>5
<1>4. Cardinality(HitsIn(granted, k, Between(t, t + WindowOf[k] - Stall))) <= Most(k)
  <2>1. CASE moment <= t + WindowOf[k]
    <3>1. Between(t, t + WindowOf[k] - Stall) \in SUBSET From(t)
      BY DEF Between, From
    <3> QED BY <1>1, <1>3, <2>1, <3>1
  <2>2. CASE ~ (moment <= t + WindowOf[k])
    <3>1. t + WindowOf[k] < moment
      BY <1>1, <1>2, <2>2
    <3> QED BY <1>1, <3>1 DEF Past
  <2> QED BY <2>1, <2>2
<1>5. ASSUME NEW up \in BOOLEAN PROVE Failures(k, up) >= Since(granted, k, moment - WindowOf[k])
  <2> DEFINE s == moment - WindowOf[k]
             S == {u \in Moments : u >= s}
  <2>1. s \in Int /\ moment <= s + WindowOf[k]
    BY <1>1, <1>2
  <2>2. S \in SUBSET Moments /\ S \subseteq From(s)
    <3>1. \A u \in Moments : u >= s => s <= u
      BY <2>1, Windows
    <3> QED BY <3>1 DEF From
  <2>3. \A u \in S : granted[k][u] <= hitRows[k][u]
    <3>1. \A u \in S : moment - WindowOf[k] <= u
      BY <2>2 DEF From
    <3> QED BY <1>1, <3>1 DEF Backed
  <2> HIDE DEF S, s
  <2>4. /\ Cardinality(HitsIn(granted, k, S)) <= Cardinality(HitsIn(hitRows, k, S))
        /\ Cardinality(HitsIn(granted, k, S)) \in Nat /\ Cardinality(HitsIn(hitRows, k, S)) \in Nat
    BY <1>1, <2>2, <2>3, FewerHitsCard, HitsCard
  <2>5. Cardinality(HitsIn(granted, k, S)) <= Most(k)
    BY <1>3, <2>1, <2>2
  <2>6. LimitOf[k] + Cardinality(Askers) >= Cardinality(HitsIn(granted, k, S))
    BY <1>2, <2>4, <2>5 DEF Most
  <2>7. CASE up
    BY <2>4, <2>7 DEF Failures, Since, S, s
  <2>8. CASE ~ up
    BY <2>6, <2>8 DEF Failures, Since, S, s
  <2> QED BY <2>7, <2>8
<1> QED BY <1>1, <1>4, <1>5 DEF AloneLimited

\* For every limit, window and number of concurrent requests: no window, less the time a hit
\* may take, lets through more than its limit and one for every other request under way, and
\* a lockout is not read low (hardening.hit, _run, _sweep, _mem_hit, reset_key, failures).
THEOREM LimitsAreHeld == RateSpec => []LimitsHold
BY RateInitial, RateStep, RateInvHolds, PTL DEF RateSpec

-----------------------------------------------------------------------------
(* The inbox *)

IsServing(r) == r = [step |-> r.step, event |-> r.event]

\* A message that is inserted and not committed has its id to itself.
IdsTaken ==
    /\ \A m, n \in inbox : m.id = n.id => m = n
    /\ \A s \in Servers : serve[s].step = "inserted" =>
          /\ \A m \in inbox : m.id # serve[s].event.id
          /\ \A t \in Servers : serve[t].step = "inserted" /\ serve[t].event.id = serve[s].event.id => t = s

\* What was told is so, or about to be.
ToldRight ==
    \A reply \in told :
        \/ reply.event \in inbox
        \/ ~ reply.duplicate /\ reply.event \in undone \cup {serve[s].event : s \in Inserted(reply.event.id)}

InboxInv ==
    /\ serve \in [Servers -> {serve[s] : s \in Servers}] /\ \A s \in Servers : IsServing(serve[s])
    /\ IdsTaken /\ ToldRight

\* What one server does to its own request, unless it inserts or commits.
LEMMA OneServes ==
    ASSUME InboxInv, NEW s \in Servers, NEW r, IsServing(r), serve' = [serve EXCEPT ![s] = r],
           serve[s].step # "inserted", r.step # "inserted",
           UNCHANGED <<inbox, undone>>,
           told' = told \/ \E m \in inbox, d \in BOOLEAN : told' = told \cup {[event |-> m, duplicate |-> d]}
    PROVE  InboxInv'
<1>1. /\ \A t \in Servers : t # s => serve'[t] = serve[t]
      /\ serve'[s] = r /\ serve' \in [Servers -> {serve'[t] : t \in Servers}]
  BY DEF InboxInv
<1>2. IdsTaken'
  BY <1>1 DEF InboxInv, IdsTaken
<1>3. \A id : Inserted(id)' = Inserted(id)
  BY <1>1 DEF Inserted
<1>4. ToldRight'
  <2>1. ASSUME NEW reply \in told
        PROVE  \/ reply.event \in inbox'
               \/ ~ reply.duplicate /\ reply.event \in undone' \cup {serve'[t].event : t \in Inserted(reply.event.id)'}
    <3>1. \A t \in Inserted(reply.event.id) : serve'[t] = serve[t] /\ t \in Inserted(reply.event.id)'
      BY <1>1, <1>3 DEF Inserted
    <3> QED BY <3>1 DEF InboxInv, ToldRight
  <2>2. \A reply \in told' : reply \in told \/ reply.event \in inbox'
    OBVIOUS
  <2> QED BY <2>1, <2>2 DEF ToldRight, Inserted
<1> QED BY <1>1, <1>2, <1>4 DEF InboxInv, IsServing

LEMMA AnswerKeeps ==
    ASSUME InboxInv, NEW s \in Servers, serve[s].step # "inserted", AnswerTaken(s), UNCHANGED <<inbox, undone>>
    PROVE  InboxInv'
<1>1. serve' = [serve EXCEPT ![s] = Unread] /\ IsServing(Unread) /\ Unread.step # "inserted"
  BY DEF AnswerTaken, Unread, IsServing
<1>2. told' = told \/ \E m \in inbox, d \in BOOLEAN : told' = told \cup {[event |-> m, duplicate |-> d]}
  <2>1. CASE Existing(s) = {serve[s].event}
    <3>1. serve[s].event \in inbox
      BY <2>1 DEF Existing
    <3>2. told' = told \cup {[event |-> serve[s].event, duplicate |-> TRUE]}
      BY <2>1 DEF AnswerTaken, Tell
    <3> QED BY <3>1, <3>2
  <2>2. CASE Existing(s) # {serve[s].event}
    BY <2>2 DEF AnswerTaken
  <2> QED BY <2>1, <2>2
<1> QED BY <1>1, <1>2, OneServes

LEMMA InboxStep == InboxInv /\ [InboxNext]_inboxVars => InboxInv'
<1> SUFFICES ASSUME InboxInv, [InboxNext]_inboxVars
             PROVE  InboxInv'
  OBVIOUS
<1>1. CASE UNCHANGED <<inbox, serve, told, undone>>
  BY <1>1 DEF InboxInv, IdsTaken, ToldRight, Inserted, IsServing
<1>2. ASSUME NEW s \in Servers, NEW post \in posts, Receive(s, post) PROVE InboxInv'
  <2> DEFINE r == [step |-> "looks", event |-> post.event]
  <2>1. IsServing(r) /\ r.step # "inserted" /\ serve[s].step # "inserted"
    BY <1>2 DEF Receive, IsServing, Unread
  <2>2. serve' = [serve EXCEPT ![s] = r] /\ UNCHANGED <<inbox, undone, told>>
    BY <1>2 DEF Receive
  <2> HIDE DEF r
  <2> QED BY <2>1, <2>2, OneServes
<1>6. ASSUME NEW s \in Servers, OverDaily(s) PROVE InboxInv'
  <2>1. IsServing(Unread) /\ Unread.step # "inserted" /\ serve[s].step # "inserted"
    BY <1>6 DEF OverDaily, IsServing, Unread
  <2> QED BY <1>6, <2>1, OneServes DEF OverDaily
<1>3. ASSUME NEW s \in Servers, LookUp(s) PROVE InboxInv'
  <2>1. serve[s].step # "inserted" /\ UNCHANGED <<inbox, undone>>
    BY <1>3 DEF LookUp
  <2>2. CASE Existing(s) # {}
    <3>1. AnswerTaken(s)
      BY <1>3, <2>2 DEF LookUp
    <3> QED BY <2>1, <3>1, AnswerKeeps
  <2>3. CASE Existing(s) = {}
    <3>1. serve' = [serve EXCEPT ![s].step = "inserts"] /\ told' = told
      BY <1>3, <2>3 DEF LookUp
    <3> DEFINE r == [step |-> "inserts", event |-> serve[s].event]
    <3>2. serve' = [serve EXCEPT ![s] = r] /\ IsServing(r) /\ r.step # "inserted"
      <4>1. serve[s] = [step |-> serve[s].step, event |-> serve[s].event]
        BY DEF InboxInv, IsServing
      <4>2. [serve[s] EXCEPT !.step = "inserts"] = r
        BY <4>1
      <4> QED BY <3>1, <4>2 DEF IsServing
    <3> HIDE DEF r
    <3> QED BY <2>1, <3>1, <3>2, OneServes
  <2> QED BY <2>2, <2>3
<1>4. ASSUME NEW s \in Servers, Insert(s) PROVE InboxInv'
  <2>1. serve[s].step = "inserts" /\ Inserted(serve[s].event.id) = {} /\ UNCHANGED <<inbox, undone>>
    BY <1>4 DEF Insert
  <2>2. CASE Existing(s) # {}
    <3>1. AnswerTaken(s)
      BY <1>4, <2>2 DEF Insert, LostRace
    <3> QED BY <2>1, <3>1, AnswerKeeps
  <2>3. CASE Existing(s) = {}
    <3>1. /\ serve' = [serve EXCEPT ![s].step = "inserted"]
          /\ told' = told \cup {[event |-> serve[s].event, duplicate |-> FALSE]}
      BY <1>4, <2>3 DEF Insert, Tell
    <3> DEFINE r == [step |-> "inserted", event |-> serve[s].event]
    <3>2. serve' = [serve EXCEPT ![s] = r] /\ r.step = "inserted" /\ r.event = serve[s].event
      <4>1. serve[s] = [step |-> serve[s].step, event |-> serve[s].event]
        BY DEF InboxInv, IsServing
      <4>2. [serve[s] EXCEPT !.step = "inserted"] = r
        BY <4>1
      <4> QED BY <3>1, <4>2
    <3>3. IsServing(r)
      BY DEF IsServing
    <3> HIDE DEF r
    <3>4. /\ \A t \in Servers : t # s => serve'[t] = serve[t]
          /\ serve'[s] = r /\ serve' \in [Servers -> {serve'[t] : t \in Servers}]
      BY <3>2 DEF InboxInv
    <3>5. IdsTaken'
      <4>1. \A m \in inbox : m.id # serve[s].event.id
        BY <2>3 DEF Existing
      <4>2. \A t \in Servers : serve[t].step = "inserted" => serve[t].event.id # serve[s].event.id
        BY <2>1 DEF Inserted
      <4> QED BY <2>1, <3>2, <3>4, <4>1, <4>2 DEF InboxInv, IdsTaken
    <3>6. ToldRight'
      <4>1. \A id : \A t \in Inserted(id) : t # s /\ t \in Inserted(id)' /\ serve'[t].event = serve[t].event
        BY <2>1, <3>4 DEF Inserted
      <4>2. s \in Inserted(serve[s].event.id)' /\ serve'[s].event = serve[s].event
        BY <3>2, <3>4 DEF Inserted
      <4>3. ASSUME NEW reply \in told
            PROVE  \/ reply.event \in inbox'
                   \/ ~ reply.duplicate /\ reply.event \in undone' \cup {serve'[t].event : t \in Inserted(reply.event.id)'}
        BY <2>1, <4>1 DEF InboxInv, ToldRight
      <4>4. ASSUME NEW reply, reply = [event |-> serve[s].event, duplicate |-> FALSE]
            PROVE  ~ reply.duplicate /\ reply.event \in {serve'[t].event : t \in Inserted(reply.event.id)'}
        BY <4>2, <4>4
      <4> QED BY <3>1, <4>3, <4>4 DEF ToldRight, Inserted
    <3> QED BY <3>3, <3>4, <3>5, <3>6 DEF InboxInv, IsServing
  <2> QED BY <2>2, <2>3
<1>5. ASSUME NEW s \in Servers, CommitMessage(s) PROVE InboxInv'
  <2>1. /\ serve[s].step = "inserted" /\ serve' = [serve EXCEPT ![s] = Unread] /\ told' = told
        /\ \/ inbox' = inbox \cup {serve[s].event} /\ undone' = undone
           \/ undone' = undone \cup {serve[s].event} /\ inbox' = inbox
    BY <1>5 DEF CommitMessage
  <2>2. /\ \A t \in Servers : t # s => serve'[t] = serve[t]
        /\ serve'[s] = Unread /\ serve' \in [Servers -> {serve'[t] : t \in Servers}]
    BY <2>1 DEF InboxInv
  <2>3. Unread.step # "inserted" /\ IsServing(Unread)
    BY DEF Unread, IsServing
  <2>4. IdsTaken'
    BY <2>1, <2>2, <2>3 DEF InboxInv, IdsTaken
  <2>5. ToldRight'
    <3>1. \A id : \A t \in Inserted(id) : t # s => t \in Inserted(id)' /\ serve'[t].event = serve[t].event
      BY <2>2 DEF Inserted
    <3>2. serve[s].event \in inbox' \cup undone' /\ inbox \subseteq inbox' /\ undone \subseteq undone'
      BY <2>1
    <3>3. ASSUME NEW reply \in told
          PROVE  \/ reply.event \in inbox'
                 \/ ~ reply.duplicate /\ reply.event \in undone' \cup {serve'[t].event : t \in Inserted(reply.event.id)'}
      BY <3>1, <3>2 DEF InboxInv, ToldRight
    <3> QED BY <2>1, <3>3 DEF ToldRight, Inserted
  <2> QED BY <2>2, <2>3, <2>4, <2>5 DEF InboxInv, IsServing
<1> QED BY <1>1, <1>2, <1>3, <1>4, <1>5, <1>6 DEF InboxNext, Sign, Rotate, SetHeard, PassSecond, inboxVars

\* However many servers receive one event at once, and whichever of their commits fail: an
\* id has one content, and no reply claims what the inbox does not have or will not get
\* (webhooks.store_message, routes/webhooks.receive).
THEOREM OneOfEach == InboxSpec => []ReceivedOnce
<1>1. InboxInit => InboxInv
  BY DEF InboxInit, InboxInv, IdsTaken, ToldRight, IsServing, Unread
<1>2. InboxInv => ReceivedOnce
  BY DEF InboxInv, IdsTaken, ToldRight, ReceivedOnce
<1> QED BY <1>1, <1>2, InboxStep, PTL DEF InboxSpec

\* The endpoint and the limits, in the same processes: what comes in is counted and kept once.
THEOREM Admission == ReceiverSpec => []AdmittedAndKept
<1>1. InboxInit /\ RateInit => InboxInv /\ RateInv
  BY RateInitial DEF InboxInit, InboxInv, IdsTaken, ToldRight, IsServing, Unread
<1>2. InboxInv /\ RateInv /\ [ReceiverNext]_<<inboxVars, rateVars>> => InboxInv' /\ RateInv'
  <2> SUFFICES ASSUME InboxInv, RateInv, [ReceiverNext]_<<inboxVars, rateVars>>
               PROVE  [InboxNext]_inboxVars /\ [RateNext]_rateVars
    BY InboxStep, RateStep
  <2> QED BY DEF ReceiverNext
<1>3. InboxInv /\ RateInv => AdmittedAndKept
  <2>1. InboxInv => ReceivedOnce
    BY DEF InboxInv, IdsTaken, ToldRight, ReceivedOnce
  <2> QED BY <2>1, RateInvHolds DEF AdmittedAndKept
<1> QED BY <1>1, <1>2, <1>3, PTL DEF ReceiverSpec

=============================================================================
