--------------------------- MODULE WebhookPromise ---------------------------
(***************************************************************************)
(* What the webhook outbox promises to an account: an event that was       *)
(* queued is delivered at least once or ends FAILED, a delivery is         *)
(* reported only for an event the receiver has taken, a delivered event is *)
(* never reopened, and a hold (an endpoint paused, an account              *)
(* deactivated) keeps everything from the receiver except the deliveries   *)
(* that were under way when it began, each of which reaches it once at     *)
(* most.  How workers, leases, crashes and retries achieve it is the       *)
(* business of WebhookOutbox, which implements this specification.         *)
(***************************************************************************)

CONSTANTS Messages, \* the outgoing events
          Workers   \* those who deliver

VARIABLES outcome,  \* outcome[m]: what the account is told about event m
          taken,    \* taken[m]: the receiver has processed event m at least once
          open,     \* open[m]: no hold keeps event m back
          underway  \* underway[m]: who has begun to deliver m and not been heard of since

promise == <<outcome, taken, open, underway>>

Outcomes == {"absent", "queued", "delivered", "failed"}

Init ==
    /\ outcome = [m \in Messages |-> "absent"]
    /\ taken = [m \in Messages |-> FALSE]
    /\ open = [m \in Messages |-> TRUE]
    /\ underway = [m \in Messages |-> {}]

\* The account hands the event over (HTTP 202 means queued, not delivered).
Enqueue(m) ==
    /\ outcome[m] = "absent"
    /\ open[m]
    /\ outcome' = [outcome EXCEPT ![m] = "queued"]
    /\ UNCHANGED <<taken, open, underway>>

\* The owner, or an administrator, holds deliveries or lets them go on.
Hold ==
    /\ open' \in [Messages -> BOOLEAN]
    /\ UNCHANGED <<outcome, taken, underway>>

\* A delivery begins; those begun before may still be under way.
Begin(m, w) ==
    /\ outcome[m] = "queued"
    /\ open[m]
    /\ w \notin underway[m]
    /\ underway' = [underway EXCEPT ![m] = @ \cup {w}]
    /\ UNCHANGED <<outcome, taken, open>>

\* It ends: the receiver has processed this copy, or never got it.  Duplicates and
\* late copies are allowed, copies nobody began are not.
Arrive(m, w, got) ==
    /\ w \in underway[m]
    /\ underway' = [underway EXCEPT ![m] = @ \ {w}]
    /\ taken' = [taken EXCEPT ![m] = @ \/ got]
    /\ UNCHANGED <<outcome, open>>

ReportDelivered(m) ==
    /\ outcome[m] = "queued"
    /\ taken[m]
    /\ outcome' = [outcome EXCEPT ![m] = "delivered"]
    /\ UNCHANGED <<taken, open, underway>>

ReportFailed(m) ==
    /\ outcome[m] = "queued"
    /\ outcome' = [outcome EXCEPT ![m] = "failed"]
    /\ UNCHANGED <<taken, open, underway>>

\* Only a failed event can be asked for again.
Requeue(m) ==
    /\ outcome[m] = "failed"
    /\ open[m]
    /\ outcome' = [outcome EXCEPT ![m] = "queued"]
    /\ UNCHANGED <<taken, open, underway>>

Next ==
    \/ Hold
    \/ \E m \in Messages :
          \/ Enqueue(m)
          \/ ReportDelivered(m)
          \/ ReportFailed(m)
          \/ Requeue(m)
          \/ \E w \in Workers : Begin(m, w) \/ \E got \in BOOLEAN : Arrive(m, w, got)

Spec == Init /\ [][Next]_promise

=============================================================================
