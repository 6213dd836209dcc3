----------------------------- MODULE WebhookInbox -----------------------------
(***************************************************************************)
(* The inbox of one webhook endpoint (services/webhooks.store_message,     *)
(* routes/webhooks.receive): signed events that the network may deliver    *)
(* late, twice or to two servers at once, each stored under its id one     *)
(* time, and an answer that leaves before the transaction commits.         *)
(*                                                                         *)
(* An event is an id and a body; what a request may carry beside a well    *)
(* formed one is refused before the session is touched.  The three limits  *)
(* of the receiver count as RateLimits does; here each of them may refuse. *)
(***************************************************************************)
EXTENDS RateLimits

CONSTANTS
    Servers,          \* concurrent requests to the receiver
    Ids, Bodies,
    SignatureWindow,  \* SIGNATURE_WINDOW
    LastSecond,       \* bound: time
    MaxSeeds,         \* bound: rotations of the secret
    MaxPosts          \* bound: requests the sender signs

Seconds == 0 .. LastSecond

VARIABLES
    second,
    seed,    \* secret_seed of the endpoint: the number of its rotations
    heard,   \* whether the endpoint is enabled and its owner active
    posts,   \* signed requests, which the network delivers any number of times
    inbox,   \* committed messages
    serve,   \* the request each server handles
    told,    \* history: 200 answers
    undone   \* history: events whose commit failed after the answer

inboxVars == <<second, seed, heard, posts, inbox, serve, told, undone>>

Unread == [step |-> "none", event |-> <<>>]

\* create_endpoint: an enabled endpoint with its first secret.
InboxInit ==
    /\ second = 0 /\ seed = 0 /\ heard = TRUE
    /\ posts = {} /\ inbox = {} /\ told = {} /\ undone = {}
    /\ serve = [s \in Servers |-> Unread]

-----------------------------------------------------------------------------
(* The sender, and the endpoint's owner *)

\* A sender signs with any secret it was given, by a clock of its own.
Sign(event, key, at) ==
    /\ Cardinality(posts) < MaxPosts /\ key <= seed
    /\ posts' = posts \cup {[event |-> event, secret |-> key, at |-> at]}
    /\ UNCHANGED <<second, seed, heard, inbox, serve, told, undone>>

Rotate ==
    /\ seed < MaxSeeds
    /\ seed' = seed + 1
    /\ UNCHANGED <<second, heard, posts, inbox, serve, told, undone>>

SetHeard ==
    /\ heard' = ~ heard
    /\ UNCHANGED <<second, seed, posts, inbox, serve, told, undone>>

PassSecond ==
    /\ second < LastSecond
    /\ second' = second + 1
    /\ UNCHANGED <<seed, heard, posts, inbox, serve, told, undone>>

-----------------------------------------------------------------------------
(* A delivery *)

Verified(post) ==
    /\ post.secret = seed
    /\ second - post.at \in -SignatureWindow .. SignatureWindow

\* receive, up to the signature: the limits of the address and of the endpoint let the request
\* through, the endpoint is found and the signature is its own; any other request is answered
\* 429, 404 or 401 and leaves nothing.
Receive(s, post) ==
    /\ serve[s] = Unread
    /\ heard /\ Verified(post)
    /\ serve' = [serve EXCEPT ![s] = [step |-> "looks", event |-> post.event]]
    /\ UNCHANGED <<second, seed, heard, posts, inbox, told, undone>>

\* The owner's limit of the day, counted for signed events only, refuses: the event is not
\* looked at, and the sender may post it again.
OverDaily(s) ==
    /\ serve[s].step = "looks"
    /\ serve' = [serve EXCEPT ![s] = Unread]
    /\ UNCHANGED <<second, seed, heard, posts, inbox, told, undone>>

Existing(s) == {m \in inbox : m.id = serve[s].event.id}

Tell(s, duplicate) == told' = told \cup {[event |-> serve[s].event, duplicate |-> duplicate]}

\* The id is taken: a duplicate when the content is the same, else a conflict.
AnswerTaken(s) ==
    /\ IF Existing(s) = {serve[s].event} THEN Tell(s, TRUE) ELSE UNCHANGED told
    /\ serve' = [serve EXCEPT ![s] = Unread]

LookUp(s) ==
    /\ serve[s].step = "looks"
    /\ IF Existing(s) # {} THEN AnswerTaken(s)
       ELSE serve' = [serve EXCEPT ![s].step = "inserts"] /\ UNCHANGED told
    /\ UNCHANGED <<second, seed, heard, posts, inbox, undone>>

Inserted(id) == {s \in Servers : serve[s].step = "inserted" /\ serve[s].event.id = id}

\* Mutant: whoever lost the race for the id is a duplicate.
LostRaceUnread(s) == Tell(s, TRUE) /\ serve' = [serve EXCEPT ![s] = Unread]

\* After the IntegrityError the winner's row is read and compared.
LostRace(s) == AnswerTaken(s)

\* The flush waits for whoever inserts the same id, and then wins or loses; a new message
\* is answered before it is committed.
Insert(s) ==
    /\ serve[s].step = "inserts"
    /\ Inserted(serve[s].event.id) = {}
    /\ IF Existing(s) # {} THEN LostRace(s)
       ELSE Tell(s, FALSE) /\ serve' = [serve EXCEPT ![s].step = "inserted"]
    /\ UNCHANGED <<second, seed, heard, posts, inbox, undone>>

\* get_session: the transaction commits, or its connection is gone.
CommitMessage(s) ==
    /\ serve[s].step = "inserted"
    /\ \/ inbox' = inbox \cup {serve[s].event} /\ UNCHANGED undone
       \/ undone' = undone \cup {serve[s].event} /\ UNCHANGED inbox
    /\ serve' = [serve EXCEPT ![s] = Unread]
    /\ UNCHANGED <<second, seed, heard, posts, told>>

InboxNext ==
    \/ \E i \in Ids, body \in Bodies, key \in 0 .. seed, at \in Seconds : Sign([id |-> i, body |-> body], key, at)
    \/ Rotate \/ SetHeard \/ PassSecond
    \/ \E s \in Servers : \/ \E post \in posts : Receive(s, post)
                          \/ OverDaily(s) \/ LookUp(s) \/ Insert(s) \/ CommitMessage(s)

InboxSpec == InboxInit /\ [][InboxNext]_inboxVars

\* The endpoint beside the limited routes, in the same processes.
ReceiverNext ==
    \/ InboxNext /\ UNCHANGED rateVars
    \/ RateNext /\ UNCHANGED inboxVars

ReceiverSpec == InboxInit /\ RateInit /\ [][ReceiverNext]_<<inboxVars, rateVars>>

-----------------------------------------------------------------------------
(* Properties *)

\* However deliveries race, an id has one content; a sender told "duplicate" has that very
\* content in the inbox, and one told "received" too, once the request that told it has
\* ended and unless its commit failed (store_message, both of its lookups; receive).
ReceivedOnce ==
    /\ \A m, n \in inbox : m.id = n.id => m = n
    /\ \A answer \in told :
        \/ answer.event \in inbox
        \/ ~ answer.duplicate /\ answer.event \in undone \cup {serve[s].event : s \in Inserted(answer.event.id)}

\* What comes in is counted against its limits and kept once.
AdmittedAndKept == LimitsHold /\ ReceivedOnce

=============================================================================
