----------------------------- MODULE MCReceived -----------------------------
\* Instance for TLC of what comes in and is kept once: the filings of DisclosureFacts, the
\* webhooks a partner signs, and the requests that the limits count.  They share no state; a
\* behaviour tells one story of one of them.
EXTENDS MCDisclosureFacts, WebhookInbox

CONSTANTS w1, w2, Stories

VARIABLE story

MCLimits == "ip" :> 1 @@ "global" :> 1
MCWindows == "ip" :> 1 @@ "global" :> 1

\* Requests run the same code, and no property names one.
RequestSymmetry == Permutations(Servers)

MCInit ==
    /\ Init /\ RateInit /\ InboxInit
    /\ story \in Stories
    /\ story # "limits" => table

MCNext ==
    /\ story' = story
    /\ \/ story = "facts" /\ Next /\ UNCHANGED <<rateVars, inboxVars>>
       \/ story = "limits" /\ RateNext /\ UNCHANGED <<vars, inboxVars>>
       \/ story = "inbox" /\ InboxNext /\ UNCHANGED <<vars, rateVars>>

MCSpec == MCInit /\ [][MCNext]_<<vars, rateVars, inboxVars, story>>

=============================================================================
