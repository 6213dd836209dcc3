-------------------------- MODULE MCWebhookOutbox --------------------------
\* Instance of WebhookOutbox for TLC.
EXTENDS WebhookOutbox, TLC

CONSTANTS e1, w1, w2

OneEndpoint == [m \in Messages |-> e1]
LinearBackoff == [n \in 1 .. MaxAttempts - 1 |-> n]

\* Workers run the same code, and no property names one of them.
WorkerSymmetry == Permutations(Workers)

=============================================================================
