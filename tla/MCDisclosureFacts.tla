------------------------- MODULE MCDisclosureFacts -------------------------
\* Instances of DisclosureFacts for TLC.
\*   1 transaction, 2 its correction;
\*   3 a 13F for the first quarter, 4 its NEW HOLDINGS amendment, 5 a restating
\*     amendment that names no original, filed the same day as 4;
\*   6 a report for the second quarter, 7 its correction, which moves the report to
\*     the third quarter.
EXTENDS DisclosureFacts, TLC

CONSTANTS q1, q2, q3, fund, j1, j2

PublishedAt == 1 :> 1 @@ 2 :> 3 @@ 3 :> 1 @@ 4 :> 3 @@ 5 :> 3 @@ 6 :> 2 @@ 7 :> 4
AmendsOf == [f \in Filings |-> CASE f = 2 -> 1 [] f = 7 -> 6 [] OTHER -> NoFiling]
BookFor == [f \in Reports |-> CASE f \in {3, 4, 5} -> q1 [] f = 6 -> q2 [] OTHER -> q3]
OneFund == [b \in Books |-> fund]
Quarter == [b \in Books |-> IF b = q1 THEN 1 ELSE IF b = q2 THEN 2 ELSE 3]
PublishedBy == [f \in Filings |-> PublishedAt[f]]

=============================================================================
