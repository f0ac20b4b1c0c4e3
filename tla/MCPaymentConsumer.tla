------------------------- MODULE MCPaymentConsumer -------------------------
(* Values of the constants of PaymentConsumer for TLC.                     *)
EXTENDS PaymentConsumer, TLC

CONSTANTS p1, p2, h1, h2

Symmetry == Permutations(Handler)

\* A duplicate of each payment's message; or every body once, the malformed too.
MCMaxSends == [b \in Body |-> IF b = Malformed THEN 0 ELSE 2]
MCOneSend == [b \in Body |-> 1]

\* One code of each class that classify_webhook_status tells apart.
MCStatusCode == {204, 302, 404, 408, 429, 503}
============================================================================
