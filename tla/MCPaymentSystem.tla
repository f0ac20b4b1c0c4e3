-------------------------- MODULE MCPaymentSystem --------------------------
(* Values of the constants of PaymentSystem for TLC.                       *)
EXTENDS PaymentSystem, TLC

CONSTANTS q1, q2, k1, f1, r1, h1

MCCreated == [q \in Request |-> 1]
MCMaxSends == [b \in Request \cup {Malformed} |-> IF b = Malformed THEN 0 ELSE 1 + MaxRelayFaults]

\* An operator's malformed message as well.
MCMaxSendsMalformed == [MCMaxSends EXCEPT ![Malformed] = 1]

\* One code of each class that classify_webhook_status tells apart.
MCStatusCode == {204, 404, 503}
============================================================================
