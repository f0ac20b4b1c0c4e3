------------------------------ MODULE Payment ------------------------------
(***************************************************************************)
(* A row of the payments table and the domain entity's transitions.        *)
(*                                                                         *)
(* A row keeps the columns that change after creation.  delivered stands   *)
(* for webhook_delivered_at IS NOT NULL, attempts for webhook_attempts and *)
(* error for last_webhook_error IS NOT NULL; processed_at is set exactly   *)
(* when the status becomes final and is not kept apart.  The status        *)
(* "absent" says that the table has no such row.                           *)
(***************************************************************************)
EXTENDS Integers

Final == {"succeeded", "failed"}
Status == {"absent", "pending"} \cup Final

Row == [status : Status, delivered : BOOLEAN, attempts : Nat, error : BOOLEAN]

NoRow == [status |-> "absent", delivered |-> FALSE, attempts |-> 0, error |-> FALSE]

\* Payment.create: the row the API inserts.
NewRow == [NoRow EXCEPT !.status = "pending"]

IsFinal(row) == row.status \in Final

\* _ensure_can_transition: only a pending payment may be given a final status.
CanTransition(row) == ~ IsFinal(row) /\ row.status = "pending"

\* succeed and fail: the status the gateway decided.
Transition(row, decision) == [row EXCEPT !.status = decision]

\* Mutants: a delivery that is not recorded; a counter that counts down; a
\* failed delivery that reopens the payment.
MarkDeliveredNot(row) == [row EXCEPT !.error = FALSE]
MarkDeliveryFailedDown(row) == [row EXCEPT !.attempts = @ - 1, !.error = TRUE]
MarkDeliveryFailedReopens(row) == [row EXCEPT !.attempts = @ + 1, !.status = "pending"]

\* The two ways DeliverPaymentWebhookService updates its copy of the row.
MarkDelivered(row) == [row EXCEPT !.delivered = TRUE, !.error = FALSE]
MarkDeliveryFailed(row) == [row EXCEPT !.attempts = @ + 1, !.error = TRUE]

\* classify_webhook_status: what an HTTP status code of the receiver means.
ClassifyWebhookStatus(code) ==
    IF code \in 200 .. 299 THEN "ok"
    ELSE IF code \in {408, 429} \/ code >= 500 THEN "temporary"
    ELSE "permanent"
============================================================================
