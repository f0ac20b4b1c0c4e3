----------------------------- MODULE Settlement -----------------------------
(***************************************************************************)
(* What the service promises of each payment, whatever its processes do:   *)
(* one decision, final once made; webhooks that announce this decision and *)
(* nothing else; and a delivery that is recorded only when the receiver    *)
(* has accepted one of them.                                               *)
(*                                                                         *)
(* There are no messages, handlers, transactions or retries here.  The     *)
(* record of a delivery may be erased again, by a handler that writes back *)
(* a row it had read before: the webhook is at-least-once.                 *)
(***************************************************************************)
CONSTANT PaymentId

VARIABLES
    status,         \* of each payment
    announced,      \* the statuses its webhooks have carried
    accepted,       \* the receiver has answered one of them 2xx
    delivered       \* webhook_delivered_at is set

vars == <<status, announced, accepted, delivered>>

Final == {"succeeded", "failed"}

Init ==
    /\ status = [p \in PaymentId |-> "absent"]
    /\ announced = [p \in PaymentId |-> {}]
    /\ accepted = [p \in PaymentId |-> FALSE]
    /\ delivered = [p \in PaymentId |-> FALSE]

Create(p) ==
    /\ status[p] = "absent"
    /\ status' = [status EXCEPT ![p] = "pending"]
    /\ UNCHANGED <<announced, accepted, delivered>>

Settle(p) ==
    /\ status[p] = "pending"
    /\ \E decision \in Final : status' = [status EXCEPT ![p] = decision]
    /\ UNCHANGED <<announced, accepted, delivered>>

Announce(p) ==
    /\ status[p] \in Final
    /\ announced' = [announced EXCEPT ![p] = @ \cup {status[p]}]
    /\ \E ok \in BOOLEAN : accepted' = [accepted EXCEPT ![p] = @ \/ ok]
    /\ UNCHANGED <<status, delivered>>

Record(p) ==
    /\ accepted[p] /\ ~ delivered[p]
    /\ delivered' = [delivered EXCEPT ![p] = TRUE]
    /\ UNCHANGED <<status, announced, accepted>>

Erase(p) ==
    /\ delivered[p]
    /\ delivered' = [delivered EXCEPT ![p] = FALSE]
    /\ UNCHANGED <<status, announced, accepted>>

Next ==
    \E p \in PaymentId : Create(p) \/ Settle(p) \/ Announce(p) \/ Record(p) \/ Erase(p)

Spec == Init /\ [][Next]_vars
============================================================================
