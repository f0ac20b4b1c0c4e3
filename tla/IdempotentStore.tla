-------------------------- MODULE IdempotentStore --------------------------
(***************************************************************************)
(* What POST /api/v1/payments promises to its clients: a store that binds  *)
(* each idempotency key at most once, in one step.  Between its arrival    *)
(* and its answer a request takes effect in a single step, at which it     *)
(* binds its key, finds it bound, or has no effect; what its client is     *)
(* told follows from that step alone.                                      *)
(***************************************************************************)
CONSTANTS Request, Key, Fingerprint

VARIABLES
    asked,      \* the key and the fingerprint of each request
    phase,      \* of each request: it has not arrived, is served, or is over
    bound,      \* for each key, the requests bound to it: none, or one
    reply       \* what each client has been told

vars == <<asked, phase, bound, reply>>

Init ==
    /\ asked \in [Request -> [key : Key, fingerprint : Fingerprint]]
    /\ phase = [r \in Request |-> "new"]
    /\ bound = [k \in Key |-> {}]
    /\ reply = [r \in Request |-> [status |-> "none"]]

Arrive(r) ==
    /\ phase[r] = "new" /\ phase' = [phase EXCEPT ![r] = "open"]
    /\ UNCHANGED <<asked, bound, reply>>

Answer(r, answer) ==
    /\ phase[r] = "open" /\ phase' = [phase EXCEPT ![r] = "done"]
    /\ reply' = [reply EXCEPT ![r] = answer]
    /\ UNCHANGED asked

\* The key was free and is the request's now; its client knows, or is told of
\* an error because the confirmation was lost.
Bind(r) ==
    /\ bound[asked[r].key] = {}
    /\ bound' = [bound EXCEPT ![asked[r].key] = {r}]
    /\ \E answer \in {[status |-> "accepted", id |-> r], [status |-> "error"]} : Answer(r, answer)

\* The key is bound to a request with the same payload, the answer to which is
\* given again, or with another payload.
Replay(r) ==
    /\ \E id \in bound[asked[r].key] :
        Answer(r, IF asked[id].fingerprint = asked[r].fingerprint
                  THEN [status |-> "accepted", id |-> id]
                  ELSE [status |-> "conflict"])
    /\ UNCHANGED bound

\* The request has no effect.
Abort(r) ==
    /\ \E status \in {"error", "none"} : Answer(r, [status |-> status])
    /\ UNCHANGED bound

Next == \E r \in Request : Arrive(r) \/ Bind(r) \/ Replay(r) \/ Abort(r)

Spec == Init /\ [][Next]_vars
============================================================================
