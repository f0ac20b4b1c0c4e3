---------------------------- MODULE Publication ----------------------------
(***************************************************************************)
(* What the outbox promises of each event, whatever the relays do: once    *)
(* its row is committed it is sent, and marked published only after that;  *)
(* it may be sent again, but every copy after the first is paid for by a   *)
(* fault.                                                                  *)
(*                                                                         *)
(* There are no relays, batches, locks or transactions here.               *)
(***************************************************************************)
EXTENDS Integers

CONSTANT Event

VARIABLES
    status,         \* of each event's row: absent, pending or published
    copies,         \* of each event that the broker has accepted
    faults          \* crashes, lost transactions and unseen confirmations so far

vars == <<status, copies, faults>>

Init ==
    /\ status = [e \in Event |-> "absent"]
    /\ copies = [e \in Event |-> 0]
    /\ faults = 0

Commit(e) ==
    /\ status[e] = "absent"
    /\ status' = [status EXCEPT ![e] = "pending"]
    /\ UNCHANGED <<copies, faults>>

\* A copy is accepted while the sender may fail: the n-th copy needs n - 1
\* earlier faults, also when the row has been marked meanwhile.
Send(e) ==
    /\ status[e] # "absent" /\ copies[e] <= faults
    /\ copies' = [copies EXCEPT ![e] = @ + 1]
    /\ faults' \in {faults, faults + 1}
    /\ UNCHANGED status

\* Some of the events that were sent are marked together.
Mark ==
    /\ \E marked \in SUBSET {e \in Event : status[e] = "pending" /\ copies[e] > 0} :
        status' = [e \in Event |-> IF e \in marked THEN "published" ELSE status[e]]
    /\ UNCHANGED <<copies, faults>>

Fault == faults' = faults + 1 /\ UNCHANGED <<status, copies>>

Next == Mark \/ Fault \/ \E e \in Event : Commit(e) \/ Send(e)

Spec == Init /\ [][Next]_vars
============================================================================
