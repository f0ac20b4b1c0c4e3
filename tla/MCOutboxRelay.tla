--------------------------- MODULE MCOutboxRelay ---------------------------
(* Values of the constants of OutboxRelay for TLC.                         *)
EXTENDS OutboxRelay, TLC

CONSTANTS e1, e2, e3, e4, r1, r2

\* Rows created at the same time, two and two.
MCCreated == [e \in Event |-> IF e \in {e3, e4} THEN 2 ELSE 1]
============================================================================
