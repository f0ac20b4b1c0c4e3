----------------------------- MODULE MCStartup -----------------------------
(* Small instances of Startup. *)
EXTENDS Startup

CONSTANTS r1, c1, m1

\* With two delay units to the millisecond: a larger limit; a still larger one,
\* whose first delay queue has the same TTL and whose last TTL exceeds 2, the
\* MaxTtl of the runs; and another delay.
MCSettings == {[limit |-> 1, delay |-> 2], [limit |-> 2, delay |-> 2],
               [limit |-> 3, delay |-> 3], [limit |-> 2, delay |-> 4]}
=============================================================================
