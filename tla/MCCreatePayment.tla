-------------------------- MODULE MCCreatePayment --------------------------
(* Values of the constants of CreatePayment for TLC.                       *)
EXTENDS CreatePayment

CONSTANTS q1, q2, q3, k1, k2, f1, f2
============================================================================
