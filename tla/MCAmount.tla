------------------------------ MODULE MCAmount ------------------------------
(* Small instances of Amount: the cfg files scale the digits down. *)
EXTENDS Amount
=============================================================================
