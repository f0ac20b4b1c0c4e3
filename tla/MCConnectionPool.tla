-------------------------- MODULE MCConnectionPool --------------------------
(* Small instances of ConnectionPool. *)
EXTENDS ConnectionPool

CONSTANTS h1, h2, h3, h4, p1, p2
=============================================================================
