------------------------------- MODULE MCRpc -------------------------------
(* Model-checking instances of Rpc: two clients of one daemon. *)
EXTENDS Rpc, TLC

CONSTANTS k1, k2, r1, r2, p1

\* A waiting send and a notification on one connection, a registration on
\* the other.
MCConnOf == (r1 :> k1) @@ (r2 :> k2) @@ (p1 :> k1)
=============================================================================
