---------------------------- MODULE MCTerminals -----------------------------
(***************************************************************************)
(* Terminals for TLC.                                                      *)
(***************************************************************************)
EXTENDS Terminals, TLC
=============================================================================
