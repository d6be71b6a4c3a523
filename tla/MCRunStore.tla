----------------------------- MODULE MCRunStore -----------------------------
(***************************************************************************)
(* RunStore for TLC: runs are interchangeable.  No transaction touches two *)
(* conversations except the recovery, which treats each row by itself, so  *)
(* one conversation is enough.                                             *)
(***************************************************************************)
EXTENDS RunStore, TLC

Symmetry == Permutations(Runs)
=============================================================================
