---------------------------- MODULE MCProjection ----------------------------
(***************************************************************************)
(* Projection for TLC.                                                     *)
(***************************************************************************)
EXTENDS Projection, TLC

\* The third row alone exceeds the bytes of a page.
MCSize(u) == IF u = 3 THEN PageBytes + 1 ELSE 1
=============================================================================
