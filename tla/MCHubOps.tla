------------------------------ MODULE MCHubOps ------------------------------
(***************************************************************************)
(* HubOps for TLC: all conversations belong to one agent, so that they are *)
(* interchangeable; so are the requests.                                   *)
(***************************************************************************)
EXTENDS HubOps, TLC

OneAgent == [c \in Convs |-> CHOOSE a \in Agents : TRUE]
Symmetry == Permutations(Convs) \cup Permutations(Runs)
=============================================================================
