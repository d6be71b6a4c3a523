-------------------------- MODULE MCAgentRegistry ---------------------------
(***************************************************************************)
(* AgentRegistry for TLC: requests, connections and configurations are     *)
(* interchangeable.                                                        *)
(***************************************************************************)
EXTENDS AgentRegistry, TLC

Symmetry == Permutations(Tasks) \cup Permutations(Conns) \cup Permutations(Confs)
              \cup Permutations(ProxyConfs)
=============================================================================
