---------------------------- MODULE MCAgents ----------------------------
(* Agents on small instances for TLC.                                      *)
EXTENDS Agents, TLC

Symmetry == Permutations(Key) \cup Permutations(Session)

=============================================================================
