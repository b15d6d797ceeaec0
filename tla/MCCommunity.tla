---------------------------- MODULE MCCommunity -----------------------------
(* Community on small instances for TLC.                                   *)
EXTENDS Community, TLC

Interchangeable == Permutations(Entity \ {Founder}) \cup Permutations(Request)

=============================================================================
