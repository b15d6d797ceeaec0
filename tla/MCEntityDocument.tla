-------------------------- MODULE MCEntityDocument --------------------------
(* EntityDocument on small instances for TLC.                              *)
EXTENDS EntityDocument, TLC

\* Entities and requests are interchangeable in the safety properties.
Interchangeable == Permutations(Entity) \cup Permutations(Request)

=============================================================================
