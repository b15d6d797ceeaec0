----------------------------- MODULE MCAccounts -----------------------------
(* Accounts on small instances for TLC.                                    *)
EXTENDS Accounts, TLC

\* Token pairs and requests are interchangeable in the safety properties.
Interchangeable == Permutations(Token) \cup Permutations(Request)

=============================================================================
