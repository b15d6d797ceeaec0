------------------------ MODULE MCConnectionManager -------------------------
(* ConnectionManager on small instances for TLC.                           *)
EXTENDS ConnectionManager

CONSTANTS w1, w2

\* All sockets on one worker; the other one only sends.
Homes == [s \in Socket |-> w2]

=============================================================================
