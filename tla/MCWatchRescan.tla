-------------------------- MODULE MCWatchRescan --------------------------
(* WatchRescan on small instances for TLC.                                 *)
EXTENDS WatchRescan

\* A good scan, one of a changed definition, one with a lower score and no
\* definition: the second and third are worse than the first, the first is
\* worse than the second, and the third is better than nothing.
Versions == {[score |-> 9, digest |-> "d1"], [score |-> 9, digest |-> "d2"],
             [score |-> 3, digest |-> "none"]}

=============================================================================
