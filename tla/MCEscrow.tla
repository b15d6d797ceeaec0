------------------------------ MODULE MCEscrow ------------------------------
(* Escrow on small instances for TLC: purchases, disputes and Stripe's     *)
(* events with the parts of the inductive invariant.                       *)
EXTENDS EscrowInvariant

=============================================================================
