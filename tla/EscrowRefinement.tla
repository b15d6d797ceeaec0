-------------------------- MODULE EscrowRefinement --------------------------
(***************************************************************************)
(* Escrow implements Settlement.  The money is Stripe's PaymentIntent; the *)
(* book is the transaction row of a purchase, read as an open entry while  *)
(* it is in escrow or disputed.  Adoptions and purchases without a         *)
(* PaymentIntent are left out of the book: a pending adoption is cancelled *)
(* without giving the hold back, so there its entry would not be true.     *)
(***************************************************************************)
EXTENDS Escrow

MoneyAt(state) ==
  CASE state = "captured" -> "seller"
    [] state = "canceled" -> "buyer"
    [] state = "refunded" -> "refunded"
    [] OTHER              -> "hold"

Money ==
  [t \in Txn |-> [at |-> MoneyAt(pi[t].state), paid |-> pi[t].captured]]

Entry(row) ==
  IF row.via = "purchase" /\ row.status \in {"completed", "refunded"}
  THEN [claim |-> row.status, amount |-> row.amount]
  ELSE IF row.via = "purchase" /\ row.status = "cancelled"
       THEN [claim |-> "cancelled", amount |-> 0]
       ELSE [claim |-> "open", amount |-> 0]

Book == [t \in Txn |-> Entry(txn[t])]

S == INSTANCE Settlement WITH money <- Money, book <- Book

\* Whatever the sessions, Stripe and its webhook do, the money moves out of the
\* hold at most once and everything the transaction row says of it is true.
Settles == S!Spec

=============================================================================
