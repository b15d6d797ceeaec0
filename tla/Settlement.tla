----------------------------- MODULE Settlement -----------------------------
(***************************************************************************)
(* What the payment path promises about a purchase, without sessions,      *)
(* locks, webhooks or disputes.  The money at Stripe moves at most once out*)
(* of the hold, to the seller or back to the buyer, and from the seller it *)
(* can only be refunded; the marketplace keeps a book beside it, and what  *)
(* it writes there is true of the money, to the cent.                      *)
(***************************************************************************)
EXTENDS Integers

CONSTANTS
  Txn,     \* the transactions
  Price    \* what each of them costs

VARIABLES
  money,   \* where the money of a transaction is, and how much was paid out
  book     \* what the marketplace says about it

vars == <<money, book>>

Money == [at : {"hold", "seller", "buyer", "refunded"}, paid : 0 .. Price]

Claim == {"open", "completed", "cancelled", "refunded"}

Entry == [claim : Claim, amount : 0 .. Price]

OpenEntry == [claim |-> "open", amount |-> 0]

Init ==
  /\ money = [t \in Txn |-> [at |-> "hold", paid |-> 0]]
  /\ book = [t \in Txn |-> OpenEntry]

\* The entries that are true of a transaction's money.  That it is still being
\* dealt with can be said at any time.
TrueEntries(m) ==
  {OpenEntry}
    \cup (IF m.at \in {"seller", "refunded"}
          THEN {[claim |-> "completed", amount |-> m.paid]} ELSE {})
    \cup (IF m.at = "refunded"
          THEN {[claim |-> "refunded", amount |-> m.paid]} ELSE {})
    \cup (IF m.at = "buyer"
          THEN {[claim |-> "cancelled", amount |-> 0]} ELSE {})

PayOut(t) ==
  /\ money[t].at = "hold"
  /\ \E amount \in 1 .. Price :
       money' = [money EXCEPT ![t] = [at |-> "seller", paid |-> amount]]
  /\ UNCHANGED book

Release(t) ==
  /\ money[t].at = "hold"
  /\ money' = [money EXCEPT ![t].at = "buyer"]
  /\ UNCHANGED book

Refund(t) ==
  /\ money[t].at = "seller"
  /\ money' = [money EXCEPT ![t].at = "refunded"]
  /\ UNCHANGED book

Write(t) ==
  /\ \E entry \in TrueEntries(money[t]) : book' = [book EXCEPT ![t] = entry]
  /\ UNCHANGED money

Next == \E t \in Txn : PayOut(t) \/ Release(t) \/ Refund(t) \/ Write(t)

Spec == Init /\ [][Next]_vars

=============================================================================
