-------------------------- MODULE EscrowInvariant --------------------------
(***************************************************************************)
(* The inductive invariant of Escrow.  It is stated on values, a row of    *)
(* each table and a job, so that a step has to be argued about only for the*)
(* one transaction and the one session it touches.                         *)
(***************************************************************************)
EXTENDS EscrowRefinement

Paid(p) == p.state \in {"captured", "refunded"}

WithIntent(r) == r.via \in {"purchase", "adopt"}

\* What a resolution, once Stripe has carried it out, says of the intent.
CarriedOut(res, amt, p) ==
  CASE res = "cancel_auth"   -> p.state = "canceled"
    [] res = "release_funds" -> Paid(p) /\ p.captured = Price
    [] OTHER -> Paid(p) /\ p.captured = amt /\ amt \in 1 .. Price - 1

\* A transaction row, its dispute and its intent.
RowOK(r, d, p) ==
  /\ p.state # "none" => r.status = "none" \/ WithIntent(r)
  /\ r.status = "none" <=> r.via = "none"
  /\ r.status \in {"escrow", "disputed"} => r.via = "purchase"
  /\ r.status = "pending" => r.via # "purchase"
  /\ d.status # "none" =>
       r.via = "purchase" /\ r.status \notin {"none", "pending", "escrow"}
  /\ (Paid(p) /\ d.status = "none") => p.captured = Price
  /\ (WithIntent(r) /\ r.amount # Price) => Paid(p) /\ p.captured = r.amount
  /\ (WithIntent(r) /\ r.status = "completed") => Paid(p)
  /\ (WithIntent(r) /\ r.status = "refunded") => p.state = "refunded"
  /\ (r.via = "purchase" /\ r.status = "cancelled") => p.state = "canceled"
  /\ (WithIntent(r) /\ r.status \in {"completed", "refunded"})
       => r.amount = p.captured
  /\ d.resolution # "none" => CarriedOut(d.resolution, d.amount, p)

\* A webhook event tells the truth about the intent, for good.
EventOK(kind, r, p) ==
  /\ r.status = "none" \/ WithIntent(r)
  /\ kind = "succeeded" => Paid(p)
  /\ kind = "canceled"  => p.state = "canceled"
  /\ kind = "refunded"  => p.state = "refunded"

\* A job and the transaction it is about.
JobOK(j, r, d, p) ==
  CASE j.op \in {"purchase", "adopt"} ->
         /\ r.status = "none"
         /\ \/ j.pc = "checked" /\ p.state = "none"
            \/ j.pc = "created" /\ p.state \in {"created", "held"}
    [] j.op = "confirm" ->
         /\ j.pc \in {"locked", "settled"}
         /\ r.status = "escrow" /\ d.status = "none"
         /\ j.pc = "settled" => Paid(p) /\ p.captured = Price
    [] j.op = "cancel" ->
         /\ j.pc \in {"locked", "settled"}
         /\ r.status \in {"pending", "escrow"} /\ d.status = "none"
         /\ (j.pc = "settled" /\ r.status = "escrow") => p.state = "canceled"
    [] j.op = "refund" ->
         /\ j.pc \in {"locked", "settled"}
         /\ r.status = "completed"
         /\ (j.pc = "settled" /\ WithIntent(r)) => p.state = "refunded"
    [] j.op = "open" -> j.pc = "checked" /\ r.via = "purchase"
    [] j.op \in {"message", "escalate"} ->
         j.pc = "checked" /\ d.status # "none"
    [] j.op = "resolve" ->
         /\ j.pc \in {"checked", "locked", "settled"}
         /\ d.status # "none"
         /\ j.res \in DisputeResolution
         /\ j.res = "partial_refund" => j.amt > 0
         /\ (j.res = "partial_refund" /\ j.pc # "checked") => j.amt < Price
         /\ j.pc = "settled" => /\ d.resolution = "none"
                                /\ CarriedOut(j.res, j.amt, p)
    [] j.op = "succeeded" ->
         /\ j.pc = "checked" /\ WithIntent(r)
         /\ EventOK(j.op, r, p) /\ p.captured = Price
    [] j.op = "canceled" ->
         j.pc = "checked" /\ WithIntent(r) /\ EventOK(j.op, r, p)
    [] j.op = "refunded" ->
         /\ j.pc = "checked" /\ WithIntent(r)
         /\ EventOK(j.op, r, p) /\ r.amount = p.captured
    [] OTHER -> FALSE

Locking(j) == j.pc \in {"locked", "settled"}

Buying(j) == j.op \in {"purchase", "adopt"}

\* Two sessions on one transaction: one row lock, one creator.
Compatible(j, k) ==
  j.txn = k.txn => ~ (Locking(j) /\ Locking(k)) /\ ~ (Buying(j) /\ Buying(k))

RowsOK == \A t \in Txn : RowOK(txn[t], dispute[t], pi[t])

EventsOK == \A e \in event : EventOK(e.kind, txn[e.txn], pi[e.txn])

JobsOK ==
  \A s \in Session :
    job[s] # Idle => LET t == job[s].txn
                     IN JobOK(job[s], txn[t], dispute[t], pi[t])

JobsCompatible ==
  \A s, u \in Session :
    (s # u /\ job[s] # Idle /\ job[u] # Idle) => Compatible(job[s], job[u])

IInv == TypeOK /\ RowsOK /\ EventsOK /\ JobsOK /\ JobsCompatible

=============================================================================
