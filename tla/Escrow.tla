------------------------------- MODULE Escrow -------------------------------
(***************************************************************************)
(* The marketplace payment path of AgentGraph: transactions, disputes and  *)
(* the Stripe PaymentIntent behind them                                    *)
(* (src/api/marketplace_router.py, src/api/disputes_router.py,             *)
(* src/payments/escrow.py, src/api/deactivation.py).                       *)
(*                                                                         *)
(* Every request runs in a database session of its own (database.py:25):   *)
(* what it reads is committed state, what it writes becomes visible when   *)
(* the handler has returned and the session commits, and an exception      *)
(* rolls everything back.  Stripe is called in between and takes no part   *)
(* in the rollback.  Five handlers lock the transaction row (SELECT ...    *)
(* FOR UPDATE); the others read it unlocked and later overwrite it, waiting*)
(* only for the row lock to be free.  A session is therefore a job that    *)
(* goes through                                                            *)
(*     checked  -> (written and committed)           unlocked handlers     *)
(*     checked  -> created -> (committed)            purchases             *)
(*     [checked ->] locked -> settled -> (committed) locking handlers      *)
(* and may be aborted at every point.  UPDATE and commit of an unlocked    *)
(* handler are one step: in between its writes only make others wait.      *)
(*                                                                         *)
(* All transactions of the model are one buyer's purchases of one listing: *)
(* two such groups share no row, no PaymentIntent and no check.            *)
(***************************************************************************)
EXTENDS Integers

CONSTANTS
  Txn,        \* the transactions the buyer may create
  Session,    \* database sessions that can be open at a time
  Price,      \* the listing's price_cents
  Dashboard   \* whether people also capture and refund in Stripe's dashboard

ASSUME PriceAssumption == Price \in Nat \ {0}
ASSUME DashboardAssumption == Dashboard \in BOOLEAN

VARIABLES
  txn,      \* the transactions table: status, how it was created, amount
  dispute,  \* the disputes table, keyed by its unique transaction_id
  pi,       \* Stripe's PaymentIntent of each transaction
  job,      \* what each session is doing
  event,    \* webhook events Stripe has created
  acked     \* those of them it has had a 2xx answer for

vars == <<txn, dispute, pi, job, event, acked>>

-----------------------------------------------------------------------------
(* Types.                                                                  *)

TransactionStatus ==
  {"pending", "escrow", "completed", "disputed", "refunded", "cancelled"}

DisputeStatus == {"open", "negotiating", "escalated", "resolved", "closed"}

DisputeResolution == {"release_funds", "cancel_auth", "partial_refund"}

\* "purchase" and "adopt" have a PaymentIntent; purchases over the MCP bridge
\* and free (or early access) ones do not.
Via == {"purchase", "adopt", "mcp", "free"}

Amount == 0 .. Price

EventKind == {"succeeded", "canceled", "refunded"}

Event == [txn : Txn, kind : EventKind]

TxnRow == [status : TransactionStatus \cup {"none"},
           via    : Via \cup {"none"},
           amount : Amount]

DisputeRow == [status     : DisputeStatus \cup {"none"},
               resolution : DisputeResolution \cup {"none"},
               amount     : Amount]

\* "created" waits for the buyer's card, "held" is Stripe's requires_capture.
PaymentIntent ==
  [state    : {"none", "created", "held", "captured", "canceled", "refunded"},
   captured : Amount]

Op == {"purchase", "adopt", "confirm", "cancel", "refund",
       "open", "message", "escalate", "resolve"} \cup EventKind

Idle == [pc |-> "idle"]

Job == [pc  : {"checked", "created", "locked", "settled"},
        op  : Op,
        txn : Txn,
        res : DisputeResolution \cup {"none"},
        amt : Amount]

TypeOK ==
  /\ txn \in [Txn -> TxnRow]
  /\ dispute \in [Txn -> DisputeRow]
  /\ pi \in [Txn -> PaymentIntent]
  /\ job \in [Session -> {Idle} \cup Job]
  /\ event \subseteq Event
  /\ acked \subseteq event

Init ==
  /\ txn = [t \in Txn |-> [status |-> "none", via |-> "none", amount |-> 0]]
  /\ dispute = [t \in Txn |->
                  [status |-> "none", resolution |-> "none", amount |-> 0]]
  /\ pi = [t \in Txn |-> [state |-> "none", captured |-> 0]]
  /\ job = [s \in Session |-> Idle]
  /\ event = {}
  /\ acked = {}

-----------------------------------------------------------------------------
(* Sessions.                                                               *)

Busy(s, pc, op) == job[s].pc = pc /\ job[s].op = op

Start(s, j) == job[s] = Idle /\ job' = [job EXCEPT ![s] = j]

Advance(s, pc) == job' = [job EXCEPT ![s].pc = pc]

Finish(s) == job' = [job EXCEPT ![s] = Idle]

Request(pc, op, t) ==
  [pc |-> pc, op |-> op, txn |-> t, res |-> "none", amt |-> 0]

RowFree_NoLock(t) == TRUE

\* Nobody holds the transaction row's FOR UPDATE lock.  A plain UPDATE waits
\* for it as well; a plain SELECT does not.
RowFree(t) ==
  \A s \in Session :
    job[s].pc \in {"locked", "settled"} => job[s].txn # t

SetStatus(t, st) == txn' = [txn EXCEPT ![t].status = st]

\* An exception, a refused check, an error or a timeout of Stripe's, a killed
\* worker: get_db rolls back, and what Stripe has done stays done.
Abort(s) ==
  /\ job[s] # Idle
  /\ Finish(s)
  /\ UNCHANGED <<txn, dispute, pi, event, acked>>

-----------------------------------------------------------------------------
(* Creating a transaction.                                                 *)

Unused(t) ==
  /\ txn[t].status = "none"
  /\ pi[t].state = "none"
  /\ \A s \in Session : job[s] # Idle => job[s].txn # t

NoOpenPurchase == \A t \in Txn : txn[t].status \notin {"pending", "escrow"}

\* purchase_listing up to the call of create_payment_intent.
BeginPurchase(s, t) ==
  /\ Unused(t)
  /\ NoOpenPurchase
  /\ Start(s, Request("checked", "purchase", t))
  /\ UNCHANGED <<txn, dispute, pi, event, acked>>

\* adopt_capability of a paid listing: no look at earlier purchases.
BeginAdopt(s, t) ==
  /\ Unused(t)
  /\ Start(s, Request("checked", "adopt", t))
  /\ UNCHANGED <<txn, dispute, pi, event, acked>>

CreatePaymentIntent(s) ==
  /\ job[s].pc = "checked"
  /\ job[s].op \in {"purchase", "adopt"}
  /\ pi' = [pi EXCEPT ![job[s].txn].state = "created"]
  /\ Advance(s, "created")
  /\ UNCHANGED <<txn, dispute, event, acked>>

\* The INSERT and the commit of a purchase or an adoption.
InsertTransaction(s) ==
  /\ job[s].pc = "created"
  /\ job[s].op \in {"purchase", "adopt"}
  /\ txn' = [txn EXCEPT ![job[s].txn] =
       [status |-> IF job[s].op = "purchase" THEN "escrow" ELSE "pending",
        via    |-> job[s].op,
        amount |-> Price]]
  /\ Finish(s)
  /\ UNCHANGED <<dispute, pi, event, acked>>

InsertUnpaid(t, st, via, amt) ==
  /\ Unused(t)
  /\ txn' = [txn EXCEPT ![t] = [status |-> st, via |-> via, amount |-> amt]]
  /\ UNCHANGED <<dispute, pi, job, event, acked>>

\* A free listing, or a priced one while Stripe is not configured.
PurchaseFree(t) ==
  /\ NoOpenPurchase
  /\ \E amt \in {0, Price} : InsertUnpaid(t, "completed", "free", amt)

AdoptFree(t) == InsertUnpaid(t, "completed", "free", 0)

\* The MCP bridge records a purchase and never talks to Stripe.  A listing may
\* be free by its pricing model and still carry a price.
PurchaseOverMcp(t) ==
  \/ \E amt \in {0, Price} : InsertUnpaid(t, "completed", "mcp", amt)
  \/ InsertUnpaid(t, "pending", "mcp", Price)

-----------------------------------------------------------------------------
(* The handlers that lock the row, as far as their checks.                 *)

Lock(s, t, op) ==
  /\ RowFree(t)
  /\ Start(s, Request("locked", op, t))
  /\ UNCHANGED <<txn, dispute, pi, event, acked>>

LockForConfirm(s, t) ==
  /\ txn[t].status = "escrow"
  /\ Lock(s, t, "confirm")

LockForCancel(s, t) ==
  /\ txn[t].status \in {"pending", "escrow"}
  /\ Lock(s, t, "cancel")

LockForRefund(s, t) ==
  /\ txn[t].status = "completed"
  /\ Lock(s, t, "refund")

\* Both ways of deciding a dispute read it before they lock the transaction,
\* and look at neither status again once they have the lock.
ReadForDecision(s, t, res, amt) ==
  /\ dispute[t].status \notin {"none", "resolved", "closed"}
  /\ res = "partial_refund" => amt > 0
  /\ Start(s, [pc |-> "checked", op |-> "resolve", txn |-> t,
               res |-> res, amt |-> amt])
  /\ UNCHANGED <<txn, dispute, pi, event, acked>>

ReadForResolve(s, t, by, res, amt) ==
  /\ ~ (by = "buyer" /\ res = "cancel_auth")
  /\ ~ (by = "seller" /\ res = "release_funds")
  /\ ReadForDecision(s, t, res, amt)

ReadForAdjudicate(s, t, res, amt) == ReadForDecision(s, t, res, amt)

LockForResolve(s) ==
  /\ Busy(s, "checked", "resolve")
  /\ RowFree(job[s].txn)
  /\ job[s].res = "partial_refund" => job[s].amt < txn[job[s].txn].amount
  /\ Advance(s, "locked")
  /\ UNCHANGED <<txn, dispute, pi, event, acked>>

-----------------------------------------------------------------------------
(* What the lock holders ask of Stripe.                                    *)

Emit(t, kind) == event' = event \cup {[txn |-> t, kind |-> kind]}

\* Capturing an intent twice taken for success, as an idempotent retry would.
Capture_Again(t, amt) ==
  /\ pi[t].state \in {"held", "captured"}
  /\ pi' = [pi EXCEPT ![t] = [state |-> "captured", captured |-> amt]]
  /\ Emit(t, "succeeded")

\* Stripe captures an intent only while the money is held, ...
Capture(t, amt) ==
  /\ pi[t].state = "held"
  /\ pi' = [pi EXCEPT ![t] = [state |-> "captured", captured |-> amt]]
  /\ Emit(t, "succeeded")

\* ... cancels it only before it is captured, ...
Void(t) ==
  /\ pi[t].state \in {"created", "held"}
  /\ pi' = [pi EXCEPT ![t].state = "canceled"]
  /\ Emit(t, "canceled")

\* ... and refunds it once.
Refund(t) ==
  /\ pi[t].state = "captured"
  /\ pi' = [pi EXCEPT ![t].state = "refunded"]
  /\ Emit(t, "refunded")

HasIntent(t) == txn[t].via \in {"purchase", "adopt"}

\* What the handler wants done: the operation, or the resolution chosen.
Outcome(j) ==
  CASE j.op = "confirm" -> "release_funds"
    [] j.op = "cancel"  -> "cancel_auth"
    [] j.op = "refund"  -> "refund"
    [] OTHER            -> j.res

NeedsStripe_NoVoid(j) == HasIntent(j.txn) /\ j.op # "cancel"

\* A pending transaction is cancelled without telling Stripe.
NeedsStripe(j) ==
  /\ HasIntent(j.txn)
  /\ ~ (j.op = "cancel" /\ txn[j.txn].status = "pending")

\* amount_to_capture left out: Stripe captures all of it.
CaptureAmount_Full(j) == Price

CaptureAmount(j) == IF Outcome(j) = "partial_refund" THEN j.amt ELSE Price

\* release_escrow, cancel_escrow, partial_capture and create_refund as far as
\* their Stripe call.  A refusal raises, which is Abort.
CallStripe(s) ==
  LET j == job[s] IN
  /\ j.pc = "locked"
  /\ IF ~ NeedsStripe(j)
     THEN UNCHANGED <<pi, event>>
     ELSE CASE Outcome(j) = "cancel_auth" -> Void(j.txn)
            [] Outcome(j) = "refund"      -> Refund(j.txn)
            [] OTHER -> Capture(j.txn, CaptureAmount(j))
  /\ Advance(s, "settled")
  /\ UNCHANGED <<txn, dispute, acked>>

StatusAfter_Raw(j) == Outcome(j)

StatusAfter_AsDocumented(j) ==
  IF Outcome(j) \in {"cancel_auth", "refund"} THEN "refunded" ELSE "completed"

StatusAfter(j) ==
  CASE Outcome(j) = "cancel_auth" -> "cancelled"
    [] Outcome(j) = "refund"      -> "refunded"
    [] OTHER                      -> "completed"

AmountAfter_Kept(j) == txn[j.txn].amount

AmountAfter(j) ==
  IF Outcome(j) = "partial_refund" THEN j.amt ELSE txn[j.txn].amount

Decision(j) == [status |-> "resolved", resolution |-> j.res, amount |-> j.amt]

\* The rest of the handler and the session's commit.
Commit(s) ==
  LET j == job[s] IN
  /\ j.pc = "settled"
  /\ txn' = [txn EXCEPT ![j.txn] = [@ EXCEPT !.status = StatusAfter(j),
                                             !.amount = AmountAfter(j)]]
  /\ dispute' = IF j.op = "resolve"
                THEN [dispute EXCEPT ![j.txn] = Decision(j)]
                ELSE dispute
  /\ Finish(s)
  /\ UNCHANGED <<pi, event, acked>>

-----------------------------------------------------------------------------
(* The handlers that lock nothing: they decide on what they read, and      *)
(* write it later.                                                         *)

ReadForDispute(s, t) ==
  /\ txn[t].status = "escrow"
  /\ dispute[t].status = "none"
  /\ Start(s, Request("checked", "open", t))
  /\ UNCHANGED <<txn, dispute, pi, event, acked>>

\* A second row for the transaction violates the unique constraint: Abort.
OpenDispute(s) ==
  LET t == job[s].txn IN
  /\ Busy(s, "checked", "open")
  /\ RowFree(t)
  /\ dispute[t].status = "none"
  /\ dispute' = [dispute EXCEPT ![t].status = "open"]
  /\ SetStatus(t, "disputed")
  /\ Finish(s)
  /\ UNCHANGED <<pi, event, acked>>

\* A message on a dispute that is not open any more changes no status.
ReadForMessage(s, t) ==
  /\ dispute[t].status = "open"
  /\ Start(s, Request("checked", "message", t))
  /\ UNCHANGED <<txn, dispute, pi, event, acked>>

ReadForEscalate(s, t) ==
  /\ dispute[t].status \notin {"none", "resolved", "closed", "escalated"}
  /\ Start(s, Request("checked", "escalate", t))
  /\ UNCHANGED <<txn, dispute, pi, event, acked>>

WriteDispute(s, op, st) ==
  /\ Busy(s, "checked", op)
  /\ dispute' = [dispute EXCEPT ![job[s].txn].status = st]
  /\ Finish(s)
  /\ UNCHANGED <<txn, pi, event, acked>>

AddDisputeMessage(s) == WriteDispute(s, "message", "negotiating")

EscalateDispute(s) == WriteDispute(s, "escalate", "escalated")

\* The deactivation cascade's UPDATE ... WHERE status = PENDING.
CancelPendingOfSeller ==
  /\ \E t \in Txn : txn[t].status = "pending"
  /\ \A t \in Txn : txn[t].status = "pending" => RowFree(t)
  /\ txn' = [t \in Txn |-> IF txn[t].status = "pending"
                           THEN [txn[t] EXCEPT !.status = "cancelled"]
                           ELSE txn[t]]
  /\ UNCHANGED <<dispute, pi, job, event, acked>>

-----------------------------------------------------------------------------
(* The Stripe webhook.  Stripe delivers an event until it gets a 2xx, may  *)
(* deliver it again after that, and promises no order.                     *)

WebhookApplies_PendingOnly(kind, st) ==
  IF kind = "refunded" THEN st = "completed" ELSE st = "pending"

WebhookApplies(kind, st) ==
  IF kind = "refunded" THEN st = "completed" ELSE st \in {"pending", "escrow"}

WebhookStatus ==
  [succeeded |-> "completed", canceled |-> "cancelled", refunded |-> "refunded"]

\* Answered at once: no row with this intent, or a status it leaves alone.
IgnoreEvent(e) ==
  /\ e \in event
  /\ ~ WebhookApplies(e.kind, txn[e.txn].status)
  /\ acked' = acked \cup {e}
  /\ UNCHANGED <<txn, dispute, pi, job, event>>

ReceiveEvent(s, e) ==
  /\ e \in event
  /\ WebhookApplies(e.kind, txn[e.txn].status)
  /\ Start(s, Request("checked", e.kind, e.txn))
  /\ UNCHANGED <<txn, dispute, pi, event, acked>>

ApplyEvent(s, e) ==
  /\ e \in event
  /\ Busy(s, "checked", e.kind)
  /\ job[s].txn = e.txn
  /\ RowFree(e.txn)
  /\ SetStatus(e.txn, WebhookStatus[e.kind])
  /\ acked' = acked \cup {e}
  /\ Finish(s)
  /\ UNCHANGED <<dispute, pi, event>>

-----------------------------------------------------------------------------
(* What happens at Stripe without the program.                             *)

\* The buyer's browser confirms the card with the client_secret of the
\* response, which FastAPI may send before the session commits or fails to.
AuthorizeCard(t) ==
  /\ pi[t].state = "created"
  /\ pi' = [pi EXCEPT ![t].state = "held"]
  /\ UNCHANGED <<txn, dispute, job, event, acked>>

\* Stripe's expiry takes days and people take minutes: the request that created
\* the intent is over, with or without a transaction.
BeingCreated(t) ==
  \E s \in Session :
    job[s] # Idle /\ job[s].op \in {"purchase", "adopt"} /\ job[s].txn = t

\* An authorization that is not captured within days is cancelled by Stripe.
LapseHold(t) ==
  /\ pi[t].state = "held"
  /\ ~ BeingCreated(t)
  /\ Void(t)
  /\ UNCHANGED <<txn, dispute, job, acked>>

ActInDashboard(t) ==
  /\ Dashboard
  /\ ~ BeingCreated(t)
  /\ Capture(t, Price) \/ Refund(t)
  /\ UNCHANGED <<txn, dispute, job, acked>>

-----------------------------------------------------------------------------

Creating ==
  \/ \E s \in Session, t \in Txn : BeginPurchase(s, t) \/ BeginAdopt(s, t)
  \/ \E s \in Session : CreatePaymentIntent(s) \/ InsertTransaction(s)
  \/ \E t \in Txn : PurchaseFree(t) \/ AdoptFree(t) \/ PurchaseOverMcp(t)

Settling ==
  \/ \E s \in Session, t \in Txn :
       \/ LockForConfirm(s, t)
       \/ LockForCancel(s, t)
       \/ LockForRefund(s, t)
       \/ \E res \in DisputeResolution, amt \in 0 .. Price :
            \/ \E by \in {"buyer", "seller", "admin"} :
                 ReadForResolve(s, t, by, res, amt)
            \/ ReadForAdjudicate(s, t, res, amt)
  \/ \E s \in Session : LockForResolve(s) \/ CallStripe(s) \/ Commit(s)

Disputing ==
  \/ \E s \in Session, t \in Txn :
       ReadForDispute(s, t) \/ ReadForMessage(s, t) \/ ReadForEscalate(s, t)
  \/ \E s \in Session :
       OpenDispute(s) \/ AddDisputeMessage(s) \/ EscalateDispute(s)

Notifying ==
  \E e \in Event :
    \/ IgnoreEvent(e)
    \/ \E s \in Session : ReceiveEvent(s, e) \/ ApplyEvent(s, e)

Stripe ==
  \E t \in Txn : AuthorizeCard(t) \/ LapseHold(t) \/ ActInDashboard(t)

Next ==
  \/ Creating
  \/ Settling
  \/ Disputing
  \/ Notifying
  \/ Stripe
  \/ CancelPendingOfSeller
  \/ \E s \in Session : Abort(s)

Spec == Init /\ [][Next]_vars

-----------------------------------------------------------------------------
(* Safety.                                                                 *)

\* The ledger never runs ahead of Stripe: a transaction with a PaymentIntent
\* says completed, refunded or (bought, not adopted) cancelled only once the
\* money has moved that way, whatever sessions raced, died or were late.
SettledAtStripe ==
  \A t \in Txn :
    HasIntent(t) =>
      /\ txn[t].status = "completed" => pi[t].state \in {"captured", "refunded"}
      /\ txn[t].status = "refunded" => pi[t].state = "refunded"
      /\ (txn[t].status = "cancelled" /\ txn[t].via = "purchase")
           => pi[t].state = "canceled"

\* amount_cents of a completed or refunded transaction is what was captured,
\* after a partial capture too, and whichever of the handler and the webhook
\* recorded the capture.
AmountRecorded ==
  \A t \in Txn :
    (HasIntent(t) /\ txn[t].status \in {"completed", "refunded"})
      => txn[t].amount = pi[t].captured

\* A recorded resolution is what happened to the money, even after a late
\* message or escalation has taken the dispute's status away from resolved.
ResolutionMatchesStripe ==
  \A t \in Txn :
    CASE dispute[t].resolution = "none" -> TRUE
      [] dispute[t].resolution = "cancel_auth" -> pi[t].state = "canceled"
      [] dispute[t].resolution = "release_funds" ->
           pi[t].state \in {"captured", "refunded"} /\ pi[t].captured = Price
      [] dispute[t].resolution = "partial_refund" ->
           /\ pi[t].state \in {"captured", "refunded"}
           /\ pi[t].captured = dispute[t].amount
           /\ dispute[t].amount \in 1 .. Price - 1

\* While the buyer's confirm or cancel is at work on a transaction no dispute
\* about it comes into being, and none existed before.
DisputeWaitsForBuyer ==
  \A s \in Session :
    (job[s].pc \in {"locked", "settled"} /\ job[s].op \in {"confirm", "cancel"})
      => dispute[job[s].txn].status = "none"

\* A dispute is decided once: of two requests that both read it undecided and
\* wait for the row one after the other, only one records its resolution.
DecidedOnce ==
  [][\A t \in Txn :
       dispute[t].resolution # "none"
         => /\ dispute'[t].resolution = dispute[t].resolution
            /\ dispute'[t].amount = dispute[t].amount]_vars

-----------------------------------------------------------------------------
(* Liveness.                                                               *)

SessionStep(s) ==
  \/ CreatePaymentIntent(s) \/ InsertTransaction(s)
  \/ LockForResolve(s) \/ CallStripe(s) \/ Commit(s)
  \/ OpenDispute(s) \/ AddDisputeMessage(s) \/ EscalateDispute(s)
  \/ \E e \in Event : ApplyEvent(s, e)
  \/ Abort(s)

Redeliver(e) == e \notin acked /\ \E s \in Session : ReceiveEvent(s, e)

\* A request ends, one way or the other.  Stripe delivers an event until it
\* is acknowledged, a webhook's UPDATE gets its turn among those that want the
\* row, and webhook requests are not killed for ever.
Fairness ==
  /\ \A s \in Session : WF_vars(SessionStep(s))
  /\ \A e \in Event :
       /\ SF_vars(Redeliver(e))
       /\ SF_vars(\E s \in Session : ApplyEvent(s, e))
  /\ <>[][\A s \in Session : Abort(s) => job[s].op \notin EventKind]_vars

FairSpec == Spec /\ Fairness

\* When Stripe has captured, cancelled or refunded the money and the handler
\* that asked for it died before its commit, the webhook repairs the ledger:
\* the transaction does not stay pending or in escrow.
MoneyMovedIsNoticed ==
  \A t \in Txn :
    (/\ HasIntent(t)
     /\ txn[t].status \in {"pending", "escrow"}
     /\ pi[t].state \in {"captured", "canceled", "refunded"})
      ~> txn[t].status \notin {"pending", "escrow"}

\* An administrator who does not give up: every resolution of the dispute is
\* tried again and again, and carried as far as the code and Stripe let it.
AdminFairness ==
  \A t \in Txn, res \in {"release_funds", "cancel_auth"} :
    LET Deciding(s) == job[s] # Idle /\ job[s].txn = t /\ job[s].res = res IN
    /\ SF_vars(\E s \in Session : ReadForAdjudicate(s, t, res, 0))
    /\ SF_vars(\E s \in Session : Deciding(s) /\ LockForResolve(s))
    /\ SF_vars(\E s \in Session : Deciding(s) /\ CallStripe(s))
    /\ SF_vars(\E s \in Session : Deciding(s) /\ Commit(s))

AdminFairSpec == FairSpec /\ AdminFairness

-----------------------------------------------------------------------------
(* What the documentation says and the code does not keep.                 *)

\* "Admin: adjudicate a dispute with a binding resolution."
\* (disputes_router.py:697): a dispute an administrator keeps trying to
\* decide is decided in the end.
DisputeGetsDecided ==
  \A t \in Txn :
    dispute[t].status # "none" ~> dispute[t].resolution # "none"

=============================================================================
