---------------------------- MODULE EscrowProofs ----------------------------
(* Proofs about Escrow, for every set of transactions and sessions and     *)
(* every price.                                                            *)
EXTENDS EscrowInvariant, TLAPS

-----------------------------------------------------------------------------
(* Type correctness.                                                       *)

LEMMA InitType == Init => TypeOK
  BY PriceAssumption
  DEF Init, TypeOK, TxnRow, DisputeRow, PaymentIntent, Amount

\* A session that takes up, advances or ends a job keeps job well typed.
LEMMA StartType ==
  ASSUME TypeOK, NEW s \in Session, NEW j \in Job, Start(s, j)
  PROVE  job' \in [Session -> {Idle} \cup Job]
  BY DEF TypeOK, Start

LEMMA RequestType ==
  ASSUME NEW pc \in {"checked", "created", "locked", "settled"},
         NEW op \in Op, NEW t \in Txn
  PROVE  Request(pc, op, t) \in Job
  BY PriceAssumption DEF Request, Job, Amount

LEMMA AdvanceType ==
  ASSUME TypeOK, NEW s \in Session, job[s] # Idle,
         NEW pc \in {"checked", "created", "locked", "settled"},
         Advance(s, pc)
  PROVE  job' \in [Session -> {Idle} \cup Job]
  BY DEF TypeOK, Advance, Job

LEMMA FinishType ==
  ASSUME TypeOK, NEW s \in Session, Finish(s)
  PROVE  job' \in [Session -> {Idle} \cup Job]
  BY DEF TypeOK, Finish

\* A session with a program counter other than "idle" has a job.
LEMMA HasJob ==
  ASSUME TypeOK, NEW s \in Session, job[s] # Idle
  PROVE  /\ job[s] \in Job
         /\ job[s].txn \in Txn
         /\ job[s].op \in Op
         /\ job[s].res \in DisputeResolution \cup {"none"}
         /\ job[s].amt \in Amount
         /\ job[s].pc \in {"checked", "created", "locked", "settled"}
  BY DEF TypeOK, Job

LEMMA NotIdle ==
  ASSUME TypeOK, NEW s \in Session, job[s].pc # "idle"
  PROVE  job[s] # Idle
  BY DEF Idle

\* What Stripe can do to an intent, and what it says about it.
LEMMA StripeType ==
  ASSUME TypeOK, NEW t \in Txn,
         NEW amt \in Amount,
         Capture(t, amt) \/ Void(t) \/ Refund(t)
  PROVE  /\ pi' \in [Txn -> PaymentIntent]
         /\ event' \subseteq Event
         /\ event \subseteq event'
  BY DEF TypeOK, Capture, Void, Refund, Emit, PaymentIntent, Event, EventKind

LEMMA StepType ==
  ASSUME TypeOK, Next
  PROVE  TypeOK'
<1> USE DEF Op, EventKind
<1>1. ASSUME NEW s \in Session, NEW t \in Txn,
             BeginPurchase(s, t) \/ BeginAdopt(s, t)
      PROVE  TypeOK'
  <2>1. job' \in [Session -> {Idle} \cup Job]
    <3>1. /\ Request("checked", "purchase", t) \in Job
          /\ Request("checked", "adopt", t) \in Job
      BY RequestType
    <3> QED
      BY <1>1, <3>1, StartType DEF BeginPurchase, BeginAdopt
  <2> QED
    BY <1>1, <2>1 DEF BeginPurchase, BeginAdopt, TypeOK
<1>2. ASSUME NEW s \in Session, CreatePaymentIntent(s)
      PROVE  TypeOK'
  <2>1. job[s] # Idle
    BY <1>2 DEF CreatePaymentIntent, Idle
  <2>2. job' \in [Session -> {Idle} \cup Job]
    BY <1>2, <2>1, AdvanceType DEF CreatePaymentIntent
  <2>3. pi' \in [Txn -> PaymentIntent]
    BY <1>2, <2>1, HasJob DEF CreatePaymentIntent, TypeOK, PaymentIntent
  <2> QED
    BY <1>2, <2>2, <2>3 DEF CreatePaymentIntent, TypeOK
<1>3. ASSUME NEW s \in Session, InsertTransaction(s)
      PROVE  TypeOK'
  <2>1. job[s] # Idle
    BY <1>3 DEF InsertTransaction, Idle
  <2>2. job' \in [Session -> {Idle} \cup Job]
    BY <1>3, FinishType DEF InsertTransaction
  <2>3. txn' \in [Txn -> TxnRow]
    BY <1>3, <2>1, HasJob, PriceAssumption
    DEF InsertTransaction, TypeOK, TxnRow, TransactionStatus, Via, Amount
  <2> QED
    BY <1>3, <2>2, <2>3 DEF InsertTransaction, TypeOK
<1>4. ASSUME NEW t \in Txn,
             PurchaseFree(t) \/ AdoptFree(t) \/ PurchaseOverMcp(t)
      PROVE  TypeOK'
  <2>1. PICK st \in TransactionStatus, via \in Via, amt \in Amount :
          InsertUnpaid(t, st, via, amt)
    BY <1>4, PriceAssumption
    DEF PurchaseFree, AdoptFree, PurchaseOverMcp, TransactionStatus, Via, Amount
  <2>2. txn' \in [Txn -> TxnRow]
    BY <2>1 DEF InsertUnpaid, TypeOK, TxnRow
  <2> QED
    BY <2>1, <2>2 DEF InsertUnpaid, TypeOK
<1>5. ASSUME NEW s \in Session, NEW t \in Txn, NEW op \in Op,
             Lock(s, t, op)
      PROVE  TypeOK'
  <2>1. job' \in [Session -> {Idle} \cup Job]
    BY <1>5, RequestType, StartType DEF Lock
  <2> QED
    BY <1>5, <2>1 DEF Lock, TypeOK
<1>6. ASSUME NEW s \in Session, NEW t \in Txn, NEW res \in DisputeResolution,
             NEW amt \in 0 .. Price, ReadForDecision(s, t, res, amt)
      PROVE  TypeOK'
  <2>1. [pc |-> "checked", op |-> "resolve", txn |-> t,
         res |-> res, amt |-> amt] \in Job
    BY DEF Job, Amount
  <2>2. job' \in [Session -> {Idle} \cup Job]
    BY <1>6, <2>1, StartType DEF ReadForDecision
  <2> QED
    BY <1>6, <2>2 DEF ReadForDecision, TypeOK
<1>7. ASSUME NEW s \in Session, LockForResolve(s)
      PROVE  TypeOK'
  <2>1. job[s] # Idle
    BY <1>7 DEF LockForResolve, Busy, Idle
  <2>2. job' \in [Session -> {Idle} \cup Job]
    BY <1>7, <2>1, AdvanceType DEF LockForResolve
  <2> QED
    BY <1>7, <2>2 DEF LockForResolve, TypeOK
<1>8. ASSUME NEW s \in Session, CallStripe(s)
      PROVE  TypeOK'
  <2>1. job[s] # Idle
    BY <1>8 DEF CallStripe, Idle
  <2>2. job' \in [Session -> {Idle} \cup Job]
    BY <1>8, <2>1, AdvanceType DEF CallStripe
  <2>3. CaptureAmount(job[s]) \in Amount /\ job[s].txn \in Txn
    BY <2>1, HasJob, PriceAssumption DEF CaptureAmount, Amount
  <2>4. \/ UNCHANGED <<pi, event>>
        \/ Capture(job[s].txn, CaptureAmount(job[s]))
        \/ Void(job[s].txn)
        \/ Refund(job[s].txn)
    BY <1>8 DEF CallStripe
  <2>5. /\ pi' \in [Txn -> PaymentIntent]
        /\ event' \subseteq Event
        /\ event \subseteq event'
    BY <2>3, <2>4, StripeType DEF TypeOK
  <2> QED
    BY <1>8, <2>2, <2>5 DEF CallStripe, TypeOK
<1>9. ASSUME NEW s \in Session, Commit(s)
      PROVE  TypeOK'
  <2>1. job[s] # Idle
    BY <1>9 DEF Commit, Idle
  <2>2. job' \in [Session -> {Idle} \cup Job]
    BY <1>9, FinishType DEF Commit
  <2>3. StatusAfter(job[s]) \in TransactionStatus
    BY DEF StatusAfter, TransactionStatus
  <2>4. AmountAfter(job[s]) \in Amount
    BY <2>1, HasJob DEF AmountAfter, TypeOK, TxnRow
  <2>5. txn' \in [Txn -> TxnRow]
    BY <1>9, <2>1, <2>3, <2>4, HasJob DEF Commit, TypeOK, TxnRow
  <2>6. Decision(job[s]) \in DisputeRow
    BY <2>1, HasJob DEF Decision, DisputeRow, DisputeStatus
  <2>7. dispute' \in [Txn -> DisputeRow]
    BY <1>9, <2>1, <2>6, HasJob DEF Commit, TypeOK
  <2> QED
    BY <1>9, <2>2, <2>5, <2>7 DEF Commit, TypeOK
<1>10. ASSUME NEW s \in Session, NEW t \in Txn,
              \/ ReadForDispute(s, t)
              \/ ReadForMessage(s, t)
              \/ ReadForEscalate(s, t)
       PROVE  TypeOK'
  <2>1. job' \in [Session -> {Idle} \cup Job]
    <3>1. /\ Request("checked", "open", t) \in Job
          /\ Request("checked", "message", t) \in Job
          /\ Request("checked", "escalate", t) \in Job
      BY RequestType
    <3> QED
      BY <1>10, <3>1, StartType
      DEF ReadForDispute, ReadForMessage, ReadForEscalate
  <2> QED
    BY <1>10, <2>1
    DEF ReadForDispute, ReadForMessage, ReadForEscalate, TypeOK
<1>11. ASSUME NEW s \in Session, OpenDispute(s)
       PROVE  TypeOK'
  <2>1. job[s] # Idle
    BY <1>11 DEF OpenDispute, Busy, Idle
  <2>2. job' \in [Session -> {Idle} \cup Job]
    BY <1>11, FinishType DEF OpenDispute
  <2>3. /\ txn' \in [Txn -> TxnRow]
        /\ dispute' \in [Txn -> DisputeRow]
    BY <1>11, <2>1, HasJob
    DEF OpenDispute, SetStatus, TypeOK, TxnRow, DisputeRow, TransactionStatus,
        DisputeStatus
  <2> QED
    BY <1>11, <2>2, <2>3 DEF OpenDispute, TypeOK
<1>12. ASSUME NEW s \in Session, AddDisputeMessage(s) \/ EscalateDispute(s)
       PROVE  TypeOK'
  <2>1. PICK op \in Op, st \in DisputeStatus : WriteDispute(s, op, st)
    BY <1>12 DEF AddDisputeMessage, EscalateDispute, DisputeStatus
  <2>2. job[s] # Idle
    BY <2>1 DEF WriteDispute, Busy, Idle
  <2>3. job' \in [Session -> {Idle} \cup Job]
    BY <2>1, FinishType DEF WriteDispute
  <2>4. dispute' \in [Txn -> DisputeRow]
    BY <2>1, <2>2, HasJob DEF WriteDispute, TypeOK, DisputeRow
  <2> QED
    BY <2>1, <2>3, <2>4 DEF WriteDispute, TypeOK
<1>13. ASSUME NEW e \in Event, IgnoreEvent(e)
       PROVE  TypeOK'
  BY <1>13 DEF IgnoreEvent, TypeOK
<1>14. ASSUME NEW s \in Session, NEW e \in Event, ReceiveEvent(s, e)
       PROVE  TypeOK'
  <2>1. Request("checked", e.kind, e.txn) \in Job
    BY RequestType DEF Event
  <2>2. job' \in [Session -> {Idle} \cup Job]
    BY <1>14, <2>1, StartType DEF ReceiveEvent
  <2> QED
    BY <1>14, <2>2 DEF ReceiveEvent, TypeOK
<1>15. ASSUME NEW s \in Session, NEW e \in Event, ApplyEvent(s, e)
       PROVE  TypeOK'
  <2>1. job' \in [Session -> {Idle} \cup Job]
    BY <1>15, FinishType DEF ApplyEvent
  <2>2. WebhookStatus[e.kind] \in TransactionStatus
    BY DEF WebhookStatus, TransactionStatus, Event
  <2>3. txn' \in [Txn -> TxnRow]
    BY <1>15, <2>2 DEF ApplyEvent, SetStatus, TypeOK, TxnRow, Event
  <2> QED
    BY <1>15, <2>1, <2>3 DEF ApplyEvent, TypeOK
<1>16. ASSUME NEW t \in Txn, AuthorizeCard(t)
       PROVE  TypeOK'
  <2>1. pi' \in [Txn -> PaymentIntent]
    BY <1>16 DEF AuthorizeCard, TypeOK, PaymentIntent
  <2> QED
    BY <1>16, <2>1 DEF AuthorizeCard, TypeOK
<1>17. ASSUME NEW t \in Txn, LapseHold(t) \/ ActInDashboard(t)
       PROVE  TypeOK'
  <2>1. Capture(t, Price) \/ Void(t) \/ Refund(t)
    BY <1>17 DEF LapseHold, ActInDashboard
  <2>2. Price \in Amount
    BY PriceAssumption DEF Amount
  <2>3. /\ pi' \in [Txn -> PaymentIntent]
        /\ event' \subseteq Event
        /\ event \subseteq event'
    BY <2>1, <2>2, StripeType
  <2> QED
    BY <1>17, <2>3 DEF LapseHold, ActInDashboard, TypeOK
<1>18. CASE CancelPendingOfSeller
  <2>1. txn' \in [Txn -> TxnRow]
    BY <1>18 DEF CancelPendingOfSeller, TypeOK, TxnRow, TransactionStatus
  <2> QED
    BY <1>18, <2>1 DEF CancelPendingOfSeller, TypeOK
<1>19. ASSUME NEW s \in Session, Abort(s)
       PROVE  TypeOK'
  <2>1. job' \in [Session -> {Idle} \cup Job]
    BY <1>19, FinishType DEF Abort
  <2> QED
    BY <1>19, <2>1 DEF Abort, TypeOK
<1>20. CASE Creating
  BY <1>1, <1>2, <1>3, <1>4, <1>20 DEF Creating
<1>21. CASE Settling
  BY <1>5, <1>6, <1>7, <1>8, <1>9, <1>21
  DEF Settling, LockForConfirm, LockForCancel, LockForRefund,
      ReadForResolve, ReadForAdjudicate
<1>22. CASE Disputing
  BY <1>10, <1>11, <1>12, <1>22 DEF Disputing
<1>23. CASE Notifying
  BY <1>13, <1>14, <1>15, <1>23 DEF Notifying
<1>24. CASE Stripe
  BY <1>16, <1>17, <1>24 DEF Stripe
<1> QED
  BY <1>18, <1>19, <1>20, <1>21, <1>22, <1>23, <1>24 DEF Next

\* Rows, intents, jobs and events keep their types in every reachable state of
\* the payment path.
THEOREM TypeCorrect == Spec => []TypeOK
<1>1. TypeOK /\ UNCHANGED vars => TypeOK'
  BY DEF vars, TypeOK
<1> QED
  BY <1>1, InitType, StepType, PTL DEF Spec

-----------------------------------------------------------------------------
(* The inductive invariant: what a step does to one row, one intent and one*)
(* job.  These lemmas are about values, not about states.                  *)

\* What Stripe may do to an intent that was created.
IntentStep(p, q) ==
  \/ p.state = "created" /\ q.state = "held" /\ q.captured = p.captured
  \/ p.state = "held" /\ q.state = "captured"
  \/ p.state \in {"created", "held"} /\ q.state = "canceled"
  \/ p.state = "captured" /\ q.state = "refunded" /\ q.captured = p.captured

\* What has been carried out stays carried out.
LEMMA IntentKeepsCarriedOut ==
  ASSUME NEW res, NEW amt, NEW p, NEW q, IntentStep(p, q), CarriedOut(res, amt, p)
  PROVE  CarriedOut(res, amt, q)
  BY DEF IntentStep, CarriedOut, Paid

LEMMA IntentKeepsRow ==
  ASSUME NEW r \in TxnRow, NEW d \in DisputeRow,
         NEW p \in PaymentIntent, NEW q \in PaymentIntent,
         RowOK(r, d, p), IntentStep(p, q),
         q.state = "captured" /\ d.status = "none" => q.captured = Price
  PROVE  RowOK(r, d, q)
<1>1. d.resolution # "none" => CarriedOut(d.resolution, d.amount, q)
  BY IntentKeepsCarriedOut DEF RowOK
<1>2. /\ WithIntent(r) /\ r.amount # Price => Paid(q) /\ q.captured = r.amount
      /\ Paid(q) /\ d.status = "none" => q.captured = Price
      /\ WithIntent(r) /\ r.status = "completed" => Paid(q)
      /\ WithIntent(r) /\ r.status = "refunded" => q.state = "refunded"
      /\ r.via = "purchase" /\ r.status = "cancelled" => q.state = "canceled"
  BY DEF RowOK, IntentStep, Paid, WithIntent
<1>3. WithIntent(r) /\ r.status \in {"completed", "refunded"}
        => r.amount = q.captured
  BY DEF RowOK, IntentStep, Paid
<1> QED
  BY <1>1, <1>2, <1>3 DEF RowOK, IntentStep

LEMMA IntentKeepsEvent ==
  ASSUME NEW kind, NEW r, NEW p, NEW q, IntentStep(p, q), EventOK(kind, r, p),
         kind \in EventKind
  PROVE  EventOK(kind, r, q)
  BY DEF IntentStep, EventOK, Paid, EventKind

\* Other sessions are not disturbed by what happens at Stripe: one that has
\* settled relies on what the intent can no longer lose.
LEMMA IntentKeepsJob ==
  ASSUME NEW k \in Job, NEW r \in TxnRow, NEW d \in DisputeRow,
         NEW p \in PaymentIntent, NEW q \in PaymentIntent,
         RowOK(r, d, p), JobOK(k, r, d, p), IntentStep(p, q),
         Buying(k) => q.state = "held"
  PROVE  JobOK(k, r, d, q)
<1>1. k.op \in Op
  BY DEF Job
<1>2. CASE k.op = "resolve"
  <2>1. CarriedOut(k.res, k.amt, p) => CarriedOut(k.res, k.amt, q)
    BY IntentKeepsCarriedOut
  <2> QED
    BY <1>2, <2>1 DEF JobOK
<1>3. CASE k.op \in EventKind
  <2>1. EventOK(k.op, r, q)
    BY <1>3, IntentKeepsEvent DEF JobOK, EventKind
  <2>2. k.op \in {"succeeded", "refunded"} => q.captured = p.captured
    BY <1>3 DEF JobOK, EventOK, Paid, IntentStep, EventKind
  <2> QED
    BY <1>3, <2>1, <2>2 DEF JobOK, EventKind
<1>4. CASE k.op \notin {"resolve"} \cup EventKind
  BY <1>1, <1>4 DEF JobOK, IntentStep, Paid, Op, EventKind, Buying
<1> QED
  BY <1>2, <1>3, <1>4

\* A write to the row or its dispute that waits for the row lock leaves what
\* the sessions without the lock have read good enough for what they do next.
LEMMA WriteKeepsJob ==
  ASSUME NEW k \in Job, NEW r \in TxnRow, NEW d \in DisputeRow,
         NEW p \in PaymentIntent, NEW r2 \in TxnRow, NEW d2 \in DisputeRow,
         JobOK(k, r, d, p), ~ Locking(k), ~ Buying(k),
         r2.via = r.via,
         r2.amount = r.amount \/ r2.amount = p.captured,
         d.status # "none" => d2.status # "none"
  PROVE  JobOK(k, r2, d2, p)
<1>1. k.op \in Op
  BY DEF Job
<1>2. CASE k.op \in EventKind
  BY <1>2 DEF JobOK, EventKind, EventOK, WithIntent
<1>3. CASE k.op \notin EventKind
  BY <1>1, <1>3 DEF JobOK, Op, EventKind, Locking, Buying
<1> QED
  BY <1>2, <1>3

\* Before a transaction is inserted only its creator can be about it.
LEMMA OnlyCreator ==
  ASSUME NEW k \in Job, NEW r \in TxnRow, NEW d \in DisputeRow,
         NEW p \in PaymentIntent,
         RowOK(r, d, p), JobOK(k, r, d, p), r.status = "none"
  PROVE  Buying(k)
<1>1. k.op \in Op
  BY DEF Job
<1> QED
  BY <1>1 DEF JobOK, RowOK, WithIntent, Op, EventKind, Buying

-----------------------------------------------------------------------------
(* The inductive invariant: from one row back to all of them.              *)

\* A step about transaction t has to re-establish the invariant for t only.
LEMMA LocalStep ==
  ASSUME IInv, TypeOK', NEW t \in Txn,
         \A u \in Txn \ {t} : /\ txn'[u] = txn[u]
                              /\ dispute'[u] = dispute[u]
                              /\ pi'[u] = pi[u],
         RowOK(txn'[t], dispute'[t], pi'[t]),
         \A e \in event' : e.txn # t => e \in event,
         \A e \in event' : e.txn = t => EventOK(e.kind, txn'[t], pi'[t]),
         \A s \in Session :
           (job'[s] # Idle /\ job'[s].txn # t) => job'[s] = job[s],
         \A s \in Session :
           (job'[s] # Idle /\ job'[s].txn = t)
             => JobOK(job'[s], txn'[t], dispute'[t], pi'[t]),
         JobsCompatible'
  PROVE  IInv'
<1>1. RowsOK'
  BY DEF IInv, RowsOK
<1>2. EventsOK'
  <2> SUFFICES ASSUME NEW e \in event'
               PROVE  EventOK(e.kind, txn'[e.txn], pi'[e.txn])
    BY DEF EventsOK
  <2>1. e.txn \in Txn
    BY DEF TypeOK, Event
  <2> QED
    BY <2>1 DEF IInv, EventsOK
<1>3. JobsOK'
  <2> SUFFICES ASSUME NEW s \in Session, job'[s] # Idle
               PROVE  JobOK(job'[s], txn'[job'[s].txn],
                            dispute'[job'[s].txn], pi'[job'[s].txn])
    BY DEF JobsOK
  <2>1. job'[s].txn \in Txn
    BY DEF TypeOK, Job
  <2> QED
    BY <2>1 DEF IInv, JobsOK
<1> QED
  BY <1>1, <1>2, <1>3 DEF IInv

\* Facts about the jobs of a session: its own, and those beside it.
LEMMA StartCompatible ==
  ASSUME IInv, NEW s \in Session, NEW j \in Job, Start(s, j),
         \A u \in Session \ {s} :
           job[u] # Idle => Compatible(j, job[u])
  PROVE  JobsCompatible'
<1>1. job' = [job EXCEPT ![s] = j] /\ job \in [Session -> {Idle} \cup Job]
  BY DEF Start, IInv, TypeOK
<1> SUFFICES ASSUME NEW u \in Session, NEW v \in Session, u # v,
                    job'[u] # Idle, job'[v] # Idle
             PROVE  Compatible(job'[u], job'[v])
  BY DEF JobsCompatible
<1>2. CASE u = s
  BY <1>1, <1>2
<1>3. CASE v = s
  <2>1. Compatible(j, job[u])
    BY <1>1, <1>3
  <2> QED
    BY <1>1, <1>3, <2>1 DEF Compatible
<1>4. CASE u # s /\ v # s
  BY <1>1, <1>4 DEF IInv, JobsCompatible
<1> QED
  BY <1>2, <1>3, <1>4

LEMMA AdvanceCompatible ==
  ASSUME IInv, NEW s \in Session, job[s] # Idle,
         NEW pc \in {"checked", "created", "locked", "settled"},
         Advance(s, pc),
         pc \in {"locked", "settled"} => Locking(job[s]) \/ RowFree(job[s].txn)
  PROVE  JobsCompatible'
<1>1. job[s] \in Job
  BY HasJob DEF IInv
<1>2. job' = [job EXCEPT ![s] = [job[s] EXCEPT !.pc = pc]]
      /\ job \in [Session -> {Idle} \cup Job]
  BY DEF Advance, IInv, TypeOK
<1> DEFINE j == [job[s] EXCEPT !.pc = pc]
<1>3. j.txn = job[s].txn /\ j.op = job[s].op /\ j.pc = pc
  BY <1>1 DEF Job
<1>4. \A u \in Session \ {s} : job[u] # Idle => Compatible(j, job[u])
  BY <1>3 DEF IInv, JobsCompatible, Compatible, Locking, Buying, RowFree
<1> HIDE DEF j
<1>5. job'[s] = j /\ \A u \in Session \ {s} : job'[u] = job[u]
  BY <1>2 DEF j
<1> SUFFICES ASSUME NEW u \in Session, NEW v \in Session, u # v,
                    job'[u] # Idle, job'[v] # Idle
             PROVE  Compatible(job'[u], job'[v])
  BY DEF JobsCompatible
<1>6. CASE u = s
  BY <1>4, <1>5, <1>6
<1>7. CASE v = s
  <2>1. Compatible(j, job[u])
    BY <1>4, <1>5, <1>7
  <2> QED
    BY <1>5, <1>7, <2>1 DEF Compatible
<1>8. CASE u # s /\ v # s
  BY <1>5, <1>8 DEF IInv, JobsCompatible
<1> QED
  BY <1>6, <1>7, <1>8

LEMMA FinishCompatible ==
  ASSUME IInv, NEW s \in Session, Finish(s)
  PROVE  /\ JobsCompatible'
         /\ job'[s] = Idle
         /\ \A u \in Session \ {s} : job'[u] = job[u]
  BY DEF IInv, TypeOK, Finish, JobsCompatible

LEMMA OthersCompatible ==
  ASSUME IInv, NEW s \in Session, NEW u \in Session \ {s},
         job[s] # Idle, job[u] # Idle, job[s].txn = job[u].txn
  PROVE  /\ Locking(job[s]) => ~ Locking(job[u])
         /\ Buying(job[s]) => ~ Buying(job[u])
  BY DEF IInv, JobsCompatible, Compatible

\* A session that only starts a job.
LEMMA StartStep ==
  ASSUME IInv, TypeOK', NEW s \in Session, NEW j \in Job, Start(s, j),
         UNCHANGED <<txn, dispute, pi, event>>,
         JobOK(j, txn[j.txn], dispute[j.txn], pi[j.txn]),
         \A u \in Session \ {s} : job[u] # Idle => Compatible(j, job[u])
  PROVE  IInv'
<1>1. j.txn \in Txn
  BY DEF Job
<1>2. /\ job'[s] = j
      /\ \A u \in Session \ {s} : job'[u] = job[u]
  BY DEF Start, IInv, TypeOK
<1>3. JobsCompatible'
  BY StartCompatible
<1>4. \A u \in Session : job[u] # Idle =>
        JobOK(job[u], txn[job[u].txn], dispute[job[u].txn], pi[job[u].txn])
  BY DEF IInv, JobsOK
<1>5. JobsOK'
  BY <1>1, <1>2, <1>4 DEF JobsOK
<1>6. RowsOK' /\ EventsOK'
  BY DEF IInv, RowsOK, EventsOK
<1> QED
  BY <1>3, <1>5, <1>6 DEF IInv

\* An intent takes a step and, perhaps, one event
\* is created: whoever makes it happen, rows, events and other jobs stay right.
LEMMA IntentMoves ==
  ASSUME IInv, TypeOK', NEW t \in Txn, UNCHANGED <<txn, dispute>>,
         \A u \in Txn \ {t} : pi'[u] = pi[u],
         IntentStep(pi[t], pi'[t]),
         (pi'[t].state = "captured" /\ dispute[t].status = "none")
            => pi'[t].captured = Price,
         \A s \in Session : (job[s] # Idle /\ job[s].txn = t /\ Buying(job[s]))
           => pi'[t].state = "held",
         \A e \in event' : e \in event \/ (e.txn = t /\
                             EventOK(e.kind, txn[t], pi'[t])),
         \A s \in Session : \/ job'[s] = job[s]
                            \/ JobOK(job'[s], txn[t], dispute[t], pi'[t])
                               /\ job'[s].txn = t,
         JobsCompatible'
  PROVE  IInv'
<1>1. /\ txn[t] \in TxnRow /\ dispute[t] \in DisputeRow
      /\ pi[t] \in PaymentIntent /\ pi'[t] \in PaymentIntent
  BY DEF IInv, TypeOK
<1>2. RowOK(txn[t], dispute[t], pi[t])
  BY DEF IInv, RowsOK
<1>4. RowOK(txn[t], dispute[t], pi'[t])
  BY <1>1, <1>2, IntentKeepsRow
<1>5. \A e \in event' : e.txn = t => EventOK(e.kind, txn[t], pi'[t])
  <2> SUFFICES ASSUME NEW e \in event, e.txn = t
               PROVE  EventOK(e.kind, txn[t], pi'[t])
    OBVIOUS
  <2>1. EventOK(e.kind, txn[t], pi[t]) /\ e.kind \in EventKind
    BY DEF IInv, EventsOK, TypeOK, Event
  <2> QED
    BY <2>1, IntentKeepsEvent
<1>6. \A s \in Session : (job'[s] # Idle /\ job'[s].txn = t)
         => JobOK(job'[s], txn[t], dispute[t], pi'[t])
  <2> SUFFICES ASSUME NEW s \in Session, job[s] # Idle, job[s].txn = t
               PROVE  JobOK(job[s], txn[t], dispute[t], pi'[t])
    OBVIOUS
  <2>1. JobOK(job[s], txn[t], dispute[t], pi[t]) /\ job[s] \in Job
    BY HasJob DEF IInv, JobsOK
  <2> QED
    BY <1>1, <1>2, <2>1, IntentKeepsJob
<1>7. \A s \in Session :
        (job'[s] # Idle /\ job'[s].txn # t) => job'[s] = job[s]
  OBVIOUS
<1> QED
  BY <1>4, <1>5, <1>6, <1>7, LocalStep

\* The same for a session that makes it happen and gets on with its job.
LEMMA SessionMovesIntent ==
  ASSUME IInv, TypeOK', NEW s \in Session, NEW t \in Txn, NEW kind \in EventKind,
         UNCHANGED <<txn, dispute>>,
         \A u \in Txn \ {t} : pi'[u] = pi[u],
         IntentStep(pi[t], pi'[t]), WithIntent(txn[t]),
         (pi'[t].state = "captured" /\ dispute[t].status = "none")
            => pi'[t].captured = Price,
         event' = event \cup {[txn |-> t, kind |-> kind]},
         EventOK(kind, txn[t], pi'[t]),
         job'[s].txn = t,
         JobOK(job'[s], txn[t], dispute[t], pi'[t]),
         \A u \in Session \ {s} : job'[u] = job[u],
         JobsCompatible'
  PROVE  IInv'
<1>1. \A e \in event' : e \in event \/ (e.txn = t /\
                            EventOK(e.kind, txn[t], pi'[t]))
  OBVIOUS
<1>2. \A u \in Session : \/ job'[u] = job[u]
                         \/ JobOK(job'[u], txn[t], dispute[t], pi'[t])
                            /\ job'[u].txn = t
  OBVIOUS
<1>3. \A u \in Session : (job[u] # Idle /\ job[u].txn = t) => ~ Buying(job[u])
  BY DEF IInv, JobsOK, JobOK, RowsOK, RowOK, WithIntent, Buying
<1> QED
  BY <1>1, <1>2, <1>3, IntentMoves

-----------------------------------------------------------------------------
(* The inductive invariant: the actions.                                   *)

LEMMA InitInv == Init => IInv
<1> SUFFICES ASSUME Init PROVE IInv
  OBVIOUS
<1>1. TypeOK
  BY InitType
<1>2. RowsOK
  BY DEF Init, RowsOK, RowOK, WithIntent, Paid
<1> QED
  BY <1>1, <1>2 DEF Init, IInv, EventsOK, JobsOK, JobsCompatible

LEMMA StartCreating ==
  ASSUME IInv, TypeOK', NEW s \in Session, NEW t \in Txn,
         BeginPurchase(s, t) \/ BeginAdopt(s, t)
  PROVE  IInv'
<1>1. PICK op \in {"purchase", "adopt"} : Start(s, Request("checked", op, t))
  BY DEF BeginPurchase, BeginAdopt
<1>2. Request("checked", op, t) \in Job
  BY RequestType DEF Op
<1>3. /\ UNCHANGED <<txn, dispute, pi, event>>
      /\ Unused(t)
  BY DEF BeginPurchase, BeginAdopt
<1>4. JobOK(Request("checked", op, t), txn[t], dispute[t], pi[t])
  BY <1>3 DEF Unused, JobOK, Request
<1>5. \A u \in Session \ {s} :
        job[u] # Idle => Compatible(Request("checked", op, t), job[u])
  BY <1>3 DEF Unused, Compatible, Request
<1>6. Request("checked", op, t).txn = t
  BY DEF Request
<1> QED
  BY <1>1, <1>2, <1>3, <1>4, <1>5, <1>6, StartStep

LEMMA CreateIntentStep ==
  ASSUME IInv, TypeOK', NEW s \in Session, CreatePaymentIntent(s)
  PROVE  IInv'
<1> DEFINE t == job[s].txn
<1>1. job[s] # Idle
  BY DEF CreatePaymentIntent, Idle
<1>2. job[s] \in Job /\ t \in Txn
  BY <1>1, HasJob DEF IInv
<1>3. /\ RowOK(txn[t], dispute[t], pi[t])
      /\ JobOK(job[s], txn[t], dispute[t], pi[t])
  BY <1>1, <1>2 DEF IInv, RowsOK, JobsOK
<1>4. txn[t].status = "none" /\ pi[t].state = "none" /\ Buying(job[s])
  BY <1>3 DEF JobOK, CreatePaymentIntent, Buying
<1>5. /\ pi'[t].state = "created" /\ pi'[t].captured = pi[t].captured
      /\ \A u \in Txn \ {t} : pi'[u] = pi[u]
      /\ UNCHANGED <<txn, dispute, event>>
  BY <1>2 DEF CreatePaymentIntent, IInv, TypeOK, PaymentIntent
<1>6. RowOK(txn[t], dispute[t], pi'[t])
  BY <1>3, <1>4, <1>5 DEF RowOK, CarriedOut, Paid, WithIntent
<1>7. \A e \in event : e.txn # t
  BY <1>4 DEF IInv, EventsOK, EventOK, Paid, TypeOK, Event, EventKind
<1>8. \A u \in Session \ {s} : job[u] # Idle => job[u].txn # t
  <2> SUFFICES ASSUME NEW u \in Session \ {s}, job[u] # Idle, job[u].txn = t
               PROVE  FALSE
    OBVIOUS
  <2>1. job[u] \in Job /\ JobOK(job[u], txn[t], dispute[t], pi[t])
    BY HasJob DEF IInv, JobsOK
  <2>2. Buying(job[u])
    BY <1>2, <1>3, <1>4, <2>1, OnlyCreator DEF IInv, TypeOK
  <2> QED
    BY <1>1, <1>4, <2>2, OthersCompatible
<1>9. /\ JobsCompatible'
      /\ Advance(s, "created")
  BY <1>1, AdvanceCompatible DEF CreatePaymentIntent
<1>10. /\ job'[s] = [job[s] EXCEPT !.pc = "created"]
       /\ \A u \in Session \ {s} : job'[u] = job[u]
  BY <1>9 DEF Advance, IInv, TypeOK
<1>11. JobOK(job'[s], txn'[t], dispute'[t], pi'[t]) /\ job'[s].txn = t
  BY <1>2, <1>4, <1>5, <1>10 DEF JobOK, Job, Buying
<1> HIDE DEF t
<1>12. \A u \in Session : job'[u] # Idle =>
         IF job'[u].txn = t
         THEN JobOK(job'[u], txn'[t], dispute'[t], pi'[t])
         ELSE job'[u] = job[u]
  BY <1>8, <1>10, <1>11
<1> QED
  BY <1>2, <1>5, <1>6, <1>7, <1>9, <1>12, LocalStep

LEMMA InsertStep ==
  ASSUME IInv, TypeOK', NEW s \in Session, InsertTransaction(s)
  PROVE  IInv'
<1> DEFINE t == job[s].txn
<1>1. job[s] # Idle
  BY DEF InsertTransaction, Idle
<1>2. job[s] \in Job /\ t \in Txn
  BY <1>1, HasJob DEF IInv
<1>3. /\ RowOK(txn[t], dispute[t], pi[t])
      /\ JobOK(job[s], txn[t], dispute[t], pi[t])
  BY <1>1, <1>2 DEF IInv, RowsOK, JobsOK
<1>4. /\ txn[t].status = "none" /\ Buying(job[s])
      /\ pi[t].state \in {"created", "held"}
  BY <1>3 DEF JobOK, InsertTransaction, Buying
<1>5. /\ txn'[t].status = IF job[s].op = "purchase" THEN "escrow" ELSE "pending"
      /\ txn'[t].via = job[s].op
      /\ txn'[t].amount = Price
      /\ \A u \in Txn \ {t} : txn'[u] = txn[u]
      /\ UNCHANGED <<dispute, pi, event>>
  BY <1>2 DEF InsertTransaction, IInv, TypeOK
<1>6. RowOK(txn'[t], dispute'[t], pi'[t])
  BY <1>3, <1>4, <1>5 DEF RowOK, CarriedOut, Paid, WithIntent, Buying
<1>7. \A e \in event : e.txn # t
  BY <1>4 DEF IInv, EventsOK, EventOK, Paid, TypeOK, Event, EventKind
<1>8. \A u \in Session \ {s} : job[u] # Idle => job[u].txn # t
  <2> SUFFICES ASSUME NEW u \in Session \ {s}, job[u] # Idle, job[u].txn = t
               PROVE  FALSE
    OBVIOUS
  <2>1. job[u] \in Job /\ JobOK(job[u], txn[t], dispute[t], pi[t])
    BY HasJob DEF IInv, JobsOK
  <2>2. Buying(job[u])
    BY <1>2, <1>3, <1>4, <2>1, OnlyCreator DEF IInv, TypeOK
  <2> QED
    BY <1>1, <1>4, <2>2, OthersCompatible
<1>9. /\ JobsCompatible'
      /\ job'[s] = Idle
      /\ \A u \in Session \ {s} : job'[u] = job[u]
  BY FinishCompatible DEF InsertTransaction
<1> QED
  BY <1>2, <1>5, <1>6, <1>7, <1>8, <1>9, LocalStep

LEMMA InsertUnpaidStep ==
  ASSUME IInv, TypeOK', NEW t \in Txn,
         NEW st \in {"pending", "completed"}, NEW via \in {"mcp", "free"},
         NEW amt \in Amount, InsertUnpaid(t, st, via, amt)
  PROVE  IInv'
<1>1. RowOK(txn[t], dispute[t], pi[t])
  BY DEF IInv, RowsOK
<1>2. /\ txn'[t] = [status |-> st, via |-> via, amount |-> amt]
      /\ \A u \in Txn \ {t} : txn'[u] = txn[u]
      /\ UNCHANGED <<dispute, pi, job, event>>
      /\ Unused(t)
  BY DEF InsertUnpaid, IInv, TypeOK
<1>3. RowOK(txn'[t], dispute'[t], pi'[t])
  BY <1>1, <1>2 DEF Unused, RowOK, CarriedOut, Paid, WithIntent
<1>4. \A e \in event : e.txn # t
  BY <1>2 DEF IInv, EventsOK, EventOK, Paid, TypeOK, Event, EventKind, Unused
<1>5. \A u \in Session : job[u] # Idle => job[u].txn # t
  BY <1>2 DEF Unused
<1>6. JobsCompatible'
  BY <1>2 DEF IInv, JobsCompatible
<1> QED
  BY <1>2, <1>3, <1>4, <1>5, <1>6, LocalStep

LEMMA LockStep ==
  ASSUME IInv, TypeOK', NEW s \in Session, NEW t \in Txn,
         \/ LockForConfirm(s, t)
         \/ LockForCancel(s, t)
         \/ LockForRefund(s, t)
  PROVE  IInv'
<1>1. PICK op \in {"confirm", "cancel", "refund"} :
        /\ Lock(s, t, op)
        /\ op = "confirm" => txn[t].status = "escrow"
        /\ op = "cancel" => txn[t].status \in {"pending", "escrow"}
        /\ op = "refund" => txn[t].status = "completed"
  BY DEF LockForConfirm, LockForCancel, LockForRefund
<1> DEFINE j == Request("locked", op, t)
<1>2. j \in Job
  BY RequestType DEF Op
<1>3. RowOK(txn[t], dispute[t], pi[t])
  BY DEF IInv, RowsOK
<1>4. JobOK(j, txn[t], dispute[t], pi[t]) /\ j.txn = t
  BY <1>1, <1>3 DEF JobOK, Request, RowOK
<1>5. \A u \in Session \ {s} : job[u] # Idle => Compatible(j, job[u])
  BY <1>1 DEF Lock, RowFree, Compatible, Locking, Buying, Request
<1> QED
  BY <1>1, <1>2, <1>4, <1>5, StartStep DEF Lock

LEMMA ReadStep ==
  ASSUME IInv, TypeOK', NEW s \in Session, NEW j \in Job, Start(s, j),
         UNCHANGED <<txn, dispute, pi, event>>,
         JobOK(j, txn[j.txn], dispute[j.txn], pi[j.txn]),
         j.pc = "checked", ~ Buying(j)
  PROVE  IInv'
<1>1. \A u \in Session \ {s} : job[u] # Idle => Compatible(j, job[u])
  BY DEF Compatible, Locking
<1> QED
  BY <1>1, StartStep

LEMMA ReadForDecisionStep ==
  ASSUME IInv, TypeOK', NEW s \in Session, NEW t \in Txn,
         NEW res \in DisputeResolution, NEW amt \in 0 .. Price,
         ReadForDecision(s, t, res, amt)
  PROVE  IInv'
<1> DEFINE j == [pc |-> "checked", op |-> "resolve", txn |-> t,
                 res |-> res, amt |-> amt]
<1>1. j \in Job
  BY DEF Job, Amount, Op
<1>2. JobOK(j, txn[t], dispute[t], pi[t])
  BY DEF JobOK, ReadForDecision
<1> QED
  BY <1>1, <1>2, ReadStep DEF ReadForDecision, Buying

LEMMA ReadForDisputesStep ==
  ASSUME IInv, TypeOK', NEW s \in Session, NEW t \in Txn,
         \/ ReadForDispute(s, t)
         \/ ReadForMessage(s, t)
         \/ ReadForEscalate(s, t)
  PROVE  IInv'
<1>1. RowOK(txn[t], dispute[t], pi[t])
  BY DEF IInv, RowsOK
<1>2. PICK op \in {"open", "message", "escalate"} :
        /\ Start(s, Request("checked", op, t))
        /\ UNCHANGED <<txn, dispute, pi, event>>
        /\ op = "open" => txn[t].via = "purchase"
        /\ op # "open" => dispute[t].status # "none"
  BY <1>1 DEF ReadForDispute, ReadForMessage, ReadForEscalate, RowOK
<1> DEFINE j == Request("checked", op, t)
<1>3. j \in Job
  BY RequestType DEF Op
<1>4. /\ JobOK(j, txn[t], dispute[t], pi[t])
      /\ j.txn = t /\ j.pc = "checked" /\ ~ Buying(j)
  BY <1>2 DEF JobOK, Request, Buying
<1> QED
  BY <1>2, <1>3, <1>4, ReadStep

LEMMA ReceiveStep ==
  ASSUME IInv, TypeOK', NEW s \in Session, NEW e \in Event, ReceiveEvent(s, e)
  PROVE  IInv'
<1> DEFINE t == e.txn
           j == Request("checked", e.kind, t)
<1>1. t \in Txn /\ e.kind \in EventKind
  BY DEF Event
<1>2. j \in Job
  BY <1>1, RequestType DEF Op
<1>3. /\ RowOK(txn[t], dispute[t], pi[t])
      /\ EventOK(e.kind, txn[t], pi[t])
      /\ WebhookApplies(e.kind, txn[t].status)
  BY <1>1 DEF IInv, RowsOK, EventsOK, ReceiveEvent
<1>4. e.kind = "succeeded" => pi[t].captured = Price
  BY <1>3 DEF WebhookApplies, RowOK, EventOK
<1>5. e.kind = "refunded" => txn[t].amount = pi[t].captured
  BY <1>3 DEF WebhookApplies, RowOK, EventOK
<1>6. WithIntent(txn[t])
  BY <1>3 DEF WebhookApplies, EventOK
<1>7. /\ JobOK(j, txn[t], dispute[t], pi[t])
      /\ j.txn = t /\ j.pc = "checked" /\ ~ Buying(j)
  BY <1>1, <1>3, <1>4, <1>5, <1>6 DEF JobOK, Request, Buying, EventKind
<1> QED
  BY <1>2, <1>7, ReadStep DEF ReceiveEvent

LEMMA LockForResolveStep ==
  ASSUME IInv, TypeOK', NEW s \in Session, LockForResolve(s)
  PROVE  IInv'
<1> DEFINE t == job[s].txn
<1>1. job[s] # Idle
  BY DEF LockForResolve, Busy, Idle
<1>2. job[s] \in Job /\ t \in Txn
  BY <1>1, HasJob DEF IInv
<1>3. /\ RowOK(txn[t], dispute[t], pi[t])
      /\ JobOK(job[s], txn[t], dispute[t], pi[t])
  BY <1>1, <1>2 DEF IInv, RowsOK, JobsOK
<1>4. /\ job'[s] = [job[s] EXCEPT !.pc = "locked"]
      /\ \A u \in Session \ {s} : job'[u] = job[u]
  BY DEF LockForResolve, Advance, IInv, TypeOK
<1>5. JobsCompatible'
  BY <1>1, AdvanceCompatible DEF LockForResolve
<1>6. job[s].res = "partial_refund" => job[s].amt < Price
  <2>1. txn[t].amount \in 0 .. Price /\ job[s].amt \in 0 .. Price
    BY <1>2 DEF IInv, TypeOK, TxnRow, Amount, Job
  <2> QED
    BY <2>1, PriceAssumption DEF LockForResolve
<1>7. JobOK(job'[s], txn[t], dispute[t], pi[t]) /\ job'[s].txn = t
  BY <1>2, <1>3, <1>4, <1>6 DEF JobOK, Job, LockForResolve, Busy
<1>8. UNCHANGED <<txn, dispute, pi, event>>
  BY DEF LockForResolve
<1> HIDE DEF t
<1>9. JobsOK'
  BY <1>4, <1>7, <1>8 DEF IInv, JobsOK
<1>10. RowsOK' /\ EventsOK'
  BY <1>8 DEF IInv, RowsOK, EventsOK
<1> QED
  BY <1>5, <1>9, <1>10 DEF IInv

\* The call of Stripe by a session that holds the row lock.
LEMMA CallStripeStep ==
  ASSUME IInv, TypeOK', NEW s \in Session, CallStripe(s)
  PROVE  IInv'
<1> DEFINE t == job[s].txn
           j == job[s]
<1>1. j # Idle
  BY DEF CallStripe, Idle
<1>2. /\ j \in Job /\ t \in Txn /\ j.op \in Op
      /\ txn[t] \in TxnRow /\ pi[t] \in PaymentIntent
  BY <1>1, HasJob DEF IInv, TypeOK
<1>3. /\ RowOK(txn[t], dispute[t], pi[t])
      /\ JobOK(j, txn[t], dispute[t], pi[t])
  BY <1>1, <1>2 DEF IInv, RowsOK, JobsOK
<1>4. /\ job'[s] = [j EXCEPT !.pc = "settled"]
      /\ \A u \in Session \ {s} : job'[u] = job[u]
      /\ UNCHANGED <<txn, dispute>>
      /\ j.pc = "locked"
  BY DEF CallStripe, Advance, IInv, TypeOK
<1>5. JobsCompatible'
  BY <1>1, AdvanceCompatible DEF CallStripe, Locking
<1>6. /\ job'[s].pc = "settled" /\ job'[s].txn = t /\ job'[s].op = j.op
      /\ job'[s].res = j.res /\ job'[s].amt = j.amt
  BY <1>2, <1>4 DEF Job
<1>7. j.op \in {"confirm", "cancel", "refund", "resolve"}
  BY <1>2, <1>3, <1>4 DEF JobOK, Op, EventKind
<1>8. CASE ~ NeedsStripe(j)
  <2>1. UNCHANGED <<pi, event>>
    BY <1>8 DEF CallStripe
  <2>2. ~ WithIntent(txn[t]) \/ (j.op = "cancel" /\ txn[t].status = "pending")
    BY <1>8 DEF NeedsStripe, HasIntent, WithIntent
  <2>3. j.op \in {"cancel", "refund"}
    BY <1>3, <1>7, <2>2 DEF JobOK, RowOK, WithIntent
  <2>4. JobOK(job'[s], txn[t], dispute[t], pi[t])
    BY <1>3, <1>6, <2>2, <2>3 DEF JobOK, RowOK, WithIntent
  <2> HIDE DEF t, j
  <2>5. JobsOK'
    BY <1>4, <1>6, <2>1, <2>4 DEF IInv, JobsOK
  <2>6. RowsOK' /\ EventsOK'
    BY <1>4, <2>1 DEF IInv, RowsOK, EventsOK
  <2> QED
    BY <1>5, <2>5, <2>6 DEF IInv
<1>9. CASE NeedsStripe(j)
  <2>1. WithIntent(txn[t]) /\ (j.op = "cancel" => txn[t].status = "escrow")
    BY <1>3, <1>9 DEF NeedsStripe, HasIntent, WithIntent, JobOK
  <2>2. CASE Outcome(j) = "cancel_auth"
    <3>1. Void(t)
      BY <1>9, <2>2 DEF CallStripe
    <3>2. /\ pi[t].state \in {"created", "held"} /\ pi'[t].state = "canceled"
          /\ \A u \in Txn \ {t} : pi'[u] = pi[u]
          /\ event' = event \cup {[txn |-> t, kind |-> "canceled"]}
      BY <1>2, <3>1 DEF Void, Emit, IInv, TypeOK, PaymentIntent
    <3>3. EventOK("canceled", txn[t], pi'[t])
      BY <2>1, <3>2 DEF EventOK
    <3>4. dispute[t].resolution = "none"
      BY <1>3, <3>2 DEF RowOK, CarriedOut, Paid
    <3>5. j.op = "cancel" \/ (j.op = "resolve" /\ j.res = "cancel_auth")
      BY <1>7, <2>2 DEF Outcome
    <3>6. JobOK(job'[s], txn[t], dispute[t], pi'[t])
      BY <1>3, <1>4, <1>6, <3>2, <3>4, <3>5 DEF JobOK, CarriedOut
    <3>7. IntentStep(pi[t], pi'[t])
      BY <3>2 DEF IntentStep
    <3> HIDE DEF t, j
    <3> QED
      BY <1>2, <1>4, <1>5, <1>6, <2>1, <3>2, <3>3, <3>6, <3>7,
         SessionMovesIntent DEF EventKind
  <2>3. CASE Outcome(j) = "refund"
    <3>1. Refund(t)
      BY <1>9, <2>3 DEF CallStripe
    <3>2. /\ pi[t].state = "captured" /\ pi'[t].state = "refunded"
          /\ pi'[t].captured = pi[t].captured
          /\ \A u \in Txn \ {t} : pi'[u] = pi[u]
          /\ event' = event \cup {[txn |-> t, kind |-> "refunded"]}
      BY <1>2, <3>1 DEF Refund, Emit, IInv, TypeOK, PaymentIntent
    <3>3. EventOK("refunded", txn[t], pi'[t])
      BY <2>1, <3>2 DEF EventOK, Paid
    <3>4. j.op = "refund"
      BY <1>3, <1>7, <2>3 DEF Outcome, JobOK, DisputeResolution
    <3>5. JobOK(job'[s], txn[t], dispute[t], pi'[t])
      BY <1>3, <1>6, <3>2, <3>4 DEF JobOK
    <3>6. IntentStep(pi[t], pi'[t])
      BY <3>2 DEF IntentStep
    <3> HIDE DEF t, j
    <3> QED
      BY <1>2, <1>4, <1>5, <1>6, <2>1, <3>2, <3>3, <3>5, <3>6,
         SessionMovesIntent DEF EventKind
  <2>4. CASE Outcome(j) \notin {"cancel_auth", "refund"}
    <3>1. Capture(t, CaptureAmount(j))
      BY <1>9, <2>4 DEF CallStripe
    <3>2. /\ pi[t].state = "held" /\ pi'[t].state = "captured"
          /\ pi'[t].captured = CaptureAmount(j)
          /\ \A u \in Txn \ {t} : pi'[u] = pi[u]
          /\ event' = event \cup {[txn |-> t, kind |-> "succeeded"]}
      BY <1>2, <3>1 DEF Capture, Emit, IInv, TypeOK
    <3>3. EventOK("succeeded", txn[t], pi'[t])
      BY <2>1, <3>2 DEF EventOK, Paid
    <3>4. dispute[t].resolution = "none"
      BY <1>3, <3>2 DEF RowOK, CarriedOut, Paid
    <3>5. \/ j.op = "confirm" /\ Outcome(j) = "release_funds"
          \/ /\ j.op = "resolve" /\ Outcome(j) = j.res
             /\ j.res \in {"release_funds", "partial_refund"}
      BY <1>3, <1>7, <2>4 DEF Outcome, JobOK, DisputeResolution
    <3>6. /\ dispute[t].status = "none" => pi'[t].captured = Price
          /\ JobOK(job'[s], txn[t], dispute[t], pi'[t])
      <4>1. CASE j.op = "confirm"
        BY <1>3, <1>6, <3>2, <3>5, <4>1 DEF JobOK, CaptureAmount, Paid
      <4>2. CASE j.op = "resolve" /\ j.res = "release_funds"
        BY <1>3, <1>4, <1>6, <3>2, <3>4, <3>5, <4>2
        DEF JobOK, CaptureAmount, Paid, CarriedOut
      <4>3. CASE j.op = "resolve" /\ j.res = "partial_refund"
        <5>1. j.amt \in 1 .. Price - 1
          BY <1>2, <1>3, <1>4, <4>3, PriceAssumption DEF JobOK, Job, Amount
        <5> QED
          BY <1>3, <1>4, <1>6, <3>2, <3>4, <3>5, <4>3, <5>1
          DEF JobOK, CaptureAmount, Paid, CarriedOut
      <4> QED
        BY <3>5, <4>1, <4>2, <4>3
    <3>7. IntentStep(pi[t], pi'[t])
      BY <3>2 DEF IntentStep
    <3> HIDE DEF t, j
    <3> QED
      BY <1>2, <1>4, <1>5, <1>6, <2>1, <3>2, <3>3, <3>6, <3>7,
         SessionMovesIntent DEF EventKind
  <2> QED
    BY <2>2, <2>3, <2>4
<1> QED
  BY <1>8, <1>9

\* A session that writes the row or its dispute and is done, while no other
\* session holds the row lock or is creating the transaction.
LEMMA WriteStep ==
  ASSUME IInv, TypeOK', NEW s \in Session, NEW t \in Txn,
         Finish(s), UNCHANGED <<pi, event>>,
         \A u \in Txn \ {t} : txn'[u] = txn[u] /\ dispute'[u] = dispute[u],
         RowOK(txn'[t], dispute'[t], pi[t]),
         \A u \in Session \ {s} : (job[u] # Idle /\ job[u].txn = t)
            => ~ Locking(job[u]) /\ ~ Buying(job[u]),
         txn[t].status # "none", txn'[t].via = txn[t].via,
         txn'[t].amount = txn[t].amount \/ txn'[t].amount = pi[t].captured,
         dispute[t].status # "none" => dispute'[t].status # "none"
  PROVE  IInv'
<1>1. /\ JobsCompatible'
      /\ job'[s] = Idle
      /\ \A u \in Session \ {s} : job'[u] = job[u]
  BY FinishCompatible
<1>2. /\ txn[t] \in TxnRow /\ txn'[t] \in TxnRow
      /\ dispute[t] \in DisputeRow /\ dispute'[t] \in DisputeRow
      /\ pi[t] \in PaymentIntent
  BY DEF IInv, TypeOK
<1>3. \A e \in event : e.txn = t => EventOK(e.kind, txn'[t], pi[t])
  BY DEF IInv, EventsOK, EventOK, WithIntent
<1>4. ASSUME NEW u \in Session \ {s}, job[u] # Idle, job[u].txn = t
      PROVE  JobOK(job[u], txn'[t], dispute'[t], pi[t])
  <2>1. JobOK(job[u], txn[t], dispute[t], pi[t]) /\ job[u] \in Job
    BY <1>4, HasJob DEF IInv, JobsOK
  <2> QED
    BY <1>2, <1>4, <2>1, WriteKeepsJob
<1>5. \A u \in Session : (job'[u] # Idle /\ job'[u].txn = t)
        => JobOK(job'[u], txn'[t], dispute'[t], pi'[t])
  BY <1>1, <1>4
<1>6. \A u \in Session :
        (job'[u] # Idle /\ job'[u].txn # t) => job'[u] = job[u]
  BY <1>1
<1> QED
  BY <1>1, <1>3, <1>5, <1>6, LocalStep

\* With the row lock free nobody else locks the row, and a transaction that
\* exists has no creator any more.
LEMMA FreeRow ==
  ASSUME IInv, NEW t \in Txn, RowFree(t), txn[t].status # "none"
  PROVE  \A u \in Session : (job[u] # Idle /\ job[u].txn = t)
           => ~ Locking(job[u]) /\ ~ Buying(job[u])
<1> SUFFICES ASSUME NEW u \in Session, job[u] # Idle, job[u].txn = t
             PROVE  ~ Locking(job[u]) /\ ~ Buying(job[u])
  OBVIOUS
<1>1. JobOK(job[u], txn[t], dispute[t], pi[t])
  BY DEF IInv, JobsOK
<1> QED
  BY <1>1 DEF JobOK, Buying, RowFree, Locking

LEMMA CommitStep ==
  ASSUME IInv, TypeOK', NEW s \in Session, Commit(s)
  PROVE  /\ IInv'
         /\ job[s].op = "resolve" => dispute[job[s].txn].resolution = "none"
<1> DEFINE t == job[s].txn
           j == job[s]
<1>1. j # Idle
  BY DEF Commit, Idle
<1>2. /\ j \in Job /\ t \in Txn /\ j.op \in Op /\ j.pc = "settled"
      /\ txn[t] \in TxnRow /\ pi[t] \in PaymentIntent
      /\ dispute[t] \in DisputeRow
  BY <1>1, HasJob DEF IInv, TypeOK, Commit
<1>3. /\ RowOK(txn[t], dispute[t], pi[t])
      /\ JobOK(j, txn[t], dispute[t], pi[t])
  BY <1>1, <1>2 DEF IInv, RowsOK, JobsOK
<1>4. j.op \in {"confirm", "cancel", "refund", "resolve"}
  BY <1>2, <1>3 DEF JobOK, Op, EventKind
<1>5. /\ txn'[t].status = StatusAfter(j)
      /\ txn'[t].amount = AmountAfter(j)
      /\ txn'[t].via = txn[t].via
      /\ \A u \in Txn \ {t} : txn'[u] = txn[u] /\ dispute'[u] = dispute[u]
      /\ dispute'[t] = IF j.op = "resolve" THEN Decision(j) ELSE dispute[t]
      /\ UNCHANGED <<pi, event>>
      /\ Finish(s)
  BY <1>2 DEF Commit, IInv, TypeOK, TxnRow
<1>6. \A u \in Session \ {s} : (job[u] # Idle /\ job[u].txn = t)
            => ~ Locking(job[u]) /\ ~ Buying(job[u])
  <2> SUFFICES ASSUME NEW u \in Session \ {s}, job[u] # Idle, job[u].txn = t
               PROVE  ~ Locking(job[u]) /\ ~ Buying(job[u])
    OBVIOUS
  <2>1. ~ Locking(job[u])
    BY <1>1, <1>2, OthersCompatible DEF Locking
  <2>2. txn[t].status # "none"
    BY <1>3, <1>4 DEF JobOK, RowOK
  <2>3. JobOK(job[u], txn[t], dispute[t], pi[t])
    BY DEF IInv, JobsOK
  <2> QED
    BY <2>1, <2>2, <2>3 DEF JobOK, Buying
<1>7. /\ RowOK(txn'[t], dispute'[t], pi[t])
      /\ txn'[t].amount = txn[t].amount \/ txn'[t].amount = pi[t].captured
      /\ dispute[t].status # "none" => dispute'[t].status # "none"
      /\ j.op = "resolve" => dispute[t].resolution = "none"
  <2>1. CASE j.op = "confirm"
    <3>1. StatusAfter(j) = "completed" /\ AmountAfter(j) = txn[t].amount
      BY <2>1 DEF StatusAfter, AmountAfter, Outcome
    <3> QED
      BY <1>2, <1>3, <1>5, <2>1, <3>1 DEF JobOK, RowOK, WithIntent, Paid
  <2>2. CASE j.op = "cancel"
    <3>1. StatusAfter(j) = "cancelled" /\ AmountAfter(j) = txn[t].amount
      BY <2>2 DEF StatusAfter, AmountAfter, Outcome
    <3> QED
      BY <1>2, <1>3, <1>5, <2>2, <3>1 DEF JobOK, RowOK, WithIntent, Paid
  <2>3. CASE j.op = "refund"
    <3>1. StatusAfter(j) = "refunded" /\ AmountAfter(j) = txn[t].amount
      BY <2>3 DEF StatusAfter, AmountAfter, Outcome
    <3> QED
      BY <1>2, <1>3, <1>5, <2>3, <3>1 DEF JobOK, RowOK, WithIntent, Paid
  <2>4. CASE j.op = "resolve"
    <3>1. /\ Outcome(j) = j.res
          /\ Decision(j).status = "resolved"
          /\ Decision(j).resolution = j.res
          /\ Decision(j).amount = j.amt
      BY <2>4 DEF Outcome, Decision
    <3>2. /\ CarriedOut(j.res, j.amt, pi[t])
          /\ dispute[t].resolution = "none" /\ dispute[t].status # "none"
          /\ j.res \in DisputeResolution
      BY <1>2, <1>3, <2>4 DEF JobOK
    <3>3. txn[t].via = "purchase" /\ WithIntent(txn[t])
      BY <1>3, <3>2 DEF RowOK, WithIntent
    <3>4. CASE j.res = "cancel_auth"
      BY <1>3, <1>5, <2>4, <3>1, <3>2, <3>3, <3>4
      DEF RowOK, CarriedOut, StatusAfter, AmountAfter, WithIntent, Paid
    <3>5. CASE j.res = "release_funds"
      BY <1>3, <1>5, <2>4, <3>1, <3>2, <3>3, <3>5
      DEF RowOK, CarriedOut, StatusAfter, AmountAfter, WithIntent, Paid
    <3>6. CASE j.res = "partial_refund"
      BY <1>3, <1>5, <2>4, <3>1, <3>2, <3>3, <3>6
      DEF RowOK, CarriedOut, StatusAfter, AmountAfter, WithIntent, Paid
    <3> QED
      BY <3>2, <3>4, <3>5, <3>6 DEF DisputeResolution
  <2> QED
    BY <1>4, <2>1, <2>2, <2>3, <2>4
<1>8. txn[t].status # "none"
  BY <1>3, <1>4 DEF JobOK, RowOK
<1> HIDE DEF t
<1>9. IInv'
  BY <1>2, <1>5, <1>6, <1>7, <1>8, WriteStep
<1> QED
  BY <1>7, <1>9 DEF t

LEMMA OpenDisputeStep ==
  ASSUME IInv, TypeOK', NEW s \in Session, OpenDispute(s)
  PROVE  IInv'
<1> DEFINE t == job[s].txn
<1>1. job[s] # Idle
  BY DEF OpenDispute, Busy, Idle
<1>2. /\ job[s] \in Job /\ t \in Txn
      /\ txn[t] \in TxnRow /\ dispute[t] \in DisputeRow
  BY <1>1, HasJob DEF IInv, TypeOK
<1>3. /\ RowOK(txn[t], dispute[t], pi[t])
      /\ JobOK(job[s], txn[t], dispute[t], pi[t])
  BY <1>1, <1>2 DEF IInv, RowsOK, JobsOK
<1>4. txn[t].via = "purchase" /\ txn[t].status # "none"
  BY <1>3 DEF JobOK, RowOK, OpenDispute, Busy
<1>5. /\ txn'[t].status = "disputed" /\ txn'[t].via = txn[t].via
      /\ txn'[t].amount = txn[t].amount
      /\ dispute'[t].status = "open"
      /\ dispute'[t].resolution = dispute[t].resolution
      /\ dispute'[t].amount = dispute[t].amount
      /\ \A u \in Txn \ {t} : txn'[u] = txn[u] /\ dispute'[u] = dispute[u]
      /\ UNCHANGED <<pi, event>>
      /\ Finish(s)
  BY <1>2 DEF OpenDispute, SetStatus, IInv, TypeOK, TxnRow, DisputeRow
<1>6. RowOK(txn'[t], dispute'[t], pi[t])
  BY <1>3, <1>4, <1>5 DEF RowOK, WithIntent
<1>7. \A u \in Session : (job[u] # Idle /\ job[u].txn = t)
           => ~ Locking(job[u]) /\ ~ Buying(job[u])
  BY <1>2, <1>4, FreeRow DEF OpenDispute
<1> HIDE DEF t
<1> QED
  BY <1>2, <1>4, <1>5, <1>6, <1>7, WriteStep

LEMMA ApplyEventStep ==
  ASSUME IInv, TypeOK', NEW s \in Session, NEW e \in Event, ApplyEvent(s, e)
  PROVE  IInv'
<1> DEFINE t == e.txn
<1>1. job[s] # Idle
  BY DEF ApplyEvent, Busy, Idle
<1>2. /\ t \in Txn /\ e.kind \in EventKind /\ job[s] \in Job
      /\ job[s].txn = t /\ job[s].op = e.kind
      /\ txn[t] \in TxnRow
  BY <1>1, HasJob DEF Event, ApplyEvent, Busy, IInv, TypeOK
<1>3. /\ RowOK(txn[t], dispute[t], pi[t])
      /\ JobOK(job[s], txn[t], dispute[t], pi[t])
  BY <1>1, <1>2 DEF IInv, RowsOK, JobsOK
<1>4. EventOK(e.kind, txn[t], pi[t])
  BY <1>2, <1>3 DEF JobOK, EventKind
<1>5. /\ txn'[t].status = WebhookStatus[e.kind] /\ txn'[t].via = txn[t].via
      /\ txn'[t].amount = txn[t].amount
      /\ \A u \in Txn \ {t} : txn'[u] = txn[u]
      /\ UNCHANGED <<dispute, pi, event>>
      /\ Finish(s)
  BY <1>2 DEF ApplyEvent, SetStatus, IInv, TypeOK, TxnRow
<1>6. txn[t].status # "none"
  BY <1>2, <1>3 DEF JobOK, EventKind, WithIntent, RowOK
<1>7. RowOK(txn'[t], dispute[t], pi[t])
  <2>1. CASE e.kind = "succeeded"
    <3>1. txn'[t].status = "completed"
      BY <1>5, <2>1 DEF WebhookStatus
    <3>2. pi[t].captured = Price /\ Paid(pi[t])
      BY <1>2, <1>3, <1>4, <2>1 DEF JobOK, EventOK
    <3> QED
      BY <1>3, <1>5, <1>6, <3>1, <3>2 DEF RowOK, WithIntent, Paid
  <2>2. CASE e.kind = "canceled"
    <3>1. txn'[t].status = "cancelled"
      BY <1>5, <2>2 DEF WebhookStatus
    <3>2. pi[t].state = "canceled"
      BY <1>4, <2>2 DEF EventOK
    <3> QED
      BY <1>3, <1>5, <1>6, <3>1, <3>2 DEF RowOK, WithIntent, Paid
  <2>3. CASE e.kind = "refunded"
    <3>1. txn'[t].status = "refunded"
      BY <1>5, <2>3 DEF WebhookStatus
    <3>2. pi[t].state = "refunded" /\ txn[t].amount = pi[t].captured
      BY <1>2, <1>3, <1>4, <2>3 DEF JobOK, EventOK
    <3> QED
      BY <1>3, <1>5, <1>6, <3>1, <3>2 DEF RowOK, WithIntent, Paid
  <2> QED
    BY <1>2, <2>1, <2>2, <2>3 DEF EventKind
<1>8. \A u \in Session : (job[u] # Idle /\ job[u].txn = t)
           => ~ Locking(job[u]) /\ ~ Buying(job[u])
  BY <1>2, <1>6, FreeRow DEF ApplyEvent
<1> HIDE DEF t
<1> QED
  BY <1>2, <1>5, <1>6, <1>7, <1>8, WriteStep

LEMMA WriteDisputeStep ==
  ASSUME IInv, TypeOK', NEW s \in Session, AddDisputeMessage(s) \/ EscalateDispute(s)
  PROVE  /\ IInv'
         /\ \A t \in Txn : /\ dispute'[t].resolution = dispute[t].resolution
                           /\ dispute'[t].amount = dispute[t].amount
<1> DEFINE t == job[s].txn
<1>1. PICK op \in {"message", "escalate"}, st \in DisputeStatus :
        WriteDispute(s, op, st)
  BY DEF AddDisputeMessage, EscalateDispute, DisputeStatus
<1>2. job[s] # Idle /\ job[s].pc = "checked" /\ job[s].op = op
  BY <1>1 DEF WriteDispute, Busy, Idle
<1>3. /\ job[s] \in Job /\ t \in Txn /\ dispute[t] \in DisputeRow
      /\ dispute'[t] \in DisputeRow /\ txn[t] \in TxnRow
      /\ pi[t] \in PaymentIntent
  BY <1>2, HasJob DEF IInv, TypeOK
<1>4. /\ RowOK(txn[t], dispute[t], pi[t])
      /\ JobOK(job[s], txn[t], dispute[t], pi[t])
  BY <1>2, <1>3 DEF IInv, RowsOK, JobsOK
<1>5. dispute[t].status # "none"
  BY <1>2, <1>4 DEF JobOK
<1>6. /\ dispute'[t].status = st
      /\ dispute'[t].resolution = dispute[t].resolution
      /\ dispute'[t].amount = dispute[t].amount
      /\ \A u \in Txn \ {t} : dispute'[u] = dispute[u]
      /\ UNCHANGED <<txn, pi, event>>
      /\ Finish(s)
  BY <1>1, <1>3 DEF WriteDispute, IInv, TypeOK, DisputeRow
<1>7. st # "none"
  BY DEF DisputeStatus
<1>8. RowOK(txn'[t], dispute'[t], pi'[t])
  BY <1>4, <1>5, <1>6, <1>7 DEF RowOK
<1>9. /\ JobsCompatible'
      /\ job'[s] = Idle
      /\ \A u \in Session \ {s} : job'[u] = job[u]
  BY <1>6, FinishCompatible
<1>10. \A u \in Session \ {s} : (job[u] # Idle /\ job[u].txn = t)
         => JobOK(job[u], txn[t], dispute'[t], pi[t])
  <2> SUFFICES ASSUME NEW u \in Session \ {s}, job[u] # Idle, job[u].txn = t
               PROVE  JobOK(job[u], txn[t], dispute'[t], pi[t])
    OBVIOUS
  <2>1. JobOK(job[u], txn[t], dispute[t], pi[t]) /\ job[u] \in Job
    BY HasJob DEF IInv, JobsOK
  <2>2. job[u].op \in Op
    BY <2>1 DEF Job
  <2> QED
    BY <1>5, <1>6, <1>7, <2>1, <2>2 DEF JobOK, Op, EventKind
<1>11. \A e \in event : e.txn = t => EventOK(e.kind, txn[t], pi[t])
  BY DEF IInv, EventsOK
<1> HIDE DEF t
<1>12. \A u \in Session : (job'[u] # Idle /\ job'[u].txn = t)
        => JobOK(job'[u], txn'[t], dispute'[t], pi'[t])
  BY <1>6, <1>9, <1>10
<1>13. \A u \in Session :
        (job'[u] # Idle /\ job'[u].txn # t) => job'[u] = job[u]
  BY <1>9
<1>14. IInv'
  BY <1>3, <1>6, <1>8, <1>9, <1>11, <1>12, <1>13, LocalStep
<1> QED
  BY <1>6, <1>14

LEMMA StripeStep ==
  ASSUME IInv, TypeOK', NEW t \in Txn,
         AuthorizeCard(t) \/ LapseHold(t) \/ ActInDashboard(t)
  PROVE  IInv'
<1>1. RowOK(txn[t], dispute[t], pi[t]) /\ pi[t] \in PaymentIntent
  BY DEF IInv, RowsOK, TypeOK
<1>2. /\ UNCHANGED <<txn, dispute, job>>
      /\ JobsCompatible'
  BY DEF AuthorizeCard, LapseHold, ActInDashboard, IInv, JobsCompatible
<1>3. CASE AuthorizeCard(t)
  <2>1. /\ IntentStep(pi[t], pi'[t])
        /\ \A u \in Txn \ {t} : pi'[u] = pi[u]
        /\ pi'[t].state = "held"
        /\ UNCHANGED event
    BY <1>1, <1>3
    DEF AuthorizeCard, IntentStep, IInv, TypeOK, PaymentIntent
  <2> QED
    BY <1>2, <2>1, IntentMoves
<1>4. CASE LapseHold(t) \/ ActInDashboard(t)
  <2>1. PICK kind \in EventKind :
          /\ IntentStep(pi[t], pi'[t])
          /\ \A u \in Txn \ {t} : pi'[u] = pi[u]
          /\ pi'[t].state = "captured" => pi'[t].captured = Price
          /\ kind = "succeeded" => Paid(pi'[t])
          /\ kind = "canceled" => pi'[t].state = "canceled"
          /\ kind = "refunded" => pi'[t].state = "refunded"
          /\ event' = event \cup {[txn |-> t, kind |-> kind]}
    <3>1. CASE Void(t)
      BY <1>1, <3>1
      DEF Void, Emit, IntentStep, IInv, TypeOK, PaymentIntent, EventKind
    <3>2. CASE Capture(t, Price) /\ pi[t].state = "held"
      BY <1>1, <3>2
      DEF Capture, Emit, IntentStep, IInv, TypeOK, PaymentIntent, EventKind, Paid
    <3>3. CASE Refund(t)
      BY <1>1, <3>3
      DEF Refund, Emit, IntentStep, IInv, TypeOK, PaymentIntent, EventKind
    <3> QED
      BY <1>4, <3>1, <3>2, <3>3 DEF LapseHold, ActInDashboard, Capture
  <2>2. txn[t].status = "none" \/ WithIntent(txn[t])
    BY <1>1, <1>4
    DEF LapseHold, ActInDashboard, Capture, Refund, RowOK
  <2>3. \A e \in event' : e \in event \/ (e.txn = t /\
                              EventOK(e.kind, txn[t], pi'[t]))
    BY <2>1, <2>2 DEF EventOK
  <2>4. \A s \in Session :
          (job[s] # Idle /\ job[s].txn = t) => ~ Buying(job[s])
    BY <1>4 DEF LapseHold, ActInDashboard, BeingCreated, Buying
  <2> QED
    BY <1>2, <2>1, <2>3, <2>4, IntentMoves
<1> QED
  BY <1>3, <1>4

LEMMA CascadeStep ==
  ASSUME IInv, TypeOK', CancelPendingOfSeller
  PROVE  IInv'
<1>1. /\ UNCHANGED <<dispute, pi, job, event>>
      /\ \A t \in Txn :
           IF txn[t].status = "pending"
           THEN /\ RowFree(t)
                /\ txn'[t].status = "cancelled"
                /\ txn'[t].via = txn[t].via
                /\ txn'[t].amount = txn[t].amount
           ELSE txn'[t] = txn[t]
  BY DEF CancelPendingOfSeller, IInv, TypeOK, TxnRow
<1>2. RowsOK'
  <2> SUFFICES ASSUME NEW t \in Txn
               PROVE  RowOK(txn'[t], dispute[t], pi[t])
    BY <1>1 DEF RowsOK
  <2>1. RowOK(txn[t], dispute[t], pi[t])
    BY DEF IInv, RowsOK
  <2> QED
    BY <1>1, <2>1 DEF RowOK, WithIntent
<1>3. EventsOK'
  <2> SUFFICES ASSUME NEW e \in event
               PROVE  EventOK(e.kind, txn'[e.txn], pi[e.txn])
    BY <1>1 DEF EventsOK
  <2>1. e.txn \in Txn /\ EventOK(e.kind, txn[e.txn], pi[e.txn])
    BY DEF IInv, TypeOK, Event, EventsOK
  <2> QED
    BY <1>1, <2>1 DEF EventOK, WithIntent
<1>4. JobsOK'
  <2> SUFFICES ASSUME NEW s \in Session, job[s] # Idle
               PROVE  JobOK(job[s], txn'[job[s].txn], dispute[job[s].txn],
                            pi[job[s].txn])
    BY <1>1 DEF JobsOK
  <2> DEFINE t == job[s].txn
  <2>1. job[s] \in Job /\ t \in Txn /\ JobOK(job[s], txn[t], dispute[t], pi[t])
    BY HasJob DEF IInv, JobsOK
  <2>2. /\ txn[t] \in TxnRow /\ txn'[t] \in TxnRow
        /\ dispute[t] \in DisputeRow /\ pi[t] \in PaymentIntent
    BY <2>1 DEF IInv, TypeOK
  <2>3. CASE txn[t].status = "pending"
    <3>1. ~ Locking(job[s]) /\ ~ Buying(job[s])
      BY <1>1, <2>1, <2>3, FreeRow
    <3> QED
      BY <1>1, <2>1, <2>2, <2>3, <3>1, WriteKeepsJob
  <2>4. CASE txn[t].status # "pending"
    BY <1>1, <2>1, <2>4
  <2> QED
    BY <2>3, <2>4
<1>5. JobsCompatible'
  BY <1>1 DEF IInv, JobsCompatible
<1> QED
  BY <1>2, <1>3, <1>4, <1>5 DEF IInv

LEMMA QuietStep ==
  ASSUME IInv, TypeOK',
         \/ \E s \in Session : Abort(s)
         \/ \E e \in Event : IgnoreEvent(e)
         \/ UNCHANGED vars
  PROVE  IInv'
<1>1. CASE \E s \in Session : Abort(s)
  <2>1. PICK s \in Session : Abort(s)
    BY <1>1
  <2>2. /\ JobsCompatible'
        /\ job'[s] = Idle
        /\ \A u \in Session \ {s} : job'[u] = job[u]
    BY <2>1, FinishCompatible DEF Abort
  <2>3. UNCHANGED <<txn, dispute, pi, event>>
    BY <2>1 DEF Abort
  <2> QED
    BY <2>2, <2>3 DEF IInv, RowsOK, EventsOK, JobsOK
<1>2. CASE UNCHANGED <<txn, dispute, pi, job, event>>
  BY <1>2 DEF IInv, RowsOK, EventsOK, JobsOK, JobsCompatible
<1> QED
  BY <1>1, <1>2 DEF IgnoreEvent, vars

LEMMA InvStep ==
  ASSUME IInv, [Next]_vars
  PROVE  IInv'
<1>1. TypeOK'
  <2>1. TypeOK
    BY DEF IInv
  <2> QED
    BY <2>1, StepType DEF vars, TypeOK
<1>2. CASE Creating
  <2>1. ASSUME NEW t \in Txn, PurchaseFree(t) \/ AdoptFree(t) \/ PurchaseOverMcp(t)
        PROVE  IInv'
    <3>1. PICK st \in {"pending", "completed"}, via \in {"mcp", "free"},
               amt \in Amount : InsertUnpaid(t, st, via, amt)
      BY <2>1, PriceAssumption DEF PurchaseFree, AdoptFree, PurchaseOverMcp, Amount
    <3> QED
      BY <1>1, <3>1, InsertUnpaidStep
  <2> QED
    BY <1>1, <1>2, <2>1, StartCreating, CreateIntentStep, InsertStep
    DEF Creating
<1>3. CASE Settling
  BY <1>1, <1>3, LockStep, ReadForDecisionStep, LockForResolveStep,
     CallStripeStep, CommitStep
  DEF Settling, ReadForResolve, ReadForAdjudicate
<1>4. CASE Disputing
  BY <1>1, <1>4, ReadForDisputesStep, OpenDisputeStep, WriteDisputeStep
  DEF Disputing
<1>5. CASE Notifying
  BY <1>1, <1>5, QuietStep, ReceiveStep, ApplyEventStep DEF Notifying
<1>6. CASE Stripe
  BY <1>1, <1>6, StripeStep DEF Stripe
<1>7. CASE CancelPendingOfSeller \/ UNCHANGED vars
           \/ \E s \in Session : Abort(s)
  BY <1>1, <1>7, CascadeStep, QuietStep
<1> QED
  BY <1>2, <1>3, <1>4, <1>5, <1>6, <1>7 DEF Next

\* The inductive invariant holds in every reachable state: whatever reads,
\* writes, Stripe calls, webhooks and rollbacks interleave.
THEOREM Invariance == Spec => []IInv
BY InitInv, InvStep, PTL DEF Spec

-----------------------------------------------------------------------------
(* What the invariant says to the outside.                                 *)

\* The ledger never runs ahead of Stripe, for any number of sessions.
THEOREM LedgerNeverAhead == Spec => []SettledAtStripe
<1>1. IInv => SettledAtStripe
  BY DEF IInv, RowsOK, RowOK, SettledAtStripe, HasIntent, WithIntent, Paid
<1> QED
  BY <1>1, Invariance, PTL

\* amount_cents of a settled transaction is what Stripe captured.
THEOREM AmountsAgree == Spec => []AmountRecorded
<1>1. IInv => AmountRecorded
  BY DEF IInv, RowsOK, RowOK, AmountRecorded, HasIntent, WithIntent
<1> QED
  BY <1>1, Invariance, PTL

\* A recorded resolution is what happened to the money.
THEOREM ResolutionsAgree == Spec => []ResolutionMatchesStripe
<1>1. IInv => ResolutionMatchesStripe
  <2> SUFFICES ASSUME IInv, NEW t \in Txn, dispute[t].resolution # "none"
               PROVE  CASE dispute[t].resolution = "none" -> TRUE
      [] dispute[t].resolution = "cancel_auth" -> pi[t].state = "canceled"
      [] dispute[t].resolution = "release_funds" ->
           pi[t].state \in {"captured", "refunded"} /\ pi[t].captured = Price
      [] dispute[t].resolution = "partial_refund" ->
           /\ pi[t].state \in {"captured", "refunded"}
           /\ pi[t].captured = dispute[t].amount
           /\ dispute[t].amount \in 1 .. Price - 1
    BY DEF ResolutionMatchesStripe
  <2>1. CarriedOut(dispute[t].resolution, dispute[t].amount, pi[t])
    BY DEF IInv, RowsOK, RowOK
  <2>2. dispute[t].resolution \in DisputeResolution
    BY DEF IInv, TypeOK, DisputeRow
  <2> QED
    BY <2>1, <2>2 DEF CarriedOut, Paid, DisputeResolution
<1> QED
  BY <1>1, Invariance, PTL

\* The buyer's confirm or cancel and a dispute exclude each other.
THEOREM BuyerBeforeDispute == Spec => []DisputeWaitsForBuyer
<1>1. IInv => DisputeWaitsForBuyer
  <2> SUFFICES ASSUME IInv, NEW s \in Session,
                      job[s].pc \in {"locked", "settled"},
                      job[s].op \in {"confirm", "cancel"}
               PROVE  dispute[job[s].txn].status = "none"
    BY DEF DisputeWaitsForBuyer
  <2>1. job[s] # Idle
    BY DEF Idle
  <2>2. JobOK(job[s], txn[job[s].txn], dispute[job[s].txn], pi[job[s].txn])
    BY <2>1 DEF IInv, JobsOK
  <2> QED
    BY <2>2 DEF JobOK
<1> QED
  BY <1>1, Invariance, PTL

\* Which part of the tables a step can change.
LEMMA DisputeChanges ==
  ASSUME IInv, Next, NEW t \in Txn, dispute[t].resolution # "none"
  PROVE  /\ dispute'[t].resolution = dispute[t].resolution
         /\ dispute'[t].amount = dispute[t].amount
<1>1. TypeOK'
  BY StepType DEF IInv
<1>2. ASSUME NEW s \in Session, Commit(s)
      PROVE  dispute'[t] = dispute[t]
  <2>1. job[s].op = "resolve" => job[s].txn # t
    BY <1>1, <1>2, CommitStep
  <2> QED
    BY <1>2, <2>1 DEF Commit, IInv, TypeOK
<1>3. ASSUME NEW s \in Session, OpenDispute(s)
      PROVE  /\ dispute'[t].resolution = dispute[t].resolution
             /\ dispute'[t].amount = dispute[t].amount
  BY <1>3 DEF OpenDispute, IInv, TypeOK, DisputeRow
<1>4. ASSUME NEW s \in Session, AddDisputeMessage(s) \/ EscalateDispute(s)
      PROVE  /\ dispute'[t].resolution = dispute[t].resolution
             /\ dispute'[t].amount = dispute[t].amount
  BY <1>1, <1>4, WriteDisputeStep
<1>5. CASE Creating
  BY <1>5 DEF Creating, BeginPurchase, BeginAdopt, CreatePaymentIntent,
     InsertTransaction, PurchaseFree, AdoptFree, PurchaseOverMcp, InsertUnpaid
<1>6. CASE Settling
  BY <1>2, <1>6 DEF Settling, LockForConfirm, LockForCancel, LockForRefund, Lock,
     ReadForResolve, ReadForAdjudicate, ReadForDecision, LockForResolve, CallStripe
<1>7. CASE Disputing
  BY <1>3, <1>4, <1>7 DEF Disputing, ReadForDispute, ReadForMessage, ReadForEscalate
<1>8. CASE Notifying
  BY <1>8 DEF Notifying, IgnoreEvent, ReceiveEvent, ApplyEvent
<1>9. CASE Stripe
  BY <1>9 DEF Stripe, AuthorizeCard, LapseHold, ActInDashboard
<1>10. CASE CancelPendingOfSeller \/ \E s \in Session : Abort(s)
  BY <1>10 DEF CancelPendingOfSeller, Abort
<1> QED
  BY <1>5, <1>6, <1>7, <1>8, <1>9, <1>10 DEF Next

\* A dispute is decided at most once, for any number of competing requests.
THEOREM DecidedAtMostOnce == Spec => DecidedOnce
<1>1. IInv /\ [Next]_vars =>
        [\A t \in Txn :
           dispute[t].resolution # "none"
             => /\ dispute'[t].resolution = dispute[t].resolution
                /\ dispute'[t].amount = dispute[t].amount]_vars
  BY DisputeChanges
<1> QED
  BY <1>1, Invariance, PTL DEF Spec, DecidedOnce

-----------------------------------------------------------------------------
(* Escrow implements Settlement.  A step of Escrow writes one transaction  *)
(* row, moves one PaymentIntent, or does nothing the money or the book     *)
(* could tell.                                                             *)

\* Whatever is written to a row that the invariant accepts is a true entry.
LEMMA EntryIsTrue ==
  ASSUME NEW r \in TxnRow, NEW d \in DisputeRow, NEW p \in PaymentIntent,
         RowOK(r, d, p)
  PROVE  Entry(r) \in S!TrueEntries([at |-> MoneyAt(p.state),
                                     paid |-> p.captured])
<1>1. CASE r.via = "purchase" /\ r.status = "completed"
  BY <1>1 DEF RowOK, Entry, MoneyAt, S!TrueEntries, Paid, WithIntent
<1>2. CASE r.via = "purchase" /\ r.status = "refunded"
  BY <1>2 DEF RowOK, Entry, MoneyAt, S!TrueEntries, WithIntent
<1>3. CASE r.via = "purchase" /\ r.status = "cancelled"
  BY <1>3 DEF RowOK, Entry, MoneyAt, S!TrueEntries
<1>4. CASE ~ (r.via = "purchase"
              /\ r.status \in {"completed", "refunded", "cancelled"})
  BY <1>4 DEF Entry, S!TrueEntries, S!OpenEntry
<1> QED
  BY <1>1, <1>2, <1>3, <1>4

LEMMA RowWriteIsWrite ==
  ASSUME IInv, IInv', NEW t \in Txn, UNCHANGED pi,
         \A u \in Txn \ {t} : txn'[u] = txn[u]
  PROVE  S!Write(t)
<1>1. Entry(txn'[t]) \in S!TrueEntries(Money[t])
  <2>1. RowOK(txn'[t], dispute'[t], pi[t])
    BY DEF IInv, RowsOK
  <2>2. txn'[t] \in TxnRow /\ dispute'[t] \in DisputeRow /\ pi[t] \in PaymentIntent
    BY DEF IInv, TypeOK
  <2> QED
    BY <2>1, <2>2, EntryIsTrue DEF Money
<1>2. Book' = [Book EXCEPT ![t] = Entry(txn'[t])]
  BY DEF Book
<1>3. Money' = Money
  BY DEF Money
<1> QED
  BY <1>1, <1>2, <1>3 DEF S!Write

LEMMA IntentStepIsMove ==
  ASSUME IInv, IInv', NEW t \in Txn, UNCHANGED txn,
         \A u \in Txn \ {t} : pi'[u] = pi[u],
         IntentStep(pi[t], pi'[t]),
         pi[t].state = "held" /\ pi'[t].state = "captured"
           => pi'[t].captured \in 1 .. Price,
         pi'[t].state = "canceled" => pi'[t].captured = pi[t].captured
  PROVE  S!Next \/ UNCHANGED S!vars
<1>1. Book' = Book
  BY DEF Book
<1>2. Money' = [Money EXCEPT ![t] = [at |-> MoneyAt(pi'[t].state),
                                     paid |-> pi'[t].captured]]
  BY DEF Money
<1>3. Money[t] = [at |-> MoneyAt(pi[t].state), paid |-> pi[t].captured]
  BY DEF Money
<1>4. CASE pi[t].state = "created" /\ pi'[t].state = "held"
           /\ pi'[t].captured = pi[t].captured
  <2>1. Money' = Money
    BY <1>2, <1>3, <1>4 DEF Money, MoneyAt
  <2> QED
    BY <1>1, <2>1 DEF S!vars
<1>5. CASE pi[t].state = "held" /\ pi'[t].state = "captured"
  <2>1. MoneyAt(pi[t].state) = "hold" /\ MoneyAt(pi'[t].state) = "seller"
    BY <1>5 DEF MoneyAt
  <2>2. Money' = [Money EXCEPT ![t] = [at |-> "seller", paid |-> pi'[t].captured]]
    BY <1>2, <2>1
  <2>3. Money[t].at = "hold"
    BY <1>3, <2>1
  <2>4. \E amount \in 1 .. Price :
          Money' = [Money EXCEPT ![t] = [at |-> "seller", paid |-> amount]]
    <3>1. pi'[t].captured \in 1 .. Price
      BY <1>5
    <3> QED
      BY <2>2, <3>1, Zenon
  <2>5. S!PayOut(t)
    BY <1>1, <2>3, <2>4 DEF S!PayOut
  <2> QED
    BY <2>5 DEF S!Next
<1>6. CASE pi[t].state \in {"created", "held"} /\ pi'[t].state = "canceled"
  <2>1. Money[t].at = "hold"
    BY <1>3, <1>6 DEF MoneyAt
  <2>2. Money' = [Money EXCEPT ![t].at = "buyer"]
    <3>1. MoneyAt(pi'[t].state) = "buyer" /\ pi'[t].captured = pi[t].captured
      BY <1>6 DEF MoneyAt
    <3>2. [Money[t] EXCEPT !.at = "buyer"] = [at |-> "buyer", paid |-> pi[t].captured]
      BY <1>3
    <3> QED
      BY <1>2, <3>1, <3>2
  <2>3. S!Release(t)
    BY <1>1, <2>1, <2>2 DEF S!Release
  <2> QED
    BY <2>3 DEF S!Next
<1>7. CASE pi[t].state = "captured" /\ pi'[t].state = "refunded"
           /\ pi'[t].captured = pi[t].captured
  <2>1. Money[t].at = "seller"
    BY <1>3, <1>7 DEF MoneyAt
  <2>2. Money' = [Money EXCEPT ![t].at = "refunded"]
    <3>1. MoneyAt(pi'[t].state) = "refunded" /\ pi'[t].captured = pi[t].captured
      BY <1>7 DEF MoneyAt
    <3>2. [Money[t] EXCEPT !.at = "refunded"] = [at |-> "refunded", paid |-> pi[t].captured]
      BY <1>3
    <3> QED
      BY <1>2, <3>1, <3>2
  <2>3. S!Refund(t)
    BY <1>1, <2>1, <2>2 DEF S!Refund
  <2> QED
    BY <2>3 DEF S!Next
<1> QED
  BY <1>4, <1>5, <1>6, <1>7 DEF IntentStep

LEMMA Invisible ==
  ASSUME UNCHANGED <<txn, pi>>
  PROVE  UNCHANGED S!vars
BY DEF S!vars, Money, Book

-----------------------------------------------------------------------------
(* The steps of Escrow.                                                    *)

LEMMA StripeMoves ==
  ASSUME IInv, IInv', NEW t \in Txn, UNCHANGED txn, NEW amt \in 1 .. Price,
         Capture(t, amt) \/ Void(t) \/ Refund(t)
  PROVE  S!Next \/ UNCHANGED S!vars
<1>1. /\ IntentStep(pi[t], pi'[t])
      /\ \A u \in Txn \ {t} : pi'[u] = pi[u]
      /\ pi'[t].state = "captured" => pi'[t].captured = amt
      /\ pi'[t].state = "canceled" => pi'[t].captured = pi[t].captured
  BY DEF Capture, Void, Refund, IntentStep, IInv, TypeOK, PaymentIntent
<1> QED
  BY <1>1, IntentStepIsMove

LEMMA CallIsMove ==
  ASSUME IInv, IInv', NEW s \in Session, CallStripe(s)
  PROVE  S!Next \/ UNCHANGED S!vars
<1> DEFINE j == job[s]
<1>1. j # Idle
  BY DEF CallStripe, Idle
<1>2. j \in Job /\ j.txn \in Txn /\ JobOK(j, txn[j.txn], dispute[j.txn], pi[j.txn])
  BY <1>1, HasJob DEF IInv, JobsOK
<1>3. UNCHANGED txn /\ j.pc = "locked"
  BY DEF CallStripe
<1>4. CASE ~ NeedsStripe(j)
  BY <1>3, <1>4, Invisible DEF CallStripe
<1>5. CASE NeedsStripe(j)
  <2>1. CaptureAmount(j) \in 1 .. Price
    <3>1. CASE Outcome(j) # "partial_refund"
      BY <3>1, PriceAssumption DEF CaptureAmount
    <3>2. CASE Outcome(j) = "partial_refund"
      <4>1. j.op \notin {"confirm", "cancel", "refund"} /\ j.res = "partial_refund"
        BY <3>2 DEF Outcome
      <4>2. j.op = "resolve"
        BY <1>2, <1>3, <4>1 DEF JobOK, Job, Op, EventKind
      <4> QED
        BY <1>2, <1>3, <3>2, <4>1, <4>2, PriceAssumption
        DEF CaptureAmount, JobOK, Job, Amount
    <3> QED
      BY <3>1, <3>2
  <2>2. Capture(j.txn, CaptureAmount(j)) \/ Void(j.txn) \/ Refund(j.txn)
    BY <1>5 DEF CallStripe
  <2> QED
    BY <1>2, <1>3, <2>1, <2>2, StripeMoves
<1> QED
  BY <1>4, <1>5

\* A pending transaction was not created by a purchase, so what the cascade
\* writes is no entry of the book.
LEMMA CascadeIsInvisible ==
  ASSUME IInv, CancelPendingOfSeller
  PROVE  UNCHANGED S!vars
<1>1. ASSUME NEW t \in Txn
      PROVE  Entry(txn'[t]) = Entry(txn[t])
  <2>1. txn[t] \in TxnRow /\ RowOK(txn[t], dispute[t], pi[t])
    BY DEF IInv, TypeOK, RowsOK
  <2>2. CASE txn[t].status = "pending"
    <3>1. txn'[t] = [txn[t] EXCEPT !.status = "cancelled"]
      BY <2>2 DEF CancelPendingOfSeller
    <3>2. txn'[t].via = txn[t].via /\ txn[t].via # "purchase"
      BY <2>1, <2>2, <3>1 DEF RowOK, TxnRow
    <3> QED
      BY <3>2 DEF Entry
  <2>3. CASE txn[t].status # "pending"
    BY <2>3 DEF CancelPendingOfSeller
  <2> QED
    BY <2>2, <2>3
<1>2. Book' = Book
  BY <1>1 DEF Book
<1>3. Money' = Money
  BY DEF CancelPendingOfSeller, Money
<1> QED
  BY <1>2, <1>3 DEF S!vars

\* Who writes a row: the transaction of the session, or a new one.
LEMMA WritesOneRow ==
  ASSUME IInv, IInv', NEW s \in Session,
         \/ InsertTransaction(s) \/ Commit(s) \/ OpenDispute(s)
         \/ \E e \in Event : ApplyEvent(s, e)
  PROVE  S!Next
<1>1. job[s] # Idle
  BY DEF InsertTransaction, Commit, OpenDispute, ApplyEvent, Busy, Idle
<1>2. job[s].txn \in Txn
  BY <1>1, HasJob DEF IInv
<1>3. UNCHANGED pi /\ \A u \in Txn \ {job[s].txn} : txn'[u] = txn[u]
  BY DEF InsertTransaction, Commit, OpenDispute, ApplyEvent, SetStatus,
         IInv, TypeOK
<1> QED
  BY <1>2, <1>3, RowWriteIsWrite DEF S!Next

LEMMA CreateIntentIsInvisible ==
  ASSUME IInv, NEW s \in Session, CreatePaymentIntent(s)
  PROVE  UNCHANGED S!vars
<1> DEFINE t == job[s].txn
<1>1. job[s] # Idle
  BY DEF CreatePaymentIntent, Idle
<1>2. t \in Txn /\ JobOK(job[s], txn[t], dispute[t], pi[t])
  BY <1>1, HasJob DEF IInv, JobsOK
<1>3. pi[t].state = "none"
  BY <1>2 DEF CreatePaymentIntent, JobOK
<1>4. pi' = [pi EXCEPT ![t].state = "created"] /\ UNCHANGED txn
  BY DEF CreatePaymentIntent
<1> HIDE DEF t
<1>5. \A u \in Txn : /\ MoneyAt(pi'[u].state) = MoneyAt(pi[u].state)
                     /\ pi'[u].captured = pi[u].captured
  BY <1>2, <1>3, <1>4 DEF IInv, TypeOK, PaymentIntent, MoneyAt
<1>6. Money' = Money /\ Book' = Book
  BY <1>4, <1>5 DEF Money, Book
<1> QED
  BY <1>6 DEF S!vars

LEMMA StepRefines ==
  ASSUME IInv, IInv', [Next]_vars
  PROVE  [S!Next]_(S!vars)
<1>1. CASE Creating
  <2>1. ASSUME NEW t \in Txn, PurchaseFree(t) \/ AdoptFree(t) \/ PurchaseOverMcp(t)
        PROVE  S!Next
    <3>1. UNCHANGED pi /\ \A u \in Txn \ {t} : txn'[u] = txn[u]
      BY <2>1 DEF PurchaseFree, AdoptFree, PurchaseOverMcp, InsertUnpaid,
                  IInv, TypeOK
    <3> QED
      BY <3>1, RowWriteIsWrite DEF S!Next
  <2>2. ASSUME NEW s \in Session, NEW t \in Txn,
               BeginPurchase(s, t) \/ BeginAdopt(s, t)
        PROVE  UNCHANGED S!vars
    BY <2>2, Invisible DEF BeginPurchase, BeginAdopt
  <2> QED
    BY <1>1, <2>1, <2>2, CreateIntentIsInvisible, WritesOneRow DEF Creating
<1>2. CASE Settling
  <2>1. CASE \E s \in Session : CallStripe(s) \/ Commit(s)
    BY <2>1, CallIsMove, WritesOneRow
  <2>2. CASE ~ \E s \in Session : CallStripe(s) \/ Commit(s)
    <3>1. UNCHANGED <<txn, pi>>
      BY <1>2, <2>2
      DEF Settling, LockForConfirm, LockForCancel, LockForRefund, Lock,
          ReadForResolve, ReadForAdjudicate, ReadForDecision, LockForResolve
    <3> QED
      BY <3>1, Invisible
  <2> QED
    BY <2>1, <2>2
<1>3. CASE Disputing
  <2>1. CASE \E s \in Session : OpenDispute(s)
    BY <2>1, WritesOneRow
  <2>2. CASE ~ \E s \in Session : OpenDispute(s)
    <3>1. UNCHANGED <<txn, pi>>
      BY <1>3, <2>2
      DEF Disputing, ReadForDispute, ReadForMessage, ReadForEscalate,
          AddDisputeMessage, EscalateDispute, WriteDispute
    <3> QED
      BY <3>1, Invisible
  <2> QED
    BY <2>1, <2>2
<1>4. CASE Notifying
  <2>1. ASSUME NEW s \in Session, NEW e \in Event, ApplyEvent(s, e)
        PROVE  S!Next
    BY <2>1, WritesOneRow
  <2>2. ASSUME NEW e \in Event,
               IgnoreEvent(e) \/ \E s \in Session : ReceiveEvent(s, e)
        PROVE  UNCHANGED S!vars
    BY <2>2, Invisible DEF IgnoreEvent, ReceiveEvent
  <2> QED
    BY <1>4, <2>1, <2>2 DEF Notifying
<1>5. CASE Stripe
  <2>1. PICK t \in Txn : AuthorizeCard(t) \/ LapseHold(t) \/ ActInDashboard(t)
    BY <1>5 DEF Stripe
  <2>2. CASE AuthorizeCard(t)
    <3>1. /\ IntentStep(pi[t], pi'[t]) /\ pi'[t].state = "held"
          /\ \A u \in Txn \ {t} : pi'[u] = pi[u]
          /\ UNCHANGED txn
      BY <2>2 DEF AuthorizeCard, IntentStep, IInv, TypeOK, PaymentIntent
    <3> QED
      BY <3>1, IntentStepIsMove
  <2>3. CASE LapseHold(t) \/ ActInDashboard(t)
    <3>1. /\ Capture(t, Price) \/ Void(t) \/ Refund(t)
          /\ UNCHANGED txn
          /\ Price \in 1 .. Price
      BY <2>3, PriceAssumption DEF LapseHold, ActInDashboard
    <3> QED
      BY <3>1, StripeMoves
  <2> QED
    BY <2>1, <2>2, <2>3
<1>6. CASE CancelPendingOfSeller
  BY <1>6, CascadeIsInvisible
<1>7. CASE UNCHANGED vars \/ \E s \in Session : Abort(s)
  BY <1>7, Invisible DEF vars, Abort
<1> QED
  BY <1>1, <1>2, <1>3, <1>4, <1>5, <1>6, <1>7 DEF Next

LEMMA InitRefines == Init => S!Init
BY DEF Init, S!Init, Money, Book, MoneyAt, Entry, S!OpenEntry

\* The payment path implements the settlement it promises: for every number of
\* sessions and transactions and every price, the money leaves the hold at most
\* once, and everything a purchase's row says of it is true to the cent.
THEOREM Implements == Spec => Settles
<1>1. IInv /\ IInv' /\ [Next]_vars => [S!Next]_(S!vars)
  BY StepRefines
<1> QED
  BY <1>1, InitRefines, Invariance, PTL DEF Spec, Settles, S!Spec

-----------------------------------------------------------------------------
(* What the webhook can still repair, and what nobody can.                 *)

\* Stripe has told what it has done.
EventsComplete ==
  \A t \in Txn :
    /\ Paid(pi[t]) => [txn |-> t, kind |-> "succeeded"] \in event
    /\ pi[t].state = "canceled" => [txn |-> t, kind |-> "canceled"] \in event

\* What has been answered leaves nothing to do.
AckedMeansSettled ==
  \A e \in acked :
    e.kind \in {"succeeded", "canceled"}
      => txn[e.txn].status \notin {"pending", "escrow"}

\* The safety half of MoneyMovedIsNoticed: while the row lags behind Stripe, an
\* event is unanswered that the webhook will apply to it.
NoticeOutstanding ==
  \A t \in Txn :
    (/\ HasIntent(t)
     /\ txn[t].status \in {"pending", "escrow"}
     /\ pi[t].state \in {"captured", "canceled", "refunded"})
      => \E e \in event \ acked :
           e.txn = t /\ WebhookApplies(e.kind, txn[t].status)

Moved == {"captured", "canceled", "refunded"}
Open == {"pending", "escrow"}

\* Only a new row becomes open, and nothing has been captured or cancelled then.
LEMMA OpenStep ==
  ASSUME IInv, Next, NEW t \in Txn, txn'[t].status \in Open
  PROVE  \/ txn[t].status = txn'[t].status
         \/ txn[t].status = "none" /\ pi[t].state \notin Moved
<1>1. ASSUME NEW s \in Session, InsertTransaction(s), job[s].txn = t
      PROVE  txn[t].status = "none" /\ pi[t].state \notin Moved
  <2>1. job[s] # Idle
    BY <1>1 DEF InsertTransaction, Idle
  <2>2. JobOK(job[s], txn[t], dispute[t], pi[t])
    BY <1>1, <2>1 DEF IInv, JobsOK
  <2> QED
    BY <1>1, <2>2 DEF InsertTransaction, JobOK, Moved
<1>2. CASE Creating
  <2>1. ASSUME NEW s \in Session, InsertTransaction(s), job[s].txn # t
        PROVE  txn'[t] = txn[t]
    BY <2>1 DEF InsertTransaction, IInv, TypeOK
  <2>2. ASSUME NEW u \in Txn, NEW st, NEW via, NEW amt, InsertUnpaid(u, st, via, amt)
        PROVE  \/ txn'[t] = txn[t]
               \/ txn[t].status = "none" /\ pi[t].state \notin Moved
    BY <2>2 DEF InsertUnpaid, Unused, IInv, TypeOK, Moved
  <2>3. ASSUME NEW u \in Txn, PurchaseFree(u) \/ AdoptFree(u) \/ PurchaseOverMcp(u)
        PROVE  \/ txn'[t] = txn[t]
               \/ txn[t].status = "none" /\ pi[t].state \notin Moved
    BY <2>2, <2>3 DEF PurchaseFree, AdoptFree, PurchaseOverMcp
  <2> QED
    BY <1>1, <1>2, <2>1, <2>3
    DEF Creating, BeginPurchase, BeginAdopt, CreatePaymentIntent
<1>3. CASE Settling
  <2>1. ASSUME NEW s \in Session, Commit(s)
        PROVE  txn'[t] = txn[t]
    <3>1. job[s].txn = t => txn'[t].status = StatusAfter(job[s])
      BY <2>1 DEF Commit, IInv, TypeOK, TxnRow
    <3>2. StatusAfter(job[s]) \notin Open
      BY DEF StatusAfter, Open
    <3> QED
      BY <2>1, <3>1, <3>2 DEF Commit, IInv, TypeOK
  <2> QED
    BY <1>3, <2>1 DEF Settling, LockForConfirm, LockForCancel, LockForRefund, Lock,
       ReadForResolve, ReadForAdjudicate, ReadForDecision, LockForResolve, CallStripe
<1>4. CASE Disputing
  <2>1. ASSUME NEW s \in Session, OpenDispute(s)
        PROVE  txn'[t] = txn[t]
    BY <2>1 DEF OpenDispute, SetStatus, Open, IInv, TypeOK, TxnRow
  <2> QED
    BY <1>4, <2>1 DEF Disputing, ReadForDispute, ReadForMessage, ReadForEscalate,
       AddDisputeMessage, EscalateDispute, WriteDispute
<1>5. CASE Notifying
  <2>1. ASSUME NEW s \in Session, NEW e \in Event, ApplyEvent(s, e)
        PROVE  txn'[t] = txn[t]
    <3>1. WebhookStatus[e.kind] \notin Open
      BY DEF WebhookStatus, Open, Event, EventKind
    <3> QED
      BY <2>1, <3>1 DEF ApplyEvent, SetStatus, IInv, TypeOK, TxnRow
  <2> QED
    BY <1>5, <2>1 DEF Notifying, IgnoreEvent, ReceiveEvent
<1>6. CASE CancelPendingOfSeller
  BY <1>6 DEF CancelPendingOfSeller, Open, IInv, TypeOK, TxnRow
<1>7. CASE Stripe \/ \E s \in Session : Abort(s)
  BY <1>7 DEF Stripe, AuthorizeCard, LapseHold, ActInDashboard, Abort
<1> QED
  BY <1>2, <1>3, <1>4, <1>5, <1>6, <1>7 DEF Next

\* What moves at Stripe is told, and does not move back.
Tells(t) ==
  /\ event \subseteq event'
  /\ Paid(pi'[t]) => Paid(pi[t]) \/ [txn |-> t, kind |-> "succeeded"] \in event'
  /\ pi'[t].state = "canceled" =>
       pi[t].state = "canceled" \/ [txn |-> t, kind |-> "canceled"] \in event'
  /\ pi[t].state \in Moved => pi'[t].state \in Moved

LEMMA StripeTells ==
  ASSUME TypeOK, NEW t \in Txn, NEW u \in Txn, NEW amt,
         Capture(u, amt) \/ Void(u) \/ Refund(u)
  PROVE  Tells(t)
BY DEF Tells, Capture, Void, Refund, Emit, Paid, TypeOK, PaymentIntent, Moved

LEMMA IntentTells ==
  ASSUME IInv, Next, NEW t \in Txn
  PROVE  Tells(t)
<1>1. UNCHANGED <<pi, event>> => Tells(t)
  BY DEF Tells
<1>2. ASSUME NEW u \in Txn, NEW amt, Capture(u, amt) \/ Void(u) \/ Refund(u)
      PROVE  Tells(t)
  BY <1>2, StripeTells DEF IInv
<1>3. ASSUME NEW s \in Session, CreatePaymentIntent(s)
      PROVE  Tells(t)
  <2>1. job[s] # Idle
    BY <1>3 DEF CreatePaymentIntent, Idle
  <2>2. job[s].txn \in Txn
    BY <2>1, HasJob DEF IInv
  <2>3. JobOK(job[s], txn[job[s].txn], dispute[job[s].txn], pi[job[s].txn])
    BY <2>1, <2>2 DEF IInv, JobsOK
  <2>4. pi[job[s].txn].state = "none"
    BY <1>3, <2>3 DEF CreatePaymentIntent, JobOK
  <2> QED
    BY <1>3, <2>2, <2>4
    DEF Tells, CreatePaymentIntent, Moved, Paid, IInv, TypeOK, PaymentIntent
<1>4. ASSUME NEW u \in Txn, AuthorizeCard(u)
      PROVE  Tells(t)
  BY <1>4 DEF Tells, AuthorizeCard, Moved, Paid, IInv, TypeOK, PaymentIntent
<1>5. ASSUME NEW s \in Session, CallStripe(s)
      PROVE  Tells(t)
  <2>1. job[s].txn \in Txn
    BY <1>5, HasJob DEF IInv, CallStripe, Idle
  <2> QED
    BY <1>1, <1>2, <1>5, <2>1 DEF CallStripe
<1>6. CASE Creating
  BY <1>1, <1>3, <1>6 DEF Creating, BeginPurchase, BeginAdopt,
     InsertTransaction, PurchaseFree, AdoptFree, PurchaseOverMcp, InsertUnpaid
<1>7. CASE Settling
  BY <1>1, <1>5, <1>7 DEF Settling, LockForConfirm, LockForCancel, LockForRefund, Lock,
     ReadForResolve, ReadForAdjudicate, ReadForDecision, LockForResolve, Commit
<1>8. CASE Disputing
  BY <1>1, <1>8 DEF Disputing, ReadForDispute, ReadForMessage, ReadForEscalate,
     OpenDispute, AddDisputeMessage, EscalateDispute, WriteDispute
<1>9. CASE Notifying
  BY <1>1, <1>9 DEF Notifying, IgnoreEvent, ReceiveEvent, ApplyEvent
<1>10. CASE Stripe
  BY <1>2, <1>4, <1>10 DEF Stripe, LapseHold, ActInDashboard
<1>11. CASE CancelPendingOfSeller \/ \E s \in Session : Abort(s)
  BY <1>1, <1>11 DEF CancelPendingOfSeller, Abort
<1> QED
  BY <1>6, <1>7, <1>8, <1>9, <1>10, <1>11 DEF Next

\* An event is acknowledged when it has been applied or there is nothing to do.
LEMMA AckStep ==
  ASSUME IInv, Next, NEW e \in acked', e \notin acked, e.kind # "refunded"
  PROVE  txn'[e.txn].status \notin Open
<1>1. CASE Notifying
  <2>1. PICK f \in Event : \/ IgnoreEvent(f)
                           \/ \E s \in Session : ReceiveEvent(s, f) \/ ApplyEvent(s, f)
    BY <1>1 DEF Notifying
  <2>2. e = f /\ f \in Event
    BY <2>1 DEF IgnoreEvent, ReceiveEvent, ApplyEvent
  <2>3. CASE IgnoreEvent(f)
    BY <2>2, <2>3 DEF IgnoreEvent, WebhookApplies, Open
  <2>4. ASSUME NEW s \in Session, ApplyEvent(s, f)
        PROVE  txn'[e.txn].status \notin Open
    BY <2>2, <2>4 DEF ApplyEvent, SetStatus, WebhookStatus, Event, EventKind, Open,
       IInv, TypeOK, TxnRow
  <2> QED
    BY <2>1, <2>3, <2>4 DEF ReceiveEvent
<1>2. CASE Creating
  BY <1>2 DEF Creating, BeginPurchase, BeginAdopt, CreatePaymentIntent,
     InsertTransaction, PurchaseFree, AdoptFree, PurchaseOverMcp, InsertUnpaid
<1>3. CASE Settling
  BY <1>3 DEF Settling, LockForConfirm, LockForCancel, LockForRefund, Lock,
     ReadForResolve, ReadForAdjudicate, ReadForDecision, LockForResolve, CallStripe,
     Commit
<1>4. CASE Disputing
  BY <1>4 DEF Disputing, ReadForDispute, ReadForMessage, ReadForEscalate,
     OpenDispute, AddDisputeMessage, EscalateDispute, WriteDispute
<1>5. CASE Stripe
  BY <1>5 DEF Stripe, AuthorizeCard, LapseHold, ActInDashboard
<1>6. CASE CancelPendingOfSeller \/ \E s \in Session : Abort(s)
  BY <1>6 DEF CancelPendingOfSeller, Abort
<1> QED
  BY <1>1, <1>2, <1>3, <1>4, <1>5, <1>6 DEF Next

NoticeInv == EventsComplete /\ AckedMeansSettled

LEMMA NoticeStep ==
  ASSUME IInv, NoticeInv, [Next]_vars
  PROVE  NoticeInv'
<1>1. CASE Next
  <2>1. EventsComplete'
    BY <1>1, IntentTells DEF NoticeInv, EventsComplete, Tells
  <2>2. ASSUME NEW e \in acked', e.kind \in {"succeeded", "canceled"},
               txn'[e.txn].status \in Open
        PROVE  FALSE
    <3>1. e \in acked
      BY <1>1, <2>2, AckStep
    <3>2. e \in event /\ e.txn \in Txn
      BY <3>1 DEF IInv, TypeOK, Event
    <3>3. EventOK(e.kind, txn[e.txn], pi[e.txn])
      BY <3>2 DEF IInv, EventsOK
    <3>4. pi[e.txn].state \in Moved
      BY <2>2, <3>3 DEF EventOK, Paid, Moved
    <3>5. txn[e.txn].status \in Open
      BY <1>1, <2>2, <3>2, <3>4, OpenStep
    <3> QED
      BY <2>2, <3>1, <3>5 DEF NoticeInv, AckedMeansSettled, Open
  <2> QED
    BY <2>1, <2>2 DEF NoticeInv, AckedMeansSettled, Open
<1>2. CASE UNCHANGED vars
  BY <1>2 DEF vars, NoticeInv, EventsComplete, AckedMeansSettled
<1> QED
  BY <1>1, <1>2

\* As long as an intent is captured, cancelled or refunded and its transaction
\* still pending or in escrow, an event that will repair it is on its way: no
\* order of handlers, crashes and deliveries uses it up too early.
THEOREM NoticeIsOnItsWay == Spec => []NoticeOutstanding
<1>1. Init => NoticeInv
  BY DEF Init, NoticeInv, EventsComplete, AckedMeansSettled, Paid
<1>2. IInv /\ NoticeInv => NoticeOutstanding
  <2> SUFFICES ASSUME IInv, NoticeInv, NEW t \in Txn,
                      txn[t].status \in {"pending", "escrow"},
                      pi[t].state \in {"captured", "canceled", "refunded"}
               PROVE  \E e \in event \ acked :
                        e.txn = t /\ WebhookApplies(e.kind, txn[t].status)
    BY DEF NoticeOutstanding
  <2>1. PICK kind \in {"succeeded", "canceled"} : [txn |-> t, kind |-> kind] \in event
    BY DEF NoticeInv, EventsComplete, Paid
  <2>2. [txn |-> t, kind |-> kind] \notin acked
    BY <2>1 DEF NoticeInv, AckedMeansSettled
  <2>3. WebhookApplies(kind, txn[t].status)
    BY DEF WebhookApplies
  <2> QED
    BY <2>1, <2>2, <2>3
<1>3. IInv /\ NoticeInv /\ [Next]_vars => NoticeInv'
  BY NoticeStep
<1> QED
  BY <1>1, <1>2, <1>3, Invariance, PTL DEF Spec

\* The money has moved without a decision, and no session has made it move.
Hopeless(t) ==
  /\ dispute[t].status # "none"
  /\ dispute[t].resolution = "none"
  /\ pi[t].state \in {"captured", "canceled", "refunded"}
  /\ \A s \in Session : ~ (Busy(s, "settled", "resolve") /\ job[s].txn = t)

\* It will not be decided any more.
StaysHopeless == [][\A t \in Txn : Hopeless(t) => Hopeless(t)']_vars

\* Nothing is left to decide at Stripe: release and refund are refused.
LEMMA NoDecisionLeft ==
  ASSUME IInv, NEW s \in Session, CallStripe(s), job[s].op = "resolve",
         dispute[job[s].txn].status # "none"
  PROVE  pi[job[s].txn].state \notin Moved
<1> DEFINE t == job[s].txn
<1>1. job[s] # Idle
  BY DEF CallStripe, Idle
<1>2. t \in Txn
  BY <1>1, HasJob DEF IInv
<1>3. /\ RowOK(txn[t], dispute[t], pi[t])
      /\ JobOK(job[s], txn[t], dispute[t], pi[t])
  BY <1>1, <1>2 DEF IInv, RowsOK, JobsOK
<1>4. NeedsStripe(job[s])
  BY <1>3 DEF RowOK, NeedsStripe, HasIntent
<1>5. Outcome(job[s]) = job[s].res /\ job[s].res \in DisputeResolution
  BY <1>3 DEF Outcome, JobOK
<1>6. Void(t) \/ Capture(t, CaptureAmount(job[s]))
  BY <1>4, <1>5 DEF CallStripe, DisputeResolution
<1> QED
  BY <1>6 DEF Void, Capture, Moved

\* What a step does to a dispute that exists and is not being decided.
LEMMA DisputeStays ==
  ASSUME IInv, Next, NEW t \in Txn, dispute[t].status # "none",
         dispute[t].resolution = "none",
         \A s \in Session : ~ (Busy(s, "settled", "resolve") /\ job[s].txn = t)
  PROVE  dispute'[t].status # "none" /\ dispute'[t].resolution = "none"
<1>1. ASSUME NEW s \in Session, Commit(s)
      PROVE  dispute'[t] = dispute[t]
  BY <1>1 DEF Commit, Busy, IInv, TypeOK
<1>2. ASSUME NEW s \in Session, OpenDispute(s)
      PROVE  dispute'[t].status # "none" /\ dispute'[t].resolution = "none"
  BY <1>2 DEF OpenDispute, IInv, TypeOK, DisputeRow
<1>3. ASSUME NEW s \in Session, AddDisputeMessage(s) \/ EscalateDispute(s)
      PROVE  dispute'[t].status # "none" /\ dispute'[t].resolution = "none"
  BY <1>3 DEF AddDisputeMessage, EscalateDispute, WriteDispute, IInv, TypeOK, DisputeRow
<1>4. CASE Creating
  BY <1>4 DEF Creating, BeginPurchase, BeginAdopt, CreatePaymentIntent,
     InsertTransaction, PurchaseFree, AdoptFree, PurchaseOverMcp, InsertUnpaid
<1>5. CASE Settling
  BY <1>1, <1>5 DEF Settling, LockForConfirm, LockForCancel, LockForRefund, Lock,
     ReadForResolve, ReadForAdjudicate, ReadForDecision, LockForResolve, CallStripe
<1>6. CASE Disputing
  BY <1>2, <1>3, <1>6 DEF Disputing, ReadForDispute, ReadForMessage, ReadForEscalate
<1>7. CASE Notifying
  BY <1>7 DEF Notifying, IgnoreEvent, ReceiveEvent, ApplyEvent
<1>8. CASE Stripe
  BY <1>8 DEF Stripe, AuthorizeCard, LapseHold, ActInDashboard
<1>9. CASE CancelPendingOfSeller \/ \E s \in Session : Abort(s)
  BY <1>9 DEF CancelPendingOfSeller, Abort
<1> QED
  BY <1>4, <1>5, <1>6, <1>7, <1>8, <1>9 DEF Next

\* A session settles a resolution at its Stripe call only.
LEMMA SettlesAtStripe ==
  ASSUME IInv, Next, NEW s \in Session, Busy(s, "settled", "resolve")'
  PROVE  \/ job'[s] = job[s]
         \/ CallStripe(s) /\ job[s].op = "resolve" /\ job'[s].txn = job[s].txn
<1> USE DEF IInv, TypeOK
<1>1. ASSUME NEW u \in Session, NEW j, j.pc # "settled", Start(u, j)
      PROVE  job'[s] = job[s]
  BY <1>1 DEF Start, Busy
<1>2. ASSUME NEW u \in Session, NEW pc, NEW op, NEW t, pc # "settled",
             Start(u, Request(pc, op, t))
      PROVE  job'[s] = job[s]
  BY <1>1, <1>2 DEF Request
<1>3. ASSUME NEW u \in Session, Finish(u)
      PROVE  job'[s] = job[s]
  BY <1>3 DEF Finish, Busy, Idle
<1>4. ASSUME NEW u \in Session, NEW pc, pc # "settled", Advance(u, pc),
             job[u] # Idle
      PROVE  job'[s] = job[s]
  BY <1>4, HasJob DEF Advance, Busy, Job
<1>5. ASSUME job' = job
      PROVE  job'[s] = job[s]
  BY <1>5 DEF Busy
<1>6. CASE Creating
  <2>1. ASSUME NEW u \in Session, CreatePaymentIntent(u)
        PROVE  job'[s] = job[s]
    BY <1>4, <2>1 DEF CreatePaymentIntent, Idle
  <2> QED
    BY <1>2, <1>3, <1>5, <1>6, <2>1 DEF Creating, BeginPurchase, BeginAdopt,
       InsertTransaction, PurchaseFree, AdoptFree, PurchaseOverMcp, InsertUnpaid
<1>7. CASE Settling
  <2>1. ASSUME NEW u \in Session, NEW t \in Txn, NEW op, Lock(u, t, op)
        PROVE  job'[s] = job[s]
    BY <1>2, <2>1 DEF Lock
  <2>2. ASSUME NEW u \in Session, NEW t \in Txn, NEW res, NEW amt,
               ReadForDecision(u, t, res, amt)
        PROVE  job'[s] = job[s]
    BY <1>1, <2>2 DEF ReadForDecision
  <2>3. ASSUME NEW u \in Session, LockForResolve(u)
        PROVE  job'[s] = job[s]
    BY <1>4, <2>3 DEF LockForResolve, Busy, Idle
  <2>4. ASSUME NEW u \in Session, CallStripe(u)
        PROVE  \/ job'[s] = job[s]
               \/ u = s /\ job[s].op = "resolve" /\ job'[s].txn = job[s].txn
    <3>1. job[u] # Idle
      BY <2>4 DEF CallStripe, Idle
    <3> QED
      BY <2>4, <3>1, HasJob DEF CallStripe, Advance, Busy, Job
  <2>5. ASSUME NEW u \in Session, Commit(u)
        PROVE  job'[s] = job[s]
    BY <1>3, <2>5 DEF Commit
  <2> QED
    BY <1>7, <2>1, <2>2, <2>3, <2>4, <2>5 DEF Settling, LockForConfirm,
       LockForCancel, LockForRefund, ReadForResolve, ReadForAdjudicate
<1>8. CASE Disputing
  BY <1>2, <1>3, <1>8 DEF Disputing, ReadForDispute, ReadForMessage, ReadForEscalate,
     OpenDispute, AddDisputeMessage, EscalateDispute, WriteDispute
<1>9. CASE Notifying
  BY <1>2, <1>3, <1>5, <1>9 DEF Notifying, IgnoreEvent, ReceiveEvent, ApplyEvent
<1>10. CASE Stripe \/ CancelPendingOfSeller
  BY <1>5, <1>10 DEF Stripe, AuthorizeCard, LapseHold, ActInDashboard,
     CancelPendingOfSeller
<1>11. CASE \E u \in Session : Abort(u)
  BY <1>3, <1>11 DEF Abort
<1> QED
  BY <1>6, <1>7, <1>8, <1>9, <1>10, <1>11 DEF Next

\* A dispute whose money has moved before it was decided, and that no session
\* has settled, is never decided: Stripe refuses every resolution and every
\* refusal rolls the decision back.
THEOREM StuckForGood == Spec => StaysHopeless
<1>1. ASSUME IInv, Next, NEW t \in Txn, Hopeless(t)
      PROVE  Hopeless(t)'
  <2>1. dispute'[t].status # "none" /\ dispute'[t].resolution = "none"
    BY <1>1, DisputeStays DEF Hopeless
  <2>2. pi'[t].state \in Moved
    BY <1>1, IntentTells DEF Hopeless, Moved, Tells
  <2>3. ASSUME NEW s \in Session, Busy(s, "settled", "resolve")', job'[s].txn = t
        PROVE  FALSE
    <3>1. CASE job'[s] = job[s]
      BY <1>1, <2>3, <3>1 DEF Hopeless, Busy
    <3>2. CASE CallStripe(s) /\ job[s].op = "resolve" /\ job[s].txn = t
      BY <1>1, <3>2, NoDecisionLeft DEF Hopeless, Moved
    <3> QED
      BY <1>1, <2>3, <3>1, <3>2, SettlesAtStripe
  <2> QED
    BY <2>1, <2>2, <2>3 DEF Hopeless, Moved
<1>2. IInv /\ [Next]_vars => [\A t \in Txn : Hopeless(t) => Hopeless(t)']_vars
  BY <1>1
<1> QED
  BY <1>2, Invariance, PTL DEF Spec, StaysHopeless

=============================================================================
