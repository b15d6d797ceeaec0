--------------------------- MODULE WebhookDelivery ---------------------------
(***************************************************************************)
(* Delivery of events to webhook subscriptions.  Two parts of the program  *)
(* deliver: the worker process (src/jobs/webhook_worker.py), which takes   *)
(* events from Redis pub/sub one at a time and retries, and every request  *)
(* that calls dispatch_webhooks (src/events.py), which tries once.  Both   *)
(* count failures in the subscription's row and switch it off at a         *)
(* threshold, while its owner changes the same row                         *)
(* (src/api/webhook_router.py) and moderation switches it off and on.      *)
(*                                                                         *)
(* Nobody locks the row.  A session loads it (old), changes its copy (new) *)
(* and at its commit writes the attributes in which the two differ, as     *)
(* absolute values: that is what the ORM's UPDATE does.  The flush and the *)
(* commit are one step: between them the other writers only wait.          *)
(***************************************************************************)
EXTENDS Integers, Sequences, FiniteSets

CONSTANTS
  Sub,           \* webhook subscriptions, of one owner
  Request,       \* requests in progress
  EventType,
  THRESHOLD,     \* AUTO_DEACTIVATE_THRESHOLD, and the 10 of dispatch_webhooks
  MAX_RETRIES,
  MAX_ACTIVE,    \* "Maximum of 10 active webhooks per entity"
  MAX_PUBLISHED, \* bound: events published
  MAX_FAILED     \* bound: failed deliveries after which requests dispatch no more

ASSUME NumbersAssumption ==
  /\ THRESHOLD \in Nat /\ MAX_RETRIES \in Nat /\ MAX_RETRIES > 0
  /\ MAX_ACTIVE \in Nat /\ MAX_PUBLISHED \in Nat /\ MAX_FAILED \in Nat

\* The worker is one more session beside those of the requests.
CONSTANT Worker
ASSUME WorkerAssumption == Worker \notin Request

Session == Request \cup {Worker}

VARIABLES
  exists,      \* is each subscription's row not yet, now or no more there?
  row,         \* its committed attributes
  session,     \* what each session has loaded and changed
  subscribed,  \* does the worker hold a subscription of the Redis channel?
  channel,     \* the events received on it and not yet read
  published,   \* how many events have been published
  failed       \* history: deliveries of each subscription that failed

vars == <<exists, row, session, subscribed, channel, published, failed>>

Row == [active : BOOLEAN, failures : Nat, types : SUBSET EventType]

Blank == [active |-> FALSE, failures |-> 0, types |-> {}]

Kind == {"none", "event", "dispatch", "create", "activate", "deactivate",
         "update", "delete"}

Delivery == {"event", "dispatch"}

\* todo: the subscriptions still to be delivered to; attempt: the attempts the
\* one in delivery has failed.
SessionState ==
  [kind : Kind, subs : SUBSET Sub, todo : SUBSET Sub, attempt : Nat,
   current : SUBSET Sub, old : [Sub -> Row], new : [Sub -> Row]]

TypeOK ==
  /\ exists \in [Sub -> {"not_yet", "there", "deleted"}]
  /\ row \in [Sub -> Row]
  /\ session \in [Session -> SessionState]
  /\ subscribed \in BOOLEAN
  /\ channel \in Seq(EventType)
  /\ published \in Nat
  /\ failed \in [Sub -> Nat]

Closed ==
  [kind |-> "none", subs |-> {}, todo |-> {}, attempt |-> 0, current |-> {},
   old |-> [s \in Sub |-> Blank], new |-> [s \in Sub |-> Blank]]

Init ==
  /\ exists = [s \in Sub |-> "not_yet"]
  /\ row = [s \in Sub |-> Blank]
  /\ session = [p \in Session |-> Closed]
  /\ subscribed = FALSE
  /\ channel = <<>>
  /\ published = 0
  /\ failed = [s \in Sub |-> 0]

-----------------------------------------------------------------------------
(* Sessions.                                                               *)

Idle(p) == session[p].kind = "none"

\* Session p loads the rows S and changes its copy of s to change[s].
Open(p, kind, S, todo, change) ==
  session' = [session EXCEPT ![p] =
    [kind |-> kind, subs |-> S, todo |-> todo, attempt |-> 0, current |-> {},
     old |-> [s \in Sub |-> IF s \in S THEN row[s] ELSE Blank],
     new |-> [s \in Sub |-> IF s \in S THEN change[s] ELSE Blank]]]

Dirty(p) == {s \in session[p].subs : session[p].new[s] # session[p].old[s]}

\* The rows the commit cannot do without: an UPDATE that meets no row is an
\* error, and so is the log of a delivery to a subscription that is gone.  A
\* DELETE that meets no row is a warning.
Needed(p) ==
  CASE session[p].kind = "event" -> session[p].subs
    [] session[p].kind \in {"create", "delete"} -> {}
    [] OTHER -> Dirty(p)

Written(now, old, new) == IF new # old THEN new ELSE now

Merge_WholeRow(now, old, new) == new

Merge(now, old, new) ==
  [active   |-> Written(now.active, old.active, new.active),
   failures |-> Written(now.failures, old.failures, new.failures),
   types    |-> Written(now.types, old.types, new.types)]

Close(p) == session' = [session EXCEPT ![p] = Closed]

Exists(s) == exists[s] = "there"

Commit(p) ==
  /\ ~ Idle(p)
  /\ session[p].todo = {}
  /\ \A s \in Needed(p) : Exists(s)
  /\ row' = [s \in Sub |->
               CASE s \notin session[p].subs -> row[s]
                 [] s \in session[p].subs /\ session[p].kind = "delete" -> Blank
                 [] OTHER -> Merge(row[s], session[p].old[s], session[p].new[s])]
  /\ exists' = [s \in Sub |->
                  CASE s \in session[p].subs /\ session[p].kind = "create" -> "there"
                    [] s \in session[p].subs /\ session[p].kind = "delete" -> "deleted"
                    [] OTHER -> exists[s]]
  /\ Close(p)
  /\ UNCHANGED <<subscribed, channel, published, failed>>

\* A needed row is gone: the whole session rolls back.
CommitRefused(p) ==
  /\ ~ Idle(p)
  /\ session[p].todo = {}
  /\ \E s \in Needed(p) : ~ Exists(s)
  /\ Close(p)
  /\ UNCHANGED <<exists, row, subscribed, channel, published, failed>>

\* The request goes on to fail, or the database does.
Rollback(p) ==
  /\ ~ Idle(p)
  /\ Close(p)
  /\ UNCHANGED <<exists, row, subscribed, channel, published, failed>>

-----------------------------------------------------------------------------
(* Events and the worker.                                                  *)

\* Without a subscription of the worker Redis drops the message.
Publish(e) ==
  /\ published < MAX_PUBLISHED
  /\ published' = published + 1
  /\ channel' = IF subscribed THEN Append(channel, e) ELSE channel
  /\ UNCHANGED <<exists, row, session, subscribed, failed>>

Subscribe ==
  /\ ~ subscribed
  /\ Idle(Worker)
  /\ subscribed' = TRUE
  /\ channel' = <<>>
  /\ UNCHANGED <<exists, row, session, published, failed>>

\* The connection drops, or Redis cuts a reader off that is too far behind:
\* what it had buffered is gone.  A worker in the middle of an event notices
\* when it is back at listen().
LoseConnection ==
  /\ subscribed
  /\ subscribed' = FALSE
  /\ channel' = <<>>
  /\ UNCHANGED <<exists, row, session, published, failed>>

Matching(e) == {s \in Sub : Exists(s) /\ row[s].active /\ e \in row[s].types}

TakeEvent ==
  /\ subscribed
  /\ Idle(Worker)
  /\ channel # <<>>
  /\ channel' = Tail(channel)
  /\ LET S == Matching(Head(channel)) IN Open(Worker, "event", S, S, row)
  /\ UNCHANGED <<exists, row, subscribed, published, failed>>

\* The process is killed; it is started again by hand.
WorkerDies ==
  /\ Close(Worker)
  /\ subscribed' = FALSE
  /\ channel' = <<>>
  /\ UNCHANGED <<exists, row, published, failed>>

Dispatch(p, e) ==
  /\ Idle(p)
  /\ \A s \in Sub : failed[s] < MAX_FAILED
  /\ Matching(e) # {}
  /\ Open(p, "dispatch", Matching(e), Matching(e), row)
  /\ UNCHANGED <<exists, row, subscribed, channel, published, failed>>

\* for sub in subs: one at a time, and to the end of its attempts.
InTurn(p, s) ==
  /\ session[p].kind \in Delivery
  /\ s \in session[p].todo
  /\ session[p].current \subseteq {s}

AfterSuccess_Decrement(copy) == [copy EXCEPT !.failures = @ - 1]

AfterSuccess(copy) == [copy EXCEPT !.failures = 0]

DeliverySucceeds(p, s) ==
  /\ InTurn(p, s)
  /\ session' = [session EXCEPT ![p].todo = @ \ {s}, ![p].current = {},
                                ![p].attempt = 0,
                                ![p].new[s] = AfterSuccess(@)]
  /\ UNCHANGED <<exists, row, subscribed, channel, published, failed>>

Attempts(p) == IF session[p].kind = "event" THEN MAX_RETRIES ELSE 1

\* Tries for as long as the subscriber fails, counting attempts modulo 2.
AttemptFails_NoLimit(p, s) ==
  /\ InTurn(p, s)
  /\ session' = [session EXCEPT ![p].current = {s}, ![p].attempt = 1 - @]
  /\ UNCHANGED <<exists, row, subscribed, channel, published, failed>>

AttemptFails(p, s) ==
  /\ InTurn(p, s)
  /\ session[p].attempt + 1 < Attempts(p)
  /\ session' = [session EXCEPT ![p].current = {s},
                                ![p].attempt = @ + 1]
  /\ UNCHANGED <<exists, row, subscribed, channel, published, failed>>

Counted_Attempts(n) == n + MAX_RETRIES

Counted(n) == n + 1

TooMany_OffByOne(n) == n >= THRESHOLD - 1

TooMany(n) == n >= THRESHOLD

AfterFailure(copy) ==
  [copy EXCEPT !.failures = Counted(copy.failures),
               !.active = copy.active /\ ~ TooMany(Counted(copy.failures))]

DeliveryFails(p, s) ==
  /\ InTurn(p, s)
  /\ session[p].attempt + 1 >= Attempts(p)
  /\ session' = [session EXCEPT ![p].todo = @ \ {s}, ![p].current = {},
                                ![p].attempt = 0,
                                ![p].new[s] = AfterFailure(@)]
  /\ failed' = [failed EXCEPT ![s] = @ + 1]
  /\ UNCHANGED <<exists, row, subscribed, channel, published>>

-----------------------------------------------------------------------------
(* The owner's requests and moderation.                                    *)

\* The cap is looked up before the INSERT, and by this handler only.
CreateWebhook(p, s, types) ==
  /\ Idle(p)
  /\ exists[s] = "not_yet"
  /\ \A q \in Session : s \notin session[q].subs
  /\ types # {}
  /\ Cardinality({t \in Sub : Exists(t) /\ row[t].active}) < MAX_ACTIVE
  /\ Open(p, "create", {s}, {},
          [row EXCEPT ![s] = [active |-> TRUE, failures |-> 0, types |-> types]])
  /\ UNCHANGED <<exists, row, subscribed, channel, published, failed>>

UpdateWebhook(p, s, types) ==
  /\ Idle(p)
  /\ Exists(s)
  /\ types # {}
  /\ Open(p, "update", {s}, {}, [row EXCEPT ![s].types = types])
  /\ UNCHANGED <<exists, row, subscribed, channel, published, failed>>

DeleteWebhook(p, s) ==
  /\ Idle(p)
  /\ Exists(s)
  /\ Open(p, "delete", {s}, {}, row)
  /\ UNCHANGED <<exists, row, subscribed, channel, published, failed>>

ActivateWebhook(p, s) ==
  /\ Idle(p)
  /\ Exists(s)
  /\ Open(p, "activate", {s}, {},
          [row EXCEPT ![s].active = TRUE, ![s].failures = 0])
  /\ UNCHANGED <<exists, row, subscribed, channel, published, failed>>

DeactivateWebhook(p, s) ==
  /\ Idle(p)
  /\ Exists(s)
  /\ Open(p, "deactivate", {s}, {}, [row EXCEPT ![s].active = FALSE])
  /\ UNCHANGED <<exists, row, subscribed, channel, published, failed>>

\* UPDATE ... SET is_active for all rows of the owner: the cascade when its
\* account is deactivated, and its reversal when an appeal is granted.
SwitchAll(on) ==
  /\ row' = [s \in Sub |-> IF Exists(s) THEN [row[s] EXCEPT !.active = on] ELSE row[s]]
  /\ UNCHANGED <<exists, session, subscribed, channel, published, failed>>

CascadeDeactivate == SwitchAll(FALSE)

AppealOverturned == SwitchAll(TRUE)

-----------------------------------------------------------------------------

WorkerStep ==
  \/ Subscribe \/ TakeEvent
  \/ Commit(Worker) \/ CommitRefused(Worker)
  \/ \E s \in Sub : \/ DeliverySucceeds(Worker, s) \/ AttemptFails(Worker, s)
                    \/ DeliveryFails(Worker, s)

RequestStep(p) ==
  \/ Commit(p) \/ CommitRefused(p)
  \/ \E e \in EventType : Dispatch(p, e)
  \/ \E s \in Sub :
       \/ DeliverySucceeds(p, s) \/ DeliveryFails(p, s)
       \/ DeleteWebhook(p, s) \/ ActivateWebhook(p, s) \/ DeactivateWebhook(p, s)
       \/ \E types \in SUBSET EventType :
            CreateWebhook(p, s, types) \/ UpdateWebhook(p, s, types)

Next ==
  \/ WorkerStep
  \/ \E p \in Request : RequestStep(p)
  \/ \E p \in Session : Rollback(p)
  \/ \E e \in EventType : Publish(e)
  \/ LoseConnection \/ WorkerDies
  \/ CascadeDeactivate \/ AppealOverturned

Spec == Init /\ [][Next]_vars

\* The worker's loop is never left: each HTTP attempt ends by its timeout, each
\* back-off ends, a lost connection is made again after five seconds.
FairSpec == Spec /\ WF_vars(WorkerStep)

-----------------------------------------------------------------------------

\* However stale the copies that sessions write back, a counter never says more
\* failures than deliveries of its subscription have really failed.
CounterBacked == \A s \in Sub : row[s].failures <= failed[s]

CommitOf(p) == session[p].kind # "none" /\ session'[p].kind = "none"

\* A delivery switches a subscription off only if at least THRESHOLD deliveries
\* to it have failed (webhook_worker.py:50), in whichever sessions.
DropNeedsFailures ==
  [][\A s \in Sub, p \in Session :
       (session[p].kind \in Delivery /\ CommitOf(p) /\ row[s].active /\ ~ row'[s].active)
         => failed[s] >= THRESHOLD]_vars

\* What its owner or moderation has switched off is not switched on again by a
\* delivery that had loaded it before, nor by an update of its URL or types:
\* only activate_webhook and a granted appeal do that.
OffStaysOff ==
  [][\A s \in Sub, p \in Session :
       (CommitOf(p) /\ Exists(s) /\ ~ row[s].active /\ row'[s].active)
         => session[p].kind = "activate"]_vars

\* The worker gets through what it has received: no event stays unread, and
\* none is in delivery for ever.
EventsAreWorkedOff == (channel # <<>> \/ ~ Idle(Worker)) ~> (channel = <<>> /\ Idle(Worker))

=============================================================================
