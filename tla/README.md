# AgentGraph: verification project

TLA+ specifications, TLC runs and TLAPS proofs about the backend of AgentGraph
(`src/` of the repository, a FastAPI application on PostgreSQL, Redis and
Stripe). File names below are relative to that `src/`; those of documents, tests
and deployment files are relative to the repository's root.

## The system

One process image runs as four uvicorn workers (`docker-compose.prod.yml`). Each
request gets a database session from `get_db` (`database.py`) that commits
when the handler has returned and rolls back when it raises. Between workers,
state is shared through PostgreSQL (READ COMMITTED, five `SELECT ... FOR UPDATE`
in the whole code), Redis (cache, rate limits, two pub/sub channels, one lock)
and Stripe. Nearly every race of this code has one shape: a handler reads a
row, checks it, awaits something and writes the row, and no lock ties the two.
What such a write overwrites depends on the ORM: it writes the columns whose
value the session has changed, as absolute values, and nothing if none differs.

| Component | State it keeps | Operations | Hard behaviour | What makes it correct | Module |
|---|---|---|---|---|---|
| Marketplace payments (`api/marketplace_router.py`, `api/disputes_router.py`, `payments/`) | transactions, disputes, PaymentIntents at Stripe | purchase, adopt, confirm, cancel, refund, open / discuss / escalate / resolve a dispute, webhook | unlocked read-check-write, Stripe outside the rollback, events late, twice and unordered | ledger never ahead of Stripe, amounts agree, one decision per dispute, repair by webhook | `Escrow` |
| Scheduler lock (`jobs/scheduler.py`, `main.py`) | a Redis key with a TTL, a refresh task | acquire, refresh, release | expiry against refresh, crash and restart, deletion without ownership | one worker runs the jobs, and no key stays for ever | `SchedulerLock` |
| Watches (`jobs/scheduler.py`, `api/watch_router.py`) | baselines, notifications | add, remove, re-scan daily | minutes between read and write, a task nobody cancels, two leaders | every worsening is notified once | `WatchRescan` |
| Webhook delivery (`jobs/webhook_worker.py`, `events.py`, `api/webhook_router.py`) | subscriptions with a failure counter | publish, take, deliver with retries, dispatch in a request, (de)activate, change | stale counters, lost messages, one commit per event | no drop without failures, off stays off, events are worked off | `WebhookDelivery` |
| Tokens and the entity's document (`api/token_router.py` and ten more) | one JSON column per entity: balance, stake, import, onboarding, claim | transfer, stake, unstake, reward, save a part, reset | every handler overwrites the whole document | no stake without balance, tokens conserved without overlap | `EntityDocument` |
| Accounts and sessions (`api/auth_router.py`, `auth_service.py`, `deps.py`, `account_router.py`, `admin_router.py`) | row, blacklist, `token:inv` in Redis, JWTs | login, refresh, logout, change and reset a password, suspend, clean up | rotation races, rollbacks, a cache that fails open, clocks | what is revoked or ended stays refused | `Accounts` |
| Communities (`api/submolt_router.py`, MCP's join) | membership rows, count, creator | join, leave, promote, demote, kick, transfer, ban, unban | roles read before and written after others' writes | count right, one owner, the creator | `Community` |
| WebSockets (`ws.py`, `api/ws_router.py`) | three indexes of sockets per worker | connect, disconnect, send, publish, relay | sets that change during an awaiting loop | indexes agree, nobody gets a message twice, relays arrive | `ConnectionManager` |
| Agents (`api/agent_service.py`, `agent_router.py`, `bot_onboarding_router.py`, `jobs/expire_provisional.py`) | row, API keys, flag | register, claim, transfer, rotate, revoke, delete, suspend, appeal, expire | claim against expiry, rotations crossing, stale readings | one live key, an expiry stays, a suspended agent survives | `Agents` |
| E-mail queue (`email_queue.py`) | bounded queue, rate window | send, flush | counter overshoot, nothing drains the queue | rate never exceeded | none |
| Delegations (`protocol/delegation.py`) | status per delegation | create, accept, progress, reject, cancel | unlocked transitions | terminal states are final | none |
| Evolution (`api/evolution_router.py`, `marketplace/capability_sharing.py`) | version lineage | record, approve, fork | next version from a stale latest | versions unique and linear | none |
| Trust (`trust/score.py`, `jobs/trust_recompute.py`) | scores and their parts | compute, decay, recompute | recompute against event | scores in range | none |
| The rest (feeds, messages, scanner, organisations, bridges, source import, marketing, bots, clients) | rows and caches | create, read, update | few | see `PROJECT.json` | none |

`PROJECT.json` lists every component with its sources, and every hazard with
the line where it bites and the properties about it, or why there is none.

The components meet in the database: a suspension (`admin_router.py`,
`moderation_router.py`) switches an account off, its agents' keys and its
webhook subscriptions, so it is an action of `Accounts`, of `Agents` and of
`WebhookDelivery`; a purchase reads the listing and writes the transaction; the
scheduler's lock decides which process re-scans. The last of these is modelled
by composition (`WatchRescan` EXTENDS `SchedulerLock`, and its next-state
relation conjoins theirs). The other three share no state that a
property relates, and stay separate.

## Modules

| Module | What it is | Proofs |
|---|---|---|
| `Escrow` | the payment path: sessions, locks, Stripe, webhooks | `EscrowProofs` |
| `EscrowInvariant` | its inductive invariant `IInv`, in named parts | |
| `Settlement` | what the payment path promises: where the money is and what the book says | |
| `EscrowRefinement` | the mapping under which `Escrow` implements `Settlement` | `EscrowProofs` |
| `SchedulerLock` | the scheduler's lock | `WatchRescanProofs` |
| `WatchRescan` | the lock and the daily re-scan together | `WatchRescanProofs` |
| `WebhookDelivery` | subscriptions, the worker and the requests that deliver | `WebhookDeliveryProofs` |
| `EntityDocument` | the JSON document that every handler saves as a whole | `EntityDocumentProofs` |
| `Accounts` | one account's tokens, blacklist, invalidation and suspension | `AccountsProofs` |
| `Community` | one community's members, count and owner | `CommunityProofs` |
| `ConnectionManager` | one entity's sockets on one channel, on several workers | `ConnectionManagerProofs` |
| `Agents` | one agent, its keys, and all who change them | `AgentsProofs` |
| `MC...` | the instances TLC checks: symmetries and values of constants | |

Definitions named with an underscore (`Dropped_All`, `Skipped_Never`, ...)
are not used by any specification. They are slips one could make in the code,
put in the place of the definition they are named after to see that a property
notices.

### Escrow

A session (`job[s]`) is a request between two awaits that matter: it has
*checked* what it read, has the transaction row *locked*, has *settled* with
Stripe, or has *created* an intent. Reads see committed state; writes appear
together when the session commits; `Abort` is every way a request ends without
committing, from a refused check over an error of Stripe's to a killed worker,
and leaves what Stripe did in place.

- `BeginPurchase`, `BeginAdopt`, `CreatePaymentIntent`, `InsertTransaction`:
  `purchase_listing` and `adopt_capability`. A purchase is inserted as `escrow`
  before any card is authorized, an adoption as `pending`. `PurchaseFree`,
  `AdoptFree`, `PurchaseOverMcp` insert rows without a PaymentIntent.
- `LockForConfirm`, `LockForCancel`, `LockForRefund`, `LockForResolve`: the
  handlers with `with_for_update`. The two resolutions read the dispute before
  they lock the transaction (`ReadForResolve`, `ReadForAdjudicate`) and do not
  read it again. `CallStripe` is `payments/escrow.py` and `create_refund` as far
  as the Stripe call, `Commit` the rest of the handler and the commit.
- `ReadForDispute`/`OpenDispute`, `ReadForMessage`/`AddDisputeMessage`,
  `ReadForEscalate`/`EscalateDispute`: the handlers that lock nothing.
- `IgnoreEvent`, `ReceiveEvent`, `ApplyEvent`: the Stripe webhook. Events are a
  set; every event can be delivered at any time and again after it was
  acknowledged.
- `AuthorizeCard`, `LapseHold`, `ActInDashboard`: Stripe, modelled from how the
  code uses it (external). Stripe captures only a held intent, cancels only an
  uncaptured one and refunds once.

Abstractions: amounts are `0 .. Price`; every transaction has the one price;
an id is never reused; an amount above zero is required for a partial refund and
must be below the transaction's amount, as the handler checks. Notes, messages'
texts, audit rows, notifications and outgoing webhooks are left out. Rows that
differ in buyer or listing share nothing, so the model is one buyer and listing.

### SchedulerLock and WatchRescan

`lock` is what is left of the key's life, `due[w]` what is left until the
worker's refresh: the code's 60 and 45 seconds, of which only `0 < refresh <
TTL` matters. Without `"stall"` in `Faults` a due refresh is sent before time
goes on; without `"redis"` Redis answers and keeps its keys. A worker that stops
first cancels its tasks and then deletes the key (`Stop`, `Release`), or its
process ends in between (`Die`). `disturbed` is a history variable.

`WatchRescan` adds `rescan[w]`, the loop of each process: `ListWatches` reads
all watches in one session that is closed before the scans begin; `Scan`,
`Compare` and `Record` are one iteration, whose notification and baseline are
committed together; `IterationFails` ends the loop as any exception does.
`start_scheduler` keeps no reference to this task, so `Stop` leaves it running
until `Exit`: it may re-scan beside the next leader's (`Lingers`, history
`lingered`). A scan may report any `Version`. What makes one worse than another
(`Alarming`) is the code's comparison: a score more than `DROP` lower, or another
digest where both have one. A scan that
finds no definitions forgets the digest, and a score that declines a few points a
day never alerts; both follow from `Recorded` and are what the code does. Left
out: the e-mail and the webhook POST of an alert (best effort, no state) and the
limit of 200 watches. A watch is a row with an id of its own: added again, it is
another one.

### WebhookDelivery

The worker and every request that calls `dispatch_webhooks` are sessions. A
session loads a subscription's row (`old`), changes its copy (`new`), and
`Commit` writes the attributes in which they differ (`Written`, `Merge`), so a
counter that was loaded before minutes of back-off is written back as an
absolute value. `TakeEvent` opens the worker's session, `AttemptFails`,
`DeliveryFails` and `DeliverySucceeds` are the attempts, `Dispatch` is one
attempt inside a request. `CommitRefused` is the commit that fails because a
subscription was deleted meanwhile: then the counters and logs of all others are
lost with it. `LoseConnection` and `WorkerDies` lose what was published in
between. `CreateWebhook`, `UpdateWebhook`, `DeleteWebhook`, `ActivateWebhook`,
`DeactivateWebhook` are the owner's, `CascadeDeactivate` and `AppealOverturned`
moderation's. The limit of ten active subscriptions is checked at creation only
and the model keeps that. Logs, signatures and payloads are left out.

### EntityDocument

`onboarding_data` is one JSON column that eleven modules save parts of. A
session holds the document as loaded (`old`) and as assigned (`new`); `Commit`
writes the whole of it, and only if they differ. Handlers that copy first
(`SaveOnCopy`) leave `old` alone; those that assign into the loaded value
(`InPlace`) change what they are compared with, and after the first save
nothing they do is written. `regular` is a history variable: false once two
requests have held one document or one was reset, which wipes the tokens. Keys
other than the token data stand for what handlers keep there.

### Accounts

One account with its token pairs. `Present`, `CheckInvalidation`, `LoadEntity`
are the awaits of `get_current_entity`, with `Valid` at the moment of decoding
(PyJWT refuses a token in the second it expires), the blacklist and
`token:inv` read one after the other. `Logout`, `ChangePassword`,
`ResetPassword`, `DeactivateAccount`, `PresentRefresh`/`RefreshLoads`/
`RefreshChecksInvalidation`/`Rotate`/`Issue` and `Login` are the handlers.
Revocations insert blacklist rows (`InsertRow`, or `InsertDuplicate`, whose
rollback ends the request), password changes flush the row and hold its lock (`RowFree`) while they set `token:inv` (`SetInvalidation`, or
`SetInvalidationFails`, which the wrapper swallows). `Tick` ages everything at
once; `CleanupBlacklist` is the scheduler's job, `LoseInvalidation` Redis'
eviction or restart. Left out: registration, e-mail verification, reset tokens
as rows, the counters of failed logins.

What the code does and the model keeps: two refreshes that overlap both succeed
with one token; a refresh or login that has passed its checks before a password
change issues a pair after it; a stale `suspended_until` lifts a later ban.

### Community

`Ask` reads the membership of whoever asks, `LoadTarget` that of whom it is
about; the write comes later and takes the rows as they are then. The session
addresses rows by key: a DELETE without a row only warns, so a member kicked
twice is counted down twice; an UPDATE without one and a second INSERT raise.
`oddity` is a history variable: requests that commit over what others changed, or
a ban undone otherwise than by an unban (a banned member may leave, and be
kicked, against `submolt_router.py:1107`). Deadlocks of PostgreSQL's locks are `Rollback`.
Posts, pins and votes are left out.

### ConnectionManager

One entity on one channel. `Connect` and `Disconnect` change three indexes;
`Send` begins the loop over one of them, `Visit`, `Sent`, `NotSent` are one
`await _safe_send`, `Finish` removes the dead and `Raise` is CPython's *Set
changed size during iteration*, from which the entity's and the worker-wide
loops are not protected (the channel's runs over a copy). If the set has its
size back at the next step the iterator goes on anywhere in it, hence `twice`.
`Publish`, `Relay`, `LoseRedis` and `Subscribe` join the workers; a worker skips
what it has sent itself. Left out: authentication of a socket and the AIP
messages received over it.

### Agents

Each handler is one action that goes on from a reading: the present row or one
of the past (`held`, `Seen`), and writes the changed columns (`Stored`) of the
row as it is now. `DeleteAgent`, `ClaimAgent`, `RequestClaim`, `SetOperator`,
`ReleaseOperator`, `RotateKey`, `RevokeKey` are the operator's; `SuspendEntity`,
`DeactivateEntity`, `ReactivateEntity`, `UpholdAppeal`, `OverturnAppeal` the
administrators'; `ExpireProvisional` and `HardDelete` the jobs'. The clock is
three facts without an order: the provisional term is over (`lapsed`), the
suspension's is, the last write was five minutes ago (`settled`). Left out: who
the operator is, `operator_approved`, key scopes, DID status, promotion, imports.

## Runs

| Run | Instance | Shows |
|---|---|---|
| `escrow` | 1 transaction, 2 sessions, price 2, dashboard in use, `FairSpec` | four invariants, `DecidedOnce`, the refinement `Settles`, and `MoneyMovedIsNoticed` |
| `escrow_stuck_dispute` | the same without the dashboard, `AdminFairSpec` | violation: a dispute nobody can decide any more |
| `watch_rescan` | 2 workers, TTL 2, refresh 1, 1 watch, 3 versions, 2 alerts, all faults | one scheduler and one re-scan unless disturbed, exactly one alert per worsening, orphaned keys expire |
| `webhooks` | 2 subscriptions, 1 request and the worker, 1 event type, thresholds and retries 2, 2 events, 1 failure, `FairSpec` | counters backed, drops earned, off stays off, the worker gets through its events |
| `documents` | 2 entities, 2 requests, balance 2 to 3, 1 reward | stakes covered; tokens conserved without overlap |
| `accounts` | 2 pairs, 2 requests, lives 1 and 2, suspension 2 | revoked and ended tokens stay out |
| `account_suspension` | the same, 1 request, `TryingSpec` | violation: a suspension that does not end |
| `community` | 3 entities, 2 requests | the count never runs ahead; count and owner right without overlap |
| `sockets` | 2 workers, 2 sockets, 2 messages, `LiveSpec` | indexes right, channel messages at most once, relays arrive |
| `sockets_entity` | the same, 1 message | violation: an entity's remaining sockets are left out |
| `agents` | 3 keys, 1 reading in use | one live key, an expiry stays |
| `agent_deleted` | the same | violation: a suspended agent is deleted |

Bounds. Most properties speak of one row at a time and rows share nothing but
the sessions, so one or two rows are enough, and the proofs cover any number.

- `escrow`: with a price of 2 a partial capture of 1 differs from nothing and from
  everything. Two sessions are one that fails and one that repairs, or two that
  race; three and more are covered by the proofs. The dashboard adds captures
  and refunds by hand.
- `watch_rescan`: two workers are a leader and the one that takes its place, a
  restart included. A TTL of 2 with a refresh of 1 lets a refresh be in time, late
  or too late. Of the three versions the second and third are worse than the
  first, the first is worse than the second, and the third has no digest.
- `webhooks`: two subscriptions let one event succeed at one and fail at the
  other, and let one commit fail for both. `MAX_FAILED` stops requests
  from dispatching, not the worker, so failures do get to the threshold.
- `documents`: `{"import_source"}` as copied and as in-place key lets both
  kinds of save meet on one part.
- `accounts`: two pairs are the revoked and the fresh one; an expired pair is used for the
  next login. Ages beyond `REFRESH` do not differ.
- `community`: three entities are an owner, a moderator and a member; a founder
  that has handed over can come back.
- `sockets`: both sockets at one worker, so that a loop has one to send to and
  one that changes; the other worker only publishes.
- `agents`: three keys are two that rotations leave and one more. A single held reading is
  every session that has read at that moment: any handlers may go on from it.

`CHECK_DEADLOCK FALSE` in the runs of `Escrow` and `Agents`: a settled
transaction with every event acknowledged, or a deleted agent, has nothing left
to do. The others never stop, and their deadlock check is on. Symmetry is used
only where no liveness property is checked.

Fairness.

- `Escrow`: a request ends (`WF` on the steps of a session, `Abort` among them),
  Stripe delivers an event until it is acknowledged (`SF` on `Redeliver`: a
  session must be free again and again), a webhook's UPDATE gets its turn on
  the row (`SF` on `ApplyEvent`: PostgreSQL queues lock waiters) and webhook
  requests are not killed for ever. Nothing is assumed of people: nobody has to
  confirm, cancel or resolve. `AdminFairness`, for `escrow_stuck_dispute` only,
  is an administrator who tries both resolutions again and again, so that the
  disagreement is not for want of trying.
- `WatchRescan`: `WF(Time)`. The clock runs; no worker has to act.
- `WebhookDelivery`: `WF(WorkerStep)`. Every HTTP attempt and back-off has a
  timeout, so the worker goes on while it runs; deaths and lost connections are
  not excluded.
- `Accounts`: `TryingSpec`, for `account_suspension` only: the owner's requests go on
  and the clock runs.
- `ConnectionManager`: `WF(WorkerStep(w))` of the workers that have sockets: every
  send ends within five seconds by `wait_for`. Redis need not stay.

## What is proved

For any number of transactions, sessions, workers, watches, subscriptions,
entities, requests, token pairs and keys and any values of the numbers, from the
assumptions named in the modules (`PriceAssumption`, `IntervalAssumption`,
`LivesAssumption`, `FounderAssumption`, ...) and nothing else; that there are
finitely many entities (`FiniteAssumption`) is needed only where balances are
added up. `PROJECT.json` lists the theorems; every safety property of the
passing runs is among them.

- `Escrow`: the safety properties are not inductive. Why the ledger agrees with
  Stripe after a commit depends on what the session knew before it called Stripe;
  why a second resolution cannot follow a first one depends on the intent not
  being held any more, since nothing reads the dispute again. `IInv` says, for each
  row, dispute, event and running session *on its own*, what the intent's state
  must be (`RowOK`, `EventOK`, `JobOK`), and that two sessions
  never hold one row's lock. Stated on values and not on variables, each
  part is carried over a step by a lemma about how an intent can move
  (monotonically: created, held, captured or canceled, refunded) and by the case
  analysis of the one row or session that the step writes. The properties follow
  from `IInv` without looking at steps; `DecidedOnce` needs it in front of the one
  action that records a resolution. Two more results rest on it.
  `NoticeOutstanding`: as long as a row lags behind its intent, there is an event not yet
  acknowledged that will repair it. It is the safety half of
  `MoneyMovedIsNoticed`, and holds because an event is acknowledged only after
  its row is no longer open. `StaysHopeless`: a dispute whose money moved undecided,
  and that no session has settled, stays so; the first disagreement below, for
  every instance.
- `Settlement`: the refinement reads the intent as the money and a purchase's row
  as the book. Every intent step is `PayOut`, `Release` or `Refund`, every row
  write is a `Write` of an entry that `IInv` makes true, and the rest is invisible.
  Rows of adoptions and of purchases without an intent are kept out of the book:
  a cancelled adoption may keep a live hold.
- `WatchRescan`: the lock's properties are inductive together with its types: a
  worker can acquire only when no key is there, and as long as nothing is
  disturbed everyone who depends on the key has a key that outlives his wait.
  `WatchKeepsLock` proves that the composition implements the lock's
  specification, so that they hold of it. `WInv` adds what an exact alert needs:
  unless something was disturbed or lingered, the one loop that runs belongs to
  the one scheduler, and what it has listed is still the committed baseline.
  `OrphanRunsOut` says of a key whose worker is gone that its life is a variant:
  nothing prolongs it and every tick shortens it, the safety half of
  `OrphanedLockExpires`.
- `WebhookDelivery`: a counter is bounded by the failures only if every copy is:
  `IInv` says of each session that its copies are backed, that a copy which
  switches off was given cause, and that no delivery's copy switches on.
- `EntityDocument`: not the documents alone but every copy that a session holds has
  its stake covered; then it does not matter which is written last. For `Conserved`,
  `RInv` says that while a history is `regular` no two sessions hold one document,
  and that what a session has read is still what is stored, so that each commit
  changes the total by its reward. How a sum over a finite set changes when one or
  two of its terms do is proved without an induction theorem: among the
  subsets for which it were false there would be a smallest.
- `Accounts`: a committed change is covered by `token:inv` for every pair
  issued up to it because the flush takes the row's lock before the clock is
  read and keeps it until the commit: without the lock an earlier second could be
  set after a later one. The blacklist part says that a row is cleaned up only
  once its token is expired. `OnlyAdminsUnlock`: an account that is switched off,
  with no access token left alive, stays off until an administrator reactivates
  it; the second disagreement below, for every instance.
- `Community`: the count is at most the members *minus those whose row an unban is
  about to delete although they are members by now*, since `unban` deletes
  without counting; the plain bound is not inductive.
- `Agents`: only the types of held readings are needed; that any reading of any age is harmless
  rests on writing changed columns only (`Stored`).
- `ConnectionManager`: a client gets a channel's message once because a loop holds
  only sockets of its own worker and passes each once, only the sender publishes,
  once and after its own loop, and every other worker has the message queued at
  most once and never after its loop has begun. That the indexes agree needs what a running
  loop may still take out of them. `ChannelReached` is the counterpart of
  the third disagreement: a channel's loop runs over a copy, so it never raises,
  and when it ends every open socket it copied has the message.

Only model-checked: the four liveness properties (`MoneyMovedIsNoticed`,
`OrphanedLockExpires`, `EventsAreWorkedOff`, `RelayReachesChannel`), which need
fairness and `ENABLED` and so are out of the prover's reach, and the four
disagreements, which are counterexamples. Of the first two the safety halves named above are
proved: that what must happen cannot become impossible.

## Disagreements with the documentation

Each shown by a run, with the quotation in `findings` of `PROJECT.json`:

1. A disputed transaction whose hold lapsed, or whose resolution failed after
   Stripe's answer, can be decided by nobody (`marketplace_router.py:1896`).
2. A suspension that is over ends only when an access token is presented, and
   by then there is none (`deps.py:90`).
3. Sending to an entity stops when one of its sockets comes or goes
   (`ws.py:236`).
4. The daily clean-up deletes suspended agents (`scheduler.py:416`).

Seen while modelling and not checked by a run of its own:

- Payments: two purchases of one listing at a time (`marketplace_router.py:1389`);
  `open_dispute` disputes what is no longer in escrow (`disputes_router.py:136`,
  `:168`); a late message or escalation reopens a resolved dispute (`:390`,
  `:616`); `marketplace-seller.md:119-122` names statuses `confirmed` and
  `refunded` for what the code calls `completed` and `cancelled`;
  `escrow_auto_release_hours` is stored as a deadline and enforced by nothing; a
  refund that Stripe announces before the capture's event is lost.
- Scheduler: two schedulers after a late refresh (`scheduler.py:805`, `:929`); none
  after a crash and a restart within a minute (`:810`, `:951`); the re-scan
  outlives its key (`:1071`).
- Webhooks: "consecutive" failures are not consecutive (`webhook_worker.py:50`);
  an overturned appeal revives subscriptions without resetting their counters;
  nothing in the repository starts the worker.
- The document: claims assigned in place are not recorded
  (`bot_onboarding_router.py:1197`, `admin_router.py:2005`, `:2145`,
  `onboarding_router.py:363`, `:398`); resetting the onboarding wipes the tokens.
- Communities: a banned member may leave and join again, against
  `submolt_router.py:1107` and `tests/test_submolt_ban.py:90`; an owner can
  promote himself to moderator and leave none; overlapping transfers leave two.
- Agents: an overturned appeal revives rotated keys (`moderation_router.py:780`);
  a transfer keeps `operator_approved` (`agent_router.py:823`, against `:1385`);
  an agent claimed while the expiry job runs is switched off; a suspended
  agent's keys are revoked, so no request of its own can end the suspension.
- The e-mail queue is filled and never drained (`email_queue.py:5`, `:166`).

## Not modelled

- Listings, reviews, Stripe Connect onboarding, posts, votes, direct messages,
  notifications, organisations, attestations: inserts and single-row updates
  under unique constraints, where concurrency has little to break.
- Delegations and evolution records: state machines that would be worth a
  module, on the same unlocked reads as `Community`.
- Rate limiting: one Redis transaction per request, and an in-memory fallback that
  promises nothing across workers. E-mail queue: nothing drains it.
- Trust scores: weighted sums of floating-point numbers over many tables, which a
  later recompute overwrites.
- Scanner, safety detectors, signatures, canonical JSON, statistics, framework
  bridges, marketing, recruitment, seeds and the web and mobile clients:
  pattern matching, cryptography, formatting and I/O, outside what a model
  checker says much about. They are most of the repository's lines, which is why
  the modules above stand for a small part of them.

## Plan

Done: `Escrow` with refinement and proofs; `SchedulerLock` and `WatchRescan`;
`WebhookDelivery`; `EntityDocument`; `Accounts`; `Community`;
`ConnectionManager`; `Agents`. In the order of what they would add:

1. `Delegation`: unlocked transitions against an abstract status machine.
2. `Evolution`: version lineage, and the adoption that forks it.
3. `EmailQueue` and `RateLimit`: windows, bounds and fallbacks.
4. `TrustScore`: the score as operators on scaled integers, against its bounds.
