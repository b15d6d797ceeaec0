--------------------------- MODULE EntityDocument ---------------------------
(***************************************************************************)
(* The JSON document of an entity (column onboarding_data, src/models.py). *)
(* It holds the token balance and stake (src/api/token_router.py), custom  *)
(* trust weights (account_router.py), the subscription                     *)
(* (subscription_router.py), onboarding progress (onboarding_router.py),   *)
(* the import's source (source_import, jobs/sync_source_imports.py) and    *)
(* the ownership claim (bot_onboarding_router.py, admin_router.py).  Every *)
(* handler reads the whole document when it authenticates and writes the   *)
(* whole document at its commit; nobody locks the row.                     *)
(*                                                                         *)
(* The session decides whether there is anything to write by comparing the *)
(* value it loaded (old) with the one assigned (new).  Handlers that copy  *)
(* the document first (dict(...)) leave the loaded value alone; handlers   *)
(* that change it in place change what they are compared with.             *)
(***************************************************************************)
EXTENDS Integers, FiniteSets, Functions

CONSTANTS
  Entity,
  Request,          \* requests in progress
  INITIAL_BALANCE,  \* what an entity without token data is taken to have
  MIN_TRANSFER, MAX_TRANSFER, MIN_STAKE,
  Amount,           \* amounts that requests name
  CopiedKey,        \* other parts of the document that handlers save on a copy
  AliasedKey,       \* other parts that handlers save in place
  MAX_REWARDS,      \* bound: rewards claimed
  MAX_BALANCE       \* bound: no transfer or reward takes a balance above it

ASSUME AmountsAssumption ==
  /\ INITIAL_BALANCE \in Nat /\ Amount \subseteq Nat \ {0}
  /\ MIN_TRANSFER \in Nat /\ MAX_TRANSFER \in Nat /\ MIN_STAKE \in Nat
  /\ MAX_REWARDS \in Nat /\ MAX_BALANCE \in Nat

ASSUME FiniteAssumption == IsFiniteSet(Entity)

ASSUME KeysAssumption == "token_data" \notin CopiedKey \cup AliasedKey

VARIABLES
  doc,      \* the committed document of each entity
  session,  \* what each request has read and is about to write
  granted,  \* history: rewards paid out
  regular   \* history: no two requests have held one document, none was reset

vars == <<doc, session, granted, regular>>

Key == {"token_data"} \cup CopiedKey \cup AliasedKey

Document == [keys : SUBSET Key, balance : Int, staked : Int]

Empty == [keys |-> {}, balance |-> INITIAL_BALANCE, staked |-> 0]

\* "transfer" has loaded the sender and not yet the recipient, "ready" goes to
\* its commit.
SessionState ==
  [state : {"idle", "transfer", "ready"}, reward : Nat,
   held : SUBSET Entity, old : [Entity -> Document], new : [Entity -> Document]]

TypeOK ==
  /\ doc \in [Entity -> [keys : SUBSET Key, balance : Nat, staked : Nat]]
  /\ session \in [Request -> SessionState]
  /\ granted \in Nat
  /\ regular \in BOOLEAN

Closed ==
  [state |-> "idle", reward |-> 0, held |-> {},
   old |-> [e \in Entity |-> Empty], new |-> [e \in Entity |-> Empty]]

Init ==
  /\ doc = [e \in Entity |-> Empty]
  /\ session = [p \in Request |-> Closed]
  /\ granted = 0
  /\ regular = TRUE

-----------------------------------------------------------------------------

Idle(p) == session[p].state = "idle"

Unheld(p, e) == \A q \in Request \ {p} : e \notin session[q].held

\* The document of e as p has it, and as p assigns it.
Loaded(p, e, old, new) ==
  [state |-> "ready", reward |-> 0, held |-> {e},
   old |-> [Closed.old EXCEPT ![e] = old], new |-> [Closed.new EXCEPT ![e] = new]]

\* A handler of one document: get_current_entity loads it, the handler assigns.
Handle(p, e, new) ==
  /\ Idle(p)
  /\ session' = [session EXCEPT ![p] = Loaded(p, e, doc[e], new)]
  /\ regular' = (regular /\ Unheld(p, e))
  /\ UNCHANGED <<doc, granted>>

-----------------------------------------------------------------------------
(* Tokens.                                                                 *)

Available_Balance(d) == d.balance

Available(d) == d.balance - d.staked

\* _save_token_data puts the defaults of an empty document into it.
WithTokens(d, balance, staked) ==
  [keys |-> d.keys \cup {"token_data"}, balance |-> balance, staked |-> staked]

Debited_NotSaved(d, n) == d

Debited(d, n) == WithTokens(d, d.balance - n, d.staked)

Credited(d, n) == WithTokens(d, d.balance + n, d.staked)

StartTransfer(p, e) ==
  /\ Idle(p)
  /\ session' = [session EXCEPT ![p] = [Loaded(p, e, doc[e], doc[e])
                                          EXCEPT !.state = "transfer"]]
  /\ regular' = (regular /\ Unheld(p, e))
  /\ UNCHANGED <<doc, granted>>

\* Session c of sender e after it has loaded and assigned the recipient's
\* document beside its own.
Paid(c, e, recipient, n) ==
  [c EXCEPT !.state = "ready", !.held = @ \cup {recipient},
            !.old = [@ EXCEPT ![recipient] = doc[recipient]],
            !.new = [@ EXCEPT ![e] = Debited(c.old[e], n),
                              ![recipient] = Credited(doc[recipient], n)]]

\* What is checked is the sender's balance as it was loaded.
Transfer(p, recipient, n) ==
  /\ session[p].state = "transfer"
  /\ recipient \notin session[p].held
  /\ MIN_TRANSFER <= n /\ n <= MAX_TRANSFER
  /\ doc[recipient].balance + n <= MAX_BALANCE
  /\ \E e \in session[p].held :
       /\ n <= Available(session[p].old[e])
       /\ session' = [session EXCEPT ![p] = Paid(session[p], e, recipient, n)]
  /\ regular' = (regular /\ Unheld(p, recipient))
  /\ UNCHANGED <<doc, granted>>

StakeTokens(p, e, n) ==
  /\ n >= MIN_STAKE
  /\ n <= Available(doc[e])
  /\ Handle(p, e, WithTokens(doc[e], doc[e].balance, doc[e].staked + n))

MayUnstake_Balance(d, n) == n <= d.balance

MayUnstake(d, n) == n <= d.staked

UnstakeTokens(p, e, n) ==
  /\ MayUnstake(doc[e], n)
  /\ Handle(p, e, WithTokens(doc[e], doc[e].balance, doc[e].staked - n))

\* The pending reward depends on rate and time: any amount, as long as
\* something is staked.
ClaimRewards(p, e, n) ==
  /\ Idle(p)
  /\ doc[e].staked > 0
  /\ granted < MAX_REWARDS /\ doc[e].balance + n <= MAX_BALANCE
  /\ session' = [session EXCEPT ![p] =
                   [Loaded(p, e, doc[e], Credited(doc[e], n)) EXCEPT !.reward = n]]
  /\ regular' = (regular /\ Unheld(p, e))
  /\ UNCHANGED <<doc, granted>>

-----------------------------------------------------------------------------
(* The other parts.                                                        *)

SaveOnCopy(p, e, k) ==
  Handle(p, e, [doc[e] EXCEPT !.keys = @ \cup {k}])

RemoveOnCopy(p, e, k) ==
  Handle(p, e, [doc[e] EXCEPT !.keys = @ \ {k}])

\* "or {}" makes a new document of an empty one; any other is changed in place,
\* and the loaded value with it.
InPlace(d, new) == IF d.keys = {} THEN d ELSE new

SaveInPlace(p, e, k) ==
  /\ Idle(p)
  /\ LET new == [doc[e] EXCEPT !.keys = @ \cup {k}]
     IN  session' = [session EXCEPT ![p] = Loaded(p, e, InPlace(doc[e], new), new)]
  /\ regular' = (regular /\ Unheld(p, e))
  /\ UNCHANGED <<doc, granted>>

\* "Reset onboarding progress": the whole document, tokens included.
ResetOnboarding(p, e) ==
  /\ Idle(p)
  /\ session' = [session EXCEPT ![p] = Loaded(p, e, doc[e], Empty)]
  /\ regular' = FALSE
  /\ UNCHANGED <<doc, granted>>

-----------------------------------------------------------------------------

Written(p, e) == IF session[p].new[e] # session[p].old[e] THEN session[p].new[e] ELSE doc[e]

\* The flush writes the documents that differ, in one transaction.
Commit(p) ==
  /\ session[p].state = "ready"
  /\ doc' = [e \in Entity |-> IF e \in session[p].held THEN Written(p, e) ELSE doc[e]]
  /\ granted' = granted + session[p].reward
  /\ session' = [session EXCEPT ![p] = Closed]
  /\ UNCHANGED regular

\* A 4xx, an error of the database, or the process dies.
Rollback(p) ==
  /\ ~ Idle(p)
  /\ session' = [session EXCEPT ![p] = Closed]
  /\ UNCHANGED <<doc, granted, regular>>

HandlerStep(p, e) ==
  \/ StartTransfer(p, e)
  \/ \E n \in Amount : \/ StakeTokens(p, e, n) \/ UnstakeTokens(p, e, n)
                       \/ ClaimRewards(p, e, n) \/ Transfer(p, e, n)
  \/ \E k \in CopiedKey : SaveOnCopy(p, e, k) \/ RemoveOnCopy(p, e, k)
  \/ \E k \in AliasedKey : SaveInPlace(p, e, k)
  \/ ResetOnboarding(p, e)

Next ==
  \E p \in Request :
    \/ \E e \in Entity : HandlerStep(p, e)
    \/ Commit(p) \/ Rollback(p)

Spec == Init /\ [][Next]_vars

-----------------------------------------------------------------------------

\* Whatever documents requests overwrite each other's with, nobody's stake
\* exceeds its balance and neither is negative: staked tokens are locked.
NeverOverdrawn == \A e \in Entity : 0 <= doc[e].staked /\ doc[e].staked <= doc[e].balance

TotalBalance == FoldFunction(LAMBDA d, n : d.balance + n, 0, doc)

\* As long as no two requests hold one document and no progress is reset, no
\* token is made or lost but for the rewards: failures undo both sides of a
\* transfer, and the other parts of the document are saved beside the tokens.
Conserved ==
  regular => TotalBalance = Cardinality(Entity) * INITIAL_BALANCE + granted

=============================================================================
