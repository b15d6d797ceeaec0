------------------------------- MODULE Agents -------------------------------
(***************************************************************************)
(* One agent: its row, its API keys and the people and jobs that change    *)
(* them (src/api/agent_service.py, agent_router.py, bot_onboarding_        *)
(* router.py; admin_router.py, moderation_router.py and deactivation.py;   *)
(* jobs/expire_provisional.py and the daily clean-up in jobs/scheduler.py).*)
(*                                                                         *)
(* A handler reads the row, and a rotation the list of live keys, without  *)
(* a lock, decides, and later writes the columns it changed: a column it   *)
(* sets to the value it had read is not written.  "held" keeps what some   *)
(* sessions read earlier; any handler may go on from such a reading or     *)
(* from the present state.  The cascade, the expiry and an overturned      *)
(* appeal take the keys as they are when they write: their change of the   *)
(* row has been flushed by then, and what a rotation adds after their      *)
(* SELECT counts as a rotation that commits after them.                    *)
(*                                                                         *)
(* Who the operator is, and a key's scopes, are not told apart.  A row     *)
(* that is deleted stays as it was in "row".                               *)
(***************************************************************************)
EXTENDS Naturals, FiniteSets

CONSTANTS
  Key,       \* bound: the API keys the agent gets in its life
  Session    \* bound: different moments whose readings are still in use

VARIABLES
  row,       \* the agent's columns
  there,     \* has the row not been deleted?
  live,      \* its keys with is_active
  revoked,   \* its keys without
  flag,      \* the moderation flag on it, and the appeal
  lapsed,    \* is provisional_expires_at over?
  settled,   \* was the row last written more than five minutes ago?
  held,      \* what sessions have read
  blind,     \* history: did a rotation miss a live key?
  restored,  \* history: was an appeal overturned?
  ended      \* history: expired by the job, and not readmitted since

keyVars == <<live, revoked>>

agentVars == <<row, there, live, revoked, flag, lapsed, settled, held,
               blind, restored, ended>>

Row == [operated : BOOLEAN, provisional : BOOLEAN, active : BOOLEAN,
        suspension : {"none", "running", "over"}]

Reading == [row : Row, live : SUBSET Key, lapsed : BOOLEAN]

AgentTypeOK ==
  /\ row \in Row
  /\ live \in SUBSET Key
  /\ revoked \in SUBSET (Key \ live)
  /\ flag \in {"none", "suspended", "appealed"}
  /\ there \in BOOLEAN /\ lapsed \in BOOLEAN /\ settled \in BOOLEAN
  /\ blind \in BOOLEAN /\ restored \in BOOLEAN /\ ended \in BOOLEAN
  /\ held \in [Session -> SUBSET Reading]
  /\ \A q \in Session : Cardinality(held[q]) <= 1

\* Created by an operator, or registered without one for thirty days.
Registered(operated) ==
  [operated |-> operated, provisional |-> ~ operated, active |-> TRUE,
   suspension |-> "none"]

AgentInit ==
  /\ \E operated \in BOOLEAN : row = Registered(operated)
  /\ \E k \in Key : live = {k}
  /\ revoked = {}
  /\ flag = "none"
  /\ there = TRUE
  /\ held = [q \in Session |-> {}]
  /\ lapsed = FALSE /\ settled = FALSE
  /\ blind = FALSE /\ restored = FALSE /\ ended = FALSE

Now == [row |-> row, live |-> live, lapsed |-> lapsed]

Seen == {Now} \cup UNION {held[q] : q \in Session}

Read(q) ==
  /\ there
  /\ held' = [held EXCEPT ![q] = {Now}]
  /\ UNCHANGED <<row, there, live, revoked, flag, lapsed, settled, blind, restored, ended>>

\* The whole row is written.
Stored_WholeRow(old, new) == new

\* Only what the session changed is written.
Stored(old, new) == [c \in DOMAIN row |-> IF new[c] # old[c] THEN new[c] ELSE row[c]]

Touch(changed) == settled' = (settled /\ ~ changed)

\* A session that read the row "old" commits it as "new".
Save(old, new) == row' = Stored(old, new) /\ Touch(new # old)

Off(old) == [old EXCEPT !.active = FALSE]

RevokeAll == live' = {} /\ revoked' = revoked \cup live

-----------------------------------------------------------------------------
(* The operators.                                                          *)

\* Anyone may name an operator for an agent without one, and an operator may
\* name another; naming himself violates uq_relationship.
SetOperator(s) ==
  /\ there
  /\ row' = [Stored(s.row, s.row) EXCEPT !.operated = TRUE]
  /\ Touch(TRUE)
  /\ UNCHANGED <<keyVars, there, flag, lapsed, held, blind, restored, ended>>

ReleaseOperator(s) ==
  /\ there
  /\ s.row.operated
  /\ Save(s.row, [s.row EXCEPT !.operated = FALSE])
  /\ UNCHANGED <<keyVars, there, flag, lapsed, held, blind, restored, ended>>

\* By the claim token.  Whoever was its operator is replaced, unless it is the
\* claimant himself.
ClaimAgent(s) ==
  /\ there
  /\ s.row.provisional /\ s.row.active
  /\ ~ s.lapsed
  /\ LET full == [s.row EXCEPT !.provisional = FALSE] IN
     row' \in {[Stored(s.row, full) EXCEPT !.operated = TRUE]}
                \cup (IF s.row.operated THEN {Stored(s.row, full)} ELSE {})
  /\ Touch(TRUE)
  /\ UNCHANGED <<keyVars, there, flag, lapsed, held, blind, restored, ended>>

\* Without a token.
RequestClaim(s) ==
  /\ there
  /\ s.row.provisional /\ s.row.active
  /\ ~ s.row.operated
  /\ Save(s.row, [s.row EXCEPT !.operated = TRUE, !.provisional = FALSE])
  /\ UNCHANGED <<keyVars, there, flag, lapsed, held, blind, restored, ended>>

Replaced_None(keys) == {}

Replaced(keys) == keys

\* rotate-key, and recover-key for an operator who has approved.  Neither asks
\* whether the agent is active.
RotateKey(s) ==
  /\ there
  /\ s.row.operated
  /\ \E k \in Key \ (live \cup revoked) :
       live' = (live \ Replaced(s.live)) \cup {k}
  /\ revoked' = revoked \cup (live \cap Replaced(s.live))
  /\ blind' = (blind \/ ~ live \subseteq s.live)
  /\ UNCHANGED <<row, there, flag, lapsed, settled, held, restored, ended>>

RevokeKey(s, k) ==
  /\ there
  /\ s.row.operated
  /\ k \in s.live
  /\ live' = live \ {k}
  /\ revoked' = revoked \cup {k}
  /\ UNCHANGED <<row, there, flag, lapsed, settled, held, blind, restored, ended>>

DeleteAgent(s) ==
  /\ there
  /\ s.row.operated
  /\ Save(s.row, Off(s.row))
  /\ UNCHANGED <<keyVars, there, flag, lapsed, held, blind, restored, ended>>

-----------------------------------------------------------------------------
(* The administrators.                                                     *)

\* The new date differs from any the session has read.
SuspendEntity(s) ==
  /\ there
  /\ row' = [Stored(s.row, Off(s.row)) EXCEPT !.suspension = "running"]
  /\ Touch(TRUE)
  /\ RevokeAll
  /\ UNCHANGED <<there, flag, lapsed, held, blind, restored, ended>>

\* Deactivated by hand, or by a flag resolved as SUSPENDED or BANNED, which sets
\* no date.
DeactivateEntity(s) ==
  /\ there
  /\ Save(s.row, Off(s.row))
  /\ RevokeAll
  /\ flag' \in {flag, IF flag = "none" THEN "suspended" ELSE flag}
  /\ UNCHANGED <<there, lapsed, held, blind, restored, ended>>

\* Readmission ends an expiry if it is written.
Readmit(old, new) ==
  /\ Save(old, new)
  /\ ended' = (ended /\ new.active = old.active)

\* The keys stay revoked and the date stays.
ReactivateEntity(s) ==
  /\ there
  /\ Readmit(s.row, [s.row EXCEPT !.active = TRUE])
  /\ UNCHANGED <<keyVars, there, flag, lapsed, held, blind, restored>>

\* The agent itself appeals: it signs in with a key of its own.
AppealFlag ==
  /\ there
  /\ row.active /\ live # {}
  /\ flag = "suspended"
  /\ flag' = "appealed"
  /\ UNCHANGED <<row, there, live, revoked, lapsed, settled, held, blind, restored, ended>>

UpholdAppeal ==
  /\ there
  /\ flag = "appealed"
  /\ flag' = "suspended"
  /\ UNCHANGED <<row, there, live, revoked, lapsed, settled, held, blind, restored, ended>>

StillRevoked_All == revoked

StillRevoked == {}

\* All keys that are revoked are revived, the rotated ones among them.
OverturnAppeal(s) ==
  /\ there
  /\ flag = "appealed"
  /\ flag' = "none"
  /\ Readmit(s.row, [s.row EXCEPT !.active = TRUE, !.suspension = "none"])
  /\ live' = live \cup revoked
  /\ revoked' = StillRevoked
  /\ restored' = TRUE
  /\ UNCHANGED <<there, lapsed, held, blind>>

-----------------------------------------------------------------------------
(* The jobs and the clock.                                                 *)

ExpireProvisional(s) ==
  /\ there
  /\ s.row.provisional /\ s.row.active
  /\ s.lapsed
  /\ Save(s.row, Off(s.row))
  /\ RevokeAll
  /\ ended' = TRUE
  /\ UNCHANGED <<there, flag, lapsed, held, blind, restored>>

\* Once a day, whoever made it inactive.  DELETE waits for the row's lock and
\* looks again; the keys and all else go with the row.
HardDelete ==
  /\ there
  /\ ~ row.active
  /\ settled
  /\ there' = FALSE
  /\ live' = {} /\ revoked' = {}
  /\ held' = [q \in Session |-> {}]
  /\ UNCHANGED <<row, flag, lapsed, settled, blind, restored, ended>>

Lapse ==
  /\ there
  /\ ~ lapsed
  /\ lapsed' = TRUE
  /\ UNCHANGED <<row, there, live, revoked, flag, settled, held, blind, restored, ended>>

SuspensionPasses ==
  /\ there
  /\ row.suspension = "running"
  /\ row' = [row EXCEPT !.suspension = "over"]
  /\ UNCHANGED <<there, live, revoked, flag, lapsed, settled, held, blind, restored, ended>>

\* Five minutes without a write.
Settle ==
  /\ there
  /\ ~ settled
  /\ settled' = TRUE
  /\ UNCHANGED <<row, there, live, revoked, flag, lapsed, held, blind, restored, ended>>

AgentNext ==
  \/ \E q \in Session : Read(q)
  \/ \E s \in Seen :
       \/ SetOperator(s) \/ ReleaseOperator(s) \/ ClaimAgent(s) \/ RequestClaim(s)
       \/ RotateKey(s) \/ DeleteAgent(s)
       \/ \E k \in Key : RevokeKey(s, k)
       \/ SuspendEntity(s) \/ DeactivateEntity(s) \/ ReactivateEntity(s)
       \/ OverturnAppeal(s) \/ ExpireProvisional(s)
  \/ AppealFlag \/ UpholdAppeal
  \/ HardDelete \/ Lapse \/ SuspensionPasses \/ Settle

AgentSpec == AgentInit /\ [][AgentNext]_agentVars

-----------------------------------------------------------------------------

\* "Revoke all active keys and issue a new one" (rotate_api_key): the agent has
\* one live key at most, whatever revocations, claims, suspensions, expiries and
\* readmissions the rotations overlap with.  Two rotations that do not see each
\* other's key leave two, and an overturned appeal revives all.
OneLiveKey == (~ blind /\ ~ restored) => Cardinality(live) <= 1

\* An agent that the expiry job has switched off stays so until an administrator
\* readmits it: no claim, transfer or suspension that read the row while it was
\* active takes the job's write back.
ExpiredStaysOut == ended => ~ row.active

\* "Account temporarily disabled ... Set duration (7/30/90 days) ... Auto-expires
\* or appeal" (docs/moderation-playbook.md:71): an agent whose suspension runs is
\* still there to come back to.
SuspendedAgentSurvives == row.suspension = "running" => there

=============================================================================
