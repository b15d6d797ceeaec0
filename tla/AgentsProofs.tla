---------------------------- MODULE AgentsProofs ----------------------------
(***************************************************************************)
(* Theorems about Agents, for any supply of keys and any number of         *)
(* readings in use.                                                        *)
(***************************************************************************)
EXTENDS Agents, FiniteSetTheorems, TLAPS

\* OneLiveKey without counting.
Alone == (~ blind /\ ~ restored) => \A j, k \in live : j = k

\* The inductive invariant says of what sessions hold no more than its type: a
\* stale reading may say anything of the past.
AInv == AgentTypeOK /\ Alone /\ ExpiredStaysOut

-----------------------------------------------------------------------------
(* Readings and writes.                                                    *)

LEMMA SeenTyped ==
  ASSUME AgentTypeOK, NEW s \in Seen
  PROVE  s \in Reading
BY DEF Seen, Now, Reading, AgentTypeOK

\* A write leaves a row; is_active is what the session made of it if it changed
\* it, and otherwise what it was.
LEMMA StoredTyped ==
  ASSUME row \in Row, NEW old \in Row, NEW new \in Row
  PROVE  /\ Stored(old, new) \in Row
         /\ Stored(old, new).active =
              (IF new.active # old.active THEN new.active ELSE row.active)
BY DEF Stored, Row

LEMMA OffTyped ==
  ASSUME NEW old \in Row
  PROVE  Off(old) \in Row /\ Off(old).active = FALSE
BY DEF Off, Row

-----------------------------------------------------------------------------
(* Types.                                                                  *)

LEMMA OperatorsTyped ==
  ASSUME AgentTypeOK, NEW s \in Seen,
         SetOperator(s) \/ ReleaseOperator(s) \/ ClaimAgent(s) \/ RequestClaim(s)
           \/ DeleteAgent(s)
  PROVE  AgentTypeOK'
<1>1. s.row \in Row  BY SeenTyped DEF Reading
<1>2. row \in Row /\ settled \in BOOLEAN  BY DEF AgentTypeOK
<1>3. row' \in Row
  <2>1. CASE SetOperator(s)
    <3>1. Stored(s.row, s.row) \in Row  BY <1>1, <1>2, StoredTyped
    <3> QED  BY <2>1, <3>1 DEF SetOperator, Row
  <2>2. CASE ReleaseOperator(s)
    <3>1. [s.row EXCEPT !.operated = FALSE] \in Row  BY <1>1 DEF Row
    <3> QED  BY <1>1, <1>2, <2>2, <3>1, StoredTyped DEF ReleaseOperator, Save
  <2>3. CASE ClaimAgent(s)
    <3> DEFINE full == [s.row EXCEPT !.provisional = FALSE]
    <3>1. full \in Row  BY <1>1 DEF Row
    <3>2. Stored(s.row, full) \in Row  BY <1>1, <1>2, <3>1, StoredTyped
    <3>3. [Stored(s.row, full) EXCEPT !.operated = TRUE] \in Row  BY <3>2 DEF Row
    <3> QED  BY <2>3, <3>2, <3>3 DEF ClaimAgent
  <2>4. CASE RequestClaim(s)
    <3>1. [s.row EXCEPT !.operated = TRUE, !.provisional = FALSE] \in Row
      BY <1>1 DEF Row
    <3> QED  BY <1>1, <1>2, <2>4, <3>1, StoredTyped DEF RequestClaim, Save
  <2>5. CASE DeleteAgent(s)
    BY <1>1, <1>2, <2>5, OffTyped, StoredTyped DEF DeleteAgent, Save
  <2> QED  BY <2>1, <2>2, <2>3, <2>4, <2>5
<1>4. settled' \in BOOLEAN
  BY <1>2 DEF SetOperator, ReleaseOperator, ClaimAgent, RequestClaim, DeleteAgent, Save, Touch
<1> QED
  BY <1>3, <1>4
  DEF AgentTypeOK, SetOperator, ReleaseOperator, ClaimAgent, RequestClaim, DeleteAgent, keyVars

LEMMA KeysTyped ==
  ASSUME AgentTypeOK, NEW s \in Seen,
         RotateKey(s) \/ \E k \in Key : RevokeKey(s, k)
  PROVE  AgentTypeOK'
<1>1. CASE RotateKey(s)  BY <1>1 DEF AgentTypeOK, RotateKey
<1>2. CASE \E k \in Key : RevokeKey(s, k)  BY <1>2 DEF AgentTypeOK, RevokeKey
<1> QED  BY <1>1, <1>2

LEMMA AdministratorsTyped ==
  ASSUME AgentTypeOK, NEW s \in Seen,
         SuspendEntity(s) \/ DeactivateEntity(s) \/ ReactivateEntity(s)
           \/ OverturnAppeal(s) \/ ExpireProvisional(s)
  PROVE  AgentTypeOK'
<1>1. s.row \in Row  BY SeenTyped DEF Reading
<1>2. row \in Row /\ settled \in BOOLEAN  BY DEF AgentTypeOK
<1>3. Off(s.row) \in Row /\ Stored(s.row, Off(s.row)) \in Row
  BY <1>1, <1>2, OffTyped, StoredTyped
<1>4. row' \in Row
  <2>1. CASE SuspendEntity(s)  BY <1>3, <2>1 DEF SuspendEntity, Row
  <2>2. CASE DeactivateEntity(s) \/ ExpireProvisional(s)
    BY <1>3, <2>2 DEF DeactivateEntity, ExpireProvisional, Save
  <2>3. CASE ReactivateEntity(s)
    <3>1. [s.row EXCEPT !.active = TRUE] \in Row  BY <1>1 DEF Row
    <3> QED  BY <1>1, <1>2, <2>3, <3>1, StoredTyped DEF ReactivateEntity, Readmit, Save
  <2>4. CASE OverturnAppeal(s)
    <3>1. [s.row EXCEPT !.active = TRUE, !.suspension = "none"] \in Row
      BY <1>1 DEF Row
    <3> QED  BY <1>1, <1>2, <2>4, <3>1, StoredTyped DEF OverturnAppeal, Readmit, Save
  <2> QED  BY <2>1, <2>2, <2>3, <2>4
<1>5. settled' \in BOOLEAN /\ ended' \in BOOLEAN
  BY <1>2
  DEF SuspendEntity, DeactivateEntity, ReactivateEntity, OverturnAppeal, ExpireProvisional,
      Readmit, Save, Touch, AgentTypeOK
<1>6. live' \in SUBSET Key /\ revoked' \in SUBSET (Key \ live')
  BY DEF SuspendEntity, DeactivateEntity, ReactivateEntity, OverturnAppeal, ExpireProvisional,
         RevokeAll, StillRevoked, AgentTypeOK, keyVars
<1>7. flag' \in {"none", "suspended", "appealed"}
  BY DEF SuspendEntity, DeactivateEntity, ReactivateEntity, OverturnAppeal, ExpireProvisional,
         AgentTypeOK
<1>8. restored' \in BOOLEAN /\ UNCHANGED <<there, lapsed, held, blind>>
  BY DEF SuspendEntity, DeactivateEntity, ReactivateEntity, OverturnAppeal, ExpireProvisional,
         AgentTypeOK
<1> QED  BY <1>4, <1>5, <1>6, <1>7, <1>8 DEF AgentTypeOK

LEMMA RestTyped ==
  ASSUME AgentTypeOK,
         (\E q \in Session : Read(q)) \/ AppealFlag \/ UpholdAppeal \/ HardDelete
           \/ Lapse \/ SuspensionPasses \/ Settle
  PROVE  AgentTypeOK'
<1>1. ASSUME NEW q \in Session, Read(q)  PROVE AgentTypeOK'
  <2>1. Now \in Reading  BY DEF Now, Reading, AgentTypeOK
  <2>2. Cardinality({Now}) = 1  BY FS_Singleton
  <2>3. \A p \in Session : held'[p] \in {{Now}, held[p]}
    BY <1>1 DEF Read, AgentTypeOK
  <2>4. held' \in [Session -> SUBSET Reading]  BY <1>1, <2>1 DEF Read, AgentTypeOK
  <2>5. \A p \in Session : Cardinality(held'[p]) <= 1
    <3> SUFFICES ASSUME NEW p \in Session PROVE Cardinality(held'[p]) <= 1
      OBVIOUS
    <3>1. CASE held'[p] = {Now}  BY <2>2, <3>1
    <3>2. CASE held'[p] = held[p]
      <4>1. Cardinality(held[p]) <= 1  BY DEF AgentTypeOK
      <4> QED  BY <3>2, <4>1
    <3> QED  BY <2>3, <3>1, <3>2
  <2> QED  BY <1>1, <2>4, <2>5 DEF Read, AgentTypeOK
<1>2. CASE HardDelete
  <2>1. \A q \in Session : held'[q] = {}  BY <1>2 DEF HardDelete
  <2>2. \A q \in Session : Cardinality(held'[q]) <= 1  BY <2>1, FS_EmptySet
  <2>3. held' \in [Session -> SUBSET Reading]  BY <1>2 DEF HardDelete
  <2> QED  BY <1>2, <2>2, <2>3 DEF HardDelete, AgentTypeOK
<1>3. CASE AppealFlag \/ UpholdAppeal \/ Lapse \/ Settle
  BY <1>3 DEF AppealFlag, UpholdAppeal, Lapse, Settle, AgentTypeOK
<1>4. CASE SuspensionPasses  BY <1>4 DEF SuspensionPasses, AgentTypeOK, Row
<1> QED  BY <1>1, <1>2, <1>3, <1>4

LEMMA TypePreserved == ASSUME AgentTypeOK, [AgentNext]_agentVars PROVE AgentTypeOK'
<1>1. CASE UNCHANGED agentVars  BY <1>1 DEF agentVars, AgentTypeOK
<1>2. CASE AgentNext
  BY <1>2, OperatorsTyped, KeysTyped, AdministratorsTyped, RestTyped DEF AgentNext
<1> QED  BY <1>1, <1>2

-----------------------------------------------------------------------------
(* Keys.                                                                   *)

\* Only a rotation adds a key, and only an overturned appeal revives one.
LEMMA AlonePreserved ==
  ASSUME AgentTypeOK, Alone, [AgentNext]_agentVars
  PROVE  Alone'
<1>1. ASSUME NEW s \in Seen, RotateKey(s)  PROVE Alone'
  <2> SUFFICES ASSUME ~ blind', ~ restored' PROVE \A j, k \in live' : j = k
    BY DEF Alone
  <2>1. live \subseteq s.live  BY <1>1 DEF RotateKey
  <2>2. PICK k \in Key : live' = (live \ s.live) \cup {k}
    BY <1>1 DEF RotateKey, Replaced
  <2> QED  BY <2>1, <2>2
<1>2. ASSUME NEW s \in Seen, OverturnAppeal(s)  PROVE Alone'
  BY <1>2 DEF OverturnAppeal, Alone
<1>3. CASE live' \subseteq live /\ UNCHANGED <<blind, restored>>
  BY <1>3 DEF Alone
<1>4. CASE UNCHANGED agentVars  BY <1>3, <1>4 DEF agentVars
<1>5. ASSUME NEW s \in Seen,
             SetOperator(s) \/ ReleaseOperator(s) \/ ClaimAgent(s) \/ RequestClaim(s)
               \/ DeleteAgent(s) \/ ReactivateEntity(s)
      PROVE  Alone'
  BY <1>3, <1>5
  DEF SetOperator, ReleaseOperator, ClaimAgent, RequestClaim, DeleteAgent, ReactivateEntity, keyVars
<1>6. ASSUME NEW s \in Seen,
             SuspendEntity(s) \/ DeactivateEntity(s) \/ ExpireProvisional(s)
               \/ \E k \in Key : RevokeKey(s, k)
      PROVE  Alone'
  BY <1>3, <1>6 DEF SuspendEntity, DeactivateEntity, ExpireProvisional, RevokeAll, RevokeKey
<1>7. CASE (\E q \in Session : Read(q)) \/ AppealFlag \/ UpholdAppeal \/ HardDelete
             \/ Lapse \/ SuspensionPasses \/ Settle
  BY <1>3, <1>7 DEF Read, AppealFlag, UpholdAppeal, HardDelete, Lapse, SuspensionPasses, Settle
<1> QED  BY <1>1, <1>2, <1>4, <1>5, <1>6, <1>7 DEF AgentNext

-----------------------------------------------------------------------------
(* Expiry.                                                                 *)

\* is_active becomes TRUE in a readmission only, which ends the expiry.
LEMMA StaysOutPreserved ==
  ASSUME AgentTypeOK, ExpiredStaysOut, [AgentNext]_agentVars
  PROVE  ExpiredStaysOut'
<1>0. row \in Row  BY DEF AgentTypeOK
<1>1. ASSUME NEW s \in Seen  PROVE s.row \in Row
  BY <1>1, SeenTyped DEF Reading
<1>2. CASE row'.active = row.active /\ ended' = ended
  BY <1>2 DEF ExpiredStaysOut
<1>3. CASE ~ row'.active  BY <1>3 DEF ExpiredStaysOut
<1>4. ASSUME NEW s \in Seen,
             SetOperator(s) \/ ReleaseOperator(s) \/ ClaimAgent(s) \/ RequestClaim(s)
      PROVE  ExpiredStaysOut'
  <2>0. s.row \in Row  BY <1>1
  <2>1. PICK new \in Row : /\ new.active = s.row.active
                           /\ row' \in {Stored(s.row, new),
                                        [Stored(s.row, new) EXCEPT !.operated = TRUE]}
    <3>1. CASE SetOperator(s)  BY <2>0, <3>1 DEF SetOperator
    <3>2. CASE ReleaseOperator(s)
      <4>1. [s.row EXCEPT !.operated = FALSE] \in Row  BY <2>0 DEF Row
      <4>2. [s.row EXCEPT !.operated = FALSE].active = s.row.active  BY <2>0 DEF Row
      <4> QED  BY <3>2, <4>1, <4>2 DEF ReleaseOperator, Save
    <3>3. CASE ClaimAgent(s)
      <4>1. [s.row EXCEPT !.provisional = FALSE] \in Row  BY <2>0 DEF Row
      <4>2. [s.row EXCEPT !.provisional = FALSE].active = s.row.active  BY <2>0 DEF Row
      <4> QED  BY <3>3, <4>1, <4>2 DEF ClaimAgent
    <3>4. CASE RequestClaim(s)
      <4>1. [s.row EXCEPT !.operated = TRUE, !.provisional = FALSE] \in Row
        BY <2>0 DEF Row
      <4>2. [s.row EXCEPT !.operated = TRUE, !.provisional = FALSE].active = s.row.active
        BY <2>0 DEF Row
      <4> QED  BY <3>4, <4>1, <4>2 DEF RequestClaim, Save
    <3> QED  BY <1>4, <3>1, <3>2, <3>3, <3>4
  <2>2. Stored(s.row, new) \in Row /\ Stored(s.row, new).active = row.active
    BY <1>0, <2>0, <2>1, StoredTyped
  <2>3. row'.active = row.active  BY <2>1, <2>2 DEF Row
  <2>4. ended' = ended
    BY <1>4 DEF SetOperator, ReleaseOperator, ClaimAgent, RequestClaim
  <2> QED  BY <1>2, <2>3, <2>4
<1>5. ASSUME NEW s \in Seen,
             DeleteAgent(s) \/ SuspendEntity(s) \/ DeactivateEntity(s)
      PROVE  ExpiredStaysOut'
  <2>0. s.row \in Row  BY <1>1
  <2>1. /\ Stored(s.row, Off(s.row)) \in Row
        /\ Stored(s.row, Off(s.row)).active = (IF s.row.active THEN FALSE ELSE row.active)
    <3>1. /\ Off(s.row) \in Row
          /\ Off(s.row).active = FALSE
          /\ s.row.active \in BOOLEAN
      BY <2>0, OffTyped DEF Row
    <3>2. CASE s.row.active = TRUE  BY <1>0, <2>0, <3>1, <3>2, StoredTyped
    <3>3. CASE s.row.active = FALSE
      <4>1. Off(s.row).active = s.row.active  BY <3>1, <3>3
      <4>2. Stored(s.row, Off(s.row)) \in Row /\ Stored(s.row, Off(s.row)).active = row.active
        BY <1>0, <2>0, <3>1, <4>1, StoredTyped
      <4> QED  BY <3>3, <4>2
    <3> QED  BY <3>1, <3>2, <3>3
  <2>2. row'.active = (IF s.row.active THEN FALSE ELSE row.active)
    BY <1>5, <2>1 DEF DeleteAgent, SuspendEntity, DeactivateEntity, Save, Row
  <2>3. ended' = ended  BY <1>5 DEF DeleteAgent, SuspendEntity, DeactivateEntity
  <2> QED  BY <1>2, <1>3, <2>2, <2>3
<1>6. ASSUME NEW s \in Seen, ExpireProvisional(s)  PROVE ExpiredStaysOut'
  <2>0. s.row \in Row /\ s.row.active  BY <1>1, <1>6 DEF ExpireProvisional
  <2>1. ~ Stored(s.row, Off(s.row)).active
    BY <1>0, <2>0, OffTyped, StoredTyped DEF Row
  <2> QED  BY <1>3, <1>6, <2>1 DEF ExpireProvisional, Save
<1>7. ASSUME NEW s \in Seen, NEW new \in Row, new.active, Readmit(s.row, new)
      PROVE  ExpiredStaysOut'
  <2>0. s.row \in Row  BY <1>1
  <2>1. CASE s.row.active
    <3>1. row'.active = row.active
      BY <1>0, <1>7, <2>0, <2>1, StoredTyped DEF Readmit, Save
    <3> QED  BY <1>2, <1>7, <2>1, <3>1 DEF Readmit, ExpiredStaysOut
  <2>2. CASE ~ s.row.active
    BY <1>7, <2>2 DEF Readmit, ExpiredStaysOut
  <2> QED  BY <2>1, <2>2
<1>8. ASSUME NEW s \in Seen, ReactivateEntity(s) \/ OverturnAppeal(s)
      PROVE  ExpiredStaysOut'
  <2>0. s.row \in Row  BY <1>1
  <2>1. CASE ReactivateEntity(s)
    <3> DEFINE new == [s.row EXCEPT !.active = TRUE]
    <3>1. new \in Row /\ new.active  BY <2>0 DEF Row
    <3>2. Readmit(s.row, new)  BY <2>1 DEF ReactivateEntity
    <3> HIDE DEF new
    <3> QED  BY <1>7, <3>1, <3>2
  <2>2. CASE OverturnAppeal(s)
    <3> DEFINE new == [s.row EXCEPT !.active = TRUE, !.suspension = "none"]
    <3>1. new \in Row /\ new.active  BY <2>0 DEF Row
    <3>2. Readmit(s.row, new)  BY <2>2 DEF OverturnAppeal
    <3> HIDE DEF new
    <3> QED  BY <1>7, <3>1, <3>2
  <2> QED  BY <1>8, <2>1, <2>2
<1>9. ASSUME NEW s \in Seen, RotateKey(s) \/ \E k \in Key : RevokeKey(s, k)
      PROVE  ExpiredStaysOut'
  BY <1>2, <1>9 DEF RotateKey, RevokeKey
<1>10. CASE \/ \E q \in Session : Read(q)
            \/ AppealFlag \/ UpholdAppeal \/ HardDelete \/ Lapse \/ Settle
            \/ UNCHANGED agentVars
  BY <1>2, <1>10 DEF Read, AppealFlag, UpholdAppeal, HardDelete, Lapse, Settle, agentVars
<1>11. CASE SuspensionPasses
  BY <1>0, <1>2, <1>11 DEF SuspensionPasses, Row
<1> QED  BY <1>4, <1>5, <1>6, <1>8, <1>9, <1>10, <1>11 DEF AgentNext

-----------------------------------------------------------------------------

LEMMA AgentInitially == AgentInit => AInv
<1> SUFFICES ASSUME AgentInit PROVE AInv
  OBVIOUS
<1>1. row \in Row  BY DEF AgentInit, Registered, Row
<1>2. \A q \in Session : Cardinality(held[q]) <= 1
  BY FS_EmptySet DEF AgentInit
<1>3. AgentTypeOK  BY <1>1, <1>2 DEF AgentInit, AgentTypeOK
<1> QED  BY <1>3 DEF AgentInit, AInv, Alone, ExpiredStaysOut

THEOREM AgentInvariance == AgentSpec => []AInv
<1>1. AInv /\ [AgentNext]_agentVars => AInv'
  BY TypePreserved, AlonePreserved, StaysOutPreserved DEF AInv
<1> QED  BY <1>1, AgentInitially, PTL DEF AgentSpec

\* The row, the keys, the flag and what sessions hold keep their types.
THEOREM AgentTypeCorrect == AgentSpec => []AgentTypeOK
  BY AgentInvariance, PTL DEF AInv

\* One live key at most, for any supply of keys and any overlaps, unless two
\* rotations missed each other's key or an appeal was overturned.
THEOREM OneKeyLives == AgentSpec => []OneLiveKey
<1>1. AInv => OneLiveKey
  <2> SUFFICES ASSUME AInv, ~ blind, ~ restored PROVE Cardinality(live) <= 1
    BY DEF OneLiveKey
  <2>1. CASE live = {}  BY <2>1, FS_EmptySet
  <2>2. ASSUME NEW k \in live  PROVE Cardinality(live) <= 1
    <3>1. live = {k}  BY <2>2 DEF AInv, Alone
    <3>2. Cardinality({k}) = 1  BY FS_Singleton
    <3> QED  BY <3>1, <3>2
  <2> QED  BY <2>1, <2>2
<1> QED  BY <1>1, AgentInvariance, PTL

\* No write of a stale reading revives an agent that the expiry job switched off.
THEOREM ExpiryHolds == AgentSpec => []ExpiredStaysOut
  BY AgentInvariance, PTL DEF AInv

=============================================================================
