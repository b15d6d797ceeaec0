------------------------ MODULE EntityDocumentProofs ------------------------
(* Theorems about EntityDocument, for any entities, requests and amounts.  *)
(* What handlers read, hold and write are documents whose stake is covered,*)
(* so that no order of overwriting them uncovers a stake.  The sum of all  *)
(* balances changes by what one commit changes, which is nothing but the   *)
(* reward as long as no two requests hold one document.                    *)
EXTENDS EntityDocument, FiniteSetTheorems, WellFoundedInduction, TLAPS

USE AmountsAssumption

\* Documents whose stake is covered by their balance.
SoundDoc ==
  {d \in [keys : SUBSET Key, balance : Nat, staked : Nat] : d.staked <= d.balance}

SoundSession ==
  [state : {"idle", "transfer", "ready"}, reward : Nat,
   held : SUBSET Entity, old : [Entity -> SoundDoc], new : [Entity -> SoundDoc]]

IInv ==
  /\ doc \in [Entity -> SoundDoc]
  /\ session \in [Request -> SoundSession]
  /\ granted \in Nat
  /\ regular \in BOOLEAN

LEMMA SoundFields ==
  ASSUME NEW d \in SoundDoc
  PROVE  /\ d \in [keys : SUBSET Key, balance : Nat, staked : Nat]
         /\ d.keys \in SUBSET Key /\ d.balance \in Nat /\ d.staked \in Nat
         /\ d.staked <= d.balance
BY DEF SoundDoc

LEMMA MakeSound ==
  ASSUME NEW keys \in SUBSET Key, NEW balance \in Nat, NEW staked \in Nat, staked <= balance
  PROVE  [keys |-> keys, balance |-> balance, staked |-> staked] \in SoundDoc
BY DEF SoundDoc

LEMMA EmptySound == Empty \in SoundDoc
BY MakeSound DEF Empty

LEMMA ClosedSound == Closed \in SoundSession
BY EmptySound DEF Closed, SoundSession

LEMMA WithTokensSound ==
  ASSUME NEW d \in SoundDoc, NEW balance \in Nat, NEW staked \in Nat, staked <= balance
  PROVE  WithTokens(d, balance, staked) \in SoundDoc
<1>1. d.keys \cup {"token_data"} \in SUBSET Key  BY SoundFields DEF Key
<1> QED  BY <1>1, MakeSound DEF WithTokens

\* Keys come and go beside the tokens.
LEMMA KeysSound ==
  ASSUME NEW d \in SoundDoc, NEW keys \in SUBSET Key
  PROVE  [d EXCEPT !.keys = keys] \in SoundDoc
<1>1. [d EXCEPT !.keys = keys] = [keys |-> keys, balance |-> d.balance, staked |-> d.staked]
  BY SoundFields
<1> QED  BY <1>1, MakeSound, SoundFields

LEMMA CreditedSound ==
  ASSUME NEW d \in SoundDoc, NEW n \in Amount
  PROVE  Credited(d, n) \in SoundDoc
<1>1. d.balance + n \in Nat /\ d.staked <= d.balance + n /\ d.staked \in Nat
  BY SoundFields
<1> QED  BY <1>1, WithTokensSound DEF Credited

\* A transfer is paid from what is not staked.
LEMMA DebitedSound ==
  ASSUME NEW d \in SoundDoc, NEW n \in Amount, n <= Available(d)
  PROVE  Debited(d, n) \in SoundDoc
<1>0. d.balance \in Nat /\ d.staked \in Nat /\ n \in Nat /\ n <= d.balance - d.staked
  BY SoundFields DEF Available
<1>1. d.balance - n \in Nat /\ d.staked <= d.balance - n /\ d.staked \in Nat
  BY <1>0
<1> QED  BY <1>1, WithTokensSound DEF Debited

LEMMA LoadedSound ==
  ASSUME NEW p \in Request, NEW e \in Entity, NEW old \in SoundDoc, NEW new \in SoundDoc
  PROVE  Loaded(p, e, old, new) \in SoundSession
<1>1. Closed.old \in [Entity -> SoundDoc] /\ Closed.new \in [Entity -> SoundDoc]
  BY EmptySound DEF Closed
<1> QED  BY <1>1 DEF Loaded, SoundSession

LEMMA FieldsSound ==
  ASSUME NEW c \in SoundSession, NEW n \in Nat
  PROVE  /\ [c EXCEPT !.state = "transfer"] \in SoundSession
         /\ [c EXCEPT !.reward = n] \in SoundSession
BY DEF SoundSession

\* A handler that assigns a sound document, whatever it compares it with.
LEMMA AssignPreserves ==
  ASSUME IInv, NEW p \in Request, NEW c \in SoundSession,
         session' = [session EXCEPT ![p] = c], doc' = doc, granted' \in Nat,
         regular' \in BOOLEAN
  PROVE  IInv'
BY DEF IInv

LEMMA HandlePreserves ==
  ASSUME IInv, NEW p \in Request, NEW e \in Entity, NEW new \in SoundDoc,
         Handle(p, e, new)
  PROVE  IInv'
<1>1. doc[e] \in SoundDoc  BY DEF IInv
<1>2. Loaded(p, e, doc[e], new) \in SoundSession  BY <1>1, LoadedSound
<1> QED  BY <1>2, AssignPreserves DEF Handle, IInv

LEMMA TransferPreserves ==
  ASSUME IInv, NEW p \in Request, NEW r \in Entity, NEW n \in Amount, Transfer(p, r, n)
  PROVE  IInv'
<1>1. session[p] \in SoundSession /\ doc[r] \in SoundDoc  BY DEF IInv
<1>2. PICK e \in session[p].held :
        /\ n <= Available(session[p].old[e])
        /\ session' = [session EXCEPT ![p] = Paid(session[p], e, r, n)]
  BY DEF Transfer
<1>3. e \in Entity /\ session[p].old[e] \in SoundDoc  BY <1>1 DEF SoundSession
<1>4. Debited(session[p].old[e], n) \in SoundDoc  BY <1>2, <1>3, DebitedSound
<1>5. Credited(doc[r], n) \in SoundDoc  BY <1>1, CreditedSound
<1> DEFINE o == [session[p].old EXCEPT ![r] = doc[r]]
           w == [session[p].new EXCEPT ![e] = Debited(session[p].old[e], n),
                                       ![r] = Credited(doc[r], n)]
<1>6. Paid(session[p], e, r, n) \in SoundSession
  <2>1. o \in [Entity -> SoundDoc] /\ w \in [Entity -> SoundDoc]
    BY <1>1, <1>3, <1>4, <1>5 DEF SoundSession
  <2>2. session[p].held \cup {r} \in SUBSET Entity  BY <1>1 DEF SoundSession
  <2>3. Paid(session[p], e, r, n)
          = [session[p] EXCEPT !.state = "ready", !.held = session[p].held \cup {r},
                               !.old = o, !.new = w]
    BY DEF Paid
  <2> HIDE DEF o, w
  <2>4. [session[p] EXCEPT !.state = "ready", !.held = session[p].held \cup {r},
                           !.old = o, !.new = w] \in SoundSession
    BY <1>1, <2>1, <2>2 DEF SoundSession
  <2> QED  BY <2>3, <2>4
<1> QED  BY <1>2, <1>6, AssignPreserves DEF Transfer, IInv

LEMMA HandlerPreserves ==
  ASSUME IInv, NEW p \in Request, NEW e \in Entity, HandlerStep(p, e)
  PROVE  IInv'
<1>0. doc[e] \in SoundDoc  BY DEF IInv
<1>1. CASE StartTransfer(p, e)
  <2>1. [Loaded(p, e, doc[e], doc[e]) EXCEPT !.state = "transfer"] \in SoundSession
    BY <1>0, LoadedSound, FieldsSound
  <2> QED  BY <1>1, <2>1, AssignPreserves DEF StartTransfer, IInv
<1>2. ASSUME NEW n \in Amount, StakeTokens(p, e, n) PROVE IInv'
  <2>0. /\ doc[e].staked \in Nat /\ doc[e].balance \in Nat /\ n \in Nat
        /\ n <= doc[e].balance - doc[e].staked
    BY <1>0, <1>2, SoundFields DEF StakeTokens, Available
  <2>1. doc[e].staked + n \in Nat /\ doc[e].staked + n <= doc[e].balance /\ doc[e].balance \in Nat
    BY <2>0
  <2>2. WithTokens(doc[e], doc[e].balance, doc[e].staked + n) \in SoundDoc
    BY <1>0, <2>1, WithTokensSound
  <2> QED  BY <1>2, <2>2, HandlePreserves DEF StakeTokens
<1>3. ASSUME NEW n \in Amount, UnstakeTokens(p, e, n) PROVE IInv'
  <2>0. /\ doc[e].staked \in Nat /\ doc[e].balance \in Nat /\ n \in Nat
        /\ n <= doc[e].staked /\ doc[e].staked <= doc[e].balance
    BY <1>0, <1>3, SoundFields DEF UnstakeTokens, MayUnstake
  <2>1. doc[e].staked - n \in Nat /\ doc[e].staked - n <= doc[e].balance /\ doc[e].balance \in Nat
    BY <2>0
  <2>2. WithTokens(doc[e], doc[e].balance, doc[e].staked - n) \in SoundDoc
    BY <1>0, <2>1, WithTokensSound
  <2> QED  BY <1>3, <2>2, HandlePreserves DEF UnstakeTokens
<1>4. ASSUME NEW n \in Amount, ClaimRewards(p, e, n) PROVE IInv'
  <2>0. n \in Nat  OBVIOUS
  <2>1. [Loaded(p, e, doc[e], Credited(doc[e], n)) EXCEPT !.reward = n] \in SoundSession
    BY <1>0, <2>0, CreditedSound, LoadedSound, FieldsSound
  <2> QED  BY <1>4, <2>1, AssignPreserves DEF ClaimRewards, IInv
<1>5. ASSUME NEW n \in Amount, Transfer(p, e, n) PROVE IInv'
  BY <1>5, TransferPreserves
<1>6. ASSUME NEW k \in CopiedKey, SaveOnCopy(p, e, k) \/ RemoveOnCopy(p, e, k) PROVE IInv'
  <2>1. doc[e].keys \cup {k} \in SUBSET Key /\ doc[e].keys \ {k} \in SUBSET Key
    BY <1>0, SoundFields DEF Key
  <2>2. /\ [doc[e] EXCEPT !.keys = @ \cup {k}] \in SoundDoc
        /\ [doc[e] EXCEPT !.keys = @ \ {k}] \in SoundDoc
    BY <1>0, <2>1, KeysSound
  <2> QED  BY <1>6, <2>2, HandlePreserves DEF SaveOnCopy, RemoveOnCopy
<1>7. ASSUME NEW k \in AliasedKey, SaveInPlace(p, e, k) PROVE IInv'
  <2> DEFINE new == [doc[e] EXCEPT !.keys = @ \cup {k}]
  <2>1. doc[e].keys \cup {k} \in SUBSET Key  BY <1>0, SoundFields DEF Key
  <2>2. new \in SoundDoc  BY <1>0, <2>1, KeysSound
  <2>3. InPlace(doc[e], new) \in SoundDoc  BY <1>0, <2>2 DEF InPlace
  <2> HIDE DEF new
  <2>4. Loaded(p, e, InPlace(doc[e], new), new) \in SoundSession
    BY <2>2, <2>3, LoadedSound
  <2>5. session' = [session EXCEPT ![p] = Loaded(p, e, InPlace(doc[e], new), new)]
    BY <1>7 DEF SaveInPlace, new
  <2> QED  BY <1>7, <2>4, <2>5, AssignPreserves DEF SaveInPlace, IInv
<1>8. CASE ResetOnboarding(p, e)
  <2>1. Loaded(p, e, doc[e], Empty) \in SoundSession  BY <1>0, EmptySound, LoadedSound
  <2> QED  BY <1>8, <2>1, AssignPreserves DEF ResetOnboarding, IInv
<1> QED  BY <1>1, <1>2, <1>3, <1>4, <1>5, <1>6, <1>7, <1>8 DEF HandlerStep

LEMMA CommitPreserves ==
  ASSUME IInv, NEW p \in Request, Commit(p)
  PROVE  IInv'
<1>1. session[p] \in SoundSession  BY DEF IInv
<1>2. \A e \in Entity : Written(p, e) \in SoundDoc
  BY <1>1 DEF Written, SoundSession, IInv
<1>3. doc' \in [Entity -> SoundDoc]  BY <1>2 DEF Commit, IInv
<1>4. session' \in [Request -> SoundSession]  BY ClosedSound DEF Commit, IInv
<1>5. granted' \in Nat  BY <1>1 DEF Commit, IInv, SoundSession
<1> QED  BY <1>3, <1>4, <1>5 DEF Commit, IInv

LEMMA Inductive == ASSUME IInv, [Next]_vars PROVE IInv'
<1>1. ASSUME NEW p \in Request, NEW e \in Entity, HandlerStep(p, e) PROVE IInv'
  BY <1>1, HandlerPreserves
<1>2. ASSUME NEW p \in Request, Commit(p) PROVE IInv'
  BY <1>2, CommitPreserves
<1>3. ASSUME NEW p \in Request, Rollback(p) PROVE IInv'
  BY <1>3, ClosedSound, AssignPreserves DEF Rollback, IInv
<1>4. CASE UNCHANGED vars  BY <1>4 DEF vars, IInv
<1> QED  BY <1>1, <1>2, <1>3, <1>4 DEF Next

LEMMA Initially == Init => IInv
BY EmptySound, ClosedSound DEF Init, IInv

LEMMA IInvImplies == IInv => TypeOK /\ NeverOverdrawn
<1> SUFFICES ASSUME IInv PROVE TypeOK /\ NeverOverdrawn
  OBVIOUS
<1>1. NeverOverdrawn  BY SoundFields DEF IInv, NeverOverdrawn
<1>2. doc \in [Entity -> [keys : SUBSET Key, balance : Nat, staked : Nat]]
  BY SoundFields DEF IInv
<1>3. SoundDoc \subseteq Document
  BY DEF SoundDoc, Document
<1>4. SoundSession \subseteq SessionState
  BY <1>3 DEF SoundSession, SessionState
<1>5. session \in [Request -> SessionState]  BY <1>4 DEF IInv
<1> QED  BY <1>1, <1>2, <1>5 DEF IInv, TypeOK

THEOREM AlwaysSound == Spec => []IInv
BY Initially, Inductive, PTL DEF Spec

-----------------------------------------------------------------------------

\* Documents and sessions keep their types.
THEOREM TypeCorrect == Spec => []TypeOK
BY AlwaysSound, IInvImplies, PTL

\* No interleaving of requests that overwrite each other's documents leaves a
\* stake above its balance, or either negative.
THEOREM StakesAreCovered == Spec => []NeverOverdrawn
BY AlwaysSound, IInvImplies, PTL

-----------------------------------------------------------------------------
(* Sums over the entities.  A sum is defined over all subsets of a set, by *)
(* taking one element off; a claim about it that fails fails for a smallest*)
(* subset.                                                                 *)

\* Among the subsets of a finite set that are in B there is a smallest one:
\* what holds of a set if it holds of its proper subsets holds of all.
LEMMA Minimal ==
  ASSUME NEW S, IsFiniteSet(S), NEW B, B \subseteq SUBSET S, B # {}
  PROVE  \E T \in B : \A U \in B : ~ (U \subseteq T /\ U # T)
<1>1. IsWellFoundedOn(StrictSubsetOrdering(S), SUBSET S)
  BY FS_StrictSubsetOrderingWellFounded, FS_FiniteSubsetsOfFinite
<1>2. PICK T \in B : \A U \in B : ~ (<<U, T>> \in StrictSubsetOrdering(S))
  BY <1>1, WFMin
<1> QED  BY <1>2 DEF StrictSubsetOrdering

Pick(s) == CHOOSE x \in s : TRUE

\* g adds up the balances of d over the subsets of T.
Adds(d, T, g) ==
  g = [s \in SUBSET T |-> IF s = {} THEN 0 ELSE d[Pick(s)].balance + g[s \ {Pick(s)}]]

LEMMA TotalIs ==
  ASSUME DOMAIN doc = Entity
  PROVE  TotalBalance = (CHOOSE g : Adds(doc, Entity, g))[Entity]
BY DEF TotalBalance, FoldFunction, FoldFunctionOnSet, MapThenFoldSet, Adds, Pick

LEMMA TotalIsNext ==
  ASSUME DOMAIN doc' = Entity
  PROVE  TotalBalance' = (CHOOSE g : Adds(doc', Entity, g))[Entity]
BY DEF TotalBalance, FoldFunction, FoldFunctionOnSet, MapThenFoldSet, Adds, Pick

LEMMA PickIn == \A s : s # {} => Pick(s) \in s
BY DEF Pick

LEMMA AddsTo ==
  ASSUME NEW d, NEW T, NEW g, Adds(d, T, g), NEW s \in SUBSET T
  PROVE  g[s] = IF s = {} THEN 0 ELSE d[Pick(s)].balance + g[s \ {Pick(s)}]
<1> DEFINE h == [r \in SUBSET T |-> IF r = {} THEN 0 ELSE d[Pick(r)].balance + g[r \ {Pick(r)}]]
<1>1. g = h  BY Zenon DEF Adds
<1>2. h[s] = IF s = {} THEN 0 ELSE d[Pick(s)].balance + g[s \ {Pick(s)}]
  OBVIOUS
<1> QED  BY <1>1, <1>2

\* Sums over different sets agree on what the sets have in common.
LEMMA SumsAgree ==
  ASSUME NEW d, NEW T \in SUBSET Entity, NEW U \in SUBSET Entity,
         NEW g, NEW h, Adds(d, T, g), Adds(d, U, h), NEW r \in SUBSET (T \cap U)
  PROVE  g[r] = h[r]
<1> DEFINE B == {s \in SUBSET (T \cap U) : g[s] # h[s]}
<1> SUFFICES ASSUME B # {} PROVE FALSE
  OBVIOUS
<1>1. IsFiniteSet(T \cap U)
  BY FiniteAssumption, FS_Subset
<1>2. B \subseteq SUBSET (T \cap U)
  OBVIOUS
<1>3. \A s : s \in B <=> (s \in SUBSET (T \cap U) /\ g[s] # h[s])
  OBVIOUS
<1> HIDE DEF B
<1>4. PICK s \in B : \A t \in B : ~ (t \subseteq s /\ t # s)
  BY <1>1, <1>2, Minimal
<1>5. s \in SUBSET T /\ s \in SUBSET U /\ g[s] # h[s]
  BY <1>3, <1>4
<1>6. g[s] = IF s = {} THEN 0 ELSE d[Pick(s)].balance + g[s \ {Pick(s)}]
  <2>1. s \in SUBSET T  BY <1>5
  <2> QED  BY ONLY <2>1, Adds(d, T, g), AddsTo
<1>7. h[s] = IF s = {} THEN 0 ELSE d[Pick(s)].balance + h[s \ {Pick(s)}]
  <2>1. s \in SUBSET U  BY <1>5
  <2> QED  BY ONLY <2>1, Adds(d, U, h), AddsTo
<1>8. s # {}  BY <1>5, <1>6, <1>7
<1>9. s \ {Pick(s)} \subseteq s /\ s \ {Pick(s)} # s  BY <1>8, PickIn
<1>10. s \ {Pick(s)} \in SUBSET (T \cap U)  BY <1>5
<1>11. g[s \ {Pick(s)}] = h[s \ {Pick(s)}]  BY <1>3, <1>4, <1>9, <1>10
<1> QED  BY <1>5, <1>6, <1>7, <1>8, <1>11

\* There is such a sum: from those over all smaller sets one is made over a set.
LEMMA SumExists ==
  ASSUME NEW d
  PROVE  \E g : Adds(d, Entity, g)
<1> DEFINE B == {T \in SUBSET Entity : ~ \E g : Adds(d, T, g)}
<1> SUFFICES ASSUME B # {} PROVE FALSE
  OBVIOUS
<1>1. B \subseteq SUBSET Entity
  OBVIOUS
<1>2. \A T : T \in B <=> (T \in SUBSET Entity /\ ~ \E g : Adds(d, T, g))
  OBVIOUS
<1> HIDE DEF B
<1>3. PICK T \in B : \A U \in B : ~ (U \subseteq T /\ U # T)
  BY <1>1, FiniteAssumption, Minimal
<1> DEFINE H(U) == CHOOSE g : Adds(d, U, g)
           V(s) == IF s = {} THEN 0 ELSE d[Pick(s)].balance + H(s \ {Pick(s)})[s \ {Pick(s)}]
           g == [s \in SUBSET T |-> V(s)]
<1>4. T \in SUBSET Entity /\ ~ \E f : Adds(d, T, f)
  BY <1>2, <1>3
<1>5. ASSUME NEW U \in SUBSET T, U # T PROVE Adds(d, U, H(U))
  <2>1. \E f : Adds(d, U, f)
    BY <1>2, <1>3, <1>4, <1>5, Zenon
  <2> QED  BY <2>1, Zenon
<1>6. \A s \in SUBSET T : g[s] = V(s)
  OBVIOUS
<1>7. \A s : V(s) = IF s = {} THEN 0 ELSE d[Pick(s)].balance + H(s \ {Pick(s)})[s \ {Pick(s)}]
  OBVIOUS
<1> HIDE DEF H, V
<1>8. ASSUME NEW s \in SUBSET T, s # {} PROVE g[s \ {Pick(s)}] = H(s \ {Pick(s)})[s \ {Pick(s)}]
  <2> DEFINE r == s \ {Pick(s)}
             q == r \ {Pick(r)}
  <2>1. r \in SUBSET T /\ r # T /\ r \in SUBSET Entity
    BY <1>4, <1>8, PickIn
  <2>2. g[r] = V(r)  BY <2>1, <1>6
  <2>3. V(r) = IF r = {} THEN 0 ELSE d[Pick(r)].balance + H(q)[q]
    BY <1>7
  <2> HIDE DEF r, g
  <2>4. Adds(d, r, H(r))  BY <2>1, <1>5
  <2>5. H(r)[r] = IF r = {} THEN 0 ELSE d[Pick(r)].balance + H(r)[r \ {Pick(r)}]
    <3>1. r \in SUBSET r  OBVIOUS
    <3> QED  BY <2>1, <2>4, <3>1, AddsTo
  <2>6. g[r] = H(r)[r]
    <3>1. CASE r = {}
      BY <3>1, <2>2, <2>3, <2>5
    <3>2. CASE r # {}
      <4>1. q \in SUBSET T /\ q # T /\ q \in SUBSET Entity /\ q \in SUBSET (r \cap q)
        BY <2>1, <3>2, PickIn
      <4>2. Adds(d, q, H(q))  BY <4>1, <1>5
      <4> HIDE DEF q
      <4>3. H(r)[q] = H(q)[q]  BY <2>1, <2>4, <4>1, <4>2, SumsAgree
      <4>4. q = r \ {Pick(r)}  BY DEF q
      <4> QED  BY <4>3, <4>4, <2>2, <2>3, <2>5, <3>2
    <3> QED  BY <3>1, <3>2
  <2> QED  BY <2>6 DEF r
<1>9. Adds(d, T, g)
  <2>1. ASSUME NEW s \in SUBSET T
        PROVE  V(s) = IF s = {} THEN 0 ELSE d[Pick(s)].balance + g[s \ {Pick(s)}]
    <3> HIDE DEF g
    <3> QED  BY <1>7, <1>8
  <2>2. g = [s \in SUBSET T |-> V(s)]  BY DEF g
  <2> HIDE DEF g
  <2>3. g = [s \in SUBSET T |-> IF s = {} THEN 0 ELSE d[Pick(s)].balance + g[s \ {Pick(s)}]]
    BY <2>1, <2>2, Zenon
  <2> QED  BY <2>3 DEF Adds
<1> QED  BY <1>4, <1>9

\* The sum of the balances of d over the entities in s.
SumOver(d, s) == (CHOOSE g : Adds(d, Entity, g))[s]

LEMMA SumStep ==
  ASSUME NEW d, NEW s \in SUBSET Entity
  PROVE  SumOver(d, s)
           = IF s = {} THEN 0 ELSE d[Pick(s)].balance + SumOver(d, s \ {Pick(s)})
<1> DEFINE g == CHOOSE f : Adds(d, Entity, f)
<1>1. Adds(d, Entity, g)  BY SumExists
<1> HIDE DEF g
<1>2. g[s] = IF s = {} THEN 0 ELSE d[Pick(s)].balance + g[s \ {Pick(s)}]
  BY <1>1, AddsTo
<1> QED  BY <1>2 DEF SumOver, g

LEMMA SumEmpty == \A d : SumOver(d, {}) = 0
BY SumStep

\* What holds of a set whenever it holds of the set without one element.
LEMMA Smaller ==
  ASSUME NEW B, B \subseteq SUBSET Entity, {} \notin B,
         \A s \in B : s # {} => s \ {Pick(s)} \in B
  PROVE  B = {}
<1> SUFFICES ASSUME B # {} PROVE FALSE
  OBVIOUS
<1>1. PICK s \in B : \A t \in B : ~ (t \subseteq s /\ t # s)
  BY FiniteAssumption, Minimal
<1>2. s # {} /\ s \ {Pick(s)} \in B
  BY <1>1
<1>3. s \ {Pick(s)} \subseteq s /\ s \ {Pick(s)} # s
  BY <1>2, PickIn
<1> QED  BY <1>1, <1>2, <1>3

LEMMA SumType ==
  ASSUME NEW d \in [Entity -> SoundDoc], NEW r \in SUBSET Entity
  PROVE  SumOver(d, r) \in Int
<1> DEFINE B == {s \in SUBSET Entity : SumOver(d, s) \notin Int}
<1>1. B \subseteq SUBSET Entity
  OBVIOUS
<1>2. \A s : s \in B <=> (s \in SUBSET Entity /\ SumOver(d, s) \notin Int)
  OBVIOUS
<1> HIDE DEF B
<1>3. {} \notin B
  BY <1>2, SumEmpty
<1>4. ASSUME NEW s \in B, s # {} PROVE s \ {Pick(s)} \in B
  <2>1. Pick(s) \in Entity /\ s \ {Pick(s)} \in SUBSET Entity
    BY <1>1, <1>4, PickIn
  <2>2. d[Pick(s)].balance \in Int
    BY <2>1, SoundFields
  <2>3. SumOver(d, s) = d[Pick(s)].balance + SumOver(d, s \ {Pick(s)})
    BY <1>1, <1>4, SumStep
  <2> QED  BY <1>2, <2>1, <2>2, <2>3
<1> QED  BY <1>1, <1>2, <1>3, <1>4, Smaller

\* Another balance of one entity changes the sums over it, by as much.
LEMMA SumDiffers ==
  ASSUME NEW c \in [Entity -> SoundDoc], NEW d \in [Entity -> SoundDoc], NEW e \in Entity,
         \A x \in Entity \ {e} : d[x].balance = c[x].balance, NEW r \in SUBSET Entity
  PROVE  SumOver(d, r) = SumOver(c, r) + IF e \in r THEN d[e].balance - c[e].balance ELSE 0
<1> DEFINE Change(s) == IF e \in s THEN d[e].balance - c[e].balance ELSE 0
           B == {s \in SUBSET Entity : SumOver(d, s) # SumOver(c, s) + Change(s)}
<1>1. B \subseteq SUBSET Entity
  OBVIOUS
<1>2. \A s : s \in B <=> (s \in SUBSET Entity /\ SumOver(d, s) # SumOver(c, s) + Change(s))
  OBVIOUS
<1>0. d[e].balance \in Int /\ c[e].balance \in Int
  BY SoundFields
<1> HIDE DEF B
<1>3. {} \notin B
  BY <1>2, SumEmpty
<1>4. ASSUME NEW s \in B, s # {} PROVE s \ {Pick(s)} \in B
  <2> DEFINE x == Pick(s)
             t == s \ {x}
  <2>1. x \in s /\ x \in Entity /\ s \in SUBSET Entity /\ t \in SUBSET Entity
    BY <1>1, <1>4, PickIn
  <2>2. d[x].balance \in Int /\ c[x].balance \in Int
    BY <2>1, SoundFields
  <2>3. SumOver(d, s) = d[x].balance + SumOver(d, t) /\ SumOver(c, s) = c[x].balance + SumOver(c, t)
    BY <2>1, <1>4, SumStep
  <2>4. SumOver(d, t) \in Int /\ SumOver(c, t) \in Int
    BY <2>1, SumType
  <2>5. Change(s) = (d[x].balance - c[x].balance) + Change(t)
    BY <2>1, <2>2, <1>0
  <2>6. Change(s) \in Int /\ Change(t) \in Int
    BY <1>0
  <2>7. SumOver(d, s) # SumOver(c, s) + Change(s)
    BY <1>2
  <2> HIDE DEF Change, x, t
  <2>8. SumOver(d, t) # SumOver(c, t) + Change(t)
    BY <2>2, <2>3, <2>4, <2>5, <2>6, <2>7
  <2> QED  BY <1>2, <2>1, <2>8 DEF x, t
<1>5. r \notin B  BY <1>1, <1>3, <1>4, Smaller
<1> QED  BY <1>2, <1>5

\* Everybody's initial balance.
LEMMA SumInitial ==
  ASSUME NEW d, \A e \in Entity : d[e].balance = INITIAL_BALANCE, NEW r \in SUBSET Entity
  PROVE  SumOver(d, r) = Cardinality(r) * INITIAL_BALANCE
<1> DEFINE B == {s \in SUBSET Entity : SumOver(d, s) # Cardinality(s) * INITIAL_BALANCE}
<1>1. B \subseteq SUBSET Entity
  OBVIOUS
<1>2. \A s : s \in B <=> (s \in SUBSET Entity /\ SumOver(d, s) # Cardinality(s) * INITIAL_BALANCE)
  OBVIOUS
<1> HIDE DEF B
<1>3. {} \notin B
  <2>1. Cardinality({}) = 0  BY FS_EmptySet
  <2>2. 0 * INITIAL_BALANCE = 0  OBVIOUS
  <2>3. SumOver(d, {}) = 0  BY SumEmpty
  <2> QED  BY <1>2, <2>1, <2>2, <2>3
<1>4. ASSUME NEW s \in B, s # {} PROVE s \ {Pick(s)} \in B
  <2> DEFINE x == Pick(s)
             t == s \ {x}
  <2>1. x \in s /\ x \in Entity /\ s \in SUBSET Entity /\ t \in SUBSET Entity
    BY <1>1, <1>4, PickIn
  <2>2. IsFiniteSet(s) /\ IsFiniteSet(t)
    BY <2>1, FiniteAssumption, FS_Subset
  <2>3. Cardinality(t) = Cardinality(s) - 1 /\ Cardinality(s) \in Nat /\ Cardinality(t) \in Nat
    BY <2>1, <2>2, FS_RemoveElement, FS_CardinalityType
  <2>4. SumOver(d, s) = INITIAL_BALANCE + SumOver(d, t)
    BY <2>1, <1>4, SumStep
  <2>5. Cardinality(s) * INITIAL_BALANCE = Cardinality(t) * INITIAL_BALANCE + INITIAL_BALANCE
    <3> SUFFICES ASSUME NEW m \in Nat, NEW n \in Nat, m = n - 1
                 PROVE  n * INITIAL_BALANCE = m * INITIAL_BALANCE + INITIAL_BALANCE
      BY <2>3
    <3>1. n = m + 1  OBVIOUS
    <3> QED  BY <3>1
  <2>6. SumOver(d, s) # Cardinality(s) * INITIAL_BALANCE
    BY <1>2
  <2>7. Cardinality(t) * INITIAL_BALANCE \in Int
    BY <2>3
  <2> HIDE DEF x, t
  <2>8. SumOver(d, t) # Cardinality(t) * INITIAL_BALANCE
    BY <2>4, <2>5, <2>6, <2>7
  <2> QED  BY <1>2, <2>1, <2>8 DEF x, t
<1>5. r \notin B  BY <1>1, <1>3, <1>4, Smaller
<1> QED  BY <1>2, <1>5

-----------------------------------------------------------------------------
(* Conservation of tokens.                                                 *)

\* What a session that was started regularly writes: one document, whose
\* balance grows by the reward, or two that together stay the same.
One(c) ==
  \E e \in Entity : c.held = {e} /\ c.new[e].balance = c.old[e].balance + c.reward

Two(c) ==
  /\ c.reward = 0
  /\ \E e \in Entity, r \in Entity :
       /\ e # r /\ c.held = {e, r}
       /\ c.new[e].balance + c.new[r].balance = c.old[e].balance + c.old[r].balance

Conserving(c) ==
  /\ c.state = "transfer" => c.reward = 0 /\ One(c)
  /\ c.state = "ready" => One(c) \/ Two(c)

\* No two sessions hold one document, so what a session has read is current.
Regular ==
  /\ \A p \in Request : \A e \in session[p].held :
       Unheld(p, e) /\ session[p].old[e].balance = doc[e].balance
  /\ \A p \in Request : Conserving(session[p])
  /\ TotalBalance = Cardinality(Entity) * INITIAL_BALANCE + granted

RInv == IInv /\ (regular => Regular)

LEMMA BalanceIsNat ==
  ASSUME NEW d \in [Entity -> SoundDoc], NEW e \in Entity
  PROVE  d[e].balance \in Nat
BY SoundFields

LEMMA SumIsTotal ==
  ASSUME IInv
  PROVE  TotalBalance = SumOver(doc, Entity)
BY TotalIs DEF IInv, SumOver

LEMMA SumIsTotalNext ==
  ASSUME IInv'
  PROVE  TotalBalance' = SumOver(doc', Entity)
BY TotalIsNext DEF IInv, SumOver

LEMMA ClosedConserving == Conserving(Closed) /\ Closed.held = {}
BY DEF Conserving, Closed

\* The rest of a session changes, the documents stay.
LEMMA AssignKeepsRegular ==
  ASSUME RInv, IInv', NEW p \in Request, NEW c \in SoundSession,
         session' = [session EXCEPT ![p] = c], doc' = doc, granted' = granted,
         regular' => /\ regular
                     /\ \A e \in c.held : Unheld(p, e) /\ c.old[e].balance = doc[e].balance
                     /\ Conserving(c)
  PROVE  RInv'
<1> SUFFICES ASSUME regular' PROVE Regular'
  BY DEF RInv
<1>0. Regular /\ session \in [Request -> SoundSession]
  BY DEF RInv, IInv
<1>1. /\ session'[p] = c
      /\ \A q \in Request \ {p} : session'[q] = session[q]
  BY <1>0
<1>2. \A q \in Request : Conserving(session'[q])
  BY <1>0, <1>1 DEF Regular
<1>3. TotalBalance' = TotalBalance
  BY SumIsTotal, SumIsTotalNext DEF RInv
<1>4. ASSUME NEW q \in Request, NEW e \in session'[q].held
      PROVE  /\ \A s \in Request \ {q} : e \notin session'[s].held
             /\ session'[q].old[e].balance = doc[e].balance
  <2>1. CASE q = p
    BY <2>1, <1>1, <1>4 DEF Unheld
  <2>2. CASE q # p
    <3>1. e \in session[q].held  BY <2>2, <1>1, <1>4
    <3>2. e \notin c.held  BY <3>1, <2>2 DEF Unheld
    <3>3. \A s \in Request \ {q} : e \notin session[s].held
      BY <3>1, <1>0 DEF Regular, Unheld
    <3> QED  BY <3>1, <3>2, <3>3, <2>2, <1>0, <1>1 DEF Regular
  <2> QED  BY <2>1, <2>2
<1>5. \A q \in Request : \A e \in session'[q].held :
        Unheld(q, e)' /\ session'[q].old[e].balance = doc'[e].balance
  BY <1>4 DEF Unheld
<1> QED  BY <1>0, <1>2, <1>3, <1>5 DEF Regular, Conserving, One, Two

LEMMA LoadedFields ==
  ASSUME NEW p, NEW e \in Entity, NEW old, NEW new
  PROVE  /\ Loaded(p, e, old, new).state = "ready" /\ Loaded(p, e, old, new).reward = 0
         /\ Loaded(p, e, old, new).held = {e}
         /\ Loaded(p, e, old, new).old[e] = old /\ Loaded(p, e, old, new).new[e] = new
<1>1. Closed.old \in [Entity -> SoundDoc] /\ Closed.new \in [Entity -> SoundDoc]
  BY EmptySound DEF Closed
<1> QED  BY <1>1 DEF Loaded

\* A session of one document that was read as it is and grows by the reward.
LEMMA OneKeepsRegular ==
  ASSUME RInv, IInv', NEW p \in Request, NEW e \in Entity, NEW c \in SoundSession,
         session' = [session EXCEPT ![p] = c], doc' = doc, granted' = granted,
         regular' => regular /\ Unheld(p, e),
         c.held = {e}, c.old[e].balance = doc[e].balance,
         c.new[e].balance = c.old[e].balance + c.reward,
         c.state = "transfer" => c.reward = 0
  PROVE  RInv'
<1>1. Conserving(c)  BY DEF Conserving, One
<1> QED  BY <1>1, AssignKeepsRegular

LEMMA HandleKeepsRegular ==
  ASSUME RInv, IInv', NEW p \in Request, NEW e \in Entity, NEW new \in SoundDoc,
         new.balance = doc[e].balance, Handle(p, e, new)
  PROVE  RInv'
<1>1. doc[e] \in SoundDoc /\ doc[e].balance \in Nat  BY SoundFields DEF RInv, IInv
<1>2. Loaded(p, e, doc[e], new) \in SoundSession  BY <1>1, LoadedSound
<1>3. doc[e].balance = doc[e].balance + 0  BY <1>1
<1> DEFINE c == Loaded(p, e, doc[e], new)
<1>4. /\ c.state = "ready" /\ c.reward = 0 /\ c.held = {e}
      /\ c.old[e] = doc[e] /\ c.new[e] = new
  BY LoadedFields
<1>5. /\ session' = [session EXCEPT ![p] = c] /\ doc' = doc /\ granted' = granted
      /\ regular' = (regular /\ Unheld(p, e))
  BY DEF Handle
<1>6. c \in SoundSession  BY <1>2
<1> HIDE DEF c
<1> QED  BY <1>3, <1>4, <1>5, <1>6, OneKeepsRegular

\* What the recipient gets is what the sender gives.
LEMMA TransferKeepsRegular ==
  ASSUME RInv, IInv', NEW p \in Request, NEW r \in Entity, NEW n \in Amount, Transfer(p, r, n)
  PROVE  RInv'
<1>0. /\ session[p] \in SoundSession /\ doc[r] \in SoundDoc /\ doc \in [Entity -> SoundDoc]
      /\ session \in [Request -> SoundSession] /\ session' \in [Request -> SoundSession]
  BY DEF RInv, IInv
<1> DEFINE c == session[p]
<1>1. PICK e \in c.held : session' = [session EXCEPT ![p] = Paid(c, e, r, n)]
  BY DEF Transfer
<1> DEFINE d == Paid(c, e, r, n)
<1>2. /\ session' = [session EXCEPT ![p] = d] /\ doc' = doc /\ granted' = granted
      /\ regular' = (regular /\ Unheld(p, r)) /\ c.state = "transfer" /\ r \notin c.held
  BY <1>1 DEF Transfer
<1>3. d \in SoundSession  BY <1>0, <1>1
<1>4. SUFFICES ASSUME regular'
               PROVE  /\ \A x \in d.held : Unheld(p, x) /\ d.old[x].balance = doc[x].balance
                      /\ Conserving(d)
  <2> HIDE DEF d
  <2> QED  BY <1>2, <1>3, <1>4, AssignKeepsRegular
<1>5. regular /\ Regular /\ Unheld(p, r)
  BY <1>2, <1>4 DEF RInv
<1>6. /\ c.held = {e} /\ e \in Entity /\ e # r /\ c.reward = 0 /\ c.old[e].balance = doc[e].balance
      /\ Unheld(p, e)
  BY <1>1, <1>2, <1>5, <1>0 DEF Regular, Conserving, One, SoundSession
<1>7. c.old \in [Entity -> SoundDoc] /\ c.new \in [Entity -> SoundDoc]
  BY <1>0 DEF SoundSession
<1> DEFINE o == [c.old EXCEPT ![r] = doc[r]]
           w == [c.new EXCEPT ![e] = Debited(c.old[e], n), ![r] = Credited(doc[r], n)]
<1>8. /\ o[e] = c.old[e] /\ o[r] = doc[r]
      /\ w[e] = Debited(c.old[e], n) /\ w[r] = Credited(doc[r], n)
  BY <1>6, <1>7
<1>9. w[e].balance = c.old[e].balance - n /\ w[r].balance = doc[r].balance + n
  BY <1>8 DEF Debited, Credited, WithTokens
<1>10. /\ d.state = "ready" /\ d.held = {e, r} /\ d.old = o /\ d.new = w /\ d.reward = c.reward
  <2>1. d = [c EXCEPT !.state = "ready", !.held = c.held \cup {r}, !.old = o, !.new = w]
    BY DEF Paid
  <2> HIDE DEF d, o, w
  <2> QED  BY <2>1, <1>0, <1>6 DEF SoundSession
<1>11. c.old[e].balance \in Nat /\ doc[r].balance \in Nat /\ n \in Nat
  BY <1>0, <1>6, <1>7, BalanceIsNat
<1> HIDE DEF d, o, w, c
<1>12. Two(d)
  BY <1>6, <1>8, <1>9, <1>10, <1>11 DEF Two
<1>13. Conserving(d)  BY <1>12, <1>10 DEF Conserving
<1> QED  BY <1>5, <1>6, <1>8, <1>10, <1>13

LEMMA HandlerKeepsRegular ==
  ASSUME RInv, NEW p \in Request, NEW e \in Entity, HandlerStep(p, e)
  PROVE  RInv'
<1>0. IInv /\ IInv' /\ doc[e] \in SoundDoc /\ doc[e].balance \in Nat
  BY HandlerPreserves, SoundFields DEF RInv, IInv
<1>1. CASE StartTransfer(p, e)
  <2> DEFINE l == Loaded(p, e, doc[e], doc[e])
             c == [l EXCEPT !.state = "transfer"]
  <2>1. l \in SoundSession  BY <1>0, LoadedSound
  <2>2. l.reward = 0 /\ l.held = {e} /\ l.old[e] = doc[e] /\ l.new[e] = doc[e]
    BY LoadedFields
  <2>3. /\ session' = [session EXCEPT ![p] = c] /\ doc' = doc /\ granted' = granted
        /\ regular' = (regular /\ Unheld(p, e))
    BY <1>1 DEF StartTransfer
  <2> HIDE DEF l
  <2>4. c \in SoundSession  BY <2>1, FieldsSound
  <2>5. c.reward = 0 /\ c.held = {e} /\ c.old[e] = doc[e] /\ c.new[e] = doc[e]
    BY <2>1, <2>2 DEF SoundSession
  <2>6. doc[e].balance = doc[e].balance + 0  BY <1>0
  <2> HIDE DEF c
  <2> QED  BY <1>0, <2>3, <2>4, <2>5, <2>6, OneKeepsRegular
<1>2. ASSUME NEW n \in Amount, StakeTokens(p, e, n) PROVE RInv'
  <2> DEFINE new == WithTokens(doc[e], doc[e].balance, doc[e].staked + n)
  <2>0. /\ doc[e].staked \in Nat /\ n \in Nat /\ n <= doc[e].balance - doc[e].staked
    BY <1>0, <1>2, SoundFields DEF StakeTokens, Available
  <2>1. doc[e].staked + n \in Nat /\ doc[e].staked + n <= doc[e].balance
    BY <2>0, <1>0
  <2>2. new \in SoundDoc /\ new.balance = doc[e].balance
    BY <1>0, <2>1, WithTokensSound DEF WithTokens
  <2> QED  BY <1>0, <1>2, <2>2, HandleKeepsRegular DEF StakeTokens
<1>3. ASSUME NEW n \in Amount, UnstakeTokens(p, e, n) PROVE RInv'
  <2> DEFINE new == WithTokens(doc[e], doc[e].balance, doc[e].staked - n)
  <2>0. /\ doc[e].staked \in Nat /\ n \in Nat /\ n <= doc[e].staked
        /\ doc[e].staked <= doc[e].balance
    BY <1>0, <1>3, SoundFields DEF UnstakeTokens, MayUnstake
  <2>1. doc[e].staked - n \in Nat /\ doc[e].staked - n <= doc[e].balance
    BY <2>0, <1>0
  <2>2. new \in SoundDoc /\ new.balance = doc[e].balance
    BY <1>0, <2>1, WithTokensSound DEF WithTokens
  <2> QED  BY <1>0, <1>3, <2>2, HandleKeepsRegular DEF UnstakeTokens
<1>4. ASSUME NEW n \in Amount, ClaimRewards(p, e, n) PROVE RInv'
  <2> DEFINE l == Loaded(p, e, doc[e], Credited(doc[e], n))
             c == [l EXCEPT !.reward = n]
  <2>0. n \in Nat /\ Credited(doc[e], n) \in SoundDoc
    BY <1>0, CreditedSound
  <2>1. l \in SoundSession  BY <1>0, <2>0, LoadedSound
  <2>2. l.state = "ready" /\ l.held = {e} /\ l.old[e] = doc[e] /\ l.new[e] = Credited(doc[e], n)
    BY LoadedFields
  <2>3. /\ session' = [session EXCEPT ![p] = c] /\ doc' = doc /\ granted' = granted
        /\ regular' = (regular /\ Unheld(p, e))
    BY <1>4 DEF ClaimRewards
  <2> HIDE DEF l
  <2>4. c \in SoundSession  BY <2>0, <2>1, FieldsSound
  <2>5. /\ c.state = "ready" /\ c.reward = n /\ c.held = {e} /\ c.old[e] = doc[e]
        /\ c.new[e] = Credited(doc[e], n)
    BY <2>1, <2>2 DEF SoundSession
  <2>6. c.new[e].balance = c.old[e].balance + c.reward
    BY <2>5 DEF Credited, WithTokens
  <2> HIDE DEF c
  <2> QED  BY <1>0, <2>3, <2>4, <2>5, <2>6, OneKeepsRegular
<1>5. ASSUME NEW n \in Amount, Transfer(p, e, n) PROVE RInv'
  BY <1>0, <1>5, TransferKeepsRegular
<1>6. ASSUME NEW k \in CopiedKey, SaveOnCopy(p, e, k) \/ RemoveOnCopy(p, e, k) PROVE RInv'
  <2>1. doc[e].keys \cup {k} \in SUBSET Key /\ doc[e].keys \ {k} \in SUBSET Key
    BY <1>0, SoundFields DEF Key
  <2>2. ASSUME NEW keys \in SUBSET Key
        PROVE  [doc[e] EXCEPT !.keys = keys] \in SoundDoc
               /\ [doc[e] EXCEPT !.keys = keys].balance = doc[e].balance
    BY <1>0, KeysSound, SoundFields
  <2>3. CASE SaveOnCopy(p, e, k)
    BY <1>0, <2>1, <2>2, <2>3, HandleKeepsRegular DEF SaveOnCopy
  <2>4. CASE RemoveOnCopy(p, e, k)
    BY <1>0, <2>1, <2>2, <2>4, HandleKeepsRegular DEF RemoveOnCopy
  <2> QED  BY <1>6, <2>3, <2>4
<1>7. ASSUME NEW k \in AliasedKey, SaveInPlace(p, e, k) PROVE RInv'
  <2> DEFINE new == [doc[e] EXCEPT !.keys = @ \cup {k}]
             old == InPlace(doc[e], new)
             c == Loaded(p, e, old, new)
  <2>1. doc[e].keys \cup {k} \in SUBSET Key  BY <1>0, SoundFields DEF Key
  <2>2. new \in SoundDoc /\ new.balance = doc[e].balance
    BY <1>0, <2>1, KeysSound, SoundFields
  <2>3. /\ session' = [session EXCEPT ![p] = c] /\ doc' = doc /\ granted' = granted
        /\ regular' = (regular /\ Unheld(p, e))
    BY <1>7 DEF SaveInPlace
  <2> HIDE DEF new
  <2>4. old \in SoundDoc /\ old.balance = doc[e].balance  BY <1>0, <2>2 DEF InPlace
  <2> HIDE DEF old
  <2>5. c \in SoundSession  BY <2>2, <2>4, LoadedSound
  <2>6. c.state = "ready" /\ c.reward = 0 /\ c.held = {e} /\ c.old[e] = old /\ c.new[e] = new
    BY LoadedFields
  <2>7. doc[e].balance = doc[e].balance + 0  BY <1>0
  <2> HIDE DEF c
  <2> QED  BY <1>0, <2>2, <2>3, <2>4, <2>5, <2>6, <2>7, OneKeepsRegular
<1>8. CASE ResetOnboarding(p, e)
  BY <1>0, <1>8 DEF ResetOnboarding, RInv
<1> QED  BY <1>1, <1>2, <1>3, <1>4, <1>5, <1>6, <1>7, <1>8 DEF HandlerStep

\* The documents a session holds are as it read them, so that its assignments
\* are the change of the total: the reward, or nothing.
LEMMA CommitKeepsTotal ==
  ASSUME IInv, IInv', Regular, NEW p \in Request, Commit(p)
  PROVE  TotalBalance' = TotalBalance + session[p].reward
<1> DEFINE c == session[p]
<1>0. /\ c \in SoundSession /\ doc \in [Entity -> SoundDoc] /\ doc' \in [Entity -> SoundDoc]
      /\ c.old \in [Entity -> SoundDoc] /\ c.new \in [Entity -> SoundDoc] /\ c.reward \in Nat
  BY DEF IInv, SoundSession
<1>1. /\ \A x \in Entity \ c.held : doc'[x] = doc[x]
      /\ \A x \in Entity \cap c.held : doc'[x] = Written(p, x)
  BY DEF Commit
<1>2. ASSUME NEW x \in Entity \cap c.held
      PROVE  doc'[x].balance = c.new[x].balance /\ doc[x].balance = c.old[x].balance
  <2>1. doc[x].balance = c.old[x].balance  BY DEF Regular
  <2> QED  BY <1>1, <2>1 DEF Written
<1>3. TotalBalance = SumOver(doc, Entity) /\ TotalBalance' = SumOver(doc', Entity)
  BY SumIsTotal, SumIsTotalNext
<1>4. SumOver(doc, Entity) \in Int  BY <1>0, SumType
<1>5. One(c) \/ Two(c)  BY DEF Commit, Regular, Conserving
<1> HIDE DEF c
<1>6. CASE One(c)
  <2>1. PICK e \in Entity : c.held = {e} /\ c.new[e].balance = c.old[e].balance + c.reward
    BY <1>6 DEF One
  <2>2. doc[e].balance \in Nat /\ doc'[e].balance = doc[e].balance + c.reward
    BY <1>0, <1>2, <2>1, BalanceIsNat
  <2>3. \A x \in Entity \ {e} : doc'[x].balance = doc[x].balance
    BY <1>1, <2>1
  <2>4. SumOver(doc', Entity) = SumOver(doc, Entity) + (doc'[e].balance - doc[e].balance)
    <3>1. Entity \in SUBSET Entity  OBVIOUS
    <3> QED  BY <1>0, <2>3, <3>1, SumDiffers
  <2> QED  BY <1>0, <1>3, <1>4, <2>2, <2>4 DEF c
<1>7. CASE Two(c)
  <2>1. PICK e \in Entity, r \in Entity :
          /\ e # r /\ c.held = {e, r}
          /\ c.new[e].balance + c.new[r].balance = c.old[e].balance + c.old[r].balance
    BY <1>7 DEF Two
  <2> DEFINE half == [doc EXCEPT ![e] = doc'[e]]
  <2>2. half \in [Entity -> SoundDoc] /\ half[e] = doc'[e] /\ half[r] = doc[r]
    BY <1>0, <2>1
  <2>3. \A x \in Entity \ {e} : half[x].balance = doc[x].balance
    BY <1>0
  <2>4. \A x \in Entity \ {r} : doc'[x].balance = half[x].balance
    BY <1>0, <1>1, <2>1
  <2> HIDE DEF half
  <2>5. Entity \in SUBSET Entity  OBVIOUS
  <2>6. SumOver(half, Entity) = SumOver(doc, Entity) + (half[e].balance - doc[e].balance)
    <3>1. half \in [Entity -> SoundDoc]  BY <2>2
    <3> QED  BY <1>0, <2>3, <2>5, <3>1, SumDiffers
  <2>7. SumOver(doc', Entity) = SumOver(half, Entity) + (doc'[r].balance - half[r].balance)
    BY <1>0, <2>2, <2>4, <2>5, SumDiffers
  <2>8. doc'[e].balance + doc'[r].balance = doc[e].balance + doc[r].balance
    BY <1>2, <2>1
  <2>9. /\ doc[e].balance \in Nat /\ doc[r].balance \in Nat
        /\ doc'[e].balance \in Nat /\ doc'[r].balance \in Nat
    BY <1>0, BalanceIsNat
  <2>10. c.reward = 0  BY <1>7 DEF Two
  <2> QED  BY <1>3, <1>4, <2>2, <2>6, <2>7, <2>8, <2>9, <2>10 DEF c
<1> QED  BY <1>5, <1>6, <1>7

LEMMA CommitKeepsRegular ==
  ASSUME RInv, IInv', NEW p \in Request, Commit(p)
  PROVE  RInv'
<1> SUFFICES ASSUME regular' PROVE Regular'
  BY DEF RInv
<1>0. /\ IInv /\ Regular /\ session \in [Request -> SoundSession] /\ granted \in Nat
      /\ session[p].reward \in Nat
  BY DEF RInv, IInv, Commit, SoundSession
<1>1. TotalBalance' = TotalBalance + session[p].reward  BY <1>0, CommitKeepsTotal
<1>2. granted' = granted + session[p].reward  BY DEF Commit
<1>3. session'[p] = Closed /\ \A q \in Request \ {p} : session'[q] = session[q]
  BY <1>0 DEF Commit
<1>4. ASSUME NEW q \in Request, NEW e \in session'[q].held
      PROVE  /\ \A s \in Request \ {q} : e \notin session'[s].held
             /\ session'[q].old[e].balance = doc'[e].balance
  <2>1. q # p /\ e \in session[q].held  BY <1>3, <1>4, ClosedConserving
  <2>2. \A s \in Request \ {q} : e \notin session[s].held
    BY <2>1, <1>0 DEF Regular, Unheld
  <2>3. \A s \in Request \ {q} : e \notin session'[s].held
    BY <2>2, <1>3, ClosedConserving
  <2>4. e \in Entity /\ e \notin session[p].held
    BY <2>1, <2>2, <1>0 DEF SoundSession
  <2>5. doc'[e] = doc[e]  BY <2>4 DEF Commit
  <2> QED  BY <2>1, <2>3, <2>5, <1>0, <1>3 DEF Regular
<1>5. \A q \in Request : \A e \in session'[q].held :
        Unheld(q, e)' /\ session'[q].old[e].balance = doc'[e].balance
  BY <1>4 DEF Unheld
<1>6. \A q \in Request : Conserving(session'[q])
  BY <1>0, <1>3, ClosedConserving DEF Regular
<1>7. TotalBalance' = Cardinality(Entity) * INITIAL_BALANCE + granted'
  <2>1. TotalBalance = Cardinality(Entity) * INITIAL_BALANCE + granted
    BY <1>0 DEF Regular
  <2>2. Cardinality(Entity) * INITIAL_BALANCE \in Int
    BY FiniteAssumption, FS_CardinalityType
  <2> DEFINE start == Cardinality(Entity) * INITIAL_BALANCE
  <2> HIDE DEF start
  <2>3. start \in Int /\ TotalBalance = start + granted  BY <2>1, <2>2 DEF start
  <2>4. TotalBalance' = start + granted'  BY <2>3, <1>0, <1>1, <1>2
  <2> QED  BY <2>4 DEF start
<1> QED  BY <1>5, <1>6, <1>7 DEF Regular, Conserving, One, Two

LEMMA RegularInductive == ASSUME RInv, [Next]_vars PROVE RInv'
<1>0. IInv'  BY Inductive DEF RInv
<1>1. ASSUME NEW p \in Request, NEW e \in Entity, HandlerStep(p, e) PROVE RInv'
  BY <1>1, HandlerKeepsRegular
<1>2. ASSUME NEW p \in Request, Commit(p) PROVE RInv'
  BY <1>0, <1>2, CommitKeepsRegular
<1>3. ASSUME NEW p \in Request, Rollback(p) PROVE RInv'
  BY <1>0, <1>3, ClosedSound, ClosedConserving, AssignKeepsRegular DEF Rollback
<1>4. CASE UNCHANGED vars
  <2>1. TotalBalance' = TotalBalance
    BY <1>0, <1>4, SumIsTotal, SumIsTotalNext DEF vars, RInv
  <2> QED
    BY <1>0, <1>4, <2>1 DEF vars, RInv, Regular, Conserving, One, Two, Unheld
<1> QED  BY <1>1, <1>2, <1>3, <1>4 DEF Next

LEMMA RegularInitially == Init => RInv
<1> SUFFICES ASSUME Init PROVE Regular
  BY Initially DEF RInv
<1>1. IInv  BY Initially
<1>2. \A e \in Entity : doc[e].balance = INITIAL_BALANCE  BY DEF Init, Empty
<1>3. TotalBalance = Cardinality(Entity) * INITIAL_BALANCE
  <2>1. Entity \in SUBSET Entity  OBVIOUS
  <2>2. SumOver(doc, Entity) = Cardinality(Entity) * INITIAL_BALANCE
    BY <1>2, <2>1, SumInitial
  <2> QED  BY <1>1, <2>2, SumIsTotal
<1>4. granted = 0  BY DEF Init
<1>5. Cardinality(Entity) * INITIAL_BALANCE \in Int
  BY FiniteAssumption, FS_CardinalityType
<1>6. TotalBalance = Cardinality(Entity) * INITIAL_BALANCE + granted
  BY <1>3, <1>4, <1>5
<1> QED  BY <1>6, ClosedConserving DEF Init, Regular

\* Without overlapping requests and resets no token is made or lost, whatever
\* transfers, rewards, failures and other saves there are.
THEOREM TokensConserved == Spec => []Conserved
<1>1. RInv => Conserved  BY DEF RInv, Regular, Conserved
<1> QED  BY <1>1, RegularInitially, RegularInductive, PTL DEF Spec

=============================================================================
