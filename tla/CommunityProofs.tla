-------------------------- MODULE CommunityProofs ---------------------------
(* Theorems about Community, for any finite set of entities and any number *)
(* of overlapping requests.                                                *)
EXTENDS Community, FiniteSetTheorems, TLAPS

USE FounderAssumption, FiniteAssumption

Present == {e \in Entity : role[e] # "none"}

\* What a request is about to do was allowed by the roles it has read.
Checked(s) ==
  /\ s.state # "idle" =>
       /\ MayAsk(s.op, s.mine)
       /\ Single(s.op) => s.state = "ready" /\ s.target = s.actor /\ s.its = s.mine
       /\ NotOnOneself(s.op) => s.target # s.actor
  /\ s.state = "ready" /\ ~ Single(s.op) => MayDo(s.op, s.mine, s.its)

\* It holds rows that are there.
Sessions ==
  \A p \in Request : Checked(session[p]) /\ session[p].held \subseteq Present

\* Those whose row an unban is about to delete, although they are members by now.
Doomed ==
  {e \in Entity : \E p \in Request :
     /\ session[p].state = "ready" /\ session[p].op = "unban"
     /\ session[p].target = e /\ e \in session[p].held}

\* The unban will not lower member_count: they do not count already.
Sound == member_count <= Cardinality(Members \ Doomed)

IInv == TypeOK /\ Sessions /\ Sound

-----------------------------------------------------------------------------
(* The steps, by what they do to the sessions.                             *)

\* Requests end or lose rows; none reads anything.
Quiet ==
  \A q \in Request : \/ session'[q] = Closed
                     \/ \E h \in SUBSET session[q].held :
                          session'[q] = [session[q] EXCEPT !.held = h]

LEMMA ClosedTyped == Closed \in Session
BY DEF Closed, Session, Operation, Row

LEMMA CloseIsQuiet ==
  ASSUME TypeOK, NEW p \in Request, NEW gone \in SUBSET Entity, Close(p, gone)
  PROVE  Quiet /\ session' \in [Request -> Session]
<1>1. ASSUME NEW q \in Request
      PROVE  /\ session'[q] \in Session
             /\ \/ session'[q] = Closed
                \/ \E h \in SUBSET session[q].held :
                     session'[q] = [session[q] EXCEPT !.held = h]
  <2>1. session[q] \in Session  BY DEF TypeOK
  <2>2. CASE q = p  BY <2>2, ClosedTyped DEF Close
  <2>3. CASE q # p
    <3>1. session'[q] = [session[q] EXCEPT !.held = session[q].held \ gone]
      BY <2>3 DEF Close
    <3>2. session[q].held \ gone \in SUBSET session[q].held  OBVIOUS
    <3>3. [session[q] EXCEPT !.held = session[q].held \ gone] \in Session
      BY <2>1 DEF Session
    <3> QED  BY <3>1, <3>2, <3>3
  <2> QED  BY <2>2, <2>3
<1>2. session' = [q \in Request |-> session'[q]]  BY DEF Close
<1> QED  BY <1>1, <1>2 DEF Quiet

LEMMA QuietKeepsChecked ==
  ASSUME TypeOK, Quiet, NEW q \in Request, Checked(session[q])
  PROVE  Checked(session'[q])
<1>1. session[q] \in Session  BY DEF TypeOK
<1>2. CASE session'[q] = Closed  BY <1>2 DEF Closed, Checked
<1>3. CASE session'[q] # Closed
  <2>1. PICK h \in SUBSET session[q].held : session'[q] = [session[q] EXCEPT !.held = h]
    BY <1>3 DEF Quiet
  <2>2. /\ session'[q].state = session[q].state /\ session'[q].op = session[q].op
        /\ session'[q].actor = session[q].actor /\ session'[q].target = session[q].target
        /\ session'[q].mine = session[q].mine /\ session'[q].its = session[q].its
    BY <1>1, <2>1 DEF Session
  <2> QED  BY <2>2 DEF Checked
<1> QED  BY <1>2, <1>3

\* No quiet step dooms anyone.
LEMMA QuietDoomsNobody ==
  ASSUME TypeOK, Quiet
  PROVE  Doomed' \subseteq Doomed
<1> SUFFICES ASSUME NEW e \in Entity, NEW q \in Request,
                    session'[q].state = "ready", session'[q].op = "unban",
                    session'[q].target = e, e \in session'[q].held
             PROVE  e \in Doomed
  BY DEF Doomed
<1>1. session[q] \in Session  BY DEF TypeOK
<1>2. session'[q] # Closed  BY DEF Closed
<1>3. PICK h \in SUBSET session[q].held : session'[q] = [session[q] EXCEPT !.held = h]
  BY <1>2 DEF Quiet
<1>4. /\ session[q].state = "ready" /\ session[q].op = "unban"
      /\ session[q].target = e /\ e \in session[q].held
  BY <1>1, <1>3 DEF Session
<1> QED  BY <1>4 DEF Doomed

-----------------------------------------------------------------------------
(* What each write does to the rows.                                       *)

Writes(p) ==
  \/ Join(p) \/ Remove(p) \/ Promote(p) \/ Demote(p) \/ Transfer(p)
  \/ Ban(p) \/ BanStranger(p) \/ Unban(p)

LEMMA WritesAreQuiet ==
  ASSUME TypeOK, NEW p \in Request, Writes(p)
  PROVE  Quiet /\ session' \in [Request -> Session] /\ session[p].state = "ready"
<1>1. \E gone \in SUBSET Entity : Close(p, gone) /\ session[p].state = "ready"
  <2>1. session[p] \in Session  BY DEF TypeOK
  <2>2. {session[p].target} \cap session[p].held \in SUBSET Entity  BY <2>1 DEF Session
  <2>3. CASE Remove(p) \/ Unban(p)  BY <2>2, <2>3 DEF Remove, Unban
  <2>4. CASE Promote(p) \/ Demote(p) \/ Ban(p)
    <3>1. {} \in SUBSET Entity  OBVIOUS
    <3> QED  BY <2>4, <3>1 DEF Promote, Demote, Ban, SetRole
  <2>5. CASE Join(p) \/ Transfer(p) \/ BanStranger(p)
    <3>1. {} \in SUBSET Entity  OBVIOUS
    <3> QED  BY <2>5, <3>1 DEF Join, Transfer, BanStranger
  <2> QED  BY <2>3, <2>4, <2>5 DEF Writes
<1> QED  BY <1>1, CloseIsQuiet

LEMMA NoteTyped ==
  ASSUME TypeOK, NEW p \in Request, NEW b \in BOOLEAN, Note(p, b)
  PROVE  oddity' \in Oddity
BY DEF TypeOK, Note, Oddity

LEMMA WritesTyped ==
  ASSUME TypeOK, NEW p \in Request, Writes(p)
  PROVE  TypeOK'
<1>1. session' \in [Request -> Session]  BY WritesAreQuiet
<1>2. session[p] \in Session  BY DEF TypeOK
<1>3. session[p].actor \in Entity /\ session[p].target \in Entity  BY <1>2 DEF Session
<1>4. More \in Nat /\ Fewer \in Nat  BY DEF TypeOK, More, Fewer
<1>5. (session[p].its = "banned") \in BOOLEAN /\ FALSE \in BOOLEAN  OBVIOUS
<1>6. CASE Join(p)
  <2>1. oddity' \in Oddity  BY <1>5, <1>6, NoteTyped DEF Join
  <2> QED  BY <1>1, <1>3, <1>4, <1>6, <2>1 DEF Join, TypeOK, Row, Role
<1>7. CASE Remove(p)
  <2>1. oddity' \in Oddity  BY <1>5, <1>7, NoteTyped DEF Remove
  <2> QED  BY <1>1, <1>4, <1>7, <2>1 DEF Remove, TypeOK, Row
<1>8. CASE Promote(p) \/ Demote(p) \/ Ban(p)
  <2>1. oddity' \in Oddity
    BY <1>5, <1>8, NoteTyped DEF Promote, Demote, Ban, SetRole
  <2>2. role' \in [Entity -> Row]
    BY <1>3, <1>8 DEF Promote, Demote, Ban, SetRole, TypeOK, Row, Role
  <2> QED  BY <1>1, <1>4, <1>8, <2>1, <2>2 DEF Promote, Demote, Ban, TypeOK
<1>9. CASE Transfer(p)
  <2>1. oddity' \in Oddity  BY <1>5, <1>9, NoteTyped DEF Transfer
  <2>2. role' \in [Entity -> Row]
    BY <1>3, <1>9 DEF Transfer, HandedOver, TypeOK, Row, Role
  <2> QED  BY <1>1, <1>3, <1>9, <2>1, <2>2 DEF Transfer, TypeOK
<1>10. CASE BanStranger(p)
  <2>1. oddity' \in Oddity  BY <1>5, <1>10, NoteTyped DEF BanStranger
  <2> QED  BY <1>1, <1>3, <1>10, <2>1 DEF BanStranger, TypeOK, Row, Role
<1>11. CASE Unban(p)
  <2>1. oddity' \in Oddity  BY <1>5, <1>11, NoteTyped DEF Unban
  <2> QED  BY <1>1, <1>11, <2>1 DEF Unban, TypeOK, Row
<1> QED  BY <1>6, <1>7, <1>8, <1>9, <1>10, <1>11 DEF Writes

\* Rows disappear only from the sessions that held them.
LEMMA WritesKeepSessions ==
  ASSUME TypeOK, Sessions, NEW p \in Request, Writes(p)
  PROVE  Sessions'
<1> SUFFICES ASSUME NEW q \in Request
             PROVE  Checked(session'[q]) /\ session'[q].held \subseteq Present'
  BY DEF Sessions, Checked
<1>1. Checked(session'[q])  BY WritesAreQuiet, QuietKeepsChecked DEF Sessions
<1>2. session[p] \in Session /\ session[q] \in Session  BY DEF TypeOK
<1>3. session[q].held \subseteq Present  BY DEF Sessions
<1>4. session'[q].held \subseteq session[q].held
  <2>1. CASE session'[q] = Closed  BY <2>1 DEF Closed
  <2>2. CASE session'[q] # Closed
    <3>1. PICK h \in SUBSET session[q].held : session'[q] = [session[q] EXCEPT !.held = h]
      BY <2>2, WritesAreQuiet DEF Quiet
    <3> QED  BY <1>2, <3>1 DEF Session
  <2> QED  BY <2>1, <2>2
<1>5. CASE Remove(p) \/ Unban(p)
  <2> DEFINE gone == {session[p].target} \cap session[p].held
  <2>1. Close(p, gone) /\ role' = [e \in Entity |-> IF e \in gone THEN "none" ELSE role[e]]
    BY <1>5 DEF Remove, Unban
  <2>2. session'[q].held \cap gone = {}
    <3>1. CASE q = p  BY <2>1, <3>1 DEF Close, Closed
    <3>2. CASE q # p  BY <1>2, <2>1, <3>2 DEF Close, Session
    <3> QED  BY <3>1, <3>2
  <2> QED  BY <1>1, <1>3, <1>4, <2>1, <2>2 DEF Present
<1>6. CASE ~ (Remove(p) \/ Unban(p))
  <2>1. \A e \in Entity : role[e] # "none" => role'[e] # "none"
    <3>1. CASE Join(p)  BY <3>1, <1>2 DEF Join, TypeOK, Session
    <3>2. CASE Promote(p) \/ Demote(p) \/ Ban(p)
      BY <3>2, <1>2 DEF Promote, Demote, Ban, SetRole, TypeOK, Session
    <3>3. CASE Transfer(p)  BY <3>3, <1>2 DEF Transfer, HandedOver, TypeOK, Session
    <3>4. CASE BanStranger(p)  BY <3>4, <1>2 DEF BanStranger, TypeOK, Session
    <3> QED  BY <1>6, <3>1, <3>2, <3>3, <3>4 DEF Writes
  <2> QED  BY <1>1, <1>3, <1>4, <2>1 DEF Present
<1> QED  BY <1>5, <1>6

-----------------------------------------------------------------------------
(* Reading, and giving up.                                                 *)

Reads(p) ==
  \/ \E op \in Operation, a, t \in Entity : Ask(p, op, a, t)
  \/ LoadTarget(p)
  \/ Rollback(p)

\* The session of p after a read: typed, checked, holding rows that are there,
\* and about to unban only someone who is banned.
GoodSession(s) ==
  /\ s \in Session /\ Checked(s) /\ s.held \subseteq Present
  /\ s.state = "ready" /\ s.op = "unban" => role[s.target] = "banned"

LEMMA ClosedGood == GoodSession(Closed)
BY ClosedTyped DEF GoodSession, Checked, Closed

LEMMA RowOfTyped ==
  ASSUME TypeOK, NEW e \in Entity
  PROVE  RowOf(e) \in SUBSET Entity /\ RowOf(e) \subseteq Present
BY DEF RowOf, Present

LEMMA AskIsGood ==
  ASSUME TypeOK, NEW p \in Request, NEW op \in Operation, NEW a \in Entity, NEW t \in Entity,
         Ask(p, op, a, t)
  PROVE  GoodSession(session'[p]) /\ session' = [session EXCEPT ![p] = session'[p]]
<1> DEFINE s == [state |-> IF Single(op) THEN "ready" ELSE "asked", op |-> op, actor |-> a, target |-> t,
        mine |-> role[a], its |-> role[a],
        held |-> IF op \in {"leave", "transfer"} THEN RowOf(a) ELSE {},
        creator |-> IF op = "transfer" THEN created_by ELSE Founder]
<1>1. session' = [session EXCEPT ![p] = s] /\ session'[p] = s  BY DEF Ask, TypeOK
<1>2. s.held \in SUBSET Entity /\ s.held \subseteq Present  BY RowOfTyped
<1>3. s \in Session  BY <1>2 DEF TypeOK, Session
<1>4. Checked(s)
  <2>1. MayAsk(op, role[a]) /\ (Single(op) => t = a) /\ (NotOnOneself(op) => t # a)
    BY DEF Ask
  <2> QED  BY <2>1 DEF Checked
<1>5. ~ (s.state = "ready" /\ s.op = "unban")  BY DEF Single
<1> HIDE DEF s
<1> QED  BY <1>1, <1>2, <1>3, <1>4, <1>5 DEF GoodSession

LEMMA LoadTargetIsGood ==
  ASSUME TypeOK, Sessions, NEW p \in Request, LoadTarget(p)
  PROVE  GoodSession(session'[p]) /\ session' = [session EXCEPT ![p] = session'[p]]
<1> DEFINE s == session[p]
           r == [s EXCEPT !.state = "ready", !.its = Loaded(s), !.held = @ \cup RowOf(s.target)]
<1>1. s \in Session /\ Checked(s) /\ s.held \subseteq Present /\ s.state = "asked"
  BY DEF TypeOK, Sessions, LoadTarget
<1>2. CASE ~ MayDo(s.op, s.mine, Loaded(s))
  <2>1. session' = [session EXCEPT ![p] = Closed] /\ session'[p] = Closed
    BY <1>2 DEF LoadTarget, TypeOK
  <2> QED  BY <2>1, ClosedGood
<1>3. CASE MayDo(s.op, s.mine, Loaded(s))
  <2>1. session' = [session EXCEPT ![p] = r] /\ session'[p] = r
    BY <1>3 DEF LoadTarget, TypeOK
  <2>2. s.target \in Entity /\ s.actor \in Entity /\ s.mine \in Row  BY <1>1 DEF Session
  <2>3. Loaded(s) \in Row  BY <2>2 DEF Loaded, TypeOK
  <2>4. r.held = s.held \cup RowOf(s.target) /\ r.held \in SUBSET Entity /\ r.held \subseteq Present
    BY <1>1, <2>2, RowOfTyped DEF Session
  <2>5. /\ r.state = "ready" /\ r.op = s.op /\ r.actor = s.actor /\ r.target = s.target
        /\ r.mine = s.mine /\ r.its = Loaded(s)
    BY <1>1 DEF Session
  <2>6. r \in Session  BY <1>1, <2>3, <2>4 DEF Session
  <2>7. Checked(r)  BY <1>1, <1>3, <2>5 DEF Checked
  <2>8. ASSUME r.op = "unban"  PROVE role[r.target] = "banned"
    <3>1. Loaded(s) = "banned"  BY <1>3, <2>5, <2>8 DEF MayDo, Single
    <3>2. s.mine \in {"owner", "moderator"}  BY <1>1, <2>5, <2>8 DEF Checked, MayAsk
    <3> QED  BY <2>5, <3>1, <3>2 DEF Loaded
  <2> HIDE DEF r
  <2> QED  BY <2>1, <2>4, <2>6, <2>7, <2>8 DEF GoodSession
<1> QED  BY <1>2, <1>3

LEMMA ReadsAreGood ==
  ASSUME TypeOK, Sessions, NEW p \in Request, Reads(p)
  PROVE  /\ GoodSession(session'[p]) /\ session' = [session EXCEPT ![p] = session'[p]]
         /\ UNCHANGED <<role, member_count, created_by, oddity>>
<1>1. CASE \E op \in Operation, a, t \in Entity : Ask(p, op, a, t)
  <2>1. UNCHANGED <<role, member_count, created_by, oddity>>  BY <1>1 DEF Ask
  <2> QED  BY <1>1, <2>1, AskIsGood
<1>2. CASE LoadTarget(p)
  <2>1. UNCHANGED <<role, member_count, created_by, oddity>>  BY <1>2 DEF LoadTarget
  <2> QED  BY <1>2, <2>1, LoadTargetIsGood
<1>3. CASE Rollback(p)
  <2>1. session' = [session EXCEPT ![p] = Closed] /\ session'[p] = Closed
    BY <1>3 DEF Rollback, TypeOK
  <2> QED  BY <1>3, <2>1, ClosedGood DEF Rollback
<1> QED  BY <1>1, <1>2, <1>3 DEF Reads

LEMMA ReadsKeepSessions ==
  ASSUME TypeOK, Sessions, NEW p \in Request, Reads(p)
  PROVE  TypeOK' /\ Sessions'
<1>1. /\ GoodSession(session'[p]) /\ session' = [session EXCEPT ![p] = session'[p]]
      /\ UNCHANGED <<role, member_count, created_by, oddity>>
  BY ReadsAreGood
<1>2. session' \in [Request -> Session]  BY <1>1 DEF TypeOK, GoodSession
<1>3. TypeOK'  BY <1>1, <1>2 DEF TypeOK
<1>4. Present' = Present  BY <1>1 DEF Present
<1>5. ASSUME NEW q \in Request
      PROVE  Checked(session'[q]) /\ session'[q].held \subseteq Present
  <2>1. CASE q = p  BY <1>1, <2>1 DEF GoodSession
  <2>2. CASE q # p
    <3>1. session'[q] = session[q]  BY <1>1, <2>2 DEF TypeOK
    <3> QED  BY <3>1 DEF Sessions
  <2> QED  BY <2>1, <2>2
<1> QED  BY <1>3, <1>4, <1>5 DEF Sessions, Checked

\* What is read does not make a member one that does not count.
LEMMA ReadsDoomNoMember ==
  ASSUME TypeOK, Sessions, NEW p \in Request, Reads(p)
  PROVE  Members \ Doomed \subseteq (Members \ Doomed)'
<1>1. /\ GoodSession(session'[p]) /\ session' = [session EXCEPT ![p] = session'[p]]
      /\ UNCHANGED <<role, member_count, created_by, oddity>>
  BY ReadsAreGood
<1>2. Members' = Members  BY <1>1 DEF Members
<1> SUFFICES ASSUME NEW e \in Members, NEW q \in Request,
                    session'[q].state = "ready", session'[q].op = "unban",
                    session'[q].target = e, e \in session'[q].held
             PROVE  e \in Doomed
  BY <1>2 DEF Doomed, Members
<1>3. CASE q = p  BY <1>1, <1>3 DEF GoodSession, Members
<1>4. CASE q # p
  <2>1. session'[q] = session[q]  BY <1>1, <1>4 DEF TypeOK
  <2> QED  BY <2>1 DEF Doomed, Members
<1> QED  BY <1>3, <1>4

-----------------------------------------------------------------------------
(* The count.                                                              *)

LEMMA CountFacts ==
  ASSUME TypeOK, NEW S \in SUBSET Entity, NEW T \in SUBSET Entity
  PROVE  /\ IsFiniteSet(S) /\ Cardinality(S) \in Nat
         /\ S \subseteq T => Cardinality(S) <= Cardinality(T)
<1>1. IsFiniteSet(S) /\ IsFiniteSet(T)  BY FS_Subset
<1>2. S \subseteq T => Cardinality(S) <= Cardinality(T)  BY <1>1, FS_Subset
<1> QED  BY <1>1, <1>2, FS_CardinalityType

LEMMA OneMore ==
  ASSUME TypeOK, NEW S \in SUBSET Entity, NEW T \in SUBSET Entity, NEW e \in Entity,
         S \cup {e} \subseteq T, e \notin S
  PROVE  Cardinality(S) + 1 <= Cardinality(T)
<1>1. Cardinality(S \cup {e}) = Cardinality(S) + 1  BY CountFacts, FS_AddElement
<1> QED  BY <1>1, CountFacts

LEMMA OneFewer ==
  ASSUME TypeOK, NEW S \in SUBSET Entity, NEW T \in SUBSET Entity, NEW e \in Entity,
         S \ {e} \subseteq T, member_count <= Cardinality(S)
  PROVE  Fewer <= Cardinality(T)
<1>1. Cardinality(S) <= Cardinality(S \ {e}) + 1
  <2>1. CASE e \in S
    <3>1. Cardinality(S \ {e}) = Cardinality(S) - 1  BY <2>1, CountFacts, FS_RemoveElement
    <3> QED  BY <3>1, CountFacts
  <2>2. CASE e \notin S
    <3>1. S \ {e} = S  BY <2>2
    <3> QED  BY <3>1, CountFacts
  <2> QED  BY <2>1, <2>2
<1>2. Cardinality(S \ {e}) <= Cardinality(T) /\ Cardinality(T) \in Nat
      /\ Cardinality(S) \in Nat /\ Cardinality(S \ {e}) \in Nat
  BY CountFacts
<1> QED  BY <1>1, <1>2 DEF Fewer, TypeOK

LEMMA WritesKeepSound ==
  ASSUME TypeOK, Sessions, Sound, NEW p \in Request, Writes(p)
  PROVE  Sound'
<1> DEFINE Counted == Members \ Doomed
<1>1. Doomed' \subseteq Doomed  BY WritesAreQuiet, QuietDoomsNobody
<1>2. Counted \in SUBSET Entity /\ Counted' \in SUBSET Entity  BY DEF Members
<1>3. member_count \in Nat /\ member_count <= Cardinality(Counted)  BY DEF TypeOK, Sound
<1>4. session[p] \in Session /\ session[p].target \in Entity /\ session[p].actor \in Entity
  BY DEF TypeOK, Session
<1>5. Checked(session[p]) /\ session[p].held \subseteq Present  BY DEF Sessions
<1>6. CASE Join(p)
  <2>1. session[p].actor \notin Counted /\ Counted \cup {session[p].actor} \subseteq Counted'
    <3>1. session[p].actor \notin Members /\ session[p].actor \notin Doomed
      BY <1>6 DEF Join, Members, Doomed, Sessions, Present
    <3>2. Members' = Members \cup {session[p].actor}
      BY <1>4, <1>6 DEF Join, Members, TypeOK
    <3> QED  BY <1>1, <3>1, <3>2
  <2>2. Cardinality(Counted) + 1 <= Cardinality(Counted')  BY <1>2, <1>4, <2>1, OneMore
  <2>3. Cardinality(Counted') \in Nat /\ Cardinality(Counted) \in Nat  BY <1>2, CountFacts
  <2> QED  BY <1>3, <1>6, <2>2, <2>3 DEF Join, More, Sound
<1>7. CASE Remove(p) \/ Ban(p)
  <2>1. Counted \ {session[p].target} \subseteq Counted'
    <3>1. \A e \in Entity : e # session[p].target => role'[e] = role[e]
      BY <1>4, <1>7 DEF Remove, Ban, SetRole, TypeOK
    <3> QED  BY <1>1, <3>1 DEF Members
  <2>2. member_count' = Fewer  BY <1>7 DEF Remove, Ban
  <2>3. Fewer <= Cardinality(Counted')  BY <1>2, <1>3, <1>4, <2>1, OneFewer
  <2> QED  BY <2>2, <2>3 DEF Sound
<1>8. CASE Promote(p) \/ Demote(p) \/ Transfer(p) \/ BanStranger(p) \/ Unban(p)
  <2>1. Counted \subseteq Counted'
    <3>1. CASE Promote(p) \/ Demote(p)
      <4>1. Members \subseteq Members'
        BY <1>4, <3>1 DEF Promote, Demote, SetRole, Members, TypeOK
      <4> QED  BY <1>1, <4>1
    <3>2. CASE Transfer(p)
      <4>1. Members \subseteq Members'
        BY <1>4, <3>2 DEF Transfer, HandedOver, Members, TypeOK
      <4> QED  BY <1>1, <4>1
    <3>3. CASE BanStranger(p)
      <4>1. Members \subseteq Members'
        BY <1>4, <3>3 DEF BanStranger, Members, TypeOK
      <4> QED  BY <1>1, <4>1
    <3>4. CASE Unban(p)
      <4>1. {session[p].target} \cap session[p].held \subseteq Doomed
        BY <1>4, <3>4 DEF Unban, Doomed
      <4>2. Members \ Doomed \subseteq Members'
        BY <3>4, <4>1 DEF Unban, Members, TypeOK
      <4> QED  BY <1>1, <4>2
    <3> QED  BY <1>8, <3>1, <3>2, <3>3, <3>4
  <2>2. member_count' = member_count
    BY <1>8 DEF Promote, Demote, Transfer, BanStranger, Unban
  <2>3. Cardinality(Counted) <= Cardinality(Counted')
        /\ Cardinality(Counted) \in Nat /\ Cardinality(Counted') \in Nat
    BY <1>2, <2>1, CountFacts
  <2> QED  BY <1>3, <2>2, <2>3 DEF Sound
<1> QED  BY <1>6, <1>7, <1>8 DEF Writes

LEMMA ReadsKeepSound ==
  ASSUME TypeOK, Sessions, Sound, NEW p \in Request, Reads(p)
  PROVE  Sound'
<1> DEFINE Counted == Members \ Doomed
<1>1. Counted \subseteq Counted'  BY ReadsDoomNoMember
<1>2. member_count' = member_count  BY ReadsAreGood
<1>3. Counted \in SUBSET Entity /\ Counted' \in SUBSET Entity  BY DEF Members
<1>4. Cardinality(Counted) <= Cardinality(Counted')
      /\ Cardinality(Counted) \in Nat /\ Cardinality(Counted') \in Nat
  BY <1>1, <1>3, CountFacts
<1>5. member_count \in Nat /\ member_count <= Cardinality(Counted)  BY DEF TypeOK, Sound
<1> QED  BY <1>2, <1>4, <1>5 DEF Sound

-----------------------------------------------------------------------------

LEMMA InitInv == Init => IInv
<1> SUFFICES ASSUME Init PROVE IInv
  OBVIOUS
<1>1. TypeOK
  <2>1. role \in [Entity -> Row]  BY DEF Init, Row, Role
  <2> QED  BY <2>1, ClosedTyped DEF Init, TypeOK, Oddity
<1>2. Sessions  BY DEF Init, Sessions, Checked, Closed
<1>3. Members \ Doomed = {Founder}  BY DEF Init, Members, Doomed, Closed
<1>4. Cardinality({Founder}) = 1  BY FS_Singleton
<1>5. Sound  BY <1>3, <1>4 DEF Sound, Init
<1> QED  BY <1>1, <1>2, <1>5 DEF IInv

LEMMA StepInv == IInv /\ [Next]_vars => IInv'
<1> SUFFICES ASSUME IInv, [Next]_vars PROVE IInv'
  OBVIOUS
<1>1. CASE UNCHANGED vars
  <2>1. Present' = Present /\ Members' = Members /\ Doomed' = Doomed
    BY <1>1 DEF vars, Present, Members, Doomed
  <2>2. TypeOK' /\ Sound'  BY <1>1, <2>1 DEF vars, IInv, TypeOK, Sound
  <2>3. Sessions'  BY <1>1, <2>1 DEF vars, IInv, Sessions, Checked
  <2> QED  BY <2>2, <2>3 DEF IInv
<1>2. CASE Next
  <2>1. PICK p \in Request : Writes(p) \/ Reads(p)  BY <1>2 DEF Next, Writes, Reads
  <2>2. CASE Writes(p)
    BY <2>2, WritesTyped, WritesKeepSessions, WritesKeepSound DEF IInv
  <2>3. CASE Reads(p)  BY <2>3, ReadsKeepSessions, ReadsKeepSound DEF IInv
  <2> QED  BY <2>1, <2>2, <2>3
<1> QED  BY <1>1, <1>2

LEMMA AlwaysInv == Spec => []IInv
BY InitInv, StepInv, PTL DEF Spec

\* Rows, the count, the creator and the sessions keep their types.
THEOREM TypeCorrect == Spec => []TypeOK
<1>1. IInv => TypeOK  BY DEF IInv
<1> QED  BY <1>1, AlwaysInv, PTL

\* member_count of submolt_router.py is never ahead of the members, however the
\* requests that change it overlap.
THEOREM CountIsSound == Spec => []CountNeverOverstates
<1>1. IInv => CountNeverOverstates
  <2> SUFFICES ASSUME IInv PROVE CountNeverOverstates
    OBVIOUS
  <2>1. Members \in SUBSET Entity /\ Members \ Doomed \in SUBSET Entity  BY DEF Members
  <2>2. Cardinality(Members \ Doomed) <= Cardinality(Members)
        /\ Cardinality(Members) \in Nat /\ Cardinality(Members \ Doomed) \in Nat
    BY <2>1, CountFacts DEF IInv
  <2> QED  BY <2>2 DEF IInv, Sound, TypeOK, CountNeverOverstates
<1> QED  BY <1>1, AlwaysInv, PTL

-----------------------------------------------------------------------------
(* As long as no request commits over what others have changed.            *)

\* Whoever is not idle and has read everything acts on what is still there.
LEMMA FreshTarget ==
  ASSUME TypeOK, NEW p \in Request, Fresh(session[p]), role[session[p].target] # "none"
  PROVE  session[p].target \in session[p].held
BY DEF Fresh, RowOf

LEMMA NoteFresh ==
  ASSUME NEW p \in Request, NEW b, Note(p, b), oddity' # "overlap"
  PROVE  Fresh(session[p]) /\ oddity # "overlap" /\ (oddity' = "none" => oddity = "none" /\ ~ b)
BY DEF Note

LEMMA WritesNote ==
  ASSUME NEW p \in Request, Writes(p)
  PROVE  \/ /\ Remove(p) \/ Promote(p) \/ Demote(p) \/ Ban(p)
            /\ Note(p, session[p].its = "banned")
         \/ /\ Join(p) \/ Transfer(p) \/ BanStranger(p) \/ Unban(p)
            /\ Note(p, FALSE)
BY DEF Writes, Join, Remove, Promote, Demote, Transfer, Ban, BanStranger, Unban, SetRole

LEMMA OwnerStep == IInv /\ OwnerIsCreator /\ [Next]_vars => OwnerIsCreator'
<1> SUFFICES ASSUME IInv, OwnerIsCreator, [Next]_vars,
                    oddity' # "overlap", NEW e \in Entity, role'[e] = "owner"
             PROVE  created_by' = e
  BY DEF OwnerIsCreator
<1>1. CASE UNCHANGED vars  BY <1>1 DEF vars, OwnerIsCreator
<1>2. CASE Next
  <2>1. PICK p \in Request : Writes(p) \/ Reads(p)  BY <1>2 DEF Next, Writes, Reads
  <2>2. CASE Reads(p)
    <3>1. UNCHANGED <<role, created_by, oddity>>  BY <2>2, ReadsAreGood DEF IInv
    <3> QED  BY <3>1 DEF OwnerIsCreator
  <2>3. CASE Writes(p)
    <3>1. Fresh(session[p]) /\ oddity # "overlap"  BY <2>3, WritesNote, NoteFresh
    <3>2. session[p] \in Session /\ session[p].target \in Entity /\ session[p].actor \in Entity
      BY DEF IInv, TypeOK, Session
    <3>3. \A o \in Entity : role[o] = "owner" => created_by = o
      BY <3>1 DEF OwnerIsCreator
    <3>4. CASE Transfer(p)
      <4>1. session[p].mine = "owner" /\ session[p].target # session[p].actor
        BY <3>4 DEF Transfer, IInv, Sessions, Checked, MayAsk, NotOnOneself
      <4>2. created_by = session[p].actor /\ session[p].creator = session[p].actor
        BY <3>1, <3>2, <3>3, <3>4, <4>1 DEF Fresh, Transfer
      <4>3. created_by' = session[p].target  BY <3>4, <4>1, <4>2 DEF Transfer
      <4>4. e = session[p].target
        BY <3>2, <3>3, <3>4, <4>1, <4>2 DEF Transfer, HandedOver, IInv, TypeOK
      <4> QED  BY <4>3, <4>4
    <3>5. CASE ~ Transfer(p)
      <4>1. created_by' = created_by
        BY <2>3, <3>5 DEF Writes, Join, Remove, Promote, Demote, Ban, BanStranger, Unban
      <4>2. role[e] = "owner"
        <5>1. CASE Join(p) \/ BanStranger(p)
          BY <3>2, <5>1 DEF Join, BanStranger, IInv, TypeOK
        <5>2. CASE Remove(p) \/ Unban(p)  BY <5>2 DEF Remove, Unban
        <5>3. CASE Promote(p) \/ Demote(p) \/ Ban(p)
          BY <3>2, <5>3 DEF Promote, Demote, Ban, SetRole, IInv, TypeOK
        <5> QED  BY <2>3, <3>5, <5>1, <5>2, <5>3 DEF Writes
      <4> QED  BY <3>3, <4>1, <4>2
    <3> QED  BY <3>4, <3>5
  <2> QED  BY <2>1, <2>2, <2>3
<1> QED  BY <1>1, <1>2

\* Requests that do not overlap leave at most one owner, the one that the
\* community's own row names, through any number of transfers.
THEOREM OwnerNamed == Spec => []OwnerIsCreator
<1>1. Init => OwnerIsCreator  BY DEF Init, OwnerIsCreator
<1> QED  BY <1>1, OwnerStep, AlwaysInv, PTL DEF Spec

LEMMA ExactStep == IInv /\ CountIsExact /\ [Next]_vars => CountIsExact'
<1> SUFFICES ASSUME IInv, CountIsExact, [Next]_vars, oddity' = "none"
             PROVE  member_count' = Cardinality(Members')
  BY DEF CountIsExact
<1>1. CASE UNCHANGED vars
  <2>1. Members' = Members  BY <1>1 DEF vars, Members
  <2> QED  BY <1>1, <2>1 DEF vars, CountIsExact
<1>2. CASE Next
  <2>1. PICK p \in Request : Writes(p) \/ Reads(p)  BY <1>2 DEF Next, Writes, Reads
  <2>2. CASE Reads(p)
    <3>1. UNCHANGED <<role, member_count, oddity>>  BY <2>2, ReadsAreGood DEF IInv
    <3>2. Members' = Members  BY <3>1 DEF Members
    <3> QED  BY <3>1, <3>2 DEF CountIsExact
  <2>3. CASE Writes(p)
    <3> DEFINE t == session[p].target
    <3>1. Fresh(session[p]) /\ oddity = "none"  BY <2>3, WritesNote, NoteFresh
    <3>2. session[p] \in Session /\ t \in Entity /\ session[p].actor \in Entity
      BY DEF IInv, TypeOK, Session
    <3>3. Checked(session[p]) /\ session[p].state = "ready"
      BY <2>3, WritesAreQuiet DEF IInv, Sessions
    <3>4. role[t] = session[p].its /\ role[session[p].actor] = session[p].mine
      BY <3>1 DEF Fresh
    <3>5. /\ Members \in SUBSET Entity /\ IsFiniteSet(Members)
          /\ member_count = Cardinality(Members) /\ member_count \in Nat
      BY <3>1, CountFacts DEF IInv, CountIsExact, TypeOK, Members
    <3>6. CASE Join(p)
      <4>1. Members' = Members \cup {session[p].actor} /\ session[p].actor \notin Members
        BY <3>2, <3>6 DEF Join, Members, IInv, TypeOK
      <4>2. Cardinality(Members') = Cardinality(Members) + 1  BY <3>5, <4>1, FS_AddElement
      <4> QED  BY <3>5, <3>6, <4>2 DEF Join, More
    <3>7. CASE Remove(p) \/ Ban(p)
      <4>1. session[p].its \notin {"none", "banned"}
        <5>1. session[p].its # "banned"
          <6>1. Note(p, session[p].its = "banned")  BY <3>7 DEF Remove, Ban, SetRole
          <6> QED  BY <6>1 DEF Note
        <5>2. CASE Remove(p)
          <6>1. CASE session[p].op = "leave"
            BY <3>3, <5>1, <6>1 DEF Checked, MayAsk, Single
          <6>2. CASE session[p].op = "kick"
            BY <3>3, <5>1, <6>2 DEF Checked, MayDo, Single
          <6> QED  BY <5>1, <5>2, <6>1, <6>2 DEF Remove
        <5>3. CASE Ban(p)  BY <5>1, <5>3 DEF Ban
        <5> QED  BY <3>7, <5>2, <5>3
      <4>2. t \in Members /\ t \in session[p].held
        BY <3>1, <3>2, <3>4, <4>1, FreshTarget DEF Members, IInv
      <4>3. Members' = Members \ {t}
        <5>1. CASE Remove(p)  BY <3>2, <4>2, <5>1 DEF Remove, Members
        <5>2. CASE Ban(p)  BY <3>2, <5>2 DEF Ban, SetRole, Members, IInv, TypeOK
        <5> QED  BY <3>7, <5>1, <5>2
      <4>4. Cardinality(Members') = Cardinality(Members) - 1 /\ Cardinality(Members') \in Nat
        BY <3>5, <4>2, <4>3, FS_RemoveElement, FS_CardinalityType
      <4>5. member_count' = Fewer  BY <3>7 DEF Remove, Ban
      <4> QED  BY <3>5, <4>4, <4>5 DEF Fewer
    <3>8. CASE Promote(p) \/ Demote(p) \/ Transfer(p) \/ BanStranger(p) \/ Unban(p)
      <4>1. Members' = Members
        <5>1. CASE Promote(p) \/ Demote(p)
          <6>1. Note(p, session[p].its = "banned")  BY <5>1 DEF Promote, Demote, SetRole
          <6>2. session[p].its # "banned"  BY <6>1 DEF Note
          <6>3. session[p].its # "none"
            BY <3>3, <5>1 DEF Promote, Demote, SetRole, Checked, MayDo, Single
          <6> QED
            BY <3>2, <3>4, <5>1, <6>2, <6>3 DEF Promote, Demote, SetRole, Members, IInv, TypeOK
        <5>2. CASE Transfer(p)
          <6>1. session[p].its \notin {"none", "banned"} /\ session[p].mine = "owner"
            BY <3>3, <5>2 DEF Transfer, Checked, MayAsk, MayDo, Single
          <6> QED
            BY <3>2, <3>4, <5>2, <6>1 DEF Transfer, HandedOver, Members, IInv, TypeOK
        <5>3. CASE BanStranger(p)
          BY <3>2, <5>3 DEF BanStranger, Members, IInv, TypeOK
        <5>4. CASE Unban(p)
          <6>1. session[p].its = "banned"
            BY <3>3, <5>4 DEF Unban, Checked, MayDo, Single
          <6> QED  BY <3>2, <3>4, <5>4, <6>1 DEF Unban, Members
        <5> QED  BY <3>8, <5>1, <5>2, <5>3, <5>4
      <4>2. member_count' = member_count
        BY <3>8 DEF Promote, Demote, Transfer, BanStranger, Unban
      <4> QED  BY <3>5, <4>1, <4>2
    <3> QED  BY <2>3, <3>6, <3>7, <3>8 DEF Writes
  <2> QED  BY <2>1, <2>2, <2>3
<1> QED  BY <1>1, <1>2

\* Every operation keeps its books: member_count is the number of members as
\* long as requests do not overlap and no ban is undone but by an unban.
THEOREM CountRight == Spec => []CountIsExact
<1>1. Init => CountIsExact
  <2>1. Init => Members = {Founder}  BY DEF Init, Members
  <2> QED  BY <2>1, FS_Singleton DEF Init, CountIsExact
<1> QED  BY <1>1, ExactStep, AlwaysInv, PTL DEF Spec

=============================================================================
