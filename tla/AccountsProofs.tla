--------------------------- MODULE AccountsProofs ---------------------------
(* Theorems about Accounts, for any number of token pairs and requests and *)
(* any lives.  A committed change of password ends what it should because  *)
(* the row it has locked lets no second change read the clock meanwhile,   *)
(* and because token:inv lives as long as a refresh token from its second. *)
EXTENDS Accounts, TLAPS

USE LivesAssumption

\* Session by session: the clock is read on the way into "set".
Timed(s) ==
  /\ s.changes => s.state \in {"rows", "set", "commit"}
  /\ s.state = "set" => s.changes
  /\ s.state \notin {"set", "commit"} => s.stamp = 0

\* token:inv refuses pairs of this age, and will for the rest of their lives.
Covers(a) == a < REFRESH => (inv.age <= a /\ a + inv.left >= REFRESH)

\* What a session that changes the password may rely on.
Covered(s) ==
  /\ (s.changes /\ s.state = "set") => \A t \in ended : Valid(t, "refresh") => age[t] >= s.stamp
  /\ (s.changes /\ s.state = "commit") => Covers(s.stamp)

OneChange == \A p, q \in Request : (session[p].changes /\ session[q].changes) => p = q

IInv ==
  /\ TypeOK
  /\ \A p \in Request : Timed(session[p]) /\ Covered(session[p])
  /\ OneChange
  /\ \A t \in ended : Covers(age[t])
  /\ RevokedStaysOut

-----------------------------------------------------------------------------

LEMMA Numbers ==
  /\ ACCESS \in Nat /\ REFRESH \in Nat /\ SUSPENSION \in Nat
  /\ ACCESS < REFRESH
  /\ \A kind \in Kind : Life(kind) \in Nat /\ Life(kind) <= REFRESH
  /\ Expired \in Nat /\ Expired = REFRESH + 1 /\ 0 \in Age /\ Expired \in Age
  /\ Life("refresh") = REFRESH /\ Life("access") = ACCESS
BY DEF Kind, Life, Expired, Age

LEMMA ClosedSession == Closed \in Session /\ Timed(Closed) /\ ~ Closed.changes
BY Numbers DEF Closed, Session, State, Row, Blank, Never, Column, Timed, Age

LEMMA OlderAge ==
  ASSUME NEW a \in Age
  PROVE  Older(a) \in Age /\ (a < REFRESH => Older(a) = a + 1) /\ a <= Older(a)
         /\ (a >= REFRESH => Older(a) >= REFRESH)
BY Numbers DEF Older, Age

LEMMA SoonerRow ==
  ASSUME NEW row \in Row
  PROVE  Sooner(row) \in Row
BY Numbers DEF Sooner, Row, Never

\* A step of one request that leaves everything but the sessions alone.
LEMMA GoKeeps ==
  ASSUME IInv, NEW p \in Request, NEW s \in Session, Go(p, s),
         Timed(s),
         s.changes => (session[p].changes \/ RowFree(p)),
         (s.changes /\ s.state = "set") => s.stamp = 0,
         (s.changes /\ s.state = "commit") => s.stamp = Expired
  PROVE  IInv'
<1>1. session' = [session EXCEPT ![p] = s] /\ session'[p] = s
  BY DEF Go, IInv, TypeOK
<1>2. TypeOK'
  BY DEF Go, IInv, TypeOK
<1>3. RevokedStaysOut'
  BY DEF Go, IInv, RevokedStaysOut, Valid
<1>4. OneChange'
  <2>1. \A q \in Request : session'[q] = IF q = p THEN s ELSE session[q]
    BY <1>1 DEF IInv, TypeOK
  <2> QED BY <2>1 DEF IInv, OneChange, RowFree
<1>5. \A t \in ended' : Covers(age[t])'
  BY DEF Go, IInv, Covers
<1>6. ASSUME NEW q \in Request PROVE (Timed(session[q]) /\ Covered(session[q]))'
  <2>1. CASE q = p
    <3>1. Timed(s)'
      BY DEF Timed
    <3>2. ASSUME s.changes, s.state = "set", NEW t \in ended', Valid(t, "refresh")'
          PROVE  age'[t] >= s.stamp
      <4>1. age' = age /\ t \in ended /\ Valid(t, "refresh") /\ age[t] \in Age
        BY <3>2 DEF Go, IInv, TypeOK, Valid
      <4> QED BY <4>1, <3>2 DEF Age
    <3>3. (s.changes /\ s.state = "commit") => Covers(s.stamp)'
      BY Numbers DEF Covers
    <3> QED BY <2>1, <1>1, <3>1, <3>2, <3>3 DEF Covered
  <2>2. CASE q # p
    BY <2>2, <1>1 DEF Go, IInv, TypeOK, Timed, Covered, Covers, Valid
  <2> QED BY <2>1, <2>2
<1> QED BY <1>2, <1>3, <1>4, <1>5, <1>6 DEF IInv

\* What the request has before a step of its own.
LEMMA Opened ==
  ASSUME IInv, NEW p \in Request
  PROVE  /\ session[p] \in Session /\ Timed(session[p])
         /\ session[p].token \in SUBSET Token
         /\ account \in Row
BY DEF IInv, TypeOK, Session

LEMMA AssignSession ==
  ASSUME NEW s \in Session, NEW read \in Row, NEW row \in Row
  PROVE  /\ Assign(s, read, row) \in Session
         /\ Assign(s, read, row).changes = s.changes
         /\ Assign(s, read, row).state = s.state
         /\ Assign(s, read, row).stamp = s.stamp
<1> DEFINE put == {c \in Column : row[c] # read[c]}
           new == [c \in Column |-> IF c \in put THEN row[c] ELSE s.row[c]]
<1>1. s.row \in Row BY DEF Session
<1>2. put \in SUBSET Column OBVIOUS
<1>3. new \in Row
  BY <1>1 DEF Row, Column
<1>4. s.put \cup put \in SUBSET Column BY <1>2 DEF Session
<1>5. Assign(s, read, row) = [[s EXCEPT !.put = s.put \cup put] EXCEPT !.row = new]
  BY DEF Assign, Session
<1> QED BY <1>3, <1>4, <1>5 DEF Session

LEMMA BlankRow == Blank \in Row /\ [Blank EXCEPT !.active = FALSE] \in Row
<1>1. Never \in Never .. SUSPENSION
  BY Numbers DEF Never
<1>2. Blank \in Row
  BY <1>1 DEF Blank, Row
<1>3. \A row \in Row : [row EXCEPT !.active = FALSE] \in Row
  BY DEF Row
<1> QED BY <1>2, <1>3

\* The handlers that only move their own request on.
LEMMA AuthenticateKeeps ==
  ASSUME IInv, NEW p \in Request, Authenticate(p)
  PROVE  IInv'
<1> USE Opened, ClosedSession, BlankRow
<1>1. ASSUME NEW t \in Token, Present(p, t) PROVE IInv'
  <2> DEFINE s == [Closed EXCEPT !.state = "checked", !.token = {t}]
  <2>1. s \in Session /\ Timed(s) /\ ~ s.changes
    BY DEF Session, State, Timed, Closed
  <2> QED BY <1>1, <2>1, GoKeeps DEF Present
<1>2. CASE CheckInvalidation(p)
  <2> DEFINE s == IF \E t \in session[p].token : Refused(t)
                    THEN Closed ELSE [session[p] EXCEPT !.state = "known"]
  <2>1. s \in Session /\ Timed(s) /\ ~ s.changes
    BY <1>2 DEF CheckInvalidation, Session, State, Timed
  <2> QED BY <1>2, <2>1, GoKeeps DEF CheckInvalidation
<1>3. CASE LoadEntity(p)
  <2> DEFINE s == [session[p] EXCEPT !.state = "in"]
  <2>1. s \in Session /\ Timed(s) /\ ~ s.changes
    BY <1>3 DEF LoadEntity, Session, State, Timed
  <2>2. CASE account.active
    BY <1>3, <2>1, <2>2, GoKeeps DEF LoadEntity
  <2>3. CASE ~ account.active /\ account.until = 0
    <3> DEFINE r == Assign(s, account, Blank)
    <3>1. /\ r \in Session /\ r.changes = s.changes
          /\ r.state = s.state /\ r.stamp = s.stamp
      <4> HIDE DEF s
      <4> QED BY <2>1, AssignSession
    <3>2. Timed(r) /\ ~ r.changes
      BY <2>1, <3>1 DEF Timed
    <3>3. Go(p, r)
      BY <1>3, <2>3 DEF LoadEntity
    <3> HIDE DEF r
    <3> QED BY <3>1, <3>2, <3>3, GoKeeps
  <2>4. CASE ~ account.active /\ account.until # 0
    BY <1>3, <2>4, GoKeeps DEF LoadEntity
  <2> QED BY <2>2, <2>3, <2>4
<1> QED BY <1>1, <1>2, <1>3 DEF Authenticate

LEMMA DecideKeeps ==
  ASSUME IInv, NEW p \in Request, NEW row \in Row, Decide(p, row)
  PROVE  IInv'
<1> DEFINE r == Assign(Closed, account, row)
           s == [r EXCEPT !.state = "commit"]
<1>1. r \in Session /\ ~ r.changes /\ r.stamp = 0
  BY Opened, ClosedSession, AssignSession DEF Closed
<1>2. s \in Session /\ Timed(s) /\ ~ s.changes
  <2> HIDE DEF r
  <2> QED BY <1>1 DEF Session, State, Timed
<1> QED BY <1>2, GoKeeps DEF Decide

LEMMA AdministerKeeps ==
  ASSUME IInv, NEW p \in Request, Administer(p)
  PROVE  IInv'
<1>1. /\ [active |-> FALSE, until |-> SUSPENSION] \in Row
      /\ [account EXCEPT !.active = FALSE] \in Row
      /\ [account EXCEPT !.active = TRUE] \in Row
  <2>1. SUSPENSION \in Never .. SUSPENSION
    BY Numbers DEF Never
  <2>2. \A row \in Row : [row EXCEPT !.active = FALSE] \in Row /\ [row EXCEPT !.active = TRUE] \in Row
    BY DEF Row
  <2>3. [active |-> FALSE, until |-> SUSPENSION] \in Row
    BY <2>1 DEF Row
  <2> QED BY <2>2, <2>3, Opened
<1> QED BY <1>1, DecideKeeps DEF Administer, SuspendEntity, DeactivateEntity, ReactivateEntity

LEMMA RefreshKeeps ==
  ASSUME IInv, NEW p \in Request,
         \/ \E t \in Token : PresentRefresh(p, t)
         \/ RefreshLoads(p) \/ RefreshChecksInvalidation(p) \/ Rotate(p) \/ Login(p)
  PROVE  IInv'
<1> USE Opened, ClosedSession
<1>1. ASSUME NEW t \in Token, PresentRefresh(p, t) PROVE IInv'
  <2> DEFINE s == [Closed EXCEPT !.state = "refreshing", !.token = {t}]
  <2>1. s \in Session /\ Timed(s) /\ ~ s.changes
    BY DEF Session, State, Timed, Closed
  <2> QED BY <1>1, <2>1, GoKeeps DEF PresentRefresh
<1>2. CASE RefreshLoads(p)
  <2> DEFINE s == IF MayRefresh(account) THEN [session[p] EXCEPT !.state = "active"] ELSE Closed
  <2>1. s \in Session /\ Timed(s) /\ ~ s.changes
    BY <1>2 DEF RefreshLoads, Session, State, Timed
  <2> QED BY <1>2, <2>1, GoKeeps DEF RefreshLoads
<1>3. CASE RefreshChecksInvalidation(p)
  <2> DEFINE s == IF \E t \in session[p].token : Refused(t)
                    THEN Closed ELSE [session[p] EXCEPT !.state = "rotate"]
  <2>1. s \in Session /\ Timed(s) /\ ~ s.changes
    BY <1>3 DEF RefreshChecksInvalidation, Session, State, Timed
  <2> QED BY <1>3, <2>1, GoKeeps DEF RefreshChecksInvalidation
<1>4. CASE Rotate(p)
  <2> DEFINE rows == session[p].token \X {"refresh"}
             s == [session[p] EXCEPT !.state = "issue", !.token = {}, !.rows = rows \ blacklist]
  <2>1. rows \ blacklist \in SUBSET (Token \X Kind)
    BY DEF Kind
  <2>2. s \in Session /\ Timed(s) /\ ~ s.changes
    BY <1>4, <2>1 DEF Rotate, Session, State, Timed
  <2> QED BY <1>4, <2>2, GoKeeps DEF Rotate
<1>5. CASE Login(p)
  <2> DEFINE s == [Closed EXCEPT !.state = "issue"]
  <2>1. s \in Session /\ Timed(s) /\ ~ s.changes
    BY DEF Session, State, Timed, Closed
  <2> QED BY <1>5, <2>1, GoKeeps DEF Login
<1> QED BY <1>1, <1>2, <1>3, <1>4, <1>5

LEMMA HandlerGoKeeps ==
  ASSUME IInv, NEW p \in Request,
         \/ Handle(p) \/ Logout(p) \/ ChangePassword(p) \/ ResetPassword(p)
         \/ DeactivateAccount(p) \/ SetInvalidationFails(p) \/ Rollback(p)
  PROVE  IInv'
<1> USE Opened, ClosedSession
<1>1. CASE Handle(p)
  <2> DEFINE s == [session[p] EXCEPT !.state = "commit", !.token = {}]
  <2>1. s \in Session /\ Timed(s) /\ ~ s.changes
    BY <1>1 DEF Handle, Session, State, Timed
  <2> QED BY <1>1, <2>1, GoKeeps DEF Handle
<1>2. CASE Logout(p)
  <2>1. PICK kinds \in {{"access"}, Kind} :
          Go(p, [session[p] EXCEPT !.state = "rows", !.token = {},
                                   !.todo = session[p].token \X kinds])
    BY <1>2 DEF Logout
  <2> DEFINE s == [session[p] EXCEPT !.state = "rows", !.token = {},
                                     !.todo = session[p].token \X kinds]
  <2>2. session[p].token \X kinds \in SUBSET (Token \X Kind)
    BY DEF Kind
  <2>3. s \in Session /\ Timed(s) /\ ~ s.changes
    BY <1>2, <2>2 DEF Logout, Session, State, Timed
  <2> QED BY <2>1, <2>3, GoKeeps
<1>3. CASE ChangePassword(p)
  <2> DEFINE s == [session[p] EXCEPT !.state = "rows", !.changes = TRUE, !.token = {},
                                     !.todo = session[p].token \X {"access"}]
  <2>1. session[p].token \X {"access"} \in SUBSET (Token \X Kind)
    BY DEF Kind
  <2>2. s \in Session /\ Timed(s) /\ s.state = "rows"
    BY <1>3, <2>1 DEF ChangePassword, Session, State, Timed
  <2> QED BY <1>3, <2>2, GoKeeps DEF ChangePassword
<1>4. CASE ResetPassword(p)
  <2> DEFINE s == [Closed EXCEPT !.state = "set", !.changes = TRUE]
  <2>1. s \in Session /\ Timed(s) /\ s.state = "set" /\ s.stamp = 0
    BY DEF Session, State, Timed, Closed
  <2> QED BY <1>4, <2>1, GoKeeps DEF ResetPassword
<1>5. CASE DeactivateAccount(p)
  <2> DEFINE r == Assign(session[p], Blank, [Blank EXCEPT !.active = FALSE])
             s == [r EXCEPT !.state = "commit", !.token = {}]
  <2>1. r \in Session /\ r.changes = session[p].changes /\ r.stamp = session[p].stamp
    BY AssignSession, BlankRow
  <2>2. s \in Session /\ Timed(s) /\ ~ s.changes
    <3> HIDE DEF r
    <3> QED BY <1>5, <2>1 DEF DeactivateAccount, Session, State, Timed
  <2> QED BY <1>5, <2>2, GoKeeps DEF DeactivateAccount
<1>6. CASE SetInvalidationFails(p)
  <2> DEFINE s == [session[p] EXCEPT !.state = "commit", !.stamp = Expired]
  <2>1. s \in Session /\ Timed(s) /\ s.changes = session[p].changes
        /\ s.state = "commit" /\ s.stamp = Expired
    BY <1>6, Numbers DEF SetInvalidationFails, Session, State, Timed
  <2> QED BY <1>6, <2>1, GoKeeps DEF SetInvalidationFails
<1>7. CASE Rollback(p)
  BY <1>7, GoKeeps DEF Rollback
<1> QED BY <1>1, <1>2, <1>3, <1>4, <1>5, <1>6, <1>7

LEMMA InsertKeeps ==
  ASSUME IInv, NEW p \in Request, NEW row \in Token \X Kind,
         InsertRow(p, row) \/ InsertDuplicate(p, row)
  PROVE  IInv'
<1> USE Opened, ClosedSession
<1>1. CASE InsertRow(p, row)
  <2> DEFINE s == AfterRow(session[p], row)
  <2>1. /\ session[p].todo \ {row} \in SUBSET (Token \X Kind)
        /\ session[p].rows \cup {row} \in SUBSET (Token \X Kind)
    BY DEF Session
  <2>2. s \in Session /\ s.changes = session[p].changes /\ s.stamp = session[p].stamp
        /\ s.state = IF session[p].todo # {row} THEN "rows"
                     ELSE IF s.changes THEN "set" ELSE "commit"
    BY <2>1 DEF AfterRow, Session, State
  <2>3. session[p].stamp = 0
    BY <1>1 DEF InsertRow, Timed
  <2>4. Timed(s)
    BY <2>2, <2>3 DEF Timed
  <2> HIDE DEF s
  <2>5. Go(p, s)
    BY <1>1 DEF InsertRow, s
  <2> QED BY <2>2, <2>3, <2>4, <2>5, GoKeeps
<1>2. CASE InsertDuplicate(p, row)
  BY <1>2, GoKeeps DEF InsertDuplicate
<1> QED BY <1>1, <1>2

-----------------------------------------------------------------------------

LEMMA SetInvalidationKeeps ==
  ASSUME IInv, NEW p \in Request, SetInvalidation(p)
  PROVE  IInv'
<1> DEFINE s == session[p]
<1>1. s \in Session /\ s.state = "set" /\ s.changes /\ s.stamp \in Age
  BY Opened DEF SetInvalidation, Timed, Session
<1>2. /\ session' = [session EXCEPT ![p] = [s EXCEPT !.state = "commit"]]
      /\ inv' = [age |-> s.stamp, left |-> REFRESH]
      /\ UNCHANGED <<account, age, blacklist, revoked, ended>>
  BY DEF SetInvalidation, InvalidationLife
<1>3. [s EXCEPT !.state = "commit"] \in Session
  BY <1>1 DEF Session, State
<1>4. inv' \in Invalidation
  BY <1>1, <1>2, Numbers DEF Invalidation
<1>5. TypeOK'
  BY <1>2, <1>3, <1>4 DEF IInv, TypeOK
<1>6. RevokedStaysOut'
  BY <1>2 DEF IInv, RevokedStaysOut, Valid
<1>7. \A q \in Request : session'[q].changes = session[q].changes
  BY <1>2, <1>1 DEF IInv, TypeOK, Session
<1>8. OneChange'
  BY <1>7 DEF IInv, OneChange
<1>9. ASSUME NEW t \in ended' PROVE Covers(age[t])'
  <2>1. t \in Token /\ t \in ended /\ age'[t] = age[t] /\ age[t] \in Age
    BY <1>2 DEF IInv, TypeOK
  <2>2. age[t] < REFRESH => age[t] >= s.stamp
    BY <1>1, <2>1, Numbers DEF IInv, Covered, Valid
  <2> QED BY <1>1, <1>2, <2>1, <2>2, Numbers DEF Covers, Age
<1>10. ASSUME NEW q \in Request PROVE (Timed(session[q]) /\ Covered(session[q]))'
  <2>1. CASE q = p
    <3>1. session'[q].state = "commit" /\ session'[q].stamp = s.stamp /\ session'[q].changes
      BY <1>1, <1>2, <2>1 DEF IInv, TypeOK, Session
    <3>2. inv'.age = s.stamp /\ inv'.left = REFRESH /\ s.stamp \in Nat
      BY <1>1, <1>2, Numbers DEF Age
    <3>3. inv'.age <= s.stamp /\ s.stamp + inv'.left >= REFRESH
      BY <3>2, Numbers
    <3> QED BY <3>1, <3>3 DEF Timed, Covered, Covers
  <2>2. CASE q # p
    <3>1. session'[q] = session[q] /\ ~ session[q].changes
      BY <1>1, <1>2, <2>2 DEF IInv, TypeOK, OneChange
    <3> QED BY <3>1 DEF IInv, Timed, Covered
  <2> QED BY <2>1, <2>2
<1> QED BY <1>5, <1>6, <1>8, <1>9, <1>10 DEF IInv

LEMMA IssueKeeps ==
  ASSUME IInv, NEW p \in Request, NEW t \in Token, Issue(p, t)
  PROVE  IInv'
<1> USE Opened, ClosedSession
<1> DEFINE s == session[p]
<1>1. /\ s \in Session /\ s.state = "issue" /\ s.rows \in SUBSET (Token \X Kind)
      /\ session' = [session EXCEPT ![p] = Closed]
      /\ age' = [age EXCEPT ![t] = 0]
      /\ blacklist' = blacklist \cup s.rows
      /\ revoked' = (revoked \ ({t} \X Kind)) \cup s.rows
      /\ ended' = ended \ {t}
      /\ UNCHANGED <<account, inv>>
  BY DEF Issue, Session
<1>2. TypeOK'
  BY <1>1, Numbers DEF IInv, TypeOK
<1>3. \A u \in Token : u # t => age'[u] = age[u]
  BY <1>1 DEF IInv, TypeOK
<1>4. RevokedStaysOut'
  <2>1. ASSUME NEW u \in Token, NEW kind \in Kind, <<u, kind>> \in revoked', Valid(u, kind)'
        PROVE  <<u, kind>> \in blacklist'
    <3>1. CASE <<u, kind>> \in s.rows
      BY <3>1, <1>1
    <3>2. CASE <<u, kind>> \notin s.rows
      <4>1. <<u, kind>> \in revoked /\ u # t
        BY <2>1, <3>2, <1>1
      <4>2. Valid(u, kind)
        BY <4>1, <2>1, <1>3 DEF Valid
      <4> QED BY <4>1, <4>2, <1>1 DEF IInv, RevokedStaysOut
    <3> QED BY <3>1, <3>2
  <2> QED BY <2>1 DEF RevokedStaysOut
<1>5. \A q \in Request : session'[q] = IF q = p THEN Closed ELSE session[q]
  BY <1>1 DEF IInv, TypeOK
<1>6. OneChange'
  BY <1>5 DEF IInv, OneChange
<1>7. \A u \in ended' : u \in ended /\ u \in Token /\ age'[u] = age[u]
  BY <1>1, <1>3 DEF IInv, TypeOK
<1>8. \A u \in ended' : Covers(age[u])'
  BY <1>7, <1>1 DEF IInv, Covers
<1>9. ASSUME NEW q \in Request PROVE (Timed(session[q]) /\ Covered(session[q]))'
  <2>1. CASE q = p
    BY <2>1, <1>5 DEF Timed, Covered
  <2>2. CASE q # p
    <3>1. session'[q] = session[q] /\ inv' = inv
      BY <2>2, <1>5, <1>1
    <3> QED BY <3>1, <1>7 DEF IInv, Timed, Covered, Covers, Valid
  <2> QED BY <2>1, <2>2
<1> QED BY <1>2, <1>4, <1>6, <1>8, <1>9 DEF IInv

LEMMA CommitKeeps ==
  ASSUME IInv, NEW p \in Request, Commit(p)
  PROVE  IInv'
<1> USE Opened, ClosedSession
<1> DEFINE s == session[p]
<1>1. /\ s \in Session /\ s.state = "commit" /\ s.rows \in SUBSET (Token \X Kind)
      /\ s.stamp \in Age /\ s.row \in Row
      /\ account' = [c \in Column |-> IF c \in s.put THEN s.row[c] ELSE account[c]]
      /\ session' = [session EXCEPT ![p] = Closed]
      /\ blacklist' = blacklist \cup s.rows
      /\ revoked' = revoked \cup s.rows
      /\ ended' = IF s.changes THEN ended \cup EndedBy(s.stamp) ELSE ended
      /\ UNCHANGED <<age, inv>>
  BY DEF Commit, Session
<1>2. account' \in Row
  BY <1>1 DEF Row, Column
<1>3. ended' \in SUBSET Token
  BY <1>1 DEF IInv, TypeOK, EndedBy
<1>4. TypeOK'
  BY <1>1, <1>2, <1>3 DEF IInv, TypeOK
<1>5. RevokedStaysOut'
  BY <1>1 DEF IInv, RevokedStaysOut, Valid
<1>6. \A q \in Request : session'[q] = IF q = p THEN Closed ELSE session[q]
  BY <1>1 DEF IInv, TypeOK
<1>7. OneChange'
  BY <1>6 DEF IInv, OneChange
<1>8. ASSUME NEW t \in ended' PROVE Covers(age[t])'
  <2>1. CASE t \in ended
    BY <2>1, <1>1 DEF IInv, Covers
  <2>2. CASE t \notin ended
    <3>1. s.changes /\ t \in Token /\ age[t] >= s.stamp
      BY <2>2, <1>1, <1>8 DEF EndedBy
    <3>2. Covers(s.stamp)
      BY <3>1, <1>1 DEF IInv, Covered
    <3>3. age[t] \in Nat /\ s.stamp \in Nat /\ inv.age \in Nat /\ inv.left \in Nat
      BY <3>1, <1>1, Numbers DEF IInv, TypeOK, Age, Invalidation
    <3> QED BY <3>1, <3>2, <3>3, <1>1, Numbers DEF Covers
  <2> QED BY <2>1, <2>2
<1>9. ASSUME NEW q \in Request PROVE (Timed(session[q]) /\ Covered(session[q]))'
  <2>1. CASE q = p
    BY <2>1, <1>6 DEF Timed, Covered
  <2>2. CASE q # p
    <3>1. session'[q] = session[q] /\ inv' = inv /\ age' = age
      BY <2>2, <1>6, <1>1
    <3>2. session[q].changes => ended' = ended
      BY <2>2, <1>1 DEF IInv, OneChange
    <3> QED BY <3>1, <3>2 DEF IInv, Timed, Covered, Covers, Valid
  <2> QED BY <2>1, <2>2
<1> QED BY <1>4, <1>5, <1>7, <1>8, <1>9 DEF IInv

LEMMA CleanupKeeps ==
  ASSUME IInv, CleanupBlacklist
  PROVE  IInv'
<1>1. TypeOK'
  BY DEF CleanupBlacklist, IInv, TypeOK
<1>2. RevokedStaysOut'
  <2>1. ASSUME NEW t \in Token, NEW kind \in Kind, <<t, kind>> \in revoked, Valid(t, kind)
        PROVE  <<t, kind>> \in blacklist'
    <3>1. age[t] \in Nat /\ Life(kind) \in Nat
      BY Numbers DEF IInv, TypeOK, Age
    <3>2. ~ Stale(<<t, kind>>)
      BY <3>1, <2>1 DEF Stale, Valid
    <3> QED BY <3>2, <2>1 DEF IInv, RevokedStaysOut, CleanupBlacklist
  <2> QED BY <2>1 DEF RevokedStaysOut, CleanupBlacklist, Valid
<1>3. \A p \in Request : (Timed(session[p]) /\ Covered(session[p]))'
  BY DEF CleanupBlacklist, IInv, Timed, Covered, Covers, Valid
<1> QED BY <1>1, <1>2, <1>3 DEF CleanupBlacklist, IInv, OneChange, Covers

LEMMA LoseKeeps ==
  ASSUME IInv, LoseInvalidation
  PROVE  IInv'
<1> DEFINE new(p) == IF session[p].changes /\ session[p].state = "commit"
                       THEN [session[p] EXCEPT !.stamp = Expired] ELSE session[p]
<1>1. \A p \in Request : session'[p] = new(p) /\ session[p] \in Session
  BY DEF LoseInvalidation, IInv, TypeOK
<1>2. \A p \in Request : session'[p] \in Session /\ session'[p].changes = session[p].changes
                         /\ session'[p].state = session[p].state
                         /\ session'[p].stamp = new(p).stamp
  BY <1>1, Numbers DEF Session
<1>3. TypeOK'
  <2>1. session' \in [Request -> Session]
    BY <1>2 DEF LoseInvalidation
  <2>2. None \in Invalidation
    BY Numbers DEF None, Invalidation, Age
  <2> QED BY <2>1, <2>2 DEF LoseInvalidation, IInv, TypeOK
<1>4. ASSUME NEW p \in Request PROVE (Timed(session[p]) /\ Covered(session[p]))'
  <2>1. CASE session[p].changes /\ session[p].state = "commit"
    <3>1. session'[p].stamp = Expired
      BY <1>1, <2>1 DEF Session
    <3> QED BY <1>2, <2>1, <3>1, Numbers DEF Timed, Covered, Covers, LoseInvalidation
  <2>2. CASE ~ (session[p].changes /\ session[p].state = "commit")
    <3>1. session'[p] = session[p] /\ ended' = {}
      BY <1>1, <2>2 DEF LoseInvalidation
    <3> QED BY <3>1, <2>2 DEF IInv, Timed, Covered
  <2> QED BY <2>1, <2>2
<1> QED BY <1>2, <1>3, <1>4 DEF LoseInvalidation, IInv, OneChange, RevokedStaysOut, Valid

LEMMA TickCovers ==
  ASSUME IInv, Tick, NEW a \in Age, Covers(a)
  PROVE  Older(a) < REFRESH => (inv'.age <= Older(a) /\ Older(a) + inv'.left >= REFRESH)
<1> DEFINE b == Older(a)
<1>1. inv.age \in Nat /\ inv.left \in Nat /\ inv.age \in Age /\ a \in Nat /\ b \in Age
  BY Numbers, OlderAge DEF IInv, TypeOK, Age, Invalidation
<1>2. ASSUME b < REFRESH
      PROVE  inv'.age <= b /\ b + inv'.left >= REFRESH
  <2>1. a < REFRESH /\ b = a + 1
    BY <1>2, OlderAge, Numbers DEF Age
  <2>2. inv.age <= a /\ a + inv.left >= REFRESH /\ inv.left > 1
    BY <2>1, <1>2, <1>1, Numbers DEF Covers
  <2>3. inv' = [age |-> Older(inv.age), left |-> inv.left - 1]
    <3>1. ~ inv.left <= 1
      BY <2>2, <1>1
    <3> QED BY <3>1 DEF Tick
  <2>4. Older(inv.age) = inv.age + 1
    BY <2>1, <2>2, <1>1, OlderAge, Numbers
  <2> QED BY <2>1, <2>2, <2>3, <2>4, <1>1, Numbers
<1> QED BY <1>2

LEMMA TickKeeps ==
  ASSUME IInv, Tick
  PROVE  IInv'
<1>1. /\ age' = [t \in Token |-> Older(age[t])]
      /\ \A t \in Token : age[t] \in Age /\ age'[t] = Older(age[t]) /\ age'[t] \in Age
  BY OlderAge DEF Tick, IInv, TypeOK
<1>2. inv' \in Invalidation
  <2>1. None \in Invalidation
    BY Numbers DEF None, Invalidation, Age
  <2>2. inv.age \in Age /\ inv.left \in 0 .. REFRESH
    BY DEF IInv, TypeOK, Invalidation
  <2>3. CASE inv.left <= 1
    BY <2>1, <2>3 DEF Tick
  <2>4. CASE ~ inv.left <= 1
    <3>1. inv.left - 1 \in 0 .. REFRESH
      BY <2>2, <2>4, Numbers
    <3>2. Older(inv.age) \in Age
      BY <2>2, OlderAge
    <3> QED BY <3>1, <3>2, <2>4 DEF Tick, Invalidation
  <2> QED BY <2>3, <2>4
<1> DEFINE aged(p) == session[p].changes /\ session[p].state \in {"set", "commit"}
           stamp(p) == IF aged(p) THEN Older(session[p].stamp) ELSE session[p].stamp
<1>3. ASSUME NEW p \in Request
      PROVE  /\ session'[p] \in Session
             /\ session'[p].changes = session[p].changes /\ session'[p].state = session[p].state
             /\ session'[p].stamp = stamp(p)
  <2>1. session[p] \in Session /\ session[p].stamp \in Age /\ session[p].row \in Row
    BY DEF IInv, TypeOK, Session
  <2>2. stamp(p) \in Age /\ Sooner(session[p].row) \in Row
    BY <2>1, OlderAge, SoonerRow
  <2>3. session'[p] = [session[p] EXCEPT !.row = Sooner(session[p].row), !.stamp = stamp(p)]
    BY <2>1 DEF Tick, Session
  <2> HIDE DEF stamp
  <2> QED BY <2>1, <2>2, <2>3 DEF Session
<1>4. TypeOK'
  <2>1. session' \in [Request -> Session]
    BY <1>3 DEF Tick
  <2>2. account' \in Row
    BY SoonerRow DEF Tick, IInv, TypeOK
  <2>3. age' \in [Token -> Age]
    BY <1>1
  <2>4. blacklist' \in SUBSET (Token \X Kind) /\ revoked' \in SUBSET (Token \X Kind)
        /\ ended' \in SUBSET Token
    BY DEF Tick, IInv, TypeOK
  <2> QED BY <1>2, <2>1, <2>2, <2>3, <2>4 DEF TypeOK
<1>5. \A t \in Token, kind \in Kind : Valid(t, kind)' => Valid(t, kind)
  BY <1>1, OlderAge, Numbers DEF Valid, Age
<1>6. RevokedStaysOut'
  BY <1>5 DEF Tick, IInv, RevokedStaysOut
<1>7. OneChange'
  BY <1>3 DEF IInv, OneChange
<1>8. \A t \in ended' : t \in ended /\ t \in Token
  BY DEF Tick, IInv, TypeOK
<1>9. \A t \in ended' : Covers(age[t])'
  <2>1. ASSUME NEW t \in ended' PROVE Covers(age[t])'
    <3>1. Covers(age[t]) /\ age[t] \in Age /\ age'[t] = Older(age[t])
      BY <1>1, <1>8 DEF IInv
    <3> QED BY <3>1, TickCovers DEF Covers
  <2> QED BY <2>1
<1>10. ASSUME NEW p \in Request PROVE (Timed(session[p]) /\ Covered(session[p]))'
  <2>1. Timed(session[p]) /\ Covered(session[p]) /\ session[p].stamp \in Age
    BY DEF IInv, TypeOK, Session
  <2>2. Timed(session[p])'
    BY <2>1, <1>3 DEF Timed
  <2>3. ASSUME session[p].changes, session[p].state = "set", NEW t \in ended', Valid(t, "refresh")'
        PROVE  age'[t] >= session'[p].stamp
    <3>1. Valid(t, "refresh") /\ age[t] >= session[p].stamp /\ age[t] \in Age
      BY <2>1, <2>3, <1>1, <1>5, <1>8 DEF Covered, Kind
    <3>2. age'[t] = age[t] + 1
      BY <3>1, <1>1, <1>8, OlderAge, Numbers DEF Valid
    <3>3. session'[p].stamp = session[p].stamp + 1
      <4>1. session[p].stamp < REFRESH
        BY <3>1, <2>1, Numbers DEF Valid, Age
      <4> QED BY <4>1, <2>3, <2>1, <1>3, OlderAge
    <3> QED BY <3>1, <3>2, <3>3, <2>1 DEF Age
  <2>4. ASSUME session[p].changes, session[p].state = "commit"
        PROVE  Covers(session[p].stamp)'
    <3>1. Covers(session[p].stamp)
      BY <2>1, <2>4 DEF Covered
    <3>2. session'[p].stamp = Older(session[p].stamp)
      BY <2>4, <1>3
    <3> QED BY <3>1, <3>2, <2>1, TickCovers DEF Covers
  <2> QED BY <2>2, <2>3, <2>4, <1>3 DEF Covered
<1> QED BY <1>4, <1>6, <1>7, <1>9, <1>10 DEF IInv

-----------------------------------------------------------------------------

LEMMA InitInv == Init => IInv
<1> SUFFICES ASSUME Init PROVE IInv
  OBVIOUS
<1>1. TypeOK
  BY ClosedSession, BlankRow, Numbers DEF Init, TypeOK, None, Invalidation, Age
<1>2. \A p \in Request : session[p] = Closed
  BY DEF Init
<1> QED BY <1>1, <1>2, ClosedSession DEF Init, IInv, Covered, OneChange, RevokedStaysOut

LEMMA NextInv == IInv /\ [Next]_vars => IInv'
<1> SUFFICES ASSUME IInv, [Next]_vars PROVE IInv'
  OBVIOUS
<1>1. ASSUME NEW p \in Request, Handler(p) PROVE IInv'
  BY <1>1, HandlerGoKeeps, InsertKeeps, SetInvalidationKeeps DEF Handler
<1>2. ASSUME NEW p \in Request, Refresh(p) PROVE IInv'
  BY <1>2, RefreshKeeps, IssueKeeps DEF Refresh
<1>3. CASE UNCHANGED vars
  BY <1>3 DEF vars, IInv, TypeOK, Timed, Covered, Covers, OneChange, RevokedStaysOut, Valid
<1> QED BY <1>1, <1>2, <1>3, AuthenticateKeeps, RefreshKeeps, AdministerKeeps, CommitKeeps,
           HandlerGoKeeps, CleanupKeeps, LoseKeeps, TickKeeps DEF Next

THEOREM AlwaysInv == Spec => []IInv
BY InitInv, NextInv, PTL DEF Spec

\* Rows, ages, times and sessions keep their types.
THEOREM TypeCorrect == Spec => []TypeOK
<1>1. IInv => TypeOK
  BY DEF IInv
<1> QED BY <1>1, AlwaysInv, PTL

\* A token revoked by a committed logout or refresh is refused while it is valid.
THEOREM RevokedIsOut == Spec => []RevokedStaysOut
<1>1. IInv => RevokedStaysOut
  BY DEF IInv
<1> QED BY <1>1, AlwaysInv, PTL

\* Every pair issued up to a committed password change is refused for the rest
\* of its life, as long as Redis keeps token:inv.
THEOREM EndedIsOut == Spec => []EndedStaysOut
<1>1. IInv => EndedStaysOut
  <2> SUFFICES ASSUME IInv, NEW t \in ended, Valid(t, "refresh") PROVE Refused(t)
    BY DEF EndedStaysOut
  <2>1. age[t] \in Nat /\ inv.age \in Nat /\ inv.left \in Nat
    BY Numbers DEF IInv, TypeOK, Age, Invalidation
  <2> QED BY <2>1, Numbers DEF IInv, Covers, Valid, Refused
<1> QED BY <1>1, AlwaysInv, PTL

-----------------------------------------------------------------------------
(* How an account that is switched off can come back.                      *)

\* A request that will not let the owner in nor switch the account on.
Barred(s) ==
  /\ s.state \notin {"checked", "known", "active", "rotate", "issue"}
  /\ "active" \in s.put => ~ s.row.active

\* The account is switched off, no access token is alive, and nothing under way
\* would change that.
LockedOut ==
  /\ ~ account.active
  /\ \A t \in Token : ~ Valid(t, "access")
  /\ \A p \in Request : Barred(session[p])

OnlyAdminsUnlock ==
  [][LockedOut /\ ~ (\E p \in Request : ReactivateEntity(p)) => LockedOut']_vars

\* What keeps a session barred: it does not go to a state that lets in, and what
\* it will write of active stays.
LEMMA StaysBarred ==
  ASSUME NEW s, NEW r, Barred(s),
         r.state \notin {"checked", "known", "active", "rotate", "issue"},
         r.put = s.put, r.row = s.row
  PROVE  Barred(r)
BY DEF Barred

LEMMA ClosedBarred == Barred(Closed)
BY DEF Barred, Closed

LEMMA GoBarred ==
  ASSUME TypeOK, LockedOut, NEW p \in Request, NEW s \in Session, Go(p, s), Barred(s)
  PROVE  LockedOut'
BY DEF Go, LockedOut, TypeOK, Valid

\* The assignment of a row that is not active.
LEMMA AssignBarred ==
  ASSUME NEW s \in Session, Barred(s), NEW read \in Row, NEW row \in Row, ~ row.active
  PROVE  Barred([Assign(s, read, row) EXCEPT !.state = "commit"])
<1> DEFINE put == {c \in Column : row[c] # read[c]}
           new == [c \in Column |-> IF c \in put THEN row[c] ELSE s.row[c]]
<1>1. Assign(s, read, row) = [[s EXCEPT !.put = s.put \cup put] EXCEPT !.row = new]
  BY DEF Assign, Session
<1>2. "active" \in s.put \cup put => ~ new["active"]
  BY DEF Barred, Session, Row, Column
<1> HIDE DEF put, new
<1> DEFINE r == [[[s EXCEPT !.put = s.put \cup put] EXCEPT !.row = new] EXCEPT !.state = "commit"]
<1>3. r.state = "commit" /\ r.put = s.put \cup put /\ r.row = new
  BY DEF Session
<1> HIDE DEF r
<1>4. Barred(r)  BY <1>2, <1>3 DEF Barred
<1> QED BY <1>1, <1>4 DEF r

LEMMA LockedOutStep ==
  ASSUME IInv, LockedOut, Next, ~ \E p \in Request : ReactivateEntity(p)
  PROVE  LockedOut'
<1>0. /\ TypeOK
      /\ \A p \in Request : session[p] \in Session /\ Barred(session[p])
      /\ \A t \in Token : ~ Valid(t, "access")
      /\ account \in Row /\ ~ account.active
  BY DEF IInv, LockedOut, TypeOK
\* A request that goes on without assigning the row.
<1>1. ASSUME NEW p \in Request, NEW s \in Session, Go(p, s),
             \/ s = Closed
             \/ /\ s.put = session[p].put /\ s.row = session[p].row
                /\ s.state \notin {"checked", "known", "active", "rotate", "issue"}
      PROVE  LockedOut'
  BY <1>0, <1>1, ClosedBarred, StaysBarred, GoBarred
<1>2. ASSUME NEW p \in Request, Authenticate(p) PROVE LockedOut'
  <2>1. ~ \E t \in Token : Present(p, t)
    BY <1>0 DEF Present
  <2>2. ~ CheckInvalidation(p) /\ ~ LoadEntity(p)
    BY <1>0 DEF CheckInvalidation, LoadEntity, Barred
  <2> QED BY <1>2, <2>1, <2>2 DEF Authenticate
<1>3. ASSUME NEW p \in Request, Handle(p) \/ Logout(p) \/ ChangePassword(p) PROVE LockedOut'
  <2> DEFINE s0 == session[p]
  <2>1. CASE Handle(p)
    <3> DEFINE s == [s0 EXCEPT !.state = "commit", !.token = {}]
    <3>1. s \in Session /\ s.state = "commit" /\ s.put = s0.put /\ s.row = s0.row
      BY <1>0 DEF Session, State
    <3> HIDE DEF s
    <3>2. Go(p, s)  BY <2>1 DEF Handle, s
    <3> QED BY <1>1, <3>1, <3>2
  <2>2. ASSUME NEW kinds \in SUBSET Kind,
               Go(p, [s0 EXCEPT !.state = "rows", !.token = {}, !.todo = s0.token \X kinds])
        PROVE  LockedOut'
    <3> DEFINE s == [s0 EXCEPT !.state = "rows", !.token = {}, !.todo = s0.token \X kinds]
    <3>1. s0.token \X kinds \in SUBSET (Token \X Kind)  BY <1>0 DEF Session
    <3>2. s \in Session /\ s.state = "rows" /\ s.put = s0.put /\ s.row = s0.row
      BY <1>0, <3>1 DEF Session, State
    <3> HIDE DEF s
    <3> QED BY <1>1, <2>2, <3>2 DEF s
  <2>3. CASE Logout(p)
    BY <2>2, <2>3 DEF Logout, Kind
  <2>4. CASE ChangePassword(p)
    <3> DEFINE s == [s0 EXCEPT !.state = "rows", !.changes = TRUE, !.token = {},
                               !.todo = s0.token \X {"access"}]
    <3>1. s0.token \X {"access"} \in SUBSET (Token \X Kind)  BY <1>0 DEF Session, Kind
    <3>2. s \in Session /\ s.state = "rows" /\ s.put = s0.put /\ s.row = s0.row
      BY <1>0, <3>1 DEF Session, State
    <3> HIDE DEF s
    <3>3. Go(p, s)  BY <2>4 DEF ChangePassword, s
    <3> QED BY <1>1, <3>2, <3>3
  <2> QED BY <1>3, <2>1, <2>3, <2>4
<1>4. ASSUME NEW p \in Request, ResetPassword(p) PROVE LockedOut'
  <2> DEFINE s == [Closed EXCEPT !.state = "set", !.changes = TRUE]
  <2>1. s \in Session
    BY ClosedSession DEF Session, State
  <2>2. Barred(s)
    BY DEF Barred, Closed
  <2>3. Go(p, s)  BY <1>4 DEF ResetPassword
  <2> HIDE DEF s
  <2> QED BY <1>0, <2>1, <2>2, <2>3, GoBarred
\* The two that assign active, and assign FALSE.
<1>5. ASSUME NEW p \in Request, DeactivateAccount(p) PROVE LockedOut'
  <2> DEFINE r == Assign(session[p], Blank, [Blank EXCEPT !.active = FALSE])
             s == [r EXCEPT !.state = "commit"]
  <2>1. ~ [Blank EXCEPT !.active = FALSE].active
    BY DEF Blank
  <2>2. r \in Session /\ Barred(s)
    BY <1>0, <2>1, BlankRow, AssignSession, AssignBarred
  <2> HIDE DEF r
  <2>3. [r EXCEPT !.state = "commit", !.token = {}] \in Session
    BY <2>2 DEF Session, State
  <2>4. Barred([r EXCEPT !.state = "commit", !.token = {}])
    BY <2>2 DEF Session, Barred
  <2>5. Go(p, [r EXCEPT !.state = "commit", !.token = {}])
    BY <1>5 DEF DeactivateAccount, r
  <2> QED BY <1>0, <2>3, <2>4, <2>5, GoBarred
<1>6. ASSUME NEW p \in Request, SuspendEntity(p) \/ DeactivateEntity(p) PROVE LockedOut'
  <2>1. PICK row \in Row : ~ row.active /\ Decide(p, row)
    <3>1. [active |-> FALSE, until |-> SUSPENSION] \in Row
      <4>1. SUSPENSION \in Never .. SUSPENSION  BY Numbers DEF Never
      <4> QED BY <4>1 DEF Row
    <3>2. [account EXCEPT !.active = FALSE] \in Row /\ ~ [account EXCEPT !.active = FALSE].active
      BY <1>0 DEF Row
    <3>3. ~ [active |-> FALSE, until |-> SUSPENSION].active  OBVIOUS
    <3> QED BY <1>6, <3>1, <3>2, <3>3 DEF SuspendEntity, DeactivateEntity
  <2> DEFINE r == Assign(Closed, account, row)
             s == [r EXCEPT !.state = "commit"]
  <2>2. r \in Session /\ Barred(s)
    BY <1>0, <2>1, ClosedSession, ClosedBarred, AssignSession, AssignBarred
  <2> HIDE DEF r
  <2>3. s \in Session
    BY <2>2 DEF Session, State
  <2>4. Go(p, s)
    BY <2>1 DEF Decide, r
  <2> HIDE DEF s
  <2> QED BY <1>0, <2>2, <2>3, <2>4, GoBarred
<1>7. ASSUME NEW p \in Request, NEW row \in Token \X Kind,
             InsertRow(p, row) \/ InsertDuplicate(p, row)
      PROVE  LockedOut'
  <2> DEFINE s0 == session[p]
             s == AfterRow(s0, row)
  <2>1. CASE InsertRow(p, row)
    <3>1. /\ s0.todo \ {row} \in SUBSET (Token \X Kind)
          /\ s0.rows \cup {row} \in SUBSET (Token \X Kind)
      BY <1>0 DEF Session
    <3>2. s \in Session /\ s.state \in {"rows", "set", "commit"} /\ s.put = s0.put /\ s.row = s0.row
      BY <1>0, <3>1 DEF AfterRow, Session, State
    <3>3. Go(p, s)  BY <2>1 DEF InsertRow
    <3> HIDE DEF s
    <3> QED BY <1>1, <3>2, <3>3
  <2>2. CASE InsertDuplicate(p, row)
    BY <1>1, <2>2, ClosedSession DEF InsertDuplicate
  <2> QED BY <1>7, <2>1, <2>2
<1>8. ASSUME NEW p \in Request, SetInvalidation(p) PROVE LockedOut'
  <2> DEFINE s == [session[p] EXCEPT !.state = "commit"]
  <2>1. s.state = "commit" /\ s.put = session[p].put /\ s.row = session[p].row
    BY <1>0 DEF Session
  <2>2. session' = [session EXCEPT ![p] = s] /\ account' = account /\ age' = age
    BY <1>8 DEF SetInvalidation
  <2> HIDE DEF s
  <2>3. Barred(s)  BY <1>0, <2>1, StaysBarred
  <2> QED BY <1>0, <2>2, <2>3 DEF LockedOut, TypeOK, Valid
<1>9. ASSUME NEW p \in Request, SetInvalidationFails(p) PROVE LockedOut'
  <2> DEFINE s == [session[p] EXCEPT !.state = "commit", !.stamp = Expired]
  <2>1. s \in Session /\ s.state = "commit" /\ s.put = session[p].put /\ s.row = session[p].row
    BY <1>0, Numbers DEF Session, State
  <2> HIDE DEF s
  <2>2. Go(p, s)  BY <1>9 DEF SetInvalidationFails, s
  <2> QED BY <1>1, <2>1, <2>2
\* No way in by a password or a refresh token.
<1>10. ASSUME NEW p \in Request, Refresh(p) \/ Login(p) PROVE LockedOut'
  <2>1. ~ Login(p)
    BY <1>0 DEF Login
  <2>2. /\ ~ RefreshChecksInvalidation(p) /\ ~ Rotate(p)
        /\ ~ \E t \in Token : Issue(p, t)
    BY <1>0 DEF RefreshChecksInvalidation, Rotate, Issue, Barred
  <2>3. CASE RefreshLoads(p)
    BY <1>0, <1>1, <2>3, ClosedSession DEF RefreshLoads, MayRefresh
  <2>4. ASSUME NEW t \in Token, PresentRefresh(p, t) PROVE LockedOut'
    <3> DEFINE s == [Closed EXCEPT !.state = "refreshing", !.token = {t}]
    <3>1. s \in Session
      BY ClosedSession DEF Session, State
    <3>2. Barred(s)
      BY DEF Barred, Closed
    <3>3. Go(p, s)  BY <2>4 DEF PresentRefresh
    <3> HIDE DEF s
    <3> QED BY <1>0, <3>1, <3>2, <3>3, GoBarred
  <2> QED BY <1>10, <2>1, <2>2, <2>3, <2>4 DEF Refresh
<1>11. ASSUME NEW p \in Request, Commit(p) PROVE LockedOut'
  <2>1. account'.active = IF "active" \in session[p].put THEN session[p].row.active
                                                        ELSE account.active
    BY <1>11 DEF Commit, Column
  <2>2. ~ account'.active
    BY <1>0, <2>1 DEF Barred
  <2>3. session' = [session EXCEPT ![p] = Closed] /\ age' = age
    BY <1>11 DEF Commit
  <2> QED BY <1>0, <2>2, <2>3, ClosedBarred DEF LockedOut, TypeOK, Valid
<1>12. ASSUME NEW p \in Request, Rollback(p) PROVE LockedOut'
  BY <1>1, <1>12, ClosedSession DEF Rollback
<1>13. CASE CleanupBlacklist
  BY <1>13 DEF CleanupBlacklist, LockedOut, Valid
<1>14. CASE LoseInvalidation
  <2>1. ASSUME NEW p \in Request PROVE Barred(session'[p])
    <3> DEFINE s == [session[p] EXCEPT !.stamp = Expired]
    <3>1. s.state = session[p].state /\ s.put = session[p].put /\ s.row = session[p].row
      BY <1>0 DEF Session
    <3> HIDE DEF s
    <3>2. Barred(s)  BY <1>0, <3>1, StaysBarred DEF Barred
    <3>3. session'[p] \in {s, session[p]}  BY <1>14 DEF LoseInvalidation, s
    <3> QED BY <1>0, <3>2, <3>3
  <2> QED BY <1>0, <1>14, <2>1 DEF LoseInvalidation, LockedOut, Valid
<1>15. CASE Tick
  <2>1. ASSUME NEW t \in Token PROVE ~ Valid(t, "access")'
    <3>1. age[t] \in Age /\ age'[t] = Older(age[t])  BY <1>0, <1>15 DEF Tick, TypeOK
    <3> QED BY <1>0, <3>1, OlderAge, Numbers DEF Valid, Age, Kind
  <2>2. \A row \in Row : Sooner(row).active = row.active
    BY DEF Sooner, Row
  <2>3. ~ account'.active
    BY <1>0, <1>15, <2>2 DEF Tick
  <2>4. ASSUME NEW p \in Request PROVE Barred(session'[p])
    <3> DEFINE stamp == IF session[p].changes /\ session[p].state \in {"set", "commit"}
                        THEN Older(session[p].stamp) ELSE session[p].stamp
               s == [session[p] EXCEPT !.row = Sooner(session[p].row), !.stamp = stamp]
    <3>1. session'[p] = s
      BY <1>15 DEF Tick
    <3> HIDE DEF stamp
    <3>2. s.state = session[p].state /\ s.put = session[p].put
          /\ s.row = Sooner(session[p].row) /\ session[p].row \in Row
      BY <1>0 DEF Session
    <3> HIDE DEF s
    <3> QED BY <1>0, <2>2, <3>1, <3>2 DEF Barred
  <2> QED BY <2>1, <2>3, <2>4 DEF LockedOut
<1>16. ASSUME NEW p \in Request, Administer(p) PROVE LockedOut'
  BY <1>6, <1>16 DEF Administer
<1>17. ASSUME NEW p \in Request, Handler(p) PROVE LockedOut'
  BY <1>3, <1>4, <1>5, <1>7, <1>8, <1>9, <1>17 DEF Handler
<1> QED BY <1>2, <1>10, <1>11, <1>12, <1>13, <1>14, <1>15, <1>16, <1>17 DEF Next

\* An account that is switched off, whose access tokens have all run out, stays
\* off until an admin switches it on: the end of a suspension does not, nor a
\* password or a refresh token.  It is why SuspensionEnds fails.
THEOREM OnlyAnAdminUnlocks == Spec => OnlyAdminsUnlock
<1>1. IInv /\ [Next]_vars =>
        [LockedOut /\ ~ (\E p \in Request : ReactivateEntity(p)) => LockedOut']_vars
  BY LockedOutStep
<1> QED BY <1>1, AlwaysInv, PTL DEF Spec, OnlyAdminsUnlock

=============================================================================
