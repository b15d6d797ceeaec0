------------------------------ MODULE Accounts ------------------------------
(***************************************************************************)
(* One account: the token pairs it is issued at a login or a refresh, the  *)
(* blacklist of single tokens, the time in Redis up to which all tokens    *)
(* are refused (token:inv), password changes, and being switched off and   *)
(* on (src/api/deps.py, auth_router.py, auth_service.py,                   *)
(* account_router.py, admin_router.py).  A request authenticates in        *)
(* several awaits and reads the account without a lock; at its commit it   *)
(* writes the columns it has changed.  A password change has the row       *)
(* locked from its flush on, and other writers of the row wait for it.     *)
(*                                                                         *)
(* Times are kept relative to now: a token has an age, token:inv the age   *)
(* of the second it holds and a rest of its life, a suspension its rest.   *)
(***************************************************************************)
EXTENDS Integers

CONSTANTS
  Token,       \* token pairs; one that has expired is used for a later login
  Request,     \* requests in progress, of the owner and of admins
  ACCESS,      \* life of an access token (jwt_access_token_expire_minutes)
  REFRESH,     \* life of a refresh token (jwt_refresh_token_expire_days)
  SUSPENSION   \* length of a suspension: a day at least

ASSUME LivesAssumption ==
  /\ ACCESS \in Nat \ {0} /\ REFRESH \in Nat /\ SUSPENSION \in Nat
  /\ ACCESS < REFRESH /\ ACCESS < SUSPENSION

VARIABLES
  account,    \* the committed row: is_active, suspended_until
  age,        \* of each token pair
  blacklist,  \* the committed rows: tokens by pair and kind
  inv,        \* token:inv in Redis
  session,    \* what each request has read and done
  revoked,    \* history: valid tokens a committed logout or rotation has revoked
  ended       \* history: live pairs issued up to a committed password change,
              \* since Redis has last lost token:inv

vars == <<account, age, blacklist, inv, session, revoked, ended>>

Kind == {"access", "refresh"}
Life(kind) == IF kind = "access" THEN ACCESS ELSE REFRESH

\* Nothing of a pair this old is accepted or waits to be cleaned up.
Expired == REFRESH + 1
Age == 0 .. Expired

Never == -1  \* suspended_until IS NULL; 0 is a date that has passed
Column == {"active", "until"}
Row == [active : BOOLEAN, until : Never .. SUSPENSION]

None == [age |-> 0, left |-> 0]  \* no token:inv
Invalidation == [age : Age, left : 0 .. REFRESH]

State == {"idle", "checked", "known", "in",           \* an access token
          "refreshing", "active", "rotate", "issue",  \* a refresh token, a login
          "rows", "set", "commit"}                    \* in a handler

Session ==
  [state : State, token : SUBSET Token, row : Row, put : SUBSET Column,
   todo : SUBSET (Token \X Kind), rows : SUBSET (Token \X Kind),
   changes : BOOLEAN, stamp : Age]

TypeOK ==
  /\ account \in Row
  /\ age \in [Token -> Age]
  /\ blacklist \in SUBSET (Token \X Kind)
  /\ inv \in Invalidation
  /\ session \in [Request -> Session]
  /\ revoked \in SUBSET (Token \X Kind)
  /\ ended \in SUBSET Token

Blank == [active |-> TRUE, until |-> Never]

Closed ==
  [state |-> "idle", token |-> {}, row |-> Blank, put |-> {},
   todo |-> {}, rows |-> {}, changes |-> FALSE, stamp |-> 0]

Init ==
  /\ account = Blank
  /\ age = [t \in Token |-> Expired]
  /\ blacklist = {}
  /\ inv = None
  /\ session = [p \in Request |-> Closed]
  /\ revoked = {} /\ ended = {}

-----------------------------------------------------------------------------

Idle(p) == session[p].state = "idle"

\* Request p goes on as s; all else stays.
Go(p, s) ==
  /\ session' = [session EXCEPT ![p] = s]
  /\ UNCHANGED <<account, age, blacklist, inv, revoked, ended>>

\* Session s after it has assigned the row: it writes the columns that differ
\* from what it had read.
Assign(s, read, row) ==
  LET put == {c \in Column : row[c] # read[c]} IN
  [s EXCEPT !.put = @ \cup put,
            !.row = [c \in Column |-> IF c \in put THEN row[c] ELSE @[c]]]

\* No other request is between the flush of a new password and its commit.
RowFree_Always(p) == TRUE

RowFree(p) == \A q \in Request \ {p} : ~ session[q].changes

\* decode_token: the signature is good and the token has not expired.
Valid(t, kind) == age[t] < Life(kind)

\* iat <= token:inv
Refused(t) == inv.left > 0 /\ age[t] >= inv.age

-----------------------------------------------------------------------------
(* get_current_entity                                                      *)

Present(p, t) ==
  /\ Idle(p)
  /\ Valid(t, "access") /\ <<t, "access">> \notin blacklist
  /\ Go(p, [Closed EXCEPT !.state = "checked", !.token = {t}])

CheckInvalidation(p) ==
  /\ session[p].state = "checked"
  /\ Go(p, IF \E t \in session[p].token : Refused(t)
             THEN Closed ELSE [session[p] EXCEPT !.state = "known"])

\* An inactive account whose suspension is over is switched on in passing.
LoadEntity(p) ==
  LET s == [session[p] EXCEPT !.state = "in"] IN
  /\ session[p].state = "known"
  /\ Go(p, IF account.active THEN s
           ELSE IF account.until = 0 THEN Assign(s, account, Blank)
           ELSE Closed)

-----------------------------------------------------------------------------
(* Handlers behind it.                                                     *)

\* Any other handler: an automatic reactivation is there to commit.
Handle(p) ==
  /\ session[p].state = "in" /\ session[p].put # {}
  /\ Go(p, [session[p] EXCEPT !.state = "commit", !.token = {}])

\* The access token, and the refresh token of the pair if it is sent along.
Logout(p) ==
  /\ session[p].state = "in"
  /\ \E kinds \in {{"access"}, Kind} :
       Go(p, [session[p] EXCEPT !.state = "rows", !.token = {}, !.todo = session[p].token \X kinds])

\* The flush of the new password waits for the row and locks it.
ChangePassword(p) ==
  /\ session[p].state = "in"
  /\ RowFree(p)
  /\ Go(p, [session[p] EXCEPT !.state = "rows", !.changes = TRUE, !.token = {},
                              !.todo = session[p].token \X {"access"}])

\* The link of forgot-password stands for the token, and no row is inserted.
ResetPassword(p) ==
  /\ Idle(p)
  /\ RowFree(p)
  /\ Go(p, [Closed EXCEPT !.state = "set", !.changes = TRUE])

DeactivateAccount(p) ==
  /\ session[p].state = "in"
  /\ Go(p, [Assign(session[p], Blank, [Blank EXCEPT !.active = FALSE])
              EXCEPT !.state = "commit", !.token = {}])

\* Rows are inserted one by one, the access token's first.
Due(s, row) == row \in s.todo /\ \A other \in s.todo : other = row \/ other[2] = "refresh"

\* INSERT waits for a session that has inserted the same row and may commit it.
Unclaimed(row) == \A q \in Request : row \notin session[q].rows

\* After the last one, change_password reads the clock and logout is done.
AfterRow(s, row) ==
  [s EXCEPT !.todo = @ \ {row}, !.rows = @ \cup {row},
            !.state = IF s.todo # {row} THEN "rows" ELSE IF s.changes THEN "set" ELSE "commit"]

InsertRow(p, row) ==
  /\ session[p].state = "rows" /\ Due(session[p], row)
  /\ Unclaimed(row) /\ row \notin blacklist
  /\ Go(p, AfterRow(session[p], row))

\* blacklist_token rolls the session back; the handler's next use of an
\* attribute of the account raises, and the request fails.
InsertDuplicate(p, row) ==
  /\ session[p].state = "rows" /\ Due(session[p], row)
  /\ Unclaimed(row) /\ row \in blacklist
  /\ Go(p, Closed)

InvalidationLife == REFRESH

\* The second that was read, if it takes Redis any time to get it.
SetInvalidation(p) ==
  /\ session[p].state = "set"
  /\ inv' = [age |-> session[p].stamp, left |-> InvalidationLife]
  /\ session' = [session EXCEPT ![p].state = "commit"]
  /\ UNCHANGED <<account, age, blacklist, revoked, ended>>

\* cache.set fails in silence: the change will end nothing.
SetInvalidationFails(p) ==
  /\ session[p].state = "set"
  /\ Go(p, [session[p] EXCEPT !.state = "commit", !.stamp = Expired])

-----------------------------------------------------------------------------
(* Refresh and login.                                                      *)

PresentRefresh(p, t) ==
  /\ Idle(p)
  /\ Valid(t, "refresh") /\ <<t, "refresh">> \notin blacklist
  /\ Go(p, [Closed EXCEPT !.state = "refreshing", !.token = {t}])

MayRefresh(row) == row.active

RefreshLoads(p) ==
  /\ session[p].state = "refreshing"
  /\ Go(p, IF MayRefresh(account) THEN [session[p] EXCEPT !.state = "active"] ELSE Closed)

RefreshChecksInvalidation(p) ==
  /\ session[p].state = "active"
  /\ Go(p, IF \E t \in session[p].token : Refused(t)
             THEN Closed ELSE [session[p] EXCEPT !.state = "rotate"])

\* A duplicate is taken for "blacklisted by a concurrent request" and ignored.
Rotate(p) ==
  LET rows == session[p].token \X {"refresh"} IN
  /\ session[p].state = "rotate"
  /\ \A row \in rows : Unclaimed(row)
  /\ Go(p, [session[p] EXCEPT !.state = "issue", !.token = {}, !.rows = rows \ blacklist])

\* authenticate_human.
Login(p) ==
  /\ Idle(p)
  /\ account.active
  /\ Go(p, [Closed EXCEPT !.state = "issue"])

Unused(t) ==
  /\ age[t] = Expired
  /\ \A kind \in Kind : <<t, kind>> \notin blacklist
  /\ \A q \in Request : \/ Idle(q)
                        \/ /\ t \notin session[q].token
                           /\ \A kind \in Kind : <<t, kind>> \notin session[q].todo \cup session[q].rows

\* The tokens are made at the end of the handler; what is left is the commit.
Issue(p, t) ==
  /\ session[p].state = "issue"
  /\ Unused(t)
  /\ age' = [age EXCEPT ![t] = 0]
  /\ blacklist' = blacklist \cup session[p].rows
  /\ revoked' = (revoked \ ({t} \X Kind)) \cup session[p].rows
  /\ ended' = ended \ {t}
  /\ session' = [session EXCEPT ![p] = Closed]
  /\ UNCHANGED <<account, inv>>

-----------------------------------------------------------------------------
(* Admins.  They read the account, then change it.                         *)

Decide(p, row) ==
  /\ Idle(p)
  /\ Go(p, [Assign(Closed, account, row) EXCEPT !.state = "commit"])

SuspendEntity(p) == Decide(p, [active |-> FALSE, until |-> SUSPENSION])

\* Also what a flag resolved as suspended or banned does: no date is set.
DeactivateEntity(p) == Decide(p, [account EXCEPT !.active = FALSE])

ReactivateEntity(p) == Decide(p, [account EXCEPT !.active = TRUE])

-----------------------------------------------------------------------------

\* The pairs that a change of password which read the clock stamp ago ends.
EndedBy(stamp) == {t \in Token : Valid(t, "refresh") /\ age[t] >= stamp}

Commit(p) ==
  LET s == session[p] IN
  /\ s.state = "commit"
  /\ s.put = {} \/ RowFree(p)
  /\ account' = [c \in Column |-> IF c \in s.put THEN s.row[c] ELSE account[c]]
  /\ blacklist' = blacklist \cup s.rows
  /\ revoked' = revoked \cup s.rows
  /\ ended' = IF s.changes THEN ended \cup EndedBy(s.stamp) ELSE ended
  /\ session' = [session EXCEPT ![p] = Closed]
  /\ UNCHANGED <<age, inv>>

Rollback(p) ==
  /\ ~ Idle(p)
  /\ Go(p, Closed)

\* cleanup_expired_blacklist: expires_at < now
Stale_Access(row) == age[row[1]] >= ACCESS

Stale(row) == age[row[1]] > Life(row[2])

CleanupBlacklist ==
  /\ blacklist' = {row \in blacklist : ~ Stale(row)}
  /\ UNCHANGED <<account, age, inv, session, revoked, ended>>

\* What has been ended by it, or is about to be, no longer is.
LoseInvalidation ==
  /\ inv.left > 0
  /\ inv' = None
  /\ ended' = {}
  /\ session' = [p \in Request |->
                   IF session[p].changes /\ session[p].state = "commit"
                     THEN [session[p] EXCEPT !.stamp = Expired] ELSE session[p]]
  /\ UNCHANGED <<account, age, blacklist, revoked>>

-----------------------------------------------------------------------------

Older_Unbounded(a) == a + 1

Older(a) == IF a < Expired THEN a + 1 ELSE a

Sooner(row) == IF row.until > 0 THEN [row EXCEPT !.until = @ - 1] ELSE row

Tick ==
  /\ age' = [t \in Token |-> Older(age[t])]
  /\ account' = Sooner(account)
  /\ inv' = IF inv.left <= 1 THEN None ELSE [age |-> Older(inv.age), left |-> inv.left - 1]
  /\ session' = [p \in Request |->
                   [session[p] EXCEPT !.row = Sooner(@),
                      !.stamp = IF session[p].changes /\ session[p].state \in {"set", "commit"}
                                THEN Older(@) ELSE @]]
  /\ revoked' = {row \in revoked : age'[row[1]] < Life(row[2])}
  /\ ended' = {t \in ended : age'[t] < REFRESH}
  /\ UNCHANGED blacklist

Authenticate(p) ==
  \/ \E t \in Token : Present(p, t)
  \/ CheckInvalidation(p) \/ LoadEntity(p)

Handler(p) ==
  \/ Handle(p) \/ Logout(p) \/ ChangePassword(p) \/ ResetPassword(p) \/ DeactivateAccount(p)
  \/ \E row \in Token \X Kind : InsertRow(p, row) \/ InsertDuplicate(p, row)
  \/ SetInvalidation(p) \/ SetInvalidationFails(p)

Refresh(p) ==
  \/ \E t \in Token : PresentRefresh(p, t)
  \/ RefreshLoads(p) \/ RefreshChecksInvalidation(p) \/ Rotate(p)
  \/ \E t \in Token : Issue(p, t)

Administer(p) == SuspendEntity(p) \/ DeactivateEntity(p) \/ ReactivateEntity(p)

Next ==
  \/ \E p \in Request : \/ Authenticate(p) \/ Handler(p) \/ Refresh(p) \/ Login(p)
                        \/ Administer(p) \/ Commit(p) \/ Rollback(p)
  \/ CleanupBlacklist \/ LoseInvalidation \/ Tick

Spec == Init /\ [][Next]_vars

\* The owner keeps trying to get in, and requests are carried on.
TryingSpec ==
  /\ Spec
  /\ WF_vars(Tick)
  /\ \A p \in Request : /\ WF_vars(Authenticate(p)) /\ WF_vars(Handle(p))
                        /\ WF_vars(Refresh(p)) /\ WF_vars(Login(p)) /\ WF_vars(Commit(p))

-----------------------------------------------------------------------------

\* A token that a committed logout or refresh has revoked is never accepted
\* again: the clean-up keeps its row for as long as the token is valid.
RevokedStaysOut ==
  \A t \in Token, kind \in Kind :
    (<<t, kind>> \in revoked /\ Valid(t, kind)) => <<t, kind>> \in blacklist

\* Unless Redis loses the time or the SET, both tokens of every pair issued up
\* to a committed password change or reset are refused for as long as they
\* live, however many changes overlap and however late their SETs arrive.
EndedStaysOut == \A t \in ended : Valid(t, "refresh") => Refused(t)

-----------------------------------------------------------------------------
(* What a comment and a document say and the code does not keep.           *)

\* "Auto-reactivate if suspension has expired" (deps.py:89), "Auto-expires"
\* (docs/moderation-playbook.md:71): an account does not stay switched off with
\* a suspension that is over, if its owner keeps trying.
SuspensionEnds == []<>(account.active \/ account.until # 0)

=============================================================================
