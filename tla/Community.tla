----------------------------- MODULE Community ------------------------------
(***************************************************************************)
(* One community (a submolt): the membership rows with their roles, and    *)
(* the number of members and the creator that its own row repeats          *)
(* (src/api/submolt_router.py, _handle_join_submolt of                     *)
(* src/bridges/mcp_handler.py).  Every request reads the membership of     *)
(* whoever asks, then that of whom it is about, without a lock, checks     *)
(* the roles and writes.  Its writes take row locks that it keeps up to    *)
(* its commit, so they happen at once here, on the rows as they are then.  *)
(*                                                                         *)
(* The session addresses a row by the key it has read.  A DELETE that      *)
(* finds no row only warns and the request goes on; an UPDATE that finds   *)
(* none raises, and so does an INSERT of a second row for one entity.      *)
(***************************************************************************)
EXTENDS Naturals, FiniteSets

CONSTANTS
  Entity,
  Request,   \* requests in progress
  Founder    \* who created the community

ASSUME FounderAssumption == Founder \in Entity

ASSUME FiniteAssumption == IsFiniteSet(Entity)

VARIABLES
  role,          \* of each entity's row; "none" has no row
  member_count,
  created_by,
  session,       \* what each request has read
  oddity         \* history: the worst that has happened

vars == <<role, member_count, created_by, session, oddity>>

Role == {"member", "moderator", "owner", "banned"}
Row == Role \cup {"none"}
Operation == {"join", "leave", "promote", "demote", "kick", "transfer", "ban", "unban"}

\* "undone": a banned entity has left, or was kicked or promoted.  "overlap": a
\* request has committed on rows that others had changed since it read them.
Oddity == {"none", "undone", "overlap"}

\* held: the entities whose present row the request has loaded to write it;
\* creator: what created_by was, for a transfer.
Session ==
  [state : {"idle", "asked", "ready"}, op : Operation, actor : Entity, target : Entity,
   mine : Row, its : Row, creator : Entity, held : SUBSET Entity]

TypeOK ==
  /\ role \in [Entity -> Row]
  /\ member_count \in Nat /\ created_by \in Entity
  /\ session \in [Request -> Session]
  /\ oddity \in Oddity

Closed ==
  [state |-> "idle", op |-> "join", actor |-> Founder, target |-> Founder,
   mine |-> "none", its |-> "none", creator |-> Founder, held |-> {}]

\* create_submolt
Init ==
  /\ role = [e \in Entity |-> IF e = Founder THEN "owner" ELSE "none"]
  /\ member_count = 1 /\ created_by = Founder
  /\ session = [p \in Request |-> Closed]
  /\ oddity = "none"

-----------------------------------------------------------------------------
(* The reads and the checks of the roles.                                  *)

RowOf(e) == IF role[e] = "none" THEN {} ELSE {e}

\* What each operation asks of the one who wants it.
MayAsk(op, mine) ==
  CASE op = "join"  -> mine = "none"
    [] op = "leave" -> mine \notin {"none", "owner"}
    [] op \in {"promote", "demote", "transfer"} -> mine = "owner"
    [] OTHER        -> mine \in {"owner", "moderator"}

\* A moderator is kicked or banned by an owner only.
Outranked(mine, its) == its # "owner" /\ (its = "moderator" => mine = "owner")

\* And of the one it is about.
MayDo(op, mine, its) ==
  CASE op = "promote"  -> its \notin {"none", "moderator"}
    [] op = "demote"   -> its = "moderator"
    [] op = "transfer" -> its \notin {"none", "banned"}
    [] op = "kick"     -> its # "none" /\ Outranked(mine, its)
    [] op = "ban"      -> its # "banned" /\ Outranked(mine, its)
    [] op = "unban"    -> its = "banned"

Single(op) == op \in {"join", "leave"}
NotOnOneself(op) == op \in {"transfer", "ban"}

\* _check_membership of whoever asks, by whom the operation is refused or goes on.
Ask(p, op, a, t) ==
  /\ session[p].state = "idle"
  /\ MayAsk(op, role[a])
  /\ Single(op) => t = a
  /\ NotOnOneself(op) => t # a
  /\ session' = [session EXCEPT ![p] =
       [state |-> IF Single(op) THEN "ready" ELSE "asked", op |-> op, actor |-> a, target |-> t,
        mine |-> role[a], its |-> role[a],
        held |-> IF op \in {"leave", "transfer"} THEN RowOf(a) ELSE {},
        creator |-> IF op = "transfer" THEN created_by ELSE Founder]]
  /\ UNCHANGED <<role, member_count, created_by, oddity>>

\* Of a row that is loaded already the session keeps the values it has.
Loaded(s) ==
  IF s.target = s.actor /\ role[s.target] # "none" THEN s.mine ELSE role[s.target]

LoadTarget(p) ==
  LET s == session[p] IN
  /\ s.state = "asked"
  /\ session' = [session EXCEPT ![p] =
       IF MayDo(s.op, s.mine, Loaded(s))
         THEN [s EXCEPT !.state = "ready", !.its = Loaded(s),
                        !.held = @ \cup RowOf(s.target)]
         ELSE Closed]
  /\ UNCHANGED <<role, member_count, created_by, oddity>>

-----------------------------------------------------------------------------
(* The writes and the commit.                                              *)

\* What the request has read is still so.
Fresh(s) ==
  /\ role[s.actor] = s.mine /\ role[s.target] = s.its
  /\ s.op = "transfer" => created_by = s.creator
  /\ RowOf(s.target) \subseteq s.held

\* Request p ends and the present row of each of gone is deleted.
Close(p, gone) ==
  session' = [q \in Request |->
    IF q = p THEN Closed ELSE [session[q] EXCEPT !.held = @ \ gone]]

\* Request p commits, and it may undo a ban without an unban.
Note(p, undone) ==
  oddity' = IF ~ Fresh(session[p]) THEN "overlap"
            ELSE IF undone /\ oddity = "none" THEN "undone" ELSE oddity

More == member_count + 1

Fewer_Negative == member_count - 1

\* greatest(member_count - 1, 0)
Fewer == IF member_count > 0 THEN member_count - 1 ELSE 0

\* The unique index lets one row of an entity in.
Join(p) ==
  LET s == session[p] IN
  /\ s.state = "ready" /\ s.op = "join"
  /\ role[s.actor] = "none"
  /\ role' = [role EXCEPT ![s.actor] = "member"]
  /\ member_count' = More
  /\ Close(p, {}) /\ Note(p, FALSE)
  /\ UNCHANGED created_by

\* leave_submolt and kick_member.  The count goes down even if the row is gone.
Remove(p) ==
  LET s == session[p]
      gone == {s.target} \cap s.held IN
  /\ s.state = "ready" /\ s.op \in {"leave", "kick"}
  /\ role' = [e \in Entity |-> IF e \in gone THEN "none" ELSE role[e]]
  /\ member_count' = Fewer
  /\ Close(p, gone) /\ Note(p, s.its = "banned")
  /\ UNCHANGED created_by

SetRole(p, op, r) ==
  LET s == session[p] IN
  /\ s.state = "ready" /\ s.op = op
  /\ s.target \in s.held
  /\ role' = [role EXCEPT ![s.target] = r]
  /\ Close(p, {}) /\ Note(p, s.its = "banned")

Promote(p) == SetRole(p, "promote", "moderator") /\ UNCHANGED <<member_count, created_by>>

Demote(p) == SetRole(p, "demote", "member") /\ UNCHANGED <<member_count, created_by>>

HandedOver_Shared(s) == [role EXCEPT ![s.target] = "owner"]

\* The session writes what differs from what it has loaded.
HandedOver(s) ==
  [role EXCEPT ![s.actor] = "moderator",
               ![s.target] = IF s.its = "owner" THEN @ ELSE "owner"]

Transfer(p) ==
  LET s == session[p] IN
  /\ s.state = "ready" /\ s.op = "transfer"
  /\ s.actor \in s.held /\ (s.its = "owner" \/ s.target \in s.held)
  /\ role' = HandedOver(s)
  /\ created_by' = IF s.creator = s.target THEN created_by ELSE s.target
  /\ Close(p, {}) /\ Note(p, FALSE)
  /\ UNCHANGED member_count

Ban_Uncounted(p) == SetRole(p, "ban", "banned") /\ UNCHANGED <<member_count, created_by>>

Ban(p) ==
  /\ session[p].its # "none"
  /\ SetRole(p, "ban", "banned")
  /\ member_count' = Fewer
  /\ UNCHANGED created_by

BanStranger_Counted(p) ==
  LET s == session[p] IN
  /\ s.state = "ready" /\ s.op = "ban" /\ s.its = "none"
  /\ role[s.target] = "none"
  /\ role' = [role EXCEPT ![s.target] = "banned"]
  /\ member_count' = Fewer
  /\ Close(p, {}) /\ Note(p, FALSE)
  /\ UNCHANGED created_by

\* A row for someone who has none, so that they cannot join.
BanStranger(p) ==
  LET s == session[p] IN
  /\ s.state = "ready" /\ s.op = "ban" /\ s.its = "none"
  /\ role[s.target] = "none"
  /\ role' = [role EXCEPT ![s.target] = "banned"]
  /\ Close(p, {}) /\ Note(p, FALSE)
  /\ UNCHANGED <<member_count, created_by>>

Unban(p) ==
  LET s == session[p]
      gone == {s.target} \cap s.held IN
  /\ s.state = "ready" /\ s.op = "unban"
  /\ role' = [e \in Entity |-> IF e \in gone THEN "none" ELSE role[e]]
  /\ Close(p, gone) /\ Note(p, FALSE)
  /\ UNCHANGED <<member_count, created_by>>

\* An error, a deadlock or a refused write.
Rollback(p) ==
  /\ session[p].state # "idle"
  /\ session' = [session EXCEPT ![p] = Closed]
  /\ UNCHANGED <<role, member_count, created_by, oddity>>

Next ==
  \E p \in Request :
    \/ \E op \in Operation, a, t \in Entity : Ask(p, op, a, t)
    \/ LoadTarget(p)
    \/ Join(p) \/ Remove(p) \/ Promote(p) \/ Demote(p) \/ Transfer(p)
    \/ Ban(p) \/ BanStranger(p) \/ Unban(p)
    \/ Rollback(p)

Spec == Init /\ [][Next]_vars

-----------------------------------------------------------------------------

Members == {e \in Entity : role[e] \notin {"none", "banned"}}

\* However requests overlap, member_count never says more than there are
\* members: it may lose some, as when a member leaves twice at once or a banned
\* one leaves, but what raises it always brings a row, and what takes a member
\* away without lowering it takes one that was not counted.
CountNeverOverstates == member_count <= Cardinality(Members)

\* It is exact as long as no request has overwritten what it had not read and
\* no banned entity has left, been kicked or been promoted.
CountIsExact == oddity = "none" => member_count = Cardinality(Members)

\* Without such an overlap there is at most one owner, whom created_by names.
OwnerIsCreator == oddity # "overlap" => \A e \in Entity : role[e] = "owner" => created_by = e

=============================================================================
