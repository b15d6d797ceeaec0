------------------------ MODULE WebhookDeliveryProofs ------------------------
(* Theorems about WebhookDelivery, for any number of subscriptions and of  *)
(* requests and any threshold.                                             *)
EXTENDS WebhookDelivery, TLAPS

USE NumbersAssumption

(***************************************************************************)
(* What holds of the copies c in one session.  Nothing that was loaded or  *)
(* changed is ahead of the failures that happened, a delivery has loaded   *)
(* an active row and has switched its copy off only for cause, and only an *)
(* activation switches a copy on.                                          *)
(***************************************************************************)
Backed(c) ==
  \A s \in Sub : c.old[s].failures <= failed[s] /\ c.new[s].failures <= failed[s]

ForCause(c) ==
  \A s \in c.subs : c.kind \in Delivery =>
    /\ c.old[s].active
    /\ c.new[s].active \/ failed[s] >= THRESHOLD

NotOn(c) ==
  \A s \in c.subs : c.kind \notin {"activate", "create"} =>
    (c.new[s].active => c.old[s].active)

Sound(c) == Backed(c) /\ ForCause(c) /\ NotOn(c) /\ c.todo \subseteq c.subs

SessionsSound == \A p \in Session : Sound(session[p])

\* A row that is being inserted is in nobody else's hands.
CreatesNew ==
  \A p \in Session : \A s \in session[p].subs :
    session[p].kind = "create" =>
      /\ exists[s] = "not_yet"
      /\ \A q \in Session : s \in session[q].subs => q = p

IInv == TypeOK /\ CounterBacked /\ SessionsSound /\ CreatesNew

-----------------------------------------------------------------------------
(* Types.                                                                  *)

LEMMA ClosedType == Closed \in SessionState
BY DEF Closed, SessionState, Blank, Row, Kind

LEMMA RowType ==
  ASSUME NEW now \in Row, NEW old \in Row, NEW new \in Row
  PROVE  Merge(now, old, new) \in Row
BY DEF Merge, Written, Row

\* What Open puts into a session.
Opened(kind, S, todo, change) ==
  [kind |-> kind, subs |-> S, todo |-> todo, attempt |-> 0, current |-> {},
   old |-> [s \in Sub |-> IF s \in S THEN row[s] ELSE Blank],
   new |-> [s \in Sub |-> IF s \in S THEN change[s] ELSE Blank]]

LEMMA OpenedType ==
  ASSUME TypeOK, NEW kind \in Kind, NEW S \in SUBSET Sub, NEW todo \in SUBSET Sub,
         NEW change \in [Sub -> Row]
  PROVE  Opened(kind, S, todo, change) \in SessionState
<1>1. Blank \in Row  BY DEF Blank, Row
<1>2. row \in [Sub -> Row]  BY DEF TypeOK
<1> QED  BY <1>1, <1>2 DEF Opened, SessionState

\* Every action that opens a session, and what it puts there.
Opens(p, kind, S, todo, change) ==
  /\ Idle(p)
  /\ kind \in Kind \ {"none"} /\ S \subseteq Sub /\ todo \subseteq S
  /\ change \in [Sub -> Row]
  /\ session' = [session EXCEPT ![p] = Opened(kind, S, todo, change)]
  /\ UNCHANGED <<exists, row, failed>>
  /\ kind # "create" => \A s \in S : Exists(s)
  /\ kind \in Delivery => (change = row /\ \A s \in S : row[s].active)
  /\ \A s \in S : change[s].failures <= row[s].failures \/ change[s].failures = 0
  /\ kind \notin {"activate", "create"}
       => \A s \in S : change[s].active => row[s].active
  /\ kind = "create"
       => \A s \in S : exists[s] = "not_yet" /\ \A q \in Session : s \notin session[q].subs

LEMMA TakeEventOpens ==
  ASSUME TypeOK, TakeEvent
  PROVE  \E S \in SUBSET Sub : Opens(Worker, "event", S, S, row)
<1> DEFINE S == Matching(Head(channel))
<1>1. S \in SUBSET Sub /\ \A s \in S : Exists(s) /\ row[s].active  BY DEF Matching
<1>2. row \in [Sub -> Row]  BY DEF TypeOK
<1>3. \A s \in S : row[s].failures <= row[s].failures  BY <1>1, <1>2 DEF Row
<1> HIDE DEF S
<1>4. session' = [session EXCEPT ![Worker] = Opened("event", S, S, row)]
  BY DEF TakeEvent, Open, Opened, S
<1> QED  BY <1>1, <1>2, <1>3, <1>4 DEF TakeEvent, Opens, Kind, Delivery

LEMMA DispatchOpens ==
  ASSUME TypeOK, NEW p \in Request, NEW e \in EventType, Dispatch(p, e)
  PROVE  \E S \in SUBSET Sub : Opens(p, "dispatch", S, S, row)
<1> DEFINE S == Matching(e)
<1>1. S \in SUBSET Sub /\ \A s \in S : Exists(s) /\ row[s].active  BY DEF Matching
<1>2. row \in [Sub -> Row]  BY DEF TypeOK
<1>3. \A s \in S : row[s].failures <= row[s].failures  BY <1>1, <1>2 DEF Row
<1> HIDE DEF S
<1>4. session' = [session EXCEPT ![p] = Opened("dispatch", S, S, row)]
  BY DEF Dispatch, Open, Opened, S
<1> QED  BY <1>1, <1>2, <1>3, <1>4 DEF Dispatch, Opens, Kind, Delivery

\* The owner's requests.
OwnerStep(p, s) ==
  \/ DeleteWebhook(p, s) \/ ActivateWebhook(p, s) \/ DeactivateWebhook(p, s)
  \/ \E types \in SUBSET EventType : CreateWebhook(p, s, types) \/ UpdateWebhook(p, s, types)

LEMMA OwnerOpens ==
  ASSUME TypeOK, NEW p \in Request, NEW s \in Sub, OwnerStep(p, s)
  PROVE  \E kind \in Kind, change \in [Sub -> Row] : Opens(p, kind, {s}, {}, change)
<1>1. row \in [Sub -> Row] /\ row[s] \in Row  BY DEF TypeOK
<1>2. row[s].failures \in Nat /\ row[s].active \in BOOLEAN  BY <1>1 DEF Row
<1>3. CASE DeleteWebhook(p, s)
  <2>1. Opens(p, "delete", {s}, {}, row)
    BY <1>1, <1>2, <1>3 DEF DeleteWebhook, Open, Opened, Opens, Kind, Delivery
  <2> QED  BY <1>1, <2>1 DEF Kind
<1>4. CASE ActivateWebhook(p, s)
  <2> DEFINE c == [row EXCEPT ![s].active = TRUE, ![s].failures = 0]
  <2>1. c \in [Sub -> Row] /\ c[s].failures = 0  BY <1>1 DEF Row
  <2> HIDE DEF c
  <2>2. session' = [session EXCEPT ![p] = Opened("activate", {s}, {}, c)]
    BY <1>4 DEF ActivateWebhook, Open, Opened, c
  <2>3. Opens(p, "activate", {s}, {}, c)
    BY <1>4, <2>1, <2>2 DEF ActivateWebhook, Opens, Kind, Delivery
  <2> QED  BY <2>1, <2>3 DEF Kind
<1>5. CASE DeactivateWebhook(p, s)
  <2> DEFINE c == [row EXCEPT ![s].active = FALSE]
  <2>1. c \in [Sub -> Row] /\ c[s].failures = row[s].failures /\ c[s].active = FALSE
    BY <1>1 DEF Row
  <2> HIDE DEF c
  <2>2. session' = [session EXCEPT ![p] = Opened("deactivate", {s}, {}, c)]
    BY <1>5 DEF DeactivateWebhook, Open, Opened, c
  <2>3. Opens(p, "deactivate", {s}, {}, c)
    BY <1>2, <1>5, <2>1, <2>2 DEF DeactivateWebhook, Opens, Kind, Delivery
  <2> QED  BY <2>1, <2>3 DEF Kind
<1>6. ASSUME NEW types \in SUBSET EventType, CreateWebhook(p, s, types)
      PROVE  \E kind \in Kind, change \in [Sub -> Row] : Opens(p, kind, {s}, {}, change)
  <2> DEFINE c == [row EXCEPT ![s] = [active |-> TRUE, failures |-> 0, types |-> types]]
  <2>1. c \in [Sub -> Row] /\ c[s].failures = 0  BY <1>1 DEF Row
  <2> HIDE DEF c
  <2>2. session' = [session EXCEPT ![p] = Opened("create", {s}, {}, c)]
    BY <1>6 DEF CreateWebhook, Open, Opened, c
  <2>3. Opens(p, "create", {s}, {}, c)
    BY <1>6, <2>1, <2>2 DEF CreateWebhook, Opens, Kind, Delivery
  <2> QED  BY <2>1, <2>3 DEF Kind
<1>7. ASSUME NEW types \in SUBSET EventType, UpdateWebhook(p, s, types)
      PROVE  \E kind \in Kind, change \in [Sub -> Row] : Opens(p, kind, {s}, {}, change)
  <2> DEFINE c == [row EXCEPT ![s].types = types]
  <2>1. c \in [Sub -> Row] /\ c[s].failures = row[s].failures /\ c[s].active = row[s].active
    BY <1>1 DEF Row
  <2> HIDE DEF c
  <2>2. session' = [session EXCEPT ![p] = Opened("update", {s}, {}, c)]
    BY <1>7 DEF UpdateWebhook, Open, Opened, c
  <2>3. Opens(p, "update", {s}, {}, c)
    BY <1>2, <1>7, <2>1, <2>2 DEF UpdateWebhook, Opens, Kind, Delivery
  <2> QED  BY <2>1, <2>3 DEF Kind
<1> QED  BY <1>3, <1>4, <1>5, <1>6, <1>7 DEF OwnerStep

-----------------------------------------------------------------------------
(* The steps, in four kinds: a session opens, delivers, closes, or none    *)
(* changes.                                                                *)

LEMMA OpensPreserves ==
  ASSUME IInv, NEW p \in Session, NEW kind \in Kind, NEW S \in SUBSET Sub,
         NEW todo \in SUBSET Sub, NEW change \in [Sub -> Row],
         Opens(p, kind, S, todo, change)
  PROVE  /\ session' \in [Session -> SessionState]
         /\ CounterBacked' /\ SessionsSound' /\ CreatesNew'
<1> DEFINE c == Opened(kind, S, todo, change)
<1>1. c \in SessionState  BY OpenedType DEF IInv
<1>2. session \in [Session -> SessionState] /\ row \in [Sub -> Row] /\ failed \in [Sub -> Nat]
  BY DEF IInv, TypeOK
<1>3. /\ c.kind = kind /\ c.subs = S /\ c.todo = todo
      /\ \A s \in S : c.old[s] = row[s] /\ c.new[s] = change[s]
      /\ \A s \in Sub \ S : c.old[s] = Blank /\ c.new[s] = Blank
  BY DEF Opened
<1>4. Sound(c)
  <2>1. Backed(c)
    <3> SUFFICES ASSUME NEW s \in Sub
                 PROVE  c.old[s].failures <= failed[s] /\ c.new[s].failures <= failed[s]
      BY DEF Backed
    <3>1. row[s].failures \in Nat /\ change[s].failures \in Nat /\ failed[s] \in Nat
      BY <1>2 DEF Row
    <3>2. row[s].failures <= failed[s]  BY DEF IInv, CounterBacked
    <3>3. CASE s \in S
      BY <1>3, <3>1, <3>2, <3>3 DEF Opens
    <3>4. CASE s \notin S
      BY <1>3, <3>1, <3>4 DEF Blank
    <3> QED  BY <3>3, <3>4
  <2>2. ForCause(c)  BY <1>3 DEF ForCause, Opens
  <2>3. NotOn(c)  BY <1>3 DEF NotOn, Opens
  <2> QED  BY <1>3, <2>1, <2>2, <2>3 DEF Sound, Opens
<1> HIDE DEF c
<1>5. session' = [session EXCEPT ![p] = c]  BY DEF Opens, c
<1>6. session' \in [Session -> SessionState]  BY <1>1, <1>2, <1>5
<1>7. CounterBacked'  BY DEF Opens, IInv, CounterBacked
<1>8. SessionsSound'
  <2> SUFFICES ASSUME NEW q \in Session PROVE Sound(session[q])'
    BY DEF SessionsSound
  <2>1. Sound(session[q])' = Sound(session'[q])
    BY DEF Sound, Backed, ForCause, NotOn, Opens
  <2>2. Sound(session'[q])
    BY <1>2, <1>4, <1>5 DEF IInv, SessionsSound
  <2> QED  BY <2>1, <2>2
<1>9. CreatesNew'
  <2> SUFFICES ASSUME NEW q \in Session, NEW s \in session'[q].subs,
                      session'[q].kind = "create"
               PROVE  /\ exists[s] = "not_yet"
                      /\ \A r \in Session : s \in session'[r].subs => r = q
    BY DEF CreatesNew, Opens
  <2>1. CASE q = p
    <3>1. s \in S /\ kind = "create"  BY <1>2, <1>3, <1>5, <2>1
    <3> QED  BY <1>2, <1>5, <2>1, <3>1 DEF Opens
  <2>2. CASE q # p
    <3>1. session'[q] = session[q]  BY <1>2, <1>5, <2>2
    <3>2. /\ exists[s] = "not_yet"
          /\ \A r \in Session : s \in session[r].subs => r = q
      BY <3>1 DEF IInv, CreatesNew
    <3>3. s \notin S  BY <2>2, <3>1, <3>2 DEF Opens, Exists
    <3> QED  BY <1>2, <1>3, <1>5, <3>2, <3>3
  <2> QED  BY <2>1, <2>2
<1> QED  BY <1>6, <1>7, <1>8, <1>9

LEMMA OutcomeType ==
  ASSUME NEW copy \in Row
  PROVE  AfterSuccess(copy) \in Row /\ AfterFailure(copy) \in Row
<1>1. copy.failures \in Nat /\ copy.active \in BOOLEAN  BY DEF Row
<1>2. Counted(copy.failures) \in Nat  BY <1>1 DEF Counted
<1>3. (copy.active /\ ~ TooMany(Counted(copy.failures))) \in BOOLEAN  OBVIOUS
<1> HIDE DEF Counted, TooMany
<1>4. AfterSuccess(copy) \in Row  BY DEF AfterSuccess, Row
<1>5. AfterFailure(copy) \in Row  BY <1>2, <1>3 DEF AfterFailure, Row
<1> QED  BY <1>4, <1>5

\* A session delivers, or waits for its next attempt.
Delivers(p, s) ==
  DeliverySucceeds(p, s) \/ AttemptFails(p, s) \/ DeliveryFails(p, s)

LEMMA DeliversPreserves ==
  ASSUME IInv, NEW p \in Session, NEW s \in Sub, Delivers(p, s)
  PROVE  /\ session' \in [Session -> SessionState]
         /\ failed' \in [Sub -> Nat]
         /\ CounterBacked' /\ SessionsSound' /\ CreatesNew'
<1> DEFINE c == session[p]
           d == session'[p]
<1>1. session \in [Session -> SessionState] /\ row \in [Sub -> Row] /\ failed \in [Sub -> Nat]
  BY DEF IInv, TypeOK
<1>2. c \in SessionState /\ Sound(c)  BY <1>1 DEF IInv, SessionsSound
<1>3. c.new \in [Sub -> Row] /\ c.old \in [Sub -> Row] /\ c.attempt \in Nat
  BY <1>2 DEF SessionState
<1>4. c.new[s].failures \in Nat /\ c.new[s].active \in BOOLEAN /\ c.old[s].active \in BOOLEAN
  BY <1>3 DEF Row
<1>5. c.kind \in Delivery /\ s \in c.todo /\ s \in c.subs
  BY <1>2 DEF Delivers, DeliverySucceeds, AttemptFails, DeliveryFails, InTurn, Sound
<1>6. \A t \in Sub : failed'[t] \in Nat /\ failed[t] <= failed'[t]
  BY <1>1 DEF Delivers, DeliverySucceeds, AttemptFails, DeliveryFails
<1>7. failed' \in [Sub -> Nat]
  BY <1>1 DEF Delivers, DeliverySucceeds, AttemptFails, DeliveryFails
<1>8. /\ \A q \in Session \ {p} : session'[q] = session[q]
      /\ d.kind = c.kind /\ d.subs = c.subs /\ d.todo \subseteq c.todo /\ d.old = c.old
      /\ \A t \in Sub \ {s} : d.new[t] = c.new[t]
  BY <1>1, <1>3 DEF Delivers, DeliverySucceeds, AttemptFails, DeliveryFails, SessionState
<1>9. AfterSuccess(c.new[s]) \in Row /\ AfterFailure(c.new[s]) \in Row
  BY <1>3, OutcomeType
<1>10. session' \in [Session -> SessionState]
  <2>1. CASE DeliverySucceeds(p, s)
    <3> DEFINE e == [c EXCEPT !.todo = @ \ {s}, !.current = {}, !.attempt = 0,
                              !.new[s] = AfterSuccess(@)]
    <3>1. e \in SessionState  BY <1>2, <1>9 DEF SessionState
    <3>2. session' = [session EXCEPT ![p] = e]  BY <1>1, <2>1 DEF DeliverySucceeds
    <3> QED  BY <1>1, <3>1, <3>2
  <2>2. CASE AttemptFails(p, s)
    BY <1>1, <2>2 DEF AttemptFails, SessionState
  <2>3. CASE DeliveryFails(p, s)
    <3> DEFINE e == [c EXCEPT !.todo = @ \ {s}, !.current = {}, !.attempt = 0,
                              !.new[s] = AfterFailure(@)]
    <3>1. e \in SessionState  BY <1>2, <1>9 DEF SessionState
    <3>2. session' = [session EXCEPT ![p] = e]  BY <1>1, <2>3 DEF DeliveryFails
    <3> QED  BY <1>1, <3>1, <3>2
  <2> QED  BY <2>1, <2>2, <2>3 DEF Delivers
<1>11. /\ d.new[s].failures <= failed'[s]
       /\ d.new[s].active \/ failed'[s] >= THRESHOLD
       /\ d.new[s].active => c.new[s].active
  <2>1. /\ c.new[s].failures <= failed[s]
        /\ c.new[s].active \/ failed[s] >= THRESHOLD
    BY <1>2, <1>5 DEF Sound, Backed, ForCause
  <2>2. failed[s] \in Nat  BY <1>1
  <2>3. CASE DeliverySucceeds(p, s)
    <3>1. d.new[s] = AfterSuccess(c.new[s]) /\ failed' = failed
      BY <1>1, <1>3, <2>3 DEF DeliverySucceeds, SessionState
    <3>2. d.new[s].failures = 0 /\ d.new[s].active = c.new[s].active
      BY <1>3, <3>1 DEF AfterSuccess, Row
    <3> QED  BY <2>1, <2>2, <3>1, <3>2
  <2>4. CASE AttemptFails(p, s)
    <3>1. d.new[s] = c.new[s] /\ failed' = failed
      BY <1>1, <2>4 DEF AttemptFails, SessionState
    <3> QED  BY <2>1, <3>1
  <2>5. CASE DeliveryFails(p, s)
    <3>1. d.new[s] = AfterFailure(c.new[s]) /\ failed'[s] = failed[s] + 1
      BY <1>1, <1>3, <2>5 DEF DeliveryFails, SessionState
    <3>2. /\ d.new[s].failures = c.new[s].failures + 1
          /\ d.new[s].active = (c.new[s].active /\ ~ (c.new[s].failures + 1 >= THRESHOLD))
      BY <1>3, <3>1 DEF AfterFailure, Counted, TooMany, Row
    <3>3. d.new[s].failures <= failed'[s]  BY <1>4, <2>1, <2>2, <3>1, <3>2
    <3>4. ASSUME ~ d.new[s].active PROVE failed'[s] >= THRESHOLD
      BY <1>4, <2>1, <2>2, <3>1, <3>2, <3>4
    <3> QED  BY <3>2, <3>3, <3>4
  <2> QED  BY <2>3, <2>4, <2>5 DEF Delivers
<1>12. CounterBacked'
  <2> SUFFICES ASSUME NEW t \in Sub PROVE row[t].failures <= failed'[t]
    BY DEF CounterBacked, Delivers, DeliverySucceeds, AttemptFails, DeliveryFails
  <2>1. row[t].failures \in Nat /\ failed[t] \in Nat /\ row[t].failures <= failed[t]
    BY <1>1 DEF Row, IInv, CounterBacked
  <2> QED  BY <1>6, <2>1
<1>13. SessionsSound'
  <2> SUFFICES ASSUME NEW q \in Session PROVE Sound(session[q])'
    BY DEF SessionsSound
  <2>1. session[q] \in SessionState /\ Sound(session[q])  BY <1>1 DEF IInv, SessionsSound
  <2>2. Backed(session[q])'
    <3> SUFFICES ASSUME NEW t \in Sub
                 PROVE  /\ session'[q].old[t].failures <= failed'[t]
                        /\ session'[q].new[t].failures <= failed'[t]
      BY DEF Backed
    <3>1. /\ session[q].old[t].failures \in Nat /\ session[q].new[t].failures \in Nat
          /\ failed[t] \in Nat /\ failed'[t] \in Nat /\ failed[t] <= failed'[t]
          /\ session[q].old[t].failures <= failed[t]
          /\ session[q].new[t].failures <= failed[t]
      BY <1>1, <1>6, <2>1 DEF SessionState, Row, Sound, Backed
    <3>2. CASE q = p /\ t = s  BY <1>8, <1>11, <3>1, <3>2
    <3>3. CASE ~ (q = p /\ t = s)
      <4>1. session'[q].old[t] = session[q].old[t] /\ session'[q].new[t] = session[q].new[t]
        BY <1>8, <3>3
      <4> QED  BY <3>1, <4>1
    <3> QED  BY <3>2, <3>3
  <2>3. ForCause(session[q])'
    <3> SUFFICES ASSUME NEW t \in session'[q].subs, session'[q].kind \in Delivery
                 PROVE  /\ session'[q].old[t].active
                        /\ session'[q].new[t].active \/ failed'[t] >= THRESHOLD
      BY DEF ForCause
    <3>1. t \in session[q].subs /\ session[q].kind \in Delivery /\ t \in Sub
      BY <1>8, <2>1 DEF SessionState
    <3>2. /\ session[q].old[t].active
          /\ session[q].new[t].active \/ failed[t] >= THRESHOLD
      BY <2>1, <3>1 DEF Sound, ForCause
    <3>3. failed[t] >= THRESHOLD => failed'[t] >= THRESHOLD  BY <1>1, <1>6, <3>1
    <3>4. session'[q].old[t] = session[q].old[t]  BY <1>8
    <3>5. CASE q = p /\ t = s  BY <1>11, <3>2, <3>4, <3>5
    <3>6. CASE ~ (q = p /\ t = s)
      <4>1. session'[q].new[t] = session[q].new[t]  BY <1>8, <3>1, <3>6
      <4> QED  BY <3>2, <3>3, <3>4, <4>1
    <3> QED  BY <3>5, <3>6
  <2>4. NotOn(session[q])'
    <3> SUFFICES ASSUME NEW t \in session'[q].subs,
                        session'[q].kind \notin {"activate", "create"},
                        session'[q].new[t].active
                 PROVE  session'[q].old[t].active
      BY DEF NotOn
    <3>1. t \in session[q].subs /\ session[q].kind \notin {"activate", "create"} /\ t \in Sub
      BY <1>8, <2>1 DEF SessionState
    <3>2. session[q].new[t].active  BY <1>8, <1>11, <3>1
    <3>3. session'[q].old[t] = session[q].old[t]  BY <1>8
    <3> QED  BY <2>1, <3>1, <3>2, <3>3 DEF Sound, NotOn
  <2>5. session'[q].todo \subseteq session'[q].subs  BY <1>8, <2>1 DEF Sound
  <2> QED  BY <2>2, <2>3, <2>4, <2>5 DEF Sound
<1>14. CreatesNew'
  <2>1. \A q \in Session : session'[q].subs = session[q].subs /\ session'[q].kind = session[q].kind
    BY <1>8
  <2>2. exists' = exists
    BY DEF Delivers, DeliverySucceeds, AttemptFails, DeliveryFails
  <2> QED  BY <2>1, <2>2 DEF CreatesNew, IInv
<1> QED  BY <1>7, <1>10, <1>12, <1>13, <1>14

\* A session that closes leaves the others as they were.
LEMMA ClosesPreserves ==
  ASSUME IInv, NEW p \in Session, Close(p), failed' = failed,
         \A s \in Sub \ session[p].subs : exists'[s] = exists[s]
  PROVE  session' \in [Session -> SessionState] /\ SessionsSound' /\ CreatesNew'
<1>1. session \in [Session -> SessionState] /\ failed \in [Sub -> Nat]
  BY DEF IInv, TypeOK
<1>2. Sound(Closed)
  BY <1>1 DEF Sound, Backed, ForCause, NotOn, Closed, Blank, Delivery
<1>3. /\ session'[p] = Closed
      /\ \A q \in Session \ {p} : session'[q] = session[q]
  BY <1>1 DEF Close
<1>4. session' \in [Session -> SessionState]  BY <1>1, ClosedType DEF Close
<1>5. SessionsSound'
  <2> SUFFICES ASSUME NEW q \in Session PROVE Sound(session[q])'
    BY DEF SessionsSound
  <2>1. Sound(session[q])' = Sound(session'[q])
    BY DEF Sound, Backed, ForCause, NotOn
  <2> QED  BY <1>2, <1>3, <2>1 DEF IInv, SessionsSound
<1>6. CreatesNew'
  <2> SUFFICES ASSUME NEW q \in Session, NEW s \in session'[q].subs,
                      session'[q].kind = "create"
               PROVE  /\ exists'[s] = "not_yet"
                      /\ \A r \in Session : s \in session'[r].subs => r = q
    BY DEF CreatesNew
  <2>1. q # p  BY <1>3 DEF Closed
  <2>2. session'[q] = session[q] /\ session[q] \in SessionState  BY <1>1, <1>3, <2>1
  <2>3. s \in Sub  BY <2>2 DEF SessionState
  <2>4. /\ exists[s] = "not_yet"
        /\ \A r \in Session : s \in session[r].subs => r = q
    BY <2>2 DEF IInv, CreatesNew
  <2>5. exists'[s] = exists[s]  BY <2>1, <2>3, <2>4
  <2> QED  BY <1>3, <2>4, <2>5 DEF Closed
<1> QED  BY <1>4, <1>5, <1>6

\* What a commit writes to the row of s.
CommittedRow(p, s) ==
  CASE s \notin session[p].subs -> row[s]
    [] s \in session[p].subs /\ session[p].kind = "delete" -> Blank
    [] OTHER -> Merge(row[s], session[p].old[s], session[p].new[s])

LEMMA CommitPreserves ==
  ASSUME IInv, NEW p \in Session, Commit(p)
  PROVE  IInv'
<1>1. /\ session \in [Session -> SessionState] /\ row \in [Sub -> Row]
      /\ failed \in [Sub -> Nat] /\ Sound(session[p])
  BY DEF IInv, TypeOK, SessionsSound
<1>2. session[p].old \in [Sub -> Row] /\ session[p].new \in [Sub -> Row]
  BY <1>1 DEF SessionState
<1>3. row' = [s \in Sub |-> CommittedRow(p, s)]  BY DEF Commit, CommittedRow
<1>4. ASSUME NEW s \in Sub
      PROVE  CommittedRow(p, s) \in Row /\ CommittedRow(p, s).failures <= failed[s]
  <2>1. Merge(row[s], session[p].old[s], session[p].new[s]) \in Row
    BY <1>1, <1>2, RowType
  <2>2. Merge(row[s], session[p].old[s], session[p].new[s]).failures
          \in {row[s].failures, session[p].new[s].failures}
    BY DEF Merge, Written
  <2>3. row[s].failures <= failed[s] /\ session[p].new[s].failures <= failed[s] /\ 0 <= failed[s]
    BY <1>1 DEF IInv, CounterBacked, Sound, Backed
  <2>4. Blank \in Row /\ Blank.failures = 0  BY DEF Blank, Row
  <2> QED  BY <1>1, <2>1, <2>2, <2>3, <2>4 DEF CommittedRow
<1>5. row' \in [Sub -> Row] /\ CounterBacked'
  BY <1>3, <1>4 DEF CounterBacked, Commit
<1>6. exists' \in [Sub -> {"not_yet", "there", "deleted"}]
  BY DEF Commit, IInv, TypeOK
<1>7. \A s \in Sub \ session[p].subs : exists'[s] = exists[s]  BY DEF Commit
<1> QED  BY <1>5, <1>6, <1>7, ClosesPreserves DEF IInv, TypeOK, Commit

\* Bulk updates by the cascade and by a granted appeal.
LEMMA SwitchAllPreserves ==
  ASSUME IInv, NEW on \in BOOLEAN, SwitchAll(on)
  PROVE  IInv'
<1>1. row \in [Sub -> Row]  BY DEF IInv, TypeOK
<1>2. \A s \in Sub : /\ [row[s] EXCEPT !.active = on] \in Row
                     /\ [row[s] EXCEPT !.active = on].failures = row[s].failures
  BY <1>1 DEF Row
<1>3. row' \in [Sub -> Row] /\ \A s \in Sub : row'[s].failures = row[s].failures
  BY <1>1, <1>2 DEF SwitchAll
<1>4. UNCHANGED <<exists, session, subscribed, channel, published, failed>>
  BY DEF SwitchAll
<1>5. TypeOK'  BY <1>3, <1>4 DEF IInv, TypeOK
<1>6. CounterBacked'  BY <1>3, <1>4 DEF IInv, CounterBacked
<1>7. SessionsSound'
  BY <1>4 DEF IInv, SessionsSound, Sound, Backed, ForCause, NotOn
<1>8. CreatesNew'  BY <1>4 DEF IInv, CreatesNew
<1> QED  BY <1>5, <1>6, <1>7, <1>8 DEF IInv

\* Steps that touch no session, row or count.
LEMMA QuietPreserves ==
  ASSUME IInv, UNCHANGED <<exists, row, session, failed>>,
         subscribed' \in BOOLEAN, channel' \in Seq(EventType), published' \in Nat
  PROVE  IInv'
<1>1. TypeOK'  BY DEF IInv, TypeOK
<1>2. SessionsSound'
  BY DEF IInv, SessionsSound, Sound, Backed, ForCause, NotOn
<1> QED  BY <1>1, <1>2 DEF IInv, CounterBacked, CreatesNew

LEMMA Initially == Init => IInv
<1> SUFFICES ASSUME Init PROVE IInv
  OBVIOUS
<1>1. Blank \in Row  BY DEF Blank, Row
<1>0. <<>> \in Seq(EventType)  OBVIOUS
<1>2. TypeOK  BY <1>0, <1>1, ClosedType DEF Init, TypeOK
<1>3. CounterBacked  BY DEF Init, CounterBacked, Blank
<1>4. Sound(Closed)
  BY DEF Init, Sound, Backed, ForCause, NotOn, Closed, Blank, Delivery
<1>5. SessionsSound  BY <1>4 DEF Init, SessionsSound
<1>6. CreatesNew  BY DEF Init, CreatesNew, Closed
<1> QED  BY <1>2, <1>3, <1>5, <1>6 DEF IInv

\* What each disjunct of Next comes down to.
StepKinds ==
  \/ \E p \in Session, kind \in Kind, S \in SUBSET Sub, todo \in SUBSET Sub,
        change \in [Sub -> Row] : Opens(p, kind, S, todo, change)
  \/ \E p \in Session, s \in Sub : Delivers(p, s)
  \/ \E p \in Session : Commit(p) \/ CommitRefused(p) \/ Rollback(p)
  \/ WorkerDies
  \/ \E on \in BOOLEAN : SwitchAll(on)
  \/ UNCHANGED <<exists, row, session, failed>>

LEMMA NextKinds == ASSUME TypeOK, [Next]_vars PROVE StepKinds
<1>0. Worker \in Session /\ Request \subseteq Session  BY DEF Session
<1>1. row \in [Sub -> Row]  BY DEF TypeOK
<1>2. CASE WorkerStep
  <2>1. CASE Subscribe  BY <2>1 DEF Subscribe, StepKinds
  <2>2. CASE TakeEvent
    <3>1. PICK S \in SUBSET Sub : Opens(Worker, "event", S, S, row)
      BY <2>2, TakeEventOpens
    <3> QED  BY <1>0, <1>1, <3>1 DEF StepKinds, Kind
  <2>3. CASE Commit(Worker) \/ CommitRefused(Worker)  BY <1>0, <2>3 DEF StepKinds
  <2>4. CASE \E s \in Sub : \/ DeliverySucceeds(Worker, s) \/ AttemptFails(Worker, s)
                            \/ DeliveryFails(Worker, s)
    BY <1>0, <2>4 DEF StepKinds, Delivers
  <2> QED  BY <1>2, <2>1, <2>2, <2>3, <2>4 DEF WorkerStep
<1>3. ASSUME NEW p \in Request, RequestStep(p) PROVE StepKinds
  <2>1. CASE Commit(p) \/ CommitRefused(p)  BY <1>0, <2>1 DEF StepKinds
  <2>2. ASSUME NEW e \in EventType, Dispatch(p, e) PROVE StepKinds
    <3>1. PICK S \in SUBSET Sub : Opens(p, "dispatch", S, S, row)
      BY <2>2, DispatchOpens
    <3> QED  BY <1>0, <1>1, <3>1 DEF StepKinds, Kind
  <2>3. ASSUME NEW s \in Sub, DeliverySucceeds(p, s) \/ DeliveryFails(p, s) PROVE StepKinds
    BY <1>0, <2>3 DEF StepKinds, Delivers
  <2>4. ASSUME NEW s \in Sub, OwnerStep(p, s) PROVE StepKinds
    <3>1. PICK kind \in Kind, change \in [Sub -> Row] : Opens(p, kind, {s}, {}, change)
      BY <2>4, OwnerOpens
    <3>2. {s} \in SUBSET Sub /\ {} \in SUBSET Sub  OBVIOUS
    <3> QED  BY <1>0, <3>1, <3>2 DEF StepKinds
  <2> QED  BY <1>3, <2>1, <2>2, <2>3, <2>4 DEF RequestStep, OwnerStep
<1>4. CASE \E p \in Session : Rollback(p)  BY <1>4 DEF StepKinds
<1>5. CASE \E e \in EventType : Publish(e)  BY <1>5 DEF Publish, StepKinds
<1>6. CASE LoseConnection \/ WorkerDies  BY <1>6 DEF LoseConnection, StepKinds
<1>7. CASE CascadeDeactivate \/ AppealOverturned
  BY <1>7 DEF CascadeDeactivate, AppealOverturned, StepKinds
<1>8. CASE UNCHANGED vars  BY <1>8 DEF vars, StepKinds
<1> QED  BY <1>2, <1>3, <1>4, <1>5, <1>6, <1>7, <1>8 DEF Next

\* The connection's part of the types.
LEMMA ChannelType ==
  ASSUME TypeOK, [Next]_vars
  PROVE  subscribed' \in BOOLEAN /\ channel' \in Seq(EventType) /\ published' \in Nat
<1> USE DEF TypeOK
<1>0. <<>> \in Seq(EventType)  OBVIOUS
<1>1. CASE TakeEvent  BY <1>1 DEF TakeEvent
<1>2. CASE \E e \in EventType : Publish(e)  BY <1>2 DEF Publish
<1>3. CASE Subscribe \/ LoseConnection \/ WorkerDies
  BY <1>0, <1>3 DEF Subscribe, LoseConnection, WorkerDies
<1>4. CASE UNCHANGED <<subscribed, channel, published>>  BY <1>4
<1>5. ASSUME NEW p \in Session, NEW s \in Sub, Delivers(p, s)
      PROVE  UNCHANGED <<subscribed, channel, published>>
  BY <1>5 DEF Delivers, DeliverySucceeds, AttemptFails, DeliveryFails
<1>6. ASSUME NEW p \in Session, Commit(p) \/ CommitRefused(p) \/ Rollback(p)
      PROVE  UNCHANGED <<subscribed, channel, published>>
  BY <1>6 DEF Commit, CommitRefused, Rollback
<1>7. ASSUME NEW p \in Request, NEW s \in Sub, OwnerStep(p, s)
      PROVE  UNCHANGED <<subscribed, channel, published>>
  BY <1>7 DEF OwnerStep, DeleteWebhook, ActivateWebhook, DeactivateWebhook,
              CreateWebhook, UpdateWebhook
<1>8. ASSUME NEW p \in Request, NEW e \in EventType, Dispatch(p, e)
      PROVE  UNCHANGED <<subscribed, channel, published>>
  BY <1>8 DEF Dispatch
<1>9. CASE CascadeDeactivate \/ AppealOverturned
  BY <1>9 DEF CascadeDeactivate, AppealOverturned, SwitchAll
<1>10. CASE UNCHANGED vars  BY <1>10 DEF vars
<1> HIDE DEF TypeOK
<1>11. CASE WorkerStep
  BY <1>1, <1>3, <1>4, <1>5, <1>6, <1>11 DEF WorkerStep, Delivers, Session
<1>12. CASE \E p \in Request : RequestStep(p)
  BY <1>4, <1>5, <1>6, <1>7, <1>8, <1>12 DEF RequestStep, OwnerStep, Delivers, Session
<1> QED
  BY <1>2, <1>3, <1>4, <1>6, <1>9, <1>10, <1>11, <1>12 DEF Next

LEMMA Inductive == ASSUME IInv, [Next]_vars PROVE IInv'
<1>0. TypeOK /\ StepKinds  BY NextKinds DEF IInv
<1>1. subscribed' \in BOOLEAN /\ channel' \in Seq(EventType) /\ published' \in Nat
  BY <1>0, ChannelType
<1>2. ASSUME NEW p \in Session, NEW kind \in Kind, NEW S \in SUBSET Sub,
             NEW todo \in SUBSET Sub, NEW change \in [Sub -> Row],
             Opens(p, kind, S, todo, change)
      PROVE  IInv'
  <2>1. /\ session' \in [Session -> SessionState]
        /\ CounterBacked' /\ SessionsSound' /\ CreatesNew'
    BY <1>2, OpensPreserves
  <2> QED  BY <1>0, <1>1, <1>2, <2>1 DEF IInv, TypeOK, Opens
<1>3. ASSUME NEW p \in Session, NEW s \in Sub, Delivers(p, s) PROVE IInv'
  <2>1. /\ session' \in [Session -> SessionState]
        /\ failed' \in [Sub -> Nat]
        /\ CounterBacked' /\ SessionsSound' /\ CreatesNew'
    BY <1>3, DeliversPreserves
  <2>2. UNCHANGED <<exists, row>>
    BY <1>3 DEF Delivers, DeliverySucceeds, AttemptFails, DeliveryFails
  <2> QED  BY <1>0, <1>1, <2>1, <2>2 DEF IInv, TypeOK
<1>4. ASSUME NEW p \in Session, Close(p), UNCHANGED <<exists, row, failed>> PROVE IInv'
  <2>1. session' \in [Session -> SessionState] /\ SessionsSound' /\ CreatesNew'
    BY <1>4, ClosesPreserves
  <2> QED  BY <1>0, <1>1, <1>4, <2>1 DEF IInv, TypeOK, CounterBacked
<1>5. ASSUME NEW p \in Session, Commit(p) \/ CommitRefused(p) \/ Rollback(p) PROVE IInv'
  BY <1>4, <1>5, CommitPreserves DEF CommitRefused, Rollback
<1>6. CASE WorkerDies  BY <1>4, <1>6 DEF WorkerDies, Session
<1>7. ASSUME NEW on \in BOOLEAN, SwitchAll(on) PROVE IInv'
  BY <1>7, SwitchAllPreserves
<1>8. CASE UNCHANGED <<exists, row, session, failed>>
  BY <1>1, <1>8, QuietPreserves
<1> QED  BY <1>0, <1>2, <1>3, <1>5, <1>6, <1>7, <1>8 DEF StepKinds

THEOREM AlwaysInv == Spec => []IInv
BY Initially, Inductive, PTL DEF Spec

-----------------------------------------------------------------------------

\* Rows, sessions, the channel and the counts keep their types.
THEOREM TypeCorrect == Spec => []TypeOK
BY AlwaysInv, PTL DEF IInv

\* However stale the copies that are written back, no counter exceeds the
\* failures that happened.
THEOREM CountersAreBacked == Spec => []CounterBacked
BY AlwaysInv, PTL DEF IInv

\* A delivery's commit is the only way a session of a delivery changes a row.
LEMMA OnlyItsCommit ==
  ASSUME IInv, [Next]_vars, NEW p \in Session, NEW s \in Sub, CommitOf(p),
         row'[s] # row[s]
  PROVE  Commit(p) /\ s \in session[p].subs
<1>1. StepKinds /\ session \in [Session -> SessionState]  BY NextKinds DEF IInv, TypeOK
<1>2. session'[p] # session[p] /\ row' # row  BY DEF CommitOf
<1>3. PICK q \in Session : Commit(q)
  <2>1. ASSUME NEW q \in Session, NEW t \in Sub, Delivers(q, t) PROVE row' = row
    BY <2>1 DEF Delivers, DeliverySucceeds, AttemptFails, DeliveryFails
  <2>2. ASSUME NEW q \in Session, CommitRefused(q) \/ Rollback(q) PROVE row' = row
    BY <2>2 DEF CommitRefused, Rollback
  <2>3. ASSUME NEW on \in BOOLEAN, SwitchAll(on) PROVE session' = session
    BY <2>3 DEF SwitchAll
  <2>4. ASSUME WorkerDies PROVE row' = row  BY <2>4 DEF WorkerDies
  <2>5. ASSUME NEW q \in Session, NEW kind \in Kind, NEW S \in SUBSET Sub,
               NEW todo \in SUBSET Sub, NEW change \in [Sub -> Row],
               Opens(q, kind, S, todo, change)
        PROVE  row' = row
    BY <2>5 DEF Opens
  <2> QED  BY <1>1, <1>2, <2>1, <2>2, <2>3, <2>4, <2>5 DEF StepKinds
<1>4. q = p  BY <1>1, <1>2, <1>3 DEF Commit, Close
<1>5. s \in session[p].subs  BY <1>3, <1>4 DEF Commit
<1> QED  BY <1>3, <1>4, <1>5

\* No delivery switches a subscription off before THRESHOLD deliveries to it
\* have failed.
THEOREM DropsAreEarned == Spec => DropNeedsFailures
<1>1. ASSUME IInv, [Next]_vars, NEW s \in Sub, NEW p \in Session,
             session[p].kind \in Delivery, CommitOf(p), row[s].active, ~ row'[s].active
      PROVE  failed[s] >= THRESHOLD
  <2>1. Commit(p) /\ s \in session[p].subs  BY <1>1, OnlyItsCommit
  <2>2. row'[s] = Merge(row[s], session[p].old[s], session[p].new[s])
    BY <1>1, <2>1 DEF Commit, Delivery
  <2>3. ~ session[p].new[s].active  BY <1>1, <2>2 DEF Merge, Written
  <2>4. session[p].new[s].active \/ failed[s] >= THRESHOLD
    BY <1>1, <2>1 DEF IInv, SessionsSound, Sound, ForCause
  <2> QED  BY <2>3, <2>4
<1>2. IInv /\ [Next]_vars =>
        [\A s \in Sub, p \in Session :
           (session[p].kind \in Delivery /\ CommitOf(p) /\ row[s].active /\ ~ row'[s].active)
             => failed[s] >= THRESHOLD]_vars
  BY <1>1
<1> QED  BY <1>2, AlwaysInv, PTL DEF Spec, DropNeedsFailures

\* Nothing but an activation, or a granted appeal, switches a subscription on.
THEOREM OffIsLasting == Spec => OffStaysOff
<1>1. ASSUME IInv, [Next]_vars, NEW s \in Sub, NEW p \in Session,
             CommitOf(p), Exists(s), ~ row[s].active, row'[s].active
      PROVE  session[p].kind = "activate"
  <2>1. Commit(p) /\ s \in session[p].subs  BY <1>1, OnlyItsCommit
  <2>2. session[p].kind # "create"
    BY <1>1, <2>1 DEF IInv, CreatesNew, Exists
  <2>3. row'[s] = Merge(row[s], session[p].old[s], session[p].new[s])
    BY <1>1, <2>1 DEF Commit, Blank
  <2>4. session[p].new[s].active /\ session[p].new[s].active # session[p].old[s].active
    BY <1>1, <2>3 DEF Merge, Written
  <2>5. session[p].new[s].active \in BOOLEAN /\ session[p].old[s].active \in BOOLEAN
    BY <1>1 DEF IInv, TypeOK, SessionState, Row
  <2>6. NotOn(session[p])  BY <1>1 DEF IInv, SessionsSound, Sound
  <2> QED  BY <2>1, <2>2, <2>4, <2>5, <2>6 DEF NotOn
<1>2. IInv /\ [Next]_vars =>
        [\A s \in Sub, p \in Session :
           (CommitOf(p) /\ Exists(s) /\ ~ row[s].active /\ row'[s].active)
             => session[p].kind = "activate"]_vars
  BY <1>1
<1> QED  BY <1>2, AlwaysInv, PTL DEF Spec, OffStaysOff

=============================================================================
