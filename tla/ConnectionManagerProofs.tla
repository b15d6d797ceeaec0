----------------------- MODULE ConnectionManagerProofs -----------------------
(* Theorems about ConnectionManager, for any workers, sockets and messages *)
(* and any socket on any worker.  A channel's loop holds only sockets of   *)
(* its own worker and passes each once; that no worker runs a second loop  *)
(* for a message rests on how it comes to the workers: its one sender      *)
(* publishes it once, after its own loop, and does not relay it itself.    *)
EXTENDS ConnectionManager, TLAPS

\* A loop holds sockets that have connected, to the worker it runs on; those it
\* takes out have failed; over a channel it sends only to those it has copied.
Holds(clients, w, target, l) ==
  /\ \A s \in l.start : home[s] = w /\ clients[s] # "new"
  /\ \A s \in l.at : clients[s] # "new"
  /\ \A s \in l.dead : clients[s] \in {"failing", "gone"}
  /\ target = "channel" => l.at \subseteq l.seen \cap l.start
  /\ l.state = "next" => l.at = {}

LoopsHold ==
  \A m \in Message, w \in Worker : Holds(client, w, message[m].target, loop[m][w])

\* A queue has m, and has it once.
Has(q, m) == \E i \in DOMAIN q : q[i] = m

Once(q, m) == \A i, j \in DOMAIN q : q[i] = m /\ q[j] = m => i = j

Queued(m, w) == Has(queue[w], m)

\* A message has one sender, which publishes it when it is done.
OneSender ==
  \A m \in Message :
    /\ \A w, v \in message[m].origin : w = v
    /\ message[m].target = "none" =>
         message[m].origin = {} /\ \A w \in Worker : loop[m][w].state = "idle"
    /\ \A w \in Worker : loop[m][w].state = "publish" => Own(m, w)
    /\ \A w \in Worker : Own(m, w) => loop[m][w].state # "idle"

\* It has published what another worker relays, and each worker has it queued
\* once, and not again when it has relayed it.
RelayedOnce ==
  \A m \in Message, w \in Worker :
    /\ Queued(m, w) \/ (~ Own(m, w) /\ loop[m][w].state # "idle")
         => \E v \in Worker : Own(m, v) /\ loop[m][v].state = "over"
    /\ Queued(m, w) => Own(m, w) \/ loop[m][w].state = "idle"
    /\ Once(queue[w], m)

\* What a socket has got of a message it has from its own worker's loop over
\* the channel, which has been past it.
GotFromHome ==
  \A m \in Message, s \in Socket : received[m][s] > 0 =>
    LET l == loop[m][home[s]] IN
    /\ message[m].target = "channel" /\ l.state # "idle"
    /\ l.state \in {"next", "send"} => s \in l.seen \ l.at

IInv ==
  /\ TypeOK /\ IndexesAreRight /\ LoopsHold /\ OneSender /\ RelayedOnce
  /\ GotFromHome /\ ChannelAtMostOnce

-----------------------------------------------------------------------------
(* Loops.                                                                  *)

\* A loop that runs, with the sockets it holds.
Sets ==
  [state : {"next", "send"}, start : SUBSET Socket, seen : SUBSET Socket, twice : SUBSET Socket,
   at : SUBSET Socket, dead : SUBSET Socket, orphan : BOOLEAN]

LEMMA LoopFields ==
  ASSUME NEW l \in Loop
  PROVE  /\ l.state \in {"idle", "publish", "over", "next", "send"}
         /\ l.start \subseteq Socket /\ l.seen \subseteq Socket /\ l.twice \subseteq Socket
         /\ l.at \subseteq Socket /\ l.dead \subseteq Socket /\ l.orphan \in BOOLEAN
         /\ l.state \in {"next", "send"} => l \in Sets
         /\ l.state \notin {"next", "send"} => l.start = {} /\ l.at = {} /\ l.dead = {}
BY DEF Loop, Still, Sets

LEMMA SetsAreLoops == Sets \subseteq Loop
BY DEF Loop, Sets

LEMMA StillLoops ==
  ASSUME NEW x \in {"idle", "publish", "over"}
  PROVE  /\ [Still EXCEPT !.state = x] \in Loop
         /\ [Still EXCEPT !.state = x].state = x
         /\ [Still EXCEPT !.state = x].start = {} /\ [Still EXCEPT !.state = x].at = {}
         /\ [Still EXCEPT !.state = x].dead = {}
BY DEF Loop, Still

\* Where a loop ends: it holds nothing, and publishes only what it owns.
LEMMA DoneLoop ==
  ASSUME NEW own \in BOOLEAN
  PROVE  /\ Done(own) \in Loop
         /\ Done(own).state = IF own THEN "publish" ELSE "over"
         /\ Done(own).start = {} /\ Done(own).at = {} /\ Done(own).dead = {}
BY StillLoops DEF Done, Over

LEMMA StillHolds ==
  ASSUME NEW w, NEW target, NEW l, l.start = {}, l.at = {}, l.dead = {}
  PROVE  Holds(client', w, target, l)
BY DEF Holds

\* An index holds sockets of its worker that have connected.
LEMMA IndexOf ==
  ASSUME TypeOK, IndexesAreRight, NEW w \in Worker, NEW target \in Target
  PROVE  /\ Index(w, target) \subseteq Socket
         /\ \A s \in Index(w, target) : home[s] = w /\ client[s] \in {"open", "failing"}
BY DEF TypeOK, IndexesAreRight, Index, Target

LEMMA BegunLoop ==
  ASSUME TypeOK, IndexesAreRight, client' = client,
         NEW w \in Worker, NEW target \in Target, NEW own \in BOOLEAN
  PROVE  /\ Begun(w, target, own) \in Loop
         /\ Holds(client', w, target, Begun(w, target, own))
         /\ Begun(w, target, own).state # "idle"
         /\ Begun(w, target, own).state = "publish" => own
<1>1. CASE Index(w, target) = {}
  BY <1>1, DoneLoop, StillHolds DEF Begun
<1>2. CASE Index(w, target) # {}
  <2> DEFINE l == [Still EXCEPT !.state = "next", !.start = Index(w, target)]
  <2>1. Begun(w, target, own) = l  BY <1>2 DEF Begun
  <2>2. Index(w, target) \subseteq Socket  BY IndexOf
  <2>3. l \in Sets /\ l.state = "next" /\ l.start = Index(w, target) /\ l.at = {} /\ l.dead = {}
    BY <2>2 DEF Still, Sets
  <2>4. \A s \in Index(w, target) : home[s] = w /\ client'[s] # "new"
    BY IndexOf
  <2> HIDE DEF l
  <2>5. Holds(client', w, target, l)
    BY <2>3, <2>4 DEF Holds
  <2> QED  BY <2>1, <2>3, <2>5, SetsAreLoops
<1> QED  BY <1>1, <1>2

\* The update of one loop.
LEMMA OneLoop ==
  ASSUME TypeOK, NEW m \in Message, NEW w \in Worker, NEW l \in Loop,
         loop' = [loop EXCEPT ![m][w] = l]
  PROVE  /\ loop' \in [Message -> [Worker -> Loop]]
         /\ loop'[m][w] = l
         /\ \A n \in Message, v \in Worker : (n # m \/ v # w) => loop'[n][v] = loop[n][v]
BY DEF TypeOK

LEMMA OneLoopHolds ==
  ASSUME TypeOK, LoopsHold, NEW m \in Message, NEW w \in Worker, NEW l \in Loop,
         loop' = [loop EXCEPT ![m][w] = l], client' = client,
         \A n \in Message \ {m} : message'[n].target = message[n].target,
         \A v \in Worker \ {w} : loop[m][v].at = {} \/ message'[m].target = message[m].target,
         Holds(client', w, message'[m].target, l)
  PROVE  LoopsHold'
<1>1. ASSUME NEW n \in Message, NEW v \in Worker
      PROVE  Holds(client', v, message'[n].target, loop'[n][v])
  <2>1. CASE n = m /\ v = w
    BY <2>1, OneLoop
  <2>2. CASE n # m \/ v # w
    <3>1. loop'[n][v] = loop[n][v]  BY <2>2, OneLoop
    <3>2. Holds(client, v, message[n].target, loop[n][v])  BY DEF LoopsHold
    <3>3. loop[n][v].at = {} \/ message'[n].target = message[n].target
      BY <2>2
    <3> QED  BY <3>1, <3>2, <3>3 DEF Holds
  <2> QED  BY <2>1, <2>2
<1> QED  BY <1>1 DEF LoopsHold

\* A loop that runs or has to publish goes on.
LEMMA LoopGoesOn ==
  ASSUME TypeOK, OneSender, RelayedOnce, NEW m \in Message, NEW w \in Worker, NEW l \in Loop,
         loop' = [loop EXCEPT ![m][w] = l], UNCHANGED <<message, queue>>,
         loop[m][w].state \in {"next", "send", "publish"}, l.state # "idle",
         l.state = "publish" => Own(m, w)
  PROVE  OneSender' /\ RelayedOnce'
<1>1. \A n \in Message, v \in Worker :
        /\ loop[n][v].state = "over" => loop'[n][v].state = "over"
        /\ loop'[n][v].state = "idle" <=> loop[n][v].state = "idle"
        /\ loop'[n][v].state = "publish" => loop[n][v].state = "publish" \/ Own(n, v)
  <2>1. loop[m][w].state # "over" /\ loop[m][w].state # "idle"  OBVIOUS
  <2> QED  BY <2>1, OneLoop
<1>2. \A n, v : Own(n, v)' <=> Own(n, v)  BY DEF Own
<1>3. OneSender'  BY <1>1, <1>2 DEF OneSender
<1>4. \A n, v : Queued(n, v)' <=> Queued(n, v)  BY DEF Queued
<1>5. RelayedOnce'
  <2>1. \A n \in Message, v \in Worker : Once(queue'[v], n)
    BY DEF RelayedOnce
  <2> QED  BY <1>1, <1>2, <1>4, <2>1 DEF RelayedOnce
<1> QED  BY <1>3, <1>5

\* Loop l of m on w has been past all that have got m over the channel.
Passed(m, w, l) ==
  l.state \in {"next", "send"} =>
    \A s \in Socket :
      message[m].target = "channel" /\ home[s] = w /\ received[m][s] > 0 => s \in l.seen \ l.at

\* What has been received stays, as no loop forgets whom it has been past.
LEMMA ReceivedStays ==
  ASSUME TypeOK, GotFromHome, ChannelAtMostOnce, NEW m \in Message, NEW w \in Worker, NEW l \in Loop,
         loop' = [loop EXCEPT ![m][w] = l], received' = received,
         \A n \in Message : message'[n].target = message[n].target,
         loop[m][w].state = "idle" \/ (l.state # "idle" /\ Passed(m, w, l))
  PROVE  GotFromHome' /\ ChannelAtMostOnce'
<1>1. ASSUME NEW n \in Message, NEW s \in Socket, received'[n][s] > 0
      PROVE  /\ message'[n].target = "channel" /\ loop'[n][home[s]].state # "idle"
             /\ loop'[n][home[s]].state \in {"next", "send"}
                  => s \in loop'[n][home[s]].seen \ loop'[n][home[s]].at
  <2>1. home[s] \in Worker  BY HomeAssumption
  <2>2. /\ message[n].target = "channel" /\ loop[n][home[s]].state # "idle"
        /\ loop[n][home[s]].state \in {"next", "send"}
             => s \in loop[n][home[s]].seen \ loop[n][home[s]].at
    BY <1>1 DEF GotFromHome
  <2>3. CASE n = m /\ home[s] = w
    BY <1>1, <2>1, <2>2, <2>3, OneLoop DEF Passed
  <2>4. CASE n # m \/ home[s] # w
    BY <2>1, <2>2, <2>4, OneLoop
  <2> QED  BY <2>3, <2>4
<1>2. GotFromHome'  BY <1>1 DEF GotFromHome
<1>3. ChannelAtMostOnce'  BY DEF ChannelAtMostOnce
<1> QED  BY <1>2, <1>3

\* The type invariant in parts.
LEMMA Types ==
  TypeOK <=>
    /\ client \in [Socket -> ClientState]
    /\ connections \in [Worker -> SUBSET Socket]
    /\ subscribers \in [Worker -> SUBSET Socket]
    /\ all \in [Worker -> SUBSET Socket]
    /\ message \in [Message -> [target : Target \cup {"none"}, origin : SUBSET Worker]]
    /\ loop \in [Message -> [Worker -> Loop]]
    /\ redis \in [Worker -> {"off", "down", "on"}]
    /\ queue \in [Worker -> Seq(Message)]
    /\ received \in [Message -> [Socket -> 0 .. 2]]
BY DEF TypeOK

LEMMA TypesNext ==
  ASSUME client' \in [Socket -> ClientState],
         connections' \in [Worker -> SUBSET Socket],
         subscribers' \in [Worker -> SUBSET Socket],
         all' \in [Worker -> SUBSET Socket],
         message' \in [Message -> [target : Target \cup {"none"}, origin : SUBSET Worker]],
         loop' \in [Message -> [Worker -> Loop]],
         redis' \in [Worker -> {"off", "down", "on"}],
         queue' \in [Worker -> Seq(Message)],
         received' \in [Message -> [Socket -> 0 .. 2]]
  PROVE  TypeOK'
BY DEF TypeOK

LEMMA Typed ==
  ASSUME TypeOK
  PROVE  /\ \A m \in Message, w \in Worker : loop[m][w] \in Loop
         /\ \A m \in Message, s \in Socket : received[m][s] \in 0 .. 2
BY Types

\* IndexesAreRight of one index.
Right(index) ==
  \A s \in Socket, w \in Worker :
    /\ s \in index[w] => home[s] = w /\ client[s] \in {"open", "failing"}
    /\ client[s] = "open" /\ home[s] = w => s \in index[w]

LEMMA IndexParts ==
  IndexesAreRight <=> Right(connections) /\ Right(subscribers) /\ Right(all)
BY DEF IndexesAreRight, Right

LEMMA IndexPartsNext ==
  IndexesAreRight' <=> Right(connections)' /\ Right(subscribers)' /\ Right(all)'
BY DEF IndexesAreRight, Right

-----------------------------------------------------------------------------
(* Connections.                                                            *)

LEMMA ConnectPreserves ==
  ASSUME IInv, NEW s \in Socket, Connect(s)
  PROVE  IInv'
<1>0. TypeOK /\ home[s] \in Worker  BY HomeAssumption DEF IInv
<1>1. TypeOK'
  BY <1>0, Types, TypesNext DEF Connect, ClientState
<1>2. IndexesAreRight'
  <2>1. ASSUME NEW index \in [Worker -> SUBSET Socket], Right(index)
        PROVE  LET next == [index EXCEPT ![home[s]] = @ \cup {s}] IN
               \A t \in Socket, w \in Worker :
                 /\ t \in next[w] => home[t] = w /\ client'[t] \in {"open", "failing"}
                 /\ client'[t] = "open" /\ home[t] = w => t \in next[w]
    BY <1>0, <2>1, Types DEF Connect, Right
  <2> QED  BY <1>0, <2>1, IndexParts, IndexPartsNext, Types DEF IInv, Connect, Right
<1>3. LoopsHold'
  BY <1>0, Types DEF IInv, Connect, LoopsHold, Holds
<1>4. OneSender' /\ RelayedOnce' /\ GotFromHome' /\ ChannelAtMostOnce'
  BY DEF IInv, Connect, OneSender, RelayedOnce, Queued, Own, GotFromHome, ChannelAtMostOnce
<1> QED  BY <1>1, <1>2, <1>3, <1>4 DEF IInv

LEMMA FailPreserves ==
  ASSUME IInv, NEW s \in Socket, Fail(s)
  PROVE  IInv'
<1>0. TypeOK  BY DEF IInv
<1>1. TypeOK'
  BY <1>0, Types, TypesNext DEF Fail, ClientState
<1>2. IndexesAreRight'
  BY <1>0, IndexParts, IndexPartsNext, Types DEF IInv, Fail, Right
<1>3. LoopsHold'
  BY <1>0, Types DEF IInv, Fail, LoopsHold, Holds
<1>4. OneSender' /\ RelayedOnce' /\ GotFromHome' /\ ChannelAtMostOnce'
  BY DEF IInv, Fail, OneSender, RelayedOnce, Queued, Own, GotFromHome, ChannelAtMostOnce
<1> QED  BY <1>1, <1>2, <1>3, <1>4 DEF IInv

\* A loop that is orphaned is what it was but for that.
LEMMA DroppedLoops ==
  ASSUME TypeOK, NEW w \in Worker
  PROVE  /\ Dropped(w) \in [Message -> [Worker -> Loop]]
         /\ \A m \in Message, v \in Worker :
              /\ Dropped(w)[m][v].state = loop[m][v].state
              /\ Dropped(w)[m][v].start = loop[m][v].start
              /\ Dropped(w)[m][v].seen = loop[m][v].seen
              /\ Dropped(w)[m][v].at = loop[m][v].at
              /\ Dropped(w)[m][v].dead = loop[m][v].dead
<1> DEFINE flag(m) == loop[m][w].orphan
                        \/ (loop[m][w].state \in {"next", "send"} /\ message[m].target = "entity")
<1>1. ASSUME NEW m \in Message
      PROVE  /\ [loop[m][w] EXCEPT !.orphan = flag(m)] \in Loop
             /\ [loop[m][w] EXCEPT !.orphan = flag(m)].state = loop[m][w].state
             /\ [loop[m][w] EXCEPT !.orphan = flag(m)].start = loop[m][w].start
             /\ [loop[m][w] EXCEPT !.orphan = flag(m)].seen = loop[m][w].seen
             /\ [loop[m][w] EXCEPT !.orphan = flag(m)].at = loop[m][w].at
             /\ [loop[m][w] EXCEPT !.orphan = flag(m)].dead = loop[m][w].dead
  <2> DEFINE l == loop[m][w]
  <2>1. l \in Loop  BY Types
  <2>2. CASE l.state \in {"next", "send"}
    <3>1. l \in Sets /\ flag(m) \in BOOLEAN  BY <2>1, <2>2, LoopFields
    <3> HIDE DEF l, flag
    <3>2. [l EXCEPT !.orphan = flag(m)] \in Sets  BY <3>1 DEF Sets
    <3> QED  BY <3>1, <3>2, SetsAreLoops DEF Sets, l
  <2>3. CASE l.state \notin {"next", "send"}
    <3>1. PICK x \in {"idle", "publish", "over"} : l = [Still EXCEPT !.state = x]
      BY <2>1, <2>3 DEF Loop
    <3>2. flag(m) = FALSE /\ l.orphan = FALSE
      BY <2>3, <3>1 DEF Still
    <3>3. [l EXCEPT !.orphan = FALSE] = l
      BY <3>1 DEF Still
    <3> HIDE DEF flag
    <3> QED  BY <2>1, <3>2, <3>3
  <2> QED  BY <2>2, <2>3
<1>2. Dropped(w) = [m \in Message |-> [loop[m] EXCEPT ![w] = [loop[m][w] EXCEPT !.orphan = flag(m)]]]
  BY DEF Dropped
<1> HIDE DEF flag
<1>3. \A m \in Message : loop[m] \in [Worker -> Loop]  BY Types
<1>4. ASSUME NEW m \in Message, NEW v \in Worker
      PROVE  Dropped(w)[m][v] = IF v = w THEN [loop[m][w] EXCEPT !.orphan = flag(m)] ELSE loop[m][v]
  BY <1>2, <1>3
<1>5. Dropped(w) \in [Message -> [Worker -> Loop]]
  <2>1. ASSUME NEW m \in Message
        PROVE  [loop[m] EXCEPT ![w] = [loop[m][w] EXCEPT !.orphan = flag(m)]] \in [Worker -> Loop]
    <3> DEFINE x == [loop[m][w] EXCEPT !.orphan = flag(m)]
    <3>1. x \in Loop /\ loop[m] \in [Worker -> Loop]  BY <1>1, <1>3
    <3> HIDE DEF x
    <3>2. [loop[m] EXCEPT ![w] = x] \in [Worker -> Loop]  BY <3>1
    <3> QED  BY <3>2 DEF x
  <2> QED  BY <1>2, <2>1, Zenon
<1> QED  BY <1>1, <1>4, <1>5

LEMMA DisconnectPreserves ==
  ASSUME IInv, NEW s \in Socket, Disconnect(s)
  PROVE  IInv'
<1>0. TypeOK /\ home[s] \in Worker  BY HomeAssumption DEF IInv
<1>1. /\ loop' \in [Message -> [Worker -> Loop]]
      /\ \A m \in Message, v \in Worker :
           /\ loop'[m][v].state = loop[m][v].state
           /\ loop'[m][v].start = loop[m][v].start
           /\ loop'[m][v].seen = loop[m][v].seen
           /\ loop'[m][v].at = loop[m][v].at
           /\ loop'[m][v].dead = loop[m][v].dead
  BY <1>0, DroppedLoops, Types DEF Disconnect
<1>2. TypeOK'
  <2>1. /\ client' \in [Socket -> ClientState]
        /\ connections' \in [Worker -> SUBSET Socket]
        /\ subscribers' \in [Worker -> SUBSET Socket]
        /\ all' \in [Worker -> SUBSET Socket]
    BY <1>0, Types DEF Disconnect, ClientState
  <2> QED  BY <1>0, <1>1, <2>1, Types, TypesNext DEF Disconnect
<1>3. IndexesAreRight'
  <2>1. ASSUME NEW index \in [Worker -> SUBSET Socket], Right(index)
        PROVE  LET next == [index EXCEPT ![home[s]] = @ \ {s}] IN
               \A t \in Socket, w \in Worker :
                 /\ t \in next[w] => home[t] = w /\ client'[t] \in {"open", "failing"}
                 /\ client'[t] = "open" /\ home[t] = w => t \in next[w]
    BY <1>0, <2>1, Types DEF Disconnect, Right
  <2> QED  BY <1>0, <2>1, IndexParts, IndexPartsNext, Types DEF IInv, Disconnect, Right
<1>4. LoopsHold'
  BY <1>0, <1>1, Types DEF IInv, Disconnect, LoopsHold, Holds
<1>5. message' = message /\ queue' = queue /\ received' = received
  BY DEF Disconnect
<1>6. OneSender' /\ RelayedOnce'
  BY <1>1, <1>5 DEF IInv, OneSender, RelayedOnce, Queued, Own
<1>7. GotFromHome' /\ ChannelAtMostOnce'
  <2>1. \A t \in Socket : home[t] \in Worker  BY HomeAssumption
  <2> QED  BY <1>1, <1>5, <2>1 DEF IInv, GotFromHome, ChannelAtMostOnce
<1> QED  BY <1>2, <1>3, <1>4, <1>6, <1>7 DEF IInv

-----------------------------------------------------------------------------
(* Loops over sockets.                                                     *)

LEMMA TargetOf ==
  ASSUME TypeOK, OneSender, NEW m \in Message, NEW w \in Worker, loop[m][w].state # "idle"
  PROVE  message[m].target \in Target
BY Types DEF OneSender

LEMMA SendPreserves ==
  ASSUME IInv, NEW m \in Message, NEW w \in Worker, NEW target \in Target, Send(m, w, target)
  PROVE  IInv'
<1> DEFINE l == Begun(w, target, TRUE)
<1>0. TypeOK /\ IndexesAreRight /\ client' = client /\ message[m].target = "none"
  BY DEF IInv, Send, sockets
<1>1. /\ l \in Loop /\ Holds(client', w, target, l) /\ l.state # "idle"
  BY <1>0, BegunLoop
<1>2. loop' = [loop EXCEPT ![m][w] = l]  BY DEF Send
<1> HIDE DEF l
<1>3. /\ message' = [message EXCEPT ![m] = [target |-> target, origin |-> {w}]]
      /\ UNCHANGED <<client, connections, subscribers, all, redis, queue, received>>
  BY DEF Send, sockets
<1>4. /\ message' \in [Message -> [target : Target \cup {"none"}, origin : SUBSET Worker]]
      /\ message'[m].target = target /\ message'[m].origin = {w}
      /\ \A n \in Message \ {m} : message'[n] = message[n]
  BY <1>0, <1>3, Types
<1>5. TypeOK'
  BY <1>0, <1>1, <1>2, <1>3, <1>4, OneLoop, Types, TypesNext
<1>6. IndexesAreRight'
  BY <1>3 DEF IInv, IndexesAreRight
<1>7. \A v \in Worker : loop[m][v].state = "idle"
  BY <1>0 DEF IInv, OneSender
<1>8. LoopsHold'
  <2>1. \A v \in Worker : loop[m][v].at = {}
    <3> SUFFICES ASSUME NEW v \in Worker PROVE loop[m][v].at = {}
      OBVIOUS
    <3>1. loop[m][v] \in Loop /\ loop[m][v].state = "idle"  BY <1>0, <1>7, Typed
    <3> QED  BY <3>1, LoopFields
  <2> QED  BY <1>0, <1>1, <1>2, <1>4, <2>1, OneLoopHolds DEF IInv
<1>9. \A n \in Message, v \in Worker : (n # m \/ v # w) => loop'[n][v] = loop[n][v]
  BY <1>0, <1>1, <1>2, OneLoop
<1>10. loop'[m][w] = l
  BY <1>0, <1>1, <1>2, OneLoop
<1>11. \A n \in Message, v \in Worker : n # m => (Own(n, v)' <=> Own(n, v))
  BY <1>4 DEF Own
<1>12. \A v \in Worker : Own(m, v)' <=> v = w
  BY <1>4 DEF Own
<1>13. OneSender'
  <2>1. ASSUME NEW n \in Message, n # m
        PROVE  /\ \A v, u \in message'[n].origin : v = u
               /\ message'[n].target = "none" =>
                    message'[n].origin = {} /\ \A v \in Worker : loop'[n][v].state = "idle"
               /\ \A v \in Worker : loop'[n][v].state = "publish" => Own(n, v)'
               /\ \A v \in Worker : Own(n, v)' => loop'[n][v].state # "idle"
    BY <2>1, <1>4, <1>9, <1>11 DEF IInv, OneSender
  <2>2. /\ \A v, u \in message'[m].origin : v = u
        /\ message'[m].target # "none"
        /\ \A v \in Worker : loop'[m][v].state = "publish" => Own(m, v)'
        /\ \A v \in Worker : Own(m, v)' => loop'[m][v].state # "idle"
    BY <1>1, <1>4, <1>7, <1>9, <1>10, <1>12 DEF Target
  <2> QED  BY <2>1, <2>2 DEF OneSender
<1>14. RelayedOnce'
  <2>1. \A n, v : Queued(n, v)' <=> Queued(n, v)  BY <1>3 DEF Queued
  <2>2. \A v \in Worker : ~ Queued(m, v)
    BY <1>7 DEF IInv, RelayedOnce
  <2>3. ASSUME NEW n \in Message, NEW v \in Worker, n # m
        PROVE  /\ Queued(n, v)' \/ (~ Own(n, v)' /\ loop'[n][v].state # "idle")
                    => \E u \in Worker : Own(n, u)' /\ loop'[n][u].state = "over"
               /\ Queued(n, v)' => Own(n, v)' \/ loop'[n][v].state = "idle"
    BY <2>1, <2>3, <1>9, <1>11 DEF IInv, RelayedOnce
  <2>4. \A v \in Worker : ~ Queued(m, v)' /\ (Own(m, v)' \/ loop'[m][v].state = "idle")
    BY <2>1, <2>2, <1>7, <1>9, <1>12
  <2>5. \A n \in Message, v \in Worker : Once(queue'[v], n)
    BY <1>3 DEF IInv, RelayedOnce
  <2> QED  BY <2>3, <2>4, <2>5 DEF RelayedOnce
<1>15. GotFromHome' /\ ChannelAtMostOnce'
  <2>1. \A s \in Socket : home[s] \in Worker  BY HomeAssumption
  <2>2. \A s \in Socket : ~ (received[m][s] > 0)
    BY <1>7, <2>1 DEF IInv, GotFromHome
  <2>3. \A s \in Socket : received[m][s] <= 1
    <3>1. \A s \in Socket : received[m][s] \in 0 .. 2  BY <1>0, Typed
    <3> QED  BY <2>2, <3>1
  <2>4. GotFromHome'
    BY <1>3, <1>4, <1>9, <2>1, <2>2 DEF IInv, GotFromHome
  <2>5. ChannelAtMostOnce'
    BY <1>3, <1>4, <2>3 DEF IInv, ChannelAtMostOnce
  <2> QED  BY <2>4, <2>5
<1> QED  BY <1>5, <1>6, <1>8, <1>13, <1>14, <1>15 DEF IInv

LEMMA ChoiceIsLive ==
  ASSUME TypeOK, IndexesAreRight, LoopsHold, OneSender,
         NEW m \in Message, NEW w \in Worker, loop[m][w].state # "idle", NEW s \in Choice(m, w)
  PROVE  /\ s \in Socket /\ client[s] # "new"
         /\ message[m].target = "channel" => s \in loop[m][w].start \ loop[m][w].seen
<1>1. message[m].target \in Target /\ loop[m][w] \in Loop
  BY TargetOf, Types
<1>2. Live(m, w) \subseteq Socket /\ \A t \in Live(m, w) : client[t] # "new"
  BY <1>1, IndexOf, LoopFields DEF Live, LoopsHold, Holds
<1>3. s \in Live(m, w)  BY DEF Choice, Changed
<1>4. ASSUME message[m].target = "channel" PROVE s \in loop[m][w].start \ loop[m][w].seen
  BY <1>4 DEF Choice, Changed, Live
<1> QED  BY <1>2, <1>3, <1>4

\* A step of a loop that leaves all else alone but for indexes and what is
\* received.
LEMMA StepPreserves ==
  ASSUME IInv, NEW m \in Message, NEW w \in Worker, NEW l \in Loop, Step(m, w, l),
         loop[m][w].state \in {"next", "send", "publish"}, l.state # "idle",
         l.state = "publish" => Own(m, w),
         Holds(client', w, message[m].target, l),
         connections' \in [Worker -> SUBSET Socket],
         subscribers' \in [Worker -> SUBSET Socket],
         all' \in [Worker -> SUBSET Socket],
         IndexesAreRight',
         received' \in [Message -> [Socket -> 0 .. 2]],
         GotFromHome', ChannelAtMostOnce'
  PROVE  IInv'
<1>0. /\ TypeOK /\ OneSender /\ RelayedOnce /\ LoopsHold
      /\ loop' = [loop EXCEPT ![m][w] = l]
      /\ client' = client /\ message' = message /\ redis' = redis /\ queue' = queue
  BY DEF IInv, Step
<1>1. TypeOK'
  BY <1>0, OneLoop, Types, TypesNext
<1>2. LoopsHold'
  BY <1>0, OneLoopHolds
<1>3. OneSender' /\ RelayedOnce'
  BY <1>0, LoopGoesOn
<1> QED  BY <1>1, <1>2, <1>3 DEF IInv

LEMMA VisitPreserves ==
  ASSUME IInv, NEW m \in Message, NEW w \in Worker, NEW s \in Socket, Visit(m, w, s)
  PROVE  IInv'
<1> DEFINE l == loop[m][w]
           d == [l EXCEPT !.state = "send", !.at = {s}, !.seen = @ \cup {s},
                          !.twice = IF s \in l.seen THEN @ \cup {s} ELSE @]
<1>0. TypeOK /\ IndexesAreRight /\ LoopsHold /\ OneSender  BY DEF IInv
<1>1. /\ l.state = "next" /\ s \in Choice(m, w) /\ Step(m, w, d)
      /\ UNCHANGED <<connections, subscribers, all, received>>
  BY DEF Visit
<1>2. l \in Sets  BY <1>0, <1>1, LoopFields, Types
<1>3. /\ d \in Sets /\ d.state = "send" /\ d.at = {s} /\ d.seen = l.seen \cup {s}
      /\ d.start = l.start /\ d.dead = l.dead
  <2> HIDE DEF l
  <2> QED  BY <1>2 DEF Sets
<1>4. /\ client[s] # "new"
      /\ message[m].target = "channel" => s \in l.start \ l.seen
  BY <1>0, <1>1, ChoiceIsLive
<1>5. Holds(client, w, message[m].target, l)  BY <1>0 DEF LoopsHold
<1>6. client' = client /\ message' = message /\ loop' = [loop EXCEPT ![m][w] = d]
  BY <1>1 DEF Step
<1> HIDE DEF d
<1>7. Holds(client', w, message[m].target, d)
  BY <1>1, <1>3, <1>4, <1>5, <1>6 DEF Holds
<1>8. GotFromHome' /\ ChannelAtMostOnce'
  <2>1. \A t \in Socket :
          message[m].target = "channel" /\ home[t] = w /\ received[m][t] > 0 => t \in l.seen
    BY <1>1 DEF IInv, GotFromHome
  <2>2. \A t \in Socket :
          message[m].target = "channel" /\ home[t] = w /\ received[m][t] > 0
          => t \in d.seen \ d.at
    BY <2>1, <1>3, <1>4
  <2>3. d \in Loop /\ d.state # "idle"  BY <1>3, SetsAreLoops
  <2>4. /\ received' = received /\ \A n \in Message : message'[n].target = message[n].target
        /\ GotFromHome /\ ChannelAtMostOnce
    BY <1>1, <1>6 DEF IInv
  <2>5. Passed(m, w, d)  BY <2>2 DEF Passed
  <2> QED  BY <1>0, <1>6, <2>3, <2>4, <2>5, ReceivedStays
<1>9. IndexesAreRight'  BY <1>0, <1>1, <1>6 DEF IndexesAreRight
<1> QED
  BY <1>0, <1>1, <1>3, <1>7, <1>8, <1>9, SetsAreLoops, StepPreserves, Types

\* What a send that succeeds adds to what has been received.
LEMMA SentReceived ==
  ASSUME TypeOK, NEW m \in Message, NEW w \in Worker, Sent(m, w)
  PROVE  /\ received' \in [Message -> [Socket -> 0 .. 2]]
         /\ \A n \in Message \ {m} : received'[n] = received[n]
         /\ \A s \in Socket : received'[m][s] =
              IF s \in loop[m][w].at /\ message[m].target = "channel" /\ received[m][s] < 2
              THEN received[m][s] + 1 ELSE received[m][s]
<1> DEFINE l == loop[m][w]
           got == [s \in Socket |->
             IF s \in l.at /\ message[m].target = "channel" /\ received[m][s] < 2
             THEN received[m][s] + 1 ELSE received[m][s]]
<1>1. received' = [received EXCEPT ![m] = got]  BY DEF Sent
<1>2. received \in [Message -> [Socket -> 0 .. 2]]  BY Types
<1>3. got \in [Socket -> 0 .. 2]  BY <1>2
<1>4. \A s \in Socket : got[s] =
         IF s \in l.at /\ message[m].target = "channel" /\ received[m][s] < 2
         THEN received[m][s] + 1 ELSE received[m][s]
  OBVIOUS
<1> HIDE DEF got
<1>5. received'[m] = got  BY <1>1, <1>2
<1> QED  BY <1>1, <1>2, <1>3, <1>4, <1>5

LEMMA SentPreserves ==
  ASSUME IInv, NEW m \in Message, NEW w \in Worker, Sent(m, w)
  PROVE  IInv'
<1> DEFINE l == loop[m][w]
           d == [l EXCEPT !.state = "next", !.at = {}]
<1>0. TypeOK /\ IndexesAreRight /\ LoopsHold /\ GotFromHome /\ ChannelAtMostOnce  BY DEF IInv
<1>1. l.state = "send" /\ Step(m, w, d) /\ UNCHANGED <<connections, subscribers, all>>
  BY DEF Sent
<1>2. l \in Sets  BY <1>0, <1>1, LoopFields, Types
<1>3. /\ d \in Sets /\ d.state = "next" /\ d.at = {} /\ d.seen = l.seen
      /\ d.start = l.start /\ d.dead = l.dead
  <2> HIDE DEF l
  <2> QED  BY <1>2 DEF Sets
<1>4. Holds(client, w, message[m].target, l)  BY <1>0 DEF LoopsHold
<1>5. client' = client /\ message' = message /\ loop' = [loop EXCEPT ![m][w] = d]
  BY <1>1 DEF Step
<1> HIDE DEF d
<1>6. Holds(client', w, message[m].target, d)
  BY <1>3, <1>4, <1>5 DEF Holds
<1>7. /\ received' \in [Message -> [Socket -> 0 .. 2]]
      /\ \A n \in Message \ {m} : received'[n] = received[n]
      /\ \A s \in Socket : received'[m][s] =
           IF s \in l.at /\ message[m].target = "channel" /\ received[m][s] < 2
           THEN received[m][s] + 1 ELSE received[m][s]
  BY <1>0, SentReceived
\* Whoever the loop is at has not got it before.
<1>8. ASSUME NEW s \in Socket, s \in l.at, message[m].target = "channel"
      PROVE  home[s] = w /\ s \in l.seen /\ received[m][s] = 0
  <2>1. home[s] = w /\ s \in l.seen  BY <1>4, <1>8 DEF Holds
  <2>2. ~ (received[m][s] > 0)  BY <1>0, <1>1, <1>8, <2>1 DEF GotFromHome
  <2>3. received[m][s] \in 0 .. 2  BY <1>0, Typed
  <2> QED  BY <2>1, <2>2, <2>3
<1>9. ASSUME NEW n \in Message, NEW s \in Socket, received'[n][s] > 0
      PROVE  /\ message'[n].target = "channel" /\ loop'[n][home[s]].state # "idle"
             /\ loop'[n][home[s]].state \in {"next", "send"}
                  => s \in loop'[n][home[s]].seen \ loop'[n][home[s]].at
  <2>1. home[s] \in Worker  BY HomeAssumption
  <2>2. d \in Loop  BY <1>3, SetsAreLoops
  <2>3. CASE n = m /\ home[s] = w
    <3>1. loop'[m][w] = d  BY <1>0, <1>5, <2>2, OneLoop
    <3>2. message[m].target = "channel" /\ s \in l.seen
      <4>1. CASE s \in l.at /\ message[m].target = "channel"
        BY <4>1, <1>8
      <4>2. CASE ~ (s \in l.at /\ message[m].target = "channel")
        BY <4>2, <1>0, <1>1, <1>7, <1>9, <2>3 DEF GotFromHome
      <4> QED  BY <4>1, <4>2
    <3> QED  BY <1>3, <1>5, <2>3, <3>1, <3>2
  <2>4. CASE n # m \/ home[s] # w
    <3>1. loop'[n][home[s]] = loop[n][home[s]]  BY <1>0, <1>5, <2>1, <2>2, <2>4, OneLoop
    <3>2. received[n][s] > 0
      BY <1>7, <1>8, <1>9, <2>4
    <3> QED  BY <1>0, <1>5, <3>1, <3>2 DEF GotFromHome
  <2> QED  BY <2>3, <2>4
<1>10. GotFromHome'  BY <1>9 DEF GotFromHome
<1>11. ChannelAtMostOnce'
  BY <1>0, <1>5, <1>7, <1>8 DEF ChannelAtMostOnce
<1>12. IndexesAreRight'  BY <1>0, <1>1, <1>5 DEF IndexesAreRight
<1> QED
  BY <1>0, <1>1, <1>3, <1>6, <1>7, <1>10, <1>11, <1>12, SetsAreLoops, StepPreserves, Types

LEMMA NotSentPreserves ==
  ASSUME IInv, NEW m \in Message, NEW w \in Worker, NotSent(m, w)
  PROVE  IInv'
<1> DEFINE l == loop[m][w]
           d == [l EXCEPT !.state = "next", !.at = {}, !.dead = @ \cup l.at]
<1>0. TypeOK /\ IndexesAreRight /\ LoopsHold /\ OneSender  BY DEF IInv
<1>1. /\ l.state = "send" /\ Step(m, w, d) /\ \A s \in l.at : client[s] # "open"
      /\ UNCHANGED <<connections, subscribers, all, received>>
  BY DEF NotSent
<1>2. l \in Sets  BY <1>0, <1>1, LoopFields, Types
<1>3. /\ d \in Sets /\ d.state = "next" /\ d.at = {} /\ d.seen = l.seen
      /\ d.start = l.start /\ d.dead = l.dead \cup l.at
  <2> HIDE DEF l
  <2> QED  BY <1>2 DEF Sets
<1>4. Holds(client, w, message[m].target, l)  BY <1>0 DEF LoopsHold
<1>5. \A s \in l.at : client[s] \in {"failing", "gone"}
  <2>1. \A s \in l.at : client[s] # "new"  BY <1>4 DEF Holds
  <2>2. \A s \in l.at : client[s] \in ClientState  BY <1>0, <1>2, Types DEF Sets
  <2> QED  BY <1>1, <2>1, <2>2 DEF ClientState
<1>6. client' = client /\ message' = message /\ loop' = [loop EXCEPT ![m][w] = d]
  BY <1>1 DEF Step
<1> HIDE DEF d
<1>7. Holds(client', w, message[m].target, d)
  BY <1>3, <1>4, <1>5, <1>6 DEF Holds
<1>8. GotFromHome' /\ ChannelAtMostOnce'
  <2>1. \A t \in Socket :
          message[m].target = "channel" /\ home[t] = w /\ received[m][t] > 0 => t \in l.seen
    BY <1>1 DEF IInv, GotFromHome
  <2>2. Passed(m, w, d)  BY <2>1, <1>3 DEF Passed
  <2>3. d \in Loop /\ d.state # "idle"  BY <1>3, SetsAreLoops
  <2>4. /\ received' = received /\ \A n \in Message : message'[n].target = message[n].target
        /\ GotFromHome /\ ChannelAtMostOnce
    BY <1>1, <1>6 DEF IInv
  <2> QED  BY <1>0, <1>6, <2>2, <2>3, <2>4, ReceivedStays
<1>9. IndexesAreRight'  BY <1>0, <1>1, <1>6 DEF IndexesAreRight
<1> QED
  BY <1>0, <1>1, <1>3, <1>7, <1>8, <1>9, SetsAreLoops, StepPreserves, Types

\* A loop that ends, after which it holds nothing.
LEMMA EndPreserves ==
  ASSUME IInv, NEW m \in Message, NEW w \in Worker, NEW l \in Loop, Step(m, w, l),
         loop[m][w].state \in {"next", "send", "publish"}, l.state \in {"publish", "over"},
         l.state = "publish" => Own(m, w),
         l.start = {}, l.at = {}, l.dead = {},
         connections' \in [Worker -> SUBSET Socket],
         subscribers' \in [Worker -> SUBSET Socket],
         all' \in [Worker -> SUBSET Socket],
         IndexesAreRight', received' = received
  PROVE  IInv'
<1>1. Holds(client', w, message[m].target, l)  BY StillHolds
<1>2. /\ TypeOK /\ GotFromHome /\ ChannelAtMostOnce
      /\ loop' = [loop EXCEPT ![m][w] = l] /\ message' = message
  BY DEF IInv, Step
<1>3. Passed(m, w, l) /\ l.state # "idle"  BY DEF Passed
<1>4. GotFromHome' /\ ChannelAtMostOnce'  BY <1>2, <1>3, ReceivedStays
<1>5. received' \in [Message -> [Socket -> 0 .. 2]]  BY <1>2, Types
<1> QED  BY <1>1, <1>3, <1>4, <1>5, StepPreserves

\* What is taken out of an index has failed.
LEMMA FinishPreserves ==
  ASSUME IInv, NEW m \in Message, NEW w \in Worker, Finish(m, w)
  PROVE  IInv'
<1> DEFINE l == loop[m][w]
           without(index) == [index EXCEPT ![w] = @ \ l.dead]
<1>0. TypeOK /\ IndexesAreRight /\ LoopsHold  BY DEF IInv
<1>1. l.state = "next" /\ Step(m, w, Done(Own(m, w))) /\ client' = client /\ received' = received
  BY DEF Finish, Step
<1>2. /\ connections' \in {connections, without(connections)}
      /\ subscribers' \in {subscribers, without(subscribers)}
      /\ all' = without(all)
  BY DEF Finish
<1>3. \A s \in l.dead : client[s] \in {"failing", "gone"}
  BY <1>0 DEF LoopsHold, Holds
<1>4. ASSUME NEW index \in [Worker -> SUBSET Socket], Right(index)
      PROVE  /\ without(index) \in [Worker -> SUBSET Socket]
             /\ Right(without(index))
  <2> HIDE DEF l
  <2> QED  BY <1>3, <1>4 DEF Right
<1> HIDE DEF without
<1>5. /\ connections' \in [Worker -> SUBSET Socket] /\ subscribers' \in [Worker -> SUBSET Socket]
      /\ all' \in [Worker -> SUBSET Socket]
  BY <1>0, <1>2, <1>4, IndexParts, Types
<1>6. IndexesAreRight'
  <2>1. Right(without(connections)) /\ Right(without(subscribers)) /\ Right(without(all))
        /\ Right(connections) /\ Right(subscribers)
    BY <1>0, <1>4, IndexParts, Types
  <2>2. Right(connections)'  BY <1>1, <1>2, <2>1 DEF Right
  <2>3. Right(subscribers)'  BY <1>1, <1>2, <2>1 DEF Right
  <2>4. Right(all)'  BY <1>1, <1>2, <2>1 DEF Right
  <2> QED  BY <2>2, <2>3, <2>4, IndexPartsNext
<1>7. Own(m, w) \in BOOLEAN  BY DEF Own
<1> DEFINE d == Done(Own(m, w))
<1>8. /\ d \in Loop /\ d.state = IF Own(m, w) THEN "publish" ELSE "over"
      /\ d.start = {} /\ d.at = {} /\ d.dead = {}
  BY <1>7, DoneLoop
<1>9. Step(m, w, d)  BY <1>1
<1> HIDE DEF d
<1> QED  BY <1>1, <1>5, <1>6, <1>8, <1>9, EndPreserves

LEMMA OverLoop ==
  /\ Over \in Loop /\ Over.state = "over" /\ Over.start = {} /\ Over.at = {} /\ Over.dead = {}
BY StillLoops DEF Over

LEMMA RaisePreserves ==
  ASSUME IInv, NEW m \in Message, NEW w \in Worker, Raise(m, w)
  PROVE  IInv'
<1>1. /\ loop[m][w].state = "next" /\ Step(m, w, Over)
      /\ UNCHANGED <<client, connections, subscribers, all, received>>
  BY DEF Raise, Step
<1>2. IndexesAreRight'  BY <1>1 DEF IInv, IndexesAreRight
<1> QED  BY <1>1, <1>2, OverLoop, EndPreserves, Types DEF IInv

-----------------------------------------------------------------------------
(* Redis.                                                                  *)

LEMMA AppendHas ==
  ASSUME NEW q \in Seq(Message), NEW m \in Message
  PROVE  /\ Append(q, m) \in Seq(Message)
         /\ \A n : Has(Append(q, m), n) <=> n = m \/ Has(q, n)
         /\ \A n : n # m /\ Once(q, n) => Once(Append(q, m), n)
         /\ ~ Has(q, m) => Once(Append(q, m), m)
<1>1. /\ Append(q, m) \in Seq(Message)
      /\ DOMAIN q = 1 .. Len(q) /\ Len(q) \in Nat
      /\ DOMAIN Append(q, m) = 1 .. Len(q) + 1
      /\ \A i \in 1 .. Len(q) : Append(q, m)[i] = q[i]
      /\ Append(q, m)[Len(q) + 1] = m
  OBVIOUS
<1>2. \A i \in DOMAIN Append(q, m) : i \in DOMAIN q \/ i = Len(q) + 1
  BY <1>1
<1>3. \A n : Has(Append(q, m), n) <=> n = m \/ Has(q, n)
  BY <1>1, <1>2 DEF Has
<1>4. \A n : n # m /\ Once(q, n) => Once(Append(q, m), n)
  BY <1>1, <1>2 DEF Once
<1>5. ~ Has(q, m) => Once(Append(q, m), m)
  BY <1>1, <1>2 DEF Once, Has
<1> QED  BY <1>1, <1>3, <1>4, <1>5

LEMMA TailHas ==
  ASSUME NEW q \in Seq(Message), q # << >>
  PROVE  /\ Head(q) \in Message /\ Has(q, Head(q)) /\ Tail(q) \in Seq(Message)
         /\ \A n : Has(Tail(q), n) => Has(q, n)
         /\ \A n : Once(q, n) => Once(Tail(q), n)
         /\ Once(q, Head(q)) => ~ Has(Tail(q), Head(q))
<1>1. /\ Tail(q) \in Seq(Message) /\ Head(q) = q[1] /\ Len(q) \in Nat /\ 1 \in DOMAIN q
      /\ DOMAIN q = 1 .. Len(q) /\ DOMAIN Tail(q) = 1 .. Len(q) - 1
      /\ \A i \in 1 .. Len(q) - 1 : Tail(q)[i] = q[i + 1]
  OBVIOUS
<1>2. \A i \in DOMAIN Tail(q) : i \in Nat /\ i + 1 \in DOMAIN q /\ i + 1 # 1 /\ Tail(q)[i] = q[i + 1]
  BY <1>1
<1>3. Head(q) \in Message /\ Has(q, Head(q))
  BY <1>1 DEF Has
<1>4. \A n : Has(Tail(q), n) => Has(q, n)
  BY <1>2 DEF Has
<1>5. ASSUME NEW n, Once(q, n), NEW i \in DOMAIN Tail(q), NEW j \in DOMAIN Tail(q),
             Tail(q)[i] = n, Tail(q)[j] = n
      PROVE  i = j
  <2>1. i + 1 = j + 1  BY <1>2, <1>5 DEF Once
  <2> QED  BY <1>2, <2>1
<1>6. Once(q, Head(q)) => ~ Has(Tail(q), Head(q))
  BY <1>1, <1>2 DEF Once, Has
<1> QED  BY <1>1, <1>3, <1>4, <1>5, <1>6 DEF Once

LEMMA QueueType ==
  ASSUME TypeOK, NEW w \in Worker
  PROVE  queue[w] \in Seq(Message)
BY Types

LEMMA PublishPreserves ==
  ASSUME IInv, NEW m \in Message, NEW w \in Worker, Publish(m, w)
  PROVE  IInv'
<1>0. TypeOK /\ LoopsHold /\ OneSender /\ RelayedOnce  BY DEF IInv
<1>1. /\ loop[m][w].state = "publish" /\ loop' = [loop EXCEPT ![m][w] = Over]
      /\ queue' = [v \in Worker |-> IF redis[v] = "on" THEN Append(queue[v], m) ELSE queue[v]]
      /\ UNCHANGED <<client, connections, subscribers, all, message, redis, received>>
  BY DEF Publish, sockets
<1>2. /\ loop' \in [Message -> [Worker -> Loop]] /\ loop'[m][w] = Over
      /\ \A n \in Message, v \in Worker : (n # m \/ v # w) => loop'[n][v] = loop[n][v]
  <2>1. Over \in Loop /\ loop' = [loop EXCEPT ![m][w] = Over]  BY <1>1, OverLoop
  <2> QED  BY <1>0, <2>1, OneLoop
<1>3. \A n, v : Own(n, v)' <=> Own(n, v)  BY <1>1 DEF Own
<1>4. Own(m, w) /\ \A v \in Worker : Own(m, v) => v = w
  BY <1>0, <1>1 DEF OneSender, Own
<1>5. \A v \in Worker : ~ Queued(m, v) /\ (Own(m, v) \/ loop[m][v].state = "idle")
  BY <1>0, <1>1, <1>4 DEF RelayedOnce
<1>6. ASSUME NEW v \in Worker
      PROVE  /\ queue'[v] \in Seq(Message)
             /\ \A n \in Message \ {m} : (Queued(n, v)' <=> Queued(n, v)) /\ Once(queue'[v], n)
             /\ Once(queue'[v], m)
  <2>1. queue[v] \in Seq(Message) /\ \A n \in Message : Once(queue[v], n)
    BY <1>0, QueueType DEF RelayedOnce
  <2>2. CASE redis[v] = "on"
    <3>1. queue'[v] = Append(queue[v], m)  BY <1>1, <2>2
    <3>2. ~ Has(queue[v], m)  BY <1>5 DEF Queued
    <3> QED  BY <2>1, <3>1, <3>2, AppendHas DEF Queued
  <2>3. CASE redis[v] # "on"
    <3>1. queue'[v] = queue[v]  BY <1>1, <2>3
    <3> QED  BY <2>1, <3>1 DEF Queued
  <2> QED  BY <2>2, <2>3
<1>7. queue' \in [Worker -> Seq(Message)]
  <2>1. DOMAIN queue' = Worker /\ queue' = [v \in Worker |-> queue'[v]]  BY <1>1
  <2> QED  BY <1>6, <2>1
<1>8. TypeOK'
  BY <1>0, <1>1, <1>2, <1>7, Types, TypesNext
<1>9. IndexesAreRight'  BY <1>1 DEF IInv, IndexesAreRight
<1>10. LoopsHold'
  <2>1. Holds(client', w, message'[m].target, Over)  BY OverLoop, StillHolds
  <2> QED  BY <1>0, <1>1, <2>1, OverLoop, OneLoopHolds
<1>11. OneSender'
  BY <1>0, <1>1, <1>2, <1>3, OverLoop DEF OneSender
<1>12. RelayedOnce'
  <2>1. ASSUME NEW v \in Worker
        PROVE  /\ \E u \in Worker : Own(m, u)' /\ loop'[m][u].state = "over"
               /\ Own(m, v)' \/ loop'[m][v].state = "idle"
    BY <1>2, <1>3, <1>4, <1>5, OverLoop
  <2>2. ASSUME NEW n \in Message, n # m, NEW v \in Worker
        PROVE  /\ Queued(n, v)' \/ (~ Own(n, v)' /\ loop'[n][v].state # "idle")
                    => \E u \in Worker : Own(n, u)' /\ loop'[n][u].state = "over"
               /\ Queued(n, v)' => Own(n, v)' \/ loop'[n][v].state = "idle"
    BY <2>2, <1>0, <1>2, <1>3, <1>6 DEF RelayedOnce
  <2>3. \A n \in Message, v \in Worker : Once(queue'[v], n)
    BY <1>6
  <2> QED  BY <2>1, <2>2, <2>3 DEF RelayedOnce
<1>13. GotFromHome' /\ ChannelAtMostOnce'
  <2>1. Passed(m, w, Over) /\ Over.state # "idle"  BY OverLoop DEF Passed
  <2> QED  BY <1>0, <1>1, <2>1, OverLoop, ReceivedStays DEF IInv
<1> QED  BY <1>8, <1>9, <1>10, <1>11, <1>12, <1>13 DEF IInv

LEMMA PublishFailsPreserves ==
  ASSUME IInv, NEW m \in Message, NEW w \in Worker, PublishFails(m, w)
  PROVE  IInv'
<1>1. /\ loop[m][w].state = "publish" /\ Step(m, w, Over)
      /\ UNCHANGED <<client, connections, subscribers, all, received>>
  BY DEF PublishFails, Step, sockets
<1>2. IndexesAreRight'  BY <1>1 DEF IInv, IndexesAreRight
<1> QED  BY <1>1, <1>2, OverLoop, EndPreserves, Types DEF IInv

\* Who relays a message has not begun to before, and has not got it queued
\* again.
LEMMA RelayPreserves ==
  ASSUME IInv, NEW w \in Worker, Relay(w)
  PROVE  IInv'
<1>0. TypeOK /\ IndexesAreRight /\ LoopsHold /\ OneSender /\ RelayedOnce  BY DEF IInv
<1>2. queue[w] \in Seq(Message) /\ queue[w] # << >>  BY <1>0, QueueType DEF Relay
<1>3. PICK m \in Message : m = Head(queue[w]) /\ Queued(m, w)
  BY <1>2, TailHas DEF Queued
<1>1. /\ queue' = [queue EXCEPT ![w] = Tail(@)]
      /\ loop' = IF Own(m, w) THEN loop
                 ELSE [loop EXCEPT ![m][w] = Begun(w, message[m].target, FALSE)]
      /\ UNCHANGED <<client, connections, subscribers, all, message, redis, received>>
  BY <1>3 DEF Relay, Skipped, sockets
<1>4. /\ queue' \in [Worker -> Seq(Message)] /\ queue'[w] = Tail(queue[w])
      /\ \A v \in Worker \ {w} : queue'[v] = queue[v]
  <2>1. Tail(queue[w]) \in Seq(Message)  BY <1>2, TailHas
  <2> QED  BY <1>0, <1>1, <2>1, Types
<1>5. ASSUME NEW n \in Message, NEW v \in Worker
      PROVE  (Queued(n, v)' => Queued(n, v)) /\ Once(queue'[v], n)
  <2>1. Once(queue[v], n)  BY <1>0 DEF RelayedOnce
  <2> QED  BY <1>1, <1>2, <1>4, <2>1, TailHas DEF Queued
<1>6. ~ Queued(m, w)'
  <2>1. Once(queue[w], m)  BY <1>0, <1>3 DEF RelayedOnce
  <2> QED  BY <1>2, <1>3, <1>4, <2>1, TailHas DEF Queued
<1>7. \A n, v : Own(n, v)' <=> Own(n, v)  BY <1>1 DEF Own
<1>8. IndexesAreRight'  BY <1>1 DEF IInv, IndexesAreRight
<1>9. CASE Own(m, w)
  <2>1. loop' = loop  BY <1>1, <1>9
  <2>2. TypeOK'  BY <1>0, <1>1, <1>4, <2>1, Types, TypesNext
  <2>3. LoopsHold' /\ OneSender'
    BY <1>0, <1>1, <2>1 DEF LoopsHold, OneSender, Own
  <2>5. GotFromHome' /\ ChannelAtMostOnce'
    BY <1>1, <2>1 DEF IInv, GotFromHome, ChannelAtMostOnce
  <2>4. RelayedOnce'
    BY <1>0, <1>5, <1>7, <2>1 DEF RelayedOnce
  <2> QED  BY <1>8, <2>2, <2>3, <2>4, <2>5 DEF IInv
<1>10. CASE ~ Own(m, w)
  <2> DEFINE l == Begun(w, message[m].target, FALSE)
  <2>1. loop[m][w].state = "idle" /\ \E v \in Worker : Own(m, v) /\ loop[m][v].state = "over"
    BY <1>0, <1>3, <1>10 DEF RelayedOnce
  <2>2. message[m].target \in Target  BY <1>0, <1>3, <2>1, TargetOf
  <2>3. /\ l \in Loop /\ Holds(client', w, message'[m].target, l) /\ l.state # "idle"
        /\ l.state # "publish"
    BY <1>0, <1>1, <2>2, BegunLoop
  <2>4. loop' = [loop EXCEPT ![m][w] = l]  BY <1>1, <1>10
  <2> HIDE DEF l
  <2>5. /\ loop' \in [Message -> [Worker -> Loop]] /\ loop'[m][w] = l
        /\ \A n \in Message, v \in Worker : (n # m \/ v # w) => loop'[n][v] = loop[n][v]
    <3>1. l \in Loop  BY <2>3
    <3> QED  BY <1>0, <2>4, <3>1, OneLoop
  <2>6. TypeOK'  BY <1>0, <1>1, <1>4, <2>5, Types, TypesNext
  <2>7. LoopsHold'  BY <1>0, <1>1, <1>3, <2>3, <2>4, OneLoopHolds
  <2>8. OneSender'
    <3>1. message[m].target # "none"
      <4>1. PICK v \in Worker : loop[m][v].state = "over"  BY <2>1
      <4> QED  BY <1>0, <4>1 DEF OneSender
    <3>2. \A v \in Worker : loop'[m][v].state = "publish" => Own(m, v)'
      BY <1>0, <1>7, <2>3, <2>5 DEF OneSender
    <3>3. \A v \in Worker : Own(m, v)' => loop'[m][v].state # "idle"
      BY <1>0, <1>7, <2>3, <2>5 DEF OneSender
    <3>4. ASSUME NEW n \in Message, n # m
          PROVE  \A v \in Worker : loop'[n][v] = loop[n][v]
      BY <2>5, <3>4
    <3>5. message' = message  BY <1>1
    <3>6. ASSUME NEW n \in Message
          PROVE  /\ \A u, v \in message[n].origin : u = v
                 /\ message[n].target = "none" =>
                      message[n].origin = {} /\ \A v \in Worker : loop'[n][v].state = "idle"
                 /\ \A v \in Worker : loop'[n][v].state = "publish" => Own(n, v)'
                 /\ \A v \in Worker : Own(n, v)' => loop'[n][v].state # "idle"
      <4>1. CASE n = m
        BY <4>1, <1>0, <3>1, <3>2, <3>3 DEF OneSender
      <4>2. CASE n # m
        BY <4>2, <1>0, <1>7, <3>4 DEF OneSender
      <4> QED  BY <4>1, <4>2
    <3> QED  BY <3>5, <3>6 DEF OneSender
  <2>9. RelayedOnce'
    <3>1. \A n \in Message, v \in Worker :
            loop[n][v].state = "over" => loop'[n][v].state = "over"
      BY <2>1, <2>5
    <3>2. ASSUME NEW n \in Message, NEW v \in Worker
          PROVE  Queued(n, v)' \/ (~ Own(n, v)' /\ loop'[n][v].state # "idle")
                   => \E u \in Worker : Own(n, u)' /\ loop'[n][u].state = "over"
      BY <1>0, <1>5, <1>7, <2>1, <2>5, <3>1 DEF RelayedOnce
    <3>3. ASSUME NEW n \in Message, NEW v \in Worker, Queued(n, v)'
          PROVE  Own(n, v)' \/ loop'[n][v].state = "idle"
      BY <1>0, <1>5, <1>6, <1>7, <2>5, <3>3 DEF RelayedOnce
    <3> QED  BY <1>5, <3>2, <3>3 DEF RelayedOnce
  <2>10. GotFromHome' /\ ChannelAtMostOnce'
    <3>1. l \in Loop /\ GotFromHome /\ ChannelAtMostOnce  BY <2>3 DEF IInv
    <3>2. received' = received /\ \A n \in Message : message'[n].target = message[n].target
      BY <1>1
    <3> QED  BY <1>0, <2>1, <2>4, <3>1, <3>2, ReceivedStays
  <2> QED  BY <1>8, <2>6, <2>7, <2>8, <2>9, <2>10 DEF IInv
<1> QED  BY <1>9, <1>10

LEMMA SubscriberPreserves ==
  ASSUME IInv, NEW w \in Worker, LoseRedis(w) \/ Subscribe(w)
  PROVE  IInv'
<1>0. TypeOK  BY DEF IInv
<1>1. UNCHANGED <<client, connections, subscribers, all, message, loop, received>>
  BY DEF LoseRedis, Subscribe, sockets
<1>2. \A v \in Worker : queue'[v] = queue[v] \/ queue'[v] = << >>
  BY <1>0, Types DEF LoseRedis, Subscribe
<1>3. queue' \in [Worker -> Seq(Message)] /\ redis' \in [Worker -> {"off", "down", "on"}]
  <2>1. << >> \in Seq(Message)  OBVIOUS
  <2>2. queue \in [Worker -> Seq(Message)] /\ redis \in [Worker -> {"off", "down", "on"}]
    BY <1>0, Types
  <2>3. CASE LoseRedis(w)
    BY <2>1, <2>2, <2>3 DEF LoseRedis
  <2>4. CASE Subscribe(w)
    BY <2>2, <2>4 DEF Subscribe
  <2> QED  BY <2>3, <2>4
<1>4. TypeOK'  BY <1>0, <1>1, <1>3, Types, TypesNext
<1>5. IndexesAreRight' /\ LoopsHold' /\ OneSender' /\ GotFromHome' /\ ChannelAtMostOnce'
  BY <1>1 DEF IInv, IndexesAreRight, LoopsHold, Holds, OneSender, Own, GotFromHome, ChannelAtMostOnce
<1>6. RelayedOnce'
  <2>1. ASSUME NEW n \in Message, NEW v \in Worker
        PROVE  (Queued(n, v)' => Queued(n, v)) /\ Once(queue'[v], n)
    <3>1. Once(queue[v], n)  BY DEF IInv, RelayedOnce
    <3>2. ~ Has(<< >>, n) /\ Once(<< >>, n)  BY DEF Has, Once
    <3> QED  BY <1>2, <3>1, <3>2 DEF Queued
  <2>2. \A n, v : Own(n, v)' <=> Own(n, v)  BY <1>1 DEF Own
  <2> QED  BY <1>1, <2>1, <2>2 DEF IInv, RelayedOnce
<1> QED  BY <1>4, <1>5, <1>6 DEF IInv

-----------------------------------------------------------------------------

LEMMA Inductive == ASSUME IInv, [Next]_vars PROVE IInv'
<1>1. ASSUME NEW s \in Socket, Connect(s) \/ Fail(s) \/ Disconnect(s) PROVE IInv'
  BY <1>1, ConnectPreserves, FailPreserves, DisconnectPreserves
<1>2. ASSUME NEW m \in Message, NEW w \in Worker, NEW target \in Target, Send(m, w, target)
      PROVE  IInv'
  BY <1>2, SendPreserves
<1>3. ASSUME NEW m \in Message, NEW w \in Worker, Deliver(m, w) PROVE IInv'
  BY <1>3, VisitPreserves, SentPreserves, NotSentPreserves, FinishPreserves, RaisePreserves
  DEF Deliver
<1>4. ASSUME NEW m \in Message, NEW w \in Worker, Publish(m, w) \/ PublishFails(m, w) PROVE IInv'
  BY <1>4, PublishPreserves, PublishFailsPreserves
<1>5. ASSUME NEW w \in Worker, Relay(w) \/ LoseRedis(w) \/ Subscribe(w) PROVE IInv'
  BY <1>5, RelayPreserves, SubscriberPreserves
<1>6. CASE UNCHANGED vars
  BY <1>6 DEF vars, IInv, TypeOK, IndexesAreRight, LoopsHold, Holds, OneSender, RelayedOnce,
              Queued, Own, GotFromHome, ChannelAtMostOnce
<1> QED  BY <1>1, <1>2, <1>3, <1>4, <1>5, <1>6 DEF Next

LEMMA Initially == Init => IInv
<1> SUFFICES ASSUME Init PROVE IInv
  OBVIOUS
<1>1. Still \in Loop /\ Still.state = "idle" /\ Still.start = {} /\ Still.at = {} /\ Still.dead = {}
  BY DEF Still, Loop
<1>2. << >> \in Seq(Message)  OBVIOUS
<1>3. TypeOK  BY <1>1, <1>2, Types DEF Init, ClientState
<1>4. IndexesAreRight  BY DEF Init, IndexesAreRight
<1>5. LoopsHold  BY <1>1 DEF Init, LoopsHold, Holds
<1>6. OneSender  BY <1>1 DEF Init, OneSender, Own
<1>7. RelayedOnce  BY <1>1 DEF Init, RelayedOnce, Queued, Has, Once
<1>8. GotFromHome /\ ChannelAtMostOnce  BY DEF Init, GotFromHome, ChannelAtMostOnce
<1> QED  BY <1>3, <1>4, <1>5, <1>6, <1>7, <1>8 DEF IInv

THEOREM AlwaysInvariant == Spec => []IInv
BY Initially, Inductive, PTL DEF Spec

-----------------------------------------------------------------------------

\* Indexes, loops, queues and counts keep their types; only a loop that runs
\* holds sockets.
THEOREM TypeCorrect == Spec => []TypeOK
BY AlwaysInvariant, PTL DEF IInv

\* An open client is in every index of its worker and a gone one in none,
\* whatever loops remove of the dead meanwhile.
THEOREM IndexesStayRight == Spec => []IndexesAreRight
BY AlwaysInvariant, PTL DEF IInv

\* No client gets a channel's message twice, from the sender and from a relay
\* or within one loop.
THEOREM NoDuplicates == Spec => []ChannelAtMostOnce
BY AlwaysInvariant, PTL DEF IInv

-----------------------------------------------------------------------------
(* What a channel's loop does for those it runs over.                      *)

\* When a worker's loop over a channel ends, every socket it has copied that is
\* open has the message, whatever connected, failed or disconnected during its
\* awaits, and it publishes what it has sent: no loop over a copy raises.
ChannelReached ==
  [][\A m \in Message, w \in Worker :
       (/\ message[m].target = "channel"
        /\ loop[m][w].state = "next" /\ loop'[m][w].state \in {"publish", "over"})
       => /\ Own(m, w) <=> loop'[m][w].state = "publish"
          /\ \A s \in loop[m][w].start : client[s] = "open" => received[m][s] = 1]_vars

\* A loop over a channel runs over a copy, and those it has been past have got
\* the message or have failed.
Reaches(target, clients, got, l) ==
  target = "channel" =>
    /\ ~ l.orphan
    /\ \A s \in l.seen \ l.at : got[s] > 0 \/ clients[s] \in {"failing", "gone"}

LoopsReach ==
  \A m \in Message, w \in Worker : Reaches(message[m].target, client, received[m], loop[m][w])

LEMMA NothingToReach ==
  ASSUME NEW l \in Loop, l.state \notin {"next", "send"}, NEW target, NEW clients, NEW got
  PROVE  Reaches(target, clients, got, l)
<1>1. l.seen = {} /\ ~ l.orphan  BY DEF Loop, Still
<1> QED  BY <1>1 DEF Reaches

LEMMA BegunReaches ==
  ASSUME TypeOK, IndexesAreRight, client' = client,
         NEW w \in Worker, NEW target \in Target, NEW own \in BOOLEAN, NEW clients, NEW got
  PROVE  Reaches(target, clients, got, Begun(w, target, own))
<1>1. CASE Index(w, target) = {}
  BY <1>1, DoneLoop, NothingToReach DEF Begun
<1>2. CASE Index(w, target) # {}
  <2> DEFINE l == [Still EXCEPT !.state = "next", !.start = Index(w, target)]
  <2>1. Begun(w, target, own) = l  BY <1>2 DEF Begun
  <2>2. l.seen = {} /\ ~ l.orphan  BY DEF Still
  <2> QED  BY <2>1, <2>2 DEF Reaches
<1> QED  BY <1>1, <1>2

\* Who has failed does not come back, and what has been received stays.
Grows ==
  /\ \A s \in Socket : client[s] \in {"failing", "gone"} => client'[s] \in {"failing", "gone"}
  /\ \A m \in Message, s \in Socket : received[m][s] > 0 => received'[m][s] > 0

LEMMA StillReaches ==
  ASSUME TypeOK, Grows, NEW m \in Message, NEW target, NEW l \in Loop,
         Reaches(target, client, received[m], l)
  PROVE  Reaches(target, client', received'[m], l)
BY LoopFields DEF Reaches, Grows

LEMMA OneLoopReaches ==
  ASSUME TypeOK, LoopsReach, Grows, NEW m \in Message, NEW w \in Worker, NEW l \in Loop,
         loop' = [loop EXCEPT ![m][w] = l],
         \A n \in Message \ {m} : message'[n].target = message[n].target,
         \A v \in Worker \ {w} :
           message'[m].target = message[m].target \/ loop[m][v].state \notin {"next", "send"},
         Reaches(message'[m].target, client', received'[m], l)
  PROVE  LoopsReach'
<1>1. ASSUME NEW n \in Message, NEW v \in Worker
      PROVE  Reaches(message'[n].target, client', received'[n], loop'[n][v])
  <2>1. CASE n = m /\ v = w
    BY <2>1, OneLoop
  <2>2. CASE n # m \/ v # w
    <3>1. loop'[n][v] = loop[n][v] /\ loop[n][v] \in Loop
      BY <2>2, OneLoop, Typed
    <3>2. Reaches(message[n].target, client', received'[n], loop[n][v])
      BY <3>1, StillReaches DEF LoopsReach
    <3>3. \/ message'[n].target = message[n].target
          \/ loop[n][v].state \notin {"next", "send"}
      BY <2>2
    <3> QED  BY <3>1, <3>2, <3>3, NothingToReach
  <2> QED  BY <2>1, <2>2
<1> QED  BY <1>1 DEF LoopsReach

\* Only a loop over the entity's own set is orphaned.
LEMMA DroppedOrphan ==
  ASSUME TypeOK, NEW w \in Worker, NEW m \in Message, NEW v \in Worker,
         message[m].target = "channel"
  PROVE  Dropped(w)[m][v].orphan = loop[m][v].orphan
<1>1. loop[m] \in [Worker -> Loop] /\ loop[m][w] \in Loop  BY Types
<1>2. loop[m][w].orphan \in BOOLEAN  BY <1>1, LoopFields
<1> DEFINE l == loop[m][w]
           x == [l EXCEPT !.orphan = l.orphan \/ (l.state \in {"next", "send"}
                                                    /\ message[m].target = "entity")]
<1>3. Dropped(w)[m] = [loop[m] EXCEPT ![w] = x]
  BY DEF Dropped
<1>4. x.orphan = l.orphan
  <2>1. "orphan" \in DOMAIN l
    BY <1>1 DEF Loop, Still
  <2> HIDE DEF l
  <2> QED  BY <1>2, <2>1 DEF l
<1> HIDE DEF x
<1> QED  BY <1>1, <1>3, <1>4

LEMMA ReachesStep ==
  ASSUME IInv, LoopsReach, Next
  PROVE  LoopsReach'
<1>0. /\ TypeOK /\ IndexesAreRight /\ LoopsHold /\ OneSender
      /\ \A m \in Message, w \in Worker : loop[m][w] \in Loop
  BY Typed DEF IInv
\* Connections.
<1>1. ASSUME NEW s \in Socket, Connect(s) \/ Fail(s) PROVE LoopsReach'
  <2>1. Grows
    BY <1>0, <1>1, Types DEF Connect, Fail, Grows
  <2>2. loop' = loop /\ message' = message  BY <1>1 DEF Connect, Fail
  <2> QED  BY <1>0, <2>1, <2>2, StillReaches DEF LoopsReach
<1>2. ASSUME NEW s \in Socket, Disconnect(s) PROVE LoopsReach'
  <2>1. Grows
    BY <1>0, <1>2, Types DEF Disconnect, Grows
  <2>2. message' = message /\ home[s] \in Worker
    BY <1>2, HomeAssumption DEF Disconnect
  <2>3. ASSUME NEW m \in Message, NEW w \in Worker, message[m].target = "channel"
        PROVE  /\ loop'[m][w].seen = loop[m][w].seen /\ loop'[m][w].at = loop[m][w].at
               /\ loop'[m][w].orphan = loop[m][w].orphan
    <3>1. CASE loop' = loop
      BY <3>1
    <3>2. CASE loop' = Dropped(home[s])
      BY <1>0, <2>2, <2>3, <3>2, DroppedLoops, DroppedOrphan
    <3> QED  BY <1>2, <3>1, <3>2 DEF Disconnect
  <2>4. \A m \in Message, w \in Worker :
          Reaches(message[m].target, client', received'[m], loop[m][w])
    BY <1>0, <2>1, StillReaches DEF LoopsReach
  <2> QED  BY <2>2, <2>3, <2>4 DEF LoopsReach, Reaches
\* Loops.
<1>3. ASSUME NEW m \in Message, NEW w \in Worker, NEW target \in Target, Send(m, w, target)
      PROVE  LoopsReach'
  <2> DEFINE l == Begun(w, target, TRUE)
  <2>1. /\ UNCHANGED <<client, received>> /\ message[m].target = "none"
        /\ message' = [message EXCEPT ![m] = [target |-> target, origin |-> {w}]]
        /\ loop' = [loop EXCEPT ![m][w] = l]
    BY <1>3 DEF Send, sockets
  <2>2. l \in Loop /\ Reaches(target, client', received'[m], l)
    BY <1>0, <2>1, BegunLoop, BegunReaches
  <2> HIDE DEF l
  <2>3. \A v \in Worker : loop[m][v].state = "idle"
    BY <1>0, <2>1 DEF OneSender
  <2>4. message'[m].target = target /\ \A n \in Message \ {m} : message'[n] = message[n]
    BY <1>0, <2>1, Types
  <2>5. Grows  BY <2>1 DEF Grows
  <2> QED  BY <1>0, <2>1, <2>2, <2>3, <2>4, <2>5, OneLoopReaches
<1>4. ASSUME NEW m \in Message, NEW w \in Worker, NEW s \in Socket, Visit(m, w, s)
      PROVE  LoopsReach'
  <2> DEFINE l == loop[m][w]
             d == [l EXCEPT !.state = "send", !.at = {s}, !.seen = @ \cup {s},
                            !.twice = IF s \in l.seen THEN @ \cup {s} ELSE @]
  <2>1. l.state = "next" /\ Step(m, w, d) /\ received' = received
    BY <1>4 DEF Visit
  <2>2. l \in Sets  BY <1>0, <2>1, LoopFields
  <2>3. d \in Sets /\ d.at = {s} /\ d.seen = l.seen \cup {s} /\ d.orphan = l.orphan
    <3> HIDE DEF l
    <3> QED  BY <2>2 DEF Sets
  <2>4. l.at = {}  BY <1>0, <2>1 DEF LoopsHold, Holds
  <2>5. client' = client /\ message' = message /\ loop' = [loop EXCEPT ![m][w] = d]
    BY <2>1 DEF Step
  <2> HIDE DEF d
  <2>6. Reaches(message[m].target, client', received'[m], d)
    BY <2>1, <2>3, <2>4, <2>5 DEF LoopsReach, Reaches
  <2>7. Grows  BY <2>1, <2>5 DEF Grows
  <2> QED  BY <1>0, <2>3, <2>5, <2>6, <2>7, OneLoopReaches, SetsAreLoops
<1>5. ASSUME NEW m \in Message, NEW w \in Worker, Sent(m, w) PROVE LoopsReach'
  <2> DEFINE l == loop[m][w]
             d == [l EXCEPT !.state = "next", !.at = {}]
  <2>1. l.state = "send" /\ Step(m, w, d)
    BY <1>5 DEF Sent
  <2>2. l \in Sets  BY <1>0, <2>1, LoopFields
  <2>3. d \in Sets /\ d.at = {} /\ d.seen = l.seen /\ d.orphan = l.orphan
    <3> HIDE DEF l
    <3> QED  BY <2>2 DEF Sets
  <2>4. client' = client /\ message' = message /\ loop' = [loop EXCEPT ![m][w] = d]
    BY <2>1 DEF Step
  <2> HIDE DEF d
  <2>5. /\ \A n \in Message \ {m} : received'[n] = received[n]
        /\ \A s \in Socket : received'[m][s] =
             IF s \in l.at /\ message[m].target = "channel" /\ received[m][s] < 2
             THEN received[m][s] + 1 ELSE received[m][s]
    BY <1>0, <1>5, SentReceived
  <2>6. \A n \in Message, s \in Socket : received[n][s] \in 0 .. 2
    BY <1>0, Typed
  <2>7. Grows  BY <2>4, <2>5, <2>6 DEF Grows
  <2>8. message[m].target = "channel" => \A s \in l.at : received'[m][s] > 0
    BY <2>2, <2>5, <2>6 DEF Sets
  <2>9. Reaches(message[m].target, client', received'[m], l)
    BY <1>0, <2>7, StillReaches DEF LoopsReach
  <2>10. Reaches(message[m].target, client', received'[m], d)
    BY <2>3, <2>8, <2>9 DEF Reaches
  <2> QED  BY <1>0, <2>3, <2>4, <2>7, <2>10, OneLoopReaches, SetsAreLoops
<1>6. ASSUME NEW m \in Message, NEW w \in Worker, NotSent(m, w) PROVE LoopsReach'
  <2> DEFINE l == loop[m][w]
             d == [l EXCEPT !.state = "next", !.at = {}, !.dead = @ \cup l.at]
  <2>1. /\ l.state = "send" /\ Step(m, w, d) /\ received' = received
        /\ \A s \in l.at : client[s] # "open"
    BY <1>6 DEF NotSent
  <2>2. l \in Sets  BY <1>0, <2>1, LoopFields
  <2>3. d \in Sets /\ d.at = {} /\ d.seen = l.seen /\ d.orphan = l.orphan
    <3> HIDE DEF l
    <3> QED  BY <2>2 DEF Sets
  <2>4. client' = client /\ message' = message /\ loop' = [loop EXCEPT ![m][w] = d]
    BY <2>1 DEF Step
  <2> HIDE DEF d
  <2>5. \A s \in l.at : client[s] \in {"failing", "gone"}
    <3>1. \A s \in l.at : s \in Socket /\ client[s] # "new"
      BY <1>0, <2>2 DEF LoopsHold, Holds, Sets
    <3> QED  BY <1>0, <2>1, <3>1, Types DEF ClientState
  <2>6. Reaches(message[m].target, client', received'[m], d)
    BY <2>1, <2>3, <2>4, <2>5 DEF LoopsReach, Reaches
  <2>7. Grows  BY <2>1, <2>4 DEF Grows
  <2> QED  BY <1>0, <2>3, <2>4, <2>6, <2>7, OneLoopReaches, SetsAreLoops
\* The end of a loop.
<1>7. ASSUME NEW m \in Message, NEW w \in Worker, NEW l \in Loop,
             loop' = [loop EXCEPT ![m][w] = l], l.state \notin {"next", "send"},
             UNCHANGED <<client, message, received>>
      PROVE  LoopsReach'
  <2>1. Grows  BY <1>7 DEF Grows
  <2>2. Reaches(message'[m].target, client', received'[m], l)
    BY <1>7, NothingToReach
  <2> QED  BY <1>0, <1>7, <2>1, <2>2, OneLoopReaches
<1>8. ASSUME NEW m \in Message, NEW w \in Worker,
             Finish(m, w) \/ Raise(m, w) \/ Publish(m, w) \/ PublishFails(m, w)
      PROVE  LoopsReach'
  <2>1. /\ Over \in Loop /\ Over.state = "over"
        /\ Own(m, w) \in BOOLEAN
    BY StillLoops DEF Over, Own
  <2>2. Done(Own(m, w)) \in Loop /\ Done(Own(m, w)).state \notin {"next", "send"}
    BY <2>1, DoneLoop
  <2> QED  BY <1>7, <1>8, <2>1, <2>2 DEF Finish, Raise, Publish, PublishFails, Step, sockets
<1>9. ASSUME NEW w \in Worker, Relay(w) PROVE LoopsReach'
  <2> DEFINE m == Head(queue[w])
             l == Begun(w, message[m].target, FALSE)
  <2>1. UNCHANGED <<client, message, received>>  BY <1>9 DEF Relay, sockets
  <2>2. Grows  BY <2>1 DEF Grows
  <2>3. CASE loop' = loop
    BY <1>0, <2>1, <2>2, <2>3, StillReaches DEF LoopsReach
  <2>4. CASE loop' = [loop EXCEPT ![m][w] = l]
    <3>1. m \in Message /\ message[m].target \in Target
      <4>1. queue[w] \in Seq(Message) /\ queue[w] # << >>  BY <1>0, <1>9, Types DEF Relay
      <4>2. m \in Message /\ m = queue[w][1] /\ 1 \in DOMAIN queue[w]  BY <4>1
      <4>3. Queued(m, w)  BY <4>2 DEF Queued, Has
      <4>4. PICK v \in Worker : loop[m][v].state = "over"
        BY <4>2, <4>3 DEF IInv, RelayedOnce
      <4> QED  BY <1>0, <4>2, <4>4, TargetOf
    <3>2. l \in Loop /\ Reaches(message[m].target, client', received'[m], l)
      BY <1>0, <2>1, <3>1, BegunLoop, BegunReaches
    <3> HIDE DEF l, m
    <3> QED  BY <1>0, <2>1, <2>2, <2>4, <3>1, <3>2, OneLoopReaches
  <2> QED  BY <1>9, <2>3, <2>4 DEF Relay
<1>10. ASSUME NEW w \in Worker, LoseRedis(w) \/ Subscribe(w) PROVE LoopsReach'
  BY <1>10 DEF LoseRedis, Subscribe, sockets, LoopsReach
<1> QED
  BY <1>1, <1>2, <1>3, <1>4, <1>5, <1>6, <1>8, <1>9, <1>10 DEF Next, Deliver

\* A loop ends where it has been past all, or raises.
LEMMA LoopEnds ==
  ASSUME IInv, Next, NEW m \in Message, NEW w \in Worker,
         loop[m][w].state = "next", loop'[m][w].state \in {"publish", "over"}
  PROVE  Finish(m, w) \/ Raise(m, w)
<1>0. /\ TypeOK /\ OneSender
      /\ \A n \in Message, v \in Worker : loop[n][v] \in Loop
  BY Typed DEF IInv
<1>1. ASSUME NEW n \in Message, NEW v \in Worker, NEW l \in Loop,
             loop' = [loop EXCEPT ![n][v] = l], n # m \/ v # w
      PROVE  FALSE
  BY <1>0, <1>1, OneLoop
<1>2. ASSUME loop' = loop PROVE FALSE
  BY <1>2
<1>3. ASSUME NEW s \in Socket, Connect(s) \/ Fail(s) \/ Disconnect(s) PROVE FALSE
  BY <1>0, <1>2, <1>3, DroppedLoops, HomeAssumption DEF Connect, Fail, Disconnect
<1>4. ASSUME NEW n \in Message, NEW v \in Worker, NEW target \in Target, Send(n, v, target)
      PROVE  FALSE
  <2>1. n # m
    BY <1>0, <1>4 DEF Send, OneSender
  <2>2. Begun(v, target, TRUE) \in Loop
    BY <1>0, <1>4, BegunLoop DEF Send, sockets, IInv
  <2> QED  BY <1>1, <1>4, <2>1, <2>2 DEF Send
<1>5. ASSUME NEW n \in Message, NEW v \in Worker, Deliver(n, v) \/ Publish(n, v) \/ PublishFails(n, v),
             n # m \/ v # w
      PROVE  FALSE
  <2>1. \/ Publish(n, v) \/ PublishFails(n, v)
        \/ \E l : Step(n, v, l)
    <3>1. ASSUME NEW s \in Socket, Visit(n, v, s) PROVE \E l : Step(n, v, l)
      BY <3>1 DEF Visit
    <3>2. Sent(n, v) => \E l : Step(n, v, l)  BY DEF Sent
    <3>3. NotSent(n, v) => \E l : Step(n, v, l)  BY DEF NotSent
    <3>4. Finish(n, v) \/ Raise(n, v) => \E l : Step(n, v, l)  BY DEF Finish, Raise
    <3> QED  BY <1>5, <3>1, <3>2, <3>3, <3>4 DEF Deliver
  <2>2. PICK l : loop' = [loop EXCEPT ![n][v] = l]
    BY <2>1 DEF Publish, PublishFails, Step
  <2>3. loop'[m][w] = loop[m][w]
    BY <1>0, <1>5, <2>2, Types
  <2> QED  BY <2>3
<1>6. ASSUME Publish(m, w) \/ PublishFails(m, w) PROVE FALSE
  BY <1>6 DEF Publish, PublishFails
<1>7. ASSUME NEW s \in Socket, Visit(m, w, s) PROVE FALSE
  <2> DEFINE l == loop[m][w]
             d == [l EXCEPT !.state = "send", !.at = {s}, !.seen = @ \cup {s},
                            !.twice = IF s \in l.seen THEN @ \cup {s} ELSE @]
  <2>1. loop' = [loop EXCEPT ![m][w] = d]
    BY <1>7 DEF Visit, Step
  <2>2. l \in Sets  BY <1>0, LoopFields
  <2>3. d.state = "send" /\ d \in Loop
    <3> HIDE DEF l
    <3>1. d \in Sets /\ d.state = "send"  BY <2>2 DEF Sets
    <3> QED  BY <3>1, SetsAreLoops
  <2> HIDE DEF d
  <2> QED  BY <1>0, <2>1, <2>3, OneLoop
<1>8. ASSUME Sent(m, w) \/ NotSent(m, w) PROVE FALSE
  BY <1>8 DEF Sent, NotSent
<1>9. ASSUME NEW v \in Worker, Relay(v) PROVE FALSE
  <2> DEFINE n == Head(queue[v])
             l == Begun(v, message[n].target, FALSE)
  <2>1. n # m \/ v # w \/ Skipped(n, v)
    BY <1>9 DEF Relay, Relaying, Skipped
  <2>2. CASE loop' = loop
    BY <1>2, <2>2
  <2>3. CASE ~ Skipped(n, v) /\ loop' = [loop EXCEPT ![n][v] = l]
    <3>1. loop'[m][w] = loop[m][w]
      BY <1>0, <2>1, <2>3, Types
    <3> QED  BY <3>1
  <2> QED  BY <1>9, <2>2, <2>3 DEF Relay
<1>10. ASSUME NEW v \in Worker, LoseRedis(v) \/ Subscribe(v) PROVE FALSE
  BY <1>2, <1>10 DEF LoseRedis, Subscribe
<1> QED
  BY <1>3, <1>4, <1>5, <1>6, <1>7, <1>8, <1>9, <1>10 DEF Next, Deliver

\* A channel's message gets to all open sockets a worker has copied, and goes
\* on to the other workers: the counterpart of EntityReached, which fails
\* because the loop over an entity's sockets runs over no copy.
THEOREM ChannelIsReached == Spec => ChannelReached
<1>1. Init => LoopsReach
  <2>1. Init => ~ Still.orphan /\ Still.seen = {}  BY DEF Still
  <2> QED  BY <2>1 DEF Init, LoopsReach, Reaches
<1>2. IInv /\ LoopsReach /\ [Next]_vars => LoopsReach'
  <2>1. UNCHANGED vars /\ LoopsReach => LoopsReach'
    BY DEF vars, LoopsReach
  <2> QED  BY <2>1, ReachesStep
<1>3. ASSUME IInv, LoopsReach, Next, NEW m \in Message, NEW w \in Worker,
             message[m].target = "channel",
             loop[m][w].state = "next", loop'[m][w].state \in {"publish", "over"}
      PROVE  /\ Own(m, w) <=> loop'[m][w].state = "publish"
             /\ \A s \in loop[m][w].start : client[s] = "open" => received[m][s] = 1
  <2> DEFINE l == loop[m][w]
  <2>0. TypeOK /\ l \in Loop /\ l.start \subseteq Socket
    BY <1>3, Typed, LoopFields DEF IInv
  <2>1. ~ Resized(m, w) /\ ~ Changed(m, w)
    BY <1>3 DEF Resized, Changed, Live, LoopsReach, Reaches
  <2>2. Finish(m, w)
    BY <1>3, <2>1, LoopEnds DEF Raise
  <2>3. l.seen = l.start /\ loop' = [loop EXCEPT ![m][w] = Done(Own(m, w))]
    BY <2>1, <2>2 DEF Finish, Step
  <2>4. Own(m, w) \in BOOLEAN  BY DEF Own
  <2>5. Done(Own(m, w)) \in Loop /\ Done(Own(m, w)).state = IF Own(m, w) THEN "publish" ELSE "over"
    BY <2>4, DoneLoop
  <2>6. loop'[m][w].state = IF Own(m, w) THEN "publish" ELSE "over"
    BY <2>0, <2>3, <2>5, OneLoop
  <2>7. ASSUME NEW s \in l.start, client[s] = "open" PROVE received[m][s] = 1
    <3>1. l.at = {}  BY <1>3 DEF IInv, LoopsHold, Holds
    <3>2. received[m][s] > 0
      BY <1>3, <2>3, <2>7, <3>1 DEF LoopsReach, Reaches
    <3>3. received[m][s] <= 1 /\ received[m][s] \in 0 .. 2
      BY <1>3, <2>0, <2>7, Typed DEF IInv, ChannelAtMostOnce
    <3> QED  BY <3>2, <3>3
  <2> QED  BY <2>6, <2>7
<1>4. IInv /\ LoopsReach /\ [Next]_vars =>
        [\A m \in Message, w \in Worker :
           (/\ message[m].target = "channel"
            /\ loop[m][w].state = "next" /\ loop'[m][w].state \in {"publish", "over"})
           => /\ Own(m, w) <=> loop'[m][w].state = "publish"
              /\ \A s \in loop[m][w].start : client[s] = "open" => received[m][s] = 1]_vars
  BY <1>3
<1> QED
  BY <1>1, <1>2, <1>4, AlwaysInvariant, PTL DEF Spec, ChannelReached

=============================================================================
