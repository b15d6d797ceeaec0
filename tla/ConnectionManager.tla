------------------------- MODULE ConnectionManager --------------------------
(***************************************************************************)
(* The WebSocket connections of one entity on one channel, on several      *)
(* worker processes (src/ws.py, src/api/ws_router.py).  Each worker keeps  *)
(* them in three indexes: by entity and channel, by channel, and all.  A   *)
(* message is sent to the worker's own sockets, one await each, and is     *)
(* then published to Redis, from where the other workers relay it.         *)
(*                                                                         *)
(* A loop over the sockets of a channel runs over a copy.  The other two   *)
(* run over the set itself, which connections come into and go from during *)
(* the awaits: Python raises if it has another size by the next step, and  *)
(* if it has the same size again it goes on anywhere in the new one.       *)
(***************************************************************************)
EXTENDS Naturals, Sequences, FiniteSets

CONSTANTS
  Worker, Socket, Message,
  home    \* the worker each socket connects to

ASSUME HomeAssumption == home \in [Socket -> Worker]

VARIABLES
  client,       \* of each socket
  connections,  \* by entity and channel, on each worker
  subscribers,  \* by channel
  all,
  message,      \* what each message is sent to, and from where
  loop,         \* of each message on each worker
  redis,        \* whether each worker is subscribed
  queue,        \* what Redis has for each worker
  received      \* how often each socket has got a channel's message, up to two

vars == <<client, connections, subscribers, all, message, loop, redis, queue, received>>

sockets == <<client, connections, subscribers, all>>

\* "failing": slow, or closed without our knowing.
ClientState == {"new", "open", "failing", "gone"}
Target == {"entity", "channel", "all"}

Still ==
  [state |-> "idle", start |-> {}, seen |-> {}, twice |-> {}, at |-> {}, dead |-> {},
   orphan |-> FALSE]

Over == [Still EXCEPT !.state = "over"]

\* Only a loop that runs holds sockets.
Loop ==
  {[Still EXCEPT !.state = x] : x \in {"idle", "publish", "over"}} \cup
  [state : {"next", "send"}, start : SUBSET Socket, seen : SUBSET Socket, twice : SUBSET Socket,
   at : SUBSET Socket, dead : SUBSET Socket, orphan : BOOLEAN]

TypeOK ==
  /\ client \in [Socket -> ClientState]
  /\ \A index \in {connections, subscribers, all} : index \in [Worker -> SUBSET Socket]
  /\ message \in [Message -> [target : Target \cup {"none"}, origin : SUBSET Worker]]
  /\ loop \in [Message -> [Worker -> Loop]]
  /\ redis \in [Worker -> {"off", "down", "on"}]
  /\ queue \in [Worker -> Seq(Message)]
  /\ received \in [Message -> [Socket -> 0 .. 2]]

Init ==
  /\ client = [s \in Socket |-> "new"]
  /\ connections = [w \in Worker |-> {}]
  /\ subscribers = [w \in Worker |-> {}]
  /\ all = [w \in Worker |-> {}]
  /\ message = [m \in Message |-> [target |-> "none", origin |-> {}]]
  /\ loop = [m \in Message |-> [w \in Worker |-> Still]]
  /\ redis = [w \in Worker |-> "off"]
  /\ queue = [w \in Worker |-> <<>>]
  /\ received = [m \in Message |-> [s \in Socket |-> 0]]

-----------------------------------------------------------------------------
(* Connections.                                                            *)

\* connect: the first one of a worker starts its subscriber.
Connect(s) ==
  LET w == home[s] IN
  /\ client[s] = "new"
  /\ client' = [client EXCEPT ![s] = "open"]
  /\ connections' = [connections EXCEPT ![w] = @ \cup {s}]
  /\ subscribers' = [subscribers EXCEPT ![w] = @ \cup {s}]
  /\ all' = [all EXCEPT ![w] = @ \cup {s}]
  /\ redis' = [redis EXCEPT ![w] = IF @ = "off" THEN "down" ELSE @]
  /\ UNCHANGED <<message, loop, queue, received>>

\* The client stops reading, or closes.
Fail(s) ==
  /\ client[s] = "open"
  /\ client' = [client EXCEPT ![s] = "failing"]
  /\ UNCHANGED <<connections, subscribers, all, message, loop, redis, queue, received>>

Dropped_All(w) == [m \in Message |-> [loop[m] EXCEPT ![w].orphan = TRUE]]

\* The set of an entity that is empty is dropped: a loop that runs over it will
\* not see those that connect later.
Dropped(w) ==
  [m \in Message |-> [loop[m] EXCEPT ![w].orphan =
     @ \/ (loop[m][w].state \in {"next", "send"} /\ message[m].target = "entity")]]

Disconnect_KeepsChannel(s) ==
  LET w == home[s] IN
  /\ client[s] = "failing"
  /\ client' = [client EXCEPT ![s] = "gone"]
  /\ connections' = [connections EXCEPT ![w] = @ \ {s}]
  /\ all' = [all EXCEPT ![w] = @ \ {s}]
  /\ UNCHANGED <<subscribers, message, loop, redis, queue, received>>

\* disconnect, once the endpoint learns of it.
Disconnect(s) ==
  LET w == home[s] IN
  /\ client[s] = "failing"
  /\ client' = [client EXCEPT ![s] = "gone"]
  /\ connections' = [connections EXCEPT ![w] = @ \ {s}]
  /\ subscribers' = [subscribers EXCEPT ![w] = @ \ {s}]
  /\ all' = [all EXCEPT ![w] = @ \ {s}]
  /\ loop' = IF connections[w] \subseteq {s} THEN Dropped(w) ELSE loop
  /\ UNCHANGED <<message, redis, queue, received>>

-----------------------------------------------------------------------------
(* The loop of message m over the sockets of worker w.                     *)

Index(w, target) ==
  CASE target = "entity"  -> connections[w]
    [] target = "channel" -> subscribers[w]
    [] target = "all"     -> all[w]

Live_NoCopy(m, w) == Index(w, message[m].target)

\* What it runs over at the moment.
Live(m, w) ==
  IF message[m].target = "channel" THEN loop[m][w].start ELSE Index(w, message[m].target)

Changed(m, w) == Live(m, w) # loop[m][w].start

Resized(m, w) ==
  loop[m][w].orphan \/ Cardinality(Live(m, w)) # Cardinality(loop[m][w].start)

\* Worker w has sent message m.
Own(m, w) == w \in message[m].origin

\* After the last socket: the sender publishes, who relays is done.
Done(own) == IF own THEN [Still EXCEPT !.state = "publish"] ELSE Over

Step(m, w, l) ==
  /\ loop' = [loop EXCEPT ![m][w] = l]
  /\ UNCHANGED <<client, message, redis, queue>>

\* No sockets, no await.
Begun(w, target, own) ==
  IF Index(w, target) = {} THEN Done(own)
  ELSE [Still EXCEPT !.state = "next", !.start = Index(w, target)]

\* send_to_entity, broadcast_to_channel, broadcast
Send(m, w, target) ==
  /\ message[m].target = "none"
  /\ message' = [message EXCEPT ![m] = [target |-> target, origin |-> {w}]]
  /\ loop' = [loop EXCEPT ![m][w] = Begun(w, target, TRUE)]
  /\ UNCHANGED <<sockets, redis, queue, received>>

\* Each socket once, or anywhere in a set that has changed.
Choice(m, w) ==
  IF Changed(m, w) THEN Live(m, w) \ loop[m][w].twice ELSE loop[m][w].start \ loop[m][w].seen

Visit(m, w, s) ==
  LET l == loop[m][w] IN
  /\ l.state = "next" /\ ~ Resized(m, w) /\ s \in Choice(m, w)
  /\ Step(m, w, [l EXCEPT !.state = "send", !.at = {s}, !.seen = @ \cup {s},
                          !.twice = IF s \in l.seen THEN @ \cup {s} ELSE @])
  /\ UNCHANGED <<connections, subscribers, all, received>>

\* _safe_send: an open client gets it; a failing one may, or the send raises or
\* times out.
Sent(m, w) ==
  LET l == loop[m][w] IN
  /\ l.state = "send"
  /\ received' = [received EXCEPT ![m] =
       [s \in Socket |-> IF s \in l.at /\ message[m].target = "channel" /\ @[s] < 2
                        THEN @[s] + 1 ELSE @[s]]]
  /\ Step(m, w, [l EXCEPT !.state = "next", !.at = {}])
  /\ UNCHANGED <<connections, subscribers, all>>

NotSent(m, w) ==
  LET l == loop[m][w] IN
  /\ l.state = "send" /\ \A s \in l.at : client[s] # "open"
  /\ Step(m, w, [l EXCEPT !.state = "next", !.at = {}, !.dead = @ \cup l.at])
  /\ UNCHANGED <<connections, subscribers, all, received>>

\* The dead leave the index of the loop, and all.
Finish(m, w) ==
  LET l == loop[m][w]
      without(index, target) ==
        IF target = message[m].target THEN [index EXCEPT ![w] = @ \ l.dead] ELSE index IN
  /\ l.state = "next" /\ ~ Resized(m, w)
  /\ Changed(m, w) \/ l.seen = l.start
  /\ connections' = without(connections, "entity")
  /\ subscribers' = without(subscribers, "channel")
  /\ all' = [all EXCEPT ![w] = @ \ l.dead]
  /\ Step(m, w, Done(Own(m, w)))
  /\ UNCHANGED received

\* RuntimeError: nobody else gets it, here or on another worker, and the dead
\* stay.
Raise(m, w) ==
  /\ loop[m][w].state = "next" /\ Resized(m, w)
  /\ Step(m, w, Over)
  /\ UNCHANGED <<connections, subscribers, all, received>>

-----------------------------------------------------------------------------
(* Redis.                                                                  *)

Publish(m, w) ==
  /\ loop[m][w].state = "publish"
  /\ queue' = [v \in Worker |-> IF redis[v] = "on" THEN Append(queue[v], m) ELSE queue[v]]
  /\ loop' = [loop EXCEPT ![m][w] = Over]
  /\ UNCHANGED <<sockets, message, redis, received>>

\* _publish swallows every error.
PublishFails(m, w) ==
  /\ loop[m][w].state = "publish"
  /\ loop' = [loop EXCEPT ![m][w] = Over]
  /\ UNCHANGED <<sockets, message, redis, queue, received>>

\* The subscriber of w handles one message at a time.
Relaying(w) ==
  \E m \in Message : ~ Own(m, w) /\ loop[m][w].state \in {"next", "send"}

Skipped_Never(m, w) == FALSE

\* It has been delivered here before it was published.
Skipped(m, w) == Own(m, w)

Relay(w) ==
  /\ redis[w] = "on" /\ queue[w] # <<>> /\ ~ Relaying(w)
  /\ LET m == Head(queue[w]) IN
       loop' = IF Skipped(m, w) THEN loop
               ELSE [loop EXCEPT ![m][w] = Begun(w, message[m].target, FALSE)]
  /\ queue' = [queue EXCEPT ![w] = Tail(@)]
  /\ UNCHANGED <<sockets, message, redis, received>>

\* What Redis had for it is lost.
LoseRedis(w) ==
  /\ redis[w] = "on"
  /\ redis' = [redis EXCEPT ![w] = "down"]
  /\ queue' = [queue EXCEPT ![w] = <<>>]
  /\ UNCHANGED <<sockets, message, loop, received>>

\* At the start, and after a back-off.
Subscribe(w) ==
  /\ redis[w] = "down" /\ ~ Relaying(w)
  /\ redis' = [redis EXCEPT ![w] = "on"]
  /\ UNCHANGED <<sockets, message, loop, queue, received>>

-----------------------------------------------------------------------------

Deliver(m, w) ==
  \/ \E s \in Socket : Visit(m, w, s)
  \/ Sent(m, w) \/ NotSent(m, w) \/ Finish(m, w) \/ Raise(m, w)

Next ==
  \/ \E s \in Socket : Connect(s) \/ Fail(s) \/ Disconnect(s)
  \/ \E m \in Message, w \in Worker :
       \/ \E target \in Target : Send(m, w, target)
       \/ Deliver(m, w) \/ Publish(m, w) \/ PublishFails(m, w)
  \/ \E w \in Worker : Relay(w) \/ LoseRedis(w) \/ Subscribe(w)

Spec == Init /\ [][Next]_vars

\* What the event loop of a worker gets to by itself: a send ends within five
\* seconds, the loops go on and the next message is relayed.
WorkerStep(w) == Relay(w) \/ \E m \in Message : Deliver(m, w)

LiveSpec == Spec /\ \A w \in {home[s] : s \in Socket} : WF_vars(WorkerStep(w))

-----------------------------------------------------------------------------

\* A client that has not failed is in every index of its worker, one that is
\* gone in none, whatever loops and disconnects of others remove meanwhile.
IndexesAreRight ==
  \A s \in Socket, w \in Worker : \A index \in {connections, subscribers, all} :
    /\ s \in index[w] => home[s] = w /\ client[s] \in {"open", "failing"}
    /\ client[s] = "open" /\ home[s] = w => s \in index[w]

\* No socket gets a channel's message twice, from the sender and a relay or
\* within one loop.
ChannelAtMostOnce ==
  \A m \in Message, s \in Socket : message[m].target = "channel" => received[m][s] <= 1

\* What Redis has for a worker gets to all open sockets that its channel has,
\* whatever becomes of the messages relayed before it, unless it loses Redis.
RelayReachesChannel ==
  \A m \in Message, s \in Socket :
    (/\ m \in {queue[home[s]][i] : i \in DOMAIN queue[home[s]]}
     /\ message[m].target = "channel" /\ ~ Own(m, home[s]) /\ s \in subscribers[home[s]])
      ~> (received[m][s] > 0 \/ client[s] # "open" \/ redis[home[s]] # "on")

-----------------------------------------------------------------------------
(* What a comment says and the code does not keep.                         *)

\* "Send a message to all connections of an entity on a channel" (ws.py:79):
\* when the sender is done, its open sockets of the entity have the message.
EntityReached ==
  [][\A m \in Message, w \in Worker :
       (/\ message[m].target = "entity" /\ Own(m, w)
        /\ loop[m][w].state = "next" /\ loop'[m][w].state \in {"publish", "over"})
       => \A s \in loop[m][w].start : client[s] = "open" => s \in loop[m][w].seen]_vars

=============================================================================
