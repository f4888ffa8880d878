---------------------------- MODULE RedisAdapter ----------------------------
(***************************************************************************)
(* The table of pending requests of the socket.io Redis adapter.  Every    *)
(* node subscribes to the packets, one request and one response channel    *)
(* over a single connection, so `inbox[n]` is one queue.  A request goes   *)
(* to every subscriber, the requester's own node included, after their     *)
(* number has been asked for; answers are counted up to that number; a     *)
(* timer ends the wait.  Rooms are abstracted to one room.                 *)
(*                                                                         *)
(* `req[i]` is the request i: `pc` is the state of its caller, and the     *)
(* entry of the requester's map (requests, for a broadcast with acks       *)
(* ackRequests) exists exactly while it is "waiting".  `subs` are the      *)
(* nodes that were counted (the code keeps their number), `reach` those    *)
(* the request was published to, `heard` the answers counted.              *)
(***************************************************************************)
EXTENDS Naturals, FiniteSets, Sequences

CONSTANTS
    Nodes, Sockets,
    Home,       \* node of each socket
    Ids,        \* bound: requests made; an id (uid2) is never used again
    None,
    Late,       \* nodes that start later
    Mortal      \* nodes that may die; one that restarts is another node

ASSUME NoneIsNothing == None \notin Ids \cup Nodes \cup Sockets
ASSUME HomeType == Home \in [Sockets -> Nodes]
ASSUME NodesFinite == IsFiniteSet(Nodes)

VARIABLES
    up,         \* nodes that are subscribed
    over,       \* nodes that have died
    socket,     \* each socket: new, open or closed
    room,       \* sockets in the room
    inbox,      \* what Redis has still to deliver to each node
    req,        \* the requests
    handlers,   \* handlers of an emit: <<i, n, has it called back>>
    got,        \* how often the packet i has reached a socket
    stayed      \* history: sockets in the room ever since i was published

nodes == <<up, over>>
sockets == <<socket, room>>
vars == <<up, over, socket, room, inbox, req, handlers, got, stayed>>

Collecting == {"sockets", "allRooms", "fetch"}
Direct == {"remoteJoin", "remoteLeave", "remoteDisconnect"}
Bulk == {"addSockets", "delSockets", "disconnectSockets"}
Packets == {"broadcast", "broadcastAck"}

ASSUME NoneIsNoType ==
    None \notin {"emit"} \cup Collecting \cup Direct \cup Bulk \cup Packets

Unused == [type |-> None, node |-> None, sid |-> None, pc |-> "unused",
           subs |-> {}, reach |-> {}, heard |-> <<>>]
Waiting(i) == req[i].pc = "waiting"
Open(s) == socket[s] = "open"

\* What a node holds.  The rooms of allRooms follow from the members too.
Held(n) == {s \in room : Home[s] = n}
HeldBy(n) == [node |-> n, held |-> Held(n)]

\* What an operation of type t does to a socket.
Apply(t, s) ==
    /\ socket' = IF t \in {"remoteDisconnect", "disconnectSockets"}
                 THEN [socket EXCEPT ![s] = "closed"] ELSE socket
    /\ room' = IF t \in {"remoteJoin", "addSockets"} THEN room \cup {s}
               ELSE room \ {s}

\* A packet reaches the sockets ss, or none.
Reach(i, ss) ==
    got' = [got EXCEPT ![i] = [s \in Sockets |-> IF s \in ss THEN @[s] + 1 ELSE @[s]]]

Stays == stayed' = [i \in Ids |-> stayed[i] \cap room']

------------------------------------------------------------------------------
\* Redis: a publication reaches those who are subscribed, in order.

Request(i) == [on |-> "request", id |-> i, answer |-> None]
Response(i, a) == [on |-> "response", id |-> i, answer |-> a]

Publication(i) ==
    inbox' = [n \in Nodes |-> IF n \in up THEN Append(inbox[n], Request(i))
                              ELSE inbox[n]]

\* The response channel is common to all nodes, but an id means nothing to
\* any node but the requester's.
To(box, i, a) ==
    LET n == req[i].node IN
    IF n \in up THEN [box EXCEPT ![n] = Append(@, Response(i, a))] ELSE box

Rest(n) == [inbox EXCEPT ![n] = Tail(@)]
Drop(n) == inbox' = Rest(n)

\* publishResponse
Answer(n, i) == inbox' = To(Rest(n), i, HeldBy(n))

\* The next message m of n, if there is one: a request of one of the types
\* ts, or a response to one that still waits.
Arrived(n) == IF inbox[n] = <<>> THEN {} ELSE {Head(inbox[n])}
Asks(m, ts) == m.on = "request" /\ req[m.id].type \in ts
Tells(m, ts) == m.on = "response" /\ Waiting(m.id) /\ req[m.id].type \in ts

------------------------------------------------------------------------------
\* The requester

Ask(i, n, t, s, pc, heard, reach) ==
    /\ req[i] = Unused
    /\ n \in up
    /\ req' = [req EXCEPT ![i] = [type |-> t, node |-> n, sid |-> s, pc |-> pc,
                                  subs |-> {}, reach |-> reach, heard |-> heard]]

\* Its own node's part is read first, then the subscribers are counted.
Collect(i, n, t) == /\ Ask(i, n, t, None, "counting", <<HeldBy(n)>>, {})
                    /\ UNCHANGED <<nodes, sockets, inbox, handlers, got, stayed>>
AskSockets(i, n) == Collect(i, n, "sockets")
AskRooms(i, n) == Collect(i, n, "allRooms")
FetchSockets(i, n) == Collect(i, n, "fetch")

\* serverSideEmitWithAck leaves its own node out.
EmitWithAck(i, n) == /\ Ask(i, n, "emit", None, "counting", <<>>, {})
                     /\ UNCHANGED <<nodes, sockets, inbox, handlers, got, stayed>>

\* getNumSub: Redis counts them
Count(i) ==
    /\ req[i].pc = "counting"
    /\ req' = [req EXCEPT ![i].pc = "counted", ![i].subs = up]
    /\ UNCHANGED <<nodes, sockets, inbox, handlers, got, stayed>>

\* ... and only then is the request published.
Publish(i) ==
    /\ req[i].pc = "counted"
    /\ IF Cardinality(req[i].subs) <= 1
       THEN req' = [req EXCEPT ![i].pc = "resolved"] /\ UNCHANGED inbox
       ELSE /\ req' = [req EXCEPT ![i].pc = "waiting", ![i].reach = up]
            /\ Publication(i)
    /\ UNCHANGED <<nodes, sockets, handlers, got, stayed>>

\* remoteJoin, remoteLeave, remoteDisconnect of the socket s: a socket of
\* this node needs no message.
Remote(i, n, t, s) ==
    /\ IF Open(s) /\ Home[s] = n
       THEN /\ Ask(i, n, t, s, "resolved", <<>>, {})
            /\ Apply(t, s)
            /\ UNCHANGED inbox
       ELSE Ask(i, n, t, s, "waiting", <<>>, up) /\ Publication(i) /\ UNCHANGED sockets
    /\ Stays
    /\ UNCHANGED <<nodes, handlers, got>>
RemoteJoin(i, n, s) == Remote(i, n, "remoteJoin", s)
RemoteLeave(i, n, s) == Remote(i, n, "remoteLeave", s)
RemoteDisconnect(i, n, s) == Remote(i, n, "remoteDisconnect", s)

\* addSockets, delSockets, disconnectSockets of the sockets in s's own room:
\* published without an id that anybody waits for.
BulkOp(i, n, t, s) == /\ Ask(i, n, t, s, "resolved", <<>>, up)
                      /\ Publication(i)
                      /\ UNCHANGED <<nodes, sockets, handlers, got, stayed>>
AddSockets(i, n, s) == BulkOp(i, n, "addSockets", s)
DelSockets(i, n, s) == BulkOp(i, n, "delSockets", s)
DisconnectSockets(i, n, s) == BulkOp(i, n, "disconnectSockets", s)

\* broadcast, and broadcastWithAck, which counts its own clients at once.
SendPacket(i, n, t, pc, heard) ==
    /\ Ask(i, n, t, None, pc, heard, up)
    /\ Publication(i)
    /\ Reach(i, Held(n))
    /\ stayed' = [stayed EXCEPT ![i] = room]
    /\ UNCHANGED <<nodes, sockets, handlers>>
Broadcast(i, n) == SendPacket(i, n, "broadcast", "resolved", <<>>)
BroadcastWithAck(i, n) == SendPacket(i, n, "broadcastAck", "waiting", <<HeldBy(n)>>)

\* Mutant of Timeout: no timer.
TimeoutNever(i) == FALSE /\ UNCHANGED vars

\* The timer of a request; that of a broadcast only forgets the entry.
Timeout(i) ==
    /\ Waiting(i)
    /\ req' = [req EXCEPT ![i].pc = "expired"]
    /\ UNCHANGED <<nodes, sockets, inbox, handlers, got, stayed>>

------------------------------------------------------------------------------
\* onrequest and onmessage

\* Own is the test for a request of the node's own: requests.has, ackRequests.has.
Own(n, i) == req[i].node = n /\ Waiting(i)

\* Mutant of OnCollect: the node answers its own request too.
OnCollectOwn(n) == \E m \in Arrived(n) :
    /\ Asks(m, Collecting)
    /\ Answer(n, m.id)
    /\ UNCHANGED <<nodes, sockets, req, handlers, got, stayed>>

\* SOCKETS, ALL_ROOMS, REMOTE_FETCH
OnCollect(n) == \E m \in Arrived(n) :
    /\ Asks(m, Collecting)
    /\ IF Own(n, m.id) THEN Drop(n) ELSE Answer(n, m.id)
    /\ UNCHANGED <<nodes, sockets, req, handlers, got, stayed>>

\* Mutant of OnRemote: the node does not ask whether it still has the socket.
OnRemoteBlindly(n) == \E m \in Arrived(n) :
    /\ Asks(m, Direct \cup Bulk)
    /\ LET s == req[m.id].sid  t == req[m.id].type IN
       IF Home[s] = n
       THEN /\ Apply(t, s)
            /\ IF t \in Direct THEN Answer(n, m.id) ELSE Drop(n)
       ELSE Drop(n) /\ UNCHANGED sockets
    /\ Stays
    /\ UNCHANGED <<nodes, req, handlers, got>>

\* REMOTE_JOIN, REMOTE_LEAVE, REMOTE_DISCONNECT; only those of one socket
\* are answered, and only by the socket's node.
OnRemote(n) == \E m \in Arrived(n) :
    /\ Asks(m, Direct \cup Bulk)
    /\ LET s == req[m.id].sid  t == req[m.id].type IN
       IF Open(s) /\ Home[s] = n
       THEN /\ Apply(t, s)
            /\ IF t \in Direct THEN Answer(n, m.id) ELSE Drop(n)
       ELSE Drop(n) /\ UNCHANGED sockets
    /\ Stays
    /\ UNCHANGED <<nodes, req, handlers, got>>

\* SERVER_SIDE_EMIT
OnEmit(n) == \E m \in Arrived(n) :
    /\ Asks(m, {"emit"})
    /\ Drop(n)
    /\ handlers' = IF req[m.id].node = n THEN handlers
                   ELSE handlers \cup {<<m.id, n, FALSE>>}
    /\ UNCHANGED <<nodes, sockets, req, got, stayed>>

\* Mutant of CallBack: a handler's second call is sent as well.
CallBackAgain(n, i) ==
    /\ \E b \in BOOLEAN : <<i, n, b>> \in handlers
    /\ handlers' = (handlers \ {<<i, n, FALSE>>}) \cup {<<i, n, TRUE>>}
    /\ inbox' = To(inbox, i, HeldBy(n))
    /\ UNCHANGED <<nodes, sockets, req, got, stayed>>

\* The acknowledgement a handler of an emit calls, some time or never.
CallBack(n, i) ==
    /\ <<i, n, FALSE>> \in handlers
    /\ handlers' = (handlers \ {<<i, n, FALSE>>}) \cup {<<i, n, TRUE>>}
    /\ inbox' = To(inbox, i, HeldBy(n))
    /\ UNCHANGED <<nodes, sockets, req, got, stayed>>

\* Mutant of OnPacket: hasRoom misses a room whose name is a number.
OnPacketNumeric(n) == \E m \in Arrived(n) :
    /\ Asks(m, {"broadcast"})
    /\ Drop(n)
    /\ UNCHANGED <<nodes, sockets, req, handlers, got, stayed>>

\* onmessage: its own packets and those for a room it has not are ignored.
OnPacket(n) == \E m \in Arrived(n) :
    /\ Asks(m, {"broadcast"})
    /\ Drop(n)
    /\ Reach(m.id, IF req[m.id].node = n THEN {} ELSE Held(n))
    /\ UNCHANGED <<nodes, sockets, req, handlers, stayed>>

\* Mutant of OnPacketWithAck: the node takes its own packet for another's.
OnPacketWithAckOwn(n) == \E m \in Arrived(n) :
    /\ Asks(m, {"broadcastAck"})
    /\ Reach(m.id, Held(n))
    /\ Answer(n, m.id)
    /\ UNCHANGED <<nodes, sockets, req, handlers, stayed>>

\* BROADCAST
OnPacketWithAck(n) == \E m \in Arrived(n) :
    /\ Asks(m, {"broadcastAck"})
    /\ IF Own(n, m.id) THEN Drop(n) /\ UNCHANGED got
       ELSE Reach(m.id, Held(n)) /\ Answer(n, m.id)
    /\ UNCHANGED <<nodes, sockets, req, handlers, stayed>>

------------------------------------------------------------------------------
\* onresponse

Counted(i, a) == [req EXCEPT ![i].heard = Append(@, a)]
CountedLast(i, a) == [req EXCEPT ![i].heard = Append(@, a), ![i].pc = "resolved"]

\* msgCount is the length of `heard`: it starts at 1.
OnAnswer(n) == \E m \in Arrived(n) :
    /\ Tells(m, Collecting)
    /\ Drop(n)
    /\ req' = IF Len(req[m.id].heard) + 1 = Cardinality(req[m.id].subs)
              THEN CountedLast(m.id, m.answer) ELSE Counted(m.id, m.answer)
    /\ UNCHANGED <<nodes, sockets, handlers, got, stayed>>

\* The one answer of a remoteJoin, remoteLeave, remoteDisconnect.
OnRemoteDone(n) == \E m \in Arrived(n) :
    /\ Tells(m, Direct)
    /\ Drop(n)
    /\ req' = CountedLast(m.id, m.answer)
    /\ UNCHANGED <<nodes, sockets, handlers, got, stayed>>

\* responses.length against the subscribers without the node itself.
OnEmitAnswer(n) == \E m \in Arrived(n) :
    /\ Tells(m, {"emit"})
    /\ Drop(n)
    /\ req' = IF Len(req[m.id].heard) + 2 = Cardinality(req[m.id].subs)
              THEN CountedLast(m.id, m.answer) ELSE Counted(m.id, m.answer)
    /\ UNCHANGED <<nodes, sockets, handlers, got, stayed>>

\* BROADCAST_CLIENT_COUNT
OnClientCount(n) == \E m \in Arrived(n) :
    /\ Tells(m, {"broadcastAck"})
    /\ Drop(n)
    /\ req' = Counted(m.id, m.answer)
    /\ UNCHANGED <<nodes, sockets, handlers, got, stayed>>

\* Mutant of OnLateAnswer: the entry of a settled request is kept.
OnLateAnswerCounted(n) == \E m \in Arrived(n) :
    /\ m.on = "response" /\ ~Waiting(m.id)
    /\ Drop(n)
    /\ req' = Counted(m.id, m.answer)
    /\ UNCHANGED <<nodes, sockets, handlers, got, stayed>>

\* "ignoring unknown request": it has been settled.
OnLateAnswer(n) == \E m \in Arrived(n) :
    /\ m.on = "response" /\ ~Waiting(m.id)
    /\ Drop(n)
    /\ UNCHANGED <<nodes, sockets, req, handlers, got, stayed>>

------------------------------------------------------------------------------
\* The server around the adapter: a socket connects, joins or leaves, nodes
\* come and go.

Connect(s) ==
    /\ Home[s] \in up /\ socket[s] = "new"
    /\ socket' = [socket EXCEPT ![s] = "open"]
    /\ UNCHANGED <<nodes, room, inbox, req, handlers, got, stayed>>

Join(s) == /\ Open(s) /\ s \notin room
           /\ room' = room \cup {s}
           /\ UNCHANGED <<nodes, socket, inbox, req, handlers, got, stayed>>

Leave(s) == /\ s \in room
            /\ room' = room \ {s}
            /\ Stays
            /\ UNCHANGED <<nodes, socket, inbox, req, handlers, got>>

Start(n) == /\ n \in Late \ (up \cup over)
            /\ up' = up \cup {n}
            /\ UNCHANGED <<over, sockets, inbox, req, handlers, got, stayed>>

Pending == {"counting", "counted", "waiting"}

Die(n) ==
    LET gone == {s \in Sockets : Home[s] = n} IN
    /\ n \in Mortal \cap up
    /\ up' = up \ {n} /\ over' = over \cup {n}
    /\ socket' = [s \in Sockets |-> IF s \in gone THEN "closed" ELSE socket[s]]
    /\ room' = room \ gone
    /\ Stays
    /\ inbox' = [inbox EXCEPT ![n] = <<>>]
    /\ req' = [i \in Ids |-> IF req[i].node = n /\ req[i].pc \in Pending
                             THEN [req[i] EXCEPT !.pc = "lost"] ELSE req[i]]
    /\ handlers' = {h \in handlers : h[2] # n}
    /\ UNCHANGED got

------------------------------------------------------------------------------
Init ==
    /\ up = Nodes \ Late /\ over = {}
    /\ socket = [s \in Sockets |-> IF Home[s] \in up THEN "open" ELSE "new"]
    /\ room \in SUBSET {s \in Sockets : Open(s)}
    /\ inbox = [n \in Nodes |-> <<>>]
    /\ req = [i \in Ids |-> Unused]
    /\ handlers = {}
    /\ got = [i \in Ids |-> [s \in Sockets |-> 0]]
    /\ stayed = [i \in Ids |-> {}]

Requester(i) ==
    \/ Count(i) \/ Publish(i) \/ Timeout(i)
    \/ \E n \in Nodes :
          \/ AskSockets(i, n) \/ AskRooms(i, n) \/ FetchSockets(i, n)
          \/ EmitWithAck(i, n) \/ Broadcast(i, n) \/ BroadcastWithAck(i, n)
          \/ CallBack(n, i)
    \/ \E n \in Nodes, s \in Sockets :
          \/ RemoteJoin(i, n, s) \/ RemoteLeave(i, n, s) \/ RemoteDisconnect(i, n, s)
          \/ AddSockets(i, n, s) \/ DelSockets(i, n, s) \/ DisconnectSockets(i, n, s)

Receive(n) ==
    \/ OnCollect(n) \/ OnRemote(n) \/ OnEmit(n) \/ OnPacket(n) \/ OnPacketWithAck(n)
    \/ OnAnswer(n) \/ OnRemoteDone(n) \/ OnEmitAnswer(n) \/ OnClientCount(n)
    \/ OnLateAnswer(n)

Next ==
    \/ \E i \in Ids : Requester(i)
    \/ \E n \in Nodes : Receive(n) \/ Start(n) \/ Die(n)
    \/ \E s \in Sockets : Connect(s) \/ Join(s) \/ Leave(s)

Spec == Init /\ [][Next]_vars

\* Redis answers a count and timers fire; nobody need answer a request.
FairSpec == Spec /\ \A i \in Ids :
    WF_vars(Count(i)) /\ WF_vars(Publish(i)) /\ WF_vars(Timeout(i))

------------------------------------------------------------------------------
Answers == [node: Nodes, held: SUBSET Sockets]

\* The variables stay in their types; sockets are open on nodes that are up.
TypeOK ==
    /\ up \subseteq Nodes /\ over \subseteq Mortal \ up
    /\ socket \in [Sockets -> {"new", "open", "closed"}]
    /\ \A s \in Sockets : /\ s \in room => Open(s)
                          /\ Open(s) => Home[s] \in up
    /\ \A i \in Ids :
          /\ req[i].type \in {None, "emit"} \cup Collecting \cup Direct \cup Bulk \cup Packets
          /\ req[i].node \in Nodes \cup {None} /\ req[i].sid \in Sockets \cup {None}
          /\ req[i].pc \in {"unused", "resolved", "expired", "lost"} \cup Pending
          /\ req[i].subs \subseteq Nodes /\ req[i].reach \subseteq Nodes
          /\ req[i].heard \in Seq(Answers)
          /\ stayed[i] \subseteq room
          /\ got[i] \in [Sockets -> 0..2]
    /\ handlers \subseteq Ids \X Nodes \X BOOLEAN
    /\ \A n \in Nodes \ up : inbox[n] = <<>>

\* No node is counted twice in a request, the requester's not by a message:
\* neither when it hears its own request nor when a handler calls back twice.
HeardOnce ==
    \A i \in Ids : \A j, k \in DOMAIN req[i].heard :
        req[i].heard[j].node = req[i].heard[k].node => j = k

HeardFrom(i) == {req[i].heard[j].node : j \in DOMAIN req[i].heard}

\* A collecting request that succeeds has the answers of just the nodes it
\* counted, unless a node subscribed between the count and the publication.
CompleteUnlessJoined ==
    \A i \in Ids :
        /\ req[i].type \in Collecting /\ req[i].pc = "resolved"
        /\ req[i].reach \subseteq req[i].subs
        => HeardFrom(i) = req[i].subs

\* A packet reaches a socket once.  Only the sender's own sockets may get a
\* second copy of one with acks: if its entry has been forgotten before Redis
\* brings it back, the sender takes it for another node's.
PacketOnce ==
    \A i \in Ids, s \in Sockets :
        got[i][s] > 1 => /\ req[i].type = "broadcastAck" /\ req[i].pc = "expired"
                         /\ Home[s] = req[i].node

InTransit(i, n) == \E j \in DOMAIN inbox[n] : inbox[n][j] = Request(i)

\* Who stays in the room gets its packets, on whichever node.
NothingMissed ==
    \A i \in Ids : \A s \in stayed[i] : ~InTransit(i, Home[s]) => got[i][s] >= 1

\* Every request ends, even if every other node dies.
RequestsEnd == \A i \in Ids : (req[i].pc \in Pending) ~> (req[i].pc \notin Pending)

------------------------------------------------------------------------------
\* A collecting request is a Gather: an answer is the read of its node, when
\* the node answers; from then on it is the requester's, even on its way.

Gathered(i) == req[i].type \in Collecting
Heard(i) == {req[i].heard[j] : j \in DOMAIN req[i].heard}
Answered(i, n) == {k \in DOMAIN inbox[n] : inbox[n][k].on = "response" /\ inbox[n][k].id = i}
OnItsWay(i) == {inbox[req[i].node][k].answer : k \in Answered(i, req[i].node)}

StageOf(i) == IF ~Gathered(i) THEN "idle"
              ELSE CASE req[i].pc = "counting" -> "open"
                     [] req[i].pc \in {"counted", "waiting"} -> "needing"
                     [] req[i].pc = "resolved" -> "done"
                     [] OTHER -> "failed"
ReadsOf(i) == CASE StageOf(i) \in {"idle", "failed"} -> {}
                [] StageOf(i) = "done" -> Heard(i)
                [] OTHER -> Heard(i) \cup OnItsWay(i)

Abstract == INSTANCE Gather WITH
    Data <- SUBSET Sockets,
    local <- [n \in Nodes |-> Held(n)],
    stage <- [i \in Ids |-> StageOf(i)],
    need <- [i \in Ids |-> IF Gathered(i) THEN Cardinality(req[i].subs) ELSE 0],
    reads <- [i \in Ids |-> ReadsOf(i)]

\* fetchSockets, sockets and allRooms do what Gather says and no more.
Gathers == Abstract!Spec
==============================================================================
