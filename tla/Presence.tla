------------------------------ MODULE Presence ------------------------------
(***************************************************************************)
(* Who is shown online: sessions in Redis, the friend list a client gets   *)
(* when it connects, the events that correct it, and direct messages.      *)
(*                                                                         *)
(* A node talks to Redis over two connections, each in order, with no      *)
(* order between them: `store[n]` holds the commands on sessions and       *)
(* messages still to be executed, `bus[n]` the packets of other nodes      *)
(* still to arrive.  saveSession and saveMessage wait for nothing.         *)
(*                                                                         *)
(* onConnection(s) runs through pc[s]:                                     *)
(*   verify     the token                                                  *)
(*   nickname   getUserNicknameByUid; the uid is known by now              *)
(*   find       findSession (createRedisSession)                           *)
(*   messages   findMessagesForUser                                        *)
(*   friends    getAcceptedFriendships                                     *)
(*   sync       findSession, friend by friend                              *)
(*   done       friend:sync-all and friend:connection have been sent       *)
(*   refused    the token was wrong                                        *)
(*   failed     a later await has been rejected                            *)
(***************************************************************************)
EXTENDS Naturals, FiniteSets, Sequences

CONSTANTS
    Users, Sockets, Nodes,
    Owner,      \* user of each socket
    NodeOf,     \* node of each socket
    Friends,    \* accepted friendships: a symmetric set of pairs
    Messages,   \* bound: direct messages sent
    Writers,    \* bound: sockets that send them
    Faulty,     \* bound: sockets whose onConnection may fail
    Mortal,     \* nodes that may crash, once
    Forgotten,  \* users of whom one key in Redis may expire
    None

ASSUME OwnerType == Owner \in [Sockets -> Users]
ASSUME NodeOfType == NodeOf \in [Sockets -> Nodes]
ASSUME FriendsSymmetric ==
    /\ Friends \subseteq Users \X Users
    /\ \A p \in Friends : <<p[2], p[1]>> \in Friends
ASSUME NoneIsNothing == None \notin Users /\ None \notin {"online", "offline"}

VARIABLES
    sock,       \* new, open or closed
    pc,         \* onConnection of each socket
    session,    \* session:<uid> in Redis
    kept,       \* messages:<uid> in Redis
    list,       \* the statuses a handler has read so far
    read,       \* the messages it has read
    room,       \* sockets in their user's room
    store, bus,
    told,       \* what each client has last been told of each user
    got,        \* direct messages each client has
    msg,        \* [from, to] of each message sent
    cut,        \* history: a socket has closed before its handler saved the
                \* session (early), before its end (late), by a crash, or no
    doubled,    \* history: users who have had two sockets open at once
    lapsed,     \* history: users whose session has expired
    dropped,    \* history: users whose messages have
    unsettled,  \* history: users in motion while a socket was connecting
    due         \* history: messages a client must have in the end

live == <<sock, pc, room, list, read>>
redis == <<session, kept, msg>>
client == <<told, got>>
tracks == <<cut, doubled, lapsed, dropped, due>>
vars == <<live, redis, store, bus, client, tracks, unsettled>>

Statuses == {"online", "offline"}
Open(s) == sock[s] = "open"
SocketsOf(u) == {s \in Sockets : Owner[s] = u}
FriendsOf(u) == {v \in Users : <<u, v>> \in Friends}
Nothing == [v \in Users |-> None]
NoSession == [uid |-> FALSE, connection |-> None]

\* mapSession: a session without a uid is none.
StatusOf(u) == IF session[u].uid THEN session[u].connection ELSE "offline"

Save(u, full, c) == [op |-> "save", user |-> u, full |-> full, connection |-> c]
Find(s) == [op |-> "find", socket |-> s]
FindFriend(s, v) == [op |-> "friend", socket |-> s, user |-> v]
ReadMessages(s) == [op |-> "messages", socket |-> s]
Keep(m) == [op |-> "keep", message |-> m]

Queue(n, items) == store' = [store EXCEPT ![n] = @ \o items]

------------------------------------------------------------------------------
\* Packets: at once to the node's own clients, over the bus to the others'.

Hearing(n, s) == NodeOf[s] = n /\ Open(s)
Status(u, c) == [on |-> "status", user |-> u, connection |-> c]
Direct(m) == [on |-> "message", message |-> m]
Publish(n, e) == bus' = [x \in Nodes |-> IF x = n THEN bus[x] ELSE Append(bus[x], e)]

\* Clients show their friends only.
Told(t, n, e, ss) == [s \in Sockets |->
    IF Hearing(n, s) /\ s \in ss /\ e.user \in FriendsOf(Owner[s])
    THEN [t[s] EXCEPT ![e.user] = e.connection] ELSE t[s]]
Got(n, m, pair) == [s \in Sockets |->
    IF Hearing(n, s) /\ s \in room /\ Owner[s] \in pair THEN got[s] \cup {m} ELSE got[s]]

\* client.broadcast of a client that is gone
GoodBye(s) == LET e == Status(Owner[s], "offline") IN
    /\ Publish(NodeOf[s], e)
    /\ told' = Told([told EXCEPT ![s] = Nothing], NodeOf[s], e, Sockets \ {s})

Arrive(n) ==
    /\ bus[n] # <<>>
    /\ LET e == Head(bus[n]) IN
       IF e.on = "status" THEN told' = Told(told, n, e, Sockets) /\ UNCHANGED got
       ELSE /\ got' = Got(n, e.message, {msg[e.message].from, msg[e.message].to})
            /\ UNCHANGED told
    /\ bus' = [bus EXCEPT ![n] = Tail(@)]
    /\ UNCHANGED <<live, redis, store, tracks>>

------------------------------------------------------------------------------
\* onConnection

Move(s, from, to) == pc[s] = from /\ pc' = [pc EXCEPT ![s] = to]

Concerns(m, u) == u \in {msg[m].from, msg[m].to}
Other(m, u) == IF msg[m].from = u THEN msg[m].to ELSE msg[m].from
\* friend:sync-all shows the messages of friends only.
Shown(ms, u) == {m \in ms : Other(m, u) \in FriendsOf(u)}

Connect(s) ==
    LET u == Owner[s] IN
    /\ sock[s] = "new"
    /\ sock' = [sock EXCEPT ![s] = "open"]
    /\ Move(s, "new", "verify")
    /\ doubled' = IF \E t \in SocketsOf(u) : Open(t) THEN doubled \cup {u} ELSE doubled
    /\ UNCHANGED <<room, list, read, redis, store, bus, client, cut, lapsed, dropped, due>>

\* The catch of onConnection: what has been done stays done, nothing of what
\* follows happens.  History: the client is owed nothing any more but what is
\* sent from now on.
GivesUp(s) ==
    /\ s \in Faulty
    /\ list' = [list EXCEPT ![s] = Nothing]
    /\ read' = [read EXCEPT ![s] = {}]
    /\ due' = [due EXCEPT ![s] = {}]
    /\ UNCHANGED <<sock, room, redis, bus, client, cut, doubled, lapsed, dropped>>

\* The token is wrong, or a query to the database fails.
ConnectionFails(s) ==
    /\ \/ Move(s, "verify", "refused")
       \/ Move(s, "nickname", "failed")
       \/ Move(s, "friends", "failed")
    /\ GivesUp(s)
    /\ UNCHANGED store

VerifyToken(s) ==
    /\ Move(s, "verify", "nickname")
    /\ UNCHANGED <<sock, room, list, read, redis, store, bus, client, tracks>>

NicknameFound(s) ==
    /\ Move(s, "nickname", "find")
    /\ Queue(NodeOf[s], <<Find(s)>>)
    /\ UNCHANGED <<sock, room, list, read, redis, bus, client, tracks>>

Unread(s, l) == {v \in FriendsOf(Owner[s]) : l[v] = None}

\* The messages of the list; the handler's variables are of no more use.
Show(s) ==
    /\ got' = IF Open(s) THEN [got EXCEPT ![s] = @ \cup Shown(read[s], Owner[s])] ELSE got
    /\ list' = [list EXCEPT ![s] = Nothing]
    /\ read' = [read EXCEPT ![s] = {}]

\* Mutant of Finish: the others are not told.
FinishSilently(s, l) ==
    /\ pc' = [pc EXCEPT ![s] = "done"]
    /\ told' = IF Open(s) THEN [told EXCEPT ![s] = l] ELSE told
    /\ Show(s)
    /\ UNCHANGED bus

\* friend:sync-all with the list l to the client, friend:connection to all
\* others: a closed socket's handler sends the latter as well.
Finish(s, l) ==
    LET e == Status(Owner[s], "online") IN
    /\ pc' = [pc EXCEPT ![s] = "done"]
    /\ Publish(NodeOf[s], e)
    /\ told' = Told(IF Open(s) THEN [told EXCEPT ![s] = l] ELSE told,
                    NodeOf[s], e, Sockets \ {s})
    /\ Show(s)

\* getAcceptedFriendships, and the first turn of the loop.
FriendsFound(s) ==
    /\ pc[s] = "friends"
    /\ IF FriendsOf(Owner[s]) = {}
       THEN Finish(s, list[s]) /\ UNCHANGED store
       ELSE /\ \E v \in FriendsOf(Owner[s]) : Queue(NodeOf[s], <<FindFriend(s, v)>>)
            /\ pc' = [pc EXCEPT ![s] = "sync"]
            /\ UNCHANGED <<list, read, bus, client>>
    /\ UNCHANGED <<sock, room, redis, tracks>>

------------------------------------------------------------------------------
\* onDisconnect.  Before the token has been verified the uid is undefined.

Known(s) == pc[s] \notin {"verify", "refused"}

Closing(s) ==
    /\ Open(s)
    /\ sock' = [sock EXCEPT ![s] = "closed"]
    /\ room' = room \ {s}
    /\ cut' = [cut EXCEPT ![s] = CASE pc[s] \in {"verify", "nickname", "find"} -> "early"
                                  [] pc[s] \in {"messages", "friends", "sync"} -> "late"
                                  [] OTHER -> "no"]
    /\ got' = [got EXCEPT ![s] = {}] /\ due' = [due EXCEPT ![s] = {}]
    /\ pc' = [pc EXCEPT ![s] = IF @ \in {"refused", "failed"} THEN "done" ELSE @]
    /\ UNCHANGED <<list, read, redis, doubled, lapsed, dropped>>

\* Mutant of Disconnect: the others are told, the session is left as it is.
DisconnectUnsaved(s) ==
    /\ Closing(s)
    /\ IF Known(s) THEN GoodBye(s) ELSE told' = [told EXCEPT ![s] = Nothing] /\ UNCHANGED bus
    /\ UNCHANGED store

Disconnect(s) ==
    /\ Closing(s)
    /\ IF Known(s)
       THEN /\ Queue(NodeOf[s], <<Save(Owner[s], FALSE, "offline")>>)
            /\ GoodBye(s)
       ELSE told' = [told EXCEPT ![s] = Nothing] /\ UNCHANGED <<store, bus>>

------------------------------------------------------------------------------
\* onDirectMessage: first sent, then saved.  Bound: a client writes once it
\* has its friend list.
SendMessage(s, v, m) ==
    LET u == Owner[s] IN
    /\ Open(s) /\ pc[s] = "done" /\ s \in Writers /\ v # u
    /\ msg[m] = [from |-> None, to |-> None]
    /\ msg' = [msg EXCEPT ![m] = [from |-> u, to |-> v]]
    /\ Publish(NodeOf[s], Direct(m))
    /\ got' = Got(NodeOf[s], m, {u, v})
    /\ Queue(NodeOf[s], <<Keep(m)>>)
    /\ due' = [t \in Sockets |-> IF t \in room /\ Owner[t] \in {u, v}
                                 THEN due[t] \cup {m} ELSE due[t]]
    /\ UNCHANGED <<live, session, kept, told, cut, doubled, lapsed, dropped>>

------------------------------------------------------------------------------
\* Redis executes a node's next command; a read's handler goes on.

Take(n, op) == /\ store[n] # <<>> /\ Head(store[n]).op = op
               /\ store' = [store EXCEPT ![n] = Tail(@)]

\* saveSession: hSet of the fields given.
Saved(n) ==
    LET i == Head(store[n]) IN
    /\ Take(n, "save")
    /\ session' = [session EXCEPT ![i.user] = [uid |-> @.uid \/ i.full,
                                               connection |-> i.connection]]
    /\ UNCHANGED <<live, kept, msg, bus, client, tracks>>

\* History: a client that enters its room is owed all that is stored by then,
\* for whomever (or in its own list, once that has expired).
Owed(s) ==
    LET lists == IF Owner[s] \in dropped THEN {Owner[s]} ELSE Users
        stored == UNION {kept[u] : u \in lists}
    IN  due' = [due EXCEPT ![s] =
            IF Open(s) THEN Shown({m \in stored : Concerns(m, Owner[s])}, Owner[s])
                       ELSE {}]

\* Mutants of Found: the session is always taken to be there, ...
FoundAlways(n) ==
    LET s == Head(store[n]).socket IN
    /\ store[n] # <<>> /\ Head(store[n]).op = "find"
    /\ store' = [store EXCEPT ![n] = Tail(@) \o <<Save(Owner[s], FALSE, "online"),
                                                  ReadMessages(s)>>]
    /\ Move(s, "find", "messages")
    /\ room' = IF Open(s) THEN room \cup {s} ELSE room
    /\ Owed(s)
    /\ UNCHANGED <<sock, list, read, redis, bus, client, cut, doubled, lapsed, dropped>>

\* ... a closed socket joins as well.
FoundAnyway(n) ==
    LET s == Head(store[n]).socket  u == Owner[s] IN
    /\ store[n] # <<>> /\ Head(store[n]).op = "find"
    /\ store' = [store EXCEPT ![n] = Tail(@) \o
                    <<Save(u, ~session[u].uid, "online"), ReadMessages(s)>>]
    /\ Move(s, "find", "messages")
    /\ room' = room \cup {s}
    /\ Owed(s)
    /\ UNCHANGED <<sock, list, read, redis, bus, client, cut, doubled, lapsed, dropped>>

\* createRedisSession's findSession; what follows without waiting: the save,
\* the room for direct messages, the query for messages.
Found(n) ==
    LET s == Head(store[n]).socket  u == Owner[s] IN
    /\ store[n] # <<>> /\ Head(store[n]).op = "find"
    /\ store' = [store EXCEPT ![n] = Tail(@) \o
                    <<Save(u, ~session[u].uid, "online"), ReadMessages(s)>>]
    /\ Move(s, "find", "messages")
    /\ room' = IF Open(s) THEN room \cup {s} ELSE room
    /\ Owed(s)
    /\ UNCHANGED <<sock, list, read, redis, bus, client, cut, doubled, lapsed, dropped>>

\* One of the reads of onConnection fails.
ReadFails(n) ==
    LET s == Head(store[n]).socket IN
    /\ \/ Take(n, "find") /\ Move(s, "find", "failed")
       \/ Take(n, "messages") /\ Move(s, "messages", "failed")
       \/ Take(n, "friend") /\ Move(s, "sync", "failed")
    /\ GivesUp(s)

MessagesRead(n) ==
    LET s == Head(store[n]).socket IN
    /\ Take(n, "messages")
    /\ Move(s, "messages", "friends")
    /\ read' = [read EXCEPT ![s] = kept[Owner[s]]]
    /\ UNCHANGED <<sock, room, list, redis, bus, client, tracks>>

\* The next turn of the loop, or its end.
FriendRead(n) ==
    LET i == Head(store[n])  s == i.socket
        l == [list[s] EXCEPT ![i.user] = StatusOf(i.user)] IN
    /\ store[n] # <<>> /\ i.op = "friend"
    /\ IF Unread(s, l) = {}
       THEN Finish(s, l) /\ store' = [store EXCEPT ![n] = Tail(@)]
       ELSE /\ \E v \in Unread(s, l) :
                 store' = [store EXCEPT ![n] = Append(Tail(@), FindFriend(s, v))]
            /\ list' = [list EXCEPT ![s] = l]
            /\ UNCHANGED <<pc, read, bus, client>>
    /\ UNCHANGED <<sock, room, redis, tracks>>

Kept(ms, us) == [u \in Users |-> IF u \in us THEN kept[u] \cup ms ELSE kept[u]]

\* Mutant of MessageKept: only the sender's list gets it.
MessageKeptOnce(n) ==
    LET m == Head(store[n]).message IN
    /\ Take(n, "keep")
    /\ kept' = Kept({m}, {msg[m].from})
    /\ UNCHANGED <<live, session, msg, bus, client, tracks>>

\* saveMessage
MessageKept(n) ==
    LET m == Head(store[n]).message IN
    /\ Take(n, "keep")
    /\ kept' = Kept({m}, {msg[m].from, msg[m].to})
    /\ UNCHANGED <<live, session, msg, bus, client, tracks>>

\* 24 hours without a save (SESSION_TTL).
Expire(u) ==
    /\ u \in Forgotten \ (lapsed \cup dropped)
    /\ session[u] # NoSession
    /\ session' = [session EXCEPT ![u] = NoSession]
    /\ lapsed' = lapsed \cup {u}
    /\ UNCHANGED <<live, kept, msg, store, bus, client, cut, doubled, dropped, due>>

\* 24 hours without a message from or to u (CONVERSATION_TTL).  Who has not
\* read them yet is owed them no longer.
ExpireMessages(u) ==
    /\ u \in Forgotten \ (lapsed \cup dropped)
    /\ kept[u] # {}
    /\ kept' = [kept EXCEPT ![u] = {}]
    /\ dropped' = dropped \cup {u}
    /\ due' = [s \in Sockets |-> IF Owner[s] = u /\ pc[s] = "messages"
                                 THEN due[s] \ kept[u] ELSE due[s]]
    /\ UNCHANGED <<live, session, msg, store, bus, client, cut, doubled, lapsed>>

\* The process ends: its commands are lost, what it has published is not.
Crash(n) ==
    LET here == {s \in Sockets : NodeOf[s] = n} IN
    /\ n \in Mortal
    /\ \E s \in here : Open(s)
    /\ sock' = [s \in Sockets |-> IF s \in here THEN "closed" ELSE sock[s]]
    /\ cut' = [s \in Sockets |-> IF s \in here /\ sock[s] # "new" THEN "crash" ELSE cut[s]]
    /\ pc' = [s \in Sockets |-> IF s \in here THEN "done" ELSE pc[s]]
    /\ room' = room \ here
    /\ store' = [store EXCEPT ![n] = <<>>]
    /\ bus' = [bus EXCEPT ![n] = <<>>]
    /\ list' = [s \in Sockets |-> IF s \in here THEN Nothing ELSE list[s]]
    /\ told' = [s \in Sockets |-> IF s \in here THEN Nothing ELSE told[s]]
    /\ got' = [s \in Sockets |-> got[s] \ IF s \in here THEN Messages ELSE {}]
    /\ due' = [s \in Sockets |-> due[s] \ IF s \in here THEN Messages ELSE {}]
    /\ read' = [s \in Sockets |-> read[s] \ IF s \in here THEN Messages ELSE {}]
    /\ UNCHANGED <<redis, doubled, lapsed, dropped>>

------------------------------------------------------------------------------
Connecting == {"verify", "nickname", "find", "messages", "friends", "sync"}

\* A user is in motion while something of its coming or going is on its way.
InMotion(u) ==
    \/ \E s \in SocketsOf(u) : pc[s] \in Connecting
    \/ \E n \in Nodes : \E k \in DOMAIN store[n] :
          store[n][k].op = "save" /\ store[n][k].user = u
    \/ \E n \in Nodes : \E k \in DOMAIN bus[n] :
          bus[n][k].on = "status" /\ bus[n][k].user = u

Track == unsettled' = [s \in Sockets |->
    IF sock'[s] # "open" THEN {}
    ELSE IF pc'[s] \in Connecting
         THEN unsettled[s] \cup {v \in FriendsOf(Owner[s]) : InMotion(v)'}
         ELSE unsettled[s]]

Init ==
    /\ sock = [s \in Sockets |-> "new"] /\ pc = sock
    /\ room = {}
    /\ list = [s \in Sockets |-> Nothing] /\ told = list
    /\ read = [s \in Sockets |-> {}] /\ got = read /\ due = read /\ unsettled = read
    /\ session = [u \in Users |-> NoSession]
    /\ kept = [u \in Users |-> {}]
    /\ store = [n \in Nodes |-> <<>>] /\ bus = store
    /\ msg = [m \in Messages |-> [from |-> None, to |-> None]]
    /\ cut = [s \in Sockets |-> "no"]
    /\ doubled = {} /\ lapsed = {} /\ dropped = {}

Client(s) ==
    \/ Connect(s) \/ ConnectionFails(s) \/ VerifyToken(s) \/ NicknameFound(s)
    \/ FriendsFound(s) \/ Disconnect(s)
    \/ \E v \in Users, m \in Messages : SendMessage(s, v, m)

Redis(n) ==
    \/ Saved(n) \/ Found(n) \/ MessagesRead(n) \/ FriendRead(n)
    \/ ReadFails(n) \/ MessageKept(n)

Step ==
    \/ \E s \in Sockets : Client(s)
    \/ \E n \in Nodes : Redis(n) \/ Arrive(n) \/ Crash(n)
    \/ \E u \in Users : Expire(u) \/ ExpireMessages(u)

Next == Step /\ Track
Spec == Init /\ [][Next]_vars

------------------------------------------------------------------------------
\* The variables stay in their types; the rooms for direct messages hold
\* open sockets only.
TypeOK ==
    /\ sock \in [Sockets -> {"new", "open", "closed"}]
    /\ pc \in [Sockets -> {"new", "done", "refused", "failed"} \cup Connecting]
    /\ session \in [Users -> [uid: BOOLEAN, connection: Statuses \cup {None}]]
    /\ kept \in [Users -> SUBSET Messages]
    /\ list \in [Sockets -> [Users -> Statuses \cup {None}]]
    /\ told \in [Sockets -> [Users -> Statuses \cup {None}]]
    /\ read \in [Sockets -> SUBSET Messages] /\ got \in [Sockets -> SUBSET Messages]
    /\ msg \in [Messages -> [from: Users \cup {None}, to: Users \cup {None}]]
    /\ \A s \in room : Open(s) /\ Known(s)

OneNode(u) == \A s, t \in SocketsOf(u) :
                  sock[s] # "new" /\ sock[t] # "new" => NodeOf[s] = NodeOf[t]

\* When nothing of the user is on its way, a session says online only if an
\* open socket has entered, unless one closed before its handler had saved
\* "online" (which then comes after the "offline") or its node crashed.
OnlineHasSocket ==
    \A u \in Users :
        ~InMotion(u) /\ session[u].connection = "online" =>
            \E s \in SocketsOf(u) : s \in room \/ cut[s] \in {"early", "crash"}

\* A user who has entered, even if the connection failed after that, is stored
\* as online if it has never had two sockets, its sockets have been on one
\* node, and its session has not expired meanwhile.
SocketIsOnline ==
    \A s \in room : LET u == Owner[s] IN
        ~InMotion(u) /\ u \notin doubled \cup lapsed /\ OneNode(u)
            => session[u] = [uid |-> TRUE, connection |-> "online"]

AtRest == \A u \in Users : ~InMotion(u)
\* Users whose comings and goings have been regular.
Regular(u) == /\ u \notin doubled \cup lapsed /\ OneNode(u)
              /\ \A s \in SocketsOf(u) : cut[s] = "no"

\* What a client is told of a friend is in the end what is so, although the
\* list, the events and the sessions come in any order: unless the friend was
\* coming or going while the client connected.  A friend whose connection
\* failed after it had entered is shown either way: nobody was told, but a
\* list that is read later says online.
ToldRight ==
    \A s \in Sockets : \A v \in FriendsOf(Owner[s]) :
        AtRest /\ Open(s) /\ pc[s] = "done" /\ Regular(v) /\ v \notin unsettled[s]
            => IF told[s][v] = "online" THEN \E t \in SocketsOf(v) : t \in room
               ELSE \A t \in SocketsOf(v) : ~(Open(t) /\ pc[t] = "done")

\* A client ends up with the messages that had been stored when it entered its
\* room and those sent since, on whatever node, unless they have expired
\* before it could read them.
NoMessageMissed ==
    \A s \in Sockets :
        Open(s) /\ pc[s] = "done" /\ bus[NodeOf[s]] = <<>> => due[s] \subseteq got[s]
==============================================================================
