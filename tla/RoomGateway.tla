----------------------------- MODULE RoomGateway -----------------------------
(***************************************************************************)
(* The study rooms of the realtime gateway: who is in a room, the member   *)
(* count kept in the `room` table, and the handlers that change the two.   *)
(* A handler runs on one node process and gives up control at every await; *)
(* between two awaits it is atomic.  `call` holds one record per handler   *)
(* in flight, its `pc` the await it is suspended on:                       *)
(*                                                                         *)
(*   guard     WsJwtGuard, before the handler                              *)
(*   lookup    join: getRoomData                                           *)
(*   verify    join: password check of a private room                      *)
(*   modcheck  kick: isRoomModerator                                       *)
(*   find      kick: fetchSockets, looking for the target                  *)
(*   fetch     fetchSockets, for the member count                          *)
(*   write     join: has entered, its count not yet in the table           *)
(*   evict     kick: its handler is over, its REMOTE_LEAVE still travels   *)
(*   count     delete: getRoomCurrentMembersCount                          *)
(*   delete    delete: the row's removal                                   *)
(***************************************************************************)
EXTENDS Integers, FiniteSets

CONSTANTS
    Sockets,    \* client connections, each used once
    Users,
    Rooms,      \* room ids
    Nodes,      \* processes sharing the database and the Redis adapter
    Calls,      \* bound: handlers that can be in flight together
    None,
    Owner,      \* the user a socket belongs to
    NodeOf,     \* the node a socket is connected to
    Moderator,  \* room.moderatorId
    Total,      \* room.total
    Private,    \* the rooms with a password
    UidRoom,    \* the room id that equals a user's uid, if there is one
    MayCrash    \* bound: nodes that can die of a cause outside this model

ASSUME CallsAssumption == IsFiniteSet(Calls) /\ Calls # {}
ASSUME SocketsAssumption == IsFiniteSet(Sockets)
ASSUME NoneAssumption == None \notin Sockets \cup Rooms \cup Nodes
ASSUME LayoutAssumption == /\ Owner \in [Sockets -> Users]
                           /\ NodeOf \in [Sockets -> Nodes]
                           /\ Moderator \in [Rooms -> Users]
                           /\ Total \in [Rooms -> 2 .. 4]     \* CreateRoomDTO
                           /\ UidRoom \in [Users -> Rooms \cup {None}]
                           /\ Private \subseteq Rooms
                           /\ MayCrash \subseteq Nodes

VARIABLES
    stage,      \* how far onConnection has come for each socket
    joined,     \* the adapters' room membership, of all nodes
    table,      \* whether a room's row exists
    current,    \* room.current
    call        \* the handlers in flight

vars == <<stage, joined, table, current, call>>

Live == {"open", "tuned", "hooked"}
On(n) == {s \in Sockets : NodeOf[s] = n}

Idle == [op |-> "none", pc |-> "idle", sock |-> None, node |-> None,
         room |-> None, target |-> None, seen |-> {}, pending |-> {}]

Request(op, s, r, t) ==
    [op |-> op, pc |-> "guard", sock |-> s, node |-> NodeOf[s], room |-> r,
     target |-> t, seen |-> {}, pending |-> {}]

\* fetchSockets by k when its room holds `members`: k's own node is read at
\* once, before the await; every other node is asked.
Fetching(k, pc, members) ==
    [k EXCEPT !.pc = pc, !.seen = members \cap On(k.node),
              !.pending = Nodes \ {k.node}]

Fetched(k, pc) == k.pc = pc /\ k.pending = {}

\* k has the number it will write; only a join has work before the write.
Counted(k) == \/ k.op = "join" /\ k.pc = "write"
              \/ k.op \in {"leave", "kick", "disc"} /\ Fetched(k, "fetch")

\* Mutant of Delta: every way of leaving subtracts the leaver, although the
\* snapshot of a leave or a kick no longer contains it.
DeltaForEveryLeaver(op) == IF op = "join" THEN 1 ELSE -1

Delta(op) == CASE op = "join" -> 1 [] op = "disc" -> -1 [] OTHER -> 0
Written(k) == Cardinality(k.seen) + Delta(k.op)

\* k's REMOTE_LEAVE is published and its target's node has not handled it.
Evicting(k) == k.op = "kick" /\ k.pc \in {"fetch", "evict"} /\ k.target # None

LocalMembers(r, n) == joined[r] \cap On(n)

\* updateRoomInfoByDelta never leaves a negative count behind.
AtLeastZero(i) == IF i < 0 THEN 0 ELSE i

------------------------------------------------------------------------------
\* A node dies and is restarted empty.  Its handlers are lost; handlers
\* elsewhere that waited for its answer wait for one that cannot come (None).
\* A REMOTE_LEAVE already published is still delivered if the process died of
\* an exception, and may be lost if its host did (`survivors`).

AfterCrash(k, n, survives) ==
    IF k.node = n
    THEN IF survives THEN [k EXCEPT !.pc = "evict", !.seen = {}, !.pending = {}]
                     ELSE Idle
    ELSE IF Evicting(k) /\ NodeOf[k.target] = n
    THEN IF k.pc = "evict" THEN Idle
         ELSE [k EXCEPT !.target = None, !.pending = (@ \ {n}) \cup {None}]
    ELSE IF n \in k.pending THEN [k EXCEPT !.pending = (@ \ {n}) \cup {None}]
    ELSE k

InTransit(n) == {c \in Calls : /\ call[c].node = n
                               /\ Evicting(call[c])
                               /\ NodeOf[call[c].target] # n}

Die(n, survivors) ==
    /\ stage' = [s \in Sockets |-> IF NodeOf[s] = n /\ stage[s] \in Live
                                   THEN "gone" ELSE stage[s]]
    /\ joined' = [r \in Rooms |-> joined[r] \ On(n)]
    /\ call' = [c \in Calls |-> AfterCrash(call[c], n, c \in survivors)]
    /\ UNCHANGED <<table, current>>

Crash(n) == n \in MayCrash /\ \E survivors \in SUBSET InTransit(n) : Die(n, survivors)

------------------------------------------------------------------------------
\* Connection.  Requests are served from the moment the socket is open, the
\* 'disconnecting' handler only runs if it was attached by then.

Connect(s) ==
    /\ stage[s] = "new"
    /\ stage' = [stage EXCEPT ![s] = "open"]
    /\ UNCHANGED <<joined, table, current, call>>

\* client.join(uid.toString())
TuneUid(s) ==
    /\ stage[s] = "open"
    /\ stage' = [stage EXCEPT ![s] = "tuned"]
    /\ joined' = [r \in Rooms |-> IF r = UidRoom[Owner[s]]
                                  THEN joined[r] \cup {s} ELSE joined[r]]
    /\ UNCHANGED <<table, current, call>>

\* From "open" when an earlier step of onConnection threw.
Hook(s) ==
    /\ stage[s] \in {"open", "tuned"}
    /\ stage' = [stage EXCEPT ![s] = "hooked"]
    /\ UNCHANGED <<joined, table, current, call>>

RoomsToSettle(s) == IF stage[s] = "hooked"
                    THEN {r \in Rooms : s \in joined[r]} \ {UidRoom[Owner[s]]}
                    ELSE {}

\* The handler starts one count per room, while the socket is still in it,
\* then socket.io takes the socket out of every room.  slot[c] is the room
\* whose count c runs.
Disconnect(s) ==
    /\ stage[s] \in Live
    /\ \E slot \in [Calls -> RoomsToSettle(s) \cup {None}] :
        /\ \A c \in Calls : slot[c] # None => call[c] = Idle
        /\ \A r \in RoomsToSettle(s) : \E c \in Calls : slot[c] = r
        /\ \A c, d \in Calls : slot[c] = slot[d] /\ slot[c] # None => c = d
        /\ call' = [c \in Calls |->
                      IF slot[c] = None THEN call[c]
                      ELSE Fetching(Request("disc", s, slot[c], None),
                                    "fetch", joined[slot[c]])]
    /\ stage' = [stage EXCEPT ![s] = "gone"]
    /\ joined' = [r \in Rooms |-> joined[r] \ {s}]
    /\ UNCHANGED <<table, current>>

------------------------------------------------------------------------------
\* Requests.  A client asks about rooms that exist or have existed.

Ask(c, op, s, r, t) ==
    /\ call[c] = Idle
    /\ stage[s] \in Live
    /\ table[r] # "unborn"
    /\ call' = [call EXCEPT ![c] = Request(op, s, r, t)]
    /\ UNCHANGED <<stage, joined, table, current>>

AskJoin(c, s, r) == Ask(c, "join", s, r, None)
AskLeave(c, s, r) == Ask(c, "leave", s, r, None)
AskKick(c, s, r, t) == stage[t] # "new" /\ Ask(c, "kick", s, r, t)

\* The handler ends with an exception event: a rejected token, a failed check.
\* The payload of a kick has a uid besides the target's sid, and nothing ties
\* the two: any kick can be refused for naming the kicker's uid.
Refusable(k) ==
    \/ k.pc = "guard"
    \/ /\ k.pc = "lookup"
       /\ \/ table[k.room] # "open"
          \/ Cardinality(LocalMembers(k.room, k.node)) >= Total[k.room]
    \/ k.pc = "verify"
    \/ /\ k.pc = "modcheck"
       /\ \/ table[k.room] # "open"
          \/ Moderator[k.room] # Owner[k.sock]
    \/ Fetched(k, "find")

Refuse(c) ==
    /\ Refusable(call[c])
    /\ call' = [call EXCEPT ![c] = Idle]
    /\ UNCHANGED <<stage, joined, table, current>>

------------------------------------------------------------------------------
\* onJoinRoom

JoinStart(c) ==
    LET k == call[c] IN
    /\ k.op = "join" /\ k.pc = "guard"
    /\ k.sock \notin joined[k.room]
    /\ call' = [call EXCEPT ![c].pc = "lookup"]
    /\ UNCHANGED <<stage, joined, table, current>>

\* The capacity check sees the members on the handler's own node only.
\* Mutant of JoinAdmit: one member too many passes.
JoinAdmitOneMore(c) ==
    LET k == call[c] IN
    /\ k.pc = "lookup"
    /\ table[k.room] = "open"
    /\ Cardinality(LocalMembers(k.room, k.node)) <= Total[k.room]
    /\ call' = [call EXCEPT ![c] =
                  IF k.room \in Private THEN [k EXCEPT !.pc = "verify"]
                  ELSE Fetching(k, "fetch", joined[k.room])]
    /\ UNCHANGED <<stage, joined, table, current>>

JoinAdmit(c) ==
    LET k == call[c] IN
    /\ k.pc = "lookup"
    /\ table[k.room] = "open"
    /\ Cardinality(LocalMembers(k.room, k.node)) < Total[k.room]
    /\ call' = [call EXCEPT ![c] =
                  IF k.room \in Private THEN [k EXCEPT !.pc = "verify"]
                  ELSE Fetching(k, "fetch", joined[k.room])]
    /\ UNCHANGED <<stage, joined, table, current>>

JoinPassword(c) ==
    /\ call[c].pc = "verify"
    /\ call' = [call EXCEPT ![c] =
                  Fetching(call[c], "fetch", joined[call[c].room])]
    /\ UNCHANGED <<stage, joined, table, current>>

\* Mutant of JoinEnter: a socket that is gone is still put into the room.
JoinEnterAnyway(c) ==
    LET k == call[c] IN
    /\ k.op = "join" /\ Fetched(k, "fetch")
    /\ joined' = [joined EXCEPT ![k.room] = @ \cup {k.sock}]
    /\ call' = [call EXCEPT ![c].pc = "write"]
    /\ UNCHANGED <<stage, table, current>>

\* A socket that has disconnected no longer joins anything; the handler
\* carries on all the same.
JoinEnter(c) ==
    LET k == call[c] IN
    /\ k.op = "join" /\ Fetched(k, "fetch")
    /\ joined' = IF stage[k.sock] \in Live
                 THEN [joined EXCEPT ![k.room] = @ \cup {k.sock}] ELSE joined
    /\ call' = [call EXCEPT ![c].pc = "write"]
    /\ UNCHANGED <<stage, table, current>>

------------------------------------------------------------------------------
\* onLeaveRoom

LeaveStart(c) ==
    LET k == call[c] IN
    /\ k.op = "leave" /\ k.pc = "guard"
    /\ joined' = [joined EXCEPT ![k.room] = @ \ {k.sock}]
    /\ call' = [call EXCEPT ![c] = Fetching(k, "fetch", joined'[k.room])]
    /\ UNCHANGED <<stage, table, current>>

------------------------------------------------------------------------------
\* onKickUser

KickStart(c) ==
    LET k == call[c] IN
    /\ k.op = "kick" /\ k.pc = "guard"
    /\ k.sock \in joined[k.room]
    /\ call' = [call EXCEPT ![c].pc = "modcheck"]
    /\ UNCHANGED <<stage, joined, table, current>>

\* Mutant of KickAuthorised: any member may kick.
KickAuthorisedByAnyone(c) ==
    LET k == call[c] IN
    /\ k.pc = "modcheck"
    /\ table[k.room] = "open"
    /\ call' = [call EXCEPT ![c] = Fetching(k, "find", joined[k.room])]
    /\ UNCHANGED <<stage, joined, table, current>>

KickAuthorised(c) ==
    LET k == call[c] IN
    /\ k.pc = "modcheck"
    /\ table[k.room] = "open"
    /\ Moderator[k.room] = Owner[k.sock]
    /\ call' = [call EXCEPT ![c] = Fetching(k, "find", joined[k.room])]
    /\ UNCHANGED <<stage, joined, table, current>>

\* A target on this node leaves at once; for a target elsewhere REMOTE_LEAVE
\* is published, ahead of the count's own request on the same channel.
KickEvict(c) ==
    LET k == call[c] IN
    /\ Fetched(k, "find")
    /\ k.target \in k.seen \ {k.sock}
    /\ IF NodeOf[k.target] = k.node
       THEN /\ joined' = [joined EXCEPT ![k.room] = @ \ {k.target}]
            /\ call' = [call EXCEPT ![c] =
                          Fetching([k EXCEPT !.target = None], "fetch",
                                   joined'[k.room])]
       ELSE /\ joined' = joined
            /\ call' = [call EXCEPT ![c] = Fetching(k, "fetch", joined[k.room])]
    /\ UNCHANGED <<stage, table, current>>

\* The target's node handles REMOTE_LEAVE.
RemoteLeave(c) ==
    LET k == call[c] IN
    /\ Evicting(k)
    /\ joined' = [joined EXCEPT ![k.room] = @ \ {k.target}]
    /\ call' = [call EXCEPT ![c] = IF k.pc = "evict" THEN Idle
                                   ELSE [k EXCEPT !.target = None]]
    /\ UNCHANGED <<stage, table, current>>

------------------------------------------------------------------------------
\* fetchSockets across the nodes, and the count that follows.

\* Mutant of FetchReply: the count's request may overtake REMOTE_LEAVE.
FetchReplyUnordered(c, n) ==
    LET k == call[c] IN
    /\ n \in k.pending
    /\ call' = [call EXCEPT ![c].seen = @ \cup LocalMembers(k.room, n),
                            ![c].pending = @ \ {n}]
    /\ UNCHANGED <<stage, joined, table, current>>

\* Node n handles the request; Redis keeps the channel's order, so an earlier
\* REMOTE_LEAVE of the same handler comes first.
FetchReply(c, n) ==
    LET k == call[c] IN
    /\ n \in k.pending
    /\ ~(Evicting(k) /\ NodeOf[k.target] = n)
    /\ call' = [call EXCEPT ![c].seen = @ \cup LocalMembers(k.room, n),
                            ![c].pending = @ \ {n}]
    /\ UNCHANGED <<stage, joined, table, current>>

\* Mutant of FetchTimeout: the request has no timer, so an answer that was
\* lost with its node is waited for forever.
FetchTimeoutNever(c) == call[c].pc = "idle" /\ call[c].pending # {} /\ UNCHANGED vars

\* Mutant of FetchTimeout: a kick whose count fails takes its REMOTE_LEAVE back.
FetchTimeoutUndoes(c) ==
    LET k == call[c] IN
    /\ k.pending # {}
    /\ IF k.op = "disc" THEN Die(k.node, InTransit(k.node))
       ELSE /\ call' = [call EXCEPT ![c] = Idle]
            /\ UNCHANGED <<stage, joined, table, current>>

\* The adapter rejects the fetch after five seconds.  In onDisconnecting the
\* rejection is handled by nobody, which ends the process.
FetchTimeout(c) ==
    LET k == call[c] IN
    /\ k.pending # {}
    /\ IF k.op = "disc" THEN Die(k.node, InTransit(k.node))
       ELSE /\ call' = [call EXCEPT ![c] =
                          IF Evicting(k)
                          THEN [k EXCEPT !.pc = "evict", !.seen = {},
                                         !.pending = {}]
                          ELSE Idle]
            /\ UNCHANGED <<stage, joined, table, current>>

\* Mutant of WriteCount: the count is decremented with no guard.
WriteCountUnguarded(c) ==
    LET k == call[c] IN
    /\ Counted(k)
    /\ table[k.room] = "open"
    /\ current' = [current EXCEPT ![k.room] =
                     IF k.op = "join" THEN Written(k)
                     ELSE Cardinality(k.seen) - 1]
    /\ call' = [call EXCEPT ![c] = Idle]
    /\ UNCHANGED <<stage, joined, table>>

WriteCount(c) ==
    LET k == call[c] IN
    /\ Counted(k)
    /\ table[k.room] = "open"
    /\ current' = [current EXCEPT ![k.room] = AtLeastZero(Written(k))]
    /\ call' = [call EXCEPT ![c] = Idle]
    /\ UNCHANGED <<stage, joined, table>>

\* The row is gone: Prisma rejects the update.
WriteMissing(c) ==
    LET k == call[c] IN
    /\ Counted(k)
    /\ table[k.room] # "open"
    /\ IF k.op = "disc" THEN Die(k.node, InTransit(k.node))
       ELSE /\ call' = [call EXCEPT ![c] = Idle]
            /\ UNCHANGED <<stage, joined, table, current>>

------------------------------------------------------------------------------
\* RoomsService: a room is created, and deleted by its moderator when its
\* count says it is empty.

CreateRoom(r) ==
    /\ table[r] = "unborn"
    /\ table' = [table EXCEPT ![r] = "open"]
    /\ current' = [current EXCEPT ![r] = 0]
    /\ UNCHANGED <<stage, joined, call>>

\* canDeleteRoom, up to the moderator check.
DeleteAsk(c, r, n) ==
    /\ call[c] = Idle
    /\ table[r] = "open"
    /\ call' = [call EXCEPT ![c] = [Idle EXCEPT !.op = "delete", !.pc = "count",
                                                !.room = r, !.node = n]]
    /\ UNCHANGED <<stage, joined, table, current>>

DeleteCheck(c) ==
    LET k == call[c] IN
    /\ k.pc = "count"
    /\ call' = [call EXCEPT ![c] =
                  IF table[k.room] = "open" /\ ~(current[k.room] > 0)
                  THEN [k EXCEPT !.pc = "delete"] ELSE Idle]
    /\ UNCHANGED <<stage, joined, table, current>>

DeleteRow(c) ==
    /\ call[c].pc = "delete"
    /\ table' = [table EXCEPT ![call[c].room] = "deleted"]
    /\ call' = [call EXCEPT ![c] = Idle]
    /\ UNCHANGED <<stage, joined, current>>

------------------------------------------------------------------------------
Init ==
    /\ stage = [s \in Sockets |-> "new"]
    /\ joined = [r \in Rooms |-> {}]
    /\ table = [r \in Rooms |-> "unborn"]
    /\ current = [r \in Rooms |-> 0]
    /\ call = [c \in Calls |-> Idle]

\* What the server does about call c without further input.
Progress(c) ==
    \/ Refuse(c)
    \/ JoinStart(c) \/ JoinAdmit(c) \/ JoinPassword(c) \/ JoinEnter(c)
    \/ LeaveStart(c)
    \/ KickStart(c) \/ KickAuthorised(c) \/ KickEvict(c) \/ RemoteLeave(c)
    \/ \E n \in Nodes : FetchReply(c, n)
    \/ FetchTimeout(c)
    \/ WriteCount(c) \/ WriteMissing(c)
    \/ DeleteCheck(c) \/ DeleteRow(c)

Client(s) ==
    \/ Connect(s) \/ TuneUid(s) \/ Hook(s) \/ Disconnect(s)
    \/ \E c \in Calls, r \in Rooms : AskJoin(c, s, r) \/ AskLeave(c, s, r)
    \/ \E c \in Calls, r \in Rooms, t \in Sockets : AskKick(c, s, r, t)

Next ==
    \/ \E c \in Calls : Progress(c)
    \/ \E s \in Sockets : Client(s)
    \/ \E r \in Rooms : CreateRoom(r)
    \/ \E c \in Calls, r \in Rooms, n \in Nodes : DeleteAsk(c, r, n)
    \/ \E n \in Nodes : Crash(n)

Spec == Init /\ [][Next]_vars

\* Every await of a handler settles: Postgres and Redis answer, the adapter's
\* fetch has a timer, and the event loop runs what is ready.  Nothing obliges
\* a client to ask, an operator to delete or a node to crash.
FairSpec == Spec /\ \A c \in Calls : WF_vars(Progress(c))

------------------------------------------------------------------------------
(***************************************************************************)
(* Properties.                                                             *)
(***************************************************************************)
CallRecord == [op: {"none", "join", "leave", "kick", "disc", "delete"},
               pc: {"idle", "guard", "lookup", "verify", "modcheck", "find",
                    "fetch", "write", "evict", "count", "delete"},
               sock: Sockets \cup {None}, node: Nodes \cup {None},
               room: Rooms \cup {None}, target: Sockets \cup {None},
               seen: SUBSET Sockets, pending: SUBSET (Nodes \cup {None})]

\* The variables stay in their types.
TypeOK ==
    /\ stage \in [Sockets -> Live \cup {"new", "gone"}]
    /\ joined \in [Rooms -> SUBSET Sockets]
    /\ table \in [Rooms -> {"unborn", "open", "deleted"}]
    /\ current \in [Rooms -> Nat]
    /\ call \in [Calls -> CallRecord]

\* Only connected sockets are members: no handler that outlives its client
\* puts a dead socket back into a room.
NoZombies == \A r \in Rooms : \A s \in joined[r] : stage[s] \in Live

\* The guard against a negative room.current is never needed: a handler that
\* subtracts the leaver has the leaver in its count.
ClampNeverNeeded == \A c \in Calls : Counted(call[c]) => Written(call[c]) >= 0

\* A member leaves a room by disconnecting, by asking to, or because another
\* socket, one of the room's moderator, kicked it.  (What is checked against
\* the moderator is the uid in the payload, not the owner of the target: another
\* socket of the moderator can be kicked.)
OnlyModeratorEvicts ==
    [][\A r \in Rooms : \A s \in joined[r] \ joined'[r] :
          \/ stage'[s] = "gone"
          \/ \E c \in Calls : /\ call[c].op = "leave" /\ call[c].pc = "guard"
                              /\ call[c].sock = s /\ call[c].room = r
          \/ \E c \in Calls : /\ call[c].op = "kick" /\ call[c].target = s
                              /\ call[c].room = r
                              /\ Owner[call[c].sock] = Moderator[r]
                              /\ call[c].sock # s]_vars

\* Every handler comes to an end, whatever clients do, also when a node it
\* waits for dies under it.
HandlersFinish == \A c \in Calls : []<>(call[c].pc = "idle")

\* A kick that was let through does remove its target from the room, also
\* when the count that follows it fails or the kicking node exits on an
\* unhandled rejection.
KickTakesEffect ==
    \A r \in Rooms, s \in Sockets :
        (\E c \in Calls : /\ Evicting(call[c]) /\ call[c].node \notin MayCrash
                          /\ call[c].target = s /\ call[c].room = r)
        ~> s \notin joined[r]

------------------------------------------------------------------------------
\* What the repository says of rooms and the code does not keep.

Quiet(r) == \A c \in Calls : call[c].room # r

\* "The current number of users in the room"
CurrentIsMembers == \A r \in Rooms : table[r] = "open" /\ Quiet(r) =>
                                     current[r] = Cardinality(joined[r])
==============================================================================
