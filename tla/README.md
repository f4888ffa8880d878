# Verification of the modoco backend

modoco is a service for studying together in video rooms: a NestJS server
(REST over Postgres through Prisma, realtime over socket.io) that runs as
several node processes behind a load balancer. The processes share the
database, a Redis used as a store, and a Redis used as a message bus by the
socket.io adapter. Nothing is locked and nothing is transactional beyond a
single statement, so the correctness of the server is a matter of what may
happen between two awaits. That is what these modules are about.

## Inventory

| Component | State | Operations | Interacts with |
|---|---|---|---|
| Room gateway (`gateways/room.gateway*.ts`, `gateways/helper`) | socket.io rooms of each process, `client.data`, handlers suspended on awaits | connect, joinRoom, canJoinRoom, leaveRoom, kickUser, disconnecting, relays (chat, offer, answer, candidate, media state) | rooms table, Redis adapter, session and message stores, friends |
| Rooms service (`rooms/`) | table `rooms` (`current`, `total`, `moderatorId`, `hash`) | create, list, delete | the gateway writes `current` behind its back |
| Redis adapter (`adapters/`) | table of pending requests per process | fetchSockets, sockets, allRooms, remote join, leave and disconnect, serverSideEmit, broadcast with acks | the other processes, over two Redis channels |
| Friendships (`friends/`) | table `friendships`, key (from, to) | add, accept, delete, five queries | users (cascade), presence |
| Presence and messages (`gateways/class`, steps 3 to 9 of `onConnection`, `onDisconnect`, `onDirectMessage`) | `session:<uid>` and `messages:<uid>` in Redis, 24 h to live | connect, disconnect, direct message | friendships, broadcasts |
| Records (`records/`) | table `records` | recordTime, list, delete all | users (cascade), the gateway's recordTime event |
| Users (`users/`), login (`auth/`, `session/`) | table `users` | signup, verification, update, delete; login with a password, GitHub, Google, Kakao | every table above, e-mail |
| Shutdown (`services/shutdown.service.ts`, `app.service.ts`, `main.ts`) | `AppService.active`, a cron job, the process itself | boot, lifecycle check, shutdown | AWS auto scaling, health check, clients of the room gateway, whoever starts the process |
| Lobby and playlist gateways | socket.io rooms | join, leave, relay | adapter |
| E-mail, configuration, DTOs | none | | |

What is hard: handlers of many clients interleave at every await; a client may
disconnect while its handler is suspended; the count in the table is computed
from snapshots taken on several processes at different times; a process may
die, by itself or because a rejected promise is handled by nobody (Node 16, see
`.nvmrc`; not under a process manager that listens for such rejections), and
with it its sockets and handlers, but not the messages it has published;
answers of other processes may never come; an instance is taken out of service
while its clients are connected. `PROJECT.json` lists the single hazards with
their lines.

What makes each component correct:

- rooms: only connected sockets are members; a member is removed only by
  itself, its disconnection or the moderator; the table's count equals the
  number of members; no more members than `total`; every handler ends; members
  are shown each other and nobody else;
- adapter: a request is settled once, by all answers or by its timer, and its
  result holds each process's sockets once;
- friendships: at most one row per pair of users, accepted only by the receiver
  of the request, gone after a deletion that was not overtaken;
- presence: a user with a connected socket is online, one without is not;
- records: at most one row per user, and its duration grows with the time that
  passes (a minute is added when 55 seconds are over);
- users: a deleted user leaves nothing behind;
- shutdown: the room gateway's clients are told before the instance goes, the
  lifecycle action is completed once, and an instance that is to go does go.

## Modules

| Module | Models |
|---|---|
| `RoomGateway` | rooms of the gateway with the rooms table, on several nodes |
| `RoomCount` | the same with the history of what made the member count wrong |
| `RoomSeats` | the same with the history of which joins have overlapped |
| `RoomEvents` | the same with the events that show members of a room each other |
| `Accounts` | the users table: signup, verification, OAuth, update |
| `Friendship` | extends `Accounts` by the friendships table and the deletion of users |
| `Gather` | abstract: what a request over all nodes returns |
| `RedisAdapter` | the adapter's requests, packets and answers; implements `Gather` |
| `Records` | the records table |
| `Presence` | sessions, friend lists, the events about them, direct messages |
| `Lobby` | the lobby's members and what clients are shown of them |
| `Shutdown` | the end of an auto scaling instance: cron job, health check, process, AWS |
| `MCRooms`, `MCRoomCount`, `MCRoomSeats`, `MCRoomEvents`, `MCFriendship`, `MCRedisAdapter`, `MCRecords`, `MCPresence`, `MCLobby`, `MCShutdown` | the instances TLC runs |
| `RoomGatewayProofs` | theorems about the rooms, their seats and the member count |
| `RoomEventsProofs` | theorems about what members of a room are shown |
| `FriendshipProofs` | theorems about users and friendships |
| `RecordsProofs` | theorems about the records |
| `ShutdownProofs` | theorems about the shutdown |
| `RedisAdapterProofs` | theorems about the adapter, and that it implements `Gather` |
| `PresenceProofs` | theorems about presence and messages |
| `LobbyProofs` | theorems about the lobby |

All modules share one form: the code between two awaits, or one statement, is
one action; a handler or request in flight is a record with a `pc`; a bound on
how many there are is a constant (`Calls`). Where a property needs to know what
happened on the way, a history variable says so, and no guard reads it.

### RoomGateway

`call` holds a record per handler in flight: what it is (`op`), the await it is
suspended on (`pc`), its socket, node, room, the target of a kick, and for a
fetch the sockets seen so far and the nodes that still owe an answer. An action
is the code between two awaits.

| Code | Actions |
|---|---|
| `handleConnection`, `onConnection` | `Connect`, `TuneUid` (joins the uid room), `Hook` (attaches the disconnecting handler) |
| `onJoinRoom`, `validateJoinRoomPayload` | `AskJoin`, `JoinStart`, `JoinAdmit`, `JoinPassword`, `FetchReply`*, `JoinEnter`, `WriteCount` |
| `onLeaveRoom` | `AskLeave`, `LeaveStart`, `FetchReply`*, `WriteCount` |
| `onKickUser`, `getUserToKick` | `AskKick`, `KickStart`, `KickAuthorised`, `FetchReply`*, `KickEvict`, `FetchReply`*, `WriteCount`; `RemoteLeave` on the target's node |
| `onDisconnecting` | `Disconnect`, then per room `FetchReply`*, `WriteCount` |
| rejections and exceptions of all of them | `Refuse`, `FetchTimeout`, `WriteMissing` |
| `RoomsService.createRoom`, `deleteRoomById` | `CreateRoom`; `DeleteAsk`, `DeleteCheck`, `DeleteRow` |
| the end of a process | `Crash`, and `Die` inside `FetchTimeout` and `WriteMissing` |

Choices made in the translation:

- Requests arrive as soon as the socket is open, because Nest does not wait for
  `onConnection`. `Hook` is possible straight after `Connect` because the
  `catch` of `onConnection` also ends in attaching the handler.
- The guard (`WsJwtGuard`) is asynchronous, so the membership test of a join or
  a kick happens when the guard is done (`JoinStart`, `KickStart`), not when the
  request arrives.
- `getRoomData` and the capacity test that follows it are one step: nothing
  lies between the arrival of the row and the test. The row's `total` never
  changes, so reading it then is no different from reading it earlier.
- `fetchSockets` reads its own node before its first await and the other nodes
  when their answer is computed. The set of nodes is fixed; a node that died is
  back at once, empty. A request that waited for it waits in vain (the member
  `None` of `pending`). The running server takes the adapter from the npm
  package; `adapters/custom-adpater.ts` is the repository's copy of it and the
  text the map refers to.
- A kick's target on the kicking node is a local socket and leaves at once;
  elsewhere REMOTE_LEAVE is published before the count's own request on the
  same channel, and the target's node handles them in that order
  (`FetchReply`'s guard).
- A kick's payload names its target twice, by `uid` and by `sid`. The code
  compares the `uid` with the moderator's and the `sid` with the moderator's
  socket, and nothing ties the two. So `KickEvict` refuses only the kicking
  socket as a target: another socket of the moderator can be kicked with
  somebody else's `uid`. And any kick may be refused (`Refusable`).
  `RoomEvents` looks at payloads whose `uid` is that of the target's user
  (`Named`), because KICK_USER shows it.
- After a disconnection socket.io 4.5 ignores `join`, hence the test in
  `JoinEnter`. The handler goes on.
- A rejection inside `onDisconnecting` is handled by nobody and ends the
  process (`Die`). Under a process manager that listens for unhandled
  rejections (pm2 in cluster mode, `app.json`) the process would live on, and
  the handler end all the same; the model has it end. What a process that
  ends had published is still delivered. The end of a host
  (`Crash`) may lose it. A statement in flight at that moment was either
  executed just before or is lost.
- The two statements of `updateRoomInfoByDelta` are one step: the second one
  runs only for a negative count, which `ClampNeverNeeded` shows never occurs.
- `canDeleteRoom` is modelled from its second query on; the first one, the
  moderator's identity, never changes. `DeleteRow` of a row that is gone is the
  code's `isNotFoundError` branch: nothing changes.
- Left out: the relays and nicknames. Sessions and messages are in `Presence`,
  the events sent to the members of a room in `RoomEvents`.

### RoomCount

Adds `disturbed`: the handlers in flight whose room got or lost a member, by
somebody else's step, after they began (or whose own socket disconnected, for a
join). It makes the sentence "the count is right unless it was overtaken" a
property, `CleanWriteExact`.

Adds `excused`: the rooms to which one of the things has happened that
`room.current` does not survive (`Excuse`):

1. nobody counts the change: a socket tunes in to its user's uid, which is also
   the room's number, or a member disconnects before `onDisconnecting` is
   attached or from the room its handler skips;
2. a handler writes a count that others have made stale (`disturbed`);
3. the fetch of a count fails after the members have changed;
4. a process ends while it has members of the room, or with a handler that has
   changed the members and not written the count.

`DriftExplained` says that there is no fifth: a room that has met none of them,
and to which no handler in flight owes a count (`Owes`), is counted right. All
four are needed: with any of them left out of `Excuse`, TLC finds a room that
is counted wrong.

### RoomSeats

Adds `crowded`: the rooms and nodes for which two joins were past the capacity
check at once, with neither of them in the room (`Overlapping`). The check reads
the members on its own node and a join enters some awaits later, so two joins
can both pass for the last seat. `OverfullExplained` says that nothing else
overfills a room on a node, and by how much this does (`Limit`). It excepts the
rooms that are some user's uid room, which sockets enter unchecked. Over all
nodes the code keeps no bound, because each node lets `total` in.

### RoomEvents

Each step of `RoomGateway` is joined with what it sends (`ENext`): the handlers
are the same actions, and no event adds a step but its arrival at another node,
`Deliver`.

| Code | Definition |
|---|---|
| `joinClientToRoom` (EXISTING_ROOM_USERS), `notifyNewUserJoined` (NEW_USER) | `TellEntered`, with `JoinEnter` |
| `leaveRoom`, `onDisconnecting` (LEFT_ROOM) | `TellCounted`, with `WriteCount` |
| `notifyKickUser` (KICK_USER) | `TellKicked`, with `KickEvict` |
| a throw or a rejection before the event | `TellNobody`, with `FetchTimeout`, `WriteMissing`; answers that still come are ignored (`Disowned`) |
| `broadcast` of the adapter and `onmessage` | `Publish`, `Deliver` |

`inbox[n]` is the subscriber connection of node n, first in, first out. It
carries packets and the answers to n's own fetches, so a handler goes on only
when its answers are there (`Arrived`), and REMOTE_LEAVE comes after the
KICK_USER published before it (`KickHeard`). LEFT_ROOM and NEW_USER name a
socket. KICK_USER names a user, so a client that shows two tabs of the user
drops both; the tab that was not kicked, and that is still a member, is
`Mistaken`.

Three histories name the ways in which the code lets a view go wrong, and the
properties say that there is no other:

- `amiss`: the list was read before the client's own entry, so whoever entered
  or left between, or was being evicted then, is wrong in it. The next time
  that somebody is announced the list is corrected for them.
- `untold`: nobody says that the socket left (it went before its
  `disconnecting` handler was attached, its count failed, the process ended) or
  the word is not the last one (the handler announced a client that is gone,
  or a second join of the same socket was in flight when it was evicted).
- `hidden`: a leaving is told of a socket that is a member all the same (the
  other tab of a kicked user, a LEFT_ROOM sent after the client has joined
  again).

The client is taken to behave as in `Lobby`. The instance has one room, and
the crash of a host (`Crash`) is not joined; the end of a process inside a
disconnection (`Die`) is.

### Accounts and Friendship

| Code | Actions |
|---|---|
| `createUser` | `Signup` |
| `checkSignupVerificationToken` | `VerifyRead`, `VerifyWrite` |
| the `validate` of the GitHub, Google and Kakao strategies | `OAuthFind`, `OAuthCreate` |
| `JwtStrategy.validate`, `updateUser` | `UpdateAsk` (the row is read by the guard), `UpdateWrite` (every column but the hash is written), `HashWrite` (the second statement, for a new password) |
| `deleteUserByUid` and the schema's cascades | `DeleteUser` |
| `addFriend` | `AddAsk`, `AddExists`, `AddReverse`, `AddInsert` |
| `acceptFriendRequest` | `Accept` |
| `deleteFriendshipByFriendUid` | `DeleteAsk`, `DeleteRole`, `DeleteErase` |

A column the request does not name is written back as the guard has read it, so
two updates of one user can undo each other: `CleanUpdate` says when they
cannot. The hash is never written back. The first statement may be refused
because the e-mail address it writes has become another user's; addresses are
not modelled, so `UpdateWrite` may always be refused. `findFirstOrThrow` may
return either of two rows, hence the choice in `DeleteRole`.
`rooms.moderatorId` is NOT NULL with `SetNull` on deletion, so Postgres refuses
to delete a moderator (`DeleteRow`'s guard). Which error a client is sent is
not modelled.

### Gather and RedisAdapter

`req[i]` is a request from the call of the adapter's method to its settlement:
`counting` (PUBSUB NUMSUB), `counted`, `waiting`, then `resolved`, `expired` or
`lost` with its node. `heard` are the answers counted, the requester's own part
first; its length is the code's `msgCount` (`responses.length` for an emit).
`inbox[n]` is the one subscriber connection of a node.

| Code | Actions |
|---|---|
| `sockets`, `allRooms`, `fetchSockets`, `serverSideEmitWithAck` | `AskSockets`, `AskRooms`, `FetchSockets`, `EmitWithAck`, then `Count`, `Publish`, `Timeout` |
| `remoteJoin`, `remoteLeave`, `remoteDisconnect` | `RemoteJoin`, `RemoteLeave`, `RemoteDisconnect`, `Timeout` |
| `addSockets`, `delSockets`, `disconnectSockets` | `AddSockets`, `DelSockets`, `DisconnectSockets` |
| `broadcast`, `broadcastWithAck` | `Broadcast`, `BroadcastWithAck`, `Timeout` |
| `onrequest` | `OnCollect`, `OnRemote`, `OnEmit` and `CallBack`, `OnPacketWithAck` |
| `onmessage`, `hasRoom` | `OnPacket` |
| `onresponse` | `OnAnswer`, `OnRemoteDone`, `OnEmitAnswer`, `OnClientCount`, `OnLateAnswer` |

The node knows its own request by its presence in the table of pending requests
(`Own`), not by its author, so one that has expired is answered like another
node's. `Gather` is what a collecting request promises: each node is read at
most once, at a time of its own, and the request ends with as many reads as it
settled for. That is all `RoomGateway` and `Lobby` use of it. The refinement
mapping counts an answer from the moment it is computed. Rooms are abstracted
to one; the `local` flag, plain `serverSideEmit` and the forwarding of single
acknowledgements touch no state of the adapter and are left out.

### Records

`call[c]` goes through `count`, `create` or `find`, `age`, `add`, one statement
each (`recordTime`, `createRecord`, `getRecentRecordId`, `longerThen1min`,
`updateRecord`). The second look at a user's rows need not find the row the
first one found. A row is due `Advantage` (5 seconds) before a `Minute` has
passed since its last update. A minute may therefore be added every 55 seconds,
by each request in flight, and a duration can outrun time by that.
`NoFasterThanDue` says that it cannot by more.

### Presence

| Code | Actions |
|---|---|
| `onConnection` | `Connect`, `VerifyToken`, `NicknameFound`, `Found` (session, room, query for messages), `MessagesRead`, `FriendsFound`, `FriendRead` per friend, `Finish` (in either) |
| the `catch` of `onConnection` | `ConnectionFails`, `ReadFails`, `GivesUp` |
| `onDisconnect` | `Disconnect` |
| `onDirectMessage` | `SendMessage` |
| `saveSession`, `saveMessage` reaching Redis | `Saved`, `MessageKept` |
| broadcasts reaching other nodes | `Arrive` |
| `SESSION_TTL`, `CONVERSATION_TTL`, the end of a process | `Expire`, `ExpireMessages`, `Crash` |

`saveSession` and `saveMessage` return before Redis has executed anything.
Commands of one node are executed in order (`store[n]`), packets arrive in order
(`bus[n]`), the two are unrelated. A session saved without a uid counts as none
(`mapSession`). What a client shows of a friend is what it was last told:
`friend:sync-all` overwrites, `friend:connection` and `friend:disconnection`
correct. `client.data.uid` is set before the nickname is asked for, so a client
that closes then is stored as offline, and the others are told (`Known`).

Every await of `onConnection` can fail. With a wrong token nothing has happened
yet (`refused`). After that the handler is `failed`: what it has done stays
done, so that the session may be online and the socket in its user's room, and
what follows is left out, `friend:sync-all` and `friend:connection` among it.
A friend with such a connection is shown either way, and the properties
say so.

A user's messages are one list, and its expiry drops all of them
(`ExpireMessages`); those are owed to nobody afterwards (`dropped`). A Redis
that restarts empty is, to this code, one whose keys have expired.

### Lobby

`JoinLobby` joins, announces and reads its own node in one go; `AskNodes`,
`AnswerFetch`, `HearAnswer` are the fetch (see `RedisAdapter`), `FetchFails`
its timer; the nodes are counted before the request is published, and one that
died in between may have been counted (`dead`); `LeaveLobby` and `Disconnect`
announce, `HearAnnouncement` is the packet at another node. The client is not
in the repository: it is taken to show whom it is told of, by an announcement
or by the list, until it is told that they left, and to start from nothing when
it joins.

### Shutdown

`ENV` is taken to be `production-aws`; elsewhere the service does nothing.
`tick[t]` is one run of the cron callback; the job starts a run every ten
seconds whether or not the last one has ended, so several can be in flight.

| Code | Actions |
|---|---|
| `checkLifecycleState` | `Tick`, `Describe` (AWS), `NotYet` |
| `shutdown` up to its first request, SERVER_SHUTDOWN | `Begin`, `Told` |
| `continueInstanceTerminatingState` | `Continue`, `CompleteLifecycleAction` (AWS) |
| `app.close()`, `process.exit(0)` | `Exit` |
| a rejection in the callback | `AwsFails`, `Reject`, and then `Ends` or `LivesOn` |
| `onModuleInit`, `bootstrap` | `Restart`, `RestartFails` |
| `getWelcomeMessage`, `getActive` | `HealthCheck` |

- Neither `sleep` returns its promise, so `await sleep(...)` waits for nothing:
  flag, event and the request for the group's name are one step, `Begin`. The
  run `shutdown_waits` shows what the comment on the first wait says is not so.
- `process.exit` follows `app.close()` in the same turn. Sockets are cut without
  their `disconnecting` handlers, so that to the rooms a shutdown is a `Crash`
  of `RoomGateway`, with the same effect on `rooms.current`.
- SERVER_SHUTDOWN is emitted by the server of the room gateway's namespace.
  Clients of the lobby and the playlist gateway (`Clients \ RoomClients`) hear
  nothing and are cut off with the process; the properties are about
  `RoomClients`.
- Nothing in the code catches a rejection in the callback. By itself Node 16
  ends the process (`Ends`). pm2 in the cluster mode of `app.json` listens for
  unhandled rejections and only logs them, so the process goes on, possibly
  with the flag cleared and no tick left (`LivesOn`, `Stranded`). The model has
  both.
- A process that has ended may be started again (`Restart`), active and with
  all of its memory lost. `app.json` sets `ENV` to `production`, in which this
  service does nothing; for `production-aws` the repository names no supervisor.
  So a restart is possible and never promised. A request that the old process
  had sent may reach AWS after it (`orphan`).
- A rejection in `onModuleInit` is caught by `bootstrap`, and the process stays
  with neither job nor port (`stuck`): from outside nothing looks wrong.

`past` is history: what the present process has sent, whether two ticks raced,
whether a process was started after CONTINUE, whether AWS's hook timed out.

## Runs

| Run | Instance | Shows |
|---|---|---|
| `rooms` | 2 nodes, 1 room for 2, 2 handlers in flight, node n2 may crash; 2 sockets, in three ways: of two users before their first connection, of the moderator, of the moderator and of a user whose uid is the room's id | `TypeOK`, `NoZombies`, `ClampNeverNeeded`, `OnlyModeratorEvicts`, `DriftExplained` hold |
| `rooms_seats` | 3 sockets on node n1, two of them the moderator's; 1 private room for 2, 2 handlers in flight | `OverfullExplained` holds |
| `rooms_live` | the first instance of `rooms` with a private room, fairness | `HandlersFinish`, `KickTakesEffect` hold |
| `rooms_drift` | 1 handler, a node may crash | `CurrentIsMembers` fails |
| `room_events` | 3 sockets on 2 nodes, two of one user; 1 room, 2 handlers in flight, 4 requests, or 2 from a room that is in use | `EventsTypeOK`, `MembersShown`, `OneShowsOther`, `GhostsExplained` hold |
| `friends` | 2 users (one moderates a room), 2 requests in flight, 2 columns and the hash, with 2 values | `TypeOK`, `MutualOnlyByRace`, `NoOrphans`, `CleanDelete`, `CleanUpdate` hold |
| `adapter` | 3 nodes, one that starts late and one that may die, a socket on each, 1 request of any type | `TypeOK`, `HeardOnce`, `CompleteUnlessJoined`, `PacketOnce`, `NothingMissed`, `RequestsEnd` and the refinement `Gathers` hold |
| `records` | 1 user, 2 requests in flight, 3 rows; a minute of 3, an advantage of 1, 6 moments | `TypeOK`, `FewRows`, `NoFasterThanDue` hold |
| `presence` | 2 friends on 2 nodes, one with two tabs; the other's connection may fail at any await, 1 message, 1 expiry (of the session or the messages), 1 crash | `TypeOK`, `OnlineHasSocket`, `SocketIsOnline`, `ToldRight`, `NoMessageMissed` hold |
| `lobby` | 3 sockets on 2 nodes, one of which may crash; one socket rejoins; 2 handlers | `TypeOK`, `EveryoneKnown`, `GhostsCrossed` hold |
| `shutdown` | 2 ticks in flight, a client of a room and one of the lobby, 2 failing requests, fairness | `TypeOK`, `ContinuedOnce`, `ToldBeforeExit`, `GoneUntold`, `HandedOver` hold |
| `shutdown_waits` | the same | `HealthCheckFailsFirst` fails |

Bounds. Two nodes are enough for everything that depends on "here" and
"elsewhere". Two handlers give every pairwise interleaving, and every hazard
listed for rooms is a conflict of two. Two sockets with two handlers let a
socket race itself as well as the other one. The third socket of `rooms_seats`
is needed to meet a full room of the smallest size (2, the DTO's minimum) and
to overfill it by two joins at once, that of `room_events` for a user with two
clients in the room. `rooms` starts from three states, because the clients that
matter differ: two users for all that concerns a connection, two clients of the
moderator for kicks of one's own, and a uid room. A socket connects once, so
runs are finite without a bound on steps. Deadlock is not checked because the
clients may all be gone. Handlers are interchangeable and form the symmetry set
of the runs without liveness.

The other instances follow the same reasoning. Friendships are conflicts of two
requests about one pair of users. One adapter request suffices because requests
meet only in the rooms they change, and sockets also join and leave by
themselves; three nodes let the answers of two arrive in either order. In
`records`, three rows are one more than two requests can create without a
deletion; the minute is longer than the advantage by more than it, so that a
row that is due is not over, and the time is three times what makes a row due.
In `presence` a client writes once it has its friend list, and only the client
that has one socket; one message meets every step of the receiver's connection.
It is that client's connection that may fail (`Faulty`): two tabs make a user one
of those the properties except.
In `lobby` a node that runs answers in time (late answers are the adapter's
subject). In `shutdown` two ticks race as well as more do, the second fault is
one after a restart or in the other tick, and the lobby's client is the one
that hears nothing.

`room_events` starts from two states, because from the first connection on the
interesting ones are far away: an empty server on which one client is
connected (`Bare`, 4 requests), and a room of two that show each other
(`Populated`, 2 requests), with the other client of one of them about to
connect. Handlers in flight, a kick, a second join and a disconnection fit into
both.

Fairness. `FairSpec` of `RoomGateway` assumes weak fairness of each handler's
own steps: Postgres and Redis answer, a fetch has a timer, the event loop runs
what is ready. `FairSpec` of `RedisAdapter` assumes it of `Count`, `Publish` and
`Timeout` only: nobody has to answer a request for it to end. Clients,
operators, handlers of an emit and crashes are not obliged to anything.
`FairSpec` of `Shutdown` assumes that the cron job ticks, that a tick goes on
(AWS answers) and that AWS ends an instance it has been told to go on with.
Neither a restart nor the timeout of the lifecycle hook is fair: nothing in the
repository provides the one, and the other is what a shutdown is there to
avoid.

The failing properties are statements of the repository (a DTO's description, a
comment) that the code does not keep; the findings quote them. What the code
does keep is stated by passing properties: `DriftExplained` for the count,
`ToldBeforeExit` and `GoneUntold` for the shutdown. Two more places where code
and expectation differ are stated only by what holds: a room may take more than
`total` members when joins overlap, or strangers when its number is that of a
user (`OverfullExplained` says when and by how much, and excepts the latter),
and two rows of one pair of users may exist (`MutualOnlyByRace`).

What the passing properties say, beyond types:

- `MutualOnlyByRace`: two rows between two users come only from opposite
  requests in flight together. `CleanDelete`: apart from that a deletion leaves
  nothing between them. `NoOrphans`: no row refers to a deleted user.
- `HeardOnce`, `CompleteUnlessJoined`: a collecting request that succeeds has
  the answers of exactly the nodes it counted, each once, unless a node
  subscribed between the count and the publication. `PacketOnce`,
  `NothingMissed`: a packet reaches whoever stays in the room, once; the one
  exception is a broadcast with acks whose entry expired before Redis brought
  it back.
- `OverfullExplained`: the node-local capacity check is exact for joins that do
  not overlap on the node, whatever else goes on.
- `OnlyModeratorEvicts`: who leaves a room without wanting to was kicked by
  another socket, one of the room's moderator.
- `FewRows`, `NoFasterThanDue`: the bounds a user's rows and their durations
  keep although nothing but a count in an earlier statement guards them.
- `OnlineHasSocket`, `SocketIsOnline`, `ToldRight`: what the sessions and the
  friend lists amount to when nothing is on its way. Their premises name what
  the code does not handle: two tabs of a user, a socket that closes before its
  handler has saved the session, a crash, an expiry under an open socket. A
  handler that fails after the socket has entered leaves the user online
  without a word to the friends: `ToldRight` lets such a friend be shown either
  way.
- `NoMessageMissed`: entering the room before reading the stored messages
  leaves no gap for messages stored before or sent after.
- `MembersShown`, `OneShowsOther`, `GhostsExplained`: with no handler in flight
  and no packet on its way, a member shows every other member and nobody else,
  but for what the three histories name; and of two members at least one shows
  the other however their joins overlapped, since of two entries one is second
  and its NEW_USER is sent to the first.
- `ToldBeforeExit`: the process exits on no client of the room gateway that was
  there to be told and was not. `GoneUntold`: AWS takes the instance from under
  such a client only after the hook's timeout, or when a process that failed
  after CONTINUE was restarted with the flag set. `ContinuedOnce`: CONTINUE is
  sent once by a process unless two ticks had passed the test of the flag
  together. `HandedOver`: an instance that is to go does go, unless a request
  has failed and either no process serves or the flag is cleared with no tick
  left.
- `EveryoneKnown`, `GhostsCrossed`: two members always come to show each other;
  one who is gone is shown only if it left while the list was being collected
  or its node crashed.

## Proofs

Rooms, for every finite set of sockets and handlers, any rooms, nodes, layout
of sockets on nodes, and moderators, and room sizes from 2 to 4:

| Theorem | States | Argument |
|---|---|---|
| `TypeCorrect` | `TypeOK` | `Typed`: the type invariant strengthened with the shape each kind of handler has at each `pc` (`Shape`) |
| `MembersAreConnected` | `NoZombies` | inductive with the types: the only step that adds a member tests the socket's stage |
| `ClampIsDeadCode` | `ClampNeverNeeded` | by shape, the only handler that subtracts is a disconnection, and its snapshot holds the socket that leaves |
| `OverfullOnlyByOverlap` | `OverfullExplained` | `Places`: members on a node plus the node's admitted joins that have not entered are at most `Limit`; a check that succeeds finds fewer than `total` members, and the other admitted joins are then none, or have made the room `crowded` |
| `EvictionsAreTheModerators` | `OnlyModeratorEvicts` | `Rights`: from the moderator check on, a kick carries a socket of the moderator and, once it evicts, a target that is another socket |
| `CleanWritesAreExact` | `CleanWriteExact` | `CountInv`: the snapshot of an undisturbed handler is exact on the nodes that answered (`Accurate`), and a target still to be removed is on a node that has not answered (`Ordered`) |
| `DriftHasFourCauses` | `DriftExplained` | `DriftInv`: `CountInv`, a `REMOTE_LEAVE` without a count is excused already, and a room without a row has no members nobody excuses. Each step that changes members leaves a handler that owes the count, or an excuse (`Settles`); a handler stops owing it by writing, which is exact by `CountInv` unless excused, or with an excuse |

What the members of a room are shown, for any sockets, users, nodes, handlers
and number of requests, and one room whose number is no user's uid
(`NobodysRoom`: a socket enters its user's room for direct messages without a
word to anybody, so `MembersShown` would be false of a room with that number;
the hazard is listed). `EInv` joins the rooms' types and `NoZombies` with the
types of the events (`ETyped`) and:

- `Handlers`: a kick's target still to be removed is on another node, which has
  not answered yet; a disconnection is counted for a socket that is gone;
- `Posted`: a node is told by others of nobody on it, but to evict it;
- `HalfHidden`: a member whose earlier leaving is still to be told of is `hidden`;
- `Confirmed`: of a member that is neither hidden nor about to be evicted the
  last word on its way to any node is not that it is gone;
- `Seen`: of two such members each shows the other, or its NEW_USER is still to
  come, or the list was out of date (`amiss`);
- `OneSided`: of two members at most one has the other in `amiss`;
- `Ghosts`: of who is gone and not `untold` the last word on its way is that it is
  gone, and there is one to every member that shows it.

Every step in which nobody enters and no word is added is covered by one lemma
(`ShrinkKeeps`); entering, LEFT_ROOM, KICK_USER and the arrival of a packet have
each their own.

| Theorem | States | Argument |
|---|---|---|
| `EventsTyped` | `EventsTypeOK` | `ETyped` |
| `MembersAreShown` | `MembersShown` | `Seen`, which needs `Confirmed` when a packet arrives: a LEFT_ROOM or KICK_USER that takes a member out of a view is followed by its NEW_USER |
| `OneOfTwoShowsTheOther` | `OneShowsOther` | `Seen` and `OneSided`: the later entry clears what the earlier list had wrong about it |
| `GhostsAreExplained` | `GhostsExplained` | `Ghosts`: a node's words about its own sockets stay in order, and `Posted` says that it is told of them by nobody else; a KICK_USER that overtakes a NEW_USER, on the kicking node, which hears its own word at once, is `untold` |

Users and friendships, for any users, moderators, columns, values and any
number of requests in flight:

| Theorem | States | Argument |
|---|---|---|
| `TypeCorrect` | `TypeOK` | `Typed`: with what each kind of request carries (`Shape`) |
| `MutualRowsRaced` | `MutualOnlyByRace` | `RaceInv`: a request at its insert with the opposite row in place has already met the request that inserted that row (`LateInsert`); only an insert brings a row, and only an absent opposite row takes a request there (`Quiet`) |
| `DeletionsAreComplete` | `CleanDelete` | from `RaceInv`, and that only the erasing statement ends a request that has reached it |
| `RowsHaveUsers` | `NoOrphans` | only `DeleteUser` ends a user, and it cascades; the insert checks both users |
| `UpdatesAreClean` | `CleanUpdate` | `CarriesRow`: an update that nobody overtook carries the row as it is, but for its own column and the hash, which it does not write |

Records, for any users, rows and length of time and any finite set of requests
in flight:

| Theorem | States | Argument |
|---|---|---|
| `TypeCorrect` | `TypeOK` | `Typed`: with what a request carries; an id found was given out and is not given out again (`Shape`) |
| `RowsAreFew` | `FewRows` | `FewRowsInv`, inductive with the types: a request comes to its insert from a count of none, when all the others can at most be there too |
| `RowsGrowAsDue` | `NoFasterThanDue` | `PacedInv`: the duration is bounded by the time of the row's last update as well, so a look that finds the row due leaves a whole `Minute - Advantage` for every request in flight |

The shutdown, for any ticks in flight, clients and number of faults. `IInv`
joins the types with what a process that is down has (`Quiet`, which is part of
`TypeOK`, and `NoGhost`), the flag (`Flag`: it is down while a tick shuts down,
and no untold client of the room gateway is connected while it is down), what
CONTINUE leaves behind (`Begun`) and, while nothing raced, the one tick that
shuts down (`One`):

| Theorem | States | Argument |
|---|---|---|
| `TypeCorrect` | `TypeOK` | `IInv` is inductive |
| `OneContinue` | `ContinuedOnce` | `One` |
| `ClientsAreTold` | `ToldBeforeExit` | `Flag`, at the tick that exits |
| `NoUntoldEnd` | `GoneUntold` | `Begun` and `Flag`: an instance that may proceed while an untold client of the room gateway is connected has a process that is active |

The adapter, for any finite set of nodes and any sockets and requests. A queue is
looked at as the set of its messages (`Mail`), because none ever holds a message
twice. `IInv` joins the types, the shape of a request at each `pc` (`Shape`), what
it has counted (`Counts`), that it leaves one trace at a time for each node it has
reached, be it the request, the handler of an emit, the answer or the answer
counted (`MailInv`), and how often a packet may still reach a socket (`Copies`):

| Theorem | States | Argument |
|---|---|---|
| `TypeCorrect` | `TypeOK` | `IInv` is inductive |
| `CountedOnce` | `HeardOnce` | `Counts`: who has been heard has no other trace (`NotAgain`) |
| `Complete` | `CompleteUnlessJoined` | `Counts`: as many answers as nodes counted, from nodes reached, all of them different |
| `DeliveredOnce`, `Delivered` | `PacketOnce`, `NothingMissed` | `Copies` |
| `GathersOnce` | the refinement `Gathers` | each step maps to a step of `Gather` or to a stutter: the answer of a node is an abstract read when it is computed, and by `MailInv` it is one that has not been made; settling compares numbers, which by `Counts` are those of the sets that `Gather` has |

Presence and messages, for any users, symmetric friendships, sockets, nodes and
messages. The queues to Redis and on the bus are looked at as sets and by what
comes after what (`After`), since the last command on a session and the last
event on a friend decide. `Typed`, `Staged`, `Errands` and `Bused` say what
there can be in the state and the queues:

| Theorem | States | Argument |
|---|---|---|
| `TypeCorrect` | `TypeOK` | `Typed`, `Staged` |
| `OnlineIsAnswered` | `OnlineHasSocket` | `Answered`: what says online, be it stored or still to be stored, is answered for by a socket or has an "offline" of the same node after it |
| `ConnectedIsOnline` | `SocketIsOnline` | `Saving`: for a user on one node with one tab, the last save on its way is that of the socket that has entered, whether its handler has failed since or not |
| `ToldIsSo` | `ToldRight` | `Listing`: while the list is collected it is right about friends that kept still; `Telling`: afterwards the last event on the bus about a friend, or what was told if there is none, says online if the friend is `Present` (a handler came through) and offline if it is not `Inside` (no socket has entered); between the two it may say either |
| `MessagesArrive` | `NoMessageMissed` | `Owing`: a message owed to a client has arrived, is on the bus, or its handler has read or is to read it; `Stored`: a message kept for one of the two is kept for the other |

The lobby, for any sockets, nodes, handlers, and number of joins and leaves:

| Theorem | States | Argument |
|---|---|---|
| `TypeCorrect` | `TypeOK` | `Typed` |
| `AllKnown` | `EveryoneKnown` | `Known`: a member shows another, or its announcement or a list that will name it is still on the way; `LastWord`: no later announcement takes that back |
| `GhostsExplained` | `GhostsCrossed` | `Ghosts`: the word of whoever left is still on the way; `Reads`: a list names nobody who left but those that crossed it |

Every theorem holds for all values of the constants that meet the named
assumptions of the modules, and in `RoomEventsProofs` `NobodysRoom`; the proofs
assume nothing else. Those that are more than a type of a constant say that a
node or user who is "nobody" is none of the real ones (`NoneAssumption`,
`NoneIsNothing`, `NoneIsNoType`), that the hash is a column (`HashIsField`),
the advantage shorter than the minute (`AdvantageIsShort`) and the room
gateway's clients among the clients (`ClientsAssumption`), that `RoomEvents`
looks at one room (`OneRoom`) and a bounded number of requests
(`RequestsAreCounted`), and that friendships are symmetric (`FriendsSymmetric`:
the list of friends is asked for in both directions). TLC checked the
properties, and the inductive invariants of the rooms and their events, the
adapter, presence and the lobby, on the instances of the runs before they were
proved.

What is only model-checked:

- liveness (`HandlersFinish`, `KickTakesEffect`, `RequestsEnd`, `HandedOver`): it
  rests on fairness and ENABLED, which the prover does not treat.

Every invariant and action property of the passing runs is a theorem.

`CleanWriteExact` is proved but is not among the properties of a run; the run
`rooms` checks `DriftExplained`, in whose proof it is the step of `WriteCount`.

A refinement that is not stated is that of `Gather` by the fetches of
`RoomGateway`. A request of `Gather` is used once, while a handler's slot in
`call` fetches again and again, and a handler begins a fetch, settles it and
changes members in one step: an abstraction in which these are one step would
be written for the gateway alone. What the gateway needs of its fetches is
stated by `Accurate` and proved: the snapshot agrees with the members on every
node that has answered.

## Not modelled

The stateless relays (chat, WebRTC signalling, media state, playlist): they
forward one event to one socket.io room. E-mail texts, configuration,
documentation decorators and the validation of DTOs: declarative or pure
output. Password hashing and token signatures: library functions.
