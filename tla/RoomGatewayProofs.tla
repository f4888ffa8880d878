-------------------------- MODULE RoomGatewayProofs --------------------------
(***************************************************************************)
(* Proofs about RoomGateway, for every set of sockets, rooms, nodes and    *)
(* handlers.  Shape says what each kind of handler carries from one await  *)
(* to the next; with the types of the variables it is inductive.  The last *)
(* part is about RoomCount, the rooms with their history.                  *)
(***************************************************************************)
EXTENDS RoomCount, RoomSeats, FiniteSetTheorems, TLAPS

Shape(k) ==
    /\ k \in CallRecord
    /\ k.op \in {"join", "leave", "kick", "disc"} =>
           k.sock \in Sockets /\ k.room \in Rooms /\ k.node = NodeOf[k.sock]
    /\ k.op = "delete" => k.room \in Rooms
    /\ k.pc = "guard" => k.op \in {"join", "leave", "kick"}
    /\ k.pc \in {"lookup", "verify", "write"} => k.op = "join"
    /\ k.pc \in {"modcheck", "find", "evict"} => k.op = "kick"
    /\ k.pc = "fetch" => k.op \in {"join", "leave", "kick", "disc"}
    /\ k.pc \in {"count", "delete"} => k.op = "delete"
    /\ k.op = "disc" => k.pc = "fetch" /\ k.sock \in k.seen
    /\ k.pending # {} => k.pc \in {"find", "fetch"}

Typed ==
    /\ stage \in [Sockets -> Live \cup {"new", "gone"}]
    /\ joined \in [Rooms -> SUBSET Sockets]
    /\ table \in [Rooms -> {"unborn", "open", "deleted"}]
    /\ current \in [Rooms -> Nat]
    /\ call \in [Calls -> CallRecord]
    /\ \A c \in Calls : Shape(call[c])

------------------------------------------------------------------------------
(* The records that handlers carry. *)

\* A handler that is not running has its shape.
LEMMA IdleShape == Shape(Idle)
  BY NoneAssumption DEF Shape, Idle, CallRecord

\* So has one that has just been asked for, ...
LEMMA RequestShape ==
    ASSUME NEW op \in {"join", "leave", "kick"}, NEW s \in Sockets,
           NEW r \in Rooms, NEW t \in Sockets \cup {None}
    PROVE  Shape(Request(op, s, r, t))
  BY LayoutAssumption DEF Shape, Request, CallRecord

\* ... one that counts the members, ...
LEMMA FetchingShape ==
    ASSUME NEW k, Shape(k), NEW members \in SUBSET Sockets,
           NEW pc \in {"find", "fetch"},
           k.op \in {"join", "leave", "kick"}, pc = "find" => k.op = "kick"
    PROVE  Shape(Fetching(k, pc, members))
  BY DEF Shape, Fetching, CallRecord, On

\* ... one that counts after a disconnection, ...
LEMMA DiscShape ==
    ASSUME NEW s \in Sockets, NEW r \in Rooms, NEW members \in SUBSET Sockets,
           s \in members
    PROVE  Shape(Fetching(Request("disc", s, r, None), "fetch", members))
  <1> DEFINE q == Request("disc", s, r, None)
             k == Fetching(q, "fetch", members)
  <1>1. /\ q \in CallRecord
        /\ q.op = "disc" /\ q.sock = s /\ q.node = NodeOf[s] /\ q.room = r
    BY LayoutAssumption DEF Request, CallRecord
  <1>2. s \in On(NodeOf[s]) /\ NodeOf[s] \in Nodes
    BY LayoutAssumption DEF On
  <1> HIDE DEF q
  <1>3. /\ k \in CallRecord
        /\ k.op = "disc" /\ k.pc = "fetch" /\ k.sock = s /\ k.room = r
        /\ k.node = NodeOf[s] /\ s \in k.seen
    BY <1>1, <1>2 DEF Fetching, CallRecord
  <1> QED
    BY <1>3 DEF Shape, q

\* ... and what a node's end makes of one.
LEMMA AfterCrashShape ==
    ASSUME NEW k, Shape(k), NEW n \in Nodes, NEW survives \in BOOLEAN,
           survives => Evicting(k)
    PROVE  Shape(AfterCrash(k, n, survives))
  <1>1. CASE k.node = n /\ survives
    <2>1. AfterCrash(k, n, survives) =
              [k EXCEPT !.pc = "evict", !.seen = {}, !.pending = {}]
      BY <1>1 DEF AfterCrash
    <2> QED
      BY <1>1, <2>1 DEF Shape, CallRecord, Evicting
  <1>2. CASE k.node = n /\ ~survives
    BY <1>2, IdleShape DEF AfterCrash
  <1>4. CASE k.node # n /\ Evicting(k) /\ NodeOf[k.target] = n /\ k.pc = "evict"
    BY <1>4, IdleShape DEF AfterCrash
  <1>5. CASE k.node # n /\ Evicting(k) /\ NodeOf[k.target] = n /\ k.pc # "evict"
    <2>1. AfterCrash(k, n, survives) =
              [k EXCEPT !.target = None, !.pending = (@ \ {n}) \cup {None}]
      BY <1>5 DEF AfterCrash
    <2> DEFINE j == [k EXCEPT !.target = None, !.pending = (@ \ {n}) \cup {None}]
    <2>2. k \in CallRecord /\ k.op = "kick" /\ k.pc = "fetch"
      BY <1>5 DEF Shape, Evicting
    <2>3. /\ j \in CallRecord
          /\ j.op = "kick" /\ j.pc = "fetch" /\ j.sock = k.sock
          /\ j.node = k.node /\ j.room = k.room
      BY <2>2 DEF CallRecord
    <2> HIDE DEF j
    <2>4. Shape(j)
      BY <2>2, <2>3 DEF Shape
    <2> QED
      BY <2>1, <2>4 DEF j
  <1>3. CASE k.node # n /\ ~(Evicting(k) /\ NodeOf[k.target] = n)
    BY <1>3 DEF AfterCrash, Shape, CallRecord
  <1> QED
    BY <1>1, <1>2, <1>3, <1>4, <1>5

\* A step that replaces one handler by one of its shape keeps all shapes.
LEMMA OneCallShape ==
    ASSUME call \in [Calls -> CallRecord], \A d \in Calls : Shape(call[d]),
           NEW c \in Calls, NEW k, Shape(k), call' = [call EXCEPT ![c] = k]
    PROVE  call' \in [Calls -> CallRecord] /\ \A d \in Calls : Shape(call'[d])
  BY DEF Shape

\* A handler that is about to write subtracts one only if it counted one.
LEMMA WrittenIsNat ==
    ASSUME NEW k, Shape(k), Counted(k)
    PROVE  Written(k) \in Nat
  <1>1. k.seen \in SUBSET Sockets
    BY DEF Shape, CallRecord
  <1>2. IsFiniteSet(k.seen) /\ Cardinality(k.seen) \in Nat
    BY <1>1, SocketsAssumption, FS_Subset, FS_CardinalityType
  <1>3. CASE k.op = "disc"
    <2>1. k.sock \in k.seen
      BY <1>3 DEF Shape
    <2>2. Cardinality(k.seen) # 0
      BY <1>2, <2>1, FS_EmptySet
    <2> QED
      BY <1>2, <1>3, <2>2 DEF Written, Delta
  <1>4. CASE k.op # "disc"
    BY <1>2, <1>4 DEF Written, Delta
  <1> QED
    BY <1>3, <1>4

------------------------------------------------------------------------------
(* Typed is inductive. *)

\* Types and shapes hold at first.
LEMMA TypedInit == Init => Typed
  BY IdleShape DEF Init, Typed, Shape, Live

\* A node's death keeps the types.
LEMMA DieTyped ==
    ASSUME Typed, NEW n \in Nodes, NEW S \in SUBSET InTransit(n), Die(n, S)
    PROVE  Typed'
  <1>1. \A c \in Calls : Shape(call'[c])
    <2> TAKE c \in Calls
    <2>1. c \in S => Evicting(call[c])
      BY DEF InTransit
    <2>2. Shape(call[c]) /\ (c \in S) \in BOOLEAN
      BY DEF Typed
    <2>3. Shape(AfterCrash(call[c], n, c \in S))
      BY <2>1, <2>2, AfterCrashShape
    <2> QED
      BY <2>3 DEF Die
  <1>2. call' \in [Calls -> CallRecord]
    BY <1>1 DEF Die, Shape
  <1> QED
    BY <1>1, <1>2 DEF Typed, Die, Live

\* One step of a handler.
LEMMA ProgressTyped ==
    ASSUME Typed, NEW c \in Calls, Progress(c)
    PROVE  Typed'
  <1> DEFINE k == call[c]
  <1>0. Shape(k) /\ k \in CallRecord
    BY DEF Typed, Shape
  <1>b. ASSUME NEW j, Shape(j), call' = [call EXCEPT ![c] = j],
               joined' \in [Rooms -> SUBSET Sockets],
               UNCHANGED <<stage, table, current>>
        PROVE  Typed'
    BY <1>b, OneCallShape DEF Typed
  <1>1. CASE Refuse(c)
    BY <1>1, <1>b, IdleShape DEF Refuse, Typed
  <1>2. CASE JoinStart(c)
    <2>1. Shape([k EXCEPT !.pc = "lookup"])
      BY <1>0, <1>2 DEF JoinStart, Shape, CallRecord
    <2> QED
      BY <1>2, <1>b, <2>1 DEF JoinStart, Typed
  <1>3. CASE JoinAdmit(c)
    <2>1. joined[k.room] \in SUBSET Sockets /\ k.op = "join"
      BY <1>0, <1>3 DEF JoinAdmit, Shape, Typed
    <2>2. Shape(Fetching(k, "fetch", joined[k.room]))
      BY <1>0, <2>1, FetchingShape
    <2>3. Shape([k EXCEPT !.pc = "verify"])
      BY <1>0, <1>3, <2>1 DEF JoinAdmit, Shape, CallRecord
    <2> QED
      BY <1>3, <1>b, <2>2, <2>3 DEF JoinAdmit, Typed
  <1>4. CASE JoinPassword(c)
    <2>1. joined[k.room] \in SUBSET Sockets /\ k.op = "join"
      BY <1>0, <1>4 DEF JoinPassword, Shape, Typed
    <2>2. Shape(Fetching(k, "fetch", joined[k.room]))
      BY <1>0, <2>1, FetchingShape
    <2> QED
      BY <1>4, <1>b, <2>2 DEF JoinPassword, Typed
  <1>5. CASE JoinEnter(c)
    <2>1. Shape([k EXCEPT !.pc = "write"])
      BY <1>0, <1>5 DEF JoinEnter, Fetched, Shape, CallRecord
    <2>2. joined' \in [Rooms -> SUBSET Sockets]
      BY <1>0, <1>5 DEF JoinEnter, Shape, Typed
    <2> QED
      BY <1>5, <1>b, <2>1, <2>2 DEF JoinEnter
  <1>6. CASE LeaveStart(c)
    <2>1. joined' \in [Rooms -> SUBSET Sockets] /\ joined'[k.room] \in SUBSET Sockets
      BY <1>0, <1>6 DEF LeaveStart, Shape, Typed
    <2>2. Shape(Fetching(k, "fetch", joined'[k.room]))
      BY <1>0, <1>6, <2>1, FetchingShape DEF LeaveStart
    <2> QED
      BY <1>6, <1>b, <2>1, <2>2 DEF LeaveStart
  <1>7. CASE KickStart(c)
    <2>1. Shape([k EXCEPT !.pc = "modcheck"])
      BY <1>0, <1>7 DEF KickStart, Shape, CallRecord
    <2> QED
      BY <1>7, <1>b, <2>1 DEF KickStart, Typed
  <1>8. CASE KickAuthorised(c)
    <2>1. joined[k.room] \in SUBSET Sockets /\ k.op = "kick"
      BY <1>0, <1>8 DEF KickAuthorised, Shape, Typed
    <2>2. Shape(Fetching(k, "find", joined[k.room]))
      BY <1>0, <2>1, FetchingShape
    <2> QED
      BY <1>8, <1>b, <2>2 DEF KickAuthorised, Typed
  <1>9. CASE KickEvict(c)
    <2>1. /\ joined' \in [Rooms -> SUBSET Sockets]
          /\ joined[k.room] \in SUBSET Sockets /\ joined'[k.room] \in SUBSET Sockets
          /\ k.op = "kick"
      BY <1>0, <1>9 DEF KickEvict, Fetched, Shape, Typed
    <2>2. Shape([k EXCEPT !.target = None]) /\ [k EXCEPT !.target = None].op = "kick"
      BY <1>0, <2>1 DEF Shape, CallRecord
    <2>3. /\ Shape(Fetching([k EXCEPT !.target = None], "fetch", joined'[k.room]))
          /\ Shape(Fetching(k, "fetch", joined[k.room]))
      BY <1>0, <2>1, <2>2, FetchingShape
    <2> QED
      BY <1>9, <1>b, <2>1, <2>3 DEF KickEvict
  <1>10. CASE RemoteLeave(c)
    <2>1. Shape([k EXCEPT !.target = None])
      BY <1>0, <1>10 DEF RemoteLeave, Evicting, Shape, CallRecord
    <2>2. joined' \in [Rooms -> SUBSET Sockets]
      BY <1>0, <1>10 DEF RemoteLeave, Evicting, Shape, Typed
    <2> QED
      BY <1>10, <1>b, <2>1, <2>2, IdleShape DEF RemoteLeave
  <1>11. CASE \E n \in Nodes : FetchReply(c, n)
    <2> PICK n \in Nodes : FetchReply(c, n)
      BY <1>11
    <2>1. Shape([k EXCEPT !.seen = @ \cup LocalMembers(k.room, n),
                          !.pending = @ \ {n}])
      BY <1>0 DEF FetchReply, LocalMembers, On, Shape, CallRecord
    <2> QED
      BY <1>b, <2>1 DEF FetchReply, Typed
  <1>12. CASE FetchTimeout(c)
    <2>1. CASE k.op = "disc"
      <3>1. k.node \in Nodes
        BY <1>0, <2>1, LayoutAssumption DEF Shape
      <3> QED
        BY <1>12, <2>1, <3>1, DieTyped DEF FetchTimeout
    <2>2. CASE k.op # "disc"
      <3>1. Evicting(k) => Shape([k EXCEPT !.pc = "evict", !.seen = {}, !.pending = {}])
        BY <1>0 DEF Evicting, Shape, CallRecord
      <3> QED
        BY <1>12, <1>b, <2>2, <3>1, IdleShape DEF FetchTimeout, Typed
    <2> QED
      BY <2>1, <2>2
  <1>13. CASE WriteCount(c)
    <2>1. Written(k) \in Nat
      BY <1>0, <1>13, WrittenIsNat DEF WriteCount
    <2>2. current' \in [Rooms -> Nat]
      BY <1>13, <2>1 DEF WriteCount, AtLeastZero, Typed
    <2> QED
      BY <1>13, <2>2, IdleShape, OneCallShape DEF WriteCount, Typed
  <1>14. CASE WriteMissing(c)
    <2>1. CASE k.op = "disc"
      <3>1. k.node \in Nodes
        BY <1>0, <2>1, LayoutAssumption DEF Shape
      <3> QED
        BY <1>14, <2>1, <3>1, DieTyped DEF WriteMissing
    <2> QED
      BY <1>14, <1>b, <2>1, IdleShape DEF WriteMissing, Typed
  <1>15. CASE DeleteCheck(c)
    <2>1. Shape([k EXCEPT !.pc = "delete"])
      BY <1>0, <1>15 DEF DeleteCheck, Shape, CallRecord
    <2> QED
      BY <1>15, <1>b, <2>1, IdleShape DEF DeleteCheck, Typed
  <1>16. CASE DeleteRow(c)
    <2>1. table' \in [Rooms -> {"unborn", "open", "deleted"}]
      BY <1>16 DEF DeleteRow, Typed
    <2> QED
      BY <1>16, <2>1, IdleShape, OneCallShape DEF DeleteRow, Typed
  <1> QED
    BY <1>1, <1>2, <1>3, <1>4, <1>5, <1>6, <1>7, <1>8, <1>9, <1>10, <1>11,
       <1>12, <1>13, <1>14, <1>15, <1>16 DEF Progress

\* One step of a client.
LEMMA ClientTyped ==
    ASSUME Typed, NEW s \in Sockets, Client(s)
    PROVE  Typed'
  <1>1. CASE Connect(s)
    BY <1>1 DEF Connect, Typed, Live
  <1>2. CASE TuneUid(s)
    BY <1>2 DEF TuneUid, Typed, Live
  <1>3. CASE Hook(s)
    BY <1>3 DEF Hook, Typed, Live
  <1>4. CASE Disconnect(s)
    <2> PICK slot \in [Calls -> RoomsToSettle(s) \cup {None}] :
            call' = [c \in Calls |->
                       IF slot[c] = None THEN call[c]
                       ELSE Fetching(Request("disc", s, slot[c], None),
                                     "fetch", joined[slot[c]])]
      BY <1>4 DEF Disconnect
    <2>1. \A c \in Calls : Shape(call'[c])
      <3> TAKE c \in Calls
      <3>1. CASE slot[c] = None
        BY <3>1 DEF Typed
      <3>2. CASE slot[c] # None
        <4>1. slot[c] \in Rooms /\ s \in joined[slot[c]]
          BY <3>2 DEF RoomsToSettle
        <4>2. joined[slot[c]] \in SUBSET Sockets
          BY <4>1 DEF Typed
        <4> QED
          BY <3>2, <4>1, <4>2, DiscShape
      <3> QED
        BY <3>1, <3>2
    <2>2. call' \in [Calls -> CallRecord]
      BY <2>1 DEF Shape
    <2> QED
      BY <1>4, <2>1, <2>2 DEF Disconnect, Typed, Live
  <1>5. ASSUME NEW c \in Calls, NEW r \in Rooms, NEW t \in Sockets \cup {None},
               NEW op \in {"join", "leave", "kick"}, Ask(c, op, s, r, t)
        PROVE  Typed'
    BY <1>5, RequestShape, OneCallShape DEF Ask, Typed
  <1>6. CASE \E c \in Calls, r \in Rooms : AskJoin(c, s, r) \/ AskLeave(c, s, r)
    BY <1>5, <1>6 DEF AskJoin, AskLeave
  <1>7. CASE \E c \in Calls, r \in Rooms, t \in Sockets : AskKick(c, s, r, t)
    BY <1>5, <1>7 DEF AskKick
  <1> QED
    BY <1>1, <1>2, <1>3, <1>4, <1>6, <1>7 DEF Client

\* Every step keeps them.
LEMMA TypedNext == Typed /\ [Next]_vars => Typed'
  <1> SUFFICES ASSUME Typed, [Next]_vars PROVE Typed'
    OBVIOUS
  <1>1. CASE \E c \in Calls : Progress(c)
    BY <1>1, ProgressTyped
  <1>2. CASE \E s \in Sockets : Client(s)
    BY <1>2, ClientTyped
  <1>3. CASE \E r \in Rooms : CreateRoom(r)
    BY <1>3 DEF CreateRoom, Typed
  <1>4. ASSUME NEW c \in Calls, NEW r \in Rooms, NEW n \in Nodes, DeleteAsk(c, r, n)
        PROVE  Typed'
    <2>1. Shape([Idle EXCEPT !.op = "delete", !.pc = "count", !.room = r, !.node = n])
      BY NoneAssumption DEF Shape, Idle, CallRecord
    <2> QED
      BY <1>4, <2>1, OneCallShape DEF DeleteAsk, Typed
  <1>5. ASSUME NEW n \in Nodes, Crash(n)
        PROVE  Typed'
    BY <1>5, DieTyped DEF Crash
  <1>6. CASE UNCHANGED vars
    BY <1>6 DEF vars, Typed, Shape
  <1> QED
    BY <1>1, <1>2, <1>3, <1>4, <1>5, <1>6 DEF Next

\* They hold always.
THEOREM TypedAlways == Spec => []Typed
  BY TypedInit, TypedNext, PTL DEF Spec

\* The variables of the rooms keep their types; in particular the count
\* stored in the table is never negative.
THEOREM TypeCorrect == Spec => []TypeOK
  <1>1. Typed => TypeOK
    BY DEF Typed, TypeOK
  <1> QED
    BY <1>1, TypedAlways, PTL

\* No handler ever computes a negative count, whatever the clients do, however
\* the answers are delayed and whichever node dies: the guard of
\* updateRoomInfoByDelta is dead code.
THEOREM ClampIsDeadCode == Spec => []ClampNeverNeeded
  <1>1. Typed => ClampNeverNeeded
    BY WrittenIsNat DEF Typed, ClampNeverNeeded
  <1> QED
    BY <1>1, TypedAlways, PTL

------------------------------------------------------------------------------
(* Members are connected. *)

\* Every step keeps gone sockets out of the rooms.
LEMMA NoZombiesNext == Typed /\ NoZombies /\ [Next]_vars => NoZombies'
  <1> SUFFICES ASSUME Typed, NoZombies, [Next]_vars PROVE NoZombies'
    OBVIOUS
  <1>0. ASSUME stage' = stage, \A r \in Rooms : joined'[r] \subseteq joined[r]
        PROVE  NoZombies'
    BY <1>0 DEF NoZombies
  <1>d. ASSUME NEW n \in Nodes, NEW S, Die(n, S)
        PROVE  NoZombies'
    BY <1>d DEF NoZombies, Die, On, Typed
  <1>1. ASSUME NEW c \in Calls, Progress(c)
        PROVE  NoZombies'
    <2> DEFINE k == call[c]
    <2>0. Shape(k)
      BY DEF Typed
    <2>n. k.op = "disc" => k.node \in Nodes
      BY <2>0, LayoutAssumption DEF Shape
    <2>1. CASE JoinEnter(c)
      BY <2>1 DEF JoinEnter, NoZombies, Typed
    <2>2. CASE LeaveStart(c) \/ KickEvict(c) \/ RemoteLeave(c)
      <3>1. stage' = stage /\ \A r \in Rooms : joined'[r] \subseteq joined[r]
        BY <2>2 DEF LeaveStart, KickEvict, RemoteLeave, Typed
      <3> QED
        BY <1>0, <3>1
    <2>3. CASE FetchTimeout(c) \/ WriteMissing(c)
      BY <1>0, <1>d, <2>3, <2>n DEF FetchTimeout, WriteMissing
    <2>4. CASE \/ Refuse(c) \/ JoinStart(c) \/ JoinAdmit(c) \/ JoinPassword(c)
               \/ KickStart(c) \/ KickAuthorised(c)
               \/ \E n \in Nodes : FetchReply(c, n)
               \/ WriteCount(c) \/ DeleteCheck(c) \/ DeleteRow(c)
      <3>1. UNCHANGED <<stage, joined>>
        BY <2>4 DEF Refuse, JoinStart, JoinAdmit, JoinPassword, KickStart,
                    KickAuthorised, FetchReply, WriteCount, DeleteCheck, DeleteRow
      <3> QED
        BY <1>0, <3>1
    <2> QED
      BY <1>1, <2>1, <2>2, <2>3, <2>4 DEF Progress
  <1>2. ASSUME NEW s \in Sockets, Client(s)
        PROVE  NoZombies'
    <2>1. CASE Connect(s)
      BY <2>1 DEF Connect, NoZombies, Live, Typed
    <2>2. CASE TuneUid(s)
      BY <2>2 DEF TuneUid, NoZombies, Live, Typed
    <2>3. CASE Hook(s)
      BY <2>3 DEF Hook, NoZombies, Live, Typed
    <2>4. CASE Disconnect(s)
      BY <2>4 DEF Disconnect, NoZombies, Live, Typed
    <2>5. CASE \/ \E c \in Calls, r \in Rooms : AskJoin(c, s, r) \/ AskLeave(c, s, r)
               \/ \E c \in Calls, r \in Rooms, t \in Sockets : AskKick(c, s, r, t)
      BY <1>0, <2>5 DEF AskJoin, AskLeave, AskKick, Ask
    <2> QED
      BY <1>2, <2>1, <2>2, <2>3, <2>4, <2>5 DEF Client
  <1>3. CASE \/ \E r \in Rooms : CreateRoom(r)
             \/ \E c \in Calls, r \in Rooms, n \in Nodes : DeleteAsk(c, r, n)
             \/ UNCHANGED vars
    BY <1>0, <1>3 DEF CreateRoom, DeleteAsk, vars
  <1>4. CASE \E n \in Nodes : Crash(n)
    BY <1>4, <1>d DEF Crash
  <1> QED
    BY <1>1, <1>2, <1>3, <1>4 DEF Next

\* Only connected sockets are ever members of a room.
THEOREM MembersAreConnected == Spec => []NoZombies
  <1>1. Init => NoZombies
    BY DEF Init, NoZombies
  <1> QED
    BY <1>1, TypedAlways, NoZombiesNext, PTL DEF Spec

------------------------------------------------------------------------------
(* Occupancy.  A join that was admitted holds a place from its capacity    *)
(* check to its entry.  A check that succeeds finds fewer than Total       *)
(* members; the other joins holding places are then in `crowded`, or none. *)

Places ==
    \A r \in Checked, n \in Nodes :
        Cardinality(LocalMembers(r, n)) + Cardinality(Admitted(r, n)) <= Limit(r, n)

\* The members of a room on a node, and the joins on their way, are finite.
LEMMA PlacesFinite ==
    ASSUME NEW r, NEW n
    PROVE  /\ IsFiniteSet(LocalMembers(r, n)) /\ IsFiniteSet(Admitted(r, n))
           /\ Cardinality(LocalMembers(r, n)) \in Nat
           /\ Cardinality(Admitted(r, n)) \in Nat
           /\ Cardinality(Admitted(r, n)) <= Cardinality(Calls)
           /\ Cardinality(Calls) \in Nat /\ Cardinality(Calls) > 0
  <1>1. LocalMembers(r, n) \subseteq Sockets /\ Admitted(r, n) \subseteq Calls
    BY DEF LocalMembers, Admitted, On
  <1>2. IsFiniteSet(LocalMembers(r, n)) /\ IsFiniteSet(Admitted(r, n))
    BY <1>1, SocketsAssumption, CallsAssumption, FS_Subset
  <1>3. Cardinality(Admitted(r, n)) <= Cardinality(Calls)
    BY <1>1, CallsAssumption, FS_Subset
  <1>4. Cardinality(Calls) \in Nat /\ Cardinality(Calls) # 0
    BY CallsAssumption, FS_CardinalityType, FS_EmptySet
  <1> QED
    BY <1>2, <1>3, <1>4, FS_CardinalityType

\* What a node may let in is never lowered.
LEMMA Limits ==
    ASSUME NEW r \in Checked, NEW n, crowded \subseteq crowded'
    PROVE  /\ Total[r] \in Nat /\ Limit(r, n) \in Nat /\ Limit(r, n)' \in Nat
           /\ Total[r] <= Limit(r, n) /\ Limit(r, n) <= Limit(r, n)'
  <1>1. Total[r] \in Nat
    BY LayoutAssumption DEF Checked
  <1>2. Cardinality(Calls) \in Nat /\ Cardinality(Calls) > 0
    BY PlacesFinite
  <1>3. /\ Limit(r, n) \in {Total[r], Total[r] + (Cardinality(Calls) - 1)}
        /\ Limit(r, n)' \in {Total[r], Total[r] + (Cardinality(Calls) - 1)}
        /\ Limit(r, n) = Total[r] \/ Limit(r, n)' = Limit(r, n)
    BY <1>1, <1>2 DEF Limit
  <1> QED
    BY <1>1, <1>2, <1>3

\* The bound holds at first.
LEMMA PlacesInit == SInit => Places
  <1> SUFFICES ASSUME SInit, NEW r \in Checked, NEW n \in Nodes
               PROVE  Cardinality(LocalMembers(r, n)) + Cardinality(Admitted(r, n))
                          <= Limit(r, n)
    BY DEF Places
  <1>1. LocalMembers(r, n) = {} /\ Admitted(r, n) = {}
    BY DEF SInit, Init, LocalMembers, Admitted, Idle, Checked
  <1>2. Cardinality(LocalMembers(r, n)) = 0 /\ Cardinality(Admitted(r, n)) = 0
    BY <1>1, FS_EmptySet
  <1>3. Total[r] \in Nat /\ Limit(r, n) = Total[r]
    BY LayoutAssumption DEF Checked, SInit, Limit
  <1> QED
    BY <1>2, <1>3

\* A step that admits nobody and lets nobody in.
LEMMA PlacesKept ==
    ASSUME Places, crowded \subseteq crowded',
           \A r \in Checked : joined'[r] \subseteq joined[r],
           \A c \in Calls : call'[c].op = "join" /\ call'[c].pc \in {"verify", "fetch"} =>
               /\ call[c].op = "join" /\ call[c].pc \in {"verify", "fetch"}
               /\ call'[c].room = call[c].room /\ call'[c].node = call[c].node
    PROVE  Places'
  <1> SUFFICES ASSUME NEW r \in Checked, NEW n \in Nodes
               PROVE  Cardinality(LocalMembers(r, n)') + Cardinality(Admitted(r, n)')
                          <= Limit(r, n)'
    BY DEF Places
  <1>1. LocalMembers(r, n)' \subseteq LocalMembers(r, n)
    BY DEF LocalMembers
  <1>2. Admitted(r, n)' \subseteq Admitted(r, n)
    BY DEF Admitted
  <1>3. /\ Cardinality(LocalMembers(r, n)') <= Cardinality(LocalMembers(r, n))
        /\ Cardinality(Admitted(r, n)') <= Cardinality(Admitted(r, n))
        /\ Cardinality(LocalMembers(r, n)') \in Nat
        /\ Cardinality(Admitted(r, n)') \in Nat
    BY <1>1, <1>2, PlacesFinite, FS_Subset, FS_CardinalityType
  <1>4. /\ Cardinality(LocalMembers(r, n)) + Cardinality(Admitted(r, n)) <= Limit(r, n)
        /\ Limit(r, n) \in Nat /\ Limit(r, n)' \in Nat /\ Limit(r, n) <= Limit(r, n)'
    BY Limits DEF Places
  <1> QED
    BY <1>3, <1>4, PlacesFinite

\* An admission, which has found a place, keeps the bound.
LEMMA AdmitPlaces ==
    ASSUME Typed, Places, crowded' = crowded \cup Overlapping',
           NEW c \in Calls, JoinAdmit(c)
    PROVE  Places'
  <1> DEFINE k == call[c]
  <1>0. /\ Shape(k) /\ k.op = "join" /\ k.room \in Rooms /\ k.pc = "lookup"
        /\ Cardinality(LocalMembers(k.room, k.node)) < Total[k.room]
        /\ joined' = joined
    BY DEF Typed, JoinAdmit, Shape
  <1>1. \A d \in Calls : d # c => call'[d] = call[d]
    BY DEF JoinAdmit, Typed
  <1>2. /\ call'[c].op = "join" /\ call'[c].pc \in {"verify", "fetch"}
        /\ call'[c].room = k.room /\ call'[c].node = k.node
    BY <1>0 DEF JoinAdmit, Typed, Fetching, CallRecord
  <1> SUFFICES ASSUME NEW r \in Checked, NEW n \in Nodes
               PROVE  Cardinality(LocalMembers(r, n)') + Cardinality(Admitted(r, n)')
                          <= Limit(r, n)'
    BY DEF Places
  <1>3. LocalMembers(r, n)' = LocalMembers(r, n)
    BY <1>0 DEF LocalMembers
  <1>4. /\ Total[r] \in Nat /\ Cardinality(LocalMembers(r, n)) \in Nat
        /\ Cardinality(Admitted(r, n)) \in Nat /\ Cardinality(Calls) \in Nat
        /\ Limit(r, n) \in Nat /\ Limit(r, n)' \in Nat /\ Limit(r, n) <= Limit(r, n)'
        /\ Cardinality(LocalMembers(r, n)) + Cardinality(Admitted(r, n)) <= Limit(r, n)
    BY Limits, PlacesFinite, LayoutAssumption DEF Places, Checked
  <1>5. CASE r = k.room /\ n = k.node
    <2>1. Admitted(r, n)' \subseteq Calls /\ c \in Admitted(r, n)'
      BY <1>2, <1>5 DEF Admitted
    <2>2. CASE <<r, n>> \in crowded'
      <3>1. Limit(r, n)' = Total[r] + (Cardinality(Calls) - 1)
        BY <2>2, <1>4 DEF Limit
      <3>2. /\ Cardinality(Admitted(r, n)') <= Cardinality(Calls)
            /\ Cardinality(Admitted(r, n)') \in Nat
        BY <2>1, CallsAssumption, FS_Subset, FS_CardinalityType
      <3> QED
        BY <1>0, <1>3, <1>4, <1>5, <3>1, <3>2
    <2>3. CASE <<r, n>> \notin crowded'
      <3>1. <<r, n>> \in Rooms \X Nodes
        BY DEF Checked
      <3>2. \A d \in Admitted(r, n)' : d = c
        BY <2>1, <2>3, <3>1 DEF Overlapping
      <3>3. Admitted(r, n)' = {c}
        BY <2>1, <3>2
      <3>4. Cardinality(Admitted(r, n)') = 1
        BY <3>3, FS_Singleton
      <3>5. Limit(r, n)' = Total[r]
        BY <2>3, <1>4 DEF Limit
      <3> QED
        BY <1>0, <1>3, <1>4, <1>5, <3>4, <3>5
    <2> QED
      BY <2>2, <2>3
  <1>6. CASE ~(r = k.room /\ n = k.node)
    <2>1. Admitted(r, n)' = Admitted(r, n)
      BY <1>0, <1>1, <1>2, <1>6 DEF Admitted
    <2> QED
      BY <1>3, <1>4, <2>1
  <1> QED
    BY <1>5, <1>6

\* A set that gains one element grows by one at most.
LEMMA AtMostOneMore ==
    ASSUME NEW m, NEW x, NEW z, IsFiniteSet(m), z = m \/ z = m \cup {x}
    PROVE  Cardinality(z) \in Nat /\ Cardinality(z) <= Cardinality(m) + 1
  <1>1. Cardinality(m) \in Nat
    BY FS_CardinalityType
  <1>2. Cardinality(m \cup {x}) \in {Cardinality(m), Cardinality(m) + 1}
    BY <1>1, FS_AddElement
  <1>3. CASE z = m
    BY <1>1, <1>3
  <1>4. CASE z = m \cup {x}
    <2>1. Cardinality(z) = Cardinality(m \cup {x})
      BY <1>4
    <2> QED
      BY <1>1, <1>2, <2>1
  <1> QED
    BY <1>3, <1>4

\* So does an entry: one join fewer is on its way.
LEMMA EnterPlaces ==
    ASSUME Typed, Places, crowded \subseteq crowded', NEW c \in Calls, JoinEnter(c)
    PROVE  Places'
  <1> DEFINE k == call[c]
  <1>0. /\ Shape(k) /\ k.op = "join" /\ k.room \in Rooms /\ k.pc = "fetch"
        /\ k.sock \in Sockets /\ k.node = NodeOf[k.sock]
    BY DEF Typed, JoinEnter, Fetched, Shape
  <1>1. \A d \in Calls : d # c => call'[d] = call[d]
    BY DEF JoinEnter, Typed
  <1>2. call'[c].pc = "write"
    BY <1>0 DEF JoinEnter, Typed, CallRecord
  <1> SUFFICES ASSUME NEW r \in Checked, NEW n \in Nodes
               PROVE  Cardinality(LocalMembers(r, n)') + Cardinality(Admitted(r, n)')
                          <= Limit(r, n)'
    BY DEF Places
  <1>4. /\ Cardinality(LocalMembers(r, n)) \in Nat /\ Cardinality(Admitted(r, n)) \in Nat
        /\ Limit(r, n) \in Nat /\ Limit(r, n)' \in Nat /\ Limit(r, n) <= Limit(r, n)'
        /\ Cardinality(LocalMembers(r, n)) + Cardinality(Admitted(r, n)) <= Limit(r, n)
        /\ IsFiniteSet(LocalMembers(r, n)) /\ IsFiniteSet(Admitted(r, n))
    BY Limits, PlacesFinite DEF Places
  <1>5. CASE r = k.room /\ n = k.node
    <2>1. Admitted(r, n)' = Admitted(r, n) \ {c} /\ c \in Admitted(r, n)
      BY <1>0, <1>1, <1>2, <1>5 DEF Admitted
    <2>2. Cardinality(Admitted(r, n)') = Cardinality(Admitted(r, n)) - 1
      BY <1>4, <2>1, FS_RemoveElement
    <2>3. \/ LocalMembers(r, n)' = LocalMembers(r, n)
          \/ LocalMembers(r, n)' = LocalMembers(r, n) \cup {k.sock}
      BY <1>0, <1>5 DEF JoinEnter, LocalMembers, On, Typed
    <2>4. /\ Cardinality(LocalMembers(r, n)') <= Cardinality(LocalMembers(r, n)) + 1
          /\ Cardinality(LocalMembers(r, n)') \in Nat
      BY <1>4, <2>3, AtMostOneMore
    <2> QED
      BY <1>4, <2>2, <2>4
  <1>6. CASE ~(r = k.room /\ n = k.node)
    <2>1. Admitted(r, n)' = Admitted(r, n)
      BY <1>0, <1>1, <1>2, <1>6 DEF Admitted
    <2>2. LocalMembers(r, n)' = LocalMembers(r, n)
      BY <1>0, <1>6 DEF JoinEnter, LocalMembers, On, Typed, Checked
    <2> QED
      BY <1>4, <2>1, <2>2
  <1> QED
    BY <1>5, <1>6

\* Every step keeps the bound.
LEMMA PlacesNext == Typed /\ Places /\ [SNext]_svars => Places'
  <1> SUFFICES ASSUME Typed, Places, SNext PROVE Places'
    BY DEF svars, Places, LocalMembers, Admitted, Limit
  <1>c. crowded' = crowded \cup Overlapping' /\ crowded \subseteq crowded'
    BY DEF SNext
  <1> DEFINE Holds(k) == k.op = "join" /\ k.pc \in {"verify", "fetch"}
  <1>i. ~Holds(Idle)
    BY DEF Idle
  <1>o. ASSUME NEW c \in Calls, NEW k, call' = [call EXCEPT ![c] = k],
               \A r \in Rooms : joined'[r] \subseteq joined[r],
               Holds(k) => /\ Holds(call[c]) /\ k.room = call[c].room
                           /\ k.node = call[c].node
        PROVE  Places'
    <2>1. \A d \in Calls : IF d = c THEN call'[d] = k ELSE call'[d] = call[d]
      BY <1>o DEF Typed
    <2> QED
      BY <1>o, <2>1, <1>c, PlacesKept DEF Checked
  <1>d. ASSUME NEW n \in Nodes, NEW S \in SUBSET InTransit(n), Die(n, S)
        PROVE  Places'
    <2>1. ASSUME NEW c \in Calls, Holds(call'[c])
          PROVE  /\ Holds(call[c])
                 /\ call'[c].room = call[c].room /\ call'[c].node = call[c].node
      <3> DEFINE k == call[c]
      <3>1. /\ call'[c] = AfterCrash(k, n, c \in S) /\ k \in CallRecord
            /\ c \in S => k.op = "kick"
        BY <1>d DEF Die, Typed, InTransit, Evicting
      <3> QED
        BY <2>1, <3>1, <1>i DEF AfterCrash, CallRecord
    <2>2. \A r \in Rooms : joined'[r] \subseteq joined[r]
      BY <1>d DEF Die
    <2> QED
      BY <2>1, <2>2, <1>c, PlacesKept DEF Checked
  <1>1. ASSUME NEW c \in Calls, Progress(c)
        PROVE  Places'
    <2> DEFINE k == call[c]
    <2>0. Shape(k) /\ k \in CallRecord
      BY DEF Typed, Shape
    <2>n. k.op = "disc" => k.node \in Nodes
      BY <2>0, LayoutAssumption DEF Shape
    <2>1. CASE JoinAdmit(c)
      BY <2>1, <1>c, AdmitPlaces
    <2>2. CASE JoinEnter(c)
      BY <2>2, <1>c, EnterPlaces
    <2>3. CASE Refuse(c) \/ WriteCount(c) \/ DeleteRow(c)
      BY <1>i, <1>o, <2>3 DEF Refuse, WriteCount, DeleteRow
    <2>4. CASE JoinStart(c) \/ KickStart(c)
      <3>1. PICK pc \in {"lookup", "modcheck"} :
                /\ call' = [call EXCEPT ![c] = [k EXCEPT !.pc = pc]]
                /\ joined' = joined
        BY <2>4 DEF JoinStart, KickStart
      <3>2. ~Holds([k EXCEPT !.pc = pc])
        BY <2>0 DEF CallRecord
      <3> QED
        BY <1>o, <3>1, <3>2
    <2>5. CASE JoinPassword(c)
      <3> DEFINE f == Fetching(k, "fetch", joined[k.room])
      <3>1. f.room = k.room /\ f.node = k.node /\ f.op = k.op /\ Holds(k)
        BY <2>0, <2>5 DEF Fetching, CallRecord, JoinPassword, Shape
      <3>2. call' = [call EXCEPT ![c] = f] /\ joined' = joined
        BY <2>5 DEF JoinPassword
      <3> HIDE DEF f
      <3> QED
        BY <1>o, <3>1, <3>2
    <2>6. CASE LeaveStart(c) \/ KickAuthorised(c) \/ KickEvict(c)
      <3>1. k.op \in {"leave", "kick"}
        BY <2>0, <2>6 DEF LeaveStart, KickAuthorised, KickEvict, Fetched, Shape
      <3>2. \A r \in Rooms : joined'[r] \subseteq joined[r]
        BY <2>6 DEF LeaveStart, KickAuthorised, KickEvict, Typed
      <3>3. \E pc \in {"find", "fetch"}, m \in {joined[k.room], joined'[k.room]},
               e \in {k, [k EXCEPT !.target = None]} :
                  call' = [call EXCEPT ![c] = Fetching(e, pc, m)]
        BY <2>6 DEF LeaveStart, KickAuthorised, KickEvict
      <3>4. PICK pc \in {"find", "fetch"}, m \in {joined[k.room], joined'[k.room]},
                 e \in {k, [k EXCEPT !.target = None]} :
                    call' = [call EXCEPT ![c] = Fetching(e, pc, m)]
        BY <3>3
      <3>5. Fetching(e, pc, m).op = k.op
        BY <2>0 DEF Fetching, CallRecord
      <3> QED
        BY <1>o, <3>1, <3>2, <3>4, <3>5
    <2>7. CASE RemoteLeave(c)
      <3>1. \A r \in Rooms : joined'[r] \subseteq joined[r]
        BY <2>7 DEF RemoteLeave, Typed
      <3>2. k.op = "kick" /\ [k EXCEPT !.target = None].op = "kick"
        BY <2>0, <2>7 DEF RemoteLeave, Evicting, CallRecord
      <3> QED
        BY <1>i, <1>o, <2>7, <3>1, <3>2 DEF RemoteLeave
    <2>8. ASSUME NEW n \in Nodes, FetchReply(c, n)
          PROVE  Places'
      <3> DEFINE j == [k EXCEPT !.seen = @ \cup LocalMembers(k.room, n),
                                !.pending = @ \ {n}]
      <3>1. j.op = k.op /\ j.pc = k.pc /\ j.room = k.room /\ j.node = k.node
        BY <2>0 DEF CallRecord
      <3>2. call' = [call EXCEPT ![c] = j] /\ joined' = joined
        BY <2>8 DEF FetchReply
      <3> HIDE DEF j
      <3> QED
        BY <1>o, <3>1, <3>2
    <2>9. CASE FetchTimeout(c) \/ WriteMissing(c)
      <3>1. CASE k.op = "disc"
        BY <1>d, <2>9, <2>n, <3>1 DEF FetchTimeout, WriteMissing
      <3>2. CASE k.op # "disc"
        <4> DEFINE e == [k EXCEPT !.pc = "evict", !.seen = {}, !.pending = {}]
        <4>1. ~Holds(e)
          BY <2>0 DEF CallRecord
        <4>2. /\ joined' = joined
              /\ call' = [call EXCEPT ![c] = e] \/ call' = [call EXCEPT ![c] = Idle]
          BY <2>9, <3>2 DEF FetchTimeout, WriteMissing
        <4> HIDE DEF e
        <4> QED
          BY <1>i, <1>o, <4>1, <4>2
      <3> QED
        BY <3>1, <3>2
    <2>10. CASE DeleteCheck(c)
      <3>1. ~Holds([k EXCEPT !.pc = "delete"])
        BY <2>0 DEF CallRecord
      <3> QED
        BY <1>i, <1>o, <2>10, <3>1 DEF DeleteCheck
    <2> QED
      BY <1>1, <2>1, <2>2, <2>3, <2>4, <2>5, <2>6, <2>7, <2>8, <2>9, <2>10
         DEF Progress
  <1>2. ASSUME NEW s \in Sockets, Client(s)
        PROVE  Places'
    <2>1. CASE Connect(s) \/ TuneUid(s) \/ Hook(s)
      <3>1. call' = call /\ \A r \in Checked : joined'[r] = joined[r]
        BY <2>1, LayoutAssumption DEF Connect, TuneUid, Hook, Checked
      <3> QED
        BY <3>1, <1>c, PlacesKept
    <2>2. CASE Disconnect(s)
      <3> PICK slot \in [Calls -> RoomsToSettle(s) \cup {None}] :
              call' = [c \in Calls |->
                         IF slot[c] = None THEN call[c]
                         ELSE Fetching(Request("disc", s, slot[c], None),
                                       "fetch", joined[slot[c]])]
        BY <2>2 DEF Disconnect
      <3>1. \A c \in Calls : call'[c] = call[c] \/ call'[c].op = "disc"
        BY DEF Fetching, Request
      <3>2. \A r \in Rooms : joined'[r] \subseteq joined[r]
        BY <2>2 DEF Disconnect
      <3> QED
        BY <3>1, <3>2, <1>c, PlacesKept DEF Checked
    <2>3. ASSUME NEW c \in Calls, NEW r, NEW t, NEW op, Ask(c, op, s, r, t)
          PROVE  Places'
      <3>1. ~Holds(Request(op, s, r, t))
        BY DEF Request
      <3> QED
        BY <1>o, <2>3, <3>1 DEF Ask
    <2>4. CASE \/ \E c \in Calls, r \in Rooms : AskJoin(c, s, r) \/ AskLeave(c, s, r)
               \/ \E c \in Calls, r \in Rooms, t \in Sockets : AskKick(c, s, r, t)
      BY <2>3, <2>4 DEF AskJoin, AskLeave, AskKick
    <2> QED
      BY <1>2, <2>1, <2>2, <2>4 DEF Client
  <1>3. CASE \E r \in Rooms : CreateRoom(r)
    BY <1>3, <1>c, PlacesKept DEF CreateRoom
  <1>4. ASSUME NEW c \in Calls, NEW r \in Rooms, NEW n \in Nodes, DeleteAsk(c, r, n)
        PROVE  Places'
    <2>1. ~Holds([Idle EXCEPT !.op = "delete", !.pc = "count", !.room = r, !.node = n])
      BY DEF Idle
    <2> QED
      BY <1>o, <1>4, <2>1 DEF DeleteAsk
  <1>5. CASE \E n \in Nodes : Crash(n)
    BY <1>5, <1>d DEF Crash
  <1> QED
    BY <1>1, <1>2, <1>3, <1>4, <1>5 DEF SNext, Next

\* A node lets more than room.total members into a room only where joins have
\* overlapped, and then at most one more for each other join that can be in
\* flight: one at a time, the node-local check is exact.
THEOREM OverfullOnlyByOverlap == SSpec => []OverfullExplained
  <1>1. Places => OverfullExplained
    <2> SUFFICES ASSUME Places, NEW r \in Checked, NEW n \in Nodes
                 PROVE  Cardinality(LocalMembers(r, n)) <= Limit(r, n)
      BY DEF OverfullExplained
    <2>1. /\ Cardinality(LocalMembers(r, n)) + Cardinality(Admitted(r, n)) <= Limit(r, n)
          /\ Total[r] \in Nat
      BY LayoutAssumption DEF Places, Checked
    <2>2. Limit(r, n) \in Int
      BY <2>1, PlacesFinite DEF Limit
    <2> QED
      BY <2>1, <2>2, PlacesFinite
  <1>2. SInit => Init
    BY DEF SInit
  <1>3. [SNext]_svars => [Next]_vars
    BY DEF SNext, svars, vars
  <1> QED
    BY <1>1, <1>2, <1>3, PlacesInit, PlacesNext, TypedInit, TypedNext, PTL DEF SSpec

------------------------------------------------------------------------------
(* Who may evict. *)

Rightful(k) ==
    /\ k.op = "kick" /\ k.pc \in {"find", "fetch", "evict"} =>
           Owner[k.sock] = Moderator[k.room]
    /\ Evicting(k) => k.target # k.sock

Rights == \A c \in Calls : Rightful(call[c])

\* Every step keeps the moderator's rights.
LEMMA RightsNext == Typed /\ Rights /\ [Next]_vars => Rights'
  <1> SUFFICES ASSUME Typed, Rights, [Next]_vars PROVE Rights'
    OBVIOUS
  <1>i. Rightful(Idle)
    BY DEF Idle, Rightful, Evicting
  <1>o. ASSUME NEW c \in Calls, NEW k, call' = [call EXCEPT ![c] = k], Rightful(k)
        PROVE  Rights'
    <2>1. \A e \in Calls : Rightful(call'[e])
      BY <1>o DEF Rights, Typed
    <2> QED
      BY <2>1 DEF Rights, Rightful, Evicting
  <1>d. ASSUME NEW n \in Nodes, NEW S \in SUBSET InTransit(n), Die(n, S)
        PROVE  Rights'
    <2>1. ASSUME NEW c \in Calls
          PROVE  Rightful(call'[c])
      <3> DEFINE k == call[c]
      <3>1. /\ call'[c] = AfterCrash(k, n, c \in S) /\ k \in CallRecord
            /\ c \in S => Evicting(k)
            /\ Rightful(k)
        BY <1>d DEF Die, Typed, InTransit, Rights
      <3>2. CASE call'[c] = Idle
        BY <1>i, <3>2
      <3>3. CASE call'[c] = [k EXCEPT !.pc = "evict", !.seen = {}, !.pending = {}]
                 /\ Evicting(k)
        BY <3>1, <3>3 DEF Rightful, Evicting, CallRecord
      <3>4. CASE call'[c] = [k EXCEPT !.target = None, !.pending = (@ \ {n}) \cup {None}]
        BY <3>1, <3>4 DEF Rightful, Evicting, CallRecord
      <3>5. CASE call'[c] = [k EXCEPT !.pending = (@ \ {n}) \cup {None}]
        BY <3>1, <3>5 DEF Rightful, Evicting, CallRecord
      <3> QED
        BY <3>1, <3>2, <3>3, <3>4, <3>5 DEF AfterCrash
    <2> QED
      BY <2>1 DEF Rights, Rightful, Evicting
  <1>1. ASSUME NEW c \in Calls, Progress(c)
        PROVE  Rights'
    <2> DEFINE k == call[c]
    <2>0. Shape(k) /\ k \in CallRecord /\ Rightful(k)
      BY DEF Typed, Shape, Rights
    <2>n. k.op = "disc" => k.node \in Nodes
      BY <2>0, LayoutAssumption DEF Shape
    <2>1. CASE Refuse(c) \/ WriteCount(c) \/ DeleteRow(c)
      BY <1>i, <1>o, <2>1 DEF Refuse, WriteCount, DeleteRow
    <2>2. CASE JoinStart(c) \/ KickStart(c) \/ JoinEnter(c) \/ DeleteCheck(c)
      <3>1. PICK pc \in {"lookup", "modcheck", "write", "delete"} :
                \/ call' = [call EXCEPT ![c] = [k EXCEPT !.pc = pc]]
                \/ call' = [call EXCEPT ![c] = Idle]
        BY <2>2 DEF JoinStart, KickStart, JoinEnter, DeleteCheck
      <3>2. Rightful([k EXCEPT !.pc = pc])
        BY <2>0 DEF CallRecord, Rightful, Evicting
      <3> QED
        BY <1>i, <1>o, <3>1, <3>2
    <2>3. CASE JoinAdmit(c) \/ JoinPassword(c) \/ LeaveStart(c)
      <3>1. k.op \in {"join", "leave"}
        BY <2>0, <2>3 DEF JoinAdmit, JoinPassword, LeaveStart, Shape
      <3>2. PICK m \in {joined[k.room], joined'[k.room]} :
                \/ call' = [call EXCEPT ![c] = Fetching(k, "fetch", m)]
                \/ call' = [call EXCEPT ![c] = [k EXCEPT !.pc = "verify"]]
        BY <2>3 DEF JoinAdmit, JoinPassword, LeaveStart
      <3>3. Rightful(Fetching(k, "fetch", m)) /\ Rightful([k EXCEPT !.pc = "verify"])
        BY <2>0, <3>1 DEF Fetching, CallRecord, Rightful, Evicting
      <3> QED
        BY <1>o, <3>2, <3>3
    <2>4. CASE KickAuthorised(c)
      <3>1. Rightful(Fetching(k, "find", joined[k.room]))
        BY <2>0, <2>4 DEF KickAuthorised, Fetching, CallRecord, Rightful, Evicting
      <3> QED
        BY <1>o, <2>4, <3>1 DEF KickAuthorised
    <2>5. CASE KickEvict(c)
      <3>1. /\ k.op = "kick" /\ Owner[k.sock] = Moderator[k.room]
            /\ k.target # k.sock
        BY <2>0, <2>5 DEF KickEvict, Fetched, Shape, Rightful
      <3>2. /\ Rightful(Fetching([k EXCEPT !.target = None], "fetch", joined'[k.room]))
            /\ Rightful(Fetching(k, "fetch", joined[k.room]))
        BY <2>0, <3>1 DEF Fetching, CallRecord, Rightful, Evicting
      <3> QED
        BY <1>o, <2>5, <3>2 DEF KickEvict
    <2>6. CASE RemoteLeave(c)
      <3>1. Rightful([k EXCEPT !.target = None])
        BY <2>0 DEF CallRecord, Rightful, Evicting
      <3> QED
        BY <1>i, <1>o, <2>6, <3>1 DEF RemoteLeave
    <2>7. ASSUME NEW n \in Nodes, FetchReply(c, n)
          PROVE  Rights'
      <3>1. Rightful([k EXCEPT !.seen = @ \cup LocalMembers(k.room, n),
                               !.pending = @ \ {n}])
        BY <2>0 DEF CallRecord, Rightful, Evicting
      <3> QED
        BY <1>o, <2>7, <3>1 DEF FetchReply
    <2>8. CASE FetchTimeout(c) \/ WriteMissing(c)
      <3>1. CASE k.op = "disc"
        BY <1>d, <2>8, <2>n, <3>1 DEF FetchTimeout, WriteMissing
      <3>2. CASE k.op # "disc"
        <4>1. Evicting(k) =>
                  Rightful([k EXCEPT !.pc = "evict", !.seen = {}, !.pending = {}])
          BY <2>0 DEF CallRecord, Rightful, Evicting
        <4> QED
          BY <1>i, <1>o, <2>8, <3>2, <4>1 DEF FetchTimeout, WriteMissing
      <3> QED
        BY <3>1, <3>2
    <2> QED
      BY <1>1, <2>1, <2>2, <2>3, <2>4, <2>5, <2>6, <2>7, <2>8 DEF Progress
  <1>2. ASSUME NEW s \in Sockets, Client(s)
        PROVE  Rights'
    <2>1. CASE Connect(s) \/ TuneUid(s) \/ Hook(s)
      BY <2>1 DEF Connect, TuneUid, Hook, Rights, Rightful, Evicting
    <2>2. CASE Disconnect(s)
      <3> PICK slot \in [Calls -> RoomsToSettle(s) \cup {None}] :
              call' = [c \in Calls |->
                         IF slot[c] = None THEN call[c]
                         ELSE Fetching(Request("disc", s, slot[c], None),
                                       "fetch", joined[slot[c]])]
        BY <2>2 DEF Disconnect
      <3>1. \A c \in Calls : call'[c] = call[c] \/ call'[c].op = "disc"
        BY DEF Fetching, Request
      <3>2. ASSUME NEW c \in Calls
            PROVE  Rightful(call'[c])
        <4>1. CASE call'[c] = call[c]
          BY <4>1 DEF Rights
        <4>2. CASE call'[c].op = "disc"
          BY <4>2 DEF Rightful, Evicting
        <4> QED
          BY <3>1, <4>1, <4>2
      <3> QED
        BY <3>2 DEF Rights, Rightful, Evicting
    <2>3. ASSUME NEW c \in Calls, NEW r, NEW t, NEW op, Ask(c, op, s, r, t)
          PROVE  Rights'
      <3>1. Rightful(Request(op, s, r, t))
        BY DEF Request, Rightful, Evicting
      <3> QED
        BY <1>o, <2>3, <3>1 DEF Ask
    <2>4. CASE \/ \E c \in Calls, r \in Rooms : AskJoin(c, s, r) \/ AskLeave(c, s, r)
               \/ \E c \in Calls, r \in Rooms, t \in Sockets : AskKick(c, s, r, t)
      BY <2>3, <2>4 DEF AskJoin, AskLeave, AskKick
    <2> QED
      BY <1>2, <2>1, <2>2, <2>4 DEF Client
  <1>3. CASE (\E r \in Rooms : CreateRoom(r)) \/ UNCHANGED vars
    BY <1>3 DEF CreateRoom, vars, Rights, Rightful, Evicting
  <1>4. ASSUME NEW c \in Calls, NEW r \in Rooms, NEW n \in Nodes, DeleteAsk(c, r, n)
        PROVE  Rights'
    <2>1. Rightful([Idle EXCEPT !.op = "delete", !.pc = "count", !.room = r, !.node = n])
      BY DEF Idle, Rightful, Evicting
    <2> QED
      BY <1>o, <1>4, <2>1 DEF DeleteAsk
  <1>5. CASE \E n \in Nodes : Crash(n)
    BY <1>5, <1>d DEF Crash
  <1> QED
    BY <1>1, <1>2, <1>3, <1>4, <1>5 DEF Next

\* Whatever is in flight, a member that neither disconnects nor asks to leave
\* is only taken out of a room by another socket, one of that room's moderator:
\* also when the eviction is carried out by another node, after the
\* kick's own handler has failed.
THEOREM EvictionsAreTheModerators == Spec => OnlyModeratorEvicts
  <1>1. Typed /\ NoZombies /\ Rights /\ [Next]_vars =>
          [\A r \in Rooms : \A s \in joined[r] \ joined'[r] :
              \/ stage'[s] = "gone"
              \/ \E c \in Calls : /\ call[c].op = "leave" /\ call[c].pc = "guard"
                                  /\ call[c].sock = s /\ call[c].room = r
              \/ \E c \in Calls : /\ call[c].op = "kick" /\ call[c].target = s
                                  /\ call[c].room = r
                                  /\ Owner[call[c].sock] = Moderator[r]
                                  /\ call[c].sock # s]_vars
    <2> SUFFICES ASSUME Typed, NoZombies, Rights, Next,
                        NEW r \in Rooms, NEW s \in joined[r] \ joined'[r],
                        stage'[s] # "gone"
                 PROVE  \/ \E c \in Calls :
                              /\ call[c].op = "leave" /\ call[c].pc = "guard"
                              /\ call[c].sock = s /\ call[c].room = r
                        \/ \E c \in Calls :
                              /\ call[c].op = "kick" /\ call[c].target = s
                              /\ call[c].room = r
                              /\ Owner[call[c].sock] = Moderator[r]
                              /\ call[c].sock # s
      BY DEF vars
    <2>0. s \in Sockets /\ stage[s] \in Live
      BY DEF Typed, NoZombies
    <2>d. ASSUME NEW n \in Nodes, NEW S, Die(n, S) PROVE FALSE
      BY <2>0, <2>d DEF Die, On
    <2>1. ASSUME NEW c \in Calls, Progress(c)
          PROVE  \/ /\ call[c].op = "leave" /\ call[c].pc = "guard"
                    /\ call[c].sock = s /\ call[c].room = r
                 \/ /\ call[c].op = "kick" /\ call[c].target = s
                    /\ call[c].room = r
                    /\ Owner[call[c].sock] = Moderator[r]
                    /\ call[c].sock # s
      <3> DEFINE k == call[c]
      <3>0. /\ Shape(k) /\ Rightful(k)
            /\ k.op = "disc" => k.node \in Nodes
        BY LayoutAssumption DEF Typed, Rights, Shape
      <3>1. CASE LeaveStart(c)
        BY <3>0, <3>1 DEF LeaveStart, Typed
      <3>2. CASE KickEvict(c)
        <4>1. k.op = "kick" /\ k.pc = "find" /\ k.target # k.sock
          BY <3>0, <3>2 DEF KickEvict, Fetched, Shape
        <4> QED
          BY <3>0, <3>2, <4>1 DEF KickEvict, Rightful, Typed
      <3>3. CASE RemoteLeave(c)
        BY <3>0, <3>3 DEF RemoteLeave, Evicting, Rightful, Typed
      <3>4. CASE JoinEnter(c)
        BY <3>4 DEF JoinEnter, Typed
      <3>5. CASE FetchTimeout(c) \/ WriteMissing(c)
        BY <2>d, <3>0, <3>5 DEF FetchTimeout, WriteMissing
      <3>6. CASE \/ Refuse(c) \/ JoinStart(c) \/ JoinAdmit(c) \/ JoinPassword(c)
                 \/ KickStart(c) \/ KickAuthorised(c)
                 \/ \E n \in Nodes : FetchReply(c, n)
                 \/ WriteCount(c) \/ DeleteCheck(c) \/ DeleteRow(c)
        BY <3>6 DEF Refuse, JoinStart, JoinAdmit, JoinPassword, KickStart,
                    KickAuthorised, FetchReply, WriteCount, DeleteCheck, DeleteRow
      <3> QED
        BY <2>1, <3>1, <3>2, <3>3, <3>4, <3>5, <3>6 DEF Progress
    <2>2. ASSUME NEW z \in Sockets, Client(z) PROVE FALSE
      <3>1. CASE Connect(z) \/ TuneUid(z) \/ Hook(z)
        BY <3>1 DEF Connect, TuneUid, Hook
      <3>2. CASE Disconnect(z)
        BY <2>0, <3>2 DEF Disconnect, Typed
      <3>3. CASE \/ \E c \in Calls, q \in Rooms : AskJoin(c, z, q) \/ AskLeave(c, z, q)
                 \/ \E c \in Calls, q \in Rooms, t \in Sockets : AskKick(c, z, q, t)
        BY <3>3 DEF AskJoin, AskLeave, AskKick, Ask
      <3> QED
        BY <2>2, <3>1, <3>2, <3>3 DEF Client
    <2>3. CASE \/ \E q \in Rooms : CreateRoom(q)
               \/ \E c \in Calls, q \in Rooms, n \in Nodes : DeleteAsk(c, q, n)
      <3>1. joined' = joined
        BY <2>3 DEF CreateRoom, DeleteAsk
      <3> QED
        BY <3>1
    <2>4. CASE \E n \in Nodes : Crash(n)
      BY <2>4, <2>d DEF Crash
    <2> QED
      BY <2>1, <2>2, <2>3, <2>4 DEF Next
  <1>2. Init => Rights
    BY DEF Init, Rights, Rightful, Idle, Evicting
  <1> QED
    BY <1>1, <1>2, RightsNext, TypedAlways, MembersAreConnected, PTL
       DEF Spec, OnlyModeratorEvicts
------------------------------------------------------------------------------
(* CleanWriteExact.  Accurate relates what handler k has counted so far to *)
(* the members of its room at this moment: it has seen the members on the  *)
(* nodes that have answered, and its own socket is in the count, or not,   *)
(* as its Delta presumes.  A handler that nobody has disturbed is          *)
(* accurate; once all nodes have answered, that is exactness.              *)

Answered(k) == {s \in Sockets : NodeOf[s] \notin k.pending}

Accurate(k, members) ==
    /\ k.pc \in {"lookup", "verify"} => k.sock \notin members
    /\ k.pc = "fetch" /\ None \notin k.pending =>
        /\ k.op \in {"join", "leave", "kick"} =>
               k.seen = members \cap Answered(k)
        /\ k.op = "disc" =>
               k.seen = (members \cap Answered(k)) \cup {k.sock}
        /\ k.op \in {"join", "disc"} => k.sock \notin members
    /\ k.pc = "write" => k.sock \in members /\ k.seen = members \ {k.sock}

\* A target whose REMOTE_LEAVE has not been handled is on a node that has not
\* answered the count.
Ordered(k) == Evicting(k) /\ k.pc = "fetch" => NodeOf[k.target] \in k.pending

CountInv ==
    /\ Typed
    /\ \A c \in Calls : Ordered(call[c])
    /\ \A c \in Calls : call[c].op = "join" => stage[call[c].sock] # "new"
    /\ \A c \in Calls \ disturbed : Accurate(call[c], joined[call[c].room])

------------------------------------------------------------------------------
\* The invariant holds at first.
LEMMA CountInvInit == HInit => CountInv
  BY TypedInit DEF HInit, Init, CountInv, Idle, Accurate, Ordered, Evicting

\* What a step did to a handler that is not disturbed after it.
LEMMA Undisturbed ==
    ASSUME CountInv, Track, NEW c \in Calls, c \notin disturbed',
           InFlight(call'[c])
    PROVE  /\ c \notin disturbed /\ Accurate(call[c], joined[call[c].room])
           /\ call'[c] = call[c] => joined'[call[c].room] = joined[call[c].room]
           /\ call'[c].op = "join" => stage'[call'[c].sock] # "gone"
  BY DEF Track, Disturbed, CountInv

\* A handler the step leaves alone, and one that is not in flight.
LEMMA LeftAlone ==
    ASSUME CountInv, Track, NEW c \in Calls, c \notin disturbed',
           call'[c] = call[c] \/ ~InFlight(call'[c])
    PROVE  Accurate(call'[c], joined'[call'[c].room])
  <1>1. CASE ~InFlight(call'[c])
    BY <1>1 DEF InFlight, Accurate
  <1>2. CASE InFlight(call'[c]) /\ call'[c] = call[c]
    <2>1. Accurate(call[c], joined[call[c].room]) /\ joined'[call[c].room] = joined[call[c].room]
      BY <1>2, Undisturbed
    <2> QED
      BY <1>2, <2>1
  <1> QED
    BY <1>1, <1>2

\* A step that gives one handler a new record preserves the invariant when
\* that record is in order.
LEMMA OneCallCounts ==
    ASSUME CountInv, Typed', Track, NEW c \in Calls, NEW k,
           call' = [call EXCEPT ![c] = k], stage' = stage, Ordered(k),
           k.op = "join" => stage[k.sock] # "new",
           c \notin disturbed' /\ InFlight(k) => Accurate(k, joined'[k.room])
    PROVE  CountInv'
  <1>0. call \in [Calls -> CallRecord] /\ call'[c] = k
    BY DEF CountInv, Typed
  <1>1. \A d \in Calls \ disturbed' : Accurate(call'[d], joined'[call'[d].room])
    <2> TAKE d \in Calls \ disturbed'
    <2>1. CASE d = c /\ InFlight(k)
      BY <1>0, <2>1
    <2>2. CASE ~(d = c /\ InFlight(k))
      BY <1>0, <2>2, LeftAlone
    <2> QED
      BY <2>1, <2>2
  <1>2. \A d \in Calls : Ordered(call'[d])
    BY <1>0 DEF CountInv
  <1>3. \A d \in Calls : call'[d].op = "join" => stage'[call'[d].sock] # "new"
    BY <1>0 DEF CountInv
  <1> QED
    BY <1>1, <1>2, <1>3 DEF CountInv, Ordered, Evicting

\* A handler that begins to count has seen its own node.
LEMMA FetchingAccurate ==
    ASSUME NEW k, Shape(k), NEW members \in SUBSET Sockets,
           k.op \in {"join", "leave", "kick"},
           k.op = "join" => k.sock \notin members
    PROVE  Accurate(Fetching(k, "fetch", members), members)
  <1> DEFINE f == Fetching(k, "fetch", members)
  <1>1. /\ f.pc = "fetch" /\ f.op = k.op /\ f.sock = k.sock
        /\ f.seen = members \cap On(k.node) /\ f.pending = Nodes \ {k.node}
    BY DEF Fetching, Shape, CallRecord
  <1>2. Answered(f) = On(k.node)
    BY <1>1, LayoutAssumption DEF Answered, On
  <1> QED
    BY <1>1, <1>2 DEF Accurate

\* The count of a disconnection starts accurate.
LEMMA FetchingDiscAccurate ==
    ASSUME NEW s \in Sockets, NEW r \in Rooms, NEW members \in SUBSET Sockets,
           s \in members
    PROVE  Accurate(Fetching(Request("disc", s, r, None), "fetch", members),
                    members \ {s})
  <1> DEFINE q == Request("disc", s, r, None)
             f == Fetching(q, "fetch", members)
  <1>1. /\ q.op = "disc" /\ q.sock = s /\ q.node = NodeOf[s]
        /\ q = [q EXCEPT !.op = "disc"]
    BY DEF Request
  <1>2. /\ f.pc = "fetch" /\ f.op = "disc" /\ f.sock = s
        /\ f.seen = members \cap On(NodeOf[s]) /\ f.pending = Nodes \ {NodeOf[s]}
    BY DEF Fetching, Request
  <1>3. Answered(f) = On(NodeOf[s]) /\ s \in On(NodeOf[s])
    BY <1>2, LayoutAssumption DEF Answered, On
  <1> QED
    BY <1>2, <1>3 DEF Accurate

\* A node's end keeps the invariant, ...
LEMMA DieCounts ==
    ASSUME CountInv, Typed', Track, NEW n \in Nodes, NEW S \in SUBSET InTransit(n),
           Die(n, S)
    PROVE  CountInv'
  <1>1. ASSUME NEW c \in Calls
        PROVE  /\ Ordered(call'[c])
               /\ call'[c].op = "join" => stage'[call'[c].sock] # "new"
               /\ c \notin disturbed' => Accurate(call'[c], joined'[call'[c].room])
    <2> DEFINE k == call[c]
    <2>0. /\ Shape(k) /\ Ordered(k) /\ call'[c] = AfterCrash(k, n, c \in S)
          /\ k.op = "join" => stage[k.sock] # "new" /\ stage'[k.sock] # "new"
          /\ c \in S => Evicting(k)
      BY DEF CountInv, Typed, Die, Shape, Live, InTransit
    <2>1. CASE k.node = n /\ c \in S
      <3>1. call'[c] = [k EXCEPT !.pc = "evict", !.seen = {}, !.pending = {}]
        BY <2>0, <2>1 DEF AfterCrash
      <3>2. call'[c].pc = "evict" /\ call'[c].op = "kick"
        BY <2>0, <2>1, <3>1 DEF Evicting, Shape, CallRecord
      <3> QED
        BY <3>2 DEF Ordered, Accurate
    <2>2. CASE call'[c] = Idle
      BY <2>2 DEF Idle, Ordered, Accurate
    <2>3. CASE /\ k.node # n /\ Evicting(k) /\ NodeOf[k.target] = n
               /\ k.pc # "evict"
      <3>1. call'[c] = [k EXCEPT !.target = None, !.pending = (@ \ {n}) \cup {None}]
        BY <2>0, <2>3 DEF AfterCrash
      <3>2. /\ call'[c].target = None /\ None \in call'[c].pending
            /\ call'[c].pc = "fetch" /\ call'[c].op = "kick"
        <4>1. k.pc = "fetch" /\ k.op = "kick" /\ k \in CallRecord
          BY <2>0, <2>3 DEF Evicting, Shape
        <4>2. /\ call'[c].target = None
              /\ call'[c].pending = (k.pending \ {n}) \cup {None}
              /\ call'[c].pc = k.pc /\ call'[c].op = k.op
          BY <3>1, <4>1 DEF CallRecord
        <4> QED
          BY <4>1, <4>2
      <3> QED
        BY <3>2 DEF Ordered, Evicting, Accurate
    <2>4. CASE /\ k.node # n /\ ~(Evicting(k) /\ NodeOf[k.target] = n)
               /\ n \in k.pending
      <3>1. call'[c] = [k EXCEPT !.pending = (@ \ {n}) \cup {None}]
        BY <2>0, <2>4 DEF AfterCrash
      <3>2. /\ None \in call'[c].pending /\ k.pending \ {n} \subseteq call'[c].pending
            /\ call'[c].pc = k.pc /\ call'[c].op = k.op /\ call'[c].sock = k.sock
            /\ call'[c].target = k.target /\ call'[c].room = k.room
            /\ call'[c].seen = k.seen
        BY <2>0, <3>1 DEF Shape, CallRecord
      <3>3. Ordered(call'[c])
        BY <2>0, <2>4, <3>2 DEF Ordered, Evicting
      <3>4. CASE k.pc = "fetch"
        BY <2>0, <3>2, <3>3, <3>4 DEF Accurate
      <3>5. CASE k.pc # "fetch"
        BY <2>0, <2>4, <3>2, <3>3, <3>5 DEF Shape, Accurate
      <3> QED
        BY <3>4, <3>5
    <2>5. CASE call'[c] = k
      BY <2>0, <2>5, LeftAlone
    <2> QED
      BY <2>0, <2>1, <2>2, <2>3, <2>4, <2>5 DEF AfterCrash
  <1> QED
    BY <1>1 DEF CountInv, Ordered, Evicting

\* ... a handler's step does, ...
LEMMA ProgressCounts ==
    ASSUME CountInv, Typed', Track, NEW c \in Calls, Progress(c)
    PROVE  CountInv'
  <1> DEFINE k == call[c]
  <1>0. /\ Shape(k) /\ k \in CallRecord /\ Ordered(k) /\ Typed
        /\ k.op = "join" => stage[k.sock] # "new"
    BY DEF CountInv, Typed, Shape
  <1>a. Shape(Idle) /\ ~InFlight(Idle) /\ Ordered(Idle) /\ Idle.op # "join"
    BY IdleShape DEF Idle, InFlight, Ordered
  <1>i. ASSUME call' = [call EXCEPT ![c] = Idle], stage' = stage
        PROVE  CountInv'
    BY <1>a, <1>i, OneCallCounts
  <1>u. ASSUME c \notin disturbed', InFlight(k), InFlight(call'[c])
        PROVE  /\ Accurate(k, joined[k.room])
               /\ call'[c].op = "join" => stage'[call'[c].sock] # "gone"
    BY <1>u, Undisturbed
  <1>d. k.op = "disc" => k.node \in Nodes
    BY <1>0, LayoutAssumption DEF Shape
  <1>1. CASE Refuse(c)
    BY <1>1, <1>i DEF Refuse
  <1>2. CASE JoinStart(c)
    <2> DEFINE j == [k EXCEPT !.pc = "lookup"]
    <2>1. /\ j.pc = "lookup" /\ j.op = "join" /\ j.sock = k.sock /\ j.room = k.room
          /\ call' = [call EXCEPT ![c] = j] /\ UNCHANGED <<stage, joined>>
          /\ k.op = "join"
      BY <1>0, <1>2 DEF JoinStart, CallRecord
    <2>2. Ordered(j) /\ Accurate(j, joined'[j.room])
      BY <1>2, <2>1 DEF JoinStart, Ordered, Evicting, Accurate
    <2> HIDE DEF j
    <2> QED
      BY <1>0, <2>1, <2>2, OneCallCounts
  <1>3. CASE JoinAdmit(c) \/ JoinPassword(c)
    <2> DEFINE f == Fetching(k, "fetch", joined[k.room])
               v == [k EXCEPT !.pc = "verify"]
    <2>1. /\ k.op = "join" /\ k.room \in Rooms /\ k.pc \in {"lookup", "verify"}
          /\ joined[k.room] \in SUBSET Sockets
          /\ UNCHANGED <<stage, joined>>
      BY <1>0, <1>3 DEF JoinAdmit, JoinPassword, Shape, Typed
    <2>2. call' = [call EXCEPT ![c] = f] \/ call' = [call EXCEPT ![c] = v]
      BY <1>3 DEF JoinAdmit, JoinPassword
    <2>3. /\ f.op = "join" /\ f.sock = k.sock /\ f.room = k.room /\ f.pc = "fetch"
          /\ v.op = "join" /\ v.sock = k.sock /\ v.room = k.room /\ v.pc = "verify"
      BY <1>0, <2>1 DEF Fetching, CallRecord
    <2>4. c \notin disturbed' => k.sock \notin joined[k.room]
      <3>1. InFlight(k) /\ InFlight(call'[c])
        BY <1>0, <2>1, <2>2, <2>3 DEF InFlight, Typed
      <3> QED
        BY <1>u, <2>1, <3>1 DEF Accurate
    <2>5. c \notin disturbed' => Accurate(f, joined'[f.room])
      BY <1>0, <2>1, <2>3, <2>4, FetchingAccurate
    <2>6. c \notin disturbed' => Accurate(v, joined'[v.room])
      BY <2>1, <2>3, <2>4 DEF Accurate
    <2>7. Ordered(f) /\ Ordered(v)
      BY <2>3 DEF Ordered, Evicting
    <2> HIDE DEF f, v
    <2> QED
      BY <1>0, <2>1, <2>2, <2>3, <2>5, <2>6, <2>7, OneCallCounts
  <1>4. CASE JoinEnter(c)
    <2> DEFINE j == [k EXCEPT !.pc = "write"]
    <2>1. /\ k.op = "join" /\ k.pc = "fetch" /\ k.pending = {}
          /\ k.room \in Rooms /\ k.sock \in Sockets
          /\ call' = [call EXCEPT ![c] = j] /\ stage' = stage
          /\ j.pc = "write" /\ j.op = "join" /\ j.sock = k.sock /\ j.room = k.room
          /\ j.seen = k.seen
      BY <1>0, <1>4 DEF JoinEnter, Fetched, Shape, CallRecord
    <2>2. ASSUME c \notin disturbed'
          PROVE  Accurate(j, joined'[j.room])
      <3>1. InFlight(k) /\ InFlight(call'[c]) /\ call'[c] = j
        BY <1>0, <2>1 DEF InFlight, Typed
      <3>2. stage[k.sock] \in Live
        BY <1>0, <1>u, <2>1, <2>2, <3>1 DEF Typed
      <3>3. k.seen = joined[k.room] /\ k.sock \notin joined[k.room]
        BY <1>0, <1>u, <2>1, <2>2, <3>1 DEF Accurate, Answered, Typed
      <3>4. joined'[k.room] = joined[k.room] \cup {k.sock}
        BY <1>0, <1>4, <2>1, <3>2 DEF JoinEnter, Typed
      <3> QED
        BY <2>1, <3>3, <3>4 DEF Accurate
    <2>3. Ordered(j)
      BY <2>1 DEF Ordered, Evicting
    <2> HIDE DEF j
    <2> QED
      BY <1>0, <2>1, <2>2, <2>3, OneCallCounts
  <1>5. CASE LeaveStart(c)
    <2> DEFINE f == Fetching(k, "fetch", joined'[k.room])
    <2>1. /\ k.op = "leave" /\ k.room \in Rooms /\ joined'[k.room] \in SUBSET Sockets
          /\ call' = [call EXCEPT ![c] = f] /\ stage' = stage
      BY <1>0, <1>5 DEF LeaveStart, Shape, Typed
    <2>2. f.op = "leave" /\ f.room = k.room /\ f.pc = "fetch"
      BY <1>0, <2>1 DEF Fetching, CallRecord
    <2>3. Accurate(f, joined'[f.room])
      BY <1>0, <2>1, <2>2, FetchingAccurate
    <2>4. Ordered(f)
      BY <2>2 DEF Ordered, Evicting
    <2> HIDE DEF f
    <2> QED
      BY <2>1, <2>2, <2>3, <2>4, OneCallCounts
  <1>6. CASE KickStart(c) \/ KickAuthorised(c)
    <2>1. k.op = "kick" /\ stage' = stage
      BY <1>0, <1>6 DEF KickStart, KickAuthorised, Shape
    <2> PICK j \in {[k EXCEPT !.pc = "modcheck"], Fetching(k, "find", joined[k.room])} :
            call' = [call EXCEPT ![c] = j]
      BY <1>6 DEF KickStart, KickAuthorised
    <2>2. j.op = "kick" /\ j.pc \in {"modcheck", "find"}
      BY <1>0, <2>1 DEF Fetching, CallRecord
    <2>3. Ordered(j) /\ Accurate(j, joined'[j.room])
      BY <2>2 DEF Ordered, Accurate
    <2> QED
      BY <2>1, <2>2, <2>3, OneCallCounts
  <1>7. CASE KickEvict(c)
    <2> DEFINE e == [k EXCEPT !.target = None]
    <2>1. /\ k.op = "kick" /\ k.room \in Rooms /\ k.target \in Sockets /\ stage' = stage
          /\ joined[k.room] \in SUBSET Sockets /\ joined'[k.room] \in SUBSET Sockets
      BY <1>0, <1>7 DEF KickEvict, Fetched, Shape, CallRecord, Typed
    <2>2. Shape(e) /\ e.op = "kick" /\ e.room = k.room /\ e.target = None
      BY <1>0, <2>1 DEF Shape, CallRecord
    <2>3. CASE NodeOf[k.target] = k.node
      <3> DEFINE f == Fetching(e, "fetch", joined'[k.room])
      <3>1. call' = [call EXCEPT ![c] = f]
        BY <1>7, <2>3 DEF KickEvict
      <3>2. f.op = "kick" /\ f.room = k.room /\ f.target = None
        BY <2>2 DEF Fetching, Shape, CallRecord
      <3>3. Accurate(f, joined'[f.room])
        BY <2>1, <2>2, <3>2, FetchingAccurate
      <3>4. Ordered(f)
        BY <3>2 DEF Ordered, Evicting
      <3> HIDE DEF f
      <3> QED
        BY <2>1, <3>1, <3>2, <3>3, <3>4, OneCallCounts
    <2>4. CASE NodeOf[k.target] # k.node
      <3> DEFINE f == Fetching(k, "fetch", joined[k.room])
      <3>1. call' = [call EXCEPT ![c] = f] /\ joined' = joined
        BY <1>7, <2>4 DEF KickEvict
      <3>2. /\ f.op = "kick" /\ f.room = k.room /\ f.target = k.target
            /\ f.pending = Nodes \ {k.node}
        BY <1>0, <2>1 DEF Fetching, CallRecord
      <3>3. Accurate(f, joined'[f.room])
        BY <1>0, <2>1, <3>1, <3>2, FetchingAccurate
      <3>4. Ordered(f)
        BY <2>1, <2>4, <3>2, LayoutAssumption DEF Ordered
      <3> HIDE DEF f
      <3> QED
        BY <2>1, <3>1, <3>2, <3>3, <3>4, OneCallCounts
    <2> QED
      BY <2>3, <2>4
  <1>8. CASE RemoteLeave(c)
    <2> DEFINE e == [k EXCEPT !.target = None]
    <2>1. /\ k.op = "kick" /\ k.room \in Rooms /\ k.target \in Sockets
          /\ k.pc \in {"fetch", "evict"} /\ stage' = stage
          /\ joined'[k.room] = joined[k.room] \ {k.target}
      <3>1. Evicting(k) /\ stage' = stage
        BY <1>0, <1>8 DEF RemoteLeave
      <3>2. k \in CallRecord /\ k.op = "kick" /\ k.room \in Rooms
        BY <1>0, <3>1 DEF Evicting, Shape
      <3>3. k.target \in Sockets /\ k.pc \in {"fetch", "evict"}
        BY <3>1, <3>2 DEF Evicting, CallRecord
      <3>4. joined' = [joined EXCEPT ![k.room] = @ \ {k.target}]
        BY <1>0, <1>8 DEF RemoteLeave
      <3>5. joined \in [Rooms -> SUBSET Sockets]
        BY <1>0 DEF Typed
      <3> QED
        BY <3>1, <3>2, <3>3, <3>4, <3>5 DEF Evicting
    <2>2. CASE k.pc = "evict"
      BY <1>8, <1>i, <2>1, <2>2 DEF RemoteLeave
    <2>3. CASE k.pc = "fetch"
      <3>1. call' = [call EXCEPT ![c] = e]
        BY <1>8, <2>3 DEF RemoteLeave
      <3>2. /\ e.op = "kick" /\ e.room = k.room /\ e.target = None /\ e.pc = "fetch"
            /\ e.seen = k.seen /\ e.pending = k.pending
        BY <1>0, <2>1, <2>3 DEF CallRecord
      <3>3. c \notin disturbed' => Accurate(e, joined'[e.room])
        <4> HAVE c \notin disturbed'
        <4>1. InFlight(k) /\ InFlight(call'[c])
          BY <1>0, <2>3, <3>1, <3>2 DEF InFlight, Typed
        <4>2. Accurate(k, joined[k.room]) /\ NodeOf[k.target] \in k.pending
          BY <1>0, <1>8, <1>u, <2>3, <4>1 DEF Ordered, RemoteLeave
        <4> QED
          BY <2>1, <2>3, <3>2, <4>2 DEF Accurate, Answered
      <3>4. Ordered(e)
        BY <3>2 DEF Ordered, Evicting
      <3> HIDE DEF e
      <3> QED
        BY <2>1, <3>1, <3>2, <3>3, <3>4, OneCallCounts
    <2> QED
      BY <2>1, <2>2, <2>3
  <1>9. ASSUME NEW n \in Nodes, FetchReply(c, n)
        PROVE  CountInv'
    <2> DEFINE j == [k EXCEPT !.seen = @ \cup LocalMembers(k.room, n),
                              !.pending = @ \ {n}]
    <2>1. /\ k.pc \in {"find", "fetch"} /\ n # None
          /\ call' = [call EXCEPT ![c] = j] /\ UNCHANGED <<stage, joined>>
      BY <1>0, <1>9, NoneAssumption DEF FetchReply, Shape
    <2>2. /\ j.op = k.op /\ j.pc = k.pc /\ j.sock = k.sock /\ j.room = k.room
          /\ j.target = k.target /\ j.pending = k.pending \ {n}
          /\ j.seen = k.seen \cup (joined[k.room] \cap On(n))
      BY <1>0 DEF CallRecord, LocalMembers
    <2>3. c \notin disturbed' => Accurate(j, joined'[j.room])
      <3> HAVE c \notin disturbed'
      <3>1. InFlight(k) /\ InFlight(call'[c])
        BY <1>0, <2>1, <2>2 DEF InFlight, Typed
      <3>2. Accurate(k, joined[k.room])
        BY <1>u, <3>1
      <3>3. k.pc = "fetch" => k.room \in Rooms
        BY <1>0 DEF Shape
      <3>4. Answered(j) = Answered(k) \cup On(n)
        BY <1>9, <2>2 DEF Answered, On, FetchReply
      <3> QED
        BY <2>1, <2>2, <3>2, <3>3, <3>4 DEF Accurate
    <2>4. Ordered(j)
      BY <1>0, <1>9, <2>2 DEF Ordered, Evicting, FetchReply
    <2> HIDE DEF j
    <2> QED
      BY <1>0, <2>1, <2>2, <2>3, <2>4, OneCallCounts
  <1>10. CASE FetchTimeout(c)
    <2> DEFINE e == [k EXCEPT !.pc = "evict", !.seen = {}, !.pending = {}]
    <2>1. CASE k.op = "disc"
      BY <1>10, <1>d, <2>1, DieCounts DEF FetchTimeout
    <2>2. CASE k.op # "disc" /\ Evicting(k)
      <3>1. call' = [call EXCEPT ![c] = e] /\ stage' = stage
        BY <1>10, <2>2 DEF FetchTimeout
      <3>2. e.op = "kick" /\ e.pc = "evict"
        BY <1>0, <2>2 DEF Evicting, CallRecord
      <3>3. Ordered(e) /\ Accurate(e, joined'[e.room])
        BY <3>2 DEF Ordered, Accurate
      <3> HIDE DEF e
      <3> QED
        BY <3>1, <3>2, <3>3, OneCallCounts
    <2>3. CASE k.op # "disc" /\ ~Evicting(k)
      BY <1>10, <1>i, <2>3 DEF FetchTimeout
    <2> QED
      BY <2>1, <2>2, <2>3
  <1>11. CASE WriteCount(c) \/ DeleteRow(c)
    BY <1>11, <1>i DEF WriteCount, DeleteRow
  <1>12. CASE WriteMissing(c)
    BY <1>12, <1>d, <1>i, DieCounts DEF WriteMissing
  <1>13. CASE DeleteCheck(c)
    <2> DEFINE j == [k EXCEPT !.pc = "delete"]
    <2>1. /\ k.op = "delete" /\ stage' = stage
          /\ call' = [call EXCEPT ![c] = Idle] \/ call' = [call EXCEPT ![c] = j]
      BY <1>0, <1>13 DEF DeleteCheck, Shape
    <2>2. j.op = "delete" /\ j.pc = "delete"
      BY <1>0, <2>1 DEF CallRecord
    <2>3. Ordered(j) /\ Accurate(j, joined'[j.room])
      BY <2>2 DEF Ordered, Accurate
    <2> HIDE DEF j
    <2> QED
      BY <1>i, <2>1, <2>2, <2>3, OneCallCounts
  <1> QED
    BY <1>1, <1>2, <1>3, <1>4, <1>5, <1>6, <1>7, <1>8, <1>9, <1>10, <1>11,
       <1>12, <1>13 DEF Progress

\* A step that changes no handler.
LEMMA NoCallCounts ==
    ASSUME CountInv, Typed', Track, call' = call,
           \A s \in Sockets : stage[s] # "new" => stage'[s] # "new"
    PROVE  CountInv'
  <1>1. \A d \in Calls \ disturbed' : Accurate(call'[d], joined'[call'[d].room])
    BY LeftAlone
  <1>2. \A d \in Calls : call[d].op = "join" => call[d].sock \in Sockets
    BY DEF CountInv, Typed, Shape
  <1> QED
    BY <1>1, <1>2 DEF CountInv, Ordered, Evicting

\* ... and a client's, ...
LEMMA ClientCounts ==
    ASSUME CountInv, Typed', Track, NEW s \in Sockets, Client(s)
    PROVE  CountInv'
  <1>0. Typed
    BY DEF CountInv
  <1>1. CASE Connect(s) \/ TuneUid(s) \/ Hook(s)
    <2>1. call' = call /\ \A z \in Sockets : stage[z] # "new" => stage'[z] # "new"
      BY <1>0, <1>1 DEF Connect, TuneUid, Hook, Typed
    <2> QED
      BY <2>1, NoCallCounts
  <1>2. CASE Disconnect(s)
    <2> PICK slot \in [Calls -> RoomsToSettle(s) \cup {None}] :
            call' = [c \in Calls |->
                       IF slot[c] = None THEN call[c]
                       ELSE Fetching(Request("disc", s, slot[c], None),
                                     "fetch", joined[slot[c]])]
      BY <1>2 DEF Disconnect
    <2>1. ASSUME NEW c \in Calls, slot[c] = None
          PROVE  /\ Ordered(call'[c])
                 /\ call'[c].op = "join" => stage'[call'[c].sock] # "new"
                 /\ c \notin disturbed' =>
                        Accurate(call'[c], joined'[call'[c].room])
      <3>1. call'[c] = call[c]
        BY <2>1
      <3>2. call[c].op = "join" => call[c].sock \in Sockets
        BY <1>0 DEF Typed, Shape
      <3>3. Ordered(call'[c])
        BY <3>1 DEF CountInv
      <3>4. ASSUME call[c].op = "join"
            PROVE  stage'[call[c].sock] # "new"
        <4>1. stage[call[c].sock] # "new"
          BY <3>4 DEF CountInv
        <4>2. stage' = [stage EXCEPT ![s] = "gone"] /\ DOMAIN stage = Sockets
          BY <1>0, <1>2 DEF Disconnect, Typed
        <4> QED
          BY <3>2, <3>4, <4>1, <4>2
      <3>5. c \notin disturbed' => Accurate(call'[c], joined'[call'[c].room])
        BY <3>1, LeftAlone
      <3> QED
        BY <3>1, <3>3, <3>4, <3>5
    <2>2. ASSUME NEW c \in Calls, slot[c] # None
          PROVE  /\ Ordered(call'[c]) /\ call'[c].op # "join"
                 /\ Accurate(call'[c], joined'[call'[c].room])
      <3> DEFINE f == Fetching(Request("disc", s, slot[c], None), "fetch",
                               joined[slot[c]])
      <3>1. call'[c] = f /\ f.op = "disc" /\ f.room = slot[c]
        BY <2>2 DEF Fetching, Request
      <3>2. slot[c] \in Rooms /\ s \in joined[slot[c]]
        BY <2>2 DEF RoomsToSettle
      <3>3. /\ joined[slot[c]] \in SUBSET Sockets
            /\ joined'[slot[c]] = joined[slot[c]] \ {s}
        BY <1>0, <1>2, <3>2 DEF Disconnect, Typed
      <3>4. Accurate(f, joined[slot[c]] \ {s})
        BY <3>2, <3>3, FetchingDiscAccurate
      <3>5. Ordered(f)
        BY <3>1 DEF Ordered, Evicting
      <3> HIDE DEF f
      <3> QED
        BY <3>1, <3>3, <3>4, <3>5
    <2> QED
      BY <2>1, <2>2 DEF CountInv, Ordered, Evicting
  <1>3. ASSUME NEW c \in Calls, NEW r \in Rooms, NEW t \in Sockets \cup {None},
               NEW op \in {"join", "leave", "kick"}, Ask(c, op, s, r, t)
        PROVE  CountInv'
    <2> DEFINE q == Request(op, s, r, t)
    <2>1. /\ q.op = op /\ q.pc = "guard" /\ q.sock = s
          /\ call' = [call EXCEPT ![c] = q] /\ stage' = stage /\ stage[s] # "new"
      BY <1>3 DEF Ask, Request, Live
    <2>2. Ordered(q) /\ ~InFlight(q)
      BY <2>1 DEF Ordered, InFlight
    <2> HIDE DEF q
    <2> QED
      BY <2>1, <2>2, OneCallCounts
  <1>4. CASE \E c \in Calls, r \in Rooms : AskJoin(c, s, r) \/ AskLeave(c, s, r)
    BY <1>3, <1>4 DEF AskJoin, AskLeave
  <1>5. CASE \E c \in Calls, r \in Rooms, t \in Sockets : AskKick(c, s, r, t)
    BY <1>3, <1>5 DEF AskKick
  <1> QED
    BY <1>1, <1>2, <1>4, <1>5 DEF Client

\* ... and so every step.
LEMMA CountInvNext == CountInv /\ [HNext]_hvars => CountInv'
  <1> SUFFICES ASSUME CountInv, [HNext]_hvars PROVE CountInv'
    OBVIOUS
  <1>1. CASE UNCHANGED hvars
    BY <1>1 DEF hvars, CountInv, Typed, Shape, Ordered, Evicting, Accurate, Answered
  <1>2. CASE HNext
    <2>1. Track /\ Next /\ Typed'
      BY <1>2, TypedNext DEF HNext, CountInv
    <2>2. CASE \E c \in Calls : Progress(c)
      BY <2>1, <2>2, ProgressCounts
    <2>3. CASE \E s \in Sockets : Client(s)
      BY <2>1, <2>3, ClientCounts
    <2>4. CASE \E r \in Rooms : CreateRoom(r)
      BY <2>1, <2>4, NoCallCounts DEF CreateRoom
    <2>5. ASSUME NEW c \in Calls, NEW r \in Rooms, NEW n \in Nodes, DeleteAsk(c, r, n)
          PROVE  CountInv'
      <3> DEFINE d == [Idle EXCEPT !.op = "delete", !.pc = "count", !.room = r,
                                   !.node = n]
      <3>1. /\ d.op = "delete" /\ d.pc = "count"
            /\ call' = [call EXCEPT ![c] = d] /\ stage' = stage
        BY <2>5 DEF DeleteAsk, Idle
      <3>2. Ordered(d) /\ Accurate(d, joined'[d.room])
        BY <3>1 DEF Ordered, Accurate
      <3> HIDE DEF d
      <3> QED
        BY <2>1, <3>1, <3>2, OneCallCounts
    <2>6. CASE \E n \in Nodes : Crash(n)
      BY <2>1, <2>6, DieCounts DEF Crash
    <2> QED
      BY <2>1, <2>2, <2>3, <2>4, <2>5, <2>6 DEF Next
  <1> QED
    BY <1>1, <1>2

------------------------------------------------------------------------------
\* An accurate handler that has its count writes the number of members.
LEMMA AccurateIsExact ==
    ASSUME NEW k, Shape(k), NEW members \in SUBSET Sockets, Counted(k),
           Accurate(k, members)
    PROVE  AtLeastZero(Written(k)) = Cardinality(members)
  <1>1. IsFiniteSet(members) /\ Cardinality(members) \in Nat
    BY SocketsAssumption, FS_Subset, FS_CardinalityType
  <1>2. k.op \in {"join", "leave", "kick", "disc"} => k.sock \in Sockets
    BY DEF Shape
  <1>3. CASE k.op = "join"
    <2>1. k.sock \in members /\ k.seen = members \ {k.sock}
      BY <1>3 DEF Counted, Accurate
    <2>3. Cardinality(members \ {k.sock}) = Cardinality(members) - 1
      BY <1>1, <2>1, FS_RemoveElement
    <2>2. Cardinality(k.seen) = Cardinality(members) - 1
      BY <2>1, <2>3
    <2> QED
      BY <1>1, <1>3, <2>2 DEF Written, Delta, AtLeastZero
  <1>4. CASE k.op \in {"leave", "kick"}
    <2>1. k.seen = members
      BY <1>4 DEF Counted, Fetched, Accurate, Answered
    <2> QED
      BY <1>1, <1>4, <2>1 DEF Written, Delta, AtLeastZero
  <1>5. CASE k.op = "disc"
    <2>1. k.seen = members \cup {k.sock} /\ k.sock \notin members
      BY <1>5 DEF Counted, Fetched, Accurate, Answered
    <2>2. Cardinality(k.seen) = Cardinality(members) + 1
      BY <1>1, <2>1, FS_AddElement
    <2> QED
      BY <1>1, <1>5, <2>2 DEF Written, Delta, AtLeastZero
  <1> QED
    BY <1>3, <1>4, <1>5 DEF Counted

\* What a handler that nobody disturbed writes.
LEMMA WritesExact ==
    ASSUME CountInv, NEW c \in Calls, WriteCount(c), c \notin disturbed
    PROVE  current'[call[c].room] = Cardinality(joined'[call[c].room])
  <1> DEFINE k == call[c]
  <1>1. /\ Shape(k) /\ Counted(k) /\ k.room \in Rooms
        /\ Accurate(k, joined[k.room]) /\ joined[k.room] \in SUBSET Sockets
    BY DEF CountInv, Typed, WriteCount, Counted, Shape
  <1>2. /\ joined' = joined
        /\ current'[k.room] = AtLeastZero(Written(k))
    BY <1>1 DEF WriteCount, CountInv, Typed
  <1> QED
    BY <1>1, <1>2, AccurateIsExact

\* The count that a join, a leave, a kick or a disconnect writes is the number
\* of members, over all nodes, whenever no one else entered or left the room
\* while it ran: also when nodes answered at different times, when answers were
\* lost, and when a node died in between.
THEOREM CleanWritesAreExact == HSpec => CleanWriteExact
  <1>1. CountInv /\ [HNext]_hvars =>
          [\A c \in Calls : WriteCount(c) /\ c \notin disturbed =>
             current'[call[c].room] = Cardinality(joined'[call[c].room])]_hvars
    BY WritesExact DEF hvars
  <1> QED
    BY <1>1, CountInvInit, CountInvNext, PTL DEF HSpec, CleanWriteExact

------------------------------------------------------------------------------
(* DriftExplained.  A change of members leaves a handler that owes the     *)
(* room a count, or an excuse; a handler that owes one goes on owing it    *)
(* until it has written it, which is exact by CountInv, or has an excuse.  *)
(* A REMOTE_LEAVE whose count has failed is excused already, and before    *)
(* its row exists nobody but a socket with that uid enters a room.         *)

DriftInv ==
    /\ CountInv
    /\ \A c \in Calls : call[c].pc = "evict" => call[c].room \in excused
    /\ \A c \in Calls : call[c].op = "join" => table[call[c].room] # "unborn"
    /\ \A r \in Rooms \ excused : table[r] = "unborn" => joined[r] = {}
    /\ DriftExplained

\* The step leaves room r counted, or counting.
Settles(r) ==
    \/ table'[r] # "open"
    \/ \E c \in Calls : Owes(call'[c], r)
    \/ current'[r] = Cardinality(joined'[r])
    \/ /\ table[r] = "open" /\ current'[r] = current[r] /\ joined'[r] = joined[r]
       /\ \A c \in Calls : Owes(call[c], r) => Owes(call'[c], r)

\* The invariant holds at first.
LEMMA DriftInvInit == HInit => DriftInv
  BY CountInvInit DEF HInit, Init, DriftInv, DriftExplained, Idle

\* Who is not excused after a step was not before, and has no excuse.
LEMMA NotExcused ==
    ASSUME Track, NEW r \in Rooms, r \notin excused'
    PROVE  r \notin excused /\ ~Excuse(r)
  BY Zenon DEF Track

\* Who has an excuse is excused.
LEMMA IsExcused ==
    ASSUME Track, NEW r \in Rooms, r \in excused \/ Excuse(r)
    PROVE  r \in excused'
  BY Zenon DEF Track

\* What keeps the invariant.
LEMMA SettlesAll ==
    ASSUME DriftInv, CountInv', Track,
           \A r \in Rooms : table'[r] = "unborn" => table[r] = "unborn",
           \A c \in Calls : call'[c].op = "join" => table[call'[c].room] # "unborn",
           \A c \in Calls : call'[c].pc = "evict" => call'[c].room \in excused',
           \A r \in Rooms \ excused' :
              Settles(r) /\ (joined'[r] \subseteq joined[r] \/ table[r] # "unborn")
    PROVE  DriftInv'
  <1>1. \A c \in Calls : call'[c].op = "join" => table'[call'[c].room] # "unborn"
    <2>1. \A c \in Calls : call'[c].op = "join" => call'[c].room \in Rooms
      BY DEF CountInv, Typed, Shape
    <2> QED
      BY <2>1
  <1>2. ASSUME NEW r \in Rooms, r \notin excused', table'[r] = "unborn"
        PROVE  joined'[r] = {}
    <2>1. table[r] = "unborn" /\ joined'[r] \subseteq joined[r]
      BY <1>2
    <2>2. joined[r] = {}
      BY <1>2, <2>1, NotExcused DEF DriftInv
    <2> QED
      BY <2>1, <2>2
  <1>3. ASSUME NEW r \in Rooms, r \notin excused', table'[r] = "open",
               \A c \in Calls : ~Owes(call'[c], r)
        PROVE  current'[r] = Cardinality(joined'[r])
    <2>1. Settles(r)
      BY <1>3
    <2>2. r \notin excused
      BY <1>3, NotExcused
    <2>3. CASE /\ table[r] = "open" /\ current'[r] = current[r] /\ joined'[r] = joined[r]
               /\ \A c \in Calls : Owes(call[c], r) => Owes(call'[c], r)
      <3>1. \A c \in Calls : ~Owes(call[c], r)
        BY <1>3, <2>3, Zenon
      <3>2. current[r] = Cardinality(joined[r])
        BY <2>2, <2>3, <3>1, Zenon DEF DriftInv, DriftExplained
      <3> QED
        BY <2>3, <3>2
    <2> QED
      BY <1>3, <2>1, <2>3, Zenon DEF Settles
  <1>4. DriftExplained'
    BY <1>3, Zenon DEF DriftExplained, Owes
  <1> QED
    BY <1>1, <1>2, <1>4, Zenon DEF DriftInv

\* A step that gives one handler a new record.
LEMMA OneCallSettles ==
    ASSUME DriftInv, CountInv', Track, NEW c \in Calls, NEW k,
           call' = [call EXCEPT ![c] = k],
           \A r \in Rooms : table'[r] = table[r] \/ table'[r] = "deleted",
           k.op = "join" => table[k.room] # "unborn",
           k.pc = "evict" => k.room \in excused',
           \A r \in Rooms \ excused' :
              \/ table'[r] # "open" \/ Owes(k, r)
              \/ current'[r] = Cardinality(joined'[r])
              \/ current'[r] = current[r] /\ joined'[r] = joined[r] /\ ~Owes(call[c], r),
           \A r \in Rooms \ excused' : joined'[r] \subseteq joined[r] \/ table[r] # "unborn"
    PROVE  DriftInv'
  <1>1. call'[c] = k /\ \A d \in Calls \ {c} : call'[d] = call[d]
    BY DEF DriftInv, CountInv, Typed
  <1>2. ASSUME NEW d \in Calls
        PROVE  /\ call'[d].op = "join" => table[call'[d].room] # "unborn"
               /\ call'[d].pc = "evict" => call'[d].room \in excused'
    <2>1. CASE d = c
      BY <1>1, <2>1
    <2>2. CASE d # c
      <3>1. /\ call[d].op = "join" => table[call[d].room] # "unborn"
            /\ call[d].pc = "evict" => call[d].room \in excused
        BY DEF DriftInv
      <3>2. excused \subseteq excused'
        BY DEF Track
      <3> QED
        BY <1>1, <2>2, <3>1, <3>2
    <2> QED
      BY <2>1, <2>2
  <1>3. ASSUME NEW r \in Rooms, r \notin excused' PROVE Settles(r)
    <2>1. CASE Owes(k, r)
      <3>1. Owes(call'[c], r)
        BY <1>1, <2>1
      <3> QED
        BY <3>1, Zenon DEF Settles
    <2>2. CASE /\ table'[r] = "open" /\ current'[r] = current[r] /\ joined'[r] = joined[r]
               /\ ~Owes(call[c], r)
      <3>1. \A d \in Calls : Owes(call[d], r) => Owes(call'[d], r)
        <4> SUFFICES ASSUME NEW d \in Calls, Owes(call[d], r) PROVE Owes(call'[d], r)
          OBVIOUS
        <4>1. d # c
          BY <2>2
        <4> QED
          BY <1>1, <4>1
      <3>2. table[r] = "open"
        BY <2>2
      <3> QED
        BY <2>2, <3>1, <3>2, Zenon DEF Settles
    <2>3. CASE table'[r] # "open" \/ current'[r] = Cardinality(joined'[r])
      BY <2>3, Zenon DEF Settles
    <2>4. \/ table'[r] # "open" \/ Owes(k, r)
          \/ current'[r] = Cardinality(joined'[r])
          \/ current'[r] = current[r] /\ joined'[r] = joined[r] /\ ~Owes(call[c], r)
      BY <1>3
    <2> QED
      BY <2>1, <2>2, <2>3, <2>4, Zenon
  <1>4. \A r \in Rooms : table'[r] = "unborn" => table[r] = "unborn"
    OBVIOUS
  <1>5. \A r \in Rooms \ excused' :
           Settles(r) /\ (joined'[r] \subseteq joined[r] \/ table[r] # "unborn")
    BY <1>3
  <1>6. /\ \A d \in Calls : call'[d].op = "join" => table[call'[d].room] # "unborn"
        /\ \A d \in Calls : call'[d].pc = "evict" => call'[d].room \in excused'
    BY <1>2
  <1> QED
    BY <1>4, <1>5, <1>6, SettlesAll

\* ... and leaves members and counts alone.
LEMMA QuietSettles ==
    ASSUME DriftInv, CountInv', Track, NEW c \in Calls, NEW k,
           call' = [call EXCEPT ![c] = k], UNCHANGED <<joined, table, current>>,
           k = Idle \/ (k.op = call[c].op /\ k.room = call[c].room),
           k.pc = "evict" => k.room \in excused',
           \A r \in Rooms \ excused' :
              Owes(call[c], r) => Owes(k, r) \/ table[r] # "open"
    PROVE  DriftInv'
  <1>1. k.op = "join" => table[k.room] # "unborn"
    BY DEF DriftInv, Idle
  <1>2. ASSUME NEW r \in Rooms, r \notin excused'
        PROVE  \/ table'[r] # "open" \/ Owes(k, r)
               \/ current'[r] = current[r] /\ joined'[r] = joined[r] /\ ~Owes(call[c], r)
    BY <1>2
  <1> QED
    BY <1>1, <1>2, OneCallSettles

\* ... or changes the members of its room only, and then owes the count.
LEMMA EntrySettles ==
    ASSUME DriftInv, CountInv', Track, NEW c \in Calls, NEW k,
           call' = [call EXCEPT ![c] = k], UNCHANGED <<table, current>>,
           k.op = "join" => table[k.room] # "unborn", k.pc # "evict",
           Owes(k, call[c].room) \/ call[c].room \in excused',
           \A r \in Rooms \ {call[c].room} : joined'[r] = joined[r] /\ ~Owes(call[c], r),
           \A r \in Rooms : joined'[r] \subseteq joined[r] \/ table[call[c].room] # "unborn"
    PROVE  DriftInv'
  <1>1. ASSUME NEW r \in Rooms, r \notin excused'
        PROVE  /\ \/ Owes(k, r)
                  \/ current'[r] = current[r] /\ joined'[r] = joined[r] /\ ~Owes(call[c], r)
               /\ joined'[r] \subseteq joined[r] \/ table[r] # "unborn"
    <2>1. CASE r = call[c].room
      BY <1>1, <2>1
    <2>2. CASE r # call[c].room
      BY <2>2
    <2> QED
      BY <2>1, <2>2
  <1> QED
    BY <1>1, OneCallSettles

\* A handler's step keeps the invariant, unless it ends the process, ...
LEMMA ProgressSettles ==
    ASSUME DriftInv, CountInv', Track, NEW c \in Calls, Progress(c),
           ~(call[c].op = "disc" /\ (FetchTimeout(c) \/ WriteMissing(c)))
    PROVE  DriftInv'
  <1> DEFINE k == call[c]
  <1>0. /\ Typed /\ Shape(k) /\ k \in CallRecord
        /\ \A r : k.pc \notin {"write", "fetch"} => ~Owes(k, r)
    BY DEF DriftInv, CountInv, Typed, Shape, Owes
  <1>1. CASE Refuse(c)
    <2>1. k.pc \notin {"write", "fetch"} /\ call' = [call EXCEPT ![c] = Idle]
      BY <1>1 DEF Refuse, Refusable, Fetched
    <2> QED
      BY <1>0, <1>1, <2>1, QuietSettles DEF Refuse, Idle
  <1>2. CASE JoinStart(c) \/ KickStart(c)
    <2>1. PICK j : /\ call' = [call EXCEPT ![c] = j]
                   /\ j = [k EXCEPT !.pc = "lookup"] \/ j = [k EXCEPT !.pc = "modcheck"]
      BY <1>2 DEF JoinStart, KickStart
    <2>2. j.op = k.op /\ j.room = k.room /\ j.pc # "evict"
      BY <1>0, <2>1 DEF CallRecord
    <2>3. UNCHANGED <<joined, table, current>> /\ k.pc = "guard"
      BY <1>2 DEF JoinStart, KickStart
    <2> QED
      BY <1>0, <2>1, <2>2, <2>3, QuietSettles
  <1>3. CASE JoinAdmit(c) \/ JoinPassword(c) \/ KickAuthorised(c)
    <2>1. PICK j : /\ call' = [call EXCEPT ![c] = j]
                   /\ \/ j = [k EXCEPT !.pc = "verify"]
                      \/ j = Fetching(k, "fetch", joined[k.room])
                      \/ j = Fetching(k, "find", joined[k.room])
      BY <1>3 DEF JoinAdmit, JoinPassword, KickAuthorised
    <2>2. j.op = k.op /\ j.room = k.room /\ j.pc # "evict"
      BY <1>0, <2>1 DEF CallRecord, Fetching
    <2>3. UNCHANGED <<joined, table, current>> /\ k.pc \notin {"write", "fetch"}
      BY <1>3 DEF JoinAdmit, JoinPassword, KickAuthorised
    <2> QED
      BY <1>0, <2>1, <2>2, <2>3, QuietSettles
  <1>4. CASE JoinEnter(c)
    <2>1. PICK j : call' = [call EXCEPT ![c] = j] /\ j = [k EXCEPT !.pc = "write"]
      BY <1>4 DEF JoinEnter
    <2>2. /\ j.op = k.op /\ j.room = k.room /\ j.pc = "write" /\ k.op = "join"
          /\ UNCHANGED <<table, current>> /\ table[k.room] # "unborn" /\ Owes(j, k.room)
      BY <1>0, <1>4, <2>1 DEF CallRecord, JoinEnter, DriftInv, Owes
    <2>3. \A r \in Rooms \ {k.room} : joined'[r] = joined[r] /\ ~Owes(k, r)
      BY <1>0, <1>4 DEF JoinEnter, Typed, Owes
    <2> QED
      BY <2>1, <2>2, <2>3, EntrySettles
  <1>5. CASE LeaveStart(c)
    <2>1. PICK j : /\ call' = [call EXCEPT ![c] = j]
                   /\ j = Fetching(k, "fetch", joined'[k.room])
      BY <1>5 DEF LeaveStart
    <2>2. /\ j.op # "join" /\ j.pc # "evict" /\ UNCHANGED <<table, current>>
          /\ Owes(j, k.room)
      BY <1>0, <1>5, <2>1 DEF CallRecord, LeaveStart, Owes, Fetching
    <2>3. \A r \in Rooms \ {k.room} : joined'[r] = joined[r] /\ ~Owes(k, r)
      BY <1>0, <1>5 DEF LeaveStart, Typed, Owes
    <2>4. \A r \in Rooms : joined'[r] \subseteq joined[r]
      BY <1>0, <1>5 DEF LeaveStart, Typed
    <2> QED
      BY <2>1, <2>2, <2>3, <2>4, EntrySettles
  <1>6. CASE KickEvict(c)
    <2>1. PICK j : /\ call' = [call EXCEPT ![c] = j]
                   /\ \/ j = Fetching([k EXCEPT !.target = None], "fetch", joined'[k.room])
                      \/ j = Fetching(k, "fetch", joined[k.room])
      BY <1>6 DEF KickEvict
    <2>2. k.op = "kick"
      BY <1>0, <1>6 DEF KickEvict, Fetched, Shape
    <2>3. /\ j.op # "join" /\ j.pc # "evict"
          /\ UNCHANGED <<table, current>> /\ Owes(j, k.room)
      BY <1>0, <1>6, <2>1, <2>2 DEF CallRecord, KickEvict, Owes, Fetching
    <2>4. \A r \in Rooms \ {k.room} : joined'[r] = joined[r] /\ ~Owes(k, r)
      BY <1>0, <1>6 DEF KickEvict, Typed, Owes
    <2>5. \A r \in Rooms : joined'[r] \subseteq joined[r]
      BY <1>0, <1>6 DEF KickEvict, Typed
    <2> QED
      BY <2>1, <2>3, <2>4, <2>5, EntrySettles
  <1>7. CASE RemoteLeave(c)
    <2>1. PICK j : /\ call' = [call EXCEPT ![c] = j]
                   /\ j = IF k.pc = "evict" THEN Idle ELSE [k EXCEPT !.target = None]
      BY <1>7 DEF RemoteLeave
    <2>2. /\ j.op # "join" /\ j.pc # "evict" /\ UNCHANGED <<table, current>>
          /\ k.pc # "evict" => Owes(j, k.room)
          /\ k.pc = "evict" => k.room \in excused
      BY <1>0, <1>7, <2>1 DEF CallRecord, RemoteLeave, Evicting, Owes, Idle, DriftInv
    <2>3. \A r \in Rooms \ {k.room} : joined'[r] = joined[r] /\ ~Owes(k, r)
      BY <1>0, <1>7 DEF RemoteLeave, Typed, Owes
    <2>4. \A r \in Rooms : joined'[r] \subseteq joined[r]
      BY <1>0, <1>7 DEF RemoteLeave, Typed
    <2>5. k.room \in excused => k.room \in excused'
      BY DEF Track
    <2>6. Owes(j, k.room) \/ k.room \in excused'
      BY <2>2, <2>5
    <2> QED
      BY <2>1, <2>2, <2>3, <2>4, <2>6, EntrySettles
  <1>8. ASSUME NEW n \in Nodes, FetchReply(c, n) PROVE DriftInv'
    <2>1. PICK j : /\ call' = [call EXCEPT ![c] = j]
                   /\ j = [k EXCEPT !.seen = @ \cup LocalMembers(k.room, n), !.pending = @ \ {n}]
      BY <1>8 DEF FetchReply
    <2>2. j.op = k.op /\ j.room = k.room /\ j.pc = k.pc
      BY <1>0, <2>1 DEF CallRecord
    <2>3. UNCHANGED <<joined, table, current>> /\ k.pc # "evict"
      BY <1>0, <1>8 DEF FetchReply, Shape
    <2>4. \A r : Owes(k, r) => Owes(j, r)
      BY <2>2 DEF Owes
    <2> QED
      BY <2>1, <2>2, <2>3, <2>4, QuietSettles
  <1>9. CASE FetchTimeout(c)
    <2>1. PICK j : /\ call' = [call EXCEPT ![c] = j]
                   /\ j = IF Evicting(k) THEN [k EXCEPT !.pc = "evict", !.seen = {}, !.pending = {}]
                                         ELSE Idle
      BY <1>9 DEF FetchTimeout
    <2>2. UNCHANGED <<joined, table, current>>
      BY <1>9 DEF FetchTimeout
    <2>3. ASSUME NEW r \in Rooms, Owes(k, r) PROVE r \in excused'
      <3>1. Excuse(r)
        BY <1>9, <2>3, Zenon DEF Excuse
      <3> QED
        BY <3>1, IsExcused
    <2>4. Evicting(k) => k.room \in Rooms /\ Owes(k, k.room)
      BY <1>0, <1>9 DEF FetchTimeout, Evicting, Shape, Owes
    <2>5. CASE Evicting(k)
      <3>1. j.op = k.op /\ j.room = k.room
        BY <1>0, <2>1, <2>5 DEF CallRecord
      <3>2. k.room \in excused'
        BY <2>3, <2>4, <2>5, Zenon
      <3> QED
        BY <2>1, <2>2, <2>3, <3>1, <3>2, QuietSettles
    <2>6. CASE ~Evicting(k)
      BY <2>1, <2>2, <2>3, <2>6, QuietSettles DEF Idle
    <2> QED
      BY <2>5, <2>6
  <1>10. CASE WriteCount(c)
    <2>1. /\ call' = [call EXCEPT ![c] = Idle] /\ joined' = joined /\ table' = table
          /\ Idle.op # "join" /\ Idle.pc # "evict"
      BY <1>10 DEF WriteCount, Idle
    <2>2. ASSUME NEW r \in Rooms, r \notin excused', r # k.room
          PROVE  current'[r] = current[r] /\ ~Owes(k, r)
      BY <1>0, <1>10, <2>2 DEF WriteCount, Typed, Owes
    <2>3. ASSUME NEW r \in Rooms, r \notin excused', r = k.room
          PROVE  current'[r] = Cardinality(joined'[r])
      <3>1. c \notin disturbed
        <4>1. ~Excuse(r)
          BY <2>3, NotExcused
        <4> QED
          BY <1>10, <2>3, <4>1, Zenon DEF Excuse
      <3> QED
        BY <1>10, <2>3, <3>1, WritesExact DEF DriftInv
    <2> HIDE DEF k
    <2>4. \A r \in Rooms \ excused' :
             \/ current'[r] = Cardinality(joined'[r])
             \/ current'[r] = current[r] /\ joined'[r] = joined[r] /\ ~Owes(call[c], r)
      BY <2>1, <2>2, <2>3 DEF k
    <2> QED
      BY <2>1, <2>4, OneCallSettles
  <1>11. CASE WriteMissing(c)
    <2>1. /\ call' = [call EXCEPT ![c] = Idle] /\ UNCHANGED <<joined, table, current>>
          /\ table[k.room] # "open" /\ Idle.pc # "evict"
      BY <1>11 DEF WriteMissing, Idle
    <2>2. \A r : Owes(k, r) => table[r] # "open"
      BY <2>1 DEF Owes
    <2> QED
      BY <2>1, <2>2, QuietSettles
  <1>12. CASE DeleteCheck(c)
    <2>1. PICK j : /\ call' = [call EXCEPT ![c] = j]
                   /\ j = Idle \/ j = [k EXCEPT !.pc = "delete"]
      BY <1>12 DEF DeleteCheck
    <2>2. /\ UNCHANGED <<joined, table, current>> /\ k.pc = "count" /\ j.pc # "evict"
          /\ j = Idle \/ (j.op = k.op /\ j.room = k.room)
      BY <1>0, <1>12, <2>1 DEF DeleteCheck, CallRecord, Idle
    <2> QED
      BY <1>0, <2>1, <2>2, QuietSettles
  <1>13. CASE DeleteRow(c)
    <2>1. /\ call' = [call EXCEPT ![c] = Idle] /\ UNCHANGED <<joined, current>>
          /\ Idle.op # "join" /\ Idle.pc # "evict" /\ k.pc = "delete"
          /\ \A r \in Rooms : table'[r] = table[r] \/ table'[r] = "deleted"
      BY <1>0, <1>13 DEF DeleteRow, Idle, Typed
    <2>2. \A r : ~Owes(k, r)
      BY <1>0, <2>1
    <2> QED
      BY <2>1, <2>2, OneCallSettles
  <1> QED
    BY <1>1, <1>2, <1>3, <1>4, <1>5, <1>6, <1>7, <1>8, <1>9, <1>10, <1>11, <1>12, <1>13
       DEF Progress

\* What a node's end leaves of a handler: nothing, or a handler of the same
\* room, that owes what it did or has only its REMOTE_LEAVE left.
LEMMA AfterCrashKeeps ==
    ASSUME NEW k, Shape(k), NEW n \in Nodes, NEW survives \in BOOLEAN,
           survives => Evicting(k), NEW j, j = AfterCrash(k, n, survives)
    PROVE  \/ j = Idle
           \/ /\ j.op = k.op /\ j.room = k.room
              /\ j.pc = k.pc \/ (j.pc = "evict" /\ Evicting(k))
  <1>1. k \in CallRecord
    BY DEF Shape
  <1>2. CASE k.node = n /\ survives
    <2>1. j = [k EXCEPT !.pc = "evict", !.seen = {}, !.pending = {}]
      BY <1>2 DEF AfterCrash
    <2>2. j.op = k.op /\ j.room = k.room /\ j.pc = "evict"
      BY <1>1, <2>1 DEF CallRecord
    <2> QED
      BY <1>2, <2>2
  <1>3. CASE \/ j = [k EXCEPT !.target = None, !.pending = (@ \ {n}) \cup {None}]
             \/ j = [k EXCEPT !.pending = (@ \ {n}) \cup {None}]
             \/ j = k
    <2>1. j.op = k.op /\ j.room = k.room /\ j.pc = k.pc
      BY <1>1, <1>3 DEF CallRecord
    <2> QED
      BY <2>1
  <1> QED
    BY <1>2, <1>3 DEF AfterCrash

\* ... the end of a process keeps it, ...
LEMMA DieSettles ==
    ASSUME DriftInv, CountInv', Track, ProcessEnds, NEW n \in Nodes,
           NEW S \in SUBSET InTransit(n), Die(n, S)
    PROVE  DriftInv'
  <1>1. /\ Typed /\ table' = table /\ current' = current
        /\ \A r \in Rooms : joined'[r] = joined[r] \ On(n)
    BY DEF DriftInv, CountInv, Die
  <1>2. ASSUME NEW c \in Calls
        PROVE  \/ call'[c] = Idle
               \/ /\ call'[c].op = call[c].op /\ call'[c].room = call[c].room
                  /\ \/ call'[c].pc = call[c].pc
                     \/ call'[c].pc = "evict" /\ Evicting(call[c])
    <2>1. PICK b \in BOOLEAN : b <=> c \in S
      OBVIOUS
    <2>2. /\ Shape(call[c]) /\ call'[c] = AfterCrash(call[c], n, c \in S)
          /\ b => Evicting(call[c])
      BY <1>1, <2>1 DEF Typed, Die, InTransit
    <2>3. AfterCrash(call[c], n, c \in S) = AfterCrash(call[c], n, b)
      BY <2>1 DEF AfterCrash
    <2>4. PICK j : j = call'[c]
      OBVIOUS
    <2>5. j = AfterCrash(call[c], n, b)
      BY <2>2, <2>3, <2>4
    <2>6. \/ j = Idle
          \/ /\ j.op = call[c].op /\ j.room = call[c].room
             /\ j.pc = call[c].pc \/ (j.pc = "evict" /\ Evicting(call[c]))
      BY <2>2, <2>5, AfterCrashKeeps
    <2> QED
      BY <2>4, <2>6
  <1>3. ASSUME NEW r \in Rooms, r \notin excused'
        PROVE  /\ joined'[r] = joined[r]
               /\ \A c \in Calls : Owes(call[c], r) => Owes(call'[c], r)
    <2>1. ~Excuse(r)
      BY <1>3, NotExcused
    <2> QED
      BY <2>1, Zenon DEF Excuse
  <1>4. ASSUME NEW c \in Calls, call'[c].op = "join"
        PROVE  table[call'[c].room] # "unborn"
    <2>1. call[c].op = "join" => table[call[c].room] # "unborn"
      BY DEF DriftInv
    <2> QED
      BY <1>2, <1>4, <2>1 DEF Idle
  <1>5. ASSUME NEW c \in Calls, call'[c].pc = "evict"
        PROVE  call'[c].room \in excused'
    <2>1. /\ Shape(call[c]) /\ call'[c].room = call[c].room
          /\ call[c].pc = "evict" \/ Evicting(call[c])
      BY <1>1, <1>2, <1>5 DEF Idle, Typed
    <2>2. call[c].room \in Rooms
      BY <2>1 DEF Shape, Evicting
    <2>3. CASE call[c].pc = "evict"
      <3>1. call[c].room \in excused
        BY <2>3 DEF DriftInv
      <3> QED
        BY <2>1, <2>2, <3>1, IsExcused
    <2>4. CASE call[c].pc # "evict"
      <3>1. Owes(call[c], call[c].room)
        BY <2>1, <2>4 DEF Owes, Evicting
      <3>2. ~Owes(call'[c], call[c].room)
        BY <1>5 DEF Owes
      <3>3. Excuse(call[c].room)
        BY <3>1, <3>2, Zenon DEF Excuse
      <3> QED
        BY <2>1, <2>2, <3>3, IsExcused
    <2> QED
      BY <2>3, <2>4
  <1>6. ASSUME NEW r \in Rooms, r \notin excused'
        PROVE  Settles(r) /\ joined'[r] \subseteq joined[r]
    <2>1. /\ current'[r] = current[r] /\ joined'[r] = joined[r] /\ table'[r] = table[r]
          /\ \A c \in Calls : Owes(call[c], r) => Owes(call'[c], r)
      BY <1>1, <1>3, <1>6
    <2> QED
      BY <2>1, Zenon DEF Settles
  <1> QED
    BY <1>1, <1>4, <1>5, <1>6, SettlesAll

\* ... a step that changes no handler and no row does, ...
LEMMA NoCallSettles ==
    ASSUME DriftInv, CountInv', Track, UNCHANGED <<call, table, current>>,
           \A r \in Rooms \ excused' : joined'[r] = joined[r]
    PROVE  DriftInv'
  <1>1. /\ \A c \in Calls : call'[c].op = "join" => table[call'[c].room] # "unborn"
        /\ \A c \in Calls : call'[c].pc = "evict" => call'[c].room \in excused'
    BY DEF DriftInv, Track
  <1>2. ASSUME NEW r \in Rooms, r \notin excused'
        PROVE  Settles(r) /\ joined'[r] \subseteq joined[r]
    <2>1. /\ current'[r] = current[r] /\ joined'[r] = joined[r] /\ table'[r] = table[r]
          /\ \A c \in Calls : Owes(call[c], r) => Owes(call'[c], r)
      BY <1>2
    <2> QED
      BY <2>1, Zenon DEF Settles
  <1> QED
    BY <1>1, <1>2, SettlesAll

\* The handler of a disconnection owes the count of its room.
LEMMA DiscRecord ==
    ASSUME NEW s, NEW r, NEW members, NEW f,
           f = Fetching(Request("disc", s, r, None), "fetch", members)
    PROVE  f.op = "disc" /\ f.pc = "fetch" /\ f.room = r
  BY DEF Fetching, Request

\* ... a disconnection starts the counts of the rooms it leaves, ...
LEMMA DisconnectSettles ==
    ASSUME DriftInv, CountInv', Track, NEW s \in Sockets, Disconnect(s)
    PROVE  DriftInv'
  <1> PICK slot \in [Calls -> RoomsToSettle(s) \cup {None}] :
         /\ \A c \in Calls : slot[c] # None => call[c] = Idle
         /\ \A r \in RoomsToSettle(s) : \E c \in Calls : slot[c] = r
         /\ call' = [c \in Calls |->
                       IF slot[c] = None THEN call[c]
                       ELSE Fetching(Request("disc", s, slot[c], None),
                                     "fetch", joined[slot[c]])]
    BY DEF Disconnect
  <1>1. /\ Typed /\ table' = table /\ current' = current
        /\ \A r \in Rooms : joined'[r] = joined[r] \ {s}
    BY DEF DriftInv, CountInv, Disconnect
  <1>2. ASSUME NEW c \in Calls, slot[c] # None
        PROVE  /\ call'[c].op = "disc" /\ call'[c].pc = "fetch"
               /\ call'[c].room = slot[c]
    <2>1. PICK f : f = Fetching(Request("disc", s, slot[c], None), "fetch",
                                joined[slot[c]])
      OBVIOUS
    <2>2. call'[c] = f
      BY <1>2, <2>1
    <2> QED
      BY <2>1, <2>2, DiscRecord
  <1>3. ASSUME NEW c \in Calls, slot[c] = None PROVE call'[c] = call[c]
    BY <1>3
  <1>4. ASSUME NEW c \in Calls
        PROVE  /\ call'[c].op = "join" => table[call'[c].room] # "unborn"
               /\ call'[c].pc = "evict" => call'[c].room \in excused'
    BY <1>2, <1>3 DEF DriftInv, Track
  <1>5. ASSUME NEW r \in Rooms, r \notin excused' PROVE Settles(r)
    <2>1. CASE r \in RoomsToSettle(s)
      <3>1. PICK c \in Calls : slot[c] = r
        BY <2>1
      <3>2. slot[c] # None
        BY <1>5, <3>1, NoneAssumption
      <3>3. Owes(call'[c], r)
        BY <1>2, <3>1, <3>2 DEF Owes
      <3> QED
        BY <3>3, Zenon DEF Settles
    <2>2. CASE r \notin RoomsToSettle(s)
      <3>1. ~Excuse(r)
        BY <1>5, NotExcused
      <3>2. joined'[r] = joined[r]
        BY <2>2, <3>1, Zenon DEF Excuse
      <3>3. ASSUME NEW c \in Calls, Owes(call[c], r) PROVE Owes(call'[c], r)
        <4>1. call[c] # Idle
          BY <3>3 DEF Owes, Idle
        <4>2. slot[c] = None
          BY <4>1
        <4> QED
          BY <1>3, <3>3, <4>2
      <3>4. current'[r] = current[r] /\ table'[r] = table[r]
        BY <1>1
      <3> QED
        BY <3>2, <3>3, <3>4, Zenon DEF Settles
    <2> QED
      BY <2>1, <2>2
  <1>6. \A r \in Rooms : joined'[r] \subseteq joined[r]
    BY <1>1
  <1> QED
    BY <1>1, <1>4, <1>5, <1>6, SettlesAll

\* ... so does every step of a client, ...
LEMMA ClientSettles ==
    ASSUME DriftInv, CountInv', Track, NEW s \in Sockets, Client(s)
    PROVE  DriftInv'
  <1>1. CASE Connect(s) \/ Hook(s)
    <2>1. UNCHANGED <<call, table, current, joined>>
      BY <1>1 DEF Connect, Hook
    <2> QED
      BY <2>1, NoCallSettles
  <1>2. CASE TuneUid(s)
    <2>1. UNCHANGED <<call, table, current>>
      BY <1>2 DEF TuneUid
    <2>2. ASSUME NEW r \in Rooms, r \notin excused' PROVE joined'[r] = joined[r]
      <3>1. ~Excuse(r)
        BY <2>2, NotExcused
      <3> QED
        BY <1>2, <3>1, Zenon DEF Excuse
    <2> QED
      BY <2>1, <2>2, NoCallSettles
  <1>3. CASE Disconnect(s)
    BY <1>3, DisconnectSettles
  <1>4. ASSUME NEW c \in Calls, NEW r \in Rooms, NEW t \in Sockets \cup {None},
               NEW op \in {"join", "leave", "kick"}, Ask(c, op, s, r, t)
        PROVE  DriftInv'
    <2>1. PICK q : q = Request(op, s, r, t)
      OBVIOUS
    <2>2. /\ q.room = r /\ q.pc = "guard" /\ table[q.room] # "unborn"
          /\ call' = [call EXCEPT ![c] = q] /\ UNCHANGED <<joined, table, current>>
      BY <1>4, <2>1 DEF Ask, Request
    <2>3. \A x : ~Owes(call[c], x)
      BY <1>4 DEF Ask, Idle, Owes
    <2> QED
      BY <2>2, <2>3, OneCallSettles
  <1>5. CASE \E c \in Calls, r \in Rooms : AskJoin(c, s, r) \/ AskLeave(c, s, r)
    BY <1>4, <1>5 DEF AskJoin, AskLeave
  <1>6. CASE \E c \in Calls, r \in Rooms, t \in Sockets : AskKick(c, s, r, t)
    BY <1>4, <1>6 DEF AskKick
  <1> QED
    BY <1>1, <1>2, <1>3, <1>5, <1>6 DEF Client

\* ... a new room's row, ...
LEMMA CreateSettles ==
    ASSUME DriftInv, CountInv', Track, NEW q \in Rooms, CreateRoom(q)
    PROVE  DriftInv'
  <1>1. /\ Typed /\ UNCHANGED <<joined, call>> /\ table[q] = "unborn"
        /\ table' = [table EXCEPT ![q] = "open"]
        /\ current' = [current EXCEPT ![q] = 0]
    BY DEF DriftInv, CountInv, CreateRoom
  <1>2. /\ \A c \in Calls : call'[c].op = "join" => table[call'[c].room] # "unborn"
        /\ \A c \in Calls : call'[c].pc = "evict" => call'[c].room \in excused'
    BY <1>1 DEF DriftInv, Track
  <1>3. \A r \in Rooms : table'[r] = "unborn" => table[r] = "unborn"
    BY <1>1 DEF Typed
  <1>4. ASSUME NEW r \in Rooms, r \notin excused' PROVE Settles(r)
    <2>1. CASE r = q
      <3>1. joined[q] = {}
        BY <1>1, <1>4, <2>1, NotExcused DEF DriftInv
      <3>2. current'[q] = 0 /\ joined'[q] = {}
        BY <1>1, <3>1 DEF Typed
      <3>3. current'[r] = Cardinality(joined'[r])
        BY <2>1, <3>2, FS_EmptySet
      <3> QED
        BY <3>3, Zenon DEF Settles
    <2>2. CASE r # q
      <3>1. /\ table'[r] = table[r] /\ current'[r] = current[r]
            /\ joined'[r] = joined[r]
            /\ \A c \in Calls : Owes(call[c], r) => Owes(call'[c], r)
        BY <1>1, <2>2 DEF Typed
      <3> QED
        BY <3>1, Zenon DEF Settles
    <2> QED
      BY <2>1, <2>2
  <1> QED
    BY <1>1, <1>2, <1>3, <1>4, SettlesAll

\* ... and every step.
LEMMA DriftInvNext == DriftInv /\ [HNext]_hvars => DriftInv'
  <1> SUFFICES ASSUME DriftInv, [HNext]_hvars PROVE DriftInv'
    OBVIOUS
  <1>0. CountInv'
    BY CountInvNext DEF DriftInv
  <1>1. CASE UNCHANGED hvars
    <2>1. UNCHANGED <<stage, joined, table, current, call, disturbed, excused>>
      BY <1>1 DEF hvars
    <2>2. DriftExplained'
      BY <2>1 DEF DriftInv, DriftExplained, Owes
    <2> QED
      BY <1>0, <2>1, <2>2 DEF DriftInv
  <1>2. CASE HNext
    <2>1. Track /\ Next
      BY <1>2 DEF HNext
    <2>2. ASSUME NEW c \in Calls, Progress(c),
                 call[c].op = "disc" /\ (FetchTimeout(c) \/ WriteMissing(c))
          PROVE  DriftInv'
      <3>1. ProcessEnds
        BY <2>2, Zenon DEF ProcessEnds
      <3>2. PICK n : n = call[c].node
        OBVIOUS
      <3>3. Shape(call[c])
        BY DEF DriftInv, CountInv, Typed
      <3>4. n \in Nodes
        BY <2>2, <3>2, <3>3, LayoutAssumption DEF Shape
      <3>5. Die(n, InTransit(n))
        BY <2>2, <3>2 DEF FetchTimeout, WriteMissing
      <3>6. InTransit(n) \in SUBSET InTransit(n)
        OBVIOUS
      <3> QED
        BY <1>0, <2>1, <3>1, <3>4, <3>5, <3>6, DieSettles
    <2>3. CASE \E c \in Calls : Progress(c)
      BY <1>0, <2>1, <2>2, <2>3, ProgressSettles
    <2>4. CASE \E s \in Sockets : Client(s)
      BY <1>0, <2>1, <2>4, ClientSettles
    <2>5. CASE \E r \in Rooms : CreateRoom(r)
      BY <1>0, <2>1, <2>5, CreateSettles
    <2>6. ASSUME NEW c \in Calls, NEW r \in Rooms, NEW n \in Nodes, DeleteAsk(c, r, n)
          PROVE  DriftInv'
      <3>1. PICK d : d = [Idle EXCEPT !.op = "delete", !.pc = "count", !.room = r,
                                      !.node = n]
        OBVIOUS
      <3>2. /\ d.op = "delete" /\ d.pc = "count"
            /\ call' = [call EXCEPT ![c] = d] /\ UNCHANGED <<joined, table, current>>
        BY <2>6, <3>1 DEF DeleteAsk, Idle
      <3>3. \A x : ~Owes(call[c], x)
        BY <2>6 DEF DeleteAsk, Idle, Owes
      <3> QED
        BY <1>0, <2>1, <3>2, <3>3, OneCallSettles
    <2>7. ASSUME NEW n \in Nodes, Crash(n) PROVE DriftInv'
      <3>1. ProcessEnds
        BY <2>7, Zenon DEF ProcessEnds
      <3>2. PICK S \in SUBSET InTransit(n) : Die(n, S)
        BY <2>7 DEF Crash
      <3> QED
        BY <1>0, <2>1, <3>1, <3>2, DieSettles
    <2> QED
      BY <2>1, <2>3, <2>4, <2>5, <2>6, <2>7 DEF Next
  <1> QED
    BY <1>1, <1>2

\* room.current differs from the number of members for four reasons only: a
\* room none of them has met, and whose handlers have all written their
\* counts, is counted right, whatever else has happened and in which order.
THEOREM DriftHasFourCauses == HSpec => []DriftExplained
  <1>1. DriftInv => DriftExplained
    BY DEF DriftInv
  <1> QED
    BY <1>1, DriftInvInit, DriftInvNext, PTL DEF HSpec
==============================================================================
