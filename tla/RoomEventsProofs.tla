--------------------------- MODULE RoomEventsProofs ---------------------------
(***************************************************************************)
(* Theorems about RoomEvents, for any sockets, users, nodes, handlers and  *)
(* number of requests, and a room that is nobody's room for direct         *)
(* messages.                                                               *)
(*                                                                         *)
(* A client will show s, or not, by the last word on s that is on its way  *)
(* to it, or by its view if there is none.  So of a member the last word   *)
(* is NEW_USER (Confirmed, Seen), and of who is gone, or about to be       *)
(* evicted, LEFT_ROOM or KICK_USER (Ghosts), unless a history says why not.*)
(***************************************************************************)
EXTENDS RoomEvents, RoomGatewayProofs, SequenceTheorems

\* The room is no user's room for direct messages.
NobodysRoom == \A u \in Users : UidRoom[u] \notin Rooms

Room == CHOOSE r \in Rooms : TRUE
Members == joined[Room]

New(s) == [kind |-> "new", who |-> s, room |-> Room]
Left(s) == [kind |-> "left", who |-> s, room |-> Room]
Kicked(s) == [kind |-> "kicked", who |-> s, room |-> Room]
Clears(s) == {Left(s), Kicked(s)}
Words(s) == {New(s), Left(s), Kicked(s)}

Posts == Packet \cup Answers
Mail(n) == Range(inbox[n])

\* Some b comes after every a in the queue q.
After(q, A, B) == \A i \in DOMAIN q : q[i] \in A => \E j \in DOMAIN q : j > i /\ q[j] \in B

\* Handlers that will take s out of the room, or tell that it has left.
Evicts(k, s) == Evicting(k) /\ k.target = s
Leaves(k, s) == k.op = "leave" /\ k.pc = "fetch" /\ k.sock = s
Parts(k, s) == k.op \in {"leave", "disc"} /\ k.pc = "fetch" /\ k.sock = s

Evicted(s) == \E c \in Calls : Evicts(call[c], s)
Halfway(s) == \E c \in Calls : Leaves(call[c], s)
Parting(s) == \E c \in Calls : Parts(call[c], s)
Gone(s) == s \notin Members \/ Evicted(s)

ETyped ==
    /\ asked \in 0 .. MaxRequests
    /\ shown \in [Sockets -> SUBSET Sockets]
    /\ inbox \in [Nodes -> Seq(Posts)]
    /\ amiss \in [Sockets -> SUBSET Sockets]
    /\ untold \subseteq Sockets /\ hidden \subseteq Sockets

\* A target still to be removed is on another node, which has not answered yet.
Apart(k) == Evicting(k) => NodeOf[k.target] # k.node /\ Ordered(k)

\* A disconnection is counted for who is gone.
Over(k, stages) == k.op = "disc" => stages[k.sock] = "gone"

Handlers == \A c \in Calls : Apart(call[c]) /\ Over(call[c], stage)

\* A node is told by others of nobody on it, but to evict it.
Posted ==
    \A s \in Sockets :
        /\ New(s) \notin Mail(NodeOf[s]) /\ Left(s) \notin Mail(NodeOf[s])
        /\ Kicked(s) \in Mail(NodeOf[s]) => Evicted(s)

\* Who has entered while its leaving was still to be told of.
HalfHidden == \A s \in Members : Halfway(s) => s \in hidden

\* No word that a member is gone comes last.
Confirmed ==
    \A s \in Members \ hidden : ~Evicted(s) =>
        \A n \in Nodes : After(inbox[n], Clears(s), {New(s)})

\* A member is shown, or will be.
Seen ==
    \A s, t \in Members \ hidden : s # t /\ ~Evicted(s) /\ ~Evicted(t) =>
        \/ s \in amiss[t] \/ s \in shown[t]
        \/ New(s) \in Mail(NodeOf[t])

\* Of two members the one that entered second has announced itself to the first.
OneSided == \A s, t \in Members : s = t \/ s \notin amiss[t] \/ t \notin amiss[s]

\* The word that who has left is gone comes last, and to whoever shows it.
Ghosts ==
    \A s \in Sockets \ untold : Gone(s) /\ ~Parting(s) =>
        /\ \A n \in Nodes : After(inbox[n], {New(s)}, Clears(s))
        /\ \A t \in Members \ {s} : s \in shown[t] /\ s \notin amiss[t] =>
              \E p \in Clears(s) : p \in Mail(NodeOf[t])

Events == Posted /\ HalfHidden /\ Confirmed /\ Seen /\ OneSided /\ Ghosts

EInv == Typed /\ NoZombies /\ ETyped /\ Handlers /\ Events

------------------------------------------------------------------------------
\* Queues.

\* The first packet is taken from a queue.
LEMMA FirstOff ==
    ASSUME NEW S, NEW q \in Seq(S), q # <<>>
    PROVE  /\ Head(q) \in S /\ Head(q) \in Range(q) /\ Tail(q) \in Seq(S)
           /\ Range(Tail(q)) \subseteq Range(q)
           /\ Range(q) \subseteq Range(Tail(q)) \cup {Head(q)}
           /\ \A A, B : After(q, A, B) => After(Tail(q), A, B)
           /\ \A A, B : After(q, A, B) /\ Head(q) \in A => \E i \in B : i \in Range(Tail(q))
<1> DEFINE t == Tail(q)
<1>1. /\ Len(q) \in Nat \ {0} /\ DOMAIN q = 1..Len(q)
      /\ Head(q) = q[1] /\ Head(q) \in S
  BY EmptySeq, HeadTailProperties
<1>2. /\ t \in Seq(S) /\ Len(t) = Len(q) - 1
      /\ \A k \in 1..Len(t) : t[k] = q[k+1]
  BY HeadTailProperties
<1>3. DOMAIN t = 1..Len(t)
  BY <1>2, LenProperties
<1> HIDE DEF t
<1>4. \A k \in DOMAIN t : k + 1 \in DOMAIN q /\ t[k] = q[k+1]
  BY <1>1, <1>2, <1>3
<1>5. \A l \in DOMAIN q : l > 1 => l - 1 \in DOMAIN t /\ t[l - 1] = q[l]
  <2> SUFFICES ASSUME NEW l \in DOMAIN q, l > 1
               PROVE  l - 1 \in DOMAIN t /\ t[l - 1] = q[l]
    OBVIOUS
  <2>1. l - 1 \in 1..Len(t) /\ l = (l - 1) + 1
    BY <1>1, <1>2
  <2> QED
    BY <1>2, <1>3, <2>1
<1>6. 1 \in DOMAIN q /\ \A l \in DOMAIN q : l = 1 \/ l > 1
  BY <1>1
<1>7. /\ Range(t) \subseteq Range(q) /\ Range(q) \subseteq Range(t) \cup {Head(q)}
      /\ Head(q) \in Range(q)
  BY <1>1, <1>4, <1>5, <1>6 DEF Range
<1>8. ASSUME NEW A, NEW B, After(q, A, B)
      PROVE  /\ After(t, A, B)
             /\ Head(q) \in A => \E i \in B : i \in Range(t)
  <2>1. ASSUME NEW k \in DOMAIN t, t[k] \in A
        PROVE  \E l \in DOMAIN t : l > k /\ t[l] \in B
    <3>1. k + 1 \in DOMAIN q /\ q[k+1] \in A
      BY <1>4, <2>1
    <3>2. PICK l \in DOMAIN q : l > k + 1 /\ q[l] \in B
      BY <1>8, <3>1 DEF After
    <3>3. l > 1 /\ l - 1 > k
      BY <1>1, <1>3, <1>2, <3>2
    <3> QED
      BY <1>5, <3>2, <3>3
  <2>2. ASSUME Head(q) \in A PROVE \E i \in B : i \in Range(t)
    <3>1. PICK l \in DOMAIN q : l > 1 /\ q[l] \in B
      BY <1>1, <1>6, <1>8, <2>2 DEF After
    <3> QED
      BY <1>5, <3>1 DEF Range
  <2> QED
    BY <2>1, <2>2 DEF After
<1> QED
  BY <1>1, <1>2, <1>7, <1>8 DEF t

\* A packet is put at the end of a queue.
LEMMA OneMore ==
    ASSUME NEW S, NEW q \in Seq(S), NEW a \in S
    PROVE  /\ Append(q, a) \in Seq(S)
           /\ Range(Append(q, a)) = Range(q) \cup {a}
           /\ \A A, B : After(q, A, B) /\ a \notin A => After(Append(q, a), A, B)
           /\ \A A, B : a \notin A /\ a \in B => After(Append(q, a), A, B)
<1> DEFINE t == Append(q, a)
<1>1. /\ t \in Seq(S) /\ Len(q) \in Nat /\ Len(t) = Len(q) + 1
      /\ \A i \in 1..Len(q) : t[i] = q[i]
      /\ t[Len(q) + 1] = a
  BY AppendProperties, LenProperties
<1>2. DOMAIN q = 1..Len(q) /\ DOMAIN t = 1..Len(t)
  BY <1>1, LenProperties
<1> HIDE DEF t
<1>3. /\ \A i \in DOMAIN q : i \in DOMAIN t /\ t[i] = q[i] /\ Len(q) + 1 > i
      /\ Len(q) + 1 \in DOMAIN t
      /\ \A i \in DOMAIN t : i \in DOMAIN q \/ i = Len(q) + 1
  BY <1>1, <1>2
<1>4. Range(t) = Range(q) \cup {a}
  <2>1. Range(t) \subseteq Range(q) \cup {a}
    BY <1>1, <1>3 DEF Range
  <2>2. Range(q) \subseteq Range(t) /\ a \in Range(t)
    BY <1>1, <1>3 DEF Range
  <2> QED
    BY <2>1, <2>2
<1>5. ASSUME NEW A, NEW B, a \notin A, After(q, A, B) \/ a \in B
      PROVE  After(t, A, B)
  <2> SUFFICES ASSUME NEW k \in DOMAIN t, t[k] \in A
               PROVE  \E l \in DOMAIN t : l > k /\ t[l] \in B
    BY DEF After
  <2>1. k \in DOMAIN q /\ q[k] \in A
    BY <1>1, <1>3, <1>5
  <2>2. CASE After(q, A, B)
    BY <1>3, <2>1, <2>2 DEF After
  <2>3. CASE a \in B
    BY <1>1, <1>3, <2>1, <2>3
  <2> QED
    BY <1>5, <2>2, <2>3
<1> QED
  BY <1>1, <1>4, <1>5 DEF t

\* Nothing comes after anything in an empty queue.
LEMMA NoMore == Range(<<>>) = {} /\ \A A, B : After(<<>>, A, B)
<1>1. DOMAIN <<>> = {}
  OBVIOUS
<1> QED
  BY <1>1 DEF Range, After

------------------------------------------------------------------------------
\* Words, views and the room.

\* There is one room.
LEMMA TheRoom == Room \in Rooms /\ \A r \in Rooms : r = Room
  BY OneRoom DEF Room

\* Words on different sockets are different, and none is an answer.
LEMMA WordForms ==
    /\ \A s \in Sockets : /\ New(s) \in Posts /\ Left(s) \in Posts /\ Kicked(s) \in Posts
                          /\ New(s).kind = "new" /\ Left(s).kind = "left"
                          /\ Kicked(s).kind = "kicked"
    /\ \A s : New(s).who = s /\ Left(s).who = s /\ Kicked(s).who = s
    /\ \A s, x : /\ New(s) = New(x) <=> s = x
                 /\ Left(s) = Left(x) <=> s = x
                 /\ Kicked(s) = Kicked(x) <=> s = x
                 /\ New(s) # Left(x) /\ New(s) # Kicked(x) /\ Left(s) # Kicked(x)
    /\ \A s : \A a \in Answers : a \in Posts /\ a.kind = "answer"
                                 /\ a \notin Words(s)
<1>1. \A s : New(s).kind = "new" /\ Left(s).kind = "left" /\ Kicked(s).kind = "kicked"
  BY DEF New, Left, Kicked
<1>2. \A s : New(s).who = s /\ Left(s).who = s /\ Kicked(s).who = s
  BY DEF New, Left, Kicked
<1>3. \A s \in Sockets : New(s) \in Posts /\ Left(s) \in Posts /\ Kicked(s) \in Posts
  BY TheRoom DEF New, Left, Kicked, Posts, Packet
<1>4. \A a \in Answers : a \in Posts /\ a.kind = "answer"
  BY DEF Posts, Answers, Answer
<1>5. \A s : \A a \in Answers : a \notin Words(s)
  BY <1>1, <1>4 DEF Words
<1>6. \A s, x : /\ New(s) = New(x) <=> s = x
                /\ Left(s) = Left(x) <=> s = x
                /\ Kicked(s) = Kicked(x) <=> s = x
                /\ New(s) # Left(x) /\ New(s) # Kicked(x) /\ Left(s) # Kicked(x)
  BY <1>1, <1>2
<1> QED
  BY <1>1, <1>2, <1>3, <1>4, <1>5, <1>6

\* Every packet is a word on some socket or an answer.
LEMMA PostIs ==
    ASSUME NEW p \in Posts
    PROVE  \/ p \in Answers /\ p.kind = "answer"
           \/ /\ p.who \in Sockets /\ p.room = Room /\ p.kind # "answer"
              /\ \/ p = New(p.who) \/ p = Left(p.who) \/ p = Kicked(p.who)
  BY TheRoom DEF Posts, Packet, Answers, Answer, New, Left, Kicked

\* What a client makes of each word.
LEMMA ViewIs ==
    ASSUME NEW m, NEW view, NEW x
    PROVE  /\ View(m, view, New(x)) = view \cup {x}
           /\ View(m, view, Left(x)) = IF m = x THEN {} ELSE view \ {x}
           /\ View(m, view, Kicked(x)) = IF m \in OfSameUser(x) THEN {}
                                         ELSE view \ OfSameUser(x)
  BY DEF View, New, Left, Kicked

\* Whom a word names by mistake.
LEMMA MistakenIs ==
    ASSUME NEW x
    PROVE  /\ Mistaken(Kicked(x)) = (Members \cap OfSameUser(x)) \ {x}
           /\ Mistaken(New(x)) = {} /\ Mistaken(Left(x)) = {}
  BY DEF New, Left, Kicked, Mistaken, Members

\* A word is heard by its audience.
LEMMA HearIs ==
    ASSUME NEW views, NEW audience, NEW p, NEW t \in Sockets
    PROVE  Hear(views, audience, p)[t] =
               IF t \in audience THEN View(t, views[t], p) ELSE views[t]
  BY DEF Hear

------------------------------------------------------------------------------
\* Handlers.

\* What handlers do to sockets is as before.
Steady == \A s : /\ Evicted(s)' <=> Evicted(s)
                 /\ Halfway(s)' <=> Halfway(s)
                 /\ Parting(s)' <=> Parting(s)

SameRole(j, k) == \A s : /\ Evicts(j, s) <=> Evicts(k, s)
                         /\ Leaves(j, s) <=> Leaves(k, s)
                         /\ Parts(j, s) <=> Parts(k, s)

Plain(k) == ~Evicting(k) /\ ~(k.op \in {"leave", "disc"} /\ k.pc = "fetch")

\* One handler's record changes.
LEMMA OneCall ==
    ASSUME Typed, NEW c \in Calls, NEW j, call' = [call EXCEPT ![c] = j], NEW s
    PROVE  /\ Evicted(s)' <=> Evicts(j, s) \/ \E d \in Calls \ {c} : Evicts(call[d], s)
           /\ Halfway(s)' <=> Leaves(j, s) \/ \E d \in Calls \ {c} : Leaves(call[d], s)
           /\ Parting(s)' <=> Parts(j, s) \/ \E d \in Calls \ {c} : Parts(call[d], s)
           /\ Evicted(s) <=> Evicts(call[c], s) \/ \E d \in Calls \ {c} : Evicts(call[d], s)
           /\ Halfway(s) <=> Leaves(call[c], s) \/ \E d \in Calls \ {c} : Leaves(call[d], s)
           /\ Parting(s) <=> Parts(call[c], s) \/ \E d \in Calls \ {c} : Parts(call[d], s)
<1>1. call'[c] = j /\ \A d \in Calls \ {c} : call'[d] = call[d]
  BY DEF Typed
<1>2. /\ Evicted(s)' <=> \E d \in Calls : Evicts(call'[d], s)
      /\ Halfway(s)' <=> \E d \in Calls : Leaves(call'[d], s)
      /\ Parting(s)' <=> \E d \in Calls : Parts(call'[d], s)
  BY DEF Evicted, Halfway, Parting, Evicts, Leaves, Parts, Evicting
<1> QED
  BY <1>1, <1>2 DEF Evicted, Halfway, Parting

\* A handler in the same role as before.
LEMMA RoleStep ==
    ASSUME Typed, NEW c \in Calls, NEW j, call' = [call EXCEPT ![c] = j],
           SameRole(j, call[c])
    PROVE  Steady
<1> SUFFICES ASSUME NEW s PROVE /\ Evicted(s)' <=> Evicted(s)
                                /\ Halfway(s)' <=> Halfway(s)
                                /\ Parting(s)' <=> Parting(s)
  BY DEF Steady
<1>1. /\ Evicts(j, s) <=> Evicts(call[c], s)
      /\ Leaves(j, s) <=> Leaves(call[c], s)
      /\ Parts(j, s) <=> Parts(call[c], s)
  BY DEF SameRole
<1> QED
  BY <1>1, OneCall

\* The same for the invariant of handlers.
LEMMA OneHandler ==
    ASSUME Typed, Handlers, NEW c \in Calls, NEW j, call' = [call EXCEPT ![c] = j],
           stage' = stage, Apart(j), Over(j, stage)
    PROVE  Handlers'
<1>1. call'[c] = j /\ \A d \in Calls \ {c} : call'[d] = call[d]
  BY DEF Typed
<1>2. \A d \in Calls : Apart(call'[d]) /\ Over(call'[d], stage')
  BY <1>1 DEF Handlers
<1> QED
  BY <1>2 DEF Handlers, Apart, Over, Evicting, Ordered

\* A handler that neither evicts nor leaves, before or after.
LEMMA PlainStep ==
    ASSUME Typed, Handlers, NEW c \in Calls, NEW j, call' = [call EXCEPT ![c] = j],
           stage' = stage, Plain(call[c]), Plain(j), j.op # "disc"
    PROVE  Steady /\ Handlers'
<1>1. SameRole(j, call[c])
  BY DEF SameRole, Plain, Evicts, Leaves, Parts
<1>2. Apart(j) /\ Over(j, stage)
  BY DEF Plain, Apart, Over
<1> QED
  BY <1>1, <1>2, RoleStep, OneHandler

\* A handler that is idle has no role.
LEMMA PlainIdle == Plain(Idle) /\ Idle.op = "none"
  BY DEF Plain, Idle, Evicting

\* What the fields of a counting handler are.
LEMMA FetchingIs ==
    ASSUME NEW k \in CallRecord, NEW pc, NEW members
    PROVE  /\ Fetching(k, pc, members).op = k.op
           /\ Fetching(k, pc, members).sock = k.sock
           /\ Fetching(k, pc, members).node = k.node
           /\ Fetching(k, pc, members).room = k.room
           /\ Fetching(k, pc, members).target = k.target
           /\ Fetching(k, pc, members).pc = pc
           /\ Fetching(k, pc, members).pending = Nodes \ {k.node}
           /\ Fetching(k, pc, members).seen = members \cap On(k.node)
  BY DEF Fetching, CallRecord

\* The steps that send nothing, but for a leaving.
LEMMA SilentSteady ==
    ASSUME Typed, Handlers, NEW c \in Calls, Silent(c), ~LeaveStart(c)
    PROVE  Steady /\ Handlers' /\ joined' = joined /\ stage' = stage
<1> DEFINE k == call[c]
<1>0. Shape(k) /\ k \in CallRecord
  BY DEF Typed, Shape
<1>1. CASE Refuse(c)
  <2>1. Plain(k)
    BY <1>0, <1>1 DEF Refuse, Refusable, Fetched, Plain, Evicting, Shape
  <2> QED
    BY <1>1, <2>1, PlainIdle, PlainStep DEF Refuse
<1>2. CASE JoinStart(c)
  <2>1. Plain(k) /\ Plain([k EXCEPT !.pc = "lookup"]) /\ [k EXCEPT !.pc = "lookup"].op = "join"
    BY <1>0, <1>2 DEF JoinStart, Plain, Evicting, CallRecord
  <2>2. call' = [call EXCEPT ![c] = [k EXCEPT !.pc = "lookup"]]
    BY <1>2 DEF JoinStart
  <2> QED
    BY <1>2, <2>1, <2>2, PlainStep DEF JoinStart
<1>3. CASE JoinAdmit(c) \/ JoinPassword(c)
  <2>1. k.op = "join" /\ Plain(k)
    BY <1>0, <1>3 DEF JoinAdmit, JoinPassword, Shape, Plain, Evicting
  <2>2. PICK j : /\ call' = [call EXCEPT ![c] = j]
                 /\ j \in {[k EXCEPT !.pc = "verify"], Fetching(k, "fetch", joined[k.room])}
    BY <1>3 DEF JoinAdmit, JoinPassword
  <2>3. j.op = "join"
    BY <1>0, <2>1, <2>2, FetchingIs DEF CallRecord
  <2>4. Plain(j)
    BY <2>3 DEF Plain, Evicting
  <2> QED
    BY <1>3, <2>1, <2>2, <2>3, <2>4, PlainStep DEF JoinAdmit, JoinPassword
<1>4. CASE KickStart(c)
  <2>1. Plain(k) /\ Plain([k EXCEPT !.pc = "modcheck"]) /\ [k EXCEPT !.pc = "modcheck"].op = "kick"
    BY <1>0, <1>4 DEF KickStart, Plain, Evicting, CallRecord
  <2>2. call' = [call EXCEPT ![c] = [k EXCEPT !.pc = "modcheck"]]
    BY <1>4 DEF KickStart
  <2> QED
    BY <1>4, <2>1, <2>2, PlainStep DEF KickStart
<1>5. CASE KickAuthorised(c)
  <2>1. k.op = "kick" /\ Plain(k)
    BY <1>0, <1>5 DEF KickAuthorised, Shape, Plain, Evicting
  <2>2. PICK j : call' = [call EXCEPT ![c] = j] /\ j = Fetching(k, "find", joined[k.room])
    BY <1>5 DEF KickAuthorised
  <2>3. j.op = "kick" /\ j.pc = "find"
    BY <1>0, <2>1, <2>2, FetchingIs
  <2>4. Plain(j)
    BY <2>3 DEF Plain, Evicting
  <2> QED
    BY <1>5, <2>1, <2>2, <2>3, <2>4, PlainStep DEF KickAuthorised
<1>6. CASE DeleteCheck(c) \/ DeleteRow(c)
  <2>1. k.op = "delete" /\ Plain(k)
    BY <1>0, <1>6 DEF DeleteCheck, DeleteRow, Shape, Plain, Evicting
  <2>2. PICK j : /\ call' = [call EXCEPT ![c] = j]
                 /\ j \in {[k EXCEPT !.pc = "delete"], Idle}
    BY <1>6 DEF DeleteCheck, DeleteRow
  <2>3. j.op # "disc" /\ Plain(j)
    BY <1>0, <2>1, <2>2, PlainIdle DEF CallRecord, Plain, Evicting
  <2> QED
    BY <1>6, <2>1, <2>2, <2>3, PlainStep DEF DeleteCheck, DeleteRow
<1> QED
  BY <1>1, <1>2, <1>3, <1>4, <1>5, <1>6 DEF Silent

\* So do requests.
LEMMA AsksSteady ==
    ASSUME Typed, Handlers, NEW c \in Calls, NEW r \in Rooms, Asks(c, r)
    PROVE  Steady /\ Handlers' /\ joined' = joined /\ stage' = stage
<1>1. ASSUME NEW op \in {"join", "leave", "kick"}, NEW s \in Sockets, NEW t,
             Ask(c, op, s, r, t)
      PROVE  Steady /\ Handlers' /\ joined' = joined /\ stage' = stage
  <2>1. /\ Plain(Request(op, s, r, t)) /\ Request(op, s, r, t).op # "disc"
        /\ Plain(call[c])
    BY <1>1, PlainIdle DEF Plain, Evicting, Request, Ask
  <2> QED
    BY <1>1, <2>1, PlainStep DEF Ask
<1>2. ASSUME NEW n \in Nodes, DeleteAsk(c, r, n)
      PROVE  Steady /\ Handlers' /\ joined' = joined /\ stage' = stage
  <2>1. PICK j : /\ call' = [call EXCEPT ![c] = j]
                 /\ j = [Idle EXCEPT !.op = "delete", !.pc = "count", !.room = r, !.node = n]
    BY <1>2 DEF DeleteAsk
  <2>2. Plain(j) /\ j.op # "disc" /\ Plain(call[c])
    BY <1>2, <2>1, PlainIdle DEF Plain, Evicting, Idle, DeleteAsk
  <2> QED
    BY <1>2, <2>1, <2>2, PlainStep DEF DeleteAsk
<1> QED
  BY <1>1, <1>2 DEF Asks, AskJoin, AskLeave, AskKick

\* And the steps of onConnection.
LEMMA ConnectSteady ==
    ASSUME Typed, NobodysRoom, Handlers, NEW s \in Sockets, Connect(s) \/ TuneUid(s) \/ Hook(s)
    PROVE  Steady /\ Handlers' /\ Members' = Members
<1>1. call' = call
  BY DEF Connect, TuneUid, Hook
<1>2. Members' = Members
  <2>1. UidRoom[Owner[s]] # Room
    BY TheRoom, LayoutAssumption DEF NobodysRoom
  <2> QED
    BY <2>1, TheRoom DEF Connect, TuneUid, Hook, Members
<1>3. \A x \in Sockets : stage[x] = "gone" => stage'[x] = "gone"
  BY DEF Connect, TuneUid, Hook, Typed
<1>4. \A c \in Calls : call[c].op = "disc" => call[c].sock \in Sockets
  BY DEF Typed, Shape
<1> QED
  BY <1>1, <1>2, <1>3, <1>4 DEF Steady, Evicted, Halfway, Parting, Evicts, Leaves, Parts,
     Evicting, Handlers, Apart, Over, Ordered

------------------------------------------------------------------------------
\* What each step does to the room and to the roles of handlers.

\* A handler is over that evicts nobody any more.
LEMMA OneEnds ==
    ASSUME Typed, Handlers, NEW c \in Calls, ~Evicting(call[c]),
           call' = [call EXCEPT ![c] = Idle], stage' = stage
    PROVE  /\ Handlers'
           /\ \A s : /\ Evicted(s)' <=> Evicted(s)
                     /\ Halfway(s)' => Halfway(s)
                     /\ Parting(s)' => Parting(s)
                     /\ s # call[c].sock => (Parting(s) => Parting(s)')
           /\ call[c].op \notin {"leave", "disc"} => Steady
<1>1. \A s : ~Evicts(Idle, s) /\ ~Leaves(Idle, s) /\ ~Parts(Idle, s)
  BY DEF Idle, Evicts, Leaves, Parts, Evicting
<1>2. Apart(Idle) /\ Over(Idle, stage)
  BY DEF Idle, Apart, Over, Evicting
<1>3. \A s : ~Evicts(call[c], s) /\ (s # call[c].sock => ~Parts(call[c], s))
  BY DEF Evicts, Parts
<1>4. ASSUME NEW s
      PROVE  /\ Evicted(s)' <=> Evicted(s)
             /\ Halfway(s)' => Halfway(s)
             /\ Parting(s)' => Parting(s)
             /\ s # call[c].sock => (Parting(s) => Parting(s)')
  <2>1. ~Evicts(Idle, s) /\ ~Leaves(Idle, s) /\ ~Parts(Idle, s)
    BY <1>1
  <2>2. ~Evicts(call[c], s) /\ (s # call[c].sock => ~Parts(call[c], s))
    BY <1>3
  <2> QED
    BY <2>1, <2>2, OneCall
<1>5. ASSUME call[c].op \notin {"leave", "disc"} PROVE Steady
  <2>1. SameRole(Idle, call[c])
    BY <1>1, <1>3, <1>5 DEF SameRole, Leaves, Parts
  <2> QED
    BY <2>1, RoleStep
<1> QED
  BY <1>2, <1>4, <1>5, OneHandler

\* onLeaveRoom takes the socket out.
LEMMA LeaveEffect ==
    ASSUME Typed, Handlers, NEW c \in Calls, LeaveStart(c)
    PROVE  \E s \in Sockets :
              /\ Members' = Members \ {s} /\ Parting(s)' /\ Handlers'
              /\ \A x : /\ Evicted(x)' <=> Evicted(x)
                        /\ x # s => (Halfway(x)' => Halfway(x))
                        /\ Parting(x) => Parting(x)'
<1> DEFINE k == call[c]
<1>0. Shape(k) /\ k \in CallRecord
  BY DEF Typed, Shape
<1>1. k.sock \in Sockets /\ k.room = Room /\ k.op = "leave" /\ k.pc = "guard"
  BY <1>0, TheRoom DEF LeaveStart, Shape
<1>2. PICK j : call' = [call EXCEPT ![c] = j] /\ j = Fetching(k, "fetch", joined'[k.room])
  BY DEF LeaveStart
<1>3. j.op = "leave" /\ j.pc = "fetch" /\ j.sock = k.sock
  BY <1>0, <1>1, <1>2, FetchingIs
<1>4. Members' = Members \ {k.sock}
  BY <1>1, TheRoom DEF LeaveStart, Members, Typed
<1>5. Handlers'
  <2>1. Apart(j) /\ Over(j, stage)
    BY <1>3 DEF Apart, Over, Evicting
  <2> QED
    BY <1>2, <2>1, OneHandler DEF LeaveStart
<1>8. PICK s \in Sockets : s = k.sock
  BY <1>1
<1>6. Parting(s)'
  <2>1. Parts(j, s)
    BY <1>3, <1>8 DEF Parts
  <2> QED
    BY <1>2, <2>1, OneCall
<1>7. ASSUME NEW x
      PROVE  /\ Evicted(x)' <=> Evicted(x)
             /\ x # k.sock => (Halfway(x)' => Halfway(x))
             /\ Parting(x) => Parting(x)'
  <2>1. /\ ~Evicts(j, x) /\ ~Evicts(k, x)
        /\ x # k.sock => ~Leaves(j, x)
        /\ ~Parts(k, x)
    BY <1>1, <1>3 DEF Evicts, Evicting, Leaves, Parts
  <2>2. Evicted(x)' <=> Evicted(x)
    BY <1>2, <2>1, OneCall
  <2>3. x # k.sock => (Halfway(x)' => Halfway(x))
    BY <1>2, <2>1, OneCall
  <2>4. Parting(x) => Parting(x)'
    BY <1>2, <2>1, OneCall
  <2> QED
    BY <2>2, <2>3, <2>4
<1>9. /\ Members' = Members \ {s} /\ Parting(s)' /\ Handlers'
      /\ \A x : /\ Evicted(x)' <=> Evicted(x)
                /\ x # s => (Halfway(x)' => Halfway(x))
                /\ Parting(x) => Parting(x)'
  BY <1>4, <1>5, <1>6, <1>7, <1>8
<1> QED
  BY <1>9

\* REMOTE_LEAVE takes its target out.
LEMMA RemoteEffect ==
    ASSUME Typed, Handlers, NEW c \in Calls, RemoteLeave(c)
    PROVE  /\ call[c].target \in Sockets /\ call[c].room = Room
           /\ Members' = Members \ {call[c].target} /\ Handlers'
           /\ \A x : /\ Evicted(x)' => Evicted(x)
                     /\ x # call[c].target => (Evicted(x) => Evicted(x)')
                     /\ Halfway(x)' <=> Halfway(x)
                     /\ Parting(x)' <=> Parting(x)
<1> DEFINE k == call[c]
<1>0. Shape(k) /\ k \in CallRecord
  BY DEF Typed, Shape
<1>1. /\ k.target \in Sockets /\ k.room = Room /\ k.op = "kick" /\ k.pc \in {"fetch", "evict"}
  BY <1>0, TheRoom DEF RemoteLeave, Evicting, Shape, CallRecord
<1>2. PICK j : /\ call' = [call EXCEPT ![c] = j]
               /\ j = IF k.pc = "evict" THEN Idle ELSE [k EXCEPT !.target = None]
  BY DEF RemoteLeave
<1>3. j.op \in {"none", "kick"} /\ ~Evicting(j)
  BY <1>0, <1>1, <1>2 DEF Idle, CallRecord, Evicting
<1>4. Members' = Members \ {k.target}
  BY <1>1, TheRoom DEF RemoteLeave, Members, Typed
<1>5. Handlers'
  <2>1. Apart(j) /\ Over(j, stage)
    BY <1>3 DEF Apart, Over
  <2> QED
    BY <1>2, <2>1, OneHandler DEF RemoteLeave
<1>6. ASSUME NEW x
      PROVE  /\ Evicted(x)' => Evicted(x)
             /\ x # k.target => (Evicted(x) => Evicted(x)')
             /\ Halfway(x)' <=> Halfway(x)
             /\ Parting(x)' <=> Parting(x)
  <2>1. /\ ~Evicts(j, x) /\ (x # k.target => ~Evicts(k, x))
        /\ ~Leaves(j, x) /\ ~Leaves(k, x) /\ ~Parts(j, x) /\ ~Parts(k, x)
    BY <1>1, <1>3 DEF Evicts, Leaves, Parts
  <2> QED
    BY <1>2, <2>1, OneCall
<1> QED
  BY <1>1, <1>4, <1>5, <1>6

\* onJoinRoom puts a socket in that is still connected.
LEMMA EnterEffect ==
    ASSUME Typed, Handlers, NEW c \in Calls, JoinEnter(c)
    PROVE  /\ call[c].sock \in Sockets /\ call[c].room = Room
           /\ call[c].node = NodeOf[call[c].sock] /\ call[c].node \in Nodes
           /\ call[c].seen \subseteq Sockets
           /\ Members' = IF stage[call[c].sock] \in Live THEN Members \cup {call[c].sock}
                                                         ELSE Members
           /\ Handlers' /\ Steady
<1> DEFINE k == call[c]
<1>0. Shape(k) /\ k \in CallRecord
  BY DEF Typed, Shape
<1>1. /\ k.sock \in Sockets /\ k.room = Room /\ k.op = "join" /\ k.node = NodeOf[k.sock]
      /\ k.node \in Nodes /\ k.seen \subseteq Sockets
  BY <1>0, TheRoom, LayoutAssumption DEF JoinEnter, Shape, CallRecord
<1>2. PICK j : call' = [call EXCEPT ![c] = j] /\ j = [k EXCEPT !.pc = "write"]
  BY DEF JoinEnter
<1>3. j.op = "join"
  BY <1>0, <1>1, <1>2 DEF CallRecord
<1>4. Plain(j) /\ Plain(k)
  BY <1>1, <1>3 DEF Plain, Evicting
<1>5. Members' = IF stage[k.sock] \in Live THEN Members \cup {k.sock} ELSE Members
  BY <1>1, TheRoom DEF JoinEnter, Members, Typed
<1> QED
  BY <1>1, <1>2, <1>3, <1>4, <1>5, PlainStep DEF JoinEnter

\* onKickUser takes a target on its own node out, and is to evict any other.
LEMMA KickEffect ==
    ASSUME Typed, Handlers, NEW c \in Calls, KickEvict(c)
    PROVE  \E x \in Sockets :
           /\ x = call[c].target /\ call[c].room = Room /\ call[c].node \in Nodes /\ Handlers'
           /\ \A y : /\ Halfway(y)' <=> Halfway(y)
                     /\ Parting(y)' <=> Parting(y)
                     /\ y # x => (Evicted(y)' <=> Evicted(y))
                     /\ Evicted(y) => Evicted(y)'
           /\ \/ NodeOf[x] = call[c].node /\ Members' = Members \ {x}
              \/ NodeOf[x] # call[c].node /\ Members' = Members /\ Evicted(x)'
<1> DEFINE k == call[c]
<1>0. Shape(k) /\ k \in CallRecord
  BY DEF Typed, Shape
<1>x. PICK x \in Sockets : x = k.target
  BY <1>0 DEF KickEvict, CallRecord
<1>1. /\ k.room = Room /\ k.op = "kick" /\ k.pc = "find"
      /\ k.node \in Nodes /\ k.seen \subseteq Sockets
  BY <1>0, TheRoom, LayoutAssumption DEF KickEvict, Fetched, Shape, CallRecord
<1>p. Plain(k)
  BY <1>1 DEF Plain, Evicting
<1>2. CASE NodeOf[x] = k.node
  <2>1. PICK i : i = [k EXCEPT !.target = None]
    OBVIOUS
  <2>2. i \in CallRecord /\ i.op = "kick" /\ i.target = None
    BY <1>0, <1>1, <2>1 DEF CallRecord
  <2>3. PICK j : call' = [call EXCEPT ![c] = j] /\ j = Fetching(i, "fetch", joined'[k.room])
    BY <1>2, <1>x, <2>1 DEF KickEvict
  <2>4. j.op = "kick" /\ j.target = None
    BY <2>2, <2>3, FetchingIs
  <2>5. Plain(j)
    BY <2>4 DEF Plain, Evicting
  <2>6. Steady /\ Handlers'
    BY <1>p, <2>3, <2>4, <2>5, PlainStep DEF KickEvict
  <2>7. Members' = Members \ {x}
    BY <1>1, <1>2, <1>x, TheRoom DEF KickEvict, Members, Typed
  <2>8. \A y : /\ Halfway(y)' <=> Halfway(y)
               /\ Parting(y)' <=> Parting(y)
               /\ y # x => (Evicted(y)' <=> Evicted(y))
               /\ Evicted(y) => Evicted(y)'
    BY <2>6 DEF Steady
  <2> QED
    BY <1>1, <1>2, <1>x, <2>6, <2>7, <2>8
<1>3. CASE NodeOf[x] # k.node
  <2>1. PICK j : call' = [call EXCEPT ![c] = j] /\ j = Fetching(k, "fetch", joined[k.room])
    BY <1>3, <1>x DEF KickEvict
  <2>2. /\ j.op = "kick" /\ j.target = x /\ j.pc = "fetch" /\ j.node = k.node
        /\ j.pending = Nodes \ {k.node}
    BY <1>0, <1>1, <1>x, <2>1, FetchingIs
  <2>3. Apart(j) /\ Over(j, stage)
    BY <1>1, <1>3, <2>2, LayoutAssumption DEF Apart, Over, Ordered
  <2>4. Handlers'
    BY <2>1, <2>3, OneHandler DEF KickEvict
  <2>5. ASSUME NEW y
        PROVE  /\ Halfway(y)' <=> Halfway(y)
               /\ Parting(y)' <=> Parting(y)
               /\ y # x => (Evicted(y)' <=> Evicted(y))
               /\ Evicted(y) => Evicted(y)'
               /\ y = x => Evicted(y)'
    <3>1. /\ ~Leaves(j, y) /\ ~Leaves(k, y) /\ ~Parts(j, y) /\ ~Parts(k, y)
          /\ ~Evicts(k, y) /\ (y # x => ~Evicts(j, y))
      BY <1>1, <1>x, <2>2 DEF Leaves, Parts, Evicts, Evicting
    <3>2. y = x => Evicts(j, y)
      BY <1>1, <1>x, <2>2, NoneAssumption DEF Evicts, Evicting
    <3> QED
      BY <2>1, <3>1, <3>2, OneCall
  <2>6. Members' = Members
    BY <1>3, <1>x DEF KickEvict, Members
  <2>7. Evicted(x)'
    BY <2>5
  <2>8. \A y : /\ Halfway(y)' <=> Halfway(y)
               /\ Parting(y)' <=> Parting(y)
               /\ y # x => (Evicted(y)' <=> Evicted(y))
               /\ Evicted(y) => Evicted(y)'
    BY <2>5
  <2> QED
    BY <1>1, <1>3, <1>x, <2>4, <2>6, <2>7, <2>8
<1> QED
  BY <1>2, <1>3

\* The answer of another node to a fetch changes no role.
LEMMA ReplyEffect ==
    ASSUME Typed, Handlers, NEW c \in Calls, NEW n \in Nodes, FetchReply(c, n)
    PROVE  /\ Steady /\ Handlers' /\ Members' = Members
           /\ call[c].node \in Nodes
<1> DEFINE k == call[c]
<1>0. Shape(k) /\ k \in CallRecord
  BY DEF Typed, Shape
<1>1. PICK j : /\ call' = [call EXCEPT ![c] = j]
               /\ j = [k EXCEPT !.seen = @ \cup LocalMembers(k.room, n), !.pending = @ \ {n}]
  BY DEF FetchReply
<1>2. /\ j.op = k.op /\ j.pc = k.pc /\ j.sock = k.sock /\ j.target = k.target
      /\ j.node = k.node /\ j.pending = k.pending \ {n}
  BY <1>0, <1>1 DEF CallRecord
<1>3. SameRole(j, k)
  BY <1>2 DEF SameRole, Evicts, Leaves, Parts, Evicting
<1>4. Apart(j) /\ Over(j, stage)
  BY <1>2 DEF FetchReply, Handlers, Apart, Over, Ordered, Evicting
<1>5. Members' = Members
  BY DEF FetchReply, Members
<1>6. k.node \in Nodes
  BY <1>0, LayoutAssumption DEF FetchReply, Shape
<1> QED
  BY <1>1, <1>3, <1>4, <1>5, <1>6, RoleStep, OneHandler DEF FetchReply

\* A handler that has counted evicts nobody any more.
LEMMA CountedPlain ==
    ASSUME Typed, Handlers, NEW c \in Calls, Counted(call[c])
    PROVE  /\ ~Evicting(call[c])
           /\ call[c].sock \in Sockets /\ call[c].room = Room
           /\ call[c].node = NodeOf[call[c].sock] /\ call[c].node \in Nodes
<1>1. Shape(call[c]) /\ Apart(call[c])
  BY DEF Typed, Handlers
<1> QED
  BY <1>1, TheRoom, LayoutAssumption DEF Counted, Fetched, Evicting, Apart, Ordered, Shape

\* A count written, or failing because the row is gone, ends its handler.
LEMMA CountEffect ==
    ASSUME Typed, Handlers, NEW c \in Calls,
           WriteCount(c) \/ (WriteMissing(c) /\ call[c].op # "disc")
    PROVE  /\ Members' = Members /\ stage' = stage /\ Handlers'
           /\ \A s : /\ Evicted(s)' <=> Evicted(s)
                     /\ Halfway(s)' => Halfway(s)
                     /\ Parting(s)' => Parting(s)
                     /\ s # call[c].sock => (Parting(s) => Parting(s)')
           /\ call[c].op \notin {"leave", "disc"} => Steady
<1>1. /\ Counted(call[c]) /\ call' = [call EXCEPT ![c] = Idle]
      /\ stage' = stage /\ joined' = joined
  BY DEF WriteCount, WriteMissing
<1>2. ~Evicting(call[c])
  BY <1>1, CountedPlain
<1>3. Members' = Members
  BY <1>1 DEF Members
<1> QED
  BY <1>1, <1>2, <1>3, OneEnds

\* So does a fetch that fails, but for what a kick has sent already.
LEMMA TimeoutEffect ==
    ASSUME Typed, Handlers, NEW c \in Calls, FetchTimeout(c), call[c].op # "disc"
    PROVE  /\ Members' = Members /\ stage' = stage /\ Handlers'
           /\ \A s : /\ Evicted(s)' <=> Evicted(s)
                     /\ Halfway(s)' => Halfway(s)
                     /\ s # call[c].sock => (Parting(s) => Parting(s)')
           /\ call[c].op \notin {"leave", "disc"} => Steady
<1> DEFINE k == call[c]
<1>0. Shape(k) /\ k \in CallRecord /\ stage' = stage /\ Members' = Members
  BY DEF Typed, Shape, FetchTimeout, Members
<1>1. CASE Evicting(k)
  <2>1. PICK j : call' = [call EXCEPT ![c] = j] /\ j = [k EXCEPT !.pc = "evict", !.seen = {}, !.pending = {}]
    BY <1>1 DEF FetchTimeout
  <2>2. j.op = "kick" /\ k.op = "kick" /\ j.pc = "evict" /\ j.target = k.target /\ j.node = k.node
    BY <1>0, <1>1, <2>1 DEF CallRecord, Evicting
  <2>3. SameRole(j, k)
    BY <1>1, <2>2 DEF SameRole, Evicts, Leaves, Parts, Evicting
  <2>4. Apart(j) /\ Over(j, stage)
    BY <1>1, <2>2 DEF Handlers, Apart, Over, Ordered
  <2>5. Steady /\ Handlers'
    BY <1>0, <2>1, <2>3, <2>4, RoleStep, OneHandler
  <2> QED
    BY <1>0, <2>5 DEF Steady
<1>2. CASE ~Evicting(k)
  <2>1. call' = [call EXCEPT ![c] = Idle]
    BY <1>2 DEF FetchTimeout
  <2> QED
    BY <1>0, <1>2, <2>1, OneEnds
<1> QED
  BY <1>1, <1>2

\* A socket disconnects: onDisconnecting counts for it, if it is attached.
LEMMA DisconnectEffect ==
    ASSUME Typed, NobodysRoom, Handlers, NEW s \in Sockets, Disconnect(s)
    PROVE  /\ Members' = Members \ {s} /\ Handlers'
           /\ \A x : /\ Evicted(x)' <=> Evicted(x)
                     /\ Halfway(x)' <=> Halfway(x)
                     /\ Parting(x) => Parting(x)'
           /\ s \in Members /\ stage[s] = "hooked" => Parting(s)'
<1>1. PICK slot \in [Calls -> RoomsToSettle(s) \cup {None}] :
        /\ \A c \in Calls : slot[c] # None => call[c] = Idle
        /\ \A r \in RoomsToSettle(s) : \E c \in Calls : slot[c] = r
        /\ call' = [c \in Calls |->
                      IF slot[c] = None THEN call[c]
                      ELSE Fetching(Request("disc", s, slot[c], None),
                                    "fetch", joined[slot[c]])]
  BY DEF Disconnect
<1>2. /\ stage' = [stage EXCEPT ![s] = "gone"] /\ Members' = Members \ {s}
      /\ stage'[s] = "gone" /\ \A x \in Sockets : stage[x] = "gone" => stage'[x] = "gone"
  BY TheRoom DEF Disconnect, Members, Typed
<1>3. ASSUME NEW c \in Calls, slot[c] # None
      PROVE  call[c] = Idle /\ call'[c].op = "disc" /\ call'[c].pc = "fetch" /\ call'[c].sock = s
  <2>1. slot[c] \in Rooms
    BY <1>1, <1>3 DEF RoomsToSettle
  <2>2. PICK q : q = Request("disc", s, slot[c], None)
    OBVIOUS
  <2>3. q \in CallRecord /\ q.op = "disc" /\ q.sock = s
    BY <2>1, <2>2, LayoutAssumption DEF Request, CallRecord
  <2>4. call'[c] = Fetching(q, "fetch", joined[slot[c]])
    BY <1>1, <1>3, <2>2
  <2> QED
    BY <1>1, <1>3, <2>3, <2>4, FetchingIs
<1>4. \A c \in Calls : slot[c] = None => call'[c] = call[c]
  BY <1>1
<1>5. \A x : ~Evicts(Idle, x) /\ ~Leaves(Idle, x) /\ ~Parts(Idle, x)
  BY DEF Idle, Evicts, Leaves, Parts, Evicting
<1>6. ASSUME NEW x, NEW c \in Calls
      PROVE  /\ Evicts(call'[c], x) <=> Evicts(call[c], x)
             /\ Leaves(call'[c], x) <=> Leaves(call[c], x)
             /\ Parts(call[c], x) => Parts(call'[c], x)
  <2>1. CASE slot[c] = None
    BY <1>4, <2>1
  <2>2. CASE slot[c] # None
    BY <1>3, <1>5, <2>2 DEF Evicts, Leaves, Parts, Evicting
  <2> QED
    BY <2>1, <2>2
<1>7. \A x : /\ Evicted(x)' <=> \E c \in Calls : Evicts(call'[c], x)
             /\ Halfway(x)' <=> \E c \in Calls : Leaves(call'[c], x)
             /\ Parting(x)' <=> \E c \in Calls : Parts(call'[c], x)
  BY DEF Evicted, Halfway, Parting, Evicts, Leaves, Parts, Evicting
<1>8. \A x : /\ Evicted(x)' <=> Evicted(x)
             /\ Halfway(x)' <=> Halfway(x)
             /\ Parting(x) => Parting(x)'
  BY <1>6, <1>7 DEF Evicted, Halfway, Parting
<1>9. ASSUME s \in Members, stage[s] = "hooked" PROVE Parting(s)'
  <2>1. UidRoom[Owner[s]] # Room
    BY TheRoom, LayoutAssumption DEF NobodysRoom
  <2>2. Room \in RoomsToSettle(s)
    BY <1>9, <2>1, TheRoom DEF RoomsToSettle, Members
  <2>3. PICK c \in Calls : slot[c] = Room
    BY <1>1, <2>2
  <2>4. slot[c] # None
    BY <2>3, TheRoom, NoneAssumption
  <2>5. Parts(call'[c], s)
    BY <1>3, <2>4 DEF Parts
  <2> QED
    BY <1>7, <2>5
<1>10. Handlers'
  <2>1. ASSUME NEW c \in Calls PROVE Apart(call'[c]) /\ Over(call'[c], stage')
    <3>1. CASE slot[c] = None
      <4>1. call'[c] = call[c] /\ Apart(call[c]) /\ Over(call[c], stage)
        BY <1>4, <3>1 DEF Handlers
      <4>2. call[c].op = "disc" => call[c].sock \in Sockets
        BY DEF Typed, Shape
      <4> QED
        BY <1>2, <4>1, <4>2 DEF Over
    <3>2. CASE slot[c] # None
      BY <1>2, <1>3, <3>2 DEF Apart, Over, Evicting
    <3> QED
      BY <3>1, <3>2
  <2> QED
    BY <2>1 DEF Handlers, Apart, Over, Evicting, Ordered
<1> QED
  BY <1>2, <1>8, <1>9, <1>10

\* A process ends, with its sockets and handlers; what its kicks have sent is
\* on its way.
LEMMA DieEffect ==
    ASSUME Typed, Handlers, NEW n \in Nodes, Die(n, InTransit(n))
    PROVE  /\ Members' = Members \ On(n) /\ Handlers'
           /\ \A x : /\ Evicted(x)' => Evicted(x)
                     /\ Halfway(x)' => Halfway(x)
                     /\ NodeOf[x] # n => (Evicted(x) => Evicted(x)')
                     /\ NodeOf[x] # n => (Parting(x) => Parting(x)')
<1>1. /\ Members' = Members \ On(n)
      /\ \A c \in Calls : call'[c] = AfterCrash(call[c], n, c \in InTransit(n))
      /\ \A x \in Sockets : stage[x] = "gone" => stage'[x] = "gone"
  BY TheRoom DEF Die, Members, Live
<1>2. ASSUME NEW c \in Calls
      PROVE  LET k == call[c] j == call'[c] IN
             \/ j = Idle /\ k.node = n /\ ~(Evicting(k) /\ NodeOf[k.target] # n)
             \/ j = Idle /\ Evicting(k) /\ NodeOf[k.target] = n
             \/ /\ j.op = "kick" /\ j.target = k.target /\ j.pc = "evict" /\ j.node = k.node
                /\ Evicting(k)
             \/ /\ j.target = None /\ j.op = "kick"
                /\ Evicting(k) /\ NodeOf[k.target] = n
             \/ /\ j.op = k.op /\ j.pc = k.pc /\ j.sock = k.sock /\ j.target = k.target
                /\ j.node = k.node /\ k.pending \ {n} \subseteq j.pending
                /\ k.node # n /\ ~(Evicting(k) /\ NodeOf[k.target] = n)
  <2> DEFINE k == call[c]
  <2>0. k \in CallRecord
    BY DEF Typed
  <2>1. c \in InTransit(n) <=> k.node = n /\ Evicting(k) /\ NodeOf[k.target] # n
    BY DEF InTransit
  <2>2. CASE k.node = n /\ c \in InTransit(n)
    <3>1. call'[c] = [k EXCEPT !.pc = "evict", !.seen = {}, !.pending = {}]
      BY <1>1, <2>2 DEF AfterCrash
    <3> QED
      BY <2>0, <2>1, <2>2, <3>1 DEF CallRecord, Evicting
  <2>3. CASE k.node = n /\ c \notin InTransit(n)
    BY <1>1, <2>1, <2>3 DEF AfterCrash
  <2>4. CASE k.node # n /\ Evicting(k) /\ NodeOf[k.target] = n
    <3>1. \/ call'[c] = Idle
          \/ call'[c] = [k EXCEPT !.target = None, !.pending = (@ \ {n}) \cup {None}]
      BY <1>1, <2>4 DEF AfterCrash
    <3> QED
      BY <2>0, <2>4, <3>1 DEF CallRecord, Evicting
  <2>5. CASE k.node # n /\ ~(Evicting(k) /\ NodeOf[k.target] = n)
    <3>1. \/ call'[c] = k
          \/ call'[c] = [k EXCEPT !.pending = (@ \ {n}) \cup {None}]
      BY <1>1, <2>5 DEF AfterCrash
    <3> QED
      BY <2>0, <2>5, <3>1 DEF CallRecord
  <2> QED
    BY <2>2, <2>3, <2>4, <2>5
<1>3. ASSUME NEW c \in Calls, NEW x
      PROVE  /\ Evicts(call'[c], x) => Evicts(call[c], x)
             /\ Leaves(call'[c], x) => Leaves(call[c], x)
             /\ NodeOf[x] # n => (Evicts(call[c], x) => Evicts(call'[c], x))
             /\ NodeOf[x] # n => (Parts(call[c], x) => Parts(call'[c], x))
  <2>0. Parts(call[c], x) => call[c].node = NodeOf[x]
    BY DEF Parts, Typed, Shape
  <2>1. /\ Evicts(call'[c], x) => Evicts(call[c], x)
        /\ Leaves(call'[c], x) => Leaves(call[c], x)
    BY <1>2 DEF Evicts, Leaves, Evicting, Idle
  <2>2. NodeOf[x] # n => (Evicts(call[c], x) => Evicts(call'[c], x))
    BY <1>2 DEF Evicts, Evicting, Idle
  <2>3. NodeOf[x] # n => (Parts(call[c], x) => Parts(call'[c], x))
    BY <1>2, <2>0 DEF Parts, Evicting
  <2> QED
    BY <2>1, <2>2, <2>3
<1>4. \A x : /\ Evicted(x)' <=> \E c \in Calls : Evicts(call'[c], x)
             /\ Halfway(x)' <=> \E c \in Calls : Leaves(call'[c], x)
             /\ Parting(x)' <=> \E c \in Calls : Parts(call'[c], x)
  BY DEF Evicted, Halfway, Parting, Evicts, Leaves, Parts, Evicting
<1>5. \A x : /\ Evicted(x)' => Evicted(x)
             /\ Halfway(x)' => Halfway(x)
             /\ NodeOf[x] # n => (Evicted(x) => Evicted(x)')
             /\ NodeOf[x] # n => (Parting(x) => Parting(x)')
  BY <1>3, <1>4 DEF Evicted, Halfway, Parting
<1>6. ASSUME NEW c \in Calls PROVE Apart(call'[c]) /\ Over(call'[c], stage')
  <2>1. Apart(call[c]) /\ Over(call[c], stage)
    BY DEF Handlers
  <2>2. call[c].op = "disc" => call[c].sock \in Sockets
    BY DEF Typed, Shape
  <2>3. Apart(call'[c])
    BY <1>2, <2>1 DEF Apart, Ordered, Evicting, Idle
  <2>4. Over(call'[c], stage')
    BY <1>1, <1>2, <2>1, <2>2 DEF Over, Idle
  <2> QED
    BY <2>3, <2>4
<1>7. Handlers'
  BY <1>6 DEF Handlers, Apart, Over, Evicting, Ordered
<1> QED
  BY <1>1, <1>5, <1>7

------------------------------------------------------------------------------
\* Steps in which nobody enters and no word is added.

\* Node n is told the same words, in the same order.
SameWords(n) ==
    \A s : /\ \A w \in Words(s) : w \in Mail(n)' <=> w \in Mail(n)
           /\ After(inbox[n], {New(s)}, Clears(s)) => After(inbox[n], {New(s)}, Clears(s))'
           /\ After(inbox[n], Clears(s), {New(s)}) => After(inbox[n], Clears(s), {New(s)})'

Fewer == Members' \subseteq Members /\ hidden' = hidden /\ untold \subseteq untold'
SameMail == \A n \in Nodes : \/ SameWords(n)
                             \/ inbox'[n] = <<>> /\ \A t \in Members' : NodeOf[t] # n
SameViews == \A t \in Members' : shown'[t] = shown[t] /\ amiss'[t] = amiss[t]
SameEvictions ==
    \A s \in Sockets :
        /\ Evicted(s)' => Evicted(s)
        /\ Evicted(s) /\ (s \in Members' \/ Kicked(s) \in Mail(NodeOf[s])') => Evicted(s)'
SamePartings ==
    \A s \in Sockets :
        /\ Halfway(s)' /\ s \in Members' => Halfway(s)
        /\ s \notin untold' /\ s \in Members \ Members' => Evicted(s) \/ Parting(s)'
        /\ s \notin untold' /\ Parting(s) => Parting(s)'

\* Such a step keeps what is invariant of the events.
LEMMA ShrinkKeeps ==
    ASSUME Typed, Events, Fewer, SameMail, SameViews, SameEvictions, SamePartings
    PROVE  Events'
<1>0. /\ Members \subseteq Sockets /\ Members' \subseteq Members
      /\ \A s \in Sockets : NodeOf[s] \in Nodes
      /\ \A s : New(s)' = New(s) /\ Left(s)' = Left(s) /\ Kicked(s)' = Kicked(s)
                /\ Clears(s)' = Clears(s)
  BY TheRoom, LayoutAssumption DEF Typed, Members, Fewer, New, Left, Kicked, Clears, Room
<1>1. ASSUME NEW n \in Nodes, NEW s
      PROVE  \/ /\ \A w \in Words(s) : w \in Mail(n)' <=> w \in Mail(n)
                /\ After(inbox[n], {New(s)}, Clears(s)) => After(inbox[n], {New(s)}, Clears(s))'
                /\ After(inbox[n], Clears(s), {New(s)}) => After(inbox[n], Clears(s), {New(s)})'
             \/ /\ \A t \in Members' : NodeOf[t] # n
                /\ \A w \in Words(s) : w \notin Mail(n)'
                /\ After(inbox[n], {New(s)}, Clears(s))'
                /\ After(inbox[n], Clears(s), {New(s)})'
  <2>1. CASE SameWords(n)
    BY <2>1 DEF SameWords
  <2>2. CASE inbox'[n] = <<>> /\ \A t \in Members' : NodeOf[t] # n
    BY <2>2, NoMore DEF Mail, After, New, Clears
  <2> QED
    BY <2>1, <2>2 DEF SameMail
<1>w. \A s : New(s) \in Words(s) /\ Left(s) \in Words(s) /\ Kicked(s) \in Words(s)
             /\ Clears(s) \subseteq Words(s)
  BY DEF Words, Clears
<1>2. Posted'
  <2>1. ASSUME NEW s \in Sockets
        PROVE  /\ New(s) \notin Mail(NodeOf[s])' /\ Left(s) \notin Mail(NodeOf[s])'
               /\ Kicked(s) \in Mail(NodeOf[s])' => Evicted(s)'
    <3>1. /\ New(s) \notin Mail(NodeOf[s]) /\ Left(s) \notin Mail(NodeOf[s])
          /\ Kicked(s) \in Mail(NodeOf[s]) => Evicted(s)
      BY DEF Events, Posted
    <3>2. \A w \in Words(s) : w \in Mail(NodeOf[s])' => w \in Mail(NodeOf[s])
      BY <1>0, <1>1
    <3>3. Evicted(s) /\ Kicked(s) \in Mail(NodeOf[s])' => Evicted(s)'
      BY DEF SameEvictions
    <3> QED
      BY <1>w, <3>1, <3>2, <3>3
  <2> QED
    BY <1>0, <2>1 DEF Posted
<1>3. HalfHidden'
  BY <1>0 DEF Events, HalfHidden, SamePartings, Fewer
<1>e. ASSUME NEW s \in Members', ~Evicted(s)' PROVE s \in Sockets /\ ~Evicted(s)
  BY <1>0, <1>e DEF SameEvictions
<1>4. Confirmed'
  <2>1. ASSUME NEW s \in Members', s \notin hidden', ~Evicted(s)', NEW n \in Nodes
        PROVE  After(inbox[n], Clears(s), {New(s)})'
    <3>1. s \in Members \ hidden /\ ~Evicted(s)
      BY <1>0, <1>e, <2>1 DEF Fewer
    <3>2. After(inbox[n], Clears(s), {New(s)})
      BY <3>1 DEF Events, Confirmed
    <3> QED
      BY <1>1, <3>2
  <2> QED
    BY <2>1 DEF Confirmed
<1>5. Seen'
  <2>1. ASSUME NEW s \in Members', NEW t \in Members', s \notin hidden', t \notin hidden',
               s # t, ~Evicted(s)', ~Evicted(t)'
        PROVE  s \in amiss'[t] \/ s \in shown'[t] \/ New(s) \in Mail(NodeOf[t])'
    <3>1. s \in Members \ hidden /\ t \in Members \ hidden /\ ~Evicted(s) /\ ~Evicted(t)
          /\ t \in Sockets
      BY <1>0, <1>e, <2>1 DEF Fewer
    <3>2. s \in amiss[t] \/ s \in shown[t] \/ New(s) \in Mail(NodeOf[t])
      BY <2>1, <3>1 DEF Events, Seen
    <3>3. New(s) \in Mail(NodeOf[t])' <=> New(s) \in Mail(NodeOf[t])
      BY <1>0, <1>1, <1>w, <3>1
    <3>4. shown'[t] = shown[t] /\ amiss'[t] = amiss[t]
      BY DEF SameViews
    <3> QED
      BY <3>2, <3>3, <3>4
  <2> QED
    BY <1>0, <2>1 DEF Seen
<1>6. OneSided'
  <2>1. ASSUME NEW s \in Members', NEW t \in Members'
        PROVE  s = t \/ s \notin amiss'[t] \/ t \notin amiss'[s]
    <3>1. s \in Members /\ t \in Members /\ amiss'[s] = amiss[s] /\ amiss'[t] = amiss[t]
      BY <1>0 DEF SameViews
    <3> QED
      BY <3>1 DEF Events, OneSided
  <2> QED
    BY <2>1 DEF OneSided
<1>7. Ghosts'
  <2>1. ASSUME NEW s \in Sockets, s \notin untold', Gone(s)', ~Parting(s)'
        PROVE  /\ \A n \in Nodes : After(inbox[n], {New(s)}, Clears(s))'
               /\ \A t \in Members' \ {s} : s \in shown'[t] /\ s \notin amiss'[t] =>
                     \E p \in Clears(s) : p \in Mail(NodeOf[t])'
    <3>1. s \notin untold /\ ~Parting(s)
      BY <2>1 DEF Fewer, SamePartings
    <3>2. Gone(s)
      <4>1. s \in Members => s \in Members' \/ Evicted(s)
        BY <2>1 DEF SamePartings
      <4>2. s \notin Members' \/ Evicted(s)'
        BY <2>1 DEF Gone
      <4>3. Evicted(s)' => Evicted(s)
        BY DEF SameEvictions
      <4> QED
        BY <4>1, <4>2, <4>3 DEF Gone
    <3>3. /\ \A n \in Nodes : After(inbox[n], {New(s)}, Clears(s))
          /\ \A t \in Members \ {s} : s \in shown[t] /\ s \notin amiss[t] =>
                \E p \in Clears(s) : p \in Mail(NodeOf[t])
      BY <3>1, <3>2 DEF Events, Ghosts
    <3>4. \A n \in Nodes : After(inbox[n], {New(s)}, Clears(s))'
      BY <1>1, <3>3
    <3>5. ASSUME NEW t \in Members' \ {s}, s \in shown'[t], s \notin amiss'[t]
          PROVE  \E p \in Clears(s) : p \in Mail(NodeOf[t])'
      <4>1. t \in Members \ {s} /\ t \in Sockets /\ s \in shown[t] /\ s \notin amiss[t]
        BY <1>0, <3>5 DEF SameViews
      <4>2. PICK p \in Clears(s) : p \in Mail(NodeOf[t])
        BY <3>3, <4>1
      <4>3. p \in Mail(NodeOf[t])'
        BY <1>0, <1>1, <1>w, <3>5, <4>1, <4>2
      <4> QED
        BY <4>3
    <3> QED
      BY <3>4, <3>5
  <2> QED
    BY <1>0, <2>1 DEF Ghosts
<1> QED
  BY <1>2, <1>3, <1>4, <1>5, <1>6, <1>7 DEF Events

------------------------------------------------------------------------------
\* What becomes of the queues.

\* An untouched queue.
LEMMA SameMailIs ==
    ASSUME NEW n, inbox'[n] = inbox[n]
    PROVE  SameWords(n)
  BY DEF SameWords, Mail, After, New, Left, Kicked, Clears, Words, Room

\* A queue that holds the same words in the same order.
LEMMA SameWordsIn ==
    ASSUME NEW n, NEW q, NEW z, q = inbox[n], z = inbox'[n],
           \A s : /\ \A w \in Words(s) : w \in Range(z) <=> w \in Range(q)
                  /\ After(q, {New(s)}, Clears(s)) => After(z, {New(s)}, Clears(s))
                  /\ After(q, Clears(s), {New(s)}) => After(z, Clears(s), {New(s)})
    PROVE  SameWords(n)
<1>1. Mail(n)' = Range(z) /\ Mail(n) = Range(q)
  BY DEF Mail, Range
<1>2. ASSUME NEW s
      PROVE  /\ After(inbox[n], {New(s)}, Clears(s))' <=> After(z, {New(s)}, Clears(s))
             /\ After(inbox[n], Clears(s), {New(s)})' <=> After(z, Clears(s), {New(s)})
  BY DEF After, New, Left, Kicked, Clears, Room
<1> QED
  BY <1>1, <1>2 DEF SameWords

\* A word is published.
LEMMA PublishIs ==
    ASSUME ETyped, NEW n, NEW p \in Posts, Publish(n, p)
    PROVE  /\ inbox' \in [Nodes -> Seq(Posts)]
           /\ \A m \in Nodes : IF m = n THEN inbox'[m] = inbox[m] /\ Mail(m)' = Mail(m)
                               ELSE /\ inbox'[m] = Append(inbox[m], p)
                                    /\ Mail(m)' = Mail(m) \cup {p}
<1>1. \A m \in Nodes : inbox'[m] = IF m = n THEN inbox[m] ELSE Append(inbox[m], p)
  BY DEF Publish
<1>2. ASSUME NEW m \in Nodes
      PROVE  Append(inbox[m], p) \in Seq(Posts) /\ Range(Append(inbox[m], p)) = Range(inbox[m]) \cup {p}
  <2>1. inbox[m] \in Seq(Posts)
    BY DEF ETyped
  <2> QED
    BY <2>1, OneMore
<1>3. inbox' \in [Nodes -> Seq(Posts)]
  BY <1>2 DEF Publish, ETyped
<1>4. \A m \in Nodes : Mail(m)' = Range(inbox'[m])
  BY DEF Mail, Range
<1> QED
  BY <1>1, <1>2, <1>3, <1>4 DEF Mail

\* An answer is put behind the words.
LEMMA AnswerMail ==
    ASSUME ETyped, NEW c \in Calls, SendAnswer(c)
    PROVE  SameMail /\ inbox' \in [Nodes -> Seq(Posts)]
<1> DEFINE a == Answer(c)
<1>1. PICK m : m = call[c].node
  OBVIOUS
<1>2. inbox' = [inbox EXCEPT ![m] = Append(@, a)]
  BY <1>1 DEF SendAnswer
<1>3. a \in Answers
  BY DEF Answers
<1>4. a \in Posts /\ \A s : a \notin Words(s)
  BY <1>3, WordForms
<1> HIDE DEF a
<1>5. ASSUME NEW n \in Nodes PROVE SameWords(n) /\ inbox'[n] \in Seq(Posts)
  <2>0. inbox[n] \in Seq(Posts)
    BY DEF ETyped
  <2>1. CASE n # m
    <3>1. inbox'[n] = inbox[n]
      BY <1>2, <2>1 DEF ETyped
    <3> QED
      BY <2>0, <3>1, SameMailIs
  <2>2. CASE n = m
    <3>1. inbox'[n] = Append(inbox[n], a)
      BY <1>2, <2>2 DEF ETyped
    <3>2. /\ Append(inbox[n], a) \in Seq(Posts)
          /\ Range(Append(inbox[n], a)) = Range(inbox[n]) \cup {a}
          /\ \A A, B : After(inbox[n], A, B) /\ a \notin A => After(Append(inbox[n], a), A, B)
      BY <1>4, <2>0, OneMore
    <3>3. Mail(n)' = Mail(n) \cup {a}
      BY <3>1, <3>2 DEF Mail, Range
    <3>4. ASSUME NEW s
          PROVE  /\ \A w \in Words(s) : w \in Mail(n)' <=> w \in Mail(n)
                 /\ After(inbox[n], {New(s)}, Clears(s)) => After(inbox'[n], {New(s)}, Clears(s))
                 /\ After(inbox[n], Clears(s), {New(s)}) => After(inbox'[n], Clears(s), {New(s)})
      <4>1. a \notin {New(s)} /\ a \notin Clears(s)
        BY <1>4 DEF Words, Clears
      <4> QED
        BY <1>4, <3>1, <3>2, <3>3, <4>1
    <3>5. SameWords(n)
      BY <3>4 DEF SameWords, After, New, Left, Kicked, Clears, Words, Room
    <3> QED
      BY <3>1, <3>2, <3>5
  <2> QED
    BY <2>1, <2>2
<1>6. inbox' \in [Nodes -> Seq(Posts)]
  BY <1>2, <1>5 DEF ETyped
<1> QED
  BY <1>5, <1>6 DEF SameMail

\* Nobody waits for an answer any more.
LEMMA DisownMail ==
    ASSUME ETyped, NEW c \in Calls, NEW m,
           inbox' = [inbox EXCEPT ![m] = Disowned(@, c)]
    PROVE  SameMail /\ inbox' \in [Nodes -> Seq(Posts)]
<1>1. /\ Answer(None) \in Posts /\ \A s : Answer(None) \notin Words(s) /\ Answer(c) \notin Words(s)
  <2>1. Answer(None) \in Answers /\ Answer(c) \in Answers
    BY DEF Answers
  <2> QED
    BY <2>1, WordForms
<1>2. ASSUME NEW n \in Nodes PROVE SameWords(n) /\ inbox'[n] \in Seq(Posts)
  <2>0. inbox[n] \in Seq(Posts)
    BY DEF ETyped
  <2>1. CASE n # m
    <3>1. inbox'[n] = inbox[n]
      BY <2>1 DEF ETyped
    <3> QED
      BY <2>0, <3>1, SameMailIs
  <2>2. CASE n = m
    <3>1. PICK q : q = inbox[n]
      OBVIOUS
    <3>2. PICK z : z = Disowned(q, c)
      OBVIOUS
    <3>3. inbox'[n] = z
      BY <2>2, <3>1, <3>2 DEF ETyped
    <3>4. /\ DOMAIN z = DOMAIN q
          /\ \A i \in DOMAIN q : z[i] = IF q[i] = Answer(c) THEN Answer(None) ELSE q[i]
      BY <3>2 DEF Disowned
    <3>5. z \in Seq(Posts)
      <4>1. q \in Seq(Posts) /\ Len(q) \in Nat /\ DOMAIN q = 1..Len(q)
        BY <2>0, <3>1, LenProperties
      <4>2. \A i \in 1..Len(q) : q[i] \in Posts
        BY <4>1, ElementOfSeq
      <4>3. \A i \in 1..Len(q) : (IF q[i] = Answer(c) THEN Answer(None) ELSE q[i]) \in Posts
        BY <1>1, <4>2
      <4>4. z \in [1..Len(q) -> Posts]
        BY <3>2, <4>1, <4>3 DEF Disowned
      <4> QED
        BY <4>1, <4>4, SeqDef
    <3>6. ASSUME NEW s
          PROVE  /\ \A w \in Words(s) : w \in Range(z) <=> w \in Range(q)
                 /\ \A i \in DOMAIN q : \A w \in Words(s) : z[i] = w <=> q[i] = w
      BY <1>1, <3>4 DEF Range
    <3>7. ASSUME NEW s
          PROVE  /\ After(q, {New(s)}, Clears(s)) => After(z, {New(s)}, Clears(s))
                 /\ After(q, Clears(s), {New(s)}) => After(z, Clears(s), {New(s)})
      <4>1. \A i \in DOMAIN q : /\ z[i] \in {New(s)} <=> q[i] \in {New(s)}
                                /\ z[i] \in Clears(s) <=> q[i] \in Clears(s)
        BY <3>6 DEF Words, Clears
      <4> QED
        BY <3>4, <4>1 DEF After
    <3>8. SameWords(n)
      BY <3>1, <3>3, <3>6, <3>7, SameWordsIn
    <3> QED
      BY <3>3, <3>5, <3>8
  <2> QED
    BY <2>1, <2>2
<1>3. inbox' \in [Nodes -> Seq(Posts)]
  BY <1>2 DEF ETyped
<1> QED
  BY <1>2, <1>3 DEF SameMail

\* A node has ended.
LEMMA EndedMail ==
    ASSUME ETyped, NEW n \in Nodes, inbox' = [inbox EXCEPT ![n] = <<>>],
           Members' = Members \ On(n), Members \subseteq Sockets
    PROVE  SameMail /\ inbox' \in [Nodes -> Seq(Posts)]
<1>1. inbox'[n] = <<>> /\ \A m \in Nodes \ {n} : inbox'[m] = inbox[m]
  BY DEF ETyped
<1>2. \A t \in Members' : NodeOf[t] # n
  BY DEF On
<1>3. \A m \in Nodes \ {n} : SameWords(m)
  BY <1>1, SameMailIs
<1>4. <<>> \in Seq(Posts)
  OBVIOUS
<1> QED
  BY <1>1, <1>2, <1>3, <1>4 DEF SameMail, ETyped

------------------------------------------------------------------------------
\* The steps in which nobody enters and no word is added.

\* The roles of handlers are as before.
LEMMA SteadyKeeps ==
    ASSUME Steady, Members' = Members PROVE SameEvictions /\ SamePartings
  BY DEF Steady, SameEvictions, SamePartings

\* A step that sends nothing.
LEMMA QuietKeeps ==
    ASSUME Typed, ETyped, Events, UNCHANGED <<shown, inbox, amiss, untold, hidden>>,
           asked' \in 0 .. MaxRequests, Members' \subseteq Members,
           SameEvictions, SamePartings
    PROVE  ETyped' /\ Events'
<1>1. Fewer /\ SameViews /\ SameMail
  BY SameMailIs DEF Fewer, SameViews, SameMail
<1>2. ETyped'
  BY DEF ETyped
<1> QED
  BY <1>1, <1>2, ShrinkKeeps

\* Silent steps.
LEMMA SilentKeeps ==
    ASSUME Typed, Handlers, ETyped, Events, NEW c \in Calls, Silent(c), UNCHANGED evars
    PROVE  Handlers' /\ ETyped' /\ Events'
<1>0. UNCHANGED <<shown, inbox, amiss, untold, hidden>> /\ asked' \in 0 .. MaxRequests
  BY DEF evars, ETyped
<1>1. CASE ~LeaveStart(c)
  <2>1. Steady /\ Handlers' /\ Members' = Members
    BY <1>1, SilentSteady DEF Members
  <2> QED
    BY <1>0, <2>1, SteadyKeeps, QuietKeeps
<1>2. CASE LeaveStart(c)
  <2>1. PICK s \in Sockets :
              /\ Members' = Members \ {s} /\ Parting(s)' /\ Handlers'
              /\ \A x : /\ Evicted(x)' <=> Evicted(x)
                        /\ x # s => (Halfway(x)' => Halfway(x))
                        /\ Parting(x) => Parting(x)'
    BY <1>2, LeaveEffect
  <2>2. Kicked(s)' = Kicked(s)
    BY DEF Kicked, Room
  <2>3. SameEvictions
    BY <2>1 DEF SameEvictions
  <2>4. SamePartings
    BY <2>1 DEF SamePartings
  <2> QED
    BY <1>0, <2>1, <2>3, <2>4, QuietKeeps
<1> QED
  BY <1>1, <1>2

\* Requests.
LEMMA AsksKeeps ==
    ASSUME Typed, Handlers, ETyped, Events, NEW c \in Calls, NEW r \in Rooms, Asks(c, r)
    PROVE  Handlers' /\ ETyped' /\ Events'
<1>1. /\ UNCHANGED <<shown, inbox, amiss, untold, hidden>>
      /\ asked < MaxRequests /\ asked' = asked + 1
  BY DEF Asks
<1>2. asked' \in 0 .. MaxRequests
  BY <1>1, RequestsAreCounted DEF ETyped
<1>3. Steady /\ Handlers' /\ Members' = Members
  BY AsksSteady DEF Members
<1> QED
  BY <1>1, <1>2, <1>3, SteadyKeeps, QuietKeeps

\* Connections.
LEMMA ConnectKeeps ==
    ASSUME Typed, NobodysRoom, Handlers, ETyped, Events, UNCHANGED evars, NEW s \in Sockets,
           Connect(s) \/ TuneUid(s) \/ Hook(s)
    PROVE  Handlers' /\ ETyped' /\ Events'
<1>1. UNCHANGED <<shown, inbox, amiss, untold, hidden>> /\ asked' \in 0 .. MaxRequests
  BY DEF evars, ETyped
<1>2. Steady /\ Handlers' /\ Members' = Members
  BY ConnectSteady
<1> QED
  BY <1>1, <1>2, SteadyKeeps, QuietKeeps

\* New rooms.
LEMMA CreateKeeps ==
    ASSUME Typed, Handlers, ETyped, Events, UNCHANGED evars, NEW r \in Rooms, CreateRoom(r)
    PROVE  Handlers' /\ ETyped' /\ Events'
<1>1. UNCHANGED <<shown, inbox, amiss, untold, hidden>> /\ asked' \in 0 .. MaxRequests
  BY DEF evars, ETyped
<1>2. Steady /\ Handlers' /\ Members' = Members
  BY DEF CreateRoom, Steady, Handlers, Members, Evicted, Halfway, Parting, Evicts, Leaves,
     Parts, Evicting, Apart, Over, Ordered
<1> QED
  BY <1>1, <1>2, SteadyKeeps, QuietKeeps

\* REMOTE_LEAVE comes after KICK_USER.
LEMMA RemoteKeeps ==
    ASSUME Typed, Handlers, ETyped, Events, NEW c \in Calls, RemoteLeave(c),
           KickHeard(call[c]), UNCHANGED evars
    PROVE  Handlers' /\ ETyped' /\ Events'
<1>1. UNCHANGED <<shown, inbox, amiss, untold, hidden>> /\ asked' \in 0 .. MaxRequests
  BY DEF evars, ETyped
<1>2. PICK x : x = call[c].target
  OBVIOUS
<1>3. /\ x \in Sockets /\ call[c].room = Room
      /\ Members' = Members \ {x} /\ Handlers'
      /\ \A y : /\ Evicted(y)' => Evicted(y)
                /\ y # x => (Evicted(y) => Evicted(y)')
                /\ Halfway(y)' <=> Halfway(y)
                /\ Parting(y)' <=> Parting(y)
  BY <1>2, RemoteEffect
<1>4. Kicked(x) \notin Mail(NodeOf[x])'
  BY <1>1, <1>2, <1>3 DEF KickHeard, Kicked, Mail, Room, Range
<1>5. Evicted(x)
  BY <1>2 DEF RemoteLeave, Evicted, Evicts
<1>6. SameEvictions
  BY <1>3, <1>4 DEF SameEvictions
<1>7. SamePartings
  BY <1>3, <1>5 DEF SamePartings
<1> QED
  BY <1>1, <1>3, <1>6, <1>7, QuietKeeps

\* The answer of another node.
LEMMA ReplyKeeps ==
    ASSUME Typed, Handlers, ETyped, Events, NEW c \in Calls, NEW n \in Nodes,
           FetchReply(c, n), SendAnswer(c)
    PROVE  Handlers' /\ ETyped' /\ Events'
<1>1. Steady /\ Handlers' /\ Members' = Members
  BY ReplyEffect
<1>2. SameMail /\ inbox' \in [Nodes -> Seq(Posts)]
  BY AnswerMail
<1>3. UNCHANGED <<asked, shown, amiss, untold, hidden>>
  BY DEF SendAnswer
<1>4. Fewer /\ SameViews /\ SameEvictions /\ SamePartings
  BY <1>1, <1>3, SteadyKeeps DEF Fewer, SameViews
<1>5. ETyped'
  BY <1>2, <1>3 DEF ETyped
<1> QED
  BY <1>1, <1>2, <1>4, <1>5, ShrinkKeeps

\* A count that fails.
LEMMA FailKeeps ==
    ASSUME Typed, NoZombies, Handlers, ETyped, Events, NEW c \in Calls,
           FetchTimeout(c) \/ WriteMissing(c), TellNobody(c)
    PROVE  Handlers' /\ ETyped' /\ Events'
<1> DEFINE k == call[c]
<1>0. Shape(k)
  BY DEF Typed
<1>1. CASE k.op # "disc"
  <2>1. /\ Members' = Members /\ Handlers'
        /\ \A s : /\ Evicted(s)' <=> Evicted(s)
                  /\ Halfway(s)' => Halfway(s)
                  /\ s # k.sock => (Parting(s) => Parting(s)')
        /\ k.op # "leave" => Steady
    BY <1>1, CountEffect, TimeoutEffect
  <2>2. /\ untold' = IF k.op = "leave" THEN untold \cup {k.sock} ELSE untold
        /\ inbox' = [inbox EXCEPT ![k.node] = Disowned(@, c)]
        /\ UNCHANGED <<asked, shown, amiss, hidden>>
    BY <1>1 DEF TellNobody
  <2>3. SameMail /\ inbox' \in [Nodes -> Seq(Posts)]
    <3>1. PICK m : m = k.node
      OBVIOUS
    <3> QED
      BY <2>2, <3>1, DisownMail
  <2>4. Fewer /\ SameViews
    BY <2>1, <2>2 DEF Fewer, SameViews
  <2>5. SameEvictions
    BY <2>1 DEF SameEvictions
  <2>6. SamePartings
    <3>1. CASE k.op = "leave"
      BY <2>1, <2>2, <3>1 DEF SamePartings
    <3>2. CASE k.op # "leave"
      BY <2>1, <3>2, SteadyKeeps
    <3> QED
      BY <3>1, <3>2
  <2>7. untold' \subseteq Sockets
    BY <1>0, <2>2 DEF ETyped, Shape
  <2>8. ETyped'
    BY <2>2, <2>3, <2>7 DEF ETyped
  <2> QED
    BY <2>1, <2>3, <2>4, <2>5, <2>6, <2>8, ShrinkKeeps
<1>2. CASE k.op = "disc"
  <2>1. PICK n \in Nodes : n = k.node
    BY <1>0, <1>2, LayoutAssumption DEF Shape
  <2>2. /\ Die(n, InTransit(n)) /\ NodeEnds(n) /\ UNCHANGED <<asked, hidden>>
    BY <1>2, <2>1 DEF TellNobody, FetchTimeout, WriteMissing
  <2>3. /\ Members' = Members \ On(n) /\ Handlers'
        /\ \A x : /\ Evicted(x)' => Evicted(x)
                  /\ Halfway(x)' => Halfway(x)
                  /\ NodeOf[x] # n => (Evicted(x) => Evicted(x)')
                  /\ NodeOf[x] # n => (Parting(x) => Parting(x)')
    BY <2>2, DieEffect
  <2>4. Members \subseteq Sockets /\ \A s \in Members : stage[s] \in Live
    BY TheRoom DEF Typed, Members, NoZombies
  <2>5. SameMail /\ inbox' \in [Nodes -> Seq(Posts)]
    BY <2>2, <2>3, <2>4, EndedMail DEF NodeEnds
  <2>6. Fewer /\ SameViews
    BY <2>2, <2>3, <2>4 DEF Fewer, SameViews, NodeEnds, On
  <2>7. \A s \in On(n) : s \notin Members' /\ Kicked(s) \notin Mail(NodeOf[s])'
    <3>1. inbox'[n] = <<>>
      BY <2>2 DEF NodeEnds, ETyped
    <3> QED
      BY <2>3, <3>1, NoMore DEF On, Mail
  <2>8. SameEvictions
    BY <2>3, <2>7 DEF SameEvictions, On
  <2>9. SamePartings
    <3>1. ASSUME NEW s \in Sockets, s \notin untold'
          PROVE  /\ s \in Members => s \in Members'
                 /\ Parting(s) => NodeOf[s] # n
      <4>1. s \notin {x \in On(n) : stage[x] \in Live}
            /\ s \notin {x \in On(n) : \E d \in Calls : call[d].sock = x}
        BY <2>2, <3>1 DEF NodeEnds
      <4> QED
        BY <2>3, <2>4, <4>1 DEF On, Parting, Parts
    <3> QED
      BY <2>3, <3>1 DEF SamePartings
  <2>10. ETyped'
    BY <2>2, <2>5 DEF ETyped, NodeEnds, On
  <2> QED
    BY <2>3, <2>5, <2>6, <2>8, <2>9, <2>10, ShrinkKeeps
<1> QED
  BY <1>1, <1>2

\* A client disconnects.
LEMMA DisconnectKeeps ==
    ASSUME Typed, NobodysRoom, Handlers, ETyped, Events, NEW s \in Sockets,
           Disconnect(s), Part(s)
    PROVE  Handlers' /\ ETyped' /\ Events'
<1>1. /\ Members' = Members \ {s} /\ Handlers'
      /\ \A x : /\ Evicted(x)' <=> Evicted(x)
                /\ Halfway(x)' <=> Halfway(x)
                /\ Parting(x) => Parting(x)'
      /\ s \in Members /\ stage[s] = "hooked" => Parting(s)'
  BY DisconnectEffect
<1>2. Members \subseteq Sockets
  BY TheRoom DEF Typed, Members
<1>3. SameMail
  BY SameMailIs DEF SameMail, Part
<1>4. Fewer /\ SameViews
  BY <1>1, <1>2 DEF Fewer, SameViews, Part, ETyped
<1>5. SameEvictions
  BY <1>1 DEF SameEvictions
<1>6. SamePartings
  <2>1. s \notin untold' => stage[s] = "hooked"
    BY DEF Part
  <2> QED
    BY <1>1, <2>1 DEF SamePartings
<1>7. ETyped'
  BY DEF ETyped, Part
<1> QED
  BY <1>1, <1>3, <1>4, <1>5, <1>6, <1>7, ShrinkKeeps

------------------------------------------------------------------------------
\* Words that are published.

\* The parts of the invariant that are about queues, in the next state.
LEMMA NextMail ==
    ASSUME NEW n, NEW s
    PROVE  /\ After(inbox[n], {New(s)}, Clears(s))' <=> After(inbox'[n], {New(s)}, Clears(s))
           /\ After(inbox[n], Clears(s), {New(s)})' <=> After(inbox'[n], Clears(s), {New(s)})
           /\ Mail(n)' = Range(inbox'[n])
           /\ Gone(s)' <=> s \notin Members' \/ Evicted(s)'
           /\ New(s)' = New(s) /\ Left(s)' = Left(s) /\ Kicked(s)' = Kicked(s)
           /\ Clears(s)' = Clears(s)
  BY DEF After, New, Left, Kicked, Clears, Room, Mail, Range, Gone

\* Nothing comes after what is not there.
LEMMA NoneOf ==
    ASSUME NEW q, NEW A, NEW B, \A a \in A : a \notin Range(q) PROVE After(q, A, B)
  BY DEF After, Range

\* A word comes after all others where it is published.
LEMMA PublishAfter ==
    ASSUME ETyped, NEW n, NEW p \in Posts, Publish(n, p), NEW m \in Nodes, NEW A, NEW B, p \notin A
    PROVE  /\ After(inbox[m], A, B) => After(inbox'[m], A, B)
           /\ m # n /\ p \in B => After(inbox'[m], A, B)
<1>1. inbox'[m] = IF m = n THEN inbox[m] ELSE Append(inbox[m], p)
  BY PublishIs
<1>2. inbox[m] \in Seq(Posts)
  BY DEF ETyped
<1>3. After(inbox[m], A, B) => After(Append(inbox[m], p), A, B)
  BY <1>2, OneMore
<1>4. p \in B => After(Append(inbox[m], p), A, B)
  BY <1>2, OneMore
<1> QED
  BY <1>1, <1>3, <1>4

\* Who is told of whom.
LEMMA WordsOf ==
    ASSUME NEW s, NEW x
    PROVE  /\ New(s) \notin Clears(x) /\ Left(s) \notin {New(x)} /\ Kicked(s) \notin {New(x)}
           /\ s # x => New(s) \notin {New(x)}
           /\ s # x => Left(s) \notin Clears(x) /\ Kicked(s) \notin Clears(x)
           /\ Left(s) \in Clears(s) /\ Kicked(s) \in Clears(s)
           /\ \A p \in Clears(x) : p = Left(x) \/ p = Kicked(x)
  BY WordForms DEF Clears

\* What is taken for granted of the sockets in the room.
LEMMA MembersAre ==
    ASSUME Typed, NoZombies
    PROVE  /\ Members \subseteq Sockets /\ \A s \in Members : stage[s] \in Live
           /\ \A s \in Sockets : NodeOf[s] \in Nodes
           /\ \A n : LocalMembers(Room, n) = {s \in Members : NodeOf[s] = n}
  BY TheRoom, LayoutAssumption DEF Typed, Members, NoZombies, LocalMembers, On

\* NEW_USER, when a socket enters.
LEMMA EnteredKeeps ==
    ASSUME Typed, NoZombies, Handlers, ETyped, Events, NEW c \in Calls,
           JoinEnter(c), TellEntered(call[c])
    PROVE  Handlers' /\ ETyped' /\ Events'
<1> DEFINE k == call[c]
<1>1. PICK s \in Sockets, n \in Nodes, heard \in SUBSET Sockets :
         /\ s = k.sock /\ n = k.node /\ heard = k.seen /\ n = NodeOf[s]
  BY EnterEffect
<1>2. /\ k.room = Room /\ Handlers' /\ Steady
      /\ Members' = IF stage[s] \in Live THEN Members \cup {s} ELSE Members
  BY <1>1, EnterEffect
<1>3. PICK others, here, view :
         /\ others = Members \ {s} /\ here = (stage[s] \in Live)
         /\ view = Hear(shown, others \cap On(n), New(s))
  OBVIOUS
<1>4. /\ shown' = [view EXCEPT ![s] = IF here THEN heard \ {s} ELSE {}]
      /\ Publish(n, New(s))
      /\ amiss' = [t \in Sockets |->
              IF t = s THEN (others \ heard) \cup (heard \ others)
                            \cup (heard \cap {call[d].target : d \in {e \in Calls : Evicting(call[e])}})
              ELSE IF t \in others THEN amiss[t] \ {s} ELSE amiss[t]]
      /\ untold' = IF here /\ s \notin {call[d].target : d \in {e \in Calls : Evicting(call[e])}}
                   THEN untold ELSE untold \cup {s}
      /\ asked' = asked
      /\ hidden' = IF \E d \in Calls : call[d].op = "leave" /\ call[d].pc = "fetch" /\ call[d].sock = s
                   THEN hidden \cup {s} ELSE hidden \ {s}
  BY <1>1, <1>2, <1>3 DEF TellEntered, New, Members
<1>5. \A x : x \in {call[d].target : d \in {e \in Calls : Evicting(call[e])}} <=> Evicted(x)
  BY DEF Evicted, Evicts
<1>6. /\ untold' = IF here /\ ~Evicted(s) THEN untold ELSE untold \cup {s}
      /\ hidden' = IF Halfway(s) THEN hidden \cup {s} ELSE hidden \ {s}
      /\ \A t \in Sockets \ {s} : amiss'[t] = IF t \in others THEN amiss[t] \ {s} ELSE amiss[t]
      /\ \A x : x \in amiss'[s] <=> \/ x \in others \ heard
                                    \/ x \in heard \ others
                                    \/ (x \in heard /\ Evicted(x))
      /\ amiss' \in [Sockets -> SUBSET Sockets]
  <2>1. \A x : x \in amiss'[s] <=> \/ x \in others \ heard
                                    \/ x \in heard \ others
                                    \/ (x \in heard /\ Evicted(x))
    BY <1>4, <1>5
  <2>2. \A t \in Sockets \ {s} : amiss'[t] = IF t \in others THEN amiss[t] \ {s} ELSE amiss[t]
    BY <1>4
  <2>3. others \subseteq Sockets
    BY <1>3, MembersAre
  <2>4. amiss' \in [Sockets -> SUBSET Sockets]
    <3>1. \A t \in Sockets \ {s} : amiss'[t] \subseteq Sockets
      BY <2>2 DEF ETyped
    <3>2. amiss'[s] \subseteq Sockets
      BY <2>1, <2>3
    <3>3. \E f : amiss' = [t \in Sockets |-> f[t]]
      <4>1. amiss' = [t \in Sockets |-> amiss'[t]]
        BY <1>4
      <4> QED
        BY <4>1
    <3> QED
      BY <3>1, <3>2, <3>3
  <2>5. hidden' = IF Halfway(s) THEN hidden \cup {s} ELSE hidden \ {s}
    BY <1>4 DEF Halfway, Leaves
  <2>6. untold' = IF here /\ ~Evicted(s) THEN untold ELSE untold \cup {s}
    BY <1>4, <1>5
  <2> QED
    BY <2>1, <2>2, <2>4, <2>5, <2>6
<1>7. /\ view \in [Sockets -> SUBSET Sockets]
      /\ \A t \in Sockets : view[t] = IF t \in others \cap On(n) THEN shown[t] \cup {s} ELSE shown[t]
  <2>1. \A t \in Sockets : view[t] = IF t \in others \cap On(n) THEN shown[t] \cup {s} ELSE shown[t]
    <3>1. ASSUME NEW t \in Sockets
          PROVE  view[t] = IF t \in others \cap On(n) THEN View(t, shown[t], New(s)) ELSE shown[t]
      BY <1>3, HearIs
    <3>2. \A t : View(t, shown[t], New(s)) = shown[t] \cup {s}
      BY ViewIs
    <3> QED
      BY <3>1, <3>2
  <2>2. \A t \in Sockets : view[t] \in SUBSET Sockets
    BY <2>1 DEF ETyped
  <2> QED
    BY <1>3, <2>1, <2>2 DEF Hear
<1>8. /\ shown' \in [Sockets -> SUBSET Sockets]
      /\ shown'[s] = IF here THEN heard \ {s} ELSE {}
      /\ \A t \in Sockets \ {s} : shown'[t] = IF t \in others \cap On(n) THEN shown[t] \cup {s} ELSE shown[t]
  BY <1>4, <1>7
<1>9. New(s) \in Posts
  BY WordForms
<1>10. /\ inbox' \in [Nodes -> Seq(Posts)]
       /\ \A m \in Nodes : Mail(m)' = IF m = n THEN Mail(m) ELSE Mail(m) \cup {New(s)}
  BY <1>4, <1>9, PublishIs
<1>11. ETyped'
  BY <1>4, <1>6, <1>8, <1>10 DEF ETyped
<1>12. /\ \A x : Evicted(x)' <=> Evicted(x)
       /\ \A x : Halfway(x)' <=> Halfway(x)
       /\ \A x : Parting(x)' <=> Parting(x)
  BY <1>2 DEF Steady
<1>13. /\ \A x \in Members' : x = s \/ x \in Members
       /\ s \in Members' => here
       /\ Members \subseteq Members' /\ Members' \subseteq Sockets
       /\ \A x \in Members' : NodeOf[x] \in Nodes
       /\ here => s \in Members'
  BY <1>2, <1>3, MembersAre
<1>14. Posted'
  <2>1. ASSUME NEW x \in Sockets
        PROVE  /\ New(x) \notin Mail(NodeOf[x])' /\ Left(x) \notin Mail(NodeOf[x])'
               /\ Kicked(x) \in Mail(NodeOf[x])' => Evicted(x)'
    <3>1. /\ New(x) \notin Mail(NodeOf[x]) /\ Left(x) \notin Mail(NodeOf[x])
          /\ Kicked(x) \in Mail(NodeOf[x]) => Evicted(x)
      BY DEF Events, Posted
    <3>2. Mail(NodeOf[x])' = Mail(NodeOf[x]) \/ (x # s /\ Mail(NodeOf[x])' = Mail(NodeOf[x]) \cup {New(s)})
      BY <1>1, <1>10, MembersAre
    <3>3. /\ x # s => New(x) # New(s)
          /\ Left(x) # New(s) /\ Kicked(x) # New(s)
      BY WordForms
    <3> QED
      BY <1>12, <3>1, <3>2, <3>3
  <2> QED
    BY <2>1, NextMail DEF Posted
<1>15. HalfHidden'
  <2>1. ASSUME NEW x \in Members', Halfway(x)' PROVE x \in hidden'
    <3>1. CASE x = s
      BY <1>6, <1>12, <2>1, <3>1
    <3>2. CASE x # s
      BY <1>6, <1>12, <1>13, <2>1, <3>2 DEF Events, HalfHidden
    <3> QED
      BY <3>1, <3>2
  <2> QED
    BY <2>1 DEF HalfHidden
<1>16. Confirmed'
  <2>1. ASSUME NEW x \in Members', x \notin hidden', ~Evicted(x)', NEW m \in Nodes
        PROVE  After(inbox'[m], Clears(x), {New(x)})
    <3>1. CASE x = s /\ m = n
      <4>1. ~Evicted(s)
        BY <1>12, <2>1, <3>1
      <4>2. Left(s) \notin Mail(n) /\ Kicked(s) \notin Mail(n)
        BY <1>1, <4>1 DEF Events, Posted
      <4>3. \A p \in Clears(s) : p \notin Range(inbox'[n])
        BY <1>10, <4>2, NextMail, WordsOf
      <4> QED
        BY <3>1, <4>3, NoneOf
    <3>2. CASE x = s /\ m # n
      BY <1>4, <1>9, <3>2, PublishAfter, WordsOf
    <3>3. CASE x # s
      <4>1. x \in Members \ hidden /\ ~Evicted(x)
        BY <1>6, <1>12, <1>13, <2>1, <3>3
      <4>2. After(inbox[m], Clears(x), {New(x)})
        BY <4>1 DEF Events, Confirmed
      <4> QED
        BY <1>4, <1>9, <4>2, PublishAfter, WordsOf
    <3> QED
      BY <3>1, <3>2, <3>3
  <2> QED
    BY <2>1, NextMail DEF Confirmed
<1>17. Seen'
  <2>1. ASSUME NEW x \in Members', NEW t \in Members', x \notin hidden', t \notin hidden',
               x # t, ~Evicted(x)', ~Evicted(t)'
        PROVE  x \in amiss'[t] \/ x \in shown'[t] \/ New(x) \in Mail(NodeOf[t])'
    <3>1. CASE t = s
      <4>1. x \in others /\ here
        BY <1>3, <1>13, <2>1, <3>1
      <4> QED
        BY <1>3, <1>6, <1>8, <4>1, <3>1
    <3>2. CASE t # s /\ x = s
      <4>1. t \in others /\ t \in Sockets /\ NodeOf[t] \in Nodes
        BY <1>3, <1>13, <3>2
      <4>2. CASE NodeOf[t] = n
        BY <1>8, <3>2, <4>1, <4>2 DEF On
      <4>3. CASE NodeOf[t] # n
        BY <1>10, <3>2, <4>1, <4>3
      <4> QED
        BY <4>2, <4>3
    <3>3. CASE t # s /\ x # s
      <4>1. x \in Members \ hidden /\ t \in Members \ hidden /\ ~Evicted(x) /\ ~Evicted(t)
            /\ t \in Sockets
        BY <1>6, <1>12, <1>13, <2>1, <3>3
      <4>2. x \in amiss[t] \/ x \in shown[t] \/ New(x) \in Mail(NodeOf[t])
        BY <2>1, <4>1 DEF Events, Seen
      <4>3. x \in amiss[t] => x \in amiss'[t]
        BY <1>6, <3>3, <4>1
      <4>4. x \in shown[t] => x \in shown'[t]
        BY <1>8, <3>3, <4>1
      <4>5. New(x) \in Mail(NodeOf[t]) => New(x) \in Mail(NodeOf[t])'
        BY <1>10, <1>13, <2>1
      <4> QED
        BY <4>2, <4>3, <4>4, <4>5
    <3> QED
      BY <3>1, <3>2, <3>3
  <2> QED
    BY <2>1, NextMail DEF Seen
<1>18. OneSided'
  <2>1. ASSUME NEW x \in Members', NEW t \in Members', x # t, x \in amiss'[t], t \in amiss'[x]
        PROVE  FALSE
    <3>0. x \in Sockets /\ t \in Sockets
      BY <1>13
    <3>1. CASE x # s /\ t # s
      <4>1. x \in Members /\ t \in Members /\ x \in amiss[t] /\ t \in amiss[x]
        BY <1>6, <1>13, <2>1, <3>0, <3>1
      <4> QED
        BY <2>1, <4>1 DEF Events, OneSided
    <3>2. CASE x = s
      <4>1. t \in others /\ t # s
        BY <1>3, <1>13, <2>1, <3>2
      <4> QED
        BY <1>6, <2>1, <3>0, <3>2, <4>1
    <3>3. CASE t = s
      <4>1. x \in others /\ x # s
        BY <1>3, <1>13, <2>1, <3>3
      <4> QED
        BY <1>6, <2>1, <3>0, <3>3, <4>1
    <3> QED
      BY <3>1, <3>2, <3>3
  <2> QED
    BY <2>1 DEF OneSided
<1>19. Ghosts'
  <2>1. ASSUME NEW x \in Sockets, x \notin untold', Gone(x)', ~Parting(x)'
        PROVE  /\ \A m \in Nodes : After(inbox'[m], {New(x)}, Clears(x))
               /\ \A t \in Members' \ {x} : x \in shown'[t] /\ x \notin amiss'[t] =>
                     \E p \in Clears(x) : p \in Mail(NodeOf[t])'
    <3>1. x # s /\ x \notin untold /\ Gone(x) /\ ~Parting(x)
      <4>1. x # s
        BY <1>6, <1>12, <1>13, <2>1, NextMail
      <4>2. x \in Members => x \in Members'
        BY <1>13
      <4> QED
        BY <1>6, <1>12, <2>1, <4>1, <4>2, NextMail DEF Gone
    <3>2. /\ \A m \in Nodes : After(inbox[m], {New(x)}, Clears(x))
          /\ \A t \in Members \ {x} : x \in shown[t] /\ x \notin amiss[t] =>
                \E p \in Clears(x) : p \in Mail(NodeOf[t])
      BY <3>1 DEF Events, Ghosts
    <3>3. ASSUME NEW m \in Nodes PROVE After(inbox'[m], {New(x)}, Clears(x))
      <4>1. New(s) \notin {New(x)} /\ After(inbox[m], {New(x)}, Clears(x))
        BY <3>1, <3>2, WordsOf
      <4> QED
        BY <1>4, <1>9, <4>1, PublishAfter
    <3>4. ASSUME NEW t \in Members' \ {x}, x \in shown'[t], x \notin amiss'[t]
          PROVE  \E p \in Clears(x) : p \in Mail(NodeOf[t])'
      <4>1. CASE t = s
        <5>1. x \in heard
          BY <1>8, <3>4, <4>1
        <5>2. x \in Members /\ ~Evicted(x)
          BY <1>3, <1>6, <3>4, <4>1, <5>1
        <5> QED
          BY <3>1, <5>2 DEF Gone
      <4>2. CASE t # s
        <5>1. t \in Members \ {x} /\ t \in Sockets
          BY <1>13, <3>4, <4>2
        <5>2. x \in shown[t] /\ x \notin amiss[t]
          BY <1>6, <1>8, <3>1, <3>4, <4>2, <5>1
        <5>3. PICK p \in Clears(x) : p \in Mail(NodeOf[t])
          BY <3>2, <5>1, <5>2
        <5> QED
          BY <1>10, <1>13, <3>4, <5>3
      <4> QED
        BY <4>1, <4>2
    <3> QED
      BY <3>3, <3>4
  <2> QED
    BY <2>1, NextMail DEF Ghosts
<1> QED
  BY <1>2, <1>11, <1>14, <1>15, <1>16, <1>17, <1>18, <1>19 DEF Events

\* LEFT_ROOM, when a leaving has been counted.
LEMMA LeftKeeps ==
    ASSUME Typed, NoZombies, Handlers, ETyped, Events, NEW c \in Calls,
           WriteCount(c), TellCounted(call[c]), call[c].op \in {"leave", "disc"}
    PROVE  Handlers' /\ ETyped' /\ Events'
<1> DEFINE k == call[c]
<1>0. Counted(k) /\ Shape(k)
  BY DEF WriteCount, Typed
<1>1. PICK s \in Sockets, n \in Nodes : s = k.sock /\ n = k.node /\ n = NodeOf[s]
  BY <1>0, CountedPlain
<1>2. /\ k.room = Room /\ Members' = Members /\ Handlers'
      /\ \A x : /\ Evicted(x)' <=> Evicted(x)
                /\ Halfway(x)' => Halfway(x)
                /\ Parting(x)' => Parting(x)
                /\ x # s => (Parting(x) => Parting(x)')
  BY <1>0, <1>1, CountedPlain, CountEffect
<1>3. PICK audience :
         /\ shown' = Hear(shown, audience, Left(s))
         /\ audience = (LocalMembers(k.room, n) \ {s}) \cup (IF k.op = "leave" THEN {s} ELSE {})
  BY <1>1, <1>2 DEF TellCounted, Left
<1>4. /\ Publish(n, Left(s)) /\ untold' = untold \ {s} /\ UNCHANGED <<asked, amiss, hidden>>
  BY <1>1, <1>2 DEF TellCounted, Left
<1>5. /\ \A t \in Sockets : shown'[t] \subseteq shown[t]
      /\ \A t \in Members : t # s /\ NodeOf[t] = n => s \notin shown'[t]
      /\ \A t \in Sockets \ {s} : shown[t] \ {s} \subseteq shown'[t]
      /\ shown' \in [Sockets -> SUBSET Sockets]
  <2>1. ASSUME NEW t \in Sockets
        PROVE  shown'[t] = IF t \in audience THEN (IF t = s THEN {} ELSE shown[t] \ {s}) ELSE shown[t]
    <3>1. shown'[t] = IF t \in audience THEN View(t, shown[t], Left(s)) ELSE shown[t]
      BY <1>3, HearIs
    <3>2. View(t, shown[t], Left(s)) = IF t = s THEN {} ELSE shown[t] \ {s}
      <4>1. PICK view : view = shown[t]
        OBVIOUS
      <4>2. View(t, view, Left(s)) = IF t = s THEN {} ELSE view \ {s}
        BY ViewIs
      <4> QED
        BY <4>1, <4>2
    <3> QED
      BY <3>1, <3>2
  <2>2. \A t \in Members : t # s /\ NodeOf[t] = n => t \in audience /\ t \in Sockets
    BY <1>2, <1>3, MembersAre
  <2>3. \A t \in Sockets : shown'[t] \subseteq shown[t] /\ shown[t] \subseteq Sockets
    BY <2>1 DEF ETyped
  <2>4. shown' \in [Sockets -> SUBSET Sockets]
    BY <1>3, <2>3 DEF Hear
  <2>5. \A t \in Sockets \ {s} : shown[t] \ {s} \subseteq shown'[t]
    BY <2>1
  <2>6. \A t \in Members : t # s /\ NodeOf[t] = n => s \notin shown'[t]
    BY <2>1, <2>2
  <2> QED
    BY <2>3, <2>4, <2>5, <2>6
<1>6. Left(s) \in Posts
  BY WordForms
<1>7. /\ inbox' \in [Nodes -> Seq(Posts)]
      /\ \A m \in Nodes : Mail(m)' = IF m = n THEN Mail(m) ELSE Mail(m) \cup {Left(s)}
  BY <1>4, <1>6, PublishIs
<1>8. ETyped'
  BY <1>4, <1>5, <1>7 DEF ETyped
<1>9. s \in Members => s \in hidden
  <2>1. CASE k.op = "leave"
    <3>1. Halfway(s)
      BY <1>0, <1>1, <2>1 DEF Halfway, Leaves, Counted, Fetched
    <3> QED
      BY <3>1 DEF Events, HalfHidden
  <2>2. CASE k.op = "disc"
    <3>1. stage[s] = "gone"
      BY <1>1, <2>2 DEF Handlers, Over
    <3> QED
      BY <3>1, MembersAre DEF Live
  <2> QED
    BY <2>1, <2>2
<1>10. /\ Members \subseteq Sockets /\ \A x \in Sockets : NodeOf[x] \in Nodes
  BY MembersAre
<1>11. Posted'
  <2>1. ASSUME NEW x \in Sockets
        PROVE  /\ New(x) \notin Mail(NodeOf[x])' /\ Left(x) \notin Mail(NodeOf[x])'
               /\ Kicked(x) \in Mail(NodeOf[x])' => Evicted(x)'
    <3>1. /\ New(x) \notin Mail(NodeOf[x]) /\ Left(x) \notin Mail(NodeOf[x])
          /\ Kicked(x) \in Mail(NodeOf[x]) => Evicted(x)
      BY DEF Events, Posted
    <3>2. Mail(NodeOf[x])' = Mail(NodeOf[x]) \/ (x # s /\ Mail(NodeOf[x])' = Mail(NodeOf[x]) \cup {Left(s)})
      BY <1>1, <1>7, <1>10
    <3>3. /\ x # s => Left(x) # Left(s)
          /\ New(x) # Left(s) /\ Kicked(x) # Left(s)
      BY WordForms
    <3> QED
      BY <1>2, <3>1, <3>2, <3>3
  <2> QED
    BY <2>1, NextMail DEF Posted
<1>12. HalfHidden'
  BY <1>2, <1>4 DEF Events, HalfHidden
<1>13. Confirmed'
  <2>1. ASSUME NEW x \in Members', x \notin hidden', ~Evicted(x)', NEW m \in Nodes
        PROVE  After(inbox'[m], Clears(x), {New(x)})
    <3>1. x \in Members \ hidden /\ ~Evicted(x) /\ x # s
      BY <1>2, <1>4, <1>9, <2>1
    <3>2. After(inbox[m], Clears(x), {New(x)}) /\ Left(s) \notin Clears(x)
      BY <3>1, WordsOf DEF Events, Confirmed
    <3> QED
      BY <1>4, <1>6, <3>2, PublishAfter
  <2> QED
    BY <2>1, NextMail DEF Confirmed
<1>14. Seen'
  <2>1. ASSUME NEW x \in Members', NEW t \in Members', x \notin hidden', t \notin hidden',
               x # t, ~Evicted(x)', ~Evicted(t)'
        PROVE  x \in amiss'[t] \/ x \in shown'[t] \/ New(x) \in Mail(NodeOf[t])'
    <3>1. /\ x \in Members \ hidden /\ t \in Members \ hidden /\ ~Evicted(x) /\ ~Evicted(t)
          /\ x # s /\ t # s /\ t \in Sockets
      BY <1>2, <1>4, <1>9, <1>10, <2>1
    <3>2. x \in amiss[t] \/ x \in shown[t] \/ New(x) \in Mail(NodeOf[t])
      BY <2>1, <3>1 DEF Events, Seen
    <3>3. x \in shown[t] => x \in shown'[t]
      BY <1>5, <3>1
    <3>4. New(x) \in Mail(NodeOf[t]) => New(x) \in Mail(NodeOf[t])'
      BY <1>7, <1>10, <3>1
    <3> QED
      BY <1>4, <3>2, <3>3, <3>4
  <2> QED
    BY <2>1, NextMail DEF Seen
<1>15. OneSided'
  BY <1>2, <1>4 DEF Events, OneSided
<1>16. Ghosts'
  <2>1. ASSUME NEW x \in Sockets, x \notin untold', Gone(x)', ~Parting(x)'
        PROVE  /\ \A m \in Nodes : After(inbox'[m], {New(x)}, Clears(x))
               /\ \A t \in Members' \ {x} : x \in shown'[t] /\ x \notin amiss'[t] =>
                     \E p \in Clears(x) : p \in Mail(NodeOf[t])'
    <3>1. CASE x = s
      <4>1. ASSUME NEW m \in Nodes PROVE After(inbox'[m], {New(s)}, Clears(s))
        <5>1. CASE m = n
          <6>1. \A p \in {New(s)} : p \notin Range(inbox'[n])
            BY <1>1, <1>7, NextMail DEF Events, Posted
          <6> QED
            BY <5>1, <6>1, NoneOf
        <5>2. CASE m # n
          <6>1. Left(s) \in Clears(s) /\ Left(s) \notin {New(s)}
            BY WordsOf
          <6> QED
            BY <1>4, <1>6, <5>2, <6>1, PublishAfter
        <5> QED
          BY <5>1, <5>2
      <4>2. ASSUME NEW t \in Members' \ {s}, s \in shown'[t]
            PROVE  \E p \in Clears(s) : p \in Mail(NodeOf[t])'
        <5>1. NodeOf[t] # n /\ NodeOf[t] \in Nodes
          BY <1>2, <1>5, <1>10, <4>2
        <5>2. Left(s) \in Mail(NodeOf[t])'
          BY <1>7, <5>1
        <5> QED
          BY <5>2, WordsOf
      <4> QED
        BY <3>1, <4>1, <4>2
    <3>2. CASE x # s
      <4>1. x \notin untold /\ Gone(x) /\ ~Parting(x)
        BY <1>2, <1>4, <2>1, <3>2, NextMail DEF Gone
      <4>2. /\ \A m \in Nodes : After(inbox[m], {New(x)}, Clears(x))
            /\ \A t \in Members \ {x} : x \in shown[t] /\ x \notin amiss[t] =>
                  \E p \in Clears(x) : p \in Mail(NodeOf[t])
        BY <4>1 DEF Events, Ghosts
      <4>3. ASSUME NEW m \in Nodes PROVE After(inbox'[m], {New(x)}, Clears(x))
        <5>1. Left(s) \notin {New(x)} /\ After(inbox[m], {New(x)}, Clears(x))
          BY <4>2, WordsOf
        <5> QED
          BY <1>4, <1>6, <5>1, PublishAfter
      <4>4. ASSUME NEW t \in Members' \ {x}, x \in shown'[t], x \notin amiss'[t]
            PROVE  \E p \in Clears(x) : p \in Mail(NodeOf[t])'
        <5>1. t \in Members \ {x} /\ t \in Sockets /\ x \in shown[t] /\ x \notin amiss[t]
          BY <1>2, <1>4, <1>5, <1>10, <4>4
        <5>2. PICK p \in Clears(x) : p \in Mail(NodeOf[t])
          BY <4>2, <5>1
        <5> QED
          BY <1>7, <1>10, <5>1, <5>2
      <4> QED
        BY <4>3, <4>4
    <3> QED
      BY <3>1, <3>2
  <2> QED
    BY <2>1, NextMail DEF Ghosts
<1> QED
  BY <1>2, <1>8, <1>11, <1>12, <1>13, <1>14, <1>15, <1>16 DEF Events

\* A count that has been written.
LEMMA CountedKeeps ==
    ASSUME Typed, NoZombies, Handlers, ETyped, Events, NEW c \in Calls,
           WriteCount(c), TellCounted(call[c])
    PROVE  Handlers' /\ ETyped' /\ Events'
<1>1. CASE call[c].op \in {"leave", "disc"}
  BY <1>1, LeftKeeps
<1>2. CASE call[c].op \notin {"leave", "disc"}
  <2>1. UNCHANGED <<shown, inbox, amiss, untold, hidden>> /\ asked' \in 0 .. MaxRequests
    BY <1>2 DEF TellCounted, evars, ETyped
  <2>2. Members' = Members /\ Handlers' /\ Steady
    BY <1>2, CountEffect
  <2> QED
    BY <2>1, <2>2, SteadyKeeps, QuietKeeps
<1> QED
  BY <1>1, <1>2

\* KICK_USER, ahead of the eviction.
LEMMA KickedKeeps ==
    ASSUME Typed, NoZombies, Handlers, ETyped, Events, NEW c \in Calls,
           KickEvict(c), TellKicked(call[c])
    PROVE  Handlers' /\ ETyped' /\ Events'
<1> DEFINE k == call[c]
<1>1. PICK s \in Sockets :
           /\ s = k.target /\ k.room = Room /\ k.node \in Nodes /\ Handlers'
           /\ \A y : /\ Halfway(y)' <=> Halfway(y)
                     /\ Parting(y)' <=> Parting(y)
                     /\ y # s => (Evicted(y)' <=> Evicted(y))
                     /\ Evicted(y) => Evicted(y)'
           /\ \/ NodeOf[s] = k.node /\ Members' = Members \ {s}
              \/ NodeOf[s] # k.node /\ Members' = Members /\ Evicted(s)'
  BY KickEffect
<1>2. PICK n \in Nodes : n = k.node
  BY <1>1
<1>3. /\ shown' = Hear(shown, LocalMembers(Room, n), Kicked(s))
      /\ Publish(n, Kicked(s))
      /\ hidden' = hidden \cup Mistaken(Kicked(s))
      /\ untold' = IF [Kicked(s) EXCEPT !.kind = "new"] \in Range(inbox[n])
                   THEN untold \cup {s} ELSE untold
      /\ UNCHANGED <<asked, amiss>>
  BY <1>1, <1>2 DEF TellKicked, Kicked
<1>4. /\ hidden' = hidden \cup ((Members \cap OfSameUser(s)) \ {s})
      /\ untold' = IF New(s) \in Mail(n) THEN untold \cup {s} ELSE untold
  <2>1. [Kicked(s) EXCEPT !.kind = "new"] = New(s)
    BY DEF Kicked, New
  <2> QED
    BY <1>3, <2>1, MistakenIs DEF Mail
<1>5. /\ Members \subseteq Sockets /\ \A x \in Sockets : NodeOf[x] \in Nodes
      /\ LocalMembers(Room, n) = {x \in Members : NodeOf[x] = n}
      /\ s \in OfSameUser(s) /\ Members' \subseteq Members /\ Members \ {s} \subseteq Members'
  BY <1>1, MembersAre DEF OfSameUser
<1>6. \A t \in Sockets : shown'[t] =
          IF t \in Members /\ NodeOf[t] = n
          THEN IF t \in OfSameUser(s) THEN {} ELSE shown[t] \ OfSameUser(s)
          ELSE shown[t]
  <2>1. ASSUME NEW t \in Sockets
        PROVE  shown'[t] = IF t \in Members /\ NodeOf[t] = n
                           THEN View(t, shown[t], Kicked(s)) ELSE shown[t]
    BY <1>3, <1>5, HearIs
  <2>2. ASSUME NEW t
        PROVE  View(t, shown[t], Kicked(s)) =
                  IF t \in OfSameUser(s) THEN {} ELSE shown[t] \ OfSameUser(s)
    <3>1. PICK view : view = shown[t]
      OBVIOUS
    <3>2. View(t, view, Kicked(s)) = IF t \in OfSameUser(s) THEN {} ELSE view \ OfSameUser(s)
      BY ViewIs
    <3> QED
      BY <3>1, <3>2
  <2> QED
    BY <2>1, <2>2
<1>7. Kicked(s) \in Posts
  BY WordForms
<1>8. /\ inbox' \in [Nodes -> Seq(Posts)]
      /\ \A m \in Nodes : Mail(m)' = IF m = n THEN Mail(m) ELSE Mail(m) \cup {Kicked(s)}
  BY <1>3, <1>7, PublishIs
<1>9. ETyped'
  <2>1. \A t \in Sockets : shown'[t] \in SUBSET Sockets
    BY <1>6 DEF ETyped
  <2>2. shown' \in [Sockets -> SUBSET Sockets]
    BY <1>3, <2>1 DEF Hear
  <2>3. untold' \subseteq Sockets /\ hidden' \subseteq Sockets
    BY <1>4, <1>5 DEF ETyped
  <2> QED
    BY <1>3, <1>8, <2>2, <2>3 DEF ETyped
<1>10. s \in Members' => Evicted(s)'
  BY <1>1
<1>11. Posted'
  <2>1. ASSUME NEW x \in Sockets
        PROVE  /\ New(x) \notin Mail(NodeOf[x])' /\ Left(x) \notin Mail(NodeOf[x])'
               /\ Kicked(x) \in Mail(NodeOf[x])' => Evicted(x)'
    <3>1. /\ New(x) \notin Mail(NodeOf[x]) /\ Left(x) \notin Mail(NodeOf[x])
          /\ Kicked(x) \in Mail(NodeOf[x]) => Evicted(x)
      BY DEF Events, Posted
    <3>2. Mail(NodeOf[x])' = Mail(NodeOf[x])
          \/ (NodeOf[x] # n /\ Mail(NodeOf[x])' = Mail(NodeOf[x]) \cup {Kicked(s)})
      BY <1>5, <1>8
    <3>3. /\ Kicked(x) = Kicked(s) => x = s
          /\ New(x) # Kicked(s) /\ Left(x) # Kicked(s)
      BY WordForms
    <3>4. x = s /\ NodeOf[x] # n => Evicted(x)'
      BY <1>1, <1>2
    <3>5. Evicted(x) => Evicted(x)'
      BY <1>1
    <3> QED
      BY <3>1, <3>2, <3>3, <3>4, <3>5
  <2> QED
    BY <2>1, NextMail DEF Posted
<1>12. HalfHidden'
  <2>1. ASSUME NEW x \in Members', Halfway(x)' PROVE x \in hidden'
    <3>1. x \in Members /\ Halfway(x)
      BY <1>1, <1>5, <2>1
    <3> QED
      BY <1>4, <3>1 DEF Events, HalfHidden
  <2> QED
    BY <2>1 DEF HalfHidden
<1>13. ASSUME NEW x \in Members', x \notin hidden', ~Evicted(x)'
       PROVE  x \in Members \ hidden /\ ~Evicted(x) /\ x \notin OfSameUser(s) /\ x # s /\ x \in Sockets
  BY <1>1, <1>4, <1>5, <1>10, <1>13
<1>14. Confirmed'
  <2>1. ASSUME NEW x \in Members', x \notin hidden', ~Evicted(x)', NEW m \in Nodes
        PROVE  After(inbox'[m], Clears(x), {New(x)})
    <3>1. x \in Members \ hidden /\ ~Evicted(x) /\ x # s
      BY <1>13, <2>1
    <3>2. After(inbox[m], Clears(x), {New(x)}) /\ Kicked(s) \notin Clears(x)
      BY <3>1, WordsOf DEF Events, Confirmed
    <3> QED
      BY <1>3, <1>7, <3>2, PublishAfter
  <2> QED
    BY <2>1, NextMail DEF Confirmed
<1>15. Seen'
  <2>1. ASSUME NEW x \in Members', NEW t \in Members', x \notin hidden', t \notin hidden',
               x # t, ~Evicted(x)', ~Evicted(t)'
        PROVE  x \in amiss'[t] \/ x \in shown'[t] \/ New(x) \in Mail(NodeOf[t])'
    <3>1. /\ x \in Members \ hidden /\ ~Evicted(x) /\ x \notin OfSameUser(s)
          /\ t \in Members \ hidden /\ ~Evicted(t) /\ t \notin OfSameUser(s) /\ t \in Sockets
      BY <1>13, <2>1
    <3>2. x \in amiss[t] \/ x \in shown[t] \/ New(x) \in Mail(NodeOf[t])
      BY <2>1, <3>1 DEF Events, Seen
    <3>3. x \in shown[t] => x \in shown'[t]
      BY <1>6, <3>1
    <3>4. New(x) \in Mail(NodeOf[t]) => New(x) \in Mail(NodeOf[t])'
      BY <1>5, <1>8, <3>1
    <3> QED
      BY <1>3, <3>2, <3>3, <3>4
  <2> QED
    BY <2>1, NextMail DEF Seen
<1>16. OneSided'
  BY <1>3, <1>5 DEF Events, OneSided
<1>17. Ghosts'
  <2>1. ASSUME NEW x \in Sockets, x \notin untold', Gone(x)', ~Parting(x)'
        PROVE  /\ \A m \in Nodes : After(inbox'[m], {New(x)}, Clears(x))
               /\ \A t \in Members' \ {x} : x \in shown'[t] /\ x \notin amiss'[t] =>
                     \E p \in Clears(x) : p \in Mail(NodeOf[t])'
    <3>1. CASE x = s
      <4>0. New(s) \notin Mail(n)
        BY <1>4, <2>1, <3>1
      <4>1. ASSUME NEW m \in Nodes PROVE After(inbox'[m], {New(s)}, Clears(s))
        <5>1. CASE m = n
          <6>1. \A p \in {New(s)} : p \notin Range(inbox'[n])
            BY <1>8, <4>0, NextMail
          <6> QED
            BY <5>1, <6>1, NoneOf
        <5>2. CASE m # n
          <6>1. Kicked(s) \in Clears(s) /\ Kicked(s) \notin {New(s)}
            BY WordsOf
          <6> QED
            BY <1>3, <1>7, <5>2, <6>1, PublishAfter
        <5> QED
          BY <5>1, <5>2
      <4>2. ASSUME NEW t \in Members' \ {s}, s \in shown'[t]
            PROVE  \E p \in Clears(s) : p \in Mail(NodeOf[t])'
        <5>1. NodeOf[t] # n /\ NodeOf[t] \in Nodes
          BY <1>5, <1>6, <4>2
        <5>2. Kicked(s) \in Mail(NodeOf[t])'
          BY <1>8, <5>1
        <5> QED
          BY <5>2, WordsOf
      <4> QED
        BY <3>1, <4>1, <4>2
    <3>2. CASE x # s
      <4>1. x \notin untold /\ Gone(x) /\ ~Parting(x)
        BY <1>1, <1>4, <1>5, <2>1, <3>2, NextMail DEF Gone
      <4>2. /\ \A m \in Nodes : After(inbox[m], {New(x)}, Clears(x))
            /\ \A t \in Members \ {x} : x \in shown[t] /\ x \notin amiss[t] =>
                  \E p \in Clears(x) : p \in Mail(NodeOf[t])
        BY <4>1 DEF Events, Ghosts
      <4>3. ASSUME NEW m \in Nodes PROVE After(inbox'[m], {New(x)}, Clears(x))
        <5>1. Kicked(s) \notin {New(x)} /\ After(inbox[m], {New(x)}, Clears(x))
          BY <4>2, WordsOf
        <5> QED
          BY <1>3, <1>7, <5>1, PublishAfter
      <4>4. ASSUME NEW t \in Members' \ {x}, x \in shown'[t], x \notin amiss'[t]
            PROVE  \E p \in Clears(x) : p \in Mail(NodeOf[t])'
        <5>1. t \in Members \ {x} /\ t \in Sockets
          BY <1>5, <4>4
        <5>2. x \in shown[t] /\ x \notin amiss[t]
          BY <1>3, <1>6, <4>4, <5>1
        <5>3. PICK p \in Clears(x) : p \in Mail(NodeOf[t])
          BY <4>2, <5>1, <5>2
        <5> QED
          BY <1>5, <1>8, <5>1, <5>3
      <4> QED
        BY <4>3, <4>4
    <3> QED
      BY <3>1, <3>2
  <2> QED
    BY <2>1, NextMail DEF Ghosts
<1> QED
  BY <1>1, <1>9, <1>11, <1>12, <1>14, <1>15, <1>16, <1>17 DEF Events

------------------------------------------------------------------------------
\* A packet arrives.

\* What a node's members make of a word on s.
LEMMA HeardIs ==
    ASSUME Typed, NoZombies, ETyped, NEW n \in Nodes, NEW s \in Sockets, NEW p \in Words(s),
           shown' = Hear(shown, LocalMembers(Room, n), p), NEW t \in Sockets
    PROVE  /\ t \notin Members \/ NodeOf[t] # n => shown'[t] = shown[t]
           /\ t \in Members /\ NodeOf[t] = n =>
                /\ p = New(s) => shown'[t] = shown[t] \cup {s}
                /\ p = Left(s) /\ t # s => shown'[t] = shown[t] \ {s}
                /\ p = Kicked(s) /\ t \notin OfSameUser(s) => shown'[t] = shown[t] \ OfSameUser(s)
                /\ p = Kicked(s) /\ t \in OfSameUser(s) => shown'[t] = {}
           /\ shown'[t] \in SUBSET Sockets
<1>1. t \in LocalMembers(Room, n) <=> t \in Members /\ NodeOf[t] = n
  BY MembersAre
<1>2. PICK view \in SUBSET Sockets : view = shown[t]
  BY DEF ETyped
<1>3. shown'[t] = IF t \in LocalMembers(Room, n) THEN View(t, view, p) ELSE view
  BY <1>2, HearIs
<1>4. /\ View(t, view, New(s)) = view \cup {s}
      /\ View(t, view, Left(s)) = IF t = s THEN {} ELSE view \ {s}
      /\ View(t, view, Kicked(s)) = IF t \in OfSameUser(s) THEN {}
                                    ELSE view \ OfSameUser(s)
  BY ViewIs
<1>5. p = New(s) \/ p = Left(s) \/ p = Kicked(s)
  BY DEF Words
<1>6. View(t, view, p) \in SUBSET Sockets
  BY <1>4, <1>5
<1>7. CASE t \notin Members \/ NodeOf[t] # n
  BY <1>1, <1>2, <1>3, <1>7
<1>8. CASE t \in Members /\ NodeOf[t] = n
  <2>1. shown'[t] = View(t, view, p)
    BY <1>1, <1>3, <1>8
  <2>2. p = New(s) => shown'[t] = view \cup {s}
    BY <1>4, <2>1
  <2>3. p = Left(s) /\ t # s => shown'[t] = view \ {s}
    BY <1>4, <2>1
  <2>4. p = Kicked(s) /\ t \notin OfSameUser(s) => shown'[t] = view \ OfSameUser(s)
    BY <1>4, <2>1
  <2>5. p = Kicked(s) /\ t \in OfSameUser(s) => shown'[t] = {}
    BY <1>4, <2>1
  <2> QED
    BY <1>2, <1>6, <1>8, <2>1, <2>2, <2>3, <2>4, <2>5
<1> QED
  BY <1>7, <1>8

\* Deliver.
LEMMA DeliverKeeps ==
    ASSUME Typed, NoZombies, Handlers, ETyped, Events, NEW n \in Nodes, Deliver(n)
    PROVE  Handlers' /\ ETyped' /\ Events'
<1>1. /\ inbox[n] # <<>> /\ inbox' = [inbox EXCEPT ![n] = Tail(@)]
      /\ UNCHANGED <<vars, asked, amiss, untold>>
  BY DEF Deliver
<1>2. Members' = Members /\ Handlers' /\ Steady
  BY <1>1 DEF vars, Members, Steady, Handlers, Evicted, Halfway, Parting, Evicts, Leaves,
     Parts, Evicting, Apart, Over, Ordered
<1>3. PICK q \in Seq(Posts), z \in Seq(Posts), p \in Posts :
         /\ q = inbox[n] /\ z = Tail(q) /\ p = Head(q) /\ q # <<>>
         /\ p \in Range(q) /\ Range(z) \subseteq Range(q) /\ Range(q) \subseteq Range(z) \cup {p}
         /\ \A A, B : After(q, A, B) => After(z, A, B)
         /\ \A A, B : After(q, A, B) /\ p \in A => \E i \in B : i \in Range(z)
  <2>1. inbox[n] \in Seq(Posts)
    BY DEF ETyped
  <2>2. PICK q \in Seq(Posts) : q = inbox[n]
    BY <2>1
  <2>3. PICK z, p : z = Tail(q) /\ p = Head(q)
    OBVIOUS
  <2>4. /\ q # <<>> /\ p \in Posts /\ z \in Seq(Posts)
        /\ p \in Range(q) /\ Range(z) \subseteq Range(q) /\ Range(q) \subseteq Range(z) \cup {p}
        /\ \A A, B : After(q, A, B) => After(z, A, B)
        /\ \A A, B : After(q, A, B) /\ p \in A => \E i \in B : i \in Range(z)
    BY <1>1, <2>2, <2>3, FirstOff
  <2> QED
    BY <2>2, <2>3, <2>4
<1>4. /\ inbox'[n] = z /\ \A m \in Nodes \ {n} : inbox'[m] = inbox[m]
      /\ inbox' \in [Nodes -> Seq(Posts)]
  BY <1>1, <1>3 DEF ETyped
<1>5. /\ Mail(n) = Range(q) /\ Mail(n)' = Range(z)
      /\ \A m \in Nodes \ {n} : Mail(m)' = Mail(m)
  BY <1>3, <1>4 DEF Mail, Range
<1>6. /\ \A x : Evicted(x)' <=> Evicted(x)
      /\ \A x : Halfway(x)' <=> Halfway(x)
      /\ \A x : Parting(x)' <=> Parting(x)
  BY <1>2 DEF Steady
<1>7. CASE p \in Answers
  <2>1. UNCHANGED <<shown, hidden>>
    <3>1. p.kind = "answer"
      BY <1>7, WordForms
    <3> QED
      BY <1>3, <3>1 DEF Deliver
  <2>2. \A s : p \notin Words(s)
    BY <1>7, WordForms
  <2>3. ASSUME NEW s
        PROVE  /\ \A w \in Words(s) : w \in Range(z) <=> w \in Range(q)
               /\ After(q, {New(s)}, Clears(s)) => After(z, {New(s)}, Clears(s))
               /\ After(q, Clears(s), {New(s)}) => After(z, Clears(s), {New(s)})
    BY <1>3, <2>2
  <2>4. SameWords(n)
    BY <1>3, <1>4, <2>3, SameWordsIn
  <2>5. SameMail
    BY <1>4, <2>4, SameMailIs DEF SameMail
  <2>6. Fewer /\ SameViews /\ SameEvictions /\ SamePartings
    BY <1>1, <1>2, <2>1, SteadyKeeps DEF Fewer, SameViews
  <2>7. ETyped'
    BY <1>1, <1>4, <2>1 DEF ETyped
  <2> QED
    BY <1>2, <2>5, <2>6, <2>7, ShrinkKeeps
<1>8. CASE p \notin Answers
  <2>1. PICK s \in Sockets : /\ s = p.who /\ p.room = Room /\ p.kind # "answer"
                             /\ p = New(s) \/ p = Left(s) \/ p = Kicked(s)
    BY <1>8, PostIs
  <2>2. p \in Words(s)
    BY <2>1 DEF Words
  <2>3. /\ shown' = Hear(shown, LocalMembers(Room, n), p)
        /\ hidden' = hidden \cup Mistaken(p)
    BY <1>3, <2>1 DEF Deliver
  <2>4. /\ Members \subseteq Sockets /\ \A x \in Sockets : NodeOf[x] \in Nodes
    BY MembersAre
  <2>5. ETyped'
    <3>1. \A t \in Sockets : shown'[t] \in SUBSET Sockets
      BY <2>2, <2>3, HeardIs
    <3>2. shown' \in [Sockets -> SUBSET Sockets]
      BY <2>3, <3>1 DEF Hear
    <3>3. Mistaken(p) \subseteq Sockets
      BY <2>1, <2>4, MistakenIs
    <3> QED
      BY <1>1, <1>4, <2>3, <3>2, <3>3 DEF ETyped
  <2>6. Posted'
    <3>1. ASSUME NEW x \in Sockets
          PROVE  /\ New(x) \notin Mail(NodeOf[x])' /\ Left(x) \notin Mail(NodeOf[x])'
                 /\ Kicked(x) \in Mail(NodeOf[x])' => Evicted(x)'
      <4>1. /\ New(x) \notin Mail(NodeOf[x]) /\ Left(x) \notin Mail(NodeOf[x])
            /\ Kicked(x) \in Mail(NodeOf[x]) => Evicted(x)
        BY DEF Events, Posted
      <4>2. Mail(NodeOf[x])' \subseteq Mail(NodeOf[x])
        BY <1>3, <1>5, <2>4
      <4> QED
        BY <1>6, <4>1, <4>2
    <3> QED
      BY <3>1, NextMail DEF Posted
  <2>7. HalfHidden'
    BY <1>2, <1>6, <2>3 DEF Events, HalfHidden
  <2>8. ASSUME NEW m \in Nodes, NEW A, NEW B, After(inbox[m], A, B)
        PROVE  After(inbox'[m], A, B)
    <3>1. CASE m = n
      <4>1. After(q, A, B)
        BY <1>3, <2>8, <3>1
      <4>2. After(z, A, B)
        BY <1>3, <4>1, Zenon
      <4> QED
        BY <1>4, <3>1, <4>2
    <3>2. CASE m # n
      BY <1>4, <2>8, <3>2
    <3> QED
      BY <3>1, <3>2
  <2>9. Confirmed'
    <3>1. ASSUME NEW x \in Members', x \notin hidden', ~Evicted(x)', NEW m \in Nodes
          PROVE  After(inbox'[m], Clears(x), {New(x)})
      <4>1. x \in Members \ hidden /\ ~Evicted(x)
        BY <1>2, <1>6, <2>3, <3>1
      <4>2. After(inbox[m], Clears(x), {New(x)})
        BY <4>1 DEF Events, Confirmed
      <4> QED
        BY <2>8, <4>2
    <3> QED
      BY <3>1, NextMail DEF Confirmed
  <2>10. Seen'
    <3>1. ASSUME NEW x \in Members', NEW t \in Members', x \notin hidden', t \notin hidden',
                 x # t, ~Evicted(x)', ~Evicted(t)'
          PROVE  x \in amiss'[t] \/ x \in shown'[t] \/ New(x) \in Mail(NodeOf[t])'
      <4>1. /\ x \in Members \ hidden /\ t \in Members \ hidden /\ ~Evicted(x) /\ ~Evicted(t)
            /\ t \in Sockets /\ t \in Members /\ x \in Sockets
        BY <1>2, <1>6, <2>3, <2>4, <3>1
      <4>2. x \in amiss[t] \/ x \in shown[t] \/ New(x) \in Mail(NodeOf[t])
        BY <3>1, <4>1 DEF Events, Seen
      <4>3. CASE NodeOf[t] # n
        <5>1. shown'[t] = shown[t]
          BY <2>2, <2>3, <4>1, <4>3, HeardIs
        <5>2. Mail(NodeOf[t])' = Mail(NodeOf[t])
          BY <1>5, <2>4, <4>1, <4>3
        <5> QED
          BY <1>1, <4>2, <5>1, <5>2
      <4>4. CASE NodeOf[t] = n
        <5>1. /\ p = New(s) => shown'[t] = shown[t] \cup {s}
              /\ p = Left(s) /\ t # s => shown'[t] = shown[t] \ {s}
              /\ p = Kicked(s) /\ t \notin OfSameUser(s) => shown'[t] = shown[t] \ OfSameUser(s)
              /\ p = Kicked(s) /\ t \in OfSameUser(s) => shown'[t] = {}
          BY <2>2, <2>3, <4>1, <4>4, HeardIs
        <5>2. p \in Clears(x) => New(x) \in Mail(NodeOf[t])'
          <6>1. After(q, Clears(x), {New(x)})
            BY <1>3, <4>1 DEF Events, Confirmed
          <6> QED
            BY <1>3, <1>5, <4>4, <6>1
        <5>3. p = New(s) \/ (p = Left(s) /\ t # s) \/ (p = Kicked(s) /\ t # s)
          <6>1. Left(t) \notin Mail(n) /\ Kicked(t) \notin Mail(n)
            BY <4>1, <4>4 DEF Events, Posted
          <6> QED
            BY <1>3, <1>5, <2>1, <6>1
        <5>4. New(x) \in Mail(n) => New(x) \in Mail(n)' \/ p = New(x)
          BY <1>3, <1>5
        <5>5. CASE p = New(s)
          <6>1. p = New(x) => s = x
            BY <5>5, WordForms
          <6> QED
            BY <1>1, <4>2, <4>4, <5>1, <5>4, <5>5, <6>1
        <5>6. CASE p = Left(s) /\ t # s
          <6>1. p # New(x) /\ (s = x => p \in Clears(x))
            BY <5>6, WordForms, WordsOf
          <6>2. x # s /\ x \in shown[t] => x \in shown'[t]
            BY <5>1, <5>6
          <6> QED
            BY <1>1, <4>2, <4>4, <5>2, <5>4, <6>1, <6>2
        <5>7. CASE p = Kicked(s) /\ t # s
          <6>1. p # New(x) /\ (s = x => p \in Clears(x))
            BY <5>7, WordForms, WordsOf
          <6>2. hidden' = hidden \cup ((Members \cap OfSameUser(s)) \ {s})
            BY <2>3, <5>7, MistakenIs
          <6>3. t \notin OfSameUser(s) /\ (x # s => x \notin OfSameUser(s))
            BY <3>1, <4>1, <5>7, <6>2
          <6>4. x # s /\ x \in shown[t] => x \in shown'[t]
            BY <5>1, <5>7, <6>3
          <6> QED
            BY <1>1, <4>2, <4>4, <5>2, <5>4, <6>1, <6>4
        <5> QED
          BY <5>3, <5>5, <5>6, <5>7
      <4> QED
        BY <4>3, <4>4
    <3> QED
      BY <3>1, NextMail DEF Seen
  <2>11. OneSided'
    BY <1>1, <1>2 DEF Events, OneSided
  <2>12. Ghosts'
    <3>1. ASSUME NEW x \in Sockets, x \notin untold', Gone(x)', ~Parting(x)'
          PROVE  /\ \A m \in Nodes : After(inbox'[m], {New(x)}, Clears(x))
                 /\ \A t \in Members' \ {x} : x \in shown'[t] /\ x \notin amiss'[t] =>
                       \E w \in Clears(x) : w \in Mail(NodeOf[t])'
      <4>1. x \notin untold /\ Gone(x) /\ ~Parting(x)
        BY <1>1, <1>2, <1>6, <3>1, NextMail DEF Gone
      <4>2. /\ \A m \in Nodes : After(inbox[m], {New(x)}, Clears(x))
            /\ \A t \in Members \ {x} : x \in shown[t] /\ x \notin amiss[t] =>
                  \E w \in Clears(x) : w \in Mail(NodeOf[t])
        BY <4>1 DEF Events, Ghosts
      <4>3. \A m \in Nodes : After(inbox'[m], {New(x)}, Clears(x))
        BY <2>8, <4>2
      <4>4. ASSUME NEW t \in Members' \ {x}, x \in shown'[t], x \notin amiss'[t]
            PROVE  \E w \in Clears(x) : w \in Mail(NodeOf[t])'
        <5>1. t \in Members \ {x} /\ t \in Sockets /\ x \notin amiss[t]
          BY <1>1, <1>2, <2>4, <4>4
        <5>2. CASE NodeOf[t] # n
          <6>1. shown'[t] = shown[t]
            BY <2>2, <2>3, <5>1, <5>2, HeardIs
          <6>2. Mail(NodeOf[t])' = Mail(NodeOf[t])
            BY <1>5, <2>4, <5>1, <5>2
          <6> QED
            BY <4>2, <4>4, <5>1, <6>1, <6>2
        <5>3. CASE NodeOf[t] = n
          <6>1. /\ p = New(s) => shown'[t] = shown[t] \cup {s}
                /\ p = Left(s) /\ t # s => shown'[t] = shown[t] \ {s}
                /\ p = Kicked(s) /\ t \notin OfSameUser(s) => shown'[t] = shown[t] \ OfSameUser(s)
                /\ p = Kicked(s) /\ t \in OfSameUser(s) => shown'[t] = {}
            BY <2>2, <2>3, <5>1, <5>3, HeardIs
          <6>2. CASE p = New(x)
            <7>1. After(q, {New(x)}, Clears(x))
              BY <1>3, <4>2
            <7> QED
              BY <1>3, <1>5, <5>3, <6>2, <7>1
          <6>3. CASE p # New(x)
            <7>1. x \in shown[t]
              <8>1. p = Left(s) => t # s
                BY <1>3, <1>5, <5>1, <5>3 DEF Events, Posted
              <8> QED
                BY <2>1, <4>4, <6>1, <6>3, <8>1
            <7>2. PICK w \in Clears(x) : w \in Mail(NodeOf[t])
              BY <4>2, <5>1, <7>1
            <7>3. w # p
              <8>1. ASSUME w = p PROVE FALSE
                <9>1. p = Left(x) \/ p = Kicked(x)
                  BY <7>2, <8>1, WordsOf
                <9>2. s = x /\ (p = Left(s) \/ p = Kicked(s)) /\ s \in OfSameUser(s)
                  BY <2>1, <9>1, WordForms DEF OfSameUser
                <9> QED
                  BY <4>4, <6>1, <9>2
              <8> QED
                BY <8>1
            <7> QED
              BY <1>3, <1>5, <5>3, <7>2, <7>3
          <6> QED
            BY <6>2, <6>3
        <5> QED
          BY <5>2, <5>3
      <4> QED
        BY <4>3, <4>4
    <3> QED
      BY <3>1, NextMail DEF Ghosts
  <2> QED
    BY <1>2, <2>5, <2>6, <2>7, <2>9, <2>10, <2>11, <2>12 DEF Events
<1> QED
  BY <1>7, <1>8

------------------------------------------------------------------------------
\* The invariant.

\* It holds before anything has happened.
LEMMA EInvInit == EInit => EInv
<1> SUFFICES ASSUME EInit PROVE EInv
  OBVIOUS
<1>1. Typed /\ NoZombies
  <2>1. Init
    BY DEF EInit
  <2> QED
    BY <2>1, TypedInit DEF Init, NoZombies
<1>2. ETyped
  <2>1. <<>> \in Seq(Posts)
    OBVIOUS
  <2> QED
    BY <2>1, RequestsAreCounted DEF EInit, ETyped
<1>3. /\ Members = {}
      /\ \A c \in Calls : call[c] = Idle
      /\ \A n \in Nodes : inbox[n] = <<>>
  BY TheRoom DEF EInit, Init, Members
<1>4. \A s : ~Evicted(s) /\ ~Halfway(s) /\ ~Parting(s)
  BY <1>3 DEF Evicted, Halfway, Parting, Evicts, Leaves, Parts, Evicting, Idle
<1>5. Handlers
  BY <1>3 DEF Handlers, Apart, Over, Evicting, Idle
<1>6. \A n \in Nodes : Mail(n) = {} /\ \A A, B : After(inbox[n], A, B)
  BY <1>3, NoMore DEF Mail
<1>7. Posted
  BY <1>6, LayoutAssumption DEF Posted
<1>8. Ghosts
  BY <1>3, <1>6 DEF Ghosts
<1>9. HalfHidden /\ Confirmed /\ Seen /\ OneSided
  BY <1>3 DEF HalfHidden, Confirmed, Seen, OneSided
<1> QED
  BY <1>1, <1>2, <1>5, <1>7, <1>8, <1>9 DEF EInv, Events

\* A step of the events is one of the gateway.
LEMMA GatewayStep == [ENext]_allvars => [Next]_vars
<1> SUFFICES ASSUME [ENext]_allvars PROVE [Next]_vars
  OBVIOUS
<1>1. ASSUME NEW c \in Calls,
             \/ JoinEnter(c) \/ WriteCount(c) \/ KickEvict(c) \/ RemoteLeave(c)
             \/ \E n \in Nodes : FetchReply(c, n)
             \/ FetchTimeout(c) \/ WriteMissing(c) \/ Silent(c)
      PROVE  Next
  BY <1>1 DEF Silent, Next, Progress
<1>2. ASSUME NEW s \in Sockets, Connect(s) \/ TuneUid(s) \/ Hook(s) \/ Disconnect(s)
      PROVE  Next
  BY <1>2 DEF Next, Client
<1>3. ASSUME NEW c \in Calls, NEW r \in Rooms, Asks(c, r) PROVE Next
  <2>1. CASE \E n \in Nodes : DeleteAsk(c, r, n)
    BY <2>1 DEF Next
  <2>2. CASE \E s \in Sockets : AskJoin(c, s, r) \/ AskLeave(c, s, r)
    BY <2>2 DEF Next, Client
  <2>3. CASE \E s, t \in Sockets : AskKick(c, s, r, t)
    BY <2>3 DEF Next, Client
  <2> QED
    BY <1>3, <2>1, <2>2, <2>3 DEF Asks
<1>4. ASSUME NEW n \in Nodes, Deliver(n) PROVE UNCHANGED vars
  BY <1>4 DEF Deliver
<1>5. ASSUME NEW r \in Rooms, CreateRoom(r) PROVE Next
  BY <1>5 DEF Next
<1>6. ASSUME UNCHANGED allvars PROVE UNCHANGED vars
  BY <1>6 DEF allvars
<1> QED
  BY <1>1, <1>2, <1>3, <1>4, <1>5, <1>6 DEF ENext

\* Every step keeps the invariant, if the room is nobody's.
LEMMA EInvNext ==
    ASSUME NobodysRoom, EInv, [ENext]_allvars
    PROVE  EInv'
<1>1. Typed' /\ NoZombies'
  BY GatewayStep, TypedNext, NoZombiesNext DEF EInv
<1> USE DEF EInv
<1>2. ASSUME NEW c \in Calls, JoinEnter(c), TellEntered(call[c])
      PROVE  Handlers' /\ ETyped' /\ Events'
  BY <1>2, EnteredKeeps
<1>3. ASSUME NEW c \in Calls, WriteCount(c), TellCounted(call[c])
      PROVE  Handlers' /\ ETyped' /\ Events'
  BY <1>3, CountedKeeps
<1>4. ASSUME NEW c \in Calls, KickEvict(c), TellKicked(call[c])
      PROVE  Handlers' /\ ETyped' /\ Events'
  BY <1>4, KickedKeeps
<1>5. ASSUME NEW c \in Calls, RemoteLeave(c), KickHeard(call[c]), UNCHANGED evars
      PROVE  Handlers' /\ ETyped' /\ Events'
  BY <1>5, RemoteKeeps
<1>6. ASSUME NEW c \in Calls, NEW n \in Nodes, FetchReply(c, n), SendAnswer(c)
      PROVE  Handlers' /\ ETyped' /\ Events'
  BY <1>6, ReplyKeeps
<1>7. ASSUME NEW c \in Calls, FetchTimeout(c) \/ WriteMissing(c), TellNobody(c)
      PROVE  Handlers' /\ ETyped' /\ Events'
  BY <1>7, FailKeeps
<1>8. ASSUME NEW c \in Calls, Silent(c), UNCHANGED evars
      PROVE  Handlers' /\ ETyped' /\ Events'
  BY <1>8, SilentKeeps
<1>9. ASSUME NEW s \in Sockets, Connect(s) \/ TuneUid(s) \/ Hook(s), UNCHANGED evars
      PROVE  Handlers' /\ ETyped' /\ Events'
  BY <1>9, TheRoom, ConnectKeeps
<1>10. ASSUME NEW s \in Sockets, Disconnect(s), Part(s)
       PROVE  Handlers' /\ ETyped' /\ Events'
  BY <1>10, DisconnectKeeps
<1>11. ASSUME NEW c \in Calls, NEW r \in Rooms, Asks(c, r)
       PROVE  Handlers' /\ ETyped' /\ Events'
  BY <1>11, AsksKeeps
<1>12. ASSUME NEW r \in Rooms, CreateRoom(r), UNCHANGED evars
       PROVE  Handlers' /\ ETyped' /\ Events'
  BY <1>12, CreateKeeps
<1>13. ASSUME NEW n \in Nodes, Deliver(n) PROVE Handlers' /\ ETyped' /\ Events'
  BY <1>13, DeliverKeeps
<1>14. ASSUME UNCHANGED allvars PROVE Handlers' /\ ETyped' /\ Events'
  <2>1. UNCHANGED <<stage, joined, call, asked, shown, inbox, amiss, untold, hidden>>
    BY <1>14 DEF allvars, vars, evars
  <2>2. Steady /\ Handlers' /\ Members' = Members
    BY <2>1 DEF Steady, Handlers, Members, Evicted, Halfway, Parting, Evicts, Leaves,
       Parts, Evicting, Apart, Over, Ordered
  <2>3. asked' \in 0 .. MaxRequests
    BY <2>1 DEF ETyped
  <2> QED
    BY <2>1, <2>2, <2>3, SteadyKeeps, QuietKeeps
<1>15. Handlers' /\ ETyped' /\ Events'
  BY <1>2, <1>3, <1>4, <1>5, <1>6, <1>7, <1>8, <1>9, <1>10, <1>11, <1>12, <1>13, <1>14 DEF ENext
<1> QED
  BY <1>1, <1>15

\* At rest no handler is to do anything to a socket, and no word is left.
LEMMA AtRestIs ==
    ASSUME AtRest
    PROVE  /\ \A s : ~Evicted(s) /\ ~Parting(s)
           /\ \A n \in Nodes : Mail(n) = {}
<1>1. \A c \in Calls : call[c] = Idle
  BY DEF AtRest
<1>2. \A n \in Nodes : Mail(n) = {}
  BY NoMore DEF AtRest, Mail
<1> QED
  BY <1>1, <1>2 DEF Evicted, Parting, Evicts, Parts, Evicting, Idle

\* The invariant holds throughout.
THEOREM EInvAlways == NobodysRoom /\ ESpec => []EInv
<1>1. NobodysRoom /\ EInv /\ [ENext]_allvars => EInv'
  BY EInvNext
<1>2. NobodysRoom => NobodysRoom'
  BY DEF NobodysRoom
<1> QED
  BY <1>1, <1>2, EInvInit, PTL DEF ESpec

\* The variables of the events keep their types.
THEOREM EventsTyped == NobodysRoom /\ ESpec => []EventsTypeOK
<1>1. EInv => EventsTypeOK
  <2> SUFFICES ASSUME ETyped PROVE EventsTypeOK
    BY DEF EInv
  <2>1. ASSUME NEW n \in Nodes PROVE Range(inbox[n]) \subseteq Packet \cup Answers
    <3>1. inbox[n] \in Seq(Posts)
      BY DEF ETyped
    <3>2. DOMAIN inbox[n] = 1 .. Len(inbox[n]) /\ \A i \in 1 .. Len(inbox[n]) : inbox[n][i] \in Posts
      BY <3>1, LenProperties, ElementOfSeq
    <3> QED
      BY <3>2 DEF Range, Posts
  <2> QED
    BY <2>1 DEF ETyped, EventsTypeOK
<1> QED
  BY <1>1, EInvAlways, PTL

\* Once the handlers are over and the packets have arrived, a member shows every
\* other member, but for a list that was out of date when its owner entered, and
\* for members whose leaving was told of although they are there.
THEOREM MembersAreShown == NobodysRoom /\ ESpec => []MembersShown
<1>1. EInv => MembersShown
  <2> SUFFICES ASSUME EInv, AtRest, NEW r \in Rooms, NEW t \in joined[r], NEW s \in joined[r],
                      s # t, s \notin amiss[t], s \notin hidden, t \notin hidden
               PROVE  s \in shown[t]
    BY DEF MembersShown
  <2>1. s \in Members \ hidden /\ t \in Members \ hidden
    BY TheRoom DEF Members
  <2>2. ~Evicted(s) /\ ~Evicted(t) /\ New(s) \notin Mail(NodeOf[t])
    BY <2>1, AtRestIs, MembersAre DEF EInv
  <2> QED
    BY <2>1, <2>2 DEF EInv, Events, Seen
<1> QED
  BY <1>1, EInvAlways, PTL

\* Then of two members at least one shows the other, however their joins
\* overlapped.
THEOREM OneOfTwoShowsTheOther == NobodysRoom /\ ESpec => []OneShowsOther
<1>1. EInv => OneShowsOther
  <2> SUFFICES ASSUME EInv, AtRest, NEW r \in Rooms, NEW t \in joined[r], NEW s \in joined[r],
                      s # t, s \notin hidden, t \notin hidden
               PROVE  s \in shown[t] \/ t \in shown[s]
    BY DEF OneShowsOther
  <2>1. s \in Members \ hidden /\ t \in Members \ hidden
    BY TheRoom DEF Members
  <2>2. /\ ~Evicted(s) /\ ~Evicted(t)
        /\ New(s) \notin Mail(NodeOf[t]) /\ New(t) \notin Mail(NodeOf[s])
    BY <2>1, AtRestIs, MembersAre DEF EInv
  <2>3. s \notin amiss[t] \/ t \notin amiss[s]
    BY <2>1 DEF EInv, Events, OneSided
  <2> QED
    BY <2>1, <2>2, <2>3 DEF EInv, Events, Seen
<1> QED
  BY <1>1, EInvAlways, PTL

\* Then a member shows somebody who is not there only if that one was on a list
\* that was out of date, or left with no word sent of it.
THEOREM GhostsAreExplained == NobodysRoom /\ ESpec => []GhostsExplained
<1>1. EInv => GhostsExplained
  <2> SUFFICES ASSUME EInv, AtRest, NEW r \in Rooms, NEW t \in joined[r], NEW s \in shown[t],
                      s \notin joined[r], s \notin amiss[t], s \notin untold
               PROVE  FALSE
    BY DEF GhostsExplained
  <2>1. t \in Members /\ t \in Sockets /\ s \notin Members /\ NodeOf[t] \in Nodes
    BY TheRoom, MembersAre DEF Members, EInv
  <2>2. s \in Sockets /\ t # s
    BY <2>1 DEF EInv, ETyped
  <2>3. Gone(s) /\ ~Parting(s) /\ Mail(NodeOf[t]) = {}
    BY <2>1, AtRestIs DEF Gone
  <2> QED
    BY <2>1, <2>2, <2>3 DEF EInv, Events, Ghosts
<1> QED
  BY <1>1, EInvAlways, PTL
==============================================================================
