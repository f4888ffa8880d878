---------------------------- MODULE PresenceProofs ----------------------------
(***************************************************************************)
(* Theorems about Presence, for any users, friendships and sockets on any  *)
(* set of nodes.                                                           *)
(*                                                                         *)
(* A queue is looked at as the set of what it holds (Range) and by what    *)
(* comes after what (After): the last command on a user's session, and the *)
(* last event on a friend, decide.                                         *)
(***************************************************************************)
EXTENDS Presence, SequenceTheorems, TLAPS

Commands == [op: {"save"}, user: Users, full: BOOLEAN, connection: Statuses]
            \cup [op: {"find", "messages"}, socket: Sockets]
            \cup [op: {"friend"}, socket: Sockets, user: Users]
            \cup [op: {"keep"}, message: Messages]

Packets == [on: {"status"}, user: Users, connection: Statuses]
           \cup [on: {"message"}, message: Messages]

Stages == {"new", "done", "refused", "failed"} \cup Connecting

Typed ==
    /\ sock \in [Sockets -> {"new", "open", "closed"}] /\ pc \in [Sockets -> Stages]
    /\ room \subseteq Sockets
    /\ list \in [Sockets -> [Users -> Statuses \cup {None}]]
    /\ told \in [Sockets -> [Users -> Statuses \cup {None}]]
    /\ read \in [Sockets -> SUBSET Messages] /\ got \in [Sockets -> SUBSET Messages]
    /\ due \in [Sockets -> SUBSET Messages] /\ kept \in [Users -> SUBSET Messages]
    /\ session \in [Users -> [uid: BOOLEAN, connection: Statuses \cup {None}]]
    /\ msg \in [Messages -> [from: Users \cup {None}, to: Users \cup {None}]]
    /\ store \in [Nodes -> Seq(Commands)] /\ bus \in [Nodes -> Seq(Packets)]
    /\ cut \in [Sockets -> {"no", "early", "late", "crash"}]
    /\ doubled \subseteq Users /\ lapsed \subseteq Users /\ dropped \subseteq Users
    /\ unsettled \in [Sockets -> SUBSET Users]

\* Past the save of the session.
Entered == {"messages", "friends", "sync", "done"}

\* How a socket, its handler and what has cut it off go together.
Staged ==
    \A s \in Sockets :
        /\ sock[s] = "new" <=> pc[s] = "new"
        /\ sock[s] # "closed" => cut[s] = "no"
        /\ sock[s] = "closed" /\ pc[s] \in {"verify", "nickname", "find"} => cut[s] = "early"
        /\ sock[s] = "closed" /\ pc[s] \in Connecting => cut[s] # "no"
        /\ s \in room => Open(s) /\ pc[s] \in Entered \cup {"failed"}
        /\ Open(s) /\ pc[s] \in Entered => s \in room
        /\ pc[s] \in Connecting \ {"sync"} => list[s] = Nothing
        /\ pc[s] = "new" => list[s] = Nothing
        /\ \A t \in Sockets : /\ Open(s) /\ Open(t) /\ s # t /\ Owner[s] = Owner[t]
                              => Owner[s] \in doubled

\* Some b comes after every a in the queue q.
After(q, A, B) == \A k \in DOMAIN q : q[k] \in A => \E l \in DOMAIN q : l > k /\ q[l] \in B
Once(q, A) == \A k, l \in DOMAIN q : q[k] \in A /\ q[l] \in A => k = l

Sent(m) == msg[m].from \in Users /\ msg[m].to \in Users
Came(u, n) == \E s \in SocketsOf(u) : NodeOf[s] = n /\ sock[s] # "new"
Asks(s) == {FindFriend(s, v) : v \in Users}

\* A node's commands are those of its own handlers, and a handler reads one
\* friend at a time.
Fits(i, n) ==
    /\ i.op \in {"find", "messages"} => NodeOf[i.socket] = n
    /\ i.op = "friend" => /\ NodeOf[i.socket] = n /\ pc[i.socket] = "sync"
                          /\ i.user \in FriendsOf(Owner[i.socket])
    /\ i.op = "save" => Came(i.user, n)
    /\ i.op = "keep" => Sent(i.message)

Errands ==
    \A n \in Nodes : /\ \A i \in Range(store[n]) : Fits(i, n)
                     /\ \A s \in Sockets : Once(store[n], Asks(s))

\* What is on the bus has been said on another node.
Comes(e, n) ==
    /\ e.on = "status" => \E x \in Nodes \ {n} : Came(e.user, x)
    /\ e.on = "message" => Sent(e.message)

Bused == \A n \in Nodes : \A e \in Range(bus[n]) : Comes(e, n)

\* A message is stored for both, as long as neither list has expired.
Stored ==
    /\ \A u, w \in Users : \A m \in kept[u] : Concerns(m, w) => m \in kept[w] \/ w \in dropped
    /\ \A u \in Users : \A m \in kept[u] : Sent(m)
    /\ \A s \in Sockets : \A m \in read[s] : Sent(m)

\* The message m of s will be shown once the handler is through.
WillShow(s, m) ==
    /\ Other(m, Owner[s]) \in FriendsOf(Owner[s])
    /\ \/ pc[s] = "messages" /\ m \in kept[Owner[s]]
       \/ pc[s] \in {"friends", "sync"} /\ m \in read[s]

\* What a client is owed it has, or it is on its way.
Owing ==
    \A s \in Sockets : \A m \in due[s] :
        /\ s \in room /\ Sent(m) /\ Concerns(m, Owner[s])
        /\ m \in got[s] \/ Direct(m) \in Range(bus[NodeOf[s]]) \/ WillShow(s, m)

Onlines(u) == {Save(u, f, "online") : f \in BOOLEAN}
Offlines(u) == {Save(u, f, "offline") : f \in BOOLEAN}
Fulls(u) == {Save(u, TRUE, c) : c \in Statuses}
Pending(n, A) == \E i \in A : i \in Range(store[n])

\* Somebody on n answers for an "online" of u.
Witness(u, n) ==
    \E s \in SocketsOf(u) : NodeOf[s] = n /\ \/ s \in room
                                             \/ cut[s] \in {"early", "crash"}

\* Whatever says online is answered for, or an "offline" comes after it.
Answered ==
    \A u \in Users :
        /\ \A n \in Nodes : Witness(u, n) \/ After(store[n], Onlines(u), Offlines(u))
        /\ session[u].connection = "online" =>
              \E n \in Nodes : Witness(u, n) \/ Pending(n, Offlines(u))

\* The last save of a user who has entered says online.
Saving ==
    \A s \in room : LET u == Owner[s] IN
        u \notin doubled \cup lapsed /\ OneNode(u) =>
            /\ After(store[NodeOf[s]], Offlines(u), Onlines(u))
            /\ session[u].connection = "online" \/ Pending(NodeOf[s], Onlines(u))
            /\ session[u].uid \/ Pending(NodeOf[s], Fulls(u))

Present(v) == \E t \in SocketsOf(v) : Open(t) /\ pc[t] = "done"
Inside(v) == \E t \in SocketsOf(v) : t \in room

\* A list is right about friends who have kept still.
Listing ==
    \A s \in Sockets : \A v \in FriendsOf(Owner[s]) :
        Open(s) /\ pc[s] \in Connecting /\ v \notin unsettled[s] =>
            /\ ~InMotion(v)
            /\ Regular(v) /\ list[s][v] # None => (list[s][v] = "online" <=> Inside(v))

Says(v, c) == {Status(v, c)}

\* The last that a client is told, or will be, is right.
Telling ==
    \A s \in Sockets : \A v \in FriendsOf(Owner[s]) :
        Open(s) /\ pc[s] = "done" /\ v \notin unsettled[s] /\ Regular(v) =>
            LET q == bus[NodeOf[s]] IN
            /\ Present(v) => /\ After(q, Says(v, "offline"), Says(v, "online"))
                             /\ told[s][v] = "online" \/ Status(v, "online") \in Range(q)
            /\ ~Inside(v) => /\ After(q, Says(v, "online"), Says(v, "offline"))
                             /\ told[s][v] # "online" \/ Status(v, "offline") \in Range(q)

IInv == /\ Typed /\ Staged /\ Errands /\ Bused /\ Stored /\ Owing
        /\ Answered /\ Saving /\ Listing /\ Telling
------------------------------------------------------------------------------
\* Queues.

\* The first item is taken from a queue.
LEMMA TailQueue ==
    ASSUME NEW S, NEW q \in Seq(S), q # <<>>
    PROVE  /\ Head(q) \in S /\ Head(q) \in Range(q) /\ Tail(q) \in Seq(S)
           /\ Range(Tail(q)) \subseteq Range(q)
           /\ Range(q) \subseteq Range(Tail(q)) \cup {Head(q)}
           /\ \A A, B : After(q, A, B) => After(Tail(q), A, B)
           /\ \A A, B : After(q, A, B) /\ Head(q) \in A => \E i \in B : i \in Range(Tail(q))
           /\ \A A : Once(q, A) => Once(Tail(q), A)
           /\ \A A : Once(q, A) /\ Head(q) \in A => \A i \in A : i \notin Range(Tail(q))
<1> DEFINE t == Tail(q)
<1>1. /\ Len(q) \in Nat \ {0} /\ DOMAIN q = 1..Len(q)
      /\ Head(q) = q[1] /\ Head(q) \in S
  BY EmptySeq, HeadTailProperties
<1>2. /\ t \in Seq(S) /\ Len(t) = Len(q) - 1
      /\ \A k \in 1..Len(t) : t[k] = q[k+1]
  BY HeadTailProperties
<1>3. DOMAIN t = 1..Len(t)
  BY <1>2, LenProperties
<1> HIDE DEF t
<1>4. \A k \in DOMAIN t : k + 1 \in DOMAIN q /\ t[k] = q[k+1]
  BY <1>1, <1>2, <1>3
<1>5. \A l \in DOMAIN q : l > 1 => l - 1 \in DOMAIN t /\ t[l - 1] = q[l]
  <2> SUFFICES ASSUME NEW l \in DOMAIN q, l > 1
               PROVE  l - 1 \in DOMAIN t /\ t[l - 1] = q[l]
    OBVIOUS
  <2>1. l - 1 \in 1..Len(t) /\ l = (l - 1) + 1
    BY <1>1, <1>2
  <2> QED
    BY <1>2, <1>3, <2>1
<1>6. 1 \in DOMAIN q /\ \A l \in DOMAIN q : l = 1 \/ l > 1
  BY <1>1
<1>7. /\ Range(t) \subseteq Range(q) /\ Range(q) \subseteq Range(t) \cup {Head(q)}
      /\ Head(q) \in Range(q)
  BY <1>1, <1>4, <1>5, <1>6 DEF Range
<1>8. ASSUME NEW A, NEW B, After(q, A, B)
      PROVE  /\ After(t, A, B)
             /\ Head(q) \in A => \E i \in B : i \in Range(t)
  <2>1. ASSUME NEW k \in DOMAIN t, t[k] \in A
        PROVE  \E l \in DOMAIN t : l > k /\ t[l] \in B
    <3>1. k + 1 \in DOMAIN q /\ q[k+1] \in A
      BY <1>4, <2>1
    <3>2. PICK l \in DOMAIN q : l > k + 1 /\ q[l] \in B
      BY <1>8, <3>1 DEF After
    <3>3. l > 1 /\ l - 1 > k
      BY <1>1, <1>3, <1>2, <3>2
    <3> QED
      BY <1>5, <3>2, <3>3
  <2>2. ASSUME Head(q) \in A PROVE \E i \in B : i \in Range(t)
    <3>1. PICK l \in DOMAIN q : l > 1 /\ q[l] \in B
      BY <1>1, <1>6, <1>8, <2>2 DEF After
    <3> QED
      BY <1>5, <3>1 DEF Range
  <2> QED
    BY <2>1, <2>2 DEF After
<1>9. ASSUME NEW A, Once(q, A)
      PROVE  /\ Once(t, A)
             /\ Head(q) \in A => \A i \in A : i \notin Range(t)
  <2>1. ASSUME NEW k \in DOMAIN t, NEW l \in DOMAIN t, t[k] \in A, t[l] \in A
        PROVE  k = l
    <3>1. k + 1 = l + 1
      BY <1>4, <1>9, <2>1 DEF Once
    <3> QED
      BY <1>2, <1>3, <3>1
  <2>2. ASSUME Head(q) \in A, NEW k \in DOMAIN t, t[k] \in A PROVE FALSE
    <3>1. 1 = k + 1
      BY <1>1, <1>4, <1>6, <1>9, <2>2 DEF Once
    <3> QED
      BY <1>2, <1>3, <3>1
  <2> QED
    BY <2>1, <2>2 DEF Once, Range
<1> QED
  BY <1>1, <1>2, <1>7, <1>8, <1>9 DEF t

\* Items are put at the end of a queue.
LEMMA ConcatQueue ==
    ASSUME NEW S, NEW q \in Seq(S), NEW x \in Seq(S)
    PROVE  /\ q \o x \in Seq(S)
           /\ Range(q \o x) = Range(q) \cup Range(x)
           /\ \A A, B : After(q, A, B) /\ (\A i \in A : i \notin Range(x))
                           => After(q \o x, A, B)
           /\ \A A, B : (\A i \in A : i \notin Range(x)) /\ (\E i \in B : i \in Range(x))
                           => After(q \o x, A, B)
           /\ \A A : Once(q, A) /\ (\A i \in A : i \notin Range(x)) => Once(q \o x, A)
           /\ \A A : Once(x, A) /\ (\A i \in A : i \notin Range(q)) => Once(q \o x, A)
<1> DEFINE t == q \o x
<1>1. /\ t \in Seq(S) /\ Len(q) \in Nat /\ Len(x) \in Nat /\ Len(t) = Len(q) + Len(x)
      /\ DOMAIN q = 1..Len(q) /\ DOMAIN x = 1..Len(x) /\ DOMAIN t = 1..Len(t)
      /\ \A i \in 1..Len(t) : t[i] = IF i <= Len(q) THEN q[i] ELSE x[i - Len(q)]
  BY ConcatProperties, LenProperties
<1> HIDE DEF t
<1>2. /\ \A k \in DOMAIN q : k \in DOMAIN t /\ t[k] = q[k]
      /\ \A k \in DOMAIN x : /\ Len(q) + k \in DOMAIN t /\ t[Len(q) + k] = x[k]
                             /\ \A l \in DOMAIN q : Len(q) + k > l
      /\ \A k \in DOMAIN t : \/ k \in DOMAIN q
                             \/ k - Len(q) \in DOMAIN x /\ t[k] = x[k - Len(q)]
  <2>1. \A k \in DOMAIN q : k \in DOMAIN t /\ t[k] = q[k]
    BY <1>1
  <2>2. ASSUME NEW k \in DOMAIN x
        PROVE  /\ Len(q) + k \in DOMAIN t /\ t[Len(q) + k] = x[k]
               /\ \A l \in DOMAIN q : Len(q) + k > l
    <3>1. k \in 1..Len(x) /\ Len(q) + k \in 1..Len(t) /\ ~(Len(q) + k <= Len(q))
          /\ (Len(q) + k) - Len(q) = k
      BY <1>1
    <3> QED
      BY <1>1, <3>1
  <2>3. ASSUME NEW k \in DOMAIN t, k \notin DOMAIN q
        PROVE  k - Len(q) \in DOMAIN x /\ t[k] = x[k - Len(q)]
    BY <1>1, <2>3
  <2> QED
    BY <2>1, <2>2, <2>3
<1>3. Range(t) = Range(q) \cup Range(x)
  <2>1. Range(t) \subseteq Range(q) \cup Range(x)
    BY <1>2 DEF Range
  <2>2. Range(q) \subseteq Range(t) /\ Range(x) \subseteq Range(t)
    BY <1>2 DEF Range
  <2> QED
    BY <2>1, <2>2
<1>4. ASSUME NEW A, \A i \in A : i \notin Range(x), NEW k \in DOMAIN t, t[k] \in A
      PROVE  k \in DOMAIN q /\ q[k] \in A
  BY <1>2, <1>4 DEF Range
<1>5. ASSUME NEW A, NEW B, After(q, A, B), \A i \in A : i \notin Range(x)
      PROVE  After(t, A, B)
  <2> SUFFICES ASSUME NEW k \in DOMAIN t, t[k] \in A
               PROVE  \E l \in DOMAIN t : l > k /\ t[l] \in B
    BY DEF After
  <2>1. k \in DOMAIN q /\ q[k] \in A
    BY <1>4, <1>5
  <2> QED
    BY <1>2, <1>5, <2>1 DEF After
<1>6. ASSUME NEW A, NEW B, \A i \in A : i \notin Range(x), \E i \in B : i \in Range(x)
      PROVE  After(t, A, B)
  <2> SUFFICES ASSUME NEW k \in DOMAIN t, t[k] \in A
               PROVE  \E l \in DOMAIN t : l > k /\ t[l] \in B
    BY DEF After
  <2>1. k \in DOMAIN q
    BY <1>4, <1>6
  <2>2. PICK j \in DOMAIN x : x[j] \in B
    BY <1>6 DEF Range
  <2> QED
    BY <1>2, <2>1, <2>2
<1>7. ASSUME NEW A, Once(q, A), \A i \in A : i \notin Range(x) PROVE Once(t, A)
  <2> SUFFICES ASSUME NEW k \in DOMAIN t, NEW l \in DOMAIN t, t[k] \in A, t[l] \in A
               PROVE  k = l
    BY DEF Once
  <2>1. k \in DOMAIN q /\ q[k] \in A /\ l \in DOMAIN q /\ q[l] \in A
    BY <1>4, <1>7
  <2> QED
    BY <1>7, <2>1 DEF Once
<1>8. ASSUME NEW A, Once(x, A), \A i \in A : i \notin Range(q) PROVE Once(t, A)
  <2> SUFFICES ASSUME NEW k \in DOMAIN t, NEW l \in DOMAIN t, t[k] \in A, t[l] \in A
               PROVE  k = l
    BY DEF Once
  <2>1. \A j \in DOMAIN q : t[j] \notin A
    BY <1>2, <1>8 DEF Range
  <2>2. /\ k - Len(q) \in DOMAIN x /\ t[k] = x[k - Len(q)]
        /\ l - Len(q) \in DOMAIN x /\ t[l] = x[l - Len(q)]
    BY <1>2, <2>1
  <2>3. k - Len(q) = l - Len(q)
    BY <1>8, <2>2 DEF Once
  <2> QED
    BY <1>1, <2>3
<1> QED
  BY <1>1, <1>3, <1>5, <1>6, <1>7, <1>8 DEF t

\* One item, and two.
LEMMA ShortQueues ==
    ASSUME NEW S, NEW a \in S, NEW b \in S
    PROVE  /\ <<a>> \in Seq(S) /\ Range(<<a>>) = {a}
           /\ <<a, b>> \in Seq(S) /\ Range(<<a, b>>) = {a, b}
           /\ \A A : Once(<<a>>, A)
           /\ <<>> \in Seq(S) /\ Range(<<>>) = {}
           /\ \A A, B : After(<<>>, A, B) /\ Once(<<>>, A)
<1>1. /\ <<a>> \in Seq(S) /\ DOMAIN <<a>> = {1} /\ <<a>>[1] = a
      /\ <<a, b>> \in Seq(S) /\ DOMAIN <<a, b>> = {1, 2}
      /\ <<a, b>>[1] = a /\ <<a, b>>[2] = b
  OBVIOUS
<1>2. <<>> \in Seq(S) /\ DOMAIN <<>> = {}
  OBVIOUS
<1>3. Range(<<a>>) = {a} /\ Range(<<a, b>>) = {a, b} /\ Range(<<>>) = {}
  BY <1>1, <1>2 DEF Range
<1>4. \A A : Once(<<a>>, A)
  BY <1>1 DEF Once
<1>5. \A A, B : After(<<>>, A, B) /\ Once(<<>>, A)
  BY <1>2 DEF After, Once
<1> QED
  BY <1>1, <1>2, <1>3, <1>4, <1>5

\* A queue of one item, whatever is asked of its items, ...
LEMMA SingleQueue ==
    ASSUME NEW S, NEW a \in S
    PROVE  \E x \in Seq(S) : x = <<a>> /\ Range(x) = {a} /\ \A A : Once(x, A)
<1>1. <<a>> \in Seq(S) /\ Range(<<a>>) = {a} /\ \A A : Once(<<a>>, A)
  BY ShortQueues, Zenon
<1> QED
  BY <1>1, Zenon

\* ... and of two.
Pair(x, a, b) == x = <<a, b>> /\ Range(x) = {a, b}

\* There is such a queue.
LEMMA PairQueue ==
    ASSUME NEW S, NEW a \in S, NEW b \in S
    PROVE  \E x \in Seq(S) : Pair(x, a, b)
<1>1. <<a, b>> \in Seq(S) /\ Range(<<a, b>>) = {a, b}
  BY ShortQueues, Zenon
<1> QED
  BY <1>1, Zenon DEF Pair

\* One item is put at the end of a queue.
LEMMA AppendQueue ==
    ASSUME NEW S, NEW q \in Seq(S), NEW a \in S
    PROVE  /\ Append(q, a) \in Seq(S)
           /\ Range(Append(q, a)) = Range(q) \cup {a}
           /\ \A A, B : After(q, A, B) /\ a \notin A => After(Append(q, a), A, B)
           /\ \A A, B : a \notin A /\ a \in B => After(Append(q, a), A, B)
           /\ \A A : Once(q, A) /\ a \notin A => Once(Append(q, a), A)
           /\ \A A : (\A i \in A : i \notin Range(q)) => Once(Append(q, a), A)
<1>1. Append(q, a) = q \o <<a>>
  BY AppendIsConcat
<1>2. /\ <<a>> \in Seq(S) /\ Range(<<a>>) = {a} /\ \A A : Once(<<a>>, A)
  BY ShortQueues, Zenon
<1>3. PICK x \in Seq(S) : x = <<a>>
  BY <1>2
<1>4. /\ q \o x \in Seq(S)
      /\ Range(q \o x) = Range(q) \cup Range(x)
      /\ \A A, B : After(q, A, B) /\ (\A i \in A : i \notin Range(x)) => After(q \o x, A, B)
      /\ \A A, B : (\A i \in A : i \notin Range(x)) /\ (\E i \in B : i \in Range(x))
                      => After(q \o x, A, B)
      /\ \A A : Once(q, A) /\ (\A i \in A : i \notin Range(x)) => Once(q \o x, A)
      /\ \A A : Once(x, A) /\ (\A i \in A : i \notin Range(q)) => Once(q \o x, A)
  BY ConcatQueue
<1>5. Append(q, a) = q \o x /\ Range(x) = {a} /\ \A A : Once(x, A)
  BY <1>1, <1>2, <1>3
<1> QED
  BY <1>4, <1>5
------------------------------------------------------------------------------
\* Commands and packets.

\* What a command and a packet consist of.
LEMMA Forms ==
    /\ \A u \in Users, f \in BOOLEAN, c \in Statuses :
          /\ Save(u, f, c) \in Commands /\ Save(u, f, c).op = "save"
          /\ Save(u, f, c).user = u /\ Save(u, f, c).full = f
          /\ Save(u, f, c).connection = c
    /\ \A s \in Sockets :
          /\ Find(s) \in Commands /\ Find(s).op = "find" /\ Find(s).socket = s
          /\ ReadMessages(s) \in Commands /\ ReadMessages(s).op = "messages"
          /\ ReadMessages(s).socket = s
          /\ \A v \in Users : /\ FindFriend(s, v) \in Commands
                              /\ FindFriend(s, v).op = "friend"
                              /\ FindFriend(s, v).socket = s /\ FindFriend(s, v).user = v
    /\ \A m \in Messages :
          /\ Keep(m) \in Commands /\ Keep(m).op = "keep" /\ Keep(m).message = m
          /\ Direct(m) \in Packets /\ Direct(m).on = "message" /\ Direct(m).message = m
    /\ \A u \in Users, c \in Statuses :
          /\ Status(u, c) \in Packets /\ Status(u, c).on = "status"
          /\ Status(u, c).user = u /\ Status(u, c).connection = c
  BY DEF Commands, Packets, Save, Find, ReadMessages, FindFriend, Keep, Direct, Status

\* The other way round.
LEMMA FormOf ==
    /\ \A i \in Commands :
          \/ /\ i.op = "save" /\ i.user \in Users /\ i.full \in BOOLEAN
             /\ i.connection \in Statuses /\ i = Save(i.user, i.full, i.connection)
          \/ i.op \in {"find", "messages"} /\ i.socket \in Sockets
          \/ i.op = "friend" /\ i.socket \in Sockets /\ i.user \in Users
             /\ i = FindFriend(i.socket, i.user)
          \/ i.op = "keep" /\ i.message \in Messages
    /\ \A e \in Packets :
          \/ /\ e.on = "status" /\ e.user \in Users /\ e.connection \in Statuses
             /\ e = Status(e.user, e.connection)
          \/ e.on = "message" /\ e.message \in Messages /\ e = Direct(e.message)
<1>1. \A i \in [op: {"save"}, user: Users, full: BOOLEAN, connection: Statuses] :
         /\ i.op = "save" /\ i.user \in Users /\ i.full \in BOOLEAN
         /\ i.connection \in Statuses /\ i = Save(i.user, i.full, i.connection)
  BY DEF Save
<1>2. \A i \in [op: {"find", "messages"}, socket: Sockets] :
         i.op \in {"find", "messages"} /\ i.socket \in Sockets
  OBVIOUS
<1>3. \A i \in [op: {"friend"}, socket: Sockets, user: Users] :
         i.op = "friend" /\ i.socket \in Sockets /\ i.user \in Users
         /\ i = FindFriend(i.socket, i.user)
  BY DEF FindFriend
<1>4. \A i \in [op: {"keep"}, message: Messages] : i.op = "keep" /\ i.message \in Messages
  OBVIOUS
<1>5. \A i \in Commands :
         \/ i \in [op: {"save"}, user: Users, full: BOOLEAN, connection: Statuses]
         \/ i \in [op: {"find", "messages"}, socket: Sockets]
         \/ i \in [op: {"friend"}, socket: Sockets, user: Users]
         \/ i \in [op: {"keep"}, message: Messages]
  BY DEF Commands
<1>6. \A e \in [on: {"status"}, user: Users, connection: Statuses] :
         /\ e.on = "status" /\ e.user \in Users /\ e.connection \in Statuses
         /\ e = Status(e.user, e.connection)
  BY DEF Status
<1>7. \A e \in [on: {"message"}, message: Messages] :
         e.on = "message" /\ e.message \in Messages /\ e = Direct(e.message)
  BY DEF Direct
<1>8. \A e \in Packets : \/ e \in [on: {"status"}, user: Users, connection: Statuses]
                         \/ e \in [on: {"message"}, message: Messages]
  BY DEF Packets
<1> QED
  BY <1>1, <1>2, <1>3, <1>4, <1>5, <1>6, <1>7, <1>8

\* The sets of commands and packets that the invariant speaks of.
LEMMA SetForms ==
    /\ \A u \in Users :
          /\ \A i \in Onlines(u) \cup Offlines(u) \cup Fulls(u) : i.op = "save" /\ i.user = u
          /\ \A f \in BOOLEAN : /\ Save(u, f, "online") \in Onlines(u)
                                /\ Save(u, f, "online") \notin Offlines(u)
                                /\ Save(u, f, "offline") \in Offlines(u)
                                /\ Save(u, f, "offline") \notin Onlines(u)
          /\ Save(u, TRUE, "online") \in Fulls(u)
    /\ \A s \in Sockets : \A i \in Asks(s) : i.op = "friend" /\ i.socket = s
    /\ \A v \in Users, c, d \in Statuses :
          /\ \A e \in Says(v, c) : e.on = "status" /\ e.user = v /\ e.connection = c
          /\ Status(v, c) \in Says(v, c)
          /\ c # d => Status(v, c) \notin Says(v, d)
    /\ Statuses = {"online", "offline"}
<1>1. Statuses = {"online", "offline"}
  BY DEF Statuses
<1>2. ASSUME NEW u \in Users
      PROVE  /\ \A i \in Onlines(u) \cup Offlines(u) \cup Fulls(u) : i.op = "save" /\ i.user = u
             /\ \A f \in BOOLEAN : /\ Save(u, f, "online") \in Onlines(u)
                                   /\ Save(u, f, "online") \notin Offlines(u)
                                   /\ Save(u, f, "offline") \in Offlines(u)
                                   /\ Save(u, f, "offline") \notin Onlines(u)
             /\ Save(u, TRUE, "online") \in Fulls(u)
  <2>1. \A i \in Onlines(u) \cup Offlines(u) \cup Fulls(u) : i.op = "save" /\ i.user = u
    <3>1. \A i \in Onlines(u) : i.op = "save" /\ i.user = u
      BY <1>1, Forms DEF Onlines
    <3>2. \A i \in Offlines(u) : i.op = "save" /\ i.user = u
      BY <1>1, Forms DEF Offlines
    <3>3. \A i \in Fulls(u) : i.op = "save" /\ i.user = u
      BY DEF Fulls, Save
    <3> QED
      BY <3>1, <3>2, <3>3
  <2>2. \A i \in Onlines(u) : i.connection = "online"
    BY <1>1, Forms DEF Onlines
  <2>3. \A i \in Offlines(u) : i.connection = "offline"
    BY <1>1, Forms DEF Offlines
  <2>4. \A f \in BOOLEAN : /\ Save(u, f, "online").connection = "online"
                           /\ Save(u, f, "offline").connection = "offline"
    BY <1>1, Forms
  <2>5. /\ \A f \in BOOLEAN : /\ Save(u, f, "online") \in Onlines(u)
                              /\ Save(u, f, "offline") \in Offlines(u)
        /\ Save(u, TRUE, "online") \in Fulls(u)
    BY <1>1 DEF Onlines, Offlines, Fulls
  <2>6. "online" # "offline"
    OBVIOUS
  <2>7. \A f \in BOOLEAN : /\ Save(u, f, "online") \notin Offlines(u)
                           /\ Save(u, f, "offline") \notin Onlines(u)
    BY <2>2, <2>3, <2>4, <2>6, Zenon
  <2> QED
    BY <2>1, <2>5, <2>7
<1>3. ASSUME NEW s \in Sockets PROVE \A i \in Asks(s) : i.op = "friend" /\ i.socket = s
  BY DEF Asks, FindFriend
<1>4. ASSUME NEW v \in Users, NEW c \in Statuses, NEW d \in Statuses
      PROVE  /\ \A e \in Says(v, c) : e.on = "status" /\ e.user = v /\ e.connection = c
             /\ Status(v, c) \in Says(v, c)
             /\ c # d => Status(v, c) \notin Says(v, d)
  BY DEF Says, Status
<1> QED
  BY <1>1, <1>2, <1>3, <1>4

\* The store of n was q, what it was before or its tail, and has got x.
Put(n, q, x) ==
    /\ store' \in [Nodes -> Seq(Commands)]
    /\ \A y \in Nodes \ {n} : store'[y] = store[y]
    /\ Range(store'[n]) \subseteq Range(store[n]) \cup Range(x)
    /\ Range(x) \subseteq Range(store'[n])
    /\ \A i \in Range(store[n]) :
          \/ i \in Range(store'[n])
          \/ store[n] # <<>> /\ i = Head(store[n]) /\ q = Tail(store[n])
    /\ \A A, B : After(store[n], A, B) /\ (\A i \in A : i \notin Range(x))
                    => After(store'[n], A, B)
    /\ \A A, B : (\A i \in A : i \notin Range(x)) /\ (\E i \in B : i \in Range(x))
                    => After(store'[n], A, B)
    /\ \A A, B : After(store[n], A, B) /\ store[n] # <<>> /\ Head(store[n]) \in A
                 /\ q = Tail(store[n])
                    => \E i \in B : i \in Range(store'[n])
    /\ \A A : Once(store[n], A) /\ (\A i \in A : i \notin Range(x)) => Once(store'[n], A)
    /\ \A A : /\ Once(store[n], A) /\ store[n] # <<>> /\ Head(store[n]) \in A
              /\ q = Tail(store[n]) /\ \A i \in A : i \notin Range(x)
              => \A i \in A : i \notin Range(store'[n])
    /\ \A A : /\ Once(x, A)
              /\ \/ \A i \in A : i \notin Range(store[n])
                 \/ /\ store[n] # <<>> /\ q = Tail(store[n])
                    /\ Once(store[n], A) /\ Head(store[n]) \in A
              => Once(store'[n], A)

\* A node's store is read and written: it is q, what it was or its tail, and x.
LEMMA StorePut ==
    ASSUME Typed, NEW n \in Nodes, NEW x \in Seq(Commands), NEW q \in Seq(Commands),
           q = store[n] \/ (store[n] # <<>> /\ q = Tail(store[n])),
           store' = [store EXCEPT ![n] = q \o x]
    PROVE  Put(n, q, x)
<1>1. store[n] \in Seq(Commands) /\ store \in [Nodes -> Seq(Commands)]
  BY DEF Typed
<1> DEFINE took == store[n] # <<>> /\ q = Tail(store[n])
<1>2. /\ Range(q) \subseteq Range(store[n])
      /\ \A i \in Range(store[n]) : i \in Range(q) \/ (took /\ i = Head(store[n]))
      /\ \A A, B : After(store[n], A, B) => After(q, A, B)
      /\ \A A, B : After(store[n], A, B) /\ Head(store[n]) \in A /\ took
                      => \E i \in B : i \in Range(q)
      /\ \A A : Once(store[n], A) => Once(q, A)
      /\ \A A : Once(store[n], A) /\ Head(store[n]) \in A /\ took
                   => \A i \in A : i \notin Range(q)
  <2> DEFINE p == store[n]
  <2>1. CASE took
    <3>1. p \in Seq(Commands) /\ p # <<>> /\ q = Tail(p)
      BY <1>1, <2>1
    <3> HIDE DEF p
    <3>2. /\ Range(q) \subseteq Range(p) /\ Range(p) \subseteq Range(q) \cup {Head(p)}
          /\ \A A, B : After(p, A, B) => After(q, A, B)
          /\ \A A, B : After(p, A, B) /\ Head(p) \in A => \E i \in B : i \in Range(q)
          /\ \A A : Once(p, A) => Once(q, A)
          /\ \A A : Once(p, A) /\ Head(p) \in A => \A i \in A : i \notin Range(q)
      BY <3>1, TailQueue
    <3>3. /\ Range(q) \subseteq Range(p)
          /\ \A i \in Range(p) : i \in Range(q) \/ i = Head(p)
          /\ \A A, B : After(p, A, B) => After(q, A, B)
          /\ \A A, B : After(p, A, B) /\ Head(p) \in A => \E i \in B : i \in Range(q)
          /\ \A A : Once(p, A) => Once(q, A)
          /\ \A A : Once(p, A) /\ Head(p) \in A => \A i \in A : i \notin Range(q)
      BY <3>2
    <3> HIDE DEF took
    <3> QED
      BY <2>1, <3>3, Zenon DEF p
  <2>2. CASE ~took
    <3>1. q = p
      BY <2>2
    <3> HIDE DEF took, p
    <3>2. /\ Range(q) \subseteq Range(p)
          /\ \A i \in Range(p) : i \in Range(q)
          /\ \A A, B : After(p, A, B) => After(q, A, B)
          /\ \A A : Once(p, A) => Once(q, A)
      BY <3>1
    <3> QED
      BY <2>2, <3>2, Zenon DEF p
  <2> QED
    BY <2>1, <2>2
<1> HIDE DEF took
<1>3. /\ q \o x \in Seq(Commands)
      /\ Range(q \o x) = Range(q) \cup Range(x)
      /\ \A A, B : After(q, A, B) /\ (\A i \in A : i \notin Range(x)) => After(q \o x, A, B)
      /\ \A A, B : (\A i \in A : i \notin Range(x)) /\ (\E i \in B : i \in Range(x))
                      => After(q \o x, A, B)
      /\ \A A : Once(q, A) /\ (\A i \in A : i \notin Range(x)) => Once(q \o x, A)
      /\ \A A : Once(x, A) /\ (\A i \in A : i \notin Range(q)) => Once(q \o x, A)
  BY ConcatQueue
<1>4. /\ store' \in [Nodes -> Seq(Commands)] /\ store'[n] = q \o x
      /\ \A y \in Nodes \ {n} : store'[y] = store[y]
  BY <1>1, <1>3
<1>5. /\ Range(store'[n]) \subseteq Range(store[n]) \cup Range(x)
      /\ Range(x) \subseteq Range(store'[n])
      /\ \A i \in Range(store[n]) :
            i \in Range(store'[n]) \/ (took /\ i = Head(store[n]))
  BY <1>2, <1>3, <1>4
<1>6. /\ \A A, B : After(store[n], A, B) /\ (\A i \in A : i \notin Range(x))
                      => After(store'[n], A, B)
      /\ \A A, B : (\A i \in A : i \notin Range(x)) /\ (\E i \in B : i \in Range(x))
                      => After(store'[n], A, B)
      /\ \A A : Once(store[n], A) /\ (\A i \in A : i \notin Range(x)) => Once(store'[n], A)
  BY <1>2, <1>3, <1>4
<1>7. \A A, B : After(store[n], A, B) /\ Head(store[n]) \in A /\ took
                   => \E i \in B : i \in Range(store'[n])
  BY <1>2, <1>3, <1>4
<1>8. ASSUME NEW A, Once(x, A),
             \/ \A i \in A : i \notin Range(store[n])
             \/ took /\ Once(store[n], A) /\ Head(store[n]) \in A
      PROVE  Once(store'[n], A)
  <2>1. \A i \in A : i \notin Range(q)
    BY <1>2, <1>8
  <2> QED
    BY <1>3, <1>4, <1>8, <2>1
<1>9. \A A : Once(store[n], A) /\ took /\ Head(store[n]) \in A /\ (\A i \in A : i \notin Range(x))
                => \A i \in A : i \notin Range(store'[n])
  BY <1>2, <1>3, <1>4
<1> QED
  BY <1>4, <1>5, <1>6, <1>7, <1>8, <1>9, Zenon DEF took, Put

\* The store of n has lost its first command, if it was taken, and has got
\* those of X; of what a handler asks about friends it holds one at most.
Moved(n, X, taken) ==
    /\ taken \in BOOLEAN /\ (taken => store[n] # <<>>)
    /\ store' \in [Nodes -> Seq(Commands)]
    /\ \A y \in Nodes \ {n} : store'[y] = store[y]
    /\ Range(store'[n]) \subseteq Range(store[n]) \cup X
    /\ X \subseteq Range(store'[n])
    /\ \A i \in Range(store[n]) : i \in Range(store'[n]) \/ (taken /\ i = Head(store[n]))
    /\ \A A, B : After(store[n], A, B) /\ (\A i \in A : i \notin X) => After(store'[n], A, B)
    /\ \A A, B : (\A i \in A : i \notin X) /\ (\E i \in B : i \in X) => After(store'[n], A, B)
    /\ \A A, B : After(store[n], A, B) /\ taken /\ Head(store[n]) \in A
                    => \E i \in B : i \in Range(store'[n])
    /\ \A A : Once(store[n], A) /\ (\A i \in A : i \notin X) => Once(store'[n], A)
    /\ \A A : Once(store[n], A) /\ taken /\ Head(store[n]) \in A /\ (\A i \in A : i \notin X)
               => \A i \in A : i \notin Range(store'[n])
    /\ \A s \in Sockets :
          \/ \A i \in Asks(s) : i \notin Range(store[n])
          \/ taken /\ Once(store[n], Asks(s)) /\ Head(store[n]) \in Asks(s)
          => Once(store'[n], Asks(s))

\* A store that gets new items, and loses its first if one is taken.
LEMMA MovedBy ==
    ASSUME Typed, NEW n \in Nodes, NEW x \in Seq(Commands), NEW taken \in BOOLEAN,
           \A s \in Sockets : Once(x, Asks(s)), taken => store[n] # <<>>,
           store' = [store EXCEPT ![n] = (IF taken THEN Tail(store[n]) ELSE store[n]) \o x]
    PROVE  Moved(n, Range(x), taken)
<1> DEFINE q == IF taken THEN Tail(store[n]) ELSE store[n]
<1>1. store[n] \in Seq(Commands)
  BY DEF Typed
<1>2. q \in Seq(Commands)
  <2>1. taken => Tail(store[n]) \in Seq(Commands)
    BY <1>1, HeadTailProperties
  <2> QED
    BY <1>1, <2>1
<1>3. CASE taken
  <2>1. q = Tail(store[n]) /\ store[n] # <<>> /\ store' = [store EXCEPT ![n] = q \o x]
    BY <1>3
  <2> HIDE DEF q
  <2>2. Put(n, q, x)
    <3>1. q = store[n] \/ (store[n] # <<>> /\ q = Tail(store[n]))
      BY <2>1
    <3> QED
      BY <1>2, <2>1, <3>1, StorePut, Zenon
  <2> QED
    BY <1>3, <2>1, <2>2, Zenon DEF Moved, Put
<1>4. CASE ~taken
  <2>1. q = store[n] /\ store' = [store EXCEPT ![n] = q \o x]
    BY <1>4
  <2> HIDE DEF q
  <2>2. /\ store' \in [Nodes -> Seq(Commands)] /\ store'[n] = q \o x
        /\ \A y \in Nodes \ {n} : store'[y] = store[y]
    <3>1. q \o x \in Seq(Commands)
      BY <1>2, ConcatQueue
    <3>2. store \in [Nodes -> Seq(Commands)]
      BY DEF Typed
    <3> QED
      BY <2>1, <3>1, <3>2
  <2>3. /\ Range(q \o x) = Range(q) \cup Range(x)
        /\ \A A, B : After(q, A, B) /\ (\A i \in A : i \notin Range(x)) => After(q \o x, A, B)
        /\ \A A, B : (\A i \in A : i \notin Range(x)) /\ (\E i \in B : i \in Range(x))
                        => After(q \o x, A, B)
        /\ \A A : Once(q, A) /\ (\A i \in A : i \notin Range(x)) => Once(q \o x, A)
        /\ \A A : Once(x, A) /\ (\A i \in A : i \notin Range(q)) => Once(q \o x, A)
    BY <1>2, ConcatQueue
  <2> QED
    BY <1>4, <2>1, <2>2, <2>3 DEF Moved
<1> QED
  BY <1>3, <1>4

\* The forms in which the actions write it: one item is put, ...
LEMMA QueuedOne ==
    ASSUME Typed, NEW n \in Nodes, NEW i \in Commands, Queue(n, <<i>>)
    PROVE  Moved(n, {i}, FALSE)
<1>1. PICK x \in Seq(Commands) : x = <<i>> /\ Range(x) = {i} /\ \A A : Once(x, A)
  BY SingleQueue, Zenon
<1>2. store' = [store EXCEPT ![n] = (IF FALSE THEN Tail(store[n]) ELSE store[n]) \o x]
  BY <1>1 DEF Queue
<1>3. Moved(n, Range(x), FALSE)
  BY <1>1, <1>2, MovedBy
<1> QED
  BY <1>1, <1>3

\* ... Redis executes one, ...
LEMMA TookOne ==
    ASSUME Typed, NEW n \in Nodes, store[n] # <<>>,
           store' = [store EXCEPT ![n] = Tail(@)]
    PROVE  Moved(n, {}, TRUE)
<1>1. PICK x \in Seq(Commands) : x = <<>> /\ Range(x) = {} /\ \A A : Once(x, A)
  <2>1. <<>> \in Seq(Commands) /\ Range(<<>>) = {} /\ \A A : Once(<<>>, A)
    BY EmptySeq DEF Range, Once
  <2> QED
    BY <2>1
<1>2. Tail(store[n]) \in Seq(Commands)
  BY HeadTailProperties DEF Typed
<1>3. Tail(store[n]) \o <<>> = Tail(store[n])
  BY <1>2, ConcatEmptySeq
<1>4. store' = [store EXCEPT ![n] = (IF TRUE THEN Tail(store[n]) ELSE store[n]) \o x]
  BY <1>1, <1>3
<1>5. Moved(n, Range(x), TRUE)
  BY <1>1, <1>4, MovedBy
<1> QED
  BY <1>1, <1>5

\* ... executes one and gets one, ...
LEMMA TookAndAsked ==
    ASSUME Typed, NEW n \in Nodes, store[n] # <<>>, NEW i \in Commands,
           store' = [store EXCEPT ![n] = Append(Tail(@), i)]
    PROVE  Moved(n, {i}, TRUE)
<1>1. PICK x \in Seq(Commands) : x = <<i>> /\ Range(x) = {i} /\ \A A : Once(x, A)
  BY SingleQueue, Zenon
<1>2. Tail(store[n]) \in Seq(Commands)
  BY HeadTailProperties DEF Typed
<1>3. Append(Tail(store[n]), i) = Tail(store[n]) \o <<i>>
  BY <1>2, AppendIsConcat
<1>4. store' = [store EXCEPT ![n] = (IF TRUE THEN Tail(store[n]) ELSE store[n]) \o x]
  BY <1>1, <1>3
<1>5. Moved(n, Range(x), TRUE)
  BY <1>1, <1>4, MovedBy
<1> QED
  BY <1>1, <1>5

\* ... executes one and gets two.
LEMMA TookAndSaved ==
    ASSUME Typed, NEW n \in Nodes, store[n] # <<>>,
           NEW i \in Commands, NEW j \in Commands, i.op # "friend", j.op # "friend",
           store' = [store EXCEPT ![n] = Tail(@) \o <<i, j>>]
    PROVE  Moved(n, {i, j}, TRUE)
<1>0. PICK x \in Seq(Commands) : Pair(x, i, j)
  BY PairQueue, Zenon
<1>1. x = <<i, j>> /\ Range(x) = {i, j}
  BY <1>0, Zenon DEF Pair
<1>2. \A s \in Sockets : Once(x, Asks(s))
  <2>1. \A s \in Sockets : \A k \in DOMAIN x : x[k] \notin Asks(s)
    BY <1>1, SetForms DEF Range
  <2> QED
    BY <2>1 DEF Once
<1>3. store' = [store EXCEPT ![n] = (IF TRUE THEN Tail(store[n]) ELSE store[n]) \o x]
  BY <1>1
<1>4. Moved(n, Range(x), TRUE)
  BY <1>1, <1>2, <1>3, MovedBy
<1> QED
  BY <1>1, <1>4

\* What Redis executes next is a command.
LEMMA HeadCommand ==
    ASSUME Typed, NEW n \in Nodes, store[n] # <<>>
    PROVE  Head(store[n]) \in Commands /\ Head(store[n]) \in Range(store[n])
<1>1. store[n] \in Seq(Commands)
  BY DEF Typed
<1> QED
  BY <1>1, TailQueue

\* A packet is published, and arrives.
LEMMA Published ==
    ASSUME Typed, NEW n \in Nodes, NEW e \in Packets, Publish(n, e)
    PROVE  /\ bus' \in [Nodes -> Seq(Packets)] /\ bus'[n] = bus[n]
           /\ \A y \in Nodes : Range(bus'[y]) = Range(bus[y]) \cup IF y = n THEN {} ELSE {e}
           /\ \A y \in Nodes : \A A, B :
                 After(bus[y], A, B) /\ e \notin A => After(bus'[y], A, B)
           /\ \A y \in Nodes \ {n} : \A A, B : e \notin A /\ e \in B => After(bus'[y], A, B)
<1>1. ASSUME NEW y \in Nodes
      PROVE  /\ bus'[y] \in Seq(Packets)
             /\ Range(bus'[y]) = Range(bus[y]) \cup IF y = n THEN {} ELSE {e}
             /\ \A A, B : After(bus[y], A, B) /\ e \notin A => After(bus'[y], A, B)
             /\ y # n => \A A, B : e \notin A /\ e \in B => After(bus'[y], A, B)
  <2>1. PICK q \in Seq(Packets) : q = bus[y]
    BY DEF Typed
  <2>2. CASE y = n
    BY <2>1, <2>2 DEF Publish
  <2>3. CASE y # n
    <3>1. bus'[y] = Append(q, e)
      BY <2>1, <2>3 DEF Publish
    <3>2. /\ Append(q, e) \in Seq(Packets)
          /\ Range(Append(q, e)) = Range(q) \cup {e}
          /\ \A A, B : After(q, A, B) /\ e \notin A => After(Append(q, e), A, B)
          /\ \A A, B : e \notin A /\ e \in B => After(Append(q, e), A, B)
      BY AppendQueue
    <3> QED
      BY <2>1, <2>3, <3>1, <3>2
  <2> QED
    BY <2>2, <2>3
<1>2. bus' = [y \in Nodes |-> bus'[y]] /\ bus'[n] = bus[n]
  BY DEF Publish
<1>3. bus' \in [Nodes -> Seq(Packets)]
  BY <1>1, <1>2
<1> QED
  BY <1>1, <1>2, <1>3

\* ... and arrives.
LEMMA Arrived ==
    ASSUME Typed, NEW n \in Nodes, bus[n] # <<>>, bus' = [bus EXCEPT ![n] = Tail(@)]
    PROVE  /\ bus' \in [Nodes -> Seq(Packets)]
           /\ Head(bus[n]) \in Packets /\ Head(bus[n]) \in Range(bus[n])
           /\ \A y \in Nodes \ {n} : bus'[y] = bus[y]
           /\ \A y \in Nodes : Range(bus'[y]) \subseteq Range(bus[y])
           /\ \A e \in Range(bus[n]) : e \in Range(bus'[n]) \/ e = Head(bus[n])
           /\ \A y \in Nodes : \A A, B : After(bus[y], A, B) => After(bus'[y], A, B)
           /\ \A A, B : After(bus[n], A, B) /\ Head(bus[n]) \in A
                           => \E e \in B : e \in Range(bus'[n])
<1>1. PICK q \in Seq(Packets) : q = bus[n] /\ q # <<>>
  BY DEF Typed
<1>2. /\ Head(q) \in Packets /\ Head(q) \in Range(q) /\ Tail(q) \in Seq(Packets)
      /\ Range(Tail(q)) \subseteq Range(q)
      /\ Range(q) \subseteq Range(Tail(q)) \cup {Head(q)}
      /\ \A A, B : After(q, A, B) => After(Tail(q), A, B)
      /\ \A A, B : After(q, A, B) /\ Head(q) \in A => \E i \in B : i \in Range(Tail(q))
  BY <1>1, TailQueue
<1>3. /\ bus' \in [Nodes -> Seq(Packets)] /\ bus'[n] = Tail(q)
      /\ \A y \in Nodes \ {n} : bus'[y] = bus[y]
  BY <1>1, <1>2 DEF Typed
<1>4. \A y \in Nodes : Range(bus'[y]) \subseteq Range(bus[y])
  BY <1>1, <1>2, <1>3
<1>5. \A y \in Nodes : \A A, B : After(bus[y], A, B) => After(bus'[y], A, B)
  BY <1>1, <1>2, <1>3
<1> QED
  BY <1>1, <1>2, <1>3, <1>4, <1>5
------------------------------------------------------------------------------
\* What the actions do, in terms of the values before and after.

Views == [Users -> Statuses \cup {None}]

\* Whom an event reaches.
LEMMA ToldValues ==
    ASSUME NEW t \in [Sockets -> Views], NEW n \in Nodes, NEW u \in Users,
           NEW c \in Statuses, NEW ss \in SUBSET Sockets
    PROVE  /\ Told(t, n, Status(u, c), ss) \in [Sockets -> Views]
           /\ \A s \in Sockets, v \in Users :
                 Told(t, n, Status(u, c), ss)[s][v] =
                    IF Hearing(n, s) /\ s \in ss /\ v = u /\ u \in FriendsOf(Owner[s])
                    THEN c ELSE t[s][v]
<1>1. Status(u, c).user = u /\ Status(u, c).connection = c
  BY DEF Status
<1>2. Told(t, n, Status(u, c), ss) =
         [s \in Sockets |-> IF Hearing(n, s) /\ s \in ss /\ u \in FriendsOf(Owner[s])
                            THEN [t[s] EXCEPT ![u] = c] ELSE t[s]]
  BY <1>1 DEF Told
<1>3. \A s \in Sockets : t[s] \in Views /\ [t[s] EXCEPT ![u] = c] \in Views
  BY DEF Views
<1>4. \A s \in Sockets, v \in Users : [t[s] EXCEPT ![u] = c][v] = IF v = u THEN c ELSE t[s][v]
  BY <1>3 DEF Views
<1> QED
  BY <1>2, <1>3, <1>4

\* The empty view.
LEMMA NothingIs == Nothing \in Views /\ \A v \in Users : Nothing[v] = None
  BY DEF Nothing, Views

\* The two statuses.
LEMMA StatusesAre == Statuses = {"online", "offline"} /\ {"online", "offline"} \subseteq Statuses
  BY DEF Statuses

\* friend:sync-all and friend:connection, at the end of onConnection.
Ends(s, l) ==
    /\ pc' = [pc EXCEPT ![s] = "done"]
    /\ Publish(NodeOf[s], Status(Owner[s], "online"))
    /\ told' \in [Sockets -> Views]
    /\ \A x \in Sockets, v \in Users :
          told'[x][v] =
             IF Hearing(NodeOf[s], x) /\ x # s /\ v = Owner[s]
                /\ Owner[s] \in FriendsOf(Owner[x])
             THEN "online" ELSE IF x = s /\ Open(s) THEN l[v] ELSE told[x][v]
    /\ got' \in [Sockets -> SUBSET Messages]
    /\ \A x \in Sockets : got[x] \subseteq got'[x]
    /\ Open(s) => Shown(read[s], Owner[s]) \subseteq got'[s]
    /\ list' = [list EXCEPT ![s] = Nothing] /\ read' = [read EXCEPT ![s] = {}]

\* That is what Finish does.
LEMMA FinishFields ==
    ASSUME Typed, NEW s \in Sockets, NEW l \in Views, Finish(s, l)
    PROVE  Ends(s, l)
<1>1. PICK t \in [Sockets -> Views] : t = IF Open(s) THEN [told EXCEPT ![s] = l] ELSE told
  BY DEF Typed, Views
<1>2. /\ pc' = [pc EXCEPT ![s] = "done"]
      /\ Publish(NodeOf[s], Status(Owner[s], "online"))
      /\ told' = Told(t, NodeOf[s], Status(Owner[s], "online"), Sockets \ {s})
      /\ got' = IF Open(s) THEN [got EXCEPT ![s] = @ \cup Shown(read[s], Owner[s])] ELSE got
      /\ list' = [list EXCEPT ![s] = Nothing] /\ read' = [read EXCEPT ![s] = {}]
  BY <1>1 DEF Finish, Show
<1>3. Owner[s] \in Users /\ "online" \in Statuses
  BY OwnerType, StatusesAre
<1>4. /\ told' \in [Sockets -> Views]
      /\ \A x \in Sockets, v \in Users :
            told'[x][v] = IF Hearing(NodeOf[s], x) /\ x \in Sockets \ {s} /\ v = Owner[s]
                             /\ Owner[s] \in FriendsOf(Owner[x])
                          THEN "online" ELSE t[x][v]
  <2>1. PICK u \in Users, c \in Statuses, n \in Nodes, ss \in SUBSET Sockets :
           u = Owner[s] /\ c = "online" /\ n = NodeOf[s] /\ ss = Sockets \ {s}
    BY <1>3, NodeOfType
  <2>2. /\ Told(t, n, Status(u, c), ss) \in [Sockets -> Views]
        /\ \A x \in Sockets, v \in Users :
              Told(t, n, Status(u, c), ss)[x][v] =
                 IF Hearing(n, x) /\ x \in ss /\ v = u /\ u \in FriendsOf(Owner[x])
                 THEN c ELSE t[x][v]
    BY ToldValues
  <2> QED
    BY <1>2, <2>1, <2>2
<1>5. \A x \in Sockets, v \in Users : t[x][v] = IF x = s /\ Open(s) THEN l[v] ELSE told[x][v]
  BY <1>1 DEF Typed
<1>6. Shown(read[s], Owner[s]) \subseteq Messages
  BY DEF Shown, Typed
<1>7. /\ got' \in [Sockets -> SUBSET Messages]
      /\ \A x \in Sockets : got[x] \subseteq got'[x]
      /\ Open(s) => Shown(read[s], Owner[s]) \subseteq got'[s]
  BY <1>2, <1>6 DEF Typed
<1>8. ASSUME NEW x \in Sockets, NEW v \in Users
      PROVE  told'[x][v] = IF Hearing(NodeOf[s], x) /\ x # s /\ v = Owner[s]
                              /\ Owner[s] \in FriendsOf(Owner[x])
                           THEN "online" ELSE IF x = s /\ Open(s) THEN l[v] ELSE told[x][v]
  BY <1>4, <1>5
<1> QED
  BY <1>2, <1>4, <1>7, <1>8, Zenon DEF Ends

\* friend:connection 'offline', to all others.
Leaves(s) ==
    /\ Publish(NodeOf[s], Status(Owner[s], "offline"))
    /\ told' \in [Sockets -> Views]
    /\ \A x \in Sockets \ {s}, v \in Users :
          told'[x][v] =
             IF Hearing(NodeOf[s], x) /\ v = Owner[s]
                /\ Owner[s] \in FriendsOf(Owner[x])
             THEN "offline" ELSE told[x][v]

\* That is what GoodBye does.
LEMMA GoodByeFields ==
    ASSUME Typed, NEW s \in Sockets, GoodBye(s)
    PROVE  Leaves(s)
<1>1. PICK t \in [Sockets -> Views] : t = [told EXCEPT ![s] = Nothing]
  BY NothingIs DEF Typed, Views
<1>2. /\ Publish(NodeOf[s], Status(Owner[s], "offline"))
      /\ told' = Told(t, NodeOf[s], Status(Owner[s], "offline"), Sockets \ {s})
  BY <1>1 DEF GoodBye
<1>3. Owner[s] \in Users /\ "offline" \in Statuses
  BY OwnerType, StatusesAre
<1>4. /\ told' \in [Sockets -> Views]
      /\ \A x \in Sockets, v \in Users :
            told'[x][v] = IF Hearing(NodeOf[s], x) /\ x \in Sockets \ {s} /\ v = Owner[s]
                             /\ Owner[s] \in FriendsOf(Owner[x])
                          THEN "offline" ELSE t[x][v]
  <2>1. PICK u \in Users, c \in Statuses, n \in Nodes, ss \in SUBSET Sockets :
           u = Owner[s] /\ c = "offline" /\ n = NodeOf[s] /\ ss = Sockets \ {s}
    BY <1>3, NodeOfType
  <2>2. /\ Told(t, n, Status(u, c), ss) \in [Sockets -> Views]
        /\ \A x \in Sockets, v \in Users :
              Told(t, n, Status(u, c), ss)[x][v] =
                 IF Hearing(n, x) /\ x \in ss /\ v = u /\ u \in FriendsOf(Owner[x])
                 THEN c ELSE t[x][v]
    BY ToldValues
  <2> QED
    BY <1>2, <2>1, <2>2
<1>5. \A x \in Sockets \ {s}, v \in Users : t[x][v] = told[x][v]
  BY <1>1 DEF Typed
<1> QED
  BY <1>2, <1>4, <1>5 DEF Leaves

\* Redis executes n's save of u's session.
SavesAs(n, u, f, c) ==
    /\ store[n] # <<>> /\ Head(store[n]) = Save(u, f, c) /\ Moved(n, {}, TRUE)
    /\ session' \in [Users -> [uid: BOOLEAN, connection: Statuses \cup {None}]]
    /\ session'[u].uid = (session[u].uid \/ f) /\ session'[u].connection = c
    /\ \A w \in Users \ {u} : session'[w] = session[w]
    /\ UNCHANGED <<live, kept, msg, bus, client, tracks>>

\* That is what Saved does.
LEMMA SavedFields ==
    ASSUME Typed, NEW n \in Nodes, Saved(n)
    PROVE  \E u \in Users, f \in BOOLEAN, c \in Statuses : SavesAs(n, u, f, c)
<1>1. PICK i \in Commands :
         /\ i = Head(store[n]) /\ store[n] # <<>> /\ i.op = "save"
         /\ store' = [store EXCEPT ![n] = Tail(@)]
         /\ session' = [session EXCEPT ![i.user] = [uid |-> session[i.user].uid \/ i.full,
                                                    connection |-> i.connection]]
         /\ UNCHANGED <<live, kept, msg, bus, client, tracks>>
  BY HeadCommand DEF Saved, Take
<1>2. PICK u \in Users, f \in BOOLEAN, c \in Statuses :
         u = i.user /\ f = i.full /\ c = i.connection /\ i = Save(u, f, c)
  BY <1>1, FormOf
<1>3. Moved(n, {}, TRUE)
  BY <1>1, TookOne
<1> DEFINE r == [uid |-> session[u].uid \/ f, connection |-> c]
<1>4. /\ r \in [uid: BOOLEAN, connection: Statuses \cup {None}]
      /\ r.uid = (session[u].uid \/ f) /\ r.connection = c
  BY DEF Typed
<1>5. session' = [session EXCEPT ![u] = r]
  BY <1>1, <1>2
<1> HIDE DEF r
<1>6. /\ session' \in [Users -> [uid: BOOLEAN, connection: Statuses \cup {None}]]
      /\ session'[u] = r /\ \A w \in Users \ {u} : session'[w] = session[w]
  BY <1>4, <1>5 DEF Typed
<1>7. Head(store[n]) = Save(u, f, c)
  BY <1>1, <1>2
<1>8. session'[u].uid = (session[u].uid \/ f) /\ session'[u].connection = c
  BY <1>4, <1>6
<1>9. UNCHANGED <<live, kept, msg, bus, client, tracks>> /\ store[n] # <<>>
  BY <1>1
<1>10. SavesAs(n, u, f, c)
  BY <1>3, <1>6, <1>7, <1>8, <1>9 DEF SavesAs
<1> QED
  BY <1>10

\* The session of s is read on n, and saved again.
FindsFor(n, s, f) ==
    /\ store[n] # <<>> /\ Head(store[n]).op = "find" /\ NodeOf[s] = n
    /\ f = ~session[Owner[s]].uid
    /\ Moved(n, {Save(Owner[s], f, "online"), ReadMessages(s)}, TRUE)
    /\ pc[s] = "find" /\ pc' = [pc EXCEPT ![s] = "messages"]
    /\ room' = IF Open(s) THEN room \cup {s} ELSE room
    /\ Owed(s)
    /\ UNCHANGED <<sock, list, read, redis, bus, client, cut, doubled, lapsed, dropped>>

\* That is what Found does.
LEMMA FoundFields ==
    ASSUME Typed, Errands, NEW n \in Nodes, Found(n)
    PROVE  \E s \in Sockets, f \in BOOLEAN : FindsFor(n, s, f)
<1> DEFINE i == Head(store[n])
<1>1. store[n] # <<>> /\ i.op = "find"
  BY DEF Found
<1>2. i \in Commands /\ i \in Range(store[n])
  BY <1>1, HeadCommand
<1>3. PICK s \in Sockets : s = i.socket /\ NodeOf[s] = n
  BY <1>1, <1>2, FormOf DEF Errands, Fits
<1>4. PICK f \in BOOLEAN : f = ~session[Owner[s]].uid
  BY OwnerType DEF Typed
<1>5. /\ store' = [store EXCEPT ![n] = Tail(@) \o
                     <<Save(Owner[s], f, "online"), ReadMessages(s)>>]
      /\ pc[s] = "find" /\ pc' = [pc EXCEPT ![s] = "messages"]
      /\ room' = IF Open(s) THEN room \cup {s} ELSE room
      /\ Owed(s)
      /\ UNCHANGED <<sock, list, read, redis, bus, client, cut, doubled, lapsed, dropped>>
  BY <1>3, <1>4 DEF Found, Move
<1>6. /\ Save(Owner[s], f, "online") \in Commands /\ Save(Owner[s], f, "online").op = "save"
      /\ ReadMessages(s) \in Commands /\ ReadMessages(s).op = "messages"
  BY OwnerType, StatusesAre, Forms
<1>7. Moved(n, {Save(Owner[s], f, "online"), ReadMessages(s)}, TRUE)
  BY <1>1, <1>5, <1>6, TookAndSaved
<1>8. FindsFor(n, s, f)
  BY <1>1, <1>3, <1>4, <1>5, <1>7 DEF FindsFor
<1> QED
  BY <1>8

\* The messages of the user of s are read on n.
ReadsFor(n, s) ==
    /\ store[n] # <<>> /\ Head(store[n]).op = "messages" /\ Moved(n, {}, TRUE)
    /\ NodeOf[s] = n
    /\ pc[s] = "messages" /\ pc' = [pc EXCEPT ![s] = "friends"]
    /\ read' = [read EXCEPT ![s] = kept[Owner[s]]]
    /\ UNCHANGED <<sock, room, list, redis, bus, client, tracks>>

\* That is what MessagesRead does.
LEMMA MessagesReadFields ==
    ASSUME Typed, Errands, NEW n \in Nodes, MessagesRead(n)
    PROVE  \E s \in Sockets : ReadsFor(n, s)
<1>1. /\ store[n] # <<>> /\ Head(store[n]).op = "messages"
      /\ store' = [store EXCEPT ![n] = Tail(@)]
  BY DEF MessagesRead, Take
<1>2. PICK s \in Sockets : s = Head(store[n]).socket /\ NodeOf[s] = n
  BY <1>1, HeadCommand, FormOf DEF Errands, Fits
<1>3. Moved(n, {}, TRUE)
  BY <1>1, TookOne
<1>4. ReadsFor(n, s)
  BY <1>1, <1>2, <1>3 DEF MessagesRead, Move, ReadsFor
<1> QED
  BY <1>4

\* The handler of s has the token verified, or comes to its catch.
Turns(s) ==
    /\ s \in Sockets /\ pc[s] \in Connecting
    /\ \/ /\ pc[s] = "verify" /\ pc' = [pc EXCEPT ![s] = "nickname"]
          /\ UNCHANGED <<list, read, due>>
       \/ /\ pc' = [pc EXCEPT ![s] = IF pc[s] = "verify" THEN "refused" ELSE "failed"]
          /\ list' = [list EXCEPT ![s] = Nothing] /\ read' = [read EXCEPT ![s] = {}]
          /\ due' = [due EXCEPT ![s] = {}]
    /\ UNCHANGED <<sock, room, redis, bus, client, cut, doubled, lapsed, dropped>>

\* What the handler of s has asked Redis for is not answered.
Loses(n, s, v) ==
    /\ store[n] # <<>> /\ Head(store[n]).op \in {"find", "messages", "friend"}
    /\ Moved(n, {}, TRUE) /\ NodeOf[s] = n
    /\ pc[s] = "sync" => v \in Users /\ Head(store[n]) = FindFriend(s, v)

\* That is what VerifyToken, and ConnectionFails, do, ...
LEMMA TurnsFields ==
    ASSUME Typed, NEW s \in Sockets, ConnectionFails(s) \/ VerifyToken(s)
    PROVE  Turns(s) /\ pc[s] # "sync" /\ UNCHANGED store
<1>1. CASE ConnectionFails(s)
  BY <1>1 DEF ConnectionFails, GivesUp, Move, Turns, Connecting
<1>2. CASE VerifyToken(s)
  BY <1>2 DEF VerifyToken, Move, Turns, Connecting, tracks
<1> QED
  BY <1>1, <1>2

\* ... and what ReadFails does.
LEMMA ReadFailsFields ==
    ASSUME Typed, Errands, NEW n \in Nodes, ReadFails(n)
    PROVE  \E s, v : Turns(s) /\ Loses(n, s, v)
<1> DEFINE i == Head(store[n])
<1>1. /\ store[n] # <<>> /\ i.op \in {"find", "messages", "friend"}
      /\ store' = [store EXCEPT ![n] = Tail(@)]
  BY DEF ReadFails, Take
<1>2. i \in Commands /\ i \in Range(store[n])
  BY <1>1, HeadCommand
<1>3. PICK s \in Sockets : s = i.socket /\ NodeOf[s] = n
  BY <1>1, <1>2, FormOf DEF Errands, Fits
<1>4. Moved(n, {}, TRUE)
  BY <1>1, TookOne
<1>5. /\ \/ i.op = "find" /\ pc[s] = "find"
         \/ i.op = "messages" /\ pc[s] = "messages"
         \/ i.op = "friend" /\ pc[s] = "sync"
      /\ pc' = [pc EXCEPT ![s] = "failed"] /\ GivesUp(s)
  BY <1>3 DEF ReadFails, Take, Move
<1>6. Turns(s)
  BY <1>5 DEF Turns, GivesUp, Connecting
<1>7. i.op = "friend" => i.user \in Users /\ i = FindFriend(s, i.user)
  BY <1>2, <1>3, FormOf
<1>8. Loses(n, s, i.user)
  BY <1>1, <1>3, <1>4, <1>5, <1>7 DEF Loses
<1> QED
  BY <1>6, <1>8

\* The status of v is read on n for s, whose list becomes l; and the last.
ReadsFriend(n, s, v, l) ==
    /\ store[n] # <<>> /\ Head(store[n]) = FindFriend(s, v) /\ NodeOf[s] = n
    /\ pc[s] = "sync" /\ v \in FriendsOf(Owner[s])
    /\ l[v] = StatusOf(v) /\ \A w \in Users \ {v} : l[w] = list[s][w]
    /\ UNCHANGED <<sock, room, redis, tracks>>

ReadsNext(n, s, v, l) ==
    /\ ReadsFriend(n, s, v, l)
    /\ \E w \in FriendsOf(Owner[s]) : Moved(n, {FindFriend(s, w)}, TRUE)
    /\ list' = [list EXCEPT ![s] = l]
    /\ UNCHANGED <<pc, read, bus, client>>

ReadsLast(n, s, v, l) ==
    /\ ReadsFriend(n, s, v, l) /\ Moved(n, {}, TRUE)
    /\ Unread(s, l) = {} /\ Finish(s, l)

\* That is what FriendRead does.
LEMMA FriendReadFields ==
    ASSUME Typed, Errands, NEW n \in Nodes, FriendRead(n)
    PROVE  \E s \in Sockets, v \in Users, l \in Views :
              ReadsNext(n, s, v, l) \/ ReadsLast(n, s, v, l)
<1> DEFINE i == Head(store[n])
<1>1. store[n] # <<>> /\ i.op = "friend"
  BY DEF FriendRead
<1>2. i \in Commands /\ i \in Range(store[n])
  BY <1>1, HeadCommand
<1>3. PICK s \in Sockets, v \in Users :
         /\ s = i.socket /\ v = i.user /\ i = FindFriend(s, v)
         /\ NodeOf[s] = n /\ pc[s] = "sync" /\ v \in FriendsOf(Owner[s])
  BY <1>1, <1>2, FormOf DEF Errands, Fits
<1>4. list[s] \in Views /\ StatusOf(v) \in Statuses \cup {None}
  BY StatusesAre DEF Typed, Views, StatusOf
<1>5. PICK l \in Views : l = [list[s] EXCEPT ![v] = StatusOf(v)]
  BY <1>4 DEF Views
<1>6. l[v] = StatusOf(v) /\ \A w \in Users \ {v} : l[w] = list[s][w]
  BY <1>4, <1>5 DEF Views
<1>7. /\ UNCHANGED <<sock, room, redis, tracks>>
      /\ IF Unread(s, l) = {}
         THEN Finish(s, l) /\ store' = [store EXCEPT ![n] = Tail(@)]
         ELSE /\ \E w \in Unread(s, l) :
                   store' = [store EXCEPT ![n] = Append(Tail(@), FindFriend(s, w))]
              /\ list' = [list EXCEPT ![s] = l]
              /\ UNCHANGED <<pc, read, bus, client>>
  BY <1>3, <1>5 DEF FriendRead
<1>a. ReadsFriend(n, s, v, l)
  BY <1>1, <1>3, <1>6, <1>7 DEF ReadsFriend
<1>8. CASE Unread(s, l) = {}
  <2>1. Moved(n, {}, TRUE)
    BY <1>1, <1>7, <1>8, TookOne
  <2>2. ReadsLast(n, s, v, l)
    BY <1>a, <1>7, <1>8, <2>1 DEF ReadsLast
  <2> QED
    BY <2>2
<1>9. CASE Unread(s, l) # {}
  <2>1. PICK w \in Unread(s, l) :
           store' = [store EXCEPT ![n] = Append(Tail(@), FindFriend(s, w))]
    BY <1>7, <1>9
  <2>2. w \in FriendsOf(Owner[s]) /\ w \in Users
    BY <2>1 DEF Unread, FriendsOf
  <2>3. FindFriend(s, w) \in Commands
    BY <2>2, Forms
  <2>4. Moved(n, {FindFriend(s, w)}, TRUE)
    BY <1>1, <2>1, <2>3, TookAndAsked
  <2>5. ReadsNext(n, s, v, l)
    BY <1>a, <1>7, <1>9, <2>2, <2>4 DEF ReadsNext
  <2> QED
    BY <2>5
<1> QED
  BY <1>8, <1>9

\* s has no friends; the first of its friends is v.
Friendless(s) ==
    /\ pc[s] = "friends" /\ UNCHANGED <<sock, room, redis, tracks, store>>
    /\ FriendsOf(Owner[s]) = {} /\ Finish(s, list[s])

AsksFirst(s, v) ==
    /\ pc[s] = "friends" /\ UNCHANGED <<sock, room, redis, tracks>>
    /\ v \in FriendsOf(Owner[s]) /\ Moved(NodeOf[s], {FindFriend(s, v)}, FALSE)
    /\ pc' = [pc EXCEPT ![s] = "sync"]
    /\ UNCHANGED <<list, read, bus, client>>

\* That is what FriendsFound does.
LEMMA FriendsFoundFields ==
    ASSUME Typed, NEW s \in Sockets, FriendsFound(s)
    PROVE  Friendless(s) \/ \E v \in Users : AsksFirst(s, v)
<1>1. /\ pc[s] = "friends" /\ UNCHANGED <<sock, room, redis, tracks>>
      /\ \/ FriendsOf(Owner[s]) = {} /\ Finish(s, list[s]) /\ store' = store
         \/ /\ \E v \in FriendsOf(Owner[s]) : Queue(NodeOf[s], <<FindFriend(s, v)>>)
            /\ pc' = [pc EXCEPT ![s] = "sync"]
            /\ UNCHANGED <<list, read, bus, client>>
  BY DEF FriendsFound
<1>2. ASSUME NEW v \in FriendsOf(Owner[s]), Queue(NodeOf[s], <<FindFriend(s, v)>>)
      PROVE  v \in Users /\ Moved(NodeOf[s], {FindFriend(s, v)}, FALSE)
  <2>1. FindFriend(s, v) \in Commands /\ NodeOf[s] \in Nodes /\ v \in Users
    BY Forms, NodeOfType DEF FriendsOf
  <2> QED
    BY <1>2, <2>1, QueuedOne
<1> QED
  BY <1>1, <1>2 DEF Friendless, AsksFirst

\* Redis puts m into its two users' lists.
Keeps(n, m) ==
    /\ store[n] # <<>> /\ Head(store[n]).op = "keep" /\ Moved(n, {}, TRUE) /\ Sent(m)
    /\ kept' \in [Users -> SUBSET Messages]
    /\ \A u \in Users : kept'[u] = kept[u] \cup IF Concerns(m, u) THEN {m} ELSE {}
    /\ UNCHANGED <<live, session, msg, bus, client, tracks>>

\* That is what MessageKept does.
LEMMA MessageKeptFields ==
    ASSUME Typed, Errands, NEW n \in Nodes, MessageKept(n)
    PROVE  \E m \in Messages : Keeps(n, m)
<1>1. /\ store[n] # <<>> /\ Head(store[n]).op = "keep"
      /\ store' = [store EXCEPT ![n] = Tail(@)]
  BY DEF MessageKept, Take
<1>2. PICK m \in Messages : m = Head(store[n]).message /\ Sent(m)
  BY <1>1, HeadCommand, FormOf DEF Errands, Fits
<1>3. Moved(n, {}, TRUE)
  BY <1>1, TookOne
<1>4. /\ kept' = [u \in Users |-> IF Concerns(m, u) THEN kept[u] \cup {m} ELSE kept[u]]
      /\ UNCHANGED <<live, session, msg, bus, client, tracks>>
  BY <1>2 DEF MessageKept, Kept, Concerns
<1>5. /\ kept' \in [Users -> SUBSET Messages]
      /\ \A u \in Users : kept'[u] = kept[u] \cup IF Concerns(m, u) THEN {m} ELSE {}
  BY <1>4 DEF Typed
<1>6. Keeps(n, m)
  BY <1>1, <1>2, <1>3, <1>4, <1>5 DEF Keeps
<1> QED
  BY <1>6
------------------------------------------------------------------------------
\* The steps, each with the socket, node, users and message it is about.
Act(s, n, u, v, m) ==
    \/ s \in Sockets /\ Connect(s)
    \/ s \in Sockets /\ (ConnectionFails(s) \/ VerifyToken(s))
    \/ s \in Sockets /\ NicknameFound(s)
    \/ s \in Sockets /\ FriendsFound(s)
    \/ s \in Sockets /\ Disconnect(s)
    \/ s \in Sockets /\ v \in Users /\ m \in Messages /\ SendMessage(s, v, m)
    \/ n \in Nodes /\ Saved(n)
    \/ n \in Nodes /\ Found(n)
    \/ n \in Nodes /\ MessagesRead(n)
    \/ n \in Nodes /\ FriendRead(n)
    \/ n \in Nodes /\ ReadFails(n)
    \/ n \in Nodes /\ MessageKept(n)
    \/ n \in Nodes /\ Arrive(n)
    \/ n \in Nodes /\ Crash(n)
    \/ u \in Users /\ Expire(u)
    \/ u \in Users /\ ExpireMessages(u)

\* Every step is one of them.
LEMMA StepIsAct ==
    ASSUME Step PROVE \E s, n, u, v, m : Act(s, n, u, v, m)
<1>1. \/ \E s \in Sockets : Client(s)
      \/ \E n \in Nodes : Redis(n) \/ Arrive(n) \/ Crash(n)
      \/ \E u \in Users : Expire(u) \/ ExpireMessages(u)
  BY DEF Step
<1>2. ASSUME NEW s \in Sockets, Client(s) PROVE \E n, u, v, m : Act(s, n, u, v, m)
  BY <1>2 DEF Client, Act
<1>3. ASSUME NEW n \in Nodes, Redis(n) \/ Arrive(n) \/ Crash(n)
      PROVE  \E s, u, v, m : Act(s, n, u, v, m)
  BY <1>3 DEF Redis, Act
<1>4. ASSUME NEW u \in Users, Expire(u) \/ ExpireMessages(u)
      PROVE  \E s, n, v, m : Act(s, n, u, v, m)
  BY <1>4 DEF Act
<1> QED
  BY <1>1, <1>2, <1>3, <1>4

\* What a client is sent, and what is published, has its type.
LEMMA SentTypes ==
    ASSUME Typed
    PROVE  /\ \A u \in Users, c \in Statuses : Status(u, c) \in Packets
           /\ \A n, m, pair : m \in Messages => Got(n, m, pair) \in [Sockets -> SUBSET Messages]
  BY DEF Status, Packets, Got, Typed

\* Where the socket's user and node are.
LEMMA Places ==
    ASSUME NEW s \in Sockets
    PROVE  Owner[s] \in Users /\ NodeOf[s] \in Nodes /\ s \in SocketsOf(Owner[s])
  BY OwnerType, NodeOfType DEF SocketsOf

\* The types are kept.
LEMMA TypedKept ==
    ASSUME Typed, Errands, Track, NEW s, NEW n, NEW u, NEW v, NEW m, Act(s, n, u, v, m)
    PROVE  Typed'
<1>0. unsettled' \in [Sockets -> SUBSET Users]
  <2>1. \A x \in Sockets : {w \in FriendsOf(Owner[x]) : InMotion(w)'} \subseteq Users
    BY DEF FriendsOf
  <2> DEFINE New(x) == {w \in FriendsOf(Owner[x]) : InMotion(w)'}
  <2>2. \A x \in Sockets : New(x) \subseteq Users
    BY <2>1
  <2>3. unsettled' = [x \in Sockets |->
                        IF sock'[x] # "open" THEN {}
                        ELSE IF pc'[x] \in Connecting THEN unsettled[x] \cup New(x)
                        ELSE unsettled[x]]
    BY DEF Track
  <2> HIDE DEF New
  <2> QED
    BY <2>2, <2>3 DEF Typed
<1> USE DEF Stages, Connecting
<1>1. CASE s \in Sockets /\ Connect(s)
  <2>1. doubled' \subseteq Users
    BY <1>1, Places DEF Connect, Typed
  <2> QED
    BY <1>0, <1>1, <2>1 DEF Connect, Move, Typed, redis, client
<1>t. ASSUME NEW x, Turns(x), store' \in [Nodes -> Seq(Commands)] PROVE Typed'
  <2>1. /\ pc' \in [Sockets -> Stages] /\ list' \in [Sockets -> Views]
        /\ read' \in [Sockets -> SUBSET Messages] /\ due' \in [Sockets -> SUBSET Messages]
    <3>1. x \in Sockets /\ pc \in [Sockets -> Stages] /\ list \in [Sockets -> Views]
          /\ read \in [Sockets -> SUBSET Messages] /\ due \in [Sockets -> SUBSET Messages]
      BY <1>t DEF Turns, Typed, Views
    <3>2. \/ pc' = [pc EXCEPT ![x] = "nickname"] /\ UNCHANGED <<list, read, due>>
          \/ /\ pc' = [pc EXCEPT ![x] = IF pc[x] = "verify" THEN "refused" ELSE "failed"]
             /\ list' = [list EXCEPT ![x] = Nothing] /\ read' = [read EXCEPT ![x] = {}]
             /\ due' = [due EXCEPT ![x] = {}]
      BY <1>t DEF Turns
    <3> QED
      BY <3>1, <3>2, NothingIs
  <2> QED
    BY <1>0, <1>t, <2>1 DEF Turns, Typed, redis, client, Views
<1>2. CASE s \in Sockets /\ (ConnectionFails(s) \/ VerifyToken(s))
  BY <1>2, <1>t, TurnsFields DEF Typed
<1>3. CASE s \in Sockets /\ NicknameFound(s)
  <2>1. Moved(NodeOf[s], {Find(s)}, FALSE)
    BY <1>3, Places, Forms, QueuedOne DEF NicknameFound
  <2>2. store' \in [Nodes -> Seq(Commands)]
    BY <2>1 DEF Moved
  <2> QED
    BY <1>0, <1>3, <2>2 DEF NicknameFound, Move, Typed, redis, client, tracks
<1>16. CASE n \in Nodes /\ ReadFails(n)
  <2>1. PICK x, w : Turns(x) /\ Loses(n, x, w)
    BY <1>16, ReadFailsFields
  <2>2. store' \in [Nodes -> Seq(Commands)]
    BY <2>1 DEF Moved, Loses
  <2> QED
    BY <1>t, <2>1, <2>2
<1>f. ASSUME NEW x \in Sockets, NEW l \in Views, Finish(x, l),
             UNCHANGED <<sock, room, redis, tracks>>, store' \in [Nodes -> Seq(Commands)]
      PROVE  Typed'
  <2>1. /\ pc' = [pc EXCEPT ![x] = "done"]
        /\ Publish(NodeOf[x], Status(Owner[x], "online"))
        /\ told' \in [Sockets -> Views] /\ got' \in [Sockets -> SUBSET Messages]
        /\ list' = [list EXCEPT ![x] = Nothing] /\ read' = [read EXCEPT ![x] = {}]
    BY <1>f, FinishFields DEF Ends
  <2>2. Status(Owner[x], "online") \in Packets
    BY Places, SentTypes, StatusesAre
  <2>3. bus' \in [Nodes -> Seq(Packets)]
    BY <2>1, <2>2, Places, Published
  <2> QED
    BY <1>0, <1>f, <2>1, <2>3, NothingIs DEF Typed, redis, tracks, Views
<1>4. CASE s \in Sockets /\ FriendsFound(s)
  <2>1. CASE Friendless(s)
    <3>1. list[s] \in Views /\ store' \in [Nodes -> Seq(Commands)]
      BY <1>4, <2>1 DEF Typed, Views, Friendless
    <3> QED
      BY <1>4, <1>f, <2>1, <3>1 DEF Friendless
  <2>2. CASE \E w \in Users : AsksFirst(s, w)
    <3>1. store' \in [Nodes -> Seq(Commands)]
      BY <2>2 DEF Moved, AsksFirst
    <3> QED
      BY <1>0, <2>2, <3>1 DEF Typed, redis, client, tracks, AsksFirst
  <2> QED
    BY <1>4, <2>1, <2>2, FriendsFoundFields
<1>5. CASE s \in Sockets /\ Disconnect(s)
  <2>1. store' \in [Nodes -> Seq(Commands)]
    <3>1. CASE Known(s)
      <4>1. Moved(NodeOf[s], {Save(Owner[s], FALSE, "offline")}, FALSE)
        BY <1>5, <3>1, Places, Forms, QueuedOne, StatusesAre DEF Disconnect
      <4> QED
        BY <4>1 DEF Moved
    <3> QED
      BY <1>5, <3>1 DEF Disconnect, Typed
  <2>2. bus' \in [Nodes -> Seq(Packets)] /\ told' \in [Sockets -> Views]
    <3>1. CASE Known(s)
      <4>1. GoodBye(s) /\ Status(Owner[s], "offline") \in Packets
        BY <1>5, <3>1, Places, SentTypes, StatusesAre DEF Disconnect
      <4>2. Publish(NodeOf[s], Status(Owner[s], "offline")) /\ told' \in [Sockets -> Views]
        BY <1>5, <4>1, GoodByeFields DEF Leaves
      <4>3. bus' \in [Nodes -> Seq(Packets)]
        BY <1>5, <4>1, <4>2, Published, Places
      <4> QED
        BY <4>2, <4>3
    <3> QED
      BY <1>5, <3>1, NothingIs DEF Disconnect, Typed, Views
  <2>3. Closing(s)
    BY <1>5 DEF Disconnect
  <2> QED
    BY <1>0, <1>5, <2>1, <2>2, <2>3 DEF Closing, Typed, redis, Views
<1>6. CASE s \in Sockets /\ v \in Users /\ m \in Messages /\ SendMessage(s, v, m)
  <2>1. Moved(NodeOf[s], {Keep(m)}, FALSE)
    BY <1>6, Places, Forms, QueuedOne DEF SendMessage
  <2>2. store' \in [Nodes -> Seq(Commands)]
    BY <2>1 DEF Moved
  <2>3. Publish(NodeOf[s], Direct(m)) /\ Direct(m) \in Packets
    BY <1>6, Forms DEF SendMessage
  <2>4. bus' \in [Nodes -> Seq(Packets)]
    BY <1>6, <2>3, Published, Places
  <2>5. got' \in [Sockets -> SUBSET Messages]
    BY <1>6, SentTypes DEF SendMessage
  <2>6. due' \in [Sockets -> SUBSET Messages]
    BY <1>6 DEF SendMessage, Typed
  <2>7. msg' \in [Messages -> [from: Users \cup {None}, to: Users \cup {None}]]
    BY <1>6, Places DEF SendMessage, Typed
  <2> QED
    BY <1>0, <1>6, <2>2, <2>4, <2>5, <2>6, <2>7 DEF SendMessage, Typed, live
<1>7. CASE n \in Nodes /\ Saved(n)
  <2>1. PICK w \in Users, f \in BOOLEAN, c \in Statuses : SavesAs(n, w, f, c)
    BY <1>7, SavedFields
  <2>2. store' \in [Nodes -> Seq(Commands)]
    BY <2>1 DEF Moved, SavesAs
  <2> QED
    BY <1>0, <2>1, <2>2 DEF Typed, live, client, tracks, SavesAs
<1>8. CASE n \in Nodes /\ Found(n)
  <2>1. PICK x \in Sockets, f \in BOOLEAN : FindsFor(n, x, f)
    BY <1>8, FoundFields
  <2>2. store' \in [Nodes -> Seq(Commands)]
    BY <2>1 DEF Moved, FindsFor
  <2>3. due' \in [Sockets -> SUBSET Messages]
    <3>1. \A ls \in SUBSET Users : UNION {kept[w] : w \in ls} \subseteq Messages
      BY DEF Typed
    <3>2. \A ls \in SUBSET Users :
             Shown({j \in UNION {kept[w] : w \in ls} : Concerns(j, Owner[x])}, Owner[x])
               \in SUBSET Messages
      BY <3>1 DEF Shown
    <3>3. (IF Owner[x] \in dropped THEN {Owner[x]} ELSE Users) \in SUBSET Users
      BY Places
    <3> QED
      BY <2>1, <3>2, <3>3 DEF Owed, Typed, FindsFor
  <2> QED
    BY <1>0, <2>1, <2>2, <2>3 DEF Typed, redis, client, FindsFor
<1>9. CASE n \in Nodes /\ MessagesRead(n)
  <2>1. PICK x \in Sockets : ReadsFor(n, x)
    BY <1>9, MessagesReadFields
  <2>2. store' \in [Nodes -> Seq(Commands)]
    BY <2>1 DEF Moved, ReadsFor
  <2> QED
    BY <1>0, <2>1, <2>2, Places DEF Typed, redis, client, tracks, ReadsFor
<1>10. CASE n \in Nodes /\ FriendRead(n)
  <2>1. PICK x \in Sockets, w \in Users, l \in Views :
           ReadsNext(n, x, w, l) \/ ReadsLast(n, x, w, l)
    BY <1>10, FriendReadFields
  <2>2. CASE ReadsNext(n, x, w, l)
    <3>1. store' \in [Nodes -> Seq(Commands)]
      BY <2>2 DEF Moved, ReadsNext
    <3> QED
      BY <1>0, <2>2, <3>1 DEF Typed, redis, client, tracks, Views, ReadsNext, ReadsFriend
  <2>3. CASE ReadsLast(n, x, w, l)
    <3>1. store' \in [Nodes -> Seq(Commands)]
      BY <2>3 DEF Moved, ReadsLast
    <3> QED
      BY <1>f, <2>3, <3>1 DEF ReadsLast, ReadsFriend
  <2> QED
    BY <2>1, <2>2, <2>3
<1>11. CASE n \in Nodes /\ MessageKept(n)
  <2>1. PICK j \in Messages : Keeps(n, j)
    BY <1>11, MessageKeptFields
  <2>2. store' \in [Nodes -> Seq(Commands)]
    BY <2>1 DEF Moved, Keeps
  <2> QED
    BY <1>0, <2>1, <2>2 DEF Typed, live, client, tracks, Keeps
<1>12. CASE n \in Nodes /\ Arrive(n)
  <2>1. bus' \in [Nodes -> Seq(Packets)] /\ Head(bus[n]) \in Packets
    BY <1>12, Arrived DEF Arrive
  <2>2. PICK e \in Packets : e = Head(bus[n])
    BY <2>1
  <2>3. told' \in [Sockets -> Views] /\ got' \in [Sockets -> SUBSET Messages]
    <3>1. CASE e.on = "status"
      <4>1. PICK w \in Users, c \in Statuses, ss \in SUBSET Sockets :
               e = Status(w, c) /\ ss = Sockets
        BY <3>1, FormOf
      <4>2. told' = Told(told, n, Status(w, c), ss) /\ got' = got
        BY <1>12, <2>2, <3>1, <4>1 DEF Arrive
      <4>3. told \in [Sockets -> Views]
        BY DEF Typed, Views
      <4>4. Told(told, n, Status(w, c), ss) \in [Sockets -> Views]
        BY <1>12, <4>3, ToldValues
      <4> QED
        BY <4>2, <4>4 DEF Typed
    <3>2. CASE e.on # "status"
      <4>1. e.message \in Messages
        BY <3>2, FormOf
      <4> QED
        BY <1>12, <2>2, <3>2, <4>1, SentTypes DEF Arrive, Typed, Views
    <3> QED
      BY <3>1, <3>2
  <2> QED
    BY <1>0, <1>12, <2>1, <2>3 DEF Arrive, Typed, live, redis, tracks, Views
<1>13. CASE n \in Nodes /\ Crash(n)
  <2>1. store' \in [Nodes -> Seq(Commands)] /\ bus' \in [Nodes -> Seq(Packets)]
    <3>1. <<>> \in Seq(Commands) /\ <<>> \in Seq(Packets)
      OBVIOUS
    <3> QED
      BY <1>13, <3>1 DEF Crash, Typed
  <2>2. told' \in [Sockets -> Views] /\ list' \in [Sockets -> Views]
    BY <1>13, NothingIs DEF Crash, Typed, Views
  <2>3. /\ got' \in [Sockets -> SUBSET Messages] /\ due' \in [Sockets -> SUBSET Messages]
        /\ read' \in [Sockets -> SUBSET Messages]
    BY <1>13 DEF Crash, Typed
  <2>4. sock' \in [Sockets -> {"new", "open", "closed"}] /\ pc' \in [Sockets -> Stages]
        /\ cut' \in [Sockets -> {"no", "early", "late", "crash"}] /\ room' \subseteq Sockets
    BY <1>13 DEF Crash, Typed
  <2>5. UNCHANGED <<redis, doubled, lapsed, dropped>>
    BY <1>13 DEF Crash
  <2> QED
    BY <1>0, <2>1, <2>2, <2>3, <2>4, <2>5 DEF Typed, redis, Views
<1>14. CASE u \in Users /\ Expire(u)
  <2>1. NoSession \in [uid: BOOLEAN, connection: Statuses \cup {None}]
    BY DEF NoSession
  <2> QED
    BY <1>0, <1>14, <2>1 DEF Expire, Typed, live, client
<1>15. CASE u \in Users /\ ExpireMessages(u)
  <2>1. due' \in [Sockets -> SUBSET Messages]
    BY <1>15 DEF ExpireMessages, Typed
  <2> QED
    BY <1>0, <1>15, <2>1 DEF ExpireMessages, Typed, live, client
<1> QED
  BY <1>1, <1>2, <1>3, <1>4, <1>5, <1>6, <1>7, <1>8, <1>9, <1>10, <1>11, <1>12, <1>13,
     <1>14, <1>15, <1>16 DEF Act
------------------------------------------------------------------------------
\* The steps as what they do to the queues and to the clients.

Verifies(s) ==
    /\ s \in Sockets /\ pc[s] = "nickname" /\ pc' = [pc EXCEPT ![s] = "find"]
    /\ Moved(NodeOf[s], {Find(s)}, FALSE)
    /\ UNCHANGED <<sock, room, list, read, redis, bus, client, tracks>>

PartsKnown(s) ==
    /\ s \in Sockets /\ Closing(s) /\ Known(s) /\ Leaves(s)
    /\ Moved(NodeOf[s], {Save(Owner[s], FALSE, "offline")}, FALSE)

PartsUnknown(s) ==
    /\ s \in Sockets /\ Closing(s) /\ ~Known(s)
    /\ told' = [told EXCEPT ![s] = Nothing] /\ UNCHANGED <<store, bus>>

Sends(s, v, m) ==
    /\ s \in Sockets /\ v \in Users /\ m \in Messages
    /\ SendMessage(s, v, m) /\ ~Sent(m)
    /\ Moved(NodeOf[s], {Keep(m)}, FALSE)

\* The event that v is c now arrives at n.
HearsStatus(n, v, c) ==
    /\ n \in Nodes /\ v \in Users /\ c \in Statuses
    /\ bus[n] # <<>> /\ Head(bus[n]) = Status(v, c) /\ bus' = [bus EXCEPT ![n] = Tail(@)]
    /\ \A x \in Sockets, w \in Users :
          told'[x][w] = IF Hearing(n, x) /\ w = v /\ v \in FriendsOf(Owner[x])
                        THEN c ELSE told[x][w]
    /\ UNCHANGED <<got, live, redis, store, tracks>>

HearsMessage(n, m) ==
    /\ n \in Nodes /\ m \in Messages
    /\ bus[n] # <<>> /\ Head(bus[n]) = Direct(m) /\ bus' = [bus EXCEPT ![n] = Tail(@)]
    /\ got' = Got(n, m, {msg[m].from, msg[m].to})
    /\ UNCHANGED <<told, live, redis, store, tracks>>

\* A step of the socket's own handler, of Redis, of the bus, or from outside.
Deed(s, n, u, v, m, f, c, l) ==
    \/ s \in Sockets /\ Connect(s)
    \/ Turns(s) /\ pc[s] # "sync" /\ UNCHANGED store
    \/ n \in Nodes /\ Turns(s) /\ Loses(n, s, v)
    \/ Verifies(s)
    \/ s \in Sockets /\ list[s] \in Views /\ Friendless(s)
    \/ s \in Sockets /\ v \in Users /\ AsksFirst(s, v)
    \/ PartsKnown(s) \/ PartsUnknown(s)
    \/ Sends(s, v, m)
    \/ n \in Nodes /\ u \in Users /\ f \in BOOLEAN /\ c \in Statuses /\ SavesAs(n, u, f, c)
    \/ n \in Nodes /\ s \in Sockets /\ f \in BOOLEAN /\ FindsFor(n, s, f)
    \/ n \in Nodes /\ s \in Sockets /\ ReadsFor(n, s)
    \/ n \in Nodes /\ s \in Sockets /\ v \in Users /\ l \in Views /\ ReadsNext(n, s, v, l)
    \/ n \in Nodes /\ s \in Sockets /\ v \in Users /\ l \in Views /\ ReadsLast(n, s, v, l)
    \/ n \in Nodes /\ m \in Messages /\ Keeps(n, m)
    \/ HearsStatus(n, v, c) \/ HearsMessage(n, m)
    \/ n \in Nodes /\ Crash(n)
    \/ u \in Users /\ Expire(u)
    \/ u \in Users /\ ExpireMessages(u)

\* Every step is one of them.
LEMMA StepIsDeed ==
    ASSUME Typed, Errands, NEW s, NEW n, NEW u, NEW v, NEW m, Act(s, n, u, v, m)
    PROVE  \E x, y, p, q, k, f, c, l : Deed(x, y, p, q, k, f, c, l)
<1>1. CASE s \in Sockets /\ Connect(s)
  BY <1>1 DEF Deed
<1>2. CASE s \in Sockets /\ (ConnectionFails(s) \/ VerifyToken(s))
  <2>1. Turns(s) /\ pc[s] # "sync" /\ UNCHANGED store
    BY <1>2, TurnsFields
  <2> QED
    BY <2>1 DEF Deed
<1>16. CASE n \in Nodes /\ ReadFails(n)
  <2>1. PICK x, w : Turns(x) /\ Loses(n, x, w)
    BY <1>16, ReadFailsFields
  <2> QED
    BY <1>16, <2>1 DEF Deed
<1>3. CASE s \in Sockets /\ NicknameFound(s)
  <2>1. Moved(NodeOf[s], {Find(s)}, FALSE)
    BY <1>3, Places, Forms, QueuedOne DEF NicknameFound
  <2>2. Verifies(s)
    BY <1>3, <2>1 DEF Verifies, NicknameFound, Move
  <2> QED
    BY <2>2 DEF Deed
<1>4. CASE s \in Sockets /\ FriendsFound(s)
  <2>1. list[s] \in Views
    BY <1>4 DEF Typed, Views
  <2>2. Friendless(s) \/ \E w \in Users : AsksFirst(s, w)
    BY <1>4, FriendsFoundFields
  <2> QED
    BY <1>4, <2>1, <2>2 DEF Deed
<1>5. CASE s \in Sockets /\ Disconnect(s)
  <2>1. CASE Known(s)
    <3>1. Moved(NodeOf[s], {Save(Owner[s], FALSE, "offline")}, FALSE)
      BY <1>5, <2>1, Places, Forms, QueuedOne, StatusesAre DEF Disconnect
    <3>2. Closing(s) /\ Leaves(s)
      BY <1>5, <2>1, GoodByeFields DEF Disconnect
    <3>3. PartsKnown(s)
      BY <1>5, <2>1, <3>1, <3>2 DEF PartsKnown
    <3> QED
      BY <3>3 DEF Deed
  <2>2. CASE ~Known(s)
    <3>1. PartsUnknown(s)
      BY <1>5, <2>2 DEF PartsUnknown, Disconnect
    <3> QED
      BY <3>1 DEF Deed
  <2> QED
    BY <2>1, <2>2
<1>6. CASE s \in Sockets /\ v \in Users /\ m \in Messages /\ SendMessage(s, v, m)
  <2>1. Moved(NodeOf[s], {Keep(m)}, FALSE)
    BY <1>6, Places, Forms, QueuedOne DEF SendMessage
  <2>2. ~Sent(m)
    BY <1>6, NoneIsNothing DEF SendMessage, Sent
  <2>3. Sends(s, v, m)
    BY <1>6, <2>1, <2>2 DEF Sends
  <2> QED
    BY <2>3 DEF Deed
<1>7. CASE n \in Nodes /\ Saved(n)
  <2>1. PICK w \in Users, f \in BOOLEAN, c \in Statuses : SavesAs(n, w, f, c)
    BY <1>7, SavedFields
  <2> QED
    BY <1>7, <2>1 DEF Deed
<1>8. CASE n \in Nodes /\ Found(n)
  <2>1. PICK x \in Sockets, f \in BOOLEAN : FindsFor(n, x, f)
    BY <1>8, FoundFields
  <2> QED
    BY <1>8, <2>1 DEF Deed
<1>9. CASE n \in Nodes /\ MessagesRead(n)
  <2>1. PICK x \in Sockets : ReadsFor(n, x)
    BY <1>9, MessagesReadFields
  <2> QED
    BY <1>9, <2>1 DEF Deed
<1>10. CASE n \in Nodes /\ FriendRead(n)
  <2>1. PICK x \in Sockets, w \in Users, l \in Views :
           ReadsNext(n, x, w, l) \/ ReadsLast(n, x, w, l)
    BY <1>10, FriendReadFields
  <2> QED
    BY <1>10, <2>1 DEF Deed
<1>11. CASE n \in Nodes /\ MessageKept(n)
  <2>1. PICK j \in Messages : Keeps(n, j)
    BY <1>11, MessageKeptFields
  <2> QED
    BY <1>11, <2>1 DEF Deed
<1>12. CASE n \in Nodes /\ Arrive(n)
  <2>1. PICK e \in Packets : e = Head(bus[n])
    BY <1>12, Arrived DEF Arrive
  <2>2. CASE e.on = "status"
    <3>1. PICK w \in Users, c \in Statuses, ss \in SUBSET Sockets :
             e = Status(w, c) /\ ss = Sockets
      BY <2>2, FormOf
    <3>2. told' = Told(told, n, Status(w, c), ss) /\ got' = got
      BY <1>12, <2>1, <2>2, <3>1 DEF Arrive
    <3>3. told \in [Sockets -> Views]
      BY DEF Typed, Views
    <3>4. \A x \in Sockets, y \in Users :
             Told(told, n, Status(w, c), ss)[x][y] =
                IF Hearing(n, x) /\ x \in ss /\ y = w /\ w \in FriendsOf(Owner[x])
                THEN c ELSE told[x][y]
      BY <1>12, <3>3, ToldValues
    <3>5. HearsStatus(n, w, c)
      BY <1>12, <2>1, <3>1, <3>2, <3>4 DEF HearsStatus, Arrive
    <3> QED
      BY <3>5 DEF Deed
  <2>3. CASE e.on # "status"
    <3>1. PICK k \in Messages : e = Direct(k) /\ e.message = k
      BY <2>3, FormOf
    <3>2. HearsMessage(n, k)
      BY <1>12, <2>1, <2>3, <3>1 DEF HearsMessage, Arrive
    <3> QED
      BY <3>2 DEF Deed
  <2> QED
    BY <2>2, <2>3
<1>13. CASE n \in Nodes /\ Crash(n)
  BY <1>13 DEF Deed
<1>14. CASE u \in Users /\ Expire(u)
  BY <1>14 DEF Deed
<1>15. CASE u \in Users /\ ExpireMessages(u)
  BY <1>15 DEF Deed
<1> QED
  BY <1>1, <1>2, <1>3, <1>4, <1>5, <1>6, <1>7, <1>8, <1>9, <1>10, <1>11, <1>12, <1>13,
     <1>14, <1>15, <1>16 DEF Act

\* What a step leaves alone: a socket is new no more once it is open, nor open
\* once it is closed; a message that is sent stays so.
Onwards ==
    /\ doubled \subseteq doubled' /\ lapsed \subseteq lapsed' /\ dropped \subseteq dropped'
    /\ \A x \in Sockets : /\ sock[x] # "new" => sock'[x] # "new"
                          /\ sock[x] = "closed" => sock'[x] = "closed"
                          /\ cut'[x] = "no" => cut[x] = "no"
    /\ \A k \in Messages : Sent(k) => msg'[k] = msg[k]

\* Every step does.
LEMMA OnwardsKept ==
    ASSUME Typed, Staged, NEW s, NEW n, NEW u, NEW v, NEW m, NEW f, NEW c, NEW l,
           Deed(s, n, u, v, m, f, c, l)
    PROVE  Onwards
<1> USE DEF live, redis, client, tracks
<1>1. CASE s \in Sockets /\ Connect(s)
  BY <1>1 DEF Connect, Onwards, Typed, Staged
<1>2. CASE Turns(s)
  BY <1>2 DEF Turns, Onwards
<1>3. CASE Verifies(s)
  BY <1>3 DEF Verifies, Onwards
<1>4. CASE Friendless(s) \/ AsksFirst(s, v)
  BY <1>4 DEF Friendless, AsksFirst, Onwards
<1>5. CASE PartsKnown(s) \/ PartsUnknown(s)
  <2>1. /\ s \in Sockets /\ sock[s] = "open" /\ sock' = [sock EXCEPT ![s] = "closed"]
        /\ \A x \in Sockets : x # s => cut'[x] = cut[x]
        /\ UNCHANGED <<doubled, lapsed, dropped, msg>>
    BY <1>5 DEF PartsKnown, PartsUnknown, Closing, Typed, Open
  <2>2. cut[s] = "no"
    BY <2>1 DEF Staged
  <2> QED
    BY <2>1, <2>2 DEF Onwards, Typed
<1>6. CASE Sends(s, v, m)
  BY <1>6 DEF Sends, SendMessage, Onwards, Typed
<1>7. CASE SavesAs(n, u, f, c)
  BY <1>7 DEF SavesAs, Onwards
<1>8. CASE FindsFor(n, s, f)
  BY <1>8 DEF FindsFor, Onwards
<1>9. CASE ReadsFor(n, s)
  BY <1>9 DEF ReadsFor, Onwards
<1>10. CASE ReadsNext(n, s, v, l) \/ ReadsLast(n, s, v, l)
  BY <1>10 DEF ReadsNext, ReadsLast, ReadsFriend, Onwards
<1>11. CASE Keeps(n, m)
  BY <1>11 DEF Keeps, Onwards
<1>12. CASE HearsStatus(n, v, c) \/ HearsMessage(n, m)
  BY <1>12 DEF HearsStatus, HearsMessage, Onwards
<1>13. CASE n \in Nodes /\ Crash(n)
  BY <1>13 DEF Crash, Onwards, Typed
<1>14. CASE Expire(u) \/ ExpireMessages(u)
  BY <1>14 DEF Expire, ExpireMessages, Onwards
<1> QED
  BY <1>1, <1>2, <1>3, <1>4, <1>5, <1>6, <1>7, <1>8, <1>9, <1>10, <1>11, <1>12, <1>13,
     <1>14 DEF Deed

\* So what is said of a user's past only grows.
LEMMA Past ==
    ASSUME Typed, Onwards
    PROVE  /\ \A u \in Users : /\ OneNode(u)' => OneNode(u)
                               /\ Regular(u)' => Regular(u)
           /\ \A u \in Users, n \in Nodes : Came(u, n) => Came(u, n)'
           /\ \A m \in Messages : /\ Sent(m) => Sent(m)'
                                  /\ Sent(m) => \A u : /\ Concerns(m, u)' = Concerns(m, u)
                                                       /\ Other(m, u)' = Other(m, u)
<1>1. ASSUME NEW u \in Users PROVE OneNode(u)' => OneNode(u)
  BY DEF OneNode, Onwards, SocketsOf
<1>2. ASSUME NEW u \in Users PROVE Regular(u)' => Regular(u)
  BY <1>1 DEF Regular, Onwards, SocketsOf
<1>3. \A u \in Users, n \in Nodes : Came(u, n) => Came(u, n)'
  BY DEF Came, Onwards, SocketsOf
<1>4. \A m \in Messages : /\ Sent(m) => Sent(m)'
                          /\ Sent(m) => \A u : /\ Concerns(m, u)' = Concerns(m, u)
                                               /\ Other(m, u)' = Other(m, u)
  BY DEF Sent, Onwards, Concerns, Other
<1> QED
  BY <1>1, <1>2, <1>3, <1>4
------------------------------------------------------------------------------
\* How sockets and handlers go together is kept.
LEMMA StagedKept ==
    ASSUME Typed, Staged, NEW s, NEW n, NEW u, NEW v, NEW m, NEW f, NEW c, NEW l,
           Deed(s, n, u, v, m, f, c, l)
    PROVE  Staged'
<1> USE DEF live, redis, client, tracks, Open, Connecting, Entered
<1>1. CASE s \in Sockets /\ Connect(s)
  <2>1. /\ sock[s] = "new" /\ sock' = [sock EXCEPT ![s] = "open"]
        /\ pc' = [pc EXCEPT ![s] = "verify"]
        /\ UNCHANGED <<room, list, cut>>
    BY <1>1 DEF Connect, Move
  <2>2. \A x \in Sockets :
           /\ sock'[x] = "new" <=> pc'[x] = "new"
           /\ sock'[x] # "closed" => cut'[x] = "no"
           /\ sock'[x] = "closed" /\ pc'[x] \in {"verify", "nickname", "find"}
                 => cut'[x] = "early"
           /\ sock'[x] = "closed" /\ pc'[x] \in Connecting => cut'[x] # "no"
           /\ x \in room' => sock'[x] = "open" /\ pc'[x] \in Entered \cup {"failed"}
           /\ sock'[x] = "open" /\ pc'[x] \in Entered => x \in room'
           /\ pc'[x] \in Connecting \ {"sync"} => list'[x] = Nothing
           /\ pc'[x] = "new" => list'[x] = Nothing
    BY <1>1, <2>1 DEF Staged, Typed
  <2>3. ASSUME NEW x \in Sockets, NEW y \in Sockets, sock'[x] = "open", sock'[y] = "open",
               x # y, Owner[x] = Owner[y]
        PROVE  Owner[x] \in doubled'
    <3>1. CASE x # s /\ y # s
      BY <1>1, <2>1, <2>3, <3>1 DEF Connect, Staged, Typed
    <3>2. CASE x = s
      <4>1. y \in SocketsOf(Owner[s]) /\ sock[y] = "open"
        BY <2>1, <2>3, <3>2 DEF SocketsOf, Typed
      <4> QED
        BY <1>1, <3>2, <4>1 DEF Connect
    <3>3. CASE y = s
      <4>1. x \in SocketsOf(Owner[s]) /\ sock[x] = "open"
        BY <2>1, <2>3, <3>3 DEF SocketsOf, Typed
      <4> QED
        BY <1>1, <2>3, <3>3, <4>1 DEF Connect
    <3> QED
      BY <3>1, <3>2, <3>3
  <2> QED
    BY <2>2, <2>3, Zenon DEF Staged
<1>2. CASE Turns(s)
  <2>1. /\ s \in Sockets /\ pc[s] \in Connecting /\ UNCHANGED <<sock, room, cut, doubled>>
        /\ \A x \in Sockets : x # s => pc'[x] = pc[x] /\ list'[x] = list[x]
        /\ \/ pc[s] = "verify" /\ pc'[s] = "nickname" /\ list'[s] = list[s]
           \/ pc[s] = "verify" /\ pc'[s] = "refused" /\ list'[s] = Nothing
           \/ pc[s] # "verify" /\ pc'[s] = "failed" /\ list'[s] = Nothing
    BY <1>2 DEF Turns, Typed
  <2>2. ASSUME NEW x \in Sockets
        PROVE  /\ sock'[x] = "new" <=> pc'[x] = "new"
               /\ sock'[x] = "closed" /\ pc'[x] \in {"verify", "nickname", "find"}
                     => cut'[x] = "early"
               /\ sock'[x] = "closed" /\ pc'[x] \in Connecting => cut'[x] # "no"
               /\ x \in room' => sock'[x] = "open" /\ pc'[x] \in Entered \cup {"failed"}
               /\ sock'[x] = "open" /\ pc'[x] \in Entered => x \in room'
               /\ pc'[x] \in Connecting \ {"sync"} => list'[x] = Nothing
               /\ pc'[x] = "new" => list'[x] = Nothing
    <3>1. CASE x = s
      BY <2>1, <3>1 DEF Staged
    <3>2. CASE x # s
      BY <2>1, <3>2 DEF Staged
    <3> QED
      BY <3>1, <3>2
  <2>3. \A x \in Sockets : sock'[x] # "closed" => cut'[x] = "no"
    BY <2>1 DEF Staged
  <2>4. \A x \in Sockets, y \in Sockets :
           sock'[x] = "open" /\ sock'[y] = "open" /\ x # y /\ Owner[x] = Owner[y]
              => Owner[x] \in doubled'
    BY <2>1 DEF Staged
  <2> QED
    BY <2>2, <2>3, <2>4, Zenon DEF Staged
<1>3. CASE Verifies(s)
  BY <1>3 DEF Verifies, Typed, Staged
<1>4. CASE s \in Sockets /\ list[s] \in Views /\ Friendless(s)
  <2>1. Ends(s, list[s])
    BY <1>4, FinishFields DEF Friendless
  <2> QED
    BY <1>4, <2>1 DEF Friendless, Ends, Typed, Staged
<1>5. CASE s \in Sockets /\ AsksFirst(s, v)
  BY <1>5 DEF AsksFirst, Typed, Staged
<1>6. CASE PartsKnown(s) \/ PartsUnknown(s)
  <2>1. s \in Sockets /\ Closing(s)
    BY <1>6 DEF PartsKnown, PartsUnknown
  <2> QED
    BY <2>1 DEF Closing, Typed, Staged, Stages
<1>7. CASE Sends(s, v, m)
  BY <1>7 DEF Sends, SendMessage, Typed, Staged
<1>8. CASE SavesAs(n, u, f, c)
  BY <1>8 DEF SavesAs, Staged
<1>9. CASE s \in Sockets /\ FindsFor(n, s, f)
  BY <1>9 DEF FindsFor, Staged, Typed
<1>10. CASE s \in Sockets /\ ReadsFor(n, s)
  BY <1>10 DEF ReadsFor, Staged, Typed
<1>11. CASE s \in Sockets /\ ReadsNext(n, s, v, l)
  BY <1>11 DEF ReadsNext, ReadsFriend, Staged, Typed
<1>12. CASE s \in Sockets /\ l \in Views /\ ReadsLast(n, s, v, l)
  <2>1. Ends(s, l)
    BY <1>12, FinishFields DEF ReadsLast
  <2> QED
    BY <1>12, <2>1 DEF ReadsLast, ReadsFriend, Ends, Typed, Staged
<1>13. CASE Keeps(n, m)
  BY <1>13 DEF Keeps, Staged
<1>14. CASE HearsStatus(n, v, c) \/ HearsMessage(n, m)
  BY <1>14 DEF HearsStatus, HearsMessage, Staged
<1>15. CASE n \in Nodes /\ Crash(n)
  <2>1. \A x \in Sockets :
           IF NodeOf[x] = n
           THEN /\ sock'[x] = "closed" /\ pc'[x] = "done" /\ list'[x] = Nothing
                /\ x \notin room'
                /\ cut'[x] = IF sock[x] = "new" THEN cut[x] ELSE "crash"
           ELSE /\ sock'[x] = sock[x] /\ pc'[x] = pc[x] /\ list'[x] = list[x]
                /\ x \in room' <=> x \in room
                /\ cut'[x] = cut[x]
    BY <1>15 DEF Crash
  <2>2. doubled' = doubled
    BY <1>15 DEF Crash
  <2> QED
    BY <2>1, <2>2 DEF Staged
<1>16. CASE Expire(u) \/ ExpireMessages(u)
  BY <1>16 DEF Expire, ExpireMessages, Staged
<1> QED
  BY <1>1, <1>2, <1>3, <1>4, <1>5, <1>6, <1>7, <1>8, <1>9, <1>10, <1>11, <1>12, <1>13,
     <1>14, <1>15, <1>16 DEF Deed
------------------------------------------------------------------------------
\* A command stays in order as long as the handler that reads a friend does.
LEMMA StillFits ==
    ASSUME Typed, Onwards, NEW y \in Nodes, NEW i \in Commands, Fits(i, y),
           i.op = "friend" => pc'[i.socket] = "sync"
    PROVE  Fits(i, y)'
<1>1. i.op = "save" => i.user \in Users /\ Came(i.user, y)'
  BY FormOf, Past DEF Fits
<1>2. i.op = "keep" => i.message \in Messages /\ Sent(i.message)'
  BY FormOf, Past DEF Fits
<1> QED
  BY <1>1, <1>2 DEF Fits

\* What a node's store holds is a command.
LEMMA Held ==
    ASSUME Typed
    PROVE  /\ \A y \in Nodes : \A i \in Range(store[y]) : i \in Commands
           /\ \A y \in Nodes : \A e \in Range(bus[y]) : e \in Packets
  BY DEF Typed, Range

\* New commands are in order, the handlers of the others are still there, and
\* who asks has no question left.
Proper(n, X) == \A i \in X : i \in Commands /\ Fits(i, n)'
Steady(n) ==
    \A x \in Sockets :
       \/ pc[x] = "sync" => pc'[x] = "sync"
       \/ NodeOf[x] = n /\ \A i \in Asks(x) : i \notin Range(store'[n])
Single(n, X, taken) ==
    \A x \in Sockets :
       \/ \A i \in Asks(x) : i \notin X
       \/ \A i \in Asks(x) : i \notin Range(store[n])
       \/ taken /\ Head(store[n]) \in Asks(x)

\* Commands are put, and taken, in order.
LEMMA ErrandsMoved ==
    ASSUME Typed, Errands, Onwards, NEW n \in Nodes, NEW X, NEW taken, Moved(n, X, taken),
           Proper(n, X), Steady(n), Single(n, X, taken)
    PROVE  Errands'
<1> USE DEF Proper, Steady, Single
<1>1. ASSUME NEW y \in Nodes, NEW i \in Range(store'[y]) PROVE Fits(i, y)'
  <2>1. CASE y = n /\ i \in X
    BY <2>1
  <2>2. CASE i \in Range(store[y])
    <3>1. i \in Commands /\ Fits(i, y)
      BY <2>2, Held DEF Errands
    <3>2. ASSUME i.op = "friend" PROVE pc'[i.socket] = "sync"
      <4>1. /\ i.socket \in Sockets /\ i.user \in Users /\ i = FindFriend(i.socket, i.user)
            /\ NodeOf[i.socket] = y /\ pc[i.socket] = "sync"
        BY <3>1, <3>2, FormOf DEF Fits
      <4>2. i \in Asks(i.socket)
        BY <4>1 DEF Asks
      <4> QED
        BY <1>1, <4>1, <4>2
    <3> QED
      BY <3>1, <3>2, StillFits
  <2> QED
    BY <1>1, <2>1, <2>2 DEF Moved
<1>2. ASSUME NEW y \in Nodes, NEW x \in Sockets PROVE Once(store'[y], Asks(x))
  <2>1. CASE y # n
    BY <2>1 DEF Moved, Errands
  <2>2. Once(store[n], Asks(x))
    BY DEF Errands
  <2>3. CASE \A i \in Asks(x) : i \notin X
    BY <2>1, <2>2, <2>3 DEF Moved
  <2>4. CASE \/ \A i \in Asks(x) : i \notin Range(store[n])
             \/ taken /\ Head(store[n]) \in Asks(x)
    BY <2>1, <2>2, <2>4 DEF Moved
  <2> QED
    BY <2>3, <2>4
<1> QED
  BY <1>1, <1>2 DEF Errands

\* When the store stays as it is, so do the commands.
LEMMA ErrandsSame ==
    ASSUME Typed, Errands, Onwards, UNCHANGED store,
           \A x \in Sockets : pc[x] = "sync" => pc'[x] = "sync"
    PROVE  Errands'
<1>1. ASSUME NEW y \in Nodes, NEW i \in Range(store[y]) PROVE Fits(i, y)'
  <2>1. i \in Commands /\ Fits(i, y)
    BY Held DEF Errands
  <2>2. i.op = "friend" => pc'[i.socket] = "sync"
    BY <2>1, FormOf DEF Fits
  <2> QED
    BY <2>1, <2>2, StillFits
<1> QED
  BY <1>1 DEF Errands, Asks, FindFriend

\* Somebody has come to the node of a socket that is not new.
LEMMA CameHere ==
    ASSUME Typed, Staged, NEW s \in Sockets, pc[s] # "new"
    PROVE  Came(Owner[s], NodeOf[s])
  BY Places DEF Came, Staged

\* A node's commands are its own handlers', one question at a time.
LEMMA ErrandsKept ==
    ASSUME Typed, Staged, Errands, NEW s, NEW n, NEW u, NEW v, NEW m, NEW f, NEW c, NEW l,
           Deed(s, n, u, v, m, f, c, l)
    PROVE  Errands'
<1> USE DEF live, redis, client, tracks
<1>0. Onwards
  BY OnwardsKept
<1>1. CASE s \in Sockets /\ Connect(s)
  <2>1. store' = store /\ \A x \in Sockets : pc[x] = "sync" => pc'[x] = "sync"
    BY <1>1 DEF Connect, Move, Typed
  <2> QED
    BY <1>0, <2>1, ErrandsSame
<1>2. CASE Turns(s) /\ pc[s] # "sync" /\ UNCHANGED store
  <2>1. \A x \in Sockets : pc[x] = "sync" => pc'[x] = "sync"
    BY <1>2 DEF Turns, Typed
  <2> QED
    BY <1>0, <1>2, <2>1, ErrandsSame
<1>17. CASE n \in Nodes /\ Turns(s) /\ Loses(n, s, v)
  <2>1. s \in Sockets /\ NodeOf[s] = n /\ Moved(n, {}, TRUE) /\ Once(store[n], Asks(s))
    BY <1>17 DEF Turns, Loses, Errands
  <2>2. pc[s] = "sync" => \A i \in Asks(s) : i \notin Range(store'[n])
    <3>1. pc[s] = "sync" => Head(store[n]) \in Asks(s)
      BY <1>17 DEF Loses, Asks
    <3> QED
      BY <2>1, <3>1 DEF Moved
  <2>3. \A x \in Sockets : x # s => pc'[x] = pc[x]
    BY <1>17 DEF Turns, Typed
  <2>a. Proper(n, {}) /\ Steady(n)
    BY <2>1, <2>2, <2>3 DEF Proper, Steady
  <2>b. Single(n, {}, TRUE)
    BY DEF Single
  <2> QED
    BY <1>0, <1>17, <2>1, <2>a, <2>b, ErrandsMoved
<1>3. CASE Verifies(s)
  <2>1. s \in Sockets /\ NodeOf[s] \in Nodes
    BY <1>3, Places DEF Verifies
  <2>2. Find(s) \in Commands /\ Fits(Find(s), NodeOf[s])'
    BY <2>1, Forms DEF Fits
  <2>3. \A x \in Sockets : \A i \in Asks(x) : i # Find(s)
    BY <2>1, Forms, SetForms
  <2>4. \A x \in Sockets : pc[x] = "sync" => pc'[x] = "sync"
    BY <1>3 DEF Verifies, Typed
  <2>5. Moved(NodeOf[s], {Find(s)}, FALSE)
    BY <1>3 DEF Verifies
  <2>a. Proper(NodeOf[s], {Find(s)}) /\ Steady(NodeOf[s])
    BY <1>0, <2>1, <2>2, <2>3, <2>4, <2>5 DEF Proper, Steady
  <2>b. Single(NodeOf[s], {Find(s)}, FALSE)
    BY <1>0, <2>1, <2>2, <2>3, <2>4, <2>5 DEF Single
  <2> QED
    BY <1>0, <2>1, <2>5, <2>a, <2>b, ErrandsMoved
<1>4. CASE s \in Sockets /\ list[s] \in Views /\ Friendless(s)
  <2>1. Ends(s, list[s])
    BY <1>4, FinishFields DEF Friendless
  <2>2. store' = store /\ \A x \in Sockets : pc[x] = "sync" => pc'[x] = "sync"
    BY <1>4, <2>1 DEF Friendless, Ends, Typed
  <2> QED
    BY <1>0, <2>2, ErrandsSame
<1>5. CASE s \in Sockets /\ v \in Users /\ AsksFirst(s, v)
  <2>1. NodeOf[s] \in Nodes /\ Moved(NodeOf[s], {FindFriend(s, v)}, FALSE)
    BY <1>5, Places DEF AsksFirst
  <2>2. pc[s] = "friends" /\ pc'[s] = "sync"
        /\ \A x \in Sockets : pc[x] = "sync" => pc'[x] = "sync"
    BY <1>5 DEF AsksFirst, Typed
  <2>3. FindFriend(s, v) \in Commands /\ Fits(FindFriend(s, v), NodeOf[s])'
    BY <1>5, <2>2, Forms DEF Fits, AsksFirst
  <2>4. \A i \in Asks(s) : i \notin Range(store[NodeOf[s]])
    BY <1>5, <2>1, <2>2, SetForms DEF Errands, Fits
  <2>5. \A x \in Sockets : x # s => \A i \in Asks(x) : i # FindFriend(s, v)
    BY <1>5, Forms, SetForms
  <2>a. Proper(NodeOf[s], {FindFriend(s, v)}) /\ Steady(NodeOf[s])
    BY <1>0, <2>1, <2>2, <2>3, <2>4, <2>5 DEF Proper, Steady
  <2>b. Single(NodeOf[s], {FindFriend(s, v)}, FALSE)
    BY <1>0, <2>1, <2>2, <2>3, <2>4, <2>5 DEF Single
  <2> QED
    BY <1>0, <2>1, <2>a, <2>b, ErrandsMoved
<1>6. CASE PartsKnown(s)
  <2> DEFINE i == Save(Owner[s], FALSE, "offline")
  <2>1. s \in Sockets /\ NodeOf[s] \in Nodes /\ Owner[s] \in Users /\ pc[s] # "new"
    BY <1>6, Places DEF PartsKnown, Closing, Staged, Open
  <2>2. Came(Owner[s], NodeOf[s])'
    BY <1>0, <2>1, CameHere, Past
  <2>3. i \in Commands /\ i.op = "save" /\ i.user = Owner[s]
    <3>1. PICK w \in Users, g \in BOOLEAN, d \in Statuses :
             w = Owner[s] /\ g = FALSE /\ d = "offline"
      BY <2>1, StatusesAre
    <3>2. Save(w, g, d) \in Commands /\ Save(w, g, d).op = "save" /\ Save(w, g, d).user = w
      BY Forms
    <3> QED
      BY <3>1, <3>2
  <2>4. Moved(NodeOf[s], {i}, FALSE)
    BY <1>6 DEF PartsKnown
  <2>5. \A x \in Sockets : pc[x] = "sync" => pc'[x] = "sync"
    BY <1>6 DEF PartsKnown, Closing, Typed
  <2> HIDE DEF i
  <2>6. Fits(i, NodeOf[s])'
    BY <2>2, <2>3 DEF Fits
  <2>7. \A x \in Sockets : \A j \in Asks(x) : j # i
    BY <2>3, SetForms
  <2>a. Proper(NodeOf[s], {i}) /\ Steady(NodeOf[s])
    BY <1>0, <2>1, <2>3, <2>4, <2>5, <2>6, <2>7 DEF Proper, Steady
  <2>b. Single(NodeOf[s], {i}, FALSE)
    BY <1>0, <2>1, <2>3, <2>4, <2>5, <2>6, <2>7 DEF Single
  <2> QED
    BY <1>0, <2>1, <2>4, <2>a, <2>b, ErrandsMoved
<1>7. CASE PartsUnknown(s)
  <2>1. store' = store /\ \A x \in Sockets : pc[x] = "sync" => pc'[x] = "sync"
    BY <1>7 DEF PartsUnknown, Closing, Typed
  <2> QED
    BY <1>0, <2>1, ErrandsSame
<1>8. CASE Sends(s, v, m)
  <2>1. s \in Sockets /\ NodeOf[s] \in Nodes /\ Owner[s] \in Users /\ m \in Messages
    BY <1>8, Places DEF Sends
  <2>2. Sent(m)'
    BY <1>8, <2>1 DEF Sends, SendMessage, Sent, Typed
  <2>3. Keep(m) \in Commands /\ Fits(Keep(m), NodeOf[s])'
    BY <2>1, <2>2, Forms DEF Fits
  <2>4. \A x \in Sockets : \A j \in Asks(x) : j # Keep(m)
    BY <2>1, Forms, SetForms
  <2>5. Moved(NodeOf[s], {Keep(m)}, FALSE)
    BY <1>8 DEF Sends
  <2>6. \A x \in Sockets : pc[x] = "sync" => pc'[x] = "sync"
    BY <1>8 DEF Sends, SendMessage
  <2>a. Proper(NodeOf[s], {Keep(m)}) /\ Steady(NodeOf[s])
    BY <1>0, <2>1, <2>3, <2>4, <2>5, <2>6 DEF Proper, Steady
  <2>b. Single(NodeOf[s], {Keep(m)}, FALSE)
    BY <1>0, <2>1, <2>3, <2>4, <2>5, <2>6 DEF Single
  <2> QED
    BY <1>0, <2>1, <2>5, <2>a, <2>b, ErrandsMoved
<1>9. CASE n \in Nodes /\ (SavesAs(n, u, f, c) \/ Keeps(n, m))
  <2>1. Moved(n, {}, TRUE) /\ pc' = pc
    BY <1>9 DEF SavesAs, Keeps
  <2>a. Proper(n, {}) /\ Steady(n)
    BY <1>0, <1>9, <2>1 DEF Proper, Steady
  <2>b. Single(n, {}, TRUE)
    BY <1>0, <1>9, <2>1 DEF Single
  <2> QED
    BY <1>0, <1>9, <2>1, <2>a, <2>b, ErrandsMoved
<1>10. CASE n \in Nodes /\ s \in Sockets /\ f \in BOOLEAN /\ FindsFor(n, s, f)
  <2> DEFINE i == Save(Owner[s], f, "online")
  <2>1. NodeOf[s] = n /\ Owner[s] \in Users /\ pc[s] = "find" /\ Moved(n, {i, ReadMessages(s)}, TRUE)
    BY <1>10, Places DEF FindsFor
  <2>2. Came(Owner[s], n)'
    BY <1>0, <1>10, <2>1, CameHere, Past
  <2>3. i \in Commands /\ i.op = "save" /\ i.user = Owner[s]
    BY <1>10, <2>1, Forms, StatusesAre
  <2>4. \A x \in Sockets : pc[x] = "sync" => pc'[x] = "sync"
    BY <1>10 DEF FindsFor, Typed
  <2> HIDE DEF i
  <2>5. Fits(i, n)' /\ ReadMessages(s) \in Commands /\ Fits(ReadMessages(s), n)'
    BY <1>10, <2>1, <2>2, <2>3, Forms DEF Fits
  <2>6. \A x \in Sockets : \A j \in Asks(x) : j # i /\ j # ReadMessages(s)
    BY <1>10, <2>3, Forms, SetForms
  <2>7. /\ \A j \in {i, ReadMessages(s)} : j \in Commands /\ Fits(j, n)'
        /\ \A x \in Sockets : \A j \in Asks(x) : j \notin {i, ReadMessages(s)}
    BY <2>3, <2>5, <2>6
  <2>a. Proper(n, {i, ReadMessages(s)}) /\ Steady(n)
    BY <1>0, <1>10, <2>1, <2>4, <2>7 DEF Proper, Steady
  <2>b. Single(n, {i, ReadMessages(s)}, TRUE)
    BY <1>0, <1>10, <2>1, <2>4, <2>7 DEF Single
  <2> QED
    BY <1>0, <1>10, <2>1, <2>a, <2>b, ErrandsMoved
<1>11. CASE n \in Nodes /\ s \in Sockets /\ ReadsFor(n, s)
  <2>1. Moved(n, {}, TRUE) /\ \A x \in Sockets : pc[x] = "sync" => pc'[x] = "sync"
    BY <1>11 DEF ReadsFor, Typed
  <2>a. Proper(n, {}) /\ Steady(n)
    BY <1>0, <1>11, <2>1 DEF Proper, Steady
  <2>b. Single(n, {}, TRUE)
    BY <1>0, <1>11, <2>1 DEF Single
  <2> QED
    BY <1>0, <1>11, <2>1, <2>a, <2>b, ErrandsMoved
<1>12. CASE n \in Nodes /\ s \in Sockets /\ v \in Users /\ ReadsNext(n, s, v, l)
  <2>1. PICK w \in FriendsOf(Owner[s]) : Moved(n, {FindFriend(s, w)}, TRUE)
    BY <1>12 DEF ReadsNext
  <2>2. /\ NodeOf[s] = n /\ pc' = pc /\ pc[s] = "sync" /\ Head(store[n]) \in Asks(s)
        /\ w \in Users
    BY <1>12 DEF ReadsNext, ReadsFriend, Asks, FriendsOf
  <2>3. FindFriend(s, w) \in Commands /\ Fits(FindFriend(s, w), n)'
    BY <1>12, <2>1, <2>2, Forms DEF Fits
  <2>4. \A x \in Sockets : x # s => \A i \in Asks(x) : i # FindFriend(s, w)
    BY <1>12, <2>2, Forms, SetForms
  <2>a. Proper(n, {FindFriend(s, w)}) /\ Steady(n)
    BY <1>0, <1>12, <2>1, <2>2, <2>3, <2>4 DEF Proper, Steady
  <2>b. Single(n, {FindFriend(s, w)}, TRUE)
    BY <1>0, <1>12, <2>1, <2>2, <2>3, <2>4 DEF Single
  <2> QED
    BY <1>0, <1>12, <2>1, <2>a, <2>b, ErrandsMoved
<1>13. CASE n \in Nodes /\ s \in Sockets /\ v \in Users /\ l \in Views /\ ReadsLast(n, s, v, l)
  <2>1. /\ Moved(n, {}, TRUE) /\ Head(store[n]) \in Asks(s) /\ NodeOf[s] = n
        /\ Once(store[n], Asks(s))
    BY <1>13 DEF ReadsLast, ReadsFriend, Asks, Errands
  <2>2. \A i \in Asks(s) : i \notin Range(store'[n])
    BY <2>1 DEF Moved
  <2>3. \A x \in Sockets : x # s /\ pc[x] = "sync" => pc'[x] = "sync"
    <3>1. Ends(s, l)
      BY <1>13, FinishFields DEF ReadsLast
    <3> QED
      BY <3>1 DEF Ends, Typed
  <2>a. Proper(n, {}) /\ Steady(n)
    BY <1>0, <1>13, <2>1, <2>2, <2>3 DEF Proper, Steady
  <2>b. Single(n, {}, TRUE)
    BY <1>0, <1>13, <2>1, <2>2, <2>3 DEF Single
  <2> QED
    BY <1>0, <1>13, <2>1, <2>a, <2>b, ErrandsMoved
<1>14. CASE HearsStatus(n, v, c) \/ HearsMessage(n, m)
  <2>1. store' = store /\ pc' = pc
    BY <1>14 DEF HearsStatus, HearsMessage
  <2> QED
    BY <1>0, <2>1, ErrandsSame
<1>15. CASE n \in Nodes /\ Crash(n)
  <2>1. /\ store'[n] = <<>> /\ \A y \in Nodes \ {n} : store'[y] = store[y]
        /\ \A x \in Sockets : NodeOf[x] # n => pc'[x] = pc[x]
    BY <1>15 DEF Crash, Typed
  <2>2. Range(<<>>) = {} /\ \A A : Once(<<>>, A)
    BY DEF Range, Once
  <2>3. ASSUME NEW y \in Nodes \ {n}, NEW i \in Range(store[y]) PROVE Fits(i, y)'
    <3>1. i \in Commands /\ Fits(i, y)
      BY Held DEF Errands
    <3>2. i.op = "friend" => pc'[i.socket] = "sync"
      BY <2>1, <3>1, FormOf DEF Fits
    <3> QED
      BY <1>0, <3>1, <3>2, StillFits
  <2>4. \A y \in Nodes : \A i \in Range(store'[y]) : Fits(i, y)'
    BY <2>1, <2>2, <2>3
  <2>5. \A y \in Nodes, x \in Sockets : Once(store'[y], Asks(x))
    BY <2>1, <2>2 DEF Errands
  <2> QED
    BY <2>4, <2>5 DEF Errands
<1>16. CASE Expire(u) \/ ExpireMessages(u)
  <2>1. store' = store /\ pc' = pc
    BY <1>16 DEF Expire, ExpireMessages
  <2> QED
    BY <1>0, <2>1, ErrandsSame
<1> QED
  BY <1>1, <1>2, <1>3, <1>4, <1>5, <1>6, <1>7, <1>8, <1>9, <1>10, <1>11, <1>12, <1>13,
     <1>14, <1>15, <1>16, <1>17 DEF Deed
------------------------------------------------------------------------------
\* What comes over the bus has been said elsewhere, still.
LEMMA BusedStill ==
    ASSUME Typed, Bused, Onwards,
           \A y \in Nodes : \A e \in Range(bus'[y]) : e \in Range(bus[y]) \/ Comes(e, y)'
    PROVE  Bused'
<1> SUFFICES ASSUME NEW y \in Nodes, NEW e \in Range(bus'[y]), e \in Range(bus[y])
             PROVE  Comes(e, y)'
  BY DEF Bused
<1>1. e \in Packets /\ Comes(e, y)
  BY Held DEF Bused
<1>2. ASSUME e.on = "status" PROVE \E x \in Nodes \ {y} : Came(e.user, x)'
  BY <1>1, <1>2, FormOf, Past DEF Comes
<1>3. ASSUME e.on = "message" PROVE Sent(e.message)'
  BY <1>1, <1>3, FormOf, Past DEF Comes
<1> QED
  BY <1>2, <1>3 DEF Comes

\* A packet that is published takes nothing from any bus, and comes everywhere
\* else.
LEMMA BusGrows ==
    ASSUME Typed, NEW n \in Nodes, NEW e \in Packets, Publish(n, e)
    PROVE  \A y \in Nodes : /\ Range(bus[y]) \subseteq Range(bus'[y])
                            /\ y # n => e \in Range(bus'[y])
                            /\ \A z \in Range(bus'[y]) : z \in Range(bus[y]) \/ (z = e /\ y # n)
<1>1. \A y \in Nodes : Range(bus'[y]) = Range(bus[y]) \cup IF y = n THEN {} ELSE {e}
  BY Published
<1> QED
  BY <1>1

\* The event of a socket that has come.
LEMMA BusedPublished ==
    ASSUME Typed, Staged, Bused, Onwards, NEW s \in Sockets, NEW c \in Statuses, pc[s] # "new",
           Publish(NodeOf[s], Status(Owner[s], c))
    PROVE  Bused'
<1>1. PICK n \in Nodes, w \in Users, e \in Packets :
         n = NodeOf[s] /\ w = Owner[s] /\ e = Status(w, c) /\ e.on = "status" /\ e.user = w
  BY Places, Forms
<1>2. Came(w, n)'
  BY <1>1, CameHere, Past
<1>3. \A y \in Nodes : Range(bus'[y]) = Range(bus[y]) \cup IF y = n THEN {} ELSE {e}
  <2>1. Publish(n, e)
    BY <1>1
  <2> QED
    BY <2>1, Published
<1>4. \A y \in Nodes : y # n => Comes(e, y)'
  BY <1>1, <1>2 DEF Comes
<1>5. \A y \in Nodes : \A z \in Range(bus'[y]) : z \in Range(bus[y]) \/ Comes(z, y)'
  BY <1>3, <1>4
<1> QED
  BY <1>5, BusedStill

\* What comes over the bus has been said elsewhere.
LEMMA BusedKept ==
    ASSUME Typed, Staged, Bused, NEW s, NEW n, NEW u, NEW v, NEW m, NEW f, NEW c, NEW l,
           Deed(s, n, u, v, m, f, c, l)
    PROVE  Bused'
<1> USE DEF live, redis, client, tracks
<1>0. Onwards
  BY OnwardsKept
<1>1. CASE s \in Sockets /\ l \in Views /\ ReadsLast(n, s, v, l)
  <2>1. Ends(s, l)
    BY <1>1, FinishFields DEF ReadsLast
  <2>2. pc[s] # "new" /\ Publish(NodeOf[s], Status(Owner[s], "online"))
    BY <1>1, <2>1 DEF ReadsLast, ReadsFriend, Ends
  <2> QED
    BY <1>0, <1>1, <2>2, BusedPublished, StatusesAre
<1>2. CASE s \in Sockets /\ list[s] \in Views /\ Friendless(s)
  <2>1. PICK k \in Views : k = list[s]
    BY <1>2
  <2>2. Ends(s, k)
    BY <1>2, <2>1, FinishFields DEF Friendless
  <2>3. pc[s] # "new" /\ Publish(NodeOf[s], Status(Owner[s], "online"))
    BY <1>2, <2>2 DEF Friendless, Ends
  <2> QED
    BY <1>0, <1>2, <2>3, BusedPublished, StatusesAre
<1>3. CASE PartsKnown(s)
  <2>1. s \in Sockets /\ pc[s] # "new" /\ Publish(NodeOf[s], Status(Owner[s], "offline"))
    BY <1>3 DEF PartsKnown, Leaves, Closing, Staged, Open
  <2> QED
    BY <1>0, <2>1, BusedPublished, StatusesAre
<1>4. CASE Sends(s, v, m)
  <2>1. /\ s \in Sockets /\ m \in Messages /\ NodeOf[s] \in Nodes
        /\ Direct(m) \in Packets /\ Direct(m).on = "message" /\ Direct(m).message = m
        /\ Publish(NodeOf[s], Direct(m))
    BY <1>4, Places, Forms DEF Sends, SendMessage
  <2>2. Sent(m)'
    BY <1>4, <2>1, Places DEF Sends, SendMessage, Sent, Typed
  <2>3. \A y \in Nodes : Range(bus'[y]) \subseteq Range(bus[y]) \cup {Direct(m)}
    <3>1. PICK x \in Nodes, e \in Packets : x = NodeOf[s] /\ e = Direct(m) /\ Publish(x, e)
      BY <2>1
    <3>2. \A y \in Nodes : \A z \in Range(bus'[y]) : z \in Range(bus[y]) \/ (z = e /\ y # x)
      BY <3>1, BusGrows
    <3> QED
      BY <3>1, <3>2
  <2>4. \A y \in Nodes : Comes(Direct(m), y)'
    BY <2>1, <2>2 DEF Comes
  <2> QED
    BY <1>0, <2>3, <2>4, BusedStill
<1>5. CASE HearsStatus(n, v, c) \/ HearsMessage(n, m)
  <2>1. \A y \in Nodes : Range(bus'[y]) \subseteq Range(bus[y])
    BY <1>5, Arrived DEF HearsStatus, HearsMessage
  <2> QED
    BY <1>0, <2>1, BusedStill
<1>6. CASE n \in Nodes /\ Crash(n)
  <2>1. Range(<<>>) = {}
    BY DEF Range
  <2>2. \A y \in Nodes : bus'[y] = IF y = n THEN <<>> ELSE bus[y]
    BY <1>6 DEF Crash, Typed
  <2> QED
    BY <1>0, <2>1, <2>2, BusedStill
<1>7. CASE UNCHANGED bus
  BY <1>0, <1>7, BusedStill
<1>8. CASE \/ s \in Sockets /\ Connect(s)
           \/ Turns(s)
           \/ Verifies(s) \/ AsksFirst(s, v) \/ PartsUnknown(s) \/ SavesAs(n, u, f, c)
           \/ FindsFor(n, s, f) \/ ReadsFor(n, s) \/ ReadsNext(n, s, v, l) \/ Keeps(n, m)
           \/ Expire(u) \/ ExpireMessages(u)
  <2>1. UNCHANGED bus
    BY <1>8 DEF Connect, Turns, Verifies, AsksFirst, PartsUnknown, SavesAs, FindsFor,
       ReadsFor, ReadsNext, Keeps, Expire, ExpireMessages
  <2> QED
    BY <1>7, <2>1
<1> QED
  BY <1>1, <1>2, <1>3, <1>4, <1>5, <1>6, <1>8, Zenon DEF Deed

------------------------------------------------------------------------------
\* What is stored, or has been read, stays so unless it expires.
LEMMA StoredSame ==
    ASSUME Typed, Stored, Onwards, UNCHANGED kept,
           \A x \in Sockets : read'[x] \subseteq read[x] \cup kept[Owner[x]]
    PROVE  Stored'
<1>1. \A x \in Users : \A k \in kept[x] : k \in Messages /\ Sent(k)
  BY DEF Typed, Stored
<1>2. ASSUME NEW x \in Users, NEW w \in Users, NEW k \in kept[x], Concerns(k, w)'
      PROVE  k \in kept[w] \/ w \in dropped'
  BY <1>1, <1>2, Past DEF Stored, Onwards
<1>3. \A x \in Users : \A k \in kept[x] : Sent(k)'
  BY <1>1, Past
<1>4. \A x \in Sockets : \A k \in read'[x] : Sent(k)'
  BY <1>3, Past, Places DEF Stored, Typed
<1> QED
  BY <1>2, <1>3, <1>4 DEF Stored

\* A message is stored for both of its users.
LEMMA StoredKept ==
    ASSUME Typed, Staged, Stored, NEW s, NEW n, NEW u, NEW v, NEW m, NEW f, NEW c, NEW l,
           Deed(s, n, u, v, m, f, c, l)
    PROVE  Stored'
<1> USE DEF live, redis, client, tracks
<1>0. Onwards
  BY OnwardsKept
<1>1. ASSUME n \in Nodes, m \in Messages, Keeps(n, m) PROVE Stored'
  <2>1. /\ \A x \in Users : kept'[x] = kept[x] \cup IF Concerns(m, x) THEN {m} ELSE {}
        /\ dropped' = dropped /\ msg' = msg /\ read' = read /\ Sent(m)
    BY <1>1 DEF Keeps
  <2>2. \A k, w : Concerns(k, w)' = Concerns(k, w)
    BY <2>1 DEF Concerns
  <2>3. \A k : Sent(k)' = Sent(k)
    BY <2>1 DEF Sent
  <2> QED
    BY <2>1, <2>2, <2>3 DEF Stored
<1>2. ASSUME u \in Users, ExpireMessages(u) PROVE Stored'
  <2>1. /\ kept' = [kept EXCEPT ![u] = {}] /\ dropped' = dropped \cup {u}
        /\ msg' = msg /\ read' = read
    BY <1>2 DEF ExpireMessages
  <2>2. \A k, w : Concerns(k, w)' = Concerns(k, w)
    BY <2>1 DEF Concerns
  <2>3. \A k : Sent(k)' = Sent(k)
    BY <2>1 DEF Sent
  <2> QED
    BY <1>2, <2>1, <2>2, <2>3 DEF Stored, Typed
<1>3. ASSUME s \in Sockets, UNCHANGED kept, \E k \in Views : Ends(s, k) PROVE Stored'
  <2>1. \A x \in Sockets : read'[x] \subseteq read[x]
    BY <1>3 DEF Ends, Typed
  <2> QED
    BY <1>0, <1>3, <2>1, StoredSame
<1>4. ASSUME UNCHANGED <<kept, read>> PROVE Stored'
  BY <1>0, <1>4, StoredSame
<1>5. ASSUME s \in Sockets, list[s] \in Views, Friendless(s) PROVE Stored'
  BY <1>3, <1>5, FinishFields DEF Friendless
<1>6. ASSUME s \in Sockets, l \in Views, ReadsLast(n, s, v, l) PROVE Stored'
  BY <1>3, <1>6, FinishFields DEF ReadsLast, ReadsFriend
<1>7. ASSUME s \in Sockets, ReadsFor(n, s) PROVE Stored'
  <2>1. /\ \A x \in Sockets : read'[x] \subseteq read[x] \cup kept[Owner[x]]
        /\ UNCHANGED kept
    BY <1>7 DEF ReadsFor, Typed
  <2> QED
    BY <1>0, <2>1, StoredSame
<1>10. ASSUME Turns(s) PROVE Stored'
  <2>1. (\A x \in Sockets : read'[x] \subseteq read[x]) /\ UNCHANGED kept
    BY <1>10 DEF Turns, Typed
  <2> QED
    BY <1>0, <2>1, StoredSame
<1>8. ASSUME Crash(n) PROVE Stored'
  <2>1. (\A x \in Sockets : read'[x] \subseteq read[x]) /\ UNCHANGED kept
    BY <1>8 DEF Crash
  <2> QED
    BY <1>0, <2>1, StoredSame
<1>9. CASE \/ s \in Sockets /\ Connect(s)
           \/ Verifies(s) \/ AsksFirst(s, v) \/ PartsKnown(s) \/ PartsUnknown(s)
           \/ Sends(s, v, m) \/ SavesAs(n, u, f, c)
           \/ FindsFor(n, s, f) \/ ReadsNext(n, s, v, l)
           \/ HearsStatus(n, v, c) \/ HearsMessage(n, m) \/ Expire(u)
  <2>1. UNCHANGED <<kept, read>>
    BY <1>9 DEF Connect, Verifies, AsksFirst, PartsKnown, PartsUnknown, Closing,
       Sends, SendMessage, SavesAs, FindsFor, ReadsNext, ReadsFriend, HearsStatus, HearsMessage, Expire
  <2> QED
    BY <1>4, <2>1
<1> QED
  BY <1>1, <1>2, <1>5, <1>6, <1>7, <1>8, <1>9, <1>10, Zenon DEF Deed
------------------------------------------------------------------------------
\* What a client is owed: it has it, it is on the bus, or it will be shown.
Owes(x, k) ==
    /\ x \in room /\ Sent(k) /\ Concerns(k, Owner[x])
    /\ k \in got[x] \/ Direct(k) \in Range(bus[NodeOf[x]]) \/ WillShow(x, k)

\* It stays so as long as the client has its room, and what was to come has come.
LEMMA StillOwes ==
    ASSUME Typed, Onwards, NEW x \in Sockets, NEW k \in Messages, Owes(x, k),
           x \in room', k \in got[x] => k \in got'[x],
           Direct(k) \in Range(bus[NodeOf[x]]) =>
              Direct(k) \in Range(bus'[NodeOf[x]]) \/ k \in got'[x],
           WillShow(x, k) => WillShow(x, k)' \/ k \in got'[x]
    PROVE  Owes(x, k)'
<1>1. Sent(k)' /\ Concerns(k, Owner[x])'
  BY Past DEF Owes
<1> QED
  BY <1>1 DEF Owes

\* A handler that has not moved will still show it.
LEMMA StillShows ==
    ASSUME Typed, Onwards, NEW x \in Sockets, NEW k \in Messages, Sent(k), WillShow(x, k),
           pc'[x] = pc[x], read'[x] = read[x],
           pc[x] = "messages" /\ k \in kept[Owner[x]] => k \in kept'[Owner[x]]
    PROVE  WillShow(x, k)'
<1>1. Other(k, Owner[x])' = Other(k, Owner[x])
  BY Past
<1>2. FriendsOf(Owner[x])' = FriendsOf(Owner[x])
  BY DEF FriendsOf
<1> QED
  BY <1>1, <1>2 DEF WillShow

\* A step that takes no message from the bus, no client out of its room and
\* nothing from any list.
Calm(x) ==
    /\ x \in room => x \in room'
    /\ due'[x] \subseteq due[x] /\ got[x] \subseteq got'[x]
    /\ \A k \in Messages : Direct(k) \in Range(bus[NodeOf[x]])
                              => Direct(k) \in Range(bus'[NodeOf[x]])
    /\ pc'[x] = pc[x] \/ pc[x] \notin {"messages", "friends", "sync"}
    /\ read'[x] = read[x]
    /\ \A k \in due'[x] : pc[x] = "messages" /\ k \in kept[Owner[x]] => k \in kept'[Owner[x]]

\* A calm step leaves what is owed as it is.
LEMMA CalmOwes ==
    ASSUME Typed, Onwards, Owing, NEW x \in Sockets, Calm(x), NEW k \in due'[x]
    PROVE  Owes(x, k)'
<1>1. k \in Messages /\ k \in due[x] /\ Owes(x, k)
  BY DEF Calm, Owing, Owes, Typed
<1>2. ASSUME WillShow(x, k) PROVE WillShow(x, k)'
  <2>1. pc[x] \in {"messages", "friends", "sync"}
    BY <1>2 DEF WillShow
  <2>2. /\ pc'[x] = pc[x] /\ read'[x] = read[x]
        /\ pc[x] = "messages" /\ k \in kept[Owner[x]] => k \in kept'[Owner[x]]
    BY <2>1 DEF Calm
  <2>3. Sent(k)
    BY <1>1 DEF Owes
  <2> QED
    BY <1>1, <1>2, <2>2, <2>3, StillShows
<1>3. /\ x \in room' /\ (k \in got[x] => k \in got'[x])
      /\ Direct(k) \in Range(bus[NodeOf[x]]) => Direct(k) \in Range(bus'[NodeOf[x]])
  BY <1>1 DEF Calm, Owes
<1> QED
  BY <1>1, <1>2, <1>3, StillOwes

\* The last step of a handler: what was to be shown has been.
LEMMA EndOwes ==
    ASSUME Typed, Staged, Onwards, Owing, NEW s \in Sockets, NEW l \in Views, Ends(s, l),
           pc[s] \in {"friends", "sync"}, UNCHANGED <<sock, room, kept, msg, due>>,
           NEW x \in Sockets, NEW k \in due'[x]
    PROVE  Owes(x, k)'
<1>1. PICK n \in Nodes, e \in Packets :
         n = NodeOf[s] /\ e = Status(Owner[s], "online")
  BY Places, Forms, StatusesAre
<1>2. Publish(n, e)
  BY <1>1 DEF Ends
<1>3. \A y \in Nodes : Range(bus[y]) \subseteq Range(bus'[y])
  BY <1>2, BusGrows
<1>4. k \in Messages /\ k \in due[x] /\ Owes(x, k)
  BY DEF Owing, Owes, Typed
<1>5. CASE x # s
  <2>1. Calm(x)
    BY <1>3, <1>5, Places DEF Calm, Ends, Typed
  <2> QED
    BY <2>1, CalmOwes
<1>6. CASE x = s
  <2>1. WillShow(x, k) => k \in got'[x]
    <3>1. Open(s)
      BY <1>4, <1>6 DEF Owes, Staged
    <3>2. WillShow(s, k) => k \in Shown(read[s], Owner[s])
      BY DEF WillShow, Shown
    <3> QED
      BY <1>6, <3>1, <3>2 DEF Ends
  <2>2. x \in room' /\ (k \in got[x] => k \in got'[x])
    BY <1>4 DEF Owes, Ends
  <2>3. Direct(k) \in Range(bus[NodeOf[x]]) => Direct(k) \in Range(bus'[NodeOf[x]])
    BY <1>3, Places
  <2> QED
    BY <1>4, <2>1, <2>2, <2>3, StillOwes
<1> QED
  BY <1>5, <1>6
\* A client that enters its room is owed what its own list holds.
LEMMA EntersOwed ==
    ASSUME Typed, Stored, NEW s \in Sockets, Open(s), Owed(s), NEW k \in due'[s]
    PROVE  /\ k \in Messages /\ Sent(k) /\ Concerns(k, Owner[s])
           /\ k \in kept[Owner[s]] /\ Other(k, Owner[s]) \in FriendsOf(Owner[s])
<1> DEFINE lists == IF Owner[s] \in dropped THEN {Owner[s]} ELSE Users
<1> DEFINE stored == UNION {kept[w] : w \in lists}
<1>1. lists \subseteq Users /\ (Owner[s] \notin dropped \/ lists = {Owner[s]})
  BY Places
<1>2. due'[s] = Shown({j \in stored : Concerns(j, Owner[s])}, Owner[s])
  BY DEF Owed, Typed
<1> HIDE DEF lists
<1>3. /\ k \in stored /\ Concerns(k, Owner[s])
      /\ Other(k, Owner[s]) \in FriendsOf(Owner[s])
  BY <1>2 DEF Shown
<1>4. PICK w \in lists : k \in kept[w]
  BY <1>3
<1>5. w \in Users /\ k \in Messages /\ Sent(k)
  BY <1>1, <1>4 DEF Typed, Stored
<1>6. k \in kept[Owner[s]]
  <2>1. CASE Owner[s] \in dropped
    BY <1>1, <1>4, <2>1
  <2>2. CASE Owner[s] \notin dropped
    BY <1>3, <1>4, <1>5, <2>2, Places DEF Stored
  <2> QED
    BY <2>1, <2>2
<1> QED
  BY <1>3, <1>5, <1>6

\* What a client is owed it has, or it is on its way.
LEMMA OwingKept ==
    ASSUME Typed, Staged, Stored, Bused, Owing,
           NEW s, NEW n, NEW u, NEW v, NEW m, NEW f, NEW c, NEW l,
           Deed(s, n, u, v, m, f, c, l)
    PROVE  Owing'
<1> USE DEF live, redis, client, tracks
<1>0. Onwards
  BY OnwardsKept
<1>a. ASSUME \A x \in Sockets : Calm(x) PROVE Owing'
  <2>1. \A x \in Sockets : \A k \in due'[x] : Owes(x, k)'
    BY <1>0, <1>a, CalmOwes
  <2> QED
    BY <2>1 DEF Owing, Owes
<1>b. ASSUME \A x \in Sockets : \A k \in due'[x] : Owes(x, k)' PROVE Owing'
  BY <1>b DEF Owing, Owes
<1>1. CASE s \in Sockets /\ Connect(s)
  <2>1. \A x \in Sockets : Calm(x)
    BY <1>1 DEF Connect, Move, Calm, Typed
  <2> QED
    BY <1>a, <2>1
<1>2. CASE Turns(s)
  <2> SUFFICES ASSUME NEW x \in Sockets, NEW k \in due'[x] PROVE Owes(x, k)'
    BY <1>b
  <2>1. x # s \/ pc[s] = "verify"
    BY <1>2 DEF Turns, Typed
  <2>2. due'[x] \subseteq due[x] /\ read'[x] = read[x]
    BY <1>2, <2>1 DEF Turns, Typed
  <2>3. Calm(x)
    BY <1>2, <2>1, <2>2 DEF Turns, Calm, Typed
  <2> QED
    BY <1>0, <2>3, CalmOwes
<1>3. CASE Verifies(s)
  <2>1. \A x \in Sockets : Calm(x)
    BY <1>3 DEF Verifies, Calm, Typed
  <2> QED
    BY <1>a, <2>1
<1>4. CASE s \in Sockets /\ list[s] \in Views /\ Friendless(s)
  <2>1. PICK k \in Views : k = list[s]
    BY <1>4
  <2>2. Ends(s, k) /\ pc[s] \in {"friends", "sync"} /\ UNCHANGED <<sock, room, kept, msg, due>>
    BY <1>4, <2>1, FinishFields DEF Friendless
  <2> QED
    BY <1>0, <1>b, <1>4, <2>2, EndOwes
<1>5. CASE s \in Sockets /\ AsksFirst(s, v)
  <2> SUFFICES ASSUME NEW x \in Sockets, NEW k \in due'[x] PROVE Owes(x, k)'
    BY <1>b
  <2>1. CASE x # s
    <3>1. Calm(x)
      BY <1>5, <2>1 DEF AsksFirst, Calm, Typed
    <3> QED
      BY <1>0, <3>1, CalmOwes
  <2>2. CASE x = s
    <3>1. /\ pc[s] = "friends" /\ pc'[s] = "sync"
          /\ UNCHANGED <<read, kept, msg, due, room, got, bus>>
      BY <1>5 DEF AsksFirst, Typed
    <3>2. Owes(x, k)
      BY <3>1 DEF Owing, Owes
    <3> QED
      BY <2>2, <3>1, <3>2 DEF Owes, WillShow, Sent, Concerns, Other
  <2> QED
    BY <2>1, <2>2
<1>6. CASE PartsKnown(s) \/ PartsUnknown(s)
  <2>1. s \in Sockets /\ Closing(s)
    BY <1>6 DEF PartsKnown, PartsUnknown
  <2>2. \A y \in Nodes : Range(bus[y]) \subseteq Range(bus'[y])
    <3>1. CASE PartsUnknown(s)
      BY <3>1 DEF PartsUnknown
    <3>2. CASE PartsKnown(s)
      <4>1. PICK y \in Nodes, e \in Packets :
               y = NodeOf[s] /\ e = Status(Owner[s], "offline")
        BY <2>1, Places, Forms, StatusesAre
      <4>2. Publish(y, e)
        BY <3>2, <4>1 DEF PartsKnown, Leaves
      <4> QED
        BY <4>2, BusGrows
    <3> QED
      BY <1>6, <3>1, <3>2
  <2> SUFFICES ASSUME NEW x \in Sockets, NEW k \in due'[x] PROVE Owes(x, k)'
    BY <1>b
  <2>3. x # s
    BY <2>1 DEF Closing, Typed
  <2>4. Calm(x)
    BY <2>1, <2>2, <2>3, Places DEF Calm, Closing, Typed
  <2> QED
    BY <1>0, <2>4, CalmOwes
<1>7. CASE Sends(s, v, m)
  <2>1. PICK y \in Nodes, w \in Users, e \in Packets :
           y = NodeOf[s] /\ w = Owner[s] /\ e = Direct(m)
    BY <1>7, Places, Forms DEF Sends
  <2>2. /\ s \in Sockets /\ v \in Users /\ m \in Messages /\ Publish(y, e) /\ ~Sent(m)
        /\ msg' = [msg EXCEPT ![m] = [from |-> w, to |-> v]]
        /\ got' = Got(y, m, {w, v})
        /\ due' = [t \in Sockets |-> IF t \in room /\ Owner[t] \in {w, v}
                                     THEN due[t] \cup {m} ELSE due[t]]
        /\ UNCHANGED <<sock, pc, room, read, kept>>
    BY <1>7, <2>1 DEF Sends, SendMessage
  <2>3. \A z \in Nodes : Range(bus[z]) \subseteq Range(bus'[z]) /\ (z # y => e \in Range(bus'[z]))
    BY <2>2, BusGrows
  <2>4. Sent(m)' /\ msg'[m].from = w /\ msg'[m].to = v
    BY <2>1, <2>2 DEF Sent, Typed
  <2> SUFFICES ASSUME NEW x \in Sockets, NEW k \in due'[x] PROVE Owes(x, k)'
    BY <1>b
  <2>5. \A z \in Sockets : got[z] \subseteq got'[z]
    BY <2>2 DEF Got
  <2>6. CASE k \in due[x]
    <3>1. k \in Messages /\ Owes(x, k)
      BY <2>6 DEF Owing, Owes, Typed
    <3>2. WillShow(x, k) => WillShow(x, k)'
      BY <1>0, <2>2, <3>1, StillShows DEF Owes
    <3>3. /\ x \in room' /\ (k \in got[x] => k \in got'[x])
          /\ Direct(k) \in Range(bus[NodeOf[x]]) => Direct(k) \in Range(bus'[NodeOf[x]])
      BY <2>2, <2>3, <2>5, <3>1, Places DEF Owes
    <3> QED
      BY <1>0, <3>1, <3>2, <3>3, StillOwes
  <2>7. CASE k \notin due[x]
    <3>1. k = m /\ x \in room /\ Owner[x] \in {w, v}
      BY <2>2, <2>7
    <3>2. Concerns(m, Owner[x])'
      BY <2>4, <3>1 DEF Concerns
    <3>3. NodeOf[x] # y => Direct(m) \in Range(bus'[NodeOf[x]])
      BY <2>1, <2>3, Places
    <3>4. NodeOf[x] = y => m \in got'[x]
      BY <2>2, <3>1 DEF Got, Hearing, Staged
    <3> QED
      BY <2>2, <2>4, <3>1, <3>2, <3>3, <3>4 DEF Owes
  <2> QED
    BY <2>6, <2>7
<1>8. CASE SavesAs(n, u, f, c)
  <2>1. \A x \in Sockets : Calm(x)
    BY <1>8 DEF SavesAs, Calm
  <2> QED
    BY <1>a, <2>1
<1>9. CASE s \in Sockets /\ FindsFor(n, s, f)
  <2> SUFFICES ASSUME NEW x \in Sockets, NEW k \in due'[x] PROVE Owes(x, k)'
    BY <1>b
  <2>1. CASE x # s
    <3>1. Calm(x)
      BY <1>9, <2>1 DEF FindsFor, Owed, Calm, Typed
    <3> QED
      BY <1>0, <3>1, CalmOwes
  <2>2. CASE x = s
    <3>1. Open(s)
      BY <1>9, <2>2 DEF FindsFor, Owed, Typed
    <3>2. /\ k \in Messages /\ Sent(k) /\ Concerns(k, Owner[s])
          /\ k \in kept[Owner[s]] /\ Other(k, Owner[s]) \in FriendsOf(Owner[s])
      BY <1>9, <2>2, <3>1, EntersOwed DEF FindsFor
    <3>3. pc'[s] = "messages" /\ UNCHANGED <<msg, kept>> /\ s \in room'
      BY <1>9, <3>1 DEF FindsFor, Typed
    <3> QED
      BY <2>2, <3>2, <3>3 DEF Owes, WillShow, Sent, Concerns, Other, FriendsOf
  <2> QED
    BY <2>1, <2>2
<1>10. CASE s \in Sockets /\ ReadsFor(n, s)
  <2> SUFFICES ASSUME NEW x \in Sockets, NEW k \in due'[x] PROVE Owes(x, k)'
    BY <1>b
  <2>1. CASE x # s
    <3>1. Calm(x)
      BY <1>10, <2>1 DEF ReadsFor, Calm, Typed
    <3> QED
      BY <1>0, <3>1, CalmOwes
  <2>2. CASE x = s
    <3>1. /\ pc[s] = "messages" /\ pc'[s] = "friends" /\ read'[s] = kept[Owner[s]]
          /\ UNCHANGED <<msg, due, room, got, bus>>
      BY <1>10 DEF ReadsFor, Typed
    <3>2. Owes(x, k)
      BY <3>1 DEF Owing, Owes
    <3> QED
      BY <2>2, <3>1, <3>2 DEF Owes, WillShow, Sent, Concerns, Other, FriendsOf
  <2> QED
    BY <2>1, <2>2
<1>11. CASE s \in Sockets /\ ReadsNext(n, s, v, l)
  <2>1. \A x \in Sockets : Calm(x)
    BY <1>11 DEF ReadsNext, ReadsFriend, Calm
  <2> QED
    BY <1>a, <2>1
<1>12. CASE s \in Sockets /\ l \in Views /\ ReadsLast(n, s, v, l)
  <2>1. Ends(s, l) /\ pc[s] \in {"friends", "sync"} /\ UNCHANGED <<sock, room, kept, msg, due>>
    BY <1>12, FinishFields DEF ReadsLast, ReadsFriend
  <2> QED
    BY <1>0, <1>b, <1>12, <2>1, EndOwes
<1>13. CASE Keeps(n, m)
  <2>1. \A x \in Sockets : Calm(x)
    BY <1>13, Places DEF Keeps, Calm
  <2> QED
    BY <1>a, <2>1
<1>14. CASE HearsStatus(n, v, c)
  <2>1. /\ n \in Nodes /\ bus[n] # <<>> /\ Head(bus[n]).on = "status"
        /\ bus' = [bus EXCEPT ![n] = Tail(@)]
    BY <1>14, Forms DEF HearsStatus
  <2>2. \A y \in Nodes : \A k \in Messages : Direct(k) \in Range(bus[y])
                                               => Direct(k) \in Range(bus'[y])
    BY <2>1, Arrived, Forms
  <2>3. \A x \in Sockets : Calm(x)
    BY <1>14, <2>2, Places DEF HearsStatus, Calm
  <2> QED
    BY <1>a, <2>3
<1>15. CASE HearsMessage(n, m)
  <2>1. /\ n \in Nodes /\ m \in Messages /\ bus[n] # <<>> /\ Head(bus[n]) = Direct(m)
        /\ bus' = [bus EXCEPT ![n] = Tail(@)]
        /\ got' = Got(n, m, {msg[m].from, msg[m].to})
        /\ UNCHANGED <<sock, pc, room, read, kept, due, msg>>
    BY <1>15 DEF HearsMessage
  <2>2. \A y \in Nodes : \A e \in Range(bus[y]) : e \in Range(bus'[y]) \/ (y = n /\ e = Direct(m))
    BY <2>1, Arrived
  <2>3. \A k \in Messages : Direct(k) = Direct(m) => k = m
    BY <2>1, Forms
  <2> SUFFICES ASSUME NEW x \in Sockets, NEW k \in due'[x] PROVE Owes(x, k)'
    BY <1>b
  <2>4. k \in Messages /\ Owes(x, k)
    BY <2>1 DEF Owing, Owes, Typed
  <2>5. WillShow(x, k) => WillShow(x, k)'
    BY <1>0, <2>1, <2>4, StillShows DEF Owes
  <2>6. x \in room' /\ (k \in got[x] => k \in got'[x])
    BY <2>1, <2>4 DEF Got, Owes
  <2>7. NodeOf[x] = n /\ k = m => k \in got'[x]
    BY <2>1, <2>4 DEF Got, Owes, Hearing, Staged, Concerns
  <2>8. Direct(k) \in Range(bus[NodeOf[x]]) =>
           Direct(k) \in Range(bus'[NodeOf[x]]) \/ k \in got'[x]
    BY <2>2, <2>3, <2>4, <2>7, Places
  <2> QED
    BY <1>0, <2>4, <2>5, <2>6, <2>8, StillOwes
<1>16. CASE n \in Nodes /\ Crash(n)
  <2> SUFFICES ASSUME NEW x \in Sockets, NEW k \in due'[x] PROVE Owes(x, k)'
    BY <1>b
  <2>1. NodeOf[x] # n
    BY <1>16 DEF Crash, Typed
  <2>2. Calm(x)
    BY <1>16, <2>1 DEF Crash, Calm, Typed
  <2> QED
    BY <1>0, <2>2, CalmOwes
<1>17. CASE Expire(u)
  <2>1. \A x \in Sockets : Calm(x)
    BY <1>17 DEF Expire, Calm
  <2> QED
    BY <1>a, <2>1
<1>18. CASE u \in Users /\ ExpireMessages(u)
  <2>1. \A x \in Sockets : Calm(x)
    BY <1>18, Places DEF ExpireMessages, Calm, Typed
  <2> QED
    BY <1>a, <2>1
<1> QED
  BY <1>1, <1>2, <1>3, <1>4, <1>5, <1>6, <1>7, <1>8, <1>9, <1>10, <1>11, <1>12, <1>13,
     <1>14, <1>15, <1>16, <1>17, <1>18, Zenon DEF Deed
------------------------------------------------------------------------------
\* Saves in the stores, and who answers for them.

\* A step that puts and takes no save.
Quiet(n, X, taken) ==
    /\ Moved(n, X, taken) /\ (\A i \in X : i.op # "save")
    /\ taken => Head(store[n]).op # "save"
    /\ UNCHANGED session

\* Of a kind of save, in a quiet step, nothing changes.
LEMMA QuietQueue ==
    ASSUME Typed, NEW n \in Nodes, NEW X, NEW taken, Quiet(n, X, taken), NEW y \in Nodes,
           NEW A, NEW B, \A i \in A \cup B : i.op = "save"
    PROVE  /\ After(store[y], A, B) => After(store'[y], A, B)
           /\ Pending(y, A) => Pending(y, A)'
<1>1. \A i \in A : i \notin X
  BY DEF Quiet
<1>2. After(store[y], A, B) => After(store'[y], A, B)
  <2>1. CASE y = n
    BY <1>1, <2>1 DEF Quiet, Moved
  <2>2. CASE y # n
    BY <2>2 DEF Quiet, Moved
  <2> QED
    BY <2>1, <2>2
<1>3. ASSUME NEW i \in A, i \in Range(store[y]) PROVE i \in Range(store'[y])
  <2>1. CASE y = n
    BY <1>3, <2>1 DEF Quiet, Moved
  <2>2. CASE y # n
    BY <1>3, <2>2 DEF Quiet, Moved
  <2> QED
    BY <2>1, <2>2
<1>4. (\E i \in A : i \in Range(store[y])) => \E i \in A : i \in Range(store'[y])
  BY <1>3
<1> QED
  BY <1>2, <1>4, Zenon DEF Pending

\* The steps of handlers and of Redis that are quiet.
LEMMA QuietSteps ==
    ASSUME Typed, NEW s, NEW n, NEW v, NEW m, NEW l,
           \/ n \in Nodes /\ Turns(s) /\ Loses(n, s, v)
           \/ Verifies(s)
           \/ s \in Sockets /\ v \in Users /\ AsksFirst(s, v)
           \/ Sends(s, v, m)
           \/ n \in Nodes /\ s \in Sockets /\ ReadsFor(n, s)
           \/ n \in Nodes /\ s \in Sockets /\ v \in Users /\ l \in Views /\ ReadsNext(n, s, v, l)
           \/ n \in Nodes /\ s \in Sockets /\ v \in Users /\ l \in Views /\ ReadsLast(n, s, v, l)
           \/ n \in Nodes /\ m \in Messages /\ Keeps(n, m)
    PROVE  \E y \in Nodes : \E X, taken : Quiet(y, X, taken)
<1> USE DEF live, redis, client, tracks
<1>1. CASE Verifies(s)
  <2>1. NodeOf[s] \in Nodes /\ Find(s).op # "save"
    BY <1>1, Places, Forms DEF Verifies
  <2>2. Quiet(NodeOf[s], {Find(s)}, FALSE)
    BY <1>1, <2>1 DEF Quiet, Verifies
  <2> QED
    BY <2>1, <2>2
<1>2. CASE s \in Sockets /\ v \in Users /\ AsksFirst(s, v)
  <2>1. NodeOf[s] \in Nodes /\ FindFriend(s, v).op # "save"
    BY <1>2, Places, Forms
  <2>2. Quiet(NodeOf[s], {FindFriend(s, v)}, FALSE)
    BY <1>2, <2>1 DEF Quiet, AsksFirst
  <2> QED
    BY <2>1, <2>2
<1>3. CASE Sends(s, v, m)
  <2>1. NodeOf[s] \in Nodes /\ Keep(m).op # "save"
    BY <1>3, Places, Forms DEF Sends
  <2>2. Quiet(NodeOf[s], {Keep(m)}, FALSE)
    BY <1>3, <2>1 DEF Quiet, Sends, SendMessage
  <2> QED
    BY <2>1, <2>2
<1>4. CASE n \in Nodes /\ s \in Sockets /\ ReadsFor(n, s)
  <2>1. Quiet(n, {}, TRUE)
    BY <1>4 DEF Quiet, ReadsFor
  <2> QED
    BY <1>4, <2>1
<1>5. CASE n \in Nodes /\ s \in Sockets /\ v \in Users /\ l \in Views /\ ReadsNext(n, s, v, l)
  <2>1. PICK w \in FriendsOf(Owner[s]) : Moved(n, {FindFriend(s, w)}, TRUE)
    BY <1>5 DEF ReadsNext
  <2>2. Head(store[n]).op # "save" /\ FindFriend(s, w).op # "save" /\ UNCHANGED session
    BY <1>5, Forms DEF ReadsNext, ReadsFriend, FriendsOf
  <2>3. Quiet(n, {FindFriend(s, w)}, TRUE)
    BY <2>1, <2>2 DEF Quiet
  <2> QED
    BY <1>5, <2>3
<1>6. CASE n \in Nodes /\ s \in Sockets /\ v \in Users /\ l \in Views /\ ReadsLast(n, s, v, l)
  <2>1. Head(store[n]).op # "save" /\ UNCHANGED session /\ Moved(n, {}, TRUE)
    <3>1. /\ Head(store[n]) = FindFriend(s, v) /\ UNCHANGED session /\ Moved(n, {}, TRUE)
      BY <1>6 DEF ReadsLast, ReadsFriend
    <3>2. FindFriend(s, v).op = "friend"
      BY <1>6, Forms
    <3> QED
      BY <3>1, <3>2
  <2>2. Quiet(n, {}, TRUE)
    BY <2>1 DEF Quiet
  <2> QED
    BY <1>6, <2>2
<1>7. CASE n \in Nodes /\ m \in Messages /\ Keeps(n, m)
  <2>1. Quiet(n, {}, TRUE)
    BY <1>7 DEF Quiet, Keeps
  <2> QED
    BY <1>7, <2>1
<1>8. CASE n \in Nodes /\ Turns(s) /\ Loses(n, s, v)
  <2>1. Quiet(n, {}, TRUE)
    BY <1>8 DEF Quiet, Turns, Loses
  <2> QED
    BY <1>8, <2>1
<1> QED
  BY <1>1, <1>2, <1>3, <1>4, <1>5, <1>6, <1>7, <1>8

Vouches(x) == x \in room \/ cut[x] \in {"early", "crash"}

\* Who answers for a user still does, unless it is the one that leaves.
LEMMA WitnessStays ==
    ASSUME NEW u \in Users, NEW n \in Nodes,
           \A x \in Sockets : Owner[x] = u /\ NodeOf[x] = n /\ Vouches(x) => Vouches(x)'
    PROVE  Witness(u, n) => Witness(u, n)'
<1> SUFFICES ASSUME NEW x \in SocketsOf(u), NodeOf[x] = n, Vouches(x)
             PROVE  Witness(u, n)'
  BY DEF Witness, Vouches
<1>1. x \in Sockets /\ Owner[x] = u
  BY DEF SocketsOf
<1>2. Vouches(x)'
  BY <1>1
<1>3. \E z \in SocketsOf(u) : NodeOf[z] = n /\ Vouches(z)'
  BY <1>2
<1> QED
  BY <1>3 DEF Witness, Vouches, SocketsOf

\* A user's saves in a quiet step.
LEMMA AnsweredQuiet ==
    ASSUME Typed, Answered, NEW n \in Nodes, NEW X, NEW taken, Quiet(n, X, taken),
           \A x \in Sockets : Vouches(x) => Vouches(x)'
    PROVE  Answered'
<1>1. ASSUME NEW u \in Users, NEW y \in Nodes
      PROVE  /\ Witness(u, y) => Witness(u, y)'
             /\ After(store[y], Onlines(u), Offlines(u)) => After(store'[y], Onlines(u), Offlines(u))
             /\ Pending(y, Offlines(u)) => Pending(y, Offlines(u))'
  <2>1. \A i \in Onlines(u) \cup Offlines(u) : i.op = "save"
    BY DEF Onlines, Offlines, Save
  <2>2. Witness(u, y) => Witness(u, y)'
    BY WitnessStays
  <2>3. After(store[y], Onlines(u), Offlines(u)) => After(store'[y], Onlines(u), Offlines(u))
    BY <2>1, QuietQueue
  <2>4. \A i \in Offlines(u) \cup Offlines(u) : i.op = "save"
    BY <2>1
  <2>5. Pending(y, Offlines(u)) => Pending(y, Offlines(u))'
    BY <2>4, QuietQueue
  <2> QED
    BY <2>2, <2>3, <2>5
<1>2. session' = session
  BY DEF Quiet
<1>3. \A u \in Users : Onlines(u)' = Onlines(u) /\ Offlines(u)' = Offlines(u)
  BY DEF Onlines, Offlines, Save
<1> QED
  BY <1>1, <1>2, <1>3, Zenon DEF Answered

\* A step that leaves the stores and sessions alone.
LEMMA AnsweredSame ==
    ASSUME Typed, Answered, UNCHANGED <<store, session>>,
           \A x \in Sockets : Vouches(x) => Vouches(x)'
    PROVE  Answered'
<1>1. ASSUME NEW u \in Users, NEW y \in Nodes PROVE Witness(u, y) => Witness(u, y)'
  BY WitnessStays
<1>2. \A u \in Users : Onlines(u)' = Onlines(u) /\ Offlines(u)' = Offlines(u)
  BY DEF Onlines, Offlines, Save
<1>3. \A y \in Nodes, u \in Users : Pending(y, Offlines(u))' = Pending(y, Offlines(u))
  BY <1>2 DEF Pending
<1> QED
  BY <1>1, <1>2, <1>3 DEF Answered
\* Whatever says online is answered for, or an "offline" comes after it: the
\* save of a socket that leaves is such an "offline", the save of one that comes
\* is answered for by the socket itself.
LEMMA AnsweredKept ==
    ASSUME Typed, Staged, Errands, Answered,
           NEW s, NEW n, NEW u, NEW v, NEW m, NEW f, NEW c, NEW l,
           Deed(s, n, u, v, m, f, c, l)
    PROVE  Answered'
<1> USE DEF live, redis, client, tracks
<1>a. \A x \in Sockets : Vouches(x) => sock[x] \in {"open", "closed"}
  BY DEF Vouches, Staged, Open, Typed
<1>q. ASSUME NEW y \in Nodes, NEW X, NEW taken, Quiet(y, X, taken), UNCHANGED <<room, cut>>
      PROVE  Answered'
  <2>1. \A x \in Sockets : Vouches(x) => Vouches(x)'
    BY <1>q DEF Vouches
  <2> QED
    BY <1>q, <2>1, AnsweredQuiet
<1>r. ASSUME UNCHANGED <<store, session, room, cut>> PROVE Answered'
  <2>1. \A x \in Sockets : Vouches(x) => Vouches(x)'
    BY <1>r DEF Vouches
  <2> QED
    BY <1>r, <2>1, AnsweredSame
<1>1. CASE s \in Sockets /\ Connect(s)
  <2>1. \A x \in Sockets : Vouches(x) => Vouches(x)'
    BY <1>1 DEF Connect, Vouches
  <2>2. UNCHANGED <<store, session>>
    BY <1>1 DEF Connect
  <2> QED
    BY <2>1, <2>2, AnsweredSame
<1>2. CASE Turns(s) /\ pc[s] # "sync" /\ UNCHANGED store
  <2>1. UNCHANGED <<store, session, room, cut>>
    BY <1>2 DEF Turns
  <2> QED
    BY <1>r, <2>1
<1>19. CASE n \in Nodes /\ Turns(s) /\ Loses(n, s, v)
  <2>1. UNCHANGED <<room, cut>>
    BY <1>19 DEF Turns
  <2> QED
    BY <1>19, <1>q, <2>1, QuietSteps
<1>3. CASE Verifies(s)
  <2>1. UNCHANGED <<room, cut>>
    BY <1>3 DEF Verifies
  <2> QED
    BY <1>3, <1>q, <2>1, QuietSteps
<1>4. CASE s \in Sockets /\ list[s] \in Views /\ Friendless(s)
  <2>1. PICK k \in Views : k = list[s]
    BY <1>4
  <2>2. UNCHANGED <<store, session, room, cut>>
    BY <1>4 DEF Friendless
  <2> QED
    BY <1>r, <2>2
<1>5. CASE s \in Sockets /\ v \in Users /\ AsksFirst(s, v)
  <2>1. UNCHANGED <<room, cut>>
    BY <1>5 DEF AsksFirst
  <2> QED
    BY <1>5, <1>q, <2>1, QuietSteps
<1>6. CASE PartsKnown(s)
  <2>1. PICK y, w, i : /\ y \in Nodes /\ y = NodeOf[s] /\ w \in Users /\ w = Owner[s]
                       /\ i \in Offlines(w) /\ i = Save(w, FALSE, "offline")
    BY <1>6, Places, SetForms DEF PartsKnown
  <2>2. Moved(y, {i}, FALSE) /\ s \in Sockets /\ Closing(s) /\ UNCHANGED session
    BY <1>6, <2>1 DEF PartsKnown, Closing
  <2>3. \A x \in Sockets : x # s /\ Vouches(x) => Vouches(x)'
    BY <2>2 DEF Closing, Vouches, Typed
  <2>4. ASSUME NEW p \in Users, NEW z \in Nodes, p # w \/ z # y
        PROVE  Witness(p, z) => Witness(p, z)'
    BY <2>1, <2>3, <2>4, WitnessStays
  <2>5. \A p \in Users : \A j \in Onlines(p) : j # i
    BY <2>1 DEF Onlines, Save
  <2>6. \A z \in Nodes, p \in Users : After(store[z], Onlines(p), Offlines(p))
                                        => After(store'[z], Onlines(p), Offlines(p))
    BY <2>2, <2>5 DEF Moved
  <2>7. i \in Range(store'[y]) /\ After(store'[y], Onlines(w), Offlines(w))
    <3>1. i \in Range(store'[y])
      BY <2>2 DEF Moved
    <3>2. (\A j \in Onlines(w) : j \notin {i}) /\ (\E j \in Offlines(w) : j \in {i})
      BY <2>1, <2>5
    <3>3. \A A, B : (\A j \in A : j \notin {i}) /\ (\E j \in B : j \in {i}) => After(store'[y], A, B)
      BY <2>2 DEF Moved
    <3> QED
      BY <3>1, <3>2, <3>3
  <2>8. \A z \in Nodes, p \in Users : Pending(z, Offlines(p)) => Pending(z, Offlines(p))'
    <3>1. \A z \in Nodes : Range(store[z]) \subseteq Range(store'[z])
      BY <2>2 DEF Moved
    <3> QED
      BY <3>1 DEF Pending, Offlines, Save
  <2>9. Pending(y, Offlines(w))'
    BY <2>1, <2>7 DEF Pending, Offlines, Save
  <2>10. \A p \in Users : Onlines(p)' = Onlines(p) /\ Offlines(p)' = Offlines(p)
    BY DEF Onlines, Offlines, Save
  <2>11. ASSUME NEW p \in Users, NEW z \in Nodes
         PROVE  Witness(p, z)' \/ After(store'[z], Onlines(p), Offlines(p))
    <3>1. CASE p = w /\ z = y
      BY <2>7, <3>1
    <3>2. CASE p # w \/ z # y
      BY <2>4, <2>6, <3>2 DEF Answered
    <3> QED
      BY <3>1, <3>2
  <2>12. ASSUME NEW p \in Users, session[p].connection = "online"
         PROVE  \E z \in Nodes : Witness(p, z)' \/ Pending(z, Offlines(p))'
    <3>1. PICK z \in Nodes : Witness(p, z) \/ Pending(z, Offlines(p))
      BY <2>12 DEF Answered
    <3>2. CASE p = w /\ z = y
      BY <2>9, <3>2
    <3>3. CASE p # w \/ z # y
      BY <2>4, <2>8, <3>1, <3>3
    <3> QED
      BY <3>2, <3>3
  <2> QED
    BY <2>2, <2>10, <2>11, <2>12 DEF Answered
<1>7. CASE PartsUnknown(s)
  <2>1. s \in Sockets /\ Closing(s) /\ ~Known(s) /\ UNCHANGED <<store, session>>
    BY <1>7 DEF PartsUnknown, Closing
  <2>2. \A x \in Sockets : Vouches(x) => Vouches(x)'
    <3>1. s \notin room /\ cut[s] = "no"
      BY <2>1 DEF Closing, Open, Known, Staged, Entered
    <3> QED
      BY <2>1, <3>1 DEF Closing, Vouches, Typed
  <2> QED
    BY <2>1, <2>2, AnsweredSame
<1>8. CASE Sends(s, v, m)
  <2>1. UNCHANGED <<room, cut>>
    BY <1>8 DEF Sends, SendMessage
  <2> QED
    BY <1>8, <1>q, <2>1, QuietSteps
<1>9. CASE n \in Nodes /\ u \in Users /\ f \in BOOLEAN /\ c \in Statuses /\ SavesAs(n, u, f, c)
  <2>1. /\ store[n] # <<>> /\ Head(store[n]) = Save(u, f, c) /\ Moved(n, {}, TRUE)
        /\ session'[u].connection = c /\ \A w \in Users \ {u} : session'[w] = session[w]
        /\ UNCHANGED <<room, cut>>
    BY <1>9 DEF SavesAs
  <2>2. \A p \in Users, z \in Nodes : Witness(p, z)' = Witness(p, z)
    BY <2>1 DEF Witness, SocketsOf
  <2>3. \A p \in Users : Onlines(p)' = Onlines(p) /\ Offlines(p)' = Offlines(p)
    BY DEF Onlines, Offlines, Save
  <2>4. \A z \in Nodes, p \in Users : After(store[z], Onlines(p), Offlines(p))
                                        => After(store'[z], Onlines(p), Offlines(p))
    BY <2>1 DEF Moved
  <2>5. ASSUME NEW p \in Users, p # u, NEW z \in Nodes
        PROVE  Pending(z, Offlines(p)) => Pending(z, Offlines(p))'
    <3>1. \A i \in Offlines(p) : i # Head(store[n])
      BY <1>9, <2>1, <2>5 DEF Offlines, Save
    <3>2. \A i \in Offlines(p) : i \in Range(store[z]) => i \in Range(store'[z])
      BY <1>9, <2>1, <3>1 DEF Moved
    <3> QED
      BY <2>3, <3>2, Zenon DEF Pending
  <2>6. ASSUME c = "online" PROVE Witness(u, n) \/ Pending(n, Offlines(u))'
    <3>1. Head(store[n]) \in Onlines(u)
      BY <1>9, <2>1, <2>6 DEF Onlines
    <3>2. After(store[n], Onlines(u), Offlines(u)) => \E i \in Offlines(u) : i \in Range(store'[n])
      BY <2>1, <3>1 DEF Moved
    <3> QED
      BY <1>9, <2>3, <3>2 DEF Answered, Pending
  <2>7. ASSUME NEW p \in Users, session'[p].connection = "online"
        PROVE  \E z \in Nodes : Witness(p, z) \/ Pending(z, Offlines(p))'
    <3>1. CASE p = u
      BY <1>9, <2>1, <2>6, <2>7, <3>1
    <3>2. CASE p # u
      BY <2>1, <2>5, <2>7, <3>2 DEF Answered
    <3> QED
      BY <3>1, <3>2
  <2> QED
    BY <2>2, <2>3, <2>4, <2>7 DEF Answered
<1>10. CASE n \in Nodes /\ s \in Sockets /\ f \in BOOLEAN /\ FindsFor(n, s, f)
  <2>1. PICK w, i, j : /\ w \in Users /\ w = Owner[s]
                       /\ i = Save(w, f, "online") /\ j = ReadMessages(s)
    BY <1>10, Places
  <2>2. /\ Moved(n, {i, j}, TRUE) /\ pc[s] = "find" /\ pc'[s] = "messages" /\ NodeOf[s] = n
        /\ Head(store[n]).op = "find" /\ UNCHANGED <<cut, session>>
        /\ room \subseteq room' /\ (Open(s) => s \in room')
    <3>1. /\ Moved(n, {i, j}, TRUE) /\ pc[s] = "find" /\ pc' = [pc EXCEPT ![s] = "messages"]
          /\ NodeOf[s] = n /\ Head(store[n]).op = "find" /\ UNCHANGED <<cut, session>>
          /\ room' = IF Open(s) THEN room \cup {s} ELSE room
      BY <1>10, <2>1 DEF FindsFor
    <3> QED
      BY <1>10, <3>1 DEF Typed
  <2>3. \A p \in Users, z \in Nodes : Witness(p, z) => Witness(p, z)'
    BY <2>2, WitnessStays DEF Vouches
  <2>4. Witness(w, n)'
    <3>1. sock[s] = "open" \/ cut[s] = "early"
      BY <1>10, <2>2 DEF Staged, Typed
    <3>2. s \in SocketsOf(w)'
      BY <1>10, <2>1, Places DEF SocketsOf
    <3> QED
      BY <2>2, <3>1, <3>2 DEF Witness, Open
  <2>5. \A p \in Users : Onlines(p)' = Onlines(p) /\ Offlines(p)' = Offlines(p)
    BY DEF Onlines, Offlines, Save
  <2>6. ASSUME NEW p \in Users, NEW z \in Nodes, p # w \/ z # n
        PROVE  After(store[z], Onlines(p), Offlines(p)) => After(store'[z], Onlines(p), Offlines(p))
    <3>1. CASE z # n
      BY <2>2, <3>1 DEF Moved
    <3>2. CASE z = n
      <4>1. \A k \in Onlines(p) : k \notin {i, j}
        BY <2>1, <2>6, <3>2 DEF Onlines, Save, ReadMessages
      <4> QED
        BY <2>2, <3>2, <4>1 DEF Moved
    <3> QED
      BY <3>1, <3>2
  <2>7. \A p \in Users, z \in Nodes : Pending(z, Offlines(p)) => Pending(z, Offlines(p))'
    <3>1. \A p \in Users : \A k \in Offlines(p) : k # Head(store[n])
      BY <2>2 DEF Offlines, Save
    <3>2. \A p \in Users, z \in Nodes : \A k \in Offlines(p) :
             k \in Range(store[z]) => k \in Range(store'[z])
      <4>1. \A k \in Range(store[n]) : k \in Range(store'[n]) \/ k = Head(store[n])
        BY <2>2 DEF Moved
      <4>2. \A z \in Nodes : z # n => store'[z] = store[z]
        BY <2>2 DEF Moved
      <4> QED
        BY <3>1, <4>1, <4>2
    <3> QED
      BY <2>5, <3>2, Zenon DEF Pending
  <2>8. ASSUME NEW p \in Users, NEW z \in Nodes
        PROVE  Witness(p, z)' \/ After(store'[z], Onlines(p), Offlines(p))
    BY <2>3, <2>4, <2>6 DEF Answered
  <2> QED
    BY <2>2, <2>3, <2>5, <2>7, <2>8 DEF Answered
<1>11. CASE n \in Nodes /\ s \in Sockets /\ ReadsFor(n, s)
  <2>1. UNCHANGED <<room, cut>>
    BY <1>11 DEF ReadsFor
  <2> QED
    BY <1>11, <1>q, <2>1, QuietSteps
<1>12. CASE n \in Nodes /\ s \in Sockets /\ v \in Users /\ l \in Views /\ ReadsNext(n, s, v, l)
  <2>1. UNCHANGED <<room, cut>>
    BY <1>12 DEF ReadsNext, ReadsFriend
  <2> QED
    BY <1>12, <1>q, <2>1, QuietSteps
<1>13. CASE n \in Nodes /\ s \in Sockets /\ v \in Users /\ l \in Views /\ ReadsLast(n, s, v, l)
  <2>1. UNCHANGED <<room, cut>>
    BY <1>13 DEF ReadsLast, ReadsFriend
  <2> QED
    BY <1>13, <1>q, <2>1, QuietSteps
<1>14. CASE n \in Nodes /\ m \in Messages /\ Keeps(n, m)
  <2>1. UNCHANGED <<room, cut>>
    BY <1>14 DEF Keeps
  <2> QED
    BY <1>14, <1>q, <2>1, QuietSteps
<1>15. CASE HearsStatus(n, v, c) \/ HearsMessage(n, m)
  <2>1. UNCHANGED <<store, session, room, cut>>
    BY <1>15 DEF HearsStatus, HearsMessage
  <2> QED
    BY <1>r, <2>1
<1>16. CASE n \in Nodes /\ Crash(n)
  <2>1. \A x \in Sockets :
           IF NodeOf[x] = n
           THEN sock[x] # "new" => cut'[x] = "crash"
           ELSE (x \in room => x \in room') /\ cut'[x] = cut[x]
    BY <1>16 DEF Crash
  <2>2. \A p \in Users, z \in Nodes : Witness(p, z) => Witness(p, z)'
    <3>1. \A x \in Sockets : Vouches(x) => Vouches(x)'
      BY <1>a, <2>1 DEF Vouches
    <3> QED
      BY <3>1, WitnessStays
  <2>3. ASSUME NEW p \in Users, Pending(n, Offlines(p)) PROVE Witness(p, n)'
    <3>1. PICK i \in Range(store[n]) : i.op = "save" /\ i.user = p
      BY <2>3 DEF Pending, Offlines, Save
    <3>2. Came(p, n)
      BY <1>16, <3>1 DEF Errands, Fits
    <3> QED
      BY <2>1, <3>2 DEF Came, Witness, SocketsOf
  <2>4. \A p \in Users : Onlines(p)' = Onlines(p) /\ Offlines(p)' = Offlines(p)
    BY DEF Onlines, Offlines, Save
  <2>5. store'[n] = <<>> /\ \A z \in Nodes : z # n => store'[z] = store[z]
    BY <1>16 DEF Crash, Typed
  <2>6. \A A, B : After(<<>>, A, B)
    BY DEF After
  <2>7. \A p \in Users, z \in Nodes : z # n => Pending(z, Offlines(p))' = Pending(z, Offlines(p))
    BY <2>4, <2>5 DEF Pending
  <2>8. UNCHANGED session
    BY <1>16 DEF Crash
  <2> QED
    BY <2>2, <2>3, <2>4, <2>5, <2>6, <2>7, <2>8 DEF Answered
<1>17. CASE u \in Users /\ Expire(u)
  <2>1. /\ UNCHANGED <<room, cut, store>>
        /\ session' = [session EXCEPT ![u] = NoSession] /\ NoSession.connection = None
    BY <1>17 DEF Expire, NoSession
  <2>2. session'[u].connection # "online" /\ \A p \in Users : p # u => session'[p] = session[p]
    <3>1. None # "online"
      BY NoneIsNothing
    <3> QED
      BY <1>17, <2>1, <3>1 DEF Typed
  <2>3. \A p \in Users : Onlines(p)' = Onlines(p) /\ Offlines(p)' = Offlines(p)
    BY DEF Onlines, Offlines, Save
  <2>4. \A p \in Users, z \in Nodes : /\ Witness(p, z)' = Witness(p, z)
                                      /\ Pending(z, Offlines(p))' = Pending(z, Offlines(p))
    BY <2>1, <2>3 DEF Witness, SocketsOf, Pending
  <2> QED
    BY <2>1, <2>2, <2>3, <2>4 DEF Answered
<1>18. CASE u \in Users /\ ExpireMessages(u)
  <2>1. UNCHANGED <<store, session, room, cut>>
    BY <1>18 DEF ExpireMessages
  <2> QED
    BY <1>r, <2>1
<1> QED
  BY <1>1, <1>2, <1>3, <1>4, <1>5, <1>6, <1>7, <1>8, <1>9, <1>10, <1>11, <1>12, <1>13,
     <1>14, <1>15, <1>16, <1>17, <1>18, <1>19, Zenon DEF Deed
------------------------------------------------------------------------------
\* A socket of a user who has kept to one, on one node, past the first save.
Settled(x) ==
    x \in room /\ Owner[x] \notin doubled \cup lapsed /\ OneNode(Owner[x])

\* The last save of the user of x says online.
Saves(x) ==
    /\ After(store[NodeOf[x]], Offlines(Owner[x]), Onlines(Owner[x]))
    /\ session[Owner[x]].connection = "online" \/ Pending(NodeOf[x], Onlines(Owner[x]))
    /\ session[Owner[x]].uid \/ Pending(NodeOf[x], Fulls(Owner[x]))

\* Saving, socket by socket.
LEMMA SavingIs == Typed => (Saving <=> \A x \in Sockets : Settled(x) => Saves(x))
  BY DEF Saving, Settled, Saves, Typed

\* A quiet step keeps the last save, ...
LEMMA SavesQuiet ==
    ASSUME Typed, NEW n \in Nodes, NEW X, NEW taken, Quiet(n, X, taken),
           NEW x \in Sockets, Saves(x)
    PROVE  Saves(x)'
<1>1. PICK u \in Users, y \in Nodes : u = Owner[x] /\ y = NodeOf[x]
  BY Places
<1>2. \A i \in Onlines(u) \cup Offlines(u) \cup Fulls(u) : i.op = "save"
  BY DEF Onlines, Offlines, Fulls, Save
<1>3. \A i \in Offlines(u) \cup Onlines(u) : i.op = "save"
  BY <1>2
<1>4. After(store[y], Offlines(u), Onlines(u)) => After(store'[y], Offlines(u), Onlines(u))
  BY <1>3, QuietQueue
<1>5. \A i \in Onlines(u) \cup Onlines(u) : i.op = "save"
  BY <1>2
<1>6. Pending(y, Onlines(u)) => Pending(y, Onlines(u))'
  BY <1>5, QuietQueue
<1>7. \A i \in Fulls(u) \cup Fulls(u) : i.op = "save"
  BY <1>2
<1>8. Pending(y, Fulls(u)) => Pending(y, Fulls(u))'
  BY <1>7, QuietQueue
<1>9. /\ Onlines(u)' = Onlines(u) /\ Offlines(u)' = Offlines(u) /\ Fulls(u)' = Fulls(u)
      /\ session' = session
  BY DEF Onlines, Offlines, Fulls, Save, Quiet
<1> QED
  BY <1>1, <1>4, <1>6, <1>8, <1>9, Zenon DEF Saves

\* ... one that leaves store and session alone does, ...
LEMMA SavesSame ==
    ASSUME Typed, NEW x \in Sockets, Saves(x), store'[NodeOf[x]] = store[NodeOf[x]],
           session'[Owner[x]] = session[Owner[x]]
    PROVE  Saves(x)'
<1>1. /\ Onlines(Owner[x])' = Onlines(Owner[x]) /\ Offlines(Owner[x])' = Offlines(Owner[x])
      /\ Fulls(Owner[x])' = Fulls(Owner[x])
  BY DEF Onlines, Offlines, Fulls, Save
<1>2. \A A : Pending(NodeOf[x], A)' = Pending(NodeOf[x], A)
  BY DEF Pending
<1> QED
  BY <1>1, <1>2 DEF Saves, Pending

\* Saves of other users come and go.
Foreign(n, X, taken, u) ==
    /\ \A i \in X : i.op = "save" => i.user # u \/ i \in Onlines(u)
    /\ taken => Head(store[n]).op # "save" \/ Head(store[n]).user # u

\* ... and one that saves somebody else's session.
LEMMA SavesElse ==
    ASSUME Typed, NEW n \in Nodes, NEW X, NEW taken, Moved(n, X, taken),
           NEW x \in Sockets, Saves(x), session'[Owner[x]] = session[Owner[x]],
           Foreign(n, X, taken, Owner[x])
    PROVE  Saves(x)'
<1> USE DEF Foreign
<1>1. PICK u \in Users, y \in Nodes : u = Owner[x] /\ y = NodeOf[x]
  BY Places
<1>2. \A i \in Onlines(u) \cup Offlines(u) \cup Fulls(u) : i.op = "save" /\ i.user = u
  BY DEF Onlines, Offlines, Fulls, Save
<1>3. \A i \in Offlines(u) : i \notin X
  BY <1>1, <1>2 DEF Onlines, Offlines, Save
<1>4. After(store[y], Offlines(u), Onlines(u)) => After(store'[y], Offlines(u), Onlines(u))
  <2>1. CASE y = n
    BY <1>3, <2>1 DEF Moved
  <2>2. CASE y # n
    BY <2>2 DEF Moved
  <2> QED
    BY <2>1, <2>2
<1>5. \A i \in Onlines(u) \cup Fulls(u) : i \in Range(store[y]) => i \in Range(store'[y])
  <2>1. CASE y = n
    BY <1>1, <1>2, <2>1 DEF Moved
  <2>2. CASE y # n
    BY <2>2 DEF Moved
  <2> QED
    BY <2>1, <2>2
<1>6. /\ Onlines(u)' = Onlines(u) /\ Offlines(u)' = Offlines(u) /\ Fulls(u)' = Fulls(u)
  BY DEF Onlines, Offlines, Fulls, Save
<1>7. /\ Pending(y, Onlines(u)) => Pending(y, Onlines(u))'
      /\ Pending(y, Fulls(u)) => Pending(y, Fulls(u))'
  <2>1. /\ (\E i \in Onlines(u) : i \in Range(store[y]))
             => \E i \in Onlines(u) : i \in Range(store'[y])
        /\ (\E i \in Fulls(u) : i \in Range(store[y]))
             => \E i \in Fulls(u) : i \in Range(store'[y])
    BY <1>5
  <2> QED
    BY <1>6, <2>1, Zenon DEF Pending
<1> QED
  BY <1>1, <1>4, <1>6, <1>7, Zenon DEF Saves

\* A user who has kept to one socket has no other that is open.
LEMMA OnlySocket ==
    ASSUME Staged, NEW x \in Sockets, NEW y \in Sockets, Settled(x), Open(y), Owner[y] = Owner[x]
    PROVE  x = y
  BY DEF Staged, Settled

\* The last save of a user who is connected says online: its session is saved
\* as online when it enters, and as offline only once it leaves.
LEMMA SavingKept ==
    ASSUME Typed, Typed', Staged, Errands, Saving,
           NEW s, NEW n, NEW u, NEW v, NEW m, NEW f, NEW c, NEW l,
           Deed(s, n, u, v, m, f, c, l)
    PROVE  Saving'
<1> USE DEF live, redis, client, tracks
<1>0. Onwards
  BY OnwardsKept
<1>s. room' \subseteq Sockets
  BY DEF Typed
<1>a. \A x \in Sockets : Settled(x) => Saves(x)
  BY SavingIs
<1>b. ASSUME \A x \in Sockets : Settled(x)' => Saves(x)' PROVE Saving'
  <2>1. room' \subseteq Sockets
    BY <1>s
  <2> QED
    BY <1>b, <2>1 DEF Saving, Settled, Saves
<1>c. ASSUME NEW x \in Sockets, Settled(x)', x \in room' => x \in room
      PROVE  Settled(x)
  <2>1. OneNode(Owner[x])' => OneNode(Owner[x])
    BY <1>0, Past, Places
  <2> QED
    BY <1>0, <1>c, <2>1 DEF Settled, Onwards
<1>e. ASSUME NEW y \in Nodes, NEW X, NEW taken, Quiet(y, X, taken), room' \subseteq room
      PROVE  Saving'
  <2> SUFFICES ASSUME NEW x \in Sockets, Settled(x)' PROVE Saves(x)'
    BY <1>b
  <2>1. Settled(x)
    BY <1>c, <1>e
  <2> QED
    BY <1>a, <1>e, <2>1, SavesQuiet
<1>f. ASSUME UNCHANGED <<store, session>>, room' \subseteq room PROVE Saving'
  <2> SUFFICES ASSUME NEW x \in Sockets, Settled(x)' PROVE Saves(x)'
    BY <1>b
  <2>1. Settled(x)
    BY <1>c, <1>f
  <2> QED
    BY <1>a, <1>f, <2>1, SavesSame
<1>1. CASE s \in Sockets /\ Connect(s)
  BY <1>1, <1>f DEF Connect
<1>17. CASE Turns(s) /\ pc[s] # "sync" /\ UNCHANGED store
  BY <1>17, <1>f DEF Turns
<1>18. CASE n \in Nodes /\ Turns(s) /\ Loses(n, s, v)
  <2>1. room' = room
    BY <1>18 DEF Turns
  <2> QED
    BY <1>18, <1>e, <2>1, QuietSteps
<1>2. CASE Verifies(s)
  <2>1. room' = room
    BY <1>2 DEF Verifies
  <2> QED
    BY <1>2, <1>e, <2>1, QuietSteps
<1>3. CASE s \in Sockets /\ list[s] \in Views /\ Friendless(s)
  BY <1>3, <1>f DEF Friendless
<1>4. CASE s \in Sockets /\ v \in Users /\ AsksFirst(s, v)
  <2>1. room' = room
    BY <1>4 DEF AsksFirst
  <2> QED
    BY <1>4, <1>e, <2>1, QuietSteps
<1>5. CASE PartsKnown(s)
  <2>1. PICK y, w, i : /\ y \in Nodes /\ y = NodeOf[s] /\ w \in Users /\ w = Owner[s]
                       /\ i = Save(w, FALSE, "offline")
    BY <1>5, Places DEF PartsKnown
  <2>2. /\ Moved(y, {i}, FALSE) /\ s \in Sockets /\ Closing(s) /\ UNCHANGED session
        /\ Open(s) /\ room' = room \ {s}
    BY <1>5, <2>1 DEF PartsKnown, Closing
  <2> SUFFICES ASSUME NEW x \in Sockets, Settled(x)' PROVE Saves(x)'
    BY <1>b
  <2>3. x # s
    BY <2>2 DEF Settled
  <2>4. Settled(x)
    BY <1>c, <2>2
  <2>5. Owner[x] # w
    BY <2>1, <2>2, <2>3, <2>4, OnlySocket
  <2>6. Foreign(y, {i}, FALSE, Owner[x])
    BY <2>1, <2>5 DEF Foreign, Save
  <2>7. session'[Owner[x]] = session[Owner[x]] /\ Saves(x)
    BY <1>a, <2>2, <2>4
  <2> QED
    BY <2>1, <2>2, <2>6, <2>7, SavesElse
<1>6. CASE PartsUnknown(s)
  <2>1. UNCHANGED <<store, session>> /\ room' \subseteq room
    BY <1>6 DEF PartsUnknown, Closing
  <2> QED
    BY <1>f, <2>1
<1>7. CASE Sends(s, v, m)
  <2>1. room' = room
    BY <1>7 DEF Sends, SendMessage
  <2> QED
    BY <1>7, <1>e, <2>1, QuietSteps
<1>8. CASE n \in Nodes /\ u \in Users /\ f \in BOOLEAN /\ c \in Statuses /\ SavesAs(n, u, f, c)
  <2>1. PICK i : i = Head(store[n]) /\ i = Save(u, f, c) /\ i.op = "save" /\ i.user = u
    BY <1>8 DEF SavesAs, Save
  <2>2. /\ store[n] # <<>> /\ Moved(n, {}, TRUE)
        /\ session'[u].uid = (session[u].uid \/ f)
        /\ session'[u].connection = c /\ \A w \in Users \ {u} : session'[w] = session[w]
        /\ UNCHANGED <<sock, room>>
    BY <1>8 DEF SavesAs
  <2> SUFFICES ASSUME NEW x \in Sockets, Settled(x)' PROVE Saves(x)'
    BY <1>b
  <2>3. Settled(x)
    BY <1>c, <2>2
  <2>4. CASE Owner[x] # u
    <3>1. Foreign(n, {}, TRUE, Owner[x])
      BY <2>1, <2>4 DEF Foreign
    <3>2. session'[Owner[x]] = session[Owner[x]] /\ Saves(x)
      BY <1>a, <2>2, <2>3, <2>4, Places
    <3> QED
      BY <1>8, <2>2, <3>1, <3>2, SavesElse
  <2>5. CASE Owner[x] = u
    <3>1. NodeOf[x] = n
      <4>1. Came(u, n)
        BY <1>8, <2>1, <2>2, HeadCommand DEF Errands, Fits
      <4>2. PICK y \in SocketsOf(u) : NodeOf[y] = n /\ sock[y] # "new"
        BY <4>1 DEF Came
      <4>3. x \in SocketsOf(u) /\ sock[x] # "new" /\ OneNode(u)
        BY <2>3, <2>5 DEF Settled, Staged, Open, SocketsOf
      <4> QED
        BY <4>2, <4>3 DEF OneNode
    <3>2. /\ After(store[n], Offlines(u), Onlines(u))
          /\ session[u].connection = "online" \/ Pending(n, Onlines(u))
          /\ session[u].uid \/ Pending(n, Fulls(u))
      BY <1>a, <2>3, <2>5, <3>1 DEF Saves
    <3>3. After(store'[n], Offlines(u), Onlines(u))
      BY <2>2, <3>2 DEF Moved
    <3>4. c = "online" \/ \E k \in Onlines(u) : k \in Range(store'[n])
      <4>1. CASE c = "offline"
        <5>1. Head(store[n]) \in Offlines(u)
          BY <1>8, <2>1, <4>1 DEF Offlines
        <5> QED
          BY <2>2, <3>2, <5>1 DEF Moved
      <4> QED
        BY <1>8, <4>1, StatusesAre
    <3>5. session'[u].uid \/ \E k \in Fulls(u) : k \in Range(store'[n])
      <4>1. CASE session[u].uid
        BY <2>2, <4>1
      <4>2. CASE Pending(n, Fulls(u))
        <5>1. PICK k \in Fulls(u) : k \in Range(store[n])
          BY <4>2 DEF Pending
        <5>2. k = Head(store[n]) => f = TRUE
          BY <2>1, <5>1 DEF Fulls, Save
        <5> QED
          BY <2>2, <5>1, <5>2 DEF Moved
      <4> QED
        BY <3>2, <4>1, <4>2
    <3>6. /\ Onlines(u)' = Onlines(u) /\ Offlines(u)' = Offlines(u) /\ Fulls(u)' = Fulls(u)
      BY DEF Onlines, Offlines, Fulls, Save
    <3> QED
      BY <2>2, <2>5, <3>1, <3>3, <3>4, <3>5, <3>6 DEF Saves, Pending
  <2> QED
    BY <2>4, <2>5
<1>9. CASE n \in Nodes /\ s \in Sockets /\ f \in BOOLEAN /\ FindsFor(n, s, f)
  <2>1. PICK w, i, j : /\ w \in Users /\ w = Owner[s]
                       /\ i = Save(w, f, "online") /\ j = ReadMessages(s)
    BY <1>9, Places
  <2>2. /\ i.op = "save" /\ i.user = w /\ i \in Onlines(w) /\ j.op # "save"
        /\ f = TRUE => i \in Fulls(w)
    BY <1>9, <2>1, StatusesAre DEF Save, Onlines, Fulls, ReadMessages
  <2>3. /\ Moved(n, {i, j}, TRUE) /\ NodeOf[s] = n /\ f = ~session[w].uid
        /\ Head(store[n]).op = "find" /\ UNCHANGED <<sock, session>>
        /\ room' \subseteq room \cup {s}
    BY <1>9, <2>1 DEF FindsFor
  <2> SUFFICES ASSUME NEW x \in Sockets, Settled(x)' PROVE Saves(x)'
    BY <1>b
  <2>4. CASE x # s
    <3>1. Settled(x)
      BY <1>c, <2>3, <2>4
    <3>2. Foreign(n, {i, j}, TRUE, Owner[x])
      BY <2>2, <2>3 DEF Foreign
    <3>3. session'[Owner[x]] = session[Owner[x]] /\ Saves(x)
      BY <1>a, <2>3, <3>1
    <3> QED
      BY <1>9, <2>3, <3>2, <3>3, SavesElse
  <2>5. CASE x = s
    <3>1. \A k \in Offlines(w) : k \notin {i, j}
      BY <2>1, <2>2 DEF Offlines, Save
    <3>2. \E k \in Onlines(w) : k \in {i, j}
      BY <2>2
    <3>3. i \in Range(store'[n]) /\ After(store'[n], Offlines(w), Onlines(w))
      BY <2>3, <3>1, <3>2 DEF Moved
    <3>4. /\ Onlines(w)' = Onlines(w) /\ Offlines(w)' = Offlines(w) /\ Fulls(w)' = Fulls(w)
      BY DEF Onlines, Offlines, Fulls, Save
    <3>5. session[w].uid \/ i \in Fulls(w)
      BY <1>9, <2>2, <2>3
    <3> QED
      BY <2>1, <2>2, <2>3, <2>5, <3>3, <3>4, <3>5 DEF Saves, Pending
  <2> QED
    BY <2>4, <2>5
<1>10. CASE n \in Nodes /\ s \in Sockets /\ ReadsFor(n, s)
  <2>1. room' = room
    BY <1>10 DEF ReadsFor
  <2> QED
    BY <1>10, <1>e, <2>1, QuietSteps
<1>11. CASE n \in Nodes /\ s \in Sockets /\ v \in Users /\ l \in Views /\ ReadsNext(n, s, v, l)
  <2>1. room' = room
    BY <1>11 DEF ReadsNext, ReadsFriend
  <2> QED
    BY <1>11, <1>e, <2>1, QuietSteps
<1>12. CASE n \in Nodes /\ s \in Sockets /\ v \in Users /\ l \in Views /\ ReadsLast(n, s, v, l)
  <2>1. room' = room
    BY <1>12 DEF ReadsLast, ReadsFriend
  <2> QED
    BY <1>12, <1>e, <2>1, QuietSteps
<1>13. CASE n \in Nodes /\ m \in Messages /\ Keeps(n, m)
  <2>1. room' = room
    BY <1>13 DEF Keeps
  <2> QED
    BY <1>13, <1>e, <2>1, QuietSteps
<1>14. CASE HearsStatus(n, v, c) \/ HearsMessage(n, m) \/ (u \in Users /\ ExpireMessages(u))
  <2>1. UNCHANGED <<store, session, room>>
    BY <1>14 DEF HearsStatus, HearsMessage, ExpireMessages
  <2> QED
    BY <1>f, <2>1
<1>15. CASE n \in Nodes /\ Crash(n)
  <2>1. /\ room' \subseteq room /\ \A x \in room' : NodeOf[x] # n
        /\ \A y \in Nodes : y # n => store'[y] = store[y]
        /\ session' = session
    BY <1>15 DEF Crash, Typed
  <2> SUFFICES ASSUME NEW x \in Sockets, Settled(x)' PROVE Saves(x)'
    BY <1>b
  <2>2. NodeOf[x] # n
    BY <2>1 DEF Settled
  <2>3. Settled(x)
    BY <1>c, <2>1
  <2> QED
    BY <1>a, <2>1, <2>2, <2>3, Places, SavesSame
<1>16. CASE u \in Users /\ Expire(u)
  <2>1. /\ UNCHANGED <<room, store>> /\ lapsed' = lapsed \cup {u}
        /\ \A w \in Users : w # u => session'[w] = session[w]
    BY <1>16 DEF Expire, Typed
  <2> SUFFICES ASSUME NEW x \in Sockets, Settled(x)' PROVE Saves(x)'
    BY <1>b
  <2>2. Settled(x) /\ Owner[x] # u
    BY <1>c, <2>1 DEF Settled
  <2> QED
    BY <1>a, <2>1, <2>2, Places, SavesSame
<1> QED
  BY <1>1, <1>2, <1>3, <1>4, <1>5, <1>6, <1>7, <1>8, <1>9, <1>10, <1>11, <1>12, <1>13,
     <1>14, <1>15, <1>16, <1>17, <1>18, Zenon DEF Deed
------------------------------------------------------------------------------
\* Who is there: connected with a list, and in the room.

Here(t) == Open(t) /\ pc[t] = "done"

\* A user none of whose sockets arrives is present only if it was.
LEMMA PresentIs ==
    ASSUME NEW v \in Users, \A t \in SocketsOf(v) : Here(t)' => Here(t)
    PROVE  Present(v)' => Present(v)
  BY DEF Present, Here, SocketsOf

\* A user none of whose sockets leaves is inside if it was.
LEMMA InsideIs ==
    ASSUME NEW v \in Users, \A t \in SocketsOf(v) : t \in room => t \in room'
    PROVE  Inside(v) => Inside(v)'
  BY DEF Inside, SocketsOf

\* Who is there has entered.
LEMMA PresentInside ==
    ASSUME Staged, NEW v \in Users, Present(v) PROVE Inside(v)
  BY DEF Staged, Entered, Present, Inside, SocketsOf

\* A socket enters and leaves by its handler's steps, by a disconnect, or by a
\* crash.
LEMMA RoomChanges ==
    ASSUME Typed, Staged, NEW s, NEW n, NEW u, NEW v, NEW m, NEW f, NEW c, NEW l,
           Deed(s, n, u, v, m, f, c, l), NEW t \in Sockets
    PROVE  \/ t \in room' <=> t \in room
           \/ pc[t] \in Connecting
           \/ PartsKnown(s) /\ t = s
           \/ cut'[t] = "crash"
<1> USE DEF live, redis, client, tracks, Open, Connecting
<1>1. CASE s \in Sockets /\ Connect(s)
  BY <1>1 DEF Connect
<1>2. CASE Turns(s)
  BY <1>2 DEF Turns
<1>3. CASE Verifies(s)
  BY <1>3 DEF Verifies
<1>4. CASE Friendless(s) \/ AsksFirst(s, v)
  BY <1>4 DEF Friendless, AsksFirst
<1>5. CASE PartsKnown(s)
  BY <1>5 DEF PartsKnown, Closing
<1>6. CASE PartsUnknown(s)
  <2>1. s \notin room /\ room' = room \ {s}
    BY <1>6 DEF PartsUnknown, Closing, Known, Staged, Entered
  <2> QED
    BY <2>1
<1>7. CASE Sends(s, v, m)
  BY <1>7 DEF Sends, SendMessage
<1>8. CASE SavesAs(n, u, f, c) \/ Keeps(n, m)
  BY <1>8 DEF SavesAs, Keeps
<1>9. CASE FindsFor(n, s, f)
  BY <1>9 DEF FindsFor
<1>10. CASE ReadsFor(n, s)
  BY <1>10 DEF ReadsFor
<1>11. CASE ReadsNext(n, s, v, l) \/ ReadsLast(n, s, v, l)
  BY <1>11 DEF ReadsNext, ReadsLast, ReadsFriend
<1>13. CASE HearsStatus(n, v, c) \/ HearsMessage(n, m)
  BY <1>13 DEF HearsStatus, HearsMessage
<1>14. CASE n \in Nodes /\ Crash(n)
  BY <1>14 DEF Crash, Staged
<1>15. CASE Expire(u) \/ ExpireMessages(u)
  BY <1>15 DEF Expire, ExpireMessages
<1> QED
  BY <1>1, <1>2, <1>3, <1>4, <1>5, <1>6, <1>7, <1>8, <1>9, <1>10, <1>11, <1>13,
     <1>14, <1>15 DEF Deed

\* What is in motion shows somewhere.
LEMMA MotionIs ==
    ASSUME Typed, NEW w \in Users, ~InMotion(w)
    PROVE  /\ \A t \in SocketsOf(w) : pc[t] \notin Connecting
           /\ \A y \in Nodes : \A i \in Range(store[y]) : i.op = "save" => i.user # w
           /\ \A y \in Nodes : \A e \in Range(bus[y]) : e.on = "status" => e.user # w
  BY DEF InMotion, Range

\* The same after a step.
LEMMA MotionNext ==
    ASSUME Typed', NEW w \in Users, ~InMotion(w)'
    PROVE  /\ \A t \in SocketsOf(w) : pc'[t] \notin Connecting
           /\ \A y \in Nodes : \A i \in Range(store'[y]) : i.op = "save" => i.user # w
  BY DEF InMotion, Range, SocketsOf

\* A user who keeps still comes and goes with nobody's step.
LEMMA InsideStill ==
    ASSUME Typed, Typed', Staged, NEW s, NEW n, NEW u, NEW v, NEW m, NEW f, NEW c, NEW l,
           Deed(s, n, u, v, m, f, c, l),
           NEW w \in Users, ~InMotion(w), ~InMotion(w)', Regular(w)'
    PROVE  Inside(w)' <=> Inside(w)
<1> SUFFICES ASSUME NEW t \in SocketsOf(w) PROVE t \in room' <=> t \in room
  BY DEF Inside, SocketsOf
<1>1. t \in Sockets /\ Owner[t] = w
  BY DEF SocketsOf
<1>2. pc[t] \notin Connecting
  BY MotionIs
<1>3. cut'[t] # "crash"
  BY DEF Regular, SocketsOf
<1>4. ~(PartsKnown(s) /\ t = s)
  <2> SUFFICES ASSUME PartsKnown(t) PROVE FALSE
    OBVIOUS
  <2>1. PICK y, i : y \in Nodes /\ y = NodeOf[t] /\ i = Save(w, FALSE, "offline")
    BY <1>1, Places
  <2>2. i \in Range(store'[y])
    BY <1>1, <2>1 DEF PartsKnown, Moved
  <2>3. i.op = "save" /\ i.user = w
    BY <2>1 DEF Save
  <2> QED
    BY <2>1, <2>2, <2>3, MotionNext
<1> QED
  BY <1>1, <1>2, <1>3, <1>4, RoomChanges

\* What is stored of a user who keeps still is so.
LEMMA StatusRight ==
    ASSUME Typed, Staged, Answered, Saving, NEW v \in Users, ~InMotion(v), Regular(v)
    PROVE  StatusOf(v) = "online" <=> Inside(v)
<1>0. \A y \in Nodes : \A A : (\A i \in A : i.op = "save" /\ i.user = v) => ~Pending(y, A)
  BY MotionIs DEF Pending
<1>1. /\ \A i \in Onlines(v) : i.op = "save" /\ i.user = v
      /\ \A i \in Offlines(v) : i.op = "save" /\ i.user = v
      /\ \A i \in Fulls(v) : i.op = "save" /\ i.user = v
  BY DEF Onlines, Offlines, Fulls, Save
<1>2. \A y \in Nodes : ~Pending(y, Onlines(v)) /\ ~Pending(y, Offlines(v)) /\ ~Pending(y, Fulls(v))
  BY <1>0, <1>1
<1>3. ASSUME Inside(v) PROVE StatusOf(v) = "online"
  <2>1. PICK t \in Sockets : Owner[t] = v /\ t \in room
    BY <1>3 DEF Inside, SocketsOf
  <2>2. Settled(t)
    BY <2>1 DEF Regular, Settled
  <2>3. Saves(t)
    BY <2>2, SavingIs
  <2>4. session[v].connection = "online" /\ session[v].uid
    BY <1>2, <2>1, <2>3, Places DEF Saves
  <2> QED
    BY <2>4 DEF StatusOf
<1>4. ASSUME StatusOf(v) = "online" PROVE Inside(v)
  <2>1. session[v].connection = "online"
    BY <1>4 DEF StatusOf
  <2>2. PICK y \in Nodes : Witness(v, y)
    BY <1>2, <2>1 DEF Answered
  <2> QED
    BY <2>2 DEF Witness, Regular, Inside
<1> QED
  BY <1>3, <1>4

\* v is right in the list of x, if it is there.
Lists(x, v) ==
    Regular(v) /\ list[x][v] # None => (list[x][v] = "online" <=> Inside(v))

\* Where a handler is, what it has read, and what is new in it.
LEMMA ListSteps ==
    ASSUME Typed, Staged, Answered, Saving, Listing,
           NEW s, NEW n, NEW u, NEW v, NEW m, NEW f, NEW c, NEW l,
           Deed(s, n, u, v, m, f, c, l),
           NEW x \in Sockets, Open(x)', pc'[x] \in Connecting, NEW w \in Users
    PROVE  \/ list'[x][w] = None
           \/ Open(x) /\ pc[x] \in Connecting
              /\ \/ list'[x][w] = list[x][w]
                 \/ list'[x][w] = StatusOf(w)
<1> USE DEF live, redis, client, tracks, Open, Connecting
<1>1. CASE s \in Sockets /\ Connect(s)
  <2>1. x = s => list'[x] = Nothing
    BY <1>1 DEF Connect, Move, Staged, Typed
  <2>2. x # s => sock[x] = "open" /\ pc[x] = pc'[x] /\ list'[x] = list[x]
    BY <1>1 DEF Connect, Move, Typed
  <2> QED
    BY <2>1, <2>2, NothingIs
<1>2. CASE Turns(s)
  <2>1. CASE list' = list
    <3>1. pc[x] \in Connecting /\ sock'[x] = sock[x]
      BY <1>2, <2>1 DEF Turns, Typed
    <3> QED
      BY <2>1, <3>1
  <2>2. CASE list' # list
    <3>1. /\ list' = [list EXCEPT ![s] = Nothing] /\ UNCHANGED sock
          /\ pc' = [pc EXCEPT ![s] = IF pc[s] = "verify" THEN "refused" ELSE "failed"]
      BY <1>2, <2>2 DEF Turns
    <3>2. x # s
      BY <3>1 DEF Typed
    <3> QED
      BY <3>1, <3>2 DEF Typed
  <2> QED
    BY <2>1, <2>2
<1>3. CASE Verifies(s)
  BY <1>3 DEF Verifies, Typed
<1>4. CASE s \in Sockets /\ list[s] \in Views /\ Friendless(s)
  <2>1. PICK k \in Views : k = list[s]
    BY <1>4
  <2>2. Ends(s, k) /\ UNCHANGED sock
    BY <1>4, <2>1, FinishFields DEF Friendless
  <2> QED
    BY <1>4, <2>2 DEF Ends, Typed
<1>5. CASE s \in Sockets /\ v \in Users /\ AsksFirst(s, v)
  BY <1>5 DEF AsksFirst, Typed
<1>6. CASE PartsKnown(s) \/ PartsUnknown(s)
  BY <1>6 DEF PartsKnown, PartsUnknown, Closing, Typed
<1>7. CASE Sends(s, v, m)
  BY <1>7 DEF Sends, SendMessage
<1>8. CASE SavesAs(n, u, f, c) \/ Keeps(n, m)
  BY <1>8 DEF SavesAs, Keeps
<1>9. CASE s \in Sockets /\ FindsFor(n, s, f)
  BY <1>9 DEF FindsFor, Typed
<1>10. CASE s \in Sockets /\ ReadsFor(n, s)
  BY <1>10 DEF ReadsFor, Typed
<1>11. CASE s \in Sockets /\ l \in Views /\ ReadsNext(n, s, v, l)
  BY <1>11 DEF ReadsNext, ReadsFriend, Typed
<1>12. CASE s \in Sockets /\ l \in Views /\ ReadsLast(n, s, v, l)
  <2>1. Ends(s, l) /\ UNCHANGED sock
    BY <1>12, FinishFields DEF ReadsLast, ReadsFriend
  <2> QED
    BY <1>12, <2>1 DEF Ends, Typed
<1>13. CASE HearsStatus(n, v, c) \/ HearsMessage(n, m)
  BY <1>13 DEF HearsStatus, HearsMessage
<1>14. CASE n \in Nodes /\ Crash(n)
  BY <1>14 DEF Crash
<1>15. CASE Expire(u) \/ ExpireMessages(u)
  BY <1>15 DEF Expire, ExpireMessages
<1> QED
  BY <1>1, <1>2, <1>3, <1>4, <1>5, <1>6, <1>7, <1>8, <1>9, <1>10, <1>11, <1>12, <1>13,
     <1>14, <1>15 DEF Deed

\* A list is right about friends who have kept still.
LEMMA ListingKept ==
    ASSUME Typed, Typed', Staged, Answered, Saving, Listing, Track,
           NEW s, NEW n, NEW u, NEW v, NEW m, NEW f, NEW c, NEW l,
           Deed(s, n, u, v, m, f, c, l)
    PROVE  Listing'
<1>1. Onwards
  BY OnwardsKept
<1> SUFFICES ASSUME NEW x \in Sockets, NEW w \in FriendsOf(Owner[x]),
                    Open(x)', pc'[x] \in Connecting, w \notin unsettled'[x]
             PROVE  ~InMotion(w)' /\ Lists(x, w)'
  BY DEF Listing, Lists, FriendsOf
<1>2. w \in Users
  BY DEF FriendsOf
<1>3. ~InMotion(w)' /\ w \notin unsettled[x]
  <2>1. unsettled'[x] = unsettled[x] \cup {y \in FriendsOf(Owner[x]) : InMotion(y)'}
    BY DEF Track, Open
  <2> QED
    BY <2>1
<1>4. ASSUME Regular(w)', list'[x][w] # None
      PROVE  list'[x][w] = "online" <=> Inside(w)'
  <2>1. Regular(w)
    BY <1>1, <1>2, <1>4, Past
  <2>2. /\ Open(x) /\ pc[x] \in Connecting
        /\ list'[x][w] = list[x][w] \/ list'[x][w] = StatusOf(w)
    BY <1>2, <1>4, ListSteps
  <2>3. ~InMotion(w) /\ Lists(x, w)
    BY <1>3, <2>2 DEF Listing, Lists
  <2>4. Inside(w)' <=> Inside(w)
    BY <1>2, <1>3, <1>4, <2>3, InsideStill
  <2>5. list'[x][w] = "online" <=> Inside(w)
    BY <1>2, <1>4, <2>1, <2>2, <2>3, StatusRight DEF Lists
  <2> QED
    BY <2>4, <2>5
<1> QED
  BY <1>3, <1>4 DEF Lists
------------------------------------------------------------------------------
\* What a client is told of a friend, or will be.

RightOn(x, v) ==
    /\ After(bus[NodeOf[x]], Says(v, "offline"), Says(v, "online"))
    /\ told[x][v] = "online" \/ Status(v, "online") \in Range(bus[NodeOf[x]])
RightOff(x, v) ==
    /\ After(bus[NodeOf[x]], Says(v, "online"), Says(v, "offline"))
    /\ told[x][v] # "online" \/ Status(v, "offline") \in Range(bus[NodeOf[x]])
Right(x, v) == (Present(v) => RightOn(x, v)) /\ (~Inside(v) => RightOff(x, v))

\* Nothing of v is lost on the way to x, nor told to it.
Stays(x, v) ==
    /\ told'[x][v] = told[x][v]
    /\ \A A, B : After(bus[NodeOf[x]], A, B) /\ A \cup B = Says(v, "online") \cup Says(v, "offline")
                    => After(bus'[NodeOf[x]], A, B)
    /\ \A c \in Statuses : Status(v, c) \in Range(bus[NodeOf[x]])
                              => Status(v, c) \in Range(bus'[NodeOf[x]])

\* Then x is still right about v.
LEMMA RightStill ==
    ASSUME NEW x \in Sockets, NEW v \in Users, Right(x, v), Stays(x, v),
           Present(v)' => Present(v), Inside(v) => Inside(v)'
    PROVE  Right(x, v)'
<1>1. \A c : Says(v, c)' = Says(v, c) /\ Status(v, c)' = Status(v, c)
  BY DEF Says, Status
<1>2. /\ Status(v, "online") \in Range(bus[NodeOf[x]]) => Status(v, "online") \in Range(bus'[NodeOf[x]])
      /\ Status(v, "offline") \in Range(bus[NodeOf[x]]) => Status(v, "offline") \in Range(bus'[NodeOf[x]])
      /\ told'[x][v] = told[x][v]
  BY StatusesAre DEF Stays
<1>3. /\ After(bus[NodeOf[x]], Says(v, "offline"), Says(v, "online"))
           => After(bus'[NodeOf[x]], Says(v, "offline"), Says(v, "online"))
      /\ After(bus[NodeOf[x]], Says(v, "online"), Says(v, "offline"))
           => After(bus'[NodeOf[x]], Says(v, "online"), Says(v, "offline"))
  <2>1. Says(v, "offline") \cup Says(v, "online") = Says(v, "online") \cup Says(v, "offline")
    OBVIOUS
  <2>2. \A A, B : After(bus[NodeOf[x]], A, B) /\ A \cup B = Says(v, "online") \cup Says(v, "offline")
                     => After(bus'[NodeOf[x]], A, B)
    BY DEF Stays
  <2> QED
    BY <2>1, <2>2, Zenon
<1>4. RightOn(x, v) => RightOn(x, v)'
  BY <1>2, <1>3, Zenon DEF RightOn, Says
<1>5. RightOff(x, v) => RightOff(x, v)'
  BY <1>2, <1>3, Zenon DEF RightOff, Says
<1> QED
  BY <1>4, <1>5 DEF Right

\* Nothing is said on the way to x: what it has been told decides.
LEMMA RightSilent ==
    ASSUME NEW x \in Sockets, NEW v \in Users,
           \A c \in Statuses : Status(v, c) \notin Range(bus'[NodeOf[x]]),
           Present(v)' => told'[x][v] = "online", ~Inside(v)' => told'[x][v] # "online"
    PROVE  Right(x, v)'
<1>1. \A c : Says(v, c)' = {Status(v, c)} /\ Status(v, c)' = Status(v, c)
  BY DEF Says, Status
<1>2. /\ \A i \in DOMAIN bus'[NodeOf[x]] : bus'[NodeOf[x]][i] # Status(v, "online")
      /\ \A i \in DOMAIN bus'[NodeOf[x]] : bus'[NodeOf[x]][i] # Status(v, "offline")
  BY StatusesAre DEF Range
<1>3. /\ After(bus'[NodeOf[x]], {Status(v, "online")}, {Status(v, "offline")})
      /\ After(bus'[NodeOf[x]], {Status(v, "offline")}, {Status(v, "online")})
  BY <1>2 DEF After
<1> QED
  BY <1>3 DEF Right, RightOn, RightOff, Says, Status

\* Another packet is published.
LEMMA StaysPublished ==
    ASSUME Typed, NEW n \in Nodes, NEW e \in Packets, Publish(n, e),
           NEW x \in Sockets, NEW v \in Users, \A c : e # Status(v, c),
           told'[x][v] = told[x][v]
    PROVE  Stays(x, v)
<1>1. PICK y \in Nodes : y = NodeOf[x]
  BY Places
<1>2. \A A, B : After(bus[y], A, B) /\ e \notin A => After(bus'[y], A, B)
  BY Published
<1>3. \A A, B : A \cup B = Says(v, "online") \cup Says(v, "offline") => e \notin A
  BY DEF Says
<1>4. Range(bus[y]) \subseteq Range(bus'[y])
  BY BusGrows
<1> QED
  BY <1>1, <1>2, <1>3, <1>4 DEF Stays

\* What is said of a user on the node of its socket is not on that node's bus,
\* as long as it keeps to one node.
LEMMA NoWord ==
    ASSUME Typed, Bused, NEW t \in Sockets, sock[t] # "new", NEW v \in Users, Owner[t] = v,
           OneNode(v), NEW c \in Statuses
    PROVE  Status(v, c) \notin Range(bus[NodeOf[t]])
<1> SUFFICES ASSUME Status(v, c) \in Range(bus[NodeOf[t]]) PROVE FALSE
  OBVIOUS
<1>1. PICK y, e : y \in Nodes /\ y = NodeOf[t] /\ e = Status(v, c) /\ e.on = "status" /\ e.user = v
  BY Places, Forms
<1>2. Comes(e, y)
  BY <1>1 DEF Bused
<1>3. PICK z \in Nodes \ {y} : Came(v, z)
  BY <1>1, <1>2 DEF Comes
<1>4. PICK s \in SocketsOf(v) : NodeOf[s] = z /\ sock[s] # "new"
  BY <1>3 DEF Came
<1>5. t \in SocketsOf(v)
  BY DEF SocketsOf
<1> QED
  BY <1>1, <1>3, <1>4, <1>5 DEF OneNode

\* A friend's event, published on its node, reaches x there at once, and
\* otherwise over the bus.
LEMMA RightSaid ==
    ASSUME Typed, Bused, NEW t \in Sockets, sock[t] # "new", NEW v \in Users, Owner[t] = v,
           OneNode(v), NEW c \in Statuses, Publish(NodeOf[t], Status(v, c)),
           NEW x \in Sockets, c = "online" => Inside(v)', c = "offline" => ~Present(v)',
           NodeOf[x] = NodeOf[t] => told'[x][v] = c
    PROVE  Right(x, v)'
<1>1. PICK n \in Nodes, y \in Nodes, e \in Packets :
         n = NodeOf[t] /\ y = NodeOf[x] /\ e = Status(v, c)
  BY Places, Forms
<1>2. Publish(n, e)
  BY <1>1
<1>3. CASE y = n
  <2>1. bus'[y] = bus[y]
    BY <1>2, <1>3, Published
  <2>2. \A d \in Statuses : Status(v, d) \notin Range(bus[NodeOf[t]])
    BY NoWord
  <2>3. /\ Present(v)' => told'[x][v] = "online"
        /\ ~Inside(v)' => told'[x][v] # "online"
    BY <1>1, <1>3, StatusesAre
  <2> QED
    BY <1>1, <1>3, <2>1, <2>2, <2>3, RightSilent
<1>4. CASE y # n
  <2>1. \A A, B : e \notin A /\ e \in B => After(bus'[y], A, B)
    BY <1>2, <1>4, Published
  <2>2. e \in Range(bus'[y])
    BY <1>2, <1>4, BusGrows
  <2>3. \A d : Says(v, d)' = {Status(v, d)} /\ Status(v, d)' = Status(v, d)
    BY DEF Says, Status
  <2>4. Status(v, "online") # Status(v, "offline")
    BY Forms, StatusesAre
  <2>5. CASE c = "online"
    <3>1. e \in {Status(v, "online")} /\ e \notin {Status(v, "offline")}
      BY <1>1, <2>4, <2>5
    <3>2. After(bus'[y], {Status(v, "offline")}, {Status(v, "online")})
      BY <2>1, <3>1
    <3> QED
      BY <1>1, <2>2, <2>5, <3>2 DEF Right, RightOn, Says, Status
  <2>6. CASE c = "offline"
    <3>1. e \in {Status(v, "offline")} /\ e \notin {Status(v, "online")}
      BY <1>1, <2>4, <2>6
    <3>2. After(bus'[y], {Status(v, "online")}, {Status(v, "offline")})
      BY <2>1, <3>1
    <3>3. ~Present(v)'
      BY <2>6
    <3> QED
      BY <1>1, <2>2, <2>6, <3>2, <3>3 DEF Right, RightOff, Says, Status
  <2> QED
    BY <2>5, <2>6, StatusesAre
<1> QED
  BY <1>3, <1>4
------------------------------------------------------------------------------
\* Who watches whom: a client that has its list, and a friend that has been
\* regular and still while it got it.
Watches(x, v) == /\ x \in Sockets /\ v \in FriendsOf(Owner[x]) /\ Open(x) /\ pc[x] = "done"
                 /\ v \notin unsettled[x] /\ Regular(v)

\* Telling, client by client.
LEMMA TellingIs == Telling <=> \A x \in Sockets, v \in Users : Watches(x, v) => Right(x, v)
  BY DEF Telling, Watches, Right, RightOn, RightOff, FriendsOf

\* It has watched before unless it just got its list.
LEMMA WatchesBefore ==
    ASSUME Typed, Onwards, Track, NEW x \in Sockets, NEW v \in Users, Watches(x, v)'
    PROVE  /\ v \in FriendsOf(Owner[x]) /\ v \notin unsettled[x] /\ Regular(v)
           /\ sock'[x] = "open" /\ pc'[x] = "done"
           /\ Open(x) /\ pc[x] = "done" => Watches(x, v)
<1>1. v \in FriendsOf(Owner[x]) /\ sock'[x] = "open" /\ pc'[x] = "done" /\ v \notin unsettled'[x]
  BY DEF Watches, FriendsOf, Open
<1>2. unsettled'[x] = unsettled[x]
  BY <1>1 DEF Track, Connecting
<1>3. Regular(v)
  BY Past DEF Watches
<1> QED
  BY <1>1, <1>2, <1>3 DEF Watches

\* A step that tells nobody anything, nor lets anybody come or go.
LEMMA TellingQuiet ==
    ASSUME Typed, Staged, Telling, Onwards, Track, UNCHANGED bus,
           \A t \in Sockets : Here(t)' => Here(t), room \subseteq room',
           \A t \in Sockets : sock'[t] = "open" => told'[t] = told[t]
    PROVE  Telling'
<1> SUFFICES ASSUME NEW x \in Sockets, NEW w \in Users, Watches(x, w)' PROVE Right(x, w)'
  BY TellingIs DEF Telling, Watches, Right, RightOn, RightOff, FriendsOf
<1>1. sock'[x] = "open" /\ pc'[x] = "done" /\ (Open(x) /\ pc[x] = "done" => Watches(x, w))
  BY WatchesBefore
<1>2. Here(x)'
  BY <1>1 DEF Here, Open
<1>3. Here(x)
  BY <1>2
<1>4. Right(x, w)
  BY <1>1, <1>3, TellingIs DEF Here
<1>5. (Present(w)' => Present(w)) /\ (Inside(w) => Inside(w)')
  BY PresentIs, InsideIs DEF SocketsOf
<1>6. Stays(x, w)
  BY <1>1 DEF Stays
<1> QED
  BY <1>4, <1>5, <1>6, RightStill

\* Those steps.
LEMMA TellingKeptQuiet ==
    ASSUME Typed, Staged, Telling, Onwards, Track,
           NEW s, NEW n, NEW u, NEW v, NEW m, NEW f, NEW c, NEW l,
           \/ s \in Sockets /\ Connect(s)
           \/ Turns(s)
           \/ Verifies(s)
           \/ s \in Sockets /\ v \in Users /\ AsksFirst(s, v)
           \/ PartsUnknown(s)
           \/ SavesAs(n, u, f, c)
           \/ s \in Sockets /\ FindsFor(n, s, f)
           \/ s \in Sockets /\ ReadsFor(n, s)
           \/ ReadsNext(n, s, v, l)
           \/ Keeps(n, m) \/ Expire(u) \/ ExpireMessages(u)
    PROVE  Telling'
<1> USE DEF live, redis, client, tracks, Here, Open
<1> SUFFICES /\ UNCHANGED bus
             /\ room \subseteq room' /\ \A t \in Sockets : Here(t)' => Here(t)
             /\ \A t \in Sockets : sock'[t] = "open" => told'[t] = told[t]
  BY TellingQuiet
<1>1. CASE s \in Sockets /\ Connect(s)
  BY <1>1 DEF Connect, Move, Typed
<1>10. CASE Turns(s)
  BY <1>10 DEF Turns, Typed
<1>2. CASE Verifies(s)
  BY <1>2 DEF Verifies, Typed
<1>3. CASE s \in Sockets /\ v \in Users /\ AsksFirst(s, v)
  BY <1>3 DEF AsksFirst, Typed
<1>4. CASE PartsUnknown(s)
  <2>1. /\ s \in Sockets /\ sock' = [sock EXCEPT ![s] = "closed"] /\ room' = room \ {s}
        /\ pc' = [pc EXCEPT ![s] = IF @ \in {"refused", "failed"} THEN "done" ELSE @]
        /\ told' = [told EXCEPT ![s] = Nothing] /\ UNCHANGED bus
        /\ pc[s] \in {"verify", "refused"}
    BY <1>4 DEF PartsUnknown, Closing, Known
  <2>2. s \notin room
    BY <2>1 DEF Staged, Entered
  <2> QED
    BY <2>1, <2>2 DEF Typed
<1>5. CASE SavesAs(n, u, f, c) \/ Keeps(n, m)
  BY <1>5 DEF SavesAs, Keeps
<1>6. CASE s \in Sockets /\ FindsFor(n, s, f)
  BY <1>6 DEF FindsFor, Typed
<1>7. CASE s \in Sockets /\ ReadsFor(n, s)
  BY <1>7 DEF ReadsFor, Typed
<1>8. CASE ReadsNext(n, s, v, l)
  BY <1>8 DEF ReadsNext, ReadsFriend
<1>9. CASE Expire(u) \/ ExpireMessages(u)
  BY <1>9 DEF Expire, ExpireMessages
<1> QED
  BY <1>1, <1>2, <1>3, <1>4, <1>5, <1>6, <1>7, <1>8, <1>9, <1>10

\* A message comes or goes.
LEMMA TellingMessages ==
    ASSUME Typed, Staged, Telling, Onwards, Track,
           NEW s, NEW n, NEW v, NEW m, Sends(s, v, m) \/ HearsMessage(n, m)
    PROVE  Telling'
<1> USE DEF live, redis, client, tracks
<1>1. UNCHANGED <<sock, pc, room, told>> /\ m \in Messages
  BY DEF Sends, SendMessage, HearsMessage
<1> SUFFICES ASSUME NEW x \in Sockets, NEW w \in Users, Watches(x, w)' PROVE Right(x, w)'
  BY DEF Telling, Watches, Right, RightOn, RightOff, FriendsOf
<1>2. Right(x, w)
  BY <1>1, WatchesBefore, TellingIs DEF Open
<1>3. (Present(w)' => Present(w)) /\ (Inside(w) => Inside(w)')
  BY <1>1 DEF Present, Inside, Open, SocketsOf
<1>4. CASE Sends(s, v, m)
  <2>1. PICK y \in Nodes, e \in Packets : y = NodeOf[s] /\ e = Direct(m) /\ e.on = "message" /\ Publish(y, e)
    BY <1>1, <1>4, Places, Forms DEF Sends, SendMessage
  <2>2. \A d : e # Status(w, d)
    BY <2>1 DEF Status
  <2>3. Stays(x, w)
    BY <1>1, <2>1, <2>2, StaysPublished
  <2> QED
    BY <1>2, <1>3, <2>3, RightStill
<1>5. CASE HearsMessage(n, m)
  <2>1. /\ n \in Nodes /\ bus[n] # <<>> /\ Head(bus[n]) = Direct(m)
        /\ bus' = [bus EXCEPT ![n] = Tail(@)]
    BY <1>5 DEF HearsMessage
  <2>2. \A d : Direct(m) # Status(w, d)
    BY DEF Status, Direct
  <2>3. PICK y \in Nodes : y = NodeOf[x]
    BY Places
  <2>4. \A A, B : After(bus[y], A, B) => After(bus'[y], A, B)
    BY <2>1, Arrived
  <2>5. \A e \in Range(bus[y]) : e \in Range(bus'[y]) \/ e = Direct(m)
    BY <2>1, Arrived
  <2>6. Stays(x, w)
    BY <1>1, <2>2, <2>3, <2>4, <2>5 DEF Stays
  <2> QED
    BY <1>2, <1>3, <2>6, RightStill
<1> QED
  BY <1>4, <1>5

\* An event arrives.
LEMMA TellingHears ==
    ASSUME Typed, Staged, Telling, Onwards, Track, NEW n, NEW v, NEW c, HearsStatus(n, v, c)
    PROVE  Telling'
<1> USE DEF live, redis, client, tracks
<1>1. /\ UNCHANGED <<sock, pc, room>> /\ n \in Nodes /\ v \in Users /\ c \in Statuses
      /\ bus[n] # <<>> /\ Head(bus[n]) = Status(v, c) /\ bus' = [bus EXCEPT ![n] = Tail(@)]
      /\ \A t \in Sockets, w \in Users :
            told'[t][w] = IF Hearing(n, t) /\ w = v /\ v \in FriendsOf(Owner[t])
                          THEN c ELSE told[t][w]
  BY DEF HearsStatus
<1> SUFFICES ASSUME NEW x \in Sockets, NEW w \in Users, Watches(x, w)' PROVE Right(x, w)'
  BY DEF Telling, Watches, Right, RightOn, RightOff, FriendsOf
<1>2. Right(x, w) /\ Open(x) /\ w \in FriendsOf(Owner[x])
  BY <1>1, WatchesBefore, TellingIs DEF Open
<1>3. (Present(w)' => Present(w)) /\ (Inside(w) => Inside(w)')
  BY <1>1 DEF Present, Inside, Open, SocketsOf
<1>4. PICK y \in Nodes : y = NodeOf[x]
  BY Places
<1>5. \A A, B : After(bus[y], A, B) => After(bus'[y], A, B)
  BY <1>1, Arrived
<1>6. ASSUME y # n \/ w # v PROVE Right(x, w)'
  <2>1. told'[x][w] = told[x][w]
    BY <1>1, <1>4, <1>6 DEF Hearing
  <2>2. y # n => bus'[y] = bus[y]
    BY <1>1, Arrived
  <2>3. y = n => \A e \in Range(bus[y]) : e \in Range(bus'[y]) \/ e = Status(v, c)
    BY <1>1, Arrived
  <2>4. w # v => \A d \in Statuses : Status(w, d) # Status(v, c)
    BY <1>1 DEF Status
  <2>5. \A d \in Statuses : Status(w, d) \in Range(bus[y]) => Status(w, d) \in Range(bus'[y])
    BY <1>6, <2>2, <2>3, <2>4
  <2>6. Stays(x, w)
    BY <1>4, <1>5, <2>1, <2>5 DEF Stays
  <2> QED
    BY <1>2, <1>3, <2>6, RightStill
<1>7. ASSUME y = n, w = v PROVE Right(x, w)'
  <2>1. told'[x][w] = c
    BY <1>1, <1>2, <1>4, <1>7 DEF Hearing
  <2>2. \A A, B : After(bus[y], A, B) /\ Status(w, c) \in A => \E e \in B : e \in Range(bus'[y])
    <3>1. \A A, B : After(bus[n], A, B) /\ Head(bus[n]) \in A => \E e \in B : e \in Range(bus'[n])
      BY <1>1, Arrived
    <3>2. Head(bus[n]) = Status(w, c)
      BY <1>1, <1>7
    <3> QED
      BY <1>7, <3>1, <3>2, Zenon
  <2>3. \A d : Says(w, d)' = {Status(w, d)} /\ Says(w, d) = {Status(w, d)} /\ Status(w, d)' = Status(w, d)
    BY DEF Says, Status
  <2>4. ASSUME RightOn(x, w) PROVE RightOn(x, w)'
    <3>1. After(bus[y], {Status(w, "offline")}, {Status(w, "online")})
      BY <1>4, <2>4 DEF RightOn, Says
    <3>2. After(bus'[y], {Status(w, "offline")}, {Status(w, "online")})
      BY <1>5, <3>1
    <3>3. c = "offline" => Status(w, "online") \in Range(bus'[y])
      BY <2>2, <3>1
    <3>4. told'[x][w] = "online" \/ Status(w, "online") \in Range(bus'[y])
      BY <1>1, <2>1, <3>3, StatusesAre
    <3> QED
      BY <1>4, <3>2, <3>4 DEF RightOn, Says, Status
  <2>5. ASSUME RightOff(x, w) PROVE RightOff(x, w)'
    <3>1. After(bus[y], {Status(w, "online")}, {Status(w, "offline")})
      BY <1>4, <2>5 DEF RightOff, Says
    <3>2. After(bus'[y], {Status(w, "online")}, {Status(w, "offline")})
      BY <1>5, <3>1
    <3>3. c = "online" => Status(w, "offline") \in Range(bus'[y])
      BY <2>2, <3>1
    <3>4. told'[x][w] # "online" \/ Status(w, "offline") \in Range(bus'[y])
      BY <1>1, <2>1, <3>3, StatusesAre
    <3> QED
      BY <1>4, <3>2, <3>4 DEF RightOff, Says, Status
  <2> QED
    BY <1>2, <1>3, <2>4, <2>5 DEF Right
<1> QED
  BY <1>6, <1>7

\* A process ends: none of the regular has been on it.
LEMMA TellingCrash ==
    ASSUME Typed, Staged, Telling, Onwards, Track, NEW n \in Nodes, Crash(n)
    PROVE  Telling'
<1>1. /\ \A t \in Sockets : sock'[t] = IF NodeOf[t] = n THEN "closed" ELSE sock[t]
      /\ \A t \in Sockets : NodeOf[t] # n => pc'[t] = pc[t] /\ told'[t] = told[t]
      /\ \A t \in Sockets : NodeOf[t] = n /\ sock[t] # "new" => cut'[t] = "crash"
      /\ \A y \in Nodes : y # n => bus'[y] = bus[y]
      /\ \A t \in room : NodeOf[t] # n => t \in room'
  BY DEF Crash, Typed
<1> SUFFICES ASSUME NEW x \in Sockets, NEW w \in Users, Watches(x, w)' PROVE Right(x, w)'
  BY DEF Telling, Watches, Right, RightOn, RightOff, FriendsOf
<1>2. NodeOf[x] # n /\ Open(x) /\ pc[x] = "done"
  BY <1>1, WatchesBefore DEF Open
<1>3. Right(x, w)
  BY <1>2, WatchesBefore, TellingIs
<1>4. Present(w)' => Present(w)
  <2> SUFFICES ASSUME NEW t \in SocketsOf(w) PROVE Here(t)' => Here(t)
    BY PresentIs
  <2> QED
    BY <1>1 DEF Here, Open, SocketsOf
<1>6. Inside(w) => Inside(w)'
  <2> SUFFICES ASSUME NEW t \in SocketsOf(w), t \in room PROVE t \in room'
    BY InsideIs
  <2>1. t \in Sockets /\ sock[t] # "new" /\ cut'[t] = "no"
    BY DEF Watches, Regular, SocketsOf, Staged, Open
  <2> QED
    BY <1>1, <2>1
<1>5. Stays(x, w)
  <2>1. NodeOf[x] \in Nodes
    BY Places
  <2> QED
    BY <1>1, <1>2, <2>1 DEF Stays
<1> QED
  BY <1>3, <1>4, <1>5, <1>6, RightStill

\* s tells the others that its user is online, ...
LEMMA TellingEnds ==
    ASSUME Typed, Staged, Bused, Telling, Onwards, Track, NEW s \in Sockets, NEW l \in Views,
           Ends(s, l), UNCHANGED <<sock, room, cut>>, pc[s] \in {"friends", "sync"},
           NEW x \in Sockets, NEW w \in Users, Watches(x, w)', x # s
    PROVE  Right(x, w)'
<1>1. /\ pc' = [pc EXCEPT ![s] = "done"]
      /\ Publish(NodeOf[s], Status(Owner[s], "online"))
      /\ told'[x][w] = IF Hearing(NodeOf[s], x) /\ w = Owner[s] /\ Owner[s] \in FriendsOf(Owner[x])
                       THEN "online" ELSE told[x][w]
  BY DEF Ends
<1>2. Open(x) /\ pc[x] = "done" /\ Watches(x, w) /\ w \in FriendsOf(Owner[x]) /\ Regular(w)
  BY <1>1, WatchesBefore DEF Open, Typed
<1>3. Right(x, w)
  BY <1>2, TellingIs
<1>4. ASSUME Owner[s] # w PROVE Right(x, w)'
  <2>1. (Present(w)' => Present(w)) /\ (Inside(w) => Inside(w)')
    <3>1. \A t \in SocketsOf(w) : t # s /\ t \in Sockets
      BY <1>4 DEF SocketsOf
    <3>2. \A t \in SocketsOf(w) : (Here(t)' => Here(t)) /\ (t \in room => t \in room')
      BY <1>1, <3>1 DEF Here, Open, Typed
    <3> QED
      BY <3>2, PresentIs, InsideIs
  <2>2. PICK n \in Nodes, e \in Packets :
           n = NodeOf[s] /\ e = Status(Owner[s], "online") /\ e.user = Owner[s]
    BY Places, Forms, StatusesAre
  <2>3. Publish(n, e)
    BY <1>1, <2>2
  <2>4. \A d : e # Status(w, d)
    BY <1>4, <2>2 DEF Status
  <2>5. told'[x][w] = told[x][w]
    BY <1>1, <1>4
  <2>6. Stays(x, w)
    BY <2>3, <2>4, <2>5, StaysPublished
  <2> QED
    BY <1>3, <2>1, <2>6, RightStill
<1>5. ASSUME Owner[s] = w PROVE Right(x, w)'
  <2>1. s \in SocketsOf(w) /\ cut[s] = "no" /\ OneNode(w)
    BY <1>2, <1>5 DEF Regular, SocketsOf
  <2>2. Open(s) /\ sock[s] # "new"
    BY <2>1 DEF Open, Staged, Typed, Connecting
  <2>4. Inside(w)'
    BY <2>1, <2>2 DEF Staged, Entered, Inside, SocketsOf
  <2>5. PICK c \in Statuses : c = "online"
    BY StatusesAre
  <2>6. NodeOf[x] = NodeOf[s] => told'[x][w] = c
    BY <1>1, <1>2, <1>5, <2>5 DEF Hearing
  <2>7. Publish(NodeOf[s], Status(w, c))
    BY <1>1, <1>5, <2>5
  <2>8. (c = "online" => Inside(w)') /\ (c = "offline" => ~Present(w)')
    BY <2>4, <2>5
  <2> QED
    BY <1>5, <2>1, <2>2, <2>6, <2>7, <2>8, RightSaid
<1> QED
  BY <1>4, <1>5

\* ... and has a list that is right itself: it has read what is so.
LEMMA TellingLast ==
    ASSUME Typed, Staged, Answered, Saving, Listing, Onwards, Track,
           NEW n \in Nodes, NEW s \in Sockets, NEW v \in Users, NEW l \in Views,
           ReadsLast(n, s, v, l), NEW w \in Users, Watches(s, w)'
    PROVE  Right(s, w)'
<1>1. /\ Ends(s, l) /\ UNCHANGED sock /\ pc[s] = "sync" /\ Unread(s, l) = {}
      /\ l[v] = StatusOf(v) /\ \A z \in Users \ {v} : l[z] = list[s][z]
  BY FinishFields DEF ReadsLast, ReadsFriend
<1>2. /\ Open(s) /\ w \in FriendsOf(Owner[s]) /\ w \notin unsettled[s] /\ Regular(w)
  BY <1>1, WatchesBefore DEF Open
<1>3. ~InMotion(w) /\ Lists(s, w)
  BY <1>1, <1>2 DEF Listing, Lists, Connecting
<1>4. l[w] # None
  BY <1>1, <1>2 DEF Unread
<1>5. l[w] = "online" <=> Inside(w)
  <2>1. CASE v = w
    BY <1>1, <1>2, <1>3, <2>1, StatusRight
  <2>2. CASE v # w
    <3>1. l[w] = list[s][w]
      BY <1>1, <2>2
    <3> QED
      BY <1>2, <1>3, <1>4, <3>1 DEF Lists
  <2> QED
    BY <2>1, <2>2
<1>6. Owner[s] # w
  BY <1>1, <1>3, MotionIs, Places DEF Connecting
<1>7. told'[s][w] = l[w]
  BY <1>1, <1>2, <1>6 DEF Ends
<1>8. Present(w)' => Present(w)
  <2> SUFFICES ASSUME NEW t \in SocketsOf(w) PROVE Here(t)' => Here(t)
    BY PresentIs
  <2>1. t # s /\ t \in Sockets
    BY <1>6 DEF SocketsOf
  <2> QED
    BY <1>1, <2>1 DEF Ends, Here, Open, Typed
<1>9. \A d \in Statuses : Status(w, d) \notin Range(bus'[NodeOf[s]])
  <2>1. PICK y \in Nodes, e \in Packets : y = NodeOf[s] /\ e = Status(Owner[s], "online")
    BY Places, Forms, StatusesAre
  <2>2. Publish(y, e)
    BY <1>1, <2>1 DEF Ends
  <2>3. bus'[y] = bus[y]
    BY <2>2, Published
  <2>4. \A d \in Statuses : Status(w, d).on = "status" /\ Status(w, d).user = w
    BY Forms
  <2> QED
    BY <1>3, <2>1, <2>3, <2>4, MotionIs
<1>10. Inside(w)' <=> Inside(w)
  BY DEF ReadsLast, ReadsFriend, Inside, SocketsOf
<1>11. /\ Present(w)' => told'[s][w] = "online"
       /\ ~Inside(w)' => told'[s][w] # "online"
  BY <1>5, <1>7, <1>8, <1>10, PresentInside
<1> QED
  BY <1>9, <1>11, RightSilent

\* s leaves: if it was its user's only socket, nobody is there any more.
LEMMA TellingParts ==
    ASSUME Typed, Staged, Bused, Telling, Onwards, Track, NEW s, PartsKnown(s),
           NEW x \in Sockets, NEW w \in Users, Watches(x, w)'
    PROVE  Right(x, w)'
<1>1. /\ s \in Sockets /\ Open(s) /\ room' = room \ {s}
      /\ \A t \in Sockets : t # s => pc'[t] = pc[t]
      /\ sock' = [sock EXCEPT ![s] = "closed"]
      /\ Publish(NodeOf[s], Status(Owner[s], "offline"))
      /\ \A t \in Sockets \ {s}, z \in Users :
          told'[t][z] = IF Hearing(NodeOf[s], t) /\ z = Owner[s] /\ Owner[s] \in FriendsOf(Owner[t])
                        THEN "offline" ELSE told[t][z]
  BY DEF PartsKnown, Closing, Leaves, Typed
<1>2. /\ x # s /\ Open(x) /\ pc[x] = "done" /\ Watches(x, w)
      /\ w \in FriendsOf(Owner[x]) /\ Regular(w)
  <2>1. /\ sock'[x] = "open" /\ pc'[x] = "done" /\ w \in FriendsOf(Owner[x]) /\ Regular(w)
        /\ Open(x) /\ pc[x] = "done" => Watches(x, w)
    BY WatchesBefore
  <2>2. x # s
    BY <1>1, <2>1 DEF Typed
  <2>3. Open(x) /\ pc[x] = "done"
    BY <1>1, <2>1, <2>2 DEF Open, Typed
  <2> QED
    BY <2>1, <2>2, <2>3
<1>3. Right(x, w)
  BY <1>2, TellingIs
<1>4. ASSUME Owner[s] # w PROVE Right(x, w)'
  <2>1. (Present(w)' => Present(w)) /\ (Inside(w) => Inside(w)')
    <3>1. \A t \in SocketsOf(w) : t # s /\ t \in Sockets
      BY <1>4 DEF SocketsOf
    <3>2. \A t \in SocketsOf(w) : (Here(t)' => Here(t)) /\ (t \in room => t \in room')
      BY <1>1, <3>1 DEF Here, Open, Typed
    <3> QED
      BY <3>2, PresentIs, InsideIs
  <2>2. PICK n \in Nodes, e \in Packets :
           n = NodeOf[s] /\ e = Status(Owner[s], "offline") /\ e.user = Owner[s]
    BY <1>1, Places, Forms, StatusesAre
  <2>3. Publish(n, e)
    BY <1>1, <2>2
  <2>4. \A d : e # Status(w, d)
    BY <1>4, <2>2 DEF Status
  <2>5. told'[x][w] = told[x][w]
    BY <1>1, <1>2, <1>4
  <2>6. Stays(x, w)
    BY <2>3, <2>4, <2>5, StaysPublished
  <2> QED
    BY <1>3, <2>1, <2>6, RightStill
<1>5. ASSUME Owner[s] = w PROVE Right(x, w)'
  <2>1. OneNode(w) /\ w \notin doubled
    BY <1>2 DEF Regular
  <2>2. ASSUME NEW t \in SocketsOf(w), Open(t)' PROVE FALSE
    <3>1. t \in Sockets /\ t # s /\ Owner[t] = w /\ Open(t)
      BY <1>1, <2>2 DEF SocketsOf, Open, Typed
    <3> QED
      BY <1>1, <1>5, <2>1, <3>1 DEF Staged
  <2>3. ~Present(w)'
    BY <2>2 DEF Present, SocketsOf
  <2>4. PICK c \in Statuses : c = "offline" /\ c # "online"
    BY StatusesAre
  <2>5. NodeOf[x] = NodeOf[s] => told'[x][w] = c
    BY <1>1, <1>2, <1>5, <2>4 DEF Hearing
  <2>6. Publish(NodeOf[s], Status(w, c)) /\ sock[s] # "new"
    BY <1>1, <1>5, <2>4 DEF Open
  <2>7. (c = "online" => Inside(w)') /\ (c = "offline" => ~Present(w)')
    BY <2>3, <2>4
  <2> QED
    BY <1>1, <1>5, <2>1, <2>5, <2>6, <2>7, RightSaid
<1> QED
  BY <1>4, <1>5

\* The last that a client is told, or will be, is right.
LEMMA TellingKept ==
    ASSUME Typed, Staged, Bused, Answered, Saving, Listing, Telling, Track,
           NEW s, NEW n, NEW u, NEW v, NEW m, NEW f, NEW c, NEW l,
           Deed(s, n, u, v, m, f, c, l)
    PROVE  Telling'
<1>0. Onwards
  BY OnwardsKept
<1>t. ASSUME \A x \in Sockets, w \in Users : Watches(x, w)' => Right(x, w)' PROVE Telling'
  BY <1>t DEF Telling, Watches, Right, RightOn, RightOff, FriendsOf
<1>1. ASSUME s \in Sockets, list[s] \in Views, Friendless(s) PROVE Telling'
  <2>1. PICK k \in Views : k = list[s]
    BY <1>1
  <2>2. /\ Ends(s, k) /\ UNCHANGED <<sock, room, cut>> /\ pc[s] \in {"friends", "sync"}
        /\ FriendsOf(Owner[s]) = {}
    BY <1>1, <2>1, FinishFields DEF Friendless, tracks
  <2>3. \A x \in Sockets, w \in Users : Watches(x, w)' => x # s
    BY <2>2 DEF Watches, FriendsOf
  <2>4. \A x \in Sockets, w \in Users : Watches(x, w)' => Right(x, w)'
    BY <1>0, <1>1, <2>2, <2>3, TellingEnds
  <2> QED
    BY <1>t, <2>4
<1>2. ASSUME n \in Nodes, s \in Sockets, v \in Users, l \in Views, ReadsLast(n, s, v, l)
      PROVE  Telling'
  <2>1. Ends(s, l) /\ UNCHANGED <<sock, room, cut>> /\ pc[s] \in {"friends", "sync"}
    BY <1>2, FinishFields DEF ReadsLast, ReadsFriend, tracks
  <2>2. \A x \in Sockets, w \in Users : Watches(x, w)' /\ x # s => Right(x, w)'
    BY <1>0, <1>2, <2>1, TellingEnds
  <2>3. \A w \in Users : Watches(s, w)' => Right(s, w)'
    BY <1>0, <1>2, TellingLast
  <2>4. \A x \in Sockets, w \in Users : Watches(x, w)' => Right(x, w)'
    BY <2>2, <2>3
  <2> QED
    BY <1>t, <2>4
<1>3. ASSUME PartsKnown(s) PROVE Telling'
  <2>1. \A x \in Sockets, w \in Users : Watches(x, w)' => Right(x, w)'
    BY <1>0, <1>3, TellingParts
  <2> QED
    BY <1>t, <2>1
<1>4. ASSUME HearsStatus(n, v, c) PROVE Telling'
  BY <1>0, <1>4, TellingHears
<1>5. ASSUME Sends(s, v, m) \/ HearsMessage(n, m) PROVE Telling'
  BY <1>0, <1>5, TellingMessages
<1>6. ASSUME n \in Nodes, Crash(n) PROVE Telling'
  BY <1>0, <1>6, TellingCrash
<1>7. ASSUME \/ s \in Sockets /\ Connect(s)
             \/ Turns(s)
             \/ Verifies(s)
             \/ s \in Sockets /\ v \in Users /\ AsksFirst(s, v)
             \/ PartsUnknown(s)
             \/ SavesAs(n, u, f, c)
             \/ s \in Sockets /\ FindsFor(n, s, f)
             \/ s \in Sockets /\ ReadsFor(n, s)
             \/ ReadsNext(n, s, v, l)
             \/ Keeps(n, m) \/ Expire(u) \/ ExpireMessages(u)
      PROVE Telling'
  BY <1>0, <1>7, TellingKeptQuiet
<1> QED
  BY <1>1, <1>2, <1>3, <1>4, <1>5, <1>6, <1>7, Zenon DEF Deed
------------------------------------------------------------------------------
\* The inductive invariant.

\* At first nobody has come and nothing is on its way.
LEMMA InitInv == Init => IInv
<1> SUFFICES ASSUME Init PROVE IInv
  OBVIOUS
<1>1. /\ sock = [s \in Sockets |-> "new"] /\ pc = [s \in Sockets |-> "new"] /\ room = {}
      /\ list = [s \in Sockets |-> Nothing] /\ told = [s \in Sockets |-> Nothing]
      /\ read = [s \in Sockets |-> {}] /\ got = [s \in Sockets |-> {}]
      /\ due = [s \in Sockets |-> {}] /\ unsettled = [s \in Sockets |-> {}]
      /\ session = [u \in Users |-> NoSession] /\ kept = [u \in Users |-> {}]
      /\ store = [n \in Nodes |-> <<>>] /\ bus = [n \in Nodes |-> <<>>]
      /\ msg = [m \in Messages |-> [from |-> None, to |-> None]]
      /\ cut = [s \in Sockets |-> "no"] /\ doubled = {} /\ lapsed = {} /\ dropped = {}
  BY DEF Init
<1>2. Typed
  <2>1. Nothing \in [Users -> Statuses \cup {None}]
    BY DEF Nothing
  <2>2. NoSession \in [uid: BOOLEAN, connection: Statuses \cup {None}]
    BY DEF NoSession
  <2>3. <<>> \in Seq(Commands) /\ <<>> \in Seq(Packets)
    OBVIOUS
  <2>4. store \in [Nodes -> Seq(Commands)] /\ bus \in [Nodes -> Seq(Packets)]
    BY <1>1, <2>3
  <2>5. session \in [Users -> [uid: BOOLEAN, connection: Statuses \cup {None}]]
    BY <1>1, <2>2
  <2>6. /\ list \in [Sockets -> [Users -> Statuses \cup {None}]]
        /\ told \in [Sockets -> [Users -> Statuses \cup {None}]]
    BY <1>1, <2>1
  <2>7. msg \in [Messages -> [from: Users \cup {None}, to: Users \cup {None}]]
    BY <1>1
  <2> QED
    BY <1>1, <2>4, <2>5, <2>6, <2>7 DEF Typed, Stages
<1>3. \A n \in Nodes : /\ Range(store[n]) = {} /\ Range(bus[n]) = {}
                       /\ \A A, B : After(store[n], A, B) /\ Once(store[n], A)
  BY <1>1 DEF Range, After, Once
<1>4. \A s \in Sockets : ~Open(s) /\ pc[s] = "new"
  BY <1>1 DEF Open
<1>5. Staged
  BY <1>1 DEF Staged, Open, Connecting, Entered
<1>6. Errands /\ Bused
  BY <1>3 DEF Errands, Bused
<1>7. Stored /\ Owing
  BY <1>1 DEF Stored, Owing
<1>8. Answered
  <2>1. \A u \in Users : session[u].connection # "online"
    BY <1>1, NoneIsNothing DEF NoSession
  <2> QED
    BY <1>3, <2>1 DEF Answered
<1>9. Saving
  <2>1. room = {}
    BY <1>1
  <2> QED
    BY <2>1 DEF Saving
<1>10. Listing /\ Telling
  BY <1>4 DEF Listing, Telling
<1> QED
  BY <1>2, <1>5, <1>6, <1>7, <1>8, <1>9, <1>10 DEF IInv

\* Every step keeps it.
LEMMA NextInv == IInv /\ [Next]_vars => IInv'
<1>1. ASSUME IInv, Next PROVE IInv'
  <2>1. Step /\ Track
    BY <1>1 DEF Next
  <2>2. PICK s0, n0, u0, v0, m0 : Act(s0, n0, u0, v0, m0)
    BY <2>1, StepIsAct
  <2>3. /\ Typed /\ Staged /\ Errands /\ Bused /\ Stored /\ Owing
        /\ Answered /\ Saving /\ Listing /\ Telling
    BY <1>1 DEF IInv
  <2>4. Typed'
    BY <2>1, <2>2, <2>3, TypedKept
  <2>5. PICK s, n, u, v, m, f, c, l : Deed(s, n, u, v, m, f, c, l)
    BY <2>2, <2>3, StepIsDeed
  <2>6. Staged' /\ Errands' /\ Bused'
    BY <2>3, <2>5, StagedKept, ErrandsKept, BusedKept
  <2>7. Stored' /\ Owing'
    BY <2>3, <2>5, StoredKept, OwingKept
  <2>8. Answered' /\ Saving'
    BY <2>3, <2>4, <2>5, AnsweredKept, SavingKept
  <2>9. Listing'
    BY <2>1, <2>3, <2>4, <2>5, ListingKept
  <2>10. Telling'
    BY <2>1, <2>3, <2>5, TellingKept
  <2> QED
    BY <2>4, <2>6, <2>7, <2>8, <2>9, <2>10 DEF IInv
<1>2. ASSUME IInv, UNCHANGED vars PROVE IInv'
  <2>1. /\ UNCHANGED <<sock, pc, room, list, read, session, kept, msg, store, bus, told, got>>
        /\ UNCHANGED <<cut, doubled, lapsed, dropped, due, unsettled>>
    BY <1>2 DEF vars, live, redis, client, tracks
  <2>2. \A x : Open(x)' = Open(x)
    BY <2>1 DEF Open
  <2>3. /\ \A x : StatusOf(x)' = StatusOf(x) /\ Sent(x)' = Sent(x) /\ Present(x)' = Present(x)
        /\ \A x : InMotion(x)' = InMotion(x) /\ Inside(x)' = Inside(x)
    BY <2>1 DEF StatusOf, Sent, Present, Inside, InMotion, Open, SocketsOf
  <2>4. \A x : Regular(x)' = Regular(x)
    BY <2>1 DEF Regular, OneNode, SocketsOf
  <2>5. \A x, y : /\ Came(x, y)' = Came(x, y) /\ Concerns(x, y)' = Concerns(x, y)
                  /\ Other(x, y)' = Other(x, y) /\ Witness(x, y)' = Witness(x, y)
    BY <2>1 DEF Came, Concerns, Other, Witness, SocketsOf
  <2>6. \A x, y : Fits(x, y)' = Fits(x, y) /\ Comes(x, y)' = Comes(x, y)
    BY <2>1, <2>3, <2>5 DEF Fits, Comes
  <2>7. \A x, y : WillShow(x, y)' = WillShow(x, y)
    BY <2>1, <2>5 DEF WillShow
  <2>8. \A x, A : Pending(x, A)' = Pending(x, A)
    BY <2>1 DEF Pending
  <2>9. Typed' /\ Staged'
    BY <1>2, <2>1 DEF IInv, Typed, Staged, Open
  <2>10. Errands' /\ Bused'
    BY <1>2, <2>1, <2>6 DEF IInv, Errands, Bused
  <2>11. Stored' /\ Owing'
    BY <1>2, <2>1, <2>3, <2>5, <2>7 DEF IInv, Stored, Owing
  <2>12. Answered'
    <3>1. \A u \in Users, y \in Nodes :
             /\ Onlines(u)' = Onlines(u) /\ Offlines(u)' = Offlines(u)
             /\ Pending(y, Offlines(u))' = Pending(y, Offlines(u))
      BY <2>8 DEF Onlines, Offlines, Save, Pending
    <3> QED
      BY <1>2, <2>1, <2>5, <3>1, Zenon DEF IInv, Answered
  <2>13. Saving'
    BY <1>2, <2>1 DEF IInv, Saving, Pending, Open, OneNode, Onlines, Offlines, Fulls, Save
  <2>14. Listing'
    BY <1>2, <2>1, <2>2, <2>3, <2>4 DEF IInv, Listing, FriendsOf
  <2>15. Telling'
    BY <1>2, <2>1, <2>2, <2>3, <2>4 DEF IInv, Telling, FriendsOf
  <2> QED
    BY <2>9, <2>10, <2>11, <2>12, <2>13, <2>14, <2>15 DEF IInv
<1> QED
  BY <1>1, <1>2

\* Every reachable state satisfies the inductive invariant.
THEOREM Invariant == Spec => []IInv
<1> QED
  BY InitInv, NextInv, PTL DEF Spec

------------------------------------------------------------------------------
\* The state keeps its type, and the rooms for direct messages hold open
\* sockets of verified users only (TypeOK): handleDisconnect takes a socket out, and
\* createRedisSession puts none in that is closed.
THEOREM TypeCorrect == Spec => []TypeOK
<1>1. IInv => TypeOK
  <2> SUFFICES ASSUME Typed, Staged PROVE TypeOK
    BY DEF IInv
  <2>1. \A s \in room : Open(s) /\ Known(s)
    BY DEF Typed, Staged, Entered, Known, Connecting
  <2> QED
    BY <2>1 DEF TypeOK, Typed, Stages
<1> QED
  BY <1>1, Invariant, PTL

\* saveSession, not waited for, against a disconnect: a session at rest says
\* online only for an open socket that has entered, one that has closed before
\* its handler had saved, or one of a process that has ended (OnlineHasSocket).
THEOREM OnlineIsAnswered == Spec => []OnlineHasSocket
<1>1. IInv => OnlineHasSocket
  <2> SUFFICES ASSUME Typed, Answered,
                      NEW u \in Users, ~InMotion(u), session[u].connection = "online"
               PROVE  \E s \in SocketsOf(u) : s \in room \/ cut[s] \in {"early", "crash"}
    BY DEF IInv, OnlineHasSocket
  <2>1. PICK n \in Nodes : Witness(u, n) \/ Pending(n, Offlines(u))
    BY DEF Answered
  <2>2. ~Pending(n, Offlines(u))
    BY MotionIs DEF Pending, Offlines, Save
  <2> QED
    BY <2>1, <2>2 DEF Witness
<1> QED
  BY <1>1, Invariant, PTL

\* createRedisSession and handleDisconnect: a user whose sockets have come one
\* at a time, to one node, is stored as online from the moment one has entered
\* until it closes, even if its handler has failed in between, unless the
\* session has expired (SocketIsOnline).
THEOREM ConnectedIsOnline == Spec => []SocketIsOnline
<1>1. IInv => SocketIsOnline
  <2> SUFFICES ASSUME Typed, Saving, NEW s \in room,
                      ~InMotion(Owner[s]), Owner[s] \notin doubled \cup lapsed, OneNode(Owner[s])
               PROVE  session[Owner[s]] = [uid |-> TRUE, connection |-> "online"]
    BY DEF IInv, SocketIsOnline
  <2>0. s \in Sockets
    BY DEF Typed
  <2>1. PICK u \in Users, y \in Nodes : u = Owner[s] /\ y = NodeOf[s]
    BY <2>0, Places
  <2>2. Saves(s)
    BY <2>0, SavingIs DEF Settled
  <2>3. ~Pending(y, Onlines(u)) /\ ~Pending(y, Fulls(u))
    BY <2>1, MotionIs DEF Pending, Onlines, Fulls, Save
  <2>4. session[u].connection = "online" /\ session[u].uid
    BY <2>1, <2>2, <2>3 DEF Saves
  <2>5. session[u] \in [uid: BOOLEAN, connection: Statuses \cup {None}]
    BY DEF Typed
  <2>6. session[u] = [uid |-> TRUE, connection |-> "online"]
    BY <2>4, <2>5
  <2> QED
    BY <2>1, <2>6
<1> QED
  BY <1>1, Invariant, PTL

\* friend:sync-all against friend:connection: at rest, a friend a client has
\* last been told to be online has entered, and one it has been told to be
\* offline, or not of, has not come through its handler, if the friend has been
\* regular and still while the client got its list (ToldRight).
THEOREM ToldIsSo == Spec => []ToldRight
<1>1. IInv => ToldRight
  <2> SUFFICES ASSUME Typed, Telling, NEW s \in Sockets, NEW v \in FriendsOf(Owner[s]),
                      AtRest, Open(s), pc[s] = "done", Regular(v), v \notin unsettled[s]
               PROVE  /\ told[s][v] = "online" => Inside(v)
                      /\ told[s][v] # "online" => ~Present(v)
    BY DEF IInv, ToldRight, Present, Inside
  <2>1. v \in Users /\ NodeOf[s] \in Nodes /\ ~InMotion(v)
    BY Places DEF FriendsOf, AtRest
  <2>2. Right(s, v)
    BY <2>1, TellingIs DEF Watches
  <2>3. \A c \in Statuses : Status(v, c) \notin Range(bus[NodeOf[s]])
    BY <2>1, MotionIs, Forms
  <2> QED
    BY <2>2, <2>3, StatusesAre DEF Right, RightOn, RightOff
<1> QED
  BY <1>1, Invariant, PTL

\* onDirectMessage, sent first and saved then, against a connection under way:
\* a client ends up with what had been stored when it entered its room and with
\* what has been sent since (NoMessageMissed).
THEOREM MessagesArrive == Spec => []NoMessageMissed
<1>1. IInv => NoMessageMissed
  <2> SUFFICES ASSUME Typed, Owing, NEW s \in Sockets, pc[s] = "done", bus[NodeOf[s]] = <<>>,
                      NEW m \in due[s]
               PROVE  m \in got[s]
    BY DEF IInv, NoMessageMissed
  <2>1. m \in got[s] \/ Direct(m) \in Range(bus[NodeOf[s]]) \/ WillShow(s, m)
    BY DEF Owing
  <2>2. Range(<<>>) = {}
    BY DEF Range
  <2> QED
    BY <2>1, <2>2 DEF WillShow
<1> QED
  BY <1>1, Invariant, PTL
=============================================================================
