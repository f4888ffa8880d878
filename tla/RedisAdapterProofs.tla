------------------------- MODULE RedisAdapterProofs -------------------------
(***************************************************************************)
(* Theorems about RedisAdapter, for any sockets and any number of requests *)
(* on any finite set of nodes.                                             *)
(*                                                                         *)
(* A queue is treated as the set of its messages, Mail, which is possible  *)
(* because none ever holds a message twice.  A request leaves, for each    *)
(* node it has reached, one trace at a time: the request in the node's     *)
(* queue, the handler of an emit, the answer in the requester's queue, the *)
(* answer counted (MailInv, Counts).                                       *)
(***************************************************************************)
EXTENDS RedisAdapter, SequenceTheorems, FiniteSetTheorems, TLAPS

Mail(n) == Range(inbox[n])

Messages == [on: {"request"}, id: Ids, answer: {None}]
            \cup [on: {"response"}, id: Ids, answer: Answers]

Types == {None, "emit"} \cup Collecting \cup Direct \cup Bulk \cup Packets

Requests == [type: Types, node: Nodes \cup {None}, sid: Sockets \cup {None},
             pc: {"unused", "resolved", "expired", "lost"} \cup Pending,
             subs: SUBSET Nodes, reach: SUBSET Nodes, heard: Seq(Answers)]

Typed ==
    /\ up \subseteq Nodes /\ over \subseteq Mortal \ up
    /\ socket \in [Sockets -> {"new", "open", "closed"}]
    /\ room \subseteq Sockets
    /\ \A s \in Sockets : /\ s \in room => Open(s)
                          /\ Open(s) => Home[s] \in up
    /\ inbox \in [Nodes -> Seq(Messages)]
    /\ \A n \in Nodes \ up : inbox[n] = <<>>
    /\ req \in [Ids -> Requests]
    /\ handlers \subseteq Ids \X Nodes \X BOOLEAN
    /\ got \in [Ids -> [Sockets -> Nat]]
    /\ stayed \in [Ids -> SUBSET room]

\* What a request is at each pc.
Shape(i) ==
    /\ req[i].pc = "unused" => req[i] = Unused
    /\ req[i].pc # "unused" => req[i].node \in Nodes /\ req[i].type # None
    /\ req[i].type \in Bulk \cup {"broadcast"} => req[i].pc = "resolved"
    /\ req[i].type = "broadcastAck" => req[i].pc \in {"waiting", "expired", "lost"}
    /\ req[i].type \in Direct => req[i].pc \notin {"counting", "counted"}
    /\ req[i].type \in Direct \cup Bulk => req[i].sid \in Sockets
    /\ req[i].pc \in Pending => req[i].node \in up
    /\ req[i].pc = "lost" => req[i].node \in over
    /\ req[i].pc \in {"counting", "counted"} => req[i].reach = {}
    /\ req[i].pc = "waiting" => req[i].node \in req[i].reach
    /\ req[i].type \in Collecting /\ req[i].pc \in {"counted", "waiting", "resolved"}
           => req[i].node \in req[i].subs

\* Types of which the requester's own part is counted from the start.
SelfHeard == Collecting \cup {"broadcastAck"}

\* The answers counted: one of a node, from nodes the request has reached.
Counts(i) ==
    /\ \A j, k \in DOMAIN req[i].heard :
          req[i].heard[j].node = req[i].heard[k].node => j = k
    /\ IsFiniteSet(HeardFrom(i)) /\ Cardinality(HeardFrom(i)) = Len(req[i].heard)
    /\ IsFiniteSet(Heard(i)) /\ Cardinality(Heard(i)) = Len(req[i].heard)
    /\ HeardFrom(i) \subseteq req[i].reach \cup {req[i].node}
    /\ req[i].type \in Collecting /\ req[i].pc \in {"counting", "counted"}
           => HeardFrom(i) = {req[i].node}
    /\ req[i].type \notin Collecting /\ req[i].pc \in {"counting", "counted"}
           => HeardFrom(i) = {}
    /\ req[i].type \in SelfHeard /\ Waiting(i) => req[i].node \in HeardFrom(i)
    /\ req[i].type \in Direct /\ Waiting(i) => req[i].heard = <<>>
    /\ /\ req[i].type \in Collecting /\ req[i].pc = "resolved"
       /\ req[i].reach \subseteq req[i].subs
       => HeardFrom(i) = req[i].subs

Published(i) == req[i].pc \notin {"unused", "counting", "counted"}

MailOf(n) ==
    /\ IsInjective(inbox[n])
    /\ \A m \in Mail(n) :
          /\ Published(m.id)
          /\ m.on = "request" => n \in req[m.id].reach
          /\ m.on = "response" =>
                /\ n = req[m.id].node
                /\ m.answer.node \in req[m.id].reach
                /\ Request(m.id) \notin Mail(m.answer.node)
                /\ <<m.id, m.answer.node, FALSE>> \notin handlers
    /\ \A m, l \in Mail(n) :
          m.on = "response" /\ l.on = "response" /\ m.id = l.id
          /\ m.answer.node = l.answer.node => m = l

HandlersInv ==
    \A i \in Ids, n \in Nodes, b \in BOOLEAN : <<i, n, b>> \in handlers =>
        /\ req[i].type = "emit" /\ Published(i)
        /\ n \in req[i].reach /\ n # req[i].node
        /\ Request(i) \notin Mail(n)

\* Who has been heard is not heard again.
NotAgain(i) == Waiting(i) =>
    \A n \in HeardFrom(i) :
        /\ <<i, n, FALSE>> \notin handlers
        /\ Request(i) \in Mail(n) => n = req[i].node /\ req[i].type \in SelfHeard
        /\ \A x \in Nodes : \A m \in Mail(x) :
              m.on = "response" /\ m.id = i => m.answer.node # n

MailInv == /\ \A n \in Nodes : MailOf(n)
           /\ HandlersInv
           /\ \A i \in Ids : NotAgain(i)

\* How often a packet has reached a socket, and may reach it yet.
Copies(i) == \A s \in Sockets :
    /\ req[i].type \notin Packets => got[i][s] = 0 /\ s \notin stayed[i]
    /\ got[i][s] <= 2
    /\ got[i][s] > 1 => /\ req[i].type = "broadcastAck" /\ req[i].pc = "expired"
                        /\ Home[s] = req[i].node
    /\ Request(i) \in Mail(Home[s]) =>
          got[i][s] <= IF Home[s] = req[i].node THEN 1 ELSE 0
    /\ s \in stayed[i] /\ (Home[s] = req[i].node \/ Request(i) \notin Mail(Home[s]))
          => got[i][s] >= 1

IInv == /\ Typed
        /\ \A i \in Ids : Shape(i) /\ Counts(i) /\ Copies(i)
        /\ MailInv

------------------------------------------------------------------------------
\* Queues.

\* The first of a queue without repetition is taken.
LEMMA TailRange ==
    ASSUME NEW S, NEW q \in Seq(S), q # <<>>, IsInjective(q)
    PROVE  /\ Head(q) \in Range(q) /\ Head(q) \in S
           /\ Tail(q) \in Seq(S)
           /\ Range(Tail(q)) = Range(q) \ {Head(q)}
           /\ IsInjective(Tail(q))
<1> DEFINE t == Tail(q)
<1>1. /\ Len(q) \in Nat \ {0} /\ DOMAIN q = 1..Len(q)
      /\ Head(q) = q[1] /\ Head(q) \in S
  BY EmptySeq, HeadTailProperties
<1>2. /\ t \in Seq(S) /\ Len(t) = Len(q) - 1
      /\ \A k \in 1..Len(t) : t[k] = q[k+1]
  BY HeadTailProperties
<1>3. DOMAIN t = 1..Len(t)
  BY <1>2, LenProperties
<1> HIDE DEF t
<1>4. ASSUME NEW x \in Range(t) PROVE x \in Range(q) \ {Head(q)}
  <2>1. PICK k \in 1..Len(t) : x = q[k+1]
    BY <1>2, <1>3 DEF Range
  <2>2. k + 1 \in DOMAIN q /\ 1 \in DOMAIN q /\ k + 1 # 1
    BY <1>1, <1>2
  <2> QED
    BY <1>1, <2>1, <2>2 DEF Range, IsInjective
<1>5. ASSUME NEW x \in Range(q), x # Head(q) PROVE x \in Range(t)
  <2>1. PICK k \in DOMAIN q : x = q[k]
    BY DEF Range
  <2>2. k - 1 \in 1..Len(t) /\ k = (k - 1) + 1
    BY <1>1, <1>2, <1>5, <2>1
  <2>3. t[k - 1] = x
    BY <1>2, <2>1, <2>2
  <2> QED
    BY <1>3, <2>2, <2>3 DEF Range
<1>6. IsInjective(t)
  <2> SUFFICES ASSUME NEW j \in 1..Len(t), NEW k \in 1..Len(t), t[j] = t[k]
               PROVE  j = k
    BY <1>3 DEF IsInjective
  <2>1. q[j+1] = q[k+1] /\ j + 1 \in DOMAIN q /\ k + 1 \in DOMAIN q
    BY <1>1, <1>2
  <2>2. j + 1 = k + 1
    BY ONLY <2>1, IsInjective(q) DEF IsInjective
  <2>3. j \in Int /\ k \in Int
    BY <1>1, <1>2
  <2> QED
    BY ONLY <2>2, <2>3
<1>7. Head(q) \in Range(q)
  BY <1>1 DEF Range
<1> QED
  BY <1>1, <1>2, <1>4, <1>5, <1>6, <1>7 DEF t

\* One more is put at the end of a queue.
LEMMA AppendRange ==
    ASSUME NEW S, NEW q \in Seq(S), NEW x \in S
    PROVE  /\ Append(q, x) \in Seq(S)
           /\ Range(Append(q, x)) = Range(q) \cup {x}
           /\ IsInjective(q) /\ x \notin Range(q) => IsInjective(Append(q, x))
<1> DEFINE t == Append(q, x)
<1>1. /\ t \in Seq(S) /\ Len(t) = Len(q) + 1 /\ Len(q) \in Nat
      /\ DOMAIN q = 1..Len(q) /\ DOMAIN t = 1..Len(t)
      /\ \A k \in 1..Len(q) : t[k] = q[k]
      /\ t[Len(t)] = x
  BY LenProperties
<1> HIDE DEF t
<1>2. Range(t) = Range(q) \cup {x}
  <2>1. ASSUME NEW y \in Range(t) PROVE y \in Range(q) \cup {x}
    <3>1. PICK k \in 1..Len(t) : y = t[k]
      BY <1>1 DEF Range
    <3>2. k \in 1..Len(q) \/ k = Len(t)
      BY <1>1
    <3> QED
      BY <1>1, <3>1, <3>2 DEF Range
  <2>2. ASSUME NEW y \in Range(q) PROVE y \in Range(t)
    <3>1. PICK k \in 1..Len(q) : y = q[k]
      BY <1>1 DEF Range
    <3>2. k \in 1..Len(t)
      BY <1>1
    <3> QED
      BY <1>1, <3>1, <3>2 DEF Range
  <2>3. x \in Range(t)
    <3>1. Len(t) \in 1..Len(t)
      BY <1>1
    <3> QED
      BY <1>1, <3>1 DEF Range
  <2> QED
    BY <2>1, <2>2, <2>3
<1>3. ASSUME IsInjective(q), x \notin Range(q) PROVE IsInjective(t)
  <2> SUFFICES ASSUME NEW j \in 1..Len(t), NEW k \in 1..Len(t), t[j] = t[k]
               PROVE  j = k
    BY <1>1 DEF IsInjective
  <2>1. \A l \in 1..Len(q) : t[l] \in Range(q)
    BY <1>1 DEF Range
  <2>2. j \in 1..Len(q) <=> k \in 1..Len(q)
    <3>1. j \notin 1..Len(q) => t[j] = x
      BY <1>1
    <3>2. k \notin 1..Len(q) => t[k] = x
      BY <1>1
    <3> QED
      BY <1>3, <2>1, <3>1, <3>2
  <2>3. CASE j \in 1..Len(q)
    BY <1>1, <1>3, <2>2, <2>3 DEF IsInjective
  <2>4. CASE j \notin 1..Len(q)
    BY <1>1, <2>2, <2>4
  <2> QED
    BY <2>3, <2>4
<1> QED
  BY <1>1, <1>2, <1>3 DEF t

Solo == \A n \in Nodes : IsInjective(inbox[n])

\* What a request and a response consist of, ...
LEMMA MessageTypes ==
    ASSUME NEW i \in Ids
    PROVE  /\ Request(i) \in Messages
           /\ Request(i).on = "request" /\ Request(i).id = i
           /\ \A a \in Answers :
                 /\ Response(i, a) \in Messages /\ Response(i, a).on = "response"
                 /\ Response(i, a).id = i /\ Response(i, a).answer = a
  BY DEF Request, Response, Messages

\* ... and the other way round.
LEMMA MessageForm ==
    ASSUME NEW m \in Messages
    PROVE  /\ m.id \in Ids
           /\ \/ m.on = "request" /\ m = Request(m.id)
              \/ m.on = "response" /\ m.answer \in Answers /\ m = Response(m.id, m.answer)
  BY DEF Request, Response, Messages

\* A node's answer is an answer, and says whose it is.
LEMMA AnswerType ==
    ASSUME Typed, NEW n \in Nodes
    PROVE  HeldBy(n) \in Answers /\ HeldBy(n).node = n
  BY DEF Typed, HeldBy, Held, Answers

\* A node's mail consists of messages, and a node that is down has none.
LEMMA MailType ==
    ASSUME Typed, NEW n \in Nodes
    PROVE  /\ Mail(n) \subseteq Messages
           /\ n \notin up => Mail(n) = {}
<1>1. inbox[n] \in Seq(Messages) /\ DOMAIN inbox[n] = 1..Len(inbox[n])
  BY LenProperties DEF Typed
<1>2. \A k \in 1..Len(inbox[n]) : inbox[n][k] \in Messages
  BY <1>1, ElementOfSeq
<1>3. n \notin up => DOMAIN inbox[n] = {}
  BY DEF Typed
<1> QED
  BY <1>1, <1>2, <1>3 DEF Mail, Range

\* The next message of a node.
LEMMA NextMessage ==
    ASSUME Typed, NEW n \in Nodes, NEW m \in Arrived(n)
    PROVE  /\ m = Head(inbox[n]) /\ inbox[n] # <<>>
           /\ m \in Messages /\ m \in Mail(n) /\ n \in up
<1>1. m = Head(inbox[n]) /\ inbox[n] # <<>>
  BY DEF Arrived
<1>2. inbox[n] \in Seq(Messages) /\ DOMAIN inbox[n] = 1..Len(inbox[n])
  BY LenProperties DEF Typed
<1>3. 1 \in DOMAIN inbox[n] /\ Head(inbox[n]) = inbox[n][1]
  BY <1>1, <1>2, EmptySeq, HeadTailProperties
<1>4. m \in Mail(n)
  BY <1>1, <1>3 DEF Mail, Range
<1> QED
  BY <1>1, <1>4, MailType DEF Typed

\* A request that is published goes to every node that is up.
LEMMA PublicationMail ==
    ASSUME Typed, Solo, NEW i \in Ids, Publication(i),
           \A n \in Nodes : Request(i) \notin Mail(n)
    PROVE  /\ inbox' \in [Nodes -> Seq(Messages)] /\ Solo'
           /\ \A n \in Nodes : Mail(n)' = Mail(n) \cup IF n \in up THEN {Request(i)} ELSE {}
           /\ \A n \in Nodes \ up : inbox'[n] = inbox[n]
<1>1. ASSUME NEW n \in Nodes
      PROVE  /\ inbox'[n] \in Seq(Messages) /\ IsInjective(inbox'[n])
             /\ Range(inbox'[n]) = Range(inbox[n])
                    \cup IF n \in up THEN {Request(i)} ELSE {}
             /\ n \notin up => inbox'[n] = inbox[n]
  <2>1. inbox[n] \in Seq(Messages) /\ IsInjective(inbox[n])
    BY DEF Typed, Solo
  <2>2. CASE n \in up
    <3>1. inbox'[n] = Append(inbox[n], Request(i))
      BY <2>2 DEF Publication
    <3> QED
      BY <2>1, <2>2, <3>1, AppendRange, MessageTypes DEF Mail
  <2>3. CASE n \notin up
    <3>1. inbox'[n] = inbox[n]
      BY <2>3 DEF Publication
    <3> QED
      BY <2>1, <2>3, <3>1
  <2> QED
    BY <2>2, <2>3
<1>2. inbox' = [n \in Nodes |-> inbox'[n]]
  BY DEF Publication
<1> QED
  BY <1>1, <1>2 DEF Mail, Solo

\* What has arrived is taken from a node's mail.
LEMMA DropMail ==
    ASSUME Typed, Solo, NEW n \in Nodes, NEW m \in Arrived(n)
    PROVE  /\ Rest(n) \in [Nodes -> Seq(Messages)]
           /\ \A x \in Nodes : IsInjective(Rest(n)[x])
           /\ \A x \in Nodes : Range(Rest(n)[x]) = Mail(x) \ IF x = n THEN {m} ELSE {}
           /\ \A x \in Nodes \ up : Rest(n)[x] = <<>>
<1>1. m = Head(inbox[n]) /\ inbox[n] # <<>> /\ n \in up
  BY NextMessage
<1>2. inbox[n] \in Seq(Messages) /\ IsInjective(inbox[n])
  BY DEF Typed, Solo
<1>3. /\ Tail(inbox[n]) \in Seq(Messages) /\ IsInjective(Tail(inbox[n]))
      /\ Range(Tail(inbox[n])) = Mail(n) \ {m}
  BY <1>1, <1>2, TailRange DEF Mail
<1>4. Rest(n) = [x \in Nodes |-> IF x = n THEN Tail(inbox[n]) ELSE inbox[x]]
  BY DEF Rest, Typed
<1>5. \A x \in Nodes : inbox[x] \in Seq(Messages) /\ IsInjective(inbox[x])
  BY DEF Typed, Solo
<1>6. \A x \in Nodes \ up : inbox[x] = <<>>
  BY DEF Typed
<1> QED
  BY <1>1, <1>3, <1>4, <1>5, <1>6 DEF Mail

\* An answer of n to the request i is put into the boxes.
LEMMA ToMail ==
    ASSUME NEW box \in [Nodes -> Seq(Messages)], NEW i \in Ids, NEW a \in Answers,
           \A x \in Nodes : IsInjective(box[x]),
           \A x \in Nodes \ up : box[x] = <<>>,
           req[i].node \in Nodes,
           Response(i, a) \notin Range(box[req[i].node])
    PROVE  /\ To(box, i, a) \in [Nodes -> Seq(Messages)]
           /\ \A x \in Nodes : IsInjective(To(box, i, a)[x])
           /\ \A x \in Nodes : Range(To(box, i, a)[x]) = Range(box[x])
                 \cup IF x = req[i].node /\ x \in up THEN {Response(i, a)} ELSE {}
           /\ \A x \in Nodes \ up : To(box, i, a)[x] = <<>>
<1> DEFINE n == req[i].node
           r == Response(i, a)
<1>1. /\ Append(box[n], r) \in Seq(Messages) /\ IsInjective(Append(box[n], r))
      /\ Range(Append(box[n], r)) = Range(box[n]) \cup {r}
  BY AppendRange, MessageTypes
<1>2. CASE n \in up
  <2>1. To(box, i, a) = [x \in Nodes |-> IF x = n THEN Append(box[n], r) ELSE box[x]]
    BY <1>2 DEF To
  <2> HIDE DEF n, r
  <2>2. n \in Nodes
    BY DEF n
  <2>3. \A x \in Nodes : box[x] \in Seq(Messages)
    OBVIOUS
  <2> QED
    BY <1>1, <1>2, <2>1, <2>2, <2>3 DEF n, r
<1>3. CASE n \notin up
  BY <1>3 DEF To
<1> QED
  BY <1>2, <1>3

\* publishResponse
LEMMA AnswerMail ==
    ASSUME Typed, Solo, NEW n \in Nodes, NEW m \in Arrived(n),
           req[m.id].node \in Nodes,
           Response(m.id, HeldBy(n)) \notin Mail(req[m.id].node),
           Answer(n, m.id)
    PROVE  /\ inbox' \in [Nodes -> Seq(Messages)] /\ Solo'
           /\ \A x \in Nodes : Mail(x)' = (Mail(x) \ IF x = n THEN {m} ELSE {})
                 \cup IF x = req[m.id].node /\ x \in up
                      THEN {Response(m.id, HeldBy(n))} ELSE {}
           /\ \A x \in Nodes \ up : inbox'[x] = <<>>
<1>1. inbox' = To(Rest(n), m.id, HeldBy(n))
  BY DEF Answer
<1>2. m.id \in Ids /\ HeldBy(n) \in Answers
  BY NextMessage, MessageForm, AnswerType
<1>3. /\ Rest(n) \in [Nodes -> Seq(Messages)]
      /\ \A x \in Nodes : IsInjective(Rest(n)[x])
      /\ \A x \in Nodes : Range(Rest(n)[x]) = Mail(x) \ IF x = n THEN {m} ELSE {}
      /\ \A x \in Nodes \ up : Rest(n)[x] = <<>>
  BY DropMail
<1>4. Response(m.id, HeldBy(n)) \notin Range(Rest(n)[req[m.id].node])
  BY <1>3
<1>5. /\ To(Rest(n), m.id, HeldBy(n)) \in [Nodes -> Seq(Messages)]
      /\ \A x \in Nodes : IsInjective(To(Rest(n), m.id, HeldBy(n))[x])
      /\ \A x \in Nodes : Range(To(Rest(n), m.id, HeldBy(n))[x]) = Range(Rest(n)[x])
            \cup IF x = req[m.id].node /\ x \in up
                 THEN {Response(m.id, HeldBy(n))} ELSE {}
      /\ \A x \in Nodes \ up : To(Rest(n), m.id, HeldBy(n))[x] = <<>>
  <2>1. PICK box \in [Nodes -> Seq(Messages)], i \in Ids, a \in Answers :
           box = Rest(n) /\ i = m.id /\ a = HeldBy(n)
    BY <1>2, <1>3, Zenon
  <2>2. /\ \A x \in Nodes : IsInjective(box[x])
        /\ \A x \in Nodes \ up : box[x] = <<>>
        /\ req[i].node \in Nodes /\ Response(i, a) \notin Range(box[req[i].node])
    BY <1>3, <1>4, <2>1, Zenon
  <2>3. /\ To(box, i, a) \in [Nodes -> Seq(Messages)]
        /\ \A x \in Nodes : IsInjective(To(box, i, a)[x])
        /\ \A x \in Nodes : Range(To(box, i, a)[x]) = Range(box[x])
              \cup IF x = req[i].node /\ x \in up THEN {Response(i, a)} ELSE {}
        /\ \A x \in Nodes \ up : To(box, i, a)[x] = <<>>
    BY <2>2, ToMail
  <2> QED
    BY <2>1, <2>3, Zenon
<1>6. ASSUME NEW x \in Nodes
      PROVE  Mail(x)' = (Mail(x) \ IF x = n THEN {m} ELSE {})
                \cup IF x = req[m.id].node /\ x \in up
                     THEN {Response(m.id, HeldBy(n))} ELSE {}
  <2>1. Mail(x)' = Range(To(Rest(n), m.id, HeldBy(n))[x])
    BY <1>1 DEF Mail
  <2>2. Range(Rest(n)[x]) = Mail(x) \ IF x = n THEN {m} ELSE {}
    BY <1>3, Zenon
  <2>3. Range(To(Rest(n), m.id, HeldBy(n))[x]) = Range(Rest(n)[x])
           \cup IF x = req[m.id].node /\ x \in up
                THEN {Response(m.id, HeldBy(n))} ELSE {}
    BY <1>5, Zenon
  <2> QED
    BY <2>1, <2>2, <2>3, Zenon
<1>7. inbox' \in [Nodes -> Seq(Messages)] /\ \A x \in Nodes \ up : inbox'[x] = <<>>
  BY <1>1, <1>5, Zenon
<1>8. Solo'
  <2>1. \A x \in Nodes : IsInjective(inbox'[x])
    BY <1>1, <1>5, Zenon
  <2> QED
    BY <2>1 DEF Solo
<1> QED
  BY <1>6, <1>7, <1>8, Zenon

\* The same of a step that does so.
LEMMA DroppedMail ==
    ASSUME Typed, Solo, NEW n \in Nodes, NEW m \in Arrived(n), Drop(n)
    PROVE  /\ inbox' \in [Nodes -> Seq(Messages)] /\ Solo'
           /\ \A x \in Nodes : Mail(x)' = Mail(x) \ IF x = n THEN {m} ELSE {}
           /\ \A x \in Nodes \ up : inbox'[x] = <<>>
  BY DropMail DEF Drop, Mail, Solo

\* The answer of a handler.
LEMMA CallBackMail ==
    ASSUME Typed, Solo, NEW n \in Nodes, NEW i \in Ids, req[i].node \in Nodes,
           Response(i, HeldBy(n)) \notin Mail(req[i].node),
           inbox' = To(inbox, i, HeldBy(n))
    PROVE  /\ inbox' \in [Nodes -> Seq(Messages)] /\ Solo'
           /\ \A x \in Nodes : Mail(x)' = Mail(x)
                 \cup IF x = req[i].node /\ x \in up
                      THEN {Response(i, HeldBy(n))} ELSE {}
           /\ \A x \in Nodes \ up : inbox'[x] = <<>>
<1>1. /\ inbox \in [Nodes -> Seq(Messages)]
      /\ \A x \in Nodes : IsInjective(inbox[x])
      /\ \A x \in Nodes \ up : inbox[x] = <<>>
      /\ HeldBy(n) \in Answers
  BY AnswerType DEF Typed, Solo
<1>2. Response(i, HeldBy(n)) \notin Range(inbox[req[i].node])
  BY DEF Mail
<1>3. /\ To(inbox, i, HeldBy(n)) \in [Nodes -> Seq(Messages)]
      /\ \A x \in Nodes : IsInjective(To(inbox, i, HeldBy(n))[x])
      /\ \A x \in Nodes : Range(To(inbox, i, HeldBy(n))[x]) = Range(inbox[x])
            \cup IF x = req[i].node /\ x \in up THEN {Response(i, HeldBy(n))} ELSE {}
      /\ \A x \in Nodes \ up : To(inbox, i, HeldBy(n))[x] = <<>>
  BY <1>1, <1>2, ToMail
<1> QED
  BY <1>3 DEF Mail, Solo

------------------------------------------------------------------------------
\* Requests.

\* What Ask does to the requests, ...
LEMMA AskFields ==
    ASSUME Typed, NEW i \in Ids, NEW n \in Nodes, NEW t \in Types,
           NEW s \in Sockets \cup {None}, NEW pc \in {"resolved"} \cup Pending,
           NEW heard \in Seq(Answers), NEW reach \in SUBSET Nodes,
           Ask(i, n, t, s, pc, heard, reach)
    PROVE  /\ req[i] = Unused /\ n \in up
           /\ req' \in [Ids -> Requests]
           /\ \A j \in Ids \ {i} : req'[j] = req[j]
           /\ req'[i].type = t /\ req'[i].node = n /\ req'[i].sid = s
           /\ req'[i].pc = pc /\ req'[i].subs = {} /\ req'[i].reach = reach
           /\ req'[i].heard = heard
<1> DEFINE r == [type |-> t, node |-> n, sid |-> s, pc |-> pc,
                 subs |-> {}, reach |-> reach, heard |-> heard]
<1>1. r \in Requests
  BY DEF Requests
<1>2. req' = [req EXCEPT ![i] = r] /\ req[i] = Unused /\ n \in up
  BY DEF Ask
<1>3. req \in [Ids -> Requests]
  BY DEF Typed
<1>4. /\ r.type = t /\ r.node = n /\ r.sid = s /\ r.pc = pc /\ r.subs = {}
      /\ r.reach = reach /\ r.heard = heard
  OBVIOUS
<1> HIDE DEF r
<1> QED
  BY <1>1, <1>2, <1>3, <1>4

\* ... an answer that is not the last, ...
LEMMA CountedFields ==
    ASSUME Typed, NEW i \in Ids, NEW a \in Answers, req' = Counted(i, a)
    PROVE  /\ req' \in [Ids -> Requests]
           /\ \A j \in Ids \ {i} : req'[j] = req[j]
           /\ req'[i].type = req[i].type /\ req'[i].node = req[i].node
           /\ req'[i].sid = req[i].sid /\ req'[i].pc = req[i].pc
           /\ req'[i].subs = req[i].subs /\ req'[i].reach = req[i].reach
           /\ req'[i].heard = Append(req[i].heard, a)
<1>1. req \in [Ids -> Requests] /\ req[i] \in Requests
  BY DEF Typed
<1>2. Append(req[i].heard, a) \in Seq(Answers)
  BY <1>1 DEF Requests
<1>3. req' = [req EXCEPT ![i] = [req[i] EXCEPT !.heard = Append(req[i].heard, a)]]
  BY DEF Counted
<1> DEFINE r == [req[i] EXCEPT !.heard = Append(req[i].heard, a)]
<1>4. /\ r \in Requests
      /\ r.type = req[i].type /\ r.node = req[i].node /\ r.sid = req[i].sid
      /\ r.pc = req[i].pc /\ r.subs = req[i].subs /\ r.reach = req[i].reach
      /\ r.heard = Append(req[i].heard, a)
  BY <1>1, <1>2 DEF Requests
<1> HIDE DEF r
<1> QED
  BY <1>1, <1>3, <1>4 DEF r

\* ... the last one, ...
LEMMA CountedLastFields ==
    ASSUME Typed, NEW i \in Ids, NEW a \in Answers, req' = CountedLast(i, a)
    PROVE  /\ req' \in [Ids -> Requests]
           /\ \A j \in Ids \ {i} : req'[j] = req[j]
           /\ req'[i].type = req[i].type /\ req'[i].node = req[i].node
           /\ req'[i].sid = req[i].sid /\ req'[i].pc = "resolved"
           /\ req'[i].subs = req[i].subs /\ req'[i].reach = req[i].reach
           /\ req'[i].heard = Append(req[i].heard, a)
<1>1. req \in [Ids -> Requests] /\ req[i] \in Requests
  BY DEF Typed
<1>2. Append(req[i].heard, a) \in Seq(Answers)
  BY <1>1 DEF Requests
<1> DEFINE r == [req[i] EXCEPT !.heard = Append(req[i].heard, a), !.pc = "resolved"]
<1>3. req' = [req EXCEPT ![i] = r]
  BY <1>1 DEF CountedLast, Typed
<1>4. /\ r \in Requests
      /\ r.type = req[i].type /\ r.node = req[i].node /\ r.sid = req[i].sid
      /\ r.pc = "resolved" /\ r.subs = req[i].subs /\ r.reach = req[i].reach
      /\ r.heard = Append(req[i].heard, a)
  BY <1>1, <1>2 DEF Requests
<1> HIDE DEF r
<1> QED
  BY <1>1, <1>3, <1>4

\* ... the count of the subscribers, ...
LEMMA CountFields ==
    ASSUME Typed, NEW i \in Ids, Count(i)
    PROVE  /\ req' \in [Ids -> Requests] /\ req[i].pc = "counting"
           /\ \A j \in Ids \ {i} : req'[j] = req[j]
           /\ req'[i].type = req[i].type /\ req'[i].node = req[i].node
           /\ req'[i].sid = req[i].sid /\ req'[i].pc = "counted"
           /\ req'[i].subs = up /\ req'[i].reach = req[i].reach
           /\ req'[i].heard = req[i].heard
<1>1. req \in [Ids -> Requests] /\ req[i] \in Requests /\ up \subseteq Nodes
  BY DEF Typed
<1> DEFINE r == [req[i] EXCEPT !.pc = "counted", !.subs = up]
<1>2. req' = [req EXCEPT ![i] = r] /\ req[i].pc = "counting"
  BY <1>1 DEF Count
<1>3. /\ r \in Requests
      /\ r.type = req[i].type /\ r.node = req[i].node /\ r.sid = req[i].sid
      /\ r.pc = "counted" /\ r.subs = up /\ r.reach = req[i].reach
      /\ r.heard = req[i].heard
  BY <1>1 DEF Requests, Pending
<1> HIDE DEF r
<1> QED
  BY <1>1, <1>2, <1>3

\* Publish, of a request that needs nobody else, and of one that does.
LEMMA PublishFields ==
    ASSUME Typed, NEW i \in Ids, Publish(i)
    PROVE  /\ req' \in [Ids -> Requests] /\ req[i].pc = "counted"
           /\ \A j \in Ids \ {i} : req'[j] = req[j]
           /\ req'[i].type = req[i].type /\ req'[i].node = req[i].node
           /\ req'[i].sid = req[i].sid /\ req'[i].subs = req[i].subs
           /\ req'[i].heard = req[i].heard
           /\ \/ /\ Cardinality(req[i].subs) <= 1 /\ req'[i].pc = "resolved"
                 /\ req'[i].reach = req[i].reach /\ inbox' = inbox
              \/ /\ ~(Cardinality(req[i].subs) <= 1) /\ req'[i].pc = "waiting"
                 /\ req'[i].reach = up /\ Publication(i)
<1>1. req \in [Ids -> Requests] /\ req[i] \in Requests /\ up \subseteq Nodes
      /\ req[i].pc = "counted"
  BY DEF Typed, Publish
<1>2. CASE Cardinality(req[i].subs) <= 1
  <2> DEFINE r == [req[i] EXCEPT !.pc = "resolved"]
  <2>1. req' = [req EXCEPT ![i] = r] /\ inbox' = inbox
    BY <1>1, <1>2 DEF Publish
  <2>2. /\ r \in Requests
        /\ r.type = req[i].type /\ r.node = req[i].node /\ r.sid = req[i].sid
        /\ r.pc = "resolved" /\ r.subs = req[i].subs /\ r.reach = req[i].reach
        /\ r.heard = req[i].heard
    BY <1>1 DEF Requests
  <2> HIDE DEF r
  <2> QED
    BY <1>1, <1>2, <2>1, <2>2
<1>3. CASE ~(Cardinality(req[i].subs) <= 1)
  <2> DEFINE r == [req[i] EXCEPT !.pc = "waiting", !.reach = up]
  <2>1. req' = [req EXCEPT ![i] = r] /\ Publication(i)
    BY <1>1, <1>3 DEF Publish
  <2>2. /\ r \in Requests
        /\ r.type = req[i].type /\ r.node = req[i].node /\ r.sid = req[i].sid
        /\ r.pc = "waiting" /\ r.subs = req[i].subs /\ r.reach = up
        /\ r.heard = req[i].heard
    BY <1>1 DEF Requests, Pending
  <2> HIDE DEF r
  <2> QED
    BY <1>1, <1>3, <2>1, <2>2
<1> QED
  BY <1>2, <1>3

\* The end of a wait, and of a requester.
LEMMA EndFields ==
    ASSUME Typed, NEW i \in Ids, NEW pc \in {"expired", "lost"}
    PROVE  LET r == [req[i] EXCEPT !.pc = pc]
           IN  /\ r \in Requests /\ r.pc = pc
               /\ r.type = req[i].type /\ r.node = req[i].node /\ r.sid = req[i].sid
               /\ r.subs = req[i].subs /\ r.reach = req[i].reach
               /\ r.heard = req[i].heard
<1>1. req[i] \in Requests
  BY DEF Typed
<1> QED
  BY <1>1 DEF Requests

\* ... the timer, ...
LEMMA TimeoutFields ==
    ASSUME Typed, NEW i \in Ids, Timeout(i)
    PROVE  /\ req' \in [Ids -> Requests] /\ req[i].pc = "waiting"
           /\ \A j \in Ids \ {i} : req'[j] = req[j]
           /\ req'[i].type = req[i].type /\ req'[i].node = req[i].node
           /\ req'[i].sid = req[i].sid /\ req'[i].pc = "expired"
           /\ req'[i].subs = req[i].subs /\ req'[i].reach = req[i].reach
           /\ req'[i].heard = req[i].heard
<1> DEFINE r == [req[i] EXCEPT !.pc = "expired"]
<1>1. req \in [Ids -> Requests] /\ req' = [req EXCEPT ![i] = r] /\ req[i].pc = "waiting"
  BY DEF Typed, Timeout, Waiting
<1>2. /\ r \in Requests
      /\ r.type = req[i].type /\ r.node = req[i].node /\ r.sid = req[i].sid
      /\ r.pc = "expired" /\ r.subs = req[i].subs /\ r.reach = req[i].reach
      /\ r.heard = req[i].heard
  BY EndFields
<1> HIDE DEF r
<1> QED
  BY <1>1, <1>2

\* ... and a node's end.
LEMMA DieFields ==
    ASSUME Typed, NEW n \in Nodes, Die(n)
    PROVE  /\ req' \in [Ids -> Requests]
           /\ \A i \in Ids :
                 /\ req'[i].type = req[i].type /\ req'[i].node = req[i].node
                 /\ req'[i].sid = req[i].sid /\ req'[i].subs = req[i].subs
                 /\ req'[i].reach = req[i].reach /\ req'[i].heard = req[i].heard
                 /\ req'[i].pc = IF req[i].node = n /\ req[i].pc \in Pending
                                 THEN "lost" ELSE req[i].pc
                 /\ ~(req[i].node = n /\ req[i].pc \in Pending) => req'[i] = req[i]
<1>1. req \in [Ids -> Requests]
  BY DEF Typed
<1>2. ASSUME NEW i \in Ids
      PROVE  LET r == [req[i] EXCEPT !.pc = "lost"]
             IN  /\ r \in Requests /\ r.pc = "lost"
                 /\ r.type = req[i].type /\ r.node = req[i].node /\ r.sid = req[i].sid
                 /\ r.subs = req[i].subs /\ r.reach = req[i].reach
                 /\ r.heard = req[i].heard
  BY EndFields
<1>3. req' = [i \in Ids |-> IF req[i].node = n /\ req[i].pc \in Pending
                            THEN [req[i] EXCEPT !.pc = "lost"] ELSE req[i]]
  BY DEF Die
<1> QED
  BY <1>1, <1>2, <1>3

------------------------------------------------------------------------------
\* What the invariant says of requests that have left no trace, and of those
\* about to be answered.

\* Nothing is about a request that has not been published.
LEMMA Unpublished ==
    ASSUME IInv, NEW i \in Ids, ~Published(i)
    PROVE  /\ \A n \in Nodes : Request(i) \notin Mail(n)
           /\ \A n \in Nodes : \A m \in Mail(n) : m.id # i
           /\ \A n \in Nodes, b \in BOOLEAN : <<i, n, b>> \notin handlers
<1>1. \A n \in Nodes : \A m \in Mail(n) : m.id # i
  BY DEF IInv, MailInv, MailOf
<1>2. \A n \in Nodes : Request(i) \notin Mail(n)
  BY <1>1, MessageTypes
<1> QED
  BY <1>1, <1>2 DEF IInv, MailInv, HandlersInv

\* Parts of the invariant.
LEMMA InvSolo == IInv => Typed /\ Solo
  BY DEF IInv, MailInv, MailOf, Solo

\* A node answers a request it has just heard for the first time, ...
LEMMA AnswerIsNew ==
    ASSUME IInv, NEW n \in Nodes, NEW m \in Arrived(n), m.on = "request"
    PROVE  /\ m.id \in Ids /\ m = Request(m.id) /\ Published(m.id)
           /\ req[m.id].node \in Nodes /\ n \in req[m.id].reach
           /\ Response(m.id, HeldBy(n)) \notin Mail(req[m.id].node)
<1>1. m \in Mail(n) /\ m \in Messages
  BY NextMessage DEF IInv
<1>2. m.id \in Ids /\ m = Request(m.id)
  BY <1>1, MessageForm DEF Request, Response
<1>3. Published(m.id) /\ n \in req[m.id].reach
  BY <1>1 DEF IInv, MailInv, MailOf
<1>4. req[m.id].node \in Nodes
  BY <1>2, <1>3 DEF Published, IInv, Shape
<1>5. Response(m.id, HeldBy(n)) \notin Mail(req[m.id].node)
  <2> DEFINE r == Response(m.id, HeldBy(n))
  <2>1. r.on = "response" /\ r.id = m.id /\ r.answer.node = n
    BY <1>2, AnswerType, MessageTypes DEF IInv
  <2> HIDE DEF r
  <2>2. MailOf(req[m.id].node)
    BY <1>4 DEF IInv, MailInv
  <2>3. r \in Mail(req[m.id].node) => Request(m.id) \notin Mail(n)
    BY <2>1, <2>2 DEF MailOf
  <2> QED
    BY <1>1, <1>2, <2>3 DEF r
<1> QED
  BY <1>2, <1>3, <1>4, <1>5

\* ... and a handler that has not called back yet has not answered.
LEMMA CallBackIsNew ==
    ASSUME IInv, NEW n \in Nodes, NEW i \in Ids, <<i, n, FALSE>> \in handlers
    PROVE  /\ req[i].node \in Nodes /\ Published(i) /\ req[i].type = "emit"
           /\ n \in req[i].reach /\ n # req[i].node
           /\ Response(i, HeldBy(n)) \notin Mail(req[i].node)
<1>1. Published(i) /\ n \in req[i].reach /\ n # req[i].node /\ req[i].type = "emit"
  BY DEF IInv, MailInv, HandlersInv
<1>2. req[i].node \in Nodes
  BY <1>1 DEF Published, IInv, Shape
<1>3. /\ Response(i, HeldBy(n)).on = "response"
      /\ Response(i, HeldBy(n)).id = i
      /\ Response(i, HeldBy(n)).answer.node = n
  BY AnswerType, MessageTypes DEF IInv
<1>4. Response(i, HeldBy(n)) \notin Mail(req[i].node)
  BY <1>2, <1>3 DEF IInv, MailInv, MailOf
<1> QED
  BY <1>1, <1>2, <1>4

\* A response that arrives is for a request of this node.
LEMMA HeardAnswer ==
    ASSUME IInv, NEW n \in Nodes, NEW m \in Arrived(n), m.on = "response"
    PROVE  /\ m.id \in Ids /\ m.answer \in Answers /\ m = Response(m.id, m.answer)
           /\ m \in Mail(n) /\ Published(m.id) /\ n = req[m.id].node
           /\ m.answer.node \in req[m.id].reach
<1>1. m \in Mail(n) /\ m \in Messages
  BY NextMessage DEF IInv
<1>2. m.id \in Ids /\ m.answer \in Answers /\ m = Response(m.id, m.answer)
  BY <1>1, MessageForm
<1> QED
  BY <1>1, <1>2 DEF IInv, MailInv, MailOf

------------------------------------------------------------------------------
\* Types.

\* A remote operation keeps the types.
LEMMA ApplyTyped ==
    ASSUME Typed, NEW t \in Types, NEW s \in Sockets, Open(s), Apply(t, s)
    PROVE  /\ socket' \in [Sockets -> {"new", "open", "closed"}]
           /\ room' \subseteq Sockets
           /\ t \notin {"remoteDisconnect", "disconnectSockets"} => socket' = socket
           /\ \A x \in Sockets : socket'[x] = socket[x] \/ (x = s /\ socket'[x] = "closed")
           /\ (room' = room \cup {s} /\ socket' = socket) \/ room' = room \ {s}
           /\ t \notin {"remoteJoin", "addSockets"} => room' = room \ {s}
<1>1. \/ socket' = socket /\ t \notin {"remoteDisconnect", "disconnectSockets"}
      \/ socket' = [socket EXCEPT ![s] = "closed"] /\ room' = room \ {s}
         /\ t \in {"remoteDisconnect", "disconnectSockets"}
  BY DEF Apply
<1>2. socket \in [Sockets -> {"new", "open", "closed"}] /\ room \subseteq Sockets
  BY DEF Typed
<1>3. /\ socket' \in [Sockets -> {"new", "open", "closed"}]
      /\ \A x \in Sockets : socket'[x] = socket[x] \/ (x = s /\ socket'[x] = "closed")
  BY <1>1, <1>2
<1>4. /\ room' = room \cup {s} \/ room' = room \ {s}
      /\ t \notin {"remoteJoin", "addSockets"} => room' = room \ {s}
  BY DEF Apply
<1> QED
  BY <1>1, <1>2, <1>3, <1>4

\* A packet gives each socket it reaches one copy more.
LEMMA ReachGot ==
    ASSUME Typed, NEW i \in Ids, NEW ss, Reach(i, ss)
    PROVE  /\ got' \in [Ids -> [Sockets -> Nat]]
           /\ \A j \in Ids \ {i} : got'[j] = got[j]
           /\ \A s \in Sockets : got'[i][s] = IF s \in ss THEN got[i][s] + 1 ELSE got[i][s]
<1> DEFINE g == [s \in Sockets |-> IF s \in ss THEN got[i][s] + 1 ELSE got[i][s]]
<1>1. got \in [Ids -> [Sockets -> Nat]] /\ got[i] \in [Sockets -> Nat]
  BY DEF Typed
<1>2. \A s \in Sockets : got[i][s] \in Nat
  BY <1>1
<1>3. g \in [Sockets -> Nat]
  BY <1>2
<1>4. \A s \in Sockets : g[s] = IF s \in ss THEN got[i][s] + 1 ELSE got[i][s]
  OBVIOUS
<1>5. got' = [got EXCEPT ![i] = g]
  BY DEF Reach
<1> HIDE DEF g
<1> QED
  BY <1>1, <1>3, <1>4, <1>5

\* The sockets and the history after an operation on one of them.
LEMMA ApplyRooms ==
    ASSUME Typed, NEW t \in Types, NEW s \in Sockets, Open(s), Apply(t, s),
           Stays, UNCHANGED up
    PROVE  /\ socket' \in [Sockets -> {"new", "open", "closed"}]
           /\ room' \subseteq Sockets
           /\ \A x \in Sockets : /\ x \in room' => Open(x)'
                                 /\ Open(x)' => Home[x] \in up'
           /\ stayed' \in [Ids -> SUBSET room']
<1>1. \A x \in Sockets : (x \in room => Open(x)) /\ (Open(x) => Home[x] \in up)
  BY DEF Typed
<1>2. stayed' \in [Ids -> SUBSET room']
  BY DEF Stays, Typed
<1> QED
  BY <1>1, <1>2, ApplyTyped DEF Open

\* Nothing but the queues and one request has changed.
LEMMA MessagesTyped ==
    ASSUME Typed, UNCHANGED <<nodes, sockets, handlers, got, stayed>>,
           req' \in [Ids -> Requests], inbox' \in [Nodes -> Seq(Messages)],
           \A n \in Nodes \ up : inbox'[n] = <<>>
    PROVE  Typed'
  BY DEF Typed, nodes, sockets, Open

\* The types of requests by name.
LEMMA TypeNames ==
    /\ Types = {None, "emit", "sockets", "allRooms", "fetch", "remoteJoin", "remoteLeave",
                "remoteDisconnect", "addSockets", "delSockets", "disconnectSockets",
                "broadcast", "broadcastAck"}
    /\ Collecting \subseteq Types /\ Direct \subseteq Types /\ Bulk \subseteq Types
    /\ Packets \subseteq Types
  BY DEF Types, Collecting, Direct, Bulk, Packets

\* The sequences of answers a request starts with.
LEMMA EmptySeqType == <<>> \in Seq(Answers) /\ \A a \in Answers : <<a>> \in Seq(Answers)
  OBVIOUS

\* The types are kept.
LEMMA TypedStep ==
    ASSUME IInv, [Next]_vars
    PROVE  Typed'
<1> USE InvSolo
<1>1. ASSUME NEW i \in Ids, NEW n \in Nodes, NEW t \in Collecting, Collect(i, n, t)
      PROVE  Typed'
  <2>1. Ask(i, n, t, None, "counting", <<HeldBy(n)>>, {})
    BY <1>1 DEF Collect
  <2>2. /\ t \in Types /\ <<HeldBy(n)>> \in Seq(Answers)
        /\ "counting" \in {"resolved"} \cup Pending
        /\ None \in Sockets \cup {None} /\ {} \in SUBSET Nodes
    BY TypeNames, EmptySeqType, AnswerType DEF Pending
  <2>3. req' \in [Ids -> Requests]
    BY <2>1, <2>2, AskFields
  <2> QED
    BY <1>1, <2>3, MessagesTyped DEF Collect, Typed
<1>2. ASSUME NEW i \in Ids, NEW n \in Nodes, EmitWithAck(i, n)
      PROVE  Typed'
  <2>1. Ask(i, n, "emit", None, "counting", <<>>, {})
    BY <1>2 DEF EmitWithAck
  <2>2. /\ "emit" \in Types /\ <<>> \in Seq(Answers)
        /\ "counting" \in {"resolved"} \cup Pending
        /\ None \in Sockets \cup {None} /\ {} \in SUBSET Nodes
    BY TypeNames, EmptySeqType DEF Pending
  <2>3. req' \in [Ids -> Requests]
    BY <2>1, <2>2, AskFields
  <2> QED
    BY <1>2, <2>3, MessagesTyped DEF EmitWithAck, Typed
<1>3. ASSUME NEW i \in Ids, Count(i)
      PROVE  Typed'
  BY <1>3, CountFields, MessagesTyped DEF Count, Typed
<1>4. ASSUME NEW i \in Ids, Publish(i)
      PROVE  Typed'
  <2>1. req' \in [Ids -> Requests] /\ (inbox' = inbox \/ Publication(i))
    BY <1>4, PublishFields
  <2>2. ~Published(i)
    BY <1>4 DEF Publish, Published
  <2>3. inbox' \in [Nodes -> Seq(Messages)] /\ \A n \in Nodes \ up : inbox'[n] = <<>>
    <3>1. CASE inbox' = inbox
      BY <3>1 DEF Typed
    <3>2. CASE Publication(i)
      BY <2>2, <3>2, Unpublished, PublicationMail DEF Typed
    <3> QED
      BY <2>1, <3>1, <3>2
  <2> QED
    BY <1>4, <2>1, <2>3, MessagesTyped DEF Publish
<1>5. ASSUME NEW i \in Ids, Timeout(i)
      PROVE  Typed'
  BY <1>5, TimeoutFields, MessagesTyped DEF Timeout, Typed
<1>6. ASSUME NEW i \in Ids, NEW n \in Nodes, NEW t \in Direct, NEW s \in Sockets,
             Remote(i, n, t, s)
      PROVE  Typed'
  <2>0. /\ t \in Types /\ <<>> \in Seq(Answers)
        /\ {"waiting", "resolved"} \subseteq {"resolved"} \cup Pending
        /\ s \in Sockets \cup {None} /\ {} \in SUBSET Nodes /\ up \in SUBSET Nodes
    BY TypeNames, EmptySeqType DEF Pending, Typed
  <2>1. CASE Open(s) /\ Home[s] = n
    <3>1. Ask(i, n, t, s, "resolved", <<>>, {}) /\ Apply(t, s) /\ inbox' = inbox
          /\ Stays /\ UNCHANGED <<nodes, handlers, got>>
      BY <1>6, <2>1 DEF Remote
    <3>2. req' \in [Ids -> Requests]
      BY <2>0, <3>1, AskFields
    <3>3. /\ socket' \in [Sockets -> {"new", "open", "closed"}]
          /\ room' \subseteq Sockets
          /\ \A x \in Sockets : /\ x \in room' => Open(x)'
                                /\ Open(x)' => Home[x] \in up'
          /\ stayed' \in [Ids -> SUBSET room']
      BY <2>0, <2>1, <3>1, ApplyRooms DEF nodes
    <3> QED
      BY <3>1, <3>2, <3>3 DEF Typed, nodes
  <2>2. CASE ~(Open(s) /\ Home[s] = n)
    <3>1. Ask(i, n, t, s, "waiting", <<>>, up) /\ Publication(i) /\ UNCHANGED sockets
          /\ Stays /\ UNCHANGED <<nodes, handlers, got>>
      BY <1>6, <2>2 DEF Remote
    <3>2. req' \in [Ids -> Requests] /\ req[i] = Unused
      BY <2>0, <3>1, AskFields
    <3>3. inbox' \in [Nodes -> Seq(Messages)] /\ \A x \in Nodes \ up : inbox'[x] = <<>>
      <4>1. ~Published(i)
        BY <3>2 DEF Published, Unused
      <4> QED
        BY <3>1, <4>1, Unpublished, PublicationMail DEF Typed
    <3>4. stayed' = stayed
      BY <3>1 DEF Typed, Stays, sockets
    <3> QED
      BY <3>1, <3>2, <3>3, <3>4, MessagesTyped
  <2> QED
    BY <2>1, <2>2
<1>7. ASSUME NEW i \in Ids, NEW n \in Nodes, NEW t \in Bulk, NEW s \in Sockets,
             BulkOp(i, n, t, s)
      PROVE  Typed'
  <2>1. Ask(i, n, t, s, "resolved", <<>>, up) /\ Publication(i)
    BY <1>7 DEF BulkOp
  <2>2. t \in Types /\ <<>> \in Seq(Answers) /\ up \subseteq Nodes
    BY TypeNames, EmptySeqType DEF Typed
  <2>3. req' \in [Ids -> Requests] /\ req[i] = Unused
    BY <2>1, <2>2, AskFields
  <2>4. ~Published(i)
    BY <2>3 DEF Published, Unused
  <2>5. inbox' \in [Nodes -> Seq(Messages)] /\ \A x \in Nodes \ up : inbox'[x] = <<>>
    BY <2>1, <2>4, Unpublished, PublicationMail DEF Typed
  <2> QED
    BY <1>7, <2>3, <2>5, MessagesTyped DEF BulkOp
<1>8. ASSUME NEW i \in Ids, NEW n \in Nodes, NEW t \in Packets,
             NEW pc \in {"resolved", "waiting"}, NEW h \in Seq(Answers),
             SendPacket(i, n, t, pc, h)
      PROVE  Typed'
  <2>1. Ask(i, n, t, None, pc, h, up) /\ Publication(i)
    BY <1>8 DEF SendPacket
  <2>2. t \in Types /\ up \subseteq Nodes /\ pc \in {"resolved"} \cup Pending
    BY TypeNames DEF Typed, Pending
  <2>3. req' \in [Ids -> Requests] /\ req[i] = Unused
    BY <2>1, <2>2, AskFields
  <2>4. ~Published(i)
    BY <2>3 DEF Published, Unused
  <2>5. inbox' \in [Nodes -> Seq(Messages)] /\ \A x \in Nodes \ up : inbox'[x] = <<>>
    BY <2>1, <2>4, Unpublished, PublicationMail DEF Typed
  <2>6. got' \in [Ids -> [Sockets -> Nat]] /\ stayed' \in [Ids -> SUBSET room]
    BY <1>8 DEF SendPacket, Reach, Typed
  <2> QED
    BY <1>8, <2>3, <2>5, <2>6 DEF SendPacket, Typed, nodes, sockets, Open
<1>9. ASSUME NEW n \in Nodes, NEW i \in Ids, CallBack(n, i)
      PROVE  Typed'
  <2>1. inbox' \in [Nodes -> Seq(Messages)] /\ \A x \in Nodes \ up : inbox'[x] = <<>>
    BY <1>9, CallBackIsNew, CallBackMail DEF CallBack
  <2>2. handlers' \subseteq Ids \X Nodes \X BOOLEAN
    <3>1. <<i, n, TRUE>> \in Ids \X Nodes \X BOOLEAN
      OBVIOUS
    <3>2. handlers \subseteq Ids \X Nodes \X BOOLEAN
      BY DEF Typed
    <3> QED
      BY <1>9, <3>1, <3>2, Zenon DEF CallBack
  <2> QED
    BY <1>9, <2>1, <2>2 DEF CallBack, Typed, nodes, sockets, Open
<1>10. ASSUME NEW n \in Nodes, OnCollect(n)
      PROVE  Typed'
  <2>1. PICK m \in Arrived(n) :
           /\ Asks(m, Collecting)
           /\ IF Own(n, m.id) THEN Drop(n) ELSE Answer(n, m.id)
           /\ UNCHANGED <<nodes, sockets, req, handlers, got, stayed>>
    BY <1>10 DEF OnCollect
  <2>2. inbox' \in [Nodes -> Seq(Messages)] /\ \A x \in Nodes \ up : inbox'[x] = <<>>
    BY <2>1, AnswerIsNew, AnswerMail, DroppedMail DEF Asks
  <2> QED
    BY <2>1, <2>2, MessagesTyped DEF Typed
<1>11. ASSUME NEW n \in Nodes, OnRemote(n)
      PROVE  Typed'
  <2>1. PICK m \in Arrived(n) :
           /\ Asks(m, Direct \cup Bulk)
           /\ LET s == req[m.id].sid  t == req[m.id].type IN
              IF Open(s) /\ Home[s] = n
              THEN /\ Apply(t, s)
                   /\ IF t \in Direct THEN Answer(n, m.id) ELSE Drop(n)
              ELSE Drop(n) /\ UNCHANGED sockets
           /\ Stays
           /\ UNCHANGED <<nodes, req, handlers, got>>
    BY <1>11 DEF OnRemote
  <2>2. m.on = "request" /\ req[m.id].type \in Direct \cup Bulk /\ m.id \in Ids
    BY <2>1, AnswerIsNew DEF Asks
  <2>3. req[m.id].sid \in Sockets
    BY <2>2 DEF IInv, Shape
  <2>4. Answer(n, m.id) \/ Drop(n)
    BY <2>1
  <2>5. inbox' \in [Nodes -> Seq(Messages)] /\ \A x \in Nodes \ up : inbox'[x] = <<>>
    BY <2>2, <2>4, AnswerIsNew, AnswerMail, DroppedMail
  <2>6. /\ socket' \in [Sockets -> {"new", "open", "closed"}]
        /\ room' \subseteq Sockets
        /\ \A x \in Sockets : /\ x \in room' => Open(x)'
                              /\ Open(x)' => Home[x] \in up'
        /\ stayed' \in [Ids -> SUBSET room']
    <3>1. CASE Open(req[m.id].sid) /\ Home[req[m.id].sid] = n
      BY <2>1, <2>2, <2>3, <3>1, ApplyRooms, TypeNames DEF nodes
    <3>2. CASE ~(Open(req[m.id].sid) /\ Home[req[m.id].sid] = n)
      BY <2>1, <3>2 DEF Typed, nodes, sockets, Stays, Open
    <3> QED
      BY <3>1, <3>2
  <2> QED
    BY <2>1, <2>5, <2>6 DEF Typed, nodes
<1>12. ASSUME NEW n \in Nodes, OnEmit(n)
      PROVE  Typed'
  <2>1. PICK m \in Arrived(n) :
           /\ Asks(m, {"emit"}) /\ Drop(n)
           /\ handlers' = IF req[m.id].node = n THEN handlers
                          ELSE handlers \cup {<<m.id, n, FALSE>>}
           /\ UNCHANGED <<nodes, sockets, req, got, stayed>>
    BY <1>12 DEF OnEmit
  <2>2. inbox' \in [Nodes -> Seq(Messages)] /\ \A x \in Nodes \ up : inbox'[x] = <<>>
    BY <2>1, DroppedMail
  <2>3. handlers' \subseteq Ids \X Nodes \X BOOLEAN
    <3>1. m.id \in Ids
      BY <2>1, AnswerIsNew DEF Asks
    <3>2. <<m.id, n, FALSE>> \in Ids \X Nodes \X BOOLEAN
      BY <3>1
    <3>3. handlers \subseteq Ids \X Nodes \X BOOLEAN
      BY DEF Typed
    <3> QED
      BY <2>1, <3>2, <3>3, Zenon
  <2> QED
    BY <2>1, <2>2, <2>3 DEF Typed, nodes, sockets, Open
<1>13. ASSUME NEW n \in Nodes, OnPacket(n)
      PROVE  Typed'
  <2>1. PICK m \in Arrived(n) :
           /\ Asks(m, {"broadcast"}) /\ Drop(n)
           /\ Reach(m.id, IF req[m.id].node = n THEN {} ELSE Held(n))
           /\ UNCHANGED <<nodes, sockets, req, handlers, stayed>>
    BY <1>13, Zenon DEF OnPacket
  <2>2. inbox' \in [Nodes -> Seq(Messages)] /\ \A x \in Nodes \ up : inbox'[x] = <<>>
    BY <2>1, DroppedMail
  <2>3. got' \in [Ids -> [Sockets -> Nat]]
    BY <2>1, AnswerIsNew, ReachGot DEF Asks
  <2> QED
    BY <2>1, <2>2, <2>3 DEF Typed, nodes, sockets, Open
<1>14. ASSUME NEW n \in Nodes, OnPacketWithAck(n)
      PROVE  Typed'
  <2>1. PICK m \in Arrived(n) :
           /\ Asks(m, {"broadcastAck"})
           /\ IF Own(n, m.id) THEN Drop(n) /\ UNCHANGED got
              ELSE Reach(m.id, Held(n)) /\ Answer(n, m.id)
           /\ UNCHANGED <<nodes, sockets, req, handlers, stayed>>
    BY <1>14 DEF OnPacketWithAck
  <2>2. inbox' \in [Nodes -> Seq(Messages)] /\ \A x \in Nodes \ up : inbox'[x] = <<>>
    BY <2>1, AnswerIsNew, AnswerMail, DroppedMail DEF Asks
  <2>3. got' \in [Ids -> [Sockets -> Nat]]
    BY <2>1, AnswerIsNew, ReachGot DEF Asks, Typed
  <2> QED
    BY <2>1, <2>2, <2>3 DEF Typed, nodes, sockets, Open
<1>15. ASSUME NEW n \in Nodes, NEW m \in Arrived(n), m.on = "response", Drop(n),
              req' \in {req, Counted(m.id, m.answer), CountedLast(m.id, m.answer)},
              UNCHANGED <<nodes, sockets, handlers, got, stayed>>
      PROVE  Typed'
  <2>1. inbox' \in [Nodes -> Seq(Messages)] /\ \A x \in Nodes \ up : inbox'[x] = <<>>
    BY <1>15, DroppedMail
  <2>2. m.id \in Ids /\ m.answer \in Answers
    BY <1>15, HeardAnswer
  <2>3. req' \in [Ids -> Requests]
    BY <1>15, <2>2, CountedFields, CountedLastFields DEF Typed
  <2> QED
    BY <1>15, <2>1, <2>3, MessagesTyped
<1>16. ASSUME NEW s \in Sockets, Connect(s) \/ Join(s) \/ Leave(s)
      PROVE  Typed'
  <2>1. CASE Connect(s)
    BY <2>1 DEF Connect, Typed, nodes, Open
  <2>2. CASE Join(s)
    BY <2>2 DEF Join, Typed, nodes, Open
  <2>3. CASE Leave(s)
    BY <2>3 DEF Leave, Typed, nodes, Open, Stays
  <2> QED
    BY <1>16, <2>1, <2>2, <2>3
<1>17. ASSUME NEW n \in Nodes, Start(n)
      PROVE  Typed'
  BY <1>17 DEF Start, Typed, sockets, Open
<1>18. ASSUME NEW n \in Nodes, Die(n)
      PROVE  Typed'
  <2>1. req' \in [Ids -> Requests]
    BY <1>18, DieFields
  <2>2. inbox' \in [Nodes -> Seq(Messages)] /\ \A x \in Nodes \ up' : inbox'[x] = <<>>
    BY <1>18 DEF Die, Typed
  <2>3. /\ up' \subseteq Nodes /\ over' \subseteq Mortal \ up'
        /\ handlers' \subseteq Ids \X Nodes \X BOOLEAN
        /\ got' \in [Ids -> [Sockets -> Nat]]
        /\ stayed' \in [Ids -> SUBSET room']
    BY <1>18 DEF Die, Typed, Stays
  <2>4. /\ socket' \in [Sockets -> {"new", "open", "closed"}]
        /\ room' \subseteq Sockets
        /\ \A x \in Sockets : /\ x \in room' => Open(x)'
                              /\ Open(x)' => Home[x] \in up'
    BY <1>18 DEF Die, Typed, Open
  <2> QED
    BY <2>1, <2>2, <2>3, <2>4 DEF Typed
<1>19. CASE UNCHANGED vars
  BY <1>19 DEF vars, nodes, sockets, Typed, Open
<1>20. ASSUME NEW i \in Ids, Requester(i) PROVE Typed'
  <2>1. ASSUME NEW n \in Nodes, Broadcast(i, n) PROVE Typed'
    <3>1. "broadcast" \in Packets /\ "resolved" \in {"resolved", "waiting"}
          /\ <<>> \in Seq(Answers)
      BY EmptySeqType DEF Packets
    <3> QED
      BY <1>8, <2>1, <3>1 DEF Broadcast
  <2>2. ASSUME NEW n \in Nodes, BroadcastWithAck(i, n) PROVE Typed'
    <3>1. "broadcastAck" \in Packets /\ "waiting" \in {"resolved", "waiting"}
          /\ <<HeldBy(n)>> \in Seq(Answers)
      BY EmptySeqType, AnswerType DEF Packets
    <3> QED
      BY <1>8, <2>2, <3>1 DEF BroadcastWithAck
  <2>3. \A n \in Nodes : AskSockets(i, n) \/ AskRooms(i, n) \/ FetchSockets(i, n) => Typed'
    BY <1>1 DEF AskSockets, AskRooms, FetchSockets, Collecting
  <2>4. \A n \in Nodes, s \in Sockets :
           RemoteJoin(i, n, s) \/ RemoteLeave(i, n, s) \/ RemoteDisconnect(i, n, s) => Typed'
    BY <1>6 DEF RemoteJoin, RemoteLeave, RemoteDisconnect, Direct
  <2>5. \A n \in Nodes, s \in Sockets :
           AddSockets(i, n, s) \/ DelSockets(i, n, s) \/ DisconnectSockets(i, n, s) => Typed'
    BY <1>7 DEF AddSockets, DelSockets, DisconnectSockets, Bulk
  <2> QED
    BY <1>2, <1>3, <1>4, <1>5, <1>9, <1>20, <2>1, <2>2, <2>3, <2>4, <2>5 DEF Requester
<1>21. ASSUME NEW n \in Nodes, Receive(n) PROVE Typed'
  <2>1. OnAnswer(n) \/ OnRemoteDone(n) \/ OnEmitAnswer(n) \/ OnClientCount(n)
        \/ OnLateAnswer(n) => Typed'
    BY <1>15 DEF OnAnswer, OnRemoteDone, OnEmitAnswer, OnClientCount, OnLateAnswer, Tells
  <2> QED
    BY <1>10, <1>11, <1>12, <1>13, <1>14, <1>21, <2>1 DEF Receive
<1> QED
  BY <1>16, <1>17, <1>18, <1>19, <1>20, <1>21 DEF Next

------------------------------------------------------------------------------
\* What a step may do to a request and to its traces without harm.

\* The answers of a request are those it had.
LEMMA HeardSame ==
    ASSUME NEW i \in Ids, req'[i].heard = req[i].heard
    PROVE  HeardFrom(i)' = HeardFrom(i) /\ Heard(i)' = Heard(i)
  BY DEF HeardFrom, Heard

\* Who has been heard is a node, and what has been heard an answer.
LEMMA HeardType ==
    ASSUME Typed, NEW i \in Ids
    PROVE  HeardFrom(i) \subseteq Nodes /\ Heard(i) \subseteq Answers
<1>1. req[i].heard \in Seq(Answers)
  BY DEF Typed, Requests
<1>2. \A j \in DOMAIN req[i].heard : req[i].heard[j] \in Answers
  BY <1>1, LenProperties, ElementOfSeq
<1> QED
  BY <1>2 DEF HeardFrom, Heard, Answers

\* The request j has not changed but for its end.
Keeps(j) ==
    /\ req'[j].type = req[j].type /\ req'[j].node = req[j].node
    /\ req'[j].sid = req[j].sid /\ req'[j].subs = req[j].subs
    /\ req'[j].reach = req[j].reach /\ req'[j].heard = req[j].heard
    /\ \/ req'[j] = req[j]
       \/ /\ req'[j].pc \in {"expired", "lost"} /\ req[j].pc \in Pending
          /\ req'[j].pc = "expired" => req[j].pc = "waiting"
          /\ req'[j].pc = "lost" => req[j].node \in over'

\* A request that is left alone keeps its shape, ...
LEMMA KeepsShape ==
    ASSUME NEW j \in Ids, Shape(j), Keeps(j), over \subseteq over',
           req'[j].pc \in Pending => req[j].node \in up'
    PROVE  Shape(j)'
<1>1. CASE req'[j] = req[j]
  BY <1>1 DEF Shape
<1>2. CASE req'[j] # req[j]
  <2>1. req'[j].pc \in {"expired", "lost"} /\ req[j].pc \in Pending
    BY <1>2 DEF Keeps
  <2>2. req[j].type \notin Bulk \cup {"broadcast"}
    BY <2>1 DEF Shape, Pending
  <2> QED
    BY <2>1, <2>2 DEF Shape, Keeps, Pending
<1> QED
  BY <1>1, <1>2

\* ... what it has counted, ...
LEMMA KeepsCounts ==
    ASSUME NEW j \in Ids, Counts(j), Keeps(j)
    PROVE  Counts(j)'
<1>1. HeardFrom(j)' = HeardFrom(j) /\ Heard(j)' = Heard(j)
  BY HeardSame DEF Keeps
<1>2. CASE req'[j] = req[j]
  BY <1>1, <1>2 DEF Counts, Waiting
<1>3. CASE req'[j] # req[j]
  <2>1. req'[j].pc \in {"expired", "lost"}
    BY <1>3 DEF Keeps
  <2> QED
    BY <1>1, <2>1 DEF Counts, Waiting, Keeps
<1> QED
  BY <1>2, <1>3

\* ... and its copies.
LEMMA KeepsCopies ==
    ASSUME NEW j \in Ids, Copies(j), Keeps(j), got'[j] = got[j],
           stayed'[j] \subseteq stayed[j],
           \A s \in Sockets : Request(j) \in Mail(Home[s])' => Request(j) \in Mail(Home[s]),
           \A s \in stayed'[j] : Request(j) \in Mail(Home[s]) => Request(j) \in Mail(Home[s])'
    PROVE  Copies(j)'
<1>1. req[j].pc = "expired" => req'[j].pc = "expired"
  BY DEF Keeps, Pending
<1>2. req'[j].type = req[j].type /\ req'[j].node = req[j].node
  BY DEF Keeps
<1>3. Request(j)' = Request(j)
  BY DEF Request
<1> QED
  BY <1>1, <1>2, <1>3 DEF Copies

\* A request that is no packet has no copies.
LEMMA NoCopies ==
    ASSUME Typed, NEW j \in Ids, Copies(j), req[j].type \notin Packets,
           req'[j].type \notin Packets, got'[j] = got[j], stayed'[j] \subseteq stayed[j]
    PROVE  Copies(j)'
<1>1. \A s \in Sockets : got'[j][s] = 0 /\ s \notin stayed'[j]
  BY DEF Copies
<1> QED
  BY <1>1 DEF Copies

\* Messages and handlers of a request that has been published.
LEMMA LessMail ==
    ASSUME IInv, Solo', \A n \in Nodes : Mail(n)' \subseteq Mail(n),
           handlers' \subseteq handlers,
           \A j \in Ids : Keeps(j) \/ (~Published(j) /\ ~Waiting(j)')
    PROVE  MailInv'
<1>1. \A j \in Ids : Published(j) => Keeps(j) /\ Published(j)'
  BY DEF Keeps, Published
<1>2. ASSUME NEW j \in Ids, Waiting(j)' PROVE Waiting(j) /\ Keeps(j) /\ req'[j] = req[j]
  BY <1>2 DEF Keeps, Waiting
<1>3. ASSUME NEW n \in Nodes PROVE MailOf(n)'
  <2>1. MailOf(n) /\ IsInjective(inbox'[n])
    BY DEF IInv, MailInv, Solo
  <2>2. ASSUME NEW m \in Mail(n)'
        PROVE  /\ Published(m.id)'
               /\ m.on = "request" => n \in req'[m.id].reach
               /\ m.on = "response" =>
                     /\ n = req'[m.id].node
                     /\ m.answer.node \in req'[m.id].reach
                     /\ Request(m.id) \notin Mail(m.answer.node)'
                     /\ <<m.id, m.answer.node, FALSE>> \notin handlers'
    <3>1. m \in Mail(n) /\ m \in Messages /\ m.id \in Ids
      BY MailType, MessageForm DEF IInv
    <3>2. Published(m.id) /\ Keeps(m.id) /\ Published(m.id)'
      BY <1>1, <2>1, <3>1 DEF MailOf
    <3>3. m.on = "response" => m.answer.node \in Nodes
      BY <3>1, MessageForm DEF Answers, Request
    <3> QED
      BY <2>1, <3>1, <3>2, <3>3 DEF MailOf, Keeps
  <2> QED
    BY <2>1, <2>2 DEF MailOf, Request
<1>4. HandlersInv'
  <2> SUFFICES ASSUME NEW i \in Ids, NEW n \in Nodes, NEW b \in BOOLEAN,
                      <<i, n, b>> \in handlers'
               PROVE  /\ req'[i].type = "emit" /\ Published(i)'
                      /\ n \in req'[i].reach /\ n # req'[i].node
                      /\ Request(i) \notin Mail(n)'
    BY DEF HandlersInv, Request
  <2>1. <<i, n, b>> \in handlers
    OBVIOUS
  <2>2. /\ req[i].type = "emit" /\ Published(i)
        /\ n \in req[i].reach /\ n # req[i].node
        /\ Request(i) \notin Mail(n)
    BY <2>1, Zenon DEF IInv, MailInv, HandlersInv
  <2> QED
    BY <1>1, <2>2 DEF Keeps
<1>5. ASSUME NEW i \in Ids PROVE NotAgain(i)'
  <2> SUFFICES ASSUME Waiting(i)', NEW n \in HeardFrom(i)'
               PROVE  /\ <<i, n, FALSE>> \notin handlers'
                      /\ Request(i) \in Mail(n)' => n = req'[i].node /\ req'[i].type \in SelfHeard
                      /\ \A x \in Nodes : \A m \in Mail(x)' :
                            m.on = "response" /\ m.id = i => m.answer.node # n
    BY Zenon DEF NotAgain, Request
  <2>1. Waiting(i) /\ req'[i] = req[i] /\ n \in HeardFrom(i)
    BY <1>2, HeardSame
  <2>2. n \in Nodes /\ req[i].node \in Nodes
    BY <2>1, HeardType DEF IInv, Shape, Waiting
  <2>3. NotAgain(i)
    BY DEF IInv, MailInv
  <2> QED
    BY <2>1, <2>2, <2>3 DEF NotAgain
<1> QED
  BY <1>3, <1>4, <1>5 DEF MailInv

\* A request is published to every node that is up.
LEMMA PublishedMail ==
    ASSUME IInv, NEW i \in Ids, ~Published(i), Published(i)', Solo',
           req'[i].reach = up, handlers' = handlers,
           \A n \in HeardFrom(i)' : n = req'[i].node /\ req'[i].type \in SelfHeard,
           \A n \in Nodes : Mail(n)' = Mail(n) \cup IF n \in up THEN {Request(i)} ELSE {},
           \A j \in Ids \ {i} : req'[j] = req[j]
    PROVE  MailInv'
<1>1. /\ \A n \in Nodes : \A m \in Mail(n) : m.id # i /\ m.id \in Ids /\ m \in Messages
      /\ \A n \in Nodes, b \in BOOLEAN : <<i, n, b>> \notin handlers
  BY Unpublished, MailType, MessageForm DEF IInv
<1>2. \A j \in Ids \ {i} : /\ Published(j)' <=> Published(j)
                           /\ HeardFrom(j)' = HeardFrom(j)
                           /\ Waiting(j)' <=> Waiting(j)
                           /\ Request(j) # Request(i)
  BY HeardSame, MessageTypes DEF Published, Waiting
<1>3. ASSUME NEW n \in Nodes PROVE MailOf(n)'
  <2>1. MailOf(n) /\ IsInjective(inbox'[n])
    BY DEF IInv, MailInv, Solo
  <2>2. ASSUME NEW m \in Mail(n)'
        PROVE  /\ Published(m.id)'
               /\ m.on = "request" => n \in req'[m.id].reach
               /\ m.on = "response" =>
                     /\ n = req'[m.id].node
                     /\ m.answer.node \in req'[m.id].reach
                     /\ Request(m.id) \notin Mail(m.answer.node)'
                     /\ <<m.id, m.answer.node, FALSE>> \notin handlers'
    <3>1. CASE m \in Mail(n)
      <4>1. m.id \in Ids \ {i} /\ m \in Messages
        BY <1>1, <3>1
      <4>2. m.on = "response" => m.answer.node \in Nodes
        BY <4>1, MessageForm DEF Answers, Request
      <4>3. /\ Published(m.id)
            /\ m.on = "request" => n \in req[m.id].reach
            /\ m.on = "response" =>
                  /\ n = req[m.id].node
                  /\ m.answer.node \in req[m.id].reach
                  /\ Request(m.id) \notin Mail(m.answer.node)
                  /\ <<m.id, m.answer.node, FALSE>> \notin handlers
        BY <2>1, <3>1, Zenon DEF MailOf
      <4>4. Published(m.id)' /\ req'[m.id] = req[m.id] /\ Request(m.id) # Request(i)
        BY <1>2, <4>1, <4>3, Zenon
      <4>5. m.on = "response" => Request(m.id) \notin Mail(m.answer.node)'
        <5> SUFFICES ASSUME m.on = "response" PROVE Request(m.id) \notin Mail(m.answer.node)'
          OBVIOUS
        <5>1. PICK k \in Nodes : k = m.answer.node
          BY <4>2, Zenon
        <5>2. PICK q : q = Request(m.id)
          OBVIOUS
        <5>3. q \notin Mail(k) /\ q # Request(i)
          BY <4>3, <4>4, <5>1, <5>2, Zenon
        <5>4. Mail(k)' \subseteq Mail(k) \cup {Request(i)}
          OBVIOUS
        <5> QED
          BY <5>1, <5>2, <5>3, <5>4
      <4> QED
        BY <4>3, <4>4, <4>5
    <3>2. CASE m = Request(i) /\ n \in up
      BY <3>2, MessageTypes
    <3> QED
      BY <3>1, <3>2
  <2>3. ASSUME NEW m \in Mail(n)', NEW l \in Mail(n)',
               m.on = "response" /\ l.on = "response" /\ m.id = l.id
               /\ m.answer.node = l.answer.node
        PROVE  m = l
    <3>1. m \in Mail(n) /\ l \in Mail(n)
      BY <2>3, MessageTypes
    <3> QED
      BY <2>1, <2>3, <3>1 DEF MailOf
  <2> QED
    BY <2>1, <2>2, <2>3 DEF MailOf, Request
<1>4. HandlersInv'
  <2> SUFFICES ASSUME NEW j \in Ids, NEW n \in Nodes, NEW b \in BOOLEAN,
                      <<j, n, b>> \in handlers'
               PROVE  /\ req'[j].type = "emit" /\ Published(j)'
                      /\ n \in req'[j].reach /\ n # req'[j].node
                      /\ Request(j) \notin Mail(n)'
    BY DEF HandlersInv, Request
  <2>1. <<j, n, b>> \in handlers
    OBVIOUS
  <2>2. j \in Ids \ {i}
    BY <1>1, <2>1, Zenon
  <2>3. /\ req[j].type = "emit" /\ Published(j)
        /\ n \in req[j].reach /\ n # req[j].node
        /\ Request(j) \notin Mail(n)
    BY <2>1, Zenon DEF IInv, MailInv, HandlersInv
  <2> QED
    BY <1>2, <2>2, <2>3
<1>5. ASSUME NEW j \in Ids PROVE NotAgain(j)'
  <2> SUFFICES ASSUME Waiting(j)', NEW n \in HeardFrom(j)'
               PROVE  /\ <<j, n, FALSE>> \notin handlers'
                      /\ Request(j) \in Mail(n)' => n = req'[j].node /\ req'[j].type \in SelfHeard
                      /\ \A x \in Nodes : \A m \in Mail(x)' :
                            m.on = "response" /\ m.id = j => m.answer.node # n
    BY Zenon DEF NotAgain, Request
  <2>1. CASE j = i
    <3>1. \A m : <<i, m, FALSE>> \in handlers => m \in Nodes
      BY DEF IInv, Typed
    <3>2. <<i, n, FALSE>> \notin handlers
      BY <1>1, <3>1, Zenon
    <3>3. \A x \in Nodes : \A m \in Mail(x)' : m.on = "response" => m.id # i
      BY <1>1, MessageTypes
    <3> QED
      BY <2>1, <3>2, <3>3
  <2>2. CASE j # i
    <3>1. Waiting(j) /\ req'[j] = req[j] /\ n \in HeardFrom(j) /\ n \in Nodes
      BY <1>2, <2>2, HeardType DEF IInv
    <3>2. NotAgain(j)
      BY DEF IInv, MailInv
    <3>3. \A x \in Nodes : \A m \in Mail(x)' : m.on = "response" => m \in Mail(x)
      BY MessageTypes
    <3>4. /\ <<j, n, FALSE>> \notin handlers
          /\ Request(j) \in Mail(n) => n = req[j].node /\ req[j].type \in SelfHeard
          /\ \A x \in Nodes : \A m \in Mail(x) :
                m.on = "response" /\ m.id = j => m.answer.node # n
      BY <3>1, <3>2, Zenon DEF NotAgain
    <3>5. Request(j) \in Mail(n)' => Request(j) \in Mail(n)
      BY <1>2, <2>2, <3>1
    <3> QED
      BY <3>1, <3>3, <3>4, <3>5
  <2> QED
    BY <2>1, <2>2
<1> QED
  BY <1>3, <1>4, <1>5 DEF MailInv

\* No answer of n to the request i is on its way.
Silent(i, n) == \A x \in Nodes : \A m \in Mail(x) :
                    ~(m.on = "response" /\ m.id = i /\ m.answer.node = n)

\* No queue gains anything but r, and only the queue of n0 does.
Gains(r, n0) == \A x \in Nodes : /\ Mail(x)' \subseteq Mail(x) \cup {r}
                                 /\ r \in Mail(x)' => x = n0

\* The answer of n, whose part in the request i - its message, or its handler
\* - ends with it.
LEMMA AnsweredMail ==
    ASSUME IInv, NEW i \in Ids, NEW n \in Nodes, NEW r \in Messages,
           r.on = "response", r.id = i, r.answer.node = n,
           Published(i), n \in req[i].reach, req[i].node \in Nodes,
           Solo', req' = req, Request(i) \notin Mail(n)',
           handlers' \subseteq handlers \cup {<<i, n, TRUE>>},
           <<i, n, TRUE>> \in handlers'
               => <<i, n, TRUE>> \in handlers \/ <<i, n, FALSE>> \in handlers,
           <<i, n, FALSE>> \notin handlers',
           Waiting(i) => n \notin HeardFrom(i),
           Silent(i, n), Gains(r, req[i].node)
    PROVE  MailInv'
<1>0. /\ \A x \in Nodes : /\ Mail(x)' \subseteq Mail(x) \cup {r}
                          /\ r \in Mail(x)' => x = req[i].node
      /\ \A x \in Nodes : \A m \in Mail(x) :
            ~(m.on = "response" /\ m.id = i /\ m.answer.node = n)
  BY DEF Silent, Gains
<1> USE <1>0
<1>1. \A x \in Nodes : \A m \in Mail(x) : m.id \in Ids /\ m \in Messages
  BY MailType, MessageForm DEF IInv
<1>2. \A j \in Ids : /\ Published(j)' <=> Published(j)
                     /\ HeardFrom(j)' = HeardFrom(j)
                     /\ Waiting(j)' <=> Waiting(j)
                     /\ Request(j) # r /\ Request(j)' = Request(j)
  BY HeardSame, MessageTypes DEF Published, Waiting, Request
<1>3. ASSUME NEW x \in Nodes PROVE MailOf(x)'
  <2>1. MailOf(x) /\ IsInjective(inbox'[x])
    BY DEF IInv, MailInv, Solo
  <2>2. ASSUME NEW m \in Mail(x)'
        PROVE  /\ Published(m.id)'
               /\ m.on = "request" => x \in req'[m.id].reach
               /\ m.on = "response" =>
                     /\ x = req'[m.id].node
                     /\ m.answer.node \in req'[m.id].reach
                     /\ Request(m.id) \notin Mail(m.answer.node)'
                     /\ <<m.id, m.answer.node, FALSE>> \notin handlers'
    <3>1. CASE m \in Mail(x)
      <4>1. m.on = "response" => m.answer.node \in Nodes
        BY <1>1, <3>1, MessageForm DEF Answers, Request
      <4>2. <<m.id, m.answer.node, FALSE>> \in handlers'
               => <<m.id, m.answer.node, FALSE>> \in handlers
        OBVIOUS
      <4>3. /\ Published(m.id)
            /\ m.on = "request" => x \in req[m.id].reach
            /\ m.on = "response" =>
                  /\ x = req[m.id].node
                  /\ m.answer.node \in req[m.id].reach
                  /\ Request(m.id) \notin Mail(m.answer.node)
                  /\ <<m.id, m.answer.node, FALSE>> \notin handlers
        BY <2>1, <3>1, Zenon DEF MailOf
      <4>4. m.id \in Ids
        BY <1>1, <3>1, Zenon
      <4>5. Published(m.id)'
        BY <1>2, <4>3, <4>4, Zenon
      <4>6. m.on = "response" => Request(m.id) \notin Mail(m.answer.node)'
        <5> SUFFICES ASSUME m.on = "response" PROVE Request(m.id) \notin Mail(m.answer.node)'
          OBVIOUS
        <5>1. PICK k \in Nodes : k = m.answer.node
          BY <4>1, Zenon
        <5>2. PICK q : q = Request(m.id)
          OBVIOUS
        <5>3. q \notin Mail(k) /\ q # r
          BY <1>2, <4>3, <4>4, <5>1, <5>2, Zenon
        <5>4. Mail(k)' \subseteq Mail(k) \cup {r}
          BY <1>0, Zenon
        <5> QED
          BY <5>1, <5>2, <5>3, <5>4
      <4> QED
        BY <4>2, <4>3, <4>5, <4>6
    <3>2. CASE m = r
      BY <1>2, <3>2
    <3> QED
      BY <3>1, <3>2
  <2>3. ASSUME NEW m \in Mail(x)', NEW l \in Mail(x)',
               m.on = "response" /\ l.on = "response" /\ m.id = l.id
               /\ m.answer.node = l.answer.node
        PROVE  m = l
    <3>1. m \in Mail(x) /\ l \in Mail(x) => m = l
      BY <2>1, <2>3 DEF MailOf
    <3>2. m \in Mail(x) \cup {r} /\ l \in Mail(x) \cup {r}
      OBVIOUS
    <3> QED
      BY <2>3, <3>1, <3>2
  <2> QED
    BY <2>1, <2>2, <2>3 DEF MailOf, Request
<1>4. HandlersInv'
  <2> SUFFICES ASSUME NEW j \in Ids, NEW k \in Nodes, NEW b \in BOOLEAN,
                      <<j, k, b>> \in handlers'
               PROVE  /\ req'[j].type = "emit" /\ Published(j)'
                      /\ k \in req'[j].reach /\ k # req'[j].node
                      /\ Request(j) \notin Mail(k)'
    BY DEF HandlersInv, Request
  <2>1. \E c \in BOOLEAN : <<j, k, c>> \in handlers
    <3>1. CASE <<j, k, b>> \in handlers
      BY <3>1, Zenon
    <3>2. CASE <<j, k, b>> = <<i, n, TRUE>>
      <4>1. j = i /\ k = n
        BY <3>2
      <4> QED
        BY <3>2, <4>1, Zenon
    <3> QED
      BY <3>1, <3>2, Zenon
  <2>2. /\ req[j].type = "emit" /\ Published(j)
        /\ k \in req[j].reach /\ k # req[j].node
        /\ Request(j) \notin Mail(k)
    BY <2>1, Zenon DEF IInv, MailInv, HandlersInv
  <2> QED
    BY <1>2, <2>2
<1>5. ASSUME NEW j \in Ids PROVE NotAgain(j)'
  <2> SUFFICES ASSUME Waiting(j)', NEW k \in HeardFrom(j)'
               PROVE  /\ <<j, k, FALSE>> \notin handlers'
                      /\ Request(j) \in Mail(k)' => k = req'[j].node /\ req'[j].type \in SelfHeard
                      /\ \A x \in Nodes : \A m \in Mail(x)' :
                            m.on = "response" /\ m.id = j => m.answer.node # k
    BY Zenon DEF NotAgain, Request
  <2>1. Waiting(j) /\ k \in HeardFrom(j) /\ k \in Nodes
    BY <1>2, HeardType DEF IInv
  <2>2. NotAgain(j)
    BY DEF IInv, MailInv
  <2>6. /\ <<j, k, FALSE>> \notin handlers
        /\ Request(j) \in Mail(k) => k = req[j].node /\ req[j].type \in SelfHeard
        /\ \A x \in Nodes : \A m \in Mail(x) :
              m.on = "response" /\ m.id = j => m.answer.node # k
    BY <2>1, <2>2, Zenon DEF NotAgain
  <2>3. <<j, k, FALSE>> \notin handlers'
    BY <2>6
  <2>4. Request(j) \in Mail(k)' => k = req'[j].node /\ req'[j].type \in SelfHeard
    BY <1>2, <2>1, <2>6
  <2>5. ASSUME NEW x \in Nodes, NEW m \in Mail(x)', m.on = "response", m.id = j
        PROVE  m.answer.node # k
    <3>1. CASE m \in Mail(x)
      BY <2>5, <2>6, <3>1
    <3>2. CASE m = r
      BY <2>1, <2>5, <3>2
    <3> QED
      BY <3>1, <3>2
  <2> QED
    BY <2>3, <2>4, <2>5
<1> QED
  BY <1>3, <1>4, <1>5 DEF MailInv

\* An emit reaches a handler of another node.
LEMMA HandledMail ==
    ASSUME IInv, NEW i \in Ids, NEW n \in Nodes, Request(i) \in Mail(n),
           req[i].type = "emit", n # req[i].node, Solo', req' = req,
           handlers' = handlers \cup {<<i, n, FALSE>>},
           \A x \in Nodes : Mail(x)' = Mail(x) \ IF x = n THEN {Request(i)} ELSE {}
    PROVE  MailInv'
<1>1. \A x \in Nodes : \A m \in Mail(x) : m.id \in Ids /\ m \in Messages
  BY MailType, MessageForm DEF IInv
<1>2. \A j \in Ids : /\ Published(j)' <=> Published(j)
                     /\ HeardFrom(j)' = HeardFrom(j)
                     /\ Waiting(j)' <=> Waiting(j)
                     /\ Request(j)' = Request(j)
  BY HeardSame DEF Published, Waiting, Request
<1>3. ASSUME NEW x \in Nodes PROVE MailOf(x)'
  <2>1. MailOf(x) /\ IsInjective(inbox'[x])
    BY DEF IInv, MailInv, Solo
  <2>2. ASSUME NEW m \in Mail(x)'
        PROVE  /\ Published(m.id)'
               /\ m.on = "request" => x \in req'[m.id].reach
               /\ m.on = "response" =>
                     /\ x = req'[m.id].node
                     /\ m.answer.node \in req'[m.id].reach
                     /\ Request(m.id) \notin Mail(m.answer.node)'
                     /\ <<m.id, m.answer.node, FALSE>> \notin handlers'
    <3>1. m \in Mail(x)
      OBVIOUS
    <3>2. m.on = "response" => m.answer.node \in Nodes
      BY <1>1, <3>1, MessageForm DEF Answers, Request
    <3>3. m.on = "response" => /\ Request(m.id) \notin Mail(m.answer.node)
                               /\ <<m.id, m.answer.node, FALSE>> \notin handlers
      BY <2>1, <3>1 DEF MailOf
    <3>4. m.on = "response" => ~(m.id = i /\ m.answer.node = n)
      BY <3>3
    <3> QED
      BY <1>1, <1>2, <2>1, <3>1, <3>2, <3>3, <3>4 DEF MailOf
  <2> QED
    BY <2>1, <2>2 DEF MailOf, Request
<1>4. HandlersInv'
  <2> SUFFICES ASSUME NEW j \in Ids, NEW k \in Nodes, NEW b \in BOOLEAN,
                      <<j, k, b>> \in handlers'
               PROVE  /\ req'[j].type = "emit" /\ Published(j)'
                      /\ k \in req'[j].reach /\ k # req'[j].node
                      /\ Request(j) \notin Mail(k)'
    BY DEF HandlersInv, Request
  <2>1. CASE <<j, k, b>> \in handlers
    <3>1. /\ req[j].type = "emit" /\ Published(j)
          /\ k \in req[j].reach /\ k # req[j].node
          /\ Request(j) \notin Mail(k)
      BY <2>1, Zenon DEF IInv, MailInv, HandlersInv
    <3> QED
      BY <1>2, <3>1
  <2>2. CASE <<j, k, b>> = <<i, n, FALSE>>
    <3>1. j = i /\ k = n
      BY <2>2
    <3>2. MailOf(n)
      BY DEF IInv, MailInv
    <3> DEFINE m == Request(i)
    <3>4. m \in Mail(n) /\ m.on = "request" /\ m.id = i
      BY MessageTypes
    <3> HIDE DEF m
    <3>3. Published(i) /\ n \in req[i].reach
      BY <3>2, <3>4 DEF MailOf
    <3> QED
      BY <1>2, <3>1, <3>3
  <2> QED
    BY <2>1, <2>2
<1>5. ASSUME NEW j \in Ids PROVE NotAgain(j)'
  <2> SUFFICES ASSUME Waiting(j)', NEW k \in HeardFrom(j)'
               PROVE  /\ <<j, k, FALSE>> \notin handlers'
                      /\ Request(j) \in Mail(k)' => k = req'[j].node /\ req'[j].type \in SelfHeard
                      /\ \A x \in Nodes : \A m \in Mail(x)' :
                            m.on = "response" /\ m.id = j => m.answer.node # k
    BY Zenon DEF NotAgain, Request
  <2>1. Waiting(j) /\ k \in HeardFrom(j) /\ k \in Nodes
    BY <1>2, HeardType DEF IInv
  <2>2. NotAgain(j)
    BY DEF IInv, MailInv
  <2>3. /\ <<j, k, FALSE>> \notin handlers
        /\ Request(j) \in Mail(k) => k = req[j].node /\ req[j].type \in SelfHeard
        /\ \A x \in Nodes : \A m \in Mail(x) :
              m.on = "response" /\ m.id = j => m.answer.node # k
    BY <2>1, <2>2, Zenon DEF NotAgain
  <2>4. <<j, k, FALSE>> \notin handlers'
    <3>1. ~(j = i /\ k = n)
      BY <2>3
    <3> QED
      BY <2>3, <3>1
  <2> QED
    BY <2>1, <2>3, <2>4
<1> QED
  BY <1>3, <1>4, <1>5 DEF MailInv

\* The answer r is counted.
LEMMA HeardGrows ==
    ASSUME Typed, NEW i \in Ids, NEW a \in Answers,
           req'[i].heard = Append(req[i].heard, a)
    PROVE  /\ HeardFrom(i)' = HeardFrom(i) \cup {a.node}
           /\ Heard(i)' = Heard(i) \cup {a}
           /\ Len(req'[i].heard) = Len(req[i].heard) + 1
           /\ Len(req[i].heard) \in Nat
<1> DEFINE q == req[i].heard
           t == Append(q, a)
<1>1. q \in Seq(Answers)
  BY DEF Typed, Requests
<1>2. /\ t \in Seq(Answers) /\ Len(t) = Len(q) + 1 /\ Len(q) \in Nat
      /\ DOMAIN q = 1..Len(q) /\ DOMAIN t = 1..Len(t)
      /\ \A k \in 1..Len(q) : t[k] = q[k]
      /\ t[Len(t)] = a
  BY <1>1, LenProperties
<1>3. HeardFrom(i) = {q[k].node : k \in DOMAIN q} /\ Heard(i) = {q[k] : k \in DOMAIN q}
  BY DEF HeardFrom, Heard
<1>4. HeardFrom(i)' = {t[k].node : k \in DOMAIN t} /\ Heard(i)' = {t[k] : k \in DOMAIN t}
  BY DEF HeardFrom, Heard
<1>5. req'[i].heard = t
  OBVIOUS
<1> HIDE DEF q, t
<1>6. DOMAIN t = DOMAIN q \cup {Len(t)}
  BY <1>2
<1>7. \A k \in DOMAIN q : t[k] = q[k]
  BY <1>2
<1>8. {t[k].node : k \in DOMAIN t} = {q[k].node : k \in DOMAIN q} \cup {a.node}
  BY <1>2, <1>6, <1>7
<1>9. {t[k] : k \in DOMAIN t} = {q[k] : k \in DOMAIN q} \cup {a}
  BY <1>2, <1>6, <1>7
<1> QED
  BY <1>2, <1>3, <1>4, <1>5, <1>8, <1>9 DEF q

\* A response leaves the queue of the requester and may be counted.
LEMMA HeardMail ==
    ASSUME IInv, NEW n \in Nodes, NEW r \in Mail(n), r.on = "response",
           Waiting(r.id), Solo', handlers' = handlers,
           \A x \in Nodes : Mail(x)' = Mail(x) \ IF x = n THEN {r} ELSE {},
           \A j \in Ids \ {r.id} : req'[j] = req[j],
           /\ req'[r.id].type = req[r.id].type /\ req'[r.id].node = req[r.id].node
           /\ req'[r.id].reach = req[r.id].reach
           /\ req'[r.id].pc \in {"waiting", "resolved"}
           /\ HeardFrom(r.id)' = HeardFrom(r.id) \cup {r.answer.node}
    PROVE  MailInv'
<1>1. \A x \in Nodes : \A m \in Mail(x) : m.id \in Ids /\ m \in Messages
  BY MailType, MessageForm DEF IInv
<1>2. ASSUME NEW j \in Ids
      PROVE  /\ Published(j)' <=> Published(j)
             /\ Waiting(j)' => Waiting(j)
             /\ req'[j].type = req[j].type /\ req'[j].node = req[j].node
             /\ req'[j].reach = req[j].reach
             /\ Request(j)' = Request(j)
  BY DEF Published, Waiting, Request
<1>3. ASSUME NEW x \in Nodes PROVE MailOf(x)'
  <2>1. MailOf(x) /\ IsInjective(inbox'[x])
    BY DEF IInv, MailInv, Solo
  <2>2. ASSUME NEW m \in Mail(x)'
        PROVE  /\ Published(m.id)'
               /\ m.on = "request" => x \in req'[m.id].reach
               /\ m.on = "response" =>
                     /\ x = req'[m.id].node
                     /\ m.answer.node \in req'[m.id].reach
                     /\ Request(m.id) \notin Mail(m.answer.node)'
                     /\ <<m.id, m.answer.node, FALSE>> \notin handlers'
    <3>1. m \in Mail(x)
      OBVIOUS
    <3>2. m.on = "response" => m.answer.node \in Nodes
      BY <1>1, <3>1, MessageForm DEF Answers, Request
    <3> QED
      BY <1>1, <1>2, <2>1, <3>1, <3>2 DEF MailOf
  <2> QED
    BY <2>1, <2>2 DEF MailOf, Request
<1>4. HandlersInv'
  <2> SUFFICES ASSUME NEW j \in Ids, NEW k \in Nodes, NEW b \in BOOLEAN,
                      <<j, k, b>> \in handlers'
               PROVE  /\ req'[j].type = "emit" /\ Published(j)'
                      /\ k \in req'[j].reach /\ k # req'[j].node
                      /\ Request(j) \notin Mail(k)'
    BY DEF HandlersInv, Request
  <2>1. /\ req[j].type = "emit" /\ Published(j)
        /\ k \in req[j].reach /\ k # req[j].node
        /\ Request(j) \notin Mail(k)
    BY Zenon DEF IInv, MailInv, HandlersInv
  <2> QED
    BY <1>2, <2>1
<1>5. ASSUME NEW j \in Ids PROVE NotAgain(j)'
  <2> SUFFICES ASSUME Waiting(j)', NEW k \in HeardFrom(j)'
               PROVE  /\ <<j, k, FALSE>> \notin handlers'
                      /\ Request(j) \in Mail(k)' => k = req'[j].node /\ req'[j].type \in SelfHeard
                      /\ \A x \in Nodes : \A m \in Mail(x)' :
                            m.on = "response" /\ m.id = j => m.answer.node # k
    BY Zenon DEF NotAgain, Request
  <2>1. CASE k \in HeardFrom(j)
    <3>1. k \in Nodes /\ NotAgain(j) /\ Waiting(j)
      BY <1>2, <2>1, HeardType DEF IInv, MailInv
    <3>2. /\ <<j, k, FALSE>> \notin handlers
          /\ Request(j) \in Mail(k) => k = req[j].node /\ req[j].type \in SelfHeard
          /\ \A x \in Nodes : \A m \in Mail(x) :
                m.on = "response" /\ m.id = j => m.answer.node # k
      BY <2>1, <3>1, Zenon DEF NotAgain
    <3> QED
      BY <1>2, <3>1, <3>2
  <2>2. CASE k \notin HeardFrom(j)
    <3>1. j = r.id /\ k = r.answer.node
      <4>1. CASE j = r.id
        BY <2>2, <4>1
      <4>2. CASE j # r.id
        BY <2>2, <4>2, HeardSame
      <4> QED
        BY <4>1, <4>2
    <3>2. MailOf(n) /\ r \in Messages /\ k \in Nodes
      BY <1>1, <3>1, MessageForm DEF IInv, MailInv, Answers, Request
    <3>3. /\ <<j, k, FALSE>> \notin handlers /\ Request(j) \notin Mail(k)
          /\ n = req[j].node
      BY <3>1, <3>2 DEF MailOf
    <3>4. ASSUME NEW x \in Nodes, NEW m \in Mail(x)', m.on = "response", m.id = j
          PROVE  m.answer.node # k
      <4>1. m \in Mail(x) /\ MailOf(x)
        BY DEF IInv, MailInv
      <4>2. x = n
        BY <3>3, <3>4, <4>1 DEF MailOf
      <4>3. m # r /\ m \in Mail(n)
        BY <4>1, <4>2
      <4> QED
        BY <3>1, <3>2, <3>4, <4>3 DEF MailOf
    <3> QED
      BY <3>2, <3>3, <3>4
  <2> QED
    BY <2>1, <2>2
<1> QED
  BY <1>3, <1>4, <1>5 DEF MailInv

------------------------------------------------------------------------------
\* The shape and the count of a request, step by step.

\* The part of the invariant that is not about types.
Sound == MailInv /\ \A i \in Ids : Shape(i) /\ Counts(i) /\ Copies(i)

\* A request is new: nobody else has been heard.
LEMMA CountsFresh ==
    ASSUME NEW i \in Ids, NEW a, a.node = req'[i].node,
           req'[i].heard \in {<<>>, <<a>>},
           req'[i].type \in SelfHeard => req'[i].heard = <<a>>,
           req'[i].type \in Direct => req'[i].heard = <<>>,
           req'[i].type \notin Collecting /\ req'[i].pc \in {"counting", "counted"}
               => req'[i].heard = <<>>,
           req'[i].type \in Collecting => req'[i].pc # "resolved"
    PROVE  Counts(i)' /\ HeardFrom(i)' \subseteq {req'[i].node}
           /\ (req'[i].heard = <<>> => HeardFrom(i)' = {})
<1>1. CASE req'[i].heard = <<>>
  <2>1. HeardFrom(i)' = {} /\ Heard(i)' = {} /\ Len(req'[i].heard) = 0
        /\ DOMAIN req'[i].heard = {}
    BY <1>1 DEF HeardFrom, Heard
  <2>2. IsFiniteSet({}) /\ Cardinality({}) = 0
    BY FS_EmptySet
  <2> QED
    BY <1>1, <2>1, <2>2 DEF Counts, Waiting, SelfHeard
<1>2. CASE req'[i].heard = <<a>>
  <2>1. /\ HeardFrom(i)' = {a.node} /\ Heard(i)' = {a} /\ Len(req'[i].heard) = 1
        /\ DOMAIN req'[i].heard = {1}
    BY <1>2 DEF HeardFrom, Heard
  <2>2. /\ IsFiniteSet({a.node}) /\ Cardinality({a.node}) = 1
        /\ IsFiniteSet({a}) /\ Cardinality({a}) = 1
    BY FS_Singleton
  <2>3. <<a>> # <<>>
    OBVIOUS
  <2> QED
    BY <1>2, <2>1, <2>2, <2>3 DEF Counts, Waiting, SelfHeard
<1> QED
  BY <1>1, <1>2

\* A set with an element more is one larger.
LEMMA OneMore ==
    ASSUME NEW S, NEW x, IsFiniteSet(S), x \notin S
    PROVE  IsFiniteSet(S \cup {x}) /\ Cardinality(S \cup {x}) = Cardinality(S) + 1
  BY FS_AddElement

\* One more answer is counted, the last one when the caller is resolved.
LEMMA CountsHeard ==
    ASSUME Typed, NEW i \in Ids, NEW a \in Answers, Shape(i), Counts(i), Waiting(i),
           a.node \in req[i].reach, a.node \notin HeardFrom(i),
           req'[i].heard = Append(req[i].heard, a),
           req'[i].type = req[i].type, req'[i].node = req[i].node,
           req'[i].subs = req[i].subs, req'[i].reach = req[i].reach,
           req'[i].pc \in {"waiting", "resolved"},
           req[i].type \in Direct => req'[i].pc = "resolved",
           req[i].type \in Collecting /\ req'[i].pc = "resolved"
               => Len(req[i].heard) + 1 = Cardinality(req[i].subs)
    PROVE  Counts(i)'
<1> DEFINE q == req[i].heard
           t == Append(q, a)
<1>1. /\ HeardFrom(i)' = HeardFrom(i) \cup {a.node}
      /\ Heard(i)' = Heard(i) \cup {a}
      /\ Len(req'[i].heard) = Len(req[i].heard) + 1
  BY HeardGrows
<1>2. a \notin Heard(i)
  BY DEF Heard, HeardFrom
<1>3. /\ IsFiniteSet(HeardFrom(i)) /\ Cardinality(HeardFrom(i)) = Len(req[i].heard)
      /\ IsFiniteSet(Heard(i)) /\ Cardinality(Heard(i)) = Len(req[i].heard)
      /\ HeardFrom(i) \subseteq req[i].reach \cup {req[i].node}
  BY DEF Counts
<1>4. /\ IsFiniteSet(HeardFrom(i)') /\ Cardinality(HeardFrom(i)') = Len(req'[i].heard)
      /\ IsFiniteSet(Heard(i)') /\ Cardinality(Heard(i)') = Len(req'[i].heard)
  <2>1. /\ IsFiniteSet(HeardFrom(i) \cup {a.node})
        /\ Cardinality(HeardFrom(i) \cup {a.node}) = Len(req[i].heard) + 1
    BY <1>3, OneMore
  <2>2. /\ IsFiniteSet(Heard(i) \cup {a})
        /\ Cardinality(Heard(i) \cup {a}) = Len(req[i].heard) + 1
    BY <1>2, <1>3, OneMore
  <2> QED
    BY <1>1, <2>1, <2>2
<1>5. HeardFrom(i)' \subseteq req'[i].reach
  BY <1>1, <1>3 DEF Shape, Waiting
<1>6. ASSUME NEW j \in DOMAIN t, NEW k \in DOMAIN t, t[j].node = t[k].node
      PROVE  j = k
  <2>1. q \in Seq(Answers)
    BY DEF Typed, Requests
  <2>2. /\ Len(t) = Len(q) + 1 /\ Len(q) \in Nat
        /\ DOMAIN q = 1..Len(q) /\ DOMAIN t = 1..Len(t)
        /\ \A l \in 1..Len(q) : t[l] = q[l]
        /\ t[Len(t)] = a
    BY <2>1, LenProperties
  <2>3. \A l \in DOMAIN q : q[l].node \in HeardFrom(i)
    BY DEF HeardFrom
  <2>4. \A l, m \in DOMAIN q : q[l].node = q[m].node => l = m
    BY DEF Counts
  <2> HIDE DEF q, t
  <2>5. ASSUME NEW l \in DOMAIN t
        PROVE  \/ l \in DOMAIN q /\ t[l].node \in HeardFrom(i)
               \/ l = Len(t) /\ t[l].node = a.node
    <3>1. l \in DOMAIN q \/ l = Len(t)
      BY <2>2
    <3> QED
      BY <2>2, <2>3, <3>1
  <2>6. CASE j \in DOMAIN q /\ k \in DOMAIN q
    BY <1>6, <2>2, <2>4, <2>6
  <2>7. CASE ~(j \in DOMAIN q /\ k \in DOMAIN q)
    BY <1>6, <2>5, <2>7
  <2> QED
    BY <2>6, <2>7
<1>7. ASSUME req'[i].type \in Collecting, req'[i].pc = "resolved",
             req'[i].reach \subseteq req'[i].subs
      PROVE  HeardFrom(i)' = req'[i].subs
  <2>1. IsFiniteSet(req[i].subs)
    BY NodesFinite, FS_Subset DEF Typed, Requests
  <2>2. HeardFrom(i)' \subseteq req'[i].subs /\ Cardinality(HeardFrom(i)') = Cardinality(req[i].subs)
    BY <1>1, <1>4, <1>5, <1>7
  <2> QED
    BY <2>1, <2>2, FS_Subset
<1>8. req[i].type \in SelfHeard => req'[i].node \in HeardFrom(i)'
  BY <1>1 DEF Counts
<1> QED
  BY <1>4, <1>5, <1>6, <1>7, <1>8 DEF Counts, Waiting

\* All are left alone if the requests do not change.
LEMMA SameKeeps == ASSUME req' = req PROVE \A j \in Ids : Keeps(j)
  BY DEF Keeps

\* Every request is kept.
LEMMA AllKeep ==
    ASSUME IInv, \A j \in Ids : Keeps(j), over \subseteq over',
           \A j \in Ids : req'[j].pc \in Pending => req[j].node \in up'
    PROVE  \A j \in Ids : Shape(j)' /\ Counts(j)'
  BY KeepsShape, KeepsCounts DEF IInv

\* Every request but one is left alone.
LEMMA OthersKeep ==
    ASSUME IInv, NEW i \in Ids, \A j \in Ids \ {i} : req'[j] = req[j], UNCHANGED nodes
    PROVE  \A j \in Ids \ {i} : Shape(j)' /\ Counts(j)' /\ Keeps(j)
<1> TAKE j \in Ids \ {i}
<1>1. Keeps(j)
  BY DEF Keeps
<1>2. req'[j].pc \in Pending => req[j].node \in up'
  BY DEF IInv, Shape, nodes
<1> QED
  BY <1>1, <1>2, KeepsShape, KeepsCounts DEF IInv, nodes

\* No packet is delivered, and no request of a packet is taken from a queue.
LEMMA AllCopies ==
    ASSUME IInv, UNCHANGED got,
           \A j \in Ids : stayed'[j] \subseteq stayed[j],
           \A j \in Ids : \/ /\ Keeps(j)
                             /\ \A n \in Nodes : Request(j) \in Mail(n)' => Request(j) \in Mail(n)
                             /\ \A s \in stayed'[j] : Home[s] \in Nodes /\
                                   (Request(j) \in Mail(Home[s]) => Request(j) \in Mail(Home[s])')
                          \/ req[j].type \notin Packets /\ req'[j].type \notin Packets
    PROVE  \A j \in Ids : Copies(j)'
<1> TAKE j \in Ids
<1>1. Copies(j) /\ got'[j] = got[j] /\ \A s \in Sockets : Home[s] \in Nodes
  BY HomeType DEF IInv
<1>2. CASE req[j].type \notin Packets /\ req'[j].type \notin Packets
  BY <1>1, <1>2, NoCopies DEF IInv
<1>3. CASE /\ Keeps(j)
           /\ \A n \in Nodes : Request(j) \in Mail(n)' => Request(j) \in Mail(n)
           /\ \A s \in stayed'[j] : Home[s] \in Nodes /\
                 (Request(j) \in Mail(Home[s]) => Request(j) \in Mail(Home[s])')
  BY <1>1, <1>3, KeepsCopies
<1> QED
  BY <1>2, <1>3

------------------------------------------------------------------------------
\* The requester keeps the invariant.

\* The mail is the same if the queues are.
LEMMA SameMail ==
    ASSUME Solo, inbox' = inbox
    PROVE  Solo' /\ \A n \in Nodes : Mail(n)' = Mail(n)
  BY DEF Solo, Mail

\* sockets, allRooms, fetchSockets and serverSideEmitWithAck
LEMMA AskSound ==
    ASSUME IInv, NEW i \in Ids, NEW n \in Nodes, NEW t \in Collecting \cup {"emit"},
           Ask(i, n, t, None, "counting", IF t = "emit" THEN <<>> ELSE <<HeldBy(n)>>, {}),
           UNCHANGED <<nodes, sockets, inbox, handlers, got, stayed>>
    PROVE  Sound'
<1> DEFINE h == IF t = "emit" THEN <<>> ELSE <<HeldBy(n)>>
<1>1. /\ t \in Types /\ h \in Seq(Answers) /\ "counting" \in {"resolved"} \cup Pending
      /\ None \in Sockets \cup {None} /\ {} \in SUBSET Nodes
      /\ t # None /\ None \notin Packets /\ t \notin Packets
  BY TypeNames, EmptySeqType, AnswerType, NoneIsNoType DEF IInv, Pending, Collecting, Packets
<1>2. /\ req[i] = Unused /\ n \in up
      /\ \A j \in Ids \ {i} : req'[j] = req[j]
      /\ req'[i].type = t /\ req'[i].node = n /\ req'[i].sid = None
      /\ req'[i].pc = "counting" /\ req'[i].subs = {} /\ req'[i].reach = {}
      /\ req'[i].heard = h
  <2>1. Ask(i, n, t, None, "counting", h, {}) /\ Typed
    BY DEF IInv
  <2> HIDE DEF h
  <2> QED
    BY <1>1, <2>1, AskFields
<1> HIDE DEF h
<1>3. Shape(i)'
  BY <1>1, <1>2 DEF Shape, nodes, Pending, Collecting, Direct, Bulk, Packets
<1>4. Counts(i)'
  <2>1. HeldBy(n).node = n
    BY DEF HeldBy
  <2>2. t \in SelfHeard => h = <<HeldBy(n)>>
    BY DEF SelfHeard, Collecting, h
  <2>3. t \notin Direct
    BY DEF Direct, Collecting
  <2> QED
    BY <1>2, <2>1, <2>2, <2>3, CountsFresh DEF h
<1>5. \A j \in Ids \ {i} : Shape(j)' /\ Counts(j)' /\ Keeps(j)
  BY <1>2, OthersKeep
<1>6. ~Published(i) /\ ~Waiting(i)' /\ req[i].type = None
  BY <1>2 DEF Published, Waiting, Unused
<1>7. Solo' /\ \A x \in Nodes : Mail(x)' = Mail(x)
  BY SameMail, InvSolo
<1>8. MailInv'
  BY <1>5, <1>6, <1>7, LessMail
<1>9. \A j \in Ids : Copies(j)'
  <2>1. \A s \in Sockets : Home[s] \in Nodes
    BY HomeType
  <2>2. \A j \in Ids : stayed'[j] \subseteq Sockets
    BY DEF IInv, Typed
  <2> QED
    BY <1>1, <1>2, <1>5, <1>6, <1>7, <2>1, <2>2, AllCopies
<1> QED
  BY <1>3, <1>4, <1>5, <1>8, <1>9 DEF Sound

\* getNumSub
LEMMA CountSound ==
    ASSUME IInv, NEW i \in Ids, Count(i)
    PROVE  Sound'
<1>1. /\ req[i].pc = "counting"
      /\ \A j \in Ids \ {i} : req'[j] = req[j]
      /\ req'[i].type = req[i].type /\ req'[i].node = req[i].node
      /\ req'[i].sid = req[i].sid /\ req'[i].pc = "counted"
      /\ req'[i].subs = up /\ req'[i].reach = req[i].reach
      /\ req'[i].heard = req[i].heard
  BY CountFields DEF IInv
<1>2. UNCHANGED <<nodes, sockets, inbox, handlers, got, stayed>>
  BY DEF Count
<1>3. Shape(i) /\ Counts(i)
  BY DEF IInv
<1>4. Shape(i)'
  BY <1>1, <1>2, <1>3 DEF Shape, nodes, Pending, Packets, Direct, Bulk, Collecting
<1>5. Counts(i)'
  <2>1. HeardFrom(i)' = HeardFrom(i) /\ Heard(i)' = Heard(i)
    BY <1>1, HeardSame
  <2> QED
    BY <1>1, <1>3, <2>1 DEF Counts, Waiting
<1>6. \A j \in Ids \ {i} : Shape(j)' /\ Counts(j)' /\ Keeps(j)
  BY <1>1, <1>2, OthersKeep
<1>7. ~Published(i) /\ ~Waiting(i)' /\ req[i].type \notin Packets
  BY <1>1, <1>3 DEF Published, Waiting, Shape, Packets
<1>8. Solo' /\ \A x \in Nodes : Mail(x)' = Mail(x)
  BY <1>2, SameMail, InvSolo
<1>9. MailInv'
  BY <1>2, <1>6, <1>7, <1>8, LessMail
<1>10. \A j \in Ids : Copies(j)'
  <2>1. \A s \in Sockets : Home[s] \in Nodes
    BY HomeType
  <2>2. \A j \in Ids : stayed'[j] \subseteq Sockets
    BY <1>2 DEF IInv, Typed
  <2> QED
    BY <1>1, <1>2, <1>6, <1>7, <1>8, <2>1, <2>2, AllCopies
<1> QED
  BY <1>4, <1>5, <1>6, <1>9, <1>10 DEF Sound

\* The request is published, or resolved with nobody to ask.
LEMMA PublishSound ==
    ASSUME IInv, NEW i \in Ids, Publish(i)
    PROVE  Sound'
<1>1. /\ req[i].pc = "counted"
      /\ \A j \in Ids \ {i} : req'[j] = req[j]
      /\ req'[i].type = req[i].type /\ req'[i].node = req[i].node
      /\ req'[i].sid = req[i].sid /\ req'[i].subs = req[i].subs
      /\ req'[i].heard = req[i].heard
      /\ \/ /\ Cardinality(req[i].subs) <= 1 /\ req'[i].pc = "resolved"
            /\ req'[i].reach = req[i].reach /\ inbox' = inbox
         \/ /\ ~(Cardinality(req[i].subs) <= 1) /\ req'[i].pc = "waiting"
            /\ req'[i].reach = up /\ Publication(i)
  BY PublishFields DEF IInv
<1>2. UNCHANGED <<nodes, sockets, handlers, got, stayed>>
  BY DEF Publish
<1>3. Shape(i) /\ Counts(i)
  BY DEF IInv
<1>4. /\ ~Published(i) /\ req[i].type \notin Packets /\ req[i].type \notin Direct \cup Bulk
      /\ req[i].node \in up /\ req[i].type # None
  BY <1>1, <1>3 DEF Published, Shape, Packets, Pending
<1>5. Shape(i)'
  BY <1>1, <1>2, <1>3, <1>4 DEF Shape, nodes, Pending, Packets, Direct, Bulk, Collecting
<1>6. HeardFrom(i)' = HeardFrom(i) /\ Heard(i)' = Heard(i)
  BY <1>1, HeardSame
<1>7. /\ req[i].type \in Collecting => HeardFrom(i) = {req[i].node}
      /\ req[i].type \notin Collecting => HeardFrom(i) = {}
  BY <1>1, <1>3 DEF Counts
<1>8. Counts(i)'
  <2>1. ASSUME req[i].type \in Collecting, Cardinality(req[i].subs) <= 1
        PROVE  {req[i].node} = req[i].subs
    <3>1. req[i].node \in req[i].subs /\ IsFiniteSet(req[i].subs)
      BY <1>1, <1>3, <2>1, NodesFinite, FS_Subset DEF Shape, IInv, Typed, Requests
    <3>2. {req[i].node} \subseteq req[i].subs /\ Cardinality({req[i].node}) = 1
      BY <3>1, FS_Singleton
    <3>3. Cardinality(req[i].subs) \in Nat
      BY <3>1, FS_CardinalityType
    <3> QED
      BY <2>1, <3>1, <3>2, <3>3, FS_Subset
  <2> QED
    BY <1>1, <1>3, <1>4, <1>6, <1>7, <2>1 DEF Counts, Waiting, SelfHeard, Packets, Collecting
<1>9. \A j \in Ids \ {i} : Shape(j)' /\ Counts(j)' /\ Keeps(j)
  BY <1>1, <1>2, OthersKeep
<1>10. MailInv' /\ \A j \in Ids \ {i}, n \in Nodes : Request(j) \in Mail(n)' <=> Request(j) \in Mail(n)
  <2>1. CASE inbox' = inbox /\ req'[i].pc = "resolved"
    <3>1. Solo' /\ \A x \in Nodes : Mail(x)' = Mail(x)
      BY <2>1, SameMail, InvSolo
    <3>2. ~Waiting(i)'
      BY <2>1 DEF Waiting
    <3> QED
      BY <1>2, <1>4, <1>9, <3>1, <3>2, LessMail
  <2>2. CASE req'[i].pc = "waiting" /\ req'[i].reach = up /\ Publication(i)
    <3>1. /\ Solo'
          /\ \A n \in Nodes : Mail(n)' = Mail(n) \cup IF n \in up THEN {Request(i)} ELSE {}
      BY <1>4, <2>2, Unpublished, InvSolo, PublicationMail
    <3>2. Published(i)'
      BY <2>2 DEF Published
    <3>3. \A n \in HeardFrom(i)' : n = req'[i].node /\ req'[i].type \in SelfHeard
      BY <1>1, <1>6, <1>7 DEF SelfHeard
    <3>4. MailInv'
      BY <1>1, <1>2, <1>4, <2>2, <3>1, <3>2, <3>3, PublishedMail
    <3>5. \A j \in Ids \ {i} : Request(j) # Request(i)
      BY MessageTypes
    <3> QED
      BY <3>1, <3>4, <3>5
  <2> QED
    BY <1>1, <2>1, <2>2
<1>11. \A j \in Ids : Copies(j)'
  <2>1. \A s \in Sockets : Home[s] \in Nodes
    BY HomeType
  <2>2. \A j \in Ids : stayed'[j] \subseteq Sockets
    BY <1>2 DEF IInv, Typed
  <2> QED
    BY <1>1, <1>2, <1>4, <1>9, <1>10, <2>1, <2>2, AllCopies
<1> QED
  BY <1>5, <1>8, <1>9, <1>10, <1>11 DEF Sound

\* The timer keeps the invariant, ...
LEMMA TimeoutSound ==
    ASSUME IInv, NEW i \in Ids, Timeout(i)
    PROVE  Sound'
<1>1. UNCHANGED <<nodes, sockets, inbox, handlers, got, stayed>>
  BY DEF Timeout
<1>2. \A j \in Ids : Keeps(j)
  <2> TAKE j \in Ids
  <2>1. CASE j = i
    BY <2>1, TimeoutFields DEF IInv, Keeps, Pending
  <2>2. CASE j # i
    BY <2>2, TimeoutFields DEF IInv, Keeps
  <2> QED
    BY <2>1, <2>2
<1>3. \A j \in Ids : req'[j].pc \in Pending => req[j].node \in up'
  BY <1>1, <1>2 DEF IInv, Shape, Keeps, nodes, Pending
<1>4. Solo' /\ \A x \in Nodes : Mail(x)' = Mail(x)
  BY <1>1, SameMail, InvSolo
<1>5. MailInv'
  BY <1>1, <1>2, <1>4, LessMail
<1>6. \A j \in Ids : Copies(j)'
  <2>1. \A s \in Sockets : Home[s] \in Nodes
    BY HomeType
  <2>2. \A j \in Ids : stayed'[j] \subseteq Sockets
    BY <1>1 DEF IInv, Typed
  <2> QED
    BY <1>1, <1>2, <1>4, <2>1, <2>2, AllCopies
<1> QED
  BY <1>1, <1>2, <1>3, <1>5, <1>6, AllKeep DEF Sound, nodes

\* A request that is published as soon as it is made.
LEMMA AskPublished ==
    ASSUME IInv, NEW i \in Ids, NEW n \in Nodes, NEW t \in Direct \cup Bulk \cup Packets,
           NEW s \in Sockets \cup {None}, t \in Packets \/ s \in Sockets,
           Ask(i, n, t, s,
               IF t \in Direct \cup {"broadcastAck"} THEN "waiting" ELSE "resolved",
               IF t = "broadcastAck" THEN <<HeldBy(n)>> ELSE <<>>, up),
           Publication(i), UNCHANGED <<nodes, handlers>>
    PROVE  /\ MailInv'
           /\ \A j \in Ids : Shape(j)' /\ Counts(j)'
           /\ \A j \in Ids \ {i} : Keeps(j)
           /\ req[i] = Unused /\ req'[i].type = t /\ req'[i].node = n
           /\ \A x \in Nodes : Mail(x)' = Mail(x) \cup IF x \in up THEN {Request(i)} ELSE {}
           /\ \A j \in Ids \ {i}, x \in Nodes : Request(j) \in Mail(x)' <=> Request(j) \in Mail(x)
<1> DEFINE h == IF t = "broadcastAck" THEN <<HeldBy(n)>> ELSE <<>>
           pc == IF t \in Direct \cup {"broadcastAck"} THEN "waiting" ELSE "resolved"
<1>1. /\ t \in Types /\ h \in Seq(Answers) /\ pc \in {"resolved"} \cup Pending
      /\ up \in SUBSET Nodes /\ t # None /\ Typed
  BY TypeNames, EmptySeqType, AnswerType, NoneIsNoType DEF IInv, Pending, Typed
<1>2. /\ req[i] = Unused /\ n \in up
      /\ \A j \in Ids \ {i} : req'[j] = req[j]
      /\ req'[i].type = t /\ req'[i].node = n /\ req'[i].sid = s
      /\ req'[i].pc = pc /\ req'[i].subs = {} /\ req'[i].reach = up
      /\ req'[i].heard = h
  <2>1. Ask(i, n, t, s, pc, h, up)
    OBVIOUS
  <2>2. req \in [Ids -> Requests]
    BY <1>1 DEF Typed
  <2> HIDE DEF h, pc
  <2> QED
    BY <2>1, <2>2 DEF Ask
<1> HIDE DEF h, pc
<1>3. Shape(i)'
  <2>1. t \notin Collecting /\ t # "emit"
    BY DEF Collecting, Direct, Bulk, Packets
  <2>2. pc \in {"waiting", "resolved"} /\ (t \in Bulk \cup {"broadcast"} => pc = "resolved")
        /\ (t = "broadcastAck" => pc = "waiting") /\ (t \in Direct \cup Bulk => s \in Sockets)
    BY DEF pc, Direct, Bulk, Packets
  <2> QED
    BY <1>1, <1>2, <2>1, <2>2 DEF Shape, nodes, Pending
<1>4. Counts(i)' /\ HeardFrom(i)' \subseteq {n} /\ (h = <<>> => HeardFrom(i)' = {})
  <2>1. HeldBy(n).node = n
    BY DEF HeldBy
  <2>2. /\ t \in SelfHeard => h = <<HeldBy(n)>>
        /\ t \in Direct => h = <<>>
        /\ t \notin Collecting /\ pc \notin {"counting", "counted"}
        /\ h \in {<<>>, <<HeldBy(n)>>}
    BY DEF SelfHeard, Collecting, Direct, Bulk, Packets, h, pc
  <2> QED
    BY <1>2, <2>1, <2>2, CountsFresh
<1>5. \A j \in Ids \ {i} : Shape(j)' /\ Counts(j)' /\ Keeps(j)
  BY <1>2, OthersKeep
<1>6. ~Published(i) /\ Published(i)'
  <2>1. pc \in {"waiting", "resolved"}
    BY DEF pc
  <2> QED
    BY <1>2, <2>1 DEF Published, Unused
<1>7. /\ Solo'
      /\ \A x \in Nodes : Mail(x)' = Mail(x) \cup IF x \in up THEN {Request(i)} ELSE {}
  BY <1>6, Unpublished, InvSolo, PublicationMail
<1>8. \A x \in HeardFrom(i)' : x = req'[i].node /\ req'[i].type \in SelfHeard
  BY <1>2, <1>4 DEF h, SelfHeard
<1>9. MailInv'
  BY <1>2, <1>6, <1>7, <1>8, PublishedMail
<1>10. \A j \in Ids \ {i} : Request(j) # Request(i)
  BY MessageTypes
<1> QED
  BY <1>2, <1>3, <1>4, <1>5, <1>7, <1>9, <1>10

\* remoteJoin, remoteLeave and remoteDisconnect
LEMMA RemoteSound ==
    ASSUME IInv, NEW i \in Ids, NEW n \in Nodes, NEW t \in Direct, NEW s \in Sockets,
           Remote(i, n, t, s)
    PROVE  Sound'
<1>1. Stays /\ UNCHANGED <<nodes, handlers, got>>
  BY DEF Remote
<1>2. \A j \in Ids : stayed'[j] \subseteq stayed[j] /\ stayed[j] \subseteq Sockets
  BY <1>1 DEF Stays, IInv, Typed
<1>3. \A x \in Sockets : Home[x] \in Nodes
  BY HomeType
<1>4. t \notin Packets /\ None \notin Packets
  BY NoneIsNoType DEF Direct, Packets
<1>5. CASE Open(s) /\ Home[s] = n
  <2>1. Ask(i, n, t, s, "resolved", <<>>, {}) /\ inbox' = inbox
    BY <1>5 DEF Remote
  <2>2. /\ t \in Types /\ <<>> \in Seq(Answers) /\ "resolved" \in {"resolved"} \cup Pending
        /\ s \in Sockets \cup {None} /\ {} \in SUBSET Nodes /\ t # None /\ Typed
    BY TypeNames, EmptySeqType, NoneIsNoType DEF IInv
  <2>3. /\ req[i] = Unused /\ n \in up
        /\ \A j \in Ids \ {i} : req'[j] = req[j]
        /\ req'[i].type = t /\ req'[i].node = n /\ req'[i].sid = s
        /\ req'[i].pc = "resolved" /\ req'[i].subs = {} /\ req'[i].reach = {}
        /\ req'[i].heard = <<>>
    <3>1. req \in [Ids -> Requests]
      BY DEF IInv, Typed
    <3> QED
      BY <2>1, <3>1 DEF Ask
  <2>4. Shape(i)'
    BY <2>2, <2>3 DEF Shape, Pending, Collecting, Direct, Bulk, Packets
  <2>5. Counts(i)'
    <3>1. t \notin SelfHeard /\ t \notin Collecting /\ HeldBy(n).node = n
      BY DEF SelfHeard, Collecting, Direct, HeldBy
    <3> QED
      BY <2>3, <3>1, CountsFresh
  <2>6. \A j \in Ids \ {i} : Shape(j)' /\ Counts(j)' /\ Keeps(j)
    BY <1>1, <2>3, OthersKeep
  <2>7. ~Published(i) /\ ~Waiting(i)' /\ req[i].type = None
    BY <2>3 DEF Published, Waiting, Unused
  <2>8. Solo' /\ \A x \in Nodes : Mail(x)' = Mail(x)
    BY <2>1, SameMail, InvSolo
  <2>9. MailInv'
    BY <1>1, <2>6, <2>7, <2>8, LessMail
  <2>10. \A j \in Ids : Copies(j)'
    BY <1>1, <1>2, <1>3, <1>4, <2>3, <2>6, <2>7, <2>8, AllCopies
  <2> QED
    BY <2>4, <2>5, <2>6, <2>9, <2>10 DEF Sound
<1>6. CASE ~(Open(s) /\ Home[s] = n)
  <2>1. Ask(i, n, t, s, "waiting", <<>>, up) /\ Publication(i)
    BY <1>6 DEF Remote
  <2>2. /\ MailInv'
        /\ \A j \in Ids : Shape(j)' /\ Counts(j)'
        /\ \A j \in Ids \ {i} : Keeps(j)
        /\ req[i] = Unused /\ req'[i].type = t
        /\ \A j \in Ids \ {i}, x \in Nodes : Request(j) \in Mail(x)' <=> Request(j) \in Mail(x)
    <3>1. t # "broadcastAck"
      BY DEF Direct
    <3>2. Ask(i, n, t, s,
              IF t \in Direct \cup {"broadcastAck"} THEN "waiting" ELSE "resolved",
              IF t = "broadcastAck" THEN <<HeldBy(n)>> ELSE <<>>, up)
      BY <2>1, <3>1
    <3> QED
      BY <1>1, <2>1, <3>2, AskPublished
  <2>3. req[i].type = None
    BY <2>2 DEF Unused
  <2>4. \A j \in Ids : Copies(j)'
    BY <1>1, <1>2, <1>3, <1>4, <2>2, <2>3, AllCopies
  <2> QED
    BY <2>2, <2>4 DEF Sound
<1> QED
  BY <1>5, <1>6

\* addSockets, delSockets and disconnectSockets
LEMMA BulkSound ==
    ASSUME IInv, NEW i \in Ids, NEW n \in Nodes, NEW t \in Bulk, NEW s \in Sockets,
           BulkOp(i, n, t, s)
    PROVE  Sound'
<1>1. /\ Ask(i, n, t, s, "resolved", <<>>, up) /\ Publication(i)
      /\ UNCHANGED <<nodes, sockets, handlers, got, stayed>>
  BY DEF BulkOp
<1>2. \A j \in Ids : stayed'[j] \subseteq stayed[j] /\ stayed[j] \subseteq Sockets
  BY <1>1 DEF IInv, Typed
<1>3. \A x \in Sockets : Home[x] \in Nodes
  BY HomeType
<1>4. t \notin Packets /\ None \notin Packets
  BY NoneIsNoType DEF Bulk, Packets
<1>5. /\ MailInv'
      /\ \A j \in Ids : Shape(j)' /\ Counts(j)'
      /\ \A j \in Ids \ {i} : Keeps(j)
      /\ req[i] = Unused /\ req'[i].type = t
      /\ \A j \in Ids \ {i}, x \in Nodes : Request(j) \in Mail(x)' <=> Request(j) \in Mail(x)
  <2>1. t \notin Direct \cup {"broadcastAck"}
    BY DEF Direct, Bulk
  <2>2. Ask(i, n, t, s,
            IF t \in Direct \cup {"broadcastAck"} THEN "waiting" ELSE "resolved",
            IF t = "broadcastAck" THEN <<HeldBy(n)>> ELSE <<>>, up)
    BY <1>1, <2>1
  <2> QED
    BY <1>1, <2>2, AskPublished
<1>6. req[i].type = None
  BY <1>5 DEF Unused
<1>7. \A j \in Ids : Copies(j)'
  BY <1>1, <1>2, <1>3, <1>4, <1>5, <1>6, AllCopies
<1> QED
  BY <1>5, <1>7 DEF Sound

\* broadcast and broadcastWithAck
LEMMA SendPacketSound ==
    ASSUME IInv, NEW i \in Ids, NEW n \in Nodes, NEW t \in Packets,
           SendPacket(i, n, t, IF t = "broadcastAck" THEN "waiting" ELSE "resolved",
                      IF t = "broadcastAck" THEN <<HeldBy(n)>> ELSE <<>>)
    PROVE  Sound'
<1>1. /\ Ask(i, n, t, None, IF t = "broadcastAck" THEN "waiting" ELSE "resolved",
             IF t = "broadcastAck" THEN <<HeldBy(n)>> ELSE <<>>, up)
      /\ Publication(i) /\ Reach(i, Held(n))
      /\ stayed' = [stayed EXCEPT ![i] = room]
      /\ UNCHANGED <<nodes, sockets, handlers>>
  BY DEF SendPacket
<1>2. /\ MailInv'
      /\ \A j \in Ids : Shape(j)' /\ Counts(j)'
      /\ \A j \in Ids \ {i} : Keeps(j)
      /\ req[i] = Unused /\ req'[i].type = t /\ req'[i].node = n
      /\ \A x \in Nodes : Mail(x)' = Mail(x) \cup IF x \in up THEN {Request(i)} ELSE {}
      /\ \A j \in Ids \ {i}, x \in Nodes : Request(j) \in Mail(x)' <=> Request(j) \in Mail(x)
  <2>1. t \notin Direct
    BY DEF Direct, Packets
  <2>2. Ask(i, n, t, None,
            IF t \in Direct \cup {"broadcastAck"} THEN "waiting" ELSE "resolved",
            IF t = "broadcastAck" THEN <<HeldBy(n)>> ELSE <<>>, up)
    BY <1>1, <2>1
  <2>3. None \in Sockets \cup {None}
    OBVIOUS
  <2> QED
    BY <1>1, <2>2, <2>3, AskPublished
<1>3. /\ \A j \in Ids \ {i} : got'[j] = got[j]
      /\ \A s \in Sockets : got'[i][s] = IF s \in Held(n) THEN got[i][s] + 1 ELSE got[i][s]
  BY <1>1, ReachGot DEF IInv
<1>4. /\ stayed'[i] = room /\ room \subseteq Sockets
      /\ \A j \in Ids \ {i} : stayed'[j] = stayed[j] /\ stayed[j] \subseteq Sockets
  BY <1>1 DEF IInv, Typed
<1>5. \A x \in Sockets : Home[x] \in Nodes /\ (x \in room => Home[x] \in up)
  BY HomeType DEF IInv, Typed
<1>6. ASSUME NEW j \in Ids \ {i} PROVE Copies(j)'
  BY <1>2, <1>3, <1>4, <1>5, KeepsCopies DEF IInv
<1>7. Copies(i)'
  <2>1. \A s \in Sockets : got[i][s] = 0
    BY <1>2, NoneIsNoType DEF IInv, Copies, Unused
  <2>2. \A s \in Sockets : /\ got'[i][s] = IF s \in Held(n) THEN 1 ELSE 0
                           /\ s \in Held(n) <=> s \in room /\ Home[s] = n
    BY <1>3, <1>4, <2>1 DEF Held
  <2>3. \A s \in room : Request(i) \in Mail(Home[s])'
    BY <1>2, <1>4, <1>5
  <2>4. Request(i)' = Request(i)
    BY DEF Request
  <2> QED
    BY <1>2, <1>4, <2>2, <2>3, <2>4 DEF Copies
<1> QED
  BY <1>2, <1>6, <1>7 DEF Sound

\* The acknowledgement of an emit
LEMMA CallBackSound ==
    ASSUME IInv, NEW n \in Nodes, NEW i \in Ids, CallBack(n, i)
    PROVE  Sound'
<1> DEFINE r == Response(i, HeldBy(n))
<1>1. /\ <<i, n, FALSE>> \in handlers
      /\ handlers' = (handlers \ {<<i, n, FALSE>>}) \cup {<<i, n, TRUE>>}
      /\ inbox' = To(inbox, i, HeldBy(n))
      /\ UNCHANGED <<nodes, sockets, req, got, stayed>>
  BY DEF CallBack
<1>2. /\ req[i].node \in Nodes /\ Published(i) /\ n \in req[i].reach
      /\ r \notin Mail(req[i].node)
  BY <1>1, CallBackIsNew
<1>3. /\ r \in Messages /\ r.on = "response" /\ r.id = i /\ r.answer.node = n
  BY AnswerType, MessageTypes DEF IInv
<1>4. /\ Solo'
      /\ \A x \in Nodes : Mail(x)' = Mail(x)
            \cup IF x = req[i].node /\ x \in up THEN {r} ELSE {}
  BY <1>1, <1>2, InvSolo, CallBackMail
<1> HIDE DEF r
<1>5. \A j \in Ids : Request(j) # r
  BY <1>3, MessageTypes
<1>6. Request(i) \notin Mail(n)
  BY <1>1, Zenon DEF IInv, MailInv, HandlersInv
<1>7. Waiting(i) => n \notin HeardFrom(i)
  BY <1>1, Zenon DEF IInv, MailInv, NotAgain
<1>8. ASSUME NEW x \in Nodes, NEW m \in Mail(x), m.on = "response", m.id = i,
             m.answer.node = n
      PROVE  FALSE
  BY <1>1, <1>8 DEF IInv, MailInv, MailOf
<1>9. MailInv'
  <2>1. Request(i) \notin Mail(n)'
    BY <1>4, <1>5, <1>6
  <2>2. Gains(r, req[i].node)
    BY <1>3, <1>4, <1>8 DEF Gains
  <2>3. handlers' \subseteq handlers \cup {<<i, n, TRUE>>}
    BY <1>1
  <2>4. <<i, n, FALSE>> \notin handlers' /\ req' = req
    BY <1>1
  <2>5. <<i, n, TRUE>> \in handlers'
           => <<i, n, TRUE>> \in handlers \/ <<i, n, FALSE>> \in handlers
    BY <1>1
  <2>6. Silent(i, n)
    BY <1>8 DEF Silent
  <2> QED
    BY <1>2, <1>3, <1>4, <1>7, <2>1, <2>2, <2>3, <2>4, <2>5, <2>6, AnsweredMail
<1>10. \A j \in Ids : Keeps(j)
  BY <1>1, SameKeeps
<1>11. \A j \in Ids : Copies(j)'
  <2>1. \A s \in Sockets : Home[s] \in Nodes
    BY HomeType
  <2>2. \A j \in Ids : stayed'[j] \subseteq Sockets /\ stayed'[j] = stayed[j]
    BY <1>1 DEF IInv, Typed
  <2> QED
    BY <1>1, <1>4, <1>5, <1>10, <2>1, <2>2, AllCopies
<1>12. \A j \in Ids : req'[j].pc \in Pending => req[j].node \in up'
  BY <1>1 DEF IInv, Shape, nodes
<1> QED
  BY <1>1, <1>9, <1>10, <1>11, <1>12, AllKeep DEF Sound, nodes

------------------------------------------------------------------------------
\* The receivers keep the invariant.

\* A node takes its next message m and does not answer, or does.
LEMMA TakenSound ==
    ASSUME IInv, NEW n \in Nodes, NEW m \in Arrived(n), UNCHANGED <<nodes, req, handlers>>,
           \/ Drop(n)
           \/ /\ m.on = "request" /\ Answer(n, m.id)
              /\ Waiting(m.id) => n \notin HeardFrom(m.id)
    PROVE  /\ MailInv'
           /\ \A j \in Ids : Shape(j)' /\ Counts(j)' /\ Keeps(j)
           /\ \A j \in Ids, x \in Nodes : Request(j) \in Mail(x)' <=>
                 Request(j) \in Mail(x) /\ ~(x = n /\ m = Request(j))
<1>1. m \in Mail(n) /\ m \in Messages /\ Typed /\ Solo
  BY NextMessage, InvSolo DEF IInv
<1>2. \A j \in Ids : Keeps(j)
  BY SameKeeps
<1>3. \A j \in Ids : req'[j].pc \in Pending => req[j].node \in up'
  BY DEF IInv, Shape, nodes
<1>4. \A j \in Ids : Shape(j)' /\ Counts(j)'
  BY <1>2, <1>3, AllKeep DEF nodes
<1>5. CASE Drop(n)
  <2>1. /\ Solo'
        /\ \A x \in Nodes : Mail(x)' = Mail(x) \ IF x = n THEN {m} ELSE {}
    BY <1>1, <1>5, DroppedMail
  <2>2. MailInv'
    BY <1>2, <2>1, LessMail
  <2> QED
    BY <1>2, <1>4, <2>1, <2>2
<1>6. CASE m.on = "request" /\ Answer(n, m.id) /\ (Waiting(m.id) => n \notin HeardFrom(m.id))
  <2> DEFINE i == m.id
             r == Response(i, HeldBy(n))
  <2>1. /\ i \in Ids /\ m = Request(i) /\ Published(i)
        /\ req[i].node \in Nodes /\ n \in req[i].reach
        /\ r \notin Mail(req[i].node)
    BY <1>6, AnswerIsNew
  <2>2. /\ Solo'
        /\ \A x \in Nodes : Mail(x)' = (Mail(x) \ IF x = n THEN {m} ELSE {})
              \cup IF x = req[i].node /\ x \in up THEN {r} ELSE {}
    BY <1>1, <1>6, <2>1, AnswerMail
  <2>3. r \in Messages /\ r.on = "response" /\ r.id = i /\ r.answer.node = n
    BY <2>1, AnswerType, MessageTypes DEF IInv
  <2> HIDE DEF r, i
  <2>4. \A j \in Ids : Request(j) # r
    BY <2>3, MessageTypes
  <2>5. Silent(i, n)
    <3> SUFFICES ASSUME NEW x \in Nodes, NEW l \in Mail(x), l.on = "response",
                        l.id = i, l.answer.node = n
                 PROVE  FALSE
      BY DEF Silent
    <3>1. MailOf(x)
      BY DEF IInv, MailInv
    <3> QED
      BY <1>1, <2>1, <3>1 DEF MailOf
  <2>6. Gains(r, req[i].node)
    <3>1. \A x \in Nodes : r \notin Mail(x)
      BY <2>3, <2>5 DEF Silent
    <3> QED
      BY <2>2, <3>1 DEF Gains
  <2>7. <<i, n, FALSE>> \notin handlers
    BY <1>1, <2>1, Zenon DEF IInv, MailInv, HandlersInv
  <2>8. MailInv'
    <3>1. Request(i) \notin Mail(n)'
      BY <2>1, <2>2, <2>4
    <3>2. handlers' \subseteq handlers \cup {<<i, n, TRUE>>}
      OBVIOUS
    <3>3. <<i, n, TRUE>> \in handlers'
             => <<i, n, TRUE>> \in handlers \/ <<i, n, FALSE>> \in handlers
      OBVIOUS
    <3>4. <<i, n, FALSE>> \notin handlers' /\ req' = req
      BY <2>7
    <3>5. Waiting(i) => n \notin HeardFrom(i)
      BY <1>6 DEF i
    <3> QED
      BY <2>1, <2>2, <2>3, <2>5, <2>6, <3>1, <3>2, <3>3, <3>4, <3>5, AnsweredMail
  <2> QED
    BY <1>2, <1>4, <2>1, <2>2, <2>4, <2>8
<1> QED
  BY <1>5, <1>6

\* A request in a node's queue that the node has answered already is its own.
LEMMA NotHeardYet ==
    ASSUME IInv, NEW n \in Nodes, NEW i \in Ids, Request(i) \in Mail(n), Waiting(i),
           n # req[i].node \/ req[i].type \notin SelfHeard
    PROVE  n \notin HeardFrom(i)
<1>1. NotAgain(i)
  BY DEF IInv, MailInv
<1> QED
  BY <1>1, Zenon DEF NotAgain

\* No packet is delivered by a request that is none.
LEMMA TakenCopies ==
    ASSUME IInv, NEW n \in Nodes, NEW m \in Arrived(n), UNCHANGED got,
           m.on = "response" \/ req[m.id].type \notin Packets,
           \A j \in Ids : stayed'[j] \subseteq stayed[j] /\ req'[j].type = req[j].type,
           \A j \in Ids : Keeps(j) \/ req[j].type \notin Packets,
           \A j \in Ids, x \in Nodes : Request(j) \in Mail(x)' <=>
                 Request(j) \in Mail(x) /\ ~(x = n /\ m = Request(j))
    PROVE  \A j \in Ids : Copies(j)'
<1>1. \A j \in Ids : stayed'[j] \subseteq Sockets
  BY DEF IInv, Typed
<1>2. \A x \in Sockets : Home[x] \in Nodes
  BY HomeType
<1>3. \A j \in Ids : m = Request(j) => req[j].type \notin Packets
  BY MessageTypes
<1> QED
  BY <1>1, <1>2, <1>3, AllCopies

\* ... a node that answers does, ...
LEMMA OnCollectSound ==
    ASSUME IInv, NEW n \in Nodes, OnCollect(n)
    PROVE  Sound'
<1>1. PICK m \in Arrived(n) :
         /\ Asks(m, Collecting)
         /\ IF Own(n, m.id) THEN Drop(n) ELSE Answer(n, m.id)
         /\ UNCHANGED <<nodes, sockets, req, handlers, got, stayed>>
  BY DEF OnCollect
<1>2. /\ m.id \in Ids /\ m = Request(m.id) /\ m.on = "request"
      /\ req[m.id].type \in Collecting /\ m \in Mail(n)
  BY <1>1, AnswerIsNew, NextMessage DEF Asks, IInv
<1>3. ~Own(n, m.id) /\ Waiting(m.id) => n \notin HeardFrom(m.id)
  BY <1>2, NotHeardYet DEF Own
<1>4. /\ MailInv'
      /\ \A j \in Ids : Shape(j)' /\ Counts(j)' /\ Keeps(j)
      /\ \A j \in Ids, x \in Nodes : Request(j) \in Mail(x)' <=>
            Request(j) \in Mail(x) /\ ~(x = n /\ m = Request(j))
  BY <1>1, <1>2, <1>3, TakenSound
<1>5. req[m.id].type \notin Packets
  BY <1>2 DEF Collecting, Packets
<1>6. \A j \in Ids : Copies(j)'
  BY <1>1, <1>4, <1>5, TakenCopies
<1> QED
  BY <1>4, <1>6 DEF Sound

\* ... one that carries out a remote operation, ...
LEMMA OnRemoteSound ==
    ASSUME IInv, NEW n \in Nodes, OnRemote(n)
    PROVE  Sound'
<1>1. PICK m \in Arrived(n) :
         /\ Asks(m, Direct \cup Bulk)
         /\ Drop(n) \/ (req[m.id].type \in Direct /\ Answer(n, m.id))
         /\ Stays
         /\ UNCHANGED <<nodes, req, handlers, got>>
  BY DEF OnRemote
<1>2. /\ m.id \in Ids /\ m = Request(m.id) /\ m.on = "request"
      /\ req[m.id].type \in Direct \cup Bulk /\ m \in Mail(n)
  BY <1>1, AnswerIsNew, NextMessage DEF Asks, IInv
<1>3. req[m.id].type \notin Packets /\ req[m.id].type \notin SelfHeard
  BY <1>2 DEF Direct, Bulk, Packets, SelfHeard, Collecting
<1>4. Waiting(m.id) => n \notin HeardFrom(m.id)
  BY <1>2, <1>3, NotHeardYet
<1>5. /\ MailInv'
      /\ \A j \in Ids : Shape(j)' /\ Counts(j)' /\ Keeps(j)
      /\ \A j \in Ids, x \in Nodes : Request(j) \in Mail(x)' <=>
            Request(j) \in Mail(x) /\ ~(x = n /\ m = Request(j))
  BY <1>1, <1>2, <1>4, TakenSound
<1>6. \A j \in Ids : stayed'[j] \subseteq stayed[j]
  BY <1>1 DEF Stays
<1>7. \A j \in Ids : Copies(j)'
  BY <1>1, <1>3, <1>5, <1>6, TakenCopies
<1> QED
  BY <1>5, <1>7 DEF Sound

\* ... one that hears serverSideEmit, ...
LEMMA OnEmitSound ==
    ASSUME IInv, NEW n \in Nodes, OnEmit(n)
    PROVE  Sound'
<1>1. PICK m \in Arrived(n) :
         /\ Asks(m, {"emit"}) /\ Drop(n)
         /\ handlers' = IF req[m.id].node = n THEN handlers
                        ELSE handlers \cup {<<m.id, n, FALSE>>}
         /\ UNCHANGED <<nodes, sockets, req, got, stayed>>
  BY DEF OnEmit
<1>2. /\ m.id \in Ids /\ m = Request(m.id) /\ m.on = "request"
      /\ req[m.id].type = "emit" /\ m \in Mail(n)
  BY <1>1, AnswerIsNew, NextMessage DEF Asks, IInv
<1>3. \A j \in Ids : Keeps(j)
  BY <1>1, SameKeeps
<1>4. /\ Solo'
      /\ \A x \in Nodes : Mail(x)' = Mail(x) \ IF x = n THEN {m} ELSE {}
  BY <1>1, InvSolo, DroppedMail
<1>5. \A j \in Ids, x \in Nodes : Request(j) \in Mail(x)' <=>
            Request(j) \in Mail(x) /\ ~(x = n /\ m = Request(j))
  BY <1>4
<1>6. MailInv'
  <2>1. CASE req[m.id].node = n
    BY <1>1, <1>3, <1>4, <2>1, LessMail
  <2>2. CASE req[m.id].node # n
    <3> DEFINE i == m.id
    <3>1. /\ i \in Ids /\ Request(i) \in Mail(n) /\ req[i].type = "emit" /\ n # req[i].node
          /\ handlers' = handlers \cup {<<i, n, FALSE>>} /\ req' = req
          /\ \A x \in Nodes : Mail(x)' = Mail(x) \ IF x = n THEN {Request(i)} ELSE {}
      BY <1>1, <1>2, <1>4, <2>2
    <3> HIDE DEF i
    <3> QED
      BY <1>4, <3>1, HandledMail
  <2> QED
    BY <2>1, <2>2
<1>7. \A j \in Ids : req'[j].pc \in Pending => req[j].node \in up'
  BY <1>1 DEF IInv, Shape, nodes
<1>8. \A j \in Ids : Shape(j)' /\ Counts(j)'
  BY <1>1, <1>3, <1>7, AllKeep DEF nodes
<1>9. req[m.id].type \notin Packets
  BY <1>2 DEF Packets
<1>10. \A j \in Ids : Copies(j)'
  BY <1>1, <1>3, <1>5, <1>9, TakenCopies
<1> QED
  BY <1>6, <1>8, <1>10 DEF Sound

\* A packet is delivered, or was delivered when it was sent.
LEMMA PacketCopies ==
    ASSUME IInv, NEW n \in Nodes, NEW i \in Ids, NEW ss, Request(i) \in Mail(n),
           req[i].type \in Packets, Reach(i, ss),
           req[i].node # n => ss = Held(n),
           req[i].node = n => \/ ss = {}
                              \/ /\ ss = Held(n) /\ req[i].type = "broadcastAck"
                                 /\ req[i].pc = "expired",
           UNCHANGED <<req, stayed>>,
           \A j \in Ids, x \in Nodes : Request(j) \in Mail(x)' <=>
                 Request(j) \in Mail(x) /\ ~(x = n /\ j = i)
    PROVE  \A j \in Ids : Copies(j)'
<1> TAKE j \in Ids
<1>1. /\ \A k \in Ids \ {i} : got'[k] = got[k]
      /\ \A s \in Sockets : got'[i][s] = IF s \in ss THEN got[i][s] + 1 ELSE got[i][s]
      /\ \A s \in Sockets : got[i][s] \in Nat
  BY ReachGot DEF IInv, Typed
<1>2. /\ \A s \in Sockets : Home[s] \in Nodes
      /\ \A k \in Ids : stayed[k] \subseteq room
      /\ room \subseteq Sockets
  BY HomeType DEF IInv, Typed
<1>3. CASE j # i
  <2>1. Keeps(j) /\ Copies(j)
    BY SameKeeps DEF IInv
  <2>2. stayed'[j] \subseteq stayed[j] /\ got'[j] = got[j]
    BY <1>1, <1>3
  <2> QED
    BY <1>2, <1>3, <2>1, <2>2, KeepsCopies
<1>4. CASE j = i
  <2>1. Copies(i)
    BY DEF IInv
  <2>2. ASSUME NEW s \in Sockets
        PROVE  /\ got'[i][s] <= 2
               /\ got'[i][s] > 1 => /\ req[i].type = "broadcastAck"
                                    /\ req[i].pc = "expired"
                                    /\ Home[s] = req[i].node
               /\ Request(i) \in Mail(Home[s])' =>
                     got'[i][s] <= IF Home[s] = req[i].node THEN 1 ELSE 0
               /\ s \in stayed[i] /\ (Home[s] = req[i].node \/ Request(i) \notin Mail(Home[s])')
                     => got'[i][s] >= 1
    <3>1. /\ got[i][s] <= 2
          /\ got[i][s] > 1 => /\ req[i].type = "broadcastAck"
                              /\ req[i].pc = "expired"
                              /\ Home[s] = req[i].node
          /\ Request(i) \in Mail(Home[s]) =>
                got[i][s] <= IF Home[s] = req[i].node THEN 1 ELSE 0
          /\ s \in stayed[i] /\ (Home[s] = req[i].node \/ Request(i) \notin Mail(Home[s]))
                => got[i][s] >= 1
      BY <2>1 DEF Copies
    <3>2. Request(i) \in Mail(Home[s])' <=> Request(i) \in Mail(Home[s]) /\ Home[s] # n
      BY <1>2
    <3>3. CASE Home[s] # n
      <4>1. s \notin ss
        BY <3>3 DEF Held
      <4> QED
        BY <1>1, <3>1, <3>2, <3>3, <4>1
    <3>4. CASE Home[s] = n /\ req[i].node # n
      <4>1. s \in ss <=> s \in room
        BY <3>4 DEF Held
      <4>2. got[i][s] = 0
        BY <1>1, <3>1, <3>4
      <4> QED
        BY <1>1, <1>2, <3>1, <3>2, <3>4, <4>1, <4>2
    <3>5. CASE Home[s] = n /\ req[i].node = n
      <4>1. got[i][s] <= 1
        BY <3>1, <3>5
      <4>2. CASE ss = {}
        BY <1>1, <3>1, <3>2, <3>5, <4>1, <4>2
      <4>3. CASE req[i].type = "broadcastAck" /\ req[i].pc = "expired"
        BY <1>1, <3>1, <3>2, <3>5, <4>1, <4>3
      <4> QED
        BY <3>5, <4>2, <4>3
    <3> QED
      BY <3>3, <3>4, <3>5
  <2>3. Request(i)' = Request(i)
    BY DEF Request
  <2> QED
    BY <1>4, <2>2, <2>3 DEF Copies
<1> QED
  BY <1>3, <1>4

\* ... one that hears a broadcast, ...
LEMMA OnPacketSound ==
    ASSUME IInv, NEW n \in Nodes, OnPacket(n)
    PROVE  Sound'
<1>1. PICK m \in Arrived(n) :
         /\ Asks(m, {"broadcast"}) /\ Drop(n)
         /\ Reach(m.id, IF req[m.id].node = n THEN {} ELSE Held(n))
         /\ UNCHANGED <<nodes, sockets, req, handlers, stayed>>
  BY Zenon DEF OnPacket
<1> DEFINE i == m.id
<1>2. /\ i \in Ids /\ m = Request(i) /\ m.on = "request"
      /\ req[i].type = "broadcast" /\ m \in Mail(n)
  BY <1>1, AnswerIsNew, NextMessage DEF Asks, IInv
<1>3. /\ MailInv'
      /\ \A j \in Ids : Shape(j)' /\ Counts(j)' /\ Keeps(j)
      /\ \A j \in Ids, x \in Nodes : Request(j) \in Mail(x)' <=>
            Request(j) \in Mail(x) /\ ~(x = n /\ m = Request(j))
  BY <1>1, TakenSound
<1>4. \A j \in Ids : Copies(j)'
  <2>1. \A j \in Ids : m = Request(j) <=> j = i
    BY <1>2, MessageTypes
  <2>2. Reach(i, IF req[i].node = n THEN {} ELSE Held(n)) /\ UNCHANGED <<req, stayed>>
    BY <1>1
  <2>3. Request(i) \in Mail(n) /\ req[i].type \in Packets
    BY <1>2 DEF Packets
  <2>4. \A j \in Ids, x \in Nodes : Request(j) \in Mail(x)' <=>
            Request(j) \in Mail(x) /\ ~(x = n /\ j = i)
    BY <1>3, <2>1
  <2> HIDE DEF i
  <2> QED
    BY <1>2, <2>2, <2>3, <2>4, PacketCopies
<1> QED
  BY <1>3, <1>4 DEF Sound

\* ... or one with an acknowledgement.
LEMMA OnPacketWithAckSound ==
    ASSUME IInv, NEW n \in Nodes, OnPacketWithAck(n)
    PROVE  Sound'
<1>1. PICK m \in Arrived(n) :
         /\ Asks(m, {"broadcastAck"})
         /\ IF Own(n, m.id) THEN Drop(n) /\ UNCHANGED got
            ELSE Reach(m.id, Held(n)) /\ Answer(n, m.id)
         /\ UNCHANGED <<nodes, sockets, req, handlers, stayed>>
  BY DEF OnPacketWithAck
<1> DEFINE i == m.id
<1>2. /\ i \in Ids /\ m = Request(i) /\ m.on = "request" /\ Published(i)
      /\ req[i].type = "broadcastAck" /\ m \in Mail(n) /\ n \in up
  BY <1>1, AnswerIsNew, NextMessage DEF Asks, IInv
<1>3. ~Own(n, i) /\ Waiting(i) => n \notin HeardFrom(i)
  BY <1>2, NotHeardYet DEF Own
<1>4. /\ MailInv'
      /\ \A j \in Ids : Shape(j)' /\ Counts(j)' /\ Keeps(j)
      /\ \A j \in Ids, x \in Nodes : Request(j) \in Mail(x)' <=>
            Request(j) \in Mail(x) /\ ~(x = n /\ m = Request(j))
  BY <1>1, <1>2, <1>3, TakenSound
<1>5. \A j \in Ids : m = Request(j) <=> j = i
  BY <1>2, MessageTypes
<1>6. \A j \in Ids, x \in Nodes : Request(j) \in Mail(x)' <=>
          Request(j) \in Mail(x) /\ ~(x = n /\ j = i)
  BY <1>4, <1>5
<1>7. req[i].node = n /\ ~Own(n, i) => req[i].pc = "expired"
  <2>1. req[i].pc = "lost" => req[i].node \in over
    BY <1>2 DEF IInv, Shape
  <2>2. req[i].pc \in {"waiting", "expired", "lost"}
    BY <1>2 DEF IInv, Shape
  <2>3. n \notin over
    BY <1>2 DEF IInv, Typed
  <2> QED
    BY <2>1, <2>2, <2>3 DEF Own, Waiting
<1>8. Request(i) \in Mail(n) /\ req[i].type \in Packets
  BY <1>2 DEF Packets
<1>9. \E ss : /\ Reach(i, ss)
              /\ req[i].node # n => ss = Held(n)
              /\ req[i].node = n => \/ ss = {}
                                    \/ /\ ss = Held(n) /\ req[i].type = "broadcastAck"
                                       /\ req[i].pc = "expired"
  <2>1. CASE Own(n, i)
    <3>1. got' = got /\ req[i].node = n
      BY <1>1, <2>1 DEF Own
    <3>2. got = [got EXCEPT ![i] = [s \in Sockets |-> got[i][s]]]
      BY <1>2 DEF IInv, Typed
    <3>3. Reach(i, {})
      BY <3>1, <3>2 DEF Reach
    <3> QED
      BY <3>1, <3>3
  <2>2. CASE ~Own(n, i)
    <3>1. Reach(i, Held(n))
      BY <1>1, <2>2
    <3> QED
      BY <1>2, <1>7, <2>2, <3>1
  <2> QED
    BY <2>1, <2>2
<1>10. PICK ss : /\ Reach(i, ss)
                 /\ req[i].node # n => ss = Held(n)
                 /\ req[i].node = n => \/ ss = {}
                                       \/ /\ ss = Held(n) /\ req[i].type = "broadcastAck"
                                          /\ req[i].pc = "expired"
  BY <1>9
<1>11. UNCHANGED <<req, stayed>>
  BY <1>1
<1> HIDE DEF i
<1>12. \A j \in Ids : Copies(j)'
  BY <1>2, <1>6, <1>8, <1>10, <1>11, PacketCopies
<1> QED
  BY <1>4, <1>12 DEF Sound

\* onresponse, whatever the type of the request
LEMMA ResponseSound ==
    ASSUME IInv, NEW n \in Nodes, NEW m \in Arrived(n), m.on = "response",
           Waiting(m.id), Drop(n),
           UNCHANGED <<nodes, sockets, handlers, got, stayed>>,
           \/ req' = Counted(m.id, m.answer) /\ req[m.id].type \notin Direct
           \/ /\ req' = CountedLast(m.id, m.answer)
              /\ req[m.id].type # "broadcastAck"
              /\ req[m.id].type \in Collecting
                    => Len(req[m.id].heard) + 1 = Cardinality(req[m.id].subs)
    PROVE  Sound'
<1> DEFINE i == m.id
           a == m.answer
<1>1. /\ i \in Ids /\ a \in Answers /\ m = Response(i, a)
      /\ m \in Mail(n) /\ Published(i) /\ n = req[i].node
      /\ a.node \in req[i].reach /\ Typed /\ Solo
  BY HeardAnswer, InvSolo
<1>2. /\ \A j \in Ids \ {i} : req'[j] = req[j]
      /\ req'[i].type = req[i].type /\ req'[i].node = req[i].node
      /\ req'[i].sid = req[i].sid
      /\ req'[i].subs = req[i].subs /\ req'[i].reach = req[i].reach
      /\ req'[i].heard = Append(req[i].heard, a)
      /\ \/ req'[i].pc = "waiting" /\ req[i].type \notin Direct
         \/ /\ req'[i].pc = "resolved" /\ req[i].type # "broadcastAck"
            /\ req[i].type \in Collecting
                  => Len(req[i].heard) + 1 = Cardinality(req[i].subs)
  BY <1>1, CountedFields, CountedLastFields DEF Waiting
<1>3. /\ Solo'
      /\ \A x \in Nodes : Mail(x)' = Mail(x) \ IF x = n THEN {m} ELSE {}
  BY <1>1, DroppedMail
<1>4. Waiting(i)
  OBVIOUS
<1>5. m.on = "response" /\ m.id = i /\ m.answer = a
  OBVIOUS
<1> HIDE DEF i, a
<1>6. Shape(i) /\ Counts(i) /\ Copies(i) /\ NotAgain(i)
  BY <1>1 DEF IInv, MailInv
<1>7. a.node \notin HeardFrom(i)
  BY <1>1, <1>4, <1>5, <1>6 DEF NotAgain
<1>8. Shape(i)'
  <2>1. req[i].type \notin Bulk \cup {"broadcast"}
    BY <1>4, <1>6 DEF Shape, Waiting
  <2>2. req[i].pc = "waiting"
    BY <1>4 DEF Waiting
  <2> QED
    BY <1>2, <1>6, <2>1, <2>2 DEF Shape, nodes, Pending
<1>9. Counts(i)'
  BY <1>1, <1>2, <1>4, <1>6, <1>7, CountsHeard
<1>10. \A j \in Ids \ {i} : Shape(j)' /\ Counts(j)' /\ Keeps(j)
  BY <1>1, <1>2, OthersKeep
<1>11. HeardFrom(i)' = HeardFrom(i) \cup {a.node}
  BY <1>1, <1>2, HeardGrows
<1>12. MailInv'
  <2>1. req'[i].pc \in {"waiting", "resolved"}
    BY <1>2
  <2> QED
    BY <1>1, <1>2, <1>3, <1>4, <1>5, <1>11, <2>1, HeardMail
<1>13. \A j \in Ids, x \in Nodes : Request(j) \in Mail(x)' <=> Request(j) \in Mail(x)
  BY <1>3, <1>5, MessageTypes
<1>14. \A j \in Ids : Copies(j)'
  <2> TAKE j \in Ids
  <2>1. /\ \A s \in Sockets : Home[s] \in Nodes
        /\ stayed[j] \subseteq Sockets /\ stayed' = stayed /\ got' = got
    BY HomeType DEF IInv, Typed
  <2>2. CASE j # i
    BY <1>10, <1>13, <2>1, <2>2, KeepsCopies DEF IInv
  <2>3. CASE j = i
    <3>1. req[i].type \notin Packets => Copies(i)'
      BY <1>1, <1>2, <1>6, <2>1, <2>3, NoCopies
    <3>2. req[i].type \in Packets => req[i].type = "broadcastAck"
      BY <1>4, <1>6 DEF Shape, Packets, Waiting
    <3>3. ASSUME req[i].type = "broadcastAck" PROVE Copies(i)'
      <4>1. req'[i].pc = "waiting" /\ req[i].pc = "waiting"
        BY <1>2, <1>4, <3>3 DEF Waiting
      <4>2. Request(i)' = Request(i)
        BY DEF Request
      <4> QED
        BY <1>1, <1>2, <1>6, <1>13, <2>1, <4>1, <4>2 DEF Copies
    <3> QED
      BY <2>3, <3>1, <3>2, <3>3
  <2> QED
    BY <2>2, <2>3
<1> QED
  BY <1>8, <1>9, <1>10, <1>12, <1>14 DEF Sound

------------------------------------------------------------------------------
\* Sockets and nodes keep the invariant.

\* No queue, no request and no packet is touched.
LEMMA QuietSound ==
    ASSUME IInv, UNCHANGED <<over, inbox, req, handlers, got>>, up \subseteq up',
           \A j \in Ids : stayed'[j] \subseteq stayed[j]
    PROVE  Sound'
<1>1. \A j \in Ids : Keeps(j)
  BY SameKeeps
<1>2. \A j \in Ids : req'[j].pc \in Pending => req[j].node \in up'
  BY DEF IInv, Shape
<1>3. Solo' /\ \A x \in Nodes : Mail(x)' = Mail(x)
  BY SameMail, InvSolo
<1>4. MailInv'
  BY <1>1, <1>3, LessMail
<1>5. \A j \in Ids : Shape(j)' /\ Counts(j)'
  BY <1>1, <1>2, AllKeep
<1>6. \A j \in Ids : Copies(j)'
  <2>1. \A s \in Sockets : Home[s] \in Nodes
    BY HomeType
  <2>2. \A j \in Ids : stayed'[j] \subseteq Sockets
    BY DEF IInv, Typed
  <2> QED
    BY <1>1, <1>3, <2>1, <2>2, AllCopies
<1> QED
  BY <1>4, <1>5, <1>6 DEF Sound

\* A node's end keeps the invariant.
LEMMA DieSound ==
    ASSUME IInv, NEW n \in Nodes, Die(n)
    PROVE  Sound'
<1>1. /\ n \in up /\ up' = up \ {n} /\ over' = over \cup {n}
      /\ room' = room \ {s \in Sockets : Home[s] = n} /\ Stays
      /\ inbox' = [inbox EXCEPT ![n] = <<>>]
      /\ handlers' \subseteq handlers /\ got' = got
  BY DEF Die
<1>2. \A j \in Ids : Keeps(j)
  <2> TAKE j \in Ids
  <2>1. CASE req[j].node = n /\ req[j].pc \in Pending
    BY <1>1, <2>1, DieFields DEF IInv, Keeps
  <2>2. CASE ~(req[j].node = n /\ req[j].pc \in Pending)
    BY <2>2, DieFields DEF IInv, Keeps
  <2> QED
    BY <2>1, <2>2
<1>3. \A j \in Ids : req'[j].pc \in Pending => req[j].node \in up'
  <2> SUFFICES ASSUME NEW j \in Ids, req'[j].pc \in Pending
               PROVE  req[j].node \in up'
    OBVIOUS
  <2>1. ~(req[j].node = n /\ req[j].pc \in Pending) /\ req'[j].pc = req[j].pc
    BY DieFields DEF IInv, Pending
  <2> QED
    BY <1>1, <2>1 DEF IInv, Shape
<1>4. /\ Solo'
      /\ \A x \in Nodes : Mail(x)' = IF x = n THEN {} ELSE Mail(x)
  <2>1. inbox \in [Nodes -> Seq(Messages)] /\ Solo
    BY InvSolo DEF IInv, Typed
  <2>2. \A x \in Nodes : inbox'[x] = IF x = n THEN <<>> ELSE inbox[x]
    BY <1>1, <2>1
  <2>3. Range(<<>>) = {} /\ IsInjective(<<>>)
    BY DEF Range, IsInjective
  <2> QED
    BY <2>1, <2>2, <2>3 DEF Solo, Mail
<1>5. MailInv'
  BY <1>1, <1>2, <1>4, LessMail
<1>6. \A j \in Ids : Copies(j)'
  <2>1. \A s \in Sockets : Home[s] \in Nodes
    BY HomeType
  <2>2. \A j \in Ids : stayed'[j] = stayed[j] \cap room' /\ stayed[j] \subseteq Sockets
    BY <1>1 DEF Stays, IInv, Typed
  <2>3. \A j \in Ids : \A s \in stayed'[j] : Home[s] # n
    BY <1>1, <2>2
  <2>4. \A j \in Ids : /\ stayed'[j] \subseteq stayed[j]
                       /\ \A s \in stayed'[j] : Home[s] \in Nodes /\
                             (Request(j) \in Mail(Home[s]) => Request(j) \in Mail(Home[s])')
    BY <1>4, <2>1, <2>2, <2>3
  <2>5. \A j \in Ids, x \in Nodes : Request(j) \in Mail(x)' => Request(j) \in Mail(x)
    BY <1>4
  <2> QED
    BY <1>1, <1>2, <2>4, <2>5, AllCopies
<1> QED
  BY <1>1, <1>2, <1>3, <1>5, <1>6, AllKeep DEF Sound

------------------------------------------------------------------------------
\* The invariant.

\* The invariant holds at first.
LEMMA InitInv ==
    ASSUME Init
    PROVE  IInv
<1>1. Typed
  <2>1. Unused \in Requests
    BY EmptySeqType DEF Unused, Requests, Types
  <2>2. \A s \in Sockets : Home[s] \in Nodes
    BY HomeType
  <2>3. /\ socket \in [Sockets -> {"new", "open", "closed"}]
        /\ \A s \in Sockets : Open(s) => Home[s] \in up
    BY <2>2 DEF Init, Open
  <2>4. room \subseteq Sockets /\ \A s \in room : Open(s)
    BY DEF Init, Open
  <2>5. /\ inbox \in [Nodes -> Seq(Messages)]
        /\ \A n \in Nodes \ up : inbox[n] = <<>>
    BY DEF Init
  <2>6. req \in [Ids -> Requests]
    BY <2>1 DEF Init
  <2>7. handlers \subseteq Ids \X Nodes \X BOOLEAN
    BY DEF Init
  <2>8. got \in [Ids -> [Sockets -> Nat]] /\ stayed \in [Ids -> SUBSET room]
    BY DEF Init
  <2>9. up \subseteq Nodes /\ over \subseteq Mortal \ up
    BY DEF Init
  <2> QED
    BY <2>3, <2>4, <2>5, <2>6, <2>7, <2>8, <2>9 DEF Typed
<1>2. \A i \in Ids : req[i] = Unused
  BY DEF Init
<1>3. ASSUME NEW i \in Ids PROVE Shape(i)
  <2>1. req[i] = Unused /\ req[i].type = None /\ req[i].pc = "unused"
    <3>1. Unused.type = None /\ Unused.pc = "unused"
      BY DEF Unused
    <3> QED
      BY <1>2, <3>1
  <2>2. None \notin Bulk \cup Packets \cup Direct \cup Collecting
    BY NoneIsNoType
  <2> QED
    BY <2>1, <2>2 DEF Shape, Pending, Packets
<1>4. ASSUME NEW i \in Ids PROVE Counts(i)
  <2>1. HeardFrom(i) = {} /\ Heard(i) = {} /\ Len(req[i].heard) = 0
        /\ DOMAIN req[i].heard = {}
    BY <1>2 DEF HeardFrom, Heard, Unused
  <2>2. IsFiniteSet({}) /\ Cardinality({}) = 0
    BY FS_EmptySet
  <2> QED
    BY <1>2, <2>1, <2>2 DEF Counts, Waiting, Unused
<1>5. \A n \in Nodes : inbox[n] = <<>> /\ Mail(n) = {}
  BY DEF Init, Mail, Range
<1>6. ASSUME NEW i \in Ids PROVE Copies(i)
  <2>1. \A s \in Sockets : got[i][s] = 0 /\ s \notin stayed[i] /\ Mail(Home[s]) = {}
    BY <1>5, HomeType DEF Init
  <2> QED
    BY <2>1 DEF Copies
<1>7. MailInv
  <2>1. \A n \in Nodes : MailOf(n)
    <3>1. IsInjective(<<>>)
      BY DEF IsInjective
    <3> QED
      BY <1>5, <3>1 DEF MailOf
  <2>2. handlers = {}
    BY DEF Init
  <2>3. \A i \in Ids : ~Waiting(i)
    BY <1>2 DEF Waiting, Unused
  <2> QED
    BY <2>1, <2>2, <2>3 DEF MailInv, HandlersInv, NotAgain
<1> QED
  BY <1>1, <1>3, <1>4, <1>6, <1>7 DEF IInv

\* The steps of the requesting node keep it, ...
LEMMA RequesterSound ==
    ASSUME IInv, NEW i \in Ids, Requester(i)
    PROVE  Sound'
<1>1. ASSUME NEW n \in Nodes, NEW t \in Collecting, Collect(i, n, t)
      PROVE  Sound'
  <2>1. t # "emit"
    BY DEF Collecting
  <2>2. /\ Ask(i, n, t, None, "counting", IF t = "emit" THEN <<>> ELSE <<HeldBy(n)>>, {})
        /\ UNCHANGED <<nodes, sockets, inbox, handlers, got, stayed>>
    BY <1>1, <2>1 DEF Collect
  <2> QED
    BY <2>2, AskSound
<1>2. ASSUME NEW n \in Nodes, EmitWithAck(i, n)
      PROVE  Sound'
  <2>1. /\ Ask(i, n, "emit", None, "counting",
               IF "emit" = "emit" THEN <<>> ELSE <<HeldBy(n)>>, {})
        /\ UNCHANGED <<nodes, sockets, inbox, handlers, got, stayed>>
    BY <1>2 DEF EmitWithAck
  <2>2. "emit" \in Collecting \cup {"emit"}
    OBVIOUS
  <2> QED
    BY <2>1, <2>2, AskSound
<1>3. ASSUME NEW n \in Nodes, Broadcast(i, n) PROVE Sound'
  <2>1. SendPacket(i, n, "broadcast",
            IF "broadcast" = "broadcastAck" THEN "waiting" ELSE "resolved",
            IF "broadcast" = "broadcastAck" THEN <<HeldBy(n)>> ELSE <<>>)
    BY <1>3 DEF Broadcast
  <2>2. "broadcast" \in Packets
    BY DEF Packets
  <2> QED
    BY <2>1, <2>2, SendPacketSound
<1>4. ASSUME NEW n \in Nodes, BroadcastWithAck(i, n) PROVE Sound'
  <2>1. SendPacket(i, n, "broadcastAck",
            IF "broadcastAck" = "broadcastAck" THEN "waiting" ELSE "resolved",
            IF "broadcastAck" = "broadcastAck" THEN <<HeldBy(n)>> ELSE <<>>)
    BY <1>4 DEF BroadcastWithAck
  <2>2. "broadcastAck" \in Packets
    BY DEF Packets
  <2> QED
    BY <2>1, <2>2, SendPacketSound
<1>5. \A n \in Nodes : AskSockets(i, n) \/ AskRooms(i, n) \/ FetchSockets(i, n) => Sound'
  BY <1>1 DEF AskSockets, AskRooms, FetchSockets, Collecting
<1>6. \A n \in Nodes, s \in Sockets :
         RemoteJoin(i, n, s) \/ RemoteLeave(i, n, s) \/ RemoteDisconnect(i, n, s) => Sound'
  BY RemoteSound DEF RemoteJoin, RemoteLeave, RemoteDisconnect, Direct
<1>7. \A n \in Nodes, s \in Sockets :
         AddSockets(i, n, s) \/ DelSockets(i, n, s) \/ DisconnectSockets(i, n, s) => Sound'
  BY BulkSound DEF AddSockets, DelSockets, DisconnectSockets, Bulk
<1>8. Count(i) \/ Publish(i) \/ Timeout(i) => Sound'
  BY CountSound, PublishSound, TimeoutSound
<1>9. \A n \in Nodes : CallBack(n, i) => Sound'
  BY CallBackSound
<1> QED
  BY <1>2, <1>3, <1>4, <1>5, <1>6, <1>7, <1>8, <1>9 DEF Requester

\* ... those of the nodes that hear do, ...
LEMMA ReceiveSound ==
    ASSUME IInv, NEW n \in Nodes, Receive(n)
    PROVE  Sound'
<1>1. ASSUME OnAnswer(n) PROVE Sound'
  <2>1. PICK m \in Arrived(n) :
           /\ Tells(m, Collecting) /\ Drop(n)
           /\ req' = IF Len(req[m.id].heard) + 1 = Cardinality(req[m.id].subs)
                     THEN CountedLast(m.id, m.answer) ELSE Counted(m.id, m.answer)
           /\ UNCHANGED <<nodes, sockets, handlers, got, stayed>>
    BY <1>1, Zenon DEF OnAnswer
  <2>2. req[m.id].type \notin Direct /\ req[m.id].type # "broadcastAck"
    BY <2>1 DEF Tells, Collecting, Direct
  <2>3. m.on = "response" /\ Waiting(m.id)
    BY <2>1 DEF Tells
  <2>4. CASE Len(req[m.id].heard) + 1 = Cardinality(req[m.id].subs)
    BY <2>1, <2>2, <2>3, <2>4, ResponseSound
  <2>5. CASE ~(Len(req[m.id].heard) + 1 = Cardinality(req[m.id].subs))
    BY <2>1, <2>2, <2>3, <2>5, ResponseSound
  <2> QED
    BY <2>4, <2>5
<1>2. ASSUME OnRemoteDone(n) PROVE Sound'
  <2>1. PICK m \in Arrived(n) :
           /\ Tells(m, Direct) /\ Drop(n)
           /\ req' = CountedLast(m.id, m.answer)
           /\ UNCHANGED <<nodes, sockets, handlers, got, stayed>>
    BY <1>2 DEF OnRemoteDone
  <2>2. req[m.id].type \notin Collecting /\ req[m.id].type # "broadcastAck"
    BY <2>1 DEF Tells, Collecting, Direct
  <2> QED
    BY <2>1, <2>2, ResponseSound DEF Tells
<1>3. ASSUME OnEmitAnswer(n) PROVE Sound'
  <2>1. PICK m \in Arrived(n) :
           /\ Tells(m, {"emit"}) /\ Drop(n)
           /\ \/ req' = CountedLast(m.id, m.answer)
              \/ req' = Counted(m.id, m.answer)
           /\ UNCHANGED <<nodes, sockets, handlers, got, stayed>>
    BY <1>3 DEF OnEmitAnswer
  <2>2. /\ req[m.id].type \notin Collecting /\ req[m.id].type \notin Direct
        /\ req[m.id].type # "broadcastAck"
    BY <2>1 DEF Tells, Collecting, Direct
  <2> QED
    BY <2>1, <2>2, ResponseSound DEF Tells
<1>4. ASSUME OnClientCount(n) PROVE Sound'
  <2>1. PICK m \in Arrived(n) :
           /\ Tells(m, {"broadcastAck"}) /\ Drop(n)
           /\ req' = Counted(m.id, m.answer)
           /\ UNCHANGED <<nodes, sockets, handlers, got, stayed>>
    BY <1>4 DEF OnClientCount
  <2>2. req[m.id].type \notin Direct
    BY <2>1 DEF Tells, Direct
  <2> QED
    BY <2>1, <2>2, ResponseSound DEF Tells
<1>5. ASSUME OnLateAnswer(n) PROVE Sound'
  <2>1. PICK m \in Arrived(n) :
           /\ m.on = "response" /\ Drop(n)
           /\ UNCHANGED <<nodes, sockets, req, handlers, got, stayed>>
    BY <1>5 DEF OnLateAnswer
  <2>2. /\ MailInv'
        /\ \A j \in Ids : Shape(j)' /\ Counts(j)' /\ Keeps(j)
        /\ \A j \in Ids, x \in Nodes : Request(j) \in Mail(x)' <=>
              Request(j) \in Mail(x) /\ ~(x = n /\ m = Request(j))
    BY <2>1, TakenSound
  <2>3. \A j \in Ids : Copies(j)'
    BY <2>1, <2>2, TakenCopies
  <2> QED
    BY <2>2, <2>3 DEF Sound
<1> QED
  BY <1>1, <1>2, <1>3, <1>4, <1>5, OnCollectSound, OnRemoteSound, OnEmitSound,
     OnPacketSound, OnPacketWithAckSound DEF Receive

\* ... and so every step.
LEMMA SoundStep ==
    ASSUME IInv, [Next]_vars
    PROVE  Sound'
<1>1. ASSUME NEW s \in Sockets, Connect(s) \/ Join(s) \/ Leave(s) PROVE Sound'
  <2>1. /\ UNCHANGED <<over, inbox, req, handlers, got>> /\ up' = up
        /\ stayed' = stayed \/ Stays
    BY <1>1 DEF Connect, Join, Leave, nodes
  <2>2. \A j \in Ids : stayed'[j] \subseteq stayed[j]
    BY <2>1 DEF Stays
  <2> QED
    BY <2>1, <2>2, QuietSound
<1>2. ASSUME NEW n \in Nodes, Start(n) PROVE Sound'
  <2>1. /\ UNCHANGED <<over, inbox, req, handlers, got, stayed>> /\ up \subseteq up'
    BY <1>2 DEF Start
  <2> QED
    BY <2>1, QuietSound
<1>3. CASE UNCHANGED vars
  BY <1>3, QuietSound DEF vars
<1> QED
  BY <1>1, <1>2, <1>3, RequesterSound, ReceiveSound, DieSound DEF Next

\* Queues, handlers, counts and copies fit together in every reachable state.
THEOREM Invariant == Spec => []IInv
<1>1. Init => IInv
  BY InitInv
<1>2. IInv /\ [Next]_vars => IInv'
  BY TypedStep, SoundStep DEF IInv, Sound
<1> QED
  BY <1>1, <1>2, PTL DEF Spec

\* The variables stay in their types, sockets are open only on nodes that are
\* up, and no node that is down has anything to receive.
THEOREM TypeCorrect == Spec => []TypeOK
<1>1. ASSUME IInv PROVE TypeOK
  <2>1. /\ up \subseteq Nodes /\ over \subseteq Mortal \ up
        /\ socket \in [Sockets -> {"new", "open", "closed"}]
        /\ \A s \in Sockets : /\ s \in room => Open(s)
                              /\ Open(s) => Home[s] \in up
        /\ handlers \subseteq Ids \X Nodes \X BOOLEAN
        /\ \A n \in Nodes \ up : inbox[n] = <<>>
        /\ \A i \in Ids : stayed[i] \subseteq room
    BY <1>1 DEF IInv, Typed
  <2>2. ASSUME NEW i \in Ids
        PROVE  /\ req[i].type \in {None, "emit"} \cup Collecting \cup Direct \cup Bulk \cup Packets
               /\ req[i].node \in Nodes \cup {None} /\ req[i].sid \in Sockets \cup {None}
               /\ req[i].pc \in {"unused", "resolved", "expired", "lost"} \cup Pending
               /\ req[i].subs \subseteq Nodes /\ req[i].reach \subseteq Nodes
               /\ req[i].heard \in Seq(Answers)
    BY <1>1 DEF IInv, Typed, Requests, Types
  <2>3. ASSUME NEW i \in Ids PROVE got[i] \in [Sockets -> 0..2]
    <3>1. got[i] \in [Sockets -> Nat] /\ \A s \in Sockets : got[i][s] <= 2
      BY <1>1 DEF IInv, Typed, Copies
    <3>2. \A s \in Sockets : got[i][s] \in 0..2
      BY <3>1
    <3> QED
      BY <3>1, <3>2
  <2> QED
    BY <2>1, <2>2, <2>3 DEF TypeOK
<1> QED
  BY <1>1, Invariant, PTL

\* No node is counted twice in a request, whatever calls back twice and
\* however late, and the requester's own part not by a message.
THEOREM CountedOnce == Spec => []HeardOnce
<1>1. IInv => HeardOnce
  BY DEF IInv, Counts, HeardOnce
<1> QED
  BY <1>1, Invariant, PTL

\* A collecting request succeeds only with the answers of just the nodes that
\* were counted, if none subscribed between the count and the publication.
THEOREM Complete == Spec => []CompleteUnlessJoined
<1>1. IInv => CompleteUnlessJoined
  BY DEF IInv, Counts, CompleteUnlessJoined
<1> QED
  BY <1>1, Invariant, PTL

\* A packet reaches a socket twice only at its sender, and only if it asked
\* for acknowledgements and has been forgotten.
THEOREM DeliveredOnce == Spec => []PacketOnce
<1>1. IInv => PacketOnce
  BY DEF IInv, Copies, PacketOnce
<1> QED
  BY <1>1, Invariant, PTL

\* Whoever has been in the room since a packet was published has it as soon
\* as the packet is not on its way to his node any more.
THEOREM Delivered == Spec => []NothingMissed
<1>1. ASSUME IInv, NEW i \in Ids, NEW s \in stayed[i], ~InTransit(i, Home[s])
      PROVE  got[i][s] >= 1
  <2>1. s \in Sockets
    BY <1>1 DEF IInv, Typed
  <2>2. Request(i) \notin Mail(Home[s])
    BY <1>1 DEF InTransit, Mail, Range
  <2> QED
    BY <1>1, <2>1, <2>2 DEF IInv, Copies
<1>2. IInv => NothingMissed
  BY <1>1 DEF NothingMissed
<1> QED
  BY <1>2, Invariant, PTL

------------------------------------------------------------------------------
\* What the requester of a collecting request does implements Gather.

\* The answers to i among the messages S.
Way(S, i) == {m.answer : m \in {x \in S : x.on = "response" /\ x.id = i}}

NeedOf(i) == IF Gathered(i) THEN Cardinality(req[i].subs) ELSE 0

\* The answers on their way, by the queue and by the mail.
LEMMA WayOf ==
    ASSUME NEW q, NEW i
    PROVE  {q[k].answer : k \in {l \in DOMAIN q : q[l].on = "response" /\ q[l].id = i}}
           = Way(Range(q), i)
<1>1. ASSUME NEW k \in DOMAIN q, q[k].on = "response", q[k].id = i
      PROVE  q[k].answer \in Way(Range(q), i)
  BY <1>1 DEF Way, Range
<1>2. ASSUME NEW m \in Range(q), m.on = "response", m.id = i
      PROVE  m.answer \in {q[k].answer :
                 k \in {l \in DOMAIN q : q[l].on = "response" /\ q[l].id = i}}
  <2>1. PICK k \in DOMAIN q : m = q[k]
    BY DEF Range
  <2> QED
    BY <1>2, <2>1
<1> QED
  BY <1>1, <1>2 DEF Way

\* What is on its way to a request is in its node's mail.
LEMMA OnItsWayIs ==
    ASSUME NEW i \in Ids, NEW n \in Nodes
    PROVE  /\ req[i].node = n => OnItsWay(i) = Way(Mail(n), i)
           /\ req'[i].node = n => OnItsWay(i)' = Way(Mail(n)', i)
<1>1. OnItsWay(i) = Way(Range(inbox[req[i].node]), i)
  BY WayOf DEF OnItsWay, Answered
<1>2. OnItsWay(i)' = Way(Range(inbox'[req'[i].node]), i)
  BY WayOf DEF OnItsWay, Answered
<1> QED
  BY <1>1, <1>2 DEF Mail

\* Nothing of the request j that Gather sees has changed.
AbsSame(j) == /\ StageOf(j)' = StageOf(j)
              /\ ReadsOf(j)' = ReadsOf(j)
              /\ NeedOf(j)' = NeedOf(j)

\* Where the abstract gathering is, before a step ...
LEMMA StageIs ==
    ASSUME IInv, NEW i \in Ids
    PROVE  /\ ~Gathered(i) => StageOf(i) = "idle"
           /\ Gathered(i) /\ req[i].pc = "counting" => StageOf(i) = "open"
           /\ Gathered(i) /\ req[i].pc \in {"counted", "waiting"} => StageOf(i) = "needing"
           /\ Gathered(i) /\ req[i].pc = "resolved" => StageOf(i) = "done"
           /\ Gathered(i) /\ req[i].pc \in {"expired", "lost"} => StageOf(i) = "failed"
           /\ Gathered(i) => req[i].pc # "unused" /\ req[i].node \in Nodes
           /\ req[i].pc \in {"unused", "resolved", "expired", "lost"} \cup Pending
           /\ StageOf(i) \in {"idle", "failed"} => ReadsOf(i) = {}
           /\ StageOf(i) = "done" => ReadsOf(i) = Heard(i)
           /\ StageOf(i) \in {"open", "needing"} => ReadsOf(i) = Heard(i) \cup OnItsWay(i)
<1>1. Gathered(i) => req[i].pc # "unused" /\ req[i].node \in Nodes
  BY NoneIsNoType DEF IInv, Shape, Gathered, Unused
<1>2. req[i].pc \in {"unused", "resolved", "expired", "lost"} \cup Pending
  BY DEF IInv, Typed, Requests
<1>3. /\ StageOf(i) \in {"idle", "failed"} => ReadsOf(i) = {}
      /\ StageOf(i) = "done" => ReadsOf(i) = Heard(i)
      /\ StageOf(i) \in {"open", "needing"} => ReadsOf(i) = Heard(i) \cup OnItsWay(i)
  BY DEF ReadsOf
<1>4. /\ ~Gathered(i) => StageOf(i) = "idle"
      /\ Gathered(i) /\ req[i].pc = "counting" => StageOf(i) = "open"
      /\ Gathered(i) /\ req[i].pc \in {"counted", "waiting"} => StageOf(i) = "needing"
      /\ Gathered(i) /\ req[i].pc = "resolved" => StageOf(i) = "done"
      /\ Gathered(i) /\ req[i].pc \in {"expired", "lost"} => StageOf(i) = "failed"
  BY DEF StageOf
<1> QED
  BY <1>1, <1>2, <1>3, <1>4

\* ... and after it.
LEMMA StageIsThen ==
    ASSUME IInv', NEW i \in Ids
    PROVE  /\ ~Gathered(i)' => StageOf(i)' = "idle"
           /\ Gathered(i)' /\ req'[i].pc = "counting" => StageOf(i)' = "open"
           /\ Gathered(i)' /\ req'[i].pc \in {"counted", "waiting"} => StageOf(i)' = "needing"
           /\ Gathered(i)' /\ req'[i].pc = "resolved" => StageOf(i)' = "done"
           /\ Gathered(i)' /\ req'[i].pc \in {"expired", "lost"} => StageOf(i)' = "failed"
           /\ StageOf(i)' \in {"idle", "failed"} => ReadsOf(i)' = {}
           /\ StageOf(i)' = "done" => ReadsOf(i)' = Heard(i)'
           /\ StageOf(i)' \in {"open", "needing"} => ReadsOf(i)' = Heard(i)' \cup OnItsWay(i)'
<1>1. /\ StageOf(i)' \in {"idle", "failed"} => ReadsOf(i)' = {}
      /\ StageOf(i)' = "done" => ReadsOf(i)' = Heard(i)'
      /\ StageOf(i)' \in {"open", "needing"} => ReadsOf(i)' = Heard(i)' \cup OnItsWay(i)'
  BY DEF ReadsOf
<1>2. /\ ~Gathered(i)' => StageOf(i)' = "idle"
      /\ Gathered(i)' /\ req'[i].pc = "counting" => StageOf(i)' = "open"
      /\ Gathered(i)' /\ req'[i].pc \in {"counted", "waiting"} => StageOf(i)' = "needing"
      /\ Gathered(i)' /\ req'[i].pc = "resolved" => StageOf(i)' = "done"
      /\ Gathered(i)' /\ req'[i].pc \in {"expired", "lost"} => StageOf(i)' = "failed"
  BY DEF StageOf
<1> QED
  BY <1>1, <1>2

\* A request is seen the same if it has not changed nor its answers on their way.
LEMMA SameAbs ==
    ASSUME IInv, NEW j \in Ids, req'[j] = req[j],
           \A n \in Nodes : Gathered(j) /\ req[j].node = n
               => Way(Mail(n)', j) = Way(Mail(n), j)
    PROVE  AbsSame(j)
<1>1. Heard(j)' = Heard(j)
  BY HeardSame
<1>2. Gathered(j)' <=> Gathered(j)
  BY DEF Gathered
<1>3. CASE ~Gathered(j)
  BY <1>2, <1>3 DEF AbsSame, StageOf, ReadsOf, NeedOf
<1>4. CASE Gathered(j)
  <2>1. OnItsWay(j)' = OnItsWay(j)
    BY <1>4, StageIs, OnItsWayIs
  <2>2. StageOf(j)' = StageOf(j) /\ NeedOf(j)' = NeedOf(j)
    BY <1>2, <1>4 DEF StageOf, NeedOf
  <2> QED
    BY <1>1, <2>1, <2>2 DEF AbsSame, ReadsOf
<1> QED
  BY <1>3, <1>4

\* What is no collecting request is not seen.
LEMMA UnseenAbs ==
    ASSUME NEW j \in Ids, ~Gathered(j), ~Gathered(j)'
    PROVE  AbsSame(j)
  BY DEF AbsSame, StageOf, ReadsOf, NeedOf

\* Mails with the same responses have the same answers on their way.
LEMMA SameWay ==
    ASSUME NEW i, NEW S, NEW T,
           \A m : m.on = "response" /\ m.id = i => (m \in S <=> m \in T)
    PROVE  Way(S, i) = Way(T, i)
  BY DEF Way

\* Steps that Gather sees as nodes changing, and as the requests F failing.
LEMMA ChangeAbs ==
    ASSUME IInv', NEW F \in SUBSET Ids,
           \A j \in F : /\ StageOf(j) \in {"open", "needing"}
                        /\ StageOf(j)' = "failed" /\ NeedOf(j)' = NeedOf(j),
           \A j \in Ids \ F : AbsSame(j)
    PROVE  Abstract!Next
<1>1. \A n \in Nodes : Held(n)' \in SUBSET Sockets
  BY DEF IInv, Typed, Held
<1>2. \A j \in Ids : /\ NeedOf(j)' = NeedOf(j)
                     /\ StageOf(j)' = IF j \in F THEN "failed" ELSE StageOf(j)
                     /\ ReadsOf(j)' = IF j \in F THEN {} ELSE ReadsOf(j)
  BY StageIsThen DEF AbsSame
<1>3. Abstract!Change(F)
  <2>1. \A j \in F : [i \in Ids |-> StageOf(i)][j] \in {"open", "needing"}
    OBVIOUS
  <2>2. [n \in Nodes |-> Held(n)]' \in [Nodes -> SUBSET Sockets]
    BY <1>1
  <2>3. [i \in Ids |-> StageOf(i)]'
          = [i \in Ids |-> IF i \in F THEN "failed" ELSE [j \in Ids |-> StageOf(j)][i]]
    BY <1>2
  <2>4. [i \in Ids |-> ReadsOf(i)]'
          = [i \in Ids |-> IF i \in F THEN {} ELSE [j \in Ids |-> ReadsOf(j)][i]]
    BY <1>2
  <2>5. [i \in Ids |-> IF Gathered(i) THEN Cardinality(req[i].subs) ELSE 0]'
          = [i \in Ids |-> IF Gathered(i) THEN Cardinality(req[i].subs) ELSE 0]
    BY <1>2 DEF NeedOf
  <2> QED
    BY <2>1, <2>2, <2>3, <2>4, <2>5 DEF Abstract!Change
<1> QED
  BY <1>3 DEF Abstract!Next

\* The requester reads its own node.
LEMMA OpenAbs ==
    ASSUME NEW i \in Ids, NEW n \in Nodes,
           \A x \in Nodes : Held(x)' = Held(x), StageOf(i) = "idle", StageOf(i)' = "open",
           ReadsOf(i)' = {HeldBy(n)}, NeedOf(i)' = NeedOf(i),
           \A j \in Ids \ {i} : AbsSame(j)
    PROVE  Abstract!Next
<1>1. Abstract!Open(i, n)
  <2>1. [j \in Ids |-> StageOf(j)][i] = "idle"
    OBVIOUS
  <2>2. [j \in Ids |-> StageOf(j)]' = [[j \in Ids |-> StageOf(j)] EXCEPT ![i] = "open"]
    BY DEF AbsSame
  <2>3. Abstract!Read(n) = HeldBy(n)
    BY DEF Abstract!Read, HeldBy
  <2>4. [j \in Ids |-> ReadsOf(j)]'
          = [[j \in Ids |-> ReadsOf(j)] EXCEPT ![i] = {Abstract!Read(n)}]
    BY <2>3 DEF AbsSame
  <2>5. [x \in Nodes |-> Held(x)]' = [x \in Nodes |-> Held(x)]
    OBVIOUS
  <2>6. \A j \in Ids : NeedOf(j)' = NeedOf(j)
    BY DEF AbsSame
  <2>7. [j \in Ids |-> IF Gathered(j) THEN Cardinality(req[j].subs) ELSE 0]'
          = [j \in Ids |-> IF Gathered(j) THEN Cardinality(req[j].subs) ELSE 0]
    BY <2>6 DEF NeedOf
  <2> QED
    BY <2>1, <2>2, <2>4, <2>5, <2>7 DEF Abstract!Open
<1> QED
  BY <1>1 DEF Abstract!Next

\* The instance has definitions of its own of the standard modules.
LEMMA SameCardinality == \A S : Abstract!Cardinality(S) = Cardinality(S)
  BY DEF Abstract!Cardinality, Cardinality

\* The number of reads is settled.
LEMMA SettleAbs ==
    ASSUME NEW i \in Ids, NEW k \in 1..Cardinality(Nodes),
           \A x \in Nodes : Held(x)' = Held(x), StageOf(i) = "open", StageOf(i)' = "needing",
           ReadsOf(i)' = ReadsOf(i), NeedOf(i)' = k,
           \A j \in Ids \ {i} : AbsSame(j)
    PROVE  Abstract!Next
<1>1. Abstract!Settle(i, k)
  <2>1. [j \in Ids |-> StageOf(j)][i] = "open"
    OBVIOUS
  <2>2. [j \in Ids |-> StageOf(j)]' = [[j \in Ids |-> StageOf(j)] EXCEPT ![i] = "needing"]
    BY DEF AbsSame
  <2>3. [j \in Ids |-> ReadsOf(j)]' = [j \in Ids |-> ReadsOf(j)]
    BY DEF AbsSame
  <2>4. [x \in Nodes |-> Held(x)]' = [x \in Nodes |-> Held(x)]
    OBVIOUS
  <2>5. [j \in Ids |-> NeedOf(j)]' = [[j \in Ids |-> NeedOf(j)] EXCEPT ![i] = k]
    BY DEF AbsSame
  <2>6. [j \in Ids |-> IF Gathered(j) THEN Cardinality(req[j].subs) ELSE 0]'
          = [[j \in Ids |-> IF Gathered(j) THEN Cardinality(req[j].subs) ELSE 0]
             EXCEPT ![i] = k]
    BY <2>5 DEF NeedOf
  <2> QED
    BY <2>1, <2>2, <2>3, <2>4, <2>6 DEF Abstract!Settle
<1>2. \E j \in Ids, m \in 1..Abstract!Cardinality(Nodes) : Abstract!Settle(j, m)
  BY <1>1, SameCardinality
<1> QED
  BY <1>2, Zenon DEF Abstract!Next

\* Another node is read.
LEMMA LookAbs ==
    ASSUME NEW i \in Ids, NEW n \in Nodes,
           \A x \in Nodes : Held(x)' = Held(x), StageOf(i) = "needing",
           StageOf(i)' = StageOf(i), NeedOf(i)' = NeedOf(i),
           \A r \in ReadsOf(i) : r.node # n, ReadsOf(i)' = ReadsOf(i) \cup {HeldBy(n)},
           \A j \in Ids \ {i} : AbsSame(j)
    PROVE  Abstract!Next
<1>1. Abstract!Look(i, n)
  <2>1. [j \in Ids |-> StageOf(j)][i] = "needing"
    OBVIOUS
  <2>2. \A r \in [j \in Ids |-> ReadsOf(j)][i] : r.node # n
    OBVIOUS
  <2>3. Abstract!Read(n) = HeldBy(n)
    BY DEF Abstract!Read, HeldBy
  <2>4. [j \in Ids |-> ReadsOf(j)]'
          = [[j \in Ids |-> ReadsOf(j)]
             EXCEPT ![i] = [j \in Ids |-> ReadsOf(j)][i] \cup {Abstract!Read(n)}]
    BY <2>3 DEF AbsSame
  <2>5. [x \in Nodes |-> Held(x)]' = [x \in Nodes |-> Held(x)]
    OBVIOUS
  <2>6. [j \in Ids |-> StageOf(j)]' = [j \in Ids |-> StageOf(j)]
    BY DEF AbsSame
  <2>7. \A j \in Ids : NeedOf(j)' = NeedOf(j)
    BY DEF AbsSame
  <2>8. [j \in Ids |-> IF Gathered(j) THEN Cardinality(req[j].subs) ELSE 0]'
          = [j \in Ids |-> IF Gathered(j) THEN Cardinality(req[j].subs) ELSE 0]
    BY <2>7 DEF NeedOf
  <2> QED
    BY <2>1, <2>2, <2>4, <2>5, <2>6, <2>8 DEF Abstract!Look
<1>2. \E j \in Ids, x \in Nodes : Abstract!Open(j, x) \/ Abstract!Look(j, x)
  BY <1>1, Zenon
<1> QED
  BY <1>2, Zenon DEF Abstract!Next

\* The request has what it needs.
LEMMA DoneAbs ==
    ASSUME NEW i \in Ids,
           \A x \in Nodes : Held(x)' = Held(x), StageOf(i) = "needing", StageOf(i)' = "done",
           NeedOf(i)' = NeedOf(i), ReadsOf(i)' \subseteq ReadsOf(i),
           Cardinality(ReadsOf(i)') = NeedOf(i),
           \A j \in Ids \ {i} : AbsSame(j)
    PROVE  Abstract!Next
<1>1. Abstract!Done(i)
  <2>1. [j \in Ids |-> StageOf(j)][i] = "needing"
    OBVIOUS
  <2>2. /\ ReadsOf(i)' \in SUBSET [j \in Ids |-> ReadsOf(j)][i]
        /\ Cardinality(ReadsOf(i)')
             = [j \in Ids |-> IF Gathered(j) THEN Cardinality(req[j].subs) ELSE 0][i]
        /\ [j \in Ids |-> ReadsOf(j)]' = [[j \in Ids |-> ReadsOf(j)] EXCEPT ![i] = ReadsOf(i)']
    BY DEF AbsSame, NeedOf
  <2>3. [j \in Ids |-> StageOf(j)]' = [[j \in Ids |-> StageOf(j)] EXCEPT ![i] = "done"]
    BY DEF AbsSame
  <2>4. [x \in Nodes |-> Held(x)]' = [x \in Nodes |-> Held(x)]
    OBVIOUS
  <2>5. \A j \in Ids : NeedOf(j)' = NeedOf(j)
    BY DEF AbsSame
  <2>6. [j \in Ids |-> IF Gathered(j) THEN Cardinality(req[j].subs) ELSE 0]'
          = [j \in Ids |-> IF Gathered(j) THEN Cardinality(req[j].subs) ELSE 0]
    BY <2>5 DEF NeedOf
  <2>7. \E R \in SUBSET [j \in Ids |-> ReadsOf(j)][i] :
           /\ Abstract!Cardinality(R)
                = [j \in Ids |-> IF Gathered(j) THEN Cardinality(req[j].subs) ELSE 0][i]
           /\ [j \in Ids |-> ReadsOf(j)]' = [[j \in Ids |-> ReadsOf(j)] EXCEPT ![i] = R]
    BY <2>2, SameCardinality, Zenon
  <2> QED
    BY <2>1, <2>3, <2>4, <2>6, <2>7, Zenon DEF Abstract!Done
<1> QED
  BY <1>1 DEF Abstract!Next
------------------------------------------------------------------------------
\* Every step of the adapter is a step of Gather.

\* The queue of x has the answers to j that it had.
LEMMA KeptWay ==
    ASSUME NEW j, NEW x \in Nodes,
           \A m : m.on = "response" /\ m.id = j => (m \in Mail(x)' <=> m \in Mail(x))
    PROVE  Way(Mail(x)', j) = Way(Mail(x), j)
  BY DEF Way

\* A collecting request that has ended does not wait for what is on its way.
LEMMA SettledAbs ==
    ASSUME IInv, NEW j \in Ids, req'[j] = req[j], req[j].pc \notin Pending
    PROVE  AbsSame(j)
<1>1. CASE ~Gathered(j)
  BY <1>1, UnseenAbs DEF Gathered
<1>2. CASE Gathered(j)
  <2>1. Gathered(j)' /\ Heard(j)' = Heard(j) /\ NeedOf(j)' = NeedOf(j)
    BY <1>2, HeardSame DEF Gathered, NeedOf
  <2>2. StageOf(j)' = StageOf(j) /\ StageOf(j) \in {"done", "failed"}
    <3>1. req[j].pc \in {"resolved", "expired", "lost"}
      BY <1>2, StageIs
    <3>2. StageOf(j) \in {"done", "failed"}
      BY <1>2, <3>1, StageIs
    <3> QED
      BY <1>2, <2>1, <3>2 DEF StageOf
  <2>3. ReadsOf(j)' = ReadsOf(j)
    BY <2>1, <2>2 DEF ReadsOf
  <2> QED
    BY <2>1, <2>2, <2>3 DEF AbsSame
<1> QED
  BY <1>1, <1>2

\* Collecting requests, and the answers to them, are left alone.
LEMMA QuietAbs ==
    ASSUME IInv, IInv',
           \A j \in Ids : req'[j] = req[j] \/ (~Gathered(j) /\ ~Gathered(j)'),
           \A j \in Ids, x \in Nodes : Gathered(j) => Way(Mail(x)', j) = Way(Mail(x), j)
    PROVE  Abstract!Next
<1>1. \A j \in Ids : AbsSame(j)
  <2> TAKE j \in Ids
  <2>1. CASE ~Gathered(j) /\ ~Gathered(j)'
    BY <2>1, UnseenAbs
  <2>2. CASE ~(~Gathered(j) /\ ~Gathered(j)')
    <3>1. req'[j] = req[j] /\ Gathered(j)
      BY <2>2 DEF Gathered
    <3> QED
      BY <3>1, SameAbs
  <2> QED
    BY <2>1, <2>2
<1> DEFINE F == {}
<1>2. /\ F \in SUBSET Ids
      /\ \A j \in F : /\ StageOf(j) \in {"open", "needing"}
                      /\ StageOf(j)' = "failed" /\ NeedOf(j)' = NeedOf(j)
      /\ \A j \in Ids \ F : AbsSame(j)
  BY <1>1
<1> HIDE DEF F
<1> QED
  BY <1>2, ChangeAbs

\* A request of another kind is made.
LEMMA FreshAbs ==
    ASSUME IInv, IInv', NEW i \in Ids, req[i] = Unused, ~Gathered(i)',
           \A j \in Ids \ {i} : req'[j] = req[j],
           \A x \in Nodes : Mail(x)' \in {Mail(x), Mail(x) \cup {Request(i)}}
    PROVE  Abstract!Next
<1>1. ~Gathered(i)
  BY NoneIsNoType DEF Gathered, Unused
<1>2. \A x \in Nodes : \A m : m.on = "response" => (m \in Mail(x)' <=> m \in Mail(x))
  BY MessageTypes
<1>3. \A j \in Ids, x \in Nodes : Way(Mail(x)', j) = Way(Mail(x), j)
  BY <1>2, KeptWay
<1> QED
  BY <1>1, <1>3, QuietAbs

\* A request begins a gathering, ...
LEMMA CollectAbs ==
    ASSUME IInv, IInv', NEW i \in Ids, NEW n \in Nodes, NEW t \in Collecting,
           Collect(i, n, t)
    PROVE  Abstract!Next
<1>1. /\ Ask(i, n, t, None, "counting", <<HeldBy(n)>>, {})
      /\ UNCHANGED <<nodes, sockets, inbox, handlers, got, stayed>>
  BY DEF Collect
<1>2. /\ req[i] = Unused /\ \A j \in Ids \ {i} : req'[j] = req[j]
      /\ req'[i].type = t /\ req'[i].node = n /\ req'[i].pc = "counting"
      /\ req'[i].subs = {} /\ req'[i].heard = <<HeldBy(n)>>
  <2>1. HeldBy(n) \in Answers /\ <<HeldBy(n)>> \in Seq(Answers)
    BY AnswerType, EmptySeqType DEF IInv
  <2>2. req \in [Ids -> Requests]
    BY DEF IInv, Typed
  <2> QED
    BY <1>1, <2>1, <2>2 DEF Ask
<1>3. \A x \in Nodes : Mail(x)' = Mail(x) /\ Held(x)' = Held(x)
  BY <1>1 DEF Mail, Held, sockets
<1>4. ~Gathered(i) /\ StageOf(i) = "idle" /\ NeedOf(i) = 0
  BY <1>2, StageIs, NoneIsNoType DEF Gathered, Unused, NeedOf
<1>5. Gathered(i)' /\ StageOf(i)' = "open" /\ NeedOf(i)' = 0
  BY <1>2, StageIsThen, FS_EmptySet DEF Gathered, NeedOf
<1>6. Heard(i)' = {HeldBy(n)}
  BY <1>2 DEF Heard
<1>7. OnItsWay(i)' = {}
  <2>1. \A m \in Mail(n)' : m.id # i
    BY <1>2, <1>3, Unpublished DEF Published, Unused
  <2>2. OnItsWay(i)' = Way(Mail(n)', i)
    BY <1>2, OnItsWayIs
  <2> QED
    BY <2>1, <2>2 DEF Way
<1>8. ReadsOf(i)' = {HeldBy(n)}
  BY <1>5, <1>6, <1>7, StageIsThen
<1>9. \A j \in Ids \ {i} : AbsSame(j)
  BY <1>2, <1>3, SameAbs
<1> QED
  BY <1>3, <1>4, <1>5, <1>8, <1>9, OpenAbs

\* ... its count opens it, ...
LEMMA CountAbs ==
    ASSUME IInv, IInv', NEW i \in Ids, Count(i)
    PROVE  Abstract!Next
<1>1. /\ req[i].pc = "counting" /\ \A j \in Ids \ {i} : req'[j] = req[j]
      /\ req'[i].type = req[i].type /\ req'[i].node = req[i].node
      /\ req'[i].pc = "counted" /\ req'[i].subs = up /\ req'[i].heard = req[i].heard
  BY CountFields DEF IInv
<1>2. UNCHANGED <<nodes, sockets, inbox, handlers, got, stayed>>
  BY DEF Count
<1>3. \A x \in Nodes : Mail(x)' = Mail(x) /\ Held(x)' = Held(x)
  BY <1>2 DEF Mail, Held, sockets
<1>4. CASE ~Gathered(i)
  <2>1. ~Gathered(i)'
    BY <1>1, <1>4 DEF Gathered
  <2> QED
    BY <1>1, <1>3, <1>4, <2>1, QuietAbs
<1>5. CASE Gathered(i)
  <2>1. Gathered(i)' /\ StageOf(i) = "open" /\ StageOf(i)' = "needing"
    BY <1>1, <1>5, StageIs, StageIsThen DEF Gathered
  <2>2. ReadsOf(i)' = ReadsOf(i)
    <3>1. Heard(i)' = Heard(i)
      BY <1>1, HeardSame
    <3>2. OnItsWay(i)' = OnItsWay(i)
      BY <1>1, <1>3, <1>5, StageIs, OnItsWayIs
    <3> QED
      BY <2>1, <3>1, <3>2, StageIs, StageIsThen
  <2>3. NeedOf(i)' = Cardinality(up)
    BY <1>1, <2>1 DEF NeedOf
  <2>4. Cardinality(up) \in 1..Cardinality(Nodes)
    <3>1. up \subseteq Nodes /\ req[i].node \in up
      BY <1>1 DEF IInv, Typed, Shape, Pending
    <3>2. /\ IsFiniteSet(up) /\ Cardinality(up) <= Cardinality(Nodes)
          /\ Cardinality(up) \in Nat /\ Cardinality(Nodes) \in Nat
      BY <3>1, NodesFinite, FS_Subset, FS_CardinalityType
    <3>3. Cardinality(up) # 0
      BY <3>1, <3>2, FS_EmptySet
    <3> QED
      BY <3>2, <3>3
  <2>5. \A j \in Ids \ {i} : AbsSame(j)
    BY <1>1, <1>3, SameAbs
  <2> QED
    BY <1>3, <2>1, <2>2, <2>3, <2>4, <2>5, SettleAbs
<1> QED
  BY <1>4, <1>5

\* A request of another kind, published at once or not at all.
LEMMA AskAbs ==
    ASSUME IInv, IInv', NEW i \in Ids, NEW n, NEW t \in Types \ Collecting,
           NEW s, NEW pc, NEW heard, NEW reach,
           Ask(i, n, t, s, pc, heard, reach), inbox' = inbox \/ Publication(i)
    PROVE  Abstract!Next
<1>1. req[i] = Unused /\ \A j \in Ids \ {i} : req'[j] = req[j]
  BY DEF Ask
<1>2. ~Gathered(i)'
  <2>1. req'[i].type = t
    BY DEF Ask, IInv, Typed
  <2> QED
    BY <2>1 DEF Gathered
<1>3. \A x \in Nodes : Mail(x)' \in {Mail(x), Mail(x) \cup {Request(i)}}
  <2>1. CASE inbox' = inbox
    BY <2>1 DEF Mail
  <2>2. CASE Publication(i)
    <3>1. \A x \in Nodes : Request(i) \notin Mail(x)
      BY <1>1, Unpublished DEF Published, Unused
    <3>2. \A x \in Nodes : Mail(x)' = Mail(x) \cup IF x \in up THEN {Request(i)} ELSE {}
      BY <2>2, <3>1, InvSolo, PublicationMail
    <3> QED
      BY <3>2
  <2> QED
    BY <2>1, <2>2
<1> QED
  BY <1>1, <1>2, <1>3, FreshAbs

\* ... its timer gives it up, ...
LEMMA TimeoutAbs ==
    ASSUME IInv, IInv', NEW i \in Ids, Timeout(i)
    PROVE  Abstract!Next
<1>1. /\ req[i].pc = "waiting" /\ \A j \in Ids \ {i} : req'[j] = req[j]
      /\ req'[i].type = req[i].type /\ req'[i].pc = "expired"
      /\ req'[i].subs = req[i].subs
  BY TimeoutFields DEF IInv
<1>2. \A x \in Nodes : Mail(x)' = Mail(x)
  BY DEF Timeout, Mail
<1>3. CASE ~Gathered(i)
  <2>1. ~Gathered(i)'
    BY <1>1, <1>3 DEF Gathered
  <2> QED
    BY <1>1, <1>2, <1>3, <2>1, QuietAbs
<1>4. CASE Gathered(i)
  <2>1. /\ StageOf(i) = "needing" /\ StageOf(i)' = "failed" /\ NeedOf(i)' = NeedOf(i)
    BY <1>1, <1>4, StageIs, StageIsThen DEF Gathered, NeedOf
  <2>2. \A j \in Ids \ {i} : AbsSame(j)
    BY <1>1, <1>2, SameAbs
  <2> DEFINE F == {i}
  <2>3. /\ F \in SUBSET Ids
        /\ \A j \in F : /\ StageOf(j) \in {"open", "needing"}
                        /\ StageOf(j)' = "failed" /\ NeedOf(j)' = NeedOf(j)
        /\ \A j \in Ids \ F : AbsSame(j)
    BY <2>1, <2>2
  <2> HIDE DEF F
  <2> QED
    BY <2>3, ChangeAbs
<1> QED
  BY <1>3, <1>4

\* A request that needs nobody else is done, another waits for the others.
LEMMA PublishAbs ==
    ASSUME IInv, IInv', NEW i \in Ids, Publish(i)
    PROVE  Abstract!Next
<1>1. /\ req[i].pc = "counted" /\ \A j \in Ids \ {i} : req'[j] = req[j]
      /\ req'[i].type = req[i].type /\ req'[i].node = req[i].node
      /\ req'[i].subs = req[i].subs /\ req'[i].heard = req[i].heard
  BY PublishFields DEF IInv
<1>2. \/ /\ Cardinality(req[i].subs) <= 1 /\ req'[i].pc = "resolved" /\ inbox' = inbox
      \/ req'[i].pc = "waiting" /\ Publication(i)
  BY PublishFields DEF IInv
<1>3. \A x \in Nodes : Held(x)' = Held(x)
  BY DEF Publish, Held, sockets
<1>4. \A x \in Nodes : \A m : m.on = "response" => (m \in Mail(x)' <=> m \in Mail(x))
  <2>1. CASE inbox' = inbox
    BY <2>1 DEF Mail
  <2>2. CASE Publication(i)
    <3>1. \A x \in Nodes : Request(i) \notin Mail(x)
      BY <1>1, Unpublished DEF Published
    <3>2. \A x \in Nodes : Mail(x)' = Mail(x) \cup IF x \in up THEN {Request(i)} ELSE {}
      BY <2>2, <3>1, InvSolo, PublicationMail
    <3> QED
      BY <3>2, MessageTypes
  <2> QED
    BY <1>2, <2>1, <2>2
<1>5. \A j \in Ids, x \in Nodes : Way(Mail(x)', j) = Way(Mail(x), j)
  BY <1>4, KeptWay
<1>6. CASE ~Gathered(i)
  <2>1. ~Gathered(i)'
    BY <1>1, <1>6 DEF Gathered
  <2> QED
    BY <1>1, <1>5, <1>6, <2>1, QuietAbs
<1>7. ASSUME Gathered(i)
      PROVE  /\ Gathered(i)' /\ StageOf(i) = "needing" /\ NeedOf(i)' = NeedOf(i)
             /\ Heard(i)' = Heard(i) /\ OnItsWay(i)' = OnItsWay(i)
             /\ ReadsOf(i) = Heard(i) \cup OnItsWay(i)
             /\ \A j \in Ids \ {i} : AbsSame(j)
  <2>1. Gathered(i)' /\ StageOf(i) = "needing" /\ NeedOf(i)' = NeedOf(i)
    BY <1>1, <1>7, StageIs DEF Gathered, NeedOf
  <2>2. Heard(i)' = Heard(i) /\ ReadsOf(i) = Heard(i) \cup OnItsWay(i)
    BY <1>1, <2>1, HeardSame, StageIs
  <2>3. OnItsWay(i)' = OnItsWay(i)
    BY <1>1, <1>5, <1>7, StageIs, OnItsWayIs
  <2>4. \A j \in Ids \ {i} : AbsSame(j)
    BY <1>1, <1>5, SameAbs
  <2> QED
    BY <2>1, <2>2, <2>3, <2>4
<1>8. CASE Gathered(i) /\ req'[i].pc = "waiting"
  <2>1. StageOf(i)' = "needing" /\ ReadsOf(i)' = ReadsOf(i)
    BY <1>7, <1>8, StageIsThen
  <2>2. \A j \in Ids : AbsSame(j)
    BY <1>7, <1>8, <2>1 DEF AbsSame
  <2> DEFINE F == {}
  <2>3. /\ F \in SUBSET Ids
        /\ \A j \in F : /\ StageOf(j) \in {"open", "needing"}
                        /\ StageOf(j)' = "failed" /\ NeedOf(j)' = NeedOf(j)
        /\ \A j \in Ids \ F : AbsSame(j)
    BY <2>2
  <2> HIDE DEF F
  <2> QED
    BY <2>3, ChangeAbs
<1>9. CASE Gathered(i) /\ req'[i].pc = "resolved"
  <2>1. Cardinality(req[i].subs) <= 1
    BY <1>2, <1>9
  <2>2. req[i].node \in req[i].subs /\ req[i].subs \subseteq Nodes
    BY <1>1, <1>9 DEF IInv, Shape, Typed, Requests, Gathered
  <2>3. Cardinality(req[i].subs) = 1
    <3>1. IsFiniteSet(req[i].subs) /\ Cardinality(req[i].subs) \in Nat
      BY <2>2, NodesFinite, FS_Subset, FS_CardinalityType
    <3>2. Cardinality(req[i].subs) # 0
      BY <2>2, <3>1, FS_EmptySet
    <3> QED
      BY <2>1, <3>1, <3>2
  <2>4. Cardinality(Heard(i)) = 1
    <3>1. /\ HeardFrom(i) = {req[i].node}
          /\ Cardinality(Heard(i)) = Cardinality(HeardFrom(i))
      BY <1>1, <1>9 DEF IInv, Counts, Gathered
    <3> QED
      BY <3>1, FS_Singleton
  <2>5. StageOf(i)' = "done" /\ ReadsOf(i)' = Heard(i)
    BY <1>7, <1>9, StageIsThen
  <2>6. Cardinality(ReadsOf(i)') = NeedOf(i) /\ ReadsOf(i)' \subseteq ReadsOf(i)
    BY <1>7, <1>9, <2>3, <2>4, <2>5 DEF NeedOf
  <2> QED
    BY <1>3, <1>7, <1>9, <2>5, <2>6, DoneAbs
<1> QED
  BY <1>2, <1>6, <1>8, <1>9

\* A node reads itself for the request that has arrived, or ignores it.
LEMMA OnCollectAbs ==
    ASSUME IInv, IInv', NEW n \in Nodes, OnCollect(n)
    PROVE  Abstract!Next
<1>1. PICK m \in Arrived(n) :
         /\ Asks(m, Collecting)
         /\ IF Own(n, m.id) THEN Drop(n) ELSE Answer(n, m.id)
         /\ UNCHANGED <<nodes, sockets, req, handlers, got, stayed>>
  BY DEF OnCollect
<1> DEFINE i == m.id
<1>0. /\ i \in Ids /\ m = Request(i) /\ m.on = "request" /\ Gathered(i)
      /\ m \in Mail(n) /\ Published(i) /\ req[i].node \in Nodes
      /\ Response(i, HeldBy(n)) \notin Mail(req[i].node) /\ HeldBy(n) \in Answers
  BY <1>1, AnswerIsNew, NextMessage, AnswerType DEF Asks, IInv, Gathered
<1>2. PICK z \in Nodes :
         /\ i \in Ids /\ m = Request(i) /\ m.on = "request" /\ Gathered(i)
         /\ m \in Mail(n) /\ Published(i) /\ z = req[i].node
         /\ Response(i, HeldBy(n)) \notin Mail(z) /\ HeldBy(n) \in Answers
  BY <1>0
<1>3. req' = req /\ \A x \in Nodes : Held(x)' = Held(x)
  BY <1>1 DEF Held, sockets
<1> HIDE DEF i
<1>4. ASSUME Drop(n) PROVE Abstract!Next
  <2>1. \A x \in Nodes : Mail(x)' = Mail(x) \ IF x = n THEN {m} ELSE {}
    BY <1>4, InvSolo, DroppedMail
  <2>2. \A x \in Nodes : \A l : l.on = "response" => (l \in Mail(x)' <=> l \in Mail(x))
    BY <1>2, <2>1
  <2>3. \A j \in Ids, x \in Nodes : Way(Mail(x)', j) = Way(Mail(x), j)
    BY <2>2, KeptWay
  <2> QED
    BY <1>3, <2>3, QuietAbs
<1>5. ASSUME ~Own(n, i), Answer(n, i) PROVE Abstract!Next
  <2>1. \A x \in Nodes : Mail(x)' = (Mail(x) \ IF x = n THEN {m} ELSE {})
           \cup IF x = z /\ x \in up THEN {Response(i, HeldBy(n))} ELSE {}
    BY <1>2, <1>5, InvSolo, AnswerMail DEF i
  <2>2. /\ Response(i, HeldBy(n)).on = "response" /\ Response(i, HeldBy(n)).id = i
        /\ Response(i, HeldBy(n)).answer = HeldBy(n)
    BY <1>2, MessageTypes
  <2>3. \A j \in Ids \ {i} : AbsSame(j)
    <3> TAKE j \in Ids \ {i}
    <3>1. \A x \in Nodes : \A l : l.on = "response" /\ l.id = j
             => (l \in Mail(x)' <=> l \in Mail(x))
      BY <1>2, <2>1, <2>2
    <3>2. \A x \in Nodes : Way(Mail(x)', j) = Way(Mail(x), j)
      BY <3>1, KeptWay
    <3> QED
      BY <1>3, <3>2, SameAbs
  <2>4. CASE ~Waiting(i)
    <3>1. req[i].pc \notin Pending
      BY <1>2, <2>4 DEF Published, Pending, Waiting
    <3>2. AbsSame(i)
      BY <1>2, <1>3, <3>1, SettledAbs
    <3> DEFINE F == {}
    <3>3. /\ F \in SUBSET Ids
          /\ \A j \in F : /\ StageOf(j) \in {"open", "needing"}
                          /\ StageOf(j)' = "failed" /\ NeedOf(j)' = NeedOf(j)
          /\ \A j \in Ids \ F : AbsSame(j)
      BY <2>3, <3>2
    <3> HIDE DEF F
    <3> QED
      BY <3>3, ChangeAbs
  <2>5. CASE Waiting(i)
    <3>1. n # z /\ z \in up
      <4>1. Shape(i)
        BY <1>2 DEF IInv
      <4> QED
        BY <1>2, <1>5, <2>5, <4>1 DEF Own, Shape, Pending, Waiting
    <3>2. Gathered(i)' /\ StageOf(i) = "needing" /\ StageOf(i)' = StageOf(i)
          /\ NeedOf(i)' = NeedOf(i) /\ Heard(i)' = Heard(i)
      BY <1>2, <1>3, <2>5, StageIs, StageIsThen, HeardSame DEF Gathered, NeedOf, Waiting
    <3>3. /\ ReadsOf(i) = Heard(i) \cup Way(Mail(z), i)
          /\ ReadsOf(i)' = Heard(i) \cup Way(Mail(z)', i)
      BY <1>2, <1>3, <3>2, StageIs, StageIsThen, OnItsWayIs
    <3>4. Way(Mail(z)', i) = Way(Mail(z), i) \cup {HeldBy(n)}
      <4>1. Mail(z)' = Mail(z) \cup {Response(i, HeldBy(n))}
        BY <1>2, <2>1, <3>1
      <4> QED
        BY <2>2, <4>1 DEF Way
    <3>5. \A r \in ReadsOf(i) : r.node # n
      <4>1. \A r \in Heard(i) : r.node # n
        <5>1. n \notin HeardFrom(i)
          BY <1>2, <2>5, <3>1, NotHeardYet
        <5> QED
          BY <5>1 DEF Heard, HeardFrom
      <4>2. \A r \in Way(Mail(z), i) : r.node # n
        <5>1. \A l \in Mail(z) : l.on = "response" /\ l.id = i
                 => Request(i) \notin Mail(l.answer.node)
          BY <1>2, Zenon DEF IInv, MailInv, MailOf
        <5>2. \A l \in Mail(z) : l.on = "response" /\ l.id = i => l.answer.node # n
          BY <1>2, <5>1
        <5> QED
          BY <5>2 DEF Way
      <4> QED
        BY <3>3, <4>1, <4>2
    <3> QED
      BY <1>2, <1>3, <2>3, <3>2, <3>3, <3>4, <3>5, LookAbs
  <2> QED
    BY <2>4, <2>5
<1> QED
  BY <1>1, <1>4, <1>5 DEF i

\* What arrives has to do with no collecting request.
LEMMA UngatheredAbs ==
    ASSUME IInv, IInv', NEW n \in Nodes, NEW m \in Arrived(n), ~Gathered(m.id),
           Drop(n) \/ (m.on = "request" /\ Answer(n, m.id)),
           \A j \in Ids \ {m.id} : req'[j] = req[j], req'[m.id].type = req[m.id].type
    PROVE  Abstract!Next
<1>1. m.id \in Ids /\ ~Gathered(m.id)'
  BY NextMessage, MessageForm DEF IInv, Gathered
<1>2. \A j \in Ids \ {m.id}, x \in Nodes : \A l : l.on = "response" /\ l.id = j
         => (l \in Mail(x)' <=> l \in Mail(x))
  <2>1. CASE Drop(n)
    <3>1. \A x \in Nodes : Mail(x)' = Mail(x) \ IF x = n THEN {m} ELSE {}
      BY <2>1, InvSolo, DroppedMail
    <3> QED
      BY <3>1
  <2>2. CASE m.on = "request" /\ Answer(n, m.id)
    <3>1. /\ req[m.id].node \in Nodes
          /\ Response(m.id, HeldBy(n)) \notin Mail(req[m.id].node)
          /\ HeldBy(n) \in Answers
      BY <2>2, AnswerIsNew, AnswerType DEF IInv
    <3>2. \A x \in Nodes : Mail(x)' = (Mail(x) \ IF x = n THEN {m} ELSE {})
             \cup IF x = req[m.id].node /\ x \in up THEN {Response(m.id, HeldBy(n))} ELSE {}
      BY <2>2, <3>1, InvSolo, AnswerMail
    <3>3. Response(m.id, HeldBy(n)).id = m.id
      BY <1>1, <3>1, MessageTypes
    <3> QED
      BY <2>2, <3>2, <3>3
  <2> QED
    BY <2>1, <2>2
<1>3. \A j \in Ids, x \in Nodes : Gathered(j) => Way(Mail(x)', j) = Way(Mail(x), j)
  BY <1>2, KeptWay
<1> QED
  BY <1>1, <1>3, QuietAbs

\* An answer is counted, or the last one.
LEMMA OnAnswerAbs ==
    ASSUME IInv, IInv', NEW n \in Nodes, OnAnswer(n)
    PROVE  Abstract!Next
<1>1. PICK m \in Arrived(n) :
         /\ Tells(m, Collecting) /\ Drop(n)
         /\ \/ req' = Counted(m.id, m.answer)
            \/ /\ req' = CountedLast(m.id, m.answer)
               /\ Len(req[m.id].heard) + 1 = Cardinality(req[m.id].subs)
         /\ UNCHANGED <<nodes, sockets, handlers, got, stayed>>
  <2>1. PICK m \in Arrived(n) :
           /\ Tells(m, Collecting) /\ Drop(n)
           /\ req' = IF Len(req[m.id].heard) + 1 = Cardinality(req[m.id].subs)
                     THEN CountedLast(m.id, m.answer) ELSE Counted(m.id, m.answer)
           /\ UNCHANGED <<nodes, sockets, handlers, got, stayed>>
    BY Zenon DEF OnAnswer
  <2>2. \/ req' = Counted(m.id, m.answer)
        \/ /\ req' = CountedLast(m.id, m.answer)
           /\ Len(req[m.id].heard) + 1 = Cardinality(req[m.id].subs)
    BY <2>1
  <2> QED
    BY <2>1, <2>2, Zenon
<1> DEFINE i == m.id
           a == m.answer
<1>2. /\ i \in Ids /\ a \in Answers /\ m = Response(i, a) /\ Gathered(i) /\ Waiting(i)
      /\ m.on = "response" /\ m \in Mail(n) /\ n = req[i].node /\ Typed
  BY <1>1, HeardAnswer DEF Tells, IInv, Gathered
<1>3. /\ \A j \in Ids \ {i} : req'[j] = req[j]
      /\ req'[i].type = req[i].type /\ req'[i].node = req[i].node
      /\ req'[i].subs = req[i].subs /\ req'[i].heard = Append(req[i].heard, a)
      /\ \/ req'[i].pc = "waiting"
         \/ /\ req'[i].pc = "resolved"
            /\ Len(req[i].heard) + 1 = Cardinality(req[i].subs)
  BY <1>1, <1>2, CountedFields, CountedLastFields DEF Waiting
<1>4. \A x \in Nodes : Mail(x)' = Mail(x) \ IF x = n THEN {m} ELSE {}
  BY <1>1, InvSolo, DroppedMail
<1>5. \A x \in Nodes : Held(x)' = Held(x)
  BY <1>1 DEF Held, sockets
<1> HIDE DEF i
<1>6. \A j \in Ids \ {i} : AbsSame(j)
  <2> TAKE j \in Ids \ {i}
  <2>1. \A x \in Nodes : \A l : l.on = "response" /\ l.id = j
           => (l \in Mail(x)' <=> l \in Mail(x))
    BY <1>4 DEF i
  <2>2. \A x \in Nodes : Way(Mail(x)', j) = Way(Mail(x), j)
    BY <2>1, KeptWay
  <2> QED
    BY <1>3, <2>2, SameAbs
<1>7. /\ Heard(i)' = Heard(i) \cup {a}
      /\ Len(req'[i].heard) = Len(req[i].heard) + 1
  BY <1>2, <1>3, HeardGrows
<1>8. /\ Gathered(i)' /\ StageOf(i) = "needing" /\ NeedOf(i)' = NeedOf(i)
      /\ NeedOf(i) = Cardinality(req[i].subs)
      /\ ReadsOf(i) = Heard(i) \cup Way(Mail(n), i)
  BY <1>2, <1>3, StageIs, OnItsWayIs DEF Gathered, NeedOf, Waiting
<1>9. a \in Way(Mail(n), i)
  BY <1>2 DEF Way, i
<1>10. CASE req'[i].pc = "waiting"
  <2>1. StageOf(i)' = "needing" /\ ReadsOf(i)' = Heard(i)' \cup Way(Mail(n)', i)
    BY <1>2, <1>3, <1>8, <1>10, StageIsThen, OnItsWayIs
  <2>2. Way(Mail(n)', i) \subseteq Way(Mail(n), i)
        /\ Way(Mail(n), i) \subseteq Way(Mail(n)', i) \cup {a}
    BY <1>4 DEF Way
  <2>3. AbsSame(i)
    BY <1>7, <1>8, <1>9, <2>1, <2>2 DEF AbsSame
  <2> DEFINE F == {}
  <2>4. /\ F \in SUBSET Ids
        /\ \A j \in F : /\ StageOf(j) \in {"open", "needing"}
                        /\ StageOf(j)' = "failed" /\ NeedOf(j)' = NeedOf(j)
        /\ \A j \in Ids \ F : AbsSame(j)
    BY <1>6, <2>3
  <2> HIDE DEF F
  <2> QED
    BY <2>4, ChangeAbs
<1>11. CASE req'[i].pc = "resolved"
  <2>1. StageOf(i)' = "done" /\ ReadsOf(i)' = Heard(i)'
    BY <1>2, <1>8, <1>11, StageIsThen
  <2>2. ReadsOf(i)' \subseteq ReadsOf(i)
    BY <1>7, <1>8, <1>9, <2>1
  <2>3. Cardinality(Heard(i)') = Len(req'[i].heard)
    BY <1>2 DEF IInv, Counts
  <2>4. Len(req'[i].heard) = Cardinality(req[i].subs)
    BY <1>3, <1>7, <1>11
  <2>5. Cardinality(ReadsOf(i)') = NeedOf(i)
    BY <1>8, <2>1, <2>3, <2>4
  <2> QED
    BY <1>2, <1>5, <1>6, <1>8, <2>1, <2>2, <2>5, DoneAbs
<1> QED
  BY <1>3, <1>10, <1>11

\* The requests of a node fail with it.
LEMMA DieAbs ==
    ASSUME IInv, IInv', NEW n \in Nodes, Die(n)
    PROVE  Abstract!Next
<1>1. \A j \in Ids :
         /\ req'[j].type = req[j].type /\ req'[j].subs = req[j].subs
         /\ req'[j].pc = IF req[j].node = n /\ req[j].pc \in Pending
                         THEN "lost" ELSE req[j].pc
         /\ ~(req[j].node = n /\ req[j].pc \in Pending) => req'[j] = req[j]
  BY DieFields DEF IInv
<1>2. \A x \in Nodes \ {n} : Mail(x)' = Mail(x)
  BY DEF Die, Mail, IInv, Typed
<1> DEFINE F == {j \in Ids : Gathered(j) /\ req[j].node = n /\ req[j].pc \in Pending}
<1>3. ASSUME NEW j \in F
      PROVE  /\ StageOf(j) \in {"open", "needing"}
             /\ StageOf(j)' = "failed" /\ NeedOf(j)' = NeedOf(j)
  <2>1. j \in Ids /\ Gathered(j) /\ req'[j].pc = "lost" /\ req[j].pc \in Pending
    BY <1>1
  <2>2. Gathered(j)' /\ NeedOf(j)' = NeedOf(j)
    BY <1>1, <2>1 DEF Gathered, NeedOf
  <2>3. StageOf(j) \in {"open", "needing"}
    BY <2>1, StageIs DEF Pending
  <2>4. StageOf(j)' = "failed"
    BY <2>1, <2>2, StageIsThen
  <2> QED
    BY <2>2, <2>3, <2>4
<1>4. ASSUME NEW j \in Ids \ F PROVE AbsSame(j)
  <2>1. CASE ~Gathered(j)
    <3>1. ~Gathered(j)'
      BY <1>1, <2>1 DEF Gathered
    <3> QED
      BY <2>1, <3>1, UnseenAbs
  <2>2. CASE Gathered(j)
    <3>1. req'[j] = req[j] /\ (req[j].node = n => req[j].pc \notin Pending)
      BY <1>1, <2>2
    <3>2. CASE req[j].node = n
      BY <3>1, <3>2, SettledAbs
    <3>3. CASE req[j].node # n
      <4>1. \A x \in Nodes : Gathered(j) /\ req[j].node = x
               => Way(Mail(x)', j) = Way(Mail(x), j)
        BY <1>2, <3>3
      <4> QED
        BY <3>1, <4>1, SameAbs
    <3> QED
      BY <3>2, <3>3
  <2> QED
    BY <2>1, <2>2
<1>5. F \in SUBSET Ids
  OBVIOUS
<1> HIDE DEF F
<1> QED
  BY <1>3, <1>4, <1>5, ChangeAbs

\* Nothing is received, and no request changes.
LEMMA StillAbs ==
    ASSUME IInv, IInv', req' = req, inbox' = inbox
    PROVE  Abstract!Next
<1>1. \A x \in Nodes : Mail(x)' = Mail(x)
  BY DEF Mail
<1> QED
  BY <1>1, QuietAbs

\* An answer that is too late changes nothing.
LEMMA OnLateAnswerAbs ==
    ASSUME IInv, IInv', NEW n \in Nodes, OnLateAnswer(n)
    PROVE  Abstract!Next
<1>1. PICK m \in Arrived(n) :
         /\ m.on = "response" /\ ~Waiting(m.id) /\ Drop(n)
         /\ UNCHANGED <<nodes, sockets, req, handlers, got, stayed>>
  BY DEF OnLateAnswer
<1>2. m.id \in Ids /\ req[m.id].pc \notin Pending
  BY <1>1, HeardAnswer DEF Published, Pending, Waiting
<1>3. \A x \in Nodes : Mail(x)' = Mail(x) \ IF x = n THEN {m} ELSE {}
  BY <1>1, InvSolo, DroppedMail
<1>4. \A j \in Ids : AbsSame(j)
  <2> TAKE j \in Ids
  <2>1. CASE j = m.id
    BY <1>1, <1>2, <2>1, SettledAbs
  <2>2. CASE j # m.id
    <3>1. \A x \in Nodes : \A l : l.on = "response" /\ l.id = j
             => (l \in Mail(x)' <=> l \in Mail(x))
      BY <1>3, <2>2
    <3>2. \A x \in Nodes : Way(Mail(x)', j) = Way(Mail(x), j)
      BY <3>1, KeptWay
    <3> QED
      BY <1>1, <3>2, SameAbs
  <2> QED
    BY <2>1, <2>2
<1> DEFINE F == {}
<1>5. /\ F \in SUBSET Ids
      /\ \A j \in F : /\ StageOf(j) \in {"open", "needing"}
                      /\ StageOf(j)' = "failed" /\ NeedOf(j)' = NeedOf(j)
      /\ \A j \in Ids \ F : AbsSame(j)
  BY <1>4
<1> HIDE DEF F
<1> QED
  BY <1>5, ChangeAbs

\* ... a handler's acknowledgement answers it; ...
LEMMA CallBackAbs ==
    ASSUME IInv, IInv', NEW n \in Nodes, NEW i \in Ids, CallBack(n, i)
    PROVE  Abstract!Next
<1>1. /\ <<i, n, FALSE>> \in handlers /\ inbox' = To(inbox, i, HeldBy(n)) /\ req' = req
  BY DEF CallBack
<1>2. /\ req[i].node \in Nodes /\ req[i].type = "emit"
      /\ Response(i, HeldBy(n)) \notin Mail(req[i].node) /\ HeldBy(n) \in Answers
  BY <1>1, CallBackIsNew, AnswerType DEF IInv
<1>3. \A x \in Nodes : Mail(x)' = Mail(x)
         \cup IF x = req[i].node /\ x \in up THEN {Response(i, HeldBy(n))} ELSE {}
  BY <1>1, <1>2, InvSolo, CallBackMail
<1>4. ~Gathered(i) /\ Response(i, HeldBy(n)).id = i
  BY <1>2, MessageTypes DEF Gathered, Collecting
<1>5. \A j \in Ids, x \in Nodes : Gathered(j) => Way(Mail(x)', j) = Way(Mail(x), j)
  <2>1. \A j \in Ids \ {i}, x \in Nodes : \A l : l.on = "response" /\ l.id = j
           => (l \in Mail(x)' <=> l \in Mail(x))
    BY <1>3, <1>4
  <2> QED
    BY <1>4, <2>1, KeptWay
<1> QED
  BY <1>1, <1>5, QuietAbs

\* ... so the steps of the requesting node are the abstract ones, ...
LEMMA RequesterAbs ==
    ASSUME IInv, IInv', NEW i \in Ids, Requester(i)
    PROVE  Abstract!Next
<1>1. \A n \in Nodes : AskSockets(i, n) \/ AskRooms(i, n) \/ FetchSockets(i, n)
                           => Abstract!Next
  BY CollectAbs DEF AskSockets, AskRooms, FetchSockets, Collecting
<1>2. \A t \in {"emit"} \cup Direct \cup Bulk \cup Packets : t \in Types \ Collecting
  BY DEF Types, Collecting, Direct, Bulk, Packets
<1>3. ASSUME NEW n \in Nodes, EmitWithAck(i, n) PROVE Abstract!Next
  <2>1. Ask(i, n, "emit", None, "counting", <<>>, {}) /\ inbox' = inbox
    BY <1>3 DEF EmitWithAck
  <2> QED
    BY <1>2, <2>1, AskAbs
<1>4. ASSUME NEW n \in Nodes, Broadcast(i, n) \/ BroadcastWithAck(i, n)
      PROVE  Abstract!Next
  <2>1. PICK t, pc, heard :
           t \in Packets /\ Ask(i, n, t, None, pc, heard, up) /\ Publication(i)
    BY <1>4, Zenon DEF Broadcast, BroadcastWithAck, SendPacket, Packets
  <2> QED
    BY <1>2, <2>1, AskAbs
<1>5. ASSUME NEW n \in Nodes, NEW t \in Direct, NEW s \in Sockets, Remote(i, n, t, s)
      PROVE  Abstract!Next
  <2>1. PICK pc, reach :
           Ask(i, n, t, s, pc, <<>>, reach) /\ (inbox' = inbox \/ Publication(i))
    BY <1>5, Zenon DEF Remote
  <2> QED
    BY <1>2, <2>1, AskAbs
<1>6. ASSUME NEW n \in Nodes, NEW t \in Bulk, NEW s \in Sockets, BulkOp(i, n, t, s)
      PROVE  Abstract!Next
  <2>1. Ask(i, n, t, s, "resolved", <<>>, up) /\ Publication(i)
    BY <1>6 DEF BulkOp
  <2> QED
    BY <1>2, <2>1, AskAbs
<1>7. \A n \in Nodes, s \in Sockets :
         RemoteJoin(i, n, s) \/ RemoteLeave(i, n, s) \/ RemoteDisconnect(i, n, s)
             => Abstract!Next
  BY <1>5 DEF RemoteJoin, RemoteLeave, RemoteDisconnect, Direct
<1>8. \A n \in Nodes, s \in Sockets :
         AddSockets(i, n, s) \/ DelSockets(i, n, s) \/ DisconnectSockets(i, n, s)
             => Abstract!Next
  BY <1>6 DEF AddSockets, DelSockets, DisconnectSockets, Bulk
<1> QED
  BY <1>1, <1>3, <1>4, <1>7, <1>8, CountAbs, PublishAbs, TimeoutAbs, CallBackAbs
  DEF Requester

\* ... those of the nodes that hear are, ...
LEMMA ReceiveAbs ==
    ASSUME IInv, IInv', NEW n \in Nodes, Receive(n)
    PROVE  Abstract!Next
<1>1. ASSUME OnRemote(n) \/ OnEmit(n) \/ OnPacket(n) \/ OnPacketWithAck(n)
      PROVE  Abstract!Next
  <2>1. PICK m \in Arrived(n) :
           /\ Asks(m, Direct \cup Bulk \cup {"emit"} \cup Packets)
           /\ Drop(n) \/ Answer(n, m.id)
           /\ req' = req
    <3>1. CASE OnRemote(n)
      BY <3>1, Zenon DEF OnRemote, Asks
    <3>2. CASE OnEmit(n)
      BY <3>2, Zenon DEF OnEmit, Asks
    <3>3. CASE OnPacket(n)
      BY <3>3 DEF OnPacket, Asks, Packets
    <3>4. CASE OnPacketWithAck(n)
      BY <3>4 DEF OnPacketWithAck, Asks, Packets
    <3> QED
      BY <1>1, <3>1, <3>2, <3>3, <3>4
  <2>2. m.on = "request" /\ ~Gathered(m.id)
    BY <2>1 DEF Asks, Gathered, Collecting, Direct, Bulk, Packets
  <2> QED
    BY <2>1, <2>2, UngatheredAbs
<1>2. ASSUME OnRemoteDone(n) \/ OnEmitAnswer(n) \/ OnClientCount(n)
      PROVE  Abstract!Next
  <2>1. PICK m \in Arrived(n) :
           /\ Tells(m, Direct \cup {"emit", "broadcastAck"}) /\ Drop(n)
           /\ req' = Counted(m.id, m.answer) \/ req' = CountedLast(m.id, m.answer)
    <3>1. CASE OnRemoteDone(n)
      BY <3>1, Zenon DEF OnRemoteDone, Tells
    <3>2. CASE OnEmitAnswer(n)
      BY <3>2 DEF OnEmitAnswer, Tells
    <3>3. CASE OnClientCount(n)
      BY <3>3 DEF OnClientCount, Tells
    <3> QED
      BY <1>2, <3>1, <3>2, <3>3
  <2>2. ~Gathered(m.id)
    BY <2>1 DEF Tells, Gathered, Collecting, Direct
  <2>3. m.id \in Ids /\ m.answer \in Answers
    BY <2>1, HeardAnswer DEF Tells
  <2>4. /\ \A j \in Ids \ {m.id} : req'[j] = req[j]
        /\ req'[m.id].type = req[m.id].type
    BY <2>1, <2>3, CountedFields, CountedLastFields DEF IInv
  <2> QED
    BY <2>1, <2>2, <2>4, UngatheredAbs
<1> QED
  BY <1>1, <1>2, OnCollectAbs, OnAnswerAbs, OnLateAnswerAbs DEF Receive

\* ... and every step is.
LEMMA NextAbs ==
    ASSUME IInv, IInv', Next
    PROVE  Abstract!Next
<1>1. ASSUME NEW s \in Sockets, Connect(s) \/ Join(s) \/ Leave(s)
      PROVE  Abstract!Next
  <2>1. req' = req /\ inbox' = inbox
    BY <1>1 DEF Connect, Join, Leave
  <2> QED
    BY <2>1, StillAbs
<1>2. ASSUME NEW n \in Nodes, Start(n) PROVE Abstract!Next
  BY <1>2, StillAbs DEF Start
<1> QED
  BY <1>1, <1>2, RequesterAbs, ReceiveAbs, DieAbs DEF Next

\* At first nothing is gathered.
LEMMA InitAbs ==
    ASSUME Init
    PROVE  Abstract!Init
<1>1. \A j \in Ids : req[j] = Unused
  BY DEF Init
<1>2. \A j \in Ids : ~Gathered(j)
  BY <1>1, NoneIsNoType DEF Gathered, Unused
<1>3. \A j \in Ids : StageOf(j) = "idle" /\ ReadsOf(j) = {}
  BY <1>2 DEF StageOf, ReadsOf
<1>4. [n \in Nodes |-> Held(n)] \in [Nodes -> SUBSET Sockets]
  BY DEF Held, Init
<1>5. /\ [j \in Ids |-> StageOf(j)] = [j \in Ids |-> "idle"]
      /\ [j \in Ids |-> ReadsOf(j)] = [j \in Ids |-> {}]
  BY <1>3
<1>6. [j \in Ids |-> IF Gathered(j) THEN Cardinality(req[j].subs) ELSE 0]
        = [j \in Ids |-> 0]
  BY <1>2
<1> QED
  BY <1>4, <1>5, <1>6 DEF Abstract!Init

\* fetchSockets, sockets and allRooms implement Gather: however messages are
\* delayed and nodes come and go, a request reads each node at most once, at one
\* instant of that node, and succeeds with just as many reads as were needed.
THEOREM GathersOnce == Spec => Gathers
<1>1. Init => Abstract!Init
  BY InitAbs
<1>2. IInv /\ IInv' /\ [Next]_vars
        => [Abstract!Next]_<<[n \in Nodes |-> Held(n)], [i \in Ids |-> StageOf(i)],
              [i \in Ids |-> IF Gathered(i) THEN Cardinality(req[i].subs) ELSE 0],
              [i \in Ids |-> ReadsOf(i)]>>
  <2>1. IInv /\ IInv' /\ UNCHANGED vars => Abstract!Next
    BY StillAbs DEF vars
  <2> QED
    BY <2>1, NextAbs
<1> QED
  BY <1>1, <1>2, Invariant, PTL DEF Spec, Gathers, Abstract!Spec
=============================================================================
