----------------------------- MODULE LobbyProofs -----------------------------
(***************************************************************************)
(* Theorems about Lobby, for any sockets on any set of nodes, any number   *)
(* of joinLobby handlers in flight, and any joins and leaves.              *)
(*                                                                         *)
(* Announcements of one socket reach a node in the order they were sent,   *)
(* so what matters of a queue is its last word on a socket (LastWord).     *)
(* A list may be read at any time before or after an announcement is       *)
(* heard: Known says that one of the two will name a member, Ghosts that   *)
(* whatever names somebody who has left is followed by the word of it.     *)
(***************************************************************************)
EXTENDS Lobby, SequenceTheorems, TLAPS

Mail(n) == Range(inbox[n])

Packets == [on: Announcements, sock: Sockets] \cup [on: {"asked"}, call: Calls]
           \cup [on: {"answer"}, call: Calls, node: Nodes, members: SUBSET Sockets]

\* Every a in the queue q is followed by a b.
Follows(q, a, b) ==
    \A k \in DOMAIN q : q[k] = a => \E l \in DOMAIN q : l > k /\ q[l] = b

Busy(c) == /\ call[c].pc \in {"count", "fetch"}
           /\ call[c].sock \in Sockets /\ NodeOf[call[c].sock] \in up
           /\ sock[call[c].sock] # "new"

Typed ==
    /\ sock \in [Sockets -> {"new", "open", "gone"}]
    /\ lobby \subseteq Sockets /\ up \subseteq Nodes
    /\ \A s \in Sockets : /\ s \in lobby => Open(s)
                          /\ Open(s) => NodeOf[s] \in up
    /\ shown \in [Sockets -> SUBSET Sockets]
    /\ call \in [Calls -> CallRecord]
    /\ \A c \in Calls : call[c] = Idle \/ Busy(c)
    /\ inbox \in [Nodes -> Seq(Packets)]
    /\ \A n \in Nodes \ up : inbox[n] = <<>>
    /\ moves \in [Sockets -> Nat] /\ \A s \in Sockets : moves[s] <= Moves[s]

\* A node hears of sockets of other nodes only, and of each of them last what
\* it did last.
LastWord ==
    \A n \in Nodes :
        /\ \A m \in Mail(n) : m.on \in Announcements => NodeOf[m.sock] # n
        /\ \A t \in Sockets :
              /\ t \in lobby => Follows(inbox[n], Left(t), Joined(t))
              /\ t \notin lobby /\ NodeOf[t] \in up
                    => Follows(inbox[n], Joined(t), Left(t))

\* Nothing is on its way for a call that has not asked yet.
Fresh ==
    \A c \in Calls : call[c].pc = "count" =>
        \A n \in Nodes : \A m \in Mail(n) : m.on \notin Announcements => m.call # c

\* m is an answer to the call c.
AnswerOf(m, c) == m.on = "answer" /\ m.call = c

\* Who is on a list, or on its way to one, and has left since, has crossed it.
Lists(c, t) == \/ t \in call[c].seen
               \/ \E n \in Nodes : \E m \in Mail(n) : AnswerOf(m, c) /\ t \in m.members
Reads ==
    \A c \in Calls, t \in Sockets :
        call[c] # Idle /\ Open(call[c].sock) /\ Lists(c, t) =>
            t \in lobby \/ <<call[c].sock, t>> \in crossed \/ NodeOf[t] \notin up

\* The call c of s will not end without the member t on its list.
WillList(c, s, t) ==
    /\ call[c].sock = s
    /\ \/ t \in call[c].seen
       \/ /\ NodeOf[t] # NodeOf[s]
          /\ call[c].pc = "fetch" => NodeOf[t] \in call[c].pending
          /\ \A n \in Nodes : \A m \in Mail(n) :
                AnswerOf(m, c) /\ m.node = NodeOf[t] => t \in m.members

\* s shows t, or will do so.
Told(s, t) == \/ t \in shown[s] \/ Joined(t) \in Mail(NodeOf[s])
              \/ \E c \in Calls : WillList(c, s, t)

Known == \A s, t \in lobby : s = t \/ s \in failed \/ Told(s, t)

Ghosts ==
    \A s \in lobby : \A t \in shown[s] \ lobby :
        \/ NodeOf[t] \notin up \/ <<s, t>> \in crossed
        \/ Left(t) \in Mail(NodeOf[s])

IInv == Typed /\ LastWord /\ Fresh /\ Reads /\ Known /\ Ghosts
------------------------------------------------------------------------------
\* Queues.

\* The first message is taken from a queue.
LEMMA TailQueue ==
    ASSUME NEW S, NEW q \in Seq(S), q # <<>>
    PROVE  /\ Head(q) \in S /\ Head(q) \in Range(q) /\ Tail(q) \in Seq(S)
           /\ Range(Tail(q)) \subseteq Range(q)
           /\ Range(q) \subseteq Range(Tail(q)) \cup {Head(q)}
           /\ \A a, b : Follows(q, a, b) =>
                 /\ Follows(Tail(q), a, b)
                 /\ Head(q) = a /\ a # b => b \in Range(Tail(q))
<1> DEFINE t == Tail(q)
<1>1. /\ Len(q) \in Nat \ {0} /\ DOMAIN q = 1..Len(q)
      /\ Head(q) = q[1] /\ Head(q) \in S
  BY EmptySeq, HeadTailProperties
<1>2. /\ t \in Seq(S) /\ Len(t) = Len(q) - 1
      /\ \A k \in 1..Len(t) : t[k] = q[k+1]
  BY HeadTailProperties
<1>3. DOMAIN t = 1..Len(t)
  BY <1>2, LenProperties
<1> HIDE DEF t
<1>4. \A k \in DOMAIN t : k + 1 \in DOMAIN q /\ t[k] = q[k+1]
  BY <1>1, <1>2, <1>3
<1>5. \A l \in DOMAIN q : l > 1 => l - 1 \in DOMAIN t /\ t[l - 1] = q[l]
  <2> SUFFICES ASSUME NEW l \in DOMAIN q, l > 1
               PROVE  l - 1 \in DOMAIN t /\ t[l - 1] = q[l]
    OBVIOUS
  <2>1. l - 1 \in 1..Len(t) /\ l = (l - 1) + 1
    BY <1>1, <1>2
  <2> QED
    BY <1>2, <1>3, <2>1
<1>6. 1 \in DOMAIN q /\ \A l \in DOMAIN q : l = 1 \/ l > 1
  BY <1>1
<1>7. Range(t) \subseteq Range(q) /\ Range(q) \subseteq Range(t) \cup {Head(q)}
  BY <1>1, <1>4, <1>5, <1>6 DEF Range
<1>8. ASSUME NEW a, NEW b, Follows(q, a, b)
      PROVE  /\ Follows(t, a, b)
             /\ Head(q) = a => b \in Range(t)
  <2>1. ASSUME NEW k \in DOMAIN t, t[k] = a
        PROVE  \E l \in DOMAIN t : l > k /\ t[l] = b
    <3>1. k + 1 \in DOMAIN q /\ q[k+1] = a
      BY <1>4, <2>1
    <3>2. PICK l \in DOMAIN q : l > k + 1 /\ q[l] = b
      BY <1>8, <3>1 DEF Follows
    <3>3. l > 1 /\ l - 1 > k
      BY <1>1, <1>3, <1>2, <3>2
    <3> QED
      BY <1>5, <3>2, <3>3
  <2>2. ASSUME Head(q) = a PROVE b \in Range(t)
    <3>1. PICK l \in DOMAIN q : l > 1 /\ q[l] = b
      BY <1>1, <1>6, <1>8, <2>2 DEF Follows
    <3> QED
      BY <1>5, <3>1 DEF Range
  <2> QED
    BY <2>1, <2>2 DEF Follows
<1>9. Head(q) \in Range(q)
  BY <1>1, <1>6 DEF Range
<1> QED
  BY <1>1, <1>2, <1>7, <1>8, <1>9 DEF t

\* A message is put at the end of a queue.
LEMMA AppendQueue ==
    ASSUME NEW S, NEW q \in Seq(S), NEW x \in S
    PROVE  /\ Append(q, x) \in Seq(S)
           /\ Range(Append(q, x)) = Range(q) \cup {x}
           /\ \A a, b : Follows(q, a, b) /\ x # a => Follows(Append(q, x), a, b)
           /\ \A a : a # x => Follows(Append(q, x), a, x)
<1> DEFINE t == Append(q, x)
<1>1. /\ t \in Seq(S) /\ Len(t) = Len(q) + 1 /\ Len(q) \in Nat
      /\ DOMAIN q = 1..Len(q) /\ DOMAIN t = 1..Len(t)
      /\ \A k \in 1..Len(q) : t[k] = q[k]
      /\ t[Len(t)] = x
  BY LenProperties
<1> HIDE DEF t
<1>2. /\ Len(t) \in DOMAIN t
      /\ \A k \in DOMAIN q : k \in DOMAIN t /\ t[k] = q[k] /\ Len(t) > k
      /\ \A k \in DOMAIN t : k \in DOMAIN q \/ k = Len(t)
  BY <1>1
<1>3. Range(t) = Range(q) \cup {x}
  <2>1. Range(t) \subseteq Range(q) \cup {x}
    BY <1>1, <1>2 DEF Range
  <2>2. Range(q) \subseteq Range(t)
    BY <1>2 DEF Range
  <2>3. x \in Range(t)
    BY <1>1, <1>2 DEF Range
  <2> QED
    BY <2>1, <2>2, <2>3
<1>4. ASSUME NEW a, NEW b, Follows(q, a, b), x # a
      PROVE  Follows(t, a, b)
  <2> SUFFICES ASSUME NEW k \in DOMAIN t, t[k] = a
               PROVE  \E l \in DOMAIN t : l > k /\ t[l] = b
    BY DEF Follows
  <2>1. k \in DOMAIN q /\ q[k] = a
    BY <1>1, <1>2, <1>4
  <2> QED
    BY <1>2, <1>4, <2>1 DEF Follows
<1>5. ASSUME NEW a, a # x PROVE Follows(t, a, x)
  <2> SUFFICES ASSUME NEW k \in DOMAIN t, t[k] = a
               PROVE  \E l \in DOMAIN t : l > k /\ t[l] = x
    BY DEF Follows
  <2>1. k \in DOMAIN q
    BY <1>1, <1>2, <1>5
  <2> QED
    BY <1>1, <1>2, <2>1
<1> QED
  BY <1>1, <1>3, <1>4, <1>5 DEF t

\* What a packet consists of.
LEMMA PacketForms ==
    /\ \A s \in Sockets :
          /\ Joined(s) \in Packets /\ Joined(s).on = "joined" /\ Joined(s).sock = s
          /\ Left(s) \in Packets /\ Left(s).on = "left" /\ Left(s).sock = s
    /\ \A c \in Calls : /\ Asked(c) \in Packets /\ Asked(c).on = "asked"
                        /\ Asked(c).call = c
    /\ \A m \in Packets :
          \/ m.on \in Announcements /\ m.sock \in Sockets
             /\ (m = Joined(m.sock) \/ m = Left(m.sock))
          \/ m.on = "asked" /\ m.call \in Calls
          \/ m.on = "answer" /\ m.call \in Calls /\ m.node \in Nodes
             /\ m.members \subseteq Sockets
<1>1. \A m \in [on: Announcements, sock: Sockets] :
         m.on \in Announcements /\ m.sock \in Sockets
         /\ (m = Joined(m.sock) \/ m = Left(m.sock))
  BY DEF Announcements, Joined, Left
<1> QED
  BY <1>1 DEF Packets, Announcements, Joined, Left, Asked

\* Announcements that differ in kind or socket differ.
LEMMA WordsDiffer ==
    /\ \A s, t : Joined(s) # Left(t)
    /\ \A s, t : s # t => Joined(s) # Joined(t) /\ Left(s) # Left(t)
  BY DEF Joined, Left

\* A node's mail consists of packets, and a node that is down has none.
LEMMA MailType ==
    ASSUME Typed, NEW n \in Nodes
    PROVE  /\ Mail(n) \subseteq Packets
           /\ n \notin up => Mail(n) = {}
<1>1. inbox[n] \in Seq(Packets) /\ DOMAIN inbox[n] = 1..Len(inbox[n])
  BY LenProperties DEF Typed
<1>2. \A k \in 1..Len(inbox[n]) : inbox[n][k] \in Packets
  BY <1>1, ElementOfSeq
<1>3. n \notin up => DOMAIN inbox[n] = {}
  BY DEF Typed
<1> QED
  BY <1>1, <1>2, <1>3 DEF Mail, Range

\* A node publishes m.
LEMMA PublishQueue ==
    ASSUME Typed, NEW n \in Nodes, NEW m \in Packets, Publish(n, m)
    PROVE  /\ inbox' \in [Nodes -> Seq(Packets)]
           /\ \A x \in Nodes : Mail(x)' = Mail(x) \cup IF x \in up \ {n} THEN {m} ELSE {}
           /\ \A x \in Nodes \ up : inbox'[x] = <<>>
           /\ \A x \in Nodes : \A a, b :
                 Follows(inbox[x], a, b) /\ m # a => Follows(inbox'[x], a, b)
           /\ \A x \in Nodes : \A a :
                 a # m /\ (x \in up \ {n} \/ Follows(inbox[x], a, m))
                     => Follows(inbox'[x], a, m)
<1>1. ASSUME NEW x \in Nodes
      PROVE  /\ inbox'[x] \in Seq(Packets)
             /\ Range(inbox'[x]) = Range(inbox[x]) \cup IF x \in up \ {n} THEN {m} ELSE {}
             /\ x \notin up => inbox'[x] = <<>>
             /\ \A a, b : Follows(inbox[x], a, b) /\ m # a => Follows(inbox'[x], a, b)
             /\ \A a : a # m /\ (x \in up \ {n} \/ Follows(inbox[x], a, m))
                          => Follows(inbox'[x], a, m)
  <2>1. inbox[x] \in Seq(Packets)
    BY DEF Typed
  <2>2. CASE x \in up \ {n}
    <3>1. inbox'[x] = Append(inbox[x], m)
      BY <2>2 DEF Publish
    <3>2. /\ Append(inbox[x], m) \in Seq(Packets)
          /\ Range(Append(inbox[x], m)) = Range(inbox[x]) \cup {m}
          /\ \A a, b : Follows(inbox[x], a, b) /\ m # a => Follows(Append(inbox[x], m), a, b)
          /\ \A a : a # m => Follows(Append(inbox[x], m), a, m)
      BY <2>1, AppendQueue, Zenon
    <3> QED
      BY <2>2, <3>1, <3>2
  <2>3. CASE x \notin up \ {n}
    <3>1. inbox'[x] = inbox[x]
      BY <2>3 DEF Publish
    <3>2. x \notin up => inbox[x] = <<>>
      BY DEF Typed
    <3> QED
      BY <2>1, <2>3, <3>1, <3>2
  <2> QED
    BY <2>2, <2>3
<1>2. inbox' = [x \in Nodes |-> inbox'[x]]
  BY DEF Publish
<1>3. inbox' \in [Nodes -> Seq(Packets)]
  BY <1>1, <1>2
<1> QED
  BY <1>1, <1>3 DEF Mail

\* A node takes its next message.
LEMMA RestQueue ==
    ASSUME Typed, NEW n \in Nodes, inbox[n] # <<>>
    PROVE  /\ Rest(n) \in [Nodes -> Seq(Packets)] /\ n \in up
           /\ Head(inbox[n]) \in Packets /\ Head(inbox[n]) \in Mail(n)
           /\ \A x \in Nodes : /\ Range(Rest(n)[x]) \subseteq Mail(x)
                               /\ Mail(x) \subseteq Range(Rest(n)[x])
                                     \cup IF x = n THEN {Head(inbox[n])} ELSE {}
           /\ \A x \in Nodes \ up : Rest(n)[x] = <<>>
           /\ \A x \in Nodes : \A a, b :
                 Follows(inbox[x], a, b) => Follows(Rest(n)[x], a, b)
           /\ \A a, b : Follows(inbox[n], a, b) /\ Head(inbox[n]) = a /\ a # b
                           => b \in Range(Rest(n)[n])
<1>1. inbox[n] \in Seq(Packets) /\ inbox \in [Nodes -> Seq(Packets)]
  BY DEF Typed
<1>2. /\ Rest(n) = [x \in Nodes |-> IF x = n THEN Tail(inbox[n]) ELSE inbox[x]]
  BY <1>1 DEF Rest
<1>3. /\ Head(inbox[n]) \in Packets /\ Head(inbox[n]) \in Range(inbox[n])
      /\ Tail(inbox[n]) \in Seq(Packets)
      /\ Range(Tail(inbox[n])) \subseteq Range(inbox[n])
      /\ Range(inbox[n]) \subseteq Range(Tail(inbox[n])) \cup {Head(inbox[n])}
      /\ \A a, b : Follows(inbox[n], a, b) =>
            /\ Follows(Tail(inbox[n]), a, b)
            /\ Head(inbox[n]) = a /\ a # b => b \in Range(Tail(inbox[n]))
  BY <1>1, TailQueue, Zenon
<1>4. \A x \in Nodes \ up : inbox[x] = <<>>
  BY DEF Typed
<1>5. Rest(n)[n] = Tail(inbox[n]) /\ \A x \in Nodes \ {n} : Rest(n)[x] = inbox[x]
  BY <1>2
<1>6. Rest(n) \in [Nodes -> Seq(Packets)]
  BY <1>1, <1>2, <1>3
<1>7. n \in up
  BY <1>4
<1>8. \A x \in Nodes : /\ Range(Rest(n)[x]) \subseteq Mail(x)
                       /\ Mail(x) \subseteq Range(Rest(n)[x])
                             \cup IF x = n THEN {Head(inbox[n])} ELSE {}
  BY <1>3, <1>5 DEF Mail
<1>9. \A x \in Nodes : \A a, b :
         Follows(inbox[x], a, b) => Follows(Rest(n)[x], a, b)
  BY <1>3, <1>5
<1> QED
  BY <1>3, <1>4, <1>5, <1>6, <1>7, <1>8, <1>9 DEF Mail

\* A node answers the call c.
LEMMA AnswerQueue ==
    ASSUME Typed, NEW n \in Nodes, inbox[n] # <<>>, NEW y \in up, NEW r \in Packets,
           r.on = "answer", inbox' = [Rest(n) EXCEPT ![y] = Append(@, r)]
    PROVE  /\ inbox' \in [Nodes -> Seq(Packets)]
           /\ \A x \in Nodes : /\ Mail(x)' \subseteq Mail(x) \cup {r}
                               /\ Mail(x) \subseteq Mail(x)'
                                     \cup IF x = n THEN {Head(inbox[n])} ELSE {}
           /\ \A x \in Nodes \ up : inbox'[x] = <<>>
           /\ \A x \in Nodes : \A t \in Sockets :
                 /\ Follows(inbox[x], Joined(t), Left(t)) =>
                       Follows(inbox'[x], Joined(t), Left(t))
                 /\ Follows(inbox[x], Left(t), Joined(t)) =>
                       Follows(inbox'[x], Left(t), Joined(t))
<1>1. /\ Rest(n) \in [Nodes -> Seq(Packets)] /\ y \in Nodes
      /\ \A x \in Nodes : /\ Range(Rest(n)[x]) \subseteq Mail(x)
                          /\ Mail(x) \subseteq Range(Rest(n)[x])
                                \cup IF x = n THEN {Head(inbox[n])} ELSE {}
      /\ \A x \in Nodes \ up : Rest(n)[x] = <<>>
      /\ \A x \in Nodes : \A a, b :
            Follows(inbox[x], a, b) => Follows(Rest(n)[x], a, b)
  BY RestQueue, Zenon DEF Typed
<1>2. inbox' = [x \in Nodes |-> IF x = y THEN Append(Rest(n)[y], r) ELSE Rest(n)[x]]
  BY <1>1
<1>3. /\ Append(Rest(n)[y], r) \in Seq(Packets)
      /\ Range(Append(Rest(n)[y], r)) = Range(Rest(n)[y]) \cup {r}
      /\ \A a, b : Follows(Rest(n)[y], a, b) /\ r # a => Follows(Append(Rest(n)[y], r), a, b)
  <2>1. PICK q \in Seq(Packets) : q = Rest(n)[y]
    BY <1>1
  <2>2. /\ Append(q, r) \in Seq(Packets) /\ Range(Append(q, r)) = Range(q) \cup {r}
        /\ \A a, b : Follows(q, a, b) /\ r # a => Follows(Append(q, r), a, b)
    BY AppendQueue
  <2> QED
    BY <2>1, <2>2
<1>4. inbox'[y] = Append(Rest(n)[y], r) /\ \A x \in Nodes \ {y} : inbox'[x] = Rest(n)[x]
  BY <1>1, <1>2
<1>5. inbox' \in [Nodes -> Seq(Packets)]
  BY <1>1, <1>2, <1>3
<1>6. \A t \in Sockets : r # Joined(t) /\ r # Left(t)
  BY PacketForms
<1>7. ASSUME NEW x \in Nodes, NEW a, NEW b, Follows(inbox[x], a, b), r # a
      PROVE  Follows(inbox'[x], a, b)
  <2>1. Follows(Rest(n)[x], a, b)
    BY <1>1, <1>7
  <2> QED
    BY <1>3, <1>4, <1>7, <2>1
<1>8. \A x \in Nodes : /\ Mail(x)' \subseteq Mail(x) \cup {r}
                       /\ Mail(x) \subseteq Mail(x)'
                             \cup IF x = n THEN {Head(inbox[n])} ELSE {}
  BY <1>1, <1>3, <1>4 DEF Mail
<1> QED
  BY <1>1, <1>4, <1>5, <1>6, <1>7, <1>8

\* An announcement changes what members show, by one socket.
LEMMA HeardViews ==
    ASSUME Typed, NEW n \in Nodes, NEW t \in Sockets, NEW m \in {Joined(t), Left(t)}
    PROVE  /\ Heard(shown, n, m) \in [Sockets -> SUBSET Sockets]
           /\ \A s \in Sockets :
                 /\ s \notin Local(n) \/ s = t => Heard(shown, n, m)[s] = shown[s]
                 /\ m = Joined(t) /\ s \in Local(n) \ {t}
                       => Heard(shown, n, m)[s] = shown[s] \cup {t}
                 /\ m = Left(t) /\ s \in Local(n) \ {t}
                       => Heard(shown, n, m)[s] = shown[s] \ {t}
<1>1. m.sock = t /\ (m = Joined(t) => m.on = "joined") /\ (m = Left(t) => m.on = "left")
  BY DEF Joined, Left
<1>2. shown \in [Sockets -> SUBSET Sockets]
  BY DEF Typed
<1> QED
  BY <1>1, <1>2, WordsDiffer DEF Heard

\* What an announcement does to the views, ...
LEMMA AnnounceViews ==
    ASSUME Typed, NEW s \in Sockets, NEW m \in {Joined(s), Left(s)}, Announce(s, m)
    PROVE  /\ shown' \in [Sockets -> SUBSET Sockets] /\ shown'[s] = {}
           /\ Publish(NodeOf[s], m)
           /\ \A x \in Sockets \ {s} :
                 /\ x \notin Local(NodeOf[s]) => shown'[x] = shown[x]
                 /\ m = Joined(s) /\ x \in Local(NodeOf[s]) => shown'[x] = shown[x] \cup {s}
                 /\ m = Left(s) /\ x \in Local(NodeOf[s]) => shown'[x] = shown[x] \ {s}
<1> DEFINE v == Heard(shown, NodeOf[s], m)
<1>1. NodeOf[s] \in Nodes
  BY NodeOfType
<1>2. /\ v \in [Sockets -> SUBSET Sockets]
      /\ \A x \in Sockets :
            /\ x \notin Local(NodeOf[s]) \/ x = s => v[x] = shown[x]
            /\ m = Joined(s) /\ x \in Local(NodeOf[s]) \ {s} => v[x] = shown[x] \cup {s}
            /\ m = Left(s) /\ x \in Local(NodeOf[s]) \ {s} => v[x] = shown[x] \ {s}
  <2>1. PICK n \in Nodes : n = NodeOf[s]
    BY <1>1, Zenon
  <2>2. /\ Heard(shown, n, m) \in [Sockets -> SUBSET Sockets]
        /\ \A x \in Sockets :
              /\ x \notin Local(n) \/ x = s => Heard(shown, n, m)[x] = shown[x]
              /\ m = Joined(s) /\ x \in Local(n) \ {s}
                    => Heard(shown, n, m)[x] = shown[x] \cup {s}
              /\ m = Left(s) /\ x \in Local(n) \ {s}
                    => Heard(shown, n, m)[x] = shown[x] \ {s}
    BY HeardViews
  <2> QED
    BY <2>1, <2>2, Zenon
<1>3. shown' = [v EXCEPT ![s] = {}] /\ Publish(NodeOf[s], m)
  BY DEF Announce
<1> HIDE DEF v
<1>4. shown' \in [Sockets -> SUBSET Sockets] /\ shown'[s] = {}
  BY <1>2, <1>3
<1>5. \A x \in Sockets \ {s} : shown'[x] = v[x]
  BY <1>2, <1>3
<1>6. ASSUME NEW x \in Sockets \ {s}
      PROVE  /\ x \notin Local(NodeOf[s]) => shown'[x] = shown[x]
             /\ m = Joined(s) /\ x \in Local(NodeOf[s]) => shown'[x] = shown[x] \cup {s}
             /\ m = Left(s) /\ x \in Local(NodeOf[s]) => shown'[x] = shown[x] \ {s}
  <2>1. x \in Sockets /\ x # s /\ shown'[x] = v[x]
    BY <1>5
  <2>2. x \notin Local(NodeOf[s]) => v[x] = shown[x]
    BY <1>2, <2>1, Zenon
  <2>3. m = Joined(s) /\ x \in Local(NodeOf[s]) => v[x] = shown[x] \cup {s}
    BY <1>2, <2>1, Zenon
  <2>4. m = Left(s) /\ x \in Local(NodeOf[s]) => v[x] = shown[x] \ {s}
    BY <1>2, <2>1, Zenon
  <2> QED
    BY <2>1, <2>2, <2>3, <2>4
<1> QED
  BY <1>3, <1>4, <1>6, Zenon

\* The list of a call is shown to its client, if it is still there.
LEMMA ListedViews ==
    ASSUME Typed, NEW k \in CallRecord, k.sock \in Sockets, Listed(k)
    PROVE  /\ shown' \in [Sockets -> SUBSET Sockets]
           /\ \A x \in Sockets \ {k.sock} : shown'[x] = shown[x]
           /\ ~Open(k.sock) => shown'[k.sock] = shown[k.sock]
           /\ Open(k.sock) => shown'[k.sock] = shown[k.sock] \cup (k.seen \ {k.sock})
  BY DEF Listed, Typed, CallRecord

\* ... and a move to the counters.
LEMMA MovedTypes ==
    ASSUME Typed, NEW s \in Sockets, Moving(s)
    PROVE  moves' \in [Sockets -> Nat] /\ \A x \in Sockets : moves'[x] <= Moves[x]
<1>1. \A x \in Sockets : Moves[x] \in Nat /\ moves[x] \in Nat /\ moves[x] <= Moves[x]
  BY MovesType DEF Typed
<1>2. moves[s] < Moves[s] /\ moves' = [moves EXCEPT ![s] = moves[s] + 1]
  BY DEF Moving
<1> QED
  BY <1>1, <1>2 DEF Typed

\* What a joinLobby handler is when it starts.
LEMMA JoinFields ==
    ASSUME Typed, NEW c \in Calls, NEW s \in Sockets, JoinLobby(c, s)
    PROVE  /\ call' \in [Calls -> CallRecord]
           /\ \A d \in Calls \ {c} : call'[d] = call[d]
           /\ call'[c].sock = s /\ call'[c].pc = "count" /\ call'[c].pending = {}
           /\ call'[c].seen = Local(NodeOf[s]) \cup {s}
           /\ Open(s) /\ NodeOf[s] \in up /\ s \notin lobby /\ lobby' = lobby \cup {s}
           /\ call[c] = Idle
           /\ \A n \in Nodes : \A m \in Mail(n) : m.on \notin Announcements => m.call # c
           /\ Announce(s, Joined(s)) /\ UNCHANGED <<sock, up, failed, crossed>>
<1> DEFINE r == [pc |-> "count", sock |-> s, pending |-> {},
                 seen |-> Local(NodeOf[s]) \cup {s}]
<1>1. r \in CallRecord
  BY DEF CallRecord, Local, Typed
<1>2. /\ r.sock = s /\ r.pc = "count" /\ r.pending = {}
      /\ r.seen = Local(NodeOf[s]) \cup {s}
  OBVIOUS
<1>3. /\ call' = [call EXCEPT ![c] = r] /\ call \in [Calls -> CallRecord]
      /\ Open(s) /\ NodeOf[s] \in up /\ s \notin lobby /\ lobby' = lobby \cup {s}
      /\ Announce(s, Joined(s)) /\ UNCHANGED <<sock, up, failed, crossed>>
      /\ call[c] = Idle
  BY DEF JoinLobby, Reading, Free, Typed
<1>4. \A n \in Nodes : \A m \in Mail(n) : m.on \notin Announcements => m.call # c
  BY DEF JoinLobby, Free, Mail, Range
<1> HIDE DEF r
<1> QED
  BY <1>1, <1>2, <1>3, <1>4

\* A call that is not idle, and one that is.
LEMMA BusyIs ==
    ASSUME Typed, NEW c \in Calls
    PROVE  /\ Idle \in CallRecord /\ Idle.sock = None /\ Idle.seen = {} /\ Idle.pc = "idle"
           /\ None \notin Sockets
           /\ call[c] \in CallRecord
           /\ call[c] # Idle <=> Busy(c)
           /\ call[c] # Idle <=> call[c].sock \in Sockets
<1>1. /\ Idle \in CallRecord /\ Idle.sock = None /\ Idle.seen = {} /\ Idle.pc = "idle"
      /\ None \notin Sockets
  BY NoneIsNothing DEF Idle, CallRecord
<1>2. call[c] = Idle \/ Busy(c)
  BY DEF Typed
<1> QED
  BY <1>1, <1>2 DEF Busy, Typed

\* A join keeps the types, ...
LEMMA JoinTyped ==
    ASSUME Typed, NEW c \in Calls, NEW s \in Sockets, JoinLobby(c, s)
    PROVE  Typed'
<1>1. Joined(s) \in Packets /\ NodeOf[s] \in Nodes
  BY PacketForms, NodeOfType
<1>2. /\ inbox' \in [Nodes -> Seq(Packets)] /\ shown' \in [Sockets -> SUBSET Sockets]
      /\ \A x \in Nodes \ up : inbox'[x] = <<>>
  BY <1>1, JoinFields, AnnounceViews, PublishQueue
<1>3. moves' \in [Sockets -> Nat] /\ \A x \in Sockets : moves'[x] <= Moves[x]
  BY MovedTypes DEF JoinLobby
<1>4. \A d \in Calls : call'[d] = Idle \/ Busy(d)'
  <2>1. Busy(c)'
    BY JoinFields DEF Busy, Open
  <2>2. ASSUME NEW d \in Calls \ {c} PROVE call'[d] = Idle \/ Busy(d)'
    BY JoinFields DEF Busy, Typed
  <2> QED
    BY <2>1, <2>2
<1>5. sock' = sock /\ up' = up /\ lobby' = lobby \cup {s} /\ Open(s) /\ NodeOf[s] \in up
      /\ call' \in [Calls -> CallRecord]
  BY JoinFields
<1> QED
  BY <1>2, <1>3, <1>4, <1>5 DEF Typed, Open

\* leaveLobby, and the 'disconnecting' handler.
Parting(s) == /\ Open(s) /\ Leaving(s) /\ Announce(s, Left(s))
              /\ sock' = sock \/ sock' = [sock EXCEPT ![s] = "gone"]
              /\ moves' = moves \/ Moving(s)
              /\ UNCHANGED <<call, up, failed>>

\* ... a leave or a disconnection does, ...
LEMMA PartingTyped ==
    ASSUME Typed, NEW s \in Sockets, Parting(s)
    PROVE  Typed'
<1>1. Left(s) \in Packets /\ NodeOf[s] \in Nodes
  BY PacketForms, NodeOfType
<1>2. /\ inbox' \in [Nodes -> Seq(Packets)] /\ shown' \in [Sockets -> SUBSET Sockets]
      /\ \A x \in Nodes \ up : inbox'[x] = <<>>
  BY <1>1, AnnounceViews, PublishQueue DEF Parting
<1>3. moves' \in [Sockets -> Nat] /\ \A x \in Sockets : moves'[x] <= Moves[x]
  BY MovedTypes DEF Parting, Typed
<1>4. /\ sock' \in [Sockets -> {"new", "open", "gone"}] /\ lobby' = lobby \ {s}
      /\ \A x \in Sockets : /\ Open(x)' => Open(x)
                            /\ x # s => (Open(x)' <=> Open(x))
                            /\ sock[x] # "new" => sock'[x] # "new"
      /\ UNCHANGED <<call, up>>
  BY DEF Parting, Leaving, Open, Typed
<1>5. \A c \in Calls : call'[c] = Idle \/ Busy(c)'
  BY <1>4 DEF Typed, Busy
<1> QED
  BY <1>2, <1>3, <1>4, <1>5 DEF Typed

\* What a fetch does that asks the nodes, ...
LEMMA AskNodesFields ==
    ASSUME Typed, NEW c \in Calls, AskNodes(c)
    PROVE  /\ call' \in [Calls -> CallRecord] /\ call[c].pc = "count" /\ Busy(c)
           /\ \A d \in Calls \ {c} : call'[d] = call[d]
           /\ UNCHANGED <<sock, lobby, up, history>>
           /\ \/ /\ up \ {NodeOf[call[c].sock]} = {}
                 /\ Listed(call[c]) /\ call'[c] = Idle /\ inbox' = inbox
              \/ /\ call'[c].pc = "fetch" /\ call'[c].sock = call[c].sock
                 /\ call'[c].seen = call[c].seen
                 /\ up \ {NodeOf[call[c].sock]} \subseteq call'[c].pending
                 /\ Publish(NodeOf[call[c].sock], Asked(c)) /\ shown' = shown
<1> DEFINE k == call[c]
<1>0. PICK dead \in SUBSET (Nodes \ up) :
        LET others == (up \ {NodeOf[k.sock]}) \cup dead IN
        /\ k.pc = "count"
        /\ IF others = {}
           THEN Listed(k) /\ call' = [call EXCEPT ![c] = Idle] /\ UNCHANGED inbox
           ELSE /\ call' = [call EXCEPT ![c].pc = "fetch", ![c].pending = others]
                /\ Publish(NodeOf[k.sock], Asked(c))
                /\ UNCHANGED shown
        /\ UNCHANGED <<sock, lobby, up, history>>
  BY DEF AskNodes
<1> DEFINE others == (up \ {NodeOf[k.sock]}) \cup dead
<1>1. k \in CallRecord /\ call \in [Calls -> CallRecord] /\ k.pc = "count"
  BY <1>0 DEF Typed
<1>2. Busy(c)
  BY <1>1, BusyIs
<1>3. UNCHANGED <<sock, lobby, up, history>>
  BY <1>0
<1>4. CASE others = {}
  <2>1. Listed(k) /\ call' = [call EXCEPT ![c] = Idle] /\ inbox' = inbox
    BY <1>0, <1>4
  <2> QED
    BY <1>1, <1>2, <1>3, <1>4, <2>1, BusyIs
<1>5. CASE others # {}
  <2>1. /\ call' = [call EXCEPT ![c].pc = "fetch", ![c].pending = others]
        /\ Publish(NodeOf[k.sock], Asked(c)) /\ shown' = shown
    BY <1>0, <1>5
  <2> DEFINE r == [k EXCEPT !.pc = "fetch", !.pending = others]
  <2>2. others \subseteq Nodes
    BY DEF Typed
  <2>3. r \in CallRecord /\ r.pc = "fetch" /\ r.pending = others
        /\ r.sock = k.sock /\ r.seen = k.seen
    BY <1>1, <2>2 DEF CallRecord
  <2>4. call' = [call EXCEPT ![c] = r]
    BY <1>1, <2>1
  <2> HIDE DEF r
  <2>5. /\ call' \in [Calls -> CallRecord] /\ call'[c] = r
        /\ \A d \in Calls \ {c} : call'[d] = call[d]
    BY <1>1, <2>3, <2>4
  <2> QED
    BY <1>1, <1>2, <1>3, <2>1, <2>3, <2>5
<1> QED
  BY <1>4, <1>5

\* ... one that fails, ...
LEMMA FetchFailsFields ==
    ASSUME Typed, NEW c \in Calls, FetchFails(c)
    PROVE  /\ call' \in [Calls -> CallRecord] /\ Busy(c)
           /\ call'[c] = Idle /\ \A d \in Calls \ {c} : call'[d] = call[d]
           /\ failed' = failed \cup {call[c].sock}
           /\ UNCHANGED <<sock, lobby, shown, inbox, up, moves, crossed>>
<1>1. call[c] \in CallRecord /\ call \in [Calls -> CallRecord] /\ call[c].pc = "fetch"
  BY DEF Typed, FetchFails
<1>2. Busy(c)
  BY <1>1, BusyIs
<1> QED
  BY <1>1, <1>2, BusyIs DEF FetchFails

\* What the first message of a node is, by its kind.
LEMMA Arriving ==
    ASSUME Typed, NEW n \in Nodes, NEW ons, Arrives(n, ons)
    PROVE  /\ inbox[n] # <<>> /\ n \in up
           /\ Head(inbox[n]) \in Packets /\ Head(inbox[n]) \in Mail(n)
           /\ Head(inbox[n]).on \in ons
           /\ Head(inbox[n]).on = "asked" => Head(inbox[n]).call \in Calls
           /\ Head(inbox[n]).on = "answer" =>
                 /\ Head(inbox[n]).call \in Calls /\ Head(inbox[n]).node \in Nodes
                 /\ Head(inbox[n]).members \subseteq Sockets
           /\ Head(inbox[n]).on \in Announcements =>
                 /\ Head(inbox[n]).sock \in Sockets
                 /\ Head(inbox[n]) \in {Joined(Head(inbox[n]).sock),
                                        Left(Head(inbox[n]).sock)}
<1>1. inbox[n] # <<>> /\ Head(inbox[n]).on \in ons
  BY DEF Arrives
<1>2. /\ Head(inbox[n]) \in Packets /\ Head(inbox[n]) \in Mail(n) /\ n \in up
  BY <1>1, RestQueue, Zenon
<1> QED
  BY <1>1, <1>2, PacketForms DEF Announcements

\* ... a node that answers, ...
LEMMA AnswerFetchFields ==
    ASSUME Typed, NEW n \in Nodes, AnswerFetch(n)
    PROVE  /\ inbox[n] # <<>> /\ Head(inbox[n]) \in Mail(n) /\ Head(inbox[n]).on = "asked"
           /\ UNCHANGED <<sock, lobby, shown, call, up, history>>
           /\ \E c \in Calls :
                 /\ c = Head(inbox[n]).call
                 /\ inbox' = IF call[c] = Idle THEN Rest(n)
                     ELSE [Rest(n) EXCEPT ![NodeOf[call[c].sock]] = Append(@, Answer(c, n))]
<1>1. Arrives(n, {"asked"})
  BY DEF AnswerFetch
<1>2. /\ inbox[n] # <<>> /\ Head(inbox[n]) \in Mail(n) /\ Head(inbox[n]).on = "asked"
      /\ Head(inbox[n]).call \in Calls
  BY <1>1, Arriving
<1> QED
  BY <1>2 DEF AnswerFetch

\* ... an answer that arrives, ...
LEMMA HearAnswerFields ==
    ASSUME Typed, NEW n \in Nodes, HearAnswer(n)
    PROVE  \E m \in Mail(n) : \E k \in CallRecord :
              /\ m = Head(inbox[n]) /\ m.on = "answer" /\ m.call \in Calls
              /\ m.node \in Nodes /\ m.members \subseteq Sockets
              /\ call' \in [Calls -> CallRecord] /\ inbox' = Rest(n)
              /\ \A d \in Calls \ {m.call} : call'[d] = call[d]
              /\ k.pc = call[m.call].pc /\ k.sock = call[m.call].sock
              /\ k.seen = call[m.call].seen \cup m.members
              /\ k.pending = call[m.call].pending \ {m.node}
              /\ UNCHANGED <<sock, lobby, up, history>>
              /\ \/ call[m.call] = Idle /\ shown' = shown /\ call' = call
                 \/ /\ Busy(m.call) /\ k.pending = {} /\ Listed(k)
                    /\ call'[m.call] = Idle
                 \/ Busy(m.call) /\ shown' = shown /\ call'[m.call] = k
<1>1. PICK m \in Mail(n) :
         /\ m = Head(inbox[n]) /\ m.on = "answer" /\ m.call \in Calls
         /\ m.node \in Nodes /\ m.members \subseteq Sockets
  <2>1. Arrives(n, {"answer"})
    BY DEF HearAnswer
  <2> QED
    BY <2>1, Arriving
<1> DEFINE k == [call[m.call] EXCEPT !.seen = @ \cup m.members, !.pending = @ \ {m.node}]
<1>2. call[m.call] \in CallRecord /\ call \in [Calls -> CallRecord]
  BY <1>1 DEF Typed
<1>3. /\ k \in CallRecord
      /\ k.pc = call[m.call].pc /\ k.sock = call[m.call].sock
      /\ k.seen = call[m.call].seen \cup m.members
      /\ k.pending = call[m.call].pending \ {m.node}
  BY <1>1, <1>2 DEF CallRecord
<1>4. /\ IF call[m.call] = Idle THEN UNCHANGED <<shown, call>>
         ELSE IF k.pending = {}
         THEN Listed(k) /\ call' = [call EXCEPT ![m.call] = Idle]
         ELSE call' = [call EXCEPT ![m.call] = k] /\ UNCHANGED shown
      /\ inbox' = Rest(n)
      /\ UNCHANGED <<sock, lobby, up, history>>
  BY <1>1 DEF HearAnswer
<1>5. call[m.call] # Idle => Busy(m.call)
  BY <1>1, BusyIs
<1> HIDE DEF k
<1>6. \/ call[m.call] = Idle /\ shown' = shown /\ call' = call
      \/ Busy(m.call) /\ k.pending = {} /\ Listed(k) /\ call' = [call EXCEPT ![m.call] = Idle]
      \/ Busy(m.call) /\ shown' = shown /\ call' = [call EXCEPT ![m.call] = k]
  BY <1>4, <1>5, Zenon
<1>7. /\ call' \in [Calls -> CallRecord]
      /\ \A d \in Calls \ {m.call} : call'[d] = call[d]
      /\ \/ call[m.call] = Idle /\ shown' = shown /\ call' = call
         \/ /\ Busy(m.call) /\ k.pending = {} /\ Listed(k)
            /\ call'[m.call] = Idle
         \/ Busy(m.call) /\ shown' = shown /\ call'[m.call] = k
  <2>1. Idle \in CallRecord /\ call \in [Calls -> CallRecord]
    BY <1>1, BusyIs DEF Typed
  <2>2. CASE call[m.call] = Idle /\ shown' = shown /\ call' = call
    BY <2>1, <2>2, Zenon
  <2>3. CASE Busy(m.call) /\ k.pending = {} /\ Listed(k) /\ call' = [call EXCEPT ![m.call] = Idle]
    BY <1>1, <2>1, <2>3
  <2>4. CASE Busy(m.call) /\ shown' = shown /\ call' = [call EXCEPT ![m.call] = k]
    BY <1>1, <1>3, <2>1, <2>4
  <2> QED
    BY <1>6, <2>2, <2>3, <2>4, Zenon
<1> QED
  BY <1>1, <1>3, <1>4, <1>7, Zenon

\* ... and the end of a process.
LEMMA CrashFields ==
    ASSUME Typed, NEW n \in Nodes, Crash(n)
    PROVE  /\ n \in up /\ up' = up \ {n} /\ lobby' = {s \in lobby : NodeOf[s] # n}
           /\ sock' \in [Sockets -> {"new", "open", "gone"}]
           /\ shown' \in [Sockets -> SUBSET Sockets]
           /\ \A s \in Sockets : IF NodeOf[s] = n THEN sock'[s] = "gone" /\ shown'[s] = {}
                                 ELSE sock'[s] = sock[s] /\ shown'[s] = shown[s]
           /\ call' \in [Calls -> CallRecord]
           /\ \A c \in Calls : IF call[c].sock \in Sockets /\ NodeOf[call[c].sock] = n
                              THEN call'[c] = Idle ELSE call'[c] = call[c]
           /\ inbox' \in [Nodes -> Seq(Packets)]
           /\ inbox'[n] = <<>> /\ \A x \in Nodes \ {n} : inbox'[x] = inbox[x]
           /\ UNCHANGED history
<1> DEFINE here == {s \in Sockets : NodeOf[s] = n}
<1>1. /\ n \in up /\ up' = up \ {n} /\ lobby' = lobby \ here
      /\ sock' = [s \in Sockets |-> IF s \in here THEN "gone" ELSE sock[s]]
      /\ shown' = [s \in Sockets |-> IF s \in here THEN {} ELSE shown[s]]
      /\ call' = [c \in Calls |-> IF call[c].sock \in here THEN Idle ELSE call[c]]
      /\ inbox' = [inbox EXCEPT ![n] = <<>>]
      /\ UNCHANGED history
  BY DEF Crash
<1>2. /\ lobby \subseteq Sockets /\ sock \in [Sockets -> {"new", "open", "gone"}]
      /\ shown \in [Sockets -> SUBSET Sockets] /\ inbox \in [Nodes -> Seq(Packets)]
  BY DEF Typed
<1>3. lobby' = {s \in lobby : NodeOf[s] # n}
  BY <1>1, <1>2
<1>4. /\ sock' \in [Sockets -> {"new", "open", "gone"}]
      /\ shown' \in [Sockets -> SUBSET Sockets]
      /\ \A s \in Sockets : IF NodeOf[s] = n THEN sock'[s] = "gone" /\ shown'[s] = {}
                            ELSE sock'[s] = sock[s] /\ shown'[s] = shown[s]
  BY <1>1, <1>2
<1>5. /\ call' \in [Calls -> CallRecord]
      /\ \A c \in Calls : IF call[c].sock \in Sockets /\ NodeOf[call[c].sock] = n
                         THEN call'[c] = Idle ELSE call'[c] = call[c]
  BY <1>1, BusyIs
<1>6. /\ inbox' \in [Nodes -> Seq(Packets)]
      /\ inbox'[n] = <<>> /\ \A x \in Nodes \ {n} : inbox'[x] = inbox[x]
  <2>1. <<>> \in Seq(Packets)
    BY EmptySeq
  <2> QED
    BY <1>1, <1>2, <2>1
<1> QED
  BY <1>1, <1>3, <1>4, <1>5, <1>6

\* Every step but those of joinLobby, leaveLobby and 'disconnecting'.
Other(s, c, n) == \/ s \in Sockets /\ Connect(s)
                  \/ c \in Calls /\ (AskNodes(c) \/ FetchFails(c))
                  \/ n \in Nodes /\ \/ HearAnnouncement(n) \/ AnswerFetch(n)
                                    \/ HearAnswer(n) \/ Crash(n)
                  \/ UNCHANGED vars

\* They keep the types.
LEMMA OtherTyped ==
    ASSUME Typed, NEW s, NEW c, NEW n,
           Other(s, c, n)
    PROVE  Typed'
<1>1. CASE s \in Sockets /\ Connect(s)
  <2>1. /\ sock[s] = "new" /\ NodeOf[s] \in up /\ sock' = [sock EXCEPT ![s] = "open"]
        /\ UNCHANGED <<lobby, shown, call, inbox, up, moves>>
    BY <1>1 DEF Connect, history
  <2>2. \A x \in Sockets : /\ x \in lobby => Open(x)'
                           /\ Open(x)' => NodeOf[x] \in up
    BY <2>1 DEF Typed, Open
  <2>3. sock' \in [Sockets -> {"new", "open", "gone"}]
    BY <2>1 DEF Typed
  <2>4. \A d \in Calls : call'[d] = Idle \/ Busy(d)'
    BY <2>1, <2>3 DEF Typed, Busy
  <2> QED
    BY <2>1, <2>2, <2>3, <2>4 DEF Typed
<1>2. CASE c \in Calls /\ AskNodes(c)
  <2>1. /\ inbox' \in [Nodes -> Seq(Packets)] /\ shown' \in [Sockets -> SUBSET Sockets]
        /\ \A x \in Nodes \ up : inbox'[x] = <<>>
    <3>1. call[c] \in CallRecord /\ call[c].sock \in Sockets /\ NodeOf[call[c].sock] \in Nodes
      BY <1>2, AskNodesFields DEF Busy, Typed
    <3>2. CASE Listed(call[c]) /\ inbox' = inbox
      BY <3>1, <3>2, ListedViews DEF Typed
    <3>3. CASE Publish(NodeOf[call[c].sock], Asked(c)) /\ shown' = shown
      BY <1>2, <3>1, <3>3, PacketForms, PublishQueue DEF Typed
    <3> QED
      BY <1>2, <3>2, <3>3, AskNodesFields
  <2>2. \A d \in Calls : call'[d] = Idle \/ Busy(d)'
    BY <1>2, AskNodesFields DEF Typed, Busy
  <2>3. /\ call' \in [Calls -> CallRecord] /\ UNCHANGED <<sock, lobby, up, moves>>
    BY <1>2, AskNodesFields DEF history
  <2> QED
    BY <2>1, <2>2, <2>3 DEF Typed, Open
<1>3. CASE c \in Calls /\ FetchFails(c)
  <2>1. \A d \in Calls : call'[d] = Idle \/ Busy(d)'
    BY <1>3, FetchFailsFields DEF Typed, Busy
  <2>2. /\ call' \in [Calls -> CallRecord]
        /\ UNCHANGED <<sock, lobby, shown, inbox, up, moves>>
    BY <1>3, FetchFailsFields
  <2> QED
    BY <2>1, <2>2 DEF Typed, Open
<1>4. CASE n \in Nodes /\ HearAnnouncement(n)
  <2>1. /\ Arrives(n, Announcements) /\ shown' = Heard(shown, n, Head(inbox[n]))
        /\ inbox' = Rest(n) /\ UNCHANGED <<sock, lobby, call, up, moves>>
    BY <1>4 DEF HearAnnouncement, history
  <2>2. /\ inbox[n] # <<>> /\ Head(inbox[n]).sock \in Sockets
        /\ Head(inbox[n]) \in {Joined(Head(inbox[n]).sock), Left(Head(inbox[n]).sock)}
    BY <1>4, <2>1, Arriving
  <2>3. shown' \in [Sockets -> SUBSET Sockets]
    BY <1>4, <2>1, <2>2, HeardViews
  <2>4. inbox' \in [Nodes -> Seq(Packets)] /\ \A x \in Nodes \ up : inbox'[x] = <<>>
    BY <1>4, <2>1, <2>2, RestQueue
  <2> QED
    BY <2>1, <2>3, <2>4 DEF Typed, Open, Busy
<1>5. CASE n \in Nodes /\ AnswerFetch(n)
  <2>1. PICK d \in Calls :
           /\ inbox[n] # <<>>
           /\ inbox' = IF call[d] = Idle THEN Rest(n)
                       ELSE [Rest(n) EXCEPT ![NodeOf[call[d].sock]] = Append(@, Answer(d, n))]
    BY <1>5, AnswerFetchFields
  <2>2. inbox' \in [Nodes -> Seq(Packets)] /\ \A x \in Nodes \ up : inbox'[x] = <<>>
    <3>1. CASE call[d] = Idle
      BY <1>5, <2>1, <3>1, RestQueue
    <3>2. CASE call[d] # Idle
      <4>1. Answer(d, n) \in Packets /\ Answer(d, n).on = "answer"
        BY <1>5 DEF Answer, Packets, Local, Typed
      <4>2. NodeOf[call[d].sock] \in up
        BY <3>2, BusyIs DEF Busy
      <4> QED
        BY <1>5, <2>1, <3>2, <4>1, <4>2, AnswerQueue
    <3> QED
      BY <3>1, <3>2
  <2>3. UNCHANGED <<sock, lobby, shown, call, up, moves>>
    BY <1>5 DEF AnswerFetch, history
  <2> QED
    BY <2>2, <2>3 DEF Typed, Open, Busy
<1>6. CASE n \in Nodes /\ HearAnswer(n)
  <2>1. PICK m \in Mail(n), k \in CallRecord :
           /\ m.call \in Calls /\ inbox' = Rest(n) /\ k.sock = call[m.call].sock
           /\ k.pc = call[m.call].pc
           /\ call' \in [Calls -> CallRecord]
           /\ \A d \in Calls \ {m.call} : call'[d] = call[d]
           /\ UNCHANGED <<sock, lobby, up, history>>
           /\ \/ shown' = shown /\ call' = call
              \/ Busy(m.call) /\ Listed(k) /\ call'[m.call] = Idle
              \/ Busy(m.call) /\ shown' = shown /\ call'[m.call] = k
    BY <1>6, HearAnswerFields
  <2>2. inbox[n] # <<>>
    BY <1>6 DEF HearAnswer, Arrives
  <2>3. inbox' \in [Nodes -> Seq(Packets)] /\ \A x \in Nodes \ up : inbox'[x] = <<>>
    BY <1>6, <2>1, <2>2, RestQueue
  <2>4. shown' \in [Sockets -> SUBSET Sockets]
    BY <2>1, ListedViews DEF Typed, Busy
  <2>5. \A d \in Calls : call'[d] = Idle \/ Busy(d)'
    BY <2>1 DEF Typed, Busy
  <2> QED
    BY <2>1, <2>3, <2>4, <2>5 DEF Typed, Open, history
<1>7. CASE n \in Nodes /\ Crash(n)
  <2>1. /\ lobby' \subseteq Sockets /\ up' \subseteq Nodes
        /\ \A x \in Sockets : /\ x \in lobby' => Open(x)'
                              /\ Open(x)' => NodeOf[x] \in up'
    <3>1. up' = up \ {n} /\ lobby' = {x \in lobby : NodeOf[x] # n}
      BY <1>7, CrashFields
    <3>2. \A x \in Sockets : IF NodeOf[x] = n THEN ~Open(x)' ELSE (Open(x)' <=> Open(x))
      BY <1>7, CrashFields DEF Open
    <3>3. \A x \in Sockets : NodeOf[x] \in Nodes
      BY NodeOfType
    <3> QED
      BY <3>1, <3>2, <3>3 DEF Typed
  <2>2. \A x \in Nodes \ up' : inbox'[x] = <<>>
    BY <1>7, CrashFields DEF Typed
  <2>3. \A d \in Calls : call'[d] = Idle \/ Busy(d)'
    BY <1>7, CrashFields DEF Typed, Busy
  <2>4. moves' = moves
    BY <1>7, CrashFields DEF history
  <2> QED
    BY <1>7, <2>1, <2>2, <2>3, <2>4, CrashFields DEF Typed
<1>8. CASE UNCHANGED vars
  BY <1>8 DEF Typed, Open, Busy, vars, history
<1> QED
  BY <1>1, <1>2, <1>3, <1>4, <1>5, <1>6, <1>7, <1>8 DEF Other

\* What a step without an announcement does to the queues: nothing new is said
\* of a socket, and what is said stays in order.
Quiet == \A n \in Nodes :
    /\ \A m \in Mail(n)' : m \in Mail(n) \/ m.on \notin Announcements
    /\ \A t \in Sockets :
          /\ Follows(inbox[n], Left(t), Joined(t)) => Follows(inbox'[n], Left(t), Joined(t))
          /\ Follows(inbox[n], Joined(t), Left(t)) => Follows(inbox'[n], Joined(t), Left(t))

\* Nothing has to follow what is not there.
LEMMA FollowsNone ==
    /\ \A q, a, b : a \notin Range(q) => Follows(q, a, b)
    /\ \A a, b : Follows(<<>>, a, b)
    /\ Range(<<>>) = {}
  BY DEF Follows, Range

\* No announcement comes or goes if the queues are the same, ...
LEMMA SameQuiet == ASSUME inbox' = inbox PROVE Quiet
  BY DEF Quiet, Mail

\* ... if one packet is taken, ...
LEMMA RestQuiet ==
    ASSUME Typed, NEW n \in Nodes, inbox[n] # <<>>, inbox' = Rest(n)
    PROVE  Quiet /\ \A x \in Nodes : /\ Mail(x)' \subseteq Mail(x)
                                     /\ Mail(x) \subseteq Mail(x)'
                                           \cup IF x = n THEN {Head(inbox[n])} ELSE {}
<1>1. \A x \in Nodes : /\ Mail(x)' \subseteq Mail(x)
                       /\ Mail(x) \subseteq Mail(x)'
                             \cup IF x = n THEN {Head(inbox[n])} ELSE {}
  BY RestQueue DEF Mail
<1>2. \A x \in Nodes : \A a, b : Follows(inbox[x], a, b) => Follows(inbox'[x], a, b)
  BY RestQueue, Zenon
<1>3. Quiet
  BY <1>1, <1>2, Zenon DEF Quiet
<1> QED
  BY <1>1, <1>3

\* ... if a node answers a fetch, ...
LEMMA AnswerQuiet ==
    ASSUME Typed, NEW n \in Nodes, AnswerFetch(n)
    PROVE  /\ Quiet
           /\ \A x \in Nodes : Mail(x) \subseteq Mail(x)'
                 \cup IF x = n THEN {Head(inbox[n])} ELSE {}
           /\ \A x \in Nodes : \A m \in Mail(x)' :
                 \/ m \in Mail(x)
                 \/ /\ m.on = "answer" /\ m.members = Local(n) /\ m.node = n
                    /\ \E l \in Mail(n) : l.on = "asked" /\ l.call = m.call
<1>1. PICK c \in Calls :
         /\ inbox[n] # <<>> /\ Head(inbox[n]) \in Mail(n) /\ Head(inbox[n]).on = "asked"
         /\ c = Head(inbox[n]).call
         /\ inbox' = IF call[c] = Idle THEN Rest(n)
                     ELSE [Rest(n) EXCEPT ![NodeOf[call[c].sock]] = Append(@, Answer(c, n))]
  BY AnswerFetchFields
<1>2. CASE call[c] = Idle
  BY <1>1, <1>2, RestQuiet
<1>3. CASE call[c] # Idle
  <2> DEFINE r == Answer(c, n)
  <2>1. /\ r \in Packets /\ r.on = "answer" /\ r.members = Local(n)
        /\ r.node = n /\ r.call = c
    BY DEF Answer, Packets, Local, Typed
  <2>2. PICK y \in up : y = NodeOf[call[c].sock]
    BY <1>3, BusyIs DEF Busy
  <2> HIDE DEF r
  <2>3. inbox' = [Rest(n) EXCEPT ![y] = Append(@, r)]
    BY <1>1, <1>3, <2>2 DEF r
  <2>4. /\ \A x \in Nodes : /\ Mail(x)' \subseteq Mail(x) \cup {r}
                            /\ Mail(x) \subseteq Mail(x)'
                                  \cup IF x = n THEN {Head(inbox[n])} ELSE {}
        /\ \A x \in Nodes : \A t \in Sockets :
              /\ Follows(inbox[x], Joined(t), Left(t)) =>
                    Follows(inbox'[x], Joined(t), Left(t))
              /\ Follows(inbox[x], Left(t), Joined(t)) =>
                    Follows(inbox'[x], Left(t), Joined(t))
    <3>1. inbox[n] # <<>> /\ r \in Packets /\ r.on = "answer"
      BY <1>1, <2>1
    <3> QED
      BY <2>3, <3>1, AnswerQueue
  <2>5. Quiet
    BY <2>1, <2>4 DEF Quiet, Announcements
  <2> QED
    BY <1>1, <2>1, <2>4, <2>5
<1> QED
  BY <1>2, <1>3

\* ... if the nodes are asked, ...
LEMMA AskQuiet ==
    ASSUME Typed, NEW c \in Calls, AskNodes(c)
    PROVE  /\ Quiet
           /\ \A x \in Nodes : Mail(x) \subseteq Mail(x)'
           /\ \A x \in Nodes : \A m \in Mail(x)' : m \in Mail(x) \/ m = Asked(c)
<1>1. CASE inbox' = inbox
  BY <1>1, SameQuiet DEF Mail
<1>2. CASE Publish(NodeOf[call[c].sock], Asked(c))
  <2>1. /\ Asked(c) \in Packets /\ Asked(c).on = "asked"
        /\ \A t \in Sockets : Asked(c) # Joined(t) /\ Asked(c) # Left(t)
    BY PacketForms
  <2>2. NodeOf[call[c].sock] \in Nodes
    BY AskNodesFields DEF Busy, Typed
  <2>3. /\ \A x \in Nodes : Mail(x)' = Mail(x) \cup
                 IF x \in up \ {NodeOf[call[c].sock]} THEN {Asked(c)} ELSE {}
        /\ \A x \in Nodes : \A a, b :
              Follows(inbox[x], a, b) /\ Asked(c) # a => Follows(inbox'[x], a, b)
    BY <1>2, <2>1, <2>2, PublishQueue
  <2>4. Quiet
    BY <2>1, <2>3 DEF Quiet, Announcements
  <2> QED
    BY <2>3, <2>4
<1> QED
  BY <1>1, <1>2, AskNodesFields

\* ... or if a process ends.
LEMMA CrashQuiet ==
    ASSUME Typed, NEW n \in Nodes, Crash(n)
    PROVE  /\ Quiet
           /\ \A x \in Nodes : Mail(x)' = IF x = n THEN {} ELSE Mail(x)
<1>1. inbox'[n] = <<>> /\ \A x \in Nodes \ {n} : inbox'[x] = inbox[x]
  BY CrashFields
<1>2. \A x \in Nodes : Mail(x)' = IF x = n THEN {} ELSE Mail(x)
  BY <1>1, FollowsNone DEF Mail
<1>3. \A a, b : Follows(inbox'[n], a, b)
  BY <1>1, FollowsNone, Zenon
<1> QED
  BY <1>1, <1>2, <1>3 DEF Quiet

\* The last word on a socket is what it did last, if no word is new and the
\* lobby has lost nobody but with a node.
LEMMA WordKept ==
    ASSUME LastWord, Quiet, up' \subseteq up,
           \A t \in Sockets : /\ t \in lobby' => t \in lobby
                              /\ t \in lobby /\ t \notin lobby' => NodeOf[t] \notin up'
    PROVE  LastWord'
<1> SUFFICES ASSUME NEW n \in Nodes
             PROVE  /\ \A m \in Mail(n)' : m.on \in Announcements => NodeOf[m.sock] # n
                    /\ \A t \in Sockets :
                          /\ t \in lobby' => Follows(inbox'[n], Left(t), Joined(t))
                          /\ t \notin lobby' /\ NodeOf[t] \in up'
                                => Follows(inbox'[n], Joined(t), Left(t))
  BY DEF LastWord
<1>1. \A m \in Mail(n)' : m.on \in Announcements => NodeOf[m.sock] # n
  BY DEF LastWord, Quiet
<1>2. ASSUME NEW t \in Sockets
      PROVE  /\ t \in lobby' => Follows(inbox'[n], Left(t), Joined(t))
             /\ t \notin lobby' /\ NodeOf[t] \in up'
                   => Follows(inbox'[n], Joined(t), Left(t))
  BY DEF LastWord, Quiet
<1> QED
  BY <1>1, <1>2

\* A join keeps the last words, ...
LEMMA JoinWord ==
    ASSUME Typed, LastWord, NEW c \in Calls, NEW s \in Sockets, JoinLobby(c, s)
    PROVE  LastWord'
<1>1. /\ Publish(NodeOf[s], Joined(s)) /\ NodeOf[s] \in Nodes /\ Joined(s) \in Packets
      /\ lobby' = lobby \cup {s} /\ up' = up
  BY JoinFields, AnnounceViews, NodeOfType, PacketForms
<1>2. /\ \A x \in Nodes :
            Mail(x)' = Mail(x) \cup IF x \in up \ {NodeOf[s]} THEN {Joined(s)} ELSE {}
      /\ \A x \in Nodes \ up : inbox'[x] = <<>>
      /\ \A x \in Nodes : \A a, b :
            Follows(inbox[x], a, b) /\ Joined(s) # a => Follows(inbox'[x], a, b)
      /\ \A x \in Nodes : \A a :
            a # Joined(s) /\ (x \in up \ {NodeOf[s]} \/ Follows(inbox[x], a, Joined(s)))
                => Follows(inbox'[x], a, Joined(s))
  BY <1>1, PublishQueue
<1> SUFFICES ASSUME NEW n \in Nodes
             PROVE  /\ \A m \in Mail(n)' : m.on \in Announcements => NodeOf[m.sock] # n
                    /\ \A t \in Sockets :
                          /\ t \in lobby' => Follows(inbox'[n], Left(t), Joined(t))
                          /\ t \notin lobby' /\ NodeOf[t] \in up'
                                => Follows(inbox'[n], Joined(t), Left(t))
  BY DEF LastWord
<1>3. \A m \in Mail(n)' : m.on \in Announcements => NodeOf[m.sock] # n
  BY <1>2, PacketForms DEF LastWord
<1>4. Follows(inbox'[n], Left(s), Joined(s))
  <2>1. CASE n \in up \ {NodeOf[s]}
    BY <1>2, <2>1, WordsDiffer
  <2>2. CASE n = NodeOf[s]
    <3>1. Left(s) \notin Mail(n)
      BY <2>2, PacketForms DEF LastWord, Announcements
    <3>2. Follows(inbox[n], Left(s), Joined(s))
      BY <3>1, FollowsNone DEF Mail
    <3> QED
      BY <1>2, <3>2, WordsDiffer
  <2>3. CASE n \notin up
    BY <1>2, <2>3, FollowsNone
  <2> QED
    BY <2>1, <2>2, <2>3
<1>5. ASSUME NEW t \in Sockets, t # s
      PROVE  /\ t \in lobby' => Follows(inbox'[n], Left(t), Joined(t))
             /\ t \notin lobby' /\ NodeOf[t] \in up'
                   => Follows(inbox'[n], Joined(t), Left(t))
  <2>1. Joined(s) # Left(t) /\ Joined(s) # Joined(t)
    BY <1>5, WordsDiffer
  <2> QED
    BY <1>1, <1>2, <1>5, <2>1 DEF LastWord
<1> QED
  BY <1>1, <1>3, <1>4, <1>5

\* ... and a parting does.
LEMMA PartingWord ==
    ASSUME Typed, LastWord, NEW s \in Sockets, Parting(s)
    PROVE  LastWord'
<1>1. /\ Publish(NodeOf[s], Left(s)) /\ NodeOf[s] \in Nodes /\ Left(s) \in Packets
      /\ lobby' = lobby \ {s} /\ up' = up
  BY AnnounceViews, NodeOfType, PacketForms DEF Parting, Leaving
<1>2. /\ \A x \in Nodes :
            Mail(x)' = Mail(x) \cup IF x \in up \ {NodeOf[s]} THEN {Left(s)} ELSE {}
      /\ \A x \in Nodes \ up : inbox'[x] = <<>>
      /\ \A x \in Nodes : \A a, b :
            Follows(inbox[x], a, b) /\ Left(s) # a => Follows(inbox'[x], a, b)
      /\ \A x \in Nodes : \A a :
            a # Left(s) /\ (x \in up \ {NodeOf[s]} \/ Follows(inbox[x], a, Left(s)))
                => Follows(inbox'[x], a, Left(s))
  BY <1>1, PublishQueue
<1> SUFFICES ASSUME NEW n \in Nodes
             PROVE  /\ \A m \in Mail(n)' : m.on \in Announcements => NodeOf[m.sock] # n
                    /\ \A t \in Sockets :
                          /\ t \in lobby' => Follows(inbox'[n], Left(t), Joined(t))
                          /\ t \notin lobby' /\ NodeOf[t] \in up'
                                => Follows(inbox'[n], Joined(t), Left(t))
  BY DEF LastWord
<1>3. \A m \in Mail(n)' : m.on \in Announcements => NodeOf[m.sock] # n
  BY <1>2, PacketForms DEF LastWord
<1>4. Follows(inbox'[n], Joined(s), Left(s))
  <2>1. CASE n \in up \ {NodeOf[s]}
    BY <1>2, <2>1, WordsDiffer
  <2>2. CASE n = NodeOf[s]
    <3>1. Joined(s) \notin Mail(n)
      BY <2>2, PacketForms DEF LastWord, Announcements
    <3>2. Follows(inbox[n], Joined(s), Left(s))
      BY <3>1, FollowsNone DEF Mail
    <3> QED
      BY <1>2, <3>2, WordsDiffer
  <2>3. CASE n \notin up
    BY <1>2, <2>3, FollowsNone
  <2> QED
    BY <2>1, <2>2, <2>3
<1>5. ASSUME NEW t \in Sockets, t # s
      PROVE  /\ t \in lobby' => Follows(inbox'[n], Left(t), Joined(t))
             /\ t \notin lobby' /\ NodeOf[t] \in up'
                   => Follows(inbox'[n], Joined(t), Left(t))
  <2>1. Left(s) # Left(t) /\ Left(s) # Joined(t)
    BY <1>5, WordsDiffer
  <2> QED
    BY <1>1, <1>2, <1>5, <2>1 DEF LastWord
<1> QED
  BY <1>1, <1>3, <1>4, <1>5
------------------------------------------------------------------------------
\* A call that has just started has nothing on its way.
LEMMA FreshKept ==
    ASSUME Typed, LastWord, Fresh, NEW s, NEW c, NEW n,
           \/ c \in Calls /\ s \in Sockets /\ JoinLobby(c, s)
           \/ s \in Sockets /\ Parting(s)
           \/ Other(s, c, n)
    PROVE  Fresh'
<1> SUFFICES ASSUME NEW d \in Calls, call'[d].pc = "count"
             PROVE  \A x \in Nodes : \A m \in Mail(x)' : m.on \notin Announcements => m.call # d
  BY DEF Fresh
<1>0. call[d].pc = "count" =>
         \A x \in Nodes : \A m \in Mail(x) : m.on \notin Announcements => m.call # d
  BY DEF Fresh
<1>1. CASE (s \in Sockets /\ Connect(s)) \/ (c \in Calls /\ FetchFails(c)) \/ UNCHANGED vars
  <2>1. call[d].pc = "count"
    BY <1>1, FetchFailsFields, BusyIs DEF Connect, vars
  <2>2. inbox' = inbox
    BY <1>1 DEF Connect, FetchFails, vars
  <2> QED
    BY <1>0, <2>1, <2>2 DEF Mail
<1>2. CASE (c \in Calls /\ s \in Sockets /\ JoinLobby(c, s)) \/ (s \in Sockets /\ Parting(s))
  <2>1. \A x \in Nodes : \A m \in Mail(x) : m.on \notin Announcements => m.call # d
    <3>1. CASE c \in Calls /\ s \in Sockets /\ JoinLobby(c, s) /\ d = c
      BY <3>1, JoinFields
    <3>2. CASE c \in Calls /\ s \in Sockets /\ JoinLobby(c, s) /\ d # c
      BY <1>0, <3>2, JoinFields
    <3>3. CASE Parting(s)
      BY <1>0, <3>3 DEF Parting
    <3> QED
      BY <1>2, <3>1, <3>2, <3>3
  <2>2. PICK w \in {Joined(s), Left(s)} : Publish(NodeOf[s], w)
    BY <1>2, JoinFields, AnnounceViews DEF Parting
  <2>3. w \in Packets /\ w.on \in Announcements /\ NodeOf[s] \in Nodes
    BY <1>2, PacketForms, NodeOfType DEF Announcements
  <2>4. \A x \in Nodes : \A m \in Mail(x)' : m \in Mail(x) \/ m = w
    BY <2>2, <2>3, PublishQueue
  <2> QED
    BY <2>1, <2>3, <2>4
<1>3. CASE c \in Calls /\ AskNodes(c)
  <2>1. d # c /\ call[d].pc = "count"
    BY <1>3, AskNodesFields, BusyIs
  <2>2. \A x \in Nodes : \A m \in Mail(x)' : m \in Mail(x) \/ m = Asked(c)
    BY <1>3, AskQuiet
  <2> QED
    BY <1>0, <1>3, <2>1, <2>2, PacketForms
<1>4. CASE (n \in Nodes /\ HearAnnouncement(n)) \/ (n \in Nodes /\ HearAnswer(n))
  <2>1. call[d].pc = "count"
    <3>1. CASE HearAnnouncement(n)
      BY <3>1 DEF HearAnnouncement
    <3>2. CASE HearAnswer(n)
      <4>1. PICK m \in Mail(n), k \in CallRecord :
               /\ m.call \in Calls /\ k.pc = call[m.call].pc
               /\ \A e \in Calls \ {m.call} : call'[e] = call[e]
               /\ call' = call \/ call'[m.call] = Idle \/ call'[m.call] = k
        BY <1>4, <3>2, HearAnswerFields
      <4> QED
        BY <4>1, BusyIs
    <3> QED
      BY <1>4, <3>1, <3>2
  <2>2. inbox[n] # <<>> /\ inbox' = Rest(n)
    BY <1>4 DEF HearAnnouncement, HearAnswer, Arrives
  <2>3. \A x \in Nodes : Mail(x)' \subseteq Mail(x)
    BY <1>4, <2>2, RestQuiet
  <2> QED
    BY <1>0, <2>1, <2>3
<1>5. CASE n \in Nodes /\ AnswerFetch(n)
  <2>1. call' = call
    BY <1>5, AnswerFetchFields
  <2>2. \A x \in Nodes : \A m \in Mail(x)' :
           \/ m \in Mail(x)
           \/ \E l \in Mail(n) : l.on = "asked" /\ l.call = m.call
    BY <1>5, AnswerQuiet
  <2> QED
    BY <1>0, <1>5, <2>1, <2>2 DEF Announcements
<1>6. CASE n \in Nodes /\ Crash(n)
  <2>1. call[d].pc = "count"
    BY <1>6, CrashFields, BusyIs
  <2>2. \A x \in Nodes : Mail(x)' \subseteq Mail(x)
    BY <1>6, CrashQuiet
  <2> QED
    BY <1>0, <2>1, <2>2
<1> QED
  BY <1>1, <1>2, <1>3, <1>4, <1>5, <1>6 DEF Other
------------------------------------------------------------------------------
\* The lists stay accounted for, if they get nobody who is not there and whoever
\* leaves crosses them.
LEMMA ReadsKept ==
    ASSUME Reads, up' \subseteq up, crossed \subseteq crossed',
           \A d \in Calls : call'[d] # Idle /\ Open(call[d].sock)' =>
              /\ call[d] # Idle /\ call'[d].sock = call[d].sock /\ Open(call[d].sock)
              /\ \A t \in Sockets :
                    /\ Lists(d, t)' => Lists(d, t) \/ t \in lobby'
                    /\ t \in lobby /\ t \notin lobby' =>
                          <<call[d].sock, t>> \in crossed' \/ NodeOf[t] \notin up'
    PROVE  Reads'
<1> SUFFICES ASSUME NEW d \in Calls, NEW t \in Sockets,
                    call'[d] # Idle, Open(call[d].sock)', Lists(d, t)'
             PROVE  t \in lobby' \/ <<call'[d].sock, t>> \in crossed' \/ NodeOf[t] \notin up'
  BY DEF Reads
<1>1. /\ call[d] # Idle /\ call'[d].sock = call[d].sock /\ Open(call[d].sock)
      /\ Lists(d, t) \/ t \in lobby'
      /\ t \in lobby /\ t \notin lobby' =>
            <<call[d].sock, t>> \in crossed' \/ NodeOf[t] \notin up'
  OBVIOUS
<1>2. Lists(d, t) => t \in lobby \/ <<call[d].sock, t>> \in crossed \/ NodeOf[t] \notin up
  BY <1>1 DEF Reads
<1> QED
  BY <1>1, <1>2

\* No list gets anybody, if there are no new answers.
LEMMA ListsKept ==
    ASSUME NEW d \in Calls, NEW t \in Sockets, Lists(d, t)',
           call'[d].seen \subseteq call[d].seen,
           \A x \in Nodes : \A m \in Mail(x)' : m \in Mail(x) \/ m.on # "answer"
    PROVE  Lists(d, t)
<1>1. t \in call'[d].seen \/ \E x \in Nodes : \E m \in Mail(x)' : AnswerOf(m, d) /\ t \in m.members
  BY DEF Lists, AnswerOf
<1>2. \A x \in Nodes : \A m \in Mail(x)' : AnswerOf(m, d) => m \in Mail(x)
  BY DEF AnswerOf
<1> QED
  BY <1>1, <1>2 DEF Lists

\* What lists contain is explained still after a join, ...
LEMMA JoinReads ==
    ASSUME Typed, Reads, NEW c \in Calls, NEW s \in Sockets, JoinLobby(c, s)
    PROVE  Reads'
<1>1. /\ lobby' = lobby \cup {s} /\ UNCHANGED <<sock, up, crossed>>
      /\ call'[c].seen = Local(NodeOf[s]) \cup {s}
      /\ \A d \in Calls \ {c} : call'[d] = call[d]
      /\ \A x \in Nodes : \A m \in Mail(x) : m.on \notin Announcements => m.call # c
      /\ Publish(NodeOf[s], Joined(s)) /\ NodeOf[s] \in Nodes
      /\ Joined(s) \in Packets /\ Joined(s).on = "joined"
  BY JoinFields, AnnounceViews, PacketForms, NodeOfType
<1>2. \A x \in Nodes : \A m \in Mail(x)' : m \in Mail(x) \/ m.on = "joined"
  BY <1>1, PublishQueue
<1> SUFFICES ASSUME NEW d \in Calls, NEW t \in Sockets,
                    call'[d] # Idle, Open(call[d].sock)', Lists(d, t)'
             PROVE  t \in lobby' \/ <<call'[d].sock, t>> \in crossed' \/ NodeOf[t] \notin up'
  BY DEF Reads
<1>3. CASE d = c
  <2>1. \A x \in Nodes : \A m \in Mail(x)' : ~AnswerOf(m, c)
    BY <1>1, <1>2 DEF AnswerOf, Announcements
  <2>2. t \in call'[c].seen
    BY <1>3, <2>1 DEF Lists, AnswerOf
  <2> QED
    BY <1>1, <2>2 DEF Local
<1>4. CASE d # c
  <2>1. Lists(d, t) /\ call[d] # Idle /\ Open(call[d].sock) /\ call'[d] = call[d]
    BY <1>1, <1>2, <1>4, ListsKept DEF Open
  <2> QED
    BY <1>1, <2>1 DEF Reads
<1> QED
  BY <1>3, <1>4

\* ... after a parting, ...
LEMMA PartingReads ==
    ASSUME Typed, Reads, NEW s \in Sockets, Parting(s)
    PROVE  Reads'
<1>1. /\ lobby' = lobby \ {s} /\ call' = call /\ up' = up
      /\ crossed' = crossed \cup {<<x, s>> : x \in {y \in Sockets : Open(y) /\ Fetching(y)}}
      /\ Publish(NodeOf[s], Left(s)) /\ NodeOf[s] \in Nodes
      /\ Left(s) \in Packets /\ Left(s).on = "left"
  BY AnnounceViews, PacketForms, NodeOfType DEF Parting, Leaving
<1>2. \A x \in Nodes : \A m \in Mail(x)' : m \in Mail(x) \/ m.on # "answer"
  BY <1>1, PublishQueue
<1>3. \A y \in Sockets : Open(y)' => Open(y)
  BY DEF Parting, Open, Typed
<1>4. ASSUME NEW d \in Calls, call'[d] # Idle, Open(call[d].sock)'
      PROVE  /\ call[d] # Idle /\ call'[d].sock = call[d].sock /\ Open(call[d].sock)
             /\ \A t \in Sockets :
                   /\ Lists(d, t)' => Lists(d, t) \/ t \in lobby'
                   /\ t \in lobby /\ t \notin lobby' =>
                         <<call[d].sock, t>> \in crossed' \/ NodeOf[t] \notin up'
  <2>1. call[d] # Idle /\ call'[d] = call[d] /\ call[d].sock \in Sockets
    BY <1>1, <1>4, BusyIs
  <2>2. Open(call[d].sock)
    BY <1>3, <1>4, <2>1
  <2>3. Fetching(call[d].sock)
    BY DEF Fetching
  <2>4. <<call[d].sock, s>> \in crossed'
    BY <1>1, <2>1, <2>2, <2>3
  <2>5. \A t \in Sockets : Lists(d, t)' => Lists(d, t)
    BY <1>2, <2>1, ListsKept
  <2> QED
    BY <1>1, <2>1, <2>2, <2>4, <2>5
<1> QED
  BY <1>1, <1>4, ReadsKept

\* ... and after any other step.
LEMMA OtherReads ==
    ASSUME Typed, Reads, NEW s, NEW c, NEW n,
           Other(s, c, n)
    PROVE  Reads'
<1> DEFINE Kept(d) ==
        /\ call[d] # Idle /\ call'[d].sock = call[d].sock /\ Open(call[d].sock)
        /\ \A t \in Sockets :
              /\ Lists(d, t)' => Lists(d, t) \/ t \in lobby'
              /\ t \in lobby /\ t \notin lobby' =>
                    <<call[d].sock, t>> \in crossed' \/ NodeOf[t] \notin up'
<1>1. CASE (s \in Sockets /\ Connect(s)) \/ UNCHANGED vars
  <2>1. /\ UNCHANGED <<lobby, call, inbox, up, crossed>>
        /\ \A x \in Sockets : Open(x)' => Open(x) \/ (x = s /\ sock[s] = "new")
    BY <1>1 DEF Connect, vars, history, Open, Typed
  <2>2. ASSUME NEW d \in Calls, call'[d] # Idle, Open(call[d].sock)' PROVE Kept(d)
    <3>1. Open(call[d].sock)
      BY <2>1, <2>2, BusyIs DEF Busy
    <3>2. \A t \in Sockets : Lists(d, t)' => Lists(d, t)
      BY <2>1, ListsKept DEF Mail
    <3> QED
      BY <2>1, <2>2, <3>1, <3>2
  <2> QED
    BY <2>1, <2>2, ReadsKept
<1>2. CASE c \in Calls /\ AskNodes(c)
  <2>1. /\ UNCHANGED <<sock, lobby, up, crossed>>
        /\ \A d \in Calls : call'[d] # Idle =>
              call[d] # Idle /\ call'[d].sock = call[d].sock /\ call'[d].seen = call[d].seen
    BY <1>2, AskNodesFields, BusyIs DEF history
  <2>2. \A x \in Nodes : \A m \in Mail(x)' : m \in Mail(x) \/ m.on # "answer"
    BY <1>2, AskQuiet, PacketForms
  <2>3. ASSUME NEW d \in Calls, call'[d] # Idle, Open(call[d].sock)' PROVE Kept(d)
    BY <2>1, <2>2, <2>3, ListsKept DEF Open
  <2> QED
    BY <2>1, <2>3, ReadsKept
<1>3. CASE c \in Calls /\ FetchFails(c)
  <2>1. /\ UNCHANGED <<sock, lobby, up, crossed, inbox>>
        /\ \A d \in Calls : call'[d] # Idle => call'[d] = call[d]
    BY <1>3, FetchFailsFields, BusyIs
  <2>2. \A x \in Nodes : Mail(x)' = Mail(x)
    BY <2>1 DEF Mail
  <2>3. ASSUME NEW d \in Calls, call'[d] # Idle, Open(call[d].sock)' PROVE Kept(d)
    BY <2>1, <2>2, <2>3, ListsKept DEF Open
  <2> QED
    BY <2>1, <2>3, ReadsKept
<1>4. CASE n \in Nodes /\ HearAnnouncement(n)
  <2>1. /\ UNCHANGED <<sock, lobby, up, crossed, call>>
        /\ inbox[n] # <<>> /\ inbox' = Rest(n)
    BY <1>4 DEF HearAnnouncement, Arrives, history
  <2>2. \A x \in Nodes : Mail(x)' \subseteq Mail(x)
    BY <1>4, <2>1, RestQuiet
  <2>3. ASSUME NEW d \in Calls, call'[d] # Idle, Open(call[d].sock)' PROVE Kept(d)
    BY <2>1, <2>2, <2>3, ListsKept DEF Open
  <2> QED
    BY <2>1, <2>3, ReadsKept
<1>5. CASE n \in Nodes /\ AnswerFetch(n)
  <2>1. UNCHANGED <<sock, lobby, up, crossed, call>>
    BY <1>5, AnswerFetchFields DEF history
  <2>2. \A x \in Nodes : \A m \in Mail(x)' :
           m \in Mail(x) \/ (m.on = "answer" /\ m.members = Local(n))
    BY <1>5, AnswerQuiet
  <2>3. \A d \in Calls, t \in Sockets : Lists(d, t)' => Lists(d, t) \/ t \in lobby'
    BY <2>1, <2>2 DEF Lists, AnswerOf, Local
  <2>4. ASSUME NEW d \in Calls, call'[d] # Idle, Open(call[d].sock)' PROVE Kept(d)
    BY <2>1, <2>3, <2>4 DEF Open
  <2> QED
    BY <2>1, <2>4, ReadsKept
<1>6. CASE n \in Nodes /\ HearAnswer(n)
  <2>1. PICK m \in Mail(n), k \in CallRecord :
           /\ m.on = "answer" /\ m.call \in Calls /\ inbox' = Rest(n)
           /\ k.sock = call[m.call].sock /\ k.seen = call[m.call].seen \cup m.members
           /\ \A d \in Calls \ {m.call} : call'[d] = call[d]
           /\ UNCHANGED <<sock, lobby, up, history>>
           /\ call' = call \/ call'[m.call] = Idle \/ (Busy(m.call) /\ call'[m.call] = k)
    BY <1>6, HearAnswerFields
  <2>2. inbox[n] # <<>>
    BY <1>6 DEF HearAnswer, Arrives
  <2>3. \A x \in Nodes : Mail(x)' \subseteq Mail(x)
    BY <1>6, <2>1, <2>2, RestQuiet
  <2>4. ASSUME NEW d \in Calls, call'[d] # Idle, Open(call[d].sock)' PROVE Kept(d)
    <3>1. /\ call[d] # Idle /\ call'[d].sock = call[d].sock
          /\ call'[d].seen \subseteq call[d].seen \cup IF d = m.call THEN m.members ELSE {}
      BY <2>1, <2>4, BusyIs
    <3>2. \A t \in Sockets : Lists(d, t)' => Lists(d, t)
      BY <1>6, <2>1, <2>3, <3>1 DEF Lists, AnswerOf
    <3> QED
      BY <2>1, <2>4, <3>1, <3>2 DEF Open
  <2> QED
    BY <2>1, <2>4, ReadsKept DEF history
<1>7. CASE n \in Nodes /\ Crash(n)
  <2>1. /\ up' \subseteq up /\ crossed' = crossed
        /\ \A x \in Nodes : Mail(x)' \subseteq Mail(x)
        /\ \A x \in Sockets : Open(x)' => Open(x)
        /\ \A x \in Sockets : x \in lobby /\ x \notin lobby' => NodeOf[x] \notin up'
        /\ \A d \in Calls : call'[d] = Idle \/ call'[d] = call[d]
    <3>1. up' \subseteq up /\ crossed' = crossed
      BY <1>7, CrashFields DEF history
    <3>2. \A x \in Nodes : Mail(x)' \subseteq Mail(x)
      BY <1>7, CrashQuiet
    <3>3. \A x \in Sockets : Open(x)' => Open(x)
      BY <1>7, CrashFields DEF Open
    <3>4. \A x \in Sockets : x \in lobby /\ x \notin lobby' => NodeOf[x] \notin up'
      BY <1>7, CrashFields
    <3>5. \A d \in Calls : call'[d] = Idle \/ call'[d] = call[d]
      BY <1>7, CrashFields
    <3> QED
      BY <3>1, <3>2, <3>3, <3>4, <3>5
  <2>2. ASSUME NEW d \in Calls, call'[d] # Idle, Open(call[d].sock)' PROVE Kept(d)
    BY <2>1, <2>2, ListsKept, BusyIs
  <2> QED
    BY <2>1, <2>2, ReadsKept
<1> QED
  BY <1>1, <1>2, <1>3, <1>4, <1>5, <1>6, <1>7 DEF Other
------------------------------------------------------------------------------
\* Who is shown and has left stays explained, step by step.
LEMMA GhostsKept ==
    ASSUME Ghosts, up' \subseteq up, crossed \subseteq crossed',
           \A x \in lobby' : \A t \in shown'[x] \ lobby' :
              \/ NodeOf[t] \notin up' \/ <<x, t>> \in crossed'
              \/ Left(t) \in Mail(NodeOf[x])'
              \/ /\ x \in lobby /\ t \in shown[x] /\ t \notin lobby
                 /\ Left(t) \in Mail(NodeOf[x]) => Left(t) \in Mail(NodeOf[x])'
    PROVE  Ghosts'
<1> SUFFICES ASSUME NEW x \in lobby', NEW t \in shown'[x] \ lobby'
             PROVE  \/ NodeOf[t] \notin up' \/ <<x, t>> \in crossed'
                    \/ Left(t) \in Mail(NodeOf[x])'
  BY DEF Ghosts
<1> QED
  BY DEF Ghosts

\* Ghosts are explained still after a join, ...
LEMMA JoinGhosts ==
    ASSUME Typed, Ghosts, NEW c \in Calls, NEW s \in Sockets, JoinLobby(c, s)
    PROVE  Ghosts'
<1>1. /\ lobby' = lobby \cup {s} /\ UNCHANGED <<up, crossed>> /\ shown'[s] = {}
      /\ \A x \in Sockets \ {s} : shown'[x] \subseteq shown[x] \cup {s}
      /\ Publish(NodeOf[s], Joined(s)) /\ NodeOf[s] \in Nodes /\ Joined(s) \in Packets
  BY JoinFields, AnnounceViews, PacketForms, NodeOfType
<1>2. \A x \in Nodes : Mail(x) \subseteq Mail(x)'
  BY <1>1, PublishQueue
<1>3. lobby' \subseteq Sockets /\ \A x \in Sockets : NodeOf[x] \in Nodes
  BY <1>1, NodeOfType DEF Typed
<1>4. ASSUME NEW x \in lobby', NEW t \in shown'[x] \ lobby'
      PROVE  /\ x \in lobby /\ t \in shown[x] /\ t \notin lobby
             /\ Left(t) \in Mail(NodeOf[x]) => Left(t) \in Mail(NodeOf[x])'
  BY <1>1, <1>2, <1>3
<1> QED
  BY <1>1, <1>4, GhostsKept

\* ... after a parting, ...
LEMMA PartingGhosts ==
    ASSUME Typed, Ghosts, NEW s \in Sockets, Parting(s)
    PROVE  Ghosts'
<1>1. /\ lobby' = lobby \ {s} /\ up' = up /\ crossed \subseteq crossed'
      /\ Publish(NodeOf[s], Left(s)) /\ NodeOf[s] \in Nodes /\ Left(s) \in Packets
      /\ \A x \in Sockets \ {s} :
            /\ shown'[x] \subseteq shown[x]
            /\ x \in Local(NodeOf[s]) => s \notin shown'[x]
  BY AnnounceViews, PacketForms, NodeOfType DEF Parting, Leaving
<1>2. \A x \in Nodes : Mail(x)' = Mail(x) \cup IF x \in up \ {NodeOf[s]} THEN {Left(s)} ELSE {}
  BY <1>1, PublishQueue
<1>3. ASSUME NEW x \in lobby', NEW t \in shown'[x] \ lobby'
      PROVE  \/ Left(t) \in Mail(NodeOf[x])'
             \/ /\ x \in lobby /\ t \in shown[x] /\ t \notin lobby
                /\ Left(t) \in Mail(NodeOf[x]) => Left(t) \in Mail(NodeOf[x])'
  <2>1. /\ x \in lobby /\ x # s /\ x \in Sockets /\ t \in shown[x]
        /\ NodeOf[x] \in up /\ NodeOf[x] \in Nodes
    BY <1>1 DEF Typed
  <2>2. CASE t # s
    BY <1>1, <1>2, <2>1, <2>2
  <2>3. CASE t = s
    <3>1. NodeOf[x] # NodeOf[s]
      BY <1>1, <2>1, <2>3 DEF Local
    <3> QED
      BY <1>2, <2>1, <2>3, <3>1
  <2> QED
    BY <2>2, <2>3
<1> QED
  BY <1>1, <1>3, GhostsKept

\* A list brings in nobody who has left without crossing it.
LEMMA ListedGhosts ==
    ASSUME Typed, Reads, Ghosts, NEW d \in Calls, Busy(d), NEW k \in CallRecord, Listed(k),
           k.sock = call[d].sock, \A t \in k.seen : Lists(d, t),
           UNCHANGED <<lobby, up, crossed>>,
           \A x \in Nodes, t \in Sockets : Left(t) \in Mail(x) => Left(t) \in Mail(x)'
    PROVE  Ghosts'
<1>1. /\ k.sock \in Sockets /\ call[d] # Idle
      /\ \A x \in Sockets \ {k.sock} : shown'[x] = shown[x]
      /\ ~Open(k.sock) => shown'[k.sock] = shown[k.sock]
      /\ Open(k.sock) => shown'[k.sock] = shown[k.sock] \cup (k.seen \ {k.sock})
  BY ListedViews, BusyIs DEF Busy
<1>2. \A t \in k.seen : t \in Sockets
  BY DEF CallRecord
<1>3. ASSUME NEW x \in lobby', NEW t \in shown'[x] \ lobby'
      PROVE  \/ NodeOf[t] \notin up' \/ <<x, t>> \in crossed'
             \/ /\ x \in lobby /\ t \in shown[x] /\ t \notin lobby
                /\ Left(t) \in Mail(NodeOf[x]) => Left(t) \in Mail(NodeOf[x])'
  <2>1. x \in lobby /\ x \in Sockets /\ NodeOf[x] \in Nodes /\ t \notin lobby
    BY NodeOfType DEF Typed
  <2>2. CASE t \in shown[x]
    <3>1. t \in Sockets
      BY <2>1, <2>2 DEF Typed
    <3> QED
      BY <2>1, <2>2, <3>1
  <2>3. CASE t \notin shown[x]
    <3>1. x = k.sock /\ Open(k.sock) /\ t \in k.seen
      BY <1>1, <2>1, <2>3
    <3> QED
      BY <1>1, <1>2, <2>1, <3>1 DEF Reads
  <2> QED
    BY <2>2, <2>3
<1> QED
  BY <1>3, GhostsKept

\* ... and after any other step.
LEMMA OtherGhosts ==
    ASSUME Typed, LastWord, Reads, Ghosts,
           NEW s, NEW c, NEW n,
           Other(s, c, n)
    PROVE  Ghosts'
<1>0. /\ lobby \subseteq Sockets /\ \A x \in Sockets : NodeOf[x] \in Nodes
      /\ \A x \in lobby : shown[x] \subseteq Sockets
  BY NodeOfType DEF Typed
<1>1. CASE (s \in Sockets /\ Connect(s)) \/ (c \in Calls /\ FetchFails(c)) \/ UNCHANGED vars
  <2>1. UNCHANGED <<lobby, shown, inbox, up, crossed>>
    BY <1>1 DEF Connect, FetchFails, vars, history
  <2> QED
    BY <2>1 DEF Ghosts, Mail
<1>2. CASE c \in Calls /\ AskNodes(c)
  <2>1. UNCHANGED <<lobby, up, crossed>> /\ Busy(c) /\ call[c] \in CallRecord
    BY <1>2, AskNodesFields DEF history, Typed
  <2>2. \A x \in Nodes : Mail(x) \subseteq Mail(x)'
    BY <1>2, AskQuiet
  <2>3. CASE Listed(call[c])
    BY <1>2, <2>1, <2>2, <2>3, ListedGhosts DEF Lists
  <2>4. CASE shown' = shown
    <3>1. ASSUME NEW x \in lobby', NEW t \in shown'[x] \ lobby'
          PROVE  /\ x \in lobby /\ t \in shown[x] /\ t \notin lobby
                 /\ Left(t) \in Mail(NodeOf[x]) => Left(t) \in Mail(NodeOf[x])'
      BY <1>0, <2>1, <2>2, <2>4
    <3> QED
      BY <2>1, <3>1, GhostsKept
  <2> QED
    BY <1>2, <2>3, <2>4, AskNodesFields
<1>3. CASE n \in Nodes /\ HearAnnouncement(n)
  <2>1. /\ shown' = Heard(shown, n, Head(inbox[n])) /\ Arrives(n, Announcements)
        /\ inbox' = Rest(n) /\ UNCHANGED <<lobby, up, crossed>>
    BY <1>3 DEF HearAnnouncement, history
  <2>2. PICK u \in Sockets :
           /\ inbox[n] # <<>> /\ Head(inbox[n]) \in {Joined(u), Left(u)}
           /\ Head(inbox[n]) \in Mail(n)
    BY <1>3, <2>1, Arriving
  <2> DEFINE w == Head(inbox[n])
  <2>3. NodeOf[u] # n
    BY <1>3, <2>2, PacketForms DEF LastWord, Announcements
  <2>4. /\ \A x \in Nodes : Mail(x) \subseteq Mail(x)' \cup IF x = n THEN {w} ELSE {}
    BY <1>3, <2>1, <2>2, RestQuiet
  <2>5. /\ \A x \in lobby : NodeOf[x] # n => shown'[x] = shown[x]
        /\ \A x \in lobby : NodeOf[x] = n /\ w = Joined(u) => shown'[x] = shown[x] \cup {u}
        /\ \A x \in lobby : NodeOf[x] = n /\ w = Left(u) => shown'[x] = shown[x] \ {u}
    <3>1. \A x \in Sockets :
             /\ x \notin Local(n) \/ x = u => Heard(shown, n, w)[x] = shown[x]
             /\ w = Joined(u) /\ x \in Local(n) \ {u}
                   => Heard(shown, n, w)[x] = shown[x] \cup {u}
             /\ w = Left(u) /\ x \in Local(n) \ {u}
                   => Heard(shown, n, w)[x] = shown[x] \ {u}
      BY <1>3, <2>2, HeardViews
    <3> QED
      BY <1>0, <2>1, <2>3, <3>1 DEF Local
  <2>6. w = Joined(u) /\ u \notin lobby /\ NodeOf[u] \in up => Left(u) \in Mail(n)'
    <3>1. SUFFICES ASSUME w = Joined(u), u \notin lobby, NodeOf[u] \in up
                   PROVE  Left(u) \in Mail(n)'
      OBVIOUS
    <3>2. Follows(inbox[n], Joined(u), Left(u)) /\ Joined(u) # Left(u)
      BY <1>3, <3>1, WordsDiffer DEF LastWord
    <3>3. Left(u) \in Range(Rest(n)[n])
      BY <1>3, <2>2, <3>1, <3>2, RestQueue
    <3> QED
      BY <2>1, <3>3 DEF Mail
  <2> HIDE DEF w
  <2>7. ASSUME NEW x \in lobby', NEW t \in shown'[x] \ lobby'
        PROVE  \/ NodeOf[t] \notin up' \/ Left(t) \in Mail(NodeOf[x])'
               \/ /\ x \in lobby /\ t \in shown[x] /\ t \notin lobby
                  /\ Left(t) \in Mail(NodeOf[x]) => Left(t) \in Mail(NodeOf[x])'
    <3>1. x \in lobby /\ x \in Sockets /\ NodeOf[x] \in Nodes /\ t \notin lobby
      BY <1>0, <2>1
    <3>2. CASE NodeOf[x] # n
      BY <2>4, <2>5, <3>1, <3>2
    <3>3. CASE NodeOf[x] = n /\ w = Joined(u)
      <4>1. Left(t) # w
        BY <3>3, WordsDiffer
      <4> QED
        BY <2>1, <2>4, <2>5, <2>6, <3>1, <3>3, <4>1
    <3>4. CASE NodeOf[x] = n /\ w = Left(u)
      <4>1. t \in shown[x] /\ t # u
        BY <2>5, <3>1, <3>4
      <4>2. Left(t) # w
        BY <3>4, <4>1, WordsDiffer
      <4> QED
        BY <2>4, <3>1, <3>4, <4>1, <4>2
    <3> QED
      BY <2>2, <3>2, <3>3, <3>4 DEF w
  <2> QED
    BY <2>1, <2>7, GhostsKept
<1>4. CASE n \in Nodes /\ AnswerFetch(n)
  <2>1. /\ UNCHANGED <<lobby, shown, up, crossed>> /\ Head(inbox[n]).on = "asked"
    BY <1>4, AnswerFetchFields DEF history
  <2>2. \A x \in Nodes : Mail(x) \subseteq Mail(x)' \cup {Head(inbox[n])}
    BY <1>4, AnswerQuiet
  <2>3. \A t \in Sockets : Left(t) # Head(inbox[n])
    BY <2>1, PacketForms
  <2>4. ASSUME NEW x \in lobby', NEW t \in shown'[x] \ lobby'
        PROVE  /\ x \in lobby /\ t \in shown[x] /\ t \notin lobby
               /\ Left(t) \in Mail(NodeOf[x]) => Left(t) \in Mail(NodeOf[x])'
    BY <1>0, <2>1, <2>2, <2>3
  <2> QED
    BY <2>1, <2>4, GhostsKept
<1>5. CASE n \in Nodes /\ HearAnswer(n)
  <2>1. PICK m \in Mail(n), k \in CallRecord :
           /\ m = Head(inbox[n]) /\ m.on = "answer" /\ m.call \in Calls /\ inbox' = Rest(n)
           /\ k.sock = call[m.call].sock /\ k.seen = call[m.call].seen \cup m.members
           /\ UNCHANGED <<lobby, up, crossed>>
           /\ shown' = shown \/ (Busy(m.call) /\ Listed(k))
    BY <1>5, HearAnswerFields DEF history
  <2>2. inbox[n] # <<>>
    BY <1>5 DEF HearAnswer, Arrives
  <2>3. \A x \in Nodes : Mail(x) \subseteq Mail(x)' \cup {m}
    BY <1>5, <2>1, <2>2, RestQuiet
  <2>4. \A x \in Nodes, t \in Sockets : Left(t) \in Mail(x) => Left(t) \in Mail(x)'
    BY <2>1, <2>3, PacketForms
  <2>5. CASE Busy(m.call) /\ Listed(k)
    <3>1. \A t \in k.seen : Lists(m.call, t)
      BY <1>5, <2>1 DEF Lists, AnswerOf
    <3> QED
      BY <2>1, <2>4, <2>5, <3>1, ListedGhosts
  <2>6. CASE shown' = shown
    <3>1. ASSUME NEW x \in lobby', NEW t \in shown'[x] \ lobby'
          PROVE  /\ x \in lobby /\ t \in shown[x] /\ t \notin lobby
                 /\ Left(t) \in Mail(NodeOf[x]) => Left(t) \in Mail(NodeOf[x])'
      BY <1>0, <2>1, <2>4, <2>6
    <3> QED
      BY <2>1, <3>1, GhostsKept
  <2> QED
    BY <2>1, <2>5, <2>6
<1>6. CASE n \in Nodes /\ Crash(n)
  <2>1. /\ up' = up \ {n} /\ crossed' = crossed /\ lobby' = {x \in lobby : NodeOf[x] # n}
        /\ \A x \in Sockets : NodeOf[x] # n => shown'[x] = shown[x]
        /\ \A x \in Nodes \ {n} : Mail(x)' = Mail(x)
    BY <1>6, CrashFields, CrashQuiet DEF history
  <2>2. ASSUME NEW x \in lobby', NEW t \in shown'[x] \ lobby'
        PROVE  \/ NodeOf[t] \notin up'
               \/ /\ x \in lobby /\ t \in shown[x] /\ t \notin lobby
                  /\ Left(t) \in Mail(NodeOf[x]) => Left(t) \in Mail(NodeOf[x])'
    BY <1>0, <2>1
  <2> QED
    BY <2>1, <2>2, GhostsKept
<1> QED
  BY <1>1, <1>2, <1>3, <1>4, <1>5, <1>6 DEF Other
------------------------------------------------------------------------------
\* Whoever is told of a member stays told, step by step.
LEMMA KnownKept ==
    ASSUME Known, failed \subseteq failed',
           \A s, t \in lobby' : s # t /\ s \notin failed' =>
              Told(s, t)' \/ (s \in lobby /\ t \in lobby /\ (Told(s, t) => Told(s, t)'))
    PROVE  Known'
<1> SUFFICES ASSUME NEW s \in lobby', NEW t \in lobby', s # t, s \notin failed'
             PROVE  Told(s, t)'
  BY DEF Known
<1> QED
  BY DEF Known

\* What Told takes, in two steps that do not mention the next state but once.
LEMMA ToldBy ==
    ASSUME NEW s, NEW t
    PROVE  /\ Told(s, t) => \/ t \in shown[s] \/ Joined(t) \in Mail(NodeOf[s])
                            \/ \E c \in Calls : WillList(c, s, t)
           /\ t \in shown'[s] => Told(s, t)'
           /\ Joined(t) \in Mail(NodeOf[s])' => Told(s, t)'
           /\ \A c \in Calls : WillList(c, s, t)' => Told(s, t)'
  BY DEF Told

\* A call that stays as it is will list whom it would have listed, unless it
\* gets an answer that is a node's own and leaves somebody out.
LEMMA WillListKept ==
    ASSUME NEW c \in Calls, NEW s \in Sockets, NEW t \in Sockets, WillList(c, s, t),
           call'[c] = call[c],
           \A x \in Nodes : \A m \in Mail(x)' :
              m \in Mail(x) \/ m.on # "answer" \/ (m.node = NodeOf[t] => t \in m.members)
    PROVE  WillList(c, s, t)'
<1>1. \A x \in Nodes : \A m \in Mail(x)' :
         AnswerOf(m, c) /\ m.node = NodeOf[t] => m \in Mail(x) \/ t \in m.members
  BY DEF AnswerOf
<1>2. call[c].sock = s
  BY DEF WillList
<1>3. CASE t \in call[c].seen
  BY <1>2, <1>3 DEF WillList
<1>4. CASE t \notin call[c].seen
  <2>1. /\ NodeOf[t] # NodeOf[s]
        /\ call[c].pc = "fetch" => NodeOf[t] \in call[c].pending
        /\ \A x \in Nodes : \A m \in Mail(x) :
              AnswerOf(m, c) /\ m.node = NodeOf[t] => t \in m.members
    BY <1>4 DEF WillList
  <2>2. \A x \in Nodes : \A m \in Mail(x)' :
           AnswerOf(m, c) /\ m.node = NodeOf[t] => t \in m.members
    BY <1>1, <2>1
  <2> QED
    BY <1>2, <2>1, <2>2 DEF WillList, AnswerOf
<1> QED
  BY <1>3, <1>4

\* Members know each other, or will, after a join, ...
LEMMA JoinKnown ==
    ASSUME Typed, Known, NEW c \in Calls, NEW s \in Sockets, JoinLobby(c, s)
    PROVE  Known'
<1>1. /\ lobby' = lobby \cup {s} /\ s \notin lobby /\ failed' = failed
      /\ call'[c].sock = s /\ call'[c].pc = "count"
      /\ call'[c].seen = Local(NodeOf[s]) \cup {s} /\ call[c] = Idle
      /\ \A d \in Calls \ {c} : call'[d] = call[d]
      /\ \A n \in Nodes : \A m \in Mail(n) : m.on \notin Announcements => m.call # c
      /\ Publish(NodeOf[s], Joined(s)) /\ NodeOf[s] \in Nodes
      /\ Joined(s) \in Packets /\ Joined(s).on = "joined"
      /\ \A x \in Sockets \ {s} :
            /\ shown[x] \subseteq shown'[x]
            /\ x \in Local(NodeOf[s]) => s \in shown'[x]
  BY JoinFields, AnnounceViews, PacketForms, NodeOfType
<1>2. \A x \in Nodes : Mail(x)' = Mail(x) \cup IF x \in up \ {NodeOf[s]} THEN {Joined(s)} ELSE {}
  BY <1>1, PublishQueue
<1>3. \A x \in lobby : x \in Sockets /\ NodeOf[x] \in up /\ NodeOf[x] \in Nodes
  BY NodeOfType DEF Typed
<1>4. ASSUME NEW t \in lobby PROVE Told(s, t)'
  <2>1. WillList(c, s, t)'
    <3>1. CASE NodeOf[t] = NodeOf[s]
      BY <1>1, <3>1 DEF WillList, Local
    <3>2. CASE NodeOf[t] # NodeOf[s]
      <4>1. \A x \in Nodes : \A m \in Mail(x)' : ~AnswerOf(m, c)
        BY <1>1, <1>2 DEF AnswerOf, Announcements
      <4> QED
        BY <1>1, <3>2, <4>1 DEF WillList, AnswerOf
    <3> QED
      BY <3>1, <3>2
  <2> QED
    BY <2>1, ToldBy
<1>5. ASSUME NEW x \in lobby PROVE Told(x, s)'
  <2>1. CASE NodeOf[x] = NodeOf[s]
    BY <1>1, <1>3, <2>1, ToldBy DEF Local
  <2>2. CASE NodeOf[x] # NodeOf[s]
    BY <1>2, <1>3, <2>2, ToldBy
  <2> QED
    BY <2>1, <2>2
<1>6. ASSUME NEW x \in lobby, NEW t \in lobby, Told(x, t) PROVE Told(x, t)'
  <2>1. CASE t \in shown[x]
    BY <1>1, <1>3, <2>1, ToldBy
  <2>2. CASE Joined(t) \in Mail(NodeOf[x])
    BY <1>2, <1>3, <2>2, ToldBy
  <2>3. ASSUME NEW d \in Calls, WillList(d, x, t) PROVE Told(x, t)'
    <3>1. d # c
      BY <1>1, <1>3, <2>3, BusyIs DEF WillList
    <3>2. \A y \in Nodes : \A m \in Mail(y)' : m \in Mail(y) \/ m.on # "answer"
      BY <1>1, <1>2
    <3>3. WillList(d, x, t)'
      BY <1>1, <1>3, <2>3, <3>1, <3>2, WillListKept
    <3> QED
      BY <3>3, ToldBy
  <2> QED
    BY <1>6, <2>1, <2>2, <2>3, ToldBy
<1>7. \A x, t \in lobby' : x # t /\ x \notin failed' =>
         Told(x, t)' \/ (x \in lobby /\ t \in lobby /\ (Told(x, t) => Told(x, t)'))
  BY <1>1, <1>4, <1>5, <1>6
<1> QED
  BY <1>1, <1>7, KnownKept

\* ... after a parting, ...
LEMMA PartingKnown ==
    ASSUME Typed, Known, NEW s \in Sockets, Parting(s)
    PROVE  Known'
<1>1. /\ lobby' = lobby \ {s} /\ failed' = failed /\ call' = call
      /\ Publish(NodeOf[s], Left(s)) /\ NodeOf[s] \in Nodes
      /\ Left(s) \in Packets /\ Left(s).on = "left"
      /\ \A x \in Sockets \ {s} : shown[x] \subseteq shown'[x] \cup {s}
  BY AnnounceViews, PacketForms, NodeOfType DEF Parting, Leaving
<1>2. \A x \in Nodes : Mail(x)' = Mail(x) \cup IF x \in up \ {NodeOf[s]} THEN {Left(s)} ELSE {}
  BY <1>1, PublishQueue
<1>3. ASSUME NEW x \in lobby', NEW t \in lobby', Told(x, t) PROVE Told(x, t)'
  <2>0. /\ x \in Sockets /\ x # s /\ x \in lobby /\ t \in Sockets /\ t # s /\ t \in lobby
        /\ NodeOf[x] \in Nodes
    BY <1>1, NodeOfType DEF Typed
  <2>1. CASE t \in shown[x]
    BY <1>1, <2>0, <2>1, ToldBy
  <2>2. CASE Joined(t) \in Mail(NodeOf[x])
    BY <1>2, <2>0, <2>2, ToldBy
  <2>3. ASSUME NEW d \in Calls, WillList(d, x, t) PROVE Told(x, t)'
    <3>1. \A y \in Nodes : \A m \in Mail(y)' : m \in Mail(y) \/ m.on # "answer"
      BY <1>1, <1>2
    <3>2. WillList(d, x, t)'
      BY <1>1, <2>0, <2>3, <3>1, WillListKept
    <3> QED
      BY <3>2, ToldBy
  <2> QED
    BY <1>3, <2>1, <2>2, <2>3, ToldBy
<1>4. \A x, t \in lobby' : x # t /\ x \notin failed' =>
         Told(x, t)' \/ (x \in lobby /\ t \in lobby /\ (Told(x, t) => Told(x, t)'))
  BY <1>1, <1>3
<1> QED
  BY <1>1, <1>4, KnownKept

\* In a step in which no view and no queue loses a word on a member, it is
\* enough to look at the calls.
LEMMA CallsKnown ==
    ASSUME Known, failed \subseteq failed', lobby' = lobby,
           \A x, t \in lobby : x # t =>
              /\ t \in shown[x] => Told(x, t)'
              /\ Joined(t) \in Mail(NodeOf[x]) => Told(x, t)'
              /\ \A d \in Calls : WillList(d, x, t) => Told(x, t)' \/ x \in failed'
    PROVE  Known'
<1> SUFFICES ASSUME NEW x \in lobby', NEW t \in lobby', x # t, x \notin failed'
             PROVE  Told(x, t)'
  BY DEF Known
<1>1. Told(x, t)
  BY DEF Known
<1> QED
  BY <1>1, ToldBy

\* ... when the nodes are asked, ...
LEMMA AskKnown ==
    ASSUME Typed, Known, NEW c \in Calls, AskNodes(c)
    PROVE  Known'
<1>1. /\ call[c].pc = "count" /\ Busy(c) /\ call[c] \in CallRecord /\ call[c].sock \in Sockets
      /\ \A d \in Calls \ {c} : call'[d] = call[d]
      /\ UNCHANGED <<sock, lobby, up, failed>>
  BY AskNodesFields DEF history, Busy, Typed
<1>2. /\ \A x \in Nodes : Mail(x) \subseteq Mail(x)'
      /\ \A x \in Nodes : \A m \in Mail(x)' : m \in Mail(x) \/ m.on # "answer"
  BY AskQuiet, PacketForms
<1>3. \A x \in lobby : /\ x \in Sockets /\ Open(x)
                       /\ NodeOf[x] \in up /\ NodeOf[x] \in Nodes
  BY NodeOfType DEF Typed
<1>4. CASE /\ up \ {NodeOf[call[c].sock]} = {} /\ Listed(call[c])
  <2>1. /\ \A x \in Sockets \ {call[c].sock} : shown'[x] = shown[x]
        /\ ~Open(call[c].sock) => shown'[call[c].sock] = shown[call[c].sock]
        /\ Open(call[c].sock) =>
              shown'[call[c].sock] = shown[call[c].sock] \cup (call[c].seen \ {call[c].sock})
    BY <1>1, <1>4, ListedViews
  <2>2. ASSUME NEW x \in lobby, NEW t \in lobby, x # t
        PROVE  /\ t \in shown[x] => Told(x, t)'
               /\ Joined(t) \in Mail(NodeOf[x]) => Told(x, t)'
               /\ \A d \in Calls : WillList(d, x, t) => Told(x, t)' \/ x \in failed'
    <3>1. t \in shown[x] => Told(x, t)'
      BY <1>3, <2>1, ToldBy
    <3>2. Joined(t) \in Mail(NodeOf[x]) => Told(x, t)'
      BY <1>2, <1>3, ToldBy
    <3>3. ASSUME NEW d \in Calls, WillList(d, x, t) PROVE Told(x, t)'
      <4>1. CASE d = c
        <5>1. NodeOf[t] \in up /\ call[c].sock = x
          BY <1>3, <3>3, <4>1 DEF WillList
        <5>2. NodeOf[t] = NodeOf[x]
          BY <1>4, <5>1
        <5>3. t \in call[c].seen
          BY <3>3, <4>1, <5>2 DEF WillList
        <5>4. t \in shown'[x]
          BY <1>3, <2>1, <2>2, <5>1, <5>3
        <5> QED
          BY <5>4, ToldBy
      <4>2. CASE d # c
        <5>1. WillList(d, x, t)'
          BY <1>1, <1>2, <1>3, <3>3, <4>2, WillListKept
        <5> QED
          BY <5>1, ToldBy
      <4> QED
        BY <4>1, <4>2
    <3> QED
      BY <3>1, <3>2, <3>3
  <2> QED
    BY <1>1, <2>2, CallsKnown
<1>5. CASE /\ call'[c].pc = "fetch" /\ call'[c].sock = call[c].sock
           /\ call'[c].seen = call[c].seen
           /\ up \ {NodeOf[call[c].sock]} \subseteq call'[c].pending /\ shown' = shown
  <2>1. ASSUME NEW x \in lobby, NEW t \in lobby, x # t
        PROVE  /\ t \in shown[x] => Told(x, t)'
               /\ Joined(t) \in Mail(NodeOf[x]) => Told(x, t)'
               /\ \A d \in Calls : WillList(d, x, t) => Told(x, t)' \/ x \in failed'
    <3>1. t \in shown[x] => Told(x, t)'
      BY <1>5, ToldBy
    <3>2. Joined(t) \in Mail(NodeOf[x]) => Told(x, t)'
      BY <1>2, <1>3, ToldBy
    <3>3. ASSUME NEW d \in Calls, WillList(d, x, t) PROVE Told(x, t)'
      <4>1. WillList(d, x, t)'
        <5>1. CASE d = c /\ t \in call[c].seen
          BY <1>5, <3>3, <5>1 DEF WillList
        <5>2. CASE d = c /\ t \notin call[c].seen
          <6>1. /\ call[c].sock = x /\ NodeOf[t] # NodeOf[x]
                /\ \A y \in Nodes : \A m \in Mail(y) :
                      AnswerOf(m, c) /\ m.node = NodeOf[t] => t \in m.members
            BY <3>3, <5>2 DEF WillList
          <6>2. NodeOf[t] \in call'[c].pending
            BY <1>3, <1>5, <6>1
          <6>3. \A y \in Nodes : \A m \in Mail(y)' :
                   AnswerOf(m, c) /\ m.node = NodeOf[t] => t \in m.members
            BY <1>2, <6>1 DEF AnswerOf
          <6> QED
            BY <1>5, <5>2, <6>1, <6>2, <6>3 DEF WillList, AnswerOf
        <5>3. CASE d # c
          BY <1>1, <1>2, <1>3, <3>3, <5>3, WillListKept
        <5> QED
          BY <5>1, <5>2, <5>3
      <4> QED
        BY <4>1, ToldBy
    <3> QED
      BY <3>1, <3>2, <3>3
  <2> QED
    BY <1>1, <2>1, CallsKnown
<1> QED
  BY <1>4, <1>5, AskNodesFields

\* ... when a fetch fails, ...
LEMMA FailsKnown ==
    ASSUME Typed, Known, NEW c \in Calls, FetchFails(c)
    PROVE  Known'
<1>1. /\ failed' = failed \cup {call[c].sock} /\ UNCHANGED <<lobby, shown, inbox>>
      /\ \A d \in Calls \ {c} : call'[d] = call[d]
  BY FetchFailsFields
<1>2. ASSUME NEW x \in lobby, NEW t \in lobby, x # t
      PROVE  /\ t \in shown[x] => Told(x, t)'
             /\ Joined(t) \in Mail(NodeOf[x]) => Told(x, t)'
             /\ \A d \in Calls : WillList(d, x, t) => Told(x, t)' \/ x \in failed'
  <2>1. Joined(t) \in Mail(NodeOf[x]) => Joined(t) \in Mail(NodeOf[x])'
    BY <1>1 DEF Mail
  <2>2. ASSUME NEW d \in Calls, WillList(d, x, t) PROVE Told(x, t)' \/ x \in failed'
    <3>1. CASE d = c
      BY <1>1, <2>2, <3>1 DEF WillList
    <3>2. CASE d # c
      <4>1. \A y \in Nodes : Mail(y)' = Mail(y)
        BY <1>1 DEF Mail
      <4>2. x \in Sockets /\ t \in Sockets
        BY DEF Typed
      <4>3. WillList(d, x, t)'
        BY <1>1, <2>2, <3>2, <4>1, <4>2, WillListKept
      <4> QED
        BY <4>3, ToldBy
    <3> QED
      BY <3>1, <3>2
  <2> QED
    BY <1>1, <2>1, <2>2, ToldBy
<1> QED
  BY <1>1, <1>2, CallsKnown

\* ... when an announcement is heard, ...
LEMMA AnnouncementKnown ==
    ASSUME Typed, LastWord, Known, NEW n \in Nodes, HearAnnouncement(n)
    PROVE  Known'
<1>1. /\ shown' = Heard(shown, n, Head(inbox[n])) /\ Arrives(n, Announcements)
      /\ inbox' = Rest(n) /\ UNCHANGED <<lobby, call, up, failed>>
  BY DEF HearAnnouncement, history
<1>2. PICK u \in Sockets :
         /\ inbox[n] # <<>> /\ Head(inbox[n]) \in {Joined(u), Left(u)}
         /\ Head(inbox[n]) \in Mail(n)
  BY <1>1, Arriving
<1> DEFINE w == Head(inbox[n])
<1>3. NodeOf[u] # n
  BY <1>2, PacketForms DEF LastWord, Announcements
<1>4. /\ \A x \in Nodes : Mail(x) \subseteq Mail(x)' \cup IF x = n THEN {w} ELSE {}
      /\ \A x \in Nodes : Mail(x)' \subseteq Mail(x)
  BY <1>1, <1>2, RestQuiet
<1>5. /\ lobby \subseteq Sockets
      /\ \A x \in lobby : NodeOf[x] # n => shown'[x] = shown[x]
      /\ \A x \in lobby : NodeOf[x] = n /\ w = Joined(u) => shown'[x] = shown[x] \cup {u}
      /\ \A x \in lobby : NodeOf[x] = n /\ w = Left(u) => shown'[x] = shown[x] \ {u}
  <2>1. \A x \in Sockets :
           /\ x \notin Local(n) \/ x = u => Heard(shown, n, w)[x] = shown[x]
           /\ w = Joined(u) /\ x \in Local(n) \ {u}
                 => Heard(shown, n, w)[x] = shown[x] \cup {u}
           /\ w = Left(u) /\ x \in Local(n) \ {u}
                 => Heard(shown, n, w)[x] = shown[x] \ {u}
    BY <1>2, HeardViews
  <2>2. lobby \subseteq Sockets
    BY DEF Typed
  <2> QED
    BY <1>1, <1>3, <2>1, <2>2 DEF Local
<1>6. w = Left(u) /\ u \in lobby => Joined(u) \in Mail(n)'
  <2>1. SUFFICES ASSUME w = Left(u), u \in lobby PROVE Joined(u) \in Mail(n)'
    OBVIOUS
  <2>2. Follows(inbox[n], Left(u), Joined(u)) /\ Joined(u) # Left(u)
    BY <2>1, WordsDiffer DEF LastWord
  <2>3. Joined(u) \in Range(Rest(n)[n])
    BY <1>2, <2>1, <2>2, RestQueue
  <2> QED
    BY <1>1, <2>3 DEF Mail
<1> HIDE DEF w
<1>7. ASSUME NEW x \in lobby, NEW t \in lobby, x # t
      PROVE  /\ t \in shown[x] => Told(x, t)'
             /\ Joined(t) \in Mail(NodeOf[x]) => Told(x, t)'
             /\ \A d \in Calls : WillList(d, x, t) => Told(x, t)' \/ x \in failed'
  <2>0. x \in Sockets /\ t \in Sockets /\ NodeOf[x] \in Nodes /\ w \in {Joined(u), Left(u)}
    BY <1>2, <1>5, NodeOfType DEF w
  <2>1. ASSUME t \in shown[x] PROVE Told(x, t)'
    <3>1. CASE NodeOf[x] = n /\ w = Left(u) /\ t = u
      BY <1>6, <3>1, ToldBy
    <3>2. CASE ~(NodeOf[x] = n /\ w = Left(u) /\ t = u)
      <4>1. t \in shown'[x]
        BY <1>5, <2>0, <2>1, <3>2
      <4> QED
        BY <4>1, ToldBy
    <3> QED
      BY <3>1, <3>2
  <2>2. ASSUME Joined(t) \in Mail(NodeOf[x]) PROVE Told(x, t)'
    <3>1. CASE NodeOf[x] = n /\ w = Joined(t)
      <4>1. w = Joined(u) /\ t = u
        BY <2>0, <3>1, WordsDiffer
      <4>2. t \in shown'[x]
        BY <1>5, <3>1, <4>1
      <4> QED
        BY <4>2, ToldBy
    <3>2. CASE ~(NodeOf[x] = n /\ w = Joined(t))
      <4>1. Joined(t) \in Mail(NodeOf[x])'
        BY <1>4, <2>0, <2>2, <3>2
      <4> QED
        BY <4>1, ToldBy
    <3> QED
      BY <3>1, <3>2
  <2>3. ASSUME NEW d \in Calls, WillList(d, x, t) PROVE Told(x, t)'
    <3>1. WillList(d, x, t)'
      BY <1>1, <1>4, <2>0, <2>3, WillListKept
    <3> QED
      BY <3>1, ToldBy
  <2> QED
    BY <2>1, <2>2, <2>3
<1> QED
  BY <1>1, <1>7, CallsKnown

\* ... when a node answers a fetch, ...
LEMMA FetchKnown ==
    ASSUME Typed, Known, NEW n \in Nodes, AnswerFetch(n)
    PROVE  Known'
<1>1. UNCHANGED <<lobby, shown, call, failed>> /\ Head(inbox[n]).on = "asked"
  BY AnswerFetchFields DEF history
<1>2. /\ \A x \in Nodes : Mail(x) \subseteq Mail(x)' \cup {Head(inbox[n])}
      /\ \A x \in Nodes : \A m \in Mail(x)' :
            m \in Mail(x) \/ (m.on = "answer" /\ m.members = Local(n) /\ m.node = n)
  BY AnswerQuiet
<1>3. \A t \in Sockets : Joined(t) # Head(inbox[n])
  BY <1>1, PacketForms
<1>4. ASSUME NEW x \in lobby, NEW t \in lobby, x # t
      PROVE  /\ t \in shown[x] => Told(x, t)'
             /\ Joined(t) \in Mail(NodeOf[x]) => Told(x, t)'
             /\ \A d \in Calls : WillList(d, x, t) => Told(x, t)' \/ x \in failed'
  <2>0. x \in Sockets /\ t \in Sockets /\ NodeOf[x] \in Nodes
    BY NodeOfType DEF Typed
  <2>1. Joined(t) \in Mail(NodeOf[x]) => Joined(t) \in Mail(NodeOf[x])'
    BY <1>2, <1>3, <2>0
  <2>2. \A y \in Nodes : \A m \in Mail(y)' :
           m \in Mail(y) \/ m.on # "answer" \/ (m.node = NodeOf[t] => t \in m.members)
    BY <1>2 DEF Local
  <2>3. \A d \in Calls : WillList(d, x, t) => WillList(d, x, t)'
    BY <1>1, <2>0, <2>2, WillListKept
  <2> QED
    BY <1>1, <2>1, <2>3, ToldBy
<1> QED
  BY <1>1, <1>4, CallsKnown

\* ... when its answer is heard, ...
LEMMA AnswerKnown ==
    ASSUME Typed, Fresh, Known, NEW n \in Nodes, HearAnswer(n)
    PROVE  Known'
<1>1. PICK m \in Mail(n), k \in CallRecord :
         /\ m = Head(inbox[n]) /\ m.on = "answer" /\ m.call \in Calls /\ inbox' = Rest(n)
         /\ \A d \in Calls \ {m.call} : call'[d] = call[d]
         /\ k.sock = call[m.call].sock /\ k.pc = call[m.call].pc
         /\ k.seen = call[m.call].seen \cup m.members
         /\ k.pending = call[m.call].pending \ {m.node}
         /\ UNCHANGED <<sock, lobby, up, history>>
         /\ \/ call[m.call] = Idle /\ shown' = shown /\ call' = call
            \/ /\ Busy(m.call) /\ k.pending = {} /\ Listed(k)
               /\ call'[m.call] = Idle
            \/ Busy(m.call) /\ shown' = shown /\ call'[m.call] = k
  BY HearAnswerFields
<1>2. inbox[n] # <<>>
  BY DEF HearAnswer, Arrives
<1>3. /\ \A x \in Nodes : Mail(x) \subseteq Mail(x)' \cup {m}
      /\ \A x \in Nodes : Mail(x)' \subseteq Mail(x)
  BY <1>1, <1>2, RestQuiet
<1>4. \A x \in Nodes, t \in Sockets : Joined(t) \in Mail(x) => Joined(t) \in Mail(x)'
  <2> SUFFICES ASSUME NEW x \in Nodes, NEW t \in Sockets, Joined(t) \in Mail(x)
               PROVE  Joined(t) \in Mail(x)'
    OBVIOUS
  <2>1. Joined(t) # m
    BY <1>1, PacketForms
  <2> QED
    BY <1>3, <2>1
<1>5. Busy(m.call) => call[m.call].pc = "fetch"
  BY <1>1 DEF Fresh, Busy, Announcements
<1>6. Listed(k) /\ Busy(m.call) =>
         /\ \A x \in Sockets : shown[x] \subseteq shown'[x]
         /\ Open(k.sock) => k.seen \ {k.sock} \subseteq shown'[k.sock]
  <2>1. SUFFICES ASSUME Listed(k), Busy(m.call)
                 PROVE  /\ \A x \in Sockets : shown[x] \subseteq shown'[x]
                        /\ Open(k.sock) => k.seen \ {k.sock} \subseteq shown'[k.sock]
    OBVIOUS
  <2>2. k.sock \in Sockets
    BY <1>1, <2>1 DEF Busy
  <2>3. /\ \A x \in Sockets \ {k.sock} : shown'[x] = shown[x]
        /\ ~Open(k.sock) => shown'[k.sock] = shown[k.sock]
        /\ Open(k.sock) => shown'[k.sock] = shown[k.sock] \cup (k.seen \ {k.sock})
    BY <2>1, <2>2, ListedViews
  <2> QED
    BY <2>2, <2>3
<1>7. ASSUME NEW x \in lobby, NEW t \in lobby, x # t
      PROVE  /\ t \in shown[x] => Told(x, t)'
             /\ Joined(t) \in Mail(NodeOf[x]) => Told(x, t)'
             /\ \A d \in Calls : WillList(d, x, t) => Told(x, t)' \/ x \in failed'
  <2>0. x \in Sockets /\ t \in Sockets /\ NodeOf[x] \in Nodes /\ Open(x)
    BY NodeOfType DEF Typed
  <2>1. t \in shown[x] => Told(x, t)'
    BY <1>1, <1>6, <2>0, ToldBy
  <2>2. Joined(t) \in Mail(NodeOf[x]) => Told(x, t)'
    BY <1>4, <2>0, ToldBy
  <2>3. ASSUME NEW d \in Calls, WillList(d, x, t) PROVE Told(x, t)'
    <3>1. CASE d # m.call
      <4>1. WillList(d, x, t)'
        BY <1>1, <1>3, <2>0, <2>3, <3>1, WillListKept
      <4> QED
        BY <4>1, ToldBy
    <3>2. CASE d = m.call
      <4>1. call[m.call].sock = x /\ k.sock = x /\ Busy(m.call)
        BY <1>1, <2>0, <2>3, <3>2, BusyIs DEF WillList
      <4>2. \/ t \in k.seen
            \/ /\ NodeOf[t] # NodeOf[x] /\ NodeOf[t] \in k.pending
               /\ \A y \in Nodes : \A a \in Mail(y) :
                     AnswerOf(a, d) /\ a.node = NodeOf[t] => t \in a.members
        BY <1>1, <1>5, <2>3, <3>2, <4>1 DEF WillList, AnswerOf
      <4>3. CASE k.pending = {} /\ Listed(k)
        <5>1. t \in shown'[x]
          BY <1>6, <2>0, <1>7, <4>1, <4>2, <4>3
        <5> QED
          BY <5>1, ToldBy
      <4>4. CASE call'[m.call] = k
        <5>1. \A y \in Nodes : \A a \in Mail(y)' : a \in Mail(y)
          BY <1>3
        <5>2. WillList(d, x, t)'
          BY <3>2, <4>1, <4>2, <4>4, <5>1 DEF WillList, AnswerOf
        <5> QED
          BY <5>2, ToldBy
      <4> QED
        BY <1>1, <4>1, <4>3, <4>4, BusyIs
    <3> QED
      BY <3>1, <3>2
  <2> QED
    BY <2>1, <2>2, <2>3
<1> QED
  BY <1>1, <1>7, CallsKnown DEF history

\* ... when a process ends, ...
LEMMA CrashKnown ==
    ASSUME Typed, Known, NEW n \in Nodes, Crash(n)
    PROVE  Known'
<1>1. /\ lobby' = {x \in lobby : NodeOf[x] # n} /\ failed' = failed
      /\ \A x \in Sockets : NodeOf[x] # n => shown'[x] = shown[x]
      /\ \A d \in Calls : IF call[d].sock \in Sockets /\ NodeOf[call[d].sock] = n
                          THEN call'[d] = Idle ELSE call'[d] = call[d]
      /\ \A x \in Nodes : Mail(x)' = IF x = n THEN {} ELSE Mail(x)
  BY CrashFields, CrashQuiet DEF history
<1>2. ASSUME NEW x \in lobby', NEW t \in lobby', Told(x, t) PROVE Told(x, t)'
  <2>0. /\ x \in Sockets /\ x \in lobby /\ t \in Sockets /\ t \in lobby
        /\ NodeOf[x] \in Nodes /\ NodeOf[x] # n
    BY <1>1, NodeOfType DEF Typed
  <2>1. t \in shown[x] => Told(x, t)'
    BY <1>1, <2>0, ToldBy
  <2>2. Joined(t) \in Mail(NodeOf[x]) => Told(x, t)'
    BY <1>1, <2>0, ToldBy
  <2>3. ASSUME NEW d \in Calls, WillList(d, x, t) PROVE Told(x, t)'
    <3>1. call[d].sock = x
      BY <2>3 DEF WillList
    <3>2. call'[d] = call[d]
      BY <1>1, <2>0, <3>1
    <3>3. \A y \in Nodes : \A m \in Mail(y)' : m \in Mail(y)
      BY <1>1
    <3>4. WillList(d, x, t)'
      BY <2>0, <2>3, <3>2, <3>3, WillListKept
    <3> QED
      BY <3>4, ToldBy
  <2> QED
    BY <1>2, <2>1, <2>2, <2>3, ToldBy
<1>3. \A x, t \in lobby' : x # t /\ x \notin failed' =>
         Told(x, t)' \/ (x \in lobby /\ t \in lobby /\ (Told(x, t) => Told(x, t)'))
  BY <1>1, <1>2
<1> QED
  BY <1>1, <1>3, KnownKept

\* ... and when nothing of it changes.
LEMMA IdleKnown ==
    ASSUME Known, NEW s \in Sockets, Connect(s) \/ UNCHANGED vars
    PROVE  Known'
<1>1. UNCHANGED <<lobby, shown, call, inbox, failed>>
  BY DEF Connect, vars, history
<1> QED
  BY <1>1 DEF Known, Told, WillList, Mail
------------------------------------------------------------------------------
\* The invariant, from the start and over every step.
LEMMA InitInv == Init => IInv
<1> SUFFICES ASSUME Init PROVE IInv
  OBVIOUS
<1>1. \A n \in Nodes : inbox[n] = <<>> /\ Mail(n) = {}
  BY FollowsNone DEF Init, Mail
<1>2. /\ \A c \in Calls : call[c] = Idle
      /\ Idle \in CallRecord /\ Idle.pc = "idle"
  BY NoneIsNothing DEF Init, Idle, CallRecord
<1>3. Typed
  <2>1. inbox \in [Nodes -> Seq(Packets)]
    BY EmptySeq DEF Init
  <2>2. moves \in [Sockets -> Nat] /\ \A s \in Sockets : moves[s] <= Moves[s]
    BY MovesType DEF Init
  <2>3. call \in [Calls -> CallRecord]
    BY <1>2 DEF Init
  <2>4. \A s \in Sockets : ~Open(s)
    BY DEF Init, Open
  <2>5. /\ sock \in [Sockets -> {"new", "open", "gone"}]
        /\ lobby = {} /\ up = Nodes /\ shown \in [Sockets -> SUBSET Sockets]
    BY DEF Init
  <2> QED
    BY <1>1, <1>2, <2>1, <2>2, <2>3, <2>4, <2>5 DEF Typed
<1>4. LastWord
  BY <1>1, FollowsNone DEF LastWord
<1>5. Fresh
  BY <1>2 DEF Fresh
<1>6. Reads
  BY <1>2 DEF Reads
<1>7. Known /\ Ghosts
  BY DEF Init, Known, Ghosts
<1> QED
  BY <1>3, <1>4, <1>5, <1>6, <1>7 DEF IInv

\* No other step says a word.
LEMMA OtherWord ==
    ASSUME Typed, LastWord, NEW s, NEW c, NEW n, Other(s, c, n)
    PROVE  LastWord'
<1>1. CASE s \in Sockets /\ Connect(s)
  BY <1>1, SameQuiet, WordKept DEF Connect
<1>2. CASE c \in Calls /\ AskNodes(c)
  BY <1>2, AskNodesFields, AskQuiet, WordKept
<1>3. CASE c \in Calls /\ FetchFails(c)
  BY <1>3, SameQuiet, WordKept DEF FetchFails
<1>4. CASE n \in Nodes /\ (HearAnnouncement(n) \/ HearAnswer(n))
  <2>1. inbox[n] # <<>> /\ inbox' = Rest(n) /\ UNCHANGED <<lobby, up>>
    BY <1>4 DEF HearAnnouncement, HearAnswer, Arrives
  <2> QED
    BY <1>4, <2>1, RestQuiet, WordKept
<1>5. CASE n \in Nodes /\ AnswerFetch(n)
  BY <1>5, AnswerFetchFields, AnswerQuiet, WordKept
<1>6. CASE n \in Nodes /\ Crash(n)
  BY <1>6, CrashFields, CrashQuiet, WordKept
<1>7. CASE UNCHANGED vars
  BY <1>7, SameQuiet, WordKept DEF vars
<1> QED
  BY <1>1, <1>2, <1>3, <1>4, <1>5, <1>6, <1>7 DEF Other

\* At rest no announcement is on its way.
LEMMA RestSilent ==
    ASSUME AtRest, NEW n \in Nodes, NEW m \in Mail(n)
    PROVE  m.on \notin Announcements
  BY DEF AtRest, Mail, Range

\* Every step is a join, a parting or one of the others.
LEMMA NextInv == IInv /\ [Next]_vars => IInv'
<1> SUFFICES ASSUME IInv, [Next]_vars PROVE IInv'
  OBVIOUS
<1>0. Typed /\ LastWord /\ Fresh /\ Reads /\ Known /\ Ghosts
  BY DEF IInv
<1>1. ASSUME NEW c \in Calls, NEW s \in Sockets, JoinLobby(c, s) PROVE IInv'
  <2>1. Fresh'
    BY <1>0, <1>1, FreshKept
  <2> QED
    BY <1>0, <1>1, <2>1, JoinTyped, JoinWord, JoinReads, JoinKnown, JoinGhosts DEF IInv
<1>2. ASSUME NEW s \in Sockets, LeaveLobby(s) \/ Disconnect(s) PROVE IInv'
  <2>1. Parting(s)
    BY <1>2 DEF LeaveLobby, Disconnect, Parting, history
  <2>2. Fresh'
    BY <1>0, <2>1, FreshKept
  <2> QED
    BY <1>0, <2>1, <2>2, PartingTyped, PartingWord, PartingReads, PartingKnown,
       PartingGhosts DEF IInv
<1>3. ASSUME NEW s, NEW c, NEW n, Other(s, c, n) PROVE IInv'
  <2>1. Typed' /\ Fresh' /\ Reads' /\ Ghosts'
    BY <1>0, <1>3, OtherTyped, FreshKept, OtherReads, OtherGhosts
  <2>2. LastWord'
    BY <1>0, <1>3, OtherWord
  <2>3. Known'
    <3>1. CASE s \in Sockets /\ Connect(s)
      BY <1>0, <3>1, IdleKnown
    <3>2. CASE c \in Calls /\ (AskNodes(c) \/ FetchFails(c))
      BY <1>0, <3>2, AskKnown, FailsKnown
    <3>3. CASE n \in Nodes /\ (HearAnnouncement(n) \/ AnswerFetch(n))
      BY <1>0, <3>3, AnnouncementKnown, FetchKnown
    <3>4. CASE n \in Nodes /\ HearAnswer(n)
      BY <1>0, <3>4, AnswerKnown
    <3>5. CASE n \in Nodes /\ Crash(n)
      BY <1>0, <3>5, CrashKnown
    <3>6. CASE UNCHANGED vars
      BY <1>0, <3>6 DEF Known, Told, WillList, Mail, vars, history
    <3> QED
      BY <1>3, <3>1, <3>2, <3>3, <3>4, <3>5, <3>6 DEF Other
  <2> QED
    BY <2>1, <2>2, <2>3 DEF IInv
<1>4. ASSUME Next PROVE IInv'
  BY <1>1, <1>2, <1>3, <1>4 DEF Next, Other
<1> QED
  BY <1>3, <1>4 DEF Other

\* Every reachable state satisfies the inductive invariant.
THEOREM Invariant == Spec => []IInv
<1> QED
  BY InitInv, NextInv, PTL DEF Spec

\* The state keeps its type (TypeOK): members of the lobby are open sockets, and
\* a node that is down has nobody in the lobby and nothing to be delivered.
THEOREM TypeCorrect == Spec => []TypeOK
<1>1. ASSUME Typed PROVE TypeOK
  <2>1. \A n \in Nodes \ up : inbox[n] = <<>> /\ \A s \in lobby : NodeOf[s] # n
    BY <1>1 DEF Typed
  <2>2. \A s \in Sockets : moves[s] \in 0..Moves[s]
    BY <1>1, MovesType DEF Typed
  <2>3. \A s \in lobby : Open(s)
    BY <1>1 DEF Typed
  <2> QED
    BY <1>1, <2>1, <2>2, <2>3 DEF TypeOK, Typed
<1>2. IInv => TypeOK
  BY <1>1 DEF IInv
<1> QED
  BY <1>2, Invariant, PTL

\* joinLobby, leaveLobby and the announcements that cross them: once all is
\* heard, any two members show each other, except to one whose fetch has
\* failed (EveryoneKnown).
THEOREM AllKnown == Spec => []EveryoneKnown
<1>1. IInv => EveryoneKnown
  <2> SUFFICES ASSUME IInv, AtRest, NEW s \in lobby, NEW t \in lobby, s # t, t \notin shown[s]
               PROVE  s \in failed
    BY DEF EveryoneKnown
  <2>1. Typed /\ Known
    BY DEF IInv
  <2>2. s \in Sockets /\ t \in Sockets /\ NodeOf[s] \in Nodes
    BY <2>1, NodeOfType DEF Typed
  <2>3. Joined(t) \notin Mail(NodeOf[s])
    BY <2>2, RestSilent, PacketForms DEF Announcements
  <2>4. ASSUME NEW c \in Calls PROVE ~WillList(c, s, t)
    BY <2>1, <2>2, BusyIs DEF AtRest, WillList
  <2> QED
    BY <2>1, <2>3, <2>4 DEF Known, Told
<1> QED
  BY <1>1, Invariant, PTL

\* leaveLobby and 'disconnecting' against a list under way: once all is heard,
\* a member shows somebody who has left only if that one left while the
\* member's list was being collected, or its node has crashed (GhostsCrossed).
THEOREM GhostsExplained == Spec => []GhostsCrossed
<1>1. IInv => GhostsCrossed
  <2> SUFFICES ASSUME IInv, AtRest, NEW s \in lobby, NEW t \in shown[s] \ lobby
               PROVE  <<s, t>> \in crossed \/ NodeOf[t] \notin up
    BY DEF GhostsCrossed
  <2>1. Typed /\ Ghosts
    BY DEF IInv
  <2>2. s \in Sockets /\ t \in Sockets /\ NodeOf[s] \in Nodes
    BY <2>1, NodeOfType DEF Typed
  <2>3. Left(t) \notin Mail(NodeOf[s])
    BY <2>2, RestSilent, PacketForms DEF Announcements
  <2> QED
    BY <2>1, <2>3 DEF Ghosts
<1> QED
  BY <1>1, Invariant, PTL
=============================================================================
