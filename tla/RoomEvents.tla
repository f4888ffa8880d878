------------------------------ MODULE RoomEvents ------------------------------
(***************************************************************************)
(* What the clients in a room are shown of each other: the events that the *)
(* handlers of RoomGateway send, on their way through the Redis adapter.   *)
(* A step of RoomGateway is joined with what it sends.                     *)
(*                                                                         *)
(*   EXISTING_ROOM_USERS   to who joins: the list its handler has fetched  *)
(*   NEW_USER              "new", to the others when somebody joins        *)
(*   LEFT_ROOM             "left", when a leaving has been counted         *)
(*   KICK_USER             "kicked", ahead of the eviction                 *)
(*                                                                         *)
(* The client is not part of the repository.  It is taken to show whom it  *)
(* is told of until it is told that they left or were kicked, to start     *)
(* from the list when it joins and to show nobody after its own leaving.   *)
(* A kick carries a uid, of which KICK_USER tells, and the sid of whom it  *)
(* evicts; the client is taken to give those of one other user.            *)
(***************************************************************************)
EXTENDS RoomGateway, Sequences, Functions

CONSTANT MaxRequests    \* bound: requests

ASSUME RequestsAreCounted == MaxRequests \in Nat
ASSUME OneRoom == \E r \in Rooms : Rooms = {r}    \* the views are those of one room

VARIABLES
    asked,      \* how many requests there were
    shown,      \* whom each client shows
    inbox,      \* packets published for a node and not yet there, in order
    amiss,      \* history: whom the list of a client had wrong when it entered
    untold,     \* history: who left, or will, with no word of it that comes last
    hidden      \* history: members of whom a leaving is told all the same

evars == <<asked, shown, inbox, amiss, untold, hidden>>
allvars == <<vars, evars>>

Packet == [kind: {"new", "left", "kicked"}, who: Sockets, room: Rooms]

\* The answer of another node to a fetch of call c comes over the same
\* connection as the packets, behind those that node has published before it.
Answer(c) == [kind |-> "answer", call |-> c]
Answers == {Answer(c) : c \in Calls \cup {None}}

OfSameUser(s) == {u \in Sockets : Owner[u] = Owner[s]}

\* What packet p does to the view of a client m that receives it.  KICK_USER
\* names a user, the others a socket.
View(m, view, p) ==
    CASE p.kind = "new" -> view \cup {p.who}
      [] p.kind = "left" -> IF m = p.who THEN {} ELSE view \ {p.who}
      [] p.kind = "kicked" -> IF m \in OfSameUser(p.who) THEN {}
                              ELSE view \ OfSameUser(p.who)

Hear(views, audience, p) ==
    [m \in Sockets |-> IF m \in audience THEN View(m, views[m], p) ELSE views[m]]

\* Members that KICK_USER names although another client of theirs was kicked.
Mistaken(p) == IF p.kind = "kicked"
               THEN (joined[p.room] \cap OfSameUser(p.who)) \ {p.who}
               ELSE {}

\* Mutant of Publish: a broadcast stays on its node, as without the adapter.
PublishLocally(n, p) == UNCHANGED inbox

\* A broadcast from node n: at once for the sockets of n, by Redis elsewhere.
Publish(n, p) == inbox' = [m \in Nodes |-> IF m = n THEN inbox[m]
                                           ELSE Append(inbox[m], p)]

------------------------------------------------------------------------------
\* Mutant of TellEntered: the newcomer is announced to nobody.
TellEnteredNobody(k) ==
    /\ shown' = [shown EXCEPT ![k.sock] = k.seen \ {k.sock}]
    /\ UNCHANGED <<asked, inbox, amiss, untold, hidden>>

\* joinClientToRoom and notifyNewUserJoined: the list, then NEW_USER, also for
\* a client that is gone by now.
TellEntered(k) ==
    LET s == k.sock
        others == joined[k.room] \ {s}
        evicted == {call[c].target : c \in {d \in Calls : Evicting(call[d])}}
        packet == [kind |-> "new", who |-> s, room |-> k.room]
        leaving == \E c \in Calls : /\ call[c].op = "leave"
                                    /\ call[c].pc = "fetch"
                                    /\ call[c].sock = s
        here == stage[s] \in Live
    IN  /\ shown' = [Hear(shown, others \cap On(k.node), packet)
                       EXCEPT ![s] = IF here THEN k.seen \ {s} ELSE {}]
        /\ Publish(k.node, packet)
        /\ amiss' = [t \in Sockets |->
              IF t = s THEN (others \ k.seen) \cup (k.seen \ others)
                            \cup (k.seen \cap evicted)
              ELSE IF t \in others THEN amiss[t] \ {s} ELSE amiss[t]]
        /\ untold' = IF here /\ s \notin evicted THEN untold ELSE untold \cup {s}
        /\ UNCHANGED asked
        /\ hidden' = IF leaving THEN hidden \cup {s} ELSE hidden \ {s}

\* Mutant of TellCounted: LEFT_ROOM names the user, not the socket.
TellCountedByUser(k) ==
    /\ Publish(k.node, [kind |-> "left", who |-> Owner[k.sock], room |-> k.room])
    /\ UNCHANGED <<asked, shown, amiss, untold, hidden>>

\* LEFT_ROOM follows the count of a leave or a disconnection.
TellCounted(k) ==
    LET packet == [kind |-> "left", who |-> k.sock, room |-> k.room]
        own == IF k.op = "leave" THEN {k.sock} ELSE {}
        audience == (LocalMembers(k.room, k.node) \ {k.sock}) \cup own
    IN  IF k.op \in {"leave", "disc"}
        THEN /\ shown' = Hear(shown, audience, packet)
             /\ Publish(k.node, packet)
             /\ untold' = untold \ {k.sock}
             /\ UNCHANGED <<asked, amiss, hidden>>
        ELSE UNCHANGED evars

\* Bound: the uid in a kick is that of the target's user, so that a kick of
\* one's own other socket is refused.
Named(k) == Owner[k.target] # Owner[k.sock]

\* Mutant of TellKicked: only the target's node is told.
TellKickedAtHome(k) ==
    /\ inbox' = [inbox EXCEPT ![NodeOf[k.target]] =
          Append(@, [kind |-> "kicked", who |-> k.target, room |-> k.room])]
    /\ UNCHANGED <<asked, shown, amiss, untold, hidden>>

\* notifyKickUser, before the target leaves.  It can overtake the NEW_USER of
\* a second join of the target on the way to this node.
TellKicked(k) ==
    LET packet == [kind |-> "kicked", who |-> k.target, room |-> k.room]
        overtakes == [packet EXCEPT !.kind = "new"] \in Range(inbox[k.node])
    IN  /\ shown' = Hear(shown, LocalMembers(k.room, k.node), packet)
        /\ Publish(k.node, packet)
        /\ hidden' = hidden \cup Mistaken(packet)
        /\ untold' = IF overtakes THEN untold \cup {k.target} ELSE untold
        /\ UNCHANGED <<asked, amiss>>

\* REMOTE_LEAVE was published after KICK_USER, over the same connection.
KickHeard(k) ==
    [kind |-> "kicked", who |-> k.target, room |-> k.room]
        \notin Range(inbox[NodeOf[k.target]])

\* Every answer call c has been given is there.
Arrived(c) == Answer(c) \notin Range(inbox[call[c].node])

SendAnswer(c) ==
    /\ inbox' = [inbox EXCEPT ![call[c].node] = Append(@, Answer(c))]
    /\ UNCHANGED <<asked, shown, amiss, untold, hidden>>

\* The process of n is gone, with its sockets and what they have not sent.
NodeEnds(n) ==
    /\ inbox' = [inbox EXCEPT ![n] = <<>>]
    /\ shown' = [s \in Sockets |-> IF NodeOf[s] = n THEN {} ELSE shown[s]]
    /\ amiss' = [s \in Sockets |-> IF NodeOf[s] = n THEN {} ELSE amiss[s]]
    /\ untold' = untold \cup {s \in On(n) : stage[s] \in Live}
                        \cup {s \in On(n) : \E c \in Calls : call[c].sock = s}

\* Nobody waits for the answers to c any more; they are read and dropped.
Disowned(queue, c) ==
    [i \in DOMAIN queue |-> IF queue[i] = Answer(c) THEN Answer(None) ELSE queue[i]]

\* The count fails: no event follows.
TellNobody(c) ==
    LET k == call[c]
    IN  IF k.op = "disc" THEN NodeEnds(k.node) /\ UNCHANGED <<asked, hidden>>
        ELSE /\ untold' = IF k.op = "leave" THEN untold \cup {k.sock} ELSE untold
             /\ inbox' = [inbox EXCEPT ![k.node] = Disowned(@, c)]
             /\ UNCHANGED <<asked, shown, amiss, hidden>>

\* With the disconnecting handler attached, LEFT_ROOM will follow.
Part(s) ==
    /\ untold' = IF stage[s] = "hooked" THEN untold ELSE untold \cup {s}
    /\ shown' = [shown EXCEPT ![s] = {}]
    /\ amiss' = [amiss EXCEPT ![s] = {}]
    /\ UNCHANGED <<asked, inbox, hidden>>

\* A packet reaches node n: whoever is in the room by then is told.
Deliver(n) ==
    /\ inbox[n] # <<>>
    /\ LET p == Head(inbox[n])
       IN  IF p.kind = "answer" THEN UNCHANGED <<shown, hidden>>
           ELSE /\ shown' = Hear(shown, LocalMembers(p.room, n), p)
                /\ hidden' = hidden \cup Mistaken(p)
    /\ inbox' = [inbox EXCEPT ![n] = Tail(@)]
    /\ UNCHANGED <<vars, asked, amiss, untold>>

------------------------------------------------------------------------------
EInit ==
    /\ Init
    /\ asked = 0
    /\ shown = [s \in Sockets |-> {}]
    /\ inbox = [n \in Nodes |-> <<>>]
    /\ amiss = [s \in Sockets |-> {}]
    /\ untold = {}
    /\ hidden = {}

\* The steps that send nothing.
Silent(c) ==
    \/ Refuse(c)
    \/ JoinStart(c) \/ JoinAdmit(c) \/ JoinPassword(c)
    \/ LeaveStart(c)
    \/ KickStart(c) \/ KickAuthorised(c)
    \/ DeleteCheck(c) \/ DeleteRow(c)

Asks(c, r) ==
    /\ asked < MaxRequests
    /\ \/ \E s \in Sockets :
             \/ AskJoin(c, s, r) \/ AskLeave(c, s, r)
             \/ \E t \in Sockets : AskKick(c, s, r, t)
       \/ \E n \in Nodes : DeleteAsk(c, r, n)
    /\ asked' = asked + 1
    /\ UNCHANGED <<shown, inbox, amiss, untold, hidden>>

ENext ==
    \/ \E c \in Calls :
          \/ JoinEnter(c) /\ Arrived(c) /\ TellEntered(call[c])
          \/ WriteCount(c) /\ Arrived(c) /\ TellCounted(call[c])
          \/ KickEvict(c) /\ Named(call[c]) /\ Arrived(c) /\ TellKicked(call[c])
          \/ RemoteLeave(c) /\ KickHeard(call[c]) /\ UNCHANGED evars
          \/ (\E n \in Nodes : FetchReply(c, n)) /\ SendAnswer(c)
          \/ (FetchTimeout(c) \/ WriteMissing(c)) /\ TellNobody(c)
          \/ Silent(c) /\ UNCHANGED evars
    \/ \E s \in Sockets :
          \/ (Connect(s) \/ TuneUid(s) \/ Hook(s)) /\ UNCHANGED evars
          \/ Disconnect(s) /\ Part(s)
    \/ \E c \in Calls, r \in Rooms : Asks(c, r)
    \/ (\E r \in Rooms : CreateRoom(r)) /\ UNCHANGED evars
    \/ \E n \in Nodes : Deliver(n)

ESpec == EInit /\ [][ENext]_allvars

------------------------------------------------------------------------------
(***************************************************************************)
(* Properties.                                                             *)
(***************************************************************************)
\* No handler is in flight and no packet on its way.
AtRest == (\A c \in Calls : call[c] = Idle) /\ (\A n \in Nodes : inbox[n] = <<>>)

\* The events' variables stay in their types.
EventsTypeOK ==
    /\ asked \in 0 .. MaxRequests
    /\ shown \in [Sockets -> SUBSET Sockets]
    /\ \A n \in Nodes : Range(inbox[n]) \subseteq Packet \cup Answers
    /\ amiss \in [Sockets -> SUBSET Sockets]
    /\ untold \subseteq Sockets
    /\ hidden \subseteq Sockets

\* A member shows every other member, unless that one entered between the
\* reading of its list and its own entry, or a leaving was told of one of the
\* two that was no longer true.
MembersShown ==
    AtRest => \A r \in Rooms : \A t, s \in joined[r] :
        \/ s = t \/ s \in shown[t]
        \/ s \in amiss[t] \/ s \in hidden \/ t \in hidden

\* Of two members at least one shows the other, however their joins overlapped.
OneShowsOther ==
    AtRest => \A r \in Rooms : \A t, s \in joined[r] :
        s = t \/ s \in shown[t] \/ t \in shown[s] \/ {s, t} \cap hidden # {}

\* A member shows somebody who is not in the room only if that one left between
\* the reading of the list and its own entry, or left with no LEFT_ROOM sent: it
\* was gone before its disconnecting handler was attached, its count failed, or
\* a join of its own announced it once more.
GhostsExplained ==
    AtRest => \A r \in Rooms : \A t \in joined[r] :
        shown[t] \subseteq joined[r] \cup amiss[t] \cup untold
==============================================================================
