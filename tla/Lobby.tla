-------------------------------- MODULE Lobby --------------------------------
(***************************************************************************)
(* The lobby: one socket.io room on every node, with nothing stored.  A    *)
(* client that joins is announced to the members and asks all nodes who    *)
(* they are; its list and the announcements of others travel separately.   *)
(*                                                                         *)
(* `inbox[n]` is what Redis has still to deliver to node n, in order:      *)
(* announcements, the requests of a fetchSockets and their answers (see    *)
(* RedisAdapter).  `call[c]` is a joinLobby handler that awaits its fetch: *)
(*   count     the node's own members have been read                       *)
(*   fetch     the request has been published; `pending` have not answered *)
(***************************************************************************)
EXTENDS Naturals, FiniteSets, Sequences

CONSTANTS
    Sockets, Nodes,
    NodeOf,     \* node of each socket
    Calls,      \* bound: joinLobby handlers in flight together
    Moves,      \* bound: joins and leaves of a socket
    Mortal,     \* nodes that may crash
    None

ASSUME NodeOfType == NodeOf \in [Sockets -> Nodes]
ASSUME NoneIsNothing == None \notin Sockets \cup Calls
ASSUME MovesType == Moves \in [Sockets -> Nat]

VARIABLES
    sock,       \* each socket: new, open or gone
    lobby,      \* sockets in the room 'lobby'
    shown,      \* whom each client shows as being in the lobby
    call, inbox,
    up,         \* nodes that run
    moves,      \* joins and leaves each socket has made
    failed,     \* history: sockets one of whose fetches has failed
    crossed     \* history: <<s, t>> when t has left during a fetch of s

history == <<moves, failed, crossed>>
vars == <<sock, lobby, shown, call, inbox, up, history>>

Open(s) == sock[s] = "open"
Local(n) == {s \in lobby : NodeOf[s] = n}
Idle == [pc |-> "idle", sock |-> None, seen |-> {}, pending |-> {}]
Fetching(s) == \E c \in Calls : call[c].sock = s

Joined(s) == [on |-> "joined", sock |-> s]
Left(s) == [on |-> "left", sock |-> s]
Asked(c) == [on |-> "asked", call |-> c]
Answer(c, n) == [on |-> "answer", call |-> c, node |-> n, members |-> Local(n)]
Announcements == {"joined", "left"}

\* An id of a request is not used again.
Free(c) == /\ call[c] = Idle
           /\ \A n \in Nodes : \A k \in DOMAIN inbox[n] :
                 inbox[n][k].on \notin Announcements => inbox[n][k].call # c

\* To the other nodes that run.
Publish(n, m) == inbox' = [x \in Nodes |-> IF x \in up \ {n} THEN Append(inbox[x], m)
                                           ELSE inbox[x]]

\* What the members on node n show after the announcement m.
Heard(view, n, m) == [s \in Sockets |->
    IF s \notin Local(n) \ {m.sock} THEN view[s]
    ELSE IF m.on = "joined" THEN view[s] \cup {m.sock} ELSE view[s] \ {m.sock}]

\* client.to(lobby).emit; the client itself starts with an empty list.
Announce(s, m) ==
    /\ shown' = [Heard(shown, NodeOf[s], m) EXCEPT ![s] = {}]
    /\ Publish(NodeOf[s], m)

Moving(s) == moves[s] < Moves[s] /\ moves' = [moves EXCEPT ![s] = @ + 1]

------------------------------------------------------------------------------
Connect(s) ==
    /\ sock[s] = "new" /\ NodeOf[s] \in up
    /\ sock' = [sock EXCEPT ![s] = "open"]
    /\ UNCHANGED <<lobby, shown, call, inbox, up, history>>

\* The client's members are read with it: it has joined by then.
Reading(c, s) ==
    call' = [call EXCEPT ![c] = [pc |-> "count", sock |-> s, pending |-> {},
                                 seen |-> Local(NodeOf[s]) \cup {s}]]

\* Mutant of JoinLobby: nobody is told.
JoinLobbySilently(c, s) ==
    /\ Open(s) /\ s \notin lobby /\ Free(c) /\ Moving(s)
    /\ lobby' = lobby \cup {s}
    /\ shown' = [shown EXCEPT ![s] = {}]
    /\ Reading(c, s)
    /\ UNCHANGED <<sock, inbox, up, failed, crossed>>

\* joinLobby, up to the await.
JoinLobby(c, s) ==
    /\ Open(s) /\ s \notin lobby /\ Free(c) /\ Moving(s)
    /\ lobby' = lobby \cup {s}
    /\ Announce(s, Joined(s))
    /\ Reading(c, s)
    /\ UNCHANGED <<sock, up, failed, crossed>>

\* existingUsers, if the client is still there.
Listed(k) ==
    shown' = IF Open(k.sock) THEN [shown EXCEPT ![k.sock] = @ \cup (k.seen \ {k.sock})]
             ELSE shown

\* The nodes have been counted, among them some that have died since; the
\* request is published, unless there is no other.
AskNodes(c) == \E dead \in SUBSET (Nodes \ up) :
    LET k == call[c]  others == (up \ {NodeOf[k.sock]}) \cup dead IN
    /\ k.pc = "count"
    /\ IF others = {}
       THEN Listed(k) /\ call' = [call EXCEPT ![c] = Idle] /\ UNCHANGED inbox
       ELSE /\ call' = [call EXCEPT ![c].pc = "fetch", ![c].pending = others]
            /\ Publish(NodeOf[k.sock], Asked(c))
            /\ UNCHANGED shown
    /\ UNCHANGED <<sock, lobby, up, history>>

\* The timer of the fetch: the handler throws, the client gets no list.
\* Bound: a node that runs answers in time.
FetchFails(c) ==
    /\ call[c].pc = "fetch"
    /\ call[c].pending \ up # {}
    /\ call' = [call EXCEPT ![c] = Idle]
    /\ failed' = failed \cup {call[c].sock}
    /\ UNCHANGED <<sock, lobby, shown, inbox, up, moves, crossed>>

Leaving(s) == /\ lobby' = lobby \ {s}
              /\ crossed' = crossed \cup {<<t, s>> : t \in {x \in Sockets : Open(x) /\ Fetching(x)}}

\* Mutant of LeaveLobby: only the node's own members are told.
LeaveLobbyLocally(s) ==
    /\ Open(s) /\ Moving(s) /\ Leaving(s)
    /\ shown' = [Heard(shown, NodeOf[s], Left(s)) EXCEPT ![s] = {}]
    /\ UNCHANGED <<sock, call, inbox, up, failed>>

\* leaveLobby; a client that is in no lobby is announced as well.
LeaveLobby(s) ==
    /\ Open(s) /\ Moving(s) /\ Leaving(s)
    /\ Announce(s, Left(s))
    /\ UNCHANGED <<sock, call, up, failed>>

\* Mutant of Disconnect: the socket stays in the room.
DisconnectStays(s) ==
    /\ Open(s)
    /\ sock' = [sock EXCEPT ![s] = "gone"]
    /\ Announce(s, Left(s))
    /\ UNCHANGED <<lobby, call, up, history>>

\* The 'disconnecting' handler; then socket.io takes the socket out.
Disconnect(s) ==
    /\ Open(s)
    /\ sock' = [sock EXCEPT ![s] = "gone"]
    /\ Leaving(s)
    /\ Announce(s, Left(s))
    /\ UNCHANGED <<call, up, moves, failed>>

------------------------------------------------------------------------------
\* Redis delivers.

Arrives(n, ons) == inbox[n] # <<>> /\ Head(inbox[n]).on \in ons
Rest(n) == [inbox EXCEPT ![n] = Tail(@)]

HearAnnouncement(n) ==
    /\ Arrives(n, Announcements)
    /\ shown' = Heard(shown, n, Head(inbox[n]))
    /\ inbox' = Rest(n)
    /\ UNCHANGED <<sock, lobby, call, up, history>>

\* REMOTE_FETCH; a settled request's answer would find nobody.
AnswerFetch(n) ==
    /\ Arrives(n, {"asked"})
    /\ LET c == Head(inbox[n]).call IN
       inbox' = IF call[c] = Idle THEN Rest(n)
                ELSE [Rest(n) EXCEPT ![NodeOf[call[c].sock]] = Append(@, Answer(c, n))]
    /\ UNCHANGED <<sock, lobby, shown, call, up, history>>

\* onresponse; the last answer resolves the fetch.
HearAnswer(n) ==
    /\ Arrives(n, {"answer"})
    /\ LET m == Head(inbox[n])
           k == [call[m.call] EXCEPT !.seen = @ \cup m.members, !.pending = @ \ {m.node}] IN
       IF call[m.call] = Idle THEN UNCHANGED <<shown, call>>
       ELSE IF k.pending = {}
       THEN Listed(k) /\ call' = [call EXCEPT ![m.call] = Idle]
       ELSE call' = [call EXCEPT ![m.call] = k] /\ UNCHANGED shown
    /\ inbox' = Rest(n)
    /\ UNCHANGED <<sock, lobby, up, history>>

\* The process ends without a word; what it has published is delivered.
Crash(n) ==
    LET here == {s \in Sockets : NodeOf[s] = n} IN
    /\ n \in Mortal \cap up
    /\ up' = up \ {n}
    /\ sock' = [s \in Sockets |-> IF s \in here THEN "gone" ELSE sock[s]]
    /\ lobby' = lobby \ here
    /\ shown' = [s \in Sockets |-> IF s \in here THEN {} ELSE shown[s]]
    /\ call' = [c \in Calls |-> IF call[c].sock \in here THEN Idle ELSE call[c]]
    /\ inbox' = [inbox EXCEPT ![n] = <<>>]
    /\ UNCHANGED history

------------------------------------------------------------------------------
Init ==
    /\ sock = [s \in Sockets |-> "new"]
    /\ lobby = {}
    /\ shown = [s \in Sockets |-> {}]
    /\ call = [c \in Calls |-> Idle]
    /\ inbox = [n \in Nodes |-> <<>>]
    /\ up = Nodes
    /\ moves = [s \in Sockets |-> 0]
    /\ failed = {} /\ crossed = {}

Next ==
    \/ \E s \in Sockets : Connect(s) \/ LeaveLobby(s) \/ Disconnect(s)
    \/ \E c \in Calls : AskNodes(c) \/ FetchFails(c) \/ \E s \in Sockets : JoinLobby(c, s)
    \/ \E n \in Nodes : HearAnnouncement(n) \/ AnswerFetch(n) \/ HearAnswer(n) \/ Crash(n)

Spec == Init /\ [][Next]_vars

------------------------------------------------------------------------------
CallRecord == [pc: {"idle", "count", "fetch"}, sock: Sockets \cup {None},
               seen: SUBSET Sockets, pending: SUBSET Nodes]

\* The variables stay in their types; members are open sockets.
TypeOK ==
    /\ sock \in [Sockets -> {"new", "open", "gone"}]
    /\ \A s \in lobby : Open(s)
    /\ shown \in [Sockets -> SUBSET Sockets]
    /\ call \in [Calls -> CallRecord]
    /\ \A n \in Nodes \ up : inbox[n] = <<>> /\ \A s \in lobby : NodeOf[s] # n
    /\ \A s \in Sockets : moves[s] \in 0..Moves[s]

\* All that was said has been heard and every list has come.
AtRest == /\ \A c \in Calls : call[c] = Idle
          /\ \A n \in Nodes : \A k \in DOMAIN inbox[n] : inbox[n][k].on \notin Announcements

\* In the end every two members show each other, whichever order they joined,
\* were announced and read in, except to a member whose fetch has failed.
EveryoneKnown ==
    AtRest => \A s, t \in lobby : s # t /\ t \notin shown[s] => s \in failed

\* A member shows somebody who is not there only if that one left while the
\* member's list was being collected, or if its node has crashed.
GhostsCrossed ==
    AtRest => \A s \in lobby : \A t \in shown[s] \ lobby :
                  <<s, t>> \in crossed \/ NodeOf[t] \notin up
==============================================================================
