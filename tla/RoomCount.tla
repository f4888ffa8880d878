------------------------------ MODULE RoomCount ------------------------------
(***************************************************************************)
(* The rooms of RoomGateway with two history variables.  `disturbed` holds *)
(* the handlers in flight whose room changed its members, by another's     *)
(* doing, after they had begun: it tells the counts that went stale under  *)
(* a handler from those that did not.  `excused` holds the rooms to which  *)
(* something has happened that the member count is known not to survive.   *)
(***************************************************************************)
EXTENDS RoomGateway

VARIABLES
    disturbed,
    excused

hvars == <<stage, joined, table, current, call, disturbed, excused>>

InFlight(k) == k.pc \notin {"idle", "guard"}

\* The step changes the members of c's room and is not a step of c, or c is
\* a join whose socket is gone by the end of the step.
Disturbed(c) ==
    \/ call'[c] = call[c] /\ joined'[call[c].room] # joined[call[c].room]
    \/ call'[c].op = "join" /\ stage'[call'[c].sock] = "gone"

\* The members of r have changed by k, or will, and k's count is to come.
Owes(k, r) == /\ k.room = r
              /\ \/ k.op = "join" /\ k.pc = "write"
                 \/ k.op \in {"leave", "kick", "disc"} /\ k.pc = "fetch"

\* A process ends, of a cause outside this model or on the rejection that the
\* count of a disconnection leaves unhandled.
ProcessEnds == \/ \E n \in Nodes : Crash(n)
               \/ \E c \in Calls : /\ call[c].op = "disc"
                                   /\ FetchTimeout(c) \/ WriteMissing(c)

\* Why the count of r may be wrong after this step:
Excuse(r) ==
    \* nobody counts a socket that tunes in to its user's uid, or a member
    \* that disconnects before the handler is attached or out of its uid room;
    \/ \E s \in Sockets : /\ TuneUid(s) \/ (Disconnect(s) /\ r \notin RoomsToSettle(s))
                          /\ joined'[r] # joined[r]
    \* a count is written that others have made stale;
    \/ \E c \in Calls : WriteCount(c) /\ c \in disturbed /\ call[c].room = r
    \* the count fails after the change;
    \/ \E c \in Calls : FetchTimeout(c) /\ Owes(call[c], r)
    \* a process ends with members of r, or with a handler that owes the count.
    \/ /\ ProcessEnds
       /\ \/ joined'[r] # joined[r]
          \/ \E c \in Calls : Owes(call[c], r) /\ ~Owes(call'[c], r)

Track == /\ disturbed' = {c \in Calls : /\ InFlight(call'[c])
                                        /\ c \in disturbed \/ Disturbed(c)}
         /\ excused' = excused \cup {r \in Rooms : Excuse(r)}

HInit == Init /\ disturbed = {} /\ excused = {}
HNext == Next /\ Track
HSpec == HInit /\ [][HNext]_hvars

------------------------------------------------------------------------------
\* A count that nobody disturbed is exact: when a join, a leave, a kick or a
\* disconnect reaches the table and no one else entered or left its room since
\* it began, room.current becomes the number of members over all nodes.
CleanWriteExact ==
    [][\A c \in Calls : WriteCount(c) /\ c \notin disturbed =>
          current'[call[c].room] = Cardinality(joined'[call[c].room])]_hvars

\* Nothing else makes the count drift: while no handler has a count of the
\* room to write, room.current of an existing room is the number of its
\* members over all nodes, unless one of the four things has happened to it.
\* However the handlers of other rooms, refused requests, clients that come
\* and go and processes that end elsewhere interleave, it comes out right.
DriftExplained ==
    \A r \in Rooms \ excused :
        table[r] = "open" /\ (\A c \in Calls : ~Owes(call[c], r)) =>
            current[r] = Cardinality(joined[r])
==============================================================================
