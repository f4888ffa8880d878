------------------------------ MODULE RoomSeats ------------------------------
(***************************************************************************)
(* The capacity of the rooms of RoomGateway, with a history variable:      *)
(* `crowded` holds the rooms and nodes for which two joins have been past  *)
(* the capacity check at once, neither of them in the room yet.            *)
(***************************************************************************)
EXTENDS RoomGateway

VARIABLE crowded

svars == <<stage, joined, table, current, call, crowded>>

\* The rooms that no socket enters without the check: nobody's uid room.
Checked == Rooms \ {UidRoom[u] : u \in Users}

\* The joins of room r on node n that are admitted and have not entered.
Admitted(r, n) == {c \in Calls : /\ call[c].op = "join"
                                 /\ call[c].pc \in {"verify", "fetch"}
                                 /\ call[c].room = r /\ call[c].node = n}

Overlapping == {w \in Rooms \X Nodes : \E c, d \in Admitted(w[1], w[2]) : c # d}

SInit == Init /\ crowded = {}
SNext == Next /\ crowded' = crowded \cup Overlapping'
SSpec == SInit /\ [][SNext]_svars

------------------------------------------------------------------------------
\* What a node lets into a room: `total` if joins of it have not overlapped
\* there, and otherwise one more for each other handler that can be in flight.
Limit(r, n) == Total[r] + IF <<r, n>> \in crowded THEN Cardinality(Calls) - 1 ELSE 0

\* The capacity check reads the members on the handler's own node, some awaits
\* before the join.  A room has more than room.total members on one node only
\* if joins of it have overlapped there, and then by no more than the joins
\* that can overlap: one after the other, however they interleave with
\* leavings, kicks and disconnections, and whatever happens on other nodes,
\* the check holds.  (Over all nodes it does not: each node lets `total` in.)
OverfullExplained ==
    \A r \in Checked, n \in Nodes : Cardinality(LocalMembers(r, n)) <= Limit(r, n)
==============================================================================
