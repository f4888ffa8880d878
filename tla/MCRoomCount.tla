----------------------------- MODULE MCRoomCount -----------------------------
\* The instances of MCRooms, with RoomCount's history, from three states of the
\* gateway with two clients each, on the two nodes: ann and bob before their
\* first connection, ann's two clients, and ann with carol, whose uid is the
\* room's id.
EXTENDS MCRooms, RoomCount

Quiescent ==
    /\ joined = [r \in Rooms |-> {}]
    /\ current = [r \in Rooms |-> 0]
    /\ call = [c \in Calls |-> Idle]
    /\ disturbed = {}
    /\ excused = {}

Bare ==
    /\ Quiescent
    /\ stage = [s \in Sockets |-> IF s \in {a1, b1} THEN "new" ELSE "gone"]
    /\ table = [r \in Rooms |-> "unborn"]

AnnTwice ==
    /\ Quiescent
    /\ stage = [s \in Sockets |-> IF s \in {a1, a2} THEN "hooked" ELSE "gone"]
    /\ table = [r \in Rooms |-> "open"]

AnnAndCarol ==
    /\ Quiescent
    /\ stage = [s \in Sockets |-> CASE s = a1 -> "hooked"
                                    [] s = c1 -> "open"
                                    [] OTHER -> "gone"]
    /\ table = [r \in Rooms |-> "open"]

MCSpec == (Bare \/ AnnTwice \/ AnnAndCarol) /\ [][HNext]_hvars
==============================================================================
