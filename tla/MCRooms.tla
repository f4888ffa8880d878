------------------------------- MODULE MCRooms -------------------------------
\* Instances of RoomGateway for TLC: a moderator ann, the users bob and carol,
\* two nodes.
EXTENDS RoomGateway, TLC

CONSTANTS a1, a2, b1, b2, c1, r1, n1, n2, ann, bob, carol, k1, k2

OwnerOf == [s \in Sockets |-> CASE s \in {a1, a2} -> ann
                                [] s \in {b1, b2} -> bob
                                [] OTHER -> carol]
HomeOf == [s \in Sockets |-> IF s \in {a1, b2} THEN n1 ELSE n2]
OneHome == [s \in Sockets |-> n1]
ModeratorOf == [r \in Rooms |-> ann]
Capacity == [r \in Rooms |-> 2]
NoUidRoom == [u \in Users |-> None]
UidRoomOf == [u \in Users |-> IF u = carol THEN r1 ELSE None]

Symmetry == Permutations(Calls)
==============================================================================
