----------------------------- MODULE MCRoomSeats -----------------------------
\* The instances of MCRooms, with RoomSeats' history, from the state in which
\* every client is connected and the room is there.
EXTENDS MCRooms, RoomSeats

Clients == Permutations({a1, a2}) \cup Permutations(Calls)

Ready ==
    /\ stage = [s \in Sockets |-> "hooked"]
    /\ joined = [r \in Rooms |-> {}]
    /\ table = [r \in Rooms |-> "open"]
    /\ current = [r \in Rooms |-> 0]
    /\ call = [c \in Calls |-> Idle]
    /\ crowded = {}

MCSpec == Ready /\ [][SNext]_svars
==============================================================================
