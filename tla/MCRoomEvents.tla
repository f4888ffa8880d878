----------------------------- MODULE MCRoomEvents -----------------------------
\* The instances of MCRooms, with RoomEvents, from two states the gateway can
\* be in.
EXTENDS MCRooms, RoomEvents

Quiescent ==
    /\ call = [c \in Calls |-> Idle]
    /\ inbox = [n \in Nodes |-> <<>>]
    /\ amiss = [s \in Sockets |-> {}]
    /\ untold = {}
    /\ hidden = {}

\* No room yet; the client b2 has come and gone, a1 is connected.
Bare ==
    /\ Quiescent
    /\ stage = (a1 :> "hooked" @@ b1 :> "new" @@ b2 :> "gone")
    /\ joined = [r \in Rooms |-> {}]
    /\ table = [r \in Rooms |-> "unborn"]
    /\ current = [r \in Rooms |-> 0]
    /\ shown = [s \in Sockets |-> {}]
    /\ asked = 0

\* Rooms of ann and bob, who show each other; bob's other client, on the other
\* node, is not connected yet.  Two requests are left.
Populated ==
    /\ Quiescent
    /\ stage = [s \in Sockets |-> IF s = b1 THEN "new" ELSE "hooked"]
    /\ joined = [r \in Rooms |-> {a1, b2}]
    /\ table = [r \in Rooms |-> "open"]
    /\ current = [r \in Rooms |-> 2]
    /\ shown = [s \in Sockets |-> IF s = b1 THEN {} ELSE {a1, b2} \ {s}]
    /\ asked = MaxRequests - 2

MCSpec == (Bare \/ Populated) /\ [][ENext]_allvars
==============================================================================
