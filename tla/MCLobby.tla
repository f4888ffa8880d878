------------------------------- MODULE MCLobby -------------------------------
\* Instances of Lobby for TLC: two sockets on one node, one on another.
EXTENDS Lobby, TLC

CONSTANTS a1, a2, b1, n1, n2, c1, c2

\* a1 may join, leave and join again.
MovesOf == [s \in Sockets |-> IF s = a1 THEN 3 ELSE 1]

HomeOf == [s \in Sockets |-> IF s = b1 THEN n2 ELSE n1]

Symmetry == Permutations({c1, c2})
==============================================================================
