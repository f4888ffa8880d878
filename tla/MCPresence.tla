------------------------------ MODULE MCPresence ------------------------------
\* Instances of Presence for TLC: ann and bob are friends; bob has two tabs.
EXTENDS Presence, TLC

CONSTANTS ann, bob, a1, b1, b2, n1, n2, m1

OwnerOf == [s \in Sockets |-> IF s = a1 THEN ann ELSE bob]
HomeOf == [s \in Sockets |-> IF s = a1 THEN n1 ELSE n2]
BothFriends == {<<ann, bob>>, <<bob, ann>>}

Symmetry == Permutations({b1, b2})
==============================================================================
