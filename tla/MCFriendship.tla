----------------------------- MODULE MCFriendship -----------------------------
\* Instances of Friendship for TLC: two users, one of whom may be deleted.
EXTENDS Friendship, TLC

CONSTANTS ann, bob, k1, k2, nickname, avatar, hash, v0, v1

Symmetry == Permutations(Calls)
==============================================================================
