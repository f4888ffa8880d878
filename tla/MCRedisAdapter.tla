---------------------------- MODULE MCRedisAdapter ----------------------------
\* Instances of RedisAdapter for TLC: a socket on each node.
EXTENDS RedisAdapter, TLC

CONSTANTS n1, n2, n3, s1, s2, s3, i1, i2

HomeOf == [s \in Sockets |-> CASE s = s1 -> n1 [] s = s2 -> n2 [] s = s3 -> n3]
==============================================================================
