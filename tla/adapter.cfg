SPECIFICATION FairSpec
CONSTANTS
    n1 = n1
    n2 = n2
    n3 = n3
    s1 = s1
    s2 = s2
    s3 = s3
    i1 = i1
    i2 = i2
    None = None
    Nodes = {n1, n2, n3}
    Sockets = {s1, s2, s3}
    Home <- HomeOf
    Ids = {i1}
    Late = {n3}
    Mortal = {n2}
INVARIANTS TypeOK HeardOnce CompleteUnlessJoined PacketOnce NothingMissed
PROPERTIES RequestsEnd Gathers
CHECK_DEADLOCK FALSE
