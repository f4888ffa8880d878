SPECIFICATION MCSpec
CONSTANTS
    a1 = a1
    b1 = b1
    b2 = b2
    c1 = c1
    a2 = a2
    r1 = r1
    n1 = n1
    n2 = n2
    ann = ann
    bob = bob
    carol = carol
    None = None
    k1 = k1
    k2 = k2
    Sockets = {a1, a2, b2}
    Users = {ann, bob, carol}
    Rooms = {r1}
    Nodes = {n1, n2}
    Calls = {k1, k2}
    Owner <- OwnerOf
    NodeOf <- OneHome
    Moderator <- ModeratorOf
    Total <- Capacity
    Private = {r1}
    UidRoom <- NoUidRoom
    MayCrash = {n2}
INVARIANTS OverfullExplained
SYMMETRY Clients
CHECK_DEADLOCK FALSE
