SPECIFICATION Spec
CONSTANTS
    ann = ann
    bob = bob
    a1 = a1
    b1 = b1
    b2 = b2
    n1 = n1
    n2 = n2
    m1 = m1
    None = None
    Users = {ann, bob}
    Sockets = {a1, b1, b2}
    Nodes = {n1, n2}
    Owner <- OwnerOf
    NodeOf <- HomeOf
    Friends <- BothFriends
    Messages = {m1}
    Writers = {a1}
    Faulty = {a1}
    Mortal = {n2}
    Forgotten = {bob}
SYMMETRY Symmetry
INVARIANTS TypeOK OnlineHasSocket SocketIsOnline ToldRight NoMessageMissed
CHECK_DEADLOCK FALSE
