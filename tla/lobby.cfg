SPECIFICATION Spec
CONSTANTS
    a1 = a1
    a2 = a2
    b1 = b1
    n1 = n1
    n2 = n2
    c1 = c1
    c2 = c2
    None = None
    Sockets = {a1, a2, b1}
    Nodes = {n1, n2}
    NodeOf <- HomeOf
    Calls = {c1, c2}
    Moves <- MovesOf
    Mortal = {n2}
SYMMETRY Symmetry
INVARIANTS TypeOK EveryoneKnown GhostsCrossed
CHECK_DEADLOCK FALSE
