SPECIFICATION Spec
CONSTANTS
    ann = ann
    k1 = k1
    k2 = k2
    i1 = i1
    i2 = i2
    i3 = i3
    None = None
    Users = {ann}
    Calls = {k1, k2}
    RowIds = {i1, i2, i3}
    Minute = 3
    Advantage = 1
    MaxTime = 6
    Enough = 7
SYMMETRY Symmetry
INVARIANTS TypeOK FewRows NoFasterThanDue
CHECK_DEADLOCK FALSE
