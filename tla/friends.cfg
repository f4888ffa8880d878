SPECIFICATION Spec
CONSTANTS
    ann = ann
    bob = bob
    None = None
    k1 = k1
    k2 = k2
    nickname = nickname
    avatar = avatar
    hash = hash
    Hash = hash
    v0 = v0
    v1 = v1
    Users = {ann, bob}
    Calls = {k1, k2}
    Fields = {nickname, avatar, hash}
    Values = {v0, v1}
    Default = v0
    Moderators = {ann}
SYMMETRY Symmetry
INVARIANTS TypeOK MutualOnlyByRace NoOrphans
PROPERTIES CleanDelete CleanUpdate
CHECK_DEADLOCK FALSE
