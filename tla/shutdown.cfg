SPECIFICATION FairSpec
CONSTANTS
    t1 = t1
    t2 = t2
    c1 = c1
    c2 = c2
    Ticks = {t1, t2}
    Clients = {c1, c2}
    RoomClients = {c1}
    MaxFaults = 2
INVARIANTS TypeOK ContinuedOnce
PROPERTIES ToldBeforeExit GoneUntold HandedOver
CHECK_DEADLOCK FALSE
