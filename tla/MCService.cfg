SPECIFICATION PartsSpec
CONSTANTS
    None = None
    c1 = c1
    c2 = c2
    c3 = c3
    i1 = i1
    i2 = i2
    i3 = i3
    t1 = t1
    t2 = t2
    p1 = p1
    o1 = o1
    k1 = k1
    Daemons = {d1}
    Clients = {c1, c2, c3}
    Owners = {c1, c2}
    Ids = {i1, i2, i3}
    MaxIds = 2
    Max = 2
    MaxSends = 4
    Faults = {"crash", "poison"}
CHECK_DEADLOCK FALSE
INVARIANT SlotsMatchWorkers
PROPERTY ConnectionsEnd
PROPERTY CallsReturn
PROPERTY WaitsEnd
