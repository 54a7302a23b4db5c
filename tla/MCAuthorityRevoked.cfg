SPECIFICATION PartsSpec
CONSTANTS
    None = None
    Requests <- Proposals
    Grants <- TwoGrants
    MaxTime = 1
    Faults = {"io", "crash"}
    Scopes = {"left", "right"}
    Effects = {"e1", "e2"}
    d1 = d1
    d2 = d2
    t1 = t1
    t2 = t2
    t3 = t3
SYMMETRY Symmetry
CHECK_DEADLOCK FALSE
PROPERTY RevokedChildNeverSucceeds
