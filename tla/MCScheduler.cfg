SPECIFICATION PartsSpec
CONSTANTS
    Handles = {h1, h2}
    Operations = {o1, o2, o3}
    Keys = {k1, k2, k3}
    Holders = {a, b}
    Roots = {r1, r2}
    Cursors = {1}
    None = None
    NoFile = NoFile
    U64Max = 3
    Faults = {"io", "crash", "power", "vanish"}
    o1 = o1
    o2 = o2
    o3 = o3
    k1 = k1
    k2 = k2
    k3 = k3
SYMMETRY Symmetry
CHECK_DEADLOCK FALSE
INVARIANT FilesStayWellFormed
INVARIANT AcknowledgedFactsSurvive
PROPERTY LeasesAreFenced
