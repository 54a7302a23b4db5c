SPECIFICATION Spec
CONSTANTS
    Handles = {h1}
    Operations = {o1}
    Keys = {k1}
    Holders = {}
    Roots = {}
    Cursors = {}
    None = None
    NoFile = NoFile
    U64Max = 1
    Faults = {"io", "crash", "power", "vanish"}
CHECK_DEADLOCK FALSE
INVARIANT TombstonesAreNotForgotten
