SPECIFICATION PartsSpec
CONSTANTS
    Threads = {t1, t2, t3}
    Processes = {p1, p2}
    Home <- TwoProcesses
    Operations = {o1, o2}
    Keys = {k1, k2}
    Calls <- OneKey
    Profile = {o1, o2}
    Capacity = 1
    MaxCalls = 3
    Faults = {}
    None = None
    r1 = r1
    r2 = r2
    c1 = c1
    c2 = c2
    k1 = k1
    k2 = k2
    t1 = t1
    t2 = t2
    t3 = t3
    p1 = p1
    p2 = p2
    o1 = o1
    o2 = o2
SYMMETRY Symmetry
CHECK_DEADLOCK FALSE
INVARIANT NeverRefused
INVARIANT EffectsAreRecordedOnce
INVARIANT ReportsAreTrue
INVARIANT FamiliesAreClosed
INVARIANT AnswersAreTrue
INVARIANT LeavesFollowExecutions
