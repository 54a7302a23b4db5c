SPECIFICATION PartsSpec
CONSTANTS
    Proposals <- AllProposals
    Reports <- AllReports
    Sizes = {1}
    Consents = {0, 2}
    Faults = {"io", "crash", "power", "clock"}
    MaxTime = 1
    MaxLease = 4
    None = None
CHECK_DEADLOCK FALSE
INVARIANT AllocationsCoverChildren
INVARIANT EffectsWithinEveryCeiling
INVARIANT RecordsAreKept
PROPERTY AttemptsRunOnceInTime
PROPERTY Implements
