SPECIFICATION PartsSpec
CONSTANTS
    Limit = 1
    MaxOutput = 3
    p1 = p1
    p2 = p2
    e1 = e1
    e2 = e2
    Json = Json
CHECK_DEADLOCK FALSE
INVARIANT DispatchIsSupervised
INVARIANT TranscriptIsKept
PROPERTY EverythingBegunEnds
PROPERTY AutonomyStaysBounded
