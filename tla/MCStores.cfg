SPECIFICATION PartsSpec
CONSTANTS
    None = None
    Json = Json
    text = text
    p1 = p1
    p2 = p2
    h1 = h1
    h2 = h2
    h3 = h3
    i1 = i1
    i2 = i2
    i3 = i3
    r1 = r1
    r2 = r2
    d1 = d1
    Blobs <- ChatBlobs
    Medias = {Json}
    Writers = {h1, h2}
    Permits = {p1, p2}
    MaxCalls = 4
    Faults = {"io", "crash"}
    MaxIssued = 3
SYMMETRY Symmetry
CHECK_DEADLOCK FALSE
INVARIANT DispatchedAtMostOnce
INVARIANT OutcomesAreBacked
INVARIANT AcknowledgedArtifactsStay
INVARIANT PacksAreKept
INVARIANT SatisfiedOnce
INVARIANT ChainIsKept
 
INVARIANT SearchIsConserved
PROPERTY Implements
