\* The default configuration: no fatal status codes, several callers of each
\* kind.
CONSTANTS
    i1 = i1  i2 = i2  s1 = s1  s2 = s2  bg = bg
    Initers = {i1, i2}
    Stoppers = {s1, s2}
    Bg = bg
    StatusCodes = {"INTERNAL", "UNAVAILABLE"}
    FatalCodes = {}
    GracePeriod = 0
SYMMETRY Interchangeable
SPECIFICATION Spec
INVARIANTS
    ExclusiveJoin
    NoFault
    DownMeansNoThread
    LiveSessionRuns
    CancelReachesStream
PROPERTIES
    ShutdownSticks
