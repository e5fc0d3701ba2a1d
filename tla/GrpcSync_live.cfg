\* One caller of each kind, under fairness.
CONSTANTS
    i1 = i1  i2 = i2  s1 = s1  s2 = s2  bg = bg
    Initers = {i1}
    Stoppers = {s1}
    Bg = bg
    StatusCodes = {"INTERNAL", "UNAVAILABLE"}
    FatalCodes = {"INTERNAL"}
    GracePeriod = 1
SPECIFICATION FairSpec
PROPERTIES
    AllCallsReturn
    KeepsContract
    RetriesOrStops
