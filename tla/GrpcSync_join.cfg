\* Does Shutdown join safely when a stream has failed for good?
CONSTANTS
    i1 = i1  i2 = i2  s1 = s1  s2 = s2  bg = bg
    Initers = {i1}
    Stoppers = {s1, s2}
    Bg = bg
    StatusCodes = {"INTERNAL", "UNAVAILABLE"}
    FatalCodes = {"INTERNAL"}
    GracePeriod = 0
SPECIFICATION Spec
INVARIANTS
    JoinsSafely
CHECK_DEADLOCK FALSE
