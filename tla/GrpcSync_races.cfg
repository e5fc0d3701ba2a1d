\* Fatal status codes and two threads that shut down: the process may die, so it may stop.
CONSTANTS
    i1 = i1  i2 = i2  s1 = s1  s2 = s2  bg = bg
    Initers = {i1, i2}
    Stoppers = {s1, s2}
    Bg = bg
    StatusCodes = {"INTERNAL", "UNAVAILABLE"}
    FatalCodes = {"INTERNAL"}
    GracePeriod = 0
SYMMETRY Interchangeable
SPECIFICATION Spec
INVARIANTS
    NoLostWakeup
    ReadyServesCurrent
PROPERTIES
    SuccessIsOfThisSession
CHECK_DEADLOCK FALSE
