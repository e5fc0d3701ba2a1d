\* Does Init wait for kReady or its deadline?  Nobody shuts down and no status is
\* fatal, so that the session goes on.
CONSTANTS
    i1 = i1  bg = bg
    Initers = {i1}
    Stoppers = {}
    Bg = bg
    StatusCodes = {"INTERNAL", "UNAVAILABLE"}
    FatalCodes = {}
    GracePeriod = 0
SPECIFICATION Spec
PROPERTIES
    BlocksUntilReadyOrTimeout
