\* One thread that initialises, one that shuts down, one that evaluates.
CONSTANTS
    i1 = i1  s1 = s1  e1 = e1  bg = bg
    Initers = {i1}
    Stoppers = {s1}
    Evaluators = {e1}
    Bg = bg
    StatusCodes = {"INTERNAL", "UNAVAILABLE"}
    FatalCodes = {"INTERNAL"}
    GracePeriod = 0
SPECIFICATION ProviderFairSpec
INVARIANTS
    ProviderTypeOK
    ReadyHasSession
    CallsApart
    ServedFromSession
PROPERTIES
    ProviderCallsReturn
