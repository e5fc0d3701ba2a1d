\* Two threads initialise: does a shutdown leave the provider not ready?
CONSTANTS
    i1 = i1  i2 = i2  s1 = s1  bg = bg
    Initers = {i1, i2}
    Stoppers = {s1}
    Evaluators = {}
    Bg = bg
    StatusCodes = {"INTERNAL"}
    FatalCodes = {}
    GracePeriod = 0
SPECIFICATION ProviderSpec
INVARIANTS
    ShutdownMakesNotReady
