\* A fatal status code and one thread that shuts down: the contract, what each
\* state means, and the inductive invariants of the proofs.
CONSTANTS
    i1 = i1  i2 = i2  s1 = s1  s2 = s2  bg = bg
    Initers = {i1, i2}
    Stoppers = {s1}
    Bg = bg
    StatusCodes = {"INTERNAL", "UNAVAILABLE"}
    FatalCodes = {"INTERNAL"}
    GracePeriod = 1
SPECIFICATION Spec
INVARIANTS
    TypeOK
    ResultMatchesState
PROPERTIES
    ImplementsContract
