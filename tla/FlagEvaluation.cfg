\* One reader, every kind of flag; the binary's version is 1.
CONSTANTS
    r1 = r1
    Readers = {r1}
    Requests <- MCRequests
    Documents <- MCDocuments
    MaxContents = 3
    CurrentVersion = 1
    StrictValidation = FALSE
SPECIFICATION Spec
INVARIANTS
    TypeOK
    ResultExplained
    OwnMinimumGuards
