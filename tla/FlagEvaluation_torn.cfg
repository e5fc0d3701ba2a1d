\* Does the hook judge a flag by the metadata of the flag's own document?
CONSTANTS
    r1 = r1
    Readers = {r1}
    Requests <- OneRequest
    Documents <- FewDocuments
    MaxContents = 3
    CurrentVersion = 1
    StrictValidation = FALSE
SPECIFICATION Spec
INVARIANTS
    DocumentMinimumGuards
