\* One run of a workflow whose output kind is the int 256.
CONSTANTS
    Clients = {c1}
    Workflows <- WideKindOnly
    Labels <- MCLabels
    Names <- MCNames
    MaxId = 4
    MaxErrors = 0
    MaxUnknown = 0
    InitialDBs <- EmptyOnly
SPECIFICATION Spec
INVARIANT DeclaredKindsStored
