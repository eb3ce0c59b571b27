SPECIFICATION NavSpec
CONSTANTS
    Clients = {c1}
    Readers = {r1}
    Labels <- MCLabels
    Names <- MCNames
    Workflows <- AllWorkflows
    MaxId = 8
    MaxErrors = 1
    MaxUnknown = 1
    InitialDBs <- EmptyOnly
INVARIANT NavigationAgrees
INVARIANT ScriptOutputsResolve
