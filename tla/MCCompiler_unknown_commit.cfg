\* One run of the example workflow; one commit reports
\* commit_unknown_result after it took effect.
CONSTANTS
    Clients = {c1}
    Workflows <- GreetingOnly
    Labels <- MCLabels
    Names <- MCNames
    MaxId = 8
    MaxErrors = 0
    MaxUnknown = 1
    InitialDBs <- EmptyOnly
SPECIFICATION Spec
INVARIANT OneRecordPerCall
