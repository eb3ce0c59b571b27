\* One run of the example workflow; one transaction fails with a
\* non-retryable error.
CONSTANTS
    Clients = {c1}
    Workflows <- GreetingOnly
    Labels <- MCLabels
    Names <- MCNames
    MaxId = 8
    MaxErrors = 1
    MaxUnknown = 0
    InitialDBs <- EmptyOnly
SPECIFICATION Spec
INVARIANT CompletedScriptWired
