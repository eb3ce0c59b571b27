\* Two concurrent runs of the example workflow and no store failures:
\* one run's clearDatabase lands between the other's transactions.
CONSTANTS
    Clients = {c1, c2}
    Workflows <- GreetingOnly
    Labels <- MCLabels
    Names <- MCNames
    MaxId = 8
    MaxErrors = 0
    MaxUnknown = 0
    InitialDBs <- EmptyOnly
SPECIFICATION Spec
INVARIANT EdgesReferenceEntities
