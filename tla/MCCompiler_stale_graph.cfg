\* One `skycastle schedule` of Greeting on a cluster that still holds the
\* previous build's graph; one transaction, here the clear, may fail.
CONSTANTS
    Clients = {c1}
    Workflows <- GreetingOnly
    Labels <- MCLabels
    Names <- MCNames
    MaxId = 8
    MaxErrors = 1
    MaxUnknown = 0
    InitialDBs <- AfterPreviousBuild
SPECIFICATION Spec
PROPERTY WipeThenBuild
