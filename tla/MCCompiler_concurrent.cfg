\* Two concurrent `skycastle schedule` runs, each of the example workflow,
\* its first two calls, or a workflow that fails, with their own NewV7
\* clocks, each process weakly fair, one store failure and one
\* commit_unknown_result.  A process takes at most 7 ids (the example's 6
\* and a rerun); with two clocks the 7th of the second is 14 = MaxId, so no
\* process waits for an id.  No symmetry: the run checks a liveness
\* property, and Rank tells the processes apart.
CONSTANTS
    Clients = {c1, c2}
    Workflows <- ConcurrentWorkflows
    Labels <- MCLabels
    Names <- MCNames
    MaxId = 14
    MaxErrors = 1
    MaxUnknown = 1
    InitialDBs <- EmptyOnly
SPECIFICATION FairSpec
INVARIANT TypeOK
INVARIANT IndexesAgree
INVARIANT ProducedArtifactsComplete
PROPERTY Termination
