\* One `skycastle schedule` run of each workflow, with two store failures,
\* refines the abstract graph (commit_unknown_result is the subject of the
\* unknown_commit and navigation runs).
CONSTANTS
    Clients = {c1}
    Workflows <- AllWorkflows
    Labels <- MCLabels
    Names <- MCNames
    MaxId = 8
    MaxErrors = 2
    MaxUnknown = 0
    InitialDBs <- EmptyOnly
SPECIFICATION Spec
INVARIANT EdgesReferenceEntities
PROPERTY GraphSpec
