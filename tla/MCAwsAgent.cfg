\* Every config over two regions (one of the legacy global set, one not)
\* and the empty one, with use_global_endpoint absent, false, or mistyped.
CONSTANTS
    RegionValues = {"eu-west-2", "af-south-1", ""}
    GlobalValues <- RegionalGlobalValues
SPECIFICATION Spec
CHECK_DEADLOCK FALSE
INVARIANT ConfigRead
INVARIANT LoginAccepted
