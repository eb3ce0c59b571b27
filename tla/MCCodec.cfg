SPECIFICATION Spec
CONSTANTS
    ByteVals = {0, 255}
    UuidLen = 2
    MaxTupleLen = 3
INVARIANT TypeOK
INVARIANT DecodeInvertsEncode
INVARIANT RangeSelectsOwnKeys
INVARIANT ValuesRoundTrip
CHECK_DEADLOCK FALSE
