CONSTANTS
    d1 = d1
    d2 = d2
    d3 = d3
    Decoys <- MCDecoys
    DecoyFamily <- MCDecoyFamily
    Width = 2
SPECIFICATION Spec
CHECK_DEADLOCK FALSE
INVARIANT OversizeStaysOffline
