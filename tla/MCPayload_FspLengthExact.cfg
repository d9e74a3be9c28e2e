CONSTANTS
    BaseSizes <- MCBaseSizes
    PadKeyLen <- MCPadKeyLen
    MaxPad <- MCMaxPad
SPECIFICATION Spec
INVARIANT FspLengthExact
CHECK_DEADLOCK FALSE
