CONSTANTS
    BaseSizes <- MCBaseSizes
    PadKeyLen <- MCPadKeyLen
    MaxPad <- MCMaxPad
SPECIFICATION Spec
INVARIANTS TagAligned PadBounded
PROPERTY RequestContract
CHECK_DEADLOCK FALSE
