CONSTANTS
    Width = 3
    Rtts <- MCRtts
SPECIFICATION Spec
CHECK_DEADLOCK FALSE
INVARIANT SleepWithinSpecBounds
