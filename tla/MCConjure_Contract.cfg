CONSTANTS
    d1 = d1
    d2 = d2
    d3 = d3
    Decoys <- MCDecoys
    DecoyFamily <- MCDecoyFamily
    Width = 2
SPECIFICATION Spec
\* One dial ends: DialConjure returns and every goroutine finishes.
CHECK_DEADLOCK FALSE
PROPERTIES
    DialContract
