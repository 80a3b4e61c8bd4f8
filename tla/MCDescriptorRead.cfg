SPECIFICATION Spec
CONSTANTS
    c1 = c1
    c2 = c2
    d1 = d1
    d2 = d2
    b1 = b1
    b2 = b2
    Callers <- MCCallers
    Displays <- MCDisplays
    Blocks <- MCBlocks
    Null = Null
    Descriptor = Descriptor
SYMMETRY Symmetry
INVARIANTS PhaseTwoReads
