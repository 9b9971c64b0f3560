CONSTANTS
    Records = 2
    GenMod = 4
    MaxAhead = 1
    d1 = d1
    d2 = d2
    Data <- MCData
SYMMETRY PayloadSymmetry
SPECIFICATION Spec
INVARIANTS
    Restored
