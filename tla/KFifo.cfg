CONSTANTS
    Values = {a, b}
    Size = 4
    Modulus = 8
    MaxLen = 5
SYMMETRY ValueSymmetry
SPECIFICATION Spec
INVARIANTS Consistent
PROPERTIES RefinesFifo
