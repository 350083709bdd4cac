CONSTANTS
    Value = {a, b, c, d, e, f}
    Priority = {1, 2, 3}
SYMMETRY Symmetry
SPECIFICATION Spec
INVARIANTS
    HeapInv
PROPERTIES
    ImplementsMap
