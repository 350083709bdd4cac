CONSTANTS
    Key = {a, b, c}
    Val = {x, y}
SYMMETRY Symmetry
SPECIFICATION Spec
INVARIANTS
    SlicesExact
PROPERTIES
    ImplementsMap
