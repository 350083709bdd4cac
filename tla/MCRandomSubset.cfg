CONSTANTS
    ID = {a, b, c, d, e}
    MaxN = 5
SYMMETRY Symmetry
SPECIFICATION SubsetSpec
INVARIANTS
    SubsetTypeOK
    SampleRight
    AnswerRight
