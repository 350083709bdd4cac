CONSTANTS
    ID = {p1, p2}
    Nobody = Nobody
    Worker = {w1}
    Expander = Expander
    MaxLag = 2
SPECIFICATION FairSpec
PROPERTIES
    QueriedAgain
    ForgottenLeaves
