\* Three clients, subsets of one: everything is heard one by one.
CONSTANTS
    Client = {c1, c2, c3}
    Nobody = Nobody
    SubsetSize = 1
    MaxFailures = 1
SPECIFICATION FairSpec
PROPERTIES
    Spreads
