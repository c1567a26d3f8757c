CONSTANTS
    d1 = d1
    d2 = d2
    d3 = d3
    e1 = e1
    e2 = e2
    Docs <- MCDocs
    Ed <- MCEd
    Rsa <- MCRsa
    Unlisted = Unlisted
    NoEd = NoEd
    NULL = NULL
    NoList = NoList
    Authorities = {2, 3, 4}
    Methods = {1, 2}
    MinMethodEd = 2
SPECIFICATION Spec
SYMMETRY MCSymmetry
INVARIANTS
    TypeOK
    CollationMatchesReference
