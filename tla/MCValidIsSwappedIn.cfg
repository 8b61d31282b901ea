SPECIFICATION Spec
CONSTANTS
    c1 = c1
    c2 = c2
    i1 = i1
    i2 = i2
    Contents <- MCContents
    Valid <- MCValid
    Issuers = {i1, i2}
    IssuersOf <- MCIssuersOf
    ClientCredential <- MCClientCredential
    Requests = {r1}
    Authenticators = {a1, a2, a3}
    Missing = Missing
    Unread = Unread
    Nil = Nil
VIEW View
SYMMETRY Symmetry
INVARIANT
    ValidIsSwappedIn
