SPECIFICATION FairReloadSpec
CONSTANTS
    c1 = c1
    c2 = c2
    i1 = i1
    Contents <- MCContents
    Valid <- MCContents
    Issuers = {i1}
    IssuersOf <- MCIssuersOf
    ClientCredential <- MCClientCredential
    Requests = {}
    Authenticators = {a1, a2}
    Missing = Missing
    Unread = Unread
    Nil = Nil
INVARIANT
    SettledServesFile
PROPERTY
    EventuallyServed
