SPECIFICATION FairSpec
CONSTANTS
    Contents = {c1, c2, c3}
    Missing = Missing
    Unread = Unread
INVARIANTS
    TypeOK
    NeverUnwatched
    NoMissedChange
PROPERTY
    EventuallySeen
