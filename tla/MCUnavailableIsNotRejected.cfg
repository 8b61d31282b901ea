SPECIFICATION Spec
CONSTANTS
    email = email
    groupsClaim = groupsClaim
    verified = verified
    s = s
    u = u
    empty = empty
    Names <- MCNames
    Strings <- MCStrings
    Unquotable = {u}
    EmptyString = empty
    Absent = Absent
    Malformed = Malformed
    True = True
    Nil = Nil
    Error = Error
    Rejected = Rejected
    Email = email
    EmailVerified = verified
    Jti = groupsClaim
    Configurations <- DocumentedConfigurations
INVARIANT
    UnavailableIsNotRejected
CHECK_DEADLOCK FALSE
