SPECIFICATION Spec
CONSTANTS
    Reviews = {r1, r2}
    Observed = r1
    Configurator = Configurator
    i1 = i1
    i2 = i2
    i3 = i3
    Authenticators <- MCAuthenticators
    maxTokenSources = 2
    Issuers <- MCIssuers
    Lifetimes = {3}
    expiryDelta = 1
    shutdownTimeout = 2
    Nil = Nil
INVARIANTS
    TypeOK
    FreshToken
    InTime
    VerdictStands
    Drained
    ServeReturns
