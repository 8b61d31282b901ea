CONSTANTS
    Nil = Nil
    Empty = ""
    Length <- MCLength
    HostnameRegex <- MCHostnameRegex
    Port <- MCPort
    NameRegex <- MCNameRegex
    ScopeRegex <- MCScopeRegex
    PrintableASCII <- MCPrintableASCII
    Certificates <- MCCertificates
    SomeCertificates <- MCSomeCertificates
    ParseURL <- MCParseURL
    TrimSlash <- MCTrimSlash
    TypeOf <- MCTypeOf
    UsesEmail <- MCUsesEmail
    UsesEmailVerified <- MCUsesEmailVerified
    ExtraKeys <- MCExtraKeys
    Files <- MCFiles

SPECIFICATION Spec
CHECK_DEADLOCK FALSE

INVARIANTS
    TypeOK
    AcceptedBuilds
    NoRuleLost
    SourcesComplete
    ClaimNamesDisjoint
    IssuersDistinct
    WithinBudget
