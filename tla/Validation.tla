----------------------------- MODULE Validation -----------------------------
(***************************************************************************)
(* ValidateAuthenticationConfiguration: which configurations the           *)
(* configurator goes on to build.                                          *)
(*                                                                         *)
(* Each operator says whether the function of its name returns no error;   *)
(* what an error says is left out.  The text of a string is abstracted to  *)
(* what the rules ask of it: which patterns it matches, what it parses to, *)
(* and the type it has as an expression.                                   *)
(***************************************************************************)
EXTENDS Conversion

CONSTANTS
    Length,             \* string -> number of bytes
    HostnameRegex,      \* strings that rfc1123HostnameWithPortRegex matches
    Port,               \* string -> port after the host name, 0 for none
    NameRegex,          \* strings that nameRegex matches
    ScopeRegex,         \* strings that scopeRegex matches
    PrintableASCII,     \* strings that printableASCIIRegexp matches
    Certificates,       \* strings that cert.NewPoolFromBytes accepts
    SomeCertificates,   \* strings that AppendCertsFromPEM accepts
    ParseURL,           \* string -> parts of the URL, or Nil
    TrimSlash,          \* string -> the string without trailing slashes
    TypeOf,             \* variable -> expression -> type, or Nil
    UsesEmail, UsesEmailVerified,  \* expressions that select these claims
    ExtraKeys           \* lowercase, domain prefixed, not of Kubernetes

(* Facts about the libraries: a pool that is read strictly can be read     *)
(* leniently, and no pattern matches the empty string.                     *)
ASSUME StringsAssumption ==
    /\ Certificates \subseteq SomeCertificates
    /\ Empty \notin HostnameRegex \cup NameRegex \cup ScopeRegex \cup PrintableASCII
    /\ Nil # Empty

Distinct(s) == \A i, j \in DOMAIN s : i # j => s[i] # s[j]

IsSet(v) == v \notin {Nil, Empty}

Before(s, i) == {s[j] : j \in 1..(i - 1)}

-----------------------------------------------------------------------------
(* Compilation of CEL expressions.                                         *)

Compile(variable, e, returns) ==
    /\ TypeOf[variable][e] # Nil
    /\ returns \in {"any", TypeOf[variable][e]}

CompileClaimsExpression(e, returns) == Compile("claims", e, returns)

CompileExternalSourceExpression(e, returns) == Compile("response", e, returns)

(* The return types that the expression accessors ask for.                 *)
ExternalSourceMappingExpression == "any"

ExternalSourceURLExpression == "any"

ExternalSourceConditionExpression == "bool"

-----------------------------------------------------------------------------
(* External claims sources.                                                *)

(* Wrong: as many as the comment on externalSourceRequestTimeout counts.   *)
maxExternalClaimSources_Ten == 10

maxExternalClaimSources == 5
maxExternalSourceConditions == 16
maxSourcedClaimMappings == 16
maxSourceMappingNameLength == 256

ValidateExternalClaimsSourceURLHostname(hostname) ==
    /\ IsSet(hostname)
    /\ hostname \in HostnameRegex
    /\ Port[hostname] <= 65535

ValidateExternalClaimsSourceURLPathExpression(e) ==
    IsSet(e) /\ CompileClaimsExpression(e, ExternalSourceURLExpression)

validateExternalClaimsSourceURL(u) ==
    /\ u # Nil
    /\ ValidateExternalClaimsSourceURLHostname(u.Hostname)
    /\ ValidateExternalClaimsSourceURLPathExpression(u.PathExpression)

(* Wrong: a condition without an expression is accepted.                   *)
ValidateExternalSourceCondition_Optional(c, seen) ==
    c.Expression # Nil =>
        /\ c.Expression # Empty
        /\ c \notin seen
        /\ CompileClaimsExpression(c.Expression, ExternalSourceConditionExpression)

ValidateExternalSourceCondition(c, seen) ==
    /\ IsSet(c.Expression)
    /\ c \notin seen
    /\ CompileClaimsExpression(c.Expression, ExternalSourceConditionExpression)

validateExternalClaimsSourceConditions(cs) ==
    /\ Len(cs) <= maxExternalSourceConditions
    /\ \A i \in DOMAIN cs : ValidateExternalSourceCondition(cs[i], Before(cs, i))

ValidateExternalClaimsSourceMappingName(name, seen) ==
    /\ IsSet(name)
    /\ name \in NameRegex
    /\ Length[name] <= maxSourceMappingNameLength
    /\ name \notin seen

ValidateExternalClaimsSourceMappingExpression(e) ==
    /\ IsSet(e)
    /\ CompileExternalSourceExpression(e, ExternalSourceMappingExpression)

MappingNames(ms) == {ms[i].Name : i \in DOMAIN ms}

validateExternalClaimsSourceMapping(m, seen) ==
    /\ ValidateExternalClaimsSourceMappingName(m.Name, seen)
    /\ ValidateExternalClaimsSourceMappingExpression(m.Expression)

(* Wrong: names are remembered per source only.                            *)
validateExternalClaimsSourceMappings_Forgets(ms, seen) ==
    /\ Len(ms) \in 1..maxSourcedClaimMappings
    /\ \A i \in DOMAIN ms :
         validateExternalClaimsSourceMapping(ms[i], {m.Name : m \in Before(ms, i)})

(* seen: the names of the sources before this one.                         *)
validateExternalClaimsSourceMappings(ms, seen) ==
    /\ Len(ms) \in 1..maxSourcedClaimMappings
    /\ \A i \in DOMAIN ms :
         validateExternalClaimsSourceMapping(ms[i], seen \cup {m.Name : m \in Before(ms, i)})

IsZero(tls) == tls.CertificateAuthority = Nil

(* Wrong: a bundle without any certificate is accepted.                    *)
validateExternalClaimsSourceTLS_AnyBundle(tls) ==
    tls # Nil => ~IsZero(tls) /\ tls.CertificateAuthority # Empty

validateExternalClaimsSourceTLS(tls) ==
    tls # Nil =>
        /\ ~IsZero(tls)
        /\ tls.CertificateAuthority # Empty
        /\ tls.CertificateAuthority \in Certificates

ValidateClientCredentialConfigScope(s) == s # Empty /\ s \in ScopeRegex

ValidateClientCredentialConfigClientID(s) == s # Empty /\ s \in PrintableASCII

ValidateClientCredentialConfigClientSecret(s) == s # Empty /\ s \in PrintableASCII

ValidateTokenEndpoint(e) ==
    LET u == ParseURL[e]
    IN /\ e # Empty
       /\ u # Nil
       /\ u.Scheme = "https"
       /\ u.Host # Empty /\ u.Path # Empty
       /\ u.RawQuery = Empty /\ u.Fragment = Empty /\ u.User = Nil

validateClientCredentialConfig(cfg) ==
    /\ cfg # Nil
    /\ ValidateClientCredentialConfigClientID(cfg.ClientID)
    /\ ValidateClientCredentialConfigClientSecret(cfg.ClientSecret)
    /\ ValidateTokenEndpoint(cfg.TokenEndpoint)
    /\ validateExternalClaimsSourceTLS(cfg.TLS)
    /\ \A i \in DOMAIN cfg.Scopes : ValidateClientCredentialConfigScope(cfg.Scopes[i])

AllowedTypes == {"RequestProvidedToken", "ClientCredential"}

validateExternalClaimsSourceAuthentication(authn) ==
    authn # Nil =>
        /\ authn.Type \in AllowedTypes
        /\ IF authn.Type = "ClientCredential"
           THEN validateClientCredentialConfig(authn.ClientCredential)
           ELSE authn.ClientCredential = Nil

validateExternalClaimsSource(source, seen) ==
    /\ validateExternalClaimsSourceAuthentication(source.Authentication)
    /\ validateExternalClaimsSourceTLS(source.TLS)
    /\ validateExternalClaimsSourceMappings(source.Mappings, seen)
    /\ validateExternalClaimsSourceConditions(source.Conditions)
    /\ validateExternalClaimsSourceURL(source.URL)

validateExternalClaimsSources(sources) ==
    /\ Len(sources) <= maxExternalClaimSources
    /\ \A i \in DOMAIN sources :
         validateExternalClaimsSource(sources[i],
             UNION {MappingNames(s.Mappings) : s \in Before(sources, i)})

-----------------------------------------------------------------------------
(* The API server's validation of one authenticator, with its feature      *)
(* gates at their defaults.                                                *)

validateURL(url) ==
    LET u == ParseURL[url]
    IN u # Nil /\ u.Scheme = "https" /\ u.User = Nil /\ u.RawQuery = Empty /\ u.Fragment = Empty

validateAudiences(audiences, policy) ==
    /\ audiences # <<>>
    /\ \A i \in DOMAIN audiences : audiences[i] # Empty
    /\ Distinct(audiences)
    /\ policy \in {"MatchAny"} \cup (IF Len(audiences) = 1 THEN {Empty} ELSE {})

validateIssuer(issuer) ==
    /\ issuer.URL # Empty /\ validateURL(issuer.URL)
    /\ issuer.DiscoveryURL # Empty =>
         /\ TrimSlash[issuer.URL] # TrimSlash[issuer.DiscoveryURL]
         /\ validateURL(issuer.DiscoveryURL)
    /\ validateAudiences(issuer.Audiences, issuer.AudienceMatchPolicy)
    /\ issuer.CertificateAuthority \in Certificates \cup {Empty}

(* Either a claim with its required value, or an expression.               *)
validateClaimValidationRules(rules) ==
    /\ \A i \in DOMAIN rules : LET r == rules[i] IN
         \/ r.Claim # Empty /\ r.Expression = Empty /\ r.Message = Empty
         \/ /\ r.Claim = Empty /\ r.Expression # Empty /\ r.RequiredValue = Empty
            /\ CompileClaimsExpression(r.Expression, "bool")
    /\ \A i, j \in DOMAIN rules : i # j =>
         <<rules[i].Claim, rules[i].Expression>> # <<rules[j].Claim, rules[j].Expression>>

validatePrefixClaimOrExpression(m, required) ==
    \/ m.Claim = Empty /\ m.Expression = Empty /\ ~required
    \/ /\ m.Claim = Empty /\ m.Expression # Empty /\ m.Prefix = Nil
       /\ CompileClaimsExpression(m.Expression, "any")
    \/ m.Claim # Empty /\ m.Expression = Empty /\ m.Prefix # Nil

(* An email is a user name only if something looks at email_verified.      *)
validateEmailVerified(m, rules) ==
    m.Username.Expression \in UsesEmail =>
        UsesEmailVerified \cap
            ({m.Username.Expression} \cup {m.Extra[i].ValueExpression : i \in DOMAIN m.Extra}
             \cup {rules[i].Expression : i \in DOMAIN rules}) # {}

validateClaimMappings(m, rules) ==
    /\ validatePrefixClaimOrExpression(m.Username, TRUE)
    /\ validatePrefixClaimOrExpression(m.Groups, FALSE)
    /\ m.UID.Claim = Empty \/ m.UID.Expression = Empty
    /\ m.UID.Expression # Empty => CompileClaimsExpression(m.UID.Expression, "any")
    /\ \A i \in DOMAIN m.Extra :
         /\ m.Extra[i].Key \in ExtraKeys
         /\ m.Extra[i].Key \notin {e.Key : e \in Before(m.Extra, i)}
         /\ m.Extra[i].ValueExpression # Empty
         /\ CompileClaimsExpression(m.Extra[i].ValueExpression, "any")
    /\ validateEmailVerified(m, rules)

validateUserValidationRules(rules) ==
    \A i \in DOMAIN rules :
        /\ rules[i].Expression # Empty
        /\ rules[i].Expression \notin {r.Expression : r \in Before(rules, i)}
        /\ Compile("user", rules[i].Expression, "bool")

validateJWTAuthenticator(jwt) ==
    /\ validateIssuer(jwt.Issuer)
    /\ validateClaimValidationRules(jwt.ClaimValidationRules)
    /\ validateClaimMappings(jwt.ClaimMappings, jwt.ClaimValidationRules)
    /\ validateUserValidationRules(jwt.UserValidationRules)

(* Wrong: issuers may repeat.                                              *)
validateApiserverConfiguration_Repeats(c) ==
    /\ Len(c.JWT) <= 64
    /\ \A i \in DOMAIN c.JWT : validateJWTAuthenticator(c.JWT[i])

validateApiserverConfiguration(c) ==
    /\ Len(c.JWT) <= 64
    /\ \A i \in DOMAIN c.JWT : validateJWTAuthenticator(c.JWT[i])
    /\ \A i, j \in DOMAIN c.JWT : i # j =>
         /\ c.JWT[i].Issuer.URL # c.JWT[j].Issuer.URL
         /\ \/ c.JWT[i].Issuer.DiscoveryURL = Empty
            \/ c.JWT[i].Issuer.DiscoveryURL # c.JWT[j].Issuer.DiscoveryURL

-----------------------------------------------------------------------------
ValidateAuthenticationConfiguration(c) ==
    /\ c.JWT # <<>>
    /\ validateApiserverConfiguration(ConvertAuthenticationConfiguration(c))
    /\ \A i \in DOMAIN c.JWT : validateExternalClaimsSources(c.JWT[i].ExternalClaimsSources)
=============================================================================
