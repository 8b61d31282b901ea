------------------------- MODULE LoadConfiguration --------------------------
(***************************************************************************)
(* From the content of the configuration file to the authenticators that   *)
(* serve it: AuthenticationConfigurationFromConfigurationFile, Validate    *)
(* and TokenAuthenticatorForAuthenticationConfiguration.                   *)
(*                                                                         *)
(* Validation and assembly read the same fields, each with rules of its    *)
(* own.  Assembly skips or rejects what it cannot use and trusts that      *)
(* validation has refused it before; this module puts the two together.    *)
(***************************************************************************)
EXTENDS Validation, FiniteSets

CONSTANT Files    \* decoded v1alpha1 configurations

IsSlice(s) == s \in Seq({s[i] : i \in DOMAIN s})

IsStruct(v, fields) == v = [f \in {fields[i][1] : i \in DOMAIN fields} |-> v[f]]

ASSUME NilAssumption == Nil \notin {"invalid", "token endpoint", "assembly", "panic"}

(* What Go's types say of a decoded configuration.                         *)
Pointer(v, fields) == v # Nil => IsStruct(v, fields)

Structs(s, fields) == IsSlice(s) /\ \A i \in DOMAIN s : IsStruct(s[i], fields)

AuthenticationTyped(v) ==
    /\ IsStruct(v, V!Authentication)
    /\ Pointer(v.ClientCredential, V!ClientCredentialConfig)
    /\ v.ClientCredential # Nil => Pointer(v.ClientCredential.TLS, V!TLS)

SourceTyped(v) ==
    /\ IsStruct(v, V!ExternalClaimsSource)
    /\ v.Authentication # Nil => AuthenticationTyped(v.Authentication)
    /\ Pointer(v.TLS, V!TLS) /\ Pointer(v.URL, V!SourceURL)
    /\ Structs(v.Mappings, V!SourcedClaimMapping)
    /\ Structs(v.Conditions, V!ExternalSourceCondition)

ClaimMappingsTyped(v) ==
    /\ IsStruct(v, V!ClaimMappings)
    /\ IsStruct(v.Username, V!PrefixedClaimOrExpression)
    /\ IsStruct(v.Groups, V!PrefixedClaimOrExpression)
    /\ IsStruct(v.UID, V!ClaimOrExpression)
    /\ Structs(v.Extra, V!ExtraMapping)

JWTTyped(v) ==
    /\ IsStruct(v, V!JWTAuthenticator)
    /\ Pointer(v.Issuer, V!Issuer)
    /\ Structs(v.ClaimValidationRules, V!ClaimValidationRule)
    /\ v.ClaimMappings # Nil => ClaimMappingsTyped(v.ClaimMappings)
    /\ Structs(v.UserValidationRules, V!UserValidationRule)
    /\ IsSlice(v.ExternalClaimsSources)
    /\ \A k \in DOMAIN v.ExternalClaimsSources : SourceTyped(v.ExternalClaimsSources[k])

ASSUME FilesAssumption ==
    \A f \in Files : IsSlice(f.JWT) /\ \A i \in DOMAIN f.JWT : JWTTyped(f.JWT[i])

-----------------------------------------------------------------------------
(* A constructor is the set of what it can return: empty if it returns an  *)
(* error, otherwise a singleton.                                           *)

(* The HTTP clients, by the certificates they trust.                       *)
RootCAs(ca) == IF ca \in {Nil, Empty} THEN {"host"} ELSE {ca} \cap SomeCertificates

httpClientForTLSConfig(tls) ==
    IF tls = Nil THEN {"host"} ELSE RootCAs(tls.CertificateAuthority)

modifyTransportRootCAs(ca) == RootCAs(ca)

httpClientForClientCredential(tls) ==
    IF tls = Nil THEN {"host"} ELSE modifyTransportRootCAs(tls.CertificateAuthority)

NewClientCredential(config) ==
    [type : {"ClientCredential"}, config : {config},
     rootCAs : httpClientForClientCredential(config.TLS)]

buildExternalClaimsTokenGetter(authn) ==
    IF authn = Nil THEN {[type |-> "Anonymous"]}
    ELSE IF authn.Type = "RequestProvidedToken" THEN {[type |-> "RequestProvided"]}
    ELSE IF authn.Type = "ClientCredential" /\ authn.ClientCredential # Nil
    THEN NewClientCredential(authn.ClientCredential)
    ELSE {}

(* The expressions that a resolver evaluates.  They keep their indices, so *)
(* that one that was skipped leaves a gap.                                 *)
buildURLMapperFromSourceURL(u) ==
    IF /\ u # Nil /\ u.Hostname # Nil /\ u.PathExpression # Nil
       /\ CompileClaimsExpression(u.PathExpression, ExternalSourceURLExpression)
    THEN {u} ELSE {}

buildExternalClaimsMapperFromSourcedClaimMappings(ms) ==
    LET kept == {i \in DOMAIN ms : ms[i].Name # Nil /\ ms[i].Expression # Nil}
    IN IF \A i \in kept : CompileExternalSourceExpression(ms[i].Expression,
                              ExternalSourceMappingExpression)
       THEN {[i \in kept |-> ms[i]]} ELSE {}

buildExternalSourceConditionMapperFromConditions(cs) ==
    LET kept == {i \in DOMAIN cs : cs[i].Expression # Nil}
    IN IF \A i \in kept : CompileClaimsExpression(cs[i].Expression,
                              ExternalSourceConditionExpression)
       THEN {[i \in kept |-> cs[i]]} ELSE {}

buildExternalSourceCELMapper(s) ==
    [url : buildURLMapperFromSourceURL(s.URL),
     sources : buildExternalClaimsMapperFromSourcedClaimMappings(s.Mappings),
     conditions : buildExternalSourceConditionMapperFromConditions(s.Conditions)]

(* resolver.New                                                            *)
NewResolver(tokenGetters, s) ==
    [tokenGetter : tokenGetters,
     rootCAs : httpClientForTLSConfig(s.TLS),
     mapper : buildExternalSourceCELMapper(s)]

-----------------------------------------------------------------------------
VARIABLES
    file,       \* what the file holds
    cfg,        \* the internal configuration read from it
    pc,         \* "load", "validate", "jwt", "sources", "built", "failed"
    failure,    \* why it failed
    jwts,       \* the authenticators built
    expanders   \* the resolvers built for the next one

vars == <<file, cfg, pc, failure, jwts, expanders>>

Init ==
    /\ file \in Files
    /\ cfg = Nil
    /\ pc = "load" /\ failure = Nil
    /\ jwts = <<>> /\ expanders = <<>>

(* Wrong: the error is dropped.                                            *)
Fail_Silent(reason) == pc' = "failed" /\ UNCHANGED failure

Fail(reason) == pc' = "failed" /\ failure' = reason

(* The index, in the file, of the authenticator and of the source to build *)
(* next.                                                                   *)
jwt == Len(jwts) + 1
source == Len(expanders) + 1

Load ==
    /\ pc = "load"
    /\ cfg' = ConvertFromV1alpha1(file)
    /\ pc' = "validate"
    /\ UNCHANGED <<file, failure, jwts, expanders>>

Reject ==
    /\ pc = "validate"
    /\ ~ValidateAuthenticationConfiguration(cfg)
    /\ Fail("invalid")
    /\ UNCHANGED <<file, cfg, jwts, expanders>>

Accept ==
    /\ pc = "validate"
    /\ ValidateAuthenticationConfiguration(cfg)
    /\ pc' = "jwt"
    /\ UNCHANGED <<file, cfg, failure, jwts, expanders>>

(* Dereferencing a nil issuer panics.                                      *)
IssuerCA ==
    /\ pc = "jwt" /\ jwt \in DOMAIN cfg.JWT
    /\ LET issuer == cfg.JWT[jwt].Issuer
       IN IF issuer = Nil THEN Fail("panic")
          ELSE IF issuer.CertificateAuthority \notin Certificates \cup {Empty}
          THEN Fail("assembly")
          ELSE pc' = "sources" /\ UNCHANGED failure
    /\ UNCHANGED <<file, cfg, jwts, expanders>>

NextSource == cfg.JWT[jwt].ExternalClaimsSources[source]

(* One iteration of buildExternalClaimsExpanders.                          *)
Expanders(s) == NewResolver(buildExternalClaimsTokenGetter(s.Authentication), s)

BuildExpander ==
    /\ pc = "sources" /\ source \in DOMAIN cfg.JWT[jwt].ExternalClaimsSources
    /\ IF Expanders(NextSource) = {}
       THEN Fail("assembly") /\ UNCHANGED expanders
       ELSE /\ \E e \in Expanders(NextSource) : expanders' = Append(expanders, e)
            /\ UNCHANGED <<pc, failure>>
    /\ UNCHANGED <<file, cfg, jwts>>

(* The request for the first token is not answered.                        *)
FirstFetchFails ==
    /\ pc = "sources" /\ source \in DOMAIN cfg.JWT[jwt].ExternalClaimsSources
    /\ \E g \in buildExternalClaimsTokenGetter(NextSource.Authentication) :
         g.type = "ClientCredential"
    /\ Fail("token endpoint")
    /\ UNCHANGED <<file, cfg, jwts, expanders>>

(* k8soidc.New validates what it is given once more.                       *)
NewAuthenticator ==
    /\ pc = "sources" /\ source \notin DOMAIN cfg.JWT[jwt].ExternalClaimsSources
    /\ LET converted == ConvertJWTAuthenticator(cfg.JWT[jwt])
       IN IF validateJWTAuthenticator(converted)
          THEN /\ jwts' = Append(jwts, [authenticator |-> converted, expanders |-> expanders])
               /\ expanders' = <<>>
               /\ pc' = "jwt" /\ UNCHANGED failure
          ELSE Fail("assembly") /\ UNCHANGED <<jwts, expanders>>
    /\ UNCHANGED <<file, cfg>>

Built ==
    /\ pc = "jwt" /\ jwt \notin DOMAIN cfg.JWT
    /\ pc' = "built"
    /\ UNCHANGED <<file, cfg, failure, jwts, expanders>>

Next ==
    \/ Load \/ Reject \/ Accept \/ IssuerCA
    \/ BuildExpander \/ FirstFetchFails \/ NewAuthenticator \/ Built

Spec == Init /\ [][Next]_vars

-----------------------------------------------------------------------------
(* Types; loading stops where there is an error to return and nowhere      *)
(* else, and what is validated is the conversion of the whole file.        *)
TypeOK ==
    /\ pc \in {"load", "validate", "jwt", "sources", "built", "failed"}
    /\ failure \in {Nil, "invalid", "token endpoint", "assembly", "panic"}
    /\ failure # Nil <=> pc = "failed"
    /\ pc # "load" => cfg = ConvertFromV1alpha1(file)
    /\ IsSlice(jwts) /\ IsSlice(expanders)

(* A configuration that passes validation can be assembled: only a token   *)
(* endpoint that does not answer keeps it from being served.  Assembly     *)
(* never rejects it, nor dereferences an issuer that is not there.         *)
AcceptedBuilds == failure \in {Nil, "invalid", "token endpoint"}

(* Each authenticator enforces the issuer, rules and mappings that the     *)
(* file gives it, after a conversion that reinterprets memory and another  *)
(* that copies fields one by one.                                          *)
NoRuleLost ==
    \A i \in DOMAIN jwts :
        jwts[i].authenticator =
            [f \in {"Issuer", "ClaimMappings", "ClaimValidationRules", "UserValidationRules"} |->
                file.JWT[i][f]]

(* Each resolver asks the URL of the file under all conditions of the      *)
(* file, maps all claims of the file, trusts the certificates of the file  *)
(* and takes its token where the file says: the entries that assembly      *)
(* skips silently do not occur.                                            *)
SourceComplete(e, s) ==
    /\ e.mapper = [url |-> s.URL, sources |-> s.Mappings, conditions |-> s.Conditions]
    /\ e.rootCAs = IF s.TLS = Nil THEN "host" ELSE s.TLS.CertificateAuthority
    /\ IF s.Authentication # Nil /\ s.Authentication.ClientCredential # Nil
       THEN e.tokenGetter.config = s.Authentication.ClientCredential
       ELSE e.tokenGetter.type \in {"Anonymous", "RequestProvided"}

SourcesComplete ==
    \A i \in DOMAIN jwts :
        LET sources == file.JWT[i].ExternalClaimsSources
        IN /\ DOMAIN jwts[i].expanders = DOMAIN sources
           /\ \A k \in DOMAIN sources : SourceComplete(jwts[i].expanders[k], sources[k])

(* No two mappings of an authenticator, of one source or of two, write the *)
(* same claim: what a claim holds does not depend on which sources answer. *)
ClaimNamesDisjoint ==
    \A i \in DOMAIN jwts :
        LET es == jwts[i].expanders
        IN \A k, l \in DOMAIN es :
             \A m \in DOMAIN es[k].mapper.sources, n \in DOMAIN es[l].mapper.sources :
               es[k].mapper.sources[m].Name = es[l].mapper.sources[n].Name => k = l /\ m = n

(* A token is for at most one authenticator, that of its issuer.           *)
IssuersDistinct ==
    \A i, j \in DOMAIN jwts :
        jwts[i].authenticator.Issuer.URL = jwts[j].authenticator.Issuer.URL => i = j

(* Time, in steps of 500 ms: the request to a source, the request for a    *)
(* token before it, and the API server's patience with its webhook.        *)
externalSourceRequestTimeout == 1
tokenEndpointRequestTimeout == 2
WebhookTimeout == 20

(* If no source and no token endpoint answers in time, a review that is    *)
(* alone still gets its answer before the API server gives up on it.       *)
WithinBudget ==
    \A i \in DOMAIN jwts :
        LET es == jwts[i].expanders
            fetching == {k \in DOMAIN es : es[k].tokenGetter.type = "ClientCredential"}
        IN Len(es) * externalSourceRequestTimeout
             + Cardinality(fetching) * tokenEndpointRequestTimeout < WebhookTimeout
=============================================================================
