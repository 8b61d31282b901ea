---------------------- MODULE LoadConfigurationProofs -----------------------
(***************************************************************************)
(* Theorems about LoadConfiguration, for every set of configurations and   *)
(* every meaning of the strings in them.                                   *)
(*                                                                         *)
(* The invariant says that what has been built was built from the part of  *)
(* the configuration at the same index, and that the configuration passed  *)
(* validation.  The lemmas say what validation promises to assembly.       *)
(***************************************************************************)
EXTENDS LoadConfiguration, TLAPS, SequenceTheorems, FiniteSetTheorems

-----------------------------------------------------------------------------
(* Slices.                                                                 *)

(* A slice is indexed from 1 to its length.                                *)
LEMMA SliceDomain ==
    ASSUME NEW s, IsSlice(s)
    PROVE  Len(s) \in Nat /\ DOMAIN s = 1..Len(s)
BY DEF IsSlice

(* append adds one element at the end and keeps the others.                *)
LEMMA AppendSlice ==
    ASSUME NEW s, NEW e, IsSlice(s)
    PROVE  /\ IsSlice(Append(s, e))
           /\ Len(Append(s, e)) = Len(s) + 1
           /\ DOMAIN Append(s, e) = DOMAIN s \cup {Len(s) + 1}
           /\ \A i \in DOMAIN s : Append(s, e)[i] = s[i]
           /\ Append(s, e)[Len(s) + 1] = e
<1> DEFINE S == {s[i] : i \in DOMAIN s} \cup {e}
           t == Append(s, e)
<1>1. Len(s) \in Nat /\ DOMAIN s = 1..Len(s)
  BY SliceDomain
<1>2. s \in Seq(S)
  <2>1. \A i \in 1..Len(s) : s[i] \in S
    BY <1>1
  <2>2. s = [i \in 1..Len(s) |-> s[i]]
    BY DEF IsSlice
  <2> QED BY <1>1, <2>1, <2>2
<1>3. /\ t \in Seq(S) /\ Len(t) = Len(s) + 1
      /\ \A i \in 1..Len(s) : t[i] = s[i]
      /\ t[Len(s) + 1] = e
  BY <1>2, AppendProperties
<1>4. DOMAIN t = 1..(Len(s) + 1)
  BY <1>3
<1>5. t \in Seq({t[i] : i \in DOMAIN t})
  <2> HIDE DEF t, S
  <2>1. \A i \in 1..Len(t) : t[i] \in {t[j] : j \in DOMAIN t}
    BY <1>3
  <2>2. t = [i \in 1..Len(t) |-> t[i]]
    BY <1>3
  <2>3. Len(t) \in Nat
    BY <1>3
  <2> QED BY <2>1, <2>2, <2>3
<1> QED BY <1>1, <1>3, <1>4, <1>5 DEF IsSlice

(* The empty slice.                                                        *)
LEMMA EmptySlice == IsSlice(<<>>) /\ Len(<<>>) = 0 /\ DOMAIN <<>> = {}
BY DEF IsSlice

-----------------------------------------------------------------------------
(* The conversion from v1alpha1.                                           *)

(* Reading a struct as one with the same fields changes nothing.           *)
LEMMA AsIdentity ==
    ASSUME NEW fields, NEW v, IsStruct(v, fields)
    PROVE  As(fields, fields, v) = v
<1> DEFINE names == {fields[i][1] : i \in DOMAIN fields}
           at(f) == CHOOSE k \in DOMAIN fields : fields[k][1] = f
<1>1. \A f \in names : fields[at(f)][1] = f
  OBVIOUS
<1>2. As(fields, fields, v) = [f \in names |-> v[fields[at(f)][1]]]
  BY DEF As
<1>3. [f \in names |-> v[fields[at(f)][1]]] = [f \in names |-> v[f]]
  BY <1>1
<1> QED BY <1>2, <1>3 DEF IsStruct

(* The two versions declare the same fields in the same order.             *)
LEMMA SameLayout ==
    /\ V!TLS = T!TLS /\ V!SourceURL = T!SourceURL
    /\ V!ClientCredentialConfig = T!ClientCredentialConfig
    /\ V!Authentication = T!Authentication
    /\ V!SourcedClaimMapping = T!SourcedClaimMapping
    /\ V!ExternalSourceCondition = T!ExternalSourceCondition
    /\ V!ExternalClaimsSource = T!ExternalClaimsSource
    /\ V!Issuer = T!Issuer
    /\ V!ClaimValidationRule = T!ClaimValidationRule
    /\ V!UserValidationRule = T!UserValidationRule
    /\ V!PrefixedClaimOrExpression = T!PrefixedClaimOrExpression
    /\ V!ClaimOrExpression = T!ClaimOrExpression
    /\ V!ExtraMapping = T!ExtraMapping
    /\ V!ClaimMappings = T!ClaimMappings
    /\ V!JWTAuthenticator = T!JWTAuthenticator
BY DEF V!TLS, T!TLS, V!SourceURL, T!SourceURL, V!ClientCredentialConfig,
       T!ClientCredentialConfig, V!Authentication, T!Authentication,
       V!SourcedClaimMapping, T!SourcedClaimMapping, V!ExternalSourceCondition,
       T!ExternalSourceCondition, V!ExternalClaimsSource, T!ExternalClaimsSource,
       V!Issuer, T!Issuer, V!ClaimValidationRule, T!ClaimValidationRule,
       V!UserValidationRule, T!UserValidationRule, V!PrefixedClaimOrExpression,
       T!PrefixedClaimOrExpression, V!ClaimOrExpression, T!ClaimOrExpression,
       V!ExtraMapping, T!ExtraMapping, V!ClaimMappings, T!ClaimMappings,
       V!JWTAuthenticator, T!JWTAuthenticator

(* So every authentication of a source is read as it was written,          *)
LEMMA AuthenticationUnchanged ==
    ASSUME NEW v, AuthenticationTyped(v)
    PROVE  AuthenticationAs(v) = v
<1>1. As(V!Authentication, T!Authentication, v) = v
  BY AsIdentity, SameLayout DEF AuthenticationTyped
<1>2. v.ClientCredential # Nil => ClientCredentialConfigAs(v.ClientCredential) = v.ClientCredential
  <2> SUFFICES ASSUME v.ClientCredential # Nil
               PROVE  ClientCredentialConfigAs(v.ClientCredential) = v.ClientCredential
    OBVIOUS
  <2> DEFINE c == v.ClientCredential
  <2>1. As(V!ClientCredentialConfig, T!ClientCredentialConfig, c) = c
    BY AsIdentity, SameLayout DEF AuthenticationTyped, Pointer
  <2>2. c.TLS # Nil => TLSAs(c.TLS) = c.TLS
    BY AsIdentity, SameLayout DEF AuthenticationTyped, Pointer, TLSAs
  <2>3. c = [ClientID |-> c.ClientID, ClientSecret |-> c.ClientSecret,
             TokenEndpoint |-> c.TokenEndpoint, Scopes |-> c.Scopes, TLS |-> c.TLS]
    <3>1. IsStruct(c, V!ClientCredentialConfig)
      BY DEF AuthenticationTyped, Pointer
    <3> HIDE DEF c
    <3> QED BY <3>1 DEF IsStruct, V!ClientCredentialConfig
  <2> HIDE DEF c
  <2>4. ClientCredentialConfigAs(c) = c
    BY <2>1, <2>2, <2>3 DEF ClientCredentialConfigAs, Deref
  <2> QED BY <2>4 DEF c
<1>3. v = [Type |-> v.Type, ClientCredential |-> v.ClientCredential]
  BY DEF AuthenticationTyped, IsStruct, V!Authentication
<1> QED BY <1>1, <1>2, <1>3 DEF AuthenticationAs, Deref

(* every slice of structs,                                                 *)
LEMMA SliceUnchanged ==
    ASSUME NEW s, IsSlice(s)
    PROVE  [i \in DOMAIN s |-> s[i]] = s
BY DEF IsSlice

(* every source,                                                           *)
LEMMA SourceUnchanged ==
    ASSUME NEW v, SourceTyped(v)
    PROVE  ExternalClaimsSourceAs(v) = v
<1>1. As(V!ExternalClaimsSource, T!ExternalClaimsSource, v) = v
  BY AsIdentity, SameLayout DEF SourceTyped
<1>2. Deref(AuthenticationAs, v.Authentication) = v.Authentication
  BY AuthenticationUnchanged DEF SourceTyped, Deref
<1>3. Deref(TLSAs, v.TLS) = v.TLS
  BY AsIdentity, SameLayout DEF SourceTyped, Pointer, Deref, TLSAs
<1>4. Deref(SourceURLAs, v.URL) = v.URL
  BY AsIdentity, SameLayout DEF SourceTyped, Pointer, Deref, SourceURLAs
<1>5. Map(SourcedClaimMappingAs, v.Mappings) = v.Mappings
  <2>1. \A i \in DOMAIN v.Mappings : SourcedClaimMappingAs(v.Mappings[i]) = v.Mappings[i]
    BY AsIdentity, SameLayout DEF SourceTyped, Structs, SourcedClaimMappingAs
  <2>2. Map(SourcedClaimMappingAs, v.Mappings) = [i \in DOMAIN v.Mappings |-> v.Mappings[i]]
    BY <2>1 DEF Map
  <2> QED BY <2>2, SliceUnchanged DEF SourceTyped, Structs
<1>6. Map(ExternalSourceConditionAs, v.Conditions) = v.Conditions
  <2>1. \A i \in DOMAIN v.Conditions : ExternalSourceConditionAs(v.Conditions[i]) = v.Conditions[i]
    BY AsIdentity, SameLayout DEF SourceTyped, Structs, ExternalSourceConditionAs
  <2>2. Map(ExternalSourceConditionAs, v.Conditions) = [i \in DOMAIN v.Conditions |-> v.Conditions[i]]
    BY <2>1 DEF Map
  <2> QED BY <2>2, SliceUnchanged DEF SourceTyped, Structs
<1>7. v = [Authentication |-> v.Authentication, TLS |-> v.TLS, URL |-> v.URL,
           Mappings |-> v.Mappings, Conditions |-> v.Conditions]
  BY DEF SourceTyped, IsStruct, V!ExternalClaimsSource
<1> QED BY <1>1, <1>2, <1>3, <1>4, <1>5, <1>6, <1>7 DEF ExternalClaimsSourceAs

(* all claim mappings,                                                     *)
LEMMA ClaimMappingsUnchanged ==
    ASSUME NEW v, ClaimMappingsTyped(v)
    PROVE  ClaimMappingsAs(v) = v
<1>1. As(V!ClaimMappings, T!ClaimMappings, v) = v
  BY AsIdentity, SameLayout DEF ClaimMappingsTyped
<1>2. /\ PrefixedClaimOrExpressionAs(v.Username) = v.Username
      /\ PrefixedClaimOrExpressionAs(v.Groups) = v.Groups
      /\ ClaimOrExpressionAs(v.UID) = v.UID
  BY AsIdentity, SameLayout DEF ClaimMappingsTyped, PrefixedClaimOrExpressionAs, ClaimOrExpressionAs
<1>3. Map(ExtraMappingAs, v.Extra) = v.Extra
  <2>1. \A i \in DOMAIN v.Extra : ExtraMappingAs(v.Extra[i]) = v.Extra[i]
    BY AsIdentity, SameLayout DEF ClaimMappingsTyped, Structs, ExtraMappingAs
  <2>2. Map(ExtraMappingAs, v.Extra) = [i \in DOMAIN v.Extra |-> v.Extra[i]]
    BY <2>1 DEF Map
  <2> QED BY <2>2, SliceUnchanged DEF ClaimMappingsTyped, Structs
<1>4. v = [Username |-> v.Username, Groups |-> v.Groups, UID |-> v.UID, Extra |-> v.Extra]
  BY DEF ClaimMappingsTyped, IsStruct, V!ClaimMappings
<1> QED BY <1>1, <1>2, <1>3, <1>4 DEF ClaimMappingsAs

(* every authenticator                                                     *)
LEMMA JWTUnchanged ==
    ASSUME NEW v, JWTTyped(v)
    PROVE  JWTAuthenticatorAs(v) = v
<1>1. As(V!JWTAuthenticator, T!JWTAuthenticator, v) = v
  BY AsIdentity, SameLayout DEF JWTTyped
<1>2. Deref(IssuerAs, v.Issuer) = v.Issuer
  BY AsIdentity, SameLayout DEF JWTTyped, Pointer, Deref, IssuerAs
<1>3. Deref(ClaimMappingsAs, v.ClaimMappings) = v.ClaimMappings
  BY ClaimMappingsUnchanged DEF JWTTyped, Deref
<1>4. Map(ClaimValidationRuleAs, v.ClaimValidationRules) = v.ClaimValidationRules
  <2> DEFINE s == v.ClaimValidationRules
  <2>1. \A i \in DOMAIN s : ClaimValidationRuleAs(s[i]) = s[i]
    BY AsIdentity, SameLayout DEF JWTTyped, Structs, ClaimValidationRuleAs
  <2>2. Map(ClaimValidationRuleAs, s) = [i \in DOMAIN s |-> s[i]]
    BY <2>1 DEF Map
  <2> QED BY <2>2, SliceUnchanged DEF JWTTyped, Structs
<1>5. Map(UserValidationRuleAs, v.UserValidationRules) = v.UserValidationRules
  <2> DEFINE s == v.UserValidationRules
  <2>1. \A i \in DOMAIN s : UserValidationRuleAs(s[i]) = s[i]
    BY AsIdentity, SameLayout DEF JWTTyped, Structs, UserValidationRuleAs
  <2>2. Map(UserValidationRuleAs, s) = [i \in DOMAIN s |-> s[i]]
    BY <2>1 DEF Map
  <2> QED BY <2>2, SliceUnchanged DEF JWTTyped, Structs
<1>6. Map(ExternalClaimsSourceAs, v.ExternalClaimsSources) = v.ExternalClaimsSources
  <2> DEFINE s == v.ExternalClaimsSources
  <2>1. \A i \in DOMAIN s : ExternalClaimsSourceAs(s[i]) = s[i]
    BY SourceUnchanged DEF JWTTyped
  <2>2. Map(ExternalClaimsSourceAs, s) = [i \in DOMAIN s |-> s[i]]
    BY <2>1 DEF Map
  <2> QED BY <2>2, SliceUnchanged DEF JWTTyped
<1>7. v = [Issuer |-> v.Issuer, ClaimValidationRules |-> v.ClaimValidationRules,
           ClaimMappings |-> v.ClaimMappings, UserValidationRules |-> v.UserValidationRules,
           ExternalClaimsSources |-> v.ExternalClaimsSources]
  BY DEF JWTTyped, IsStruct, V!JWTAuthenticator
<1> QED BY <1>1, <1>2, <1>3, <1>4, <1>5, <1>6, <1>7 DEF JWTAuthenticatorAs

(* and the whole list of them.                                             *)
LEMMA ConversionUnchanged ==
    ASSUME NEW f \in Files
    PROVE  ConvertFromV1alpha1(f) = [JWT |-> f.JWT]
<1>1. \A i \in DOMAIN f.JWT : JWTAuthenticatorAs(f.JWT[i]) = f.JWT[i]
  BY FilesAssumption, JWTUnchanged
<1>2. Map(JWTAuthenticatorAs, f.JWT) = [i \in DOMAIN f.JWT |-> f.JWT[i]]
  BY <1>1 DEF Map
<1>3. Map(JWTAuthenticatorAs, f.JWT) = f.JWT
  BY <1>2, FilesAssumption, SliceUnchanged
<1> QED BY <1>3 DEF ConvertFromV1alpha1

-----------------------------------------------------------------------------
(* What validation promises to assembly.                                   *)

(* A certificate authority that validation accepts gives a client.         *)
LEMMA ValidTLSHasClient ==
    ASSUME NEW tls, validateExternalClaimsSourceTLS(tls)
    PROVE  httpClientForTLSConfig(tls) # {} /\ httpClientForClientCredential(tls) # {}
BY StringsAssumption DEF validateExternalClaimsSourceTLS, IsZero, httpClientForTLSConfig,
       httpClientForClientCredential, modifyTransportRootCAs, RootCAs

(* Every authentication that validation accepts has a token getter.        *)
LEMMA ValidAuthenticationHasTokenGetter ==
    ASSUME NEW authn, validateExternalClaimsSourceAuthentication(authn)
    PROVE  buildExternalClaimsTokenGetter(authn) # {}
<1>1. CASE authn = Nil
  BY <1>1 DEF buildExternalClaimsTokenGetter
<1>2. CASE authn # Nil /\ authn.Type = "RequestProvidedToken"
  BY <1>2 DEF buildExternalClaimsTokenGetter
<1>3. CASE authn # Nil /\ authn.Type = "ClientCredential"
  <2>1. authn.ClientCredential # Nil /\
        validateExternalClaimsSourceTLS(authn.ClientCredential.TLS)
    BY <1>3 DEF validateExternalClaimsSourceAuthentication, validateClientCredentialConfig
  <2>2. PICK r : r \in httpClientForClientCredential(authn.ClientCredential.TLS)
    BY <2>1, ValidTLSHasClient
  <2>3. [type |-> "ClientCredential", config |-> authn.ClientCredential, rootCAs |-> r]
          \in NewClientCredential(authn.ClientCredential)
    BY <2>2 DEF NewClientCredential
  <2> QED BY <1>3, <2>1, <2>3 DEF buildExternalClaimsTokenGetter
<1> QED
  BY <1>1, <1>2, <1>3 DEF validateExternalClaimsSourceAuthentication, AllowedTypes

(* Every source that validation accepts has a resolver.                    *)
LEMMA ValidSourceHasExpander ==
    ASSUME NEW s, NEW seen, validateExternalClaimsSource(s, seen)
    PROVE  Expanders(s) # {}
<1>1. PICK g : g \in buildExternalClaimsTokenGetter(s.Authentication)
  BY ValidAuthenticationHasTokenGetter DEF validateExternalClaimsSource
<1>2. PICK r : r \in httpClientForTLSConfig(s.TLS)
  BY ValidTLSHasClient DEF validateExternalClaimsSource
<1>3. buildURLMapperFromSourceURL(s.URL) # {}
  BY DEF validateExternalClaimsSource, validateExternalClaimsSourceURL,
         ValidateExternalClaimsSourceURLHostname, IsSet, buildURLMapperFromSourceURL,
         ValidateExternalClaimsSourceURLPathExpression
<1>4. buildExternalClaimsMapperFromSourcedClaimMappings(s.Mappings) # {}
  <2>1. \A i \in DOMAIN s.Mappings :
          CompileExternalSourceExpression(s.Mappings[i].Expression, ExternalSourceMappingExpression)
    BY DEF validateExternalClaimsSource, validateExternalClaimsSourceMappings,
           validateExternalClaimsSourceMapping, ValidateExternalClaimsSourceMappingExpression
  <2> QED BY <2>1 DEF buildExternalClaimsMapperFromSourcedClaimMappings
<1>5. buildExternalSourceConditionMapperFromConditions(s.Conditions) # {}
  <2>1. \A i \in DOMAIN s.Conditions :
          CompileClaimsExpression(s.Conditions[i].Expression, ExternalSourceConditionExpression)
    BY DEF validateExternalClaimsSource, validateExternalClaimsSourceConditions,
           ValidateExternalSourceCondition
  <2> QED BY <2>1 DEF buildExternalSourceConditionMapperFromConditions
<1>6. buildExternalSourceCELMapper(s) # {}
  <2>1. PICK u, x, c :
          /\ u \in buildURLMapperFromSourceURL(s.URL)
          /\ x \in buildExternalClaimsMapperFromSourcedClaimMappings(s.Mappings)
          /\ c \in buildExternalSourceConditionMapperFromConditions(s.Conditions)
    BY <1>3, <1>4, <1>5
  <2>2. [url |-> u, sources |-> x, conditions |-> c] \in buildExternalSourceCELMapper(s)
    BY <2>1 DEF buildExternalSourceCELMapper
  <2> QED BY <2>2
<1>7. PICK m : m \in buildExternalSourceCELMapper(s)
  BY <1>6
<1>8. [tokenGetter |-> g, rootCAs |-> r, mapper |-> m] \in Expanders(s)
  BY <1>1, <1>2, <1>7 DEF NewResolver, Expanders
<1> QED BY <1>8

(* An authenticator that validation accepts has an issuer and claim        *)
(* mappings.                                                               *)
LEMMA ValidJWTHasIssuer ==
    ASSUME NEW j, validateJWTAuthenticator(ConvertJWTAuthenticator(j))
    PROVE  /\ j.Issuer # Nil /\ j.ClaimMappings # Nil
           /\ j.Issuer.CertificateAuthority \in Certificates \cup {Empty}
<1> DEFINE c == ConvertJWTAuthenticator(j)
<1>1. /\ c.Issuer.URL # Empty
      /\ c.Issuer.CertificateAuthority \in Certificates \cup {Empty}
  BY DEF validateJWTAuthenticator, validateIssuer
<1>2. c.ClaimMappings.Username.Claim # Empty \/ c.ClaimMappings.Username.Expression # Empty
  BY DEF validateJWTAuthenticator, validateClaimMappings, validatePrefixClaimOrExpression
<1>3. c.Issuer = ConvertIssuer(j.Issuer) /\ c.ClaimMappings = ConvertClaimMappings(j.ClaimMappings)
  BY DEF ConvertJWTAuthenticator
<1> HIDE DEF c
<1>4. j.Issuer # Nil
  BY <1>1, <1>3 DEF ConvertIssuer
<1>5. j.ClaimMappings # Nil
  BY <1>2, <1>3 DEF ConvertClaimMappings
<1> QED BY <1>1, <1>3, <1>4, <1>5 DEF ConvertIssuer

(* What the validation of a configuration says of one authenticator and of *)
(* one source in it.                                                       *)
LEMMA ValidConfiguration ==
    ASSUME NEW c, ValidateAuthenticationConfiguration(c), NEW i \in DOMAIN c.JWT
    PROVE  /\ validateJWTAuthenticator(ConvertJWTAuthenticator(c.JWT[i]))
           /\ validateExternalClaimsSources(c.JWT[i].ExternalClaimsSources)
<1>1. ConvertAuthenticationConfiguration(c).JWT =
          [n \in DOMAIN c.JWT |-> ConvertJWTAuthenticator(c.JWT[n])]
  BY DEF ConvertAuthenticationConfiguration, Map
<1>2. validateJWTAuthenticator(ConvertAuthenticationConfiguration(c).JWT[i])
  BY <1>1 DEF ValidateAuthenticationConfiguration, validateApiserverConfiguration
<1> QED BY <1>1, <1>2 DEF ValidateAuthenticationConfiguration

-----------------------------------------------------------------------------
(* The inductive invariant.                                                *)

Sources(i) == cfg.JWT[i].ExternalClaimsSources

Accepted ==
    pc \in {"jwt", "sources", "built"} \/ jwts # <<>> \/ expanders # <<>>
        => ValidateAuthenticationConfiguration(cfg)

Position ==
    /\ pc \in {"load", "validate"} => jwts = <<>>
    /\ pc \in {"load", "validate", "jwt", "built"} => expanders = <<>>
    /\ pc = "sources" => jwt \in DOMAIN cfg.JWT

BuiltFrom(es, sources) ==
    \A k \in DOMAIN es : k \in DOMAIN sources /\ es[k] \in Expanders(sources[k])

JWTsMatch ==
    \A i \in DOMAIN jwts :
        /\ i \in DOMAIN cfg.JWT
        /\ jwts[i].authenticator = ConvertJWTAuthenticator(cfg.JWT[i])
        /\ IsSlice(jwts[i].expanders)
        /\ DOMAIN jwts[i].expanders = DOMAIN Sources(i)
        /\ BuiltFrom(jwts[i].expanders, Sources(i))

IInv ==
    /\ TypeOK /\ file \in Files
    /\ AcceptedBuilds /\ Accepted /\ Position
    /\ pc = "sources" => BuiltFrom(expanders, Sources(jwt))
    /\ JWTsMatch

LEMMA InitIInv == Init => IInv
BY EmptySlice, NilAssumption
   DEF Init, IInv, TypeOK, AcceptedBuilds, Accepted, Position, JWTsMatch

(* Nothing but the end of the slice of sources ends the loop over them.    *)
LEMMA AllSourcesBuilt ==
    ASSUME IInv, pc = "sources", source \notin DOMAIN Sources(jwt)
    PROVE  DOMAIN expanders = DOMAIN Sources(jwt)
<1>1. IsSlice(Sources(jwt))
  <2>1. cfg = [JWT |-> file.JWT]
    BY ConversionUnchanged DEF IInv, TypeOK
  <2> QED BY <2>1, FilesAssumption DEF IInv, Position, Sources, JWTTyped
<1>2. DOMAIN Sources(jwt) = 1..Len(Sources(jwt)) /\ Len(Sources(jwt)) \in Nat
  BY <1>1, SliceDomain
<1>3. DOMAIN expanders = 1..Len(expanders) /\ Len(expanders) \in Nat
  BY SliceDomain DEF IInv, TypeOK
<1>4. \A k \in 1..Len(expanders) : k \in 1..Len(Sources(jwt))
  BY <1>2, <1>3 DEF IInv, BuiltFrom
<1>5. ~(Len(expanders) + 1 \in 1..Len(Sources(jwt)))
  BY <1>2 DEF source
<1>6. Len(expanders) = Len(Sources(jwt))
  <2>1. CASE Len(expanders) = 0
    BY <2>1, <1>2, <1>5
  <2>2. CASE Len(expanders) # 0
    <3>1. Len(expanders) \in 1..Len(expanders)
      BY <2>2, <1>3
    <3>2. Len(expanders) <= Len(Sources(jwt))
      BY <3>1, <1>2, <1>4
    <3>3. Len(expanders) \in Nat /\ Len(Sources(jwt)) \in Nat
      BY <1>2, <1>3
    <3>4. ~(Len(expanders) + 1 <= Len(Sources(jwt)))
      BY <3>3, <1>5
    <3> QED BY <3>2, <3>3, <3>4
  <2> QED BY <2>1, <2>2
<1> QED BY <1>2, <1>3, <1>6

(* Every step preserves the invariant.                                     *)
LEMMA NextIInv == IInv /\ [Next]_vars => IInv'
<1> SUFFICES ASSUME IInv, [Next]_vars PROVE IInv'
  OBVIOUS
<1> USE DEF IInv, TypeOK
<1>1. CASE Load
  <2>1. /\ pc = "load" /\ pc' = "validate" /\ cfg' = ConvertFromV1alpha1(file)
        /\ UNCHANGED <<file, failure, jwts, expanders>>
    BY <1>1 DEF Load
  <2>2. jwts' = <<>> /\ expanders' = <<>> /\ DOMAIN jwts' = {}
    BY <2>1, EmptySlice DEF Position
  <2>3. Position' /\ Accepted' /\ AcceptedBuilds' /\ JWTsMatch'
    BY <2>1, <2>2 DEF Position, Accepted, AcceptedBuilds, JWTsMatch
  <2> QED BY <2>1, <2>3
<1>2. CASE Reject
  <2>1. /\ pc = "validate" /\ pc' = "failed" /\ failure' = "invalid"
        /\ UNCHANGED <<file, cfg, jwts, expanders>>
    BY <1>2 DEF Reject, Fail
  <2>2. Position' /\ Accepted' /\ AcceptedBuilds'
    BY <2>1 DEF Position, Accepted, AcceptedBuilds
  <2>3. JWTsMatch'
    BY <2>1 DEF JWTsMatch, Sources
  <2> QED BY <2>1, <2>2, <2>3, NilAssumption
<1>3. CASE Accept
  <2>1. /\ pc = "validate" /\ pc' = "jwt" /\ ValidateAuthenticationConfiguration(cfg)
        /\ UNCHANGED <<file, cfg, failure, jwts, expanders>>
    BY <1>3 DEF Accept
  <2>2. Position' /\ Accepted' /\ AcceptedBuilds'
    BY <2>1 DEF Position, Accepted, AcceptedBuilds
  <2>3. JWTsMatch'
    BY <2>1 DEF JWTsMatch, Sources
  <2> QED BY <2>1, <2>2, <2>3
<1>4. CASE IssuerCA
  <2>1. ValidateAuthenticationConfiguration(cfg) /\ jwt \in DOMAIN cfg.JWT
    BY <1>4 DEF IssuerCA, Accepted
  <2>2. /\ cfg.JWT[jwt].Issuer # Nil
        /\ cfg.JWT[jwt].Issuer.CertificateAuthority \in Certificates \cup {Empty}
    BY <2>1, ValidConfiguration, ValidJWTHasIssuer
  <2>3. /\ pc' = "sources"
        /\ UNCHANGED <<file, cfg, failure, jwts, expanders>>
        /\ pc = "jwt"
    BY <1>4, <2>2 DEF IssuerCA
  <2>4. expanders = <<>> /\ DOMAIN expanders = {}
    BY <2>3, EmptySlice DEF Position
  <2>5. Position' /\ Accepted' /\ AcceptedBuilds'
    BY <2>1, <2>3 DEF Position, Accepted, AcceptedBuilds, jwt
  <2>6. JWTsMatch'
    BY <2>3 DEF JWTsMatch, Sources
  <2>7. BuiltFrom(expanders, Sources(jwt))'
    BY <2>3, <2>4 DEF BuiltFrom
  <2> QED BY <2>3, <2>5, <2>6, <2>7
<1>5. CASE BuildExpander
  <2>1. ValidateAuthenticationConfiguration(cfg) /\ jwt \in DOMAIN cfg.JWT
    BY <1>5 DEF BuildExpander, Accepted, Position
  <2>2. source \in DOMAIN Sources(jwt)
    BY <1>5 DEF BuildExpander, Sources
  <2>3. Expanders(Sources(jwt)[source]) # {}
    <3>1. validateExternalClaimsSources(Sources(jwt))
      BY <2>1, ValidConfiguration DEF Sources
    <3> QED BY <2>2, <3>1, ValidSourceHasExpander DEF validateExternalClaimsSources
  <2>4. PICK e \in Expanders(Sources(jwt)[source]) : expanders' = Append(expanders, e)
    BY <1>5, <2>3 DEF BuildExpander, NextSource, Sources
  <2>5. pc = "sources" /\ UNCHANGED <<file, cfg, pc, failure, jwts>>
    BY <1>5, <2>3 DEF BuildExpander, NextSource, Sources
  <2>6. /\ IsSlice(expanders') /\ DOMAIN expanders' = DOMAIN expanders \cup {source}
        /\ \A k \in DOMAIN expanders : expanders'[k] = expanders[k]
        /\ expanders'[source] = e
    <3>1. IsSlice(expanders)
      OBVIOUS
    <3> HIDE DEF IInv, TypeOK
    <3> QED BY <2>4, <3>1, AppendSlice DEF source
  <2>7. BuiltFrom(expanders', Sources(jwt))
    BY <2>2, <2>4, <2>5, <2>6 DEF BuiltFrom
  <2>8. BuiltFrom(expanders, Sources(jwt))'
    BY <2>5, <2>7 DEF Sources, jwt
  <2>9. JWTsMatch'
    BY <2>5 DEF JWTsMatch, Sources
  <2>10. Position' /\ Accepted' /\ AcceptedBuilds'
    BY <2>1, <2>5 DEF Position, Accepted, AcceptedBuilds, jwt
  <2> QED BY <2>5, <2>6, <2>8, <2>9, <2>10
<1>6. CASE FirstFetchFails
  <2>1. pc' = "failed" /\ failure' = "token endpoint"
        /\ UNCHANGED <<file, cfg, jwts, expanders>> /\ pc = "sources"
    BY <1>6 DEF FirstFetchFails, Fail
  <2>2. Position' /\ Accepted' /\ AcceptedBuilds'
    BY <2>1 DEF Position, Accepted, AcceptedBuilds
  <2>3. JWTsMatch'
    BY <2>1 DEF JWTsMatch, Sources
  <2> QED BY <2>1, <2>2, <2>3, NilAssumption
<1>7. CASE NewAuthenticator
  <2>1. ValidateAuthenticationConfiguration(cfg) /\ jwt \in DOMAIN cfg.JWT
    BY <1>7 DEF NewAuthenticator, Accepted, Position
  <2> DEFINE a == [authenticator |-> ConvertJWTAuthenticator(cfg.JWT[jwt]), expanders |-> expanders]
  <2>2. validateJWTAuthenticator(ConvertJWTAuthenticator(cfg.JWT[jwt]))
    BY <2>1, ValidConfiguration
  <2>3. /\ pc = "sources" /\ pc' = "jwt" /\ expanders' = <<>> /\ jwts' = Append(jwts, a)
        /\ UNCHANGED <<file, cfg, failure>>
    BY <1>7, <2>2 DEF NewAuthenticator
  <2>4. DOMAIN expanders = DOMAIN Sources(jwt) /\ BuiltFrom(expanders, Sources(jwt))
    BY <1>7, <2>3, AllSourcesBuilt DEF NewAuthenticator, Sources
  <2>5. /\ a.authenticator = ConvertJWTAuthenticator(cfg.JWT[jwt])
        /\ a.expanders = expanders
    OBVIOUS
  <2> HIDE DEF a
  <2>6. /\ IsSlice(jwts') /\ DOMAIN jwts' = DOMAIN jwts \cup {jwt}
        /\ \A i \in DOMAIN jwts : jwts'[i] = jwts[i]
        /\ jwts'[jwt] = a
    BY <2>3, AppendSlice DEF jwt
  <2>7. JWTsMatch'
    BY <2>1, <2>3, <2>4, <2>5, <2>6 DEF JWTsMatch, Sources
  <2>8. Position' /\ Accepted' /\ AcceptedBuilds'
    BY <2>1, <2>3 DEF Position, Accepted, AcceptedBuilds
  <2> QED BY <2>3, <2>6, <2>7, <2>8, EmptySlice
<1>8. CASE Built
  <2>1. pc = "jwt" /\ pc' = "built" /\ UNCHANGED <<file, cfg, failure, jwts, expanders>>
    BY <1>8 DEF Built
  <2>2. JWTsMatch'
    BY <2>1 DEF JWTsMatch, Sources
  <2>3. Position' /\ Accepted' /\ AcceptedBuilds'
    BY <2>1 DEF Position, Accepted, AcceptedBuilds
  <2> QED BY <2>1, <2>2, <2>3
<1>9. CASE UNCHANGED vars
  BY <1>9 DEF vars, AcceptedBuilds, Accepted, Position, JWTsMatch, Sources, BuiltFrom, jwt
<1> QED BY <1>1, <1>2, <1>3, <1>4, <1>5, <1>6, <1>7, <1>8, <1>9 DEF Next

(* The invariant holds in every reachable state.                           *)
LEMMA Invariance == Spec => []IInv
BY InitIInv, NextIInv, PTL DEF Spec

-----------------------------------------------------------------------------
(* What the invariant implies.                                             *)

(* What is being built is well-typed, and a failure has a reason.          *)
THEOREM TypeCorrect == Spec => []TypeOK
<1>1. IInv => TypeOK
  BY DEF IInv
<1> QED BY <1>1, Invariance, PTL

(* A configuration that passes Validate is assembled unless a token        *)
(* endpoint does not answer, whatever the strings in it mean.              *)
THEOREM ValidatedIsAssembled == Spec => []AcceptedBuilds
<1>1. IInv => AcceptedBuilds
  BY DEF IInv
<1> QED BY <1>1, Invariance, PTL

(* Once an authenticator is built, the configuration is the file's and is  *)
(* valid.                                                                  *)
LEMMA BuiltIsValid ==
    ASSUME IInv, NEW i \in DOMAIN jwts
    PROVE  /\ cfg = [JWT |-> file.JWT]
           /\ i \in DOMAIN file.JWT /\ JWTTyped(file.JWT[i])
           /\ Sources(i) = file.JWT[i].ExternalClaimsSources
           /\ ValidateAuthenticationConfiguration(cfg)
           /\ validateJWTAuthenticator(ConvertJWTAuthenticator(file.JWT[i]))
           /\ validateExternalClaimsSources(Sources(i))
<1>1. jwts # <<>>
  BY EmptySlice
<1>2. pc # "load"
  BY <1>1 DEF IInv, Position
<1>3. cfg = [JWT |-> file.JWT]
  BY <1>2, ConversionUnchanged DEF IInv, TypeOK
<1>4. i \in DOMAIN file.JWT /\ JWTTyped(file.JWT[i])
  BY <1>3, FilesAssumption DEF IInv, JWTsMatch
<1>5. ValidateAuthenticationConfiguration(cfg)
  BY <1>1 DEF IInv, Accepted
<1>6. /\ validateJWTAuthenticator(ConvertJWTAuthenticator(cfg.JWT[i]))
      /\ validateExternalClaimsSources(cfg.JWT[i].ExternalClaimsSources)
  BY <1>3, <1>4, <1>5, ValidConfiguration
<1> QED BY <1>3, <1>4, <1>5, <1>6 DEF Sources

(* Converting a slice field by field gives the slice back.                 *)
LEMMA ConvertSlices ==
    /\ \A s : Structs(s, V!ExtraMapping) => ConvertExtraMappings(s) = s
    /\ \A s : Structs(s, V!ClaimValidationRule) => ConvertClaimValidationRules(s) = s
    /\ \A s : Structs(s, V!UserValidationRule) => ConvertUserValidationRules(s) = s
<1>1. ASSUME NEW s, Structs(s, V!ExtraMapping) PROVE ConvertExtraMappings(s) = s
  <2>1. \A i \in DOMAIN s : s[i] = [Key |-> s[i].Key, ValueExpression |-> s[i].ValueExpression]
    BY <1>1 DEF Structs, IsStruct, V!ExtraMapping
  <2>2. ConvertExtraMappings(s) = [i \in DOMAIN s |-> s[i]]
    BY <2>1 DEF ConvertExtraMappings, Map
  <2> QED BY <1>1, <2>2, SliceUnchanged DEF Structs
<1>2. ASSUME NEW s, Structs(s, V!ClaimValidationRule) PROVE ConvertClaimValidationRules(s) = s
  <2>1. \A i \in DOMAIN s : s[i] = [Claim |-> s[i].Claim, RequiredValue |-> s[i].RequiredValue,
                                    Expression |-> s[i].Expression, Message |-> s[i].Message]
    BY <1>2 DEF Structs, IsStruct, V!ClaimValidationRule
  <2>2. ConvertClaimValidationRules(s) = [i \in DOMAIN s |-> s[i]]
    BY <2>1 DEF ConvertClaimValidationRules, Map
  <2> QED BY <1>2, <2>2, SliceUnchanged DEF Structs
<1>3. ASSUME NEW s, Structs(s, V!UserValidationRule) PROVE ConvertUserValidationRules(s) = s
  <2>1. \A i \in DOMAIN s : s[i] = [Expression |-> s[i].Expression, Message |-> s[i].Message]
    BY <1>3 DEF Structs, IsStruct, V!UserValidationRule
  <2>2. ConvertUserValidationRules(s) = [i \in DOMAIN s |-> s[i]]
    BY <2>1 DEF ConvertUserValidationRules, Map
  <2> QED BY <1>3, <2>2, SliceUnchanged DEF Structs
<1> QED BY <1>1, <1>2, <1>3

(* The authenticator enforces the rules of the file, all and unchanged.    *)
THEOREM RulesPreserved == Spec => []NoRuleLost
<1>1. IInv => NoRuleLost
  <2> SUFFICES ASSUME IInv, NEW i \in DOMAIN jwts
               PROVE  jwts[i].authenticator =
                        [f \in {"Issuer", "ClaimMappings", "ClaimValidationRules",
                                "UserValidationRules"} |-> file.JWT[i][f]]
    BY DEF NoRuleLost
  <2> DEFINE j == file.JWT[i]
  <2>1. jwts[i].authenticator = ConvertJWTAuthenticator(j) /\ JWTTyped(j)
    BY BuiltIsValid DEF IInv, JWTsMatch
  <2>2. j.Issuer # Nil /\ j.ClaimMappings # Nil
    BY BuiltIsValid, ValidJWTHasIssuer
  <2> HIDE DEF j
  <2>3. ConvertIssuer(j.Issuer) = j.Issuer
    BY <2>1, <2>2 DEF ConvertIssuer, JWTTyped, Pointer, IsStruct, V!Issuer
  <2>4. ConvertClaimMappings(j.ClaimMappings) = j.ClaimMappings
    <3> DEFINE c == j.ClaimMappings
    <3>1. ClaimMappingsTyped(c)
      BY <2>1, <2>2 DEF JWTTyped
    <3> HIDE DEF c
    <3>2. ConvertPrefixedClaimOrExpression(c.Username) = c.Username
      BY <3>1 DEF ClaimMappingsTyped, IsStruct, V!PrefixedClaimOrExpression,
                  ConvertPrefixedClaimOrExpression
    <3>3. ConvertPrefixedClaimOrExpression(c.Groups) = c.Groups
      BY <3>1 DEF ClaimMappingsTyped, IsStruct, V!PrefixedClaimOrExpression,
                  ConvertPrefixedClaimOrExpression
    <3>4. ConvertClaimOrExpression(c.UID) = c.UID
      BY <3>1 DEF ClaimMappingsTyped, IsStruct, V!ClaimOrExpression, ConvertClaimOrExpression
    <3>5. ConvertExtraMappings(c.Extra) = c.Extra
      BY <3>1, ConvertSlices DEF ClaimMappingsTyped
    <3>6. c = [Username |-> c.Username, Groups |-> c.Groups, UID |-> c.UID, Extra |-> c.Extra]
      BY <3>1 DEF ClaimMappingsTyped, IsStruct, V!ClaimMappings
    <3>7. c # Nil
      BY <2>2 DEF c
    <3>8. ConvertClaimMappings(c) = c
      BY <3>2, <3>3, <3>4, <3>5, <3>6, <3>7 DEF ConvertClaimMappings
    <3> QED BY <3>8 DEF c
  <2>5. /\ ConvertClaimValidationRules(j.ClaimValidationRules) = j.ClaimValidationRules
        /\ ConvertUserValidationRules(j.UserValidationRules) = j.UserValidationRules
    BY <2>1, ConvertSlices DEF JWTTyped
  <2>6. ConvertJWTAuthenticator(j) =
          [f \in {"Issuer", "ClaimMappings", "ClaimValidationRules", "UserValidationRules"} |-> j[f]]
    BY <2>3, <2>4, <2>5 DEF ConvertJWTAuthenticator
  <2> QED BY <2>1, <2>6 DEF j
<1> QED BY <1>1, Invariance, PTL

(* A resolver of a valid source has all of it: nothing was skipped.        *)
LEMMA ExpanderIsComplete ==
    ASSUME NEW s, NEW seen, SourceTyped(s), validateExternalClaimsSource(s, seen),
           NEW e \in Expanders(s)
    PROVE  SourceComplete(e, s)
<1>1. /\ e.tokenGetter \in buildExternalClaimsTokenGetter(s.Authentication)
      /\ e.rootCAs \in httpClientForTLSConfig(s.TLS)
      /\ e.mapper \in buildExternalSourceCELMapper(s)
  BY DEF Expanders, NewResolver
<1>2. e.mapper = [url |-> s.URL, sources |-> s.Mappings, conditions |-> s.Conditions]
  <2>1. e.mapper \in [url : buildURLMapperFromSourceURL(s.URL),
                      sources : buildExternalClaimsMapperFromSourcedClaimMappings(s.Mappings),
                      conditions : buildExternalSourceConditionMapperFromConditions(s.Conditions)]
    BY <1>1 DEF buildExternalSourceCELMapper
  <2>2. \A x \in buildURLMapperFromSourceURL(s.URL) : x = s.URL
    BY DEF buildURLMapperFromSourceURL
  <2>3. \A x \in buildExternalClaimsMapperFromSourcedClaimMappings(s.Mappings) : x = s.Mappings
    <3>1. \A i \in DOMAIN s.Mappings : s.Mappings[i].Name # Nil /\ s.Mappings[i].Expression # Nil
      BY DEF validateExternalClaimsSource, validateExternalClaimsSourceMappings,
             validateExternalClaimsSourceMapping, ValidateExternalClaimsSourceMappingName,
             ValidateExternalClaimsSourceMappingExpression, IsSet
    <3>2. {i \in DOMAIN s.Mappings : s.Mappings[i].Name # Nil /\ s.Mappings[i].Expression # Nil}
            = DOMAIN s.Mappings
      BY <3>1
    <3>3. [i \in DOMAIN s.Mappings |-> s.Mappings[i]] = s.Mappings
      BY SliceUnchanged DEF SourceTyped, Structs
    <3> QED BY <3>2, <3>3 DEF buildExternalClaimsMapperFromSourcedClaimMappings
  <2>4. \A x \in buildExternalSourceConditionMapperFromConditions(s.Conditions) : x = s.Conditions
    <3>1. \A i \in DOMAIN s.Conditions : s.Conditions[i].Expression # Nil
      BY DEF validateExternalClaimsSource, validateExternalClaimsSourceConditions,
             ValidateExternalSourceCondition, IsSet
    <3>2. {i \in DOMAIN s.Conditions : s.Conditions[i].Expression # Nil} = DOMAIN s.Conditions
      BY <3>1
    <3>3. [i \in DOMAIN s.Conditions |-> s.Conditions[i]] = s.Conditions
      BY SliceUnchanged DEF SourceTyped, Structs
    <3> QED BY <3>2, <3>3 DEF buildExternalSourceConditionMapperFromConditions
  <2> QED BY <2>1, <2>2, <2>3, <2>4
<1>3. e.rootCAs = IF s.TLS = Nil THEN "host" ELSE s.TLS.CertificateAuthority
  BY <1>1 DEF validateExternalClaimsSource, validateExternalClaimsSourceTLS, IsZero,
              httpClientForTLSConfig, RootCAs
<1>4. IF s.Authentication # Nil /\ s.Authentication.ClientCredential # Nil
      THEN e.tokenGetter.config = s.Authentication.ClientCredential
      ELSE e.tokenGetter.type \in {"Anonymous", "RequestProvided"}
  <2>1. CASE s.Authentication = Nil
    BY <1>1, <2>1 DEF buildExternalClaimsTokenGetter
  <2>2. CASE s.Authentication # Nil /\ s.Authentication.ClientCredential # Nil
    <3>1. s.Authentication.Type = "ClientCredential"
      BY <2>2 DEF validateExternalClaimsSource, validateExternalClaimsSourceAuthentication
    <3> QED BY <1>1, <2>2, <3>1 DEF buildExternalClaimsTokenGetter, NewClientCredential
  <2>3. CASE s.Authentication # Nil /\ s.Authentication.ClientCredential = Nil
    <3>1. s.Authentication.Type = "RequestProvidedToken"
      BY <2>3 DEF validateExternalClaimsSource, validateExternalClaimsSourceAuthentication,
                  validateClientCredentialConfig, AllowedTypes
    <3> QED BY <1>1, <2>3, <3>1 DEF buildExternalClaimsTokenGetter
  <2> QED BY <2>1, <2>2, <2>3
<1> QED BY <1>2, <1>3, <1>4 DEF SourceComplete

(* The sources of a built authenticator, one by one.                       *)
LEMMA BuiltSource ==
    ASSUME IInv, NEW i \in DOMAIN jwts, NEW k \in DOMAIN jwts[i].expanders
    PROVE  /\ k \in DOMAIN Sources(i)
           /\ SourceComplete(jwts[i].expanders[k], Sources(i)[k])
<1>1. k \in DOMAIN Sources(i) /\ jwts[i].expanders[k] \in Expanders(Sources(i)[k])
  BY DEF IInv, JWTsMatch, BuiltFrom
<1>2. SourceTyped(Sources(i)[k])
  BY <1>1, BuiltIsValid DEF JWTTyped
<1>3. PICK seen : validateExternalClaimsSource(Sources(i)[k], seen)
  BY <1>1, BuiltIsValid DEF validateExternalClaimsSources
<1> QED BY <1>1, <1>2, <1>3, ExpanderIsComplete

(* Every resolver does what the file says of its source, and every source  *)
(* has a resolver.                                                         *)
THEOREM SourcesPreserved == Spec => []SourcesComplete
<1>1. IInv => SourcesComplete
  <2> SUFFICES ASSUME IInv, NEW i \in DOMAIN jwts
               PROVE  LET sources == file.JWT[i].ExternalClaimsSources
                      IN /\ DOMAIN jwts[i].expanders = DOMAIN sources
                         /\ \A k \in DOMAIN sources :
                              SourceComplete(jwts[i].expanders[k], sources[k])
    BY DEF SourcesComplete
  <2>1. Sources(i) = file.JWT[i].ExternalClaimsSources
    BY BuiltIsValid
  <2>2. DOMAIN jwts[i].expanders = DOMAIN Sources(i)
    BY DEF IInv, JWTsMatch
  <2> QED BY <2>1, <2>2, BuiltSource
<1> QED BY <1>1, Invariance, PTL

(* What validation says of two mappings of valid sources.                  *)
LEMMA ValidNames ==
    ASSUME NEW ss, IsSlice(ss), validateExternalClaimsSources(ss),
           NEW k \in DOMAIN ss, NEW l \in DOMAIN ss,
           IsSlice(ss[k].Mappings), IsSlice(ss[l].Mappings),
           NEW m \in DOMAIN ss[k].Mappings, NEW n \in DOMAIN ss[l].Mappings,
           k < l \/ (k = l /\ m < n)
    PROVE  ss[k].Mappings[m].Name # ss[l].Mappings[n].Name
<1> DEFINE seen == UNION {MappingNames(s.Mappings) : s \in Before(ss, l)}
           ms == ss[l].Mappings
<1>1. validateExternalClaimsSourceMapping(ms[n], seen \cup {x.Name : x \in Before(ms, n)})
  BY DEF validateExternalClaimsSources, validateExternalClaimsSource,
         validateExternalClaimsSourceMappings
<1>2. ms[n].Name \notin seen \cup {x.Name : x \in Before(ms, n)}
  BY <1>1 DEF validateExternalClaimsSourceMapping, ValidateExternalClaimsSourceMappingName
<1>3. k \in Nat /\ l \in Nat /\ k >= 1
  BY SliceDomain
<1>4. CASE k < l
  <2>1. ss[k] \in Before(ss, l)
    BY <1>3, <1>4 DEF Before
  <2>2. ss[k].Mappings[m].Name \in seen
    BY <2>1 DEF MappingNames
  <2> QED BY <1>2, <2>2
<1>5. CASE k = l /\ m < n
  <2>1. m \in Nat /\ n \in Nat /\ m >= 1
    BY SliceDomain
  <2>2. ms[m] \in Before(ms, n)
    BY <1>5, <2>1 DEF Before
  <2> QED BY <1>2, <1>5, <2>2
<1> QED BY <1>4, <1>5

(* Two mappings of an authenticator write two claims.                      *)
THEOREM NamesDisjoint == Spec => []ClaimNamesDisjoint
<1>1. IInv => ClaimNamesDisjoint
  <2> SUFFICES ASSUME IInv, NEW i \in DOMAIN jwts,
                      NEW k \in DOMAIN jwts[i].expanders, NEW l \in DOMAIN jwts[i].expanders,
                      NEW m \in DOMAIN jwts[i].expanders[k].mapper.sources,
                      NEW n \in DOMAIN jwts[i].expanders[l].mapper.sources,
                      jwts[i].expanders[k].mapper.sources[m].Name =
                          jwts[i].expanders[l].mapper.sources[n].Name
               PROVE  k = l /\ m = n
    BY DEF ClaimNamesDisjoint
  <2> DEFINE ss == Sources(i)
  <2>1. /\ k \in DOMAIN ss /\ jwts[i].expanders[k].mapper.sources = ss[k].Mappings
        /\ l \in DOMAIN ss /\ jwts[i].expanders[l].mapper.sources = ss[l].Mappings
    <3>1. /\ k \in DOMAIN ss /\ SourceComplete(jwts[i].expanders[k], ss[k])
          /\ l \in DOMAIN ss /\ SourceComplete(jwts[i].expanders[l], ss[l])
      BY BuiltSource
    <3>2. ASSUME NEW e, NEW s, SourceComplete(e, s)
          PROVE  e.mapper.sources = s.Mappings
      BY <3>2 DEF SourceComplete
    <3> QED BY <3>1, <3>2
  <2>2. IsSlice(ss) /\ validateExternalClaimsSources(ss)
    BY BuiltIsValid DEF JWTTyped
  <2>3. IsSlice(ss[k].Mappings) /\ IsSlice(ss[l].Mappings)
    BY <2>1, BuiltIsValid DEF JWTTyped, SourceTyped, Structs
  <2>4. m \in DOMAIN ss[k].Mappings /\ n \in DOMAIN ss[l].Mappings
        /\ ss[k].Mappings[m].Name = ss[l].Mappings[n].Name
    BY <2>1
  <2> HIDE DEF ss
  <2>5. k \in Nat /\ l \in Nat
    BY <2>1, <2>2, SliceDomain
  <2>6. m \in Nat /\ n \in Nat
    BY <2>3, <2>4, SliceDomain
  <2>7. ~(k < l)
    BY <2>1, <2>2, <2>3, <2>4, ValidNames
  <2>8. ~(l < k)
    BY <2>1, <2>2, <2>3, <2>4, ValidNames
  <2>9. ~(k = l /\ m < n)
    BY <2>1, <2>2, <2>3, <2>4, ValidNames
  <2>10. ~(k = l /\ n < m)
    BY <2>1, <2>2, <2>3, <2>4, ValidNames
  <2> QED BY <2>5, <2>6, <2>7, <2>8, <2>9, <2>10
<1> QED BY <1>1, Invariance, PTL

(* A token has the issuer of at most one authenticator.                    *)
THEOREM OneAuthenticatorPerIssuer == Spec => []IssuersDistinct
<1>1. IInv => IssuersDistinct
  <2> SUFFICES ASSUME IInv, NEW i \in DOMAIN jwts, NEW j \in DOMAIN jwts, i # j
               PROVE  jwts[i].authenticator.Issuer.URL # jwts[j].authenticator.Issuer.URL
    BY DEF IssuersDistinct
  <2> DEFINE c == ConvertAuthenticationConfiguration(cfg)
  <2>1. /\ i \in DOMAIN cfg.JWT /\ jwts[i].authenticator = ConvertJWTAuthenticator(cfg.JWT[i])
        /\ j \in DOMAIN cfg.JWT /\ jwts[j].authenticator = ConvertJWTAuthenticator(cfg.JWT[j])
    BY DEF IInv, JWTsMatch
  <2>2. c.JWT = [n \in DOMAIN cfg.JWT |-> ConvertJWTAuthenticator(cfg.JWT[n])]
    BY DEF ConvertAuthenticationConfiguration, Map
  <2>3. validateApiserverConfiguration(c)
    BY BuiltIsValid DEF ValidateAuthenticationConfiguration
  <2> HIDE DEF c
  <2>4. c.JWT[i].Issuer.URL # c.JWT[j].Issuer.URL
    BY <2>1, <2>2, <2>3 DEF validateApiserverConfiguration
  <2> QED BY <2>1, <2>2, <2>4
<1> QED BY <1>1, Invariance, PTL

(* The timeouts of the sources of an authenticator add up to less than the *)
(* API server waits.                                                       *)
THEOREM BudgetKept == Spec => []WithinBudget
<1>1. IInv => WithinBudget
  <2> SUFFICES ASSUME IInv, NEW i \in DOMAIN jwts
               PROVE  LET es == jwts[i].expanders
                          fetching == {k \in DOMAIN es : es[k].tokenGetter.type = "ClientCredential"}
                      IN Len(es) * externalSourceRequestTimeout
                           + Cardinality(fetching) * tokenEndpointRequestTimeout < WebhookTimeout
    BY DEF WithinBudget
  <2> DEFINE es == jwts[i].expanders
             fetching == {k \in DOMAIN es : es[k].tokenGetter.type = "ClientCredential"}
  <2>1. IsSlice(es) /\ DOMAIN es = DOMAIN Sources(i)
    BY DEF IInv, JWTsMatch
  <2>2. IsSlice(Sources(i)) /\ validateExternalClaimsSources(Sources(i))
    BY BuiltIsValid DEF JWTTyped
  <2>3. Len(Sources(i)) <= 5
    BY <2>2 DEF validateExternalClaimsSources, maxExternalClaimSources
  <2> HIDE DEF es
  <2>4. Len(es) \in Nat /\ DOMAIN es = 1..Len(es)
    BY <2>1, SliceDomain
  <2>5. Len(Sources(i)) \in Nat /\ DOMAIN es = 1..Len(Sources(i))
    BY <2>1, <2>2, SliceDomain
  <2>6. IsFiniteSet(DOMAIN es) /\ Cardinality(DOMAIN es) = Len(es)
        /\ Cardinality(DOMAIN es) = Len(Sources(i))
    <3>1. \A n \in Nat : IsFiniteSet(1..n) /\ Cardinality(1..n) = n
      BY FS_Interval
    <3> QED BY <3>1, <2>4, <2>5
  <2>7. Cardinality(fetching) <= Cardinality(DOMAIN es) /\ Cardinality(fetching) \in Nat
    <3>1. fetching \subseteq DOMAIN es
      OBVIOUS
    <3> HIDE DEF fetching
    <3> QED BY <3>1, <2>6, FS_Subset, FS_CardinalityType
  <2> HIDE DEF fetching
  <2>8. Len(es) <= 5 /\ Cardinality(fetching) <= 5
    <3>1. Len(es) = Len(Sources(i))
      BY <2>6
    <3> QED BY <2>3, <2>4, <2>6, <2>7, <3>1
  <2>9. Len(es) * externalSourceRequestTimeout
          + Cardinality(fetching) * tokenEndpointRequestTimeout < WebhookTimeout
    BY <2>4, <2>7, <2>8 DEF externalSourceRequestTimeout, tokenEndpointRequestTimeout, WebhookTimeout
  <2> QED BY <2>9 DEF es, fetching
<1> QED BY <1>1, Invariance, PTL
=============================================================================
