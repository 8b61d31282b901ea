----------------------------- MODULE Conversion -----------------------------
(***************************************************************************)
(* Conversions of a configuration, field by field: from v1alpha1, as the   *)
(* file is decoded, to the internal types, and from these to the types of  *)
(* the API server's validation and authenticator.                          *)
(*                                                                         *)
(* A struct is a record, a slice a sequence, a pointer its target or Nil.  *)
(***************************************************************************)
EXTENDS Naturals, Sequences

CONSTANTS Nil, Empty    \* the nil pointer, the empty string

T == INSTANCE AuthenticationTypes

V == INSTANCE V1alpha1Types

Map(Op(_), s) == [i \in DOMAIN s |-> Op(s[i])]

-----------------------------------------------------------------------------
(* From v1alpha1.  Only the list of authenticators is assigned: its memory *)
(* is read as the other type through an unsafe.Pointer, so that a field is *)
(* whatever is at its place in the v1alpha1 struct.                        *)

Garbage == "garbage"

As(from, to, v) ==
    [f \in {to[i][1] : i \in DOMAIN to} |->
        LET i == CHOOSE k \in DOMAIN to : to[k][1] = f
        IN IF from[i][2] = to[i][2] THEN v[from[i][1]] ELSE Garbage]

Deref(Op(_), p) == IF p = Nil THEN Nil ELSE Op(p)

TLSAs(v) == As(V!TLS, T!TLS, v)

ClientCredentialConfigAs(v) ==
    LET c == As(V!ClientCredentialConfig, T!ClientCredentialConfig, v)
    IN [ClientID |-> c.ClientID, ClientSecret |-> c.ClientSecret,
        TokenEndpoint |-> c.TokenEndpoint, Scopes |-> c.Scopes,
        TLS |-> Deref(TLSAs, c.TLS)]

AuthenticationAs(v) ==
    LET c == As(V!Authentication, T!Authentication, v)
    IN [Type |-> c.Type,
        ClientCredential |-> Deref(ClientCredentialConfigAs, c.ClientCredential)]

SourceURLAs(v) == As(V!SourceURL, T!SourceURL, v)

SourcedClaimMappingAs(v) == As(V!SourcedClaimMapping, T!SourcedClaimMapping, v)

ExternalSourceConditionAs(v) ==
    As(V!ExternalSourceCondition, T!ExternalSourceCondition, v)

ExternalClaimsSourceAs(v) ==
    LET c == As(V!ExternalClaimsSource, T!ExternalClaimsSource, v)
    IN [Authentication |-> Deref(AuthenticationAs, c.Authentication),
        TLS |-> Deref(TLSAs, c.TLS),
        URL |-> Deref(SourceURLAs, c.URL),
        Mappings |-> Map(SourcedClaimMappingAs, c.Mappings),
        Conditions |-> Map(ExternalSourceConditionAs, c.Conditions)]

IssuerAs(v) == As(V!Issuer, T!Issuer, v)

ClaimValidationRuleAs(v) == As(V!ClaimValidationRule, T!ClaimValidationRule, v)

UserValidationRuleAs(v) == As(V!UserValidationRule, T!UserValidationRule, v)

PrefixedClaimOrExpressionAs(v) ==
    As(V!PrefixedClaimOrExpression, T!PrefixedClaimOrExpression, v)

ClaimOrExpressionAs(v) == As(V!ClaimOrExpression, T!ClaimOrExpression, v)

ExtraMappingAs(v) == As(V!ExtraMapping, T!ExtraMapping, v)

ClaimMappingsAs(v) ==
    LET c == As(V!ClaimMappings, T!ClaimMappings, v)
    IN [Username |-> PrefixedClaimOrExpressionAs(c.Username),
        Groups |-> PrefixedClaimOrExpressionAs(c.Groups),
        UID |-> ClaimOrExpressionAs(c.UID),
        Extra |-> Map(ExtraMappingAs, c.Extra)]

JWTAuthenticatorAs(v) ==
    LET c == As(V!JWTAuthenticator, T!JWTAuthenticator, v)
    IN [Issuer |-> Deref(IssuerAs, c.Issuer),
        ClaimValidationRules |-> Map(ClaimValidationRuleAs, c.ClaimValidationRules),
        ClaimMappings |-> Deref(ClaimMappingsAs, c.ClaimMappings),
        UserValidationRules |-> Map(UserValidationRuleAs, c.UserValidationRules),
        ExternalClaimsSources |-> Map(ExternalClaimsSourceAs, c.ExternalClaimsSources)]

ConvertFromV1alpha1(in) == [JWT |-> Map(JWTAuthenticatorAs, in.JWT)]

-----------------------------------------------------------------------------
(* To the API server's types, which know no external claims sources.       *)

ConvertIssuer(in) ==
    IF in = Nil
    THEN [URL |-> Empty, DiscoveryURL |-> Empty, CertificateAuthority |-> Empty,
          Audiences |-> <<>>, AudienceMatchPolicy |-> Empty]
    ELSE [URL |-> in.URL, DiscoveryURL |-> in.DiscoveryURL,
          CertificateAuthority |-> in.CertificateAuthority,
          Audiences |-> in.Audiences, AudienceMatchPolicy |-> in.AudienceMatchPolicy]

ConvertPrefixedClaimOrExpression(in) ==
    [Claim |-> in.Claim, Prefix |-> in.Prefix, Expression |-> in.Expression]

ConvertClaimOrExpression(in) == [Claim |-> in.Claim, Expression |-> in.Expression]

ConvertExtraMappings(in) ==
    Map(LAMBDA e : [Key |-> e.Key, ValueExpression |-> e.ValueExpression], in)

ConvertClaimMappings(in) ==
    IF in = Nil
    THEN [Username |-> [Claim |-> Empty, Prefix |-> Nil, Expression |-> Empty],
          Groups |-> [Claim |-> Empty, Prefix |-> Nil, Expression |-> Empty],
          UID |-> [Claim |-> Empty, Expression |-> Empty],
          Extra |-> <<>>]
    ELSE [Username |-> ConvertPrefixedClaimOrExpression(in.Username),
          Groups |-> ConvertPrefixedClaimOrExpression(in.Groups),
          UID |-> ConvertClaimOrExpression(in.UID),
          Extra |-> ConvertExtraMappings(in.Extra)]

ConvertClaimValidationRules(in) ==
    Map(LAMBDA r : [Claim |-> r.Claim, RequiredValue |-> r.RequiredValue,
                    Expression |-> r.Expression, Message |-> r.Message], in)

ConvertUserValidationRules(in) ==
    Map(LAMBDA r : [Expression |-> r.Expression, Message |-> r.Message], in)

ConvertJWTAuthenticator(in) ==
    [Issuer |-> ConvertIssuer(in.Issuer),
     ClaimMappings |-> ConvertClaimMappings(in.ClaimMappings),
     ClaimValidationRules |-> ConvertClaimValidationRules(in.ClaimValidationRules),
     UserValidationRules |-> ConvertUserValidationRules(in.UserValidationRules)]

ConvertAuthenticationConfiguration(in) == [JWT |-> Map(ConvertJWTAuthenticator, in.JWT)]
=============================================================================
