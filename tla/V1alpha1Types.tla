---------------------------- MODULE V1alpha1Types ---------------------------
(***************************************************************************)
(* The structs of the v1alpha1 types, into which the configuration file is *)
(* decoded, each as its fields in memory order, with their Go types.       *)
(***************************************************************************)

JWTAuthenticator == <<
    <<"Issuer", "*Issuer">>,
    <<"ClaimValidationRules", "[]ClaimValidationRule">>,
    <<"ClaimMappings", "*ClaimMappings">>,
    <<"UserValidationRules", "[]UserValidationRule">>,
    <<"ExternalClaimsSources", "[]ExternalClaimsSource">> >>

Issuer == <<
    <<"URL", "string">>, <<"DiscoveryURL", "string">>,
    <<"CertificateAuthority", "string">>, <<"Audiences", "[]string">>,
    <<"AudienceMatchPolicy", "AudienceMatchPolicyType">> >>

ClaimValidationRule == <<
    <<"Claim", "string">>, <<"RequiredValue", "string">>,
    <<"Expression", "string">>, <<"Message", "string">> >>

ClaimMappings == <<
    <<"Username", "PrefixedClaimOrExpression">>,
    <<"Groups", "PrefixedClaimOrExpression">>,
    <<"UID", "ClaimOrExpression">>, <<"Extra", "[]ExtraMapping">> >>

PrefixedClaimOrExpression == <<
    <<"Claim", "string">>, <<"Prefix", "*string">>,
    <<"Expression", "string">> >>

ClaimOrExpression == << <<"Claim", "string">>, <<"Expression", "string">> >>

ExtraMapping == << <<"Key", "string">>, <<"ValueExpression", "string">> >>

UserValidationRule == <<
    <<"Expression", "string">>, <<"Message", "string">> >>

ExternalClaimsSource == <<
    <<"Authentication", "*Authentication">>, <<"TLS", "*TLS">>,
    <<"URL", "*SourceURL">>, <<"Mappings", "[]SourcedClaimMapping">>,
    <<"Conditions", "[]ExternalSourceCondition">> >>

TLS == << <<"CertificateAuthority", "*string">> >>

Authentication == <<
    <<"Type", "*AuthenticationType">>,
    <<"ClientCredential", "*ClientCredentialConfig">> >>

ClientCredentialConfig == <<
    <<"ClientID", "string">>, <<"ClientSecret", "string">>,
    <<"TokenEndpoint", "string">>, <<"Scopes", "[]string">>,
    <<"TLS", "*TLS">> >>

SourceURL == << <<"Hostname", "*string">>, <<"PathExpression", "*string">> >>

SourcedClaimMapping == <<
    <<"Name", "*string">>, <<"Expression", "*string">> >>

ExternalSourceCondition == << <<"Expression", "*string">> >>
=============================================================================
