------------------------ MODULE AuthenticationTypes -------------------------
(***************************************************************************)
(* The structs of the internal configuration types, each as its fields in  *)
(* memory order, with their Go types.  The order matters: the generated    *)
(* conversion from v1alpha1 reinterprets the memory of one struct as the   *)
(* other, field by field in this order.                                    *)
(***************************************************************************)

JWTAuthenticator == <<
    <<"Issuer", "*Issuer">>,
    <<"ClaimValidationRules", "[]ClaimValidationRule">>,
    <<"ClaimMappings", "*ClaimMappings">>,
    <<"UserValidationRules", "[]UserValidationRule">>,
    <<"ExternalClaimsSources", "[]ExternalClaimsSource">> >>

Issuer == <<
    <<"URL", "string">>, <<"DiscoveryURL", "string">>,
    <<"CertificateAuthority", "string">>, <<"Audiences", "[]string">>,
    <<"AudienceMatchPolicy", "AudienceMatchPolicyType">> >>

(* Wrong: the fields of one version are reordered.                         *)
ClaimValidationRule_Reordered == <<
    <<"RequiredValue", "string">>, <<"Claim", "string">>,
    <<"Expression", "string">>, <<"Message", "string">> >>

ClaimValidationRule == <<
    <<"Claim", "string">>, <<"RequiredValue", "string">>,
    <<"Expression", "string">>, <<"Message", "string">> >>

ClaimMappings == <<
    <<"Username", "PrefixedClaimOrExpression">>,
    <<"Groups", "PrefixedClaimOrExpression">>,
    <<"UID", "ClaimOrExpression">>, <<"Extra", "[]ExtraMapping">> >>

PrefixedClaimOrExpression == <<
    <<"Claim", "string">>, <<"Prefix", "*string">>,
    <<"Expression", "string">> >>

ClaimOrExpression == << <<"Claim", "string">>, <<"Expression", "string">> >>

ExtraMapping == << <<"Key", "string">>, <<"ValueExpression", "string">> >>

UserValidationRule == <<
    <<"Expression", "string">>, <<"Message", "string">> >>

ExternalClaimsSource == <<
    <<"Authentication", "*Authentication">>, <<"TLS", "*TLS">>,
    <<"URL", "*SourceURL">>, <<"Mappings", "[]SourcedClaimMapping">>,
    <<"Conditions", "[]ExternalSourceCondition">> >>

TLS == << <<"CertificateAuthority", "*string">> >>

Authentication == <<
    <<"Type", "*AuthenticationType">>,
    <<"ClientCredential", "*ClientCredentialConfig">> >>

ClientCredentialConfig == <<
    <<"ClientID", "string">>, <<"ClientSecret", "string">>,
    <<"TokenEndpoint", "string">>, <<"Scopes", "[]string">>,
    <<"TLS", "*TLS">> >>

SourceURL == << <<"Hostname", "*string">>, <<"PathExpression", "*string">> >>

SourcedClaimMapping == <<
    <<"Name", "*string">>, <<"Expression", "*string">> >>

ExternalSourceCondition == << <<"Expression", "*string">> >>
=============================================================================
