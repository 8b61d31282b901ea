------------------------ MODULE MCLoadConfiguration -------------------------
(***************************************************************************)
(* Configurations around one that is valid: every field of two sources in  *)
(* turn with each value its rules tell apart, in pairs; the fields of the  *)
(* authenticator likewise, one at a time; and the limits on lengths, each  *)
(* met and exceeded.                                                       *)
(***************************************************************************)
EXTENDS LoadConfiguration, TLC

Letters == <<"a", "b", "c", "d", "e", "f", "g", "h", "i",
             "j", "k", "l", "m", "n", "o", "p", "q">>

MCLength == [n \in {Letters[i] : i \in DOMAIN Letters} \cup {"", "Team", "n256", "n257"} |->
                CASE n = "n256" -> 256 [] n = "n257" -> 257 [] OTHER -> 1]
MCNameRegex == {Letters[i] : i \in DOMAIN Letters} \cup {"n256", "n257"}
MCHostnameRegex == {"host", "host:65535", "host:65536"}
MCPort == ("host" :> 0) @@ ("host:65535" :> 65535) @@ ("host:65536" :> 65536)
MCScopeRegex == {"api"}
MCPrintableASCII == {"client", "secret"}
MCCertificates == {"pem"}
MCSomeCertificates == {"pem", "pem and more"}
MCExtraKeys == {"example.org/team"}

URL(scheme, host, path, query, fragment, user) ==
    [Scheme |-> scheme, Host |-> host, Path |-> path,
     RawQuery |-> query, Fragment |-> fragment, User |-> user]

MCParseURL ==
    ("https://one" :> URL("https", "one", "", "", "", Nil)) @@
    ("https://one/" :> URL("https", "one", "/", "", "", Nil)) @@
    ("https://two" :> URL("https", "two", "", "", "", Nil)) @@
    ("https://docs" :> URL("https", "docs", "", "", "", Nil)) @@
    ("https://idp/token" :> URL("https", "idp", "/token", "", "", Nil)) @@
    ("http://idp/token" :> URL("http", "idp", "/token", "", "", Nil)) @@
    ("https:/token" :> URL("https", "", "/token", "", "", Nil)) @@
    ("https://idp" :> URL("https", "idp", "", "", "", Nil)) @@
    ("https://idp/token?q" :> URL("https", "idp", "/token", "q", "", Nil)) @@
    ("https://idp/token#f" :> URL("https", "idp", "/token", "", "f", Nil)) @@
    ("https://me@idp/token" :> URL("https", "idp", "/token", "", "", "me")) @@
    ("" :> URL("", "", "", "", "", Nil)) @@
    ("%" :> Nil)

MCTrimSlash == [u \in DOMAIN MCParseURL |-> IF u = "https://one/" THEN "https://one" ELSE u]

Conditions == [i \in DOMAIN Letters |-> [Expression |-> Letters[i]]]

(* The letters are claims of type bool; "]" does not compile.              *)
MCTypeOf ==
    LET none == [e \in {"", "]", "claims.sub", "claims.email", "claims.email_verified",
                        "response.body", "user.username != ''"} |-> Nil]
        bools == [e \in {Letters[i] : i \in DOMAIN Letters} |-> "bool"]
    IN [claims |-> [none EXCEPT !["claims.sub"] = "string", !["claims.email"] = "string",
                                !["claims.email_verified"] = "bool"] @@ bools,
        response |-> [none EXCEPT !["response.body"] = "map"],
        user |-> [none EXCEPT !["user.username != ''"] = "bool"]]

MCUsesEmail == {"claims.email"}
MCUsesEmailVerified == {"claims.email_verified"}

-----------------------------------------------------------------------------
Vary(r, field, values) == {[r EXCEPT ![field] = v] : v \in values}

TLSs == {Nil} \cup {[CertificateAuthority |-> ca] :
                       ca \in {Nil, "", "pem", "pem and more", "rubbish"}}

Credential == [ClientID |-> "client", ClientSecret |-> "secret",
               TokenEndpoint |-> "https://idp/token", Scopes |-> <<>>, TLS |-> Nil]

Credentials ==
    Vary(Credential, "ClientID", {"client", "", "\n"})
    \cup Vary(Credential, "ClientSecret", {"", "\n"})
    \cup Vary(Credential, "TokenEndpoint", DOMAIN MCParseURL)
    \cup Vary(Credential, "Scopes", {<<"api">>, <<"api", "">>, <<"a b">>})
    \cup Vary(Credential, "TLS", TLSs)

ClientCredential(c) == [Type |-> "ClientCredential", ClientCredential |-> c]

Authentications ==
    {Nil} \cup {ClientCredential(c) : c \in Credentials \cup {Nil}}
    \cup [Type : {Nil, "RequestProvidedToken", "Other"}, ClientCredential : {Nil, Credential}]

Mapping(name) == [Name |-> name, Expression |-> "response.body"]

Source(name) ==
    [Authentication |-> Nil, TLS |-> Nil,
     URL |-> [Hostname |-> "host", PathExpression |-> "claims.sub"],
     Mappings |-> <<Mapping(name)>>, Conditions |-> <<>>]

Sources(name) ==
    LET s == Source(name)
        mapping == Mapping(name)
    IN Vary(s, "Authentication", Authentications)
       \cup Vary(s, "TLS", TLSs)
       \cup Vary(s, "URL", {Nil} \cup
              Vary(s.URL, "Hostname", {Nil, "", "HOST", "host:65535", "host:65536"})
              \cup Vary(s.URL, "PathExpression", {Nil, "", "]", "response.body"}))
       \cup Vary(s, "Mappings", {<<>>, <<mapping, mapping>>, <<mapping, Mapping("q")>>}
              \cup {<<m>> : m \in Vary(mapping, "Name", {Nil, "", "Team", "n256", "n257"})
                              \cup Vary(mapping, "Expression", {Nil, "", "]", "claims.sub"})}
              \cup {[i \in 1..n |-> Mapping(Letters[i])] : n \in {16, 17}})
       \cup Vary(s, "Conditions", {SubSeq(Conditions, 1, n) : n \in {1, 2, 16, 17}}
              \cup {<<Conditions[1], c>> : c \in
                      {Conditions[1]} \cup {[Expression |-> e] : e \in {Nil, "", "]", "claims.sub"}}})

Issuer == [URL |-> "https://one", DiscoveryURL |-> "", CertificateAuthority |-> "",
           Audiences |-> <<"padlok">>, AudienceMatchPolicy |-> ""]

Issuers ==
    {Nil}
    \cup Vary(Issuer, "URL", DOMAIN MCParseURL)
    \cup Vary(Issuer, "DiscoveryURL", DOMAIN MCParseURL)
    \cup Vary(Issuer, "CertificateAuthority", {"pem", "pem and more"})
    \cup {[i EXCEPT !.AudienceMatchPolicy = p] : p \in {"", "MatchAny", "MatchAll"},
             i \in Vary(Issuer, "Audiences",
                        {<<"padlok">>, <<>>, <<"">>, <<"x", "x">>, <<"x", "y">>})}

ByClaim(claim) == [Claim |-> claim, Prefix |-> "", Expression |-> ""]
ByExpression(e) == [Claim |-> "", Prefix |-> Nil, Expression |-> e]

ClaimMappings == [Username |-> ByClaim("sub"), Groups |-> ByClaim(""),
                  UID |-> [Claim |-> "", Expression |-> ""], Extra |-> <<>>]

Prefixed == [Claim : {"", "sub"}, Prefix : {Nil, "", "oidc:"},
             Expression : {"", "claims.sub", "claims.email", "]"}]

Extra(key, e) == [Key |-> key, ValueExpression |-> e]

Extras == {<<Extra("team", "claims.sub")>>, <<Extra("example.org/team", "")>>,
           <<Extra("example.org/team", "claims.email_verified")>>,
           <<Extra("example.org/team", "a"), Extra("example.org/team", "b")>>}

Mappings ==
    {Nil}
    \cup Vary(ClaimMappings, "Username", Prefixed)
    \cup Vary(ClaimMappings, "Groups", Prefixed)
    \cup Vary(ClaimMappings, "UID",
              [Claim : {"", "uid"}, Expression : {"", "claims.sub", "response.body"}])
    \cup {[m EXCEPT !.Username = ByExpression("claims.email")] :
             m \in Vary(ClaimMappings, "Extra", Extras)}

Rule == [Claim : {"", "hd"}, RequiredValue : {"", "example.org"},
         Expression : {"", "a", "claims.sub"}, Message : {"", "refused"}]

JWT(issuer, sources) ==
    [Issuer |-> issuer, ClaimValidationRules |-> <<>>, ClaimMappings |-> ClaimMappings,
     UserValidationRules |-> <<>>, ExternalClaimsSources |-> sources]

JWTs ==
    LET j == JWT(Issuer, <<Source("a")>>)
    IN Vary(j, "Issuer", Issuers)
       \cup Vary(j, "ClaimMappings", Mappings)
       \cup Vary(j, "ClaimValidationRules",
                 {<<r>> : r \in Rule} \cup {<<r, r>> : r \in Rule})
       \cup Vary(j, "UserValidationRules",
                 {<<[Expression |-> e, Message |-> ""]>> : e \in {"", "claims.sub", "user.username != ''"}})

TwoIssuers ==
    {<<JWT([Issuer EXCEPT !.DiscoveryURL = "https://docs"], <<>>),
       JWT([Issuer EXCEPT !.URL = u, !.DiscoveryURL = d], <<Source("a")>>)>> :
        u \in {"https://one", "https://one/", "https://two"}, d \in {"", "https://docs"}}

ManySources ==
    {JWT(Issuer, [i \in 1..n |-> [Source(Letters[i]) EXCEPT
                    !.Authentication = ClientCredential(Credential)]]) : n \in 5..7}

MCFiles ==
    {[JWT |-> js] : js \in
        {<<>>} \cup TwoIssuers \cup {<<j>> : j \in JWTs \cup ManySources}
        \cup {<<JWT(Issuer, <<s, t>>)>> : s \in Sources("a"), t \in Sources("b") \cup {Source("a")}}}
=============================================================================
