------------------------- MODULE MCJWTAuthenticator -------------------------
(* JWTAuthenticator for TLC: two sources, the second of which may depend   *)
(* on a claim of the first.  The groups claim doubles as the jti claim,    *)
(* which adds the credential ID without a fourth claim.                    *)
EXTENDS JWTAuthenticator, TLC

CONSTANTS email, groupsClaim, verified, s, u, empty

MCNames == {email, groupsClaim, verified}

MCStrings == {s, u, empty}

Has(n) == [op |-> "has", claim |-> n, arg |-> Nil]
Lacks(n) == [op |-> "lacks", claim |-> n, arg |-> Nil]
Equals(n, v) == [op |-> "equals", claim |-> n, arg |-> v]
Get(n) == [op |-> "get", claim |-> n, arg |-> Nil]

Source1(conditions) ==
    [conditions |-> conditions, path |-> {}, authentication |-> "RequestProvidedToken",
     mappings |-> {verified}]

Source2(conditions) ==
    [conditions |-> conditions, path |-> {email}, authentication |-> "ClientCredential",
     mappings |-> {groupsClaim}]

(* One source that maps two claims.                                        *)
Source3 ==
    [conditions |-> {Has(email), Lacks(groupsClaim), Lacks(verified)}, path |-> {email},
     authentication |-> "Anonymous", mappings |-> {groupsClaim, verified}]

MCSources ==
    {<<Source1(c1), Source2(c2)>> :
        c1 \in {{}, {Lacks(verified)}},
        c2 \in {{}, {Lacks(groupsClaim), Has(email)}, {Equals(verified, s)}, {Get(verified)}}}
    \cup {<<Source3>>, <<>>}

MCMappings(kinds, n) == [kind : kinds, claim : {n}]

Configuration(sources, username, grps, extra, rules) ==
    [sources |-> sources, username |-> username, groups |-> grps,
     uid |-> [kind |-> "claim", claim |-> email],
     extra |-> extra, required |-> {}, claimRules |-> rules, deniedUsers |-> {u}]

MCConfigurations ==
    {Configuration(ss, un, gr, ex, {}) :
        ss \in MCSources,
        un \in MCMappings({"claim", "expression"}, email),
        gr \in MCMappings({"none", "claim", "expression"}, groupsClaim),
        ex \in {{}}}
    \cup {[Configuration(ss, [kind |-> "claim", claim |-> email],
                         [kind |-> "claim", claim |-> groupsClaim], {verified}, {Has(groupsClaim)})
             EXCEPT !.required = {[claim |-> verified, value |-> s]},
                    !.uid.kind = "none"] : ss \in MCSources}

(* The example of external-claims-sources.md: groups come from one source  *)
(* and are mapped by an expression.                                        *)
DocumentedConfigurations ==
    {Configuration(<<Source2({})>>, [kind |-> "claim", claim |-> email],
                   [kind |-> "expression", claim |-> groupsClaim], {}, {})}
=============================================================================
