-------------------------- MODULE JWTAuthenticator --------------------------
(***************************************************************************)
(* jwtAuthenticator.AuthenticateToken for one verified token: distributed  *)
(* claims, external claims sources, claim mappings and validation rules.   *)
(*                                                                         *)
(* The claims of a request are a map private to it, which the sources are  *)
(* given one after the other and may add to.  What the network does is the *)
(* environment's choice: every request to the distributed claims endpoint, *)
(* to a token endpoint or to a source may fail.                            *)
(*                                                                         *)
(* A claim is Absent, Malformed (raw bytes that are not JSON) or a value:  *)
(* a string, or True for the other types (null is left out).  A CEL        *)
(* expression is seen as the claim it refers to and what it asks of it;    *)
(* evaluating one that selects an absent claim, or touches a malformed     *)
(* one, is an error.                                                       *)
(***************************************************************************)
EXTENDS Naturals, Sequences

CONSTANTS Names,          \* claim names
          Strings,        \* string values
          Unquotable,     \* strings for which Go's %q is not JSON
          EmptyString,
          Absent, Malformed, True, Nil, Error, Rejected,
          Email, EmailVerified, Jti,   \* claim names the code knows
          Configurations  \* the configurations of the authenticator

ASSUME ValuesAssumption ==
    /\ EmptyString \in Strings \ Unquotable
    /\ Unquotable \subseteq Strings
    /\ Absent # Malformed
    /\ True \notin Strings
    /\ {Absent, Malformed, Nil, Error} \cap (Strings \cup {True}) = {}

Values == Strings \cup {True}

Claims == [Names -> Values \cup {Absent, Malformed}]

Ops == {"has", "lacks", "equals", "get"}

Expressions == [op : Ops, claim : Names, arg : Strings \cup {Nil}]

(* An external claims source: the conditions to consult it, the claims its *)
(* path refers to, how it authenticates, and the claims it maps.           *)
Source == [conditions : SUBSET Expressions, path : SUBSET Names,
           authentication : {"Anonymous", "RequestProvidedToken", "ClientCredential"},
           mappings : SUBSET Names]

(* A claim mapping takes a claim by name or evaluates a CEL expression.    *)
Mapping == [kind : {"none", "claim", "expression"}, claim : Names]

ASSUME ConfigurationsAssumption ==
    \A c \in Configurations :
        /\ c.sources \in Seq(Source)
        /\ \A j, k \in 1..Len(c.sources) :
             j # k => c.sources[j].mappings \cap c.sources[k].mappings = {}
        /\ {c.username, c.groups, c.uid} \subseteq Mapping
        /\ c.username.kind # "none"
        /\ c.extra \subseteq Names
        /\ c.required \subseteq [claim : Names, value : Strings]
        /\ c.claimRules \subseteq Expressions
        /\ c.deniedUsers \subseteq Strings

VARIABLES config,       \* chosen once
          distributed,  \* what the token says of a distributed groups claim
          claims,       \* the claims of the request
          base,         \* what they were when external claims expansion began
          next,         \* the next source to consult
          merged,       \* the response of every source that was merged
          failed,       \* the sources that were wanted and could not be used
          stage,        \* "distributed", "expand" or "done"
          result        \* Nil, Rejected or the user

vars == <<config, distributed, claims, base, next, merged, failed, stage, result>>

Claim(c, n) == IF n \in Names THEN c[n] ELSE Absent

-----------------------------------------------------------------------------
(* Expressions.                                                            *)

(* A boolean expression: "true", "false" or "error".                       *)
EvalBool(e, c) ==
    LET v == c[e.claim]
        Bool(b) == IF b THEN "true" ELSE "false"
    IN CASE v = Malformed -> "error"
         [] e.op = "has" -> Bool(v # Absent)
         [] e.op = "lacks" -> Bool(v = Absent)
         [] e.op = "equals" -> IF v = Absent THEN "error" ELSE Bool(v = e.arg)
         [] e.op = "get" -> IF v = True THEN "true" ELSE "error"

AllTrue(es, c) == \A e \in es : EvalBool(e, c) = "true"

-----------------------------------------------------------------------------
(* The parts of a user, each of which may be Error.                        *)

StringClaim(c, n) == IF Claim(c, n) \in Strings THEN Claim(c, n) ELSE Error

(* An email is used only if it is not marked as unverified.                *)
EmailUnverified(c, m) ==
    /\ m.kind = "claim"
    /\ m.claim = Email
    /\ Claim(c, EmailVerified) \notin {Absent, True}

GetUsername(c, m) ==
    IF \/ m.kind = "expression" /\ Claim(c, m.claim) = EmptyString
       \/ EmailUnverified(c, m)
    THEN Error ELSE StringClaim(c, m.claim)

(* A groups claim may be missing; an expression that selects it may not.   *)
GetGroups(c, m) ==
    LET v == Claim(c, m.claim)
    IN CASE m.kind = "none" -> {}
         [] m.kind = "claim" /\ v = Absent -> {}
         [] m.kind = "claim" /\ v \in Strings -> {v}
         [] m.kind = "expression" /\ v \in Strings -> {v} \ {EmptyString}
         [] OTHER -> Error

GetUID(c, m) == IF m.kind = "none" THEN EmptyString ELSE StringClaim(c, m.claim)

(* A credential ID that is empty or does not decode is left out.           *)
CredentialID(c) ==
    IF Claim(c, Jti) \in Strings \ {EmptyString} THEN Claim(c, Jti) ELSE Nil

GetExtra(c, ns) ==
    IF \E n \in ns : Claim(c, n) \notin Strings THEN Error
    ELSE {[key |-> n, value |-> Claim(c, n)] : n \in {m \in ns : Claim(c, m) # EmptyString}}

(* The user the claims map to, or Rejected.                                *)
MapClaims(cfg, c) ==
    LET username == GetUsername(c, cfg.username)
        groups == GetGroups(c, cfg.groups)
        uid == GetUID(c, cfg.uid)
        extra == GetExtra(c, cfg.extra)
    IN IF \/ username = Error \/ groups = Error \/ uid = Error \/ extra = Error
          \/ \E q \in cfg.required : Claim(c, q.claim) # q.value
          \/ ~AllTrue(cfg.claimRules, c)
          \/ username \in cfg.deniedUsers
       THEN Rejected
       ELSE [username |-> username, groups |-> groups, uid |-> uid,
             extra |-> extra, credentialID |-> CredentialID(c)]

-----------------------------------------------------------------------------
Init ==
    /\ config \in Configurations
    /\ distributed \in {"none", "endpoint", "broken"}
    /\ claims \in [Names -> Values \cup {Absent}]
    /\ base = claims
    /\ next = 1
    /\ merged = <<>>
    /\ failed = {}
    /\ stage = "distributed"
    /\ result = Nil

(* claimResolver.expand: only a groups claim taken by name, which the      *)
(* token lacks but refers to an endpoint for, is looked up.                *)
HasDistributedClaim ==
    /\ config.groups.kind = "claim"
    /\ claims[config.groups.claim] = Absent
    /\ distributed # "none"

NothingDistributed ==
    /\ stage = "distributed"
    /\ ~HasDistributedClaim
    /\ stage' = "expand"
    /\ UNCHANGED <<config, distributed, claims, base, next, merged, failed, result>>

ResolveDistributed(v) ==
    /\ stage = "distributed"
    /\ HasDistributedClaim
    /\ distributed = "endpoint"
    /\ claims' = [claims EXCEPT ![config.groups.claim] = v]
    /\ base' = claims'
    /\ stage' = "expand"
    /\ UNCHANGED <<config, distributed, next, merged, failed, result>>

(* The reference is broken, or the endpoint or its token cannot be used.   *)
DistributedFails ==
    /\ stage = "distributed"
    /\ HasDistributedClaim
    /\ stage' = "done"
    /\ result' = Rejected
    /\ UNCHANGED <<config, distributed, claims, base, next, merged, failed>>

-----------------------------------------------------------------------------
(* doClaimsExpansion: ExpandClaims of one source after the other.          *)

source == config.sources[next]

Expanding == stage = "expand" /\ next <= Len(config.sources)

(* Wrong: one satisfied condition is enough.                               *)
Wanted_Any(s, c) ==
    s.conditions = {} \/ \E e \in s.conditions : EvalBool(e, c) = "true"

(* evaluateConditionsWithClaims                                            *)
Wanted(s, c) == AllTrue(s.conditions, c)

(* A condition is false or cannot be evaluated.                            *)
NotWanted ==
    /\ Expanding
    /\ ~Wanted(source, claims)
    /\ next' = next + 1
    /\ UNCHANGED <<config, distributed, claims, base, merged, failed, stage, result>>

(* Wrong: a source that fails ends the expansion.                          *)
Fail_EndsExpansion ==
    /\ failed' = failed \cup {next}
    /\ next' = Len(config.sources) + 1
    /\ UNCHANGED <<config, distributed, claims, base, merged, stage, result>>

Fail ==
    /\ failed' = failed \cup {next}
    /\ next' = next + 1
    /\ UNCHANGED <<config, distributed, claims, base, merged, stage, result>>

(* Wrong: the error of GetAccessToken is returned.                         *)
NoAccessToken_Rejects ==
    /\ Expanding
    /\ Wanted(source, claims)
    /\ source.authentication = "ClientCredential"
    /\ failed' = failed \cup {next}
    /\ stage' = "done"
    /\ result' = Rejected
    /\ UNCHANGED <<config, distributed, claims, base, next, merged>>

(* GetAccessToken fails: only client credentials have to be fetched.       *)
NoAccessToken ==
    /\ Expanding
    /\ Wanted(source, claims)
    /\ source.authentication = "ClientCredential"
    /\ Fail

(* getURLWithClaims: the path is a list of the strings it refers to.       *)
HasURL(s, c) == \A n \in s.path : c[n] \in Strings

NoURL ==
    /\ Expanding
    /\ Wanted(source, claims)
    /\ ~HasURL(source, claims)
    /\ Fail

(* Wrong: the mappings before the one that fails are kept.                 *)
NoResponse_Partial ==
    /\ Expanding
    /\ Wanted(source, claims)
    /\ HasURL(source, claims)
    /\ \E ns \in SUBSET source.mappings, v \in Strings :
         claims' = [n \in Names |-> IF n \in ns THEN v ELSE claims[n]]
    /\ failed' = failed \cup {next}
    /\ next' = next + 1
    /\ UNCHANGED <<config, distributed, base, merged, stage, result>>

(* The request fails or times out, the status is not 200, the body is not  *)
(* JSON, or one of the mappings fails or does not give a string.           *)
NoResponse ==
    /\ Expanding
    /\ Wanted(source, claims)
    /\ HasURL(source, claims)
    /\ Fail

(* Wrong: a mapping may give any value.                                    *)
Responses_AnyType(s) == [s.mappings -> Values]

(* getClaimsFromResponse: what a response gives the mappings of a source;  *)
(* each must be a string.                                                  *)
Responses(s) == [s.mappings -> Strings]

(* getClaimsFromResponse writes a claim as fmt's %q of its value.          *)
Quote(v) == IF v \in Unquotable THEN Malformed ELSE v

(* maps.Copy: the claims of a source replace those of the token.           *)
Merge(response) ==
    /\ Expanding
    /\ Wanted(source, claims)
    /\ HasURL(source, claims)
    /\ claims' = [n \in Names |->
                    IF n \in source.mappings THEN Quote(response[n]) ELSE claims[n]]
    /\ merged' = [j \in DOMAIN merged \cup {next} |->
                    IF j = next THEN response ELSE merged[j]]
    /\ next' = next + 1
    /\ UNCHANGED <<config, distributed, base, failed, stage, result>>

Expand ==
    \/ NotWanted \/ NoAccessToken \/ NoURL \/ NoResponse
    \/ Expanding /\ \E response \in Responses(source) : Merge(response)

(* All sources have been consulted: the claims are mapped and checked.     *)
Decide ==
    /\ stage = "expand"
    /\ next > Len(config.sources)
    /\ stage' = "done"
    /\ result' = MapClaims(config, claims)
    /\ UNCHANGED <<config, distributed, claims, base, next, merged, failed>>

-----------------------------------------------------------------------------
Next ==
    \/ NothingDistributed
    \/ \E v \in Values : ResolveDistributed(v)
    \/ DistributedFails
    \/ Expand
    \/ Decide

Spec == Init /\ [][Next]_vars

-----------------------------------------------------------------------------
(* Types; a response that is merged gives every mapping of its source a    *)
(* string (resolver.go:382).                                               *)
TypeOK ==
    /\ config \in Configurations
    /\ distributed \in {"none", "endpoint", "broken"}
    /\ claims \in Claims
    /\ base \in [Names -> Values \cup {Absent}]
    /\ next \in 1..Len(config.sources) + 1
    /\ failed \subseteq 1..next - 1
    /\ DOMAIN merged \subseteq 1..next - 1
    /\ \A j \in DOMAIN merged : merged[j] \in [config.sources[j].mappings -> Strings]
    /\ stage \in {"distributed", "expand", "done"}

(* A source contributes all of its claims or none: at any time the claims  *)
(* are those of the token, with the whole response of every source that    *)
(* succeeded and nothing of a source that failed half way, was skipped or  *)
(* has not been asked yet (resolver.go:206-275).                           *)
WholeSources ==
    /\ failed \cap DOMAIN merged = {}
    /\ \A n \in Names :
         \/ claims[n] = base[n] /\ \A j \in DOMAIN merged : n \notin config.sources[j].mappings
         \/ \E j \in DOMAIN merged :
               n \in config.sources[j].mappings /\ claims[n] = Quote(merged[j][n])

(* Graceful degradation, as far as it goes: if no source contributed, for  *)
(* whatever reasons, the token is decided exactly as if there were no      *)
(* sources (resolver.go:199-204).                                          *)
OutageLeavesTokenAlone ==
    stage = "done" /\ merged = <<>> /\ ~HasDistributedClaim
        => result = MapClaims(config, base)

(* "Admins can use the sourcing conditions configuration option as a guard *)
(* against accidentally" overwriting claims of the token                   *)
(* (resolver.go:270): a source on condition that the token lacks what it   *)
(* maps replaces nothing, whatever other sources do.                       *)
Guarded(s) ==
    \A n \in s.mappings : \E e \in s.conditions : e.op = "lacks" /\ e.claim = n

GuardPreventsOverride ==
    \A j \in DOMAIN merged : Guarded(config.sources[j]) =>
        \A n \in config.sources[j].mappings : base[n] = Absent

(* Failures stay local: a source whose conditions are about no claim of    *)
(* another source is consulted exactly if the token meets them, whichever  *)
(* sources before it failed, were skipped or were merged                   *)
(* (resolver.go:191-204, oidc_patch.go:39).                                *)
Independent(j) ==
    \A k \in DOMAIN config.sources \ {j} : \A e \in config.sources[j].conditions :
        e.claim \notin config.sources[k].mappings

FailuresStayLocal ==
    \A j \in 1..next - 1 : Independent(j) =>
        (j \in failed \cup DOMAIN merged <=> Wanted(config.sources[j], base))

-----------------------------------------------------------------------------
(* What documents say that the code does not do.                           *)

(* "If an external source is unavailable or returns an error,              *)
(* authentication is not rejected" (external-claims-sources.md:24): no     *)
(* token is rejected that would be accepted had a source that failed       *)
(* answered.                                                               *)
AcceptedHad(j, response) ==
    MapClaims(config, [n \in Names |->
        IF n \in config.sources[j].mappings THEN Quote(response[n]) ELSE claims[n]]) # Rejected

UnavailableIsNotRejected ==
    stage = "done" /\ result = Rejected =>
        \A j \in failed : \A response \in Responses(config.sources[j]) :
            ~AcceptedHad(j, response)

(* "Token claims (external claims are not yet available)"                  *)
(* (cel-expressions.md:15): what conditions a source is merged under is    *)
(* decided by the claims of the token.                                     *)
ConditionsSeeTokenClaims ==
    \A j \in DOMAIN merged : Wanted(config.sources[j], base)

(* "claim mapping expressions can reference externally sourced claims the  *)
(* same way they reference token claims" (external-claims-sources.md:13):  *)
(* a claim that was merged can be decoded.                                 *)
MergedClaimsDecode ==
    \A n \in Names : claims[n] # Malformed
=============================================================================
