----------------------- MODULE JWTAuthenticatorProofs -----------------------
(***************************************************************************)
(* What external claims may do to a token, for any claim names, values,    *)
(* sources and configurations.                                             *)
(*                                                                         *)
(* The invariant adds to the properties what happens at the ends of the    *)
(* expansion: before it the claims are those of the token and nothing is   *)
(* merged, and after it the result is what the claims at that time map to, *)
(* unless a distributed claim could not be looked up.                      *)
(***************************************************************************)
EXTENDS JWTAuthenticator, TLAPS

NothingYet == stage = "distributed" => next = 1 /\ merged = <<>> /\ claims = base

Decided ==
    stage = "done" => HasDistributedClaim \/ result = MapClaims(config, claims)

ClaimsInv ==
    /\ TypeOK /\ WholeSources /\ GuardPreventsOverride /\ FailuresStayLocal
    /\ NothingYet /\ Decided

-----------------------------------------------------------------------------
(* What a source writes is never Absent (resolver.go:386).                 *)
LEMMA QuotePresent ==
    ASSUME NEW v \in Strings
    PROVE  Quote(v) \in Strings \cup {Malformed} /\ Quote(v) # Absent
  BY ValuesAssumption DEF Quote

(* The sources of the configuration in use are a sequence, and no two of   *)
(* them map the same claim (validation.go).                                *)
LEMMA SourcesOfConfig ==
    ASSUME TypeOK
    PROVE  /\ Len(config.sources) \in Nat
           /\ config.sources \in [1..Len(config.sources) -> Source]
           /\ \A j, k \in 1..Len(config.sources) :
                j # k => config.sources[j].mappings \cap config.sources[k].mappings = {}
  BY ConfigurationsAssumption DEF TypeOK

(* A source on condition that the claims lack what it maps is consulted    *)
(* only if they do (resolver.go:199-204).                                  *)
LEMMA GuardHolds ==
    ASSUME NEW s, NEW c, Wanted(s, c), Guarded(s), NEW n \in s.mappings
    PROVE  c[n] = Absent
<1>1. PICK e \in s.conditions : e.op = "lacks" /\ e.claim = n
  BY DEF Guarded
<1>2. EvalBool(e, c) = "true"
  BY DEF Wanted, AllTrue
<1> QED
  BY <1>1, <1>2 DEF EvalBool

(* Conditions see only the claims that they are about.                     *)
LEMMA WantedSame ==
    ASSUME NEW s, NEW c, NEW d, \A e \in s.conditions : c[e.claim] = d[e.claim]
    PROVE  Wanted(s, c) <=> Wanted(s, d)
<1>1. \A e \in s.conditions : EvalBool(e, c) = EvalBool(e, d)
  BY DEF EvalBool
<1> QED
  BY <1>1 DEF Wanted, AllTrue

(* No source has written what the conditions of one that depends on no     *)
(* other are about.                                                        *)
LEMMA IndependentSeesToken ==
    ASSUME TypeOK, WholeSources, Expanding, Independent(next)
    PROVE  Wanted(source, claims) <=> Wanted(source, base)
<1>1. Len(config.sources) \in Nat /\ next \in 1..Len(config.sources)
  BY SourcesOfConfig DEF TypeOK, Expanding
<1>2. DOMAIN config.sources = 1..Len(config.sources) /\ config.sources[next] \in Source
  BY <1>1, SourcesOfConfig
<1>3. DOMAIN merged \subseteq DOMAIN config.sources \ {next}
  BY <1>1, <1>2 DEF TypeOK
<1>4. ASSUME NEW e \in config.sources[next].conditions
      PROVE  claims[e.claim] = base[e.claim]
  <2>1. e.claim \in Names
    BY <1>2 DEF Source, Expressions
  <2>2. \A j \in DOMAIN merged : e.claim \notin config.sources[j].mappings
    BY <1>3 DEF Independent
  <2> QED
    BY <2>1, <2>2 DEF WholeSources
<1> QED
  BY <1>4, WantedSame DEF source

(* Whatever becomes of a source, those after it are consulted as before    *)
(* (oidc_patch.go:39).                                                     *)
LEMMA StepStaysLocal ==
    ASSUME ClaimsInv, Expanding, next' = next + 1, UNCHANGED <<config, base>>,
           (failed \cup DOMAIN merged)' =
             (failed \cup DOMAIN merged) \cup (IF Wanted(source, claims) THEN {next} ELSE {})
    PROVE  FailuresStayLocal'
<1>1. next \in Nat /\ 1..next' - 1 = (1..next - 1) \cup {next}
  BY SourcesOfConfig DEF ClaimsInv, TypeOK, Expanding
<1>2. next \notin failed \cup DOMAIN merged
  BY <1>1 DEF ClaimsInv, TypeOK
<1>3. ASSUME NEW j \in 1..next - 1, Independent(j)
      PROVE  j \in (failed \cup DOMAIN merged)' <=> Wanted(config.sources[j], base)
  <2>1. j # next
    BY <1>1
  <2>2. j \in failed \cup DOMAIN merged <=> Wanted(config.sources[j], base)
    BY <1>3 DEF ClaimsInv, FailuresStayLocal
  <2> QED
    BY <2>1, <2>2
<1>4. ASSUME Independent(next)
      PROVE  next \in (failed \cup DOMAIN merged)' <=> Wanted(config.sources[next], base)
  BY <1>2, <1>4, IndependentSeesToken DEF ClaimsInv, source
<1>5. \A j : Independent(j)' <=> Independent(j)
  BY DEF Independent
<1>6. \A j : Wanted(config.sources[j], base)' <=> Wanted(config.sources[j], base)
  BY DEF Wanted, AllTrue, EvalBool
<1> QED
  BY <1>1, <1>3, <1>4, <1>5, <1>6 DEF FailuresStayLocal

(* A request begins with the claims of the token.                          *)
LEMMA InitClaimsInv == Init => ClaimsInv
<1> SUFFICES ASSUME Init
             PROVE  ClaimsInv
  OBVIOUS
<1>1. DOMAIN merged = {}
  BY DEF Init
<1>2. config.sources \in Seq(Source)
  BY ConfigurationsAssumption DEF Init
<1>3. TypeOK
  BY <1>1, <1>2 DEF Init, TypeOK, Claims
<1>4. WholeSources /\ GuardPreventsOverride
  BY <1>1 DEF Init, WholeSources, GuardPreventsOverride
<1>5. FailuresStayLocal
  <2>1. 1..next - 1 = {}
    BY DEF Init
  <2> QED
    BY <2>1 DEF FailuresStayLocal
<1> QED
  BY <1>3, <1>4, <1>5 DEF Init, ClaimsInv, NothingYet, Decided

-----------------------------------------------------------------------------
(* Leaving a source out, for whatever reason, leaves the claims alone      *)
(* (resolver.go:199-262).                                                  *)
LEMMA SkipKeepsClaimsInv ==
    ASSUME ClaimsInv, Expanding,
           failed' = IF Wanted(source, claims) THEN failed \cup {next} ELSE failed,
           next' = next + 1,
           UNCHANGED <<config, distributed, claims, base, merged, stage, result>>
    PROVE  ClaimsInv'
<1>1. Len(config.sources) \in Nat /\ next \in 1..Len(config.sources)
  BY SourcesOfConfig DEF ClaimsInv, TypeOK, Expanding
<1>2. next \notin DOMAIN merged
  BY <1>1 DEF ClaimsInv, TypeOK
<1>3. TypeOK'
  BY <1>1 DEF ClaimsInv, TypeOK
<1>4. WholeSources'
  BY <1>2 DEF ClaimsInv, WholeSources
<1>5. GuardPreventsOverride' /\ NothingYet' /\ Decided'
  BY DEF ClaimsInv, GuardPreventsOverride, NothingYet, Decided, Expanding
<1>6. FailuresStayLocal'
  BY StepStaysLocal
<1> QED
  BY <1>3, <1>4, <1>5, <1>6 DEF ClaimsInv

(* Merging adds the whole response of a source at once, to claims that no  *)
(* other source maps (resolver.go:263-275).                                *)
LEMMA MergeKeepsClaimsInv ==
    ASSUME ClaimsInv, Expanding, NEW response \in Responses(source), Merge(response)
    PROVE  ClaimsInv'
<1> DEFINE maps(j) == config.sources[j].mappings
<1>1. Len(config.sources) \in Nat /\ next \in 1..Len(config.sources)
  BY SourcesOfConfig DEF ClaimsInv, TypeOK, Expanding
<1>2. next \notin DOMAIN merged /\ DOMAIN merged \subseteq 1..next - 1
  BY <1>1 DEF ClaimsInv, TypeOK
<1>3. DOMAIN merged' = DOMAIN merged \cup {next}
  BY DEF Merge
<1>4. merged'[next] = response /\ \A j \in DOMAIN merged : merged'[j] = merged[j]
  BY <1>2 DEF Merge
<1>5. response \in [maps(next) -> Strings]
  BY DEF Responses, source
<1>6. \A j \in DOMAIN merged : maps(j) \cap maps(next) = {}
  <2>1. DOMAIN merged \subseteq 1..Len(config.sources)
    BY <1>1, <1>2
  <2> QED
    BY <1>1, <1>2, <2>1, SourcesOfConfig DEF ClaimsInv
<1>7. /\ \A n \in Names : n \in maps(next) => claims'[n] = Quote(response[n])
      /\ \A n \in Names : n \notin maps(next) => claims'[n] = claims[n]
  BY DEF Merge, source
<1>8. UNCHANGED <<config, distributed, base, failed, stage, result>> /\ next' = next + 1
  BY DEF Merge
<1>9. TypeOK'
  <2>1. claims' \in Claims
    <3>1. \A n \in Names : n \in maps(next) => Quote(response[n]) \in Strings \cup {Malformed}
      BY <1>5, QuotePresent
    <3>2. \A n \in Names : claims'[n] \in Values \cup {Absent, Malformed}
      BY <1>7, <3>1 DEF ClaimsInv, TypeOK, Claims, Values
    <3>3. claims' = [n \in Names |-> claims'[n]]
      BY DEF Merge
    <3> QED
      BY <3>2, <3>3 DEF Claims
  <2>2. \A j \in DOMAIN merged' : merged'[j] \in [config.sources[j].mappings -> Strings]
    BY <1>3, <1>4, <1>5 DEF ClaimsInv, TypeOK
  <2>3. next' \in 1..Len(config.sources) + 1 /\ failed \subseteq 1..next' - 1
        /\ DOMAIN merged' \subseteq 1..next' - 1
    BY <1>1, <1>2, <1>3, <1>8 DEF ClaimsInv, TypeOK
  <2> QED
    BY <1>8, <2>1, <2>2, <2>3 DEF ClaimsInv, TypeOK
<1>10. WholeSources'
  <2>1. failed \cap DOMAIN merged' = {}
    BY <1>1, <1>3 DEF ClaimsInv, WholeSources, TypeOK
  <2>2. ASSUME NEW n \in Names, n \in maps(next)
        PROVE  claims'[n] = Quote(merged'[next][n])
    BY <1>4, <1>7, <2>2
  <2>3. ASSUME NEW n \in Names, n \notin maps(next)
        PROVE  \/ claims'[n] = base[n] /\ \A j \in DOMAIN merged' : n \notin maps(j)
               \/ \E j \in DOMAIN merged' :
                     n \in maps(j) /\ claims'[n] = Quote(merged'[j][n])
    BY <1>3, <1>4, <1>7, <2>3 DEF ClaimsInv, WholeSources
  <2> QED
    BY <1>3, <1>8, <2>1, <2>2, <2>3 DEF WholeSources
<1>11. GuardPreventsOverride'
  <2>1. ASSUME Guarded(config.sources[next]), NEW n \in maps(next)
        PROVE  base[n] = Absent
    <3>1. claims[n] = Absent
      BY <2>1, GuardHolds DEF Merge, source
    <3>2. n \in Names
      BY <1>1, SourcesOfConfig DEF ClaimsInv, Source
    <3>3. \A j \in DOMAIN merged : n \notin maps(j)
      BY <1>6
    <3> QED
      BY <3>1, <3>2, <3>3 DEF ClaimsInv, WholeSources
  <2>2. \A j \in DOMAIN merged : Guarded(config.sources[j]) =>
          \A n \in maps(j) : base[n] = Absent
    BY DEF ClaimsInv, GuardPreventsOverride
  <2> QED
    BY <1>3, <1>8, <2>1, <2>2 DEF GuardPreventsOverride, Guarded
<1>12. NothingYet' /\ Decided'
  BY <1>8 DEF NothingYet, Decided, Expanding
<1>13. FailuresStayLocal'
  <2>1. Wanted(source, claims)
    BY DEF Merge
  <2> QED
    BY <1>3, <1>8, <2>1, StepStaysLocal
<1> QED
  BY <1>9, <1>10, <1>11, <1>12, <1>13 DEF ClaimsInv

(* Every step of the expansion keeps the invariant (resolver.go:191-275).  *)
LEMMA ExpandKeepsClaimsInv ==
    ASSUME ClaimsInv, Expand
    PROVE  ClaimsInv'
<1>1. CASE NotWanted
  BY <1>1, SkipKeepsClaimsInv DEF NotWanted
<1>2. CASE NoAccessToken
  BY <1>2, SkipKeepsClaimsInv DEF NoAccessToken, Fail
<1>3. CASE NoURL
  BY <1>3, SkipKeepsClaimsInv DEF NoURL, Fail
<1>4. CASE NoResponse
  BY <1>4, SkipKeepsClaimsInv DEF NoResponse, Fail
<1>5. ASSUME Expanding, NEW response \in Responses(source), Merge(response)
      PROVE  ClaimsInv'
  BY <1>5, MergeKeepsClaimsInv
<1> QED
  BY <1>1, <1>2, <1>3, <1>4, <1>5 DEF Expand

(* A distributed claim becomes one of the claims of the token before any   *)
(* source is consulted (oidc.go).                                          *)
LEMMA DistributedKeepsClaimsInv ==
    ASSUME ClaimsInv,
           NothingDistributed \/ DistributedFails \/ \E v \in Values : ResolveDistributed(v)
    PROVE  ClaimsInv'
<1>1. CASE NothingDistributed
  BY <1>1 DEF NothingDistributed, ClaimsInv, TypeOK, WholeSources,
              GuardPreventsOverride, FailuresStayLocal, Independent, NothingYet, Decided
<1>2. CASE DistributedFails
  <2>1. HasDistributedClaim'
    BY <1>2 DEF DistributedFails, HasDistributedClaim
  <2> QED
    BY <1>2, <2>1 DEF DistributedFails, ClaimsInv, TypeOK, WholeSources,
              GuardPreventsOverride, FailuresStayLocal, Independent, NothingYet, Decided
<1>3. ASSUME NEW v \in Values, ResolveDistributed(v)
      PROVE  ClaimsInv'
  <2>1. merged = <<>> /\ DOMAIN merged = {} /\ claims = base
    BY <1>3 DEF ResolveDistributed, ClaimsInv, NothingYet
  <2>2. claims' \in [Names -> Values \cup {Absent}] /\ base' = claims'
    BY <1>3, <2>1 DEF ResolveDistributed, ClaimsInv, TypeOK
  <2>3. UNCHANGED <<config, distributed, next, merged, failed, result>> /\ stage' = "expand"
    BY <1>3 DEF ResolveDistributed
  <2>4. TypeOK'
    BY <2>2, <2>3 DEF ClaimsInv, TypeOK, Claims
  <2>5. WholeSources' /\ GuardPreventsOverride'
    BY <2>1, <2>2, <2>3 DEF WholeSources, GuardPreventsOverride
  <2>6. FailuresStayLocal'
    BY <1>3, <2>3 DEF ClaimsInv, NothingYet, ResolveDistributed, FailuresStayLocal
  <2> QED
    BY <2>3, <2>4, <2>5, <2>6 DEF ClaimsInv, NothingYet, Decided
<1> QED
  BY <1>1, <1>2, <1>3

(* Every reachable state satisfies the invariant.                          *)
LEMMA ClaimsInvariant == Spec => []ClaimsInv
<1>1. ASSUME ClaimsInv, Decide
      PROVE  ClaimsInv'
  <2>1. result' = MapClaims(config', claims')
    BY <1>1 DEF Decide
  <2> QED
    BY <1>1, <2>1 DEF Decide, ClaimsInv, TypeOK, WholeSources, GuardPreventsOverride,
                      FailuresStayLocal, Independent, NothingYet, Decided
<1>2. ClaimsInv /\ UNCHANGED vars => ClaimsInv'
  BY DEF ClaimsInv, vars, TypeOK, WholeSources, GuardPreventsOverride, FailuresStayLocal,
         Independent, NothingYet, Decided, HasDistributedClaim
<1>3. ClaimsInv /\ [Next]_vars => ClaimsInv'
  BY <1>1, <1>2, ExpandKeepsClaimsInv, DistributedKeepsClaimsInv DEF Next
<1> QED
  BY <1>3, InitClaimsInv, PTL DEF Spec

-----------------------------------------------------------------------------
(* Types are kept; what is merged gives every mapping of its source a      *)
(* string (resolver.go:382).                                               *)
THEOREM TypeCorrect == Spec => []TypeOK
<1>1. ClaimsInv => TypeOK
  BY DEF ClaimsInv
<1> QED
  BY <1>1, ClaimsInvariant, PTL

(* A source contributes all of its claims or none, and no source touches   *)
(* what another wrote, for any number of sources (resolver.go:206-275).    *)
THEOREM SourcesAreWhole == Spec => []WholeSources
<1>1. ClaimsInv => WholeSources
  BY DEF ClaimsInv
<1> QED
  BY <1>1, ClaimsInvariant, PTL

(* A source on condition that the claims it maps are absent never replaces *)
(* a claim of the token, whatever other sources do (resolver.go:270).      *)
THEOREM GuardIsRespected == Spec => []GuardPreventsOverride
<1>1. ClaimsInv => GuardPreventsOverride
  BY DEF ClaimsInv
<1> QED
  BY <1>1, ClaimsInvariant, PTL

(* A source that depends on no other is consulted exactly if the token     *)
(* meets its conditions, whatever became of the sources before it, for any *)
(* number of sources (resolver.go:191-204, oidc_patch.go:39).              *)
THEOREM FailuresAreContained == Spec => []FailuresStayLocal
<1>1. ClaimsInv => FailuresStayLocal
  BY DEF ClaimsInv
<1> QED
  BY <1>1, ClaimsInvariant, PTL

(* A token to which no source contributed is decided as if there were no   *)
(* sources, for any mappings and rules (resolver.go:199-204).              *)
THEOREM OutageIsHarmless == Spec => []OutageLeavesTokenAlone
<1>1. ASSUME ClaimsInv, stage = "done", merged = <<>>, ~HasDistributedClaim
      PROVE  result = MapClaims(config, base)
  <2>1. DOMAIN merged = {}
    BY <1>1
  <2>2. \A n \in Names : claims[n] = base[n]
    BY <1>1, <2>1 DEF ClaimsInv, WholeSources
  <2>3. claims = base
    BY <1>1, <2>2 DEF ClaimsInv, TypeOK, Claims
  <2> QED
    BY <1>1, <2>3 DEF ClaimsInv, Decided
<1>2. ClaimsInv => OutageLeavesTokenAlone
  BY <1>1 DEF OutageLeavesTokenAlone
<1> QED
  BY <1>2, ClaimsInvariant, PTL
=============================================================================
