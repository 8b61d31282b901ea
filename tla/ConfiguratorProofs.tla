------------------------- MODULE ConfiguratorProofs -------------------------
(***************************************************************************)
(* Proofs about Configurator, for every set of contents, issuers, requests *)
(* and authenticators.                                                     *)
(***************************************************************************)
EXTENDS Configurator, TLAPS

Building == pc \in {"build", "cancelOld", "install"}

(* The mutex is held from Lock to the return of handleConfigChange.        *)
MutexHeld == mu <=> pc = "validate" \/ Building

(* The authenticator under construction has a live context of its own, was *)
(* made from the content read last, and nobody else knows it.              *)
BuiltIsPrivate ==
    /\ ~Building => built = Nil
    /\ Building =>
         /\ built \in Authenticators
         /\ built # active
         /\ ctx[built] = "live"
         /\ cfgOf[built] = loaded
         /\ loaded \in Valid
         /\ \A i \in Issuers : jwt[built][i] # "none" => i \in IssuersOf[loaded]
         /\ \A r \in Requests : held[r] # built
    /\ pc \in {"cancelOld", "install"} =>
         \A i \in IssuersOf[loaded] : jwt[built][i] # "none"

(* The authenticator in use is complete and the hash is that of its        *)
(* configuration; it is live but for the moment before it is replaced.     *)
ActiveInForce ==
    /\ active = Nil <=> configHash = Nil
    /\ active # Nil =>
         /\ Complete(active)
         /\ configHash = cfgOf[active]
         /\ ctx[active] = IF pc = "install" THEN "cancelled" ELSE "live"

(* Where a request is, and whether it holds an authenticator.              *)
RequestSteps ==
    \A r \in Requests :
        /\ step[r] \in {"idle", "lock"} => held[r] = Nil
        /\ step[r] = "verify" => held[r] # Nil /\ iss[r] \in IssuersOf[cfgOf[held[r]]]

(* The inductive invariant.                                                *)
IInv ==
    /\ TypeOK
    /\ MutexHeld
    /\ BuiltIsPrivate
    /\ ActiveInForce
    /\ NoLeakedContext
    /\ FullyBuilt
    /\ SuccessServesLoaded
    /\ RequestSteps

(* A new configurator, with nothing loaded and no requests, satisfies it.  *)
LEMMA InitIInv == Init => IInv
<1> SUFFICES ASSUME Init PROVE IInv
    OBVIOUS
<1>1. TypeOK
  BY ConfigurationAssumption DEF Init, TypeOK, Files, Goroutine, JWTs, NoJWTs, NoAnswer
<1>2. MutexHeld /\ BuiltIsPrivate /\ RequestSteps
  BY DEF Init, MutexHeld, BuiltIsPrivate, RequestSteps, Building
<1>3. ActiveInForce /\ NoLeakedContext /\ FullyBuilt /\ SuccessServesLoaded
  BY DEF Init, ActiveInForce, NoLeakedContext, FullyBuilt, SuccessServesLoaded
<1> QED
  BY <1>1, <1>2, <1>3 DEF IInv

(* Every action keeps the types.                                           *)
LEMMA NextTypeOK == TypeOK /\ BuiltIsPrivate /\ [Next]_vars => TypeOK'
<1> SUFFICES ASSUME TypeOK, BuiltIsPrivate, [Next]_vars PROVE TypeOK'
    OBVIOUS
<1> USE ConfigurationAssumption
<1> USE DEF TypeOK, Files, Goroutine, environment, configurator, heap, requests
<1>1. CASE Lock
  BY <1>1 DEF Lock
<1>2. CASE ValidateFails
  BY <1>2 DEF ValidateFails, Return
<1>3. CASE Unchanged
  BY <1>3 DEF Unchanged, Return
<1>4. ASSUME NEW a \in Authenticators, Changed(a) PROVE TypeOK'
  <2>1. NoJWTs \in [Issuers -> JWTs]
    BY DEF NoJWTs, JWTs
  <2> QED BY <1>4, <2>1 DEF Changed
<1>5. ASSUME NEW i \in Issuers, BuildJWT(i) PROVE TypeOK'
  <2>1. built \in Authenticators
    BY <1>5 DEF BuildJWT, BuiltIsPrivate, Building
  <2> QED BY <1>5, <2>1 DEF BuildJWT, JWTs
<1>6. ASSUME NEW i \in Issuers, BuildFails(i) PROVE TypeOK'
  BY <1>6 DEF BuildFails, Return
<1>7. CASE BuildDone
  BY <1>7 DEF BuildDone
<1>8. CASE CancelOld
  BY <1>8 DEF CancelOld
<1>9. CASE Install
  <2>1. loaded \in Valid
    BY <1>9 DEF Install, BuiltIsPrivate, Building
  <2> QED BY <1>9, <2>1 DEF Install, Return
<1>10. CASE EventHandler
  BY <1>10 DEF EventHandler
<1>11. ASSUME NEW a \in Authenticators, NEW i \in Issuers,
              FetchProvider(a, i) \/ SetVerifier(a, i)
       PROVE TypeOK'
  <2>1. CASE FetchProvider(a, i)
    BY <2>1 DEF FetchProvider, JWTs
  <2>2. CASE SetVerifier(a, i)
    BY <2>2 DEF SetVerifier, JWTs
  <2> QED BY <1>11, <2>1, <2>2
<1>12. ASSUME NEW r \in Requests, NEW i \in Issuers, Arrive(r, i) PROVE TypeOK'
  BY <1>12 DEF Arrive, NoAnswer
<1>13. ASSUME NEW r \in Requests, TokenAuthenticator(r) PROVE TypeOK'
  BY <1>13 DEF TokenAuthenticator
<1>14. ASSUME NEW r \in Requests, NEW out \in Outcomes, Answer(r, out) PROVE TypeOK'
  <2>1. ConfigHeld(r) \in Valid \cup {Nil}
    BY DEF ConfigHeld
  <2>2. [out |-> out, cfg |-> ConfigHeld(r)] \in [out : Outcomes \cup {"none"}, cfg : Valid \cup {Nil}]
    BY <2>1
  <2> QED BY <1>14, <2>2 DEF Answer
<1>15. ASSUME NEW r \in Requests, Respond(r) PROVE TypeOK'
  <2>1. CASE Dispatch(r)
    BY <2>1 DEF Dispatch
  <2>2. CASE NotInitialized(r) \/ NoAuthenticator(r) \/ VerifierNotInitialized(r) \/ Verify(r)
    BY <1>14, <2>2 DEF NotInitialized, NoAuthenticator, VerifierNotInitialized, Verify, Outcomes
  <2> QED BY <1>15, <2>1, <2>2 DEF Respond
<1>16. CASE EditFile
  BY <1>16 DEF EditFile
<1>17. CASE ToggleTokenEndpoint
  BY <1>17 DEF ToggleTokenEndpoint
<1>18. CASE UNCHANGED vars
  BY <1>18 DEF vars
<1> QED
  BY <1>1, <1>2, <1>3, <1>4, <1>5, <1>6, <1>7, <1>8, <1>9, <1>10, <1>11, <1>12, <1>13,
     <1>15, <1>16, <1>17, <1>18 DEF Next, HandleConfigChange

(* The mutex and the cell under construction.                              *)
LEMMA NextBuilt ==
    IInv /\ [Next]_vars => MutexHeld' /\ BuiltIsPrivate'
<1> SUFFICES ASSUME IInv, [Next]_vars PROVE MutexHeld' /\ BuiltIsPrivate'
    OBVIOUS
<1> USE ConfigurationAssumption
<1> USE DEF IInv, TypeOK, MutexHeld, BuiltIsPrivate, Building,
            environment, configurator, heap, requests
<1>1. CASE Lock
  BY <1>1 DEF Lock
<1>2. CASE ValidateFails
  BY <1>2 DEF ValidateFails, Return
<1>3. CASE Unchanged
  BY <1>3 DEF Unchanged, Return
<1>4. ASSUME NEW a \in Authenticators, Changed(a) PROVE MutexHeld' /\ BuiltIsPrivate'
  BY <1>4 DEF Changed, Garbage, NoJWTs
<1>5. ASSUME NEW i \in Issuers, BuildJWT(i) PROVE MutexHeld' /\ BuiltIsPrivate'
  BY <1>5 DEF BuildJWT
<1>6. ASSUME NEW i \in Issuers, BuildFails(i) PROVE MutexHeld' /\ BuiltIsPrivate'
  BY <1>6 DEF BuildFails, Return
<1>7. CASE BuildDone
  BY <1>7 DEF BuildDone
<1>8. CASE CancelOld
  BY <1>8 DEF CancelOld
<1>9. CASE Install
  BY <1>9 DEF Install, Return
<1>10. CASE EventHandler
  BY <1>10 DEF EventHandler
<1>11. ASSUME NEW a \in Authenticators, NEW i \in Issuers,
              FetchProvider(a, i) \/ SetVerifier(a, i)
       PROVE MutexHeld' /\ BuiltIsPrivate'
  <2>1. \A b \in Authenticators, k \in Issuers : jwt'[b][k] # "none" <=> jwt[b][k] # "none"
    BY <1>11 DEF FetchProvider, SetVerifier
  <2> QED BY <1>11, <2>1 DEF FetchProvider, SetVerifier
<1>12. ASSUME NEW r \in Requests, NEW i \in Issuers, Arrive(r, i)
       PROVE MutexHeld' /\ BuiltIsPrivate'
  BY <1>12 DEF Arrive
<1>13. ASSUME NEW r \in Requests, TokenAuthenticator(r) PROVE MutexHeld' /\ BuiltIsPrivate'
  BY <1>13 DEF TokenAuthenticator
<1>14. ASSUME NEW r \in Requests, Respond(r) PROVE MutexHeld' /\ BuiltIsPrivate'
  BY <1>14 DEF Respond, Dispatch, NotInitialized, NoAuthenticator, VerifierNotInitialized,
     Verify, Answer
<1>15. CASE EditFile
  BY <1>15 DEF EditFile
<1>16. CASE ToggleTokenEndpoint
  BY <1>16 DEF ToggleTokenEndpoint
<1>17. CASE UNCHANGED vars
  BY <1>17 DEF vars
<1> QED
  BY <1>1, <1>2, <1>3, <1>4, <1>5, <1>6, <1>7, <1>8, <1>9, <1>10, <1>11, <1>12, <1>13,
     <1>14, <1>15, <1>16, <1>17 DEF Next, HandleConfigChange

(* The authenticator in use: only Changed writes a cell, and not this one; *)
(* only CancelOld cancels it, on the way to Install.                       *)
LEMMA NextActive ==
    IInv /\ [Next]_vars => ActiveInForce'
<1> SUFFICES ASSUME IInv, [Next]_vars PROVE ActiveInForce'
    OBVIOUS
<1> USE ConfigurationAssumption
<1> USE DEF IInv, TypeOK, BuiltIsPrivate, Building, ActiveInForce, Complete,
            environment, configurator, heap, requests
<1>1. CASE Lock
  BY <1>1 DEF Lock
<1>2. CASE ValidateFails
  BY <1>2 DEF ValidateFails, Return
<1>3. CASE Unchanged
  BY <1>3 DEF Unchanged, Return
<1>4. ASSUME NEW a \in Authenticators, Changed(a) PROVE ActiveInForce'
  BY <1>4 DEF Changed, Garbage, NoJWTs
<1>5. ASSUME NEW i \in Issuers, BuildJWT(i) PROVE ActiveInForce'
  BY <1>5 DEF BuildJWT
<1>6. ASSUME NEW i \in Issuers, BuildFails(i) PROVE ActiveInForce'
  BY <1>6 DEF BuildFails, Return
<1>7. CASE BuildDone
  BY <1>7 DEF BuildDone
<1>8. CASE CancelOld
  BY <1>8 DEF CancelOld
<1>9. CASE Install
  BY <1>9 DEF Install, Return
<1>10. CASE EventHandler
  BY <1>10 DEF EventHandler
<1>11. ASSUME NEW a \in Authenticators, NEW i \in Issuers,
              FetchProvider(a, i) \/ SetVerifier(a, i)
       PROVE ActiveInForce'
  <2>1. \A b \in Authenticators, k \in Issuers : jwt'[b][k] # "none" <=> jwt[b][k] # "none"
    BY <1>11 DEF FetchProvider, SetVerifier
  <2> QED BY <1>11, <2>1 DEF FetchProvider, SetVerifier
<1>12. ASSUME NEW r \in Requests, NEW i \in Issuers, Arrive(r, i) PROVE ActiveInForce'
  BY <1>12 DEF Arrive
<1>13. ASSUME NEW r \in Requests, TokenAuthenticator(r) PROVE ActiveInForce'
  BY <1>13 DEF TokenAuthenticator
<1>14. ASSUME NEW r \in Requests, Respond(r) PROVE ActiveInForce'
  BY <1>14 DEF Respond, Dispatch, NotInitialized, NoAuthenticator, VerifierNotInitialized,
     Verify, Answer
<1>15. CASE EditFile
  BY <1>15 DEF EditFile
<1>16. CASE ToggleTokenEndpoint
  BY <1>16 DEF ToggleTokenEndpoint
<1>17. CASE UNCHANGED vars
  BY <1>17 DEF vars
<1> QED
  BY <1>1, <1>2, <1>3, <1>4, <1>5, <1>6, <1>7, <1>8, <1>9, <1>10, <1>11, <1>12, <1>13,
     <1>14, <1>15, <1>16, <1>17 DEF Next, HandleConfigChange

(* A new context belongs to the cell under construction until it is        *)
(* installed or the build fails and cancels it.                            *)
LEMMA NextContexts ==
    IInv /\ [Next]_vars => NoLeakedContext' /\ SuccessServesLoaded'
<1> SUFFICES ASSUME IInv, [Next]_vars PROVE NoLeakedContext' /\ SuccessServesLoaded'
    OBVIOUS
<1> USE ConfigurationAssumption
<1> USE DEF IInv, TypeOK, BuiltIsPrivate, Building, ActiveInForce, NoLeakedContext,
            SuccessServesLoaded, environment, configurator, heap, requests
<1>1. CASE Lock
  BY <1>1 DEF Lock
<1>2. CASE ValidateFails
  BY <1>2 DEF ValidateFails, Return
<1>3. CASE Unchanged
  BY <1>3 DEF Unchanged, Return
<1>4. ASSUME NEW a \in Authenticators, Changed(a) PROVE NoLeakedContext' /\ SuccessServesLoaded'
  BY <1>4 DEF Changed, Garbage, NoJWTs
<1>5. ASSUME NEW i \in Issuers, BuildJWT(i) PROVE NoLeakedContext' /\ SuccessServesLoaded'
  BY <1>5 DEF BuildJWT
<1>6. ASSUME NEW i \in Issuers, BuildFails(i) PROVE NoLeakedContext' /\ SuccessServesLoaded'
  BY <1>6 DEF BuildFails, Return
<1>7. CASE BuildDone
  BY <1>7 DEF BuildDone
<1>8. CASE CancelOld
  BY <1>8 DEF CancelOld
<1>9. CASE Install
  BY <1>9 DEF Install, Return
<1>10. CASE EventHandler
  BY <1>10 DEF EventHandler
<1>11. ASSUME NEW a \in Authenticators, NEW i \in Issuers,
              FetchProvider(a, i) \/ SetVerifier(a, i)
       PROVE NoLeakedContext' /\ SuccessServesLoaded'
  <2>1. \A b \in Authenticators, k \in Issuers : jwt'[b][k] # "none" <=> jwt[b][k] # "none"
    BY <1>11 DEF FetchProvider, SetVerifier
  <2> QED BY <1>11, <2>1 DEF FetchProvider, SetVerifier
<1>12. ASSUME NEW r \in Requests, NEW i \in Issuers, Arrive(r, i) PROVE NoLeakedContext' /\ SuccessServesLoaded'
  BY <1>12 DEF Arrive
<1>13. ASSUME NEW r \in Requests, TokenAuthenticator(r) PROVE NoLeakedContext' /\ SuccessServesLoaded'
  BY <1>13 DEF TokenAuthenticator
<1>14. ASSUME NEW r \in Requests, Respond(r) PROVE NoLeakedContext' /\ SuccessServesLoaded'
  BY <1>14 DEF Respond, Dispatch, NotInitialized, NoAuthenticator, VerifierNotInitialized,
     Verify, Answer
<1>15. CASE EditFile
  BY <1>15 DEF EditFile
<1>16. CASE ToggleTokenEndpoint
  BY <1>16 DEF ToggleTokenEndpoint
<1>17. CASE UNCHANGED vars
  BY <1>17 DEF vars
<1> QED
  BY <1>1, <1>2, <1>3, <1>4, <1>5, <1>6, <1>7, <1>8, <1>9, <1>10, <1>11, <1>12, <1>13,
     <1>14, <1>15, <1>16, <1>17 DEF Next, HandleConfigChange

(* A request holds what was in use when it asked, and that cell is not     *)
(* written again while it is held.                                         *)
LEMMA NextHeld ==
    IInv /\ [Next]_vars => FullyBuilt' /\ RequestSteps'
<1> SUFFICES ASSUME IInv, [Next]_vars PROVE FullyBuilt' /\ RequestSteps'
    OBVIOUS
<1> USE ConfigurationAssumption
<1> USE DEF IInv, TypeOK, BuiltIsPrivate, Building, ActiveInForce, Complete, FullyBuilt,
            RequestSteps, environment, configurator, heap, requests
<1>1. CASE Lock
  BY <1>1 DEF Lock
<1>2. CASE ValidateFails
  BY <1>2 DEF ValidateFails, Return
<1>3. CASE Unchanged
  BY <1>3 DEF Unchanged, Return
<1>4. ASSUME NEW a \in Authenticators, Changed(a) PROVE FullyBuilt' /\ RequestSteps'
  BY <1>4 DEF Changed, Garbage, NoJWTs
<1>5. ASSUME NEW i \in Issuers, BuildJWT(i) PROVE FullyBuilt' /\ RequestSteps'
  BY <1>5 DEF BuildJWT
<1>6. ASSUME NEW i \in Issuers, BuildFails(i) PROVE FullyBuilt' /\ RequestSteps'
  BY <1>6 DEF BuildFails, Return
<1>7. CASE BuildDone
  BY <1>7 DEF BuildDone
<1>8. CASE CancelOld
  BY <1>8 DEF CancelOld
<1>9. CASE Install
  BY <1>9 DEF Install, Return
<1>10. CASE EventHandler
  BY <1>10 DEF EventHandler
<1>11. ASSUME NEW a \in Authenticators, NEW i \in Issuers,
              FetchProvider(a, i) \/ SetVerifier(a, i)
       PROVE FullyBuilt' /\ RequestSteps'
  <2>1. \A b \in Authenticators, k \in Issuers : jwt'[b][k] # "none" <=> jwt[b][k] # "none"
    BY <1>11 DEF FetchProvider, SetVerifier
  <2> QED BY <1>11, <2>1 DEF FetchProvider, SetVerifier
<1>12. ASSUME NEW r \in Requests, NEW i \in Issuers, Arrive(r, i) PROVE FullyBuilt' /\ RequestSteps'
  BY <1>12 DEF Arrive
<1>13. ASSUME NEW r \in Requests, TokenAuthenticator(r) PROVE FullyBuilt' /\ RequestSteps'
  BY <1>13 DEF TokenAuthenticator
<1>14. ASSUME NEW r \in Requests, Respond(r) PROVE FullyBuilt' /\ RequestSteps'
  <2>1. UNCHANGED heap
    BY <1>14 DEF Respond, Dispatch, NotInitialized, NoAuthenticator, VerifierNotInitialized,
       Verify, Answer
  <2>2. \A q \in Requests : held'[q] \in {held[q], Nil}
    BY <1>14 DEF Respond, Dispatch, NotInitialized, NoAuthenticator, VerifierNotInitialized,
       Verify, Answer
  <2>3. RequestSteps'
    BY <1>14 DEF Respond, Dispatch, NotInitialized, NoAuthenticator, VerifierNotInitialized,
       Verify, Answer
  <2>4. FullyBuilt'
    BY <2>1, <2>2
  <2> QED BY <2>3, <2>4
<1>15. CASE EditFile
  BY <1>15 DEF EditFile
<1>16. CASE ToggleTokenEndpoint
  BY <1>16 DEF ToggleTokenEndpoint
<1>17. CASE UNCHANGED vars
  BY <1>17 DEF vars
<1> QED
  BY <1>1, <1>2, <1>3, <1>4, <1>5, <1>6, <1>7, <1>8, <1>9, <1>10, <1>11, <1>12, <1>13,
     <1>14, <1>15, <1>16, <1>17 DEF Next, HandleConfigChange

(* The strengthening of the safety properties is an inductive invariant of *)
(* the configurator (configurator.go:48-140).                              *)
LEMMA Inductive == Spec => []IInv
<1>1. IInv /\ [Next]_vars => IInv'
  BY NextTypeOK, NextBuilt, NextActive, NextContexts, NextHeld DEF IInv
<1> QED
  BY <1>1, InitIInv, PTL DEF Spec

(* Types are kept, and only validated content is ever configured or hashed *)
(* (configurator.go:110-137).                                              *)
THEOREM TypeCorrect == Spec => []TypeOK
<1>1. IInv => TypeOK
  BY DEF IInv
<1> QED BY <1>1, Inductive, PTL

(* TokenAuthenticator never hands out a cancelled authenticator, although  *)
(* handleConfigChange cancels the old one before it stores the new one:    *)
(* both happen under the mutex (configurator.go:48-57, 129-137).           *)
THEOREM HandsOutLiveAlways == Spec => []HandsOutLive
<1>1. IInv => HandsOutLive
  BY DEF IInv, MutexHeld, Building, ActiveInForce, HandsOutLive
<1> QED BY <1>1, Inductive, PTL

(* No reload, failed or not, leaks a live context (configurator.go:121).   *)
THEOREM NoLeakedContextEver == Spec => []NoLeakedContext
<1>1. IInv => NoLeakedContext
  BY DEF IInv
<1> QED BY <1>1, Inductive, PTL

(* Requests only get complete authenticators (configurator.go:170-196).    *)
THEOREM FullyBuiltAlways == Spec => []FullyBuilt
<1>1. IInv => FullyBuilt
  BY DEF IInv
<1> QED BY <1>1, Inductive, PTL

(* A reload without error leaves what it read in force, also when the hash *)
(* made it skip the build (configurator.go:117-119).                       *)
THEOREM SuccessServesLoadedAlways == Spec => []SuccessServesLoaded
<1>1. IInv => SuccessServesLoaded
  BY DEF IInv
<1> QED BY <1>1, Inductive, PTL

-----------------------------------------------------------------------------
(* Configurator implements HotReload.                                      *)

(* The initial states map to the initial state of the promise.             *)
LEMMA InitPromise == Init => Promise!Init
  BY ConfigurationAssumption
     DEF Init, Promise!Init, Serving, Phase, ConfigHeld, Decision

(* Steps that leave the mapped state alone.                                *)
LEMMA Stutters ==
    ASSUME UNCHANGED <<loaded, active, step, iss, held, answer>>,
           Serving' = Serving,
           \A r \in Requests : ConfigHeld(r)' = ConfigHeld(r)
    PROVE  UNCHANGED Promise!vars
  BY DEF Promise!vars, Phase, Decision

(* Steps of a request that answer it.                                      *)
LEMMA AnswerDecides ==
    ASSUME IInv, NEW r \in Requests, NEW out \in Outcomes,
           step[r] \in {"dispatch", "verify"},
           out = "accepted" => step[r] = "verify",
           Answer(r, out)
    PROVE  Promise!Decide(r, out = "accepted")
<1> DEFINE accepted == out = "accepted"
<1> USE DEF IInv, TypeOK, RequestSteps
<1>1. Phase(step[r]) = "taken"
  BY DEF Phase
<1>2. accepted => ConfigHeld(r) # Nil /\ iss[r] \in IssuersOf[ConfigHeld(r)]
  BY ConfigurationAssumption DEF ConfigHeld, FullyBuilt, Complete
<1>3. [q \in Requests |-> Phase(step[q])]'
        = [[q \in Requests |-> Phase(step[q])] EXCEPT ![r] = "idle"]
  BY DEF Answer, Phase
<1>4. [q \in Requests |-> Decision(answer[q])]'
        = [[q \in Requests |-> Decision(answer[q])] EXCEPT
             ![r] = [accepted |-> accepted, by |-> ConfigHeld(r)]]
  <2>1. \A q \in Requests : q # r => answer'[q] = answer[q]
    BY DEF Answer
  <2>2. answer'[r] = [out |-> out, cfg |-> ConfigHeld(r)]
    BY DEF Answer
  <2>3. [out |-> out, cfg |-> ConfigHeld(r)] # NoAnswer
    BY DEF NoAnswer, Outcomes
  <2>4. Decision(answer'[r]) = [accepted |-> accepted, by |-> ConfigHeld(r)]
    <3>1. Decision(answer'[r]) = [accepted |-> answer'[r].out = "accepted", by |-> answer'[r].cfg]
      BY <2>2, <2>3 DEF Decision
    <3>2. answer'[r].out = out /\ answer'[r].cfg = ConfigHeld(r)
      BY <2>2
    <3> QED BY <3>1, <3>2
  <2> HIDE DEF Decision, accepted
  <2> QED BY <2>1, <2>4
<1>5. [q \in Requests |-> ConfigHeld(q)]'
        = [[q \in Requests |-> ConfigHeld(q)] EXCEPT ![r] = Nil]
  BY DEF Answer, ConfigHeld, heap
<1>6. UNCHANGED <<loaded, Serving, iss>>
  BY DEF Answer, configurator, heap, Serving
<1> QED
  BY <1>1, <1>2, <1>3, <1>4, <1>5, <1>6 DEF Promise!Decide, Promise!MayAccept

(* Every step of the configurator, a request or the environment maps to a  *)
(* step of the promise or to a stutter.                                    *)
LEMMA NextPromise ==
    IInv /\ [Next]_vars => [Promise!Next]_(Promise!vars)
<1> SUFFICES ASSUME IInv, [Next]_vars PROVE Promise!Next \/ UNCHANGED Promise!vars
    OBVIOUS
<1> USE ConfigurationAssumption
<1> USE DEF IInv, TypeOK, BuiltIsPrivate, Building, environment, configurator, heap, requests
<1>1. CASE Lock \/ BuildDone \/ CancelOld \/ EventHandler
  BY <1>1, Stutters DEF Lock, BuildDone, CancelOld, EventHandler, Serving, ConfigHeld
<1>2. CASE \E i \in Issuers : BuildJWT(i) \/ BuildFails(i)
  BY <1>2, Stutters DEF BuildJWT, BuildFails, Return, Serving, ConfigHeld
<1>3. CASE \E a \in Authenticators, i \in Issuers : FetchProvider(a, i) \/ SetVerifier(a, i)
  BY <1>3, Stutters DEF FetchProvider, SetVerifier, Serving, ConfigHeld
<1>4. CASE EditFile \/ ToggleTokenEndpoint \/ UNCHANGED vars
  BY <1>4, Stutters DEF EditFile, ToggleTokenEndpoint, vars, Serving, ConfigHeld
<1>5. ASSUME loaded' = file, UNCHANGED <<step, iss, answer>>, Serving' = Serving,
             \A r \in Requests : ConfigHeld(r)' = ConfigHeld(r)
      PROVE  Promise!Read
  BY <1>5 DEF Promise!Read, Files, Phase, Decision
<1>6. CASE ValidateFails \/ Unchanged
  BY <1>5, <1>6 DEF ValidateFails, Unchanged, Serving, ConfigHeld, Promise!Next
<1>7. CASE \E a \in Authenticators : Changed(a)
  BY <1>5, <1>7 DEF Changed, Garbage, Serving, ConfigHeld, Promise!Next
<1>8. CASE Install
  <2>1. loaded \in Valid /\ Serving' = loaded
    BY <1>8 DEF Install, Serving
  <2>2. \A r \in Requests : ConfigHeld(r)' = ConfigHeld(r)
    BY <1>8 DEF Install, ConfigHeld
  <2>3. UNCHANGED <<loaded, step, iss, answer>>
    BY <1>8 DEF Install
  <2> QED BY <2>1, <2>2, <2>3 DEF Promise!Serve, Promise!Next, Phase, Decision
<1>9. ASSUME NEW r \in Requests, NEW i \in Issuers, Arrive(r, i) PROVE Promise!Ask(r, i)
  <2>1. [q \in Requests |-> Phase(step[q])]'
          = [[q \in Requests |-> Phase(step[q])] EXCEPT ![r] = "asked"]
    BY <1>9 DEF Arrive, Phase
  <2>2. [q \in Requests |-> Decision(answer[q])]'
          = [[q \in Requests |-> Decision(answer[q])] EXCEPT ![r] = Nil]
    BY <1>9 DEF Arrive, Decision
  <2>3. UNCHANGED <<loaded, Serving, [q \in Requests |-> ConfigHeld(q)]>>
    BY <1>9 DEF Arrive, Serving, ConfigHeld
  <2>4. Phase(step[r]) = "idle" /\ iss' = [iss EXCEPT ![r] = i]
    BY <1>9 DEF Arrive, Phase
  <2> QED BY <2>1, <2>2, <2>3, <2>4 DEF Promise!Ask
<1>10. ASSUME NEW r \in Requests, TokenAuthenticator(r) PROVE Promise!Take(r)
  <2>1. [q \in Requests |-> Phase(step[q])]'
          = [[q \in Requests |-> Phase(step[q])] EXCEPT ![r] = "taken"]
    BY <1>10 DEF TokenAuthenticator, Phase
  <2>2. [q \in Requests |-> ConfigHeld(q)]'
          = [[q \in Requests |-> ConfigHeld(q)] EXCEPT ![r] = Serving]
    BY <1>10 DEF TokenAuthenticator, ConfigHeld, Serving
  <2>3. UNCHANGED <<loaded, Serving, iss, [q \in Requests |-> Decision(answer[q])]>>
    BY <1>10 DEF TokenAuthenticator, Serving, Decision
  <2>4. Phase(step[r]) = "asked"
    BY <1>10 DEF TokenAuthenticator, Phase
  <2> QED BY <2>1, <2>2, <2>3, <2>4 DEF Promise!Take
<1>11. ASSUME NEW r \in Requests, Respond(r) PROVE Promise!Next \/ UNCHANGED Promise!vars
  <2>1. CASE Dispatch(r)
    <3>1. [q \in Requests |-> Phase(step[q])]' = [q \in Requests |-> Phase(step[q])]
      BY <2>1 DEF Dispatch, Phase
    <3> QED BY <2>1, <3>1 DEF Dispatch, Promise!vars, Serving, ConfigHeld, Decision
  <2>2. CASE Verify(r)
    <3>1. PICK out \in Outcomes : Answer(r, out)
      BY <2>2 DEF Verify, Outcomes
    <3>2. Promise!Decide(r, out = "accepted")
      BY <2>2, <3>1, AnswerDecides DEF Verify
    <3> QED BY <3>2 DEF Promise!Next
  <2>3. CASE NotInitialized(r) \/ NoAuthenticator(r) \/ VerifierNotInitialized(r)
    <3>1. PICK out \in Outcomes \ {"accepted"} : Answer(r, out)
      BY <2>3 DEF NotInitialized, NoAuthenticator, VerifierNotInitialized, Outcomes
    <3>2. Promise!Decide(r, out = "accepted")
      BY <2>3, <3>1, AnswerDecides DEF NotInitialized, NoAuthenticator, VerifierNotInitialized
    <3> QED BY <3>2 DEF Promise!Next
  <2> QED BY <1>11, <2>1, <2>2, <2>3 DEF Respond
<1> QED
  BY <1>1, <1>2, <1>3, <1>4, <1>6, <1>7, <1>8, <1>9, <1>10, <1>11
     DEF Next, HandleConfigChange, Promise!Next

(* Every request is decided by one configuration, valid and in force when  *)
(* it asked, and a reload only ever puts in force the valid content read   *)
(* last, for any number of requests, issuers and configurations.           *)
THEOREM HotReloadPromise == Spec => KeepsPromise
<1> QED
  BY Inductive, InitPromise, NextPromise, PTL DEF Spec, Promise!Spec, KeepsPromise
=============================================================================
