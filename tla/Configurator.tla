---------------------------- MODULE Configurator ----------------------------
(***************************************************************************)
(* config.Configurator: loads the authentication configuration, builds the *)
(* token authenticator it describes and swaps it in while requests are     *)
(* being authenticated.                                                    *)
(*                                                                         *)
(* Processes:                                                              *)
(*  - the goroutine that runs Run and then, from WatchUntil,               *)
(*    handleConfigChange: one action per step that another process can     *)
(*    tell apart;                                                          *)
(*  - one goroutine per request, which obtains the current authenticator   *)
(*    under the mutex and uses it without the mutex;                       *)
(*  - one goroutine per JWT authenticator, which polls the issuer's        *)
(*    discovery document until the lifecycle context is cancelled.         *)
(* The environment edits the file and takes the token endpoint of the      *)
(* client-credential sources up and down.                                  *)
(*                                                                         *)
(* A configuration is the content it was read from: the SHA-256 hash is    *)
(* taken to be injective, so a content is its own hash, and Nil stands for *)
(* the empty hash.  Authenticators are cells of a heap; a cell that no     *)
(* running code refers to is garbage and can be allocated again, which     *)
(* leaves the number of reloads unbounded.                                 *)
(***************************************************************************)
EXTENDS Naturals, FiniteSets

CONSTANTS Contents,         \* what the configuration file may hold
          Valid,            \* the contents that parse, convert and validate
          Issuers,          \* issuer URLs, in configurations and in tokens
          IssuersOf,        \* the issuers a valid configuration lists
          ClientCredential, \* those of them with a client-credential source
          Requests,
          Authenticators,
          Missing, Unread, Nil

ASSUME ConfigurationAssumption ==
    /\ Valid \subseteq Contents
    /\ Missing \notin Contents
    /\ Unread \notin Contents \cup {Missing}
    /\ Nil \notin Contents \cup Authenticators
    /\ IssuersOf \in [Valid -> (SUBSET Issuers) \ {{}}]
    /\ ClientCredential \in [Valid -> SUBSET Issuers]

(* Enough cells for the authenticator in use, the one being built and one  *)
(* held by each request.                                                   *)
ASSUME HeapAssumption ==
    /\ IsFiniteSet(Requests)
    /\ IsFiniteSet(Authenticators)
    /\ Cardinality(Authenticators) >= Cardinality(Requests) + 2

VARIABLES file,          \* what reading the path returns
          tokenEndpoint, \* the token endpoint answers
          pc,            \* where the configuration goroutine is
          caller,        \* who called handleConfigChange: "run" or "watch"
          mu,            \* the goroutine holds c.mu
          loaded,        \* what its last ReadFile returned
          lastErr,       \* its last handleConfigChange returned an error
          built,         \* the authenticator it is building
          active,        \* c.authenticatorWithCancel
          configHash,    \* c.configHash
          cfgOf,         \* the configuration an authenticator was built from
          ctx,           \* its lifecycle context: "none", "live", "cancelled"
          jwt,           \* its JWT authenticators, by issuer
          step,          \* where a request is
          iss,           \* the issuer its token names
          held,          \* the authenticator it obtained
          answer         \* its last answer

environment == <<file, tokenEndpoint>>
configurator == <<pc, caller, mu, loaded, lastErr, built, active, configHash>>
heap == <<cfgOf, ctx, jwt>>
requests == <<step, iss, held, answer>>
vars == <<environment, configurator, heap, requests>>

Files == Contents \cup {Missing}

Goroutine == {"lock", "validate", "build", "cancelOld", "install", "watch", "fatal"}

(* A JWT authenticator: not built, polling the discovery document, holding *)
(* the provider it fetched, with its verifier stored.                      *)
JWTs == {"none", "polling", "fetched", "ready"}

Outcomes == {"notInitialized", "noAuthenticator", "verifierNotInitialized",
             "accepted", "rejected", "contextCancelled"}

NoAnswer == [out |-> "none", cfg |-> Nil]

NoJWTs == [i \in Issuers |-> "none"]

Init ==
    /\ file \in Files
    /\ tokenEndpoint \in BOOLEAN
    /\ pc = "lock" /\ caller = "run" /\ mu = FALSE
    /\ loaded = Unread /\ lastErr = FALSE
    /\ built = Nil /\ active = Nil /\ configHash = Nil
    /\ cfgOf = [a \in Authenticators |-> Nil]
    /\ ctx = [a \in Authenticators |-> "none"]
    /\ jwt = [a \in Authenticators |-> NoJWTs]
    /\ step = [r \in Requests |-> "idle"]
    /\ iss \in [Requests -> Issuers]
    /\ held = [r \in Requests |-> Nil]
    /\ answer = [r \in Requests |-> NoAnswer]

(* log.Fatalf on a failed Run ends the process, requests and all.          *)
Running == pc # "fatal"

-----------------------------------------------------------------------------
(* handleConfigChange.                                                     *)

Lock ==
    /\ pc = "lock"
    /\ ~mu
    /\ mu' = TRUE
    /\ pc' = "validate"
    /\ UNCHANGED <<environment, caller, loaded, lastErr, built, active, configHash, heap, requests>>

(* handleConfigChange returns, and the deferred Unlock runs.  Run reports  *)
(* its error to main, which exits; the watch callback only logs it.        *)
Return(err) ==
    /\ mu' = FALSE
    /\ built' = Nil
    /\ lastErr' = err
    /\ pc' = IF err /\ caller = "run" THEN "fatal" ELSE "watch"
    /\ caller' = "watch"

(* Validate fails to read, parse, convert or validate the file.            *)
ValidateFails ==
    /\ pc = "validate"
    /\ file \notin Valid
    /\ loaded' = file
    /\ Return(TRUE)
    /\ UNCHANGED <<environment, active, configHash, heap, requests>>

Unchanged ==
    /\ pc = "validate"
    /\ file \in Valid
    /\ configHash # Nil /\ file = configHash
    /\ loaded' = file
    /\ Return(FALSE)
    /\ UNCHANGED <<environment, active, configHash, heap, requests>>

Garbage(a) ==
    /\ a # active
    /\ ctx[a] # "live"
    /\ \A r \in Requests : held[r] # a

(* Wrong: the error of Validate is ignored.                                *)
Changed_Unvalidated(a) ==
    /\ pc = "validate"
    /\ configHash = Nil \/ file # configHash
    /\ Garbage(a)
    /\ loaded' = file
    /\ built' = a
    /\ cfgOf' = [cfgOf EXCEPT ![a] = file]
    /\ ctx' = [ctx EXCEPT ![a] = "live"]
    /\ jwt' = [jwt EXCEPT ![a] = NoJWTs]
    /\ pc' = "build"
    /\ UNCHANGED <<environment, caller, mu, lastErr, active, configHash, requests>>

(* Wrong: the old context is cancelled before the new authenticator is     *)
(* built.                                                                  *)
Changed_CancelsOld(a) ==
    /\ pc = "validate"
    /\ file \in Valid
    /\ configHash = Nil \/ file # configHash
    /\ Garbage(a)
    /\ loaded' = file
    /\ built' = a
    /\ cfgOf' = [cfgOf EXCEPT ![a] = file]
    /\ ctx' = [b \in Authenticators |->
                 IF b = a THEN "live" ELSE IF b = active THEN "cancelled" ELSE ctx[b]]
    /\ jwt' = [jwt EXCEPT ![a] = NoJWTs]
    /\ pc' = "build"
    /\ UNCHANGED <<environment, caller, mu, lastErr, active, configHash, requests>>

(* Wrong: the hash is stored before the authenticator is built.            *)
Changed_StoresHash(a) ==
    /\ pc = "validate"
    /\ file \in Valid
    /\ configHash = Nil \/ file # configHash
    /\ Garbage(a)
    /\ loaded' = file
    /\ configHash' = file
    /\ built' = a
    /\ cfgOf' = [cfgOf EXCEPT ![a] = file]
    /\ ctx' = [ctx EXCEPT ![a] = "live"]
    /\ jwt' = [jwt EXCEPT ![a] = NoJWTs]
    /\ pc' = "build"
    /\ UNCHANGED <<environment, caller, mu, lastErr, active, requests>>

(* The configuration is new: a context for its authenticator is made.      *)
Changed(a) ==
    /\ pc = "validate"
    /\ file \in Valid
    /\ configHash = Nil \/ file # configHash
    /\ Garbage(a)
    /\ loaded' = file
    /\ built' = a
    /\ cfgOf' = [cfgOf EXCEPT ![a] = file]
    /\ ctx' = [ctx EXCEPT ![a] = "live"]
    /\ jwt' = [jwt EXCEPT ![a] = NoJWTs]
    /\ pc' = "build"
    /\ UNCHANGED <<environment, caller, mu, lastErr, active, configHash, requests>>

(* TokenAuthenticatorForAuthenticationConfiguration builds one JWT         *)
(* authenticator after the other.  A client-credential source makes        *)
(* oidc.New fetch a first access token.                                    *)
CanBuild(i) == i \in ClientCredential[cfgOf[built]] => tokenEndpoint

BuildJWT(i) ==
    /\ pc = "build"
    /\ i \in IssuersOf[cfgOf[built]]
    /\ jwt[built][i] = "none"
    /\ CanBuild(i)
    /\ jwt' = [jwt EXCEPT ![built][i] = "polling"]
    /\ UNCHANGED <<environment, configurator, cfgOf, ctx, requests>>

(* Wrong: the context of the failed build is not cancelled.                *)
BuildFails_NoCancel(i) ==
    /\ pc = "build"
    /\ i \in IssuersOf[cfgOf[built]]
    /\ jwt[built][i] = "none"
    /\ ~CanBuild(i)
    /\ Return(TRUE)
    /\ UNCHANGED <<environment, loaded, active, configHash, heap, requests>>

(* Wrong: the mutex is not released on the error path.                     *)
BuildFails_KeepsLock(i) ==
    /\ pc = "build"
    /\ i \in IssuersOf[cfgOf[built]]
    /\ jwt[built][i] = "none"
    /\ ~CanBuild(i)
    /\ ctx' = [ctx EXCEPT ![built] = "cancelled"]
    /\ built' = Nil
    /\ lastErr' = TRUE
    /\ pc' = IF caller = "run" THEN "fatal" ELSE "watch"
    /\ caller' = "watch"
    /\ UNCHANGED <<environment, mu, loaded, active, configHash, cfgOf, jwt, requests>>

(* The build fails and the new context is cancelled.                       *)
BuildFails(i) ==
    /\ pc = "build"
    /\ i \in IssuersOf[cfgOf[built]]
    /\ jwt[built][i] = "none"
    /\ ~CanBuild(i)
    /\ ctx' = [ctx EXCEPT ![built] = "cancelled"]
    /\ Return(TRUE)
    /\ UNCHANGED <<environment, loaded, active, configHash, cfgOf, jwt, requests>>

(* Wrong: a JWT authenticator that cannot be built is left out.            *)
BuildDone_Partial ==
    /\ pc = "build"
    /\ pc' = "cancelOld"
    /\ UNCHANGED <<environment, caller, mu, loaded, lastErr, built, active, configHash, heap, requests>>

BuildDone ==
    /\ pc = "build"
    /\ \A i \in IssuersOf[cfgOf[built]] : jwt[built][i] # "none"
    /\ pc' = "cancelOld"
    /\ UNCHANGED <<environment, caller, mu, loaded, lastErr, built, active, configHash, heap, requests>>

CancelOld ==
    /\ pc = "cancelOld"
    /\ pc' = "install"
    /\ ctx' = [a \in Authenticators |-> IF a = active THEN "cancelled" ELSE ctx[a]]
    /\ UNCHANGED <<environment, caller, mu, loaded, lastErr, built, active, configHash, cfgOf, jwt, requests>>

Install ==
    /\ pc = "install"
    /\ active' = built
    /\ configHash' = loaded
    /\ Return(FALSE)
    /\ UNCHANGED <<environment, loaded, heap, requests>>

(* WatchUntil calls the event handler.                                     *)
EventHandler ==
    /\ pc = "watch"
    /\ pc' = "lock"
    /\ UNCHANGED <<environment, caller, mu, loaded, lastErr, built, active, configHash, heap, requests>>

HandleConfigChange ==
    \/ Lock \/ ValidateFails \/ Unchanged \/ BuildDone \/ CancelOld \/ Install
    \/ \E a \in Authenticators : Changed(a)
    \/ \E i \in Issuers : BuildJWT(i) \/ BuildFails(i)

-----------------------------------------------------------------------------
(* The discovery goroutine of JWT authenticator i of authenticator a.  The *)
(* provider is fetched with the lifecycle context; a fetch that is over    *)
(* stores its verifier even if the context is cancelled in between.        *)

FetchProvider(a, i) ==
    /\ Running
    /\ ctx[a] = "live"
    /\ jwt[a][i] = "polling"
    /\ jwt' = [jwt EXCEPT ![a][i] = "fetched"]
    /\ UNCHANGED <<environment, configurator, cfgOf, ctx, requests>>

SetVerifier(a, i) ==
    /\ Running
    /\ jwt[a][i] = "fetched"
    /\ jwt' = [jwt EXCEPT ![a][i] = "ready"]
    /\ UNCHANGED <<environment, configurator, cfgOf, ctx, requests>>

-----------------------------------------------------------------------------
(* JWT.AuthenticateToken for request r.                                    *)

(* A token review arrives whose token names issuer i.                      *)
Arrive(r, i) ==
    /\ Running
    /\ step[r] = "idle"
    /\ step' = [step EXCEPT ![r] = "lock"]
    /\ iss' = [iss EXCEPT ![r] = i]
    /\ answer' = [answer EXCEPT ![r] = NoAnswer]
    /\ UNCHANGED <<environment, configurator, heap, held>>

(* TokenAuthenticator: a read of the current authenticator under c.mu.     *)
TokenAuthenticator(r) ==
    /\ Running
    /\ step[r] = "lock"
    /\ ~mu
    /\ held' = [held EXCEPT ![r] = active]
    /\ step' = [step EXCEPT ![r] = "dispatch"]
    /\ UNCHANGED <<environment, configurator, heap, iss, answer>>

ConfigHeld(r) == IF held[r] = Nil THEN Nil ELSE cfgOf[held[r]]

Answer(r, out) ==
    /\ answer' = [answer EXCEPT ![r] = [out |-> out, cfg |-> ConfigHeld(r)]]
    /\ step' = [step EXCEPT ![r] = "idle"]
    /\ held' = [held EXCEPT ![r] = Nil]
    /\ UNCHANGED <<environment, configurator, heap, iss>>

(* No configuration was ever loaded.                                       *)
NotInitialized(r) ==
    /\ Running
    /\ step[r] = "dispatch"
    /\ held[r] = Nil
    /\ Answer(r, "notInitialized")

(* The union asks every JWT authenticator; none has the token's issuer.    *)
NoAuthenticator(r) ==
    /\ Running
    /\ step[r] = "dispatch"
    /\ held[r] # Nil
    /\ iss[r] \notin IssuersOf[cfgOf[held[r]]]
    /\ Answer(r, "noAuthenticator")

(* The one that has it holds no verifier yet.                              *)
VerifierNotInitialized(r) ==
    /\ Running
    /\ step[r] = "dispatch"
    /\ held[r] # Nil
    /\ iss[r] \in IssuersOf[cfgOf[held[r]]]
    /\ jwt[held[r]][iss[r]] # "ready"
    /\ Answer(r, "verifierNotInitialized")

(* Wrong: the authenticator is obtained a second time.                     *)
Dispatch_Reobtains(r) ==
    /\ Running
    /\ step[r] = "dispatch"
    /\ held[r] # Nil
    /\ jwt[held[r]][iss[r]] = "ready"
    /\ step' = [step EXCEPT ![r] = "verify"]
    /\ held' = [held EXCEPT ![r] = active]
    /\ UNCHANGED <<environment, configurator, heap, iss, answer>>

(* It has one, and goes on to verify the token and map its claims.         *)
Dispatch(r) ==
    /\ Running
    /\ step[r] = "dispatch"
    /\ held[r] # Nil
    /\ jwt[held[r]][iss[r]] = "ready"
    /\ step' = [step EXCEPT ![r] = "verify"]
    /\ UNCHANGED <<environment, configurator, heap, iss, held, answer>>

(* What the token and the issuer's keys decide is left open.  Keys that    *)
(* are not cached are fetched with the lifecycle context.                  *)
Verify(r) ==
    /\ Running
    /\ step[r] = "verify"
    /\ \E out \in {"accepted", "rejected", "contextCancelled"} :
         /\ out = "contextCancelled" => ctx[held[r]] = "cancelled"
         /\ Answer(r, out)

Respond(r) ==
    \/ NotInitialized(r) \/ NoAuthenticator(r) \/ VerifierNotInitialized(r)
    \/ Dispatch(r) \/ Verify(r)

-----------------------------------------------------------------------------
(* The environment.                                                        *)

EditFile ==
    /\ file' \in Files
    /\ UNCHANGED <<tokenEndpoint, configurator, heap, requests>>

ToggleTokenEndpoint ==
    /\ tokenEndpoint' = ~tokenEndpoint
    /\ UNCHANGED <<file, configurator, heap, requests>>

-----------------------------------------------------------------------------
Next ==
    \/ HandleConfigChange
    \/ EventHandler
    \/ \E a \in Authenticators, i \in Issuers : FetchProvider(a, i) \/ SetVerifier(a, i)
    \/ \E r \in Requests, i \in Issuers : Arrive(r, i)
    \/ \E r \in Requests : TokenAuthenticator(r) \/ Respond(r)
    \/ EditFile
    \/ ToggleTokenEndpoint

Spec == Init /\ [][Next]_vars

(* The goroutines are scheduled and every network call they wait for has a *)
(* client timeout; the poll ticker of WatchUntil calls the event handler   *)
(* again and again; a Go mutex in starvation mode is handed to a goroutine *)
(* that has waited for it, however often the others lock it.               *)
FairSpec ==
    /\ Spec
    /\ WF_vars(HandleConfigChange)
    /\ WF_vars(EventHandler)
    /\ \A r \in Requests : SF_vars(TokenAuthenticator(r)) /\ WF_vars(Respond(r))

-----------------------------------------------------------------------------
(* Types; only content that passed Validate becomes the configuration of   *)
(* an authenticator or is remembered by its hash (configurator.go:110).    *)
TypeOK ==
    /\ file \in Files
    /\ tokenEndpoint \in BOOLEAN
    /\ pc \in Goroutine
    /\ caller \in {"run", "watch"}
    /\ mu \in BOOLEAN
    /\ loaded \in Files \cup {Unread}
    /\ lastErr \in BOOLEAN
    /\ built \in Authenticators \cup {Nil}
    /\ active \in Authenticators \cup {Nil}
    /\ configHash \in Valid \cup {Nil}
    /\ cfgOf \in [Authenticators -> Valid \cup {Nil}]
    /\ ctx \in [Authenticators -> {"none", "live", "cancelled"}]
    /\ jwt \in [Authenticators -> [Issuers -> JWTs]]
    /\ step \in [Requests -> {"idle", "lock", "dispatch", "verify"}]
    /\ iss \in [Requests -> Issuers]
    /\ held \in [Requests -> Authenticators \cup {Nil}]
    /\ answer \in [Requests -> [out : Outcomes \cup {"none"}, cfg : Valid \cup {Nil}]]

(* A request never obtains an authenticator whose lifecycle context is     *)
(* cancelled: whenever the mutex is free, the one in use is live, although *)
(* it is cancelled before its successor is stored (configurator.go:129).   *)
HandsOutLive ==
    ~mu /\ active # Nil => ctx[active] = "live"

(* No context leaks: one that is live belongs to the authenticator in use  *)
(* or to the one under construction, however the reloads before it ended.  *)
(* A leaked one would keep its discovery goroutines polling for ever.      *)
NoLeakedContext ==
    \A a \in Authenticators : ctx[a] = "live" => a \in {active, built}

(* A handleConfigChange that returns no error leaves in force what it has  *)
(* just read, also when the hash made it skip the build.                   *)
SuccessServesLoaded ==
    pc = "watch" /\ ~lastErr => active # Nil /\ cfgOf[active] = loaded

(* One JWT authenticator per issuer of its configuration, none besides.    *)
Complete(a) ==
    /\ cfgOf[a] \in Valid
    /\ \A i \in Issuers : jwt[a][i] # "none" <=> i \in IssuersOf[cfgOf[a]]

(* A request is only ever given an authenticator that is complete, and it  *)
(* stays the one it was while the request uses it.                         *)
FullyBuilt ==
    \A r \in Requests : held[r] # Nil => Complete(held[r])

(* Hot-reload keeps its promise (module HotReload).                        *)
Serving == IF active = Nil THEN Nil ELSE cfgOf[active]

Phase(s) == CASE s = "idle" -> "idle" [] s = "lock" -> "asked" [] OTHER -> "taken"

Decision(ans) ==
    IF ans = NoAnswer THEN Nil ELSE [accepted |-> ans.out = "accepted", by |-> ans.cfg]

Promise == INSTANCE HotReload WITH
    latest <- loaded,
    serving <- Serving,
    phase <- [r \in Requests |-> Phase(step[r])],
    snapshot <- [r \in Requests |-> ConfigHeld(r)],
    decision <- [r \in Requests |-> Decision(answer[r])]

(* Every step of the configurator is a step HotReload allows: a request is *)
(* decided by one configuration, valid and in force when it asked, and     *)
(* what is in force only becomes the valid content read last.              *)
KeepsPromise == Promise!Spec

(* Every request is answered, although reloads hold the mutex over the     *)
(* network calls of a build.                                               *)
EveryRequestAnswered ==
    \A r \in Requests : step[r] # "idle" ~> step[r] = "idle" \/ ~Running

-----------------------------------------------------------------------------
(* What comments and documents say that the code does not do.              *)

(* "once the lifecycleCtx is canceled, the authenticator must not be used" *)
(* (oidc.go:272): no request verifies a token with an authenticator whose  *)
(* context is cancelled.                                                   *)
NoUseAfterCancel ==
    \A r \in Requests : step[r] = "verify" => ctx[held[r]] = "live"

(* "If validation succeeds, a new token authenticator is built and swapped *)
(* in" (authentication-configuration.md:60).                               *)
ValidIsSwappedIn ==
    pc = "watch" /\ loaded \in Valid => Serving = loaded
=============================================================================
