---------------------------- MODULE TokenReview ----------------------------
(***************************************************************************)
(* The process padlok run, from start to exit: the HTTPS server, the       *)
(* goroutine that loads the configuration, and the token reviews in        *)
(* flight, with the time they spend waiting.                               *)
(*                                                                         *)
(* Time advances in steps of 500 ms and only when nothing can be done at   *)
(* once.  What takes time is a request to a token endpoint or to a source, *)
(* and a mutex held by someone who waits for one.  The keys of an issuer   *)
(* are taken to be cached; reading a file, CEL and cryptography take no    *)
(* time.                                                                   *)
(*                                                                         *)
(* Which claims a source adds is in JWTAuthenticator, which authenticator  *)
(* a reload swaps in is in Configurator: here a reload holds the mutex and *)
(* then finds the file unchanged or fails.                                 *)
(***************************************************************************)
EXTENDS Naturals, Sequences, FiniteSets

CONSTANTS Reviews,         \* connections of the API server
          Observed,        \* one of them, whose time is taken
          Configurator,    \* the goroutine that loads the configuration
          Authenticators,  \* the union: a sequence of issuer and sources
          maxTokenSources, \* client-credential sources a configuration may have
          Issuers,         \* issuers that tokens name
          Lifetimes,       \* how long a token endpoint may let a token live
          expiryDelta,     \* tokens that expire so soon are not reused
          shutdownTimeout, \* 30 s, less for model checking
          Nil

Getters == {"Anonymous", "RequestProvided", "ClientCredential"}

ASSUME AuthenticatorsAssumption ==
    /\ Authenticators \in Seq([issuer : Issuers, sources : Seq(Getters)])
    /\ \A a, b \in DOMAIN Authenticators :
         Authenticators[a].issuer = Authenticators[b].issuer => a = b

(* The timeouts of the two HTTP clients.                                   *)
externalSourceRequestTimeout == 1
tokenEndpointRequestTimeout == 2

ASSUME LifetimesAssumption ==
    /\ Lifetimes \subseteq Nat /\ Lifetimes # {}
    /\ \A l \in Lifetimes : l > externalSourceRequestTimeout
    /\ expiryDelta \in Nat /\ expiryDelta >= externalSourceRequestTimeout
    /\ shutdownTimeout \in Nat

Answers == {"refused", "error", "unauthenticated", "authenticated"}

ASSUME NamesAssumption ==
    /\ IsFiniteSet(Reviews) /\ Observed \in Reviews
    /\ Configurator \notin Reviews
    /\ Nil \notin Reviews \cup {Configurator}
    /\ Nil \notin Nat /\ Nil \notin Answers \cup {"failed", "ErrServerClosed"}

VARIABLES loader,    \* the configuration goroutine: where, since when
          loaded,    \* the first load has succeeded
          mutex,     \* c.mu and the mutexes of the token sources
          life,      \* what is left of the token that a token source caches
          review,    \* the reviews
          waited,    \* how long the observed one has waited where it is
          ctxDone,   \* the context of the command is cancelled
          listener,  \* the goroutine of ListenAndServeTLS
          serverErr, \* the channel it sends its error on
          serve,     \* where Serve is
          stopping   \* how long ago the context or the listener ended

server == <<ctxDone, listener, serverErr, serve, stopping>>
vars == <<loader, loaded, mutex, life, review, waited, server>>

TokenSources ==
    {t \in (DOMAIN Authenticators) \X
           UNION {DOMAIN Authenticators[a].sources : a \in DOMAIN Authenticators} :
        /\ t[2] \in DOMAIN Authenticators[t[1]].sources
        /\ Authenticators[t[1]].sources[t[2]] = "ClientCredential"}

mu == <<0, 0>>

(* Validation limits the sources of a configuration, whichever it is.      *)
ASSUME MaxTokenSourcesAssumption ==
    maxTokenSources \in Nat /\ Cardinality(TokenSources) <= maxTokenSources

(* The build of a configuration with n such sources fetches one token      *)
(* after the other, and tries each fetch twice to learn how the endpoint   *)
(* wants to be addressed.  What a reload builds is never what is being     *)
(* served, and may have as many sources as validation accepts.             *)
TimeToBuild(n) == n * 2 * tokenEndpointRequestTimeout

BuildTime == TimeToBuild(maxTokenSources)

(* The process runs until main returns or log.Fatalf is called.            *)
Running == loader.at # "fatal" /\ serve \notin {"nil", "error"}

NewReview == [step |-> "idle", issuer |-> Nil, asked |-> 0, source |-> 0, err |-> FALSE,
              token |-> Nil, timer |-> 0, answer |-> Nil, accepted |-> FALSE]

InFlight(v) == v.step \notin {"idle", "closed"}

Init ==
    /\ loader = [at |-> "start", timer |-> 0]
    /\ loaded = FALSE
    /\ mutex = [m \in TokenSources \cup {mu} |->
                  [holder |-> Nil, queue |-> <<>>, starving |-> FALSE]]
    /\ life = [t \in TokenSources |-> 0]
    /\ review = [r \in Reviews |-> NewReview]
    /\ waited = 0
    /\ ctxDone = FALSE
    /\ listener = "starting"
    /\ serverErr = Nil
    /\ serve = "select"
    /\ stopping = 0

-----------------------------------------------------------------------------
(* sync.Mutex.  A waiter that is woken may find that a newcomer was        *)
(* faster; if it has waited for a while the mutex is handed over in order  *)
(* from then on.                                                           *)

Free(m) == mutex[m].holder = Nil

Waiting(p) == IF p = Configurator THEN loader.timer > 0 ELSE review[p].timer > 0

Lock(m, p) ==
    LET q == mutex[m].queue
    IN [mutex[m] EXCEPT !.holder = p, !.starving = q # <<>> /\ Waiting(Head(q))]

Enqueue(m, p) == [mutex EXCEPT ![m].queue = Append(@, p)]

Unlock(mx) ==
    IF mx.starving
    THEN [holder |-> Head(mx.queue), queue |-> Tail(mx.queue), starving |-> Len(mx.queue) > 1]
    ELSE [mx EXCEPT !.holder = Nil]

Unlocked(m) == [mutex EXCEPT ![m] = Unlock(@)]

(* p waits for the mutex and has it now, or can have it.                   *)
Woken(m, p) ==
    LET mx == mutex[m]
    IN \/ mx.holder = p
       \/ Free(m) /\ mx.queue # <<>> /\ Head(mx.queue) = p

Woke(m, p) ==
    IF mutex[m].holder = p THEN mutex[m]
    ELSE [mutex[m] EXCEPT !.holder = p, !.queue = Tail(@)]

-----------------------------------------------------------------------------
(* Configurator.Run: handleConfigChange, once and then from the watch.     *)

HandleConfigChange ==
    /\ loader.at \in {"start", "idle"}
    /\ IF Free(mu)
       THEN loader' = [at |-> "build", timer |-> 0] /\ mutex' = [mutex EXCEPT ![mu] = Lock(mu, Configurator)]
       ELSE loader' = [at |-> "wait", timer |-> 0] /\ mutex' = Enqueue(mu, Configurator)
    /\ UNCHANGED <<loaded, life, review, waited, server>>

LoaderWoken ==
    /\ loader.at = "wait"
    /\ Woken(mu, Configurator)
    /\ mutex' = [mutex EXCEPT ![mu] = Woke(mu, Configurator)]
    /\ loader' = [at |-> "build", timer |-> 0]
    /\ UNCHANGED <<loaded, life, review, waited, server>>

(* The first authenticator has the tokens that its build fetched.          *)
FirstLoad ==
    /\ loader.at = "build" /\ ~loaded
    /\ loader.timer <= TimeToBuild(Cardinality(TokenSources))
    /\ loaded' = TRUE
    /\ life' \in [TokenSources -> Lifetimes]
    /\ loader' = [at |-> "idle", timer |-> 0]
    /\ mutex' = Unlocked(mu)
    /\ UNCHANGED <<review, waited, server>>

(* NewRunCommand: a first load that fails ends the process.                *)
LoadFails ==
    /\ loader.at = "build"
    /\ loader' = [at |-> IF loaded THEN "idle" ELSE "fatal", timer |-> 0]
    /\ mutex' = Unlocked(mu)
    /\ UNCHANGED <<loaded, life, review, waited, server>>

Loader == HandleConfigChange \/ LoaderWoken \/ FirstLoad \/ LoadFails

-----------------------------------------------------------------------------
(* Authenticate.ServeHTTP and what it calls, for review r.                 *)

(* The handler of the union and the source of it that r is at.             *)
Source(r) == <<review[r].asked, review[r].source>>

Set(r, v) ==
    /\ review' = [review EXCEPT ![r] = v]
    /\ waited' = IF r = Observed /\ (~InFlight(v) \/ <<v.asked, v.source>> # Source(r))
                 THEN 0 ELSE waited

(* A connection that has its answer during Shutdown is closed.             *)
Answered(v, status) ==
    [NewReview EXCEPT !.step = IF serve = "shutdown" THEN "closed" ELSE "idle",
                      !.answer = status, !.accepted = v.accepted,
                      !.issuer = IF status = "unauthenticated" THEN v.issuer ELSE Nil]

(* A request that is no POST (405), or whose body cannot be read or        *)
(* decoded (500).                                                          *)
Refuse(r) ==
    /\ serve \in {"select", "shutdown"} /\ listener # "starting"
    /\ review[r].step = "idle"
    /\ Set(r, Answered(NewReview, "refused"))
    /\ UNCHANGED <<loader, loaded, mutex, life, server>>

(* JWT.AuthenticateToken, once TokenAuthenticator has returned.            *)
Obtained(v) ==
    IF loaded THEN [v EXCEPT !.step = "union", !.asked = 1, !.timer = 0]
    ELSE Answered(v, "error")

(* A connection that was accepted may still send its request while         *)
(* Shutdown waits.                                                         *)
ServeHTTP(r) ==
    /\ serve \in {"select", "shutdown"} /\ listener # "starting"
    /\ review[r].step = "idle"
    /\ \E i \in Issuers :
         LET v == [NewReview EXCEPT !.issuer = i]
         IN IF Free(mu)
            THEN Set(r, Obtained(v)) /\ UNCHANGED mutex
            ELSE Set(r, [v EXCEPT !.step = "mu"]) /\ mutex' = Enqueue(mu, r)
    /\ UNCHANGED <<loader, loaded, life, server>>

TokenAuthenticator(r) ==
    /\ review[r].step = "mu"
    /\ Woken(mu, r)
    /\ mutex' = [mutex EXCEPT ![mu] = Unlock(Woke(mu, r))]
    /\ Set(r, Obtained(review[r]))
    /\ UNCHANGED <<loader, loaded, life, server>>

NextHandler(v) == [v EXCEPT !.step = "union", !.asked = v.asked + 1, !.source = 0]

(* unionAuthTokenHandler.AuthenticateToken: the handlers in turn, up to    *)
(* the first that accepts.  Only that of the token's issuer has an opinion *)
(* and verifies the token, which may fail.                                 *)
Union(r) ==
    LET v == review[r]
        rest == {a \in DOMAIN Authenticators :
                   a >= v.asked /\ Authenticators[a].issuer = v.issuer}
    IN /\ v.step = "union"
       /\ \/ /\ rest = {}
             /\ Set(r, Answered(v, IF v.err THEN "error" ELSE "unauthenticated"))
          \/ \E a \in rest :
                \/ Set(r, NextHandler([v EXCEPT !.asked = a, !.err = TRUE]))
                \/ Set(r, [v EXCEPT !.step = "expand", !.asked = a, !.source = 1])
       /\ UNCHANGED <<loader, loaded, mutex, life, server>>

Expanding(r) ==
    /\ review[r].step = "expand"
    /\ review[r].source \in DOMAIN Authenticators[review[r].asked].sources

Getter(r) == Authenticators[review[r].asked].sources[review[r].source]

NextSource(v) ==
    [v EXCEPT !.step = "expand", !.source = v.source + 1, !.token = Nil, !.timer = 0]

WithToken(v, l) == [v EXCEPT !.step = "request", !.token = l, !.timer = 0]

(* Its conditions are not met or cannot be evaluated.                      *)
NotWanted(r) ==
    /\ Expanding(r)
    /\ Set(r, NextSource(review[r]))
    /\ UNCHANGED <<loader, loaded, mutex, life, server>>

(* Anonymous gives no token, RequestProvided that of the request.          *)
NoFetch(r) ==
    /\ Expanding(r)
    /\ Getter(r) # "ClientCredential"
    /\ Set(r, WithToken(review[r], Nil))
    /\ UNCHANGED <<loader, loaded, mutex, life, server>>

(* Wrong: the token of the first fetch is kept.                            *)
GetAccessToken_Once(r) ==
    /\ Expanding(r)
    /\ Getter(r) = "ClientCredential"
    /\ Set(r, WithToken(review[r], life[Source(r)]))
    /\ UNCHANGED <<loader, loaded, mutex, life, server>>

(* oauth2's reuseTokenSource.Token, once r holds the mutex: a token that   *)
(* lives long enough is reused, and another is fetched otherwise.          *)
Token(r, mx) ==
    IF life[Source(r)] > expiryDelta
    THEN /\ Set(r, WithToken(review[r], life[Source(r)]))
         /\ mutex' = [mutex EXCEPT ![Source(r)] = Unlock(mx)]
    ELSE /\ Set(r, [review[r] EXCEPT !.step = "fetch", !.timer = 0])
         /\ mutex' = [mutex EXCEPT ![Source(r)] = mx]

(* All reviews share the token source, and its mutex, of a source; the     *)
(* context of the request is not used.                                     *)
GetAccessToken(r) ==
    /\ Expanding(r)
    /\ Getter(r) = "ClientCredential"
    /\ IF Free(Source(r))
       THEN Token(r, Lock(Source(r), r))
       ELSE /\ Set(r, [review[r] EXCEPT !.step = "wait", !.timer = 0])
            /\ mutex' = Enqueue(Source(r), r)
    /\ UNCHANGED <<loader, loaded, life, server>>

SourceWoken(r) ==
    /\ review[r].step = "wait"
    /\ Woken(Source(r), r)
    /\ Token(r, Woke(Source(r), r))
    /\ UNCHANGED <<loader, loaded, life, server>>

(* The fetch uses the context of the configuration, not of the request.    *)
FetchSucceeds(r) ==
    /\ review[r].step = "fetch"
    /\ ~ctxDone
    /\ \E l \in Lifetimes :
         /\ life' = [life EXCEPT ![Source(r)] = l]
         /\ Set(r, WithToken(review[r], l))
    /\ mutex' = Unlocked(Source(r))
    /\ UNCHANGED <<loader, loaded, server>>

(* Wrong: the mutex is not released.                                       *)
FetchFails_KeepsLock(r) ==
    /\ review[r].step = "fetch"
    /\ Set(r, NextSource(review[r]))
    /\ UNCHANGED <<loader, loaded, mutex, life, server>>

FetchFails(r) ==
    /\ review[r].step = "fetch"
    /\ Set(r, NextSource(review[r]))
    /\ mutex' = Unlocked(Source(r))
    /\ UNCHANGED <<loader, loaded, life, server>>

(* The URL does not resolve, a response or an error: in any case the next  *)
(* source is consulted.                                                    *)
Do(r) ==
    /\ review[r].step = "request"
    /\ Set(r, NextSource(review[r]))
    /\ UNCHANGED <<loader, loaded, mutex, life, server>>

(* Wrong: the union asks the next handler although this one accepted.      *)
Decide_AsksOn(r) ==
    /\ review[r].step = "expand" /\ ~Expanding(r)
    /\ \/ Set(r, NextHandler([review[r] EXCEPT !.err = TRUE]))
       \/ Set(r, NextHandler([review[r] EXCEPT !.accepted = TRUE]))
    /\ UNCHANGED <<loader, loaded, mutex, life, server>>

(* The claims are mapped and checked; an error is the union's to report.   *)
Decide(r) ==
    /\ review[r].step = "expand" /\ ~Expanding(r)
    /\ \/ Set(r, NextHandler([review[r] EXCEPT !.err = TRUE]))
       \/ Set(r, Answered([review[r] EXCEPT !.accepted = TRUE], "authenticated"))
    /\ UNCHANGED <<loader, loaded, mutex, life, server>>

Proceed(r) ==
    \/ TokenAuthenticator(r) \/ Union(r) \/ NotWanted(r) \/ NoFetch(r) \/ GetAccessToken(r)
    \/ SourceWoken(r) \/ FetchSucceeds(r) \/ FetchFails(r) \/ Do(r) \/ Decide(r)

-----------------------------------------------------------------------------
(* Instance.Serve and net/http's server.                                   *)

others == <<loader, loaded, mutex, life, review, waited>>

CancelContext ==
    /\ ~ctxDone /\ ctxDone' = TRUE
    /\ UNCHANGED <<others, listener, serverErr, serve, stopping>>

Listen ==
    /\ listener = "starting" /\ serve = "select"
    /\ listener' = "serving"
    /\ UNCHANGED <<others, ctxDone, serverErr, serve, stopping>>

(* ListenAndServeTLS returns: the port, the certificate or the listener    *)
(* fails, or Shutdown has been called.  The channel has room for it.       *)
ListenerReturns ==
    /\ listener # "returned"
    /\ \/ serverErr' = "failed"
       \/ serve # "select" /\ serverErr' = "ErrServerClosed"
    /\ listener' = "returned"
    /\ UNCHANGED <<others, ctxDone, serve, stopping>>

(* Wrong: Serve does not wait for serverErr.                               *)
ListenerFailed_Ignored == FALSE

(* What Serve waits for, and need not wait for any longer.                 *)
ListenerFailed == serve = "select" /\ serverErr # Nil

Cancelled == serve = "select" /\ ctxDone

NoneActive == \A r \in Reviews : ~InFlight(review[r])

ShutdownOver == serve = "shutdown" /\ (NoneActive \/ stopping = shutdownTimeout)

ServerClosed == serve = "receive" /\ serverErr # Nil

ServeReady == ListenerFailed \/ Cancelled \/ ShutdownOver \/ ServerClosed

SelectServerErr ==
    /\ ListenerFailed
    /\ serve' = "error" /\ serverErr' = Nil
    /\ UNCHANGED <<others, ctxDone, listener, stopping>>

SelectDone ==
    /\ Cancelled
    /\ serve' = "shutdown"
    /\ UNCHANGED <<others, ctxDone, listener, serverErr, stopping>>

(* Wrong: Close in place of Shutdown.                                      *)
Shutdown_Closes ==
    /\ serve = "shutdown"
    /\ serve' = "receive"
    /\ UNCHANGED <<others, ctxDone, listener, serverErr, stopping>>

(* Shutdown waits until no connection is active, or for its timeout.       *)
Shutdown ==
    /\ ShutdownOver
    /\ \/ NoneActive /\ serve' = "receive"
       \/ stopping = shutdownTimeout /\ serve' = "error"
    /\ UNCHANGED <<others, ctxDone, listener, serverErr, stopping>>

ReceiveServerErr ==
    /\ ServerClosed
    /\ serve' = IF serverErr = "ErrServerClosed" THEN "nil" ELSE "error"
    /\ serverErr' = Nil
    /\ UNCHANGED <<others, ctxDone, listener, stopping>>

(* What Serve does of itself, and what may happen to it.                   *)
Serve == SelectServerErr \/ SelectDone \/ Shutdown \/ ReceiveServerErr

ServerEvent == Listen \/ ListenerReturns \/ CancelContext

-----------------------------------------------------------------------------
(* Wrong: the client of the token endpoint has no timeout.                 *)
TimedOut_Source(v) == v.step = "request" /\ v.timer = externalSourceRequestTimeout

(* A client's timeout has passed.                                          *)
TimedOut(v) ==
    \/ v.step = "request" /\ v.timer = externalSourceRequestTimeout
    \/ v.step = "fetch" /\ v.timer = tokenEndpointRequestTimeout

(* A review that does not have to wait does not.                           *)
Waits(r) ==
    LET v == review[r]
    IN CASE v.step = "mu" -> ~Woken(mu, r)
         [] v.step = "wait" -> ~Woken(Source(r), r)
         [] v.step \in {"request", "fetch"} -> ~TimedOut(v)
         [] OTHER -> ~InFlight(v)

(* Half a second passes.  Nobody who can go on at once waits for it.       *)
Tick ==
    /\ \A r \in Reviews : Waits(r)
    /\ loader.at = "wait" => ~Woken(mu, Configurator)
    /\ loader.at = "build" => loader.timer < BuildTime
    /\ ~ServeReady
    /\ serve # "select" => listener = "returned"
    /\ loader' = CASE loader.at = "build" -> [loader EXCEPT !.timer = @ + 1]
                   [] loader.at = "wait" -> [loader EXCEPT !.timer = 1]
                   [] OTHER -> loader
    /\ review' = [r \in Reviews |->
                    CASE review[r].step \in {"fetch", "request"} -> [review[r] EXCEPT !.timer = @ + 1]
                      [] review[r].step \in {"mu", "wait"} -> [review[r] EXCEPT !.timer = 1]
                      [] OTHER -> review[r]]
    /\ waited' = IF InFlight(review[Observed]) THEN waited + 1 ELSE 0
    /\ life' = [t \in TokenSources |-> IF life[t] = 0 THEN 0 ELSE life[t] - 1]
    /\ stopping' = IF ctxDone \/ listener = "returned" THEN stopping + 1 ELSE 0
    /\ UNCHANGED <<loaded, mutex, ctxDone, listener, serverErr, serve>>

Exited == ~Running /\ UNCHANGED vars

Next ==
    \/ /\ Running
       /\ \/ Loader
          \/ \E r \in Reviews : Refuse(r) \/ ServeHTTP(r) \/ Proceed(r)
          \/ Serve \/ ServerEvent
          \/ Tick
    \/ Exited

Spec == Init /\ [][Next]_vars

-----------------------------------------------------------------------------
Steps == {"idle", "closed", "mu", "union", "expand", "wait", "fetch", "request"}

Review == [step : Steps, issuer : Issuers \cup {Nil}, asked : Nat, source : Nat,
           err : BOOLEAN, token : Nat \cup {Nil}, timer : Nat,
           answer : Answers \cup {Nil}, accepted : BOOLEAN]

Processes == Reviews \cup {Configurator}

Mutex == [holder : Processes \cup {Nil}, queue : Seq(Processes), starving : BOOLEAN]

(* Process p is in the queue of a mutex that it waits for, or holds one in *)
(* its critical section; either may be handed the mutex while it waits.    *)
WaitsFor(m, p) ==
    IF p = Configurator THEN m = mu /\ loader.at = "wait"
    ELSE IF m = mu THEN review[p].step = "mu"
    ELSE review[p].step = "wait" /\ Source(p) = m

InSection(m, p) ==
    IF p = Configurator THEN m = mu /\ loader.at = "build"
    ELSE m # mu /\ review[p].step = "fetch" /\ Source(p) = m

(* Types; a mutex is held by who is in its critical section, and those     *)
(* that queue for it are those that wait for it.                           *)
TypeOK ==
    /\ loader \in [at : {"start", "wait", "build", "idle", "fatal"}, timer : Nat]
    /\ loaded \in BOOLEAN
    /\ mutex \in [TokenSources \cup {mu} -> Mutex]
    /\ life \in [TokenSources -> Nat]
    /\ review \in [Reviews -> Review]
    /\ waited \in Nat
    /\ ctxDone \in BOOLEAN
    /\ listener \in {"starting", "serving", "returned"}
    /\ serverErr \in {Nil, "failed", "ErrServerClosed"}
    /\ serve \in {"select", "shutdown", "receive", "nil", "error"}
    /\ stopping \in Nat
    /\ \A m \in DOMAIN mutex :
         LET mx == mutex[m]
         IN /\ mx.holder # Nil => WaitsFor(m, mx.holder) \/ InSection(m, mx.holder)
            /\ \A k \in DOMAIN mx.queue : WaitsFor(m, mx.queue[k])

(* The token sent to a source is still good when the source answers or the *)
(* request times out, although all reviews take it from one cache.         *)
FreshToken ==
    \A r \in Reviews :
        review[r].step = "request" /\ review[r].token # Nil => review[r].token > review[r].timer

(* How long a review can be kept waiting: for the authenticator two        *)
(* reloads of as many token sources as validation accepts, all of them     *)
(* slow; at each source its request, and if it needs a token as many       *)
(* failing fetches as there are reviews, and one.                          *)
Patience(r) ==
    CASE review[r].step = "mu" -> 2 * BuildTime
      [] Source(r) \in TokenSources ->
           (Cardinality(Reviews) + 1) * tokenEndpointRequestTimeout + externalSourceRequestTimeout
      [] OTHER -> externalSourceRequestTimeout

InTime == waited <= Patience(Observed)

(* The answer is the verdict of the one authenticator that has the issuer  *)
(* of the token, wherever it is in the union.                              *)
VerdictStands ==
    \A r \in Reviews :
        LET v == review[r]
        IN /\ v.answer = "authenticated" <=> ~InFlight(v) /\ v.accepted
           /\ v.answer = "unauthenticated" =>
                \A a \in DOMAIN Authenticators : Authenticators[a].issuer # v.issuer

(* If Serve returns nil, and the process exits with it, then no review was *)
(* cut off.                                                                *)
Drained == serve = "nil" => \A r \in Reviews : ~InFlight(review[r])

(* Serve returns at once when the listener fails and within the timeout of *)
(* Shutdown when the context is cancelled, whatever the reviews are doing. *)
ServeReturns ==
    /\ stopping <= shutdownTimeout
    /\ serve = "select" => stopping = 0
=============================================================================
