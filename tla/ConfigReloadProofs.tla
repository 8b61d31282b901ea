------------------------- MODULE ConfigReloadProofs -------------------------
(***************************************************************************)
(* The composition of Configurator and WatchUntil, for any contents,       *)
(* issuers, requests and authenticators: it implements both its parts, so  *)
(* that what is proved of each holds of it, and what the two guarantee     *)
(* together is that a settled watch serves what the file holds.            *)
(***************************************************************************)
EXTENDS ConfigReload, ConfiguratorProofs

WatchProofs == INSTANCE WatchUntilProofs

(* Where the watch loop and handleConfigChange are, and that what one read *)
(* is what the other loaded.                                               *)
Coupled ==
    /\ caller = "run" => loop = "start"
    /\ loop = "start" /\ caller = "watch" => pc \in {"watch", "fatal"}
    /\ pc = "watch" => caller = "watch"
    /\ loop \in {"start", "add"} => seen = Unread
    /\ loop \in {"add", "select"} => pc = "watch"
    /\ loop = "handler" => pc \in {"lock", "validate"}
    /\ loop = "returning" => pc \in {"build", "cancelOld", "install", "watch"}
    /\ loop \in {"returning", "select"} /\ seen # Unread => loaded = seen

-----------------------------------------------------------------------------
(* Every step of the composition is a step of Configurator or leaves it    *)
(* alone (configurator.go:66-136).                                         *)
LEMMA StepsOfConfigurator == Watch!TypeOK /\ [ReloadNext]_reloadVars => [Next]_vars
<1> SUFFICES ASSUME Watch!TypeOK, [ReloadNext]_reloadVars
             PROVE  [Next]_vars
  OBVIOUS
<1>1. CASE RunLoads
  BY <1>1 DEF RunLoads, Next
<1>2. CASE StartsWatch \/ WatchError \/ HandlerReturns
  BY <1>2 DEF StartsWatch, WatchError, HandlerReturns
<1>3. CASE FirstCall \/ EventCalls \/ TickCalls
  BY <1>3 DEF FirstCall, EventCalls, TickCalls, Next
<1>4. CASE HandlerReads
  BY <1>4 DEF HandlerReads, Reads, HandleConfigChange, Next
<1>5. CASE HandlerWorks
  BY <1>5 DEF HandlerWorks, HandleConfigChange, Next
<1>6. CASE Edit
  <2>1. file' \in Files
    BY <1>6 DEF Edit, Watch!Edit, Watch!WriteInPlace, Watch!SwapLink, Watch!Create,
                Watch!Replace, Watch!DeleteOrphan, Watch!TypeOK, Watch!Files, Files
  <2> QED
    BY <1>6, <2>1 DEF Edit, EditFile, Next
<1>7. CASE Others
  BY <1>7 DEF Others, Next
<1>8. CASE UNCHANGED reloadVars
  BY <1>8 DEF reloadVars
<1> QED
  BY <1>1, <1>2, <1>3, <1>4, <1>5, <1>6, <1>7, <1>8 DEF ReloadNext

(* Every step of the composition is a step of WatchUntil or leaves it      *)
(* alone: handleConfigChange is the eventHandler it expects, and reads the *)
(* file once per call (watchuntil.go:61-151).                              *)
LEMMA StepsOfWatch == [ReloadNext]_reloadVars => [Watch!Next]_(Watch!watchVars)
<1> SUFFICES ASSUME [ReloadNext]_reloadVars
             PROVE  [Watch!Next]_(Watch!watchVars)
  OBVIOUS
<1>1. CASE RunLoads
  <2>1. UNCHANGED file
    BY <1>1 DEF RunLoads, HandleConfigChange, Lock, ValidateFails, Unchanged, BuildDone,
                CancelOld, Install, Changed, BuildJWT, BuildFails, environment
  <2> QED
    BY <1>1, <2>1 DEF RunLoads, watchState, Watch!watchVars
<1>2. CASE StartsWatch \/ WatchError \/ HandlerReturns
  BY <1>2 DEF StartsWatch, WatchError, HandlerReturns, Watch!Next, Watch!Loop
<1>3. CASE FirstCall \/ EventCalls \/ TickCalls
  BY <1>3 DEF FirstCall, EventCalls, TickCalls, Watch!Next, Watch!Loop
<1>4. CASE HandlerReads
  BY <1>4 DEF HandlerReads, Watch!Next, Watch!Loop
<1>5. CASE HandlerWorks
  <2>1. UNCHANGED file
    BY <1>5 DEF HandlerWorks, Lock, BuildDone, CancelOld, Install, BuildJWT, BuildFails,
                environment
  <2> QED
    BY <1>5, <2>1 DEF HandlerWorks, watchState, Watch!watchVars
<1>6. CASE Edit
  BY <1>6 DEF Edit, Watch!Next
<1>7. CASE Others
  <2>1. UNCHANGED file
    BY <1>7 DEF Others, FetchProvider, SetVerifier, Arrive, TokenAuthenticator, Respond,
                NotInitialized, NoAuthenticator, VerifierNotInitialized, Dispatch, Verify,
                Answer, ToggleTokenEndpoint, environment
  <2> QED
    BY <1>7, <2>1 DEF Others, watchState, Watch!watchVars
<1>8. CASE UNCHANGED reloadVars
  BY <1>8 DEF reloadVars, vars, environment, watchState, Watch!watchVars
<1> QED
  BY <1>1, <1>2, <1>3, <1>4, <1>5, <1>6, <1>7, <1>8 DEF ReloadNext

(* The composition implements the file watch: all that WatchUntil says of   *)
(* a handler that reads the file holds of handleConfigChange               *)
(* (configurator.go:83-104).                                               *)
THEOREM ImplementsWatch == ReloadSpec => Watch!Spec
<1>1. ReloadInit => Watch!Init
  BY DEF ReloadInit
<1> QED
  BY <1>1, StepsOfWatch, PTL DEF ReloadSpec, Watch!Spec

(* The watch of ConfigReload is the one WatchUntilProofs is about.         *)
LEMMA SameWatch ==
    /\ Watch!Init = WatchProofs!Init
    /\ Watch!watchVars = WatchProofs!watchVars
    /\ Watch!Next = WatchProofs!Next
    /\ Watch!TypeOK = WatchProofs!TypeOK
    /\ Watch!NoMissedChange = WatchProofs!NoMissedChange
<1>1. Watch!Init = WatchProofs!Init /\ Watch!watchVars = WatchProofs!watchVars
  BY DEF Watch!Init, WatchProofs!Init, Watch!watchVars, WatchProofs!watchVars,
         Watch!Files, WatchProofs!Files
<1>2. Watch!Loop = WatchProofs!Loop
  BY DEF Watch!Loop, WatchProofs!Loop, Watch!NewWatcher,
         WatchProofs!NewWatcher, Watch!AddPath, WatchProofs!AddPath,
         Watch!Tick, WatchProofs!Tick, Watch!OtherEvent,
         WatchProofs!OtherEvent, Watch!DroppedEvent, WatchProofs!DroppedEvent,
         Watch!WatchError, WatchProofs!WatchError, Watch!HandlerReads,
         WatchProofs!HandlerReads, Watch!HandlerReturns,
         WatchProofs!HandlerReturns, Watch!AddSucceeds,
         WatchProofs!AddSucceeds, Watch!AddFails, WatchProofs!AddFails,
         Watch!Rewatch, WatchProofs!Rewatch, Watch!kernel, WatchProofs!kernel
<1>3. Watch!Edit = WatchProofs!Edit
  BY DEF Watch!Edit, WatchProofs!Edit, Watch!WriteInPlace,
         WatchProofs!WriteInPlace, Watch!Replace, WatchProofs!Replace,
         Watch!SwapLink, WatchProofs!SwapLink, Watch!DeleteOrphan,
         WatchProofs!DeleteOrphan, Watch!Create, WatchProofs!Create,
         Watch!Deliver, WatchProofs!Deliver, Watch!Quiet, WatchProofs!Quiet,
         Watch!goroutine, WatchProofs!goroutine, Watch!kernel,
         WatchProofs!kernel, Watch!Files, WatchProofs!Files
<1>4. /\ Watch!TypeOK = WatchProofs!TypeOK
      /\ Watch!NoMissedChange = WatchProofs!NoMissedChange
  BY DEF Watch!TypeOK, WatchProofs!TypeOK, Watch!NoMissedChange,
         WatchProofs!NoMissedChange, Watch!Watching, WatchProofs!Watching,
         Watch!Files, WatchProofs!Files, Watch!Loops, WatchProofs!Loops
<1> QED
  BY <1>1, <1>2, <1>3, <1>4 DEF Watch!Next, WatchProofs!Next

(* What is proved of the watch holds of the composition.                   *)
LEMMA WatchHolds == ReloadSpec => [](Watch!TypeOK /\ Watch!NoMissedChange)
<1>1. ReloadInit => WatchProofs!Init
  BY SameWatch DEF ReloadInit
<1>2. [ReloadNext]_reloadVars => [WatchProofs!Next]_(WatchProofs!watchVars)
  BY StepsOfWatch, SameWatch DEF Watch!watchVars, WatchProofs!watchVars
<1>3. ReloadSpec => WatchProofs!Spec
  BY <1>1, <1>2, PTL DEF ReloadSpec, WatchProofs!Spec
<1>4. Missing \notin Contents /\ Unread \notin Contents \cup {Missing}
  BY ConfigurationAssumption
<1>5. WatchProofs!TypeOK /\ WatchProofs!NoMissedChange
        => Watch!TypeOK /\ Watch!NoMissedChange
  BY SameWatch
<1> QED
  BY <1>3, <1>4, <1>5, WatchProofs!TypeCorrect, WatchProofs!ChangesAreNoticed, PTL

(* The composition implements the configurator: handleConfigChange called  *)
(* from Run and then from the watch is all that Configurator assumes, and  *)
(* whatever edits the watch can see are edits of the file                  *)
(* (configurator.go:66-136).                                               *)
THEOREM ImplementsConfigurator == ReloadSpec => Spec
<1>1. ReloadInit => Init
  BY DEF ReloadInit
<1> QED
  BY <1>1, StepsOfConfigurator, WatchHolds, PTL DEF ReloadSpec, Spec

-----------------------------------------------------------------------------
(* Before the first load nothing has been read.                            *)
LEMMA InitCoupled == ReloadInit => Coupled
  BY DEF ReloadInit, Init, Watch!Init, Coupled

(* The handler and the watch loop wait for each other, and what the one    *)
(* reads the other has loaded.                                             *)
LEMMA NextCoupled == Coupled /\ TypeOK /\ [ReloadNext]_reloadVars => Coupled'
<1> SUFFICES ASSUME Coupled, TypeOK, [ReloadNext]_reloadVars
             PROVE  Coupled'
  OBVIOUS
<1> USE DEF Coupled
<1>1. CASE RunLoads
  BY <1>1 DEF RunLoads, HandleConfigChange, Lock, ValidateFails, Unchanged, BuildDone,
              CancelOld, Install, Changed, BuildJWT, BuildFails, Return, configurator,
              watchState
<1>2. CASE StartsWatch
  BY <1>2 DEF StartsWatch, Watch!NewWatcher, Watch!AddPath, vars, configurator
<1>3. CASE WatchError
  BY <1>3 DEF WatchError, Watch!WatchError, vars, configurator
<1>4. CASE HandlerReturns
  BY <1>4 DEF HandlerReturns, Watch!HandlerReturns, vars, configurator
<1>5. CASE FirstCall
  BY <1>5 DEF FirstCall, Watch!AddPath, EventHandler
<1>6. CASE EventCalls \/ TickCalls
  BY <1>6 DEF EventCalls, TickCalls, Watch!OtherEvent, Watch!DroppedEvent, Watch!Tick,
              EventHandler
<1>7. CASE HandlerReads
  BY <1>7 DEF HandlerReads, Watch!HandlerReads, Reads, ValidateFails, Unchanged, Changed,
              Return
<1>8. CASE HandlerWorks
  BY <1>8 DEF HandlerWorks, Lock, BuildDone, CancelOld, Install, BuildJWT, BuildFails,
              Return, configurator, watchState, TypeOK, Goroutine
<1>9. CASE Edit
  BY <1>9 DEF Edit, Watch!Edit, Watch!WriteInPlace, Watch!SwapLink, Watch!Create,
              Watch!Replace, Watch!DeleteOrphan, Watch!goroutine, configurator
<1>10. CASE Others
  BY <1>10 DEF Others, FetchProvider, SetVerifier, Arrive, TokenAuthenticator, Respond,
               NotInitialized, NoAuthenticator, VerifierNotInitialized, Dispatch, Verify,
               Answer, ToggleTokenEndpoint, configurator, watchState
<1>11. CASE UNCHANGED reloadVars
  BY <1>11 DEF reloadVars, vars, configurator, watchState
<1> QED
  BY <1>1, <1>2, <1>3, <1>4, <1>5, <1>6, <1>7, <1>8, <1>9, <1>10, <1>11 DEF ReloadNext

(* What the last successful reload put in force is what the file holds as  *)
(* soon as the watch has nothing left to report: no sequence of edits,     *)
(* lost events, failed builds and reloads leaves the server on an older    *)
(* configuration that only the poll would replace                          *)
(* (configurator.go:83-104, watchuntil.go:85-93).                          *)
THEOREM SettledIsServed == ReloadSpec => []SettledServesFile
<1>1. Watch!TypeOK /\ Watch!NoMissedChange /\ SuccessServesLoaded /\ TypeOK /\ Coupled
        => SettledServesFile
  <2> SUFFICES ASSUME Watch!TypeOK, Watch!NoMissedChange, SuccessServesLoaded, TypeOK, Coupled,
                      loop = "select", watcher = "inotify", ~attemptPeriodicRewatch,
                      armed = "path" \/ (armed = "none" /\ path = "clean"),
                      events = {}, ~errors, ~lastErr
               PROVE  Serving = file
    BY DEF SettledServesFile
  <2>1. seen = file
    BY DEF Watch!NoMissedChange, Watch!Watching
  <2>2. loaded = file
    BY <2>1, ConfigurationAssumption DEF Coupled, TypeOK, Files
  <2> QED
    BY <2>2, ConfigurationAssumption DEF SuccessServesLoaded, Coupled, Serving
<1>2. ReloadSpec => []Coupled
  BY InitCoupled, NextCoupled, ImplementsConfigurator, TypeCorrect, PTL DEF ReloadSpec
<1> QED
  BY <1>1, <1>2, WatchHolds, ImplementsConfigurator, TypeCorrect, SuccessServesLoadedAlways, PTL
=============================================================================
