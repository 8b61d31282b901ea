---------------------------- MODULE ConfigReload ----------------------------
(***************************************************************************)
(* Configurator.Run and WatchUntil together: Run loads the configuration   *)
(* once and, if that succeeds, starts the watch goroutine, whose event     *)
(* handler is handleConfigChange.                                          *)
(*                                                                         *)
(* The two modules share the file.  A call of the handler is one step of   *)
(* both and so is its read of the file; it returns to the watch loop once  *)
(* handleConfigChange is back at "watch".                                  *)
(***************************************************************************)
EXTENDS Configurator

VARIABLES path, armed, events, errors, watcher, attemptPeriodicRewatch, loop, seen

Watch == INSTANCE WatchUntil

watchState == <<path, armed, events, errors, watcher, attemptPeriodicRewatch, loop, seen>>
reloadVars == <<vars, watchState>>

ReloadInit ==
    /\ Init
    /\ Watch!Init

-----------------------------------------------------------------------------
(* Run calls handleConfigChange before there is a watch.                   *)
RunLoads ==
    /\ caller = "run"
    /\ HandleConfigChange
    /\ UNCHANGED watchState

(* Steps of the watch loop that do not call the handler.                   *)
StartsWatch ==
    /\ pc = "watch"
    /\ \/ Watch!NewWatcher
       \/ Watch!AddPath /\ loop' = "select"
    /\ UNCHANGED vars

WatchError == Watch!WatchError /\ UNCHANGED vars

HandlerReturns == pc = "watch" /\ Watch!HandlerReturns /\ UNCHANGED vars

(* Steps that do.                                                          *)
FirstCall == Watch!AddPath /\ loop' = "handler" /\ EventHandler

EventCalls == (Watch!OtherEvent \/ Watch!DroppedEvent) /\ EventHandler

TickCalls == Watch!Tick /\ EventHandler

Reads ==
    \/ ValidateFails
    \/ Unchanged
    \/ \E a \in Authenticators : Changed(a)

HandlerReads == caller = "watch" /\ Watch!HandlerReads /\ Reads

HandlerWorks ==
    /\ caller = "watch"
    /\ \/ Lock \/ BuildDone \/ CancelOld \/ Install
       \/ \E i \in Issuers : BuildJWT(i) \/ BuildFails(i)
    /\ UNCHANGED watchState

Edit ==
    /\ Watch!Edit
    /\ UNCHANGED <<tokenEndpoint, configurator, heap, requests>>

Others ==
    /\ \/ \E a \in Authenticators, i \in Issuers : FetchProvider(a, i) \/ SetVerifier(a, i)
       \/ \E r \in Requests, i \in Issuers : Arrive(r, i)
       \/ \E r \in Requests : TokenAuthenticator(r) \/ Respond(r)
       \/ ToggleTokenEndpoint
    /\ UNCHANGED watchState

ReloadNext ==
    \/ RunLoads \/ StartsWatch \/ FirstCall \/ EventCalls \/ TickCalls \/ WatchError
    \/ HandlerReads \/ HandlerWorks \/ HandlerReturns \/ Edit \/ Others

ReloadSpec == ReloadInit /\ [][ReloadNext]_reloadVars

(* The goroutine is scheduled and its ticker fires, as in WatchUntil.      *)
FairReloadSpec ==
    /\ ReloadSpec
    /\ WF_reloadVars(RunLoads)
    /\ WF_reloadVars(StartsWatch \/ FirstCall)
    /\ WF_reloadVars(HandlerReads)
    /\ WF_reloadVars(HandlerWorks)
    /\ WF_reloadVars(HandlerReturns)
    /\ SF_reloadVars(TickCalls)

-----------------------------------------------------------------------------
(* Nothing in the loop's queues, nothing left to the poll and no error     *)
(* from the last reload: then what is in force is what the file holds now. *)
(* No sequence of edits, lost events and reloads leaves the server on an   *)
(* older configuration, unless the watch is on an inode that the path no   *)
(* longer names, or is gone and the path is not in the form that fsnotify  *)
(* reports (configurator.go:83-104, watchuntil.go:85-93, 126).             *)
SettledServesFile ==
    /\ loop = "select"
    /\ watcher = "inotify" /\ ~attemptPeriodicRewatch
    /\ armed = "path" \/ (armed = "none" /\ path = "clean")
    /\ events = {} /\ ~errors
    /\ ~lastErr
    => Serving = file

(* Once the file holds a valid configuration and stays so, and the token   *)
(* endpoint it needs answers, it comes into force and stays in force,      *)
(* whatever failed or was missed before (or the process had exited).       *)
EventuallyServed ==
    \A c \in Valid :
        <>[](file = c /\ (ClientCredential[c] # {} => tokenEndpoint))
            => <>[](~Running \/ Serving = c)
=============================================================================
