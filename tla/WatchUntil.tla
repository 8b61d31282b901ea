----------------------------- MODULE WatchUntil -----------------------------
(***************************************************************************)
(* filesystem.WatchUntil: the goroutine that watches the configuration     *)
(* file and calls eventHandler() when the file may have changed.           *)
(*                                                                         *)
(* The goroutine is one process: it creates an fsnotify watcher, adds the  *)
(* path to it, calls the handler, and then loops over the poll ticker, the *)
(* watcher's events and the watcher's errors.  The handler is seen here    *)
(* only through what matters to the watch: it reads the file once, some    *)
(* time after it is called and before it returns.  The other process is    *)
(* the environment, which rewrites, replaces, swaps or removes the file.   *)
(*                                                                         *)
(* main runs the command without a cancellable context, so the ctx.Done    *)
(* branches of the loop can never be taken and have no action here.        *)
(***************************************************************************)
CONSTANTS Contents,  \* what the configuration file may hold
          Missing,   \* the path names no file
          Unread     \* the handler has not read the file yet

ASSUME ContentsAssumption == Missing \notin Contents /\ Unread \notin Contents \cup {Missing}

VARIABLES path,     \* "clean" if it is as filepath.Clean would write it
          file,     \* what reading the path returns now
          armed,    \* which inode the kernel watches: "none", "path" (the one
                    \* the path names) or "orphan" (one it named before)
          events,   \* the kinds of event queued on watcher.Events
          errors,   \* an error is queued on watcher.Errors
          watcher,  \* "none" before NewWatcher, then "inotify" or "noop"
          attemptPeriodicRewatch,
          loop,     \* where the goroutine is
          seen      \* what the last read of the file returned

watchVars == <<path, file, armed, events, errors, watcher, attemptPeriodicRewatch, loop, seen>>

kernel == <<armed, events, errors>>

Files == Contents \cup {Missing}

(* "handler" is a call of eventHandler that has not read the file yet,     *)
(* "returning" one that has.                                               *)
Loops == {"start", "add", "handler", "returning", "select"}

Init ==
    /\ path \in {"clean", "unclean"}
    /\ file \in Files
    /\ armed = "none"
    /\ events = {}
    /\ errors = FALSE
    /\ watcher = "none"
    /\ attemptPeriodicRewatch = FALSE
    /\ loop = "start"
    /\ seen = Unread

-----------------------------------------------------------------------------
(* The watcher the goroutine holds.                                        *)

(* watcher.Add(path) succeeds: the no-op watcher always does, fsnotify     *)
(* only if the path names a file, which the kernel then watches.           *)
AddSucceeds ==
    \/ watcher = "noop" /\ armed' = "none"
    \/ watcher = "inotify" /\ file # Missing /\ armed' = "path"

(* watcher.Add(path) fails: the file is missing, or a limit of the system. *)
AddFails == watcher = "inotify" /\ armed' = "none"

(* watcher.Remove(path) forgets the old watch, whose queued events may     *)
(* never be delivered, and watcher.Add(path), which fails unless ok,       *)
(* begins a new one.                                                       *)
Rewatch(queued, ok) ==
    /\ IF ok THEN AddSucceeds ELSE AddFails
    /\ events' \in SUBSET queued
    /\ UNCHANGED errors

-----------------------------------------------------------------------------
(* Steps of the goroutine.                                                 *)

(* Wrong: no fall back to the no-op watcher.                               *)
NewWatcher_NoFallback ==
    /\ loop = "start"
    /\ loop' = "add"
    /\ watcher' \in {"inotify", "none"}
    /\ UNCHANGED <<path, file, kernel, attemptPeriodicRewatch, seen>>

NewWatcher ==
    /\ loop = "start"
    /\ loop' = "add"
    /\ watcher' \in {"inotify", "noop"}
    /\ UNCHANGED <<path, file, kernel, attemptPeriodicRewatch, seen>>

(* Wrong: the handler is not called after the first Add.                   *)
AddPath_NoHandler ==
    /\ loop = "add"
    /\ loop' = "select"
    /\ \/ AddSucceeds /\ UNCHANGED attemptPeriodicRewatch
       \/ AddFails /\ attemptPeriodicRewatch' = TRUE
    /\ UNCHANGED <<path, file, events, errors, watcher, seen>>

(* The first Add.  The handler is called only if it succeeds.              *)
AddPath ==
    /\ loop = "add"
    /\ \/ AddSucceeds /\ loop' = "handler" /\ UNCHANGED attemptPeriodicRewatch
       \/ AddFails /\ loop' = "select" /\ attemptPeriodicRewatch' = TRUE
    /\ UNCHANGED <<path, file, events, errors, watcher, seen>>

(* Wrong: a tick sets the watch up again and does not call the handler.    *)
Tick_NoHandler ==
    /\ loop = "select"
    /\ attemptPeriodicRewatch
    /\ \E ok \in BOOLEAN : Rewatch(events, ok) /\ attemptPeriodicRewatch' = ~ok
    /\ UNCHANGED <<path, file, watcher, loop, seen>>

(* The poll ticker fires.                                                  *)
Tick ==
    /\ loop = "select"
    /\ loop' = "handler"
    /\ \/ /\ ~attemptPeriodicRewatch
          /\ UNCHANGED <<kernel, attemptPeriodicRewatch>>
       \/ /\ attemptPeriodicRewatch
          /\ \E ok \in BOOLEAN : Rewatch(events, ok) /\ attemptPeriodicRewatch' = ~ok
    /\ UNCHANGED <<path, file, watcher, seen>>

(* An event other than Remove or Rename.                                   *)
OtherEvent ==
    /\ loop = "select"
    /\ "write" \in events
    /\ events' = events \ {"write"}
    /\ loop' = "handler"
    /\ UNCHANGED <<path, file, armed, errors, watcher, attemptPeriodicRewatch, seen>>

(* Wrong: a failure to set the watch up again is not remembered.           *)
DroppedEvent_NoRetry ==
    /\ loop = "select"
    /\ "remove" \in events
    /\ \E ok \in BOOLEAN : Rewatch(events \ {"remove"}, ok)
    /\ loop' = "handler"
    /\ UNCHANGED <<path, file, watcher, attemptPeriodicRewatch, seen>>

(* A Remove or Rename event: the watch is gone.  It is set up again if     *)
(* e.Name = path, and fsnotify reports the path cleaned.                   *)
DroppedEvent ==
    /\ loop = "select"
    /\ "remove" \in events
    /\ \/ /\ path = "clean"
          /\ \E ok \in BOOLEAN :
               /\ Rewatch(events \ {"remove"}, ok)
               /\ attemptPeriodicRewatch' = (attemptPeriodicRewatch \/ ~ok)
       \/ /\ path = "unclean"
          /\ events' = events \ {"remove"}
          /\ UNCHANGED <<armed, errors, attemptPeriodicRewatch>>
    /\ loop' = "handler"
    /\ UNCHANGED <<path, file, watcher, seen>>

(* A watch error: the handler is not called, the next tick will watch the  *)
(* path again and call it.                                                 *)
WatchError ==
    /\ loop = "select"
    /\ errors
    /\ errors' = FALSE
    /\ attemptPeriodicRewatch' = TRUE
    /\ UNCHANGED <<path, file, armed, events, watcher, loop, seen>>

(* The handler reads the file, and later returns to the loop.              *)
HandlerReads ==
    /\ loop = "handler"
    /\ loop' = "returning"
    /\ seen' = file
    /\ UNCHANGED <<path, file, kernel, watcher, attemptPeriodicRewatch>>

HandlerReturns ==
    /\ loop = "returning"
    /\ loop' = "select"
    /\ UNCHANGED <<path, file, kernel, watcher, attemptPeriodicRewatch, seen>>

-----------------------------------------------------------------------------
(* The environment: whoever edits the configuration file.                  *)

(* The kernel queues an event, or, when its queue is full, drops it and    *)
(* queues an overflow error instead.                                       *)
Deliver(e) ==
    \/ events' = events \cup {e} /\ UNCHANGED errors
    \/ events # {} /\ UNCHANGED events /\ errors' = TRUE

Quiet == UNCHANGED <<events, errors>>

goroutine == <<path, watcher, attemptPeriodicRewatch, loop, seen>>

(* An editor writes (or truncates) the file in place.                      *)
WriteInPlace(c) ==
    /\ file # Missing
    /\ file' = c
    /\ IF armed = "path" THEN Deliver("write") ELSE Quiet
    /\ UNCHANGED <<armed, goroutine>>

(* A new file is renamed over the old one (or the old one is removed, for  *)
(* c = Missing): the watched inode is deleted and its watch with it.       *)
Replace(c) ==
    /\ file # Missing
    /\ file' = c
    /\ IF armed = "path" THEN Deliver("remove") /\ armed' = "none"
                         ELSE Quiet /\ UNCHANGED armed
    /\ UNCHANGED goroutine

(* The path begins to name another file while the watched inode lives on:  *)
(* the symbolic link of a mounted ConfigMap is swapped before the old      *)
(* directory is removed.  Nothing is reported yet.                         *)
SwapLink(c) ==
    /\ file # Missing
    /\ file' = c
    /\ armed' = IF armed = "path" THEN "orphan" ELSE armed
    /\ Quiet
    /\ UNCHANGED goroutine

(* The inode the path no longer names is deleted.                          *)
DeleteOrphan ==
    /\ armed = "orphan"
    /\ armed' = "none"
    /\ Deliver("remove")
    /\ UNCHANGED <<file, goroutine>>

Create(c) ==
    /\ file = Missing
    /\ file' = c
    /\ UNCHANGED <<kernel, goroutine>>

Edit ==
    \/ \E c \in Contents : WriteInPlace(c) \/ SwapLink(c) \/ Create(c)
    \/ \E c \in Files : Replace(c)
    \/ DeleteOrphan

-----------------------------------------------------------------------------
Loop ==
    \/ NewWatcher \/ AddPath \/ Tick \/ OtherEvent \/ DroppedEvent \/ WatchError
    \/ HandlerReads \/ HandlerReturns

Next == Loop \/ Edit

Spec == Init /\ [][Next]_watchVars

(* The goroutine is scheduled, the handler returns and the ticker fires    *)
(* however many events and errors select finds: Go's select chooses among  *)
(* the ready cases at random.  Nothing makes anybody edit the file.        *)
FairSpec ==
    /\ Spec
    /\ WF_watchVars(NewWatcher) /\ WF_watchVars(AddPath)
    /\ WF_watchVars(HandlerReads) /\ WF_watchVars(HandlerReturns)
    /\ SF_watchVars(Tick)

-----------------------------------------------------------------------------
(* Types; WatchUntil calls the methods of its watcher from the first Add   *)
(* on, so from there it must hold one (watchuntil.go:61-77).               *)
TypeOK ==
    /\ path \in {"clean", "unclean"}
    /\ file \in Files
    /\ armed \in {"none", "path", "orphan"}
    /\ events \subseteq {"write", "remove"}
    /\ errors \in BOOLEAN
    /\ watcher \in {"none", "inotify", "noop"}
    /\ attemptPeriodicRewatch \in BOOLEAN
    /\ loop \in Loops
    /\ seen \in Files \cup {Unread}
    /\ watcher = "none" <=> loop = "start"

Watching == watcher = "inotify" /\ loop # "add" /\ ~attemptPeriodicRewatch

(* A path given in the form that fsnotify reports is never left unwatched: *)
(* with no periodic rewatch scheduled, the kernel watches an inode, or the *)
(* event or the error that will make the loop watch the path again is      *)
(* still queued (watchuntil.go:106-146).                                   *)
NeverUnwatched ==
    path = "clean" /\ Watching => armed # "none" \/ "remove" \in events \/ errors

(* No lost update: while the loop waits and relies on the watch, a file    *)
(* that differs from what the handler last read has an event or an error   *)
(* queued.  Two exceptions are left to the poll: a path that was pointed   *)
(* to another file while the watched one is still there, and one whose     *)
(* watch was not set up again because it is not written as fsnotify        *)
(* reports it.  This is why the handler is called after Add                *)
(* (watchuntil.go:89-92).                                                  *)
NoMissedChange ==
    Watching /\ loop = "select" /\ seen # file
        => \/ events # {} \/ errors
           \/ armed = "orphan"
           \/ armed = "none" /\ path = "unclean"

(* Once the file stops changing the handler has read what it holds,        *)
(* whatever was lost on the way: the poll sees to it (watchuntil.go:100).  *)
EventuallySeen ==
    \A c \in Files : <>[](file = c) => <>[](seen = c)
=============================================================================
