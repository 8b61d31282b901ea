-------------------------- MODULE WatchUntilProofs --------------------------
(***************************************************************************)
(* The safety of the configuration file watch, for any set of contents.    *)
(*                                                                         *)
(* NoMissedChange is not inductive: a change may happen between the        *)
(* handler's read and its return, and a change goes unreported when the    *)
(* path is not watched.  The invariant therefore covers the handler that   *)
(* has read, uses NeverUnwatched for a watch that is gone, and says that a *)
(* watched path names a file, so that nobody can create it unnoticed.      *)
(***************************************************************************)
EXTENDS WatchUntil, TLAPS

WatchedExists == armed = "path" => file # Missing

ReadIsFollowed ==
    Watching /\ loop \in {"returning", "select"} /\ seen # file
        => \/ events # {} \/ errors
           \/ armed = "orphan"
           \/ armed = "none" /\ path = "unclean"

WatchInv == TypeOK /\ NeverUnwatched /\ WatchedExists /\ ReadIsFollowed

(* Before the first Add nothing is watched, nothing has been read and      *)
(* nothing is promised (watchuntil.go:61-77).                              *)
LEMMA InitWatchInv == Init => WatchInv
  BY DEF Init, WatchInv, TypeOK, NeverUnwatched, WatchedExists, ReadIsFollowed,
         Watching, Files, Loops

(* Setting the watch up again leaves the path watched, or is reported as a *)
(* failure; a watch the kernel keeps on the path is on an existing file.   *)
LEMMA RewatchResult ==
    ASSUME WatchInv, NEW queued \in SUBSET {"write", "remove"}, NEW ok \in BOOLEAN,
           Rewatch(queued, ok)
    PROVE  /\ events' \subseteq {"write", "remove"}
           /\ errors' = errors
           /\ armed' \in {"none", "path"}
           /\ armed' = "path" => file # Missing
           /\ ok /\ watcher = "inotify" => armed' = "path"
  BY DEF Rewatch, AddSucceeds, AddFails, WatchInv, TypeOK

(* Every step of the goroutine keeps the invariant                         *)
(* (watchuntil.go:61-151).                                                 *)
LEMMA LoopKeepsWatchInv ==
    ASSUME WatchInv, Loop
    PROVE  WatchInv'
<1> USE DEF WatchInv
<1>1. CASE NewWatcher
  BY <1>1 DEF NewWatcher, kernel, TypeOK, NeverUnwatched, WatchedExists,
              ReadIsFollowed, Watching, Files, Loops
<1>2. CASE AddPath
  BY <1>2 DEF AddPath, AddSucceeds, AddFails, TypeOK, NeverUnwatched,
              WatchedExists, ReadIsFollowed, Watching, Files, Loops
<1>3. CASE Tick
  <2>1. CASE ~attemptPeriodicRewatch
    BY <1>3, <2>1 DEF Tick, kernel, TypeOK, NeverUnwatched, WatchedExists,
                      ReadIsFollowed, Watching, Files, Loops
  <2>2. CASE attemptPeriodicRewatch
    <3>1. PICK ok \in BOOLEAN : Rewatch(events, ok) /\ attemptPeriodicRewatch' = ~ok
      BY <1>3, <2>2 DEF Tick
    <3>2. events \in SUBSET {"write", "remove"}
      BY DEF TypeOK
    <3> QED
      BY <1>3, <3>1, <3>2, RewatchResult
      DEF Tick, TypeOK, NeverUnwatched, WatchedExists, ReadIsFollowed, Watching,
          Files, Loops
  <2> QED
    BY <2>1, <2>2
<1>4. CASE OtherEvent
  BY <1>4 DEF OtherEvent, TypeOK, NeverUnwatched, WatchedExists, ReadIsFollowed,
              Watching, Files, Loops
<1>5. CASE DroppedEvent
  <2>1. CASE path = "clean"
    <3>1. PICK ok \in BOOLEAN :
            /\ Rewatch(events \ {"remove"}, ok)
            /\ attemptPeriodicRewatch' = (attemptPeriodicRewatch \/ ~ok)
      BY <1>5, <2>1 DEF DroppedEvent
    <3>2. events \ {"remove"} \in SUBSET {"write", "remove"}
      BY DEF TypeOK
    <3> QED
      BY <1>5, <2>1, <3>1, <3>2, RewatchResult
      DEF DroppedEvent, TypeOK, NeverUnwatched, WatchedExists, ReadIsFollowed,
          Watching, Files, Loops
  <2>2. CASE path = "unclean"
    BY <1>5, <2>2
    DEF DroppedEvent, TypeOK, NeverUnwatched, WatchedExists, ReadIsFollowed,
        Watching, Files, Loops
  <2> QED
    BY <2>1, <2>2 DEF TypeOK
<1>6. CASE WatchError
  BY <1>6 DEF WatchError, TypeOK, NeverUnwatched, WatchedExists, ReadIsFollowed,
              Watching, Files, Loops
<1>7. CASE HandlerReads
  BY <1>7 DEF HandlerReads, kernel, TypeOK, NeverUnwatched, WatchedExists,
              ReadIsFollowed, Watching, Files, Loops
<1>8. CASE HandlerReturns
  BY <1>8 DEF HandlerReturns, kernel, TypeOK, NeverUnwatched, WatchedExists,
              ReadIsFollowed, Watching, Files, Loops
<1> QED
  BY <1>1, <1>2, <1>3, <1>4, <1>5, <1>6, <1>7, <1>8 DEF Loop

(* Whoever edits the file keeps it: a change of a watched path is          *)
(* reported, and one of a path that is not watched changes no promise.     *)
LEMMA EditKeepsWatchInv ==
    ASSUME WatchInv, Edit
    PROVE  WatchInv'
<1> USE DEF WatchInv, goroutine
<1>1. ASSUME NEW c \in Contents, WriteInPlace(c)
      PROVE  WatchInv'
  BY <1>1, ContentsAssumption
  DEF WriteInPlace, Deliver, Quiet, TypeOK, NeverUnwatched, WatchedExists,
      ReadIsFollowed, Watching, Files, Loops
<1>2. ASSUME NEW c \in Contents, SwapLink(c)
      PROVE  WatchInv'
  BY <1>2, ContentsAssumption
  DEF SwapLink, Quiet, TypeOK, NeverUnwatched, WatchedExists, ReadIsFollowed,
      Watching, Files, Loops
<1>3. ASSUME NEW c \in Contents, Create(c)
      PROVE  WatchInv'
  BY <1>3, ContentsAssumption
  DEF Create, kernel, TypeOK, NeverUnwatched, WatchedExists, ReadIsFollowed,
      Watching, Files, Loops
<1>4. ASSUME NEW c \in Files, Replace(c)
      PROVE  WatchInv'
  BY <1>4
  DEF Replace, Deliver, Quiet, TypeOK, NeverUnwatched, WatchedExists,
      ReadIsFollowed, Watching, Files, Loops
<1>5. CASE DeleteOrphan
  BY <1>5 DEF DeleteOrphan, Deliver, TypeOK, NeverUnwatched, WatchedExists,
              ReadIsFollowed, Watching, Files, Loops
<1> QED
  BY <1>1, <1>2, <1>3, <1>4, <1>5 DEF Edit

(* Every reachable state satisfies the invariant.                          *)
LEMMA WatchInvariant == Spec => []WatchInv
<1>1. WatchInv /\ UNCHANGED watchVars => WatchInv'
  BY DEF WatchInv, watchVars, TypeOK, NeverUnwatched, WatchedExists,
         ReadIsFollowed, Watching
<1>2. WatchInv /\ [Next]_watchVars => WatchInv'
  BY <1>1, LoopKeepsWatchInv, EditKeepsWatchInv DEF Next
<1> QED
  BY <1>2, InitWatchInv, PTL DEF Spec

(* Types are kept and the goroutine holds a watcher from the first Add on, *)
(* also when fsnotify is not available (watchuntil.go:61-77).              *)
THEOREM TypeCorrect == Spec => []TypeOK
<1>1. WatchInv => TypeOK
  BY DEF WatchInv
<1> QED
  BY <1>1, WatchInvariant, PTL

(* However the file is edited and whatever the kernel drops, a path in the *)
(* form that fsnotify reports that is not watched has an event, an error   *)
(* or a retry pending (watchuntil.go:106-146).                             *)
THEOREM PathStaysWatched == Spec => []NeverUnwatched
<1>1. WatchInv => NeverUnwatched
  BY DEF WatchInv
<1> QED
  BY <1>1, WatchInvariant, PTL

(* A change that the handler has not read is never lost while the loop     *)
(* relies on the watch: calling the handler after Add, and after every     *)
(* rewatch, closes the window in which it could be.  Left to the poll are  *)
(* only an orphaned watch and, for a path that is not clean, a watch that  *)
(* is gone (watchuntil.go:89-92, 126).                                     *)
THEOREM ChangesAreNoticed == Spec => []NoMissedChange
<1>1. WatchInv => NoMissedChange
  BY DEF WatchInv, ReadIsFollowed, NoMissedChange
<1> QED
  BY <1>1, WatchInvariant, PTL
=============================================================================
