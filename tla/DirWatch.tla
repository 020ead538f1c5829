------------------------------ MODULE DirWatch ------------------------------
(***************************************************************************)
(* Watching directories (src/plugins/Kizuna-Security/plugin): the inotify  *)
(* layer (suid_watch.go, suid_watch_linux.go), the scans it triggers       *)
(* (fim_watch.go; the SUID watch scans everything each time), the fallback *)
(* loops and the reconfigurations of plugin.go.  The model has one root    *)
(* with subdirectories; programs change the tree at any time.  The kernel  *)
(* may drop events, break the watch, or refuse one.                        *)
(***************************************************************************)
EXTENDS Integers, FiniteSets

CONSTANTS
  Root, Sub,        \* directories
  File, dirOf,      \* files, and the directory of each
  Content, None,
  maxDirsPerRoot,
  MaxFaults         \* bound on failures, reconfigurations and restarts

WatchTree ==
  /\ Root \notin Sub /\ File \cap (Sub \cup {Root}) = {}
  /\ dirOf \in [File -> Sub \cup {Root}] /\ maxDirsPerRoot \in Nat \ {0}
  /\ MaxFaults \in Nat

VARIABLES
  feature,          \* "fim" or "suid"
  exists, content,  \* the tree
  configured,       \* fimDir, or suidFastMon with its watch, is set
  loop,             \* the fallback loop: "none", "running", "ended"
  watching,         \* suidWatcher.running
  watches, dirCapped, \* wdToPath, and whether the root has reported its limit
  queue, lost,      \* what the kernel has for the reader, and IN_Q_OVERFLOW
  pending, overflow, \* suidWatcher.pending and pendingDirs, and the overflow flag
  initialized, baseline,
  disk,             \* the saved baseline, or None
  faults,
  unseen            \* kept apart: files that changed where no event tells

tree == <<exists, content>>
kernel == <<watches, dirCapped, queue, lost>>
taken == <<pending, overflow>>
scanner == <<initialized, baseline, disk>>
vars == <<feature, tree, configured, loop, watching, kernel, taken, scanner, faults, unseen>>

Held == Content \cup {None}
Dir == Sub \cup {Root}
Present == exists \cup {Root}
In(d) == {f \in File : dirOf[f] = d}

TypeOK ==
  /\ feature \in {"fim", "suid"}
  /\ exists \subseteq Sub /\ content \in [File -> Held]
  /\ \A f \in File : content[f] # None => dirOf[f] \in Present
  /\ configured \in BOOLEAN /\ loop \in {"none", "running", "ended"}
  /\ watching \in BOOLEAN /\ watches \subseteq Present /\ dirCapped \in BOOLEAN
  /\ queue \subseteq File \cup Sub /\ pending \subseteq File \cup Sub
  /\ lost \in BOOLEAN /\ overflow \in BOOLEAN /\ initialized \in BOOLEAN
  /\ baseline \in [File -> Held] /\ disk \in [File -> Held] \cup {None}
  /\ faults \in 0 .. MaxFaults /\ unseen \subseteq File

Empty == [f \in File |-> None]

Init ==
  /\ feature \in {"fim", "suid"}
  /\ exists = {} /\ content = Empty
  /\ configured = TRUE /\ loop = "none" /\ watching = FALSE
  /\ watches = {} /\ dirCapped = FALSE /\ queue = {} /\ lost = FALSE
  /\ pending = {} /\ overflow = FALSE
  /\ initialized = FALSE /\ baseline = Empty /\ disk = None
  /\ faults = 0 /\ unseen = {}

Fault == faults < MaxFaults /\ faults' = faults + 1

-----------------------------------------------------------------------------
\* The kernel queues an event, or drops it and says so.
Queued(S) ==
  \/ queue' = queue \cup S /\ UNCHANGED <<lost, faults>>
  \/ S # {} /\ Fault /\ lost' = TRUE /\ UNCHANGED queue

Announced == queue \cup pending

\* A program writes or removes a file.
Write(f) ==
  /\ dirOf[f] \in Present
  /\ content' \in {[content EXCEPT ![f] = c] : c \in Held \ {content[f]}}
  /\ Queued(IF dirOf[f] \in watches THEN {f} ELSE {})
  /\ unseen' = IF dirOf[f] \in watches \/ (dirOf[f] \in Announced /\ content'[f] # None)
                 THEN unseen ELSE unseen \cup {f}
  /\ UNCHANGED <<feature, exists, configured, loop, watching, watches, dirCapped, taken, scanner>>

MkDir(d) ==
  /\ d \notin exists /\ exists' = exists \cup {d}
  /\ Queued(IF Root \in watches THEN {d} ELSE {})
  /\ UNCHANGED <<feature, content, configured, loop, watching, watches, dirCapped, taken, scanner, unseen>>

\* A directory goes with its files, and with its watch.
RmDir(d) ==
  /\ d \in exists /\ exists' = exists \ {d}
  /\ content' = [f \in File |-> IF dirOf[f] = d THEN None ELSE content[f]]
  /\ Queued((IF d \in watches THEN In(d) ELSE {}) \cup (IF Root \in watches THEN {d} ELSE {}))
  /\ unseen' = IF d \in watches THEN unseen ELSE unseen \cup In(d)
  /\ watches' = watches \ {d}
  /\ UNCHANGED <<feature, configured, loop, watching, dirCapped, taken, scanner>>

-----------------------------------------------------------------------------
\* addWatch for each directory of new, in some order.  The first one past the limit is left
\* out and reported; after that there is no limit.
Added(new) ==
  IF dirCapped \/ Cardinality(watches \cup new) <= maxDirsPerRoot
    THEN {[watches |-> watches \cup new, capped |-> dirCapped]}
    ELSE {[watches |-> (watches \cup new) \ {d}, capped |-> TRUE] : d \in new \ watches}

AddTree(new) ==
  \E w \in Added(new) : watches' = w.watches /\ dirCapped' = w.capped

\* suidWatcher.start, or the kernel refuses.
start ==
  \/ /\ watching' = TRUE /\ queue' = {} /\ lost' = FALSE
     /\ LET w == IF Cardinality(Present) <= maxDirsPerRoot THEN {[watches |-> Present, capped |-> FALSE]}
                 ELSE {[watches |-> Present \ {d}, capped |-> TRUE] : d \in exists}
        IN \E x \in w : watches' = x.watches /\ dirCapped' = x.capped
     /\ UNCHANGED faults
  \/ Fault /\ UNCHANGED <<watching, kernel>>

\* handleEvents: new directories are watched, the rest waits for the debouncer.
handleEvents ==
  /\ watching /\ (queue # {} \/ lost)
  /\ AddTree(queue \cap exists)
  /\ pending' = pending \cup queue /\ overflow' = (overflow \/ lost)
  /\ queue' = {} /\ lost' = FALSE
  /\ UNCHANGED <<feature, tree, configured, loop, watching, scanner, faults, unseen>>

\* disable: the reader has ended.
disable ==
  /\ watching /\ Fault
  /\ watching' = FALSE /\ watches' = {} /\ queue' = {} /\ lost' = FALSE
  /\ unseen' = unseen \cup (queue \cap File) \cup (IF lost THEN File ELSE UNION {In(d) : d \in queue \cap Sub})
  /\ UNCHANGED <<feature, tree, configured, loop, dirCapped, taken, scanner>>

\* A scan saves if there is something to tell.
saveLocked == disk' = IF ~initialized \/ baseline' # baseline THEN baseline' ELSE disk

\* What a scan makes of the files in S.
Scanned(S) ==
  /\ baseline' = [f \in File |-> IF f \in S THEN content[f] ELSE baseline[f]]
  /\ initialized' = TRUE
  /\ saveLocked
  /\ unseen' = unseen \ S

\* Mutant: directories are not looked into.
FilesOnly == pending \cap File

\* The files named, and those found in the directories named.
expandDir == (pending \cap File) \cup {f \in UNION {In(d) : d \in pending \cap Sub} : content[f] # None}

\* What the scan of a debounced batch looks at.
HandleChanges == IF overflow \/ ~initialized \/ feature = "suid" THEN File ELSE expandDir

\* takePending and the scan.
debounce ==
  /\ pending # {} \/ overflow
  /\ pending' = {} /\ overflow' = FALSE
  /\ IF configured
       THEN Scanned(HandleChanges)
       ELSE UNCHANGED <<scanner, unseen>>
  /\ UNCHANGED <<feature, tree, configured, loop, watching, kernel, faults>>

-----------------------------------------------------------------------------
ensureWatch == IF configured /\ ~watching THEN start ELSE UNCHANGED <<watching, kernel, faults>>

\* startFastSUIDLoop, startFIMWatchLoop: once.
startLoop == loop' = IF loop = "none" THEN "running" ELSE loop

\* Run, at every poll.
Run ==
  /\ configured
  /\ startLoop
  /\ ensureWatch
  /\ UNCHANGED <<feature, tree, configured, taken, scanner, unseen>>

\* Mutant: no scan while there is a watch.
OnlyWithoutWatch ==
  /\ loop = "running"
  /\ IF configured
       THEN /\ ensureWatch /\ UNCHANGED loop
            /\ IF watching THEN UNCHANGED <<scanner, unseen>> ELSE Scanned(File)
       ELSE loop' = "ended" /\ UNCHANGED <<watching, kernel, faults, scanner, unseen>>
  /\ UNCHANGED <<feature, tree, configured, taken>>

\* fastSUIDLoop and fimWatchLoop: a turn, or the end when the feature is off.
LoopTurn ==
  /\ loop = "running"
  /\ IF configured
       THEN ensureWatch /\ Scanned(File) /\ UNCHANGED loop
       ELSE loop' = "ended" /\ UNCHANGED <<watching, kernel, faults, scanner, unseen>>
  /\ UNCHANGED <<feature, tree, configured, taken>>

\* loadState: the saved baseline, if there is one.
loadState ==
  /\ initialized' = (disk # None)
  /\ baseline' = IF disk # None THEN disk ELSE Empty
  /\ unseen' = File
  /\ pending' = {} /\ overflow' = FALSE

\* Configure: a new scanner and a new watch, which is started at once if the loop was; or
\* the feature goes off.
Configure ==
  /\ Fault
  /\ configured' \in BOOLEAN
  /\ loadState
  /\ LET w == IF Cardinality(Present) <= maxDirsPerRoot THEN {[watches |-> Present, capped |-> FALSE]}
              ELSE {[watches |-> Present \ {d}, capped |-> TRUE] : d \in exists}
     IN \/ configured' /\ loop # "none" /\ watching' = TRUE
           /\ \E x \in w : watches' = x.watches /\ dirCapped' = x.capped
        \/ watching' = FALSE /\ watches' = {} /\ dirCapped' = FALSE
  /\ queue' = {} /\ lost' = FALSE
  /\ UNCHANGED <<feature, tree, loop, disk>>

\* The agent ends and starts again.
Restart ==
  /\ Fault /\ loadState
  /\ loop' = "none" /\ watching' = FALSE
  /\ watches' = {} /\ dirCapped' = FALSE /\ queue' = {} /\ lost' = FALSE
  /\ UNCHANGED <<feature, tree, configured, disk>>

Next ==
  \/ \E f \in File : Write(f)
  \/ \E d \in Sub : MkDir(d) \/ RmDir(d)
  \/ handleEvents \/ disable \/ debounce \/ Run \/ LoopTurn \/ Configure \/ Restart

Spec == Init /\ [][Next]_vars

-----------------------------------------------------------------------------
(* Every difference between the tree and the baseline is on its way to a   *)
(* scan, as a file, through its directory or as an overflow, unless it     *)
(* arose where no event tells: no order of events, watches and scans loses *)
(* one (suid_watch.go:163-239, suid_watch_linux.go:142-232,                *)
(* fim_watch.go:293-356).                                                  *)
DifferencesAreOnTheirWay ==
  initialized /\ configured =>
    \A f \in File : baseline[f] # content[f] =>
      f \in Announced \cup unseen \/ dirOf[f] \in Announced \/ lost \/ overflow

(* Polls and the fallback loop go on; nothing is assumed of the events,    *)
(* which a debounce may postpone for good.                                 *)
Fairness == WF_vars(Run) /\ WF_vars(LoopTurn)

(* However often files change where no event tells, and even if the watch  *)
(* never works again, the baseline catches up with the whole tree again    *)
(* and again while the feature is on, as long as its loop has not ended:   *)
(* the fallback alone keeps the monitoring correct (plugin.go:266-293).    *)
ChangesAreNoticed == []<>(configured => baseline = content \/ loop = "ended")
=============================================================================
