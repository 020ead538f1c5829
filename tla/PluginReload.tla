---------------------------- MODULE PluginReload ----------------------------
(***************************************************************************)
(* Hot reload of the agent's plugins: loadPluginsFromConfig and            *)
(* watchModulesFile (src/cmd/agent/main.go) on the module manager          *)
(* (src/pkg/module/base.go).                                               *)
(*                                                                         *)
(* The main goroutine loads modules.json once and starts the manager; the  *)
(* watcher loads it again when its modification time moves.  Every         *)
(* registered plugin has a run loop of its own.  An operator rewrites the  *)
(* file, and a signal ends the process, at any point in between.           *)
(*                                                                         *)
(* Entries are keyed by a name; the plugin behind an entry registers under *)
(* a name of its own, which a hand-edited file need not repeat.  Intervals *)
(* and settings are not modelled: reconfiguring a running plugin changes   *)
(* nothing here.  The modification time counts the edits.                  *)
(***************************************************************************)
EXTENDS Naturals, Sequences, Functions

CONSTANTS
  Name, Inst,   \* names, and plugin objects; an object is reused once it is garbage
  None,
  Files,        \* contents of modules.json: sequences of [cfg, enabled, own]
  Unreadable,   \* a modules.json that is missing or does not parse
  MaxEdits      \* bound on the edits of the file

ASSUME PluginAssumption ==
  /\ None \notin Name \cup Inst /\ Unreadable \notin Files
  /\ MaxEdits \in Nat
  /\ \A f \in Files : f \in Seq([cfg : Name, enabled : BOOLEAN, own : Name])

VARIABLES
  file, mtime,      \* modules.json
  main,             \* where the main goroutine is
  seen,             \* the watcher's lastMod, None before it first looked
  load, todo, present,   \* the load under way, its entries left, its names kept
  names, byCfg,     \* loadedPlugins
  modules,          \* m.modules
  running,          \* m.running
  own,              \* the name each object registers under
  loop,             \* the run loop of each object
  live,             \* the objects whose context is not cancelled
  config, readAt,   \* the contents last read, and the modification time then
  failed,           \* entries of config that could not be loaded
  plain             \* no plugin was known by another name than its entry's then

loader == <<seen, load, todo, present, names, byCfg, config, readAt, failed, plain>>
manager == <<modules, running, own, loop, live>>
vars == <<file, mtime, main, loader, manager>>

Entry == [cfg : Name, enabled : BOOLEAN, own : Name]

TypeOK ==
  /\ file \in Files \cup {Unreadable} /\ mtime \in 0 .. MaxEdits
  /\ main \in {"boot", "up", "stopping", "waiting", "exited"}
  /\ seen \in 0 .. MaxEdits \cup {None} /\ readAt \in 0 .. MaxEdits
  /\ load \in {"read", "entries", "idle"}
  /\ todo \in Seq(Entry) /\ present \subseteq Name
  /\ names \subseteq Name /\ byCfg \in [Name -> Name \cup {None}]
  /\ modules \in [Name -> Inst \cup {None}] /\ running \in BOOLEAN
  /\ own \in [Inst -> Name \cup {None}]
  /\ loop \in [Inst -> {"none", "start", "run", "wait"}] /\ live \subseteq Inst
  /\ config \in Files /\ failed \subseteq Entry /\ plain \in BOOLEAN

-----------------------------------------------------------------------------
\* loadPluginsFromConfig has read nothing yet; nothing is registered.
Init ==
  /\ file \in Files \cup {Unreadable} /\ mtime = 0 /\ main = "boot"
  /\ seen = None /\ load = "read" /\ todo = << >> /\ present = {}
  /\ names = {} /\ byCfg = [n \in Name |-> None]
  /\ modules = [n \in Name |-> None] /\ running = FALSE
  /\ own = [i \in Inst |-> None]
  /\ loop = [i \in Inst |-> "none"] /\ live = {}
  /\ config = << >> /\ readAt = 0 /\ failed = {} /\ plain = TRUE

Alive == main # "exited"

\* Loops started from now on get a context that is not cancelled yet.
Uncancelled == main \in {"boot", "up"}

-----------------------------------------------------------------------------
\* The module manager.

\* Mutant: an unregistered name keeps a nil module.
WithNil == {modules[n] : n \in Name}

Registered == {modules[n] : n \in Name} \ {None}
Garbage == {i \in Inst : i \notin Registered /\ loop[i] = "none"}
NewObject == CHOOSE i \in Garbage : TRUE

\* Mutant: a second module of the same name replaces the first.
Overwrites(n) == TRUE

\* Register refuses a name that is taken.
NameFree(n) == modules[n] = None

\* Mutant: a module registered after Stop gets a loop too.
EverStarted == main # "boot"

\* Register starts a loop when the manager is running.
StartsLoop == running

\* Register: a new object i under its own name n.
Register(i, n) ==
  /\ NameFree(n)
  /\ modules' = [modules EXCEPT ![n] = i] /\ own' = [own EXCEPT ![i] = n]
  /\ IF StartsLoop
     THEN loop' = [loop EXCEPT ![i] = "start"] /\ live' = IF Uncancelled THEN live \cup {i} ELSE live
     ELSE UNCHANGED <<loop, live>>
  /\ UNCHANGED running

\* Unregister each name of S: out of the table, its loop's context cancelled.
Unregister(S) ==
  /\ modules' = [n \in Name |-> IF n \in S THEN None ELSE modules[n]]
  /\ live' = live \ {modules[n] : n \in S}
  /\ UNCHANGED <<running, own, loop>>

\* runModuleLoop: the first run happens even when the context is cancelled.
LoopStart(i) == loop[i] = "start" /\ loop' = [loop EXCEPT ![i] = "run"]

\* Run returns or panics.
Return(i) == loop[i] = "run" /\ loop' = [loop EXCEPT ![i] = "wait"]

\* select picks a timer that is ready although the context is done.
Fire(i) == loop[i] = "wait" /\ loop' = [loop EXCEPT ![i] = "run"]

Quit(i) == loop[i] = "wait" /\ i \notin live /\ loop' = [loop EXCEPT ![i] = "none"]

Loop(i) ==
  /\ Alive
  /\ LoopStart(i) \/ Return(i) \/ Fire(i) \/ Quit(i)
  /\ UNCHANGED <<file, mtime, main, loader, modules, running, own, live>>

-----------------------------------------------------------------------------
\* loadPluginsFromConfig, under the lock of loadedPlugins.

\* ReadFile and Unmarshal; on an error the plugins stay as they are.
Read ==
  /\ load = "read"
  /\ IF file = Unreadable
     THEN /\ load' = "idle"
          /\ UNCHANGED <<todo, present, config, failed, plain>>
     ELSE /\ load' = "entries" /\ todo' = file /\ present' = {}
          /\ config' = file /\ failed' = {} /\ plain' = (\A c \in Name : byCfg[c] = None)
  /\ readAt' = mtime
  /\ UNCHANGED <<file, mtime, main, seen, names, byCfg, manager>>

\* The name an entry's plugin was registered under, as far as is known.
RegName(e) == IF byCfg[e.cfg] # None THEN byCfg[e.cfg] ELSE e.cfg

Tracked(e) == IF e.cfg \in names THEN e.cfg ELSE RegName(e)

\* Mutant: an entry whose plugin runs is passed over before it is noted.
SeenUnlessRunning(e) == IF e.enabled /\ RegName(e) \in names THEN present ELSE present \cup {e.cfg}

\* The name of every entry is kept.
Seen(e) == present \cup {e.cfg}

\* A disabled entry stops its plugin.
Disable(e) ==
  /\ ~e.enabled
  /\ present' = Seen(e)
  /\ IF Tracked(e) \in names
     THEN /\ Unregister({Tracked(e)})
          /\ names' = names \ {Tracked(e)}
          /\ byCfg' = [byCfg EXCEPT ![e.cfg] = None]
     ELSE UNCHANGED <<names, byCfg, manager>>
  /\ UNCHANGED failed

\* An enabled entry whose plugin runs is reconfigured.
Reconfigure(e) ==
  /\ e.enabled /\ RegName(e) \in names
  /\ present' = Seen(e)
  /\ UNCHANGED <<names, byCfg, manager, failed>>

\* Otherwise it is loaded: verified, opened, constructed, configured, registered.
LoadEntry(e) ==
  /\ e.enabled /\ RegName(e) \notin names
  /\ Garbage # {} /\ Register(NewObject, e.own)
  /\ names' = names \cup {e.own}
  /\ IF e.own # e.cfg
     THEN present' = Seen(e) \cup {e.own} /\ byCfg' = [byCfg EXCEPT ![e.cfg] = e.own]
     ELSE present' = Seen(e) /\ UNCHANGED byCfg
  /\ UNCHANGED failed

\* Any step of that fails, or the name is taken.
LoadFails(e) ==
  /\ e.enabled /\ RegName(e) \notin names
  /\ present' = Seen(e) /\ failed' = failed \cup {e}
  /\ UNCHANGED <<names, byCfg, manager>>

ReadEntry ==
  /\ load = "entries" /\ todo # << >>
  /\ todo' = Tail(todo)
  /\ LET e == Head(todo)
     IN  Disable(e) \/ Reconfigure(e) \/ LoadEntry(e) \/ LoadFails(e)
  /\ UNCHANGED <<file, mtime, main, seen, load, config, readAt, plain>>

\* Mutant: a plugin deleted from the file is forgotten and keeps running.
NoneGone == {}

\* Plugins no entry names any more.
Gone == names \ present

\* Mutant: the watcher notes the modification time when the load is over.
NotedLate == IF seen = None THEN None ELSE mtime

\* The watcher noted it before the load.
Noted == seen

\* The sweep that ends a load.
Sweep ==
  /\ load = "entries" /\ todo = << >>
  /\ load' = "idle" /\ seen' = Noted
  /\ Unregister(Gone)
  /\ names' = names \ Gone
  /\ byCfg' = [c \in Name |-> IF byCfg[c] \in Gone THEN None ELSE byCfg[c]]
  /\ UNCHANGED <<file, mtime, main, todo, present, config, readAt, failed, plain>>

Loading == Alive /\ (Read \/ ReadEntry \/ Sweep)

-----------------------------------------------------------------------------
\* main: after the first load the manager starts a loop for every module
\* (nothing else registers or unregisters meanwhile) and the watcher is started.
Start ==
  /\ main = "boot" /\ load = "idle"
  /\ main' = "up" /\ running' = TRUE
  /\ loop' = [i \in Inst |-> IF i \in Registered THEN "start" ELSE loop[i]]
  /\ live' = live \cup Registered
  /\ UNCHANGED <<file, mtime, loader, modules, own>>

\* watchModulesFile looks at the file for the first time.
FirstLook ==
  /\ main \in {"up", "stopping", "waiting"} /\ seen = None
  /\ seen' = mtime
  /\ UNCHANGED <<file, mtime, main, load, todo, present, names, byCfg, config, readAt, failed, plain, manager>>

\* The ticker fires and the modification time has moved; it is noted now.
Look ==
  /\ Alive /\ seen # None /\ load = "idle"
  /\ mtime > seen
  /\ seen' = mtime /\ load' = "read"
  /\ UNCHANGED <<file, mtime, main, todo, present, names, byCfg, config, readAt, failed, plain, manager>>

\* The operator, or the dashboard, writes modules.json.
Edit ==
  /\ Alive /\ mtime < MaxEdits
  /\ file' \in Files \cup {Unreadable}
  /\ mtime' = mtime + 1
  /\ UNCHANGED <<main, loader, manager>>

\* SIGINT or SIGTERM cancels the context every loop's context derives from.
Signal ==
  /\ main = "up"
  /\ main' = "stopping" /\ live' = {}
  /\ UNCHANGED <<file, mtime, loader, modules, running, own, loop>>

\* manager.Stop: no loop is started any more; then it waits for the loops.
Stop ==
  /\ main = "stopping"
  /\ main' = "waiting" /\ running' = FALSE
  /\ UNCHANGED <<file, mtime, loader, modules, own, loop, live>>

Exit ==
  /\ main = "waiting" /\ \A i \in Inst : loop[i] = "none"
  /\ main' = "exited"
  /\ UNCHANGED <<file, mtime, loader, manager>>

Next ==
  \/ Loading
  \/ \E i \in Inst : Loop(i)
  \/ Start \/ FirstLook \/ Look
  \/ Edit
  \/ Signal \/ Stop \/ Exit

Spec == Init /\ [][Next]_vars

(* The main goroutine and the watcher are scheduled, a plugin's Run returns *)
(* and a select that finds the context done again and again picks it.       *)
FairSpec ==
  /\ Spec
  /\ WF_vars(Loading) /\ WF_vars(Start) /\ WF_vars(FirstLook) /\ WF_vars(Look)
  /\ WF_vars(Stop) /\ WF_vars(Exit)
  /\ \A i \in Inst :
       /\ WF_vars(Loop(i))
       /\ SF_vars(Alive /\ Quit(i) /\ UNCHANGED <<file, mtime, main, loader, modules, running, own, live>>)

-----------------------------------------------------------------------------
(* The names the loader tracks are the plugins the manager has, and no      *)
(* plugin outlives its registration: a loop that was not cancelled is that  *)
(* of the object its name is registered to.  So a plugin never runs twice   *)
(* and a removed one stops executing.                                       *)
OneOwner ==
  /\ names = {n \in Name : modules[n] # None}
  /\ \A i \in live : own[i] # None /\ modules[own[i]] = i

(* Between loads only plugins run that the file last read enables.          *)
OnlyEnabledRun ==
  load = "idle" => \A n \in names : \E e \in Range(config) : e.enabled /\ n \in {e.cfg, byCfg[e.cfg]}

\* Every entry names its plugin by the plugin's own name.
NamesMatch(f) == f # Unreadable /\ \A e \in Range(f) : e.cfg = e.own

(* As long as names match, every enabled entry that could be loaded runs    *)
(* between loads, whatever was edited, enabled or removed before.  A plugin *)
(* known by another name at the start of the load can spoil it: its entry,  *)
(* now corrected, passes for running, and the sweep stops it.               *)
EnabledRun ==
  (load = "idle" /\ NamesMatch(config) /\ plain) =>
     \A e \in Range(config) : e.enabled => e \in failed \/ e.own \in names

(* What runs between loads is what the file asked for.                      *)
FileDecides == OnlyEnabledRun /\ EnabledRun

(* A reload that races with a shutdown starts nothing the shutdown does not *)
(* wait for.                                                                *)
StopStartsNothing ==
  [][main = "waiting" => \A i \in Inst : loop[i] = "none" => loop'[i] = "none"]_vars

(* A change of the file is loaded, also one made while a load is under way; *)
(* only changes before the watcher's first look can be missed.              *)
ChangeIsLoaded ==
  \A v \in 1 .. MaxEdits : (seen # None /\ mtime = v /\ readAt < v /\ seen < v) ~> (readAt >= v \/ main # "up")

(* main.go:391 "remember both names as present so the removal sweep below   *)
(* does not stop it": an enabled entry that was loaded keeps its plugin     *)
(* when the file is loaded again.                                           *)
SweepSparesEnabled ==
  [][(load = "entries" /\ load' = "idle") =>
       \A e \in Range(config) : (e.enabled /\ byCfg[e.cfg] \in names) => byCfg[e.cfg] \in names']_vars
=============================================================================
