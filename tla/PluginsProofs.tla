---------------------------- MODULE PluginsProofs ----------------------------
(***************************************************************************)
(* Proofs about PluginReload, for any number of plugins and any contents   *)
(* of modules.json: one object per registered name, cancelled when it is   *)
(* taken off, nothing started behind the back of a shutdown, and nothing   *)
(* running between loads but what the file asks for.                       *)
(*                                                                         *)
(* Then about PluginStore, for any number of plugins, uploads and deletes: *)
(* the list and the files agree however writes fail and wherever the       *)
(* dashboard ends.                                                         *)
(***************************************************************************)
EXTENDS Plugins, TLAPS

\* The part of the types the proofs rest on.
Typed ==
  /\ file \in Files \cup {Unreadable} /\ todo \in Seq(Entry)
  /\ names \subseteq Name /\ byCfg \in [Name -> Name \cup {None}]
  /\ modules \in [Name -> Inst \cup {None}]
  /\ own \in [Inst -> Name \cup {None}]
  /\ loop \in [Inst -> {"none", "start", "run", "wait"}] /\ live \subseteq Inst

\* A registered object knows its name, so no object has two.
OwnName == \A n \in Name : modules[n] # None => own[modules[n]] = n

\* The manager runs from Start until Stop.
RunsWhileUp == running => main \in {"up", "stopping"}

Inv == Typed /\ OneOwner /\ OwnName /\ RunsWhileUp

-----------------------------------------------------------------------------
\* Before the first load nothing is registered.
LEMMA InitInv == Init => Inv
<1> SUFFICES ASSUME Init PROVE Inv
  OBVIOUS
<1>1. Typed
  BY DEF Init, Typed
<1>2. OneOwner /\ OwnName /\ RunsWhileUp
  BY PluginAssumption DEF Init, OneOwner, OwnName, RunsWhileUp
<1> QED
  BY <1>1, <1>2 DEF Inv

\* Taking names off the manager and off the loader keeps them in step.
LEMMA UnregisterStep ==
  ASSUME Inv, NEW S \in SUBSET Name, Unregister(S), names' = names \ S
  PROVE  /\ names' \subseteq Name /\ modules' \in [Name -> Inst \cup {None}]
         /\ own' = own /\ loop' = loop /\ live' \subseteq Inst
         /\ OneOwner' /\ OwnName'
<1>1. /\ modules' = [n \in Name |-> IF n \in S THEN None ELSE modules[n]]
      /\ live' = live \ {modules[n] : n \in S} /\ own' = own /\ loop' = loop
  BY DEF Unregister
<1>2. OneOwner'
  <2>1. names' = {n \in Name : modules'[n] # None}
    BY <1>1 DEF Inv, OneOwner
  <2>2. ASSUME NEW i \in live' PROVE own'[i] # None /\ modules'[own'[i]] = i
    <3>1. i \in live /\ own[i] \in Name /\ modules[own[i]] = i
      BY <1>1, PluginAssumption DEF Inv, Typed, OneOwner
    <3>2. own[i] \notin S
      BY <1>1, <3>1
    <3> QED
      BY <1>1, <3>1, <3>2, PluginAssumption
  <2> QED
    BY <2>1, <2>2 DEF OneOwner
<1>3. OwnName'
  BY <1>1 DEF Inv, OwnName
<1> QED
  BY <1>1, <1>2, <1>3 DEF Inv, Typed

\* An object that nobody holds is registered under a free name.
LEMMA RegisterStep ==
  ASSUME Inv, NEW n \in Name, Garbage # {}, Register(NewObject, n), names' = names \cup {n}
  PROVE  /\ names' \subseteq Name /\ modules' \in [Name -> Inst \cup {None}]
         /\ own' \in [Inst -> Name \cup {None}] /\ live' \subseteq Inst
         /\ loop' \in [Inst -> {"none", "start", "run", "wait"}]
         /\ OneOwner' /\ OwnName' /\ running' = running
<1> DEFINE i == NewObject
<1>1. i \in Inst /\ i \notin Registered
  BY DEF NewObject, Garbage
<1>2. /\ modules[n] = None /\ running' = running
      /\ modules' = [modules EXCEPT ![n] = i] /\ own' = [own EXCEPT ![i] = n]
      /\ live' \subseteq live \cup {i}
      /\ loop' \in {loop, [loop EXCEPT ![i] = "start"]}
  BY DEF Register, NameFree
<1>3. \A m \in Name : modules[m] # i
  BY <1>1, PluginAssumption DEF Registered
<1>4. OneOwner'
  <2>1. names' = {m \in Name : modules'[m] # None}
    BY <1>1, <1>2, PluginAssumption DEF Inv, Typed, OneOwner
  <2>2. ASSUME NEW j \in live' PROVE own'[j] # None /\ modules'[own'[j]] = j
    <3>1. CASE j = i
      BY <1>1, <1>2, <3>1, PluginAssumption DEF Inv, Typed
    <3>2. CASE j # i
      <4>1. j \in live /\ own[j] \in Name /\ modules[own[j]] = j /\ j \in Inst
        BY <1>2, <3>2, PluginAssumption DEF Inv, Typed, OneOwner
      <4>2. own[j] # n
        BY <1>2, <4>1, PluginAssumption
      <4> QED
        BY <1>1, <1>2, <3>2, <4>1, <4>2, PluginAssumption DEF Inv, Typed
    <3> QED
      BY <3>1, <3>2
  <2> QED
    BY <2>1, <2>2 DEF OneOwner
<1>5. OwnName'
  BY <1>1, <1>2, <1>3, PluginAssumption DEF Inv, Typed, OwnName
<1> QED
  BY <1>1, <1>2, <1>4, <1>5 DEF Inv, Typed

\* One entry of modules.json, whatever becomes of it.
LEMMA EntryStep ==
  ASSUME Inv, ReadEntry
  PROVE  Inv'
<1> DEFINE e == Head(todo)
<1>1. e \in Entry /\ todo' \in Seq(Entry)
  BY DEF Inv, Typed, ReadEntry
<1>2. e.cfg \in Name /\ e.own \in Name
  BY <1>1 DEF Entry
<1>3. UNCHANGED <<file, main>> /\ (Disable(e) \/ Reconfigure(e) \/ LoadEntry(e) \/ LoadFails(e))
  BY DEF ReadEntry
<1>4. CASE UNCHANGED <<names, byCfg, manager>>
  BY <1>1, <1>3, <1>4 DEF Inv, Typed, OneOwner, OwnName, RunsWhileUp, manager
<1>5. CASE Disable(e) /\ Tracked(e) \in names
  <2>1. /\ Unregister({Tracked(e)}) /\ names' = names \ {Tracked(e)}
        /\ byCfg' = [byCfg EXCEPT ![e.cfg] = None]
    BY <1>5 DEF Disable
  <2>2. {Tracked(e)} \in SUBSET Name
    BY <1>5 DEF Inv, Typed
  <2>3. running' = running
    BY <2>1 DEF Unregister
  <2> QED
    BY <1>1, <1>3, <2>1, <2>2, <2>3, UnregisterStep DEF Inv, Typed, RunsWhileUp
<1>6. CASE LoadEntry(e)
  <2>1. /\ Garbage # {} /\ Register(NewObject, e.own) /\ names' = names \cup {e.own}
        /\ byCfg' \in {byCfg, [byCfg EXCEPT ![e.cfg] = e.own]}
    BY <1>6 DEF LoadEntry
  <2>2. byCfg' \in [Name -> Name \cup {None}]
    BY <1>2, <2>1 DEF Inv, Typed
  <2> QED
    BY <1>1, <1>2, <1>3, <2>1, <2>2, RegisterStep DEF Inv, Typed, RunsWhileUp
<1> QED
  BY <1>3, <1>4, <1>5, <1>6 DEF Disable, Reconfigure, LoadFails

\* Every step preserves the invariant.
LEMMA NextInv == Inv /\ [Next]_vars => Inv'
<1> SUFFICES ASSUME Inv, [Next]_vars PROVE Inv'
  OBVIOUS
<1> USE DEF Inv
<1>1. CASE Read
  <2>1. todo' \in Seq(Entry)
    BY <1>1, PluginAssumption DEF Read, Typed, Entry
  <2> QED
    BY <1>1, <2>1 DEF Read, Typed, OneOwner, OwnName, RunsWhileUp, manager
<1>2. CASE Sweep
  <2>1. Unregister(Gone) /\ names' = names \ Gone /\ Gone \in SUBSET Name /\ running' = running
    BY <1>2 DEF Sweep, Unregister, Gone, Typed
  <2>2. byCfg' \in [Name -> Name \cup {None}] /\ UNCHANGED <<file, main, todo>>
    BY <1>2 DEF Sweep, Typed
  <2> QED
    BY <2>1, <2>2, UnregisterStep DEF Typed, RunsWhileUp
<1>3. ASSUME NEW i \in Inst, Loop(i) PROVE Inv'
  <2>1. loop' \in [Inst -> {"none", "start", "run", "wait"}]
    BY <1>3 DEF Loop, LoopStart, Return, Fire, Quit, Typed
  <2> QED
    BY <1>3, <2>1 DEF Loop, Typed, OneOwner, OwnName, RunsWhileUp, loader
<1>4. CASE Start
  <2>1. loop' \in [Inst -> {"none", "start", "run", "wait"}]
    BY <1>4 DEF Start, Typed
  <2>2. live' = live \cup Registered /\ Registered \subseteq Inst
    BY <1>4 DEF Start, Registered, Typed
  <2>3. \A i \in Registered : own[i] # None /\ modules[own[i]] = i
    BY PluginAssumption DEF Registered, OwnName
  <2> QED
    BY <1>4, <2>1, <2>2, <2>3 DEF Start, Typed, OneOwner, OwnName, RunsWhileUp, loader
<1>5. CASE FirstLook \/ Look
  BY <1>5 DEF FirstLook, Look, Typed, OneOwner, OwnName, RunsWhileUp, manager
<1>6. CASE Edit
  BY <1>6 DEF Edit, Typed, OneOwner, OwnName, RunsWhileUp, loader, manager
<1>7. CASE Signal \/ Stop \/ Exit
  BY <1>7 DEF Signal, Stop, Exit, Typed, OneOwner, OwnName, RunsWhileUp, loader, manager
<1>8. CASE UNCHANGED vars
  BY <1>8 DEF vars, Typed, OneOwner, OwnName, RunsWhileUp, loader, manager
<1> QED
  BY <1>1, <1>2, <1>3, <1>4, <1>5, <1>6, <1>7, <1>8, EntryStep DEF Next, Loading

(* The invariant holds throughout. *)
THEOREM Invariance == Spec => []Inv
  BY InitInv, NextInv, PTL DEF Spec

(* The loader's names are the manager's, and every loop that was not        *)
(* cancelled belongs to the object its name is registered to, across any    *)
(* sequence of edits, failed loads, disabling and removal (main.go and      *)
(* base.go).                                                                *)
THEOREM PluginsHaveOneOwner == Spec => []OneOwner
<1>1. Inv => OneOwner
  BY DEF Inv
<1> QED
  BY <1>1, Invariance, PTL

(* While Stop waits for the loops nothing starts another one, although the  *)
(* watcher may still be loading (Register in base.go looks at m.running).   *)
THEOREM ShutdownStartsNothing == Spec => StopStartsNothing
<1> DEFINE Quiet == main = "waiting" => \A i \in Inst : loop[i] = "none" => loop'[i] = "none"
<1>1. ASSUME Inv, [Next]_vars PROVE Quiet
  <2> SUFFICES ASSUME main = "waiting", NEW i \in Inst, loop[i] = "none" PROVE loop'[i] = "none"
    OBVIOUS
  <2>1. ~running
    BY <1>1 DEF Inv, RunsWhileUp
  <2>2. CASE Loading
    BY <2>1, <2>2 DEF Loading, Read, ReadEntry, Sweep, Disable, Reconfigure, LoadEntry, LoadFails,
       Register, StartsLoop, Unregister, manager
  <2>3. ASSUME NEW j \in Inst, Loop(j) PROVE loop'[i] = "none"
    BY <1>1, <2>3 DEF Inv, Typed, Loop, LoopStart, Return, Fire, Quit
  <2>4. CASE Start \/ FirstLook \/ Look \/ Edit \/ Signal \/ Stop \/ Exit \/ UNCHANGED vars
    BY <2>4 DEF Start, FirstLook, Look, Edit, Signal, Stop, Exit, vars, manager
  <2> QED
    BY <1>1, <2>2, <2>3, <2>4 DEF Next
<1>2. Inv /\ [Next]_vars => [Quiet]_vars
  BY <1>1
<1> QED
  BY <1>2, Invariance, PTL DEF Spec, StopStartsNothing

-----------------------------------------------------------------------------
\* What runs between loads.

\* A modules.json that has one entry for a name, as the dashboard keeps it
\* (src/internal/api/modules.go: ModulesStorage.Add refuses a name it has).
EachOnce(f) == \A i, j \in DOMAIN f : f[i].cfg = f[j].cfg => i = j

\* How many entries of config the load has dealt with.
Dealt == IF load = "entries" THEN Len(config) - Len(todo) ELSE Len(config)

\* The entries left are the end of what was read.
TodoIsTheRest ==
  /\ config \in Seq(Entry) /\ EachOnce(config)
  /\ load = "entries" =>
       /\ Len(todo) <= Len(config)
       /\ \A j \in 1 .. Len(todo) : todo[j] = config[Len(config) - Len(todo) + j]

\* The names the sweep will spare; outside a load, all.
Spared == IF load = "entries" THEN names \cap present ELSE names

AsksFor(e, n) == e.enabled /\ n \in {e.cfg, byCfg[e.cfg]}

\* What will still run when the load is over is asked for by an entry that
\* the load has dealt with.
SparedIsAskedFor == \A n \in Spared : \E j \in 1 .. Dealt : AsksFor(config[j], n)

\* Where names match, every enabled entry dealt with failed or will still run.
EnabledIsSpared ==
  plain /\ NamesMatch(config) =>
    /\ \A c \in Name : byCfg[c] = None
    /\ \A j \in 1 .. Dealt : config[j].enabled => config[j] \in failed \/ config[j].own \in Spared

FileInv == TodoIsTheRest /\ SparedIsAskedFor /\ EnabledIsSpared

\* Before the first load nothing runs and nothing is asked for.
LEMMA FileInit == Init => FileInv
<1> SUFFICES ASSUME Init PROVE FileInv
  OBVIOUS
<1>1. config = << >> /\ load = "read" /\ names = {} /\ Dealt = 0 /\ Spared = {}
  BY DEF Init, Dealt, Spared
<1> QED
  BY <1>1 DEF Init, FileInv, TodoIsTheRest, EachOnce, SparedIsAskedFor, EnabledIsSpared

\* Where a load is when it comes to the next entry.
LEMMA AtEntry ==
  ASSUME Inv, FileInv, ReadEntry
  PROVE  /\ Dealt \in Nat /\ Dealt + 1 \in 1 .. Len(config) /\ Dealt' = Dealt + 1
         /\ Head(todo) = config[Dealt + 1] /\ config[Dealt + 1] \in Entry
         /\ \A j \in 1 .. Dealt : config[j] \in Entry /\ config[j].cfg # config[Dealt + 1].cfg
         /\ config' = config /\ plain' = plain /\ load' = "entries" /\ load = "entries"
         /\ TodoIsTheRest'
<1>1. /\ load = "entries" /\ todo # << >> /\ todo' = Tail(todo)
      /\ config' = config /\ plain' = plain /\ load' = load
  BY DEF ReadEntry
<1>2. /\ todo \in Seq(Entry) /\ config \in Seq(Entry) /\ EachOnce(config)
      /\ Len(todo) <= Len(config)
      /\ \A j \in 1 .. Len(todo) : todo[j] = config[Len(config) - Len(todo) + j]
  BY <1>1 DEF Inv, Typed, FileInv, TodoIsTheRest
<1>3. Len(todo) \in Nat /\ Len(todo) > 0 /\ Len(config) \in Nat
  BY <1>1, <1>2
<1>4. /\ Len(todo') = Len(todo) - 1 /\ Head(todo) = todo[1]
      /\ \A j \in 1 .. Len(todo) - 1 : todo'[j] = todo[j + 1]
  BY <1>1, <1>2, <1>3
<1>5. /\ Dealt = Len(config) - Len(todo) /\ Dealt' = Dealt + 1 /\ Dealt \in Nat
      /\ Dealt + 1 \in 1 .. Len(config) /\ Head(todo) = config[Dealt + 1]
  BY <1>1, <1>2, <1>3, <1>4 DEF Dealt
<1>6. \A j \in 1 .. Len(config) : config[j] \in Entry
  BY <1>2
<1>7. \A j \in 1 .. Dealt : config[j].cfg # config[Dealt + 1].cfg
  <2>1. DOMAIN config = 1 .. Len(config)
    BY <1>2
  <2>2. ASSUME NEW j \in 1 .. Dealt, config[j].cfg = config[Dealt + 1].cfg PROVE FALSE
    <3>1. j \in DOMAIN config /\ Dealt + 1 \in DOMAIN config /\ j # Dealt + 1
      BY <1>3, <1>5, <2>1
    <3> QED
      BY <1>2, <2>2, <3>1 DEF EachOnce
  <2> QED
    BY <2>2
<1>8. TodoIsTheRest'
  BY <1>1, <1>2, <1>3, <1>4 DEF TodoIsTheRest, EachOnce
<1> QED
  BY <1>1, <1>5, <1>6, <1>7, <1>8

\* Dealing with an entry spares only what an entry asks for.
LEMMA EntrySpares ==
  ASSUME Inv, FileInv, ReadEntry
  PROVE  SparedIsAskedFor'
<1> DEFINE k == Dealt + 1  e == config[k]
<1>1. /\ Dealt \in Nat /\ k \in 1 .. Len(config) /\ Dealt' = k /\ Head(todo) = e /\ e \in Entry
      /\ \A j \in 1 .. Dealt : config[j] \in Entry /\ config[j].cfg # e.cfg
      /\ config' = config /\ load' = "entries" /\ load = "entries"
  BY AtEntry
<1>2. Disable(e) \/ Reconfigure(e) \/ LoadEntry(e) \/ LoadFails(e)
  BY <1>1 DEF ReadEntry
<1>3. e.cfg \in Name /\ e.own \in Name /\ byCfg \in [Name -> Name \cup {None}] /\ names \subseteq Name
  BY <1>1 DEF Inv, Typed, Entry
<1>4. Spared = names \cap present /\ Spared' = names' \cap present'
  BY <1>1 DEF Spared
<1> SUFFICES ASSUME NEW n \in names', n \in present'
             PROVE  \E j \in 1 .. k : config[j].enabled /\ n \in {config[j].cfg, byCfg'[config[j].cfg]}
  BY <1>1, <1>4 DEF SparedIsAskedFor, AsksFor
<1>5. \A j \in 1 .. Dealt : byCfg'[config[j].cfg] = byCfg[config[j].cfg]
  BY <1>1, <1>2, <1>3 DEF Disable, Reconfigure, LoadEntry, LoadFails, Entry
<1>6. ASSUME n \in names, n \in present PROVE \E j \in 1 .. Dealt : config[j].enabled /\ n \in {config[j].cfg, byCfg'[config[j].cfg]}
  BY <1>4, <1>5, <1>6 DEF FileInv, SparedIsAskedFor, AsksFor
<1>7. CASE n \in names /\ n \in present
  BY <1>1, <1>6, <1>7
<1>8. CASE ~(n \in names /\ n \in present)
  <2>1. e.enabled /\ n \in {e.cfg, byCfg'[e.cfg]}
    BY <1>2, <1>3, <1>8, PluginAssumption DEF Disable, Reconfigure, LoadEntry, LoadFails, Seen, Tracked
  <2> QED
    BY <1>1, <2>1
<1> QED
  BY <1>7, <1>8

\* Where names match, an entry takes nothing from another.
LEMMA EntryRuns ==
  ASSUME Inv, FileInv, ReadEntry
  PROVE  EnabledIsSpared'
<1> DEFINE k == Dealt + 1  e == config[k]
<1>1. /\ Dealt \in Nat /\ k \in 1 .. Len(config) /\ Dealt' = k /\ Head(todo) = e /\ e \in Entry
      /\ \A j \in 1 .. Dealt : config[j] \in Entry /\ config[j].cfg # e.cfg
      /\ config' = config /\ plain' = plain /\ load' = "entries" /\ load = "entries"
  BY AtEntry
<1>2. Disable(e) \/ Reconfigure(e) \/ LoadEntry(e) \/ LoadFails(e)
  BY <1>1 DEF ReadEntry
<1>3. Spared = names \cap present /\ Spared' = names' \cap present'
  BY <1>1 DEF Spared
<1> SUFFICES ASSUME plain, NamesMatch(config)
             PROVE  /\ \A c \in Name : byCfg'[c] = None
                    /\ \A j \in 1 .. k : config[j].enabled =>
                         config[j] \in failed' \/ config[j].own \in names' \cap present'
  BY <1>1, <1>3 DEF EnabledIsSpared, NamesMatch
<1>4. /\ \A c \in Name : byCfg[c] = None
      /\ \A j \in 1 .. Dealt : config[j].enabled => config[j] \in failed \/ config[j].own \in names \cap present
  BY <1>1, <1>3 DEF FileInv, EnabledIsSpared
<1>5. \A j \in 1 .. k : config[j].own = config[j].cfg
  BY <1>1 DEF NamesMatch, Range, FileInv, TodoIsTheRest
<1>6. e.cfg \in Name /\ e.own = e.cfg /\ byCfg[e.cfg] = None /\ RegName(e) = e.cfg /\ Tracked(e) = e.cfg
  BY <1>1, <1>4, <1>5 DEF RegName, Tracked, Entry
<1>7. \A c \in Name : byCfg'[c] = None
  BY <1>2, <1>4, <1>6 DEF Disable, Reconfigure, LoadEntry, LoadFails, Inv, Typed
<1>8. /\ names \ {e.cfg} \subseteq names' /\ present \subseteq present' /\ failed \subseteq failed'
      /\ e.enabled => e \in failed' \/ e.own \in names' \cap present'
  BY <1>2, <1>6 DEF Disable, Reconfigure, LoadEntry, LoadFails, Seen
<1>9. ASSUME NEW j \in 1 .. k, config[j].enabled
      PROVE  config[j] \in failed' \/ config[j].own \in names' \cap present'
  <2>1. CASE j = k
    BY <1>8, <1>9, <2>1
  <2>2. CASE j # k
    <3>1. j \in 1 .. Dealt
      BY <1>1, <2>2
    <3>2. config[j].own # e.cfg
      BY <1>1, <1>5, <3>1
    <3> QED
      BY <1>4, <1>8, <1>9, <3>1, <3>2
  <2> QED
    BY <2>1, <2>2
<1> QED
  BY <1>7, <1>9

\* Steps that leave the file's contents and the loader's tables alone.
LEMMA FileKept ==
  ASSUME FileInv, UNCHANGED <<load, todo, present, names, byCfg, config, failed, plain>>
  PROVE  FileInv'
  BY DEF FileInv, TodoIsTheRest, EachOnce, SparedIsAskedFor, AsksFor, EnabledIsSpared, NamesMatch, Dealt, Spared

\* Every step preserves the invariant.
LEMMA FileNext ==
  ASSUME \A f \in Files : EachOnce(f), Inv, FileInv, [Next]_vars
  PROVE  FileInv'
<1>1. CASE Read
  <2>1. CASE file = Unreadable
    <3>1. /\ load = "read" /\ load' = "idle"
          /\ UNCHANGED <<todo, present, names, byCfg, config, failed, plain>>
      BY <1>1, <2>1 DEF Read
    <3> QED
      BY <3>1 DEF FileInv, TodoIsTheRest, EachOnce, SparedIsAskedFor, AsksFor, EnabledIsSpared, NamesMatch, Dealt, Spared
  <2>2. CASE file # Unreadable
    <3>1. /\ load' = "entries" /\ todo' = file /\ present' = {} /\ config' = file
          /\ plain' = (\A c \in Name : byCfg[c] = None) /\ byCfg' = byCfg /\ file \in Files
      BY <1>1, <2>2 DEF Read, Inv, Typed
    <3>2. file \in Seq(Entry) /\ Len(file) \in Nat
      <4>1. file \in Seq(Entry)
        BY <3>1, PluginAssumption, Zenon DEF Entry
      <4> QED
        BY <4>1
    <3>3. TodoIsTheRest'
      BY <3>1, <3>2 DEF TodoIsTheRest, EachOnce
    <3>4. Spared' = {} /\ Dealt' = 0
      BY <3>1, <3>2 DEF Spared, Dealt
    <3> QED
      BY <3>1, <3>3, <3>4 DEF FileInv, SparedIsAskedFor, EnabledIsSpared
  <2> QED
    BY <2>1, <2>2
<1>2. CASE ReadEntry
  BY <1>2, AtEntry, EntrySpares, EntryRuns DEF FileInv
<1>3. CASE Sweep
  <2>1. /\ load = "entries" /\ todo = << >> /\ load' = "idle" /\ names' = names \ (names \ present)
        /\ byCfg' = [c \in Name |-> IF byCfg[c] \in names \ present THEN None ELSE byCfg[c]]
        /\ UNCHANGED <<todo, present, config, failed, plain>>
    BY <1>3 DEF Sweep, Gone
  <2>2. Len(todo) = 0 /\ config \in Seq(Entry) /\ Len(config) \in Nat
    BY <2>1 DEF FileInv, TodoIsTheRest
  <2>3. Spared' = Spared /\ Spared = names \cap present /\ Dealt = Len(config) /\ Dealt' = Dealt
    BY <2>1, <2>2 DEF Spared, Dealt
  <2>4. \A j \in 1 .. Dealt : config[j].cfg \in Name
    <3>1. \A j \in 1 .. Dealt : config[j] \in Entry
      BY <2>2, <2>3
    <3> QED
      BY <3>1 DEF Entry
  <2>5. SparedIsAskedFor'
    BY <2>1, <2>3, <2>4 DEF FileInv, SparedIsAskedFor, AsksFor
  <2>6. EnabledIsSpared'
    BY <2>1, <2>3 DEF FileInv, EnabledIsSpared, NamesMatch
  <2> QED
    BY <2>1, <2>5, <2>6 DEF FileInv, TodoIsTheRest, EachOnce
<1>4. CASE Look
  <2>1. /\ load = "idle" /\ load' = "read"
        /\ UNCHANGED <<todo, present, names, byCfg, config, failed, plain>>
    BY <1>4 DEF Look
  <2> QED
    BY <2>1 DEF FileInv, TodoIsTheRest, EachOnce, SparedIsAskedFor, AsksFor, EnabledIsSpared, NamesMatch, Dealt, Spared
<1>5. CASE \/ \E i \in Inst : Loop(i)
           \/ Start \/ FirstLook \/ Edit \/ Signal \/ Stop \/ Exit \/ UNCHANGED vars
  BY <1>5, FileKept DEF Loop, Start, FirstLook, Edit, Signal, Stop, Exit, vars, loader
<1> QED
  BY <1>1, <1>2, <1>3, <1>4, <1>5 DEF Next, Loading

(* Between loads only plugins run that the file last read enables, and      *)
(* where names match every enabled entry runs that could be loaded,         *)
(* whatever was edited, disabled, removed or renamed before                 *)
(* (src/cmd/agent/main.go, loadPluginsFromConfig): for any files with one   *)
(* entry to a name.  With two for a name it fails: one of them can load a   *)
(* plugin the other, disabled, makes the loader lose track of.              *)
THEOREM FileTheorem ==
  ASSUME \A f \in Files : EachOnce(f)
  PROVE  Spec => []FileDecides
<1>1. Inv /\ FileInv /\ [Next]_vars => FileInv'
  BY FileNext
<1>2. Inv /\ FileInv => FileDecides
  <2> SUFFICES ASSUME Inv, FileInv, load = "idle"
               PROVE  /\ \A n \in names : \E e \in Range(config) : e.enabled /\ n \in {e.cfg, byCfg[e.cfg]}
                      /\ NamesMatch(config) /\ plain =>
                           \A e \in Range(config) : e.enabled => e \in failed \/ e.own \in names
    BY DEF FileDecides, OnlyEnabledRun, EnabledRun
  <2>1. Dealt = Len(config) /\ Spared = names /\ config \in Seq(Entry)
    BY DEF Dealt, Spared, FileInv, TodoIsTheRest
  <2>2. Range(config) = {config[j] : j \in 1 .. Dealt}
    BY <2>1 DEF Range
  <2> QED
    BY <2>1, <2>2 DEF FileInv, SparedIsAskedFor, AsksFor, EnabledIsSpared
<1> QED
  BY <1>1, <1>2, FileInit, Invariance, PTL DEF Spec

-----------------------------------------------------------------------------
\* PluginStore.

Works(r, n) == step[r] \notin {"idle", "ended"} /\ target[r] = n

Bare(n) == so[n] = None /\ meta[n] = None /\ sig[n] = None

\* Without a race one request at most is at work on a name.
WorksAlone(n) == \A r, q \in Store!Request : Works(r, n) /\ Works(q, n) => r = q

\* A listed plugin is whole, and no request has gone beyond the signature.
ListedIsWhole(n) ==
  list[n] # None =>
    /\ so[n] = list[n] /\ meta[n] = list[n]
    /\ list[n] \in Signed => sig[n] = list[n]
    /\ \A r \in Store!Request : Works(r, n) => step[r] = "inspected"

\* The files an upload has put there so far are its own.
FilesAreMine(n) ==
  \A r \in Store!Request : Works(r, n) =>
    /\ step[r] \in {"placed", "signed", "described"} => so[n] = r
    /\ step[r] \in {"signed", "described"} /\ r \in Signed => sig[n] = r
    /\ step[r] = "described" => meta[n] = r

\* A plugin that is not listed has the files of the request at work on it.
UnlistedIsBare(n) ==
  list[n] = None /\ trouble[n] = {} =>
    /\ (\A r \in Store!Request : ~Works(r, n)) => Bare(n)
    /\ \A r \in Store!Request : Works(r, n) =>
         /\ step[r] \in {"inspected", "unlisted", "free"} => Bare(n)
         /\ step[r] = "placed" => sig[n] = None /\ meta[n] = None
         /\ step[r] = "signed" => meta[n] = None
         /\ step[r] = "removed" => so[n] = None

NameInv(n) ==
  "race" \notin trouble[n] => WorksAlone(n) /\ ListedIsWhole(n) /\ FilesAreMine(n) /\ UnlistedIsBare(n)

StoreInv ==
  /\ Store!TypeOK
  /\ \A r \in Store!Request : step[r] \notin {"idle", "ended"} => target[r] \in Installable
  /\ \A n \in Installable : NameInv(n)

LEMMA StoreInit == Store!Init => StoreInv
<1> SUFFICES ASSUME Store!Init PROVE StoreInv
  OBVIOUS
<1>1. Store!TypeOK
  BY DEF Store!Init, Store!TypeOK
<1> QED
  BY <1>1 DEF Store!Init, StoreInv, NameInv, WorksAlone, ListedIsWhole, FilesAreMine, UnlistedIsBare, Works, Bare

\* A step of request r, about n.
Moves(r, n) ==
  /\ r \in Store!Request /\ n \in Installable
  /\ step[r] \in {"idle", "ended"} \/ target[r] = n
  /\ \E s : step' = [step EXCEPT ![r] = s]
  /\ target' = [target EXCEPT ![r] = n]
  /\ \A m \in Installable \ {n} :
       list'[m] = list[m] /\ so'[m] = so[m] /\ sig'[m] = sig[m] /\ meta'[m] = meta[m] /\ trouble'[m] = trouble[m]

\* It leaves the other names alone.
LEMMA OthersKept ==
  ASSUME StoreInv, NEW r, NEW n, Moves(r, n), Store!TypeOK', NameInv(n)'
  PROVE  StoreInv'
<1>2. \A q \in Store!Request \ {r} : step'[q] = step[q] /\ target'[q] = target[q]
  BY DEF Moves, StoreInv, Store!TypeOK
<1>3. target'[r] = n
  BY DEF Moves, StoreInv, Store!TypeOK
<1>4. ASSUME NEW m \in Installable, m # n PROVE NameInv(m)'
  <2>1. \A q \in Store!Request : Works(q, m)' = Works(q, m) /\ (Works(q, m) => step'[q] = step[q])
    BY <1>2, <1>3, <1>4 DEF Works, Moves
  <2>2. list'[m] = list[m] /\ so'[m] = so[m] /\ sig'[m] = sig[m] /\ meta'[m] = meta[m] /\ trouble'[m] = trouble[m]
    BY <1>4 DEF Moves
  <2> QED
    BY <2>1, <2>2 DEF StoreInv, NameInv, WorksAlone, ListedIsWhole, FilesAreMine, UnlistedIsBare, Bare
<1>5. \A q \in Store!Request : step'[q] \notin {"idle", "ended"} => target'[q] \in Installable
  BY <1>2, <1>3 DEF StoreInv, Moves
<1> QED
  BY <1>4, <1>5 DEF StoreInv

\* An upload and a delete take up a name.
LEMMA BeginStep ==
  ASSUME Store!StoreAssumption, StoreInv, NEW n \in Installable, NEW r \in Store!Request,
         \/ r \in Upload /\ Store!Receive(r, n)
         \/ r \in Remover /\ (Store!Delist(r, n, "delisted") \/ Store!Delist(r, n, "dropped"))
  PROVE  StoreInv'
<1> USE DEF StoreInv, Store!TypeOK, Store!Receive, Store!Delist, Store!Go, Store!Noted, Store!Without, Store!files
<1>1. Moves(r, n)
  BY DEF Moves
<1>2. Store!TypeOK'
  <2>1. trouble' \in [Installable -> SUBSET {"race", "crash", "disk", "modules"}]
    BY DEF Store!Meets
  <2> QED
    BY <2>1
<1>3. NameInv(n)'
  <2> SUFFICES ASSUME "race" \notin trouble'[n]
               PROVE  (WorksAlone(n) /\ ListedIsWhole(n) /\ FilesAreMine(n) /\ UnlistedIsBare(n))'
    BY DEF NameInv
  <2>1. trouble'[n] = trouble[n] \cup Store!Meets(n) /\ step[r] = "idle"
    OBVIOUS
  <2>2. Store!About(n) = {}
    BY <2>1 DEF Store!Meets
  <2>3. \A q \in Store!Request : ~Works(q, n)
    BY <2>2 DEF Store!About, Store!Busy, Works
  <2>4. trouble'[n] = trouble[n]
    BY <2>1, <2>2 DEF Store!Meets
  <2>5. \A q \in Store!Request : Works(q, n)' => q = r
    BY <2>3 DEF Works
  <2>6. ListedIsWhole(n) /\ UnlistedIsBare(n)
    BY <2>4 DEF NameInv
  <2>7. step'[r] \in {"inspected", "delisted", "dropped"} /\ UNCHANGED <<so, sig, meta>>
    OBVIOUS
  <2>8. list'[n] # None => step'[r] = "inspected" /\ list' = list
    OBVIOUS
  <2>9. list'[n] = None /\ step'[r] = "inspected" => list' = list
    OBVIOUS
  <2>10. WorksAlone(n)' /\ FilesAreMine(n)'
    BY <2>5, <2>7 DEF WorksAlone, FilesAreMine
  <2>11. ListedIsWhole(n)'
    BY <2>5, <2>6, <2>7, <2>8 DEF ListedIsWhole
  <2>12. Works(r, n)'
    BY <2>7 DEF Works
  <2>13. UnlistedIsBare(n)'
    BY <2>3, <2>4, <2>5, <2>6, <2>7, <2>9, <2>12 DEF UnlistedIsBare, Bare
  <2> QED
    BY <2>10, <2>11, <2>13
<1> QED
  BY <1>1, <1>2, <1>3, OthersKept

\* One of the steps in the middle of a request.
WorkStep(r) ==
  \/ /\ r \in Upload
     /\ \/ Store!CheckListed(r) \/ Store!CheckFiles(r) \/ Store!Place(r)
        \/ Store!Sign(r) \/ Store!Describe(r) \/ Store!Register(r)
  \/ /\ r \in Remover
     /\ Store!RemoveSo(r) \/ Store!RemoveRest(r) \/ Store!RemoveModuleFiles(r)

LEMMA WorkMoves ==
  ASSUME Store!StoreAssumption, StoreInv, NEW r, NEW n, n = target[r], WorkStep(r)
  PROVE  Moves(r, n) /\ Store!TypeOK' /\ Works(r, n)
<1>1. r \in Store!Request /\ step[r] \notin {"idle", "ended"} /\ n \in Installable
  BY DEF StoreInv, WorkStep, Store!Request, Store!CheckListed, Store!CheckFiles, Store!Place, Store!Sign, Store!Describe,
       Store!Register, Store!RemoveSo, Store!RemoveRest, Store!RemoveModuleFiles
<1>2. CASE r \in Upload /\ (Store!CheckListed(r) \/ Store!CheckFiles(r) \/ Store!Place(r))
  BY <1>1, <1>2 DEF StoreInv, Store!TypeOK, Moves, Works, Store!CheckListed, Store!CheckFiles, Store!Place, Store!Refuse,
       Store!Go, Store!files
<1>3. CASE r \in Upload /\ Store!Sign(r)
  BY <1>1, <1>3 DEF StoreInv, Store!TypeOK, Moves, Works, Store!Sign, Store!Go, Store!Noted, Store!Without, Store!With, Store!Cut
<1>4. CASE r \in Upload /\ Store!Describe(r)
  <2>1. Moves(r, n) /\ Works(r, n)
    BY <1>1, <1>4 DEF StoreInv, Store!TypeOK, Moves, Works, Store!Describe, Store!Go, Store!Noted, Store!Without, Store!With, Store!Cut
  <2>2. Store!TypeOK'
    BY <1>1, <1>4 DEF StoreInv, Store!TypeOK, Store!Describe, Store!Go, Store!Noted, Store!Without, Store!With, Store!Cut
  <2> QED
    BY <2>1, <2>2
<1>5. CASE r \in Upload /\ Store!Register(r)
  <2>1. Moves(r, n) /\ Works(r, n)
    BY <1>1, <1>5 DEF StoreInv, Store!TypeOK, Moves, Works, Store!Register, Store!Go, Store!Without, Store!RemoveFiles,
         Store!RolledBack, Store!files
  <2>2. Store!TypeOK'
    BY <1>1, <1>5 DEF StoreInv, Store!TypeOK, Store!Register, Store!Go, Store!Without, Store!RemoveFiles,
         Store!RolledBack, Store!files
  <2> QED
    BY <2>1, <2>2
<1>6. CASE r \in Remover /\ Store!RemoveSo(r)
  BY <1>1, <1>6 DEF StoreInv, Store!TypeOK, Moves, Works, Store!RemoveSo, Store!Go, Store!Noted, Store!Without
<1>7. CASE r \in Remover /\ Store!RemoveRest(r)
  BY <1>1, <1>7 DEF StoreInv, Store!TypeOK, Moves, Works, Store!RemoveRest, Store!Go, Store!Without, Store!DropSig
<1>8. CASE r \in Remover /\ Store!RemoveModuleFiles(r)
  BY <1>1, <1>8 DEF StoreInv, Store!TypeOK, Moves, Works, Store!RemoveModuleFiles, Store!Go, Store!Noted, Store!Without
<1> QED
  BY <1>2, <1>3, <1>4, <1>5, <1>6, <1>7, <1>8 DEF WorkStep

\* NameInv of a name that request r alone is at work on, told by the name's
\* entry, its three files, the step of r and the trouble.
InvAt(r, entry, bin, sgn, des, st, tr) ==
  /\ entry # None =>
       /\ bin = entry /\ des = entry
       /\ entry \in Signed => sgn = entry
       /\ st \in {"idle", "ended", "inspected"}
  /\ st \in {"placed", "signed", "described"} => bin = r
  /\ st \in {"signed", "described"} /\ r \in Signed => sgn = r
  /\ st = "described" => des = r
  /\ entry = None /\ tr = {} =>
       /\ st \in {"idle", "ended", "inspected", "unlisted", "free"} => bin = None /\ des = None /\ sgn = None
       /\ st = "placed" => sgn = None /\ des = None
       /\ st = "signed" => des = None
       /\ st = "removed" => bin = None

\* The request's name stays in order.
LEMMA WorkKeepsName ==
  ASSUME Store!StoreAssumption, StoreInv, NEW r, NEW n, n = target[r], WorkStep(r),
         InvAt(r, list[n], so[n], sig[n], meta[n], step[r], trouble[n])
  PROVE  InvAt(r, list'[n], so'[n], sig'[n], meta'[n], step'[r], trouble'[n])
<1>1. r \in Store!Request /\ n \in Installable /\ step[r] \notin {"idle", "ended"}
  BY WorkMoves DEF Moves, Works
<1>2. CASE r \in Upload /\ (Store!CheckListed(r) \/ Store!CheckFiles(r) \/ Store!Place(r))
  <2>1. /\ UNCHANGED <<list, sig, meta, trouble>>
        /\ \/ /\ step[r] \in {"inspected", "unlisted", "free"} /\ step'[r] = "ended" /\ so' = so
           \/ step[r] = "inspected" /\ list[n] = None /\ step'[r] = "unlisted" /\ so' = so
           \/ step[r] = "unlisted" /\ step'[r] = "free" /\ so' = so
           \/ step[r] = "free" /\ step'[r] = "placed" /\ so'[n] = r
    BY <1>1, <1>2 DEF StoreInv, Store!TypeOK, Store!CheckListed, Store!CheckFiles, Store!Place, Store!Refuse,
         Store!Go, Store!files
  <2> QED
    BY <2>1 DEF InvAt
<1>3. CASE r \in Upload /\ Store!Sign(r)
  <2>1. /\ step[r] = "placed" /\ list' = list /\ meta' = meta
        /\ \/ /\ step'[r] = "signed" /\ so' = so /\ trouble' = trouble
              /\ sig'[n] = IF r \in Signed THEN r ELSE sig[n]
           \/ /\ step'[r] = "ended" /\ so'[n] = None
              /\ "disk" \in trouble'[n] \/ UNCHANGED <<sig, trouble>>
    BY <1>1, <1>3 DEF StoreInv, Store!TypeOK, Store!Sign, Store!Go, Store!Noted, Store!Without, Store!With, Store!Cut
  <2> QED
    BY <2>1 DEF InvAt
<1>4. CASE r \in Upload /\ Store!Describe(r)
  <2>1. /\ step[r] = "signed" /\ list' = list
        /\ \/ step'[r] = "described" /\ meta'[n] = r /\ UNCHANGED <<so, sig, trouble>>
           \/ /\ step'[r] = "ended" /\ so'[n] = None /\ sig'[n] = None
              /\ "disk" \in trouble'[n] \/ UNCHANGED <<meta, trouble>>
    BY <1>1, <1>4 DEF StoreInv, Store!TypeOK, Store!Describe, Store!Go, Store!Noted, Store!Without, Store!With, Store!Cut
  <2> QED
    BY <2>1 DEF InvAt
<1>5. CASE r \in Upload /\ Store!Register(r)
  <2>1. /\ step[r] = "described" /\ step'[r] = "ended"
        /\ \/ list'[n] = r /\ UNCHANGED <<so, sig, meta>>
           \/ list' = list /\ so'[n] = None /\ sig'[n] = None /\ meta'[n] = None
    BY <1>1, <1>5 DEF StoreInv, Store!TypeOK, Store!Register, Store!Go, Store!Without, Store!RemoveFiles,
       Store!RolledBack, Store!files
  <2>2. r # None
    BY <1>5 DEF Store!StoreAssumption
  <2> QED
    BY <1>1, <1>5, <2>1, <2>2 DEF InvAt
<1>6. CASE r \in Remover /\ Store!RemoveSo(r)
  <2>1. /\ step[r] = "delisted" /\ UNCHANGED <<list, sig, meta>>
        /\ \/ step'[r] = "removed" /\ so'[n] = None /\ trouble' = trouble
           \/ step'[r] = "idle" /\ "disk" \in trouble'[n] /\ so' = so
    BY <1>1, <1>6 DEF StoreInv, Store!TypeOK, Store!RemoveSo, Store!Go, Store!Noted, Store!Without
  <2> QED
    BY <2>1 DEF InvAt
<1>7. CASE r \in Remover /\ Store!RemoveRest(r)
  <2>1. /\ step[r] = "removed" /\ step'[r] = "idle" /\ UNCHANGED <<list, so, trouble>>
        /\ meta'[n] = None /\ sig'[n] = None
    BY <1>1, <1>7 DEF StoreInv, Store!TypeOK, Store!RemoveRest, Store!Go, Store!Without, Store!DropSig
  <2> QED
    BY <2>1 DEF InvAt
<1>8. CASE r \in Remover /\ Store!RemoveModuleFiles(r)
  <2>1. /\ step[r] = "dropped" /\ step'[r] = "idle" /\ UNCHANGED <<list, sig>>
        /\ so'[n] = None /\ meta'[n] = None 
        /\ sig[n] # None => "modules" \in trouble'[n]
    BY <1>1, <1>8 DEF StoreInv, Store!TypeOK, Store!RemoveModuleFiles, Store!Go, Store!Noted, Store!Without
  <2> QED
    BY <2>1 DEF InvAt
<1> QED
  BY <1>2, <1>3, <1>4, <1>5, <1>6, <1>7, <1>8 DEF WorkStep

LEMMA WorkKeeps ==
  ASSUME Store!StoreAssumption, StoreInv, NEW r, NEW n, n = target[r], WorkStep(r)
  PROVE  StoreInv'
<1>1. Moves(r, n) /\ Store!TypeOK' /\ Works(r, n) /\ r \in Store!Request /\ n \in Installable
  BY WorkMoves DEF Moves
<1>2. NameInv(n)'
  <2> SUFFICES ASSUME "race" \notin trouble'[n]
               PROVE  (WorksAlone(n) /\ ListedIsWhole(n) /\ FilesAreMine(n) /\ UnlistedIsBare(n))'
    BY DEF NameInv
  <2>1. trouble[n] \subseteq trouble'[n]
    BY <1>1 DEF StoreInv, Store!TypeOK, WorkStep, Store!Noted, Store!CheckListed, Store!CheckFiles, Store!Place, Store!Sign,
         Store!Describe, Store!Register, Store!RemoveSo, Store!RemoveRest, Store!RemoveModuleFiles, Store!Refuse
  <2>2. WorksAlone(n) /\ ListedIsWhole(n) /\ FilesAreMine(n) /\ UnlistedIsBare(n)
    BY <1>1, <2>1 DEF StoreInv, NameInv
  <2>3. \A q \in Store!Request : Works(q, n) => q = r
    BY <1>1, <2>2 DEF WorksAlone
  <2>4. \A q \in Store!Request : Works(q, n)' => q = r
    BY <1>1, <2>3 DEF Works, Moves, StoreInv, Store!TypeOK
  <2>5. target'[r] = n
    BY <1>1 DEF Moves, StoreInv, Store!TypeOK
  <2>6. Works(r, n)' <=> step'[r] \notin {"idle", "ended"}
    BY <2>5 DEF Works
  <2>7. InvAt(r, list[n], so[n], sig[n], meta[n], step[r], trouble[n])
    BY <1>1, <2>2 DEF ListedIsWhole, FilesAreMine, UnlistedIsBare, Bare, Works, InvAt
  <2>8. InvAt(r, list'[n], so'[n], sig'[n], meta'[n], step'[r], trouble'[n])
    BY <2>7, WorkKeepsName
  <2>9. WorksAlone(n)'
    BY <2>4 DEF WorksAlone
  <2>10. ListedIsWhole(n)' /\ FilesAreMine(n)'
    BY <2>4, <2>6, <2>8 DEF ListedIsWhole, FilesAreMine, InvAt
  <2>11. UnlistedIsBare(n)'
    BY <1>1, <2>4, <2>6, <2>8 DEF UnlistedIsBare, Bare, InvAt
  <2> QED
    BY <2>9, <2>10, <2>11
<1> QED
  BY <1>1, <1>2, OthersKept

\* A crash ends every request and is noted at the names they were about.
LEMMA RestartStep ==
  ASSUME StoreInv, Store!Restart
  PROVE  StoreInv'
<1>1. Store!TypeOK'
  BY DEF StoreInv, Store!TypeOK, Store!Restart, Store!files
<1>2. \A r \in Store!Request : step'[r] \in {"idle", "ended"}
  BY DEF StoreInv, Store!TypeOK, Store!Restart, Store!Busy
<1>3. \A r \in Store!Request, n \in Installable : ~Works(r, n)'
  BY <1>2 DEF Works
<1>4. ASSUME NEW n \in Installable PROVE NameInv(n)'
  <2> SUFFICES ASSUME "race" \notin trouble'[n]
               PROVE  (WorksAlone(n) /\ ListedIsWhole(n) /\ FilesAreMine(n) /\ UnlistedIsBare(n))'
    BY DEF NameInv
  <2>1. UNCHANGED <<list, so, sig, meta>>
    BY DEF Store!Restart, Store!files
  <2>2. trouble'[n] = trouble[n] \cup (IF Store!About(n) # {} THEN {"crash"} ELSE {})
    BY DEF Store!Restart
  <2>3. ListedIsWhole(n) /\ UnlistedIsBare(n)
    BY <2>2 DEF StoreInv, NameInv
  <2>4. trouble'[n] = {} => trouble[n] = {} /\ \A r \in Store!Request : ~Works(r, n)
    BY <2>2 DEF Store!About, Store!Busy, Works
  <2>5. WorksAlone(n)' /\ FilesAreMine(n)'
    BY <1>3 DEF WorksAlone, FilesAreMine
  <2>6. ListedIsWhole(n)'
    BY <1>3, <2>1, <2>3 DEF ListedIsWhole
  <2>7. UnlistedIsBare(n)'
    BY <1>3, <2>1, <2>3, <2>4 DEF UnlistedIsBare, Bare
  <2> QED
    BY <2>5, <2>6, <2>7
<1> QED
  BY <1>1, <1>2, <1>4 DEF StoreInv

LEMMA StoreNext ==
  ASSUME Store!StoreAssumption, StoreInv, [Store!Next]_(Store!vars)
  PROVE  StoreInv'
<1>1. ASSUME NEW r \in Store!Request, NEW n \in Installable,
             \/ r \in Upload /\ Store!Receive(r, n)
             \/ r \in Remover /\ (Store!Delist(r, n, "delisted") \/ Store!Delist(r, n, "dropped"))
      PROVE  StoreInv'
  BY <1>1, BeginStep
<1>2. ASSUME NEW r \in Store!Request, WorkStep(r) PROVE StoreInv'
  <2>1. \A n : n = target[r] => StoreInv'
    BY <1>2, WorkKeeps
  <2> QED
    BY <2>1
<1>3. CASE UNCHANGED Store!vars
  BY <1>3 DEF Store!vars, Store!files, StoreInv, Store!TypeOK, NameInv, WorksAlone, ListedIsWhole, FilesAreMine,
       UnlistedIsBare, Works, Bare
<1> QED
  BY <1>1, <1>2, <1>3, RestartStep DEF Store!Next, WorkStep, Store!Request

(* The invariant holds whatever requests, failures and crashes meet.        *)
THEOREM StoreInvariance == Store!Spec => []StoreInv
<1>1. Store!Init => StoreInv
  BY StoreInit
<1>2. StoreInv /\ [Store!Next]_(Store!vars) => StoreInv'
  BY StoreAssumption, StoreNext
<1> QED
  BY <1>1, <1>2, PTL DEF Store!Spec

(* For any number of names, uploads and deletes: a registered plugin is     *)
(* complete, and an unregistered one has no file left, unless requests      *)
(* about the name overlapped or, for the second, a write or removal failed, *)
(* the dashboard ended in the middle or the module API removed it           *)
(* (src/internal/api/plugins.go:594-785).                                   *)
THEOREM StoreTheorem == Store!Spec => []FilesMatchTheList
<1>1. StoreInv => FilesMatchTheList
  <2> SUFFICES ASSUME StoreInv, NEW n \in Installable, Store!Quiet(n), "race" \notin trouble[n]
               PROVE  /\ list[n] # None =>
                           /\ so[n] = list[n] /\ meta[n] = list[n]
                           /\ list[n] \in Signed => sig[n] = list[n]
                      /\ list[n] = None /\ trouble[n] = {} => so[n] = None /\ meta[n] = None /\ sig[n] = None
    BY DEF FilesMatchTheList, Store!FilesMatchTheList, Store!RegisteredIsWhole, Store!NothingIsLeftBehind
  <2>1. \A r \in Store!Request : ~Works(r, n)
    BY DEF Store!Quiet, Store!About, Store!Busy, Works
  <2> QED
    BY <2>1 DEF StoreInv, NameInv, ListedIsWhole, UnlistedIsBare, Bare
<1> QED
  BY <1>1, StoreInvariance, PTL

=============================================================================
