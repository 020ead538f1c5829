------------------------------ MODULE LinkProofs ------------------------------
(***************************************************************************)
(* Proofs about DirWatch and EventFlow, for any tree, any limit and any    *)
(* number of events and faults: no order of events, watches and scans      *)
(* loses a difference, and the queue keeps order, tells its losses and     *)
(* keeps the newest.  With AgentLinkProofs, the types of all three.        *)
(***************************************************************************)
EXTENDS Link, AgentLinkProofs, SequenceTheorems

-----------------------------------------------------------------------------
\* DirWatch.

LEMMA SameCardinality == \A S : Watch!Cardinality(S) = Cardinality(S)
  BY DEF Watch!Cardinality, Watch!IsFiniteSet, Cardinality, IsFiniteSet

\* Without a reader the kernel holds no watch and no event.
WatchIsOff == ~watching => watches = {} /\ queue = {} /\ ~lost

\* A file that is gone cannot be found through its directory any more: it is
\* on its way itself.
GoneIsNamed ==
  initialized /\ configured =>
    \A f \in File : baseline[f] # content[f] /\ content[f] = None =>
      f \in Watch!Announced \cup unseen \/ lost \/ overflow

WatchInv == Watch!TypeOK /\ WatchIsOff /\ DifferencesAreOnTheirWay /\ GoneIsNamed

LEMMA WatchInit == Watch!WatchTree /\ Watch!Init => WatchInv
<1> SUFFICES ASSUME Watch!WatchTree, Watch!Init PROVE WatchInv
  OBVIOUS
<1>1. Watch!TypeOK
  <2>1. Watch!Empty \in [File -> Watch!Held] /\ \A f \in File : Watch!Empty[f] = None
    BY DEF Watch!Empty, Watch!Held
  <2>2. content = Watch!Empty /\ baseline = Watch!Empty
    BY DEF Watch!Init
  <2>3. /\ content \in [File -> Watch!Held] /\ baseline \in [File -> Watch!Held]
        /\ \A f \in File : content[f] # None => dirOf[f] \in Watch!Present
    BY <2>1, <2>2, Zenon
  <2>4. 0 \in 0 .. MaxFaults
    BY DEF Watch!WatchTree
  <2> QED
    BY <2>3, <2>4 DEF Watch!Init, Watch!TypeOK
<1> QED
  BY <1>1 DEF Watch!Init, WatchInv, WatchIsOff, DifferencesAreOnTheirWay, Watch!DifferencesAreOnTheirWay, GoneIsNamed

LEMMA FaultStep == Watch!TypeOK /\ Watch!Fault => faults' \in 0 .. MaxFaults
  BY WatchAssumption DEF Watch!TypeOK, Watch!Fault, Watch!WatchTree

\* What a start of the watch can set.
LEMMA Starts ==
  ASSUME NEW w \in IF Cardinality(Watch!Present) <= maxDirsPerRoot
                     THEN {[watches |-> Watch!Present, capped |-> FALSE]}
                     ELSE {[watches |-> Watch!Present \ {d}, capped |-> TRUE] : d \in exists}
  PROVE  w.watches \subseteq Watch!Present /\ w.capped \in BOOLEAN
<1>1. CASE w = [watches |-> Watch!Present, capped |-> FALSE]
  BY <1>1
<1>2. ASSUME NEW d, w = [watches |-> Watch!Present \ {d}, capped |-> TRUE]
      PROVE  w.watches \subseteq Watch!Present /\ w.capped \in BOOLEAN
  BY <1>2
<1> QED
  BY <1>1, <1>2

\* What new directories can change.
LEMMA Adds ==
  ASSUME Watch!TypeOK, NEW S \in SUBSET exists, NEW w \in Watch!Added(S)
  PROVE  w.watches \subseteq Watch!Present /\ w.capped \in BOOLEAN
<1>1. watches \cup S \subseteq Watch!Present /\ dirCapped \in BOOLEAN
  BY DEF Watch!TypeOK, Watch!Present
<1>2. CASE w = [watches |-> watches \cup S, capped |-> dirCapped]
  BY <1>1, <1>2
<1>3. ASSUME NEW d, w = [watches |-> (watches \cup S) \ {d}, capped |-> TRUE]
      PROVE  w.watches \subseteq Watch!Present /\ w.capped \in BOOLEAN
  BY <1>1, <1>3
<1> QED
  BY <1>2, <1>3 DEF Watch!Added

\* An event about S is queued or its loss noted; nothing queued goes.
LEMMA QueuedStep ==
  ASSUME Watch!TypeOK, WatchIsOff, NEW S \in SUBSET (File \cup Sub), Watch!Queued(S), S # {} => watching
  PROVE  /\ queue' \in SUBSET (File \cup Sub) /\ lost' \in BOOLEAN /\ faults' \in 0 .. MaxFaults
         /\ queue \subseteq queue' /\ (lost => lost') /\ (S \subseteq queue' \/ lost')
         /\ ~watching => queue' = {} /\ ~lost'
<1>1. queue \in SUBSET (File \cup Sub) /\ lost \in BOOLEAN /\ faults \in 0 .. MaxFaults
  BY DEF Watch!TypeOK
<1>2. CASE queue' = queue \cup S /\ UNCHANGED <<lost, faults>>
  <2>1. ~watching => queue' = {} /\ ~lost'
    BY <1>2 DEF WatchIsOff
  <2> QED
    BY <1>1, <1>2, <2>1
<1>3. CASE S # {} /\ Watch!Fault /\ lost' = TRUE /\ UNCHANGED queue
  BY <1>1, <1>3, FaultStep
<1> QED
  BY <1>2, <1>3 DEF Watch!Queued

\* Programs change the tree: what changed is announced, lost with notice, or
\* known as unseen.
LEMMA TreeStep ==
  ASSUME Watch!WatchTree, WatchInv,
         \/ \E f \in File : Watch!Write(f)
         \/ \E d \in Sub : Watch!MkDir(d) \/ Watch!RmDir(d)
  PROVE  WatchInv'
<1> USE DEF WatchInv
<1>1. ASSUME NEW f \in File, Watch!Write(f) PROVE WatchInv'
  <2> DEFINE S == IF dirOf[f] \in watches THEN {f} ELSE {}
  <2>1. S \in SUBSET (File \cup Sub) /\ Watch!Queued(S) /\ (S # {} => watching)
    BY <1>1 DEF Watch!Write, WatchIsOff
  <2>2. /\ queue' \in SUBSET (File \cup Sub) /\ lost' \in BOOLEAN /\ faults' \in 0 .. MaxFaults
        /\ queue \subseteq queue' /\ (lost => lost') /\ (S \subseteq queue' \/ lost')
        /\ ~watching => queue' = {} /\ ~lost'
    BY <2>1, QueuedStep
  <2>3. /\ dirOf[f] \in Watch!Present /\ content' \in [File -> Watch!Held]
        /\ \A g \in File \ {f} : content'[g] = content[g]
        /\ unseen' = IF dirOf[f] \in watches \/ (dirOf[f] \in Watch!Announced /\ content'[f] # None)
                     THEN unseen ELSE unseen \cup {f}
        /\ UNCHANGED <<feature, exists, configured, loop, watching, watches, dirCapped, pending, overflow,
                       initialized, baseline, disk>>
    BY <1>1 DEF Watch!Write, Watch!TypeOK, Watch!taken, Watch!scanner
  <2>4. Watch!TypeOK'
    BY <2>2, <2>3 DEF Watch!TypeOK, Watch!Present, Watch!Held
  <2>5. WatchIsOff'
    BY <2>2, <2>3 DEF WatchIsOff
  <2>6. DifferencesAreOnTheirWay' /\ GoneIsNamed'
    BY <2>2, <2>3 DEF DifferencesAreOnTheirWay, Watch!DifferencesAreOnTheirWay, GoneIsNamed, Watch!Announced
  <2> QED
    BY <2>4, <2>5, <2>6
<1>2. ASSUME NEW d \in Sub, Watch!MkDir(d) PROVE WatchInv'
  <2> DEFINE S == IF Root \in watches THEN {d} ELSE {}
  <2>1. S \in SUBSET (File \cup Sub) /\ Watch!Queued(S) /\ (S # {} => watching)
    BY <1>2 DEF Watch!MkDir, WatchIsOff
  <2>2. /\ queue' \in SUBSET (File \cup Sub) /\ lost' \in BOOLEAN /\ faults' \in 0 .. MaxFaults
        /\ queue \subseteq queue' /\ (lost => lost')
        /\ ~watching => queue' = {} /\ ~lost'
    BY <2>1, QueuedStep
  <2>3. /\ exists' = exists \cup {d}
        /\ UNCHANGED <<feature, content, configured, loop, watching, watches, dirCapped, pending, overflow,
                       initialized, baseline, disk, unseen>>
    BY <1>2 DEF Watch!MkDir, Watch!taken, Watch!scanner
  <2>4. Watch!TypeOK'
    BY <2>2, <2>3 DEF Watch!TypeOK, Watch!Present
  <2> QED
    BY <2>2, <2>3, <2>4 DEF WatchIsOff, DifferencesAreOnTheirWay, Watch!DifferencesAreOnTheirWay, GoneIsNamed, Watch!Announced
<1>3. ASSUME NEW d \in Sub, Watch!RmDir(d) PROVE WatchInv'
  <2> DEFINE S == (IF d \in watches THEN Watch!In(d) ELSE {}) \cup (IF Root \in watches THEN {d} ELSE {})
  <2>1. S \in SUBSET (File \cup Sub) /\ Watch!Queued(S) /\ (S # {} => watching)
    BY <1>3 DEF Watch!RmDir, WatchIsOff, Watch!In
  <2>2. /\ queue' \in SUBSET (File \cup Sub) /\ lost' \in BOOLEAN /\ faults' \in 0 .. MaxFaults
        /\ queue \subseteq queue' /\ (lost => lost') /\ (S \subseteq queue' \/ lost')
        /\ ~watching => queue' = {} /\ ~lost'
    BY <2>1, QueuedStep
  <2>3. /\ exists' = exists \ {d} /\ watches' = watches \ {d}
        /\ content' = [f \in File |-> IF dirOf[f] = d THEN None ELSE content[f]]
        /\ unseen' = IF d \in watches THEN unseen ELSE unseen \cup Watch!In(d)
        /\ UNCHANGED <<feature, configured, loop, watching, dirCapped, pending, overflow, initialized, baseline, disk>>
    BY <1>3 DEF Watch!RmDir, Watch!taken, Watch!scanner
  <2>4. Watch!TypeOK'
    BY <2>2, <2>3 DEF Watch!TypeOK, Watch!Present, Watch!Held, Watch!In, Watch!WatchTree
  <2>5. WatchIsOff'
    BY <2>2, <2>3 DEF WatchIsOff
  <2>6. DifferencesAreOnTheirWay' /\ GoneIsNamed'
    BY <2>2, <2>3 DEF DifferencesAreOnTheirWay, Watch!DifferencesAreOnTheirWay, GoneIsNamed, Watch!Announced, Watch!In
  <2> QED
    BY <2>4, <2>5, <2>6
<1> QED
  BY <1>1, <1>2, <1>3

\* Starting the watch, or failing to, takes nothing off its way.
LEMMA EnsureStep ==
  ASSUME WatchInv, Watch!ensureWatch, UNCHANGED exists
  PROVE  /\ watching' \in BOOLEAN /\ watches' \subseteq Watch!Present /\ dirCapped' \in BOOLEAN
         /\ queue' = queue /\ lost' = lost /\ faults' \in 0 .. MaxFaults
         /\ WatchIsOff'
<1>1. CASE configured /\ ~watching
  <2>1. queue = {} /\ lost = FALSE
    BY <1>1 DEF WatchInv, WatchIsOff, Watch!TypeOK
  <2>2. CASE Watch!Fault /\ UNCHANGED <<watching, Watch!kernel>>
    BY <2>1, <2>2, FaultStep DEF Watch!kernel, WatchInv, WatchIsOff, Watch!TypeOK
  <2>3. CASE ~(Watch!Fault /\ UNCHANGED <<watching, Watch!kernel>>)
    <3>1. watching' = TRUE /\ queue' = {} /\ lost' = FALSE /\ faults' = faults
      BY <1>1, <2>3 DEF Watch!ensureWatch, Watch!start
    <3>2. watches' \subseteq Watch!Present /\ dirCapped' \in BOOLEAN
      <4> DEFINE W == IF Cardinality(Watch!Present) <= maxDirsPerRoot
                      THEN {[watches |-> Watch!Present, capped |-> FALSE]}
                      ELSE {[watches |-> Watch!Present \ {d}, capped |-> TRUE] : d \in exists}
      <4>1. PICK w \in W : watches' = w.watches /\ dirCapped' = w.capped
        BY <1>1, <2>3, SameCardinality DEF Watch!ensureWatch, Watch!start
      <4> QED
        BY <4>1, Starts
    <3> QED
      BY <2>1, <3>1, <3>2 DEF WatchInv, WatchIsOff, Watch!TypeOK
  <2> QED
    BY <2>2, <2>3
<1>2. CASE ~(configured /\ ~watching)
  BY <1>2 DEF Watch!ensureWatch, Watch!kernel, WatchInv, WatchIsOff, Watch!TypeOK
<1> QED
  BY <1>1, <1>2

\* A scan takes off the way what it has looked at.
LEMMA ScanStep ==
  ASSUME WatchInv, NEW S \in SUBSET File, Watch!Scanned(S)
  PROVE  /\ initialized' = TRUE /\ baseline' \in [File -> Watch!Held] /\ disk' \in [File -> Watch!Held] \cup {None}
         /\ unseen' = unseen \ S
         /\ \A f \in S : baseline'[f] = content[f]
         /\ \A f \in File \ S : baseline'[f] = baseline[f]
  BY DEF WatchInv, Watch!TypeOK, Watch!Scanned, Watch!saveLocked

LEMMA WatchStep ==
  ASSUME Watch!WatchTree, WatchInv,
         Watch!handleEvents \/ Watch!disable \/ Watch!debounce \/ Watch!Run \/ Watch!LoopTurn
           \/ Watch!Configure \/ Watch!Restart
  PROVE  WatchInv'
<1> USE DEF WatchInv
<1>1. CASE Watch!handleEvents
  <2>1. /\ watching /\ pending' = pending \cup queue /\ overflow' = (overflow \/ lost) /\ queue' = {} /\ lost' = FALSE
        /\ UNCHANGED <<feature, exists, content, configured, loop, watching, initialized, baseline, disk, faults, unseen>>
    BY <1>1 DEF Watch!handleEvents, Watch!tree, Watch!scanner
  <2>2. watches' \subseteq Watch!Present /\ dirCapped' \in BOOLEAN
    <3>1. PICK w \in Watch!Added(queue \cap exists) : watches' = w.watches /\ dirCapped' = w.capped
      BY <1>1 DEF Watch!handleEvents, Watch!AddTree
    <3> QED
      BY <3>1, Adds
  <2>3. Watch!TypeOK'
    BY <2>1, <2>2 DEF Watch!TypeOK, Watch!Present
  <2> QED
    BY <2>1, <2>3 DEF WatchIsOff, DifferencesAreOnTheirWay, Watch!DifferencesAreOnTheirWay, GoneIsNamed, Watch!Announced
<1>2. CASE Watch!disable
  <2>1. /\ watching' = FALSE /\ watches' = {} /\ queue' = {} /\ lost' = FALSE /\ faults' \in 0 .. MaxFaults
        /\ unseen' = unseen \cup (queue \cap File) \cup (IF lost THEN File ELSE UNION {Watch!In(d) : d \in queue \cap Sub})
        /\ UNCHANGED <<feature, exists, content, configured, loop, dirCapped, pending, overflow, initialized, baseline, disk>>
    BY <1>2, FaultStep DEF Watch!disable, Watch!tree, Watch!taken, Watch!scanner
  <2>2. Watch!TypeOK'
    BY <2>1 DEF Watch!TypeOK, Watch!Present, Watch!In
  <2>3. \A f \in File : f \in queue \/ dirOf[f] \in queue \/ lost => f \in unseen'
    BY <2>1 DEF Watch!In, Watch!WatchTree, Watch!TypeOK
  <2> QED
    BY <2>1, <2>2, <2>3 DEF WatchIsOff, DifferencesAreOnTheirWay, Watch!DifferencesAreOnTheirWay, GoneIsNamed, Watch!Announced
<1>3. CASE Watch!debounce
  <2>1. /\ pending' = {} /\ overflow' = FALSE
        /\ UNCHANGED <<feature, exists, content, configured, loop, watching, watches, dirCapped, queue, lost, faults>>
    BY <1>3 DEF Watch!debounce, Watch!tree, Watch!kernel
  <2>2. CASE ~configured
    <3>1. UNCHANGED <<initialized, baseline, disk, unseen>>
      BY <1>3, <2>2 DEF Watch!debounce, Watch!scanner
    <3> QED
      BY <2>1, <2>2, <3>1 DEF Watch!TypeOK, Watch!Present, WatchIsOff, DifferencesAreOnTheirWay,
           Watch!DifferencesAreOnTheirWay, GoneIsNamed
  <2>3. CASE configured
    <3> DEFINE S == Watch!HandleChanges
    <3>1. S \in SUBSET File /\ Watch!Scanned(S)
      BY <1>3, <2>3 DEF Watch!debounce, Watch!HandleChanges, Watch!expandDir, Watch!In
    <3>2. /\ initialized' = TRUE /\ baseline' \in [File -> Watch!Held] /\ disk' \in [File -> Watch!Held] \cup {None}
          /\ unseen' = unseen \ S
          /\ \A f \in S : baseline'[f] = content[f]
          /\ \A f \in File \ S : baseline'[f] = baseline[f]
      BY <3>1, ScanStep
    <3>3. \A f \in File \ S :
            /\ initialized /\ ~overflow /\ f \notin pending
            /\ dirOf[f] \in pending => content[f] = None
      BY DEF Watch!HandleChanges, Watch!expandDir, Watch!In, Watch!TypeOK, Watch!WatchTree
    <3>4. Watch!TypeOK'
      BY <2>1, <3>2 DEF Watch!TypeOK, Watch!Present
    <3>5. DifferencesAreOnTheirWay' /\ GoneIsNamed'
      <4> HIDE DEF S
      <4> QED
        BY <2>1, <2>3, <3>2, <3>3 DEF DifferencesAreOnTheirWay, Watch!DifferencesAreOnTheirWay, GoneIsNamed, Watch!Announced
    <3> QED
      BY <2>1, <3>4, <3>5 DEF WatchIsOff
  <2> QED
    BY <2>2, <2>3
<1>4. CASE Watch!Run
  <2>1. /\ Watch!ensureWatch /\ loop' \in {"running", loop}
        /\ UNCHANGED <<feature, exists, content, configured, pending, overflow, initialized, baseline, disk, unseen>>
    BY <1>4 DEF Watch!Run, Watch!startLoop, Watch!tree, Watch!taken, Watch!scanner
  <2>2. /\ watching' \in BOOLEAN /\ watches' \subseteq Watch!Present /\ dirCapped' \in BOOLEAN
        /\ queue' = queue /\ lost' = lost /\ faults' \in 0 .. MaxFaults
        /\ WatchIsOff'
    BY <2>1, EnsureStep
  <2>3. Watch!TypeOK'
    BY <2>1, <2>2 DEF Watch!TypeOK, Watch!Present
  <2> QED
    BY <2>1, <2>2, <2>3 DEF DifferencesAreOnTheirWay, Watch!DifferencesAreOnTheirWay, GoneIsNamed, Watch!Announced
<1>5. CASE Watch!LoopTurn
  <2>1. UNCHANGED <<feature, exists, content, configured, pending, overflow>>
    BY <1>5 DEF Watch!LoopTurn, Watch!tree, Watch!taken
  <2>2. CASE configured
    <3>1. Watch!ensureWatch /\ Watch!Scanned(File) /\ loop' = loop
      BY <1>5, <2>2 DEF Watch!LoopTurn
    <3>2. /\ watching' \in BOOLEAN /\ watches' \subseteq Watch!Present /\ dirCapped' \in BOOLEAN
          /\ queue' = queue /\ lost' = lost /\ faults' \in 0 .. MaxFaults
          /\ WatchIsOff'
      BY <2>1, <3>1, EnsureStep
    <3>3. /\ initialized' = TRUE /\ baseline' \in [File -> Watch!Held] /\ disk' \in [File -> Watch!Held] \cup {None}
          /\ unseen' = unseen \ File
          /\ \A f \in File : baseline'[f] = content[f]
      BY <3>1, ScanStep
    <3>4. Watch!TypeOK'
      BY <2>1, <3>1, <3>2, <3>3 DEF Watch!TypeOK, Watch!Present
    <3> QED
      BY <2>1, <3>2, <3>3, <3>4 DEF DifferencesAreOnTheirWay, Watch!DifferencesAreOnTheirWay, GoneIsNamed
  <2>3. CASE ~configured
    <3>1. /\ loop' = "ended"
          /\ UNCHANGED <<watching, watches, dirCapped, queue, lost, faults, initialized, baseline, disk, unseen>>
      BY <1>5, <2>3 DEF Watch!LoopTurn, Watch!kernel, Watch!scanner
    <3> QED
      BY <2>1, <2>3, <3>1 DEF Watch!TypeOK, Watch!Present, WatchIsOff, DifferencesAreOnTheirWay,
           Watch!DifferencesAreOnTheirWay, GoneIsNamed
  <2> QED
    BY <2>2, <2>3
<1>6. CASE Watch!Configure \/ Watch!Restart
  <2>1. /\ unseen' = File /\ pending' = {} /\ overflow' = FALSE /\ queue' = {} /\ lost' = FALSE
        /\ initialized' = (disk # None) /\ baseline' = IF disk # None THEN disk ELSE Watch!Empty
        /\ UNCHANGED <<feature, exists, content, disk>> /\ faults' \in 0 .. MaxFaults
    BY <1>6, FaultStep DEF Watch!Configure, Watch!Restart, Watch!loadState, Watch!tree
  <2>2. configured' \in BOOLEAN /\ loop' \in {"none", "running", "ended"} /\ watching' \in BOOLEAN
    BY <1>6 DEF Watch!Configure, Watch!Restart, Watch!TypeOK
  <2>3. watches' \subseteq Watch!Present /\ dirCapped' \in BOOLEAN /\ (~watching' => watches' = {})
    <3> DEFINE W == IF Cardinality(Watch!Present) <= maxDirsPerRoot
                    THEN {[watches |-> Watch!Present, capped |-> FALSE]}
                    ELSE {[watches |-> Watch!Present \ {d}, capped |-> TRUE] : d \in exists}
    <3>1. \/ watching' = TRUE /\ \E w \in W : watches' = w.watches /\ dirCapped' = w.capped
          \/ watches' = {} /\ dirCapped' = FALSE
      BY <1>6, SameCardinality DEF Watch!Configure, Watch!Restart
    <3> QED
      BY <3>1, Starts
  <2>4. baseline' \in [File -> Watch!Held] /\ initialized' \in BOOLEAN
    BY <2>1 DEF Watch!TypeOK, Watch!Empty, Watch!Held
  <2>5. Watch!TypeOK'
    BY <2>1, <2>2, <2>3, <2>4 DEF Watch!TypeOK, Watch!Present
  <2> QED
    BY <2>1, <2>3, <2>5 DEF WatchIsOff, DifferencesAreOnTheirWay, Watch!DifferencesAreOnTheirWay, GoneIsNamed
<1> QED
  BY <1>1, <1>2, <1>3, <1>4, <1>5, <1>6

(* The invariant holds whatever programs, the kernel and reconfigurations   *)
(* do.                                                                      *)
THEOREM WatchInvariance == Watch!Spec => []WatchInv
<1>1. WatchInv /\ UNCHANGED Watch!vars => WatchInv'
  BY DEF WatchInv, Watch!vars, Watch!tree, Watch!kernel, Watch!taken, Watch!scanner, Watch!TypeOK, Watch!Present, WatchIsOff,
       DifferencesAreOnTheirWay, Watch!DifferencesAreOnTheirWay, GoneIsNamed, Watch!Announced
<1>2. WatchInv /\ [Watch!Next]_(Watch!vars) => WatchInv'
  BY <1>1, WatchAssumption, TreeStep, WatchStep DEF Watch!Next
<1>3. Watch!Init => WatchInv
  BY WatchAssumption, WatchInit
<1> QED
  BY <1>2, <1>3, PTL DEF Watch!Spec

(* For any tree and any limit of watches: every difference between the tree *)
(* and the baseline is on its way to a scan or arose where no event tells   *)
(* (src/plugins/Kizuna-Security/plugin/suid_watch.go:163-239,               *)
(* fim_watch.go:293-356).                                                   *)
THEOREM DifferencesTheorem == Watch!Spec => []DifferencesAreOnTheirWay
<1>1. WatchInv => DifferencesAreOnTheirWay
  BY DEF WatchInv
<1> QED
  BY <1>1, WatchInvariance, PTL

-----------------------------------------------------------------------------
\* Sequences of events and statuses.

\* Statuses aside, the numbers of a sequence grow ...
Ordered(s) == \A i, j \in DOMAIN s : i < j /\ s[i] # 0 /\ s[j] # 0 => s[i] < s[j]

\* ... and those of one come before those of another.
Before(s, t) == \A e \in Flow!Messages(s), f \in Flow!Messages(t) : e # 0 /\ f # 0 => e < f

LEMMA MessagesDef ==
  ASSUME NEW s \in Seq(Nat)
  PROVE  /\ \A i \in 1 .. Len(s) : s[i] \in Flow!Messages(s)
         /\ \A e \in Flow!Messages(s) : e \in Nat /\ \E i \in 1 .. Len(s) : e = s[i]
<1>1. DOMAIN s = 1 .. Len(s) /\ \A i \in 1 .. Len(s) : s[i] \in Nat
  OBVIOUS
<1> QED
  BY <1>1 DEF Flow!Messages

LEMMA EmptyMessages == Flow!Messages(<<>>) = {} /\ Ordered(<<>>) /\ <<>> \in Seq(Nat)
  BY DEF Flow!Messages, Ordered

LEMMA TailMessages ==
  ASSUME NEW s \in Seq(Nat), s # <<>>
  PROVE  /\ Tail(s) \in Seq(Nat) /\ Head(s) \in Nat
         /\ Flow!Messages(s) = {Head(s)} \cup Flow!Messages(Tail(s))
         /\ Ordered(s) =>
              /\ Ordered(Tail(s))
              /\ \A e \in Flow!Messages(Tail(s)) : Head(s) # 0 /\ e # 0 => Head(s) < e
<1>1. /\ Tail(s) \in Seq(Nat) /\ Head(s) = s[1] /\ Head(s) \in Nat /\ Len(s) \in Nat /\ Len(s) >= 1
      /\ Len(Tail(s)) = Len(s) - 1 /\ \A i \in 1 .. Len(s) - 1 : Tail(s)[i] = s[i+1]
      /\ DOMAIN s = 1 .. Len(s) /\ DOMAIN Tail(s) = 1 .. Len(s) - 1
  OBVIOUS
<1>2. ASSUME NEW e \in Flow!Messages(s) PROVE e = Head(s) \/ e \in Flow!Messages(Tail(s))
  <2>1. PICK i \in 1 .. Len(s) : e = s[i]
    BY MessagesDef
  <2>2. CASE i = 1
    BY <1>1, <2>1, <2>2
  <2>3. CASE i # 1
    <3>1. i - 1 \in 1 .. Len(Tail(s)) /\ Tail(s)[i-1] = e
      BY <1>1, <2>1, <2>3
    <3> QED
      BY <1>1, <3>1, MessagesDef
  <2> QED
    BY <2>2, <2>3
<1>3. ASSUME NEW e \in Flow!Messages(Tail(s))
      PROVE  e \in Flow!Messages(s) /\ (Ordered(s) /\ Head(s) # 0 /\ e # 0 => Head(s) < e)
  <2>1. PICK i \in 1 .. Len(Tail(s)) : e = Tail(s)[i]
    BY <1>1, MessagesDef
  <2>2. i + 1 \in 1 .. Len(s) /\ s[i+1] = e /\ 1 < i + 1 /\ 1 \in 1 .. Len(s)
    BY <1>1, <2>1
  <2>3. e \in Flow!Messages(s)
    BY <2>2, MessagesDef
  <2>4. ASSUME Ordered(s), s[1] # 0, s[i+1] # 0 PROVE s[1] < s[i+1]
    <3>1. 1 \in DOMAIN s /\ i + 1 \in DOMAIN s
      BY <1>1, <2>2
    <3> QED
      BY <2>2, <2>4, <3>1 DEF Ordered
  <2> QED
    BY <1>1, <2>2, <2>3, <2>4
<1>4. Head(s) \in Flow!Messages(s)
  BY <1>1, MessagesDef
<1>5. ASSUME Ordered(s) PROVE Ordered(Tail(s))
  <2> SUFFICES ASSUME NEW i \in 1 .. Len(s) - 1, NEW j \in 1 .. Len(s) - 1, i < j, s[i+1] # 0, s[j+1] # 0
               PROVE  s[i+1] < s[j+1]
    BY <1>1 DEF Ordered
  <2>1. i + 1 \in DOMAIN s /\ j + 1 \in DOMAIN s /\ i + 1 < j + 1
    <3>1. Len(s) \in Nat /\ DOMAIN s = 1 .. Len(s)
      BY <1>1
    <3> QED
      BY <3>1
  <2> QED
    BY <1>5, <2>1 DEF Ordered
<1> QED
  BY <1>1, <1>2, <1>3, <1>4, <1>5

LEMMA AppendMessages ==
  ASSUME NEW s \in Seq(Nat), NEW x \in Nat
  PROVE  /\ Append(s, x) \in Seq(Nat)
         /\ Flow!Messages(Append(s, x)) = Flow!Messages(s) \cup {x}
         /\ Ordered(s) /\ (\A e \in Flow!Messages(s) : e # 0 /\ x # 0 => e < x) => Ordered(Append(s, x))
<1> DEFINE t == Append(s, x)
<1>1. /\ t \in Seq(Nat) /\ Len(s) \in Nat /\ Len(t) = Len(s) + 1 /\ t[Len(s) + 1] = x
      /\ \A i \in 1 .. Len(s) : t[i] = s[i]
      /\ DOMAIN s = 1 .. Len(s) /\ DOMAIN t = 1 .. Len(s) + 1
  OBVIOUS
<1> HIDE DEF t
<1>2. ASSUME NEW e \in Flow!Messages(t) PROVE e = x \/ e \in Flow!Messages(s)
  <2>1. PICK i \in 1 .. Len(t) : e = t[i]
    BY <1>1, MessagesDef
  <2>2. i = Len(s) + 1 \/ (i \in 1 .. Len(s) /\ e = s[i])
    BY <1>1, <2>1
  <2> QED
    BY <1>1, <2>1, <2>2, MessagesDef
<1>3. ASSUME NEW e \in Flow!Messages(s) PROVE e \in Flow!Messages(t)
  <2>1. PICK i \in 1 .. Len(s) : e = s[i]
    BY MessagesDef
  <2>2. i \in 1 .. Len(t) /\ t[i] = e
    BY <1>1, <2>1
  <2> QED
    BY <1>1, <2>2, MessagesDef
<1>4. x \in Flow!Messages(t)
  <2>1. Len(s) + 1 \in 1 .. Len(t)
    BY <1>1
  <2> QED
    BY <1>1, <2>1, MessagesDef
<1>5. ASSUME Ordered(s), \A e \in Flow!Messages(s) : e # 0 /\ x # 0 => e < x PROVE Ordered(t)
  <2> SUFFICES ASSUME NEW i \in 1 .. Len(s) + 1, NEW j \in 1 .. Len(s) + 1, i < j, t[i] # 0, t[j] # 0
               PROVE  t[i] < t[j]
    BY <1>1 DEF Ordered
  <2>1. i \in 1 .. Len(s) /\ t[i] = s[i] /\ s[i] \in Flow!Messages(s)
    <3>1. Len(s) \in Nat
      BY <1>1
    <3>2. i \in 1 .. Len(s)
      BY <3>1
    <3> QED
      BY <1>1, <3>2, MessagesDef
  <2>2. CASE j \in 1 .. Len(s)
    BY <1>1, <1>5, <2>1, <2>2 DEF Ordered
  <2>3. CASE j = Len(s) + 1
    <3>1. t[j] = x
      BY <1>1, <2>3
    <3>2. s[i] # 0 /\ x # 0
      BY <2>1, <3>1
    <3>3. s[i] < x
      BY <1>5, <2>1, <3>2
    <3> QED
      BY <2>1, <3>1, <3>3
  <2>4. j \in 1 .. Len(s) \/ j = Len(s) + 1
    <3>1. Len(s) \in Nat
      BY <1>1
    <3> QED
      BY <3>1
  <2> QED
    BY <2>2, <2>3, <2>4
<1>6. Flow!Messages(t) = Flow!Messages(s) \cup {x}
  BY <1>2, <1>3, <1>4
<1> QED
  BY <1>1, <1>5, <1>6 DEF t

LEMMA ConcatMessages ==
  ASSUME NEW s \in Seq(Nat), NEW t \in Seq(Nat)
  PROVE  /\ s \o t \in Seq(Nat)
         /\ Flow!Messages(s \o t) = Flow!Messages(s) \cup Flow!Messages(t)
         /\ Ordered(s) /\ Ordered(t) /\ Before(s, t) => Ordered(s \o t)
<1> DEFINE u == s \o t
<1>1. /\ u \in Seq(Nat) /\ Len(s) \in Nat /\ Len(t) \in Nat /\ Len(u) = Len(s) + Len(t)
      /\ \A i \in 1 .. Len(s) + Len(t) : u[i] = IF i <= Len(s) THEN s[i] ELSE t[i - Len(s)]
      /\ DOMAIN s = 1 .. Len(s) /\ DOMAIN t = 1 .. Len(t) /\ DOMAIN u = 1 .. Len(s) + Len(t)
  OBVIOUS
<1> HIDE DEF u
<1>2. ASSUME NEW i \in 1 .. Len(u)
      PROVE  (i \in 1 .. Len(s) /\ u[i] = s[i]) \/ (i > Len(s) /\ i - Len(s) \in 1 .. Len(t) /\ u[i] = t[i - Len(s)])
  BY <1>1
<1>3. ASSUME NEW e \in Flow!Messages(u) PROVE e \in Flow!Messages(s) \/ e \in Flow!Messages(t)
  <2>1. PICK i \in 1 .. Len(u) : e = u[i]
    BY <1>1, MessagesDef
  <2> QED
    BY <1>2, <2>1, MessagesDef
<1>4. ASSUME NEW e \in Flow!Messages(s) PROVE e \in Flow!Messages(u)
  <2>1. PICK i \in 1 .. Len(s) : e = s[i]
    BY MessagesDef
  <2>2. i \in 1 .. Len(u) /\ u[i] = e
    BY <1>1, <2>1
  <2> QED
    BY <1>1, <2>2, MessagesDef
<1>5. ASSUME NEW e \in Flow!Messages(t) PROVE e \in Flow!Messages(u)
  <2>1. PICK i \in 1 .. Len(t) : e = t[i]
    BY MessagesDef
  <2>2. i + Len(s) \in 1 .. Len(u) /\ u[i + Len(s)] = e
    <3>1. i + Len(s) \in 1 .. Len(s) + Len(t) /\ ~(i + Len(s) <= Len(s)) /\ (i + Len(s)) - Len(s) = i
      BY <1>1
    <3> QED
      BY <1>1, <2>1, <3>1
  <2> QED
    BY <1>1, <2>2, MessagesDef
<1>6. ASSUME Ordered(s), Ordered(t), Before(s, t) PROVE Ordered(u)
  <2> SUFFICES ASSUME NEW i \in 1 .. Len(u), NEW j \in 1 .. Len(u), i < j, u[i] # 0, u[j] # 0
               PROVE  u[i] < u[j]
    BY <1>1 DEF Ordered
  <2>1. CASE j \in 1 .. Len(s) /\ u[j] = s[j]
    <3>1. i \in 1 .. Len(s) /\ u[i] = s[i]
      BY <1>1, <1>2, <2>1
    <3> QED
      BY <1>1, <1>6, <2>1, <3>1 DEF Ordered
  <2>2. CASE j > Len(s) /\ j - Len(s) \in 1 .. Len(t) /\ u[j] = t[j - Len(s)]
    <3>1. CASE i \in 1 .. Len(s) /\ u[i] = s[i]
      <4>1. s[i] \in Flow!Messages(s) /\ t[j - Len(s)] \in Flow!Messages(t)
        BY <2>2, <3>1, MessagesDef
      <4> QED
        BY <1>6, <2>2, <3>1, <4>1 DEF Before
    <3>2. CASE i > Len(s) /\ i - Len(s) \in 1 .. Len(t) /\ u[i] = t[i - Len(s)]
      <4>1. i - Len(s) < j - Len(s)
        BY <1>1, <2>2, <3>2
      <4> QED
        BY <1>1, <1>6, <2>2, <3>2, <4>1 DEF Ordered
    <3> QED
      BY <1>2, <3>1, <3>2
  <2> QED
    BY <1>2, <2>1, <2>2
<1>7. Flow!Messages(u) = Flow!Messages(s) \cup Flow!Messages(t)
  BY <1>3, <1>4, <1>5
<1> QED
  BY <1>1, <1>6, <1>7 DEF u

\* What is left of a queue that was too long are its newest.
LEMMA KeptMessages ==
  ASSUME NEW s \in Seq(Nat), Ordered(s), 0 \notin Flow!Messages(s)
  PROVE  /\ Flow!NewestKept(s) \in Seq(Nat) /\ Len(Flow!NewestKept(s)) <= maxQueueSize
         /\ Flow!Messages(Flow!NewestKept(s)) \subseteq Flow!Messages(s)
         /\ Ordered(Flow!NewestKept(s))
         /\ \A e \in Flow!Messages(s) \ Flow!Messages(Flow!NewestKept(s)), f \in Flow!Messages(Flow!NewestKept(s)) : e < f
<1> DEFINE k == Flow!NewestKept(s)
           n == Len(s) - maxQueueSize
<1>1. maxQueueSize \in Nat /\ Len(s) \in Nat /\ DOMAIN s = 1 .. Len(s) /\ \A i \in 1 .. Len(s) : s[i] \in Nat \ {0}
  BY FlowAssumption, MessagesDef DEF Flow!FlowBounds
<1>2. CASE ~(Len(s) > maxQueueSize)
  <2>1. k = s
    BY <1>2 DEF Flow!NewestKept
  <2> QED
    BY <1>1, <1>2, <2>1
<1>3. CASE Len(s) > maxQueueSize
  <2>1. k = SubSeq(s, n + 1, Len(s)) /\ n \in Nat /\ n > 0
    BY <1>1, <1>3 DEF Flow!NewestKept
  <2>2. /\ k \in Seq(Nat) /\ Len(k) = maxQueueSize /\ DOMAIN k = 1 .. maxQueueSize
        /\ \A i \in 1 .. maxQueueSize : k[i] = s[n + i] /\ n + i \in 1 .. Len(s)
    BY <1>1, <1>3, <2>1
  <2> HIDE DEF k
  <2>3. ASSUME NEW f \in Flow!Messages(k) PROVE \E i \in n + 1 .. Len(s) : f = s[i]
    <3>1. PICK i \in 1 .. Len(k) : f = k[i]
      BY <2>2, MessagesDef
    <3>2. n + i \in n + 1 .. Len(s) /\ f = s[n + i]
      BY <1>1, <2>1, <2>2, <3>1
    <3> QED
      BY <3>2
  <2>4. ASSUME NEW e \in Flow!Messages(s), e \notin Flow!Messages(k) PROVE \E i \in 1 .. n : e = s[i]
    <3>1. PICK i \in 1 .. Len(s) : e = s[i]
      BY MessagesDef
    <3>2. CASE i > n
      <4>1. i - n \in 1 .. Len(k) /\ k[i - n] = e
        BY <1>1, <2>1, <2>2, <3>1, <3>2
      <4> QED
        BY <2>2, <2>4, <4>1, MessagesDef
    <3>3. CASE ~(i > n)
      BY <1>1, <2>1, <3>1, <3>3
    <3> QED
      BY <3>2, <3>3
  <2>5. Flow!Messages(k) \subseteq Flow!Messages(s)
    <3>1. ASSUME NEW f \in Flow!Messages(k) PROVE f \in Flow!Messages(s)
      <4>1. PICK i \in n + 1 .. Len(s) : f = s[i]
        BY <2>3
      <4>2. i \in 1 .. Len(s)
        BY <1>1, <2>1
      <4> QED
        BY <4>1, <4>2, MessagesDef
    <3> QED
      BY <3>1
  <2>6. Ordered(k)
    <3> SUFFICES ASSUME NEW i \in 1 .. maxQueueSize, NEW j \in 1 .. maxQueueSize, i < j
                 PROVE  s[n + i] < s[n + j]
      BY <2>2 DEF Ordered
    <3>1. n + i \in DOMAIN s /\ n + j \in DOMAIN s /\ n + i < n + j /\ s[n + i] # 0 /\ s[n + j] # 0
      BY <1>1, <2>1, <2>2
    <3> QED
      BY <3>1 DEF Ordered
  <2>7. ASSUME NEW e \in Flow!Messages(s), e \notin Flow!Messages(k), NEW f \in Flow!Messages(k) PROVE e < f
    <3>1. PICK i \in 1 .. n : e = s[i]
      BY <2>4, <2>7
    <3>2. PICK j \in n + 1 .. Len(s) : f = s[j]
      BY <2>3
    <3>3. i \in DOMAIN s /\ j \in DOMAIN s /\ i < j /\ s[i] # 0 /\ s[j] # 0
      <4>1. n \in Nat /\ n <= Len(s) /\ Len(s) \in Nat /\ DOMAIN s = 1 .. Len(s)
        BY <1>1, <2>1
      <4>2. i \in 1 .. Len(s) /\ j \in 1 .. Len(s) /\ i < j
        BY <4>1
      <4> QED
        BY <1>1, <4>1, <4>2
    <3> QED
      BY <3>1, <3>2, <3>3 DEF Ordered
  <2> QED
    BY <1>1, <2>2, <2>5, <2>6, <2>7 DEF k
<1> QED
  BY <1>2, <1>3

-----------------------------------------------------------------------------
\* EventFlow.

M(s) == Flow!Messages(s)

\* What the sequences hold.
FlowTyped ==
  /\ token \in BOOLEAN /\ isAgent \in BOOLEAN /\ alive \in BOOLEAN
  /\ phase \in {"offline", "waiting", "sending"}
  /\ emitted \in 0 .. MaxEvents /\ losses \in 0 .. MaxLosses
  /\ events \in Seq(Nat) /\ sending \in Seq(Nat) /\ wire \in Seq(Nat) /\ delivered \in Seq(Nat)
  /\ M(events) \subseteq 1 .. emitted /\ M(sending) \subseteq 1 .. emitted /\ M(delivered) \subseteq 1 .. emitted
  /\ M(wire) \subseteq 0 .. emitted
  /\ Len(events) <= maxQueueSize
  /\ gone \subseteq (1 .. emitted) \X Flow!Reason

\* From the dashboard back to the queue the numbers grow.
InOneOrder ==
  /\ Ordered(delivered) /\ Ordered(wire) /\ Ordered(sending) /\ Ordered(events)
  /\ Before(delivered, wire) /\ Before(delivered, sending) /\ Before(delivered, events)
  /\ Before(wire, sending) /\ Before(wire, events) /\ Before(sending, events)

\* What the agent's loop is doing says what can be where; with a token the
\* dashboard knows the agent from the first message on.
PhaseTells ==
  /\ phase # "sending" => sending = <<>>
  /\ phase = "offline" => ~alive
  /\ ~alive => wire = <<>>
  /\ token => isAgent \/ phase = "offline"

FlowInv == FlowTyped /\ InOneOrder /\ PhaseTells /\ Flow!EveryEventIsAccountedFor

LEMMA FlowTypes == FlowInv => Flow!TypeOK
<1> SUFFICES ASSUME FlowInv PROVE Flow!TypeOK
  OBVIOUS
<1>1. 1 .. emitted \subseteq Flow!Event /\ 0 .. emitted \subseteq Flow!Event \cup {0}
  BY FlowAssumption DEF FlowInv, FlowTyped, Flow!Event, Flow!FlowBounds
<1>2. \A g \in gone : g[1] \in Flow!Event /\ g[2] \in Flow!Reason
  BY <1>1 DEF FlowInv, FlowTyped
<1> QED
  BY <1>1, <1>2 DEF FlowInv, FlowTyped, Flow!TypeOK, M

LEMMA FlowInit == Flow!Init => FlowInv
<1> SUFFICES ASSUME Flow!Init PROVE FlowInv
  OBVIOUS
<1>1. MaxEvents \in Nat /\ MaxLosses \in Nat /\ maxQueueSize \in Nat
  BY FlowAssumption DEF Flow!FlowBounds
<1>2. M(<<>>) = {} /\ Ordered(<<>>) /\ Len(<<>>) = 0 /\ <<>> \in Seq(Nat)
  BY EmptyMessages DEF M
<1>3. FlowTyped
  <2>1. M(events) = {} /\ M(sending) = {} /\ M(wire) = {} /\ M(delivered) = {}
    BY <1>2 DEF Flow!Init
  <2>2. emitted \in 0 .. MaxEvents /\ losses \in 0 .. MaxLosses /\ Len(events) <= maxQueueSize
    BY <1>1, <1>2 DEF Flow!Init
  <2>3. gone = {} /\ token \in BOOLEAN /\ phase = "offline" /\ isAgent = FALSE /\ alive = FALSE
    BY DEF Flow!Init
  <2>4. events \in Seq(Nat) /\ sending \in Seq(Nat) /\ wire \in Seq(Nat) /\ delivered \in Seq(Nat)
    BY <1>2 DEF Flow!Init
  <2> QED
    BY <2>1, <2>2, <2>3, <2>4 DEF FlowTyped
<1>4. InOneOrder
  BY <1>2 DEF Flow!Init, InOneOrder, Before, M
<1>5. Flow!EveryEventIsAccountedFor
  BY <1>2 DEF Flow!Init, Flow!EveryEventIsAccountedFor, Flow!InFlight, M
<1> QED
  BY <1>3, <1>4, <1>5 DEF Flow!Init, FlowInv, PhaseTells

\* Every event that is somewhere.
Known == M(events) \cup M(sending) \cup M(wire) \cup M(delivered)

\* For want of room only the oldest go.
NewestStay ==
  \A e \in {g[1] : g \in gone' \ gone} :
    <<e, "overflow">> \in gone' => \A f \in M(events') : f > e

\* A step that loses the events L for one reason, and nothing else.
Loses(L, why) ==
  /\ why \in Flow!Reason
  /\ token' = token /\ emitted' \in Nat /\ emitted <= emitted'
  /\ gone' = gone \cup {<<e, why>> : e \in L \ {0}}
  /\ \A e \in L \ {0} : e \in 1 .. emitted' /\ e \notin Known' /\ (e \in Known \/ e > emitted)
  /\ \A e \in Known \ {0} : e \in Known' \/ e \in L
  /\ \A e \in emitted + 1 .. emitted' : e \in Known' \/ e \in L
  /\ \A e \in Known' \ {0} : e \in Known \/ e > emitted
  /\ why = "ignored" /\ token => L \ {0} = {}
  /\ why = "overflow" => \A e \in L \ {0}, f \in M(events') : f > e

Accounted ==
  /\ gone' \subseteq (1 .. emitted') \X Flow!Reason
  /\ Flow!EveryEventIsAccountedFor'
  /\ NewestStay

LEMMA LossStep == ASSUME FlowInv, NEW L, NEW why, Loses(L, why) PROVE Accounted
<1> USE DEF Loses
<1>1. gone \subseteq (1 .. emitted) \X Flow!Reason /\ emitted \in Nat
  BY FlowAssumption DEF FlowInv, FlowTyped, Flow!FlowBounds
<1>2. /\ \A e \in 1 .. emitted : e \in Known \/ \E g \in gone : g[1] = e
      /\ \A g \in gone : g[1] \notin Known
      /\ token => \A g \in gone : g[2] # "ignored"
  BY DEF FlowInv, Flow!EveryEventIsAccountedFor, Flow!InFlight, Known, M
<1>3. \A g \in gone : g[1] \in 1 .. emitted /\ g[2] \in Flow!Reason /\ g = <<g[1], g[2]>>
  BY <1>1
<1>4. \A g \in gone' : g \in gone \/ (g[1] \in L \ {0} /\ g[2] = why /\ g = <<g[1], why>>)
  OBVIOUS
<1>5. gone' \subseteq (1 .. emitted') \X Flow!Reason
  BY <1>1, <1>4
<1>6. ASSUME NEW e \in 1 .. emitted' PROVE e \in Known' \/ \E g \in gone' : g[1] = e
  <2>1. CASE e \in L
    <3>1. <<e, why>> \in gone' /\ <<e, why>>[1] = e
      BY <2>1
    <3> QED
      BY <3>1
  <2>2. CASE e \notin L /\ e > emitted
    BY <1>1, <2>2
  <2>3. CASE e \notin L /\ ~(e > emitted)
    <3>1. e \in 1 .. emitted
      BY <1>1, <2>3
    <3> QED
      BY <1>2, <2>3, <3>1
  <2> QED
    BY <2>1, <2>2, <2>3
<1>7. ASSUME NEW g \in gone' PROVE g[1] \notin Known'
  <2>1. CASE g \in gone
    <3>1. g[1] \in 1 .. emitted /\ g[1] \notin Known
      BY <1>2, <1>3, <2>1
    <3> QED
      BY <1>1, <3>1
  <2>2. CASE g[1] \in L \ {0}
    BY <2>2
  <2> QED
    BY <1>4, <2>1, <2>2
<1>8. ASSUME token, NEW g \in gone' PROVE g[2] # "ignored"
  BY <1>2, <1>4, <1>8
<1>9. Flow!EveryEventIsAccountedFor'
  BY <1>6, <1>7, <1>8 DEF Flow!EveryEventIsAccountedFor, Flow!InFlight, Known, M
<1>10. NewestStay
  <2> SUFFICES ASSUME NEW g \in gone' \ gone, <<g[1], "overflow">> \in gone', NEW f \in M(events')
               PROVE  f > g[1]
    BY DEF NewestStay
  <2>1. g[1] \in L \ {0}
    BY <1>4
  <2>2. <<g[1], "overflow">> \notin gone
    <3>1. g[1] \in Known \/ g[1] > emitted
      BY <2>1
    <3>2. SUFFICES ASSUME <<g[1], "overflow">> \in gone PROVE FALSE
      OBVIOUS
    <3>3. g[1] \notin Known /\ g[1] \in 1 .. emitted
      BY <1>2, <1>3, <3>2
    <3> QED
      BY <1>1, <3>1, <3>3
  <2>3. why = "overflow"
    BY <2>2
  <2> QED
    BY <2>1, <2>3
<1> QED
  BY <1>5, <1>9, <1>10 DEF Accounted

\* A step that moves events and loses none.
LEMMA NoLossStep ==
  ASSUME FlowInv, token' = token, emitted' = emitted, gone' = gone,
         \A e \in Known \ {0} : e \in Known', \A e \in Known' \ {0} : e \in Known
  PROVE  Accounted
<1>1. emitted \in Nat /\ gone \subseteq (1 .. emitted) \X Flow!Reason
  BY FlowAssumption DEF FlowInv, FlowTyped, Flow!FlowBounds
<1>2. \A e : e # 0 => (e \in Known <=> e \in Known')
  OBVIOUS
<1>3. /\ \A e \in 1 .. emitted : e \in Known \/ \E g \in gone : g[1] = e
      /\ \A g \in gone : g[1] \notin Known /\ g[1] # 0
      /\ token => \A g \in gone : g[2] # "ignored"
  BY <1>1 DEF FlowInv, Flow!EveryEventIsAccountedFor, Flow!InFlight, Known, M
<1>4. /\ \A e \in 1 .. emitted : e \in Known' \/ \E g \in gone : g[1] = e
      /\ \A g \in gone : g[1] \notin Known'
  BY <1>1, <1>2, <1>3
<1> QED
  BY <1>1, <1>3, <1>4 DEF Flow!EveryEventIsAccountedFor, Flow!InFlight, Known, M, NewestStay, Accounted

LEMMA ConfigureKeeps == ASSUME FlowInv, Flow!Configure PROVE FlowInv' /\ NewestStay
<1>1. /\ losses < MaxLosses /\ losses' = losses + 1 /\ events' = <<>>
      /\ gone' = gone \cup {<<e, "reconfigured">> : e \in M(events) \ {0}}
      /\ UNCHANGED <<token, emitted, phase, sending, alive, wire, isAgent, delivered>>
  BY DEF Flow!Configure, Flow!Lose, Flow!Status, M
<1>2. FlowTyped /\ InOneOrder /\ PhaseTells
  BY DEF FlowInv
<1>3. /\ M(events') = {} /\ Ordered(events') /\ events' \in Seq(Nat) /\ Len(events') = 0
      /\ M(sending') = M(sending) /\ M(wire') = M(wire) /\ M(delivered') = M(delivered)
      /\ emitted' = emitted /\ emitted \in Nat /\ maxQueueSize \in Nat /\ MaxLosses \in Nat
  BY <1>1, <1>2, EmptyMessages, FlowAssumption DEF M, FlowTyped, Flow!FlowBounds
<1>4. \A e \in M(events) \ {0} : e \in 1 .. emitted /\ e \notin M(sending) /\ e \notin M(wire) /\ e \notin M(delivered)
  BY <1>2 DEF FlowTyped, InOneOrder, Before, M
<1>5. Accounted
  <2>1. \A e \in M(events) \ {0} : e \in 1 .. emitted' /\ e \notin Known' /\ e \in Known
    BY <1>3, <1>4 DEF Known
  <2>2. (\A e \in Known \ {0} : e \in Known' \/ e \in M(events)) /\ (\A e \in Known' \ {0} : e \in Known)
    BY <1>3 DEF Known
  <2>3. emitted + 1 .. emitted' = {}
    BY <1>3
  <2>4. "reconfigured" \in Flow!Reason
    BY DEF Flow!Reason
  <2> QED
    <3>1. Loses(M(events), "reconfigured")
      BY <1>1, <1>3, <2>1, <2>2, <2>3, <2>4 DEF Loses
    <3> QED
      BY <3>1, LossStep
<1>6. FlowTyped'
  BY <1>1, <1>2, <1>3, <1>5 DEF FlowTyped, Accounted
<1>7. InOneOrder'
  BY <1>1, <1>2, <1>3 DEF InOneOrder, Before, M
<1>8. PhaseTells'
  BY <1>1, <1>2 DEF PhaseTells
<1> QED
  BY <1>5, <1>6, <1>7, <1>8 DEF FlowInv, Accounted

LEMMA StopKeeps == ASSUME FlowInv, Flow!Stop PROVE FlowInv' /\ NewestStay
<1> DEFINE L == M(events) \cup M(sending) \cup M(wire)
<1>1. /\ losses < MaxLosses /\ losses' = losses + 1 /\ phase' = "offline" /\ alive' = FALSE
      /\ events' = <<>> /\ sending' = <<>> /\ wire' = <<>>
      /\ gone' = gone \cup {<<e, "stopped">> : e \in L \ {0}}
      /\ UNCHANGED <<token, emitted, isAgent, delivered>>
  BY DEF Flow!Stop, Flow!Lose, Flow!Status, M
<1>2. FlowTyped /\ InOneOrder /\ PhaseTells
  BY DEF FlowInv
<1>3. /\ M(delivered') = M(delivered) /\ emitted' = emitted
      /\ emitted \in Nat /\ maxQueueSize \in Nat
  BY <1>1, <1>2, FlowAssumption DEF M, FlowTyped, Flow!FlowBounds
<1>a. M(<<>>) = {} /\ Ordered(<<>>) /\ <<>> \in Seq(Nat) /\ Len(<<>>) = 0
  BY EmptyMessages DEF M
<1>4. /\ M(events') = {} /\ M(sending') = {} /\ M(wire') = {}
      /\ Ordered(events') /\ Ordered(sending') /\ Ordered(wire')
      /\ events' \in Seq(Nat) /\ sending' \in Seq(Nat) /\ wire' \in Seq(Nat) /\ Len(events') = 0
  BY <1>1, <1>a
<1>5. \A e \in L \ {0} : e \in 1 .. emitted /\ e \notin M(delivered)
  BY <1>2 DEF FlowTyped, InOneOrder, Before, M
<1>6. Accounted
  <2>1. \A e \in L \ {0} : e \in 1 .. emitted' /\ e \notin Known' /\ e \in Known
    BY <1>3, <1>4, <1>5 DEF Known
  <2>2. (\A e \in Known \ {0} : e \in Known' \/ e \in L) /\ (\A e \in Known' \ {0} : e \in Known)
    BY <1>3, <1>4 DEF Known
  <2>3. emitted + 1 .. emitted' = {} /\ "stopped" \in Flow!Reason
    BY <1>3 DEF Flow!Reason
  <2> HIDE DEF L
  <2>4. Loses(L, "stopped")
    BY <1>1, <1>3, <2>1, <2>2, <2>3 DEF Loses
  <2> QED
    BY <2>4, LossStep
<1>7. FlowTyped'
  <2>1. losses' \in 0 .. MaxLosses
    BY <1>1, <1>2, FlowAssumption DEF FlowTyped, Flow!FlowBounds
  <2>2. /\ M(events') \subseteq 1 .. emitted' /\ M(sending') \subseteq 1 .. emitted' /\ M(wire') \subseteq 0 .. emitted'
        /\ M(delivered') \subseteq 1 .. emitted' /\ Len(events') <= maxQueueSize
    BY <1>2, <1>3, <1>4 DEF FlowTyped
  <2>3. /\ token' \in BOOLEAN /\ isAgent' \in BOOLEAN /\ alive' \in BOOLEAN /\ emitted' \in 0 .. MaxEvents
        /\ delivered' \in Seq(Nat) /\ phase' \in {"offline", "waiting", "sending"}
    BY <1>1, <1>2 DEF FlowTyped
  <2> QED
    BY <1>4, <1>6, <2>1, <2>2, <2>3 DEF FlowTyped, Accounted
<1>8. InOneOrder'
  BY <1>1, <1>2, <1>3, <1>4 DEF InOneOrder, Before, M
<1>9. PhaseTells'
  BY <1>1, <1>2 DEF PhaseTells
<1> QED
  BY <1>6, <1>7, <1>8, <1>9 DEF FlowInv, Accounted

LEMMA BreakKeeps == ASSUME FlowInv, Flow!Break PROVE FlowInv' /\ NewestStay
<1>1. /\ alive /\ losses < MaxLosses /\ losses' = losses + 1 /\ alive' = FALSE /\ wire' = <<>>
      /\ gone' = gone \cup {<<e, "broken">> : e \in M(wire) \ {0}}
      /\ UNCHANGED <<token, emitted, events, phase, sending, isAgent, delivered>>
  BY DEF Flow!Break, Flow!Lose, Flow!Status, M
<1>2. FlowTyped /\ InOneOrder /\ PhaseTells
  BY DEF FlowInv
<1>3. /\ M(wire') = {} /\ Ordered(wire') /\ wire' \in Seq(Nat)
      /\ M(sending') = M(sending) /\ M(events') = M(events) /\ M(delivered') = M(delivered)
      /\ emitted' = emitted /\ emitted \in Nat /\ MaxLosses \in Nat
  BY <1>1, <1>2, EmptyMessages, FlowAssumption DEF M, FlowTyped, Flow!FlowBounds
<1>4. \A e \in M(wire) \ {0} : e \in 1 .. emitted /\ e \notin M(sending) /\ e \notin M(events) /\ e \notin M(delivered)
  BY <1>2 DEF FlowTyped, InOneOrder, Before, M
<1>5. Accounted
  <2>1. \A e \in M(wire) \ {0} : e \in 1 .. emitted' /\ e \notin Known' /\ e \in Known
    BY <1>3, <1>4 DEF Known
  <2>2. (\A e \in Known \ {0} : e \in Known' \/ e \in M(wire)) /\ (\A e \in Known' \ {0} : e \in Known)
    BY <1>3 DEF Known
  <2>3. emitted + 1 .. emitted' = {} /\ "broken" \in Flow!Reason
    BY <1>3 DEF Flow!Reason
  <2>4. Loses(M(wire), "broken")
    BY <1>1, <1>3, <2>1, <2>2, <2>3 DEF Loses
  <2> QED
    BY <2>4, LossStep
<1>6. FlowTyped'
  <2>1. losses' \in 0 .. MaxLosses
    BY <1>1, <1>2, FlowAssumption DEF FlowTyped, Flow!FlowBounds
  <2> QED
    BY <1>1, <1>2, <1>3, <1>5, <2>1 DEF FlowTyped, Accounted
<1>7. InOneOrder'
  BY <1>1, <1>2, <1>3 DEF InOneOrder, Before, M
<1>8. PhaseTells'
  BY <1>1, <1>2 DEF PhaseTells
<1> QED
  BY <1>5, <1>6, <1>7, <1>8 DEF FlowInv, Accounted

\* A status carries no number.
LEMMA StatusMessages ==
  ASSUME NEW w \in Seq(Nat), Ordered(w), NEW known, NEW v \in {w, Flow!StatusSent(w, known)}
  PROVE  v \in Seq(Nat) /\ Ordered(v) /\ M(w) \subseteq M(v) /\ M(v) \subseteq M(w) \cup {0}
<1>1. v = w \/ v = Append(w, 0)
  BY DEF Flow!StatusSent, Flow!Status
<1>2. CASE v = w
  BY <1>2
<1>3. CASE v = Append(w, 0)
  <2>1. \A e \in M(w) : e # 0 /\ 0 # 0 => e < 0
    OBVIOUS
  <2> QED
    BY <1>3, <2>1, AppendMessages DEF M
<1> QED
  BY <1>1, <1>2, <1>3

LEMMA DialKeeps == ASSUME FlowInv, Flow!Dial PROVE FlowInv' /\ NewestStay
<1>1. /\ phase = "offline" /\ phase' = "waiting" /\ alive' = TRUE /\ isAgent' = token
      /\ wire' \in {<<>>, Flow!StatusSent(<<>>, token)}
      /\ UNCHANGED <<token, emitted, events, sending, delivered, gone, losses>>
  BY DEF Flow!Dial
<1>2. FlowTyped /\ InOneOrder /\ PhaseTells
  BY DEF FlowInv
<1>3. sending = <<>> /\ wire = <<>> /\ M(<<>>) = {}
  BY <1>1, <1>2, EmptyMessages DEF PhaseTells, M
<1>4. wire' \in Seq(Nat) /\ Ordered(wire') /\ M(wire') \subseteq {0}
  BY <1>1, <1>3, EmptyMessages, StatusMessages
<1>5. M(events') = M(events) /\ M(sending') = M(sending) /\ M(delivered') = M(delivered) /\ emitted \in Nat
  BY <1>1, <1>2, FlowAssumption DEF FlowTyped, M, Flow!FlowBounds
<1>6. Accounted
  <2>1. (\A e \in Known \ {0} : e \in Known') /\ (\A e \in Known' \ {0} : e \in Known)
    BY <1>3, <1>4, <1>5 DEF Known
  <2> QED
    BY <1>1, <2>1, NoLossStep
<1>7. FlowTyped'
  BY <1>1, <1>2, <1>4, <1>5, <1>6 DEF FlowTyped, Accounted
<1>8. InOneOrder'
  BY <1>1, <1>2, <1>4 DEF InOneOrder, Before, M
<1>9. PhaseTells'
  BY <1>1, <1>2, <1>3 DEF PhaseTells
<1> QED
  BY <1>6, <1>7, <1>8, <1>9 DEF FlowInv, Accounted

LEMMA DrainKeeps == ASSUME FlowInv, Flow!Drain PROVE FlowInv' /\ NewestStay
<1>1. /\ phase = "waiting" /\ phase' = "sending" /\ sending' = events /\ events' = <<>>
      /\ UNCHANGED <<token, emitted, alive, wire, isAgent, delivered, gone, losses>>
  BY DEF Flow!Drain
<1>2. FlowTyped /\ InOneOrder /\ PhaseTells
  BY DEF FlowInv
<1>3. sending = <<>> /\ M(<<>>) = {} /\ Ordered(<<>>) /\ <<>> \in Seq(Nat) /\ Len(<<>>) = 0 /\ maxQueueSize \in Nat
  BY <1>1, <1>2, EmptyMessages, FlowAssumption DEF PhaseTells, M, Flow!FlowBounds
<1>4. M(events') = {} /\ M(sending') = M(events) /\ M(wire') = M(wire) /\ M(delivered') = M(delivered) /\ M(sending) = {}
  BY <1>1, <1>3 DEF M
<1>5. Accounted
  <2>1. (\A e \in Known \ {0} : e \in Known') /\ (\A e \in Known' \ {0} : e \in Known)
    BY <1>4 DEF Known
  <2> QED
    BY <1>1, <2>1, NoLossStep
<1>6. FlowTyped'
  BY <1>1, <1>2, <1>3, <1>4, <1>5 DEF FlowTyped, Accounted
<1>7. InOneOrder'
  BY <1>1, <1>2, <1>3, <1>4 DEF InOneOrder, Before, M
<1>8. PhaseTells'
  BY <1>1, <1>2 DEF PhaseTells
<1> QED
  BY <1>5, <1>6, <1>7, <1>8 DEF FlowInv, Accounted

LEMMA SendStatusKeeps ==
  ASSUME FlowInv, Flow!sendStatus \/ Flow!sendStatusFails PROVE FlowInv' /\ NewestStay
<1>1. /\ phase = "sending" /\ sending = <<>> /\ phase' \in {"waiting", "offline"}
      /\ phase' = "offline" => ~alive
      /\ wire' = wire \/ (alive /\ wire' \in {wire, Flow!StatusSent(wire, isAgent)})
      /\ UNCHANGED <<token, emitted, events, sending, alive, isAgent, delivered, gone, losses>>
  <2>1. CASE Flow!sendStatus
    BY <2>1 DEF Flow!sendStatus
  <2>2. CASE Flow!sendStatusFails
    BY <2>2 DEF Flow!sendStatusFails
  <2> QED
    BY <2>1, <2>2
<1>2. FlowTyped /\ InOneOrder /\ PhaseTells
  BY DEF FlowInv
<1>3. wire' \in Seq(Nat) /\ Ordered(wire') /\ M(wire) \subseteq M(wire') /\ M(wire') \subseteq M(wire) \cup {0}
  <2>1. wire \in Seq(Nat) /\ Ordered(wire)
    BY <1>2 DEF FlowTyped, InOneOrder
  <2> QED
    BY <1>1, <2>1, StatusMessages
<1>4. M(events') = M(events) /\ M(sending') = M(sending) /\ M(delivered') = M(delivered) /\ emitted \in Nat
  BY <1>1, <1>2, FlowAssumption DEF FlowTyped, M, Flow!FlowBounds
<1>5. Accounted
  <2>1. (\A e \in Known \ {0} : e \in Known') /\ (\A e \in Known' \ {0} : e \in Known)
    BY <1>3, <1>4 DEF Known
  <2> QED
    BY <1>1, <2>1, NoLossStep
<1>6. FlowTyped'
  BY <1>1, <1>2, <1>3, <1>4, <1>5 DEF FlowTyped, Accounted
<1>7. InOneOrder'
  BY <1>1, <1>2, <1>3 DEF InOneOrder, Before, M
<1>8. PhaseTells'
  BY <1>1, <1>2 DEF PhaseTells
<1> QED
  BY <1>5, <1>6, <1>7, <1>8 DEF FlowInv, Accounted

LEMMA WriteKeeps == ASSUME FlowInv, Flow!Write PROVE FlowInv' /\ NewestStay
<1> DEFINE h == Head(sending)
<1>1. /\ phase = "sending" /\ sending # <<>> /\ sending' = Tail(sending)
      /\ UNCHANGED <<token, emitted, events, phase, alive, isAgent, delivered, losses>>
  BY DEF Flow!Write
<1>2. FlowTyped /\ InOneOrder /\ PhaseTells
  BY DEF FlowInv
<1>3. /\ sending' \in Seq(Nat) /\ h \in Nat /\ M(sending) = {h} \cup M(sending') /\ Ordered(sending')
      /\ \A e \in M(sending') : h # 0 /\ e # 0 => h < e
  BY <1>1, <1>2, TailMessages DEF FlowTyped, InOneOrder, M
<1>4. /\ M(events') = M(events) /\ M(delivered') = M(delivered) /\ emitted' = emitted /\ emitted \in Nat
      /\ h \in 1 .. emitted /\ h # 0
  BY <1>1, <1>2, <1>3, FlowAssumption DEF FlowTyped, M, Flow!FlowBounds
<1> HIDE DEF h
<1>5. CASE alive
  <2>1. wire' = Append(wire, h) /\ UNCHANGED gone
    BY <1>5 DEF Flow!Write, h
  <2>2. \A e \in Flow!Messages(wire) : e # 0 /\ h # 0 => e < h
    BY <1>2, <1>3 DEF InOneOrder, Before, M
  <2>3. wire' \in Seq(Nat) /\ M(wire') = M(wire) \cup {h} /\ Ordered(wire')
    BY <1>2, <1>3, <2>1, <2>2, AppendMessages DEF FlowTyped, InOneOrder, M
  <2>4. Accounted
    <3>1. (\A e \in Known \ {0} : e \in Known') /\ (\A e \in Known' \ {0} : e \in Known)
      BY <1>3, <1>4, <2>3 DEF Known
    <3> QED
      BY <1>1, <2>1, <3>1, NoLossStep
  <2>5. FlowTyped'
    BY <1>1, <1>2, <1>3, <1>4, <2>3, <2>4 DEF FlowTyped, Accounted
  <2>6. InOneOrder'
    BY <1>1, <1>2, <1>3, <1>4, <2>3 DEF InOneOrder, Before, M
  <2>7. PhaseTells'
    BY <1>1, <1>2, <1>5 DEF PhaseTells
  <2> QED
    BY <2>4, <2>5, <2>6, <2>7 DEF FlowInv, Accounted
<1>6. CASE ~alive
  <2>1. wire' = wire /\ gone' = gone \cup {<<e, "broken">> : e \in {h} \ {0}}
    BY <1>6 DEF Flow!Write, Flow!Lose, Flow!Status, h
  <2>2. M(wire') = M(wire)
    BY <2>1 DEF M
  <2>3. h \notin M(delivered) /\ h \notin M(wire) /\ h \notin M(events) /\ h \notin M(sending')
    <3>1. h \in M(sending) /\ ~(h < h)
      BY <1>3, <1>4
    <3>2. h \notin M(delivered) /\ h \notin M(wire) /\ h \notin M(events)
      BY <1>2, <1>4, <3>1 DEF InOneOrder, Before, M
    <3> QED
      BY <1>3, <1>4, <3>1, <3>2
  <2>4. Accounted
    <3>1. \A e \in {h} \ {0} : e \in 1 .. emitted' /\ e \notin Known' /\ e \in Known
      BY <1>3, <1>4, <2>2, <2>3 DEF Known
    <3>2. (\A e \in Known \ {0} : e \in Known' \/ e \in {h}) /\ (\A e \in Known' \ {0} : e \in Known)
      BY <1>3, <1>4, <2>2 DEF Known
    <3>3. emitted + 1 .. emitted' = {} /\ "broken" \in Flow!Reason
      BY <1>4 DEF Flow!Reason
    <3>4. Loses({h}, "broken")
      BY <1>1, <1>4, <2>1, <3>1, <3>2, <3>3 DEF Loses
    <3> QED
      BY <3>4, LossStep
  <2>5. FlowTyped'
    BY <1>1, <1>2, <1>3, <1>4, <2>1, <2>4 DEF FlowTyped, Accounted
  <2>6. InOneOrder'
    BY <1>1, <1>2, <1>3, <1>4, <2>1 DEF InOneOrder, Before, M
  <2>7. PhaseTells'
    BY <1>1, <1>2, <2>1 DEF PhaseTells
  <2> QED
    BY <2>4, <2>5, <2>6, <2>7 DEF FlowInv, Accounted
<1> QED
  BY <1>5, <1>6

\* What a filled queue keeps and loses.
LEMMA FillKeeps ==
  ASSUME FlowInv, NEW s \in Seq(Nat), Ordered(s), 0 \notin M(s), Flow!Fill(s),
         token' = token, emitted' \in Nat, emitted <= emitted',
         \A e \in M(s) : e \in 1 .. emitted' /\ (e \in Known \/ e > emitted),
         \A e \in M(s) : e \notin M(sending') /\ e \notin M(wire') /\ e \notin M(delivered'),
         \A e \in Known \ {0} : e \in M(s) \/ e \in M(sending') \cup M(wire') \cup M(delivered'),
         \A e \in emitted + 1 .. emitted' : e \in M(s),
         \A e \in M(sending') \cup M(wire') \cup M(delivered') : e # 0 => e \in Known
  PROVE  /\ Accounted
         /\ events' \in Seq(Nat) /\ Len(events') <= maxQueueSize /\ Ordered(events') /\ M(events') \subseteq M(s)
<1> DEFINE L == M(s) \ M(events')
<1>1. events' = Flow!NewestKept(s) /\ gone' = gone \cup {<<e, "overflow">> : e \in L \ {0}}
  BY DEF Flow!Fill, Flow!Lose, Flow!Status, M
<1>2. /\ events' \in Seq(Nat) /\ Len(events') <= maxQueueSize /\ Ordered(events') /\ M(events') \subseteq M(s)
      /\ \A e \in L, f \in M(events') : e < f
  BY <1>1, KeptMessages DEF M
<1>3. \A e \in M(events') : e \in Nat
  BY <1>2, MessagesDef DEF M
<1>4. \A e \in L : e \in 1 .. emitted' /\ e \notin Known' /\ (e \in Known \/ e > emitted)
  BY DEF Known
<1>5. (\A e \in Known \ {0} : e \in Known' \/ e \in L) /\ (\A e \in Known' \ {0} : e \in Known \/ e > emitted)
  BY <1>2 DEF Known
<1>6. \A e \in emitted + 1 .. emitted' : e \in Known' \/ e \in L
  BY DEF Known
<1>7. \A e \in L \ {0}, f \in M(events') : f > e
  <2>1. SUFFICES ASSUME NEW e \in L \ {0}, NEW f \in M(events') PROVE f > e
    OBVIOUS
  <2>2. e \in Nat /\ f \in Nat /\ e < f
    BY <1>2, <1>3, <1>4
  <2> QED
    BY <2>2
<1> HIDE DEF L
<1>8. Loses(L, "overflow")
  BY <1>1, <1>4, <1>5, <1>6, <1>7 DEF Loses, Flow!Reason
<1> QED
  BY <1>2, <1>8, LossStep

LEMMA WriteFailsKeeps == ASSUME FlowInv, Flow!WriteFails PROVE FlowInv' /\ NewestStay
<1> DEFINE s == sending \o events
<1>1. /\ phase = "sending" /\ ~alive /\ Flow!Fill(s) /\ sending' = <<>>
      /\ UNCHANGED <<token, emitted, phase, alive, wire, isAgent, delivered, losses>>
  BY DEF Flow!WriteFails, Flow!Requeue
<1>2. FlowTyped /\ InOneOrder /\ PhaseTells
  BY DEF FlowInv
<1>3. /\ s \in Seq(Nat) /\ M(s) = M(sending) \cup M(events) /\ Ordered(s)
  BY <1>2, ConcatMessages DEF FlowTyped, InOneOrder, M
<1> HIDE DEF s
<1>4. /\ M(sending') = {} /\ Ordered(sending') /\ sending' \in Seq(Nat)
      /\ M(wire') = M(wire) /\ M(delivered') = M(delivered) /\ emitted' = emitted /\ emitted \in Nat
      /\ wire = <<>> /\ M(wire) = {}
  BY <1>1, <1>2, EmptyMessages, FlowAssumption DEF FlowTyped, PhaseTells, M, Flow!FlowBounds
<1>5. \A e \in M(s) : e \in 1 .. emitted /\ e # 0 /\ e \in Known /\ e \notin M(delivered)
  BY <1>2, <1>3, <1>4 DEF FlowTyped, InOneOrder, Before, Known, M
<1>6. /\ Accounted
      /\ events' \in Seq(Nat) /\ Len(events') <= maxQueueSize /\ Ordered(events') /\ M(events') \subseteq M(s)
  <2>1. 0 \notin M(s) /\ emitted + 1 .. emitted' = {} /\ emitted' \in Nat /\ emitted <= emitted'
    BY <1>4, <1>5
  <2>2. \A e \in M(s) : e \notin M(sending') /\ e \notin M(wire') /\ e \notin M(delivered')
    BY <1>4, <1>5
  <2>3. /\ \A e \in Known \ {0} : e \in M(s) \/ e \in M(sending') \cup M(wire') \cup M(delivered')
        /\ \A e \in M(sending') \cup M(wire') \cup M(delivered') : e # 0 => e \in Known
    BY <1>3, <1>4 DEF Known
  <2> QED
    BY <1>1, <1>3, <1>4, <1>5, <2>1, <2>2, <2>3, FillKeeps
<1>7. FlowTyped'
  BY <1>1, <1>2, <1>4, <1>5, <1>6 DEF FlowTyped, Accounted
<1>8. InOneOrder'
  <2>1. \A e \in M(delivered), f \in M(s) : e # 0 => e < f
    BY <1>2, <1>3, <1>5 DEF InOneOrder, Before, M
  <2> QED
    BY <1>1, <1>2, <1>4, <1>6, <2>1 DEF InOneOrder, Before, M
<1>9. PhaseTells'
  BY <1>1, <1>2 DEF PhaseTells
<1> QED
  BY <1>6, <1>7, <1>8, <1>9 DEF FlowInv, Accounted

LEMMA EmitKeeps == ASSUME FlowInv, Flow!emit PROVE FlowInv' /\ NewestStay
<1> DEFINE s == Append(events, emitted + 1)
<1>1. /\ emitted < MaxEvents /\ emitted' = emitted + 1 /\ Flow!Fill(s)
      /\ UNCHANGED <<token, phase, sending, alive, wire, isAgent, delivered, losses>>
  BY DEF Flow!emit
<1>2. FlowTyped /\ InOneOrder /\ PhaseTells
  BY DEF FlowInv
<1>3. /\ emitted \in Nat /\ emitted' \in 0 .. MaxEvents
      /\ M(sending') = M(sending) /\ M(wire') = M(wire) /\ M(delivered') = M(delivered)
  BY <1>1, <1>2, FlowAssumption DEF FlowTyped, M, Flow!FlowBounds
<1>4. \A e \in Known : e \in Nat /\ e < emitted + 1 /\ e <= emitted
  BY <1>2, <1>3 DEF FlowTyped, Known
<1>5. s \in Seq(Nat) /\ M(s) = M(events) \cup {emitted + 1} /\ Ordered(s)
  <2>1. \A e \in Flow!Messages(events) : e # 0 /\ emitted + 1 # 0 => e < emitted + 1
    BY <1>4 DEF Known, M
  <2> QED
    BY <1>2, <1>3, <2>1, AppendMessages DEF FlowTyped, InOneOrder, M
<1> HIDE DEF s
<1>6. \A e \in M(s) : e \in 1 .. emitted' /\ e # 0 /\ (e \in Known \/ e > emitted)
  BY <1>1, <1>2, <1>3, <1>5 DEF FlowTyped, Known
<1>7. \A e \in M(s) : e \notin M(sending) /\ e \notin M(wire) /\ e \notin M(delivered)
  <2>1. \A e \in M(events) : e # 0 /\ e \in Nat
    BY <1>2, <1>3 DEF FlowTyped
  <2>2. \A e \in M(events) : e \notin M(sending) /\ e \notin M(wire) /\ e \notin M(delivered)
    BY <1>2, <2>1 DEF InOneOrder, Before, M
  <2>3. emitted + 1 \notin Known
    BY <1>3, <1>4
  <2> QED
    BY <1>5, <2>2, <2>3 DEF Known
<1>8. /\ Accounted
      /\ events' \in Seq(Nat) /\ Len(events') <= maxQueueSize /\ Ordered(events') /\ M(events') \subseteq M(s)
  <2>1. 0 \notin M(s) /\ emitted' \in Nat /\ emitted <= emitted'
    BY <1>1, <1>3, <1>6
  <2>2. \A e \in emitted + 1 .. emitted' : e \in M(s)
    BY <1>1, <1>3, <1>5
  <2>3. /\ \A e \in Known \ {0} : e \in M(s) \/ e \in M(sending') \cup M(wire') \cup M(delivered')
        /\ \A e \in M(sending') \cup M(wire') \cup M(delivered') : e # 0 => e \in Known
    BY <1>3, <1>5 DEF Known
  <2> QED
    BY <1>1, <1>3, <1>5, <1>6, <1>7, <2>1, <2>2, <2>3, FillKeeps
<1>9. FlowTyped'
  <2>1. 1 .. emitted \subseteq 1 .. emitted' /\ 0 .. emitted \subseteq 0 .. emitted'
    BY <1>1, <1>3
  <2> QED
    BY <1>1, <1>2, <1>3, <1>6, <1>8, <2>1 DEF FlowTyped, Accounted
<1>10. InOneOrder'
  <2>1. ASSUME NEW e \in M(delivered) \cup M(wire) \cup M(sending), NEW f \in M(s), e # 0 PROVE e < f
    <3>1. CASE f \in M(events)
      <4>1. f # 0
        BY <1>6
      <4> QED
        BY <1>2, <2>1, <3>1, <4>1 DEF InOneOrder, Before, M
    <3>2. CASE f = emitted + 1
      BY <1>4, <3>2 DEF Known
    <3> QED
      BY <1>5, <3>1, <3>2
  <2> QED
    BY <1>1, <1>2, <1>3, <1>8, <2>1 DEF InOneOrder, Before, M
<1>11. PhaseTells'
  BY <1>1, <1>2 DEF PhaseTells
<1> QED
  BY <1>8, <1>9, <1>10, <1>11 DEF FlowInv, Accounted

LEMMA ReadKeeps == ASSUME FlowInv, Flow!Read PROVE FlowInv' /\ NewestStay
<1> DEFINE h == Head(wire)
<1>1. /\ wire # <<>> /\ wire' = Tail(wire) /\ isAgent' = (isAgent \/ h = 0)
      /\ UNCHANGED <<token, emitted, events, phase, sending, alive, losses>>
  BY DEF Flow!Read, Flow!Status
<1>2. FlowTyped /\ InOneOrder /\ PhaseTells
  BY DEF FlowInv
<1>3. /\ wire' \in Seq(Nat) /\ h \in Nat /\ M(wire) = {h} \cup M(wire') /\ Ordered(wire')
      /\ \A e \in M(wire') : h # 0 /\ e # 0 => h < e
  BY <1>1, <1>2, TailMessages DEF FlowTyped, InOneOrder, M
<1>4. /\ M(events') = M(events) /\ M(sending') = M(sending) /\ emitted' = emitted /\ emitted \in Nat
      /\ h \in 0 .. emitted
  BY <1>1, <1>2, <1>3, FlowAssumption DEF FlowTyped, M, Flow!FlowBounds
<1>5. isAgent' \in BOOLEAN
  BY <1>1, <1>2 DEF FlowTyped
<1>6. PhaseTells'
  BY <1>1, <1>2 DEF PhaseTells
<1>7. \/ h = 0 /\ UNCHANGED <<delivered, gone>>
      \/ h # 0 /\ isAgent /\ delivered' = Append(delivered, h) /\ UNCHANGED gone
      \/ h # 0 /\ ~isAgent /\ UNCHANGED delivered /\ gone' = gone \cup {<<e, "ignored">> : e \in {h} \ {0}}
  BY DEF Flow!Read, Flow!Status, Flow!Lose
<1> HIDE DEF h
<1>8. CASE h = 0 /\ UNCHANGED <<delivered, gone>>
  <2>1. M(delivered') = M(delivered)
    BY <1>8 DEF M
  <2>2. Accounted
    <3>1. (\A e \in Known \ {0} : e \in Known') /\ (\A e \in Known' \ {0} : e \in Known)
      BY <1>3, <1>4, <1>8, <2>1 DEF Known
    <3> QED
      BY <1>1, <1>8, <3>1, NoLossStep
  <2>3. FlowTyped'
    BY <1>1, <1>2, <1>3, <1>4, <1>5, <1>8, <2>2 DEF FlowTyped, Accounted
  <2>4. InOneOrder'
    BY <1>1, <1>2, <1>3, <1>4, <1>8 DEF InOneOrder, Before, M
  <2> QED
    BY <1>6, <2>2, <2>3, <2>4 DEF FlowInv, Accounted
<1>9. CASE h # 0 /\ isAgent /\ delivered' = Append(delivered, h) /\ UNCHANGED gone
  <2>1. \A e \in Flow!Messages(delivered) : e # 0 /\ h # 0 => e < h
    BY <1>2, <1>3 DEF InOneOrder, Before, M
  <2>2. delivered' \in Seq(Nat) /\ M(delivered') = M(delivered) \cup {h} /\ Ordered(delivered')
    BY <1>2, <1>3, <1>9, <2>1, AppendMessages DEF FlowTyped, InOneOrder, M
  <2>3. Accounted
    <3>1. (\A e \in Known \ {0} : e \in Known') /\ (\A e \in Known' \ {0} : e \in Known)
      BY <1>3, <1>4, <2>2 DEF Known
    <3> QED
      BY <1>1, <1>9, <3>1, NoLossStep
  <2>4. FlowTyped'
    BY <1>1, <1>2, <1>3, <1>4, <1>5, <1>9, <2>2, <2>3 DEF FlowTyped, Accounted
  <2>5. InOneOrder'
    BY <1>1, <1>2, <1>3, <1>4, <1>9, <2>2 DEF InOneOrder, Before, M
  <2> QED
    BY <1>6, <2>3, <2>4, <2>5 DEF FlowInv, Accounted
<1>10. CASE h # 0 /\ ~isAgent /\ UNCHANGED delivered /\ gone' = gone \cup {<<e, "ignored">> : e \in {h} \ {0}}
  <2>1. M(delivered') = M(delivered)
    BY <1>10 DEF M
  <2>2. h \notin M(delivered) /\ h \notin M(sending) /\ h \notin M(events) /\ h \notin M(wire')
    <3>1. h \in M(wire) /\ ~(h < h)
      BY <1>3
    <3>2. h \notin M(delivered) /\ h \notin M(sending) /\ h \notin M(events)
      BY <1>2, <1>10, <3>1 DEF InOneOrder, Before, M
    <3> QED
      BY <1>3, <1>10, <3>1, <3>2
  <2>3. ~token
    BY <1>1, <1>2, <1>10 DEF PhaseTells
  <2>4. Accounted
    <3>1. \A e \in {h} \ {0} : e \in 1 .. emitted' /\ e \notin Known' /\ e \in Known
      BY <1>3, <1>4, <1>10, <2>1, <2>2 DEF Known
    <3>2. (\A e \in Known \ {0} : e \in Known' \/ e \in {h}) /\ (\A e \in Known' \ {0} : e \in Known)
      BY <1>3, <1>4, <2>1 DEF Known
    <3>3. emitted + 1 .. emitted' = {} /\ "ignored" \in Flow!Reason
      BY <1>4 DEF Flow!Reason
    <3>4. Loses({h}, "ignored")
      BY <1>1, <1>4, <1>10, <2>3, <3>1, <3>2, <3>3 DEF Loses
    <3> QED
      BY <3>4, LossStep
  <2>5. FlowTyped'
    BY <1>1, <1>2, <1>3, <1>4, <1>5, <1>10, <2>4 DEF FlowTyped, Accounted
  <2>6. InOneOrder'
    BY <1>1, <1>2, <1>3, <1>4, <1>10 DEF InOneOrder, Before, M
  <2> QED
    BY <1>6, <2>4, <2>5, <2>6 DEF FlowInv, Accounted
<1> QED
  BY <1>7, <1>8, <1>9, <1>10

LEMMA FlowStep == ASSUME FlowInv, [Flow!Next]_(Flow!vars) PROVE FlowInv' /\ (NewestStay \/ UNCHANGED Flow!vars)
<1>1. CASE UNCHANGED Flow!vars
  BY <1>1 DEF Flow!vars, FlowInv, FlowTyped, InOneOrder, PhaseTells, Before, M, Flow!EveryEventIsAccountedFor, Flow!InFlight
<1>2. CASE Flow!Next
  BY <1>2, EmitKeeps, ConfigureKeeps, StopKeeps, BreakKeeps, DialKeeps, DrainKeeps, WriteKeeps, WriteFailsKeeps,
     SendStatusKeeps, ReadKeeps DEF Flow!Next, Flow!Agent
<1> QED
  BY <1>1, <1>2

THEOREM FlowInvariance == Flow!Spec => []FlowInv
<1>1. FlowInv /\ [Flow!Next]_(Flow!vars) => FlowInv'
  BY FlowStep
<1> QED
  BY <1>1, FlowInit, PTL DEF Flow!Spec

LEMMA FlowInOrder == FlowInv => Flow!InOrder
<1> SUFFICES ASSUME FlowInv, NEW i \in DOMAIN delivered, NEW j \in DOMAIN delivered, i < j
             PROVE  delivered[i] < delivered[j]
  BY DEF Flow!InOrder
<1>1. Ordered(delivered) /\ delivered \in Seq(Nat) /\ M(delivered) \subseteq 1 .. emitted /\ emitted \in Nat
  BY FlowAssumption DEF FlowInv, InOneOrder, FlowTyped, Flow!FlowBounds
<1>2. delivered[i] # 0 /\ delivered[j] # 0
  <2>1. delivered[i] \in M(delivered) /\ delivered[j] \in M(delivered)
    BY DEF M, Flow!Messages
  <2> QED
    BY <1>1, <2>1
<1> QED
  BY <1>1, <1>2 DEF Ordered

(* For any number of events and any queue: the dashboard receives them in   *)
(* the order they were emitted and none twice, each is under way, delivered *)
(* or lost for a known reason, and a full queue drops the oldest            *)
(* (src/plugins/Kizuna-Security/plugin/monitor.go:854-919,                  *)
(* src/cmd/agent/main.go:748-790).                                          *)
THEOREM QueueTheorem == Flow!Spec => QueueIsFaithful
<1>1. FlowInv => Flow!EveryEventIsAccountedFor
  BY DEF FlowInv
<1>2. ASSUME FlowInv, [Flow!Next]_(Flow!vars)
      PROVE  [\A e \in {g[1] : g \in gone' \ gone} :
                <<e, "overflow">> \in gone' => \A f \in Flow!Messages(events') : f > e]_(Flow!vars)
  BY <1>2, FlowStep DEF NewestStay, M
<1> QED
  BY <1>1, <1>2, FlowInOrder, FlowInvariance, PTL
     DEF QueueIsFaithful, Flow!QueueIsFaithful, Flow!OverflowKeepsTheNewest, Flow!Spec

-----------------------------------------------------------------------------
(* For any sizes: the commands, the events and the watched tree keep their  *)
(* types (src/cmd/agent/main.go:560-800, src/cmd/dashboard/main.go,         *)
(* suid_watch.go, fim_watch.go, monitor.go).                                *)
THEOREM TypesTheorem == Spec /\ Flow!Spec /\ Watch!Spec => []Types
<1>1. WatchInv => Watch!TypeOK
  BY DEF WatchInv
<1> QED
  BY <1>1, FlowTypes, FlowInvariance, WatchInvariance, TypeCorrect, PTL DEF Types
===============================================================================
