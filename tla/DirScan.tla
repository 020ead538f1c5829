------------------------------- MODULE DirScan -------------------------------
(***************************************************************************)
(* What a scan of the directory watch makes of the files it looks at       *)
(* (src/plugins/Kizuna-Security/plugin/fim_watch.go: scanLocked,           *)
(* diffLocked): files of several kinds, some unreadable, a limit on the    *)
(* files of a scan and one on the events it reports.  A full scan walks    *)
(* the tree in order; a path scan looks at the paths inotify named, in any *)
(* order.  Paths are numbers in the order of the walk.                     *)
(***************************************************************************)
EXTENDS Integers, FiniteSets

CONSTANTS
  N,               \* paths are 1 .. N
  Deep,            \* those whose directory is below the depth limit
  maxFiles, fimDirEventCap,
  None

VARIABLES
  file,         \* what is at each path: None, an entry, or "locked": there and not readable
  baseline, initialized,
  degraded, depthWarned,
  events,       \* of the last scan: pairs of what and a path, 0 for the root
  detail,       \* paths that only went to the log
  \* Kept apart from the scanner's own state:
  last,         \* the last scan: its kind, the paths it was about, whether it was capped
  base,         \* the baseline before it
  broken        \* some scan was capped or met an unreadable file since the baseline was taken

vars == <<file, baseline, initialized, degraded, depthWarned, events, detail, last, base, broken>>

Place == 1 .. N
Entry == {"a", "b", "large"}

ScanBounds ==
  /\ {maxFiles, fimDirEventCap} \subseteq Nat \ {0} /\ N \in Nat /\ Deep \subseteq 1 .. N
  /\ None \notin Entry \cup {"locked"}

What == {"create", "change", "delete", "transient", "deep", "degraded", "many"}
None0 == [p \in Place |-> None]

Nothing == [kind |-> "none", paths |-> {}, capped |-> FALSE]

TypeOK ==
  /\ file \in [Place -> Entry \cup {None, "locked"}]
  /\ baseline \in [Place -> Entry \cup {None}] /\ base \in [Place -> Entry \cup {None}]
  /\ initialized \in BOOLEAN /\ degraded \in BOOLEAN /\ broken \in BOOLEAN
  /\ depthWarned \subseteq Deep
  /\ events \subseteq What \X (0 .. N) /\ detail \subseteq Place
  /\ last \in [kind : {"none", "full", "paths"}, paths : SUBSET Place, capped : BOOLEAN]

Init ==
  /\ file = None0
  /\ baseline = None0 /\ base = None0 /\ initialized = FALSE
  /\ degraded = FALSE /\ depthWarned = {}
  /\ events = {} /\ detail = {}
  /\ last = Nothing /\ broken = FALSE

\* The host changes one file; what the last scan said is no longer of interest.
Change(p) ==
  /\ p \notin Deep
  /\ file' \in {[file EXCEPT ![p] = c] : c \in (Entry \cup {None, "locked"}) \ {file[p]}}
  /\ events' = {} /\ detail' = {} /\ base' = None0 /\ last' = Nothing
  /\ UNCHANGED <<baseline, initialized, degraded, depthWarned, broken>>

Shallow == Place \ Deep
Recorded(S) == {p \in S : file[p] \in Entry}
Having(S, what) == {p \in S : file[p] = what}

\* hashInto: a walk records the first maxFiles files ...
Walked == {p \in Recorded(Shallow) : Cardinality({q \in Recorded(Shallow) : q < p}) < maxFiles}

\* ... and stops at the next thing it meets.
WalkIsCapped ==
  /\ Cardinality(Walked) = maxFiles
  /\ \E p \in Shallow : file[p] # None /\ \A q \in Walked : q < p

\* A path scan records as many, in any order.
Picked(R) ==
  {S \in SUBSET Recorded(R) :
     Cardinality(S) <= maxFiles /\ (S = Recorded(R) \/ Cardinality(S) = maxFiles)}

\* Which events fit: the rest is summed up, and goes to the log by path.
Report(E, more) ==
  \E shown \in SUBSET E :
    /\ Cardinality(shown) = IF Cardinality(E) > fimDirEventCap THEN fimDirEventCap ELSE Cardinality(E)
    /\ events' = shown \cup more \cup (IF shown = E THEN {} ELSE {<<"many", 0>>})
    /\ detail' = {e[2] : e \in E \ shown}

Created(S) == {p \in S : baseline[p] = None}
Changed(S) == {p \in S : baseline[p] # None /\ baseline[p] # file[p]}
Each(what, S) == {<<what, p>> : p \in S}

Noted(k, R, capped) ==
  /\ last' = [kind |-> k, paths |-> R, capped |-> capped]
  /\ base' = baseline
  /\ broken' = (capped \/ Having(R, "locked") # {} \/ (broken /\ k # "full"))

\* Mutant: what a full scan missed stays in the baseline.
Merged(S) == [p \in Place |-> IF p \in S THEN file[p] ELSE baseline[p]]

\* A full scan replaces the baseline.
Renewed(S) == [p \in Place |-> IF p \in S THEN file[p] ELSE None]

\* The first scan is full and reports nothing.
FirstScan ==
  /\ ~initialized /\ initialized' = TRUE
  /\ baseline' = Renewed(Walked)
  /\ Noted("none", {}, WalkIsCapped)
  /\ events' = {} /\ detail' = {}
  /\ UNCHANGED <<file, degraded, depthWarned>>

\* Mutant: a capped scan reports what it did not see.
DeletedAnyway(S, capped) == {p \in Place : baseline[p] # None} \ S

\* Deletions are only judged by a walk that was not capped.
Deleted(S, capped) == IF capped THEN {} ELSE {p \in Place : baseline[p] # None} \ S

\* Check, and what an overflow asks for.
FullScan ==
  /\ initialized
  /\ LET S == Walked
         bad == WalkIsCapped \/ Having(Shallow, "large") # {} \/ Having(Shallow, "locked") # {}
     IN /\ Report(Each("create", Created(S)) \cup Each("change", Changed(S))
                      \cup Each("delete", Deleted(S, WalkIsCapped)),
                    IF bad # degraded THEN {<<"degraded", 0>>} ELSE {})
        /\ degraded' = bad
        /\ baseline' = Renewed(S)
  /\ Noted("full", Shallow, WalkIsCapped)
  /\ UNCHANGED <<file, initialized, depthWarned>>

\* Mutant: a path that is gone stays in the baseline.
StillKnown(S, gone) == [p \in Place |-> IF p \in S THEN file[p] ELSE baseline[p]]

\* A path scan replaces what it looked at.
Updated(S, gone) ==
  [p \in Place |-> IF p \in S THEN file[p] ELSE IF p \in gone THEN None ELSE baseline[p]]

\* The paths named and not recorded count as gone.
PathScan(R) ==
  /\ initialized /\ R # {}
  /\ \E S \in Picked(R \ Deep) :
       LET gone == (R \ Deep) \ S
           had == {p \in gone : baseline[p] # None}
       IN /\ Report(Each("deep", (R \cap Deep) \ depthWarned)
                        \cup Each("create", Created(S)) \cup Each("change", Changed(S))
                        \cup Each("delete", had) \cup Each("transient", gone \ had), {})
          /\ baseline' = Updated(S, gone)
          /\ Noted("paths", R \ Deep, S # Recorded(R \ Deep))
  /\ depthWarned' = depthWarned \cup (R \cap Deep)
  /\ UNCHANGED <<file, initialized, degraded>>

Next ==
  \/ \E p \in Place : Change(p)
  \/ FirstScan \/ FullScan \/ \E R \in SUBSET Place : PathScan(R)

Spec == Init /\ [][Next]_vars

-----------------------------------------------------------------------------
About(p) == {e[1] : e \in {x \in events : x[2] = p}}

(* A scan leaves nothing out: of the files it looked at, each one that     *)
(* differs from the baseline is reported or at least logged, and stands in *)
(* the baseline as it is; unless the limit on files cut the scan short     *)
(* (fim_watch.go:540-665).                                                 *)
NothingIsLeftOut ==
  last.kind # "none" /\ ~last.capped =>
    \A p \in last.paths :
      LET now == IF file[p] = "locked" THEN None ELSE file[p]
      IN /\ base[p] # now => About(p) # {} \/ p \in detail
         /\ baseline[p] = now

(* A file is reported as gone only if it cannot be read; or if a path scan *)
(* was capped, which the full scan takes care of and the path scan does    *)
(* not (fim_watch.go:601-636).                                             *)
GoneIsGone ==
  last.kind # "none" =>
    \A p \in Place : About(p) \cap {"delete", "transient"} # {} =>
      file[p] \in {None, "locked"} \/ (last.kind = "paths" /\ last.capped)

(* After a complete scan that could read everything, a scan says nothing   *)
(* until something changes: the new baseline is what the scan saw          *)
(* (fim_watch.go:540-665).                                                 *)
QuietWhenUnchanged ==
  last.kind = "full" /\ ~broken /\ last'.kind = "full" => events' = {} /\ detail' = {}

(* What a scan tells is complete, true and new.                            *)
ScanIsHonest == [][NothingIsLeftOut' /\ GoneIsGone' /\ QuietWhenUnchanged]_vars
=============================================================================
