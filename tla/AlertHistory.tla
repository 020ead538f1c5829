---------------------------- MODULE AlertHistory ----------------------------
(***************************************************************************)
(* The alert history (src/pkg/alert/history.go): a bounded list of alerts  *)
(* that trims itself in three stages, with an append-only file behind it   *)
(* that is compacted, archived on Clear and read back on start.            *)
(*                                                                         *)
(* An entry carries its arrival number, which stands for its place in the  *)
(* list and in the file and for its timestamp; so both are sets here.      *)
(***************************************************************************)
EXTENDS Naturals, FiniteSets

CONSTANTS
  Kind,        \* [key, type, weight, trusted]: the alerts there are
  Setup,       \* [max, disk, kinds, arrivals]: the installations to look at
  MaxLines     \* maxPersistBytes, in lines

HistoryAssumption ==
  /\ \A k \in Kind : DOMAIN k = {"key", "type", "weight", "trusted"}
  /\ \A k \in Kind : k.weight \in 1 .. 3 /\ k.trusted \in BOOLEAN
  /\ MaxLines \in Nat \ {0}
  /\ \A s \in Setup : /\ s.max \in Nat \ {0} /\ s.arrivals \in Nat
                       /\ s.disk \in {"none", "sound", "failing"} /\ s.kinds \subseteq Kind

VARIABLES
  setup,    \* chosen once
  entries,  \* h.entries
  file,     \* the lines of the file that parse
  torn,     \* the file ends in a line without its newline
  arrived,  \* alerts added so far
  cleared,  \* arrivals before the last Clear that reported success
  cut,      \* writes that failed half way
  merged    \* lines written in full but glued to a torn one

vars == <<setup, entries, file, torn, arrived, cleared, cut, merged>>

Max == setup.max                \* h.max
Disk == setup.disk              \* "none" without persistence, else "sound" or "failing"
MaxArrivals == setup.arrivals   \* bound on the alerts added in a run

Entry == [kind : Kind, at : 1 .. MaxArrivals]

TypeOK ==
  /\ setup \in Setup
  /\ entries \subseteq Entry /\ file \subseteq Entry
  /\ \A e, f \in entries \cup file : e.at = f.at => e = f
  /\ Cardinality(entries) <= Max
  /\ torn \in BOOLEAN
  /\ arrived \in 0 .. MaxArrivals /\ cleared \in 0 .. arrived
  /\ cut \in 0 .. MaxArrivals /\ merged \in 0 .. MaxArrivals

-----------------------------------------------------------------------------
Newer(E, e) == {f \in E : f.at > e.at}

\* Stage 1: collapse repeats to the newest instance.
NewestOfKey(E) == {e \in E : \A f \in Newer(E, e) : f.kind.key # e.kind.key}

Cap == IF Max \div 2 < 2 THEN 2 ELSE Max \div 2

OfType(E, t) == {e \in E : e.kind.type = t}

\* Mutant: no type is capped.
NoCap(E) == E

\* Stage 2: no type keeps more than half of the history, unless it is alone.
CapTypes(E) ==
  IF Max >= 4 /\ Cardinality({e.kind.type : e \in E}) > 1
  THEN {e \in E : Cardinality(Newer(OfType(E, e.kind.type), e)) < Cap}
  ELSE E

\* Mutant: the level counts before the trust.
WeightFirst(e, f) ==
  \/ e.kind.weight < f.kind.weight
  \/ e.kind.weight = f.kind.weight /\ ~e.kind.trusted /\ f.kind.trusted
  \/ e.kind.weight = f.kind.weight /\ e.kind.trusted = f.kind.trusted /\ e.at < f.at

\* e goes before f: untrusted, then low level, then old entries.
GoesBefore(e, f) ==
  \/ ~e.kind.trusted /\ f.kind.trusted
  \/ e.kind.trusted = f.kind.trusted /\ e.kind.weight < f.kind.weight
  \/ e.kind.trusted = f.kind.trusted /\ e.kind.weight = f.kind.weight /\ e.at < f.at

\* Mutant: one entry too many survives.
EvictOneLess(E) == {e \in E : Cardinality({f \in E : GoesBefore(f, e)}) + 1 >= Cardinality(E) - Max}

\* Stage 3: the rest goes by importance.
Evict(E) == {e \in E : Cardinality({f \in E : GoesBefore(f, e)}) >= Cardinality(E) - Max}

Fits(E) == Cardinality(E) <= Max

trim(E) ==
  LET distinct == NewestOfKey(E)
      capped == CapTypes(distinct)
  IN  IF Fits(E) THEN E
      ELSE IF Fits(distinct) THEN distinct
      ELSE IF Fits(capped) THEN capped
      ELSE Evict(capped)

-----------------------------------------------------------------------------
Init ==
  /\ setup \in Setup
  /\ entries = {} /\ file = {} /\ torn = FALSE
  /\ arrived = 0 /\ cleared = 0 /\ cut = 0 /\ merged = 0

\* The file as the append of e leaves it: complete, refused, or cut short.
Written(e) ==
  /\ cut' = cut /\ torn' = FALSE
  /\ IF torn
     THEN file' = file /\ merged' = merged + 1
     ELSE file' = file \cup {e} /\ merged' = merged

Untouched == UNCHANGED <<file, torn, cut, merged>>
CutShort == file' = file /\ torn' = TRUE /\ cut' = cut + 1 /\ merged' = merged

\* Mutant: the newline is forgotten.
NoNewline(e) ==
  /\ cut' = cut /\ torn' = TRUE
  /\ IF torn
     THEN file' = file /\ merged' = merged + 1
     ELSE file' = file \cup {e} /\ merged' = merged

Append(e) == Written(e)

\* compactLocked in place of an ordinary append.
Compact(kept) == file' = kept /\ torn' = FALSE /\ UNCHANGED <<cut, merged>>

\* AddSourcedDetail: remember, trim, append to the file, compact a large file.
Add(k) ==
  LET e == [kind |-> k, at |-> arrived + 1]
      kept == trim(entries \cup {e})
  IN  /\ arrived < MaxArrivals /\ k \in setup.kinds
      /\ arrived' = arrived + 1
      /\ entries' = kept
      /\ \/ Disk = "none" /\ Untouched
         \/ Disk # "none" /\ Cardinality(file) >= MaxLines /\ Compact(kept)
         \/ Disk = "sound" /\ Cardinality(file) < MaxLines /\ Append(e)
         \/ Disk = "failing" /\ (Append(e) \/ Untouched \/ CutShort)
      /\ UNCHANGED <<setup, cleared>>

\* Clear archives the file, or empties it when it cannot be renamed.
ClearFile == file' = {} /\ torn' = FALSE

\* Mutant: a file that can be neither renamed nor emptied counts as cleared.
ReportedClear == cleared' = arrived

\* What Clear reports when the file could not be cleared: an error.
FailedClear == UNCHANGED cleared

Clear ==
  /\ entries' = {}
  /\ \/ ClearFile /\ cleared' = arrived
     \/ Disk = "failing" /\ UNCHANGED <<file, torn>> /\ FailedClear
  /\ UNCHANGED <<setup, arrived, cut, merged>>

\* The process ends and starts again: Load trims and compacts what it reads.
Load ==
  /\ Disk # "none"
  /\ \/ /\ entries' = trim(file)
        /\ \/ ~Fits(file) /\ Compact(entries')
           \/ (Fits(file) \/ Disk = "failing") /\ Untouched
     \/ Disk = "failing" /\ entries' = {} /\ Untouched
  /\ UNCHANGED <<setup, arrived, cleared>>

Next == (\E k \in Kind : Add(k)) \/ Clear \/ Load

Spec == Init /\ [][Next]_vars

-----------------------------------------------------------------------------
\* The entries a step adding to the history starts from.
Candidates == entries \cup entries'
Adding == arrived' = arrived + 1
Added == {e \in entries' : e.at = arrived'}
Repeated(e) == \E f \in Newer(Candidates, e) : f.kind.key = e.kind.key
Evicted(e) == e \in entries /\ e \notin entries' /\ ~Repeated(e)
WithinCap(e) == Cardinality(OfType(Candidates, e.kind.type)) <= Cap

(* A burst of one type, however varied, takes its room from itself: when a  *)
(* type that holds more than half of the history gets one more alert, no    *)
(* alert of a type within its share goes.                                   *)
FloodEvictsItsOwn ==
  [][Adding => \A a \in Added : Cardinality(OfType(Candidates, a.kind.type)) > Cap =>
       \A e \in entries : Evicted(e) => e.kind.type = a.kind.type \/ ~WithinCap(e)]_vars

(* Trust decides before level and age: a trusted alert of a type within its *)
(* share is not evicted by a new alert while an untrusted one is kept.      *)
TrustDecides ==
  [][Adding => \A e \in entries :
       (Evicted(e) /\ e.kind.trusted /\ WithinCap(e)) => \A f \in entries' : f.kind.trusted]_vars

(* What a full history gives up first: what repeats, then what floods, then *)
(* what is not trusted (history.go:250-358).                                *)
EvictionIsFair == FloodEvictsItsOwn /\ TrustDecides

(* Alerts cleared with success never come back, through any restart, failed *)
(* write or compaction.                                                     *)
ClearedStaysCleared == \A e \in entries \cup file : e.at > cleared

(* A write that failed half way costs at most one other alert of the file.  *)
LossIsBounded == merged <= cut

(* What the file brings back is what it was given, but for what a failed    *)
(* write spoiled (history.go:142-201, 361-471).                             *)
FileIsFaithful == ClearedStaysCleared /\ LossIsBounded

(* history.go:30 "Untrusted alerts are evicted first when the history is    *)
(* full, so a flood of forged alerts cannot push genuine ones out."         *)
GenuineStay ==
  [][Adding => \A a \in Added : ~a.kind.trusted => \A e \in entries : Evicted(e) => ~e.kind.trusted]_vars
=============================================================================
