---------------------------- MODULE MonitorsProofs ----------------------------
(* Proofs about the monitors of the security plugin.                        *)
EXTENDS Monitors, Integers, FiniteSetTheorems, WellFoundedInduction, TLAPS

\* Baselines.

\* What a monitor warns of no more it has told; so has the file it saved.
WarningsAreTold == warned \subseteq notified /\ unreadable \subseteq notified

\* Where a check can be, and what it knows then.
PhaseOfCheck ==
  /\ phase # "saved" \/ kind = "fim" => pending = {}
  /\ phase # "idle" => loaded
  /\ phase \in {"told", "saved"} => hasBaseline
  /\ loaded \/ kind \in {"suid", "port"}

\* fim and cron watch what they have a value of.
ValuesAreWatched ==
  kind \in {"fim", "cron"} =>
    /\ \A p \in Path : baseline[p] # None => p \in watched
    /\ disk # None => \A p \in Path : disk.baseline[p] # None => p \in disk.watched
    /\ late # None => \A p \in Path : late.baseline[p] # None => p \in late.watched

\* The pairs that may be taken for normal.
FairPairs ==
  {e \in Base!Pair :
     \/ e \in announced \cup pending
     \/ e[2] = None /\ kind \notin {"fim", "cron"}
     \/ <<e, "replaced">> \in unsaid
     \/ kind # "fim" /\ <<e, "restart">> \in unsaid
     \/ kind = "cron" /\ e[1] \notin inDir /\ <<e, "adopted">> \in unsaid}

\* A monitor that began without a file takes what it finds, even if there is a file by then.
Absorbed ==
  /\ hasBaseline => \A p \in Path : <<p, baseline[p]>> \in FairPairs
  /\ disk # None => \A p \in Path : <<p, disk.baseline[p]>> \in FairPairs
  /\ loaded /\ ~hasBaseline /\ disk # None => Base!Pair \subseteq FairPairs

BaseInv == Base!TypeOK /\ WarningsAreTold /\ PhaseOfCheck /\ ValuesAreWatched /\ Absorbed

LEMMA AbsorbedMeans == Base!TypeOK /\ Absorbed => NothingIsAbsorbed
<1> SUFFICES ASSUME Base!TypeOK, Absorbed PROVE NothingIsAbsorbed
  OBVIOUS
<1>1. ASSUME NEW p \in Path, NEW c, <<p, c>> \in FairPairs
      PROVE  \/ <<p, c>> \in announced \cup pending
             \/ c = None /\ ~Base!TellsDeletions
             \/ \E why \in IF kind = "fim" THEN {"replaced"} ELSE {"restart", "replaced"} :
                  <<<<p, c>>, why>> \in unsaid
             \/ kind = "cron" /\ p \notin inDir /\ <<<<p, c>>, "adopted">> \in unsaid
  <2>1. <<p, c>>[1] = p /\ <<p, c>>[2] = c
    OBVIOUS
  <2> QED
    BY <1>1, <2>1 DEF FairPairs, Base!TellsDeletions
<1> QED
  BY <1>1 DEF NothingIsAbsorbed, Base!NothingIsAbsorbed, Absorbed

\* Nothing that was told is forgotten.
LEMMA FairGrows ==
  ASSUME Base!TypeOK, PhaseOfCheck, UNCHANGED <<kind, inDir>>, unsaid \subseteq unsaid', announced \subseteq announced',
         \A e \in pending : e \in announced' \cup pending' \/ <<e, "replaced">> \in unsaid'
                              \/ <<e, "restart">> \in unsaid'
  PROVE  FairPairs \subseteq FairPairs'
<1> SUFFICES ASSUME NEW e \in FairPairs PROVE e \in FairPairs'
  OBVIOUS
<1>1. e \in Base!Pair /\ Base!Pair' = Base!Pair
  BY DEF FairPairs, Base!Pair, Base!Held
<1>2. CASE e \in pending
  <2>1. kind # "fim"
    BY <1>2 DEF PhaseOfCheck
  <2> QED
    BY <1>1, <1>2, <2>1 DEF FairPairs
<1>3. CASE e \notin pending
  BY <1>1, <1>3 DEF FairPairs
<1> QED
  BY <1>2, <1>3

LEMMA BaseInit == Base!Init => BaseInv
<1> SUFFICES ASSUME Base!Init PROVE BaseInv
  OBVIOUS
<1>1. Base!Possible \subseteq Base!Held /\ MaxFaults \in Nat
  BY BaselineAssumption DEF Base!Possible, Base!Held, Base!BaselineBounds
<1>2. kind \in Base!Kind /\ inDir \subseteq Path /\ paths \subseteq Path
  BY DEF Base!Init
<1>3. content \in [Path -> Base!Held]
  BY <1>1 DEF Base!Init
<1>4. Base!TypeOK
  <2>1. Base!Nothing \in [Path -> Base!Held] /\ Base!Nothing \in [Path -> Base!Held \cup {Unread}]
    BY DEF Base!Nothing, Base!Held
  <2>2. /\ blind = {} /\ phase = "idle" /\ seen = Base!Nothing /\ baseline = Base!Nothing
        /\ loaded \in BOOLEAN /\ hasBaseline = FALSE /\ watched = {} /\ unreadable = {} /\ warned = {}
        /\ disk = None /\ pending = {} /\ late = None /\ faults = 0 /\ announced = {} /\ unsaid = {}
    BY DEF Base!Init, Base!Lazy
  <2>3. seen \in [Path -> Base!Held \cup {Unread}] /\ baseline \in [Path -> Base!Held] /\ faults \in 0 .. MaxFaults
    BY <1>1, <2>1, <2>2
  <2>4. /\ phase \in {"idle", "scanned", "told", "saved"} /\ blind \subseteq Path
        /\ watched \subseteq Path /\ unreadable \subseteq Path /\ warned \subseteq Path
    BY <2>2
  <2>5. /\ disk \in Base!Saved \cup {None} /\ late \in Base!Saved \cup {None}
        /\ pending \subseteq Base!Pair /\ announced \subseteq Base!Pair
        /\ unsaid \subseteq Base!Pair \X {"restart", "replaced", "adopted"}
    BY <2>2
  <2> QED
    BY <1>2, <1>3, <2>2, <2>3, <2>4, <2>5 DEF Base!TypeOK
<1>5. WarningsAreTold /\ PhaseOfCheck /\ ValuesAreWatched /\ Absorbed
  BY DEF Base!Init, Base!Nothing, Base!Lazy, WarningsAreTold, PhaseOfCheck, ValuesAreWatched, Absorbed
<1> QED
  BY <1>4, <1>5 DEF BaseInv

\* What a check reads and takes.
LEMMA CheckTypes ==
  ASSUME Base!TypeOK
  PROVE  /\ Base!Read \in [Path -> Base!Held \cup {Unread}]
         /\ Base!Taken \in [Path -> Base!Held]
         /\ Base!Known \subseteq Path /\ \A p \in Path : Base!Taken[p] # None => p \in Base!Known
         /\ Base!Record \in Base!Saved
         /\ Base!Record.baseline = Base!Taken /\ Base!Record.watched = Base!Known
<1>1. Base!Taken \in [Path -> Base!Held]
  BY DEF Base!Taken, Base!TypeOK
<1>2. Base!Read \in [Path -> Base!Held \cup {Unread}]
  BY DEF Base!Read, Base!TypeOK, Base!Held
<1>3. Base!Known \subseteq Path /\ \A p \in Path : Base!Taken[p] # None => p \in Base!Known
  BY DEF Base!Known, Base!TypeOK
<1> QED
  BY <1>1, <1>2, <1>3 DEF Base!Record, Base!Saved, Base!TypeOK

\* The warnings of a check.
LEMMA WarnKeeps ==
  ASSUME Base!TypeOK, WarningsAreTold, Base!Warn
  PROVE  WarningsAreTold' /\ warned' \subseteq Path /\ unreadable' \subseteq Path
<1>1. Base!StillWarned \subseteq warned /\ Base!Unreadable \subseteq Path
  BY DEF Base!StillWarned, Base!Unreadable, Base!TypeOK
<1>2. Base!Readable \cap Base!Unreadable = {}
  BY BaselineAssumption
     DEF Base!Readable, Base!Unreadable, Base!Read, Base!scan, Base!BaselineBounds, Base!TypeOK, Base!Kind, Base!Held
<1>3. Base!StillWarned \cap Base!Readable = {}
  BY <1>2 DEF Base!StillWarned
<1> QED
  BY <1>1, <1>2, <1>3 DEF Base!Warn, WarningsAreTold, Base!TypeOK

LEMMA HostKeeps ==
  ASSUME BaseInv,
         \/ \E p \in Path : Base!Change(p) \/ Base!WarnIntervalEnds(p)
         \/ Base!Blind
  PROVE  BaseInv'
<1>1. /\ UNCHANGED <<kind, inDir, paths, phase, seen, loaded, hasBaseline, baseline, watched, unreadable,
                    disk, pending, late, faults, announced, unsaid, notified>>
      /\ warned' \subseteq warned /\ blind' \subseteq Path
  BY DEF Base!Change, Base!WarnIntervalEnds, Base!Blind, Base!host, Base!memory, Base!ghost, BaseInv, Base!TypeOK
<1>2. content' \in [Path -> Base!Held]
  <2>1. Base!Possible \subseteq Base!Held
    BY BaselineAssumption DEF Base!Possible, Base!Held, Base!BaselineBounds
  <2> QED
    BY <2>1 DEF Base!Change, Base!WarnIntervalEnds, Base!Blind, Base!host, BaseInv, Base!TypeOK
<1>3. Base!TypeOK'
  BY <1>1, <1>2 DEF BaseInv, Base!TypeOK
<1> QED
  BY <1>1, <1>3 DEF BaseInv, WarningsAreTold, PhaseOfCheck, ValuesAreWatched, Absorbed, FairPairs, Base!Pair, Base!Held

LEMMA CheckBeginsKeeps == ASSUME BaseInv, Base!CheckBegins \/ Base!PortsMissing PROVE BaseInv'
<1> USE DEF BaseInv
<1>1. Base!TypeOK /\ Base!Warn /\ WarningsAreTold' /\ warned' \subseteq Path /\ unreadable' \subseteq Path
  BY WarnKeeps DEF Base!CheckBegins, Base!PortsMissing
<1>2. /\ UNCHANGED <<kind, inDir, content, blind, paths, disk, pending, late, faults, announced, unsaid, watched>>
      /\ phase = "idle"
  BY DEF Base!CheckBegins, Base!PortsMissing, Base!host
<1>3. FairPairs' = FairPairs
  BY <1>2 DEF FairPairs, Base!Pair, Base!Held
<1>4. CASE Base!CheckBegins
  <2>1. /\ phase' = "scanned" /\ loaded' = TRUE /\ seen' \in [Path -> Base!Held \cup {Unread}]
        /\ IF loaded THEN hasBaseline' = hasBaseline /\ baseline' = baseline
           ELSE /\ hasBaseline' = (disk # None)
                /\ baseline' = IF disk # None THEN disk.baseline ELSE Base!Nothing
    BY <1>1, <1>4, CheckTypes DEF Base!CheckBegins, Base!IsBaseline, Base!TypeOK
  <2>2. baseline' \in [Path -> Base!Held] /\ hasBaseline' \in BOOLEAN
    BY <1>1, <2>1 DEF Base!TypeOK, Base!Saved, Base!Nothing, Base!Held
  <2>3. Base!TypeOK'
    BY <1>1, <1>2, <2>1, <2>2 DEF Base!TypeOK
  <2>4. PhaseOfCheck'
    BY <1>2, <2>1 DEF PhaseOfCheck
  <2>5. ValuesAreWatched'
    BY <1>2, <2>1 DEF ValuesAreWatched, PhaseOfCheck
  <2>6. Absorbed'
    BY <1>2, <1>3, <2>1 DEF Absorbed, Base!Pair, Base!Held
  <2> QED
    BY <1>1, <2>3, <2>4, <2>5, <2>6
<1>5. CASE Base!PortsMissing
  <2>1. UNCHANGED <<phase, seen, loaded, hasBaseline, baseline>>
    BY <1>5 DEF Base!PortsMissing
  <2>2. Base!TypeOK'
    BY <1>1, <1>2, <2>1 DEF Base!TypeOK
  <2> QED
    BY <1>1, <1>2, <1>3, <2>1, <2>2 DEF PhaseOfCheck, ValuesAreWatched, Absorbed, Base!Pair, Base!Held
<1> QED
  BY <1>4, <1>5

LEMMA SaveAsKeeps ==
  ASSUME Base!TypeOK, NEW d, Base!SaveAs(d)
  PROVE  (disk' = d \/ disk' = disk) /\ faults' \in 0 .. MaxFaults
<1>1. MaxFaults \in Nat
  BY BaselineAssumption DEF Base!BaselineBounds
<1> QED
  BY <1>1 DEF Base!SaveAs, Base!TypeOK

LEMMA FirstBaselineKeeps == ASSUME BaseInv, Base!FirstBaseline PROVE BaseInv'
<1> USE DEF BaseInv
<1> DEFINE T == Base!Taken
           K == Base!Known
           R == Base!Record
<1>1. /\ phase = "scanned" /\ ~hasBaseline /\ loaded /\ pending = {}
      /\ baseline' = T /\ hasBaseline' = TRUE /\ watched' = K /\ phase' = "idle"
      /\ announced' = IF disk = None THEN announced \cup {<<p, T[p]>> : p \in Path} ELSE announced
      /\ (disk' = R \/ disk' = disk) /\ faults' \in 0 .. MaxFaults
      /\ UNCHANGED <<kind, inDir, content, blind, paths, seen, loaded, unreadable, warned, pending, late, unsaid, notified>>
  BY SaveAsKeeps DEF Base!FirstBaseline, Base!Remember, Base!host, PhaseOfCheck
<1>2. /\ T \in [Path -> Base!Held] /\ K \subseteq Path /\ \A p \in Path : T[p] # None => p \in K
      /\ R \in Base!Saved /\ R.baseline = T /\ R.watched = K
  BY CheckTypes
<1> HIDE DEF T, K, R
<1>3. announced' \subseteq Base!Pair
  BY <1>1, <1>2 DEF Base!TypeOK, Base!Pair
<1>4. Base!TypeOK'
  BY <1>1, <1>2, <1>3 DEF Base!TypeOK
<1>5. FairPairs \subseteq FairPairs'
  BY <1>1, FairGrows
<1>6. \A p \in Path : <<p, T[p]>> \in FairPairs'
  <2>1. SUFFICES ASSUME NEW p \in Path PROVE <<p, T[p]>> \in FairPairs'
    OBVIOUS
  <2>2. <<p, T[p]>> \in Base!Pair /\ Base!Pair' = Base!Pair
    BY <1>2 DEF Base!Pair, Base!Held
  <2>3. CASE disk = None
    BY <1>1, <2>2, <2>3 DEF FairPairs
  <2>4. CASE disk # None
    BY <1>1, <1>5, <2>2, <2>4 DEF Absorbed
  <2> QED
    BY <2>3, <2>4
<1>7. WarningsAreTold' /\ PhaseOfCheck'
  BY <1>1 DEF WarningsAreTold, PhaseOfCheck
<1>8. ValuesAreWatched'
  BY <1>1, <1>2 DEF ValuesAreWatched
<1>9. Absorbed'
  BY <1>1, <1>2, <1>5, <1>6 DEF Absorbed
<1> QED
  BY <1>4, <1>7, <1>8, <1>9

LEMMA CompareAndTellKeeps == ASSUME BaseInv, Base!CompareAndTell PROVE BaseInv'
<1> USE DEF BaseInv
<1> DEFINE T == Base!Taken
           K == Base!Known
           D == Base!Differences
<1>1. /\ phase = "scanned" /\ hasBaseline /\ kind = "fim" /\ pending = {} /\ loaded
      /\ baseline' = T /\ hasBaseline' = TRUE /\ watched' = K /\ phase' = "told"
      /\ announced' = announced \cup D
      /\ UNCHANGED <<kind, inDir, content, blind, paths, seen, loaded, unreadable, warned, disk, pending, late,
                     faults, unsaid, notified>>
  BY DEF Base!CompareAndTell, Base!TellsFirst, Base!Remember, Base!host, PhaseOfCheck
<1>2. T \in [Path -> Base!Held] /\ K \subseteq Path /\ \A p \in Path : T[p] # None => p \in K
  BY CheckTypes
<1>3. D \subseteq Base!Pair
  BY <1>2 DEF Base!Differences, Base!Pair
<1>4. \A p \in Path : T[p] = baseline[p] \/ <<p, T[p]>> \in D
  BY <1>1 DEF Base!Differences, Base!TellsDeletions, Base!Counts, ValuesAreWatched
<1> HIDE DEF T, K, D
<1>5. Base!TypeOK'
  BY <1>1, <1>2, <1>3 DEF Base!TypeOK
<1>6. FairPairs \subseteq FairPairs'
  BY <1>1, FairGrows
<1>7. \A p \in Path : <<p, T[p]>> \in FairPairs'
  <2>1. SUFFICES ASSUME NEW p \in Path PROVE <<p, T[p]>> \in FairPairs'
    OBVIOUS
  <2>2. CASE T[p] = baseline[p]
    BY <1>1, <1>6, <2>2 DEF Absorbed
  <2>3. CASE <<p, T[p]>> \in D
    <3>1. <<p, T[p]>> \in Base!Pair /\ Base!Pair' = Base!Pair
      BY <1>2 DEF Base!Pair, Base!Held
    <3> QED
      BY <1>1, <2>3, <3>1 DEF FairPairs
  <2> QED
    BY <1>4, <2>2, <2>3
<1>8. WarningsAreTold' /\ PhaseOfCheck'
  BY <1>1 DEF WarningsAreTold, PhaseOfCheck
<1>9. ValuesAreWatched'
  BY <1>1, <1>2 DEF ValuesAreWatched
<1>10. Absorbed'
  BY <1>1, <1>6, <1>7 DEF Absorbed
<1> QED
  BY <1>5, <1>8, <1>9, <1>10

LEMMA SaveKeeps == ASSUME BaseInv, Base!Save PROVE BaseInv'
<1> USE DEF BaseInv
<1> DEFINE R == [baseline |-> baseline, watched |-> watched, warned |-> warned]
<1>1. /\ phase = "told" /\ phase' = "idle" /\ hasBaseline /\ loaded
      /\ (disk' = R \/ disk' = disk) /\ faults' \in 0 .. MaxFaults
      /\ UNCHANGED <<kind, inDir, content, blind, paths, seen, loaded, hasBaseline, baseline, watched, unreadable, warned,
                     pending, late, announced, unsaid, notified>>
  BY SaveAsKeeps DEF Base!Save, Base!memory, Base!host, Base!ghost, PhaseOfCheck
<1>2. R \in Base!Saved /\ R.baseline = baseline /\ R.watched = watched
  BY DEF Base!Saved, Base!TypeOK
<1> HIDE DEF R
<1>3. Base!TypeOK'
  BY <1>1, <1>2 DEF Base!TypeOK
<1>4. FairPairs' = FairPairs
  BY <1>1 DEF FairPairs, Base!Pair, Base!Held
<1> QED
  BY <1>1, <1>2, <1>3, <1>4 DEF WarningsAreTold, PhaseOfCheck, ValuesAreWatched, Absorbed

LEMMA CompareAndSaveKeeps == ASSUME BaseInv, Base!CompareAndSave PROVE BaseInv'
<1> USE DEF BaseInv
<1> DEFINE T == Base!Taken
           K == Base!Known
           R == Base!Record
           D == Base!Differences
           A == {<<p, T[p]>> : p \in {q \in Path : baseline[q] = None /\ ~Base!Counts(q)}}
<1>1. /\ phase = "scanned" /\ hasBaseline /\ kind # "fim" /\ pending = {} /\ loaded
      /\ pending' = D /\ unsaid' = unsaid \cup {<<e, "adopted">> : e \in A}
      /\ baseline' = T /\ hasBaseline' = TRUE /\ watched' = K
      /\ phase' \in {"idle", "saved"} /\ (phase' = "idle" => D = {})
      /\ (disk' = R \/ disk' = disk) /\ faults' \in 0 .. MaxFaults
      /\ UNCHANGED <<kind, inDir, content, blind, paths, seen, loaded, unreadable, warned, late, announced, notified>>
  BY SaveAsKeeps DEF Base!CompareAndSave, Base!TellsFirst, Base!Unsaid, Base!Remember, Base!host, PhaseOfCheck
<1>2. /\ T \in [Path -> Base!Held] /\ K \subseteq Path /\ \A p \in Path : T[p] # None => p \in K
      /\ R \in Base!Saved /\ R.baseline = T /\ R.watched = K
  BY CheckTypes
<1>3. D \subseteq Base!Pair /\ A \subseteq Base!Pair
  BY <1>2 DEF Base!Differences, Base!Pair
<1>4. \A p \in Path : \/ T[p] = baseline[p] \/ <<p, T[p]>> \in D
                      \/ T[p] = None /\ kind \notin {"fim", "cron"}
                      \/ kind = "cron" /\ p \notin inDir /\ <<p, T[p]>> \in A
  BY <1>1 DEF Base!Differences, Base!TellsDeletions, Base!Counts, ValuesAreWatched
<1> HIDE DEF T, K, R, D, A
<1>5. Base!TypeOK'
  <2>1. unsaid' \subseteq Base!Pair \X {"restart", "replaced", "adopted"}
    BY <1>1, <1>3 DEF Base!TypeOK
  <2> QED
    BY <1>1, <1>2, <1>3, <2>1 DEF Base!TypeOK, Base!Pair, Base!Held, Base!Saved
<1>6. FairPairs \subseteq FairPairs'
  BY <1>1, FairGrows
<1>7. \A p \in Path : <<p, T[p]>> \in FairPairs'
  <2>1. SUFFICES ASSUME NEW p \in Path PROVE <<p, T[p]>> \in FairPairs'
    OBVIOUS
  <2>2. <<p, T[p]>> \in Base!Pair /\ Base!Pair' = Base!Pair /\ <<p, T[p]>>[1] = p /\ <<p, T[p]>>[2] = T[p]
    BY <1>2 DEF Base!Pair, Base!Held
  <2>3. CASE T[p] = baseline[p]
    BY <1>1, <1>6, <2>3 DEF Absorbed
  <2>4. CASE <<p, T[p]>> \in D
    BY <1>1, <2>2, <2>4 DEF FairPairs
  <2>5. CASE T[p] = None /\ kind \notin {"fim", "cron"}
    BY <1>1, <2>2, <2>5 DEF FairPairs
  <2>6. CASE kind = "cron" /\ p \notin inDir /\ <<p, T[p]>> \in A
    BY <1>1, <2>2, <2>6 DEF FairPairs
  <2> QED
    BY <1>4, <2>3, <2>4, <2>5, <2>6
<1>8. WarningsAreTold' /\ PhaseOfCheck'
  BY <1>1 DEF WarningsAreTold, PhaseOfCheck
<1>9. ValuesAreWatched'
  BY <1>1, <1>2 DEF ValuesAreWatched
<1>10. Absorbed'
  BY <1>1, <1>2, <1>6, <1>7 DEF Absorbed
<1> QED
  BY <1>5, <1>8, <1>9, <1>10

LEMMA EmitKeeps == ASSUME BaseInv, NEW e \in pending, Base!Emit(e) PROVE BaseInv'
<1> USE DEF BaseInv
<1>1. /\ phase = "saved" /\ pending' = pending \ {e} /\ announced' = announced \cup {e}
      /\ phase' \in {"idle", "saved"} /\ (phase' = "idle" => pending' = {})
      /\ UNCHANGED <<kind, inDir, content, blind, paths, seen, loaded, hasBaseline, baseline, watched, unreadable, warned,
                     disk, late, faults, unsaid, notified>>
  BY DEF Base!Emit, Base!memory, Base!host
<1>2. Base!TypeOK'
  BY <1>1 DEF Base!TypeOK
<1>3. FairPairs \subseteq FairPairs'
  BY <1>1, FairGrows
<1> QED
  BY <1>1, <1>2, <1>3 DEF WarningsAreTold, PhaseOfCheck, ValuesAreWatched, Absorbed, Base!Pair, Base!Held

\* A monitor made anew has what the file holds.
LEMMA AnewKeeps ==
  ASSUME BaseInv, Base!Anew
  PROVE  /\ phase' = "idle" /\ pending' = {} /\ seen' \in [Path -> Base!Held \cup {Unread}]
         /\ unreadable' = {} /\ warned' \subseteq notified' /\ warned' \subseteq Path
         /\ loaded' = (kind \in {"fim", "cron"}) /\ hasBaseline' = (kind \in {"fim", "cron"} /\ disk # None)
         /\ baseline' \in [Path -> Base!Held] /\ watched' \subseteq Path
         /\ hasBaseline' => baseline' = disk.baseline /\ watched' = disk.watched
         /\ ~hasBaseline' => baseline' = Base!Nothing
<1> USE DEF BaseInv
<1>1. Base!Nothing \in [Path -> Base!Held] /\ Base!Nothing \in [Path -> Base!Held \cup {Unread}]
  BY DEF Base!Nothing, Base!Held
<1>2. phase' = "idle" /\ pending' = {} /\ seen' = Base!Nothing /\ unreadable' = {}
  BY DEF Base!Anew
<1>3. disk # None => disk.baseline \in [Path -> Base!Held] /\ disk.watched \subseteq Path /\ disk.warned \subseteq Path
  BY DEF Base!TypeOK, Base!Saved
<1>4. CASE Base!Lazy
  <2>1. loaded' = FALSE /\ hasBaseline' = FALSE /\ baseline' = Base!Nothing /\ watched' = {} /\ warned' = {}
    BY <1>4 DEF Base!Anew
  <2>2. kind \notin {"fim", "cron"}
    BY <1>4 DEF Base!Lazy
  <2>3. loaded' = (kind \in {"fim", "cron"}) /\ hasBaseline' = (kind \in {"fim", "cron"} /\ disk # None)
    <3>1. (kind \in {"fim", "cron"}) = FALSE /\ (kind \in {"fim", "cron"} /\ disk # None) = FALSE
      BY <2>2
    <3> QED
      BY <2>1, <3>1, Zenon
  <2>4. warned' \subseteq notified' /\ warned' \subseteq Path /\ watched' \subseteq Path
    BY <2>1
  <2>5. baseline' \in [Path -> Base!Held] /\ (hasBaseline' => baseline' = disk.baseline /\ watched' = disk.watched)
        /\ (~hasBaseline' => baseline' = Base!Nothing)
    BY <1>1, <2>1
  <2> QED
    BY <1>1, <1>2, <2>3, <2>4, <2>5
<1>5. CASE ~Base!Lazy
  <2>1. kind \in {"fim", "cron"}
    BY <1>5 DEF Base!Lazy, Base!TypeOK, Base!Kind
  <2>2. /\ loaded' = TRUE /\ hasBaseline' = (disk # None)
        /\ baseline' = (IF disk # None THEN disk.baseline ELSE Base!Nothing)
        /\ watched' = (IF disk # None THEN disk.watched ELSE {})
        /\ warned' = (IF disk # None /\ kind = "fim" THEN disk.warned ELSE {})
        /\ notified' = (IF kind = "fim" /\ disk # None THEN notified \cup disk.warned ELSE {})
    BY <1>5 DEF Base!Anew, Base!Load, Base!IsBaseline
  <2>3. loaded' = (kind \in {"fim", "cron"}) /\ hasBaseline' = (kind \in {"fim", "cron"} /\ disk # None)
    BY <2>1, <2>2
  <2>4. warned' \subseteq notified' /\ warned' \subseteq Path /\ watched' \subseteq Path
    BY <1>3, <2>2
  <2>5. baseline' \in [Path -> Base!Held] /\ (hasBaseline' => baseline' = disk.baseline /\ watched' = disk.watched)
        /\ (~hasBaseline' => baseline' = Base!Nothing)
    BY <1>1, <1>3, <2>2
  <2> QED
    BY <1>1, <1>2, <2>3, <2>4, <2>5
<1> QED
  BY <1>4, <1>5

LEMMA AgainKeeps == ASSUME BaseInv, Base!Restart \/ Base!Configure PROVE BaseInv'
<1> USE DEF BaseInv
<1>1. /\ phase' = "idle" /\ pending' = {} /\ seen' \in [Path -> Base!Held \cup {Unread}]
      /\ unreadable' = {} /\ warned' \subseteq notified' /\ warned' \subseteq Path
      /\ loaded' = (kind \in {"fim", "cron"}) /\ hasBaseline' = (kind \in {"fim", "cron"} /\ disk # None)
      /\ baseline' \in [Path -> Base!Held] /\ watched' \subseteq Path
      /\ hasBaseline' => baseline' = disk.baseline /\ watched' = disk.watched
      /\ ~hasBaseline' => baseline' = Base!Nothing
  BY AnewKeeps DEF Base!Restart, Base!Configure
<1>2. /\ UNCHANGED <<kind, inDir, content, blind, disk, announced>>
      /\ faults' \in 0 .. MaxFaults /\ paths' \subseteq Path
      /\ unsaid' = unsaid \cup {<<e, "restart">> : e \in pending} \/ unsaid' = unsaid \cup {<<e, "replaced">> : e \in pending}
  <2>1. MaxFaults \in Nat
    BY BaselineAssumption DEF Base!BaselineBounds
  <2> QED
    BY <2>1 DEF Base!Restart, Base!Configure, Base!Fault, Base!Unsaid, Base!host, Base!TypeOK
<1>3. late' = None \/ late' = late \/ (late' \in Base!Saved /\ (kind \in {"fim", "cron"} =>
        \A p \in Path : late'.baseline[p] # None => p \in late'.watched))
  <2>1. CASE Base!Restart
    BY <2>1 DEF Base!Restart
  <2>2. CASE Base!Configure
    <3>1. CASE phase = "scanned"
      <4>1. late' = Base!Record
        BY <2>2, <3>1 DEF Base!Configure
      <4> QED
        BY <4>1, CheckTypes
    <3>2. CASE phase = "told"
      <4>1. late' = [baseline |-> baseline, watched |-> watched, warned |-> warned]
        BY <2>2, <3>2 DEF Base!Configure
      <4> QED
        BY <4>1 DEF Base!TypeOK, Base!Saved, ValuesAreWatched
    <3>3. CASE phase \notin {"scanned", "told"}
      BY <2>2, <3>3 DEF Base!Configure
    <3> QED
      BY <3>1, <3>2, <3>3
  <2> QED
    BY <2>1, <2>2
<1>4. unsaid' \subseteq Base!Pair \X {"restart", "replaced", "adopted"}
  BY <1>2 DEF Base!TypeOK
<1>5. Base!TypeOK'
  BY <1>1, <1>2, <1>3, <1>4 DEF Base!TypeOK
<1>6. FairPairs \subseteq FairPairs'
  <2>1. unsaid \subseteq unsaid' /\ \A e \in pending : <<e, "replaced">> \in unsaid' \/ <<e, "restart">> \in unsaid'
    BY <1>2
  <2> QED
    BY <1>2, <2>1, FairGrows
<1>7. PhaseOfCheck' /\ WarningsAreTold'
  BY <1>1, <1>2 DEF PhaseOfCheck, WarningsAreTold, Base!TypeOK, Base!Kind
<1>8. ValuesAreWatched'
  BY <1>1, <1>2, <1>3 DEF ValuesAreWatched, Base!Nothing
<1>9. Absorbed'
  BY <1>1, <1>2, <1>6 DEF Absorbed
<1> QED
  BY <1>5, <1>7, <1>8, <1>9

LEMMA LateSaveKeeps == ASSUME BaseInv, Base!LateSave PROVE BaseInv'
<1> USE DEF BaseInv
<1> DEFINE taken == {<<p, late.baseline[p]>> : p \in Path}
           more == IF loaded /\ ~hasBaseline THEN Base!Pair ELSE {}
<1>1. /\ late # None /\ disk' = late /\ late' = None
      /\ UNCHANGED <<kind, inDir, content, blind, paths, phase, seen, loaded, hasBaseline, baseline, watched,
                     unreadable, warned, pending, faults, notified>>
      /\ IF disk = None THEN announced' = announced \cup taken /\ unsaid' = unsaid \cup {<<e, "replaced">> : e \in more}
         ELSE unsaid' = unsaid \cup {<<e, "replaced">> : e \in (taken \ announced) \cup more} /\ announced' = announced
  BY DEF Base!LateSave, Base!Unsaid, Base!memory, Base!host
<1>2. taken \subseteq Base!Pair /\ more \subseteq Base!Pair
  BY <1>1 DEF Base!TypeOK, Base!Saved, Base!Pair
<1> HIDE DEF taken, more
<1>3. unsaid \subseteq unsaid' /\ announced \subseteq announced' /\ \A e \in more : <<e, "replaced">> \in unsaid'
  BY <1>1
<1>4. \A e \in taken : e \in announced' \/ <<e, "replaced">> \in unsaid'
  BY <1>1
<1>5. Base!TypeOK'
  <2>1. unsaid' \subseteq Base!Pair \X {"restart", "replaced", "adopted"} /\ announced' \subseteq Base!Pair
    BY <1>1, <1>2 DEF Base!TypeOK
  <2> QED
    BY <1>1, <2>1 DEF Base!TypeOK
<1>6. FairPairs \subseteq FairPairs'
  BY <1>1, <1>3, FairGrows
<1>7. Base!Pair' = Base!Pair
  BY DEF Base!Pair, Base!Held
<1>8. taken \subseteq FairPairs' /\ more \subseteq FairPairs'
  BY <1>2, <1>3, <1>4, <1>7 DEF FairPairs
<1>9. \A p \in Path : <<p, disk'.baseline[p]>> \in FairPairs'
  BY <1>1, <1>8 DEF taken
<1>10. loaded /\ ~hasBaseline => Base!Pair \subseteq FairPairs'
  BY <1>8 DEF more
<1>11. WarningsAreTold' /\ PhaseOfCheck' /\ ValuesAreWatched'
  BY <1>1 DEF WarningsAreTold, PhaseOfCheck, ValuesAreWatched
<1>12. Absorbed'
  BY <1>1, <1>6, <1>7, <1>9, <1>10 DEF Absorbed
<1> QED
  BY <1>5, <1>11, <1>12

LEMMA DamageKeeps == ASSUME BaseInv, Base!Damage PROVE BaseInv'
<1> USE DEF BaseInv
<1>1. /\ disk' = None /\ faults' \in 0 .. MaxFaults
      /\ UNCHANGED <<kind, inDir, content, blind, paths, phase, seen, loaded, hasBaseline, baseline, watched,
                     unreadable, warned, pending, late, announced, unsaid, notified>>
  BY BaselineAssumption DEF Base!Damage, Base!Fault, Base!memory, Base!host, Base!ghost, Base!BaselineBounds, Base!TypeOK
<1>2. Base!TypeOK'
  BY <1>1 DEF Base!TypeOK
<1> QED
  BY <1>1, <1>2 DEF WarningsAreTold, PhaseOfCheck, ValuesAreWatched, Absorbed, FairPairs, Base!Pair, Base!Held

THEOREM BaseInvariance == Base!Spec => []BaseInv
<1>1. BaseInv /\ [Base!Next]_(Base!vars) => BaseInv'
  <2> SUFFICES ASSUME BaseInv, [Base!Next]_(Base!vars) PROVE BaseInv'
    OBVIOUS
  <2>1. CASE UNCHANGED Base!vars
    BY <2>1 DEF Base!vars, Base!host, Base!memory, Base!ghost, BaseInv, Base!TypeOK, WarningsAreTold, PhaseOfCheck,
      ValuesAreWatched, Absorbed, FairPairs, Base!Pair, Base!Held
  <2>2. CASE Base!Next
    BY <2>2, HostKeeps, CheckBeginsKeeps, FirstBaselineKeeps, CompareAndTellKeeps, SaveKeeps, CompareAndSaveKeeps,
       EmitKeeps, AgainKeeps, LateSaveKeeps, DamageKeeps DEF Base!Next
  <2> QED
    BY <2>1, <2>2
<1> QED
  BY <1>1, BaseInit, PTL DEF Base!Spec

(* For any paths and contents and any number of faults: what a monitor or   *)
(* its file takes for normal was reported, or was there when no baseline    *)
(* was; the exceptions are the events a restart or a reconfiguration meets  *)
(* between the save and the report, and cron's silence about a new file     *)
(* that only a setting names (fim.go:283-333, cronmon.go:84-154,            *)
(* suid.go:146-184, portmon.go:146-160).                                    *)
THEOREM AbsorptionTheorem == Base!Spec => []NothingIsAbsorbed
<1>1. BaseInv => NothingIsAbsorbed
  BY AbsorbedMeans DEF BaseInv
<1> QED
  BY <1>1, BaseInvariance, PTL

(* Whatever a check could not read was warned of since it was last read     *)
(* (fim.go:182-264, cronmon.go:238-273, portmon.go:111-135).                *)
THEOREM BlindnessTheorem == Base!Spec => []BlindnessIsTold
<1>1. BaseInv => BlindnessIsTold
  BY DEF BaseInv, WarningsAreTold, BlindnessIsTold, Base!BlindnessIsTold
<1> QED
  BY <1>1, BaseInvariance, PTL

-----------------------------------------------------------------------------
\* Finite sets of numbers.

LEMMA HasLeast ==
  ASSUME NEW S \in SUBSET Int, IsFiniteSet(S), S # {}
  PROVE  \E m \in S : \A n \in S : m <= n
<1> DEFINE Below(m) == {n \in S : n < m}
           Family == {Below(m) : m \in S}
<1>1. \A m \in S : m \in Int
  OBVIOUS
<1>2. Family \subseteq FiniteSubsetsOf(S) /\ Family # {}
  <2>1. \A m \in S : Below(m) \in FiniteSubsetsOf(S)
    BY FS_Subset DEF FiniteSubsetsOf
  <2> HIDE DEF Below
  <2> QED
    BY <2>1
<1>3. PICK B \in Family : \A C \in Family : <<C, B>> \notin StrictSubsetOrdering(S)
  <2> HIDE DEF Family
  <2> QED
    BY <1>2, FS_StrictSubsetOrderingWellFounded, WFMin
<1>4. PICK m \in S : B = Below(m)
  BY <1>3
<1>5. ASSUME NEW n \in S, n \in Below(m) PROVE FALSE
  <2>1. Below(n) \subseteq Below(m) /\ n \notin Below(n)
    <3>1. n < m /\ ~(n < n) /\ \A k \in S : k < n => k < m
      BY <1>1, <1>5
    <3> QED
      BY <3>1
  <2>2. <<Below(n), Below(m)>> \in StrictSubsetOrdering(S)
    BY <1>5, <2>1 DEF StrictSubsetOrdering
  <2>3. Below(n) \in Family
    OBVIOUS
  <2> QED
    BY <1>3, <1>4, <2>2, <2>3
<1> QED
  BY <1>1, <1>5

LEMMA HasGreatest ==
  ASSUME NEW S \in SUBSET Int, IsFiniteSet(S), S # {}
  PROVE  \E m \in S : \A n \in S : n <= m
<1> DEFINE Above(m) == {n \in S : n > m}
           Family == {Above(m) : m \in S}
<1>1. \A m \in S : m \in Int
  OBVIOUS
<1>2. Family \subseteq FiniteSubsetsOf(S) /\ Family # {}
  <2>1. \A m \in S : Above(m) \in FiniteSubsetsOf(S)
    BY FS_Subset DEF FiniteSubsetsOf
  <2> HIDE DEF Above
  <2> QED
    BY <2>1
<1>3. PICK B \in Family : \A C \in Family : <<C, B>> \notin StrictSubsetOrdering(S)
  <2> HIDE DEF Family
  <2> QED
    BY <1>2, FS_StrictSubsetOrderingWellFounded, WFMin
<1>4. PICK m \in S : B = Above(m)
  BY <1>3
<1>5. ASSUME NEW n \in S, n \in Above(m) PROVE FALSE
  <2>1. Above(n) \subseteq Above(m) /\ n \notin Above(n)
    <3>1. n > m /\ ~(n > n) /\ \A k \in S : k > n => k > m
      BY <1>1, <1>5
    <3> QED
      BY <3>1
  <2>2. <<Above(n), Above(m)>> \in StrictSubsetOrdering(S)
    BY <1>5, <2>1 DEF StrictSubsetOrdering
  <2>3. Above(n) \in Family
    OBVIOUS
  <2> QED
    BY <1>3, <1>4, <2>2, <2>3
<1> QED
  BY <1>1, <1>5

-----------------------------------------------------------------------------
\* DirScan.

LEMMA ScanCardinality == \A S : Scan!Cardinality(S) = Cardinality(S)
  BY DEF Scan!Cardinality, Scan!IsFiniteSet, Cardinality, IsFiniteSet

Bad == Scan!WalkIsCapped \/ Scan!Having(Scan!Shallow, "large") # {} \/ Scan!Having(Scan!Shallow, "locked") # {}

\* Nothing is found below the limit on depth; after a full scan the scanner
\* knows what a walk finds until something changes.
ScanInv ==
  /\ Scan!TypeOK
  /\ \A p \in Deep : tree[p] = None
  /\ last.kind = "full" => entries = Scan!Renewed(Scan!Walked) /\ degraded = Bad

\* A walk that was not cut short met every file.
LEMMA WalkedAll ==
  ASSUME Scan!TypeOK, ~Scan!WalkIsCapped
  PROVE  Scan!Walked = Scan!Recorded(Scan!Shallow)
<1> DEFINE Rec == Scan!Recorded(Scan!Shallow)
           W == Scan!Walked
           Below(p) == {q \in Rec : q < p}
<1>1. /\ Rec \subseteq 1 .. N /\ Rec \subseteq Scan!Shallow /\ IsFiniteSet(Rec) /\ W \subseteq Rec
      /\ \A p \in Rec : tree[p] # None /\ (p \in W <=> Cardinality(Below(p)) < maxFiles)
      /\ maxFiles \in Nat /\ maxFiles > 0
  <2>1. IsFiniteSet(1 .. N)
    BY ScanAssumption, FS_Interval DEF Scan!ScanBounds
  <2>2. Rec \in SUBSET (1 .. N)
    BY DEF Scan!Recorded, Scan!Shallow, Scan!Place
  <2>3. IsFiniteSet(Rec)
    BY <2>1, <2>2, FS_Subset
  <2>4. W = {p \in Rec : Cardinality(Below(p)) < maxFiles}
    BY ScanCardinality DEF Scan!Walked
  <2>5. \A p \in Rec : tree[p] # None
    BY ScanAssumption DEF Scan!Recorded, Scan!ScanBounds
  <2> QED
    BY <2>2, <2>3, <2>4, <2>5, ScanAssumption DEF Scan!ScanBounds, Scan!Recorded
<1>2. ~(Cardinality(W) = maxFiles /\ \E p \in Scan!Shallow : tree[p] # None /\ \A q \in W : q < p)
  BY ScanCardinality DEF Scan!WalkIsCapped
<1>3. \A p : IsFiniteSet(Below(p)) /\ Cardinality(Below(p)) \in Nat
  BY <1>1, FS_Subset, FS_CardinalityType
<1> HIDE DEF W, Rec
<1>4. SUFFICES ASSUME W # Rec PROVE FALSE
  BY DEF W, Rec
<1>5. PICK p \in Rec \ W : \A q \in Rec \ W : p <= q
  <2>1. Rec \ W \in SUBSET Rec /\ Rec \ W \in SUBSET Int /\ Rec \ W # {}
    <3>1. 1 .. N \subseteq Int
      OBVIOUS
    <3>2. Rec \ W # {}
      BY <1>1, <1>4
    <3> QED
      BY <1>1, <3>1, <3>2
  <2>2. IsFiniteSet(Rec \ W)
    BY <1>1, <2>1, FS_Subset
  <2> QED
    BY <2>1, <2>2, HasLeast
<1>6. W = Below(p)
  <2>1. ASSUME NEW q \in Below(p) PROVE q \in W
    <3>1. q \in Rec /\ q < p /\ q \in Int /\ p \in Int
      BY <1>1
    <3> QED
      BY <1>5, <3>1
  <2>2. ASSUME NEW q \in W PROVE q \in Below(p)
    <3>1. q \in Rec /\ q \in Int /\ p \in Int /\ q # p
      BY <1>1, <1>5
    <3>2. CASE p < q
      <4>1. Below(p) \in SUBSET Below(q)
        <5>1. \A r \in Rec : r \in Int /\ (r < p => r < q)
          BY <1>1, <3>1, <3>2
        <5> QED
          BY <5>1
      <4>2. Cardinality(Below(p)) <= Cardinality(Below(q))
        BY <1>3, <4>1, FS_Subset
      <4> QED
        BY <1>1, <1>3, <1>5, <3>1, <4>2
    <3> QED
      BY <3>1, <3>2
  <2> QED
    BY <2>1, <2>2
<1>7. Cardinality(W) >= maxFiles /\ Cardinality(W) \in Nat /\ IsFiniteSet(W)
  BY <1>1, <1>3, <1>5, <1>6
<1>8. Cardinality(W) <= maxFiles
  <2>1. W # {}
    BY <1>1, <1>7, FS_EmptySet
  <2>2. PICK m \in W : \A q \in W : q <= m
    <3>1. W \in SUBSET Int
      BY <1>1
    <3> QED
      BY <1>7, <2>1, <3>1, HasGreatest
  <2>3. W \ {m} \subseteq Below(m)
    BY <1>1, <2>2
  <2>4. Cardinality(W \ {m}) <= Cardinality(Below(m))
    BY <1>3, <2>3, FS_Subset
  <2>5. Cardinality(W \ {m}) = Cardinality(W) - 1 /\ Cardinality(Below(m)) < maxFiles
    BY <1>1, <1>7, <2>2, FS_RemoveElement
  <2> QED
    BY <1>1, <1>3, <1>7, <2>4, <2>5
<1>9. Cardinality(W) = maxFiles
  BY <1>1, <1>7, <1>8
<1>10. p \in Scan!Shallow /\ tree[p] # None /\ \A q \in W : q < p
  BY <1>1, <1>5, <1>6
<1> QED
  BY <1>2, <1>9, <1>10

\* Whatever there is to report is reported or goes to the log, and nothing else is.
LEMMA ReportMeans ==
  ASSUME NEW E, NEW more, Scan!Report(E, more)
  PROVE  /\ \A e \in E : e \in events' \/ e[2] \in detail'
         /\ events' \subseteq E \cup more \cup {<<"many", 0>>}
         /\ \A p \in detail' : \E e \in E : p = e[2]
         /\ E = {} => events' = more /\ detail' = {}
<1>1. PICK shown \in SUBSET E :
        /\ events' = shown \cup more \cup (IF shown = E THEN {} ELSE {<<"many", 0>>})
        /\ detail' = {e[2] : e \in E \ shown}
  BY DEF Scan!Report
<1> QED
  BY <1>1

ScanSays == Scan!NothingIsLeftOut' /\ Scan!GoneIsGone' /\ Scan!QuietWhenUnchanged

LEMMA ScanConstants ==
  /\ N \in Nat /\ Deep \subseteq Scan!Place /\ Scan!Place = 1 .. N /\ Scan!Shallow = Scan!Place \ Deep
  /\ None \notin Scan!Entry /\ "locked" \notin Scan!Entry /\ None # "locked" /\ 0 \notin Scan!Place
  /\ \A p \in Scan!Place : p \in 0 .. N
  BY ScanAssumption DEF Scan!ScanBounds, Scan!Place, Scan!Shallow, Scan!Entry

LEMMA ScanInit == Scan!Init => ScanInv
<1> SUFFICES ASSUME Scan!Init PROVE ScanInv
  OBVIOUS
<1>1. Scan!TypeOK
  BY DEF Scan!Init, Scan!TypeOK, Scan!None0, Scan!Nothing
<1>2. \A p \in Deep : tree[p] = None
  BY ScanConstants DEF Scan!Init, Scan!None0
<1> QED
  BY <1>1, <1>2 DEF Scan!Init, Scan!Nothing, ScanInv

LEMMA ChangeSays == ASSUME ScanInv, NEW p \in Scan!Place, Scan!Change(p) PROVE ScanInv' /\ ScanSays
<1>1. /\ p \notin Deep /\ events' = {} /\ detail' = {} /\ base' = Scan!None0 /\ last' = Scan!Nothing
      /\ UNCHANGED <<entries, initialized, degraded, depthWarned, broken>>
      /\ \E c \in Scan!Entry \cup {None, "locked"} : tree' = [tree EXCEPT ![p] = c]
  BY DEF Scan!Change
<1>2. Scan!TypeOK /\ \A q \in Deep : tree[q] = None
  BY DEF ScanInv
<1>3. tree' \in [Scan!Place -> Scan!Entry \cup {None, "locked"}] /\ \A q \in Deep : tree'[q] = None
  BY <1>1, <1>2, ScanConstants DEF Scan!TypeOK
<1>4. Scan!TypeOK'
  BY <1>1, <1>2, <1>3 DEF Scan!TypeOK, Scan!None0, Scan!Nothing
<1>5. ScanInv'
  BY <1>1, <1>3, <1>4 DEF ScanInv, Scan!Nothing
<1> QED
  BY <1>1, <1>5 DEF ScanSays, Scan!NothingIsLeftOut, Scan!GoneIsGone, Scan!QuietWhenUnchanged, Scan!Nothing

\* The new baseline holds what was recorded.
LEMMA BaselineTypes ==
  ASSUME Scan!TypeOK
  PROVE  /\ Scan!Walked \subseteq Scan!Recorded(Scan!Place) /\ Scan!Walked \subseteq Scan!Shallow
         /\ \A S \in SUBSET Scan!Recorded(Scan!Place) :
              /\ Scan!Renewed(S) \in [Scan!Place -> Scan!Entry \cup {None}]
              /\ \A gone : Scan!Updated(S, gone) \in [Scan!Place -> Scan!Entry \cup {None}]
<1>1. Scan!Walked \subseteq Scan!Recorded(Scan!Place) /\ Scan!Walked \subseteq Scan!Shallow
  BY ScanConstants DEF Scan!Walked, Scan!Recorded
<1> QED
  BY <1>1 DEF Scan!Recorded, Scan!Renewed, Scan!Updated, Scan!TypeOK

LEMMA FirstScanSays == ASSUME ScanInv, Scan!FirstScan PROVE ScanInv' /\ ScanSays
<1>1. /\ initialized' = TRUE /\ entries' = Scan!Renewed(Scan!Walked) /\ events' = {} /\ detail' = {}
      /\ last' = [kind |-> "none", paths |-> {}, capped |-> Scan!WalkIsCapped] /\ base' = entries
      /\ broken' \in BOOLEAN
      /\ UNCHANGED <<tree, degraded, depthWarned>>
  BY DEF Scan!FirstScan, Scan!Noted
<1>2. Scan!TypeOK /\ \A q \in Deep : tree[q] = None
  BY DEF ScanInv
<1>3. last'.kind = "none" /\ last' \in [kind : {"none", "full", "paths"}, paths : SUBSET Scan!Place, capped : BOOLEAN]
  BY <1>1 DEF Scan!WalkIsCapped
<1>4. Scan!TypeOK'
  BY <1>1, <1>2, <1>3, BaselineTypes DEF Scan!TypeOK
<1> QED
  BY <1>1, <1>2, <1>3, <1>4
     DEF ScanInv, ScanSays, Scan!NothingIsLeftOut, Scan!GoneIsGone, Scan!QuietWhenUnchanged

\* What is told of a set of files is about files.
LEMMA EachMeans ==
  ASSUME NEW what \in Scan!What, NEW R \in SUBSET Scan!Place
  PROVE  Scan!Each(what, R) \subseteq Scan!What \X (0 .. N) /\ \A e \in Scan!Each(what, R) : e[2] \in Scan!Place
<1>1. \A p \in R : <<what, p>> \in Scan!What \X (0 .. N) /\ <<what, p>>[2] \in Scan!Place
  <2>1. \A p \in R : p \in Scan!Place /\ p \in 0 .. N
    BY ScanConstants
  <2> QED
    BY <2>1
<1>2. \A e \in Scan!Each(what, R) : \E p \in R : e = <<what, p>>
  BY DEF Scan!Each
<1> QED
  BY <1>1, <1>2

LEMMA FullScanSays == ASSUME ScanInv, Scan!FullScan PROVE ScanInv' /\ ScanSays
<1> DEFINE S == Scan!Walked
           C == Scan!Each("create", Scan!Created(S))
           H == Scan!Each("change", Scan!Changed(S))
           D == Scan!Each("delete", Scan!Deleted(S, Scan!WalkIsCapped))
           E == C \cup H \cup D
           more == IF Bad # degraded THEN {<<"degraded", 0>>} ELSE {}
<1>1. /\ initialized /\ Scan!Report(E, more) /\ degraded' = Bad /\ entries' = Scan!Renewed(S)
      /\ last' = [kind |-> "full", paths |-> Scan!Shallow, capped |-> Scan!WalkIsCapped] /\ base' = entries
      /\ broken' = (Scan!WalkIsCapped \/ Scan!Having(Scan!Shallow, "locked") # {})
      /\ UNCHANGED <<tree, initialized, depthWarned>>
  BY DEF Scan!FullScan, Scan!Noted, Bad
<1>2. Scan!TypeOK /\ (\A q \in Deep : tree[q] = None)
      /\ (last.kind = "full" => entries = Scan!Renewed(S) /\ degraded = Bad)
  BY DEF ScanInv
<1>3. /\ last'.kind = "full" /\ last'.paths = Scan!Shallow /\ last'.capped = Scan!WalkIsCapped
      /\ last' \in [kind : {"none", "full", "paths"}, paths : SUBSET Scan!Place, capped : BOOLEAN]
  BY <1>1, ScanConstants DEF Scan!WalkIsCapped
<1>4. /\ S \subseteq Scan!Place /\ \A p \in S : tree[p] \in Scan!Entry
      /\ ~Scan!WalkIsCapped => \A p \in Scan!Shallow : tree[p] \in Scan!Entry => p \in S
  BY <1>2, WalkedAll, BaselineTypes DEF Scan!Recorded
<1>5. /\ \A e \in E : e \in events' \/ e[2] \in detail'
      /\ events' \subseteq E \cup more \cup {<<"many", 0>>}
      /\ \A p \in detail' : \E e \in E : p = e[2]
      /\ E = {} => events' = more /\ detail' = {}
  <2> HIDE DEF E, more
  <2> QED
    BY <1>1, ReportMeans
<1>6. E \subseteq Scan!What \X (0 .. N) /\ \A e \in E : e[2] \in Scan!Place
  <2>1. /\ Scan!Created(S) \in SUBSET Scan!Place /\ Scan!Changed(S) \in SUBSET Scan!Place
        /\ Scan!Deleted(S, Scan!WalkIsCapped) \in SUBSET Scan!Place
    BY <1>4 DEF Scan!Created, Scan!Changed, Scan!Deleted
  <2>2. {"create", "change", "delete"} \subseteq Scan!What
    BY DEF Scan!What
  <2> QED
    BY <2>1, <2>2, EachMeans
<1>7. more \subseteq {<<"degraded", 0>>}
  OBVIOUS
<1>8. \A e \in E : e[1] \in {"delete", "transient"} => e \in D
  BY DEF Scan!Each
<1>9. \A e \in D : ~Scan!WalkIsCapped /\ e[2] \in Scan!Place \ S
  BY DEF Scan!Each, Scan!Deleted
<1>10. ASSUME ~Scan!WalkIsCapped, NEW p \in Scan!Shallow
       PROVE  /\ entries'[p] = IF tree[p] \in Scan!Entry THEN tree[p] ELSE None
              /\ entries[p] # entries'[p] => \E e \in E : e[2] = p
  <2>1. entries'[p] = IF tree[p] \in Scan!Entry THEN tree[p] ELSE None
    BY <1>1, <1>4, <1>10, ScanConstants DEF Scan!Renewed
  <2>2. CASE tree[p] \in Scan!Entry /\ entries[p] = None
    <3>1. <<"create", p>> \in C
      BY <1>4, <1>10, <2>2 DEF Scan!Each, Scan!Created
    <3> QED
      BY <2>1, <3>1
  <2>3. CASE tree[p] \in Scan!Entry /\ entries[p] # None /\ entries[p] # tree[p]
    <3>1. <<"change", p>> \in H
      BY <1>4, <1>10, <2>3 DEF Scan!Each, Scan!Changed
    <3> QED
      BY <2>1, <3>1
  <2>4. CASE tree[p] \notin Scan!Entry /\ entries[p] # None
    <3>1. <<"delete", p>> \in D
      BY <1>4, <1>10, <2>4, ScanConstants DEF Scan!Each, Scan!Deleted
    <3> QED
      BY <2>1, <3>1
  <2> QED
    BY <2>1, <2>2, <2>3, <2>4
<1>11. Scan!NothingIsLeftOut'
  <2> SUFFICES ASSUME ~Scan!WalkIsCapped, NEW p \in Scan!Shallow
               PROVE  LET was == IF tree[p] = "locked" THEN None ELSE tree[p]
                      IN /\ entries[p] # was => {e[1] : e \in {x \in events' : x[2] = p}} # {} \/ p \in detail'
                         /\ entries'[p] = was
    BY <1>1, <1>3 DEF Scan!NothingIsLeftOut, Scan!About
  <2>1. (IF tree[p] = "locked" THEN None ELSE tree[p]) = IF tree[p] \in Scan!Entry THEN tree[p] ELSE None
    BY <1>2, ScanConstants DEF Scan!TypeOK
  <2>2. ASSUME entries[p] # entries'[p]
        PROVE  {e[1] : e \in {x \in events' : x[2] = p}} # {} \/ p \in detail'
    <3> HIDE DEF E
    <3>1. PICK e \in E : e[2] = p
      BY <1>10, <2>2
    <3> QED
      BY <1>5, <3>1
  <2> QED
    BY <1>10, <2>1, <2>2
<1>12. Scan!GoneIsGone'
  <2> SUFFICES ASSUME NEW p \in Scan!Place, NEW e \in events', e[2] = p, e[1] \in {"delete", "transient"}
               PROVE  tree[p] \in {None, "locked"}
    BY <1>1, <1>3 DEF Scan!GoneIsGone, Scan!About
  <2>1. e \in D
    <3> HIDE DEF E, more, D
    <3>1. e \in E
      BY <1>5, <1>7
    <3> QED
      BY <1>8, <3>1
  <2>2. ~Scan!WalkIsCapped /\ p \notin S
    BY <1>9, <2>1
  <2> QED
    BY <1>2, <1>4, <2>2, ScanConstants DEF Scan!TypeOK
<1>13. Scan!QuietWhenUnchanged
  <2> SUFFICES ASSUME last.kind = "full" PROVE events' = {} /\ detail' = {}
    BY DEF Scan!QuietWhenUnchanged
  <2>1. entries = Scan!Renewed(S) /\ degraded = Bad
    BY <1>2
  <2>2. C = {} /\ H = {} /\ D = {}
    BY <1>4, <2>1, ScanConstants DEF Scan!Renewed, Scan!Each, Scan!Created, Scan!Changed, Scan!Deleted
  <2> QED
    BY <1>5, <2>1, <2>2
<1>14. Scan!TypeOK'
  <2>1. events' \subseteq Scan!What \X (0 .. N) /\ detail' \subseteq Scan!Place
    <3>1. <<"degraded", 0>> \in Scan!What \X (0 .. N) /\ <<"many", 0>> \in Scan!What \X (0 .. N)
      BY ScanConstants DEF Scan!What
    <3> HIDE DEF E, more
    <3> QED
      BY <1>5, <1>6, <1>7, <3>1
  <2>2. entries' \in [Scan!Place -> Scan!Entry \cup {None}]
    BY <1>1, <1>2, BaselineTypes
  <2>3. degraded' \in BOOLEAN /\ broken' \in BOOLEAN
    BY <1>1 DEF Bad
  <2> QED
    BY <1>1, <1>2, <1>3, <2>1, <2>2, <2>3 DEF Scan!TypeOK
<1>15. ScanInv'
  <2>1. (Bad <=> Bad') /\ Scan!Renewed(S) = Scan!Renewed(S)'
    BY <1>1 DEF Bad, Scan!Renewed, Scan!Walked, Scan!WalkIsCapped, Scan!Recorded, Scan!Having, Scan!Shallow
  <2>2. degraded' = Bad'
    BY <1>1, <2>1 DEF Bad
  <2> QED
    BY <1>1, <1>2, <1>14, <2>1, <2>2 DEF ScanInv
<1> QED
  BY <1>11, <1>12, <1>13, <1>15 DEF ScanSays

LEMMA PathScanSays ==
  ASSUME ScanInv, NEW R \in SUBSET Scan!Place, Scan!PathScan(R)
  PROVE  ScanInv' /\ ScanSays
<1> DEFINE A == R \ Deep
<1>1. PICK S \in Scan!Picked(A) :
        LET gone == A \ S
            had == {p \in gone : entries[p] # None}
        IN /\ Scan!Report(Scan!Each("deep", (R \cap Deep) \ depthWarned)
                     \cup Scan!Each("create", Scan!Created(S)) \cup Scan!Each("change", Scan!Changed(S))
                     \cup Scan!Each("delete", had) \cup Scan!Each("transient", gone \ had), {})
           /\ entries' = Scan!Updated(S, gone)
           /\ Scan!Noted("paths", A, S # Scan!Recorded(A))
  BY DEF Scan!PathScan
<1> DEFINE gone == A \ S
           had == {p \in gone : entries[p] # None}
           W == Scan!Each("deep", (R \cap Deep) \ depthWarned)
           C == Scan!Each("create", Scan!Created(S))
           H == Scan!Each("change", Scan!Changed(S))
           D == Scan!Each("delete", had)
           T == Scan!Each("transient", gone \ had)
           E == W \cup C \cup H \cup D \cup T
           capped == S # Scan!Recorded(A)
<1>2. /\ initialized /\ Scan!Report(E, {}) /\ entries' = Scan!Updated(S, gone)
      /\ last' = [kind |-> "paths", paths |-> A, capped |-> capped] /\ base' = entries
      /\ broken' = (capped \/ Scan!Having(A, "locked") # {} \/ broken)
      /\ depthWarned' = depthWarned \cup (R \cap Deep)
      /\ UNCHANGED <<tree, initialized, degraded>>
  BY <1>1 DEF Scan!PathScan, Scan!Noted
<1>3. Scan!TypeOK /\ \A q \in Deep : tree[q] = None
  BY DEF ScanInv
<1>4. /\ S \subseteq A /\ A \subseteq Scan!Place /\ S \in SUBSET Scan!Recorded(Scan!Place)
      /\ \A p \in S : tree[p] \in Scan!Entry
      /\ ~capped => \A p \in A : tree[p] \in Scan!Entry => p \in S
  BY DEF Scan!Picked, Scan!Recorded
<1>5. /\ last'.kind = "paths" /\ last'.paths = A /\ last'.capped = capped
      /\ last' \in [kind : {"none", "full", "paths"}, paths : SUBSET Scan!Place, capped : BOOLEAN]
  BY <1>2, <1>4
<1>6. /\ \A e \in E : e \in events' \/ e[2] \in detail'
      /\ events' \subseteq E \cup {<<"many", 0>>}
      /\ \A p \in detail' : \E e \in E : p = e[2]
  <2> HIDE DEF E
  <2>1. /\ \A e \in E : e \in events' \/ e[2] \in detail'
        /\ events' \subseteq E \cup {} \cup {<<"many", 0>>}
        /\ \A p \in detail' : \E e \in E : p = e[2]
    BY <1>2, ReportMeans
  <2> QED
    BY <2>1
<1>7. E \subseteq Scan!What \X (0 .. N) /\ \A e \in E : e[2] \in Scan!Place
  <2>1. \A what \in Scan!What : \A P \in SUBSET Scan!Place :
          \A e \in Scan!Each(what, P) : e \in Scan!What \X (0 .. N) /\ e[2] \in Scan!Place
    BY ScanConstants DEF Scan!Each
  <2>2. /\ {(R \cap Deep) \ depthWarned, Scan!Created(S), Scan!Changed(S), had, gone \ had} \subseteq SUBSET Scan!Place
        /\ {"deep", "create", "change", "delete", "transient"} \subseteq Scan!What
    BY <1>4 DEF Scan!Created, Scan!Changed, Scan!What
  <2>3. \A e \in W \cup C \cup H \cup D \cup T : e \in Scan!What \X (0 .. N) /\ e[2] \in Scan!Place
    <3> HIDE DEF had, gone
    <3> QED
      BY <2>1, <2>2
  <2> QED
    BY <2>3
<1>8. \A e \in E : e[1] \in {"delete", "transient"} => e[2] \in gone
  BY DEF Scan!Each
<1>9. ASSUME ~capped, NEW p \in A
      PROVE  /\ entries'[p] = IF tree[p] \in Scan!Entry THEN tree[p] ELSE None
             /\ entries[p] # entries'[p] => \E e \in E : e[2] = p
  <2>1. entries'[p] = IF tree[p] \in Scan!Entry THEN tree[p] ELSE None
    BY <1>2, <1>4, <1>9 DEF Scan!Updated
  <2>2. CASE tree[p] \in Scan!Entry /\ entries[p] = None
    <3>1. <<"create", p>> \in C
      BY <1>4, <1>9, <2>2 DEF Scan!Each, Scan!Created
    <3> QED
      BY <2>1, <3>1
  <2>3. CASE tree[p] \in Scan!Entry /\ entries[p] # None /\ entries[p] # tree[p]
    <3>1. <<"change", p>> \in H
      BY <1>4, <1>9, <2>3 DEF Scan!Each, Scan!Changed
    <3> QED
      BY <2>1, <3>1
  <2>4. CASE tree[p] \notin Scan!Entry /\ entries[p] # None
    <3>1. <<"delete", p>> \in D
      BY <1>4, <1>9, <2>4 DEF Scan!Each
    <3>2. <<"delete", p>> \in E /\ <<"delete", p>>[2] = p
      <4> HIDE DEF W, C, H, D, T
      <4> QED
        BY <3>1
    <3> HIDE DEF E, A
    <3> QED
      BY <2>1, <3>2
  <2>5. CASE entries[p] = entries'[p]
    BY <2>1, <2>5
  <2> HIDE DEF E, A, capped
  <2> QED
    BY <2>1, <2>2, <2>3, <2>4, <2>5
<1>10. Scan!NothingIsLeftOut'
  <2> SUFFICES ASSUME ~capped, NEW p \in A
               PROVE  LET was == IF tree[p] = "locked" THEN None ELSE tree[p]
                      IN /\ entries[p] # was => {e[1] : e \in {x \in events' : x[2] = p}} # {} \/ p \in detail'
                         /\ entries'[p] = was
    BY <1>2, <1>5 DEF Scan!NothingIsLeftOut, Scan!About
  <2>1. (IF tree[p] = "locked" THEN None ELSE tree[p]) = IF tree[p] \in Scan!Entry THEN tree[p] ELSE None
    BY <1>3, <1>4, ScanConstants DEF Scan!TypeOK
  <2>2. ASSUME entries[p] # entries'[p]
        PROVE  {e[1] : e \in {x \in events' : x[2] = p}} # {} \/ p \in detail'
    <3> HIDE DEF E
    <3>1. PICK e \in E : e[2] = p
      BY <1>9, <2>2
    <3> QED
      BY <1>6, <3>1
  <2> QED
    BY <1>9, <2>1, <2>2
<1>11. Scan!GoneIsGone'
  <2> SUFFICES ASSUME NEW p \in Scan!Place, NEW e \in events', e[2] = p, e[1] \in {"delete", "transient"}, ~capped
               PROVE  tree[p] \in {None, "locked"}
    <3> HIDE DEF capped, A
    <3> QED
      BY <1>2, <1>5 DEF Scan!GoneIsGone, Scan!About
  <2>1. p \in gone
    <3> HIDE DEF E, gone
    <3>1. e \in E
      BY <1>6
    <3> QED
      BY <1>8, <3>1
  <2> QED
    BY <1>3, <1>4, <2>1, ScanConstants DEF Scan!TypeOK
<1>12. Scan!QuietWhenUnchanged
  BY <1>5 DEF Scan!QuietWhenUnchanged
<1>13. Scan!TypeOK'
  <2>1. events' \subseteq Scan!What \X (0 .. N) /\ detail' \subseteq Scan!Place
    <3>1. <<"many", 0>> \in Scan!What \X (0 .. N)
      BY ScanConstants DEF Scan!What
    <3> HIDE DEF E
    <3> QED
      BY <1>6, <1>7, <3>1
  <2>2. entries' \in [Scan!Place -> Scan!Entry \cup {None}]
    BY <1>2, <1>3, <1>4, BaselineTypes
  <2>3. broken' \in BOOLEAN
    BY <1>2, <1>3 DEF Scan!TypeOK
  <2> QED
    BY <1>2, <1>3, <1>5, <2>1, <2>2, <2>3 DEF Scan!TypeOK
<1>14. ScanInv'
  BY <1>2, <1>3, <1>5, <1>13 DEF ScanInv
<1> QED
  BY <1>10, <1>11, <1>12, <1>14 DEF ScanSays

(* DirScan is typed, nothing is found below the depth limit, and after a   *)
(* full scan the baseline is what a walk finds, until something changes.   *)
THEOREM ScanInvariance == Scan!Spec => []ScanInv
<1>1. ScanInv /\ [Scan!Next]_(Scan!vars) => ScanInv'
  <2> SUFFICES ASSUME ScanInv, [Scan!Next]_(Scan!vars) PROVE ScanInv'
    OBVIOUS
  <2>1. CASE Scan!Next
    BY <2>1, ChangeSays, FirstScanSays, FullScanSays, PathScanSays DEF Scan!Next
  <2>2. CASE UNCHANGED Scan!vars
    <3>1. UNCHANGED <<tree, entries, initialized, degraded, depthWarned, events, detail, last, base, broken>>
      BY <2>2 DEF Scan!vars
    <3>2. Scan!TypeOK'
      BY <3>1 DEF ScanInv, Scan!TypeOK
    <3>3. (Bad <=> Bad') /\ Scan!Renewed(Scan!Walked) = Scan!Renewed(Scan!Walked)'
      BY <3>1 DEF Bad, Scan!Renewed, Scan!Walked, Scan!WalkIsCapped, Scan!Recorded, Scan!Having, Scan!Shallow
    <3> QED
      BY <3>1, <3>2, <3>3 DEF ScanInv, Bad
  <2> QED
    BY <2>1, <2>2
<1> QED
  BY <1>1, ScanInit, PTL DEF Scan!Spec

(* A scan leaves out nothing it looked at, reports as gone only what cannot *)
(* be read, and says nothing twice (fim_watch.go: scanLocked, diffLocked).  *)
THEOREM ScanTheorem == Scan!Spec => ScanIsHonest
<1>1. ScanInv /\ [Scan!Next]_(Scan!vars) => [ScanSays]_(Scan!vars)
  BY ChangeSays, FirstScanSays, FullScanSays, PathScanSays DEF Scan!Next
<1>2. Scan!Spec => [][ScanSays]_(Scan!vars)
  BY <1>1, ScanInvariance, PTL DEF Scan!Spec
<1> QED
  BY <1>2, PTL DEF ScanIsHonest, Scan!ScanIsHonest, ScanSays

-----------------------------------------------------------------------------
\* FailedLogins: types.

LEMMA LoginConstants ==
  /\ {FailedBurst, SustainedBurst, BlockDuration, BurstWindow, SustainedWindow, EnumWindow,
      maxFailTrackers, maxBlockedIPs} \subseteq Nat \ {0}
  /\ EnumUsers \in Nat /\ SustainedWindow >= BurstWindow /\ MaxTime \in Nat
  /\ IsFiniteSet(Source) /\ IsFiniteSet(User)
  /\ None \notin User /\ None \notin Until /\ None \notin Time /\ None \notin failTracker /\ None \notin Block
  /\ Time \subseteq Nat /\ Until \subseteq Nat
<1>1. Time \subseteq Until
  BY LoginAssumption DEF Validated, Time, Until
<1>2. Time \subseteq Nat /\ Until \subseteq Nat
  BY DEF Time, Until
<1> QED
  BY <1>1, <1>2, LoginAssumption DEF Validated

\* Some number of leading entries is dropped, and it is the number of those outside the window.
LEMMA DroppedMeans ==
  ASSUME NEW ts \in Seq(Time), NEW window \in Nat, now \in Time
  PROVE  /\ Dropped(ts, window) \in 0 .. Len(ts)
         /\ \A i \in 1 .. Dropped(ts, window) : ts[i] <= now - window
<1> DEFINE In == {d \in 0 .. Len(ts) : d = Len(ts) \/ ts[d + 1] > now - window}
<1>1. Len(ts) \in Nat /\ \A i \in 1 .. Len(ts) : ts[i] \in Int
  <2>1. \A i \in 1 .. Len(ts) : ts[i] \in Time
    OBVIOUS
  <2>2. \A t \in Time : t \in Int
    BY LoginConstants
  <2>3. Len(ts) \in Nat
    OBVIOUS
  <2>4. \A i \in 1 .. Len(ts) : ts[i] \in Int
    BY <2>1, <2>2, Zenon
  <2> QED
    BY <2>3, <2>4
<1>2. In \in SUBSET Int /\ IsFiniteSet(In) /\ In # {}
  <2>1. IsFiniteSet(0 .. Len(ts)) /\ In \in SUBSET (0 .. Len(ts))
    BY <1>1, FS_Interval
  <2>2. IsFiniteSet(In)
    BY <2>1, FS_Subset
  <2>3. Len(ts) \in In
    BY <1>1
  <2> QED
    BY <1>1, <2>2, <2>3
<1>3. PICK d \in In : \A e \in In : d <= e
  <2> HIDE DEF In
  <2> QED
    BY <1>2, HasLeast
<1>4. ASSUME NEW i \in 1 .. d PROVE ts[i] <= now - window
  <2>1. i - 1 \in 0 .. Len(ts) /\ i - 1 < d /\ i - 1 # Len(ts) /\ (i - 1) + 1 = i
    BY <1>1, <1>3
  <2>2. i - 1 \notin In
    <3>1. d \in Int /\ ~(d <= i - 1)
      BY <1>1, <1>3
    <3> HIDE DEF In
    <3> QED
      BY <1>3, <3>1
  <2>3. ~(ts[i] > now - window)
    BY <2>1, <2>2
  <2>4. ts[i] \in Int /\ now \in Int
    BY <1>1, <1>3, LoginConstants
  <2> QED
    BY <2>3, <2>4
<1>5. \E e \in 0 .. Len(ts) : /\ \A i \in 1 .. e : ts[i] <= now - window
                              /\ e < Len(ts) => ts[e + 1] > now - window
  BY <1>3, <1>4
<1> DEFINE Right(e) == /\ \A i \in 1 .. e : ts[i] <= now - window
                       /\ e < Len(ts) => ts[e + 1] > now - window
<1>6. Dropped(ts, window) = CHOOSE e \in 0 .. Len(ts) : Right(e)
  BY DEF Dropped
<1>7. \E e \in 0 .. Len(ts) : Right(e)
  BY <1>5
<1>8. Dropped(ts, window) \in 0 .. Len(ts) /\ Right(Dropped(ts, window))
  <2> HIDE DEF Right
  <2> QED
    BY <1>6, <1>7
<1> QED
  BY <1>8

LEMMA AppendType ==
  ASSUME NEW ts \in Seq(Time), NEW window \in Nat, NEW keep \in Nat \ {0}, now \in Time
  PROVE  /\ appendFailureTime(ts, window, keep) \in Seq(Time)
         /\ Len(appendFailureTime(ts, window, keep)) <= keep
<1> DEFINE d == Dropped(ts, window)
           all == Append(SubSeq(ts, d + 1, Len(ts)), now)
<1>1. d \in 0 .. Len(ts)
  BY DroppedMeans
<1>2. all \in Seq(Time)
  <2>1. SubSeq(ts, d + 1, Len(ts)) \in Seq(Time)
    BY <1>1
  <2> QED
    BY <2>1
<1> HIDE DEF all
<1>3. CASE Len(all) > keep
  <2>1. appendFailureTime(ts, window, keep) = SubSeq(all, Len(all) - keep + 1, Len(all))
    BY <1>3 DEF appendFailureTime, all
  <2> QED
    BY <1>2, <1>3, <2>1
<1>4. CASE ~(Len(all) > keep)
  <2>1. appendFailureTime(ts, window, keep) = all
    BY <1>4 DEF appendFailureTime, all
  <2> QED
    BY <1>2, <1>4, <2>1
<1> QED
  BY <1>3, <1>4

\* The bounded logs of a tracker are sequences of times of bounded length.
LEMMA TimesAreSequences ==
  ASSUME NEW n \in Nat
  PROVE  \A ts : ts \in TimesOf(n) <=> ts \in Seq(Time) /\ Len(ts) <= n
<1>1. ASSUME NEW ts \in TimesOf(n) PROVE ts \in Seq(Time) /\ Len(ts) <= n
  <2>1. PICK k \in 0 .. n : ts \in [1 .. k -> Time]
    BY DEF TimesOf
  <2> QED
    BY <2>1
<1>2. ASSUME NEW ts \in Seq(Time), Len(ts) <= n PROVE ts \in TimesOf(n)
  <2>1. Len(ts) \in 0 .. n /\ ts \in [1 .. Len(ts) -> Time]
    BY <1>2
  <2> QED
    BY <2>1 DEF TimesOf
<1> QED
  BY <1>1, <1>2

LEMMA NamesType ==
  ASSUME NEW users \in [User -> Time \cup {None}], NEW user \in User, now \in Time
  PROVE  NamesAfter(users, user) \subseteq [User -> Time \cup {None}]
<1> DEFINE room == {[users EXCEPT ![u] = None] : u \in Oldest(users)}
           from == IF Cardinality(Tried(users)) >= EnumUsers THEN room ELSE {users}
           with == IF users[user] # None THEN {users} ELSE {[f EXCEPT ![user] = now] : f \in from}
<1>1. room \subseteq [User -> Time \cup {None}]
  BY DEF Oldest, Tried
<1>2. from \subseteq [User -> Time \cup {None}]
  BY <1>1
<1>3. with \subseteq [User -> Time \cup {None}]
  <2> HIDE DEF from
  <2> QED
    BY <1>2
<1>4. NamesAfter(users, user) =
        {[u \in User |-> IF f[u] # None /\ f[u] > now - EnumWindow THEN f[u] ELSE None] : f \in with}
  BY DEF NamesAfter
<1> HIDE DEF with
<1> QED
  BY <1>3, <1>4

LEMMA CountedType ==
  ASSUME NEW tr \in failTracker, NEW user \in User, NEW users \in [User -> Time \cup {None}], now \in Time
  PROVE  Counted(tr, user, users) \in failTracker
<1>1. /\ tr.recent \in Seq(Time) /\ tr.sustained \in Seq(Time)
      /\ FailedBurst \in Nat \ {0} /\ SustainedBurst \in Nat \ {0} /\ BurstWindow \in Nat /\ SustainedWindow \in Nat
  BY LoginConstants, TimesAreSequences DEF failTracker
<1>2. appendFailureTime(tr.recent, BurstWindow, FailedBurst) \in TimesOf(FailedBurst)
  BY <1>1, AppendType, TimesAreSequences
<1>3. appendFailureTime(tr.sustained, SustainedWindow, SustainedBurst) \in TimesOf(SustainedBurst)
  BY <1>1, AppendType, TimesAreSequences
<1>4. (tr.notified /\ ~Rearmed(tr)) \in BOOLEAN
  BY DEF Rearmed
<1> QED
  BY <1>2, <1>3, <1>4 DEF Counted, failTracker

LEMMA NewTrackerType == ASSUME now \in Time PROVE NewTracker \in failTracker
<1>1. <<>> \in TimesOf(FailedBurst) /\ <<>> \in TimesOf(SustainedBurst)
  <2>1. <<>> \in Seq(Time) /\ Len(<<>>) <= FailedBurst /\ Len(<<>>) <= SustainedBurst
    BY LoginConstants
  <2> QED
    BY <2>1, LoginConstants, TimesAreSequences
<1> QED
  BY <1>1 DEF NewTracker, failTracker

-----------------------------------------------------------------------------
\* FailedLogins: the tables and their limits.

Table == [Source -> Until \cup {None}]

LEMMA HeldFinite ==
  \A table : /\ Held(table) \subseteq Source /\ IsFiniteSet(Held(table)) /\ Cardinality(Held(table)) \in Nat
             /\ \A S \in SUBSET Held(table) : IsFiniteSet(S) /\ Cardinality(S) \in Nat
                                              /\ Cardinality(S) <= Cardinality(Held(table))
<1> SUFFICES ASSUME NEW table
             PROVE  /\ Held(table) \subseteq Source /\ IsFiniteSet(Held(table)) /\ Cardinality(Held(table)) \in Nat
                    /\ \A S \in SUBSET Held(table) : IsFiniteSet(S) /\ Cardinality(S) \in Nat
                                                     /\ Cardinality(S) <= Cardinality(Held(table))
  OBVIOUS
<1>1. Held(table) \in SUBSET Source
  BY DEF Held
<1>2. IsFiniteSet(Held(table))
  BY <1>1, LoginConstants, FS_Subset
<1> QED
  BY <1>1, <1>2, FS_Subset, FS_CardinalityType

LEMMA EvictMeans ==
  ASSUME NEW table \in Table, Cardinality(Held(table)) <= maxBlockedIPs, NEW room \in evictBlocked(table)
  PROVE  room \in Table /\ Held(room) \subseteq Held(table) /\ Cardinality(Held(room)) < maxBlockedIPs
<1> DEFINE left == {s \in Held(table) : table[s] >= now}
           Keep(S) == [s \in Source |-> IF s \in S THEN table[s] ELSE None]
<1>1. \A S \in SUBSET Held(table) : Keep(S) \in Table /\ Held(Keep(S)) = S
  BY DEF Held, Table
<1>2. left \in SUBSET Held(table) /\ maxBlockedIPs \in Nat
  BY LoginConstants
<1>3. IsFiniteSet(left) /\ Cardinality(left) \in Nat /\ Cardinality(left) <= Cardinality(Held(table))
      /\ Cardinality(Held(table)) \in Nat
  BY <1>2, HeldFinite
<1>4. \/ Cardinality(Held(table)) < maxBlockedIPs /\ room = table
      \/ Cardinality(left) < maxBlockedIPs /\ room = Keep(left)
      \/ \E s \in left : room = Keep(left \ {s})
  BY DEF evictBlocked
<1> HIDE DEF left, Keep
<1>5. CASE Cardinality(Held(table)) < maxBlockedIPs /\ room = table
  BY <1>5
<1>6. CASE Cardinality(left) < maxBlockedIPs /\ room = Keep(left)
  BY <1>1, <1>2, <1>6
<1>7. ASSUME NEW s \in left, room = Keep(left \ {s})
      PROVE  room \in Table /\ Held(room) \subseteq Held(table) /\ Cardinality(Held(room)) < maxBlockedIPs
  <2>1. left \ {s} \in SUBSET Held(table)
    BY <1>2
  <2>2. room \in Table /\ Held(room) = left \ {s}
    BY <1>1, <1>7, <2>1
  <2>3. Cardinality(left \ {s}) = Cardinality(left) - 1
    BY <1>3, FS_RemoveElement
  <2> QED
    BY <1>2, <1>3, <2>1, <2>2, <2>3
<1> QED
  BY <1>4, <1>5, <1>6, <1>7

LEMMA EntryMeans ==
  ASSUME NEW room \in Table, Cardinality(Held(room)) < maxBlockedIPs, NEW s \in Source, now \in Time
  PROVE  LET table == [room EXCEPT ![s] = now + BlockDuration]
         IN table \in Table /\ Held(table) = Held(room) \cup {s} /\ Cardinality(Held(table)) <= maxBlockedIPs
<1> DEFINE table == [room EXCEPT ![s] = now + BlockDuration]
<1>1. now + BlockDuration \in Until /\ now + BlockDuration # None
  <2>1. now \in 0 .. MaxTime /\ MaxTime \in Nat /\ BlockDuration \in Nat /\ None \notin Until
    BY LoginConstants DEF Time
  <2>2. now + BlockDuration \in Until
    BY <2>1 DEF Until
  <2> QED
    BY <2>1, <2>2
<1>2. table \in Table /\ Held(table) = Held(room) \cup {s}
  <2> HIDE DEF table
  <2>1. /\ table \in [Source -> Until \cup {None}] /\ table[s] # None
        /\ \A t \in Source \ {s} : table[t] = room[t]
    BY <1>1 DEF Table, table
  <2> QED
    BY <2>1 DEF Held, Table
<1>3. Cardinality(Held(room) \cup {s}) <= Cardinality(Held(room)) + 1
  <2>1. IsFiniteSet(Held(room)) /\ Cardinality(Held(room)) \in Nat
    BY HeldFinite
  <2> QED
    BY <2>1, FS_AddElement
<1>4. Cardinality(Held(table)) \in Nat /\ Cardinality(Held(room)) \in Nat /\ maxBlockedIPs \in Nat
  BY HeldFinite, LoginConstants
<1> HIDE DEF table
<1>5. Cardinality(Held(table)) <= maxBlockedIPs
  BY <1>2, <1>3, <1>4
<1> QED
  BY <1>2, <1>5 DEF table

LEMMA SmallerTable ==
  ASSUME NEW table, NEW other, Held(table) \subseteq Held(other), Cardinality(Held(other)) <= maxBlockedIPs
  PROVE  Cardinality(Held(table)) <= maxBlockedIPs
<1>1. /\ Cardinality(Held(table)) <= Cardinality(Held(other))
      /\ Cardinality(Held(table)) \in Nat /\ Cardinality(Held(other)) \in Nat /\ maxBlockedIPs \in Nat
  BY HeldFinite, LoginConstants
<1> QED
  BY <1>1

\* After the eviction there is room for a tracker.
LEMMA TrackersEvicted ==
  ASSUME NEW gone \in evictOldestFailTracker, Cardinality(Held(failCounts)) <= maxFailTrackers
  PROVE  /\ gone \subseteq Held(failCounts)
         /\ Cardinality(Held(failCounts) \ gone) < maxFailTrackers
<1> DEFINE tracked == Held(failCounts)
           idle == {s \in tracked : now - failCounts[s].lastSeen > BurstWindow
                                    /\ now - failCounts[s].first > BurstWindow}
           left == tracked \ idle
<1>1. IsFiniteSet(tracked) /\ Cardinality(tracked) \in Nat /\ maxFailTrackers \in Nat
      /\ IsFiniteSet(left) /\ Cardinality(left) \in Nat /\ Cardinality(left) <= Cardinality(tracked)
  BY HeldFinite, LoginConstants
<1>2. \/ Cardinality(tracked) < maxFailTrackers /\ gone = {}
      \/ Cardinality(left) < maxFailTrackers /\ gone = idle
      \/ \E s \in left : gone = idle \cup {s}
  BY DEF evictOldestFailTracker, Held
<1>3. idle \subseteq tracked
  OBVIOUS
<1> HIDE DEF tracked, idle
<1>4. CASE Cardinality(tracked) < maxFailTrackers /\ gone = {}
  <2>1. tracked \ gone = tracked
    BY <1>4
  <2> QED
    BY <1>4, <2>1 DEF tracked
<1>5. CASE Cardinality(left) < maxFailTrackers /\ gone = idle
  BY <1>3, <1>5 DEF tracked
<1>6. ASSUME NEW s \in left, gone = idle \cup {s}
      PROVE  gone \subseteq tracked /\ Cardinality(tracked \ gone) < maxFailTrackers
  <2>1. tracked \ gone = left \ {s} /\ gone \subseteq tracked
    BY <1>3, <1>6
  <2>2. Cardinality(left \ {s}) = Cardinality(left) - 1
    BY <1>1, FS_RemoveElement
  <2>3. Cardinality(tracked) <= maxFailTrackers
    BY DEF tracked
  <2> QED
    BY <1>1, <2>1, <2>2, <2>3
<1> QED
  BY <1>2, <1>4, <1>5, <1>6 DEF tracked

-----------------------------------------------------------------------------
\* FailedLogins: what every step keeps.

LoginTypes ==
  /\ TypeOK
  /\ counted \in [Source -> SUBSET (Time \X User)] /\ quietSince \in [Source -> Time]
  /\ reported \in [Source -> Nat]
  /\ Cardinality(Held(saved)) <= maxBlockedIPs
  /\ applying # None => Cardinality(Held(applying.table)) <= maxBlockedIPs

LEMMA LoginTypesMean ==
  ASSUME LoginTypes
  PROVE  /\ now \in Time /\ failCounts \in [Source -> failTracker \cup {None}]
         /\ blocked \in Table /\ saved \in Table /\ rules \subseteq Source
         /\ applying # None => applying \in Block
         /\ Cardinality(Held(failCounts)) <= maxFailTrackers
         /\ Cardinality(Held(blocked)) <= maxBlockedIPs
  BY DEF LoginTypes, TypeOK, Held, Table

LEMMA LoginTypesProved ==
  ASSUME now' \in Time, failCounts' \in [Source -> failTracker \cup {None}],
         blocked' \in Table, saved' \in Table, rules' \subseteq Source,
         applying' # None => applying' \in Block /\ Cardinality(Held(applying'.table)) <= maxBlockedIPs,
         Cardinality(Held(failCounts')) <= maxFailTrackers,
         Cardinality(Held(blocked')) <= maxBlockedIPs, Cardinality(Held(saved')) <= maxBlockedIPs,
         counted' \in [Source -> SUBSET (Time \X User)], quietSince' \in [Source -> Time],
         reported' \in [Source -> Nat]
  PROVE  LoginTypes'
<1>1. Cardinality(Held(failCounts)') <= maxFailTrackers /\ Cardinality(Held(blocked)') <= maxBlockedIPs
      /\ Cardinality(Held(saved)') <= maxBlockedIPs
      /\ applying' # None => Cardinality(Held(applying.table)') <= maxBlockedIPs
  BY DEF Held
<1> QED
  BY <1>1 DEF LoginTypes, TypeOK, Held, Table

LEMMA LoginInitTypes == Init => LoginTypes /\ RulesAreTracked
<1> SUFFICES ASSUME Init PROVE LoginTypes /\ RulesAreTracked
  OBVIOUS
<1>1. Held(Nobody) = {} /\ Cardinality({}) = 0
  BY FS_EmptySet DEF Held, Nobody
<1>2. now \in Time /\ 0 <= maxFailTrackers /\ 0 <= maxBlockedIPs
  BY LoginConstants DEF Init, Time
<1>3. \A n \in Nat : TRUE
  OBVIOUS
<1>4. Cardinality(Held(failCounts)) = 0 /\ Cardinality(Held(blocked)) = 0 /\ Cardinality(Held(saved)) = 0
  BY <1>1 DEF Init
<1>5. /\ failCounts \in [Source -> failTracker \cup {None}]
      /\ blocked \in [Source -> Until \cup {None}] /\ saved \in [Source -> Until \cup {None}]
      /\ counted \in [Source -> SUBSET (Time \X User)] /\ quietSince \in [Source -> Time]
      /\ reported \in [Source -> Nat] /\ rules = {} /\ applying = None
  BY <1>2 DEF Init, Nobody
<1>6. TypeOK
  BY <1>2, <1>4, <1>5 DEF TypeOK, Held
<1> QED
  BY <1>2, <1>4, <1>5, <1>6 DEF LoginTypes, RulesAreTracked

\* A new failure finds a tracker, and leaves one behind.
LEMMA FailureTypes ==
  ASSUME LoginTypes, NEW s \in Source, NEW user \in User, Failure(s, user)
  PROVE  LoginTypes'
<1>0. PICK gone \in IF failCounts[s] = None THEN evictOldestFailTracker ELSE {{}} :
        LET old == IF failCounts[s] = None THEN NewTracker ELSE failCounts[s]
            kept == [t \in Source |-> IF t \in gone THEN None ELSE failCounts[t]]
        IN \E users \in NamesAfter(old.users, user) :
             LET tr == Counted(old, user, users)
             IN /\ failCounts' = [kept EXCEPT ![s] = [tr EXCEPT !.notified = @ \/ Escalates(tr)]]
                /\ IF Escalates(tr) THEN Candidate(s) ELSE UNCHANGED <<rules, applying, excused>>
                /\ counted' = [t \in Source |->
                     IF t \in gone THEN {} ELSE IF t = s THEN counted[t] \cup {<<now, user>>} ELSE counted[t]]
                /\ reported' = [reported EXCEPT ![s] =
                     (IF now - quietSince[s] > SustainedWindow \/ failCounts[s] = None THEN 0 ELSE @)
                     + (IF Escalates(tr) THEN 1 ELSE 0)]
  BY DEF Failure
<1> DEFINE old == IF failCounts[s] = None THEN NewTracker ELSE failCounts[s]
           kept == [t \in Source |-> IF t \in gone THEN None ELSE failCounts[t]]
<1>1. PICK users \in NamesAfter(old.users, user) :
        LET tr == Counted(old, user, users)
        IN /\ failCounts' = [kept EXCEPT ![s] = [tr EXCEPT !.notified = @ \/ Escalates(tr)]]
           /\ IF Escalates(tr) THEN Candidate(s) ELSE UNCHANGED <<rules, applying, excused>>
           /\ counted' = [t \in Source |->
                IF t \in gone THEN {} ELSE IF t = s THEN counted[t] \cup {<<now, user>>} ELSE counted[t]]
           /\ reported' = [reported EXCEPT ![s] =
                (IF now - quietSince[s] > SustainedWindow \/ failCounts[s] = None THEN 0 ELSE @)
                + (IF Escalates(tr) THEN 1 ELSE 0)]
  BY <1>0
<1> DEFINE tr == Counted(old, user, users)
           new == [tr EXCEPT !.notified = @ \/ Escalates(tr)]
<1>2. /\ failCounts' = [kept EXCEPT ![s] = new]
      /\ quietSince' = [quietSince EXCEPT ![s] = now]
      /\ (Candidate(s) \/ UNCHANGED <<rules, applying>>)
      /\ applying = None /\ UNCHANGED <<now, blocked, saved>>
  BY <1>1 DEF Failure
<1>3. /\ now \in Time /\ failCounts \in [Source -> failTracker \cup {None}]
      /\ blocked \in Table /\ saved \in Table /\ rules \subseteq Source
      /\ Cardinality(Held(failCounts)) <= maxFailTrackers
      /\ Cardinality(Held(blocked)) <= maxBlockedIPs /\ Cardinality(Held(saved)) <= maxBlockedIPs
      /\ counted \in [Source -> SUBSET (Time \X User)] /\ quietSince \in [Source -> Time]
      /\ reported \in [Source -> Nat]
  BY LoginTypesMean DEF LoginTypes
<1>4. old \in failTracker
  BY <1>3, NewTrackerType
<1>5. users \in [User -> Time \cup {None}]
  <2>1. old.users \in [User -> Time \cup {None}]
    BY <1>4 DEF failTracker
  <2> HIDE DEF old
  <2> QED
    BY <1>1, <1>3, <2>1, NamesType
<1>6. tr \in failTracker
  <2> HIDE DEF old
  <2> QED
    BY <1>3, <1>4, <1>5, CountedType
<1>7. new \in failTracker
  <2> HIDE DEF tr
  <2>1. (tr.notified \/ Escalates(tr)) \in BOOLEAN
    BY <1>6 DEF Escalates, failTracker
  <2> QED
    BY <1>6, <2>1 DEF failTracker
<1> HIDE DEF new, old, tr
<1>8. kept \in [Source -> failTracker \cup {None}] /\ failCounts' \in [Source -> failTracker \cup {None}]
  BY <1>2, <1>3, <1>7
<1>9. Cardinality(Held(failCounts')) <= maxFailTrackers
  <2>1. Held(failCounts') \subseteq (Held(failCounts) \ gone) \cup {s}
    <3>1. \A t \in Source \ {s} : failCounts'[t] = IF t \in gone THEN None ELSE failCounts[t]
      BY <1>2, <1>3
    <3> QED
      BY <3>1 DEF Held
  <2>2. CASE failCounts[s] = None
    <3>1. Cardinality(Held(failCounts) \ gone) < maxFailTrackers
      BY <1>0, <1>3, <2>2, TrackersEvicted
    <3>2. IsFiniteSet(Held(failCounts) \ gone) /\ Cardinality(Held(failCounts) \ gone) \in Nat
      BY HeldFinite
    <3>3. /\ IsFiniteSet((Held(failCounts) \ gone) \cup {s})
          /\ Cardinality((Held(failCounts) \ gone) \cup {s}) <= Cardinality(Held(failCounts) \ gone) + 1
          /\ Cardinality((Held(failCounts) \ gone) \cup {s}) \in Nat
      <4> DEFINE X == Held(failCounts) \ gone
      <4> HIDE DEF X
      <4>1. IsFiniteSet(X) /\ Cardinality(X) \in Nat
        BY <3>2 DEF X
      <4>2. /\ IsFiniteSet(X \cup {s})
            /\ Cardinality(X \cup {s}) = IF s \in X THEN Cardinality(X) ELSE Cardinality(X) + 1
        BY <4>1, FS_AddElement
      <4>3. Cardinality(X \cup {s}) <= Cardinality(X) + 1 /\ Cardinality(X \cup {s}) \in Nat
        BY <4>1, <4>2
      <4> QED
        BY <4>2, <4>3 DEF X
    <3>4. /\ Cardinality(Held(failCounts')) <= Cardinality((Held(failCounts) \ gone) \cup {s})
          /\ Cardinality(Held(failCounts')) \in Nat /\ maxFailTrackers \in Nat
      BY <2>1, <3>3, FS_Subset, HeldFinite, LoginConstants
    <3> QED
      BY <3>1, <3>2, <3>3, <3>4
  <2>3. CASE failCounts[s] # None
    <3>1. s \in Held(failCounts)
      BY <2>3 DEF Held
    <3>2. Cardinality(Held(failCounts')) <= Cardinality(Held(failCounts))
          /\ Cardinality(Held(failCounts')) \in Nat /\ Cardinality(Held(failCounts)) \in Nat
          /\ maxFailTrackers \in Nat
      BY <2>1, <3>1, HeldFinite, LoginConstants
    <3> QED
      BY <1>3, <3>2
  <2> QED
    BY <2>2, <2>3
<1>10. counted' \in [Source -> SUBSET (Time \X User)]
  BY <1>1, <1>3
<1>11. reported' \in [Source -> Nat]
  BY <1>1, <1>3
<1>12. quietSince' \in [Source -> Time] /\ now' \in Time /\ blocked' \in Table /\ saved' \in Table
       /\ Cardinality(Held(blocked')) <= maxBlockedIPs /\ Cardinality(Held(saved')) <= maxBlockedIPs
  BY <1>2, <1>3
<1>13. rules' \subseteq Source
       /\ (applying' # None => applying' \in Block /\ Cardinality(Held(applying'.table)) <= maxBlockedIPs)
  <2>1. CASE UNCHANGED <<rules, applying>>
    BY <1>2, <1>3, <2>1
  <2>2. CASE Candidate(s)
    <3>1. \/ rules' = rules \cup {s} /\ applying' = [source |-> s, current |-> TRUE, table |-> blocked]
          \/ UNCHANGED <<rules, applying>>
      BY <2>2 DEF Candidate
    <3>2. CASE rules' = rules \cup {s} /\ applying' = [source |-> s, current |-> TRUE, table |-> blocked]
      <4>1. applying' \in Block /\ applying'.table = blocked
        BY <1>3, <3>2 DEF Block, Table
      <4> QED
        BY <1>3, <3>2, <4>1
    <3> QED
      BY <2>1, <3>1, <3>2
  <2> QED
    BY <1>2, <2>1, <2>2
<1> QED
  BY <1>8, <1>9, <1>10, <1>11, <1>12, <1>13, LoginTypesProved

LEMMA RecordTypes == ASSUME LoginTypes, RulesAreTracked, Record PROVE LoginTypes' /\ RulesAreTracked'
<1> DEFINE mine == IF applying.current THEN blocked ELSE applying.table
<1>0. PICK room \in evictBlocked(mine) :
        LET table == [room EXCEPT ![applying.source] = now + BlockDuration]
        IN /\ blocked' = IF applying.current THEN table ELSE blocked
           /\ saved' = table
           /\ IF applying.current
                THEN Excuse(Held(mine) \ Held(table))
                ELSE Excuse({applying.source} \cup (Held(blocked) \ Held(table)))
  BY DEF Record
<1> DEFINE table == [room EXCEPT ![applying.source] = now + BlockDuration]
<1>1. /\ blocked' = IF applying.current THEN table ELSE blocked
      /\ saved' = table /\ applying' = None /\ UNCHANGED <<now, failCounts, rules, counted, quietSince, reported>>
      /\ excused' = excused \cup (IF applying.current THEN Held(blocked) \ Held(table)
                                  ELSE {applying.source} \cup (Held(blocked) \ Held(table)))
  BY <1>0 DEF Record, Excuse, ghost
<1>2. /\ now \in Time /\ applying \in Block /\ blocked \in Table
      /\ Cardinality(Held(blocked)) <= maxBlockedIPs /\ Cardinality(Held(applying.table)) <= maxBlockedIPs
  BY LoginTypesMean DEF LoginTypes, Record
<1>3. mine \in Table /\ Cardinality(Held(mine)) <= maxBlockedIPs /\ applying.source \in Source
  BY <1>2 DEF Block, Table
<1>4. room \in Table /\ Cardinality(Held(room)) < maxBlockedIPs
  <2> HIDE DEF mine
  <2> QED
    BY <1>3, EvictMeans
<1>5. table \in Table /\ Held(table) = Held(room) \cup {applying.source} /\ Cardinality(Held(table)) <= maxBlockedIPs
  BY <1>2, <1>3, <1>4, EntryMeans
<1> HIDE DEF table, mine
<1>6. LoginTypes'
  BY <1>1, <1>2, <1>5, LoginTypesMean, LoginTypesProved DEF LoginTypes
<1>7. ASSUME NEW s \in rules
      PROVE  (blocked'[s] # None /\ saved'[s] # None) \/ s \in excused'
  <2>1. s \in Source
    BY LoginTypesMean
  <2>2. \/ s \in Held(blocked) \/ applying.source = s \/ s \in excused
    BY <2>1 DEF RulesAreTracked, Held
  <2>3. CASE s \in Held(table)
    <3>1. saved'[s] # None
      BY <1>1, <2>3 DEF Held
    <3>2. CASE applying.current
      BY <1>1, <3>1, <3>2
    <3>3. CASE ~applying.current
      <4>1. blocked' = blocked
        BY <1>1, <3>3
      <4>2. s \in Held(blocked) \/ s \in excused'
        BY <1>1, <2>2, <3>3
      <4> QED
        BY <3>1, <4>1, <4>2 DEF Held
    <3> QED
      BY <3>2, <3>3
  <2>4. CASE s \notin Held(table)
    <3>1. applying.source # s
      BY <1>5, <2>4
    <3> QED
      BY <1>1, <2>2, <2>4, <3>1
  <2> QED
    BY <2>3, <2>4
<1>8. RulesAreTracked'
  BY <1>1, <1>7 DEF RulesAreTracked
<1> QED
  BY <1>6, <1>8

LEMMA UnblockTypes ==
  ASSUME LoginTypes, RulesAreTracked, UnblockExpired PROVE LoginTypes' /\ RulesAreTracked'
<1> DEFINE expired == {s \in Held(blocked) : now > blocked[s]}
<1>1. PICK failed \in SUBSET expired :
        /\ rules' = rules \ (expired \ failed)
        /\ blocked' = Unblocked(expired, failed)
        /\ saved' = IF blocked' = blocked THEN saved ELSE blocked'
  BY DEF UnblockExpired
<1>2. /\ applying = None /\ UNCHANGED <<now, failCounts, applying, counted, quietSince, reported, excused>>
      /\ LoginTypes
  BY DEF UnblockExpired, ghost
<1>3. /\ blocked' \in Table /\ Held(blocked') = Held(blocked) \ (expired \ failed)
  <2>1. blocked \in Table
    BY LoginTypesMean
  <2>2. blocked' \in Table
    BY <1>1, <2>1 DEF Unblocked, Table
  <2> HIDE DEF expired
  <2>3. \A s \in Source : blocked'[s] = IF s \in expired \ failed THEN None ELSE blocked[s]
    BY <1>1 DEF Unblocked
  <2> QED
    BY <2>2, <2>3 DEF Held
<1> HIDE DEF expired
<1>4. Cardinality(Held(blocked')) <= maxBlockedIPs
  BY <1>3, LoginTypesMean, SmallerTable
<1>5. saved' \in Table /\ Cardinality(Held(saved')) <= maxBlockedIPs
  <2>1. CASE blocked' = blocked
    BY <1>1, <2>1, LoginTypesMean DEF LoginTypes
  <2>2. CASE blocked' # blocked
    BY <1>1, <1>3, <1>4, <2>2
  <2> QED
    BY <2>1, <2>2
<1>6. LoginTypes'
  <2>1. rules' \subseteq Source
    BY <1>1, LoginTypesMean
  <2> QED
    BY <1>2, <1>3, <1>4, <1>5, <2>1, LoginTypesMean, LoginTypesProved DEF LoginTypes
<1>7. ASSUME NEW s \in rules'
      PROVE  (blocked'[s] # None /\ saved'[s] # None) \/ s \in excused'
  <2>1. s \in rules /\ s \in Source /\ s \notin expired \ failed
    BY <1>1, LoginTypesMean
  <2>2. CASE s \in excused
    BY <1>2, <2>2
  <2>3. CASE blocked[s] # None /\ saved[s] # None
    <3>1. blocked'[s] # None
      BY <1>3, <2>1, <2>3 DEF Held
    <3> QED
      BY <1>1, <2>3, <3>1
  <2> QED
    BY <1>2, <2>1, <2>2, <2>3 DEF RulesAreTracked
<1>8. RulesAreTracked'
  BY <1>7 DEF RulesAreTracked
<1> QED
  BY <1>6, <1>8

\* What was not taken over from the state file is excused.
LEMMA AnewTypes ==
  ASSUME LoginTypes, RulesAreTracked, Fresh, UNCHANGED <<now, saved, rules>>,
         applying' # None => applying' \in Block /\ Cardinality(Held(applying'.table)) <= maxBlockedIPs,
         excused \cup (Held(saved) \ Held(blocked')) \subseteq excused',
         applying # None => applying.source \in excused'
  PROVE  LoginTypes' /\ RulesAreTracked'
<1>1. /\ failCounts' = Nobody /\ blocked' = restoreState
      /\ counted' = [s \in Source |-> {}] /\ quietSince' = [s \in Source |-> now]
      /\ reported' = [s \in Source |-> 0]
  BY DEF Fresh
<1>2. now \in Time /\ saved \in Table /\ Cardinality(Held(saved)) <= maxBlockedIPs /\ rules \subseteq Source
  BY LoginTypesMean DEF LoginTypes
<1>3. blocked' \in Table /\ Held(blocked') \subseteq Held(saved)
  BY <1>1, <1>2 DEF restoreState, Table, Held
<1>4. Cardinality(Held(blocked')) <= maxBlockedIPs
  BY <1>2, <1>3, SmallerTable
<1>5. Cardinality(Held(failCounts')) <= maxFailTrackers
  <2>1. Held(failCounts') = {}
    BY <1>1 DEF Nobody, Held
  <2> QED
    BY <2>1, FS_EmptySet, LoginConstants
<1>6. LoginTypes'
  <2>1. /\ failCounts' \in [Source -> failTracker \cup {None}]
        /\ counted' \in [Source -> SUBSET (Time \X User)] /\ quietSince' \in [Source -> Time]
        /\ reported' \in [Source -> Nat]
    BY <1>1, <1>2 DEF Nobody
  <2> QED
    BY <1>2, <1>3, <1>4, <1>5, <2>1, LoginTypesProved
<1>7. ASSUME NEW s \in rules
      PROVE  (blocked'[s] # None /\ saved'[s] # None) \/ s \in excused'
  <2>1. s \in excused \/ s \in excused' \/ saved[s] # None
    BY DEF RulesAreTracked
  <2>2. s \in Source /\ saved' = saved
    BY <1>2
  <2> QED
    BY <2>1, <2>2 DEF Held
<1>8. RulesAreTracked'
  BY <1>7 DEF RulesAreTracked
<1> QED
  BY <1>6, <1>8

LEMMA ConfigureTypes == ASSUME LoginTypes, RulesAreTracked, Configure PROVE LoginTypes' /\ RulesAreTracked'
<1>1. /\ Fresh /\ UNCHANGED <<now, saved, rules>>
      /\ applying' = IF applying = None THEN None
                     ELSE [applying EXCEPT !.current = FALSE, !.table = IF applying.current THEN blocked ELSE @]
      /\ excused' = excused \cup (IF applying = None THEN Held(saved) \ Held(blocked') ELSE
                                   (Held(saved) \ Held(blocked')) \cup {applying.source})
  BY DEF Configure, Excuse
<1>2. blocked \in Table /\ Cardinality(Held(blocked)) <= maxBlockedIPs
  BY LoginTypesMean
<1>3. ASSUME applying # None PROVE applying' \in Block /\ Cardinality(Held(applying'.table)) <= maxBlockedIPs
  <2>1. applying \in Block /\ Cardinality(Held(applying.table)) <= maxBlockedIPs
    BY <1>3, LoginTypesMean DEF LoginTypes
  <2>2. applying' \in Block /\ applying'.table = IF applying.current THEN blocked ELSE applying.table
    BY <1>1, <1>2, <1>3, <2>1 DEF Block, Table
  <2> QED
    BY <1>2, <2>1, <2>2
<1>4. /\ excused \cup (Held(saved) \ Held(blocked')) \subseteq excused'
      /\ applying # None => applying.source \in excused'
      /\ applying = None => applying' = None
  BY <1>1
<1> QED
  BY <1>1, <1>3, <1>4, AnewTypes

LEMMA RestartTypes == ASSUME LoginTypes, RulesAreTracked, Restart PROVE LoginTypes' /\ RulesAreTracked'
<1>1. /\ Fresh /\ UNCHANGED <<now, saved, rules>> /\ applying' = None
      /\ excused' = excused \cup ((Held(saved) \ Held(blocked'))
                                   \cup (IF applying = None THEN {} ELSE {applying.source}))
  BY DEF Restart, Excuse
<1>2. /\ excused \cup (Held(saved) \ Held(blocked')) \subseteq excused'
      /\ applying # None => applying.source \in excused'
  BY <1>1
<1> QED
  BY <1>1, <1>2, AnewTypes

LEMMA TickTypes == ASSUME LoginTypes, RulesAreTracked, Tick PROVE LoginTypes' /\ RulesAreTracked'
<1>1. now' \in Time /\ UNCHANGED <<failCounts, blocked, saved, rules, applying, counted, quietSince, reported, excused>>
  <2>1. now \in 0 .. MaxTime /\ MaxTime \in Nat
    BY LoginTypesMean, LoginConstants DEF Time
  <2> QED
    BY <2>1 DEF Tick, firewall, ghost, Time
<1>2. LoginTypes'
  BY <1>1, LoginTypesMean, LoginTypesProved DEF LoginTypes
<1> QED
  BY <1>1, <1>2 DEF RulesAreTracked

LEMMA FailureTracks ==
  ASSUME LoginTypes, RulesAreTracked, NEW s \in Source, NEW user \in User, Failure(s, user)
  PROVE  RulesAreTracked'
<1>1. applying = None /\ UNCHANGED <<blocked, saved>>
  BY DEF Failure
<1>2. Candidate(s) \/ UNCHANGED <<rules, applying, excused>>
  BY DEF Failure
<1>3. \/ /\ rules' = rules \cup {s} /\ excused' = excused \ {s}
         /\ applying' = [source |-> s, current |-> TRUE, table |-> blocked] /\ applying' # None
      \/ UNCHANGED <<rules, applying, excused>>
  <2>1. blocked \in Table
    BY LoginTypesMean
  <2>2. [source |-> s, current |-> TRUE, table |-> blocked] \in Block
    BY <2>1 DEF Block, Table
  <2> QED
    BY <1>2, <2>2, LoginConstants DEF Candidate
<1> QED
  BY <1>1, <1>3 DEF RulesAreTracked

-----------------------------------------------------------------------------
\* FailedLogins: what the bounded windows hold.

After(C, c) == {f \in C : f[1] > c}

\* As many failures as entries are later than any moment since low.
Covers(ts, C, low) ==
  \A k \in 0 .. Len(ts) : \A c \in Int :
    c >= low /\ (k > 0 => ts[k] <= c) => Cardinality(After(C, c)) <= Len(ts) - k

LEMMA CountedFinite ==
  ASSUME NEW C \in SUBSET (Time \X User)
  PROVE  /\ IsFiniteSet(C) /\ \A f \in C : f[1] \in Nat
         /\ \A c : IsFiniteSet(After(C, c)) /\ Cardinality(After(C, c)) \in Nat
<1>1. IsFiniteSet(Time) /\ IsFiniteSet(User)
  BY LoginConstants, FS_Interval DEF Time
<1>2. IsFiniteSet(Time \X User)
  BY <1>1, FS_Product
<1>3. IsFiniteSet(C)
  BY <1>2, FS_Subset
<1>4. \A c : After(C, c) \in SUBSET C
  BY DEF After
<1>5. \A f \in C : f[1] \in Nat
  BY LoginConstants
<1> QED
  BY <1>3, <1>4, <1>5, FS_Subset, FS_CardinalityType

\* One more failure, one more entry: while a log is short of its bound it still covers.
LEMMA StillCovers ==
  ASSUME NEW ts \in Seq(Time), NEW C \in SUBSET (Time \X User), NEW user \in User,
         NEW window \in Nat, NEW keep \in Nat \ {0}, NEW low \in Int, now \in Time,
         \A f \in C : f[1] <= now,
         (Covers(ts, C, low) /\ low <= now - window) \/ (\A f \in C : f[1] <= now - window),
         Len(appendFailureTime(ts, window, keep)) < keep
  PROVE  Covers(appendFailureTime(ts, window, keep), C \cup {<<now, user>>}, now - window)
<1> DEFINE d == Dropped(ts, window)
           rest == SubSeq(ts, d + 1, Len(ts))
           all == Append(rest, now)
           new == appendFailureTime(ts, window, keep)
           D == C \cup {<<now, user>>}
<1>1. d \in 0 .. Len(ts) /\ (\A i \in 1 .. d : ts[i] <= now - window) /\ Len(ts) \in Nat
  <2>1. Len(ts) \in Nat
    OBVIOUS
  <2>2. d \in 0 .. Len(ts) /\ (\A i \in 1 .. d : ts[i] <= now - window)
    BY DroppedMeans
  <2> QED
    BY <2>1, <2>2
<1>2. rest \in Seq(Time) /\ Len(rest) = Len(ts) - d /\ \A i \in 1 .. Len(rest) : rest[i] = ts[d + i]
  <2> HIDE DEF d
  <2> QED
    BY <1>1
<1>3. /\ all \in Seq(Time) /\ Len(all) = Len(ts) - d + 1 /\ all[Len(all)] = now
      /\ \A i \in 1 .. Len(ts) - d : all[i] = ts[d + i]
  <2> HIDE DEF rest, d
  <2> QED
    BY <1>1, <1>2
<1>4. new = all
  <2> HIDE DEF all
  <2>1. new = IF Len(all) > keep THEN SubSeq(all, Len(all) - keep + 1, Len(all)) ELSE all
    BY DEF appendFailureTime, all
  <2>2. Len(all) > keep => Len(SubSeq(all, Len(all) - keep + 1, Len(all))) = keep
    BY <1>3
  <2> QED
    BY <2>1, <2>2
<1>5. D \in SUBSET (Time \X User) /\ now \in Int /\ \A f \in C : f[1] \in Int
  <2>1. D \in SUBSET (Time \X User)
    OBVIOUS
  <2>2. \A f \in C : f[1] \in Int
    <3>1. \A f \in C : f[1] \in Nat
      BY CountedFinite
    <3> QED
      BY <3>1
  <2>3. now \in Int
    BY LoginConstants
  <2> QED
    BY <2>1, <2>2, <2>3
<1>6. \A i \in 1 .. Len(ts) : ts[i] \in Int
  <2>1. \A i \in 1 .. Len(ts) : ts[i] \in Time
    OBVIOUS
  <2>2. \A t \in Time : t \in Int
    BY LoginConstants
  <2> QED
    BY <2>1, <2>2, Zenon
<1>7. ASSUME NEW c \in Int
      PROVE  /\ Cardinality(After(D, c)) \in Nat /\ Cardinality(After(C, c)) \in Nat
             /\ Cardinality(After(D, c)) <= Cardinality(After(C, c)) + 1
             /\ now <= c => Cardinality(After(D, c)) = 0
             /\ (\A f \in C : f[1] <= c) => Cardinality(After(C, c)) = 0
  <2>1. IsFiniteSet(After(C, c)) /\ Cardinality(After(C, c)) \in Nat /\ Cardinality(After(D, c)) \in Nat
    BY <1>5, CountedFinite
  <2>2. After(D, c) \subseteq After(C, c) \cup {<<now, user>>}
    BY DEF After
  <2>3. /\ IsFiniteSet(After(C, c) \cup {<<now, user>>})
        /\ Cardinality(After(C, c) \cup {<<now, user>>}) <= Cardinality(After(C, c)) + 1
        /\ Cardinality(After(C, c) \cup {<<now, user>>}) \in Nat
    <3>1. /\ IsFiniteSet(After(C, c) \cup {<<now, user>>})
          /\ Cardinality(After(C, c) \cup {<<now, user>>}) =
               IF <<now, user>> \in After(C, c) THEN Cardinality(After(C, c)) ELSE Cardinality(After(C, c)) + 1
      BY <2>1, FS_AddElement
    <3> QED
      BY <2>1, <3>1
  <2>4. Cardinality(After(D, c)) <= Cardinality(After(C, c) \cup {<<now, user>>})
    BY <2>2, <2>3, FS_Subset
  <2>5. now <= c => After(D, c) = {}
    <3>1. ASSUME now <= c, NEW f \in D PROVE ~(f[1] > c)
      <4>1. f[1] \in Int /\ f[1] <= now
        BY <1>5
      <4> QED
        BY <1>5, <3>1, <4>1
    <3> QED
      BY <3>1 DEF After
  <2>6. (\A f \in C : f[1] <= c) => After(C, c) = {}
    BY <1>5 DEF After
  <2>7. Cardinality({}) = 0
    BY FS_EmptySet
  <2>8. now <= c => Cardinality(After(D, c)) = 0
    BY <2>5, <2>7
  <2>9. (\A f \in C : f[1] <= c) => Cardinality(After(C, c)) = 0
    BY <2>6, <2>7
  <2>10. Cardinality(After(D, c)) <= Cardinality(After(C, c)) + 1
    BY <2>1, <2>3, <2>4
  <2> QED
    BY <2>1, <2>8, <2>9, <2>10
<1> SUFFICES ASSUME NEW k \in 0 .. Len(all), NEW c \in Int, c >= now - window, k > 0 => all[k] <= c
             PROVE  Cardinality(After(D, c)) <= Len(all) - k
  BY <1>4 DEF Covers
<1> DEFINE cD == Cardinality(After(D, c))
           cC == Cardinality(After(C, c))
<1>11. /\ cD \in Nat /\ cC \in Nat /\ cD <= cC + 1
       /\ now <= c => cD = 0
  BY <1>7
<1>12. (\A f \in C : f[1] <= c) => cC = 0
  BY <1>7
<1>13. Len(all) = Len(ts) - d + 1 /\ Len(ts) \in Nat /\ d \in 0 .. Len(ts) /\ now \in Int
       /\ all[Len(all)] = now /\ Len(all) > 0
  BY <1>1, <1>3, <1>5
<1> SUFFICES cD <= Len(all) - k
  OBVIOUS
<1> HIDE DEF D, all, rest, d, cD, cC
<1>8. CASE k = Len(all)
  <2>1. now <= c
    BY <1>8, <1>13
  <2> QED
    BY <1>8, <1>11, <1>13, <2>1
<1>9. CASE k # Len(all) /\ \A f \in C : f[1] <= now - window
  <2>1. \A f \in C : f[1] <= c
    BY <1>5, <1>9
  <2> QED
    BY <1>9, <1>11, <1>12, <1>13, <2>1
<1>10. CASE k # Len(all) /\ Covers(ts, C, low) /\ low <= now - window
  <2>1. d + k \in 0 .. Len(ts)
    BY <1>1, <1>3, <1>10
  <2>2. d + k > 0 => ts[d + k] <= c
    <3>1. CASE k > 0
      <4>1. k \in 1 .. Len(ts) - d
        BY <1>1, <1>3, <1>10, <3>1
      <4> QED
        BY <1>3, <3>1, <4>1
    <3>2. CASE k = 0 /\ d > 0
      <4>1. ts[d] <= now - window /\ ts[d] \in Int
        BY <1>1, <1>6, <3>2
      <4> QED
        BY <1>1, <1>5, <3>2, <4>1
    <3> QED
      BY <1>1, <3>1, <3>2
  <2>3. c >= low
    BY <1>5, <1>10
  <2>4. Cardinality(After(C, c)) <= Len(ts) - (d + k)
    BY <1>10, <2>1, <2>2, <2>3 DEF Covers
  <2> QED
    BY <1>11, <1>13, <2>4 DEF cC
<1> QED
  BY <1>8, <1>9, <1>10

(* What is known of a tracked source: its counters cover what was counted, *)
(* until it is reported.                                                   *)
CampaignKept(s) ==
  /\ quietSince[s] <= now /\ reported[s] \in {0, 1}
  /\ \A f \in counted[s] : f[1] <= quietSince[s]
  /\ failCounts[s] = None => counted[s] = {}
  /\ failCounts[s] # None =>
       /\ failCounts[s].lastSeen = quietSince[s]
       /\ ~failCounts[s].notified =>
            /\ reported[s] = 0
            /\ Len(failCounts[s].recent) < FailedBurst
            /\ Len(failCounts[s].sustained) < SustainedBurst
            /\ Covers(failCounts[s].recent, counted[s], quietSince[s] - BurstWindow)
            /\ Covers(failCounts[s].sustained, counted[s], quietSince[s] - SustainedWindow)

LoginInv == LoginTypes /\ RulesAreTracked /\ \A s \in Source : CampaignKept(s)

LEMMA FailureKeepsCampaigns ==
  ASSUME LoginTypes, \A t \in Source : CampaignKept(t), NEW s \in Source, NEW user \in User, Failure(s, user)
  PROVE  \A t \in Source : CampaignKept(t)'
<1>0. PICK gone \in IF failCounts[s] = None THEN evictOldestFailTracker ELSE {{}} :
        LET old == IF failCounts[s] = None THEN NewTracker ELSE failCounts[s]
            kept == [t \in Source |-> IF t \in gone THEN None ELSE failCounts[t]]
        IN \E users \in NamesAfter(old.users, user) :
             LET tr == Counted(old, user, users)
             IN /\ failCounts' = [kept EXCEPT ![s] = [tr EXCEPT !.notified = @ \/ Escalates(tr)]]
                /\ counted' = [t \in Source |->
                     IF t \in gone THEN {} ELSE IF t = s THEN counted[t] \cup {<<now, user>>} ELSE counted[t]]
                /\ reported' = [reported EXCEPT ![s] =
                     (IF now - quietSince[s] > SustainedWindow \/ failCounts[s] = None THEN 0 ELSE @)
                     + (IF Escalates(tr) THEN 1 ELSE 0)]
  BY DEF Failure
<1> DEFINE old == IF failCounts[s] = None THEN NewTracker ELSE failCounts[s]
           kept == [t \in Source |-> IF t \in gone THEN None ELSE failCounts[t]]
<1>1. PICK users \in NamesAfter(old.users, user) :
        LET tr == Counted(old, user, users)
        IN /\ failCounts' = [kept EXCEPT ![s] = [tr EXCEPT !.notified = @ \/ Escalates(tr)]]
           /\ counted' = [t \in Source |->
                IF t \in gone THEN {} ELSE IF t = s THEN counted[t] \cup {<<now, user>>} ELSE counted[t]]
           /\ reported' = [reported EXCEPT ![s] =
                (IF now - quietSince[s] > SustainedWindow \/ failCounts[s] = None THEN 0 ELSE @)
                + (IF Escalates(tr) THEN 1 ELSE 0)]
  BY <1>0
<1> DEFINE tr == Counted(old, user, users)
           new == [tr EXCEPT !.notified = @ \/ Escalates(tr)]
           C == counted[s]
<1>2. now' = now /\ quietSince' = [quietSince EXCEPT ![s] = now]
  BY DEF Failure
<1>3. /\ now \in Time /\ failCounts \in [Source -> failTracker \cup {None}]
      /\ counted \in [Source -> SUBSET (Time \X User)] /\ quietSince \in [Source -> Time]
      /\ reported \in [Source -> Nat] /\ Cardinality(Held(failCounts)) <= maxFailTrackers
  BY LoginTypesMean DEF LoginTypes
<1>4. old \in failTracker /\ users \in [User -> Time \cup {None}]
  <2>1. old \in failTracker
    BY <1>3, NewTrackerType
  <2>2. old.users \in [User -> Time \cup {None}]
    BY <2>1 DEF failTracker
  <2> HIDE DEF old
  <2> QED
    BY <1>1, <1>3, <2>1, <2>2, NamesType
<1>5. s \notin gone /\ \A t \in gone : t \in Held(failCounts)
  <2>1. CASE failCounts[s] = None
    <3>1. gone \subseteq Held(failCounts)
      BY <1>0, <1>3, <2>1, TrackersEvicted
    <3> QED
      BY <2>1, <3>1 DEF Held
  <2>2. CASE failCounts[s] # None
    BY <1>0, <2>2
  <2> QED
    BY <2>1, <2>2
<1>6. /\ old.recent \in Seq(Time) /\ old.sustained \in Seq(Time) /\ old.notified \in BOOLEAN
      /\ old.lastSeen \in Time \cup {None}
  <2> HIDE DEF old
  <2> QED
    BY <1>4, LoginConstants, TimesAreSequences DEF failTracker
<1>7. /\ tr.recent = appendFailureTime(old.recent, BurstWindow, FailedBurst)
      /\ tr.sustained = appendFailureTime(old.sustained, SustainedWindow, SustainedBurst)
      /\ tr.notified = (old.notified /\ ~Rearmed(old)) /\ tr.lastSeen = now
      /\ tr \in failTracker
  <2> HIDE DEF old
  <2>1. tr \in failTracker
    BY <1>3, <1>4, CountedType
  <2> QED
    BY <1>4, <2>1 DEF Counted, failTracker
<1>8. /\ new.recent = tr.recent /\ new.sustained = tr.sustained /\ new.lastSeen = now /\ new # None
      /\ (new.notified <=> tr.notified \/ Escalates(tr)) /\ new \in failTracker
  <2> HIDE DEF tr
  <2>1. (tr.notified \/ Escalates(tr)) \in BOOLEAN
    BY <1>7 DEF Escalates, failTracker
  <2>2. new \in failTracker
    BY <1>7, <2>1 DEF failTracker
  <2> QED
    BY <1>7, <2>1, <2>2, LoginConstants DEF failTracker
<1>9. /\ failCounts'[s] = new /\ quietSince'[s] = now
      /\ counted'[s] = C \cup {<<now, user>>}
      /\ reported'[s] = (IF now - quietSince[s] > SustainedWindow \/ failCounts[s] = None THEN 0 ELSE reported[s])
                        + (IF Escalates(tr) THEN 1 ELSE 0)
      /\ \A t \in Source \ {s} :
           /\ quietSince'[t] = quietSince[t] /\ reported'[t] = reported[t]
           /\ failCounts'[t] = IF t \in gone THEN None ELSE failCounts[t]
           /\ counted'[t] = IF t \in gone THEN {} ELSE counted[t]
  <2> HIDE DEF new
  <2>1. failCounts' = [kept EXCEPT ![s] = new]
    BY <1>1 DEF new
  <2> HIDE DEF tr, old
  <2> QED
    BY <1>1, <1>2, <1>3, <1>5, <2>1 DEF tr, old
<1> HIDE DEF new, tr
<1>10. CampaignKept(s)
  OBVIOUS
<1>11. /\ C \in SUBSET (Time \X User) /\ quietSince[s] \in Int /\ now \in Int /\ quietSince[s] <= now
       /\ \A f \in C : f[1] \in Int /\ f[1] <= quietSince[s] /\ f[1] <= now
  <2>1. C \in SUBSET (Time \X User) /\ quietSince[s] \in Time
    BY <1>3
  <2>2. quietSince[s] \in Nat /\ now \in Nat /\ \A f \in C : f[1] \in Nat
    BY <1>3, <2>1, LoginConstants, CountedFinite
  <2>3. quietSince[s] <= now /\ \A f \in C : f[1] <= quietSince[s]
    BY <1>10 DEF CampaignKept
  <2> QED
    BY <2>1, <2>2, <2>3
<1>12. /\ BurstWindow \in Nat /\ SustainedWindow \in Nat /\ BurstWindow <= SustainedWindow
       /\ FailedBurst \in Nat \ {0} /\ SustainedBurst \in Nat \ {0}
  BY LoginConstants
<1>13. ASSUME ~tr.notified
       PROVE  /\ (Covers(old.recent, C, quietSince[s] - BurstWindow)
                    /\ quietSince[s] - BurstWindow <= now - BurstWindow)
                 \/ (\A f \in C : f[1] <= now - BurstWindow)
              /\ (Covers(old.sustained, C, quietSince[s] - SustainedWindow)
                    /\ quietSince[s] - SustainedWindow <= now - SustainedWindow)
                 \/ (\A f \in C : f[1] <= now - SustainedWindow)
  <2>1. CASE failCounts[s] = None
    BY <1>10, <2>1 DEF CampaignKept
  <2>2. CASE failCounts[s] # None /\ ~old.notified
    <3>1. /\ Covers(old.recent, C, quietSince[s] - BurstWindow)
          /\ Covers(old.sustained, C, quietSince[s] - SustainedWindow)
      BY <1>10, <2>2 DEF CampaignKept
    <3> QED
      BY <1>11, <1>12, <3>1
  <2>3. CASE failCounts[s] # None /\ Rearmed(old)
    <3>1. old.lastSeen = quietSince[s]
      BY <1>10, <2>3 DEF CampaignKept
    <3>2. now - quietSince[s] > SustainedWindow
      BY <2>3, <3>1 DEF Rearmed
    <3>3. \A f \in C : f[1] <= now - BurstWindow /\ f[1] <= now - SustainedWindow
      BY <1>11, <1>12, <3>2
    <3> QED
      BY <3>3
  <2> QED
    BY <1>6, <1>7, <1>13, <2>1, <2>2, <2>3
<1>14. ASSUME ~new.notified
       PROVE  /\ Len(new.recent) < FailedBurst /\ Len(new.sustained) < SustainedBurst
              /\ Covers(new.recent, C \cup {<<now, user>>}, now - BurstWindow)
              /\ Covers(new.sustained, C \cup {<<now, user>>}, now - SustainedWindow)
  <2>1. ~tr.notified /\ ~Escalates(tr)
    BY <1>8, <1>14
  <2>2. Len(tr.recent) < FailedBurst /\ Len(tr.sustained) < SustainedBurst
    <3>1. ~(Len(tr.recent) >= FailedBurst) /\ ~(Len(tr.sustained) >= SustainedBurst)
      BY <2>1 DEF Escalates
    <3>2. Len(tr.recent) \in Nat /\ Len(tr.sustained) \in Nat
      <4>1. tr.recent \in Seq(Time) /\ tr.sustained \in Seq(Time)
        BY <1>7, <1>12, TimesAreSequences DEF failTracker
      <4> QED
        BY <4>1
    <3> QED
      BY <1>12, <3>1, <3>2
  <2> HIDE DEF old
  <2>3. Covers(tr.recent, C \cup {<<now, user>>}, now - BurstWindow)
    <3>1. quietSince[s] - BurstWindow \in Int
      BY <1>11, <1>12
    <3> HIDE DEF C
    <3>2. Len(appendFailureTime(old.recent, BurstWindow, FailedBurst)) < FailedBurst
      BY <1>7, <2>2
    <3>3. \A f \in C : f[1] <= now
      BY <1>11
    <3> QED
      <4>1. (Covers(old.recent, C, quietSince[s] - BurstWindow)
               /\ quietSince[s] - BurstWindow <= now - BurstWindow)
            \/ (\A f \in C : f[1] <= now - BurstWindow)
        BY <1>13, <2>1
      <4>2. C \in SUBSET (Time \X User) /\ now \in Time
        BY <1>3, <1>11
      <4>3. Covers(appendFailureTime(old.recent, BurstWindow, FailedBurst), C \cup {<<now, user>>}, now - BurstWindow)
        BY <1>6, <1>12, <3>1, <3>2, <3>3, <4>1, <4>2, StillCovers
      <4> QED
        BY <1>7, <4>3
  <2>4. Covers(tr.sustained, C \cup {<<now, user>>}, now - SustainedWindow)
    <3>1. quietSince[s] - SustainedWindow \in Int
      BY <1>11, <1>12
    <3> HIDE DEF C
    <3>2. Len(appendFailureTime(old.sustained, SustainedWindow, SustainedBurst)) < SustainedBurst
      BY <1>7, <2>2
    <3>3. \A f \in C : f[1] <= now
      BY <1>11
    <3> QED
      <4>1. (Covers(old.sustained, C, quietSince[s] - SustainedWindow)
               /\ quietSince[s] - SustainedWindow <= now - SustainedWindow)
            \/ (\A f \in C : f[1] <= now - SustainedWindow)
        BY <1>13, <2>1
      <4>2. C \in SUBSET (Time \X User) /\ now \in Time
        BY <1>3, <1>11
      <4>3. Covers(appendFailureTime(old.sustained, SustainedWindow, SustainedBurst), C \cup {<<now, user>>}, now - SustainedWindow)
        BY <1>6, <1>12, <3>1, <3>2, <3>3, <4>1, <4>2, StillCovers
      <4> QED
        BY <1>7, <4>3
  <2> QED
    BY <1>8, <2>2, <2>3, <2>4
<1>15. reported'[s] \in {0, 1} /\ (~new.notified => reported'[s] = 0)
  <2>1. reported[s] \in {0, 1}
    BY <1>10 DEF CampaignKept
  <2>2. CASE ~Escalates(tr)
    <3>1. reported'[s] \in {0, reported[s]}
      BY <1>3, <1>9, <2>2
    <3>2. CASE tr.notified
      BY <1>8, <2>1, <3>1, <3>2
    <3>3. CASE ~tr.notified /\ failCounts[s] = None
      BY <1>9, <2>2, <3>3
    <3>4. CASE ~tr.notified /\ failCounts[s] # None /\ ~old.notified
      <4>1. reported[s] = 0
        BY <1>10, <3>4 DEF CampaignKept
      <4> QED
        BY <3>1, <4>1
    <3>5. CASE failCounts[s] # None /\ Rearmed(old)
      <4>1. now - quietSince[s] > SustainedWindow
        BY <1>10, <3>5 DEF CampaignKept, Rearmed
      <4> QED
        BY <1>9, <2>2, <4>1
    <3> QED
      BY <1>6, <1>7, <3>2, <3>3, <3>4, <3>5
  <2>3. CASE Escalates(tr)
    <3>1. new.notified /\ ~tr.notified
      BY <1>8, <2>3 DEF Escalates
    <3>2. CASE failCounts[s] = None
      BY <1>9, <2>3, <3>1, <3>2
    <3>3. CASE failCounts[s] # None /\ ~old.notified
      <4>1. reported[s] = 0
        BY <1>10, <3>3 DEF CampaignKept
      <4> QED
        BY <1>9, <2>3, <3>1, <4>1
    <3>4. CASE failCounts[s] # None /\ Rearmed(old)
      <4>1. now - quietSince[s] > SustainedWindow
        BY <1>10, <3>4 DEF CampaignKept, Rearmed
      <4> QED
        BY <1>9, <2>3, <3>1, <4>1
    <3> QED
      BY <1>6, <1>7, <3>1, <3>2, <3>3, <3>4
  <2> QED
    BY <2>2, <2>3
<1>16. CampaignKept(s)'
  <2>1. now <= now /\ \A f \in C \cup {<<now, user>>} : f[1] <= now
    BY <1>11
  <2> QED
    BY <1>2, <1>8, <1>9, <1>14, <1>15, <2>1 DEF CampaignKept, Covers, After
<1>17. ASSUME NEW t \in Source \ {s} PROVE CampaignKept(t)'
  <2>1. CampaignKept(t)
    OBVIOUS
  <2> QED
    BY <1>2, <1>9, <2>1 DEF CampaignKept, Covers, After
<1> QED
  BY <1>16, <1>17

LEMMA AnewKeepsCampaigns ==
  ASSUME LoginTypes, Fresh, UNCHANGED now PROVE \A t \in Source : CampaignKept(t)'
<1>1. now \in Nat
  BY LoginTypesMean, LoginConstants
<1> QED
  BY <1>1 DEF Fresh, Nobody, CampaignKept

LEMMA OthersKeepCampaigns ==
  ASSUME LoginTypes, \A t \in Source : CampaignKept(t), now' \in Nat, now <= now',
         UNCHANGED <<failCounts, counted, quietSince, reported>>
  PROVE  \A t \in Source : CampaignKept(t)'
<1> SUFFICES ASSUME NEW t \in Source PROVE CampaignKept(t)'
  OBVIOUS
<1>1. CampaignKept(t)
  OBVIOUS
<1>2. quietSince[t] \in Nat /\ now \in Nat
  BY LoginTypesMean, LoginConstants DEF LoginTypes
<1>3. quietSince'[t] <= now'
  BY <1>1, <1>2 DEF CampaignKept
<1> QED
  BY <1>1, <1>3 DEF CampaignKept, Covers, After

LEMMA LoginNext == ASSUME LoginInv, [Next]_vars PROVE LoginInv'
<1>0. LoginTypes /\ RulesAreTracked /\ (\A t \in Source : CampaignKept(t)) /\ now \in Nat
  BY LoginTypesMean, LoginConstants DEF LoginInv
<1>1. ASSUME NEW s \in Source, NEW user \in User, Failure(s, user) PROVE LoginInv'
  <2>1. LoginTypes' /\ RulesAreTracked'
    BY <1>0, <1>1, FailureTypes, FailureTracks
  <2>2. \A t \in Source : CampaignKept(t)'
    BY <1>0, <1>1, FailureKeepsCampaigns
  <2> QED
    BY <2>1, <2>2 DEF LoginInv
<1>2. CASE Record
  <2>1. UNCHANGED <<now, failCounts, counted, quietSince, reported>>
    BY <1>2 DEF Record, ghost
  <2>2. \A t \in Source : CampaignKept(t)'
    BY <1>0, <2>1, OthersKeepCampaigns
  <2> QED
    BY <1>0, <1>2, <2>2, RecordTypes DEF LoginInv
<1>3. CASE UnblockExpired
  <2>1. UNCHANGED <<now, failCounts, counted, quietSince, reported>>
    BY <1>3 DEF UnblockExpired, ghost
  <2>2. \A t \in Source : CampaignKept(t)'
    BY <1>0, <2>1, OthersKeepCampaigns
  <2> QED
    BY <1>0, <1>3, <2>2, UnblockTypes DEF LoginInv
<1>4. CASE Configure
  <2>1. \A t \in Source : CampaignKept(t)'
    BY <1>0, <1>4, AnewKeepsCampaigns DEF Configure
  <2> QED
    BY <1>0, <1>4, <2>1, ConfigureTypes DEF LoginInv
<1>5. CASE Restart
  <2>1. \A t \in Source : CampaignKept(t)'
    BY <1>0, <1>5, AnewKeepsCampaigns DEF Restart
  <2> QED
    BY <1>0, <1>5, <2>1, RestartTypes DEF LoginInv
<1>6. CASE Tick
  <2>1. now' = now + 1 /\ UNCHANGED <<failCounts, counted, quietSince, reported>>
    BY <1>6 DEF Tick, ghost
  <2>2. \A t \in Source : CampaignKept(t)'
    BY <1>0, <2>1, OthersKeepCampaigns
  <2> QED
    BY <1>0, <1>6, <2>2, TickTypes DEF LoginInv
<1>7. CASE UNCHANGED vars
  <2>1. /\ UNCHANGED <<now, failCounts, counted, quietSince, reported>>
        /\ UNCHANGED <<blocked, saved, rules, applying, excused>>
    BY <1>7 DEF vars, firewall, ghost
  <2>2. \A t \in Source : CampaignKept(t)'
    BY <1>0, <2>1, OthersKeepCampaigns
  <2>3. LoginTypes' /\ RulesAreTracked'
    BY <1>0, <2>1 DEF LoginTypes, TypeOK, Held, RulesAreTracked
  <2> QED
    BY <2>2, <2>3 DEF LoginInv
<1> QED
  BY <1>1, <1>2, <1>3, <1>4, <1>5, <1>6, <1>7 DEF Next

LEMMA LoginInit == Init => LoginInv
<1> SUFFICES ASSUME Init PROVE LoginInv
  OBVIOUS
<1>1. \A t \in Source : CampaignKept(t)
  BY DEF Init, Nobody, CampaignKept
<1> QED
  BY <1>1, LoginInitTypes DEF LoginInv

(* FailedLogins: typed, its rules are tracked, and the counters of a source *)
(* that was not reported cover the failures counted.                       *)
THEOREM LoginInvariance == Spec => []LoginInv
  BY LoginInit, LoginNext, PTL DEF Spec

(* A rule in the kernel is known to the blocker and to its state file, but *)
(* for the three ways in which the code loses one (blocker.go).            *)
THEOREM RulesTheorem == Spec => []RulesAreTracked
<1>1. LoginInv => RulesAreTracked
  BY DEF LoginInv
<1> QED
  BY <1>1, LoginInvariance, PTL

(* However the limits, the windows and the table of sources are chosen: a  *)
(* tracked source is reported before the failures counted in a window      *)
(* reach its limit, and once per campaign (monitor.go: emitSSHFailure,     *)
(* appendFailureTime).                                                     *)
THEOREM AttacksTheorem == Spec => []AttacksAreReported
<1>1. ASSUME LoginInv, NEW s \in Source, failCounts[s] # None, ~failCounts[s].notified
      PROVE  /\ Cardinality(Within(s, BurstWindow)) < FailedBurst
             /\ Cardinality(Within(s, SustainedWindow)) < SustainedBurst
  <2>1. /\ quietSince[s] <= now /\ failCounts[s] \in failTracker
        /\ Len(failCounts[s].recent) < FailedBurst
        /\ Len(failCounts[s].sustained) < SustainedBurst
        /\ Covers(failCounts[s].recent, counted[s], quietSince[s] - BurstWindow)
        /\ Covers(failCounts[s].sustained, counted[s], quietSince[s] - SustainedWindow)
    BY <1>1, LoginTypesMean DEF LoginInv, CampaignKept
  <2>2. /\ quietSince[s] \in Int /\ now \in Int /\ counted[s] \in SUBSET (Time \X User)
        /\ BurstWindow \in Nat /\ SustainedWindow \in Nat
        /\ FailedBurst \in Nat \ {0} /\ SustainedBurst \in Nat \ {0}
    <3>1. quietSince[s] \in Time /\ now \in Time /\ counted[s] \in SUBSET (Time \X User)
      BY <1>1, LoginTypesMean DEF LoginInv, LoginTypes
    <3>2. quietSince[s] \in Int /\ now \in Int
      BY <3>1, LoginConstants
    <3> QED
      BY <3>1, <3>2, LoginConstants
  <2>3. failCounts[s].recent \in Seq(Time) /\ failCounts[s].sustained \in Seq(Time)
    BY <2>1, <2>2, TimesAreSequences DEF failTracker
  <2>4. Len(failCounts[s].recent) \in Nat /\ Len(failCounts[s].sustained) \in Nat
    BY <2>3
  <2>5. \A window : Within(s, window) = After(counted[s], now - window)
    BY DEF Within, After
  <2>6. \A c : Cardinality(After(counted[s], c)) \in Nat
    BY <2>2, CountedFinite
  <2>7. ASSUME NEW ts, Len(ts) \in Nat, NEW window \in Nat, Covers(ts, counted[s], quietSince[s] - window)
        PROVE  Cardinality(After(counted[s], now - window)) <= Len(ts)
    <3>1. 0 \in 0 .. Len(ts) /\ now - window \in Int /\ now - window >= quietSince[s] - window
      BY <2>1, <2>2, <2>7
    <3>2. Cardinality(After(counted[s], now - window)) <= Len(ts) - 0
      BY <2>7, <3>1 DEF Covers
    <3> QED
      BY <2>7, <3>2
  <2>8. /\ Cardinality(Within(s, BurstWindow)) <= Len(failCounts[s].recent)
        /\ Cardinality(Within(s, SustainedWindow)) <= Len(failCounts[s].sustained)
    BY <2>1, <2>2, <2>4, <2>5, <2>7
  <2>9. Cardinality(Within(s, BurstWindow)) \in Nat /\ Cardinality(Within(s, SustainedWindow)) \in Nat
    BY <2>5, <2>6
  <2>10. \A c, l, m \in Int : c <= l /\ l < m => c < m
    OBVIOUS
  <2>11. FailedBurst \in Int /\ SustainedBurst \in Int
    BY LoginConstants
  <2>12. Len(failCounts[s].recent) < FailedBurst /\ Len(failCounts[s].sustained) < SustainedBurst
    BY <1>1, <2>1
  <2>13. Cardinality(Within(s, BurstWindow)) < FailedBurst
    BY <2>4, <2>8, <2>9, <2>10, <2>11, <2>12
  <2>14. Cardinality(Within(s, SustainedWindow)) < SustainedBurst
    BY <2>4, <2>8, <2>9, <2>10, <2>11, <2>12
  <2> QED
    BY <2>13, <2>14
<1>2. LoginInv => AttacksAreReported
  <2>1. LoginInv => OneEscalation
    BY DEF LoginInv, CampaignKept, OneEscalation
  <2> QED
    BY <1>1, <2>1 DEF AttacksAreReported, NothingSlipsThrough
<1> QED
  BY <1>2, LoginInvariance, PTL

-----------------------------------------------------------------------------
\* LogWatch: what is read of the file.

LEMMA WatchConstants ==
  /\ Forged \subseteq Watch!Line /\ Watch!Line \subseteq Nat /\ Watch!Line = 1 .. MaxLines
  /\ maxLinesPerScan \in Nat \ {0} /\ spoofMaxEntries \in Nat \ {0} /\ spoofTTL \in Nat
  /\ MaxLines \in Nat /\ MaxFiles \in Nat \ {0} /\ MaxClock \in Nat
  BY LogAssumption DEF Watch!WatchBounds, Watch!Line

\* The lines of the file and the lines read are in order; what is left to read is later.
Later(ls, from) == \A i \in from + 1 .. Len(file) : \A j \in 1 .. Len(ls) : ls[j] < file[i]

FollowInv ==
  /\ clock \in 0 .. MaxClock /\ written \in 0 .. MaxLines /\ ino \in 0 .. MaxFiles
  /\ file \in Seq(Watch!Line) /\ read \in Seq(Watch!Line) /\ Len(file) <= written
  /\ source \in [offset : -1 .. MaxLines, ino : 0 .. MaxFiles]
  /\ cut \in BOOLEAN /\ spared \subseteq Watch!Line /\ source.ino <= ino
  /\ ino = 0 => file = <<>>
  /\ \A i, j \in 1 .. Len(file) : i < j => file[i] < file[j]
  /\ \A i \in 1 .. Len(file) : file[i] <= written
  /\ \A i, j \in 1 .. Len(read) : i < j => read[i] < read[j]
  /\ \A i \in 1 .. Len(read) : read[i] <= written
  /\ source # Watch!Unseen =>
       /\ source.offset >= 0
       /\ source.ino = 0 => source.offset = 0
       /\ source.ino = ino /\ ~cut => source.offset <= Len(file) /\ Later(read, source.offset)
       /\ source.ino # ino \/ cut => Later(read, 0)
  /\ Watch!NothingIsPassedOver

LEMMA WatchInitFollows == Watch!Init => FollowInv
<1> SUFFICES ASSUME Watch!Init PROVE FollowInv
  OBVIOUS
<1>1. /\ clock = 0 /\ written = 0 /\ ino \in {0, 1} /\ file = <<>> /\ source = Watch!Unseen /\ read = <<>>
      /\ cut = FALSE /\ spared = {}
  BY DEF Watch!Init
<1>2. /\ <<>> \in Seq(Watch!Line) /\ Len(<<>>) = 0 /\ 0 \in 0 .. MaxClock /\ 0 \in 0 .. MaxLines
      /\ Watch!Unseen \in [offset : -1 .. MaxLines, ino : 0 .. MaxFiles]
  BY WatchConstants DEF Watch!Unseen
<1>3. /\ clock \in 0 .. MaxClock /\ written \in 0 .. MaxLines /\ ino \in 0 .. MaxFiles
      /\ file \in Seq(Watch!Line) /\ read \in Seq(Watch!Line) /\ Len(file) = 0 /\ Len(read) = 0 /\ Len(file) <= written
      /\ source \in [offset : -1 .. MaxLines, ino : 0 .. MaxFiles]
      /\ cut \in BOOLEAN /\ spared \subseteq Watch!Line
  <2>1. clock \in 0 .. MaxClock /\ written \in 0 .. MaxLines /\ ino \in 0 .. MaxFiles
    BY <1>1, <1>2, WatchConstants
  <2>2. /\ file \in Seq(Watch!Line) /\ read \in Seq(Watch!Line) /\ Len(file) = 0 /\ Len(read) = 0 /\ Len(file) <= written
    BY <1>1, <1>2
  <2> QED
    BY <1>1, <1>2, <2>1, <2>2
<1>4. source.ino <= ino
  BY <1>1 DEF Watch!Unseen
<1>5. Watch!NothingIsPassedOver
  BY <1>1 DEF Watch!NothingIsPassedOver
<1>6. 1 .. Len(file) = {} /\ 1 .. Len(read) = {}
  BY <1>3
<1> QED
  BY <1>1, <1>3, <1>4, <1>5, <1>6 DEF FollowInv

\* What a step leaves in the file and in what was read: nothing changes but one of the two.
LEMMA AppendFollows == ASSUME FollowInv, Watch!Append1 PROVE FollowInv'
<1>1. /\ ino # 0 /\ written < MaxLines /\ written' = written + 1 /\ file' = Append(file, written + 1)
      /\ UNCHANGED <<clock, ino, source, read, cut, spared>>
  BY DEF Watch!Append1, Watch!ghost
<1>2. /\ file \in Seq(Watch!Line) /\ written \in 0 .. MaxLines /\ Len(file) \in Nat /\ Len(file) <= written
      /\ read \in Seq(Watch!Line) /\ Len(read) \in Nat
      /\ source \in [offset : -1 .. MaxLines, ino : 0 .. MaxFiles]
      /\ \A i, j \in 1 .. Len(file) : i < j => file[i] < file[j]
      /\ \A i \in 1 .. Len(file) : file[i] <= written
      /\ \A i \in 1 .. Len(read) : read[i] <= written
  BY DEF FollowInv
<1>3. \A i \in 1 .. Len(file) : file[i] \in Int
  <2>1. \A i \in 1 .. Len(file) : file[i] \in Watch!Line
    BY <1>2
  <2> QED
    BY <2>1, WatchConstants
<1>4. \A i \in 1 .. Len(read) : read[i] \in Int
  <2>1. \A i \in 1 .. Len(read) : read[i] \in Watch!Line
    BY <1>2
  <2> QED
    BY <2>1, WatchConstants
<1>5. /\ written + 1 \in Watch!Line /\ file' \in Seq(Watch!Line) /\ Len(file') = Len(file) + 1
      /\ file'[Len(file) + 1] = written + 1 /\ \A i \in 1 .. Len(file) : file'[i] = file[i]
  <2>1. written + 1 \in Watch!Line
    BY <1>1, <1>2, WatchConstants
  <2> QED
    BY <1>1, <1>2, <2>1
<1>6. /\ written' \in 0 .. MaxLines /\ Len(file') <= written'
      /\ \A i \in 1 .. Len(file') : file'[i] <= written'
      /\ \A i \in 1 .. Len(read) : read[i] <= written'
  <2>1. \A i \in 1 .. Len(file') : i \in 1 .. Len(file) \/ i = Len(file) + 1
    BY <1>2, <1>5
  <2>2. written' \in 0 .. MaxLines /\ written' = written + 1 /\ written \in Nat
    BY <1>1, <1>2, WatchConstants
  <2>3. Len(file') <= written'
    BY <1>2, <1>5, <2>2
  <2>4. ASSUME NEW i \in 1 .. Len(file') PROVE file'[i] <= written'
    <3>1. CASE i \in 1 .. Len(file)
      <4>1. file'[i] = file[i] /\ file[i] <= written /\ file[i] \in Int
        BY <1>2, <1>3, <1>5, <3>1
      <4> QED
        BY <2>2, <4>1
    <3>2. CASE i = Len(file) + 1
      BY <1>5, <2>2, <3>2
    <3> QED
      BY <2>1, <3>1, <3>2
  <2>5. ASSUME NEW i \in 1 .. Len(read) PROVE read[i] <= written'
    <3>1. read[i] <= written /\ read[i] \in Int
      BY <1>2, <1>4
    <3> QED
      BY <2>2, <3>1
  <2> QED
    BY <2>2, <2>3, <2>4, <2>5
<1>7. ASSUME NEW i \in 1 .. Len(file'), NEW j \in 1 .. Len(file'), i < j PROVE file'[i] < file'[j]
  <2>1. CASE j \in 1 .. Len(file)
    <3>1. i \in 1 .. Len(file)
      BY <1>2, <1>7, <2>1
    <3>2. file[i] < file[j] /\ file'[i] = file[i] /\ file'[j] = file[j]
      BY <1>2, <1>5, <1>7, <2>1, <3>1
    <3> QED
      BY <3>2
  <2>2. CASE j = Len(file) + 1
    <3>1. i \in 1 .. Len(file)
      BY <1>2, <1>7, <2>2
    <3>2. file'[i] = file[i] /\ file[i] <= written /\ file[i] \in Int /\ file'[j] = written + 1 /\ written \in Int
      BY <1>2, <1>3, <1>5, <2>2, <3>1
    <3> QED
      BY <3>2
  <2> QED
    BY <1>2, <1>5, <2>1, <2>2
<1>8. ASSUME NEW from \in 0 .. MaxLines, Later(read, from) PROVE Later(read, from)'
  <2> SUFFICES ASSUME NEW i \in from + 1 .. Len(file'), NEW j \in 1 .. Len(read) PROVE read[j] < file'[i]
    BY <1>1 DEF Later
  <2>1. CASE i \in from + 1 .. Len(file)
    BY <1>2, <1>5, <1>8, <2>1 DEF Later
  <2>2. CASE i = Len(file) + 1
    BY <1>2, <1>4, <1>5, <2>2
  <2> QED
    BY <1>2, <1>5, <2>1, <2>2
<1>9. ASSUME source # Watch!Unseen
      PROVE  /\ source.offset >= 0
             /\ source.ino = 0 => source.offset = 0
             /\ source.ino = ino /\ ~cut => source.offset <= Len(file') /\ Later(read, source.offset)'
             /\ source.ino # ino \/ cut => Later(read, 0)'
  <2>1. /\ source.offset >= 0 /\ source.offset \in 0 .. MaxLines
        /\ source.ino = 0 => source.offset = 0
        /\ source.ino = ino /\ ~cut => source.offset <= Len(file) /\ Later(read, source.offset)
        /\ source.ino # ino \/ cut => Later(read, 0)
    BY <1>2, <1>9, WatchConstants DEF FollowInv
  <2>2. source.offset <= Len(file) => source.offset <= Len(file')
    BY <1>2, <1>5, <2>1
  <2>3. 0 \in 0 .. MaxLines
    BY WatchConstants
  <2>4. Later(read, source.offset) => Later(read, source.offset)'
    <3>1. Later(read, source.offset) => Later(read, source.offset)'
      BY <1>1, <1>8, <2>1 DEF Later
    <3> QED
      BY <3>1
  <2>5. Later(read, 0) => Later(read, 0)'
    BY <1>8, <2>3
  <2> QED
    BY <2>1, <2>2, <2>4, <2>5
<1>10. Watch!NothingIsPassedOver'
  <2> SUFFICES ASSUME source # Watch!Unseen, source.ino = ino, NEW i \in 1 .. Len(file'), i <= source.offset, ~cut
               PROVE  file'[i] \in Watch!Lines(read) \cup spared
    BY <1>1, <1>5 DEF Watch!NothingIsPassedOver, Watch!Lines
  <2>1. i \in 1 .. Len(file) /\ i \in DOMAIN file
    BY <1>2, <1>5 DEF FollowInv
  <2> QED
    BY <1>5, <2>1 DEF FollowInv, Watch!NothingIsPassedOver
<1> QED
  BY <1>1, <1>5, <1>6, <1>7, <1>9, <1>10 DEF FollowInv

LEMMA EmptiedFollows ==
  ASSUME FollowInv, file' = <<>>, ino' \in 0 .. MaxFiles, cut' \in BOOLEAN,
         source.ino <= ino', source.ino = ino' => cut',
         UNCHANGED <<clock, written, source, read, spared>>
  PROVE  FollowInv'
<1>1. file' \in Seq(Watch!Line) /\ Len(file') = 0 /\ Later(read, 0)' /\ Len(file') <= written
  BY DEF Later, FollowInv
<1>2. Watch!NothingIsPassedOver'
  BY DEF Watch!NothingIsPassedOver
<1> QED
  BY <1>1, <1>2 DEF FollowInv

LEMMA RotateFollows == ASSUME FollowInv, Watch!Rotate PROVE FollowInv'
<1>1. ino' = ino + 1 /\ ino < MaxFiles /\ file' = <<>> /\ cut' = FALSE /\ UNCHANGED <<clock, written, source, read, spared>>
  BY DEF Watch!Rotate
<1>2. source.ino \in Int /\ ino \in 0 .. MaxFiles /\ source.ino <= ino
  BY DEF FollowInv
<1>3. ino' \in 0 .. MaxFiles /\ source.ino # ino' /\ source.ino <= ino'
  BY <1>1, <1>2, WatchConstants
<1> QED
  BY <1>1, <1>3, EmptiedFollows

LEMMA TruncateFollows == ASSUME FollowInv, Watch!Truncate PROVE FollowInv'
  BY EmptiedFollows DEF Watch!Truncate, FollowInv

\* A scan reads what is later than all that was read.
LEMMA StartMeans ==
  ASSUME FollowInv, ino # 0
  PROVE  LET start == Watch!Start(Watch!Seen)
         IN /\ start \in 0 .. Len(file) /\ Watch!Reach(start) \in start .. Len(file)
            /\ Later(read, start)
            /\ source # Watch!Unseen /\ ~cut /\ start # 0 => source.ino = ino /\ source.offset = start
<1> DEFINE start == Watch!Start(Watch!Seen)
<1>1. Len(file) \in Nat /\ ino \in Nat /\ source.ino \in Nat /\ source.offset \in Int
  BY DEF FollowInv
<1>2. /\ start \in 0 .. Len(file) /\ Later(read, start)
      /\ source # Watch!Unseen /\ ~cut /\ start # 0 => source.ino = ino /\ source.offset = start
  <2>1. CASE source = Watch!Unseen
    <3>1. start = Len(file)
      BY <1>1, <2>1 DEF Watch!Start, Watch!Seen, Watch!FirstSight
    <3> QED
      BY <1>1, <2>1, <3>1 DEF Later
  <2>2. CASE source # Watch!Unseen
    <3>1. start = IF (source.ino # 0 /\ ino # source.ino) \/ Len(file) < source.offset THEN 0 ELSE source.offset
      BY <2>2 DEF Watch!Start, Watch!Seen
    <3>2. /\ source.offset >= 0
          /\ source.ino = 0 => source.offset = 0
          /\ source.ino = ino /\ ~cut => source.offset <= Len(file) /\ Later(read, source.offset)
          /\ source.ino # ino \/ cut => Later(read, 0)
      BY <2>2 DEF FollowInv
    <3>3. start \in 0 .. Len(file) /\ (start = 0 \/ start = source.offset)
      BY <1>1, <3>1, <3>2
    <3>4. CASE source.ino = ino /\ ~cut
      <4>1. start = source.offset
        BY <1>1, <3>1, <3>2, <3>4
      <4> QED
        BY <3>2, <3>3, <3>4, <4>1
    <3>5. CASE source.ino # ino \/ cut
      <4>1. Later(read, 0)
        BY <3>2, <3>5
      <4>2. \A i \in start + 1 .. Len(file) : i \in 0 + 1 .. Len(file)
        BY <1>1, <3>3
      <4>3. Later(read, start)
        BY <4>1, <4>2 DEF Later
      <4>4. ~cut => start = 0
        BY <1>1, <3>1, <3>2, <3>5
      <4> QED
        BY <3>3, <4>3, <4>4
    <3> QED
      BY <3>4, <3>5
  <2> QED
    BY <2>1, <2>2
<1> HIDE DEF start
<1>3. Watch!Reach(start) \in start .. Len(file)
  BY <1>1, <1>2, WatchConstants DEF Watch!Reach
<1> QED
  BY <1>2, <1>3 DEF start

LEMMA ScanFollows == ASSUME FollowInv, Watch!scanFile PROVE FollowInv'
<1> DEFINE start == Watch!Start(Watch!Seen)
           reach == Watch!Reach(start)
           chunk == SubSeq(file, start + 1, reach)
<1>1. /\ ino # 0 /\ source' = [offset |-> reach, ino |-> ino] /\ read' = read \o chunk
      /\ spared' = IF source = Watch!Unseen \/ cut THEN spared \cup Watch!Lines(SubSeq(file, 1, start)) ELSE spared
      /\ cut' = FALSE /\ UNCHANGED <<clock, written, ino, file>>
  BY DEF Watch!scanFile, Watch!NewOffset
<1>2. /\ start \in 0 .. Len(file) /\ reach \in start .. Len(file) /\ Later(read, start)
      /\ source # Watch!Unseen /\ ~cut /\ start # 0 => source.ino = ino /\ source.offset = start
  BY <1>1, StartMeans
<1> HIDE DEF start, reach
<1>3. /\ file \in Seq(Watch!Line) /\ Len(file) \in Nat /\ Len(file) <= written /\ written \in 0 .. MaxLines
      /\ read \in Seq(Watch!Line) /\ Len(read) \in Nat
      /\ \A i, j \in 1 .. Len(file) : i < j => file[i] < file[j]
      /\ \A i \in 1 .. Len(file) : file[i] <= written
      /\ \A i, j \in 1 .. Len(read) : i < j => read[i] < read[j]
      /\ \A i \in 1 .. Len(read) : read[i] <= written
  BY DEF FollowInv
<1>4. /\ chunk \in Seq(Watch!Line) /\ Len(chunk) = reach - start /\ Len(chunk) \in Nat
      /\ \A i \in 1 .. Len(chunk) : start + i \in start + 1 .. Len(file) /\ start + i \in 1 .. Len(file)
                                    /\ start + i <= reach /\ chunk[i] = file[start + i]
  BY <1>2, <1>3
<1> HIDE DEF chunk
<1>5. /\ read' \in Seq(Watch!Line) /\ Len(read') = Len(read) + Len(chunk)
      /\ \A i \in 1 .. Len(read) : read'[i] = read[i]
      /\ \A i \in 1 .. Len(chunk) : Len(read) + i \in 1 .. Len(read') /\ read'[Len(read) + i] = chunk[i]
  <2>1. read \o chunk \in Seq(Watch!Line) /\ Len(read \o chunk) = Len(read) + Len(chunk)
    <3>1. read \in Seq(Watch!Line) /\ chunk \in Seq(Watch!Line)
      BY <1>3, <1>4
    <3>2. read \o chunk \in Seq(Watch!Line)
      BY <3>1
    <3>3. Len(read \o chunk) = Len(read) + Len(chunk)
      BY <3>1
    <3> QED
      BY <3>2, <3>3
  <2>2. \A i \in 1 .. Len(read) : (read \o chunk)[i] = read[i]
    BY <1>3, <1>4
  <2>3. ASSUME NEW i \in 1 .. Len(chunk)
        PROVE  Len(read) + i \in 1 .. Len(read \o chunk) /\ (read \o chunk)[Len(read) + i] = chunk[i]
    <3>1. Len(read) + i \in 1 .. Len(read) + Len(chunk) /\ Len(read) + i > Len(read) /\ (Len(read) + i) - Len(read) = i
      BY <1>3, <1>4
    <3> QED
      BY <1>3, <1>4, <2>1, <3>1
  <2> QED
    BY <1>1, <2>1, <2>2, <2>3
<1>6. \A i \in 1 .. Len(read') : i \in 1 .. Len(read) \/ \E k \in 1 .. Len(chunk) : i = Len(read) + k
  <2> SUFFICES ASSUME NEW i \in 1 .. Len(read'), i \notin 1 .. Len(read)
               PROVE  \E k \in 1 .. Len(chunk) : i = Len(read) + k
    OBVIOUS
  <2>1. i - Len(read) \in 1 .. Len(chunk) /\ i = Len(read) + (i - Len(read))
    BY <1>3, <1>4, <1>5
  <2> QED
    BY <2>1
<1>7. \A i \in 1 .. Len(read') : read'[i] <= written
  <2> SUFFICES ASSUME NEW i \in 1 .. Len(read') PROVE read'[i] <= written
    OBVIOUS
  <2>1. CASE i \in 1 .. Len(read)
    BY <1>3, <1>5, <2>1
  <2>2. ASSUME NEW k \in 1 .. Len(chunk), i = Len(read) + k PROVE read'[i] <= written
    <3>1. read'[i] = file[start + k] /\ start + k \in 1 .. Len(file)
      BY <1>4, <1>5, <2>2
    <3> QED
      BY <1>3, <3>1
  <2> QED
    BY <1>6, <2>1, <2>2
<1>8. ASSUME NEW i \in 1 .. Len(read'), NEW j \in 1 .. Len(read'), i < j PROVE read'[i] < read'[j]
  <2>1. CASE j \in 1 .. Len(read)
    <3>1. i \in 1 .. Len(read)
      BY <1>3, <1>8, <2>1
    <3> QED
      BY <1>3, <1>5, <1>8, <2>1, <3>1
  <2>2. ASSUME NEW k \in 1 .. Len(chunk), j = Len(read) + k PROVE read'[i] < read'[j]
    <3>1. read'[j] = file[start + k] /\ start + k \in start + 1 .. Len(file) /\ start + k \in 1 .. Len(file)
      BY <1>4, <1>5, <2>2
    <3>2. CASE i \in 1 .. Len(read)
      <4>1. read[i] < file[start + k]
        BY <1>2, <3>1, <3>2 DEF Later
      <4> QED
        BY <1>5, <3>1, <3>2, <4>1
    <3>3. ASSUME NEW m \in 1 .. Len(chunk), i = Len(read) + m PROVE read'[i] < read'[j]
      <4>1. read'[i] = file[start + m] /\ start + m \in 1 .. Len(file)
        BY <1>4, <1>5, <3>3
      <4>2. start + m < start + k
        BY <1>2, <1>3, <1>8, <2>2, <3>3
      <4> QED
        BY <1>3, <3>1, <4>1, <4>2
    <3> QED
      BY <1>6, <3>2, <3>3
  <2> QED
    BY <1>6, <2>1, <2>2
<1>9. Later(read, source.offset)'
  <2> SUFFICES ASSUME NEW i \in reach + 1 .. Len(file), NEW j \in 1 .. Len(read') PROVE read'[j] < file[i]
    <3>1. source'.offset = reach
      BY <1>1
    <3> QED
      BY <1>1, <3>1 DEF Later
  <2>1. i \in 1 .. Len(file) /\ i \in start + 1 .. Len(file)
    BY <1>2, <1>3
  <2>2. CASE j \in 1 .. Len(read)
    BY <1>2, <1>5, <2>1, <2>2 DEF Later
  <2>3. ASSUME NEW k \in 1 .. Len(chunk), j = Len(read) + k PROVE read'[j] < file[i]
    <3>1. start + k \in 1 .. Len(file) /\ start + k < i /\ read'[j] = file[start + k]
      <4>1. start + k \in 1 .. Len(file) /\ start + k <= reach /\ chunk[k] = file[start + k]
        BY <1>4
      <4>2. read'[j] = chunk[k]
        BY <1>5, <2>3
      <4>3. start + k < i
        BY <1>2, <1>3, <4>1
      <4> QED
        BY <4>1, <4>2, <4>3
    <3> QED
      BY <1>3, <2>1, <3>1
  <2> QED
    BY <1>6, <2>2, <2>3
<1>10. /\ source' \in [offset : -1 .. MaxLines, ino : 0 .. MaxFiles] /\ source'.offset >= 0
       /\ source'.ino <= ino /\ source'.ino # 0 /\ source'.offset <= Len(file)
  <2>1. reach \in 0 .. MaxLines /\ reach <= Len(file)
    BY <1>2, <1>3, WatchConstants
  <2>2. ino \in 0 .. MaxFiles
    BY DEF FollowInv
  <2> QED
    BY <1>1, <2>1, <2>2, WatchConstants
<1>11. spared' \subseteq Watch!Line /\ spared \subseteq spared'
       /\ (source = Watch!Unseen \/ cut => \A i \in 1 .. start : file[i] \in spared')
  <2>1. /\ SubSeq(file, 1, start) \in Seq(Watch!Line) /\ Len(SubSeq(file, 1, start)) = start
        /\ \A i \in 1 .. start : i \in DOMAIN SubSeq(file, 1, start) /\ SubSeq(file, 1, start)[i] = file[i]
    BY <1>2, <1>3
  <2> DEFINE before == SubSeq(file, 1, start)
  <2> HIDE DEF before
  <2>2. before \in Seq(Watch!Line) /\ \A i \in 1 .. start : i \in DOMAIN before /\ before[i] = file[i]
    BY <2>1 DEF before
  <2>3. Watch!Lines(before) \subseteq Watch!Line /\ \A i \in 1 .. start : file[i] \in Watch!Lines(before)
    BY <2>2 DEF Watch!Lines
  <2>4. spared \subseteq Watch!Line
    BY DEF FollowInv
  <2> QED
    BY <1>1, <2>3, <2>4 DEF before
<1>12. Watch!NothingIsPassedOver'
  <2> SUFFICES ASSUME NEW i \in 1 .. Len(file), i <= reach PROVE file[i] \in Watch!Lines(read') \cup spared'
    <3>1. DOMAIN file = 1 .. Len(file) /\ source'.offset = reach
      BY <1>1, <1>3
    <3> QED
      BY <1>1, <3>1 DEF Watch!NothingIsPassedOver, Watch!Lines
  <2>1. \A j \in 1 .. Len(read') : read'[j] \in Watch!Lines(read')
    <3>1. DOMAIN read' = 1 .. Len(read')
      BY <1>5
    <3> QED
      BY <3>1 DEF Watch!Lines
  <2>2. CASE i > start
    <3>1. i - start \in 1 .. Len(chunk) /\ start + (i - start) = i
      BY <1>2, <1>4, <2>2
    <3>2. chunk[i - start] = file[i]
      BY <1>4, <3>1
    <3> QED
      BY <1>5, <2>1, <3>1, <3>2
  <2>3. CASE i <= start /\ (source = Watch!Unseen \/ cut)
    BY <1>2, <1>11, <2>3
  <2>4. CASE i <= start /\ source # Watch!Unseen /\ ~cut
    <3>1. source.ino = ino /\ source.offset = start
      BY <1>2, <2>4
    <3>2. i \in DOMAIN file
      BY <1>3
    <3>3. file[i] \in Watch!Lines(read) \cup spared
      BY <2>4, <3>1, <3>2 DEF FollowInv, Watch!NothingIsPassedOver
    <3>4. Watch!Lines(read) \subseteq Watch!Lines(read')
      <4>1. DOMAIN read = 1 .. Len(read) /\ \A j \in 1 .. Len(read) : j \in 1 .. Len(read') /\ read[j] = read'[j]
        BY <1>3, <1>4, <1>5
      <4> QED
        BY <2>1, <4>1 DEF Watch!Lines
    <3> QED
      BY <1>11, <3>3, <3>4
  <2> QED
    BY <1>2, <2>2, <2>3, <2>4
<1> QED
  BY <1>1, <1>3, <1>5, <1>7, <1>8, <1>9, <1>10, <1>11, <1>12 DEF FollowInv

LEMMA FollowStays ==
  ASSUME FollowInv, clock' \in 0 .. MaxClock,
         \/ source' = source
         \/ source' = Watch!Unseen
         \/ ino = 0 /\ source' = [offset |-> 0, ino |-> 0] /\ file = <<>>,
         UNCHANGED <<written, ino, file, read, cut, spared>>
  PROVE  FollowInv'
<1>1. CASE source' = source
  BY <1>1 DEF FollowInv, Watch!NothingIsPassedOver, Watch!Lines, Later
<1>2. CASE source' = Watch!Unseen
  <2>1. source' \in [offset : -1 .. MaxLines, ino : 0 .. MaxFiles] /\ source'.ino <= ino
    <3>1. ino \in 0 .. MaxFiles /\ -1 \in -1 .. MaxLines /\ 0 \in 0 .. MaxFiles
      BY WatchConstants DEF FollowInv
    <3> QED
      BY <1>2, <3>1 DEF Watch!Unseen
  <2> QED
    BY <1>2, <2>1 DEF FollowInv, Watch!NothingIsPassedOver
<1>3. CASE ino = 0 /\ source' = [offset |-> 0, ino |-> 0] /\ file = <<>>
  <2>1. source' \in [offset : -1 .. MaxLines, ino : 0 .. MaxFiles] /\ source'.ino = 0 /\ source'.offset = 0
    BY <1>3, WatchConstants
  <2>2. Len(file) = 0 /\ Later(read, source.offset)' /\ Later(read, 0)'
    BY <1>3, <2>1 DEF Later
  <2>3. Watch!NothingIsPassedOver'
    BY <1>3 DEF Watch!NothingIsPassedOver
  <2> QED
    BY <1>3, <2>1, <2>2, <2>3 DEF FollowInv
<1> QED
  BY <1>1, <1>2, <1>3

-----------------------------------------------------------------------------
\* LogWatch: what is known of forged lines.

LEMMA WatchCardinality == \A S : Watch!Cardinality(S) = Cardinality(S)
  BY DEF Watch!Cardinality, Watch!IsFiniteSet, Cardinality, IsFiniteSet

\* The cache holds what was told, the newest of it for certain.
SpoofInv ==
  /\ clock \in 0 .. MaxClock /\ written \in 0 .. MaxLines
  /\ told \in Seq(Forged \X (0 .. MaxClock)) /\ journal \in Seq(Forged) /\ spoofed \subseteq Forged
  /\ spoof \subseteq Forged \X (0 .. MaxClock) /\ IsFiniteSet(spoof) /\ Cardinality(spoof) <= spoofMaxEntries
  /\ \A i, j \in 1 .. Len(told) : i < j => told[i][1] < told[j][1] /\ told[i][2] <= told[j][2]
  /\ \A i \in 1 .. Len(told) : told[i][1] <= written /\ told[i][2] <= clock
  /\ \A i \in 1 .. Len(told) : \A j \in 1 .. Len(journal) : told[i][1] < journal[j]
  /\ \A i, j \in 1 .. Len(journal) : i < j => journal[i] < journal[j]
  /\ \A i \in 1 .. Len(journal) : journal[i] <= written
  /\ \A e \in spoof : \E i \in 1 .. Len(told) : e = told[i]
  /\ \A i \in 1 .. Len(told) :
       Watch!Fresh(told[i]) /\ Len(told) - i < spoofMaxEntries => told[i] \in spoof

LEMMA ToldTypes ==
  ASSUME SpoofInv
  PROVE  /\ Len(told) \in Nat /\ Len(journal) \in Nat
         /\ \A i \in 1 .. Len(told) : told[i] \in Forged \X (0 .. MaxClock) /\ told[i][1] \in Int /\ told[i][2] \in Int
         /\ \A i \in 1 .. Len(journal) : journal[i] \in Forged /\ journal[i] \in Int
<1>1. told \in Seq(Forged \X (0 .. MaxClock)) /\ journal \in Seq(Forged)
  BY DEF SpoofInv
<1>2. /\ Len(told) \in Nat /\ Len(journal) \in Nat
      /\ \A i \in 1 .. Len(told) : told[i] \in Forged \X (0 .. MaxClock)
      /\ \A i \in 1 .. Len(journal) : journal[i] \in Forged
  BY <1>1
<1>3. \A n \in Forged : n \in Int
  BY WatchConstants
<1>4. \A i \in 1 .. Len(told) : told[i][1] \in Int /\ told[i][2] \in Int
  BY <1>2, <1>3
<1> QED
  BY <1>2, <1>3, <1>4

\* Not more entries than there are places for them.
LEMMA FewEntries ==
  ASSUME SpoofInv, NEW i \in 1 .. Len(told), NEW E \in SUBSET spoof,
         \A e \in E : \E j \in i .. Len(told) : e = told[j]
  PROVE  IsFiniteSet(E) /\ Cardinality(E) \in Nat /\ Cardinality(E) <= Len(told) - i + 1
<1>1. IsFiniteSet(E) /\ Cardinality(E) \in Nat
  BY FS_Subset, FS_CardinalityType DEF SpoofInv
<1> DEFINE T == {told[j] : j \in i .. Len(told)}
           f == [j \in i .. Len(told) |-> told[j]]
<1>2. f \in Surjection(i .. Len(told), T)
  BY DEF Surjection
<1>3. i \in Int /\ Len(told) \in Int /\ IsFiniteSet(i .. Len(told)) /\ Cardinality(i .. Len(told)) = Len(told) - i + 1
  <2>1. i \in Int /\ Len(told) \in Int /\ i <= Len(told)
    BY ToldTypes
  <2> QED
    BY <2>1, FS_Interval
<1>4. IsFiniteSet(T) /\ Cardinality(T) <= Len(told) - i + 1
  <2> HIDE DEF T, f
  <2> QED
    BY <1>2, <1>3, FS_Surjection
<1>5. Cardinality(E) <= Cardinality(T) /\ Cardinality(T) \in Nat
  <2>1. E \in SUBSET T
    OBVIOUS
  <2> HIDE DEF T
  <2> QED
    BY <1>4, <2>1, FS_Subset, FS_CardinalityType
<1> QED
  BY <1>1, <1>3, <1>4, <1>5

LEMMA OldestOutMeans ==
  ASSUME SpoofInv, NEW E \in SUBSET spoof
  PROVE  /\ Watch!OldestOut(E) \subseteq E /\ IsFiniteSet(Watch!OldestOut(E))
         /\ Cardinality(Watch!OldestOut(E)) < spoofMaxEntries
         /\ \A i \in 1 .. Len(told) :
              told[i] \in E /\ Len(told) - i + 1 < spoofMaxEntries => told[i] \in Watch!OldestOut(E)
<1> DEFINE Least(e) == \A f \in E : e[2] < f[2] \/ (e[2] = f[2] /\ e[1] <= f[1])
           oldest == CHOOSE e \in E : Least(e)
<1>1. IsFiniteSet(E) /\ Cardinality(E) \in Nat /\ Cardinality(E) <= spoofMaxEntries /\ spoofMaxEntries \in Nat \ {0}
  <2>1. IsFiniteSet(spoof) /\ Cardinality(spoof) <= spoofMaxEntries /\ spoofMaxEntries \in Nat \ {0}
    BY WatchConstants DEF SpoofInv
  <2>2. IsFiniteSet(E) /\ Cardinality(E) \in Nat /\ Cardinality(spoof) \in Nat /\ Cardinality(E) <= Cardinality(spoof)
    BY <2>1, FS_Subset, FS_CardinalityType
  <2> QED
    BY <2>1, <2>2
<1>2. Watch!OldestOut(E) = IF Cardinality(E) < spoofMaxEntries THEN E ELSE E \ {oldest}
  BY WatchCardinality DEF Watch!OldestOut
<1>3. CASE Cardinality(E) < spoofMaxEntries
  BY <1>1, <1>2, <1>3
<1>4. CASE ~(Cardinality(E) < spoofMaxEntries)
  <2>1. E # {}
    BY <1>1, <1>4, FS_EmptySet
  <2> DEFINE J == {j \in 1 .. Len(told) : told[j] \in E}
  <2>2. PICK k \in J : \A j \in J : k <= j
    <3>1. J # {}
      <4>1. PICK e \in E : TRUE
        BY <2>1
      <4>2. \E i \in 1 .. Len(told) : e = told[i]
        BY <4>1 DEF SpoofInv
      <4> QED
        BY <4>2
    <3>2. J \in SUBSET (1 .. Len(told)) /\ J \in SUBSET Int /\ IsFiniteSet(1 .. Len(told))
      BY ToldTypes, FS_Interval
    <3>3. IsFiniteSet(J)
      BY <3>2, FS_Subset
    <3> HIDE DEF J
    <3> QED
      BY <3>1, <3>2, <3>3, HasLeast
  <2>3. told[k] \in E /\ Least(told[k])
    <3>1. ASSUME NEW f \in E PROVE told[k][2] < f[2] \/ (told[k][2] = f[2] /\ told[k][1] <= f[1])
      <4>1. PICK j \in 1 .. Len(told) : f = told[j]
        BY DEF SpoofInv
      <4>2. k <= j /\ k \in Int /\ j \in Int
        BY <2>2, <4>1, ToldTypes
      <4>3. k = j \/ (told[k][1] < told[j][1] /\ told[k][2] <= told[j][2])
        BY <4>2 DEF SpoofInv
      <4>4. told[k][1] \in Int /\ told[j][1] \in Int /\ told[k][2] \in Int /\ told[j][2] \in Int
        BY ToldTypes
      <4> QED
        BY <4>1, <4>3, <4>4
    <3> QED
      BY <2>2, <3>1
  <2>4. oldest \in E /\ Least(oldest)
    <3> HIDE DEF Least
    <3> QED
      BY <2>3
  <2>5. PICK m \in 1 .. Len(told) : oldest = told[m]
    BY <2>4 DEF SpoofInv
  <2>6. Cardinality(E \ {oldest}) = Cardinality(E) - 1 /\ IsFiniteSet(E \ {oldest})
    <3> HIDE DEF oldest
    <3> QED
      BY <1>1, <2>4, FS_RemoveElement
  <2>7. ASSUME NEW i \in 1 .. Len(told), told[i] = oldest, Len(told) - i + 1 < spoofMaxEntries
        PROVE  FALSE
    <3>1. ASSUME NEW e \in E PROVE \E j \in i .. Len(told) : e = told[j]
      <4>1. PICK j \in 1 .. Len(told) : e = told[j]
        BY DEF SpoofInv
      <4>2. told[i][2] < told[j][2] \/ (told[i][2] = told[j][2] /\ told[i][1] <= told[j][1])
        <5> HIDE DEF oldest
        <5> QED
          BY <2>4, <2>7, <4>1
      <4>3. told[i][1] \in Int /\ told[j][1] \in Int /\ told[i][2] \in Int /\ told[j][2] \in Int
        BY ToldTypes
      <4>4. ~(j < i)
        <5>1. j < i => told[j][1] < told[i][1] /\ told[j][2] <= told[i][2]
          BY DEF SpoofInv
        <5> QED
          BY <4>2, <4>3, <5>1
      <4>5. j \in i .. Len(told)
        BY <4>4, ToldTypes
      <4> QED
        BY <4>1, <4>5
    <3>2. Cardinality(E) <= Len(told) - i + 1
      BY <3>1, FewEntries
    <3>3. Len(told) \in Int /\ i \in Int
      BY ToldTypes
    <3> QED
      BY <1>1, <1>4, <2>7, <3>2, <3>3
  <2> HIDE DEF oldest
  <2>8. Cardinality(E) - 1 < spoofMaxEntries
    BY <1>1
  <2>9. Watch!OldestOut(E) = E \ {oldest}
    BY <1>2, <1>4
  <2> QED
    BY <2>6, <2>7, <2>8, <2>9
<1> QED
  BY <1>3, <1>4

LEMMA WatchInitSpoofs == Watch!Init => SpoofInv
<1> SUFFICES ASSUME Watch!Init PROVE SpoofInv
  OBVIOUS
<1>1. /\ clock = 0 /\ written = 0 /\ journal = <<>> /\ spoof = {} /\ spoofed = {} /\ told = <<>>
  BY DEF Watch!Init
<1>2. /\ clock \in 0 .. MaxClock /\ written \in 0 .. MaxLines
      /\ told \in Seq(Forged \X (0 .. MaxClock)) /\ journal \in Seq(Forged) /\ Len(told) = 0 /\ Len(journal) = 0
  <2>1. 0 \in 0 .. MaxClock /\ 0 \in 0 .. MaxLines
    BY WatchConstants
  <2> QED
    BY <1>1, <2>1
<1>3. IsFiniteSet(spoof) /\ Cardinality(spoof) <= spoofMaxEntries
  BY <1>1, FS_EmptySet, WatchConstants
<1>4. 1 .. Len(told) = {} /\ 1 .. Len(journal) = {}
  BY <1>2
<1> QED
  BY <1>1, <1>2, <1>3, <1>4 DEF SpoofInv

LEMMA AppendSpoofs == ASSUME SpoofInv, Watch!Append1 PROVE SpoofInv'
<1>1. /\ written < MaxLines /\ written' = written + 1
      /\ journal' = IF written + 1 \in Forged THEN Append(journal, written + 1) ELSE journal
      /\ UNCHANGED <<clock, spoof, spoofed, told>>
  BY DEF Watch!Append1, Watch!ghost
<1>2. written \in 0 .. MaxLines /\ written' \in 0 .. MaxLines /\ written \in Int
  BY <1>1, WatchConstants DEF SpoofInv
<1>3. \A i \in 1 .. Len(told) : told[i][1] <= written' /\ told[i][1] < written'
  <2> SUFFICES ASSUME NEW i \in 1 .. Len(told) PROVE told[i][1] <= written' /\ told[i][1] < written'
    OBVIOUS
  <2>1. told[i][1] <= written /\ told[i][1] \in Int
    BY ToldTypes DEF SpoofInv
  <2> QED
    BY <1>1, <1>2, <2>1
<1>4. \A i \in 1 .. Len(journal) : journal[i] < written' /\ journal[i] <= written'
  <2> SUFFICES ASSUME NEW i \in 1 .. Len(journal) PROVE journal[i] < written' /\ journal[i] <= written'
    OBVIOUS
  <2>1. journal[i] <= written /\ journal[i] \in Int
    BY ToldTypes DEF SpoofInv
  <2> QED
    BY <1>1, <1>2, <2>1
<1>5. /\ journal' \in Seq(Forged)
      /\ \A i \in 1 .. Len(told) : \A j \in 1 .. Len(journal') : told[i][1] < journal'[j]
      /\ \A i, j \in 1 .. Len(journal') : i < j => journal'[i] < journal'[j]
      /\ \A i \in 1 .. Len(journal') : journal'[i] <= written'
  <2>1. CASE written + 1 \notin Forged
    BY <1>1, <1>4, <2>1 DEF SpoofInv
  <2>2. CASE written + 1 \in Forged
    <3>1. journal' = Append(journal, written') /\ journal \in Seq(Forged) /\ written' \in Forged
      BY <1>1, <2>2 DEF SpoofInv
    <3>2. /\ journal' \in Seq(Forged) /\ Len(journal') = Len(journal) + 1 /\ journal'[Len(journal) + 1] = written'
          /\ \A i \in 1 .. Len(journal) : journal'[i] = journal[i]
      BY <3>1
    <3>3. Len(journal) \in Nat /\ \A i \in 1 .. Len(journal') : i \in 1 .. Len(journal) \/ i = Len(journal) + 1
      BY <3>2, ToldTypes
    <3>4. \A i \in 1 .. Len(told) : \A j \in 1 .. Len(journal') : told[i][1] < journal'[j]
      BY <1>3, <3>2, <3>3 DEF SpoofInv
    <3>5. ASSUME NEW i \in 1 .. Len(journal'), NEW j \in 1 .. Len(journal'), i < j PROVE journal'[i] < journal'[j]
      <4>1. i \in 1 .. Len(journal)
        BY <3>2, <3>3, <3>5
      <4>2. CASE j \in 1 .. Len(journal)
        BY <3>2, <3>5, <4>1, <4>2 DEF SpoofInv
      <4>3. CASE j = Len(journal) + 1
        BY <1>4, <3>2, <4>1, <4>3
      <4> QED
        BY <3>3, <4>2, <4>3
    <3>6. \A i \in 1 .. Len(journal') : journal'[i] <= written'
      BY <1>2, <1>4, <3>2, <3>3
    <3> QED
      BY <3>2, <3>4, <3>5, <3>6
  <2> QED
    BY <2>1, <2>2
<1> QED
  BY <1>1, <1>2, <1>3, <1>5 DEF SpoofInv, Watch!Fresh

LEMMA WatchLoopSpoofs == ASSUME SpoofInv, Watch!spoofWatchLoop PROVE SpoofInv'
<1> DEFINE E == {e \in spoof : Watch!Fresh(e)}
           new == <<Head(journal), clock>>
           kept == Watch!OldestOut(E)
<1>1. /\ journal # <<>> /\ journal' = Tail(journal) /\ spoof' = kept \cup {new} /\ told' = Append(told, new)
      /\ UNCHANGED <<clock, written, spoofed>>
  BY DEF Watch!spoofWatchLoop
<1>2. /\ kept \subseteq E /\ IsFiniteSet(kept) /\ Cardinality(kept) < spoofMaxEntries
      /\ \A i \in 1 .. Len(told) : told[i] \in E /\ Len(told) - i + 1 < spoofMaxEntries => told[i] \in kept
  <2>1. E \in SUBSET spoof
    OBVIOUS
  <2> HIDE DEF E
  <2> QED
    BY <2>1, OldestOutMeans
<1>3. /\ Len(journal) \in Nat /\ 1 \in 1 .. Len(journal) /\ Head(journal) = journal[1]
      /\ Head(journal) \in Forged /\ Head(journal) \in Int
      /\ Tail(journal) \in Seq(Forged) /\ Len(Tail(journal)) = Len(journal) - 1
      /\ \A j \in 1 .. Len(Tail(journal)) : j + 1 \in 1 .. Len(journal) /\ Tail(journal)[j] = journal[j + 1]
  <2>1. journal \in Seq(Forged) /\ journal # <<>>
    BY <1>1 DEF SpoofInv
  <2>2. /\ Len(journal) \in Nat /\ 1 \in 1 .. Len(journal) /\ Head(journal) = journal[1]
        /\ Tail(journal) \in Seq(Forged) /\ Len(Tail(journal)) = Len(journal) - 1
    BY <2>1
  <2>3. \A j \in 1 .. Len(Tail(journal)) : j + 1 \in 1 .. Len(journal) /\ Tail(journal)[j] = journal[j + 1]
    BY <2>1, <2>2
  <2> QED
    BY <2>2, <2>3, ToldTypes
<1>4. new \in Forged \X (0 .. MaxClock) /\ new[1] = Head(journal) /\ new[2] = clock /\ clock \in Int
  BY <1>3 DEF SpoofInv
<1> HIDE DEF new, kept
<1>5. /\ told' \in Seq(Forged \X (0 .. MaxClock)) /\ Len(told') = Len(told) + 1 /\ told'[Len(told) + 1] = new
      /\ \A i \in 1 .. Len(told) : told'[i] = told[i]
  <2>1. told \in Seq(Forged \X (0 .. MaxClock))
    BY DEF SpoofInv
  <2> QED
    BY <1>1, <1>4, <2>1
<1>6. Len(told) \in Nat /\ \A i \in 1 .. Len(told') : i \in 1 .. Len(told) \/ i = Len(told) + 1
  BY <1>5, ToldTypes
<1>7. \A i \in 1 .. Len(told) : told[i][1] < new[1] /\ told[i][2] <= new[2] /\ told[i][1] \in Int /\ told[i][2] \in Int
  BY <1>3, <1>4, ToldTypes DEF SpoofInv
<1>8. ASSUME NEW i \in 1 .. Len(told'), NEW j \in 1 .. Len(told'), i < j
      PROVE  told'[i][1] < told'[j][1] /\ told'[i][2] <= told'[j][2]
  <2>1. i \in 1 .. Len(told)
    BY <1>5, <1>6, <1>8
  <2>2. CASE j \in 1 .. Len(told)
    BY <1>5, <1>8, <2>1, <2>2 DEF SpoofInv
  <2>3. CASE j = Len(told) + 1
    BY <1>5, <1>7, <2>1, <2>3
  <2> QED
    BY <1>6, <2>2, <2>3
<1>9. ASSUME NEW i \in 1 .. Len(told') PROVE told'[i][1] <= written /\ told'[i][2] <= clock
  <2>1. CASE i \in 1 .. Len(told)
    BY <1>5, <2>1 DEF SpoofInv
  <2>2. CASE i = Len(told) + 1
    <3>1. journal[1] <= written
      BY <1>3 DEF SpoofInv
    <3> QED
      BY <1>3, <1>4, <1>5, <2>2, <3>1
  <2> QED
    BY <1>6, <2>1, <2>2
<1>10. ASSUME NEW i \in 1 .. Len(told'), NEW j \in 1 .. Len(journal') PROVE told'[i][1] < journal'[j]
  <2>1. journal'[j] = journal[j + 1] /\ j + 1 \in 1 .. Len(journal) /\ 1 < j + 1
    BY <1>1, <1>3
  <2>2. CASE i \in 1 .. Len(told)
    BY <1>5, <2>1, <2>2 DEF SpoofInv
  <2>3. CASE i = Len(told) + 1
    <3>1. journal[1] < journal[j + 1]
      BY <1>3, <2>1 DEF SpoofInv
    <3> QED
      BY <1>3, <1>4, <1>5, <2>1, <2>3, <3>1
  <2> QED
    BY <1>6, <2>2, <2>3
<1>11. /\ \A i, j \in 1 .. Len(journal') : i < j => journal'[i] < journal'[j]
       /\ \A i \in 1 .. Len(journal') : journal'[i] <= written
  <2>1. ASSUME NEW i \in 1 .. Len(journal')
        PROVE  journal'[i] = journal[i + 1] /\ i + 1 \in 1 .. Len(journal)
    BY <1>1, <1>3
  <2>2. \A i, j \in 1 .. Len(journal') : i < j => i + 1 < j + 1
    BY <1>1, <1>3
  <2> QED
    BY <2>1, <2>2 DEF SpoofInv
<1>12. spoof' \subseteq Forged \X (0 .. MaxClock) /\ IsFiniteSet(spoof') /\ Cardinality(spoof') <= spoofMaxEntries
  <2>1. kept \subseteq Forged \X (0 .. MaxClock)
    BY <1>2 DEF SpoofInv
  <2>2. /\ IsFiniteSet(kept \cup {new}) /\ Cardinality(kept) \in Nat
        /\ Cardinality(kept \cup {new}) = IF new \in kept THEN Cardinality(kept) ELSE Cardinality(kept) + 1
    BY <1>2, FS_AddElement, FS_CardinalityType
  <2> QED
    BY <1>1, <1>2, <1>4, <2>1, <2>2, WatchConstants
<1>13. ASSUME NEW e \in spoof' PROVE \E i \in 1 .. Len(told') : e = told'[i]
  <2>1. CASE e = new
    <3>1. Len(told) + 1 \in 1 .. Len(told')
      BY <1>5, <1>6
    <3> QED
      BY <1>5, <2>1, <3>1
  <2>2. CASE e \in kept
    <3>1. PICK i \in 1 .. Len(told) : e = told[i]
      BY <1>2, <2>2 DEF SpoofInv
    <3>2. i \in 1 .. Len(told')
      BY <1>5, <1>6
    <3> QED
      BY <1>5, <3>1, <3>2
  <2> QED
    BY <1>1, <2>1, <2>2
<1>14. ASSUME NEW i \in 1 .. Len(told'), Watch!Fresh(told'[i]), Len(told') - i < spoofMaxEntries
       PROVE  told'[i] \in spoof'
  <2>1. CASE i = Len(told) + 1
    BY <1>1, <1>5, <2>1
  <2>2. CASE i \in 1 .. Len(told)
    <3>1. Len(told) - i < spoofMaxEntries /\ Len(told) - i + 1 < spoofMaxEntries /\ told'[i] = told[i]
      BY <1>5, <1>6, <1>14, <2>2, WatchConstants
    <3>2. told[i] \in spoof
      BY <1>14, <2>2, <3>1 DEF SpoofInv
    <3>3. told[i] \in E
      BY <1>14, <3>1, <3>2
    <3> QED
      BY <1>1, <1>2, <2>2, <3>1, <3>3
  <2> QED
    BY <1>6, <2>1, <2>2
<1>15. clock' = clock /\ written' = written /\ spoofed' = spoofed /\ journal' \in Seq(Forged)
       /\ \A e : Watch!Fresh(e)' <=> Watch!Fresh(e)
  BY <1>1, <1>3 DEF Watch!Fresh
<1>16. \A i \in 1 .. Len(told') :
         Watch!Fresh(told[i])' /\ Len(told') - i < spoofMaxEntries => told'[i] \in spoof'
  BY <1>1, <1>14 DEF Watch!Fresh
<1> QED
  BY <1>5, <1>8, <1>9, <1>10, <1>11, <1>12, <1>13, <1>15, <1>16 DEF SpoofInv

LEMMA TimePassesSpoofs ==
  ASSUME SpoofInv, clock' \in 0 .. MaxClock, clock <= clock', spoofed' \subseteq Forged,
         UNCHANGED <<written, journal, spoof, told>>
  PROVE  SpoofInv'
<1>1. clock \in Int /\ clock' \in Int /\ spoofTTL \in Int
  BY WatchConstants DEF SpoofInv
<1>2. ASSUME NEW i \in 1 .. Len(told)
      PROVE  /\ told[i][1] <= written /\ told[i][2] <= clock'
             /\ Watch!Fresh(told[i])' => Watch!Fresh(told[i])
  <2>1. told[i][1] <= written /\ told[i][2] <= clock /\ told[i][2] \in Int
    BY ToldTypes DEF SpoofInv
  <2>2. told'[i] = told[i]
    OBVIOUS
  <2> QED
    BY <1>1, <2>1, <2>2 DEF Watch!Fresh
<1> QED
  BY <1>2 DEF SpoofInv

LEMMA ConfigureSpoofs == ASSUME SpoofInv, Watch!Configure PROVE SpoofInv'
<1>1. journal' = <<>> /\ spoof' = {} /\ told' = <<>> /\ UNCHANGED <<clock, written, spoofed>>
  BY DEF Watch!Configure
<1>2. /\ told' \in Seq(Forged \X (0 .. MaxClock)) /\ journal' \in Seq(Forged) /\ Len(told') = 0 /\ Len(journal') = 0
      /\ IsFiniteSet(spoof') /\ Cardinality(spoof') <= spoofMaxEntries
      /\ clock' \in 0 .. MaxClock /\ written' \in 0 .. MaxLines /\ spoofed' \subseteq Forged
  <2>1. /\ told' \in Seq(Forged \X (0 .. MaxClock)) /\ journal' \in Seq(Forged) /\ Len(told') = 0 /\ Len(journal') = 0
    BY <1>1
  <2>2. IsFiniteSet(spoof') /\ Cardinality(spoof') <= spoofMaxEntries
    BY <1>1, FS_EmptySet, WatchConstants
  <2> QED
    BY <1>1, <2>1, <2>2 DEF SpoofInv
<1>3. 1 .. Len(told') = {} /\ 1 .. Len(journal') = {}
  BY <1>2
<1> QED
  BY <1>1, <1>2, <1>3 DEF SpoofInv

WatchInv == FollowInv /\ SpoofInv

LEMMA ScanTells ==
  ASSUME FollowInv, SpoofInv, Watch!scanFile
  PROVE  /\ spoofed' \subseteq Forged
         /\ \A l \in Watch!Lines(read') \ Watch!Lines(read) : Watch!Known(l) => l \in spoofed'
<1> DEFINE chunk == SubSeq(file, Watch!Start(Watch!Seen) + 1, Watch!Reach(Watch!Start(Watch!Seen)))
<1>1. /\ read' = read \o chunk
      /\ spoofed' = spoofed \cup {l \in Watch!Lines(chunk) : Watch!Known(l)}
  BY DEF Watch!scanFile
<1>2. \A l : Watch!Known(l) => l \in Forged
  BY DEF Watch!Known, SpoofInv
<1>3. spoofed' \subseteq Forged
  BY <1>1, <1>2 DEF SpoofInv
<1>4. read \in Seq(Watch!Line) /\ chunk \in Seq(Watch!Line)
  <2>1. /\ Watch!Start(Watch!Seen) \in 0 .. Len(file)
        /\ Watch!Reach(Watch!Start(Watch!Seen)) \in Watch!Start(Watch!Seen) .. Len(file)
    BY StartMeans DEF Watch!scanFile
  <2>2. file \in Seq(Watch!Line) /\ read \in Seq(Watch!Line)
    BY DEF FollowInv
  <2> QED
    BY <2>1, <2>2
<1> HIDE DEF chunk
<1>5. Watch!Lines(read \o chunk) \subseteq Watch!Lines(read) \cup Watch!Lines(chunk)
  <2> SUFFICES ASSUME NEW i \in 1 .. Len(read) + Len(chunk)
               PROVE  (read \o chunk)[i] \in Watch!Lines(read) \cup Watch!Lines(chunk)
    <3>1. DOMAIN (read \o chunk) = 1 .. Len(read) + Len(chunk)
      BY <1>4
    <3> QED
      BY <3>1 DEF Watch!Lines
  <2>1. Len(read) \in Nat /\ Len(chunk) \in Nat /\ DOMAIN read = 1 .. Len(read) /\ DOMAIN chunk = 1 .. Len(chunk)
    BY <1>4
  <2>2. CASE i \in 1 .. Len(read)
    <3>1. (read \o chunk)[i] = read[i]
      BY <1>4, <2>2
    <3> QED
      BY <2>1, <2>2, <3>1 DEF Watch!Lines
  <2>3. CASE i \notin 1 .. Len(read)
    <3>1. i - Len(read) \in 1 .. Len(chunk)
      BY <2>1, <2>3
    <3>2. (read \o chunk)[i] = chunk[i - Len(read)]
      BY <1>4, <2>1, <2>3
    <3> QED
      BY <2>1, <3>1, <3>2 DEF Watch!Lines
  <2> QED
    BY <2>2, <2>3
<1> QED
  BY <1>1, <1>3, <1>5

LEMMA WatchNext == ASSUME WatchInv, [Watch!Next]_(Watch!vars) PROVE WatchInv'
<1>0. FollowInv /\ SpoofInv /\ clock \in 0 .. MaxClock /\ clock <= clock /\ spoofed \subseteq Forged
  BY DEF WatchInv, SpoofInv
<1>1. CASE Watch!Append1
  BY <1>0, <1>1, AppendFollows, AppendSpoofs DEF WatchInv
<1>2. CASE Watch!Rotate
  <2>1. SpoofInv'
    BY <1>0, <1>2, TimePassesSpoofs DEF Watch!Rotate
  <2> QED
    BY <1>0, <1>2, <2>1, RotateFollows DEF WatchInv
<1>3. CASE Watch!Truncate
  <2>1. SpoofInv'
    BY <1>0, <1>3, TimePassesSpoofs DEF Watch!Truncate
  <2> QED
    BY <1>0, <1>3, <2>1, TruncateFollows DEF WatchInv
<1>4. CASE Watch!scanFile
  <2>1. SpoofInv'
    BY <1>0, <1>4, TimePassesSpoofs, ScanTells DEF Watch!scanFile
  <2> QED
    BY <1>0, <1>4, <2>1, ScanFollows DEF WatchInv
<1>5. CASE Watch!scanNothing
  <2>1. SpoofInv'
    BY <1>0, <1>5, TimePassesSpoofs DEF Watch!scanNothing, Watch!ghost
  <2>2. FollowInv'
    <3>1. file = <<>>
      BY <1>0, <1>5 DEF Watch!scanNothing, FollowInv
    <3> QED
      BY <1>0, <1>5, <3>1, FollowStays DEF Watch!scanNothing, Watch!ghost
  <2> QED
    BY <2>1, <2>2 DEF WatchInv
<1>6. CASE Watch!spoofWatchLoop
  <2>1. FollowInv'
    BY <1>0, <1>6, FollowStays DEF Watch!spoofWatchLoop
  <2> QED
    BY <1>0, <1>6, <2>1, WatchLoopSpoofs DEF WatchInv
<1>7. CASE Watch!Configure
  <2>1. FollowInv'
    BY <1>0, <1>7, FollowStays DEF Watch!Configure
  <2> QED
    BY <1>0, <1>7, <2>1, ConfigureSpoofs DEF WatchInv
<1>8. CASE Watch!Tick
  <2>1. /\ clock' \in 0 .. MaxClock /\ clock <= clock'
        /\ UNCHANGED <<written, ino, file, source, journal, spoof, read, spoofed, cut, spared, told>>
    BY <1>0, <1>8, WatchConstants DEF Watch!Tick, Watch!ghost
  <2> QED
    BY <1>0, <2>1, FollowStays, TimePassesSpoofs DEF WatchInv
<1>9. CASE UNCHANGED Watch!vars
  <2>1. UNCHANGED <<clock, written, ino, file, source, journal, spoof, read, spoofed, cut, spared, told>>
    BY <1>9 DEF Watch!vars, Watch!ghost
  <2> QED
    BY <1>0, <2>1, FollowStays, TimePassesSpoofs DEF WatchInv
<1> QED
  BY <1>1, <1>2, <1>3, <1>4, <1>5, <1>6, <1>7, <1>8, <1>9 DEF Watch!Next

(* LogWatch: the file and what was read of it are in order, what is left   *)
(* is later; the cache holds the newest of what was told.                  *)
THEOREM WatchInvariance == Watch!Spec => []WatchInv
<1>1. Watch!Init => WatchInv
  BY WatchInitFollows, WatchInitSpoofs DEF WatchInv
<1> QED
  BY <1>1, WatchNext, PTL DEF Watch!Spec

(* Whatever rotates and truncates the log: its lines are read once and in  *)
(* order, none is passed over, and a forgery the watch was told of in time *)
(* is taken for one (monitor.go: scanFile; monitor_spoof.go).              *)
THEOREM LinesTheorem == Watch!Spec => LinesAreReadOnce
<1>1. WatchInv => Watch!ReadOnceInOrder /\ Watch!NothingIsPassedOver
  <2> SUFFICES ASSUME WatchInv PROVE Watch!ReadOnceInOrder
    BY DEF WatchInv, FollowInv
  <2>1. read \in Seq(Watch!Line) /\ \A i, j \in 1 .. Len(read) : i < j => read[i] < read[j]
    BY DEF WatchInv, FollowInv
  <2>2. DOMAIN read = 1 .. Len(read)
    BY <2>1
  <2> QED
    BY <2>1, <2>2 DEF Watch!ReadOnceInOrder
<1> DEFINE Told == \A i \in DOMAIN told :
                     LET l == told[i][1]
                     IN l \in Watch!Lines(read') \ Watch!Lines(read) /\ Watch!Fresh(told[i])
                          /\ Len(told) - i < spoofMaxEntries
                        => l \in spoofed'
<1>2. ASSUME WatchInv, [Watch!Next]_(Watch!vars) PROVE [Told]_(Watch!vars)
  <2> SUFFICES ASSUME Watch!Next,
                      NEW i \in DOMAIN told, told[i][1] \in Watch!Lines(read') \ Watch!Lines(read),
                      Watch!Fresh(told[i]), Len(told) - i < spoofMaxEntries
               PROVE  told[i][1] \in spoofed'
    BY <1>2
  <2>1. Watch!scanFile
    <3>1. read' # read
      BY DEF Watch!Lines
    <3> QED
      BY <3>1 DEF Watch!Next, Watch!Append1, Watch!Rotate, Watch!Truncate, Watch!scanNothing,
                  Watch!spoofWatchLoop, Watch!Configure, Watch!Tick
  <2>2. told[i] \in spoof
    <3>1. i \in 1 .. Len(told)
      <4>1. told \in Seq(Forged \X (0 .. MaxClock))
        BY <1>2 DEF WatchInv, SpoofInv
      <4> QED
        BY <4>1
    <3> QED
      BY <1>2, <3>1 DEF WatchInv, SpoofInv
  <2>3. Watch!Known(told[i][1])
    BY <2>2 DEF Watch!Known
  <2> QED
    BY <1>2, <2>1, <2>3, ScanTells DEF WatchInv
<1>3. Watch!Spec => []Watch!ReadOnceInOrder /\ []Watch!NothingIsPassedOver
  BY <1>1, WatchInvariance, PTL
<1>4. WatchInv /\ [Watch!Next]_(Watch!vars) => [Told]_(Watch!vars)
  BY <1>2
<1> HIDE DEF Told
<1>5. Watch!Spec => [][Told]_(Watch!vars)
  BY <1>4, WatchInvariance, PTL DEF Watch!Spec
<1> USE DEF Told
<1>6. Watch!Spec => Watch!ForgeriesAreRecognised
  BY <1>5 DEF Watch!ForgeriesAreRecognised
<1> QED
  BY <1>3, <1>6 DEF LinesAreReadOnce, Watch!LinesAreReadOnce

LEMMA WatchTypes == WatchInv => Watch!TypeOK
<1> SUFFICES ASSUME WatchInv PROVE Watch!TypeOK
  OBVIOUS
<1>1. Watch!Cardinality(spoof) <= spoofMaxEntries
  BY WatchCardinality DEF WatchInv, SpoofInv
<1> QED
  BY <1>1 DEF Watch!TypeOK, WatchInv, FollowInv, SpoofInv

-----------------------------------------------------------------------------
\* LogChain: lines and hashes.

LEMMA ChainConstants ==
  /\ MaxLogged \in Nat \ {0} /\ MaxOpens \in Nat \ {0} /\ MaxAccidents \in Nat
  /\ Chain!Longest = MaxLogged + MaxAccidents /\ Chain!Torn \in Chain!Line
  /\ Chain!Line = [hash : 0 .. MaxLogged, prev : 0 .. MaxLogged]
  BY ChainAssumption DEF Chain!ChainBounds, Chain!Longest, Chain!Torn, Chain!Line

\* A line added to a file, unless it goes into a torn one.
LEMMA WithMeans ==
  ASSUME NEW f \in Seq(Chain!Line), NEW l \in Chain!Line
  PROVE  /\ Chain!With(f, l) \in Seq(Chain!Line)
         /\ Len(f) \in Nat /\ Len(Chain!With(f, l)) \in Nat
         /\ \A i \in 1 .. Len(f) : Chain!With(f, l)[i] = f[i]
         /\ \/ Chain!With(f, l) = f /\ Len(f) > 0 /\ f[Len(f)] = Chain!Torn
            \/ Len(Chain!With(f, l)) = Len(f) + 1 /\ Chain!With(f, l)[Len(f) + 1] = l
<1>1. CASE f # <<>> /\ f[Len(f)] = Chain!Torn
  BY <1>1 DEF Chain!With
<1>2. CASE ~(f # <<>> /\ f[Len(f)] = Chain!Torn)
  <2>1. Chain!With(f, l) = Append(f, l)
    BY <1>2 DEF Chain!With
  <2> QED
    BY <2>1
<1> QED
  BY <1>1, <1>2

\* Hashes are numbers in the order of writing.
Hashes(f, bound) ==
  /\ \A i \in 1 .. Len(f) : f[i].hash <= bound /\ (f[i] # Chain!Torn => f[i].hash > 0)
  /\ \A i, j \in 1 .. Len(f) : i < j /\ f[j].hash # 0 => f[i].hash < f[j].hash

LEMMA HashTypes ==
  ASSUME NEW f \in Seq(Chain!Line)
  PROVE  /\ Len(f) \in Nat
         /\ \A i \in 1 .. Len(f) : f[i] \in Chain!Line /\ f[i].hash \in Nat /\ f[i].prev \in Nat
                                   /\ (f[i].hash # 0 => f[i] # Chain!Torn)
<1>1. \A i \in 1 .. Len(f) : f[i] \in Chain!Line
  OBVIOUS
<1>2. \A l \in Chain!Line : l.hash \in Nat /\ l.prev \in Nat /\ (l.hash # 0 => l # Chain!Torn)
  BY ChainConstants DEF Chain!Torn
<1> QED
  BY <1>1, <1>2

LEMMA HashesGrow ==
  ASSUME NEW f \in Seq(Chain!Line), NEW l \in Chain!Line, NEW bound \in Nat, NEW more \in Nat,
         Hashes(f, bound), bound <= more,
         l = Chain!Torn \/ (l.hash = bound + 1 /\ bound + 1 <= more)
  PROVE  Hashes(Chain!With(f, l), more)
<1> DEFINE g == Chain!With(f, l)
<1>1. CASE g = f
  BY <1>1, HashTypes DEF Hashes
<1>2. CASE g # f
  <2>1. /\ Len(g) = Len(f) + 1 /\ g[Len(f) + 1] = l /\ Len(f) \in Nat
        /\ \A i \in 1 .. Len(f) : g[i] = f[i]
    BY <1>2, WithMeans
  <2> HIDE DEF g
  <2>2. \A i \in 1 .. Len(g) : i \in 1 .. Len(f) \/ i = Len(f) + 1
    BY <2>1
  <2>3. l.hash \in Nat /\ (l = Chain!Torn => l.hash = 0) /\ l.hash <= more
    BY ChainConstants DEF Chain!Torn
  <2>4. ASSUME NEW i \in 1 .. Len(g) PROVE g[i].hash <= more /\ (g[i] # Chain!Torn => g[i].hash > 0)
    <3>1. CASE i \in 1 .. Len(f)
      <4>1. f[i].hash <= bound /\ (f[i] # Chain!Torn => f[i].hash > 0) /\ f[i].hash \in Nat
        BY <3>1, HashTypes DEF Hashes
      <4> QED
        BY <2>1, <3>1, <4>1
    <3>2. CASE i = Len(f) + 1
      BY <2>1, <2>3, <3>2
    <3> QED
      BY <2>2, <3>1, <3>2
  <2>5. ASSUME NEW i \in 1 .. Len(g), NEW j \in 1 .. Len(g), i < j, g[j].hash # 0 PROVE g[i].hash < g[j].hash
    <3>1. i \in 1 .. Len(f) /\ g[i] = f[i]
      BY <2>1, <2>2, <2>5
    <3>2. CASE j \in 1 .. Len(f)
      BY <2>1, <2>5, <3>1, <3>2 DEF Hashes
    <3>3. CASE j = Len(f) + 1
      <4>1. f[i].hash <= bound /\ f[i].hash \in Nat
        BY <3>1, HashTypes DEF Hashes
      <4>2. g[j].hash = bound + 1
        BY <2>1, <2>3, <2>5, <3>3
      <4> QED
        BY <3>1, <4>1, <4>2
    <3> QED
      BY <2>2, <3>2, <3>3
  <2> QED
    BY <2>4, <2>5 DEF Hashes, g
<1> QED
  BY <1>1, <1>2

LEMMA HashesCut ==
  ASSUME NEW f \in Seq(Chain!Line), NEW bound, Hashes(f, bound), NEW k \in 0 .. Len(f)
  PROVE  /\ Hashes(SubSeq(f, 1, k), bound) /\ SubSeq(f, 1, k) \in Seq(Chain!Line) /\ Len(SubSeq(f, 1, k)) = k
         /\ \A i \in 1 .. k : SubSeq(f, 1, k)[i] = f[i]
<1> DEFINE g == SubSeq(f, 1, k)
<1>1. /\ g \in Seq(Chain!Line) /\ Len(g) = k /\ \A i \in 1 .. k : g[i] = f[i] /\ i \in 1 .. Len(f)
  OBVIOUS
<1> HIDE DEF g
<1>2. Hashes(g, bound)
  BY <1>1 DEF Hashes
<1> QED
  BY <1>1, <1>2 DEF g

LastHash(f) == IF Len(f) = 0 THEN 0 ELSE f[Len(f)].hash

\* The last hash found is the largest; in a chain that verifies it is that of the last line.
LEMMA LoadMeans ==
  ASSUME NEW f \in Seq(Chain!Line), NEW bound \in Nat, Hashes(f, bound)
  PROVE  /\ Chain!loadLastHash(f) \in 0 .. MaxLogged /\ Chain!loadLastHash(f) <= bound
         /\ \A i \in 1 .. Len(f) : f[i].hash <= Chain!loadLastHash(f)
         /\ Chain!Verified(f) => Chain!loadLastHash(f) = LastHash(f)
<1> DEFINE whole == {i \in 1 .. Len(f) : f[i].hash # 0}
           Top(i) == \A j \in whole : j <= i
           top == CHOOSE i \in whole : Top(i)
<1>1. Chain!loadLastHash(f) = IF whole = {} THEN 0 ELSE f[top].hash
  BY DEF Chain!loadLastHash
<1>2. /\ Len(f) \in Nat
      /\ \A i \in 1 .. Len(f) : f[i].hash \in 0 .. MaxLogged /\ f[i].hash <= bound /\ f[i].hash \in Nat
  BY HashTypes, ChainConstants DEF Hashes
<1>3. CASE whole = {}
  <2>1. \A i \in 1 .. Len(f) : f[i].hash = 0
    BY <1>3
  <2>2. Chain!Verified(f) => Len(f) = 0
    <3>1. ASSUME Chain!Verified(f), Len(f) # 0 PROVE FALSE
      <4>1. 1 \in 1 .. Len(f)
        BY <1>2, <3>1
      <4> QED
        BY <2>1, <3>1, <4>1 DEF Chain!Verified
    <3> QED
      BY <3>1
  <2> QED
    BY <1>1, <1>3, <2>1, <2>2, ChainConstants DEF LastHash
<1>4. CASE whole # {}
  <2>1. \E i \in whole : Top(i)
    <3>1. whole \in SUBSET (1 .. Len(f)) /\ whole \in SUBSET Int /\ IsFiniteSet(1 .. Len(f))
      BY <1>2, FS_Interval
    <3>2. IsFiniteSet(whole)
      BY <3>1, FS_Subset
    <3> HIDE DEF whole
    <3> QED
      BY <1>4, <3>1, <3>2, HasGreatest
  <2>2. top \in whole /\ Top(top)
    <3> HIDE DEF Top
    <3> QED
      BY <2>1
  <2> HIDE DEF top
  <2>3. top \in 1 .. Len(f) /\ f[top].hash # 0 /\ Chain!loadLastHash(f) = f[top].hash
    BY <1>1, <1>4, <2>2
  <2>4. ASSUME NEW i \in 1 .. Len(f) PROVE f[i].hash <= f[top].hash
    <3>1. CASE f[i].hash = 0
      BY <1>2, <2>3, <3>1
    <3>2. CASE f[i].hash # 0 /\ i = top
      BY <1>2, <3>2
    <3>3. CASE f[i].hash # 0 /\ i # top
      <4>1. i <= top
        BY <2>2, <3>3
      <4>2. i < top
        BY <2>3, <3>3, <4>1
      <4>3. f[i].hash < f[top].hash
        BY <2>3, <4>2 DEF Hashes
      <4> QED
        BY <1>2, <2>3, <4>3
    <3> QED
      BY <3>1, <3>2, <3>3
  <2>5. Chain!Verified(f) => top = Len(f)
    <3> SUFFICES ASSUME Chain!Verified(f) PROVE top = Len(f)
      OBVIOUS
    <3>1. Len(f) \in 1 .. Len(f)
      BY <1>2, <2>3
    <3>2. Len(f) \in whole
      BY <3>1 DEF Chain!Verified
    <3>3. Len(f) <= top
      BY <2>2, <3>2
    <3> QED
      BY <1>2, <2>3, <3>3
  <2>6. Len(f) # 0
    BY <1>2, <2>3
  <2> QED
    BY <1>2, <2>3, <2>4, <2>5, <2>6 DEF LastHash
<1> QED
  BY <1>3, <1>4

BrokenAt(f, i) == f[i].hash = 0 \/ f[i].prev # IF i = 1 THEN 0 ELSE f[i - 1].hash

\* A line that follows the last keeps the chain whole; one that does not, breaks it.
LEMMA ChainGrows ==
  ASSUME NEW f \in Seq(Chain!Line), NEW l \in Chain!Line, Chain!Verified(f), l.hash # 0, l.prev = LastHash(f)
  PROVE  Chain!Verified(Chain!With(f, l)) /\ LastHash(Chain!With(f, l)) = l.hash
<1> DEFINE g == Chain!With(f, l)
<1>1. Len(f) \in Nat /\ ~(Len(f) > 0 /\ f[Len(f)] = Chain!Torn)
  <2>1. Len(f) \in Nat
    OBVIOUS
  <2>2. ASSUME Len(f) > 0, f[Len(f)] = Chain!Torn PROVE FALSE
    <3>1. Len(f) \in 1 .. Len(f)
      BY <2>1, <2>2
    <3> QED
      BY <2>2, <3>1 DEF Chain!Verified, Chain!Torn
  <2> QED
    BY <2>1, <2>2
<1>2. Len(g) = Len(f) + 1 /\ g[Len(f) + 1] = l /\ \A i \in 1 .. Len(f) : g[i] = f[i]
  BY <1>1, WithMeans
<1> HIDE DEF g
<1>3. ASSUME NEW i \in 1 .. Len(g) PROVE g[i].hash # 0 /\ g[i].prev = IF i = 1 THEN 0 ELSE g[i - 1].hash
  <2>1. CASE i \in 1 .. Len(f)
    <3>1. i # 1 => i - 1 \in 1 .. Len(f)
      BY <1>1, <2>1
    <3> QED
      BY <1>2, <2>1, <3>1 DEF Chain!Verified
  <2>2. CASE i = Len(f) + 1
    <3>1. CASE i = 1
      BY <1>1, <1>2, <2>2, <3>1 DEF LastHash
    <3>2. CASE i # 1
      <4>1. i - 1 = Len(f) /\ i - 1 \in 1 .. Len(f) /\ Len(f) # 0
        BY <1>1, <2>2, <3>2
      <4> QED
        BY <1>2, <2>2, <3>2, <4>1 DEF LastHash
    <3> QED
      BY <3>1, <3>2
  <2> QED
    BY <1>1, <1>2, <2>1, <2>2
<1>4. LastHash(g) = l.hash
  BY <1>1, <1>2 DEF LastHash
<1> QED
  BY <1>3, <1>4 DEF Chain!Verified, g

-----------------------------------------------------------------------------
\* LogChain: the log and its loggers.

OpeningFits ==
  /\ opening.at \notin {"no", "swapped"} => opened < MaxOpens
  /\ opening.prev <= logged
  /\ opening.at \in {"moved", "fresh"} => opening.quarantine /\ chain = <<>>
  /\ opening.at = "valid" => ~opening.quarantine
  /\ opening.quarantine /\ opening.at # "swapped" => ~live.here

\* No line is newer than what a logger follows; and with nothing to break the chain it is whole.
LoggersFollow ==
  /\ "reopened" \notin cause =>
       /\ live.here => \A i \in 1 .. Len(chain) : chain[i].hash <= live.prev
       /\ opening.at = "loaded" => \A i \in 1 .. Len(chain) : chain[i].hash <= opening.prev
  /\ cause = {} =>
       /\ Chain!Verified(chain)
       /\ live.here => live.prev = LastHash(chain)
       /\ opening.at = "loaded" => opening.prev = LastHash(chain)

Opening == [at : {"no", "broken", "moved", "fresh", "valid", "loaded", "swapped"},
            prev : 0 .. MaxLogged, quarantine : BOOLEAN]
Logger == [id : 0 .. MaxOpens, prev : 0 .. MaxLogged, here : BOOLEAN]

ChainCore ==
  /\ chain \in Seq(Chain!Line) /\ Len(chain) <= logged + accidents
  /\ live \in Logger /\ opening \in Opening
  /\ logged \in 0 .. MaxLogged /\ opened \in 0 .. MaxOpens /\ accidents \in 0 .. MaxAccidents
  /\ cause \subseteq {"write", "torn", "lost", "reopened"}
  /\ Hashes(chain, logged) /\ live.prev <= logged /\ (live.here => live.id # 0)
  /\ OpeningFits
  /\ LoggersFollow

NewLine == [hash |-> logged + 1, prev |-> live.prev]

\* What log does: a line more, or nothing.
Logs ==
  /\ live.id # 0 /\ logged < MaxLogged /\ logged' = logged + 1
  /\ live' = [live EXCEPT !.prev = logged + 1]
  /\ chain' = IF live.here THEN Chain!With(chain, NewLine) ELSE chain
  /\ cause' = cause \cup Chain!Behind
Idle == UNCHANGED <<chain, live, logged, cause>>

LEMMA LogMeans == \A id : Chain!log(id) => Logs \/ Idle
  BY DEF Chain!log, Logs, Idle, Chain!Linked, NewLine

LEMMA CoreInts ==
  ASSUME ChainCore
  PROVE  /\ chain \in Seq(Chain!Line) /\ Len(chain) \in Nat /\ logged \in Nat /\ accidents \in Nat /\ opened \in Nat
         /\ live.prev \in 0 .. MaxLogged /\ opening.prev \in 0 .. MaxLogged /\ live.prev \in Nat /\ opening.prev \in Nat
         /\ live.here \in BOOLEAN /\ opening.quarantine \in BOOLEAN /\ live.id \in 0 .. MaxOpens
         /\ \A i \in 1 .. Len(chain) : chain[i].hash \in Nat
<1>1. chain \in Seq(Chain!Line) /\ live \in Logger /\ opening \in Opening
      /\ logged \in 0 .. MaxLogged /\ opened \in 0 .. MaxOpens /\ accidents \in 0 .. MaxAccidents
  BY DEF ChainCore
<1>2. Len(chain) \in Nat /\ \A i \in 1 .. Len(chain) : chain[i].hash \in Nat
  BY <1>1, HashTypes
<1>3. /\ live.prev \in 0 .. MaxLogged /\ opening.prev \in 0 .. MaxLogged
      /\ live.here \in BOOLEAN /\ opening.quarantine \in BOOLEAN /\ live.id \in 0 .. MaxOpens
  BY <1>1 DEF Logger, Opening
<1> QED
  BY <1>1, <1>2, <1>3

LEMMA CoreInit == Chain!Init => ChainCore
<1> SUFFICES ASSUME Chain!Init PROVE ChainCore
  OBVIOUS
<1>1. /\ chain = <<>> /\ live = Chain!NoLogger /\ opening = Chain!NotOpening
      /\ logged = 0 /\ opened = 0 /\ accidents = 0 /\ cause = {}
  BY DEF Chain!Init
<1>2. live \in Logger /\ opening \in Opening /\ live.here = FALSE /\ live.prev = 0 /\ opening.at = "no" /\ opening.prev = 0
      /\ opening.quarantine = FALSE
  BY <1>1, ChainConstants DEF Chain!NoLogger, Chain!NotOpening, Logger, Opening
<1>3. chain \in Seq(Chain!Line) /\ Len(chain) = 0 /\ 1 .. Len(chain) = {}
  BY <1>1
<1>4. logged \in 0 .. MaxLogged /\ opened \in 0 .. MaxOpens /\ accidents \in 0 .. MaxAccidents
  BY <1>1, ChainConstants
<1>5. Hashes(chain, logged) /\ Chain!Verified(chain) /\ Len(chain) <= logged + accidents
  BY <1>1, <1>3 DEF Hashes, Chain!Verified
<1>6. OpeningFits /\ LoggersFollow
  BY <1>1, <1>2, <1>5 DEF OpeningFits, LoggersFollow
<1> QED
  BY <1>1, <1>2, <1>3, <1>4, <1>5, <1>6 DEF ChainCore

\* Nothing is logged: Configure goes on, or something else happens.
LEMMA IdleKeeps ==
  ASSUME ChainCore, Idle, opened' = opened, accidents' \in accidents .. MaxAccidents,
         \/ opening' = opening
         \/ /\ opening' \in Opening /\ opening'.at # "loaded" /\ opening'.prev <= logged
            /\ opening'.at \notin {"no", "swapped"} => opened < MaxOpens
            /\ opening'.at \in {"moved", "fresh"} => opening'.quarantine /\ chain = <<>>
            /\ opening'.at = "valid" => ~opening'.quarantine
            /\ opening'.quarantine /\ opening'.at # "swapped" => ~live.here
  PROVE  ChainCore'
<1>1. accidents' \in 0 .. MaxAccidents /\ Len(chain) <= logged + accidents'
  BY CoreInts, ChainConstants DEF ChainCore
<1>2. OpeningFits'
  BY DEF ChainCore, OpeningFits, Idle
<1>3. LoggersFollow'
  BY DEF ChainCore, LoggersFollow, Idle, Chain!Verified, LastHash
<1>4. opening' \in Opening
  BY DEF ChainCore
<1> QED
  BY <1>1, <1>2, <1>3, <1>4 DEF ChainCore, Idle, Hashes

LEMMA NotOpeningType == Chain!NotOpening \in Opening /\ Chain!NotOpening.at = "no"
<1>1. 0 \in 0 .. MaxLogged
  BY ChainConstants
<1> QED
  BY <1>1 DEF Opening, Chain!NotOpening

LEMMA LogsKeep ==
  ASSUME ChainCore, Logs, UNCHANGED <<opened, accidents>>, opening' = opening \/ opening' = Chain!NotOpening
  PROVE  ChainCore'
<1>1. /\ logged' = logged + 1 /\ logged' \in 0 .. MaxLogged /\ logged \in Nat /\ logged' \in Nat
      /\ live' \in Logger /\ live'.here = live.here /\ live'.id = live.id /\ live'.prev = logged'
  <2>1. logged + 1 \in 0 .. MaxLogged
    BY CoreInts, ChainConstants DEF Logs
  <2>2. live \in Logger
    BY DEF ChainCore
  <2> QED
    BY <2>1, <2>2, CoreInts DEF Logs, Logger
<1>2. NewLine \in Chain!Line /\ NewLine.hash = logged + 1 /\ NewLine.prev = live.prev
  BY <1>1, CoreInts, ChainConstants DEF NewLine
<1>3. CASE live.here
  <2>1. chain' = Chain!With(chain, NewLine) /\ chain \in Seq(Chain!Line) /\ Hashes(chain, logged)
    BY <1>3 DEF Logs, ChainCore
  <2>2. chain' \in Seq(Chain!Line) /\ Len(chain') \in {Len(chain), Len(chain) + 1}
    BY <1>2, <2>1, WithMeans
  <2>3. Hashes(chain', logged')
    BY <1>1, <1>2, <2>1, HashesGrow
  <2>4. Len(chain') <= logged' + accidents'
    BY <1>1, <2>2, CoreInts DEF ChainCore
  <2>5. ~(opening.at \in {"moved", "fresh"}) /\ (opening.quarantine => opening.at = "swapped")
    BY <1>3, CoreInts DEF ChainCore, OpeningFits
  <2>6. OpeningFits'
    <3>1. CASE opening' = opening
      <4>1. opening'.prev <= logged'
        BY <1>1, <3>1, CoreInts DEF ChainCore, OpeningFits
      <4> QED
        BY <2>5, <3>1, <4>1 DEF ChainCore, OpeningFits
    <3>2. CASE opening' = Chain!NotOpening
      BY <1>1, <3>2 DEF OpeningFits, Chain!NotOpening
    <3> QED
      BY <3>1, <3>2
  <2>7. LoggersFollow'
    <3>1. \A i \in 1 .. Len(chain') : chain'[i].hash <= live'.prev
      BY <1>1, <2>3 DEF Hashes
    <3>2. ASSUME opening'.at = "loaded" PROVE "reopened" \in cause'
      <4>1. opening.at = "loaded"
        BY <3>2 DEF Chain!NotOpening
      <4> QED
        BY <1>3, <4>1 DEF Logs, Chain!Behind
    <3>3. ASSUME cause' = {} PROVE Chain!Verified(chain') /\ live'.prev = LastHash(chain')
      <4>1. cause = {}
        BY <3>3 DEF Logs
      <4>2. Chain!Verified(chain) /\ live.prev = LastHash(chain)
        BY <1>3, <4>1 DEF ChainCore, LoggersFollow
      <4>3. Chain!Verified(Chain!With(chain, NewLine)) /\ LastHash(Chain!With(chain, NewLine)) = logged + 1
        <5>1. NewLine.hash # 0
          BY <1>1, <1>2
        <5> QED
          BY <1>2, <2>1, <4>2, <5>1, ChainGrows
      <4> QED
        BY <1>1, <2>1, <4>3
    <3> QED
      BY <3>1, <3>2, <3>3 DEF LoggersFollow, Chain!Verified, LastHash
  <2>8. Hashes(chain, logged)'
    BY <2>3 DEF Hashes
  <2>9. cause' \subseteq {"write", "torn", "lost", "reopened"}
    BY DEF Logs, ChainCore, Chain!Behind
  <2>10. opening' \in Opening
    BY NotOpeningType DEF ChainCore
  <2>11. live'.prev <= logged' /\ (live'.here => live'.id # 0)
    BY <1>1 DEF ChainCore
  <2> QED
    BY <1>1, <2>2, <2>4, <2>6, <2>7, <2>8, <2>9, <2>10, <2>11 DEF ChainCore
<1>4. CASE ~live.here
  <2>1. chain' = chain /\ cause' = cause
    BY <1>4 DEF Logs, Chain!Behind
  <2>2. \A i \in 1 .. Len(chain) : chain[i].hash <= logged'
    <3> SUFFICES ASSUME NEW i \in 1 .. Len(chain) PROVE chain[i].hash <= logged'
      OBVIOUS
    <3>1. chain[i].hash <= logged /\ chain[i].hash \in Nat
      BY CoreInts DEF ChainCore, Hashes
    <3> QED
      BY <1>1, <3>1
  <2>3. Hashes(chain, logged)'
    BY <2>1, <2>2 DEF ChainCore, Hashes
  <2>4. Len(chain) <= logged' + accidents
    BY <1>1, CoreInts DEF ChainCore
  <2>5. OpeningFits'
    <3>1. CASE opening' = opening
      <4>1. opening'.prev <= logged'
        BY <1>1, <3>1, CoreInts DEF ChainCore, OpeningFits
      <4> QED
        BY <1>1, <2>1, <3>1, <4>1 DEF ChainCore, OpeningFits
    <3>2. CASE opening' = Chain!NotOpening
      BY <1>1, <3>2 DEF OpeningFits, Chain!NotOpening
    <3> QED
      BY <3>1, <3>2
  <2>6. LoggersFollow'
    <3>1. opening'.at = "loaded" => opening' = opening
      BY DEF Chain!NotOpening
    <3> QED
      BY <1>1, <1>4, <2>1, <3>1 DEF ChainCore, LoggersFollow, Chain!Verified, LastHash
  <2>7. opening' \in Opening
    BY NotOpeningType DEF ChainCore
  <2>8. live'.prev <= logged' /\ (live'.here => live'.id # 0)
    BY <1>1 DEF ChainCore
  <2> QED
    BY <1>1, <2>1, <2>3, <2>4, <2>5, <2>6, <2>7, <2>8 DEF ChainCore
<1> QED
  BY <1>3, <1>4, CoreInts

LEMMA HashesMore ==
  ASSUME NEW f \in Seq(Chain!Line), NEW bound \in Nat, NEW more \in Nat, Hashes(f, bound), bound <= more
  PROVE  Hashes(f, more)
<1> SUFFICES ASSUME NEW i \in 1 .. Len(f) PROVE f[i].hash <= more
  BY DEF Hashes
<1>1. f[i].hash <= bound /\ f[i].hash \in Nat
  BY HashTypes DEF Hashes
<1> QED
  BY <1>1

\* The log as it is, or with a torn line at its end.
LEMMA TornMeans ==
  ASSUME NEW f \in Seq(Chain!Line), NEW bound \in Nat, NEW more \in Nat, Hashes(f, bound), bound <= more,
         NEW g \in {f, Chain!With(f, Chain!Torn)}
  PROVE  /\ g \in Seq(Chain!Line) /\ Len(g) \in {Len(f), Len(f) + 1} /\ Hashes(g, more)
         /\ \A i \in 1 .. Len(f) : g[i] = f[i]
         /\ Len(g) = Len(f) \/ g[Len(f) + 1] = Chain!Torn
         /\ \A x \in Nat : (\A i \in 1 .. Len(f) : f[i].hash <= x) => \A i \in 1 .. Len(g) : g[i].hash <= x
<1>1. Len(f) \in Nat
  OBVIOUS
<1>2. CASE g = f
  BY <1>1, <1>2, HashesMore
<1>3. CASE g # f
  <2>1. g = Chain!With(f, Chain!Torn)
    BY <1>3
  <2>2. /\ g \in Seq(Chain!Line) /\ Len(g) = Len(f) + 1 /\ g[Len(f) + 1] = Chain!Torn
        /\ \A i \in 1 .. Len(f) : g[i] = f[i]
    <3>1. Chain!Torn \in Chain!Line
      BY ChainConstants
    <3>2. /\ Chain!With(f, Chain!Torn) \in Seq(Chain!Line)
          /\ \A i \in 1 .. Len(f) : Chain!With(f, Chain!Torn)[i] = f[i]
          /\ \/ Chain!With(f, Chain!Torn) = f
             \/ Len(Chain!With(f, Chain!Torn)) = Len(f) + 1 /\ Chain!With(f, Chain!Torn)[Len(f) + 1] = Chain!Torn
      BY <3>1, WithMeans
    <3> QED
      BY <1>3, <2>1, <3>2
  <2>3. Hashes(g, more)
    BY <2>1, HashesGrow, ChainConstants
  <2>4. ASSUME NEW x \in Nat, \A i \in 1 .. Len(f) : f[i].hash <= x, NEW i \in 1 .. Len(g)
        PROVE  g[i].hash <= x
    <3>1. i \in 1 .. Len(f) \/ i = Len(f) + 1
      BY <1>1, <2>2
    <3> QED
      BY <2>2, <2>4, <3>1 DEF Chain!Torn
  <2> QED
    BY <2>2, <2>3, <2>4
<1> QED
  BY <1>2, <1>3

LEMMA FailedWriteKeeps == ASSUME ChainCore, Chain!FailedWrite PROVE ChainCore'
<1>1. /\ live.id # 0 /\ logged < MaxLogged /\ logged' = logged + 1
      /\ accidents < MaxAccidents /\ accidents' = accidents + 1
      /\ live' = [live EXCEPT !.prev = logged + 1] /\ UNCHANGED <<opening, opened>>
  BY DEF Chain!FailedWrite
<1>2. /\ logged' \in 0 .. MaxLogged /\ logged \in Nat /\ logged' \in Nat /\ accidents' \in 0 .. MaxAccidents
      /\ live' \in Logger /\ live'.here = live.here /\ live'.id = live.id /\ live'.prev = logged'
  <2>1. logged + 1 \in 0 .. MaxLogged /\ logged \in Nat /\ accidents + 1 \in 0 .. MaxAccidents
    <3>1. logged \in Nat /\ accidents \in Nat /\ MaxLogged \in Nat /\ MaxAccidents \in Nat
      BY CoreInts, ChainConstants
    <3> QED
      BY <1>1, <3>1
  <2>2. live \in Logger
    BY DEF ChainCore
  <2> QED
    BY <1>1, <2>1, <2>2 DEF Logger
<1>3. chain' \in {chain, Chain!With(chain, Chain!Torn)}
  BY DEF Chain!FailedWrite
<1>4. /\ live.here => cause' # {} /\ (opening.at = "loaded" => "reopened" \in cause')
      /\ cause' \in SUBSET {"write", "torn", "lost", "reopened"}
      /\ ~live.here => chain' = chain /\ cause' = cause
  <2>1. live.here \in BOOLEAN /\ cause \in SUBSET {"write", "torn", "lost", "reopened"}
    BY CoreInts DEF ChainCore
  <2> QED
    BY <2>1 DEF Chain!FailedWrite, Chain!Behind
<1>5. chain \in Seq(Chain!Line) /\ Hashes(chain, logged)
  BY DEF ChainCore
<1>6. chain' \in Seq(Chain!Line) /\ Len(chain') \in {Len(chain), Len(chain) + 1} /\ Hashes(chain', logged')
  BY <1>1, <1>2, <1>3, <1>5, TornMeans
<1>7. Len(chain') <= logged' + accidents'
  BY <1>1, <1>6, CoreInts DEF ChainCore
<1>8. OpeningFits'
  <2>1. opening.prev <= logged'
    BY <1>1, CoreInts DEF ChainCore, OpeningFits
  <2>2. opening.at \in {"moved", "fresh"} => chain' = chain
    BY <1>4 DEF ChainCore, OpeningFits
  <2> QED
    BY <1>1, <1>2, <2>1, <2>2 DEF ChainCore, OpeningFits
<1>9. LoggersFollow'
  <2>1. \A i \in 1 .. Len(chain') : chain'[i].hash <= live'.prev
    BY <1>2, <1>6 DEF Hashes
  <2>2. CASE live.here
    BY <1>1, <1>2, <1>4, <2>1, <2>2 DEF LoggersFollow
  <2>3. CASE ~live.here
    <3>1. chain' = chain /\ cause' = cause /\ opening' = opening /\ ~live'.here
      BY <1>1, <1>2, <1>4, <2>3
    <3> QED
      BY <3>1 DEF ChainCore, LoggersFollow, Chain!Verified, LastHash
  <2> QED
    BY <2>2, <2>3
<1>10. Hashes(chain, logged)'
  BY <1>6 DEF Hashes
<1>11. live'.prev <= logged' /\ (live'.here => live'.id # 0)
  BY <1>2 DEF ChainCore
<1> QED
  BY <1>1, <1>2, <1>4, <1>6, <1>7, <1>8, <1>9, <1>10, <1>11 DEF ChainCore

LEMMA StopKeeps == ASSUME ChainCore, Chain!Stop PROVE ChainCore'
<1>1. /\ accidents < MaxAccidents /\ accidents' = accidents + 1 /\ UNCHANGED <<logged, opened>>
      /\ live' = Chain!NoLogger /\ opening' = Chain!NotOpening
      /\ (chain' = chain /\ cause' = cause) \/ "torn" \in cause'
      /\ chain' \in {chain, Chain!With(chain, Chain!Torn)} /\ (cause' = cause \/ cause' = cause \cup {"torn"})
  BY DEF Chain!Stop
<1>2. accidents' \in 0 .. MaxAccidents /\ logged \in Nat
  BY <1>1, CoreInts, ChainConstants
<1>3. chain \in Seq(Chain!Line) /\ Hashes(chain, logged)
  BY DEF ChainCore
<1>4. chain' \in Seq(Chain!Line) /\ Len(chain') \in {Len(chain), Len(chain) + 1} /\ Hashes(chain', logged')
  BY <1>1, <1>2, <1>3, TornMeans
<1>5. Len(chain') <= logged' + accidents'
  BY <1>1, <1>4, CoreInts DEF ChainCore
<1>6. /\ live' \in Logger /\ ~live'.here /\ live'.prev = 0
      /\ opening' \in Opening /\ opening'.at = "no" /\ opening'.prev = 0 /\ opening'.quarantine = FALSE
  <2>1. 0 \in 0 .. MaxOpens /\ 0 \in 0 .. MaxLogged
    BY ChainConstants
  <2> QED
    BY <1>1, <2>1, NotOpeningType DEF Chain!NoLogger, Chain!NotOpening, Logger
<1>7. OpeningFits'
  BY <1>1, <1>2, <1>6 DEF OpeningFits
<1>8. LoggersFollow'
  <2>1. cause' = {} => cause = {} /\ chain' = chain
    BY <1>1
  <2> QED
    BY <1>6, <2>1 DEF ChainCore, LoggersFollow, Chain!Verified
<1>9. Hashes(chain, logged)'
  BY <1>4 DEF Hashes
<1>10. logged' \in 0 .. MaxLogged /\ opened' \in 0 .. MaxOpens /\ cause' \subseteq {"write", "torn", "lost", "reopened"}
  BY <1>1 DEF ChainCore
<1>11. live'.prev <= logged' /\ (live'.here => live'.id # 0)
  BY <1>1, <1>2, <1>6
<1> QED
  BY <1>2, <1>4, <1>5, <1>6, <1>7, <1>8, <1>9, <1>10, <1>11 DEF ChainCore

LEMMA LoseLinesKeeps == ASSUME ChainCore, Chain!LoseLines PROVE ChainCore'
<1>1. /\ accidents < MaxAccidents /\ accidents' = accidents + 1 /\ UNCHANGED <<logged, opened, live, opening>>
      /\ cause' = cause \cup {"lost"}
  BY DEF Chain!LoseLines
<1>2. PICK k \in 0 .. Len(chain) - 1 : chain' = SubSeq(chain, 1, k)
  BY DEF Chain!LoseLines
<1>3. accidents' \in 0 .. MaxAccidents /\ logged \in Nat /\ Len(chain) \in Nat /\ k \in 0 .. Len(chain) /\ k < Len(chain)
  <2>1. Len(chain) \in Nat /\ logged \in Nat /\ accidents \in Nat
    BY CoreInts
  <2> HIDE <1>2
  <2>2. k \in 0 .. Len(chain) /\ k < Len(chain)
    BY <2>1
  <2> QED
    BY <1>1, <2>1, <2>2, ChainConstants
<1>4. chain \in Seq(Chain!Line) /\ Hashes(chain, logged)
  BY DEF ChainCore
<1>5. /\ chain' \in Seq(Chain!Line) /\ Len(chain') = k /\ Hashes(chain', logged)
      /\ \A i \in 1 .. k : chain'[i] = chain[i] /\ i \in 1 .. Len(chain)
  BY <1>2, <1>3, <1>4, HashesCut
<1>6. Len(chain') <= logged' + accidents'
  BY <1>1, <1>3, <1>5, CoreInts DEF ChainCore
<1>7. OpeningFits'
  <2>1. ~(opening.at \in {"moved", "fresh"})
    <3>1. chain # <<>>
      BY <1>3
    <3> QED
      BY <3>1 DEF ChainCore, OpeningFits
  <2> QED
    BY <1>1, <2>1 DEF ChainCore, OpeningFits
<1>8. LoggersFollow'
  BY <1>1, <1>5 DEF ChainCore, LoggersFollow
<1>9. Hashes(chain, logged)'
  BY <1>1, <1>5 DEF Hashes
<1> QED
  BY <1>1, <1>3, <1>5, <1>6, <1>7, <1>8, <1>9 DEF ChainCore

LEMMA QuarantineKeeps == ASSUME ChainCore, Chain!Quarantine PROVE ChainCore'
<1>1. /\ opening.at = "broken" /\ opening' = [opening EXCEPT !.at = "moved", !.quarantine = TRUE]
      /\ chain' = <<>> /\ cause' = {} /\ live' = [live EXCEPT !.here = FALSE]
      /\ UNCHANGED <<logged, opened, accidents>>
  BY DEF Chain!Quarantine
<1>2. /\ opening' \in Opening /\ opening'.at = "moved" /\ opening'.quarantine = TRUE /\ opening'.prev = opening.prev
      /\ live' \in Logger /\ live'.here = FALSE /\ live'.prev = live.prev
  <2>1. opening \in Opening /\ live \in Logger
    BY DEF ChainCore
  <2> QED
    BY <1>1, <2>1 DEF Opening, Logger
<1>3. Len(chain') = 0 /\ 1 .. Len(chain') = {} /\ chain' \in Seq(Chain!Line)
  BY <1>1
<1>4. Len(chain') <= logged' + accidents'
  BY <1>1, <1>3, CoreInts
<1>5. OpeningFits'
  BY <1>1, <1>2 DEF ChainCore, OpeningFits
<1>6. LoggersFollow' /\ Hashes(chain, logged)'
  BY <1>1, <1>2, <1>3 DEF LoggersFollow, Chain!Verified, Hashes
<1> QED
  BY <1>1, <1>2, <1>3, <1>4, <1>5, <1>6 DEF ChainCore

LEMMA LoadKeeps == ASSUME ChainCore, Chain!Load PROVE ChainCore'
<1>1. opening.at \in {"valid", "fresh"} /\ UNCHANGED <<live, opened, accidents, cause>>
  BY DEF Chain!Load
<1>2. chain \in Seq(Chain!Line) /\ Hashes(chain, logged) /\ logged \in Nat
  BY CoreInts DEF ChainCore
<1>3. /\ Chain!loadLastHash(chain) \in 0 .. MaxLogged /\ Chain!loadLastHash(chain) <= logged
      /\ \A i \in 1 .. Len(chain) : chain[i].hash <= Chain!loadLastHash(chain)
      /\ Chain!Verified(chain) => Chain!loadLastHash(chain) = LastHash(chain)
  BY <1>2, LoadMeans
<1>4. CASE opening.quarantine
  <2> DEFINE l == [hash |-> logged + 1, prev |-> Chain!loadLastHash(chain)]
  <2>1. /\ logged < MaxLogged /\ logged' = logged + 1 /\ chain' = Chain!With(chain, l)
        /\ opening' = [opening EXCEPT !.at = "loaded", !.prev = logged + 1]
    BY <1>4 DEF Chain!Load
  <2>2. chain = <<>> /\ ~live.here
    BY <1>1, <1>4 DEF ChainCore, OpeningFits
  <2>3. l \in Chain!Line /\ l.hash = logged + 1 /\ l.prev = Chain!loadLastHash(chain) /\ logged' \in 0 .. MaxLogged
        /\ logged' \in Nat
    BY <1>2, <1>3, <2>1, ChainConstants
  <2> HIDE DEF l
  <2>4. /\ opening' \in Opening /\ opening'.at = "loaded" /\ opening'.prev = logged' /\ opening'.quarantine = opening.quarantine
    <3>1. opening \in Opening
      BY DEF ChainCore
    <3> QED
      BY <2>1, <2>3, <3>1 DEF Opening
  <2>5. chain' \in Seq(Chain!Line) /\ Len(chain') \in {Len(chain), Len(chain) + 1}
    BY <1>2, <2>1, <2>3, WithMeans
  <2>6. Hashes(chain', logged')
    BY <1>2, <2>1, <2>3, HashesGrow
  <2>7. Len(chain') <= logged' + accidents'
    BY <1>1, <2>1, <2>5, CoreInts DEF ChainCore
  <2>8. OpeningFits'
    BY <1>1, <2>2, <2>3, <2>4 DEF ChainCore, OpeningFits
  <2>9. LoggersFollow'
    <3>1. \A i \in 1 .. Len(chain') : chain'[i].hash <= opening'.prev
      BY <2>4, <2>6 DEF Hashes
    <3>2. ASSUME cause = {} PROVE Chain!Verified(chain') /\ opening'.prev = LastHash(chain')
      <4>1. Chain!Verified(chain) /\ Chain!loadLastHash(chain) = LastHash(chain)
        BY <1>3, <3>2 DEF ChainCore, LoggersFollow
      <4>2. l.hash # 0
        BY <1>2, <2>3
      <4> QED
        BY <1>2, <2>1, <2>3, <2>4, <4>1, <4>2, ChainGrows
    <3> QED
      BY <1>1, <2>2, <3>1, <3>2 DEF LoggersFollow, Chain!Verified, LastHash
  <2>10. Hashes(chain, logged)'
    BY <2>6 DEF Hashes
  <2>11. live.prev <= logged'
    BY <2>1, CoreInts DEF ChainCore
  <2> QED
    BY <1>1, <2>3, <2>4, <2>5, <2>7, <2>8, <2>9, <2>10, <2>11 DEF ChainCore
<1>5. CASE ~opening.quarantine
  <2>1. /\ opening' = [opening EXCEPT !.at = "loaded", !.prev = Chain!loadLastHash(chain)]
        /\ UNCHANGED <<logged, chain>>
    BY <1>5 DEF Chain!Load
  <2>2. /\ opening' \in Opening /\ opening'.at = "loaded" /\ opening'.prev = Chain!loadLastHash(chain)
        /\ opening'.quarantine = opening.quarantine
    <3>1. opening \in Opening
      BY DEF ChainCore
    <3> QED
      BY <1>3, <2>1, <3>1 DEF Opening
  <2>3. OpeningFits'
    BY <1>1, <1>3, <1>5, <2>1, <2>2 DEF ChainCore, OpeningFits
  <2>4. LoggersFollow'
    BY <1>1, <1>3, <2>1, <2>2 DEF ChainCore, LoggersFollow, Chain!Verified, LastHash
  <2> QED
    BY <1>1, <2>1, <2>2, <2>3, <2>4 DEF ChainCore, Hashes
<1> QED
  BY <1>4, <1>5, CoreInts

LEMMA SwapKeeps == ASSUME ChainCore, Chain!Swap PROVE ChainCore'
<1>1. /\ opening.at = "loaded" /\ opened' = opened + 1
      /\ live' = [id |-> opened + 1, prev |-> opening.prev, here |-> TRUE]
      /\ opening' = [opening EXCEPT !.at = "swapped"] /\ UNCHANGED <<chain, logged, accidents, cause>>
  BY DEF Chain!Swap
<1>2. opened < MaxOpens
  BY <1>1 DEF ChainCore, OpeningFits
<1>3. opened' \in 0 .. MaxOpens /\ opened' # 0
  BY <1>1, <1>2, CoreInts, ChainConstants
<1>4. /\ live' \in Logger /\ live'.prev = opening.prev /\ live'.id # 0
      /\ opening' \in Opening /\ opening'.at = "swapped" /\ opening'.prev = opening.prev
  <2>1. opening \in Opening
    BY DEF ChainCore
  <2> QED
    BY <1>1, <1>3, <2>1, CoreInts DEF Opening, Logger
<1>5. OpeningFits'
  BY <1>1, <1>4 DEF ChainCore, OpeningFits
<1>6. LoggersFollow'
  BY <1>1, <1>4 DEF ChainCore, LoggersFollow, Chain!Verified, LastHash
<1>7. live'.prev <= logged'
  BY <1>1, <1>4 DEF ChainCore, OpeningFits
<1> QED
  BY <1>1, <1>3, <1>4, <1>5, <1>6, <1>7 DEF ChainCore, Hashes

LEMMA CoreStep == ASSUME ChainCore, [Chain!Next]_logging PROVE ChainCore'
<1>1. accidents \in 0 .. MaxAccidents /\ accidents \in Nat /\ MaxAccidents \in Nat
  BY CoreInts, ChainConstants DEF ChainCore
<1>2. CASE Chain!Emit
  BY <1>1, <1>2, LogMeans, LogsKeep, IdleKeeps DEF Chain!Emit
<1>3. CASE Chain!Open
  <2>1. opening' \in Opening /\ opening'.at \in {"valid", "broken"} /\ opening'.prev = 0 /\ ~opening'.quarantine
    BY <1>3, NotOpeningType DEF Chain!Open, Chain!NotOpening, Opening
  <2> QED
    BY <1>1, <1>3, <2>1, IdleKeeps, CoreInts DEF Chain!Open, Idle
<1>4. ASSUME NEW ok \in BOOLEAN, Chain!archiveChainLogState(ok) PROVE ChainCore'
  <2>1. /\ opening \in Opening /\ opening.at = "moved" /\ opening.quarantine /\ chain = <<>> /\ opened < MaxOpens
        /\ opening.prev <= logged /\ ~live.here
    BY <1>4 DEF ChainCore, OpeningFits, Chain!archiveChainLogState
  <2>2. opening' \in Opening /\ opening'.at = "fresh" /\ opening'.prev = opening.prev /\ opening'.quarantine
    BY <1>4, <2>1 DEF Chain!archiveChainLogState, Opening
  <2>3. accidents' \in accidents .. MaxAccidents
    BY <1>1, <1>4 DEF Chain!archiveChainLogState
  <2>4. Idle /\ opened' = opened
    BY <1>4 DEF Chain!archiveChainLogState, Idle
  <2> QED
    BY <2>1, <2>2, <2>3, <2>4, IdleKeeps
<1>5. CASE Chain!Configured
  BY <1>1, <1>5, LogMeans, LogsKeep, IdleKeeps, NotOpeningType, CoreInts DEF Chain!Configured, Chain!NotOpening
<1>6. CASE Chain!CheckChain
  <2>1. Logs \/ Idle
    BY <1>6, LogMeans DEF Chain!CheckChain, Idle
  <2> QED
    BY <1>1, <1>6, <2>1, LogsKeep, IdleKeeps DEF Chain!CheckChain
<1>7. CASE Chain!ReadAnchor
  BY <1>1, <1>7, IdleKeeps DEF Chain!ReadAnchor, Idle
<1>8. CASE Chain!CountLines
  BY <1>1, <1>8, IdleKeeps DEF Chain!CountLines, Idle
<1>9. CASE Chain!checkLogMonotonic
  <2>1. Logs \/ Idle
    BY <1>9, LogMeans DEF Chain!checkLogMonotonic, Idle
  <2> QED
    BY <1>1, <1>9, <2>1, LogsKeep, IdleKeeps DEF Chain!checkLogMonotonic
<1>10. CASE UNCHANGED logging
  BY <1>1, <1>10, IdleKeeps DEF logging, Idle
<1> QED
  BY <1>2, <1>3, <1>4, <1>5, <1>6, <1>7, <1>8, <1>9, <1>10, FailedWriteKeeps, StopKeeps, LoseLinesKeeps, QuarantineKeeps,
     LoadKeeps, SwapKeeps DEF Chain!Next

-----------------------------------------------------------------------------
\* LogChain: the check and its anchor.

Checking == [at : {"no", "anchor", "count", "write"}, log : 0 .. MaxOpens,
             anchor : 0 .. Chain!Longest, lines : 0 .. Chain!Longest]

AnchorTypes ==
  /\ anchor \in 0 .. Chain!Longest /\ check \in Checking
  /\ reports \subseteq {"broken", "shrunk", "quarantined"}
  /\ lost \in BOOLEAN /\ owed \in BOOLEAN /\ tangled \in BOOLEAN

\* Without a loss or a mixing of two chains the log is as long as anything counted of it.
AnchorFits ==
  /\ check.at \in {"count", "write"} => anchor <= check.anchor
  /\ ~lost /\ ~tangled =>
       /\ opening.at # "moved" => anchor <= Len(chain)
       /\ check.at = "count" => check.anchor <= Len(chain)
       /\ check.at = "write" => check.anchor <= check.lines /\ check.lines <= Len(chain)
  /\ "shrunk" \in reports => lost \/ tangled

LEMMA AnchorInts ==
  ASSUME ChainCore, AnchorTypes
  PROVE  /\ anchor \in Nat /\ check.anchor \in Nat /\ check.lines \in Nat /\ check.log \in 0 .. MaxOpens
         /\ Chain!Longest \in Nat /\ Len(chain) \in 0 .. Chain!Longest /\ check.lines \in 0 .. Chain!Longest
         /\ check.anchor \in 0 .. Chain!Longest
<1>1. Chain!Longest \in Nat /\ Chain!Longest = MaxLogged + MaxAccidents
  BY ChainConstants
<1>2. check.anchor \in 0 .. Chain!Longest /\ check.lines \in 0 .. Chain!Longest /\ check.log \in 0 .. MaxOpens
  BY DEF AnchorTypes, Checking
<1>3. logged \in 0 .. MaxLogged /\ accidents \in 0 .. MaxAccidents /\ Len(chain) <= logged + accidents
  BY DEF ChainCore
<1>4. Len(chain) \in 0 .. Chain!Longest
  BY <1>1, <1>3, CoreInts, ChainConstants
<1>5. anchor \in Nat
  BY <1>1 DEF AnchorTypes
<1> QED
  BY <1>1, <1>2, <1>4, <1>5

LEMMA LogsGrow ==
  ASSUME ChainCore, Logs \/ Idle
  PROVE  /\ Len(chain') \in Nat /\ Len(chain) <= Len(chain')
         /\ \A i \in 1 .. Len(chain) : chain'[i] = chain[i]
         /\ chain' = chain \/ (live.here /\ Len(chain') = Len(chain) + 1 /\ chain'[Len(chain) + 1] = NewLine)
<1>1. chain \in Seq(Chain!Line) /\ Len(chain) \in Nat
  BY CoreInts
<1>2. CASE chain' = chain
  BY <1>1, <1>2
<1>3. CASE chain' # chain
  <2>1. Logs /\ live.here /\ chain' = Chain!With(chain, NewLine)
    BY <1>3 DEF Logs, Idle
  <2>2. NewLine \in Chain!Line
    <3>1. logged + 1 \in 0 .. MaxLogged
      BY <2>1, CoreInts, ChainConstants DEF Logs
    <3> QED
      BY <3>1, CoreInts, ChainConstants DEF NewLine
  <2>3. /\ \A i \in 1 .. Len(chain) : chain'[i] = chain[i]
        /\ Len(chain') = Len(chain) + 1 /\ chain'[Len(chain) + 1] = NewLine
    BY <1>1, <1>3, <2>1, <2>2, WithMeans
  <2> QED
    BY <1>1, <2>1, <2>3
<1> QED
  BY <1>2, <1>3

\* The lines there were stay; a torn one or one of the new logger may follow.
LEMMA TornGrows ==
  ASSUME ChainCore, chain' \in {chain, Chain!With(chain, Chain!Torn)}
  PROVE  /\ Len(chain') \in Nat /\ Len(chain) <= Len(chain')
         /\ \A i \in 1 .. Len(chain) : chain'[i] = chain[i]
         /\ Len(chain') = Len(chain) \/ (Len(chain') = Len(chain) + 1 /\ chain'[Len(chain) + 1] = Chain!Torn)
<1>1. chain \in Seq(Chain!Line) /\ Len(chain) \in Nat /\ logged \in Nat /\ Hashes(chain, logged) /\ logged <= logged
  BY CoreInts DEF ChainCore
<1>2. /\ Len(chain') \in {Len(chain), Len(chain) + 1} /\ \A i \in 1 .. Len(chain) : chain'[i] = chain[i]
      /\ Len(chain') = Len(chain) \/ chain'[Len(chain) + 1] = Chain!Torn
  BY <1>1, TornMeans
<1> QED
  BY <1>1, <1>2

LEMMA AnchorInit == Chain!Init => AnchorTypes /\ AnchorFits
<1> SUFFICES ASSUME Chain!Init PROVE AnchorTypes /\ AnchorFits
  OBVIOUS
<1>1. anchor = 0 /\ check = Chain!NoCheck /\ reports = {} /\ ~lost /\ ~owed /\ ~tangled /\ lost = FALSE /\ owed = FALSE /\ tangled = FALSE
      /\ chain = <<>>
  BY DEF Chain!Init
<1>2. 0 \in 0 .. Chain!Longest /\ 0 \in 0 .. MaxOpens
  BY ChainConstants
<1>3. check \in Checking /\ check.at = "no" /\ Len(chain) = 0
  BY <1>1, <1>2 DEF Chain!NoCheck, Checking
<1>4. AnchorTypes
  BY <1>1, <1>2, <1>3 DEF AnchorTypes
<1> QED
  BY <1>1, <1>3, <1>4 DEF AnchorFits

LEMMA AnchorTypesStep == ASSUME ChainCore, AnchorTypes, [Chain!Next]_logging PROVE AnchorTypes'
<1> USE DEF AnchorTypes
<1>1. check \in Checking /\ lost \in BOOLEAN /\ owed \in BOOLEAN /\ tangled \in BOOLEAN
  OBVIOUS
<1>2. Chain!NoCheck \in Checking /\ 0 \in 0 .. Chain!Longest
  <2>1. 0 \in 0 .. Chain!Longest /\ 0 \in 0 .. MaxOpens
    BY ChainConstants
  <2> QED
    BY <2>1 DEF Chain!NoCheck, Checking
<1>3. CASE Chain!Emit \/ Chain!FailedWrite \/ Chain!Open \/ Chain!Configured
  BY <1>3 DEF Chain!Emit, Chain!FailedWrite, Chain!Open, Chain!Configured
<1>4. CASE Chain!Quarantine \/ Chain!Load
  BY <1>1, <1>4 DEF Chain!Quarantine, Chain!Load
<1>5. CASE Chain!Swap
  BY <1>5 DEF Chain!Swap
<1>6. ASSUME NEW ok \in BOOLEAN, Chain!archiveChainLogState(ok) PROVE AnchorTypes'
  BY <1>1, <1>2, <1>6 DEF Chain!archiveChainLogState, Chain!Rest
<1>7. CASE Chain!CheckChain
  <2>1. live.id \in 0 .. MaxOpens
    BY CoreInts
  <2>2. check' \in Checking
    BY <1>2, <1>7, <2>1 DEF Chain!CheckChain, Chain!NoCheck, Checking
  <2> QED
    BY <1>7, <2>2 DEF Chain!CheckChain
<1>8. CASE Chain!ReadAnchor
  <2>1. check' \in Checking
    BY <1>1, <1>8 DEF Chain!ReadAnchor, Checking
  <2> QED
    BY <1>1, <1>8, <2>1 DEF Chain!ReadAnchor
<1>9. CASE Chain!CountLines
  <2>1. Len(chain) \in 0 .. Chain!Longest
    BY AnchorInts
  <2>2. check' \in Checking
    BY <1>1, <1>9, <2>1 DEF Chain!CountLines, Checking
  <2> QED
    BY <1>9, <2>2 DEF Chain!CountLines
<1>10. CASE Chain!checkLogMonotonic
  <2>1. anchor' \in 0 .. Chain!Longest
    BY <1>10, AnchorInts DEF Chain!checkLogMonotonic, Chain!NewAnchor
  <2> QED
    BY <1>2, <1>10, <2>1 DEF Chain!checkLogMonotonic
<1>11. CASE Chain!LoseLines
  BY <1>1, <1>11 DEF Chain!LoseLines
<1>12. CASE Chain!Stop
  BY <1>1, <1>2, <1>12 DEF Chain!Stop
<1>13. CASE UNCHANGED logging
  BY <1>13 DEF logging
<1> QED
  BY <1>3, <1>4, <1>5, <1>6, <1>7, <1>8, <1>9, <1>10, <1>11, <1>12, <1>13 DEF Chain!Next

\* While the check and the anchor rest, a longer log keeps everything.
LEMMA AnchorRests ==
  ASSUME ChainCore, AnchorTypes, AnchorFits, UNCHANGED <<anchor, check, lost, tangled>>,
         "shrunk" \in reports' => "shrunk" \in reports,
         opening'.at # "moved" => opening.at # "moved",
         Len(chain') \in Nat, Len(chain) <= Len(chain')
  PROVE  AnchorFits'
<1>1. Len(chain) \in Nat /\ anchor \in Nat /\ check.anchor \in Nat /\ check.lines \in Nat
  BY CoreInts, AnchorInts
<1>2. \A n \in Nat : n <= Len(chain) => n <= Len(chain')
  BY <1>1
<1> QED
  BY <1>1, <1>2 DEF AnchorFits

LEMMA AnchorStep == ASSUME ChainCore, AnchorTypes, AnchorFits, [Chain!Next]_logging PROVE AnchorFits'
<1>0. Len(chain) \in Nat /\ anchor \in Nat /\ check.anchor \in Nat /\ check.lines \in Nat
  BY CoreInts, AnchorInts
<1>1. CASE Chain!Emit
  BY <1>1, LogMeans, LogsGrow, AnchorRests DEF Chain!Emit
<1>2. CASE Chain!FailedWrite
  <2>1. chain' \in {chain, Chain!With(chain, Chain!Torn)}
    BY <1>2 DEF Chain!FailedWrite
  <2> QED
    BY <1>2, <2>1, TornGrows, AnchorRests DEF Chain!FailedWrite
<1>3. CASE Chain!Open
  BY <1>0, <1>3, AnchorRests DEF Chain!Open
<1>4. CASE Chain!Quarantine
  <2>1. opening'.at = "moved" /\ UNCHANGED <<anchor, check, lost, reports>>
    <3>1. opening \in Opening
      BY DEF ChainCore
    <3> QED
      BY <1>4, <3>1 DEF Chain!Quarantine, Opening
  <2>2. check.at \in {"count", "write"} => tangled'
    BY <1>4 DEF Chain!Quarantine
  <2>3. tangled => tangled'
    BY <1>4 DEF Chain!Quarantine
  <2> QED
    BY <2>1, <2>2, <2>3 DEF AnchorFits
<1>5. CASE Chain!Load
  <2>1. Len(chain') \in Nat /\ Len(chain) <= Len(chain')
    <3>1. CASE chain' = chain
      BY <1>0, <3>1
    <3>2. CASE chain' # chain
      <4> DEFINE l == [hash |-> logged + 1, prev |-> Chain!loadLastHash(chain)]
      <4>1. chain' = Chain!With(chain, l) /\ logged < MaxLogged
        BY <1>5, <3>2 DEF Chain!Load
      <4>2. chain \in Seq(Chain!Line) /\ logged \in Nat /\ Hashes(chain, logged)
        BY CoreInts DEF ChainCore
      <4>3. Chain!loadLastHash(chain) \in 0 .. MaxLogged
        BY <4>2, LoadMeans
      <4>4. l \in Chain!Line
        BY <4>1, <4>2, <4>3, ChainConstants
      <4> HIDE DEF l
      <4> QED
        <5>1. Len(chain') = Len(chain) \/ Len(chain') = Len(chain) + 1
          BY <4>1, <4>2, <4>4, WithMeans
        <5> QED
          BY <1>0, <5>1
    <3> QED
      BY <3>1, <3>2
  <2> QED
    BY <1>5, <2>1, AnchorRests DEF Chain!Load
<1>6. CASE Chain!Swap
  BY <1>0, <1>6, AnchorRests DEF Chain!Swap
<1>7. CASE Chain!Configured
  BY <1>7, LogMeans, LogsGrow, AnchorRests DEF Chain!Configured
<1>8. ASSUME NEW ok \in BOOLEAN, Chain!archiveChainLogState(ok) PROVE AnchorFits'
  <2>1. /\ UNCHANGED <<check, lost, reports, chain>> /\ anchor' = IF ok THEN 0 ELSE anchor
        /\ tangled' = (tangled \/ ~ok \/ check.at \in {"count", "write"})
    BY <1>8 DEF Chain!archiveChainLogState, Chain!Rest
  <2>2. check.at \in {"count", "write"} => anchor' <= check.anchor
    BY <1>0, <2>1 DEF AnchorFits
  <2>3. ~tangled' => anchor' = 0 /\ ~tangled /\ check.at \notin {"count", "write"}
    BY <2>1
  <2> QED
    BY <1>0, <2>1, <2>2, <2>3 DEF AnchorFits
<1>9. CASE Chain!CheckChain
  <2>1. Logs \/ Idle
    BY <1>9, LogMeans DEF Chain!CheckChain, Idle
  <2>2. Len(chain') \in Nat /\ Len(chain) <= Len(chain')
    BY <2>1, LogsGrow
  <2>3. check'.at = "anchor" /\ UNCHANGED <<anchor, opening, lost, tangled>>
        /\ ("shrunk" \in reports' => "shrunk" \in reports)
    BY <1>9 DEF Chain!CheckChain, Chain!NoCheck
  <2> QED
    BY <1>0, <2>2, <2>3 DEF AnchorFits
<1>10. CASE Chain!ReadAnchor
  <2>1. /\ check'.at = "count" /\ check'.anchor = anchor /\ UNCHANGED <<anchor, chain, opening, lost, reports>>
        /\ tangled' = (tangled \/ opening.at = "moved")
    <3>1. check \in Checking
      BY DEF AnchorTypes
    <3> QED
      BY <1>10, <3>1 DEF Chain!ReadAnchor, Checking
  <2>2. Len(chain') = Len(chain) /\ anchor <= anchor
    BY <1>0, <2>1
  <2> QED
    BY <2>1, <2>2 DEF AnchorFits
<1>11. CASE Chain!CountLines
  <2>1. /\ check.at = "count" /\ check'.at = "write" /\ check'.anchor = check.anchor /\ check'.lines = Len(chain)
        /\ UNCHANGED <<anchor, chain, opening, lost, reports, tangled>>
    <3>1. check \in Checking
      BY DEF AnchorTypes
    <3> QED
      BY <1>11, <3>1 DEF Chain!CountLines, Checking
  <2> QED
    BY <1>0, <2>1 DEF AnchorFits
<1>12. CASE Chain!checkLogMonotonic
  <2>1. /\ check.at = "write" /\ check'.at = "no" /\ UNCHANGED <<opening, lost, tangled>>
        /\ anchor' \in {anchor, check.lines}
    BY <1>12 DEF Chain!checkLogMonotonic, Chain!NoCheck, Chain!NewAnchor
  <2>2. Logs \/ Idle
    BY <1>12, LogMeans DEF Chain!checkLogMonotonic, Idle
  <2>3. Len(chain') \in Nat /\ Len(chain) <= Len(chain')
    BY <2>2, LogsGrow
  <2>4. ASSUME ~lost, ~tangled PROVE check.anchor <= check.lines /\ check.lines <= Len(chain)
    BY <2>1, <2>4 DEF AnchorFits
  <2>5. "shrunk" \in reports' => "shrunk" \in reports \/ check.lines < check.anchor
    BY <1>12 DEF Chain!checkLogMonotonic
  <2>6. "shrunk" \in reports' => lost \/ tangled
    BY <1>0, <2>4, <2>5 DEF AnchorFits
  <2>7. ASSUME ~lost, ~tangled, opening.at # "moved" PROVE anchor' <= Len(chain')
    <3>1. anchor <= Len(chain)
      BY <2>7 DEF AnchorFits
    <3>2. check.lines <= Len(chain)
      BY <2>4, <2>7
    <3> QED
      BY <1>0, <2>1, <2>3, <3>1, <3>2
  <2> QED
    BY <2>1, <2>6, <2>7 DEF AnchorFits
<1>13. CASE Chain!LoseLines
  BY <1>13 DEF Chain!LoseLines, AnchorFits
<1>14. CASE Chain!Stop
  <2>1. /\ check'.at = "no" /\ UNCHANGED <<anchor, lost, reports>> /\ tangled' = (tangled \/ opening.at = "moved")
        /\ chain' \in {chain, Chain!With(chain, Chain!Torn)}
    BY <1>14 DEF Chain!Stop, Chain!NoCheck
  <2>2. Len(chain') \in Nat /\ Len(chain) <= Len(chain')
    BY <2>1, TornGrows
  <2>3. ASSUME ~lost, ~tangled, opening.at # "moved" PROVE anchor <= Len(chain')
    <3>1. anchor <= Len(chain)
      BY <2>3 DEF AnchorFits
    <3> QED
      BY <1>0, <2>2, <3>1
  <2> QED
    BY <2>1, <2>3 DEF AnchorFits
<1>15. CASE UNCHANGED logging
  BY <1>0, <1>15, AnchorRests DEF logging
<1> QED
  BY <1>1, <1>2, <1>3, <1>4, <1>5, <1>6, <1>7, <1>8, <1>9, <1>10, <1>11, <1>12, <1>13, <1>14, <1>15 DEF Chain!Next

-----------------------------------------------------------------------------
\* LogChain: the trace of a loss.

\* What follows a gap after line k does not fit: it continues a line that is not there.
Continues(prev, k) == 0 < prev /\ \A i \in 1 .. k : chain[i].hash < prev
GapAfter(k) ==
  /\ k < anchor
  /\ k < Len(chain) => BrokenAt(chain, k + 1)
  /\ live.here => Continues(live.prev, k)
  /\ opening.at = "loaded" => Continues(opening.prev, k)

LossIsSeen ==
  /\ opening.at \in {"moved", "fresh"} => ~owed
  /\ owed /\ "reopened" \notin cause => \E k \in 0 .. Len(chain) : GapAfter(k)

\* Lines added after a gap leave it; what follows the last line does not fit if its logger continues the lost ones.
LEMMA GapRests ==
  ASSUME ChainCore, AnchorTypes, NEW k \in 0 .. Len(chain), GapAfter(k),
         anchor <= anchor', anchor' \in Nat, Len(chain') \in Nat, Len(chain) <= Len(chain'),
         \A i \in 1 .. Len(chain) : chain'[i] = chain[i],
         Len(chain) < Len(chain') /\ k = Len(chain) => BrokenAt(chain', k + 1),
         live'.here => (live.here /\ live'.prev = live.prev) \/ live'.prev = logged + 1
                       \/ (opening.at = "loaded" /\ live'.prev = opening.prev),
         opening'.at = "loaded" => opening' = opening
  PROVE  k \in 0 .. Len(chain') /\ GapAfter(k)'
<1>1. /\ Len(chain) \in Nat /\ anchor \in Nat /\ logged \in Nat /\ k \in Nat /\ k <= Len(chain)
      /\ \A i \in 1 .. Len(chain) : chain[i].hash \in Nat /\ chain[i].hash <= logged
  <2>1. /\ Len(chain) \in Nat /\ anchor \in Nat /\ logged \in Nat
        /\ \A i \in 1 .. Len(chain) : chain[i].hash \in Nat
    BY CoreInts, AnchorInts
  <2>2. \A i \in 1 .. Len(chain) : chain[i].hash <= logged
    BY DEF ChainCore, Hashes
  <2>3. k \in Nat /\ k <= Len(chain)
    BY <2>1
  <2> QED
    BY <2>1, <2>2, <2>3
<1>2. k \in 0 .. Len(chain') /\ k < anchor'
  BY <1>1 DEF GapAfter
<1>3. \A i \in 1 .. k : i \in 1 .. Len(chain) /\ chain'[i] = chain[i]
  BY <1>1
<1>4. ASSUME k < Len(chain') PROVE BrokenAt(chain', k + 1)
  <2>1. CASE k = Len(chain)
    BY <1>4, <2>1
  <2>2. CASE k < Len(chain)
    <3>1. k + 1 \in 1 .. Len(chain) /\ (k + 1 # 1 => (k + 1) - 1 \in 1 .. Len(chain))
      BY <1>1, <2>2
    <3>2. BrokenAt(chain, k + 1)
      BY <2>2 DEF GapAfter
    <3> QED
      BY <3>1, <3>2 DEF BrokenAt
  <2> QED
    BY <1>1, <2>1, <2>2
<1>5. ASSUME NEW prev, Continues(prev, k) PROVE 0 < prev /\ \A i \in 1 .. k : chain'[i].hash < prev
  BY <1>3, <1>5 DEF Continues
<1>6. Continues(logged + 1, k)
  <2>1. \A i \in 1 .. k : chain[i].hash < logged + 1
    BY <1>1, <1>3
  <2> QED
    BY <1>1, <2>1 DEF Continues
<1>7. live'.here => Continues(live'.prev, k)
  BY <1>6 DEF GapAfter
<1>8. opening'.at = "loaded" => Continues(opening'.prev, k)
  BY DEF GapAfter
<1> QED
  BY <1>2, <1>4, <1>5, <1>7, <1>8 DEF GapAfter, Continues

\* A line of a logger that continues lost ones breaks the chain.
LEMMA GapBreaks ==
  ASSUME ChainCore, NEW k \in 0 .. Len(chain), GapAfter(k), Logs \/ Idle, Len(chain) < Len(chain'), k = Len(chain)
  PROVE  BrokenAt(chain', k + 1)
<1>1. /\ live.here /\ chain'[k + 1] = NewLine /\ \A i \in 1 .. Len(chain) : chain'[i] = chain[i]
      /\ Len(chain) \in Nat
  BY LogsGrow, CoreInts
<1>2. NewLine.prev = live.prev /\ live.prev \in Nat /\ 0 < live.prev /\ \A i \in 1 .. k : chain[i].hash < live.prev
  BY <1>1, CoreInts DEF GapAfter, Continues, NewLine
<1>3. CASE k = 0
  BY <1>1, <1>2, <1>3 DEF BrokenAt
<1>4. CASE k # 0
  <2>1. (k + 1) - 1 = k /\ k + 1 # 1 /\ k \in 1 .. k /\ k \in 1 .. Len(chain)
    BY <1>1, <1>4
  <2>2. chain'[k].hash < live.prev /\ chain[k].hash \in Nat /\ chain'[k] = chain[k]
    BY <1>1, <1>2, <2>1, CoreInts
  <2>3. chain'[k].hash # live.prev
    BY <1>2, <2>2
  <2> QED
    BY <1>1, <1>2, <2>1, <2>3 DEF BrokenAt
<1> QED
  BY <1>3, <1>4

LEMMA LogsSeen ==
  ASSUME ChainCore, AnchorTypes, LossIsSeen, Logs \/ Idle, owed' => owed,
         opening' = opening \/ opening'.at = "no", anchor <= anchor', anchor' \in Nat
  PROVE  LossIsSeen'
<1>1. ASSUME owed, "reopened" \notin cause' PROVE \E k \in 0 .. Len(chain') : GapAfter(k)'
  <2>1. "reopened" \notin cause
    BY <1>1 DEF Logs, Idle
  <2>2. PICK k \in 0 .. Len(chain) : GapAfter(k)
    BY <1>1, <2>1 DEF LossIsSeen
  <2>3. /\ Len(chain') \in Nat /\ Len(chain) <= Len(chain') /\ \A i \in 1 .. Len(chain) : chain'[i] = chain[i]
    BY LogsGrow
  <2>4. Len(chain) < Len(chain') /\ k = Len(chain) => BrokenAt(chain', k + 1)
    BY <2>2, GapBreaks
  <2>5. live'.here => (live.here /\ live'.prev = live.prev) \/ live'.prev = logged + 1
    <3>1. live \in Logger
      BY DEF ChainCore
    <3> QED
      BY <3>1 DEF Logs, Idle, Logger
  <2>6. opening'.at = "loaded" => opening' = opening
    OBVIOUS
  <2> QED
    BY <2>2, <2>3, <2>4, <2>5, <2>6, GapRests
<1>2. opening'.at \in {"moved", "fresh"} => opening' = opening
  OBVIOUS
<1> QED
  BY <1>1, <1>2 DEF LossIsSeen

LEMMA TornSeen ==
  ASSUME ChainCore, AnchorTypes, LossIsSeen, UNCHANGED <<anchor, owed>>,
         chain' \in {chain, Chain!With(chain, Chain!Torn)}, "reopened" \in cause => "reopened" \in cause',
         opening' = opening \/ opening'.at = "no",
         live'.here => live.here /\ live'.prev = logged + 1
  PROVE  LossIsSeen'
<1>1. ASSUME owed, "reopened" \notin cause' PROVE \E k \in 0 .. Len(chain') : GapAfter(k)'
  <2>1. PICK k \in 0 .. Len(chain) : GapAfter(k)
    BY <1>1 DEF LossIsSeen
  <2>2. /\ Len(chain') \in Nat /\ Len(chain) <= Len(chain') /\ \A i \in 1 .. Len(chain) : chain'[i] = chain[i]
        /\ Len(chain') = Len(chain) \/ chain'[Len(chain) + 1] = Chain!Torn
    BY TornGrows
  <2>3. Len(chain) < Len(chain') /\ k = Len(chain) => BrokenAt(chain', k + 1)
    <3>1. ASSUME Len(chain) < Len(chain'), k = Len(chain) PROVE chain'[k + 1].hash = 0
      <4>1. Len(chain') # Len(chain)
        BY <2>2, <3>1, CoreInts
      <4> QED
        BY <2>2, <3>1, <4>1 DEF Chain!Torn
    <3> QED
      BY <3>1 DEF BrokenAt
  <2>4. anchor' \in Nat /\ anchor <= anchor'
    BY AnchorInts
  <2> QED
    BY <2>1, <2>2, <2>3, <2>4, GapRests
<1> QED
  BY <1>1 DEF LossIsSeen

LEMMA LossSeen == ASSUME ChainCore, AnchorTypes, LossIsSeen, Chain!LoseLines PROVE LossIsSeen'
<1>1. PICK n \in 0 .. Len(chain) - 1 :
        /\ chain' = SubSeq(chain, 1, n)
        /\ owed' = (owed \/ \E i \in n + 1 .. Len(chain) : i <= anchor /\ chain[i] # Chain!Torn)
  BY DEF Chain!LoseLines
<1>2. UNCHANGED <<anchor, live, opening>> /\ cause' = cause \cup {"lost"}
  BY DEF Chain!LoseLines
<1>3. /\ Len(chain) \in Nat /\ anchor \in Nat /\ live.prev \in Nat /\ opening.prev \in Nat
      /\ chain \in Seq(Chain!Line) /\ Hashes(chain, logged)
      /\ \A i \in 1 .. Len(chain) : chain[i].hash \in Nat
  BY CoreInts, AnchorInts DEF ChainCore
<1>4. n \in 0 .. Len(chain) /\ n < Len(chain) /\ n \in Nat
  BY <1>1, <1>3
<1>5. Len(chain') = n /\ \A i \in 1 .. n : chain'[i] = chain[i] /\ i \in 1 .. Len(chain)
  BY <1>1, <1>3, <1>4, HashesCut
<1>6. ~(opening'.at \in {"moved", "fresh"})
  <2>1. chain # <<>>
    BY <1>3, <1>4
  <2> QED
    BY <1>2, <2>1 DEF ChainCore, OpeningFits
<1>7. ASSUME owed, "reopened" \notin cause' PROVE \E k \in 0 .. Len(chain') : GapAfter(k)'
  <2>1. PICK k \in 0 .. Len(chain) : GapAfter(k)
    BY <1>2, <1>7 DEF LossIsSeen
  <2>2. k \in Nat /\ k < anchor
    BY <1>3, <2>1 DEF GapAfter
  <2>3. CASE k < n
    <3>1. k + 1 \in 1 .. n /\ (k + 1 # 1 => (k + 1) - 1 \in 1 .. n) /\ k < Len(chain) /\ k \in 0 .. n
          /\ \A i \in 1 .. k : i \in 1 .. n
      BY <1>3, <1>4, <2>2, <2>3
    <3>2. BrokenAt(chain, k + 1)
      BY <2>1, <3>1 DEF GapAfter
    <3>3. BrokenAt(chain', k + 1)
      BY <1>5, <3>1, <3>2 DEF BrokenAt
    <3>4. GapAfter(k)'
      BY <1>2, <1>5, <2>1, <3>1, <3>3 DEF GapAfter, Continues
    <3> QED
      BY <1>5, <3>1, <3>4
  <2>4. CASE ~(k < n)
    <3>1. n < anchor' /\ \A i \in 1 .. n : i \in 1 .. k
      BY <1>2, <1>3, <1>4, <2>2, <2>4
    <3>2. ~(n < Len(chain'))
      BY <1>4, <1>5
    <3>3. GapAfter(n)'
      BY <1>2, <1>5, <2>1, <3>1, <3>2 DEF GapAfter, Continues
    <3> QED
      BY <1>4, <1>5, <3>3
  <2> QED
    BY <2>3, <2>4
<1>8. ASSUME NEW i \in n + 1 .. Len(chain), i <= anchor, chain[i] # Chain!Torn, "reopened" \notin cause'
      PROVE  \E k \in 0 .. Len(chain') : GapAfter(k)'
  <2>1. i \in 1 .. Len(chain) /\ n < anchor /\ \A j \in 1 .. n : j \in 1 .. Len(chain) /\ j < i
    BY <1>3, <1>4, <1>8
  <2>2. chain[i].hash > 0 /\ chain[i].hash \in Nat
    BY <1>3, <1>8, <2>1 DEF Hashes
  <2>3. \A j \in 1 .. n : chain[j].hash < chain[i].hash /\ chain[j].hash \in Nat
    <3> SUFFICES ASSUME NEW j \in 1 .. n PROVE chain[j].hash < chain[i].hash /\ chain[j].hash \in Nat
      OBVIOUS
    <3>1. chain[i].hash # 0 /\ j < i /\ j \in 1 .. Len(chain)
      BY <2>1, <2>2
    <3> QED
      BY <1>3, <2>1, <3>1 DEF Hashes
  <2>4. ASSUME NEW prev \in Nat, chain[i].hash <= prev PROVE 0 < prev /\ \A j \in 1 .. n : chain'[j].hash < prev
    <3>1. 0 < prev
      BY <2>2, <2>4
    <3>2. \A j \in 1 .. n : chain[j].hash < prev
      BY <2>2, <2>3, <2>4
    <3> QED
      BY <1>5, <3>1, <3>2
  <2>5. /\ live.here => chain[i].hash <= live.prev
        /\ opening.at = "loaded" => chain[i].hash <= opening.prev
    BY <1>2, <1>8, <2>1 DEF ChainCore, LoggersFollow
  <2>6. ~(n < Len(chain'))
    BY <1>4, <1>5
  <2>7. live.here => 0 < live.prev /\ \A j \in 1 .. n : chain'[j].hash < live.prev
    BY <1>3, <2>4, <2>5
  <2>8. opening.at = "loaded" => 0 < opening.prev /\ \A j \in 1 .. n : chain'[j].hash < opening.prev
    BY <1>3, <2>4, <2>5
  <2>9. GapAfter(n)'
    BY <1>2, <2>1, <2>6, <2>7, <2>8 DEF GapAfter, Continues
  <2> QED
    BY <1>4, <1>5, <2>9
<1> QED
  BY <1>1, <1>6, <1>7, <1>8 DEF LossIsSeen

LEMMA LossStep == ASSUME ChainCore, AnchorTypes, AnchorFits, LossIsSeen, [Chain!Next]_logging PROVE LossIsSeen'
<1>0. anchor \in Nat /\ check.anchor \in Nat /\ check.lines \in Nat /\ anchor <= anchor /\ opening \in Opening /\ live \in Logger
  BY AnchorInts DEF ChainCore
<1>1. CASE Chain!Emit
  BY <1>0, <1>1, LogMeans, LogsSeen DEF Chain!Emit
<1>2. CASE Chain!FailedWrite
  <2>1. chain' \in {chain, Chain!With(chain, Chain!Torn)} /\ cause \subseteq cause' /\ UNCHANGED <<anchor, owed, opening>>
    BY <1>2 DEF Chain!FailedWrite
  <2>2. live'.here => live.here /\ live'.prev = logged + 1
    BY <1>0, <1>2 DEF Chain!FailedWrite, Logger
  <2> QED
    BY <2>1, <2>2, TornSeen
<1>3. CASE Chain!Open
  <2>1. opening'.at \in {"valid", "broken"}
    BY <1>3 DEF Chain!Open, Chain!NotOpening
  <2>2. UNCHANGED <<chain, anchor, live, owed, cause>> /\ opening.at = "no"
    BY <1>3 DEF Chain!Open
  <2> QED
    BY <2>1, <2>2 DEF LossIsSeen, GapAfter, Continues, BrokenAt
<1>4. CASE Chain!Quarantine \/ Chain!Load
  BY <1>4 DEF Chain!Quarantine, Chain!Load, LossIsSeen
<1>5. CASE Chain!Swap
  <2>1. ASSUME owed, "reopened" \notin cause PROVE \E k \in 0 .. Len(chain') : GapAfter(k)'
    <3>1. PICK k \in 0 .. Len(chain) : GapAfter(k)
      BY <2>1 DEF LossIsSeen
    <3>2. /\ opening.at = "loaded" /\ live'.prev = opening.prev /\ opening'.at = "swapped" /\ UNCHANGED <<chain, anchor>>
      BY <1>0, <1>5 DEF Chain!Swap, Opening
    <3> QED
      BY <3>1, <3>2 DEF GapAfter, Continues, BrokenAt
  <2>2. opening'.at = "swapped" /\ UNCHANGED <<owed, cause>>
    BY <1>0, <1>5 DEF Chain!Swap, Opening
  <2> QED
    BY <2>1, <2>2 DEF LossIsSeen
<1>6. ASSUME NEW ok \in BOOLEAN, Chain!archiveChainLogState(ok) PROVE LossIsSeen'
  BY <1>6 DEF Chain!archiveChainLogState, LossIsSeen
<1>7. CASE Chain!Configured
  BY <1>0, <1>7, LogMeans, LogsSeen DEF Chain!Configured, Chain!NotOpening
<1>8. CASE Chain!CheckChain
  <2>1. Logs \/ Idle
    BY <1>8, LogMeans DEF Chain!CheckChain, Idle
  <2> QED
    BY <1>0, <1>8, <2>1, LogsSeen DEF Chain!CheckChain
<1>9. CASE Chain!ReadAnchor
  BY <1>0, <1>9, LogsSeen DEF Chain!ReadAnchor, Idle
<1>10. CASE Chain!CountLines
  BY <1>0, <1>10, LogsSeen DEF Chain!CountLines, Idle
<1>11. CASE Chain!checkLogMonotonic
  <2>1. Logs \/ Idle
    BY <1>11, LogMeans DEF Chain!checkLogMonotonic, Idle
  <2>2. anchor <= check.anchor
    BY <1>11 DEF Chain!checkLogMonotonic, AnchorFits
  <2>3. anchor' \in Nat /\ anchor <= anchor'
    BY <1>0, <1>11, <2>2 DEF Chain!checkLogMonotonic, Chain!NewAnchor
  <2> QED
    BY <1>11, <2>1, <2>3, LogsSeen DEF Chain!checkLogMonotonic
<1>12. CASE Chain!Stop
  <2>1. /\ chain' \in {chain, Chain!With(chain, Chain!Torn)} /\ cause \subseteq cause' /\ UNCHANGED <<anchor, owed>>
        /\ live'.here = FALSE /\ opening'.at = "no"
    BY <1>12 DEF Chain!Stop, Chain!NoLogger, Chain!NotOpening
  <2> QED
    BY <2>1, TornSeen
<1>13. CASE UNCHANGED logging
  BY <1>0, <1>13, LogsSeen DEF logging, Idle
<1> QED
  BY <1>1, <1>2, <1>3, <1>4, <1>5, <1>6, <1>7, <1>8, <1>9, <1>10, <1>11, <1>12, <1>13, LossSeen DEF Chain!Next

-----------------------------------------------------------------------------
\* LogChain: the theorem.

ChainInv == ChainCore /\ AnchorTypes /\ AnchorFits /\ LossIsSeen

(* The inductive invariant of the log and its check.                        *)
THEOREM ChainInvariance == Chain!Spec => []ChainInv
<1>1. Chain!Init => ChainInv
  <2>1. Chain!Init => LossIsSeen
    BY DEF Chain!Init, LossIsSeen, Chain!NotOpening
  <2> QED
    BY <2>1, CoreInit, AnchorInit DEF ChainInv
<1>2. ChainInv /\ [Chain!Next]_(Chain!vars) => ChainInv'
  <2>1. [Chain!Next]_(Chain!vars) => [Chain!Next]_logging
    BY DEF Chain!vars, logging
  <2> QED
    BY <2>1, CoreStep, AnchorTypesStep, AnchorStep, LossStep DEF ChainInv
<1> QED
  BY <1>1, <1>2, PTL DEF Chain!Spec

(* What the check of the security log reports has a cause, and a loss it had
   counted stays visible, however Configure, the check, stops and losses
   follow each other (logger.go, integrity.go).                             *)
THEOREM ChainTheorem == Chain!Spec => []LogIsWatched
<1>1. ChainInv => LogIsWatched
  <2> SUFFICES ASSUME ChainInv PROVE LogIsWatched
    OBVIOUS
  <2>1. Chain!BrokenChainHasACause
    BY DEF ChainInv, ChainCore, LoggersFollow, Chain!BrokenChainHasACause
  <2>2. Chain!ShrinkingIsReal
    BY DEF ChainInv, AnchorFits, Chain!ShrinkingIsReal
  <2>3. ASSUME owed, "reopened" \notin cause, ~(Len(chain) < anchor) PROVE ~Chain!Verified(chain)
    <3>1. PICK k \in 0 .. Len(chain) : GapAfter(k)
      BY <2>3 DEF ChainInv, LossIsSeen
    <3>2. Len(chain) \in Nat /\ anchor \in Nat
      BY CoreInts, AnchorInts DEF ChainInv
    <3>3. k < Len(chain)
      BY <2>3, <3>1, <3>2 DEF GapAfter
    <3>4. k + 1 \in 1 .. Len(chain)
      BY <3>2, <3>3
    <3> QED
      BY <3>1, <3>3, <3>4 DEF GapAfter, BrokenAt, Chain!Verified
  <2> QED
    BY <2>1, <2>2, <2>3 DEF LogIsWatched, Chain!LogIsWatched, Chain!LossLeavesATrace
<1> QED
  BY <1>1, ChainInvariance, PTL

LEMMA ChainTypes == ChainInv => Chain!TypeOK
<1> SUFFICES ASSUME ChainInv PROVE Chain!TypeOK
  OBVIOUS
<1>1. Len(chain) <= Chain!Longest /\ chain \in Seq(Chain!Line)
  BY CoreInts, AnchorInts DEF ChainInv
<1> QED
  BY <1>1 DEF ChainInv, ChainCore, AnchorTypes, Chain!TypeOK, Logger, Opening, Checking

-----------------------------------------------------------------------------
(* The five monitors side by side, each on its own state and at its own     *)
(* pace, as goroutines of the plugin: their states keep their types.        *)
THEOREM MonitorTypes == Spec /\ Watch!Spec /\ Base!Spec /\ Scan!Spec /\ Chain!Spec => []Types
<1>1. LoginInv /\ WatchInv /\ BaseInv /\ ScanInv /\ ChainInv => Types
  BY WatchTypes, ChainTypes DEF LoginInv, LoginTypes, BaseInv, ScanInv, Types
<1> QED
  BY <1>1, LoginInvariance, WatchInvariance, BaseInvariance, ScanInvariance, ChainInvariance, PTL
===============================================================================
