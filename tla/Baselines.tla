------------------------------ MODULE Baselines ------------------------------
(***************************************************************************)
(* The four monitors of the security plugin that compare the host with a   *)
(* saved baseline (src/plugins/Kizuna-Security/plugin): files (fim.go),    *)
(* cron entries (cronmon.go), SUID files (suid.go) and listening ports     *)
(* (portmon.go).  They follow one pattern and differ in when they load, in *)
(* whether they report before or after they save, and in what they do with *)
(* what they cannot read.  The host changes at any time, also while a      *)
(* check is under way; a save can fail unnoticed; the agent restarts, and  *)
(* a reconfiguration replaces a monitor whose check goes on.               *)
(***************************************************************************)
EXTENDS Integers, FiniteSets

CONSTANTS
  Path,        \* files, ports
  Content,     \* hashes, modes; a port has one
  None,        \* not there, or no baseline file
  Unread,      \* there, and not readable
  MaxFaults    \* bound on restarts, reconfigurations, failed saves and lost baselines

BaselineBounds ==
  /\ MaxFaults \in Nat /\ Content # {}
  /\ None # Unread /\ {None, Unread} \cap Content = {}

VARIABLES
  kind,       \* which monitor this is
  inDir,      \* cron: the paths below a watched directory, the others are watched files
  content, blind, \* the host: what is there, and what the agent may not read
  paths,      \* what is configured
  phase,      \* of the check: "idle", "scanned", "told" (fim, not saved), "saved" (others)
  seen,       \* what the check has read
  loaded, hasBaseline, baseline, watched, \* the monitor
  unreadable, \* paths the last check could not read
  warned,     \* paths whose warning is not to be repeated yet
  disk,       \* the baseline file
  pending,    \* events built and not yet emitted
  late,       \* the baseline a replaced monitor has yet to save
  faults,
  \* Kept apart from the monitor's own state:
  announced,  \* pairs of a path and a content an event told of, or the first baseline held
  unsaid,     \* pairs no event told of, each with the reason
  reported    \* paths a warning was given about since they were last seen readable

host == <<content, blind>>
memory == <<loaded, hasBaseline, baseline, watched, unreadable, warned>>
ghost == <<announced, unsaid, reported>>
vars == <<kind, inDir, host, paths, phase, seen, memory, disk, pending, late, faults, ghost>>

Kind == {"fim", "cron", "suid", "port"}
Held == Content \cup {None}
Pair == Path \X Held
Saved == [baseline : [Path -> Held], watched : SUBSET Path, warned : SUBSET Path]

TypeOK ==
  /\ kind \in Kind /\ inDir \subseteq Path /\ paths \subseteq Path
  /\ content \in [Path -> Held] /\ blind \subseteq Path
  /\ phase \in {"idle", "scanned", "told", "saved"}
  /\ seen \in [Path -> Held \cup {Unread}] /\ baseline \in [Path -> Held]
  /\ loaded \in BOOLEAN /\ hasBaseline \in BOOLEAN
  /\ watched \subseteq Path /\ unreadable \subseteq Path /\ warned \subseteq Path
  /\ disk \in Saved \cup {None} /\ late \in Saved \cup {None}
  /\ pending \subseteq Pair /\ announced \subseteq Pair
  /\ unsaid \subseteq Pair \X {"restart", "replaced", "adopted"}
  /\ faults \in 0 .. MaxFaults

Nothing == [p \in Path |-> None]

\* The lazy ones load with their first check, the others when they are made.
Lazy == kind \in {"suid", "port"}
TellsFirst == kind = "fim"
Possible == IF kind = "port" THEN {None, CHOOSE c \in Content : TRUE} ELSE Held
TellsDeletions == kind \in {"fim", "cron"}

Init ==
  /\ kind \in Kind
  /\ inDir \in IF kind = "cron" THEN SUBSET Path ELSE {{}}
  /\ paths \in IF kind = "fim" THEN SUBSET Path \ {{}} ELSE {Path}
  /\ content \in [Path -> Possible] /\ blind = {}
  /\ phase = "idle" /\ seen = Nothing
  /\ loaded = ~Lazy /\ hasBaseline = FALSE /\ baseline = Nothing /\ watched = {}
  /\ unreadable = {} /\ warned = {}
  /\ disk = None /\ pending = {} /\ late = None /\ faults = 0
  /\ announced = {} /\ unsaid = {} /\ reported = {}

\* Mutant: an empty baseline is taken for none.
EmptyIsNone(d) == d # None /\ d.baseline # Nothing

IsBaseline(d) == d # None

\* A monitor that loads now.
Load(d) ==
  /\ loaded' = TRUE
  /\ hasBaseline' = IsBaseline(d)
  /\ baseline' = IF IsBaseline(d) THEN d.baseline ELSE Nothing
  /\ watched' = IF IsBaseline(d) THEN d.watched ELSE {}
  /\ warned' = IF IsBaseline(d) /\ kind = "fim" THEN d.warned ELSE {}

-----------------------------------------------------------------------------
Unsaid(S, why) == unsaid' = unsaid \cup {<<e, why>> : e \in S}

\* The host changes.
Change(p) ==
  /\ content' \in {[content EXCEPT ![p] = c] : c \in Possible \ {content[p]}}
  /\ UNCHANGED <<kind, inDir, blind, paths, phase, seen, memory, disk, pending, late, faults, ghost>>

\* Permissions change, or ss disappears and comes back.
Blind ==
  /\ blind' \in CASE kind = "suid" -> {} [] kind = "port" -> {{}, Path} [] OTHER -> SUBSET Path
  /\ blind' # blind
  /\ UNCHANGED <<kind, inDir, content, paths, phase, seen, memory, disk, pending, late, faults, ghost>>

\* fimUnreadableWarnInterval is over.
WarnIntervalEnds(p) ==
  /\ kind = "fim" /\ p \in warned /\ warned' = warned \ {p}
  /\ UNCHANGED <<kind, inDir, host, paths, phase, seen, loaded, hasBaseline, baseline, watched,
                 unreadable, disk, pending, late, faults, ghost>>

\* What a walk can see; cron sees nothing in a directory it cannot list.
scan == paths \ blind

\* What a check reads.  Only fim knows the unreadable from the missing, and only for files
\* it knows.
Read ==
  [p \in Path |->
     IF p \in scan THEN content[p]
     ELSE IF kind = "fim" /\ p \in paths /\ content[p] # None /\ (baseline[p] # None \/ p \in watched)
       THEN Unread
     ELSE None]

Unreadable ==
  CASE kind = "fim" -> {p \in Path : Read[p] = Unread}
    [] kind = "cron" -> blind \cap inDir \cap paths
    [] OTHER -> blind

Readable == {p \in Path : Read[p] \in Content}

\* Mutant: what was warned of once stays so.
WarnedForever == warned

\* A path read again, or no longer unreadable, is warned of anew the next time.
StillWarned ==
  IF kind = "fim" THEN warned \ (Readable \cup (unreadable \ Unreadable))
                  ELSE warned \cap Unreadable

\* The warnings, one per spell: the same for the three that know of unreadable things.
Warn ==
  /\ unreadable' = Unreadable
  /\ warned' = StillWarned \cup Unreadable
  /\ reported' = (reported \ Readable) \cup (Unreadable \ StillWarned)

\* A check begins: suid and port load first if they have not.
CheckBegins ==
  /\ phase = "idle" /\ paths # {}
  /\ kind = "port" => blind = {}
  /\ IF loaded THEN UNCHANGED <<loaded, hasBaseline, baseline, watched>>
     ELSE /\ loaded' = TRUE /\ hasBaseline' = IsBaseline(disk)
          /\ baseline' = (IF IsBaseline(disk) THEN disk.baseline ELSE Nothing)
          /\ UNCHANGED watched
  /\ Warn
  /\ seen' = Read /\ phase' = "scanned"
  /\ UNCHANGED <<kind, inDir, host, paths, disk, pending, late, faults, announced, unsaid>>

\* ss cannot be run: one warning, and no check.
PortsMissing ==
  /\ kind = "port" /\ phase = "idle" /\ blind # {} /\ ~(blind \subseteq unreadable)
  /\ Warn
  /\ UNCHANGED <<kind, inDir, host, paths, phase, seen, loaded, hasBaseline, baseline, watched,
                 disk, pending, late, faults, announced, unsaid>>

\* What becomes the baseline: the unreadable keeps its old value.
Taken == [p \in Path |-> IF seen[p] = Unread THEN baseline[p] ELSE seen[p]]
\* The paths with a setting of their own, and all that was ever seen.
Known == watched \cup {p \in Path : Taken[p] # None} \cup (paths \ inDir)
Record == [baseline |-> Taken, watched |-> Known, warned |-> IF kind = "fim" THEN warned ELSE {}]

\* A failed save is ignored.
SaveAs(d) ==
  \/ disk' = d /\ UNCHANGED faults
  \/ faults < MaxFaults /\ faults' = faults + 1 /\ UNCHANGED disk

Remember ==
  /\ baseline' = Taken /\ hasBaseline' = TRUE
  /\ watched' = Known
  /\ UNCHANGED <<loaded, unreadable, warned>>

\* The first check: what is there is the baseline.
FirstBaseline ==
  /\ phase = "scanned" /\ ~hasBaseline
  /\ Remember /\ SaveAs(Record)
  /\ announced' = IF disk = None THEN announced \cup {<<p, Taken[p]>> : p \in Path} ELSE announced
  /\ phase' = "idle"
  /\ UNCHANGED <<kind, inDir, host, paths, seen, pending, late, unsaid, reported>>

\* Mutant: a new entry counts only if its path was seen before.
OnlyWatched(p) == kind # "cron" \/ p \in watched

\* cron is silent about a new file that is neither watched yet nor in a watched directory.
Counts(p) == kind # "cron" \/ p \in watched \cup inDir

Differences ==
  {<<p, Taken[p]>> : p \in {q \in Path :
     /\ Taken[q] # baseline[q]
     /\ IF Taken[q] = None THEN TellsDeletions /\ q \in watched
        ELSE baseline[q] = None => Counts(q)}}

\* fim emits and then saves.
CompareAndTell ==
  /\ phase = "scanned" /\ hasBaseline /\ TellsFirst
  /\ announced' = announced \cup Differences
  /\ Remember
  /\ phase' = "told"
  /\ UNCHANGED <<kind, inDir, host, paths, seen, disk, pending, late, faults, unsaid, reported>>

Save ==
  /\ phase = "told" /\ phase' = "idle"
  /\ SaveAs([baseline |-> baseline, watched |-> watched, warned |-> warned])
  /\ UNCHANGED <<kind, inDir, host, paths, seen, memory, pending, late, ghost>>

\* The others save and then emit.
CompareAndSave ==
  /\ phase = "scanned" /\ hasBaseline /\ ~TellsFirst
  /\ pending' = Differences
  /\ Unsaid({<<p, Taken[p]>> : p \in {q \in Path : baseline[q] = None /\ ~Counts(q)}}, "adopted")
  /\ Remember /\ SaveAs(Record)
  /\ phase' = IF Differences = {} THEN "idle" ELSE "saved"
  /\ UNCHANGED <<kind, inDir, host, paths, seen, late, announced, reported>>

Emit(e) ==
  /\ phase = "saved"
  /\ pending' = pending \ {e} /\ announced' = announced \cup {e}
  /\ phase' = IF pending = {e} THEN "idle" ELSE "saved"
  /\ UNCHANGED <<kind, inDir, host, paths, seen, memory, disk, late, faults, unsaid, reported>>

-----------------------------------------------------------------------------
Fault == faults < MaxFaults /\ faults' = faults + 1

\* A monitor made anew.
Anew ==
  /\ unreadable' = {}
  /\ reported' = IF kind = "fim" /\ IsBaseline(disk) THEN reported \cup disk.warned ELSE {}
  /\ IF Lazy THEN /\ loaded' = FALSE /\ hasBaseline' = FALSE /\ baseline' = Nothing
                  /\ watched' = {} /\ warned' = {}
     ELSE Load(disk)
  /\ phase' = "idle" /\ seen' = Nothing /\ pending' = {}

\* The agent ends and starts again.
Restart ==
  /\ Fault /\ Anew
  /\ late' = None
  /\ Unsaid(pending, "restart")
  /\ UNCHANGED <<kind, inDir, host, paths, disk, announced>>

\* New monitors take over; the check under way ends on its own, its events go to a queue
\* that is read no more.
Configure ==
  /\ Fault /\ Anew
  /\ paths' \in IF kind \in {"fim", "cron"} THEN SUBSET Path \ {{}} ELSE {paths}
  /\ late' = CASE phase = "scanned" -> Record
               [] phase = "told" -> [baseline |-> baseline, watched |-> watched, warned |-> warned]
               [] OTHER -> late
  /\ Unsaid(pending, "replaced")
  /\ UNCHANGED <<kind, inDir, host, disk, announced>>

\* The replaced monitor saves, a first baseline or one whose events nobody reads.  A monitor
\* that began without a baseline still takes what it finds.
LateSave ==
  /\ late # None
  /\ disk' = late /\ late' = None
  /\ LET taken == {<<p, late.baseline[p]>> : p \in Path}
         next == IF loaded /\ ~hasBaseline THEN Pair ELSE {}
     IN IF disk = None
          THEN announced' = announced \cup taken /\ Unsaid(next, "replaced")
          ELSE Unsaid((taken \ announced) \cup next, "replaced") /\ UNCHANGED announced
  /\ UNCHANGED <<kind, inDir, host, paths, phase, seen, memory, pending, faults, reported>>

\* The baseline file is lost.
Damage ==
  /\ Fault /\ disk # None /\ disk' = None
  /\ UNCHANGED <<kind, inDir, host, paths, phase, seen, memory, pending, late, ghost>>

Next ==
  \/ \E p \in Path : Change(p) \/ WarnIntervalEnds(p)
  \/ Blind \/ CheckBegins \/ PortsMissing \/ FirstBaseline \/ CompareAndTell \/ Save
  \/ CompareAndSave \/ \E e \in pending : Emit(e)
  \/ Restart \/ Configure \/ LateSave \/ Damage

Spec == Init /\ [][Next]_vars

-----------------------------------------------------------------------------
(* Nothing enters a baseline in silence: what a monitor, or its file, takes *)
(* for normal was reported or was there when no baseline was.  fim reports  *)
(* before it saves, so this holds whatever happens; the others can lose an  *)
(* event to a restart or a reconfiguration between the save and the report, *)
(* and cron is silent about a new file that only a setting names            *)
(* (fim.go:283-333, cronmon.go:84-154, suid.go:146-184, portmon.go:146-160).*)
NothingIsAbsorbed ==
  LET Fair(p, c) == \/ <<p, c>> \in announced \cup pending
                    \/ c = None /\ ~TellsDeletions
                    \/ \E why \in IF kind = "fim" THEN {"replaced"} ELSE {"restart", "replaced"} :
                         <<<<p, c>>, why>> \in unsaid
                    \/ kind = "cron" /\ p \notin inDir /\ <<<<p, c>>, "adopted">> \in unsaid
  IN /\ hasBaseline => \A p \in Path : Fair(p, baseline[p])
     /\ disk # None => \A p \in Path : Fair(p, disk.baseline[p])

(* Whatever a check could not read was warned of since it was last read:   *)
(* no blind spot opens in silence (fim.go:182-264, cronmon.go:238-273,     *)
(* portmon.go:111-135).                                                    *)
BlindnessIsTold == unreadable \subseteq reported
=============================================================================
