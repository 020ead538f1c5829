------------------------------- MODULE LogChain -------------------------------
(***************************************************************************)
(* The security log and its periodic check                                 *)
(* (src/plugins/Kizuna-Security/plugin/logger.go, integrity.go, and        *)
(* Configure of plugin.go).  Every line carries the hash of the line before *)
(* it; an anchor file keeps the largest line count a check has seen.       *)
(* Configure opens the log a second time, and puts a log that does not     *)
(* verify aside, before it closes the first; the check reads the log, the  *)
(* anchor and the log again, and reports into the same log.  A line is the *)
(* number of its hash and of the hash it follows; number 0 is no hash.     *)
(***************************************************************************)
EXTENDS Integers, Sequences

CONSTANTS
  MaxLines,        \* bound: lines logged
  MaxOpens,        \* bound: runs of Configure
  MaxFaults        \* bound: failed and torn writes, crashes, lines lost, anchors not moved

ChainBounds == MaxLines \in Nat \ {0} /\ MaxOpens \in Nat \ {0} /\ MaxFaults \in Nat

VARIABLES
  file,       \* the lines at LogPath
  anchor,     \* the line count in the anchor file, 0 when there is none
  live,       \* p.fileLog: its number, 0 when there is none; its prevHash; whether it writes at LogPath
  opening,    \* Configure's new logger: the step it is at, its prevHash, whether it is to report a quarantine
  check,      \* runIntegrityChecks: the step, the logger of its monitor, the anchor and the count it read
  written, opened, faults,
  \* Kept apart from the plugin's own state:
  reported,   \* the reports made: "broken" and "shrunk" by the check, "quarantined" by Configure
  lost,       \* lines were lost from the log by another hand
  owed,       \* a line a check had counted was lost, and nothing reported or reopened the log since
  cause,      \* what has broken the chain since it was started
  tangled     \* a check met a log and an anchor that were not of the same chain

vars == <<file, anchor, live, opening, check, written, opened, faults, reported, lost, owed, cause, tangled>>

Torn == [hash |-> 0, prev |-> 0]
Line == [hash : 0 .. MaxLines, prev : 0 .. MaxLines]
NoLogger == [id |-> 0, prev |-> 0, here |-> FALSE]
NotOpening == [at |-> "no", prev |-> 0, quarantine |-> FALSE]
NoCheck == [at |-> "no", log |-> 0, anchor |-> 0, lines |-> 0]

Longest == MaxLines + MaxFaults

TypeOK ==
  /\ file \in Seq(Line) /\ Len(file) <= Longest
  /\ anchor \in 0 .. Longest
  /\ live \in [id : 0 .. MaxOpens, prev : 0 .. MaxLines, here : BOOLEAN]
  /\ opening \in [at : {"no", "broken", "moved", "fresh", "valid", "loaded", "swapped"},
                  prev : 0 .. MaxLines, quarantine : BOOLEAN]
  /\ check \in [at : {"no", "anchor", "count", "write"}, log : 0 .. MaxOpens,
                anchor : 0 .. Longest, lines : 0 .. Longest]
  /\ written \in 0 .. MaxLines /\ opened \in 0 .. MaxOpens /\ faults \in 0 .. MaxFaults
  /\ reported \subseteq {"broken", "shrunk", "quarantined"}
  /\ lost \in BOOLEAN /\ owed \in BOOLEAN /\ tangled \in BOOLEAN
  /\ cause \subseteq {"write", "torn", "lost", "reopened"}

Init ==
  /\ file = <<>> /\ anchor = 0
  /\ live = NoLogger /\ opening = NotOpening /\ check = NoCheck
  /\ written = 0 /\ opened = 0 /\ faults = 0
  /\ reported = {} /\ lost = FALSE /\ owed = FALSE /\ cause = {} /\ tangled = FALSE

\* VerifyChainKeyed: every line is whole and follows the one before it.
Verified(f) ==
  \A i \in 1 .. Len(f) : f[i].hash # 0 /\ f[i].prev = IF i = 1 THEN 0 ELSE f[i - 1].hash

\* The last hash in the log; a torn line has none.
loadLastHash(f) ==
  LET whole == {i \in 1 .. Len(f) : f[i].hash # 0}
  IN IF whole = {} THEN 0 ELSE f[CHOOSE i \in whole : \A j \in whole : j <= i].hash

\* What a line added to the file makes of it: after a torn line it goes into the same line.
With(f, l) == IF f # <<>> /\ f[Len(f)] = Torn THEN f ELSE Append(f, l)

\* Mutant: the hash a line follows is read from the file each time.
FromTheFile(prev) == [hash |-> written + 1, prev |-> loadLastHash(file)]
\* Mutant: a logger opened on an existing log starts a chain of its own.
Unlinked(prev) == [hash |-> written + 1, prev |-> IF opening.at = "swapped" THEN 0 ELSE prev]
Linked(prev) == [hash |-> written + 1, prev |-> prev]

\* What the old logger writes once the new one has read the last hash, the new one does not follow.
Behind == IF live.here /\ opening.at = "loaded" THEN {"reopened"} ELSE {}

\* The logger of this number adds a line; one that was closed, or whose file is elsewhere, adds none here.
log(id) ==
  IF id = live.id /\ id # 0
    THEN /\ written < MaxLines
         /\ written' = written + 1
         /\ live' = [live EXCEPT !.prev = written + 1]
         /\ file' = IF live.here THEN With(file, Linked(live.prev)) ELSE file
         /\ cause' = cause \cup Behind
    ELSE UNCHANGED <<written, live, file, cause>>

\* An event is written to the log.
Emit ==
  /\ live.id # 0 /\ log(live.id)
  /\ UNCHANGED <<anchor, opening, check, opened, faults, reported, lost, owed, tangled>>

\* A write that fails, or stops half-way, is not noticed: the logger goes on from the hash it meant to write.
FailedWrite ==
  /\ faults < MaxFaults /\ faults' = faults + 1
  /\ live.id # 0 /\ written < MaxLines
  /\ written' = written + 1 /\ live' = [live EXCEPT !.prev = written + 1]
  /\ \E torn \in BOOLEAN :
       /\ file' = IF torn /\ live.here THEN With(file, Torn) ELSE file
       /\ cause' = IF live.here THEN cause \cup Behind \cup {IF torn THEN "torn" ELSE "write"} ELSE cause
  /\ UNCHANGED <<anchor, opening, check, opened, reported, lost, owed, tangled>>

(* Configure *)

\* NewFileLoggerKeyed reads the existing log through.
Open ==
  /\ opening.at = "no" /\ opened < MaxOpens
  /\ opening' = [NotOpening EXCEPT !.at = IF Verified(file) THEN "valid" ELSE "broken"]
  /\ UNCHANGED <<file, anchor, live, check, written, opened, faults, reported, lost, owed, cause, tangled>>

\* A log that does not verify is renamed; a logger that is still open goes on writing to it.
Quarantine ==
  /\ opening.at = "broken"
  /\ opening' = [opening EXCEPT !.at = "moved", !.quarantine = TRUE]
  /\ file' = <<>> /\ cause' = {}
  /\ live' = [live EXCEPT !.here = FALSE]
  /\ owed' = FALSE
  /\ tangled' = (tangled \/ check.at \in {"count", "write"})
  /\ UNCHANGED <<anchor, check, written, opened, faults, reported, lost>>

\* Its anchor is renamed next, so that the count of the old chain is not held against the new one.
\* Mutant: the anchor stays.
AnchorStays(ok) == anchor
Rest(ok) == IF ok THEN 0 ELSE anchor

archiveChainLogState(ok) ==
  /\ opening.at = "moved"
  /\ ok \/ faults < MaxFaults
  /\ faults' = IF ok THEN faults ELSE faults + 1
  /\ anchor' = Rest(ok)
  /\ opening' = [opening EXCEPT !.at = "fresh"]
  /\ tangled' = (tangled \/ ~ok \/ check.at \in {"count", "write"})
  /\ UNCHANGED <<file, live, check, written, opened, reported, lost, owed, cause>>

\* The new logger takes the last hash of the file it will write to; after a quarantine it writes a line at once.
Load ==
  /\ opening.at \in {"valid", "fresh"}
  /\ IF opening.quarantine
       THEN /\ written < MaxLines
            /\ written' = written + 1
            /\ file' = With(file, [hash |-> written + 1, prev |-> loadLastHash(file)])
            /\ opening' = [opening EXCEPT !.at = "loaded", !.prev = written + 1]
       ELSE /\ opening' = [opening EXCEPT !.at = "loaded", !.prev = loadLastHash(file)]
            /\ UNCHANGED <<written, file>>
  /\ owed' = FALSE
  /\ UNCHANGED <<anchor, live, check, opened, faults, reported, lost, cause, tangled>>

\* The old logger is closed and the new one takes its place; a quarantine is reported.
Swap ==
  /\ opening.at = "loaded"
  /\ opened' = opened + 1
  /\ live' = [id |-> opened + 1, prev |-> opening.prev, here |-> TRUE]
  /\ opening' = [opening EXCEPT !.at = "swapped"]
  /\ reported' = IF opening.quarantine THEN reported \cup {"quarantined"} ELSE reported
  /\ UNCHANGED <<file, anchor, check, written, faults, lost, owed, cause, tangled>>

Configured ==
  /\ opening.at = "swapped" /\ log(live.id)
  /\ opening' = NotOpening
  /\ UNCHANGED <<anchor, check, opened, faults, reported, lost, owed, tangled>>

(* The periodic check *)

\* The chain is verified, and a break is reported through the monitor the check began with.
CheckChain ==
  /\ check.at = "no" /\ live.id # 0
  /\ check' = [NoCheck EXCEPT !.at = "anchor", !.log = live.id]
  /\ IF Verified(file)
       THEN UNCHANGED <<file, live, written, cause, reported, owed>>
       ELSE log(live.id) /\ reported' = reported \cup {"broken"} /\ owed' = FALSE
  /\ UNCHANGED <<anchor, opening, opened, faults, lost, tangled>>

ReadAnchor ==
  /\ check.at = "anchor"
  /\ check' = [check EXCEPT !.at = "count", !.anchor = anchor]
  /\ tangled' = (tangled \/ opening.at = "moved")
  /\ UNCHANGED <<file, anchor, live, opening, written, opened, faults, reported, lost, owed, cause>>

CountLines ==
  /\ check.at = "count"
  /\ check' = [check EXCEPT !.at = "write", !.lines = Len(file)]
  /\ UNCHANGED <<file, anchor, live, opening, written, opened, faults, reported, lost, owed, cause, tangled>>

\* A smaller count is reported; only a larger one becomes the anchor.
NewAnchor == IF check.lines > check.anchor THEN check.lines ELSE anchor

checkLogMonotonic ==
  /\ check.at = "write"
  /\ check' = NoCheck
  /\ anchor' = NewAnchor
  /\ IF check.lines < check.anchor
       THEN log(check.log) /\ reported' = reported \cup {"shrunk"} /\ owed' = FALSE
       ELSE UNCHANGED <<file, live, written, cause, reported, owed>>
  /\ UNCHANGED <<opening, opened, faults, lost, tangled>>

(* The host *)

\* Lines are cut off the end of the log by another hand.
LoseLines ==
  /\ faults < MaxFaults /\ faults' = faults + 1
  /\ \E k \in 0 .. Len(file) - 1 :
       /\ file' = SubSeq(file, 1, k)
       /\ owed' = (owed \/ \E i \in k + 1 .. Len(file) : i <= anchor /\ file[i] # Torn)
  /\ lost' = TRUE /\ cause' = cause \cup {"lost"}
  /\ UNCHANGED <<anchor, live, opening, check, written, opened, reported, tangled>>

\* The agent stops, by a crash at any point or in order; a line it was writing may be left torn.
Stop ==
  /\ faults < MaxFaults /\ faults' = faults + 1
  /\ live.id # 0 \/ opening.at # "no"
  /\ \E torn \in BOOLEAN :
       /\ file' = IF torn /\ live.here THEN With(file, Torn) ELSE file
       /\ cause' = IF torn /\ live.here THEN cause \cup {"torn"} ELSE cause
  /\ live' = NoLogger /\ opening' = NotOpening /\ check' = NoCheck
  /\ tangled' = (tangled \/ opening.at = "moved")
  /\ UNCHANGED <<anchor, written, opened, reported, lost, owed>>

Next ==
  \/ Emit \/ FailedWrite
  \/ Open \/ Quarantine \/ Load \/ Swap \/ Configured
  \/ \E ok \in BOOLEAN : archiveChainLogState(ok)
  \/ CheckChain \/ ReadAnchor \/ CountLines \/ checkLogMonotonic
  \/ LoseLines \/ Stop

Spec == Init /\ [][Next]_vars

(* A chain that does not verify was broken by a failed or torn write, by
   lines lost, or by a line the old logger wrote after the new one had read
   the last hash.  Nothing else the plugin does, a restart, a quarantine or a
   reconfiguration, makes the check report a tampered log
   (NewFileLoggerKeyed, log, Configure). *)
BrokenChainHasACause == ~Verified(file) => cause # {}

(* "line count decreased" is reported only after lines were lost, or when a
   quarantine and a check, or a stop half-way through a quarantine, mixed a log
   with the anchor of another (archiveChainLogState, checkLogMonotonic). *)
ShrinkingIsReal == "shrunk" \in reported => lost \/ tangled

(* Lines that a check had counted and that were cut off the log since are
   still visible to the next check: the log is shorter than the anchor, or it
   grew on a chain that no longer fits.  Only the case in which the old logger
   wrote while the log was opened again may hide them
   (log, checkLogMonotonic). *)
LossLeavesATrace == owed => Len(file) < anchor \/ ~Verified(file) \/ "reopened" \in cause

(* What the check says of the log: nothing without a cause, and no loss goes
   unseen. *)
LogIsWatched == BrokenChainHasACause /\ ShrinkingIsReal /\ LossLeavesATrace
================================================================================
