------------------------------- MODULE Monitors -------------------------------
(***************************************************************************)
(* The monitors of the security plugin: failed logins and the blocks they  *)
(* lead to (FailedLogins), a log and what claims to be in it (LogWatch),   *)
(* the four baselines (Baselines), a scan of a directory (DirScan) and the *)
(* plugin's own log (LogChain).  They run in the same process and are made *)
(* anew by the same Configure, but share no state: each module meets a     *)
(* reconfiguration and a restart at any time.                              *)
(***************************************************************************)
EXTENDS FailedLogins

CONSTANTS
  Forged, maxLinesPerScan, spoofMaxEntries, spoofTTL, MaxLines, MaxFiles, MaxClock,  \* LogWatch
  Path, Content, Unread, MaxFaults,                                                  \* Baselines
  N, Deep, maxFiles, fimDirEventCap,                                                 \* DirScan
  MaxLogged, MaxOpens, MaxAccidents                                                  \* LogChain

VARIABLES
  clock, written, ino, file, source, journal, spoof, read, spoofed, cut, spared, told,
  kind, inDir, content, blind, paths, phase, seen, loaded, hasBaseline, baseline, watched,
  unreadable, warned, disk, pending, late, faults, announced, unsaid, notified,
  tree, entries, initialized, degraded, depthWarned, events, detail, last, base, broken,
  chain, anchor, live, opening, check, logged, opened, accidents, reports, lost, owed, cause, tangled

watch == <<clock, written, ino, file, source, journal, spoof, read, spoofed, cut, spared, told>>
taking == <<kind, inDir, content, blind, paths, phase, seen, loaded, hasBaseline, baseline, watched,
            unreadable, warned, disk, pending, late, faults, announced, unsaid, notified>>
scanning == <<tree, entries, initialized, degraded, depthWarned, events, detail, last, base, broken>>
logging == <<chain, anchor, live, opening, check, logged, opened, accidents, reports, lost, owed, cause, tangled>>

Watch == INSTANCE LogWatch WITH MaxTime <- MaxClock, now <- clock, excused <- spared

Base == INSTANCE Baselines WITH reported <- notified

Scan == INSTANCE DirScan WITH file <- tree, baseline <- entries

Chain == INSTANCE LogChain WITH
  MaxLines <- MaxLogged, MaxFaults <- MaxAccidents,
  file <- chain, written <- logged, faults <- accidents, reported <- reports

ASSUME LoginAssumption == Validated
ASSUME LogAssumption == Watch!WatchBounds
ASSUME BaselineAssumption == Base!BaselineBounds
ASSUME ScanAssumption == Scan!ScanBounds
ASSUME ChainAssumption == Chain!ChainBounds

(* The type invariants of the five.                                         *)
Types == TypeOK /\ Watch!TypeOK /\ Base!TypeOK /\ Scan!TypeOK /\ Chain!TypeOK

(* LogWatch: once, in order, none passed over, forgeries told.              *)
LinesAreReadOnce == Watch!LinesAreReadOnce

(* Baselines: nothing becomes normal in silence.                            *)
NothingIsAbsorbed == Base!NothingIsAbsorbed

(* Baselines: what cannot be read is warned of.                             *)
BlindnessIsTold == Base!BlindnessIsTold

(* DirScan: what a scan tells is complete, true and new.                    *)
ScanIsHonest == Scan!ScanIsHonest

(* LogChain: the check of the log says neither too much nor too little.     *)
LogIsWatched == Chain!LogIsWatched
===============================================================================
