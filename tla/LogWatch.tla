------------------------------ MODULE LogWatch ------------------------------
(***************************************************************************)
(* How the security plugin follows a log file                              *)
(* (src/plugins/Kizuna-Security/plugin/monitor.go, scanFile) while other   *)
(* programs append to it, rotate it and truncate it, and how it tells      *)
(* forged lines by what journald says of their origin (monitor_spoof.go).  *)
(* A line is its number in the order of writing, and has length one.       *)
(***************************************************************************)
EXTENDS Integers, Sequences, FiniteSets

CONSTANTS
  Forged,           \* the lines that claim to be sshd's and are not
  maxLinesPerScan, spoofMaxEntries, spoofTTL,
  MaxLines,         \* bound on the lines written
  MaxFiles,         \* bound on the files that bear the watched name
  MaxTime           \* bound on the clock

WatchBounds ==
  /\ Forged \subseteq 1 .. MaxLines /\ {maxLinesPerScan, spoofMaxEntries} \subseteq Nat \ {0}
  /\ {spoofTTL, MaxLines, MaxTime} \subseteq Nat /\ MaxFiles \in Nat \ {0}

VARIABLES
  now, written,
  ino, file,    \* the file of that name, 0 for none, and its lines
  source,       \* lineSource: [offset, ino], or [offset |-> -1] before the first sight
  journal,      \* journald entries about forged lines the watch has yet to read
  spoof,        \* spoofCache: pairs of a line and the time it was added
  read,         \* lines classified so far, in order
  spoofed,      \* those classified as forged
  \* Kept apart from the monitor's own state:
  cut,          \* the file was truncated since the last scan
  excused,      \* lines of it a scan may pass over
  told          \* what the watch of this monitor read, each with the time

ghost == <<cut, excused, told>>
vars == <<now, written, ino, file, source, journal, spoof, read, spoofed, ghost>>

Line == 1 .. MaxLines
Unseen == [offset |-> -1, ino |-> 0]
Lines(s) == {s[i] : i \in DOMAIN s}

TypeOK ==
  /\ now \in 0 .. MaxTime /\ written \in 0 .. MaxLines /\ ino \in 0 .. MaxFiles
  /\ file \in Seq(Line)
  /\ source \in [offset : -1 .. MaxLines, ino : 0 .. MaxFiles]
  /\ journal \in Seq(Forged) /\ told \in Seq(Forged \X (0 .. MaxTime))
  /\ spoof \subseteq Forged \X (0 .. MaxTime) /\ Cardinality(spoof) <= spoofMaxEntries
  /\ read \in Seq(Line) /\ spoofed \subseteq Forged
  /\ cut \in BOOLEAN /\ excused \subseteq Line

Init ==
  /\ now = 0 /\ written = 0
  /\ ino \in {0, 1} /\ file = <<>>
  /\ source = Unseen
  /\ journal = <<>> /\ spoof = {}
  /\ read = <<>> /\ spoofed = {}
  /\ cut = FALSE /\ excused = {} /\ told = <<>>

\* rsyslog writes a line, and journald an entry about it.
Append1 ==
  /\ ino # 0 /\ written < MaxLines
  /\ written' = written + 1
  /\ file' = Append(file, written')
  /\ journal' = IF written' \in Forged THEN Append(journal, written') ELSE journal
  /\ UNCHANGED <<now, ino, source, spoof, read, spoofed, ghost>>

\* logrotate: another file takes the name.  The monitor never reads the rest of the old one.
Rotate ==
  /\ ino < MaxFiles
  /\ ino' = ino + 1 /\ file' = <<>>
  /\ cut' = FALSE
  /\ UNCHANGED <<now, written, source, journal, spoof, read, spoofed, excused, told>>

\* copytruncate: the same file is emptied.
Truncate ==
  /\ file # <<>>
  /\ file' = <<>>
  /\ cut' = TRUE
  /\ UNCHANGED <<now, written, ino, source, journal, spoof, read, spoofed, excused, told>>

\* A file seen for the first time is followed from its end.
FirstSight == [offset |-> Len(file), ino |-> ino]
Seen == IF source = Unseen THEN FirstSight ELSE source

\* Mutant: only a shorter file is taken for a new one.
StartBySize(src) == IF Len(file) < src.offset THEN 0 ELSE src.offset

\* Another file, or a shorter one, is read from its beginning.
Start(src) ==
  IF (src.ino # 0 /\ ino # src.ino) \/ Len(file) < src.offset THEN 0 ELSE src.offset

Reach(start) == IF Len(file) - start > maxLinesPerScan THEN start + maxLinesPerScan ELSE Len(file)

\* Mutant: a scan cut short forgets how far it came.
Forgotten(start) == IF Reach(start) < Len(file) THEN start ELSE Reach(start)

NewOffset(start) == Reach(start)

Fresh(e) == now - e[2] <= spoofTTL
Known(l) == \E e \in spoof : e[1] = l /\ Fresh(e)

\* One poll.  classify takes a line for forged if its journald entry is known.
scanFile ==
  /\ ino # 0
  /\ LET start == Start(Seen)
         chunk == SubSeq(file, start + 1, Reach(start))
     IN /\ source' = [offset |-> NewOffset(start), ino |-> ino]
        /\ read' = read \o chunk
        /\ spoofed' = spoofed \cup {l \in Lines(chunk) : Known(l)}
        /\ excused' = IF source = Unseen \/ cut THEN excused \cup Lines(SubSeq(file, 1, start))
                                               ELSE excused
  /\ cut' = FALSE
  /\ UNCHANGED <<now, written, ino, file, journal, spoof, told>>

\* The poll finds no file: only the first sight is noted.
scanNothing ==
  /\ ino = 0 /\ source = Unseen
  /\ source' = [offset |-> 0, ino |-> 0]
  /\ UNCHANGED <<now, written, ino, file, journal, spoof, read, spoofed, ghost>>

\* Mutant: a full cache is emptied.
Emptied(entries) == {}

\* A full cache gives up one of its oldest entries.
OldestOut(entries) ==
  IF Cardinality(entries) < spoofMaxEntries THEN entries
  ELSE entries \ {CHOOSE e \in entries : \A f \in entries : e[2] < f[2] \/ (e[2] = f[2] /\ e[1] <= f[1])}

\* The watch reads an entry of the journal.
spoofWatchLoop ==
  /\ journal # <<>>
  /\ journal' = Tail(journal)
  /\ spoof' = OldestOut({e \in spoof : Fresh(e)}) \cup {<<Head(journal), now>>}
  /\ told' = Append(told, <<Head(journal), now>>)
  /\ UNCHANGED <<now, written, ino, file, source, read, spoofed, cut, excused>>

\* A new monitor begins at the end of the file, and its watch with the next entry.
Configure ==
  /\ source # Unseen
  /\ source' = Unseen /\ journal' = <<>> /\ spoof' = {}
  /\ told' = <<>>
  /\ UNCHANGED <<now, written, ino, file, read, spoofed, cut, excused>>

Tick ==
  /\ now < MaxTime /\ now' = now + 1
  /\ UNCHANGED <<written, ino, file, source, journal, spoof, read, spoofed, ghost>>

Next ==
  \/ Append1 \/ Rotate \/ Truncate
  \/ scanFile \/ scanNothing \/ spoofWatchLoop \/ Configure \/ Tick

Spec == Init /\ [][Next]_vars

-----------------------------------------------------------------------------
(* Every line is read once and in order: no rotation, truncation or limit  *)
(* on a scan makes the monitor count a line again                          *)
(* (src/plugins/Kizuna-Security/plugin/monitor.go:214-259).                *)
ReadOnceInOrder == \A i, j \in DOMAIN read : i < j => read[i] < read[j]

(* The monitor passes no line over: what lies before its offset was read,  *)
(* or was there before the monitor first looked, or came after a           *)
(* truncation that had grown past the old offset by the next scan.  A      *)
(* rotation never costs a line of the new file (monitor.go:214-219).       *)
NothingIsPassedOver ==
  source # Unseen /\ source.ino = ino =>
    \A i \in DOMAIN file :
      i <= source.offset => file[i] \in Lines(read) \cup excused \/ cut

(* A forged line is told from a login if the watch read its journald entry *)
(* before the scan, within its time to live, and read fewer further        *)
(* forgeries since than the cache holds (monitor_spoof.go:30-73).          *)
ForgeriesAreRecognised ==
  [][\A i \in DOMAIN told :
       LET l == told[i][1]
       IN l \in Lines(read') \ Lines(read) /\ Fresh(told[i]) /\ Len(told) - i < spoofMaxEntries
            => l \in spoofed']_vars

(* The watch of a log as a whole.                                          *)
LinesAreReadOnce == []ReadOnceInOrder /\ []NothingIsPassedOver /\ ForgeriesAreRecognised
=============================================================================
