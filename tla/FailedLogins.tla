---------------------------- MODULE FailedLogins ----------------------------
(***************************************************************************)
(* Failed logins in the security plugin: the counters per source that      *)
(* decide when a source is reported as an attack                           *)
(* (src/plugins/Kizuna-Security/plugin/monitor.go), and the blocker that   *)
(* keeps a reported source out for a while (blocker.go, mode enforce): its *)
(* table, its state file and the rules in the kernel, with failing         *)
(* commands, reconfigurations and restarts.                                *)
(*                                                                         *)
(* One tick is longer than failureDedupWindow.  A scan is one goroutine, a *)
(* reconfiguration another; it replaces the monitor and the blocker while  *)
(* a scan may still hold the old ones.                                     *)
(***************************************************************************)
EXTENDS Integers, Sequences, FiniteSets

CONSTANTS
  Source, User, None,
  FailedBurst, BurstWindow,
  SustainedBurst, SustainedWindow,
  EnumUsers, EnumWindow,
  BlockDuration,
  maxFailTrackers, maxBlockedIPs,
  MaxTime           \* bound on the clock

VARIABLES
  now,
  failCounts,  \* per source its tracker, or None
  blocked,     \* b.blocked: until when, per source, or None
  saved,       \* the state file
  rules,       \* sources the kernel drops
  applying,    \* a block in the kernel that its blocker has yet to record, or None
  \* Kept apart from the plugin's own state:
  counted,     \* per source the failures its tracker counted, as <<time, user>>
  quietSince,  \* per source when its last campaign began
  reported,    \* per source the number of escalations in the campaign
  excused      \* sources whose rule the plugin may have lost

firewall == <<blocked, saved, rules, applying>>
ghost == <<counted, quietSince, reported>>
vars == <<now, failCounts, firewall, ghost, excused>>

Time == 0 .. MaxTime
Until == 0 .. MaxTime + BlockDuration
TimesOf(n) == UNION {[1 .. k -> Time] : k \in 0 .. n}

failTracker ==
  [first : Time, lastSeen : Time \cup {None}, lastUser : User \cup {None}, notified : BOOLEAN,
   recent : TimesOf(FailedBurst), sustained : TimesOf(SustainedBurst),
   users : [User -> Time \cup {None}]]

Block == [source : Source, current : BOOLEAN, table : [Source -> Until \cup {None}]]

Validated ==
  /\ {FailedBurst, SustainedBurst, BlockDuration, BurstWindow, SustainedWindow, EnumWindow,
      maxFailTrackers, maxBlockedIPs} \subseteq Nat \ {0}
  /\ EnumUsers \in Nat /\ EnumUsers >= 2 /\ SustainedWindow >= BurstWindow /\ MaxTime \in Nat
  /\ IsFiniteSet(Source) /\ IsFiniteSet(User)
  /\ None \notin User \cup Until \cup failTracker \cup Block

TypeOK ==
  /\ now \in Time
  /\ failCounts \in [Source -> failTracker \cup {None}]
  /\ blocked \in [Source -> Until \cup {None}] /\ saved \in [Source -> Until \cup {None}]
  /\ rules \subseteq Source
  /\ applying \in Block \cup {None}
  /\ Cardinality({s \in Source : failCounts[s] # None}) <= maxFailTrackers
  /\ Cardinality({s \in Source : blocked[s] # None}) <= maxBlockedIPs

Nobody == [s \in Source |-> None]

Init ==
  /\ now = 0
  /\ failCounts = Nobody /\ blocked = Nobody /\ saved = Nobody
  /\ rules = {} /\ applying = None
  /\ counted = [s \in Source |-> {}] /\ quietSince = [s \in Source |-> 0]
  /\ reported = [s \in Source |-> 0]
  /\ excused = {}

Held(table) == {s \in Source : table[s] # None}

-----------------------------------------------------------------------------
\* Mutant: the window is measured from the oldest entry kept.
FixedWindow(ts, window, keep) ==
  IF ts = <<>> \/ now - ts[1] >= window THEN <<now>>
  ELSE IF Len(ts) < keep THEN Append(ts, now) ELSE ts

\* How many leading entries fell out of the window.
Dropped(ts, window) ==
  CHOOSE d \in 0 .. Len(ts) :
    /\ \A i \in 1 .. d : ts[i] <= now - window
    /\ d < Len(ts) => ts[d + 1] > now - window

\* A sliding window: what fell out of it goes, and at most keep entries stay.
appendFailureTime(ts, window, keep) ==
  LET all == Append(SubSeq(ts, Dropped(ts, window) + 1, Len(ts)), now)
  IN IF Len(all) > keep THEN SubSeq(all, Len(all) - keep + 1, Len(all)) ELSE all

Tried(users) == {u \in User : users[u] # None}
Oldest(users) == {u \in Tried(users) : \A v \in Tried(users) : users[u] <= users[v]}

\* The names tried, by when each was first seen; at the limit a new name takes the place of
\* an oldest one.
NamesAfter(users, user) ==
  LET room == {[users EXCEPT ![u] = None] : u \in Oldest(users)}
      with == IF users[user] # None THEN {users}
              ELSE {[f EXCEPT ![user] = now] :
                      f \in IF Cardinality(Tried(users)) >= EnumUsers THEN room ELSE {users}}
  IN {[u \in User |-> IF f[u] # None /\ f[u] > now - EnumWindow THEN f[u] ELSE None] : f \in with}

NewTracker ==
  [first |-> now, lastSeen |-> None, lastUser |-> None, notified |-> FALSE,
   recent |-> <<>>, sustained |-> <<>>, users |-> [u \in User |-> None]]

\* Mutant: a full table takes another source in when nothing in it is idle.
OnlyIdle ==
  LET tracked == {s \in Source : failCounts[s] # None}
  IN IF Cardinality(tracked) < maxFailTrackers THEN {{}}
     ELSE {{s \in tracked : now - failCounts[s].lastSeen > BurstWindow
                            /\ now - failCounts[s].first > BurstWindow}}

\* Room for a tracker: those idle for BurstWindow go, and if that is not enough one seen
\* longest ago.
evictOldestFailTracker ==
  LET tracked == {s \in Source : failCounts[s] # None}
      idle == {s \in tracked : now - failCounts[s].lastSeen > BurstWindow
                               /\ now - failCounts[s].first > BurstWindow}
      left == tracked \ idle
      oldest == {s \in left : \A t \in left : failCounts[s].lastSeen <= failCounts[t].lastSeen}
  IN IF Cardinality(tracked) < maxFailTrackers THEN {{}}
     ELSE IF Cardinality(left) < maxFailTrackers THEN {idle}
     ELSE {idle \cup {s} : s \in oldest}

\* Several lines about one attempt are one failure.
Duplicate(tr, user) == tr.lastUser = user /\ tr.lastSeen = now

\* Mutant: a source that was reported is reported again after the short window.
RearmedEarly(tr) == tr.lastSeen # None /\ now - tr.lastSeen > BurstWindow

\* A failure after the quiet period is a new campaign.
Rearmed(tr) == tr.lastSeen # None /\ now - tr.lastSeen > SustainedWindow

Escalates(tr) ==
  /\ ~tr.notified
  /\ \/ Len(tr.recent) >= FailedBurst
     \/ Len(tr.sustained) >= SustainedBurst
     \/ Cardinality(Tried(tr.users)) >= EnumUsers

Counted(tr, user, users) ==
  [tr EXCEPT !.notified = @ /\ ~Rearmed(tr), !.lastUser = user, !.lastSeen = now,
             !.recent = appendFailureTime(@, BurstWindow, FailedBurst),
             !.sustained = appendFailureTime(@, SustainedWindow, SustainedBurst),
             !.users = users]

\* HandleBlockCandidate, up to the firewall command: a source already in the table is left
\* alone, and one the command fails for is not tried again.
Candidate(s) ==
  \/ /\ blocked[s] = None
     /\ rules' = rules \cup {s}
     /\ applying' = [source |-> s, current |-> TRUE, table |-> blocked]
     /\ excused' = excused \ {s}
  \/ UNCHANGED <<rules, applying, excused>>

\* emitSSHFailure for a line of the log.
Failure(s, user) ==
  /\ applying = None
  /\ \E gone \in IF failCounts[s] = None THEN evictOldestFailTracker ELSE {{}} :
       LET old == IF failCounts[s] = None THEN NewTracker ELSE failCounts[s]
           kept == [t \in Source |-> IF t \in gone THEN None ELSE failCounts[t]]
       IN /\ ~Duplicate(old, user)
          /\ \E users \in NamesAfter(old.users, user) :
               LET tr == Counted(old, user, users)
                   fresh == failCounts[s] = None \/ Rearmed(old)
               IN /\ failCounts' = [kept EXCEPT ![s] = [tr EXCEPT !.notified = @ \/ Escalates(tr)]]
                  /\ IF Escalates(tr) THEN Candidate(s) ELSE UNCHANGED <<rules, applying, excused>>
                  /\ counted' = [t \in Source |->
                       IF t \in gone THEN {}
                       ELSE IF t = s THEN counted[t] \cup {<<now, user>>} ELSE counted[t]]
                  /\ reported' = [reported EXCEPT ![s] =
                       (IF now - quietSince[s] > SustainedWindow \/ failCounts[s] = None THEN 0 ELSE @)
                       + (IF Escalates(tr) THEN 1 ELSE 0)]
                  /\ quietSince' = [quietSince EXCEPT ![s] = now]
  /\ UNCHANGED <<now, blocked, saved>>

-----------------------------------------------------------------------------
\* Room in the table: expired entries go, and if that is not enough the one that expires
\* first.  Their rules stay.
evictBlocked(table) ==
  LET left == {s \in Held(table) : table[s] >= now}
      first == {s \in left : \A t \in left : table[s] <= table[t]}
      Keep(S) == [s \in Source |-> IF s \in S THEN table[s] ELSE None]
  IN IF Cardinality(Held(table)) < maxBlockedIPs THEN {table}
     ELSE IF Cardinality(left) < maxBlockedIPs THEN {Keep(left)}
     ELSE {Keep(left \ {s}) : s \in first}

Excuse(S) == excused' = excused \cup S

\* HandleBlockCandidate, after the command: the entry, then the state file.  A blocker that
\* was replaced meanwhile writes its own table.
Record ==
  /\ applying # None
  /\ LET mine == IF applying.current THEN blocked ELSE applying.table
     IN \E room \in evictBlocked(mine) :
          LET table == [room EXCEPT ![applying.source] = now + BlockDuration]
          IN /\ blocked' = IF applying.current THEN table ELSE blocked
             /\ saved' = table
             /\ IF applying.current
                  THEN Excuse(Held(mine) \ Held(table))
                  ELSE Excuse({applying.source} \cup (Held(blocked) \ Held(table)))
  /\ applying' = None
  /\ UNCHANGED <<now, failCounts, rules, ghost>>

\* Mutant: an entry is dropped though its rule could not be removed.
DroppedAnyway(expired, failed) == [s \in Source |-> IF s \in expired THEN None ELSE blocked[s]]

\* The table after a round: a source whose rule stays, stays too.
Unblocked(expired, failed) ==
  [s \in Source |-> IF s \in expired \ failed THEN None ELSE blocked[s]]

\* At the end of every poll.
UnblockExpired ==
  /\ applying = None
  /\ LET expired == {s \in Held(blocked) : now > blocked[s]}
     IN \E failed \in SUBSET expired :
          /\ rules' = rules \ (expired \ failed)
          /\ blocked' = Unblocked(expired, failed)
          /\ saved' = IF blocked' = blocked THEN saved ELSE blocked'
  /\ UNCHANGED <<now, failCounts, applying, ghost, excused>>

\* Expired entries are not taken over, their rules stay.
restoreState == [s \in Source |-> IF saved[s] # None /\ saved[s] > now THEN saved[s] ELSE None]

\* New monitor and blocker.
Fresh ==
  /\ failCounts' = Nobody
  /\ blocked' = restoreState
  /\ counted' = [s \in Source |-> {}] /\ quietSince' = [s \in Source |-> now]
  /\ reported' = [s \in Source |-> 0]

\* A reconfiguration, while a scan may be between the command and the entry.
Configure ==
  /\ Fresh
  /\ applying' = IF applying = None THEN None ELSE [applying EXCEPT !.current = FALSE, !.table =
                   IF applying.current THEN blocked ELSE @]
  /\ Excuse(IF applying = None THEN Held(saved) \ Held(blocked') ELSE
              (Held(saved) \ Held(blocked')) \cup {applying.source})
  /\ UNCHANGED <<now, saved, rules>>

\* The agent ends and starts again; the rules in the kernel stay.
Restart ==
  /\ Fresh
  /\ applying' = None
  /\ Excuse((Held(saved) \ Held(blocked')) \cup (IF applying = None THEN {} ELSE {applying.source}))
  /\ UNCHANGED <<now, saved, rules>>

Tick ==
  /\ now < MaxTime
  /\ now' = now + 1
  /\ UNCHANGED <<failCounts, firewall, ghost, excused>>

Next ==
  \/ \E s \in Source, u \in User : Failure(s, u)
  \/ Record \/ UnblockExpired \/ Configure \/ Restart \/ Tick

Spec == Init /\ [][Next]_vars

-----------------------------------------------------------------------------
Within(s, window) == {f \in counted[s] : f[1] > now - window}

(* Nothing slips through the bounded windows: while a source is tracked    *)
(* and was not reported in its campaign, the failures really counted stay  *)
(* below each limit in each window                                         *)
(* (src/plugins/Kizuna-Security/plugin/monitor.go:562-570, 754-775).       *)
NothingSlipsThrough ==
  \A s \in Source :
    failCounts[s] # None /\ ~failCounts[s].notified =>
      /\ Cardinality(Within(s, BurstWindow)) < FailedBurst
      /\ Cardinality(Within(s, SustainedWindow)) < SustainedBurst

(* At most one escalation is sent per source until it has been quiet for   *)
(* the sustained window, as long as its tracker is kept                    *)
(* (monitor.go:569-570, 621-624).                                          *)
OneEscalation == \A s \in Source : reported[s] <= 1

(* An attack is reported, and reported once.                               *)
AttacksAreReported == NothingSlipsThrough /\ OneEscalation

(* A rule in the kernel is known to the blocker, which will remove it; it  *)
(* is in the state file too, so that a restart finds it.  The code loses   *)
(* track in three ways only: the table was full, a reconfiguration met a   *)
(* block under way, or the block ran out while nobody was there to remove  *)
(* it (blocker.go:217-246, 288-394).                                       *)
RulesAreTracked ==
  \A s \in rules :
    \/ blocked[s] # None /\ saved[s] # None
    \/ applying # None /\ applying.source = s
    \/ s \in excused
=============================================================================
