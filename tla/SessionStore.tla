---------------------------- MODULE SessionStore ----------------------------
(***************************************************************************)
(* The dashboard's session table (src/internal/auth/session.go).           *)
(*                                                                         *)
(* Every HTTP handler goroutine, and the reaper, is a process.  A mutating *)
(* operation changes the table under m.mu, releases it, and only then      *)
(* calls save(), which takes saveMu, snapshots the table and replaces the  *)
(* file.  The file is the only thing a crash leaves behind.                *)
(*                                                                         *)
(* Abstracted: a session is its user, the time it was last seen and the    *)
(* time it ends; role and IP play no part in the table's life cycle.       *)
(***************************************************************************)
EXTENDS Integers, FiniteSets, Functions

CONSTANTS
  Key,          \* session keys, sha256(token)
  User,         \* user names
  Guest,        \* the name every guest session carries
  Proc,         \* goroutines that call the manager
  MaxSessions,  \* m.max
  UserTTL,      \* m.ttl
  GuestTTL,     \* the shorter lifetime of a guest session
  Idle,         \* m.idle
  MaxClock      \* bound on time, for model checking only

ASSUME SessionAssumption ==
  /\ Guest \in User
  /\ MaxSessions \in Nat \ {0}
  /\ UserTTL \in Nat /\ GuestTTL \in Int /\ Idle \in Nat /\ MaxClock \in Nat

VARIABLES
  clock,     \* wall time
  sessions,  \* m.sessions, a function from the live keys
  file,      \* the records of the persistence file
  pc,        \* where each goroutine is: idle, waiting to save, writing
  snap,      \* the snapshot a writing goroutine took
  removing,  \* keys the goroutine's current operation took out of the table
  issued,    \* every key ever generated (tokens are never generated twice)
  revoked,   \* keys whose removal reached the disk
  stale      \* the last write failed, so the file lags behind on purpose

vars == <<clock, sessions, file, pc, snap, removing, issued, revoked, stale>>

Session == [user : User, seen : Nat, ends : Nat]

Empty == [k \in {} |-> 0]

IsTable(t) == DOMAIN t \subseteq Key /\ t \in [DOMAIN t -> Session]

TypeOK ==
  /\ clock \in Nat
  /\ IsTable(sessions) /\ IsTable(file)
  /\ pc \in [Proc -> {"idle", "save", "write"}]
  /\ DOMAIN snap = Proc /\ \A p \in Proc : IsTable(snap[p])
  /\ removing \in [Proc -> SUBSET Key]
  /\ issued \in SUBSET Key /\ revoked \in SUBSET Key
  /\ stale \in BOOLEAN

-----------------------------------------------------------------------------
\* now.After(ExpiresAt) || now.Sub(LastSeen) > idle
Expired(s) == clock > s.ends \/ clock - s.seen > Idle

LiveKeys(table) == {k \in DOMAIN table : ~Expired(table[k])}

\* Mutant: removing zeroes the record's LastSeen (before the epoch) and keeps it.
Tombstones(table, K) ==
  [k \in DOMAIN table |-> IF k \in K THEN [table[k] EXCEPT !.seen = -1] ELSE table[k]]

Without(table, K) == Restrict(table, DOMAIN table \ K)

\* A guest's own lifetime when one is configured, the manager's otherwise.
TTL(u) == IF u = Guest /\ GuestTTL > 0 THEN GuestTTL ELSE UserTTL

\* The least recently seen of a set of keys; ties are broken by map order.
Oldest(K) == {k \in K : \A j \in K : sessions[k].seen <= sessions[j].seen}

GuestKeys == {k \in DOMAIN sessions : sessions[k].user = Guest}

\* evictLocked: the oldest guest if there is one, else the oldest session.
Victims == IF GuestKeys # {} THEN Oldest(GuestKeys) ELSE Oldest(DOMAIN sessions)

\* What a mutating operation leaves for its save: who, and which keys it took.
Mutated(p, table, K) ==
  /\ pc[p] = "idle"
  /\ sessions' = table
  /\ removing' = [removing EXCEPT ![p] = K]
  /\ pc' = [pc EXCEPT ![p] = "save"]
  /\ UNCHANGED <<clock, file, snap, revoked, stale>>

Remove(p, K) == Mutated(p, Without(sessions, K), K) /\ UNCHANGED issued

\* Mutant: one session too many.
FullLate == Cardinality(DOMAIN sessions) > MaxSessions

Full == Cardinality(DOMAIN sessions) >= MaxSessions

\* Mutant: saves are not serialised.
NoSaveMu == TRUE

SaveMuFree == \A p \in Proc : pc[p] # "write"

\* Mutant: the file records the time of the save as LastSeen.
FreshRecords == [k \in DOMAIN sessions |-> [sessions[k] EXCEPT !.seen = clock]]

\* The records a save writes.
Records == sessions

-----------------------------------------------------------------------------
Init ==
  /\ clock = 0
  /\ sessions = Empty /\ file = Empty
  /\ pc = [p \in Proc |-> "idle"]
  /\ snap = [p \in Proc |-> Empty]
  /\ removing = [p \in Proc |-> {}]
  /\ issued = {} /\ revoked = {}
  /\ stale = FALSE

\* Create / CreateWithTTL: a fresh token, and one eviction when the table is full.
Create(p, k, u) ==
  /\ k \notin issued
  /\ issued' = issued \cup {k}
  /\ \E V \in IF Full THEN {{v} : v \in Victims} ELSE {{}} :
       LET new == [user |-> u, seen |-> clock, ends |-> clock + TTL(u)]
           kept == DOMAIN sessions \ V
       IN  Mutated(p, [j \in kept \cup {k} |-> IF j = k THEN new ELSE sessions[j]], V)

\* Get of a valid session: refreshes LastSeen in memory and saves nothing.
Touch(k) ==
  /\ k \in DOMAIN sessions
  /\ ~Expired(sessions[k])
  /\ sessions' = [sessions EXCEPT ![k].seen = clock]
  /\ UNCHANGED <<clock, file, pc, snap, removing, issued, revoked, stale>>

\* Get of an expired session: removes it and saves.
GetExpired(p, k) ==
  /\ k \in DOMAIN sessions
  /\ Expired(sessions[k])
  /\ Remove(p, {k})

\* Mutant: a logout that does not save.
DeleteUnsaved(p, k) ==
  /\ pc[p] = "idle" /\ k \in issued
  /\ sessions' = Without(sessions, {k})
  /\ UNCHANGED <<clock, file, pc, snap, removing, issued, revoked, stale>>

\* Delete (logout): saves even when another goroutine removed the key first.
Delete(p, k) == k \in issued /\ Remove(p, {k})

\* DeleteUserSessions: saves only when something was removed.
DeleteUserSessions(p, u) ==
  LET K == {k \in DOMAIN sessions : sessions[k].user = u}
  IN  K # {} /\ Remove(p, K)

DeleteAll(p) == Remove(p, DOMAIN sessions)

\* One tick of the reaper: drops what has expired and always saves.
Reap(p) == Remove(p, {k \in DOMAIN sessions : Expired(sessions[k])})

\* Stop: flushes the table to disk.
Stop(p) == Remove(p, {})

\* save, first half: take saveMu, snapshot the table under m.mu.
BeginWrite(p) ==
  /\ pc[p] = "save"
  /\ SaveMuFree
  /\ snap' = [snap EXCEPT ![p] = Records]
  /\ pc' = [pc EXCEPT ![p] = "write"]
  /\ UNCHANGED <<clock, sessions, file, removing, issued, revoked, stale>>

\* The operation is over: saveMu is released, its locals are gone.
Done(p) ==
  /\ pc' = [pc EXCEPT ![p] = "idle"]
  /\ snap' = [snap EXCEPT ![p] = Empty]
  /\ removing' = [removing EXCEPT ![p] = {}]

\* save, second half: WriteFileAtomic replaced the file; release saveMu.
EndWrite(p) ==
  /\ pc[p] = "write"
  /\ file' = snap[p]
  /\ revoked' = revoked \cup removing[p]
  /\ stale' = FALSE
  /\ Done(p)
  /\ UNCHANGED <<clock, sessions, issued>>

\* WriteFileAtomic failed: the old file stays, the error is only logged.
FailWrite(p) ==
  /\ pc[p] = "write"
  /\ stale' = TRUE
  /\ Done(p)
  /\ UNCHANGED <<clock, sessions, file, issued, revoked>>

\* The process dies anywhere and comes back: load() drops expired records.
Restart ==
  /\ sessions' = Restrict(file, LiveKeys(file))
  /\ pc' = [p \in Proc |-> "idle"]
  /\ snap' = [p \in Proc |-> Empty]
  /\ removing' = [p \in Proc |-> {}]
  /\ stale' = FALSE
  /\ UNCHANGED <<clock, file, issued, revoked>>

Tick ==
  /\ clock < MaxClock
  /\ clock' = clock + 1
  /\ UNCHANGED <<sessions, file, pc, snap, removing, issued, revoked, stale>>

Save(p) == BeginWrite(p) \/ EndWrite(p) \/ FailWrite(p)

Next ==
  \/ \E p \in Proc, k \in Key, u \in User : Create(p, k, u)
  \/ \E k \in Key : Touch(k)
  \/ \E p \in Proc, k \in Key : GetExpired(p, k)
  \/ \E p \in Proc, k \in Key : Delete(p, k)
  \/ \E p \in Proc, u \in User : DeleteUserSessions(p, u)
  \/ \E p \in Proc : DeleteAll(p)
  \/ \E p \in Proc : Reap(p)
  \/ \E p \in Proc : Stop(p)
  \/ \E p \in Proc : Save(p)
  \/ Restart
  \/ Tick

Spec == Init /\ [][Next]_vars

-----------------------------------------------------------------------------
(* A session whose removal was saved (logout, expiry, a deleted user) is    *)
(* gone for good: no later write and no restart brings it back, whatever    *)
(* the other goroutines were saving meanwhile (saveMu, session.go:61-67).   *)
RevokedIsFinal == revoked \cap (DOMAIN sessions \cup DOMAIN file) = {}

(* When every goroutine has finished its save and the last write worked,    *)
(* the file holds the live table: nothing was lost to a race between two    *)
(* saves, and what the file has beyond the table expired already.           *)
Quiet == (\A p \in Proc : pc[p] = "idle") /\ ~stale

FileIsCurrent ==
  Quiet => /\ DOMAIN sessions \subseteq DOMAIN file
           /\ \A k \in DOMAIN file \ DOMAIN sessions : Expired(file[k])

(* The file never outlives the table: a session that expired in memory is   *)
(* expired on disk too, so a restart cannot extend it.                      *)
RestartNeverExtends ==
  \A k \in DOMAIN file \cap DOMAIN sessions :
    Expired(sessions[k]) => Expired(file[k])

(* The cap on the table (a flood of guest logins must not exhaust memory)   *)
(* holds at every point, after a restart too.                               *)
Capped == Cardinality(DOMAIN sessions) <= MaxSessions

-----------------------------------------------------------------------------
(* The inductive invariant behind the safety properties.                    *)

OneWriter == \A p, q \in Proc : pc[p] = "write" /\ pc[q] = "write" => p = q

LocalsGone ==
  /\ \A p \in Proc : pc[p] # "write" => snap[p] = Empty
  /\ \A p \in Proc : pc[p] = "idle" => removing[p] = {}

Known ==
  /\ DOMAIN sessions \subseteq issued /\ DOMAIN file \subseteq issued
  /\ revoked \subseteq issued
  /\ \A p \in Proc : DOMAIN snap[p] \subseteq issued /\ removing[p] \subseteq issued

\* What an operation removed is neither in the table nor in its own snapshot.
RemovedGone ==
  \A p \in Proc : removing[p] \cap (DOMAIN sessions \cup DOMAIN snap[p]) = {}

RevokedGone ==
  /\ RevokedIsFinal
  /\ \A p \in Proc : revoked \cap DOMAIN snap[p] = {}

\* t holds the live table, and beyond it only what has expired.
Covers(t) ==
  /\ DOMAIN sessions \subseteq DOMAIN t
  /\ \A k \in DOMAIN t \ DOMAIN sessions : Expired(t[k])

\* Unless a save is still to start, the newest table is in the writer's hands
\* or, with no writer, in the file.
InFlight ==
  (\A p \in Proc : pc[p] # "save") =>
    \/ \E p \in Proc : pc[p] = "write" /\ Covers(snap[p])
    \/ (\A p \in Proc : pc[p] = "idle") /\ (stale \/ Covers(file))

\* t is an older view of the table.
Older(t) ==
  \A k \in DOMAIN t :
    /\ t[k].seen <= clock
    /\ k \in DOMAIN sessions =>
         t[k].seen <= sessions[k].seen /\ t[k].ends = sessions[k].ends

ViewsAreOlder ==
  Older(sessions) /\ Older(file) /\ \A p \in Proc : Older(snap[p])

IInv ==
  /\ TypeOK /\ OneWriter /\ LocalsGone /\ Known
  /\ RemovedGone /\ RevokedGone /\ InFlight /\ ViewsAreOlder
=============================================================================
