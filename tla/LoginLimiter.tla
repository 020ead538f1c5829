----------------------------- MODULE LoginLimiter -----------------------------
(***************************************************************************)
(* The throttle of failed logins (src/internal/auth/ratelimit.go) between  *)
(* the handlers that use it (handlers.go: handleLogin; handleGuestLogin    *)
(* counts every call).  A handler asks Allow, checks the password without  *)
(* the lock, and then records what came of it, so attempts that were let   *)
(* in together are recorded together.  Ages and times left are in ticks.   *)
(***************************************************************************)
EXTENDS Integers, FiniteSets

CONSTANTS
  Address, Attempt,
  max, window, lockout,     \* newLoginLimiter
  maxLimiterEntries,
  None

LimiterBounds ==
  /\ max \in Nat \ {0} /\ window \in Nat \ {0} /\ lockout \in Nat \ {0}
  /\ maxLimiterEntries \in Nat \ {0}
  /\ None \notin Address /\ None \notin [count : Int, age : Int, left : Int]

VARIABLES
  attempts,   \* l.attempts: None, or count, the age of firstAt, the time to lockedTill
  checking,   \* the address of each attempt whose password is being checked, None otherwise
  \* Kept apart from the limiter's own state:
  promised,   \* the time left of the lockout each address was given
  slipped     \* an attempt was let in during a lockout nothing had taken back

vars == <<attempts, checking, promised, slipped>>

\* lockedTill: Zero is the zero time, 0 a time that has come.
Zero == -1
Info == [count : 0 .. max + Cardinality(Attempt), age : 0 .. window + 1, left : Zero .. lockout]

TypeOK ==
  /\ attempts \in [Address -> Info \cup {None}]
  /\ Cardinality({ip \in Address : attempts[ip] # None}) <= maxLimiterEntries
  /\ checking \in [Attempt -> Address \cup {None}]
  /\ promised \in [Address -> 0 .. lockout]
  /\ slipped \in BOOLEAN

Init ==
  /\ attempts = [ip \in Address |-> None] /\ checking = [a \in Attempt |-> None]
  /\ promised = [ip \in Address |-> 0]
  /\ slipped = FALSE

Fresh == [count |-> 0, age |-> 0, left |-> Zero]
WindowOver(i) == i.age > window
Expired(i) == i.left <= 0 /\ WindowOver(i)

Locked(i) == i.left > 0

\* What Allow leaves of the entry of an address it lets in.
Admitted(i) ==
  CASE i.left # Zero -> Fresh
    [] i.left = Zero /\ WindowOver(i) -> None
    [] OTHER -> i

\* Allow: an attempt is let in, or turned away.
Allow(a, ip) ==
  /\ checking[a] = None
  /\ attempts[ip] # None => ~Locked(attempts[ip])
  /\ checking' = [checking EXCEPT ![a] = ip]
  /\ attempts' = IF attempts[ip] = None THEN attempts ELSE [attempts EXCEPT ![ip] = Admitted(@)]
  /\ slipped' = (slipped \/ promised[ip] > 0)
  /\ UNCHANGED promised

\* One more failure, in the window of the first or in one of its own.
Counted(i) ==
  LET base == IF i = None \/ WindowOver(i) THEN Fresh ELSE i
      n == base.count + 1
  IN [base EXCEPT !.count = n, !.left = IF n >= max THEN lockout ELSE @]

\* evictLocked: what has expired goes, and the oldest entries when that is not enough.
Kept(m) ==
  LET live == {ip \in Address : m[ip] # None}
      fresh == {ip \in live : ~Expired(m[ip])}
  IN IF Cardinality(live) <= maxLimiterEntries THEN {live}
     ELSE IF Cardinality(fresh) <= maxLimiterEntries THEN {fresh}
     ELSE {s \in SUBSET fresh : /\ Cardinality(s) = maxLimiterEntries
                                /\ \A x \in s, y \in fresh \ s : m[y].age >= m[x].age}

\* RecordFailure: the password was wrong.  An entry whose window is over is
\* replaced, a lockout it may still hold with it.
RecordFailure(a) ==
  LET ip == checking[a]
      m == [attempts EXCEPT ![ip] = Counted(@)]
      late == attempts[ip] # None /\ WindowOver(attempts[ip])
  IN /\ ip # None
     /\ checking' = [checking EXCEPT ![a] = None]
     /\ \E keep \in Kept(m) :
          /\ attempts' = [x \in Address |-> IF x \in keep THEN m[x] ELSE None]
          /\ promised' = [x \in Address |->
               IF x \notin keep THEN 0
               ELSE IF x = ip THEN (IF m[ip].left = lockout THEN lockout ELSE IF late THEN 0 ELSE promised[ip])
               ELSE promised[x]]
     /\ UNCHANGED slipped

\* Reset: the password was right; the address starts anew.
Reset(a) ==
  LET ip == checking[a]
  IN /\ ip # None
     /\ checking' = [checking EXCEPT ![a] = None]
     /\ attempts' = [attempts EXCEPT ![ip] = None]
     /\ promised' = [promised EXCEPT ![ip] = 0]
     /\ UNCHANGED slipped

\* Mutant: the reaper looks at the window alone.
OldOnly(i) == WindowOver(i)
Stale(i) == Expired(i)

reaper ==
  LET gone == {ip \in Address : attempts[ip] # None /\ Stale(attempts[ip])}
  IN /\ gone # {}
     /\ attempts' = [ip \in Address |-> IF ip \in gone THEN None ELSE attempts[ip]]
     /\ UNCHANGED <<checking, promised, slipped>>

Tick ==
  /\ attempts' = [ip \in Address |->
       IF attempts[ip] = None THEN None
       ELSE LET i == attempts[ip]
            IN [i EXCEPT !.age = IF @ > window THEN @ ELSE @ + 1, !.left = IF @ > 0 THEN @ - 1 ELSE @]]
  /\ promised' = [ip \in Address |-> IF promised[ip] > 0 THEN promised[ip] - 1 ELSE 0]
  /\ UNCHANGED <<checking, slipped>>

Next ==
  \/ \E a \in Attempt, ip \in Address : Allow(a, ip)
  \/ \E a \in Attempt : RecordFailure(a) \/ Reset(a)
  \/ reaper \/ Tick

Spec == Init /\ [][Next]_vars

(* An address that was locked out is not let in before the lockout is over,
   whichever order the attempts under way, the reaper and the clock come in,
   unless a login from it succeeded, the table was full, or a late failure
   opened a new window (Allow, RecordFailure, Reset, evictLocked, reaper). *)
LockoutIsKept == ~slipped
================================================================================
