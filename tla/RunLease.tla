------------------------------ MODULE RunLease ------------------------------
(***************************************************************************)
(* What the run guard of the dashboard promises about manual runs of a     *)
(* plugin (src/internal/api/plugins.go, the comments at 24-27 and          *)
(* 392-395), without saying how: a plugin's lease belongs to one run at a  *)
(* time, it passes on only when that run is over or has held it for the    *)
(* whole timeout, and nobody else's end takes it away.                     *)
(***************************************************************************)
EXTENDS Integers

CONSTANTS
  Plugin,
  Timeout,   \* after this long a lease may be granted anew
  Free       \* no lease

VARIABLES
  lease,     \* per plugin: Free, or the run it belongs to and its age
  granted,   \* runs that ever held a lease
  over       \* runs that have ended, or never will begin

vars == <<lease, granted, over>>

Init ==
  /\ lease = [p \in Plugin |-> Free]
  /\ granted = {} /\ over = {}

Grantable(p) == lease[p] = Free \/ lease[p].age >= Timeout

\* A fresh run takes the lease.
Grant(p) ==
  /\ Grantable(p)
  /\ \E i \in granted' \ granted :
       /\ lease' = [lease EXCEPT ![p] = [id |-> i, age |-> 0]]
       /\ granted' = granted \cup {i}
  /\ UNCHANGED over

\* Runs end; which and when is not the guard's affair.
End ==
  /\ over \subseteq over' /\ over' \subseteq granted
  /\ UNCHANGED <<lease, granted>>

\* The lease goes back because the run that holds it is over, possibly in the same step.
Return(p) ==
  /\ lease[p] # Free
  /\ lease' = [lease EXCEPT ![p] = Free]
  /\ over \subseteq over' /\ over' \subseteq granted
  /\ lease[p].id \in over'
  /\ UNCHANGED granted

\* The dashboard restarts: leases live in memory only.
Lose ==
  /\ lease' = [p \in Plugin |-> Free]
  /\ over \subseteq over' /\ over' \subseteq granted
  /\ UNCHANGED granted

Older(l) == IF l = Free \/ l.age >= Timeout THEN l ELSE [l EXCEPT !.age = @ + 1]

Tick ==
  /\ lease' = [p \in Plugin |-> Older(lease[p])]
  /\ UNCHANGED <<granted, over>>

Next == (\E p \in Plugin : Grant(p) \/ Return(p)) \/ End \/ Lose \/ Tick

Spec == Init /\ [][Next]_vars
=============================================================================
