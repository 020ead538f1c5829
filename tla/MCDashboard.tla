----------------------------- MODULE MCDashboard -----------------------------
(* Three parts of the dashboard that share nothing, one of them at a time:  *)
(*   sessions  two goroutines, tokens enough for one eviction;              *)
(*   presence  two agent connections that come and go;                      *)
(*   history   without a file: room for four alerts, seven alerts of six    *)
(*             kinds; with a failing or a sound disk: room for two, six or  *)
(*             seven alerts of three kinds, a file of four lines before it  *)
(*             is compacted.                                                *)
EXTENDS Dashboard, TLC

CONSTANTS k1, k2, k3, alice, guest, p1, p2, c1, c2, Part

MCKey == {k1, k2, k3}
MCUser == {alice, guest}
MCProc == {p1, p2}
MCConn == {c1, c2}

Alert(key, type, weight, trusted) ==
  [key |-> key, type |-> type, weight |-> weight, trusted |-> trusted]

MCKind ==
  {Alert("mem1", "memory", 2, TRUE), Alert("mem2", "memory", 2, TRUE), Alert("mem3", "memory", 3, TRUE),
   Alert("ssh1", "ssh", 3, FALSE), Alert("login", "login", 2, FALSE), Alert("audit", "audit", 1, TRUE)}

Memory == [max |-> 4, disk |-> "none", kinds |-> MCKind, arrivals |-> 7]
File ==
  [max |-> 2, disk |-> "failing", arrivals |-> 6,
   kinds |-> {k \in MCKind : k.key \in {"mem1", "ssh1", "login"}}]
AllSetups == {Memory, File, [File EXCEPT !.disk = "sound", !.arrivals = 7]}
MemoryOnly == {Memory}

VARIABLE part

MCInit ==
  /\ Init /\ Presence!Init
  /\ part \in Part
  \* The setups differ in the history alone.
  /\ History!Init /\ (part # "history" => setup = Memory)

MCNext ==
  /\ UNCHANGED part
  /\ \/ part = "sessions" /\ Next /\ UNCHANGED <<presence, history>>
     \/ part = "presence" /\ Presence!Next /\ UNCHANGED <<vars, history>>
     \/ part = "history" /\ History!Next /\ UNCHANGED <<vars, presence>>

MCSpec == MCInit /\ [][MCNext]_<<part, vars, presence, history>>

Symmetry == Permutations(MCConn)
==============================================================================
