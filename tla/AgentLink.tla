------------------------------ MODULE AgentLink ------------------------------
(***************************************************************************)
(* Manual plugin runs: the handler and the run guard of the dashboard      *)
(* (src/internal/api/plugins.go), the agent's connection with the commands *)
(* and results on it (src/cmd/dashboard/main.go, src/cmd/agent/main.go),   *)
(* and the runs on the agent.                                              *)
(*                                                                         *)
(* A connection is a number.  A run writes its result to the connection    *)
(* its command came in on, also when that one is long gone.  A broken      *)
(* connection loses what is on it, and each side notices on its own.       *)
(***************************************************************************)
EXTENDS Integers, FiniteSets

CONSTANTS
  Plugin,          \* plugins whose meta says is_backup
  None,            \* no entry in p.running
  runGuardTimeout, \* in ticks
  MaxRequests,     \* bound on request IDs
  MaxConns         \* bound on connections

ASSUME LinkAssumption ==
  /\ runGuardTimeout \in Nat \ {0} /\ MaxRequests \in Nat /\ MaxConns \in Nat

VARIABLES
  running,   \* p.running: per plugin None or [id, age]
  requests,  \* request IDs generated so far
  handlers,  \* handleRunPlugin between acquireRun and SendToAgent
  agentConn, \* h.agentConn, 0 for nil
  conn,      \* the connection runAgent works on, 0 between two of them
  conns,     \* connections made so far
  intact,    \* the last connection still carries what is written to it
  commands,  \* run_backup commands on the wire
  runs,      \* RunBackup goroutines on the agent
  results,   \* backup_result events on the wire
  over,      \* requests whose run ended or will never begin
  orphans    \* requests that lost their guard to the timeout or to a restart

dash == <<running, requests, handlers, agentConn>>
vars == <<dash, conn, conns, intact, commands, runs, results, over, orphans>>

Request == [plugin : Plugin, id : 1 .. MaxRequests]
Message == [plugin : Plugin, id : 1 .. MaxRequests, conn : 1 .. MaxConns]
runGuard == [id : 1 .. MaxRequests, age : 0 .. runGuardTimeout]

ASSUME NoneAssumption == None \notin runGuard

TypeOK ==
  /\ running \in [Plugin -> runGuard \cup {None}]
  /\ requests \in 0 .. MaxRequests
  /\ handlers \subseteq Request
  /\ conns \in 0 .. MaxConns /\ agentConn \in 0 .. conns /\ conn \in {0, conns}
  /\ intact \in BOOLEAN
  /\ commands \subseteq Message /\ runs \subseteq Message /\ results \subseteq Message
  /\ over \subseteq 1 .. requests /\ orphans \subseteq 1 .. requests

Init ==
  /\ running = [p \in Plugin |-> None] /\ requests = 0 /\ handlers = {}
  /\ agentConn = 0 /\ conn = 0 /\ conns = 0 /\ intact = FALSE
  /\ commands = {} /\ runs = {} /\ results = {}
  /\ over = {} /\ orphans = {}

Guarded(p) == running[p] # None

\* Mutant: one tick early.
StaleEarly(p) == running[p].age >= runGuardTimeout - 1

\* An entry this old does not protect any more.
Stale(p) == running[p].age >= runGuardTimeout

\* A click on "run": a second one is refused while the first is guarded.
acquireRun(p) ==
  /\ requests < MaxRequests
  /\ Guarded(p) => Stale(p)
  /\ requests' = requests + 1
  /\ running' = [running EXCEPT ![p] = [id |-> requests', age |-> 0]]
  /\ handlers' = handlers \cup {[plugin |-> p, id |-> requests']}
  /\ orphans' = orphans \cup (IF Guarded(p) THEN {running[p].id} ELSE {})
  /\ UNCHANGED <<agentConn, conn, conns, intact, commands, runs, results, over>>

\* Mutant: any result of the plugin releases its guard.
ReleasedByAny(p, i) == [running EXCEPT ![p] = None]

\* Only the run that holds the guard releases it.
releaseRun(p, i) ==
  IF Guarded(p) /\ running[p].id = i THEN [running EXCEPT ![p] = None] ELSE running

On(r, c) == [plugin |-> r.plugin, id |-> r.id, conn |-> c]

\* The command is written, and arrives unless the connection is broken, though the write
\* succeeds.
Send(r) ==
  /\ handlers' = handlers \ {r}
  /\ \/ /\ agentConn # 0
        /\ IF intact /\ agentConn = conns
             THEN commands' = commands \cup {On(r, agentConn)} /\ UNCHANGED over
             ELSE over' = over \cup {r.id} /\ UNCHANGED commands
        /\ UNCHANGED running
     \/ /\ agentConn = 0 \/ ~intact
        /\ running' = releaseRun(r.plugin, r.id)
        /\ over' = over \cup {r.id}
        /\ UNCHANGED commands
  /\ UNCHANGED <<requests, agentConn, conn, conns, intact, runs, results, orphans>>

\* What becomes of a result written to connection c.
Delivered(r, c) == IF intact /\ c = conns THEN {On(r, c)} ELSE {}

\* The agent reads a command.  An unknown plugin and one that cannot run are answered at
\* once, the rest by a goroutine.
handleDashboardCommand(m) ==
  /\ conn = m.conn
  /\ commands' = commands \ {m}
  /\ \/ runs' = runs \cup {m} /\ UNCHANGED <<results, over>>
     \/ /\ results' = results \cup Delivered(m, m.conn)
        /\ over' = over \cup {m.id}
        /\ UNCHANGED runs
  /\ UNCHANGED <<dash, conn, conns, intact, orphans>>

\* RunBackup returns or panics; sendBackupResult writes to the connection of the command.
sendBackupResult(m) ==
  /\ runs' = runs \ {m}
  /\ results' = results \cup Delivered(m, m.conn)
  /\ over' = over \cup {m.id}
  /\ UNCHANGED <<dash, conn, conns, intact, commands, orphans>>

\* The reader of the connection passes the event on.
HandleAgentEvent(m) ==
  /\ agentConn = m.conn
  /\ results' = results \ {m}
  /\ running' = releaseRun(m.plugin, m.id)
  /\ UNCHANGED <<requests, handlers, agentConn, conn, conns, intact, commands, runs, over, orphans>>

Ids(S) == {m.id : m \in S}

\* The network, or one of the two ends, takes the connection down, and what was on it.
Broken ==
  /\ intact' = FALSE
  /\ commands' = {} /\ results' = {}

Break ==
  /\ intact /\ Broken
  /\ over' = over \cup Ids(commands)
  /\ UNCHANGED <<dash, conn, conns, runs, orphans>>

\* A write of the agent fails, or the reader of the dashboard ends.
AgentNotices ==
  /\ conn # 0 /\ ~intact
  /\ conn' = 0
  /\ UNCHANGED <<dash, conns, intact, commands, runs, results, over, orphans>>

DashboardNotices ==
  /\ agentConn # 0 /\ ~intact
  /\ agentConn' = 0
  /\ UNCHANGED <<running, requests, handlers, conn, conns, intact, commands, runs, results, over, orphans>>

\* runAgent dials again.  While the dashboard has not noticed, MarkAgentConn refuses.
Dial ==
  /\ conn = 0 /\ agentConn = 0 /\ conns < MaxConns
  /\ conns' = conns + 1 /\ conn' = conns' /\ agentConn' = conns' /\ intact' = TRUE
  /\ UNCHANGED <<running, requests, handlers, commands, runs, results, over, orphans>>

\* p.running and the handlers are gone with the process.
RestartDashboard ==
  /\ running' = [p \in Plugin |-> None]
  /\ handlers' = {} /\ agentConn' = 0
  /\ Broken
  /\ over' = over \cup Ids(commands) \cup Ids(handlers)
  /\ orphans' = orphans \cup {running[p].id : p \in {q \in Plugin : Guarded(q)}}
  /\ UNCHANGED <<requests, conn, conns, runs>>

\* The runs end with the agent, and nobody reports them.
RestartAgent ==
  /\ runs' = {} /\ conn' = 0
  /\ Broken
  /\ over' = over \cup Ids(commands) \cup Ids(runs)
  /\ UNCHANGED <<dash, conns, orphans>>

Aged(g) == IF g = None \/ g.age = runGuardTimeout THEN g ELSE [g EXCEPT !.age = @ + 1]

Tick ==
  /\ running' = [p \in Plugin |-> Aged(running[p])]
  /\ UNCHANGED <<requests, handlers, agentConn, conn, conns, intact, commands, runs, results, over, orphans>>

Next ==
  \/ \E p \in Plugin : acquireRun(p)
  \/ \E r \in handlers : Send(r)
  \/ \E m \in commands : handleDashboardCommand(m)
  \/ \E m \in runs : sendBackupResult(m)
  \/ \E m \in results : HandleAgentEvent(m)
  \/ Break \/ AgentNotices \/ DashboardNotices \/ Dial
  \/ RestartDashboard \/ RestartAgent \/ Tick

Spec == Init /\ [][Next]_vars

-----------------------------------------------------------------------------
\* Where a request that may still run can be.
Alive == handlers \cup commands \cup runs

(* Two runs of one plugin at the same time, started or on their way, mean  *)
(* that one of them outlived its guard: it held it for the whole timeout,  *)
(* or the dashboard restarted (src/internal/api/plugins.go:378-390).       *)
OverlapIsExcused ==
  \A m, n \in Alive :
    m.plugin = n.plugin /\ m.id # n.id => m.id \in orphans \/ n.id \in orphans

(* A plugin whose run is under way stays guarded by that run's request     *)
(* until its result is in, unless the request is an orphan: no result of   *)
(* another run, late or superseded, opens it to a second run               *)
(* (src/internal/api/plugins.go:392-407).                                  *)
GuardFollowsRun ==
  \A m \in Alive \cup results :
    m.id \notin orphans => Guarded(m.plugin) /\ running[m.plugin].id = m.id

\* The guard is the abstract lease; a stale entry is one that may be granted anew.
Lease ==
  INSTANCE RunLease WITH Timeout <- runGuardTimeout, Free <- None,
    lease <- running, granted <- 1 .. requests

(* The guard, with its handlers, connections, restarts and lost messages,  *)
(* implements the lease (src/internal/api/plugins.go:24-27, 378-425).      *)
ImplementsLease == Lease!Spec
=============================================================================
