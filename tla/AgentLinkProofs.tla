--------------------------- MODULE AgentLinkProofs ---------------------------
(***************************************************************************)
(* Proofs about AgentLink, for any number of plugins, requests and         *)
(* connections.  A request is in one place at a time, which is why the     *)
(* guard that a result gives back is the guard of its own run; from that   *)
(* follow both that overlapping runs are excused and that the run guard    *)
(* implements the abstract lease.                                          *)
(***************************************************************************)
EXTENDS AgentLink, TLAPS

OnTheWay == commands \cup runs \cup results

\* Every number in use was given out.
IdsAreRequests ==
  /\ \A m \in handlers \cup OnTheWay : m.id <= requests
  /\ \A p \in Plugin : Guarded(p) => running[p].id <= requests

\* A request is with its handler, on its way to the agent, running, or on its way back.
OnePlace ==
  /\ \A m, n \in handlers : m.id = n.id => m = n
  /\ \A m, n \in OnTheWay : m.id = n.id => m = n
  /\ \A m \in handlers, n \in OnTheWay : m.id # n.id
  /\ commands \cap runs = {} /\ commands \cap results = {} /\ runs \cap results = {}

\* What comes back is over.
ResultsAreOver == \A m \in results : m.id \in over

Inv == TypeOK /\ IdsAreRequests /\ OnePlace /\ ResultsAreOver /\ GuardFollowsRun

-----------------------------------------------------------------------------
\* Nothing has happened yet.
LEMMA InitInv == Init => Inv
<1> SUFFICES ASSUME Init PROVE Inv
  OBVIOUS
<1>1. TypeOK
  <2>1. running \in [Plugin -> runGuard \cup {None}]
    BY DEF Init
  <2>2. 0 \in 0 .. MaxRequests /\ 0 \in 0 .. MaxConns /\ 0 \in 0 .. 0
    BY LinkAssumption
  <2> QED
    BY <2>1, <2>2 DEF Init, TypeOK
<1>2. IdsAreRequests
  BY DEF Init, IdsAreRequests, OnTheWay, Guarded
<1>3. OnePlace /\ ResultsAreOver /\ GuardFollowsRun
  BY DEF Init, OnePlace, OnTheWay, ResultsAreOver, GuardFollowsRun, Alive
<1> QED
  BY <1>1, <1>2, <1>3 DEF Inv

\* What is left of the guards when a run gives its own back.
LEMMA Released ==
  ASSUME TypeOK, NEW p \in Plugin, NEW i
  PROVE  /\ releaseRun(p, i) \in [Plugin -> runGuard \cup {None}]
         /\ \A q \in Plugin : releaseRun(p, i)[q] = running[q]
                              \/ (releaseRun(p, i)[q] = None /\ q = p /\ running[q].id = i)
BY DEF TypeOK, releaseRun, Guarded

\* A result goes where its run's command came from, or nowhere.
LEMMA DeliveredOnce ==
  ASSUME TypeOK, NEW m \in commands \cup runs
  PROVE  Delivered(m, m.conn) \subseteq {m}
<1>1. On(m, m.conn) = m
  BY DEF TypeOK, Message, On
<1> QED
  BY <1>1 DEF Delivered

-----------------------------------------------------------------------------
\* A click on "run" keeps the invariant: its number is new.
LEMMA AcquireStep ==
  ASSUME Inv, NEW p \in Plugin, acquireRun(p)
  PROVE  Inv'
<1> DEFINE r == [plugin |-> p, id |-> requests + 1]
<1> USE DEF Inv
<1>1. requests \in Nat /\ requests + 1 \in 1 .. MaxRequests /\ r \in Request
  BY LinkAssumption DEF TypeOK, acquireRun, Request
<1>2. [id |-> requests + 1, age |-> 0] \in runGuard
  BY <1>1, LinkAssumption DEF runGuard
<1>3. /\ handlers' = handlers \cup {r} /\ OnTheWay' = OnTheWay
      /\ running' = [running EXCEPT ![p] = [id |-> requests + 1, age |-> 0]]
      /\ requests' = requests + 1 /\ orphans \subseteq orphans'
  BY DEF acquireRun, OnTheWay
<1>4. orphans' \subseteq 1 .. requests'
  <2>1. orphans \subseteq 1 .. requests'
    BY <1>1, <1>3 DEF TypeOK
  <2>2. Guarded(p) => running[p].id \in 1 .. requests'
    BY <1>1, <1>3 DEF TypeOK, IdsAreRequests, Guarded, runGuard
  <2> QED
    BY <2>1, <2>2 DEF acquireRun
<1>5. TypeOK'
  BY <1>1, <1>2, <1>3, <1>4, LinkAssumption DEF TypeOK, acquireRun
<1>6. IdsAreRequests'
  BY <1>1, <1>3 DEF IdsAreRequests, TypeOK, Request, Message, OnTheWay, runGuard, Guarded
<1>7. \A m \in handlers \cup OnTheWay : m.id # requests + 1
  BY <1>1 DEF IdsAreRequests, TypeOK, Request, Message, OnTheWay
<1>8. OnePlace'
  BY <1>3, <1>7 DEF OnePlace, acquireRun
<1>9. ResultsAreOver'
  BY DEF acquireRun, ResultsAreOver
<1>10. GuardFollowsRun'
  <2> SUFFICES ASSUME NEW m \in (Alive \cup results)', m.id \notin orphans'
               PROVE  Guarded(m.plugin)' /\ running'[m.plugin].id = m.id
    BY DEF GuardFollowsRun
  <2>1. CASE m = r
    BY <1>2, <1>3, <2>1, NoneAssumption DEF TypeOK, Guarded
  <2>2. CASE m # r
    <3>1. m \in Alive \cup results /\ m.plugin \in Plugin
      BY <1>3, <2>2 DEF Alive, acquireRun, TypeOK, Request, Message
    <3>2. Guarded(m.plugin) /\ running[m.plugin].id = m.id
      BY <1>3, <3>1 DEF GuardFollowsRun
    <3>3. m.plugin # p
      BY <3>2 DEF acquireRun
    <3> QED
      BY <1>3, <3>1, <3>2, <3>3 DEF Guarded, TypeOK
  <2> QED
    BY <2>1, <2>2
<1> QED
  BY <1>5, <1>6, <1>8, <1>9, <1>10

\* A handler sends its command or gives its guard back.
LEMMA SendStep ==
  ASSUME Inv, NEW r \in handlers, Send(r)
  PROVE  Inv'
<1> USE DEF Inv
<1>1. r \in Request /\ r.plugin \in Plugin /\ r.id \in 1 .. requests
  BY DEF TypeOK, Request, IdsAreRequests
<1>2. /\ handlers' = handlers \ {r} /\ runs' = runs /\ results' = results
      /\ requests' = requests /\ orphans' = orphans
      /\ over \subseteq over' /\ over' \subseteq over \cup {r.id}
      /\ running' = running \/ running' = releaseRun(r.plugin, r.id)
  BY DEF Send
<1>3. commands' = commands \/ (/\ commands' = commands \cup {On(r, agentConn)}
                               /\ running' = running /\ On(r, agentConn) \in Message)
  BY <1>1 DEF Send, On, TypeOK, Message, Request
<1>4. running' \in [Plugin -> runGuard \cup {None}]
      /\ \A q \in Plugin : running'[q] = running[q]
                           \/ (running'[q] = None /\ q = r.plugin /\ running[q].id = r.id)
  BY <1>1, <1>2, Released DEF TypeOK
<1>5. TypeOK'
  BY <1>1, <1>2, <1>3, <1>4 DEF TypeOK, Send
<1>6. IdsAreRequests'
  BY <1>1, <1>2, <1>3, <1>4 DEF IdsAreRequests, OnTheWay, On, Guarded
<1>7. OnePlace'
  BY <1>1, <1>2, <1>3 DEF OnePlace, OnTheWay, On
<1>8. ResultsAreOver'
  BY <1>2 DEF ResultsAreOver
<1>9. GuardFollowsRun'
  <2> SUFFICES ASSUME NEW m \in (Alive \cup results)', m.id \notin orphans'
               PROVE  Guarded(m.plugin)' /\ running'[m.plugin].id = m.id
    BY DEF GuardFollowsRun
  <2>1. CASE m \in Alive \cup results /\ m # r
    <3>1. m.plugin \in Plugin /\ Guarded(m.plugin) /\ running[m.plugin].id = m.id
      BY <1>2, <2>1 DEF GuardFollowsRun, Alive, TypeOK, Request, Message
    <3>2. m.id # r.id
      BY <2>1 DEF OnePlace, OnTheWay, Alive
    <3>3. running'[m.plugin] = running[m.plugin]
      BY <1>4, <3>1, <3>2
    <3> QED
      BY <3>1, <3>3 DEF Guarded
  <2>2. CASE m = On(r, agentConn) /\ running' = running
    <3>1. r \in Alive /\ r.id \notin orphans
      BY <1>2, <2>2 DEF Alive, On
    <3> QED
      BY <2>2, <3>1 DEF GuardFollowsRun, Guarded, On
  <2>3. m \in (Alive \cup results) \ {r} \/ (m = On(r, agentConn) /\ running' = running)
    <3>1. r \notin commands \cup runs \cup results
      BY DEF OnePlace, OnTheWay
    <3> QED
      BY <1>2, <1>3, <3>1 DEF Alive
  <2> QED
    BY <2>1, <2>2, <2>3
<1> QED
  BY <1>5, <1>6, <1>7, <1>8, <1>9

\* A command becomes a run, or is answered at once.
LEMMA CommandStep ==
  ASSUME Inv, NEW m \in commands, handleDashboardCommand(m)
  PROVE  Inv'
<1> USE DEF Inv
<1>1. m \in Message /\ m.id \in 1 .. requests /\ Delivered(m, m.conn) \subseteq {m}
  BY DeliveredOnce DEF TypeOK, Message, IdsAreRequests, OnTheWay
<1>2. /\ commands' = commands \ {m}
      /\ \/ runs' = runs \cup {m} /\ results' = results /\ over' = over
         \/ runs' = runs /\ results' \subseteq results \cup {m} /\ over' = over \cup {m.id}
      /\ UNCHANGED <<dash, conn, conns, intact, orphans>>
  BY <1>1 DEF handleDashboardCommand
<1>3. TypeOK'
  BY <1>1, <1>2 DEF TypeOK, dash
<1>4. IdsAreRequests'
  BY <1>2 DEF IdsAreRequests, OnTheWay, dash, Guarded
<1>5. OnePlace'
  BY <1>2 DEF OnePlace, OnTheWay, dash
<1>6. ResultsAreOver'
  BY <1>2 DEF ResultsAreOver, OnePlace
<1>7. GuardFollowsRun'
  BY <1>2 DEF GuardFollowsRun, Alive, Guarded, dash
<1> QED
  BY <1>3, <1>4, <1>5, <1>6, <1>7

\* A run ends and its result is written.
LEMMA ResultStep ==
  ASSUME Inv, NEW m \in runs, sendBackupResult(m)
  PROVE  Inv'
<1> USE DEF Inv
<1>1. m \in Message /\ m.id \in 1 .. requests /\ Delivered(m, m.conn) \subseteq {m}
  BY DeliveredOnce DEF TypeOK, Message, IdsAreRequests, OnTheWay
<1>2. /\ runs' = runs \ {m} /\ results' \subseteq results \cup {m} /\ commands' = commands
      /\ over' = over \cup {m.id}
      /\ UNCHANGED <<dash, conn, conns, intact, orphans>>
  BY <1>1 DEF sendBackupResult
<1>3. TypeOK'
  BY <1>1, <1>2 DEF TypeOK, dash
<1>4. IdsAreRequests'
  BY <1>2 DEF IdsAreRequests, OnTheWay, dash, Guarded
<1>5. OnePlace'
  BY <1>2 DEF OnePlace, OnTheWay, dash
<1>6. ResultsAreOver' /\ GuardFollowsRun'
  BY <1>2 DEF ResultsAreOver, GuardFollowsRun, Alive, Guarded, dash
<1> QED
  BY <1>3, <1>4, <1>5, <1>6

\* A result releases the guard of its own run at most.
LEMMA EventStep ==
  ASSUME Inv, NEW m \in results, HandleAgentEvent(m)
  PROVE  Inv'
<1> USE DEF Inv
<1>1. m.plugin \in Plugin
  BY DEF TypeOK, Message
<1>2. /\ results' = results \ {m} /\ running' = releaseRun(m.plugin, m.id)
      /\ UNCHANGED <<requests, handlers, agentConn, conn, conns, intact, commands, runs, over, orphans>>
  BY DEF HandleAgentEvent
<1>3. running' \in [Plugin -> runGuard \cup {None}]
      /\ \A q \in Plugin : running'[q] = running[q]
                           \/ (running'[q] = None /\ q = m.plugin /\ running[q].id = m.id)
  BY <1>1, <1>2, Released
<1>4. TypeOK'
  BY <1>2, <1>3 DEF TypeOK
<1>5. IdsAreRequests' /\ OnePlace' /\ ResultsAreOver'
  BY <1>2, <1>3 DEF IdsAreRequests, OnePlace, ResultsAreOver, OnTheWay, Guarded
<1>6. GuardFollowsRun'
  <2> SUFFICES ASSUME NEW n \in (Alive \cup results)', n.id \notin orphans'
               PROVE  Guarded(n.plugin)' /\ running'[n.plugin].id = n.id
    BY DEF GuardFollowsRun
  <2>1. n \in Alive \cup results /\ n # m /\ n.plugin \in Plugin
    BY <1>2 DEF Alive, OnePlace, TypeOK, Request, Message, OnTheWay
  <2>2. n.id # m.id
    BY <2>1 DEF OnePlace, OnTheWay, Alive
  <2> QED
    BY <1>2, <1>3, <2>1, <2>2 DEF GuardFollowsRun, Guarded
<1> QED
  BY <1>4, <1>5, <1>6

\* Connections come and go, and take along what was on them.
LEMMA NetworkStep ==
  ASSUME Inv, Break \/ AgentNotices \/ DashboardNotices \/ Dial
  PROVE  Inv'
<1> USE DEF Inv
<1>1. /\ UNCHANGED <<running, requests, handlers, runs, orphans>>
      /\ commands' \subseteq commands /\ results' \subseteq results
      /\ over \subseteq over' /\ over' \subseteq over \cup Ids(commands)
  BY DEF Break, Broken, AgentNotices, DashboardNotices, Dial, dash
<1>2. Ids(commands) \subseteq 1 .. requests
  BY DEF Ids, TypeOK, Message, IdsAreRequests, OnTheWay
<1>3. /\ conns' \in 0 .. MaxConns /\ agentConn' \in 0 .. conns' /\ conn' \in {0, conns'}
      /\ intact' \in BOOLEAN
  <2>1. conns \in Nat /\ MaxConns \in Nat /\ 0 \in 0 .. conns
    BY LinkAssumption DEF TypeOK
  <2>2. CASE Break \/ AgentNotices \/ DashboardNotices
    BY <2>1, <2>2 DEF TypeOK, Break, Broken, AgentNotices, DashboardNotices, dash
  <2>3. CASE Dial
    <3>1. conns + 1 \in 0 .. MaxConns /\ conns + 1 \in 0 .. (conns + 1)
      BY <2>1, <2>3 DEF Dial, TypeOK
    <3> QED
      BY <2>3, <3>1 DEF Dial
  <2> QED
    BY <2>2, <2>3
<1>4. TypeOK'
  BY <1>1, <1>2, <1>3 DEF TypeOK
<1>5. IdsAreRequests' /\ OnePlace' /\ ResultsAreOver' /\ GuardFollowsRun'
  BY <1>1 DEF IdsAreRequests, OnePlace, ResultsAreOver, GuardFollowsRun, OnTheWay, Alive, Guarded
<1> QED
  BY <1>4, <1>5

\* The dashboard forgets its guards and makes orphans of their requests.
LEMMA RestartStep ==
  ASSUME Inv, RestartDashboard \/ RestartAgent
  PROVE  Inv'
<1> USE DEF Inv
<1>1. Ids(commands) \cup Ids(handlers) \cup Ids(runs) \subseteq 1 .. requests
  BY DEF Ids, TypeOK, Message, Request, IdsAreRequests, OnTheWay
<1>2. /\ requests' = requests /\ commands' = {} /\ results' = {}
      /\ handlers' \subseteq handlers /\ runs' \subseteq runs /\ orphans \subseteq orphans'
      /\ intact' = FALSE /\ conns' = conns
      /\ over' \subseteq over \cup Ids(commands) \cup Ids(handlers) \cup Ids(runs)
  BY DEF RestartDashboard, RestartAgent, Broken, dash
<1>3. orphans' \subseteq 1 .. requests
  <2>1. \A p \in Plugin : Guarded(p) => running[p].id \in 1 .. requests
    BY LinkAssumption DEF TypeOK, IdsAreRequests, Guarded, runGuard
  <2>2. {running[p].id : p \in {q \in Plugin : Guarded(q)}} \subseteq 1 .. requests
    BY <2>1
  <2>3. orphans \subseteq 1 .. requests
    BY DEF TypeOK
  <2>4. CASE RestartDashboard
    BY <2>2, <2>3, <2>4 DEF RestartDashboard
  <2>5. CASE RestartAgent
    BY <2>3, <2>5 DEF RestartAgent
  <2> QED
    BY <2>4, <2>5
<1>4. TypeOK'
  <2>1. running' \in [Plugin -> runGuard \cup {None}]
    <3>1. [p \in Plugin |-> None] \in [Plugin -> runGuard \cup {None}]
      OBVIOUS
    <3> QED
      BY <3>1 DEF RestartDashboard, RestartAgent, dash, TypeOK
  <2>2. agentConn' \in 0 .. conns /\ conn' \in {0, conns}
    BY LinkAssumption DEF RestartDashboard, RestartAgent, dash, TypeOK
  <2>3. over' \subseteq 1 .. requests
    BY <1>1, <1>2 DEF TypeOK
  <2> QED
    BY <1>2, <1>3, <2>1, <2>2, <2>3 DEF TypeOK
<1>5. IdsAreRequests'
  BY <1>2 DEF IdsAreRequests, OnTheWay, Guarded, RestartDashboard, RestartAgent, dash
<1>6. OnePlace' /\ ResultsAreOver'
  BY <1>2 DEF OnePlace, ResultsAreOver, OnTheWay
<1>7. GuardFollowsRun'
  <2> SUFFICES ASSUME NEW m \in (Alive \cup results)', m.id \notin orphans'
               PROVE  Guarded(m.plugin)' /\ running'[m.plugin].id = m.id
    BY DEF GuardFollowsRun
  <2>1. m \in Alive /\ m.plugin \in Plugin /\ Guarded(m.plugin) /\ running[m.plugin].id = m.id
    BY <1>2 DEF Alive, GuardFollowsRun, TypeOK, Request, Message
  <2>2. RestartAgent
    BY <2>1 DEF RestartDashboard
  <2> QED
    BY <2>1, <2>2 DEF RestartAgent, dash, Guarded
<1> QED
  BY <1>4, <1>5, <1>6, <1>7

\* Guards age, and stay with their runs.
LEMMA TickStep ==
  ASSUME Inv, Tick
  PROVE  Inv'
<1> USE DEF Inv
<1>1. \A p \in Plugin : /\ Aged(running[p]) \in runGuard \cup {None}
                        /\ (Aged(running[p]) = None <=> running[p] = None)
                        /\ running[p] # None => Aged(running[p]).id = running[p].id
  BY LinkAssumption, NoneAssumption DEF TypeOK, Aged, runGuard
<1>2. running' = [p \in Plugin |-> Aged(running[p])]
  BY DEF Tick
<1>3. TypeOK'
  BY <1>1, <1>2 DEF TypeOK, Tick
<1>4. IdsAreRequests'
  BY <1>1, <1>2 DEF IdsAreRequests, OnTheWay, Guarded, Tick
<1>5. OnePlace' /\ ResultsAreOver'
  BY DEF OnePlace, ResultsAreOver, OnTheWay, Tick
<1>6. \A m \in Alive \cup results : m.plugin \in Plugin
  BY DEF Alive, TypeOK, Request, Message
<1>7. GuardFollowsRun'
  BY <1>1, <1>2, <1>6 DEF GuardFollowsRun, Alive, Guarded, Tick
<1> QED
  BY <1>3, <1>4, <1>5, <1>7

\* Every step keeps the invariant.
LEMMA NextInv == Inv /\ [Next]_vars => Inv'
<1> SUFFICES ASSUME Inv, [Next]_vars PROVE Inv'
  OBVIOUS
<1>1. CASE UNCHANGED vars
  BY <1>1 DEF vars, dash, Inv, TypeOK, IdsAreRequests, OnePlace, ResultsAreOver, GuardFollowsRun,
              OnTheWay, Alive, Guarded
<1>2. CASE Next
  BY <1>2, AcquireStep, SendStep, CommandStep, ResultStep, EventStep, NetworkStep, RestartStep, TickStep
     DEF Next
<1> QED
  BY <1>1, <1>2

-----------------------------------------------------------------------------
(* The invariant holds: a request is in one place, and the guard follows   *)
(* its run (src/internal/api/plugins.go:378-425).                          *)
THEOREM Invariance == Spec => []Inv
BY InitInv, NextInv, PTL DEF Spec

(* The variables keep their types.                                         *)
THEOREM TypeCorrect == Spec => []TypeOK
<1>1. Inv => TypeOK
  BY DEF Inv
<1> QED
  BY <1>1, Invariance, PTL

(* The result of a run opens the guard of that run only                    *)
(* (src/internal/api/plugins.go:392-407).                                  *)
THEOREM GuardStaysWithRun == Spec => []GuardFollowsRun
<1>1. Inv => GuardFollowsRun
  BY DEF Inv
<1> QED
  BY <1>1, Invariance, PTL

(* Two runs of one plugin overlap only after a guard was outlived or lost  *)
(* in a restart (src/internal/api/plugins.go:378-390).                     *)
THEOREM OverlapTheorem == Spec => []OverlapIsExcused
<1>1. Inv => OverlapIsExcused
  BY DEF Inv, GuardFollowsRun, OverlapIsExcused
<1> QED
  BY <1>1, Invariance, PTL

-----------------------------------------------------------------------------
\* Both begin without a lease.
LEMMA LeaseInit == Init => Lease!Init
BY DEF Init, Lease!Init

\* A fresh number takes the lease.
LEMMA LeaseGrant ==
  ASSUME Inv, NEW p \in Plugin, acquireRun(p)
  PROVE  Lease!Grant(p)
<1>1. requests \in Nat /\ requests' = requests + 1
  BY LinkAssumption DEF Inv, TypeOK, acquireRun
<1>2. requests + 1 \in (1 .. requests') \ (1 .. requests)
      /\ 1 .. requests' = (1 .. requests) \cup {requests + 1}
  BY <1>1
<1>3. Lease!Grantable(p)
  BY DEF acquireRun, Guarded, Stale, Lease!Grantable
<1>4. running' = [running EXCEPT ![p] = [id |-> requests + 1, age |-> 0]] /\ over' = over
  BY <1>1 DEF acquireRun
<1> QED
  BY <1>2, <1>3, <1>4 DEF Lease!Grant

\* A guard given back belongs to a request that is over.
LEMMA LeaseReturn ==
  ASSUME Inv, Inv', NEW p \in Plugin, NEW i \in over', requests' = requests,
         running' = releaseRun(p, i), over \subseteq over'
  PROVE  Lease!Next
<1>1. over' \subseteq 1 .. requests
  BY DEF Inv, TypeOK
<1>2. CASE Guarded(p) /\ running[p].id = i
  <2>1. Lease!Return(p)
    BY <1>1, <1>2 DEF releaseRun, Guarded, Lease!Return
  <2> QED
    BY <2>1 DEF Lease!Next
<1>3. CASE ~(Guarded(p) /\ running[p].id = i)
  <2>1. Lease!End
    BY <1>1, <1>3 DEF releaseRun, Lease!End
  <2> QED
    BY <2>1 DEF Lease!Next
<1> QED
  BY <1>2, <1>3

\* Runs begin and end, and the guards stay.
LEMMA LeaseEnd ==
  ASSUME Inv', UNCHANGED <<running, requests>>, over \subseteq over'
  PROVE  Lease!Next
<1>1. Lease!End
  BY DEF Inv, TypeOK, Lease!End
<1> QED
  BY <1>1 DEF Lease!Next

\* Time passes for both alike.
LEMMA LeaseTick ==
  ASSUME Inv, Tick
  PROVE  Lease!Next
<1>1. \A p \in Plugin : Aged(running[p]) = Lease!Older(running[p])
  BY LinkAssumption, NoneAssumption DEF Inv, TypeOK, Aged, Lease!Older, runGuard
<1>2. Lease!Tick
  BY <1>1 DEF Tick, Lease!Tick
<1> QED
  BY <1>2 DEF Lease!Next

\* Every step of the guard and of all that surrounds it is a step of the lease.
LEMMA LeaseStep ==
  ASSUME Inv, Inv', [Next]_vars
  PROVE  [Lease!Next]_(Lease!vars)
<1>1. CASE UNCHANGED vars
  BY <1>1 DEF vars, dash, Lease!vars
<1>2. ASSUME NEW p \in Plugin, acquireRun(p) PROVE Lease!Next
  BY <1>2, LeaseGrant DEF Lease!Next
<1>3. ASSUME NEW r \in handlers, Send(r) PROVE Lease!Next
  <2>1. r.plugin \in Plugin
    BY DEF Inv, TypeOK, Request
  <2>2. CASE running' = running
    BY <1>3, <2>2, LeaseEnd DEF Send
  <2>3. CASE running' = releaseRun(r.plugin, r.id) /\ r.id \in over'
    BY <1>3, <2>1, <2>3, LeaseReturn DEF Send
  <2> QED
    BY <1>3, <2>2, <2>3 DEF Send
<1>4. ASSUME NEW m \in commands, handleDashboardCommand(m) PROVE Lease!Next
  BY <1>4, LeaseEnd DEF handleDashboardCommand, dash
<1>5. ASSUME NEW m \in runs, sendBackupResult(m) PROVE Lease!Next
  BY <1>5, LeaseEnd DEF sendBackupResult, dash
<1>6. ASSUME NEW m \in results, HandleAgentEvent(m) PROVE Lease!Next
  <2>1. m.plugin \in Plugin /\ m.id \in over'
    BY <1>6 DEF Inv, TypeOK, Message, ResultsAreOver, HandleAgentEvent
  <2> QED
    BY <1>6, <2>1, LeaseReturn DEF HandleAgentEvent
<1>7. CASE Break \/ AgentNotices \/ DashboardNotices \/ Dial \/ RestartAgent
  BY <1>7, LeaseEnd DEF Break, AgentNotices, DashboardNotices, Dial, RestartAgent, dash
<1>8. CASE RestartDashboard
  <2>1. Lease!Lose
    BY <1>8 DEF RestartDashboard, Inv, TypeOK, Lease!Lose
  <2> QED
    BY <2>1 DEF Lease!Next
<1>9. CASE Tick
  BY <1>9, LeaseTick
<1> QED
  BY <1>1, <1>2, <1>3, <1>4, <1>5, <1>6, <1>7, <1>8, <1>9 DEF Next

(* The run guard implements the lease: whatever connections, handlers,     *)
(* restarts and lost messages do, a plugin's guard passes on only when its *)
(* run is over or has held it for the whole timeout                        *)
(* (src/internal/api/plugins.go:24-27, 378-425).                           *)
THEOREM LeaseTheorem == Spec => ImplementsLease
<1>1. Spec => [][Next]_vars
  BY DEF Spec
<1>2. Init /\ Inv => Lease!Init
  BY LeaseInit
<1>3. Inv /\ Inv' /\ [Next]_vars => [Lease!Next]_(Lease!vars)
  BY LeaseStep
<1> QED
  BY <1>2, <1>3, Invariance, PTL DEF Spec, ImplementsLease, Lease!Spec
=============================================================================
