------------------------------ MODULE EventFlow ------------------------------
(***************************************************************************)
(* Security events on their way from the plugin to the dashboard: the      *)
(* bounded queue of the monitor                                            *)
(* (src/plugins/Kizuna-Security/plugin/monitor.go), the send loop of the   *)
(* agent that drains it and puts back what it could not send               *)
(* (src/cmd/agent/main.go), and the reader of the dashboard                *)
(* (src/cmd/dashboard/main.go).  A write can succeed and be lost with the  *)
(* connection.  An event is its number in the order of emission.           *)
(***************************************************************************)
EXTENDS Integers, Sequences

CONSTANTS
  maxQueueSize,
  MaxEvents,   \* bound on the events emitted
  MaxFaults    \* bound on broken connections, reconfigurations and restarts

FlowBounds == maxQueueSize \in Nat \ {0} /\ MaxEvents \in Nat /\ MaxFaults \in Nat

VARIABLES
  token,      \* an agent token is configured
  emitted, queue,
  phase,      \* of the agent's loop: "offline", "waiting", "sending"
  sending,    \* drained and not yet written
  intact,     \* the connection carries what is written
  wire,       \* written and not yet read: events, and 0 for a status
  isAgent,    \* what the dashboard's reader takes the connection for
  delivered,  \* events handed to handleSecurityEvent
  gone,       \* lost events, each with the reason
  faults

vars == <<token, emitted, queue, phase, sending, intact, wire, isAgent, delivered, gone, faults>>

Event == 1 .. MaxEvents
Reason == {"overflow", "reconfigured", "stopped", "broken", "ignored"}
Messages(s) == {s[i] : i \in DOMAIN s}

TypeOK ==
  /\ token \in BOOLEAN /\ emitted \in 0 .. MaxEvents
  /\ Messages(queue) \subseteq Event /\ Len(queue) <= maxQueueSize
  /\ phase \in {"offline", "waiting", "sending"}
  /\ Messages(sending) \subseteq Event /\ Messages(delivered) \subseteq Event
  /\ intact \in BOOLEAN /\ isAgent \in BOOLEAN
  /\ Messages(wire) \subseteq Event \cup {0}
  /\ \A g \in gone : g[1] \in Event /\ g[2] \in Reason
  /\ faults \in 0 .. MaxFaults

Init ==
  /\ token \in BOOLEAN
  /\ emitted = 0 /\ queue = <<>>
  /\ phase = "offline" /\ sending = <<>>
  /\ intact = FALSE /\ wire = <<>> /\ isAgent = FALSE
  /\ delivered = <<>> /\ gone = {} /\ faults = 0

Status == 0
Lose(S, why) == gone' = gone \cup {<<e, why>> : e \in S \ {Status}}

\* A status, kept only while it can matter: later ones change nothing here.
StatusSent(w, known) == IF known \/ Status \in Messages(w) THEN w ELSE Append(w, Status)

\* Mutant: the newest are dropped.
OldestKept(s) == IF Len(s) > maxQueueSize THEN SubSeq(s, 1, maxQueueSize) ELSE s

\* Mutant: there is no limit.
NoLimit(s) == s

\* A full queue drops its oldest events.
NewestKept(s) == IF Len(s) > maxQueueSize THEN SubSeq(s, Len(s) - maxQueueSize + 1, Len(s)) ELSE s

Fill(s) ==
  /\ queue' = NewestKept(s)
  /\ Lose(Messages(s) \ Messages(NewestKept(s)), "overflow")

\* Any goroutine of the plugin, an event at or above notify_min_level.
emit ==
  /\ emitted < MaxEvents
  /\ emitted' = emitted + 1
  /\ Fill(Append(queue, emitted'))
  /\ UNCHANGED <<token, phase, sending, intact, wire, isAgent, delivered, faults>>

\* A new monitor begins with an empty queue.
Configure ==
  /\ faults < MaxFaults /\ faults' = faults + 1
  /\ queue' = <<>> /\ Lose(Messages(queue), "reconfigured")
  /\ UNCHANGED <<token, emitted, phase, sending, intact, wire, isAgent, delivered>>

\* Runs of the agent end with their queue and what they had drained.
Stop ==
  /\ faults < MaxFaults /\ faults' = faults + 1
  /\ phase' = "offline" /\ queue' = <<>> /\ sending' = <<>>
  /\ intact' = FALSE /\ wire' = <<>>
  /\ Lose(Messages(queue) \cup Messages(sending) \cup Messages(wire), "stopped")
  /\ UNCHANGED <<token, emitted, isAgent, delivered>>

\* The connection breaks and takes along what it held; nobody notices yet.
Break ==
  /\ intact /\ faults < MaxFaults
  /\ faults' = faults + 1 /\ intact' = FALSE
  /\ wire' = <<>> /\ Lose(Messages(wire), "broken")
  /\ UNCHANGED <<token, emitted, queue, phase, sending, isAgent, delivered>>

\* runAgent dials and sends a status at once, if the system module has one yet.
Dial ==
  /\ phase = "offline"
  /\ phase' = "waiting" /\ intact' = TRUE /\ isAgent' = token
  /\ wire' \in {<<>>, StatusSent(<<>>, token)}
  /\ UNCHANGED <<token, emitted, queue, sending, delivered, gone, faults>>

\* Every tick empties the queue.
Drain ==
  /\ phase = "waiting"
  /\ phase' = "sending" /\ sending' = queue /\ queue' = <<>>
  /\ UNCHANGED <<token, emitted, intact, wire, isAgent, delivered, gone, faults>>

\* One message per event, in order.
Write ==
  /\ phase = "sending" /\ sending # <<>>
  /\ sending' = Tail(sending)
  /\ IF intact
       THEN wire' = Append(wire, Head(sending)) /\ UNCHANGED gone
       ELSE UNCHANGED wire /\ Lose({Head(sending)}, "broken")
  /\ UNCHANGED <<token, emitted, queue, phase, intact, isAgent, delivered, faults>>

\* Mutant: behind what came in meanwhile.
Behind == Fill(queue \o sending)

Requeue == Fill(sending \o queue)

\* A failed write puts the rest back, in front of what came in meanwhile.  The loop goes on
\* with the status.
WriteFails ==
  /\ phase = "sending" /\ sending # <<>> /\ ~intact
  /\ Requeue /\ sending' = <<>>
  /\ UNCHANGED <<token, emitted, phase, intact, wire, isAgent, delivered, faults>>

\* The tick ends with a status; without a new one it is skipped.
sendStatus ==
  /\ phase = "sending" /\ sending = <<>>
  /\ phase' = "waiting"
  /\ wire' \in IF intact THEN {wire, StatusSent(wire, isAgent)} ELSE {wire}
  /\ UNCHANGED <<token, emitted, queue, sending, intact, isAgent, delivered, gone, faults>>

\* Mutant: a failed status is ignored.
StatusIgnored ==
  /\ phase = "sending" /\ sending = <<>> /\ ~intact
  /\ phase' = "waiting"
  /\ UNCHANGED <<token, emitted, queue, sending, intact, wire, isAgent, delivered, gone, faults>>

\* A failed status ends runAgent; main dials again.
sendStatusFails ==
  /\ phase = "sending" /\ sending = <<>> /\ ~intact
  /\ phase' = "offline"
  /\ UNCHANGED <<token, emitted, queue, sending, intact, wire, isAgent, delivered, gone, faults>>

\* The reader of the dashboard.  Events count only from the agent; without a token a
\* connection becomes the agent with its first status.
Read ==
  /\ wire # <<>>
  /\ wire' = Tail(wire)
  /\ isAgent' = (isAgent \/ Head(wire) = Status)
  /\ IF Head(wire) = Status THEN UNCHANGED <<delivered, gone>>
     ELSE IF isAgent THEN delivered' = Append(delivered, Head(wire)) /\ UNCHANGED gone
     ELSE UNCHANGED delivered /\ Lose({Head(wire)}, "ignored")
  /\ UNCHANGED <<token, emitted, queue, phase, sending, intact, faults>>

Agent == Dial \/ Drain \/ Write \/ WriteFails \/ sendStatus \/ sendStatusFails

Next == emit \/ Configure \/ Stop \/ Break \/ Agent \/ Read

Spec == Init /\ [][Next]_vars

-----------------------------------------------------------------------------
(* Events arrive in the order they were emitted and none arrives twice,    *)
(* whatever was put back, dropped or lost in between                       *)
(* (src/cmd/agent/main.go:772-779, monitor.go:906-919).                    *)
InOrder == \A i, j \in DOMAIN delivered : i < j => delivered[i] < delivered[j]

InFlight == Messages(queue) \cup Messages(sending) \cup Messages(wire)

(* No event vanishes: each is on its way, delivered, or lost for one of    *)
(* the known reasons; and with a token nothing that arrives is ignored.    *)
(* Without one the events sent before the first status are: the tick sends *)
(* events first (src/cmd/agent/main.go:688-699,                            *)
(* src/cmd/dashboard/main.go:975-985).                                     *)
EveryEventIsAccountedFor ==
  /\ \A e \in 1 .. emitted :
       e \in InFlight \/ e \in Messages(delivered) \/ \E g \in gone : g[1] = e
  /\ \A g \in gone : g[1] \notin Messages(delivered) \cup InFlight
  /\ token => \A g \in gone : g[2] # "ignored"

(* An event is dropped for want of room only while as many newer ones wait *)
(* as the queue holds (monitor.go:886-892, 906-919).                       *)
OverflowKeepsTheNewest ==
  [][\A e \in {g[1] : g \in gone' \ gone} :
       <<e, "overflow">> \in gone' => \A f \in Messages(queue') : f > e]_vars

(* What the queue promises as a whole: order, no event lost unseen, and    *)
(* the newest kept (monitor.go:854-919).                                   *)
QueueIsFaithful == []InOrder /\ []EveryEventIsAccountedFor /\ OverflowKeepsTheNewest

(* The ticker of the agent and the reader of the dashboard go on.  A write *)
(* to a broken connection fails sooner or later, and so does a status.     *)
Fairness ==
  /\ WF_vars(Dial \/ Drain \/ Write \/ sendStatus) /\ WF_vars(Read)
  /\ SF_vars(sendStatusFails)

(* Every event is delivered or lost in the end; none stays in a queue      *)
(* forever while the agent runs (src/cmd/agent/main.go:685-709).           *)
EveryEventSettles ==
  \A e \in Event :
    (e <= emitted) ~> (e \in Messages(delivered) \/ \E g \in gone : g[1] = e)
=============================================================================
