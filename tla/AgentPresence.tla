---------------------------- MODULE AgentPresence ----------------------------
(***************************************************************************)
(* Is the agent there?  The hub's agent slot (src/cmd/dashboard/main.go)   *)
(* composed with the engine's view of the agent (src/pkg/alert/engine.go). *)
(*                                                                         *)
(* Each agent connection has a reading goroutine; whoever removes it from  *)
(* the hub (that goroutine, or another one whose write to it failed) runs  *)
(* the disconnect callback after the hub lock is released, and the engine  *)
(* sends its alerts after releasing its own lock.  A ticker looks for      *)
(* timeouts.  All of these interleave, so a callback of an old connection  *)
(* may run when a new agent is already at work.                            *)
(*                                                                         *)
(* Ages count ticks, Zero is the zero time; they saturate at the durations *)
(* they are compared with.                                                 *)
(***************************************************************************)
EXTENDS Integers

CONSTANTS
  Conn,            \* agent connections; an identity is reused once it is closed
  None,
  Cooldown, AgentTimeout,   \* e.cfg, in ticks
  NotifyRecovery

ASSUME PresenceAssumption ==
  /\ None \notin Conn
  /\ Cooldown \in Nat /\ AgentTimeout \in Nat \ {0}
  /\ NotifyRecovery \in BOOLEAN

VARIABLES
  open,       \* the connections whose socket still works
  clients,    \* h.clients
  agentConn,  \* h.agentConn
  phase,      \* the reading goroutine of each connection
  removal,    \* the Remove call that took each connection off the agent slot
  online, reason, lastSeen, offlineNotified,   \* the engine's fields
  saying,     \* the alert each goroutine decided on and has not dispatched yet
  decided,    \* the last alert decided on, in the order of the engine's lock
  sinceOffline,  \* age of the last offline alert
  told        \* the last alert dispatched

hub == <<open, clients, agentConn, phase, removal>>
engine == <<online, reason, lastSeen, offlineNotified>>
vars == <<hub, engine, saying, decided, sinceOffline, told>>

\* Goroutines that can hold an undispatched alert.
Reader(c) == <<"reader", c>>
Remover(c) == <<"remover", c>>
Ticker == <<"ticker", None>>
Speaker == {"reader", "remover"} \X Conn \cup {Ticker}

Zero == -1
Offline == {"disconnect", "timeout", "ongoing"}
Message == Offline \cup {"recovery"}
Silence == "none"

TypeOK ==
  /\ open \subseteq Conn /\ clients \subseteq Conn
  /\ agentConn \in Conn \cup {None}
  /\ phase \in [Conn -> {"out", "marking", "reading", "status", "leaving"}]
  /\ removal \in [Conn -> {"no", "callback", "close"}]
  /\ online \in BOOLEAN /\ reason \in {"", "disconnect", "timeout"}
  /\ lastSeen \in Zero .. AgentTimeout
  /\ offlineNotified \in Zero .. Cooldown /\ sinceOffline \in Zero .. Cooldown
  /\ saying \in [Speaker -> Message \cup {Silence}]
  /\ decided \in Message \cup {Silence} /\ told \in Message \cup {Silence}

-----------------------------------------------------------------------------
Init ==
  /\ open = {} /\ clients = {} /\ agentConn = None
  /\ phase = [c \in Conn |-> "out"]
  /\ removal = [c \in Conn |-> "no"]
  /\ online = FALSE /\ reason = "" /\ lastSeen = Zero /\ offlineNotified = Zero
  /\ saying = [s \in Speaker |-> Silence]
  /\ decided = Silence /\ sinceOffline = Zero /\ told = Silence

Goto(c, p) == phase' = [phase EXCEPT ![c] = p]

\* s decides on message m under the engine's lock; it dispatches it later.
Decide(s, m) ==
  /\ saying' = [saying EXCEPT ![s] = m]
  /\ decided' = IF m = Silence THEN decided ELSE m
  /\ sinceOffline' = IF m \in Offline THEN 0 ELSE sinceOffline
  /\ UNCHANGED told

NoAlert == UNCHANGED <<saying, decided, sinceOffline, told>>

\* Mutant: no throttle on a flapping connection.
AlwaysAllow == TRUE

allowAgentOfflineNotify ==
  ~(Cooldown > 0 /\ offlineNotified # Zero /\ offlineNotified < Cooldown)

\* Mutant: a silent outage is recorded with the reason the reminder shows.
ReasonOrOffline(m) == IF allowAgentOfflineNotify THEN m ELSE "offline"

\* An outage nobody is told about has no reason, which silences its recovery.
ReasonFor(m) == IF allowAgentOfflineNotify THEN m ELSE ""

\* The engine notes an outage and, unless throttled, decides to announce it.
GoesOffline(s, m) ==
  /\ online' = FALSE
  /\ reason' = ReasonFor(m)
  /\ offlineNotified' = IF allowAgentOfflineNotify THEN 0 ELSE offlineNotified
  /\ Decide(s, IF allowAgentOfflineNotify THEN m ELSE Silence)

-----------------------------------------------------------------------------
\* The handler accepted an agent with the right token and added it.
Connect(c) ==
  /\ phase[c] = "out" /\ removal[c] = "no"
  /\ open' = open \cup {c} /\ clients' = clients \cup {c}
  /\ Goto(c, "marking")
  /\ UNCHANGED <<agentConn, removal, engine>> /\ NoAlert

\* MarkAgentConn: the slot is free, or the connection is turned away.
MarkAgentConn(c) ==
  /\ phase[c] = "marking"
  /\ IF agentConn \in {None, c}
     THEN agentConn' = c /\ Goto(c, "reading") /\ UNCHANGED open
     ELSE open' = open \ {c} /\ Goto(c, "leaving") /\ UNCHANGED agentConn
  /\ UNCHANGED <<clients, removal, engine>> /\ NoAlert

\* The reading goroutine takes a status message off the socket.
Receive(c) ==
  /\ phase[c] = "reading" /\ saying[Reader(c)] = Silence
  /\ c \in open
  /\ Goto(c, "status")
  /\ UNCHANGED <<open, clients, agentConn, removal, engine>> /\ NoAlert

\* Mutant: a recovery is announced whether or not the outage was.
AlwaysRecovers == ~online /\ NotifyRecovery

\* Does this status message end an outage that was announced?
AnnouncesRecovery == ~online /\ reason # "" /\ NotifyRecovery

\* Mutant: only an announced outage ends with a status.
OnlineIfTold == online \/ reason # ""

\* A status from the agent makes it online, told or not.
NowOnline == TRUE

\* SetLastStatus calls the engine's OnStatus, whichever connection c is by now.
OnStatus(c) ==
  /\ phase[c] = "status"
  /\ online' = NowOnline
  /\ reason' = IF online THEN reason ELSE ""
  /\ lastSeen' = 0
  /\ Decide(Reader(c), IF AnnouncesRecovery THEN "recovery" ELSE Silence)
  /\ Goto(c, "reading")
  /\ UNCHANGED <<open, clients, agentConn, removal, offlineNotified>>

\* The network or the peer fails; also the read deadline that finds it out.
Lose(c) ==
  /\ c \in open
  /\ open' = open \ {c}
  /\ UNCHANGED <<clients, agentConn, phase, removal, engine>> /\ NoAlert

\* Mutant: only a client still in the table is taken off the agent slot.
ReleaseIfListed(c) ==
  /\ clients' = clients \ {c}
  /\ IF agentConn = c /\ c \in clients
     THEN agentConn' = None /\ removal' = [removal EXCEPT ![c] = "callback"]
     ELSE UNCHANGED agentConn /\ removal' = [removal EXCEPT ![c] = "close"]

\* Remove, under the hub lock: off the table and, if it was the agent, off the
\* slot; then the disconnect callback, then the close.
Release(c) ==
  /\ clients' = clients \ {c}
  /\ IF agentConn = c
     THEN agentConn' = None /\ removal' = [removal EXCEPT ![c] = "callback"]
     ELSE UNCHANGED agentConn /\ removal' = [removal EXCEPT ![c] = "close"]

\* A broadcasting goroutine's write to c failed: it removes c.
WriteFails(c) ==
  /\ c \in clients /\ removal[c] = "no"
  /\ Release(c)
  /\ UNCHANGED <<open, phase, engine>> /\ NoAlert

\* The read loop ends: its deferred Remove runs, unless another is under way,
\* in which case it finds nothing left to do but the close.
Leave(c) ==
  /\ \/ phase[c] = "reading" /\ c \notin open /\ saying[Reader(c)] = Silence
        /\ Goto(c, "leaving")
     \/ phase[c] = "leaving" /\ removal[c] = "no" /\ UNCHANGED phase
  /\ removal[c] = "no"
  /\ Release(c)
  /\ UNCHANGED <<open, engine>> /\ NoAlert

\* The callback does nothing when the engine already thinks the agent is gone.
SeesOutage == online

\* OnAgentDisconnect, run by whoever removed c.
OnAgentDisconnect(c) ==
  /\ removal[c] = "callback"
  /\ removal' = [removal EXCEPT ![c] = "close"]
  /\ IF SeesOutage
     THEN GoesOffline(Remover(c), "disconnect")
     ELSE UNCHANGED <<online, reason, offlineNotified>> /\ NoAlert
  /\ UNCHANGED <<open, clients, agentConn, phase, lastSeen>>

\* Remove ends: the socket is closed, and a read loop that left is gone.
Close(c) ==
  /\ removal[c] = "close" /\ saying[Remover(c)] = Silence
  /\ removal' = [removal EXCEPT ![c] = "no"]
  /\ open' = open \ {c}
  /\ phase' = [phase EXCEPT ![c] = IF @ = "leaving" THEN "out" ELSE @]
  /\ UNCHANGED <<clients, agentConn, engine>> /\ NoAlert

\* Mutant: an agent that is offline is not looked at again.
NotAgain == FALSE

\* While the agent stays offline, alert again on the cooldown.
AlertsAgain == ~online /\ allowAgentOfflineNotify

Late == online /\ lastSeen >= AgentTimeout

CheckAgentTimeout ==
  /\ lastSeen # Zero /\ saying[Ticker] = Silence
  /\ \/ /\ AlertsAgain
        /\ offlineNotified' = 0
        /\ Decide(Ticker, "ongoing")
        /\ UNCHANGED <<online, reason>>
     \/ Late /\ GoesOffline(Ticker, "timeout")
  /\ UNCHANGED <<hub, lastSeen>>

\* dispatch: outside the lock, to the history and the notification channels.
Dispatch(s) ==
  /\ saying[s] # Silence
  /\ told' = saying[s]
  /\ saying' = [saying EXCEPT ![s] = Silence]
  /\ UNCHANGED <<hub, engine, decided, sinceOffline>>

Older(age, limit) == IF age = Zero \/ age = limit THEN age ELSE age + 1

Tick ==
  /\ lastSeen' = Older(lastSeen, AgentTimeout)
  /\ offlineNotified' = Older(offlineNotified, Cooldown)
  /\ sinceOffline' = Older(sinceOffline, Cooldown)
  /\ UNCHANGED <<hub, online, reason, saying, decided, told>>

Serve(c) ==
  \/ MarkAgentConn(c) \/ Receive(c) \/ OnStatus(c) \/ Leave(c)

Next ==
  \/ \E c \in Conn : Connect(c)
  \/ \E c \in Conn : Lose(c)
  \/ \E c \in Conn : WriteFails(c)
  \/ \E c \in Conn : Serve(c)
  \/ \E c \in Conn : OnAgentDisconnect(c)
  \/ \E c \in Conn : Close(c)
  \/ CheckAgentTimeout
  \/ \E s \in Speaker : Dispatch(s)
  \/ Tick

Spec == Init /\ [][Next]_vars

(* Goroutines are scheduled, the ticker fires, dispatches return, time      *)
(* passes, and an agent that is connected keeps sending statuses.  Nothing  *)
(* makes an agent connect.                                                  *)
FairSpec ==
  /\ Spec
  /\ \A c \in Conn : WF_vars(Serve(c)) /\ WF_vars(OnAgentDisconnect(c)) /\ WF_vars(Close(c))
  /\ \A s \in Speaker : WF_vars(Dispatch(s))
  /\ WF_vars(CheckAgentTimeout) /\ WF_vars(Tick)

-----------------------------------------------------------------------------
\* In this step s decides on one of the messages M.
Decides(s, M) == saying[s] = Silence /\ saying'[s] \in M

(* A recovery notice answers an outage that was announced, once: however    *)
(* callbacks of old connections, timeouts and statuses interleave.          *)
RecoveryAnswersOutage ==
  [][(\E s \in Speaker : Decides(s, {"recovery"})) => decided \in Offline]_vars

(* A flapping agent does not flood the channels: disconnect, timeout and    *)
(* reminder alerts share one cooldown.                                      *)
FlapIsThrottled ==
  [][(\E s \in Speaker : Decides(s, Offline))
       => sinceOffline = Zero \/ sinceOffline >= Cooldown]_vars

(* The operator hears of an outage and of its end, and of neither more      *)
(* often than there is something to tell (engine.go:249-412).               *)
NoticesAreInStep == RecoveryAnswersOutage /\ FlapIsThrottled

(* A client that is registered as the agent has a reading goroutine that    *)
(* will run Remove for it, so the slot cannot stay occupied by nobody.      *)
SlotHasOwner ==
  agentConn # None => phase[agentConn] \in {"reading", "status"}

(* A lost connection gives the agent slot up, so the agent can come back.   *)
SlotIsFreed == \A c \in Conn : (agentConn = c /\ c \notin open) ~> (agentConn # c)

(* An agent that stays connected is seen as online again and again, even    *)
(* when a stale disconnect callback of its predecessor marked it offline.   *)
ReturnsOnline == \A c \in Conn : <>[](agentConn = c /\ c \in open) => []<>online

(* An agent that is gone for good is alerted about again and again, even    *)
(* when the first alert was throttled or a stale callback spoiled it.       *)
OutageIsTold ==
  (<>[](clients = {} /\ open = {}) /\ <>(lastSeen # Zero))
    => []<>(\E s \in Speaker : saying[s] \in Offline)

(* engine.go:368 and :397: "no notice during the cooldown; the reason is    *)
(* emptied to suppress the recovery notice too".  So a recovery notice is   *)
(* withheld only for an outage nobody was told about.                       *)
AnnouncedOutageRecovers ==
  [][(~online /\ online' /\ decided \in Offline) => decided' = "recovery"]_vars
=============================================================================
