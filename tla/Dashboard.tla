------------------------------ MODULE Dashboard ------------------------------
(***************************************************************************)
(* The dashboard process: its sessions (SessionStore), the agent's presence *)
(* (AgentPresence) and the history of alerts (AlertHistory).  Each has a   *)
(* lock and files of its own; what happens to an agent reaches the history *)
(* as alerts, which AlertHistory takes in any order.                       *)
(***************************************************************************)
EXTENDS SessionStore

CONSTANTS
  None,
  Conn, Cooldown, AgentTimeout, NotifyRecovery,   \* AgentPresence
  Kind, Setup, MaxLines                           \* AlertHistory

VARIABLES
  open, clients, agentConn, phase, removal, online, reason, lastSeen, offlineNotified,
  saying, decided, sinceOffline, told,
  setup, entries, lines, torn, arrived, cleared, cut, merged

presence == <<open, clients, agentConn, phase, removal, online, reason, lastSeen, offlineNotified,
              saying, decided, sinceOffline, told>>
history == <<setup, entries, lines, torn, arrived, cleared, cut, merged>>

Presence == INSTANCE AgentPresence
History == INSTANCE AlertHistory WITH file <- lines

ASSUME DashboardAssumption == Presence!PresenceAssumption /\ History!HistoryAssumption

(* AgentPresence: the agent slot has somebody who will give it up           *)
(* (main.go:553-581).                                                       *)
SlotHasOwner == Presence!SlotHasOwner

(* AgentPresence: notices of outages and recoveries are in step             *)
(* (engine.go:249-412).                                                     *)
NoticesAreInStep == Presence!NoticesAreInStep

(* AlertHistory: what a full history gives up (history.go:250-358).         *)
EvictionIsFair == History!EvictionIsFair

(* AlertHistory: what the file brings back (history.go:142-201, 361-471).   *)
FileIsFaithful == History!FileIsFaithful

(* AlertHistory: what history.go:30 says of trusted alerts.                 *)
GenuineStay == History!GenuineStay
==============================================================================
