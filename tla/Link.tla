--------------------------------- MODULE Link ---------------------------------
(***************************************************************************)
(* What the agent is connected by: its commands and results (AgentLink)    *)
(* and its security events (EventFlow) on the link to the dashboard, and   *)
(* the events of the kernel about the directories it watches (DirWatch).   *)
(* Commands and events share the connection, but not their state: each     *)
(* module meets the link breaking at any time.                             *)
(***************************************************************************)
EXTENDS AgentLink

CONSTANTS
  maxQueueSize, MaxEvents, MaxLosses,                           \* EventFlow
  Root, Sub, File, dirOf, Content, maxDirsPerRoot, MaxFaults    \* DirWatch

VARIABLES
  token, emitted, events, phase, sending, alive, wire, isAgent, delivered, gone, losses,
  feature, exists, content, configured, loop, watching, watches, dirCapped,
  queue, lost, pending, overflow, initialized, baseline, disk, faults, unseen

flow == <<token, emitted, events, phase, sending, alive, wire, isAgent, delivered, gone, losses>>
watch == <<feature, exists, content, configured, loop, watching, watches, dirCapped,
           queue, lost, pending, overflow, initialized, baseline, disk, faults, unseen>>

Flow == INSTANCE EventFlow WITH
  MaxFaults <- MaxLosses, queue <- events, intact <- alive, faults <- losses

Watch == INSTANCE DirWatch

ASSUME FlowAssumption == Flow!FlowBounds
ASSUME WatchAssumption == Watch!WatchTree

(* The type invariants of the three.                                        *)
Types == TypeOK /\ Flow!TypeOK /\ Watch!TypeOK

(* EventFlow: order, no loss unseen, the newest kept.                       *)
QueueIsFaithful == Flow!QueueIsFaithful

(* EventFlow: every event is delivered or lost in the end.                  *)
EveryEventSettles == Flow!EveryEventSettles

(* DirWatch: what a scan has not seen yet is on its way to one.             *)
DifferencesAreOnTheirWay == Watch!DifferencesAreOnTheirWay

(* DirWatch: the fallback notices what the events miss.                     *)
ChangesAreNoticed == Watch!ChangesAreNoticed
===============================================================================
