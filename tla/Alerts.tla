-------------------------------- MODULE Alerts --------------------------------
(***************************************************************************)
(* The way of an alert: the engine decides on it (MetricAlert) and hands   *)
(* it to the notification manager (NotifyManager), which batches it and    *)
(* sends it.  The engine does not wait for the manager and hears nothing   *)
(* from it, so the manager takes any alerts at any time.                   *)
(***************************************************************************)
EXTENDS MetricAlert

CONSTANTS Alert, Critical, Caller, Timer, Main, None, Channels, MaxSends

VARIABLES
  batchEnabled, batchExcludeCritical, batch, batchTimer, timer,
  load, next, waiting, sem, sends, main, accepted, fate, pending

manager == <<batchEnabled, batchExcludeCritical, batch, batchTimer, timer,
             load, next, waiting, sem, sends, main, accepted, fate, pending>>

Manager == INSTANCE NotifyManager

ASSUME ManagerAssumption == Manager!NotifyAssumption

(* NotifyManager: who will flush the batch (manager.go:232-258, 388-400).            *)
NoStrandedBatch == Manager!NoStrandedBatch

(* NotifyManager: what is sent twice or given up (manager.go:242-379).      *)
SendsAreOrderly == Manager!SendsAreOrderly

(* NotifyManager: what becomes of every alert.                              *)
EverySettles == Manager!EverySettles

(* NotifyManager: what manager.go:386 says of Flush.                        *)
FlushDelivers == Manager!FlushDelivers
===============================================================================
