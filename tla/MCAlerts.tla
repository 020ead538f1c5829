------------------------------- MODULE MCAlerts -------------------------------
(* An alert before and after the notification manager, one at a time:       *)
(*   metric  durations of one to four ticks; the administrator can turn     *)
(*           recovery notices off, shorten the cooldown and send zeros;     *)
(*   notify  a warning and a critical alert, one caller, and two timers, so *)
(*           that a late timer goroutine can meet the next window.          *)
EXTENDS Alerts

CONSTANTS w1, k1, g1, t1, t2, Part

MCAlert == {w1, k1}
MCCritical == {k1}
MCCaller == {g1}
MCTimer == {t1, t2}

MCMetric == {"memory", "disk_free", "cpu_temp", "disk_health"}

MCConfig ==
  {[hold |-> 2, cooldown |-> 4, recoveryHold |-> 3, notifyRecovery |-> TRUE],
   [hold |-> 0, cooldown |-> 2, recoveryHold |-> 1, notifyRecovery |-> FALSE]}

VARIABLE part

all == <<part, vars, manager>>

MCInit ==
  /\ part \in Part
  /\ Init /\ Manager!Init
  \* The settings of the other part do not matter.
  /\ part = "metric" => ~batchEnabled /\ ~batchExcludeCritical
  /\ part = "notify" => metric = "memory" /\ cfg.notifyRecovery

InMetric(A) == part = "metric" /\ A /\ UNCHANGED <<part, manager>>
InNotify(A) == part = "notify" /\ A /\ UNCHANGED <<part, vars>>

MCNext == InMetric(Next) \/ InNotify(Manager!Next)

MCSpec == MCInit /\ [][MCNext]_all

\* MetricAlert's and NotifyManager's FairSpec.
MCFairSpec ==
  /\ MCSpec
  /\ WF_all(InMetric(OnStatus)) /\ WF_all(InMetric(Tick))
  /\ WF_all(InNotify(Manager!System))
===============================================================================
