----------------------------- MODULE MetricAlert -----------------------------
(***************************************************************************)
(* One monitored metric in the alert engine (src/pkg/alert/engine.go):     *)
(* hold before an alert, cooldown between alerts, escalation, hysteresis   *)
(* before a recovery, loss of the sensor, thresholds edited at run time.   *)
(* memory, disk_free, cpu_temp and disk_health run the same machine on     *)
(* states of their own; they differ in the readings they can produce.      *)
(*                                                                         *)
(* A time.Time is modelled by its age in ticks, Zero for the zero time.    *)
(* Ages stop growing at MaxAge, which no duration exceeds, so the model is *)
(* finite without a bound on the run.                                      *)
(***************************************************************************)
EXTENDS Integers

CONSTANTS
  Metric,    \* the metrics considered
  Config,    \* the configurations an administrator can put in force
  MaxAge     \* ages saturate here

Bad == {"warning", "critical"}

\* What a status message can say about a metric, per evaluation function.
evalMemory == {"normal", "warning", "critical"}
evalDiskFree == {"normal", "warning", "critical"}
evalCPUTemp == {"normal", "warning", "critical", "missing"}
evalDiskHealth == {"normal", "critical"}

ReadingsOf(m) ==
  CASE m = "memory" -> evalMemory
    [] m = "disk_free" -> evalDiskFree
    [] m = "cpu_temp" -> evalCPUTemp
    [] OTHER -> evalDiskHealth

Zero == -1

Age == Zero .. MaxAge

ConfigType == [hold : 0 .. MaxAge, cooldown : 0 .. MaxAge,
               recoveryHold : 0 .. MaxAge, notifyRecovery : BOOLEAN]

ASSUME MetricAssumption ==
  /\ MaxAge \in Nat
  /\ Config \subseteq ConfigType

VARIABLES
  metric,        \* which metric this is
  cfg,           \* e.cfg, the part this machine reads
  startedAt, normalSince, lastNotified, firedLevel,   \* metricState
  \* What an operator sees, kept apart from the engine's own state:
  reading,       \* the last reading
  badFor,        \* age of the first reading of the current abnormal run
  goodFor,       \* age of the first reading of the current normal run
  out,           \* what the last status sent, quiet when the last step was no status
  told,          \* level of the last alert, or "recovered" after a recovery
  toldAge,       \* age of the last alert
  ended          \* since then the metric recovered, or its sensor went away

engine == <<startedAt, normalSince, lastNotified, firedLevel>>
seen == <<reading, badFor, goodFor, told, toldAge, ended>>
vars == <<metric, cfg, engine, seen, out>>

Reading == ReadingsOf(metric)

TypeOK ==
  /\ metric \in Metric
  /\ cfg \in ConfigType
  /\ startedAt \in Age /\ normalSince \in Age /\ lastNotified \in Age
  /\ firedLevel \in Bad \cup {"none"}
  /\ reading \in Reading \cup {"none"}
  /\ badFor \in Age /\ goodFor \in Age /\ toldAge \in Age
  /\ out \in Bad \cup {"none", "quiet", "recovery"}
  /\ told \in Bad \cup {"none", "recovered"}
  /\ ended \in BOOLEAN

-----------------------------------------------------------------------------
levelRank(l) == CASE l = "critical" -> 3 [] l = "warning" -> 2 [] OTHER -> 0

\* Mutant: the run's start survives a normal reading.
KeepStart == startedAt

\* startedAt after a normal reading.
ClearStart == Zero

\* Mutant: the cooldown holds an escalation back too.
NoEscalation(start, level) ==
  /\ start >= cfg.hold
  /\ lastNotified = Zero \/ lastNotified >= cfg.cooldown \/ firedLevel = "none"

\* Mutant: the cooldown is not looked at.
NoCooldown(start, level) == start >= cfg.hold

\* Mutant: an alert that was sent is never sent again.
FireOnce(start, level) == start >= cfg.hold /\ levelRank(level) > levelRank(firedLevel)

shouldFire(start, level) ==
  /\ start >= cfg.hold
  /\ \/ lastNotified = Zero
     \/ lastNotified >= cfg.cooldown
     \/ levelRank(level) > levelRank(firedLevel)

\* Mutant: no hysteresis before a recovery.
RecoverAtOnce == TRUE

shouldRecover == normalSince # Zero /\ normalSince >= cfg.recoveryHold

-----------------------------------------------------------------------------
Init ==
  /\ metric \in Metric /\ cfg \in Config
  /\ startedAt = Zero /\ normalSince = Zero /\ lastNotified = Zero
  /\ firedLevel = "none"
  /\ reading = "none" /\ badFor = Zero /\ goodFor = Zero
  /\ out = "quiet" /\ told = "none" /\ toldAge = Zero /\ ended = FALSE

\* The operator's view after reading r, given what this step sends.
Observe(r) ==
  /\ reading' = r
  /\ badFor' = IF r \notin Bad THEN Zero ELSE IF badFor = Zero THEN 0 ELSE badFor
  /\ goodFor' = IF r # "normal" THEN Zero ELSE IF goodFor = Zero THEN 0 ELSE goodFor
  /\ told' = CASE out' = "none" -> told [] out' = "recovery" -> "recovered" [] OTHER -> out'
  /\ toldAge' = IF out' \in Bad THEN 0 ELSE toldAge
  /\ ended' = IF out' \in Bad THEN FALSE ELSE ended \/ firedLevel' = "none"

\* Above a threshold (or a failed disk): start the clock, alert when due.
Abnormal(level) ==
  LET start == IF startedAt = Zero THEN 0 ELSE startedAt
      fires == shouldFire(start, level)
  IN  /\ level \in Reading \cap Bad
      /\ startedAt' = start
      /\ normalSince' = Zero
      /\ lastNotified' = IF fires THEN 0 ELSE lastNotified
      /\ firedLevel' = IF fires THEN level ELSE firedLevel
      /\ out' = IF fires THEN level ELSE "none"
      /\ Observe(level)
      /\ UNCHANGED <<metric, cfg>>

\* A normal reading while nothing is fired, or before the hysteresis is over.
StillWaiting ==
  /\ ~shouldRecover \/ firedLevel = "none"
  /\ normalSince' = IF firedLevel # "none" /\ normalSince = Zero THEN 0 ELSE normalSince
  /\ out' = "none"
  /\ UNCHANGED <<lastNotified, firedLevel>>

\* Mutant: the level of the recovery notice is recorded as the fired level.
RecoversAsSuccess ==
  /\ shouldRecover /\ firedLevel # "none"
  /\ firedLevel' = "success" /\ normalSince' = Zero
  /\ out' = "recovery"
  /\ UNCHANGED lastNotified

Recovers ==
  /\ shouldRecover /\ firedLevel # "none"
  /\ firedLevel' = "none" /\ normalSince' = Zero
  /\ lastNotified' = IF cfg.notifyRecovery THEN 0 ELSE lastNotified
  /\ out' = IF cfg.notifyRecovery THEN "recovery" ELSE "none"

Normal ==
  /\ "normal" \in Reading
  /\ startedAt' = ClearStart
  /\ StillWaiting \/ Recovers
  /\ Observe("normal")
  /\ UNCHANGED <<metric, cfg>>

\* cpu_temp without a plausible sensor value: forget everything but the cooldown.
SensorMissing ==
  /\ "missing" \in Reading
  /\ startedAt' = Zero /\ normalSince' = Zero /\ firedLevel' = "none"
  /\ out' = "none"
  /\ Observe("missing")
  /\ UNCHANGED <<metric, cfg, lastNotified>>

OnStatus == (\E level \in Bad : Abnormal(level)) \/ Normal \/ SensorMissing

\* UpdateConfig: a zero duration keeps the one in force.
UpdateConfig(c) ==
  /\ cfg' = [hold |-> IF c.hold = 0 THEN cfg.hold ELSE c.hold,
             cooldown |-> IF c.cooldown = 0 THEN cfg.cooldown ELSE c.cooldown,
             recoveryHold |-> IF c.recoveryHold = 0 THEN cfg.recoveryHold ELSE c.recoveryHold,
             notifyRecovery |-> c.notifyRecovery]
  /\ out' = "quiet"
  /\ UNCHANGED <<metric, engine, seen>>

Older(age) == IF age = Zero \/ age = MaxAge THEN age ELSE age + 1

Tick ==
  /\ startedAt' = Older(startedAt) /\ normalSince' = Older(normalSince)
  /\ lastNotified' = Older(lastNotified)
  /\ badFor' = Older(badFor) /\ goodFor' = Older(goodFor) /\ toldAge' = Older(toldAge)
  /\ out' = "quiet"
  /\ UNCHANGED <<metric, cfg, firedLevel, reading, told, ended>>

Next == OnStatus \/ (\E c \in Config : UpdateConfig(c)) \/ Tick

Spec == Init /\ [][Next]_vars

\* The agent keeps reporting, whatever it reads, and time keeps passing.
FairSpec == Spec /\ WF_vars(OnStatus) /\ WF_vars(Tick)

-----------------------------------------------------------------------------
(* An alert is sent only after an uninterrupted abnormal run as long as the *)
(* hold: one normal or missing reading in between starts it over.           *)
HoldRespected == [][out' \in Bad => badFor' >= cfg.hold]_vars

(* A recovery notice closes an alert the operator was told about and was    *)
(* not told is over, after normal readings for the whole recovery hold.     *)
RecoveryIsHonest ==
  [][out' = "recovery" => told \in Bad /\ ~ended /\ goodFor >= cfg.recoveryHold]_vars

(* The same alert, or a milder one, is repeated within the cooldown only if *)
(* the metric recovered or lost its sensor since.                           *)
NoRepeatInEpisode ==
  [][(out' \in Bad /\ toldAge # Zero /\ toldAge < cfg.cooldown
        /\ levelRank(out') <= levelRank(told))
       => ended]_vars

(* A critical condition that outlasts the hold is known as critical to the  *)
(* operator at once: neither cooldown nor an earlier warning hides it.      *)
CriticalIsAnnounced ==
  [][(reading' = "critical" /\ OnStatus /\ badFor' >= cfg.hold) => told' = "critical"]_vars

(* What is sent is deserved, is not noise, and is not held back when it is  *)
(* critical (engine.go:414-700).                                            *)
AlertsAreHonest == HoldRespected /\ RecoveryIsHonest /\ NoRepeatInEpisode /\ CriticalIsAnnounced

(* A condition that stays is announced again and again.                     *)
KeepsReminding == <>[](reading \in Bad) => []<>(out \in Bad)
=============================================================================
