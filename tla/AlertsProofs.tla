-------------------------- MODULE AlertsProofs -------------------------------
(***************************************************************************)
(* Proofs about the way of an alert, from the reading to the channels.     *)
(***************************************************************************)
EXTENDS Alerts, FiniteSetTheorems, TLAPS

-----------------------------------------------------------------------------
(***************************************************************************)
(* MetricAlert, for every configuration and every duration.  The inductive *)
(* invariant ties the engine's four fields to what an operator saw: the    *)
(* start of the run, the last alert, the normal run.                       *)
(***************************************************************************)
\* startedAt is exactly the age of the abnormal run.
StartIsRun == startedAt = badFor

\* A fired metric is one whose last alert still stands; the cooldown then
\* runs from that alert.
FiredIsTold ==
  /\ firedLevel # "none" => told = firedLevel /\ ~ended /\ lastNotified = toldAge
  /\ firedLevel = "none" => ended \/ told = "none"
  /\ told = "none" => toldAge = Zero

\* The recovery hold never runs ahead of the normal run.
NormalIsRun == normalSince # Zero => goodFor >= normalSince

Inv == TypeOK /\ StartIsRun /\ FiredIsTold /\ NormalIsRun

USE DEF Zero, Age, Bad, ConfigType

\* The initial state satisfies the invariant.
LEMMA InitInv == Init => Inv
<1> SUFFICES ASSUME Init PROVE Inv
  OBVIOUS
<1>1. cfg \in ConfigType /\ metric \in Metric
  BY MetricAssumption DEF Init
<1>2. TypeOK
  <2>1. Zero \in Age
    BY MetricAssumption
  <2>2. /\ startedAt \in Age /\ normalSince \in Age /\ lastNotified \in Age
        /\ badFor \in Age /\ goodFor \in Age /\ toldAge \in Age
    BY <2>1 DEF Init
  <2>3. /\ firedLevel = "none" /\ reading = "none" /\ out = "quiet" /\ told = "none"
        /\ ended = FALSE
    BY DEF Init
  <2> QED
    BY <1>1, <2>2, <2>3 DEF TypeOK
<1>3. StartIsRun /\ FiredIsTold /\ NormalIsRun
  BY DEF Init, StartIsRun, FiredIsTold, NormalIsRun
<1> QED
  BY <1>2, <1>3 DEF Inv

\* An abnormal reading preserves the invariant, whether it alerts or not.
LEMMA AbnormalStep ==
  ASSUME Inv, NEW level \in Bad, Abnormal(level)
  PROVE  Inv'
<1>1. TypeOK'
  <2>1. /\ startedAt' \in Age /\ normalSince' \in Age /\ lastNotified' \in Age
        /\ firedLevel' \in Bad \cup {"none"}
    BY MetricAssumption DEF Inv, TypeOK, Abnormal
  <2>2. out' \in {level, "none"} /\ cfg' = cfg /\ metric' = metric
        /\ reading' = level /\ level \in Reading'
    BY DEF Abnormal, Reading, Observe
  <2>3. told' \in Bad \cup {"none", "recovered"} /\ ended' \in BOOLEAN
    BY <2>2 DEF Inv, TypeOK, Abnormal, Observe
  <2>4. badFor' \in Age /\ goodFor' \in Age /\ toldAge' \in Age
    BY MetricAssumption DEF Inv, TypeOK, Abnormal, Observe
  <2> QED
    BY <2>1, <2>2, <2>3, <2>4 DEF Inv, TypeOK
<1>2. StartIsRun'
  BY DEF Inv, StartIsRun, Abnormal, Observe
<1>3. FiredIsTold'
  BY MetricAssumption DEF Inv, TypeOK, FiredIsTold, Abnormal, Observe
<1>4. NormalIsRun'
  BY DEF NormalIsRun, Abnormal
<1> QED
  BY <1>1, <1>2, <1>3, <1>4 DEF Inv

\* A normal reading preserves the invariant, whether it recovers or not.
LEMMA NormalStep ==
  ASSUME Inv, Normal
  PROVE  Inv'
<1>1. CASE StillWaiting
  <2>1. TypeOK'
    BY <1>1, MetricAssumption DEF Inv, TypeOK, Normal, StillWaiting, Observe, ClearStart, Reading
  <2>2. StartIsRun'
    BY <1>1 DEF Normal, StillWaiting, Observe, ClearStart, StartIsRun
  <2>3. FiredIsTold'
    BY <1>1 DEF Inv, TypeOK, Normal, StillWaiting, Observe, FiredIsTold
  <2>4. NormalIsRun'
    BY <1>1, MetricAssumption DEF Inv, TypeOK, Normal, StillWaiting, Observe, NormalIsRun
  <2> QED
    BY <2>1, <2>2, <2>3, <2>4 DEF Inv
<1>2. CASE Recovers
  <2>1. TypeOK'
    BY <1>2, MetricAssumption DEF Inv, TypeOK, Normal, Recovers, Observe, ClearStart, Reading
  <2>2. StartIsRun' /\ NormalIsRun'
    BY <1>2 DEF Normal, Recovers, Observe, ClearStart, StartIsRun, NormalIsRun
  <2>3. FiredIsTold'
    BY <1>2 DEF Inv, TypeOK, Normal, Recovers, Observe, FiredIsTold
  <2> QED
    BY <2>1, <2>2, <2>3 DEF Inv
<1> QED
  BY <1>1, <1>2 DEF Normal

\* Losing the sensor preserves the invariant.
LEMMA MissingStep ==
  ASSUME Inv, SensorMissing
  PROVE  Inv'
<1>1. out' = "none" /\ told' = told /\ toldAge' = toldAge /\ ended' = TRUE
  BY DEF SensorMissing, Observe
<1>2. TypeOK'
  BY <1>1, MetricAssumption DEF Inv, TypeOK, SensorMissing, Observe, Reading
<1>3. StartIsRun' /\ FiredIsTold' /\ NormalIsRun'
  BY <1>1 DEF Inv, StartIsRun, FiredIsTold, NormalIsRun, SensorMissing, Observe
<1> QED
  BY <1>2, <1>3 DEF Inv

\* Editing the thresholds preserves the invariant.
LEMMA ConfigStep ==
  ASSUME Inv, NEW c \in Config, UpdateConfig(c)
  PROVE  Inv'
<1>1. c \in ConfigType /\ cfg \in ConfigType
  BY MetricAssumption DEF Inv, TypeOK
<1>2. cfg' \in ConfigType
  BY <1>1 DEF UpdateConfig
<1> QED
  BY <1>2 DEF Inv, TypeOK, StartIsRun, FiredIsTold, NormalIsRun, UpdateConfig, engine, seen, Reading

\* The passage of time preserves the invariant: saturated ages keep their order.
LEMMA TickStep ==
  ASSUME Inv, Tick
  PROVE  Inv'
<1>1. TypeOK'
  BY MetricAssumption DEF Inv, TypeOK, Tick, Older, Reading
<1>2. StartIsRun' /\ FiredIsTold'
  BY DEF Inv, StartIsRun, FiredIsTold, Tick, Older
<1>3. NormalIsRun'
  BY MetricAssumption DEF Inv, TypeOK, NormalIsRun, Tick, Older
<1> QED
  BY <1>1, <1>2, <1>3 DEF Inv

\* Every step preserves the invariant.
LEMMA NextInv == Inv /\ [Next]_vars => Inv'
<1> SUFFICES ASSUME Inv, [Next]_vars PROVE Inv'
  OBVIOUS
<1>1. CASE OnStatus
  BY <1>1, AbnormalStep, NormalStep, MissingStep DEF OnStatus
<1>2. ASSUME NEW c \in Config, UpdateConfig(c) PROVE Inv'
  BY <1>2, ConfigStep
<1>3. CASE Tick
  BY <1>3, TickStep
<1>4. CASE UNCHANGED vars
  BY <1>4 DEF vars, engine, seen, Inv, TypeOK, StartIsRun, FiredIsTold, NormalIsRun, Reading
<1> QED
  BY <1>1, <1>2, <1>3, <1>4 DEF Next

\* Every reachable state satisfies the inductive invariant.
THEOREM Invariance == Spec => []Inv
BY InitInv, NextInv, PTL DEF Spec

\* The variables keep their types.
THEOREM TypeCorrect == Spec => []TypeOK
<1>1. Inv => TypeOK
  BY DEF Inv
<1> QED
  BY <1>1, Invariance, PTL

\* Which steps send an alert: only an abnormal reading for which shouldFire holds.
LEMMA AlertsComeFrom ==
  ASSUME Inv, [Next]_vars, out' \in Bad, out' # out \/ ~UNCHANGED vars
  PROVE  /\ Abnormal(out') /\ badFor' >= cfg.hold
         /\ \/ lastNotified = Zero \/ lastNotified >= cfg.cooldown
            \/ levelRank(out') > levelRank(firedLevel)
<1>1. PICK level \in Bad : Abnormal(level)
  BY DEF Next, OnStatus, Normal, StillWaiting, Recovers, SensorMissing, UpdateConfig, Tick, vars
<1>2. shouldFire(IF startedAt = Zero THEN 0 ELSE startedAt, level) /\ out' = level
  BY <1>1 DEF Abnormal
<1>3. badFor' = IF startedAt = Zero THEN 0 ELSE startedAt
  BY <1>1 DEF Abnormal, Observe, Inv, StartIsRun
<1> QED
  BY <1>1, <1>2, <1>3 DEF shouldFire

\* No alert before the condition has lasted for the hold (engine.go:431-437).
THEOREM NoEarlyAlert == Spec => HoldRespected
<1>1. Inv /\ [Next]_vars => [out' \in Bad => badFor' >= cfg.hold]_vars
  BY AlertsComeFrom
<1> QED
  BY <1>1, Invariance, PTL DEF Spec, HoldRespected

\* The cooldown holds within an episode (engine.go:438-442).
THEOREM CooldownWithinEpisode == Spec => NoRepeatInEpisode
<1> DEFINE A == (out' \in Bad /\ toldAge # Zero /\ toldAge < cfg.cooldown
                   /\ levelRank(out') <= levelRank(told)) => ended
<1>1. Inv /\ [Next]_vars => [A]_vars
  <2> SUFFICES ASSUME Inv, [Next]_vars, ~UNCHANGED vars, out' \in Bad, toldAge # Zero,
                      toldAge < cfg.cooldown, levelRank(out') <= levelRank(told), ~ended
               PROVE  FALSE
    OBVIOUS
  <2>1. \/ lastNotified = Zero \/ lastNotified >= cfg.cooldown
        \/ levelRank(out') > levelRank(firedLevel)
    BY AlertsComeFrom
  <2>2. told # "none"
    BY DEF Inv, FiredIsTold
  <2>3. firedLevel # "none" /\ told = firedLevel /\ lastNotified = toldAge
    BY <2>2 DEF Inv, FiredIsTold
  <2> QED
    BY <2>1, <2>3 DEF Inv, TypeOK, levelRank
<1> QED
  BY <1>1, Invariance, PTL DEF Spec, NoRepeatInEpisode

\* A recovery notice always closes an alert that still stood, after the
\* whole recovery hold (engine.go:446-454).
THEOREM RecoveryTheorem == Spec => RecoveryIsHonest
<1> DEFINE A == out' = "recovery" => told \in Bad /\ ~ended /\ goodFor >= cfg.recoveryHold
<1>1. Inv /\ [Next]_vars => [A]_vars
  <2> SUFFICES ASSUME Inv, [Next]_vars, ~UNCHANGED vars, out' = "recovery"
               PROVE  told \in Bad /\ ~ended /\ goodFor >= cfg.recoveryHold
    OBVIOUS
  <2>1. Recovers
    BY DEF Next, OnStatus, Abnormal, Normal, StillWaiting, SensorMissing, UpdateConfig, Tick, vars
  <2> QED
    BY <2>1 DEF Recovers, shouldRecover, Inv, TypeOK, FiredIsTold, NormalIsRun
<1> QED
  BY <1>1, Invariance, PTL DEF Spec, RecoveryIsHonest

\* A critical condition that outlasts the hold is announced as critical at
\* once, whatever the cooldown (engine.go:438-442).
THEOREM CriticalTheorem == Spec => CriticalIsAnnounced
<1> DEFINE A == (reading' = "critical" /\ OnStatus /\ badFor' >= cfg.hold) => told' = "critical"
<1>1. Inv /\ [Next]_vars => [A]_vars
  <2> SUFFICES ASSUME Inv, OnStatus, reading' = "critical", badFor' >= cfg.hold
               PROVE  told' = "critical"
    OBVIOUS
  <2>1. Abnormal("critical")
    BY DEF OnStatus, Abnormal, Normal, SensorMissing, Observe
  <2>2. badFor' = IF startedAt = Zero THEN 0 ELSE startedAt
    BY <2>1 DEF Abnormal, Observe, Inv, StartIsRun
  <2>3. CASE shouldFire(IF startedAt = Zero THEN 0 ELSE startedAt, "critical")
    BY <2>1, <2>3 DEF Abnormal, Observe
  <2>4. CASE ~shouldFire(IF startedAt = Zero THEN 0 ELSE startedAt, "critical")
    <3>1. ~(levelRank("critical") > levelRank(firedLevel))
      BY <2>2, <2>4 DEF shouldFire
    <3>2. firedLevel = "critical"
      BY <3>1 DEF levelRank, Inv, TypeOK
    <3> QED
      BY <2>1, <2>4, <3>2 DEF Abnormal, Observe, Inv, FiredIsTold
  <2> QED
    BY <2>3, <2>4
<1> QED
  BY <1>1, Invariance, PTL DEF Spec, CriticalIsAnnounced
\* The four of them.
THEOREM AlertsTheorem == Spec => AlertsAreHonest
BY NoEarlyAlert, CooldownWithinEpisode, RecoveryTheorem, CriticalTheorem DEF AlertsAreHonest

-----------------------------------------------------------------------------
(***************************************************************************)
(* NotifyManager, for any number of alerts, callers, timers, channels and  *)
(* slots.  An alert is in one place at a time: not accepted yet, in the    *)
(* batch, in the hands of one goroutine, or past it; on each channel it    *)
(* has a fate once a goroutine came to that channel with it.               *)
(***************************************************************************)
\* The instance's sets are finite as the library's are, and as large.
LEMMA SameSets ==
  \A S : /\ Manager!IsFiniteSet(S) <=> IsFiniteSet(S)
         /\ Manager!Cardinality(S) = Cardinality(S)
BY DEF Manager!Cardinality, Manager!IsFiniteSet, Cardinality, IsFiniteSet

Untouched(a) == \A n \in Manager!Channel : fate[a][n] = "none"

\* The window: a batch has a timer, and a registered timer is going to flush.
TimerIsAlive ==
  /\ batch # {} => batchTimer # None
  /\ batchTimer # None => timer[batchTimer] \in {"armed", "fired"} \/ main = "flushing"

\* Alerts of the batch, or not accepted yet, have met no channel and are with nobody.
Waiting ==
  /\ batch \subseteq accepted
  /\ \A a \in Alert : (a \in batch \/ a \notin accepted) =>
       Untouched(a) /\ \A w \in Manager!Worker : a \notin load[w]

\* An alert is in one goroutine's hands, which has not come to the channels ahead.
OneHand ==
  \A w \in Manager!Worker : \A a \in load[w] :
    /\ \A v \in Manager!Worker : a \in load[v] => v = w
    /\ \A n \in Manager!Channel : n >= next[w] => fate[a][n] = "none"

\* A send under way is the fate of its alerts, and of no other send.
OneSend ==
  /\ IsFiniteSet(sends)
  /\ \A s \in sends : \A a \in s.alerts : fate[a][s.to] = "sending"
  /\ \A s, r \in sends : s.to = r.to /\ s.alerts \cap r.alerts # {} => s = r

ManagerInv == Manager!TypeOK /\ TimerIsAlive /\ Waiting /\ OneHand /\ OneSend

\* Nothing was accepted.
LEMMA ManagerInit ==
  ASSUME Manager!NotifyAssumption, Manager!Init PROVE ManagerInv
<1> USE DEF Manager!NotifyAssumption
<1>1. IsFiniteSet({}) /\ Cardinality({}) = 0
  BY FS_EmptySet
<1>2. Manager!TypeOK
  BY <1>1, SameSets DEF Manager!Init, Manager!TypeOK, Manager!Channel
<1>3. TimerIsAlive /\ Waiting /\ OneHand
  BY DEF Manager!Init, TimerIsAlive, Waiting, OneHand, Untouched
<1>4. OneSend
  BY <1>1 DEF Manager!Init, OneSend
<1> QED
  BY <1>2, <1>3, <1>4 DEF ManagerInv

\* What a goroutine dispatches comes from the batch, or was not accepted before.
LEMMA DispatchStep ==
  ASSUME Manager!NotifyAssumption, ManagerInv, NEW w \in Manager!Worker, NEW M \in SUBSET Alert, Manager!Dispatch(w, M),
         M = batch \/ (\E a \in Alert : M = {a} /\ a \notin accepted),
         batch' = batch \ M, accepted' = accepted \cup M,
         UNCHANGED <<fate, sends>>
  PROVE  /\ load' \in [Manager!Worker -> SUBSET Alert] /\ next' \in [Manager!Worker -> Manager!Channel]
         /\ waiting' \in [Manager!Worker -> BOOLEAN]
         /\ Waiting' /\ OneHand' /\ OneSend'
<1> USE DEF ManagerInv
<1>1. 1 \in Manager!Channel
  BY DEF Manager!NotifyAssumption, Manager!Channel
<1>2. /\ load' \in [Manager!Worker -> SUBSET Alert] /\ next' \in [Manager!Worker -> Manager!Channel]
      /\ waiting' \in [Manager!Worker -> BOOLEAN]
  BY <1>1 DEF Manager!Dispatch, Manager!TypeOK
<1>3. \A a \in M : a \in Alert /\ Untouched(a) /\ \A v \in Manager!Worker : a \notin load[v]
  BY DEF Waiting
<1>4. load' = [load EXCEPT ![w] = M] /\ next' = [next EXCEPT ![w] = 1]
  BY DEF Manager!Dispatch
<1>5. \A v \in Manager!Worker : load'[v] = IF v = w THEN M ELSE load[v]
  BY <1>4 DEF Manager!TypeOK
<1>6. Waiting'
  BY <1>5 DEF Waiting, Untouched
<1>7. OneHand'
  <2> SUFFICES ASSUME NEW v \in Manager!Worker, NEW a \in load'[v]
               PROVE  /\ \A u \in Manager!Worker : a \in load'[u] => u = v
                      /\ \A n \in Manager!Channel : n >= next'[v] => fate'[a][n] = "none"
    BY DEF OneHand
  <2>1. CASE v = w
    BY <1>3, <1>5, <2>1 DEF Untouched
  <2>2. CASE v # w
    BY <1>3, <1>4, <1>5, <2>2 DEF OneHand, Manager!TypeOK
  <2> QED
    BY <2>1, <2>2
<1>8. OneSend'
  BY DEF OneSend
<1> QED
  BY <1>2, <1>6, <1>7, <1>8

LEMMA NotifyStep ==
  ASSUME Manager!NotifyAssumption, ManagerInv, NEW c \in Caller, NEW a \in Alert, Manager!Notify(c, a)
  PROVE  ManagerInv'
<1> USE DEF ManagerInv
<1>1. c \in Manager!Worker
  BY DEF Manager!Worker
<1>2. /\ a \notin accepted /\ accepted' = accepted \cup {a}
      /\ UNCHANGED <<sem, sends, main, fate, pending>>
  BY DEF Manager!Notify
<1>3. CASE Manager!addToBatch(a) /\ UNCHANGED Manager!dispatching
  <2>1. Manager!TypeOK'
    BY <1>2, <1>3 DEF Manager!addToBatch, Manager!TypeOK, Manager!config, Manager!dispatching
  <2>2. TimerIsAlive'
    BY <1>2, <1>3 DEF Manager!NotifyAssumption, Manager!addToBatch, Manager!TypeOK, TimerIsAlive
  <2>3. Waiting' /\ OneHand' /\ OneSend'
    BY <1>2, <1>3 DEF Manager!addToBatch, Manager!dispatching, Waiting, OneHand, OneSend, Untouched
  <2> QED
    BY <2>1, <2>2, <2>3
<1>4. CASE Manager!Dispatch(c, {a}) /\ UNCHANGED Manager!window
  <2>1. batch' = batch \ {a}
    BY <1>2, <1>4 DEF Waiting, Manager!window
  <2>2. /\ load' \in [Manager!Worker -> SUBSET Alert] /\ next' \in [Manager!Worker -> Manager!Channel]
        /\ waiting' \in [Manager!Worker -> BOOLEAN]
        /\ Waiting' /\ OneHand' /\ OneSend'
    BY <1>1, <1>2, <1>4, <2>1, DispatchStep
  <2>3. Manager!TypeOK' /\ TimerIsAlive'
    BY <1>2, <1>4, <2>2 DEF Manager!TypeOK, TimerIsAlive, Manager!window, Manager!config
  <2> QED
    BY <2>2, <2>3
<1> QED
  BY <1>3, <1>4 DEF Manager!Notify

\* A flush hands the batch over and leaves no window.
LEMMA FlushStep ==
  ASSUME Manager!NotifyAssumption, ManagerInv, NEW w \in Manager!Worker, Manager!flushBatch(w), UNCHANGED <<Manager!config, sem, sends, Manager!seen>>,
         timer' \in [Timer -> {"idle", "armed", "fired"}],
         main' \in {"running", "flushing", "returning", "exited"}
  PROVE  ManagerInv'
<1> USE DEF ManagerInv
<1>1. batch \in SUBSET Alert /\ batch' = batch \ batch /\ accepted' = accepted \cup batch
  BY DEF Manager!flushBatch, Manager!TypeOK, Waiting, Manager!seen
<1>2. /\ load' \in [Manager!Worker -> SUBSET Alert] /\ next' \in [Manager!Worker -> Manager!Channel]
      /\ waiting' \in [Manager!Worker -> BOOLEAN]
      /\ Waiting' /\ OneHand' /\ OneSend'
  BY <1>1, DispatchStep DEF Manager!flushBatch, Manager!seen
<1>3. Manager!TypeOK' /\ TimerIsAlive'
  BY <1>1, <1>2 DEF Manager!TypeOK, TimerIsAlive, Manager!flushBatch, Manager!config, Manager!seen
<1> QED
  BY <1>2, <1>3

\* A message moves on to the next channel, its alerts with a fate on this one.
LEMMA AdvanceStep ==
  ASSUME Manager!NotifyAssumption, ManagerInv, NEW w \in Manager!Worker, NEW f \in {"sending", "dropped"},
         Manager!Meet(w, f), Manager!Advance(w), UNCHANGED <<batch, accepted>>
  PROVE  /\ load' \in [Manager!Worker -> SUBSET Alert] /\ next' \in [Manager!Worker -> Manager!Channel]
         /\ waiting' \in [Manager!Worker -> BOOLEAN]
         /\ fate' \in [Alert -> [Manager!Channel -> {"none", "sending"} \cup Manager!Settled]]
         /\ Waiting' /\ OneHand'
         /\ \A s \in sends : \A a \in s.alerts : fate'[a][s.to] = "sending"
<1> USE DEF ManagerInv
<1>1. next[w] \in Manager!Channel /\ Channels \in Nat \ {0}
  BY DEF Manager!NotifyAssumption, Manager!TypeOK
<1>2. /\ load' \in [Manager!Worker -> SUBSET Alert] /\ next' \in [Manager!Worker -> Manager!Channel]
      /\ waiting' \in [Manager!Worker -> BOOLEAN]
      /\ \A v \in Manager!Worker : (load'[v] = load[v] /\ next'[v] = next[v]) \/ v = w
      /\ load'[w] = {} \/ (load'[w] = load[w] /\ next'[w] = next[w] + 1)
  <2>1. 1 \in Manager!Channel /\ (next[w] # Channels => next[w] + 1 \in Manager!Channel)
    BY <1>1 DEF Manager!Channel
  <2>2. /\ load \in [Manager!Worker -> SUBSET Alert] /\ next \in [Manager!Worker -> Manager!Channel]
        /\ waiting' \in [Manager!Worker -> BOOLEAN]
    BY DEF Manager!Advance, Manager!TypeOK
  <2>3. CASE next[w] = Channels
    <3>1. load' = [load EXCEPT ![w] = {}]
      BY <2>3 DEF Manager!Advance
    <3>2. next' = [next EXCEPT ![w] = 1]
      BY <2>3 DEF Manager!Advance
    <3>3. load' \in [Manager!Worker -> SUBSET Alert] /\ load'[w] = {} /\ \A v \in Manager!Worker \ {w} : load'[v] = load[v]
      BY <2>2, <3>1
    <3>4. next' \in [Manager!Worker -> Manager!Channel] /\ \A v \in Manager!Worker \ {w} : next'[v] = next[v]
      BY <2>1, <2>2, <3>2
    <3> QED
      <4>1. \A v \in Manager!Worker : (load'[v] = load[v] /\ next'[v] = next[v]) \/ v = w
        BY <3>3, <3>4
      <4> QED
        BY <2>2, <3>3, <3>4, <4>1
  <2>4. CASE next[w] # Channels
    <3>1. load' = load /\ next' = [next EXCEPT ![w] = next[w] + 1]
      BY <2>4 DEF Manager!Advance
    <3>2. /\ next' \in [Manager!Worker -> Manager!Channel] /\ next'[w] = next[w] + 1
          /\ \A v \in Manager!Worker \ {w} : next'[v] = next[v]
      BY <2>1, <2>2, <2>4, <3>1
    <3> QED
      BY <2>2, <3>1, <3>2
  <2> QED
    BY <2>3, <2>4
<1>3. fate' \in [Alert -> [Manager!Channel -> {"none", "sending"} \cup Manager!Settled]]
  BY DEF Manager!Meet, Manager!TypeOK, Manager!Settled
<1>4. \A a \in Alert, n \in Manager!Channel :
        fate'[a][n] = IF a \in load[w] /\ n = next[w] THEN f ELSE fate[a][n]
  BY <1>1 DEF Manager!Meet, Manager!TypeOK
<1>5. Waiting'
  <2>1. \A v \in Manager!Worker : load'[v] \subseteq load[v]
    BY <1>2
  <2>2. ASSUME NEW a \in Alert, a \in batch \/ a \notin accepted
        PROVE  /\ \A v \in Manager!Worker : a \notin load[v] /\ a \notin load'[v]
               /\ \A n \in Manager!Channel : fate'[a][n] = "none"
    BY <1>4, <2>1, <2>2 DEF Waiting, Untouched
  <2> QED
    BY <2>2 DEF Waiting, Untouched
<1>6. OneHand'
  <2> SUFFICES ASSUME NEW v \in Manager!Worker, NEW a \in load'[v]
               PROVE  /\ \A u \in Manager!Worker : a \in load'[u] => u = v
                      /\ \A n \in Manager!Channel : n >= next'[v] => fate'[a][n] = "none"
    BY DEF OneHand
  <2>1. a \in load[v] /\ a \in Alert
    BY <1>2 DEF Manager!TypeOK
  <2>2. \A u \in Manager!Worker : a \in load'[u] => u = v
    BY <1>2, <2>1 DEF OneHand
  <2>3. CASE v = w
    <3>1. next'[w] = next[w] + 1 /\ next[w] \in Nat /\ Manager!Channel \subseteq Nat
      BY <1>1, <1>2, <2>3 DEF Manager!Channel
    <3> QED
      BY <1>4, <2>1, <2>2, <2>3, <3>1 DEF OneHand
  <2>4. CASE v # w
    BY <1>2, <1>4, <2>1, <2>2, <2>4 DEF OneHand
  <2> QED
    BY <2>3, <2>4
<1>7. \A s \in sends : \A a \in s.alerts : fate'[a][s.to] = "sending"
  <2> SUFFICES ASSUME NEW s \in sends, NEW a \in s.alerts PROVE fate'[a][s.to] = "sending"
    OBVIOUS
  <2>1. a \in Alert /\ s.to \in Manager!Channel /\ fate[a][s.to] = "sending"
    BY DEF Manager!TypeOK, OneSend
  <2>2. ~(a \in load[w] /\ s.to = next[w])
    BY <1>1, <2>1 DEF OneHand, Manager!Channel
  <2> QED
    BY <1>4, <2>1, <2>2
<1> QED
  BY <1>2, <1>3, <1>5, <1>6, <1>7

LEMMA SendStep ==
  ASSUME Manager!NotifyAssumption, ManagerInv, NEW w \in Manager!Worker, Manager!sendAsync(w)
  PROVE  ManagerInv'
<1> DEFINE new == [alerts |-> load[w], to |-> next[w]]
<1> USE DEF ManagerInv
<1>1. /\ load[w] # {} /\ sem < MaxSends /\ sem' = sem + 1 /\ sends' = sends \cup {new}
      /\ Manager!Meet(w, "sending") /\ Manager!Advance(w)
      /\ UNCHANGED <<Manager!window, main, accepted, pending>>
  BY DEF Manager!sendAsync
<1>2. UNCHANGED <<batch, accepted>>
  BY <1>1 DEF Manager!window
<1>3. /\ load' \in [Manager!Worker -> SUBSET Alert] /\ next' \in [Manager!Worker -> Manager!Channel]
      /\ waiting' \in [Manager!Worker -> BOOLEAN]
      /\ fate' \in [Alert -> [Manager!Channel -> {"none", "sending"} \cup Manager!Settled]]
      /\ Waiting' /\ OneHand'
      /\ \A s \in sends : \A a \in s.alerts : fate'[a][s.to] = "sending"
  BY <1>1, <1>2, AdvanceStep
<1>4. new \in [alerts : SUBSET Alert, to : Manager!Channel] /\ new.alerts = load[w] /\ new.to = next[w]
  BY DEF Manager!TypeOK
<1>5. \A a \in load[w] : a \in Alert /\ fate[a][next[w]] = "none" /\ fate'[a][next[w]] = "sending"
  <2> SUFFICES ASSUME NEW a \in load[w]
               PROVE  a \in Alert /\ fate[a][next[w]] = "none" /\ fate'[a][next[w]] = "sending"
    OBVIOUS
  <2>1. a \in Alert /\ next[w] \in Manager!Channel
    BY DEF Manager!TypeOK
  <2>2. next[w] >= next[w]
    BY <2>1 DEF Manager!Channel
  <2>3. fate'[a][next[w]] = "sending"
    BY <1>1, <2>1 DEF Manager!Meet, Manager!TypeOK
  <2> QED
    BY <2>1, <2>2, <2>3 DEF OneHand
<1>6. \A s \in sends : s.to = next[w] => s.alerts \cap load[w] = {}
  BY <1>5 DEF OneSend
<1>7. new \notin sends
  <2>1. \E a \in load[w] : a \in new.alerts \cap load[w]
    BY <1>1, <1>4
  <2> QED
    BY <1>4, <1>6, <2>1
<1>8. IsFiniteSet(sends') /\ Cardinality(sends') = Cardinality(sends) + 1
  BY <1>1, <1>7, FS_AddElement DEF OneSend
<1>9. OneSend'
  <2>1. \A s \in sends' : \A a \in s.alerts : fate'[a][s.to] = "sending"
    BY <1>1, <1>3, <1>4, <1>5
  <2>2. \A s, r \in sends' : s.to = r.to /\ s.alerts \cap r.alerts # {} => s = r
    BY <1>1, <1>4, <1>6 DEF OneSend
  <2> QED
    BY <1>8, <2>1, <2>2 DEF OneSend
<1>10. sem' \in 0 .. MaxSends /\ sem' = Cardinality(sends')
  BY <1>1, <1>8, SameSets DEF Manager!NotifyAssumption, Manager!TypeOK
<1>11. Manager!TypeOK' /\ TimerIsAlive'
  BY <1>1, <1>3, <1>4, <1>10, SameSets DEF Manager!TypeOK, TimerIsAlive, Manager!window, Manager!config
<1> QED
  BY <1>3, <1>9, <1>11

\* An alert is given up on this channel.
LEMMA DropStep ==
  ASSUME Manager!NotifyAssumption, ManagerInv, NEW w \in Manager!Worker, Manager!Meet(w, "dropped"), Manager!Advance(w),
         UNCHANGED <<Manager!window, sem, sends, main, accepted, pending>>
  PROVE  ManagerInv'
<1> USE DEF ManagerInv
<1>1. UNCHANGED <<batch, accepted>>
  BY DEF Manager!window
<1>2. /\ load' \in [Manager!Worker -> SUBSET Alert] /\ next' \in [Manager!Worker -> Manager!Channel]
      /\ waiting' \in [Manager!Worker -> BOOLEAN]
      /\ fate' \in [Alert -> [Manager!Channel -> {"none", "sending"} \cup Manager!Settled]]
      /\ Waiting' /\ OneHand'
      /\ \A s \in sends : \A a \in s.alerts : fate'[a][s.to] = "sending"
  BY <1>1, AdvanceStep
<1>3. Manager!TypeOK' /\ TimerIsAlive' /\ OneSend'
  BY <1>2 DEF Manager!TypeOK, TimerIsAlive, OneSend, Manager!window, Manager!config
<1> QED
  BY <1>2, <1>3

LEMMA FinishStep ==
  ASSUME Manager!NotifyAssumption, ManagerInv, NEW s \in sends, NEW outcome \in {"sent", "failed"}, Manager!Finish(s, outcome)
  PROVE  ManagerInv'
<1> USE DEF ManagerInv
<1>1. /\ sends' = sends \ {s} /\ sem' = sem - 1
      /\ UNCHANGED <<Manager!window, Manager!dispatching, main, accepted, pending>>
  BY DEF Manager!Finish, Manager!Slots
<1>2. s.to \in Manager!Channel /\ s.alerts \subseteq Alert
  BY DEF Manager!TypeOK
<1>3. \A a \in Alert, n \in Manager!Channel :
        fate'[a][n] = IF a \in s.alerts /\ n = s.to THEN outcome ELSE fate[a][n]
  BY <1>2 DEF Manager!Finish, Manager!TypeOK
<1>4. fate' \in [Alert -> [Manager!Channel -> {"none", "sending"} \cup Manager!Settled]]
  BY DEF Manager!Finish, Manager!TypeOK, Manager!Settled
<1>5. \A a \in s.alerts : fate[a][s.to] # "none"
  BY DEF OneSend
<1>6. IsFiniteSet(sends') /\ Cardinality(sends') = Cardinality(sends) - 1
  BY <1>1, FS_RemoveElement DEF OneSend
<1>7. sem' \in 0 .. MaxSends /\ sem' = Cardinality(sends')
  <2>1. Cardinality(sends') \in Nat /\ MaxSends \in Nat /\ sem \in 0 .. MaxSends /\ sem = Cardinality(sends)
    BY <1>6, FS_CardinalityType, SameSets DEF Manager!NotifyAssumption, Manager!TypeOK
  <2> QED
    BY <1>1, <1>6, <2>1
<1>8. Manager!TypeOK' /\ TimerIsAlive'
  BY <1>1, <1>4, <1>7, SameSets DEF Manager!TypeOK, TimerIsAlive, Manager!window, Manager!config, Manager!dispatching
<1>9. Waiting' /\ OneHand'
  BY <1>1, <1>3, <1>5 DEF Waiting, OneHand, Untouched, Manager!TypeOK, Manager!window, Manager!dispatching
<1>10. OneSend'
  <2>1. \A r \in sends' : r \in sends /\ r # s /\ r.to \in Manager!Channel /\ r.alerts \subseteq Alert
    BY <1>1 DEF Manager!TypeOK
  <2>2. \A r \in sends' : \A a \in r.alerts : ~(a \in s.alerts /\ r.to = s.to)
    BY <2>1 DEF OneSend
  <2> QED
    BY <1>3, <1>6, <2>1, <2>2 DEF OneSend
<1> QED
  BY <1>8, <1>9, <1>10

\* The window and main, while no alert moves.
LEMMA WindowStep ==
  ASSUME Manager!NotifyAssumption, ManagerInv, (\E t \in Timer : Manager!Fire(t)) \/ Manager!FlushStop \/ Manager!Exit
  PROVE  ManagerInv'
<1> USE DEF ManagerInv
<1>1. UNCHANGED <<batch, batchTimer, load, next, waiting, sem, sends, accepted, fate>>
  BY DEF Manager!Fire, Manager!FlushStop, Manager!Exit, Manager!window, Manager!dispatching, Manager!seen
<1>2. Manager!TypeOK'
  BY <1>1 DEF Manager!TypeOK, Manager!Fire, Manager!FlushStop, Manager!Exit, Manager!config, Manager!window, Manager!seen
<1>3. TimerIsAlive'
  BY <1>1 DEF Manager!NotifyAssumption, Manager!TypeOK, TimerIsAlive, Manager!Fire, Manager!FlushStop, Manager!Exit, Manager!window
<1>4. Waiting' /\ OneHand' /\ OneSend'
  BY <1>1 DEF Waiting, OneHand, OneSend, Untouched
<1> QED
  BY <1>2, <1>3, <1>4

\* Nothing changes, but for who waits for a slot.
LEMMA QuietStep ==
  ASSUME ManagerInv, UNCHANGED <<Manager!window, load, next, sem, sends, main, Manager!seen>>,
         waiting' \in [Manager!Worker -> BOOLEAN]
  PROVE  ManagerInv'
<1> USE DEF ManagerInv, Manager!window, Manager!config, Manager!seen
<1>1. Manager!TypeOK'
  BY DEF Manager!TypeOK
<1>2. TimerIsAlive' /\ Waiting' /\ OneHand'
  BY DEF TimerIsAlive, Waiting, OneHand, Untouched
<1>3. OneSend'
  BY DEF OneSend
<1> QED
  BY <1>1, <1>2, <1>3

\* Every step keeps the invariant.
LEMMA ManagerNext ==
  ASSUME Manager!NotifyAssumption, ManagerInv, [Manager!Next]_(Manager!vars) PROVE ManagerInv'
<1>1. ASSUME NEW t \in Timer, Manager!FlushOnTimer(t) PROVE ManagerInv'
  BY <1>1, FlushStep DEF Manager!FlushOnTimer, ManagerInv, Manager!TypeOK, Manager!Worker
<1>2. CASE Manager!FlushSend
  BY <1>2, FlushStep DEF Manager!FlushSend, ManagerInv, Manager!TypeOK, Manager!Worker
<1>3. ASSUME NEW w \in Manager!Worker, Manager!Saturated(w) PROVE ManagerInv'
  <2>1. CASE Manager!IsCritical(load[w])
    <3>1. UNCHANGED <<Manager!window, load, next, sem, sends, main, Manager!seen>>
      BY <1>3, <2>1 DEF Manager!Saturated, Manager!seen
    <3>2. waiting' \in [Manager!Worker -> BOOLEAN]
      BY <1>3, <2>1 DEF Manager!Saturated, ManagerInv, Manager!TypeOK
    <3> QED
      BY <3>1, <3>2, QuietStep
  <2>2. CASE ~Manager!IsCritical(load[w])
    BY <1>3, <2>2, DropStep DEF Manager!Saturated
  <2> QED
    BY <2>1, <2>2
<1>4. ASSUME NEW w \in Manager!Worker, Manager!GiveUp(w) PROVE ManagerInv'
  BY <1>4, DropStep DEF Manager!GiveUp
<1>5. CASE UNCHANGED Manager!vars
  BY <1>5, QuietStep DEF ManagerInv, Manager!TypeOK, Manager!vars, Manager!dispatching
<1> QED
  BY <1>1, <1>2, <1>3, <1>4, <1>5, NotifyStep, SendStep, FinishStep, WindowStep
     DEF Manager!Next, Manager!System, Manager!Step

(* The invariant holds whatever timers, callers and sends meet.            *)
THEOREM ManagerInvariance == Manager!Spec => []ManagerInv
<1>1. Manager!Init => ManagerInv
  BY ManagerAssumption, ManagerInit
<1>2. ManagerInv /\ [Manager!Next]_(Manager!vars) => ManagerInv'
  BY ManagerAssumption, ManagerNext
<1> QED
  BY <1>1, <1>2, PTL DEF Manager!Spec

(* The variables keep their types; a slot is taken for each send under way *)
(* and given back with it, and there are never more than MaxSends          *)
(* (src/pkg/notify/manager.go:348-379).                                    *)
THEOREM ManagerTypes == Manager!Spec => []Manager!TypeOK
<1>1. Manager!Spec => []ManagerInv
  BY ManagerInvariance
<1>2. ManagerInv => Manager!TypeOK
  BY DEF ManagerInv
<1> QED
  BY <1>1, <1>2, PTL

(* An alert in the batch has somebody who will flush it, whatever Flush    *)
(* and late timer goroutines did to the window before                      *)
(* (src/pkg/notify/manager.go:232-258, 388-400).                           *)
THEOREM BatchTheorem == Manager!Spec => []NoStrandedBatch
<1>1. Manager!Spec => []ManagerInv
  BY ManagerInvariance
<1>2. ManagerInv => NoStrandedBatch
  BY DEF ManagerInv, Manager!TypeOK, TimerIsAlive, NoStrandedBatch, Manager!NoStrandedBatch
<1> QED
  BY <1>1, <1>2, PTL

\* A channel's fate of an alert changes only in these ways.
LEMMA FateStep ==
  ASSUME Manager!NotifyAssumption, ManagerInv, [Manager!Next]_(Manager!vars), NEW a \in Alert, NEW n \in Manager!Channel,
         fate'[a][n] # fate[a][n]
  PROVE  \/ fate[a][n] = "none" /\ fate'[a][n] = "sending"
         \/ /\ fate[a][n] = "none" /\ fate'[a][n] = "dropped"
            /\ \E w \in Manager!Worker :
                 a \in load[w] /\ next[w] = n /\ (waiting[w] \/ ~Manager!IsCritical(load[w]))
         \/ fate[a][n] = "sending" /\ fate'[a][n] \in {"sent", "failed"}
<1>1. \A w \in Manager!Worker : next[w] \in Manager!Channel /\ Manager!Channel \subseteq Nat
  BY DEF ManagerInv, Manager!TypeOK, Manager!Channel
<1>2. ASSUME NEW w \in Manager!Worker, NEW f \in {"sending", "dropped"}, Manager!Meet(w, f)
      PROVE  a \in load[w] /\ n = next[w] /\ fate[a][n] = "none" /\ fate'[a][n] = f
  <2>1. a \in load[w] /\ n = next[w] /\ fate'[a][n] = f
    BY <1>2 DEF Manager!Meet, ManagerInv, Manager!TypeOK
  <2> QED
    BY <1>1, <2>1 DEF ManagerInv, OneHand
<1>3. ASSUME NEW w \in Manager!Worker, Manager!sendAsync(w)
      PROVE  fate[a][n] = "none" /\ fate'[a][n] = "sending"
  BY <1>2, <1>3 DEF Manager!sendAsync
<1>4. ASSUME NEW w \in Manager!Worker, Manager!Saturated(w) \/ Manager!GiveUp(w)
      PROVE  /\ fate[a][n] = "none" /\ fate'[a][n] = "dropped"
             /\ a \in load[w] /\ next[w] = n /\ (waiting[w] \/ ~Manager!IsCritical(load[w]))
  BY <1>2, <1>4 DEF Manager!Saturated, Manager!GiveUp
<1>5. ASSUME NEW s \in sends, NEW outcome \in {"sent", "failed"}, Manager!Finish(s, outcome)
      PROVE  fate[a][n] = "sending" /\ fate'[a][n] \in {"sent", "failed"}
  <2>1. a \in s.alerts /\ n = s.to /\ fate'[a][n] = outcome
    BY <1>5 DEF Manager!Finish, ManagerInv, Manager!TypeOK
  <2> QED
    BY <2>1 DEF ManagerInv, OneSend
<1>6. ASSUME \/ \E c \in Caller, b \in Alert : Manager!Notify(c, b)
             \/ Manager!FlushStop \/ Manager!FlushSend \/ Manager!Exit \/ UNCHANGED Manager!vars
             \/ \E t \in Timer : Manager!Fire(t) \/ Manager!FlushOnTimer(t)
      PROVE  FALSE
  BY <1>6 DEF Manager!Notify, Manager!FlushStop, Manager!FlushSend, Manager!Exit, Manager!Fire, Manager!FlushOnTimer, Manager!vars, Manager!seen
<1> QED
  BY <1>3, <1>4, <1>5, <1>6 DEF Manager!Next, Manager!System, Manager!Step

(* No alert goes out twice to a channel, although windows are flushed by   *)
(* several goroutines, and none that is critical is dropped unless its     *)
(* goroutine waited for a slot (src/pkg/notify/manager.go:242-379).        *)
THEOREM SendsTheorem == Manager!Spec => SendsAreOrderly
<1>1. Manager!Spec => []ManagerInv
  BY ManagerInvariance
<1>2. ManagerInv /\ [Manager!Next]_(Manager!vars) =>
        \A a \in Alert, n \in Manager!Channel :
          fate'[a][n] # fate[a][n] =>
            \/ fate[a][n] = "none" /\ fate'[a][n] \in {"sending", "dropped"}
            \/ fate[a][n] = "sending" /\ fate'[a][n] \in {"sent", "failed"}
  BY ManagerAssumption, FateStep
<1>3. ManagerInv /\ [Manager!Next]_(Manager!vars) =>
        \A a \in Critical, n \in Manager!Channel :
          (fate[a][n] # "dropped" /\ fate'[a][n] = "dropped")
            => \E w \in Manager!Worker : waiting[w] /\ a \in load[w] /\ next[w] = n
  <2> SUFFICES ASSUME ManagerInv, [Manager!Next]_(Manager!vars), NEW a \in Critical, NEW n \in Manager!Channel,
                      fate[a][n] # "dropped", fate'[a][n] = "dropped"
               PROVE  \E w \in Manager!Worker : waiting[w] /\ a \in load[w] /\ next[w] = n
    OBVIOUS
  <2>1. a \in Alert
    BY ManagerAssumption DEF Manager!NotifyAssumption
  <2>2. PICK w \in Manager!Worker : a \in load[w] /\ next[w] = n /\ (waiting[w] \/ ~Manager!IsCritical(load[w]))
    <3>1. fate'[a][n] # fate[a][n] /\ fate'[a][n] = "dropped"
      OBVIOUS
    <3>2. \/ fate[a][n] = "none" /\ fate'[a][n] = "sending"
          \/ \E w \in Manager!Worker : a \in load[w] /\ next[w] = n /\ (waiting[w] \/ ~Manager!IsCritical(load[w]))
          \/ fate'[a][n] \in {"sent", "failed"}
      BY <2>1, <3>1, ManagerAssumption, FateStep
    <3> QED
      BY <3>1, <3>2
  <2>3. Manager!IsCritical(load[w])
    BY <2>2 DEF Manager!IsCritical
  <2> QED
    BY <2>2, <2>3
<1>4. Manager!Spec => Manager!OnceEach
  BY <1>1, <1>2, PTL DEF Manager!Spec, Manager!OnceEach
<1>5. Manager!Spec => Manager!CriticalWaits
  BY <1>1, <1>3, PTL DEF Manager!Spec, Manager!CriticalWaits
<1> QED
  BY <1>4, <1>5 DEF SendsAreOrderly, Manager!SendsAreOrderly
=============================================================================
