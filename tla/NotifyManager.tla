---------------------------- MODULE NotifyManager ----------------------------
(***************************************************************************)
(* The notification manager (src/pkg/notify/manager.go): alerts wait in a  *)
(* batch window, are dispatched to every channel, and each send holds one  *)
(* of a fixed number of slots in its own goroutine.  Timers fire into      *)
(* goroutines of their own, so a window can be flushed by several at once, *)
(* and the process ends when main returns, whatever is still being sent.   *)
(***************************************************************************)
EXTENDS Naturals, FiniteSets

CONSTANTS
  Alert, Critical,          \* the alerts, and those of level critical
  Caller,                   \* goroutines that call Notify
  Timer,                    \* time.AfterFunc timers, reused once their goroutine ended
  Main, None,
  Channels,                 \* len(m.notifiers)
  MaxSends                  \* maxConcurrentSends

NotifyAssumption ==
  /\ Critical \subseteq Alert /\ IsFiniteSet(Alert)
  /\ Main \notin Caller \cup Timer /\ Caller \cap Timer = {} /\ None \notin Timer
  /\ Channels \in Nat \ {0} /\ MaxSends \in Nat \ {0}

VARIABLES
  batchEnabled, batchExcludeCritical,  \* set once, from the configuration
  batch,       \* m.batch; the order only shows in the wording of a message
  batchTimer,  \* m.batchTimer
  timer,       \* a timer runs, or its goroutine is about to call flushBatch
  load,        \* the alerts each goroutine is dispatching as one message
  next,        \* the channel it has come to
  waiting,     \* it waits for a slot, as a critical alert may
  sem,         \* slots taken in m.sem
  sends,       \* the sends under way
  main,        \* the shutdown path of main
  accepted,    \* alerts passed to Notify
  fate,        \* what became of each alert on each channel
  pending      \* the batch main found when it called Flush

config == <<batchEnabled, batchExcludeCritical>>
window == <<config, batch, batchTimer, timer>>
dispatching == <<load, next, waiting>>
seen == <<accepted, fate, pending>>
vars == <<window, dispatching, sem, sends, main, seen>>

Worker == Caller \cup Timer \cup {Main}
Channel == 1 .. Channels
Settled == {"sent", "failed", "dropped"}

TypeOK ==
  /\ batchEnabled \in BOOLEAN /\ batchExcludeCritical \in BOOLEAN
  /\ batch \subseteq Alert /\ batchTimer \in Timer \cup {None}
  /\ timer \in [Timer -> {"idle", "armed", "fired"}]
  /\ load \in [Worker -> SUBSET Alert] /\ next \in [Worker -> Channel]
  /\ waiting \in [Worker -> BOOLEAN]
  /\ sem \in 0 .. MaxSends /\ sem = Cardinality(sends)   \* a slot per send
  /\ sends \subseteq [alerts : SUBSET Alert, to : Channel]
  /\ main \in {"running", "flushing", "returning", "exited"}
  /\ accepted \subseteq Alert /\ pending \subseteq Alert
  /\ fate \in [Alert -> [Channel -> {"none", "sending"} \cup Settled]]

-----------------------------------------------------------------------------
Init ==
  /\ batchEnabled \in BOOLEAN /\ batchExcludeCritical \in BOOLEAN
  /\ batch = {} /\ batchTimer = None /\ timer = [t \in Timer |-> "idle"]
  /\ load = [w \in Worker |-> {}] /\ next = [w \in Worker |-> 1]
  /\ waiting = [w \in Worker |-> FALSE]
  /\ sem = 0 /\ sends = {} /\ main = "running"
  /\ accepted = {} /\ pending = {}
  /\ fate = [a \in Alert |-> [n \in Channel |-> "none"]]

Running == main # "exited"

\* Worker w starts to dispatch the alerts as one message.
Dispatch(w, alerts) ==
  /\ load' = [load EXCEPT ![w] = alerts]
  /\ next' = [next EXCEPT ![w] = 1]
  /\ waiting' = [waiting EXCEPT ![w] = FALSE]

addToBatch(a) ==
  /\ batch' = batch \cup {a} /\ UNCHANGED config
  /\ IF batchTimer = None
     THEN \E t \in Timer :
            /\ timer[t] = "idle" /\ load[t] = {}
            /\ timer' = [timer EXCEPT ![t] = "armed"] /\ batchTimer' = t
     ELSE UNCHANGED <<timer, batchTimer>>

Held(a) == batchEnabled /\ ~(a \in Critical /\ batchExcludeCritical)

Notify(c, a) ==
  /\ Running /\ load[c] = {} /\ a \notin accepted
  /\ accepted' = accepted \cup {a}
  /\ \/ Held(a) /\ addToBatch(a) /\ UNCHANGED dispatching
     \/ ~Held(a) /\ Dispatch(c, {a}) /\ UNCHANGED window
  /\ UNCHANGED <<sem, sends, main, fate, pending>>

\* The window is over: the timer's goroutine starts.
Fire(t) ==
  /\ Running /\ timer[t] = "armed"
  /\ timer' = [timer EXCEPT ![t] = "fired"]
  /\ UNCHANGED <<config, batch, batchTimer, dispatching, sem, sends, main, seen>>

\* Mutant: the batch is sent but not emptied.
KeepBatch(w) ==
  /\ batchTimer' = None /\ UNCHANGED batch
  /\ Dispatch(w, batch)

\* Mutant: the finished timer stays registered.
KeepTimer(w) ==
  /\ batch' = {} /\ UNCHANGED batchTimer
  /\ Dispatch(w, batch)

\* Takes the batch and resets the window; an empty batch is no message.
flushBatch(w) ==
  /\ batch' = {} /\ batchTimer' = None
  /\ Dispatch(w, batch)

FlushOnTimer(t) ==
  /\ Running /\ timer[t] = "fired"
  /\ timer' = [timer EXCEPT ![t] = "idle"]
  /\ flushBatch(t)
  /\ UNCHANGED <<config, sem, sends, main, seen>>

-----------------------------------------------------------------------------
\* w is done with its current channel.
Advance(w) ==
  /\ waiting' = [waiting EXCEPT ![w] = FALSE]
  /\ IF next[w] = Channels
     THEN load' = [load EXCEPT ![w] = {}] /\ next' = [next EXCEPT ![w] = 1]
     ELSE next' = [next EXCEPT ![w] = @ + 1] /\ UNCHANGED load

\* The alerts of w's message meet fate f on its current channel.
Meet(w, f) ==
  fate' = [a \in Alert |-> IF a \in load[w] THEN [fate[a] EXCEPT ![next[w]] = f] ELSE fate[a]]

\* A free slot goes to a goroutine that waits for one before anybody else.
sendAsync(w) ==
  /\ Running /\ load[w] # {} /\ sem < MaxSends
  /\ waiting[w] \/ \A v \in Worker : ~waiting[v]
  /\ sem' = sem + 1
  /\ sends' = sends \cup {[alerts |-> load[w], to |-> next[w]]}
  /\ Meet(w, "sending") /\ Advance(w)
  /\ UNCHANGED <<window, main, accepted, pending>>

\* Mutant: a batch is as critical as its mildest alert.
AllCritical(alerts) == alerts \subseteq Critical

\* The highest level of a batch is its level.
IsCritical(alerts) == alerts \cap Critical # {}

\* No slot: a critical alert waits, any other is dropped for this channel.
Saturated(w) ==
  /\ Running /\ load[w] # {} /\ sem = MaxSends /\ ~waiting[w]
  /\ IF IsCritical(load[w])
     THEN waiting' = [waiting EXCEPT ![w] = TRUE] /\ UNCHANGED <<load, next, fate>>
     ELSE Meet(w, "dropped") /\ Advance(w)
  /\ UNCHANGED <<window, sem, sends, main, accepted, pending>>

\* criticalSendWait is over.
GiveUp(w) ==
  /\ Running /\ waiting[w] /\ sem = MaxSends
  /\ Meet(w, "dropped") /\ Advance(w)
  /\ UNCHANGED <<window, sem, sends, main, accepted, pending>>

\* Mutant: a send that fails or panics keeps its slot.
SlotsAfter(outcome) == IF outcome = "sent" THEN sem - 1 ELSE sem

\* The deferred receive gives the slot back, however the send ended.
Slots(outcome) == sem - 1

\* A send returns: delivered, failed or timed out, or panicked.
Finish(s, outcome) ==
  /\ Running /\ s \in sends
  /\ sends' = sends \ {s}
  /\ sem' = Slots(outcome)
  /\ fate' = [a \in Alert |-> IF a \in s.alerts THEN [fate[a] EXCEPT ![s.to] = outcome] ELSE fate[a]]
  /\ UNCHANGED <<window, dispatching, main, accepted, pending>>

-----------------------------------------------------------------------------
\* Flush, first part: stop the timer, if that still helps.
FlushStop ==
  /\ main = "running"
  /\ main' = "flushing"
  /\ timer' = [t \in Timer |-> IF t = batchTimer /\ timer[t] = "armed" THEN "idle" ELSE timer[t]]
  /\ pending' = batch
  /\ UNCHANGED <<config, batch, batchTimer, dispatching, sem, sends, accepted, fate>>

\* Flush, second part: main dispatches what is left.
FlushSend ==
  /\ main = "flushing"
  /\ main' = "returning"
  /\ flushBatch(Main)
  /\ UNCHANGED <<config, timer, sem, sends, seen>>

\* main returns: the process is gone with all its goroutines.
Exit ==
  /\ main = "returning" /\ load[Main] = {}
  /\ main' = "exited"
  /\ UNCHANGED <<window, dispatching, sem, sends, seen>>

Step(w) == sendAsync(w) \/ Saturated(w) \/ GiveUp(w)

\* What the runtime does by itself, once somebody called Notify or Flush.
System ==
  \/ \E t \in Timer : Fire(t) \/ FlushOnTimer(t)
  \/ \E w \in Worker : Step(w)
  \/ \E s \in sends, outcome \in {"sent", "failed"} : Finish(s, outcome)
  \/ FlushSend \/ Exit

Next == (\E c \in Caller, a \in Alert : Notify(c, a)) \/ FlushStop \/ System

Spec == Init /\ [][Next]_vars

(* Timers fire, goroutines are scheduled and every send ends: its context   *)
(* has a deadline.  With finitely many alerts it is enough that one of them *)
(* goes on.  Nobody has to call Notify or to shut down.                     *)
FairSpec == Spec /\ WF_vars(System)

-----------------------------------------------------------------------------
(* An alert in the batch has somebody who will flush it, whatever Flush and *)
(* late timer goroutines did to the window before.                          *)
NoStrandedBatch ==
  batch # {} =>
    \/ batchTimer # None /\ timer[batchTimer] = "armed"
    \/ \E t \in Timer : timer[t] = "fired"
    \/ main = "flushing"

(* Each alert is sent at most once to each channel, although windows can be *)
(* flushed by several goroutines.                                           *)
OnceEach ==
  [][\A a \in Alert, n \in Channel :
       fate'[a][n] # fate[a][n] =>
         \/ fate[a][n] = "none" /\ fate'[a][n] \in {"sending", "dropped"}
         \/ fate[a][n] = "sending" /\ fate'[a][n] \in {"sent", "failed"}]_vars

(* A critical alert, alone or inside a batch, is given up only after its    *)
(* dispatcher waited for a slot: noise is dropped first.                    *)
CriticalWaits ==
  [][\A a \in Critical, n \in Channel :
       (fate[a][n] # "dropped" /\ fate'[a][n] = "dropped")
         => \E w \in Worker : waiting[w] /\ a \in load[w] /\ next[w] = n]_vars

(* No alert goes out twice, and none that is critical is dropped as noise   *)
(* (manager.go:242-379).                                                    *)
SendsAreOrderly == OnceEach /\ CriticalWaits

(* Every alert is settled on every channel unless the process ends first:   *)
(* panics and timeouts do not eat the slots up.                             *)
EverySettles ==
  \A a \in Alert : a \in accepted ~> (~Running \/ \A n \in Channel : fate[a][n] \in Settled)

(* manager.go:386 "Flush sends any pending batched alerts immediately. Call *)
(* on shutdown so a pending window is not lost": when main is over the      *)
(* alerts it found in the window have been sent or tried.                   *)
FlushDelivers ==
  ~Running => \A a \in pending, n \in Channel : fate[a][n] \in Settled
=============================================================================
