--------------------------- MODULE DashboardProofs ---------------------------
(***************************************************************************)
(* Proofs about the parts of the dashboard beside its sessions, whose      *)
(* proofs are in SessionStoreProofs.                                       *)
(***************************************************************************)
EXTENDS Dashboard, Integers, FiniteSetTheorems, WellFoundedInduction, TLAPS

-----------------------------------------------------------------------------
(***************************************************************************)
(* AgentPresence, for any number of connections and every cooldown and     *)
(* timeout.  The engine's own throttle, offlineNotified, measures the time *)
(* since the last offline alert exactly, and an outage has a reason only   *)
(* if the last decision was to announce it: with these two facts no        *)
(* interleaving of callbacks, timeouts and statuses can put the notices    *)
(* out of step.                                                            *)
(***************************************************************************)
\* What the parameters are.
LEMMA PresenceConstants ==
  /\ None \notin Conn
  /\ Cooldown \in Nat /\ AgentTimeout \in Nat \ {0}
  /\ NotifyRecovery \in BOOLEAN
BY DashboardAssumption DEF Presence!PresenceAssumption

\* The throttle measures what the operator hears.
ThrottleIsExact == offlineNotified = sinceOffline

\* An outage with a reason was announced, and nothing decided since.
ReasonIsAnnounced == reason # "" => decided \in Presence!Offline

PresenceInv == Presence!TypeOK /\ SlotHasOwner /\ ThrottleIsExact /\ ReasonIsAnnounced

\* A decision keeps the types of what it changes.
LEMMA DecideType ==
  ASSUME Presence!TypeOK, NEW s \in Presence!Speaker, NEW m \in Presence!Message \cup {Presence!Silence}, Presence!Decide(s, m)
  PROVE  /\ saying' \in [Presence!Speaker -> Presence!Message \cup {Presence!Silence}]
         /\ decided' \in Presence!Message \cup {Presence!Silence} /\ told' \in Presence!Message \cup {Presence!Silence}
         /\ sinceOffline' \in Presence!Zero .. Cooldown
<1>1. 0 \in Presence!Zero .. Cooldown
  BY PresenceConstants DEF Presence!Zero
<1> QED
  BY <1>1 DEF Presence!TypeOK, Presence!Decide

LEMMA SpeakerType ==
  /\ \A c \in Conn : Presence!Reader(c) \in Presence!Speaker /\ Presence!Remover(c) \in Presence!Speaker
  /\ Presence!Ticker \in Presence!Speaker
BY DEF Presence!Reader, Presence!Remover, Presence!Ticker, Presence!Speaker

\* Nobody is connected and nothing was ever said.
LEMMA PresenceInit == Presence!Init => PresenceInv
<1> SUFFICES ASSUME Presence!Init PROVE PresenceInv
  OBVIOUS
<1>1. Presence!Zero \in Presence!Zero .. AgentTimeout /\ Presence!Zero \in Presence!Zero .. Cooldown
  BY PresenceConstants DEF Presence!Zero
<1>2. Presence!TypeOK
  BY <1>1 DEF Presence!Init, Presence!TypeOK
<1>3. SlotHasOwner /\ ThrottleIsExact /\ ReasonIsAnnounced
  BY DEF Presence!Init, SlotHasOwner, Presence!SlotHasOwner, ThrottleIsExact, ReasonIsAnnounced
<1> QED
  BY <1>2, <1>3 DEF PresenceInv

\* What the hub does to a connection says nothing and leaves the slot with its owner.
LEMMA HubStep ==
  ASSUME PresenceInv, NEW c \in Conn,
         \/ Presence!Connect(c) \/ Presence!MarkAgentConn(c) \/ Presence!Receive(c) \/ Presence!Lose(c)
         \/ Presence!WriteFails(c) \/ Presence!Leave(c) \/ Presence!Close(c)
  PROVE  PresenceInv'
<1> USE DEF PresenceInv
<1>1. UNCHANGED <<Presence!engine, saying, decided, sinceOffline, told>>
  BY DEF Presence!Connect, Presence!MarkAgentConn, Presence!Receive, Presence!Lose, Presence!WriteFails, Presence!Leave, Presence!Close, Presence!NoAlert
<1>2. /\ open' \subseteq Conn /\ clients' \subseteq Conn /\ agentConn' \in Conn \cup {None}
      /\ phase' \in [Conn -> {"out", "marking", "reading", "status", "leaving"}]
      /\ removal' \in [Conn -> {"no", "callback", "close"}]
  BY DEF Presence!TypeOK, Presence!Connect, Presence!MarkAgentConn, Presence!Receive, Presence!Lose, Presence!WriteFails, Presence!Leave, Presence!Close, Presence!Release, Presence!Goto
<1>3. Presence!TypeOK'
  BY <1>1, <1>2 DEF Presence!TypeOK, Presence!engine
<1>4. SlotHasOwner'
  <2> USE PresenceConstants DEF SlotHasOwner, Presence!SlotHasOwner, Presence!TypeOK
  <2>1. CASE Presence!Connect(c)
    BY <2>1 DEF Presence!Connect, Presence!Goto
  <2>2. CASE Presence!MarkAgentConn(c)
    BY <2>2 DEF Presence!MarkAgentConn, Presence!Goto
  <2>3. CASE Presence!Receive(c)
    BY <2>3 DEF Presence!Receive, Presence!Goto
  <2>4. CASE Presence!Lose(c)
    BY <2>4 DEF Presence!Lose
  <2>5. CASE Presence!WriteFails(c)
    BY <2>5 DEF Presence!WriteFails, Presence!Release
  <2>6. CASE Presence!Leave(c)
    BY <2>6 DEF Presence!Leave, Presence!Goto, Presence!Release
  <2>7. CASE Presence!Close(c)
    BY <2>7 DEF Presence!Close
  <2> QED
    BY <2>1, <2>2, <2>3, <2>4, <2>5, <2>6, <2>7
<1>5. ThrottleIsExact' /\ ReasonIsAnnounced'
  BY <1>1 DEF ThrottleIsExact, ReasonIsAnnounced, Presence!engine
<1> QED
  BY <1>3, <1>4, <1>5

\* A status ends an outage; if it had a reason, with a notice.
LEMMA StatusStep ==
  ASSUME PresenceInv, NEW c \in Conn, Presence!OnStatus(c)
  PROVE  PresenceInv'
<1> USE DEF PresenceInv
<1>1. (IF Presence!AnnouncesRecovery THEN "recovery" ELSE Presence!Silence) \in (Presence!Message \ Presence!Offline) \cup {Presence!Silence}
  BY DEF Presence!Message, Presence!Offline, Presence!Silence
<1>2. 0 \in Presence!Zero .. AgentTimeout
  BY PresenceConstants DEF Presence!Zero
<1>3. Presence!TypeOK'
  <2>1. /\ saying' \in [Presence!Speaker -> Presence!Message \cup {Presence!Silence}]
        /\ decided' \in Presence!Message \cup {Presence!Silence} /\ told' \in Presence!Message \cup {Presence!Silence}
        /\ sinceOffline' \in Presence!Zero .. Cooldown
    BY <1>1, SpeakerType, DecideType DEF Presence!OnStatus
  <2> QED
    BY <1>2, <2>1 DEF Presence!TypeOK, Presence!OnStatus, Presence!Goto, Presence!NowOnline
<1>4. SlotHasOwner'
  BY DEF SlotHasOwner, Presence!SlotHasOwner, Presence!OnStatus, Presence!Goto, Presence!TypeOK
<1>5. ThrottleIsExact'
  BY <1>1 DEF ThrottleIsExact, Presence!OnStatus, Presence!Decide, Presence!Offline, Presence!Silence
<1>6. ReasonIsAnnounced'
  BY DEF ReasonIsAnnounced, Presence!OnStatus, Presence!Decide, Presence!AnnouncesRecovery, Presence!Silence
<1> QED
  BY <1>3, <1>4, <1>5, <1>6

\* An outage is noted with a reason and announced, or with neither.
LEMMA OutageStep ==
  ASSUME PresenceInv, NEW s \in Presence!Speaker, NEW m \in {"disconnect", "timeout"}, Presence!GoesOffline(s, m)
  PROVE  /\ online' \in BOOLEAN /\ reason' \in {"", "disconnect", "timeout"}
         /\ offlineNotified' \in Presence!Zero .. Cooldown
         /\ saying' \in [Presence!Speaker -> Presence!Message \cup {Presence!Silence}]
         /\ decided' \in Presence!Message \cup {Presence!Silence} /\ told' \in Presence!Message \cup {Presence!Silence}
         /\ sinceOffline' \in Presence!Zero .. Cooldown
         /\ ThrottleIsExact' /\ ReasonIsAnnounced'
<1> USE DEF PresenceInv
<1>1. m \in Presence!Message /\ m \in Presence!Offline /\ Presence!Silence \notin Presence!Offline /\ Presence!Silence \in Presence!Message \cup {Presence!Silence}
  BY DEF Presence!Message, Presence!Offline, Presence!Silence
<1>2. 0 \in Presence!Zero .. Cooldown
  BY PresenceConstants DEF Presence!Zero
<1>3. CASE Presence!allowAgentOfflineNotify
  <2>1. Presence!Decide(s, m) /\ reason' = m /\ offlineNotified' = 0 /\ online' = FALSE
    BY <1>3 DEF Presence!GoesOffline, Presence!ReasonFor
  <2>2. sinceOffline' = 0 /\ decided' = m
    BY <1>1, <2>1 DEF Presence!Decide
  <2> QED
    BY <1>1, <1>2, <2>1, <2>2, DecideType DEF ThrottleIsExact, ReasonIsAnnounced
<1>4. CASE ~Presence!allowAgentOfflineNotify
  <2>1. Presence!Decide(s, Presence!Silence) /\ reason' = "" /\ offlineNotified' = offlineNotified /\ online' = FALSE
    BY <1>4 DEF Presence!GoesOffline, Presence!ReasonFor
  <2>2. sinceOffline' = sinceOffline
    BY <1>1, <2>1 DEF Presence!Decide
  <2> QED
    BY <1>1, <2>1, <2>2, DecideType DEF Presence!TypeOK, ThrottleIsExact, ReasonIsAnnounced
<1> QED
  BY <1>3, <1>4

LEMMA DisconnectStep ==
  ASSUME PresenceInv, NEW c \in Conn, Presence!OnAgentDisconnect(c)
  PROVE  PresenceInv'
<1> USE DEF PresenceInv
<1>1. removal' \in [Conn -> {"no", "callback", "close"}] /\ SlotHasOwner'
  BY DEF Presence!OnAgentDisconnect, Presence!TypeOK, SlotHasOwner, Presence!SlotHasOwner
<1>2. CASE online
  <2>1. Presence!GoesOffline(Presence!Remover(c), "disconnect")
    BY <1>2 DEF Presence!OnAgentDisconnect, Presence!SeesOutage
  <2> QED
    BY <1>1, <2>1, OutageStep, SpeakerType DEF Presence!OnAgentDisconnect, Presence!TypeOK
<1>3. CASE ~online
  BY <1>1, <1>3 DEF Presence!OnAgentDisconnect, Presence!SeesOutage, Presence!NoAlert, Presence!TypeOK, ThrottleIsExact, ReasonIsAnnounced
<1> QED
  BY <1>2, <1>3

\* The ticker notes an outage, or reminds of one.
LEMMA TimeoutStep ==
  ASSUME PresenceInv, Presence!CheckAgentTimeout
  PROVE  PresenceInv'
<1> USE DEF PresenceInv
<1>1. SlotHasOwner' /\ UNCHANGED <<Presence!hub, lastSeen>>
  BY DEF Presence!CheckAgentTimeout, Presence!hub, SlotHasOwner, Presence!SlotHasOwner
<1>2. CASE Presence!AlertsAgain /\ offlineNotified' = 0 /\ Presence!Decide(Presence!Ticker, "ongoing") /\ UNCHANGED <<online, reason>>
  <2>1. "ongoing" \in Presence!Message /\ "ongoing" \in Presence!Offline /\ "ongoing" # Presence!Silence
    BY DEF Presence!Message, Presence!Offline, Presence!Silence
  <2>2. 0 \in Presence!Zero .. Cooldown
    BY PresenceConstants DEF Presence!Zero
  <2>3. sinceOffline' = 0 /\ decided' = "ongoing"
    BY <1>2, <2>1 DEF Presence!Decide
  <2> QED
    BY <1>1, <1>2, <2>1, <2>2, <2>3, DecideType, SpeakerType
       DEF Presence!hub, Presence!TypeOK, ThrottleIsExact, ReasonIsAnnounced
<1>3. CASE Presence!GoesOffline(Presence!Ticker, "timeout")
  BY <1>1, <1>3, OutageStep, SpeakerType DEF Presence!hub, Presence!TypeOK
<1> QED
  BY <1>2, <1>3 DEF Presence!CheckAgentTimeout

\* An age grows up to its limit.
LEMMA OlderType ==
  ASSUME NEW limit \in Nat, NEW age \in Presence!Zero .. limit
  PROVE  Presence!Older(age, limit) \in Presence!Zero .. limit
BY DEF Presence!Older, Presence!Zero

\* Every step keeps the invariant.
LEMMA PresenceNext == PresenceInv /\ [Presence!Next]_(Presence!vars) => PresenceInv'
<1> SUFFICES ASSUME PresenceInv, [Presence!Next]_(Presence!vars) PROVE PresenceInv'
  OBVIOUS
<1>1. ASSUME NEW s \in Presence!Speaker, Presence!Dispatch(s) PROVE PresenceInv'
  BY <1>1 DEF PresenceInv, Presence!TypeOK, SlotHasOwner, Presence!SlotHasOwner, ThrottleIsExact, ReasonIsAnnounced, Presence!Dispatch, Presence!hub, Presence!engine
<1>2. CASE Presence!Tick
  <2>1. /\ lastSeen' \in Presence!Zero .. AgentTimeout
        /\ offlineNotified' \in Presence!Zero .. Cooldown /\ sinceOffline' \in Presence!Zero .. Cooldown
    <3>1. AgentTimeout \in Nat /\ Cooldown \in Nat
      BY PresenceConstants
    <3> QED
      BY <1>2, <3>1, OlderType DEF PresenceInv, Presence!TypeOK, Presence!Tick
  <2> QED
    BY <1>2, <2>1 DEF PresenceInv, Presence!TypeOK, SlotHasOwner, Presence!SlotHasOwner, ThrottleIsExact, ReasonIsAnnounced, Presence!Tick, Presence!hub
<1>3. CASE UNCHANGED Presence!vars
  BY <1>3 DEF PresenceInv, Presence!TypeOK, SlotHasOwner, Presence!SlotHasOwner, ThrottleIsExact, ReasonIsAnnounced, Presence!vars, Presence!hub, Presence!engine
<1> QED
  BY <1>1, <1>2, <1>3, HubStep, StatusStep, DisconnectStep, TimeoutStep DEF Presence!Next, Presence!Serve

(* The invariant holds whatever callbacks, timeouts and statuses meet.     *)
THEOREM PresenceInvariance == Presence!Spec => []PresenceInv
BY PresenceInit, PresenceNext, PTL DEF Presence!Spec

(* The variables keep their types.                                         *)
THEOREM PresenceTypes == Presence!Spec => []Presence!TypeOK
<1>1. PresenceInv => Presence!TypeOK
  BY DEF PresenceInv
<1> QED
  BY <1>1, PresenceInvariance, PTL

(* The agent's slot is held by a connection whose reading goroutine will   *)
(* give it up (src/cmd/dashboard/main.go:553-581, 646-657).                *)
THEOREM SlotTheorem == Presence!Spec => []SlotHasOwner
<1>1. PresenceInv => SlotHasOwner
  BY DEF PresenceInv
<1> QED
  BY <1>1, PresenceInvariance, PTL

\* Who begins to say something decided on it in this step.
LEMMA Deciders ==
  ASSUME PresenceInv, [Presence!Next]_(Presence!vars), NEW s \in Presence!Speaker, saying[s] = Presence!Silence, saying'[s] # Presence!Silence
  PROVE  \/ \E c \in Conn : Presence!OnStatus(c)
         \/ \E c \in Conn : Presence!OnAgentDisconnect(c) /\ online /\ Presence!GoesOffline(Presence!Remover(c), "disconnect")
         \/ Presence!CheckAgentTimeout
<1>1. ASSUME NEW c \in Conn,
             \/ Presence!Connect(c) \/ Presence!MarkAgentConn(c) \/ Presence!Receive(c) \/ Presence!Lose(c)
             \/ Presence!WriteFails(c) \/ Presence!Leave(c) \/ Presence!Close(c)
      PROVE  saying' = saying
  BY <1>1 DEF Presence!Connect, Presence!MarkAgentConn, Presence!Receive, Presence!Lose, Presence!WriteFails, Presence!Leave, Presence!Close, Presence!NoAlert
<1>2. ASSUME NEW c \in Conn, Presence!OnAgentDisconnect(c)
      PROVE  saying' = saying \/ (online /\ Presence!GoesOffline(Presence!Remover(c), "disconnect"))
  BY <1>2 DEF Presence!OnAgentDisconnect, Presence!SeesOutage, Presence!NoAlert
<1>3. ASSUME NEW t \in Presence!Speaker, Presence!Dispatch(t)
      PROVE  saying'[s] = saying[s] \/ saying'[s] = Presence!Silence
  BY <1>3 DEF Presence!Dispatch, PresenceInv, Presence!TypeOK
<1>4. CASE Presence!Tick \/ UNCHANGED Presence!vars
  BY <1>4 DEF Presence!Tick, Presence!vars
<1> QED
  BY <1>1, <1>2, <1>3, <1>4 DEF Presence!Next, Presence!Serve

\* Only a status decides on a recovery, and on nothing else.
LEMMA StatusDecides ==
  ASSUME PresenceInv, NEW c \in Conn, Presence!OnStatus(c), NEW s \in Presence!Speaker, saying[s] = Presence!Silence
  PROVE  saying'[s] \notin Presence!Offline /\ (saying'[s] = "recovery" => decided \in Presence!Offline)
<1>1. saying'[s] \in {Presence!Silence, "recovery"}
  BY SpeakerType DEF Presence!OnStatus, Presence!Decide, PresenceInv, Presence!TypeOK
<1>2. saying'[s] = "recovery" => Presence!AnnouncesRecovery
  BY SpeakerType DEF Presence!OnStatus, Presence!Decide, PresenceInv, Presence!TypeOK, Presence!Silence
<1> QED
  BY <1>1, <1>2 DEF Presence!AnnouncesRecovery, PresenceInv, ReasonIsAnnounced, Presence!Offline, Presence!Silence

\* An offline alert is decided on only when the throttle allows it.
LEMMA OfflineDecides ==
  ASSUME PresenceInv, NEW t \in Presence!Speaker, NEW m \in Presence!Offline, NEW s \in Presence!Speaker, saying[s] = Presence!Silence,
         Presence!Decide(t, IF Presence!allowAgentOfflineNotify THEN m ELSE Presence!Silence)
  PROVE  /\ saying'[s] # "recovery"
         /\ saying'[s] \in Presence!Offline => sinceOffline = Presence!Zero \/ sinceOffline >= Cooldown
<1>1. saying'[s] \in {Presence!Silence, m} /\ (saying'[s] # Presence!Silence => Presence!allowAgentOfflineNotify)
  BY DEF Presence!Decide, PresenceInv, Presence!TypeOK, Presence!Silence
<1>2. Presence!allowAgentOfflineNotify => sinceOffline = Presence!Zero \/ sinceOffline >= Cooldown
  <2>1. /\ Cooldown \in Nat /\ Presence!Zero = -1
        /\ sinceOffline \in Presence!Zero .. Cooldown /\ offlineNotified = sinceOffline
    BY PresenceConstants DEF Presence!Zero, PresenceInv, Presence!TypeOK, ThrottleIsExact
  <2>2. sinceOffline \in Int /\ sinceOffline >= -1
    BY <2>1
  <2>3. Presence!allowAgentOfflineNotify <=> (Cooldown = 0 \/ sinceOffline = Presence!Zero \/ sinceOffline >= Cooldown)
    BY <2>1, <2>2 DEF Presence!allowAgentOfflineNotify
  <2>4. sinceOffline = Presence!Zero \/ sinceOffline >= 0
    BY <2>1, <2>2
  <2> QED
    BY <2>1, <2>3, <2>4
<1> QED
  BY <1>1, <1>2 DEF Presence!Offline, Presence!Silence

\* A step decides on nothing out of step.
LEMMA NoticesStep ==
  ASSUME PresenceInv, [Presence!Next]_(Presence!vars), NEW s \in Presence!Speaker, saying[s] = Presence!Silence
  PROVE  /\ saying'[s] = "recovery" => decided \in Presence!Offline
         /\ saying'[s] \in Presence!Offline => sinceOffline = Presence!Zero \/ sinceOffline >= Cooldown
<1>1. ASSUME NEW c \in Conn, Presence!GoesOffline(Presence!Remover(c), "disconnect")
      PROVE  Presence!Decide(Presence!Remover(c), IF Presence!allowAgentOfflineNotify THEN "disconnect" ELSE Presence!Silence)
  BY <1>1 DEF Presence!GoesOffline
<1>2. CASE Presence!CheckAgentTimeout
  <2>1. \E m \in Presence!Offline : Presence!Decide(Presence!Ticker, IF Presence!allowAgentOfflineNotify THEN m ELSE Presence!Silence)
    BY <1>2 DEF Presence!CheckAgentTimeout, Presence!AlertsAgain, Presence!GoesOffline, Presence!Offline
  <2> QED
    BY <2>1, OfflineDecides, SpeakerType
<1>3. "disconnect" \in Presence!Offline
  BY DEF Presence!Offline
<1>4. CASE saying'[s] = Presence!Silence
  BY <1>4 DEF Presence!Silence, Presence!Offline
<1> QED
  BY <1>1, <1>2, <1>3, <1>4, Deciders, StatusDecides, OfflineDecides, SpeakerType

(* The operator hears of an outage and of its end, and of neither more     *)
(* often than there is something to tell: a recovery answers an announced  *)
(* outage, and all outage alerts share one cooldown                        *)
(* (src/pkg/alert/engine.go:249-412).                                      *)
THEOREM NoticesTheorem == Presence!Spec => NoticesAreInStep
<1>1. PresenceInv /\ [Presence!Next]_(Presence!vars) => ((\E s \in Presence!Speaker : Presence!Decides(s, {"recovery"})) => decided \in Presence!Offline)
  BY NoticesStep DEF Presence!Decides
<1>2. PresenceInv /\ [Presence!Next]_(Presence!vars) => ((\E s \in Presence!Speaker : Presence!Decides(s, Presence!Offline))
                                => sinceOffline = Presence!Zero \/ sinceOffline >= Cooldown)
  BY NoticesStep DEF Presence!Decides
<1>3. Presence!Spec => Presence!RecoveryAnswersOutage
  BY <1>1, PresenceInvariance, PTL DEF Presence!Spec, Presence!RecoveryAnswersOutage
<1>4. Presence!Spec => Presence!FlapIsThrottled
  BY <1>2, PresenceInvariance, PTL DEF Presence!Spec, Presence!FlapIsThrottled
<1> QED
  BY <1>3, <1>4 DEF NoticesAreInStep, Presence!NoticesAreInStep

-----------------------------------------------------------------------------
(***************************************************************************)
(* AlertHistory, for every kind of alert, capacity and state of the disk.  *)
(* Trimming only takes away, and enough; a torn line is paid for by the    *)
(* write that tore it before the next line is glued to it.                 *)
(***************************************************************************)
HistoryEntry == [kind : Kind, at : Nat]

\* What was added since the last Clear, and within the capacity.
EntriesHold ==
  /\ entries \subseteq HistoryEntry /\ lines \subseteq HistoryEntry
  /\ \A e \in entries \cup lines : e.at > cleared /\ e.at <= arrived
  /\ \A e, f \in entries \cup lines : e.at = f.at => e = f
  /\ IsFiniteSet(entries) /\ IsFiniteSet(lines)
  /\ Cardinality(entries) <= History!Max

\* A line that is still torn has been paid for.
TornIsPaid ==
  /\ cut \in Nat /\ merged \in Nat /\ torn \in BOOLEAN
  /\ merged <= cut /\ (torn = TRUE => merged < cut)

HistoryInv ==
  /\ setup \in Setup
  /\ arrived \in Nat /\ cleared \in 0 .. arrived
  /\ EntriesHold /\ TornIsPaid

\* What a kind of alert and an installation are.
LEMMA HistoryConstants ==
  /\ \A k \in Kind : k.weight \in 1 .. 3 /\ k.trusted \in BOOLEAN
  /\ \A s \in Setup : s.max \in Nat \ {0} /\ s.arrivals \in Nat
BY DashboardAssumption DEF History!HistoryAssumption

\* The instance's cardinality is the library's.
LEMMA SameCardinality == \A S : History!Cardinality(S) = Cardinality(S)
BY DEF History!Cardinality, History!IsFiniteSet, Cardinality, IsFiniteSet

\* The order of eviction is a strict order.
LEMMA GoesBeforeIsStrict ==
  ASSUME NEW e \in HistoryEntry, NEW f \in HistoryEntry, NEW g \in HistoryEntry
  PROVE  /\ ~History!GoesBefore(e, e)
         /\ History!GoesBefore(e, f) /\ History!GoesBefore(f, g) => History!GoesBefore(e, g)
<1>1. /\ e.kind.trusted \in BOOLEAN /\ f.kind.trusted \in BOOLEAN /\ g.kind.trusted \in BOOLEAN
      /\ e.kind.weight \in Int /\ f.kind.weight \in Int /\ g.kind.weight \in Int
      /\ e.at \in Int /\ f.at \in Int /\ g.at \in Int
  BY HistoryConstants DEF HistoryEntry
<1> QED
  BY <1>1 DEF History!GoesBefore

\* A finite set has a first element in any strict order.
LEMMA HasFirst ==
  ASSUME NEW E, IsFiniteSet(E), E # {}, NEW R,
         \A e \in E : <<e, e>> \notin R,
         \A e, f, g \in E : <<e, f>> \in R /\ <<f, g>> \in R => <<e, g>> \in R
  PROVE  \E e \in E : \A f \in E : <<f, e>> \notin R
<1> DEFINE Before(e) == {f \in E : <<f, e>> \in R}
           Family == {Before(e) : e \in E}
<1>1. Family \subseteq FiniteSubsetsOf(E) /\ Family # {}
  <2>1. \A e \in E : Before(e) \in FiniteSubsetsOf(E)
    BY FS_Subset DEF FiniteSubsetsOf
  <2> HIDE DEF Before
  <2> QED
    BY <2>1
<1>2. PICK B \in Family : \A C \in Family : <<C, B>> \notin StrictSubsetOrdering(E)
  <2> HIDE DEF Family
  <2> QED
    BY <1>1, FS_StrictSubsetOrderingWellFounded, WFMin
<1>3. PICK e \in E : B = Before(e)
  BY <1>2
<1>4. ASSUME NEW f \in E, <<f, e>> \in R
      PROVE  FALSE
  <2>1. Before(f) \subseteq Before(e)
    BY <1>4
  <2>2. f \in Before(e) /\ f \notin Before(f)
    BY <1>4
  <2>3. <<Before(f), Before(e)>> \in StrictSubsetOrdering(E)
    BY <2>1, <2>2 DEF StrictSubsetOrdering
  <2>4. Before(f) \in Family
    OBVIOUS
  <2> QED
    BY <1>2, <1>3, <2>3, <2>4
<1> QED
  BY <1>4

\* Nothing goes before the first one to go.
LEMMA FirstToGo ==
  ASSUME NEW E, E \subseteq HistoryEntry, IsFiniteSet(E), E # {}
  PROVE  \E e \in E : \A f \in E : ~History!GoesBefore(f, e)
<1> DEFINE R == {p \in E \X E : History!GoesBefore(p[1], p[2])}
<1>1. \A e, f \in E : <<e, f>> \in R <=> History!GoesBefore(e, f)
  OBVIOUS
<1> HIDE DEF R
<1>2. \A e \in E : <<e, e>> \notin R
  BY <1>1, GoesBeforeIsStrict
<1>3. \A e, f, g \in E : <<e, f>> \in R /\ <<f, g>> \in R => <<e, g>> \in R
  BY <1>1, GoesBeforeIsStrict
<1> QED
  BY <1>1, <1>2, <1>3, HasFirst

\* Evicting leaves as many as there is room for.
LEMMA EvictFits ==
  ASSUME setup \in Setup, NEW E, E \subseteq HistoryEntry, IsFiniteSet(E), ~History!Fits(E)
  PROVE  History!Evict(E) \subseteq E /\ History!Fits(History!Evict(E))
<1> DEFINE K == History!Evict(E)
           Before(e) == {f \in E : History!GoesBefore(f, e)}
<1>1. K \subseteq E /\ IsFiniteSet(K)
  BY FS_Subset DEF History!Evict
<1>2. Cardinality(E) \in Nat /\ Cardinality(K) \in Nat /\ History!Max \in Nat
  BY <1>1, FS_CardinalityType, HistoryConstants DEF History!Max
<1>3. ASSUME Cardinality(K) > History!Max
      PROVE  FALSE
  <2>1. K # {}
    BY <1>2, <1>3, FS_EmptySet
  <2>2. PICK e \in K : \A f \in K : ~History!GoesBefore(f, e)
    BY <1>1, <2>1, FirstToGo
  <2>3. Before(e) \subseteq E \ K
    BY <2>2
  <2>4. /\ IsFiniteSet(E \ K) /\ IsFiniteSet(Before(e))
        /\ Cardinality(E \ K) = Cardinality(E) - Cardinality(E \cap K)
    BY FS_Difference, FS_Subset
  <2>5. E \cap K = K
    BY <1>1
  <2>6. /\ Cardinality(Before(e)) \in Nat
        /\ Cardinality(Before(e)) <= Cardinality(E) - Cardinality(K)
    BY <2>3, <2>4, <2>5, FS_Subset, FS_CardinalityType
  <2>7. Cardinality(Before(e)) >= Cardinality(E) - History!Max
    BY SameCardinality DEF History!Evict
  <2> QED
    BY <1>2, <1>3, <2>6, <2>7
<1> QED
  BY <1>1, <1>2, <1>3, SameCardinality DEF History!Fits

\* Trimming only takes away, and leaves what there is room for.
LEMMA TrimHolds ==
  ASSUME setup \in Setup, NEW E, E \subseteq HistoryEntry, IsFiniteSet(E)
  PROVE  History!trim(E) \subseteq E /\ IsFiniteSet(History!trim(E)) /\ History!Fits(History!trim(E))
<1> DEFINE distinct == History!NewestOfKey(E)
           capped == History!CapTypes(distinct)
<1>1. distinct \subseteq E /\ capped \subseteq distinct
  BY DEF History!NewestOfKey, History!CapTypes
<1>2. IsFiniteSet(capped) /\ capped \subseteq HistoryEntry
  BY <1>1, FS_Subset
<1>3. ~History!Fits(capped) => History!Evict(capped) \subseteq capped /\ History!Fits(History!Evict(capped))
  BY <1>2, EvictFits
<1>4. History!trim(E) \subseteq E /\ History!Fits(History!trim(E))
  BY <1>1, <1>3 DEF History!trim
<1> QED
  BY <1>4, FS_Subset

\* An empty history and no file.
LEMMA HistoryInit == History!Init => HistoryInv
<1> SUFFICES ASSUME History!Init PROVE HistoryInv
  OBVIOUS
<1>1. setup \in Setup /\ 0 <= setup.max
  BY HistoryConstants DEF History!Init
<1>2. EntriesHold
  BY <1>1, FS_EmptySet DEF History!Init, EntriesHold, History!Max
<1>3. TornIsPaid
  <2>1. cut \in Nat /\ merged \in Nat /\ merged <= cut
    BY DEF History!Init
  <2>2. torn \in BOOLEAN /\ torn # TRUE
    BY Zenon DEF History!Init
  <2> QED
    BY <2>1, <2>2, Zenon DEF TornIsPaid
<1> QED
  BY <1>1, <1>2, <1>3 DEF History!Init, HistoryInv

\* What is added is newer than all there is.
LEMMA AddedIsNew ==
  ASSUME HistoryInv, NEW k \in Kind
  PROVE  LET e == [kind |-> k, at |-> arrived + 1]
         IN  /\ entries \cup {e} \subseteq HistoryEntry /\ IsFiniteSet(entries \cup {e})
             /\ e \notin entries /\ Cardinality(entries \cup {e}) = Cardinality(entries) + 1
             /\ \A f \in entries \cup {e} : f.at > cleared /\ f.at <= arrived + 1
<1> DEFINE e == [kind |-> k, at |-> arrived + 1]
<1>1. arrived \in Nat /\ cleared \in Nat /\ cleared <= arrived
  BY DEF HistoryInv
<1>2. e \in HistoryEntry /\ e.at = arrived + 1
  BY <1>1 DEF HistoryEntry
<1>3. \A f \in entries : f \in HistoryEntry /\ f.at <= arrived /\ f.at > cleared
  BY DEF HistoryInv, EntriesHold
<1>4. e \notin entries
  BY <1>1, <1>2, <1>3
<1>5. IsFiniteSet(entries \cup {e}) /\ Cardinality(entries \cup {e}) = Cardinality(entries) + 1
  BY <1>4, FS_AddElement DEF HistoryInv, EntriesHold
<1>6. \A f \in entries \cup {e} : f \in HistoryEntry /\ f.at > cleared /\ f.at <= arrived + 1
  BY <1>1, <1>2, <1>3 DEF HistoryEntry
<1> QED
  BY <1>4, <1>5, <1>6

\* An alert more: trimmed to the room there is, and written or not.
LEMMA AddStep ==
  ASSUME HistoryInv, NEW k \in Kind, History!Add(k)
  PROVE  HistoryInv'
<1> DEFINE e == [kind |-> k, at |-> arrived + 1]
           kept == History!trim(entries \cup {e})
<1>1. setup' = setup /\ arrived' = arrived + 1 /\ cleared' = cleared /\ entries' = kept
  BY DEF History!Add
<1>2. /\ entries \cup {e} \subseteq HistoryEntry /\ IsFiniteSet(entries \cup {e})
      /\ \A f \in entries \cup {e} : f.at > cleared /\ f.at <= arrived + 1
  BY AddedIsNew
<1>3. kept \subseteq entries \cup {e} /\ IsFiniteSet(kept) /\ History!Fits(kept)
  BY <1>2, TrimHolds DEF HistoryInv
<1>4. \/ History!Untouched
      \/ History!Compact(kept)
      \/ History!Written(e)
      \/ History!CutShort
  BY Zenon DEF History!Add, History!Append
<1>5. lines' \in {lines, lines \cup {e}, kept}
  BY <1>4 DEF History!Untouched, History!Compact, History!Written, History!CutShort
<1>6. TornIsPaid'
  <2>1. \/ cut' = cut /\ merged' = merged /\ (torn' = torn \/ torn' = FALSE)
        \/ torn = TRUE /\ cut' = cut /\ merged' = merged + 1 /\ torn' = FALSE
        \/ cut' = cut + 1 /\ merged' = merged /\ torn' = TRUE
    BY <1>4, Zenon DEF HistoryInv, TornIsPaid, History!Untouched, History!Compact, History!Written, History!CutShort
  <2>2. /\ cut \in Nat /\ merged \in Nat /\ torn \in BOOLEAN
        /\ merged <= cut /\ (torn = TRUE => merged < cut)
    BY DEF HistoryInv, TornIsPaid
  <2>4. cut' \in Nat /\ merged' \in Nat /\ merged' <= cut' /\ (torn' = TRUE => merged' < cut')
    BY <2>1, <2>2
  <2>3. torn' \in BOOLEAN
    BY <2>1, Zenon DEF HistoryInv, TornIsPaid
  <2> QED
    BY <2>3, <2>4 DEF TornIsPaid
<1>7. EntriesHold'
  <2>1. lines' \subseteq HistoryEntry /\ IsFiniteSet(lines')
    <3>1. IsFiniteSet(lines \cup {e}) /\ lines \cup {e} \subseteq HistoryEntry
      BY <1>2, FS_AddElement DEF HistoryInv, EntriesHold
    <3> QED
      BY <1>2, <1>3, <1>5, <3>1 DEF HistoryInv, EntriesHold
  <2>2. \A f \in lines : f.at > cleared /\ f.at <= arrived + 1
    <3>1. \A f \in lines : f.at \in Nat /\ f.at > cleared /\ f.at <= arrived
      BY DEF HistoryInv, EntriesHold, HistoryEntry
    <3> QED
      BY <3>1 DEF HistoryInv
  <2>3. \A f \in lines' : f.at > cleared /\ f.at <= arrived + 1
    BY <1>2, <1>3, <1>5, <2>2
  <2>4. Cardinality(entries') <= History!Max'
    BY <1>1, <1>3, SameCardinality DEF History!Fits, History!Max
  <2>5. \A f, g \in entries' \cup lines' : f.at = g.at => f = g
    <3>1. \A f \in entries \cup lines : f.at \in Nat /\ f.at <= arrived
      BY DEF HistoryInv, EntriesHold, HistoryEntry
    <3>2. \A f \in entries \cup lines : f.at # e.at
      BY <3>1 DEF HistoryInv
    <3>3. entries' \cup lines' \subseteq entries \cup lines \cup {e}
      BY <1>1, <1>3, <1>5
    <3>4. \A f, g \in entries \cup lines : f.at = g.at => f = g
      BY DEF HistoryInv, EntriesHold
    <3> QED
      BY <3>2, <3>3, <3>4
  <2> QED
    BY <1>1, <1>2, <1>3, <2>1, <2>3, <2>4, <2>5 DEF EntriesHold
<1> QED
  BY <1>1, <1>6, <1>7 DEF HistoryInv

\* What is cleared with success is gone from the list and from the file.
LEMMA ClearStep ==
  ASSUME HistoryInv, History!Clear
  PROVE  HistoryInv'
<1>1. entries' = {} /\ setup' = setup /\ arrived' = arrived /\ cut' = cut /\ merged' = merged
  BY DEF History!Clear
<1>2. \/ lines' = {} /\ torn' = FALSE /\ cleared' = arrived
      \/ lines' = lines /\ torn' = torn /\ cleared' = cleared
  BY Zenon DEF History!Clear, History!ClearFile, History!FailedClear
<1>3. History!Max' = History!Max /\ History!Max \in Nat
  BY <1>1, HistoryConstants DEF History!Max, HistoryInv
<1>4. EntriesHold'
  BY <1>1, <1>2, <1>3, FS_EmptySet DEF HistoryInv, EntriesHold
<1>5. TornIsPaid'
  BY <1>1, <1>2 DEF HistoryInv, TornIsPaid
<1> QED
  BY <1>1, <1>2, <1>4, <1>5 DEF HistoryInv

\* A start brings back what the file holds, and nothing else.
LEMMA LoadStep ==
  ASSUME HistoryInv, History!Load
  PROVE  HistoryInv'
<1>1. setup' = setup /\ arrived' = arrived /\ cleared' = cleared
  BY DEF History!Load
<1>2. entries' \in {{}, History!trim(lines)}
  BY DEF History!Load
<1>3. lines' \in {lines, entries'} /\ cut' = cut /\ merged' = merged /\ (torn' = torn \/ torn' = FALSE)
  BY DEF History!Load, History!Compact, History!Untouched
<1>4. /\ History!trim(lines) \subseteq lines /\ IsFiniteSet(History!trim(lines))
      /\ Cardinality(History!trim(lines)) <= History!Max
  BY TrimHolds, SameCardinality DEF HistoryInv, EntriesHold, History!Fits
<1>5. History!Max' = History!Max /\ History!Max \in Nat
  BY <1>1, HistoryConstants DEF History!Max, HistoryInv
<1>6. entries' \subseteq lines /\ IsFiniteSet(entries') /\ Cardinality(entries') <= History!Max
  BY <1>2, <1>4, <1>5, FS_EmptySet
<1>7. EntriesHold'
  BY <1>1, <1>3, <1>5, <1>6 DEF HistoryInv, EntriesHold
<1>8. TornIsPaid'
  BY <1>3 DEF HistoryInv, TornIsPaid
<1> QED
  BY <1>1, <1>7, <1>8 DEF HistoryInv

\* Every step keeps the invariant.
LEMMA HistoryNext == HistoryInv /\ [History!Next]_(History!vars) => HistoryInv'
<1> SUFFICES ASSUME HistoryInv, [History!Next]_(History!vars) PROVE HistoryInv'
  OBVIOUS
<1>1. CASE UNCHANGED History!vars
  BY <1>1 DEF HistoryInv, EntriesHold, TornIsPaid, History!Max, History!vars
<1> QED
  BY <1>1, AddStep, ClearStep, LoadStep DEF History!Next

(* The invariant holds through every append, trim, Clear and restart.      *)
THEOREM HistoryInvariance == History!Spec => []HistoryInv
BY HistoryInit, HistoryNext, PTL DEF History!Spec

(* Cleared alerts do not come back and a torn write costs at most one      *)
(* other alert, through every failure of the disk and restart              *)
(* (src/pkg/alert/history.go:142-201, 361-471).                            *)
THEOREM FileTheorem == History!Spec => []FileIsFaithful
<1>1. HistoryInv => FileIsFaithful
  BY DEF HistoryInv, EntriesHold, TornIsPaid, FileIsFaithful, History!FileIsFaithful,
         History!ClearedStaysCleared, History!LossIsBounded
<1> QED
  BY <1>1, HistoryInvariance, PTL

\* The new alert survives every stage but the last, and the last is only
\* reached when neither repeats nor a type over its share made room.
LEMMA TrimStages ==
  ASSUME HistoryInv, NEW k \in Kind
  PROVE  LET e == [kind |-> k, at |-> arrived + 1]
             E == entries \cup {e}
             D == History!NewestOfKey(E)
             C == History!CapTypes(D)
         IN  \/ e \in D /\ History!trim(E) \in {E, D}
             \/ e \in C /\ History!trim(E) = C
             \/ C = E /\ D = E /\ Cardinality(E) = History!Max + 1 /\ History!trim(E) = History!Evict(E)
<1> DEFINE e == [kind |-> k, at |-> arrived + 1]
           E == entries \cup {e}
           D == History!NewestOfKey(E)
           C == History!CapTypes(D)
<1>1. /\ E \subseteq HistoryEntry /\ IsFiniteSet(E)
      /\ Cardinality(E) = Cardinality(entries) + 1
  BY AddedIsNew
<1>2. \A f \in E : ~(f.at > arrived + 1)
  <2>1. \A f \in E : f.at \in Nat
    BY <1>1 DEF HistoryEntry
  <2>2. \A f \in E : f.at <= arrived + 1
    BY AddedIsNew
  <2> QED
    BY <2>1, <2>2 DEF HistoryInv
<1>3. \A S : S \subseteq E => History!Newer(S, e) = {}
  BY <1>2 DEF History!Newer
<1>4. e \in D
  BY <1>3 DEF History!NewestOfKey
<1>5. e \in C
  <2>1. History!OfType(D, e.kind.type) \subseteq E
    BY DEF History!OfType, History!NewestOfKey
  <2>2. History!Cardinality(History!Newer(History!OfType(D, e.kind.type), e)) = 0
    BY <1>3, <2>1, SameCardinality, FS_EmptySet
  <2>3. History!Cap > 0
    BY HistoryConstants DEF History!Cap, History!Max, HistoryInv
  <2> QED
    BY <1>4, <2>2, <2>3 DEF History!CapTypes
<1>6. C \subseteq D /\ D \subseteq E
  BY DEF History!CapTypes, History!NewestOfKey
<1>7. ASSUME ~History!Fits(C)
      PROVE  C = E /\ D = E /\ Cardinality(E) = History!Max + 1
  <2>1. History!Max \in Nat /\ Cardinality(entries) \in Nat /\ Cardinality(entries) <= History!Max
    BY HistoryConstants, FS_CardinalityType DEF History!Max, HistoryInv, EntriesHold
  <2>2. C \in SUBSET E /\ Cardinality(C) \in Nat /\ Cardinality(C) <= Cardinality(E)
        /\ (Cardinality(E) = Cardinality(C) => E = C)
    BY <1>1, <1>6, FS_Subset, FS_CardinalityType
  <2>3. Cardinality(C) > History!Max
    BY <1>7, <2>1, <2>2, SameCardinality DEF History!Fits
  <2>4. Cardinality(E) = Cardinality(C) /\ Cardinality(E) = History!Max + 1
    BY <1>1, <2>1, <2>2, <2>3
  <2> QED
    BY <1>6, <2>2, <2>4
<1> QED
  BY <1>4, <1>5, <1>7 DEF History!trim

\* What is evicted though nothing newer repeats it belonged to a type over its
\* share, unless all is distinct, no type was cut, and one too many is left.
LEMMA WhyEvicted ==
  ASSUME HistoryInv, NEW k \in Kind, History!Add(k),
         NEW f \in entries, History!Evicted(f), History!WithinCap(f)
  PROVE  LET E == entries \cup {[kind |-> k, at |-> arrived + 1]}
         IN  /\ entries' = History!Evict(E) /\ Cardinality(E) = History!Max + 1
             /\ History!CapTypes(E) = E
<1> DEFINE e == [kind |-> k, at |-> arrived + 1]
           E == entries \cup {e}
           D == History!NewestOfKey(E)
           C == History!CapTypes(D)
           t == f.kind.type
<1>1. entries' = History!trim(E) /\ f \notin entries' /\ ~History!Repeated(f)
  BY DEF History!Add, History!Evicted
<1>2. History!trim(E) \subseteq E /\ IsFiniteSet(E)
  BY AddedIsNew, TrimHolds DEF HistoryInv
<1>3. ASSUME e \in entries' PROVE History!Candidates = E /\ f \in D
  <2>1. History!Candidates = E
    BY <1>1, <1>2, <1>3 DEF History!Candidates
  <2> QED
    BY <1>1, <2>1 DEF History!Repeated, History!NewestOfKey
<1>4. ~(e \in D /\ History!trim(E) \in {E, D})
  BY <1>1, <1>3
<1>5. ASSUME e \in C, History!trim(E) = C PROVE FALSE
  <2>1. History!Candidates = E /\ f \in D /\ f \notin C
    BY <1>1, <1>3, <1>5
  <2> DEFINE N == History!Newer(History!OfType(D, t), f)
             O == History!OfType(E, t)
  <2>2. ~(Cardinality(N) < History!Cap)
    BY <2>1, SameCardinality DEF History!CapTypes
  <2>3. N \cup {f} \subseteq O /\ f \notin N
    <3>1. f.at \in Nat
      BY DEF HistoryInv, EntriesHold, HistoryEntry
    <3> QED
      BY <3>1 DEF History!Newer, History!OfType, History!NewestOfKey
  <2>4. IsFiniteSet(O) /\ IsFiniteSet(N)
    BY <1>2, <2>3, FS_Subset DEF History!OfType
  <2>5. Cardinality(N \cup {f}) = Cardinality(N) + 1 /\ IsFiniteSet(N \cup {f})
    BY <2>3, <2>4, FS_AddElement
  <2>6. Cardinality(N) \in Nat /\ Cardinality(O) \in Nat /\ Cardinality(N) + 1 <= Cardinality(O)
    <3>1. Cardinality(N) \in Nat /\ Cardinality(O) \in Nat
      BY <2>4, FS_CardinalityType
    <3>2. Cardinality(N \cup {f}) <= Cardinality(O)
      BY <2>3, <2>4, FS_Subset
    <3> QED
      BY <2>5, <3>1, <3>2
  <2>7. Cardinality(O) <= History!Cap
    BY <2>1, SameCardinality DEF History!WithinCap
  <2>8. History!Cap \in Nat
    BY HistoryConstants DEF History!Cap, History!Max, HistoryInv
  <2> QED
    BY <2>2, <2>6, <2>7, <2>8
<1> QED
  BY <1>1, <1>4, <1>5, TrimStages

\* Among what is left, what is untrusted goes first.
LEMMA TrustStep ==
  ASSUME HistoryInv, NEW k \in Kind, History!Add(k),
         NEW f \in entries, History!Evicted(f), f.kind.trusted, History!WithinCap(f),
         NEW g \in entries'
  PROVE  g.kind.trusted
<1> DEFINE E == entries \cup {[kind |-> k, at |-> arrived + 1]}
           Before(e) == {h \in E : History!GoesBefore(h, e)}
<1>1. /\ entries' = History!Evict(E) /\ Cardinality(E) = History!Max + 1
      /\ f \in E /\ f \notin History!Evict(E)
  BY WhyEvicted DEF History!Evicted
<1>2. E \subseteq HistoryEntry /\ IsFiniteSet(E) /\ History!Max \in Nat
  BY AddedIsNew, HistoryConstants DEF HistoryInv, History!Max
<1>3. g \in E
  BY <1>1 DEF History!Evict
<1>4. Cardinality(Before(f)) < 1
  <2>1. ~(Cardinality(Before(f)) >= Cardinality(E) - History!Max)
    BY <1>1, SameCardinality DEF History!Evict
  <2>2. Cardinality(Before(f)) \in Nat
    BY <1>2, FS_Subset, FS_CardinalityType
  <2> QED
    BY <1>1, <1>2, <2>1, <2>2
<1>5. Before(f) = {}
  BY <1>2, <1>4, FS_Subset, FS_CardinalityType, FS_EmptySet
<1>6. ~History!GoesBefore(g, f)
  BY <1>3, <1>5
<1> QED
  BY <1>6 DEF History!GoesBefore

\* A type over its share that gets one more alert pays for it itself.
LEMMA FloodStep ==
  ASSUME \A s \in Setup : s.max # 3,
         HistoryInv, NEW k \in Kind, History!Add(k), NEW a \in History!Added,
         Cardinality(History!OfType(History!Candidates, a.kind.type)) > History!Cap,
         NEW f \in entries, History!Evicted(f), History!WithinCap(f)
  PROVE  f.kind.type = a.kind.type
<1> DEFINE e == [kind |-> k, at |-> arrived + 1]
           E == entries \cup {e}
           O == History!OfType(E, a.kind.type)
<1>1. /\ entries' = History!Evict(E) /\ Cardinality(E) = History!Max + 1
      /\ History!CapTypes(E) = E
  BY WhyEvicted
<1>2. /\ E \subseteq HistoryEntry /\ IsFiniteSet(E)
      /\ History!Max \in Nat \ {0} /\ History!Max # 3
  BY AddedIsNew, HistoryConstants DEF HistoryInv, History!Max
<1>3. a = e
  <2>1. a \in E /\ a.at = arrived + 1
    BY <1>1 DEF History!Added, History!Evict, History!Add
  <2>2. \A h \in entries : h.at \in Nat /\ h.at <= arrived
    BY DEF HistoryInv, EntriesHold, HistoryEntry
  <2> QED
    BY <2>1, <2>2 DEF HistoryInv
<1>4. History!Candidates = E
  BY <1>1, <1>3 DEF History!Candidates, History!Added, History!Evict
<1>5. IsFiniteSet(O) /\ O \subseteq E /\ Cardinality(O) \in Nat /\ Cardinality(O) > History!Cap
  BY <1>2, <1>4, FS_Subset, FS_CardinalityType DEF History!OfType
<1> SUFFICES ASSUME f.kind.type # a.kind.type PROVE FALSE
  OBVIOUS
<1>6. f \in E /\ f \notin O
  BY DEF History!OfType
<1>7. Cardinality(O) < History!Max + 1
  <2>1. O \in SUBSET E /\ O # E
    BY <1>5, <1>6
  <2>2. Cardinality(O) <= Cardinality(E) /\ Cardinality(O) # Cardinality(E) /\ Cardinality(E) \in Nat
    BY <1>2, <2>1, FS_Subset, FS_CardinalityType
  <2> QED
    BY <1>1, <1>5, <2>2
<1>8. History!Max >= 4 /\ History!Cap \in Nat
  BY <1>2, <1>5, <1>7 DEF History!Cap
<1>9. Cardinality({h.kind.type : h \in E}) > 1
  <2> DEFINE T == {h.kind.type : h \in E}
             S == {f.kind.type} \cup {a.kind.type}
  <2>1. [h \in E |-> h.kind.type] \in Surjection(E, T)
    BY DEF Surjection
  <2>2. IsFiniteSet(T) /\ Cardinality(T) \in Nat
    BY <1>2, <2>1, FS_Surjection, FS_CardinalityType
  <2>3. S \in SUBSET T
    BY <1>3
  <2>4. Cardinality(S) = 2
    <3>1. IsFiniteSet({f.kind.type}) /\ Cardinality({f.kind.type}) = 1 /\ a.kind.type \notin {f.kind.type}
      BY FS_Singleton
    <3>2. Cardinality({f.kind.type} \cup {a.kind.type}) = Cardinality({f.kind.type}) + 1
      BY <3>1, FS_AddElement
    <3> QED
      BY <3>1, <3>2
  <2> QED
    BY <2>2, <2>3, <2>4, FS_Subset
<1>10. \A h \in O : Cardinality(History!Newer(O, h)) < History!Cap
  <2>1. \A h \in E : Cardinality(History!Newer(History!OfType(E, h.kind.type), h)) < History!Cap
    BY <1>1, <1>8, <1>9, SameCardinality DEF History!CapTypes
  <2> QED
    BY <2>1 DEF History!OfType
<1>11. PICK o \in O : \A h \in O : ~(h.at < o.at)
  <2> DEFINE R == {p \in O \X O : p[1].at < p[2].at}
  <2>1. \A h \in O : h.at \in Nat
    BY <1>2, <1>5 DEF HistoryEntry
  <2>2. \A h, i \in O : <<h, i>> \in R <=> h.at < i.at
    OBVIOUS
  <2> HIDE DEF R, O
  <2>3. /\ \A h \in O : <<h, h>> \notin R
        /\ \A h, i, j \in O : <<h, i>> \in R /\ <<i, j>> \in R => <<h, j>> \in R
    BY <2>1, <2>2
  <2>4. O # {}
    BY <1>3 DEF O, History!OfType
  <2>5. \E h \in O : \A i \in O : <<i, h>> \notin R
    BY <1>5, <2>3, <2>4, HasFirst
  <2> QED
    BY <2>2, <2>5
<1>12. History!Newer(O, o) = O \ {o}
  <2>1. \A h \in O : h.at \in Nat
    BY <1>2, <1>5 DEF HistoryEntry
  <2>2. \A h \in O : h.at = o.at => h = o
    <3>1. \A h, i \in entries : h.at = i.at => h = i
      BY DEF HistoryInv, EntriesHold
    <3>2. \A h \in entries : h.at # e.at
      BY DEF HistoryInv, EntriesHold, HistoryEntry
    <3> QED
      BY <1>5, <3>1, <3>2
  <2> HIDE DEF O
  <2>3. ASSUME NEW h \in O PROVE h.at > o.at <=> h # o
    <3>1. h.at \in Nat /\ o.at \in Nat /\ ~(h.at < o.at) /\ (h.at = o.at => h = o)
      BY <1>11, <2>1, <2>2
    <3> QED
      BY <3>1
  <2> QED
    BY <2>3 DEF History!Newer
<1>13. Cardinality(O \ {o}) = Cardinality(O) - 1
  BY <1>5, <1>11, FS_RemoveElement
<1>14. Cardinality(O \ {o}) < History!Cap
  BY <1>10, <1>11, <1>12
<1> HIDE DEF O
<1> QED
  BY <1>5, <1>8, <1>13, <1>14

\* A step that adds an alert is an Add.
LEMMA Additions ==
  ASSUME HistoryInv, [History!Next]_(History!vars), History!Adding
  PROVE  \E k \in Kind : History!Add(k)
<1>1. arrived' # arrived
  BY DEF History!Adding, HistoryInv
<1> QED
  BY <1>1 DEF History!Next, History!Clear, History!Load, History!vars

(* A full history gives up what repeats, what floods and what is not       *)
(* trusted, in this order, whatever came before: with room for any number  *)
(* of alerts but three.  With room for three no type is cut and a third    *)
(* alert of one type can push out the only one of another; the engine      *)
(* keeps two hundred (src/pkg/alert/history.go:250-358, engine.go:69).     *)
THEOREM EvictionTheorem ==
  ASSUME \A s \in Setup : s.max # 3
  PROVE  History!Spec => EvictionIsFair
<1>1. HistoryInv /\ [History!Next]_(History!vars) =>
        (History!Adding => \A a \in History!Added :
           History!Cardinality(History!OfType(History!Candidates, a.kind.type)) > History!Cap =>
             \A e \in entries : History!Evicted(e) => e.kind.type = a.kind.type \/ ~History!WithinCap(e))
  BY Additions, FloodStep, SameCardinality
<1>2. HistoryInv /\ [History!Next]_(History!vars) =>
        (History!Adding => \A e \in entries :
           (History!Evicted(e) /\ e.kind.trusted /\ History!WithinCap(e)) => \A f \in entries' : f.kind.trusted)
  BY Additions, TrustStep
<1>3. History!Spec => History!FloodEvictsItsOwn
  BY <1>1, HistoryInvariance, PTL DEF History!Spec, History!FloodEvictsItsOwn
<1>4. History!Spec => History!TrustDecides
  BY <1>2, HistoryInvariance, PTL DEF History!Spec, History!TrustDecides
<1> QED
  BY <1>3, <1>4 DEF EvictionIsFair, History!EvictionIsFair
=============================================================================
