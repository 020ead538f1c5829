------------------------- MODULE SessionStoreProofs -------------------------
(***************************************************************************)
(* Proofs about SessionStore, for any number of goroutines, tokens and     *)
(* users, any cap and any lifetimes.  The inductive invariant is IInv; its *)
(* heart is InFlight (the newest table is always on its way to the disk)   *)
(* and RemovedGone/RevokedGone (no snapshot holds what was removed before  *)
(* it was taken), both resting on OneWriter, which saveMu provides.        *)
(***************************************************************************)
EXTENDS SessionStore, FiniteSetTheorems, TLAPS

\* Restricting a table yields a table.
LEMMA RestrictTable ==
  ASSUME NEW t, NEW S, IsTable(t), S \subseteq DOMAIN t
  PROVE  /\ IsTable(Restrict(t, S)) /\ DOMAIN Restrict(t, S) = S
         /\ \A k \in S : Restrict(t, S)[k] = t[k]
BY DEF IsTable, Restrict

\* The empty table is a table.
LEMMA EmptyTable == IsTable(Empty) /\ DOMAIN Empty = {}
BY DEF IsTable, Empty

\* The initial state satisfies the invariant.
LEMMA InitInv == Init => IInv
<1> SUFFICES ASSUME Init PROVE IInv
  OBVIOUS
<1>1. TypeOK
  BY EmptyTable DEF Init, TypeOK
<1>2. OneWriter /\ LocalsGone
  BY DEF Init, OneWriter, LocalsGone
<1>3. Known /\ RemovedGone /\ RevokedGone
  BY EmptyTable DEF Init, Known, RemovedGone, RevokedGone, RevokedIsFinal
<1>4. InFlight
  BY EmptyTable DEF Init, InFlight, Covers
<1>5. ViewsAreOlder
  BY EmptyTable DEF Init, ViewsAreOlder, Older
<1> QED
  BY <1>1, <1>2, <1>3, <1>4, <1>5 DEF IInv

\* An operation that takes keys out of the table preserves the invariant.
LEMMA RemoveStep ==
  ASSUME IInv, NEW p \in Proc, NEW K \in SUBSET issued, Remove(p, K)
  PROVE  IInv'
<1> DEFINE rest == DOMAIN sessions \ K
<1>0. /\ sessions' = Restrict(sessions, rest)
      /\ IsTable(sessions') /\ DOMAIN sessions' = rest
      /\ \A k \in rest : sessions'[k] = sessions[k]
  BY RestrictTable DEF IInv, TypeOK, Remove, Mutated, Without
<1>1. TypeOK'
  BY <1>0 DEF IInv, TypeOK, Remove, Mutated, IsTable
<1>2. OneWriter' /\ LocalsGone'
  BY DEF IInv, TypeOK, OneWriter, LocalsGone, Remove, Mutated
<1>3. Known'
  BY <1>0 DEF IInv, TypeOK, Known, Remove, Mutated
<1>4. RemovedGone'
  <2>1. snap[p] = Empty
    BY DEF IInv, LocalsGone, Remove, Mutated
  <2> QED
    BY <1>0, <2>1, EmptyTable DEF IInv, TypeOK, RemovedGone, Remove, Mutated
<1>5. RevokedGone'
  BY <1>0 DEF IInv, RevokedGone, RevokedIsFinal, Remove, Mutated
<1>6. InFlight'
  BY DEF IInv, TypeOK, InFlight, Remove, Mutated
<1>7. ViewsAreOlder'
  <2>1. UNCHANGED <<clock, file, snap>>
    BY DEF Remove, Mutated
  <2>2. Older(sessions)'
    BY <1>0, <2>1 DEF IInv, ViewsAreOlder, Older
  <2>3. Older(file)'
    BY <1>0, <2>1 DEF IInv, ViewsAreOlder, Older
  <2>4. \A q \in Proc : Older(snap[q])'
    BY <1>0, <2>1 DEF IInv, ViewsAreOlder, Older
  <2> QED
    BY <2>2, <2>3, <2>4 DEF ViewsAreOlder
<1> QED
  BY <1>1, <1>2, <1>3, <1>4, <1>5, <1>6, <1>7 DEF IInv

\* Issuing a session, with or without an eviction, preserves the invariant.
LEMMA CreateStep ==
  ASSUME IInv, NEW p \in Proc, NEW k \in Key, NEW u \in User, Create(p, k, u)
  PROVE  IInv'
<1> DEFINE new == [user |-> u, seen |-> clock, ends |-> clock + TTL(u)]
<1>0. PICK V \in SUBSET DOMAIN sessions :
        Mutated(p, [j \in (DOMAIN sessions \ V) \cup {k} |->
                      IF j = k THEN new ELSE sessions[j]], V)
  BY DEF Create, Full, Victims, Oldest, GuestKeys
<1> DEFINE kept == DOMAIN sessions \ V
<1>1. /\ sessions' = [j \in kept \cup {k} |-> IF j = k THEN new ELSE sessions[j]]
      /\ removing' = [removing EXCEPT ![p] = V]
      /\ pc[p] = "idle" /\ pc' = [pc EXCEPT ![p] = "save"]
      /\ UNCHANGED <<clock, file, snap, revoked, stale>>
      /\ k \notin issued /\ issued' = issued \cup {k}
  BY <1>0 DEF Mutated, Create
<1>2. new \in Session
  BY SessionAssumption DEF IInv, TypeOK, TTL, Session
<1>3. TypeOK'
  BY <1>1, <1>2 DEF IInv, TypeOK, IsTable
<1>4. OneWriter' /\ LocalsGone'
  BY <1>1 DEF IInv, TypeOK, OneWriter, LocalsGone
<1>5. Known'
  BY <1>1 DEF IInv, TypeOK, Known
<1>6. RemovedGone'
  <2>1. snap[p] = Empty
    BY <1>1 DEF IInv, LocalsGone
  <2> QED
    BY <1>1, <2>1, EmptyTable DEF IInv, TypeOK, Known, RemovedGone
<1>7. RevokedGone'
  BY <1>1 DEF IInv, Known, RevokedGone, RevokedIsFinal
<1>8. InFlight'
  BY <1>1 DEF IInv, TypeOK, InFlight
<1>9. ViewsAreOlder'
  <2>1. Older(sessions)'
    BY <1>1 DEF IInv, TypeOK, ViewsAreOlder, Older
  <2>2. Older(file)'
    BY <1>1 DEF IInv, TypeOK, Known, ViewsAreOlder, Older
  <2>3. \A q \in Proc : Older(snap[q])'
    BY <1>1 DEF IInv, TypeOK, Known, ViewsAreOlder, Older
  <2> QED
    BY <2>1, <2>2, <2>3 DEF ViewsAreOlder
<1> QED
  BY <1>3, <1>4, <1>5, <1>6, <1>7, <1>8, <1>9 DEF IInv

\* A request that refreshes LastSeen preserves the invariant.
LEMMA TouchStep ==
  ASSUME IInv, NEW k \in Key, Touch(k)
  PROVE  IInv'
<1>1. /\ DOMAIN sessions' = DOMAIN sessions
      /\ sessions'[k].seen = clock /\ sessions'[k].ends = sessions[k].ends
      /\ sessions'[k] \in Session
      /\ \A j \in DOMAIN sessions \ {k} : sessions'[j] = sessions[j]
      /\ IsTable(sessions')
  BY DEF IInv, TypeOK, IsTable, Session, Touch
<1>2. TypeOK'
  BY <1>1 DEF IInv, TypeOK, IsTable, Touch
<1>3. OneWriter' /\ LocalsGone' /\ Known' /\ RemovedGone' /\ RevokedGone'
  BY <1>1 DEF IInv, OneWriter, LocalsGone, Known, RemovedGone, RevokedGone,
              RevokedIsFinal, Touch
<1>4. InFlight'
  BY <1>1 DEF IInv, InFlight, Covers, Expired, Touch
<1>5. ViewsAreOlder'
  <2>1. Older(sessions)'
    BY <1>1 DEF IInv, TypeOK, ViewsAreOlder, Older, Touch
  <2>2. Older(file)'
    BY <1>1 DEF IInv, TypeOK, ViewsAreOlder, Older, Touch
  <2>3. \A q \in Proc : Older(snap[q])'
    BY <1>1 DEF IInv, TypeOK, ViewsAreOlder, Older, Touch
  <2> QED
    BY <2>1, <2>2, <2>3 DEF ViewsAreOlder
<1> QED
  BY <1>2, <1>3, <1>4, <1>5 DEF IInv

\* Taking saveMu and the snapshot preserves the invariant.
LEMMA BeginWriteStep ==
  ASSUME IInv, NEW p \in Proc, BeginWrite(p)
  PROVE  IInv'
<1>1. /\ pc[p] = "save" /\ pc' = [pc EXCEPT ![p] = "write"]
      /\ \A q \in Proc : pc[q] # "write"
      /\ snap' = [snap EXCEPT ![p] = sessions]
      /\ UNCHANGED <<clock, sessions, file, removing, issued, revoked, stale>>
  BY DEF BeginWrite, SaveMuFree, Records
<1>2. TypeOK'
  BY <1>1 DEF IInv, TypeOK, IsTable
<1>3. OneWriter' /\ LocalsGone' /\ Known'
  BY <1>1 DEF IInv, TypeOK, OneWriter, LocalsGone, Known
<1>4. RemovedGone' /\ RevokedGone'
  BY <1>1 DEF IInv, TypeOK, RemovedGone, RevokedGone, RevokedIsFinal
<1>5. InFlight'
  <2>1. pc'[p] = "write" /\ snap'[p] = sessions'
    BY <1>1 DEF IInv, TypeOK
  <2> QED
    BY <2>1 DEF InFlight, Covers
<1>6. ViewsAreOlder'
  BY <1>1 DEF IInv, TypeOK, ViewsAreOlder, Older
<1> QED
  BY <1>2, <1>3, <1>4, <1>5, <1>6 DEF IInv

\* The rename that ends a save preserves the invariant.
LEMMA EndWriteStep ==
  ASSUME IInv, NEW p \in Proc, EndWrite(p)
  PROVE  IInv'
<1>1. /\ pc[p] = "write" /\ pc' = [pc EXCEPT ![p] = "idle"]
      /\ file' = snap[p] /\ revoked' = revoked \cup removing[p] /\ stale' = FALSE
      /\ snap' = [snap EXCEPT ![p] = Empty]
      /\ removing' = [removing EXCEPT ![p] = {}]
      /\ UNCHANGED <<clock, sessions, issued>>
  BY DEF EndWrite, Done
<1>2. \A q \in Proc \ {p} : pc[q] # "write" /\ snap[q] = Empty
  BY <1>1 DEF IInv, OneWriter, LocalsGone
<1>3. TypeOK'
  BY <1>1, EmptyTable DEF IInv, TypeOK, IsTable
<1>4. OneWriter' /\ LocalsGone' /\ Known'
  BY <1>1, <1>2, EmptyTable DEF IInv, TypeOK, OneWriter, LocalsGone, Known
<1>5. RemovedGone'
  BY <1>1, EmptyTable DEF IInv, TypeOK, RemovedGone
<1>6. RevokedGone'
  <2>1. \A q \in Proc : DOMAIN snap'[q] = {}
    BY <1>1, <1>2, EmptyTable DEF IInv, TypeOK
  <2> QED
    BY <1>1, <2>1 DEF IInv, TypeOK, RemovedGone, RevokedGone, RevokedIsFinal
<1>7. InFlight'
  <2> SUFFICES ASSUME \A q \in Proc : pc'[q] # "save"
               PROVE  (\A q \in Proc : pc'[q] = "idle") /\ Covers(file)'
    BY DEF InFlight
  <2>1. \A q \in Proc : pc[q] # "save"
    BY <1>1 DEF IInv, TypeOK
  <2>2. Covers(snap[p])
    BY <1>1, <1>2, <2>1 DEF IInv, InFlight
  <2>3. Covers(file)'
    BY <1>1, <2>2 DEF Covers, Expired
  <2>4. \A q \in Proc : pc'[q] = "idle"
    BY <1>1, <1>2, <2>1 DEF IInv, TypeOK
  <2> QED
    BY <2>3, <2>4
<1>8. ViewsAreOlder'
  BY <1>1, EmptyTable DEF IInv, TypeOK, ViewsAreOlder, Older
<1> QED
  BY <1>3, <1>4, <1>5, <1>6, <1>7, <1>8 DEF IInv

\* A failed write preserves the invariant: the file is then marked stale.
LEMMA FailWriteStep ==
  ASSUME IInv, NEW p \in Proc, FailWrite(p)
  PROVE  IInv'
<1>1. /\ pc[p] = "write" /\ pc' = [pc EXCEPT ![p] = "idle"] /\ stale' = TRUE
      /\ snap' = [snap EXCEPT ![p] = Empty]
      /\ removing' = [removing EXCEPT ![p] = {}]
      /\ UNCHANGED <<clock, sessions, file, issued, revoked>>
  BY DEF FailWrite, Done
<1>2. \A q \in Proc \ {p} : pc[q] # "write"
  BY <1>1 DEF IInv, OneWriter
<1>3. TypeOK'
  BY <1>1, EmptyTable DEF IInv, TypeOK, IsTable
<1>4. OneWriter' /\ LocalsGone' /\ Known'
  BY <1>1, EmptyTable DEF IInv, TypeOK, OneWriter, LocalsGone, Known
<1>5. RemovedGone' /\ RevokedGone'
  BY <1>1, EmptyTable DEF IInv, TypeOK, RemovedGone, RevokedGone, RevokedIsFinal
<1>6. InFlight'
  BY <1>1, <1>2 DEF IInv, TypeOK, InFlight
<1>7. ViewsAreOlder'
  BY <1>1, EmptyTable DEF IInv, TypeOK, ViewsAreOlder, Older
<1> QED
  BY <1>3, <1>4, <1>5, <1>6, <1>7 DEF IInv

\* A crash at any point, followed by load(), preserves the invariant.
LEMMA RestartStep ==
  ASSUME IInv, Restart
  PROVE  IInv'
<1>0. /\ IsTable(sessions') /\ DOMAIN sessions' = LiveKeys(file)
      /\ \A k \in LiveKeys(file) : sessions'[k] = file[k]
      /\ LiveKeys(file) \subseteq DOMAIN file
  BY RestrictTable DEF IInv, TypeOK, Restart, LiveKeys
<1>1. /\ pc' = [p \in Proc |-> "idle"] /\ snap' = [p \in Proc |-> Empty]
      /\ removing' = [p \in Proc |-> {}] /\ stale' = FALSE
      /\ UNCHANGED <<clock, file, issued, revoked>>
  BY DEF Restart
<1>2. TypeOK'
  BY <1>0, <1>1, EmptyTable DEF IInv, TypeOK, IsTable
<1>3. OneWriter' /\ LocalsGone' /\ Known'
  BY <1>0, <1>1, EmptyTable DEF IInv, OneWriter, LocalsGone, Known
<1>4. RemovedGone' /\ RevokedGone'
  BY <1>0, <1>1, EmptyTable DEF IInv, RemovedGone, RevokedGone, RevokedIsFinal
<1>5. InFlight'
  BY <1>0, <1>1 DEF InFlight, Covers, LiveKeys, Expired
<1>6. ViewsAreOlder'
  BY <1>0, <1>1, EmptyTable DEF IInv, TypeOK, IsTable, Session, ViewsAreOlder, Older
<1> QED
  BY <1>2, <1>3, <1>4, <1>5, <1>6 DEF IInv

\* The passage of time preserves the invariant: what expired stays expired.
LEMMA TickStep ==
  ASSUME IInv, Tick
  PROVE  IInv'
<1>1. /\ clock' = clock + 1 /\ clock \in Nat
      /\ UNCHANGED <<sessions, file, pc, snap, removing, issued, revoked, stale>>
  BY DEF IInv, TypeOK, Tick
<1>2. TypeOK'
  BY <1>1 DEF IInv, TypeOK, IsTable
<1>3. OneWriter' /\ LocalsGone' /\ Known' /\ RemovedGone' /\ RevokedGone'
  BY <1>1 DEF IInv, OneWriter, LocalsGone, Known, RemovedGone, RevokedGone, RevokedIsFinal
<1>4. \A s \in Session : Expired(s) => clock' > s.ends \/ clock' - s.seen > Idle
  BY <1>1, SessionAssumption DEF Session, Expired
<1>5. InFlight'
  <2>1. Covers(file) => Covers(file)'
    BY <1>1, <1>4 DEF IInv, TypeOK, IsTable, Covers, Expired
  <2>2. ASSUME NEW p \in Proc, Covers(snap[p]) PROVE Covers(snap[p])'
    BY <1>1, <1>4, <2>2 DEF IInv, TypeOK, IsTable, Covers, Expired
  <2> QED
    BY <1>1, <2>1, <2>2 DEF IInv, InFlight
<1>6. ViewsAreOlder'
  BY <1>1 DEF IInv, TypeOK, IsTable, Session, ViewsAreOlder, Older
<1> QED
  BY <1>2, <1>3, <1>5, <1>6 DEF IInv

\* Every step, and every stuttering step, preserves the invariant.
LEMMA NextInv == IInv /\ [Next]_vars => IInv'
<1> SUFFICES ASSUME IInv, [Next]_vars PROVE IInv'
  OBVIOUS
<1>1. ASSUME NEW p \in Proc, NEW k \in Key, NEW u \in User, Create(p, k, u)
      PROVE  IInv'
  BY <1>1, CreateStep
<1>2. ASSUME NEW k \in Key, Touch(k) PROVE IInv'
  BY <1>2, TouchStep
<1>3. ASSUME NEW p \in Proc, NEW k \in Key, GetExpired(p, k) \/ Delete(p, k)
      PROVE  IInv'
  <2>1. {k} \in SUBSET issued /\ Remove(p, {k})
    BY <1>3 DEF GetExpired, Delete, IInv, Known
  <2> QED
    BY <2>1, RemoveStep
<1>4. ASSUME NEW p \in Proc, NEW u \in User, DeleteUserSessions(p, u) PROVE IInv'
  <2> DEFINE K == {k \in DOMAIN sessions : sessions[k].user = u}
  <2>1. K \in SUBSET issued /\ Remove(p, K)
    BY <1>4 DEF DeleteUserSessions, IInv, Known
  <2> QED
    BY <2>1, RemoveStep
<1>5. ASSUME NEW p \in Proc, DeleteAll(p) \/ Reap(p) \/ Stop(p) PROVE IInv'
  <2> DEFINE K == {k \in DOMAIN sessions : Expired(sessions[k])}
  <2>1. {DOMAIN sessions, K, {}} \subseteq SUBSET issued
    BY DEF IInv, Known
  <2>2. \E L \in {DOMAIN sessions, K, {}} : Remove(p, L)
    BY <1>5 DEF DeleteAll, Reap, Stop
  <2> QED
    BY <2>1, <2>2, RemoveStep
<1>6. ASSUME NEW p \in Proc, Save(p) PROVE IInv'
  BY <1>6, BeginWriteStep, EndWriteStep, FailWriteStep DEF Save
<1>7. CASE Restart
  BY <1>7, RestartStep
<1>8. CASE Tick
  BY <1>8, TickStep
<1>9. CASE UNCHANGED vars
  BY <1>9 DEF vars, IInv, TypeOK, IsTable, OneWriter, LocalsGone, Known, RemovedGone,
              RevokedGone, RevokedIsFinal, InFlight, Covers, Expired, ViewsAreOlder, Older
<1> QED
  BY <1>1, <1>2, <1>3, <1>4, <1>5, <1>6, <1>7, <1>8, <1>9 DEF Next

\* Every reachable state satisfies the inductive invariant.
THEOREM Invariance == Spec => []IInv
<1> QED
  BY InitInv, NextInv, PTL DEF Spec

\* The variables keep their types.
THEOREM TypeCorrect == Spec => []TypeOK
<1>1. IInv => TypeOK
  BY DEF IInv
<1> QED
  BY <1>1, Invariance, PTL

\* A removal that was saved is final, across concurrent saves and restarts
\* (session.go:61-67 and the logout path).
THEOREM RevocationIsFinal == Spec => []RevokedIsFinal
<1>1. IInv => RevokedIsFinal
  BY DEF IInv, RevokedGone
<1> QED
  BY <1>1, Invariance, PTL

\* Once every save has returned and the last write worked, the file is the
\* live table: saveMu prevents the lost update it was added against.
THEOREM NoLostUpdate == Spec => []FileIsCurrent
<1>1. IInv => FileIsCurrent
  BY DEF IInv, InFlight, FileIsCurrent, Quiet, Covers
<1> QED
  BY <1>1, Invariance, PTL

\* A restart never gives an expired session more time.
THEOREM NoExtension == Spec => []RestartNeverExtends
<1>1. IInv => RestartNeverExtends
  BY SessionAssumption DEF IInv, TypeOK, IsTable, Session, ViewsAreOlder, Older, RestartNeverExtends, Expired
<1> QED
  BY <1>1, Invariance, PTL

-----------------------------------------------------------------------------
\* The cap.  load() does not enforce it: the file must never exceed it either.
Small(S) == IsFiniteSet(S) /\ Cardinality(S) <= MaxSessions

CapInv ==
  /\ Small(DOMAIN sessions) /\ Small(DOMAIN file)
  /\ \A p \in Proc : Small(DOMAIN snap[p])

\* Taking keys out keeps a table small.
LEMMA SmallSubset ==
  ASSUME NEW S, Small(S), NEW T \in SUBSET S
  PROVE  Small(T)
BY FS_Subset, FS_CardinalityType, SessionAssumption DEF Small

\* The empty table is small.
LEMMA SmallEmpty == Small(DOMAIN Empty)
BY EmptyTable, FS_EmptySet, SessionAssumption DEF Small

\* Making room before adding keeps the table small.
LEMMA CreateKeepsCap ==
  ASSUME IInv, CapInv, NEW p \in Proc, NEW k \in Key, NEW u \in User, Create(p, k, u)
  PROVE  Small(DOMAIN sessions')
<1> DEFINE D == DOMAIN sessions
<1>1. IsFiniteSet(D) /\ Cardinality(D) \in Nat /\ Cardinality(D) <= MaxSessions
  BY FS_CardinalityType DEF CapInv, Small
<1>2. k \notin D
  BY DEF Create, IInv, Known
<1>3. CASE Cardinality(D) >= MaxSessions
  <2>1. PICK v \in D : DOMAIN sessions' = (D \ {v}) \cup {k}
    BY <1>3 DEF Create, Mutated, Full, Victims, Oldest, GuestKeys
  <2>2. IsFiniteSet(D \ {v}) /\ Cardinality(D \ {v}) = Cardinality(D) - 1
    BY <1>1, FS_RemoveElement
  <2>3. /\ IsFiniteSet((D \ {v}) \cup {k})
        /\ Cardinality((D \ {v}) \cup {k}) = Cardinality(D \ {v}) + 1
    BY <1>2, <2>2, FS_AddElement
  <2> QED
    BY <1>1, <2>1, <2>2, <2>3, SessionAssumption DEF Small
<1>4. CASE ~(Cardinality(D) >= MaxSessions)
  <2>1. DOMAIN sessions' = D \cup {k}
    BY <1>4 DEF Create, Full, Mutated
  <2>2. IsFiniteSet(D \cup {k}) /\ Cardinality(D \cup {k}) = Cardinality(D) + 1
    BY <1>1, <1>2, FS_AddElement
  <2> QED
    BY <1>1, <1>4, <2>1, <2>2, SessionAssumption DEF Small
<1> QED
  BY <1>3, <1>4

\* Every step keeps the table, the file and every snapshot small.
LEMMA NextCap == IInv /\ CapInv /\ [Next]_vars => CapInv'
<1> SUFFICES ASSUME IInv, CapInv, [Next]_vars PROVE CapInv'
  OBVIOUS
<1>1. ASSUME NEW p \in Proc, NEW k \in Key, NEW u \in User, Create(p, k, u)
      PROVE  CapInv'
  <2>1. UNCHANGED <<file, snap>>
    BY <1>1 DEF Create, Mutated
  <2> QED
    BY <1>1, <2>1, CreateKeepsCap DEF CapInv
<1>2. ASSUME NEW p \in Proc, NEW K, Remove(p, K) PROVE CapInv'
  <2>1. DOMAIN sessions' \in SUBSET DOMAIN sessions /\ UNCHANGED <<file, snap>>
    BY <1>2 DEF Remove, Mutated, Without, Restrict
  <2> QED
    BY <2>1, SmallSubset DEF CapInv
<1>3. ASSUME NEW p \in Proc, Save(p) PROVE CapInv'
  BY <1>3, SmallEmpty DEF CapInv, IInv, TypeOK, Save, BeginWrite, Records, EndWrite,
                               FailWrite, Done
<1>4. CASE Restart
  <2>1. DOMAIN sessions' \in SUBSET DOMAIN file /\ file' = file
    BY <1>4 DEF Restart, Restrict, LiveKeys
  <2> QED
    BY <1>4, <2>1, SmallSubset, SmallEmpty DEF CapInv, Restart
<1>5. ASSUME NEW k \in Key, Touch(k) PROVE CapInv'
  BY <1>5 DEF CapInv, Touch
<1>6. CASE Tick \/ UNCHANGED vars
  BY <1>6 DEF CapInv, Tick, vars
<1> QED
  BY <1>1, <1>2, <1>3, <1>4, <1>5, <1>6
     DEF Next, GetExpired, Delete, DeleteUserSessions, DeleteAll, Reap, Stop

\* The table never exceeds its cap (session.go:17-20), and neither does the
\* file a restart loads.
THEOREM TableIsCapped == Spec => []Capped
<1>1. Init => CapInv
  BY SmallEmpty DEF Init, CapInv
<1>2. CapInv => Capped
  BY DEF CapInv, Small, Capped
<1> QED
  BY <1>1, <1>2, NextCap, Invariance, PTL DEF Spec
=============================================================================
