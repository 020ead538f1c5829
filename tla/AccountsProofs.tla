------------------------ MODULE AccountsProofs ----------------------------
(***************************************************************************)
(* Proofs about AccountSessions, for any number of accounts, sessions and  *)
(* requests in flight.  The invariant says what ties the store's three     *)
(* views together (memory, disk, the mark of a damaged file) and that an   *)
(* installation without accounts has nothing but a setup going on.         *)
(***************************************************************************)
EXTENDS Accounts, Integers, FiniteSetTheorems, TLAPS

\* A store in memory agrees with its file unless that was damaged; one that
\* found a damaged file is empty, and no other reason makes it lie.
DiskAgrees ==
  /\ disk # Damaged => disk = users /\ ~corrupt
  /\ corrupt => disk = Damaged /\ users = NoUsers
  /\ disk = Damaged /\ users = NoUsers => corrupt

\* Where there are accounts, one of them is an admin's.
HasAdmin == users # NoUsers => Admins # {}

\* Without accounts nobody is logged in and only setup can be under way.
FreshIsQuiet ==
  users = NoUsers /\ ~corrupt =>
    /\ \A s \in Sid : sessions[s] = None /\ saved[s] = None
    /\ \A r \in Req : req[r] = None \/ Does(r, "setup")

\* What a request found when it began: setupMu admits one setup, which makes
\* an admin, and the store stays empty for it; a login carries the role of an
\* account.
RequestsHold ==
  /\ \A r, q \in Req : Does(r, "setup") /\ Does(q, "setup") => r = q
  /\ \A r \in Req : Does(r, "setup") => users = NoUsers /\ ~corrupt /\ req[r].role = "admin"
  /\ \A r \in Req : Does(r, "login") => req[r].role \in Role

Inv == TypeOK /\ DiskAgrees /\ HasAdmin /\ FreshIsQuiet /\ RequestsHold /\ StaleIsExplained

-----------------------------------------------------------------------------
\* A fresh installation satisfies the invariant.
LEMMA InitInv == Init => Inv
<1> SUFFICES ASSUME Init PROVE Inv
  OBVIOUS
<1>1. TypeOK
  BY DEF Init, TypeOK, NoUsers
<1>2. NoUsers # Damaged
  BY AccountAssumption DEF NoUsers
<1>3. DiskAgrees /\ HasAdmin
  BY <1>2 DEF Init, DiskAgrees, HasAdmin
<1>4. FreshIsQuiet /\ RequestsHold /\ StaleIsExplained
  BY DEF Init, FreshIsQuiet, RequestsHold, StaleIsExplained, Does
<1> QED
  BY <1>1, <1>3, <1>4 DEF Inv

\* Somebody else is an admin, unless u is the last one.
LEMMA OtherAdmin ==
  ASSUME HasAdmin, NEW u \in User, users[u] # None, ~LastAdmin(u)
  PROVE  \E a \in Admins : a # u
<1>1. users # NoUsers
  BY DEF NoUsers
<1>2. CASE u \notin Admins
  BY <1>1, <1>2 DEF HasAdmin
<1>3. CASE u \in Admins
  <2> SUFFICES ASSUME Admins = {u} PROVE FALSE
    BY <1>3
  <2>1. Cardinality(Admins) = 1
    BY FS_Singleton
  <2> QED
    BY <1>3, <2>1 DEF LastAdmin
<1> QED
  BY <1>2, <1>3

\* A mutation that leaves an admin keeps memory and disk in agreement, saved
\* or rolled back.
LEMMA StoreStep ==
  ASSUME Inv, ~corrupt, UNCHANGED corrupt,
         NEW new \in [User -> Account \cup {None}], Store(new),
         NEW a \in User, new[a] # None, new[a].role = "admin"
  PROVE  /\ users' \in [User -> Account \cup {None}] /\ corrupt' \in BOOLEAN
         /\ disk' = Damaged \/ disk' \in [User -> Account \cup {None}]
         /\ DiskAgrees' /\ HasAdmin'
<1>1. new # NoUsers /\ new # Damaged
  BY AccountAssumption DEF NoUsers
<1>2. CASE users' = new /\ disk' = new
  <2>1. a \in Admins'
    BY <1>2 DEF Admins
  <2> QED
    BY <1>1, <1>2, <2>1 DEF DiskAgrees, HasAdmin, Inv, TypeOK
<1>3. CASE users' = users /\ disk' = disk
  BY <1>3 DEF DiskAgrees, HasAdmin, Admins, Inv, TypeOK
<1> QED
  BY <1>2, <1>3 DEF Store

\* A request that begins leaves store and table alone.
LEMMA BeginStep ==
  ASSUME Inv, NEW r \in Req, req[r] = None, UNCHANGED <<store, table>>,
         NEW new \in Request, req' = [req EXCEPT ![r] = new],
         new.op = "setup" => SetupMuFree /\ NeedsSetup /\ new.role = "admin",
         new.op # "setup" => corrupt \/ users # NoUsers,
         new.op = "login" => new.role \in Role
  PROVE  Inv'
<1>1. TypeOK'
  BY DEF Inv, TypeOK, store, table
<1>2. DiskAgrees' /\ HasAdmin'
  BY DEF Inv, DiskAgrees, HasAdmin, Admins, store
<1>3. /\ req'[r] = new /\ new # None
      /\ \A q \in Req \ {r} : req'[q] = req[q]
  BY AccountAssumption DEF Inv, TypeOK
<1>4. FreshIsQuiet'
  BY <1>3 DEF Inv, FreshIsQuiet, Does, store, table
<1>5. RequestsHold'
  BY <1>3 DEF Inv, RequestsHold, Does, SetupMuFree, NeedsSetup, store
<1>6. StaleIsExplained'
  BY <1>3 DEF Inv, StaleIsExplained, Current, Does, store, table
<1> QED
  BY <1>1, <1>2, <1>4, <1>5, <1>6 DEF Inv
\* A request that goes on to its revocation, or is answered, leaves a fresh
\* installation quiet and the setup alone.
LEMMA DoneStep ==
  ASSUME Inv, NEW r \in Req, req[r] # None, UNCHANGED corrupt,
         users' = users \/ users' # NoUsers,
         Does(r, "setup") => UNCHANGED table,
         NEW x \in Request \cup {None}, req' = [req EXCEPT ![r] = x],
         x # None => x.op = "revoke" /\ ~Does(r, "setup")
  PROVE  req' \in [Req -> Request \cup {None}] /\ FreshIsQuiet' /\ RequestsHold'
<1>1. /\ req' \in [Req -> Request \cup {None}] /\ req'[r] = x
      /\ \A q \in Req \ {r} : req'[q] = req[q]
  BY DEF Inv, TypeOK
<1>2. ASSUME users = NoUsers, ~corrupt
      PROVE  Does(r, "setup") /\ x = None /\ \A q \in Req \ {r} : req[q] = None
  BY <1>2 DEF Inv, FreshIsQuiet, RequestsHold
<1>3. FreshIsQuiet'
  BY <1>1, <1>2 DEF Inv, FreshIsQuiet, Does, table
<1>4. RequestsHold'
  <2>3. \A q \in Req : Does(q, "login")' => req'[q].role \in Role
    BY <1>1 DEF Inv, RequestsHold, Does
  <2> SUFFICES ASSUME NEW q \in Req, Does(q, "setup")' PROVE FALSE
    BY <2>3 DEF RequestsHold
  <2>1. q # r /\ Does(q, "setup")
    BY <1>1 DEF Does
  <2>2. users = NoUsers /\ ~corrupt
    BY <2>1 DEF Inv, RequestsHold
  <2> QED
    BY <1>2, <2>1, <2>2 DEF Does
<1> QED
  BY <1>1, <1>3, <1>4

\* Creating an account, the first or any other, preserves the invariant.
LEMMA CreateStep ==
  ASSUME Inv, NEW r \in Req, Create(r)
  PROVE  Inv'
<1> DEFINE u == req[r].user
           account == [role |-> DefaultRole(req[r].role), pw |-> 0]
           new == [users EXCEPT ![u] = account]
<1>1. /\ req[r] \in Request /\ req[r] # None /\ u \in User
      /\ account \in Account /\ account # None
      /\ new \in [User -> Account \cup {None}]
  <2>1. req[r] \in Request /\ req[r] # None
    BY DEF Inv, TypeOK, Create, Does
  <2>2. u \in User /\ DefaultRole(req[r].role) \in Role
    BY <2>1 DEF Request, DefaultRole, Asked, Role
  <2>3. account \in Account
    BY <2>2 DEF Account
  <2>4. account # None
    BY <2>3, AccountAssumption
  <2> QED
    BY <2>1, <2>2, <2>3, <2>4 DEF Inv, TypeOK
<1>2. UNCHANGED <<corrupt, table>> /\ req' = [req EXCEPT ![r] = None]
  BY DEF Create, Respond, store
<1>3. CASE UNCHANGED store
  <2>1. TypeOK' /\ DiskAgrees' /\ HasAdmin'
    BY <1>1, <1>2, <1>3, DoneStep DEF Inv, TypeOK, DiskAgrees, HasAdmin, Admins, store, table
  <2>2. FreshIsQuiet' /\ RequestsHold'
    BY <1>1, <1>2, <1>3, DoneStep DEF store
  <2>3. StaleIsExplained'
    BY <1>1, <1>2, <1>3 DEF Inv, TypeOK, StaleIsExplained, Current, Does, Create, store, table
  <2> QED
    BY <2>1, <2>2, <2>3 DEF Inv
<1>4. CASE ~corrupt /\ users[u] = None /\ Store(new)
  <2>1. PICK a \in User : new[a] # None /\ new[a].role = "admin"
    <3>1. CASE users = NoUsers
      <4>1. Does(r, "setup")
        BY <1>1, <1>4, <3>1 DEF Inv, FreshIsQuiet
      <4>2. new[u].role = "admin"
        BY <1>1, <4>1 DEF Inv, TypeOK, RequestsHold, DefaultRole
      <4> QED
        BY <1>1, <4>2 DEF Inv, TypeOK
    <3>2. CASE users # NoUsers
      BY <1>1, <1>4, <3>2 DEF Inv, TypeOK, HasAdmin, Admins
    <3> QED
      BY <3>1, <3>2
  <2>2. /\ users' \in [User -> Account \cup {None}] /\ corrupt' \in BOOLEAN
        /\ disk' = Damaged \/ disk' \in [User -> Account \cup {None}]
        /\ DiskAgrees' /\ HasAdmin'
    BY <1>1, <1>2, <1>4, <2>1, StoreStep
  <2>3. users' = users \/ users' # NoUsers
    BY <1>4, <2>1 DEF Store, NoUsers
  <2>4. /\ req' \in [Req -> Request \cup {None}] /\ FreshIsQuiet' /\ RequestsHold'
    BY <1>1, <1>2, <2>3, DoneStep
  <2>5. TypeOK'
    BY <1>2, <2>2, <2>4 DEF Inv, TypeOK, table
  <2>6. StaleIsExplained'
    <3> SUFFICES ASSUME NEW s \in Sid, sessions[s] # None, sessions[s].origin = "fresh",
                        ~Current(sessions[s])'
                 PROVE  \E q \in Req : Does(q, "revoke") /\ req[q].user = sessions[s].user /\ q # r
      BY <1>2 DEF Inv, TypeOK, StaleIsExplained, Does, table
    <3>1. ~Current(sessions[s])
      BY <1>1, <1>2, <1>4 DEF Inv, TypeOK, Current, Store, Session, table
    <3> QED
      BY <1>4, <3>1 DEF Inv, StaleIsExplained, Does, Create
  <2> QED
    BY <2>2, <2>4, <2>5, <2>6 DEF Inv
<1> QED
  BY <1>3, <1>4 DEF Create
\* Changing or deleting an account, when somebody stays an admin, preserves
\* the invariant; saved or not.
LEMMA ChangeStep ==
  ASSUME Inv, NEW r \in Req,
         Does(r, "delete") \/ Does(r, "role") \/ Does(r, "password"),
         users[req[r].user] # None,
         NEW new \in [User -> Account \cup {None}],
         \A v \in User \ {req[r].user} : new[v] = users[v],
         NEW a \in User, new[a] # None, new[a].role = "admin",
         Change(r, new)
  PROVE  Inv'
<1> DEFINE u == req[r].user
           revoke == [req[r] EXCEPT !.op = "revoke"]
<1>1. /\ req[r] \in Request /\ req[r] # None /\ u \in User
      /\ revoke \in Request /\ revoke.op = "revoke" /\ revoke.user = u
      /\ ~Does(r, "setup") /\ ~Does(r, "revoke")
  BY DEF Inv, TypeOK, Does, Request, Op
<1>2. revoke # None
  BY <1>1, AccountAssumption
<1>3. ~corrupt
  BY <1>1 DEF Inv, DiskAgrees, NoUsers
<1>4. PICK x \in {None, revoke} :
        /\ req' = [req EXCEPT ![r] = x]
        /\ x = None => users' = users
  <2>1. CASE GoesOn(r)
    BY <1>2, <2>1 DEF GoesOn
  <2>2. CASE Respond(r) /\ users' = users
    BY <2>2 DEF Respond
  <2> QED
    BY <2>1, <2>2 DEF Change, Store
<1>5. /\ users' \in [User -> Account \cup {None}] /\ corrupt' \in BOOLEAN
      /\ disk' = Damaged \/ disk' \in [User -> Account \cup {None}]
      /\ DiskAgrees' /\ HasAdmin'
  BY <1>3, StoreStep DEF Change
<1>6. users' = users \/ users' # NoUsers
  BY DEF Change, Store, NoUsers
<1>7. req' \in [Req -> Request \cup {None}] /\ FreshIsQuiet' /\ RequestsHold'
  BY <1>1, <1>4, <1>6, DoneStep DEF Change
<1>8. TypeOK'
  BY <1>5, <1>7 DEF Inv, TypeOK, Change, table
<1>9. StaleIsExplained'
  <2>1. /\ req'[r] = x /\ \A q \in Req \ {r} : req'[q] = req[q]
    BY <1>4 DEF Inv, TypeOK
  <2> SUFFICES ASSUME NEW s \in Sid, sessions[s] # None, sessions[s].origin = "fresh",
                      ~Current(sessions[s])'
               PROVE  \E q \in Req : Does(q, "revoke")' /\ req'[q].user = sessions[s].user
    BY DEF StaleIsExplained, Change, table
  <2>2. CASE sessions[s].user = u /\ x = revoke
    <3>1. req'[r] = revoke
      BY <2>1, <2>2
    <3>2. Does(r, "revoke")' /\ req'[r].user = u
      BY <1>1, <1>2, <3>1 DEF Does
    <3> QED
      BY <2>2, <3>2
  <2>3. CASE sessions[s].user # u \/ x = None
    <3>1. sessions[s].user \in User
      BY DEF Inv, TypeOK, Session
    <3>2. users'[sessions[s].user] = users[sessions[s].user]
      BY <1>4, <2>3, <3>1 DEF Change, Store
    <3>3. ~Current(sessions[s])
      BY <3>2 DEF Current, Change, table
    <3>4. PICK q \in Req : Does(q, "revoke") /\ req[q].user = sessions[s].user
      BY <1>3, <3>3 DEF Inv, StaleIsExplained
    <3> QED
      BY <1>1, <2>1, <3>4 DEF Does
  <2> QED
    BY <2>2, <2>3
<1> QED
  BY <1>5, <1>7, <1>8, <1>9 DEF Inv

\* A request that is refused changes nothing else.
LEMMA RefuseStep ==
  ASSUME Inv, NEW r \in Req, req[r] # None, ~Does(r, "revoke"), Refuse(r)
  PROVE  Inv'
<1>1. /\ req' \in [Req -> Request \cup {None}] /\ FreshIsQuiet' /\ RequestsHold'
  BY DoneStep DEF Refuse, Respond, store
<1>2. TypeOK' /\ DiskAgrees' /\ HasAdmin'
  BY <1>1 DEF Inv, TypeOK, DiskAgrees, HasAdmin, Admins, Refuse, store, table
<1>3. StaleIsExplained'
  BY DEF Inv, TypeOK, StaleIsExplained, Current, Does, Refuse, Respond, store, table
<1> QED
  BY <1>1, <1>2, <1>3 DEF Inv

\* Delete spares the last admin.
LEMMA DeleteStep ==
  ASSUME Inv, NEW r \in Req, Delete(r)
  PROVE  Inv'
<1> DEFINE u == req[r].user
           new == [users EXCEPT ![u] = None]
<1>1. req[r] # None /\ ~Does(r, "revoke") /\ u \in User /\ Does(r, "delete")
  BY DEF Inv, TypeOK, Delete, Does, Request
<1>2. CASE Refuse(r)
  BY <1>1, <1>2, RefuseStep
<1>3. CASE users[u] # None /\ ~LastAdmin(u) /\ Change(r, new)
  <2>1. PICK a \in Admins : a # u
    BY <1>1, <1>3, OtherAdmin DEF Inv
  <2>2. a \in User /\ new[a] # None /\ new[a].role = "admin"
    BY <2>1 DEF Inv, TypeOK, Admins
  <2>3. new \in [User -> Account \cup {None}] /\ \A v \in User \ {u} : new[v] = users[v]
    BY DEF Inv, TypeOK
  <2> QED
    BY <1>1, <1>3, <2>2, <2>3, ChangeStep
<1> QED
  BY <1>2, <1>3 DEF Delete

\* ChangeRole does not demote the last admin.
LEMMA ChangeRoleStep ==
  ASSUME Inv, NEW r \in Req, ChangeRole(r)
  PROVE  Inv'
<1> DEFINE u == req[r].user
           new == [users EXCEPT ![u].role = req[r].role]
<1>1. req[r] # None /\ ~Does(r, "revoke") /\ u \in User /\ Does(r, "role")
  BY DEF Inv, TypeOK, ChangeRole, Does, Request
<1>2. CASE Refuse(r)
  BY <1>1, <1>2, RefuseStep
<1>3. CASE /\ req[r].role \in Role /\ users[u] # None
           /\ LastAdmin(u) => req[r].role = "admin"
           /\ Change(r, new)
  <2>1. users[u] \in Account
    BY <1>1, <1>3 DEF Inv, TypeOK
  <2>2. [users[u] EXCEPT !.role = req[r].role] \in Account
    BY <1>3, <2>1 DEF Account
  <2>3. /\ new \in [User -> Account \cup {None}]
        /\ new[u] # None /\ new[u].role = req[r].role
        /\ \A v \in User \ {u} : new[v] = users[v]
    BY <1>1, <2>1, <2>2, AccountAssumption DEF Inv, TypeOK, Account
  <2>4. PICK a \in User : new[a] # None /\ new[a].role = "admin"
    <3>1. CASE req[r].role = "admin"
      BY <1>1, <2>3, <3>1
    <3>2. CASE ~LastAdmin(u)
      <4>1. PICK a \in Admins : a # u
        BY <1>1, <1>3, <3>2, OtherAdmin DEF Inv
      <4> QED
        BY <2>3, <4>1 DEF Admins
    <3> QED
      BY <1>3, <3>1, <3>2
  <2> QED
    BY <1>1, <1>3, <2>3, <2>4, ChangeStep
<1> QED
  BY <1>2, <1>3 DEF ChangeRole
\* A new password takes nobody's role away.
LEMMA ChangePasswordStep ==
  ASSUME Inv, NEW r \in Req, ChangePassword(r)
  PROVE  Inv'
<1> DEFINE u == req[r].user
           new == [users EXCEPT ![u].pw = 1 - @]
<1>1. req[r] # None /\ ~Does(r, "revoke") /\ u \in User /\ Does(r, "password")
  BY DEF Inv, TypeOK, ChangePassword, Does, Request
<1>2. CASE Refuse(r)
  BY <1>1, <1>2, RefuseStep
<1>3. CASE users[u] # None /\ Change(r, new)
  <2>1. users[u] \in Account
    BY <1>1, <1>3 DEF Inv, TypeOK
  <2>2. [users[u] EXCEPT !.pw = 1 - @] \in Account
    BY <2>1 DEF Account
  <2>3. /\ new \in [User -> Account \cup {None}]
        /\ new[u] # None /\ new[u].role = users[u].role
        /\ \A v \in User \ {u} : new[v] = users[v]
    BY <1>1, <2>1, <2>2, AccountAssumption DEF Inv, TypeOK, Account
  <2>4. PICK a \in Admins : TRUE
    BY <1>1, <1>3 DEF Inv, HasAdmin, NoUsers
  <2>5. a \in User /\ new[a] # None /\ new[a].role = "admin"
    BY <2>3, <2>4 DEF Admins
  <2> QED
    BY <1>1, <1>3, <2>3, <2>5, ChangeStep
<1> QED
  BY <1>2, <1>3 DEF ChangePassword

\* A change of the session table that is saved or not keeps the types.
LEMMA UpdateType ==
  ASSUME Inv, NEW new \in [Sid -> Session \cup {None}], Update(new)
  PROVE  sessions' \in [Sid -> Session \cup {None}] /\ saved' \in [Sid -> Session \cup {None}]
BY DEF Inv, TypeOK, Update

\* The end of a login: a session that is fresh is that of the account as it is.
LEMMA LoginStep ==
  ASSUME Inv, NEW r \in Req, NEW s \in Sid, CreateSession(r, s)
  PROVE  Inv'
<1> DEFINE opened == Opened(req[r].user, req[r].role, req[r].pw)
           new == [sessions EXCEPT ![s] = opened]
<1>1. req[r] \in Request /\ req[r] # None /\ Does(r, "login")
  BY DEF Inv, TypeOK, CreateSession, Does
<1>2. opened \in Session /\ opened # None
  <2>1. req[r].role \in Role /\ req[r].user \in User /\ req[r].pw \in 0 .. 1
    BY <1>1 DEF Inv, RequestsHold, Request
  <2>2. opened \in Session
    BY <2>1 DEF Opened, Session
  <2> QED
    BY <2>2, AccountAssumption
<1>3. opened.origin = "fresh" => Current(opened)
  BY DEF Opened, Current
<1>4. /\ UNCHANGED store /\ req' = [req EXCEPT ![r] = None]
      /\ sessions' = new /\ Update(new)
  BY DEF CreateSession, Respond, Update
<1>5. new \in [Sid -> Session \cup {None}]
  BY <1>2 DEF Inv, TypeOK
<1>6. req' \in [Req -> Request \cup {None}] /\ FreshIsQuiet' /\ RequestsHold'
  BY <1>1, <1>4, DoneStep DEF store, Does
<1>7. TypeOK' /\ DiskAgrees' /\ HasAdmin'
  BY <1>4, <1>5, <1>6, UpdateType DEF Inv, TypeOK, DiskAgrees, HasAdmin, Admins, store
<1>8. StaleIsExplained'
  <2> SUFFICES ASSUME NEW t \in Sid, sessions'[t] # None, sessions'[t].origin = "fresh",
                      ~Current(sessions[t])', ~corrupt'
               PROVE  \E q \in Req : Does(q, "revoke")' /\ req'[q].user = sessions'[t].user
    BY DEF StaleIsExplained
  <2>1. users' = users /\ corrupt' = corrupt
    BY <1>4 DEF store
  <2>2. ~Current(sessions'[t])
    BY <2>1 DEF Current
  <2>3. t # s /\ sessions'[t] = sessions[t]
    BY <1>3, <1>4, <2>2 DEF Inv, TypeOK
  <2>4. PICK q \in Req : Does(q, "revoke") /\ req[q].user = sessions[t].user
    BY <2>1, <2>2, <2>3 DEF Inv, StaleIsExplained
  <2> QED
    BY <1>1, <1>4, <2>3, <2>4 DEF Inv, TypeOK, Does
<1> QED
  BY <1>6, <1>7, <1>8 DEF Inv

\* The revocation takes every session of the account it changed.
LEMMA RevokeStep ==
  ASSUME Inv, NEW r \in Req, Revoke(r)
  PROVE  Inv'
<1> DEFINE u == req[r].user
           new == WithoutUser(u)
<1>1. req[r] # None /\ Does(r, "revoke")
  BY DEF Revoke, Does
<1>2. /\ UNCHANGED store /\ req' = [req EXCEPT ![r] = None]
      /\ sessions' = new /\ Update(new)
  BY DEF Revoke, Respond, Update
<1>3. new \in [Sid -> Session \cup {None}]
  BY DEF Inv, TypeOK, WithoutUser
<1>4. req' \in [Req -> Request \cup {None}] /\ FreshIsQuiet' /\ RequestsHold'
  BY <1>1, <1>2, DoneStep DEF store, Does
<1>5. TypeOK' /\ DiskAgrees' /\ HasAdmin'
  BY <1>2, <1>3, <1>4, UpdateType DEF Inv, TypeOK, DiskAgrees, HasAdmin, Admins, store
<1>6. StaleIsExplained'
  <2> SUFFICES ASSUME NEW t \in Sid, sessions'[t] # None, sessions'[t].origin = "fresh",
                      ~Current(sessions[t])', ~corrupt'
               PROVE  \E q \in Req : Does(q, "revoke")' /\ req'[q].user = sessions'[t].user
    BY DEF StaleIsExplained
  <2>1. users' = users /\ corrupt' = corrupt
    BY <1>2 DEF store
  <2>2. sessions'[t] = sessions[t] /\ sessions[t].user # u
    BY <1>2 DEF WithoutUser
  <2>3. ~Current(sessions[t])
    BY <2>1, <2>2 DEF Current
  <2>4. PICK q \in Req : Does(q, "revoke") /\ req[q].user = sessions[t].user
    BY <2>1, <2>2, <2>3 DEF Inv, StaleIsExplained
  <2> QED
    BY <1>2, <2>2, <2>4 DEF Inv, TypeOK, Does
<1> QED
  BY <1>4, <1>5, <1>6 DEF Inv
\* A logout takes one session away.
LEMMA LogoutStep ==
  ASSUME Inv, NEW s \in Sid, Logout(s)
  PROVE  Inv'
<1> DEFINE new == [sessions EXCEPT ![s] = None]
<1>1. UNCHANGED <<store, req>> /\ sessions' = new /\ Update(new) /\ sessions[s] # None
  BY DEF Logout, Update
<1>2. new \in [Sid -> Session \cup {None}]
  BY DEF Inv, TypeOK
<1>3. TypeOK' /\ DiskAgrees' /\ HasAdmin'
  BY <1>1, <1>2, UpdateType DEF Inv, TypeOK, DiskAgrees, HasAdmin, Admins, store
<1>4. FreshIsQuiet' /\ RequestsHold'
  BY <1>1 DEF Inv, FreshIsQuiet, RequestsHold, Does, store
<1>5. StaleIsExplained'
  BY <1>1 DEF Inv, TypeOK, StaleIsExplained, Current, Does, store
<1> QED
  BY <1>3, <1>4, <1>5 DEF Inv

\* After a restart the store is what its file says, or is marked as damaged.
LEMMA RestartStep ==
  ASSUME Inv, Restart
  PROVE  Inv'
<1>1. sessions' \in [Sid -> Session \cup {None}]
  BY DEF Inv, TypeOK, Restart, Restored, Session
<1>2. TypeOK'
  BY <1>1 DEF Inv, TypeOK, Restart, IsDamaged, NoUsers
<1>3. DiskAgrees' /\ HasAdmin'
  BY DEF Inv, DiskAgrees, HasAdmin, Admins, Restart, IsDamaged
<1>4. \A r \in Req : req'[r] = None
  BY DEF Restart
<1>5. FreshIsQuiet'
  BY <1>4 DEF Inv, DiskAgrees, FreshIsQuiet, Restart, Restored, IsDamaged
<1>6. RequestsHold'
  BY <1>4 DEF RequestsHold, Does
<1>7. StaleIsExplained'
  BY DEF Inv, TypeOK, Session, StaleIsExplained, Restart, Restored
<1> QED
  BY <1>2, <1>3, <1>5, <1>6, <1>7 DEF Inv

\* Damage from outside touches the file only.
LEMMA DamageStep ==
  ASSUME Inv, Damage
  PROVE  Inv'
<1>1. TypeOK' /\ DiskAgrees' /\ HasAdmin'
  BY DEF Inv, TypeOK, DiskAgrees, HasAdmin, Admins, Damage, table
<1>2. FreshIsQuiet' /\ RequestsHold' /\ StaleIsExplained'
  BY DEF Inv, FreshIsQuiet, RequestsHold, StaleIsExplained, Current, Does, Damage, table
<1> QED
  BY <1>1, <1>2 DEF Inv

\* However a request begins, the invariant is preserved.
LEMMA BeginsStep ==
  ASSUME Inv, NEW r \in Req, Begin(r)
  PROVE  Inv'
<1>1. ASSUME NEW u \in User, BeginSetup(r, u) PROVE Inv'
  <2> DEFINE new == [op |-> "setup", user |-> u, role |-> "admin", pw |-> 0]
  <2>1. new \in Request
    BY DEF Request, Op, Asked, Role
  <2> QED
    BY <1>1, <2>1, BeginStep DEF BeginSetup, Handle
<1>2. ASSUME NEW u \in User, BeginLogin(r, u) PROVE Inv'
  <2> DEFINE new == [op |-> "login", user |-> u, role |-> users[u].role, pw |-> users[u].pw]
  <2>1. users[u] \in Account
    BY <1>2 DEF Inv, TypeOK, BeginLogin
  <2>2. new \in Request /\ new.role \in Role
    BY <2>1 DEF Request, Op, Asked, Account
  <2>3. users # NoUsers
    BY <1>2 DEF BeginLogin, NoUsers
  <2> QED
    BY <1>2, <2>2, <2>3, BeginStep DEF BeginLogin, Handle
<1>3. ASSUME NEW u \in User, NEW op \in {"create", "role", "delete", "password"},
             NEW role \in Asked, BeginAdmin(r, op, u, role)
      PROVE  Inv'
  <2> DEFINE new == [op |-> op, user |-> u, role |-> role, pw |-> 0]
  <2>1. new \in Request
    BY DEF Request, Op
  <2>2. corrupt \/ users # NoUsers
    BY <1>3 DEF Inv, FreshIsQuiet, BeginAdmin
  <2> QED
    BY <1>3, <2>1, <2>2, BeginStep DEF BeginAdmin, Handle
<1>4. ASSUME NEW s \in Sid, BeginOwnPassword(r, s) PROVE Inv'
  <2> DEFINE new == [op |-> "password", user |-> sessions[s].user, role |-> "viewer", pw |-> 0]
  <2>1. sessions[s].user \in User
    BY <1>4 DEF Inv, TypeOK, BeginOwnPassword, Session
  <2>2. new \in Request
    BY <2>1 DEF Request, Op, Asked, Role
  <2>3. corrupt \/ users # NoUsers
    BY <1>4 DEF Inv, FreshIsQuiet, BeginOwnPassword
  <2> QED
    BY <1>4, <2>2, <2>3, BeginStep DEF BeginOwnPassword, Handle
<1>5. "viewer" \in Asked
  BY DEF Asked, Role
<1> QED
  BY <1>1, <1>2, <1>3, <1>4, <1>5 DEF Begin

\* Every step preserves the invariant.
LEMMA NextInv == Inv /\ [Next]_vars => Inv'
<1> SUFFICES ASSUME Inv, [Next]_vars PROVE Inv'
  OBVIOUS
<1>1. ASSUME NEW r \in Req, Finish(r) PROVE Inv'
  BY <1>1, CreateStep, DeleteStep, ChangeRoleStep, ChangePasswordStep, LoginStep, RevokeStep DEF Finish
<1>2. CASE UNCHANGED vars
  <2>1. TypeOK' /\ DiskAgrees' /\ HasAdmin' /\ FreshIsQuiet'
    BY <1>2 DEF Inv, TypeOK, DiskAgrees, HasAdmin, Admins, FreshIsQuiet, Does, vars, store, table
  <2>2. RequestsHold' /\ StaleIsExplained'
    BY <1>2 DEF Inv, RequestsHold, StaleIsExplained, Current, Does, vars, store, table
  <2> QED
    BY <2>1, <2>2 DEF Inv
<1> QED
  BY <1>1, <1>2, BeginsStep, LogoutStep, RestartStep, DamageStep DEF Next

(* The invariant holds throughout. *)
THEOREM Invariance == Spec => []Inv
  BY InitInv, NextInv, PTL DEF Spec

(* Type correctness: in every reachable state of the store, the table and   *)
(* the requests.                                                            *)
THEOREM TypeCorrect == Spec => []TypeOK
<1>1. Inv => TypeOK
  BY DEF Inv
<1> QED
  BY <1>1, Invariance, PTL

(* A session with the rights of an account that has changed since exists    *)
(* only while that change is under way, or was opened with an older copy,   *)
(* or came back with a restart (the steps of handlers.go).                  *)
THEOREM StaleSessionsExplained == Spec => []StaleIsExplained
<1>1. Inv => StaleIsExplained
  BY DEF Inv
<1> QED
  BY <1>1, Invariance, PTL
-----------------------------------------------------------------------------
\* No step empties a store that has accounts: a change spares one of them.
LEMMA NeverEmptied ==
  ASSUME Inv, [Next]_vars, users # NoUsers
  PROVE  users' # NoUsers \/ corrupt'
<1>1. ASSUME NEW r \in Req, Create(r) PROVE users' # NoUsers
  <2> DEFINE new == [users EXCEPT ![req[r].user] = [role |-> DefaultRole(req[r].role), pw |-> 0]]
  <2>1. PICK v \in User : users[v] # None
    BY DEF Inv, TypeOK, NoUsers
  <2>2. users[req[r].user] = None => new[v] # None
    BY <2>1 DEF Inv, TypeOK
  <2>3. users[req[r].user] = None => new # NoUsers
    BY <2>1, <2>2 DEF NoUsers
  <2> QED
    BY <1>1, <2>3 DEF Create, Store, store
<1>2. ASSUME NEW r \in Req, Delete(r) PROVE users' # NoUsers
  <2> DEFINE new == [users EXCEPT ![req[r].user] = None]
  <2> SUFFICES ASSUME users[req[r].user] # None, ~LastAdmin(req[r].user) PROVE new # NoUsers
    BY <1>2 DEF Delete, Refuse, Change, Store, store
  <2>1. req[r].user \in User
    BY <1>2 DEF Inv, TypeOK, Delete, Does, Request
  <2>2. PICK a \in Admins : a # req[r].user
    BY <2>1, OtherAdmin DEF Inv
  <2> QED
    BY <2>2 DEF Inv, TypeOK, Admins, NoUsers
<1>3. ASSUME NEW r \in Req, ChangeRole(r) \/ ChangePassword(r) PROVE users' # NoUsers
  <2>1. /\ req[r].user \in User
        /\ users[req[r].user] # None => users[req[r].user] \in Account
    BY <1>3 DEF Inv, TypeOK, ChangeRole, ChangePassword, Does, Request
  <2>2. CASE users' = users
    BY <2>2
  <2>3. CASE users' # users
    <3>1. users'[req[r].user] \in Account
      BY <1>3, <2>1, <2>3 DEF Inv, TypeOK, ChangeRole, ChangePassword, Refuse, Change, Store, store, Account
    <3> QED
      BY <2>1, <3>1, AccountAssumption DEF NoUsers
  <2> QED
    BY <2>2, <2>3
<1>4. CASE Restart
  BY <1>4 DEF Inv, DiskAgrees, Restart, IsDamaged
<1>5. ASSUME NEW r \in Req, Begin(r) PROVE UNCHANGED users
  BY <1>5 DEF Begin, BeginSetup, BeginLogin, BeginAdmin, BeginOwnPassword, store
<1>6. ASSUME NEW r \in Req, (\E s \in Sid : CreateSession(r, s)) \/ Revoke(r) PROVE UNCHANGED users
  BY <1>6 DEF CreateSession, Revoke, store
<1>7. CASE (\E s \in Sid : Logout(s)) \/ Damage \/ UNCHANGED vars
  BY <1>7 DEF Logout, Damage, store, vars
<1> QED
  BY <1>1, <1>2, <1>3, <1>4, <1>5, <1>6, <1>7 DEF Next, Finish

(* The last admin stays: deletions, demotions, failed saves and restarts,   *)
(* however many of them race (Delete and ChangeRole in store.go), leave an  *)
(* admin where there was one, unless the file was damaged from outside.     *)
THEOREM LastAdminStays == Spec => AdminRemains
<1>1. ASSUME Inv, [Next]_vars, Inv' PROVE Admins # {} => Admins' # {} \/ corrupt'
  <2> SUFFICES ASSUME Admins # {} PROVE Admins' # {} \/ corrupt'
    OBVIOUS
  <2>1. users # NoUsers
    BY DEF Admins, NoUsers
  <2> QED
    BY <1>1, <2>1, NeverEmptied DEF Inv, HasAdmin
<1>2. Inv /\ Inv' /\ [Next]_vars => [Admins # {} => Admins' # {} \/ corrupt']_vars
  BY <1>1
<1> QED
  BY <1>2, Invariance, PTL DEF Spec, AdminRemains

(* A setup changes the store only while it is empty (setupMu in             *)
(* handleSetup), whoever else asks meanwhile.                               *)
THEOREM SetupOnce == Spec => SetupIsFirst
<1>1. Inv => \A r \in Req : Does(r, "setup") => users = NoUsers
  BY DEF Inv, RequestsHold
<1>2. Inv /\ [Next]_vars => [\A r \in Req : (Does(r, "setup") /\ users' # users) => users = NoUsers]_vars
  BY <1>1
<1> QED
  BY <1>2, Invariance, PTL DEF Spec, SetupIsFirst

(* Nothing writes over a users.json that could not be read (the corrupt     *)
(* mark of store.go).                                                       *)
THEOREM DamageIsKept == Spec => DamagedFileIsKept
<1>1. ASSUME Inv, [Next]_vars, disk = Damaged, users = NoUsers PROVE disk' = Damaged
  <2>1. corrupt /\ \A u \in User : users[u] = None
    BY <1>1 DEF Inv, DiskAgrees, NoUsers
  <2>2. ASSUME NEW r \in Req, Finish(r) PROVE UNCHANGED disk
    <3>1. req[r] \in Request \cup {None}
      BY <1>1 DEF Inv, TypeOK
    <3>2. Does(r, "delete") \/ Does(r, "role") \/ Does(r, "password") => users[req[r].user] = None
      BY <2>1, <3>1 DEF Does, Request
    <3>3. CASE Create(r)
      BY <2>1, <3>3 DEF Create, store
    <3>4. CASE Delete(r) \/ ChangeRole(r) \/ ChangePassword(r)
      BY <3>2, <3>4 DEF Delete, ChangeRole, ChangePassword, Refuse, store
    <3>5. CASE (\E s \in Sid : CreateSession(r, s)) \/ Revoke(r)
      BY <3>5 DEF CreateSession, Revoke, store
    <3> QED
      BY <2>2, <3>3, <3>4, <3>5 DEF Finish
  <2>3. ASSUME NEW r \in Req, Begin(r) PROVE UNCHANGED disk
    BY <2>3 DEF Begin, BeginSetup, BeginLogin, BeginAdmin, BeginOwnPassword, store
  <2>4. CASE (\E s \in Sid : Logout(s)) \/ Restart \/ UNCHANGED vars
    BY <1>1, <2>4 DEF Logout, Restart, store, vars
  <2> QED
    BY <1>1, <2>2, <2>3, <2>4 DEF Next, Damage
<1>2. Inv /\ [Next]_vars => [disk = Damaged /\ users = NoUsers => disk' = Damaged]_vars
  BY <1>1
<1> QED
  BY <1>2, Invariance, PTL DEF Spec, DamagedFileIsKept

-----------------------------------------------------------------------------
(***************************************************************************)
(* LoginLimiter: no order of attempts under way, evictions, the reaper and *)
(* the clock lets an address in while it is locked out.                    *)
(***************************************************************************)
LimiterEntry == [count : Int, age : Int, left : Int]

LimiterShape ==
  /\ attempts \in [Address -> LimiterEntry \cup {None}]
  /\ checking \in [Attempt -> Address \cup {None}]
  /\ promised \in [Address -> Nat]

\* A lockout given to an address is still in its entry, and not shorter there.
PromiseIsKept ==
  \A ip \in Address : promised[ip] > 0 => attempts[ip] # None /\ attempts[ip].left >= promised[ip]

LimiterInv == LimiterShape /\ PromiseIsKept /\ LockoutIsKept

\* Nobody has failed yet.
LEMMA LimiterInit == Limiter!Init => LimiterInv
BY DEF Limiter!Init, LimiterInv, LimiterShape, PromiseIsKept, LockoutIsKept, Limiter!LockoutIsKept

\* An attempt let in is not from an address with a lockout.
LEMMA AllowStep ==
  ASSUME Limiter!LimiterBounds, LimiterInv, NEW a \in Attempt, NEW ip \in Address, Limiter!Allow(a, ip)
  PROVE  LimiterInv'
<1> USE DEF LimiterInv
<1>1. promised[ip] = 0
  <2>1. promised[ip] \in Nat /\ attempts[ip] \in LimiterEntry \cup {None}
    BY DEF LimiterShape
  <2>2. attempts[ip] # None => ~(attempts[ip].left > 0) /\ attempts[ip].left \in Int
    BY <2>1 DEF Limiter!Allow, Limiter!Locked, LimiterEntry
  <2> QED
    BY <2>1, <2>2 DEF PromiseIsKept
<1>2. attempts[ip] # None => Limiter!Admitted(attempts[ip]) \in LimiterEntry \cup {None}
  BY DEF LimiterShape, Limiter!Admitted, Limiter!Fresh, Limiter!Zero, LimiterEntry
<1>3. LimiterShape' /\ \A x \in Address : x # ip => attempts'[x] = attempts[x]
  <2>1. checking' \in [Attempt -> Address \cup {None}] /\ promised' = promised
    BY DEF LimiterShape, Limiter!Allow
  <2>2. \/ attempts' = attempts
        \/ attempts[ip] # None /\ attempts' = [attempts EXCEPT ![ip] = Limiter!Admitted(attempts[ip])]
    BY DEF Limiter!Allow
  <2> QED
    BY <1>2, <2>1, <2>2 DEF LimiterShape
<1>4. PromiseIsKept'
  <2>1. promised' = promised
    BY DEF Limiter!Allow
  <2>2. ~(promised[ip] > 0)
    BY <1>1
  <2> QED
    <3> SUFFICES ASSUME NEW x \in Address, promised'[x] > 0
                 PROVE  attempts'[x] # None /\ attempts'[x].left >= promised'[x]
      BY DEF PromiseIsKept
    <3>1. x # ip /\ promised[x] > 0
      BY <2>1, <2>2
    <3>2. attempts[x] # None /\ attempts[x].left >= promised[x]
      BY <3>1 DEF PromiseIsKept
    <3> QED
      BY <1>3, <2>1, <3>1, <3>2
<1>5. LockoutIsKept'
  <2>1. ~(promised[ip] > 0) /\ ~slipped
    BY <1>1 DEF LockoutIsKept, Limiter!LockoutIsKept
  <2>2. slipped' <=> (slipped \/ promised[ip] > 0)
    BY Zenon DEF Limiter!Allow
  <2> QED
    BY <2>1, <2>2, Zenon DEF LockoutIsKept, Limiter!LockoutIsKept
<1> QED
  BY <1>3, <1>4, <1>5

\* A failure more leaves an entry, and a lockout of its window is not cut short.
LEMMA CountedEntry ==
  ASSUME Limiter!LimiterBounds, NEW i \in LimiterEntry \cup {None}
  PROVE  /\ Limiter!Counted(i) \in LimiterEntry /\ Limiter!Counted(i) # None
         /\ i # None /\ ~Limiter!WindowOver(i) => Limiter!Counted(i).left \in {i.left, lockout}
<1>1. i # None => i \in LimiterEntry
  OBVIOUS
<1>2. Limiter!Fresh \in LimiterEntry /\ lockout \in Int
  BY DEF Limiter!Fresh, Limiter!Zero, LimiterEntry, Limiter!LimiterBounds
<1>3. ASSUME NEW b \in LimiterEntry
      PROVE  LET n == b.count + 1
                 c == [b EXCEPT !.count = n, !.left = IF n >= max THEN lockout ELSE @]
             IN c \in LimiterEntry /\ c.left \in {b.left, lockout}
  <2> DEFINE n == b.count + 1
             l == IF n >= max THEN lockout ELSE b.left
             c == [b EXCEPT !.count = n, !.left = IF n >= max THEN lockout ELSE @]
  <2>0. /\ b.count \in Int /\ b.age \in Int /\ b.left \in Int
        /\ b = [count |-> b.count, age |-> b.age, left |-> b.left]
    BY <1>3 DEF LimiterEntry
  <2>1. n \in Int /\ l \in Int
    BY <1>2, <2>0
  <2>2. c \in LimiterEntry
    BY <1>3, <2>1 DEF LimiterEntry
  <2>3. c.left = l
    BY <1>3, <2>1 DEF LimiterEntry
  <2> QED
    BY <2>2, <2>3
<1>4. Limiter!Counted(i) \in LimiterEntry
  BY <1>1, <1>2, <1>3 DEF Limiter!Counted
<1>5. i # None /\ ~Limiter!WindowOver(i) => Limiter!Counted(i).left \in {i.left, lockout}
  BY <1>1, <1>3 DEF Limiter!Counted
<1> QED
  BY <1>4, <1>5 DEF Limiter!LimiterBounds, LimiterEntry

LEMMA FailureStep ==
  ASSUME Limiter!LimiterBounds, LimiterInv, NEW a \in Attempt, Limiter!RecordFailure(a)
  PROVE  LimiterInv'
<1> DEFINE ip == checking[a]
           c == Limiter!Counted(attempts[ip])
           m == [attempts EXCEPT ![ip] = c]
           late == attempts[ip] # None /\ Limiter!WindowOver(attempts[ip])
<1> USE DEF LimiterInv
<1>1. ip \in Address /\ attempts[ip] \in LimiterEntry \cup {None}
  BY DEF Limiter!RecordFailure, LimiterShape
<1>2. /\ c \in LimiterEntry /\ c # None
      /\ attempts[ip] # None /\ ~late => c.left \in {attempts[ip].left, lockout}
  BY <1>1, CountedEntry
<1>3. m \in [Address -> LimiterEntry \cup {None}] /\ m[ip] = c /\ \A x \in Address \ {ip} : m[x] = attempts[x]
  BY <1>1, <1>2 DEF LimiterShape
<1>4. lockout \in Nat
  BY DEF Limiter!LimiterBounds
<1>5. PICK keep :
        /\ attempts' = [x \in Address |-> IF x \in keep THEN m[x] ELSE None]
        /\ promised' = [x \in Address |->
             IF x \notin keep THEN 0
             ELSE IF x = ip THEN (IF m[ip].left = lockout THEN lockout ELSE IF late THEN 0 ELSE promised[ip])
             ELSE promised[x]]
  BY DEF Limiter!RecordFailure
<1>6. LimiterShape'
  <2>1. attempts' \in [Address -> LimiterEntry \cup {None}]
    BY <1>3, <1>5
  <2>2. promised' \in [Address -> Nat]
    BY <1>1, <1>4, <1>5 DEF LimiterShape
  <2>3. checking' \in [Attempt -> Address \cup {None}]
    BY DEF Limiter!RecordFailure, LimiterShape
  <2> QED
    BY <2>1, <2>2, <2>3 DEF LimiterShape
<1>7. PromiseIsKept'
  <2> SUFFICES ASSUME NEW x \in Address, promised'[x] > 0
               PROVE  attempts'[x] # None /\ attempts'[x].left >= promised'[x]
    BY DEF PromiseIsKept
  <2>1. x \in keep /\ attempts'[x] = m[x]
    BY <1>5
  <2>2. CASE x # ip
    BY <1>3, <1>5, <2>1, <2>2 DEF PromiseIsKept
  <2>3. CASE x = ip /\ c.left = lockout
    BY <1>2, <1>3, <1>4, <1>5, <2>1, <2>3
  <2>4. CASE x = ip /\ c.left # lockout
    <3>1. ~late /\ promised'[x] = promised[ip]
      BY <1>3, <1>5, <2>1, <2>4
    <3>2. attempts[ip] # None /\ attempts[ip].left >= promised[ip]
      BY <1>1, <3>1, <2>4 DEF PromiseIsKept
    <3> QED
      BY <1>2, <1>3, <2>1, <2>4, <3>1, <3>2
  <2> QED
    BY <2>2, <2>3, <2>4
<1>8. LockoutIsKept'
  BY DEF LockoutIsKept, Limiter!LockoutIsKept, Limiter!RecordFailure
<1> QED
  BY <1>6, <1>7, <1>8

\* Time takes from both what is left and what was promised.
LEMMA TickStep ==
  ASSUME Limiter!LimiterBounds, LimiterInv, Limiter!Tick
  PROVE  LimiterInv'
<1> USE DEF LimiterInv
<1>1. ASSUME NEW ip \in Address, attempts[ip] # None
      PROVE  /\ attempts'[ip] \in LimiterEntry /\ attempts'[ip] # None
             /\ attempts'[ip].left = IF attempts[ip].left > 0 THEN attempts[ip].left - 1 ELSE attempts[ip].left
  <2> DEFINE i == attempts[ip]
             older == IF i.age > window THEN i.age ELSE i.age + 1
             less == IF i.left > 0 THEN i.left - 1 ELSE i.left
  <2>1. i \in LimiterEntry
    BY <1>1 DEF LimiterShape
  <2>2. attempts'[ip] = [i EXCEPT !.age = IF @ > window THEN @ ELSE @ + 1,
                                  !.left = IF @ > 0 THEN @ - 1 ELSE @]
    BY <1>1 DEF Limiter!Tick
  <2>3. i.count \in Int /\ older \in Int /\ less \in Int
    BY <2>1 DEF LimiterEntry
  <2>4. attempts'[ip] = [count |-> i.count, age |-> older, left |-> less]
    BY <2>1, <2>2 DEF LimiterEntry
  <2>5. attempts'[ip] \in LimiterEntry /\ attempts'[ip].left = less
    BY <2>3, <2>4 DEF LimiterEntry
  <2> QED
    BY <2>5 DEF LimiterEntry, Limiter!LimiterBounds
<1>2. \A ip \in Address : attempts[ip] = None => attempts'[ip] = None
  BY DEF Limiter!Tick
<1>3. \A ip \in Address : promised'[ip] \in Nat /\ promised'[ip] = IF promised[ip] > 0 THEN promised[ip] - 1 ELSE 0
  <2> SUFFICES ASSUME NEW ip \in Address
               PROVE  promised'[ip] \in Nat /\ promised'[ip] = IF promised[ip] > 0 THEN promised[ip] - 1 ELSE 0
    OBVIOUS
  <2>1. promised'[ip] = IF promised[ip] > 0 THEN promised[ip] - 1 ELSE 0
    BY DEF Limiter!Tick
  <2>2. promised[ip] \in Nat
    BY DEF LimiterShape
  <2> QED
    BY <2>1, <2>2
<1>4. LimiterShape'
  <2>1. attempts' \in [Address -> LimiterEntry \cup {None}]
    <3>1. attempts' = [ip \in Address |-> attempts'[ip]]
      BY DEF Limiter!Tick
    <3> QED
      BY <1>1, <1>2, <3>1
  <2>2. promised' \in [Address -> Nat]
    <3>1. promised' = [ip \in Address |-> promised'[ip]]
      BY DEF Limiter!Tick
    <3> QED
      BY <1>3, <3>1
  <2> QED
    BY <2>1, <2>2 DEF LimiterShape, Limiter!Tick
<1>5. PromiseIsKept'
  <2> SUFFICES ASSUME NEW ip \in Address, promised'[ip] > 0
               PROVE  attempts'[ip] # None /\ attempts'[ip].left >= promised'[ip]
    BY DEF PromiseIsKept
  <2>1. promised[ip] \in Nat /\ promised[ip] > 0 /\ promised'[ip] = promised[ip] - 1
    BY <1>3 DEF LimiterShape
  <2>2. attempts[ip] \in LimiterEntry /\ attempts[ip] # None /\ attempts[ip].left >= promised[ip]
    BY <2>1 DEF PromiseIsKept, LimiterShape
  <2> QED
    BY <1>1, <2>1, <2>2 DEF LimiterEntry
<1>6. LockoutIsKept'
  BY DEF LockoutIsKept, Limiter!LockoutIsKept, Limiter!Tick
<1> QED
  BY <1>4, <1>5, <1>6

\* Every step keeps the invariant.
LEMMA LimiterNext ==
  ASSUME Limiter!LimiterBounds, LimiterInv, [Limiter!Next]_(Limiter!vars) PROVE LimiterInv'
<1>1. ASSUME NEW a \in Attempt, Limiter!Reset(a) PROVE LimiterInv'
  BY <1>1 DEF LimiterInv, LimiterShape, PromiseIsKept, LockoutIsKept, Limiter!LockoutIsKept, Limiter!Reset
<1>2. CASE Limiter!reaper
  <2>1. \A ip \in Address : attempts'[ip] = attempts[ip] \/ (promised[ip] = 0 /\ attempts'[ip] = None)
    BY <1>2 DEF LimiterInv, LimiterShape, PromiseIsKept, Limiter!reaper, Limiter!Stale, Limiter!Expired, LimiterEntry
  <2>2. LimiterShape' /\ LockoutIsKept' /\ promised' = promised
    BY <1>2 DEF LimiterInv, LimiterShape, LockoutIsKept, Limiter!LockoutIsKept, Limiter!reaper
  <2> QED
    BY <2>1, <2>2 DEF LimiterInv, PromiseIsKept
<1>3. CASE UNCHANGED Limiter!vars
  BY <1>3 DEF LimiterInv, LimiterShape, PromiseIsKept, LockoutIsKept, Limiter!LockoutIsKept, Limiter!vars
<1> QED
  BY <1>1, <1>2, <1>3, AllowStep, FailureStep, TickStep DEF Limiter!Next

(* A lockout lasts as long as it was given for, whatever attempts were let *)
(* in together and recorded late (src/internal/auth/ratelimit.go).         *)
THEOREM LockoutTheorem == Limiter!Spec => []LockoutIsKept
<1>1. Limiter!Init => LimiterInv
  BY LimiterInit
<1>2. LimiterInv /\ [Limiter!Next]_(Limiter!vars) => LimiterInv'
  BY LimiterAssumption, LimiterNext
<1>3. LimiterInv => LockoutIsKept
  BY DEF LimiterInv
<1> QED
  BY <1>1, <1>2, <1>3, PTL DEF Limiter!Spec
=============================================================================
