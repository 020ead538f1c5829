--------------------------- MODULE AccountSessions ---------------------------
(***************************************************************************)
(* Accounts and the sessions opened with them: the user store              *)
(* (src/internal/auth/store.go), the handlers that log in and manage users *)
(* (src/internal/auth/handlers.go) and, seen from there, the session table *)
(* that module SessionStore models in detail.                              *)
(*                                                                         *)
(* The store and the session table have locks of their own, so a handler   *)
(* that touches both runs in steps: it checks who asks, changes the store, *)
(* revokes the sessions.  Requests interleave, a write to disk may fail,   *)
(* the process may end anywhere, users.json may be damaged from outside.   *)
(*                                                                         *)
(* Passwords are two values; changing one takes the other.  A session also *)
(* records the password it was opened with and how it came to be.          *)
(***************************************************************************)
EXTENDS Naturals, FiniteSets

CONSTANTS
  User, Req, Sid,   \* user names, request goroutines, session tokens
  None,
  Damaged           \* a users.json that does not parse

VARIABLES
  users, corrupt,   \* s.users, s.corrupt
  disk,             \* users.json
  sessions, saved,  \* the session table, sessions.json
  req               \* what each request goroutine is about to do

store == <<users, corrupt, disk>>
table == <<sessions, saved>>
vars == <<store, table, req>>

Role == {"admin", "viewer"}
Account == [role : Role, pw : 0 .. 1]
Session == [user : User, role : Role, pw : 0 .. 1, origin : {"fresh", "late", "restored"}]
Op == {"setup", "login", "create", "delete", "role", "password", "revoke"}
Asked == Role \cup {""}   \* the role field of a request body
Request == [op : Op, user : User, role : Asked, pw : 0 .. 1]

ASSUME AccountAssumption ==
  /\ None \notin Account \cup Session \cup Request
  /\ Damaged \notin [User -> Account \cup {None}]

TypeOK ==
  /\ users \in [User -> Account \cup {None}] /\ corrupt \in BOOLEAN
  /\ disk = Damaged \/ disk \in [User -> Account \cup {None}]
  /\ sessions \in [Sid -> Session \cup {None}] /\ saved \in [Sid -> Session \cup {None}]
  /\ req \in [Req -> Request \cup {None}]

-----------------------------------------------------------------------------
NoUsers == [u \in User |-> None]

\* A fresh installation: neither file exists.
Init ==
  /\ users = NoUsers /\ corrupt = FALSE /\ disk = NoUsers
  /\ sessions = [s \in Sid |-> None] /\ saved = [s \in Sid |-> None]
  /\ req = [r \in Req |-> None]

Does(r, op) == req[r] # None /\ req[r].op = op
Handle(r, op, u, role, pw) == req' = [req EXCEPT ![r] = [op |-> op, user |-> u, role |-> role, pw |-> pw]]
Respond(r) == req' = [req EXCEPT ![r] = None]

\* A mutation of the store and its save; a failed save is rolled back.
Store(new) ==
  \/ users' = new /\ disk' = new
  \/ users' = users /\ disk' = disk

\* A mutation of the session table and its save, which may fail silently.
Update(new) ==
  /\ sessions' = new
  /\ saved' \in {new, saved}

Admins == {u \in User : users[u] # None /\ users[u].role = "admin"}

\* Mutant: the guard looks at the wrong count.
NeverLast(u) == Cardinality(Admins) = 0

LastAdmin(u) == u \in Admins /\ Cardinality(Admins) <= 1

-----------------------------------------------------------------------------
NeedsSetup == ~corrupt /\ users = NoUsers

\* Mutant: setup requests do not exclude each other.
NoSetupMu == TRUE

SetupMuFree == \A r \in Req : ~Does(r, "setup")

\* handleSetup up to its call of Create, under setupMu.
BeginSetup(r, u) ==
  /\ req[r] = None
  /\ SetupMuFree /\ NeedsSetup
  /\ Handle(r, "setup", u, "admin", 0)
  /\ UNCHANGED <<store, table>>

\* Authenticate returns a copy of the user, which login uses from here on.
BeginLogin(r, u) ==
  /\ req[r] = None
  /\ users[u] # None
  /\ Handle(r, "login", u, users[u].role, users[u].pw)
  /\ UNCHANGED <<store, table>>

\* requireAdmin, and nobody deletes the own account.
BeginAdmin(r, op, u, role) ==
  /\ req[r] = None
  /\ \E s \in Sid : /\ sessions[s] # None /\ sessions[s].role = "admin"
                    /\ op = "delete" => sessions[s].user # u
  /\ Handle(r, op, u, role, 0)
  /\ UNCHANGED <<store, table>>

\* handleChangeOwnPassword has a session and the current password.
BeginOwnPassword(r, s) ==
  /\ req[r] = None
  /\ sessions[s] # None /\ users[sessions[s].user] # None
  /\ Handle(r, "password", sessions[s].user, "viewer", 0)
  /\ UNCHANGED <<store, table>>

-----------------------------------------------------------------------------
\* Mutant: an empty role field is stored as it is.
AnyRole(role) == role

\* A user created without a role is a viewer.
DefaultRole(role) == IF role = "" THEN "viewer" ELSE role

\* Create, of the first admin or of any user.
Create(r) ==
  /\ Does(r, "setup") \/ Does(r, "create")
  /\ LET u == req[r].user
     IN  IF corrupt \/ users[u] # None
         THEN UNCHANGED store
         ELSE Store([users EXCEPT ![u] = [role |-> DefaultRole(req[r].role), pw |-> 0]]) /\ UNCHANGED corrupt
  /\ Respond(r)
  /\ UNCHANGED table

\* Mutant: a role change leaves the sessions alone.
RevokesUnlessRole(r) == IF Does(r, "role") THEN Respond(r) ELSE req' = [req EXCEPT ![r].op = "revoke"]

\* After a change of the store the handler turns to the sessions.
GoesOn(r) == req' = [req EXCEPT ![r].op = "revoke"]

\* Delete, ChangeRole and ChangePassword: refused, failed, or done.
Change(r, new) ==
  /\ UNCHANGED corrupt
  /\ Store(new)
  /\ IF users' = new THEN GoesOn(r) ELSE Respond(r)
  /\ UNCHANGED table

Refuse(r) == Respond(r) /\ UNCHANGED <<store, table>>

Delete(r) ==
  /\ Does(r, "delete")
  /\ LET u == req[r].user
     IN  IF users[u] = None \/ LastAdmin(u) THEN Refuse(r)
         ELSE Change(r, [users EXCEPT ![u] = None])

ChangeRole(r) ==
  /\ Does(r, "role")
  /\ LET u == req[r].user
     IN  IF \/ req[r].role \notin Role \/ users[u] = None
            \/ LastAdmin(u) /\ req[r].role # "admin"
         THEN Refuse(r)
         ELSE Change(r, [users EXCEPT ![u].role = req[r].role])

ChangePassword(r) ==
  /\ Does(r, "password")
  /\ LET u == req[r].user
     IN  IF users[u] = None THEN Refuse(r)
         ELSE Change(r, [users EXCEPT ![u].pw = 1 - @])

\* The account is as it was when the session was opened.
Current(s) == users[s.user] # None /\ users[s.user].role = s.role /\ users[s.user].pw = s.pw

Opened(user, role, pw) ==
  LET s == [user |-> user, role |-> role, pw |-> pw, origin |-> "fresh"]
  IN  IF Current(s) THEN s ELSE [s EXCEPT !.origin = "late"]

\* The rest of handleLogin: the browser's old session s goes, a new one is
\* created with the copy Authenticate returned.
CreateSession(r, s) ==
  /\ Does(r, "login")
  /\ Update([sessions EXCEPT ![s] = Opened(req[r].user, req[r].role, req[r].pw)])
  /\ Respond(r)
  /\ UNCHANGED store

WithoutUser(u) == [s \in Sid |-> IF sessions[s] # None /\ sessions[s].user = u THEN None ELSE sessions[s]]

\* DeleteUserSessions, the last step of a change.
Revoke(r) ==
  /\ Does(r, "revoke")
  /\ Update(WithoutUser(req[r].user))
  /\ Respond(r)
  /\ UNCHANGED store

\* handleLogout, and the other ways for a session to end.
Logout(s) ==
  /\ sessions[s] # None
  /\ Update([sessions EXCEPT ![s] = None])
  /\ UNCHANGED <<store, req>>

-----------------------------------------------------------------------------
Restored == [s \in Sid |-> IF saved[s] = None THEN None ELSE [saved[s] EXCEPT !.origin = "restored"]]

\* Mutant: a damaged file starts an empty store.
NeverCorrupt == FALSE

IsDamaged == disk = Damaged

\* The process ends anywhere; NewStore, Load and the session manager's load.
Restart ==
  /\ req' = [r \in Req |-> None]
  /\ users' = (IF disk = Damaged THEN NoUsers ELSE disk)
  /\ corrupt' = IsDamaged
  /\ sessions' = Restored
  /\ UNCHANGED <<disk, saved>>

\* Something else damages users.json, once there is one.
Damage == disk # NoUsers /\ disk' = Damaged /\ UNCHANGED <<users, corrupt, table, req>>

Begin(r) ==
  \/ \E u \in User : BeginSetup(r, u) \/ BeginLogin(r, u)
  \/ \E u \in User, role \in Asked, op \in {"create", "role"} : BeginAdmin(r, op, u, role)
  \/ \E u \in User, op \in {"delete", "password"} : BeginAdmin(r, op, u, "viewer")
  \/ \E s \in Sid : BeginOwnPassword(r, s)

Finish(r) ==
  \/ Create(r) \/ Delete(r) \/ ChangeRole(r) \/ ChangePassword(r)
  \/ \E s \in Sid : CreateSession(r, s)
  \/ Revoke(r)

Next ==
  \/ \E r \in Req : Begin(r)
  \/ \E r \in Req : Finish(r)
  \/ \E s \in Sid : Logout(s)
  \/ Restart
  \/ Damage

Spec == Init /\ [][Next]_vars

-----------------------------------------------------------------------------
(* The last admin stays, whatever deletions and demotions race, fail or are *)
(* cut off: an installation with an admin never loses the last one.         *)
AdminRemains == [][Admins # {} => Admins' # {} \/ corrupt']_vars

(* Only one setup creates an admin, however many requests found the store   *)
(* empty.                                                                   *)
SetupIsFirst ==
  [][\A r \in Req : (Does(r, "setup") /\ users' # users) => users = NoUsers]_vars

(* A damaged users.json is left for the operator: after a start that could  *)
(* not read it nothing is written over it, by setup or by old sessions.     *)
DamagedFileIsKept == [][disk = Damaged /\ users = NoUsers => disk' = Damaged]_vars

(* A session outlives a change of its account only while the change is      *)
(* still being carried out, when its login had read the account before the  *)
(* change, or when a restart brought it back.                               *)
StaleIsExplained ==
  \A s \in Sid : (sessions[s] # None /\ sessions[s].origin = "fresh" /\ ~Current(sessions[s]) /\ ~corrupt) =>
     \E r \in Req : Does(r, "revoke") /\ req[r].user = sessions[s].user
=============================================================================
