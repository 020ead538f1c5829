----------------------------- MODULE PluginStore -----------------------------
(***************************************************************************)
(* Installing and removing plugins on the dashboard: the upload and delete *)
(* handlers of src/internal/api/plugins.go, the module API of              *)
(* src/internal/api/modules.go, the list they share (modules.json) and the *)
(* files beside it.  Handlers run concurrently and nothing but the list    *)
(* has a lock; the disk can refuse or cut short a write, and the process   *)
(* can end between two steps.                                              *)
(***************************************************************************)
EXTENDS FiniteSets

CONSTANTS
  Name,      \* plugin names
  Upload,    \* uploads, each of a file of its own
  Signed,    \* those that bring a detached signature
  Remover,   \* delete requests, one at a time each
  None,
  Torn       \* what a write that failed half-way leaves

StoreAssumption == Signed \subseteq Upload /\ None # Torn /\ {None, Torn} \cap Upload = {}

VARIABLES
  modules,     \* modules.json: the upload a name was registered by, or None
  so, sig, meta, \* <name>.so, <name>.so.sig, <name>.meta.json
  quarantine,  \* uploads with a file in .quarantine
  step,        \* how far each request has come
  target,      \* the plugin it is about
  trouble      \* per name: what may excuse its state

files == <<so, sig, meta>>
vars == <<modules, files, quarantine, step, target, trouble>>

Request == Upload \cup Remover
Busy == {r \in Request : step[r] \notin {"idle", "ended"}}
About(n) == {r \in Busy : target[r] = n}

TypeOK ==
  /\ modules \in [Name -> Upload \cup {None}]
  /\ so \in [Name -> Upload \cup {None}]
  /\ sig \in [Name -> Upload \cup {None, Torn}] /\ meta \in [Name -> Upload \cup {None, Torn}]
  /\ quarantine \subseteq Upload
  /\ step \in [Request -> {"idle", "inspected", "unlisted", "free", "placed", "signed",
                           "described", "delisted", "removed", "dropped", "ended"}]
  /\ target \in [Request -> Name \cup {None}]
  /\ trouble \in [Name -> SUBSET {"race", "crash", "disk", "modules"}]

Init ==
  /\ modules = [n \in Name |-> None]
  /\ so = [n \in Name |-> None] /\ sig = so /\ meta = so
  /\ quarantine = {}
  /\ step = [r \in Request |-> "idle"] /\ target = [r \in Request |-> None]
  /\ trouble = [n \in Name |-> {}]

Go(r, s) == step' = [step EXCEPT ![r] = s]
Noted(n, what) == trouble' = [trouble EXCEPT ![n] = @ \cup what]

\* A request becomes busy with n; two at once is a race.
Meets(n) == IF About(n) # {} THEN {"race"} ELSE {}

-----------------------------------------------------------------------------
\* The upload waits in quarantine while its signature is verified and plugin-inspect
\* tells the plugin's own name.
Receive(u, n) ==
  /\ step[u] = "idle"
  /\ Go(u, "inspected") /\ target' = [target EXCEPT ![u] = n]
  /\ quarantine' = quarantine \cup {u}
  /\ Noted(n, Meets(n))
  /\ UNCHANGED <<modules, files>>

\* The upload is turned down before anything is installed: the deferred removal.
Refuse(u) ==
  /\ Go(u, "ended") /\ quarantine' = quarantine \ {u}
  /\ UNCHANGED <<modules, files, target, trouble>>

\* storage.Get
CheckListed(u) ==
  /\ step[u] = "inspected"
  /\ \/ modules[target[u]] = None /\ Go(u, "unlisted")
        /\ UNCHANGED <<modules, files, quarantine, target, trouble>>
     \/ Refuse(u)

InTheWay(n) == so[n] # None \/ meta[n] # None

\* fileExists
CheckFiles(u) ==
  /\ step[u] = "unlisted"
  /\ IF InTheWay(target[u])
       THEN Refuse(u)
       ELSE Go(u, "free") /\ UNCHANGED <<modules, files, quarantine, target, trouble>>

\* os.Rename replaces whatever is there by now.
Place(u) ==
  /\ step[u] = "free"
  /\ \/ /\ so' = [so EXCEPT ![target[u]] = u]
        /\ quarantine' = quarantine \ {u}
        /\ Go(u, "placed")
        /\ UNCHANGED <<modules, sig, meta, target, trouble>>
     \/ Refuse(u)

Without(f, n) == [f EXCEPT ![n] = None]
With(f, u) == [f EXCEPT ![target[u]] = u]
Cut(f, u) == [f EXCEPT ![target[u]] = Torn]

\* chmod and the signature.  A failure removes the .so; what was written of the signature
\* stays.
Sign(u) ==
  /\ step[u] = "placed"
  /\ \/ /\ Go(u, "signed")
        /\ sig' = IF u \in Signed THEN With(sig, u) ELSE sig
        /\ UNCHANGED <<so, trouble>>
     \/ /\ Go(u, "ended")
        /\ so' = Without(so, target[u])
        /\ \/ UNCHANGED <<sig, trouble>>
           \/ u \in Signed /\ sig' = Cut(sig, u) /\ Noted(target[u], {"disk"})
  /\ UNCHANGED <<modules, meta, quarantine, target>>

\* meta.json.  A failure removes the .so and the signature; what was written of meta.json
\* stays.
Describe(u) ==
  /\ step[u] = "signed"
  /\ \/ /\ Go(u, "described")
        /\ meta' = With(meta, u)
        /\ UNCHANGED <<so, sig, trouble>>
     \/ /\ Go(u, "ended")
        /\ so' = Without(so, target[u]) /\ sig' = Without(sig, target[u])
        /\ \/ UNCHANGED <<meta, trouble>>
           \/ meta' = Cut(meta, u) /\ Noted(target[u], {"disk"})
  /\ UNCHANGED <<modules, quarantine, target>>

\* Mutant: Add keeps the entry it could not save.
Kept(u) == modules' = [modules EXCEPT ![target[u]] = u]

\* Add takes back an entry it could not save.
RolledBack(u) == UNCHANGED modules

RemoveFiles(n) ==
  so' = Without(so, n) /\ sig' = Without(sig, n) /\ meta' = Without(meta, n)

\* storage.Add saves modules.json in the same step.  A name somebody else added, and a save
\* that fails, take the files away again.
Register(u) ==
  /\ step[u] = "described"
  /\ Go(u, "ended")
  /\ \/ /\ modules[target[u]] = None
        /\ modules' = [modules EXCEPT ![target[u]] = u]
        /\ UNCHANGED files
     \/ RemoveFiles(target[u]) /\ RolledBack(u)
  /\ UNCHANGED <<quarantine, target, trouble>>

-----------------------------------------------------------------------------
\* storage.Delete: the entry goes first, and with an unknown name or a failed save nothing
\* else happens.  Either API, told apart by what it removes next.
Delist(r, n, next) ==
  /\ step[r] = "idle" /\ modules[n] # None
  /\ modules' = Without(modules, n)
  /\ Go(r, next) /\ target' = [target EXCEPT ![r] = n]
  /\ Noted(n, Meets(n))
  /\ UNCHANGED <<files, quarantine>>

\* Mutant: the signature stays.
SparesSig(n) == UNCHANGED sig

DropSig(n) == sig' = Without(sig, n)

\* DELETE /api/plugins/{name}: the .so, or an error that leaves everything, ...
RemoveSo(r) ==
  /\ step[r] = "delisted"
  /\ \/ Go(r, "removed") /\ so' = Without(so, target[r]) /\ UNCHANGED trouble
     \/ so[target[r]] # None /\ Go(r, "idle") /\ Noted(target[r], {"disk"}) /\ UNCHANGED so
  /\ UNCHANGED <<modules, sig, meta, quarantine, target>>

\* ... then meta.json and the signature.
RemoveRest(r) ==
  /\ step[r] = "removed"
  /\ Go(r, "idle")
  /\ meta' = Without(meta, target[r]) /\ DropSig(target[r])
  /\ UNCHANGED <<modules, so, quarantine, target, trouble>>

\* DELETE /api/modules/{name}: the .so and meta.json, not the signature.
RemoveModuleFiles(r) ==
  /\ step[r] = "dropped"
  /\ Go(r, "idle")
  /\ so' = Without(so, target[r]) /\ meta' = Without(meta, target[r])
  /\ Noted(target[r], IF sig[target[r]] # None THEN {"modules"} ELSE {})
  /\ UNCHANGED <<modules, sig, quarantine, target>>

\* The dashboard ends in the middle of what it was doing and starts again.
Restart ==
  /\ Busy # {}
  /\ step' = [r \in Request |-> IF r \notin Busy THEN step[r]
                                ELSE IF r \in Upload THEN "ended" ELSE "idle"]
  /\ trouble' = [n \in Name |-> trouble[n] \cup (IF About(n) # {} THEN {"crash"} ELSE {})]
  /\ UNCHANGED <<modules, files, quarantine, target>>

Next ==
  \/ \E u \in Upload :
       \/ \E n \in Name : Receive(u, n)
       \/ CheckListed(u) \/ CheckFiles(u) \/ Place(u) \/ Sign(u) \/ Describe(u) \/ Register(u)
  \/ \E r \in Remover :
       \/ \E n \in Name : Delist(r, n, "delisted") \/ Delist(r, n, "dropped")
       \/ RemoveSo(r) \/ RemoveRest(r) \/ RemoveModuleFiles(r)
  \/ Restart

Spec == Init /\ [][Next]_vars

-----------------------------------------------------------------------------
Quiet(n) == About(n) = {}

(* A registered plugin is complete: its own .so, its meta.json and its     *)
(* signature are in place, whatever writes failed, whichever deletes were  *)
(* cut short and wherever the dashboard was restarted, unless two requests *)
(* about the same name overlapped (src/internal/api/plugins.go:594-684).   *)
RegisteredIsWhole ==
  \A n \in Name :
    Quiet(n) /\ modules[n] # None /\ "race" \notin trouble[n] =>
      /\ so[n] = modules[n] /\ meta[n] = modules[n]
      /\ modules[n] \in Signed => sig[n] = modules[n]

(* A plugin that is not registered has no file left on disk, unless the    *)
(* disk failed in the middle of a write or a removal, the dashboard ended  *)
(* in the middle of a request, requests about the name overlapped, or the  *)
(* module API removed it (plugins.go:638-684, 738-785).                    *)
NothingIsLeftBehind ==
  \A n \in Name :
    Quiet(n) /\ modules[n] = None /\ trouble[n] = {} =>
      so[n] = None /\ meta[n] = None /\ sig[n] = None

(* The list of the dashboard and the files beside it agree.                *)
FilesMatchTheList == RegisteredIsWhole /\ NothingIsLeftBehind

(* What plugins.go:594-601 and 672-674 are for: installing a plugin and    *)
(* refusing a second one of its name never costs a registered plugin its   *)
(* files.  Two uploads of one name can both pass the checks; the one that  *)
(* registers second removes the files of the first.                        *)
RegisteredIsInstalled ==
  \A n \in Name : Quiet(n) /\ modules[n] # None => so[n] # None
=============================================================================
