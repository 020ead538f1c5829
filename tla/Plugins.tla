------------------------------- MODULE Plugins -------------------------------
(***************************************************************************)
(* A plugin on both sides: the dashboard installs it and lists it in       *)
(* modules.json (PluginStore), the agent loads what modules.json lists     *)
(* (PluginReload).  The agent takes any contents of the file at any time,  *)
(* so the two share no state here: a request of the dashboard is one of    *)
(* the edits the agent meets.                                              *)
(***************************************************************************)
EXTENDS PluginReload

CONSTANTS Installable, Upload, Signed, Remover, Torn

VARIABLES list, so, sig, meta, quarantine, step, target, trouble

store == <<list, so, sig, meta, quarantine, step, target, trouble>>

Store == INSTANCE PluginStore WITH Name <- Installable, modules <- list

ASSUME StoreAssumption == Store!StoreAssumption

(* PluginStore: the list and the files agree.                               *)
FilesMatchTheList == Store!FilesMatchTheList

(* PluginStore: what plugins.go:594-601 says of the files of a plugin.      *)
RegisteredIsInstalled == Store!RegisteredIsInstalled
===============================================================================
