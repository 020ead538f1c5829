------------------------------ MODULE MCPlugins ------------------------------
(* Plugins on the agent and on the dashboard, one at a time:                *)
(*   reload  two names, three plugin objects; files with one or two         *)
(*           entries, enabled, disabled and removed, with plugins named     *)
(*           like their entry and otherwise;                                *)
(*   store   one name, three uploads of which two are signed, one delete.   *)
EXTENDS Plugins

CONSTANTS a, b, p1, p2, p3, u1, u2, u3, r1, Part

MCName == {a, b}
MCInst == {p1, p2, p3}
MCInstallable == {a}
MCUpload == {u1, u2, u3}
MCSigned == {u1, u2}
MCRemover == {r1}

On(c, o) == [cfg |-> c, enabled |-> TRUE, own |-> o]
Off(c, o) == [cfg |-> c, enabled |-> FALSE, own |-> o]

MCFiles ==
  {<< >>, <<On(a, a)>>, <<On(a, a), On(b, b)>>, <<Off(a, a), On(b, b)>>, <<On(b, a)>>, <<Off(b, a), On(a, a)>>,
   <<On(a, a), Off(b, b)>>}

VARIABLE part

all == <<part, vars, store>>

MCInit ==
  /\ part \in Part /\ Init /\ Store!Init
  /\ part = "store" => file = << >>

InReload(A) == part = "reload" /\ A /\ UNCHANGED <<part, store>>
InStore(A) == part = "store" /\ A /\ UNCHANGED <<part, vars>>

MCNext == InReload(Next) \/ InStore(Store!Next)

MCSpec == MCInit /\ [][MCNext]_all

\* PluginReload's FairSpec.
MCFairSpec ==
  /\ MCSpec
  /\ WF_all(InReload(Loading)) /\ WF_all(InReload(Start))
  /\ WF_all(InReload(FirstLook)) /\ WF_all(InReload(Look))
  /\ WF_all(InReload(Stop)) /\ WF_all(InReload(Exit))
  /\ \A i \in Inst :
       /\ WF_all(InReload(Loop(i)))
       /\ SF_all(InReload(Alive /\ Quit(i)
                            /\ UNCHANGED <<file, mtime, main, loader, modules, running, own, live>>))
===============================================================================
