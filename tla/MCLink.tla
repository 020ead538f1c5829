-------------------------------- MODULE MCLink --------------------------------
(* What connects the agent to the dashboard and the kernel to the agent,    *)
(* one at a time:                                                           *)
(*   runs    manual runs of two plugins, three requests, two connections,   *)
(*           and a guard that ages within one tick;                         *)
(*   events  three security events and a queue for two;                     *)
(*   dirs    a root with one subdirectory and a file in each, one of the    *)
(*           two directories past the limit.                                *)
EXTENDS Link, TLC

CONSTANTS pa, pb, r, d1, f1, f2, c1, Part

MCPlugin == {pa, pb}
MCRoot == r
MCSub == {d1}
MCFile == {f1, f2}
MCdirOf == (f1 :> r) @@ (f2 :> d1)
MCContent == {c1}

VARIABLE part

all == <<part, vars, flow, watch>>

MCInit ==
  /\ part \in Part
  /\ Init /\ Flow!Init /\ Watch!Init
  \* The settings of the other parts do not matter.
  /\ part # "events" => token
  /\ part # "dirs" => feature = "fim"

InRuns(A) == part = "runs" /\ A /\ UNCHANGED <<part, flow, watch>>
InEvents(A) == part = "events" /\ A /\ UNCHANGED <<part, vars, watch>>
InDirs(A) ==
  /\ part = "dirs" /\ A
  \* The SUID watch scans everything each time and gets one fault less.
  /\ feature = "suid" => faults' <= 1
  /\ UNCHANGED <<part, vars, flow>>

MCNext == InRuns(Next) \/ InEvents(Flow!Next) \/ InDirs(Watch!Next)

\* The Fairness of EventFlow and of DirWatch; part never changes, so one condition can
\* stand for both.
MCSpec ==
  /\ MCInit /\ [][MCNext]_all
  /\ WF_all(\/ InEvents(Flow!Dial \/ Flow!Drain \/ Flow!Write \/ Flow!sendStatus)
            \/ InDirs(Watch!Run))
  /\ WF_all(InEvents(Flow!Read) \/ InDirs(Watch!LoopTurn))
  /\ SF_all(InEvents(Flow!sendStatusFails))
===============================================================================
