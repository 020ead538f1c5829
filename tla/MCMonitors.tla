------------------------------ MODULE MCMonitors ------------------------------
(* The monitors of the security plugin, one at a time:                      *)
(*   logins    two sources, two users, a table for one source;              *)
(*   watch     four lines, three of them forged, and a rotation;            *)
(*   baseline  one path with two contents, for each kind of monitor;        *)
(*   scan      three paths, one too deep, a limit of one file and one event;*)
(*   chain     four lines, three openings of the log, two accidents.        *)
EXTENDS Monitors

CONSTANTS s1, s2, u1, u2, p1, c1, c2, Part

MCSource == {s1, s2}
MCUser == {u1, u2}
MCPath == {p1}
MCContent == {c1, c2}

VARIABLE part

all == <<part, vars, watch, taking, scanning, logging>>

MCInit ==
  /\ part \in Part
  /\ Init /\ Watch!Init /\ Base!Init /\ Scan!Init /\ Chain!Init
  \* The settings of the other parts do not matter.
  /\ part # "baseline" => kind = "fim" /\ inDir = {} /\ paths = Path /\ blind = {}
                          /\ content = [p \in Path |-> None]
  /\ part # "watch" => ino = 0

InLogins(A) == part = "logins" /\ A /\ UNCHANGED <<part, watch, taking, scanning, logging>>
InWatch(A) == part = "watch" /\ A /\ UNCHANGED <<part, vars, taking, scanning, logging>>
InBaseline(A) == part = "baseline" /\ A /\ UNCHANGED <<part, vars, watch, scanning, logging>>
InScan(A) == part = "scan" /\ A /\ UNCHANGED <<part, vars, watch, taking, logging>>
InChain(A) == part = "chain" /\ A /\ UNCHANGED <<part, vars, watch, taking, scanning>>

MCNext ==
  \/ InLogins(Next) \/ InWatch(Watch!Next) \/ InBaseline(Base!Next)
  \/ InScan(Scan!Next) \/ InChain(Chain!Next)

MCSpec == MCInit /\ [][MCNext]_all
===============================================================================
