------------------------------ MODULE MCAccounts ------------------------------
(* The accounts and their sessions: two users, two requests at a time, one  *)
(* session.  Or, as another part, the login throttle: three addresses in a  *)
(* table for two, two attempts at a time.                                   *)
EXTENDS Accounts, TLC

CONSTANTS u1, u2, r1, r2, s1, a1, a2, a3, t1, t2

MCUser == {u1, u2}
MCReq == {r1, r2}
MCSid == {s1}
MCAddress == {a1, a2, a3}
MCAttempt == {t1, t2}

VARIABLE part

MCInit ==
  /\ Init /\ Limiter!Init
  /\ part \in {"accounts", "limiter"}

MCNext ==
  /\ UNCHANGED part
  /\ \/ part = "accounts" /\ Next /\ UNCHANGED limiter
     \/ part = "limiter" /\ Limiter!Next /\ UNCHANGED vars

MCSpec == MCInit /\ [][MCNext]_<<part, vars, limiter>>

Symmetry == Permutations(MCUser) \cup Permutations(MCReq)
===============================================================================
