------------------------------- MODULE Accounts -------------------------------
(***************************************************************************)
(* What stands between a browser and an account: the accounts with their   *)
(* sessions (AccountSessions) and, in front of the login, the throttle of  *)
(* failed attempts (LoginLimiter).  The two share no state: an attempt the *)
(* throttle lets in is one of the requests of AccountSessions.             *)
(***************************************************************************)
EXTENDS AccountSessions

CONSTANTS Address, Attempt, max, window, lockout, maxLimiterEntries

VARIABLES attempts, checking, promised, slipped

limiter == <<attempts, checking, promised, slipped>>

Limiter == INSTANCE LoginLimiter

ASSUME LimiterAssumption == Limiter!LimiterBounds

(* LoginLimiter: a lockout is not cut short (ratelimit.go).                 *)
LockoutIsKept == Limiter!LockoutIsKept
===============================================================================
