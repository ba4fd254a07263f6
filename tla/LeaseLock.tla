------------------------------ MODULE LeaseLock ------------------------------
(***************************************************************************)
(* What a caller of JobSchedulerService may rely on, without rows, clocks  *)
(* or statements: one lock for one logical run.  A holder is protected     *)
(* while it works, heartbeats and keeps up; a protected holder loses the   *)
(* lock to nobody, an unprotected one may, and then only to a new token;   *)
(* the run ends once, by the token that holds it.                          *)
(***************************************************************************)
EXTENDS Integers

CONSTANTS Tokens, NoToken

VARIABLES
  holder,     \* the token that holds the lock
  protected,  \* the tokens whose workers rely on holding it
  winner      \* the token whose run succeeded

lockVars == << holder, protected, winner >>

LockInit == holder = NoToken /\ protected = {} /\ winner = NoToken

\* The lock is free or left behind; the taker may or may not keep up.
Take(t) ==
  /\ winner = NoToken
  /\ holder \notin protected /\ holder # t
  /\ holder' = t
  /\ protected' \in SUBSET {t}
  /\ UNCHANGED winner

\* A worker settles, stalls or dies: it no longer relies on the lock.
Unprotect ==
  /\ protected' \in SUBSET protected
  /\ UNCHANGED << holder, winner >>

GiveUp ==
  /\ holder # NoToken /\ protected = {}
  /\ holder' = NoToken
  /\ UNCHANGED << protected, winner >>

Finish ==
  /\ holder # NoToken /\ protected = {}
  /\ winner' = holder
  /\ holder' = NoToken
  /\ UNCHANGED protected

LockNext == (\E t \in Tokens : Take(t)) \/ Unprotect \/ GiveUp \/ Finish

LockSpec == LockInit /\ [][LockNext]_lockVars
=============================================================================
