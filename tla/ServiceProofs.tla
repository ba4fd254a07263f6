--------------------------- MODULE ServiceProofs ---------------------------
(***************************************************************************)
(* Theorems about what the processes of a service share.  JobScheduler,    *)
(* for every set of nodes and tokens and all timing options: LiveOwnerKept *)
(* is not inductive, so IInv adds how old the row can be at each point of  *)
(* a prompt owner's heartbeat cycle, and that a token travels with one     *)
(* call only.  Cache, for any number of nodes, callers, versions and late  *)
(* operations: concurrent misses share one factory per process, and a load *)
(* never answers with what had settled before it was called.               *)
(***************************************************************************)
EXTENDS JobScheduler, Cache, WellFoundedInduction, TLAPS

-----------------------------------------------------------------------------
(* JobScheduler: the inductive invariant.                                  *)


\* A prompt owner's row is at most this old.
AgeBound(n) ==
  /\ pc[n] = "claimed" => timer[n] <= Latency /\ row.age <= timer[n]
  /\ pc[n] = "running" =>
       /\ timer[n] <= HeartbeatMs[n]
       /\ beats[token[n]] = 0 => row.age <= timer[n] + Latency
       /\ beats[token[n]] > 0 => /\ timer[n] <= Latency
                                 /\ row.age <= HeartbeatMs[n] + Latency + timer[n]

\* No two calls in progress share a randomUUID.
TokensUnique ==
  \A n, m \in Nodes : n # m /\ token[n] # NoToken => token[n] # token[m]

\* Until the interval is armed no heartbeat carries the token of a call.
NewCall(n) ==
  /\ pc[n] \in {"insert", "reclaim", "claimed"} => beats[token[n]] = 0
  /\ pc[n] \in {"idle", "insert", "reclaim"} => timer[n] = 0

\* A prompt, heartbeating node owns the row and the row is young enough.
PromptOwner(n) ==
  n \in prompt /\ Holds(n) /\ HeartbeatMs[n] > 0 => Owned(token[n]) /\ AgeBound(n)

\* A node's token is its own and, until acquire has answered, new.
Fresher ==
  /\ TypeOK
  /\ TokensUnique
  /\ \A n \in Nodes : NewCall(n)
  /\ \A n \in Nodes : pc[n] # "idle" => resolveLeaseTiming(n)

\* The inductive invariant behind LiveOwnerKept.
IInv == Fresher /\ \A n \in Nodes : PromptOwner(n)

-----------------------------------------------------------------------------

\* The columns and local variables of JobSchedulerService keep their types
\* and a node carries an owner token exactly during a call.
LEMMA TypeStep == TypeOK /\ [Next]_vars => TypeOK'
<1> SUFFICES ASSUME TypeOK, [Next]_vars PROVE TypeOK'
  OBVIOUS
<1> USE OptionsAssumption DEF TypeOK, Statuses, PCs, Goto, End, Fault, NoFault, Claim
<1>1. ASSUME NEW n \in Nodes, call(n) PROVE TypeOK'
  BY <1>1 DEF call
<1>2. ASSUME NEW n \in Nodes, acquireInsert(n) PROVE TypeOK'
  BY <1>2 DEF acquireInsert
<1>3. ASSUME NEW n \in Nodes, acquireReclaim(n) PROVE TypeOK'
  BY <1>3 DEF acquireReclaim
<1>4. ASSUME NEW n \in Nodes, start(n) PROVE TypeOK'
  BY <1>4 DEF start
<1>5. ASSUME NEW n \in Nodes, fnSettles(n) PROVE TypeOK'
  BY <1>5 DEF fnSettles
<1>6. ASSUME NEW n \in Nodes, complete(n) PROVE TypeOK'
  BY <1>6 DEF complete
<1>7. ASSUME NEW n \in Nodes, fail(n) PROVE TypeOK'
  BY <1>7 DEF fail
<1>8. ASSUME NEW n \in Nodes, fireHeartbeat(n) PROVE TypeOK'
  BY <1>8 DEF fireHeartbeat, Working
<1>9. ASSUME NEW n \in Nodes, stall(n) PROVE TypeOK'
  BY <1>9 DEF stall
<1>10. ASSUME NEW n \in Nodes, crash(n) PROVE TypeOK'
  BY <1>10 DEF crash
<1>11. ASSUME NEW t \in Tokens, heartbeat(t) PROVE TypeOK'
  BY <1>11 DEF heartbeat
<1>12. ASSUME NEW t \in Tokens, heartbeatFails(t) PROVE TypeOK'
  BY <1>12 DEF heartbeatFails
<1>13. ASSUME tick PROVE TypeOK'
  BY <1>13 DEF tick, Saturated
<1>14. CASE UNCHANGED vars
  BY <1>14 DEF vars
<1> QED
  BY <1>1, <1>2, <1>3, <1>4, <1>5, <1>6, <1>7, <1>8, <1>9, <1>10, <1>11,
   <1>12, <1>13, <1>14 DEF Next, Run

\* JobSchedulerService keeps the types of its columns and local variables, and
\* a node carries an owner token exactly during a runExclusive call.
THEOREM TypeCorrect == Spec => []TypeOK
<1>1. Init => TypeOK
  BY OptionsAssumption DEF Init, TypeOK, Statuses, PCs
<1> QED
  BY <1>1, TypeStep, PTL DEF Spec

-----------------------------------------------------------------------------

\* runExclusive's tokens never meet, whatever interleaving of calls, lost
\* answers and crashes.
LEMMA FresherStep == Fresher /\ [Next]_vars => Fresher'
<1> SUFFICES ASSUME Fresher, [Next]_vars PROVE Fresher'
  OBVIOUS
<1>0. TypeOK'
  BY TypeStep DEF Fresher
<1> USE <1>0, OptionsAssumption DEF Fresher, TokensUnique, NewCall, Goto, End, Fault,
    NoFault, Claim, resolveLeaseTiming
<1>1. ASSUME NEW n \in Nodes, call(n) PROVE Fresher'
  BY <1>1 DEF call, Fresh, TypeOK
<1>2. ASSUME NEW n \in Nodes, acquireInsert(n) PROVE Fresher'
  BY <1>2 DEF acquireInsert, TypeOK
<1>3. ASSUME NEW n \in Nodes, acquireReclaim(n) PROVE Fresher'
  BY <1>3 DEF acquireReclaim, TypeOK
<1>4. ASSUME NEW n \in Nodes, start(n) PROVE Fresher'
  BY <1>4 DEF start, TypeOK
<1>5. ASSUME NEW n \in Nodes, fnSettles(n) PROVE Fresher'
  BY <1>5 DEF fnSettles, TypeOK
<1>6. ASSUME NEW n \in Nodes, complete(n) PROVE Fresher'
  BY <1>6 DEF complete, TypeOK
<1>7. ASSUME NEW n \in Nodes, fail(n) PROVE Fresher'
  BY <1>7 DEF fail, TypeOK
<1>8. ASSUME NEW n \in Nodes, fireHeartbeat(n) PROVE Fresher'
  BY <1>8 DEF fireHeartbeat, Working, TypeOK
<1>9. ASSUME NEW n \in Nodes, stall(n) PROVE Fresher'
  BY <1>9 DEF stall, TypeOK
<1>10. ASSUME NEW n \in Nodes, crash(n) PROVE Fresher'
  BY <1>10 DEF crash, TypeOK
<1>11. ASSUME NEW t \in Tokens, heartbeat(t) PROVE Fresher'
  BY <1>11 DEF heartbeat, TypeOK
<1>12. ASSUME NEW t \in Tokens, heartbeatFails(t) PROVE Fresher'
  BY <1>12 DEF heartbeatFails, TypeOK
<1>13. ASSUME tick PROVE Fresher'
  BY <1>13 DEF tick, Working, TypeOK
<1>14. CASE UNCHANGED vars
  BY <1>14 DEF vars, TypeOK
<1> QED
  BY <1>1, <1>2, <1>3, <1>4, <1>5, <1>6, <1>7, <1>8, <1>9, <1>10, <1>11,
     <1>12, <1>13, <1>14 DEF Next, Run

-----------------------------------------------------------------------------

\* A row that a prompt owner heartbeats is never older than the lease that
\* acquire's reclaim UPDATE compares it with.
LEMMA NotReclaimable ==
  ASSUME SoundTiming, IInv, NEW n \in Nodes, NEW m \in Nodes,
         n \in prompt, Holds(n), HeartbeatMs[n] > 0
  PROVE  ~Reclaimable(m)
<1>1. Owned(token[n]) /\ AgeBound(n)
  BY DEF IInv, PromptOwner
<1>2. 2 * HeartbeatMs[n] < LeaseMs[m] /\ 2 * Latency <= HeartbeatMs[n]
  BY DEF IInv, Fresher, Holds, resolveLeaseTiming, SoundTiming
<1>3. row.age <= HeartbeatMs[n] + 2 * Latency
  BY <1>1, OptionsAssumption DEF AgeBound, Holds, IInv, Fresher, TypeOK
<1>4. row.age \in Nat /\ Latency \in Nat /\ LeaseMs[m] \in Nat /\ HeartbeatMs[n] \in Nat
  BY OptionsAssumption DEF IInv, Fresher, TypeOK
<1> QED
  BY <1>1, <1>2, <1>3, <1>4 DEF Reclaimable, Owned

\* Each step of the scheduler keeps a prompt owner's row young and its own.
LEMMA OwnerStep ==
  ASSUME SoundTiming, IInv, [Next]_vars, NEW n \in Nodes
  PROVE  PromptOwner(n)'
<1> SUFFICES ASSUME n \in prompt', Holds(n)', HeartbeatMs[n] > 0
             PROVE  (Owned(token[n]) /\ AgeBound(n))'
  BY DEF PromptOwner
<1>0. TypeOK /\ Fresher' /\ TypeOK'
  BY FresherStep DEF IInv, Fresher
<1>a. HeartbeatMs[n] \in Nat /\ Latency \in Nat /\ 2 * Latency <= HeartbeatMs[n]
  BY OptionsAssumption DEF SoundTiming
<1> DEFINE Before == n \in prompt /\ Holds(n)
<1>b. ASSUME Before PROVE Owned(token[n]) /\ AgeBound(n) /\ \A m \in Nodes : ~Reclaimable(m)
  BY <1>b, NotReclaimable DEF IInv, PromptOwner
<1> USE <1>0, <1>a, OptionsAssumption DEF Goto, End, Fault, NoFault, Claim, Holds, Owned
<1>1. ASSUME NEW m \in Nodes, call(m) PROVE (Owned(token[n]) /\ AgeBound(n))'
  BY <1>1, <1>b DEF call, AgeBound, TypeOK
<1>2. ASSUME NEW m \in Nodes, acquireInsert(m) PROVE (Owned(token[n]) /\ AgeBound(n))'
  BY <1>2, <1>b DEF acquireInsert, AgeBound, TypeOK, IInv, Fresher, NewCall
<1>3. ASSUME NEW m \in Nodes, acquireReclaim(m) PROVE (Owned(token[n]) /\ AgeBound(n))'
  BY <1>3, <1>b DEF acquireReclaim, AgeBound, TypeOK, IInv, Fresher, NewCall
<1>4. ASSUME NEW m \in Nodes, start(m) PROVE (Owned(token[n]) /\ AgeBound(n))'
  BY <1>4, <1>b DEF start, AgeBound, TypeOK, IInv, Fresher, NewCall
<1>5. ASSUME NEW m \in Nodes, fnSettles(m) PROVE (Owned(token[n]) /\ AgeBound(n))'
  BY <1>5, <1>b DEF fnSettles, AgeBound, TypeOK
<1>6. ASSUME NEW m \in Nodes, complete(m) PROVE (Owned(token[n]) /\ AgeBound(n))'
  BY <1>6, <1>b DEF complete, AgeBound, TypeOK, IInv, Fresher, TokensUnique
<1>7. ASSUME NEW m \in Nodes, fail(m) PROVE (Owned(token[n]) /\ AgeBound(n))'
  BY <1>7, <1>b DEF fail, AgeBound, TypeOK, IInv, Fresher, TokensUnique
<1>8. ASSUME NEW m \in Nodes, fireHeartbeat(m) PROVE (Owned(token[n]) /\ AgeBound(n))'
  BY <1>8, <1>b DEF fireHeartbeat, Working, AgeBound, TypeOK, IInv, Fresher, TokensUnique
<1>9. ASSUME NEW m \in Nodes, stall(m) PROVE (Owned(token[n]) /\ AgeBound(n))'
  BY <1>9, <1>b DEF stall, AgeBound, TypeOK
<1>10. ASSUME NEW m \in Nodes, crash(m) PROVE (Owned(token[n]) /\ AgeBound(n))'
  BY <1>10, <1>b DEF crash, AgeBound, TypeOK
<1>11. ASSUME NEW t \in Tokens, heartbeat(t) PROVE (Owned(token[n]) /\ AgeBound(n))'
  BY <1>11, <1>b DEF heartbeat, AgeBound, TypeOK
<1>12. ASSUME NEW t \in Tokens, heartbeatFails(t) PROVE (Owned(token[n]) /\ AgeBound(n))'
  BY <1>12, <1>b DEF heartbeatFails, AgeBound, TypeOK
<1>13. ASSUME tick PROVE (Owned(token[n]) /\ AgeBound(n))'
  BY <1>13, <1>b DEF tick, Saturated, OnTime, Working, AgeBound, TypeOK
<1>14. CASE UNCHANGED vars
  BY <1>14, <1>b DEF vars, AgeBound, TypeOK
<1> QED
  BY <1>1, <1>2, <1>3, <1>4, <1>5, <1>6, <1>7, <1>8, <1>9, <1>10, <1>11,
     <1>12, <1>13, <1>14 DEF Next, Run

\* A live RUNNING row is left to its owner: if all nodes pass the same lease
\* and statements take at most half a heartbeat, acquire's reclaim never takes
\* the row of a prompt node whose fn is still running.
THEOREM LiveOwner == ASSUME SoundTiming PROVE Spec => []LiveOwnerKept
<1>1. Init => IInv
  BY OptionsAssumption DEF Init, IInv, Fresher, TypeOK, Statuses, PCs, TokensUnique,
     NewCall, PromptOwner, Holds
<1>2. IInv /\ [Next]_vars => IInv'
  BY FresherStep, OwnerStep DEF IInv
<1>3. IInv => LiveOwnerKept
  BY DEF IInv, Fresher, TypeOK, PromptOwner, LiveOwnerKept
<1> QED
  BY <1>1, <1>2, <1>3, PTL DEF Spec

-----------------------------------------------------------------------------

\* A step changes a SUCCESS row not at all: the conditional UPDATEs of acquire
\* and mutateOwnedLease never match one.
LEMMA SuccessStep == [Next]_vars => (row.status = "SUCCESS" => row' = row)
<1> SUFFICES ASSUME [Next]_vars, row.status = "SUCCESS" PROVE row' = row
  OBVIOUS
<1>1. ASSUME NEW n \in Nodes, Run(n) PROVE row' = row
  BY <1>1 DEF Run, acquireInsert, acquireReclaim, start, fnSettles, complete, fail,
     Reclaimable, Owned
<1>2. ASSUME NEW n \in Nodes, call(n) \/ fireHeartbeat(n) \/ stall(n) \/ crash(n)
      PROVE row' = row
  BY <1>2 DEF call, fireHeartbeat, stall, crash
<1>3. ASSUME NEW t \in Tokens, heartbeat(t) \/ heartbeatFails(t) PROVE row' = row
  BY <1>3 DEF heartbeat, heartbeatFails, Owned
<1>4. ASSUME tick PROVE row' = row
  BY <1>4 DEF tick
<1>5. CASE UNCHANGED vars
  BY <1>5 DEF vars
<1> QED
  BY <1>1, <1>2, <1>3, <1>4, <1>5 DEF Next

\* Run-once: whatever late heartbeat, completion, failure or reclaim of any
\* node arrives, a run recorded as SUCCESS stays as it is.
THEOREM SuccessFinal == Spec => SuccessIsFinal
<1>1. [Next]_vars => [row.status = "SUCCESS" => row' = row]_vars
  BY SuccessStep
<1> QED
  BY <1>1, PTL DEF Spec, SuccessIsFinal

\* "Database finalization is single-owner": complete() succeeds for at most one
\* token over the whole life of a row, although any number of nodes may have
\* run fn after losing their lease.
THEOREM Winner == Spec => []SingleWinner
<1>1. Init => SingleWinner
  BY DEF Init, SingleWinner
<1>2. TypeOK /\ SingleWinner /\ [Next]_vars => SingleWinner'
  <2> SUFFICES ASSUME TypeOK, SingleWinner, [Next]_vars PROVE SingleWinner'
    OBVIOUS
  <2>1. CASE row.status = "SUCCESS"
    <3>1. row' = row
      BY <2>1, SuccessStep
    <3>2. wins' = wins
      BY <2>1 DEF Next, Run, vars, call, acquireInsert, acquireReclaim, start, fnSettles,
         complete, Owned, fail, fireHeartbeat, stall, crash, heartbeat, heartbeatFails, tick
    <3> QED
      BY <3>1, <3>2 DEF SingleWinner
  <2>2. CASE row.status # "SUCCESS"
    <3>1. wins = {}
      BY <2>2 DEF SingleWinner
    <3>2. ASSUME NEW n \in Nodes, complete(n) PROVE SingleWinner'
      BY <3>1, <3>2 DEF complete, Owned, SingleWinner, TypeOK
    <3>3. CASE ~ \E n \in Nodes : complete(n)
      <4>1. wins' = wins
        BY <3>3 DEF Next, Run, vars, call, acquireInsert, acquireReclaim, start, fnSettles,
           fail, fireHeartbeat, stall, crash, heartbeat, heartbeatFails, tick
      <4> QED
        BY <3>1, <4>1 DEF SingleWinner
    <3> QED
      BY <3>2, <3>3
  <2> QED
    BY <2>1, <2>2
<1> QED
  BY <1>1, <1>2, TypeCorrect, PTL DEF Spec

-----------------------------------------------------------------------------

\* A call that is still acquiring brings a token the row does not carry.
NewToken == \A n \in Nodes : pc[n] \in {"insert", "reclaim"} => token[n] # row.ownerToken

\* acquire's INSERT and UPDATE rotate ownerToken to one the row never had.
LEMMA NewTokenStep == Fresher /\ NewToken /\ [Next]_vars => NewToken'
<1> SUFFICES ASSUME Fresher, NewToken, [Next]_vars, NEW n \in Nodes,
                    pc'[n] \in {"insert", "reclaim"}
             PROVE  token'[n] # row'.ownerToken
  BY DEF NewToken
<1> USE DEF Fresher, TypeOK, NewToken, Goto, End, Claim
<1>1. ASSUME NEW m \in Nodes, call(m) PROVE token'[n] # row'.ownerToken
  BY <1>1 DEF call, Fresh
<1>2. ASSUME NEW m \in Nodes, acquireInsert(m) \/ acquireReclaim(m)
      PROVE  token'[n] # row'.ownerToken
  BY <1>2 DEF acquireInsert, acquireReclaim, TokensUnique
<1>3. ASSUME NEW m \in Nodes,
             start(m) \/ fnSettles(m) \/ complete(m) \/ fail(m) \/ fireHeartbeat(m)
               \/ stall(m) \/ crash(m)
      PROVE  token'[n] # row'.ownerToken
  BY <1>3 DEF start, fnSettles, complete, fail, fireHeartbeat, stall, crash
<1>4. ASSUME NEW t \in Tokens, heartbeat(t) \/ heartbeatFails(t)
      PROVE  token'[n] # row'.ownerToken
  BY <1>4 DEF heartbeat, heartbeatFails
<1>5. CASE tick \/ UNCHANGED vars
  BY <1>5 DEF tick, vars
<1> QED
  BY <1>1, <1>2, <1>3, <1>4, <1>5 DEF Next, Run

\* Every step of the scheduler is a step of the abstract lock or leaves it as
\* it is: claims take a lock nobody relies on, complete() and fail() end it.
LEMMA LockStep ==
  ASSUME SoundTiming, IInv, NewToken, [Next]_vars
  PROVE  [Lock!LockNext]_(Lock!lockVars)
<1> DEFINE hold == IF row.status = "RUNNING" THEN row.ownerToken ELSE NoToken
           prot == {token[n] : n \in {m \in Nodes : Relies(m)}}
           win == IF row.status = "SUCCESS" THEN row.ownerToken ELSE NoToken
<1>0. TypeOK /\ TypeOK' /\ TokensUnique /\ NoToken \notin Tokens
  BY TypeStep, OptionsAssumption DEF IInv, Fresher
<1>a. \A n \in Nodes : Relies(n) => Owned(token[n]) /\ \A m \in Nodes : ~Reclaimable(m)
  BY NotReclaimable DEF Relies, IInv, PromptOwner
<1>b. ASSUME \A n \in Nodes : Relies(n)' => Relies(n) /\ token'[n] = token[n],
             row'.status = row.status, row'.ownerToken = row.ownerToken
      PROVE  Lock!LockNext
  <2>1. prot' \in SUBSET prot
    BY <1>b
  <2> QED
    BY <1>b, <2>1 DEF Lock!LockNext, Lock!Unprotect
<1>c. ASSUME NEW n \in Nodes, pc[n] \in {"insert", "reclaim"}, Claim(n),
             \A m \in Nodes : ~Relies(m), row.status # "SUCCESS",
             token'[n] \in {token[n], NoToken},
             pc'[n] \in {"claimed", "idle"}, prompt' = prompt,
             \A m \in Nodes \ {n} : pc'[m] = pc[m] /\ token'[m] = token[m]
      PROVE  Lock!LockNext
  <2>1. \A m \in Nodes : Relies(m)' => m = n /\ token'[m] = token[n]
    BY <1>c, <1>0 DEF Relies, Holds, TypeOK
  <2>2. prot = {} /\ prot' \in SUBSET {token[n]}
    BY <1>c, <2>1
  <2>3. token[n] \in Tokens /\ hold # token[n]
    BY <1>c, <1>0 DEF TypeOK, NewToken
  <2>4. hold' = token[n] /\ win = NoToken /\ win' = NoToken
    BY <1>c DEF Claim
  <2> QED
    BY <2>2, <2>3, <2>4 DEF Lock!LockNext, Lock!Take
<1>d. ASSUME NEW n \in Nodes, Owned(token[n]), ~Holds(n), pc[n] # "idle", prompt' = prompt,
             row'.ownerToken = row.ownerToken, row'.status \in {"FAIL", "SUCCESS"},
             ~Holds(n)',
             \A m \in Nodes \ {n} : pc'[m] = pc[m] /\ token'[m] = token[m]
      PROVE  Lock!LockNext
  <2>1. \A m \in Nodes : ~Relies(m) /\ ~Relies(m)'
    BY <1>d, <1>a, <1>0 DEF Relies, Holds, Owned, TokensUnique, TypeOK
  <2>2. prot = {} /\ prot' = {}
    BY <2>1
  <2>3. hold # NoToken /\ hold' = NoToken /\ win = NoToken /\ win' \in {NoToken, hold}
    BY <1>d, <1>0 DEF Owned, TypeOK
  <2> QED
    BY <2>2, <2>3 DEF Lock!LockNext, Lock!GiveUp, Lock!Finish
<1> HIDE DEF hold, prot, win
<1> USE <1>0 DEF Goto, End, Relies, Holds, TypeOK
<1>1. ASSUME NEW n \in Nodes, acquireInsert(n) PROVE Lock!LockNext
  <2>1. CASE Claim(n) /\ row.status = "NONE"
    BY <1>1, <2>1, <1>a, <1>c DEF acquireInsert, Owned
  <2>2. CASE ~(Claim(n) /\ row.status = "NONE")
    BY <1>1, <2>2, <1>b DEF acquireInsert
  <2> QED
    BY <2>1, <2>2
<1>2. ASSUME NEW n \in Nodes, acquireReclaim(n) PROVE Lock!LockNext
  <2>1. CASE Claim(n) /\ Reclaimable(n)
    BY <1>2, <2>1, <1>a, <1>c DEF acquireReclaim, Reclaimable
  <2>2. CASE ~(Claim(n) /\ Reclaimable(n))
    BY <1>2, <2>2, <1>b DEF acquireReclaim
  <2> QED
    BY <2>1, <2>2
<1>3. ASSUME NEW n \in Nodes, complete(n) \/ fail(n) PROVE Lock!LockNext
  <2>1. CASE row' = row
    BY <1>3, <2>1, <1>b DEF complete, fail
  <2>2. CASE row' # row
    BY <1>3, <2>2, <1>d DEF complete, fail
  <2> QED
    BY <2>1, <2>2
<1>4. ASSUME NEW n \in Nodes, call(n) \/ start(n) \/ fnSettles(n) PROVE Lock!LockNext
  BY <1>4, <1>b DEF call, start, fnSettles
<1>5. ASSUME NEW n \in Nodes, fireHeartbeat(n) \/ stall(n) \/ crash(n) PROVE Lock!LockNext
  BY <1>5, <1>b DEF fireHeartbeat, stall, crash
<1>6. ASSUME NEW t \in Tokens, heartbeat(t) \/ heartbeatFails(t) PROVE Lock!LockNext
  BY <1>6, <1>b DEF heartbeat, heartbeatFails
<1>7. CASE tick \/ UNCHANGED vars
  BY <1>7, <1>b DEF tick, vars
<1> QED
  BY <1>1, <1>2, <1>3, <1>4, <1>5, <1>6, <1>7 DEF Next, Run

\* runExclusive implements the abstract lock for every number of nodes and all
\* sound timings: an owner that keeps up is never displaced, a takeover rotates
\* the token, and only the holder's complete() or fail() ends a claim.
THEOREM Refinement == ASSUME SoundTiming PROVE Spec => ImplementsLeaseLock
<1>1. Init => IInv /\ NewToken /\ Lock!LockInit
  <2>1. Init => IInv /\ NewToken
    BY OptionsAssumption DEF Init, IInv, Fresher, TypeOK, Statuses, PCs, TokensUnique,
       NewCall, PromptOwner, Holds, NewToken
  <2>2. Init => Lock!LockInit
    BY DEF Init, Lock!LockInit, Relies, Holds
  <2> QED
    BY <2>1, <2>2
<1>2. IInv /\ NewToken /\ [Next]_vars => (IInv /\ NewToken)'
  BY FresherStep, OwnerStep, NewTokenStep DEF IInv
<1>3. IInv /\ NewToken /\ [Next]_vars => [Lock!LockNext]_(Lock!lockVars)
  BY LockStep
<1> QED
  BY <1>1, <1>2, <1>3, PTL DEF Spec, ImplementsLeaseLock, Lock!LockSpec
-----------------------------------------------------------------------------
(* Cache: the inductive invariant.                                         *)

Stages == {"none", "factory", "set", "written"}

Asked == {"none", "asked", "answered"}

Pcs == {"idle", "get", "missed", "load", "returns"}

\* Type invariant.
FlightTypes ==
  /\ source \in Nat
  /\ entry \in [value : Nat, ttl : Nat]
  /\ getFlight \in [Processes -> [stage : Asked, value : Nat]]
  /\ loadFlight \in [Processes -> [stage : Stages, value : Nat]]
  /\ factories \in [Processes -> Nat]
  /\ caller \in [CacheCallers -> [pc : Pcs, floor : Nat, value : Nat]]
  /\ pending \in BOOLEAN
  /\ late \subseteq [op : {"set", "del"}, value : Nat]

\* A flight holds no value before its factory reads the source and always one
\* while it is written back, and somebody waits for it until it settles.
FlightsUsed ==
  \A n \in Processes :
    /\ loadFlight[n].stage = "none" => loadFlight[n].value = Miss
    /\ loadFlight[n].stage \in {"set", "written"} => loadFlight[n].value # Miss
    /\ loadFlight[n].stage # "none" => Waiting(n, "load") # {}

\* No value in sight is older than v.
NotBefore(v) ==
  /\ v <= source
  /\ entry.value = Miss \/ v <= entry.value
  /\ \A n \in Processes : loadFlight[n].value = Miss \/ v <= loadFlight[n].value
  /\ \A o \in late : o.value = Miss \/ v <= o.value

\* Nor is what the pending get of node n read.
ReadNotBefore(n, v) == getFlight[n].value = Miss \/ v <= getFlight[n].value

\* What a caller may still be handed is no older than its call.
FloorsHold ==
  \A c \in CacheCallers :
    caller[c].pc # "idle" => NotBefore(caller[c].floor) /\ ReadNotBefore(NodeOf[c], caller[c].floor)

FlightInv == FlightTypes /\ source # Miss /\ FlightsUsed /\ OneFactory /\ FloorsHold /\ NoOlderThanCall

-----------------------------------------------------------------------------
(* Cache: lemmas about the operators.                                      *)

\* A set of versions has an oldest one (Oldest).
LEMMA OldestIs ==
  ASSUME NEW S \in SUBSET Nat, S # {}
  PROVE  Oldest(S) \in S /\ \A w \in S : Oldest(S) <= w
<1>1. PICK v \in S : \A w \in S : ~ (<< w, v >> \in OpToRel(<, Nat))
  BY WFMin, NatLessThanWellFounded, Zenon
<1>2. \A w \in S : ~ (w < v)
  BY <1>1, Zenon DEF OpToRel
<1>3. \A w \in S : v <= w
  BY <1>2
<1> QED
  BY <1>3 DEF Oldest

\* What a load may return is made of versions, the source among them (Around).
LEMMA AroundIs ==
  ASSUME FlightTypes, NEW p \in Processes
  PROVE  Around(p) \in SUBSET Nat /\ source \in Around(p)
<1>1. source \in Nat /\ entry.value \in Nat /\ getFlight[p].value \in Nat
  BY DEF FlightTypes
<1>2. \A n \in Processes : loadFlight[n].value \in Nat
  BY DEF FlightTypes
<1>3. \A o \in late : o.value \in Nat
  BY DEF FlightTypes
<1> QED
  BY <1>1, <1>2, <1>3 DEF Around

\* The floor of a new call is not before anything in sight (load).
LEMMA FloorOfCall ==
  ASSUME FlightTypes, FlightsUsed, NEW p \in Processes
  PROVE  /\ Oldest(Around(p)) \in Nat
         /\ NotBefore(Oldest(Around(p)))
         /\ ReadNotBefore(p, Oldest(Around(p)))
<1>1. Around(p) \in SUBSET Nat /\ source \in Around(p)
  BY AroundIs
<1>2. Oldest(Around(p)) \in Around(p) /\ \A w \in Around(p) : Oldest(Around(p)) <= w
  BY <1>1, OldestIs
<1>3. PICK m : m = Oldest(Around(p))
  OBVIOUS
<1>4. m \in Nat /\ \A w \in Around(p) : m <= w
  BY <1>1, <1>2, <1>3
<1>5. m <= source
  BY <1>1, <1>4
<1>6. entry.value = Miss \/ m <= entry.value
  BY <1>4 DEF Around
<1>7. ASSUME NEW n \in Processes PROVE loadFlight[n].value = Miss \/ m <= loadFlight[n].value
  <2>1. loadFlight[n].value # Miss => Waiting(n, "load") # {}
    BY DEF FlightsUsed
  <2>2. loadFlight[n].value # Miss => loadFlight[n].value \in Around(p)
    BY <2>1 DEF Around
  <2> QED
    BY <2>2, <1>4
<1>8. \A o \in late : o.value = Miss \/ m <= o.value
  BY <1>4 DEF Around
<1>9. getFlight[p].value = Miss \/ m <= getFlight[p].value
  BY <1>4 DEF Around
<1> QED
  BY <1>3, <1>4, <1>5, <1>6, <1>7, <1>8, <1>9 DEF NotBefore, ReadNotBefore

\* Everyone who waited gets the value, the others are left alone (Resume).
LEMMA ResumeIs ==
  ASSUME FlightTypes, NEW n \in Processes, NEW s \in {"get", "load"}, NEW v \in Nat,
         caller' = Resume(n, s, v)
  PROVE  /\ caller' \in [CacheCallers -> [pc : Pcs, floor : Nat, value : Nat]]
         /\ \A c \in CacheCallers :
              \/ c \notin Waiting(n, s) /\ caller'[c] = caller[c]
              \/ /\ c \in Waiting(n, s)
                 /\ caller'[c].pc = IF v = Miss THEN "missed" ELSE "returns"
                 /\ caller'[c].value = v
                 /\ caller'[c].floor = caller[c].floor
<1>1. caller \in [CacheCallers -> [pc : Pcs, floor : Nat, value : Nat]]
  BY DEF FlightTypes
<1>2. caller' = [c \in CacheCallers |->
          IF c \notin Waiting(n, s) THEN caller[c]
          ELSE [caller[c] EXCEPT !.pc = IF v = Miss THEN "missed" ELSE "returns", !.value = v]]
  BY DEF Resume
<1>3. ASSUME NEW c \in CacheCallers
      PROVE  /\ caller'[c] \in [pc : Pcs, floor : Nat, value : Nat]
             /\ \/ c \notin Waiting(n, s) /\ caller'[c] = caller[c]
                \/ /\ c \in Waiting(n, s)
                   /\ caller'[c].pc = IF v = Miss THEN "missed" ELSE "returns"
                   /\ caller'[c].value = v
                   /\ caller'[c].floor = caller[c].floor
  <2>1. caller[c] \in [pc : Pcs, floor : Nat, value : Nat]
    BY <1>1
  <2>2. CASE c \notin Waiting(n, s)
    BY <1>2, <2>1, <2>2
  <2>3. CASE c \in Waiting(n, s)
    <3>1. caller'[c] = [caller[c] EXCEPT !.pc = IF v = Miss THEN "missed" ELSE "returns", !.value = v]
      BY <1>2, <2>3
    <3> QED
      BY <2>1, <2>3, <3>1 DEF Pcs
  <2> QED
    BY <2>2, <2>3
<1>4. caller' \in [CacheCallers -> [pc : Pcs, floor : Nat, value : Nat]]
  BY <1>2, <1>3
<1> QED
  BY <1>3, <1>4

\* A flight without a value rejects everyone who waited, or answers undefined
\* (factoryThrows, factoryUndefined).
LEMMA EmptyIs ==
  ASSUME FlightTypes, NEW n \in Processes, factoryThrows(n) \/ factoryUndefined(n)
  PROVE  /\ caller' \in [CacheCallers -> [pc : Pcs, floor : Nat, value : Nat]]
         /\ \A c \in CacheCallers :
              \/ c \notin Waiting(n, "load") /\ caller'[c] = caller[c]
              \/ c \in Waiting(n, "load") /\ caller'[c].pc = "idle"
              \/ /\ c \in Waiting(n, "load") /\ caller'[c].pc = "returns"
                 /\ caller'[c].value = Miss /\ caller'[c].floor = caller[c].floor
         /\ loadFlight[n].stage = "factory" /\ loadFlight' = [loadFlight EXCEPT ![n] = NoFlight]
         /\ factories' = [factories EXCEPT ![n] = @ - 1]
         /\ UNCHANGED << source, entry, getFlight, pending, late >>
<1>1. caller \in [CacheCallers -> [pc : Pcs, floor : Nat, value : Nat]]
  BY DEF FlightTypes
<1>2. /\ loadFlight[n].stage = "factory" /\ loadFlight' = [loadFlight EXCEPT ![n] = NoFlight]
      /\ factories' = [factories EXCEPT ![n] = @ - 1]
      /\ UNCHANGED << source, entry, getFlight, pending, late >>
  BY DEF factoryThrows, factoryUndefined, Settled
<1>3. CASE factoryThrows(n)
  <2>1. caller' = [c \in CacheCallers |-> IF c \in Waiting(n, "load") THEN NoCall ELSE caller[c]]
    BY <1>3 DEF factoryThrows
  <2>2. NoCall \in [pc : Pcs, floor : Nat, value : Nat] /\ NoCall.pc = "idle"
    BY DEF NoCall, Pcs
  <2> QED
    BY <1>1, <1>2, <2>1, <2>2
<1>4. CASE factoryUndefined(n)
  <2>1. caller' = [c \in CacheCallers |->
             IF c \in Waiting(n, "load") THEN [caller[c] EXCEPT !.pc = "returns", !.value = Miss] ELSE caller[c]]
    BY <1>4 DEF factoryUndefined
  <2>2. ASSUME NEW c \in CacheCallers
        PROVE  /\ [caller[c] EXCEPT !.pc = "returns", !.value = Miss] \in [pc : Pcs, floor : Nat, value : Nat]
               /\ [caller[c] EXCEPT !.pc = "returns", !.value = Miss].pc = "returns"
               /\ [caller[c] EXCEPT !.pc = "returns", !.value = Miss].value = Miss
               /\ [caller[c] EXCEPT !.pc = "returns", !.value = Miss].floor = caller[c].floor
    <3>1. caller[c] \in [pc : Pcs, floor : Nat, value : Nat]
      BY <1>1
    <3> QED
      BY <3>1 DEF Pcs, Miss
  <2> QED
    BY <1>1, <1>2, <2>1, <2>2
<1> QED
  BY <1>3, <1>4
-----------------------------------------------------------------------------
(* One lemma per part of the invariant, one step per action.               *)

\* Cached entries and the missing one.
LEMMA EntryIs ==
  ASSUME CacheConstants, NEW v \in Nat
  PROVE  /\ EntryOf(v) \in [value : Nat, ttl : Nat] /\ EntryOf(v).value = v
         /\ NoEntry \in [value : Nat, ttl : Nat] /\ NoEntry.value = Miss
BY DEF CacheConstants, EntryOf, NoEntry, Miss

\* Every step keeps the types.
LEMMA FlightTypeStep ==
  ASSUME CacheConstants, FlightInv, CacheNext
  PROVE  FlightTypes'
<1> USE DEF Miss
<1>0. FlightTypes /\ FlightsUsed /\ OneFactory
  BY DEF FlightInv
<1>1. /\ source \in Nat /\ entry \in [value : Nat, ttl : Nat] /\ getFlight \in [Processes -> [stage : Asked, value : Nat]]
      /\ loadFlight \in [Processes -> [stage : Stages, value : Nat]] /\ factories \in [Processes -> Nat]
      /\ caller \in [CacheCallers -> [pc : Pcs, floor : Nat, value : Nat]]
      /\ pending \in BOOLEAN /\ late \subseteq [op : {"set", "del"}, value : Nat]
  BY <1>0 DEF FlightTypes
<1>2. ASSUME NEW n \in Processes
      PROVE  /\ loadFlight[n] \in [stage : Stages, value : Nat] /\ loadFlight[n].value \in Nat
             /\ loadFlight[n].stage = "factory" => factories[n] = 1
  BY <1>0, <1>1 DEF OneFactory
<1>3. NodeOf \in [CacheCallers -> Processes]
  BY DEF CacheConstants
<1>4. NoFlight \in [stage : Stages, value : Nat] /\ NoFlight \in [stage : Asked, value : Nat] /\ NoCall \in [pc : Pcs, floor : Nat, value : Nat]
  BY DEF NoFlight, Stages, Asked, NoCall, Pcs
<1>5. ASSUME NEW c \in CacheCallers, load(c) PROVE FlightTypes'
  <2>1. PICK m : m = Oldest(Around(NodeOf[c]))
    OBVIOUS
  <2>2. m \in Nat
    BY <1>0, <1>3, <2>1, FloorOfCall
  <2>3. [NoCall EXCEPT !.pc = "get", !.floor = m] \in [pc : Pcs, floor : Nat, value : Nat]
    BY <2>2 DEF NoCall, Pcs
  <2>4. caller' = [caller EXCEPT ![c] = [NoCall EXCEPT !.pc = "get", !.floor = m]]
    BY <1>5, <2>1 DEF load
  <2>5. caller' \in [CacheCallers -> [pc : Pcs, floor : Nat, value : Nat]]
    BY <1>1, <2>3, <2>4
  <2>6. getFlight' \in [Processes -> [stage : Asked, value : Nat]]
    <3>1. [stage |-> "asked", value |-> Miss] \in [stage : Asked, value : Nat]
      BY DEF Asked
    <3> QED
      BY <1>1, <1>3, <1>5, <3>1 DEF load
  <2> QED
    BY <1>1, <1>5, <2>5, <2>6 DEF load, FlightTypes
<1>6. ASSUME NEW c \in CacheCallers, runFactory(c) PROVE FlightTypes'
  <2>1. caller' \in [CacheCallers -> [pc : Pcs, floor : Nat, value : Nat]]
    <3>1. [caller[c] EXCEPT !.pc = "load"] \in [pc : Pcs, floor : Nat, value : Nat]
      BY <1>1 DEF Pcs
    <3> QED
      BY <1>1, <1>6, <3>1 DEF runFactory
  <2>2. loadFlight' \in [Processes -> [stage : Stages, value : Nat]]
    <3>1. [stage |-> "factory", value |-> Miss] \in [stage : Stages, value : Nat]
      BY DEF Stages
    <3> QED
      BY <1>1, <1>3, <1>6, <3>1 DEF runFactory
  <2>3. factories' \in [Processes -> Nat]
    BY <1>1, <1>3, <1>6 DEF runFactory
  <2> QED
    BY <1>1, <1>6, <2>1, <2>2, <2>3 DEF runFactory, FlightTypes
<1>7. ASSUME NEW c \in CacheCallers, return(c) PROVE FlightTypes'
  BY <1>1, <1>4, <1>7 DEF return, FlightTypes
<1>8. ASSUME NEW n \in Processes, get(n) \/ getTimeout(n) PROVE FlightTypes'
  <2>1. PICK v \in Nat : caller' = Resume(n, "get", v)
    BY <1>1, <1>8 DEF get, getTimeout
  <2>2. caller' \in [CacheCallers -> [pc : Pcs, floor : Nat, value : Nat]]
    BY <1>0, <2>1, ResumeIs
  <2>3. getFlight' \in [Processes -> [stage : Asked, value : Nat]]
    BY <1>1, <1>4, <1>8 DEF get, getTimeout
  <2> QED
    BY <1>1, <1>8, <2>2, <2>3 DEF get, getTimeout, FlightTypes
<1>9. ASSUME NEW n \in Processes, factoryReads(n) PROVE FlightTypes'
  <2>1. [loadFlight[n] EXCEPT !.value = source] \in [stage : Stages, value : Nat]
    BY <1>1, <1>2
  <2> QED
    BY <1>1, <1>9, <2>1 DEF factoryReads, FlightTypes
<1>10. ASSUME NEW n \in Processes, factoryAnswers(n) PROVE FlightTypes'
  <2>1. [loadFlight[n] EXCEPT !.stage = "set"] \in [stage : Stages, value : Nat]
    BY <1>2 DEF Stages
  <2>2. factories' \in [Processes -> Nat]
    BY <1>1, <1>2, <1>10 DEF factoryAnswers
  <2> QED
    BY <1>1, <1>10, <2>1, <2>2 DEF factoryAnswers, FlightTypes
<1>11. ASSUME NEW n \in Processes, factoryThrows(n) \/ factoryUndefined(n) PROVE FlightTypes'
  <2>0. /\ loadFlight[n].stage = "factory" /\ factories' = [factories EXCEPT ![n] = @ - 1]
        /\ loadFlight' = [loadFlight EXCEPT ![n] = NoFlight]
        /\ UNCHANGED << source, entry, getFlight, pending, late >>
    BY <1>0, <1>11, EmptyIs
  <2>1. factories' \in [Processes -> Nat]
    BY <1>1, <1>2, <2>0
  <2>2. loadFlight' \in [Processes -> [stage : Stages, value : Nat]]
    BY <1>1, <1>4, <2>0
  <2>4. caller' \in [CacheCallers -> [pc : Pcs, floor : Nat, value : Nat]]
    BY <1>0, <1>11, EmptyIs
  <2> QED
    BY <1>1, <2>0, <2>1, <2>2, <2>4 DEF FlightTypes
<1>12. ASSUME NEW n \in Processes, set(n) \/ setTimeout(n) PROVE FlightTypes'
  <2>1. PICK v \in Nat : v = loadFlight[n].value
    BY <1>2
  <2>2. caller' = Resume(n, "load", v)
    BY <1>12, <2>1 DEF set, setTimeout
  <2>3. caller' \in [CacheCallers -> [pc : Pcs, floor : Nat, value : Nat]]
    BY <1>0, <2>2, ResumeIs
  <2>4. loadFlight' \in [Processes -> [stage : Stages, value : Nat]]
    BY <1>1, <1>4, <1>12 DEF set, setTimeout, Settled
  <2>5. late' \subseteq [op : {"set", "del"}, value : Nat]
    BY <1>1, <1>12, <2>1 DEF set, setTimeout, Late
  <2> QED
    BY <1>1, <1>12, <2>3, <2>4, <2>5 DEF set, setTimeout, FlightTypes
<1>17. ASSUME NEW n \in Processes, setWrites(n) PROVE FlightTypes'
  <2>1. [loadFlight[n] EXCEPT !.stage = "written"] \in [stage : Stages, value : Nat]
    BY <1>2 DEF Stages
  <2>2. entry' \in [value : Nat, ttl : Nat]
    BY <1>2, <1>17, EntryIs DEF setWrites
  <2> QED
    BY <1>1, <1>17, <2>1, <2>2 DEF setWrites, FlightTypes
<1>18. ASSUME NEW n \in Processes, getReads(n) PROVE FlightTypes'
  <2>1. [stage |-> "answered", value |-> entry.value] \in [stage : Asked, value : Nat]
    BY <1>1 DEF Asked
  <2> QED
    BY <1>1, <1>18, <2>1 DEF getReads, FlightTypes
<1>13. CASE writeBack
  BY <1>1, <1>13 DEF writeBack, FlightTypes
<1>14. CASE del
  <2>1. entry' \in [value : Nat, ttl : Nat]
    BY <1>1, <1>14, EntryIs DEF del
  <2>2. late' \subseteq [op : {"set", "del"}, value : Nat]
    BY <1>1, <1>14 DEF del, Late
  <2> QED
    BY <1>1, <1>14, <2>1, <2>2 DEF del, FlightTypes
<1>15. ASSUME NEW o \in late, lateOperation(o) PROVE FlightTypes'
  <2>1. o.value \in Nat
    BY <1>1
  <2>2. entry' \in [value : Nat, ttl : Nat]
    BY <1>1, <1>15, <2>1, EntryIs DEF lateOperation
  <2> QED
    BY <1>1, <1>15, <2>2 DEF lateOperation, FlightTypes
<1>16. CASE cacheTick
  <2>1. entry.ttl # 1 => [entry EXCEPT !.ttl = @ - 1] \in [value : Nat, ttl : Nat]
    BY <1>1, <1>16 DEF cacheTick
  <2>2. entry' \in [value : Nat, ttl : Nat]
    BY <1>16, <2>1, EntryIs DEF cacheTick
  <2> QED
    BY <1>1, <1>16, <2>2 DEF cacheTick, FlightTypes
<1> QED
  BY <1>5, <1>6, <1>7, <1>8, <1>9, <1>10, <1>11, <1>12, <1>13, <1>14, <1>15, <1>16, <1>17, <1>18
     DEF CacheNext, Node, lateOperations

\* Nothing in sight gets older: the source moves on, and every value that is
\* cached, read or delayed comes from one that was in sight (factoryReads, set,
\* lateOperation).
LEMMA NotOlder ==
  ASSUME CacheConstants, FlightInv, CacheNext, NEW v \in Nat, NotBefore(v)
  PROVE  NotBefore(v)'
<1> USE DEF Miss
<1>0. FlightTypes /\ FlightsUsed
  BY DEF FlightInv
<1>1. /\ source \in Nat /\ entry \in [value : Nat, ttl : Nat]
      /\ loadFlight \in [Processes -> [stage : Stages, value : Nat]]
      /\ late \subseteq [op : {"set", "del"}, value : Nat]
  BY <1>0 DEF FlightTypes
<1>2. /\ v <= source
      /\ entry.value = Miss \/ v <= entry.value
      /\ \A n \in Processes : loadFlight[n].value = Miss \/ v <= loadFlight[n].value
      /\ \A o \in late : o.value = Miss \/ v <= o.value
  BY DEF NotBefore
<1>3. CASE UNCHANGED << source, entry, loadFlight, late >>
  BY <1>2, <1>3 DEF NotBefore
<1>4. ASSUME NEW c \in CacheCallers, runFactory(c) PROVE NotBefore(v)'
  <2>1. NodeOf[c] \in Processes
    BY DEF CacheConstants
  <2>2. \A n \in Processes : loadFlight'[n].value = Miss \/ v <= loadFlight'[n].value
    BY <1>1, <1>2, <1>4, <2>1 DEF runFactory
  <2> QED
    BY <1>2, <1>4, <2>2 DEF runFactory, NotBefore
<1>5. ASSUME NEW n \in Processes, factoryReads(n) PROVE NotBefore(v)'
  <2>1. \A m \in Processes : loadFlight'[m].value = Miss \/ v <= loadFlight'[m].value
    BY <1>1, <1>2, <1>5 DEF factoryReads
  <2> QED
    BY <1>2, <1>5, <2>1 DEF factoryReads, NotBefore
<1>6. ASSUME NEW n \in Processes, factoryAnswers(n) PROVE NotBefore(v)'
  <2>1. \A m \in Processes : loadFlight'[m].value = Miss \/ v <= loadFlight'[m].value
    BY <1>1, <1>2, <1>6 DEF factoryAnswers
  <2> QED
    BY <1>2, <1>6, <2>1 DEF factoryAnswers, NotBefore
<1>7. ASSUME NEW n \in Processes, factoryThrows(n) \/ factoryUndefined(n) PROVE NotBefore(v)'
  <2>1. /\ loadFlight' = [loadFlight EXCEPT ![n] = NoFlight]
        /\ UNCHANGED << source, entry, late >>
    BY <1>0, <1>7, EmptyIs
  <2>2. \A m \in Processes : loadFlight'[m].value = Miss \/ v <= loadFlight'[m].value
    BY <1>1, <1>2, <2>1 DEF NoFlight
  <2> QED
    BY <1>2, <2>1, <2>2 DEF NotBefore
<1>8. ASSUME NEW n \in Processes, setWrites(n) \/ set(n) \/ setTimeout(n) PROVE NotBefore(v)'
  <2>1. PICK w \in Nat : w = loadFlight[n].value
    BY <1>1
  <2>2. w = Miss \/ v <= w
    BY <1>2, <2>1
  <2>3. \A m \in Processes : loadFlight'[m].value = Miss \/ v <= loadFlight'[m].value
    BY <1>1, <1>2, <1>8 DEF setWrites, set, setTimeout, Settled, NoFlight
  <2>4. entry'.value = Miss \/ v <= entry'.value
    BY <1>2, <1>8, <2>1, <2>2, EntryIs DEF setWrites, set, setTimeout
  <2>5. \A o \in late' : o.value = Miss \/ v <= o.value
    BY <1>2, <1>8, <2>1, <2>2 DEF setWrites, set, setTimeout, Late
  <2>6. source' = source
    BY <1>8 DEF setWrites, set, setTimeout
  <2> QED
    BY <1>2, <2>3, <2>4, <2>5, <2>6 DEF NotBefore
<1>9. CASE writeBack
  BY <1>1, <1>2, <1>9 DEF writeBack, NotBefore
<1>10. CASE del
  <2>1. entry'.value = Miss \/ v <= entry'.value
    BY <1>2, <1>10, EntryIs DEF del
  <2>2. \A o \in late' : o.value = Miss \/ v <= o.value
    BY <1>2, <1>10 DEF del, Late
  <2> QED
    BY <1>2, <1>10, <2>1, <2>2 DEF del, NotBefore
<1>11. ASSUME NEW o \in late, lateOperation(o) PROVE NotBefore(v)'
  <2>1. o.value \in Nat /\ (o.value = Miss \/ v <= o.value)
    BY <1>1, <1>2
  <2>2. entry'.value = Miss \/ v <= entry'.value
    BY <1>2, <1>11, <2>1, EntryIs DEF lateOperation
  <2> QED
    BY <1>2, <1>11, <2>2 DEF lateOperation, NotBefore
<1>12. CASE cacheTick
  <2>1. entry'.value = Miss \/ v <= entry'.value
    BY <1>1, <1>2, <1>12, EntryIs DEF cacheTick
  <2> QED
    BY <1>2, <1>12, <2>1 DEF cacheTick, NotBefore
<1> QED
  BY <1>3, <1>4, <1>5, <1>6, <1>7, <1>8, <1>9, <1>10, <1>11, <1>12
     DEF CacheNext, Node, lateOperations, load, return, getReads, get, getTimeout

\* Nor does what a pending get read: a get reads the entry, and the caller that
\* starts one finds nothing read (getReads, load).
LEMMA ReadNotOlder ==
  ASSUME CacheConstants, FlightInv, CacheNext, NEW p \in Processes, NEW v \in Nat,
         NotBefore(v), ReadNotBefore(p, v)
  PROVE  ReadNotBefore(p, v)'
<1> USE DEF Miss
<1>1. getFlight \in [Processes -> [stage : Asked, value : Nat]] /\ NodeOf \in [CacheCallers -> Processes]
  BY DEF FlightInv, FlightTypes, CacheConstants
<1>2. getFlight[p].value = Miss \/ v <= getFlight[p].value
  BY DEF ReadNotBefore
<1>3. entry.value = Miss \/ v <= entry.value
  BY DEF NotBefore
<1>4. CASE UNCHANGED getFlight
  BY <1>2, <1>4 DEF ReadNotBefore
<1>5. ASSUME NEW c \in CacheCallers, load(c) PROVE ReadNotBefore(p, v)'
  BY <1>1, <1>2, <1>5 DEF load, ReadNotBefore
<1>6. ASSUME NEW n \in Processes, getReads(n) PROVE ReadNotBefore(p, v)'
  BY <1>1, <1>2, <1>3, <1>6 DEF getReads, ReadNotBefore
<1>7. ASSUME NEW n \in Processes, get(n) \/ getTimeout(n) PROVE ReadNotBefore(p, v)'
  BY <1>1, <1>2, <1>7 DEF get, getTimeout, NoFlight, ReadNotBefore
<1> QED
  BY <1>4, <1>5, <1>6, <1>7
     DEF CacheNext, Node, lateOperations, runFactory, return, factoryReads, factoryAnswers, factoryThrows, factoryUndefined, setWrites,
         set, setTimeout, writeBack, del, lateOperation, cacheTick

\* Flights have waiters, one factory each, and settle with a value; a pending
\* get has its flight (runFactory, factoryThrows, Settled).
LEMMA FlightsStep ==
  ASSUME CacheConstants, FlightInv, CacheNext
  PROVE  FlightsUsed' /\ OneFactory'
<1> USE DEF Miss
<1>0. FlightTypes /\ FlightsUsed /\ OneFactory /\ source # Miss
  BY DEF FlightInv
<1>1. /\ source \in Nat /\ entry \in [value : Nat, ttl : Nat] /\ getFlight \in [Processes -> [stage : Asked, value : Nat]]
      /\ loadFlight \in [Processes -> [stage : Stages, value : Nat]] /\ factories \in [Processes -> Nat]
      /\ caller \in [CacheCallers -> [pc : Pcs, floor : Nat, value : Nat]]
  BY <1>0 DEF FlightTypes
<1>2. \A n \in Processes :
        /\ loadFlight[n].stage = "none" => loadFlight[n].value = Miss
        /\ loadFlight[n].stage \in {"set", "written"} => loadFlight[n].value # Miss
        /\ loadFlight[n].stage # "none" => \E c \in CacheCallers : NodeOf[c] = n /\ caller[c].pc = "load"
        /\ factories[n] = IF loadFlight[n].stage = "factory" THEN 1 ELSE 0
        /\ \A c \in CacheCallers : NodeOf[c] = n /\ caller[c].pc = "load" => loadFlight[n].stage # "none"
        /\ \A c \in CacheCallers : NodeOf[c] = n /\ caller[c].pc = "get" => getFlight[n].stage # "none"
  BY <1>0 DEF FlightsUsed, OneFactory, Waiting
<1> DEFINE Kept(n) ==
        /\ loadFlight'[n].stage = "none" => loadFlight'[n].value = Miss
        /\ loadFlight'[n].stage \in {"set", "written"} => loadFlight'[n].value # Miss
        /\ loadFlight'[n].stage # "none" => \E c \in CacheCallers : NodeOf[c] = n /\ caller'[c].pc = "load"
        /\ factories'[n] = IF loadFlight'[n].stage = "factory" THEN 1 ELSE 0
        /\ \A c \in CacheCallers : NodeOf[c] = n /\ caller'[c].pc = "load" => loadFlight'[n].stage # "none"
        /\ \A c \in CacheCallers : NodeOf[c] = n /\ caller'[c].pc = "get" => getFlight'[n].stage # "none"
<1>3. SUFFICES \A n \in Processes : Kept(n)
  BY DEF FlightsUsed, OneFactory, Waiting
<1>4. NodeOf \in [CacheCallers -> Processes]
  BY DEF CacheConstants
<1> TAKE n \in Processes
<1>5. CASE UNCHANGED << getFlight, loadFlight, factories, caller >>
  BY <1>2, <1>5
<1>6. ASSUME NEW c \in CacheCallers, load(c) PROVE Kept(n)
  BY <1>1, <1>2, <1>4, <1>6 DEF load, NoCall
<1>7. ASSUME NEW c \in CacheCallers, runFactory(c) PROVE Kept(n)
  BY <1>1, <1>2, <1>4, <1>7 DEF runFactory
<1>8. ASSUME NEW c \in CacheCallers, return(c) PROVE Kept(n)
  BY <1>1, <1>2, <1>4, <1>8 DEF return, NoCall
<1>9. ASSUME NEW m \in Processes, get(m) \/ getTimeout(m) PROVE Kept(n)
  <2>1. PICK v \in Nat : caller' = Resume(m, "get", v)
    BY <1>1, <1>9 DEF get, getTimeout
  <2>2. \A c \in CacheCallers :
           \/ ~ (NodeOf[c] = m /\ caller[c].pc = "get") /\ caller'[c] = caller[c]
           \/ NodeOf[c] = m /\ caller[c].pc = "get" /\ caller'[c].pc \in {"missed", "returns"}
    BY <1>0, <2>1, ResumeIs DEF Waiting
  <2>3. \A c \in CacheCallers :
           /\ caller'[c].pc = "load" <=> caller[c].pc = "load"
           /\ caller'[c].pc = "get" => caller[c].pc = "get" /\ NodeOf[c] # m
    BY <2>2
  <2>4. /\ loadFlight' = loadFlight /\ factories' = factories
        /\ getFlight' = [getFlight EXCEPT ![m] = NoFlight]
    BY <1>9 DEF get, getTimeout
  <2> QED
    BY <1>1, <1>2, <2>3, <2>4 DEF NoFlight
<1>10. ASSUME NEW m \in Processes, factoryReads(m) PROVE Kept(n)
  BY <1>0, <1>1, <1>2, <1>10 DEF factoryReads
<1>11. ASSUME NEW m \in Processes, factoryAnswers(m) PROVE Kept(n)
  BY <1>1, <1>2, <1>11 DEF factoryAnswers
<1>12. ASSUME NEW m \in Processes, factoryThrows(m) \/ factoryUndefined(m) PROVE Kept(n)
  <2>1. \A c \in CacheCallers :
           \/ ~ (NodeOf[c] = m /\ caller[c].pc = "load") /\ caller'[c] = caller[c]
           \/ NodeOf[c] = m /\ caller[c].pc = "load" /\ caller'[c].pc \in {"idle", "returns"}
    BY <1>0, <1>12, EmptyIs DEF Waiting
  <2>2. \A c \in CacheCallers :
           /\ caller'[c].pc = "load" <=> caller[c].pc = "load" /\ NodeOf[c] # m
           /\ caller'[c].pc = "get" => caller[c].pc = "get"
    BY <2>1
  <2>3. /\ loadFlight[m].stage = "factory" /\ factories' = [factories EXCEPT ![m] = @ - 1] /\ getFlight' = getFlight
        /\ loadFlight' = [loadFlight EXCEPT ![m] = NoFlight]
    BY <1>0, <1>12, EmptyIs
  <2>4. CASE n = m
    BY <1>1, <1>2, <2>2, <2>3, <2>4 DEF NoFlight
  <2>5. CASE n # m
    BY <1>1, <1>2, <2>2, <2>3, <2>5
  <2> QED
    BY <2>4, <2>5
<1>14. ASSUME NEW m \in Processes, getReads(m) PROVE Kept(n)
  BY <1>1, <1>2, <1>14 DEF getReads
<1>15. ASSUME NEW m \in Processes, setWrites(m) PROVE Kept(n)
  BY <1>1, <1>2, <1>15 DEF setWrites
<1>13. ASSUME NEW m \in Processes, set(m) \/ setTimeout(m) PROVE Kept(n)
  <2>1. PICK v \in Nat : v = loadFlight[m].value
    BY <1>1
  <2>2. caller' = Resume(m, "load", v)
    BY <1>13, <2>1 DEF set, setTimeout
  <2>3. \A c \in CacheCallers :
           \/ ~ (NodeOf[c] = m /\ caller[c].pc = "load") /\ caller'[c] = caller[c]
           \/ NodeOf[c] = m /\ caller[c].pc = "load" /\ caller'[c].pc \in {"missed", "returns"}
    BY <1>0, <2>2, ResumeIs DEF Waiting
  <2>4. \A c \in CacheCallers :
           /\ caller'[c].pc = "load" <=> caller[c].pc = "load" /\ NodeOf[c] # m
           /\ caller'[c].pc = "get" => caller[c].pc = "get"
    BY <2>3
  <2>5. /\ loadFlight[m].stage \in {"set", "written"} /\ factories' = factories /\ getFlight' = getFlight
        /\ loadFlight' = [loadFlight EXCEPT ![m] = NoFlight]
    BY <1>13 DEF set, setTimeout, Settled
  <2>6. CASE n = m
    BY <1>1, <1>2, <2>4, <2>5, <2>6 DEF NoFlight
  <2>7. CASE n # m
    BY <1>1, <1>2, <2>4, <2>5, <2>7
  <2> QED
    BY <2>6, <2>7
<1> QED
  BY <1>5, <1>6, <1>7, <1>8, <1>9, <1>10, <1>11, <1>12, <1>13, <1>14, <1>15
     DEF CacheNext, Node, lateOperations, writeBack, del, lateOperation, cacheTick

\* A call keeps its floor until it is over, and is handed nothing older
\* (Resume): a value that a flight hands out was in sight all along.
LEMMA CallStep ==
  ASSUME CacheConstants, FlightInv, CacheNext
  PROVE  FloorsHold' /\ NoOlderThanCall'
<1> USE DEF Miss
<1>0. FlightTypes /\ FlightsUsed /\ FloorsHold /\ NoOlderThanCall
  BY DEF FlightInv
<1>1. /\ source \in Nat /\ entry \in [value : Nat, ttl : Nat]
      /\ getFlight \in [Processes -> [stage : Asked, value : Nat]]
      /\ loadFlight \in [Processes -> [stage : Stages, value : Nat]]
      /\ caller \in [CacheCallers -> [pc : Pcs, floor : Nat, value : Nat]]
  BY <1>0 DEF FlightTypes
<1>2. \A c \in CacheCallers : caller[c].pc # "idle" => NotBefore(caller[c].floor) /\ ReadNotBefore(NodeOf[c], caller[c].floor)
  BY <1>0 DEF FloorsHold
<1>3. \A c \in CacheCallers : caller[c].pc = "returns" => caller[c].value = Miss \/ caller[c].value >= caller[c].floor
  BY <1>0 DEF NoOlderThanCall
<1> DEFINE Kept(c) ==
        /\ \/ caller[c].pc # "idle" /\ caller'[c].floor = caller[c].floor
           \/ caller'[c].floor = Oldest(Around(NodeOf[c]))
        /\ caller'[c].pc = "returns" => caller'[c].value = Miss \/ caller'[c].value >= caller'[c].floor
<1>4. ASSUME NEW c \in CacheCallers, caller'[c].pc # "idle" PROVE Kept(c)
  <2>1. CASE caller' = caller
    BY <1>3, <1>4, <2>1
  <2>2. ASSUME NEW d \in CacheCallers, load(d) PROVE Kept(c)
    <3>1. PICK m : m = Oldest(Around(NodeOf[d]))
      OBVIOUS
    <3>2. caller' = [caller EXCEPT ![d] = [NoCall EXCEPT !.pc = "get", !.floor = m]]
      BY <2>2, <3>1 DEF load
    <3>3. CASE c = d
      BY <1>1, <3>1, <3>2, <3>3 DEF NoCall
    <3>4. CASE c # d
      BY <1>1, <1>3, <1>4, <3>2, <3>4
    <3> QED
      BY <3>3, <3>4
  <2>3. ASSUME NEW d \in CacheCallers, runFactory(d) PROVE Kept(c)
    BY <1>1, <1>3, <1>4, <2>3 DEF runFactory
  <2>4. ASSUME NEW d \in CacheCallers, return(d) PROVE Kept(c)
    BY <1>1, <1>3, <1>4, <2>4 DEF return, NoCall
  <2>5. ASSUME NEW n \in Processes, NEW s \in {"get", "load"}, NEW v \in Nat, caller' = Resume(n, s, v),
               v = getFlight[n].value \/ v = loadFlight[n].value \/ v = Miss
        PROVE  Kept(c)
    <3>1. CASE c \notin Waiting(n, s)
      <4>1. caller'[c] = caller[c]
        BY <1>0, <2>5, <3>1, ResumeIs
      <4> QED
        BY <1>3, <1>4, <4>1
    <3>2. CASE c \in Waiting(n, s)
      <4>1. /\ caller'[c].pc = IF v = Miss THEN "missed" ELSE "returns"
            /\ caller'[c].value = v
            /\ caller'[c].floor = caller[c].floor
        BY <1>0, <2>5, <3>2, ResumeIs
      <4>2. caller[c].pc # "idle"
        BY <3>2 DEF Waiting
      <4>3. PICK f \in Nat : f = caller[c].floor
        BY <1>1
      <4>4. NotBefore(f) /\ ReadNotBefore(n, f)
        BY <1>2, <3>2, <4>2, <4>3 DEF Waiting
      <4>5. v = Miss \/ f <= v
        BY <2>5, <4>4 DEF NotBefore, ReadNotBefore
      <4> QED
        BY <4>1, <4>2, <4>3, <4>5
    <3> QED
      BY <3>1, <3>2
  <2>6. ASSUME NEW n \in Processes, get(n) \/ getTimeout(n) PROVE Kept(c)
    <3>1. PICK v \in Nat : caller' = Resume(n, "get", v) /\ (v = getFlight[n].value \/ v = Miss)
      BY <1>1, <2>6 DEF get, getTimeout
    <3> QED
      BY <2>5, <3>1
  <2>7. ASSUME NEW n \in Processes, set(n) \/ setTimeout(n) PROVE Kept(c)
    <3>1. PICK v \in Nat : caller' = Resume(n, "load", v) /\ v = loadFlight[n].value
      BY <1>1, <2>7 DEF set, setTimeout
    <3> QED
      BY <2>5, <3>1
  <2>8. ASSUME NEW n \in Processes, factoryThrows(n) \/ factoryUndefined(n) PROVE Kept(c)
    BY <1>0, <1>3, <1>4, <2>8, EmptyIs DEF Waiting
  <2> QED
    BY <2>1, <2>2, <2>3, <2>4, <2>6, <2>7, <2>8
       DEF CacheNext, Node, lateOperations, getReads, factoryReads, factoryAnswers, setWrites, writeBack, del, lateOperation, cacheTick
<1>5. ASSUME NEW c \in CacheCallers, caller'[c].pc # "idle"
      PROVE  NotBefore(caller[c].floor)' /\ ReadNotBefore(NodeOf[c], caller[c].floor)'
  <2>1. PICK f : f = caller'[c].floor
    OBVIOUS
  <2>2. NodeOf[c] \in Processes
    BY DEF CacheConstants
  <2>3. f \in Nat /\ NotBefore(f) /\ ReadNotBefore(NodeOf[c], f)
    BY <1>0, <1>1, <1>2, <1>4, <1>5, <2>1, <2>2, FloorOfCall
  <2>4. NotBefore(f)' /\ ReadNotBefore(NodeOf[c], f)'
    BY <2>2, <2>3, NotOlder, ReadNotOlder
  <2> QED
    BY <2>1, <2>4 DEF NotBefore, ReadNotBefore
<1> QED
  BY <1>4, <1>5 DEF FloorsHold, NoOlderThanCall

-----------------------------------------------------------------------------
(* The theorems.                                                           *)

\* The initial state satisfies the invariant: no entry, flight or call.
LEMMA FlightInvInit == CacheConstants /\ CacheInit => FlightInv
<1> SUFFICES ASSUME CacheConstants, CacheInit PROVE FlightInv
  OBVIOUS
<1> USE DEF CacheInit, NoEntry, NoFlight, NoCall, Miss
<1>1. FlightTypes
  BY DEF FlightTypes, Stages, Asked, Pcs
<1>2. FlightsUsed /\ OneFactory
  BY DEF FlightsUsed, OneFactory, Waiting
<1>3. FloorsHold /\ NoOlderThanCall
  BY DEF FloorsHold, NoOlderThanCall
<1> QED
  BY <1>1, <1>2, <1>3 DEF FlightInv

\* Every step of the system keeps the invariant.
LEMMA FlightInvStep == CacheConstants /\ FlightInv /\ [CacheNext]_cacheVars => FlightInv'
<1> SUFFICES ASSUME CacheConstants, FlightInv, [CacheNext]_cacheVars PROVE FlightInv'
  OBVIOUS
<1>1. CASE CacheNext
  <2>1. source' # Miss
    <3>1. source \in Nat /\ source # Miss
      BY DEF FlightInv, FlightTypes
    <3>2. source' = source \/ source' = source + 1
      BY <1>1 DEF CacheNext, Node, lateOperations, load, runFactory, return, get, getTimeout, factoryReads,
                  factoryAnswers, factoryThrows, factoryUndefined, getReads, setWrites, set, setTimeout, writeBack, del, lateOperation, cacheTick
    <3> QED
      BY <3>1, <3>2 DEF Miss
  <2>2. FlightTypes'
    BY <1>1, FlightTypeStep
  <2>3. FlightsUsed' /\ OneFactory'
    BY <1>1, FlightsStep
  <2>4. FloorsHold' /\ NoOlderThanCall'
    BY <1>1, CallStep
  <2> QED
    BY <2>1, <2>2, <2>3, <2>4 DEF FlightInv
<1>2. CASE UNCHANGED cacheVars
  BY <1>2 DEF cacheVars, FlightInv, FlightTypes, FlightsUsed, OneFactory, FloorsHold, NoOlderThanCall, NotBefore, ReadNotBefore, Waiting
<1> QED
  BY <1>1, <1>2

\* For any callers, nodes, changes of the source and timed-out operations:
\* concurrent misses of a key run one factory per process, and load answers
\* with no value older than all that was cached, being loaded, being written or
\* read by the pending get it joined when it was called (CacheService.load,
\* SingleFlightService.run).
THEOREM SharedLoads == CacheConstants => (CacheSpec => []LoadShared)
<1> SUFFICES ASSUME CacheConstants PROVE CacheSpec => []LoadShared
  OBVIOUS
<1>1. FlightInv => LoadShared
  BY DEF FlightInv, LoadShared
<1> QED
  BY <1>1, FlightInvInit, FlightInvStep, PTL DEF CacheSpec
=============================================================================
