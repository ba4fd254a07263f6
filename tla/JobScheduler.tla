---------------------------- MODULE JobScheduler ----------------------------
(***************************************************************************)
(* JobSchedulerService: one `job-scheduler` row is the cluster lease of    *)
(* one logical run (lockKey); rows of different keys never meet, so one    *)
(* row is modelled.  Nodes call runExclusive (or acquire followed by       *)
(* complete / fail / release) whenever they like.  Every SQL statement is  *)
(* one step, taken by the database at any time after the call; its answer  *)
(* may be lost.  modifiedAt is compared with the database clock only, so   *)
(* the row keeps its age instead of a timestamp.                           *)
(*                                                                         *)
(* A node is prompt as long as its timers and its traffic to the database  *)
(* are delayed by at most Latency; it may stop being so at any time (event *)
(* loop blocked, network partition), and from then on nothing bounds it.   *)
(***************************************************************************)
EXTENDS Integers

CONSTANTS
  Nodes,        \* application nodes
  Tokens,       \* owner tokens (randomUUID)
  NoToken,      \* not a token
  LeaseMs,      \* LeaseMs[n], HeartbeatMs[n]: the options node n passes
  HeartbeatMs,
  Latency,      \* delay of a prompt node's statements and answers
  MaxBeats,     \* bound: heartbeat statements on their way per token
  MaxFaults     \* bound: crashes, stalls and lost or failed statements

ASSUME OptionsAssumption ==
  /\ NoToken \notin Tokens
  /\ LeaseMs \in [Nodes -> Nat]
  /\ HeartbeatMs \in [Nodes -> Nat]
  /\ Latency \in Nat
  /\ MaxBeats \in Nat
  /\ MaxFaults \in Nat

VARIABLES
  row,      \* [status, ownerToken, age]: the row, status "NONE" before INSERT
  pc,       \* where every node is in runExclusive
  token,    \* the ownerToken a node generated for its call
  timer,    \* time since the claim was executed, then since the last firing
            \* of the node's heartbeat interval
  prompt,   \* the nodes that have kept the Latency bound since their call
  beats,    \* beats[t]: heartbeat statements with token t on their way
  wins,     \* tokens whose complete() changed the row
  faults

vars == << row, pc, token, timer, prompt, beats, wins, faults >>

-----------------------------------------------------------------------------

Statuses == {"NONE", "RUNNING", "SUCCESS", "FAIL"}

PCs == {"idle", "insert", "reclaim", "claimed", "running", "complete", "fail"}

\* The states in which a node's interval timer is armed.
Working == {"running", "complete", "fail"}

\* Lease options are refused unless two heartbeats fit into a lease; a zero
\* heartbeat turns the timer off.
resolveLeaseTiming(n) ==
  /\ LeaseMs[n] > 2
  /\ HeartbeatMs[n] > 0 => 2 * HeartbeatMs[n] < LeaseMs[n]

\* Mutant of Fresh: a token that only no call in progress carries.
FreshInFlight(t) == \A n \in Nodes : token[n] # t

\* randomUUID: a token that nothing in the system carries.
Fresh(t) ==
  /\ t # row.ownerToken
  /\ beats[t] = 0
  /\ t \notin wins
  /\ \A n \in Nodes : token[n] # t

\* Mutant of Reclaimable: the heartbeat interval taken for the lease.
ReclaimableAfterBeat(n) ==
  \/ row.status = "FAIL"
  \/ row.status = "RUNNING" /\ row.age > HeartbeatMs[n]

\* Mutant of Reclaimable: crashed owners are not considered.
ReclaimableFailed(n) == row.status = "FAIL"

\* The reclaim criteria of acquire; the lease is the caller's.
Reclaimable(n) ==
  \/ row.status = "FAIL"
  \/ row.status = "RUNNING" /\ row.age > LeaseMs[n]

\* Mutant of Owned: the criteria without the owner token.
OwnedByAnyone(t) == row.status = "RUNNING"

\* Mutant of Owned: the criteria without the status.
OwnedEver(t) == row.ownerToken = t

\* mutateOwnedLease's criteria.
Owned(t) == row.status = "RUNNING" /\ row.ownerToken = t

NoFault == faults' = faults
Fault == faults < MaxFaults /\ faults' = faults + 1

Goto(n, s) == pc' = [pc EXCEPT ![n] = s]

\* Mutant of End: the call's token outlives it.
EndKeepingToken(n) ==
  /\ Goto(n, "idle")
  /\ token' = token
  /\ timer' = [timer EXCEPT ![n] = 0]

\* runExclusive is over: the heartbeat interval is cleared.
End(n) ==
  /\ Goto(n, "idle")
  /\ token' = [token EXCEPT ![n] = NoToken]
  /\ timer' = [timer EXCEPT ![n] = 0]

Init ==
  /\ row = [status |-> "NONE", ownerToken |-> NoToken, age |-> 0]
  /\ pc = [n \in Nodes |-> "idle"]
  /\ token = [n \in Nodes |-> NoToken]
  /\ timer = [n \in Nodes |-> 0]
  /\ prompt = Nodes
  /\ beats = [t \in Tokens |-> 0]
  /\ wins = {}
  /\ faults = 0

-----------------------------------------------------------------------------
(* runExclusive.                                                           *)

call(n) ==
  /\ pc[n] = "idle"
  /\ resolveLeaseTiming(n)
  /\ \E t \in Tokens :
       /\ Fresh(t)
       /\ token' = [token EXCEPT ![n] = t]
  /\ Goto(n, "insert")
  /\ prompt' = prompt \cup {n}
  /\ UNCHANGED << row, timer, beats, wins, faults >>

Claim(n) == row' = [status |-> "RUNNING", ownerToken |-> token[n], age |-> 0]

\* INSERT ... ON CONFLICT DO NOTHING.  A lost answer rejects runExclusive and
\* leaves a RUNNING row that nobody works for.
acquireInsert(n) ==
  /\ pc[n] = "insert"
  /\ \/ /\ row.status = "NONE"
        /\ Claim(n)
        /\ \/ NoFault /\ Goto(n, "claimed") /\ UNCHANGED << token, timer >>
           \/ Fault /\ End(n)
     \/ /\ row.status # "NONE"
        /\ NoFault
        /\ Goto(n, "reclaim")
        /\ UNCHANGED << row, token, timer >>
     \/ Fault /\ End(n) /\ UNCHANGED row
  /\ UNCHANGED << prompt, beats, wins >>

\* The conditional UPDATE of a FAIL row or an expired RUNNING row.
acquireReclaim(n) ==
  /\ pc[n] = "reclaim"
  /\ \/ /\ Reclaimable(n)
        /\ Claim(n)
        /\ \/ NoFault /\ Goto(n, "claimed") /\ UNCHANGED << token, timer >>
           \/ Fault /\ End(n)
     \/ /\ ~Reclaimable(n)
        /\ NoFault
        /\ End(n)
        /\ UNCHANGED row
     \/ Fault /\ End(n) /\ UNCHANGED row
  /\ UNCHANGED << prompt, beats, wins >>

\* acquire returns: the interval is armed and fn starts.
start(n) ==
  /\ pc[n] = "claimed"
  /\ Goto(n, "running")
  /\ timer' = [timer EXCEPT ![n] = 0]
  /\ UNCHANGED << row, token, prompt, beats, wins, faults >>

\* fn resolves, or rejects (also: the consumer calls release).
fnSettles(n) ==
  /\ pc[n] = "running"
  /\ Goto(n, "complete") \/ Goto(n, "fail")
  /\ UNCHANGED << row, token, timer, prompt, beats, wins, faults >>

\* complete(): SUCCESS if still owned; zero rows is LostJobLeaseError, which
\* skips fail(); a failed or unanswered statement goes to fail().
complete(n) ==
  /\ pc[n] = "complete"
  /\ \/ /\ Owned(token[n])
        /\ row' = [row EXCEPT !.status = "SUCCESS"]
        /\ wins' = wins \cup {token[n]}
        /\ \/ NoFault /\ End(n)
           \/ Fault /\ Goto(n, "fail") /\ UNCHANGED << token, timer >>
     \/ ~Owned(token[n]) /\ NoFault /\ End(n) /\ UNCHANGED << row, wins >>
     \/ Fault /\ Goto(n, "fail") /\ UNCHANGED << row, wins, token, timer >>
  /\ UNCHANGED << prompt, beats >>

\* fail() and release().
fail(n) ==
  /\ pc[n] = "fail"
  /\ \/ NoFault /\ row' = IF Owned(token[n]) THEN [row EXCEPT !.status = "FAIL"] ELSE row
     \/ Fault /\ row' = row
  /\ End(n)
  /\ UNCHANGED << prompt, beats, wins >>

-----------------------------------------------------------------------------
(* Heartbeats: the interval fires, the statement arrives later.            *)

\* A prompt node fires exactly on time, any other when it gets around to it.
fireHeartbeat(n) ==
  /\ pc[n] \in Working
  /\ HeartbeatMs[n] > 0
  /\ timer[n] >= HeartbeatMs[n]
  /\ beats[token[n]] < MaxBeats
  /\ beats' = [beats EXCEPT ![token[n]] = @ + 1]
  /\ timer' = [timer EXCEPT ![n] = 0]
  /\ UNCHANGED << row, pc, token, prompt, wins, faults >>

heartbeat(t) ==
  /\ beats[t] > 0
  /\ beats' = [beats EXCEPT ![t] = @ - 1]
  /\ row' = IF Owned(t) THEN [row EXCEPT !.age = 0] ELSE row
  /\ UNCHANGED << pc, token, timer, prompt, wins, faults >>

\* The statement fails; the rejection is only logged.  Its node counts as
\* delayed from then on.
heartbeatFails(t) ==
  /\ beats[t] > 0
  /\ Fault
  /\ beats' = [beats EXCEPT ![t] = @ - 1]
  /\ prompt' = {n \in prompt : token[n] # t}
  /\ UNCHANGED << row, pc, token, timer, wins >>

-----------------------------------------------------------------------------
(* The environment.                                                        *)

stall(n) ==
  /\ n \in prompt /\ pc[n] # "idle"
  /\ Fault
  /\ prompt' = prompt \ {n}
  /\ UNCHANGED << row, pc, token, timer, beats, wins >>

\* The process dies; statements already sent still arrive.
crash(n) ==
  /\ pc[n] # "idle"
  /\ Fault
  /\ End(n)
  /\ UNCHANGED << row, prompt, beats, wins >>

\* What the Latency bound lets a prompt node do while time advances.
OnTime(n) ==
  /\ pc[n] = "claimed" => timer[n] < Latency
  /\ pc[n] \in Working /\ HeartbeatMs[n] > 0 =>
       /\ timer[n] < HeartbeatMs[n]
       /\ beats[token[n]] > 0 => timer[n] < Latency

\* Ages and timers beyond every threshold are not told apart.
Saturated(x) ==
  IF \A n \in Nodes : x > LeaseMs[n] /\ x > HeartbeatMs[n] THEN x ELSE x + 1

tick ==
  /\ \A n \in prompt : OnTime(n)
  /\ row' = IF row.status = "RUNNING" THEN [row EXCEPT !.age = Saturated(@)] ELSE row
  /\ timer' = [n \in Nodes |-> IF pc[n] = "claimed" \/ pc[n] \in Working
                               THEN Saturated(timer[n]) ELSE timer[n]]
  /\ UNCHANGED << pc, token, prompt, beats, wins, faults >>

-----------------------------------------------------------------------------

Run(n) ==
  \/ acquireInsert(n) \/ acquireReclaim(n) \/ start(n)
  \/ fnSettles(n) \/ complete(n) \/ fail(n)

Next ==
  \/ \E n \in Nodes : call(n) \/ Run(n) \/ fireHeartbeat(n) \/ stall(n) \/ crash(n)
  \/ \E t \in Tokens : heartbeat(t) \/ heartbeatFails(t)
  \/ tick

Spec == Init /\ [][Next]_vars

-----------------------------------------------------------------------------
(* Properties.                                                             *)

\* Type invariant; a node carries a token exactly while it is in a call.
TypeOK ==
  /\ row \in [status : Statuses, ownerToken : Tokens \cup {NoToken}, age : Nat]
  /\ pc \in [Nodes -> PCs]
  /\ token \in [Nodes -> Tokens \cup {NoToken}]
  /\ timer \in [Nodes -> Nat]
  /\ prompt \in SUBSET Nodes
  /\ beats \in [Tokens -> Nat]
  /\ wins \in SUBSET Tokens
  /\ faults \in Nat
  /\ \A n \in Nodes : pc[n] = "idle" <=> token[n] = NoToken

\* A node that believes it holds the lease.
Holds(n) == pc[n] \in {"claimed", "running"}

\* A live RUNNING row is left to its owner: as long as a heartbeating node is
\* prompt and its fn has not settled, nobody takes the lease from it, so no
\* two prompt nodes ever run fn for the same key.
LiveOwnerKept ==
  \A n \in prompt : Holds(n) /\ HeartbeatMs[n] > 0 => Owned(token[n])

\* What LiveOwnerKept needs: all nodes pass the same lease, and a statement or
\* an answer takes at most half a heartbeat.
SoundTiming ==
  /\ \A n, m \in Nodes : LeaseMs[n] = LeaseMs[m]
  /\ \A n \in Nodes : HeartbeatMs[n] > 0 => 2 * Latency <= HeartbeatMs[n]

\* "Database finalization is single-owner": over all reclaims, at most one
\* run is recorded as successful, and the row then carries its token.
SingleWinner ==
  \A t \in wins : row.status = "SUCCESS" /\ row.ownerToken = t

\* Run-once: a row that is SUCCESS never changes again, whatever late
\* heartbeats, completions or failures of former owners arrive.
SuccessIsFinal == [][row.status = "SUCCESS" => row' = row]_vars

\* A worker that relies on the lease.
Relies(n) == n \in prompt /\ Holds(n) /\ HeartbeatMs[n] > 0

\* The abstract lock: the row names its holder and its winner.
Lock == INSTANCE LeaseLock WITH
  holder <- IF row.status = "RUNNING" THEN row.ownerToken ELSE NoToken,
  protected <- {token[n] : n \in {m \in Nodes : Relies(m)}},
  winner <- IF row.status = "SUCCESS" THEN row.ownerToken ELSE NoToken

\* runExclusive implements the abstract lock: whatever statements are late, lost
\* or repeated, a working owner keeps the run, a takeover brings a new token
\* ("rotated on every acquire/reclaim") and only the holder finishes.
ImplementsLeaseLock == Lock!LockSpec
=============================================================================
