----------------------------- MODULE MCSettles -----------------------------
(***************************************************************************)
(* What must happen in the end, of every component that promises it.  As   *)
(* in MCUploads a behaviour is one of a single instance.                   *)
(***************************************************************************)
EXTENDS Integers, Sequences, FiniteSets, TLC

CONSTANTS Parts,   \* the instances of a run
          Rest,    \* the value of variables a part does not have
          None, Bad

VARIABLES part, v1, v2, v3, v4, v5, v6, v7, v8

vars == << part, v1, v2, v3, v4, v5, v6, v7, v8 >>

-----------------------------------------------------------------------------

Instances == {"client", "sweeper"}
InstanceOf == [p \in Instances |-> p]
Outlive == FALSE
ActivationLease == 2
ClaimLease == 2
TempLife == 2
TickMs == 1
MaxAhead == 3

\* Faults and requests stop at LastRequest; from then on sweeps settle the row.
Upload == INSTANCE DirectUpload WITH
  now <- v1, row <- v2, target <- v3, staging <- v4, final <- v5, task <- v6, lastClaim <- v7, faults <- v8,
  Clients <- {"client"}, Sweepers <- {"sweeper"}, Kind <- "s3", Temporary <- FALSE, Versions <- {1}, UrlTtl <- 2,
  Backoff <- 1, ManagedCalls <- {FALSE, TRUE}, PromptSweeps <- TRUE, MaxTime <- 17, LastRequest <- 3, MaxFaults <- 1

\* Everything due is run again and again; faults end.
Publish == INSTANCE Publication WITH
  current <- v1, used <- v2, row <- v3, object <- v4, run <- v5, late <- v6, faults <- v7,
  NoGen <- "none", Gens <- {"g1"}, Descriptors <- {"d1"}, Runners <- {"worker"}, Tokens <- {1, 2, 3}, NoToken <- 0, LeaseMs <- 2, RetryMs <- 1,
  Foreign <- {"g1"}, Prompt <- TRUE, MaxFaults <- 1, MaxLate <- 1

OutboxKinds == {"settled", "initial", "retry"}

\* A full batch of rows that always fail, anywhere in the outbox.
Poisoned == INSTANCE SweepBatch WITH
  kind <- v1, wait <- v2, phase <- v3, left <- v4, served <- v5, last <- v6, refusals <- v7,
  Rows <- 1..3, Poison <- 1..2, PoisonKinds <- OutboxKinds, ArrivalKinds <- OutboxKinds \cup {"direct", "staged"},
  Limit <- 2, Batches <- 2, Backoff <- 1, Lease <- 2, Period <- 2, Old <- 2, MaxRefusals <- 1

PathKeys == {Bad, << "a", "b", "f" >>, << "a", "b", "g" >>, << "a", "f" >>, << "a", "..", "f" >>}

Tree(a, b, f) ==
  [p \in {<< "a" >>, << "a", "b" >>, << "a", "f" >>, << "a", "b", "f" >>, << "a", "b", "g" >>} |->
     CASE p = << "a" >> -> a [] p = << "a", "b" >> -> b [] p = << "a", "f" >> -> f [] OTHER -> "none"]

PathTrees ==
  {Tree("none", "none", "none"), Tree("dir", "none", "file"), Tree("dir", "link", "link"), Tree("link", "none", "none"),
   Tree("dir", "file", "none")}

Path == INSTANCE LocalPath WITH
  tree <- v1, root <- v2, faults <- v3, call <- v4,
  Calls <- {"c1", "c2"}, Keys <- PathKeys, Trees <- PathTrees, MaxRootFaults <- 1

\* Expiry after the races of loads, invalidations and late writes.
Expiring == INSTANCE Cache WITH
  source <- v1, entry <- v2, getFlight <- v3, loadFlight <- v4, factories <- v5, caller <- v6, pending <- v7, late <- v8,
  Processes <- {"n1"}, CacheCallers <- {"c1", "c2"}, NodeOf <- [c \in {"c1", "c2"} |-> "n1"],
  Ttl <- 1, MaxVersion <- 2, MaxLate <- 1, Reachable <- TRUE

\* A backend that never answers.
Down == INSTANCE Cache WITH
  source <- v1, entry <- v2, getFlight <- v3, loadFlight <- v4, factories <- v5, caller <- v6, pending <- v7, late <- v8,
  Processes <- {"n1"}, CacheCallers <- {"c1", "c2"}, NodeOf <- [c \in {"c1", "c2"} |-> "n1"],
  Ttl <- 1, MaxVersion <- 2, MaxLate <- 1, Reachable <- FALSE

\* Two tokens, a cache of one client.
Issuers == {[host |-> "kc", realm |-> "a"], [host |-> "kc", realm |-> "b"], [host |-> "other", realm |-> "a"]}

Keys == INSTANCE JwksKeys WITH
  policy <- v1, ready <- v2, clientMap <- v3, published <- v4, rotations <- v5, request <- v6,
  Missing <- None, Kids <- {"k1"}, Policies <- {[allowed |-> None, hosts |-> {"kc"}, accepts |-> None]}, Requests <- {"r1", "r2"},
  MAX_CLIENTS <- 1, MaxRotations <- 1

\* Two nodes, the shortest lease with a heartbeat; faults are finitely many.
Lease == INSTANCE JobScheduler WITH
  row <- v1, pc <- v2, token <- v3, timer <- v4, prompt <- v5, beats <- v6, wins <- v7, faults <- v8,
  Nodes <- {"c1", "c2"}, Tokens <- {1, 2, 3}, NoToken <- 0, LeaseMs <- [n \in {"c1", "c2"} |-> 3],
  HeartbeatMs <- [n \in {"c1", "c2"} |-> 1], Latency <- 0, MaxBeats <- 1, MaxFaults <- 1

-----------------------------------------------------------------------------

After4 == << v5, v6, v7, v8 >>
After6 == << v7, v8 >>

Init ==
  /\ part \in Parts
  /\ \/ part = "upload" /\ Upload!Init
     \/ part = "publish" /\ Publish!Init /\ v8 = Rest
     \/ part = "poisoned" /\ Poisoned!SweepInit /\ v8 = Rest
     \/ part = "path" /\ Path!Init /\ v5 = Rest /\ v6 = Rest /\ v7 = Rest /\ v8 = Rest
     \/ part = "expiring" /\ Expiring!CacheInit
     \/ part = "down" /\ Down!CacheInit
     \/ part = "keys" /\ Keys!KeysInit /\ v7 = Rest /\ v8 = Rest
     \/ part = "lease" /\ Lease!Init

Next ==
  /\ UNCHANGED part
  /\ \/ part = "upload" /\ Upload!Next
     \/ part = "publish" /\ Publish!Next /\ UNCHANGED v8
     \/ part = "poisoned" /\ Poisoned!SweepNext /\ UNCHANGED v8
     \/ part = "path" /\ Path!Next /\ UNCHANGED After4
     \/ part = "expiring" /\ Expiring!CacheNext
     \/ part = "down" /\ Down!CacheNext
     \/ part = "keys" /\ Keys!KeysNext /\ UNCHANGED After6
     \/ part = "lease" /\ Lease!Next

-----------------------------------------------------------------------------
(* Fairness.                                                               *)

Upload_(A) == part = "upload" /\ A /\ UNCHANGED part
Publish_(A) == part = "publish" /\ A /\ UNCHANGED << part, v8 >>
Path_(A) == part = "path" /\ A /\ UNCHANGED << part, After4 >>
Expiring_(A) == part = "expiring" /\ A /\ UNCHANGED part
Down_(A) == part = "down" /\ A /\ UNCHANGED part
Lease_(A) == part = "lease" /\ A /\ UNCHANGED part

\* Time passes, however many requests arrive.
Tick == Upload_(Upload!tick) \/ Publish_(Publish!tick)

\* Requests that are being served run on, timers fire, the maintenance cron
\* keeps sweeping, the consumer's worker runs every due intent again and again,
\* calls are answered or fail, abandoned ones arrive or never will.  Nodes call
\* runExclusive again and again, what it started settles and heartbeats that were
\* sent are executed.  Clients owe nothing.
FairSpec ==
  /\ Init /\ [][Next]_vars
  /\ \A p \in Instances : WF_vars(Upload_(Upload!Running(p)))
  /\ WF_vars(Upload_(Upload!Sweep("sweeper")))
  /\ WF_vars(Publish_(Publish!Answer("worker")))
  /\ SF_vars(Publish_(Publish!start("worker", "g1")))
  /\ SF_vars(Publish_(Publish!claimed("g1")))
  /\ WF_vars(Publish_(Publish!Lateness))
  /\ SF_vars(Tick)
  /\ WF_vars(part = "poisoned" /\ Poisoned!Cron /\ UNCHANGED << part, v8 >>)
  /\ WF_vars(Path_(\E ok \in BOOLEAN : Path!canonicalRoot(ok)))
  /\ \A c \in {"c1", "c2"} : WF_vars(Path_(Path!Step(c)) \/ Lease_(Lease!Run(c)))
  /\ \A c \in {"c1", "c2"} :
       /\ WF_vars(Expiring_(Expiring!runFactory(c)) \/ Down_(Down!runFactory(c)))
       /\ WF_vars(Expiring_(Expiring!return(c)) \/ Down_(Down!return(c)) \/ Lease_(Lease!call(c)))
  /\ WF_vars(Expiring_(Expiring!getTimeout("n1")) \/ Down_(Down!getTimeout("n1")))
  /\ WF_vars(Expiring_(Expiring!factoryReads("n1")) \/ Down_(Down!factoryReads("n1")))
  /\ WF_vars(\/ Expiring_(Expiring!factoryAnswers("n1") \/ Expiring!factoryThrows("n1") \/ Expiring!factoryUndefined("n1"))
             \/ Down_(Down!factoryAnswers("n1") \/ Down!factoryThrows("n1") \/ Down!factoryUndefined("n1")))
  /\ WF_vars(Expiring_(Expiring!setTimeout("n1")) \/ Down_(Down!setTimeout("n1")))
  /\ WF_vars(Expiring_(Expiring!del))
  /\ WF_vars(Expiring_(Expiring!lateOperations) \/ Lease_(\E t \in {1, 2, 3} : Lease!heartbeat(t)))
  /\ WF_vars(Expiring_(Expiring!cacheTick) \/ Lease_(Lease!tick))
  /\ \A r \in {"r1", "r2"} :
       WF_vars(part = "keys" /\ (\E ok \in BOOLEAN : Keys!getSigningKey(r, ok)) /\ UNCHANGED << part, After6 >>)

-----------------------------------------------------------------------------
(* Properties.                                                             *)

\* Every upload comes to an end: ready with its staging object reclaimed, or
\* soft-deleted with no marker and no promoted bytes, whatever crashed or failed
\* on the way and whether or not the client came back.
UploadSettles == <>[](part = "upload" => Upload!Settled)

\* The rendition of a generation that is no longer assigned is gone for good in
\* the end, although an abandoned PUT may arrive after the retirement, and an
\* assignment that stays public is published or blocked by a foreign object.
PublicationConverges ==
  /\ <>[](part = "publish" /\ Publish!Unassigned("g1")) => <>[](part = "publish" => Publish!Withdrawn("g1"))
  /\ <>[](part = "publish" /\ Publish!Assigned("g1")) => <>[](part = "publish" => Publish!Exposed("g1"))

\* "This backoff prevents a full batch of repeatedly failing objects from
\* monopolizing every bounded sweep": every due row is tried in the end.
Served ==
  \A r \in 1..3 : (part = "poisoned" /\ Poisoned!Waiting(r)) ~> (part = "poisoned" => Poisoned!Tried(r))

\* The race of a load's write-back with an invalidation leaves a stale value,
\* which its time to live removes: once the source is stable, so is the cache.
StaleExpires == <>[](part = "expiring" => Expiring!UpToDate)

\* No caller waits forever: load returns although the backend never answers,
\* every token gets its key or none although its client was evicted, and every
\* call that resolves a local path settles although the root failed once.  (The
\* callers of a part are alike: one stands for all.)
CallsEnd ==
  (\/ part = "down" /\ Down!Calling("c1")
   \/ part = "keys" /\ Keys!Asked("r1")
   \/ part = "path" /\ Path!Asked("c1")) ~>
     (/\ part = "down" => ~Down!Calling("c1")
      /\ part = "keys" => Keys!Answered("r1")
      /\ part = "path" => Path!Answered("c1"))

\* No claim of a run lasts forever: if its owner died, lost the answer or
\* stalled, somebody else takes the run over or it ends.  (Tokens are alike.)
NoStuckClaim ==
  (part = "lease" /\ Lease!Owned(1)) ~> (part = "lease" => ~Lease!Owned(1))
=============================================================================
