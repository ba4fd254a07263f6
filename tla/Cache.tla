------------------------------- MODULE Cache -------------------------------
(***************************************************************************)
(* CacheService.load and del for one key of a shared (Redis) backend: the  *)
(* single-flight maps of the nodes, the per-operation timeout, and writers *)
(* that change the source of truth and then invalidate.  The backend       *)
(* executes a get or a set before its answer arrives: others may call in   *)
(* between.  An operation that timed out is not cancelled: it executes     *)
(* later (late) or is lost.  A value is the version of the source it was   *)
(* computed from.                                                          *)
(***************************************************************************)
EXTENDS Integers, FiniteSets

CONSTANTS
  Processes,       \* application processes
  CacheCallers,     \* concurrent callers of load
  NodeOf,      \* the node a caller runs on
  Ttl,         \* time to live of an entry, in ticks
  MaxVersion,  \* bound: changes of the source
  MaxLate,     \* bound: timed-out operations on their way
  Reachable    \* whether the backend answers at all

VARIABLES
  source,     \* current version of the truth the factories read
  entry,      \* the cached version and its remaining time
  getFlight,  \* getFlights of every node, with what the backend answered
  loadFlight, \* loadFlights of every node, with what the factory read
  factories,  \* factory invocations under way on every node
  caller,     \* the callers of load
  pending,    \* a writer whose del is to be executed
  late        \* timed-out backend operations

cacheVars == << source, entry, getFlight, loadFlight, factories, caller, pending, late >>

\* Every caller runs on a node, and a time to live is a number of ticks.
CacheConstants == NodeOf \in [CacheCallers -> Processes] /\ Ttl \in Nat

-----------------------------------------------------------------------------

\* undefined: a miss, a timeout or an error of the backend.
Miss == 0

NoEntry == [value |-> Miss, ttl |-> 0]

NoFlight == [stage |-> "none", value |-> Miss]

Waiting(n, s) == {c \in CacheCallers : NodeOf[c] = n /\ caller[c].pc = s}

\* Versions a load on node n may legitimately return although the source has
\* moved on: what was cached, being loaded or being written when it was called,
\* and the answer, read before the call, of the pending get it joins.
Around(n) ==
  {source}
    \cup ({entry.value, getFlight[n].value} \ {Miss})
    \cup ({loadFlight[m].value : m \in {p \in Processes : Waiting(p, "load") # {}}} \ {Miss})
    \cup ({o.value : o \in late} \ {Miss})

Oldest(S) == CHOOSE v \in S : \A w \in S : v <= w

NoCall == [pc |-> "idle", floor |-> 1, value |-> 1]

\* Every caller of a flight gets its result; a miss goes on to the factory.
Resume(n, s, v) ==
  [c \in CacheCallers |->
     IF c \notin Waiting(n, s) THEN caller[c]
     ELSE [caller[c] EXCEPT !.pc = IF v = Miss THEN "missed" ELSE "returns", !.value = v]]

\* Mutant of EntryOf: a write without EX.
EntryForever(v) == [value |-> v, ttl |-> 0]

\* backend.set: EX ttl; a zero ttl never expires.
EntryOf(v) == [value |-> v, ttl |-> Ttl]

CacheInit ==
  /\ source = 1
  /\ entry = NoEntry
  /\ getFlight = [n \in Processes |-> NoFlight]
  /\ loadFlight = [n \in Processes |-> NoFlight]
  /\ factories = [n \in Processes |-> 0]
  /\ caller = [c \in CacheCallers |-> NoCall]
  /\ pending = FALSE
  /\ late = {}

-----------------------------------------------------------------------------
(* load.                                                                   *)

\* load(key, factory): get, sharing a pending get of the node.
load(c) ==
  LET n == NodeOf[c]
  IN /\ caller[c].pc = "idle"
     /\ caller' = [caller EXCEPT ![c] = [NoCall EXCEPT !.pc = "get", !.floor = Oldest(Around(n))]]
     /\ getFlight' = IF getFlight[n].stage # "none" THEN getFlight
                     ELSE [getFlight EXCEPT ![n] = [stage |-> "asked", value |-> Miss]]
     /\ UNCHANGED << source, entry, loadFlight, factories, pending, late >>

\* The backend executes a get; its answer is on its way.
getReads(n) ==
  /\ Reachable
  /\ getFlight[n].stage = "asked"
  /\ getFlight' = [getFlight EXCEPT ![n] = [stage |-> "answered", value |-> entry.value]]
  /\ UNCHANGED << source, entry, loadFlight, factories, caller, pending, late >>

\* The answer arrives: the flight settles for all who joined it meanwhile.
get(n) ==
  /\ getFlight[n].stage = "answered"
  /\ getFlight' = [getFlight EXCEPT ![n] = NoFlight]
  /\ caller' = Resume(n, "get", getFlight[n].value)
  /\ UNCHANGED << source, entry, loadFlight, factories, pending, late >>

\* Mutant of getTimeout: the get is tried again.
getTimeoutRetries(n) == getFlight[n].stage # "none" /\ UNCHANGED cacheVars

\* The get fails or times out, executed or not: guarded answers undefined.
getTimeout(n) ==
  /\ getFlight[n].stage # "none"
  /\ getFlight' = [getFlight EXCEPT ![n] = NoFlight]
  /\ caller' = Resume(n, "get", Miss)
  /\ UNCHANGED << source, entry, loadFlight, factories, pending, late >>

\* loadFlights.run: join the key's flight or start the factory.
runFactory(c) ==
  LET n == NodeOf[c]
      joins == loadFlight[n].stage # "none"
  IN /\ caller[c].pc = "missed"
     /\ caller' = [caller EXCEPT ![c].pc = "load"]
     /\ loadFlight' = IF joins THEN loadFlight
                      ELSE [loadFlight EXCEPT ![n] = [stage |-> "factory", value |-> Miss]]
     /\ factories' = IF joins THEN factories ELSE [factories EXCEPT ![n] = @ + 1]
     /\ UNCHANGED << source, entry, getFlight, pending, late >>

\* The factory reads the source; it answers at any later time.
factoryReads(n) ==
  /\ loadFlight[n] = [stage |-> "factory", value |-> Miss]
  /\ loadFlight' = [loadFlight EXCEPT ![n].value = source]
  /\ UNCHANGED << source, entry, getFlight, factories, caller, pending, late >>

\* The factory has a value, which is written back.
factoryAnswers(n) ==
  /\ loadFlight[n].stage = "factory" /\ loadFlight[n].value # Miss
  /\ loadFlight' = [loadFlight EXCEPT ![n].stage = "set"]
  /\ factories' = [factories EXCEPT ![n] = @ - 1]
  /\ UNCHANGED << source, entry, getFlight, caller, pending, late >>

\* Mutant of Settled: the settled flight stays in the map.
SettledKept(n) == loadFlight' = loadFlight

\* pending.finally: the flight is forgotten once it settles.
Settled(n) == loadFlight' = [loadFlight EXCEPT ![n] = NoFlight]

\* The factory throws: every caller of the flight is rejected.
factoryThrows(n) ==
  /\ loadFlight[n].stage = "factory" /\ loadFlight[n].value # Miss
  /\ Settled(n)
  /\ factories' = [factories EXCEPT ![n] = @ - 1]
  /\ caller' = [c \in CacheCallers |-> IF c \in Waiting(n, "load") THEN NoCall ELSE caller[c]]
  /\ UNCHANGED << source, entry, getFlight, pending, late >>

\* The factory has no value: every caller gets undefined, nothing is written.
factoryUndefined(n) ==
  /\ loadFlight[n].stage = "factory" /\ loadFlight[n].value # Miss
  /\ Settled(n)
  /\ factories' = [factories EXCEPT ![n] = @ - 1]
  /\ caller' = [c \in CacheCallers |->
                  IF c \in Waiting(n, "load") THEN [caller[c] EXCEPT !.pc = "returns", !.value = Miss] ELSE caller[c]]
  /\ UNCHANGED << source, entry, getFlight, pending, late >>

\* The backend executes the write; its answer is on its way.
setWrites(n) ==
  /\ Reachable
  /\ loadFlight[n].stage = "set"
  /\ entry' = EntryOf(loadFlight[n].value)
  /\ loadFlight' = [loadFlight EXCEPT ![n].stage = "written"]
  /\ UNCHANGED << source, getFlight, factories, caller, pending, late >>

\* The write is acknowledged: the load answers.
set(n) ==
  /\ loadFlight[n].stage = "written"
  /\ caller' = Resume(n, "load", loadFlight[n].value)
  /\ Settled(n)
  /\ UNCHANGED << source, entry, getFlight, factories, pending, late >>

Late(o) == late' = late \cup {o} /\ Cardinality(late') <= MaxLate

\* The write fails or times out, executed or not; the load answers all the same.
setTimeout(n) ==
  /\ loadFlight[n].stage \in {"set", "written"}
  /\ \/ loadFlight[n].stage = "set" /\ Late([op |-> "set", value |-> loadFlight[n].value])
     \/ late' = late
  /\ caller' = Resume(n, "load", loadFlight[n].value)
  /\ Settled(n)
  /\ UNCHANGED << source, entry, getFlight, factories, pending >>

return(c) ==
  /\ caller[c].pc = "returns"
  /\ caller' = [caller EXCEPT ![c] = NoCall]
  /\ UNCHANGED << source, entry, getFlight, loadFlight, factories, pending, late >>

-----------------------------------------------------------------------------
(* Invalidation, late operations, expiry.                                  *)

writeBack ==
  /\ source < MaxVersion
  /\ ~pending
  /\ source' = source + 1
  /\ pending' = TRUE
  /\ UNCHANGED << entry, getFlight, loadFlight, factories, caller, late >>

del ==
  /\ pending
  /\ pending' = FALSE
  /\ \/ Reachable /\ entry' = NoEntry /\ late' = late
     \/ Late([op |-> "del", value |-> Miss]) /\ entry' = entry
     \/ UNCHANGED << entry, late >>
  /\ UNCHANGED << source, getFlight, loadFlight, factories, caller >>

lateOperation(o) ==
  /\ late' = late \ {o}
  /\ \/ entry' = IF o.op = "set" THEN EntryOf(o.value) ELSE NoEntry
     \/ entry' = entry
  /\ UNCHANGED << source, getFlight, loadFlight, factories, caller, pending >>

cacheTick ==
  /\ entry.ttl > 0
  /\ entry' = IF entry.ttl = 1 THEN NoEntry ELSE [entry EXCEPT !.ttl = @ - 1]
  /\ UNCHANGED << source, getFlight, loadFlight, factories, caller, pending, late >>

Node(n) ==
  \/ getReads(n) \/ get(n) \/ getTimeout(n)
  \/ factoryReads(n) \/ factoryAnswers(n) \/ factoryThrows(n) \/ factoryUndefined(n)
  \/ setWrites(n) \/ set(n) \/ setTimeout(n)

lateOperations == \E o \in late : lateOperation(o)

CacheNext ==
  \/ \E c \in CacheCallers : load(c) \/ runFactory(c) \/ return(c)
  \/ \E n \in Processes : Node(n)
  \/ writeBack \/ del
  \/ lateOperations
  \/ cacheTick

CacheSpec == CacheInit /\ [][CacheNext]_cacheVars

-----------------------------------------------------------------------------
(* Properties.                                                             *)

\* Concurrent misses of one key run one factory per process, and a flight
\* exists exactly while callers may wait for it (SingleFlightService.run).
OneFactory ==
  \A n \in Processes :
    /\ factories[n] = IF loadFlight[n].stage = "factory" THEN 1 ELSE 0
    /\ Waiting(n, "load") # {} => loadFlight[n].stage # "none"
    /\ Waiting(n, "get") # {} => getFlight[n].stage # "none"

\* A value that load returns is no older than the oldest of the source, the
\* entry, the answer of the pending get it joined, the loads under way and the
\* unfinished writes at the time it was called: sharing a flight hands out what
\* was read before the call only while that flight is pending, never a result
\* that had settled ("Does not cache settled results").
NoOlderThanCall ==
  \A c \in CacheCallers : caller[c].pc = "returns" => caller[c].value = Miss \/ caller[c].value >= caller[c].floor

\* The two together: what sharing a flight promises to the callers of load.
LoadShared == OneFactory /\ NoOlderThanCall

Calling(c) == caller[c].pc # "idle"

UpToDate == entry.value \in {Miss, source}
=============================================================================
