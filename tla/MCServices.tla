---------------------------- MODULE MCServices ----------------------------
(***************************************************************************)
(* What the processes of a service share: the lease of a scheduled job,    *)
(* the single flight of the cache, its backends and the keys of cached     *)
(* answers.  As in MCRequests a behaviour is one of a single part; the     *)
(* scheduler and the single flight have variables of their own, the other  *)
(* instances share v1 to v12.                                              *)
(***************************************************************************)
EXTENDS JobScheduler, Cache, Sequences, TLC

CONSTANTS Parts,   \* the parts of a run
          Rest     \* the value of v1 to v12 where they are not used

VARIABLES part, v1, v2, v3, v4, v5, v6, v7, v8, v9, v10, v11, v12

shared == << v1, v2, v3, v4, v5, v6, v7, v8, v9, v10, v11, v12 >>

-----------------------------------------------------------------------------
(* The lease: both nodes pass the same options; the numbers keep the       *)
(* proportions of the defaults (a heartbeat every third of the lease).     *)

SameLease == [n \in Nodes |-> 5]
SameHeartbeat == [n \in Nodes |-> 2]

TokenSymmetry == Permutations(Tokens)

-----------------------------------------------------------------------------
(* Caches.                                                                 *)

\* Two callers share a process, the third runs on another one.
SomeNodeOf == [c \in {"c1", "c2", "c3"} |-> IF c = "c3" THEN "n2" ELSE "n1"]

ASSUME FlightsAssumption == CacheConstants

\* Four keys in a cache of three, with and without expiry.
Memory == INSTANCE MemoryCache WITH
  store <- v1, used <- v2, op <- v3, Keys <- {"k1", "k2", "k3", "k4"}, maxEntries <- 3, Ttls <- {0, 1, 2}

Redis == INSTANCE RedisCache WITH
  prefix <- v1, state <- v2, db <- v3, op <- v4, batch <- v5, last <- v6, owed <- v7, fresh <- v8, held <- v9,
  count <- v10, sets <- v11, batches <- v12,
  KeyPrefixes <- {<<>>, <<" ">>, <<"a", ":">>, <<"a", "*">>},
  Keys <- {<<"a", ":", "1">>, <<"a", ":", "2">>, <<"a", "b">>, <<"c">>}, MaxSets <- 2, MaxBatches <- 3

\* Keys of cached answers.  The texts are chosen so that an encoding without
\* lengths would confuse them.
S(t) == << "s", t >>
A(s) == << "a", s >>
Obj(f) == << "o", f >>

ta == << "a" >>
tc == << "c" >>
tasb == << "a", "s", "b" >>
tbsc == << "b", "s", "c" >>

KeyOrder == << "a", "b", "body", "context", "custom", "method", "params", "permissions",
               "query", "roles", "scope", "tenant", "token", "url", "userId" >>

CacheContexts ==
  { Obj([tenant |-> t, roles |-> r]) :
      t \in {S(ta), S(tc), S(<< " " >>), << "n" >>},
      r \in {A(<< S(ta), S(tc) >>), A(<< S(tc), S(ta) >>), A(<< S(ta) >>), A(<< S(ta), S(ta) >>), A(<< S(ta), << "x" >> >>)} }
  \cup { Obj([tenant |-> t, userId |-> u, custom |-> c, token |-> k]) :
           t \in {S(ta), S(tc)}, u \in {S(ta), S(tc), S(<< >>)}, c \in {<< "n" >>, S(ta)}, k \in {S(ta), << "x" >>} }
  \cup {<< "x" >>, << "u" >>, Obj([userId |-> S(ta)])}

Get == [http |-> TRUE, method |-> ta, url |-> ta, params |-> Obj([a |-> S(ta)]),
        query |-> Obj([a |-> S(ta)]), body |-> << "u" >>]

Bodies ==
  {A(<< S(x), S(y) >>) : x \in {ta, tasb}, y \in {tc, tbsc}}
  \cup {<< "u" >>, << "n" >>, << "x" >>, << "b", TRUE >>, << "d", ta >>, S(ta), A(<< >>),
        A(<< A(<< A(<< >>) >>) >>), A(<< A(<< A(<< << "n" >> >>) >>) >>)}

Queries == {Obj([a |-> S(ta)]), Obj([a |-> S(ta), b |-> << "u" >>]), Obj([b |-> S(ta)]), A(<< >>)}

\* Every context with one request, every request in one context.
CacheInputs ==
  { [ctx |-> c, req |-> Get] : c \in CacheContexts }
  \cup { [ctx |-> Obj([tenant |-> S(ta), userId |-> S(ta)]), req |-> r] :
           r \in { [Get EXCEPT !.body = b] : b \in Bodies } \cup { [Get EXCEPT !.query = q] : q \in Queries }
                 \cup { [Get EXCEPT !.http = FALSE], [Get EXCEPT !.url = << >>] } }

TenantKeys == INSTANCE CacheInterceptor WITH
  store <- v1, last <- v2, Scope <- "tenant", Resolver <- "none", Inputs <- CacheInputs, MaxDepth <- 2

\* User scope with a key resolver.
UserKeys == INSTANCE CacheInterceptor WITH
  store <- v1, last <- v2, Scope <- "user", Resolver <- "query", Inputs <- CacheInputs, MaxDepth <- 2

-----------------------------------------------------------------------------

After3 == << v4, v5, v6, v7, v8, v9, v10, v11, v12 >>
After2 == << v3, After3 >>

Rests3 == /\ v4 = Rest /\ v5 = Rest /\ v6 = Rest /\ v7 = Rest /\ v8 = Rest
          /\ v9 = Rest /\ v10 = Rest /\ v11 = Rest /\ v12 = Rest
Rests2 == v3 = Rest /\ Rests3

SharedInit ==
  \/ part = "memory" /\ Memory!Init /\ Rests3
  \/ part = "redis" /\ Redis!Init
  \/ part = "tenantKeys" /\ TenantKeys!Init /\ Rests2
  \/ part = "userKeys" /\ UserKeys!Init /\ Rests2
  \/ part \in {"lease", "flights"} /\ v1 = Rest /\ v2 = Rest /\ Rests2

PartsInit == part \in Parts /\ Init /\ CacheInit /\ SharedInit

SharedNext ==
  \/ part = "memory" /\ Memory!Next /\ UNCHANGED After3
  \/ part = "redis" /\ Redis!Next
  \/ part = "tenantKeys" /\ TenantKeys!Next /\ UNCHANGED After2
  \/ part = "userKeys" /\ UserKeys!Next /\ UNCHANGED After2

PartsNext ==
  /\ UNCHANGED part
  /\ \/ part = "lease" /\ Next /\ UNCHANGED << cacheVars, shared >>
     \/ part = "flights" /\ CacheNext /\ UNCHANGED << vars, shared >>
     \/ SharedNext /\ UNCHANGED << vars, cacheVars >>

PartsSpec == PartsInit /\ [][PartsNext]_<< part, vars, cacheVars, shared >>

-----------------------------------------------------------------------------
(* Properties of the instances.                                            *)

\* The memory backend evicts only the least recently used entry of a full cache;
\* clear of the Redis backend removes all its keys and no other, size counts all
\* that stay, however SCAN batches them.  A cached answer is served only to
\* requests of its audience and business key, is stored only for a context that
\* names its audience, and equal requests of one audience share it.
CachesKeep ==
  /\ [](/\ part = "memory" => Memory!OrderedByUse
        /\ part = "redis" => Redis!Cleared /\ Redis!SizeCounts
        /\ part = "tenantKeys" => TenantKeys!ServedToItsAudience /\ TenantKeys!OnlyNamedAudiences
        /\ part = "userKeys" => UserKeys!ServedToItsAudience /\ UserKeys!OnlyNamedAudiences)
  /\ [][/\ part = "memory" => Memory!EvictsLeastRecent
        /\ part = "redis" => Redis!ForeignKept
        /\ part = "tenantKeys" => TenantKeys!AudienceShares]_<< part, shared >>
=============================================================================
