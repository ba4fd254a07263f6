---------------------------- MODULE MCRequests ----------------------------
(***************************************************************************)
(* What serves a request around files: identity, outbound calls, the       *)
(* repository, its filters and its history.  The components share no       *)
(* state, so that a behaviour is one of a single part.  The                *)
(* variables of the components that theorems are about are their own; the  *)
(* other instances share v1 to v8.   A part that does not run rests in an  *)
(* initial state.                                                          *)
(***************************************************************************)
EXTENDS RequestIdentity, JwksKeys, HttpPropagation, ScopedRepository, ActionHistory, TLC

CONSTANTS Parts,   \* the parts of a run
          Rest     \* the value of v1 to v8 where they are not used

VARIABLES part, v1, v2, v3, v4, v5, v6, v7, v8

shared == << v1, v2, v3, v4, v5, v6, v7, v8 >>

vars == << part, identityVars, keysVars, httpVars, repositoryVars, pagesVars, shared >>

-----------------------------------------------------------------------------
(* Identity of a request.                                                  *)

P(ids, tenants, perms, custom) == [ids |-> ids, tenants |-> tenants, perms |-> perms, custom |-> custom]

Dept(v) == [dept |-> v]

\* Principals with and without codes, tenants and custom values; ids under the
\* second claim only, malformed tenants and codes, no usable id.
SomePrincipals ==
  {P(<<"u1", None>>, <<"t1", None>>, None, <<>>), P(<<"u1", None>>, <<"t2", None>>, None, Dept("d1")),
   P(<<"u2", None>>, <<None, "t1">>, None, <<>>), P(<<"u2", None>>, <<None, None>>, {"c2"}, Dept("d2")),
   P(<<"u1", None>>, <<Bad, "t1">>, {"c1"}, Dept("cycle")), P(<<None, "u2">>, <<None, None>>, None, <<>>),
   P(<<Bad, None>>, <<None, None>>, None, <<>>), P(<<"u1", None>>, <<None, None>>, Bad, <<>>)}

G(u, t, perms, custom) == [userId |-> u, tenant |-> t, perms |-> perms, custom |-> custom]

SomeGateways ==
  {G(None, "t1", None, <<>>), G("u1", "t1", None, Dept("d1")), G(None, None, {"c1"}, <<>>),
   G("u1", None, None, Dept("cycle")), G(Bad, "t1", None, <<>>)}

SomeGrants ==
  [u \in {"u1", "u2"} |-> [t \in {"t1", "t2", None} |->
      CASE u = "u1" /\ t = "t1" -> {"c1"} [] u = "u2" -> {"c2"} [] OTHER -> {}]]

\* No provider, an unset EnvInternalSecretProvider, an unset getKey(), a rotation.
SomeKeys == {Bad, {}, {""}, {"k1", "k2"}}

SomeEnriched == [tenant |-> "t2", userId |-> "u2", custom |-> Dept("d2")]

ASSUME IdentityAssumption == IdentityConstants

-----------------------------------------------------------------------------
(* Keys of token issuers: three requests, a cache of two clients.          *)

Issuer(host, realm) == [host |-> host, realm |-> realm]

Policy(allowed, hosts, accepts) == [allowed |-> allowed, hosts |-> hosts, accepts |-> accepts]

IssuerPolicies ==
  {Policy(Missing, {}, Missing), Policy(Missing, {"kc"}, Missing), Policy({Issuer("kc", "a")}, Missing, {Issuer(Missing, "text")}),
   Policy({}, {"kc", "other"}, {})}

ASSUME KeysAssumption == KeysConstants

SomeIssuers == {Issuer("kc", "a"), Issuer("kc", "b"), Issuer("other", "a"), Issuer(Missing, "text")}

-----------------------------------------------------------------------------
(* Outbound calls.                                                         *)

Url(scheme, host) == [scheme |-> scheme, host |-> host]

LowerNames ==
  [n \in {"x-tenant", "X-Tenant", "x-user-id", "x-dept", Secret, "X-Internal-Secret", "authorization", "accept"} |->
      CASE n = "X-Tenant" -> "x-tenant" [] n = "X-Internal-Secret" -> Secret [] OTHER -> n]

HttpConfig(tenant, custom, propagated, trusted, base) ==
  [tenant |-> tenant, userId |-> "x-user-id", custom |-> ("dept" :> custom), propagate |-> propagated,
   trusted |-> trusted, baseURL |-> base]

SomeConfigs ==
  {HttpConfig("x-tenant", "x-dept", Undefined, {Url("https", "in")}, Url("https", "in")),
   HttpConfig("X-Tenant", "x-tenant", Undefined, {Url("https", "in")}, Url("https", "out")),
   HttpConfig("x-tenant", "X-Internal-Secret", {"X-Tenant", "x-user-id", "X-Internal-Secret"}, {Url("https", "in")}, Undefined),
   HttpConfig(Undefined, "x-dept", {"x-dept", "authorization"}, {Url("https", "in")}, Undefined),
   HttpConfig("x-tenant", "x-dept", Undefined, {Url("ftp", "in")}, Undefined),
   HttpConfig("x-tenant", "x-dept", {"x-user-id"}, {}, Url("https", "out"))}

SomeCallHeaders ==
  {{}, {<<"X-Tenant", "forged">>, <<"X-Internal-Secret", "key">>},
   {<<"authorization", "token">>, <<Secret, "key">>, <<"x-user-id", "forged">>}}

Store(t, u, d) == [tenant |-> t, userId |-> u, custom |-> ("dept" :> d)]

SomeUrls == {Url("https", "in"), Url("https", "out"), Url("ftp", "in"), Url("https", Undefined)}

SomeStores == {Store("t1", "u1", Undefined), Store("t2", Undefined, "d1")}

ASSUME CallsAssumption == HttpConstants

-----------------------------------------------------------------------------
(* The repository.                                                         *)

Row(tenant, val) ==
  [exists |-> TRUE, scope |-> ("tenantCode" :> tenant), val |-> val, deleted |-> FALSE, modifiedBy |-> "null"]

Ctx(tenant, grant, legacy, user) ==
  [scope |-> ("tenantCode" :> tenant), grant |-> grant, legacyBypass |-> legacy, userId |-> user]

Scalar(v) == << "scalar", {v} >>
Array(S) == << "array", S >>
NoGrant == [given |-> FALSE]
Grant(valid, target, ops, sync) == [given |-> TRUE, valid |-> valid, target |-> target, ops |-> ops, sync |-> sync]

SomeParent == (1 :> 2) @@ (2 :> 1) @@ (3 :> 1)

\* Alice works for tenant A; Bob, without a user id, for both tenants, or under a
\* grant that lifts the scope of some operations.
AliceAndBob ==
     "alice" :> {Ctx(Scalar("A"), NoGrant, FALSE, "alice")}
  @@ "bob" :> {Ctx(Array({"A", "B"}), NoGrant, FALSE, "null"),
               Ctx(Scalar("B"), Grant(TRUE, TRUE, {"read", "update", "delete", "create"}, TRUE), FALSE, "null")}

\* A row of each tenant.
TwoRows == (1 :> Row("A", "draft")) @@ (2 :> Row("B", "draft"))

TwoAndOne == ("alice" :> 2) @@ ("bob" :> 1)

RepositoryRests == RepositoryInit /\ ~tx["bob"].ctx.grant.given

\* One request of every kind: scalar, allowed values, none, invalid, legacy
\* bypass, and grants that do and do not cover an operation.
EveryContext ==
  "alice" :> {Ctx(s, NoGrant, FALSE, "alice") :
               s \in {<< "absent", {} >>, Scalar("A"), Scalar("blank"), Array({}), Array({"A"}), Array({"A", "B"}), Array({"A", "blank"})}}
             \cup {Ctx(Scalar("A"), NoGrant, TRUE, "alice")}
             \cup {Ctx(Scalar("A"), Grant(v, t, ops, y), FALSE, "alice") :
                    v \in BOOLEAN, t \in BOOLEAN, y \in BOOLEAN, ops \in {{"read", "update"}, {"delete", "create", "import"}}}

Scoped == INSTANCE ScopedRepository WITH
  table <- v1, log <- v2, tx <- v3,
  Callers <- {"alice"}, Ids <- {1, 2, 3}, Vals <- {"draft", "final"}, Contexts <- EveryContext, Seed <- (1 :> Row("A", "draft")) @@ (2 :> Row("B", "draft")),
  MaxCalls <- ("alice" :> 2)

ASSUME RepositoryAssumption == RepositoryConstants /\ Scoped!RepositoryConstants

-----------------------------------------------------------------------------
(* Filters: one leaf of every kind: comparisons, membership (empty, with   *)
(* and without a NULL element), ranges (one without a bound), NULL tests,  *)
(* nullish data, LIKE, and operand columns.                                *)

Leaf(op, neg, field, given, data, ref) ==
  [op |-> op, neg |-> neg, field |-> field, given |-> given, data |-> data, ref |-> ref]

Lit(op, neg, data) == Leaf(op, neg, "a", TRUE, data, "")

FilterLeaves ==
  {Lit("EQUAL", TRUE, <<1>>), Lit("CONTAIN", FALSE, <<0>>),
   Lit("IN", FALSE, <<>>), Lit("IN", TRUE, <<0>>),
   Lit("BETWEEN", FALSE, <<0, -1>>), Lit("NULL", FALSE, <<>>),
   Leaf("EQUAL", FALSE, "b", FALSE, <<>>, ""), Leaf("EQUAL", FALSE, "a", TRUE, <<>>, "b"),
   Leaf("IN", TRUE, "a", TRUE, <<>>, "tags"),
   Leaf("EQUAL", FALSE, "org", TRUE, <<0>>, "")}

FilterGroupLeaves ==
  {Lit("EQUAL", TRUE, <<1>>), Lit("IN", FALSE, <<>>), Leaf("EQUAL", FALSE, "b", FALSE, <<>>, "")}

FilterEntities ==
     "root" :> [cols |-> {"name"}, rels |-> ("family" :> "family")]
  @@ "family" :> [cols |-> {"name"}, rels |-> ("members" :> "member")]
  @@ "member" :> [cols |-> {"name"}, rels |-> <<>>]

FilterPaths == UNION {[1..n -> {"name", "family", "members"}] : n \in 1..3}

Filters == INSTANCE FilterQuery WITH
  row <- v1, filters <- v2, order <- v3,
  Values <- {0, 1}, Leaves <- FilterLeaves, GroupLeaves <- FilterGroupLeaves, MaxFilters <- 2,
  ScopeFilters <- << Leaf("EQUAL", FALSE, "org", TRUE, <<1>>, "") >>,
  Like <- [k \in {"CONTAIN"} |-> {<<0, 0>>, <<1, 0>>, <<1, 1>>}], Entities <- FilterEntities, Paths <- FilterPaths

-----------------------------------------------------------------------------
(* Snapshots: every heap of a few objects.                                 *)

Field(key, value) == [key |-> key, value |-> value, ok |-> TRUE]

FieldKeys == {<<"name">>, <<"old", "password", "hash">>, <<"tax">>}

HeapLeaves == {"v1", "v2"}

\* Up to two fields with different keys, the second possibly unsafe.
FieldLists(objects) ==
  {<<>>} \cup {<<Field(k, v)>> : k \in FieldKeys, v \in HeapLeaves \cup objects}
  \cup {<<Field(<<"name">>, v), [key |-> k, value |-> x, ok |-> ok]>> :
          k \in FieldKeys \ {<<"name">>}, v \in HeapLeaves \cup objects, x \in {"v2"} \cup objects, ok \in BOOLEAN}

Heaps3 ==
  {("root" :> [kind |-> "object", fields |-> f]) @@ ("o1" :> [kind |-> inner, fields |-> g])
   @@ ("o2" :> [kind |-> "object", fields |-> <<Field(<<"tax">>, "v1")>>]) :
      inner \in {"object", "array"}, f \in FieldLists({"root", "o1", "o2"}), g \in FieldLists({"root", "o1", "o2"})}

LeafSize == [x \in HeapLeaves \cup {"[REDACTED]"} |-> IF x = "v1" THEN 1 ELSE 0]

Snapshot == INSTANCE HistorySnapshot WITH
  heap <- v1, redactFields <- v2, status <- v3, stack <- v4, seen <- v5, nodes <- v6, bytes <- v7, output <- v8,
  Heaps <- Heaps3, Root <- "root", Size <- LeafSize, Redacted <- "[REDACTED]",
  RedactFields <- {{}, {<<<<"tax">>>>}, {<<<<"name">>, <<"tax">>>>}}, MaxDepth <- 2, MaxNodes <- 5, MaxBytes <- 9

-----------------------------------------------------------------------------
(* Pages of the history: ceilings of 2, 3 and 4 for 100, 200 and 100,000.  *)

\* Page numbers, sizes and ceilings, in halves.
SomePages == {Bad, -2, 1, 2, 9}
SomeSizes == {None, -2, 1, 2, 99}
SomeMaxSizes == {None, Bad, -2, 99}

ASSUME PagesAssumption == PagesConstants

PagesRest == PagesInit /\ maxSize = Unspecified /\ context = [tenant |-> Unspecified, custom |-> Unspecified]

-----------------------------------------------------------------------------

After6 == << v7, v8 >>
After3 == << v4, v5, v6, After6 >>

Rests6 == v7 = Rest /\ v8 = Rest
Rests3 == v4 = Rest /\ v5 = Rest /\ v6 = Rest /\ Rests6

IdentityRests ==
  /\ conf = [trustedHeaders |-> FALSE, resolver |-> "default", internal |-> None, required |-> {}]
  /\ headers = [identity |-> NoIdentity, trusted |-> FALSE, secret |-> ""]
  /\ req = [perms |-> None, permsFor |-> None, trusted |-> NoIdentity, user |-> None]
  /\ IdentityInit

KeysRest == policy = Policy(Missing, {}, Missing) /\ KeysInit

CallsRest == config = HttpConfig("x-tenant", "x-dept", {"x-user-id"}, {}, Url("https", "out")) /\ ctx = Undefined /\ HttpInit

SharedInit ==
  \/ part = "scoped" /\ Scoped!RepositoryInit /\ Rests3
  \/ part = "filters" /\ Filters!Init /\ Rests3
  \/ part = "snapshot" /\ Snapshot!Init
  \/ part \in {"identity", "tokens", "calls", "repository", "pages"} /\ v1 = Rest /\ v2 = Rest /\ v3 = Rest /\ Rests3

PartsInit ==
  /\ part \in Parts
  /\ IF part = "identity" THEN IdentityInit ELSE IdentityRests
  /\ IF part = "tokens" THEN KeysInit ELSE KeysRest
  /\ IF part = "calls" THEN HttpInit ELSE CallsRest
  /\ IF part = "pages" THEN PagesInit ELSE PagesRest
  /\ IF part = "repository" THEN RepositoryInit ELSE RepositoryRests
  /\ SharedInit

SharedNext ==
  \/ part = "scoped" /\ Scoped!RepositoryNext /\ UNCHANGED After3
  \/ part = "filters" /\ Filters!Next /\ UNCHANGED After3
  \/ part = "snapshot" /\ Snapshot!Next

PartsNext ==
  /\ UNCHANGED part
  /\ \/ part = "identity" /\ IdentityNext /\ UNCHANGED << keysVars, httpVars, repositoryVars, pagesVars, shared >>
     \/ part = "tokens" /\ KeysNext /\ UNCHANGED << identityVars, httpVars, repositoryVars, pagesVars, shared >>
     \/ part = "calls" /\ HttpNext /\ UNCHANGED << identityVars, keysVars, repositoryVars, pagesVars, shared >>
     \/ part = "repository" /\ RepositoryNext /\ UNCHANGED << identityVars, keysVars, httpVars, pagesVars, shared >>
     \/ part = "pages" /\ PagesNext /\ UNCHANGED << identityVars, keysVars, httpVars, repositoryVars, shared >>
     \/ SharedNext /\ UNCHANGED << identityVars, keysVars, httpVars, repositoryVars, pagesVars >>

PartsSpec == PartsInit /\ [][PartsNext]_vars

-----------------------------------------------------------------------------
(* Properties of the instances.                                            *)

\* Reads and committed changes of a request of any kind stay in its scope or
\* under an audited grant and match their history, and no client filter widens a
\* request beyond its scope: filters narrow, an empty membership selects
\* nothing, NOT_ operators are complements except for NULL, and sorts name the
\* columns that filters on the same path name.
RequestsScoped ==
  /\ [](/\ part = "scoped" => Scoped!ReadsInScope
        /\ part = "filters" => Filters!ScopeHolds /\ Filters!EmptyMembership /\ Filters!Complement /\ Filters!PathsAgree)
  /\ [][/\ part = "scoped" => Scoped!ScopeStep /\ Scoped!HistoryStep
        /\ part = "filters" => Filters!FiltersNarrow]_vars

\* A stored snapshot is complete, within the ceilings and holds nothing below a
\* sensitive or configured field; none is refused for its size without cause.
SnapshotSafe ==
  part = "snapshot" => /\ Snapshot!SecretsRedacted /\ Snapshot!NothingLost
                       /\ Snapshot!Bounded /\ Snapshot!SmallStored
=============================================================================
