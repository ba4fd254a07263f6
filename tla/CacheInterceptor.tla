-------------------------- MODULE CacheInterceptor --------------------------
(***************************************************************************)
(* CacheInterceptor: requests to one @Cached handler are answered from a   *)
(* store keyed by a digest of the request context (scope) and of the       *)
(* request (business key).  A JavaScript value is a tagged tuple:          *)
(*   <<"u">> undefined, <<"n">> null, <<"b", bool>>, <<"d", text>> number, *)
(*   <<"s", text>> string, <<"a", values>> array,                          *)
(*   <<"o", [keys -> values]>> plain object, <<"x">> anything else         *)
(* (class instances, accessors, functions, cycles).  A text is a sequence  *)
(* of symbols.  The digest is taken to be injective on what is hashed, so  *)
(* keys are the hashed sequences themselves.                               *)
(***************************************************************************)
EXTENDS Integers, Sequences, SequencesExt

CONSTANTS
  Scope,          \* the decorator's scope: "global", "tenant", "user", other
  Resolver,       \* keyResolver: "none", "query", "throws"
  Inputs,         \* what arrives: [ctx, req], ctx a context (or <<"u">>),
                  \* req a request [http, method, url, params, query, body]
  MaxDepth,       \* MAX_CACHE_VALUE_DEPTH
  KeyOrder        \* the property names in sort order

VARIABLES
  store,  \* the cached entry: [key, by], by: the request that computed it
  last    \* the last request: [ctx, req, hit]

vars == << store, last >>

-----------------------------------------------------------------------------

UNSAFE == << "unsafe" >>

IsRecord(v) == v[1] = "o"

\* Own keys in sort order.
SortedKeys(f) == SelectSeq(KeyOrder, LAMBDA k : k \in DOMAIN f)

RECURSIVE toSafeCacheValue(_, _)

\* The value when every part of it is JSON-safe and not too deep.
toSafeCacheValue(v, depth) ==
  LET parts == IF v[1] \in {"a", "o"}
               THEN {toSafeCacheValue(v[2][i], depth + 1) : i \in DOMAIN v[2]} ELSE {}
  IN IF depth > MaxDepth \/ v[1] = "x" \/ UNSAFE \in parts THEN UNSAFE ELSE v

\* Mutant of writeText: the length is left out.
writeTextBare(marker, text) == << marker >> \o text

\* A text of fewer than ten symbols with its length.
writeText(marker, text) == << marker, ToString(Len(text)), ":" >> \o text

RECURSIVE visit(_)

\* What sha256 feeds to the digest.
visit(v) ==
  LET all(s) == FoldLeft(LAMBDA acc, x : acc \o x, << >>, s)
  IN CASE v[1] = "u" -> << "u;" >>
       [] v[1] = "n" -> << "n;" >>
       [] v[1] = "b" -> << IF v[2] THEN "b1;" ELSE "b0;" >>
       [] v[1] = "s" -> writeText("s", v[2])
       [] v[1] = "d" -> writeText("d", v[2])
       [] v[1] = "a" -> << "a", ToString(Len(v[2])), "[" >>
                          \o all([i \in DOMAIN v[2] |-> visit(v[2][i])]) \o << "]" >>
       [] v[1] = "o" ->
            LET keys == SortedKeys(v[2])
            IN << "o", ToString(Len(keys)), "{" >>
                 \o all([i \in DOMAIN keys |-> writeText("k", << keys[i] >>) \o visit(v[2][keys[i]])])
                 \o << "}" >>

VolatileKeys == {"request", "response", "token", "user"}

\* sort(): the elements in an order of their own, with their repetitions.
Sorted(s) ==
  FlattenSeq([i \in DOMAIN SetToSeq(Range(s)) |->
                SelectSeq(s, LAMBDA e : e = SetToSeq(Range(s))[i])])

\* Roles and permissions are order-independent when they are string arrays.
Normalized(k, v) ==
  IF /\ k \in {"roles", "permissions"}
     /\ v[1] = "a"
     /\ \A i \in DOMAIN v[2] : v[2][i][1] = "s"
  THEN << "a", Sorted(v[2]) >>
  ELSE v

\* The context fields that make up the namespace.
Selected(ctx) ==
  LET keys == DOMAIN ctx[2] \ (VolatileKeys \cup IF Scope = "tenant" THEN {"userId"} ELSE {})
  IN << "o", [k \in keys |-> Normalized(k, ctx[2][k])] >>

\* A field that is a string with more than blanks.
Filled(f, k) == k \in DOMAIN f /\ f[k][1] = "s" /\ \E i \in DOMAIN f[k][2] : f[k][2][i] # " "

\* The mandatory namespace; a context without the fields of its scope, or with
\* unsafe ones, bypasses the cache.
buildScopeMaterial(ctx) ==
  IF Scope = "global" THEN << "o", [scope |-> << "s", << "g" >> >>] >>
  ELSE IF \/ ~IsRecord(ctx)
          \/ toSafeCacheValue(Selected(ctx), 0) = UNSAFE
          \/ ~Filled(Selected(ctx)[2], "tenant")
          \/ Scope = "user" /\ ~Filled(Selected(ctx)[2], "userId")
       THEN UNSAFE
  ELSE << "o", [scope |-> << "s", << Scope >> >>, context |-> Selected(ctx)] >>

\* The normalized request, or UNSAFE.
buildHttpRequestDescriptor(r) ==
  IF /\ r.http
     /\ r.method # << >> /\ r.url # << >>
     /\ \A v \in {r.params, r.query, r.body} : toSafeCacheValue(v, 0) # UNSAFE
     /\ IsRecord(r.params) /\ IsRecord(r.query)
  THEN << "o", [method |-> << "s", r.method >>, url |-> << "s", r.url >>,
                params |-> r.params, query |-> r.query, body |-> r.body] >>
  ELSE UNSAFE

\* The business key a resolver selects from the descriptor.
Resolved(d) ==
  CASE Resolver = "none" -> d
    [] Resolver = "query" -> d[2].query
    [] Resolver = "throws" -> UNSAFE

\* The key, or UNSAFE when the cache is bypassed.
buildKey(ctx, r) ==
  LET d == buildHttpRequestDescriptor(r)
      scope == buildScopeMaterial(ctx)
  IN IF \/ Scope \notin {"global", "tenant", "user"}
        \/ d = UNSAFE
        \/ scope = UNSAFE
        \/ Resolved(d) = UNSAFE
        \/ toSafeCacheValue(Resolved(d), 0) = UNSAFE
     THEN UNSAFE
     ELSE << visit(scope), visit(Resolved(d)) >>

-----------------------------------------------------------------------------

NoEntry == [key |-> UNSAFE]

Init ==
  /\ store = NoEntry
  /\ last = [hit |-> FALSE]

\* A request is answered from the store, or its handler runs and its answer
\* takes the only place in the store; without a key the store is not used.
intercept(in) ==
  LET key == buildKey(in.ctx, in.req)
      hit == key # UNSAFE /\ store.key = key
  IN /\ last' = [ctx |-> in.ctx, req |-> in.req, hit |-> hit]
     /\ store' = IF key = UNSAFE \/ hit THEN store ELSE [key |-> key, by |-> in]

expire == store # NoEntry /\ store' = NoEntry /\ last' = [hit |-> FALSE]

Next == (\E in \in Inputs : intercept(in)) \/ expire

Spec == Init /\ [][Next]_vars

-----------------------------------------------------------------------------
(* Properties: a reference definition of which requests may share answers. *)

Field(ctx, k) == IF IsRecord(ctx) /\ k \in DOMAIN ctx[2] THEN ctx[2][k] ELSE << "missing" >>

\* An array without its order: how often each of its elements occurs.
Unordered(v) ==
  IF v[1] = "a" THEN << "bag", [e \in Range(v[2]) |-> Cardinality({i \in DOMAIN v[2] : v[2][i] = e})] >> ELSE v

\* Two contexts agree on everything that may shape an answer in the scope.
SameAudience(c, d) ==
  \/ Scope = "global"
  \/ /\ \A k \in {"tenant", "custom"} : Field(c, k) = Field(d, k)
     /\ \A k \in {"roles", "permissions"} : Unordered(Field(c, k)) = Unordered(Field(d, k))
     /\ Scope = "user" => Field(c, "userId") = Field(d, "userId")

SameRequest(r, s) ==
  IF Resolver = "query" THEN r.query = s.query
  ELSE << r.method, r.url, r.params, r.query, r.body >> = << s.method, s.url, s.params, s.query, s.body >>

\* An answer computed for one request is served only to requests of the same
\* audience and with the same business key: neither the digest's encoding nor
\* the selection of context fields lets two of them meet (buildKey).
ServedToItsAudience ==
  last.hit => SameAudience(last.ctx, store.by.ctx) /\ SameRequest(last.req, store.by.req)

\* A tenant- or user-scoped answer is stored only for a context that names
\* its tenant and user; anything else bypasses the cache (buildScopeMaterial).
OnlyNamedAudiences ==
  store # NoEntry /\ Scope # "global" =>
    /\ Field(store.by.ctx, "tenant")[1] = "s"
    /\ \E i \in DOMAIN Field(store.by.ctx, "tenant")[2] : Field(store.by.ctx, "tenant")[2][i] # " "
    /\ Scope = "user" => Field(store.by.ctx, "userId")[1] = "s"

\* Equal requests of one audience share one entry whatever the order of their
\* roles and whatever credentials they carry.
AudienceShares ==
  /\ store # NoEntry /\ store' # NoEntry
  /\ SameAudience(last'.ctx, store.by.ctx) /\ SameRequest(last'.req, store.by.req)
  /\ buildKey(last'.ctx, last'.req) # UNSAFE
  => last'.hit
=============================================================================
