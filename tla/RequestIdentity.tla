--------------------------- MODULE RequestIdentity ---------------------------
(***************************************************************************)
(* How one HTTP request gets its identity: ContextMiddleware builds the     *)
(* context store, InternalGuard checks a shared secret, and AuthGuard runs  *)
(* once per place it is declared (globally, on the controller, on the       *)
(* route). Each AuthGuard authenticates again, so a later one may see       *)
(* another principal. tenant stands for the scalar fields (tenant,          *)
(* permissionVersion) and perms for the array fields (permissions, roles).  *)
(***************************************************************************)
EXTENDS Integers, Sequences, FiniteSets

CONSTANTS
    None,         \* an absent (undefined) value
    Bad,          \* a value of the wrong type, or blank
    Users, Codes,
    Principals,   \* what Passport may verify: [ids, tenants, perms, custom]
    Gateways,     \* what the gateway's headers may carry: [userId, tenant, perms, custom]
    Grants,       \* Grants[u][t]: the codes IPermissionStrategy.load finds
    Opaque,       \* custom values that are never equal (cycles, getters, class instances)
    Keys,         \* what the secret provider may return: sets of secrets, Bad without a provider
    Secrets,      \* what the X-Internal-Secret header may carry
    Enriched,     \* the store fields an internal context enricher writes
    MaxGuards     \* bound: AuthGuard runs on one request

VARIABLES
    conf,     \* configuration and route: trustedHeaders, resolver, required, and the
              \* internal secrets (None when the route has no InternalGuard)
    headers,  \* the request: identity headers, whether the gateway check accepts it, secret
    store,    \* the AsyncLocalStorage store
    req,      \* what guards keep on the request: perms, permsFor, trusted, user
    pc,       \* next step: middleware, internal, guard, sync, check, handler or a status code
    verified, \* the identities the AuthGuards resolved, in order
    granted   \* codes each user got from an authoritative source during the request

identityVars == <<conf, headers, store, req, pc, verified, granted>>

Tenants == UNION {DOMAIN Grants[u] : u \in Users} \ {None}

\* Absent and malformed values are told from the others, the strategy answers for
\* every user and tenant, ids and tenants are lists of claims, and an enricher
\* writes the tenant and maybe the user and custom values.
IdentityConstants ==
    /\ None \notin {Bad, "trusted-headers", "verified-principal"}
    /\ \A x \in {None, Bad} : x \notin Users \cup Tenants /\ \A codes \in SUBSET Codes : x # codes
    /\ Grants \in [Users -> [Tenants \cup {None} -> SUBSET Codes]]
    /\ \A p \in Principals :
          /\ p.ids \in Seq(Users \cup {None, Bad}) /\ p.ids # <<>>
          /\ p.tenants \in Seq(Tenants \cup {None, Bad}) /\ p.tenants # <<>>
          /\ p.perms \in {None, Bad} \cup SUBSET Codes
    /\ \A g \in Gateways :
          /\ DOMAIN g = {"userId", "tenant", "perms", "custom"}
          /\ g.userId \in Users \cup {None, Bad} /\ g.tenant \in Tenants \cup {None, Bad}
          /\ g.perms \in {None, Bad} \cup SUBSET Codes
    /\ "tenant" \in DOMAIN Enriched /\ Enriched.tenant \in Tenants
    /\ DOMAIN Enriched \subseteq {"tenant", "userId", "custom"}

NoIdentity == [userId |-> None, tenant |-> None, perms |-> None, custom |-> <<>>]

\* A store with the fields of identity i.
StoreOf(i, source, user) ==
    [userId |-> i.userId, tenant |-> i.tenant, perms |-> i.perms, custom |-> i.custom,
     source |-> source, user |-> user]

EmptyStore == StoreOf(NoIdentity, None, None)

\* { ...g, ...f }: the fields of f, and those of g that f lacks.
Spread(f, g) == [k \in DOMAIN f \cup DOMAIN g |-> IF k \in DOMAIN f THEN f[k] ELSE g[k]]

\* The first usable value of several claims: blank and mistyped ones are skipped.
FirstUsable(s) ==
    IF \E n \in DOMAIN s : s[n] \notin {None, Bad}
    THEN s[CHOOSE n \in DOMAIN s : /\ s[n] \notin {None, Bad}
                                   /\ \A k \in 1..(n - 1) : s[k] \in {None, Bad}]
    ELSE None

Given(s) == \E n \in DOMAIN s : s[n] # None

IF2(x, y) == IF x # None THEN x ELSE y

-----------------------------------------------------------------------------
(* Resolvers *)

\* What defaultVerifiedPrincipalResolver makes of a principal; it has no custom values.
defaultVerifiedPrincipalResolver(p) ==
    [userId |-> FirstUsable(p.ids), tenant |-> FirstUsable(p.tenants),
     perms |-> p.perms, custom |-> <<>>]

\* The resolver accepts a principal when it has an id and no field is malformed.
Resolvable(p) ==
    /\ FirstUsable(p.ids) # None
    /\ Given(p.tenants) => FirstUsable(p.tenants) # None
    /\ p.perms # Bad

\* Runtime checks on a resolved identity; failing one throws.
normalizeContextIdentity(i, requireUserId) ==
    /\ Bad \notin {i.userId, i.tenant, i.perms}
    /\ requireUserId => i.userId # None

\* A configured principalResolver may return any identity; this one maps the
\* first claims and adds custom values.
ConfiguredResolver(p) ==
    [userId |-> p.ids[1], tenant |-> p.tenants[1], perms |-> p.perms, custom |-> p.custom]

Resolve(p) ==
    IF conf.resolver = "default" THEN defaultVerifiedPrincipalResolver(p) ELSE ConfiguredResolver(p)

ResolveSucceeds(p) ==
    /\ conf.resolver = "default" => Resolvable(p)
    /\ normalizeContextIdentity(Resolve(p), TRUE)

-----------------------------------------------------------------------------
(* ContextMiddleware *)

hasIdentityHeaders(h) == h.identity # NoIdentity

\* buildStore: identity headers count only in trusted-header mode and from a
\* request the gateway check accepts; otherwise they are ignored or refused.
use ==
    /\ pc = "middleware"
    /\ IF ~conf.trustedHeaders \/ ~hasIdentityHeaders(headers)
       THEN pc' = "internal" /\ store' = EmptyStore
       ELSE IF ~headers.trusted THEN pc' = "401" /\ UNCHANGED store
       ELSE IF ~normalizeContextIdentity(headers.identity, FALSE) THEN pc' = "500" /\ UNCHANGED store
       ELSE /\ store' = StoreOf(headers.identity, "trusted-headers", None)
            /\ pc' = "internal"
    /\ UNCHANGED <<conf, headers, req, verified, granted>>

-----------------------------------------------------------------------------
(* InternalGuard *)

\* canActivate: 500 without a provider, 403 for a missing or unknown secret;
\* only then the enricher may write to the store.
InternalGuard ==
    /\ pc = "internal"
    /\ IF conf.internal = None THEN pc' = "guard" /\ UNCHANGED store
       ELSE IF conf.internal = Bad THEN pc' = "500" /\ UNCHANGED store
       ELSE IF headers.secret = "" \/ headers.secret \notin conf.internal THEN pc' = "403" /\ UNCHANGED store
       ELSE pc' = "guard" /\ store' \in {store, Spread(Enriched, store)}
    /\ UNCHANGED <<conf, headers, req, verified, granted>>

-----------------------------------------------------------------------------
(* AuthGuard *)

\* super.canActivate: Passport verifies the token and sets req.user, or 401.
Authenticate ==
    /\ pc = "guard" /\ Len(verified) < MaxGuards
    /\ \/ \E p \in Principals : req' = [req EXCEPT !.user = p] /\ pc' = "sync"
       \/ pc' = "401" /\ UNCHANGED req
    /\ UNCHANGED <<conf, headers, store, verified, granted>>

\* Overlapping custom values are compared without getters or cycles.
safeIdentityValueEqual(x, y) == x = y /\ x \notin Opaque

customConflict(l, r) ==
    \E k \in DOMAIN l \cap DOMAIN r : ~safeIdentityValueEqual(l[k], r[k])

\* A field given by both the gateway and the principal must be the same.
hasConflict(t, v) ==
    \/ \E k \in {"userId", "tenant", "perms"} : t[k] # None /\ v[k] # None /\ t[k] # v[k]
    \/ customConflict(t.custom, v.custom)

\* pickIdentity, and the copy kept on the request for later guards.
TrustedOf ==
    IF store.source = "trusted-headers" THEN [k \in DOMAIN NoIdentity |-> store[k]] ELSE req.trusted

\* The verified fields, completed by the gateway's, completed by codes already
\* resolved for the same user.
MergeIdentity(t, v) ==
    [userId |-> v.userId,
     tenant |-> IF2(v.tenant, t.tenant),
     perms |-> IF2(v.perms, IF2(t.perms, IF req.permsFor = v.userId THEN req.perms ELSE None)),
     custom |-> Spread(v.custom, t.custom)]

\* ContextService.setIdentity: identity fields are replaced, custom is merged.
setIdentity(i, user) ==
    StoreOf([i EXCEPT !.custom = Spread(i.custom, store.custom)], "verified-principal", user)

\* Mutant of KeptPerms: codes on the request survive a change of user.
KeptPermsAlways(i) ==
    IF i.perms # None THEN [perms |-> i.perms, permsFor |-> i.userId]
    ELSE [perms |-> req.perms, permsFor |-> req.permsFor]

\* The codes on the request after a guard has established identity i.
KeptPerms(i) ==
    IF i.perms # None THEN [perms |-> i.perms, permsFor |-> i.userId]
    ELSE IF req.permsFor # i.userId THEN [perms |-> None, permsFor |-> None]
    ELSE [perms |-> req.perms, permsFor |-> req.permsFor]

\* syncVerifiedIdentity
syncVerifiedIdentity ==
    LET v == Resolve(req.user)
        t == TrustedOf
        i == MergeIdentity(t, v)
    IN  /\ pc = "sync"
        /\ IF ~ResolveSucceeds(req.user)
           THEN pc' = "401" /\ UNCHANGED <<store, req, verified, granted>>
           ELSE IF hasConflict(t, v)
           THEN pc' = "401" /\ req' = [req EXCEPT !.trusted = t] /\ UNCHANGED <<store, verified, granted>>
           ELSE /\ store' = setIdentity(i, req.user)
                /\ req' = [req EXCEPT !.trusted = t, !.perms = KeptPerms(i).perms, !.permsFor = KeptPerms(i).permsFor]
                /\ verified' = Append(verified, v)
                /\ granted' = [granted EXCEPT ![v.userId] =
                                  @ \cup (IF v.perms # None THEN v.perms ELSE IF t.perms # None THEN t.perms ELSE {})]
                /\ pc' = IF conf.required = {} THEN "guard" ELSE "check"
        /\ UNCHANGED <<conf, headers>>

\* checkPermissions: codes are loaded once, mirrored into the context, and one
\* of the required codes must be among them.
checkPermissions ==
    LET codes == IF req.perms = None THEN Grants[store.userId][store.tenant] ELSE req.perms
    IN  /\ pc = "check"
        /\ req' = IF req.perms = None THEN [req EXCEPT !.perms = codes, !.permsFor = store.userId] ELSE req
        /\ granted' = [granted EXCEPT ![store.userId] = @ \cup (IF req.perms = None THEN codes ELSE {})]
        /\ store' = [store EXCEPT !.perms = codes]
        /\ pc' = IF conf.required \cap codes = {} THEN "403" ELSE "guard"
        /\ UNCHANGED <<conf, headers, verified>>

\* All guards have passed: the handler runs. A route is internal, guarded by
\* AuthGuard, or both.
Handle ==
    /\ pc = "guard" /\ (conf.internal # None \/ verified # <<>>)
    /\ pc' = "handler"
    /\ UNCHANGED <<conf, headers, store, req, verified, granted>>

-----------------------------------------------------------------------------

IdentityInit ==
    /\ conf \in [trustedHeaders : BOOLEAN, resolver : {"default", "configured"},
                 internal : Keys \cup {None}, required : SUBSET Codes]
    /\ headers \in [identity : Gateways \cup {NoIdentity}, trusted : BOOLEAN, secret : Secrets]
    /\ conf.internal = None => headers.secret = ""
    /\ store = EmptyStore
    \* Something before the guards may already have put codes on the request.
    /\ req \in [perms : {None, Codes}, permsFor : {None}, trusted : {NoIdentity}, user : {None}]
    /\ pc = "middleware"
    /\ verified = <<>>
    /\ granted = [u \in Users |-> {}]

IdentityNext ==
    \/ use \/ InternalGuard \/ Authenticate \/ syncVerifiedIdentity \/ checkPermissions \/ Handle

IdentitySpec == IdentityInit /\ [][IdentityNext]_identityVars

-----------------------------------------------------------------------------
(* Properties *)

Latest(s) == s[Len(s)]

\* Whatever principals the guards of one request saw, a handler that requires
\* codes runs only for a user who got one of them from verified claims, from
\* the trusted gateway or from the strategy; codes resolved for another user,
\* or put on the request by someone else, never admit it (checkPermissions).
Authorised ==
    pc = "handler" /\ verified # <<>> /\ conf.required # {} =>
        LET v == Latest(verified)
        IN  /\ store.userId = v.userId
            /\ conf.required \cap granted[v.userId] # {}
            /\ v.perms # None => conf.required \cap v.perms # {}

\* A tenant or user named by the trusted gateway binds every guard of the
\* request: no later principal moves the request out of it
\* (syncVerifiedIdentity).
GatewayBoundary ==
    pc = "handler" /\ verified # <<>> /\ conf.trustedHeaders /\ conf.internal = None =>
        \A k \in {"userId", "tenant"} :
            headers.identity[k] # None => store[k] = headers.identity[k]

\* Identity headers have an effect only in trusted-header mode and from a
\* request the gateway check accepted: otherwise a handler sees the tenant of
\* its principal or of the enricher, or none (buildStore).
HeadersNeedTrust ==
    pc = "handler" /\ ~(conf.trustedHeaders /\ headers.trusted) =>
        IF verified # <<>> THEN store.tenant = Latest(verified).tenant
        ELSE store.tenant \in {None, Enriched.tenant}

\* What hasPermission() answers downstream is what the guard checked
\* (checkPermissions).
ContextAgrees ==
    pc = "handler" /\ verified # <<>> /\ conf.required # {} =>
        store.perms = req.perms /\ req.permsFor = store.userId

\* An internal handler runs only for a caller that presented a configured,
\* non-empty secret (EnvInternalSecretProvider: routes stay closed until
\* configured).
InternalClosed ==
    pc = "handler" /\ conf.internal # None =>
        conf.internal # Bad /\ headers.secret \in conf.internal \ {""}

\* A verified handler always has a user in its context (AuthGuard,
\* normalizeContextIdentity).
UserPresent ==
    store.source = "verified-principal" => store.userId # None

\* The six together: the identity a request gets.
InboundIdentity ==
    /\ Authorised /\ GatewayBoundary /\ HeadersNeedTrust
    /\ ContextAgrees /\ InternalClosed /\ UserPresent
=============================================================================
