--------------------------- MODULE IdentityProofs ---------------------------
(***************************************************************************)
(* Proofs about the identity of a request: which one a handler runs with,  *)
(* for any users, codes, tenants, principals and headers and any number of *)
(* AuthGuards (RequestIdentity); whose key verified its token, for any     *)
(* issuers, policies and size of the client map (JwksKeys); and what of it *)
(* leaves the process with a call, for every configuration, header map,    *)
(* context and any number of redirects (HttpPropagation).                  *)
(***************************************************************************)
EXTENDS RequestIdentity, JwksKeys, HttpPropagation, WellFoundedInduction, SequenceTheorems, TLAPS

-----------------------------------------------------------------------------
(* RequestIdentity: the inductive invariant.                               *)

Fields == {"userId", "tenant", "perms", "custom"}

Past == {"guard", "sync", "check", "handler"}

\* Type correctness, as far as the argument needs it.
Shapes ==
    /\ headers.identity \in Gateways \cup {NoIdentity}
    /\ DOMAIN store = Fields \cup {"source", "user"}
    /\ store.tenant \in Tenants \cup {None}
    /\ verified # <<>> => store.userId \in Users
    /\ DOMAIN req = {"perms", "permsFor", "trusted", "user"}
    /\ req.trusted.tenant \in Tenants \cup {None}
    /\ pc = "sync" => req.user \in Principals
    /\ \E S : verified \in Seq(S)
    /\ DOMAIN granted = Users

\* Where the gateway's fields are kept, before the first AuthGuard and after it.
Sources ==
    /\ pc \in {"middleware", "internal"} => verified = <<>>
    /\ verified = <<>> => store.source # "verified-principal"
    /\ verified # <<>> => store.source = "verified-principal"
    /\ pc = "middleware" => store = EmptyStore
    /\ pc = "check" => verified # <<>>

\* Without trust in the headers none of their fields is anywhere.
Untrusted ==
    ~(conf.trustedHeaders /\ headers.trusted) =>
        /\ store.source # "trusted-headers"
        /\ req.trusted = NoIdentity
        /\ verified = <<>> => store.tenant \in {None, Enriched.tenant}
        /\ pc \in Past /\ verified # <<>> => store.tenant = Latest(verified).tenant

\* A gateway that named a user or a tenant is remembered, and obeyed.
Bound ==
    (pc \in Past \cup {"internal"} /\ conf.trustedHeaders /\ conf.internal = None /\ headers.identity # NoIdentity) =>
        /\ verified = <<>> => store.source = "trusted-headers"
        /\ \A k \in {"userId", "tenant"} : TrustedOf[k] = headers.identity[k]
        /\ verified # <<>> =>
              \A k \in {"userId", "tenant"} : headers.identity[k] # None => store[k] = headers.identity[k]

\* Codes on the request were granted to the user they are kept for.
Owned ==
    /\ req.permsFor \in Users \cup {None}
    /\ req.permsFor # None /\ req.perms # None => req.perms \subseteq granted[req.permsFor]

\* The last guard's user is the store's, its codes are the request's, and one of
\* them is required once they were checked.
Admitted ==
    pc \in Past /\ verified # <<>> =>
        /\ store.userId = Latest(verified).userId
        /\ req.perms # None => req.permsFor = store.userId
        /\ Latest(verified).perms # None => req.perms = Latest(verified).perms
        /\ pc # "check" /\ conf.required # {} =>
              req.perms # None /\ store.perms = req.perms /\ conf.required \cap req.perms # {}

\* Past the internal guard there is a secret, or none is asked for.
Secured ==
    pc \in Past /\ conf.internal # None => conf.internal # Bad /\ headers.secret \in conf.internal \ {""}

IdentityInv == Shapes /\ Sources /\ Untrusted /\ Bound /\ Owned /\ Admitted /\ Secured

-----------------------------------------------------------------------------
(* Lemmas about the resolvers.                                             *)

\* The first usable claim is a usable one, whatever was skipped before it.
LEMMA FirstUsableIs ==
    ASSUME NEW T, NEW s \in Seq(T \cup {None, Bad})
    PROVE  FirstUsable(s) \in T \cup {None}
<1>1. CASE ~ \E n \in DOMAIN s : s[n] \notin {None, Bad}
    BY <1>1 DEF FirstUsable
<1>2. CASE \E n \in DOMAIN s : s[n] \notin {None, Bad}
    <2>1. PICK D : D = {n \in DOMAIN s : s[n] \notin {None, Bad}}
        OBVIOUS
    <2>2. D \subseteq Nat /\ D # {}
        BY <1>2, <2>1
    <2>3. PICK m \in D : \A n \in D : ~ (<<n, m>> \in OpToRel(<, Nat))
        BY <2>2, WFMin, NatLessThanWellFounded, Zenon
    <2>4. \A n \in D : ~ (n < m)
        BY <2>2, <2>3, Zenon DEF OpToRel
    <2>5. \A k \in 1..(m - 1) : k \in DOMAIN s /\ k < m
        BY <2>1
    <2>6. \A k \in 1..(m - 1) : s[k] \in {None, Bad}
        BY <2>1, <2>4, <2>5
    <2>7. PICK j : j = CHOOSE n \in DOMAIN s : s[n] \notin {None, Bad} /\ \A k \in 1..(n - 1) : s[k] \in {None, Bad}
        OBVIOUS
    <2>8. j \in DOMAIN s /\ s[j] \notin {None, Bad}
        BY <2>1, <2>3, <2>6, <2>7
    <2>9. FirstUsable(s) = s[j]
        BY <1>2, <2>7 DEF FirstUsable
    <2> QED
        BY <2>8, <2>9
<1> QED
    BY <1>1, <1>2

\* A principal that a resolver accepts has a user, and a tenant or none.
LEMMA Resolved ==
    ASSUME IdentityConstants, NEW p \in Principals, ResolveSucceeds(p)
    PROVE  Resolve(p).userId \in Users /\ Resolve(p).tenant \in Tenants \cup {None}
<1>1. /\ p.ids \in Seq(Users \cup {None, Bad}) /\ p.ids # <<>>
      /\ p.tenants \in Seq(Tenants \cup {None, Bad}) /\ p.tenants # <<>>
      /\ None # Bad
    BY DEF IdentityConstants
<1>2. /\ Resolve(p).userId \notin {None, Bad} /\ Resolve(p).tenant # Bad
    BY DEF ResolveSucceeds, normalizeContextIdentity
<1>3. CASE conf.resolver = "default"
    <2>1. Resolve(p).userId = FirstUsable(p.ids) /\ Resolve(p).tenant = FirstUsable(p.tenants)
        BY <1>3 DEF Resolve, defaultVerifiedPrincipalResolver
    <2>2. FirstUsable(p.ids) \in Users \cup {None} /\ FirstUsable(p.tenants) \in Tenants \cup {None}
        BY <1>1, FirstUsableIs
    <2> QED
        BY <1>2, <2>1, <2>2
<1>4. CASE conf.resolver # "default"
    <2>1. Resolve(p).userId = p.ids[1] /\ Resolve(p).tenant = p.tenants[1]
        BY <1>4 DEF Resolve, ConfiguredResolver
    <2>2. p.ids[1] \in Users \cup {None, Bad} /\ p.tenants[1] \in Tenants \cup {None, Bad}
        BY <1>1
    <2> QED
        BY <1>2, <2>1, <2>2
<1> QED
    BY <1>3, <1>4

\* The fields of a store made of an identity.
LEMMA StoreFields ==
    ASSUME NEW i, NEW source, NEW user
    PROVE  /\ DOMAIN StoreOf(i, source, user) = Fields \cup {"source", "user"}
           /\ StoreOf(i, source, user).userId = i.userId /\ StoreOf(i, source, user)["userId"] = i.userId
           /\ StoreOf(i, source, user).tenant = i.tenant /\ StoreOf(i, source, user)["tenant"] = i.tenant
           /\ StoreOf(i, source, user).perms = i.perms
           /\ StoreOf(i, source, user).source = source
BY DEF StoreOf, Fields

-----------------------------------------------------------------------------
(* The steps.                                                              *)

\* ContextMiddleware: headers count only when they are trusted.
LEMMA UseStep ==
    ASSUME IdentityConstants, IdentityInv, use
    PROVE  IdentityInv'
<1>1. Shapes /\ Sources /\ Untrusted /\ Owned
    BY DEF IdentityInv
<1>2. /\ pc = "middleware" /\ verified = <<>> /\ store = EmptyStore
      /\ UNCHANGED <<conf, headers, req, verified, granted>>
      /\ pc' \in {"internal", "401", "500"}
    BY <1>1 DEF use, Sources
<1>3. PICK i : i = headers.identity
    OBVIOUS
<1>4. /\ EmptyStore.tenant = None /\ EmptyStore.source = None /\ DOMAIN EmptyStore = Fields \cup {"source", "user"}
      /\ NoIdentity.tenant = None
    BY DEF EmptyStore, StoreOf, NoIdentity, Fields
<1>5. CASE store' = store
    <2>1. pc' = "internal" => ~conf.trustedHeaders \/ headers.identity = NoIdentity
        <3>1. StoreOf(i, "trusted-headers", None).source = "trusted-headers"
            BY StoreFields
        <3>2. store'.source = None
            BY <1>2, <1>4, <1>5
        <3> QED
            BY <1>2, <1>3, <3>1, <3>2 DEF use, hasIdentityHeaders, IdentityConstants
    <2>2. Shapes' /\ Sources' /\ Untrusted' /\ Owned' /\ Admitted' /\ Secured'
        BY <1>1, <1>2, <1>4, <1>5 DEF Shapes, Sources, Untrusted, Owned, Admitted, Secured, Past
    <2>3. Bound'
        BY <1>2, <2>1 DEF Bound, Past
    <2> QED
        BY <2>2, <2>3 DEF IdentityInv
<1>6. CASE store' # store
    <2>1. /\ conf.trustedHeaders /\ headers.trusted /\ i # NoIdentity /\ pc' = "internal"
          /\ normalizeContextIdentity(i, FALSE) /\ store' = StoreOf(i, "trusted-headers", None)
        BY <1>2, <1>3, <1>6 DEF use, hasIdentityHeaders
    <2>2. i \in Gateways /\ i.tenant # Bad
        BY <1>1, <1>3, <2>1 DEF Shapes, normalizeContextIdentity
    <2>3. i.tenant \in Tenants \cup {None}
        BY <2>2 DEF IdentityConstants
    <2>4. /\ DOMAIN store' = Fields \cup {"source", "user"} /\ store'["userId"] = i.userId /\ store'["tenant"] = i.tenant
          /\ store'.tenant = i.tenant /\ store'.source = "trusted-headers"
        BY <2>1, StoreFields
    <2>5. Shapes' /\ Sources' /\ Untrusted' /\ Owned' /\ Admitted' /\ Secured'
        BY <1>1, <1>2, <2>1, <2>3, <2>4 DEF Shapes, Sources, Untrusted, Owned, Admitted, Secured, Past
    <2>6. \A k \in {"userId", "tenant"} : TrustedOf'[k] = headers'.identity[k]
        BY <1>2, <1>3, <2>4 DEF TrustedOf, NoIdentity
    <2>7. Bound'
        BY <1>2, <2>4, <2>6 DEF Bound
    <2> QED
        BY <2>5, <2>7 DEF IdentityInv
<1> QED
    BY <1>5, <1>6

\* InternalGuard: only a caller with the secret may enrich the store.
LEMMA InternalStep ==
    ASSUME IdentityConstants, IdentityInv, InternalGuard
    PROVE  IdentityInv'
<1>1. Shapes /\ Sources /\ Untrusted /\ Bound /\ Owned
    BY DEF IdentityInv
<1>2. /\ pc = "internal" /\ verified = <<>>
      /\ UNCHANGED <<conf, headers, req, verified, granted>>
      /\ pc' \in {"guard", "500", "403"}
    BY <1>1 DEF InternalGuard, Sources
<1>3. /\ store' = store \/ (store' = Spread(Enriched, store) /\ conf.internal # None)
      /\ pc' = "guard" /\ conf.internal # None => conf.internal # Bad /\ headers.secret \in conf.internal \ {""}
    BY <1>2 DEF InternalGuard
<1>4. Owned' /\ Admitted' /\ Secured'
    BY <1>1, <1>2, <1>3 DEF Owned, Admitted, Secured, Past
<1>5. CASE store' = store
    BY <1>1, <1>2, <1>4, <1>5 DEF IdentityInv, Shapes, Sources, Untrusted, Bound, TrustedOf, Past
<1>6. CASE store' # store
    <2>1. store' = [k \in DOMAIN Enriched \cup DOMAIN store |-> IF k \in DOMAIN Enriched THEN Enriched[k] ELSE store[k]]
        BY <1>3, <1>6 DEF Spread
    <2>2. /\ DOMAIN Enriched \subseteq {"tenant", "userId", "custom"} /\ "tenant" \in DOMAIN Enriched
          /\ Enriched.tenant \in Tenants
        BY DEF IdentityConstants
    <2>3. DOMAIN store = Fields \cup {"source", "user"}
        BY <1>1 DEF Shapes
    <2>4. /\ DOMAIN store' = Fields \cup {"source", "user"} /\ store'.tenant = Enriched.tenant
          /\ store'.source = store.source
        BY <2>1, <2>2, <2>3 DEF Fields
    <2>5. Shapes' /\ Sources' /\ Untrusted'
        BY <1>1, <1>2, <2>2, <2>4 DEF Shapes, Sources, Untrusted
    <2>6. Bound'
        BY <1>2, <1>3, <1>6 DEF Bound
    <2> QED
        BY <1>4, <2>5, <2>6 DEF IdentityInv
<1> QED
    BY <1>5, <1>6

\* A step that only moves on: Passport answers, or the handler starts.
LEMMA MoveStep ==
    ASSUME IdentityConstants, IdentityInv, Authenticate \/ Handle
    PROVE  IdentityInv'
<1>1. Shapes /\ Sources /\ Untrusted /\ Bound /\ Owned /\ Admitted /\ Secured
    BY DEF IdentityInv
<1>2. /\ pc = "guard" /\ pc' \in {"sync", "401", "handler"}
      /\ UNCHANGED <<conf, headers, store, verified, granted>>
      /\ req' = req \/ \E p \in Principals : req' = [req EXCEPT !.user = p]
      /\ pc' = "sync" => \E p \in Principals : req' = [req EXCEPT !.user = p]
    BY DEF Authenticate, Handle
<1>3. DOMAIN req = {"perms", "permsFor", "trusted", "user"}
    BY <1>1 DEF Shapes
<1>4. /\ DOMAIN req' = DOMAIN req /\ req'.perms = req.perms /\ req'.permsFor = req.permsFor /\ req'.trusted = req.trusted
      /\ pc' = "sync" => req'.user \in Principals
    BY <1>2, <1>3
<1>5. Shapes' /\ Sources' /\ Untrusted' /\ Owned'
    BY <1>1, <1>2, <1>4 DEF Shapes, Sources, Untrusted, Owned, Past
<1>6. Bound'
    BY <1>1, <1>2, <1>4 DEF Bound, TrustedOf, Past
<1>7. Admitted' /\ Secured'
    BY <1>1, <1>2, <1>4 DEF Admitted, Secured, Past
<1> QED
    BY <1>5, <1>6, <1>7 DEF IdentityInv

\* syncVerifiedIdentity: the verified principal must agree with the gateway, and
\* codes kept for another user are dropped.
LEMMA SyncStep ==
    ASSUME IdentityConstants, IdentityInv, syncVerifiedIdentity
    PROVE  IdentityInv'
<1>1. Shapes /\ Sources /\ Untrusted /\ Bound /\ Owned /\ Admitted /\ Secured
    BY DEF IdentityInv
<1>2. pc = "sync" /\ conf' = conf /\ headers' = headers /\ req.user \in Principals
    BY <1>1 DEF syncVerifiedIdentity, Shapes
<1>3. DOMAIN req = {"perms", "permsFor", "trusted", "user"} /\ DOMAIN store = Fields \cup {"source", "user"}
    BY <1>1 DEF Shapes
<1>4. PICK v : v = Resolve(req.user)
    OBVIOUS
<1>5. PICK t : t = TrustedOf
    OBVIOUS
<1>6. PICK i : i = MergeIdentity(t, v)
    OBVIOUS
<1>7. t.tenant \in Tenants \cup {None}
    BY <1>1, <1>5 DEF Shapes, TrustedOf, NoIdentity
<1>8. ~(conf.trustedHeaders /\ headers.trusted) => t = NoIdentity
    BY <1>1, <1>5 DEF Untrusted, TrustedOf
<1>9. CASE ~ResolveSucceeds(req.user)
    <2>1. pc' = "401" /\ UNCHANGED <<store, req, verified, granted>>
        BY <1>9 DEF syncVerifiedIdentity
    <2> QED
        BY <1>1, <1>2, <2>1 DEF IdentityInv, Shapes, Sources, Untrusted, Bound, Owned, Admitted, Secured, Past
<1>10. CASE ResolveSucceeds(req.user) /\ hasConflict(t, v)
    <2>1. pc' = "401" /\ req' = [req EXCEPT !.trusted = t] /\ UNCHANGED <<store, verified, granted>>
        BY <1>4, <1>5, <1>10 DEF syncVerifiedIdentity
    <2>2. /\ DOMAIN req' = DOMAIN req /\ req'.trusted = t /\ req'.perms = req.perms /\ req'.permsFor = req.permsFor
        BY <1>3, <2>1
    <2>3. Shapes' /\ Sources' /\ Owned'
        BY <1>1, <1>2, <1>7, <2>1, <2>2 DEF Shapes, Sources, Owned
    <2>4. Untrusted'
        BY <1>1, <1>2, <1>8, <2>1, <2>2 DEF Untrusted, Past
    <2>5. Bound' /\ Admitted' /\ Secured'
        BY <2>1 DEF Bound, Admitted, Secured, Past
    <2> QED
        BY <2>3, <2>4, <2>5 DEF IdentityInv
<1>11. CASE ResolveSucceeds(req.user) /\ ~hasConflict(t, v)
    <2>1. /\ store' = setIdentity(i, req.user)
          /\ req' = [req EXCEPT !.trusted = t, !.perms = KeptPerms(i).perms, !.permsFor = KeptPerms(i).permsFor]
          /\ verified' = Append(verified, v)
          /\ granted' = [granted EXCEPT ![v.userId] =
                            @ \cup (IF v.perms # None THEN v.perms ELSE IF t.perms # None THEN t.perms ELSE {})]
          /\ pc' = IF conf.required = {} THEN "guard" ELSE "check"
        BY <1>4, <1>5, <1>6, <1>11 DEF syncVerifiedIdentity
    <2>2. v.userId \in Users /\ v.tenant \in Tenants \cup {None}
        BY <1>2, <1>4, <1>11, Resolved
    <2>3. v.userId # None
        BY <2>2 DEF IdentityConstants
    <2>4. /\ i.userId = v.userId /\ i.tenant = IF v.tenant # None THEN v.tenant ELSE t.tenant
          /\ i.perms = IF v.perms # None THEN v.perms ELSE IF t.perms # None THEN t.perms
                       ELSE IF req.permsFor = v.userId THEN req.perms ELSE None
        BY <1>6 DEF MergeIdentity, IF2
    <2>5. /\ DOMAIN store' = Fields \cup {"source", "user"}
          /\ store'.userId = i.userId /\ store'["userId"] = i.userId
          /\ store'.tenant = i.tenant /\ store'["tenant"] = i.tenant
          /\ store'.source = "verified-principal"
        <3>1. PICK j : j = [i EXCEPT !.custom = Spread(i.custom, store.custom)]
            OBVIOUS
        <3>2. j.userId = i.userId /\ j.tenant = i.tenant
            <4>1. DOMAIN i = Fields
                BY <1>6 DEF MergeIdentity, Fields
            <4> QED
                BY <3>1, <4>1 DEF Fields
        <3>3. store' = StoreOf(j, "verified-principal", req.user)
            BY <2>1, <3>1 DEF setIdentity
        <3> QED
            BY <3>2, <3>3, StoreFields
    <2>6. PICK K : K = KeptPerms(i)
        OBVIOUS
    <2>7. DOMAIN req' = DOMAIN req /\ req'.trusted = t /\ req'.perms = K.perms /\ req'.permsFor = K.permsFor
        BY <1>3, <2>1, <2>6
    <2>8. /\ i.perms # None => K.perms = i.perms /\ K.permsFor = v.userId
          /\ i.perms = None => K.perms = None /\ K.permsFor \in {None, v.userId}
        BY <2>4, <2>6 DEF KeptPerms
    <2>9. \E S : verified' \in Seq(S)
        <3>1. PICK S : verified \in Seq(S)
            BY <1>1 DEF Shapes
        <3>2. verified' \in Seq(S \cup {v})
            BY <2>1, <3>1
        <3> QED
            BY <3>2
    <2>10. verified' # <<>> /\ Latest(verified') = v
        <3>1. PICK S : verified \in Seq(S)
            BY <1>1 DEF Shapes
        <3> QED
            BY <2>1, <3>1 DEF Latest
    <2>11. /\ DOMAIN granted' = Users /\ \A u \in Users : granted[u] \subseteq granted'[u]
           /\ v.perms # None => v.perms \subseteq granted'[v.userId]
           /\ v.perms = None /\ t.perms # None => t.perms \subseteq granted'[v.userId]
        <3>1. DOMAIN granted = Users
            BY <1>1 DEF Shapes
        <3> QED
            BY <2>1, <2>2, <3>1
    <2>12. Shapes'
        BY <1>1, <1>2, <1>7, <2>1, <2>2, <2>4, <2>5, <2>7, <2>9, <2>11 DEF Shapes
    <2>13. Sources'
        BY <2>1, <2>5, <2>10 DEF Sources
    <2>14. Untrusted'
        BY <1>2, <1>8, <2>4, <2>5, <2>7, <2>10 DEF Untrusted, NoIdentity
    <2>15. Owned'
        <3>1. i.perms # None => i.perms \subseteq granted'[v.userId]
            BY <1>1, <2>2, <2>3, <2>4, <2>11 DEF Owned
        <3> QED
            BY <2>2, <2>7, <2>8, <3>1 DEF Owned
    <2>16. Admitted'
        BY <1>2, <2>1, <2>4, <2>5, <2>7, <2>8, <2>10 DEF Admitted
    <2>17. Secured'
        BY <1>1, <1>2, <2>1 DEF Secured, Past
    <2>18. Bound'
        <3>1. SUFFICES ASSUME conf.trustedHeaders, conf.internal = None, headers.identity # NoIdentity
                       PROVE  \A k \in {"userId", "tenant"} :
                                /\ TrustedOf'[k] = headers.identity[k]
                                /\ headers.identity[k] # None => store'[k] = headers.identity[k]
            BY <1>2, <2>10 DEF Bound
        <3>2. \A k \in {"userId", "tenant"} : t[k] = headers.identity[k]
            BY <1>1, <1>2, <1>5, <3>1 DEF Bound, Past
        <3>3. TrustedOf' = t
            BY <2>5, <2>7 DEF TrustedOf
        <3>4. \A k \in {"userId", "tenant"} : ~ (t[k] # None /\ v[k] # None /\ t[k] # v[k])
            BY <1>11 DEF hasConflict
        <3> QED
            BY <2>3, <2>4, <2>5, <3>2, <3>3, <3>4
    <2> QED
        BY <2>12, <2>13, <2>14, <2>15, <2>16, <2>17, <2>18 DEF IdentityInv
<1> QED
    BY <1>9, <1>10, <1>11

\* checkPermissions: codes are loaded for the user of the store.
LEMMA CheckStep ==
    ASSUME IdentityConstants, IdentityInv, checkPermissions
    PROVE  IdentityInv'
<1>1. Shapes /\ Sources /\ Untrusted /\ Bound /\ Owned /\ Admitted /\ Secured
    BY DEF IdentityInv
<1>2. PICK codes : codes = IF req.perms = None THEN Grants[store.userId][store.tenant] ELSE req.perms
    OBVIOUS
<1>3. /\ pc = "check" /\ verified # <<>> /\ conf' = conf /\ headers' = headers /\ verified' = verified
      /\ req' = IF req.perms = None THEN [req EXCEPT !.perms = codes, !.permsFor = store.userId] ELSE req
      /\ granted' = [granted EXCEPT ![store.userId] = @ \cup (IF req.perms = None THEN codes ELSE {})]
      /\ store' = [store EXCEPT !.perms = codes]
      /\ pc' = IF conf.required \cap codes = {} THEN "403" ELSE "guard"
    BY <1>1, <1>2 DEF checkPermissions, Sources
<1>4. /\ store.userId \in Users /\ store.tenant \in Tenants \cup {None}
      /\ DOMAIN req = {"perms", "permsFor", "trusted", "user"} /\ DOMAIN store = Fields \cup {"source", "user"}
      /\ DOMAIN granted = Users
    BY <1>1, <1>3 DEF Shapes
<1>5. codes # None
    <2>1. Grants[store.userId][store.tenant] \in SUBSET Codes
        BY <1>4 DEF IdentityConstants
    <2>2. Grants[store.userId][store.tenant] # None
        BY <2>1 DEF IdentityConstants
    <2> QED
        BY <1>2, <2>2
<1>6. /\ DOMAIN store' = DOMAIN store /\ store'.perms = codes
      /\ store'.userId = store.userId /\ store'.tenant = store.tenant /\ store'.source = store.source
      /\ store'["userId"] = store["userId"] /\ store'["tenant"] = store["tenant"]
    BY <1>3, <1>4 DEF Fields
<1>7. /\ DOMAIN req' = DOMAIN req /\ req'.perms = codes /\ req'.trusted = req.trusted
      /\ req'.permsFor = IF req.perms = None THEN store.userId ELSE req.permsFor
    BY <1>2, <1>3, <1>4
<1>8. /\ DOMAIN granted' = Users /\ \A u \in Users : granted[u] \subseteq granted'[u]
      /\ req.perms = None => codes \subseteq granted'[store.userId]
    BY <1>3, <1>4
<1>9. Shapes'
    BY <1>1, <1>3, <1>6, <1>7, <1>8 DEF Shapes
<1>10. Sources' /\ Untrusted' /\ Secured'
    BY <1>1, <1>3, <1>6, <1>7 DEF Sources, Untrusted, Secured, Past
<1>11. Bound'
    <2>1. store.source = "verified-principal"
        BY <1>1, <1>3 DEF Sources
    <2>2. TrustedOf = req.trusted /\ TrustedOf' = req.trusted
        BY <1>6, <1>7, <2>1 DEF TrustedOf
    <2> QED
        BY <1>1, <1>3, <1>6, <2>2 DEF Bound, Past
<1>12. Owned'
    BY <1>1, <1>2, <1>4, <1>7, <1>8 DEF Owned
<1>13. Admitted'
    <2>1. store.userId = Latest(verified).userId /\ (req.perms # None => req.permsFor = store.userId)
        BY <1>1, <1>3 DEF Admitted, Past
    <2>2. Latest(verified).perms # None => codes = Latest(verified).perms
        BY <1>1, <1>2, <1>3 DEF Admitted, Past
    <2> QED
        BY <1>3, <1>5, <1>6, <1>7, <2>1, <2>2 DEF Admitted, Past
<1> QED
    BY <1>9, <1>10, <1>11, <1>12, <1>13 DEF IdentityInv

-----------------------------------------------------------------------------
(* The theorem.                                                            *)

\* The invariant holds before the middleware runs.
LEMMA IdentityInvInit == IdentityConstants /\ IdentityInit => IdentityInv
<1> SUFFICES ASSUME IdentityConstants, IdentityInit PROVE IdentityInv
    OBVIOUS
<1>1. /\ pc = "middleware" /\ verified = <<>> /\ store = EmptyStore /\ headers.identity \in Gateways \cup {NoIdentity}
      /\ DOMAIN req = {"perms", "permsFor", "trusted", "user"} /\ req.trusted = NoIdentity /\ req.permsFor = None
      /\ DOMAIN granted = Users
    BY DEF IdentityInit
<1>2. /\ EmptyStore.tenant = None /\ EmptyStore.source = None /\ DOMAIN EmptyStore = Fields \cup {"source", "user"}
      /\ NoIdentity.tenant = None
    BY DEF EmptyStore, StoreOf, NoIdentity, Fields
<1>3. verified \in Seq({})
    BY <1>1
<1>4. Shapes
    BY <1>1, <1>2, <1>3 DEF Shapes
<1>5. Sources /\ Untrusted
    BY <1>1, <1>2 DEF Sources, Untrusted, Past, IdentityConstants
<1> QED
    BY <1>1, <1>4, <1>5 DEF IdentityInv, Bound, Owned, Admitted, Secured, Past

\* Every step keeps the invariant.
LEMMA IdentityInvStep == IdentityConstants /\ IdentityInv /\ [IdentityNext]_identityVars => IdentityInv'
<1> SUFFICES ASSUME IdentityConstants, IdentityInv, [IdentityNext]_identityVars PROVE IdentityInv'
    OBVIOUS
<1>1. CASE UNCHANGED identityVars
    <2>1. conf' = conf /\ headers' = headers /\ store' = store /\ req' = req /\ pc' = pc /\ verified' = verified
          /\ granted' = granted
        BY <1>1 DEF identityVars
    <2>2. Shapes' /\ Sources' /\ Secured' /\ Owned'
        BY <2>1 DEF IdentityInv, Shapes, Sources, Secured, Owned
    <2>3. Untrusted' /\ Admitted'
        BY <2>1 DEF IdentityInv, Untrusted, Admitted, Latest
    <2>4. Bound'
        BY <2>1 DEF IdentityInv, Bound, TrustedOf
    <2> QED
        BY <2>2, <2>3, <2>4 DEF IdentityInv
<1> QED
    BY <1>1, UseStep, InternalStep, MoveStep, SyncStep, CheckStep DEF IdentityNext

\* However many AuthGuards a request passes and whatever principals they see: a
\* handler runs for the user the last one verified, with codes granted to that
\* user, within the tenant the trusted gateway named; headers count only with
\* trust, and internal routes stay closed without a secret (ContextMiddleware,
\* InternalGuard, AuthGuard).
THEOREM Inbound == IdentityConstants => (IdentitySpec => []InboundIdentity)
<1> SUFFICES ASSUME IdentityConstants PROVE IdentitySpec => []InboundIdentity
    OBVIOUS
<1>1. IdentityInv => InboundIdentity
    <2> SUFFICES ASSUME IdentityInv PROVE InboundIdentity
        OBVIOUS
    <2>1. Shapes /\ Sources /\ Untrusted /\ Bound /\ Owned /\ Admitted /\ Secured
        BY DEF IdentityInv
    <2>2. Authorised
        <3>1. SUFFICES ASSUME pc = "handler", verified # <<>>, conf.required # {} PROVE Authorised
            BY DEF Authorised
        <3>2. PICK v : v = Latest(verified)
            OBVIOUS
        <3>3. /\ store.userId = v.userId /\ req.perms # None /\ req.permsFor = v.userId
              /\ v.perms # None => req.perms = v.perms
              /\ conf.required \cap req.perms # {}
            BY <2>1, <3>1, <3>2 DEF Admitted, Past
        <3>4. v.userId # None
            BY <2>1, <3>1, <3>3 DEF Shapes, IdentityConstants
        <3>5. req.perms \subseteq granted[v.userId]
            BY <2>1, <3>3, <3>4 DEF Owned
        <3> QED
            BY <3>2, <3>3, <3>5 DEF Authorised
    <2>3. GatewayBoundary
        <3>1. \A k \in {"userId", "tenant"} : NoIdentity[k] = None
            BY DEF NoIdentity
        <3> QED
            BY <2>1, <3>1 DEF GatewayBoundary, Bound, Past
    <2>4. HeadersNeedTrust
        BY <2>1 DEF HeadersNeedTrust, Untrusted, Past
    <2>5. ContextAgrees
        BY <2>1 DEF ContextAgrees, Admitted, Past
    <2>6. InternalClosed
        BY <2>1 DEF InternalClosed, Secured, Past
    <2>7. UserPresent
        BY <2>1 DEF UserPresent, Sources, Shapes, IdentityConstants
    <2> QED
        BY <2>2, <2>3, <2>4, <2>5, <2>6, <2>7 DEF InboundIdentity
<1> QED
    BY IdentityInvInit, IdentityInvStep, <1>1, PTL DEF IdentitySpec

-----------------------------------------------------------------------------
(* JwksKeys: the inductive invariant.                                      *)

\* A cached client asks the issuer that it is cached for, a trusted one, and no
\* other client is cached for that issuer.
ClientsOwn ==
    /\ clientMap \in Seq([iss : Issuers, uri : Issuers])
    /\ Len(clientMap) <= MAX_CLIENTS
    /\ \A i \in DOMAIN clientMap : clientMap[i].uri = clientMap[i].iss /\ TrustedIssuer(clientMap[i].iss)
    /\ \A i, j \in DOMAIN clientMap : clientMap[i].iss = clientMap[j].iss => i = j

\* The client that a request holds is the one of its issuer, even when the cache
\* has evicted it since.
RequestsOwn ==
    /\ DOMAIN request = Requests
    /\ \A r \in Requests : request[r] # Missing =>
          /\ DOMAIN request[r] = {"iss", "kid", "client", "key", "pc"}
          /\ request[r].pc = "key" =>
                /\ request[r].client.uri = request[r].iss
                /\ TrustedIssuer(request[r].iss)
          /\ request[r].key # Missing =>
                /\ request[r].key.iss = request[r].iss /\ request[r].key.kid = request[r].kid
                /\ TrustedIssuer(request[r].iss)

KeysInv == ClientsOwn /\ RequestsOwn

-----------------------------------------------------------------------------
\* The cached client of an issuer is found where it is (getClient).
LEMMA CachedClient ==
    ASSUME ClientsOwn, NEW iss
    PROVE  /\ getClient(iss) = 0 => \A i \in DOMAIN clientMap : clientMap[i].iss # iss
           /\ getClient(iss) # 0 => getClient(iss) \in DOMAIN clientMap /\ clientMap[getClient(iss)].iss = iss
<1> DEFINE found == {i \in 1..Len(clientMap) : clientMap[i].iss = iss}
<1>1. getClient(iss) = IF found # {} THEN Min(found) ELSE 0
    BY DEF getClient, SelectInSeq
<1>2. DOMAIN clientMap = 1..Len(clientMap) /\ Len(clientMap) \in Nat
    BY DEF ClientsOwn
<1>3. CASE found = {}
    BY <1>1, <1>2, <1>3
<1>4. CASE found # {}
    <2>1. PICK k \in found : TRUE
        BY <1>4
    <2>2. \A i \in found : i = k
        BY <1>2, <2>1 DEF ClientsOwn
    <2>3. \A y \in found : k =< y
        BY <1>2, <2>1, <2>2
    <2>4. Min(found) = k
        BY <2>1, <2>2, <2>3 DEF Min
    <2> QED
        BY <1>1, <1>2, <1>4, <2>1, <2>4
<1> QED
    BY <1>3, <1>4

\* A client is added to the map, its oldest one given up when it is full
\* (setClient).
LEMMA ClientAdded ==
    ASSUME KeysConstants, ClientsOwn, NEW iss \in Issuers, TrustedIssuer(iss),
           \A i \in DOMAIN clientMap : clientMap[i].iss # iss,
           policy' = policy, clientMap' = setClient([iss |-> iss, uri |-> iss])
    PROVE  ClientsOwn'
<1> DEFINE Clients == [iss : Issuers, uri : Issuers]
           client == [iss |-> iss, uri |-> iss]
           kept == IF Len(clientMap) >= MAX_CLIENTS THEN Tail(clientMap) ELSE clientMap
           shift == IF Len(clientMap) >= MAX_CLIENTS THEN 1 ELSE 0
<1>1. clientMap \in Seq(Clients) /\ Len(clientMap) \in Nat /\ MAX_CLIENTS \in Nat /\ MAX_CLIENTS >= 1
    BY DEF ClientsOwn, KeysConstants
<1>2. shift = 1 => clientMap # <<>> /\ Len(clientMap) >= 1
    BY <1>1
<1>3. kept \in Seq(Clients) /\ Len(kept) = Len(clientMap) - shift /\ Len(kept) \in Nat
    BY <1>1, <1>2
<1>4. \A i \in 1..Len(kept) : i + shift \in DOMAIN clientMap /\ kept[i] = clientMap[i + shift]
    <2>1. CASE Len(clientMap) >= MAX_CLIENTS
        BY <1>1, <1>2, <1>3, <2>1
    <2>2. CASE ~(Len(clientMap) >= MAX_CLIENTS)
        BY <1>1, <1>3, <2>2
    <2> QED
        BY <2>1, <2>2
<1>5. clientMap' = Append(kept, client)
    BY DEF setClient
<1>6. client \in Clients /\ client.iss = iss /\ client.uri = iss
    OBVIOUS
<1> HIDE DEF kept, client, Clients, shift
<1>7. /\ clientMap' \in Seq(Clients) /\ Len(clientMap') = Len(kept) + 1
      /\ \A i \in 1..Len(kept) : clientMap'[i] = kept[i]
      /\ clientMap'[Len(kept) + 1] = client
      /\ DOMAIN clientMap' = 1..(Len(kept) + 1)
    <2>1. PICK s \in Seq(Clients) : s = kept
        BY <1>3
    <2>2. PICK c \in Clients : c = client
        BY <1>6
    <2>3. /\ Append(s, c) \in Seq(Clients) /\ Len(Append(s, c)) = Len(s) + 1
          /\ \A i \in 1..Len(s) : Append(s, c)[i] = s[i]
          /\ Append(s, c)[Len(s) + 1] = c
        BY AppendProperties
    <2>4. DOMAIN Append(s, c) = 1..(Len(s) + 1)
        BY <2>3
    <2> QED
        BY <1>5, <2>1, <2>2, <2>3, <2>4
<1>8. Len(clientMap') <= MAX_CLIENTS
    BY <1>1, <1>3, <1>7 DEF ClientsOwn, shift
<1>9. \A i \in DOMAIN clientMap' : i = Len(kept) + 1 \/ i \in 1..Len(kept)
    BY <1>3, <1>7
<1>11. shift \in {0, 1}
    BY DEF shift
<1>12. \A i \in DOMAIN clientMap' : clientMap'[i].uri = clientMap'[i].iss /\ TrustedIssuer(clientMap'[i].iss)
    BY <1>4, <1>6, <1>7, <1>9 DEF ClientsOwn
<1>13. ASSUME NEW i \in DOMAIN clientMap', NEW j \in DOMAIN clientMap', clientMap'[i].iss = clientMap'[j].iss
       PROVE  i = j
    <2>1. CASE i \in 1..Len(kept) /\ j \in 1..Len(kept)
        <3>1. i + shift = j + shift
            BY <1>4, <1>7, <1>13, <2>1 DEF ClientsOwn
        <3> QED
            BY <1>3, <1>11, <2>1, <3>1
    <2>2. CASE i \in 1..Len(kept) /\ j = Len(kept) + 1
        BY <1>4, <1>6, <1>7, <1>13, <2>2
    <2>3. CASE j \in 1..Len(kept) /\ i = Len(kept) + 1
        BY <1>4, <1>6, <1>7, <1>13, <2>3
    <2> QED
        BY <1>9, <2>1, <2>2, <2>3
<1> QED
    BY <1>7, <1>8, <1>12, <1>13 DEF ClientsOwn, Clients, TrustedIssuer

\* One request changes; the others keep what they have.
LEMMA RequestSet ==
    ASSUME RequestsOwn, policy' = policy, NEW r \in Requests, NEW v, request' = [request EXCEPT ![r] = v],
           DOMAIN v = {"iss", "kid", "client", "key", "pc"},
           v.pc = "key" => v.client.uri = v.iss /\ TrustedIssuer(v.iss),
           v.key # Missing => v.key.iss = v.iss /\ v.key.kid = v.kid /\ TrustedIssuer(v.iss)
    PROVE  RequestsOwn'
<1>1. \A e : TrustedIssuer(e)' = TrustedIssuer(e)
    BY DEF TrustedIssuer
<1>2. DOMAIN request' = Requests /\ request'[r] = v /\ \A q \in Requests \ {r} : request'[q] = request[q]
    BY DEF RequestsOwn
<1> QED
    BY <1>1, <1>2 DEF RequestsOwn

\* An allowed issuer is a trusted one (isIssuerAllowed).
LEMMA Allowed ==
    ASSUME NEW iss, isIssuerAllowed(iss)
    PROVE  TrustedIssuer(iss)
BY DEF isIssuerAllowed, TrustedIssuer, NotSet

LEMMA ProviderStep ==
    ASSUME KeysConstants, KeysInv, NEW r \in Requests, NEW iss \in Issuers \cup {Missing}, NEW kid,
           secretOrKeyProvider(r, iss, kid)
    PROVE  KeysInv'
<1>1. ClientsOwn /\ RequestsOwn /\ policy' = policy
    BY DEF KeysInv, secretOrKeyProvider
<1>2. \A e : TrustedIssuer(e)' = TrustedIssuer(e)
    BY <1>1 DEF TrustedIssuer
<1>3. CASE iss = Missing \/ kid = Missing \/ ~isIssuerAllowed(iss)
    <2>1. clientMap' = clientMap /\ Settle(r, iss, kid, Missing)
        BY <1>3 DEF secretOrKeyProvider
    <2>2. ClientsOwn'
        BY <1>1, <1>2, <2>1 DEF ClientsOwn
    <2>3. RequestsOwn'
        <3> DEFINE v == [iss |-> iss, kid |-> kid, client |-> Missing, key |-> Missing, pc |-> "done"]
        <3>1. request' = [request EXCEPT ![r] = v]
            BY <2>1 DEF Settle
        <3>2. DOMAIN v = {"iss", "kid", "client", "key", "pc"} /\ v.pc # "key" /\ v.key = Missing
            OBVIOUS
        <3> HIDE DEF v
        <3> QED
            BY <1>1, <3>1, <3>2, RequestSet
    <2> QED
        BY <2>2, <2>3 DEF KeysInv
<1>4. CASE ~(iss = Missing \/ kid = Missing \/ ~isIssuerAllowed(iss))
    <2> DEFINE client == IF getClient(iss) = 0 THEN [iss |-> iss, uri |-> iss] ELSE clientMap[getClient(iss)]
               v == [iss |-> iss, kid |-> kid, client |-> client, key |-> Missing, pc |-> "key"]
    <2>1. /\ clientMap' = IF getClient(iss) = 0 THEN setClient(client) ELSE clientMap
          /\ request' = [request EXCEPT ![r] = v]
        BY <1>4 DEF secretOrKeyProvider
    <2>2. iss \in Issuers /\ TrustedIssuer(iss)
        BY <1>4, Allowed
    <2>3. client.uri = iss
        BY <1>1, CachedClient DEF ClientsOwn
    <2>4. ClientsOwn'
        <3>1. CASE getClient(iss) = 0
            BY <1>1, <2>1, <2>2, <3>1, CachedClient, ClientAdded
        <3>2. CASE getClient(iss) # 0
            BY <1>1, <1>2, <2>1, <3>2 DEF ClientsOwn
        <3> QED
            BY <3>1, <3>2
    <2>5. RequestsOwn'
        <3>1. /\ DOMAIN v = {"iss", "kid", "client", "key", "pc"} /\ v.key = Missing
              /\ v.client.uri = v.iss /\ TrustedIssuer(v.iss)
            BY <2>2, <2>3
        <3> HIDE DEF v
        <3> QED
            BY <1>1, <2>1, <3>1, RequestSet
    <2> QED
        BY <2>4, <2>5 DEF KeysInv
<1> QED
    BY <1>3, <1>4

LEMMA SigningStep ==
    ASSUME KeysInv, NEW r \in Requests, NEW ok \in BOOLEAN, getSigningKey(r, ok)
    PROVE  KeysInv'
<1> DEFINE old == request[r]
           key == IF ok THEN [iss |-> old.client.uri, kid |-> old.kid] ELSE Missing
           v == [old EXCEPT !.pc = "done", !.key = key]
<1>1. ClientsOwn /\ RequestsOwn /\ policy' = policy /\ clientMap' = clientMap
    BY DEF KeysInv, getSigningKey
<1>2. \A e : TrustedIssuer(e)' = TrustedIssuer(e)
    BY <1>1 DEF TrustedIssuer
<1>3. old # Missing /\ old.pc = "key" /\ request' = [request EXCEPT ![r] = v]
    BY <1>1 DEF getSigningKey, RequestsOwn
<1>4. DOMAIN old = {"iss", "kid", "client", "key", "pc"} /\ old.client.uri = old.iss /\ TrustedIssuer(old.iss)
    BY <1>1, <1>3 DEF RequestsOwn
<1>5. /\ DOMAIN v = {"iss", "kid", "client", "key", "pc"} /\ v.pc = "done" /\ v.key = key
      /\ v.iss = old.iss /\ v.kid = old.kid
    BY <1>4
<1>6. v.key # Missing => v.key.iss = v.iss /\ v.key.kid = v.kid /\ TrustedIssuer(v.iss)
    BY <1>4, <1>5
<1> HIDE DEF v
<1>7. RequestsOwn'
    BY <1>1, <1>3, <1>5, <1>6, RequestSet
<1>8. ClientsOwn'
    BY <1>1, <1>2 DEF ClientsOwn
<1> QED
    BY <1>7, <1>8 DEF KeysInv

\* What touches neither the policy nor the clients nor the requests.
LEMMA KeysSame ==
    ASSUME KeysInv, policy' = policy, clientMap' = clientMap, request' = request
    PROVE  KeysInv'
<1>1. \A e : TrustedIssuer(e)' = TrustedIssuer(e)
    BY DEF TrustedIssuer
<1> QED
    BY <1>1 DEF KeysInv, ClientsOwn, RequestsOwn

LEMMA KeysInvStep == KeysConstants /\ KeysInv /\ [KeysNext]_keysVars => KeysInv'
<1> SUFFICES ASSUME KeysConstants, KeysInv, [KeysNext]_keysVars PROVE KeysInv'
    OBVIOUS
<1>1. CASE ConstructStrategy
    BY <1>1, KeysSame DEF ConstructStrategy
<1>2. CASE \E r \in Requests, iss \in Issuers \cup {Missing}, kid \in Kids \cup {Missing} : secretOrKeyProvider(r, iss, kid)
    BY <1>2, ProviderStep
<1>3. CASE \E r \in Requests, ok \in BOOLEAN : getSigningKey(r, ok)
    BY <1>3, SigningStep
<1>4. CASE \E iss \in Issuers, kids \in SUBSET Kids : Rotate(iss, kids)
    BY <1>4, KeysSame DEF Rotate
<1>5. CASE UNCHANGED keysVars
    BY <1>5, KeysSame DEF keysVars
<1> QED
    BY <1>1, <1>2, <1>3, <1>4, <1>5 DEF KeysNext

LEMMA KeysInvInit == KeysConstants /\ KeysInit => KeysInv
<1> SUFFICES ASSUME KeysConstants, KeysInit PROVE KeysInv
    OBVIOUS
<1>1. clientMap = <<>> /\ request = [r \in Requests |-> Missing] /\ MAX_CLIENTS \in Nat \ {0}
    BY DEF KeysInit, KeysConstants
<1>2. ClientsOwn
    <2>1. <<>> \in Seq([iss : Issuers, uri : Issuers]) /\ Len(<<>>) = 0 /\ DOMAIN clientMap = {}
        BY <1>1
    <2> QED
        BY <1>1, <2>1 DEF ClientsOwn
<1>3. RequestsOwn
    BY <1>1 DEF RequestsOwn
<1> QED
    BY <1>2, <1>3 DEF KeysInv

\* For any issuers, policies and size of the client map: a token is verified only
\* with a key of the trusted issuer that it names, and tokens, verified or not,
\* make the map hold at most its maximum (secretOrKeyProvider).
THEOREM TokenKeys == KeysConstants => (KeysSpec => []IssuerKeys)
<1> SUFFICES ASSUME KeysConstants PROVE KeysSpec => []IssuerKeys
    OBVIOUS
<1>1. KeysInv => IssuerKeys
    BY DEF KeysInv, ClientsOwn, RequestsOwn, IssuerKeys, KeyOfIssuer, ClientsBounded
<1> QED
    BY KeysInvInit, KeysInvStep, <1>1, PTL DEF KeysSpec

-----------------------------------------------------------------------------
(* HttpPropagation: the inductive invariant.                               *)

\* Hops are recorded in a sequence from the call on, and the last one is what is
\* on the wire.
Recorded ==
    /\ \E S : sent \in Seq(S)
    /\ state = "flying" <=> sent # <<>>
    /\ sent # <<>> => wire = sent[Len(sent)].headers

Configured == config \in Configs /\ ctx \in Stores \cup {Undefined}

HttpInv == Configured /\ Recorded /\ OutboundIdentity

-----------------------------------------------------------------------------
(* What the policy makes of a message.                                     *)

\* Stripping removes the identity of any source.
LEMMA Stripped ==
    ASSUME NEW message, NEW h \in stripHeaders(message, identityHeaderNames(config))
    PROVE  ~CarriesIdentity(h) /\ h \in message
BY DEF stripHeaders, identityHeaderNames, CarriesIdentity, HeaderNames

\* The headers of the context carry values of the context (contextHeaderMap).
LEMMA ContextValues ==
    ASSUME HttpConstants, Configured, ctx # Undefined, NEW n \in DOMAIN contextHeaderMap
    PROVE  contextHeaderMap[n] \in {ctx.tenant, ctx.userId} \cup {ctx.custom[k] : k \in DOMAIN ctx.custom}
<1>1. DOMAIN config.custom \subseteq DOMAIN ctx.custom
    BY DEF HttpConstants, Configured
<1> DEFINE keys == {k \in DOMAIN config.custom : ctx.custom[k] # Undefined}
           customNames == {config.custom[k] : k \in keys}
<1>2. CASE n \in customNames
    <2>1. PICK k \in keys : config.custom[k] = n
        BY <1>2
    <2>2. PICK j : j = CHOOSE i \in keys : config.custom[i] = n
        OBVIOUS
    <2>3. j \in keys
        BY <2>1, <2>2
    <2>4. contextHeaderMap[n] = ctx.custom[j]
        BY <1>2, <2>2 DEF contextHeaderMap
    <2> QED
        BY <1>1, <2>3, <2>4
<1>3. CASE n \notin customNames
    BY <1>3 DEF contextHeaderMap
<1> QED
    BY <1>2, <1>3

\* What Rewrite lets through, once for every hop: nothing that carries an
\* identity but what the context says on the way to a trusted origin, and of the
\* reserved headers at most what the message had.
LEMMA Rewritten ==
    ASSUME HttpConstants, Configured, NEW message, NEW origin, NEW h \in Rewrite(message, origin)
    PROVE  /\ ~Trusted(origin) => ~CarriesIdentity(h) /\ Lower[h[1]] # Secret
           /\ CarriesIdentity(h) =>
                /\ ctx # Undefined
                /\ h[2] \in {ctx.tenant, ctx.userId} \cup {ctx.custom[k] : k \in DOMAIN ctx.custom}
           /\ Lower[h[1]] \in Reserved => h \in message
<1> DEFINE bare == stripHeaders(message, identityHeaderNames(config))
<1>1. h \in bare => ~CarriesIdentity(h) /\ h \in message
    BY Stripped
<1>2. CASE ~Trusted(origin)
    <2>1. h \in stripHeaders(bare, {Secret})
        BY <1>2 DEF Rewrite
    <2>2. h \in bare /\ Lower[h[1]] # Secret
        BY <2>1 DEF stripHeaders
    <2> QED
        BY <1>1, <1>2, <2>2
<1>3. CASE Trusted(origin)
    <2>1. h \in populateIdentityHeaders(bare)
        BY <1>3 DEF Rewrite
    <2>2. CASE h \in bare
        BY <1>1, <1>3, <2>2
    <2>3. CASE h \notin bare
        <3>1. ctx # Undefined
            BY <2>1, <2>3 DEF populateIdentityHeaders
        <3>2. PICK n \in propagate(config) \cap DOMAIN contextHeaderMap : h = <<n, contextHeaderMap[n]>>
            BY <2>1, <2>3, <3>1 DEF populateIdentityHeaders
        <3>3. Lower[h[1]] \notin Reserved
            BY <3>2 DEF propagate
        <3>4. h[2] \in {ctx.tenant, ctx.userId} \cup {ctx.custom[k] : k \in DOMAIN ctx.custom}
            BY <3>1, <3>2, ContextValues
        <3> QED
            BY <1>3, <3>1, <3>3, <3>4
    <2> QED
        BY <2>2, <2>3
<1> QED
    BY <1>2, <1>3

-----------------------------------------------------------------------------
(* The steps.                                                              *)

\* A step that sends nothing.
LEMMA QuietStep ==
    ASSUME HttpInv, UNCHANGED <<config, wire, sent>>, ctx' \in Stores \cup {Undefined},
           state' = "flying" <=> state = "flying"
    PROVE  HttpInv'
BY DEF HttpInv, Configured, Recorded, OutboundIdentity, NothingToUntrusted, IdentityIsContexts, SecretStaysLost,
       CredentialsAreCallers, Hops, CarriesIdentity

\* A hop: the rewritten message goes to url, the origin the policy was told is
\* url's or none, and the message is what the last hop left and a hook.
LEMMA HopStep ==
    ASSUME HttpConstants, HttpInv, NEW message, NEW url, NEW origin, NEW hook \in CallHeaders \cup {{}}, NEW added,
           message = IF sent = <<>> THEN added ELSE wire \cup hook,
           sent = <<>> => added \in CallHeaders,
           Trusted(origin) => origin = url,
           Send(url, Rewrite(message, origin), hook),
           UNCHANGED <<config, ctx>>, state' = "flying"
    PROVE  HttpInv'
<1>1. Configured /\ Recorded /\ OutboundIdentity
    BY DEF HttpInv
<1>2. PICK S : sent \in Seq(S)
    BY <1>1 DEF Recorded
<1>3. PICK hop : hop = [to |-> url, headers |-> Rewrite(message, origin), ctx |-> ctx, hook |-> hook]
    OBVIOUS
<1>4. PICK n : n = Len(sent)
    OBVIOUS
<1>5. n \in Nat /\ sent' = Append(sent, hop) /\ wire' = hop.headers
    BY <1>2, <1>3, <1>4 DEF Send
<1>6. sent' \in Seq(S \cup {hop})
    BY <1>2, <1>5
<1>7. /\ Len(sent') = n + 1 /\ sent'[n + 1] = hop
      /\ \A i \in 1 .. n : sent'[i] = sent[i]
    BY <1>2, <1>4, <1>5
<1>8. \A h \in hop.headers :
        /\ ~Trusted(origin) => ~CarriesIdentity(h) /\ Lower[h[1]] # Secret
        /\ CarriesIdentity(h) =>
             /\ ctx # Undefined
             /\ h[2] \in {ctx.tenant, ctx.userId} \cup {ctx.custom[k] : k \in DOMAIN ctx.custom}
        /\ Lower[h[1]] \in Reserved => h \in message
    BY <1>1, <1>3, Rewritten
<1>9. sent # <<>> => n \in 1 .. n /\ wire = sent[n].headers
    BY <1>1, <1>2, <1>4, <1>5 DEF Recorded
<1>10. \A i \in Hops' : i \in 1 .. n \/ i = n + 1
    BY <1>5, <1>7 DEF Hops
<1>11. Hops = 1 .. n
    BY <1>4 DEF Hops
<1>12. config' = config /\ \A h : CarriesIdentity(h)' <=> CarriesIdentity(h)
    BY DEF CarriesIdentity
<1>13. Configured'
    BY <1>1 DEF Configured
<1>14. Recorded'
    <2>1. sent' # <<>> /\ wire' = sent'[Len(sent')].headers
        BY <1>5, <1>6, <1>7
    <2> QED
        BY <1>6, <2>1 DEF Recorded
<1>15. NothingToUntrusted'
    <2>1. hop.to \notin config.trusted => \A h \in hop.headers : ~CarriesIdentity(h) /\ Lower[h[1]] # Secret
        BY <1>3, <1>8 DEF Trusted
    <2>2. \A i \in 1 .. n : sent[i].to \notin config.trusted =>
              \A h \in sent[i].headers : ~CarriesIdentity(h) /\ Lower[h[1]] # Secret
        BY <1>1, <1>11 DEF OutboundIdentity, NothingToUntrusted
    <2>3. \A i \in Hops' : sent'[i].to \notin config.trusted =>
              \A h \in sent'[i].headers : ~CarriesIdentity(h) /\ Lower[h[1]] # Secret
        BY <1>7, <1>10, <2>1, <2>2
    <2> QED
        BY <1>12, <2>3 DEF NothingToUntrusted
<1>16. IdentityIsContexts'
    <2> DEFINE Ours(e) == \A h \in e.headers : CarriesIdentity(h) =>
                   /\ e.ctx # Undefined
                   /\ h[2] \in {e.ctx.tenant, e.ctx.userId} \cup {e.ctx.custom[k] : k \in DOMAIN e.ctx.custom}
    <2>1. Ours(hop)
        <3>1. hop.ctx = ctx
            BY <1>3
        <3> QED
            BY <1>8, <3>1
    <2>2. \A i \in 1 .. n : Ours(sent[i])
        BY <1>1, <1>11 DEF OutboundIdentity, IdentityIsContexts
    <2>3. \A i \in Hops' : Ours(sent'[i])
        <3> HIDE DEF Ours
        <3> QED
            BY <1>7, <1>10, <2>1, <2>2
    <2> QED
        BY <1>12, <2>3 DEF IdentityIsContexts
<1>17. CredentialsAreCallers'
    <2>1. ASSUME NEW h \in hop.headers, Lower[h[1]] \in Reserved PROVE \E set \in CallHeaders : h \in set
        <3>1. h \in message
            BY <1>8, <2>1
        <3>2. CASE sent = <<>>
            BY <3>1, <3>2
        <3>3. CASE sent # <<>> /\ h \in hook
            BY <3>3
        <3>4. CASE sent # <<>> /\ h \notin hook
            <4>1. h \in sent[n].headers /\ n \in Hops
                BY <1>9, <1>11, <3>1, <3>4
            <4> QED
                BY <1>1, <2>1, <4>1 DEF OutboundIdentity, CredentialsAreCallers
        <3> QED
            BY <3>2, <3>3, <3>4
    <2>2. \A i \in 1 .. n : \A h \in sent[i].headers : Lower[h[1]] \in Reserved => \E set \in CallHeaders : h \in set
        BY <1>1, <1>11 DEF OutboundIdentity, CredentialsAreCallers
    <2>3. \A i \in Hops' : \A h \in sent'[i].headers : Lower[h[1]] \in Reserved => \E set \in CallHeaders : h \in set
        BY <1>7, <1>10, <2>1, <2>2
    <2> QED
        BY <2>3 DEF CredentialsAreCallers
<1>18. SecretStaysLost'
    <2>1. ASSUME NEW i \in Hops', NEW j \in Hops', i < j, sent'[i].to \notin config.trusted,
                 \A k \in i + 1 .. j : \A h \in sent'[k].hook : Lower[h[1]] # Secret,
                 NEW g \in sent'[j].headers, Lower[g[1]] = Secret
          PROVE  FALSE
        <3>1. i \in 1 .. n
            BY <1>5, <1>10, <2>1 DEF Hops
        <3>2. CASE j \in 1 .. n
            <4>1. \A k \in i + 1 .. j : sent'[k] = sent[k]
                BY <1>5, <1>7, <3>1, <3>2
            <4>2. /\ sent[i].to \notin config.trusted /\ g \in sent[j].headers
                  /\ \A k \in i + 1 .. j : \A h \in sent[k].hook : Lower[h[1]] # Secret
                BY <1>7, <2>1, <3>1, <3>2, <4>1
            <4> QED
                BY <1>1, <1>11, <2>1, <3>1, <3>2, <4>2 DEF OutboundIdentity, SecretStaysLost
        <3>3. CASE j = n + 1
            <4>1. g \in message
                BY <1>7, <1>8, <2>1, <3>3 DEF Reserved
            <4>2. sent # <<>>
                BY <1>2, <1>4, <3>1
            <4>3. g \notin hook
                <5>1. sent'[j].hook = hook /\ j \in i + 1 .. j
                    BY <1>3, <1>5, <1>7, <2>1, <3>1, <3>3
                <5> QED
                    BY <2>1, <5>1
            <4>4. g \in sent[n].headers
                BY <1>9, <4>1, <4>2, <4>3
            <4>5. CASE i = n
                <5>1. sent[n].to \notin config.trusted /\ n \in Hops
                    BY <1>7, <1>11, <2>1, <3>1, <4>5
                <5> QED
                    BY <1>1, <2>1, <4>4, <5>1 DEF OutboundIdentity, NothingToUntrusted
            <4>6. CASE i # n
                <5>1. i < n /\ i \in Hops /\ n \in Hops
                    BY <1>5, <1>11, <3>1, <4>6
                <5>2. \A k \in i + 1 .. n : k \in i + 1 .. j /\ sent'[k] = sent[k]
                    BY <1>5, <1>7, <3>1, <3>3
                <5>3. /\ sent[i].to \notin config.trusted
                      /\ \A k \in i + 1 .. n : \A h \in sent[k].hook : Lower[h[1]] # Secret
                    BY <1>7, <2>1, <3>1, <5>2
                <5> QED
                    BY <1>1, <2>1, <4>4, <5>1, <5>3 DEF OutboundIdentity, SecretStaysLost
            <4> QED
                BY <4>5, <4>6
        <3> QED
            BY <1>10, <3>2, <3>3
    <2> QED
        BY <1>12, <2>1 DEF SecretStaysLost
<1> QED
    BY <1>13, <1>14, <1>15, <1>16, <1>17, <1>18 DEF HttpInv, OutboundIdentity

\* Every step keeps the invariant.
LEMMA HttpInvStep ==
    ASSUME HttpConstants, HttpInv, [HttpNext]_httpVars
    PROVE  HttpInv'
<1>1. Configured /\ Recorded
    BY DEF HttpInv
<1>2. CASE UNCHANGED httpVars
    BY <1>1, <1>2, QuietStep DEF httpVars, Configured
<1>3. CASE Construct
    BY <1>1, <1>3, QuietStep DEF Construct, Configured
<1>4. ASSUME NEW url \in Urls, NEW message \in CallHeaders, Call(url, message) PROVE HttpInv'
    <2>1. PICK to : to = IF url.host = Undefined THEN config.baseURL ELSE url
        OBVIOUS
    <2>2. Trusted(requestOrigin(url)) => requestOrigin(url) = to
        BY <2>1 DEF Trusted, requestOrigin
    <2>3. sent = <<>> /\ state' = "flying" /\ UNCHANGED <<config, ctx>>
        BY <1>1, <1>4 DEF Recorded, Call
    <2>4. Send(to, Rewrite(message, requestOrigin(url)), {})
        BY <1>4, <2>1 DEF Call
    <2> QED
        BY <2>2, <2>3, <2>4, HopStep
<1>5. ASSUME NEW url \in Urls, NEW described \in BOOLEAN, NEW hook \in CallHeaders, Redirect(url, described, hook)
      PROVE  HttpInv'
    <2>1. Trusted(redirectOrigin(url, described)) => redirectOrigin(url, described) = url
        BY DEF Trusted, redirectOrigin
    <2>2. sent # <<>>
        BY <1>1, <1>5 DEF Redirect, Recorded
    <2>3. state' = "flying" /\ UNCHANGED <<config, ctx>>
        BY <1>5 DEF Redirect
    <2>4. Send(url, Rewrite(wire \cup hook, redirectOrigin(url, described)), hook)
        BY <1>5 DEF Redirect
    <2> QED
        BY <2>1, <2>2, <2>3, <2>4, HopStep
<1>6. ASSUME NEW c \in Stores, SetContext(c) PROVE HttpInv'
    BY <1>6, QuietStep DEF SetContext
<1> QED
    BY <1>2, <1>3, <1>4, <1>5, <1>6 DEF HttpNext

\* Nothing has been sent at first.
LEMMA HttpInvInit == HttpInit => HttpInv
<1> SUFFICES ASSUME HttpInit PROVE HttpInv
    OBVIOUS
<1>1. sent = <<>> /\ sent \in Seq({}) /\ Len(sent) = 0
    BY DEF HttpInit
<1>2. Hops = {}
    BY <1>1 DEF Hops
<1>3. Configured /\ Recorded
    BY <1>1 DEF HttpInit, Configured, Recorded
<1> QED
    BY <1>2, <1>3 DEF HttpInv, OutboundIdentity, NothingToUntrusted, IdentityIsContexts, SecretStaysLost,
                  CredentialsAreCallers

\* However a call is redirected, whatever its caller and its hook set and however
\* the context changes meanwhile: only trusted origins receive an identity or the
\* secret, an identity is the one the context had at the hop, a secret that an
\* untrusted hop lost does not come back, and no credential is the service's own
\* (the interceptor and the redirect policy of HttpService).
THEOREM Outbound == HttpConstants => (HttpSpec => []OutboundIdentity)
<1> SUFFICES ASSUME HttpConstants PROVE HttpSpec => []OutboundIdentity
    OBVIOUS
<1>1. HttpInv => OutboundIdentity
    BY DEF HttpInv
<1> QED
    BY HttpInvInit, HttpInvStep, <1>1, PTL DEF HttpSpec
=============================================================================
