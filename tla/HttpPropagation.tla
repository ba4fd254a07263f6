---------------------------- MODULE HttpPropagation ----------------------------
(***************************************************************************)
(* HttpService: the identity of the request context travels only to trusted *)
(* origins. The interceptor rewrites the headers of a call before it is     *)
(* sent, and the redirect policy rewrites them again before every hop, after *)
(* the consumer's own beforeRedirect hook.                                  *)
(***************************************************************************)
EXTENDS Integers, Sequences, FiniteSets

CONSTANTS
    Undefined,
    Configs,     \* HttpClientConfig with the header map: [tenant, userId, custom, propagate, trusted, baseURL]
    Urls,        \* [scheme, host]; host Undefined is a URL relative to the base
    CallHeaders, \* sets of <<name, value>> a caller, or a consumer hook, may set
    Lower,       \* Lower[n]: the header name n in lower case
    Stores,    \* stores of the context: [tenant, userId, custom]
    MaxHops      \* bound

Secret == "x-internal-secret"

Reserved == {"authorization", Secret}

VARIABLES
    config,   \* the configuration the service was constructed with
    state,    \* "new", "refused", "ready", "flying"
    ctx,      \* the context's store, Undefined outside a request
    wire,     \* headers of the message about to follow a redirect
    sent      \* the hops made: [to, headers, ctx, hook]

httpVars == <<config, state, ctx, wire, sent>>

\* A context has a value, Undefined when it is not set, for every custom key that a
\* configuration names.
HttpConstants == \A c \in Configs, x \in Stores : DOMAIN c.custom \subseteq DOMAIN x.custom

-----------------------------------------------------------------------------
Or(x, y) == IF x # Undefined THEN x ELSE y

HeaderNames(set) == {Lower[n] : n \in set}

configured(c) == {Or(c.tenant, "x-tenant"), Or(c.userId, "x-user-id")} \cup {c.custom[k] : k \in DOMAIN c.custom}

propagate(c) == {n \in Or(c.propagate, configured(c)) : Lower[n] \notin Reserved}

identityHeaderNames(c) == HeaderNames(configured(c) \cup propagate(c)) \ Reserved

IsHttp(url) == url.scheme \in {"http", "https"}

\* The constructor throws when a trusted origin is not HTTP(S).
normalizeTrustedOrigin(c) == \A url \in c.trusted : IsHttp(url)

Trusted(origin) == origin # Undefined /\ origin \in config.trusted

\* A relative URL is resolved against the base; without one it does not parse.
requestOrigin(url) ==
    LET absolute == IF url.host = Undefined THEN config.baseURL ELSE url
    IN  IF absolute # Undefined /\ IsHttp(absolute) THEN absolute ELSE Undefined

\* follow-redirects hands over the target as an href or in parts; a target in
\* parts without a protocol or a host has no origin, and one that is not HTTP(S)
\* has none that is trusted.
redirectOrigin(url, described) == IF described /\ IsHttp(url) THEN url ELSE Undefined

\* Headers of the store by the name they are configured with; a later entry
\* replaces one of the same name.
contextHeaderMap ==
    LET custom == {k \in DOMAIN config.custom : ctx.custom[k] # Undefined}
        customNames == {config.custom[k] : k \in custom}
        userNames == IF Undefined \notin {config.userId, ctx.userId} THEN {config.userId} ELSE {}
        tenantNames == IF Undefined \notin {config.tenant, ctx.tenant} THEN {config.tenant} ELSE {}
    IN  [n \in customNames \cup userNames \cup tenantNames |->
            IF n \in customNames THEN ctx.custom[CHOOSE k \in custom : config.custom[k] = n]
            ELSE IF n \in userNames THEN ctx.userId ELSE ctx.tenant]

\* populateAxiosIdentityHeaders and populateRecordIdentityHeaders.
populateIdentityHeaders(headers) ==
    IF ctx = Undefined THEN headers
    ELSE headers \cup {<<n, contextHeaderMap[n]>> : n \in propagate(config) \cap DOMAIN contextHeaderMap}

stripHeaders(headers, names) == {h \in headers : Lower[h[1]] \notin names}

\* What the interceptor and the redirect policy do once they know the origin.
Rewrite(headers, origin) ==
    LET bare == stripHeaders(headers, identityHeaderNames(config))
    IN  IF Trusted(origin) THEN populateIdentityHeaders(bare) ELSE stripHeaders(bare, {Secret})

Send(url, headers, hook) ==
    /\ wire' = headers
    /\ sent' = Append(sent, [to |-> url, headers |-> headers, ctx |-> ctx, hook |-> hook])

Construct ==
    /\ state = "new"
    /\ state' = IF normalizeTrustedOrigin(config) THEN "ready" ELSE "refused"
    /\ UNCHANGED <<config, ctx, wire, sent>>

\* get, post, put, patch and delete. A relative URL goes where the base says;
\* one that has no base is not sent.
Call(url, headers) ==
    /\ state = "ready"
    /\ url.host = Undefined => config.baseURL # Undefined
    /\ state' = "flying"
    /\ Send(IF url.host = Undefined THEN config.baseURL ELSE url, Rewrite(headers, requestOrigin(url)), {})
    /\ UNCHANGED <<config, ctx>>

\* Mutant of Redirect: the policy rewrites a copy of the headers.
RedirectCopy(url, described, hook) ==
    /\ state = "flying" /\ Len(sent) < MaxHops /\ url.host # Undefined
    /\ wire' = wire \cup hook
    /\ sent' = Append(sent, [to |-> url, headers |-> Rewrite(wire', redirectOrigin(url, described)),
                             ctx |-> ctx, hook |-> hook])
    /\ UNCHANGED <<config, state, ctx>>

\* beforeRedirect: the consumer's hook first, then the policy.
Redirect(url, described, hook) ==
    /\ state = "flying" /\ Len(sent) < MaxHops /\ url.host # Undefined
    /\ Send(url, Rewrite(wire \cup hook, redirectOrigin(url, described)), hook)
    /\ UNCHANGED <<config, state, ctx>>

\* The handler that awaits the answer changes its context meanwhile.
SetContext(c) ==
    /\ state = "flying" /\ ctx # Undefined /\ ctx' = c
    /\ UNCHANGED <<config, state, wire, sent>>

HttpInit ==
    /\ config \in Configs /\ state = "new" /\ ctx \in Stores \cup {Undefined}
    /\ wire = {} /\ sent = <<>>

HttpNext ==
    \/ Construct
    \/ \E url \in Urls, headers \in CallHeaders : Call(url, headers)
    \/ \E url \in Urls, described \in BOOLEAN, hook \in CallHeaders : Redirect(url, described, hook)
    \/ \E c \in Stores : SetContext(c)

HttpSpec == HttpInit /\ [][HttpNext]_httpVars

-----------------------------------------------------------------------------
\* The names that carry an identity in this configuration.
CarriesIdentity(h) == Lower[h[1]] \in (HeaderNames(configured(config)) \ Reserved)

Hops == 1 .. Len(sent)

\* Whatever the caller or its redirect hook set, and however the call was
\* redirected, no origin but a trusted one receives an identity header or the
\* internal secret.
NothingToUntrusted ==
    \A i \in Hops : sent[i].to \notin config.trusted =>
        \A h \in sent[i].headers : ~CarriesIdentity(h) /\ Lower[h[1]] # Secret

\* An identity header on the wire has the value the context had when the hop was
\* made, never one the caller or its hook set, nor one of an earlier hop.
IdentityIsContexts ==
    \A i \in Hops : \A h \in sent[i].headers : CarriesIdentity(h) =>
        /\ sent[i].ctx # Undefined
        /\ h[2] \in {sent[i].ctx.tenant, sent[i].ctx.userId}
                        \cup {sent[i].ctx.custom[k] : k \in DOMAIN sent[i].ctx.custom}

\* A secret that an untrusted hop lost does not come back on a later trusted hop,
\* unless the consumer's hook adds it there or after.
SecretStaysLost ==
    \A i, j \in Hops : (i < j /\ sent[i].to \notin config.trusted
                        /\ \A k \in i + 1 .. j : \A h \in sent[k].hook : Lower[h[1]] # Secret) =>
        \A h \in sent[j].headers : Lower[h[1]] # Secret

\* The service itself never adds a credential: the secret and the authorization
\* header are on the wire only with a value that the caller or its hook set.
CredentialsAreCallers ==
    \A i \in Hops : \A h \in sent[i].headers : Lower[h[1]] \in Reserved =>
        \E set \in CallHeaders : h \in set

\* The four together: what a call may carry out of the process.
OutboundIdentity ==
    NothingToUntrusted /\ IdentityIsContexts /\ SecretStaysLost /\ CredentialsAreCallers
=============================================================================
