------------------------------- MODULE JwksKeys -------------------------------
(***************************************************************************)
(* KeycloakJwtStrategy.secretOrKeyProvider: which key verifies a token. The *)
(* issuer a token names must be trusted; its JWKS client is taken from a    *)
(* bounded cache; getSigningKey is awaited while other tokens create and    *)
(* evict clients and issuers rotate their keys.                             *)
(***************************************************************************)
EXTENDS Integers, Sequences, SequencesExt, FiniteSets

CONSTANTS
    Missing,
    Issuers,      \* [host, realm]: host Missing is an iss that is no URL
    Kids,
    Policies,     \* [allowed, hosts, accepts]: accepts is Missing or what issuerValidator accepts
    Requests,
    MAX_CLIENTS,
    MaxRotations  \* bound

VARIABLES
    policy,
    ready,       \* the constructor accepted the policy
    clientMap,   \* cached clients in the order of insertion: [iss, uri]
    published,   \* published[iss]: the keys of its JWKS endpoint
    rotations,
    request      \* request[r]: Missing or [iss, kid, client, key, pc]

\* The map has room for a client.
KeysConstants == MAX_CLIENTS \in Nat \ {0}

keysVars == <<policy, ready, clientMap, published, rotations, request>>

-----------------------------------------------------------------------------
NotSet(names) == names = Missing \/ names = {}

\* A strategy without an issuer policy is not constructed.
ConstructStrategy ==
    /\ ready = FALSE
    /\ ~(NotSet(policy.allowed) /\ NotSet(policy.hosts) /\ policy.accepts = Missing)
    /\ ready' = TRUE
    /\ UNCHANGED <<policy, clientMap, published, rotations, request>>

isIssuerAllowed(iss) ==
    \/ policy.allowed # Missing /\ iss \in policy.allowed
    \/ ~NotSet(policy.hosts) /\ iss.host # Missing /\ iss.host \in policy.hosts
    \/ policy.accepts # Missing /\ iss \in policy.accepts

\* Mutant of getClient: clients are cached by host.
getClientOfHost(iss) == SelectInSeq(clientMap, LAMBDA c : c.iss.host = iss.host)

\* Position of the cached client of an issuer, 0 when there is none.
getClient(iss) == SelectInSeq(clientMap, LAMBDA c : c.iss = iss)

\* A full map loses the client that was inserted first.
setClient(client) == Append(IF Len(clientMap) >= MAX_CLIENTS THEN Tail(clientMap) ELSE clientMap, client)

Settle(r, iss, kid, key) == request' = [request EXCEPT ![r] = [iss |-> iss, kid |-> kid, client |-> Missing, key |-> key, pc |-> "done"]]

\* A token arrives: iss or kid may be missing, the issuer not trusted.
secretOrKeyProvider(r, iss, kid) ==
    /\ ready /\ request[r] = Missing
    /\ IF iss = Missing \/ kid = Missing \/ ~isIssuerAllowed(iss)
       THEN Settle(r, iss, kid, Missing) /\ UNCHANGED clientMap
       ELSE LET client == IF getClient(iss) = 0 THEN [iss |-> iss, uri |-> iss] ELSE clientMap[getClient(iss)]
            IN  /\ clientMap' = IF getClient(iss) = 0 THEN setClient(client) ELSE clientMap
                /\ request' = [request EXCEPT ![r] = [iss |-> iss, kid |-> kid, client |-> client, key |-> Missing, pc |-> "key"]]
    /\ UNCHANGED <<policy, ready, published, rotations>>

\* getSigningKey answers with the key of that id, or fails: the endpoint is down,
\* its rate limit is reached or it has no such key.
getSigningKey(r, ok) ==
    /\ request[r] # Missing /\ request[r].pc = "key"
    /\ ok => request[r].kid \in published[request[r].client.uri]
    /\ request' = [request EXCEPT ![r].pc = "done",
                                  ![r].key = IF ok THEN [iss |-> request[r].client.uri, kid |-> request[r].kid] ELSE Missing]
    /\ UNCHANGED <<policy, ready, clientMap, published, rotations>>

Rotate(iss, kids) ==
    /\ rotations < MaxRotations /\ rotations' = rotations + 1
    /\ published' = [published EXCEPT ![iss] = kids]
    /\ UNCHANGED <<policy, ready, clientMap, request>>

KeysInit ==
    /\ policy \in Policies /\ ready = FALSE /\ clientMap = <<>>
    /\ published = [i \in Issuers |-> Kids] /\ rotations = 0
    /\ request = [r \in Requests |-> Missing]

KeysNext ==
    \/ ConstructStrategy
    \/ \E r \in Requests, iss \in Issuers \cup {Missing}, kid \in Kids \cup {Missing} : secretOrKeyProvider(r, iss, kid)
    \/ \E r \in Requests, ok \in BOOLEAN : getSigningKey(r, ok)
    \/ \E iss \in Issuers, kids \in SUBSET Kids : Rotate(iss, kids)

\* The requests of a client have a timeout, so that every one is answered.
KeysSpec == KeysInit /\ [][KeysNext]_keysVars

-----------------------------------------------------------------------------
\* Issuers the policy names: listed, on a listed host, or accepted by the validator.
TrustedIssuer(iss) ==
    \/ ~NotSet(policy.allowed) /\ iss \in policy.allowed
    \/ ~NotSet(policy.hosts) /\ iss.host \in policy.hosts
    \/ ~NotSet(policy.accepts) /\ iss \in policy.accepts

\* The key that verifies a token is one of the issuer the token names, never of
\* another realm whose client was cached, and that issuer is trusted.
KeyOfIssuer ==
    \A r \in Requests : (request[r] # Missing /\ request[r].key # Missing) =>
        /\ request[r].key.iss = request[r].iss /\ request[r].key.kid = request[r].kid
        /\ TrustedIssuer(request[r].iss)

\* Tokens, verified or not, make the cache hold no more than its maximum, one
\* client per issuer, and only clients of trusted issuers.
ClientsBounded ==
    /\ Len(clientMap) <= MAX_CLIENTS
    /\ \A i, j \in DOMAIN clientMap : clientMap[i].iss = clientMap[j].iss => i = j
    /\ \A i \in DOMAIN clientMap : TrustedIssuer(clientMap[i].iss)

\* The two together: a token is verified only with a key of the trusted issuer
\* that it names, whatever the bounded cache has evicted.
IssuerKeys == KeyOfIssuer /\ ClientsBounded

Asked(r) == request[r] # Missing

Answered(r) == request[r] # Missing /\ request[r].pc = "done"
=============================================================================
