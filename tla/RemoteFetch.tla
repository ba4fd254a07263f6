----------------------------- MODULE RemoteFetch -----------------------------
(***************************************************************************)
(* secureFetchRemote: each hop of a remote clone checks its URL, resolves   *)
(* the host, requires every resolved address to be public, and connects to  *)
(* the first of them whatever DNS says by then. Lookup and request are      *)
(* awaits; names are rebound meanwhile. A 32-bit value is a pair of halves. *)
(***************************************************************************)
EXTENDS Integers, Sequences, SequencesExt, FiniteSets

CONSTANTS
    None, Bad,   \* an absent value, and one that is not finite or does not parse
    Urls,        \* [scheme, host, credentials]
    Answers,     \* what DNS may answer: sequences of addresses
    OptionSets,  \* RemoteCloneOptions: [enabled, maxBytes, maxRedirects, allowedHosts]
    Sizes,       \* sizes, in megabytes, that a body or a content-length may have
    MaxRebinds   \* bound

VARIABLES
    options,
    pc,         \* "start", "hop", "resolved", "requested", "done"
    current,    \* the URL of this hop
    redirect,   \* redirects followed
    dns,        \* dns[host]: what a lookup answers now
    rebinds,
    pinned,     \* the answer of this hop's lookup
    made,       \* connections made: [host, address, answer]
    result      \* None, Bad (an error) or [bytes, url]

vars == <<options, pc, current, redirect, dns, rebinds, pinned, made, result>>

-----------------------------------------------------------------------------
(* Addresses. An IPv4 address is its four numbers. The text of an IPv6       *)
(* address is its groups left and right of "::" (elided) and a dotted tail.  *)

IsV4(a) == "v4" \in DOMAIN a

ipv4Number(bytes) ==
    IF Len(bytes) = 4 /\ \A i \in 1 .. 4 : bytes[i] \in 0 .. 255
    THEN <<bytes[1] * 256 + bytes[2], bytes[3] * 256 + bytes[4]>>
    ELSE Bad

inIpv4Range(value, base, prefix) ==
    IF prefix <= 16 THEN value[1] \div 2 ^ (16 - prefix) = base[1] \div 2 ^ (16 - prefix)
    ELSE value[1] = base[1] /\ value[2] \div 2 ^ (32 - prefix) = base[2] \div 2 ^ (32 - prefix)

Blocked ==
    {<<<<0, 0, 0, 0>>, 8>>, <<<<10, 0, 0, 0>>, 8>>, <<<<100, 64, 0, 0>>, 10>>, <<<<127, 0, 0, 0>>, 8>>,
     <<<<169, 254, 0, 0>>, 16>>, <<<<172, 16, 0, 0>>, 12>>, <<<<192, 0, 0, 0>>, 24>>, <<<<192, 0, 2, 0>>, 24>>,
     <<<<192, 88, 99, 0>>, 24>>, <<<<192, 168, 0, 0>>, 16>>, <<<<198, 18, 0, 0>>, 15>>, <<<<198, 51, 100, 0>>, 24>>,
     <<<<203, 0, 113, 0>>, 24>>, <<<<224, 0, 0, 0>>, 4>>, <<<<240, 0, 0, 0>>, 4>>}

isPublicIpv4(bytes) ==
    /\ ipv4Number(bytes) # Bad
    /\ \A b \in Blocked : ~inIpv4Range(ipv4Number(bytes), ipv4Number(b[1]), b[2])

\* Groups without a "::" must be eight; with one, it stands for the missing zeros.
\* The dotted tail is the last two groups.
parseIpv6(text) ==
    LET tail   == IF text.dotted = None THEN <<>> ELSE ipv4Number(text.dotted)
        left   == IF text.elided THEN text.left ELSE text.left \o tail
        right  == IF text.elided THEN text.right \o tail ELSE <<>>
        fill   == IF text.elided THEN 8 - Len(left) - Len(right) ELSE 0
        groups == left \o [i \in 1 .. fill |-> 0] \o right
    IN  IF \/ text.dotted # None /\ ipv4Number(text.dotted) = Bad
           \/ fill < 0 \/ Len(groups) # 8 \/ \E i \in 1 .. 8 : groups[i] \notin 0 .. 65535
        THEN Bad
        ELSE [i \in 1 .. 16 |-> IF i % 2 = 1 THEN groups[(i + 1) \div 2] \div 256 ELSE groups[i \div 2] % 256]

Zeros(bytes, n) == \A i \in 1 .. n : bytes[i] = 0

isPublicIpv6(text) ==
    LET bytes == parseIpv6(text)
    IN  /\ bytes # Bad
        /\ ~(Zeros(bytes, 15) /\ bytes[16] \in {0, 1})
        /\ IF Zeros(bytes, 10) /\ bytes[11] = 255 /\ bytes[12] = 255
           THEN isPublicIpv4(SubSeq(bytes, 13, 16))
           ELSE /\ bytes[1] \div 2 # 126                              \* fc00::/7
                /\ ~(bytes[1] = 254 /\ bytes[2] \div 64 = 2)          \* fe80::/10
                /\ bytes[1] # 255                                     \* ff00::/8
                /\ \A prefix \in {<<32, 1, 13, 184>>, <<32, 1, 0, 2>>, <<0, 100, 255, 155>>, <<32, 1, 0, 0>>, <<32, 2>>} :
                       ~IsPrefix(prefix, bytes)
                /\ bytes[1] \div 32 = 1                               \* 2000::/3

\* Text that isIP does not take for an address is never public.
isPublicNetworkAddress(a) == a # Bad /\ IF IsV4(a) THEN isPublicIpv4(a.v4) ELSE isPublicIpv6(a)

-----------------------------------------------------------------------------
(* The fetch *)

boundedInteger(value, fallback, minimum, maximum) ==
    LET candidate == IF value \in {None, Bad} THEN fallback ELSE value
        capped    == IF candidate < maximum THEN candidate ELSE maximum
    IN  IF capped < minimum THEN minimum ELSE capped

maxBytes == boundedInteger(options.maxBytes, 10, 1, 25)

maxRedirects == boundedInteger(options.maxRedirects, 3, 0, 5)

Fail == pc' = "done" /\ result' = Bad /\ UNCHANGED <<current, redirect, pinned, made>>

Start ==
    /\ pc = "start"
    /\ IF options.enabled /\ current # Bad
       THEN pc' = "hop" /\ UNCHANGED <<current, redirect, pinned, made, result>>
       ELSE Fail
    /\ UNCHANGED <<options, dns, rebinds>>

\* The checks of a hop's URL.
Reachable(url) ==
    /\ url.scheme \in {"http", "https"} /\ ~url.credentials
    /\ options.allowedHosts \notin {None, {}} => url.host \in options.allowedHosts

\* One hop up to its lookup: Bad is a lookup that fails.
Lookup ==
    /\ pc = "hop"
    /\ LET addresses == dns[current.host]
       IN  IF /\ Reachable(current) /\ addresses # Bad /\ Len(addresses) > 0
              /\ \A i \in DOMAIN addresses : isPublicNetworkAddress(addresses[i])
           THEN pc' = "resolved" /\ pinned' = addresses /\ UNCHANGED <<current, redirect, made, result>>
           ELSE Fail
    /\ UNCHANGED <<options, dns, rebinds>>

\* Mutant of Request: the socket resolves the host again.
RequestUnpinned ==
    /\ pc = "resolved" /\ pc' = "requested"
    /\ dns[current.host] \notin {Bad, <<>>} /\ dns[current.host][1] # Bad
    /\ made' = Append(made, [host |-> current.host, address |-> dns[current.host][1]])
    /\ UNCHANGED <<options, current, redirect, dns, rebinds, pinned, result>>

\* defaultRequest: the agents' lookup answers with the pinned address.
Request ==
    /\ pc = "resolved" /\ pc' = "requested"
    /\ made' = Append(made, [host |-> current.host, address |-> pinned[1]])
    /\ UNCHANGED <<options, current, redirect, dns, rebinds, pinned, result>>

\* The connection or the request fails, or its time is over.
RequestFails == pc = "requested" /\ Fail /\ UNCHANGED <<options, dns, rebinds>>

TooLarge(declared, bytes) == (declared \notin {None, Bad} /\ declared > maxBytes) \/ bytes > maxBytes

\* A redirect status, with a body within the limits.
Redirected(location) ==
    /\ pc = "requested"
    /\ IF location \notin {None, Bad} /\ redirect # maxRedirects
       THEN /\ current' = location /\ redirect' = redirect + 1 /\ pc' = "hop"
            /\ UNCHANGED <<pinned, made, result>>
       ELSE Fail
    /\ UNCHANGED <<options, dns, rebinds>>

\* Any other answer; ok says whether its status is 2xx.
Answered(ok, declared, bytes) ==
    /\ pc = "requested"
    /\ IF ~ok \/ TooLarge(declared, bytes) THEN Fail
       ELSE /\ pc' = "done" /\ result' = [bytes |-> bytes, url |-> current]
            /\ UNCHANGED <<current, redirect, pinned, made>>
    /\ UNCHANGED <<options, dns, rebinds>>

\* A name is bound to something else between two awaits.
Rebind(host, answer) ==
    /\ pc \in {"hop", "resolved", "requested"} /\ rebinds < MaxRebinds
    /\ dns' = [dns EXCEPT ![host] = answer] /\ rebinds' = rebinds + 1
    /\ UNCHANGED <<options, pc, current, redirect, pinned, made, result>>

Hosts == {url.host : url \in Urls}

Init ==
    /\ options \in OptionSets /\ pc = "start" /\ current \in Urls \cup {Bad} /\ redirect = 0
    /\ dns \in [Hosts -> Answers] /\ rebinds = 0 /\ pinned = <<>> /\ made = <<>> /\ result = None

Run == \/ Start \/ Lookup \/ Request \/ RequestFails
       \/ \E location \in Urls \cup {None, Bad} : Redirected(location)
       \/ \E ok \in BOOLEAN, declared \in Sizes \cup {None, Bad}, bytes \in Sizes : Answered(ok, declared, bytes)

Next == Run \/ \E host \in Hosts, answer \in Answers : Rebind(host, answer)

\* Every await of the fetch settles: lookups end and requests have a timeout.
Spec == Init /\ [][Next]_vars

-----------------------------------------------------------------------------
\* The blocks that are not publicly routable, on the numbers of an address.
SpecialIpv4(a, b, c) ==
    \/ a \in {0, 10, 127} \cup 224 .. 255
    \/ a = 100 /\ b \in 64 .. 127
    \/ a = 172 /\ b \in 16 .. 31
    \/ <<a, b>> \in {<<169, 254>>, <<192, 168>>, <<198, 18>>, <<198, 19>>}
    \/ <<a, b, c>> \in {<<192, 0, 0>>, <<192, 0, 2>>, <<192, 88, 99>>, <<198, 51, 100>>, <<203, 0, 113>>}

\* The groups written after the "::", or all of them when there is none.
Written(a) ==
    (IF a.elided THEN a.right ELSE a.left)
        \o (IF a.dotted = None THEN <<>>
            ELSE <<a.dotted[1] * 256 + a.dotted[2], a.dotted[3] * 256 + a.dotted[4]>>)

\* The n-th of the eight groups of the address.
Group(a, n) ==
    CASE ~a.elided               -> Written(a)[n]
      [] n <= Len(a.left)        -> a.left[n]
      [] n > 8 - Len(Written(a)) -> Written(a)[n - (8 - Len(Written(a)))]
      [] OTHER                   -> 0

WellFormed(a) ==
    /\ IF a.elided THEN Len(a.left) + Len(Written(a)) <= 8 ELSE Len(Written(a)) = 8
    /\ \A n \in 1 .. 8 : Group(a, n) \in 0 .. 65535

Public(a) ==
    \/ IsV4(a) /\ ~SpecialIpv4(a.v4[1], a.v4[2], a.v4[3])
    \/ /\ ~IsV4(a) /\ WellFormed(a)
       /\ \A n \in 1 .. 5 : Group(a, n) = 0
       /\ Group(a, 6) = 65535
       /\ ~SpecialIpv4(Group(a, 7) \div 256, Group(a, 7) % 256, Group(a, 8) \div 256)
    \/ /\ ~IsV4(a) /\ WellFormed(a)
       /\ Group(a, 1) \in 8192 .. 16383 /\ Group(a, 1) # 8194
       /\ ~(Group(a, 1) = 8193 /\ Group(a, 2) \in {0, 2, 3512})

\* A lookup whose every address is publicly routable is not refused: no block is
\* wider than it has to be.
PublicAccepted ==
    (/\ pc = "hop" /\ pc' = "done" /\ Reachable(current)
     /\ dns[current.host] \notin {Bad, <<>>} /\ Bad \notin Range(dns[current.host]))
    => \E i \in DOMAIN dns[current.host] : ~Public(dns[current.host][i])

\* Every connection of every hop goes to a publicly routable address, whatever
\* its host is rebound to between the lookup and the connection, in whichever
\* notation DNS gave it.
PublicDestinations == \A i \in DOMAIN made : Public(made[i].address)

\* No redirect leads to a host outside the configured list.
HostsAllowed ==
    options.allowedHosts \notin {None, {}} => \A i \in DOMAIN made : made[i].host \in options.allowedHosts

\* The fetch makes at most one connection more than the redirects it may follow,
\* and never more than six, however the option is misconfigured.
RedirectsBounded ==
    Len(made) <= 1 + (IF options.maxRedirects \in {None, Bad} THEN 3
                      ELSE IF options.maxRedirects \in 0 .. 5 THEN options.maxRedirects
                      ELSE IF options.maxRedirects < 0 THEN 0 ELSE 5)

\* A fetched body is within the configured limit and the absolute one.
BodyWithinLimit ==
    result \notin {None, Bad} =>
        /\ result.bytes <= 25
        /\ (options.maxBytes \notin {None, Bad} /\ options.maxBytes > 0) => result.bytes <= options.maxBytes
=============================================================================
