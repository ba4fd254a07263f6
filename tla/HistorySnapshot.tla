---------------------------- MODULE HistorySnapshot ----------------------------
(***************************************************************************)
(* ActionHistoryService.sanitizeSnapshot: a depth-first walk that copies a  *)
(* before or after image, redacting sensitive fields and refusing what is   *)
(* too large or unsafe. The image is a heap of objects that may share and   *)
(* contain each other; a key is the sequence of its words, in lower case.   *)
(***************************************************************************)
EXTENDS Integers, Sequences, SequencesExt, FiniteSets

CONSTANTS
    Heaps,          \* heaps: object -> [kind, fields: sequence of [key, value, ok]]
    Root,           \* the candidate: what redactSnapshot returned, or the image itself
    Size,           \* Size[leaf]: bytes of a leaf, 0 when it is not a string
    Redacted,
    RedactFields,   \* sets of names and paths that options.redactFields may have
    MaxDepth, MaxNodes, MaxBytes

VARIABLES
    heap, redactFields,
    status,    \* "walking", "done", "limit", "unsafe"
    stack,     \* what is still to be visited, next first: [value, path, redact, ok]
    seen,
    nodes, bytes,
    output     \* the copy so far: <<path, value>> of its leaves

vars == <<heap, redactFields, status, stack, seen, nodes, bytes, output>>

Markers ==
    {<<"password">>, <<"passwd">>, <<"secret">>, <<"token">>, <<"private", "key">>, <<"api", "key">>,
     <<"access", "key">>, <<"credential">>, <<"authorization">>}

\* A key that has a marker among its words, whatever separates them.
isSensitiveField(key) ==
    \E m \in Markers : \E i \in 1 .. Len(key) - Len(m) + 1 : SubSeq(key, i, i + Len(m) - 1) = m

\* Mutant of Redacts: a configured name is only compared with the whole path.
RedactsPath(key, path) == isSensitiveField(key) \/ path \in redactFields

\* A field is redacted for its name or for its path from the root.
Redacts(key, path) == isSensitiveField(key) \/ <<key>> \in redactFields \/ path \in redactFields

Item(value, path, redact, ok) == [value |-> value, path |-> path, redact |-> redact, ok |-> ok]

\* The fields of an object, or the elements of an array, in order. ok is FALSE for
\* an accessor, a symbol, a prototype key or an enumerable extra of an array, which
\* is checked after the elements. Names are not compared inside arrays.
Children(object, path) ==
    [i \in DOMAIN heap[object].fields |->
        LET field == heap[object].fields[i]
            child == Append(path, field.key)
        IN  Item(field.value, child, heap[object].kind = "object" /\ Redacts(field.key, child), field.ok)]

IsObject(value) == value \in DOMAIN heap

Stop(outcome) == status' = outcome /\ UNCHANGED <<stack, seen, nodes, bytes, output>>

\* A node costs one and the bytes of its path and its text, a redacted one no text.
consume(item) ==
    /\ nodes' = nodes + 1
    /\ bytes' = bytes + Len(item.path) + (IF item.redact \/ IsObject(item.value) THEN 0 ELSE Size[item.value])

\* A leaf is copied (a Date becomes text), an object seen before is redacted, and
\* another one is replaced by its fields.
copy(item) ==
    IF item.redact \/ ~IsObject(item.value) \/ item.value \in seen
    THEN /\ output' = output \cup {<<item.path, IF item.redact \/ item.value \in seen THEN Redacted ELSE item.value>>}
         /\ stack' = Tail(stack) /\ UNCHANGED seen
    ELSE /\ stack' = Children(item.value, item.path) \o Tail(stack)
         /\ seen' = seen \cup {item.value} /\ UNCHANGED output

\* One visit of walk.
Visit ==
    /\ status = "walking" /\ stack # <<>>
    /\ LET item == Head(stack)
       IN  IF ~item.ok THEN Stop("unsafe")
           ELSE /\ consume(item)
                /\ IF Len(item.path) > MaxDepth \/ nodes' > MaxNodes \/ bytes' > MaxBytes
                   THEN status' = "limit" /\ UNCHANGED <<stack, seen, output>>
                   ELSE copy(item) /\ UNCHANGED status
    /\ UNCHANGED <<heap, redactFields>>

\* Every value has been visited: the copy is stored.
Store ==
    /\ status = "walking" /\ stack = <<>> /\ status' = "done"
    /\ UNCHANGED <<heap, redactFields, stack, seen, nodes, bytes, output>>

Init ==
    /\ heap \in Heaps /\ redactFields \in RedactFields /\ status = "walking"
    /\ stack = <<Item(Root, <<>>, FALSE, TRUE)>>
    /\ seen = {} /\ nodes = 0 /\ bytes = 0 /\ output = {}

Next == Visit \/ Store

Spec == Init /\ [][Next]_vars

-----------------------------------------------------------------------------
\* The values n fields below the root and where they are: [path, value, hidden,
\* above], hidden when a field on the way is redacted, above the objects passed.
Below[n \in Nat] ==
    IF n = 0 THEN {[path |-> <<>>, value |-> Root, hidden |-> FALSE, above |-> {}]}
    ELSE UNION {{LET field == heap[x.value].fields[i]
                     path  == Append(x.path, field.key)
                 IN  [path |-> path, value |-> field.value, above |-> x.above \cup {x.value},
                      hidden |-> x.hidden \/ /\ heap[x.value].kind = "object"
                                             /\ \/ isSensitiveField(field.key)
                                                \/ {<<field.key>>, path} \cap redactFields # {}]
                 : i \in DOMAIN heap[x.value].fields}
                : x \in {y \in Below[n - 1] : IsObject(y.value)}}

Within == UNION {Below[n] : n \in 0 .. MaxDepth}

\* Nothing that is stored lies below a sensitive or configured field: such a field
\* is stored as redacted, with nothing under it, in every branch and every copy.
SecretsRedacted ==
    \A x \in Within : x.hidden =>
        \A leaf \in output : IsPrefix(x.path, leaf[1]) => leaf[2] = Redacted

\* A snapshot that is stored is complete: each leaf outside redacted fields is in
\* it, at its own path or at the path at which its object was met first. (A field
\* that is configured by its path may be hidden there and not elsewhere.)
NothingLost ==
    (status = "done" /\ \A path \in redactFields : Len(path) = 1) =>
        \A x \in Within : (~x.hidden /\ ~IsObject(x.value)) =>
            \E leaf \in output : leaf[2] = x.value /\ Last(leaf[1]) = Last(x.path)

\* What is copied is within the ceilings, redacted fields counted.
Bounded ==
    /\ Cardinality(output) + Cardinality(seen) <= MaxNodes
    /\ \A leaf \in output : Len(leaf[1]) <= MaxDepth

\* An image is refused for its size only when it really has too many fields or is
\* nested too deep: one that contains itself is not.
SmallStored ==
    (status = "limit" /\ bytes <= MaxBytes) =>
        \/ 1 + Cardinality(UNION {{o} \X DOMAIN heap[o].fields : o \in DOMAIN heap}) > MaxNodes
        \/ \E x \in Below[MaxDepth + 1] : Cardinality(x.above) = MaxDepth + 1
=============================================================================
