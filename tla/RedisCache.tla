------------------------------ MODULE RedisCache ------------------------------
(***************************************************************************)
(* RedisCacheBackend: one prefix of a shared Redis. clear and size walk the *)
(* keys with SCAN while others write, and clear deletes what a batch holds   *)
(* in a call of its own. SCAN promises only that a key that is there from    *)
(* the first to the last call is returned, perhaps in several batches; a     *)
(* batch may be empty. A key is a sequence of characters.                   *)
(***************************************************************************)
EXTENDS Integers, Sequences, SequencesExt, FiniteSets

CONSTANTS
    KeyPrefixes,    \* what keyPrefix may be
    Keys,        \* keys of the Redis, of this cache and of others
    MaxSets, MaxBatches   \* bounds

Glob == {"*", "?", "[", "]", "\\"}

VARIABLES
    prefix,
    state,    \* "new", "refused", "idle", "scan", "delete", "done"
    db,       \* keys that exist
    op,       \* "clear" or "size"
    batch,    \* keys of the batch to be deleted, and whether the cursor came back to 0
    last,
    owed,     \* keys SCAN still has to return
    fresh,    \* keys written since clear began
    held,     \* keys that have been there since the walk began
    count, sets, batches

vars == <<prefix, state, db, op, batch, last, owed, fresh, held, count, sets, batches>>

\* Blank prefixes and those with a character of Redis' patterns are refused.
ValidPrefix(p) == p # <<>> /\ p # <<" ">> /\ \A i \in DOMAIN p : p[i] \notin Glob

Construct ==
    /\ state = "new" /\ state' = IF ValidPrefix(prefix) THEN "idle" ELSE "refused"
    /\ UNCHANGED <<prefix, db, op, batch, last, owed, fresh, held, count, sets, batches>>

\* What MATCH <prefix>* selects: the text before the first "*", whatever follows.
Literal == SubSeq(prefix, 1, LET star == SelectInSeq(prefix, LAMBDA ch : ch = "*") IN IF star = 0 THEN Len(prefix) ELSE star - 1)

Match == {k \in db : IsPrefix(Literal, k)}

Own(k) == IsPrefix(prefix, k)

Start(which) ==
    /\ state = "idle" /\ state' = "scan" /\ op' = which
    /\ owed' = Match /\ held' = Match /\ fresh' = {} /\ count' = 0
    /\ UNCHANGED <<prefix, db, batch, last, sets, batches>>

\* One SCAN: any of the matching keys, and the cursor 0 once it owes none.
Scan(keys, zero) ==
    /\ state = "scan" /\ keys \subseteq Match /\ (zero => owed \subseteq keys) /\ batches < MaxBatches
    /\ owed' = owed \ keys /\ last' = zero /\ batch' = keys /\ count' = count + Cardinality(keys)
    /\ state' = IF op = "clear" /\ keys # {} THEN "delete" ELSE IF zero THEN "done" ELSE "scan"
    /\ batches' = batches + 1
    /\ UNCHANGED <<prefix, db, op, fresh, held, sets>>

\* clear's del of a batch.
Delete ==
    /\ state = "delete" /\ db' = db \ batch /\ held' = held \ batch
    /\ owed' = owed \ batch
    /\ state' = IF last THEN "done" ELSE "scan"
    /\ UNCHANGED <<prefix, op, batch, last, fresh, count, sets, batches>>

\* Writes and deletions of this cache, of another process or of another prefix.
Write(k) ==
    /\ sets < MaxSets /\ sets' = sets + 1
    /\ db' = db \cup {k} /\ fresh' = fresh \cup {k}
    /\ UNCHANGED <<prefix, state, op, batch, last, owed, held, count, batches>>

Expire(k) ==
    /\ k \in db /\ sets < MaxSets /\ sets' = sets + 1
    /\ db' = db \ {k} /\ held' = held \ {k} /\ owed' = owed \ {k}
    /\ UNCHANGED <<prefix, state, op, batch, last, fresh, count, batches>>

Init ==
    /\ prefix \in KeyPrefixes /\ state = "new" /\ db \in SUBSET Keys /\ op = "size"
    /\ batch = {} /\ last = FALSE /\ owed = {} /\ fresh = {} /\ held = {}
    /\ count = 0 /\ sets = 0 /\ batches = 0

Next ==
    \/ Construct
    \/ \E which \in {"clear", "size"} : Start(which)
    \/ \E keys \in SUBSET Keys, zero \in BOOLEAN : Scan(keys, zero)
    \/ Delete
    \/ \E k \in Keys : Write(k) \/ Expire(k)

Spec == Init /\ [][Next]_vars

-----------------------------------------------------------------------------
\* clear deletes no key of another prefix, whatever characters its own has.
ForeignKept == \A k \in db \ db' : state = "delete" /\ sets' = sets => Own(k)

\* When clear is over, every key of the cache that was not written since it began
\* is gone, however SCAN batched them.
Cleared == (state = "done" /\ op = "clear") => \A k \in db : Own(k) => k \in fresh

\* size counts at least the keys that were there during the whole walk.
SizeCounts == (state = "done" /\ op = "size") => count >= Cardinality(held)
=============================================================================
