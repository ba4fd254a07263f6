------------------------------ MODULE LocalPath ------------------------------
(***************************************************************************)
(* SafeLocalPathResolver: concurrent operations of the local driver resolve *)
(* keys below one storage root. A write creates the missing parents of its  *)
(* key one by one, each step an await in which other writes create the same  *)
(* ones. The tree holds what an operator put there, symbolic links too; only *)
(* these operations change it. A path is the sequence of its parts.         *)
(***************************************************************************)
EXTENDS Integers, Sequences, SequencesExt, FiniteSets

CONSTANTS
    None, Bad,     \* an absent value; a key that is absolute, encoded or has a NUL
    Calls,
    Keys,          \* keys a call may have: Bad or sequences of parts
    Trees,         \* initial trees: path -> "dir", "file", "link" or "none"
    MaxRootFaults  \* bound: failures of the root's mkdir or realpath

VARIABLES
    tree,
    root,     \* rootPromise: "none", "pending", "ready", "failed"
    faults,
    call      \* call[c]: [op, key, pc, depth, result]

vars == <<tree, root, faults, call>>

-----------------------------------------------------------------------------
\* Empty, "." and ".." parts, and keys that are not relative, are refused.
segments(key) == key # Bad /\ key # <<>> /\ \A i \in DOMAIN key : key[i] \notin {"", ".", ".."}

Parent(c) == SubSeq(call[c].key, 1, call[c].depth)

\* What lstat says of a path: nothing is found below what is no directory, and a
\* link on the way is followed out of the root.
lstat(path) ==
    IF \E i \in 1 .. Len(path) - 1 : tree[SubSeq(path, 1, i)] # "dir" THEN "none" ELSE tree[path]

Set(c, pc, result) == call' = [call EXCEPT ![c].pc = pc, ![c].result = result]

Throw(c) == Set(c, "done", Bad)

\* A call with any key; the root's promise is made once and shared.
Start(c, op, key) ==
    /\ call[c].pc = "idle"
    /\ call' = [call EXCEPT ![c] = [op |-> op, key |-> key, pc |-> "root", depth |-> 0, result |-> None]]
    /\ root' = IF root = "none" THEN "pending" ELSE root
    /\ UNCHANGED <<tree, faults>>

\* mkdir and realpath of the root settle; a failure is remembered as well.
canonicalRoot(ok) ==
    /\ root = "pending"
    /\ ok \/ faults < MaxRootFaults
    /\ root' = IF ok THEN "ready" ELSE "failed"
    /\ faults' = IF ok THEN faults ELSE faults + 1
    /\ UNCHANGED <<tree, call>>

\* The root is known: the key is split and contained, and the walk begins.
Split(c) ==
    /\ call[c].pc = "root" /\ root \in {"ready", "failed"}
    /\ IF root = "failed" \/ ~segments(call[c].key) THEN Throw(c)
       ELSE call' = [call EXCEPT ![c].pc = IF call[c].op = "write" THEN "next" ELSE "existing"]
    /\ UNCHANGED <<tree, root, faults>>

\* The next parent, or the target when there is none.
NextParent(c) ==
    /\ call[c].pc = "next"
    /\ IF call[c].depth = Len(call[c].key) - 1 THEN Set(c, "done", call[c].key)
       ELSE call' = [call EXCEPT ![c].depth = @ + 1, ![c].pc = "lstat"]
    /\ UNCHANGED <<tree, root, faults>>

Inspect(c) ==
    /\ call[c].pc = "lstat"
    /\ CASE lstat(Parent(c)) = "dir"  -> Set(c, "realpath", None)
         [] lstat(Parent(c)) = "none" -> Set(c, "mkdir", None)
         [] OTHER                     -> Throw(c)
    /\ UNCHANGED <<tree, root, faults>>

\* mkdir of a parent; when it exists by now, what it is will be seen.
MakeDirectory(c) ==
    /\ call[c].pc = "mkdir"
    /\ tree' = IF tree[Parent(c)] = "none" THEN [tree EXCEPT ![Parent(c)] = "dir"] ELSE tree
    /\ Set(c, "created", None)
    /\ UNCHANGED <<root, faults>>

Created(c) ==
    /\ call[c].pc = "created"
    /\ IF lstat(Parent(c)) = "dir" THEN Set(c, "realpath", None) ELSE Throw(c)
    /\ UNCHANGED <<tree, root, faults>>

\* realpath of a directory reached through directories is itself: contained.
Canonical(c) ==
    /\ call[c].pc = "realpath"
    /\ Set(c, "next", None)
    /\ UNCHANGED <<tree, root, faults>>

\* resolveExisting: the target must be a regular file.
Existing(c) ==
    /\ call[c].pc = "existing"
    /\ IF lstat(call[c].key) = "file" THEN Set(c, "done", call[c].key) ELSE Throw(c)
    /\ UNCHANGED <<tree, root, faults>>

\* The driver creates the file its call resolved to; one that exists is not replaced.
Write(c) ==
    /\ call[c].pc = "done" /\ call[c].op = "write" /\ call[c].result \notin {None, Bad}
    /\ tree[call[c].result] = "none"
    /\ tree' = [tree EXCEPT ![call[c].result] = "file"]
    /\ call' = [call EXCEPT ![c].pc = "written"]
    /\ UNCHANGED <<root, faults>>

Step(c) ==
    \/ Split(c) \/ NextParent(c) \/ Inspect(c) \/ MakeDirectory(c)
    \/ Created(c) \/ Canonical(c) \/ Existing(c)

Init ==
    /\ tree \in Trees /\ root = "none" /\ faults = 0
    /\ call = [c \in Calls |-> [op |-> None, key |-> None, pc |-> "idle", depth |-> 0, result |-> None]]

Next ==
    \/ \E c \in Calls, op \in {"write", "existing"}, key \in Keys : Start(c, op, key)
    \/ \E ok \in BOOLEAN : canonicalRoot(ok)
    \/ \E c \in Calls : Step(c) \/ Write(c)

\* File system operations settle.
Spec ==
    /\ Init /\ [][Next]_vars
    /\ WF_vars(\E ok \in BOOLEAN : canonicalRoot(ok)) /\ \A c \in Calls : WF_vars(Step(c))

-----------------------------------------------------------------------------
\* The parents of every path that was resolved are real directories of the root,
\* so that reading or writing it does not leave the root.
Contained ==
    \A c \in Calls : (call[c].pc \in {"done", "written"} /\ call[c].result \notin {None, Bad}) =>
        \A i \in 1 .. Len(call[c].result) - 1 : tree[SubSeq(call[c].result, 1, i)] = "dir"

\* A write is refused only for its key, for the root, or for something on its way
\* that is no directory: never because another write made the same directory.
WritesMeet ==
    \A c \in Calls : (call[c].pc = "done" /\ call[c].op = "write" /\ call[c].result = Bad) =>
        \/ ~segments(call[c].key) \/ root = "failed"
        \/ \E i \in 1 .. Len(call[c].key) - 1 : tree[SubSeq(call[c].key, 1, i)] \in {"file", "link"}

Asked(c) == call[c].pc = "root"

Answered(c) == call[c].pc \in {"done", "written"}
=============================================================================
