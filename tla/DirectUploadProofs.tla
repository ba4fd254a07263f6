------------------------- MODULE DirectUploadProofs -------------------------
(***************************************************************************)
(* Theorems about DirectUpload for both drivers, any number of processes   *)
(* and service instances, all lease lengths and any number of faults.      *)
(***************************************************************************)
EXTENDS DirectUpload, TLAPS

-----------------------------------------------------------------------------
(* Types.                                                                  *)

Tasks ==
  [pc : CompletionPcs \cup DeletePcs \cup SweepPcs \cup OtherPcs, snap : Rows, marker : Times,
   seen : Objects, keys : SUBSET {"final", "staging"}, tries : Nat, managed : BOOLEAN]

Shapes ==
  /\ now \in Nat /\ now > 1
  /\ row \in Rows
  /\ target \in BOOLEAN
  /\ staging \in Objects
  /\ final \in Objects
  /\ task \in [Procs -> Tasks]
  /\ lastClaim \in [Instances -> Nat]
  /\ faults \in Nat

\* Exactly a temporary file that is ready carries an expiry.
Expiry(r) == (r.status = "ready" /\ Temporary) <=> r.expiredAt # Null

-----------------------------------------------------------------------------
(* The inductive invariant.                                                *)

\* The row is claimed for deletion or deleted, for good.
Dead(r) == r.deletionPendingAt # Null \/ r.deletedAt

\* No completion will ever claim the row again.
Spent(r) == Dead(r) \/ r.status \in {"ready", "failed"}

\* A completion that has claimed the row and may still update it.
HolderPcs == OwnerPcs \cup {"confirm", "retryable"}

\* initiateManagedUpload has not handed the file out.
PresignPcs == {"presign", "cleanup", "settle", "settleClaim"}

\* Requests for a file that was handed out, and steps of uploadManaged.
Open(t) ==
  \/ t.pc \in CompletionPcs
  \/ t.pc \in {"send", "stream", "putRead", "put", "complete", "abortRead", "abortClaim", "managedFailed"}
  \/ t.pc \in DeletePcs /\ t.managed

ClaimPcs == {"settleClaim", "abortClaim", "expireClaim", "retryClaim", "tempClaim"} \cup DeletePcs

\* A row that is not saved is known to nobody.
Unsaved == ~row.saved => row = NoRow /\ ~target /\ final = NoObject /\ \A p \in Procs : task[p] = Idle

\* Until it is handed out, only the process that initiated the upload has it.
Private ==
  \A p \in Procs : task[p].pc \in PresignPcs =>
    /\ ~target
    /\ \A q \in Procs : q # p => task[q].pc \notin PresignPcs /\ ~Open(task[q])

\* What a process has seen was true and excludes a completion that runs now.
Snapshot(t) ==
  /\ t.pc \in {"verify", "claim", "abortClaim", "expireClaim"} => t.snap.status \in {"pending", "completing"}
  /\ t.pc \in ClaimPcs => t.marker # Null
  /\ t.pc \in {"expireClaim", "retryClaim", "tempClaim"} => ~t.managed
  /\ t.pc = "verify" => t.marker <= now + ActivationLease
  /\ t.pc = "claim" /\ t.snap.status = "completing" => t.snap.uploadPendingAt <= now
  /\ t.pc \in {"expireClaim", "retryClaim"} => t.snap.uploadPendingAt <= now
  /\ t.pc = "abortClaim" =>
       IF t.snap.status = "pending"
       THEN lifecycleWhere(row) /\ row.status = "pending" => row.uploadPendingAt = t.snap.uploadPendingAt
       ELSE row.status # "pending" /\ t.snap.uploadPendingAt <= now

\* A completion is within its lease, and owns the row once it has claimed it.
Completion(t) ==
  /\ t.pc \in CompletionPcs => t.marker > now
  /\ t.pc \in OwnerPcs => owns(row, t)
  /\ t.pc \in HolderPcs => owns(row, t) \/ Spent(row)
  /\ t.pc \in {"unstage", "finalize"} => final \in Versions /\ t.seen = Etag(final)

\* A deleter's row is dead, and before its row goes the final object has gone.
Deletion(t) ==
  /\ t.pc \in DeletePcs => Dead(row)
  /\ t.pc \in {"softDelete", "clear"} \/ (t.pc = "delete" /\ "final" \notin t.keys) => final = NoObject

\* One completion holds the row.
OneHolder ==
  \A p, q \in Procs : task[p].pc \in HolderPcs /\ task[q].pc \in HolderPcs => p = q

\* A managed upload that failed over S3 was aborted, or had no need to be.
ManagedEnds(t) ==
  Kind = "s3" /\ t.pc = "managedFailed" => ~(lifecycleWhere(row) /\ row.status = "pending")

Local(t) == Snapshot(t) /\ Completion(t) /\ Deletion(t) /\ ManagedEnds(t)

Inv ==
  /\ Shapes
  /\ Expiry(row)
  /\ Unsaved
  /\ Private
  /\ OneHolder
  /\ \A p \in Procs : Local(task[p])
  /\ ReadyIsVerified
  /\ NoOrphanFinal

-----------------------------------------------------------------------------
(* What a step may do to the row.                                          *)

\* An update keeps what the others rely on: a dead row stays dead, a finished
\* upload finished, and the markers of a pending one are not replaced.
RowKept ==
  /\ row' \in Rows
  /\ Expiry(row')
  /\ row.saved /\ row'.saved
  /\ Dead(row) => Dead(row')
  /\ Spent(row) => Spent(row')
  /\ row.status # "pending" => row'.status # "pending"
  /\ lifecycleWhere(row') /\ row'.status = "pending" =>
       lifecycleWhere(row) /\ row'.uploadPendingAt = row.uploadPendingAt

\* A completion that runs now keeps its row, unless it is its own step or the
\* file has not been handed out.
Spared(p) ==
  \/ task[p].pc \in HolderPcs \cup PresignPcs
  \/ lifecycleWhere(row) /\ completionIsActive(row) => row' = row

\* Only a deleter and the completion that owns the row touch the final object.
FinalKept(p) == final' = final \/ (Dead(row) /\ final' = NoObject) \/ task[p].pc = "promote"

\* A process that does not take the step keeps what it relies on, if the row, the
\* process's leases and the final object are left as it expects them.
LEMMA Others ==
  ASSUME ConstantsOK, Inv, NEW p \in Procs, NEW q \in Procs, q # p, now' = now, task'[q] = task[q],
         RowKept, Spared(p), FinalKept(p)
  PROVE  Local(task[q])'
<1> PICK t \in Tasks : t = task[q]
  BY DEF Inv, Shapes
<1>1. task'[q] = t /\ Local(t) /\ now \in Nat
  BY DEF Inv, Shapes
<1>2. t.pc \in HolderPcs => task[p].pc \notin HolderPcs \cup PresignPcs
  <2>1. HolderPcs \subseteq CompletionPcs
    BY DEF HolderPcs, OwnerPcs, CompletionPcs
  <2> QED
    BY <2>1 DEF Inv, OneHolder, Private, Open
<1>3. Snapshot(t)'
  BY <1>1 DEF Local, Snapshot, RowKept, lifecycleWhere
<1>4. t.pc \in HolderPcs /\ owns(row, t) => row' = row
  BY <1>1, <1>2 DEF Local, Completion, Spared, owns, completionIsActive, HolderPcs, OwnerPcs, CompletionPcs
<1>5. t.pc \in HolderPcs /\ ~Dead(row) => final' = final
  BY <1>2 DEF FinalKept, HolderPcs, OwnerPcs, CompletionPcs
<1>6. Completion(t)'
  <2>1. owns(row, t) => ~Dead(row)
    BY DEF owns, lifecycleWhere, Dead
  <2>2. {"unstage", "finalize"} \subseteq OwnerPcs /\ OwnerPcs \subseteq HolderPcs
    BY DEF HolderPcs, OwnerPcs, CompletionPcs
  <2> QED
    BY <1>1, <1>4, <1>5, <2>1, <2>2 DEF Local, Completion, RowKept, owns, Etag
<1>7. Deletion(t)'
  <2>1. CASE t.pc \in DeletePcs
    <3>1. Dead(row) /\ Dead(row)'
      BY <1>1, <2>1 DEF Local, Deletion, RowKept
    <3>2. task[p].pc = "promote" => FALSE
      BY <3>1 DEF Inv, Local, Completion, owns, lifecycleWhere, Dead, OwnerPcs, CompletionPcs
    <3>3. final = NoObject => final' = NoObject
      BY <3>2 DEF FinalKept
    <3> QED
      BY <1>1, <3>1, <3>3 DEF Local, Deletion
  <2>2. CASE t.pc \notin DeletePcs
    BY <2>2 DEF Deletion, DeletePcs
  <2> QED
    BY <2>1, <2>2
<1>8. ManagedEnds(t)'
  BY <1>1 DEF Local, ManagedEnds, RowKept
<1>9. Local(t)'
  BY <1>3, <1>6, <1>7, <1>8 DEF Local
<1> QED
  BY <1>1, <1>9 DEF Local, Snapshot, Completion, Deletion, ManagedEnds

\* A step of process p to the local state v.
LEMMA ProcStep ==
  ASSUME ConstantsOK, Inv, NEW p \in Procs, NEW v \in Tasks,
         task' = [task EXCEPT ![p] = v], now' = now,
         RowKept, Spared(p), FinalKept(p),
         target' \in BOOLEAN, staging' \in Objects, final' \in Objects,
         lastClaim' \in [Instances -> Nat], faults' \in Nat,
         v.pc \in PresignPcs => task[p].pc \in PresignPcs /\ target' = target,
         Open(v) => Open(task[p]) \/ task[p].pc \in PresignPcs \/ target,
         target' => target \/ task[p].pc \in PresignPcs,
         v.pc \in HolderPcs => task[p].pc \in HolderPcs \/ \A q \in Procs : task[q].pc \notin HolderPcs,
         Local(v)', ReadyIsVerified', NoOrphanFinal'
  PROVE  Inv'
<1>1. \A q \in Procs : task'[q] = IF q = p THEN v ELSE task[q]
  BY DEF Inv, Shapes
<1>2. Shapes' /\ Expiry(row)'
  <2>1. task' \in [Procs -> Tasks]
    BY DEF Inv, Shapes
  <2> QED
    BY <2>1 DEF Inv, Shapes, RowKept, Expiry
<1>3. Unsaved'
  BY DEF RowKept, Unsaved
<1>4. Private'
  <2>1. SUFFICES ASSUME NEW a \in Procs, task'[a].pc \in PresignPcs
                 PROVE  ~target' /\ \A b \in Procs : b # a => task'[b].pc \notin PresignPcs /\ ~Open(task'[b])
    BY DEF Private, Open
  <2>2. CASE a = p
    <3>1. task[p].pc \in PresignPcs /\ target' = target
      BY <1>1, <2>1, <2>2
    <3> QED
      BY <1>1, <2>2, <3>1 DEF Inv, Private
  <2>3. CASE a # p
    <3>1. task[a].pc \in PresignPcs
      BY <1>1, <2>1, <2>3
    <3>2. ~target /\ task[p].pc \notin PresignPcs /\ ~Open(task[p])
      BY <2>3, <3>1 DEF Inv, Private
    <3>3. ~target' /\ v.pc \notin PresignPcs /\ ~Open(v)
      BY <3>2
    <3> QED
      BY <1>1, <2>3, <3>1, <3>3 DEF Inv, Private
  <2> QED
    BY <2>2, <2>3
<1>5. OneHolder'
  BY <1>1 DEF Inv, OneHolder
<1>6. ASSUME NEW q \in Procs PROVE Local(task[q])'
  <2>1. CASE q = p
    BY <1>1, <2>1 DEF Local, Snapshot, Completion, Deletion, ManagedEnds
  <2>2. CASE q # p
    BY <1>1, <2>2, Others
  <2> QED
    BY <2>1, <2>2
<1> QED
  BY <1>2, <1>3, <1>4, <1>5, <1>6 DEF Inv

\* A step that changes neither the row nor the final object.
LEMMA QuietStep ==
  ASSUME ConstantsOK, Inv, row.saved, NEW p \in Procs, NEW v \in Tasks,
         task' = [task EXCEPT ![p] = v], now' = now, row' = row, final' = final,
         target' \in BOOLEAN, staging' \in Objects, lastClaim' \in [Instances -> Nat], faults' \in Nat,
         v.pc \in PresignPcs => task[p].pc \in PresignPcs /\ target' = target,
         Open(v) => Open(task[p]) \/ task[p].pc \in PresignPcs \/ target,
         target' => target \/ task[p].pc \in PresignPcs,
         v.pc \in HolderPcs => task[p].pc \in HolderPcs,
         Local(v)
  PROVE  Inv'
<1>1. RowKept /\ Spared(p) /\ FinalKept(p) /\ final' \in Objects
  BY DEF RowKept, Spared, FinalKept, Inv, Shapes
<1>2. Local(v)'
  BY DEF Local, Snapshot, Completion, Deletion, ManagedEnds, Etag
<1>3. ReadyIsVerified' /\ NoOrphanFinal'
  BY DEF Inv, ReadyIsVerified, NoOrphanFinal
<1> QED
  BY <1>1, <1>2, <1>3, ProcStep

\* States of a process that nothing is required of.
PlainPcs == {"idle", "presign", "cleanup", "settle", "send", "stream", "putRead", "put", "complete",
             "abortRead", "stagingDelete", "stagingClear"}

Plain(v) == v.pc \in PlainPcs \/ (v.pc = "managedFailed" /\ Kind # "s3")

\* Outside a completion, a claim or a delete a process relies on nothing.
LEMMA PlainLocal ==
  ASSUME NEW v \in Tasks, Plain(v)
  PROVE  Local(v) /\ Local(v)'
  BY DEF Plain, PlainPcs, Local, Snapshot, Completion, Deletion, ManagedEnds, ClaimPcs, DeletePcs,
         CompletionPcs, HolderPcs, OwnerPcs

\* Where a rejected call of a request goes.
LEMMA FailedCallType ==
  ASSUME ConstantsOK, NEW t \in Tasks
  PROVE  /\ FailedCall(t) \in Tasks
         /\ Plain(FailedCall(t))
         /\ FailedCall(t).pc \notin PresignPcs \cup HolderPcs
         /\ Open(FailedCall(t)) => t.managed
         /\ Idle \in Tasks /\ Idle.pc = "idle" /\ Idle.managed = FALSE /\ Idle.snap = NoRow
         /\ Idle.marker = Null /\ Idle.keys = {}
<1>1. Idle \in Tasks
  BY DEF Idle, NoRow, Tasks, Rows, OtherPcs, Times, Null, NoObject, Objects
<1>2. /\ Idle.pc = "idle" /\ Idle.managed = FALSE /\ Idle.snap = NoRow
      /\ Idle.marker = Null /\ Idle.keys = {}
  BY DEF Idle
<1>3. CASE ~t.managed
  BY <1>1, <1>2, <1>3 DEF FailedCall, Plain, PlainPcs, PresignPcs, HolderPcs, OwnerPcs, CompletionPcs, Open, DeletePcs
<1>4. CASE t.managed
  <2>1. PICK s \in {"abortRead", "managedFailed"} : s = IF Kind = "s3" \/ t.pc = "stream" THEN "abortRead" ELSE "managedFailed"
    OBVIOUS
  <2>2. FailedCall(t) = [t EXCEPT !.pc = s]
    BY <1>4, <2>1 DEF FailedCall
  <2>3. FailedCall(t) \in Tasks /\ FailedCall(t).pc = s
    BY <2>2 DEF Tasks, OtherPcs
  <2>4. s = "managedFailed" => Kind # "s3"
    BY <2>1
  <2> QED
    BY <1>1, <1>2, <1>4, <2>1, <2>3, <2>4 DEF Plain, PlainPcs, PresignPcs, HolderPcs, OwnerPcs, CompletionPcs
<1> QED
  BY <1>3, <1>4 DEF Tasks

\* A fault is counted.
LEMMA ChargeType ==
  ASSUME Inv, NEW o, Charge(o)
  PROVE  faults' \in Nat
  BY DEF Charge, Inv, Shapes

\* A claim is a marker, beyond the present.
LEMMA ClaimType ==
  ASSUME ConstantsOK, Inv, NEW p \in Procs, NEW e \in Nat
  PROVE  /\ nextDeletionClaim(p, e) \in Nat
         /\ nextDeletionClaim(p, e) # Null
         /\ \A c : c = nextDeletionClaim(p, e) /\ UseClaim(p, c) => lastClaim' \in [Instances -> Nat]
<1>1. now \in Nat /\ now > 1 /\ lastClaim[InstanceOf[p]] \in Nat /\ ClaimLease \in Nat
  BY DEF Inv, Shapes, ConstantsOK
<1>2. PICK a, b, c \in Nat : a = now + ClaimLease /\ b = lastClaim[InstanceOf[p]] + 1 /\ c = e + 1
  BY <1>1
<1>3. \E m \in {a, b, c} : \A u \in {a, b, c} : u <= m
  BY <1>2
<1>4. Later({a, b, c}) \in {a, b, c} /\ a <= Later({a, b, c})
  BY <1>3 DEF Later
<1>5. nextDeletionClaim(p, e) = Later({a, b, c})
  BY <1>2 DEF nextDeletionClaim
<1>6. nextDeletionClaim(p, e) \in Nat /\ nextDeletionClaim(p, e) # Null
  BY <1>1, <1>2, <1>4, <1>5 DEF Null
<1> QED
  BY <1>6 DEF UseClaim, Inv, Shapes

\* A process goes on at another step with what it knows.
LEMMA AtType ==
  ASSUME Inv, NEW p \in Procs, NEW s \in CompletionPcs \cup DeletePcs \cup SweepPcs \cup OtherPcs
  PROVE  /\ At(p, s) \in Tasks
         /\ At(p, s).pc = s /\ At(p, s).snap = task[p].snap /\ At(p, s).marker = task[p].marker
         /\ At(p, s).managed = task[p].managed /\ At(p, s).seen = task[p].seen
         /\ At(p, s).keys = task[p].keys
  BY DEF At, Inv, Shapes, Tasks

\* Nothing runs, and no upload target exists, before the row is saved.
LEMMA Saved ==
  ASSUME ConstantsOK, Inv, NEW p \in Procs, task[p].pc # "idle" \/ target
  PROVE  row.saved
  BY DEF Inv, Unsaved, Idle

\* A step that leaves the row and the final object alone and ends at a plain place.
LEMMA PlainStep ==
  ASSUME ConstantsOK, Inv, row.saved, NEW p \in Procs, NEW v \in Tasks, Plain(v),
         task' = [task EXCEPT ![p] = v], now' = now, row' = row, final' = final, target' = target,
         staging' \in Objects, lastClaim' \in [Instances -> Nat], faults' \in Nat,
         v.pc \notin PresignPcs,
         Open(v) => Open(task[p]) \/ target
  PROVE  Inv'
<1>1. v.pc \notin HolderPcs
  BY DEF Plain, PlainPcs, HolderPcs, OwnerPcs, CompletionPcs
<1>2. Local(v) /\ target' \in BOOLEAN
  BY PlainLocal DEF Inv, Shapes
<1> QED
  BY <1>1, <1>2, QuietStep

-----------------------------------------------------------------------------
(* initiateManagedUpload, uploadManaged and the transfer.                  *)

\* The upload target is created, or its call fails (createUploadUrl).
LEMMA PresignStep ==
  ASSUME ConstantsOK, Inv, NEW p \in Procs, createUploadUrl(p)
  PROVE  Inv'
<1>1. /\ task[p].pc = "presign" /\ UNCHANGED << now, row, staging, final, lastClaim >>
      /\ row.saved /\ task[p] \in Tasks
  BY Saved DEF createUploadUrl, Inv, Shapes
<1>2. CASE /\ target' = ~task[p].managed /\ faults' = faults
           /\ \E pc \in IF ~task[p].managed THEN {"idle"}
                        ELSE IF Kind = "s3" THEN {"send"} ELSE {"putRead", "stream"} :
                Goto(p, [Idle EXCEPT !.pc = pc, !.managed = task[p].managed])
  <2>1. PICK pc \in {"idle", "send", "putRead", "stream"} :
          Goto(p, [Idle EXCEPT !.pc = pc, !.managed = task[p].managed])
    BY <1>2
  <2>2. PICK v : v = [Idle EXCEPT !.pc = pc, !.managed = task[p].managed]
    OBVIOUS
  <2>3. v \in Tasks /\ v.pc = pc
    <3>1. Idle \in Tasks
      BY <1>1, FailedCallType
    <3> QED
      BY <1>1, <2>2, <3>1 DEF Tasks, OtherPcs
  <2>4. Plain(v) /\ v.pc \notin PresignPcs \cup HolderPcs
    BY <2>3 DEF Plain, PlainPcs, PresignPcs, HolderPcs, OwnerPcs, CompletionPcs
  <2>5. Local(v)
    BY <2>3, <2>4, PlainLocal
  <2>6. task' = [task EXCEPT ![p] = v] /\ task[p].pc \in PresignPcs
    BY <1>1, <2>1, <2>2 DEF Goto, PresignPcs
  <2>7. /\ target' \in BOOLEAN /\ faults' \in Nat /\ staging' \in Objects
        /\ lastClaim' \in [Instances -> Nat] /\ now' = now /\ row' = row /\ final' = final
    BY <1>1, <1>2 DEF Inv, Shapes, Tasks
  <2> QED
    BY <1>1, <2>3, <2>4, <2>5, <2>6, <2>7, QuietStep
<1>3. CASE Charge("none") /\ target' = target /\ Goto(p, [At(p, "cleanup") EXCEPT !.managed = FALSE])
  <2>1. PICK v : v = [At(p, "cleanup") EXCEPT !.managed = FALSE]
    OBVIOUS
  <2>2. v \in Tasks /\ v.pc = "cleanup"
    <3>1. At(p, "cleanup") \in Tasks /\ At(p, "cleanup").pc = "cleanup"
      BY AtType DEF OtherPcs
    <3> QED
      BY <2>1, <3>1 DEF Tasks
  <2>3. Plain(v) /\ v.pc \notin HolderPcs /\ ~Open(v)
    BY <2>2 DEF Plain, PlainPcs, HolderPcs, OwnerPcs, CompletionPcs, Open, DeletePcs
  <2>4. Local(v)
    BY <2>2, <2>3, PlainLocal
  <2>5. task' = [task EXCEPT ![p] = v] /\ task[p].pc \in PresignPcs
    BY <1>1, <1>3, <2>1 DEF Goto, PresignPcs
  <2>6. /\ target' \in BOOLEAN /\ staging' \in Objects /\ target' = target
        /\ lastClaim' \in [Instances -> Nat] /\ now' = now /\ row' = row /\ final' = final
    BY <1>1, <1>3 DEF Inv, Shapes
  <2>7. faults' \in Nat
    BY <1>3, ChargeType
  <2> QED
    BY <1>1, <2>2, <2>3, <2>4, <2>5, <2>6, <2>7, QuietStep
<1> QED
  BY <1>2, <1>3 DEF createUploadUrl

\* Where the bytes of a request go: the staging object, and no other.
LEMMA TransferStep ==
  ASSUME ConstantsOK, Inv, NEW p \in Procs,
         managedSend(p) \/ managedStream(p) \/ putUploadContent(p) \/ putContentWrite(p)
  PROVE  Inv'
<1>1. /\ task[p].pc \in {"send", "stream", "putRead", "put"} \/ (task[p] = Idle /\ target)
      /\ UNCHANGED << now, row, target, final, lastClaim >>
  BY DEF managedSend, managedStream, putUploadContent, putContentWrite, putObject, Requested
<1>2. row.saved /\ task[p] \in Tasks /\ now' = now /\ row' = row /\ target' = target /\ final' = final
      /\ lastClaim' \in [Instances -> Nat]
  BY <1>1, Saved DEF Inv, Shapes
<1>3. staging' \in Objects
  BY DEF managedSend, managedStream, putUploadContent, putContentWrite, putObject, Inv, Shapes, Objects
<1>4. faults' \in Nat
  BY ChargeType DEF managedSend, managedStream, putUploadContent, putContentWrite, putObject, Inv, Shapes
<1>5. Open(task[p]) \/ target
  BY <1>1 DEF Open
<1>6. CASE Goto(p, FailedCall(task[p]))
  BY <1>2, <1>3, <1>4, <1>5, <1>6, FailedCallType, PlainStep DEF Goto
<1>7. ASSUME NEW s \in {"complete", "put"}, Goto(p, At(p, s)) PROVE Inv'
  <2>1. PICK v : v = At(p, s)
    OBVIOUS
  <2>2. v \in Tasks /\ v.pc = s
    BY <2>1, AtType DEF OtherPcs
  <2>3. Plain(v) /\ v.pc \notin PresignPcs
    BY <2>2 DEF Plain, PlainPcs, PresignPcs
  <2>4. task' = [task EXCEPT ![p] = v]
    BY <1>7, <2>1 DEF Goto
  <2> QED
    BY <1>2, <1>3, <1>4, <1>5, <2>2, <2>3, <2>4, PlainStep
<1> QED
  BY <1>6, <1>7 DEF managedSend, managedStream, putUploadContent, putContentWrite, putObject

\* A client's PUT concerns only the staging object.
LEMMA ClientPutStep ==
  ASSUME ConstantsOK, Inv, clientPut
  PROVE  Inv'
<1>1. staging' \in Objects /\ UNCHANGED << now, row, target, final, task, lastClaim, faults >>
  BY DEF clientPut, Objects
<1> QED
  BY <1>1 DEF Inv, Shapes, Expiry, Unsaved, Private, OneHolder, Local, Snapshot, Completion, Deletion,
              ManagedEnds, ReadyIsVerified, NoOrphanFinal, Open, Etag

\* initiateManagedUpload and uploadManaged save the pending row.
LEMMA InitiateStep ==
  ASSUME ConstantsOK, Inv, NEW p \in Procs, NEW managed \in BOOLEAN, initiate(p, managed)
  PROVE  Inv'
<1>1. /\ ~row.saved /\ UNCHANGED << now, target, staging, final, lastClaim >>
      /\ row = NoRow /\ ~target /\ final = NoObject /\ \A q \in Procs : task[q] = Idle
  BY DEF initiate, Same, Inv, Unsaved
<1>2. now \in Nat /\ now > 1 /\ Idle \in Tasks /\ Idle.pc = "idle"
  <2>1. \A t \in Tasks : Idle \in Tasks /\ Idle.pc = "idle"
    BY FailedCallType
  <2> QED
    BY <2>1 DEF Inv, Shapes
<1>3. /\ PendingRow \in Rows /\ PendingRow.saved /\ PendingRow.status = "pending"
      /\ PendingRow.deletionPendingAt = Null /\ ~PendingRow.deletedAt /\ PendingRow.expiredAt = Null
      /\ PendingRow.uploadPendingAt \in Nat
  <2>1. NoRow \in Rows /\ ~NoRow.deletedAt /\ NoRow.status = "pending" /\ NoRow.deletionPendingAt = Null
        /\ NoRow.expiredAt = Null
    BY DEF NoRow, Rows, Times, Null, NoObject, Objects
  <2>2. now + UrlTtl \in Nat /\ now + UrlTtl + ActivationLease \in Nat
    BY <1>2 DEF ConstantsOK
  <2> QED
    BY <2>1, <2>2 DEF PendingRow, Rows, Times
<1>4. PICK saved : saved = [Idle EXCEPT !.pc = "presign", !.marker = PendingRow.uploadPendingAt, !.managed = managed]
  OBVIOUS
<1>5. saved \in Tasks /\ saved.pc = "presign"
  BY <1>2, <1>3, <1>4 DEF Tasks, OtherPcs, Times
<1>6. PICK o \in Outcomes : /\ Charge(o)
                            /\ row' = IF o # "none" THEN PendingRow ELSE row
                            /\ Goto(p, IF o = "ok" THEN saved ELSE Idle)
  BY <1>4 DEF initiate, Update
<1>7. faults' \in Nat
  BY <1>6, ChargeType
<1>8. PICK v \in {saved, Idle} : task' = [task EXCEPT ![p] = v] /\ (row' = row => v = Idle)
  <2>1. PendingRow # row
    BY <1>1, <1>3
  <2>2. CASE o = "ok"
    BY <1>6, <2>1, <2>2 DEF Goto
  <2>3. CASE o # "ok"
    BY <1>6, <2>1, <2>3 DEF Goto
  <2> QED
    BY <2>2, <2>3
<1>9. v \in Tasks /\ v.pc \in {"idle", "presign"} /\ Plain(v)
  BY <1>2, <1>5, <1>8 DEF Plain, PlainPcs
<1>10. \A q \in Procs : task'[q] = IF q = p THEN v ELSE Idle
  BY <1>1, <1>8 DEF Inv, Shapes
<1>11. Plain(Idle)
  BY <1>2 DEF Plain, PlainPcs
<1>12. ASSUME NEW q \in Procs PROVE Local(task[q])'
  <2>1. PICK t \in {v, Idle} : t = task'[q]
    BY <1>10
  <2>2. Local(t)'
    BY <1>2, <1>9, <1>11, PlainLocal
  <2> QED
    BY <2>1, <2>2 DEF Local, Snapshot, Completion, Deletion, ManagedEnds
<1>13. Shapes'
  <2>1. task' \in [Procs -> Tasks]
    BY <1>8, <1>9 DEF Inv, Shapes
  <2>2. row' \in Rows
    BY <1>3, <1>6 DEF Inv, Shapes
  <2> QED
    BY <1>1, <1>7, <2>1, <2>2 DEF Inv, Shapes
<1>14. Expiry(row)' /\ Unsaved' /\ ReadyIsVerified' /\ NoOrphanFinal'
  <2>1. CASE row' = row
    <3>1. v = Idle
      BY <1>8, <2>1
    <3>2. Unsaved'
      BY <1>1, <1>10, <2>1, <3>1 DEF Unsaved
    <3> QED
      BY <1>1, <2>1, <3>2 DEF Inv, Expiry, ReadyIsVerified, NoOrphanFinal
  <2>2. CASE row' = PendingRow
    BY <1>1, <1>3, <2>2 DEF Expiry, Unsaved, ReadyIsVerified, NoOrphanFinal, Visible
  <2> QED
    BY <1>6, <2>1, <2>2
<1>15. Private' /\ OneHolder'
  <2>1. Idle.pc \notin PresignPcs \cup HolderPcs /\ ~Open(Idle) /\ v.pc \notin HolderPcs
    BY <1>2, <1>9 DEF PresignPcs, HolderPcs, OwnerPcs, CompletionPcs, Open, DeletePcs
  <2>2. OneHolder'
    BY <1>10, <2>1 DEF OneHolder
  <2>3. \A a, b \in Procs : task'[a].pc \in PresignPcs /\ b # a => task'[b] = Idle
    BY <1>10, <2>1
  <2>4. ~target'
    BY <1>1
  <2> QED
    BY <2>1, <2>2, <2>3, <2>4 DEF Private, Open
<1> QED
  BY <1>12, <1>13, <1>14, <1>15 DEF Inv

-----------------------------------------------------------------------------
(* completeManagedUpload.                                                  *)

\* completeManagedUpload reads the row.
LEMMA CompleteUploadStep ==
  ASSUME ConstantsOK, Inv, NEW p \in Procs, completeUpload(p)
  PROVE  Inv'
<1>1. /\ task[p].pc = "complete" \/ (task[p] = Idle /\ target)
      /\ UNCHANGED << now, row, target, staging, final, lastClaim, faults >>
  BY DEF completeUpload, Requested
<1>2. /\ row.saved /\ task[p] \in Tasks /\ now' = now /\ row' = row /\ target' = target /\ final' = final
      /\ lastClaim' \in [Instances -> Nat] /\ staging' \in Objects /\ faults' \in Nat
      /\ now \in Nat /\ row \in Rows /\ target' \in BOOLEAN
  BY <1>1, Saved DEF Inv, Shapes
<1>3. Open(task[p]) \/ target
  BY <1>1 DEF Open
<1>4. CASE Goto(p, FailedCall(task[p]))
  BY <1>2, <1>3, <1>4, FailedCallType, PlainStep DEF Goto
<1>5. CASE Goto(p, Idle)
  <2>1. Idle \in Tasks /\ Idle.pc = "idle"
    BY <1>2, FailedCallType
  <2>2. Plain(Idle) /\ Idle.pc \notin PresignPcs
    BY <2>1 DEF Plain, PlainPcs, PresignPcs
  <2> QED
    BY <1>2, <1>3, <1>5, <2>1, <2>2, PlainStep DEF Goto
<1>6. CASE /\ Completable(row)
           /\ Goto(p, [At(p, "verify") EXCEPT !.snap = row, !.marker = now + ActivationLease])
  <2>1. PICK v : v = [At(p, "verify") EXCEPT !.snap = row, !.marker = now + ActivationLease]
    OBVIOUS
  <2>2. v \in Tasks /\ v.pc = "verify" /\ v.snap = row /\ v.marker = now + ActivationLease
    <3>1. At(p, "verify") \in Tasks /\ At(p, "verify").pc = "verify"
      BY AtType DEF CompletionPcs
    <3>2. now + ActivationLease \in Nat
      BY <1>2 DEF ConstantsOK
    <3> QED
      BY <1>2, <2>1, <3>1, <3>2 DEF Tasks, Times
  <2>3. Local(v)
    <3>1. v.marker > now /\ v.marker <= now + ActivationLease
      BY <1>2, <2>2 DEF ConstantsOK
    <3>2. v.snap.status \in {"pending", "completing"}
      BY <1>6, <2>2 DEF Completable
    <3>3. Snapshot(v)
      BY <2>2, <3>1, <3>2 DEF Snapshot, ClaimPcs, DeletePcs
    <3>4. Completion(v)
      BY <2>2, <3>1 DEF Completion, HolderPcs, OwnerPcs, CompletionPcs
    <3>5. Deletion(v) /\ ManagedEnds(v)
      BY <2>2 DEF Deletion, ManagedEnds, DeletePcs
    <3> QED
      BY <3>3, <3>4, <3>5 DEF Local
  <2>4. v.pc \notin PresignPcs \cup HolderPcs
    BY <2>2 DEF PresignPcs, HolderPcs, OwnerPcs, CompletionPcs
  <2>5. task' = [task EXCEPT ![p] = v]
    BY <1>6, <2>1 DEF Goto
  <2> QED
    BY <1>2, <1>3, <2>2, <2>3, <2>4, <2>5, QuietStep
<1> QED
  BY <1>4, <1>5, <1>6 DEF completeUpload

\* The staged object is verified (verifyStaging).
LEMMA VerifyStep ==
  ASSUME ConstantsOK, Inv, NEW p \in Procs, verifyStaging(p)
  PROVE  Inv'
<1>1. /\ task[p].pc = "verify"
      /\ UNCHANGED << now, row, target, staging, final, lastClaim >>
  BY DEF verifyStaging
<1>2. /\ row.saved /\ task[p] \in Tasks /\ now' = now /\ row' = row /\ target' = target /\ final' = final
      /\ lastClaim' \in [Instances -> Nat] /\ staging' \in Objects
      /\ now \in Nat /\ target' \in BOOLEAN /\ staging \in Objects
  BY <1>1, Saved DEF Inv, Shapes
<1>3. Open(task[p])
  BY <1>1 DEF Open, CompletionPcs
<1>4. faults' \in Nat
  BY ChargeType DEF verifyStaging, Inv, Shapes
<1>5. CASE Goto(p, FailedCall(task[p]))
  BY <1>2, <1>3, <1>4, <1>5, FailedCallType, PlainStep DEF Goto
<1>6. CASE /\ task[p].snap.status = "completing" => task[p].snap.uploadPendingAt <= task[p].marker - ActivationLease
           /\ Goto(p, [At(p, "claim") EXCEPT !.seen = Etag(staging)])
  <2>1. PICK v : v = [At(p, "claim") EXCEPT !.seen = Etag(staging)]
    OBVIOUS
  <2>2. v \in Tasks /\ v.pc = "claim" /\ v.snap = task[p].snap /\ v.marker = task[p].marker
    <3>1. At(p, "claim") \in Tasks /\ At(p, "claim").pc = "claim" /\ At(p, "claim").snap = task[p].snap
          /\ At(p, "claim").marker = task[p].marker
      BY AtType DEF CompletionPcs
    <3>2. Etag(staging) \in Objects
      BY <1>2 DEF Etag, Objects
    <3> QED
      BY <2>1, <3>1, <3>2 DEF Tasks
  <2>3. Local(task[p])
    BY DEF Inv
  <2>4. v.snap.status = "completing" => v.snap.uploadPendingAt <= now
    <3>1. task[p].marker <= now + ActivationLease
      BY <1>1, <2>3 DEF Local, Snapshot
    <3>2. task[p].marker \in Nat /\ task[p].snap.uploadPendingAt \in Nat /\ ActivationLease \in Nat
      BY <1>2 DEF Tasks, Rows, Times, ConstantsOK
    <3> QED
      BY <1>2, <1>6, <2>2, <3>1, <3>2
  <2>5. Local(v)
    BY <1>1, <2>2, <2>3, <2>4 DEF Local, Snapshot, Completion, Deletion, ManagedEnds, ClaimPcs, DeletePcs,
           HolderPcs, OwnerPcs, CompletionPcs
  <2>6. v.pc \notin PresignPcs \cup HolderPcs
    BY <2>2 DEF PresignPcs, HolderPcs, OwnerPcs, CompletionPcs
  <2>7. task' = [task EXCEPT ![p] = v]
    BY <1>6, <2>1 DEF Goto
  <2> QED
    BY <1>2, <1>3, <1>4, <2>2, <2>5, <2>6, <2>7, QuietStep
<1> QED
  BY <1>5, <1>6 DEF verifyStaging

\* The next step of a completion that holds the row is of its own.
LEMMA HolderMove ==
  ASSUME ConstantsOK, Inv, NEW p \in Procs, task[p].pc \in HolderPcs, NEW v \in Tasks,
         v.pc \in HolderPcs, v.marker = task[p].marker,
         v.pc \in OwnerPcs => task[p].pc \in OwnerPcs,
         v.pc \in {"unstage", "finalize"} => final \in Versions /\ v.seen = Etag(final)
  PROVE  Local(v)
<1>1. Local(task[p])
  BY DEF Inv
<1>2. HolderPcs \subseteq CompletionPcs /\ OwnerPcs \subseteq HolderPcs
  BY DEF HolderPcs, OwnerPcs, CompletionPcs
<1>3. /\ v.pc \notin {"verify", "claim", "abortClaim", "expireClaim", "retryClaim", "tempClaim", "managedFailed"}
      /\ v.pc \notin ClaimPcs \cup DeletePcs
  BY DEF HolderPcs, OwnerPcs, CompletionPcs, ClaimPcs, DeletePcs
<1>4. Completion(v)
  BY <1>1, <1>2 DEF Local, Completion, owns
<1>5. Snapshot(v) /\ Deletion(v) /\ ManagedEnds(v)
  BY <1>3 DEF Snapshot, Deletion, ManagedEnds, DeletePcs
<1> QED
  BY <1>4, <1>5 DEF Local

\* HEAD, unlink and delete of the completion change neither row nor final object.
LEMMA HolderQuietStep ==
  ASSUME ConstantsOK, Inv, NEW p \in Procs,
         headFinal(p) \/ promoteUnlink(p) \/ deleteStaging(p) \/ confirmCompletion(p)
  PROVE  Inv'
<1>1. /\ task[p].pc \in {"headFinal", "recheck", "unlink", "unstage", "confirm"}
      /\ UNCHANGED << now, row, target, final, lastClaim >>
  BY DEF headFinal, promoteUnlink, deleteStaging, confirmCompletion
<1>2. /\ row.saved /\ task[p] \in Tasks /\ now' = now /\ row' = row /\ target' = target /\ final' = final
      /\ lastClaim' \in [Instances -> Nat] /\ target' \in BOOLEAN /\ final \in Objects
  BY <1>1, Saved DEF Inv, Shapes
<1>3. Open(task[p]) /\ task[p].pc \in HolderPcs /\ Local(task[p])
  BY <1>1 DEF Open, CompletionPcs, HolderPcs, OwnerPcs, Inv
<1>4. faults' \in Nat /\ staging' \in Objects
  BY ChargeType DEF headFinal, promoteUnlink, deleteStaging, confirmCompletion, Inv, Shapes, Objects, NoObject
<1>5. CASE Goto(p, Idle)
  <2>1. Idle \in Tasks /\ Idle.pc = "idle"
    BY <1>2, FailedCallType
  <2>2. Plain(Idle) /\ Idle.pc \notin PresignPcs
    BY <2>1 DEF Plain, PlainPcs, PresignPcs
  <2> QED
    BY <1>2, <1>3, <1>4, <1>5, <2>1, <2>2, PlainStep DEF Goto
<1>6. ASSUME NEW v \in Tasks, Goto(p, v), v.pc \in HolderPcs, v.marker = task[p].marker,
             v.pc \in OwnerPcs => task[p].pc \in OwnerPcs,
             v.pc \in {"unstage", "finalize"} => final \in Versions /\ v.seen = Etag(final)
      PROVE  Inv'
  <2>1. Local(v)
    BY <1>3, <1>6, HolderMove
  <2>2. v.pc \notin PresignPcs
    BY <1>6 DEF PresignPcs, HolderPcs, OwnerPcs, CompletionPcs
  <2>3. task' = [task EXCEPT ![p] = v]
    BY <1>6 DEF Goto
  <2> QED
    BY <1>2, <1>3, <1>4, <1>6, <2>1, <2>2, <2>3, QuietStep
<1>7. ASSUME NEW s \in {"promote", "retryable", "recheck"}, Goto(p, At(p, s)),
             s # "retryable" => task[p].pc \in OwnerPcs
      PROVE  Inv'
  <2>1. At(p, s) \in Tasks /\ At(p, s).pc = s /\ At(p, s).marker = task[p].marker
    BY AtType DEF CompletionPcs
  <2>2. s \in HolderPcs /\ (s \in OwnerPcs => s # "retryable")
    BY DEF HolderPcs, OwnerPcs, CompletionPcs
  <2> QED
    BY <1>6, <1>7, <2>1, <2>2
<1>8. CASE final \in Versions /\ Goto(p, Verified(task[p])) /\ task[p].pc \in {"headFinal", "recheck"}
  <2>1. PICK s \in {"unstage", "finalize"} : s = IF Kind = "local" THEN "unstage" ELSE "finalize"
    OBVIOUS
  <2>2. Verified(task[p]) = [task[p] EXCEPT !.pc = s, !.seen = Etag(final)]
    BY <2>1 DEF Verified
  <2>3. Etag(final) \in Objects
    BY <1>2 DEF Etag, Objects
  <2>4. Verified(task[p]) \in Tasks /\ Verified(task[p]).pc = s /\ Verified(task[p]).marker = task[p].marker
        /\ Verified(task[p]).seen = Etag(final)
    BY <1>2, <2>2, <2>3 DEF Tasks, CompletionPcs
  <2>5. s \in HolderPcs /\ task[p].pc \in OwnerPcs
    BY <1>8 DEF HolderPcs, OwnerPcs, CompletionPcs
  <2> QED
    BY <1>6, <1>8, <2>4, <2>5
<1>9. CASE task[p].pc = "unstage" /\ Goto(p, At(p, "finalize"))
  <2>1. At(p, "finalize") \in Tasks /\ At(p, "finalize").pc = "finalize" /\ At(p, "finalize").marker = task[p].marker
        /\ At(p, "finalize").seen = task[p].seen
    BY AtType DEF CompletionPcs
  <2>2. final \in Versions /\ task[p].seen = Etag(final)
    BY <1>3, <1>9 DEF Local, Completion
  <2>3. "finalize" \in HolderPcs /\ task[p].pc \in OwnerPcs
    BY <1>9 DEF HolderPcs, OwnerPcs, CompletionPcs
  <2> QED
    BY <1>6, <1>9, <2>1, <2>2, <2>3
<1>10. task[p].pc # "confirm" => task[p].pc \in OwnerPcs
  BY <1>1 DEF OwnerPcs, CompletionPcs
<1>11. CASE headFinal(p)
  BY <1>7, <1>8, <1>10, <1>11 DEF headFinal, metadataMatches
<1>12. CASE promoteUnlink(p)
  BY <1>7, <1>10, <1>12 DEF promoteUnlink
<1>13. CASE deleteStaging(p)
  BY <1>7, <1>9, <1>13 DEF deleteStaging
<1>14. CASE confirmCompletion(p)
  BY <1>5, <1>7, <1>14 DEF confirmCompletion
<1> QED
  BY <1>11, <1>12, <1>13, <1>14

\* A step that changes the row and no object.
LEMMA RowStep ==
  ASSUME ConstantsOK, Inv, NEW p \in Procs, NEW v \in Tasks, task' = [task EXCEPT ![p] = v],
         now' = now, target' = target, staging' = staging, final' = final,
         lastClaim' \in [Instances -> Nat], faults' \in Nat,
         RowKept, Spared(p),
         v.pc \in PresignPcs => task[p].pc \in PresignPcs,
         Open(v) => Open(task[p]) \/ task[p].pc \in PresignPcs \/ target,
         v.pc \in HolderPcs => task[p].pc \in HolderPcs \/ \A q \in Procs : task[q].pc \notin HolderPcs,
         Local(v)', ReadyIsVerified', NoOrphanFinal'
  PROVE  Inv'
<1>1. target' \in BOOLEAN /\ staging' \in Objects /\ final' \in Objects /\ FinalKept(p)
  BY DEF Inv, Shapes, FinalKept
<1> QED
  BY <1>1, ProcStep

\* The promotion writes the final object of a row that the completion owns.
LEMMA PromoteStep ==
  ASSUME ConstantsOK, Inv, NEW p \in Procs, promoteObject(p)
  PROVE  Inv'
<1>1. task[p].pc = "promote" /\ UNCHANGED << now, row, target, staging, lastClaim >>
  BY DEF promoteObject
<1>2. /\ row.saved /\ task[p] \in Tasks /\ now' = now /\ row' = row /\ target' = target
      /\ lastClaim' \in [Instances -> Nat] /\ target' \in BOOLEAN /\ staging' \in Objects /\ final' \in Objects
  BY <1>1, Saved DEF Inv, Shapes, promoteObject
<1>3. faults' \in Nat
  BY ChargeType DEF promoteObject
<1>4. Open(task[p]) /\ task[p].pc \in HolderPcs /\ task[p].pc \in OwnerPcs /\ Local(task[p])
  BY <1>1 DEF Open, CompletionPcs, HolderPcs, OwnerPcs, Inv
<1>5. PICK s \in {"unlink", "recheck", "retryable"} : Goto(p, At(p, s))
  BY DEF promoteObject
<1>6. PICK v : v = At(p, s)
  OBVIOUS
<1>7. v \in Tasks /\ v.pc = s /\ v.marker = task[p].marker
  BY <1>6, AtType DEF CompletionPcs
<1>8. v.pc \in HolderPcs /\ v.pc \notin PresignPcs \cup DeletePcs \cup {"unstage", "finalize"}
  BY <1>7 DEF HolderPcs, OwnerPcs, CompletionPcs, PresignPcs, DeletePcs
<1>9. Local(v)'
  <2>1. Local(v)
    BY <1>4, <1>7, <1>8, HolderMove
  <2>2. Snapshot(v)' /\ Completion(v)' /\ ManagedEnds(v)'
    BY <1>2, <1>8, <2>1 DEF Local, Snapshot, Completion, ManagedEnds
  <2>3. Deletion(v)'
    BY <1>8 DEF Deletion, DeletePcs
  <2> QED
    BY <2>2, <2>3 DEF Local
<1>10. lifecycleWhere(row) /\ row.status = "completing"
  BY <1>4 DEF Local, Completion, owns
<1>11. ReadyIsVerified' /\ NoOrphanFinal'
  BY <1>2, <1>10 DEF ReadyIsVerified, Visible, NoOrphanFinal, Tracked
<1>12. RowKept /\ Spared(p) /\ FinalKept(p)
  BY <1>1, <1>2 DEF RowKept, Spared, FinalKept, Inv, Shapes
<1>13. task' = [task EXCEPT ![p] = v]
  BY <1>5, <1>6 DEF Goto
<1> QED
  BY <1>2, <1>3, <1>4, <1>7, <1>8, <1>9, <1>11, <1>12, <1>13, ProcStep

\* A completion claims a row that no completion holds.
LEMMA ClaimCompletionStep ==
  ASSUME ConstantsOK, Inv, NEW p \in Procs, claimCompletion(p)
  PROVE  Inv'
<1> PICK t \in Tasks : t = task[p]
  BY DEF Inv, Shapes
<1>1. task[p].pc = "claim" /\ UNCHANGED << now, target, staging, final, lastClaim >>
  BY DEF claimCompletion, Same
<1>2. /\ row.saved /\ now' = now /\ target' = target /\ final' = final /\ staging' = staging /\ now \in Nat
      /\ lastClaim' \in [Instances -> Nat] /\ staging' \in Objects /\ row \in Rows /\ Expiry(row)
  BY <1>1, Saved DEF Inv, Shapes
<1>3. faults' \in Nat
  BY ChargeType DEF claimCompletion, Update
<1>4. Open(task[p]) /\ Local(t)
  BY <1>1 DEF Open, CompletionPcs, Inv
<1>5. /\ FailedCall(t) \in Tasks /\ Plain(FailedCall(t)) /\ FailedCall(t).pc \notin PresignPcs \cup HolderPcs
      /\ Idle \in Tasks /\ Plain(Idle) /\ Idle.pc \notin PresignPcs \cup HolderPcs
  <2>1. Idle \in Tasks /\ Idle.pc = "idle"
    BY FailedCallType
  <2> QED
    BY <2>1, FailedCallType DEF Plain, PlainPcs, PresignPcs, HolderPcs, OwnerPcs, CompletionPcs
<1>6. PICK own : own = [At(p, "headFinal") EXCEPT !.snap = NoRow]
  OBVIOUS
<1>7. own \in Tasks /\ own.pc = "headFinal" /\ own.marker = t.marker
  <2>1. At(p, "headFinal") \in Tasks /\ At(p, "headFinal").pc = "headFinal" /\ At(p, "headFinal").marker = t.marker
    BY AtType DEF CompletionPcs
  <2>2. NoRow \in Rows
    BY DEF NoRow, Rows, Times, Null, NoObject, Objects
  <2> QED
    BY <1>6, <2>1, <2>2 DEF Tasks
<1>8. CASE row' = row /\ \E v \in {FailedCall(t), Idle} : Goto(p, v)
  <2>1. PICK v \in {FailedCall(t), Idle} : Goto(p, v)
    BY <1>8
  <2>2. v \in Tasks /\ Plain(v) /\ v.pc \notin PresignPcs /\ task' = [task EXCEPT ![p] = v]
    BY <1>5, <2>1 DEF Goto
  <2> QED
    BY <1>2, <1>3, <1>4, <1>8, <2>2, PlainStep
<1>9. CASE claimCriteria(row, t.snap) /\ row' = Completing(row, t) /\ \E v \in {FailedCall(t), own} : Goto(p, v)
  <2>1. /\ lifecycleWhere(row) /\ row.status \in {"pending", "completing"}
        /\ row.status = "completing" => row.uploadPendingAt <= now
    <3>1. t.snap.status \in {"pending", "completing"} /\ (t.snap.status = "completing" => t.snap.uploadPendingAt <= now)
      BY <1>1, <1>4 DEF Local, Snapshot
    <3> QED
      BY <1>9, <3>1 DEF claimCriteria
  <2>2. ~completionIsActive(row) /\ ~Dead(row) /\ ~Spent(row)
    <3>1. row.uploadPendingAt \in Nat
      BY <1>2 DEF Rows, Times
    <3> QED
      BY <1>2, <2>1, <3>1 DEF completionIsActive, Dead, Spent, lifecycleWhere
  <2>3. /\ row' \in Rows /\ row'.saved /\ row'.status = "completing" /\ row'.uploadPendingAt = t.marker
        /\ row'.deletedAt = row.deletedAt /\ row'.deletionPendingAt = row.deletionPendingAt
        /\ row'.expiredAt = row.expiredAt
    BY <1>2, <1>9 DEF Completing, Rows, Tasks, Times
  <2>4. RowKept /\ Spared(p)
    BY <1>2, <2>1, <2>2, <2>3 DEF RowKept, Spared, Expiry
  <2>5. lifecycleWhere(row')
    BY <2>1, <2>3 DEF lifecycleWhere
  <2>6. ReadyIsVerified' /\ NoOrphanFinal'
    BY <2>3, <2>5 DEF ReadyIsVerified, Visible, NoOrphanFinal, Tracked
  <2>7. \A q \in Procs : task[q].pc \notin HolderPcs
    <3> SUFFICES ASSUME NEW q \in Procs, task[q].pc \in HolderPcs PROVE FALSE
      OBVIOUS
    <3>1. Local(task[q]) /\ HolderPcs \subseteq CompletionPcs
      BY DEF Inv, HolderPcs, OwnerPcs, CompletionPcs
    <3>2. owns(row, task[q]) /\ task[q].marker > now
      BY <2>2, <3>1 DEF Local, Completion
    <3> QED
      BY <2>2, <3>2 DEF owns, completionIsActive
  <2>8. PICK v \in {FailedCall(t), own} : task' = [task EXCEPT ![p] = v]
    BY <1>9 DEF Goto
  <2>9. v \in Tasks /\ v.pc \notin PresignPcs
    BY <1>5, <1>7, <2>8 DEF PresignPcs
  <2>10. Local(v)'
    <3>1. CASE v = FailedCall(t)
      BY <1>5, <3>1, PlainLocal
    <3>2. CASE v = own
      <4>1. t.marker > now
        BY <1>1, <1>4 DEF Local, Completion, CompletionPcs
      <4>2. owns(row', v)
        BY <1>7, <2>3, <2>5, <3>2 DEF owns
      <4>3. Completion(v)'
        BY <1>2, <1>7, <3>2, <4>1, <4>2 DEF Completion
      <4>4. Snapshot(v)' /\ Deletion(v)' /\ ManagedEnds(v)'
        BY <1>7, <3>2 DEF Snapshot, Deletion, ManagedEnds, ClaimPcs, DeletePcs
      <4> QED
        BY <4>3, <4>4 DEF Local
    <3> QED
      BY <2>8, <3>1, <3>2
  <2> QED
    BY <1>2, <1>3, <1>4, <2>4, <2>6, <2>7, <2>8, <2>9, <2>10, RowStep
<1> QED
  <2>1. Update(p, claimCriteria(row, t.snap), Completing(row, t), own,
               IF lifecycleWhere(row) /\ row.status = "ready" THEN Idle ELSE FailedCall(t), FailedCall(t))
    BY <1>6 DEF claimCompletion
  <2> QED
    BY <1>8, <1>9, <2>1 DEF Update

\* A completion makes ready the row it owns, over the object it has verified.
LEMMA FinalizeStep ==
  ASSUME ConstantsOK, Inv, NEW p \in Procs, finalizeCompletion(p)
  PROVE  Inv'
<1> PICK t \in Tasks : t = task[p]
  BY DEF Inv, Shapes
<1>1. task[p].pc = "finalize" /\ UNCHANGED << now, target, staging, final, lastClaim >>
  BY DEF finalizeCompletion, Same
<1>2. /\ row.saved /\ now' = now /\ target' = target /\ final' = final /\ staging' = staging /\ now \in Nat /\ now > 1
      /\ lastClaim' \in [Instances -> Nat] /\ staging' \in Objects /\ row \in Rows /\ Expiry(row) /\ target' \in BOOLEAN
  BY <1>1, Saved DEF Inv, Shapes
<1>3. faults' \in Nat
  BY ChargeType DEF finalizeCompletion, Update
<1>4. Open(task[p]) /\ Local(t) /\ task[p].pc \in HolderPcs
  BY <1>1 DEF Open, CompletionPcs, HolderPcs, OwnerPcs, Inv
<1>5. /\ FailedCall(t) \in Tasks /\ Plain(FailedCall(t)) /\ FailedCall(t).pc \notin PresignPcs \cup HolderPcs
      /\ Idle \in Tasks /\ Plain(Idle) /\ Idle.pc \notin PresignPcs \cup HolderPcs
  <2>1. Idle \in Tasks /\ Idle.pc = "idle"
    BY FailedCallType
  <2> QED
    BY <2>1, FailedCallType DEF Plain, PlainPcs, PresignPcs, HolderPcs, OwnerPcs, CompletionPcs
<1>6. PICK unsure : unsure = At(p, "confirm")
  OBVIOUS
<1>7. unsure \in Tasks /\ unsure.pc = "confirm" /\ unsure.marker = t.marker
  BY <1>6, AtType DEF CompletionPcs
<1>8. unsure.pc \in HolderPcs /\ unsure.pc \notin OwnerPcs \cup PresignPcs
  BY <1>7 DEF HolderPcs, OwnerPcs, CompletionPcs, PresignPcs
<1>9. CASE row' = row /\ \E v \in {FailedCall(t), Idle} : Goto(p, v)
  <2>1. PICK v \in {FailedCall(t), Idle} : Goto(p, v)
    BY <1>9
  <2>2. v \in Tasks /\ Plain(v) /\ v.pc \notin PresignPcs /\ task' = [task EXCEPT ![p] = v]
    BY <1>5, <2>1 DEF Goto
  <2> QED
    BY <1>2, <1>3, <1>4, <1>9, <2>2, PlainStep
<1>10. CASE row' = row /\ Goto(p, unsure)
  <2>1. Local(unsure)
    BY <1>4, <1>7, <1>8, HolderMove
  <2>2. task' = [task EXCEPT ![p] = unsure]
    BY <1>10 DEF Goto
  <2> QED
    BY <1>2, <1>3, <1>4, <1>7, <1>8, <1>10, <2>1, <2>2, QuietStep
<1>11. CASE owns(row, t) /\ row' = Ready(row, t) /\ \E v \in {Idle, unsure} : Goto(p, v)
  <2>1. lifecycleWhere(row) /\ row.status = "completing"
    BY <1>11 DEF owns
  <2>2. ~Dead(row) /\ ~Spent(row)
    BY <2>1 DEF Dead, Spent, lifecycleWhere
  <2>3. PICK e \in Nat : e = (IF Temporary THEN now + TempLife ELSE Null) /\ (e # Null <=> Temporary)
    <3>1. now + TempLife \in Nat /\ now + TempLife # 0
      BY <1>2 DEF ConstantsOK
    <3> QED
      BY <3>1 DEF Null
  <2>4. /\ row' \in Rows /\ row'.saved /\ row'.status = "ready" /\ row'.etag = t.seen
        /\ row'.deletedAt = row.deletedAt /\ row'.deletionPendingAt = row.deletionPendingAt
        /\ row'.expiredAt = e
    <3>1. row' = [row EXCEPT !.status = "ready", !.uploadPendingAt = Null, !.etag = t.seen, !.expiredAt = e,
                             !.pendingKey = @ /\ Kind = "s3"]
      BY <1>11, <2>3 DEF Ready
    <3> QED
      BY <1>2, <3>1 DEF Rows, Tasks, Times, Null
  <2>5. RowKept /\ Spared(p)
    BY <1>2, <1>4, <2>2, <2>3, <2>4 DEF RowKept, Spared, Expiry
  <2>6. lifecycleWhere(row')
    BY <2>1, <2>4 DEF lifecycleWhere
  <2>7. ReadyIsVerified' /\ NoOrphanFinal'
    <3>1. final \in Versions /\ t.seen = Etag(final)
      BY <1>1, <1>4 DEF Local, Completion
    <3> QED
      BY <1>2, <2>4, <2>6, <3>1 DEF ReadyIsVerified, Visible, NoOrphanFinal, Tracked, Etag
  <2>8. PICK v \in {Idle, unsure} : task' = [task EXCEPT ![p] = v]
    BY <1>11 DEF Goto
  <2>9. v \in Tasks /\ v.pc \notin PresignPcs
    BY <1>5, <1>7, <1>8, <2>8
  <2>10. Local(v)'
    <3>1. CASE v = Idle
      BY <1>5, <3>1, PlainLocal
    <3>2. CASE v = unsure
      <4>1. t.marker > now
        BY <1>1, <1>4 DEF Local, Completion, CompletionPcs
      <4>2. Spent(row')
        BY <2>4 DEF Spent
      <4>3. Completion(v)'
        BY <1>2, <1>7, <1>8, <3>2, <4>1, <4>2 DEF Completion
      <4>4. Snapshot(v)' /\ Deletion(v)' /\ ManagedEnds(v)'
        BY <1>7, <3>2 DEF Snapshot, Deletion, ManagedEnds, ClaimPcs, DeletePcs
      <4> QED
        BY <4>3, <4>4 DEF Local
    <3> QED
      BY <2>8, <3>1, <3>2
  <2> QED
    BY <1>2, <1>3, <1>4, <2>5, <2>7, <2>8, <2>9, <2>10, RowStep
<1> QED
  <2>1. Update(p, owns(row, t), Ready(row, t), Idle,
               IF lifecycleWhere(row) /\ row.status = "ready" THEN Idle ELSE FailedCall(t), unsure)
    BY <1>6 DEF finalizeCompletion
  <2> QED
    BY <1>9, <1>10, <1>11, <2>1 DEF Update

\* A completion that failed gives up the rest of its lease.
LEMMA RetryableStep ==
  ASSUME ConstantsOK, Inv, NEW p \in Procs, markCompletionRetryable(p)
  PROVE  Inv'
<1> PICK t \in Tasks : t = task[p]
  BY DEF Inv, Shapes
<1>1. task[p].pc = "retryable" /\ UNCHANGED << now, target, staging, final, lastClaim >>
  BY DEF markCompletionRetryable, Same
<1>2. /\ row.saved /\ now' = now /\ target' = target /\ final' = final /\ staging' = staging /\ now \in Nat /\ now > 1
      /\ lastClaim' \in [Instances -> Nat] /\ staging' \in Objects /\ row \in Rows /\ Expiry(row)
  BY <1>1, Saved DEF Inv, Shapes
<1>3. faults' \in Nat
  BY ChargeType DEF markCompletionRetryable, Update
<1>4. Open(task[p]) /\ task[p].pc \in HolderPcs
  BY <1>1 DEF Open, CompletionPcs, HolderPcs, OwnerPcs, Inv
<1>5. PICK v : v = FailedCall(t)
  OBVIOUS
<1>6. v \in Tasks /\ Plain(v) /\ v.pc \notin PresignPcs \cup HolderPcs
  BY <1>5, FailedCallType
<1>7. /\ task' = [task EXCEPT ![p] = v]
      /\ row' = row \/ (owns(row, t) /\ row' = [row EXCEPT !.uploadPendingAt = now - 1])
  BY <1>5 DEF markCompletionRetryable, Update, Goto
<1>8. CASE row' = row
  BY <1>2, <1>3, <1>4, <1>6, <1>7, <1>8, PlainStep
<1>9. CASE owns(row, t) /\ row' = [row EXCEPT !.uploadPendingAt = now - 1]
  <2>1. now - 1 \in Nat
    BY <1>2
  <2>2. /\ row' \in Rows /\ row'.saved /\ row'.status = row.status
        /\ row'.deletedAt = row.deletedAt /\ row'.deletionPendingAt = row.deletionPendingAt
        /\ row'.expiredAt = row.expiredAt
    BY <1>2, <1>9, <2>1 DEF Rows, Times
  <2>3. lifecycleWhere(row) /\ row.status = "completing" /\ lifecycleWhere(row')
    BY <1>9, <2>2 DEF owns, lifecycleWhere
  <2>4. RowKept /\ Spared(p)
    BY <1>2, <1>4, <2>2, <2>3 DEF RowKept, Spared, Expiry, Dead, Spent, lifecycleWhere
  <2>5. ReadyIsVerified' /\ NoOrphanFinal'
    BY <2>2, <2>3 DEF ReadyIsVerified, Visible, NoOrphanFinal, Tracked
  <2>6. Local(v)'
    BY <1>6, PlainLocal
  <2> QED
    BY <1>2, <1>3, <1>4, <1>6, <1>7, <2>4, <2>5, <2>6, RowStep
<1> QED
  BY <1>7, <1>8, <1>9

-----------------------------------------------------------------------------
(* Claims for deletion, and what follows them.                             *)

\* Where a call goes when its abort is over.
LEMMA AbortedType ==
  ASSUME ConstantsOK, NEW t \in Tasks
  PROVE  /\ Aborted(t) \in Tasks
         /\ Aborted(t).pc \in {"idle", "managedFailed"}
         /\ Open(Aborted(t)) => t.managed
         /\ Aborted(t).pc \in PlainPcs \cup DeletePcs \cup {"managedFailed"}
         /\ Aborted(t).pc \notin PresignPcs \cup HolderPcs \cup DeletePcs
<1>1. Idle \in Tasks /\ Idle.pc = "idle"
  BY FailedCallType
<1>2. CASE ~t.managed
  BY <1>1, <1>2 DEF Aborted, PlainPcs, PresignPcs, HolderPcs, OwnerPcs, CompletionPcs, DeletePcs, Open
<1>3. CASE t.managed
  <2>1. Aborted(t) \in Tasks /\ Aborted(t).pc = "managedFailed"
    BY <1>1, <1>3 DEF Aborted, Tasks, OtherPcs
  <2> QED
    BY <1>3, <2>1 DEF PlainPcs, PresignPcs, HolderPcs, OwnerPcs, CompletionPcs, DeletePcs
<1> QED
  BY <1>2, <1>3

\* deleteAndFinalizePendingRows starts with the final object among its keys.
LEMMA DeletingType ==
  ASSUME ConstantsOK, NEW t \in Tasks
  PROVE  /\ Deleting(t) \in Tasks /\ Deleting(t).pc = "delete" /\ "final" \in Deleting(t).keys
         /\ Deleting(t).marker = t.marker /\ Deleting(t).managed = t.managed
         /\ Settling(t) \in Tasks /\ Settling(t).pc = "delete" /\ "final" \in Settling(t).keys
         /\ Settling(t).marker = t.marker /\ Settling(t).managed = t.managed
<1>1. ASSUME NEW s \in Tasks
      PROVE  /\ Deleting(s) \in Tasks /\ Deleting(s).pc = "delete" /\ "final" \in Deleting(s).keys
             /\ Deleting(s).marker = s.marker /\ Deleting(s).managed = s.managed
  <2>1. Idle \in Tasks /\ Idle.snap \in Rows /\ s.snap \in Rows
    BY FailedCallType DEF Tasks
  <2>2. PICK k \in SUBSET {"final", "staging"} :
          "final" \in k /\ k = {"final"} \cup IF s.snap.pendingKey THEN {"staging"} ELSE {}
    OBVIOUS
  <2>3. PICK r \in Rows : r = [Idle.snap EXCEPT !.uploadPendingAt = s.snap.uploadPendingAt]
    BY <2>1 DEF Rows
  <2>4. Deleting(s) = [Idle EXCEPT !.pc = "delete", !.marker = s.marker, !.managed = s.managed, !.snap = r, !.keys = k]
    BY <2>2, <2>3 DEF Deleting, Idle
  <2>5. s.marker \in Times /\ s.managed \in BOOLEAN
    BY DEF Tasks
  <2> QED
    BY <2>1, <2>2, <2>4, <2>5 DEF Tasks, DeletePcs
<1>2. PICK s \in Tasks : s = [t EXCEPT !.snap.uploadPendingAt = Null] /\ s.marker = t.marker /\ s.managed = t.managed
  <2>1. t.snap \in Rows
    BY DEF Tasks
  <2>2. PICK r \in Rows : r = [t.snap EXCEPT !.uploadPendingAt = Null]
    BY <2>1 DEF Rows, Times, Null
  <2>3. [t EXCEPT !.snap.uploadPendingAt = Null] = [t EXCEPT !.snap = r]
    BY <2>2
  <2>4. [t EXCEPT !.snap = r] \in Tasks
    BY DEF Tasks
  <2> QED
    BY <2>3, <2>4 DEF Tasks
<1> QED
  BY <1>1, <1>2 DEF Settling

\* A step after which the row is dead.
LEMMA DeadStep ==
  ASSUME ConstantsOK, Inv, row.saved, NEW p \in Procs, NEW v \in Tasks, task' = [task EXCEPT ![p] = v],
         now' = now, target' = target, staging' = staging, final' = final,
         lastClaim' \in [Instances -> Nat], faults' \in Nat,
         row' \in Rows, row'.saved, row'.expiredAt = row.expiredAt,
         row'.status = row.status \/ (row'.status = "failed" /\ row.status # "ready"),
         Dead(row'), row'.deletionPendingAt # Null \/ final = NoObject \/ row' = row,
         Spared(p),
         v.pc \in PlainPcs \cup DeletePcs \cup {"managedFailed"},
         v.pc \in DeletePcs => v.marker # Null,
         v.pc \in {"softDelete", "clear"} \/ (v.pc = "delete" /\ "final" \notin v.keys) => final = NoObject,
         v.pc \in PresignPcs => task[p].pc \in PresignPcs,
         Open(v) => Open(task[p]) \/ task[p].pc \in PresignPcs \/ target
  PROVE  Inv'
<1>1. ~lifecycleWhere(row')
  BY DEF Dead, lifecycleWhere
<1>2. RowKept
  BY <1>1 DEF RowKept, Inv, Expiry, Spent
<1>3. ReadyIsVerified' /\ NoOrphanFinal'
  BY <1>1 DEF ReadyIsVerified, Visible, NoOrphanFinal, Tracked, Inv
<1>4. v.pc \notin HolderPcs
  BY DEF HolderPcs, OwnerPcs, CompletionPcs, PlainPcs, DeletePcs
<1>5. Local(v)'
  <2>1. Snapshot(v)'
    BY DEF Snapshot, ClaimPcs, PlainPcs, DeletePcs
  <2>2. Completion(v)'
    BY DEF Completion, PlainPcs, DeletePcs, CompletionPcs, OwnerPcs, HolderPcs
  <2>3. Deletion(v)'
    BY DEF Deletion
  <2>4. ManagedEnds(v)'
    BY <1>1 DEF ManagedEnds
  <2> QED
    BY <2>1, <2>2, <2>3, <2>4 DEF Local
<1> QED
  BY <1>2, <1>3, <1>4, <1>5, RowStep

\* abortUpload passes over a completion that is running.
LEMMA AbortReadStep ==
  ASSUME ConstantsOK, Inv, NEW p \in Procs, abortRead(p)
  PROVE  Inv'
<1>1. /\ task[p].pc = "abortRead" \/ (task[p] = Idle /\ target)
      /\ UNCHANGED << now, row, target, staging, final, faults >>
  BY DEF abortRead, Requested
<1>2. /\ row.saved /\ task[p] \in Tasks /\ now' = now /\ row' = row /\ target' = target /\ final' = final
      /\ staging' \in Objects /\ faults' \in Nat /\ now \in Nat /\ row \in Rows /\ target' \in BOOLEAN
  BY <1>1, Saved DEF Inv, Shapes
<1>3. Open(task[p]) \/ target
  BY <1>1 DEF Open
<1>4. CASE /\ lifecycleWhere(row) /\ row.status \in {"pending", "completing"} /\ ~completionIsActive(row)
  <2>1. PICK claim : claim = nextDeletionClaim(p, row.uploadPendingAt)
    OBVIOUS
  <2>2. row.uploadPendingAt \in Nat
    BY <1>2 DEF Rows, Times
  <2>3. /\ UseClaim(p, claim)
        /\ Goto(p, [At(p, "abortClaim") EXCEPT !.snap = row, !.marker = claim])
    BY <1>4, <2>1 DEF abortRead
  <2>4. claim \in Nat /\ claim # Null /\ lastClaim' \in [Instances -> Nat]
    BY <2>1, <2>2, <2>3, ClaimType
  <2>5. PICK v : v = [At(p, "abortClaim") EXCEPT !.snap = row, !.marker = claim]
    OBVIOUS
  <2>6. v \in Tasks /\ v.pc = "abortClaim" /\ v.snap = row /\ v.marker = claim
    <3>1. At(p, "abortClaim") \in Tasks /\ At(p, "abortClaim").pc = "abortClaim"
      BY AtType DEF OtherPcs
    <3> QED
      BY <1>2, <2>4, <2>5, <3>1 DEF Tasks, Times
  <2>7. Snapshot(v)
    <3>1. row.status # "pending" => row.uploadPendingAt <= now
      BY <1>2, <1>4, <2>2 DEF completionIsActive
    <3> QED
      BY <1>4, <2>4, <2>6, <3>1 DEF Snapshot
  <2>8. Completion(v) /\ Deletion(v) /\ ManagedEnds(v)
    BY <2>6 DEF Completion, Deletion, ManagedEnds, HolderPcs, OwnerPcs, CompletionPcs, DeletePcs
  <2>9. v.pc \notin PresignPcs \cup HolderPcs /\ Local(v)
    BY <2>6, <2>7, <2>8 DEF PresignPcs, HolderPcs, OwnerPcs, CompletionPcs, Local
  <2>10. task' = [task EXCEPT ![p] = v]
    BY <2>3, <2>5 DEF Goto
  <2> QED
    BY <1>2, <1>3, <2>4, <2>6, <2>9, <2>10, QuietStep
<1>5. CASE ~(lifecycleWhere(row) /\ row.status \in {"pending", "completing"} /\ ~completionIsActive(row))
  <2>1. PICK v : v = Aborted(task[p])
    OBVIOUS
  <2>2. /\ v \in Tasks /\ v.pc \in {"idle", "managedFailed"} /\ v.pc \notin PresignPcs \cup HolderPcs \cup DeletePcs
    BY <1>2, <2>1, AbortedType
  <2>3. task' = [task EXCEPT ![p] = v] /\ lastClaim' \in [Instances -> Nat]
    BY <1>5, <2>1 DEF abortRead, Goto, Inv, Shapes
  <2>4. ~(lifecycleWhere(row) /\ row.status = "pending")
    BY <1>5 DEF completionIsActive
  <2>5. Local(v)
    BY <2>2, <2>4 DEF Local, Snapshot, Completion, Deletion, ManagedEnds, ClaimPcs, HolderPcs, OwnerPcs, CompletionPcs, DeletePcs
  <2> QED
    BY <1>2, <1>3, <2>2, <2>3, <2>5, QuietStep
<1> QED
  BY <1>4, <1>5

\* The claim that fails an upload.
LEMMA FailedType ==
  ASSUME ConstantsOK, NEW r \in Rows, NEW c \in Nat, c # Null
  PROVE  /\ Failed(r, c) \in Rows /\ Failed(r, c).saved = r.saved /\ Failed(r, c).status = "failed"
         /\ Failed(r, c).expiredAt = r.expiredAt /\ Failed(r, c).deletionPendingAt = c /\ Dead(Failed(r, c))
<1>1. /\ Failed(r, c) \in Rows /\ Failed(r, c).saved = r.saved /\ Failed(r, c).status = "failed"
      /\ Failed(r, c).expiredAt = r.expiredAt /\ Failed(r, c).deletionPendingAt = c
  BY DEF Failed, Rows, Times, Null
<1> QED
  BY <1>1 DEF Dead

\* The claim of abortUpload and of the sweep of expired uploads.
LEMMA FailStep ==
  ASSUME ConstantsOK, Inv, row.saved, NEW p \in Procs, NEW v \in Tasks, task' = [task EXCEPT ![p] = v],
         now' = now, target' = target, staging' = staging, final' = final,
         lastClaim' \in [Instances -> Nat], faults' \in Nat,
         task[p].pc \in {"abortClaim", "expireClaim"},
         row.status = task[p].snap.status, row.uploadPendingAt = task[p].snap.uploadPendingAt,
         row' = Failed(row, task[p].marker),
         v \in {Settling(task[p]), Idle}
  PROVE  Inv'
<1> PICK t \in Tasks : t = task[p]
  BY DEF Inv, Shapes
<1>1. t.marker \in Nat /\ t.marker # Null /\ t.snap.status \in {"pending", "completing"}
      /\ (t.snap.status = "completing" => t.snap.uploadPendingAt <= now)
      /\ (t.pc = "expireClaim" => ~t.managed)
  BY DEF Inv, Local, Snapshot, ClaimPcs, Tasks, Times
<1>2. row \in Rows /\ now \in Nat /\ row.uploadPendingAt \in Nat
  BY DEF Inv, Shapes, Rows, Times
<1>3. /\ row' \in Rows /\ row'.saved /\ row'.status = "failed" /\ row'.expiredAt = row.expiredAt
      /\ row'.deletionPendingAt # Null /\ Dead(row')
  BY <1>1, <1>2, FailedType
<1>4. Spared(p)
  BY <1>1, <1>2 DEF Spared, completionIsActive
<1>5. /\ Settling(t) \in Tasks /\ Settling(t).pc = "delete" /\ "final" \in Settling(t).keys
      /\ Settling(t).marker = t.marker /\ Settling(t).managed = t.managed
      /\ Idle \in Tasks /\ Idle.pc = "idle" /\ Idle.managed = FALSE
  BY DeletingType, FailedCallType
<1>6. v.pc \in {"delete", "idle"} /\ (v.pc = "delete" => v.marker # Null /\ "final" \in v.keys /\ v.managed = t.managed)
  BY <1>1, <1>5
<1>7. v.pc \in PlainPcs \cup DeletePcs /\ v.pc \notin PresignPcs /\ (v.pc \in DeletePcs => v.pc = "delete")
  BY <1>6 DEF PlainPcs, DeletePcs, PresignPcs
<1>8. Open(v) => Open(task[p])
  BY <1>1, <1>6 DEF Open, CompletionPcs, DeletePcs
<1> QED
  BY <1>1, <1>3, <1>4, <1>6, <1>7, <1>8, DeadStep

\* abortUpload claims the upload it has read.
LEMMA AbortClaimStep ==
  ASSUME ConstantsOK, Inv, NEW p \in Procs, abortClaim(p)
  PROVE  Inv'
<1> PICK t \in Tasks : t = task[p]
  BY DEF Inv, Shapes
<1>1. task[p].pc = "abortClaim" /\ UNCHANGED << now, target, staging, final, lastClaim >>
  BY DEF abortClaim, Same
<1>2. /\ row.saved /\ now' = now /\ target' = target /\ final' = final /\ staging' = staging
      /\ lastClaim' \in [Instances -> Nat] /\ staging' \in Objects /\ target' \in BOOLEAN
  BY <1>1, Saved DEF Inv, Shapes
<1>3. faults' \in Nat
  BY ChargeType DEF abortClaim, Update
<1>4. Open(task[p]) /\ Local(t)
  BY <1>1 DEF Open, Inv
<1>5. CASE row' = row /\ Goto(p, Idle)
  <2>1. Idle \in Tasks /\ Idle.pc = "idle"
    BY FailedCallType
  <2>2. Plain(Idle) /\ Idle.pc \notin PresignPcs
    BY <2>1 DEF Plain, PlainPcs, PresignPcs
  <2> QED
    BY <1>2, <1>3, <1>4, <1>5, <2>1, <2>2, PlainStep DEF Goto
<1>6. CASE /\ ~(lifecycleWhere(row) /\ row.status = t.snap.status /\ row.uploadPendingAt = t.snap.uploadPendingAt)
           /\ row' = row /\ Goto(p, Aborted(t))
  <2>1. PICK v : v = Aborted(t)
    OBVIOUS
  <2>2. v \in Tasks /\ v.pc \in {"idle", "managedFailed"} /\ v.pc \notin PresignPcs \cup HolderPcs \cup DeletePcs
    BY <2>1, AbortedType
  <2>3. ~(lifecycleWhere(row) /\ row.status = "pending")
    BY <1>1, <1>4, <1>6 DEF Local, Snapshot
  <2>4. Local(v)
    BY <2>2, <2>3 DEF Local, Snapshot, Completion, Deletion, ManagedEnds, ClaimPcs, HolderPcs, OwnerPcs, CompletionPcs, DeletePcs
  <2>5. task' = [task EXCEPT ![p] = v]
    BY <1>6, <2>1 DEF Goto
  <2> QED
    BY <1>2, <1>3, <1>4, <1>6, <2>2, <2>4, <2>5, QuietStep
<1>7. CASE /\ lifecycleWhere(row) /\ row.status = t.snap.status /\ row.uploadPendingAt = t.snap.uploadPendingAt
           /\ row' = Failed(row, t.marker) /\ \E v \in {Settling(t), Idle} : Goto(p, v)
  <2>1. PICK v \in {Settling(t), Idle} : task' = [task EXCEPT ![p] = v]
    BY <1>7 DEF Goto
  <2>2. v \in Tasks
    BY <2>1, DeletingType, FailedCallType
  <2> QED
    BY <1>1, <1>2, <1>3, <1>7, <2>1, <2>2, FailStep
<1> QED
  BY <1>5, <1>6, <1>7 DEF abortClaim, Update

\* deleteById claims a row that no completion runs on.
LEMMA DeleteByIdStep ==
  ASSUME ConstantsOK, Inv, NEW p \in Procs, deleteById(p)
  PROVE  Inv'
<1>1. /\ task[p] = Idle /\ target /\ lifecycleWhere(row) /\ ~completionIsActive(row)
      /\ UNCHANGED << now, target, staging, final >>
  BY DEF deleteById
<1>2. /\ row.saved /\ now' = now /\ target' = target /\ final' = final /\ staging' = staging /\ row \in Rows
      /\ row.status \in {"pending", "completing", "ready", "failed"}
  BY <1>1, Saved DEF Inv, Shapes, Rows
<1>3. PICK claim : claim = nextDeletionClaim(p, Null)
  OBVIOUS
<1>4. PICK t : t = [Idle EXCEPT !.snap = row, !.marker = claim]
  OBVIOUS
<1>5. /\ UseClaim(p, claim)
      /\ Update(p, TRUE, [Failed(row, claim) EXCEPT !.status = IF row.status = "ready" THEN "ready" ELSE "failed"],
                Settling(t), Idle, Idle)
  BY <1>3, <1>4 DEF deleteById
<1>6. claim \in Nat /\ claim # Null /\ lastClaim' \in [Instances -> Nat]
  <2>1. Null \in Nat
    BY DEF Null
  <2> QED
    BY <1>3, <1>5, <2>1, ClaimType
<1>7. faults' \in Nat
  BY <1>5, ChargeType DEF Update
<1>8. Idle \in Tasks /\ Idle.pc = "idle" /\ Idle.managed = FALSE
  <2>1. \A s \in Tasks : Idle \in Tasks /\ Idle.pc = "idle" /\ Idle.managed = FALSE
    BY FailedCallType
  <2> QED
    BY <2>1 DEF Inv, Shapes
<1>9. t \in Tasks /\ t.marker = claim /\ t.managed = FALSE
  BY <1>2, <1>4, <1>6, <1>8 DEF Tasks, Times
<1>10. /\ Settling(t) \in Tasks /\ Settling(t).pc = "delete" /\ "final" \in Settling(t).keys
       /\ Settling(t).marker = claim /\ Settling(t).managed = FALSE
  BY <1>9, DeletingType
<1>11. PICK v \in {Settling(t), Idle} :
         /\ task' = [task EXCEPT ![p] = v]
         /\ \/ row' = row /\ v = Idle
            \/ row' = [Failed(row, claim) EXCEPT !.status = IF row.status = "ready" THEN "ready" ELSE "failed"]
  BY <1>5 DEF Update, Goto
<1>12. /\ v \in Tasks /\ v.pc \in {"delete", "idle"} /\ v.managed = FALSE
       /\ v.pc = "delete" => v.marker # Null /\ "final" \in v.keys
  BY <1>6, <1>8, <1>10, <1>11
<1>13. /\ v.pc \in PlainPcs \cup DeletePcs /\ v.pc \notin PresignPcs \cup HolderPcs
       /\ v.pc \in DeletePcs => v.pc = "delete"
       /\ ~Open(v)
  BY <1>12 DEF PlainPcs, DeletePcs, PresignPcs, HolderPcs, OwnerPcs, CompletionPcs, Open
<1>14. CASE row' = row /\ v = Idle
  <2>1. Plain(v) /\ v.pc \notin PresignPcs
    BY <1>8, <1>14 DEF Plain, PlainPcs, PresignPcs
  <2>2. staging' \in Objects
    BY <1>2 DEF Inv, Shapes
  <2> QED
    BY <1>1, <1>2, <1>6, <1>7, <1>11, <1>12, <1>13, <1>14, <2>1, <2>2, PlainStep
<1>15. CASE row' = [Failed(row, claim) EXCEPT !.status = IF row.status = "ready" THEN "ready" ELSE "failed"]
  <2>1. PICK s \in {"ready", "failed"} : s = IF row.status = "ready" THEN "ready" ELSE "failed"
    OBVIOUS
  <2>2. Failed(row, claim) \in Rows /\ Failed(row, claim).saved = row.saved /\ Failed(row, claim).expiredAt = row.expiredAt
        /\ Failed(row, claim).deletionPendingAt = claim
    BY <1>2, <1>6, FailedType
  <2>3. row' \in Rows /\ row'.saved = row.saved /\ row'.status = s /\ row'.expiredAt = row.expiredAt
        /\ row'.deletionPendingAt = claim
    BY <1>15, <2>1, <2>2 DEF Rows
  <2>4. Dead(row') /\ row'.deletionPendingAt # Null
    BY <1>6, <2>3 DEF Dead
  <2>5. Spared(p)
    BY <1>1 DEF Spared
  <2>6. row'.status = row.status \/ (row'.status = "failed" /\ row.status # "ready")
    BY <2>1, <2>3
  <2> QED
    BY <1>1, <1>2, <1>6, <1>7, <1>11, <1>12, <1>13, <2>3, <2>4, <2>5, <2>6, DeadStep
<1> QED
  BY <1>11, <1>14, <1>15

\* The claim of a row, or the failure of it, by a process that knows t.
LEMMA ClaimStep ==
  ASSUME ConstantsOK, Inv, row.saved, NEW p \in Procs, NEW t \in Tasks, NEW v \in Tasks,
         task' = [task EXCEPT ![p] = v], t.managed => Open(task[p]) \/ task[p].pc \in PresignPcs, t.marker # Null,
         now' = now, target' = target, staging' = staging, final' = final,
         lastClaim' \in [Instances -> Nat], faults' \in Nat,
         row' \in Rows, row'.saved, row'.expiredAt = row.expiredAt, row'.status = row.status,
         row'.deletionPendingAt # Null, Spared(p),
         v \in {Settling(t), Deleting(t)} \/ v.pc = "idle" \/ (v.pc = "settle" /\ task[p].pc \in PresignPcs)
  PROVE  Inv'
<1>1. /\ v.pc \in {"delete", "idle", "settle"} /\ (v.pc = "settle" => task[p].pc \in PresignPcs)
      /\ v.pc = "delete" => v.marker # Null /\ "final" \in v.keys /\ v.managed = t.managed
  BY DeletingType
<1>2. /\ v.pc \in PlainPcs \cup DeletePcs /\ (v.pc \in PresignPcs => task[p].pc \in PresignPcs)
      /\ (v.pc \in DeletePcs => v.pc = "delete")
  BY <1>1 DEF PlainPcs, DeletePcs, PresignPcs
<1>3. Open(v) => Open(task[p]) \/ task[p].pc \in PresignPcs
  BY <1>1 DEF Open, CompletionPcs, DeletePcs
<1>4. Dead(row')
  BY DEF Dead
<1> QED
  BY <1>1, <1>2, <1>3, <1>4, DeadStep

\* initiateManagedUpload undoes a row that nobody else knows of.
LEMMA CleanupStep ==
  ASSUME ConstantsOK, Inv, NEW p \in Procs, cleanupFailedUpload(p)
  PROVE  Inv'
<1>1. task[p].pc = "cleanup" /\ UNCHANGED << now, target, staging, final >>
  BY DEF cleanupFailedUpload
<1>2. /\ row.saved /\ now' = now /\ target' = target /\ final' = final /\ staging' = staging
      /\ staging' \in Objects /\ row \in Rows /\ task[p] \in Tasks /\ task[p].marker \in Nat /\ target' \in BOOLEAN
  BY <1>1, Saved DEF Inv, Shapes, Tasks, Times
<1>3. PICK claim : claim = nextDeletionClaim(p, task[p].marker)
  OBVIOUS
<1>4. PICK t : t = [task[p] EXCEPT !.marker = claim]
  OBVIOUS
<1>5. PICK w : w = [row EXCEPT !.uploadPendingAt = Null, !.deletionPendingAt = claim]
  OBVIOUS
<1>6. UseClaim(p, claim) /\ Update(p, lifecycleWhere(row) /\ row.uploadPendingAt = task[p].marker, w,
                                   Settling(t), At(p, "settle"), At(p, "settle"))
  BY <1>3, <1>4, <1>5 DEF cleanupFailedUpload
<1>7. claim \in Nat /\ claim # Null /\ lastClaim' \in [Instances -> Nat]
  BY <1>2, <1>3, <1>6, ClaimType
<1>8. faults' \in Nat
  BY <1>6, ChargeType DEF Update
<1>9. t \in Tasks /\ t.marker # Null
  BY <1>2, <1>4, <1>7 DEF Tasks, Times
<1>10. At(p, "settle") \in Tasks /\ At(p, "settle").pc = "settle" /\ Settling(t) \in Tasks
  BY <1>9, AtType, DeletingType DEF OtherPcs
<1>11. w \in Rows /\ w.saved /\ w.expiredAt = row.expiredAt /\ w.status = row.status /\ w.deletionPendingAt # Null
  BY <1>2, <1>5, <1>7 DEF Rows, Times, Null
<1>12. task[p].pc \in PresignPcs /\ Spared(p)
  BY <1>1 DEF PresignPcs, Spared
<1>13. CASE row' = row /\ Goto(p, At(p, "settle"))
  <2>1. Plain(At(p, "settle")) /\ At(p, "settle").pc \notin HolderPcs /\ ~Open(At(p, "settle"))
    BY <1>10 DEF Plain, PlainPcs, HolderPcs, OwnerPcs, CompletionPcs, Open, DeletePcs
  <2>2. Local(At(p, "settle"))
    BY <1>10, <2>1, PlainLocal
  <2>3. task' = [task EXCEPT ![p] = At(p, "settle")]
    BY <1>13 DEF Goto
  <2> QED
    BY <1>2, <1>7, <1>8, <1>10, <1>12, <1>13, <2>1, <2>2, <2>3, QuietStep
<1>14. CASE row' = w /\ \E v \in {Settling(t), At(p, "settle")} : Goto(p, v)
  <2>1. PICK v \in {Settling(t), At(p, "settle")} : task' = [task EXCEPT ![p] = v]
    BY <1>14 DEF Goto
  <2>2. v \in Tasks /\ (v = Settling(t) \/ v.pc = "settle")
    BY <1>10, <2>1
  <2> QED
    BY <1>2, <1>7, <1>8, <1>9, <1>11, <1>12, <1>14, <2>1, <2>2, ClaimStep
<1> QED
  BY <1>6, <1>13, <1>14 DEF Update

\* The attempts of deleteWrittenObjectWhenActivationIsImpossible: the read.
LEMMA SettleReadStep ==
  ASSUME ConstantsOK, Inv, NEW p \in Procs, settleRead(p)
  PROVE  Inv'
<1>1. task[p].pc = "settle" /\ UNCHANGED << now, row, target, staging, final >>
  BY DEF settleRead
<1>2. /\ row.saved /\ now' = now /\ row' = row /\ target' = target /\ final' = final /\ staging' \in Objects
      /\ row \in Rows /\ task[p] \in Tasks /\ target' \in BOOLEAN
      /\ task[p].marker \in Nat /\ row.deletionPendingAt \in Nat
  BY <1>1, Saved DEF Inv, Shapes, Tasks, Rows, Times
<1>3. task[p].pc \in PresignPcs
  BY <1>1 DEF PresignPcs
<1>4. PICK e \in Nat : e = IF row.deletionPendingAt # Null THEN row.deletionPendingAt ELSE task[p].marker
  BY <1>2
<1>5. PICK claim : claim = nextDeletionClaim(p, e)
  OBVIOUS
<1>6. CASE /\ UseClaim(p, claim) /\ faults' = faults
           /\ Goto(p, [At(p, "settleClaim") EXCEPT !.snap = row, !.marker = claim])
  <2>1. claim \in Nat /\ claim # Null /\ lastClaim' \in [Instances -> Nat]
    BY <1>5, <1>6, ClaimType
  <2>2. PICK v : v = [At(p, "settleClaim") EXCEPT !.snap = row, !.marker = claim]
    OBVIOUS
  <2>3. v \in Tasks /\ v.pc = "settleClaim" /\ v.marker = claim
    <3>1. At(p, "settleClaim") \in Tasks /\ At(p, "settleClaim").pc = "settleClaim"
      BY AtType DEF OtherPcs
    <3> QED
      BY <1>2, <2>1, <2>2, <3>1 DEF Tasks, Times
  <2>4. Local(v)
    BY <2>1, <2>3 DEF Local, Snapshot, Completion, Deletion, ManagedEnds, HolderPcs, OwnerPcs, CompletionPcs, DeletePcs
  <2>5. v.pc \notin HolderPcs /\ ~Open(v)
    BY <2>3 DEF HolderPcs, OwnerPcs, CompletionPcs, Open, DeletePcs
  <2>6. task' = [task EXCEPT ![p] = v] /\ faults' \in Nat
    BY <1>6, <2>2 DEF Goto, Inv, Shapes
  <2> QED
    BY <1>2, <1>3, <2>1, <2>3, <2>4, <2>5, <2>6, QuietStep
<1>7. CASE Charge("none") /\ Goto(p, Idle) /\ lastClaim' = lastClaim
  <2>1. Idle \in Tasks /\ Idle.pc = "idle"
    BY <1>2, FailedCallType
  <2>2. Plain(Idle) /\ Idle.pc \notin PresignPcs /\ ~Open(Idle)
    BY <2>1 DEF Plain, PlainPcs, PresignPcs, Open, CompletionPcs, DeletePcs
  <2>3. faults' \in Nat /\ lastClaim' \in [Instances -> Nat]
    BY <1>7, ChargeType DEF Inv, Shapes
  <2> QED
    BY <1>2, <1>7, <2>1, <2>2, <2>3, PlainStep DEF Goto
<1> QED
  BY <1>4, <1>5, <1>6, <1>7 DEF settleRead

\* The claim of an attempt.
LEMMA SettleClaimStep ==
  ASSUME ConstantsOK, Inv, NEW p \in Procs, settleClaim(p)
  PROVE  Inv'
<1> PICK t \in Tasks : t = task[p]
  BY DEF Inv, Shapes
<1>1. task[p].pc = "settleClaim" /\ UNCHANGED << now, target, staging, final, lastClaim >>
  BY DEF settleClaim, Same
<1>2. /\ row.saved /\ now' = now /\ target' = target /\ final' = final /\ staging' = staging
      /\ lastClaim' \in [Instances -> Nat] /\ staging' \in Objects /\ row \in Rows /\ target' \in BOOLEAN
  BY <1>1, Saved DEF Inv, Shapes
<1>3. t.marker \in Nat /\ t.marker # Null
  BY <1>1 DEF Tasks, Times, Inv, Local, Snapshot, ClaimPcs
<1>4. PICK w : w = [row EXCEPT !.uploadPendingAt = Null, !.deletionPendingAt = t.marker, !.deletedAt = FALSE]
  OBVIOUS
<1>5. w \in Rows /\ w.saved /\ w.expiredAt = row.expiredAt /\ w.status = row.status /\ w.deletionPendingAt # Null
  BY <1>2, <1>3, <1>4 DEF Rows, Times, Null
<1>6. PICK again : again = [At(p, "settle") EXCEPT !.tries = @ + 1]
  OBVIOUS
<1>7. again \in Tasks /\ again.pc = "settle" /\ Idle \in Tasks /\ Idle.pc = "idle"
  <2>1. At(p, "settle") \in Tasks /\ At(p, "settle").pc = "settle"
    BY AtType DEF OtherPcs
  <2>2. At(p, "settle").tries + 1 \in Nat
    BY <2>1 DEF Tasks
  <2>3. Idle \in Tasks /\ Idle.pc = "idle"
    BY FailedCallType
  <2> QED
    BY <1>6, <2>1, <2>2, <2>3 DEF Tasks
<1>8. Update(p, SameMarkers(row, t.snap), w, Settling(t), IF t.tries = 2 THEN Idle ELSE again, Idle)
  BY <1>4, <1>6 DEF settleClaim
<1>9. faults' \in Nat
  BY <1>8, ChargeType DEF Update
<1>10. task[p].pc \in PresignPcs /\ Spared(p)
  BY <1>1 DEF PresignPcs, Spared
<1>11. CASE row' = row /\ \E v \in {Idle, again} : Goto(p, v)
  <2>1. PICK v \in {Idle, again} : task' = [task EXCEPT ![p] = v]
    BY <1>11 DEF Goto
  <2>2. v \in Tasks /\ Plain(v) /\ v.pc \notin HolderPcs /\ ~Open(v)
    BY <1>7, <2>1 DEF Plain, PlainPcs, HolderPcs, OwnerPcs, CompletionPcs, Open, DeletePcs
  <2>3. Local(v)
    BY <2>2, PlainLocal
  <2> QED
    BY <1>2, <1>9, <1>10, <1>11, <2>1, <2>2, <2>3, QuietStep
<1>12. CASE row' = w /\ \E v \in {Settling(t), Idle} : Goto(p, v)
  <2>1. PICK v \in {Settling(t), Idle} : task' = [task EXCEPT ![p] = v]
    BY <1>12 DEF Goto
  <2>2. v \in Tasks /\ (v = Settling(t) \/ v.pc = "idle")
    BY <1>7, <2>1, DeletingType
  <2> QED
    BY <1>2, <1>3, <1>5, <1>9, <1>10, <1>12, <2>1, <2>2, ClaimStep
<1> QED
  BY <1>8, <1>11, <1>12 DEF Update

-----------------------------------------------------------------------------
(* Maintenance.                                                            *)

\* The SELECT of a sweep remembers the row as it is.
LEMMA SelectStep ==
  ASSUME ConstantsOK, Inv, row.saved, NEW p \in Procs, task[p] = Idle, NEW e \in Nat,
         NEW s \in {"expireClaim", "retryClaim", "tempClaim"}, Select(p, s, e),
         s = "expireClaim" => row.status \in {"pending", "completing"},
         s \in {"expireClaim", "retryClaim"} => row.uploadPendingAt <= now
  PROVE  Inv'
<1>1. PICK claim : claim = nextDeletionClaim(p, e)
  OBVIOUS
<1>2. /\ UseClaim(p, claim) /\ Goto(p, [Idle EXCEPT !.pc = s, !.snap = row, !.marker = claim])
      /\ UNCHANGED << now, row, target, staging, final, faults >>
  BY <1>1 DEF Select
<1>3. claim \in Nat /\ claim # Null /\ lastClaim' \in [Instances -> Nat]
  BY <1>1, <1>2, ClaimType
<1>4. /\ now' = now /\ row' = row /\ target' = target /\ final' = final /\ staging' \in Objects
      /\ row \in Rows /\ target' \in BOOLEAN /\ faults' \in Nat /\ task[p] \in Tasks
  BY <1>2 DEF Inv, Shapes
<1>5. Idle \in Tasks /\ Idle.managed = FALSE
  BY <1>4, FailedCallType
<1>6. PICK v : v = [Idle EXCEPT !.pc = s, !.snap = row, !.marker = claim]
  OBVIOUS
<1>7. v \in Tasks /\ v.pc = s /\ v.snap = row /\ v.marker = claim /\ v.managed = FALSE
  BY <1>3, <1>4, <1>5, <1>6 DEF Tasks, Times, SweepPcs
<1>8. Snapshot(v)
  BY <1>3, <1>7 DEF Snapshot
<1>9. Completion(v) /\ Deletion(v) /\ ManagedEnds(v)
  BY <1>7 DEF Completion, Deletion, ManagedEnds, HolderPcs, OwnerPcs, CompletionPcs, DeletePcs
<1>10. v.pc \notin PresignPcs \cup HolderPcs /\ ~Open(v) /\ Local(v)
  BY <1>7, <1>8, <1>9 DEF PresignPcs, HolderPcs, OwnerPcs, CompletionPcs, Open, DeletePcs, Local
<1>11. task' = [task EXCEPT ![p] = v]
  BY <1>2, <1>6 DEF Goto
<1> QED
  BY <1>3, <1>4, <1>7, <1>10, <1>11, QuietStep

\* A sweep that claims nothing, or whose UPDATE fails, is over.
LEMMA SweepOver ==
  ASSUME ConstantsOK, Inv, NEW p \in Procs, task[p].pc # "idle", Goto(p, Idle), row' = row, faults' \in Nat, Same
  PROVE  Inv'
<1>1. /\ row.saved /\ now' = now /\ target' = target /\ final' = final /\ task[p] \in Tasks
      /\ lastClaim' \in [Instances -> Nat] /\ staging' \in Objects
  BY Saved DEF Inv, Shapes, Same
<1>2. Idle \in Tasks /\ Idle.pc = "idle"
  BY <1>1, FailedCallType
<1>3. Plain(Idle) /\ Idle.pc \notin PresignPcs /\ ~Open(Idle)
  BY <1>2 DEF Plain, PlainPcs, PresignPcs, Open, CompletionPcs, DeletePcs
<1> QED
  BY <1>1, <1>2, <1>3, PlainStep DEF Goto

\* The sweep of expired uploads passes over completions within their lease.
LEMMA ExpireStep ==
  ASSUME ConstantsOK, Inv, NEW p \in Procs, unsafeSystemCleanupExpiredDirectUploads(p)
  PROVE  Inv'
<1>1. CASE /\ task[p] = Idle /\ Expired(row)
           /\ Select(p, "expireClaim", IF row.deletionPendingAt # Null
                                       THEN row.deletionPendingAt ELSE row.uploadPendingAt)
  <2>1. row.deletionPendingAt \in Nat /\ row.uploadPendingAt \in Nat
    BY DEF Inv, Shapes, Rows, Times
  <2>2. PICK e \in Nat : e = IF row.deletionPendingAt # Null THEN row.deletionPendingAt ELSE row.uploadPendingAt
    BY <2>1
  <2>3. row.saved /\ row.status \in {"pending", "completing"} /\ row.uploadPendingAt <= now
    BY <1>1 DEF Expired
  <2> QED
    BY <1>1, <2>2, <2>3, SelectStep
<1>2. CASE /\ task[p].pc = "expireClaim" /\ Same
           /\ Update(p, SameMarkers(row, task[p].snap) /\ row.status = task[p].snap.status,
                     Failed(row, task[p].marker), Settling(task[p]), Idle, Idle)
  <2>1. faults' \in Nat /\ row.saved /\ task[p] \in Tasks
    BY <1>2, ChargeType, Saved DEF Update, Inv, Shapes
  <2>2. CASE row' = row /\ Goto(p, Idle)
    BY <1>2, <2>1, <2>2, SweepOver
  <2>3. CASE /\ SameMarkers(row, task[p].snap) /\ row.status = task[p].snap.status
             /\ row' = Failed(row, task[p].marker) /\ \E v \in {Settling(task[p]), Idle} : Goto(p, v)
    <3>1. PICK v \in {Settling(task[p]), Idle} : Goto(p, v)
      BY <2>3
    <3>2. v \in Tasks
      BY <2>1, <3>1, DeletingType, FailedCallType
    <3>3. row.uploadPendingAt = task[p].snap.uploadPendingAt
      BY <2>3 DEF SameMarkers
    <3>4. task' = [task EXCEPT ![p] = v] /\ lastClaim' \in [Instances -> Nat]
          /\ now' = now /\ target' = target /\ staging' = staging /\ final' = final
      BY <1>2, <3>1 DEF Goto, Same, Inv, Shapes
    <3> QED
      BY <1>2, <2>1, <2>3, <3>1, <3>2, <3>3, <3>4, FailStep
  <2> QED
    BY <1>2, <2>2, <2>3 DEF Update
<1> QED
  BY <1>1, <1>2 DEF unsafeSystemCleanupExpiredDirectUploads

\* The outbox sweep.
LEMMA RetryStep ==
  ASSUME ConstantsOK, Inv, NEW p \in Procs, unsafeSystemRetryPendingDeletions(p)
  PROVE  Inv'
<1>0. row \in Rows /\ row.deletionPendingAt \in Nat /\ row.uploadPendingAt \in Nat /\ now \in Nat
  BY DEF Inv, Shapes, Rows, Times
<1>1. CASE /\ task[p] = Idle /\ Retryable(row)
           /\ Select(p, "retryClaim", IF row.deletionPendingAt # Null
                                      THEN row.deletionPendingAt ELSE row.uploadPendingAt)
  <2>1. PICK e \in Nat : e = IF row.deletionPendingAt # Null THEN row.deletionPendingAt ELSE row.uploadPendingAt
    BY <1>0
  <2>2. row.saved /\ row.uploadPendingAt <= now
    BY <1>0, <1>1 DEF Retryable, Elapsed, Null
  <2> QED
    BY <1>1, <2>1, <2>2, SelectStep
<1>2. CASE /\ task[p].pc = "retryClaim" /\ Same
           /\ Update(p, SameMarkers(row, task[p].snap),
                     [row EXCEPT !.deletionPendingAt = task[p].marker, !.deletedAt = FALSE],
                     Deleting(task[p]), Idle, Idle)
  <2> PICK t \in Tasks : t = task[p]
    BY DEF Inv, Shapes
  <2>1. faults' \in Nat /\ row.saved
    BY <1>2, ChargeType, Saved DEF Update
  <2>2. CASE row' = row /\ Goto(p, Idle)
    BY <1>2, <2>1, <2>2, SweepOver
  <2>3. CASE /\ SameMarkers(row, t.snap)
             /\ row' = [row EXCEPT !.deletionPendingAt = t.marker, !.deletedAt = FALSE]
             /\ \E v \in {Deleting(t), Idle} : Goto(p, v)
    <3>1. PICK v \in {Deleting(t), Idle} : Goto(p, v)
      BY <2>3
    <3>2. v \in Tasks /\ (v = Deleting(t) \/ v.pc = "idle")
      BY <3>1, DeletingType, FailedCallType
    <3>3. t.marker \in Nat /\ t.marker # Null /\ ~t.managed /\ t.snap.uploadPendingAt <= now
      BY <1>2 DEF Tasks, Times, Inv, Local, Snapshot, ClaimPcs
    <3>4. Spared(p)
      BY <1>0, <2>3, <3>3 DEF Spared, SameMarkers, completionIsActive
    <3>5. task' = [task EXCEPT ![p] = v] /\ lastClaim' \in [Instances -> Nat]
          /\ now' = now /\ target' = target /\ staging' = staging /\ final' = final
      BY <1>2, <3>1 DEF Goto, Same, Inv, Shapes
    <3>6. row' \in Rows /\ row'.saved /\ row'.expiredAt = row.expiredAt /\ row'.status = row.status
          /\ row'.deletionPendingAt # Null
      BY <1>0, <2>1, <2>3, <3>3 DEF Rows, Times
    <3> QED
      BY <2>1, <3>2, <3>3, <3>4, <3>5, <3>6, ClaimStep
  <2> QED
    BY <1>2, <2>2, <2>3 DEF Update
<1> QED
  BY <1>1, <1>2 DEF unsafeSystemRetryPendingDeletions

\* The sweep of temporary files that have expired.
LEMMA TemporaryStep ==
  ASSUME ConstantsOK, Inv, NEW p \in Procs, cleanupExpiredTemporaryFiles(p)
  PROVE  Inv'
<1>0. row \in Rows /\ row.expiredAt \in Nat
  BY DEF Inv, Shapes, Rows, Times
<1>1. CASE task[p] = Idle /\ Lapsed(row) /\ Select(p, "tempClaim", row.expiredAt)
  BY <1>0, <1>1, SelectStep DEF Lapsed, lifecycleWhere
<1>2. CASE /\ task[p].pc = "tempClaim" /\ Same
           /\ Update(p, /\ lifecycleWhere(row) /\ row.status = "ready"
                        /\ row.uploadPendingAt = Null /\ row.expiredAt = task[p].snap.expiredAt,
                     [row EXCEPT !.deletionPendingAt = task[p].marker], Settling(task[p]), Idle, Idle)
  <2> PICK t \in Tasks : t = task[p]
    BY DEF Inv, Shapes
  <2>1. faults' \in Nat /\ row.saved
    BY <1>2, ChargeType, Saved DEF Update
  <2>2. CASE row' = row /\ Goto(p, Idle)
    BY <1>2, <2>1, <2>2, SweepOver
  <2>3. CASE /\ row.status = "ready"
             /\ row' = [row EXCEPT !.deletionPendingAt = t.marker]
             /\ \E v \in {Settling(t), Idle} : Goto(p, v)
    <3>1. PICK v \in {Settling(t), Idle} : Goto(p, v)
      BY <2>3
    <3>2. v \in Tasks /\ (v = Settling(t) \/ v.pc = "idle")
      BY <3>1, DeletingType, FailedCallType
    <3>3. t.marker \in Nat /\ t.marker # Null /\ ~t.managed
      BY <1>2 DEF Tasks, Times, Inv, Local, Snapshot, ClaimPcs
    <3>4. Spared(p)
      BY <2>3 DEF Spared, completionIsActive
    <3>5. task' = [task EXCEPT ![p] = v] /\ lastClaim' \in [Instances -> Nat]
          /\ now' = now /\ target' = target /\ staging' = staging /\ final' = final
      BY <1>2, <3>1 DEF Goto, Same, Inv, Shapes
    <3>6. row' \in Rows /\ row'.saved /\ row'.expiredAt = row.expiredAt /\ row'.status = row.status
          /\ row'.deletionPendingAt # Null
      BY <1>0, <2>1, <2>3, <3>3 DEF Rows, Times
    <3> QED
      BY <2>1, <3>2, <3>3, <3>4, <3>5, <3>6, ClaimStep
  <2> QED
    BY <1>2, <2>2, <2>3 DEF Update
<1> QED
  BY <1>1, <1>2 DEF cleanupExpiredTemporaryFiles

\* The sweep of staging objects leaves ready rows ready.
LEMMA StagingStep ==
  ASSUME ConstantsOK, Inv, NEW p \in Procs, unsafeSystemCleanupCompletedStaging(p)
  PROVE  Inv'
<1>0. row \in Rows /\ task[p] \in Tasks /\ Idle \in Tasks /\ Idle.pc = "idle"
  <2>1. task[p] \in Tasks
    BY DEF Inv, Shapes
  <2> QED
    BY <2>1, FailedCallType DEF Inv, Shapes
<1>1. ASSUME NEW v \in Tasks, v.pc \in {"idle", "stagingDelete", "stagingClear"}, row.saved, Goto(p, v), faults' \in Nat,
             staging' \in Objects, UNCHANGED << now, row, target, final, lastClaim >>
      PROVE  Inv'
  <2>1. Plain(v) /\ v.pc \notin PresignPcs /\ ~Open(v)
    BY <1>1 DEF Plain, PlainPcs, PresignPcs, Open, CompletionPcs, DeletePcs
  <2>2. now' = now /\ row' = row /\ target' = target /\ final' = final /\ lastClaim' \in [Instances -> Nat]
    BY <1>1 DEF Inv, Shapes
  <2> QED
    BY <1>1, <2>1, <2>2, PlainStep DEF Goto
<1>2. CASE /\ task[p] = Idle /\ Staged(row)
           /\ Goto(p, [Idle EXCEPT !.pc = "stagingDelete"])
           /\ UNCHANGED << now, row, target, staging, final, lastClaim, faults >>
  <2>1. [Idle EXCEPT !.pc = "stagingDelete"] \in Tasks /\ [Idle EXCEPT !.pc = "stagingDelete"].pc = "stagingDelete"
    BY <1>0 DEF Tasks, SweepPcs
  <2>2. row.saved /\ faults' \in Nat /\ staging' \in Objects
    BY <1>2 DEF Staged, lifecycleWhere, Inv, Shapes
  <2> QED
    BY <1>1, <1>2, <2>1, <2>2
<1>3. CASE /\ task[p].pc = "stagingDelete"
           /\ \E o \in StorageOutcomes :
                /\ Charge(o)
                /\ staging' = IF o = "none" THEN staging ELSE NoObject
                /\ Goto(p, IF o = "ok" THEN At(p, "stagingClear") ELSE Idle)
           /\ UNCHANGED << now, row, target, final, lastClaim >>
  <2>1. At(p, "stagingClear") \in Tasks /\ At(p, "stagingClear").pc = "stagingClear"
    BY AtType DEF SweepPcs
  <2>2. row.saved /\ faults' \in Nat
    BY <1>3, Saved, ChargeType
  <2>3. staging' \in Objects
    BY <1>3 DEF Inv, Shapes, Objects
  <2> QED
    BY <1>0, <1>1, <1>3, <2>1, <2>2, <2>3
<1>4. CASE /\ task[p].pc = "stagingClear" /\ Same
           /\ Update(p, lifecycleWhere(row) /\ row.status = "ready" /\ row.pendingKey,
                     [row EXCEPT !.pendingKey = FALSE], Idle, Idle, Idle)
  <2>1. faults' \in Nat /\ row.saved /\ Goto(p, Idle)
    BY <1>4, ChargeType, Saved DEF Update
  <2>2. CASE row' = row
    BY <1>4, <2>1, <2>2, SweepOver
  <2>3. CASE lifecycleWhere(row) /\ row.status = "ready" /\ row' = [row EXCEPT !.pendingKey = FALSE]
    <3>1. /\ row' \in Rows /\ row'.saved = row.saved /\ row'.status = row.status
          /\ row'.deletedAt = row.deletedAt /\ row'.deletionPendingAt = row.deletionPendingAt
          /\ row'.expiredAt = row.expiredAt /\ row'.etag = row.etag
      BY <1>0, <2>3 DEF Rows
    <3>2. now' = now /\ target' = target /\ staging' = staging /\ final' = final /\ lastClaim' \in [Instances -> Nat]
          /\ task' = [task EXCEPT ![p] = Idle]
      BY <1>4, <2>1 DEF Same, Inv, Shapes, Goto
    <3>3. RowKept /\ Spared(p)
      BY <2>1, <2>3, <3>1 DEF RowKept, Spared, completionIsActive, Dead, Spent, Expiry, Inv
    <3>4. lifecycleWhere(row')
      BY <2>3, <3>1 DEF lifecycleWhere
    <3>5. ReadyIsVerified' /\ NoOrphanFinal'
      BY <2>1, <2>3, <3>1, <3>2, <3>4 DEF Inv, ReadyIsVerified, NoOrphanFinal, Visible, Tracked
    <3>6. Plain(Idle) /\ Idle.pc \notin PresignPcs \cup HolderPcs /\ ~Open(Idle)
      BY <1>0 DEF Plain, PlainPcs, PresignPcs, HolderPcs, OwnerPcs, Open, CompletionPcs, DeletePcs
    <3>7. Local(Idle)'
      BY <1>0, <3>6, PlainLocal
    <3> QED
      BY <1>0, <2>1, <3>2, <3>3, <3>5, <3>6, <3>7, RowStep
  <2> QED
    BY <1>4, <2>2, <2>3 DEF Update
<1> QED
  BY <1>2, <1>3, <1>4 DEF unsafeSystemCleanupCompletedStaging

-----------------------------------------------------------------------------
(* deleteAndFinalizePendingRows.                                           *)

\* The objects of a dead row go.
LEMMA StorageDeleteStep ==
  ASSUME ConstantsOK, Inv, NEW p \in Procs, storageDelete(p)
  PROVE  Inv'
<1> PICK t \in Tasks : t = task[p]
  BY DEF Inv, Shapes
<1>1. task[p].pc = "delete" /\ UNCHANGED << now, row, target, lastClaim >>
  BY DEF storageDelete
<1>2. /\ row.saved /\ now' = now /\ row' = row /\ target' = target /\ lastClaim' \in [Instances -> Nat]
      /\ target' \in BOOLEAN
  BY <1>1, Saved DEF Inv, Shapes
<1>3. Local(t) /\ t.pc \in DeletePcs /\ t.pc \in ClaimPcs
  BY <1>1 DEF Inv, DeletePcs, ClaimPcs
<1>4. Dead(row) /\ t.marker # Null /\ ("final" \notin t.keys => final = NoObject)
  BY <1>1, <1>3 DEF Local, Deletion, Snapshot
<1>5. PICK k \in t.keys, o \in StorageOutcomes :
        /\ Charge(o)
        /\ final' = IF k = "final" /\ o # "none" THEN NoObject ELSE final
        /\ staging' = IF k = "staging" /\ o # "none" THEN NoObject ELSE staging
        /\ Goto(p, IF o # "ok" THEN At(p, "release")
                   ELSE [t EXCEPT !.keys = @ \ {k}, !.pc = IF t.keys = {k} THEN "softDelete" ELSE "delete"])
  BY DEF storageDelete
<1>6. faults' \in Nat /\ staging' \in Objects /\ final' \in Objects
  BY <1>5, ChargeType DEF Inv, Shapes, Objects
<1>7. final' = final \/ final' = NoObject
  BY <1>5
<1>8. RowKept /\ Spared(p) /\ FinalKept(p)
  BY <1>2, <1>4, <1>7 DEF RowKept, Spared, FinalKept, Inv, Shapes
<1>9. ReadyIsVerified' /\ NoOrphanFinal'
  BY <1>2, <1>4, <1>7 DEF ReadyIsVerified, NoOrphanFinal, Visible, lifecycleWhere, Dead, Inv
<1>10. PICK v \in Tasks : /\ task' = [task EXCEPT ![p] = v]
                          /\ v.pc \in {"release", "softDelete", "delete"} /\ v.marker = t.marker /\ v.managed = t.managed
                          /\ (v.pc = "softDelete" \/ (v.pc = "delete" /\ "final" \notin v.keys) => final' = NoObject)
  <2>1. CASE o # "ok"
    <3>1. At(p, "release") \in Tasks /\ At(p, "release").pc = "release" /\ At(p, "release").marker = t.marker
          /\ At(p, "release").managed = t.managed
      BY AtType DEF DeletePcs
    <3> QED
      BY <1>5, <2>1, <3>1 DEF Goto
  <2>2. CASE o = "ok"
    <3>1. PICK s \in {"softDelete", "delete"} : s = IF t.keys = {k} THEN "softDelete" ELSE "delete"
      OBVIOUS
    <3>2. PICK v : v = [t EXCEPT !.keys = @ \ {k}, !.pc = s]
      OBVIOUS
    <3>3. v \in Tasks /\ v.pc = s /\ v.marker = t.marker /\ v.managed = t.managed /\ v.keys = t.keys \ {k}
      <4>1. t.keys \ {k} \in SUBSET {"final", "staging"} /\ s \in DeletePcs
        BY <3>1 DEF Tasks, DeletePcs
      <4> QED
        BY <3>2, <4>1 DEF Tasks
    <3>4. task' = [task EXCEPT ![p] = v]
      BY <1>5, <2>2, <3>1, <3>2 DEF Goto
    <3>5. k = "final" => final' = NoObject
      BY <1>5, <2>2
    <3>6. final = NoObject => final' = NoObject
      BY <1>7
    <3>7. s = "softDelete" \/ "final" \notin v.keys => k = "final" \/ final = NoObject
      BY <1>4, <3>1, <3>3
    <3> QED
      BY <3>3, <3>4, <3>5, <3>6, <3>7
  <2> QED
    BY <2>1, <2>2
<1>11. v.pc \in DeletePcs /\ v.pc \notin PresignPcs \cup HolderPcs
  BY <1>10 DEF DeletePcs, PresignPcs, HolderPcs, OwnerPcs, CompletionPcs
<1>12. Open(v) => Open(task[p])
  BY <1>3, <1>10 DEF Open, CompletionPcs, DeletePcs
<1>13. Local(v)'
  <2>1. Snapshot(v)' /\ ManagedEnds(v)'
    BY <1>4, <1>10 DEF Snapshot, ManagedEnds
  <2>2. Completion(v)'
    BY <1>10 DEF Completion, HolderPcs, OwnerPcs, CompletionPcs
  <2>3. Deletion(v)'
    BY <1>2, <1>4, <1>10 DEF Deletion
  <2> QED
    BY <2>1, <2>2, <2>3 DEF Local
<1> QED
  BY <1>2, <1>6, <1>8, <1>9, <1>10, <1>11, <1>12, <1>13, ProcStep

\* The row's marks are made while it stays dead; the claim goes last, when the
\* final object has gone.
LEMMA DeadRowStep ==
  ASSUME ConstantsOK, Inv, NEW p \in Procs,
         finalizePendingRows(p) \/ clearFinalizedDeletionClaim(p) \/ releaseDeletionClaim(p)
  PROVE  Inv'
<1> PICK t \in Tasks : t = task[p]
  BY DEF Inv, Shapes
<1>1. task[p].pc \in {"softDelete", "clear", "release"} /\ UNCHANGED << now, target, staging, final, lastClaim >>
  BY DEF finalizePendingRows, clearFinalizedDeletionClaim, releaseDeletionClaim, Same
<1>2. /\ row.saved /\ now' = now /\ target' = target /\ final' = final /\ staging' = staging /\ row \in Rows
      /\ lastClaim' \in [Instances -> Nat] /\ now \in Nat /\ now > 1
  BY <1>1, Saved DEF Inv, Shapes
<1>3. faults' \in Nat
  BY ChargeType DEF finalizePendingRows, clearFinalizedDeletionClaim, releaseDeletionClaim, Update
<1>4. Local(t) /\ t.pc \in DeletePcs /\ t.pc \in ClaimPcs
  BY <1>1 DEF Inv, DeletePcs, ClaimPcs
<1>5. Dead(row) /\ t.marker # Null /\ (t.pc \in {"softDelete", "clear"} => final = NoObject)
  BY <1>1, <1>4 DEF Local, Deletion, Snapshot
<1>6. Spared(p)
  BY <1>5 DEF Spared, lifecycleWhere, Dead
<1>7. ASSUME NEW v \in Tasks, Goto(p, v), v.pc \in {"idle", "managedFailed", "release", "clear"},
             v.pc = "managedFailed" => t.managed,
             v.pc \in {"release", "clear"} => v.marker = t.marker /\ v.managed = t.managed,
             v.pc = "clear" => t.pc = "softDelete",
             row' \in Rows, row'.saved, row'.expiredAt = row.expiredAt, row'.status = row.status, Dead(row'),
             row'.deletionPendingAt # Null \/ final = NoObject \/ row' = row
      PROVE  Inv'
  <2>1. v.pc \in PlainPcs \cup DeletePcs \cup {"managedFailed"} /\ v.pc \notin PresignPcs
    BY <1>7 DEF PlainPcs, DeletePcs, PresignPcs
  <2>2. Open(v) => Open(task[p])
    BY <1>4, <1>7 DEF Open, CompletionPcs, DeletePcs
  <2>3. v.pc \in DeletePcs => v.marker # Null
    BY <1>5, <1>7 DEF DeletePcs
  <2>4. v.pc \in {"softDelete", "clear"} \/ (v.pc = "delete" /\ "final" \notin v.keys) => final = NoObject
    BY <1>5, <1>7
  <2>5. task' = [task EXCEPT ![p] = v]
    BY <1>7 DEF Goto
  <2> QED
    BY <1>2, <1>3, <1>6, <1>7, <2>1, <2>2, <2>3, <2>4, <2>5, DeadStep
<1>8. ASSUME NEW v \in {Aborted(t), At(p, "release"), At(p, "clear")}, Goto(p, v),
             v # Aborted(t) => t.pc = "softDelete",
             row' \in Rows, row'.saved, row'.expiredAt = row.expiredAt, row'.status = row.status, Dead(row'),
             row'.deletionPendingAt # Null \/ final = NoObject \/ row' = row
      PROVE  Inv'
  <2>1. CASE v = Aborted(t)
    <3>1. v \in Tasks /\ v.pc \in {"idle", "managedFailed"} /\ (Open(v) => t.managed)
      BY <2>1, AbortedType
    <3>2. v.pc = "managedFailed" => t.managed
      BY <3>1 DEF Open
    <3> QED
      BY <1>7, <1>8, <3>1, <3>2
  <2>2. CASE v = At(p, "release")
    <3>1. v \in Tasks /\ v.pc = "release" /\ v.marker = t.marker /\ v.managed = t.managed
      BY <2>2, AtType DEF DeletePcs
    <3> QED
      BY <1>7, <1>8, <3>1
  <2>3. CASE v = At(p, "clear")
    <3>1. v \in Tasks /\ v.pc = "clear" /\ v.marker = t.marker /\ v.managed = t.managed
      BY <2>3, AtType DEF DeletePcs
    <3>2. Aborted(t).pc # "clear"
      BY AbortedType
    <3> QED
      BY <1>7, <1>8, <3>1, <3>2
  <2> QED
    BY <1>8, <2>1, <2>2, <2>3
<1>9. CASE finalizePendingRows(p)
  <2>1. PICK v \in {Aborted(t), At(p, "release"), At(p, "clear")} : Goto(p, v)
    BY <1>9 DEF finalizePendingRows, Update
  <2>2. t.pc = "softDelete"
    BY <1>9 DEF finalizePendingRows
  <2>3. CASE row' = row
    BY <1>2, <1>5, <1>6, <1>8, <2>1, <2>2, <2>3
  <2>4. CASE row' = [row EXCEPT !.deletedAt = TRUE]
    <3>1. row' \in Rows /\ row'.saved /\ row'.expiredAt = row.expiredAt /\ row'.status = row.status
          /\ row'.deletedAt /\ row'.deletionPendingAt = row.deletionPendingAt
      BY <1>2, <2>4 DEF Rows
    <3>2. Dead(row')
      BY <3>1 DEF Dead
    <3> QED
      BY <1>5, <1>8, <2>1, <2>2, <3>1, <3>2
  <2> QED
    BY <1>9, <2>3, <2>4 DEF finalizePendingRows, Update
<1>10. CASE clearFinalizedDeletionClaim(p)
  <2>1. Goto(p, Aborted(t)) /\ t.pc = "clear"
    BY <1>10 DEF clearFinalizedDeletionClaim, Update
  <2>2. CASE row' = row
    BY <1>2, <1>5, <1>8, <2>1, <2>2
  <2>3. CASE row.deletedAt /\ row' = [row EXCEPT !.deletionPendingAt = Null]
    <3>1. row' \in Rows /\ row'.saved /\ row'.expiredAt = row.expiredAt /\ row'.status = row.status
          /\ row'.deletedAt
      BY <1>2, <2>3 DEF Rows, Times, Null
    <3>2. Dead(row') /\ final = NoObject
      BY <1>5, <2>1, <3>1 DEF Dead
    <3> QED
      BY <1>8, <2>1, <3>1, <3>2
  <2> QED
    BY <1>10, <2>2, <2>3 DEF clearFinalizedDeletionClaim, Update
<1>11. CASE releaseDeletionClaim(p)
  <2>1. Goto(p, Aborted(t)) /\ t.pc = "release"
    BY <1>11 DEF releaseDeletionClaim, Update
  <2>3. CASE row' = row
    BY <1>2, <1>5, <1>8, <2>1, <2>3
  <2>4. CASE row' = [row EXCEPT !.deletionPendingAt = retryBackoffMarker]
    <3>1. retryBackoffMarker \in Nat /\ retryBackoffMarker # Null
      BY <1>2 DEF retryBackoffMarker, ConstantsOK, Null
    <3>2. row' \in Rows /\ row'.saved /\ row'.expiredAt = row.expiredAt /\ row'.status = row.status
          /\ row'.deletionPendingAt # Null
      BY <1>2, <2>4, <3>1 DEF Rows, Times
    <3>3. Dead(row')
      BY <3>2 DEF Dead
    <3> QED
      BY <1>8, <2>1, <3>2, <3>3
  <2> QED
    BY <1>11, <2>3, <2>4 DEF releaseDeletionClaim, Update
<1> QED
  BY <1>9, <1>10, <1>11

-----------------------------------------------------------------------------
(* Crashes and the clock.                                                  *)

\* The calls of a crashed instance are gone; what they had claimed stays.
LEMMA CrashStep ==
  ASSUME ConstantsOK, Inv, NEW i \in Instances, crash(i)
  PROVE  Inv'
<1>1. /\ task' = [q \in Procs |-> IF InstanceOf[q] = i THEN Idle ELSE task[q]]
      /\ lastClaim' = [lastClaim EXCEPT ![i] = 0]
      /\ UNCHANGED << now, row, target, staging, final >>
  BY DEF crash
<1>2. faults' \in Nat
  BY ChargeType DEF crash
<1>3. Idle \in Tasks /\ Idle.pc = "idle"
  <2>1. \E q \in Procs : task[q] \in Tasks
    BY DEF crash, Inv, Shapes
  <2> QED
    BY <2>1, FailedCallType
<1>4. \A q \in Procs : task'[q] \in {Idle, task[q]}
  BY <1>1
<1>5. Plain(Idle) /\ Idle.pc \notin PresignPcs \cup HolderPcs /\ ~Open(Idle)
  BY <1>3 DEF Plain, PlainPcs, PresignPcs, HolderPcs, OwnerPcs, Open, CompletionPcs, DeletePcs
<1>6. ASSUME NEW q \in Procs PROVE Local(task[q])'
  <2>1. PICK t \in Tasks : t = task'[q]
    BY <1>3, <1>4 DEF Inv, Shapes
  <2>2. Local(t)
    BY <1>3, <1>4, <1>5, <2>1, PlainLocal DEF Inv
  <2>3. Local(t)'
    BY <1>1, <2>2 DEF Local, Snapshot, Completion, Deletion, ManagedEnds, Etag
  <2> QED
    BY <2>1, <2>3 DEF Local, Snapshot, Completion, Deletion, ManagedEnds
<1>7. Shapes'
  <2>1. task' \in [Procs -> Tasks]
    BY <1>1, <1>3 DEF Inv, Shapes
  <2>2. lastClaim' \in [Instances -> Nat]
    BY <1>1 DEF Inv, Shapes
  <2> QED
    BY <1>1, <1>2, <2>1, <2>2 DEF Inv, Shapes
<1>8. Expiry(row)' /\ ReadyIsVerified' /\ NoOrphanFinal'
  BY <1>1 DEF Inv, Expiry, ReadyIsVerified, NoOrphanFinal
<1>9. Unsaved'
  BY <1>1, <1>4 DEF Inv, Unsaved
<1>10. Private' /\ OneHolder'
  <2>1. \A a \in Procs : task'[a].pc \in PresignPcs \cup HolderPcs \/ Open(task'[a]) => task'[a] = task[a]
    BY <1>4, <1>5
  <2>2. OneHolder'
    BY <2>1 DEF Inv, OneHolder
  <2>3. SUFFICES ASSUME NEW a \in Procs, task'[a].pc \in PresignPcs
                 PROVE  ~target' /\ \A b \in Procs : b # a => task'[b].pc \notin PresignPcs /\ ~Open(task'[b])
    BY <2>2 DEF Private, Open
  <2>4. task'[a] = task[a]
    BY <2>1, <2>3
  <2> QED
    BY <1>1, <2>1, <2>3, <2>4 DEF Inv, Private
<1> QED
  BY <1>6, <1>7, <1>8, <1>9, <1>10 DEF Inv

\* Time passes within the leases of the completions that run.
LEMMA TickStep ==
  ASSUME ConstantsOK, ~Outlive, Inv, tick
  PROVE  Inv'
<1>1. /\ now' = now + TickMs /\ UNCHANGED << row, target, staging, final, task, lastClaim, faults >>
      /\ \A p \in Procs : task[p].pc \in CompletionPcs => now' < task[p].marker
  BY DEF tick
<1>2. now \in Nat /\ now' \in Nat /\ now <= now' /\ now' > 1
  BY <1>1 DEF Inv, Shapes, ConstantsOK
<1>3. ASSUME NEW p \in Procs PROVE Local(task[p])'
  <2>1. PICK t \in Tasks : t = task[p]
    BY DEF Inv, Shapes
  <2>2. Local(t) /\ t.marker \in Nat /\ t.snap.uploadPendingAt \in Nat
    BY <2>1 DEF Inv, Tasks, Rows, Times
  <2>3. (t.marker <= now + ActivationLease => t.marker <= now' + ActivationLease)
        /\ (t.snap.uploadPendingAt <= now => t.snap.uploadPendingAt <= now')
    BY <1>2, <2>2 DEF ConstantsOK
  <2>4. t.pc \in CompletionPcs => t.marker > now'
    BY <1>1, <1>2, <2>1, <2>2
  <2>5. Snapshot(t)'
    BY <1>1, <2>2, <2>3 DEF Local, Snapshot
  <2>6. Completion(t)'
    BY <1>1, <2>2, <2>4 DEF Local, Completion, Etag
  <2>7. Deletion(t)' /\ ManagedEnds(t)'
    BY <1>1, <2>2 DEF Local, Deletion, ManagedEnds
  <2>8. Local(t)' /\ task'[p] = t
    BY <1>1, <2>1, <2>5, <2>6, <2>7 DEF Local
  <2> QED
    BY <2>8 DEF Local, Snapshot, Completion, Deletion, ManagedEnds
<1>4. Shapes'
  BY <1>1, <1>2 DEF Inv, Shapes
<1>5. Expiry(row)' /\ Unsaved' /\ Private' /\ OneHolder' /\ ReadyIsVerified' /\ NoOrphanFinal'
  BY <1>1 DEF Inv, Expiry, Unsaved, Private, OneHolder, ReadyIsVerified, NoOrphanFinal, Open
<1> QED
  BY <1>3, <1>4, <1>5 DEF Inv

-----------------------------------------------------------------------------
(* Theorems.                                                               *)

\* Init establishes the invariant.
LEMMA InitInv ==
  ASSUME ConstantsOK, Init
  PROVE  Inv
<1>1. /\ Idle \in Tasks /\ Idle.pc = "idle" /\ NoRow \in Rows /\ ~NoRow.saved
      /\ NoRow.status = "pending" /\ NoRow.expiredAt = Null
  BY DEF Idle, NoRow, Tasks, Rows, OtherPcs, Times, Null, NoObject, Objects
<1>2. \A p \in Procs : task[p] = Idle
  BY DEF Init
<1>3. Plain(Idle) /\ Idle.pc \notin PresignPcs \cup HolderPcs /\ ~Open(Idle)
  BY <1>1 DEF Plain, PlainPcs, PresignPcs, HolderPcs, OwnerPcs, Open, CompletionPcs, DeletePcs
<1>4. Shapes
  <2>1. task \in [Procs -> Tasks] /\ lastClaim \in [Instances -> Nat]
    BY <1>1 DEF Init
  <2>2. now \in Nat /\ now > 1 /\ faults \in Nat
    BY DEF Init
  <2>3. target \in BOOLEAN
    BY DEF Init
  <2>4. row \in Rows /\ staging \in Objects /\ final \in Objects
    BY <1>1 DEF Init, Objects
  <2> QED
    BY <2>1, <2>2, <2>3, <2>4 DEF Shapes
<1>5. Expiry(row) /\ Unsaved /\ Private /\ OneHolder
  BY <1>1, <1>2, <1>3 DEF Init, Expiry, Unsaved, Private, OneHolder
<1>6. \A p \in Procs : Local(task[p])
  BY <1>1, <1>2, <1>3, PlainLocal
<1>7. ReadyIsVerified /\ NoOrphanFinal
  BY <1>1 DEF Init, ReadyIsVerified, NoOrphanFinal, Visible, lifecycleWhere
<1> QED
  BY <1>4, <1>5, <1>6, <1>7 DEF Inv

\* Every step preserves it.
LEMMA NextInv ==
  ASSUME ConstantsOK, ~Outlive, Inv, [Next]_vars
  PROVE  Inv'
<1>1. ASSUME NEW p \in Procs, NEW managed \in ManagedCalls, initiate(p, managed) PROVE Inv'
  <2>1. managed \in BOOLEAN
    BY DEF ConstantsOK
  <2> QED
    BY <1>1, <2>1, InitiateStep
<1>2. ASSUME NEW p \in Procs, complete(p) PROVE Inv'
  BY <1>2, CompleteUploadStep, VerifyStep, ClaimCompletionStep, HolderQuietStep, PromoteStep, FinalizeStep, RetryableStep
     DEF complete
<1>3. ASSUME NEW p \in Procs, deleteAndFinalizePendingRows(p) PROVE Inv'
  BY <1>3, StorageDeleteStep, DeadRowStep DEF deleteAndFinalizePendingRows
<1>4. ASSUME NEW p \in Procs, Handler(p) PROVE Inv'
  BY <1>2, <1>3, <1>4, PresignStep, CleanupStep, SettleReadStep, SettleClaimStep, TransferStep, AbortReadStep, AbortClaimStep
     DEF Handler
<1>5. ASSUME NEW p \in Sweepers, Sweep(p) PROVE Inv'
  <2>1. p \in Procs
    BY DEF Procs
  <2> QED
    BY <1>5, <2>1, ExpireStep, StagingStep, RetryStep, TemporaryStep DEF Sweep
<1>6. CASE UNCHANGED vars
  BY <1>6 DEF vars, Inv, Shapes, Expiry, Unsaved, Private, OneHolder, Local, Snapshot, Completion, Deletion,
              ManagedEnds, ReadyIsVerified, NoOrphanFinal, Open, Etag
<1> QED
  BY <1>1, <1>4, <1>5, <1>6, DeleteByIdStep, ClientPutStep, CrashStep, TickStep DEF Next

\* Rows, markers, objects and processes have their shapes, and a file carries an
\* expiry exactly when it is a ready temporary one, whatever claims, completions
\* and sweeps do to the row.
THEOREM TypeCorrect == ConstantsOK /\ ~Outlive => (Spec => []TypeOK)
<1> SUFFICES ASSUME ConstantsOK, ~Outlive PROVE Spec => []TypeOK
  OBVIOUS
<1>1. Inv => TypeOK
  BY DEF Inv, Shapes, Expiry, TypeOK, Tasks
<1> QED
  BY InitInv, NextInv, <1>1, PTL DEF Spec

\* A file that reads can see has the bytes its completion verified, whatever
\* the client PUTs again and however completions, aborts and sweeps of any
\* number of instances race (completeManagedUpload, finalizeCompletion).
THEOREM ReadyVerified == ConstantsOK /\ ~Outlive => (Spec => []ReadyIsVerified)
<1> SUFFICES ASSUME ConstantsOK, ~Outlive PROVE Spec => []ReadyIsVerified
  OBVIOUS
<1>1. Inv => ReadyIsVerified
  BY DEF Inv
<1> QED
  BY InitInv, NextInv, <1>1, PTL DEF Spec

\* A running completion keeps its row for the whole of its lease, and an
\* uploadManaged over S3 that failed and could abort leaves no pending upload.
THEOREM Completions == ConstantsOK /\ ~Outlive => (Spec => []CompletionsRespected)
<1> SUFFICES ASSUME ConstantsOK, ~Outlive PROVE Spec => []CompletionsRespected
  OBVIOUS
<1>1. Inv => CompletionsRespected
  BY DEF Inv, Local, Completion, ManagedEnds, CompletionsRespected, ActiveCompletionKept, ManagedFailureAborted
<1> QED
  BY InitInv, NextInv, <1>1, PTL DEF Spec

\* Promoted bytes always have a row that shows them or that a sweep will find,
\* also after crashes and lost answers.
THEOREM FinalTracked == ConstantsOK /\ ~Outlive => (Spec => []NoOrphanFinal)
<1> SUFFICES ASSUME ConstantsOK, ~Outlive PROVE Spec => []NoOrphanFinal
  OBVIOUS
<1>1. Inv => NoOrphanFinal
  BY DEF Inv
<1> QED
  BY InitInv, NextInv, <1>1, PTL DEF Spec
=============================================================================
