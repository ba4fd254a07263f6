---------------------------- MODULE UploadedFile ----------------------------
(***************************************************************************)
(* The crash-durable upload and deletion outbox of UploadedFileService:    *)
(* uploadLegacy / uploadTemporaryLegacy, delete, deleteById on an active   *)
(* row, markUsed / useFiles, the maintenance sweeps over the table and the *)
(* operator's retirement of a tombstone.                                   *)
(*                                                                         *)
(* A row's two markers, uploadPendingAt and deletionPendingAt, are at once *)
(* leases and compare-and-swap tokens.  Every UPDATE below is one atomic   *)
(* step; everything the code does between two awaits on the database or on *)
(* the storage is a separate step, so requests, sweeps and uploads of all  *)
(* service instances interleave at every await.  A database call may be    *)
(* executed and its response lost ("lost"), or not be executed at all      *)
(* ("none"); an instance may crash between any two steps.                  *)
(***************************************************************************)
EXTENDS Integers, FiniteSets

CONSTANTS
  Files,            \* ids generated by uploads; process f is the uploader of f
  Temps,            \* the files uploaded by uploadTemporaryLegacy
  Workers,          \* request handlers and maintenance sweeps
  Instances,        \* service processes
  InstanceOf,       \* the instance a process runs in
  ActivationLease,  \* UPLOAD_ACTIVATION_LEASE_MS
  ClaimLease,       \* DELETION_CLAIM_LEASE_MS
  Backoff,          \* DELETION_RETRY_BACKOFF_MS
  TempLife,         \* TEMPORARY_FILE_LIFETIME_MS
  SubMs,            \* sub-millisecond parts a database timestamp can have
  LateWrites,       \* TRUE: a write reported failed may still reach storage
  PromptSweeps,     \* TRUE: the clock waits for a sweep of what is eligible
  TickMs,           \* milliseconds per step of the clock
  MaxTime,          \* bound: last clock value
  LastUpload,       \* bound: no upload starts after this clock value
  LastFault,        \* bound: no fault is injected after this clock value
  MaxFaults         \* bound: number of injected faults

Procs == Files \cup Workers

ASSUME ProcsAssumption ==
  /\ Temps \subseteq Files
  /\ Files \cap Workers = {}
  /\ InstanceOf \in [Procs -> Instances]

ASSUME TimingAssumption ==
  /\ ActivationLease \in Nat \ {0}
  /\ ClaimLease \in Nat \ {0}
  /\ Backoff \in Nat \ {0}
  /\ TempLife \in Nat \ {0}
  /\ TickMs \in Nat \ {0}
  /\ MaxTime \in Nat
  /\ LastUpload \in Nat
  /\ LastFault \in Nat
  /\ MaxFaults \in Nat

ASSUME OptionsAssumption ==
  /\ SubMs \subseteq Nat
  /\ 0 \in SubMs
  /\ LateWrites \in BOOLEAN
  /\ PromptSweeps \in BOOLEAN

VARIABLES
  now,           \* Date.now() of every instance, in milliseconds from 1
  row,           \* the uploaded_file table
  obj,           \* obj[f]: the object of f's generated key exists in storage
  lateWrite,     \* files with a storage write that may still take effect
  lateActivate,  \* lateActivate[f]: completedAt of an activation UPDATE that
                 \* the database may still execute, or Null
  task,          \* local state of every process
  mark,          \* mark[f]: activationMarker of f's uploader
  lastClaim,     \* lastDeletionClaimAt of every instance
  faults         \* injected faults so far

vars == << now, row, obj, lateWrite, lateActivate, task, mark, lastClaim, faults >>

-----------------------------------------------------------------------------
(* Rows.  SQL NULL in a marker column is 0; the clock starts at 1.         *)

Null == 0

NotDeleted == [ms |-> 0, us |-> 0]

NoRow == [saved |-> FALSE, uploadPendingAt |-> Null, deletionPendingAt |-> Null,
          deletedAt |-> NotDeleted, isUsed |-> FALSE, expiredAt |-> Null]

\* The row an upload inserts before it writes a byte.
PendingRow(marker) ==
  [saved |-> TRUE, uploadPendingAt |-> marker, deletionPendingAt |-> Null,
   deletedAt |-> NotDeleted, isUsed |-> FALSE, expiredAt |-> Null]

\* deletedAt is written by the database clock and read back as a JavaScript
\* Date, which keeps whole milliseconds only.
AsDate(stamp) == [ms |-> stamp.ms, us |-> 0]

\* What a SELECT returns of a row's lifecycle columns.
Snapshot(r) == [uploadPendingAt   |-> r.uploadPendingAt,
                deletionPendingAt |-> r.deletionPendingAt,
                deletedAt         |-> AsDate(r.deletedAt)]

NoSnapshot == Snapshot(NoRow)

\* The criteria of an UPDATE that expects exactly the markers of a snapshot.
SameMarkers(r, s) ==
  /\ r.saved
  /\ r.uploadPendingAt = s.uploadPendingAt
  /\ r.deletionPendingAt = s.deletionPendingAt
  /\ r.deletedAt = s.deletedAt

\* The row that reads and request mutations may see.
where(r) ==
  /\ r.saved
  /\ r.deletedAt = NotDeleted
  /\ r.uploadPendingAt = Null
  /\ r.deletionPendingAt = Null

pendingUploadWhere(r, marker) ==
  /\ r.saved
  /\ r.deletedAt = NotDeleted
  /\ r.uploadPendingAt = marker
  /\ r.deletionPendingAt = Null

\* The criteria of a deleter that owns the claim of task t.
pendingDeletionWhere(r, t) ==
  /\ r.saved
  /\ r.deletedAt = NotDeleted
  /\ r.uploadPendingAt = t.uploadPendingAt
  /\ r.deletionPendingAt = t.claim

\* Mutant of Activated: an expiry for permanent files too.
ActivatedAlwaysExpiring(f, r, completedAt) ==
  [r EXCEPT !.uploadPendingAt = Null, !.expiredAt = completedAt + TempLife]

\* Both activations; a temporary file also gets its expiry.
Activated(f, r, completedAt) ==
  [r EXCEPT !.uploadPendingAt = Null,
            !.expiredAt = IF f \in Temps THEN completedAt + TempLife ELSE @]

\* Mutant of Claimed: the deletion marker is forgotten.
ClaimedUnmarked(r, claim) == [r EXCEPT !.deletedAt = NotDeleted]

Claimed(r, claim) ==
  [r EXCEPT !.deletionPendingAt = claim, !.deletedAt = NotDeleted]

Settled(r, claim) ==
  [Claimed(r, claim) EXCEPT !.uploadPendingAt = Null]

\* A marker that has elapsed: maintenance may take the row.
Elapsed(marker) == marker # Null /\ marker < now

Later(a, b) == IF a >= b THEN a ELSE b

\* Mutant of nextDeletionClaim: the marker being replaced is ignored.
nextDeletionClaimUnordered(i, expected) == Later(now + ClaimLease, lastClaim[i] + 1)

nextDeletionClaim(i, expected) ==
  Later(Later(now + ClaimLease, lastClaim[i] + 1), expected + 1)

\* Mutant of retryBackoffMarker: a failed deletion gives its row back.
retryBackoffMarkerNull == Null

retryBackoffMarker == now + Backoff

immediateRetryMarkerFor(claim) ==
  IF now - 1 <= claim - 1 THEN now - 1 ELSE claim - 1

-----------------------------------------------------------------------------
(* Processes.                                                              *)

WriterPcs == {"new", "write", "activate", "confirm", "cleanup", "settle",
              "settleClaim", "done", "failed"}
WorkerPcs == {"idle", "retryClaim"}
DeletePcs == {"storage", "finalize", "clear", "release"}

Task(pc) == [pc |-> pc, files |-> {}, uploadPendingAt |-> Null, claim |-> Null,
             snap |-> NoSnapshot, tries |-> 0]

\* Entering deleteAndFinalizePendingRows(rows, claim).
Deleting(fs, marker, claim) ==
  [Task("storage") EXCEPT !.files = fs, !.uploadPendingAt = marker, !.claim = claim]

\* Where a process goes when deleteAndFinalizePendingRows returns or throws.
EndOf(p) == IF p \in Files THEN Task("failed") ELSE Task("idle")

Goto(p, t) == task' = [task EXCEPT ![p] = t]

Outcomes == {"ok", "lost", "none"}

\* A call that answers costs nothing; the others use up the fault budget.
Charge(o) ==
  \/ o = "ok" /\ faults' = faults
  \/ o # "ok" /\ now <= LastFault /\ faults < MaxFaults /\ faults' = faults + 1

\* lastDeletionClaimAt.  A claim that reached no row is not remembered: later
\* claims only have to differ from those that rows carry.
UseClaim(p, claim, written) ==
  lastClaim' = IF written THEN [lastClaim EXCEPT ![InstanceOf[p]] = claim] ELSE lastClaim

Init ==
  /\ now = 1
  /\ row = [f \in Files |-> NoRow]
  /\ obj = [f \in Files |-> FALSE]
  /\ lateWrite = {}
  /\ lateActivate = [f \in Files |-> Null]
  /\ task = [p \in Procs |-> IF p \in Files THEN Task("new") ELSE Task("idle")]
  /\ mark = [f \in Files |-> Null]
  /\ lastClaim = [i \in Instances |-> 0]
  /\ faults = 0

-----------------------------------------------------------------------------
(* The uploader of f.                                                      *)

saveRow(f) ==
  /\ task[f].pc = "new"
  /\ now <= LastUpload
  /\ \E o \in Outcomes :
       /\ Charge(o)
       /\ row' = IF o = "none" THEN row
                 ELSE [row EXCEPT ![f] = PendingRow(now + ActivationLease)]
       /\ Goto(f, Task(IF o = "ok" THEN "write" ELSE "failed"))
  /\ mark' = [mark EXCEPT ![f] = now + ActivationLease]
  /\ UNCHANGED << now, obj, lateWrite, lateActivate, lastClaim >>

writeObject(f) ==
  /\ task[f].pc = "write"
  /\ \E o \in Outcomes :
       /\ Charge(o)
       /\ obj' = IF o = "none" THEN obj ELSE [obj EXCEPT ![f] = TRUE]
       /\ lateWrite' \in IF o = "none" /\ LateWrites
                         THEN {lateWrite, lateWrite \cup {f}} ELSE {lateWrite}
       /\ Goto(f, Task(IF o = "ok" THEN "activate" ELSE "cleanup"))
  /\ UNCHANGED << now, row, lateActivate, mark, lastClaim >>

activatePendingUpload(f) ==
  /\ task[f].pc = "activate"
  /\ LET hit == pendingUploadWhere(row[f], mark[f]) IN
     \E o \in Outcomes :
       /\ Charge(o)
       /\ row' = IF hit /\ o # "none"
                 THEN [row EXCEPT ![f] = Activated(f, row[f], now)] ELSE row
       /\ lateActivate' \in IF o = "none"
                            THEN {lateActivate, [lateActivate EXCEPT ![f] = now]}
                            ELSE {lateActivate}
       /\ Goto(f, Task(IF hit /\ o = "ok" THEN "done" ELSE "confirm"))
  /\ UNCHANGED << now, obj, lateWrite, mark, lastClaim >>

confirmedActiveUpload(f) ==
  /\ task[f].pc = "confirm"
  /\ \E o \in {"ok", "none"} :
       /\ Charge(o)
       /\ Goto(f, Task(IF o = "ok" /\ where(row[f]) THEN "done" ELSE "cleanup"))
  /\ UNCHANGED << now, row, obj, lateWrite, lateActivate, mark, lastClaim >>

cleanupFailedUpload(f) ==
  /\ task[f].pc = "cleanup"
  /\ LET claim == nextDeletionClaim(InstanceOf[f], mark[f])
         hit   == pendingUploadWhere(row[f], mark[f])
     IN \E o \in Outcomes :
          /\ Charge(o)
          /\ UseClaim(f, claim, hit /\ o # "none")
          /\ row' = IF hit /\ o # "none"
                    THEN [row EXCEPT ![f] = Settled(row[f], claim)] ELSE row
          /\ Goto(f, IF hit /\ o = "ok" THEN Deleting({f}, Null, claim)
                     ELSE Task("settle"))
  /\ UNCHANGED << now, obj, lateWrite, lateActivate, mark >>

\* deleteWrittenObjectWhenActivationIsImpossible: the re-read ...
settleRead(f) ==
  /\ task[f].pc = "settle"
  /\ \E o \in {"ok", "none"} :
       /\ Charge(o)
       /\ Goto(f, IF o = "none" \/ ~row[f].saved \/ where(row[f])
                  THEN Task("failed")
                  ELSE [Task("settleClaim") EXCEPT !.snap = Snapshot(row[f]),
                                                   !.tries = task[f].tries])
  /\ UNCHANGED << now, row, obj, lateWrite, lateActivate, mark, lastClaim >>

\* ... and the claim, tried at most three times, of the exact state it saw.
settleClaim(f) ==
  /\ task[f].pc = "settleClaim"
  /\ LET snap  == task[f].snap
         claim == nextDeletionClaim(InstanceOf[f],
                    IF snap.deletionPendingAt # Null THEN snap.deletionPendingAt
                    ELSE mark[f])
         hit   == SameMarkers(row[f], snap)
     IN \E o \in Outcomes :
          /\ Charge(o)
          /\ UseClaim(f, claim, hit /\ o # "none")
          /\ row' = IF hit /\ o # "none"
                    THEN [row EXCEPT ![f] = Settled(row[f], claim)] ELSE row
          /\ Goto(f, IF o # "ok" THEN Task("failed")
                     ELSE IF hit THEN Deleting({f}, Null, claim)
                     ELSE IF task[f].tries < 2
                     THEN [Task("settle") EXCEPT !.tries = task[f].tries + 1]
                     ELSE Task("failed"))
  /\ UNCHANGED << now, obj, lateWrite, lateActivate, mark >>

-----------------------------------------------------------------------------
(* Requests on active rows.                                                *)

\* The transaction of delete / deleteById / unsafeSystemPurgeUnusedBefore /
\* cleanupExpiredTemporaryFiles that marks all of fs with one claim.  deleteById
\* is delete of one file here: its criteria do not exclude pending uploads, but
\* clients learn the id of such a file only when its row has become active.
ClaimActive(w, fs, expected) ==
  /\ task[w].pc = "idle"
  /\ \A f \in fs : where(row[f])
  /\ LET claim == nextDeletionClaim(InstanceOf[w], expected)
     IN \E o \in Outcomes :
          /\ Charge(o)
          /\ UseClaim(w, claim, o # "none")
          /\ row' = IF o = "none" THEN row
                    ELSE [f \in Files |-> IF f \in fs THEN Claimed(row[f], claim)
                                          ELSE row[f]]
          /\ Goto(w, IF o = "ok" THEN Deleting(fs, Null, claim) ELSE Task("idle"))
  /\ UNCHANGED << now, obj, lateWrite, lateActivate, mark >>

deleteReferences(w) ==
  \E fs \in (SUBSET Files) \ {{}} : ClaimActive(w, fs, Null)

unsafeSystemPurgeUnusedBefore(w) ==
  \E fs \in (SUBSET (Files \ Temps)) \ {{}} :
    /\ \A f \in fs : ~row[f].isUsed
    /\ ClaimActive(w, fs, Null)

cleanupExpiredTemporaryFiles(w) ==
  \E f \in Temps :
    /\ row[f].expiredAt # Null /\ row[f].expiredAt <= now
    /\ ClaimActive(w, {f}, row[f].expiredAt)

\* markUsed and useFiles: all or nothing in one transaction.
markUsed(fs) ==
  /\ fs # {}
  /\ \A f \in fs : where(row[f])
  /\ \E f \in fs : ~row[f].isUsed
  /\ row' = [f \in Files |-> IF f \in fs THEN [row[f] EXCEPT !.isUsed = TRUE] ELSE row[f]]
  /\ UNCHANGED << now, obj, lateWrite, lateActivate, task, mark, lastClaim, faults >>

-----------------------------------------------------------------------------
(* Maintenance.                                                            *)

\* Mutant of Retryable: a claimed upload tombstone is never looked at again.
RetryableSettledOnly(r) ==
  /\ r.saved
  /\ \/ Elapsed(r.deletionPendingAt) /\ r.uploadPendingAt = Null
     \/ Elapsed(r.uploadPendingAt) /\ r.deletionPendingAt = Null

\* Mutant of Retryable: a SELECT without soft-deleted rows.
RetryableLive(r) ==
  /\ r.saved /\ r.deletedAt = NotDeleted
  /\ \/ Elapsed(r.deletionPendingAt) /\ r.uploadPendingAt = Null
     \/ Elapsed(r.uploadPendingAt) /\ r.deletionPendingAt = Null
     \/ Elapsed(r.uploadPendingAt) /\ Elapsed(r.deletionPendingAt)

\* The rows unsafeSystemRetryPendingDeletions selects, soft-deleted or not.
Retryable(r) ==
  /\ r.saved
  /\ \/ Elapsed(r.deletionPendingAt) /\ r.uploadPendingAt = Null
     \/ Elapsed(r.uploadPendingAt) /\ r.deletionPendingAt = Null
     \/ Elapsed(r.uploadPendingAt) /\ Elapsed(r.deletionPendingAt)

\* ... and the ones among them that a claim of what was read can match.
Sweepable(r) == Retryable(r) /\ SameMarkers(r, Snapshot(r))

retrySelect(w) ==
  /\ task[w].pc = "idle"
  /\ \E f \in Files :
       /\ Retryable(row[f])
       /\ Goto(w, [Task("retryClaim") EXCEPT !.files = {f}, !.snap = Snapshot(row[f])])
  /\ UNCHANGED << now, row, obj, lateWrite, lateActivate, mark, lastClaim, faults >>

\* One iteration of its loop: claim the exact state seen by the SELECT.
retryClaim(w) ==
  /\ task[w].pc = "retryClaim"
  /\ \E f \in task[w].files :
     LET snap  == task[w].snap
         claim == nextDeletionClaim(InstanceOf[w],
                    IF snap.deletionPendingAt # Null THEN snap.deletionPendingAt
                    ELSE snap.uploadPendingAt)
         hit   == SameMarkers(row[f], snap)
     IN \E o \in Outcomes :
          /\ Charge(o)
          /\ UseClaim(w, claim, hit /\ o # "none")
          /\ row' = IF hit /\ o # "none"
                    THEN [row EXCEPT ![f] = Claimed(row[f], claim)] ELSE row
          /\ Goto(w, IF hit /\ o = "ok" THEN Deleting({f}, snap.uploadPendingAt, claim)
                     ELSE Task("idle"))
  /\ UNCHANGED << now, obj, lateWrite, lateActivate, mark >>

\* The operator has checked that the producer is gone and that no write of f
\* can still complete.
unsafeSystemRetireUploadTombstone(f) ==
  /\ task[f].pc = "failed" /\ f \notin lateWrite
  /\ row[f].saved
  /\ Elapsed(row[f].uploadPendingAt)
  /\ row[f].deletionPendingAt = Null \/ Elapsed(row[f].deletionPendingAt)
  /\ SameMarkers(row[f], Snapshot(row[f]))
  /\ row' = [row EXCEPT ![f] = Settled(row[f], immediateRetryMarkerFor(
               IF row[f].deletionPendingAt # Null THEN row[f].deletionPendingAt
               ELSE row[f].uploadPendingAt))]
  /\ UNCHANGED << now, obj, lateWrite, lateActivate, task, mark, lastClaim, faults >>

-----------------------------------------------------------------------------
(* deleteAndFinalizePendingRows, run by uploaders and workers alike.       *)

\* Mutant of storageDelete: per-key errors are not noticed.
storageDeleteUnchecked(p) ==
  /\ task[p].pc = "storage"
  /\ \E gone \in SUBSET task[p].files, o \in {"ok", "none"} :
       /\ Charge(o)
       /\ o = "ok" => gone = task[p].files
       /\ obj' = [f \in Files |-> obj[f] /\ f \notin gone]
       /\ Goto(p, [task[p] EXCEPT !.pc = "finalize"])
  /\ UNCHANGED << now, row, lateWrite, lateActivate, mark, lastClaim >>

\* storage.delete(keys): a failed call may have removed some of the objects.
storageDelete(p) ==
  /\ task[p].pc = "storage"
  /\ \E gone \in SUBSET task[p].files, o \in {"ok", "none"} :
       /\ Charge(o)
       /\ o = "ok" => gone = task[p].files
       /\ obj' = [f \in Files |-> obj[f] /\ f \notin gone]
       /\ Goto(p, [task[p] EXCEPT !.pc = IF o = "ok" THEN "finalize" ELSE "release"])
  /\ UNCHANGED << now, row, lateWrite, lateActivate, mark, lastClaim >>

\* The soft delete takes its timestamp from the database clock.
finalizePendingRows(p) ==
  /\ task[p].pc = "finalize"
  /\ LET hits == {f \in task[p].files : pendingDeletionWhere(row[f], task[p])} IN
     \E o \in Outcomes, us \in SubMs :
       /\ Charge(o)
       /\ row' = IF o = "none" THEN row
                 ELSE [f \in Files |->
                         IF f \in hits
                         THEN [row[f] EXCEPT !.deletedAt = [ms |-> now, us |-> us]]
                         ELSE row[f]]
       /\ Goto(p, IF o # "ok" \/ hits # task[p].files
                  THEN [task[p] EXCEPT !.pc = "release"]
                  ELSE IF task[p].uploadPendingAt = Null
                  THEN [task[p] EXCEPT !.pc = "clear"]
                  ELSE EndOf(p))
  /\ UNCHANGED << now, obj, lateWrite, lateActivate, mark, lastClaim >>

clearFinalizedDeletionClaim(p) ==
  /\ task[p].pc = "clear"
  /\ LET hits == {f \in task[p].files : /\ row[f].saved
                                        /\ row[f].deletedAt # NotDeleted
                                        /\ row[f].uploadPendingAt = Null
                                        /\ row[f].deletionPendingAt = task[p].claim} IN
     \E o \in {"ok", "none"} :
       /\ Charge(o)
       /\ row' = IF o = "none" THEN row
                 ELSE [f \in Files |-> IF f \in hits
                                       THEN [row[f] EXCEPT !.deletionPendingAt = Null]
                                       ELSE row[f]]
  /\ Goto(p, EndOf(p))
  /\ UNCHANGED << now, obj, lateWrite, lateActivate, mark, lastClaim >>

releaseDeletionClaim(p) ==
  /\ task[p].pc = "release"
  /\ LET hits == {f \in task[p].files : pendingDeletionWhere(row[f], task[p])} IN
     \E o \in {"ok", "none"} :
       /\ Charge(o)
       /\ row' = IF o = "none" THEN row
                 ELSE [f \in Files |->
                         IF f \in hits
                         THEN [row[f] EXCEPT !.deletionPendingAt = retryBackoffMarker]
                         ELSE row[f]]
  /\ Goto(p, EndOf(p))
  /\ UNCHANGED << now, obj, lateWrite, lateActivate, mark, lastClaim >>

-----------------------------------------------------------------------------
(* The environment: late effects, crashes and the clock.                   *)

landWrite(f) ==
  /\ f \in lateWrite
  /\ now <= LastFault
  /\ obj' = [obj EXCEPT ![f] = TRUE]
  /\ lateWrite' = lateWrite \ {f}
  /\ UNCHANGED << now, row, lateActivate, task, mark, lastClaim, faults >>

landActivation(f) ==
  /\ lateActivate[f] # Null
  /\ row' = IF pendingUploadWhere(row[f], mark[f])
            THEN [row EXCEPT ![f] = Activated(f, row[f], lateActivate[f])] ELSE row
  /\ lateActivate' = [lateActivate EXCEPT ![f] = Null]
  /\ UNCHANGED << now, obj, lateWrite, task, mark, lastClaim, faults >>

\* An instance dies: its uploads and requests are gone, what they had sent to
\* storage or to the database may still be executed.
crash(i) ==
  LET mine     == {p \in Procs : InstanceOf[p] = i}
      busy     == {p \in mine : task[p].pc \notin {"new", "idle", "done", "failed"}}
      writing  == {f \in Files \cap mine : task[f].pc = "write"}
      sendingA == {f \in Files \cap mine : task[f].pc = "activate"}
  IN /\ busy # {}
     /\ now <= LastFault /\ faults < MaxFaults
     /\ faults' = faults + 1
     /\ task' = [p \in Procs |-> IF p \in busy THEN EndOf(p) ELSE task[p]]
     /\ \E ws \in SUBSET writing : lateWrite' = lateWrite \cup ws
     /\ \E as \in SUBSET sendingA :
          lateActivate' = [f \in Files |-> IF f \in as THEN now ELSE lateActivate[f]]
     /\ lastClaim' = [lastClaim EXCEPT ![i] = 0]
     /\ UNCHANGED << now, row, obj, mark >>

\* lastDeletionClaimAt is forgotten once it cannot be nextDeletionClaim's
\* maximum any more.
tick ==
  /\ now + TickMs <= MaxTime
  /\ PromptSweeps => \A f \in Files : ~Sweepable(row[f])
  /\ now' = now + TickMs
  /\ lastClaim' = [i \in Instances |-> IF lastClaim[i] < now' + ClaimLease THEN 0
                                       ELSE lastClaim[i]]
  /\ UNCHANGED << row, obj, lateWrite, lateActivate, task, mark, faults >>

-----------------------------------------------------------------------------

Uploader(f) ==
  \/ saveRow(f) \/ writeObject(f) \/ activatePendingUpload(f)
  \/ confirmedActiveUpload(f) \/ cleanupFailedUpload(f)
  \/ settleRead(f) \/ settleClaim(f)

Request(w) ==
  deleteReferences(w) \/ unsafeSystemPurgeUnusedBefore(w)

Sweep(w) ==
  cleanupExpiredTemporaryFiles(w) \/ retrySelect(w) \/ retryClaim(w)

deleteAndFinalizePendingRows(p) ==
  \/ storageDelete(p) \/ finalizePendingRows(p)
  \/ clearFinalizedDeletionClaim(p) \/ releaseDeletionClaim(p)

Next ==
  \/ \E f \in Files : \/ Uploader(f) \/ landWrite(f) \/ landActivation(f)
                      \/ unsafeSystemRetireUploadTombstone(f)
  \/ \E w \in Workers : Request(w) \/ Sweep(w)
  \/ \E p \in Procs : deleteAndFinalizePendingRows(p)
  \/ \E fs \in SUBSET Files : markUsed(fs)
  \/ \E i \in Instances : crash(i)
  \/ tick

Spec == Init /\ [][Next]_vars

\* Started handlers run on, the maintenance cron keeps sweeping and time
\* passes.  Users, operators and the late effects owe nothing.
Fairness ==
  /\ \A f \in Files : WF_vars(Uploader(f))
  /\ \A w \in Workers : WF_vars(Sweep(w))
  /\ \A p \in Procs : WF_vars(deleteAndFinalizePendingRows(p))
  /\ WF_vars(tick)

FairSpec == Spec /\ Fairness
-----------------------------------------------------------------------------
(* Properties.                                                             *)

Stamps == [ms : Nat, us : Nat]

Rows == [saved : BOOLEAN, uploadPendingAt : Nat, deletionPendingAt : Nat,
         deletedAt : Stamps, isUsed : BOOLEAN, expiredAt : Nat]

Snapshots == [uploadPendingAt : Nat, deletionPendingAt : Nat, deletedAt : Stamps]

Tasks == [pc : WriterPcs \cup WorkerPcs \cup DeletePcs, files : SUBSET Files,
          uploadPendingAt : Nat, claim : Nat, snap : Snapshots, tries : 0..2]

\* Type invariant.  Only temporary files carry an expiry, as the entity's
\* column comment promises.
TypeOK ==
  /\ now \in Nat
  /\ row \in [Files -> Rows]
  /\ obj \in [Files -> BOOLEAN]
  /\ lateWrite \in SUBSET Files
  /\ lateActivate \in [Files -> Nat]
  /\ task \in [Procs -> Tasks]
  /\ mark \in [Files -> Nat]
  /\ lastClaim \in [Instances -> Nat]
  /\ faults \in Nat
  /\ \A f \in Files : row[f].expiredAt # Null => f \in Temps

\* A row that requests can see never lost its bytes: no interleaving of an
\* upload, its late activation, deletions and sweeps deletes the object of a
\* row that is, or later becomes, active.
ActiveHasBytes == \A f \in Files : where(row[f]) => obj[f]

\* Some column of the row still leads maintenance, or a reader, to the object.
Tracked(r) == r.saved /\ (where(r) \/ r.uploadPendingAt # Null \/ r.deletionPendingAt # Null)

\* Bytes in storage always have a row that shows them or that a sweep will
\* find: whatever fails, crashes or arrives late in uploadLegacy, "either no
\* object or durable recovery state" is left.
NoOrphan == \A f \in Files : obj[f] => Tracked(row[f])

Dead(r) == r.deletionPendingAt # Null \/ r.deletedAt # NotDeleted

\* A row that was claimed for deletion or soft-deleted never becomes visible
\* again: not by a late activation UPDATE, nor by the sweeps that restore a
\* soft-deleted row to hidden pending state.
NoResurrection ==
  [][\A f \in Files : Dead(row[f]) => ~where(row[f])']_vars

\* Claims are tokens: two deleters of one row never hold the same one, also
\* when they run in different instances at the same instant or one of them
\* slept through its lease, so that the UPDATE of the one that lost the row
\* can never match.
ClaimsDistinct ==
  \A p, q \in Procs :
    (/\ p # q
     /\ task[p].pc \in DeletePcs /\ task[q].pc \in DeletePcs
     /\ task[p].files \cap task[q].files # {}) => task[p].claim # task[q].claim

\* The stage of a file, as its row shows it.
StageOf(r) ==
  CASE ~r.saved -> "absent"
    [] r.saved /\ where(r) -> "visible"
    [] r.saved /\ ~Tracked(r) -> "forgotten"
    [] r.saved /\ Tracked(r) /\ Dead(r) -> "dead"
    [] OTHER -> "hidden"

StoredFiles == INSTANCE StoredFile WITH
  stage <- [f \in Files |-> StageOf(row[f])],
  stored <- obj

\* The outbox implements the life of a file that its callers rely on: whatever
\* fails, crashes, arrives late or is repeated, no step shows a file without
\* bytes, takes the bytes of one that is shown, brings a dead one back, or drops
\* the last marker of a key that holds bytes.
ImplementsStoredFile == StoredFiles!StoredSpec

Over(f) == task[f].pc \in {"done", "failed"}

\* The bytes of an upload that failed or of a deleted file do not stay: sweeps
\* remove them, even if the producer died and its write landed after an
\* earlier sweep had already soft-deleted the row (unless a late activation
\* UPDATE of a crashed producer makes the file active after all).
BytesReclaimed ==
  \A f \in Files :
    (obj[f] /\ Over(f) /\ ~where(row[f])) ~> (~obj[f] \/ where(row[f]))

\* Every deletion whose upload is settled is brought to its end: soft-deleted
\* and its claim cleared.
DeletionSettles ==
  \A f \in Files :
    (row[f].deletionPendingAt # Null /\ row[f].uploadPendingAt = Null) ~>
    (row[f].deletedAt # NotDeleted /\ row[f].deletionPendingAt = Null)
=============================================================================
