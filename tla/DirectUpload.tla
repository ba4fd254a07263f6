---------------------------- MODULE DirectUpload ----------------------------
(***************************************************************************)
(* The direct upload of one file: initiateManagedUpload, the client's PUT, *)
(* putUploadContent, completeManagedUpload, abortUpload, deleteById on a   *)
(* row in any state, uploadManaged, and every maintenance sweep that may   *)
(* pick the row up, over the S3 or the local driver.  Rows never meet, so  *)
(* one row with its staging object (pendingKey) and its final object (key) *)
(* is modelled; requests and sweeps of several service instances           *)
(* interleave at every await.  A database or storage call may fail without *)
(* effect ("none") or take effect and lose its answer ("lost"), and an     *)
(* instance may crash.                                                     *)
(***************************************************************************)
EXTENDS Integers, FiniteSets

CONSTANTS
  Clients,          \* the processes that serve requests
  Sweepers,         \* the processes that run maintenance
  Instances,        \* service processes
  InstanceOf,       \* the instance a process runs in
  Kind,             \* storage.kind: "s3" or "local"
  Temporary,        \* TRUE: initiateTemporaryUpload
  Versions,         \* contents that pass the verification of HEAD
  UrlTtl,           \* config.uploadUrlTtlSeconds
  ActivationLease,  \* UPLOAD_ACTIVATION_LEASE_MS
  ClaimLease,       \* DELETION_CLAIM_LEASE_MS
  Backoff,          \* DELETION_RETRY_BACKOFF_MS
  TempLife,         \* TEMPORARY_FILE_LIFETIME_MS
  ManagedCalls,     \* {FALSE}: HTTP clients; TRUE \in ManagedCalls: uploadManaged too
  Outlive,          \* TRUE: a completion may take longer than its lease
  PromptSweeps,     \* TRUE: cleanupPendingUploads runs at every clock value
                    \* after LastRequest
  TickMs,           \* milliseconds per step of the clock
  MaxTime,          \* bound: last clock value
  LastRequest,      \* bound: no request or PUT starts after this clock value
  MaxAhead,         \* bound: how far claims run ahead of the clock while
                    \* requests arrive
  MaxFaults         \* bound: injected faults, none after LastRequest

Procs == Clients \cup Sweepers

VARIABLES
  now,        \* Date.now() of every instance
  row,        \* the uploaded_file row
  target,     \* an HTTP client has the upload instructions and the id
  staging,    \* content of the object of pendingKey
  final,      \* content of the object of key
  task,       \* local state of every process
  lastClaim,  \* lastDeletionClaimAt of every instance
  faults

vars == << now, row, target, staging, final, task, lastClaim, faults >>

\* What the values of the constants are taken to satisfy.
ConstantsOK ==
  /\ InstanceOf \in [Procs -> Instances]
  /\ Kind \in {"s3", "local"}
  /\ Temporary \in BOOLEAN
  /\ ManagedCalls \subseteq BOOLEAN
  /\ Versions \cap {0, -1} = {}
  /\ UrlTtl \in Nat /\ ActivationLease \in Nat \ {0} /\ ClaimLease \in Nat
  /\ Backoff \in Nat /\ TempLife \in Nat /\ TickMs \in Nat

-----------------------------------------------------------------------------
(* Rows and objects.  SQL NULL in a time column is 0; the clock starts at  *)
(* 2, so that now - 1 is a time.  An object is NoObject, a version, or     *)
(* Corrupt: bytes whose size, type or checksum is not the declared one.    *)

Null == 0
NoObject == 0
Corrupt == -1
Objects == Versions \cup {NoObject, Corrupt}

NoRow == [saved |-> FALSE, status |-> "pending", uploadExpiredAt |-> Null,
          uploadPendingAt |-> Null, deletionPendingAt |-> Null, deletedAt |-> FALSE,
          pendingKey |-> TRUE, etag |-> NoObject, expiredAt |-> Null]

\* The row that initiateManagedUpload saves.
PendingRow ==
  [NoRow EXCEPT !.saved = TRUE, !.uploadExpiredAt = now + UrlTtl,
                !.uploadPendingAt = now + UrlTtl + ActivationLease]

\* The local driver has no ETags.
Etag(v) == IF Kind = "s3" THEN v ELSE NoObject

\* Mutant of metadataMatches: any object will do.
metadataMatchesAny(v) == v # NoObject

metadataMatches(v) == v \in Versions

lifecycleWhere(r) == r.saved /\ ~r.deletedAt /\ r.deletionPendingAt = Null

\* Mutant of completionIsActive: completions are not leases.
completionIsActiveNever(r) == FALSE

completionIsActive(r) == r.status = "completing" /\ r.uploadPendingAt > now

Elapsed(t) == t # Null /\ t < now

\* The criteria of an UPDATE that expects the markers of a snapshot.
SameMarkers(r, s) ==
  /\ r.saved
  /\ r.deletedAt = s.deletedAt
  /\ r.uploadPendingAt = s.uploadPendingAt
  /\ r.deletionPendingAt = s.deletionPendingAt

Later(S) == CHOOSE t \in S : \A u \in S : u <= t

nextDeletionClaim(p, expected) ==
  Later({now + ClaimLease, lastClaim[InstanceOf[p]] + 1, expected + 1})

retryBackoffMarker == now + Backoff

-----------------------------------------------------------------------------
(* Handlers.  A task is the local state of a suspended async function.     *)

\* completeManagedUpload, from the read of the row on.
CompletionPcs == {"verify", "claim", "headFinal", "promote", "unlink", "recheck",
                  "unstage", "finalize", "confirm", "retryable"}

\* It has claimed the row and has not tried to finalize it.
OwnerPcs == CompletionPcs \ {"verify", "claim", "confirm", "retryable"}

DeletePcs == {"delete", "softDelete", "clear", "release"}

OtherPcs == {"idle", "presign", "cleanup", "settle", "settleClaim", "send", "stream",
             "putRead", "put", "complete", "abortRead", "abortClaim", "managedFailed"}

SweepPcs == {"expireClaim", "retryClaim", "tempClaim", "stagingDelete", "stagingClear"}

Idle == [pc |-> "idle", snap |-> NoRow, marker |-> Null, seen |-> NoObject,
         keys |-> {}, tries |-> 0, managed |-> FALSE]

Goto(p, t) == task' = [task EXCEPT ![p] = t]
At(p, pc) == [task[p] EXCEPT !.pc = pc]

\* Mutant of FailedCall: no rejection reaches the catch block of uploadManaged.
FailedCallUnaborted(t) == IF ~t.managed THEN Idle ELSE [t EXCEPT !.pc = "managedFailed"]

\* A rejected request.  In uploadManaged the rejection reaches the catch block
\* that aborts the upload only where the code awaits: `return
\* this.putUploadContent(..)` and, for the local driver, `return
\* this.completeUpload(..)` leave the try block before they reject.
FailedCall(t) ==
  IF ~t.managed THEN Idle
  ELSE [t EXCEPT !.pc = IF Kind = "s3" \/ t.pc = "stream" THEN "abortRead"
                        ELSE "managedFailed"]

\* uploadManaged rethrows the original error after its abort.
Aborted(t) == IF t.managed THEN [Idle EXCEPT !.pc = "managedFailed", !.managed = TRUE] ELSE Idle

\* A request of a client, or the step pc of uploadManaged.
Requested(p, pc) == \/ p \in Clients /\ task[p] = Idle /\ target /\ now <= LastRequest
                    \/ task[p].pc = pc

Outcomes == {"ok", "none", "lost"}

\* A file system call that fails has done nothing.
StorageOutcomes == IF Kind = "s3" THEN Outcomes ELSE {"ok", "none"}

Charge(o) ==
  IF o = "ok" THEN faults' = faults
  ELSE faults < MaxFaults /\ now <= LastRequest /\ faults' = faults + 1

\* UPDATE ... WHERE criteria: affected = 1, affected = 0, or a rejection.
Update(p, criteria, set, one, zero, err) ==
  \E o \in Outcomes :
    /\ Charge(o)
    /\ row' = IF criteria /\ o # "none" THEN set ELSE row
    /\ Goto(p, IF o # "ok" THEN err ELSE IF criteria THEN one ELSE zero)

UseClaim(p, claim) ==
  /\ now <= LastRequest => claim <= now + ClaimLease + MaxAhead
  /\ lastClaim' = [lastClaim EXCEPT ![InstanceOf[p]] = claim]

\* Mutant of Deleting: only the staging object.
DeletingStaging(t) ==
  [Idle EXCEPT !.pc = "delete", !.marker = t.marker, !.managed = t.managed,
               !.snap.uploadPendingAt = t.snap.uploadPendingAt, !.keys = {"staging"}]

\* The arguments of deleteAndFinalizePendingRows.
Deleting(t) ==
  [Idle EXCEPT !.pc = "delete", !.marker = t.marker, !.managed = t.managed,
               !.snap.uploadPendingAt = t.snap.uploadPendingAt,
               !.keys = {"final"} \cup IF t.snap.pendingKey THEN {"staging"} ELSE {}]

Settling(t) == Deleting([t EXCEPT !.snap.uploadPendingAt = Null])

\* A claim that ends the upload for good.
Failed(r, claim) ==
  [r EXCEPT !.status = "failed", !.uploadPendingAt = Null, !.deletionPendingAt = claim,
            !.deletedAt = FALSE]

Init ==
  /\ now = 2
  /\ row = NoRow
  /\ target = FALSE
  /\ staging = NoObject
  /\ final = NoObject
  /\ task = [p \in Procs |-> Idle]
  /\ lastClaim = [i \in Instances |-> 0]
  /\ faults = 0

Same == UNCHANGED << now, target, staging, final, lastClaim >>

-----------------------------------------------------------------------------
(* initiateManagedUpload and uploadManaged.                                *)

\* The clock is counted from here: tick waits for the row.
initiate(p, managed) ==
  /\ p \in Clients /\ task[p] = Idle /\ ~row.saved
  /\ LET saved == [Idle EXCEPT !.pc = "presign", !.marker = PendingRow.uploadPendingAt,
                               !.managed = managed]
     IN Update(p, TRUE, PendingRow, saved, Idle, Idle)
  /\ Same

\* uploadManaged goes on with the transfer, an HTTP client with the answer.
createUploadUrl(p) ==
  /\ task[p].pc = "presign"
  /\ \/ /\ target' = ~task[p].managed /\ faults' = faults
        /\ \E pc \in IF ~task[p].managed THEN {"idle"}
                     ELSE IF Kind = "s3" THEN {"send"} ELSE {"putRead", "stream"} :
             Goto(p, [Idle EXCEPT !.pc = pc, !.managed = task[p].managed])
     \/ /\ Kind = "s3"
        /\ Charge("none") /\ target' = target
        /\ Goto(p, [At(p, "cleanup") EXCEPT !.managed = FALSE])
  /\ UNCHANGED << now, row, staging, final, lastClaim >>

\* cleanupFailedUpload: the row was saved and never handed out.
cleanupFailedUpload(p) ==
  /\ task[p].pc = "cleanup"
  /\ LET t == task[p]
         claim == nextDeletionClaim(p, t.marker)
     IN /\ UseClaim(p, claim)
        /\ Update(p, lifecycleWhere(row) /\ row.uploadPendingAt = t.marker,
                  [row EXCEPT !.uploadPendingAt = Null, !.deletionPendingAt = claim],
                  Settling([t EXCEPT !.marker = claim]), At(p, "settle"), At(p, "settle"))
  /\ UNCHANGED << now, target, staging, final >>

\* deleteWrittenObjectWhenActivationIsImpossible, the read of an attempt.
settleRead(p) ==
  /\ task[p].pc = "settle"
  /\ \/ LET claim == nextDeletionClaim(p, IF row.deletionPendingAt # Null
                                          THEN row.deletionPendingAt ELSE task[p].marker)
        IN /\ row.uploadPendingAt # Null \/ row.deletionPendingAt # Null \/ row.deletedAt
           /\ UseClaim(p, claim)
           /\ Goto(p, [At(p, "settleClaim") EXCEPT !.snap = row, !.marker = claim])
           /\ faults' = faults
     \/ /\ Charge("none") /\ Goto(p, Idle) /\ lastClaim' = lastClaim
  /\ UNCHANGED << now, row, target, staging, final >>

settleClaim(p) ==
  /\ task[p].pc = "settleClaim"
  /\ LET t == task[p]
     IN Update(p, SameMarkers(row, t.snap),
               [row EXCEPT !.uploadPendingAt = Null, !.deletionPendingAt = t.marker,
                           !.deletedAt = FALSE],
               Settling(t),
               IF t.tries = 2 THEN Idle ELSE [At(p, "settle") EXCEPT !.tries = @ + 1],
               Idle)
  /\ Same

\* The signed PUT of the client; the URL stays usable until it expires.
clientPut ==
  /\ Kind = "s3" /\ target /\ now < row.uploadExpiredAt /\ now <= LastRequest
  /\ staging' \in Versions \cup {Corrupt}
  /\ UNCHANGED << now, row, target, final, task, lastClaim, faults >>

\* uploadManaged over S3: fetch of the signed URL.
managedSend(p) ==
  /\ task[p].pc = "send"
  /\ \E o \in Outcomes, v \in Versions :
       LET signed == now < row.uploadExpiredAt
       IN /\ Charge(o)
          /\ staging' = IF o # "none" /\ signed THEN v ELSE staging
          /\ Goto(p, IF o = "ok" /\ signed THEN At(p, "complete") ELSE FailedCall(task[p]))
  /\ UNCHANGED << now, row, target, final, lastClaim >>

\* The local driver creates files exclusively (flag wx).
putObject(p, contents) ==
  \E o \in StorageOutcomes, v \in contents :
    /\ Charge(o)
    /\ staging' = IF o = "none" \/ staging # NoObject THEN staging ELSE v
    /\ Goto(p, IF o = "ok" /\ staging = NoObject THEN At(p, "complete")
               ELSE FailedCall(task[p]))
    /\ UNCHANGED << now, row, target, final, lastClaim >>

\* uploadManaged of a Readable over the local driver: nothing compares its
\* bytes with the declared size.
managedStream(p) ==
  /\ task[p].pc = "stream"
  /\ \/ lifecycleWhere(row) /\ putObject(p, Versions \cup {Corrupt})
     \/ /\ ~lifecycleWhere(row)
        /\ Goto(p, FailedCall(task[p]))
        /\ UNCHANGED << now, row, target, staging, final, lastClaim, faults >>

\* putUploadContent: the checks of the row, then the write.
putUploadContent(p) ==
  /\ Kind = "local"
  /\ Requested(p, "putRead")
  /\ Goto(p, IF lifecycleWhere(row) /\ row.status = "pending" /\ now < row.uploadExpiredAt
             THEN At(p, "put") ELSE FailedCall(task[p]))
  /\ UNCHANGED << now, row, target, staging, final, lastClaim, faults >>

putContentWrite(p) == task[p].pc = "put" /\ putObject(p, Versions)

-----------------------------------------------------------------------------
(* completeManagedUpload.                                                  *)

Completable(r) ==
  /\ lifecycleWhere(r)
  /\ r.status \in {"pending", "completing"}
  /\ r.pendingKey
  /\ r.status = "pending" => now < r.uploadExpiredAt

\* completeUpload: concurrent calls of one instance share one completion, a
\* ready row is the answer at once.
completeUpload(p) ==
  /\ Requested(p, "complete")
  /\ \A q \in Procs : InstanceOf[q] = InstanceOf[p] => task[q].pc \notin CompletionPcs
  /\ Goto(p, IF Completable(row)
             THEN [At(p, "verify") EXCEPT !.snap = row, !.marker = now + ActivationLease]
             ELSE IF lifecycleWhere(row) /\ row.status = "ready" THEN Idle
             ELSE FailedCall(task[p]))
  /\ UNCHANGED << now, row, target, staging, final, lastClaim, faults >>

\* HEAD of the staging object, and the checks of a row that is completing.
verifyStaging(p) ==
  /\ task[p].pc = "verify"
  /\ LET t == task[p]
         start == t.marker - ActivationLease
         verified == /\ metadataMatches(staging)
                     /\ t.snap.status = "completing" =>
                          /\ t.snap.etag \in {NoObject, Etag(staging)}
                          /\ t.snap.uploadPendingAt <= start
     IN \/ /\ Goto(p, IF verified THEN [At(p, "claim") EXCEPT !.seen = Etag(staging)]
                      ELSE FailedCall(t))
           /\ faults' = faults
        \/ Charge("none") /\ Goto(p, FailedCall(t))
  /\ UNCHANGED << now, row, target, staging, final, lastClaim >>

Completing(r, t) ==
  [r EXCEPT !.status = "completing", !.uploadPendingAt = t.marker,
            !.etag = IF r.etag = NoObject THEN t.seen ELSE r.etag]

claimCriteria(r, s) ==
  /\ lifecycleWhere(r)
  /\ r.status = s.status
  /\ r.uploadPendingAt = s.uploadPendingAt
  /\ r.status = "completing" => r.etag = s.etag

\* A lost claim is answered from a second read: ready, or an error.
claimCompletion(p) ==
  /\ task[p].pc = "claim"
  /\ LET t == task[p]
         lost == IF lifecycleWhere(row) /\ row.status = "ready" THEN Idle ELSE FailedCall(t)
     IN Update(p, claimCriteria(row, t.snap), Completing(row, t),
               [At(p, "headFinal") EXCEPT !.snap = NoRow],
               lost, FailedCall(t))
  /\ Same

\* The final object is the declared one; the local driver still removes its
\* staging file.
Verified(t) ==
  [t EXCEPT !.pc = IF Kind = "local" THEN "unstage" ELSE "finalize", !.seen = Etag(final)]

\* HEAD of the final object, before and after the promotion.
headFinal(p) ==
  /\ task[p].pc \in {"headFinal", "recheck"}
  /\ \/ /\ Goto(p, IF final = NoObject /\ task[p].pc = "headFinal" THEN At(p, "promote")
                   ELSE IF metadataMatches(final) THEN Verified(task[p])
                   ELSE At(p, "retryable"))
        /\ faults' = faults
     \/ Charge("none") /\ Goto(p, At(p, "retryable"))
  /\ UNCHANGED << now, row, target, staging, final, lastClaim >>

\* S3 copies the version that was verified; link creates the final path only.
Promotable(t) ==
  IF Kind = "s3" THEN staging # NoObject /\ staging = t.seen
  ELSE staging # NoObject /\ final = NoObject

promoteObject(p) ==
  /\ task[p].pc = "promote"
  /\ \E o \in StorageOutcomes :
       /\ Charge(o)
       /\ final' = IF o # "none" /\ Promotable(task[p]) THEN staging ELSE final
       /\ Goto(p, IF o = "ok" /\ Promotable(task[p])
                  THEN At(p, IF Kind = "local" THEN "unlink" ELSE "recheck")
                  ELSE At(p, "retryable"))
  /\ UNCHANGED << now, row, target, staging, lastClaim >>

\* The second half of the local promotion.
promoteUnlink(p) ==
  /\ task[p].pc = "unlink"
  /\ \E o \in StorageOutcomes :
       /\ Charge(o)
       /\ staging' = IF o = "none" THEN staging ELSE NoObject
       /\ Goto(p, At(p, IF o = "ok" /\ staging # NoObject THEN "recheck" ELSE "retryable"))
  /\ UNCHANGED << now, row, target, final, lastClaim >>

deleteStaging(p) ==
  /\ task[p].pc = "unstage"
  /\ \E o \in StorageOutcomes :
       /\ Charge(o)
       /\ staging' = IF o = "none" THEN staging ELSE NoObject
       /\ Goto(p, At(p, IF o = "ok" THEN "finalize" ELSE "retryable"))
  /\ UNCHANGED << now, row, target, final, lastClaim >>

\* The exact completion this task claimed.
owns(r, t) ==
  lifecycleWhere(r) /\ r.status = "completing" /\ r.uploadPendingAt = t.marker

\* Mutant of Ready: a temporary file without an expiry.
ReadyForever(r, t) ==
  [r EXCEPT !.status = "ready", !.uploadPendingAt = Null, !.etag = t.seen,
            !.pendingKey = @ /\ Kind = "s3"]

Ready(r, t) ==
  [r EXCEPT !.status = "ready", !.uploadPendingAt = Null, !.etag = t.seen,
            !.expiredAt = IF Temporary THEN now + TempLife ELSE Null,
            !.pendingKey = @ /\ Kind = "s3"]

finalizeCompletion(p) ==
  /\ task[p].pc = "finalize"
  /\ LET t == task[p]
         lost == IF lifecycleWhere(row) /\ row.status = "ready" THEN Idle ELSE FailedCall(t)
     IN Update(p, owns(row, t), Ready(row, t), Idle, lost, At(p, "confirm"))
  /\ Same

\* The UPDATE may have committed although its answer was lost.
confirmCompletion(p) ==
  /\ task[p].pc = "confirm"
  /\ \/ /\ Goto(p, IF lifecycleWhere(row) /\ row.status = "ready" THEN Idle
                   ELSE At(p, "retryable"))
        /\ faults' = faults
     \/ Charge("none") /\ Goto(p, At(p, "retryable"))
  /\ UNCHANGED << now, row, target, staging, final, lastClaim >>

markCompletionRetryable(p) ==
  /\ task[p].pc = "retryable"
  /\ LET t == task[p]
     IN Update(p, owns(row, t), [row EXCEPT !.uploadPendingAt = now - 1],
               FailedCall(t), FailedCall(t), FailedCall(t))
  /\ Same

complete(p) ==
  \/ completeUpload(p) \/ verifyStaging(p) \/ claimCompletion(p) \/ headFinal(p)
  \/ promoteObject(p) \/ promoteUnlink(p) \/ deleteStaging(p) \/ finalizeCompletion(p)
  \/ confirmCompletion(p) \/ markCompletionRetryable(p)

-----------------------------------------------------------------------------
(* abortUpload and deleteById.                                             *)

abortRead(p) ==
  /\ Requested(p, "abortRead")
  /\ IF /\ lifecycleWhere(row)
        /\ row.status \in {"pending", "completing"}
        /\ ~completionIsActive(row)
     THEN LET claim == nextDeletionClaim(p, row.uploadPendingAt)
          IN /\ UseClaim(p, claim)
             /\ Goto(p, [At(p, "abortClaim") EXCEPT !.snap = row, !.marker = claim])
     ELSE Goto(p, Aborted(task[p])) /\ lastClaim' = lastClaim
  /\ UNCHANGED << now, row, target, staging, final, faults >>

\* A call whose abort meets a fault is over as well, but owes nothing more.
abortClaim(p) ==
  /\ task[p].pc = "abortClaim"
  /\ LET t == task[p]
     IN Update(p, /\ lifecycleWhere(row)
                  /\ row.status = t.snap.status
                  /\ row.uploadPendingAt = t.snap.uploadPendingAt,
               Failed(row, t.marker), Settling(t), Aborted(t), Idle)
  /\ Same

\* The read and the guarded UPDATE are one transaction.
deleteById(p) ==
  /\ p \in Clients /\ task[p] = Idle /\ target /\ now <= LastRequest
  /\ lifecycleWhere(row) /\ ~completionIsActive(row)
  /\ LET claim == nextDeletionClaim(p, Null)
         t == [Idle EXCEPT !.snap = row, !.marker = claim]
         claimed == [Failed(row, claim) EXCEPT
                       !.status = IF row.status = "ready" THEN "ready" ELSE "failed"]
     IN UseClaim(p, claim) /\ Update(p, TRUE, claimed, Settling(t), Idle, Idle)
  /\ UNCHANGED << now, target, staging, final >>

-----------------------------------------------------------------------------
(* Maintenance: cleanupPendingUploads and cleanupExpiredTemporaryFiles.    *)

\* Mutant of Expired: completions that were given up are not considered.
ExpiredPending(r) ==
  /\ r.saved /\ r.status = "pending" /\ r.pendingKey
  /\ r.uploadExpiredAt <= now
  /\ r.uploadPendingAt # Null /\ r.uploadPendingAt <= now
  /\ r.deletionPendingAt = Null \/ Elapsed(r.deletionPendingAt)

\* The rows of unsafeSystemCleanupExpiredDirectUploads.
Expired(r) ==
  /\ r.saved /\ r.status \in {"pending", "completing"} /\ r.pendingKey
  /\ r.uploadExpiredAt <= now
  /\ r.uploadPendingAt # Null /\ r.uploadPendingAt <= now
  /\ r.deletionPendingAt = Null \/ Elapsed(r.deletionPendingAt)

\* The rows of unsafeSystemRetryPendingDeletions.
Retryable(r) ==
  /\ r.saved
  /\ \/ r.uploadPendingAt = Null /\ Elapsed(r.deletionPendingAt)
     \/ /\ Elapsed(r.uploadPendingAt)
        /\ r.deletionPendingAt = Null \/ Elapsed(r.deletionPendingAt)

\* The rows of unsafeSystemCleanupCompletedStaging.
Staged(r) ==
  lifecycleWhere(r) /\ r.status = "ready" /\ r.pendingKey /\ r.uploadExpiredAt <= now

\* The rows of cleanupExpiredTemporaryFiles.
Lapsed(r) ==
  /\ lifecycleWhere(r) /\ r.status = "ready" /\ r.uploadPendingAt = Null
  /\ Temporary /\ r.expiredAt # Null /\ r.expiredAt <= now

\* A SELECT and the claim of the row it found.
Select(p, pc, expected) ==
  LET claim == nextDeletionClaim(p, expected)
  IN /\ UseClaim(p, claim)
     /\ Goto(p, [Idle EXCEPT !.pc = pc, !.snap = row, !.marker = claim])
     /\ UNCHANGED << now, row, target, staging, final, faults >>

unsafeSystemCleanupExpiredDirectUploads(p) ==
  \/ /\ task[p] = Idle /\ Expired(row)
     /\ Select(p, "expireClaim", IF row.deletionPendingAt # Null
                                 THEN row.deletionPendingAt ELSE row.uploadPendingAt)
  \/ /\ task[p].pc = "expireClaim"
     /\ LET t == task[p]
        IN Update(p, SameMarkers(row, t.snap) /\ row.status = t.snap.status,
                  Failed(row, t.marker), Settling(t), Idle, Idle)
     /\ Same

\* cleanupPendingUploads calls it after the sweep of expired uploads; it is
\* public, so by itself it may come first.
unsafeSystemRetryPendingDeletions(p) ==
  \/ /\ task[p] = Idle /\ Retryable(row) /\ (PromptSweeps => ~Expired(row))
     /\ Select(p, "retryClaim", IF row.deletionPendingAt # Null
                                THEN row.deletionPendingAt ELSE row.uploadPendingAt)
  \/ /\ task[p].pc = "retryClaim"
     /\ LET t == task[p]
        IN Update(p, SameMarkers(row, t.snap),
                  [row EXCEPT !.deletionPendingAt = t.marker, !.deletedAt = FALSE],
                  Deleting(t), Idle, Idle)
     /\ Same

cleanupExpiredTemporaryFiles(p) ==
  \/ task[p] = Idle /\ Lapsed(row) /\ Select(p, "tempClaim", row.expiredAt)
  \/ /\ task[p].pc = "tempClaim"
     /\ LET t == task[p]
        IN Update(p, /\ lifecycleWhere(row) /\ row.status = "ready"
                     /\ row.uploadPendingAt = Null /\ row.expiredAt = t.snap.expiredAt,
                  [row EXCEPT !.deletionPendingAt = t.marker], Settling(t), Idle, Idle)
     /\ Same

unsafeSystemCleanupCompletedStaging(p) ==
  \/ /\ task[p] = Idle /\ Staged(row)
     /\ Goto(p, [Idle EXCEPT !.pc = "stagingDelete"])
     /\ UNCHANGED << now, row, target, staging, final, lastClaim, faults >>
  \/ /\ task[p].pc = "stagingDelete"
     /\ \E o \in StorageOutcomes :
          /\ Charge(o)
          /\ staging' = IF o = "none" THEN staging ELSE NoObject
          /\ Goto(p, IF o = "ok" THEN At(p, "stagingClear") ELSE Idle)
     /\ UNCHANGED << now, row, target, final, lastClaim >>
  \/ /\ task[p].pc = "stagingClear"
     /\ Update(p, lifecycleWhere(row) /\ row.status = "ready" /\ row.pendingKey,
               [row EXCEPT !.pendingKey = FALSE], Idle, Idle, Idle)
     /\ Same

Sweep(p) ==
  \/ unsafeSystemCleanupExpiredDirectUploads(p)
  \/ unsafeSystemCleanupCompletedStaging(p)
  \/ unsafeSystemRetryPendingDeletions(p)
  \/ cleanupExpiredTemporaryFiles(p)

-----------------------------------------------------------------------------
(* deleteAndFinalizePendingRows.                                           *)

\* The two objects are deleted independently.
storageDelete(p) ==
  /\ task[p].pc = "delete"
  /\ \E k \in task[p].keys, o \in StorageOutcomes :
       /\ Charge(o)
       /\ final' = IF k = "final" /\ o # "none" THEN NoObject ELSE final
       /\ staging' = IF k = "staging" /\ o # "none" THEN NoObject ELSE staging
       /\ Goto(p, IF o # "ok" THEN At(p, "release")
                  ELSE [task[p] EXCEPT !.keys = @ \ {k},
                          !.pc = IF task[p].keys = {k} THEN "softDelete" ELSE "delete"])
  /\ UNCHANGED << now, row, target, lastClaim >>

pendingDeletionWhere(r, t) ==
  /\ ~r.deletedAt
  /\ r.uploadPendingAt = t.snap.uploadPendingAt
  /\ r.deletionPendingAt = t.marker

\* An unresolved upload keeps its claim after the soft delete.
finalizePendingRows(p) ==
  /\ task[p].pc = "softDelete"
  /\ LET t == task[p]
     IN Update(p, pendingDeletionWhere(row, t), [row EXCEPT !.deletedAt = TRUE],
               IF t.snap.uploadPendingAt = Null THEN At(p, "clear") ELSE Aborted(t),
               At(p, "release"), At(p, "release"))
  /\ Same

clearFinalizedDeletionClaim(p) ==
  /\ task[p].pc = "clear"
  /\ LET t == task[p]
     IN Update(p, /\ row.deletedAt /\ row.uploadPendingAt = Null
                  /\ row.deletionPendingAt = t.marker,
               [row EXCEPT !.deletionPendingAt = Null], Aborted(t), Aborted(t), Aborted(t))
  /\ Same

releaseDeletionClaim(p) ==
  /\ task[p].pc = "release"
  /\ LET t == task[p]
     IN Update(p, pendingDeletionWhere(row, t),
               [row EXCEPT !.deletionPendingAt = retryBackoffMarker],
               Aborted(t), Aborted(t), Aborted(t))
  /\ Same

deleteAndFinalizePendingRows(p) ==
  storageDelete(p) \/ finalizePendingRows(p) \/ clearFinalizedDeletionClaim(p)
  \/ releaseDeletionClaim(p)

-----------------------------------------------------------------------------

crash(i) ==
  /\ Charge("none")
  /\ \E p \in Procs : InstanceOf[p] = i /\ task[p] # Idle
  /\ task' = [p \in Procs |-> IF InstanceOf[p] = i THEN Idle ELSE task[p]]
  /\ lastClaim' = [lastClaim EXCEPT ![i] = 0]
  /\ UNCHANGED << now, row, target, staging, final >>

Eligible == Expired(row) \/ Retryable(row) \/ Staged(row) \/ Lapsed(row)

tick ==
  /\ now < MaxTime /\ row.saved
  /\ ~Outlive => \A p \in Procs :
                   task[p].pc \in CompletionPcs => now + TickMs < task[p].marker
  /\ PromptSweeps /\ now > LastRequest =>
       ~Eligible /\ \A p \in Procs : task[p].pc \notin DeletePcs \cup SweepPcs
  /\ now' = now + TickMs
  /\ UNCHANGED << row, target, staging, final, task, lastClaim, faults >>

\* A request that a client or uploadManaged has begun runs on by itself.
Handler(p) ==
  \/ createUploadUrl(p) \/ cleanupFailedUpload(p) \/ settleRead(p) \/ settleClaim(p)
  \/ managedSend(p) \/ managedStream(p) \/ putUploadContent(p) \/ putContentWrite(p)
  \/ complete(p) \/ abortRead(p) \/ abortClaim(p) \/ deleteAndFinalizePendingRows(p)

Next ==
  \/ \E p \in Procs :
       \/ \E managed \in ManagedCalls : initiate(p, managed)
       \/ Handler(p) \/ deleteById(p)
  \/ \E p \in Sweepers : Sweep(p)
  \/ clientPut
  \/ \E i \in Instances : crash(i)
  \/ tick

Spec == Init /\ [][Next]_vars

\* The next step of a request that is being served.
Running(p) == task[p] # Idle /\ Handler(p)

-----------------------------------------------------------------------------
(* Properties.                                                             *)

Times == Nat

Rows == [saved : BOOLEAN, status : {"pending", "completing", "ready", "failed"},
         uploadExpiredAt : Times, uploadPendingAt : Times, deletionPendingAt : Times,
         deletedAt : BOOLEAN, pendingKey : BOOLEAN, etag : Objects,
         expiredAt : Times]

\* Type invariant.  Exactly a temporary file that is ready carries an expiry,
\* as the entity's column comment and the 24-hour rule promise.
TypeOK ==
  /\ now \in Nat
  /\ row \in Rows
  /\ target \in BOOLEAN
  /\ staging \in Objects
  /\ final \in Objects
  /\ \A p \in Procs :
       /\ task[p].pc \in CompletionPcs \cup DeletePcs \cup SweepPcs \cup OtherPcs
       /\ task[p].snap \in Rows
       /\ task[p].marker \in Times
       /\ task[p].seen \in Objects
       /\ task[p].keys \subseteq {"final", "staging"}
       /\ task[p].managed \in BOOLEAN
  /\ lastClaim \in [Instances -> Nat]
  /\ faults \in Nat
  /\ (row.status = "ready" /\ Temporary) <=> row.expiredAt # Null

Visible(r) == lifecycleWhere(r) /\ r.status = "ready"

\* A file that reads can see has the bytes that completion verified: not an
\* overwritten staging object, not none, whatever the client PUTs again and
\* however many completions, aborts and sweeps race ("replaying the staging
\* PUT cannot overwrite the ready final object").
ReadyIsVerified ==
  Visible(row) => final \in Versions /\ (Kind = "s3" => final = row.etag)

\* A running completion keeps its row for the whole of its lease: neither
\* abortUpload, deleteById, another completion nor a sweep takes it.
ActiveCompletionKept ==
  \A p \in Procs :
    (task[p].pc \in OwnerPcs /\ task[p].marker > now) => owns(row, task[p])

\* Some column of the row still leads a reader or a sweep to its objects.
Tracked(r) == r.saved /\ (lifecycleWhere(r) \/ r.uploadPendingAt # Null
                          \/ r.deletionPendingAt # Null)

\* Promoted bytes always have a row that shows them or that a sweep will find.
NoOrphanFinal == final # NoObject => Tracked(row)

\* The end of an upload: the file is ready and its staging object reclaimed, or
\* the row is soft-deleted with no marker left and no promoted bytes.
Settled ==
  row.saved =>
     \/ Visible(row) /\ ~row.pendingKey /\ staging = NoObject
     \/ /\ row.deletedAt /\ row.uploadPendingAt = Null /\ row.deletionPendingAt = Null
        /\ final = NoObject

\* When uploadManaged has failed and its abort met no fault, the upload is not
\* left pending.
ManagedFailureAborted ==
  \A p \in Procs :
    task[p].pc = "managedFailed" => ~(lifecycleWhere(row) /\ row.status = "pending")

\* What completions may rely on.  (A failed local putUploadContent is not
\* awaited where uploadManaged would abort it.)
CompletionsRespected == ActiveCompletionKept /\ (Kind = "s3" => ManagedFailureAborted)
=============================================================================
