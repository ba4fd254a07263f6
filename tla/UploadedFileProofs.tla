------------------------- MODULE UploadedFileProofs -------------------------
(***************************************************************************)
(* Theorems about UploadedFile for every set of files, workers and service *)
(* instances, all lease lengths and any number of faults.                  *)
(***************************************************************************)
EXTENDS UploadedFile, TLAPS

-----------------------------------------------------------------------------
(* The inductive invariant.  ActiveHasBytes and NoOrphan are not inductive *)
(* as they stand: they need that a deleter's rows are claimed or soft-     *)
(* deleted for good (Deleter), that an activation can only be under way    *)
(* for written bytes (Landed), that a write can only be under way for a    *)
(* row with its upload marker (Writing), and that a deleter that will drop *)
(* the last marker has really emptied the key (Emptied).                   *)

\* A row exists from saveRow on, with markers after the clock's origin.
Born(f) ==
  /\ ~row[f].saved => /\ row[f].uploadPendingAt = Null
                      /\ ~Dead(row[f])
                      /\ ~obj[f]
  /\ task[f].pc = "new" => ~row[f].saved /\ lateActivate[f] = Null /\ f \notin lateWrite
  /\ task[f].pc \in {"write", "activate"} \/ f \in lateWrite => row[f].saved
  /\ row[f].saved => mark[f] > 1
  /\ row[f].uploadPendingAt # Null =>
       row[f].uploadPendingAt > 1 /\ row[f].deletionPendingAt # 1

\* The part of the invariant that both main theorems share.
Base == TypeOK /\ now > 0 /\ \A f \in Files : Born(f)

\* The rows a deleter works on stay claimed or soft-deleted, whoever owns them.
Deleter(p) ==
  task[p].pc \in DeletePcs => \A f \in task[p].files : Dead(row[f])

\* An activation that may still be executed, or was, is of bytes that exist or of
\* a row that is dead and therefore out of its reach.
Landed(f) ==
  row[f].saved /\ (row[f].uploadPendingAt = Null \/ task[f].pc = "activate"
                    \/ lateActivate[f] # Null) => obj[f] \/ Dead(row[f])

\* The inductive invariant behind ActiveHasBytes and NoResurrection.
BytesInv == Base /\ (\A p \in Procs : Deleter(p)) /\ (\A f \in Files : Landed(f))

\* As long as bytes may still arrive the row keeps its uploadPendingAt.
Writing(f) ==
  /\ task[f].pc = "write" \/ f \in lateWrite =>
       row[f].uploadPendingAt # Null /\ lateActivate[f] = Null
  /\ f \in lateWrite => task[f].pc = "failed"

\* A deleter that is going to drop the last marker has emptied the key, and no
\* write can fill it again.
Emptied(p) ==
  /\ task[p].pc = "clear" => task[p].uploadPendingAt = Null
  /\ task[p].pc \in DeletePcs /\ task[p].uploadPendingAt = Null =>
       \A f \in task[p].files :
         /\ row[f].uploadPendingAt = Null
         /\ task[p].pc \in {"finalize", "clear"} => ~obj[f]

\* The inductive invariant behind NoOrphan.
OrphanInv ==
  /\ BytesInv
  /\ \A f \in Files : Writing(f)
  /\ \A p \in Procs : Emptied(p)
  /\ NoOrphan

-----------------------------------------------------------------------------
(* Types.                                                                  *)

\* What nextDeletionClaim returns is a marker, beyond the present.
LEMMA ClaimType ==
  ASSUME TypeOK, NEW p \in Procs, NEW e \in Nat
  PROVE  /\ nextDeletionClaim(InstanceOf[p], e) \in Nat
         /\ nextDeletionClaim(InstanceOf[p], e) > now
BY ProcsAssumption, TimingAssumption DEF TypeOK, nextDeletionClaim, Later

\* The row updates of the service keep the columns' types.
LEMMA RowTypes ==
  ASSUME NEW r \in Rows, NEW c \in Nat, NEW f \in Files
  PROVE  /\ Claimed(r, c) \in Rows
         /\ Settled(r, c) \in Rows
         /\ Activated(f, r, c) \in Rows
         /\ Claimed(r, c).expiredAt = r.expiredAt
         /\ Settled(r, c).expiredAt = r.expiredAt
         /\ Activated(f, r, c).expiredAt # Null => f \in Temps \/ r.expiredAt # Null
<1>1. NotDeleted \in Stamps
  BY DEF NotDeleted, Stamps
<1>2. c + TempLife \in Nat
  BY TimingAssumption
<1> QED
  BY <1>1, <1>2 DEF Claimed, Settled, Activated, Rows, Null

\* The local states that uploaders, requests and sweeps enter are well typed.
LEMMA TaskTypes ==
  /\ \A pc \in WriterPcs \cup WorkerPcs \cup DeletePcs : Task(pc) \in Tasks
  /\ \A fs \in SUBSET Files, m \in Nat, c \in Nat : Deleting(fs, m, c) \in Tasks
  /\ \A r \in Rows : Snapshot(r) \in Snapshots
  /\ \A p : EndOf(p) \in Tasks
<1>1. NoSnapshot \in Snapshots
  BY DEF NoSnapshot, Snapshot, Snapshots, NoRow, AsDate, NotDeleted, Stamps, Null
<1>2. \A r \in Rows : Snapshot(r) \in Snapshots
  BY DEF Snapshot, Snapshots, AsDate, Rows, Stamps
<1>3. \A pc \in WriterPcs \cup WorkerPcs \cup DeletePcs : Task(pc) \in Tasks
  BY <1>1 DEF Task, Tasks, Null
<1>4. Task("storage") \in Tasks /\ Task("failed") \in Tasks /\ Task("idle") \in Tasks
  BY <1>3 DEF WriterPcs, WorkerPcs, DeletePcs
<1>5. \A fs \in SUBSET Files, m \in Nat, c \in Nat : Deleting(fs, m, c) \in Tasks
  BY <1>4 DEF Deleting, Tasks
<1> QED
  BY <1>2, <1>3, <1>4, <1>5 DEF EndOf

\* An empty table and idle processes are well typed.
LEMMA InitType == Init => TypeOK
<1> SUFFICES ASSUME Init PROVE TypeOK
  OBVIOUS
<1>1. NoRow \in Rows /\ NoRow.expiredAt = Null
  BY DEF NoRow, Rows, NotDeleted, Stamps, Null
<1>2. Task("new") \in Tasks /\ Task("idle") \in Tasks
  BY TaskTypes DEF WriterPcs, WorkerPcs
<1> QED
  BY <1>1, <1>2 DEF Init, TypeOK, Null

\* Answered, lost and refused calls leave a well-typed fault count.
LEMMA ChargeType == ASSUME TypeOK, NEW o \in Outcomes, Charge(o) PROVE faults' \in Nat
BY DEF TypeOK, Charge

\* What clearing and rescheduling UPDATEs of the deletion outbox and markUsed
\* write keeps the columns' types.
LEMMA ColumnTypes ==
  ASSUME NEW r \in Rows
  PROVE  /\ \A c \in Nat : [r EXCEPT !.deletionPendingAt = c] \in Rows
         /\ \A c \in Nat : [r EXCEPT !.deletionPendingAt = c].expiredAt = r.expiredAt
         /\ \A d \in Stamps : [r EXCEPT !.deletedAt = d] \in Rows
         /\ \A d \in Stamps : [r EXCEPT !.deletedAt = d].expiredAt = r.expiredAt
         /\ [r EXCEPT !.isUsed = TRUE] \in Rows
         /\ [r EXCEPT !.isUsed = TRUE].expiredAt = r.expiredAt
BY DEF Rows

\* Every statement, storage call, crash and clock step keeps the types, and only
\* the activation of a temporary file writes expiredAt.
LEMMA TypeStep == TypeOK /\ [Next]_vars => TypeOK'
<1> SUFFICES ASSUME TypeOK, [Next]_vars PROVE TypeOK'
  OBVIOUS
<1> USE ProcsAssumption, TimingAssumption, OptionsAssumption DEF Procs, Goto
<1>a. \A o \in Outcomes : Charge(o) => faults' \in Nat
  BY ChargeType
<1>b. now \in Nat /\ \A f \in Files : row[f] \in Rows /\ mark[f] \in Nat
  BY DEF TypeOK
<1>c. \A f \in Files, c \in Nat :
        /\ Claimed(row[f], c) \in Rows
        /\ Settled(row[f], c) \in Rows
        /\ Activated(f, row[f], c) \in Rows
        /\ Claimed(row[f], c).expiredAt = row[f].expiredAt
        /\ Settled(row[f], c).expiredAt = row[f].expiredAt
        /\ Activated(f, row[f], c).expiredAt # Null => f \in Temps
  BY <1>b, RowTypes DEF TypeOK
<1>d. \A p \in Procs, e \in Nat : nextDeletionClaim(InstanceOf[p], e) \in Nat
  BY ClaimType
<1>e. \A p \in Procs, c \in Nat, b \in BOOLEAN :
        UseClaim(p, c, b) => lastClaim' \in [Instances -> Nat]
  BY DEF UseClaim, TypeOK
<1>f. \A p \in Procs : task[p] \in Tasks /\ task[p].snap \in Snapshots
                       /\ task[p].files \subseteq Files
  BY DEF TypeOK, Tasks
<1>g. \A p \in Procs, pc \in DeletePcs : [task[p] EXCEPT !.pc = pc] \in Tasks
  BY <1>f DEF Tasks
<1> DEFINE RowOK == /\ row' \in [Files -> Rows]
                    /\ \A f \in Files : row'[f].expiredAt # Null => f \in Temps
<1>h. \A t \in Tasks, p \in Procs : task' = [task EXCEPT ![p] = t] => task' \in [Procs -> Tasks]
  BY DEF TypeOK
<1>i. row' = row => RowOK
  BY DEF TypeOK
<1>j. \A f \in Files, r \in Rows :
        (r.expiredAt # Null => f \in Temps) /\ row' = [row EXCEPT ![f] = r] => RowOK
  BY DEF TypeOK
<1> HIDE DEF RowOK
<1>k. \A f \in Files, c \in Nat :
        /\ row' = [row EXCEPT ![f] = Claimed(row[f], c)] => RowOK
        /\ row' = [row EXCEPT ![f] = Settled(row[f], c)] => RowOK
        /\ row' = [row EXCEPT ![f] = Activated(f, row[f], c)] => RowOK
  <2>1. \A f \in Files, c \in Nat :
          /\ Claimed(row[f], c).expiredAt # Null => f \in Temps
          /\ Settled(row[f], c).expiredAt # Null => f \in Temps
    BY <1>c DEF TypeOK
  <2> QED
    BY <1>c, <1>j, <2>1
<1>1. ASSUME NEW f \in Files, saveRow(f) PROVE TypeOK'
  <2>1. PendingRow(now + ActivationLease) \in Rows
        /\ PendingRow(now + ActivationLease).expiredAt = Null
    BY <1>b DEF PendingRow, Rows, NotDeleted, Stamps, Null
  <2>2. Task("write") \in Tasks /\ Task("failed") \in Tasks
    BY TaskTypes DEF WriterPcs
  <2>3. RowOK
    BY <1>1, <1>i, <1>j, <2>1 DEF saveRow
  <2>4. faults' \in Nat /\ task' \in [Procs -> Tasks]
    BY <1>1, <1>a, <1>h, <2>2 DEF saveRow
  <2> QED
    BY <1>1, <2>3, <2>4 DEF RowOK, saveRow, TypeOK
<1>2. ASSUME NEW f \in Files, writeObject(f) PROVE TypeOK'
  <2>1. Task("activate") \in Tasks /\ Task("cleanup") \in Tasks
    BY TaskTypes DEF WriterPcs
  <2> QED
    BY <1>2, <1>a, <2>1 DEF writeObject, TypeOK
<1>3. ASSUME NEW f \in Files, activatePendingUpload(f) PROVE TypeOK'
  <2>1. Task("done") \in Tasks /\ Task("confirm") \in Tasks
    BY TaskTypes DEF WriterPcs
  <2>2. RowOK
    BY <1>3, <1>b, <1>i, <1>k DEF activatePendingUpload
  <2>3. faults' \in Nat /\ task' \in [Procs -> Tasks]
    BY <1>3, <1>a, <1>h, <2>1 DEF activatePendingUpload
  <2>4. lateActivate' \in [Files -> Nat]
    BY <1>3 DEF activatePendingUpload, TypeOK
  <2> QED
    BY <1>3, <2>2, <2>3, <2>4 DEF RowOK, activatePendingUpload, TypeOK
<1>4. ASSUME NEW f \in Files, confirmedActiveUpload(f) PROVE TypeOK'
  <2>1. Task("done") \in Tasks /\ Task("cleanup") \in Tasks
    BY TaskTypes DEF WriterPcs
  <2> QED
    BY <1>4, <1>a, <2>1 DEF confirmedActiveUpload, Outcomes, TypeOK
<1>5. ASSUME NEW f \in Files, cleanupFailedUpload(f) PROVE TypeOK'
  <2> DEFINE claim == nextDeletionClaim(InstanceOf[f], mark[f])
  <2>1. Task("settle") \in Tasks /\ Deleting({f}, Null, claim) \in Tasks /\ claim \in Nat
    BY <1>b, <1>d, TaskTypes DEF WriterPcs, Null
  <2>2. PICK o \in Outcomes :
          /\ Charge(o)
          /\ UseClaim(f, claim, pendingUploadWhere(row[f], mark[f]) /\ o # "none")
          /\ row' = row \/ row' = [row EXCEPT ![f] = Settled(row[f], claim)]
          /\ task' = [task EXCEPT ![f] = Deleting({f}, Null, claim)]
             \/ task' = [task EXCEPT ![f] = Task("settle")]
    BY <1>5 DEF cleanupFailedUpload
  <2> HIDE DEF claim
  <2>5. RowOK
    BY <1>i, <1>k, <2>1, <2>2
  <2>6. faults' \in Nat /\ task' \in [Procs -> Tasks] /\ lastClaim' \in [Instances -> Nat]
    BY <1>a, <1>e, <1>h, <2>1, <2>2
  <2> QED
    BY <1>5, <2>5, <2>6 DEF RowOK, cleanupFailedUpload, TypeOK
<1>6. ASSUME NEW f \in Files, settleRead(f) PROVE TypeOK'
  <2>1. Task("failed") \in Tasks
        /\ [Task("settleClaim") EXCEPT !.snap = Snapshot(row[f]),
                                        !.tries = task[f].tries] \in Tasks
    <3>1. Task("settleClaim") \in Tasks /\ Task("failed") \in Tasks /\ Snapshot(row[f]) \in Snapshots
      BY <1>b, TaskTypes DEF WriterPcs
    <3> QED
      BY <3>1, <1>f DEF Tasks
  <2> QED
    BY <1>6, <1>a, <2>1 DEF settleRead, Outcomes, TypeOK
<1>7. ASSUME NEW f \in Files, settleClaim(f) PROVE TypeOK'
  <2> DEFINE claim == nextDeletionClaim(InstanceOf[f],
                        IF task[f].snap.deletionPendingAt # Null
                        THEN task[f].snap.deletionPendingAt ELSE mark[f])
             again == [Task("settle") EXCEPT !.tries = task[f].tries + 1]
  <2>1. claim \in Nat
    BY <1>b, <1>d, <1>f DEF Snapshots
  <2>2. Task("failed") \in Tasks /\ Deleting({f}, Null, claim) \in Tasks
    BY <2>1, TaskTypes DEF WriterPcs, Null
  <2>3. task[f].tries < 2 => again \in Tasks
    <3>1. Task("settle") \in Tasks /\ task[f].tries \in 0..2
      BY <1>f, TaskTypes DEF WriterPcs, Tasks
    <3> QED
      BY <3>1 DEF Tasks
  <2>4. PICK o \in Outcomes :
          /\ Charge(o)
          /\ UseClaim(f, claim, SameMarkers(row[f], task[f].snap) /\ o # "none")
          /\ row' = row \/ row' = [row EXCEPT ![f] = Settled(row[f], claim)]
          /\ \/ task' = [task EXCEPT ![f] = Deleting({f}, Null, claim)]
             \/ task' = [task EXCEPT ![f] = Task("failed")]
             \/ task[f].tries < 2 /\ task' = [task EXCEPT ![f] = again]
    BY <1>7 DEF settleClaim
  <2> HIDE DEF claim, again
  <2>5. RowOK
    BY <1>i, <1>k, <2>1, <2>2, <2>3, <2>4
  <2>6. faults' \in Nat /\ task' \in [Procs -> Tasks] /\ lastClaim' \in [Instances -> Nat]
    BY <1>a, <1>e, <1>h, <2>1, <2>2, <2>3, <2>4
  <2> QED
    BY <1>7, <2>5, <2>6 DEF RowOK, settleClaim, TypeOK
<1>8. ASSUME NEW w \in Workers, NEW fs \in SUBSET Files, NEW e \in Nat, ClaimActive(w, fs, e)
      PROVE  TypeOK'
  <2> DEFINE claim == nextDeletionClaim(InstanceOf[w], e)
  <2>1. claim \in Nat /\ Task("idle") \in Tasks /\ Deleting(fs, Null, claim) \in Tasks
    BY <1>d, TaskTypes DEF WorkerPcs, Null
  <2>2. PICK o \in Outcomes :
          /\ Charge(o)
          /\ UseClaim(w, claim, o # "none")
          /\ \/ row' = row
             \/ row' = [f \in Files |-> IF f \in fs THEN Claimed(row[f], claim) ELSE row[f]]
          /\ \/ task' = [task EXCEPT ![w] = Deleting(fs, Null, claim)]
             \/ task' = [task EXCEPT ![w] = Task("idle")]
    BY <1>8 DEF ClaimActive
  <2> HIDE DEF claim
  <2>5. RowOK
    <3>1. CASE row' = row
      BY <3>1, <1>i
    <3>2. CASE row' = [f \in Files |-> IF f \in fs THEN Claimed(row[f], claim) ELSE row[f]]
      <4>1. \A f \in Files : /\ Claimed(row[f], claim) \in Rows
                             /\ Claimed(row[f], claim).expiredAt = row[f].expiredAt
        BY <1>c, <2>1
      <4> QED
        BY <3>2, <4>1, <1>b DEF RowOK, TypeOK
    <3> QED
      BY <3>1, <3>2, <2>2
  <2>6. faults' \in Nat /\ task' \in [Procs -> Tasks] /\ lastClaim' \in [Instances -> Nat]
    BY <1>a, <1>e, <1>h, <2>1, <2>2
  <2> QED
    BY <1>8, <2>5, <2>6 DEF RowOK, ClaimActive, TypeOK
<1>9. ASSUME NEW w \in Workers, Request(w) PROVE TypeOK'
  BY <1>8, <1>9 DEF Request, deleteReferences, unsafeSystemPurgeUnusedBefore, Null
<1>10. ASSUME NEW w \in Workers, cleanupExpiredTemporaryFiles(w) PROVE TypeOK'
  <2>1. PICK f \in Temps : ClaimActive(w, {f}, row[f].expiredAt)
    BY <1>10 DEF cleanupExpiredTemporaryFiles
  <2>2. row[f].expiredAt \in Nat /\ {f} \in SUBSET Files
    BY <1>b DEF Rows
  <2> QED
    BY <2>1, <2>2, <1>8
<1>11. ASSUME NEW w \in Workers, retrySelect(w) PROVE TypeOK'
  <2>1. PICK f \in Files :
          Goto(w, [Task("retryClaim") EXCEPT !.files = {f}, !.snap = Snapshot(row[f])])
    BY <1>11 DEF retrySelect
  <2>2. Task("retryClaim") \in Tasks /\ Snapshot(row[f]) \in Snapshots
    BY <1>b, TaskTypes DEF WorkerPcs
  <2>3. [Task("retryClaim") EXCEPT !.files = {f}, !.snap = Snapshot(row[f])] \in Tasks
    BY <2>2 DEF Tasks
  <2> QED
    BY <1>11, <2>1, <2>3 DEF retrySelect, TypeOK
<1>12. ASSUME NEW w \in Workers, retryClaim(w) PROVE TypeOK'
  <2> DEFINE snap  == task[w].snap
             claim == nextDeletionClaim(InstanceOf[w],
                        IF snap.deletionPendingAt # Null
                        THEN snap.deletionPendingAt ELSE snap.uploadPendingAt)
  <2>1. claim \in Nat /\ snap.uploadPendingAt \in Nat
    BY <1>d, <1>f DEF Snapshots
  <2>2. PICK f \in task[w].files, o \in Outcomes :
          /\ Charge(o)
          /\ UseClaim(w, claim, SameMarkers(row[f], snap) /\ o # "none")
          /\ row' = row \/ row' = [row EXCEPT ![f] = Claimed(row[f], claim)]
          /\ \/ task' = [task EXCEPT ![w] = Deleting({f}, snap.uploadPendingAt, claim)]
             \/ task' = [task EXCEPT ![w] = Task("idle")]
    BY <1>12 DEF retryClaim
  <2>3. f \in Files /\ Task("idle") \in Tasks
        /\ Deleting({f}, snap.uploadPendingAt, claim) \in Tasks
    BY <1>f, <2>1, TaskTypes DEF WorkerPcs
  <2> HIDE DEF claim, snap
  <2>5. RowOK
    BY <1>i, <1>k, <2>1, <2>2, <2>3
  <2>6. faults' \in Nat /\ task' \in [Procs -> Tasks] /\ lastClaim' \in [Instances -> Nat]
    BY <1>a, <1>e, <1>h, <2>1, <2>2, <2>3
  <2> QED
    BY <1>12, <2>5, <2>6 DEF RowOK, retryClaim, TypeOK
<1>13. ASSUME NEW f \in Files, unsafeSystemRetireUploadTombstone(f) PROVE TypeOK'
  <2> DEFINE x == IF row[f].deletionPendingAt # Null THEN row[f].deletionPendingAt
                  ELSE row[f].uploadPendingAt
  <2>1. x \in Nat /\ x # 0 /\ x < now
    BY <1>13, <1>b DEF unsafeSystemRetireUploadTombstone, Elapsed, Null, Rows
  <2>2. immediateRetryMarkerFor(x) \in Nat
    BY <2>1, <1>b DEF immediateRetryMarkerFor
  <2>3. row' = [row EXCEPT ![f] = Settled(row[f], immediateRetryMarkerFor(x))]
    BY <1>13 DEF unsafeSystemRetireUploadTombstone
  <2> HIDE DEF x
  <2> QED
    BY <1>13, <1>c, <2>2, <2>3 DEF unsafeSystemRetireUploadTombstone, TypeOK
<1>14. ASSUME NEW p \in Procs, storageDelete(p) PROVE TypeOK'
  <2>1. [task[p] EXCEPT !.pc = "finalize"] \in Tasks /\ [task[p] EXCEPT !.pc = "release"] \in Tasks
    BY <1>g DEF DeletePcs
  <2>2. faults' \in Nat /\ task' \in [Procs -> Tasks]
    BY <1>14, <1>a, <1>h, <2>1 DEF storageDelete, Outcomes
  <2>3. obj' \in [Files -> BOOLEAN]
    BY <1>14 DEF storageDelete, TypeOK
  <2> QED
    BY <1>14, <2>2, <2>3 DEF storageDelete, TypeOK
<1>15. ASSUME NEW p \in Procs, finalizePendingRows(p) PROVE TypeOK'
  <2>1. \A us \in SubMs : [ms |-> now, us |-> us] \in Stamps
    BY <1>b DEF Stamps
  <2>2. /\ [task[p] EXCEPT !.pc = "release"] \in Tasks
        /\ [task[p] EXCEPT !.pc = "clear"] \in Tasks
        /\ EndOf(p) \in Tasks
    BY <1>g, TaskTypes DEF DeletePcs
  <2>3. row' \in [Files -> Rows] /\ \A f \in Files : row'[f].expiredAt = row[f].expiredAt
    <3>1. \A f \in Files, us \in SubMs :
            LET r == [row[f] EXCEPT !.deletedAt = [ms |-> now, us |-> us]]
            IN  r \in Rows /\ r.expiredAt = row[f].expiredAt
      BY <1>b, <2>1, ColumnTypes
    <3>2. PICK hits \in SUBSET Files, us \in SubMs :
            \/ row' = row
            \/ row' = [f \in Files |-> IF f \in hits
                         THEN [row[f] EXCEPT !.deletedAt = [ms |-> now, us |-> us]]
                         ELSE row[f]]
      <4>1. {f \in task[p].files : pendingDeletionWhere(row[f], task[p])} \in SUBSET Files
        BY <1>f
      <4> QED
        BY <1>15, <4>1 DEF finalizePendingRows
    <3> DEFINE upd(f) == [row[f] EXCEPT !.deletedAt = [ms |-> now, us |-> us]]
    <3>3. \A f \in Files : upd(f) \in Rows /\ upd(f).expiredAt = row[f].expiredAt
      BY <3>1
    <3>4. row' = row \/ row' = [f \in Files |-> IF f \in hits THEN upd(f) ELSE row[f]]
      BY <3>2
    <3> HIDE DEF upd
    <3> QED
      BY <3>3, <3>4, <1>b DEF TypeOK
  <2>4. faults' \in Nat /\ task' \in [Procs -> Tasks]
    BY <1>15, <1>a, <1>h, <2>2 DEF finalizePendingRows
  <2> QED
    BY <1>15, <2>3, <2>4 DEF finalizePendingRows, TypeOK
<1>16. ASSUME NEW p \in Procs, clearFinalizedDeletionClaim(p) PROVE TypeOK'
  <2>1. EndOf(p) \in Tasks
    BY TaskTypes
  <2>2. row' \in [Files -> Rows] /\ \A f \in Files : row'[f].expiredAt = row[f].expiredAt
    <3>1. \A f \in Files :
            LET r == [row[f] EXCEPT !.deletionPendingAt = Null]
            IN  r \in Rows /\ r.expiredAt = row[f].expiredAt
      BY <1>b, <2>1, ColumnTypes DEF Null
    <3>2. \/ row' = row
          \/ \E hits : row' = [f \in Files |-> IF f \in hits
                                 THEN [row[f] EXCEPT !.deletionPendingAt = Null]
                                 ELSE row[f]]
      BY <1>16 DEF clearFinalizedDeletionClaim
    <3>3. \A f \in Files : row'[f] \in Rows /\ row'[f].expiredAt = row[f].expiredAt
      BY <3>1, <3>2, <1>b
    <3> QED
      BY <3>2, <3>3 DEF TypeOK
  <2>3. faults' \in Nat /\ task' \in [Procs -> Tasks]
    BY <1>16, <1>a, <1>h, <2>1 DEF clearFinalizedDeletionClaim, Outcomes
  <2> QED
    BY <1>16, <2>2, <2>3 DEF clearFinalizedDeletionClaim, TypeOK
<1>17. ASSUME NEW p \in Procs, releaseDeletionClaim(p) PROVE TypeOK'
  <2>1. EndOf(p) \in Tasks /\ retryBackoffMarker \in Nat
    BY <1>b, TaskTypes DEF retryBackoffMarker, TypeOK
  <2>2. row' \in [Files -> Rows] /\ \A f \in Files : row'[f].expiredAt = row[f].expiredAt
    <3>1. \A f \in Files :
            LET r == [row[f] EXCEPT !.deletionPendingAt = retryBackoffMarker]
            IN  r \in Rows /\ r.expiredAt = row[f].expiredAt
      BY <1>b, <2>1, ColumnTypes DEF Null
    <3>2. \/ row' = row
          \/ \E hits : row' = [f \in Files |-> IF f \in hits
                                 THEN [row[f] EXCEPT !.deletionPendingAt = retryBackoffMarker]
                                 ELSE row[f]]
      BY <1>17 DEF releaseDeletionClaim
    <3>3. \A f \in Files : row'[f] \in Rows /\ row'[f].expiredAt = row[f].expiredAt
      BY <3>1, <3>2, <1>b
    <3> QED
      BY <3>2, <3>3 DEF TypeOK
  <2>3. faults' \in Nat /\ task' \in [Procs -> Tasks]
    BY <1>17, <1>a, <1>h, <2>1 DEF releaseDeletionClaim, Outcomes
  <2> QED
    BY <1>17, <2>2, <2>3 DEF releaseDeletionClaim, TypeOK
<1>18. ASSUME NEW fs \in SUBSET Files, markUsed(fs) PROVE TypeOK'
  BY <1>18, <1>b, ColumnTypes DEF markUsed, TypeOK
<1>19. ASSUME NEW f \in Files, landWrite(f) PROVE TypeOK'
  BY <1>19 DEF landWrite, TypeOK
<1>20. ASSUME NEW f \in Files, landActivation(f) PROVE TypeOK'
  BY <1>20, <1>c DEF landActivation, TypeOK, Null
<1>21. ASSUME NEW i \in Instances, crash(i) PROVE TypeOK'
  <2>1. task' \in [Procs -> Tasks]
    <3>1. \A p \in Procs : EndOf(p) \in Tasks
      BY TaskTypes
    <3> QED
      BY <3>1, <1>21, <1>f DEF crash
  <2>2. lateWrite' \in SUBSET Files
    BY <1>21 DEF crash, TypeOK
  <2>3. lateActivate' \in [Files -> Nat]
    BY <1>21 DEF crash, TypeOK
  <2>4. lastClaim' \in [Instances -> Nat] /\ faults' \in Nat
    BY <1>21 DEF crash, TypeOK
  <2> QED
    BY <1>21, <2>1, <2>2, <2>3, <2>4 DEF crash, TypeOK
<1>22. ASSUME tick PROVE TypeOK'
  BY <1>22 DEF tick, TypeOK
<1>23. CASE UNCHANGED vars
  BY <1>23 DEF vars, TypeOK
<1> QED
  BY <1>1, <1>2, <1>3, <1>4, <1>5, <1>6, <1>7, <1>9, <1>10, <1>11, <1>12, <1>13,
     <1>14, <1>15, <1>16, <1>17, <1>18, <1>19, <1>20, <1>21, <1>22, <1>23
  DEF Next, Uploader, Sweep, deleteAndFinalizePendingRows

\* The table, the storage and every handler keep their types; only temporary
\* uploads ever carry an expiry.
THEOREM TypeCorrect == Spec => []TypeOK
BY InitType, TypeStep, PTL DEF Spec

-----------------------------------------------------------------------------
(* What one step does to one row, one object and one process.              *)

\* What one step can do to the row of f: leave its lifecycle columns alone,
Unmoved(f) ==
  /\ row'[f].saved = row[f].saved
  /\ row'[f].uploadPendingAt = row[f].uploadPendingAt
  /\ row'[f].deletionPendingAt = row[f].deletionPendingAt
  /\ row'[f].deletedAt = row[f].deletedAt

\* ... insert it, by uploadLegacy,
Inserts(f) ==
  /\ task[f].pc = "new" /\ task'[f].pc # "new"
  /\ row'[f] = PendingRow(mark'[f])
  /\ mark'[f] > 1

\* ... activate it, by activatePendingUpload in time or late,
Activates(f) ==
  /\ task[f].pc = "activate" \/ lateActivate[f] # Null
  /\ pendingUploadWhere(row[f], mark[f])
  /\ row'[f].saved
  /\ row'[f].uploadPendingAt = Null
  /\ row'[f].deletionPendingAt = Null
  /\ row'[f].deletedAt = NotDeleted

\* Claims and reschedules.
Claims(f) ==
  /\ row[f].saved /\ row'[f].saved
  /\ row'[f].uploadPendingAt = row[f].uploadPendingAt
  /\ row'[f].deletionPendingAt > 1

\* ... settle its upload with the claim, by the uploader or the operator,
Settles(f) ==
  /\ row[f].saved /\ row'[f].saved
  /\ \/ task[f].pc \in {"cleanup", "settleClaim"}
     \/ f \notin lateWrite /\ task[f].pc = "failed"
  /\ row'[f].uploadPendingAt = Null
  /\ row'[f].deletionPendingAt > 0

\* ... soft-delete it, by finalizePendingRows,
SoftDeletes(f) ==
  /\ row[f].saved /\ row'[f].saved
  /\ \E p \in Procs : task[p].pc = "finalize" /\ f \in task[p].files
  /\ row[f].deletedAt = NotDeleted
  /\ row'[f].uploadPendingAt = row[f].uploadPendingAt
  /\ row'[f].deletionPendingAt = row[f].deletionPendingAt

\* ... or clear its claim, by clearFinalizedDeletionClaim.
Clears(f) ==
  /\ row[f].saved /\ row'[f].saved
  /\ \E p \in Procs : task[p].pc = "clear" /\ f \in task[p].files
  /\ row[f].uploadPendingAt = Null /\ row'[f].uploadPendingAt = Null
  /\ row[f].deletedAt # NotDeleted /\ row'[f].deletedAt = row[f].deletedAt

\* One of these effects.
RowEffect(f) ==
  \/ Unmoved(f) \/ Inserts(f) \/ Activates(f) \/ Claims(f)
  \/ Settles(f) \/ SoftDeletes(f) \/ Clears(f)

\* The columns of the rows that claims, settlements and activations write.
LEMMA RowFields ==
  ASSUME NEW r \in Rows, NEW c \in Nat, NEW f \in Files
  PROVE  /\ Claimed(r, c).saved = r.saved
         /\ Claimed(r, c).uploadPendingAt = r.uploadPendingAt
         /\ Claimed(r, c).deletionPendingAt = c
         /\ Settled(r, c).saved = r.saved
         /\ Settled(r, c).uploadPendingAt = Null
         /\ Settled(r, c).deletionPendingAt = c
         /\ Activated(f, r, c).saved = r.saved
         /\ Activated(f, r, c).uploadPendingAt = Null
         /\ Activated(f, r, c).deletionPendingAt = r.deletionPendingAt
         /\ Activated(f, r, c).deletedAt = r.deletedAt
BY DEF Claimed, Settled, Activated, Rows

\* The fields of the local states that processes enter.
LEMMA TaskFields ==
  /\ \A pc : Task(pc).pc = pc /\ Task(pc).files = {} /\ Task(pc).uploadPendingAt = Null
  /\ \A fs, m, c : /\ Deleting(fs, m, c).pc = "storage"
                   /\ Deleting(fs, m, c).files = fs
                   /\ Deleting(fs, m, c).uploadPendingAt = m
  /\ \A p : EndOf(p).pc \in {"failed", "idle"}
BY DEF Task, Deleting, EndOf

\* An UPDATE of one column leaves the others alone.
LEMMA ColumnFields ==
  ASSUME NEW r \in Rows, NEW d
  PROVE  /\ [r EXCEPT !.deletionPendingAt = d].saved = r.saved
         /\ [r EXCEPT !.deletionPendingAt = d].uploadPendingAt = r.uploadPendingAt
         /\ [r EXCEPT !.deletionPendingAt = d].deletionPendingAt = d
         /\ [r EXCEPT !.deletionPendingAt = d].deletedAt = r.deletedAt
         /\ [r EXCEPT !.deletedAt = d].saved = r.saved
         /\ [r EXCEPT !.deletedAt = d].uploadPendingAt = r.uploadPendingAt
         /\ [r EXCEPT !.deletedAt = d].deletionPendingAt = r.deletionPendingAt
         /\ [r EXCEPT !.isUsed = TRUE].saved = r.saved
         /\ [r EXCEPT !.isUsed = TRUE].uploadPendingAt = r.uploadPendingAt
         /\ [r EXCEPT !.isUsed = TRUE].deletionPendingAt = r.deletionPendingAt
         /\ [r EXCEPT !.isUsed = TRUE].deletedAt = r.deletedAt
BY DEF Rows

\* Every UPDATE of the service is one of these on every row.
LEMMA RowStep == Base /\ [Next]_vars => \A f \in Files : RowEffect(f)
<1> SUFFICES ASSUME Base, [Next]_vars, NEW f \in Files PROVE RowEffect(f)
  OBVIOUS
<1> USE ProcsAssumption, TimingAssumption DEF Procs, Goto
<1>a. TypeOK /\ now \in Nat /\ now > 0 /\ row \in [Files -> Rows] /\ mark \in [Files -> Nat]
  BY DEF Base, TypeOK
<1>b. \A g \in Files : row[g] \in Rows /\ row[g].saved \in BOOLEAN
                      /\ row[g].uploadPendingAt \in Nat /\ row[g].deletionPendingAt \in Nat
                      /\ row[g].expiredAt \in Nat
  BY <1>a DEF Rows
<1>c. \A p \in Procs, e \in Nat : /\ nextDeletionClaim(InstanceOf[p], e) \in Nat
                                  /\ nextDeletionClaim(InstanceOf[p], e) > 1
  BY <1>a, ClaimType
<1>d. \A p \in Procs : /\ task[p].files \subseteq Files
                      /\ task[p].snap.deletionPendingAt \in Nat
                      /\ task[p].snap.uploadPendingAt \in Nat
  BY <1>a DEF TypeOK, Tasks, Snapshots
<1>e. row' = row => RowEffect(f)
  BY DEF RowEffect, Unmoved
<1>f. \A g \in Files : \A r : g # f /\ row' = [row EXCEPT ![g] = r] => RowEffect(f)
  BY <1>a DEF RowEffect, Unmoved
<1>1. ASSUME NEW g \in Files, saveRow(g) PROVE RowEffect(f)
  <2>1. CASE g = f /\ row' = [row EXCEPT ![g] = PendingRow(now + ActivationLease)]
    <3>1. row'[f] = PendingRow(now + ActivationLease) /\ mark'[f] = now + ActivationLease
      BY <1>1, <2>1, <1>a DEF saveRow
    <3>2. task'[f].pc # "new"
      BY <1>1, <2>1, TaskFields, <1>a DEF saveRow, TypeOK
    <3> QED
      BY <1>1, <2>1, <3>1, <3>2, <1>a DEF saveRow, RowEffect, Inserts
  <2> QED
    BY <1>1, <2>1, <1>e, <1>f DEF saveRow
<1>2. ASSUME NEW g \in Files, activatePendingUpload(g) PROVE RowEffect(f)
  <2>1. CASE g = f /\ pendingUploadWhere(row[f], mark[f])
             /\ row' = [row EXCEPT ![f] = Activated(f, row[f], now)]
    BY <1>2, <2>1, <1>a, RowFields DEF activatePendingUpload, RowEffect, Activates,
       pendingUploadWhere
  <2> QED
    BY <1>2, <2>1, <1>e, <1>f DEF activatePendingUpload
<1>3. ASSUME NEW g \in Files, cleanupFailedUpload(g) PROVE RowEffect(f)
  <2> DEFINE claim == nextDeletionClaim(InstanceOf[g], mark[g])
  <2>1. claim \in Nat /\ claim > 1
    BY <1>a, <1>c
  <2>2. \/ row' = row
        \/ row[g].saved /\ row' = [row EXCEPT ![g] = Settled(row[g], claim)]
    BY <1>3 DEF cleanupFailedUpload, pendingUploadWhere
  <2>3. task[g].pc = "cleanup"
    BY <1>3 DEF cleanupFailedUpload
  <2> HIDE DEF claim
  <2>4. CASE g = f /\ row[f].saved /\ row' = [row EXCEPT ![f] = Settled(row[f], claim)]
    <3>1. row'[f] = Settled(row[f], claim)
      BY <2>4, <1>a
    <3>2. /\ row'[f].saved = row[f].saved /\ row'[f].uploadPendingAt = Null
          /\ row'[f].deletionPendingAt = claim
      BY <2>1, <3>1, <1>b, RowFields
    <3>3. row[f].saved /\ row'[f].saved
      BY <2>4, <3>2
    <3>4. row'[f].deletionPendingAt > 0 /\ row'[f].uploadPendingAt = Null
      BY <2>1, <3>2
    <3>5. task[f].pc \in {"cleanup", "settleClaim"}
      BY <2>3, <2>4
    <3>6. Settles(f)
      BY <3>3, <3>4, <3>5 DEF Settles
    <3> QED
      BY <3>6 DEF RowEffect
  <2> QED
    BY <2>2, <2>4, <1>e, <1>f
<1>4. ASSUME NEW g \in Files, settleClaim(g) PROVE RowEffect(f)
  <2> DEFINE claim == nextDeletionClaim(InstanceOf[g],
                        IF task[g].snap.deletionPendingAt # Null
                        THEN task[g].snap.deletionPendingAt ELSE mark[g])
  <2>1. claim \in Nat /\ claim > 1
    BY <1>a, <1>c, <1>d
  <2>2. \/ row' = row
        \/ row[g].saved /\ row' = [row EXCEPT ![g] = Settled(row[g], claim)]
    BY <1>4 DEF settleClaim, SameMarkers
  <2>3. task[g].pc = "settleClaim"
    BY <1>4 DEF settleClaim
  <2> HIDE DEF claim
  <2>4. CASE g = f /\ row[f].saved /\ row' = [row EXCEPT ![f] = Settled(row[f], claim)]
    <3>1. row'[f] = Settled(row[f], claim)
      BY <2>4, <1>a
    <3>2. /\ row'[f].saved = row[f].saved /\ row'[f].uploadPendingAt = Null
          /\ row'[f].deletionPendingAt = claim
      BY <2>1, <3>1, <1>b, RowFields
    <3>3. row[f].saved /\ row'[f].saved
      BY <2>4, <3>2
    <3>4. row'[f].deletionPendingAt > 0 /\ row'[f].uploadPendingAt = Null
      BY <2>1, <3>2
    <3>5. task[f].pc \in {"cleanup", "settleClaim"}
      BY <2>3, <2>4
    <3>6. Settles(f)
      BY <3>3, <3>4, <3>5 DEF Settles
    <3> QED
      BY <3>6 DEF RowEffect
  <2> QED
    BY <2>2, <2>4, <1>e, <1>f
<1>5. ASSUME NEW w \in Workers, NEW fs \in SUBSET Files, NEW e \in Nat, ClaimActive(w, fs, e)
      PROVE  RowEffect(f)
  <2> DEFINE claim == nextDeletionClaim(InstanceOf[w], e)
  <2>1. claim \in Nat /\ claim > 1
    BY <1>c
  <2>2. /\ \A g \in fs : row[g].saved
        /\ \/ row' = row
           \/ row' = [g \in Files |-> IF g \in fs THEN Claimed(row[g], claim) ELSE row[g]]
    BY <1>5 DEF ClaimActive, where
  <2> HIDE DEF claim
  <2>3. CASE f \in fs /\ row' = [g \in Files |-> IF g \in fs THEN Claimed(row[g], claim)
                                                  ELSE row[g]]
    BY <2>1, <2>2, <2>3, <1>b, RowFields DEF RowEffect, Claims
  <2>4. CASE f \notin fs /\ row' = [g \in Files |-> IF g \in fs THEN Claimed(row[g], claim)
                                                     ELSE row[g]]
    BY <2>4 DEF RowEffect, Unmoved
  <2> QED
    BY <2>2, <2>3, <2>4, <1>e
<1>6. ASSUME NEW w \in Workers, Request(w) \/ cleanupExpiredTemporaryFiles(w) PROVE RowEffect(f)
  BY <1>5, <1>6, <1>b DEF Request, deleteReferences, unsafeSystemPurgeUnusedBefore,
     cleanupExpiredTemporaryFiles, Null
<1>7. ASSUME NEW w \in Workers, retryClaim(w) PROVE RowEffect(f)
  <2> DEFINE claim == nextDeletionClaim(InstanceOf[w],
                        IF task[w].snap.deletionPendingAt # Null
                        THEN task[w].snap.deletionPendingAt ELSE task[w].snap.uploadPendingAt)
  <2>1. claim \in Nat /\ claim > 1
    BY <1>c, <1>d
  <2>2. PICK g \in task[w].files :
          \/ row' = row
          \/ row[g].saved /\ row' = [row EXCEPT ![g] = Claimed(row[g], claim)]
    BY <1>7 DEF retryClaim, SameMarkers
  <2>3. g \in Files
    BY <1>d
  <2> HIDE DEF claim
  <2>4. CASE g = f /\ row[f].saved /\ row' = [row EXCEPT ![f] = Claimed(row[f], claim)]
    BY <2>1, <2>4, <1>a, RowFields DEF RowEffect, Claims
  <2> QED
    BY <2>2, <2>3, <2>4, <1>e, <1>f
<1>8. ASSUME NEW g \in Files, unsafeSystemRetireUploadTombstone(g) PROVE RowEffect(f)
  <2> DEFINE x == IF row[g].deletionPendingAt # Null THEN row[g].deletionPendingAt
                  ELSE row[g].uploadPendingAt
  <2>1. x \in Nat /\ x > 1 /\ x < now
    BY <1>8, <1>b DEF unsafeSystemRetireUploadTombstone, Elapsed, Null, Base, Born
  <2>2. immediateRetryMarkerFor(x) \in Nat /\ immediateRetryMarkerFor(x) > 0
    BY <2>1, <1>a DEF immediateRetryMarkerFor
  <2>3. /\ row' = [row EXCEPT ![g] = Settled(row[g], immediateRetryMarkerFor(x))]
        /\ row[g].saved /\ g \notin lateWrite /\ task[g].pc = "failed"
    BY <1>8 DEF unsafeSystemRetireUploadTombstone
  <2> HIDE DEF x
  <2>4. CASE g = f
    BY <2>2, <2>3, <2>4, <1>a, RowFields DEF RowEffect, Settles
  <2> QED
    BY <2>3, <2>4, <1>f
<1>9. ASSUME NEW p \in Procs, finalizePendingRows(p) PROVE RowEffect(f)
  <2>1. CASE row' = row
    BY <2>1, <1>e
  <2>2. CASE row' # row
    <3> DEFINE hits == {g \in task[p].files : pendingDeletionWhere(row[g], task[p])}
    <3>1. PICK us \in SubMs : row' = [g \in Files |->
                     IF g \in hits
                     THEN [row[g] EXCEPT !.deletedAt = [ms |-> now, us |-> us]] ELSE row[g]]
      BY <1>9, <2>2 DEF finalizePendingRows
    <3> DEFINE d == [ms |-> now, us |-> us]
    <3>2. row'[f] = IF f \in task[p].files /\ pendingDeletionWhere(row[f], task[p])
                    THEN [row[f] EXCEPT !.deletedAt = d] ELSE row[f]
      BY <3>1
    <3> HIDE DEF d
    <3>3. CASE f \in task[p].files /\ pendingDeletionWhere(row[f], task[p])
      BY <1>9, <3>2, <3>3, <1>b, ColumnFields DEF finalizePendingRows, RowEffect,
         SoftDeletes, pendingDeletionWhere
    <3> QED
      BY <3>2, <3>3 DEF RowEffect, Unmoved
  <2> QED
    BY <2>1, <2>2
<1>10. ASSUME NEW p \in Procs, clearFinalizedDeletionClaim(p) PROVE RowEffect(f)
  <2>1. CASE row' = row
    BY <2>1, <1>e
  <2>2. CASE row' # row
    <3> DEFINE hit == /\ f \in task[p].files /\ row[f].saved
                      /\ row[f].deletedAt # NotDeleted /\ row[f].uploadPendingAt = Null
                      /\ row[f].deletionPendingAt = task[p].claim
    <3>2. row'[f] = IF hit THEN [row[f] EXCEPT !.deletionPendingAt = Null] ELSE row[f]
      BY <1>10, <2>2 DEF clearFinalizedDeletionClaim
    <3>3. CASE hit
      BY <1>10, <3>2, <3>3, <1>b, ColumnFields DEF clearFinalizedDeletionClaim, RowEffect, Clears
    <3> QED
      BY <3>2, <3>3 DEF RowEffect, Unmoved
  <2> QED
    BY <2>1, <2>2
<1>11. ASSUME NEW p \in Procs, releaseDeletionClaim(p) PROVE RowEffect(f)
  <2>1. CASE row' = row
    BY <2>1, <1>e
  <2>2. CASE row' # row
    <3> DEFINE hit == f \in task[p].files /\ pendingDeletionWhere(row[f], task[p])
    <3>2. row'[f] = IF hit THEN [row[f] EXCEPT !.deletionPendingAt = retryBackoffMarker]
                    ELSE row[f]
      BY <1>11, <2>2 DEF releaseDeletionClaim
    <3>3. CASE hit
      BY <3>2, <3>3, <1>a, <1>b, ColumnFields DEF RowEffect, Claims, pendingDeletionWhere,
         retryBackoffMarker
    <3> QED
      BY <3>2, <3>3 DEF RowEffect, Unmoved
  <2> QED
    BY <2>1, <2>2
<1>12. ASSUME NEW fs \in SUBSET Files, markUsed(fs) PROVE RowEffect(f)
  <2>1. row'[f] = row[f] \/ row'[f] = [row[f] EXCEPT !.isUsed = TRUE]
    BY <1>12 DEF markUsed
  <2> QED
    BY <2>1, <1>b, ColumnFields DEF RowEffect, Unmoved
<1>13. ASSUME NEW g \in Files, landActivation(g) PROVE RowEffect(f)
  <2>0. lateActivate[g] \in Nat
    BY <1>a DEF TypeOK
  <2>1. CASE g = f /\ pendingUploadWhere(row[f], mark[f])
             /\ row' = [row EXCEPT ![f] = Activated(f, row[f], lateActivate[f])]
    BY <1>13, <2>0, <2>1, <1>a, RowFields DEF landActivation, RowEffect, Activates,
       pendingUploadWhere
  <2> QED
    BY <1>13, <2>1, <1>e, <1>f DEF landActivation
<1>14. ASSUME NEW g \in Files, writeObject(g) \/ confirmedActiveUpload(g) \/ settleRead(g)
                               \/ landWrite(g)
       PROVE RowEffect(f)
  BY <1>14, <1>e DEF writeObject, confirmedActiveUpload, settleRead, landWrite
<1>15. ASSUME NEW w \in Workers, retrySelect(w) PROVE RowEffect(f)
  BY <1>15, <1>e DEF retrySelect
<1>16. ASSUME NEW p \in Procs, storageDelete(p) PROVE RowEffect(f)
  BY <1>16, <1>e DEF storageDelete
<1>17. ASSUME NEW i \in Instances, crash(i) PROVE RowEffect(f)
  BY <1>17, <1>e DEF crash
<1>18. CASE tick \/ UNCHANGED vars
  BY <1>18, <1>e DEF tick, vars
<1> QED
  BY <1>1, <1>2, <1>3, <1>4, <1>6, <1>7, <1>8, <1>9, <1>10, <1>11, <1>12, <1>13,
     <1>14, <1>15, <1>16, <1>17, <1>18
  DEF Next, Uploader, Sweep, deleteAndFinalizePendingRows

\* One step on one object.
ObjEffect(f) ==
  \/ obj'[f] = obj[f]
  \/ obj'[f] /\ (task[f].pc = "write" \/ f \in lateWrite)
  \/ ~obj'[f] /\ \E p \in Procs : task[p].pc = "storage" /\ f \in task[p].files

\* Objects appear by writes and disappear by deleteAndFinalizePendingRows only.
LEMMA ObjStep == TypeOK /\ [Next]_vars => \A f \in Files : ObjEffect(f)
<1> SUFFICES ASSUME TypeOK, [Next]_vars, NEW f \in Files PROVE ObjEffect(f)
  OBVIOUS
<1>1. ASSUME NEW g \in Files, writeObject(g) \/ landWrite(g) PROVE ObjEffect(f)
  BY <1>1 DEF writeObject, landWrite, ObjEffect, TypeOK
<1>2. ASSUME NEW p \in Procs, storageDelete(p) PROVE ObjEffect(f)
  BY <1>2 DEF storageDelete, ObjEffect, TypeOK
<1>3. CASE obj' = obj
  BY <1>3 DEF ObjEffect
<1>4. CASE tick \/ UNCHANGED vars \/ \E i \in Instances : crash(i)
  BY <1>4, <1>3 DEF tick, vars, crash
<1>5. ASSUME NEW g \in Files,
             \/ saveRow(g) \/ activatePendingUpload(g) \/ confirmedActiveUpload(g)
             \/ cleanupFailedUpload(g) \/ settleRead(g) \/ settleClaim(g)
             \/ landActivation(g) \/ unsafeSystemRetireUploadTombstone(g)
      PROVE  ObjEffect(f)
  BY <1>5, <1>3 DEF saveRow, activatePendingUpload, confirmedActiveUpload,
     cleanupFailedUpload, settleRead, settleClaim, landActivation,
     unsafeSystemRetireUploadTombstone
<1>6. ASSUME NEW w \in Workers, Request(w) \/ Sweep(w) PROVE ObjEffect(f)
  BY <1>6, <1>3 DEF Request, Sweep, deleteReferences, unsafeSystemPurgeUnusedBefore,
     cleanupExpiredTemporaryFiles, ClaimActive, retrySelect, retryClaim
<1>7. ASSUME NEW p \in Procs,
             finalizePendingRows(p) \/ clearFinalizedDeletionClaim(p) \/ releaseDeletionClaim(p)
      PROVE  ObjEffect(f)
  BY <1>7, <1>3 DEF finalizePendingRows, clearFinalizedDeletionClaim, releaseDeletionClaim
<1>8. ASSUME NEW fs \in SUBSET Files, markUsed(fs) PROVE ObjEffect(f)
  BY <1>8, <1>3 DEF markUsed
<1> QED
  BY <1>1, <1>2, <1>4, <1>5, <1>6, <1>7, <1>8
  DEF Next, Uploader, deleteAndFinalizePendingRows

\* One step of a process, as far as deleteAndFinalizePendingRows goes: it goes
\* on, it has just claimed its rows, or it is elsewhere.
GoesOn(p) ==
  /\ task[p].pc \in DeletePcs
  /\ task'[p].files = task[p].files
  /\ task'[p].uploadPendingAt = task[p].uploadPendingAt
  /\ \/ task'[p].pc = task[p].pc
     \/ task'[p].pc = "finalize" /\ task[p].pc = "storage" /\ \A f \in task[p].files : ~obj'[f]
     \/ task'[p].pc = "clear" /\ task[p].pc = "finalize" /\ task[p].uploadPendingAt = Null
     \/ task'[p].pc = "release"

\* p has just claimed the rows it is going to delete.
HasClaimed(p) ==
  /\ task'[p].pc = "storage"
  /\ \A f \in task'[p].files : /\ row'[f].deletionPendingAt # Null
                               /\ row'[f].uploadPendingAt = task'[p].uploadPendingAt

\* What one step can do to a deleter.
TaskEffect(p) == task'[p].pc \notin DeletePcs \/ GoesOn(p) \/ HasClaimed(p)

\* Whoever enters deleteAndFinalizePendingRows holds a claim on all its rows
\* and saw their upload marker.
LEMMA TaskStep == Base /\ [Next]_vars => \A p \in Procs : TaskEffect(p)
<1> SUFFICES ASSUME Base, [Next]_vars, NEW p \in Procs PROVE TaskEffect(p)
  OBVIOUS
<1> USE ProcsAssumption, TimingAssumption DEF Procs, Goto
<1>a. TypeOK /\ now \in Nat /\ now > 0 /\ task \in [Procs -> Tasks]
      /\ \A f \in Files : row[f] \in Rows /\ mark[f] \in Nat /\ row[f].expiredAt \in Nat
  BY DEF Base, TypeOK, Rows
<1>b. \A q \in Procs, e \in Nat : /\ nextDeletionClaim(InstanceOf[q], e) \in Nat
                                  /\ nextDeletionClaim(InstanceOf[q], e) # Null
  BY <1>a, ClaimType DEF Null
<1>c. \A q \in Procs : /\ task[q] \in Tasks /\ task[q].files \subseteq Files
                      /\ task[q].snap.deletionPendingAt \in Nat
                      /\ task[q].snap.uploadPendingAt \in Nat
  BY <1>a DEF Tasks, Snapshots
<1>d. task'[p] = task[p] => TaskEffect(p)
  BY DEF TaskEffect, GoesOn
<1>e. \A q \in Procs : \A t : task' = [task EXCEPT ![q] = t] /\ q # p => TaskEffect(p)
  BY <1>a, <1>d
<1>f. \A q \in Procs : \A t : task' = [task EXCEPT ![q] = t] /\ t.pc \notin DeletePcs => TaskEffect(p)
  BY <1>a, <1>e DEF TaskEffect
<1>g. /\ "failed" \notin DeletePcs /\ "idle" \notin DeletePcs /\ "settle" \notin DeletePcs
      /\ "write" \notin DeletePcs /\ "activate" \notin DeletePcs /\ "cleanup" \notin DeletePcs
      /\ "done" \notin DeletePcs /\ "confirm" \notin DeletePcs
      /\ "settleClaim" \notin DeletePcs /\ "retryClaim" \notin DeletePcs
  BY DEF DeletePcs
<1>h. \A f \in Files, q \in Procs, c \in Nat : \A m :
        /\ c # Null
        /\ task' = [task EXCEPT ![q] = Deleting({f}, m, c)]
        /\ \/ row' = [row EXCEPT ![f] = Settled(row[f], c)] /\ m = Null
           \/ row' = [row EXCEPT ![f] = Claimed(row[f], c)] /\ m = row[f].uploadPendingAt
        => TaskEffect(p)
  <2> SUFFICES ASSUME NEW f \in Files, NEW q \in Procs, NEW c \in Nat, NEW m, c # Null,
                      task' = [task EXCEPT ![q] = Deleting({f}, m, c)],
                      \/ row' = [row EXCEPT ![f] = Settled(row[f], c)] /\ m = Null
                      \/ row' = [row EXCEPT ![f] = Claimed(row[f], c)]
                         /\ m = row[f].uploadPendingAt,
                      q = p
               PROVE TaskEffect(p)
    BY <1>e
  <2>1. /\ task'[p].pc = "storage" /\ task'[p].files = {f} /\ task'[p].uploadPendingAt = m
    BY <1>a, TaskFields
  <2>2. \/ row'[f] = Settled(row[f], c) /\ m = Null
        \/ row'[f] = Claimed(row[f], c) /\ m = row[f].uploadPendingAt
    BY <1>a DEF TypeOK
  <2>3. row'[f].deletionPendingAt = c /\ row'[f].uploadPendingAt = m
    BY <2>2, <1>a, RowFields
  <2> QED
    BY <2>1, <2>3 DEF TaskEffect, HasClaimed
<1>1. ASSUME NEW f \in Files, saveRow(f) \/ writeObject(f) \/ activatePendingUpload(f)
                              \/ confirmedActiveUpload(f)
      PROVE TaskEffect(p)
  BY <1>1, <1>f, <1>g, TaskFields DEF saveRow, writeObject, activatePendingUpload,
     confirmedActiveUpload
<1>2. ASSUME NEW f \in Files, settleRead(f) PROVE TaskEffect(p)
  <2> DEFINE t == [Task("settleClaim") EXCEPT !.snap = Snapshot(row[f]),
                                              !.tries = task[f].tries]
  <2>1. t.pc = "settleClaim"
    BY DEF Task
  <2>2. \/ task' = [task EXCEPT ![f] = Task("failed")]
        \/ task' = [task EXCEPT ![f] = t]
    BY <1>2 DEF settleRead
  <2> HIDE DEF t
  <2> QED
    BY <2>1, <2>2, <1>f, <1>g, TaskFields
<1>3. ASSUME NEW f \in Files, cleanupFailedUpload(f) PROVE TaskEffect(p)
  <2> DEFINE claim == nextDeletionClaim(InstanceOf[f], mark[f])
  <2>1. claim \in Nat /\ claim # Null
    BY <1>a, <1>b
  <2>2. \/ task' = [task EXCEPT ![f] = Task("settle")]
        \/ /\ task' = [task EXCEPT ![f] = Deleting({f}, Null, claim)]
           /\ row' = [row EXCEPT ![f] = Settled(row[f], claim)]
    BY <1>3 DEF cleanupFailedUpload
  <2> HIDE DEF claim
  <2> QED
    BY <2>1, <2>2, <1>f, <1>g, <1>h, TaskFields
<1>4. ASSUME NEW f \in Files, settleClaim(f) PROVE TaskEffect(p)
  <2> DEFINE claim == nextDeletionClaim(InstanceOf[f],
                        IF task[f].snap.deletionPendingAt # Null
                        THEN task[f].snap.deletionPendingAt ELSE mark[f])
             again == [Task("settle") EXCEPT !.tries = task[f].tries + 1]
  <2>1. claim \in Nat /\ claim # Null /\ again.pc = "settle"
    BY <1>a, <1>b, <1>c DEF Task
  <2>2. \/ task' = [task EXCEPT ![f] = Task("failed")]
        \/ task' = [task EXCEPT ![f] = again]
        \/ /\ task' = [task EXCEPT ![f] = Deleting({f}, Null, claim)]
           /\ row' = [row EXCEPT ![f] = Settled(row[f], claim)]
    BY <1>4 DEF settleClaim
  <2> HIDE DEF claim, again
  <2> QED
    BY <2>1, <2>2, <1>f, <1>g, <1>h, TaskFields
<1>5. ASSUME NEW w \in Workers, NEW fs \in SUBSET Files, NEW e \in Nat, ClaimActive(w, fs, e)
      PROVE  TaskEffect(p)
  <2> DEFINE claim == nextDeletionClaim(InstanceOf[w], e)
  <2>1. claim \in Nat /\ claim # Null
    BY <1>b
  <2>2. /\ \A g \in fs : row[g].uploadPendingAt = Null
        /\ \/ task' = [task EXCEPT ![w] = Task("idle")]
           \/ /\ task' = [task EXCEPT ![w] = Deleting(fs, Null, claim)]
              /\ row' = [g \in Files |-> IF g \in fs THEN Claimed(row[g], claim) ELSE row[g]]
    BY <1>5 DEF ClaimActive, where
  <2> HIDE DEF claim
  <2>3. CASE /\ p = w
             /\ task' = [task EXCEPT ![w] = Deleting(fs, Null, claim)]
             /\ row' = [g \in Files |-> IF g \in fs THEN Claimed(row[g], claim) ELSE row[g]]
    <3>1. /\ task'[p].pc = "storage" /\ task'[p].files = fs /\ task'[p].uploadPendingAt = Null
      BY <2>3, <1>a, TaskFields
    <3>2. \A f \in fs : row'[f].deletionPendingAt = claim /\ row'[f].uploadPendingAt = Null
      BY <2>1, <2>2, <2>3, <1>a, RowFields
    <3> QED
      BY <3>1, <3>2, <2>1 DEF TaskEffect, HasClaimed
  <2> QED
    BY <2>2, <2>3, <1>e, <1>f, <1>g, TaskFields
<1>6. ASSUME NEW w \in Workers, Request(w) \/ cleanupExpiredTemporaryFiles(w) PROVE TaskEffect(p)
  BY <1>5, <1>6, <1>a DEF Request, deleteReferences, unsafeSystemPurgeUnusedBefore,
     cleanupExpiredTemporaryFiles, Null
<1>7. ASSUME NEW w \in Workers, retrySelect(w) PROVE TaskEffect(p)
  <2>1. PICK f \in Files : task' = [task EXCEPT ![w] =
          [Task("retryClaim") EXCEPT !.files = {f}, !.snap = Snapshot(row[f])]]
    BY <1>7 DEF retrySelect
  <2>2. [Task("retryClaim") EXCEPT !.files = {f}, !.snap = Snapshot(row[f])].pc = "retryClaim"
    BY DEF Task
  <2> QED
    BY <2>1, <2>2, <1>f, <1>g
<1>8. ASSUME NEW w \in Workers, retryClaim(w) PROVE TaskEffect(p)
  <2> DEFINE snap  == task[w].snap
             claim == nextDeletionClaim(InstanceOf[w],
                        IF snap.deletionPendingAt # Null
                        THEN snap.deletionPendingAt ELSE snap.uploadPendingAt)
  <2>1. claim \in Nat /\ claim # Null
    BY <1>b, <1>c
  <2>2. PICK g \in task[w].files :
          \/ task' = [task EXCEPT ![w] = Task("idle")]
          \/ /\ SameMarkers(row[g], snap)
             /\ task' = [task EXCEPT ![w] = Deleting({g}, snap.uploadPendingAt, claim)]
             /\ row' = [row EXCEPT ![g] = Claimed(row[g], claim)]
    BY <1>8 DEF retryClaim
  <2>3. g \in Files
    BY <1>c
  <2> HIDE DEF claim, snap
  <2> QED
    BY <2>1, <2>2, <2>3, <1>f, <1>g, <1>h, TaskFields DEF SameMarkers
<1>9. ASSUME NEW q \in Procs, storageDelete(q) PROVE TaskEffect(p)
  <2>1. CASE q # p
    BY <2>1, <1>9, <1>e DEF storageDelete
  <2>2. CASE q = p
    <3>1. task[p] \in Tasks
      BY <1>c
    <3>2. \/ task'[p] = [task[p] EXCEPT !.pc = "release"]
          \/ task'[p] = [task[p] EXCEPT !.pc = "finalize"] /\ \A f \in task[p].files : ~obj'[f]
      <4>1. PICK gone \in SUBSET task[p].files, o \in {"ok", "none"} :
              /\ o = "ok" => gone = task[p].files
              /\ obj' = [f \in Files |-> obj[f] /\ f \notin gone]
              /\ task' = [task EXCEPT ![p] =
                   [task[p] EXCEPT !.pc = IF o = "ok" THEN "finalize" ELSE "release"]]
        BY <2>2, <1>9 DEF storageDelete
      <4>2. o = "ok" => \A f \in task[p].files : ~obj'[f]
        BY <4>1, <1>c
      <4>3. task'[p] = [task[p] EXCEPT !.pc = IF o = "ok" THEN "finalize" ELSE "release"]
        BY <4>1, <1>a
      <4> QED
        BY <4>2, <4>3
    <3> QED
      BY <2>2, <3>1, <3>2, <1>9 DEF storageDelete, TaskEffect, GoesOn, Tasks, DeletePcs
  <2> QED
    BY <2>1, <2>2
<1>10. ASSUME NEW q \in Procs, finalizePendingRows(q) PROVE TaskEffect(p)
  <2>1. CASE q # p
    BY <2>1, <1>10, <1>e DEF finalizePendingRows
  <2>2. CASE q = p
    <3>1. task[p] \in Tasks
      BY <1>c
    <3>2. \/ task'[p] = [task[p] EXCEPT !.pc = "release"]
          \/ task'[p] = [task[p] EXCEPT !.pc = "clear"] /\ task[p].uploadPendingAt = Null
          \/ task'[p] = EndOf(p)
      BY <2>2, <1>10, <1>a DEF finalizePendingRows
    <3>3. CASE task'[p] = EndOf(p)
      BY <3>3, <1>g, TaskFields DEF TaskEffect
    <3> QED
      BY <2>2, <3>1, <3>2, <3>3, <1>10 DEF finalizePendingRows, TaskEffect, GoesOn, Tasks,
         DeletePcs
  <2> QED
    BY <2>1, <2>2
<1>11. ASSUME NEW q \in Procs, clearFinalizedDeletionClaim(q) \/ releaseDeletionClaim(q)
       PROVE  TaskEffect(p)
  <2>1. task' = [task EXCEPT ![q] = EndOf(q)]
    BY <1>11 DEF clearFinalizedDeletionClaim, releaseDeletionClaim
  <2>2. EndOf(q).pc \notin DeletePcs
    BY <1>g, TaskFields
  <2> QED
    BY <2>1, <2>2, <1>f
<1>12. ASSUME NEW i \in Instances, crash(i) PROVE TaskEffect(p)
  <2>1. task'[p] = task[p] \/ task'[p] = EndOf(p)
    BY <1>12 DEF crash
  <2>2. CASE task'[p] = EndOf(p)
    BY <2>2, <1>g, TaskFields DEF TaskEffect
  <2> QED
    BY <2>1, <2>2, <1>d
<1>13. CASE task' = task
  BY <1>13, <1>d
<1>14. CASE tick \/ UNCHANGED vars \/ (\E fs \in SUBSET Files : markUsed(fs))
            \/ (\E f \in Files : landWrite(f) \/ landActivation(f)
                                 \/ unsafeSystemRetireUploadTombstone(f))
  BY <1>13, <1>14 DEF tick, vars, markUsed, landWrite, landActivation,
     unsafeSystemRetireUploadTombstone
<1> QED
  BY <1>1, <1>2, <1>3, <1>4, <1>6, <1>7, <1>8, <1>9, <1>10, <1>11, <1>12, <1>14
  DEF Next, Uploader, Sweep, deleteAndFinalizePendingRows

\* One step of f's uploader and of what it left under way.
UploaderEffect(f) ==
  /\ task'[f].pc = "new" => task[f].pc = "new"
  /\ task'[f].pc = "write" =>
       \/ task[f].pc = "write"
       \/ task[f].pc = "new" /\ row'[f].saved /\ row'[f].uploadPendingAt # Null
  /\ task'[f].pc = "activate" => \/ task[f].pc = "activate"
                                 \/ task[f].pc = "write" /\ obj'[f]
  /\ task[f].pc = "failed" => task'[f].pc = "failed"
  /\ mark'[f] = mark[f] \/ task[f].pc = "new"
  /\ lateActivate'[f] # Null => lateActivate[f] # Null \/ task[f].pc = "activate"
  /\ f \in lateWrite' => \/ f \in lateWrite
                         \/ task[f].pc = "write" /\ (LateWrites \/ task'[f].pc = "failed")

\* How a step moves the uploader of f: it sends an activation only after its write
\* was answered.
LEMMA UploaderStep == Base /\ [Next]_vars => \A f \in Files : UploaderEffect(f)
<1> SUFFICES ASSUME Base, [Next]_vars, NEW f \in Files PROVE UploaderEffect(f)
  OBVIOUS
<1> USE ProcsAssumption, TimingAssumption, OptionsAssumption DEF Procs, Goto
<1>a. /\ TypeOK /\ now \in Nat /\ now > 0 /\ task \in [Procs -> Tasks]
      /\ obj \in [Files -> BOOLEAN] /\ row \in [Files -> Rows]
      /\ mark \in [Files -> Nat] /\ lateActivate \in [Files -> Nat]
  BY DEF Base, TypeOK
<1>b. UNCHANGED << lateWrite, lateActivate, mark >> /\ task'[f] = task[f] => UploaderEffect(f)
  BY DEF UploaderEffect
<1>c. \A g \in Procs : \A t :
        /\ g # f /\ task' = [task EXCEPT ![g] = t]
        /\ mark' = mark \/ \E m : mark' = [mark EXCEPT ![g] = m]
        /\ lateActivate' = lateActivate \/ \E m : lateActivate' = [lateActivate EXCEPT ![g] = m]
        /\ lateWrite' = lateWrite \/ lateWrite' = lateWrite \cup {g}
        => UploaderEffect(f)
  <2> SUFFICES ASSUME NEW g \in Procs, NEW t, g # f, task' = [task EXCEPT ![g] = t],
                      mark' = mark \/ \E m : mark' = [mark EXCEPT ![g] = m],
                      \/ lateActivate' = lateActivate
                      \/ \E m : lateActivate' = [lateActivate EXCEPT ![g] = m],
                      lateWrite' = lateWrite \/ lateWrite' = lateWrite \cup {g}
               PROVE  UploaderEffect(f)
    OBVIOUS
  <2>1. /\ task'[f] = task[f] /\ mark'[f] = mark[f] /\ lateActivate'[f] = lateActivate[f]
        /\ f \in lateWrite' <=> f \in lateWrite
    BY <1>a
  <2> QED
    BY <2>1 DEF UploaderEffect
<1>d. \A g \in Procs : \A t :
        /\ task' = [task EXCEPT ![g] = t]
        /\ task[g].pc # "failed"
        /\ t.pc \notin {"new", "write", "activate"}
        /\ UNCHANGED << mark, lateActivate, lateWrite >>
        => UploaderEffect(f)
  <2> SUFFICES ASSUME NEW g \in Procs, NEW t, task' = [task EXCEPT ![g] = t],
                      task[g].pc # "failed", t.pc \notin {"new", "write", "activate"},
                      UNCHANGED << mark, lateActivate, lateWrite >>
               PROVE UploaderEffect(f)
    OBVIOUS
  <2>1. CASE g # f
    BY <2>1, <1>c
  <2>2. CASE g = f
    <3>1. task'[f] = t
      BY <2>2, <1>a
    <3> QED
      BY <2>2, <3>1 DEF UploaderEffect
  <2> QED
    BY <2>1, <2>2
<1>1. ASSUME NEW g \in Files, saveRow(g) PROVE UploaderEffect(f)
  <2>1. CASE g # f
    BY <2>1, <1>1, <1>c DEF saveRow
  <2>2. CASE g = f
    <3>1. \/ task'[f] = Task("failed")
          \/ task'[f] = Task("write") /\ row'[f] = PendingRow(now + ActivationLease)
      BY <2>2, <1>1, <1>a DEF saveRow
    <3>2. task'[f].pc = "failed" \/ (task'[f].pc = "write" /\ row'[f].saved
                                     /\ row'[f].uploadPendingAt # Null)
      BY <3>1, <1>a, TaskFields DEF PendingRow, Null
    <3>3. task[f].pc = "new" /\ UNCHANGED << lateWrite, lateActivate >>
      BY <2>2, <1>1 DEF saveRow
    <3> QED
      BY <3>2, <3>3 DEF UploaderEffect
  <2> QED
    BY <2>1, <2>2
<1>2. ASSUME NEW g \in Files, writeObject(g) PROVE UploaderEffect(f)
  <2>1. CASE g # f
    BY <2>1, <1>2, <1>c DEF writeObject
  <2>2. CASE g = f
    <3>1. \/ task'[f] = Task("cleanup")
          \/ task'[f] = Task("activate") /\ obj'[f]
      BY <2>2, <1>2, <1>a DEF writeObject
    <3>2. task'[f].pc = "cleanup" \/ (task'[f].pc = "activate" /\ obj'[f])
      BY <3>1, TaskFields
    <3>3. /\ task[f].pc = "write" /\ UNCHANGED << mark, lateActivate >>
          /\ f \in lateWrite' => f \in lateWrite \/ LateWrites
      BY <2>2, <1>2 DEF writeObject
    <3> QED
      BY <3>2, <3>3 DEF UploaderEffect
  <2> QED
    BY <2>1, <2>2
<1>3. ASSUME NEW g \in Files, activatePendingUpload(g) PROVE UploaderEffect(f)
  <2>1. CASE g # f
    BY <2>1, <1>3, <1>c DEF activatePendingUpload
  <2>2. CASE g = f
    <3>1. task'[f] = Task("done") \/ task'[f] = Task("confirm")
      BY <2>2, <1>3, <1>a DEF activatePendingUpload
    <3>2. task'[f].pc \in {"done", "confirm"}
      BY <3>1, TaskFields
    <3>3. task[f].pc = "activate" /\ UNCHANGED << mark, lateWrite >>
      BY <2>2, <1>3 DEF activatePendingUpload
    <3> QED
      BY <3>2, <3>3 DEF UploaderEffect
  <2> QED
    BY <2>1, <2>2
<1>4. ASSUME NEW g \in Files, confirmedActiveUpload(g) PROVE UploaderEffect(f)
  <2>1. PICK t : task' = [task EXCEPT ![g] = t] /\ t \in {Task("done"), Task("cleanup")}
    BY <1>4 DEF confirmedActiveUpload
  <2>2. t.pc \in {"done", "cleanup"}
    BY <2>1, TaskFields
  <2> QED
    BY <1>4, <2>1, <2>2, <1>d DEF confirmedActiveUpload
<1>5. ASSUME NEW g \in Files, cleanupFailedUpload(g) PROVE UploaderEffect(f)
  <2>1. PICK t : /\ task' = [task EXCEPT ![g] = t]
                 /\ t = Task("settle") \/ \E c : t = Deleting({g}, Null, c)
    BY <1>5 DEF cleanupFailedUpload
  <2>2. t.pc \in {"settle", "storage"}
    BY <2>1, TaskFields
  <2> QED
    BY <1>5, <2>1, <2>2, <1>d DEF cleanupFailedUpload
<1>6. ASSUME NEW g \in Files, settleRead(g) PROVE UploaderEffect(f)
  <2>1. PICK t : /\ task' = [task EXCEPT ![g] = t]
                 /\ \/ t = Task("failed")
                    \/ t = [Task("settleClaim") EXCEPT !.snap = Snapshot(row[g]),
                                                       !.tries = task[g].tries]
    BY <1>6 DEF settleRead
  <2>a. [Task("settleClaim") EXCEPT !.snap = Snapshot(row[g]),
                                    !.tries = task[g].tries].pc = "settleClaim"
    BY DEF Task
  <2>2. t.pc \in {"failed", "settleClaim"}
    BY <2>1, <2>a, TaskFields
  <2> QED
    BY <1>6, <2>1, <2>2, <1>d DEF settleRead
<1>7. ASSUME NEW g \in Files, settleClaim(g) PROVE UploaderEffect(f)
  <2> DEFINE again == [Task("settle") EXCEPT !.tries = task[g].tries + 1]
  <2>1. PICK t : /\ task' = [task EXCEPT ![g] = t]
                 /\ \/ t = Task("failed")
                    \/ t = again
                    \/ \E c : t = Deleting({g}, Null, c)
    BY <1>7 DEF settleClaim
  <2>2. again.pc = "settle"
    BY DEF Task
  <2> HIDE DEF again
  <2>3. t.pc \in {"failed", "settle", "storage"}
    BY <2>1, <2>2, TaskFields
  <2> QED
    BY <1>7, <2>1, <2>3, <1>d DEF settleClaim
<1>8. ASSUME NEW w \in Workers, Request(w) \/ Sweep(w) PROVE UploaderEffect(f)
  <2>1. /\ w # f /\ w \in Procs /\ UNCHANGED << mark, lateActivate, lateWrite >>
        /\ \E t : task' = [task EXCEPT ![w] = t]
    BY <1>8 DEF Request, Sweep, deleteReferences, unsafeSystemPurgeUnusedBefore,
       cleanupExpiredTemporaryFiles, ClaimActive, retrySelect, retryClaim
  <2> QED
    BY <2>1, <1>c
<1>9. ASSUME NEW p \in Procs, deleteAndFinalizePendingRows(p) PROVE UploaderEffect(f)
  <2>1. /\ UNCHANGED << mark, lateActivate, lateWrite >>
        /\ task[p].pc \in DeletePcs
    BY <1>9 DEF deleteAndFinalizePendingRows, storageDelete, finalizePendingRows,
       clearFinalizedDeletionClaim, releaseDeletionClaim, DeletePcs
  <2>2. PICK t : /\ task' = [task EXCEPT ![p] = t]
                 /\ t = EndOf(p) \/ \E pc \in DeletePcs : t = [task[p] EXCEPT !.pc = pc]
    BY <1>9 DEF deleteAndFinalizePendingRows, storageDelete, finalizePendingRows,
       clearFinalizedDeletionClaim, releaseDeletionClaim, DeletePcs
  <2>3. task[p] \in Tasks
    BY <1>a
  <2>4. t.pc \in DeletePcs \cup {"failed", "idle"}
    BY <2>2, <2>3, TaskFields DEF Tasks
  <2> QED
    BY <2>1, <2>2, <2>4, <1>d DEF DeletePcs
<1>10. ASSUME NEW g \in Files, landWrite(g) \/ landActivation(g)
                               \/ unsafeSystemRetireUploadTombstone(g)
       PROVE UploaderEffect(f)
  <2>1. task' = task /\ mark' = mark
    BY <1>10 DEF landWrite, landActivation, unsafeSystemRetireUploadTombstone
  <2>2. f \in lateWrite' => f \in lateWrite
    BY <1>10 DEF landWrite, landActivation, unsafeSystemRetireUploadTombstone
  <2>3. lateActivate'[f] # Null => lateActivate[f] # Null
    BY <1>10, <1>a DEF landWrite, landActivation, unsafeSystemRetireUploadTombstone
  <2> QED
    BY <2>1, <2>2, <2>3 DEF UploaderEffect
<1>11. ASSUME NEW i \in Instances, crash(i) PROVE UploaderEffect(f)
  <2>1. CASE task'[f] = task[f] /\ task[f].pc \in {"new", "idle", "done", "failed"}
    BY <2>1, <1>11 DEF crash, UploaderEffect
  <2>2. CASE InstanceOf[f] # i
    BY <2>2, <1>11 DEF crash, UploaderEffect
  <2>3. CASE task'[f] = EndOf(f) /\ task[f].pc \notin {"new", "idle", "done", "failed"}
    <3>1. task'[f].pc = "failed"
      BY <2>3 DEF EndOf, Task
    <3> QED
      BY <2>3, <3>1, <1>11 DEF crash, UploaderEffect
  <2> QED
    BY <2>1, <2>2, <2>3, <1>11 DEF crash
<1>12. CASE tick \/ UNCHANGED vars \/ \E fs \in SUBSET Files : markUsed(fs)
  BY <1>12, <1>b DEF tick, vars, markUsed
<1> QED
  BY <1>1, <1>2, <1>3, <1>4, <1>5, <1>6, <1>7, <1>8, <1>9, <1>10, <1>11, <1>12
  DEF Next, Uploader

-----------------------------------------------------------------------------
(* The invariants.                                                         *)

\* A claimed or soft-deleted row stays claimed or soft-deleted.
LEMMA DeadStep ==
  ASSUME Base, [Next]_vars, NEW f \in Files, Dead(row[f])
  PROVE  Dead(row'[f])
<1>1. RowEffect(f)
  BY RowStep
<1>2. ~Inserts(f) /\ ~Activates(f)
  BY DEF Inserts, Activates, pendingUploadWhere, Base, Born, Dead
<1> QED
  BY <1>1, <1>2 DEF RowEffect, Unmoved, Claims, Settles, SoftDeletes, Clears, Dead, Null

\* Every step keeps types, the clock and the birth of rows.
LEMMA BaseStep == Base /\ [Next]_vars => Base'
<1> SUFFICES ASSUME Base, [Next]_vars PROVE Base'
  OBVIOUS
<1>1. TypeOK'
  BY TypeStep DEF Base
<1>2. now' > 0
  <2>1. now' = now \/ now' = now + TickMs
    BY DEF Next, Uploader, Request, Sweep, deleteAndFinalizePendingRows, vars, saveRow,
       writeObject, activatePendingUpload, confirmedActiveUpload, cleanupFailedUpload,
       settleRead, settleClaim, deleteReferences, unsafeSystemPurgeUnusedBefore,
       cleanupExpiredTemporaryFiles, ClaimActive, markUsed, retrySelect, retryClaim,
       unsafeSystemRetireUploadTombstone, storageDelete, finalizePendingRows,
       clearFinalizedDeletionClaim, releaseDeletionClaim, landWrite, landActivation, crash, tick
  <2> QED
    BY <2>1, TimingAssumption DEF Base, TypeOK
<1>3. ASSUME NEW f \in Files PROVE Born(f)'
  <2>1. RowEffect(f) /\ UploaderEffect(f) /\ ObjEffect(f) /\ Born(f)
    BY RowStep, UploaderStep, ObjStep DEF Base
  <2>2. /\ row[f] \in Rows /\ row'[f] \in Rows /\ obj[f] \in BOOLEAN /\ obj'[f] \in BOOLEAN
        /\ row[f].uploadPendingAt \in Nat /\ row'[f].uploadPendingAt \in Nat
        /\ row[f].deletionPendingAt \in Nat /\ row'[f].deletionPendingAt \in Nat
        /\ row[f].saved \in BOOLEAN /\ row'[f].saved \in BOOLEAN
        /\ mark[f] \in Nat /\ mark'[f] \in Nat
    BY <1>1 DEF Base, TypeOK, Rows
  <2>3. CASE Inserts(f)
    <3>1. /\ row'[f].saved /\ row'[f].uploadPendingAt = mark'[f] /\ row'[f].deletionPendingAt = Null
          /\ mark'[f] > 1 /\ task'[f].pc # "new"
      BY <2>3 DEF Inserts, PendingRow
    <3> QED
      BY <3>1, <2>2 DEF Born, Null
  <2>4. CASE ~Inserts(f) /\ ~row[f].saved
    <3>1. Unmoved(f)
      BY <2>1, <2>4 DEF RowEffect, Activates, pendingUploadWhere, Claims, Settles, SoftDeletes, Clears
    <3>2. /\ ~row'[f].saved /\ row'[f].uploadPendingAt = Null /\ ~Dead(row'[f])
      BY <3>1, <2>1, <2>2, <2>4 DEF Unmoved, Born, Dead
    <3>3. task[f].pc \notin {"write", "activate"} /\ f \notin lateWrite
      BY <2>1, <2>4 DEF Born
    <3>4. task'[f].pc \notin {"write", "activate"} /\ f \notin lateWrite'
      BY <3>2, <3>3, <2>1 DEF UploaderEffect
    <3>5. ~obj'[f]
      BY <2>1, <2>2, <2>4, <3>3 DEF ObjEffect, Born
    <3>6. task'[f].pc = "new" => lateActivate'[f] = Null
      BY <2>1 DEF UploaderEffect, Born
    <3> QED
      BY <3>2, <3>4, <3>5, <3>6 DEF Born
  <2>5. CASE ~Inserts(f) /\ row[f].saved
    <3>1. row'[f].saved
      BY <2>1, <2>2, <2>5 DEF RowEffect, Unmoved, Activates, Claims, Settles, SoftDeletes, Clears
    <3>2. task[f].pc # "new" /\ task'[f].pc # "new" /\ mark'[f] = mark[f]
      BY <2>1, <2>5 DEF Born, UploaderEffect
    <3>3. row'[f].uploadPendingAt # Null =>
            row'[f].uploadPendingAt > 1 /\ row'[f].deletionPendingAt # 1
      <4>1. CASE row'[f].uploadPendingAt = Null
        BY <4>1
      <4>2. CASE Claims(f)
        BY <2>1, <2>2, <4>2 DEF Claims, Born
      <4>3. CASE Unmoved(f) \/ SoftDeletes(f)
        BY <2>1, <4>3 DEF Unmoved, SoftDeletes, Born
      <4> QED
        BY <2>1, <2>5, <4>1, <4>2, <4>3 DEF RowEffect, Activates, Settles, Clears
    <3> QED
      BY <2>1, <2>5, <3>1, <3>2, <3>3 DEF Born
  <2> QED
    BY <2>3, <2>4, <2>5
<1> QED
  BY <1>1, <1>2, <1>3 DEF Base

\* No step of anyone revives a row under a deleter: a sweep that restores a soft-
\* deleted row gives it a new claim in the same UPDATE.
LEMMA DeleterStep ==
  ASSUME Base, [Next]_vars, NEW p \in Procs, Deleter(p)
  PROVE  Deleter(p)'
<1>1. TaskEffect(p)
  BY TaskStep
<1>2. CASE HasClaimed(p)
  BY <1>2 DEF HasClaimed, Deleter, Dead
<1>3. CASE GoesOn(p)
  <2>1. task[p].files \subseteq Files
    BY DEF Base, TypeOK, Tasks
  <2> QED
    BY <1>3, <2>1, DeadStep DEF GoesOn, Deleter
<1> QED
  BY <1>1, <1>2, <1>3 DEF TaskEffect, Deleter

\* Bytes of a row that is not claimed are not deleted.
LEMMA ObjKept ==
  ASSUME BytesInv, [Next]_vars, NEW f \in Files, obj[f], ~Dead(row'[f])
  PROVE  obj'[f]
<1>1. ~Dead(row[f])
  BY DeadStep DEF BytesInv
<1>2. \A p \in Procs : ~(task[p].pc = "storage" /\ f \in task[p].files)
  BY <1>1 DEF BytesInv, Deleter, DeletePcs
<1> QED
  BY <1>2, ObjStep DEF BytesInv, Base, ObjEffect

\* Storage is emptied only under dead rows, and activations are sent only after
\* the write.
LEMMA LandedStep ==
  ASSUME BytesInv, [Next]_vars, NEW f \in Files
  PROVE  Landed(f)'
<1> SUFFICES ASSUME row'[f].saved, ~Dead(row'[f]),
                    row'[f].uploadPendingAt = Null \/ task'[f].pc = "activate"
                    \/ lateActivate'[f] # Null
             PROVE  obj'[f]
  BY DEF Landed
<1>1. RowEffect(f) /\ UploaderEffect(f) /\ Born(f) /\ Landed(f) /\ ~Dead(row[f])
  BY RowStep, UploaderStep, DeadStep DEF BytesInv, Base
<1>2. CASE task'[f].pc = "activate" /\ task[f].pc = "write" /\ obj'[f]
  BY <1>2
<1>3. CASE task[f].pc = "activate" \/ lateActivate[f] # Null
  <2>1. task[f].pc # "new"
    BY <1>1, <1>3 DEF Born
  <2>2. CASE row[f].saved
    BY <1>1, <1>3, <2>2, ObjKept DEF Landed
  <2>3. CASE ~row[f].saved
    BY <1>1, <2>1, <2>3 DEF RowEffect, Unmoved, Inserts, Activates, pendingUploadWhere,
       Claims, Settles, SoftDeletes, Clears
  <2> QED
    BY <2>2, <2>3
<1>4. CASE row'[f].uploadPendingAt = Null /\ ~(task[f].pc = "activate" \/ lateActivate[f] # Null)
  <2>1. ~Inserts(f)
    <3>1. Inserts(f) => row'[f].uploadPendingAt = mark'[f] /\ mark'[f] > 1
      BY DEF Inserts, PendingRow
    <3> QED
      BY <1>4, <3>1 DEF Null
  <2>2. ~Settles(f) /\ ~Activates(f)
    BY <1>4 DEF Settles, Activates, Dead, Null
  <2>3. row[f].saved /\ row[f].uploadPendingAt = Null
    BY <1>1, <1>4, <2>1, <2>2 DEF RowEffect, Unmoved, Claims, SoftDeletes, Clears
  <2> QED
    BY <1>1, <2>3, ObjKept DEF Landed
<1> QED
  BY <1>1, <1>2, <1>3, <1>4 DEF UploaderEffect

\* The invariant is inductive.
LEMMA BytesStep == BytesInv /\ [Next]_vars => BytesInv'
BY BaseStep, DeleterStep, LandedStep DEF BytesInv

\* The invariant holds before the first upload.
LEMMA BytesInit == Init => BytesInv
<1> SUFFICES ASSUME Init PROVE BytesInv
  OBVIOUS
<1>1. TypeOK
  BY InitType
<1>2. ASSUME NEW p \in Procs PROVE task[p].pc \in {"new", "idle"}
  BY <1>2, TaskFields DEF Init
<1>3. ASSUME NEW p \in Procs PROVE Deleter(p)
  BY <1>2, <1>3 DEF Deleter, DeletePcs
<1>4. ASSUME NEW f \in Files PROVE Born(f) /\ Landed(f)
  <2>1. task[f].pc \in {"new", "idle"}
    BY <1>2 DEF Procs
  <2> QED
    BY <1>4, <2>1 DEF Init, NoRow, Born, Landed, Dead, Null
<1> QED
  BY <1>1, <1>3, <1>4 DEF BytesInv, Base, Init

\* The invariant behind ActiveHasBytes holds at all times.
LEMMA BytesAlways == Spec => []BytesInv
BY BytesInit, BytesStep, PTL DEF Spec

\* A row that requests can see never lost its bytes, in every interleaving of
\* uploadLegacy, its late activation UPDATE, deletions, sweeps and crashes.
THEOREM ActiveBytes == Spec => []ActiveHasBytes
<1>1. BytesInv => ActiveHasBytes
  BY DEF BytesInv, ActiveHasBytes, Landed, where, Dead
<1> QED
  BY <1>1, BytesAlways, PTL

\* A row claimed for deletion or soft-deleted never becomes visible again.
THEOREM Resurrection == Spec => NoResurrection
<1>1. BytesInv /\ [Next]_vars => [\A f \in Files : Dead(row[f]) => ~where(row[f])']_vars
  <2> SUFFICES ASSUME BytesInv, [Next]_vars, NEW f \in Files, Dead(row[f])
               PROVE  ~where(row[f])'
    OBVIOUS
  <2>1. Dead(row'[f])
    BY DeadStep DEF BytesInv
  <2> QED
    BY <2>1 DEF where, Dead
<1> QED
  BY <1>1, BytesAlways, PTL DEF Spec, NoResurrection

-----------------------------------------------------------------------------

\* While a write is under way, the row keeps its upload marker.
LEMMA MarkerKept ==
  ASSUME OrphanInv, [Next]_vars, NEW f \in Files,
         task[f].pc = "write" \/ f \in lateWrite
  PROVE  row'[f].saved /\ row'[f].uploadPendingAt # Null
<1>1. RowEffect(f) /\ Writing(f) /\ Born(f)
  BY RowStep DEF OrphanInv, BytesInv, Base
<1>2. row[f].saved /\ row[f].uploadPendingAt # Null /\ task[f].pc \in {"write", "failed"}
      /\ lateActivate[f] = Null /\ (task[f].pc = "failed" => f \in lateWrite)
  BY <1>1 DEF Writing, Born
<1> QED
  BY <1>1, <1>2 DEF RowEffect, Unmoved, Inserts, Activates, Claims, Settles, SoftDeletes, Clears

\* Only the uploader that gave up, the late activation of written bytes and the
\* operator remove uploadPendingAt, and none of them while a write is under way.
LEMMA WritingStep ==
  ASSUME LateWrites = FALSE, OrphanInv, [Next]_vars, NEW f \in Files
  PROVE  Writing(f)'
<1>1. UploaderEffect(f) /\ Writing(f) /\ Born(f)
  BY UploaderStep DEF OrphanInv, BytesInv, Base
<1>2. f \in lateWrite' => task'[f].pc = "failed"
  BY <1>1 DEF UploaderEffect, Writing
<1>3. CASE task[f].pc = "write" \/ f \in lateWrite
  BY <1>1, <1>2, <1>3, MarkerKept DEF UploaderEffect, Writing
<1>4. CASE ~(task[f].pc = "write" \/ f \in lateWrite)
  BY <1>1, <1>2, <1>4 DEF UploaderEffect, Writing, Born
<1> QED
  BY <1>3, <1>4

\* Between its storage.delete and its clear a settled deleter sees no new bytes.
LEMMA EmptiedStep ==
  ASSUME OrphanInv, [Next]_vars, NEW p \in Procs
  PROVE  Emptied(p)'
<1>1. TaskEffect(p) /\ Emptied(p) /\ Deleter(p) /\ task[p].files \subseteq Files
  BY TaskStep DEF OrphanInv, BytesInv, Base, TypeOK, Tasks
<1>2. CASE task'[p].pc \notin DeletePcs
  BY <1>2 DEF Emptied, DeletePcs
<1>3. CASE HasClaimed(p)
  BY <1>3 DEF HasClaimed, Emptied
<1>4. CASE GoesOn(p)
  <2>1. task'[p].pc = "clear" => task'[p].uploadPendingAt = Null
    BY <1>1, <1>4 DEF GoesOn, Emptied
  <2>2. ASSUME NEW f \in task[p].files, task[p].uploadPendingAt = Null
        PROVE  row'[f].uploadPendingAt = Null
               /\ (task'[p].pc \in {"finalize", "clear"} => ~obj'[f])
    <3>1. /\ f \in Files /\ RowEffect(f) /\ ObjEffect(f) /\ Born(f) /\ Writing(f)
          /\ row[f].uploadPendingAt = Null /\ Dead(row[f])
          /\ task[p].pc \in {"finalize", "clear"} => ~obj[f]
      BY <1>1, <1>4, <2>2, RowStep, ObjStep DEF OrphanInv, BytesInv, Base, GoesOn, Emptied, Deleter
    <3>2. row[f].saved /\ task[f].pc \notin {"new", "write"} /\ f \notin lateWrite
      BY <3>1 DEF Born, Writing
    <3>3. row'[f].uploadPendingAt = Null
      BY <3>1, <3>2 DEF RowEffect, Unmoved, Inserts, Activates, Claims, Settles, SoftDeletes, Clears
    <3>4. ~obj[f] => ~obj'[f]
      BY <3>1, <3>2 DEF ObjEffect, OrphanInv, BytesInv, Base, TypeOK
    <3> QED
      BY <1>4, <2>2, <3>1, <3>3, <3>4 DEF GoesOn
  <2> QED
    BY <1>4, <2>1, <2>2 DEF GoesOn, Emptied
<1> QED
  BY <1>1, <1>2, <1>3, <1>4 DEF TaskEffect

\* No step drops the last marker of a row whose key still holds bytes.
LEMMA TrackedStep == OrphanInv /\ [Next]_vars => NoOrphan'
<1> SUFFICES ASSUME OrphanInv, [Next]_vars, NEW f \in Files, obj'[f]
             PROVE  Tracked(row'[f])
  BY DEF NoOrphan
<1>1. RowEffect(f) /\ ObjEffect(f) /\ Born(f)
  BY RowStep, ObjStep DEF OrphanInv, BytesInv, Base
<1>2. CASE task[f].pc = "write" \/ f \in lateWrite
  BY <1>2, MarkerKept DEF Tracked
<1>3. CASE ~(task[f].pc = "write" \/ f \in lateWrite)
  <2>1. obj[f] /\ Tracked(row[f])
    BY <1>1, <1>3 DEF ObjEffect, OrphanInv, NoOrphan, BytesInv, Base, TypeOK
  <2>2. ~Clears(f)
    BY <2>1 DEF Clears, OrphanInv, Emptied, DeletePcs
  <2>3. ~Inserts(f)
    BY <1>1, <2>1 DEF Inserts, Born
  <2>4. SoftDeletes(f) => row[f].deletionPendingAt # Null
    BY DEF SoftDeletes, OrphanInv, BytesInv, Deleter, DeletePcs, Dead
  <2>5. CASE Unmoved(f)
    BY <2>1, <2>5 DEF Unmoved, Tracked, where
  <2>6. CASE Activates(f)
    BY <2>6 DEF Activates, Tracked, where
  <2>7. CASE Claims(f) \/ Settles(f)
    BY <2>7 DEF Claims, Settles, Tracked, Null
  <2>8. CASE SoftDeletes(f)
    BY <2>4, <2>8 DEF SoftDeletes, Tracked
  <2> QED
    BY <1>1, <2>2, <2>3, <2>5, <2>6, <2>7, <2>8 DEF RowEffect
<1> QED
  BY <1>2, <1>3

\* The invariant behind NoOrphan holds at all times.
LEMMA OrphanAlways == ASSUME LateWrites = FALSE PROVE Spec => []OrphanInv
<1>1. Init => OrphanInv
  <2> SUFFICES ASSUME Init PROVE OrphanInv
    OBVIOUS
  <2>1. \A p \in Procs : task[p].pc \in {"new", "idle"}
    BY TaskFields DEF Init
  <2>2. \A p \in Procs : Emptied(p)
    BY <2>1 DEF Emptied, DeletePcs
  <2>3. ASSUME NEW f \in Files PROVE Writing(f)
    <3>1. task[f].pc \in {"new", "idle"}
      BY <2>1 DEF Procs
    <3> QED
      BY <3>1 DEF Init, Writing
  <2>4. NoOrphan
    BY DEF NoOrphan, Init
  <2> QED
    BY <2>2, <2>3, <2>4, BytesInit DEF OrphanInv
<1>2. OrphanInv /\ [Next]_vars => OrphanInv'
  BY BytesStep, WritingStep, EmptiedStep, TrackedStep DEF OrphanInv
<1> QED
  BY <1>1, <1>2, PTL DEF Spec

\* Unless storage executes a write that it had reported as failed, uploadLegacy
\* and every deletion leave "either no object or durable recovery state".
THEOREM NoOrphans == ASSUME LateWrites = FALSE PROVE Spec => []NoOrphan
<1>1. OrphanInv => NoOrphan
  BY DEF OrphanInv
<1> QED
  BY <1>1, OrphanAlways, PTL

-----------------------------------------------------------------------------
(* The outbox implements StoredFile.                                       *)

\* The stage of a row: alive it is hidden or visible, dead it is one or forgotten.
LEMMA StageFacts ==
  ASSUME NEW r
  PROVE  /\ StageOf(r) \in StoredFiles!Stages
         /\ ~r.saved => StageOf(r) = "absent"
         /\ where(r) => StageOf(r) = "visible"
         /\ r.saved /\ Dead(r) /\ Tracked(r) => StageOf(r) = "dead"
         /\ r.saved /\ Dead(r) /\ ~Tracked(r) => StageOf(r) = "forgotten"
         /\ r.saved /\ ~Dead(r) /\ r.uploadPendingAt # Null => StageOf(r) = "hidden"
         /\ r.saved /\ ~Dead(r) /\ r.uploadPendingAt = Null => StageOf(r) = "visible"
<1>1. where(r) => r.saved /\ Tracked(r) /\ ~Dead(r)
  BY DEF where, Tracked, Dead
<1>2. r.saved /\ ~Dead(r) /\ r.uploadPendingAt = Null => where(r)
  BY DEF where, Dead
<1>3. r.saved /\ ~Dead(r) => Tracked(r)
  BY <1>2 DEF Tracked
<1>4. r.uploadPendingAt # Null => ~where(r)
  BY DEF where
<1>5. CASE ~r.saved
  BY <1>1, <1>5 DEF StageOf, StoredFiles!Stages
<1>6. CASE where(r)
  BY <1>1, <1>4, <1>6 DEF StageOf, StoredFiles!Stages
<1>7. CASE r.saved /\ ~where(r) /\ ~Tracked(r)
  BY <1>2, <1>3, <1>7 DEF StageOf, StoredFiles!Stages
<1>8. CASE r.saved /\ ~where(r) /\ Tracked(r) /\ Dead(r)
  BY <1>8 DEF StageOf, StoredFiles!Stages
<1>9. CASE r.saved /\ ~where(r) /\ Tracked(r) /\ ~Dead(r)
  BY <1>2, <1>9 DEF StageOf, StoredFiles!Stages
<1> QED
  BY <1>5, <1>6, <1>7, <1>8, <1>9

\* No step changes both the table and the storage.
LEMMA RowOrObject == [Next]_vars => row' = row \/ obj' = obj
<1> SUFFICES ASSUME [Next]_vars PROVE row' = row \/ obj' = obj
  OBVIOUS
<1>1. ASSUME NEW f \in Files,
             \/ saveRow(f) \/ writeObject(f) \/ activatePendingUpload(f) \/ confirmedActiveUpload(f)
             \/ cleanupFailedUpload(f) \/ settleRead(f) \/ settleClaim(f) \/ landWrite(f)
             \/ landActivation(f) \/ unsafeSystemRetireUploadTombstone(f)
      PROVE  row' = row \/ obj' = obj
  BY <1>1 DEF saveRow, writeObject, activatePendingUpload, confirmedActiveUpload, cleanupFailedUpload,
     settleRead, settleClaim, landWrite, landActivation, unsafeSystemRetireUploadTombstone
<1>2. ASSUME NEW w \in Workers, Request(w) \/ Sweep(w) PROVE row' = row \/ obj' = obj
  BY <1>2 DEF Request, Sweep, deleteReferences, unsafeSystemPurgeUnusedBefore,
     cleanupExpiredTemporaryFiles, ClaimActive, retrySelect, retryClaim
<1>3. ASSUME NEW p \in Procs, deleteAndFinalizePendingRows(p) PROVE row' = row \/ obj' = obj
  BY <1>3 DEF deleteAndFinalizePendingRows, storageDelete, finalizePendingRows,
     clearFinalizedDeletionClaim, releaseDeletionClaim
<1>4. CASE tick \/ UNCHANGED vars \/ \E i \in Instances : crash(i)
  BY <1>4 DEF tick, vars, crash
<1>5. ASSUME NEW fs \in SUBSET Files, markUsed(fs) PROVE row' = row \/ obj' = obj
  BY <1>5 DEF markUsed
<1> QED
  BY <1>1, <1>2, <1>3, <1>4, <1>5 DEF Next, Uploader

\* One step on one file is a step of its life, or none.
Lives(s, t, before, after) ==
  \/ t = s /\ after = before
  \/ s = "absent" /\ t = "hidden" /\ after = before
  \/ s \in {"hidden", "dead"} /\ t = s /\ after
  \/ before /\ s = "hidden" /\ t = "visible" /\ after = before
  \/ s \in {"hidden", "visible", "forgotten"} /\ t = "dead" /\ after = before
  \/ s = "dead" /\ t = "dead" /\ ~after
  \/ ~before /\ s = "dead" /\ t = "forgotten" /\ after = before

\* A write fills a hidden or dead file, a deletion empties a dead one.
LEMMA ObjectLives ==
  ASSUME OrphanInv, [Next]_vars, row' = row, NEW f \in Files
  PROVE  Lives(StageOf(row[f]), StageOf(row'[f]), obj[f], obj'[f])
<1>1. ObjEffect(f) /\ Born(f) /\ Writing(f) /\ (obj[f] => Tracked(row[f])) /\ obj[f] \in BOOLEAN
  BY ObjStep DEF OrphanInv, BytesInv, Base, NoOrphan, TypeOK
<1>2. obj'[f] \in BOOLEAN
  BY TypeStep DEF OrphanInv, BytesInv, Base, TypeOK
<1>3. CASE obj'[f] = obj[f]
  BY <1>3 DEF Lives
<1>4. CASE obj'[f] /\ (task[f].pc = "write" \/ f \in lateWrite)
  <2>1. row[f].saved /\ row[f].uploadPendingAt # Null
    BY <1>1, <1>4 DEF Born, Writing
  <2>2. Tracked(row[f])
    BY <2>1 DEF Tracked
  <2>3. StageOf(row[f]) \in {"hidden", "dead"}
    BY <2>1, <2>2, StageFacts
  <2> QED
    BY <1>4, <2>3 DEF Lives
<1>5. CASE ~obj'[f] /\ obj[f] /\ \E p \in Procs : task[p].pc = "storage" /\ f \in task[p].files
  <2>1. Dead(row[f])
    BY <1>5 DEF OrphanInv, BytesInv, Deleter, DeletePcs
  <2>2. row[f].saved /\ Tracked(row[f])
    BY <1>1, <1>5 DEF Tracked
  <2>3. StageOf(row[f]) = "dead"
    BY <2>1, <2>2, StageFacts
  <2> QED
    BY <1>5, <2>3 DEF Lives
<1> QED
  BY <1>1, <1>2, <1>3, <1>4, <1>5 DEF ObjEffect

\* What a statement does to a row is a step of the file's life.
LEMMA RowLives ==
  ASSUME OrphanInv, [Next]_vars, obj' = obj, NEW f \in Files
  PROVE  Lives(StageOf(row[f]), StageOf(row'[f]), obj[f], obj'[f])
<1> DEFINE r == row[f]
           s == row'[f]
<1>1. RowEffect(f) /\ Born(f) /\ Landed(f) /\ r \in Rows /\ r.saved \in BOOLEAN /\ obj[f] \in BOOLEAN
  BY RowStep DEF OrphanInv, BytesInv, Base, TypeOK, Rows
<1>2. r.saved /\ Dead(r) => StageOf(r) = IF Tracked(r) THEN "dead" ELSE "forgotten"
  BY StageFacts
<1>3. r.saved /\ ~Dead(r) => StageOf(r) \in {"hidden", "visible"}
  BY StageFacts
<1>4. r.saved => StageOf(r) \in {"hidden", "visible", "forgotten", "dead"}
  BY <1>2, <1>3
<1>5. CASE Unmoved(f)
  <2>1. where(s) = where(r) /\ Tracked(s) = Tracked(r) /\ Dead(s) = Dead(r) /\ s.saved = r.saved
    BY <1>5 DEF Unmoved, where, Tracked, Dead
  <2>2. StageOf(s) = StageOf(r)
    BY <2>1 DEF StageOf
  <2> QED
    BY <2>2 DEF Lives
<1>6. CASE Inserts(f)
  <2>1. ~r.saved
    BY <1>1, <1>6 DEF Inserts, Born
  <2>2. s.saved /\ s.uploadPendingAt > 1 /\ ~Dead(s)
    BY <1>6 DEF Inserts, PendingRow, Dead, Null
  <2>3. StageOf(r) = "absent" /\ StageOf(s) = "hidden"
    BY <2>1, <2>2, StageFacts DEF Null
  <2> QED
    BY <2>3 DEF Lives
<1>7. CASE Activates(f)
  <2>1. r.saved /\ ~Dead(r) /\ r.uploadPendingAt # Null
    BY <1>1, <1>7 DEF Activates, pendingUploadWhere, Dead, Born, Null
  <2>2. obj[f]
    BY <1>1, <1>7, <2>1 DEF Activates, Landed
  <2>3. where(s)
    BY <1>7 DEF Activates, where
  <2>4. StageOf(r) = "hidden" /\ StageOf(s) = "visible"
    BY <2>1, <2>3, StageFacts
  <2> QED
    BY <2>2, <2>4 DEF Lives
<1>8. CASE Claims(f) \/ Settles(f)
  <2>1. r.saved /\ s.saved /\ Dead(s) /\ Tracked(s)
    BY <1>8 DEF Claims, Settles, Dead, Tracked, Null
  <2>2. StageOf(s) = "dead"
    BY <2>1, StageFacts
  <2> QED
    BY <1>4, <2>1, <2>2 DEF Lives
<1>9. CASE SoftDeletes(f)
  <2>1. r.saved /\ s.saved /\ Dead(r) /\ r.deletionPendingAt # Null /\ s.deletionPendingAt # Null
    BY <1>9 DEF SoftDeletes, OrphanInv, BytesInv, Deleter, DeletePcs, Dead
  <2>2. Tracked(r) /\ Tracked(s) /\ Dead(s)
    BY <2>1 DEF Tracked, Dead
  <2>3. StageOf(r) = "dead" /\ StageOf(s) = "dead"
    BY <2>1, <2>2, StageFacts
  <2> QED
    BY <2>3 DEF Lives
<1>10. CASE Clears(f)
  <2>1. r.saved /\ s.saved /\ Dead(r) /\ Dead(s)
    BY <1>10 DEF Clears, Dead
  <2>2. ~obj[f]
    BY <1>10 DEF Clears, OrphanInv, Emptied, DeletePcs
  <2>3. StageOf(r) \in {"dead", "forgotten"} /\ StageOf(s) \in {"dead", "forgotten"}
    BY <2>1, StageFacts
  <2> QED
    BY <2>2, <2>3 DEF Lives
<1> QED
  BY <1>1, <1>5, <1>6, <1>7, <1>8, <1>9, <1>10 DEF RowEffect

\* Every step of the outbox is a step of StoredFile on every file.
LEMMA StoredStep == OrphanInv /\ [Next]_vars => [StoredFiles!StoredNext]_(StoredFiles!storedVars)
<1> SUFFICES ASSUME OrphanInv, [Next]_vars PROVE StoredFiles!StoredNext
  OBVIOUS
<1> DEFINE old == [f \in Files |-> StageOf(row[f])]
           new == [f \in Files |-> StageOf(row'[f])]
<1>1. new \in [Files -> StoredFiles!Stages] /\ obj' \in [Files -> BOOLEAN]
  <2>1. \A f \in Files : StageOf(row'[f]) \in StoredFiles!Stages
    BY StageFacts
  <2>2. obj' \in [Files -> BOOLEAN]
    BY TypeStep DEF OrphanInv, BytesInv, Base, TypeOK
  <2> QED
    BY <2>1, <2>2
<1>2. ASSUME NEW f \in Files PROVE Lives(old[f], new[f], obj[f], obj'[f])
  <2>1. Lives(StageOf(row[f]), StageOf(row'[f]), obj[f], obj'[f])
    BY RowOrObject, ObjectLives, RowLives
  <2> QED
    BY <2>1
<1>3. ASSUME NEW f \in Files
      PROVE  \/ StoredFiles!Rest(f) \/ StoredFiles!Reserve(f) \/ StoredFiles!Store(f) \/ StoredFiles!Publish(f)
             \/ StoredFiles!Condemn(f) \/ StoredFiles!Erase(f) \/ StoredFiles!Forget(f)
  BY <1>2 DEF Lives, StoredFiles!Rest, StoredFiles!Reserve, StoredFiles!Store, StoredFiles!Publish,
     StoredFiles!Condemn, StoredFiles!Erase, StoredFiles!Forget, StoredFiles!Moves
<1> QED
  BY <1>1, <1>3 DEF StoredFiles!StoredNext

\* The outbox implements the life of a file for any files, workers, instances and
\* leases, unless storage executes a write that it had reported as failed: no
\* upload, activation, deletion, sweep, crash or late statement shows a file
\* without bytes, takes the bytes of a visible one, revives a dead one or forgets
\* a key that holds bytes.
THEOREM StoredRefinement == ASSUME LateWrites = FALSE PROVE Spec => ImplementsStoredFile
<1>1. Init => StoredFiles!StoredInit
  <2> SUFFICES ASSUME Init PROVE StoredFiles!StoredInit
    OBVIOUS
  <2>1. \A f \in Files : row[f] = NoRow /\ ~NoRow.saved
    BY DEF Init, NoRow
  <2>2. \A f \in Files : StageOf(row[f]) = "absent"
    BY <2>1, StageFacts
  <2> QED
    BY <2>2 DEF Init, StoredFiles!StoredInit
<1> QED
  BY <1>1, OrphanAlways, StoredStep, PTL DEF Spec, ImplementsStoredFile, StoredFiles!StoredSpec

-----------------------------------------------------------------------------
(* Claims are tokens.  A deleter that lost its row must never see its own  *)
(* claim in the row again.  Markers do not only grow: a release writes a   *)
(* marker that may lie before claims of the past, and the operator's       *)
(* retirement one before the present.                                      *)

\* No instance runs ahead of a lease from now with its claims by more than the
\* time a release backs off; in the code, more takes 60 000 claims beyond the clock.
Paced == \A i \in Instances : lastClaim[i] <= now + ClaimLease + Backoff

\* The uploader of f claims no more.
Ended(f) == task[f].pc \in DeletePcs \cup {"done", "failed"}

\* Claim c is below every claim the row of f can still get: below all of the
\* future, or the row's own, or the row is claimed only when its marker elapsed.
Below(c, f) ==
  \/ c < now + ClaimLease
  \/ c = row[f].deletionPendingAt
  \/ /\ Ended(f)
     /\ row[f].deletionPendingAt # Null => c <= row[f].deletionPendingAt + ClaimLease

Holds(p, f) == task[p].pc \in DeletePcs /\ f \in task[p].files

\* A claim is near the present and below those to come.
Ordered(p, f) ==
  Holds(p, f) => /\ task[p].claim <= now + ClaimLease + Backoff
                 /\ Below(task[p].claim, f)

\* A soft-deleted row that has lost its claim has no upload marker either.
Cleared(f) ==
  row[f].deletedAt # NotDeleted /\ row[f].deletionPendingAt = Null =>
    row[f].uploadPendingAt = Null

\* A sweep claims what it saw elapsed.
Selected(p) ==
  task[p].pc = "retryClaim" =>
    \/ Elapsed(task[p].snap.deletionPendingAt)
    \/ task[p].snap.deletionPendingAt = Null /\ Elapsed(task[p].snap.uploadPendingAt)

\* The inductive invariant behind ClaimsDistinct.
TokenInv ==
  /\ BytesInv
  /\ \A f \in Files : Cleared(f)
  /\ \A p \in Procs : Selected(p)
  /\ \A p \in Procs, f \in Files : Ordered(p, f)
  /\ ClaimsDistinct

\* What one step does to claims: process q keeps its own,
Keeps(q) ==
  task'[q].pc \in DeletePcs =>
    task[q].pc \in DeletePcs /\ task'[q].files = task[q].files /\ task'[q].claim = task[q].claim

\* ... the row of f its marker,
Marked(f) == row'[f].deletionPendingAt = row[f].deletionPendingAt

\* ... p replaces the marker of a row that is alive, or whose marker it saw elapse,
\* or of its own upload and for the last time,
Claimable(p, f) ==
  \/ ~Dead(row[f])
  \/ Elapsed(row[f].deletionPendingAt)
  \/ row[f].deletionPendingAt = Null /\ row[f].uploadPendingAt # Null
  \/ p = f /\ ~Ended(f) /\ Ended(f)'

Takes(p, fs, c) ==
  /\ now' = now
  /\ \A q \in Procs \ {p} : Keeps(q)
  /\ task'[p].pc \in DeletePcs => task'[p].files = fs /\ task'[p].claim = c
  /\ c >= now + ClaimLease /\ c = lastClaim'[InstanceOf[p]]
  /\ \A f \in fs : /\ Claimable(p, f)
                   /\ row'[f].deletionPendingAt = c /\ c > row[f].deletionPendingAt
  /\ \A f \in Files \ fs : Marked(f)

\* ... p gives up the rows that still carry its claim,
GivesUp(p) ==
  /\ now' = now
  /\ \A q \in Procs \ {p} : Keeps(q)
  /\ task[p].pc \in DeletePcs /\ task'[p].pc \notin DeletePcs
  /\ \A f \in Files : \/ Marked(f)
                      \/ /\ f \in task[p].files /\ row[f].deletionPendingAt = task[p].claim
                         /\ row'[f].deletionPendingAt \in {Null, retryBackoffMarker}

\* ... the operator retires a tombstone whose markers have elapsed,
Retires(f) ==
  /\ now' = now
  /\ \A q \in Procs : Keeps(q)
  /\ row[f].uploadPendingAt # Null
  /\ row[f].deletionPendingAt = Null \/ Elapsed(row[f].deletionPendingAt)
  /\ \A g \in Files \ {f} : Marked(g)

\* ... or none of these.
NoClaim == now' >= now /\ (\A q \in Procs : Keeps(q)) /\ \A f \in Files : Marked(f)

\* One of these, and an uploader that has ended does not go on.
ClaimEffect ==
  /\ \A f \in Files : Ended(f) => Ended(f)'
  /\ \/ NoClaim
     \/ \E p \in Procs, fs \in SUBSET Files, c \in Nat : Takes(p, fs, c)
     \/ \E p \in Procs : GivesUp(p)
     \/ \E f \in Files : Retires(f)

\* A new claim is a lease beyond the present and beyond the marker it replaces.
LEMMA ClaimAhead ==
  ASSUME TypeOK, NEW p \in Procs, NEW e \in Nat
  PROVE  /\ nextDeletionClaim(InstanceOf[p], e) >= now + ClaimLease
         /\ nextDeletionClaim(InstanceOf[p], e) > e
BY ProcsAssumption, TimingAssumption DEF TypeOK, nextDeletionClaim, Later

\* Every statement, storage call, crash and clock step has one of these effects
\* on claims.
LEMMA ClaimStep ==
  ASSUME Base, \A p \in Procs : Selected(p), [Next]_vars
  PROVE  ClaimEffect
<1> USE ProcsAssumption, TimingAssumption DEF Procs, Goto
<1>a. /\ TypeOK /\ now \in Nat /\ now > 0 /\ task \in [Procs -> Tasks] /\ row \in [Files -> Rows]
      /\ lastClaim \in [Instances -> Nat] /\ mark \in [Files -> Nat]
  BY DEF Base, TypeOK
<1>b. \A f \in Files : /\ row[f] \in Rows /\ row[f].deletionPendingAt \in Nat
                       /\ row[f].uploadPendingAt \in Nat /\ row[f].expiredAt \in Nat
  BY <1>a DEF Rows
<1>c. \A q \in Procs : /\ task[q] \in Tasks /\ task[q].files \subseteq Files
                       /\ task[q].snap.deletionPendingAt \in Nat
                       /\ task[q].snap.uploadPendingAt \in Nat
  BY <1>a DEF Tasks, Snapshots
<1>d. \A q \in Procs, e \in Nat : /\ nextDeletionClaim(InstanceOf[q], e) \in Nat
                                  /\ nextDeletionClaim(InstanceOf[q], e) >= now + ClaimLease
                                  /\ nextDeletionClaim(InstanceOf[q], e) > e
                                  /\ nextDeletionClaim(InstanceOf[q], e) > Null
  BY <1>a, ClaimType, ClaimAhead DEF Null
<1>e. \A q \in Procs : task'[q] = task[q] => Keeps(q)
  BY DEF Keeps
<1>f. \A q \in Procs : \A t : task' = [task EXCEPT ![q] = t]
        => /\ task'[q] = t
           /\ \A r \in Procs \ {q} : task'[r] = task[r] /\ Keeps(r)
  BY <1>a, <1>e
<1> DEFINE KeepAll == \A q \in Procs : Keeps(q)
           EndAll  == \A f \in Files : Ended(f) => Ended(f)'
           MarkAll == \A f \in Files : Marked(f)
           Last(t) == t.pc \in DeletePcs \cup {"done", "failed"}
           Taken(q, fs, c) ==
             /\ \A r \in Procs \ {q} : Keeps(r)
             /\ task'[q].pc \in DeletePcs => task'[q].files = fs /\ task'[q].claim = c
<1>g. \A q \in Procs : \A t : task' = [task EXCEPT ![q] = t] /\ t.pc \notin DeletePcs
        => KeepAll /\ \A fs, c : Taken(q, fs, c)
  <2> SUFFICES ASSUME NEW q \in Procs, NEW t, task' = [task EXCEPT ![q] = t], t.pc \notin DeletePcs
               PROVE  KeepAll /\ \A fs, c : Taken(q, fs, c)
    OBVIOUS
  <2>1. task'[q].pc \notin DeletePcs /\ \A r \in Procs \ {q} : Keeps(r)
    BY <1>f
  <2>2. Keeps(q)
    BY <2>1 DEF Keeps
  <2> QED
    BY <2>1, <2>2
<1>h. \A q \in Procs : \A t :
        task' = [task EXCEPT ![q] = t] /\ (q \in Files /\ Last(task[q]) => Last(t)) => EndAll
  BY <1>f DEF Ended
<1>i. task' = task => KeepAll /\ EndAll
  BY <1>e DEF Ended
<1>j. row' = row => MarkAll
  BY DEF Marked
<1>k. \A f \in Files : \A r : row' = [row EXCEPT ![f] = r]
        => /\ row'[f] = r /\ \A g \in Files \ {f} : Marked(g)
           /\ r.deletionPendingAt = row[f].deletionPendingAt => MarkAll
  BY <1>a DEF Marked
<1>l. DeletePcs = {"storage", "finalize", "clear", "release"}
  BY DEF DeletePcs
<1>m. \A q : EndOf(q).pc \notin DeletePcs /\ (q \in Files => Last(EndOf(q)))
  BY <1>l, TaskFields DEF EndOf
<1>n. \A q \in Procs : \A fs, m, c : task' = [task EXCEPT ![q] = Deleting(fs, m, c)]
        => Taken(q, fs, c) /\ Last(Deleting(fs, m, c))
  <2> SUFFICES ASSUME NEW q \in Procs, NEW fs, NEW m, NEW c,
                      task' = [task EXCEPT ![q] = Deleting(fs, m, c)]
               PROVE  Taken(q, fs, c) /\ Last(Deleting(fs, m, c))
    OBVIOUS
  <2>1. /\ Deleting(fs, m, c).pc = "storage" /\ Deleting(fs, m, c).files = fs
        /\ Deleting(fs, m, c).claim = c
    BY DEF Deleting, Task
  <2>2. task'[q] = Deleting(fs, m, c) /\ \A r \in Procs \ {q} : Keeps(r)
    BY <1>f
  <2> QED
    BY <2>1, <2>2, <1>l
<1>o. /\ \A pc : Task(pc).pc = pc
      /\ \A pc \in {"idle", "settle", "failed"} : Task(pc).pc \notin DeletePcs
      /\ Last(Task("failed"))
  BY <1>l, TaskFields
<1>p. \A f \in Files, c \in Nat : /\ Claimed(row[f], c).deletionPendingAt = c
                                  /\ Settled(row[f], c).deletionPendingAt = c
                                  /\ Activated(f, row[f], c).deletionPendingAt = row[f].deletionPendingAt
  BY <1>b, RowFields
<1>q. \A f \in Files : \A d : /\ [row[f] EXCEPT !.deletedAt = d].deletionPendingAt = row[f].deletionPendingAt
                              /\ [row[f] EXCEPT !.isUsed = TRUE].deletionPendingAt = row[f].deletionPendingAt
                              /\ [row[f] EXCEPT !.deletionPendingAt = d].deletionPendingAt = d
  BY <1>b, ColumnFields
<1>r. KeepAll /\ EndAll /\ MarkAll /\ (now' = now \/ now' >= now) => ClaimEffect
  BY <1>a DEF ClaimEffect, NoClaim
<1>s. \A p \in Procs, fs \in SUBSET Files, c \in Nat : EndAll /\ Takes(p, fs, c) => ClaimEffect
  BY DEF ClaimEffect
<1> HIDE DEF KeepAll, EndAll, MarkAll, Last, Taken
<1>t. \A f \in Files : \A t :
        /\ task' = [task EXCEPT ![f] = t]
        /\ t.pc \in {"write", "activate", "confirm", "cleanup", "settleClaim", "done", "failed"}
        /\ task[f].pc \in {"new", "write", "activate", "confirm", "settle"}
        => KeepAll /\ EndAll
  <2> SUFFICES ASSUME NEW f \in Files, NEW t,
                      task' = [task EXCEPT ![f] = t],
                      t.pc \in {"write", "activate", "confirm", "cleanup", "settleClaim", "done", "failed"},
                      task[f].pc \in {"new", "write", "activate", "confirm", "settle"}
               PROVE  KeepAll /\ EndAll
    OBVIOUS
  <2>1. t.pc \notin DeletePcs /\ ~Last(task[f])
    BY <1>l DEF Last
  <2> QED
    BY <2>1, <1>g, <1>h
<1>1. ASSUME NEW f \in Files, saveRow(f) PROVE ClaimEffect
  <2>1. row[f].deletionPendingAt = Null /\ PendingRow(now + ActivationLease).deletionPendingAt = Null
    BY <1>1 DEF saveRow, PendingRow, Base, Born, Dead
  <2>2. row' = row \/ row' = [row EXCEPT ![f] = PendingRow(now + ActivationLease)]
    BY <1>1 DEF saveRow
  <2>3. MarkAll
    BY <2>1, <2>2, <1>j, <1>k
  <2>4. PICK t : task' = [task EXCEPT ![f] = t] /\ t.pc \in {"write", "failed"}
    BY <1>1, <1>o DEF saveRow
  <2>5. task[f].pc = "new" /\ now' = now
    BY <1>1 DEF saveRow
  <2> QED
    BY <2>3, <2>4, <2>5, <1>r, <1>t
<1>2. ASSUME NEW f \in Files, writeObject(f) \/ confirmedActiveUpload(f) PROVE ClaimEffect
  <2>1. PICK t : task' = [task EXCEPT ![f] = t] /\ t.pc \in {"activate", "cleanup", "done"}
    BY <1>2, <1>o DEF writeObject, confirmedActiveUpload
  <2>2. task[f].pc \in {"write", "confirm"} /\ now' = now /\ row' = row
    BY <1>2 DEF writeObject, confirmedActiveUpload
  <2> QED
    BY <2>1, <2>2, <1>j, <1>r, <1>t
<1>3. ASSUME NEW f \in Files, activatePendingUpload(f) PROVE ClaimEffect
  <2>1. row' = row \/ row' = [row EXCEPT ![f] = Activated(f, row[f], now)]
    BY <1>3 DEF activatePendingUpload
  <2>2. MarkAll
    BY <2>1, <1>a, <1>j, <1>k, <1>p
  <2>3. PICK t : task' = [task EXCEPT ![f] = t] /\ t.pc \in {"done", "confirm"}
    BY <1>3, <1>o DEF activatePendingUpload
  <2>4. task[f].pc = "activate" /\ now' = now
    BY <1>3 DEF activatePendingUpload
  <2> QED
    BY <2>2, <2>3, <2>4, <1>r, <1>t
<1>4. ASSUME NEW f \in Files, settleRead(f) PROVE ClaimEffect
  <2> DEFINE u == [Task("settleClaim") EXCEPT !.snap = Snapshot(row[f]), !.tries = task[f].tries]
  <2>1. u.pc = "settleClaim"
    BY DEF Task
  <2>2. task' = [task EXCEPT ![f] = Task("failed")] \/ task' = [task EXCEPT ![f] = u]
    BY <1>4 DEF settleRead
  <2> HIDE DEF u
  <2>3. PICK t : task' = [task EXCEPT ![f] = t] /\ t.pc \in {"failed", "settleClaim"}
    BY <2>1, <2>2, <1>o
  <2>4. task[f].pc = "settle" /\ now' = now /\ row' = row
    BY <1>4 DEF settleRead
  <2> QED
    BY <2>3, <2>4, <1>j, <1>r, <1>t
<1>5. ASSUME NEW f \in Files, cleanupFailedUpload(f) PROVE ClaimEffect
  <2>1. PICK c : c = nextDeletionClaim(InstanceOf[f], mark[f])
    OBVIOUS
  <2>2. c \in Nat /\ c >= now + ClaimLease /\ c > Null
    BY <2>1, <1>a, <1>d
  <2>3. PICK o \in Outcomes :
          LET hit == pendingUploadWhere(row[f], mark[f]) IN
          /\ UseClaim(f, c, hit /\ o # "none")
          /\ row' = IF hit /\ o # "none" THEN [row EXCEPT ![f] = Settled(row[f], c)] ELSE row
          /\ task' = [task EXCEPT ![f] = IF hit /\ o = "ok" THEN Deleting({f}, Null, c)
                                         ELSE Task("settle")]
    BY <1>5, <2>1 DEF cleanupFailedUpload
  <2>4. task[f].pc = "cleanup" /\ now' = now
    BY <1>5 DEF cleanupFailedUpload
  <2>5. EndAll
    <3>1. ~Last(task[f])
      BY <2>4, <1>l DEF Last
    <3> QED
      BY <2>3, <3>1, <1>h
  <2>6. CASE row' = row /\ task' = [task EXCEPT ![f] = Task("settle")]
    BY <2>4, <2>5, <2>6, <1>g, <1>j, <1>o, <1>r
  <2>7. CASE pendingUploadWhere(row[f], mark[f]) /\ o # "none"
    <3>1. row'[f].deletionPendingAt = c /\ \A g \in Files \ {f} : Marked(g)
      <4>1. row' = [row EXCEPT ![f] = Settled(row[f], c)]
        BY <2>3, <2>7
      <4>2. row'[f] = Settled(row[f], c) /\ \A g \in Files \ {f} : Marked(g)
        BY <4>1, <1>k
      <4> QED
        BY <2>2, <4>2, <1>p
    <3>2. lastClaim'[InstanceOf[f]] = c
      BY <2>3, <2>7, <1>a DEF UseClaim
    <3>3. ~Dead(row[f]) /\ row[f].deletionPendingAt = Null
      BY <2>7 DEF pendingUploadWhere, Dead
    <3>4. Taken(f, {f}, c)
      BY <2>3, <1>g, <1>n, <1>o
    <3>5. Takes(f, {f}, c)
      BY <2>2, <2>4, <3>1, <3>2, <3>3, <3>4 DEF Takes, Taken, Claimable
    <3> QED
      BY <2>2, <2>5, <3>5, <1>s
  <2> QED
    BY <2>3, <2>6, <2>7
<1>6. ASSUME NEW f \in Files, settleClaim(f) PROVE ClaimEffect
  <2>1. PICK s : s = task[f].snap
    OBVIOUS
  <2>2. PICK c : c = nextDeletionClaim(InstanceOf[f], IF s.deletionPendingAt # Null
                                                      THEN s.deletionPendingAt ELSE mark[f])
    OBVIOUS
  <2>3. c \in Nat /\ c >= now + ClaimLease /\ c > s.deletionPendingAt
    BY <2>1, <2>2, <1>a, <1>c, <1>d
  <2>4. PICK again : again = [Task("settle") EXCEPT !.tries = task[f].tries + 1]
    OBVIOUS
  <2>5. again.pc = "settle"
    BY <2>4 DEF Task
  <2>6. PICK o \in Outcomes :
          LET hit == SameMarkers(row[f], s) IN
          /\ UseClaim(f, c, hit /\ o # "none")
          /\ row' = IF hit /\ o # "none" THEN [row EXCEPT ![f] = Settled(row[f], c)] ELSE row
          /\ \/ hit /\ o = "ok" /\ task' = [task EXCEPT ![f] = Deleting({f}, Null, c)]
             \/ o # "ok" /\ task' = [task EXCEPT ![f] = Task("failed")]
             \/ ~hit /\ (task' = [task EXCEPT ![f] = Task("failed")] \/ task' = [task EXCEPT ![f] = again])
    BY <1>6, <2>1, <2>2, <2>4 DEF settleClaim
  <2>7. task[f].pc = "settleClaim" /\ now' = now
    BY <1>6 DEF settleClaim
  <2>8. ~Last(task[f]) /\ EndAll
    <3>1. ~Last(task[f])
      BY <2>7, <1>l DEF Last
    <3> QED
      BY <2>6, <3>1, <1>h
  <2>9. CASE ~SameMarkers(row[f], s) \/ o = "none"
    <3>1. again.pc \notin DeletePcs
      BY <2>5, <1>l
    <3>2. row' = row /\ KeepAll
      BY <2>6, <2>9, <3>1, <1>g, <1>o
    <3> QED
      BY <2>7, <2>8, <3>2, <1>j, <1>r
  <2>10. CASE SameMarkers(row[f], s) /\ o # "none"
    <3>1. row'[f].deletionPendingAt = c /\ \A g \in Files \ {f} : Marked(g)
      <4>1. row' = [row EXCEPT ![f] = Settled(row[f], c)]
        BY <2>6, <2>10
      <4>2. row'[f] = Settled(row[f], c) /\ \A g \in Files \ {f} : Marked(g)
        BY <4>1, <1>k
      <4> QED
        BY <2>3, <4>2, <1>p
    <3>2. lastClaim'[InstanceOf[f]] = c
      BY <2>6, <2>10, <1>a DEF UseClaim
    <3>3. c > row[f].deletionPendingAt
      BY <2>3, <2>10 DEF SameMarkers
    <3>4. \/ task' = [task EXCEPT ![f] = Deleting({f}, Null, c)]
          \/ task' = [task EXCEPT ![f] = Task("failed")]
      BY <2>6, <2>10
    <3>5. Taken(f, {f}, c)
      BY <3>4, <1>g, <1>n, <1>o
    <3>6. ~Ended(f) /\ Ended(f)'
      <4>1. Last(task'[f])
        BY <3>4, <1>f, <1>n, <1>o
      <4> QED
        BY <2>8, <4>1 DEF Last, Ended
    <3>7. Takes(f, {f}, c)
      BY <2>3, <2>7, <3>1, <3>2, <3>3, <3>5, <3>6 DEF Takes, Taken, Claimable
    <3> QED
      BY <2>3, <2>8, <3>7, <1>s
  <2> QED
    BY <2>9, <2>10
<1>7. ASSUME NEW w \in Workers, NEW fs \in SUBSET Files, NEW e \in Nat, ClaimActive(w, fs, e)
      PROVE  ClaimEffect
  <2>1. PICK c : c = nextDeletionClaim(InstanceOf[w], e)
    OBVIOUS
  <2>2. c \in Nat /\ c >= now + ClaimLease /\ c > Null
    BY <2>1, <1>d
  <2>3. PICK o \in Outcomes :
          /\ UseClaim(w, c, o # "none")
          /\ row' = IF o = "none" THEN row
                    ELSE [f \in Files |-> IF f \in fs THEN Claimed(row[f], c) ELSE row[f]]
          /\ task' = [task EXCEPT ![w] = IF o = "ok" THEN Deleting(fs, Null, c) ELSE Task("idle")]
    BY <1>7, <2>1 DEF ClaimActive
  <2>4. now' = now /\ w \notin Files /\ \A f \in fs : where(row[f])
    BY <1>7 DEF ClaimActive
  <2>5. EndAll
    BY <2>3, <2>4, <1>h
  <2>6. CASE o = "none"
    <3>1. row' = row /\ KeepAll
      BY <2>3, <2>6, <1>g, <1>o
    <3> QED
      BY <2>4, <2>5, <3>1, <1>j, <1>r
  <2>7. CASE o # "none"
    <3>1. \A f \in fs : row'[f].deletionPendingAt = c
      BY <2>2, <2>3, <2>7, <1>p
    <3>2. \A f \in Files \ fs : Marked(f)
      BY <2>3, <2>7 DEF Marked
    <3>3. lastClaim'[InstanceOf[w]] = c
      BY <2>3, <2>7, <1>a DEF UseClaim
    <3>4. \A f \in fs : ~Dead(row[f]) /\ row[f].deletionPendingAt = Null
      BY <2>4 DEF where, Dead
    <3>5. Taken(w, fs, c)
      BY <2>3, <1>g, <1>n, <1>o
    <3>6. Takes(w, fs, c)
      BY <2>2, <2>4, <3>1, <3>2, <3>3, <3>4, <3>5 DEF Takes, Taken, Claimable
    <3> QED
      BY <2>2, <2>5, <3>6, <1>s
  <2> QED
    BY <2>6, <2>7
<1>8. ASSUME NEW w \in Workers, Request(w) \/ cleanupExpiredTemporaryFiles(w) PROVE ClaimEffect
  BY <1>7, <1>8, <1>b DEF Request, deleteReferences, unsafeSystemPurgeUnusedBefore,
     cleanupExpiredTemporaryFiles, Null
<1>9. ASSUME NEW w \in Workers, retrySelect(w) PROVE ClaimEffect
  <2>1. PICK f \in Files : task' = [task EXCEPT ![w] =
          [Task("retryClaim") EXCEPT !.files = {f}, !.snap = Snapshot(row[f])]]
    BY <1>9 DEF retrySelect
  <2>2. [Task("retryClaim") EXCEPT !.files = {f}, !.snap = Snapshot(row[f])].pc = "retryClaim"
    BY DEF Task
  <2>3. w \notin Files /\ now' = now /\ row' = row
    BY <1>9 DEF retrySelect
  <2> QED
    <3>1. KeepAll /\ EndAll
      <4>1. "retryClaim" \notin DeletePcs
        BY <1>l
      <4> QED
        BY <2>1, <2>2, <2>3, <4>1, <1>g, <1>h
    <3> QED
      BY <2>3, <3>1, <1>j, <1>r
<1>10. ASSUME NEW w \in Workers, retryClaim(w) PROVE ClaimEffect
  <2>1. PICK s : s = task[w].snap
    OBVIOUS
  <2>2. PICK c : c = nextDeletionClaim(InstanceOf[w], IF s.deletionPendingAt # Null
                                                      THEN s.deletionPendingAt ELSE s.uploadPendingAt)
    OBVIOUS
  <2>3. c \in Nat /\ c >= now + ClaimLease /\ c > s.deletionPendingAt
    BY <2>1, <2>2, <1>a, <1>c, <1>d
  <2>4. PICK f \in task[w].files, o \in Outcomes :
          LET hit == SameMarkers(row[f], s) IN
          /\ UseClaim(w, c, hit /\ o # "none")
          /\ row' = IF hit /\ o # "none" THEN [row EXCEPT ![f] = Claimed(row[f], c)] ELSE row
          /\ task' = [task EXCEPT ![w] = IF hit /\ o = "ok" THEN Deleting({f}, s.uploadPendingAt, c)
                                         ELSE Task("idle")]
    BY <1>10, <2>1, <2>2 DEF retryClaim
  <2>5. now' = now /\ w \notin Files /\ task[w].pc = "retryClaim" /\ f \in Files
    BY <1>10, <1>c DEF retryClaim
  <2>6. EndAll
    BY <2>4, <2>5, <1>h
  <2>7. CASE ~SameMarkers(row[f], s) \/ o = "none"
    <3>1. row' = row /\ KeepAll
      BY <2>4, <2>7, <1>g, <1>o
    <3> QED
      BY <2>5, <2>6, <3>1, <1>j, <1>r
  <2>8. CASE SameMarkers(row[f], s) /\ o # "none"
    <3>1. row'[f].deletionPendingAt = c /\ \A g \in Files \ {f} : Marked(g)
      <4>1. row' = [row EXCEPT ![f] = Claimed(row[f], c)]
        BY <2>4, <2>8
      <4>2. row'[f] = Claimed(row[f], c) /\ \A g \in Files \ {f} : Marked(g)
        BY <2>5, <4>1, <1>k
      <4> QED
        BY <2>3, <2>5, <4>2, <1>p
    <3>2. lastClaim'[InstanceOf[w]] = c
      BY <2>4, <2>8, <1>a DEF UseClaim
    <3>3. c > row[f].deletionPendingAt
      BY <2>3, <2>8 DEF SameMarkers
    <3>4. Claimable(w, f)
      BY <2>1, <2>5, <2>8 DEF Selected, SameMarkers, Claimable, Elapsed
    <3>5. Taken(w, {f}, c)
      BY <2>4, <1>g, <1>n, <1>o
    <3>6. Takes(w, {f}, c)
      BY <2>3, <2>5, <3>1, <3>2, <3>3, <3>4, <3>5 DEF Takes, Taken
    <3> QED
      BY <2>3, <2>5, <2>6, <3>6, <1>s
  <2> QED
    BY <2>7, <2>8
<1>11. ASSUME NEW p \in Procs, storageDelete(p) PROVE ClaimEffect
  <2>1. PICK pc \in DeletePcs : task' = [task EXCEPT ![p] = [task[p] EXCEPT !.pc = pc]]
    BY <1>11, <1>l DEF storageDelete
  <2>2. now' = now /\ row' = row /\ task[p].pc = "storage"
    BY <1>11 DEF storageDelete
  <2>3. PICK t : t = [task[p] EXCEPT !.pc = pc]
    OBVIOUS
  <2>4. t.pc = pc /\ t.files = task[p].files /\ t.claim = task[p].claim
    BY <2>3, <1>c DEF Tasks
  <2>5. KeepAll
    BY <2>1, <2>2, <2>3, <2>4, <1>f, <1>l DEF KeepAll, Keeps
  <2>6. EndAll
    BY <2>1, <2>3, <2>4, <1>h DEF Last
  <2> QED
    BY <2>2, <2>5, <2>6, <1>j, <1>r
<1>12. ASSUME NEW p \in Procs, finalizePendingRows(p) PROVE ClaimEffect
  <2>1. /\ now' = now /\ task[p].pc = "finalize"
        /\ \/ \E pc \in DeletePcs : task' = [task EXCEPT ![p] = [task[p] EXCEPT !.pc = pc]]
           \/ task' = [task EXCEPT ![p] = EndOf(p)]
    BY <1>12, <1>l DEF finalizePendingRows
  <2>2. PICK t : /\ task' = [task EXCEPT ![p] = t]
                 /\ \/ t.pc \in DeletePcs /\ t.files = task[p].files /\ t.claim = task[p].claim
                    \/ t = EndOf(p)
    <3>1. \A pc : /\ [task[p] EXCEPT !.pc = pc].pc = pc
                  /\ [task[p] EXCEPT !.pc = pc].files = task[p].files
                  /\ [task[p] EXCEPT !.pc = pc].claim = task[p].claim
      BY <1>c DEF Tasks
    <3>2. CASE task' = [task EXCEPT ![p] = EndOf(p)]
      BY <3>2
    <3>3. CASE \E pc \in DeletePcs : task' = [task EXCEPT ![p] = [task[p] EXCEPT !.pc = pc]]
      <4>1. PICK pc \in DeletePcs : task' = [task EXCEPT ![p] = [task[p] EXCEPT !.pc = pc]]
        BY <3>3
      <4>2. PICK t : t = [task[p] EXCEPT !.pc = pc]
        OBVIOUS
      <4>3. task' = [task EXCEPT ![p] = t]
        BY <4>1, <4>2
      <4>4. t.pc \in DeletePcs /\ t.files = task[p].files /\ t.claim = task[p].claim
        BY <3>1, <4>1, <4>2
      <4> QED
        BY <4>3, <4>4
    <3> QED
      BY <2>1, <3>2, <3>3
  <2>3. KeepAll
    BY <2>1, <2>2, <1>f, <1>l, <1>m DEF KeepAll, Keeps
  <2>4. EndAll
    BY <2>2, <1>h, <1>m DEF Last
  <2>5. MarkAll
    <3>1. \A f \in Files : row'[f] = row[f] \/ \E d : row'[f] = [row[f] EXCEPT !.deletedAt = d]
      <4>1. PICK o \in Outcomes, us \in SubMs :
              row' = IF o = "none" THEN row
                     ELSE [f \in Files |->
                             IF f \in {g \in task[p].files : pendingDeletionWhere(row[g], task[p])}
                             THEN [row[f] EXCEPT !.deletedAt = [ms |-> now, us |-> us]]
                             ELSE row[f]]
        BY <1>12 DEF finalizePendingRows
      <4> QED
        BY <4>1
    <3> QED
      <4> SUFFICES ASSUME NEW f \in Files PROVE Marked(f)
        BY DEF MarkAll
      <4>1. CASE row'[f] = row[f]
        BY <4>1 DEF Marked
      <4>2. CASE \E d : row'[f] = [row[f] EXCEPT !.deletedAt = d]
        BY <4>2, <1>q DEF Marked
      <4> QED
        BY <3>1, <4>1, <4>2
  <2> QED
    BY <2>1, <2>3, <2>4, <2>5, <1>r
<1>13. ASSUME NEW p \in Procs, clearFinalizedDeletionClaim(p) \/ releaseDeletionClaim(p)
       PROVE  ClaimEffect
  <2>1. /\ task' = [task EXCEPT ![p] = EndOf(p)] /\ task[p].pc \in DeletePcs /\ now' = now
    BY <1>13, <1>l DEF clearFinalizedDeletionClaim, releaseDeletionClaim
  <2>2. EndAll
    BY <2>1, <1>h, <1>m
  <2>3. \A f \in Files :
          \/ row'[f] = row[f]
          \/ /\ f \in task[p].files /\ row[f].deletionPendingAt = task[p].claim
             /\ \E m \in {Null, retryBackoffMarker} : row'[f] = [row[f] EXCEPT !.deletionPendingAt = m]
    <3>1. CASE clearFinalizedDeletionClaim(p)
      BY <3>1 DEF clearFinalizedDeletionClaim
    <3>2. CASE releaseDeletionClaim(p)
      BY <3>2 DEF releaseDeletionClaim, pendingDeletionWhere
    <3> QED
      BY <3>1, <3>2, <1>13
  <2>4. \A f \in Files :
          \/ Marked(f)
          \/ /\ f \in task[p].files /\ row[f].deletionPendingAt = task[p].claim
             /\ row'[f].deletionPendingAt \in {Null, retryBackoffMarker}
    <3> TAKE f \in Files
    <3>1. CASE row'[f] = row[f]
      BY <3>1 DEF Marked
    <3>2. CASE row'[f] # row[f]
      <4>1. PICK m \in {Null, retryBackoffMarker} : row'[f] = [row[f] EXCEPT !.deletionPendingAt = m]
        BY <2>3, <3>2
      <4>2. row'[f].deletionPendingAt = m
        BY <4>1, <1>q
      <4> QED
        BY <2>3, <3>2, <4>2
    <3> QED
      BY <3>1, <3>2
  <2>5. GivesUp(p)
    BY <2>1, <2>4, <1>f, <1>m DEF GivesUp
  <2> QED
    BY <2>2, <2>5 DEF ClaimEffect, EndAll
<1>14. ASSUME NEW f \in Files, unsafeSystemRetireUploadTombstone(f) PROVE ClaimEffect
  <2>1. /\ now' = now /\ task' = task /\ row[f].uploadPendingAt # Null
        /\ row[f].deletionPendingAt = Null \/ Elapsed(row[f].deletionPendingAt)
        /\ \E r : row' = [row EXCEPT ![f] = r]
    BY <1>14 DEF unsafeSystemRetireUploadTombstone, Elapsed
  <2>2. Retires(f)
    BY <2>1, <1>i, <1>k DEF Retires, KeepAll
  <2> QED
    BY <2>1, <2>2, <1>i DEF ClaimEffect, EndAll
<1>15. ASSUME NEW fs \in SUBSET Files, markUsed(fs) PROVE ClaimEffect
  <2>1. now' = now /\ task' = task
    BY <1>15 DEF markUsed
  <2>2. \A f \in Files : row'[f] = row[f] \/ row'[f] = [row[f] EXCEPT !.isUsed = TRUE]
    BY <1>15, <1>a DEF markUsed
  <2>3. MarkAll
    BY <2>2, <1>q DEF MarkAll, Marked
  <2> QED
    BY <2>1, <2>3, <1>i, <1>r
<1>16. ASSUME NEW f \in Files, landActivation(f) PROVE ClaimEffect
  <2>1. now' = now /\ task' = task
    BY <1>16 DEF landActivation
  <2>2. row' = row \/ row' = [row EXCEPT ![f] = Activated(f, row[f], lateActivate[f])]
    BY <1>16 DEF landActivation
  <2>3. lateActivate[f] \in Nat
    BY <1>a DEF TypeOK
  <2>4. MarkAll
    BY <2>2, <2>3, <1>j, <1>k, <1>p
  <2> QED
    BY <2>1, <2>4, <1>i, <1>r
<1>17. ASSUME NEW i \in Instances, crash(i) PROVE ClaimEffect
  <2>1. \A q \in Procs : task'[q] = task[q] \/ task'[q] = EndOf(q)
    BY <1>17 DEF crash
  <2>2. now' = now /\ row' = row
    BY <1>17 DEF crash
  <2>3. KeepAll
    BY <2>1, <1>m DEF KeepAll, Keeps
  <2>4. EndAll
    BY <2>1, <1>m DEF EndAll, Ended, Last
  <2> QED
    BY <2>2, <2>3, <2>4, <1>j, <1>r
<1>18. CASE tick \/ UNCHANGED vars \/ \E f \in Files : landWrite(f)
  <2>1. task' = task /\ row' = row /\ now' >= now
    BY <1>18, <1>a DEF tick, vars, landWrite
  <2> QED
    BY <2>1, <1>i, <1>j, <1>r
<1> QED
  BY <1>1, <1>2, <1>3, <1>4, <1>5, <1>6, <1>8, <1>9, <1>10, <1>11, <1>12, <1>13, <1>14, <1>15,
     <1>16, <1>17, <1>18
  DEF Next, Uploader, Sweep, deleteAndFinalizePendingRows

\* A soft-deleted row loses its claim only with its upload marker gone.
LEMMA ClearedStep ==
  ASSUME BytesInv, [Next]_vars, NEW f \in Files, Cleared(f)
  PROVE  Cleared(f)'
<1>1. RowEffect(f)
  BY RowStep DEF BytesInv
<1>2. CASE Inserts(f)
  BY <1>2 DEF Inserts, PendingRow, Cleared
<1>3. CASE SoftDeletes(f)
  <2>1. Dead(row[f])
    BY <1>3 DEF SoftDeletes, BytesInv, Deleter, DeletePcs
  <2> QED
    BY <1>3, <2>1 DEF SoftDeletes, Dead, Cleared
<1> QED
  BY <1>1, <1>2, <1>3 DEF RowEffect, Unmoved, Activates, Claims, Settles, Clears, Cleared, Null

\* What a sweep saw elapsed stays elapsed.
LEMMA SelectedStep ==
  ASSUME Base, [Next]_vars, NEW p \in Procs, Selected(p)
  PROVE  Selected(p)'
<1> SUFFICES ASSUME task'[p].pc = "retryClaim" PROVE Selected(p)'
  BY DEF Selected
<1> USE ProcsAssumption DEF Procs, Goto
<1>a. task \in [Procs -> Tasks] /\ now \in Nat /\ now' \in Nat /\ row \in [Files -> Rows]
  BY TypeStep DEF Base, TypeOK
<1>b. ASSUME task'[p] = task[p], now' = now \/ now' > now PROVE Selected(p)'
  <2>1. \A m \in Nat : Elapsed(m) => Elapsed(m)'
    BY <1>a, <1>b DEF Elapsed
  <2>2. task[p].snap.deletionPendingAt \in Nat /\ task[p].snap.uploadPendingAt \in Nat
    BY <1>a DEF Tasks, Snapshots
  <2> QED
    BY <1>b, <2>1, <2>2 DEF Selected, Elapsed
<1>c. \A q \in Procs : \A t : task' = [task EXCEPT ![q] = t] /\ t.pc # "retryClaim" => task'[p] = task[p]
  BY <1>a
<1>d. \A q \in Procs :
        /\ \A pc : task' = [task EXCEPT ![q] = Task(pc)] /\ pc # "retryClaim" => task'[p] = task[p]
        /\ \A fs, m, c : task' = [task EXCEPT ![q] = Deleting(fs, m, c)] => task'[p] = task[p]
        /\ task' = [task EXCEPT ![q] = EndOf(q)] => task'[p] = task[p]
  <2>1. \A q \in Procs : \A pc :
          task' = [task EXCEPT ![q] = Task(pc)] /\ pc # "retryClaim" => task'[p] = task[p]
    BY <1>c, TaskFields
  <2>2. \A q \in Procs : \A fs, m, c :
          task' = [task EXCEPT ![q] = Deleting(fs, m, c)] => task'[p] = task[p]
    BY <1>c, TaskFields
  <2>3. \A q \in Procs : task' = [task EXCEPT ![q] = EndOf(q)] => task'[p] = task[p]
    BY <1>c, TaskFields
  <2> QED
    BY <2>1, <2>2, <2>3
<1>e. \A q \in Procs : \A pc \in DeletePcs :
        task' = [task EXCEPT ![q] = [task[q] EXCEPT !.pc = pc]] => task'[p] = task[p]
  <2> SUFFICES ASSUME NEW q \in Procs, NEW pc \in DeletePcs,
                      task' = [task EXCEPT ![q] = [task[q] EXCEPT !.pc = pc]]
               PROVE  task'[p] = task[p]
    OBVIOUS
  <2>1. task[q] \in Tasks
    BY <1>a
  <2>2. [task[q] EXCEPT !.pc = pc].pc # "retryClaim"
    BY <2>1 DEF DeletePcs, Tasks
  <2>3. PICK t : t = [task[q] EXCEPT !.pc = pc]
    OBVIOUS
  <2> QED
    BY <2>2, <2>3, <1>c
<1>1. ASSUME NEW f \in Files, saveRow(f) \/ writeObject(f) \/ activatePendingUpload(f)
                              \/ confirmedActiveUpload(f) \/ cleanupFailedUpload(f)
      PROVE  Selected(p)'
  <2>1. now' = now
    BY <1>1 DEF saveRow, writeObject, activatePendingUpload, confirmedActiveUpload, cleanupFailedUpload
  <2>2. \/ \E pc : task' = [task EXCEPT ![f] = Task(pc)] /\ pc # "retryClaim"
        \/ \E c : task' = [task EXCEPT ![f] = Deleting({f}, Null, c)]
    BY <1>1 DEF saveRow, writeObject, activatePendingUpload, confirmedActiveUpload, cleanupFailedUpload
  <2> QED
    BY <2>1, <2>2, <1>b, <1>d
<1>2. ASSUME NEW f \in Files, settleRead(f) PROVE Selected(p)'
  <2> DEFINE t == [Task("settleClaim") EXCEPT !.snap = Snapshot(row[f]), !.tries = task[f].tries]
  <2>1. t.pc # "retryClaim"
    BY DEF Task
  <2>2. now' = now /\ \/ task' = [task EXCEPT ![f] = Task("failed")]
                      \/ task' = [task EXCEPT ![f] = t]
    BY <1>2 DEF settleRead
  <2> HIDE DEF t
  <2> QED
    BY <2>1, <2>2, <1>b, <1>c, <1>d
<1>3. ASSUME NEW f \in Files, settleClaim(f) PROVE Selected(p)'
  <2> DEFINE again == [Task("settle") EXCEPT !.tries = task[f].tries + 1]
  <2>1. again.pc # "retryClaim"
    BY DEF Task
  <2>2. now' = now /\ \/ task' = [task EXCEPT ![f] = Task("failed")]
                      \/ task' = [task EXCEPT ![f] = again]
                      \/ \E c : task' = [task EXCEPT ![f] = Deleting({f}, Null, c)]
    BY <1>3 DEF settleClaim
  <2> HIDE DEF again
  <2> QED
    BY <2>1, <2>2, <1>b, <1>c, <1>d
<1>4. ASSUME NEW w \in Workers, NEW fs \in SUBSET Files, NEW e, ClaimActive(w, fs, e)
      PROVE  Selected(p)'
  <2>1. now' = now /\ \/ task' = [task EXCEPT ![w] = Task("idle")]
                      \/ \E c : task' = [task EXCEPT ![w] = Deleting(fs, Null, c)]
    BY <1>4 DEF ClaimActive
  <2> QED
    BY <2>1, <1>b, <1>d
<1>5. ASSUME NEW w \in Workers, Request(w) \/ cleanupExpiredTemporaryFiles(w) PROVE Selected(p)'
  BY <1>4, <1>5 DEF Request, deleteReferences, unsafeSystemPurgeUnusedBefore,
     cleanupExpiredTemporaryFiles
<1>6. ASSUME NEW w \in Workers, retrySelect(w) PROVE Selected(p)'
  <2> DEFINE t(f) == [Task("retryClaim") EXCEPT !.files = {f}, !.snap = Snapshot(row[f])]
  <2>1. PICK f \in Files : Retryable(row[f]) /\ task' = [task EXCEPT ![w] = t(f)]
    BY <1>6 DEF retrySelect
  <2>2. now' = now
    BY <1>6 DEF retrySelect
  <2>3. /\ t(f).snap.deletionPendingAt = row[f].deletionPendingAt
        /\ t(f).snap.uploadPendingAt = row[f].uploadPendingAt
    BY DEF Task, Snapshot
  <2> HIDE DEF t
  <2>4. CASE p = w
    <3>1. task'[p] = t(f)
      BY <2>1, <2>4, <1>a
    <3> QED
      BY <2>1, <2>2, <2>3, <3>1 DEF Retryable, Selected, Elapsed
  <2>5. CASE p # w
    BY <2>1, <2>2, <2>5, <1>a, <1>b
  <2> QED
    BY <2>4, <2>5
<1>7. ASSUME NEW w \in Workers, retryClaim(w) PROVE Selected(p)'
  <2>1. now' = now /\ \/ task' = [task EXCEPT ![w] = Task("idle")]
                      \/ \E fs, m, c : task' = [task EXCEPT ![w] = Deleting(fs, m, c)]
    BY <1>7 DEF retryClaim
  <2> QED
    BY <2>1, <1>b, <1>d
<1>8. ASSUME NEW q \in Procs, storageDelete(q) \/ finalizePendingRows(q)
                              \/ clearFinalizedDeletionClaim(q) \/ releaseDeletionClaim(q)
      PROVE  Selected(p)'
  <2>1. /\ now' = now
        /\ \/ task' = [task EXCEPT ![q] = EndOf(q)]
           \/ \E pc \in DeletePcs : task' = [task EXCEPT ![q] = [task[q] EXCEPT !.pc = pc]]
    BY <1>8 DEF storageDelete, finalizePendingRows, clearFinalizedDeletionClaim, releaseDeletionClaim,
       DeletePcs
  <2> QED
    BY <2>1, <1>b, <1>d, <1>e
<1>9. ASSUME NEW i \in Instances, crash(i) PROVE Selected(p)'
  <2>1. now' = now /\ (task'[p] = task[p] \/ task'[p] = EndOf(p))
    BY <1>9 DEF crash
  <2>2. EndOf(p).pc # "retryClaim"
    BY TaskFields
  <2> QED
    BY <2>1, <2>2, <1>b
<1>10. CASE tick \/ UNCHANGED vars \/ (\E fs \in SUBSET Files : markUsed(fs))
            \/ (\E f \in Files : landWrite(f) \/ landActivation(f)
                                 \/ unsafeSystemRetireUploadTombstone(f))
  <2>1. task' = task /\ (now' = now \/ now' > now)
    BY <1>10, <1>a, TimingAssumption DEF tick, vars, markUsed, landWrite, landActivation,
       unsafeSystemRetireUploadTombstone
  <2> QED
    BY <2>1, <1>b
<1> QED
  BY <1>1, <1>2, <1>3, <1>5, <1>6, <1>7, <1>8, <1>9, <1>10
  DEF Next, Uploader, Sweep, deleteAndFinalizePendingRows

\* A claim that replaces the marker of f is beyond every claim that a deleter of f
\* still holds, and those stay below what comes after it.
LEMMA TokenOrder ==
  ASSUME TokenInv, \A f \in Files : Ended(f) => Ended(f)',
         NEW p \in Procs, NEW fs \in SUBSET Files, NEW c \in Nat, Takes(p, fs, c),
         NEW q \in Procs, NEW f \in fs, Holds(q, f)
  PROVE  /\ task[q].claim < c
         /\ task[q].claim < now + ClaimLease \/ Ended(f)'
<1> DEFINE m == row[f].deletionPendingAt
           k == task[q].claim
<1>1. now \in Nat /\ m \in Nat /\ k \in Nat /\ ClaimLease \in Nat
  BY TimingAssumption DEF TokenInv, BytesInv, Base, TypeOK, Rows, Tasks
<1>2. Below(k, f) /\ Cleared(f)
  BY DEF TokenInv, Ordered
<1>3. Dead(row[f])
  BY DEF TokenInv, BytesInv, Deleter, Holds
<1>4. Elapsed(m) \/ (~Ended(f) /\ Ended(f)')
  BY <1>2, <1>3 DEF Takes, Claimable, Cleared, Dead
<1>5. c >= now + ClaimLease /\ c > m
  BY DEF Takes
<1>6. CASE k < now + ClaimLease
  BY <1>1, <1>5, <1>6
<1>7. CASE ~(k < now + ClaimLease) /\ k = m
  BY <1>1, <1>4, <1>5, <1>7 DEF Elapsed
<1>8. CASE Ended(f) /\ (m # Null => k <= m + ClaimLease)
  BY <1>1, <1>4, <1>5, <1>8 DEF Elapsed
<1> QED
  BY <1>2, <1>6, <1>7, <1>8 DEF Below

\* Claims stay near the present, below those to come, and distinct.
LEMMA OrderStep ==
  ASSUME TokenInv, Paced', ClaimEffect, BytesInv'
  PROVE  (\A q \in Procs, f \in Files : Ordered(q, f)') /\ ClaimsDistinct'
<1>a. /\ now \in Nat /\ now' \in Nat /\ ClaimLease \in Nat /\ Backoff \in Nat
      /\ \A f \in Files : row[f].deletionPendingAt \in Nat /\ row'[f].deletionPendingAt \in Nat
      /\ \A q \in Procs : task[q].claim \in Nat /\ task'[q].claim \in Nat
      /\ \A q \in Procs : task'[q].files \subseteq Files
  BY TimingAssumption DEF TokenInv, BytesInv, Base, TypeOK, Rows, Tasks
<1>b. \A f \in Files : Ended(f) => Ended(f)'
  BY DEF ClaimEffect
<1>c. \A q \in Procs, f \in Files : Keeps(q) /\ Holds(q, f)' =>
        /\ Holds(q, f) /\ task'[q].claim = task[q].claim
        /\ task[q].claim <= now + ClaimLease + Backoff /\ Below(task[q].claim, f)
        /\ Dead(row[f]) /\ Cleared(f)
  BY DEF Keeps, Holds, TokenInv, Ordered, BytesInv, Deleter
<1>d. ASSUME NEW q \in Procs, NEW f \in Files, Keeps(q), Marked(f), now' >= now PROVE Ordered(q, f)'
  <2> SUFFICES ASSUME Holds(q, f)' PROVE /\ task'[q].claim <= now' + ClaimLease + Backoff
                                         /\ Below(task[q].claim, f)'
    BY <1>c, <1>d DEF Ordered, Below
  <2>1. Below(task[q].claim, f) /\ task'[q].claim = task[q].claim
        /\ task[q].claim <= now + ClaimLease + Backoff
    BY <1>c, <1>d
  <2> QED
    BY <2>1, <1>a, <1>b, <1>d DEF Below, Marked
<1>e. ASSUME NEW P \in SUBSET Procs, \A q \in P : Keeps(q)
      PROVE  \A q, r \in P : (/\ q # r
                              /\ task'[q].pc \in DeletePcs /\ task'[r].pc \in DeletePcs
                              /\ task'[q].files \cap task'[r].files # {})
                             => task'[q].claim # task'[r].claim
  BY <1>e DEF TokenInv, ClaimsDistinct, Keeps
<1>1. CASE NoClaim
  BY <1>1, <1>d, <1>e DEF NoClaim, ClaimsDistinct
<1>2. ASSUME NEW p \in Procs, NEW fs \in SUBSET Files, NEW c \in Nat, Takes(p, fs, c)
      PROVE  (\A q \in Procs, f \in Files : Ordered(q, f)') /\ ClaimsDistinct'
  <2>1. now' = now /\ (\A q \in Procs \ {p} : Keeps(q)) /\ \A f \in Files \ fs : Marked(f)
    BY <1>2 DEF Takes
  <2>2. \A q \in Procs \ {p}, f \in fs : Holds(q, f)' =>
          task'[q].claim < c /\ (task'[q].claim < now + ClaimLease \/ Ended(f)')
    BY <1>2, <1>b, <1>c, <2>1, TokenOrder
  <2>3. ASSUME NEW f \in Files, Holds(p, f)' PROVE Ordered(p, f)'
    <3>1. f \in fs /\ task'[p].claim = c /\ row'[f].deletionPendingAt = c
      BY <1>2, <2>3 DEF Takes, Holds
    <3>2. c <= now' + ClaimLease + Backoff
      BY <1>2, ProcsAssumption DEF Takes, Paced
    <3> QED
      BY <3>1, <3>2 DEF Ordered, Below
  <2>4. ASSUME NEW q \in Procs \ {p}, NEW f \in fs, Holds(q, f)' PROVE Ordered(q, f)'
    <3>1. task'[q].claim = task[q].claim /\ task[q].claim <= now + ClaimLease + Backoff
      BY <2>1, <2>4, <1>c
    <3>2. task'[q].claim < c /\ (task'[q].claim < now + ClaimLease \/ Ended(f)')
      BY <2>2, <2>4
    <3>3. row'[f].deletionPendingAt = c
      BY <1>2 DEF Takes
    <3> QED
      BY <2>1, <3>1, <3>2, <3>3, <1>a DEF Ordered, Below
  <2>5. \A q \in Procs, f \in Files : Ordered(q, f)'
    <3> TAKE q \in Procs, f \in Files
    <3>1. CASE ~Holds(q, f)'
      BY <3>1 DEF Ordered
    <3>2. CASE q # p /\ f \notin fs
      BY <3>2, <2>1, <1>a, <1>d
    <3> QED
      BY <3>1, <3>2, <2>3, <2>4
  <2>6. ASSUME NEW q \in Procs \ {p}, task'[p].pc \in DeletePcs, task'[q].pc \in DeletePcs,
               task'[p].files \cap task'[q].files # {}
        PROVE  task'[p].claim # task'[q].claim
    <3>1. task'[p].files = fs /\ task'[p].claim = c
      BY <1>2, <2>6 DEF Takes
    <3>2. PICK f \in fs : f \in task'[q].files
      BY <2>6, <3>1
    <3>3. task'[q].claim < c
      BY <2>2, <2>6, <3>2 DEF Holds
    <3> QED
      BY <3>1, <3>3, <1>a
  <2>7. \A q, r \in Procs \ {p} : (/\ q # r
                                  /\ task'[q].pc \in DeletePcs /\ task'[r].pc \in DeletePcs
                                  /\ task'[q].files \cap task'[r].files # {})
                                 => task'[q].claim # task'[r].claim
    BY <2>1, <1>e
  <2>8. ClaimsDistinct'
    BY <2>6, <2>7 DEF ClaimsDistinct
  <2> QED
    BY <2>5, <2>8
<1>3. ASSUME NEW p \in Procs, GivesUp(p)
      PROVE  (\A q \in Procs, f \in Files : Ordered(q, f)') /\ ClaimsDistinct'
  <2>1. now' = now /\ (\A q \in Procs \ {p} : Keeps(q)) /\ task'[p].pc \notin DeletePcs
        /\ task[p].pc \in DeletePcs
    BY <1>3 DEF GivesUp
  <2>2. ASSUME NEW q \in Procs \ {p}, NEW f \in Files, Holds(q, f)', ~Marked(f) PROVE Ordered(q, f)'
    <3>1. /\ f \in task[p].files /\ row[f].deletionPendingAt = task[p].claim
          /\ row'[f].deletionPendingAt = Null \/ row'[f].deletionPendingAt = now + Backoff
      BY <1>3, <2>2 DEF GivesUp, retryBackoffMarker
    <3>2. /\ Holds(q, f) /\ task'[q].claim = task[q].claim
          /\ task[q].claim <= now + ClaimLease + Backoff /\ Below(task[q].claim, f)
      BY <2>1, <2>2, <1>c
    <3>3. task[q].claim # row[f].deletionPendingAt
      BY <2>1, <3>1, <3>2 DEF TokenInv, ClaimsDistinct, Holds
    <3>4. task[q].claim < now + ClaimLease \/ Ended(f)'
      BY <3>2, <3>3, <1>b DEF Below
    <3> QED
      BY <2>1, <3>1, <3>2, <3>4, <1>a DEF Ordered, Below
  <2>3. \A q \in Procs, f \in Files : Ordered(q, f)'
    <3> TAKE q \in Procs, f \in Files
    <3>1. CASE ~Holds(q, f)'
      BY <3>1 DEF Ordered
    <3>2. CASE Holds(q, f)'
      <4>1. q \in Procs \ {p}
        BY <2>1, <3>2 DEF Holds
      <4> QED
        BY <3>2, <4>1, <2>1, <2>2, <1>a, <1>d
    <3> QED
      BY <3>1, <3>2
  <2>4. \A q, r \in Procs \ {p} : (/\ q # r
                                  /\ task'[q].pc \in DeletePcs /\ task'[r].pc \in DeletePcs
                                  /\ task'[q].files \cap task'[r].files # {})
                                 => task'[q].claim # task'[r].claim
    BY <2>1, <1>e
  <2>5. ClaimsDistinct'
    BY <2>1, <2>4 DEF ClaimsDistinct
  <2> QED
    BY <2>3, <2>5
<1>4. ASSUME NEW g \in Files, Retires(g)
      PROVE  (\A q \in Procs, f \in Files : Ordered(q, f)') /\ ClaimsDistinct'
  <2>1. now' = now /\ (\A q \in Procs : Keeps(q)) /\ \A f \in Files \ {g} : Marked(f)
    BY <1>4 DEF Retires
  <2>2. ASSUME NEW q \in Procs, Holds(q, g)' PROVE Ordered(q, g)'
    <3>1. /\ task'[q].claim = task[q].claim /\ Dead(row[g]) /\ Cleared(g)
          /\ task[q].claim <= now + ClaimLease + Backoff /\ Below(task[q].claim, g)
      BY <2>1, <2>2, <1>c
    <3>2. row[g].deletionPendingAt # Null /\ row[g].deletionPendingAt < now
      BY <1>4, <3>1 DEF Retires, Elapsed, Dead, Cleared
    <3>3. task[q].claim < now + ClaimLease
      BY <3>1, <3>2, <1>a DEF Below
    <3> QED
      BY <2>1, <3>1, <3>3 DEF Ordered, Below
  <2>3. \A q \in Procs, f \in Files : Ordered(q, f)'
    <3> TAKE q \in Procs, f \in Files
    <3>1. CASE ~Holds(q, f)'
      BY <3>1 DEF Ordered
    <3> QED
      BY <3>1, <2>1, <2>2, <1>a, <1>d
  <2>4. ClaimsDistinct'
    BY <2>1, <1>e DEF ClaimsDistinct
  <2> QED
    BY <2>3, <2>4
<1> QED
  BY <1>1, <1>2, <1>3, <1>4 DEF ClaimEffect

\* The invariant is inductive as long as claims are paced.
LEMMA TokenStep == TokenInv /\ [Next]_vars /\ Paced' => TokenInv'
<1> SUFFICES ASSUME TokenInv, [Next]_vars, Paced' PROVE TokenInv'
  OBVIOUS
<1>1. BytesInv /\ Base /\ (\A p \in Procs : Selected(p)) /\ \A f \in Files : Cleared(f)
  BY DEF TokenInv, BytesInv
<1>2. BytesInv'
  BY <1>1, BytesStep
<1>3. (\A f \in Files : Cleared(f)') /\ \A p \in Procs : Selected(p)'
  BY <1>1, ClearedStep, SelectedStep
<1>4. (\A q \in Procs, f \in Files : Ordered(q, f)') /\ ClaimsDistinct'
  BY <1>1, <1>2, ClaimStep, OrderStep
<1> QED
  BY <1>2, <1>3, <1>4 DEF TokenInv

\* Before the first upload nobody holds a claim.
LEMMA TokenInit == Init => TokenInv
<1> SUFFICES ASSUME Init PROVE TokenInv
  OBVIOUS
<1>1. \A p \in Procs : task[p].pc \in {"new", "idle"}
  BY TaskFields DEF Init
<1>2. \A f \in Files : Cleared(f)
  BY DEF Init, NoRow, Cleared
<1>3. \A p \in Procs : task[p].pc # "retryClaim" /\ task[p].pc \notin DeletePcs
  BY <1>1 DEF DeletePcs
<1> QED
  BY <1>2, <1>3, BytesInit DEF TokenInv, Selected, Ordered, Holds, ClaimsDistinct

\* Two deleters of one row never hold the same claim, in whatever instances and
\* however long one of them slept: nextDeletionClaim, releases and retirements keep
\* every claim that somebody still holds below the next one, as long as the claims of
\* an instance stay within Backoff of a lease from now.
THEOREM ClaimTokens == Spec /\ []Paced => []ClaimsDistinct
<1>1. TokenInv => ClaimsDistinct
  BY DEF TokenInv
<1> QED
  BY <1>1, TokenInit, TokenStep, PTL DEF Spec
=============================================================================
