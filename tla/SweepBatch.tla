------------------------------ MODULE SweepBatch ------------------------------
(***************************************************************************)
(* How the pending track of UploadedFileCleanupJob shares its bounded      *)
(* batches: a run of MAX_RETRY_BATCHES_PER_RUN sweeps, each of which takes *)
(* `limit` rows of the expired direct uploads, of the retained staging     *)
(* objects and of the deletion outbox, oldest marker first.  Some rows'    *)
(* objects cannot be deleted, others fail now and then.  Claims and their  *)
(* races are UploadedFile's and DirectUpload's; here one worker sweeps,    *)
(* and a run ends before the backoff of the rows it failed on does.        *)
(***************************************************************************)
EXTENDS Integers, FiniteSets, FiniteSetsExt

CONSTANTS
  Rows, Poison,   \* rows; the ones whose storage delete always fails
  PoisonKinds,    \* where the poison rows are queued at first
  ArrivalKinds,   \* where other rows are queued when their marker elapses
  Limit,          \* cleanupBatchSize
  Batches,        \* MAX_RETRY_BATCHES_PER_RUN
  Backoff, Lease, \* DELETION_RETRY_BACKOFF_MS, DELETION_CLAIM_LEASE_MS
  Period,         \* pendingCleanupInterval
  Old,            \* bound: markers this long past are not told apart
  MaxRefusals       \* bound: storage failures of the other rows

VARIABLES
  kind,    \* the query that would select the row: "direct" until maintenance claims
           \* it, "initial" for the tombstone of any other upload, "directRetry" and
           \* "retry" with a deletion marker, "staged", "settled", "none" or "gone"
  wait,    \* its marker, relative to now: selectable below zero
  phase,   \* the part of cleanupPendingUploads that is next
  left,    \* sweeps left in this run
  served,  \* rows the last part tried to delete
  last,    \* the last outbox batch, and what was due to it
  refusals

sweepVars == << kind, wait, phase, left, served, last, refusals >>

\* Rows are numbered, batches are bounded, and times are milliseconds.
SweepConstants ==
  /\ IsFiniteSet(Rows) /\ Rows \subseteq Nat /\ Limit \in Nat
  /\ Backoff \in Int /\ Lease \in Int /\ Period \in Int /\ Old \in Int

-----------------------------------------------------------------------------

\* The three queries of the outbox batch.
Outbox == {"settled", "initial", "retry"}

\* The rows a query may return: the outbox's do not look at the status, so they
\* match the direct uploads too.
Queried(query) ==
  LET Matches == CASE query = "direct"  -> {"direct", "directRetry"}
                   [] query = "initial" -> {"direct", "initial"}
                   [] query = "retry"   -> {"directRetry", "retry"}
                   [] OTHER             -> {query}
  IN {r \in Rows : kind[r] \in Matches /\ wait[r] < 0}

\* order: { marker: 'ASC' }; rows are numbered in the order the table returns.
Older(a, b) == wait[a] < wait[b] \/ (wait[a] = wait[b] /\ a < b)

\* take: n
Oldest(S, n) == {r \in S : Cardinality({q \in S : Older(q, r)}) < n}

\* find({ order: marker ASC, take: n })
Find(k, n) == Oldest(Queried(k), n)

\* Mutant of unresolved: the initial tombstones fill what they can.
unresolvedInitialFirst(initial, retry, remaining) ==
  initial \cup Oldest(retry, remaining - Cardinality(initial))

\* Half of the capacity for each kind of tombstone, then what is left over.
unresolved(initial, retry, remaining) ==
  LET initialQuota == (remaining + 1) \div 2
      halves == Oldest(initial, initialQuota) \cup Oldest(retry, remaining - initialQuota)
      more   == Oldest(initial \ halves, remaining - Cardinality(halves))
  IN halves \cup more \cup
     Oldest(retry \ halves, remaining - Cardinality(halves) - Cardinality(more))

\* The outbox batch of unsafeSystemRetryPendingDeletions.
Batch ==
  LET settled   == Find("settled", Limit)
      remaining == Limit - Cardinality(settled)
  IN settled \cup unresolved(Find("initial", remaining), Find("retry", remaining), remaining)

\* Mutant of Released: the row is due again at once.
ReleasedNow(W, failed) == [r \in Rows |-> IF r \in failed THEN -1 ELSE W[r]]

\* releaseDeletionClaim leaves a retry marker in the future.
Released(W, failed) == [r \in Rows |-> IF r \in failed THEN Backoff ELSE W[r]]

SweepInit ==
  /\ kind \in [Rows -> PoisonKinds \cup {"none"}]
  /\ \A r \in Rows : kind[r] = "none" <=> r \notin Poison
  /\ wait = [r \in Rows |-> IF r \in Poison THEN -1 ELSE 0]
  /\ phase = "direct"
  /\ left = Batches
  /\ served = {}
  /\ last = [rows |-> {}, due |-> [k \in Outbox |-> {}]]
  /\ refusals = 0

\* A marker elapses: an upload expired, a deletion or a writer was abandoned.
elapse(r, k) ==
  /\ kind[r] = "none"
  /\ kind' = [kind EXCEPT ![r] = k]
  /\ wait' = [wait EXCEPT ![r] = -1]
  /\ UNCHANGED << phase, left, served, last, refusals >>

\* One part of a sweep tries `rows`; the storage refuses `failed`.
Try(rows, failed) ==
  /\ rows \cap Poison \subseteq failed
  /\ served' = rows
  /\ refusals' = refusals + Cardinality(failed \ Poison)
  /\ refusals' <= MaxRefusals

\* Claimed into the outbox, then tried.  Their order, by upload marker, is left
\* open: whatever is taken leaves the query.
unsafeSystemCleanupExpiredDirectUploads ==
  /\ left > 0 /\ phase = "direct"
  /\ \E rows \in kSubset(Min({Limit, Cardinality(Queried("direct"))}), Queried("direct")) :
     \E failed \in SUBSET rows :
          /\ Try(rows, failed)
          /\ kind' = [r \in Rows |-> IF r \in failed THEN "settled"
                                     ELSE IF r \in rows THEN "gone" ELSE kind[r]]
          /\ wait' = Released(wait, failed)
  /\ phase' = "staged"
  /\ UNCHANGED << left, last >>

\* Tried without a claim; a failure leaves the row as it was.
unsafeSystemCleanupCompletedStaging ==
  /\ phase = "staged"
  /\ \E rows \in {Find("staged", Limit)} : \E failed \in SUBSET rows :
          /\ Try(rows, failed)
          /\ kind' = [r \in Rows |-> IF r \in rows \ failed THEN "gone" ELSE kind[r]]
  /\ phase' = "outbox"
  /\ UNCHANGED << wait, left, last >>

\* A settled row is done when its bytes are; an unresolved upload keeps its
\* tombstone and the claim.
After(k, fails) ==
  CASE k = "settled" -> IF fails THEN "settled" ELSE "gone"
    [] k \in {"direct", "directRetry"} -> "directRetry"
    [] OTHER -> "retry"

unsafeSystemRetryPendingDeletions ==
  /\ phase = "outbox"
  /\ \E rows \in {Batch} :
        /\ last' = [rows |-> rows, due |-> [k \in Outbox |-> Queried(k)]]
        /\ \E failed \in SUBSET rows :
             /\ Try(rows, failed)
             /\ kind' = [r \in Rows |-> IF r \notin rows THEN kind[r]
                                        ELSE After(kind[r], r \in failed)]
             /\ wait' = Released([r \in Rows |-> IF r \in rows THEN Lease ELSE wait[r]], failed)
  /\ phase' = "direct"
  /\ left' = left - 1

\* The next cron tick.
pendingTick ==
  /\ left = 0
  /\ left' = Batches
  /\ wait' = [r \in Rows |-> IF kind[r] \in {"none", "gone"} THEN wait[r]
                             ELSE Max({-Old, wait[r] - Period})]
  /\ UNCHANGED << kind, phase, served, last, refusals >>

Cron ==
  \/ unsafeSystemCleanupExpiredDirectUploads
  \/ unsafeSystemCleanupCompletedStaging
  \/ unsafeSystemRetryPendingDeletions
  \/ pendingTick

SweepNext == Cron \/ \E r \in Rows, k \in ArrivalKinds : elapse(r, k)

SweepSpec == SweepInit /\ [][SweepNext]_sweepVars

-----------------------------------------------------------------------------
(* Properties.                                                             *)

Took(k) == last.rows \cap last.due[k]

\* The capacity of a batch is never wasted while outbox rows are due, and never
\* spent on a tombstone while a settled deletion waits.
BatchFull ==
  /\ Cardinality(last.rows) =
       Min({Limit, Cardinality(UNION {last.due[k] : k \in Outbox})})
  /\ Took("settled") # last.due["settled"] => last.rows = Took("settled")

\* With room for two tombstones neither kind shuts out the other.
BothTombstones ==
  Limit - Cardinality(Took("settled")) >= 2 =>
    \A k \in {"initial", "retry"} : last.due[k] # {} => Took(k) # {}

\* A sweep's batch is never wasted while outbox rows are due, prefers settled
\* deletions, and takes both kinds of tombstone when it has room for two.
BatchShared == BatchFull /\ BothTombstones

Waiting(r) == kind[r] \notin {"none", "gone"} /\ wait[r] < 0

Tried(r) == r \in served
=============================================================================
