--------------------------- MODULE FileGateProofs ---------------------------
(***************************************************************************)
(* Proofs about the two gates of the uploaded-file feature.  FileAccess,   *)
(* for any files, rows, contexts and attachments, any number of requests   *)
(* and any time between their steps: what a caller is answered about a     *)
(* file while others activate, claim and delete it.  UploadValidation, for *)
(* any configuration, limits, types, calls and bytes: what is stored.      *)
(***************************************************************************)
EXTENDS FileAccess, UploadValidation, TLAPS

-----------------------------------------------------------------------------
(* FileAccess: the inductive invariant.                                    *)

QueryFields == {"op", "file", "attachment", "pc", "scope", "decision", "now", "row"}

RowKept(row) ==
    /\ DOMAIN row = RowFields
    /\ row.temporary => row.visibility = "private" /\ (row.status = "ready" => row.expiredAt \in Nat)

\* The row is one that the caller of q may learn of.
InScope(q, row) ==
    /\ row.tenant = q.scope.tenant
    /\ q.op = "downloadAttached" => row.used /\ row.attachment = q.attachment
    /\ q.op # "downloadAttached" =>
          /\ q.decision \in {"owner", "tenant"}
          /\ q.decision = "owner" => row.user = q.scope.user
          /\ q.scope.dept # None => row.dept = q.scope.dept

\* The row was read when it was active and not expired.
Usable(row, at) ==
    /\ row.status = "ready" /\ ~row.deleted /\ ~row.claimed
    /\ row.temporary => row.visibility = "private" /\ row.expiredAt \in Nat /\ at < row.expiredAt

\* What an answer says is true of the row that it was made from.
Sound(res) ==
    /\ res.status \in {"stream", "signed", "public", "route"} => Usable(res.row, res.at)
    /\ res.status = "public" => ~res.row.temporary
    /\ res.status = "signed" /\ res.row.temporary =>
          res.reported <= res.row.expiredAt /\ res.reported >= res.at + 2

\* A request on its way: what it has checked so far still holds, because no
\* action changes a row's owner, attachment or scope.
OnItsWay(q, rows) ==
    /\ "pc" \in DOMAIN q
    /\ q.pc \in {"policy", "query", "stream", "sign"} => DOMAIN q = QueryFields /\ q.file \in Files
    /\ q.pc \in {"query", "stream", "sign"} => q.decision \in {"owner", "tenant"}
    /\ q.pc \in {"stream", "sign"} => InScope(q, rows[q.file]) /\ q.now \in Nat /\ Usable(q.row, q.now)

\* An answered one.
Settled(q, res, rows) ==
    /\ q.pc # "done" => res = None
    /\ res # None /\ res.status # "404" => q.file \in Files /\ InScope(q, rows[q.file]) /\ Sound(res)

AccessInv ==
    /\ clock \in Nat
    /\ DOMAIN files = Files /\ \A f \in Files : RowKept(files[f])
    /\ DOMAIN request = Requests /\ result = [r \in Requests |-> result[r]]
    /\ \A r \in Requests : OnItsWay(request[r], files) /\ Settled(request[r], result[r], files)

-----------------------------------------------------------------------------
(* Steps of a request.                                                     *)

\* The owner, the department, the tenant and the attachment of every row stay.
SameOwners(rows, after) ==
    \A f \in Files : \A k \in {"tenant", "dept", "user", "used", "attachment"} : after[f][k] = rows[f][k]

LEMMA ScopeStays ==
    ASSUME NEW rows, NEW after, SameOwners(rows, after), NEW q, NEW f \in Files, InScope(q, rows[f])
    PROVE  InScope(q, after[f])
<1>1. /\ after[f].tenant = rows[f].tenant /\ after[f].dept = rows[f].dept /\ after[f].user = rows[f].user
      /\ after[f].used = rows[f].used /\ after[f].attachment = rows[f].attachment
    BY DEF SameOwners
<1> QED
    BY <1>1 DEF InScope

\* A request whose own state stays is where it was, whatever became of the rows.
LEMMA Bystander ==
    ASSUME NEW rows, NEW after, SameOwners(rows, after), NEW q, NEW res, OnItsWay(q, rows), Settled(q, res, rows)
    PROVE  OnItsWay(q, after) /\ Settled(q, res, after)
<1>1. OnItsWay(q, after)
    BY ScopeStays DEF OnItsWay
<1>2. Settled(q, res, after)
    BY ScopeStays DEF Settled
<1> QED
    BY <1>1, <1>2

\* The invariant follows when one request takes a step that keeps it.
LEMMA OneStep ==
    ASSUME AccessInv, NEW r \in Requests, clock' = clock, DOMAIN files' = Files, SameOwners(files, files'),
           \A f \in Files : RowKept(files'[f]),
           NEW q, request' = [request EXCEPT ![r] = q], NEW res, result' = [result EXCEPT ![r] = res],
           OnItsWay(q, files'), Settled(q, res, files')
    PROVE  AccessInv'
<1>1. /\ DOMAIN request' = Requests /\ request'[r] = q /\ \A x \in Requests \ {r} : request'[x] = request[x]
      /\ result' = [x \in Requests |-> result'[x]] /\ result'[r] = res /\ \A x \in Requests \ {r} : result'[x] = result[x]
    BY DEF AccessInv
<1>2. \A x \in Requests \ {r} : OnItsWay(request'[x], files') /\ Settled(request'[x], result'[x], files')
    BY <1>1, Bystander DEF AccessInv
<1> QED
    BY <1>1, <1>2 DEF AccessInv

\* An answer closes its request: "not found" says nothing, any other one must be
\* sound and inside the scope.
LEMMA Answered ==
    ASSUME AccessInv, NEW r \in Requests, NEW res, Answer(r, res), clock' = clock, DOMAIN files' = Files,
           SameOwners(files, files'), \A f \in Files : RowKept(files'[f]),
           \/ res.status = "404"
           \/ request[r].file \in Files /\ InScope(request[r], files[request[r].file]) /\ Sound(res)
    PROVE  AccessInv'
<1> DEFINE q == [request[r] EXCEPT !.pc = "done"]
<1>1. request' = [request EXCEPT ![r] = q] /\ result' = [result EXCEPT ![r] = res]
    BY DEF Answer, AccessInv
<1>2. "pc" \in DOMAIN request[r]
    BY DEF AccessInv, OnItsWay
<1>3. /\ q.pc = "done" /\ "pc" \in DOMAIN q /\ q.file = request[r].file /\ q.scope = request[r].scope
      /\ q.op = request[r].op /\ q.attachment = request[r].attachment /\ q.decision = request[r].decision
    BY <1>2
<1>4. ASSUME NEW row, InScope(request[r], row) PROVE InScope(q, row)
    BY <1>3, <1>4 DEF InScope
<1> HIDE DEF q
<1>5. OnItsWay(q, files')
    BY <1>3 DEF OnItsWay
<1>6. Settled(q, res, files')
    <2>1. CASE res.status = "404"
        BY <1>3, <2>1 DEF Settled
    <2>2. CASE request[r].file \in Files /\ InScope(request[r], files[request[r].file]) /\ Sound(res)
        BY <1>3, <1>4, <2>2, ScopeStays DEF Settled
    <2> QED
        BY <2>1, <2>2
<1> QED
    BY <1>1, <1>5, <1>6, OneStep

\* Rows that stay as they are, or differ in what their owners do not depend on.
LEMMA RowsStay ==
    ASSUME AccessInv, files' = files
    PROVE  DOMAIN files' = Files /\ SameOwners(files, files') /\ \A f \in Files : RowKept(files'[f])
BY DEF AccessInv, SameOwners

LEMMA StartStep ==
    ASSUME AccessInv, NEW r \in Requests, Start(r)
    PROVE  AccessInv'
<1>1. PICK op \in Ops, f \in Files \cup {Bad}, c \in Contexts, a \in Attachments :
        /\ request[r].pc = "idle"
        /\ IF f = Bad \/ ~HasScope(c) \/ a = Bad
           THEN Answer(r, NotFound)
           ELSE /\ request' = [request EXCEPT ![r] = [op |-> op, file |-> f, attachment |-> a, pc |-> "policy",
                                  scope |-> resolveScope(c), decision |-> None, now |-> None, row |-> None]]
                /\ UNCHANGED result
        /\ UNCHANGED <<clock, files, objects>>
    BY DEF Start
<1>2. files' = files /\ clock' = clock
    BY <1>1
<1>3. CASE f = Bad \/ ~HasScope(c) \/ a = Bad
    <2>1. Answer(r, NotFound) /\ NotFound.status = "404"
        BY <1>1, <1>3 DEF NotFound
    <2> QED
        BY <1>2, <2>1, RowsStay, Answered
<1>4. CASE ~(f = Bad \/ ~HasScope(c) \/ a = Bad)
    <2> DEFINE q == [op |-> op, file |-> f, attachment |-> a, pc |-> "policy",
                     scope |-> resolveScope(c), decision |-> None, now |-> None, row |-> None]
    <2>1. request' = [request EXCEPT ![r] = q] /\ result' = result /\ f \in Files
        BY <1>1, <1>4
    <2>2. DOMAIN q = QueryFields /\ "pc" \in DOMAIN q /\ q.pc = "policy" /\ q.file \in Files
        BY <2>1 DEF QueryFields
    <2>3. result[r] = None /\ result' = [result EXCEPT ![r] = None]
        BY <1>1, <2>1 DEF AccessInv, Settled
    <2> HIDE DEF q
    <2>4. OnItsWay(q, files') /\ Settled(q, None, files')
        BY <2>2 DEF OnItsWay, Settled
    <2> QED
        BY <1>2, <2>1, <2>3, <2>4, RowsStay, OneStep
<1> QED
    BY <1>3, <1>4

LEMMA AuthorizeStep ==
    ASSUME AccessInv, NEW r \in Requests, authorize(r)
    PROVE  AccessInv'
<1>1. PICK d \in {"owner", "tenant", "deny", None} :
        /\ request[r].pc = "policy"
        /\ IF d \notin {"owner", "tenant"} THEN Answer(r, NotFound)
           ELSE request' = [request EXCEPT ![r].pc = "query", ![r].decision = d] /\ UNCHANGED result
        /\ UNCHANGED <<clock, files, objects>>
    BY DEF authorize
<1>2. files' = files /\ clock' = clock
    BY <1>1
<1>3. CASE d \notin {"owner", "tenant"}
    <2>1. Answer(r, NotFound) /\ NotFound.status = "404"
        BY <1>1, <1>3 DEF NotFound
    <2> QED
        BY <1>2, <2>1, RowsStay, Answered
<1>4. CASE d \in {"owner", "tenant"}
    <2> DEFINE q == [request[r] EXCEPT !.pc = "query", !.decision = d]
    <2>1. DOMAIN request[r] = QueryFields /\ request[r].file \in Files
        BY <1>1 DEF AccessInv, OnItsWay
    <2>2. request' = [request EXCEPT ![r] = q] /\ result' = result
        BY <1>1, <1>4 DEF AccessInv
    <2>3. DOMAIN q = QueryFields /\ "pc" \in DOMAIN q /\ q.pc = "query" /\ q.file \in Files /\ q.decision = d
        BY <2>1 DEF QueryFields
    <2>4. result[r] = None /\ result' = [result EXCEPT ![r] = None]
        BY <1>1, <2>2 DEF AccessInv, Settled
    <2> HIDE DEF q
    <2>5. OnItsWay(q, files') /\ Settled(q, None, files')
        BY <1>4, <2>3 DEF OnItsWay, Settled
    <2> QED
        BY <1>2, <2>2, <2>4, <2>5, RowsStay, OneStep
<1> QED
    BY <1>3, <1>4

\* A row that the query returns is in the scope of its request, not claimed and
\* not deleted (where, findWhere, attachedWhere).
LEMMA Matched ==
    ASSUME NEW q, RowKept(files[q.file]), q.decision \in {"owner", "tenant"}, Matches(q)
    PROVE  InScope(q, files[q.file]) /\ ~files[q.file].deleted /\ ~files[q.file].claimed
<1> DEFINE row == files[q.file]
<1>1. CASE q.op = "downloadAttached"
    BY <1>1 DEF Matches, attachedWhere, InScope
<1>2. CASE q.op = "find"
    <2> DEFINE seen == [row EXCEPT !.uploading = FALSE]
    <2>1. where(seen, q.scope, q.decision)
        BY <1>2 DEF Matches, findWhere
    <2>2. /\ seen.tenant = row.tenant /\ seen.dept = row.dept /\ seen.user = row.user
          /\ seen.deleted = row.deleted /\ seen.claimed = row.claimed
        BY DEF RowKept, RowFields
    <2> HIDE DEF seen
    <2> QED
        BY <1>2, <2>1, <2>2 DEF where, InScope
<1>3. CASE q.op # "downloadAttached" /\ q.op # "find"
    BY <1>3 DEF Matches, where, InScope
<1> QED
    BY <1>1, <1>2, <1>3

LEMMA QueryStep ==
    ASSUME AccessConstants, AccessInv, NEW r \in Requests, Query(r)
    PROVE  AccessInv'
<1> DEFINE q == request[r]
           row == files[q.file]
<1>1. q.pc = "query" /\ clock' = clock
    BY DEF Query
<1>2. /\ DOMAIN q = QueryFields /\ q.file \in Files /\ q.decision \in {"owner", "tenant"} /\ RowKept(row)
      /\ result[r] = None
    BY <1>1 DEF AccessInv, OnItsWay, Settled
<1>3. CASE ~Matches(q)
    <2>1. Answer(r, NotFound) /\ NotFound.status = "404" /\ files' = files
        BY <1>3 DEF Query, NotFound
    <2> QED
        BY <1>1, <2>1, RowsStay, Answered
<1>4. CASE Matches(q) /\ q.op = "setExtraData"
    <2> DEFINE res == [status |-> "ok", file |-> q.file, row |-> row, at |-> clock]
    <2>1. files' = [files EXCEPT ![q.file].extra = r] /\ Answer(r, res)
        BY <1>4 DEF Query
    <2>2. DOMAIN files' = Files /\ SameOwners(files, files') /\ \A f \in Files : RowKept(files'[f])
        <3>1. /\ DOMAIN files' = Files /\ files'[q.file] = [row EXCEPT !.extra = r]
              /\ \A f \in Files \ {q.file} : files'[f] = files[f]
            BY <1>2, <2>1 DEF AccessInv
        <3>2. /\ DOMAIN files'[q.file] = RowFields
              /\ \A k \in RowFields \ {"extra"} : files'[q.file][k] = row[k]
            BY <1>2, <3>1 DEF RowKept
        <3>3. RowKept(files'[q.file])
            BY <1>2, <3>2 DEF RowKept, RowFields
        <3>4. \A k \in {"tenant", "dept", "user", "used", "attachment"} : files'[q.file][k] = row[k]
            BY <3>2 DEF RowFields
        <3> QED
            BY <3>1, <3>3, <3>4 DEF AccessInv, SameOwners
    <2>3. Sound(res)
        BY DEF Sound
    <2>4. InScope(q, row)
        BY <1>2, <1>4, Matched
    <2> HIDE DEF res
    <2> QED
        BY <1>1, <1>2, <2>1, <2>2, <2>3, <2>4, Answered
<1>5. CASE Matches(q) /\ q.op # "setExtraData"
    <2>1. files' = files
        BY <1>5 DEF Query
    <2>2. InScope(q, row) /\ ~row.deleted /\ ~row.claimed
        BY <1>2, <1>5, Matched
    <2>3. CASE row.status # "ready"
        <3> DEFINE res == IF q.op = "find" THEN [status |-> "pending", file |-> q.file, row |-> row] ELSE NotFound
        <3>1. Answer(r, res)
            BY <1>5, <2>3 DEF Query
        <3>2. Sound(res)
            BY DEF Sound, NotFound
        <3> HIDE DEF res
        <3> QED
            BY <1>1, <1>2, <2>1, <2>2, <3>1, <3>2, RowsStay, Answered
    <2>4. CASE row.status = "ready" /\ ExpiredFile(row, clock)
        <3>1. Answer(r, Gone) /\ Sound(Gone)
            BY <1>5, <2>4 DEF Query, Gone, Sound
        <3> QED
            BY <1>1, <1>2, <2>1, <2>2, <3>1, RowsStay, Answered
    <2>5. CASE row.status = "ready" /\ ~ExpiredFile(row, clock)
        <3> DEFINE next == IF q.op \in {"download", "downloadAttached"} THEN "stream" ELSE "sign"
                   v == [q EXCEPT !.pc = next, !.now = clock, !.row = row]
        <3>1. request' = [request EXCEPT ![r] = v] /\ result' = result
            BY <1>5, <2>5 DEF Query, AccessInv
        <3>2. next \in {"stream", "sign"}
            OBVIOUS
        <3> HIDE DEF next
        <3>3. /\ DOMAIN v = QueryFields /\ "pc" \in DOMAIN v /\ v.pc \in {"stream", "sign"} /\ v.now = clock /\ v.row = row
              /\ v.file = q.file /\ v.scope = q.scope /\ v.op = q.op /\ v.attachment = q.attachment
              /\ v.decision = q.decision
            BY <1>2, <3>2 DEF QueryFields
        <3>4. result' = [result EXCEPT ![r] = None]
            BY <1>2, <3>1 DEF AccessInv
        <3>5. Usable(row, clock)
            <4>1. row.temporary => row.visibility = "private" /\ row.expiredAt \in Nat /\ row.expiredAt # None
                BY <1>2, <2>5 DEF RowKept, AccessConstants
            <4> QED
                BY <2>2, <2>5, <4>1 DEF Usable, ExpiredFile, AccessInv
        <3> HIDE DEF v
        <3>6. InScope(v, row)
            BY <2>2, <3>3 DEF InScope
        <3>7. OnItsWay(v, files') /\ Settled(v, None, files')
            BY <1>2, <2>1, <3>3, <3>5, <3>6 DEF OnItsWay, Settled, AccessInv
        <3> QED
            BY <1>1, <2>1, <3>1, <3>4, <3>7, RowsStay, OneStep
    <2> QED
        BY <2>3, <2>4, <2>5
<1> QED
    BY <1>3, <1>4, <1>5

LEMMA StreamStep ==
    ASSUME AccessInv, NEW r \in Requests, Stream(r)
    PROVE  AccessInv'
<1> DEFINE q == request[r]
           res == IF q.file \in objects
                  THEN [status |-> "stream", file |-> q.file, row |-> q.row, at |-> q.now]
                  ELSE NotFound
<1>1. q.pc = "stream" /\ Answer(r, res) /\ clock' = clock /\ files' = files
    BY DEF Stream
<1>2. q.file \in Files /\ InScope(q, files[q.file]) /\ Usable(q.row, q.now)
    BY <1>1 DEF AccessInv, OnItsWay
<1>3. Sound(res)
    BY <1>2 DEF Sound, NotFound
<1> HIDE DEF res
<1> QED
    BY <1>1, <1>2, <1>3, RowsStay, Answered

\* A signed URL of a temporary file ends before the file does (resolveRowUrl).
LEMMA SignedWithin ==
    ASSUME AccessConstants, NEW row, NEW at \in Nat, Usable(row, at), row.temporary, SignedSeconds(row, at) >= 1
    PROVE  at + 2 * SignedSeconds(row, at) <= row.expiredAt /\ at + 2 * SignedSeconds(row, at) >= at + 2
<1>1. row.expiredAt \in Nat /\ row.expiredAt # None /\ DownloadTtl \in Nat
    BY DEF Usable, AccessConstants
<1>2. PICK left \in Int : left = row.expiredAt - at
    BY <1>1
<1>3. PICK half \in Int : half = left \div 2
    OBVIOUS
<1>4. 2 * half <= left
    BY <1>3
<1>5. SignedSeconds(row, at) = IF half < DownloadTtl THEN half ELSE DownloadTtl
    BY <1>1, <1>2, <1>3 DEF SignedSeconds
<1> QED
    BY <1>1, <1>2, <1>4, <1>5

LEMMA SignStep ==
    ASSUME AccessConstants, AccessInv, NEW r \in Requests, Sign(r)
    PROVE  AccessInv'
<1> DEFINE q == request[r]
           seconds == SignedSeconds(q.row, q.now)
           res == IF Public(q.row)
                  THEN [status |-> "public", file |-> q.file, row |-> q.row, at |-> q.now]
                  ELSE IF seconds < 1
                  THEN [status |-> "route", file |-> q.file, row |-> q.row, at |-> q.now]
                  ELSE [status |-> "signed", file |-> q.file, row |-> q.row, at |-> q.now,
                        reported |-> q.now + 2 * seconds]
<1>1. q.pc = "sign" /\ Answer(r, res) /\ clock' = clock /\ files' = files
    BY DEF Sign
<1>2. q.file \in Files /\ InScope(q, files[q.file]) /\ Usable(q.row, q.now) /\ q.now \in Nat
    BY <1>1 DEF AccessInv, OnItsWay
<1>3. Sound(res)
    <2>1. CASE Public(q.row)
        <3>1. ~q.row.temporary
            <4>1. q.row.temporary => q.row.visibility = "private"
                BY <1>2 DEF Usable
            <4>2. q.row.visibility = "private" => ~Public(q.row)
                BY DEF Public, Or, AccessConstants
            <4> QED
                BY <2>1, <4>1, <4>2
        <3>2. res = [status |-> "public", file |-> q.file, row |-> q.row, at |-> q.now]
            BY <2>1
        <3> QED
            BY <1>2, <3>1, <3>2 DEF Sound
    <2>2. CASE ~Public(q.row) /\ seconds < 1
        <3>1. res = [status |-> "route", file |-> q.file, row |-> q.row, at |-> q.now]
            BY <2>2
        <3> QED
            BY <1>2, <3>1 DEF Sound
    <2>3. CASE ~Public(q.row) /\ ~(seconds < 1)
        <3>1. res = [status |-> "signed", file |-> q.file, row |-> q.row, at |-> q.now,
                     reported |-> q.now + 2 * seconds]
            BY <2>3
        <3>2. ASSUME q.row.temporary
              PROVE  q.now + 2 * seconds <= q.row.expiredAt /\ q.now + 2 * seconds >= q.now + 2
            <4>1. seconds >= 1
                BY <1>2, <2>3, <3>2 DEF SignedSeconds, Usable, AccessConstants
            <4> QED
                BY <1>2, <3>2, <4>1, SignedWithin
        <3> HIDE DEF seconds
        <3> QED
            BY <1>2, <3>1, <3>2 DEF Sound
    <2> QED
        BY <2>1, <2>2, <2>3
<1> HIDE DEF res
<1> QED
    BY <1>1, <1>2, <1>3, RowsStay, Answered

-----------------------------------------------------------------------------
(* Steps of others.                                                        *)

\* A row changes in a column that no scope depends on.
LEMMA RowStep ==
    ASSUME AccessInv, NEW f \in Files, NEW row, files' = [files EXCEPT ![f] = row], RowKept(row),
           \A k \in {"tenant", "dept", "user", "used", "attachment"} : row[k] = files[f][k],
           clock' = clock, request' = request, result' = result
    PROVE  AccessInv'
<1>1. DOMAIN files' = Files /\ files'[f] = row /\ \A x \in Files \ {f} : files'[x] = files[x]
    BY DEF AccessInv
<1>2. SameOwners(files, files') /\ \A x \in Files : RowKept(files'[x])
    BY <1>1 DEF SameOwners, AccessInv
<1> QED
    BY <1>1, <1>2, Bystander DEF AccessInv

LEMMA ActivateStep ==
    ASSUME AccessConstants, AccessInv, NEW f \in Files, Activate(f)
    PROVE  AccessInv'
<1> DEFINE expiry == IF files[f].temporary THEN clock + Lifetime ELSE None
           row == [files[f] EXCEPT !.status = "ready", !.uploading = FALSE, !.expiredAt = expiry]
<1>1. files' = [files EXCEPT ![f] = row] /\ clock' = clock /\ request' = request /\ result' = result
    BY DEF Activate, AccessInv
<1>2. DOMAIN files[f] = RowFields /\ (files[f].temporary => files[f].visibility = "private")
    BY DEF AccessInv, RowKept
<1>3. files[f].temporary => expiry \in Nat
    BY DEF AccessInv, AccessConstants
<1> HIDE DEF expiry
<1>4. /\ DOMAIN row = RowFields /\ row.expiredAt = expiry
      /\ \A k \in RowFields \ {"status", "uploading", "expiredAt"} : row[k] = files[f][k]
    BY <1>2 DEF RowFields
<1>5. row.temporary = files[f].temporary /\ row.visibility = files[f].visibility
    BY <1>4 DEF RowFields
<1>6. \A k \in {"tenant", "dept", "user", "used", "attachment"} : row[k] = files[f][k]
    BY <1>4 DEF RowFields
<1> HIDE DEF row
<1>7. RowKept(row)
    BY <1>2, <1>3, <1>4, <1>5 DEF RowKept
<1> QED
    BY <1>1, <1>6, <1>7, RowStep

\* A flag of the row is set.
LEMMA FlagStep ==
    ASSUME AccessInv, NEW f \in Files, NEW flag \in {"claimed", "deleted"},
           files' = [files EXCEPT ![f] = [files[f] EXCEPT ![flag] = TRUE]],
           clock' = clock, request' = request, result' = result
    PROVE  AccessInv'
<1> DEFINE row == [files[f] EXCEPT ![flag] = TRUE]
<1>1. DOMAIN files[f] = RowFields /\ RowKept(files[f])
    BY DEF AccessInv, RowKept
<1>2. DOMAIN row = RowFields /\ \A k \in RowFields \ {flag} : row[k] = files[f][k]
    BY <1>1
<1>3. /\ row.temporary = files[f].temporary /\ row.visibility = files[f].visibility
      /\ row.status = files[f].status /\ row.expiredAt = files[f].expiredAt
    BY <1>2 DEF RowFields
<1>4. \A k \in {"tenant", "dept", "user", "used", "attachment"} : row[k] = files[f][k]
    BY <1>2 DEF RowFields
<1>5. files' = [files EXCEPT ![f] = row]
    OBVIOUS
<1> HIDE DEF row
<1>6. RowKept(row)
    BY <1>1, <1>2, <1>3 DEF RowKept
<1> QED
    BY <1>4, <1>5, <1>6, RowStep

LEMMA TickStep ==
    ASSUME AccessInv, clock' \in Nat, files' = files, request' = request, result' = result
    PROVE  AccessInv'
BY DEF AccessInv

-----------------------------------------------------------------------------

LEMMA AccessInvInit == AccessConstants /\ AccessInit => AccessInv
<1> SUFFICES ASSUME AccessConstants, AccessInit PROVE AccessInv
    OBVIOUS
<1>1. clock = 0 /\ files \in [Files -> FileRows]
    BY DEF AccessInit
<1>2. \A f \in Files : RowKept(files[f])
    BY <1>1 DEF AccessConstants, RowKept
<1>3. request = [r \in Requests |-> NoRequest] /\ result = [r \in Requests |-> None]
    BY DEF AccessInit
<1>4. OnItsWay(NoRequest, files) /\ Settled(NoRequest, None, files)
    BY DEF OnItsWay, Settled, NoRequest
<1>5. \A r \in Requests : OnItsWay(request[r], files) /\ Settled(request[r], result[r], files)
    BY <1>3, <1>4
<1> QED
    BY <1>1, <1>2, <1>3, <1>5 DEF AccessInv

LEMMA AccessInvStep == AccessConstants /\ AccessInv /\ [AccessNext]_accessVars => AccessInv'
<1> SUFFICES ASSUME AccessConstants, AccessInv, [AccessNext]_accessVars PROVE AccessInv'
    OBVIOUS
<1>1. ASSUME NEW r \in Requests, Start(r) \/ authorize(r) \/ Query(r) \/ Stream(r) \/ Sign(r) PROVE AccessInv'
    BY <1>1, StartStep, AuthorizeStep, QueryStep, StreamStep, SignStep
<1>2. ASSUME NEW f \in Files, Activate(f) PROVE AccessInv'
    BY <1>2, ActivateStep
<1>3. ASSUME NEW f \in Files, Claim(f) PROVE AccessInv'
    <2>1. files' = [files EXCEPT ![f] = [files[f] EXCEPT !["claimed"] = TRUE]] /\ clock' = clock /\ request' = request /\ result' = result
        BY <1>3 DEF Claim, AccessInv
    <2> QED
        BY <2>1, FlagStep
<1>4. ASSUME NEW f \in Files, Finalize(f) PROVE AccessInv'
    <2>1. files' = [files EXCEPT ![f] = [files[f] EXCEPT !["deleted"] = TRUE]] /\ clock' = clock /\ request' = request /\ result' = result
        BY <1>4 DEF Finalize, AccessInv
    <2> QED
        BY <2>1, FlagStep
<1>5. CASE Tick
    <2>1. clock' \in Nat
        BY <1>5 DEF Tick, AccessInv
    <2> QED
        BY <1>5, <2>1, TickStep DEF Tick
<1>6. CASE UNCHANGED accessVars
    <2>1. clock' = clock /\ files' = files /\ request' = request /\ result' = result
        BY <1>6 DEF accessVars
    <2> QED
        BY <2>1, TickStep DEF AccessInv
<1> QED
    BY <1>1, <1>2, <1>3, <1>4, <1>5, <1>6 DEF AccessNext

\* For any files, rows, contexts, requests and delays: every answer but "not
\* found" is about a file inside its caller's scope, bytes and URLs are of a file
\* that was active and unexpired when its row was read, and a signed URL is not
\* reported to outlive the file (findAuthorized, resolveRowUrl).
THEOREM Answers == AccessConstants => (AccessSpec => []FileAnswers)
<1> SUFFICES ASSUME AccessConstants PROVE AccessSpec => []FileAnswers
    OBVIOUS
<1>1. AccessInv => FileAnswers
    <2> SUFFICES ASSUME AccessInv PROVE FileAnswers
        OBVIOUS
    <2>1. \A r \in Finished : /\ r \in Requests /\ InScope(request[r], files[request[r].file]) /\ Sound(result[r])
        BY DEF AccessInv, Finished, Settled
    <2>2. ScopedAnswers
        BY <2>1 DEF ScopedAnswers, InScope
    <2>3. OnlyActive
        BY <2>1 DEF OnlyActive, Sound, Usable
    <2>4. ReportedWithinLifetime
        BY <2>1 DEF ReportedWithinLifetime, Sound
    <2> QED
        BY <2>2, <2>3, <2>4 DEF FileAnswers
<1> QED
    BY AccessInvInit, AccessInvStep, <1>1, PTL DEF AccessSpec

-----------------------------------------------------------------------------
(* UploadValidation: the inductive invariant.                              *)

Started == config \notin {Unset, Rejected}

\* What normalization guarantees, whatever was configured.
ConfigOK(c) ==
    /\ c.max \in 1..AbsoluteMax
    /\ c.visibility = "public" => c.allowPublic

\* What was checked when initiate accepted an upload.
AcceptedOK(a, c) ==
    /\ a.type # Unset /\ a.ext = a.type /\ a.type \in c.allowed
    /\ a.size \in 1..c.max

\* The bytes are of the type, as far as the detectors can tell.
TypeShown(c, type, magic) ==
    /\ c.strong \in {Unset, type} \/ (c.strong = Zip /\ type \in Ooxml)
    /\ magic =>
          CASE type \in Ooxml -> type \in c.ooxml
            [] type \in Texts -> c.strong = Unset /\ c.text /\ (type = Json => c.json)
            [] OTHER -> c.strong = type

StoredOK(o, c) ==
    /\ o.size \in 1..AbsoluteMax /\ o.type \in c.allowed
    /\ o.via # "stream" => o.content.len = o.size /\ TypeShown(o.content, o.type, c.magic)
    /\ o.visibility = "public" => c.allowPublic /\ ~o.temporary

ValidationInv ==
    /\ Started => ConfigOK(config)
    /\ accepted # Unset => Started /\ AcceptedOK(accepted, config)
    /\ body \in 0..AbsoluteMax
    /\ stored # Unset => Started /\ StoredOK(stored, config)

-----------------------------------------------------------------------------
(* UploadValidation: the checks.                                           *)

\* A maximum is clamped, and a public default that was not enabled is refused.
LEMMA NormalizedOK ==
    ASSUME ValidationConstants, NEW c \in RawConfigs, ValidConfig(c)
    PROVE  ConfigOK(Normalized(c))
<1>1. Given(c.max, DefaultMax) \in Int
    BY DEF ValidationConstants, Given
<1>2. Normalized(c).max \in 1..AbsoluteMax
    <2>1. \A x \in Int : Max2(1, Min2(x, AbsoluteMax)) \in 1..AbsoluteMax
        BY DEF ValidationConstants, Max2, Min2
    <2>2. Normalized(c).max = Max2(1, Min2(Given(c.max, DefaultMax), AbsoluteMax))
        BY DEF Normalized
    <2> QED
        BY <1>1, <2>1, <2>2
<1>3. Normalized(c).visibility = "public" => Normalized(c).allowPublic
    BY DEF Normalized, ValidConfig
<1> QED
    BY <1>2, <1>3 DEF ConfigOK

\* What an accepted buffer is known to be.
LEMMA BufferOK ==
    ASSUME ValidationConstants, NEW c \in Contents, NEW ext, NEW declared, NEW allowed, NEW magic, NEW max,
           NEW t, t = validateUploadBuffer(c, ext, declared, allowed, magic, max), t # Rejected
    PROVE  /\ c.len > 0 /\ c.len <= max /\ t \in allowed /\ TypeShown(c, t, magic)
           /\ declared # Unset => t = declared
<1>1. /\ c.len > 0 /\ c.len <= max /\ t \in allowed
      /\ c.strong \in {Unset, t} \/ (c.strong = Zip /\ t \in Ooxml)
      /\ magic => validatePracticalSignature(c, t)
      /\ declared # Unset => t = declared
    BY DEF validateUploadBuffer
<1>2. c.strong \notin Texts /\ Ooxml \cap Texts = {}
    BY DEF ValidationConstants
<1>3. ASSUME magic
      PROVE  /\ t \in Ooxml => t \in c.ooxml
             /\ t \in Texts => c.strong = Unset /\ c.text /\ (t = Json => c.json)
             /\ t \notin Ooxml \cup Texts => c.strong = t
    BY <1>1, <1>2, <1>3 DEF validatePracticalSignature
<1>4. TypeShown(c, t, magic)
    BY <1>1, <1>2, <1>3 DEF TypeShown
<1> QED
    BY <1>1, <1>4

\* A call narrows the module's limits, and never widens them.
LEMMA LimitsNarrow ==
    ASSUME ValidationConstants, Started => ConfigOK(config), Started, NEW a \in Calls, LimitsOK(a)
    PROVE  Allowed(a) \subseteq config.allowed /\ MaxBytes(a) \in 1..config.max /\ config.max \in 1..AbsoluteMax
<1>1. config.max \in 1..AbsoluteMax /\ AbsoluteMax \in Nat
    BY DEF ConfigOK, ValidationConstants
<1>2. a.max # Unset => a.max \in Int /\ a.max > 0
    BY DEF LimitsOK, ValidationConstants
<1> QED
    BY <1>1, <1>2 DEF Allowed, MaxBytes, Min2

\* Public only where it is enabled, and never what is temporary.
LEMMA VisibilityOK ==
    ASSUME NEW requested, NEW temporary \in BOOLEAN, DirectVisibility(requested, temporary) # Rejected
    PROVE  DirectVisibility(requested, temporary) = "public" => config.allowPublic /\ ~temporary
BY DEF DirectVisibility

-----------------------------------------------------------------------------
(* UploadValidation: the steps.                                            *)

\* A checked object is stored by a call.
LEMMA StoreStep ==
    ASSUME ValidationInv, Started, accepted' \in {Unset, accepted}, body' \in {0, body}, config' = config,
           ValidationConstants, StoredOK(stored', config)
    PROVE  ValidationInv'
<1>1. AbsoluteMax \in Nat
    BY DEF ValidationConstants
<1>2. Started'
    BY DEF Started
<1> QED
    BY <1>1, <1>2 DEF ValidationInv

\* The checks of the paths that look at the bytes.
LEMMA BufferStored ==
    ASSUME ValidationConstants, ValidationInv, Started, NEW c \in Contents, NEW t, NEW max,
           c.len > 0, c.len <= max, max \in 1..config.max, t \in config.allowed, TypeShown(c, t, config.magic),
           NEW via, NEW visibility, NEW temporary, visibility = "public" => config.allowPublic /\ ~temporary
    PROVE  StoredOK(Object(via, t, c.len, c, visibility, temporary), config)
<1>1. c.len \in Nat /\ AbsoluteMax \in Nat /\ config.max \in 1..AbsoluteMax
    BY DEF ValidationConstants, ValidationInv, ConfigOK
<1>2. c.len \in 1..AbsoluteMax
    BY <1>1
<1> QED
    BY <1>2 DEF StoredOK, Object

LEMMA ValidationInvInit == ValidationConstants /\ ValidationInit => ValidationInv
BY DEF ValidationConstants, ValidationInit, ValidationInv, Started

LEMMA ValidationInvStep == ValidationConstants /\ ValidationInv /\ [ValidationNext]_validationVars => ValidationInv'
<1> SUFFICES ASSUME ValidationConstants, ValidationInv, [ValidationNext]_validationVars PROVE ValidationInv'
    OBVIOUS
<1>0. (Started => ConfigOK(config)) /\ AbsoluteMax \in Nat
    BY DEF ValidationConstants, ValidationInv
<1>1. CASE normalizeUploadedFileConfig
    <2>1. /\ config = Unset /\ accepted' = accepted /\ body' = body /\ stored' = stored
          /\ \E c \in RawConfigs : config' = IF ValidConfig(c) THEN Normalized(c) ELSE Rejected
        BY <1>1 DEF normalizeUploadedFileConfig
    <2>2. accepted = Unset /\ stored = Unset
        BY <2>1 DEF ValidationInv, Started
    <2>3. Started' => ConfigOK(config')
        BY <2>1, NormalizedOK DEF Started
    <2> QED
        BY <2>1, <2>2, <2>3 DEF ValidationInv
<1>2. CASE uploadLegacy
    <2>1. PICK a \in Calls, c \in Contents :
            LET t == validateUploadBuffer(c, a.ext, a.declared, Allowed(a), config.magic, MaxBytes(a))
            IN  /\ NoUploadYet /\ LimitsOK(a) /\ t # Rejected
                /\ stored' = Object("legacy", t, c.len, c, config.visibility, FALSE)
                /\ UNCHANGED <<config, accepted, body>>
        BY <1>2 DEF uploadLegacy
    <2> DEFINE t == validateUploadBuffer(c, a.ext, a.declared, Allowed(a), config.magic, MaxBytes(a))
    <2>2. Started /\ LimitsOK(a) /\ t # Rejected /\ stored' = Object("legacy", t, c.len, c, config.visibility, FALSE)
        BY <2>1 DEF NoUploadYet, Started
    <2>3. c.len > 0 /\ c.len <= MaxBytes(a) /\ t \in Allowed(a) /\ TypeShown(c, t, config.magic)
        BY <2>2, BufferOK
    <2>4. Allowed(a) \subseteq config.allowed /\ MaxBytes(a) \in 1..config.max
        BY <1>0, <2>2, LimitsNarrow
    <2>5. config.visibility = "public" => config.allowPublic /\ ~FALSE
        BY <1>0, <2>2 DEF ConfigOK
    <2> HIDE DEF t
    <2>6. StoredOK(stored', config)
        BY <2>2, <2>3, <2>4, <2>5, BufferStored
    <2> QED
        BY <2>1, <2>2, <2>6, StoreStep
<1>3. CASE cloneFromUrl
    <2>1. PICK a \in Calls, c \in Contents :
            LET t == validateUploadBuffer(c, a.ext, a.declared, config.allowed, config.magic, config.max)
            IN  /\ NoUploadYet /\ t # Rejected
                /\ stored' = Object("remote", t, c.len, c, config.visibility, FALSE)
                /\ UNCHANGED <<config, accepted, body>>
        BY <1>3 DEF cloneFromUrl
    <2> DEFINE t == validateUploadBuffer(c, a.ext, a.declared, config.allowed, config.magic, config.max)
    <2>2. Started /\ t # Rejected /\ stored' = Object("remote", t, c.len, c, config.visibility, FALSE)
        BY <2>1 DEF NoUploadYet, Started
    <2>3. c.len > 0 /\ c.len <= config.max /\ t \in config.allowed /\ TypeShown(c, t, config.magic)
        BY <2>2, BufferOK
    <2>4. config.max \in 1..config.max
        BY <1>0, <2>2 DEF ConfigOK
    <2>5. config.visibility = "public" => config.allowPublic /\ ~FALSE
        BY <1>0, <2>2 DEF ConfigOK
    <2> HIDE DEF t
    <2>6. StoredOK(stored', config)
        BY <2>2, <2>3, <2>4, <2>5, BufferStored
    <2> QED
        BY <2>1, <2>2, <2>6, StoreStep
<1>4. CASE uploadTemporaryLegacy
    <2>1. PICK a \in Calls, c \in Contents :
            LET t == validateUploadBuffer(c, a.ext, a.declared, Allowed(a), config.magic, MaxBytes(a))
            IN  /\ NoUploadYet /\ LimitsOK(a) /\ t # Rejected
                /\ stored' = Object("temporary", t, c.len, c, "private", TRUE)
                /\ UNCHANGED <<config, accepted, body>>
        BY <1>4 DEF uploadTemporaryLegacy
    <2> DEFINE t == validateUploadBuffer(c, a.ext, a.declared, Allowed(a), config.magic, MaxBytes(a))
    <2>2. Started /\ LimitsOK(a) /\ t # Rejected /\ stored' = Object("temporary", t, c.len, c, "private", TRUE)
        BY <2>1 DEF NoUploadYet, Started
    <2>3. c.len > 0 /\ c.len <= MaxBytes(a) /\ t \in Allowed(a) /\ TypeShown(c, t, config.magic)
        BY <2>2, BufferOK
    <2>4. Allowed(a) \subseteq config.allowed /\ MaxBytes(a) \in 1..config.max
        BY <1>0, <2>2, LimitsNarrow
    <2> HIDE DEF t
    <2>5. StoredOK(stored', config)
        BY <2>2, <2>3, <2>4, BufferStored
    <2> QED
        BY <2>1, <2>2, <2>5, StoreStep
<1>5. CASE uploadManagedBuffer
    <2>1. PICK a \in Calls, c \in Contents, temporary \in BOOLEAN :
            LET t == validateUploadBuffer(c, a.ext, a.declared, Allowed(a), config.magic, MaxBytes(a))
                v == DirectVisibility(Given(a.visibility, config.visibility), temporary)
            IN  /\ NoUploadYet /\ LimitsOK(a) /\ t # Rejected /\ v # Rejected
                /\ stored' = Object("managed", t, c.len, c, v, temporary)
                /\ UNCHANGED <<config, accepted, body>>
        BY <1>5 DEF uploadManagedBuffer
    <2> DEFINE t == validateUploadBuffer(c, a.ext, a.declared, Allowed(a), config.magic, MaxBytes(a))
               v == DirectVisibility(Given(a.visibility, config.visibility), temporary)
    <2>2. Started /\ LimitsOK(a) /\ t # Rejected /\ stored' = Object("managed", t, c.len, c, v, temporary)
        BY <2>1 DEF NoUploadYet, Started
    <2>3. c.len > 0 /\ c.len <= MaxBytes(a) /\ t \in Allowed(a) /\ TypeShown(c, t, config.magic)
        BY <2>2, BufferOK
    <2>4. Allowed(a) \subseteq config.allowed /\ MaxBytes(a) \in 1..config.max
        BY <1>0, <2>2, LimitsNarrow
    <2>5. v = "public" => config.allowPublic /\ ~temporary
        BY <2>1, VisibilityOK
    <2> HIDE DEF t, v
    <2>6. StoredOK(stored', config)
        BY <2>2, <2>3, <2>4, <2>5, BufferStored
    <2> QED
        BY <2>1, <2>2, <2>6, StoreStep
<1>6. CASE uploadManagedStream
    <2>1. PICK a \in Calls, temporary \in BOOLEAN :
            LET v == DirectVisibility(Given(a.visibility, config.visibility), temporary)
            IN  /\ NoUploadYet /\ LimitsOK(a) /\ v # Rejected
                /\ validateUploadMetadata(a.ext, a.declared, a.size, Allowed(a), MaxBytes(a))
                /\ stored' = Object("stream", a.declared, a.size, Unset, v, temporary)
                /\ UNCHANGED <<config, accepted, body>>
        BY <1>6 DEF uploadManagedStream
    <2> DEFINE v == DirectVisibility(Given(a.visibility, config.visibility), temporary)
    <2>2. Started /\ LimitsOK(a) /\ stored' = Object("stream", a.declared, a.size, Unset, v, temporary)
        BY <2>1 DEF NoUploadYet, Started
    <2>3. Allowed(a) \subseteq config.allowed /\ MaxBytes(a) \in 1..config.max /\ config.max \in 1..AbsoluteMax
        BY <1>0, <2>2, LimitsNarrow
    <2>4. a.size \in 1..AbsoluteMax /\ a.declared \in config.allowed
        BY <1>0, <2>1, <2>3 DEF validateUploadMetadata, ValidationConstants
    <2>5. v = "public" => config.allowPublic /\ ~temporary
        BY <2>1, VisibilityOK
    <2> HIDE DEF v
    <2>6. StoredOK(stored', config)
        BY <2>2, <2>4, <2>5 DEF StoredOK, Object
    <2> QED
        BY <2>1, <2>2, <2>6, StoreStep
<1>7. CASE initiateUpload
    <2>1. PICK a \in Calls, temporary \in BOOLEAN :
            /\ NoUploadYet
            /\ validateUploadMetadata(a.ext, a.declared, a.size, config.allowed, config.max)
            /\ accepted' = [ext |-> a.ext, type |-> a.declared, size |-> a.size, temporary |-> temporary]
            /\ body' = 0 /\ config' = config /\ stored' = stored
        BY <1>7 DEF initiateUpload
    <2>2. Started /\ config.max \in 1..AbsoluteMax
        BY <1>0, <2>1 DEF NoUploadYet, Started, ConfigOK
    <2>3. a.size \in 1..config.max
        BY <1>0, <2>1, <2>2 DEF validateUploadMetadata, ValidationConstants
    <2>4. AcceptedOK(accepted', config)
        BY <2>1, <2>3 DEF AcceptedOK, validateUploadMetadata
    <2>5. Started'
        BY <2>1, <2>2 DEF Started
    <2> QED
        <3>1. Started' => ConfigOK(config')
            BY <1>0, <2>1, <2>2
        <3>2. body' \in 0..AbsoluteMax
            BY <1>0, <2>1
        <3>3. stored' # Unset => StoredOK(stored', config')
            BY <2>1 DEF ValidationInv
        <3>4. AcceptedOK(accepted', config')
            BY <2>1, <2>4
        <3> QED
            BY <2>5, <3>1, <3>2, <3>3, <3>4 DEF ValidationInv
<1>8. CASE readChunk
    <2>1. PICK n \in Chunks :
            /\ body' = IF body + n > AbsoluteMax THEN 0 ELSE body + n
            /\ config' = config /\ accepted' = accepted /\ stored' = stored
        BY <1>8 DEF readChunk
    <2>2. n \in Nat /\ body \in 0..AbsoluteMax
        BY DEF ValidationConstants, ValidationInv
    <2>3. body' \in 0..AbsoluteMax
        BY <1>0, <2>1, <2>2
    <2> QED
        BY <2>1, <2>3 DEF ValidationInv, Started
<1>9. CASE putValidContent
    <2>1. PICK c \in Contents :
            /\ accepted # Unset
            /\ validateUploadBuffer(c, accepted.ext, accepted.type, config.allowed, config.magic, accepted.size) # Rejected
            /\ c.len = accepted.size
            /\ stored' = Object("content", accepted.type, accepted.size, c, "private", accepted.temporary)
            /\ accepted' = Unset /\ body' = 0 /\ config' = config
        BY <1>9 DEF putValidContent
    <2>2. Started /\ AcceptedOK(accepted, config)
        BY <2>1 DEF ValidationInv
    <2>3. /\ c.len > 0 /\ c.len <= accepted.size /\ accepted.type \in config.allowed
          /\ TypeShown(c, accepted.type, config.magic)
        BY <2>1, <2>2, BufferOK DEF AcceptedOK
    <2>4. accepted.size \in 1..config.max
        BY <2>2 DEF AcceptedOK
    <2>5. stored' = Object("content", accepted.type, c.len, c, "private", accepted.temporary)
        BY <2>1
    <2>6. StoredOK(stored', config)
        BY <2>2, <2>3, <2>4, <2>5, BufferStored
    <2> QED
        BY <2>1, <2>2, <2>6, StoreStep
<1>10. CASE UNCHANGED validationVars
    BY <1>10 DEF validationVars, ValidationInv, Started
<1> QED
    BY <1>1, <1>2, <1>3, <1>4, <1>5, <1>6, <1>7, <1>8, <1>9, <1>10 DEF ValidationNext

\* Bytes of the announced type and size pass putUploadContent's validation.
LEMMA CanComplete == ValidationConstants /\ ValidationInv => AcceptedCompletes
<1> SUFFICES ASSUME ValidationConstants, ValidationInv, accepted # Unset PROVE AcceptedCompletes
    BY DEF AcceptedCompletes
<1> DEFINE t == accepted.type
           ideal == [len |-> accepted.size,
                     strong |-> IF t \in Texts THEN Unset ELSE IF t \in Ooxml THEN Zip ELSE t,
                     ooxml |-> {t} \cap Ooxml, text |-> t \in Texts, json |-> t = Json]
<1>1. /\ AcceptedOK(accepted, config) /\ config.max \in 1..AbsoluteMax /\ AbsoluteMax \in Nat
    BY DEF ValidationConstants, ValidationInv, ConfigOK
<1>2. /\ accepted.size \in Nat /\ accepted.size > 0 /\ accepted.size <= AbsoluteMax /\ accepted.size <= accepted.size
      /\ t # Unset /\ accepted.ext = t /\ t \in config.allowed
    BY <1>1 DEF AcceptedOK
<1>3. /\ ideal.len = accepted.size /\ ideal.ooxml = {t} \cap Ooxml /\ ideal.text = (t \in Texts) /\ ideal.json = (t = Json)
      /\ ideal.strong = IF t \in Texts THEN Unset ELSE IF t \in Ooxml THEN Zip ELSE t
    OBVIOUS
<1> HIDE DEF t
<1>4. validatePracticalSignature(ideal, t)
    BY <1>2, <1>3 DEF validatePracticalSignature
<1>5. ideal.strong \in {Unset, t} \/ (ideal.strong = Zip /\ t \in Ooxml)
    BY <1>3
<1> HIDE DEF ideal
<1>6. validateUploadBuffer(ideal, accepted.ext, t, config.allowed, config.magic, accepted.size) = t
    BY <1>2, <1>3, <1>4, <1>5 DEF validateUploadBuffer
<1> QED
    BY <1>2, <1>6 DEF AcceptedCompletes, ideal, t

\* For any configuration, limits, types, calls and bytes: what is stored has the
\* recorded type and size, is within the limits, and is public only where that is
\* enabled; the body buffer stays within the absolute limit; what initiate
\* accepted can be completed (config.ts, upload-security.ts).
THEOREM Checked == ValidationConstants => (ValidationSpec => []StoredIsChecked)
<1> SUFFICES ASSUME ValidationConstants PROVE ValidationSpec => []StoredIsChecked
    OBVIOUS
<1>1. ValidationInv => StoredIsChecked
    <2> SUFFICES ASSUME ValidationInv PROVE StoredIsChecked
        OBVIOUS
    <2>1. stored # Unset => StoredOK(stored, config)
        BY DEF ValidationInv
    <2>2. StoredTypeTrue
        <3> SUFFICES ASSUME stored # Unset, stored.via # "stream" PROVE TypeShown(stored.content, stored.type, config.magic)
            BY DEF StoredTypeTrue, TypeShown
        <3> QED
            BY <2>1 DEF StoredOK
    <2>3. SizesTrue /\ PublicOptIn
        BY <2>1 DEF SizesTrue, PublicOptIn, StoredOK
    <2>4. BodyBounded
        BY DEF BodyBounded, ValidationInv, ValidationConstants
    <2> QED
        BY <2>2, <2>3, <2>4, CanComplete DEF StoredIsChecked
<1> QED
    BY ValidationInvInit, ValidationInvStep, <1>1, PTL DEF ValidationSpec
=============================================================================
