------------------------------ MODULE FileAccess ------------------------------
(***************************************************************************)
(* The reads of UploadedFileService: a request resolves its scope from the  *)
(* context, asks the authorization policy, looks its row up under that      *)
(* scope, and then streams the object or signs a URL for it. Each arrow is  *)
(* an await, and rows change meanwhile. The clock counts half seconds.      *)
(***************************************************************************)
EXTENDS Integers, FiniteSets

CONSTANTS
    None, Bad,     \* an absent value, and one that fails validation
    Files, Requests,
    FileRows,          \* rows a file may have initially
    Contexts,      \* request contexts: [configured, customTenant, tenant, dept, user]
    Attachments,   \* what downloadAttached may ask for; Bad is malformed
    PublicFiles,   \* config.publicFiles
    DownloadTtl,        \* seconds: min(privateDownloadUrlTtlSeconds, its maximum, 1 h)
    Lifetime,      \* half seconds a temporary file lives
    SignDelay,     \* bound: half seconds between reading the time and signing
    MaxClock       \* bound

VARIABLES
    clock,
    files,     \* files[f]: its row
    objects,   \* keys whose object exists in storage
    request,   \* request[r]: op, file, context, attachment, pc, scope, decision, now, row
    result     \* result[r]: None, or what the caller got

RowFields ==
    {"tenant", "dept", "user", "temporary", "visibility", "used", "attachment", "status", "uploading",
     "claimed", "deleted", "expiredAt", "extra"}

\* Times are half seconds. A temporary file is written private, and has an expiry
\* from its activation on.
AccessConstants ==
    /\ DownloadTtl \in Nat /\ Lifetime \in Nat /\ None \notin Int /\ None # "private"
    /\ \A row \in FileRows :
          /\ DOMAIN row = RowFields
          /\ row.temporary => row.visibility = "private" /\ (row.status = "ready" => row.expiredAt \in Nat)

accessVars == <<clock, files, objects, request, result>>

Ops == {"download", "downloadAttached", "resolveUrl", "find", "setExtraData"}

NotFound == [status |-> "404"]

Gone == [status |-> "410"]

-----------------------------------------------------------------------------
(* Scope and authorization *)

Or(x, y) == IF x # None THEN x ELSE y

\* The configured resolver, then custom.tenantCode, then the context's tenant.
resolveScope(c) ==
    [tenant |-> Or(c.configured, Or(c.customTenant, c.tenant)), dept |-> c.dept, user |-> c.user]

\* Without a store, or with a missing or malformed tenant, user or department,
\* there is no scope.
HasScope(c) ==
    c # None /\ resolveScope(c).tenant \notin {None, Bad} /\ c.user \notin {None, Bad} /\ c.dept # Bad

\* Mutant of where: the department filter is dropped.
whereTenant(row, scope, decision) ==
    /\ row.tenant = scope.tenant /\ (decision = "owner" => row.user = scope.user)
    /\ ~row.deleted /\ ~row.uploading /\ ~row.claimed

\* The filter of ordinary reads and updates.
where(row, scope, decision) ==
    /\ row.tenant = scope.tenant
    /\ scope.dept # None => row.dept = scope.dept
    /\ decision = "owner" => row.user = scope.user
    /\ ~row.deleted /\ ~row.uploading /\ ~row.claimed

\* find() also sees uploads that are still pending.
findWhere(row, scope, decision) == where([row EXCEPT !.uploading = FALSE], scope, decision)

\* downloadAttached ignores the uploader but requires the exact attachment.
attachedWhere(row, scope, attachment) ==
    /\ row.tenant = scope.tenant /\ row.used /\ row.attachment = attachment
    /\ ~row.deleted /\ ~row.uploading /\ ~row.claimed

ExpiredFile(row, now) == row.temporary /\ row.expiredAt # None /\ now >= row.expiredAt

Answer(r, res) ==
    /\ result' = [result EXCEPT ![r] = res]
    /\ request' = [request EXCEPT ![r].pc = "done"]

\* A caller starts an operation; without a valid scope it is not found.
Start(r) ==
    \E op \in Ops, f \in Files \cup {Bad}, c \in Contexts, a \in Attachments :
        /\ request[r].pc = "idle" /\ (op # "downloadAttached" => a = None)
        /\ IF f = Bad \/ ~HasScope(c) \/ a = Bad
           THEN Answer(r, NotFound)
           ELSE /\ request' = [request EXCEPT ![r] = [op |-> op, file |-> f, attachment |-> a, pc |-> "policy",
                                  scope |-> resolveScope(c), decision |-> None, now |-> None, row |-> None]]
                /\ UNCHANGED result
        /\ UNCHANGED <<clock, files, objects>>

\* authorize: the policy answers; anything but owner or tenant is a denial, and
\* so is an attachedReadPolicy that does not return true.
authorize(r) ==
    \E d \in {"owner", "tenant", "deny", None} :
        /\ request[r].pc = "policy"
        /\ IF d \notin {"owner", "tenant"} THEN Answer(r, NotFound)
           ELSE request' = [request EXCEPT ![r].pc = "query", ![r].decision = d] /\ UNCHANGED result
        /\ UNCHANGED <<clock, files, objects>>

-----------------------------------------------------------------------------
(* Row and object *)

\* The effective visibility of a row: older ones have none of their own.
Public(row) == Or(row.visibility, IF PublicFiles THEN "public" ELSE "private") = "public"

Matches(q) ==
    LET row == files[q.file]
    IN  CASE q.op = "downloadAttached" -> attachedWhere(row, q.scope, q.attachment)
          [] q.op = "find" -> findWhere(row, q.scope, q.decision)
          [] OTHER -> where(row, q.scope, q.decision)

\* findOne, then what is decided from the row without another await: find shows
\* a pending row without a URL, the others require a ready, unexpired one.
Query(r) ==
    LET q == request[r]
        row == files[q.file]
    IN  /\ q.pc = "query"
        /\ IF ~Matches(q) THEN Answer(r, NotFound) /\ UNCHANGED files
           ELSE IF q.op = "setExtraData"
           THEN /\ files' = [files EXCEPT ![q.file].extra = r]
                /\ Answer(r, [status |-> "ok", file |-> q.file, row |-> row, at |-> clock])
           ELSE /\ UNCHANGED files
                /\ IF row.status # "ready"
                   THEN Answer(r, IF q.op = "find" THEN [status |-> "pending", file |-> q.file, row |-> row]
                                  ELSE NotFound)
                   ELSE IF ExpiredFile(row, clock) THEN Answer(r, Gone)
                   ELSE /\ request' = [request EXCEPT
                                ![r].pc = IF q.op \in {"download", "downloadAttached"} THEN "stream" ELSE "sign",
                                ![r].now = clock, ![r].row = row]
                        /\ UNCHANGED result
        /\ UNCHANGED <<clock, objects>>

\* storage.download: a missing object is not found.
Stream(r) ==
    LET q == request[r]
    IN  /\ q.pc = "stream"
        /\ Answer(r, IF q.file \in objects
                     THEN [status |-> "stream", file |-> q.file, row |-> q.row, at |-> q.now]
                     ELSE NotFound)
        /\ UNCHANGED <<clock, files, objects>>

\* Whole seconds a signed URL lives: never more than the file has left.
SignedSeconds(row, now) ==
    IF row.temporary /\ row.expiredAt # None /\ (row.expiredAt - now) \div 2 < DownloadTtl
    THEN (row.expiredAt - now) \div 2
    ELSE DownloadTtl

\* resolveRowUrl: a public URL, the protected route in the last sub-second, or
\* a URL signed when the driver gets to it, valid from then on.
Sign(r) ==
    LET q == request[r]
        seconds == SignedSeconds(q.row, q.now)
    IN  /\ q.pc = "sign" /\ clock - q.now <= SignDelay
        /\ Answer(r, IF Public(q.row)
                     THEN [status |-> "public", file |-> q.file, row |-> q.row, at |-> q.now]
                     ELSE IF seconds < 1
                     THEN [status |-> "route", file |-> q.file, row |-> q.row, at |-> q.now]
                     ELSE [status |-> "signed", file |-> q.file, row |-> q.row, at |-> q.now,
                           reported |-> q.now + 2 * seconds])
        /\ UNCHANGED <<clock, files, objects>>

-----------------------------------------------------------------------------
(* What other requests do to the rows *)

\* An upload becomes visible; a temporary file's lifetime starts.
Activate(f) ==
    /\ files[f].status = "pending" /\ ~files[f].claimed
    /\ files' = [files EXCEPT ![f].status = "ready", ![f].uploading = FALSE,
                              ![f].expiredAt = IF files[f].temporary THEN clock + Lifetime ELSE None]
    /\ UNCHANGED <<clock, objects, request, result>>

\* A deleter claims the row, removes the object and finalizes the row.
Claim(f) ==
    /\ ~files[f].claimed /\ ~files[f].deleted
    /\ files' = [files EXCEPT ![f].claimed = TRUE]
    /\ UNCHANGED <<clock, objects, request, result>>

Finalize(f) ==
    /\ files[f].claimed /\ ~files[f].deleted
    /\ objects' = objects \ {f}
    /\ files' = [files EXCEPT ![f].deleted = TRUE]
    /\ UNCHANGED <<clock, request, result>>

Tick ==
    /\ clock < MaxClock
    /\ \A r \in Requests : request[r].pc = "sign" => clock - request[r].now < SignDelay
    /\ clock' = clock + 1
    /\ UNCHANGED <<files, objects, request, result>>

-----------------------------------------------------------------------------

NoRequest == [pc |-> "idle"]

AccessInit ==
    /\ clock = 0 /\ files \in [Files -> FileRows] /\ objects = Files
    /\ request = [r \in Requests |-> NoRequest] /\ result = [r \in Requests |-> None]

AccessNext ==
    \/ \E r \in Requests : Start(r) \/ authorize(r) \/ Query(r) \/ Stream(r) \/ Sign(r)
    \/ \E f \in Files : Activate(f) \/ Claim(f) \/ Finalize(f)
    \/ Tick

AccessSpec == AccessInit /\ [][AccessNext]_accessVars

-----------------------------------------------------------------------------
(* Properties *)

Finished == {r \in Requests : result[r] # None /\ result[r].status \notin {"404"}}

\* A caller learns that a file exists only inside its own scope: every answer
\* but "not found" is about a row of its tenant, of its department when it has
\* one, and, unless the policy widened it or the attachment was approved, of
\* its own (authorize, where).
ScopedAnswers ==
    \A r \in Finished :
        LET q == request[r]
            row == files[q.file]
        IN  /\ row.tenant = q.scope.tenant
            /\ q.op = "downloadAttached" => row.used /\ row.attachment = q.attachment
            /\ q.op # "downloadAttached" =>
                  /\ q.decision \in {"owner", "tenant"}
                  /\ q.decision = "owner" => row.user = q.scope.user
                  /\ q.scope.dept # None => row.dept = q.scope.dept

\* Bytes and URLs are handed out only for an upload that was active, unclaimed
\* and unexpired when its row was read; extraData never lands in a row outside
\* the scope (findAuthorized, assertReadyAndUnexpired).
OnlyActive ==
    \A r \in Finished : result[r].status \in {"stream", "signed", "public", "route"} =>
        LET row == result[r].row
        IN  /\ row.status = "ready" /\ ~row.deleted /\ ~row.claimed
            /\ row.temporary => result[r].at < row.expiredAt
            /\ result[r].status = "public" => ~row.temporary

\* urlExpiredAt, which the caller is told, is not after the file's expiry, and a
\* URL is worth at least one second (resolveRowUrl).
ReportedWithinLifetime ==
    \A r \in Finished : result[r].status = "signed" /\ result[r].row.temporary =>
        /\ result[r].reported <= result[r].row.expiredAt
        /\ result[r].reported >= result[r].at + 2

\* The three together: every answer about a file is for a caller inside its
\* scope and a file that was active and unexpired, and reports no lifetime
\* longer than the file's.
FileAnswers == ScopedAnswers /\ OnlyActive /\ ReportedWithinLifetime
=============================================================================
