-------------------------- MODULE ScopedRepository --------------------------
(***************************************************************************)
(* The tenancy-scoped repository (core/orm/base-repository.ts with          *)
(* core/tenancy/tenancy.helpers.ts), the service above it                   *)
(* (core/orm/base-service.ts) and the action history its mutations record   *)
(* (features/action-history/action-history.service.ts).                     *)
(*                                                                          *)
(* Callers run concurrently against one table on a READ COMMITTED           *)
(* database.  A mutation is several statements of one transaction: it reads *)
(* what it is about to change, changes it, reads the result, records        *)
(* history.  A statement sees committed rows and its own writes, and waits  *)
(* for rows another open transaction has written.                           *)
(***************************************************************************)
EXTENDS Naturals, Sequences, FiniteSets

CONSTANTS
    Callers,     \* concurrent requests
    Ids,         \* primary keys
    Vals,        \* the unscoped content of a row
    Deletable,   \* the contents whose DTO is deletable and restorable
    Columns,     \* @Scoped() properties of the entity; "tenantCode" is one
    Required,    \* those that are not @Scoped({ required: false })
    ScopeVals,   \* values a scope column can hold
    Contexts,    \* Contexts[c]: the request contexts caller c may have
    Parent,      \* Parent[i]: the row that row i's many-to-one relation names
    Seed,        \* the rows the table starts with
    LogHistory,  \* options.logHistory
    MaxCalls,    \* bound: MaxCalls[c] calls of caller c
    MaxBatch     \* bound: ids of one batch

VARIABLES
    table,   \* committed rows
    log,     \* committed action history; the code stores no order between transactions
    tx       \* tx[c]: what caller c is doing, and its uncommitted writes

repositoryVars == <<table, log, tx>>

NoRow == [exists |-> FALSE]

\* A row of the table.
IsRow(r) ==
    r \in [exists : {TRUE}, scope : {r.scope}, val : {r.val}, deleted : {r.deleted}, modifiedBy : {r.modifiedBy}]

RepositoryConstants ==
    /\ IsFiniteSet(Ids) /\ "tenantCode" \in Columns
    /\ DOMAIN Seed \subseteq Ids /\ \A i \in DOMAIN Seed : IsRow(Seed[i])

Null == "null"

\* A scope value of ITenancyStrategy.getCurrentScope: absent, <<"scalar", {v}>>,
\* or <<"array", S>> for allowed values. "blank" stands for a value that is no
\* scalar.
Absent == <<"absent", {}>>

isScalar(v) == v \in ScopeVals

\* A context's grant is [given |-> FALSE] or a structured bypass grant [given,
\* valid, target, ops, sync]: well formed, naming this table, for these
\* operations, with an audit callback that returns undefined.

Idle == [pc |-> "idle", open |-> FALSE, op |-> "none", ids |-> {}, val |-> Null,
         old |-> <<>>, scopes |-> <<>>, writes |-> <<>>, hist |-> <<>>,
         over |-> {}, audits |-> {}, done |-> {}, seen |-> {}]

\* A request with context x, before its first call.
Arrived(x) ==
    [k \in DOMAIN Idle \cup {"ctx", "calls"} |-> IF k = "ctx" THEN x ELSE IF k = "calls" THEN 0 ELSE Idle[k]]

RepositoryInit ==
    /\ table = [i \in Ids |-> IF i \in DOMAIN Seed THEN Seed[i] ELSE NoRow]
    /\ log = <<>>
    /\ tx \in [Callers -> {Arrived(x) : x \in UNION {Contexts[c] : c \in Callers}}]
    /\ \A c \in Callers : tx[c].ctx \in Contexts[c]

-----------------------------------------------------------------------------
(* Tenancy: tenancy.helpers.ts and the integration hooks *)

\* assertRequiredScope and the scalar checks of resolveScopePredicates.
ScopeOK(scope) ==
    /\ \A k \in Required : scope[k] # Absent
    /\ \A k \in Columns : \A v \in scope[k][2] : isScalar(v)

\* assertBypassGrant: authorizes the operation and its audit has completed.
GrantOK(ctx, op) ==
    /\ ctx.grant.valid
    /\ ctx.grant.target
    /\ op \in ctx.grant.ops
    /\ ctx.grant.sync

Bypasses(ctx, op) == ctx.grant.given /\ GrantOK(ctx, op)

\* currentScope does not throw: a valid grant, or no bypass and a usable scope.
CurrentScopeOK(ctx, op) ==
    IF ctx.grant.given THEN GrantOK(ctx, op)
    ELSE ~ctx.legacyBypass /\ ScopeOK(ctx.scope)

\* The scope predicate of buildScopeWhere / buildScopeFilters on one row: an
\* absent optional value adds no predicate, an empty array matches nothing.
Matches(ctx, op, row) ==
    row.exists /\ (\/ Bypasses(ctx, op)
                   \/ \A k \in Columns : \/ ctx.scope[k] = Absent
                                         \/ row.scope[k] \in ctx.scope[k][2])

\* applyScopeToEntity: the scope of a new row, from the caller's selection.
Filled(ctx, op, sel) ==
    [k \in Columns |->
        LET v == ctx.scope[k] IN
        IF Bypasses(ctx, op) \/ v = Absent THEN sel[k]
        ELSE IF v[1] = "scalar" \/ (sel[k] = Null /\ Cardinality(v[2]) = 1)
        THEN CHOOSE w \in v[2] : TRUE
        ELSE sel[k]]

\* applyScopeToEntity does not throw, and the insert satisfies NOT NULL.
FillOK(ctx, op, sel) ==
    /\ CurrentScopeOK(ctx, op)
    /\ \A k \in Columns :
          LET w == Filled(ctx, op, sel)[k] IN
          /\ k \in Required => w # Null
          /\ \/ Bypasses(ctx, op) \/ ctx.scope[k] = Absent
             \/ w \in ctx.scope[k][2]

-----------------------------------------------------------------------------
(* Transactions *)

\* What a statement of caller c's transaction sees.
View(c) == [i \in Ids |-> IF i \in DOMAIN tx[c].writes THEN tx[c].writes[i] ELSE table[i]]

\* Rows of I written by another open transaction: a write waits for it.
Locked(c, I) == \E d \in Callers \ {c} : I \cap DOMAIN tx[d].writes # {}

\* Mutant of Matched: the statements name the ids without the scope.
MatchedById(c) == {i \in tx[c].ids : View(c)[i].exists}

\* mutationWhere: the rows of the batch inside the operation's scope.
Matched(c) ==
    {i \in tx[c].ids : Matches(tx[c].ctx, tx[c].op, View(c)[i])}

\* The transaction is over and its runner released.
Released(t) == [k \in DOMAIN t |-> IF k \in {"ctx", "calls"} THEN t[k] ELSE Idle[k]]

\* The error path: an own transaction rolls back, and a caller that supplied
\* one leaves its transaction callback, which rolls back as well.
Failed(t) == Released(t)

Fail(c) == tx' = [tx EXCEPT ![c] = Failed(@)] /\ UNCHANGED <<table, log>>

\* The work callback returned: commit, or hand back to the caller's transaction.
Finished(t) ==
    [t EXCEPT !.pc = IF t.open THEN "idle" ELSE "commit", !.old = <<>>, !.scopes = <<>>,
              !.done = @ \cup {<<t.op, t.ids>>}, !.op = "none", !.ids = {}, !.val = Null]

Called(t, op, ids, val) ==
    [t EXCEPT !.pc = "called", !.op = op, !.ids = ids, !.val = val, !.seen = {},
              !.calls = @ + 1,
              !.audits = IF Bypasses(t.ctx, op) THEN @ \cup {op} ELSE @]

CanCall(c) == tx[c].pc = "idle" /\ tx[c].calls < MaxCalls[c]

\* The application opens a transaction and passes its QueryRunner along.
beginTransaction(c) ==
    /\ CanCall(c) /\ ~tx[c].open
    /\ tx' = [tx EXCEPT ![c].open = TRUE]
    /\ UNCHANGED <<table, log>>

commit(c) ==
    /\ tx[c].pc = "commit" \/ (tx[c].open /\ tx[c].pc = "idle")
    /\ table' = View(c)
    /\ log' = log \o tx[c].hist
    /\ tx' = [tx EXCEPT ![c] = Released(@)]

\* A lost connection, a crash, or the victim of a database deadlock.
abort(c) ==
    /\ tx[c].pc # "idle" \/ tx[c].open
    /\ Fail(c)

-----------------------------------------------------------------------------
(* Reads: paging, pagingDeleted, all, search, detail, findByIds *)

\* addonFilter: the scoped rows a query may return.
Visible(c, withDeleted) ==
    {i \in Ids : /\ Matches(tx[c].ctx, "read", View(c)[i])
                 /\ withDeleted \/ ~View(c)[i].deleted}

\* createBaseQueryBuilder joins relations with relationScope on each of them.
Related(c, I, withDeleted) ==
    {Parent[i] : i \in I} \cap Visible(c, withDeleted)

\* detail: one row by id, in scope.
detail(c, i, withDeleted) == {i} \cap Visible(c, withDeleted)

\* paging and pagingDeleted: one page of the rows the request's filters F select.
paging(c, F, withDeleted, size) ==
    {rows \in SUBSET (F \cap Visible(c, withDeleted)) : Cardinality(rows) <= size}

\* search: by uuid, or filters and keyword and at most 20 rows; never a
\* soft-deleted one.
search(c, F) == paging(c, F, FALSE, 20)

\* all: every row the filters select; findByIds filters on the ids.
all(c, F, withDeleted) == F \cap Visible(c, withDeleted)

findByIds(c, ids, withDeleted) == all(c, ids, withDeleted)

\* What one read of the repository may return.
Answers(c, F, withDeleted) ==
    {detail(c, i, withDeleted) : i \in F} \cup paging(c, F, withDeleted, 1) \cup search(c, F)
        \cup {all(c, F, withDeleted), findByIds(c, F, withDeleted)}

\* Any read, inside the caller's transaction or outside, with its joined rows.
read(c) ==
    \E F \in SUBSET Ids, withDeleted, relations \in BOOLEAN :
        /\ CanCall(c)
        /\ CurrentScopeOK(tx[c].ctx, "read")
        /\ \E rows \in Answers(c, F, withDeleted) :
              LET joined == IF relations THEN Related(c, rows, withDeleted) ELSE {}
              IN  /\ rows # {}
                  /\ tx' = [tx EXCEPT ![c] = [Called(@, "read", {}, Null) EXCEPT !.pc = "idle",
                               !.seen = {View(c)[i] : i \in rows \cup joined}]]
        /\ UNCHANGED <<table, log>>

-----------------------------------------------------------------------------
(* Mutations *)

Rows(row, I) == [i \in I |-> row]

Put(t, f) == [i \in DOMAIN t.writes \cup DOMAIN f |->
                 IF i \in DOMAIN f THEN f[i] ELSE t.writes[i]]

\* The entity a create or an import stores.
NewRow(ctx, scope, val) ==
    [exists |-> TRUE, scope |-> scope, val |-> val, deleted |-> FALSE, modifiedBy |-> ctx.userId]

AskedRow(t, i) == NewRow(t.ctx, t.scopes[i], t.val)

\* create: audit fields, then scope, then save(), which first reads the row with
\* the entity's id, whoever owns it. The id is the client's or a generated one.
create(c) ==
    \E i \in Ids, val \in Vals, sel \in [Columns -> ScopeVals \cup {Null}] :
        /\ CanCall(c)
        /\ FillOK(tx[c].ctx, "create", sel)
        /\ tx' = [tx EXCEPT ![c] =
              [Called(@, "create", {i}, val) EXCEPT !.old = [j \in {i} |-> View(c)[i]],
                  !.scopes = [j \in {i} |-> Filled(tx[c].ctx, "create", sel)], !.pc = "save"]]
        /\ UNCHANGED <<table, log>>

\* What save() makes of row cur when it read row old: it sets the columns in
\* which the entity differs from old. A property that is Null was not given.
Merged(cur, old, new) ==
    [exists |-> TRUE, deleted |-> cur.deleted,
     scope |-> [k \in Columns |-> IF new.scope[k] \in {Null, old.scope[k]} THEN cur.scope[k] ELSE new.scope[k]],
     val |-> IF new.val = old.val THEN cur.val ELSE new.val,
     modifiedBy |-> IF new.modifiedBy \in {Null, old.modifiedBy} THEN cur.modifiedBy ELSE new.modifiedBy]

\* save() found no row with the id: an INSERT, which a row stored since refuses.
saveInserts(c) ==
    \E i \in tx[c].ids :
        /\ tx[c].pc = "save" /\ ~tx[c].old[i].exists
        /\ ~Locked(c, {i})
        /\ IF View(c)[i].exists THEN Fail(c)
           ELSE /\ tx' = [tx EXCEPT ![c].writes = Put(tx[c], Rows(AskedRow(tx[c], i), {i})), ![c].pc = "saved"]
                /\ UNCHANGED <<table, log>>

\* save() found one: an UPDATE by id alone, of no row if it is gone by now, and
\* no statement at all if nothing differs.
saveUpdates(c) ==
    \E i \in tx[c].ids :
        LET old == tx[c].old[i]
            new == AskedRow(tx[c], i)
            differs == Merged(old, old, new) # old
        IN  /\ tx[c].pc = "save" /\ old.exists
            /\ differs => ~Locked(c, {i})
            /\ tx' = [tx EXCEPT ![c].over = @ \cup {i}, ![c].pc = "saved",
                    ![c].writes = IF differs /\ View(c)[i].exists
                                  THEN Put(tx[c], Rows(Merged(View(c)[i], old, new), {i})) ELSE @]
            /\ UNCHANGED <<table, log>>

\* import: one insert per chunk, refused if a row has one of the ids; no history.
import(c) ==
    \E I \in SUBSET Ids, val \in Vals, sel \in [Columns -> ScopeVals \cup {Null}] :
        /\ CanCall(c)
        /\ I # {} /\ Cardinality(I) <= MaxBatch
        /\ FillOK(tx[c].ctx, "import", sel)
        /\ ~Locked(c, I)
        /\ LET t == Called(tx[c], "import", I, val)
               row == NewRow(tx[c].ctx, Filled(tx[c].ctx, "import", sel), val)
           IN  IF \E i \in I : View(c)[i].exists THEN Fail(c)
               ELSE /\ tx' = [tx EXCEPT ![c] = Finished([t EXCEPT !.writes = Put(t, Rows(row, I))])]
                    /\ UNCHANGED <<table, log>>

\* update: a patch that carries a scope column is rejected after the audit hook;
\* val is Null in a patch without content.
updateCall(c) ==
    \E i \in Ids, val \in Vals \cup {Null}, sel \in [Columns -> ScopeVals \cup {Null}] :
        /\ CanCall(c)
        /\ \A k \in Columns : sel[k] = Null
        /\ CurrentScopeOK(tx[c].ctx, "update")
        /\ tx' = [tx EXCEPT ![c] = Called(@, "update", {i}, val)]
        /\ UNCHANGED <<table, log>>

BatchOps == {"delete", "soft-delete", "restore"}

\* delete, softDelete and restore on the repository.
batchCall(c) ==
    \E I \in SUBSET Ids, op \in BatchOps :
        /\ CanCall(c)
        /\ I # {} /\ Cardinality(I) <= MaxBatch
        /\ CurrentScopeOK(tx[c].ctx, op)
        /\ tx' = [tx EXCEPT ![c] = Called(@, op, I, Null)]
        /\ UNCHANGED <<table, log>>

\* BaseService.delete / softDelete / restore: collectDtos reads the batch in a
\* statement of its own, keeps what the DTO allows, and calls the repository.
collectDtos(c) ==
    \E I \in SUBSET Ids, op \in BatchOps :
        /\ CanCall(c) /\ ~tx[c].open
        /\ I # {} /\ Cardinality(I) <= MaxBatch
        /\ CurrentScopeOK(tx[c].ctx, "read") /\ CurrentScopeOK(tx[c].ctx, op)
        /\ findByIds(c, I, TRUE) = I
        /\ LET allowed == {i \in I : table[i].val \in Deletable}
           IN  /\ allowed # {}
               /\ tx' = [tx EXCEPT ![c] = Called(@, op, allowed, Null)]
        /\ UNCHANGED <<table, log>>

\* The first statement: the old rows with history, the count of a batch without.
readOld(c) ==
    /\ tx[c].pc = "called"
    /\ IF tx[c].op # "update" /\ Matched(c) # tx[c].ids
       THEN Fail(c)
       ELSE /\ tx' = [tx EXCEPT ![c].old = [i \in Matched(c) |-> View(c)[i]],
                                ![c].pc = IF LogHistory /\ tx[c].op \in {"update", "delete"}
                                          THEN "scoped" ELSE "write"]
            /\ UNCHANGED <<table, log>>

\* historyResourceScopes: the persisted scope of the rows about to change.
historyResourceScopes(c) ==
    /\ tx[c].pc = "scoped"
    /\ tx' = [tx EXCEPT ![c].scopes = [i \in Matched(c) |-> View(c)[i].scope],
                        ![c].pc = "write"]
    /\ UNCHANGED <<table, log>>

\* What the write statement makes of a row it matches. DefaultAuditStrategy
\* leaves modifiedBy alone when the context has no user.
Written(t, row) ==
    CASE t.op = "update" -> [row EXCEPT !.val = IF t.val = Null THEN @ ELSE t.val,
                                !.modifiedBy = IF t.ctx.userId = Null THEN @ ELSE t.ctx.userId]
      [] t.op = "delete" -> NoRow
      [] OTHER -> [row EXCEPT !.deleted = (t.op = "soft-delete")]

\* An update that sets nothing: no content given and no user to record.
EmptyPatch(t) == t.op = "update" /\ t.val = Null /\ t.ctx.userId = Null

\* update with an empty patch issues no UPDATE and compares no count.
skipWrite(c) ==
    /\ tx[c].pc = "write" /\ EmptyPatch(tx[c])
    /\ tx' = [tx EXCEPT ![c].pc = "saved"]
    /\ UNCHANGED <<table, log>>

\* The write carries ids and scope in one statement; assertAffected.
write(c) ==
    /\ tx[c].pc = "write" /\ ~EmptyPatch(tx[c])
    /\ ~Locked(c, Matched(c))
    /\ IF Matched(c) # tx[c].ids
       THEN Fail(c)
       ELSE /\ tx' = [tx EXCEPT ![c].writes =
                                   Put(tx[c], [i \in Matched(c) |-> Written(tx[c], View(c)[i])]),
                                ![c].pc = "saved"]
            /\ UNCHANGED <<table, log>>

HistoryType(op) ==
    CASE op = "create" -> "CREATE" [] op = "update" -> "UPDATE" [] op = "delete" -> "DELETE"
      [] OTHER -> "none"

\* The persisted scope a history entry is attributed to: of the new row for a
\* create, read before the write otherwise.
ResourceScope(c, i) ==
    IF tx[c].op = "create" THEN View(c)[i].scope ELSE tx[c].scopes[i]

\* resolveHistoryTenant: the tenantCode of the resource scope.
resolveHistoryTenant(scope) == scope["tenantCode"]

\* The images of an entry: a create records its entity, as save() returned it.
FromData(c, i) == IF tx[c].op # "create" /\ i \in DOMAIN tx[c].old THEN tx[c].old[i] ELSE NoRow

ToData(c, i) == IF tx[c].op = "create" THEN AskedRow(tx[c], i) ELSE View(c)[i]

\* The row ActionHistoryService.record persists.
Entry(c, i) ==
    [id |-> i, type |-> HistoryType(tx[c].op), tenantCode |-> resolveHistoryTenant(ResourceScope(c, i)),
     from |-> FromData(c, i), to |-> ToData(c, i), userId |-> tx[c].ctx.userId]

\* Mutant of recordHistory: the recorder is not given the transaction.
recordHistoryOutside(c) ==
    /\ tx[c].pc = "saved"
    /\ tx' = [tx EXCEPT ![c] = Finished(@)]
    /\ IF HistoryType(tx[c].op) = "none" THEN UNCHANGED log
       ELSE \E i \in tx[c].ids : log' = Append(log, Entry(c, i))
    /\ UNCHANGED table

\* What recording needs: update finds its row again, with history or without;
\* a row without a resource scope fails the mutation.
Recordable(c) ==
    /\ tx[c].op = "update" => Matched(c) = tx[c].ids
    /\ LogHistory => CASE tx[c].op = "create" -> \A i \in tx[c].ids : View(c)[i].exists
                       [] tx[c].op \in {"update", "delete"} -> DOMAIN tx[c].scopes = tx[c].ids
                       [] OTHER -> TRUE

\* recordHistory for every row of the batch, in the same transaction.
recordHistory(c) ==
    /\ tx[c].pc = "saved"
    /\ IF ~Recordable(c) THEN Fail(c)
       ELSE /\ UNCHANGED <<table, log>>
            /\ IF ~LogHistory \/ HistoryType(tx[c].op) = "none"
               THEN tx' = [tx EXCEPT ![c] = Finished(@)]
               ELSE \E order \in [1..Cardinality(tx[c].ids) -> tx[c].ids] :
                        /\ \A i \in tx[c].ids : \E n \in DOMAIN order : order[n] = i
                        /\ tx' = [tx EXCEPT ![c] = [Finished(@) EXCEPT !.hist =
                                    tx[c].hist \o [n \in DOMAIN order |-> Entry(c, order[n])]]]

RepositoryNext ==
    \E c \in Callers :
        \/ beginTransaction(c)
        \/ commit(c)
        \/ abort(c)
        \/ create(c)
        \/ saveInserts(c)
        \/ saveUpdates(c)
        \/ import(c)
        \/ updateCall(c)
        \/ batchCall(c)
        \/ collectDtos(c)
        \/ readOld(c)
        \/ historyResourceScopes(c)
        \/ write(c)
        \/ skipWrite(c)
        \/ recordHistory(c)
        \/ read(c)

RepositorySpec == RepositoryInit /\ [][RepositoryNext]_repositoryVars

-----------------------------------------------------------------------------
(* Properties *)

InScope(ctx, row) ==
    \A k \in Columns : \/ ctx.scope[k] = Absent /\ k \notin Required
                       \/ row.scope[k] \in ctx.scope[k][2] \cap ScopeVals

Granted(t, op) == op \in t.audits /\ t.ctx.grant.given /\ op \in t.ctx.grant.ops

\* No read of BaseRepository returns a row, joined ones included, outside the
\* scope of its request, unless an audited grant covers reading.
ReadsInScope ==
    \A c \in Callers : \A row \in tx[c].seen :
        InScope(tx[c].ctx, row) \/ Granted(tx[c], "read")

Commits(c) ==
    /\ tx[c].pc \in {"commit", "idle"}
    /\ tx'[c] = Released(tx[c]) /\ table' = View(c) /\ log' = log \o tx[c].hist

\* A committed change touches only rows that were, and stay, in the scope of the
\* request that made it, or rows of an operation its audited grant covers - or
\* the row whose id a create was given.
ChangesInScope ==
    \A i \in Ids : table'[i] # table[i] =>
     \E c \in Callers :
         /\ Commits(c)
         /\ \/ i \in tx[c].over
            \/ \E d \in tx[c].done : i \in d[2] /\ Granted(tx[c], d[1])
            \/ /\ table[i].exists => InScope(tx[c].ctx, table[i])
               /\ table'[i].exists => InScope(tx[c].ctx, table'[i])

\* Only create and import move a row to another scope, a row they were given the
\* id of: no update, delete or restore does, whatever runs between its statements.
ScopeImmutable ==
    \A i \in Ids : table[i].exists /\ table'[i].exists /\ table'[i].scope # table[i].scope =>
     \E c \in Callers :
         Commits(c) /\ \E d \in tx[c].done : d[1] \in {"create", "import"} /\ i \in d[2]

BatchEffect(op, row) ==
    CASE op = "delete" -> ~row.exists
      [] op = "soft-delete" -> row.exists /\ row.deleted
      [] OTHER -> row.exists /\ ~row.deleted

\* "Partial batches are rejected" (README): a transaction that commits one batch
\* has changed all of it, whatever other callers deleted since it was counted.
BatchAtomic ==
    \A c \in Callers : \A d \in tx[c].done :
     tx[c].done = {d} /\ d[1] \in BatchOps /\ Commits(c) => \A i \in d[2] : BatchEffect(d[1], table'[i])

\* What a step may do to the committed rows.
ScopeStep == ChangesInScope /\ ScopeImmutable /\ BatchAtomic

\* Reads and committed changes stay in scope or are granted, except where a
\* create names an existing row; only creating moves a row; batches are whole.
ScopeKept == []ReadsInScope /\ [][ScopeStep]_repositoryVars

\* "BaseRepository fills scope from trusted context and rejects attempts to move
\* an existing row to another scope" (site/examples/tenant-crud.md).
RowsStay ==
    [][\A i \in Ids : table[i].exists /\ table'[i].exists => table'[i].scope = table[i].scope]_repositoryVars

Content(row) == IF row.exists THEN [row EXCEPT !.deleted = FALSE] ELSE row

\* Every row whose content a commit of c changes has an entry in the same commit
\* whose toData is what was committed; imported rows have none, and for a create
\* that found a row toData is the entity it was given.
ChangesRecorded(c) ==
    \A i \in Ids : Content(table'[i]) # Content(table[i]) =>
        \/ \E d \in tx[c].done : d[1] = "import" /\ i \in d[2]
        \/ \E n \in DOMAIN tx[c].hist :
              LET e == tx[c].hist[n]
              IN  e.id = i /\ (i \in tx[c].over \/ Content(e.to) = Content(table'[i]))

ImageInScope(t, op, row) == row.exists => InScope(t.ctx, row) \/ Granted(t, op)

TenantInScope(t, op, tenant) ==
    \/ Granted(t, op)
    \/ t.ctx.scope["tenantCode"] = Absent
    \/ tenant \in t.ctx.scope["tenantCode"][2]

\* Every entry of a commit of c is of an operation that succeeded in it; both
\* images are rows of the request's scope or of its grant for that operation,
\* and so is the tenant it is filed under, unless a create found a row.
EntriesFounded(c) ==
    \A n \in DOMAIN tx[c].hist : \E d \in tx[c].done :
        LET e == tx[c].hist[n]
        IN  /\ e.id \in d[2] /\ HistoryType(d[1]) = e.type
            /\ ImageInScope(tx[c], d[1], e.from) /\ ImageInScope(tx[c], d[1], e.to)
            /\ e.id \in tx[c].over \/ TenantInScope(tx[c], d[1], e.tenantCode)

HistoryStep ==
    table' # table \/ log' # log =>
        \E c \in Callers : Commits(c) /\ (LogHistory => ChangesRecorded(c)) /\ EntriesFounded(c)

\* Rows and their history change together, whatever other transactions do
\* between a mutation's statements: no change without its entry, no entry of a
\* mutation that did not commit, and no image or tenant of another scope.
HistoryKept == [][HistoryStep]_repositoryVars
=============================================================================
