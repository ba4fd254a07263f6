----------------------- MODULE ScopedRepositoryProofs -----------------------
(***************************************************************************)
(* Proofs about ScopedRepository, for any callers, rows, scope columns,    *)
(* contexts and grants, client-chosen ids, and any interleaving of their   *)
(* statements: reads stay in scope, committed changes stay in scope or are *)
(* a create's onto a row it named, batches are whole, and rows and their   *)
(* history change together.                                                *)
(***************************************************************************)
EXTENDS ScopedRepository, FiniteSetTheorems, SequenceTheorems, TLAPS

-----------------------------------------------------------------------------
(* The inductive invariant.                                                *)

TxFields == DOMAIN Idle \cup {"ctx", "calls"}

Working == {"called", "scoped", "write", "save", "saved"}

Pcs == Working \cup {"idle", "commit"}

IsSeq(s) == \E S : s \in Seq(S)

RowOrNone(r) == r = NoRow \/ IsRow(r)

\* What a statement of transaction t sees of row i.
Seen(t, i) == IF i \in DOMAIN t.writes THEN t.writes[i] ELSE table[i]

\* Transaction t has its shape; between calls it has read nothing.
TxShape(t) ==
    /\ DOMAIN t = TxFields
    /\ t.pc \in Pcs
    /\ t.ids \subseteq Ids
    /\ DOMAIN t.writes \subseteq Ids
    /\ \A i \in DOMAIN t.writes : RowOrNone(t.writes[i])
    /\ IsSeq(t.hist)
    /\ t.pc \notin Working => t.old = <<>> /\ t.scopes = <<>>

\* A mutation under way was allowed in its scope and its grant was audited; once
\* the rows of a batch are written, all of them are.
Allowed(t) ==
    /\ t.pc \in Working =>
          /\ t.op \in {"create", "update"} \cup BatchOps
          /\ t.pc = "save" => t.op = "create"
          /\ t.op = "create" => t.pc \in {"save", "saved"} /\ \E i \in Ids : t.ids = {i}
          /\ CurrentScopeOK(t.ctx, t.op)
          /\ Bypasses(t.ctx, t.op) => t.op \in t.audits
    /\ t.pc = "saved" /\ t.op \in BatchOps =>
          \A i \in t.ids : i \in DOMAIN t.writes /\ BatchEffect(t.op, t.writes[i])

\* A transaction whose only call was a batch has written all of it.
WholeBatch(t) ==
    t.pc # "saved" =>
        \A d \in t.done : t.done = {d} /\ d[1] \in BatchOps =>
            \A i \in d[2] : i \in DOMAIN t.writes /\ BatchEffect(d[1], t.writes[i])

\* Operations that have returned: granted ones, creating ones, imports.
DoneGrant(t, i) == \E d \in t.done : i \in d[2] /\ Granted(t, d[1])

DoneNew(t, i) == \E d \in t.done : d[1] \in {"create", "import"} /\ i \in d[2]

Imported(t, i) == \E d \in t.done : d[1] = "import" /\ i \in d[2]

\* What is written to row i is a create's onto a row it named, is covered by an
\* audited grant, or stays in scope.
Covered(t, i) ==
    \/ i \in t.over
    \/ DoneGrant(t, i)
    \/ t.pc = "saved" /\ i \in t.ids /\ Granted(t, t.op)
    \/ /\ table[i].exists => InScope(t.ctx, table[i])
       /\ t.writes[i].exists => InScope(t.ctx, t.writes[i])

Creates(t, i) == DoneNew(t, i) \/ (t.pc = "saved" /\ t.op = "create" /\ i \in t.ids)

WritesInScope(t) ==
    \A i \in DOMAIN t.writes :
        /\ Covered(t, i)
        /\ table[i].exists /\ t.writes[i].exists => Creates(t, i) \/ t.writes[i].scope = table[i].scope

SeenInScope(t) == \A row \in t.seen : InScope(t.ctx, row) \/ Granted(t, "read")

\* What a mutation is going to record: the entity of a create, which is what it
\* stored unless it found a row; otherwise rows and scopes that it matched.
Images(t) ==
    t.pc \in Working =>
        IF t.op = "create"
        THEN \A i \in t.ids :
                /\ ImageInScope(t, "create", AskedRow(t, i))
                /\ t.pc = "saved" /\ i \notin t.over => i \in DOMAIN t.writes /\ t.writes[i] = AskedRow(t, i)
        ELSE /\ \A i \in DOMAIN t.old : ImageInScope(t, t.op, t.old[i])
             /\ \A i \in DOMAIN t.scopes : TenantInScope(t, t.op, t.scopes[i]["tenantCode"])

\* The entry belongs to an operation of t that has returned.
FoundedEntry(t, e) ==
    \E d \in t.done :
        /\ e.id \in d[2] /\ HistoryType(d[1]) = e.type
        /\ ImageInScope(t, d[1], e.from) /\ ImageInScope(t, d[1], e.to)
        /\ e.id \in t.over \/ TenantInScope(t, d[1], e.tenantCode)

Founded(t) == \A n \in DOMAIN t.hist : FoundedEntry(t, t.hist[n])

\* The write of row i is to be recorded.
Pending(t, i) == t.pc = "saved" /\ i \in t.ids /\ HistoryType(t.op) # "none"

HasEntry(t, i) ==
    \E n \in DOMAIN t.hist :
        t.hist[n].id = i /\ (i \in t.over \/ Content(t.hist[n].to) = Content(t.writes[i]))

\* What t wrote has its entry, unless it was imported or its content is the same.
Recorded(t) ==
    LogHistory => \A i \in DOMAIN t.writes :
        Imported(t, i) \/ Pending(t, i) \/ HasEntry(t, i) \/ Content(t.writes[i]) = Content(table[i])

\* One transaction.
TxInv(t) ==
    /\ TxShape(t) /\ Allowed(t) /\ WholeBatch(t) /\ WritesInScope(t) /\ SeenInScope(t)
    /\ Images(t) /\ Founded(t) /\ Recorded(t)

TableShape == DOMAIN table = Ids /\ \A i \in Ids : RowOrNone(table[i])

\* Two transactions wrote different rows.
Apart(t, u) == DOMAIN t.writes \cap DOMAIN u.writes = {}

Inv ==
    /\ TableShape
    /\ DOMAIN tx = Callers
    /\ \A c \in Callers : TxInv(tx[c])
    /\ \A c, d \in Callers : c # d => Apart(tx[c], tx[d])

-----------------------------------------------------------------------------
(* Rows and records.                                                       *)

\* A record with the fields of a row is one.
LEMMA RowFields ==
    ASSUME NEW scope, NEW val, NEW user, NEW b,
           NEW w \in [exists : {TRUE}, scope : {scope}, val : {val}, deleted : {b}, modifiedBy : {user}]
    PROVE  IsRow(w)
<1>1. w.val = val /\ w.scope = scope /\ w.deleted = b /\ w.modifiedBy = user /\ w.exists = TRUE
    OBVIOUS
<1> QED
    BY <1>1 DEF IsRow

\* Deletion is not part of the content of a row.
LEMMA SameContent ==
    ASSUME NEW r, IsRow(r), NEW w, IsRow(w), w.scope = r.scope, w.val = r.val, w.modifiedBy = r.modifiedBy
    PROVE  Content(w) = Content(r)
<1>1. r \in [exists : {TRUE}, scope : {r.scope}, val : {r.val}, deleted : {r.deleted}, modifiedBy : {r.modifiedBy}]
    BY DEF IsRow
<1>2. w \in [exists : {TRUE}, scope : {r.scope}, val : {r.val}, deleted : {w.deleted}, modifiedBy : {r.modifiedBy}]
    BY DEF IsRow
<1>3. [w EXCEPT !.deleted = FALSE] = [r EXCEPT !.deleted = FALSE]
    BY <1>1, <1>2
<1>4. w.exists = TRUE /\ r.exists = TRUE
    BY <1>1, <1>2
<1> QED
    BY <1>3, <1>4 DEF Content

\* There is a row, or there is none.
LEMMA RowKinds ==
    ASSUME NEW r, RowOrNone(r)
    PROVE  /\ r.exists \in BOOLEAN
           /\ r.exists => IsRow(r)
           /\ ~r.exists => r = NoRow
<1>1. NoRow.exists = FALSE
    BY DEF NoRow
<1>2. IsRow(r) => r.exists = TRUE
    BY DEF IsRow
<1> QED
    BY <1>1, <1>2 DEF RowOrNone

\* The fields of a transaction.
LEMMA FieldsAre ==
    TxFields = {"pc", "open", "op", "ids", "val", "old", "scopes", "writes", "hist", "over", "audits", "done", "seen",
                "ctx", "calls"}
BY DEF TxFields, Idle

\* The record of a call (Called).
LEMMA CalledIs ==
    ASSUME NEW s, DOMAIN s = TxFields, NEW op, NEW ids, NEW val, NEW t, t = Called(s, op, ids, val)
    PROVE  /\ DOMAIN t = TxFields
           /\ t.pc = "called" /\ t.op = op /\ t.ids = ids /\ t.val = val /\ t.seen = {}
           /\ (Bypasses(s.ctx, op) => op \in t.audits) /\ s.audits \subseteq t.audits
           /\ t.open = s.open /\ t.old = s.old /\ t.scopes = s.scopes /\ t.writes = s.writes /\ t.hist = s.hist
           /\ t.over = s.over /\ t.done = s.done /\ t.ctx = s.ctx
BY FieldsAre DEF Called

\* The record of a call that returned (Finished).
LEMMA FinishedIs ==
    ASSUME NEW s, DOMAIN s = TxFields, NEW t, t = Finished(s)
    PROVE  /\ DOMAIN t = TxFields
           /\ t.pc \in {"idle", "commit"} /\ t.ids = {} /\ t.old = <<>> /\ t.scopes = <<>>
           /\ t.done = s.done \cup {<<s.op, s.ids>>}
           /\ t.audits = s.audits /\ t.writes = s.writes /\ t.hist = s.hist /\ t.seen = s.seen /\ t.ctx = s.ctx
           /\ t.over = s.over
BY FieldsAre DEF Finished

\* The record of a transaction that is over (Released).
LEMMA ReleasedIs ==
    ASSUME NEW s, DOMAIN s = TxFields, NEW t, t = Released(s)
    PROVE  /\ DOMAIN t = TxFields
           /\ t.pc = "idle" /\ t.ids = {} /\ t.old = <<>> /\ t.scopes = <<>> /\ t.writes = <<>> /\ t.hist = <<>>
           /\ t.done = {} /\ t.seen = {}
BY FieldsAre DEF Released, Idle

\* The empty history.
LEMMA EmptyIs ==
    DOMAIN <<>> = {} /\ IsSeq(<<>>)
<1>1. <<>> \in Seq({})
    OBVIOUS
<1> QED
    BY <1>1 DEF IsSeq

\* A transaction without writes, calls and reads is in order.
LEMMA FreshTx ==
    ASSUME NEW t, DOMAIN t = TxFields, t.pc = "idle", t.ids = {}, t.old = <<>>, t.scopes = <<>>,
           t.writes = <<>>, t.hist = <<>>, t.done = {}, t.seen = {}
    PROVE  TxInv(t) /\ TxInv(t)'
<1>1. TxShape(t) /\ TxShape(t)'
    BY EmptyIs DEF TxShape, Pcs
<1>2. Allowed(t) /\ SeenInScope(t) /\ Images(t) /\ Allowed(t)' /\ SeenInScope(t)' /\ Images(t)'
    BY DEF Allowed, SeenInScope, Images, Working
<1>3. WholeBatch(t) /\ WritesInScope(t) /\ WholeBatch(t)' /\ WritesInScope(t)'
    BY EmptyIs DEF WholeBatch, WritesInScope
<1>4. Founded(t) /\ Recorded(t) /\ Founded(t)' /\ Recorded(t)'
    BY EmptyIs DEF Founded, Recorded
<1> QED
    BY <1>1, <1>2, <1>3, <1>4 DEF TxInv

\* A row that the operation's predicate matches is in scope, unless the operation
\* bypasses the scope (buildScopeWhere).
LEMMA MatchScope ==
    ASSUME NEW ctx, NEW op, NEW row, CurrentScopeOK(ctx, op), Matches(ctx, op, row), ~Bypasses(ctx, op)
    PROVE  InScope(ctx, row)
<1>1. ScopeOK(ctx.scope)
    BY DEF CurrentScopeOK, Bypasses
<1>2. \A k \in Columns : ctx.scope[k] = Absent \/ row.scope[k] \in ctx.scope[k][2]
    BY DEF Matches
<1>3. ASSUME NEW k \in Columns
      PROVE  \/ ctx.scope[k] = Absent /\ k \notin Required
             \/ row.scope[k] \in ctx.scope[k][2] \cap ScopeVals
    BY <1>1, <1>2 DEF ScopeOK, isScalar
<1> QED
    BY <1>3 DEF InScope

\* So is the scope a new row is given (applyScopeToEntity).
LEMMA FillScope ==
    ASSUME NEW ctx, NEW op, NEW sel, FillOK(ctx, op, sel), ~Bypasses(ctx, op), NEW row, row.scope = Filled(ctx, op, sel)
    PROVE  InScope(ctx, row)
<1>1. ScopeOK(ctx.scope)
    BY DEF FillOK, CurrentScopeOK, Bypasses
<1>2. \A k \in Columns : ctx.scope[k] = Absent \/ row.scope[k] \in ctx.scope[k][2]
    BY DEF FillOK
<1>3. ASSUME NEW k \in Columns
      PROVE  \/ ctx.scope[k] = Absent /\ k \notin Required
             \/ row.scope[k] \in ctx.scope[k][2] \cap ScopeVals
    BY <1>1, <1>2 DEF ScopeOK, isScalar
<1> QED
    BY <1>3 DEF InScope

\* An operation that bypasses the scope and was audited is granted.
LEMMA GrantedBypass ==
    ASSUME NEW t, NEW op, Bypasses(t.ctx, op), op \in t.audits
    PROVE  Granted(t, op)
BY DEF Bypasses, GrantOK, Granted

\* So what an operation's predicate matches may be an image of its history.
LEMMA MatchImage ==
    ASSUME RepositoryConstants, NEW t, CurrentScopeOK(t.ctx, t.op), Bypasses(t.ctx, t.op) => t.op \in t.audits,
           NEW row, Matches(t.ctx, t.op, row)
    PROVE  /\ InScope(t.ctx, row) \/ Granted(t, t.op)
           /\ ImageInScope(t, t.op, row)
           /\ TenantInScope(t, t.op, row.scope["tenantCode"])
<1>1. InScope(t.ctx, row) \/ Granted(t, t.op)
    BY MatchScope, GrantedBypass
<1>2. InScope(t.ctx, row) => TenantInScope(t, t.op, row.scope["tenantCode"])
    BY DEF InScope, TenantInScope, RepositoryConstants
<1> QED
    BY <1>1, <1>2 DEF ImageInScope, TenantInScope

\* Grants and images do not depend on the progress of the transaction.
LEMMA GrowTx ==
    ASSUME NEW s, NEW t, t.ctx = s.ctx, s.audits \subseteq t.audits, s.done \subseteq t.done, s.over \subseteq t.over
    PROVE  /\ \A op : Granted(s, op) => Granted(t, op)
           /\ \A op, row : ImageInScope(s, op, row) => ImageInScope(t, op, row)
           /\ \A op, x : TenantInScope(s, op, x) => TenantInScope(t, op, x)
           /\ \A e : FoundedEntry(s, e) => FoundedEntry(t, e)
           /\ \A i : DoneGrant(s, i) => DoneGrant(t, i)
           /\ \A i : DoneNew(s, i) => DoneNew(t, i)
           /\ \A i : Imported(s, i) => Imported(t, i)
<1>1. \A op : Granted(s, op) => Granted(t, op)
    BY DEF Granted
<1>2. \A op, row : ImageInScope(s, op, row) => ImageInScope(t, op, row)
    BY <1>1 DEF ImageInScope
<1>3. \A op, x : TenantInScope(s, op, x) => TenantInScope(t, op, x)
    BY <1>1 DEF TenantInScope
<1>4. \A e : FoundedEntry(s, e) => FoundedEntry(t, e)
    BY <1>2, <1>3 DEF FoundedEntry
<1>5. \A i : DoneGrant(s, i) => DoneGrant(t, i)
    BY <1>1 DEF DoneGrant
<1>6. \A i : (DoneNew(s, i) => DoneNew(t, i)) /\ (Imported(s, i) => Imported(t, i))
    BY DEF DoneNew, Imported
<1> QED
    BY <1>1, <1>2, <1>3, <1>4, <1>5, <1>6

-----------------------------------------------------------------------------
(* Steps of one transaction that commits nothing.                          *)

\* Replacing one transaction by another in order that stays apart from the rest.
LEMMA LocalStep ==
    ASSUME Inv, NEW c \in Callers, NEW t, UNCHANGED <<table, log>>,
           DOMAIN tx' = Callers, tx'[c] = t, \A d \in Callers \ {c} : tx'[d] = tx[d],
           TxInv(t),
           \A d \in Callers \ {c} : Apart(t, tx[d])
    PROVE  Inv'
<1>1. /\ TableShape /\ DOMAIN tx = Callers
      /\ \A d \in Callers : TxInv(tx[d])
      /\ \A b, d \in Callers : b # d => Apart(tx[b], tx[d])
    BY DEF Inv
<1>2. DOMAIN tx' = Callers /\ tx'[c] = t /\ \A d \in Callers \ {c} : tx'[d] = tx[d]
    OBVIOUS
<1>3. TableShape'
    BY <1>1 DEF TableShape
<1>4. \A u : TxInv(u) => TxInv(u)'
    BY DEF TxInv, TxShape, Allowed, WholeBatch, WritesInScope, Covered, SeenInScope, Images, Founded, Recorded, HasEntry
<1>5. \A d \in Callers : TxInv(tx'[d])
    BY <1>1, <1>2
<1>6. \A d \in Callers : TxInv(tx[d])'
    BY <1>4, <1>5 DEF TxInv
<1>7. \A b, d \in Callers : b # d => Apart(tx'[b], tx'[d])
    BY <1>1, <1>2 DEF Apart
<1>8. \A b, d \in Callers : b # d => Apart(tx[b], tx[d])'
    BY <1>7 DEF Apart
<1> QED
    BY <1>2, <1>3, <1>6, <1>8 DEF Inv

\* A transaction that writes nothing in this step.
LEMMA QuietTx ==
    ASSUME NEW s, TxInv(s), s.pc # "saved",
           NEW t, DOMAIN t = TxFields, t.pc \in Pcs, t.ids \subseteq Ids, t.pc \notin Working => t.old = <<>> /\ t.scopes = <<>>,
           t.writes = s.writes, t.hist = s.hist, t.done = s.done, t.ctx = s.ctx, s.audits \subseteq t.audits,
           s.over \subseteq t.over, Allowed(t), SeenInScope(t), Images(t)
    PROVE  TxInv(t)
<1>1. TxShape(s) /\ WholeBatch(s) /\ WritesInScope(s) /\ Founded(s) /\ Recorded(s)
    BY DEF TxInv
<1>2. TxShape(t)
    BY <1>1 DEF TxShape
<1>3. WholeBatch(t)
    BY <1>1 DEF WholeBatch
<1>4. \A i : Covered(s, i) => Covered(t, i)
    BY GrowTx DEF Covered
<1>5. \A i : Creates(s, i) => Creates(t, i)
    BY GrowTx DEF Creates
<1>6. WritesInScope(t)
    BY <1>1, <1>4, <1>5 DEF WritesInScope
<1>7. Founded(t)
    BY <1>1, GrowTx DEF Founded
<1>8. Recorded(t)
    <2>1. \A i : ~Pending(s, i)
        BY DEF Pending
    <2>2. \A i : HasEntry(s, i) => HasEntry(t, i)
        BY DEF HasEntry
    <2>3. \A i : Imported(s, i) => Imported(t, i)
        BY DEF Imported
    <2> QED
        BY <1>1, <2>1, <2>2, <2>3 DEF Recorded
<1> QED
    BY <1>2, <1>3, <1>6, <1>7, <1>8 DEF TxInv

\* The transaction of a caller, and what it sees.
LEMMA TxOf ==
    ASSUME Inv, NEW c \in Callers, NEW s, s = tx[c]
    PROVE  /\ TxInv(s) /\ DOMAIN s = TxFields /\ DOMAIN tx = Callers
           /\ \A d \in Callers \ {c} : Apart(s, tx[d])
           /\ \A i \in Ids : View(c)[i] = Seen(s, i) /\ RowOrNone(Seen(s, i))
<1>1. TxInv(s) /\ TxShape(s) /\ TableShape /\ DOMAIN tx = Callers
    BY DEF Inv, TxInv
<1>2. \A i \in Ids : View(c)[i] = Seen(s, i)
    BY DEF View, Seen
<1>3. \A i \in Ids : RowOrNone(Seen(s, i))
    BY <1>1 DEF Seen, TxShape, TableShape
<1>4. \A d \in Callers \ {c} : Apart(s, tx[d])
    BY DEF Inv
<1> QED
    BY <1>1, <1>2, <1>3, <1>4 DEF TxShape

\* A quiet step of the transaction of a caller.
LEMMA QuietStep ==
    ASSUME Inv, NEW c \in Callers, UNCHANGED <<table, log>>, NEW s, s = tx[c], s.pc # "saved",
           NEW t, DOMAIN tx' = Callers, tx'[c] = t, \A d \in Callers \ {c} : tx'[d] = tx[d],
           DOMAIN t = TxFields, t.pc \in Pcs, t.ids \subseteq Ids, t.pc \notin Working => t.old = <<>> /\ t.scopes = <<>>,
           t.writes = s.writes, t.hist = s.hist, t.done = s.done, t.ctx = s.ctx, s.audits \subseteq t.audits,
           s.over \subseteq t.over, Allowed(t), SeenInScope(t), Images(t)
    PROVE  Inv'
<1>1. TxInv(s) /\ \A d \in Callers \ {c} : Apart(s, tx[d])
    BY TxOf
<1>2. TxInv(t)
    BY <1>1, QuietTx
<1>3. \A d \in Callers \ {c} : Apart(t, tx[d])
    BY <1>1 DEF Apart
<1> QED
    BY <1>2, <1>3, LocalStep

\* The transaction is opened.
LEMMA BeginStep ==
    ASSUME Inv, NEW c \in Callers, beginTransaction(c)
    PROVE  Inv'
<1>1. PICK s : s = tx[c]
    OBVIOUS
<1>2. TxInv(s) /\ TxShape(s) /\ SeenInScope(s) /\ DOMAIN s = TxFields /\ DOMAIN tx = Callers
    BY <1>1, TxOf DEF TxInv
<1>3. PICK t : t = [s EXCEPT !.open = TRUE]
    OBVIOUS
<1>4. tx' = [tx EXCEPT ![c].open = TRUE] /\ UNCHANGED <<table, log>> /\ s.pc = "idle"
    BY <1>1 DEF beginTransaction, CanCall
<1>5. DOMAIN tx' = Callers /\ tx'[c] = t /\ \A d \in Callers \ {c} : tx'[d] = tx[d]
    BY <1>1, <1>2, <1>3, <1>4
<1>6. /\ DOMAIN t = TxFields /\ t.pc = s.pc /\ t.ids = s.ids /\ t.writes = s.writes /\ t.hist = s.hist /\ t.done = s.done
      /\ t.ctx = s.ctx /\ t.audits = s.audits /\ t.seen = s.seen /\ t.old = s.old /\ t.scopes = s.scopes /\ t.over = s.over
    BY <1>2, <1>3, FieldsAre
<1>7. /\ Allowed(t) /\ Images(t) /\ t.pc \in Pcs /\ s.pc # "saved"
      /\ s.audits \subseteq t.audits /\ s.over \subseteq t.over
    BY <1>4, <1>6 DEF Allowed, Images, Working, Pcs
<1>8. SeenInScope(t)
    BY <1>2, <1>6 DEF SeenInScope, Granted
<1>9. t.ids \subseteq Ids /\ (t.pc \notin Working => t.old = <<>> /\ t.scopes = <<>>)
    BY <1>2, <1>6 DEF TxShape
<1> QED
    BY <1>1, <1>4, <1>5, <1>6, <1>7, <1>8, <1>9, QuietStep

\* A mutation of existing rows is called: update, delete, softDelete and restore,
\* of the repository and of the service.
LEMMA CallStep ==
    ASSUME Inv, NEW c \in Callers, updateCall(c) \/ batchCall(c) \/ collectDtos(c)
    PROVE  Inv'
<1>1. PICK s : s = tx[c]
    OBVIOUS
<1>2. TxInv(s) /\ TxShape(s) /\ DOMAIN s = TxFields /\ DOMAIN tx = Callers
    BY <1>1, TxOf DEF TxInv
<1>3. PICK op \in {"update"} \cup BatchOps, ids \in SUBSET Ids, val \in Vals \cup {Null} :
        /\ tx' = [tx EXCEPT ![c] = Called(@, op, ids, val)]
        /\ CurrentScopeOK(s.ctx, op)
        /\ UNCHANGED <<table, log>> /\ s.pc = "idle"
    <2>1. CASE updateCall(c)
        BY <1>1, <2>1 DEF updateCall, CanCall
    <2>2. CASE batchCall(c)
        BY <1>1, <2>2 DEF batchCall, CanCall
    <2>3. CASE collectDtos(c)
        BY <1>1, <2>3 DEF collectDtos, CanCall
    <2> QED
        BY <2>1, <2>2, <2>3
<1>4. PICK t : t = Called(s, op, ids, val)
    OBVIOUS
<1>5. DOMAIN tx' = Callers /\ tx'[c] = t /\ \A d \in Callers \ {c} : tx'[d] = tx[d]
    BY <1>1, <1>2, <1>3, <1>4
<1>6. /\ DOMAIN t = TxFields
      /\ t.pc = "called" /\ t.op = op /\ t.ids = ids /\ t.seen = {}
      /\ (Bypasses(s.ctx, op) => op \in t.audits) /\ s.audits \subseteq t.audits
      /\ t.old = s.old /\ t.scopes = s.scopes /\ t.writes = s.writes /\ t.hist = s.hist
      /\ t.over = s.over /\ t.done = s.done /\ t.ctx = s.ctx
    BY <1>2, <1>4, CalledIs
<1>7. t.old = <<>> /\ t.scopes = <<>> /\ op # "create"
    BY <1>2, <1>3, <1>6 DEF TxShape, Working, BatchOps
<1>8. Allowed(t) /\ SeenInScope(t)
    BY <1>3, <1>6, <1>7 DEF Allowed, SeenInScope, Working
<1>9. Images(t)
    BY <1>6, <1>7, EmptyIs DEF Images
<1>10. t.pc \in Pcs /\ t.pc \in Working /\ s.pc # "saved" /\ s.over \subseteq t.over
    BY <1>3, <1>6 DEF Pcs, Working
<1> QED
    BY <1>1, <1>3, <1>5, <1>6, <1>8, <1>9, <1>10, QuietStep

\* create is called and save() reads the row with the entity's id.
LEMMA CreateStep ==
    ASSUME Inv, NEW c \in Callers, create(c)
    PROVE  Inv'
<1>1. PICK s : s = tx[c]
    OBVIOUS
<1>2. TxInv(s) /\ TxShape(s) /\ DOMAIN s = TxFields /\ DOMAIN tx = Callers
    BY <1>1, TxOf DEF TxInv
<1>3. PICK i \in Ids, val \in Vals, sel \in [Columns -> ScopeVals \cup {Null}] :
        /\ CanCall(c)
        /\ FillOK(tx[c].ctx, "create", sel)
        /\ tx' = [tx EXCEPT ![c] =
              [Called(@, "create", {i}, val) EXCEPT !.old = [j \in {i} |-> View(c)[i]],
                  !.scopes = [j \in {i} |-> Filled(tx[c].ctx, "create", sel)], !.pc = "save"]]
        /\ UNCHANGED <<table, log>>
    BY Zenon DEF create
<1>4. PICK old, asked, r : /\ old = [j \in {i} |-> View(c)[i]] /\ asked = Filled(s.ctx, "create", sel)
                           /\ r = Called(s, "create", {i}, val)
    OBVIOUS
<1>5. PICK t : t = [r EXCEPT !.old = old, !.scopes = [j \in {i} |-> asked], !.pc = "save"]
    OBVIOUS
<1>6. DOMAIN tx' = Callers /\ tx'[c] = t /\ \A d \in Callers \ {c} : tx'[d] = tx[d]
    BY <1>3, <1>1, <1>2, <1>4, <1>5
<1>7. s.pc = "idle" /\ FillOK(s.ctx, "create", sel) /\ UNCHANGED <<table, log>>
    BY <1>3, <1>1 DEF CanCall
<1>8. /\ DOMAIN r = TxFields
      /\ r.op = "create" /\ r.ids = {i} /\ r.seen = {}
      /\ (Bypasses(s.ctx, "create") => "create" \in r.audits) /\ s.audits \subseteq r.audits
      /\ r.writes = s.writes /\ r.hist = s.hist /\ r.over = s.over /\ r.done = s.done /\ r.ctx = s.ctx
    BY <1>2, <1>4, CalledIs
<1>9. /\ DOMAIN t = TxFields /\ t.pc = "save" /\ t.op = "create" /\ t.ids = {i} /\ t.seen = {} /\ t.audits = r.audits
      /\ t.scopes = [j \in {i} |-> asked] /\ t.writes = s.writes /\ t.hist = s.hist
      /\ t.over = s.over /\ t.done = s.done /\ t.ctx = s.ctx
    BY <1>5, <1>8, FieldsAre
<1>10. CurrentScopeOK(t.ctx, "create") /\ (Bypasses(t.ctx, "create") => "create" \in t.audits)
    BY <1>7, <1>8, <1>9 DEF FillOK
<1>11. Allowed(t) /\ SeenInScope(t)
    BY <1>9, <1>10 DEF Allowed, SeenInScope
<1>12. Images(t)
    <2>1. PICK row : row = AskedRow(t, i)
        OBVIOUS
    <2>2. row.scope = asked
        BY <1>9, <2>1 DEF AskedRow, NewRow
    <2>3. InScope(t.ctx, row) \/ Granted(t, "create")
        <3>1. CASE Bypasses(t.ctx, "create")
            BY <1>10, <3>1, GrantedBypass
        <3>2. CASE ~Bypasses(t.ctx, "create")
            BY <1>4, <1>7, <1>9, <2>2, <3>2, FillScope
        <3> QED
            BY <3>1, <3>2
    <2>4. ImageInScope(t, "create", AskedRow(t, i))
        BY <2>1, <2>3 DEF ImageInScope
    <2> QED
        BY <1>9, <2>4 DEF Images
<1>13. t.pc \in Pcs /\ t.pc \in Working /\ s.pc # "saved" /\ s.over \subseteq t.over /\ s.audits \subseteq t.audits
       /\ t.ids \subseteq Ids
    BY <1>7, <1>8, <1>9 DEF Pcs, Working
<1> QED
    BY <1>1, <1>6, <1>7, <1>9, <1>11, <1>12, <1>13, QuietStep

\* A read returns rows that its scope predicate matches, joined rows included.
LEMMA ReadStep ==
    ASSUME Inv, NEW c \in Callers, read(c)
    PROVE  Inv'
<1>1. PICK s : s = tx[c]
    OBVIOUS
<1>2. TxInv(s) /\ TxShape(s) /\ DOMAIN s = TxFields /\ DOMAIN tx = Callers
    BY <1>1, TxOf DEF TxInv
<1>3. PICK seen, r :
        /\ CurrentScopeOK(s.ctx, "read") /\ s.pc = "idle" /\ UNCHANGED <<table, log>>
        /\ r = Called(s, "read", {}, Null)
        /\ tx' = [tx EXCEPT ![c] = [r EXCEPT !.pc = "idle", !.seen = seen]]
        /\ \A row \in seen : Matches(s.ctx, "read", row)
    <2>1. PICK F \in SUBSET Ids, withDeleted \in BOOLEAN, relations \in BOOLEAN :
            /\ CanCall(c) /\ CurrentScopeOK(s.ctx, "read") /\ UNCHANGED <<table, log>>
            /\ \E rows \in Answers(c, F, withDeleted) :
                  LET joined == IF relations THEN Related(c, rows, withDeleted) ELSE {}
                  IN  tx' = [tx EXCEPT ![c] = [Called(@, "read", {}, Null) EXCEPT !.pc = "idle",
                               !.seen = {View(c)[i] : i \in rows \cup joined}]]
        BY <1>1 DEF read
    <2>2. PICK rows, joined :
            /\ rows \in Answers(c, F, withDeleted)
            /\ joined = IF relations THEN Related(c, rows, withDeleted) ELSE {}
            /\ tx' = [tx EXCEPT ![c] = [Called(@, "read", {}, Null) EXCEPT !.pc = "idle",
                               !.seen = {View(c)[i] : i \in rows \cup joined}]]
        BY <2>1
    <2>3. \A b : \A i \in Visible(c, b) : Matches(s.ctx, "read", View(c)[i])
        BY <1>1 DEF Visible
    <2>4. \A i \in rows : \E b \in BOOLEAN : i \in Visible(c, b)
        BY <2>2 DEF Answers, detail, paging, search, all, findByIds
    <2>5. \A i \in joined : i \in Visible(c, withDeleted)
        BY <2>2 DEF Related
    <2>6. PICK seen : seen = {View(c)[i] : i \in rows \cup joined}
        OBVIOUS
    <2>7. \A row \in seen : Matches(s.ctx, "read", row)
        BY <2>3, <2>4, <2>5, <2>6
    <2>8. PICK r : r = Called(s, "read", {}, Null)
        OBVIOUS
    <2>9. tx' = [tx EXCEPT ![c] = [r EXCEPT !.pc = "idle", !.seen = seen]]
        BY <1>1, <1>2, <2>2, <2>6, <2>8
    <2>10. s.pc = "idle"
        BY <1>1, <2>1 DEF CanCall
    <2> QED
        BY <2>1, <2>7, <2>8, <2>9, <2>10
<1>4. PICK t : t = [r EXCEPT !.pc = "idle", !.seen = seen]
    OBVIOUS
<1>5. DOMAIN tx' = Callers /\ tx'[c] = t /\ \A d \in Callers \ {c} : tx'[d] = tx[d]
    BY <1>2, <1>3, <1>4
<1>6. /\ DOMAIN r = TxFields /\ r.ids = {}
      /\ (Bypasses(s.ctx, "read") => "read" \in r.audits) /\ s.audits \subseteq r.audits
      /\ r.old = s.old /\ r.scopes = s.scopes /\ r.writes = s.writes /\ r.hist = s.hist
      /\ r.over = s.over /\ r.done = s.done /\ r.ctx = s.ctx
    BY <1>2, <1>3, CalledIs
<1>7. /\ DOMAIN t = TxFields /\ t.pc = "idle" /\ t.seen = seen /\ t.ids = {} /\ t.audits = r.audits
      /\ t.old = s.old /\ t.scopes = s.scopes /\ t.writes = s.writes /\ t.hist = s.hist
      /\ t.over = s.over /\ t.done = s.done /\ t.ctx = s.ctx
    BY <1>4, <1>6, FieldsAre
<1>8. SeenInScope(t)
    <2>1. CASE Bypasses(s.ctx, "read")
        <3>1. Granted(t, "read")
            BY <1>6, <1>7, <2>1, GrantedBypass
        <3> QED
            BY <3>1 DEF SeenInScope
    <2>2. CASE ~Bypasses(s.ctx, "read")
        <3>1. \A row \in seen : InScope(s.ctx, row)
            BY <1>3, <2>2, MatchScope
        <3> QED
            BY <1>7, <3>1 DEF SeenInScope
    <2> QED
        BY <2>1, <2>2
<1>9. /\ Allowed(t) /\ Images(t) /\ t.pc \in Pcs /\ s.pc # "saved" /\ t.ids \subseteq Ids
      /\ s.audits \subseteq t.audits /\ s.over \subseteq t.over
    BY <1>3, <1>6, <1>7 DEF Allowed, Images, Working, Pcs
<1>10. t.old = <<>> /\ t.scopes = <<>>
    BY <1>2, <1>3, <1>7 DEF TxShape, Working
<1>11. UNCHANGED <<table, log>>
    BY <1>3
<1> QED
    BY <1>1, <1>5, <1>7, <1>8, <1>9, <1>10, <1>11, QuietStep

\* The transaction rolls back.
LEMMA FailStep ==
    ASSUME Inv, NEW c \in Callers, Fail(c)
    PROVE  Inv'
<1>1. PICK s : s = tx[c]
    OBVIOUS
<1>2. TxInv(s) /\ DOMAIN s = TxFields /\ DOMAIN tx = Callers
    BY <1>1, TxOf
<1>3. PICK t : t = Released(s)
    OBVIOUS
<1>4. tx' = [tx EXCEPT ![c] = Released(@)] /\ UNCHANGED <<table, log>>
    BY DEF Fail, Failed
<1>5. DOMAIN tx' = Callers /\ tx'[c] = t /\ \A d \in Callers \ {c} : tx'[d] = tx[d]
    BY <1>1, <1>2, <1>3, <1>4
<1>6. /\ DOMAIN t = TxFields
      /\ t.pc = "idle" /\ t.ids = {} /\ t.old = <<>> /\ t.scopes = <<>> /\ t.writes = <<>> /\ t.hist = <<>>
      /\ t.done = {} /\ t.seen = {}
    BY <1>2, <1>3, ReleasedIs
<1>7. TxInv(t)
    BY <1>6, FreshTx
<1>8. \A d \in Callers \ {c} : Apart(t, tx[d])
    BY <1>6, EmptyIs DEF Apart
<1> QED
    BY <1>4, <1>5, <1>7, <1>8, LocalStep

\* The rows of the batch that the predicate matches exist.
LEMMA MatchedAre ==
    ASSUME Inv, NEW c \in Callers, NEW s, s = tx[c]
    PROVE  /\ Matched(c) \subseteq s.ids /\ Matched(c) \subseteq Ids
           /\ \A i \in Matched(c) : Matches(s.ctx, s.op, Seen(s, i)) /\ Seen(s, i).exists /\ View(c)[i] = Seen(s, i)
<1>1. TxInv(s) /\ \A i \in Ids : View(c)[i] = Seen(s, i)
    BY TxOf
<1>2. s.ids \subseteq Ids
    BY <1>1 DEF TxInv, TxShape
<1> QED
    BY <1>1, <1>2 DEF Matched, Matches

\* The statements that read before the write: the old rows, or their scopes.
LEMMA ReadOldStep ==
    ASSUME RepositoryConstants, Inv, NEW c \in Callers, readOld(c) \/ historyResourceScopes(c)
    PROVE  Inv'
<1>1. PICK s : s = tx[c]
    OBVIOUS
<1>2. TxInv(s) /\ TxShape(s) /\ Allowed(s) /\ SeenInScope(s) /\ Images(s) /\ DOMAIN s = TxFields /\ DOMAIN tx = Callers
    BY <1>1, TxOf DEF TxInv
<1>3. PICK R : R = Matched(c)
    OBVIOUS
<1>4. \A i \in R : Matches(s.ctx, s.op, View(c)[i])
    BY <1>1, <1>3 DEF Matched
<1>5. CASE Fail(c)
    BY <1>5, FailStep
<1>6. CASE ~Fail(c) /\ readOld(c)
    <2>1. PICK pc \in {"scoped", "write"} :
            tx' = [tx EXCEPT ![c].old = [i \in R |-> View(c)[i]], ![c].pc = pc]
        BY <1>1, <1>3, <1>6 DEF readOld
    <2>2. s.pc = "called" /\ UNCHANGED <<table, log>>
        BY <1>1, <1>6 DEF readOld
    <2>3. PICK t, old : old = [i \in R |-> View(c)[i]] /\ t = [s EXCEPT !.old = old, !.pc = pc]
        OBVIOUS
    <2>4. DOMAIN tx' = Callers /\ tx'[c] = t /\ \A d \in Callers \ {c} : tx'[d] = tx[d]
        BY <1>1, <1>2, <2>1, <2>3
    <2>5. /\ DOMAIN t = TxFields /\ t.pc = pc /\ t.op = s.op /\ t.ids = s.ids /\ t.seen = s.seen /\ t.audits = s.audits
          /\ t.old = old /\ t.scopes = s.scopes /\ t.writes = s.writes /\ t.hist = s.hist
          /\ t.over = s.over /\ t.done = s.done /\ t.ctx = s.ctx
        BY <1>2, <2>3, FieldsAre
    <2>6. s.op # "create" /\ CurrentScopeOK(t.ctx, t.op) /\ (Bypasses(t.ctx, t.op) => t.op \in t.audits)
        BY <1>2, <2>2, <2>5 DEF Allowed, Working
    <2>7. Allowed(t) /\ SeenInScope(t)
        BY <1>2, <2>2, <2>5, <2>6 DEF Allowed, SeenInScope, Granted, Working
    <2>8. \A i \in DOMAIN old : ImageInScope(t, t.op, old[i])
        BY <1>4, <2>3, <2>5, <2>6, MatchImage
    <2>9. \A i \in DOMAIN s.scopes : TenantInScope(t, t.op, s.scopes[i]["tenantCode"])
        BY <1>2, <2>2, <2>5, <2>6 DEF Images, Working, TenantInScope, Granted
    <2>10. Images(t)
        BY <2>5, <2>6, <2>8, <2>9 DEF Images
    <2>11. t.pc \in Pcs /\ t.pc \in Working /\ s.pc # "saved" /\ t.ids \subseteq Ids
           /\ s.over \subseteq t.over /\ s.audits \subseteq t.audits
        BY <1>2, <2>1, <2>2, <2>5 DEF Pcs, Working, TxShape
    <2> QED
        BY <1>1, <2>2, <2>4, <2>5, <2>7, <2>10, <2>11, QuietStep
<1>7. CASE historyResourceScopes(c)
    <2>1. tx' = [tx EXCEPT ![c].scopes = [i \in R |-> View(c)[i].scope], ![c].pc = "write"]
        BY <1>3, <1>7 DEF historyResourceScopes
    <2>2. s.pc = "scoped" /\ UNCHANGED <<table, log>>
        BY <1>1, <1>7 DEF historyResourceScopes
    <2>3. PICK t, scopes : scopes = [i \in R |-> View(c)[i].scope] /\ t = [s EXCEPT !.scopes = scopes, !.pc = "write"]
        OBVIOUS
    <2>4. DOMAIN tx' = Callers /\ tx'[c] = t /\ \A d \in Callers \ {c} : tx'[d] = tx[d]
        BY <1>1, <1>2, <2>1, <2>3
    <2>5. /\ DOMAIN t = TxFields /\ t.pc = "write" /\ t.op = s.op /\ t.ids = s.ids /\ t.seen = s.seen /\ t.audits = s.audits
          /\ t.old = s.old /\ t.scopes = scopes /\ t.writes = s.writes /\ t.hist = s.hist
          /\ t.over = s.over /\ t.done = s.done /\ t.ctx = s.ctx
        BY <1>2, <2>3, FieldsAre
    <2>6. s.op # "create" /\ CurrentScopeOK(t.ctx, t.op) /\ (Bypasses(t.ctx, t.op) => t.op \in t.audits)
        BY <1>2, <2>2, <2>5 DEF Allowed, Working
    <2>7. Allowed(t) /\ SeenInScope(t)
        BY <1>2, <2>2, <2>5, <2>6 DEF Allowed, SeenInScope, Granted, Working
    <2>8. \A i \in DOMAIN scopes : TenantInScope(t, t.op, scopes[i]["tenantCode"])
        BY <1>4, <2>3, <2>5, <2>6, MatchImage
    <2>9. \A i \in DOMAIN s.old : ImageInScope(t, t.op, s.old[i])
        BY <1>2, <2>2, <2>5, <2>6 DEF Images, Working, ImageInScope, Granted
    <2>10. Images(t)
        BY <2>5, <2>6, <2>8, <2>9 DEF Images
    <2>11. t.pc \in Pcs /\ t.pc \in Working /\ s.pc # "saved" /\ t.ids \subseteq Ids
           /\ s.over \subseteq t.over /\ s.audits \subseteq t.audits
        BY <1>2, <2>2, <2>5 DEF Pcs, Working, TxShape
    <2> QED
        BY <1>1, <2>2, <2>4, <2>5, <2>7, <2>10, <2>11, QuietStep
<1> QED
    BY <1>5, <1>6, <1>7

\* An update with an empty patch writes nothing.
LEMMA SkipStep ==
    ASSUME Inv, NEW c \in Callers, skipWrite(c)
    PROVE  Inv'
<1>1. PICK s : s = tx[c]
    OBVIOUS
<1>2. TxInv(s) /\ TxShape(s) /\ Allowed(s) /\ SeenInScope(s) /\ Images(s) /\ DOMAIN s = TxFields /\ DOMAIN tx = Callers
    BY <1>1, TxOf DEF TxInv
<1>3. s.pc = "write" /\ s.op = "update" /\ tx' = [tx EXCEPT ![c].pc = "saved"] /\ UNCHANGED <<table, log>>
    BY <1>1 DEF skipWrite, EmptyPatch
<1>4. PICK t : t = [s EXCEPT !.pc = "saved"]
    OBVIOUS
<1>5. DOMAIN tx' = Callers /\ tx'[c] = t /\ \A d \in Callers \ {c} : tx'[d] = tx[d]
    BY <1>1, <1>2, <1>3, <1>4
<1>6. /\ DOMAIN t = TxFields /\ t.pc = "saved" /\ t.op = s.op /\ t.ids = s.ids /\ t.seen = s.seen /\ t.audits = s.audits
      /\ t.old = s.old /\ t.scopes = s.scopes /\ t.writes = s.writes /\ t.hist = s.hist
      /\ t.over = s.over /\ t.done = s.done /\ t.ctx = s.ctx
    BY <1>2, <1>4, FieldsAre
<1>7. Allowed(t) /\ SeenInScope(t)
    BY <1>2, <1>3, <1>6 DEF Allowed, SeenInScope, Granted, Working, BatchOps
<1>8. Images(t)
    BY <1>2, <1>3, <1>6 DEF Images, Working, ImageInScope, TenantInScope, Granted
<1>9. t.pc \in Pcs /\ t.pc \in Working /\ s.pc # "saved" /\ t.ids \subseteq Ids
      /\ s.over \subseteq t.over /\ s.audits \subseteq t.audits
    BY <1>2, <1>3, <1>6 DEF Pcs, Working, TxShape
<1> QED
    BY <1>1, <1>3, <1>5, <1>6, <1>7, <1>8, <1>9, QuietStep

-----------------------------------------------------------------------------
(* Steps that write rows.                                                  *)

\* Transaction t is s after a statement wrote f.
Wrote(s, t, f) ==
    /\ DOMAIN t = TxFields /\ t.pc \in Pcs /\ t.ids \subseteq Ids
    /\ t.pc \notin Working => t.old = <<>> /\ t.scopes = <<>>
    /\ t.ctx = s.ctx /\ t.hist = s.hist /\ t.writes = Put(s, f)
    /\ s.audits \subseteq t.audits /\ s.done \subseteq t.done /\ s.over \subseteq t.over

\* Row i may be written by transaction t, which was s: onto a row a create named,
\* granted or in scope; only creating moves the row; and it is recorded, unless
\* it is imported or its content stays.
MayWrite(s, t, i, row) ==
    /\ RowOrNone(row)
    /\ \/ i \in t.over
       \/ DoneGrant(t, i)
       \/ t.pc = "saved" /\ i \in t.ids /\ Granted(t, t.op)
       \/ /\ Seen(s, i).exists => InScope(t.ctx, Seen(s, i))
          /\ row.exists => InScope(t.ctx, row)
    /\ \/ Creates(t, i)
       \/ row.exists => Seen(s, i).exists /\ row.scope = Seen(s, i).scope
    /\ Imported(t, i) \/ Pending(t, i) \/ Content(row) = Content(Seen(s, i))

\* A statement that writes only rows it may write keeps the transaction in order.
LEMMA WriteTx ==
    ASSUME NEW s, TxInv(s), s.pc # "saved", NEW f, DOMAIN f \subseteq Ids,
           NEW t, Wrote(s, t, f), \A i \in DOMAIN f : MayWrite(s, t, i, f[i]),
           Allowed(t), WholeBatch(t), SeenInScope(t), Images(t)
    PROVE  TxInv(t)
<1>1. TxShape(s) /\ WritesInScope(s) /\ Founded(s) /\ Recorded(s)
    BY DEF TxInv
<1>2. /\ DOMAIN t.writes = DOMAIN s.writes \cup DOMAIN f
      /\ \A i \in DOMAIN f : t.writes[i] = f[i]
      /\ \A i \in DOMAIN s.writes \ DOMAIN f : t.writes[i] = s.writes[i]
    BY DEF Wrote, Put
<1>3. /\ DOMAIN t = TxFields /\ t.pc \in Pcs /\ t.ids \subseteq Ids
      /\ t.pc \notin Working => t.old = <<>> /\ t.scopes = <<>>
      /\ t.ctx = s.ctx /\ t.hist = s.hist /\ s.audits \subseteq t.audits /\ s.done \subseteq t.done /\ s.over \subseteq t.over
    BY DEF Wrote
<1>4. TxShape(t)
    BY <1>1, <1>2, <1>3 DEF TxShape, MayWrite
<1>5. /\ \A i : DoneGrant(s, i) => DoneGrant(t, i)
      /\ \A i : DoneNew(s, i) => DoneNew(t, i)
      /\ \A i : Imported(s, i) => Imported(t, i)
      /\ \A e : FoundedEntry(s, e) => FoundedEntry(t, e)
    BY <1>3, GrowTx
<1>6. \A i \in DOMAIN s.writes :
        /\ \/ i \in t.over \/ DoneGrant(t, i)
           \/ /\ table[i].exists => InScope(t.ctx, table[i])
              /\ s.writes[i].exists => InScope(t.ctx, s.writes[i])
        /\ table[i].exists /\ s.writes[i].exists => Creates(t, i) \/ s.writes[i].scope = table[i].scope
    BY <1>1, <1>3, <1>5 DEF WritesInScope, Covered, Creates
<1>7. ASSUME NEW i \in DOMAIN f
      PROVE  /\ Covered(t, i)
             /\ table[i].exists /\ t.writes[i].exists => Creates(t, i) \/ t.writes[i].scope = table[i].scope
    <2>1. MayWrite(s, t, i, t.writes[i])
        BY <1>2, <1>7
    <2>2. CASE i \in DOMAIN s.writes
        BY <1>6, <2>1, <2>2 DEF MayWrite, Covered, Seen
    <2>3. CASE i \notin DOMAIN s.writes
        BY <2>1, <2>3 DEF MayWrite, Covered, Seen
    <2> QED
        BY <2>2, <2>3
<1>8. ASSUME NEW i \in DOMAIN s.writes \ DOMAIN f
      PROVE  /\ Covered(t, i)
             /\ table[i].exists /\ t.writes[i].exists => Creates(t, i) \/ t.writes[i].scope = table[i].scope
    BY <1>2, <1>6, <1>8 DEF Covered
<1>9. WritesInScope(t)
    BY <1>2, <1>7, <1>8 DEF WritesInScope
<1>10. Founded(t)
    BY <1>1, <1>3, <1>5 DEF Founded
<1>11. ASSUME LogHistory, NEW i \in DOMAIN t.writes
       PROVE  Imported(t, i) \/ Pending(t, i) \/ HasEntry(t, i) \/ Content(t.writes[i]) = Content(table[i])
    <2>1. i \in DOMAIN s.writes => Imported(s, i) \/ HasEntry(s, i) \/ Content(s.writes[i]) = Content(table[i])
        BY <1>1, <1>11 DEF Recorded, Pending
    <2>2. i \in DOMAIN s.writes /\ Content(t.writes[i]) = Content(s.writes[i]) /\ HasEntry(s, i) => HasEntry(t, i)
        BY <1>3 DEF HasEntry
    <2>3. CASE i \in DOMAIN f
        <3>1. Imported(t, i) \/ Pending(t, i) \/ Content(t.writes[i]) = Content(Seen(s, i))
            BY <1>2, <2>3 DEF MayWrite
        <3> QED
            BY <1>5, <2>1, <2>2, <3>1 DEF Seen
    <2>4. CASE i \notin DOMAIN f
        BY <1>2, <1>5, <1>11, <2>1, <2>2, <2>4
    <2> QED
        BY <2>3, <2>4
<1>12. Recorded(t)
    BY <1>11 DEF Recorded
<1> QED
    BY <1>4, <1>9, <1>10, <1>12 DEF TxInv

\* So does the whole step, when no other transaction wrote the rows.
LEMMA WriteLocal ==
    ASSUME Inv, NEW c \in Callers, UNCHANGED <<table, log>>, NEW s, s = tx[c], s.pc # "saved",
           NEW t, DOMAIN tx' = Callers, tx'[c] = t, \A d \in Callers \ {c} : tx'[d] = tx[d],
           NEW f, DOMAIN f \subseteq Ids, \A d \in Callers \ {c} : DOMAIN f \cap DOMAIN tx[d].writes = {},
           Wrote(s, t, f), \A i \in DOMAIN f : MayWrite(s, t, i, f[i]),
           Allowed(t), WholeBatch(t), SeenInScope(t), Images(t)
    PROVE  Inv'
<1>1. TxInv(s) /\ \A d \in Callers \ {c} : Apart(s, tx[d])
    BY TxOf
<1>2. TxInv(t)
    BY <1>1, WriteTx
<1>3. DOMAIN t.writes = DOMAIN s.writes \cup DOMAIN f
    BY DEF Wrote, Put
<1>4. \A d \in Callers \ {c} : Apart(t, tx[d])
    BY <1>1, <1>3 DEF Apart
<1> QED
    BY <1>2, <1>4, LocalStep

\* What save() stores is a row.
LEMMA SavedRow ==
    ASSUME NEW t, NEW i, NEW cur, NEW old, NEW new
    PROVE  /\ IsRow(AskedRow(t, i)) /\ AskedRow(t, i).exists = TRUE
           /\ IsRow(Merged(cur, old, new)) /\ Merged(cur, old, new).exists = TRUE
<1>1. ASSUME NEW scope, NEW val, NEW user, NEW b, NEW w,
             w = [exists |-> TRUE, scope |-> scope, val |-> val, deleted |-> b, modifiedBy |-> user]
      PROVE  IsRow(w) /\ w.exists = TRUE
    <2>1. w \in [exists : {TRUE}, scope : {scope}, val : {val}, deleted : {b}, modifiedBy : {user}]
        BY <1>1
    <2> QED
        BY <2>1, RowFields
<1>2. IsRow(AskedRow(t, i)) /\ AskedRow(t, i).exists = TRUE
    BY <1>1 DEF AskedRow, NewRow
<1>3. PICK scope, val, user, b :
        Merged(cur, old, new) = [exists |-> TRUE, scope |-> scope, val |-> val, deleted |-> b, modifiedBy |-> user]
    BY DEF Merged
<1>4. IsRow(Merged(cur, old, new)) /\ Merged(cur, old, new).exists = TRUE
    BY <1>1, <1>3
<1> QED
    BY <1>2, <1>4

\* A create whose row is saved: s before, t after.
SavedTx(s, t, i) ==
    /\ DOMAIN t = TxFields /\ t.pc = "saved" /\ t.op = s.op /\ t.ids = s.ids /\ t.val = s.val /\ t.scopes = s.scopes
    /\ t.seen = s.seen /\ t.audits = s.audits /\ t.done = s.done /\ t.hist = s.hist /\ t.ctx = s.ctx
    /\ s.over \subseteq t.over
    /\ i \in t.over \/ (i \in DOMAIN t.writes /\ t.writes[i] = AskedRow(s, i))

\* It is in order but for what it wrote.
LEMMA SavedIs ==
    ASSUME NEW s, TxInv(s), s.pc = "save", NEW i \in Ids, s.ids = {i}, NEW t, SavedTx(s, t, i)
    PROVE  /\ Allowed(t) /\ WholeBatch(t) /\ SeenInScope(t) /\ Images(t) /\ t.pc \in Pcs /\ t.pc \in Working
           /\ Creates(t, i) /\ Pending(t, i) /\ (InScope(t.ctx, AskedRow(s, i)) \/ Granted(t, t.op))
<1>1. Allowed(s) /\ SeenInScope(s) /\ Images(s)
    BY DEF TxInv
<1>2. /\ s.op = "create" /\ CurrentScopeOK(s.ctx, "create") /\ (Bypasses(s.ctx, "create") => "create" \in s.audits)
      /\ ImageInScope(s, "create", AskedRow(s, i))
    BY <1>1 DEF Allowed, Working, Images
<1>3. /\ t.pc = "saved" /\ t.op = "create" /\ t.ids = {i} /\ t.val = s.val /\ t.scopes = s.scopes
      /\ t.seen = s.seen /\ t.audits = s.audits /\ t.ctx = s.ctx
      /\ i \in t.over \/ (i \in DOMAIN t.writes /\ t.writes[i] = AskedRow(s, i))
    BY <1>2 DEF SavedTx
<1>4. AskedRow(t, i) = AskedRow(s, i)
    BY <1>3 DEF AskedRow
<1>5. Allowed(t) /\ WholeBatch(t) /\ SeenInScope(t) /\ t.pc \in Pcs /\ t.pc \in Working
    BY <1>1, <1>2, <1>3 DEF Allowed, WholeBatch, SeenInScope, Granted, Pcs, Working, BatchOps
<1>6. ImageInScope(t, "create", AskedRow(t, i))
    BY <1>2, <1>3, <1>4 DEF ImageInScope, Granted
<1>7. Images(t)
    BY <1>3, <1>4, <1>6 DEF Images
<1>8. Creates(t, i) /\ Pending(t, i)
    BY <1>3 DEF Creates, Pending, HistoryType
<1>9. InScope(t.ctx, AskedRow(s, i)) \/ Granted(t, t.op)
    BY <1>3, <1>4, <1>6, SavedRow DEF ImageInScope
<1> QED
    BY <1>5, <1>7, <1>8, <1>9

\* The statement of save() that writes a row: a new one, or the one it found.
LEMMA SavedLocal ==
    ASSUME Inv, NEW c \in Callers, UNCHANGED <<table, log>>, NEW s, s = tx[c], s.pc = "save", NEW i \in Ids, s.ids = {i},
           NEW t, DOMAIN tx' = Callers, tx'[c] = t, \A d \in Callers \ {c} : tx'[d] = tx[d],
           SavedTx(s, t, i), NEW row, RowOrNone(row), t.writes = Put(s, Rows(row, {i})), ~Locked(c, {i}),
           i \in t.over \/ (row = AskedRow(s, i) /\ ~Seen(s, i).exists)
    PROVE  Inv'
<1>1. TxInv(s)
    BY TxOf
<1>2. PICK f : f = Rows(row, {i})
    OBVIOUS
<1>3. DOMAIN f = {i} /\ f[i] = row
    BY <1>2 DEF Rows
<1>4. /\ Allowed(t) /\ WholeBatch(t) /\ SeenInScope(t) /\ Images(t) /\ t.pc \in Pcs /\ t.pc \in Working
      /\ Creates(t, i) /\ Pending(t, i) /\ (InScope(t.ctx, AskedRow(s, i)) \/ Granted(t, t.op))
    BY <1>1, SavedIs
<1>5. /\ DOMAIN t = TxFields /\ t.pc = "saved" /\ t.ids = {i} /\ t.ctx = s.ctx /\ t.hist = s.hist
      /\ t.audits = s.audits /\ t.done = s.done /\ s.over \subseteq t.over
    BY DEF SavedTx
<1>6. Wrote(s, t, f)
    BY <1>2, <1>4, <1>5 DEF Wrote
<1>7. MayWrite(s, t, i, f[i])
    BY <1>3, <1>4, <1>5 DEF MayWrite
<1>8. \A d \in Callers \ {c} : DOMAIN f \cap DOMAIN tx[d].writes = {}
    BY <1>3 DEF Locked
<1>9. s.pc # "saved" /\ DOMAIN f \subseteq Ids /\ \A j \in DOMAIN f : MayWrite(s, t, j, f[j])
    BY <1>3, <1>7
<1> QED
    BY <1>4, <1>6, <1>8, <1>9, WriteLocal

\* save() inserts the entity, or updates the row it found.
LEMMA SaveStep ==
    ASSUME Inv, NEW c \in Callers, saveInserts(c) \/ saveUpdates(c)
    PROVE  Inv'
<1>1. PICK s : s = tx[c]
    OBVIOUS
<1>2. TxInv(s) /\ TxShape(s) /\ Allowed(s) /\ DOMAIN s = TxFields /\ DOMAIN tx = Callers
    BY <1>1, TxOf DEF TxInv
<1>3. CASE Fail(c)
    BY <1>3, FailStep
<1>4. CASE ~Fail(c)
    <2>1. s.pc = "save" /\ UNCHANGED <<table, log>>
        BY <1>1, <1>4 DEF saveInserts, saveUpdates
    <2>2. \E i \in Ids : s.ids = {i}
        BY <1>2, <2>1 DEF Allowed, Working
    <2>3. PICK i \in Ids : s.ids = {i}
        BY <2>2
    <2>4. View(c)[i] = Seen(s, i)
        BY <1>1, TxOf
    <2>5. CASE saveInserts(c)
        <3>1. PICK row, writes : row = AskedRow(s, i) /\ writes = Put(s, Rows(row, {i}))
            OBVIOUS
        <3>2. ~Locked(c, {i}) /\ ~View(c)[i].exists /\ tx' = [tx EXCEPT ![c].writes = writes, ![c].pc = "saved"]
            BY <1>1, <1>4, <2>3, <2>5, <3>1 DEF saveInserts
        <3>3. PICK t : t = [s EXCEPT !.writes = writes, !.pc = "saved"]
            OBVIOUS
        <3>4. DOMAIN tx' = Callers /\ tx'[c] = t /\ \A d \in Callers \ {c} : tx'[d] = tx[d]
            BY <1>1, <1>2, <3>2, <3>3
        <3>5. /\ DOMAIN t = TxFields /\ t.pc = "saved" /\ t.op = s.op /\ t.ids = s.ids /\ t.val = s.val /\ t.scopes = s.scopes
              /\ t.seen = s.seen /\ t.audits = s.audits /\ t.done = s.done /\ t.hist = s.hist /\ t.ctx = s.ctx
              /\ t.over = s.over /\ t.writes = writes
            BY <1>2, <3>3, FieldsAre
        <3>6. i \in DOMAIN t.writes /\ t.writes[i] = row
            BY <3>1, <3>5 DEF Put, Rows
        <3>7. SavedTx(s, t, i)
            BY <3>1, <3>5, <3>6 DEF SavedTx
        <3>8. RowOrNone(row)
            BY <3>1, SavedRow DEF RowOrNone
        <3>9. ~Locked(c, {i}) /\ row = AskedRow(s, i) /\ ~Seen(s, i).exists /\ t.writes = Put(s, Rows(row, {i}))
            BY <2>4, <3>1, <3>2, <3>5
        <3> QED
            BY <1>1, <2>1, <2>3, <3>4, <3>7, <3>8, <3>9, SavedLocal
    <2>6. CASE saveUpdates(c)
        <3>1. PICK writes, row :
                /\ RowOrNone(row)
                /\ writes = s.writes \/ (writes = Put(s, Rows(row, {i})) /\ ~Locked(c, {i}))
                /\ tx' = [tx EXCEPT ![c].over = @ \cup {i}, ![c].pc = "saved", ![c].writes = writes]
            <4>1. PICK old, new, row : old = s.old[i] /\ new = AskedRow(s, i) /\ row = Merged(View(c)[i], old, new)
                OBVIOUS
            <4>2. PICK writes : writes = IF Merged(old, old, new) # old /\ View(c)[i].exists
                                         THEN Put(s, Rows(row, {i})) ELSE s.writes
                OBVIOUS
            <4>3. Merged(old, old, new) # old => ~Locked(c, {i})
                BY <1>1, <2>3, <2>6, <4>1 DEF saveUpdates
            <4>4. tx' = [tx EXCEPT ![c].over = @ \cup {i}, ![c].pc = "saved", ![c].writes = writes]
                BY <1>1, <2>3, <2>6, <4>1, <4>2 DEF saveUpdates
            <4>5. RowOrNone(row)
                BY <4>1, SavedRow DEF RowOrNone
            <4> QED
                BY <4>2, <4>3, <4>4, <4>5
        <3>2. PICK over, t : over = s.over \cup {i} /\ t = [s EXCEPT !.writes = writes, !.over = over, !.pc = "saved"]
            OBVIOUS
        <3>3. tx'[c] = t
            BY <1>1, <1>2, <3>1, <3>2, FieldsAre
        <3>4. DOMAIN tx' = Callers /\ \A d \in Callers \ {c} : tx'[d] = tx[d]
            BY <1>2, <3>1
        <3>5. /\ DOMAIN t = TxFields /\ t.pc = "saved" /\ t.op = s.op /\ t.ids = s.ids /\ t.val = s.val /\ t.scopes = s.scopes
              /\ t.seen = s.seen /\ t.audits = s.audits /\ t.done = s.done /\ t.hist = s.hist /\ t.ctx = s.ctx
              /\ t.over = over /\ t.writes = writes
            BY <1>2, <3>2, FieldsAre
        <3>6. s.over \subseteq t.over /\ i \in t.over /\ s.audits \subseteq t.audits
            BY <3>2, <3>5
        <3>7. SavedTx(s, t, i)
            BY <3>5, <3>6 DEF SavedTx
        <3>8. CASE writes = s.writes
            <4>1. Allowed(t) /\ SeenInScope(t) /\ Images(t) /\ t.pc \in Pcs /\ t.pc \in Working
                BY <1>2, <2>1, <2>3, <3>7, SavedIs
            <4>2. t.ids \subseteq Ids /\ s.pc # "saved" /\ t.writes = s.writes
                BY <2>1, <2>3, <3>5, <3>8
            <4> QED
                BY <1>1, <2>1, <3>3, <3>4, <3>5, <3>6, <4>1, <4>2, QuietStep
        <3>9. CASE writes = Put(s, Rows(row, {i})) /\ ~Locked(c, {i})
            <4>1. t.writes = Put(s, Rows(row, {i})) /\ ~Locked(c, {i}) /\ RowOrNone(row) /\ i \in t.over
                BY <3>1, <3>5, <3>6, <3>9
            <4> QED
                BY <1>1, <2>1, <2>3, <3>3, <3>4, <3>7, <4>1, SavedLocal
        <3> QED
            BY <3>1, <3>8, <3>9
    <2> QED
        BY <2>5, <2>6
<1> QED
    BY <1>3, <1>4

\* import inserts its rows, with a scope the request allows.
LEMMA ImportStep ==
    ASSUME Inv, NEW c \in Callers, import(c)
    PROVE  Inv'
<1>1. PICK s : s = tx[c]
    OBVIOUS
<1>2. TxInv(s) /\ DOMAIN s = TxFields /\ DOMAIN tx = Callers
    BY <1>1, TxOf
<1>3. CASE Fail(c)
    BY <1>3, FailStep
<1>4. CASE ~Fail(c)
    <2>1. PICK I, val, sel, row, r :
            /\ I \in SUBSET Ids
            /\ s.pc = "idle" /\ FillOK(s.ctx, "import", sel) /\ (\A i \in I : ~View(c)[i].exists) /\ UNCHANGED <<table, log>>
            /\ ~Locked(c, I)
            /\ r = Called(s, "import", I, val)
            /\ row = NewRow(s.ctx, Filled(s.ctx, "import", sel), val)
            /\ tx' = [tx EXCEPT ![c] = Finished([r EXCEPT !.writes = Put(r, Rows(row, I))])]
        BY <1>1, <1>4 DEF import, CanCall
    <2>2. PICK q : q = [r EXCEPT !.writes = Put(r, Rows(row, I))]
        OBVIOUS
    <2>3. PICK t : t = Finished(q)
        OBVIOUS
    <2>4. DOMAIN tx' = Callers /\ tx'[c] = t /\ \A d \in Callers \ {c} : tx'[d] = tx[d]
        BY <1>2, <2>1, <2>2, <2>3
    <2>5. /\ DOMAIN r = TxFields
          /\ r.op = "import" /\ r.ids = I /\ r.seen = {}
          /\ (Bypasses(s.ctx, "import") => "import" \in r.audits) /\ s.audits \subseteq r.audits
          /\ r.writes = s.writes /\ r.hist = s.hist /\ r.over = s.over /\ r.done = s.done /\ r.ctx = s.ctx
        BY <1>2, <2>1, CalledIs
    <2>6. PICK f : f = Rows(row, I)
        OBVIOUS
    <2>7. Put(r, f) = Put(s, f)
        BY <2>5 DEF Put
    <2>8. /\ DOMAIN q = TxFields /\ q.op = "import" /\ q.ids = I /\ q.seen = {} /\ q.audits = r.audits
          /\ q.writes = Put(s, f) /\ q.hist = s.hist /\ q.over = s.over /\ q.done = s.done /\ q.ctx = s.ctx
        BY <2>2, <2>5, <2>6, <2>7, FieldsAre
    <2>9. /\ DOMAIN t = TxFields /\ t.pc \in {"idle", "commit"} /\ t.ids = {} /\ t.old = <<>> /\ t.scopes = <<>>
          /\ t.done = q.done \cup {<<q.op, q.ids>>}
          /\ t.audits = q.audits /\ t.writes = q.writes /\ t.hist = q.hist /\ t.seen = q.seen /\ t.ctx = q.ctx
          /\ t.over = q.over
        BY <2>3, <2>8, FinishedIs
    <2>10. PICK d : d = <<"import", I>>
        OBVIOUS
    <2>11. d \in t.done /\ d[1] = "import" /\ d[2] = I
        BY <2>8, <2>9, <2>10
    <2>12. Wrote(s, t, f)
        BY <2>5, <2>8, <2>9 DEF Wrote, Pcs
    <2>13. Allowed(t) /\ SeenInScope(t) /\ Images(t)
        BY <2>8, <2>9 DEF Allowed, SeenInScope, Images, Working
    <2>14. WholeBatch(t)
        <3>1. \A e \in t.done : t.done = {e} => e = d
            BY <2>11
        <3> QED
            BY <2>11, <3>1 DEF WholeBatch, BatchOps
    <2>15. IsRow(row) /\ row.exists = TRUE /\ row.scope = Filled(s.ctx, "import", sel)
        BY <2>1 DEF NewRow, IsRow
    <2>16. Granted(t, "import") \/ InScope(t.ctx, row)
        <3>1. CASE Bypasses(s.ctx, "import")
            BY <2>5, <2>8, <2>9, <3>1, GrantedBypass
        <3>2. CASE ~Bypasses(s.ctx, "import")
            BY <2>1, <2>8, <2>9, <2>15, <3>2, FillScope
        <3> QED
            BY <3>1, <3>2
    <2>17. DOMAIN f = I /\ \A i \in I : f[i] = row
        BY <2>6 DEF Rows
    <2>18. ASSUME NEW i \in I PROVE MayWrite(s, t, i, f[i])
        <3>1. ~Seen(s, i).exists
            BY <1>1, <2>1, TxOf
        <3>2. Imported(t, i) /\ Creates(t, i)
            BY <2>11 DEF Imported, Creates, DoneNew
        <3>3. Granted(t, "import") => DoneGrant(t, i)
            BY <2>11 DEF DoneGrant
        <3> QED
            BY <2>15, <2>16, <2>17, <3>1, <3>2, <3>3 DEF MayWrite, RowOrNone
    <2>19. DOMAIN f \subseteq Ids /\ (\A i \in DOMAIN f : MayWrite(s, t, i, f[i]))
           /\ (\A b \in Callers \ {c} : DOMAIN f \cap DOMAIN tx[b].writes = {}) /\ s.pc # "saved" /\ UNCHANGED <<table, log>>
        BY <2>1, <2>17, <2>18 DEF Locked
    <2> QED
        BY <1>1, <2>4, <2>12, <2>13, <2>14, <2>19, WriteLocal
<1> QED
    BY <1>3, <1>4

\* What the write statement makes of a row (Written).
LEMMA WrittenIs ==
    ASSUME NEW t, t.op \in {"update"} \cup BatchOps, NEW r, IsRow(r), NEW w, w = Written(t, r)
    PROVE  /\ RowOrNone(w)
           /\ w.exists => w.scope = r.scope
           /\ HistoryType(t.op) = "none" => Content(w) = Content(r)
           /\ t.op \in BatchOps => BatchEffect(t.op, w)
<1>1. CASE t.op = "update"
    <2>1. PICK user, val : /\ user = IF t.ctx.userId = Null THEN r.modifiedBy ELSE t.ctx.userId
                           /\ val = IF t.val = Null THEN r.val ELSE t.val
        OBVIOUS
    <2>2. r \in [exists : {TRUE}, scope : {r.scope}, val : {r.val}, deleted : {r.deleted}, modifiedBy : {r.modifiedBy}]
        BY DEF IsRow
    <2>3. w = [r EXCEPT !.val = val, !.modifiedBy = user]
        <3>1. w = [r EXCEPT !.val = IF t.val = Null THEN r.val ELSE t.val,
                            !.modifiedBy = IF t.ctx.userId = Null THEN r.modifiedBy ELSE t.ctx.userId]
            BY <1>1 DEF Written
        <3> QED
            BY <2>1, <3>1
    <2>4. w \in [exists : {TRUE}, scope : {r.scope}, val : {val}, deleted : {r.deleted}, modifiedBy : {user}]
        BY <2>2, <2>3
    <2>5. IsRow(w) /\ w.scope = r.scope
        <3>1. IsRow(w)
            BY <2>4, RowFields
        <3> QED
            BY <2>4, <3>1
    <2> QED
        BY <1>1, <2>5 DEF RowOrNone, HistoryType, BatchOps
<1>2. CASE t.op = "delete"
    <2>1. w = NoRow /\ ~w.exists
        BY <1>2 DEF Written, NoRow
    <2> QED
        BY <1>2, <2>1 DEF RowOrNone, HistoryType, BatchEffect
<1>3. CASE t.op \in {"soft-delete", "restore"}
    <2>1. PICK b : b = (t.op = "soft-delete")
        OBVIOUS
    <2>2. w = [r EXCEPT !.deleted = b]
        <3>1. t.op # "update" /\ t.op # "delete"
            BY <1>3
        <3>2. w = [r EXCEPT !.deleted = (t.op = "soft-delete")]
            BY <3>1 DEF Written
        <3> QED
            BY <2>1, <3>2
    <2>3. r \in [exists : {TRUE}, scope : {r.scope}, val : {r.val}, deleted : {r.deleted}, modifiedBy : {r.modifiedBy}]
        BY DEF IsRow
    <2>4. w \in [exists : {TRUE}, scope : {r.scope}, val : {r.val}, deleted : {b}, modifiedBy : {r.modifiedBy}]
        BY <2>2, <2>3
    <2>5. IsRow(w)
        BY <2>4, RowFields
    <2>6. w.scope = r.scope /\ w.exists = TRUE /\ w.deleted = b /\ w.val = r.val /\ w.modifiedBy = r.modifiedBy
        BY <2>4
    <2>7. Content(w) = Content(r)
        BY <2>5, <2>6, SameContent
    <2>8. BatchEffect(t.op, w)
        BY <1>3, <2>1, <2>6 DEF BatchEffect
    <2> QED
        BY <2>5, <2>6, <2>7, <2>8 DEF RowOrNone
<1> QED
    BY <1>1, <1>2, <1>3 DEF BatchOps

\* The write statement: every row it matches, or none.
LEMMA WriteStep ==
    ASSUME Inv, NEW c \in Callers, write(c)
    PROVE  Inv'
<1>1. PICK s : s = tx[c]
    OBVIOUS
<1>2. TxInv(s) /\ Allowed(s) /\ SeenInScope(s) /\ Images(s) /\ DOMAIN s = TxFields /\ DOMAIN tx = Callers
    BY <1>1, TxOf DEF TxInv
<1>3. CASE Fail(c)
    BY <1>3, FailStep
<1>4. CASE ~Fail(c)
    <2>1. PICK R : R = Matched(c)
        OBVIOUS
    <2>2. PICK f : f = [i \in R |-> Written(s, View(c)[i])]
        OBVIOUS
    <2>3. /\ s.pc = "write" /\ ~Locked(c, R) /\ R = s.ids /\ UNCHANGED <<table, log>>
          /\ tx' = [tx EXCEPT ![c].writes = Put(s, f), ![c].pc = "saved"]
        BY <1>1, <1>4, <2>1, <2>2 DEF write
    <2>4. PICK t : t = [s EXCEPT !.writes = Put(s, f), !.pc = "saved"]
        OBVIOUS
    <2>5. DOMAIN tx' = Callers /\ tx'[c] = t /\ \A d \in Callers \ {c} : tx'[d] = tx[d]
        BY <1>1, <1>2, <2>3, <2>4
    <2>6. /\ DOMAIN t = TxFields /\ t.pc = "saved" /\ t.op = s.op /\ t.ids = R /\ t.ctx = s.ctx /\ t.audits = s.audits
          /\ t.seen = s.seen /\ t.done = s.done /\ t.old = s.old /\ t.scopes = s.scopes /\ t.hist = s.hist
          /\ t.writes = Put(s, f) /\ t.over = s.over
        BY <1>2, <2>3, <2>4, FieldsAre
    <2>7. R \subseteq Ids /\ \A i \in R : Matches(s.ctx, s.op, Seen(s, i)) /\ Seen(s, i).exists /\ View(c)[i] = Seen(s, i)
        BY <1>1, <2>1, MatchedAre
    <2>8. DOMAIN f = R /\ \A i \in R : f[i] = Written(s, Seen(s, i))
        BY <2>2, <2>7
    <2>9. \A i \in R : IsRow(Seen(s, i))
        BY <1>1, <2>7, TxOf, RowKinds
    <2>10. /\ s.op \in {"update"} \cup BatchOps /\ CurrentScopeOK(s.ctx, s.op)
           /\ Bypasses(s.ctx, s.op) => s.op \in s.audits
        BY <1>2, <2>3 DEF Allowed, Working
    <2>11. \A i \in R : /\ RowOrNone(f[i])
                        /\ f[i].exists => f[i].scope = Seen(s, i).scope
                        /\ HistoryType(s.op) = "none" => Content(f[i]) = Content(Seen(s, i))
                        /\ s.op \in BatchOps => BatchEffect(s.op, f[i])
        BY <2>8, <2>9, <2>10, WrittenIs
    <2>12. Wrote(s, t, f)
        BY <1>2, <2>3, <2>6, <2>7 DEF Wrote, Pcs, Working
    <2>13. ASSUME NEW i \in R
           PROVE  \/ Granted(t, t.op)
                  \/ /\ Seen(s, i).exists => InScope(t.ctx, Seen(s, i))
                     /\ f[i].exists => InScope(t.ctx, f[i])
        <3>1. CASE Bypasses(s.ctx, s.op)
            BY <2>6, <2>10, <3>1, GrantedBypass
        <3>2. CASE ~Bypasses(s.ctx, s.op)
            <4>1. InScope(s.ctx, Seen(s, i))
                BY <2>7, <2>10, <3>2, MatchScope
            <4>2. \A row : row.scope = Seen(s, i).scope => InScope(s.ctx, row)
                BY <4>1 DEF InScope
            <4> QED
                BY <2>6, <2>11, <4>1, <4>2
        <3> QED
            BY <3>1, <3>2
    <2>14. \A i \in DOMAIN f : MayWrite(s, t, i, f[i])
        <3>1. ASSUME NEW i \in R PROVE MayWrite(s, t, i, f[i])
            <4>1. Pending(t, i) \/ HistoryType(s.op) = "none"
                BY <2>6 DEF Pending
            <4> QED
                BY <2>6, <2>7, <2>11, <2>13, <4>1 DEF MayWrite
        <3> QED
            BY <2>8, <3>1
    <2>15. Allowed(t)
        <3>1. R \subseteq DOMAIN t.writes /\ \A i \in R : t.writes[i] = f[i]
            BY <2>6, <2>8 DEF Put
        <3> QED
            BY <2>6, <2>10, <2>11, <3>1 DEF Allowed, BatchOps
    <2>16. WholeBatch(t) /\ SeenInScope(t)
        BY <1>2, <2>6 DEF WholeBatch, SeenInScope, Granted
    <2>17. Images(t)
        BY <1>2, <2>3, <2>6, <2>10 DEF Images, Working, ImageInScope, TenantInScope, Granted, BatchOps
    <2>18. DOMAIN f \subseteq Ids /\ \A d \in Callers \ {c} : DOMAIN f \cap DOMAIN tx[d].writes = {}
        BY <2>3, <2>7, <2>8 DEF Locked
    <2>19. s.pc # "saved" /\ UNCHANGED <<table, log>>
        BY <2>3
    <2> QED
        BY <1>1, <2>5, <2>12, <2>14, <2>15, <2>16, <2>17, <2>18, <2>19, WriteLocal
<1> QED
    BY <1>3, <1>4

-----------------------------------------------------------------------------
(* History.                                                                *)

\* The history h is p followed by q.
Follows(p, q, h) ==
    /\ IsSeq(h)
    /\ \A n \in DOMAIN h : (\E m \in DOMAIN p : h[n] = p[m]) \/ (\E m \in DOMAIN q : h[n] = q[m])
    /\ \A m \in DOMAIN p : \E n \in DOMAIN h : h[n] = p[m]
    /\ \A m \in DOMAIN q : \E n \in DOMAIN h : h[n] = q[m]

\* Concatenation.
LEMMA Joined ==
    ASSUME NEW p, IsSeq(p), NEW q, IsSeq(q)
    PROVE  Follows(p, q, p \o q)
<1>1. PICK r : r = p \o q
    OBVIOUS
<1>2. PICK S, T : p \in Seq(S) /\ q \in Seq(T)
    BY DEF IsSeq
<1>3. p \in Seq(S \cup T) /\ q \in Seq(S \cup T)
    BY <1>2, SeqMonotonic
<1>4. PICK k, l : k = Len(p) /\ l = Len(q)
    OBVIOUS
<1>5. k \in Nat /\ l \in Nat /\ DOMAIN p = 1..k /\ DOMAIN q = 1..l
    BY <1>2, <1>4, LenProperties
<1>6. /\ r \in Seq(S \cup T) /\ Len(r) = k + l
      /\ \A n \in 1..(k + l) : r[n] = IF n <= k THEN p[n] ELSE q[n - k]
    BY <1>1, <1>3, <1>4, ConcatProperties
<1>7. DOMAIN r = 1..(k + l)
    BY <1>6, LenProperties
<1>8. \A n \in DOMAIN p : n \in DOMAIN r /\ r[n] = p[n]
    BY <1>5, <1>6, <1>7
<1>9. \A n \in DOMAIN q : n + k \in DOMAIN r /\ r[n + k] = q[n]
    BY <1>5, <1>6, <1>7
<1>10. \A n \in DOMAIN r : (n \in DOMAIN p /\ r[n] = p[n]) \/ (n - k \in DOMAIN q /\ r[n] = q[n - k])
    BY <1>5, <1>6, <1>7
<1>11. IsSeq(r)
    BY <1>6 DEF IsSeq
<1>12. Follows(p, q, r)
    BY <1>8, <1>9, <1>10, <1>11 DEF Follows
<1> QED
    BY <1>1, <1>12

\* A call that has written and recorded is done.
LEMMA DoneTx ==
    ASSUME NEW s, TxInv(s), s.pc = "saved",
           NEW t, DOMAIN t = TxFields, t.pc \in {"idle", "commit"}, t.ids = {}, t.old = <<>>, t.scopes = <<>>,
           t.done = s.done \cup {<<s.op, s.ids>>},
           t.audits = s.audits, t.writes = s.writes, t.seen = s.seen, t.ctx = s.ctx, t.over = s.over,
           IsSeq(t.hist), Founded(t), Recorded(t)
    PROVE  TxInv(t)
<1>1. TxShape(s) /\ Allowed(s) /\ WritesInScope(s) /\ SeenInScope(s)
    BY DEF TxInv
<1>2. TxShape(t)
    BY <1>1 DEF TxShape, Pcs
<1>3. Allowed(t) /\ SeenInScope(t) /\ Images(t)
    BY <1>1 DEF Allowed, SeenInScope, Granted, Images, Working
<1>4. PICK d : d = <<s.op, s.ids>>
    OBVIOUS
<1>5. d \in t.done /\ d[1] = s.op /\ d[2] = s.ids
    BY <1>4
<1>6. WholeBatch(t)
    <2>1. \A e \in t.done : t.done = {e} => e = d
        BY <1>5
    <2>2. s.op \in BatchOps => \A i \in s.ids : i \in DOMAIN s.writes /\ BatchEffect(s.op, s.writes[i])
        BY <1>1 DEF Allowed
    <2> QED
        BY <1>5, <2>1, <2>2 DEF WholeBatch
<1>7. \A i : DoneGrant(s, i) => DoneGrant(t, i)
    BY DEF DoneGrant, Granted
<1>8. \A i : DoneNew(s, i) => DoneNew(t, i)
    BY DEF DoneNew
<1>9. ASSUME NEW i \in s.ids
      PROVE  (Granted(s, s.op) => DoneGrant(t, i)) /\ (s.op = "create" => DoneNew(t, i))
    <2>1. Granted(s, s.op) => DoneGrant(t, i)
        BY <1>5, <1>9 DEF DoneGrant, Granted
    <2>2. s.op = "create" => DoneNew(t, i)
        BY <1>5, <1>9 DEF DoneNew
    <2> QED
        BY <2>1, <2>2
<1>10. \A i : (Covered(s, i) => Covered(t, i)) /\ (Creates(s, i) => Creates(t, i))
    BY <1>7, <1>8, <1>9 DEF Covered, Creates
<1>11. WritesInScope(t)
    BY <1>1, <1>10 DEF WritesInScope
<1> QED
    BY <1>2, <1>3, <1>6, <1>11 DEF TxInv

\* The entry of row i, when the mutation may be recorded: its images and tenant
\* are of its scope or granted, and toData is what is written.
LEMMA EntryIs ==
    ASSUME RepositoryConstants, Inv, NEW c \in Callers, NEW s, s = tx[c], s.pc = "saved", LogHistory,
           HistoryType(s.op) # "none", Recordable(c), NEW i \in s.ids, NEW e, e = Entry(c, i)
    PROVE  /\ e.id = i /\ e.type = HistoryType(s.op)
           /\ ImageInScope(s, s.op, e.from) /\ ImageInScope(s, s.op, e.to)
           /\ i \in s.over \/ TenantInScope(s, s.op, e.tenantCode)
           /\ i \in DOMAIN s.writes => i \in s.over \/ e.to = s.writes[i]
<1>1. TxInv(s) /\ TxShape(s) /\ Allowed(s) /\ Images(s) /\ i \in Ids
    BY TxOf DEF TxInv, TxShape
<1>2. View(c)[i] = Seen(s, i)
    BY <1>1, TxOf
<1>3. /\ e.id = i /\ e.type = HistoryType(s.op) /\ e.from = FromData(c, i) /\ e.to = ToData(c, i)
      /\ e.tenantCode = ResourceScope(c, i)["tenantCode"]
    BY DEF Entry, resolveHistoryTenant
<1>4. s.op \in {"create", "update", "delete"}
    BY <1>1 DEF Allowed, Working, BatchOps, HistoryType
<1>5. CurrentScopeOK(s.ctx, s.op) /\ (Bypasses(s.ctx, s.op) => s.op \in s.audits)
    BY <1>1 DEF Allowed, Working
<1>6. ~NoRow.exists
    BY DEF NoRow
<1>7. CASE s.op = "create"
    <2>1. e.from = NoRow /\ e.to = AskedRow(s, i) /\ ResourceScope(c, i) = Seen(s, i).scope
        BY <1>2, <1>3, <1>7 DEF FromData, ToData, ResourceScope
    <2>2. ImageInScope(s, s.op, e.from) /\ ImageInScope(s, s.op, e.to)
        BY <1>1, <1>6, <1>7, <2>1 DEF Images, Working, ImageInScope
    <2>3. i \in s.over \/ (i \in DOMAIN s.writes /\ s.writes[i] = AskedRow(s, i))
        BY <1>1, <1>7 DEF Images, Working
    <2>4. ASSUME i \notin s.over PROVE TenantInScope(s, s.op, e.tenantCode)
        <3>1. Seen(s, i) = AskedRow(s, i)
            BY <2>3, <2>4 DEF Seen
        <3>2. PICK row : row = AskedRow(s, i)
            OBVIOUS
        <3>3. row.exists /\ e.tenantCode = row.scope["tenantCode"]
            BY <1>3, <2>1, <3>1, <3>2, SavedRow
        <3>4. InScope(s.ctx, row) \/ Granted(s, s.op)
            BY <2>1, <2>2, <3>2, <3>3 DEF ImageInScope
        <3> QED
            BY <3>3, <3>4 DEF InScope, TenantInScope, RepositoryConstants
    <2> QED
        BY <1>3, <2>1, <2>2, <2>3, <2>4
<1>8. CASE s.op \in {"update", "delete"}
    <2>1. /\ e.from = IF i \in DOMAIN s.old THEN s.old[i] ELSE NoRow
          /\ e.to = Seen(s, i) /\ ResourceScope(c, i) = s.scopes[i]
        BY <1>2, <1>3, <1>8 DEF FromData, ToData, ResourceScope
    <2>2. DOMAIN s.scopes = s.ids /\ (s.op = "update" => Matched(c) = s.ids)
        BY <1>8 DEF Recordable
    <2>3. ImageInScope(s, s.op, e.from)
        BY <1>1, <1>6, <1>8, <2>1 DEF Images, Working, ImageInScope
    <2>4. TenantInScope(s, s.op, e.tenantCode)
        BY <1>1, <1>3, <1>8, <2>1, <2>2 DEF Images, Working
    <2>5. ImageInScope(s, s.op, e.to)
        <3>1. CASE s.op = "update"
            <4>1. Matches(s.ctx, s.op, Seen(s, i))
                BY <2>2, <3>1, MatchedAre
            <4> QED
                BY <1>5, <2>1, <4>1, MatchImage
        <3>2. CASE s.op = "delete"
            <4>1. i \in DOMAIN s.writes /\ BatchEffect("delete", s.writes[i])
                BY <1>1, <3>2 DEF Allowed, BatchOps
            <4>2. ~Seen(s, i).exists
                BY <4>1 DEF Seen, BatchEffect
            <4> QED
                BY <2>1, <4>2 DEF ImageInScope
        <3> QED
            BY <1>8, <3>1, <3>2
    <2>6. i \in DOMAIN s.writes => e.to = s.writes[i]
        BY <2>1 DEF Seen
    <2> QED
        BY <1>3, <2>3, <2>4, <2>5, <2>6
<1> QED
    BY <1>4, <1>7, <1>8

\* recordHistory: an entry for every row of the batch, in this transaction.
LEMMA RecordStep ==
    ASSUME RepositoryConstants, Inv, NEW c \in Callers, recordHistory(c)
    PROVE  Inv'
<1>1. PICK s : s = tx[c]
    OBVIOUS
<1>2. /\ TxInv(s) /\ TxShape(s) /\ Allowed(s) /\ Founded(s) /\ Recorded(s) /\ DOMAIN s = TxFields /\ DOMAIN tx = Callers
      /\ \A d \in Callers \ {c} : Apart(s, tx[d])
    BY <1>1, TxOf DEF TxInv
<1>3. PICK q : q = Finished(s)
    OBVIOUS
<1>4. /\ DOMAIN q = TxFields
      /\ q.pc \in {"idle", "commit"} /\ q.ids = {} /\ q.old = <<>> /\ q.scopes = <<>>
      /\ q.done = s.done \cup {<<s.op, s.ids>>}
      /\ q.audits = s.audits /\ q.writes = s.writes /\ q.hist = s.hist /\ q.seen = s.seen /\ q.ctx = s.ctx
      /\ q.over = s.over
    BY <1>2, <1>3, FinishedIs
<1>5. s.pc = "saved"
    BY <1>1 DEF recordHistory
<1>6. CASE Fail(c)
    BY <1>6, FailStep
<1>7. CASE (~LogHistory \/ HistoryType(s.op) = "none") /\ ~Fail(c)
    <2>1. tx' = [tx EXCEPT ![c] = Finished(@)] /\ UNCHANGED <<table, log>>
        BY <1>1, <1>7 DEF recordHistory
    <2>2. DOMAIN tx' = Callers /\ tx'[c] = q /\ \A d \in Callers \ {c} : tx'[d] = tx[d]
        BY <1>1, <1>2, <1>3, <2>1
    <2>3. IsSeq(q.hist)
        BY <1>2, <1>4 DEF TxShape
    <2>4. s.audits \subseteq q.audits /\ s.done \subseteq q.done /\ s.over \subseteq q.over
        BY <1>4
    <2>5. Founded(q)
        BY <1>2, <1>4, <2>4, GrowTx DEF Founded
    <2>6. Recorded(q)
        <3>1. \A i : HasEntry(s, i) => HasEntry(q, i)
            BY <1>4 DEF HasEntry
        <3>2. \A i : Imported(s, i) => Imported(q, i)
            BY <1>4 DEF Imported
        <3>3. LogHistory => \A i : ~Pending(s, i)
            BY <1>7 DEF Pending
        <3> QED
            BY <1>2, <1>4, <3>1, <3>2, <3>3 DEF Recorded
    <2>7. TxInv(q)
        BY <1>2, <1>4, <1>5, <2>3, <2>5, <2>6, DoneTx
    <2>8. \A d \in Callers \ {c} : Apart(q, tx[d])
        BY <1>2, <1>4 DEF Apart
    <2> QED
        BY <2>1, <2>2, <2>7, <2>8, LocalStep
<1>8. CASE LogHistory /\ HistoryType(s.op) # "none" /\ ~Fail(c)
    <2>1. \E order \in [1..Cardinality(tx[c].ids) -> tx[c].ids] :
                        /\ \A i \in tx[c].ids : \E n \in DOMAIN order : order[n] = i
                        /\ tx' = [tx EXCEPT ![c] = [Finished(@) EXCEPT !.hist =
                                    tx[c].hist \o [n \in DOMAIN order |-> Entry(c, order[n])]]]
        <3>1. ~(~LogHistory \/ HistoryType(tx[c].op) = "none")
            BY <1>1, <1>8
        <3> QED
            BY <1>8, <3>1, Zenon DEF recordHistory
    <2>2. Recordable(c) /\ UNCHANGED <<table, log>>
        BY <1>1, <1>8 DEF recordHistory
    <2>3. PICK k, order : /\ k = Cardinality(s.ids) /\ order \in [1..k -> s.ids]
                          /\ \A i \in s.ids : \E n \in DOMAIN order : order[n] = i
                          /\ tx' = [tx EXCEPT ![c] = [Finished(@) EXCEPT !.hist =
                                     s.hist \o [n \in DOMAIN order |-> Entry(c, order[n])]]]
        <3>1. PICK order \in [1..Cardinality(tx[c].ids) -> tx[c].ids] :
                        /\ \A i \in tx[c].ids : \E n \in DOMAIN order : order[n] = i
                        /\ tx' = [tx EXCEPT ![c] = [Finished(@) EXCEPT !.hist =
                                    tx[c].hist \o [n \in DOMAIN order |-> Entry(c, order[n])]]]
            BY <2>1, Zenon
        <3>2. PICK k : k = Cardinality(s.ids)
            OBVIOUS
        <3>3. order \in [1..k -> s.ids] /\ \A i \in s.ids : \E n \in DOMAIN order : order[n] = i
            BY <1>1, <3>1, <3>2
        <3>4. tx' = [tx EXCEPT ![c] = [Finished(@) EXCEPT !.hist = s.hist \o [n \in DOMAIN order |-> Entry(c, order[n])]]]
            BY <1>1, <3>1
        <3> QED
            BY <3>2, <3>3, <3>4, Zenon
    <2>4. PICK E : E = [n \in DOMAIN order |-> Entry(c, order[n])]
        OBVIOUS
    <2>5. PICK h : h = s.hist \o E
        OBVIOUS
    <2>6. PICK t : t = [q EXCEPT !.hist = h]
        OBVIOUS
    <2>7. DOMAIN tx' = Callers /\ tx'[c] = t /\ \A d \in Callers \ {c} : tx'[d] = tx[d]
        BY <1>1, <1>2, <1>3, <2>3, <2>4, <2>5, <2>6
    <2>8. /\ DOMAIN t = TxFields
          /\ t.pc \in {"idle", "commit"} /\ t.ids = {} /\ t.old = <<>> /\ t.scopes = <<>>
          /\ t.done = s.done \cup {<<s.op, s.ids>>}
          /\ t.audits = s.audits /\ t.writes = s.writes /\ t.hist = h /\ t.seen = s.seen /\ t.ctx = s.ctx
          /\ t.over = s.over
        BY <1>4, <2>6, FieldsAre
    <2>9. k \in Nat
        <3>1. IsFiniteSet(s.ids)
            BY <1>2, FS_Subset DEF RepositoryConstants, TxShape
        <3> QED
            BY <2>3, <3>1, FS_CardinalityType
    <2>10. DOMAIN E = 1..k /\ \A n \in DOMAIN E : order[n] \in s.ids /\ E[n] = Entry(c, order[n])
        BY <2>3, <2>4
    <2>11. IsSeq(E)
        <3>1. PICK S : S = {E[n] : n \in DOMAIN E}
            OBVIOUS
        <3>2. E \in [1..k -> S]
            BY <2>4, <2>10, <3>1
        <3>3. E \in Seq(S)
            BY <2>9, <3>2, SeqDef
        <3> QED
            BY <3>3 DEF IsSeq
    <2>12. Follows(s.hist, E, h)
        BY <1>2, <2>5, <2>11, Joined DEF TxShape
    <2>13. ASSUME NEW n \in DOMAIN E
           PROVE  /\ E[n].id = order[n] /\ E[n].type = HistoryType(s.op)
                  /\ ImageInScope(s, s.op, E[n].from) /\ ImageInScope(s, s.op, E[n].to)
                  /\ order[n] \in s.over \/ TenantInScope(s, s.op, E[n].tenantCode)
                  /\ order[n] \in DOMAIN s.writes => order[n] \in s.over \/ E[n].to = s.writes[order[n]]
        BY <1>1, <1>5, <1>8, <2>2, <2>10, EntryIs
    <2>14. s.audits \subseteq t.audits /\ s.done \subseteq t.done /\ s.over \subseteq t.over
        BY <2>8
    <2>15. ASSUME NEW n \in DOMAIN E PROVE FoundedEntry(t, E[n])
        <3>1. PICK d : d = <<s.op, s.ids>>
            OBVIOUS
        <3>2. d \in t.done /\ d[1] = s.op /\ d[2] = s.ids
            BY <2>8, <3>1
        <3>3. /\ ImageInScope(t, s.op, E[n].from) /\ ImageInScope(t, s.op, E[n].to)
              /\ order[n] \in t.over \/ TenantInScope(t, s.op, E[n].tenantCode)
            BY <2>8, <2>13, <2>14, <2>15, GrowTx
        <3> QED
            BY <2>10, <2>13, <2>15, <3>2, <3>3 DEF FoundedEntry
    <2>16. Founded(t)
        <3>1. \A n \in DOMAIN s.hist : FoundedEntry(t, s.hist[n])
            BY <1>2, <2>8, <2>14, GrowTx DEF Founded
        <3> QED
            BY <2>8, <2>12, <2>15, <3>1 DEF Founded, Follows
    <2>17. ASSUME NEW i \in DOMAIN t.writes
           PROVE  Imported(t, i) \/ HasEntry(t, i) \/ Content(t.writes[i]) = Content(table[i])
        <3>1. Imported(s, i) \/ Pending(s, i) \/ HasEntry(s, i) \/ Content(s.writes[i]) = Content(table[i])
            BY <1>2, <1>8, <2>8, <2>17 DEF Recorded
        <3>2. Imported(s, i) => Imported(t, i)
            BY <2>8 DEF Imported
        <3>3. HasEntry(s, i) => HasEntry(t, i)
            BY <2>8, <2>12 DEF HasEntry, Follows
        <3>4. CASE Pending(s, i)
            <4>1. PICK m \in DOMAIN E : order[m] = i
                BY <2>3, <2>10, <3>4 DEF Pending
            <4>2. E[m].id = i /\ (i \in s.over \/ E[m].to = s.writes[i])
                BY <2>8, <2>13, <2>17, <4>1
            <4>3. PICK n \in DOMAIN h : h[n] = E[m]
                BY <2>12 DEF Follows
            <4> QED
                BY <2>8, <4>2, <4>3 DEF HasEntry
        <3> QED
            BY <2>8, <3>1, <3>2, <3>3, <3>4
    <2>18. Recorded(t)
        BY <2>17 DEF Recorded
    <2>19. TxInv(t)
        <3>1. IsSeq(t.hist)
            BY <2>8, <2>12 DEF Follows
        <3> QED
            BY <1>2, <1>5, <2>8, <2>16, <2>18, <3>1, DoneTx
    <2>20. \A d \in Callers \ {c} : Apart(t, tx[d])
        BY <1>2, <2>8 DEF Apart
    <2> QED
        BY <2>2, <2>7, <2>19, <2>20, LocalStep
<1> QED
    BY <1>6, <1>7, <1>8

-----------------------------------------------------------------------------
(* Commits.                                                                *)

\* What a commit of transaction s makes of the table.
Committed(s) ==
    /\ DOMAIN table' = Ids
    /\ \A i \in DOMAIN s.writes : table'[i] = s.writes[i]
    /\ \A i \in Ids \ DOMAIN s.writes : table'[i] = table[i]

\* Another transaction does not notice: its rows are others.
LEMMA CommitOther ==
    ASSUME NEW s, Committed(s), NEW u, TxInv(u), Apart(u, s)
    PROVE  TxInv(u)'
<1>1. /\ TxShape(u) /\ Allowed(u) /\ WholeBatch(u) /\ WritesInScope(u) /\ SeenInScope(u)
      /\ Images(u) /\ Founded(u) /\ Recorded(u)
    BY DEF TxInv
<1>2. TxShape(u)' /\ Allowed(u)' /\ WholeBatch(u)' /\ SeenInScope(u)' /\ Images(u)' /\ Founded(u)'
    BY <1>1 DEF TxShape, Allowed, WholeBatch, SeenInScope, Images, Founded
<1>3. \A i \in DOMAIN u.writes : table'[i] = table[i]
    BY <1>1 DEF Committed, Apart, TxShape
<1>4. \A i \in DOMAIN u.writes : Covered(u, i)'
    BY <1>1, <1>3 DEF WritesInScope, Covered
<1>5. WritesInScope(u)'
    BY <1>1, <1>3, <1>4 DEF WritesInScope
<1>6. Recorded(u)'
    BY <1>1, <1>3 DEF Recorded
<1> QED
    BY <1>2, <1>5, <1>6 DEF TxInv

\* What a commit step does.
LEMMA CommitIs ==
    ASSUME Inv, NEW c \in Callers, commit(c), NEW s, s = tx[c]
    PROVE  /\ Committed(s) /\ Commits(c) /\ s.pc # "saved"
           /\ DOMAIN tx' = Callers /\ tx'[c] = Released(s) /\ \A d \in Callers \ {c} : tx'[d] = tx[d]
<1>1. TxInv(s) /\ TxShape(s) /\ TableShape /\ DOMAIN tx = Callers
    BY TxOf DEF Inv, TxInv
<1>2. /\ table' = View(c) /\ log' = log \o s.hist /\ tx' = [tx EXCEPT ![c] = Released(@)]
      /\ s.pc \in {"commit", "idle"}
    BY DEF commit
<1>3. Committed(s)
    BY <1>1, <1>2 DEF View, TxShape, Committed
<1>4. DOMAIN tx' = Callers /\ tx'[c] = Released(s) /\ \A d \in Callers \ {c} : tx'[d] = tx[d]
    BY <1>1, <1>2
<1>5. Commits(c)
    BY <1>2, <1>4 DEF Commits
<1> QED
    BY <1>2, <1>3, <1>4, <1>5

\* A commit.
LEMMA CommitStep ==
    ASSUME Inv, NEW c \in Callers, commit(c)
    PROVE  Inv'
<1>1. PICK s : s = tx[c]
    OBVIOUS
<1>2. PICK t : t = Released(s)
    OBVIOUS
<1>3. Committed(s) /\ DOMAIN tx' = Callers /\ tx'[c] = t /\ \A d \in Callers \ {c} : tx'[d] = tx[d]
    BY <1>1, <1>2, CommitIs
<1>4. TxInv(s) /\ TxShape(s) /\ TableShape /\ DOMAIN s = TxFields
    BY <1>1, TxOf DEF Inv, TxInv
<1>5. TableShape'
    BY <1>3, <1>4 DEF TableShape, TxShape, Committed
<1>6. /\ DOMAIN t = TxFields
      /\ t.pc = "idle" /\ t.ids = {} /\ t.old = <<>> /\ t.scopes = <<>> /\ t.writes = <<>> /\ t.hist = <<>>
      /\ t.done = {} /\ t.seen = {}
    BY <1>2, <1>4, ReleasedIs
<1>7. TxInv(t)'
    BY <1>6, FreshTx
<1>8. ASSUME NEW d \in Callers PROVE TxInv(tx[d])'
    <2>1. PICK u : u = tx'[d]
        OBVIOUS
    <2>2. TxInv(u)'
        <3>1. CASE d = c
            BY <1>3, <1>7, <2>1, <3>1
        <3>2. CASE d # c
            <4>1. u = tx[d] /\ TxInv(u) /\ Apart(u, s)
                BY <1>1, <1>3, <2>1, <3>2 DEF Inv
            <4> QED
                BY <1>3, <4>1, CommitOther
        <3> QED
            BY <3>1, <3>2
    <2> QED
        BY <2>1, <2>2
<1>9. \A b, d \in Callers : b # d => Apart(tx[b], tx[d])
    BY DEF Inv
<1>10. ASSUME NEW b \in Callers, NEW d \in Callers, b # d PROVE Apart(tx[b], tx[d])'
    <2>1. PICK u, w : u = tx'[b] /\ w = tx'[d]
        OBVIOUS
    <2>2. CASE b = c \/ d = c
        <3>1. u = t \/ w = t
            BY <1>3, <2>1, <2>2
        <3> QED
            BY <1>6, <2>1, <3>1, EmptyIs DEF Apart
    <2>3. CASE b # c /\ d # c
        BY <1>3, <1>9, <1>10, <2>3 DEF Apart
    <2> QED
        BY <2>2, <2>3
<1> QED
    BY <1>3, <1>5, <1>8, <1>10 DEF Inv

-----------------------------------------------------------------------------
(* The invariant holds.                                                    *)

\* Initially nothing is under way.
LEMMA InvInit ==
    ASSUME RepositoryConstants, RepositoryInit
    PROVE  Inv
<1>1. TableShape
    BY DEF RepositoryInit, RepositoryConstants, RowOrNone, TableShape
<1>2. DOMAIN tx = Callers
    BY DEF RepositoryInit
<1>3. ASSUME NEW c \in Callers PROVE TxInv(tx[c]) /\ tx[c].writes = <<>>
    <2>1. PICK x : tx[c] = Arrived(x)
        BY DEF RepositoryInit
    <2>2. PICK t : t = tx[c]
        OBVIOUS
    <2>3. /\ DOMAIN t = TxFields
          /\ t.pc = "idle" /\ t.ids = {} /\ t.old = <<>> /\ t.scopes = <<>> /\ t.writes = <<>> /\ t.hist = <<>>
          /\ t.done = {} /\ t.seen = {}
        BY <2>1, <2>2, FieldsAre DEF Arrived, TxFields, Idle
    <2>4. TxInv(t)
        BY <2>3, FreshTx
    <2> QED
        BY <2>2, <2>3, <2>4
<1>4. \A c, d \in Callers : c # d => Apart(tx[c], tx[d])
    BY <1>3, EmptyIs DEF Apart
<1> QED
    BY <1>1, <1>2, <1>3, <1>4 DEF Inv

\* Every step keeps it.
LEMMA InvStep ==
    ASSUME RepositoryConstants, Inv, [RepositoryNext]_repositoryVars
    PROVE  Inv'
<1>1. CASE RepositoryNext
    <2>1. PICK c \in Callers :
            \/ beginTransaction(c) \/ commit(c) \/ abort(c) \/ create(c) \/ saveInserts(c) \/ saveUpdates(c) \/ import(c)
            \/ updateCall(c) \/ batchCall(c) \/ collectDtos(c) \/ readOld(c) \/ historyResourceScopes(c) \/ write(c)
            \/ skipWrite(c) \/ recordHistory(c) \/ read(c)
        BY <1>1 DEF RepositoryNext
    <2>2. CASE beginTransaction(c)
        BY <2>2, BeginStep
    <2>3. CASE commit(c)
        BY <2>3, CommitStep
    <2>4. CASE abort(c)
        BY <2>4, FailStep DEF abort
    <2>5. CASE create(c)
        BY <2>5, CreateStep
    <2>6. CASE saveInserts(c) \/ saveUpdates(c)
        BY <2>6, SaveStep
    <2>7. CASE import(c)
        BY <2>7, ImportStep
    <2>8. CASE updateCall(c) \/ batchCall(c) \/ collectDtos(c)
        BY <2>8, CallStep
    <2>9. CASE readOld(c) \/ historyResourceScopes(c)
        BY <2>9, ReadOldStep
    <2>10. CASE write(c)
        BY <2>10, WriteStep
    <2>11. CASE skipWrite(c)
        BY <2>11, SkipStep
    <2>12. CASE recordHistory(c)
        BY <2>12, RecordStep
    <2>13. CASE read(c)
        BY <2>13, ReadStep
    <2> QED
        BY <2>1, <2>2, <2>3, <2>4, <2>5, <2>6, <2>7, <2>8, <2>9, <2>10, <2>11, <2>12, <2>13
<1>2. CASE UNCHANGED repositoryVars
    <2>1. table' = table /\ log' = log /\ tx' = tx
        BY <1>2 DEF repositoryVars
    <2>2. TableShape'
        BY <2>1 DEF Inv, TableShape
    <2>3. \A c \in Callers : TxInv(tx[c]) => TxInv(tx[c])'
        BY <2>1 DEF TxInv, TxShape, Allowed, WholeBatch, WritesInScope, Covered, SeenInScope, Images, Founded, Recorded,
                    HasEntry, Granted, Creates, DoneGrant, DoneNew, Imported, Pending, FoundedEntry, ImageInScope,
                    TenantInScope, AskedRow
    <2>4. \A c, d \in Callers : Apart(tx[c], tx[d]) => Apart(tx[c], tx[d])'
        BY <2>1 DEF Apart
    <2> QED
        BY <2>1, <2>2, <2>3, <2>4 DEF Inv
<1> QED
    BY <1>1, <1>2

-----------------------------------------------------------------------------
(* Theorems.                                                               *)

\* Only a commit changes the table or the history (rollbacks and statements
\* leave them).
LEMMA OnlyCommits ==
    ASSUME RepositoryNext, table' # table \/ log' # log
    PROVE  \E c \in Callers : commit(c)
<1>1. \A c : Fail(c) => table' = table /\ log' = log
    BY DEF Fail
<1>2. PICK c \in Callers :
        \/ beginTransaction(c) \/ commit(c) \/ abort(c) \/ create(c) \/ saveInserts(c) \/ saveUpdates(c) \/ import(c)
        \/ updateCall(c) \/ batchCall(c) \/ collectDtos(c) \/ readOld(c) \/ historyResourceScopes(c) \/ write(c)
        \/ skipWrite(c) \/ recordHistory(c) \/ read(c)
    BY DEF RepositoryNext
<1>3. ~beginTransaction(c) /\ ~abort(c) /\ ~skipWrite(c)
    BY <1>1 DEF beginTransaction, abort, skipWrite
<1>4. ~create(c)
    BY DEF create
<1>5. ~saveInserts(c) /\ ~saveUpdates(c)
    BY <1>1 DEF saveInserts, saveUpdates
<1>6. ~import(c)
    BY <1>1 DEF import
<1>7. ~updateCall(c) /\ ~batchCall(c) /\ ~collectDtos(c)
    BY DEF updateCall, batchCall, collectDtos
<1>8. ~readOld(c) /\ ~historyResourceScopes(c) /\ ~write(c)
    BY <1>1 DEF readOld, historyResourceScopes, write
<1>9. ~recordHistory(c)
    BY <1>1 DEF recordHistory
<1>10. ~read(c)
    BY DEF read
<1> QED
    BY <1>2, <1>3, <1>4, <1>5, <1>6, <1>7, <1>8, <1>9, <1>10

\* A commit writes rows of its scope or grant or rows a create named, and only
\* creating moves a row.
LEMMA CommitScope ==
    ASSUME Inv, NEW c \in Callers, commit(c)
    PROVE  ChangesInScope /\ ScopeImmutable
<1>1. PICK s : s = tx[c]
    OBVIOUS
<1>2. Committed(s) /\ Commits(c) /\ s.pc # "saved"
    BY <1>1, CommitIs
<1>3. WritesInScope(s)
    BY <1>1, TxOf DEF TxInv
<1>4. ASSUME NEW i \in Ids, table'[i] # table[i]
      PROVE  i \in DOMAIN s.writes /\ table'[i] = s.writes[i] /\ Covered(s, i)
             /\ (table[i].exists /\ s.writes[i].exists => Creates(s, i) \/ s.writes[i].scope = table[i].scope)
    BY <1>2, <1>3, <1>4 DEF Committed, WritesInScope
<1>5. ASSUME NEW i \in Ids, table'[i] # table[i]
      PROVE  \/ i \in s.over
             \/ \E d \in s.done : i \in d[2] /\ Granted(s, d[1])
             \/ /\ table[i].exists => InScope(s.ctx, table[i])
                /\ table'[i].exists => InScope(s.ctx, table'[i])
    BY <1>2, <1>4, <1>5 DEF Covered, DoneGrant
<1>6. ASSUME NEW i \in Ids, table[i].exists /\ table'[i].exists /\ table'[i].scope # table[i].scope
      PROVE  \E d \in s.done : d[1] \in {"create", "import"} /\ i \in d[2]
    BY <1>2, <1>4, <1>6 DEF Creates, DoneNew
<1> QED
    BY <1>1, <1>2, <1>5, <1>6 DEF ChangesInScope, ScopeImmutable

\* A transaction that commits one batch commits all of it.
LEMMA CommitBatch ==
    ASSUME Inv
    PROVE  BatchAtomic
<1>1. ASSUME NEW c \in Callers, NEW d \in tx[c].done, tx[c].done = {d}, d[1] \in BatchOps, Commits(c), NEW i \in d[2]
      PROVE  BatchEffect(d[1], table'[i])
    <2>1. tx[c].pc # "saved" /\ table' = View(c)
        BY <1>1 DEF Commits
    <2>2. WholeBatch(tx[c]) /\ DOMAIN tx[c].writes \subseteq Ids
        BY DEF Inv, TxInv, TxShape
    <2>3. i \in DOMAIN tx[c].writes /\ BatchEffect(d[1], tx[c].writes[i])
        BY <1>1, <2>1, <2>2 DEF WholeBatch
    <2>4. table'[i] = tx[c].writes[i]
        BY <2>1, <2>2, <2>3 DEF View
    <2> QED
        BY <2>3, <2>4
<1> QED
    BY <1>1 DEF BatchAtomic

\* Every step keeps the scope.
LEMMA StepScope ==
    ASSUME Inv, RepositoryNext
    PROVE  ScopeStep
<1>1. ChangesInScope /\ ScopeImmutable
    <2>1. CASE table' = table
        BY <2>1 DEF ChangesInScope, ScopeImmutable
    <2>2. CASE table' # table
        BY <2>2, OnlyCommits, CommitScope
    <2> QED
        BY <2>1, <2>2
<1> QED
    BY <1>1, CommitBatch DEF ScopeStep

\* A commit stores its changes with their entries, and entries of what it did.
LEMMA CommitHistory ==
    ASSUME Inv, NEW c \in Callers, commit(c)
    PROVE  Commits(c) /\ (LogHistory => ChangesRecorded(c)) /\ EntriesFounded(c)
<1>1. PICK s : s = tx[c]
    OBVIOUS
<1>2. Committed(s) /\ Commits(c) /\ s.pc # "saved"
    BY <1>1, CommitIs
<1>3. Founded(s) /\ Recorded(s)
    BY <1>1, TxOf DEF TxInv
<1>4. EntriesFounded(c)
    BY <1>1, <1>3 DEF EntriesFounded, Founded, FoundedEntry
<1>5. ASSUME LogHistory, NEW i \in Ids, Content(table'[i]) # Content(table[i])
      PROVE  \/ \E d \in s.done : d[1] = "import" /\ i \in d[2]
             \/ \E n \in DOMAIN s.hist :
                   s.hist[n].id = i /\ (i \in s.over \/ Content(s.hist[n].to) = Content(table'[i]))
    <2>1. i \in DOMAIN s.writes /\ table'[i] = s.writes[i]
        BY <1>2, <1>5 DEF Committed
    <2>2. Imported(s, i) \/ HasEntry(s, i)
        BY <1>2, <1>3, <1>5, <2>1 DEF Recorded, Pending
    <2> QED
        BY <2>1, <2>2 DEF Imported, HasEntry
<1>6. LogHistory => ChangesRecorded(c)
    BY <1>1, <1>5 DEF ChangesRecorded
<1> QED
    BY <1>2, <1>4, <1>6

\* Rows and their history change together (BaseRepository with logHistory,
\* ActionHistoryService.record): however the transactions of concurrent requests
\* interleave, fail or roll back, the commit that changes the content of a row
\* carries an entry with that content, unless it imported the row; and every
\* entry is of an operation that committed with it, with images and a tenant of
\* its request's scope or grant. A create that named an existing row is the
\* exception of both: its entry holds the entity it was given.
THEOREM History == RepositoryConstants => (RepositorySpec => HistoryKept)
<1> SUFFICES ASSUME RepositoryConstants PROVE RepositorySpec => HistoryKept
    OBVIOUS
<1>1. Inv /\ [RepositoryNext]_repositoryVars => [HistoryStep]_repositoryVars
    BY OnlyCommits, CommitHistory DEF HistoryStep
<1> QED
    BY InvInit, InvStep, <1>1, PTL DEF RepositorySpec, HistoryKept

\* Reads (paging, detail, all, search, findByIds and their joined relations)
\* return only rows in the scope of their request or of a read its audited grant
\* covers. Committed mutations touch only such rows, or the row whose id a create
\* was given; no update, delete or restore moves a row to another scope; and a
\* transaction that commits one batch commits all of it.
THEOREM Scope == RepositoryConstants => (RepositorySpec => ScopeKept)
<1> SUFFICES ASSUME RepositoryConstants PROVE RepositorySpec => ScopeKept
    OBVIOUS
<1>1. Inv => ReadsInScope
    <2>1. ASSUME \A c \in Callers : SeenInScope(tx[c]) PROVE ReadsInScope
        BY <2>1 DEF SeenInScope, ReadsInScope
    <2> QED
        BY <2>1 DEF Inv, TxInv
<1>2. Inv /\ [RepositoryNext]_repositoryVars => [ScopeStep]_repositoryVars
    BY StepScope
<1> QED
    BY InvInit, InvStep, <1>1, <1>2, PTL DEF RepositorySpec, ScopeKept
=============================================================================
