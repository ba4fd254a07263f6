----------------------------- MODULE FilterQuery -----------------------------
(***************************************************************************)
(* core/orm/utils/filter-query-builder.ts and the paging request of         *)
(* BaseRepository: client filters are cleaned, joined with the scope        *)
(* filters and translated to SQL. SQL conditions are three-valued: a row is *)
(* returned when the condition is "T", not when it is "F" or "N" (NULL).    *)
(* A request builds its list of filters one by one against one row.         *)
(***************************************************************************)
EXTENDS Integers, Sequences, FiniteSets

CONSTANTS
    Values,      \* values of the scalar columns
    Leaves,      \* leaf filters a request may contain
    GroupLeaves, \* those that groups are made of
    MaxFilters,  \* bound: filters of one request
    ScopeFilters,\* what buildScopeFilters adds
    Like,        \* Like[kind]: pairs <<text, operand>> a LIKE pattern matches
    Entities,    \* Entities[e]: [cols |-> property names, rels |-> property -> entity]
    Paths        \* field paths, as sequences of property names

VARIABLES
    row,       \* a row: scalar columns a, b and org, array column tags
    filters,   \* the request's filters
    order      \* the path it sorts by

vars == <<row, filters, order>>

Null == -1

NullArray == [null |-> TRUE, elems |-> {}]

\* A leaf filter is [op, neg, field, given, data, ref]: neg is the NOT_ form of
\* the operator; given is FALSE when its data is nullish; ref is the operand
\* column of dataType "field".  A group combines filters.
Group(op, data) == [op |-> op, data |-> data]

IsGroup(f) == f.op \in {"AND", "OR"}

Groups == {Group(op, s) : op \in {"AND", "OR"},
                          s \in {<<>>} \cup {<<f>> : f \in GroupLeaves} \cup {<<f, g>> : f, g \in GroupLeaves}}

-----------------------------------------------------------------------------
(* Three-valued logic of the database *)

Bool(b) == IF b THEN "T" ELSE "F"

Not(v) == CASE v = "T" -> "F" [] v = "F" -> "T" [] OTHER -> "N"

AllOf(S) == IF "F" \in S THEN "F" ELSE IF "N" \in S THEN "N" ELSE "T"

AnyOf(S) == IF "T" \in S THEN "T" ELSE IF "N" \in S THEN "N" ELSE "F"

Compare(op, x, y) ==
    IF x = Null \/ y = Null THEN "N"
    ELSE Bool(CASE op = "EQUAL" -> x = y
                [] op = "LESS_THAN" -> x < y
                [] op = "LESS_OR_EQUAL" -> x <= y
                [] op = "GREATER_THAN" -> x > y
                [] op = "GREATER_OR_EQUAL" -> x >= y
                [] OTHER -> <<x, y>> \in Like[op])

-----------------------------------------------------------------------------
(* prepareFilter *)

\* A leaf survives when it needs no data, or its data and both bounds are given.
KeepLeaf(f) ==
    \/ f.op = "NULL"
    \/ f.given /\ (f.op = "BETWEEN" => \A n \in DOMAIN f.data : f.data[n] # Null)

RECURSIVE prepareFilter(_)
prepareFilter(fs) ==
    IF fs = <<>> THEN <<>>
    ELSE LET f == Head(fs)
             rest == prepareFilter(Tail(fs))
         IN  IF IsGroup(f)
             THEN LET cleaned == prepareFilter(f.data)
                  IN  IF cleaned = <<>> THEN rest ELSE <<[f EXCEPT !.data = cleaned]>> \o rest
             ELSE IF KeepLeaf(f) THEN <<f>> \o rest ELSE rest

-----------------------------------------------------------------------------
(* applyFilterToQuery *)

\* Mutant of applyColumnOperand: NOT_EQUAL without COALESCE.
applyColumnOperandPlain(f, r) ==
    LET x == r[f.field]
        y == r[f.ref]
    IN  IF f.op = "IN" THEN Bool((x \in y.elems) # f.neg)
        ELSE IF f.neg THEN Not(Compare(f.op, x, y)) ELSE Compare(f.op, x, y)

\* EQUAL and IN on another column are null-safe, and so are their negations;
\* NOT_IN also requires the array. The other operators follow SQL.
applyColumnOperand(f, r) ==
    LET x == r[f.field]
        y == r[f.ref]
        member == x \in y.elems
    IN  CASE f.op = "EQUAL" -> Bool((x = y) # f.neg)
          [] f.op = "IN" -> Bool(IF f.neg THEN ~y.null /\ ~member ELSE member)
          [] OTHER -> IF f.neg THEN Not(Compare(f.op, x, y)) ELSE Compare(f.op, x, y)

\* A comparison with literal data: BETWEEN is inclusive, IN [] is 1 = 0 and
\* NOT_IN [] adds no condition.
applyLiteral(f, r) ==
    LET x == r[f.field]
        v == CASE f.op = "NULL" -> Bool(x = Null)
               [] f.op = "BETWEEN" -> AllOf({Compare("GREATER_OR_EQUAL", x, f.data[1]),
                                           Compare("LESS_OR_EQUAL", x, f.data[2])})
               [] f.op = "IN" -> AnyOf({Compare("EQUAL", x, f.data[n]) : n \in DOMAIN f.data})
               [] OTHER -> Compare(f.op, x, f.data[1])
    IN  IF f.neg THEN Not(v) ELSE v

\* A group is bracketed, and so is each of its members; an empty bracket is
\* 1 = 1 to TypeORM.
RECURSIVE applyFilterToQuery(_, _)
applyFilterToQuery(f, r) ==
    IF IsGroup(f)
    THEN LET vs == {applyFilterToQuery(f.data[n], r) : n \in DOMAIN f.data}
         IN  IF f.data = <<>> THEN "T" ELSE IF f.op = "OR" THEN AnyOf(vs) ELSE AllOf(vs)
    ELSE IF f.op # "NULL" /\ ~f.given THEN "T"
    ELSE IF f.ref # "" THEN applyColumnOperand(f, r)
    ELSE applyLiteral(f, r)

\* createBaseQueryBuilder: all filters in one bracket, joined by AND.
Where(fs, r) == AllOf({applyFilterToQuery(fs[n], r) : n \in DOMAIN fs})

\* addonFilter: the cleaned filters of the request, then the scope filters.
addonFilter(fs) == prepareFilter(fs) \o ScopeFilters

Returned(fs, r) == Where(addonFilter(fs), r) = "T"

-----------------------------------------------------------------------------
(* Columns *)

Error == <<"error">>

\* The alias a join gets: its path with underscores, the root being "e".
Column(alias, property) == <<alias, property>>

\* resolveColumnName: an own column, a column of one relation, and otherwise
\* the path itself as a column name.
resolveColumnName(p) ==
    IF Len(p) = 1 THEN Column(<<>>, p[1])
    ELSE IF p[1] \in DOMAIN Entities["root"].rels THEN Column(<<p[1]>>, SubSeq(p, 2, Len(p)))
    ELSE Column(<<>>, p)

RECURSIVE EntityAt(_, _)
EntityAt(e, p) ==
    IF p = <<>> THEN e
    ELSE IF Head(p) \notin DOMAIN Entities[e].rels THEN "none"
    ELSE EntityAt(Entities[e].rels[Head(p)], Tail(p))

\* resolveSortColumn: every relation of the path and the column must exist.
resolveSortColumn(p) ==
    LET entity == EntityAt("root", SubSeq(p, 1, Len(p) - 1))
    IN  IF entity = "none" THEN Error
        ELSE IF p[Len(p)] \notin Entities[entity].cols THEN Error
        ELSE Column(SubSeq(p, 1, Len(p) - 1), p[Len(p)])

-----------------------------------------------------------------------------

Init ==
    /\ row \in [a : Values \cup {Null}, b : Values \cup {Null}, org : Values,
                tags : {NullArray} \cup [null : {FALSE}, elems : SUBSET (Values \cup {Null})]]
    /\ filters = <<>>
    /\ order = <<>>

\* The client adds a filter to its request. Filters and order do not depend on
\* each other, so a request of the model has one or the other.
addFilter ==
    \E f \in Leaves \cup Groups :
        /\ Len(filters) < MaxFilters /\ order = <<>>
        /\ filters' = Append(filters, f)
        /\ UNCHANGED <<row, order>>

\* The client sorts its request; an unknown path is rejected.
addOrder ==
    \E p \in Paths :
        /\ filters = <<>> /\ resolveSortColumn(p) # Error
        /\ order' = p
        /\ UNCHANGED <<row, filters>>

Next == addFilter \/ addOrder

Spec == Init /\ [][Next]_vars

-----------------------------------------------------------------------------
(* Properties *)

\* No combination of client filters and groups returns a row that the scope
\* filters addonFilter appends do not select.
ScopeHolds == Returned(filters, row) => Where(ScopeFilters, row) = "T"

\* Each filter narrows the request: a row the longer request returns is also
\* returned without its last filter, nullish and empty ones included.
FiltersNarrow ==
    filters' # filters /\ Returned(filters', row) => Returned(filters, row)

\* "IN [] must become an always-false SQL predicate" (prepareFilter): a request
\* with an empty membership among its conjuncts returns nothing.
EmptyMembership ==
    Returned(filters, row) =>
        \A n \in DOMAIN filters :
            ~(filters[n].op = "IN" /\ ~filters[n].neg /\ filters[n].ref = ""
              /\ filters[n].given /\ filters[n].data = <<>>)

Negated(f) == [f EXCEPT !.neg = ~f.neg]

\* An operator and its NOT_ form never return the same row, and one of them
\* does unless a NULL decides: never for equality of two columns, and for the
\* others only when an operand is NULL.
Complement ==
    \A f \in Leaves :
        LET pos == applyFilterToQuery(f, row)
            neg == applyFilterToQuery(Negated(f), row)
        IN  KeepLeaf(f) =>
            /\ ~(pos = "T" /\ neg = "T")
            /\ \/ pos = "T" \/ neg = "T"
               \/ f.ref = "" /\ (row[f.field] = Null \/ \E n \in DOMAIN f.data : f.data[n] = Null)
               \/ f.op = "IN" /\ f.ref # "" /\ row[f.ref].null
               \/ f.op \notin {"IN", "EQUAL"} /\ f.ref # "" /\ Null \in {row[f.field], row[f.ref]}

\* A sort that is accepted on a path of at most one relation names the joined
\* alias and column that a filter on the same path names.
PathsAgree ==
    Len(order) \in {1, 2} =>
        resolveColumnName(order) =
            Column(resolveSortColumn(order)[1],
                   IF Len(order) = 1 THEN order[1] ELSE <<resolveSortColumn(order)[2]>>)
=============================================================================
