----------------------------- MODULE ActionHistory -----------------------------
(***************************************************************************)
(* ActionHistoryService.all: a client pages through the history of one      *)
(* resource while mutations append rows to it. A request validates, captures *)
(* its tenant, awaits the read policy and then queries one page. Rows that   *)
(* share their createdAt, as those of one transaction do, come in any order, *)
(* and in another one in the next query. Numbers of a query count halves, so *)
(* that a fraction can be asked for. The total is a count of its own and     *)
(* left out.                                                                 *)
(***************************************************************************)
EXTENDS Integers, Sequences, Functions, FiniteSets

CONSTANTS
    Unspecified, Malformed,   \* an absent value; one that is not finite, or malformed
    HistoryTenants,
    Resources,        \* tables and ids; Malformed is a malformed one
    PageNumbers, PageSizes,   \* what a query may ask for, in halves
    MaxPageSizes,     \* what security.maxPageSize may be, in halves
    DefaultMax, AbsoluteMax, MaxOffset,
    Stamps,           \* createdAt of the rows that are written
    MaxHistory        \* bound: rows of a history

VARIABLES
    history,   \* rows: [id, tenant, resource, createdAt]
    maxSize,   \* security.maxPageSize
    context,   \* [tenant, custom]: the tenant of the context and its custom tenantCode
    asked,     \* the request: Unspecified or [pc, query, tenant]
    answer,    \* Unspecified, NotFound, ServerError or [items, skip, take, tenant, resource]
    session    \* Unspecified, or a client that pages to the end: [size, page, resource, before, got, ended]

pagesVars == <<history, maxSize, context, asked, answer, session>>

\* Numbers are integers or not numbers at all, and the ceilings are positive.
PagesConstants ==
    /\ {Unspecified, Malformed} \cap Int = {} /\ Stamps \subseteq Int
    /\ PageNumbers \cup PageSizes \cup MaxPageSizes \subseteq Int \cup {Unspecified, Malformed}
    /\ DefaultMax \in Nat /\ AbsoluteMax \in Nat \ {0} /\ MaxOffset \in Nat

NotFound == [status |-> 404]

ServerError == [status |-> 500]

-----------------------------------------------------------------------------
trunc(h) == IF h >= 0 THEN h \div 2 ELSE -((-h) \div 2)

Lesser(x, y) == IF x < y THEN x ELSE y

Greater(x, y) == IF x > y THEN x ELSE y

Finite(h) == h \notin {Unspecified, Malformed}

configuredMax == Lesser(Greater(1, IF Finite(maxSize) THEN trunc(maxSize) ELSE DefaultMax), AbsoluteMax)

pageSize(query) == IF Finite(query.size) THEN Lesser(Greater(1, trunc(query.size)), configuredMax) ELSE configuredMax

pageNumber(query) ==
    Lesser(IF Finite(query.page) THEN Greater(0, trunc(query.page)) ELSE 0, MaxOffset \div pageSize(query))

\* Mutant of skip: the offset is computed with the size that was asked for.
skipAsked(query) ==
    Lesser(MaxOffset, pageNumber(query) * (IF Finite(query.size) THEN Greater(1, trunc(query.size)) ELSE configuredMax))

skip(query) == pageNumber(query) * pageSize(query)

currentTenant == IF context.tenant # Unspecified THEN context.tenant ELSE context.custom

\* The rows of one resource of one tenant.
HistoryOf(tenant, resource) == {r \in history : r.tenant = tenant /\ r.resource = resource}

\* createdAt DESC: newest first, with nothing to tell the rows of one stamp apart.
Orders(S) ==
    {all \in Bijection(1 .. Cardinality(S), S) :
        \A i, j \in 1 .. Cardinality(S) : i < j => all[i].createdAt >= all[j].createdAt}

\* A request, of the client that pages or another: an invalid query and a missing
\* or blank tenant answer 404 before the policy is asked.
Ask(query) ==
    /\ asked = Unspecified
    /\ IF query.resource = Malformed \/ currentTenant \in {Unspecified, Malformed}
       THEN answer' = NotFound /\ UNCHANGED asked
       ELSE asked' = [pc |-> "policy", query |-> query, tenant |-> currentTenant] /\ answer' = Unspecified
    /\ UNCHANGED <<history, maxSize, context, session>>

\* The policy decides; anything but true is a 404, and what it throws is thrown on.
authorizeRead(decision) ==
    /\ asked # Unspecified /\ asked.pc = "policy"
    /\ IF decision = "true" THEN asked' = [asked EXCEPT !.pc = "query"] /\ UNCHANGED answer
       ELSE asked' = Unspecified /\ answer' = IF decision = "throws" THEN ServerError ELSE NotFound
    /\ UNCHANGED <<history, maxSize, context, session>>

findAndCount ==
    /\ asked # Unspecified /\ asked.pc = "query"
    /\ \E all \in Orders(HistoryOf(asked.tenant, asked.query.resource)) :
          LET from == skip(asked.query)
              take == pageSize(asked.query)
          IN  answer' = [items |-> SubSeq(all, from + 1, Lesser(from + take, Len(all))), skip |-> from, take |-> take,
                         tenant |-> asked.tenant, resource |-> asked.query.resource]
    /\ asked' = Unspecified
    /\ UNCHANGED <<history, maxSize, context, session>>

\* Mutations record rows, not always in the order of their time stamps, which
\* are those of their transactions.
Record(tenant, resource, stamp) ==
    /\ Cardinality(history) < MaxHistory
    /\ LET tied == {r \in HistoryOf(tenant, resource) : r.createdAt = stamp}
       IN  history' = history \cup {[id |-> Cardinality(tied), tenant |-> tenant, resource |-> resource, createdAt |-> stamp]}
    /\ UNCHANGED <<maxSize, context, asked, answer, session>>

\* The context of the running request is changed while it awaits.
SetTenant(tenant) ==
    /\ asked # Unspecified /\ session = Unspecified
    /\ context' = [context EXCEPT !.tenant = tenant]
    /\ UNCHANGED <<history, maxSize, asked, answer, session>>

\* A client begins to page through a history, and asks for page after page of the
\* same size until it gets an empty one.
Begin(size, resource) ==
    /\ session = Unspecified /\ asked = Unspecified /\ answer = Unspecified /\ context.tenant \notin {Unspecified, Malformed}
    /\ session' = [size |-> size, page |-> 0, resource |-> resource, got |-> {}, ended |-> FALSE,
                   before |-> HistoryOf(context.tenant, resource)]
    /\ asked' = [pc |-> "policy", query |-> [resource |-> resource, page |-> 0, size |-> size], tenant |-> currentTenant]
    /\ UNCHANGED <<history, maxSize, context, answer>>

Continue ==
    /\ session # Unspecified /\ ~session.ended /\ asked = Unspecified /\ answer \notin {Unspecified, NotFound, ServerError}
    /\ session.page <= MaxOffset
    /\ session' = [session EXCEPT !.page = @ + 1, !.got = @ \cup Range(answer.items), !.ended = answer.items = <<>>]
    /\ asked' = IF answer.items = <<>> THEN Unspecified
                  ELSE [pc |-> "policy", tenant |-> currentTenant,
                        query |-> [resource |-> session.resource, page |-> 2 * (session.page + 1), size |-> session.size]]
    /\ answer' = Unspecified
    /\ UNCHANGED <<history, maxSize, context>>

PagesInit ==
    /\ history = {} /\ maxSize \in MaxPageSizes /\ asked = Unspecified /\ answer = Unspecified /\ session = Unspecified
    /\ context \in [tenant : HistoryTenants \cup {Unspecified, Malformed}, custom : HistoryTenants \cup {Unspecified}]

PagesNext ==
    \/ \E resource \in Resources \cup {Malformed}, page \in PageNumbers, size \in PageSizes :
           session = Unspecified /\ answer = Unspecified /\ Ask([resource |-> resource, page |-> page, size |-> size])
    \/ \E decision \in {"true", "false", "undefined", "throws"} : authorizeRead(decision)
    \/ findAndCount
    \/ \E tenant \in HistoryTenants, resource \in Resources, stamp \in Stamps : Record(tenant, resource, stamp)
    \/ \E tenant \in HistoryTenants : SetTenant(tenant)
    \/ \E size \in PageSizes, resource \in Resources : Begin(size, resource)
    \/ Continue

PagesSpec == PagesInit /\ [][PagesNext]_pagesVars

-----------------------------------------------------------------------------
HasPage == answer \notin {Unspecified, NotFound, ServerError}

\* The rows of an answer belong to the resource that was asked for and to the
\* tenant the policy was asked about, although the context changed meanwhile.
ScopedRows ==
    HasPage => \A i \in DOMAIN answer.items : /\ answer.items[i].tenant = answer.tenant
                                               /\ answer.items[i].resource = answer.resource

\* No query reads further than the largest offset, or more rows than the
\* configured and the absolute maximum, whatever numbers it and the options have.
PageBounded ==
    HasPage => /\ answer.skip \in 0 .. MaxOffset /\ answer.take \in 1 .. AbsoluteMax
                /\ (Finite(maxSize) /\ maxSize >= 2) => answer.take <= maxSize \div 2

\* Whether another row shares the stamp of r.
Tied(S, r) == \E q \in S : q # r /\ q.createdAt = r.createdAt

\* A client that pages until an empty page has seen every row that was there when
\* it began and shares its createdAt with no other row of the resource, although
\* rows are inserted at any position meanwhile, tied ones among them, as long as
\* the history fits below the largest offset. (Rows of one stamp may change places
\* between two pages.)
PagesCover ==
    (session # Unspecified /\ session.ended /\ Cardinality(history) <= MaxOffset) =>
       \A r \in session.before \ session.got : Tied(HistoryOf(r.tenant, r.resource), r)

\* A client that pages to the end has seen every untied entry that was there when
\* it began, in pages within the maxima, of the tenant it was authorized for.
HistoryPages == ScopedRows /\ PageBounded /\ PagesCover
=============================================================================
