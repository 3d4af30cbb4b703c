-------------------------------- MODULE Paging --------------------------------
(***************************************************************************)
(* A client that walks through the pages of one record search by the       *)
(* "next" and "prev" links of the answers, while other callers insert,     *)
(* replace and delete records and an administrator reconfigures the        *)
(* catalog: SearchRecords of server/records.go with recordSearch and links *)
(* of server/helpers.go, internal/cursor, and SearchRecords and            *)
(* pageRecords of postgres/search.go.                                      *)
(*                                                                         *)
(* The handler reads the catalog, normalises the sort order and decodes    *)
(* the cursor; the store then reads catalog, count and page in one         *)
(* REPEATABLE READ transaction, whose statements are steps of their own    *)
(* and see the snapshot that the first one has taken.                      *)
(***************************************************************************)
EXTENDS Keyset, FiniteSets

CONSTANTS
    Ids,         \* record identifiers, as ranks in their order
    Rows,        \* rows: what each expression yields for a record
    Configs,     \* catalog configurations: sortables and default order
    Filters,     \* Filters: sets of rows, what a request's predicates match
    Sorts,       \* values of the sortby parameter
    Limits,      \* values of the limit parameter
    WriteBudget  \* how many writes happen at most (a bound)

Searches == [sortby : Sorts, filter : Filters, limit : Limits]
Tokens   == [sort : Seq(Fields), scope : [sort : Seq(Fields), filter : Filters],
             direction : {"next", "prev"}, values : Seq(Values)]
RowsOf(id) == {row \in Rows : row["r.id"] = id}
Tables == {t \in [Ids -> Rows \cup {Null}] :
              \A id \in Ids : t[id] # Null => t[id]["r.id"] = id}

ASSUME IdsAssumption     == Ids \subseteq Int /\ IsFiniteSet(Ids)
ASSUME RowsAssumption    ==
    /\ Rows \subseteq [Exprs -> Values]
    /\ \A row \in Rows, e \in NotNullExprs : row[e] # Null
ASSUME ConfigsAssumption ==
    Configs \subseteq [sortables : [Props -> Exprs \cup {Null}], defaultSort : Seq(Fields)]
ASSUME SearchAssumption  ==
    /\ Filters \subseteq SUBSET Rows
    /\ Sorts \subseteq Seq(Fields)
    /\ Limits \subseteq Nat
    /\ WriteBudget \in Nat
ASSUME NoneAssumption    == Null \notin Rows \cup Tokens

VARIABLES
    config,   \* the catalog row: sortables and default order
    table,    \* the records of the catalog
    writes,   \* how many writes are left
    search,   \* the request in progress
    page,     \* the answer the client has, Null before the first one
    walk,     \* history: what has been delivered since the first page
    origin    \* history: the page that the present one was reached from

vars == <<config, table, writes, search, page, walk, origin>>

Idle == [pc |-> "idle", params |-> Null, sort |-> <<>>, position |-> Null,
         columns |-> <<>>, snap |-> Null, matched |-> Null]

Key(columns, row) == [i \in 1..Len(columns) |-> row[columns[i].expr]]

Matching(snap, filter) == {id \in Ids : snap[id] # Null /\ snap[id] \in filter}

Live == {id \in Ids : table[id] # Null}

-----------------------------------------------------------------------------
(* Cursors.                                                                *)

\* cursor.Scope: the request without cursor, limit and facets.
Scope(sort, filter) == [sort |-> sort, filter |-> filter]

\* cursor.Encode.
Token(sort, filter, direction, values) ==
    [sort |-> sort, scope |-> Scope(sort, filter), direction |-> direction,
     values |-> values]

\* cursor.Decode of a token that this service has signed.
Accepted(token, sort, filter) ==
    /\ token.scope = Scope(sort, filter)
    /\ token.sort = sort

Links(answer) ==
    IF answer = Null THEN {} ELSE {answer.next, answer.prev} \ {Null}

-----------------------------------------------------------------------------
(* A request.                                                              *)

\* The handler: app.Catalog, recordSearch.  Anything it refuses is answered
\* with a problem and changes nothing.
Ask(params, token) ==
    LET sort == NormalizeSort(params.sortby, config.defaultSort) IN
    /\ search.pc = "idle"
    /\ ~ Refused(params.sortby, config.defaultSort, config.sortables)
    /\ token # Null => Accepted(token, sort, params.filter)
    /\ search' = [Idle EXCEPT !.pc = "count", !.params = params, !.sort = sort,
                              !.position = token]
    /\ UNCHANGED <<config, table, writes, page, walk, origin>>

\* normalizeSort in the store refuses what the handler's has let through.
SearchFails ==
    /\ search.pc = "count"
    /\ Refused(search.sort, <<>>, config.sortables)
    /\ search' = Idle
    /\ UNCHANGED <<config, table, writes, page, walk, origin>>

FirstPage == search.position = Null
Forward   == search.position # Null => search.position.direction = "next"

\* The transaction's first statements: getCatalog takes the snapshot, and the
\* matching records are counted.  A walk begins with a request that has no
\* cursor, and goes on as long as it follows "next" links.
Count ==
    /\ search.pc = "count"
    /\ ~ Refused(search.sort, <<>>, config.sortables)
    /\ search' = [search EXCEPT !.pc = "page", !.snap = table,
                      !.columns = SortColumns(search.sort, config.sortables),
                      !.matched = Cardinality(Matching(table, search.params.filter))]
    /\ walk' = IF FirstPage THEN [seen |-> {}, again |-> {}, steady |-> Live]
               ELSE IF Forward THEN walk
               ELSE [seen |-> {}, again |-> {}, steady |-> {}]
    /\ UNCHANGED <<config, table, writes, page, origin>>

Direction == IF FirstPage THEN "next" ELSE search.position.direction

\* Mutant: READ COMMITTED, every statement sees the latest commits.
SnapshotNow == table

\* REPEATABLE READ: every statement sees the snapshot of the first.
Snapshot == search.snap

\* Mutant: a backward page has a next page only if it was full.
HasNextIfMore(more) == more

\* hasNext and hasPrev of pageRecords.
HasNext(more) == IF Direction = "prev" THEN TRUE ELSE more
HasPrev(more) == IF FirstPage THEN FALSE
                 ELSE IF Direction = "next" THEN TRUE ELSE more

\* Mutant: the rows of a backward page are not put back in order.
EndsUnreversed(low, high) == [first |-> low, last |-> high]

\* The first and the last row of the page: reverseRecords turns round what
\* a backward page has fetched.
Ends(low, high) ==
    IF Direction = "prev" THEN [first |-> high, last |-> low]
                          ELSE [first |-> low, last |-> high]

\* The order that the page is fetched in.
Order == Effective(search.columns, Direction)
Sorted(a, b) == OrderedBefore(Order, NullsLast(Direction),
                              Key(Order, Snapshot[a]), Key(Order, Snapshot[b]))

\* The records that the page may show.
After == {id \in Matching(Snapshot, search.params.filter) :
             FirstPage \/ KeysetPredicate(Order, NullsLast(Direction),
                              search.position.values, Key(Order, Snapshot[id]))}

\* ORDER BY and LIMIT: one row more than the limit is fetched and dropped.
\* Rows that ORDER BY does not tell apart come in any order.
Fetched(rows, after, more) ==
    /\ IF more THEN Cardinality(rows) = search.params.limit ELSE rows = after
    /\ \A id \in rows, other \in after \ rows : ~ Sorted(other, id)

Link(offered, direction, id) ==
    IF offered THEN Token(search.sort, search.params.filter, direction,
                          Key(search.columns, Snapshot[id]))
    ELSE Null

Answer(rows, ends, next, prev) ==
    [rows |-> rows, first |-> ends.first, last |-> ends.last, next |-> next,
     prev |-> prev, direction |-> Direction, params |-> search.params,
     columns |-> search.columns, snap |-> Snapshot, matched |-> search.matched]

\* links() offers a cursor to either side only from a page that has rows.
PageRecords ==
    /\ search.pc = "page"
    /\ LET after == After
           more  == Cardinality(after) > search.params.limit
       IN \E rows \in SUBSET after :
           /\ Fetched(rows, after, more)
           /\ \/ rows = {} /\ page' = Answer(rows, [first |-> Null, last |-> Null], Null, Null)
              \/ \E low, high \in rows :
                     /\ \A id \in rows : ~ Sorted(id, low) /\ ~ Sorted(high, id)
                     /\ low = high => rows = {low}
                     /\ LET ends == Ends(low, high) IN
                        page' = Answer(rows, ends, Link(HasNext(more), "next", ends.last),
                                                   Link(HasPrev(more), "prev", ends.first))
           /\ walk' = [walk EXCEPT !.seen = @ \cup rows,
                                   !.again = @ \cup (walk.seen \cap rows)]
    /\ origin' = IF FirstPage THEN Null ELSE [from |-> page, by |-> Direction]
    /\ search' = Idle
    /\ UNCHANGED <<config, table, writes>>

-----------------------------------------------------------------------------
(* Everyone else.                                                          *)

\* A record is inserted, replaced or deleted.
Write(id) ==
    /\ writes > 0
    /\ writes' = writes - 1
    /\ \E row \in RowsOf(id) \cup {Null} :
           /\ row # table[id]
           /\ table' = [table EXCEPT ![id] = row]
    /\ walk' = [walk EXCEPT !.steady = @ \ {id}]
    /\ UNCHANGED <<config, search, page, origin>>

\* ApplyCatalog with other sortables or another default order.
Reconfigure ==
    /\ writes > 0
    /\ writes' = writes - 1
    /\ \E new \in Configs \ {config} : config' = new
    /\ walk' = [walk EXCEPT !.steady = {}]
    /\ UNCHANGED <<table, search, page, origin>>

\* A client asks without a cursor, or with one of the answer it has.
Request ==
    \E params \in Searches : \E token \in Links(page) \cup {Null} : Ask(params, token)

Init ==
    /\ config \in Configs
    /\ table \in Tables
    /\ writes = WriteBudget
    /\ search = Idle
    /\ page = Null
    /\ walk = [seen |-> {}, again |-> {}, steady |-> {}]
    /\ origin = Null

Next ==
    \/ Request \/ SearchFails \/ Count \/ PageRecords
    \/ \E id \in Ids : Write(id)
    \/ Reconfigure

Spec == Init /\ [][Next]_vars

-----------------------------------------------------------------------------
(* Properties.                                                             *)

Requests == [pc : {"idle", "count", "page"}, params : Searches \cup {Null},
             sort : Seq(Fields), position : Tokens \cup {Null},
             columns : Seq(Columns), snap : Tables \cup {Null}, matched : Nat \cup {Null}]

\* The type invariant.
TypeOK ==
    /\ config \in Configs
    /\ table \in Tables
    /\ writes \in Nat
    /\ search \in Requests
    /\ search.pc # "idle" => search.params \in Searches
    /\ search.pc = "page" => search.snap \in Tables
    /\ Links(page) \subseteq Tokens
    /\ walk \in [seen : SUBSET Ids, again : SUBSET Ids, steady : SUBSET Ids]

\* A client that follows the "next" links to the end is given every matching
\* record that was there when it began and that nobody has touched since,
\* whatever happens to the other records, those at the page ends included.
NothingSkipped ==
    /\ page # Null /\ page.direction = "next" /\ page.next = Null
    /\ page.params.limit > 0 /\ search.pc # "page"
    => \A id \in walk.steady : table[id] \in page.params.filter => id \in walk.seen

\* No untouched record is delivered twice on the way.
NothingTwice == walk.again \cap walk.steady = {}

Answers == search.pc = "page" /\ search'.pc = "idle"

\* A page with rows that has no "next" link ends where the records end, one
\* without a "prev" link begins where they begin.
MissingLinkMeansEnd ==
    [][Answers /\ page'.rows # {} =>
        LET before(a, b) == OrderedBefore(search.columns, TRUE,
                Key(search.columns, search.snap[a]), Key(search.columns, search.snap[b]))
        IN \A id \in Matching(search.snap, search.params.filter) :
               /\ page'.next = Null => ~ before(page'.last, id)
               /\ page'.prev = Null => ~ before(id, page'.first)]_vars

\* One step forward and one step back, or the other way round, ends on the
\* same page when the records are the same.
BackAndForth ==
    [][LET same(p) == /\ p.snap = search.snap
                      /\ p.columns = search.columns
                      /\ p.params.limit = search.params.limit
       IN Answers /\ ~ FirstPage /\ origin # Null /\ origin.by # Direction
              /\ same(page) /\ same(origin.from)
          => page'.rows = origin.from.rows]_vars

\* numberMatched counts the records that the pages show: an answer that is
\* the first and the last page shows as many as it counts.
CountAgrees ==
    page # Null /\ page.prev = Null /\ page.next = Null /\ page.direction = "next"
        /\ page.params.limit > 0 /\ page.rows # {}
    => page.matched = Cardinality(page.rows)
=============================================================================
