---------------------------- MODULE Paging_proofs ----------------------------
(***************************************************************************)
(* What is proved of paging, for any number of records, writes, columns    *)
(* and page sizes.                                                         *)
(*                                                                         *)
(* First, of Keyset: the SQL predicate built from a cursor selects exactly *)
(* the rows that ORDER BY puts after it, the order of a backward page is   *)
(* the reverse of the forward one, and ORDER BY is a strict total order.   *)
(* Then, whatever the sortables are mapped to: the types, what a missing   *)
(* link means, the number of matches.  Last, provided that the sortable    *)
(* "id" is the record identifier: a walk neither skips nor repeats an      *)
(* untouched record, and one step forward and one back is no step.         *)
(***************************************************************************)
EXTENDS Paging, FiniteSetTheorems, WellFoundedInduction, TLAPS

\* The values of a cursor.  A cursor that outlives a reconfiguration may have
\* a NULL for a column that is NOT NULL now.
Positions(columns) == [1..Len(columns) -> Values]

\* The values that a row has in the columns of a search.
Keys(columns) == {key \in Positions(columns) :
                     \A i \in 1..Len(columns) : NonNull(columns[i]) => key[i] # Null}

-----------------------------------------------------------------------------
(* One column.                                                             *)

\* The comparison of the predicate is the order of the column.
LEMMA ComparisonIsOrder ==
    ASSUME NEW column \in Columns, NEW nullsLast \in BOOLEAN,
           NEW value \in Values, NEW x \in Values, NonNull(column) => x # Null
    PROVE  Comparison(column, nullsLast, value, x)
               <=> SortsBefore(column, nullsLast, value, x)
BY NullAssumption DEF Comparison, SortsBefore, Columns, Directions, Values

\* Descending with NULLs first is the reverse of ascending with NULLs last.
LEMMA ColumnReverses ==
    ASSUME NEW column \in Columns, NEW u \in Values, NEW v \in Values
    PROVE  SortsBefore([column EXCEPT !.dir = Opposite(@)], FALSE, u, v)
               <=> SortsBefore(column, TRUE, v, u)
BY NullAssumption DEF SortsBefore, Columns, Directions, Values, Opposite

LEMMA ColumnIrreflexive ==
    ASSUME NEW column \in Columns, NEW nullsLast \in BOOLEAN, NEW u \in Values
    PROVE  ~ SortsBefore(column, nullsLast, u, u)
BY NullAssumption DEF SortsBefore, Columns, Directions, Values

LEMMA ColumnTransitive ==
    ASSUME NEW column \in Columns, NEW nullsLast \in BOOLEAN,
           NEW u \in Values, NEW v \in Values, NEW w \in Values,
           SortsBefore(column, nullsLast, u, v), SortsBefore(column, nullsLast, v, w)
    PROVE  SortsBefore(column, nullsLast, u, w)
BY NullAssumption DEF SortsBefore, Columns, Directions, Values

LEMMA ColumnTotal ==
    ASSUME NEW column \in Columns, NEW nullsLast \in BOOLEAN,
           NEW u \in Values, NEW v \in Values, u # v
    PROVE  SortsBefore(column, nullsLast, u, v) \/ SortsBefore(column, nullsLast, v, u)
BY NullAssumption DEF SortsBefore, Columns, Directions, Values

-----------------------------------------------------------------------------
(* All columns.                                                            *)

\* keysetPredicate of postgres/search.go selects exactly the rows that sort
\* after the cursor in the ORDER BY of the same page, NULLs included.
THEOREM KeysetIsOrder ==
    ASSUME NEW columns \in Seq(Columns), NEW nullsLast \in BOOLEAN,
           NEW values \in Positions(columns), NEW key \in Keys(columns)
    PROVE  KeysetPredicate(columns, nullsLast, values, key)
               <=> OrderedBefore(columns, nullsLast, values, key)
<1>1. ASSUME NEW i \in 1..Len(columns)
      PROVE  Comparison(columns[i], nullsLast, values[i], key[i])
                 <=> SortsBefore(columns[i], nullsLast, values[i], key[i])
  <2>1. columns[i] \in Columns /\ values[i] \in Values /\ key[i] \in Values
    BY DEF Keys, Positions
  <2>2. NonNull(columns[i]) => key[i] # Null
    BY DEF Keys
  <2> QED
    BY <2>1, <2>2, ComparisonIsOrder
<1>2. \A i \in 1..Len(columns) : \A j \in 1..(i - 1) :
          key[j] = values[j] <=> values[j] = key[j]
  OBVIOUS
<1> QED
  BY <1>1, <1>2 DEF KeysetPredicate, OrderedBefore

\* effectiveSort: what a backward page is fetched by is the reverse of the
\* order of the search.
THEOREM BackwardReverses ==
    ASSUME NEW columns \in Seq(Columns), NEW a \in Positions(columns), NEW b \in Positions(columns)
    PROVE  OrderedBefore(Effective(columns, "prev"), NullsLast("prev"), a, b)
               <=> OrderedBefore(columns, TRUE, b, a)
<1>1. Len(Reversed(columns)) = Len(columns)
  BY DEF Reversed
<1>2. ASSUME NEW i \in 1..Len(columns)
      PROVE  SortsBefore(Reversed(columns)[i], FALSE, a[i], b[i])
                 <=> SortsBefore(columns[i], TRUE, b[i], a[i])
  <2>1. columns[i] \in Columns /\ a[i] \in Values /\ b[i] \in Values
    BY DEF Positions
  <2>2. Reversed(columns)[i] = [columns[i] EXCEPT !.dir = Opposite(@)]
    BY DEF Reversed
  <2> QED
    BY <2>1, <2>2, ColumnReverses
<1> QED
  BY <1>1, <1>2 DEF OrderedBefore, Effective, NullsLast

\* ORDER BY never puts a key before itself.
THEOREM OrderIrreflexive ==
    ASSUME NEW columns \in Seq(Columns), NEW nullsLast \in BOOLEAN,
           NEW a \in Positions(columns)
    PROVE  ~ OrderedBefore(columns, nullsLast, a, a)
<1>1. ASSUME NEW i \in 1..Len(columns)
      PROVE  ~ SortsBefore(columns[i], nullsLast, a[i], a[i])
  <2>1. columns[i] \in Columns /\ a[i] \in Values
    BY DEF Positions
  <2> QED
    BY <2>1, ColumnIrreflexive
<1> QED
  BY <1>1 DEF OrderedBefore

\* ORDER BY is transitive.
THEOREM OrderTransitive ==
    ASSUME NEW columns \in Seq(Columns), NEW nullsLast \in BOOLEAN,
           NEW a \in Positions(columns), NEW b \in Positions(columns), NEW c \in Positions(columns),
           OrderedBefore(columns, nullsLast, a, b), OrderedBefore(columns, nullsLast, b, c)
    PROVE  OrderedBefore(columns, nullsLast, a, c)
<1>1. PICK i \in 1..Len(columns) :
          /\ SortsBefore(columns[i], nullsLast, a[i], b[i])
          /\ \A j \in 1..(i - 1) : a[j] = b[j]
  BY DEF OrderedBefore
<1>2. PICK k \in 1..Len(columns) :
          /\ SortsBefore(columns[k], nullsLast, b[k], c[k])
          /\ \A j \in 1..(k - 1) : b[j] = c[j]
  BY DEF OrderedBefore
<1>3. \A m \in 1..Len(columns) : columns[m] \in Columns
          /\ a[m] \in Values /\ b[m] \in Values /\ c[m] \in Values
  BY DEF Positions
<1>4. CASE i < k
  <2>1. SortsBefore(columns[i], nullsLast, a[i], c[i])
    BY <1>1, <1>2, <1>4
  <2>2. \A j \in 1..(i - 1) : a[j] = c[j]
    BY <1>1, <1>2, <1>4
  <2> QED
    BY <2>1, <2>2 DEF OrderedBefore
<1>5. CASE i = k
  <2>1. SortsBefore(columns[i], nullsLast, a[i], c[i])
    BY <1>1, <1>2, <1>3, <1>5, ColumnTransitive
  <2>2. \A j \in 1..(i - 1) : a[j] = c[j]
    BY <1>1, <1>2, <1>5
  <2> QED
    BY <2>1, <2>2 DEF OrderedBefore
<1>6. CASE i > k
  <2>1. SortsBefore(columns[k], nullsLast, a[k], c[k])
    BY <1>1, <1>2, <1>6
  <2>2. \A j \in 1..(k - 1) : a[j] = c[j]
    BY <1>1, <1>2, <1>6
  <2> QED
    BY <2>1, <2>2 DEF OrderedBefore
<1> QED
  BY <1>4, <1>5, <1>6

\* ORDER BY leaves no two keys unordered: this is where the tie-breaker makes
\* paging deterministic, because rows with different identifiers have
\* different keys.
THEOREM OrderTotal ==
    ASSUME NEW columns \in Seq(Columns), NEW nullsLast \in BOOLEAN,
           NEW a \in Positions(columns), NEW b \in Positions(columns), a # b
    PROVE  OrderedBefore(columns, nullsLast, a, b) \/ OrderedBefore(columns, nullsLast, b, a)
<1> DEFINE D == {i \in 1..Len(columns) : a[i] # b[i]}
<1>1. \E i \in 1..Len(columns) : a[i] # b[i]
  BY DEF Positions
<1>2. D # {} /\ D \in SUBSET Nat
  BY <1>1
<1>3. PICK i \in D : \A j \in D : i <= j
  <2> DEFINE R == {ss \in Nat \X Nat : ss[1] < ss[2]}
  <2>1. IsWellFoundedOn(R, Nat)
    BY NatLessThanWellFounded, Zenon DEF OpToRel
  <2>2. PICK n \in D : \A m \in D : ~ (<<m, n>> \in R)
    <3> HIDE DEF D, R
    <3> QED
      BY <1>2, <2>1, WFMin, Zenon
  <2>3. \A m \in D : <<m, n>>[1] = m /\ <<m, n>>[2] = n /\ <<m, n>> \in Nat \X Nat
    OBVIOUS
  <2>4. \A m \in D : ~ (m < n)
    BY <2>2, <2>3
  <2> QED
    BY <2>4
<1>4. \A j \in 1..(i - 1) : a[j] = b[j] /\ b[j] = a[j]
  BY <1>3
<1>5. columns[i] \in Columns /\ a[i] \in Values /\ b[i] \in Values /\ a[i] # b[i]
  BY DEF Positions
<1>6. SortsBefore(columns[i], nullsLast, a[i], b[i])
          \/ SortsBefore(columns[i], nullsLast, b[i], a[i])
  BY <1>5, ColumnTotal
<1> QED
  BY <1>4, <1>6 DEF OrderedBefore

-----------------------------------------------------------------------------
(* Requests, cursors and pages, whatever the sortables are mapped to.      *)

\* Key a comes before key b for a page that is read in this direction.
Ahead(direction, columns, a, b) ==
    IF direction = "next" THEN OrderedBefore(columns, TRUE, a, b)
    ELSE OrderedBefore(columns, TRUE, b, a)

Back(direction) == IF direction = "next" THEN "prev" ELSE "next"

\* The side of a page that it was entered at, and the one that leads on.
Near(p, direction) == IF direction = "next" THEN p.first ELSE p.last
Far(p, direction)  == Near(p, Back(direction))
LinkOf(p, direction) == IF direction = "next" THEN p.next ELSE p.prev

\* A cursor has a value for each field of its sort order, and the request that
\* brings it has that sort order.
CursorsFit ==
    /\ \A t \in Links(page) : HasId(t.sort) /\ Len(t.values) = Len(t.sort)
    /\ search.pc # "idle" =>
           /\ HasId(search.sort)
           /\ search.position # Null => Len(search.position.values) = Len(search.sort)
    /\ search.pc = "page" => Len(search.columns) = Len(search.sort)

Counted ==
    search.pc = "page" =>
        search.matched = Cardinality(Matching(search.snap, search.params.filter))

\* The inductive invariant of the requests.
Base == TypeOK /\ CursorsFit /\ Counted

LEMMA AheadAsFetched ==
    ASSUME NEW direction \in {"next", "prev"}, NEW columns \in Seq(Columns),
           NEW a \in Positions(columns), NEW b \in Positions(columns)
    PROVE  OrderedBefore(Effective(columns, direction), NullsLast(direction), a, b)
               <=> Ahead(direction, columns, a, b)
<1>1. CASE direction = "next"
  BY <1>1 DEF Effective, NullsLast, Ahead
<1>2. CASE direction = "prev"
  BY <1>2, BackwardReverses DEF Ahead
<1> QED
  BY <1>1, <1>2

LEMMA AheadTurned ==
    ASSUME NEW direction \in {"next", "prev"}, NEW columns, NEW a, NEW b
    PROVE  Ahead(Back(direction), columns, a, b) <=> Ahead(direction, columns, b, a)
BY DEF Ahead, Back

LEMMA AheadIrreflexive ==
    ASSUME NEW direction \in {"next", "prev"}, NEW columns \in Seq(Columns),
           NEW a \in Positions(columns)
    PROVE  ~ Ahead(direction, columns, a, a)
BY OrderIrreflexive DEF Ahead

LEMMA AheadTransitive ==
    ASSUME NEW direction \in {"next", "prev"}, NEW columns \in Seq(Columns),
           NEW a \in Positions(columns), NEW b \in Positions(columns),
           NEW c \in Positions(columns),
           Ahead(direction, columns, a, b), Ahead(direction, columns, b, c)
    PROVE  Ahead(direction, columns, a, c)
<1>1. CASE direction = "next"
  BY <1>1, OrderTransitive DEF Ahead
<1>2. CASE direction = "prev"
  BY <1>2, OrderTransitive DEF Ahead
<1> QED
  BY <1>1, <1>2

LEMMA AheadTotal ==
    ASSUME NEW direction \in {"next", "prev"}, NEW columns \in Seq(Columns),
           NEW a \in Positions(columns), NEW b \in Positions(columns), a # b
    PROVE  Ahead(direction, columns, a, b) \/ Ahead(direction, columns, b, a)
BY OrderTotal DEF Ahead

\* The sort order of a request ends up with an "id" field.
LEMMA NormalizedSort ==
    ASSUME NEW sortby \in Seq(Fields), NEW defaults \in Seq(Fields)
    PROVE  /\ NormalizeSort(sortby, defaults) \in Seq(Fields)
           /\ HasId(NormalizeSort(sortby, defaults))
<1> DEFINE fields == Requested(sortby, defaults)
<1>1. TieBreaker \in Fields
  BY IdAssumption DEF TieBreaker, Fields, Directions
<1>2. fields \in Seq(Fields)
  BY <1>1 DEF Requested
<1> HIDE DEF fields
<1>3. CASE HasId(fields)
  BY <1>2, <1>3 DEF NormalizeSort, fields
<1>4. CASE ~ HasId(fields)
  <2> DEFINE longer == Append(fields, TieBreaker)
  <2>1. longer \in Seq(Fields) /\ Len(fields) + 1 \in DOMAIN longer
        /\ longer[Len(fields) + 1] = TieBreaker
    BY <1>1, <1>2
  <2>2. HasId(longer)
    BY <2>1 DEF HasId, TieBreaker
  <2> QED
    BY <1>4, <2>1, <2>2 DEF NormalizeSort, fields
<1> QED
  BY <1>3, <1>4

\* The store finds a column for every field that it does not refuse.
LEMMA StoreTypes ==
    ASSUME NEW sort \in Seq(Fields), HasId(sort), NEW c \in Configs,
           ~ Refused(sort, <<>>, c.sortables)
    PROVE  /\ SortColumns(sort, c.sortables) \in Seq(Columns)
           /\ Len(SortColumns(sort, c.sortables)) = Len(sort)
<1> DEFINE columns == [i \in DOMAIN sort |-> Column(sort[i], c.sortables[sort[i].prop])]
<1>1. SortColumns(sort, c.sortables) = columns
  BY DEF SortColumns
<1>2. sort # <<>>
  BY DEF HasId
<1>3. c.sortables \in [Props -> Exprs \cup {Null}]
  BY ConfigsAssumption
<1>4. ASSUME NEW i \in DOMAIN sort
      PROVE  Column(sort[i], c.sortables[sort[i].prop]) \in Columns
  <2>1. sort[i] \in Fields
    OBVIOUS
  <2>2. c.sortables[sort[i].prop] \in Exprs
    BY <1>2, <1>3, <2>1 DEF Refused, Requested, Fields
  <2> QED
    BY <2>1, <2>2 DEF Column, Columns, Fields
<1>5. columns \in Seq(Columns) /\ Len(columns) = Len(sort)
  BY <1>4
<1> QED
  BY <1>1, <1>5

\* The key of a row has a value for each column, and none where none may be.
LEMMA KeyTyped ==
    ASSUME NEW columns \in Seq(Columns), NEW row \in Rows
    PROVE  Key(columns, row) \in Keys(columns)
<1>1. row \in [Exprs -> Values] /\ \A e \in NotNullExprs : row[e] # Null
  BY RowsAssumption
<1>2. ASSUME NEW i \in 1..Len(columns)
      PROVE  /\ row[columns[i].expr] \in Values
             /\ NonNull(columns[i]) => row[columns[i].expr] # Null
  <2>1. columns[i] \in Columns
    OBVIOUS
  <2>2. columns[i].expr \in Exprs
    BY <2>1 DEF Columns
  <2> QED
    BY <1>1, <2>2 DEF NonNull
<1> QED
  BY <1>2 DEF Key, Keys, Positions

\* What the snapshot has of a record that a search matches.
LEMMA MatchTyped ==
    ASSUME TypeOK, search.pc = "page",
           NEW id \in Matching(search.snap, search.params.filter)
    PROVE  /\ id \in Ids /\ search.snap[id] \in Rows /\ search.columns \in Seq(Columns)
           /\ Key(search.columns, search.snap[id]) \in Keys(search.columns)
           /\ Key(search.columns, search.snap[id]) \in Positions(search.columns)
<1>1. id \in Ids /\ search.snap[id] \in Rows /\ search.columns \in Seq(Columns)
  BY DEF TypeOK, Requests, Tables, Matching
<1>2. Key(search.columns, search.snap[id]) \in Keys(search.columns)
  BY <1>1, KeyTyped
<1> QED
  BY <1>1, <1>2 DEF Keys

LEMMA DirectionTyped ==
    ASSUME TypeOK
    PROVE  Direction \in {"next", "prev"} /\ (Direction = "prev" => ~ FirstPage)
BY DEF TypeOK, Requests, Tokens, Direction, FirstPage

\* The columns of a backward page are the same but for their directions.
LEMMA SameKey ==
    ASSUME NEW direction \in {"next", "prev"}, NEW columns \in Seq(Columns), NEW row
    PROVE  /\ Effective(columns, direction) \in Seq(Columns)
           /\ Len(Effective(columns, direction)) = Len(columns)
           /\ Key(Effective(columns, direction), row) = Key(columns, row)
           /\ \A i \in 1..Len(columns) :
                  NonNull(Effective(columns, direction)[i]) = NonNull(columns[i])
<1>1. CASE direction = "next"
  BY <1>1 DEF Effective
<1>2. CASE direction = "prev"
  <2>1. ASSUME NEW i \in 1..Len(columns)
        PROVE  /\ [columns[i] EXCEPT !.dir = Opposite(@)] \in Columns
               /\ [columns[i] EXCEPT !.dir = Opposite(@)].expr = columns[i].expr
    <3>1. columns[i] \in Columns
      OBVIOUS
    <3> QED
      BY <3>1 DEF Columns, Directions, Opposite
  <2>2. /\ Reversed(columns) \in Seq(Columns) /\ Len(Reversed(columns)) = Len(columns)
        /\ \A i \in 1..Len(columns) : Reversed(columns)[i].expr = columns[i].expr
    <3>1. \A i \in DOMAIN columns : i \in 1..Len(columns)
      OBVIOUS
    <3> QED
      BY <2>1, <3>1 DEF Reversed
  <2> QED
    BY <1>2, <2>2 DEF Effective, Key, NonNull
<1> QED
  BY <1>1, <1>2

\* The order of the page that is read.
LEMMA SortedAhead ==
    ASSUME TypeOK, search.pc = "page",
           NEW a \in Matching(search.snap, search.params.filter),
           NEW b \in Matching(search.snap, search.params.filter)
    PROVE  Sorted(a, b) <=> Ahead(Direction, search.columns, Key(search.columns, search.snap[a]),
                                  Key(search.columns, search.snap[b]))
<1> DEFINE x == Key(search.columns, search.snap[a])
           y == Key(search.columns, search.snap[b])
<1>1. Sorted(a, b) <=> OrderedBefore(Effective(search.columns, Direction),
                                     NullsLast(Direction), x, y)
  BY MatchTyped, DirectionTyped, SameKey DEF Sorted, Order, Snapshot
<1>2. x \in Positions(search.columns) /\ y \in Positions(search.columns)
      /\ search.columns \in Seq(Columns)
  BY MatchTyped
<1> HIDE DEF x, y
<1>3. Sorted(a, b) <=> Ahead(Direction, search.columns, x, y)
  BY <1>1, <1>2, DirectionTyped, AheadAsFetched
<1> QED
  BY <1>3 DEF x, y

\* A record may be shown if it comes after the cursor.
LEMMA AheadOfCursor ==
    ASSUME Base, search.pc = "page",
           NEW id \in Matching(search.snap, search.params.filter)
    PROVE  /\ ~ FirstPage => search.position.values \in Positions(search.columns)
           /\ id \in After <=> \/ FirstPage
                               \/ Ahead(Direction, search.columns, search.position.values,
                                        Key(search.columns, search.snap[id]))
<1>1. CASE FirstPage
  BY <1>1 DEF After, Snapshot
<1>2. CASE ~ FirstPage
  <2> DEFINE key == Key(search.columns, search.snap[id])
             values == search.position.values
             order == Effective(search.columns, Direction)
  <2>1. values \in Positions(search.columns)
    BY <1>2 DEF Base, TypeOK, CursorsFit, Requests, Tokens, Positions, FirstPage
  <2>2. id \in After <=> KeysetPredicate(order, NullsLast(Direction), values, key)
    BY <1>2, MatchTyped, DirectionTyped, SameKey DEF Base, After, Snapshot, Order
  <2>3. order \in Seq(Columns) /\ values \in Positions(order) /\ key \in Keys(order)
    BY <2>1, MatchTyped, DirectionTyped, SameKey DEF Base, Positions, Keys
  <2>4. NullsLast(Direction) \in BOOLEAN
    BY DEF NullsLast
  <2>5. key \in Positions(search.columns) /\ search.columns \in Seq(Columns)
    BY MatchTyped DEF Base
  <2>6. Direction \in {"next", "prev"}
    BY DirectionTyped DEF Base
  <2> HIDE DEF key, values
  <2>7. OrderedBefore(order, NullsLast(Direction), values, key)
            <=> Ahead(Direction, search.columns, values, key)
    BY <2>1, <2>5, <2>6, AheadAsFetched
  <2> HIDE DEF order
  <2>8. id \in After <=> Ahead(Direction, search.columns, values, key)
    BY <2>2, <2>3, <2>4, <2>7, KeysetIsOrder
  <2> QED
    BY <1>2, <2>1, <2>8 DEF key, values
<1> QED
  BY <1>1, <1>2

\* A link is a cursor at a row, for the order and the filter of its page.
LEMMA LinkTyped ==
    ASSUME TypeOK, search.pc = "page", NEW direction \in {"next", "prev"},
           NEW id \in Matching(search.snap, search.params.filter)
    PROVE  /\ Link(TRUE, direction, id) \in Tokens
           /\ Link(TRUE, direction, id) # Null
           /\ Link(TRUE, direction, id).sort = search.sort
           /\ Link(TRUE, direction, id).scope.filter = search.params.filter
           /\ Link(TRUE, direction, id).direction = direction
           /\ Link(TRUE, direction, id).values = Key(search.columns, search.snap[id])
<1> DEFINE values == Key(search.columns, search.snap[id])
<1>1. search.columns \in Seq(Columns) /\ search.snap[id] \in Rows
  BY DEF TypeOK, Requests, Tables, Matching
<1>2. values \in Keys(search.columns)
  BY <1>1, KeyTyped
<1>3. values \in Seq(Values)
  BY <1>1, <1>2 DEF Keys, Positions
<1>4. search.sort \in Seq(Fields) /\ search.params.filter \in Filters
  BY DEF TypeOK, Requests, Searches
<1> DEFINE scope == [sort |-> search.sort, filter |-> search.params.filter]
           link == Link(TRUE, direction, id)
<1>5. link = [sort |-> search.sort, scope |-> scope, direction |-> direction, values |-> values]
  BY DEF Link, Token, Scope, Snapshot
<1>6. scope \in [sort : Seq(Fields), filter : Filters] /\ scope.filter = search.params.filter
  BY <1>4
<1> HIDE DEF values, scope, link
<1>7. link \in Tokens
  BY <1>3, <1>4, <1>5, <1>6 DEF Tokens
<1>8. /\ link.sort = search.sort /\ link.scope = scope
      /\ link.direction = direction /\ link.values = values
  BY <1>5
<1>9. link # Null
  BY <1>7, NoneAssumption
<1> QED
  BY <1>6, <1>7, <1>8, <1>9 DEF values, link

\* What a page shows and where its links lead.
LEMMA PageShape ==
    ASSUME TypeOK, PageRecords
    PROVE  \E rows \in SUBSET After :
               /\ page'.rows = rows /\ page'.params = search.params
               /\ page'.direction = Direction /\ page'.columns = search.columns
               /\ page'.snap = search.snap /\ page'.matched = search.matched
               /\ walk' = [walk EXCEPT !.seen = @ \cup rows,
                                       !.again = @ \cup (walk.seen \cap rows)]
               /\ Cardinality(After) > search.params.limit
                      => Cardinality(rows) = search.params.limit
               /\ Cardinality(After) > search.params.limit \/ rows = After
               /\ \A id \in rows, other \in After \ rows : ~ Sorted(other, id)
               /\ \/ rows = {} /\ page'.next = Null /\ page'.prev = Null
                  \/ /\ Near(page', Direction) \in rows /\ Far(page', Direction) \in rows
                     /\ \A id \in rows : /\ ~ Sorted(id, Near(page', Direction))
                                         /\ ~ Sorted(Far(page', Direction), id)
                     /\ LinkOf(page', Direction) =
                            Link(Cardinality(After) > search.params.limit, Direction,
                                 Far(page', Direction))
                     /\ LinkOf(page', Back(Direction)) =
                            Link(~ FirstPage, Back(Direction), Near(page', Direction))
<1> DEFINE more == Cardinality(After) > search.params.limit
           none == [first |-> Null, last |-> Null]
           full(rows, low, high) == Answer(rows, Ends(low, high),
                                  Link(HasNext(more), "next", Ends(low, high).last),
                                  Link(HasPrev(more), "prev", Ends(low, high).first))
<1>1. PICK rows \in SUBSET After :
          /\ Fetched(rows, After, more)
          /\ \/ rows = {} /\ page' = Answer(rows, none, Null, Null)
             \/ \E low, high \in rows :
                    /\ \A id \in rows : ~ Sorted(id, low) /\ ~ Sorted(high, id)
                    /\ page' = full(rows, low, high)
          /\ walk' = [walk EXCEPT !.seen = @ \cup rows,
                                  !.again = @ \cup (walk.seen \cap rows)]
  BY DEF PageRecords
<1>2. /\ more => Cardinality(rows) = search.params.limit
      /\ more \/ rows = After
      /\ \A id \in rows, other \in After \ rows : ~ Sorted(other, id)
  BY <1>1 DEF Fetched
<1>3. CASE rows = {} /\ page' = Answer(rows, none, Null, Null)
  <2>1. /\ page'.rows = rows /\ page'.params = search.params
        /\ page'.direction = Direction /\ page'.columns = search.columns
        /\ page'.snap = search.snap /\ page'.matched = search.matched
        /\ page'.next = Null /\ page'.prev = Null
    BY <1>3 DEF Answer, Snapshot
  <2> QED
    BY <1>1, <1>2, <1>3, <2>1
<1>4. CASE \E low, high \in rows : /\ \A id \in rows : ~ Sorted(id, low) /\ ~ Sorted(high, id)
                                   /\ page' = full(rows, low, high)
  <2>1. PICK low \in rows, high \in rows :
            /\ \A id \in rows : ~ Sorted(id, low) /\ ~ Sorted(high, id)
            /\ page' = full(rows, low, high)
    BY <1>4
  <2> DEFINE ends == Ends(low, high)
  <2>2. /\ Direction = "next" => ends.first = low /\ ends.last = high
        /\ Direction = "prev" => ends.first = high /\ ends.last = low
    BY DEF Ends
  <2>3. /\ page'.rows = rows /\ page'.params = search.params
        /\ page'.direction = Direction /\ page'.columns = search.columns
        /\ page'.snap = search.snap /\ page'.matched = search.matched
        /\ page'.first = ends.first /\ page'.last = ends.last
        /\ page'.next = Link(HasNext(more), "next", ends.last)
        /\ page'.prev = Link(HasPrev(more), "prev", ends.first)
    BY <2>1 DEF Answer, Snapshot
  <2> HIDE DEF more, ends
  <2>4. /\ Near(page', Direction) = low /\ Far(page', Direction) = high
        /\ LinkOf(page', Direction) = Link(more, Direction, high)
        /\ LinkOf(page', Back(Direction)) = Link(~ FirstPage, Back(Direction), low)
    <3>1. CASE Direction = "next"
      <4>1. HasNext(more) = more /\ HasPrev(more) = ~ FirstPage
        BY <3>1 DEF HasNext, HasPrev
      <4> QED
        BY <2>2, <2>3, <3>1, <4>1 DEF Near, Far, LinkOf, Back
    <3>2. CASE Direction = "prev"
      <4>1. ~ FirstPage /\ HasNext(more) = TRUE /\ HasPrev(more) = more
        BY <3>2, DirectionTyped DEF HasNext, HasPrev
      <4> QED
        BY <2>2, <2>3, <3>2, <4>1 DEF Near, Far, LinkOf, Back
    <3> QED
      BY <3>1, <3>2, DirectionTyped
  <2> QED
    BY <1>1, <1>2, <2>1, <2>3, <2>4 DEF more
<1> QED
  BY <1>1, <1>3, <1>4

\* The links of an answer lead to rows of its own.
LEMMA PageLinks ==
    ASSUME TypeOK, PageRecords
    PROVE  /\ page'.params = search.params /\ page'.direction = Direction
           /\ page'.next = Null \/ \E id \in Matching(search.snap, search.params.filter) :
                  page'.next = Link(TRUE, "next", id)
           /\ page'.prev = Null \/ \E id \in Matching(search.snap, search.params.filter) :
                  page'.prev = Link(TRUE, "prev", id)
<1>1. After \subseteq Matching(search.snap, search.params.filter)
  BY DEF After, Snapshot
<1>2. \A offered, direction, id :
          Link(offered, direction, id) \in {Link(TRUE, direction, id), Null}
  BY Zenon DEF Link
<1>3. /\ page'.params = search.params /\ page'.direction = Direction
      /\ \/ page'.next = Null /\ page'.prev = Null
         \/ \E near, far \in After, more \in BOOLEAN :
                /\ LinkOf(page', Direction) = Link(more, Direction, far)
                /\ LinkOf(page', Back(Direction)) = Link(~ FirstPage, Back(Direction), near)
  <2>1. PICK rows \in SUBSET After :
            /\ page'.params = search.params /\ page'.direction = Direction
            /\ \/ rows = {} /\ page'.next = Null /\ page'.prev = Null
               \/ /\ Near(page', Direction) \in rows /\ Far(page', Direction) \in rows
                  /\ LinkOf(page', Direction) =
                         Link(Cardinality(After) > search.params.limit, Direction,
                              Far(page', Direction))
                  /\ LinkOf(page', Back(Direction)) =
                         Link(~ FirstPage, Back(Direction), Near(page', Direction))
    BY PageShape
  <2>2. (Cardinality(After) > search.params.limit) \in BOOLEAN
    OBVIOUS
  <2> QED
    BY <2>1, <2>2
<1>4. CASE page'.next = Null /\ page'.prev = Null
  BY <1>3, <1>4
<1>5. ASSUME NEW near \in After, NEW far \in After, NEW more \in BOOLEAN,
             LinkOf(page', Direction) = Link(more, Direction, far),
             LinkOf(page', Back(Direction)) = Link(~ FirstPage, Back(Direction), near)
      PROVE  /\ page'.next = Null \/ \E id \in After : page'.next = Link(TRUE, "next", id)
             /\ page'.prev = Null \/ \E id \in After : page'.prev = Link(TRUE, "prev", id)
  <2>1. CASE Direction = "next"
    BY <1>2, <1>5, <2>1 DEF LinkOf, Back
  <2>2. CASE Direction = "prev"
    BY <1>2, <1>5, <2>2 DEF LinkOf, Back
  <2> QED
    BY <2>1, <2>2, DirectionTyped
<1> QED
  BY <1>1, <1>3, <1>4, <1>5

\* The types, the cursors and the count hold whatever the catalog is changed
\* to between two requests.
LEMMA InitBase == Init => Base
<1> SUFFICES ASSUME Init PROVE Base
  OBVIOUS
<1>1. TypeOK
  BY SearchAssumption DEF Init, TypeOK, Idle, Requests, Links
<1> QED
  BY <1>1 DEF Init, Base, CursorsFit, Counted, Links, Idle

LEMMA AskBase ==
    ASSUME Base, NEW params \in Searches, NEW token \in Links(page) \cup {Null},
           Ask(params, token)
    PROVE  Base'
<1> DEFINE sort == NormalizeSort(params.sortby, config.defaultSort)
<1>1. sort \in Seq(Fields) /\ HasId(sort)
  BY NormalizedSort, ConfigsAssumption, SearchAssumption DEF Base, TypeOK, Searches
<1>2. token \in Tokens \cup {Null}
  BY DEF Base, TypeOK
<1>3. search' = [pc |-> "count", params |-> params, sort |-> sort, position |-> token,
                 columns |-> <<>>, snap |-> Null, matched |-> Null]
  BY DEF Ask, Idle
<1>4. UNCHANGED <<config, table, writes, page, walk, origin>>
  BY DEF Ask
<1>5. token # Null => Len(token.values) = Len(sort)
  BY DEF Ask, Accepted, Base, CursorsFit
<1> HIDE DEF sort
<1>6. search' \in Requests
  BY <1>1, <1>2, <1>3 DEF Requests
<1>7. TypeOK'
  BY <1>3, <1>4, <1>6 DEF Base, TypeOK, Links
<1> QED
  BY <1>1, <1>3, <1>4, <1>5, <1>7 DEF Base, CursorsFit, Counted, Links

LEMMA SearchFailsBase == ASSUME Base, SearchFails PROVE Base'
<1>1. UNCHANGED <<config, table, writes, page, walk, origin>> /\ search'.pc = "idle"
  BY DEF SearchFails, Idle
<1>2. search' \in Requests
  BY DEF SearchFails, Idle, Requests
<1>3. TypeOK'
  BY <1>1, <1>2 DEF Base, TypeOK, Links
<1> QED
  BY <1>1, <1>3 DEF Base, CursorsFit, Counted, Links

LEMMA CountBase == ASSUME Base, Count PROVE Base'
<1> DEFINE columns == SortColumns(search.sort, config.sortables)
           matched == Cardinality(Matching(table, search.params.filter))
<1>1. /\ search.pc = "count"
      /\ search' = [search EXCEPT !.pc = "page", !.snap = table, !.columns = columns,
                                  !.matched = matched]
      /\ UNCHANGED <<config, table, writes, page, origin>>
  BY DEF Count
<1>2. columns \in Seq(Columns) /\ Len(columns) = Len(search.sort)
  BY StoreTypes DEF Count, Base, TypeOK, Requests, CursorsFit
<1>3. matched \in Nat
  <2>1. Matching(table, search.params.filter) \subseteq Ids
    BY DEF Matching
  <2> QED
    BY <2>1, IdsAssumption, FS_Subset, FS_CardinalityType
<1>4. walk' \in [seen : SUBSET Ids, again : SUBSET Ids, steady : SUBSET Ids]
  BY DEF Count, Base, TypeOK, Live
<1>5. Counted'
  BY <1>1 DEF Base, TypeOK, Requests, Counted
<1> HIDE DEF columns, matched
<1>6. /\ search'.pc = "page" /\ search'.snap = table /\ search'.columns = columns
      /\ search'.position = search.position /\ search'.sort = search.sort
      /\ search'.params = search.params
  BY <1>1 DEF Base, TypeOK, Requests
<1>7. search' \in Requests
  BY <1>1, <1>2, <1>3 DEF Base, TypeOK, Requests
<1>8. TypeOK'
  BY <1>1, <1>4, <1>6, <1>7 DEF Base, TypeOK, Links
<1>9. CursorsFit'
  BY <1>1, <1>2, <1>6 DEF Base, CursorsFit, Links
<1> QED
  BY <1>5, <1>8, <1>9 DEF Base

LEMMA PageRecordsBase == ASSUME Base, PageRecords PROVE Base'
<1>1. /\ search.pc = "page" /\ UNCHANGED <<config, table, writes>>
      /\ search' = Idle /\ search'.pc = "idle"
  BY DEF PageRecords, Idle
<1>2. \A t \in Links(page)' : \E id \in Matching(search.snap, search.params.filter) :
          t \in {Link(TRUE, "next", id), Link(TRUE, "prev", id)}
  BY PageLinks DEF Base, Links
<1>3. ASSUME NEW t \in Links(page)'
      PROVE  t \in Tokens /\ HasId(t.sort) /\ Len(t.values) = Len(t.sort)
  <2>1. PICK id \in Matching(search.snap, search.params.filter),
             direction \in {"next", "prev"} : t = Link(TRUE, direction, id)
    BY <1>2, <1>3
  <2>2. t \in Tokens /\ t.sort = search.sort
        /\ t.values = Key(search.columns, search.snap[id])
    BY <1>1, <2>1, LinkTyped DEF Base
  <2>3. Len(t.values) = Len(search.columns)
    BY <1>1, <2>2 DEF Key, Base, TypeOK, Requests
  <2> QED
    BY <1>1, <2>2, <2>3 DEF Base, CursorsFit
<1>4. walk' \in [seen : SUBSET Ids, again : SUBSET Ids, steady : SUBSET Ids]
  <2>1. PICK rows \in SUBSET After :
            walk' = [walk EXCEPT !.seen = @ \cup rows, !.again = @ \cup (walk.seen \cap rows)]
    BY DEF PageRecords
  <2>2. After \subseteq Ids
    BY DEF After, Matching
  <2> QED
    BY <2>1, <2>2 DEF Base, TypeOK
<1>5. search' \in Requests
  BY <1>1 DEF Idle, Requests
<1>6. TypeOK'
  BY <1>1, <1>3, <1>4, <1>5 DEF Base, TypeOK
<1> QED
  BY <1>1, <1>3, <1>6 DEF Base, CursorsFit, Counted

LEMMA WriteBase == ASSUME Base, NEW id \in Ids, Write(id) PROVE Base'
<1>1. /\ UNCHANGED <<config, search, page, origin>>
      /\ writes > 0 /\ writes' = writes - 1
      /\ walk' = [walk EXCEPT !.steady = @ \ {id}]
  BY DEF Write
<1>2. PICK row \in RowsOf(id) \cup {Null} : table' = [table EXCEPT ![id] = row]
  BY DEF Write
<1>3. table' \in Tables
  BY <1>2 DEF Base, TypeOK, Tables, RowsOf
<1>4. TypeOK'
  BY <1>1, <1>3 DEF Base, TypeOK, Links
<1> QED
  BY <1>1, <1>4 DEF Base, CursorsFit, Counted, Links

LEMMA ReconfigureBase == ASSUME Base, Reconfigure PROVE Base'
<1>1. /\ UNCHANGED <<table, search, page, origin>> /\ config' \in Configs
      /\ writes > 0 /\ writes' = writes - 1
      /\ walk' = [walk EXCEPT !.steady = {}]
  BY DEF Reconfigure
<1>2. TypeOK'
  BY <1>1 DEF Base, TypeOK, Links
<1> QED
  BY <1>1, <1>2 DEF Base, CursorsFit, Counted, Links

LEMMA StutterBase == ASSUME Base, UNCHANGED vars PROVE Base'
BY DEF vars, Base, TypeOK, CursorsFit, Counted, Links

LEMMA NextBase == ASSUME Base, [Next]_vars PROVE Base'
<1>1. CASE Request
  BY <1>1, AskBase DEF Request
<1>2. CASE SearchFails
  BY <1>2, SearchFailsBase
<1>3. CASE Count
  BY <1>3, CountBase
<1>4. CASE PageRecords
  BY <1>4, PageRecordsBase
<1>5. CASE \E id \in Ids : Write(id)
  BY <1>5, WriteBase
<1>6. CASE Reconfigure
  BY <1>6, ReconfigureBase
<1>7. CASE UNCHANGED vars
  BY <1>7, StutterBase
<1> QED
  BY <1>1, <1>2, <1>3, <1>4, <1>5, <1>6, <1>7 DEF Next

\* What holds of pages, links and counts however "id" sorts: types, cursors that
\* fit the columns they were made under, counts of the snapshot at hand.
THEOREM BaseInvariant == Spec => []Base
BY InitBase, NextBase, PTL DEF Spec

\* Type correctness of the client, the request and the table.
THEOREM PagingTypes == Spec => []TypeOK
<1>1. Base => TypeOK
  BY DEF Base
<1> QED
  BY <1>1, BaseInvariant, PTL

-----------------------------------------------------------------------------
(* The ends of a page.                                                     *)

\* What a page with rows says of the records that match.
LEMMA PageEnds ==
    ASSUME Base, PageRecords, page'.rows # {},
           NEW id \in Matching(search.snap, search.params.filter)
    PROVE  /\ Near(page', Direction) \in Matching(search.snap, search.params.filter)
           /\ Far(page', Direction) \in Matching(search.snap, search.params.filter)
           /\ LinkOf(page', Direction) = Null =>
                  /\ page'.rows = After
                  /\ ~ Ahead(Direction, search.columns,
                             Key(search.columns, search.snap[Far(page', Direction)]),
                             Key(search.columns, search.snap[id]))
           /\ LinkOf(page', Back(Direction)) = Null =>
                  /\ FirstPage
                  /\ ~ Ahead(Direction, search.columns, Key(search.columns, search.snap[id]),
                             Key(search.columns, search.snap[Near(page', Direction)]))
<1> DEFINE near == Near(page', Direction)
           far == Far(page', Direction)
           Shown == Matching(search.snap, search.params.filter)
           K(x) == Key(search.columns, search.snap[x])
<1>1. PICK rows \in SUBSET After :
          /\ page'.rows = rows
          /\ Cardinality(After) > search.params.limit \/ rows = After
          /\ \A x \in rows, other \in After \ rows : ~ Sorted(other, x)
          /\ near \in rows /\ far \in rows
          /\ \A x \in rows : ~ Sorted(x, near) /\ ~ Sorted(far, x)
          /\ LinkOf(page', Direction) =
                 Link(Cardinality(After) > search.params.limit, Direction, far)
          /\ LinkOf(page', Back(Direction)) = Link(~ FirstPage, Back(Direction), near)
  BY PageShape DEF Base
<1>2. After \subseteq Shown /\ near \in Shown /\ far \in Shown
  BY <1>1 DEF After, Snapshot
<1>3. search.pc = "page" /\ Direction \in {"next", "prev"} /\ Back(Direction) \in {"next", "prev"}
      /\ search.columns \in Seq(Columns)
  BY <1>1, <1>2, DirectionTyped, MatchTyped DEF Base, Back, PageRecords
<1>4. \A x \in Shown : K(x) \in Positions(search.columns)
  BY <1>3, MatchTyped DEF Base
<1>5. \A x, y \in Shown : Sorted(x, y) <=> Ahead(Direction, search.columns, K(x), K(y))
  BY <1>3, SortedAhead DEF Base
<1>6. /\ Link(TRUE, Direction, far) # Null
      /\ Link(TRUE, Back(Direction), near) # Null
  BY <1>2, <1>3, LinkTyped DEF Base
<1>7. \A offered, direction, x : Link(offered, direction, x)
          = IF offered THEN Link(TRUE, direction, x) ELSE Null
  BY Zenon DEF Link
<1> HIDE DEF near, far, Shown
<1>8. ASSUME LinkOf(page', Direction) = Null
      PROVE  rows = After /\ ~ Ahead(Direction, search.columns, K(far), K(id))
  <2>1. rows = After
    <3>1. Cardinality(After) > search.params.limit =>
              Link(Cardinality(After) > search.params.limit, Direction, far)
                  = Link(TRUE, Direction, far)
      BY DEF Link
    <3> QED
      BY <1>1, <1>6, <1>8, <3>1
  <2>2. CASE id \in After
    BY <1>1, <1>2, <1>5, <2>1, <2>2
  <2>3. CASE id \notin After
    <3> DEFINE values == search.position.values
    <3>1. /\ values \in Positions(search.columns)
          /\ ~ Ahead(Direction, search.columns, values, K(id))
          /\ Ahead(Direction, search.columns, values, K(far))
      BY <1>1, <1>2, <1>3, <2>3, AheadOfCursor DEF Shown
    <3> DEFINE this == K(id)
               last == K(far)
    <3>2. this \in Positions(search.columns) /\ last \in Positions(search.columns)
      BY <1>2, <1>4 DEF Shown
    <3> HIDE DEF values, this, last
    <3>3. ~ Ahead(Direction, search.columns, last, this)
      BY <1>3, <3>1, <3>2, AheadTransitive DEF this, last
    <3> QED
      BY <2>1, <3>3 DEF this, last
  <2> QED
    BY <2>1, <2>2, <2>3
<1>9. ASSUME LinkOf(page', Back(Direction)) = Null
      PROVE  FirstPage /\ ~ Ahead(Direction, search.columns, K(id), K(near))
  <2>1. FirstPage
    BY <1>1, <1>6, <1>7, <1>9
  <2>2. id \in After
    BY <1>3, <2>1, AheadOfCursor DEF Shown
  <2>3. ~ Sorted(id, near)
    BY <1>1, <2>2
  <2> QED
    BY <1>2, <1>5, <2>1, <2>2, <2>3
<1> QED
  BY <1>1, <1>2, <1>8, <1>9 DEF near, far, Shown

LEMMA OnlyPageRecordsAnswers ==
    ASSUME [Next]_vars, Answers
    PROVE  PageRecords
BY DEF Next, vars, Answers, Request, Ask, SearchFails, Count, Write, Reconfigure

\* A page of postgres/search.go without a "next" link ends where the matching
\* records of its snapshot end and one without a "prev" link begins where they
\* begin, for any sort order, NULLs and cursor, one from before a
\* reconfiguration included.
THEOREM MissingLinksAreEnds == Spec => MissingLinkMeansEnd
<1>1. ASSUME Base, [Next]_vars, Answers, page'.rows # {},
             NEW id \in Matching(search.snap, search.params.filter)
      PROVE  /\ page'.next = Null =>
                    ~ OrderedBefore(search.columns, TRUE,
                          Key(search.columns, search.snap[page'.last]),
                          Key(search.columns, search.snap[id]))
             /\ page'.prev = Null =>
                    ~ OrderedBefore(search.columns, TRUE,
                          Key(search.columns, search.snap[id]),
                          Key(search.columns, search.snap[page'.first]))
  <2>1. PageRecords
    BY <1>1, OnlyPageRecordsAnswers
  <2>2. CASE Direction = "next"
    BY <1>1, <2>1, <2>2, PageEnds DEF Near, Far, LinkOf, Back, Ahead
  <2>3. CASE Direction = "prev"
    BY <1>1, <2>1, <2>3, PageEnds DEF Near, Far, LinkOf, Back, Ahead
  <2> QED
    BY <1>1, <2>2, <2>3, DirectionTyped DEF Base
<1>2. Base /\ [Next]_vars =>
          [Answers /\ page'.rows # {} =>
              LET before(a, b) == OrderedBefore(search.columns, TRUE,
                      Key(search.columns, search.snap[a]), Key(search.columns, search.snap[b]))
              IN \A id \in Matching(search.snap, search.params.filter) :
                     /\ page'.next = Null => ~ before(page'.last, id)
                     /\ page'.prev = Null => ~ before(id, page'.first)]_vars
  BY <1>1
<1> QED
  BY <1>2, BaseInvariant, PTL DEF Spec, MissingLinkMeansEnd

\* numberMatched of an answer that is the whole result, the first page without
\* a "next" link, is the number of its records, whatever is written while the
\* transaction counts and reads.
THEOREM CountsAgree == Spec => []CountAgrees
<1>1. Init => CountAgrees
  BY DEF Init, CountAgrees
<1>2. ASSUME Base, PageRecords
      PROVE  CountAgrees'
  <2> SUFFICES ASSUME page'.prev = Null, page'.next = Null, page'.direction = "next",
                      page'.rows # {}
               PROVE  page'.matched = Cardinality(page'.rows)
    BY DEF CountAgrees
  <2>1. search.pc = "page" /\ page'.direction = Direction
        /\ page'.matched = search.matched /\ page'.rows \subseteq After
    BY <1>2, PageShape DEF Base, PageRecords
  <2>2. PICK id \in After : TRUE
    BY <2>1
  <2>3. After \subseteq Matching(search.snap, search.params.filter)
    BY DEF After, Snapshot
  <2>4. page'.rows = After /\ FirstPage
    BY <1>2, <2>1, <2>2, <2>3, PageEnds DEF LinkOf, Back
  <2>5. After = Matching(search.snap, search.params.filter)
    BY <2>4 DEF After, Snapshot
  <2> QED
    BY <1>2, <2>1, <2>4, <2>5 DEF Base, Counted
<1>3. CountAgrees /\ UNCHANGED page => CountAgrees'
  BY DEF CountAgrees
<1>4. ASSUME Base, CountAgrees, [Next]_vars
      PROVE  CountAgrees'
  <2>1. CASE PageRecords
    BY <1>2, <1>4, <2>1
  <2>2. CASE ~ PageRecords
    <3>1. UNCHANGED page
      BY <1>4, <2>2 DEF Next, vars, Request, Ask, SearchFails, Count, Write, Reconfigure
    <3> QED
      BY <1>3, <1>4, <3>1
  <2> QED
    BY <2>1, <2>2
<1> QED
  BY <1>1, <1>4, BaseInvariant, PTL DEF Spec

-----------------------------------------------------------------------------
(* The walk.                                                               *)

\* No catalog maps the sortable "id" to anything but the identifier.
IdIsIdentifier == \A c \in Configs : c.sortables["id"] \in {"r.id", Null}

HasIdColumn(columns) == \E i \in 1..Len(columns) : columns[i].expr = "r.id"

\* The columns that a sort order has with the configuration in force.
Cols(sort) == SortColumns(sort, config.sortables)

Before(columns, snap, a, b) ==
    OrderedBefore(columns, TRUE, Key(columns, snap[a]), Key(columns, snap[b]))

\* Of the untouched records that match, those and only those that do not sort
\* after the cursor have been delivered.
Resumes(columns, values, filter, snap) ==
    /\ columns \in Seq(Columns)
    /\ HasIdColumn(columns)
    /\ values \in Keys(columns)
    /\ \A id \in walk.steady : snap[id] \in filter =>
           (id \in walk.seen <=> ~ OrderedBefore(columns, TRUE, values, Key(columns, snap[id])))

\* The links of the page lead on with the order and the filter of the page.
LinksOK ==
    /\ \A t \in Links(page) : HasId(t.sort) /\ t.scope.filter = page.params.filter
    /\ page # Null /\ page.next # Null => page.next.direction = "next"
    /\ page # Null /\ page.prev # Null => page.prev.direction = "prev"

\* A request in progress has one of the cursors of the page.
SearchOK ==
    search.pc # "idle" =>
        /\ HasId(search.sort)
        /\ search.position # Null =>
               /\ page # Null
               /\ search.position \in {page.next, page.prev}
               /\ search.position.sort = search.sort
               /\ search.params.filter = page.params.filter

\* Between two pages of a walk.
WalkOK ==
    search.pc # "page" /\ page # Null /\ walk.steady # {} =>
        /\ page.direction = "next"
        /\ page.next # Null =>
               Resumes(Cols(page.next.sort), page.next.values, page.params.filter, table)
        /\ page.next = Null /\ page.params.limit > 0 =>
               \A id \in walk.steady : table[id] \in page.params.filter => id \in walk.seen

\* Inside the transaction that reads a page.
SnapOK ==
    search.pc = "page" =>
        /\ HasIdColumn(search.columns)
        /\ FirstPage => walk.seen = {} /\ walk.again = {}
        /\ walk.steady # {} => search.columns = Cols(search.sort)
        /\ walk.steady # {} /\ ~ FirstPage =>
               /\ Forward
               /\ Resumes(search.columns, search.position.values, search.params.filter,
                          search.snap)
        /\ \A id \in walk.steady : search.snap[id] = table[id]

SteadyOK == \A id \in walk.steady : table[id] # Null

\* The inductive invariant.
IInv == Base /\ LinksOK /\ SearchOK /\ WalkOK /\ SnapOK /\ SteadyOK /\ NothingTwice

-----------------------------------------------------------------------------
(* Lemmas on orders and keys.                                              *)

\* Where the sortable "id" is the identifier, a search sorts by it at last.
LEMMA StoreColumns ==
    ASSUME NEW sort \in Seq(Fields), HasId(sort), NEW c \in Configs,
           ~ Refused(sort, <<>>, c.sortables), IdIsIdentifier
    PROVE  /\ SortColumns(sort, c.sortables) \in Seq(Columns)
           /\ HasIdColumn(SortColumns(sort, c.sortables))
<1> DEFINE columns == SortColumns(sort, c.sortables)
<1>1. columns \in Seq(Columns) /\ Len(columns) = Len(sort)
  BY StoreTypes
<1>2. PICK i \in DOMAIN sort : sort[i].prop = "id"
  BY DEF HasId
<1>3. columns[i] = Column(sort[i], c.sortables["id"])
  BY <1>2 DEF SortColumns
<1>4. c.sortables["id"] # Null
  BY <1>2 DEF Refused, Requested, HasId
<1>5. columns[i].expr = "r.id"
  BY <1>3, <1>4 DEF Column, IdIsIdentifier
<1> QED
  BY <1>1, <1>2, <1>5 DEF HasIdColumn

\* Records have different keys because of the identifier.
LEMMA KeysDiffer ==
    ASSUME NEW columns \in Seq(Columns), HasIdColumn(columns), NEW snap \in Tables,
           NEW a \in Ids, NEW b \in Ids, a # b, snap[a] # Null, snap[b] # Null
    PROVE  Key(columns, snap[a]) # Key(columns, snap[b])
<1>1. PICK i \in 1..Len(columns) : columns[i].expr = "r.id"
  BY DEF HasIdColumn
<1>2. snap[a]["r.id"] = a /\ snap[b]["r.id"] = b
  BY DEF Tables
<1>3. Key(columns, snap[a])[i] = a /\ Key(columns, snap[b])[i] = b
  BY <1>1, <1>2 DEF Key
<1> QED
  BY <1>3

\* A forward page takes the records that sort first: the last one of the page
\* separates those that are on it from those that are not.
LEMMA PageIsPrefix ==
    ASSUME NEW columns \in Seq(Columns), HasIdColumn(columns), NEW snap \in Tables,
           NEW after \in SUBSET {id \in Ids : snap[id] # Null},
           NEW rows \in SUBSET after, NEW high \in rows,
           \A id \in rows : ~ Before(columns, snap, high, id),
           \A id \in rows, other \in after \ rows : ~ Before(columns, snap, other, id),
           NEW id \in after
    PROVE  id \in rows <=> ~ Before(columns, snap, high, id)
<1>1. snap[id] \in Rows /\ snap[high] \in Rows /\ id \in Ids /\ high \in Ids
      /\ snap[id] # Null /\ snap[high] # Null
  BY DEF Tables
<1>2. Key(columns, snap[id]) \in Keys(columns) /\ Key(columns, snap[high]) \in Keys(columns)
  BY <1>1, KeyTyped
<1>3. ASSUME id \notin rows
      PROVE  Before(columns, snap, high, id)
  <2>1. Key(columns, snap[id]) # Key(columns, snap[high])
    BY <1>1, <1>3, KeysDiffer
  <2>2. ~ Before(columns, snap, id, high)
    BY <1>3
  <2> QED
    BY <1>2, <2>1, <2>2, OrderTotal DEF Before, Keys
<1> QED
  BY <1>3

\* What did not sort after the cursor does not sort after a row that does.
LEMMA BehindCursor ==
    ASSUME NEW columns \in Seq(Columns), NEW values \in Keys(columns),
           NEW row \in Rows, NEW high \in Rows,
           ~ OrderedBefore(columns, TRUE, values, Key(columns, row)),
           OrderedBefore(columns, TRUE, values, Key(columns, high))
    PROVE  ~ OrderedBefore(columns, TRUE, Key(columns, high), Key(columns, row))
BY KeyTyped, OrderTransitive DEF Keys

-----------------------------------------------------------------------------
(* Steps.                                                                  *)

LEMMA InitInv == Init => IInv
<1> SUFFICES ASSUME Init PROVE IInv
  OBVIOUS
<1>1. Base
  BY InitBase
<1> QED
  BY <1>1 DEF Init, IInv, LinksOK, SearchOK, WalkOK, SnapOK, SteadyOK, NothingTwice, Links, Idle

\* A request begins: the handler has checked the cursor.
LEMMA AskInv ==
    ASSUME IInv, NEW params \in Searches, NEW token \in Links(page) \cup {Null},
           Ask(params, token)
    PROVE  IInv'
<1> DEFINE sort == NormalizeSort(params.sortby, config.defaultSort)
<1>1. sort \in Seq(Fields) /\ HasId(sort)
  BY NormalizedSort, ConfigsAssumption, SearchAssumption DEF IInv, Base, TypeOK, Searches
<1>3. search' = [pc |-> "count", params |-> params, sort |-> sort, position |-> token,
                 columns |-> <<>>, snap |-> Null, matched |-> Null]
  BY DEF Ask, Idle
<1>4. UNCHANGED <<config, table, writes, page, walk, origin>> /\ search.pc = "idle"
  BY DEF Ask
<1> HIDE DEF sort
<1>6. Base'
  BY AskBase DEF IInv
<1>7. token # Null => /\ page # Null
                      /\ token \in {page.next, page.prev}
                      /\ token.sort = sort
                      /\ params.filter = page.params.filter
  <2> HAVE token # Null
  <2>1. page # Null /\ token \in {page.next, page.prev}
    BY DEF Links
  <2>2. token.sort = sort /\ token.scope = [sort |-> sort, filter |-> params.filter]
    BY DEF Ask, Accepted, Scope, sort
  <2>3. token.scope.filter = page.params.filter
    BY DEF IInv, LinksOK
  <2> QED
    BY <2>1, <2>2, <2>3
<1>8. SearchOK'
  BY <1>1, <1>3, <1>4, <1>7 DEF SearchOK
<1>9. WalkOK' /\ SnapOK'
  BY <1>3, <1>4 DEF IInv, WalkOK, SnapOK, Resumes, Cols
<1>10. LinksOK' /\ SteadyOK' /\ NothingTwice'
  BY <1>4 DEF IInv, LinksOK, SteadyOK, NothingTwice, Links
<1> QED
  BY <1>6, <1>8, <1>9, <1>10 DEF IInv

LEMMA SearchFailsInv == ASSUME IInv, SearchFails PROVE IInv'
<1>1. UNCHANGED <<config, table, writes, page, walk, origin>> /\ search.pc = "count"
      /\ search'.pc = "idle"
  BY DEF SearchFails, Idle
<1>3. Base'
  BY SearchFailsBase DEF IInv
<1>4. WalkOK'
  BY <1>1 DEF IInv, WalkOK, Resumes, Cols
<1> QED
  BY <1>1, <1>3, <1>4 DEF IInv, LinksOK, SearchOK, SnapOK, SteadyOK, NothingTwice, Links

\* The snapshot is taken: what the walk knows of the table holds of it.
LEMMA CountInv == ASSUME IInv, IdIsIdentifier, Count PROVE IInv'
<1> DEFINE columns == SortColumns(search.sort, config.sortables)
           matched == Cardinality(Matching(table, search.params.filter))
<1>1. /\ search.pc = "count"
      /\ search' = [search EXCEPT !.pc = "page", !.snap = table, !.columns = columns,
                                  !.matched = matched]
      /\ UNCHANGED <<config, table, writes, page, origin>>
  BY DEF Count
<1>2. columns \in Seq(Columns) /\ HasIdColumn(columns)
  BY StoreColumns DEF Count, IInv, Base, TypeOK, Requests, SearchOK
<1>4. walk' = IF FirstPage THEN [seen |-> {}, again |-> {}, steady |-> Live]
              ELSE IF Forward THEN walk
              ELSE [seen |-> {}, again |-> {}, steady |-> {}]
  BY DEF Count
<1> HIDE DEF columns, matched
<1>5. /\ search'.pc = "page" /\ search'.snap = table /\ search'.columns = columns
      /\ search'.position = search.position /\ search'.sort = search.sort
      /\ search'.params = search.params
  BY <1>1 DEF IInv, Base, TypeOK, Requests
<1>7. Base'
  BY CountBase DEF IInv
<1>8. LinksOK' /\ SearchOK' /\ WalkOK'
  BY <1>1, <1>5 DEF IInv, LinksOK, SearchOK, WalkOK, Links
<1>9. SteadyOK' /\ NothingTwice'
  BY <1>1, <1>4 DEF IInv, SteadyOK, NothingTwice, Live
<1>10. SnapOK'
  <2>1. FirstPage' = FirstPage /\ Forward' = Forward
    BY <1>5 DEF FirstPage, Forward
  <2>2. FirstPage => walk'.seen = {} /\ walk'.again = {}
    BY <1>4
  <2>3. search'.columns = Cols(search.sort)'
    <3>1. Cols(search.sort)' = SortColumns(search'.sort, config'.sortables)
      BY DEF Cols
    <3> QED
      BY <1>1, <1>5, <3>1 DEF columns
  <2>6. HasIdColumn(search.columns)'
    BY <1>2, <1>5 DEF HasIdColumn
  <2>4. \A id \in walk'.steady : search'.snap[id] = table'[id]
    BY <1>1, <1>5
  <2>5. ASSUME walk'.steady # {}, ~ FirstPage
        PROVE  /\ Forward
               /\ Resumes(search.columns, search.position.values, search.params.filter,
                          search.snap)'
    <3>1. Forward /\ walk' = walk
      BY <1>4, <2>5
    <3>2. page # Null /\ search.position # Null
      BY <2>5, <1>1 DEF FirstPage, IInv, SearchOK
    <3>3. search.position = page.next /\ search.position.sort = search.sort
          /\ search.params.filter = page.params.filter
      BY <1>1, <2>5, <3>1, <3>2 DEF Forward, IInv, SearchOK, LinksOK
    <3>4. Resumes(Cols(page.next.sort), page.next.values, page.params.filter, table)
      BY <1>1, <2>5, <3>1, <3>2, <3>3 DEF IInv, WalkOK
    <3>5. Resumes(columns, search.position.values, search.params.filter, table)
      BY <3>3, <3>4 DEF Cols, columns
    <3> QED
      BY <1>1, <1>5, <3>1, <3>5 DEF Resumes
  <2> QED
    BY <2>1, <2>2, <2>3, <2>4, <2>5, <2>6 DEF SnapOK
<1> QED
  BY <1>7, <1>8, <1>9, <1>10 DEF IInv

-----------------------------------------------------------------------------
(* The step that reads a page.                                             *)

\* What a forward page shows.
LEMMA ForwardPage ==
    ASSUME TypeOK, PageRecords, Direction = "next"
    PROVE  \E rows \in SUBSET After :
               /\ walk' = [walk EXCEPT !.seen = @ \cup rows,
                                       !.again = @ \cup (walk.seen \cap rows)]
               /\ \A id \in rows, other \in After \ rows :
                      ~ Before(search.columns, search.snap, other, id)
               /\ \/ /\ rows = {} /\ page'.next = Null
                     /\ Cardinality(After) > search.params.limit
                            => Cardinality(rows) = search.params.limit
                     /\ Cardinality(After) > search.params.limit \/ rows = After
                  \/ \E high \in rows :
                         /\ \A id \in rows : ~ Before(search.columns, search.snap, high, id)
                         /\ \/ page'.next = Link(TRUE, "next", high)
                            \/ page'.next = Null /\ rows = After
<1>1. \A a, b : Sorted(a, b) <=> Before(search.columns, search.snap, a, b)
  BY DEF Sorted, Before, Order, Effective, NullsLast, Snapshot
<1>2. PICK rows \in SUBSET After :
          /\ walk' = [walk EXCEPT !.seen = @ \cup rows,
                                  !.again = @ \cup (walk.seen \cap rows)]
          /\ Cardinality(After) > search.params.limit
                 => Cardinality(rows) = search.params.limit
          /\ Cardinality(After) > search.params.limit \/ rows = After
          /\ \A id \in rows, other \in After \ rows : ~ Sorted(other, id)
          /\ \/ rows = {} /\ page'.next = Null
             \/ \E high \in rows :
                    /\ \A id \in rows : ~ Sorted(high, id)
                    /\ page'.next = Link(Cardinality(After) > search.params.limit, "next", high)
  BY PageShape DEF LinkOf
<1>3. \A high : page'.next = Link(Cardinality(After) > search.params.limit, "next", high)
                    => \/ page'.next = Link(TRUE, "next", high)
                       \/ page'.next = Null /\ ~ (Cardinality(After) > search.params.limit)
  BY DEF Link
<1> QED
  BY <1>1, <1>2, <1>3

\* What an untouched record is to a forward page: on its list of candidates
\* exactly if it has not been delivered.
LEMMA StillToCome ==
    ASSUME IInv, search.pc = "page", NEW id \in walk.steady,
           search.snap[id] \in search.params.filter
    PROVE  /\ id \in Matching(search.snap, search.params.filter)
           /\ search.snap[id] = table[id] /\ search.snap[id] \in Rows /\ id \in Ids
           /\ Direction = "next"
           /\ id \in After <=> id \notin walk.seen
           /\ ~ FirstPage => (id \in After <=> OrderedBefore(search.columns, TRUE,
                                  search.position.values, Key(search.columns, search.snap[id])))
<1>1. /\ id \in Ids /\ search.snap[id] = table[id] /\ table[id] # Null
      /\ search.snap \in Tables /\ search.columns \in Seq(Columns)
  BY DEF IInv, Base, TypeOK, Requests, SnapOK, SteadyOK
<1>2. search.snap[id] \in Rows /\ id \in Matching(search.snap, search.params.filter)
  BY <1>1 DEF Tables, Matching
<1>3. Direction = "next"
  BY DEF IInv, SnapOK, Direction, Forward, FirstPage
<1>4. CASE FirstPage
  BY <1>1, <1>2, <1>3, <1>4 DEF After, Snapshot, IInv, SnapOK
<1>5. CASE ~ FirstPage
  <2>1. Resumes(search.columns, search.position.values, search.params.filter, search.snap)
    BY <1>5 DEF IInv, SnapOK
  <2>2. KeysetPredicate(search.columns, TRUE, search.position.values,
                        Key(search.columns, search.snap[id]))
            <=> OrderedBefore(search.columns, TRUE, search.position.values,
                              Key(search.columns, search.snap[id]))
    BY <1>1, <1>2, <2>1, KeyTyped, KeysetIsOrder DEF Resumes, Keys
  <2>3. id \in After <=> KeysetPredicate(search.columns, TRUE, search.position.values,
                                         Key(search.columns, search.snap[id]))
    BY <1>2, <1>3, <1>5 DEF After, Snapshot, Order, Effective, NullsLast
  <2>4. id \in walk.seen <=> ~ OrderedBefore(search.columns, TRUE, search.position.values,
                                             Key(search.columns, search.snap[id]))
    BY <2>1 DEF Resumes
  <2> QED
    BY <1>1, <1>2, <1>3, <2>2, <2>3, <2>4
<1> QED
  BY <1>4, <1>5

\* A page has been read: the walk is as far as its last row.
LEMMA PageRecordsInv == ASSUME IInv, IdIsIdentifier, PageRecords PROVE IInv'
<1>1. /\ search.pc = "page" /\ UNCHANGED <<config, table, writes>>
      /\ search' = Idle /\ search'.pc = "idle" /\ search'.position = Null
  BY DEF PageRecords, Idle
<1>2. /\ search.snap \in Tables /\ search.columns \in Seq(Columns)
      /\ HasIdColumn(search.columns) /\ HasId(search.sort) /\ search.params \in Searches
  BY <1>1 DEF IInv, Base, TypeOK, Requests, SnapOK, SearchOK
<1>3. PICK rows \in SUBSET After :
          walk' = [walk EXCEPT !.seen = @ \cup rows, !.again = @ \cup (walk.seen \cap rows)]
  BY DEF PageRecords
<1>4. walk'.steady = walk.steady /\ walk'.seen = walk.seen \cup rows
      /\ walk'.again = walk.again \cup (walk.seen \cap rows)
      /\ rows \subseteq Matching(search.snap, search.params.filter) /\ rows \subseteq Ids
  BY <1>3 DEF IInv, Base, TypeOK, After, Snapshot, Matching
<1>5. /\ page'.params = search.params /\ page'.direction = Direction
      /\ page'.next # Null => /\ page'.next \in Tokens /\ HasId(page'.next.sort)
                              /\ page'.next.direction = "next"
                              /\ page'.next.scope.filter = search.params.filter
      /\ page'.prev # Null => /\ page'.prev \in Tokens /\ HasId(page'.prev.sort)
                              /\ page'.prev.direction = "prev"
                              /\ page'.prev.scope.filter = search.params.filter
  BY <1>1, <1>2, PageLinks, LinkTyped DEF IInv, Base
<1>6. LinksOK'
  BY <1>5 DEF LinksOK, Links
<1>7. Base'
  BY PageRecordsBase DEF IInv
<1>8. SearchOK' /\ SnapOK' /\ SteadyOK'
  BY <1>1, <1>4 DEF IInv, SearchOK, SnapOK, SteadyOK
<1>9. NothingTwice'
  <2>1. ASSUME NEW id \in walk.steady, id \in rows
        PROVE  id \notin walk.seen
    BY <1>1, <1>4, <2>1, StillToCome DEF Matching
  <2> QED
    BY <1>4, <2>1 DEF IInv, NothingTwice
<1>10. ASSUME walk.steady # {}
       PROVE  /\ page'.direction = "next"
              /\ page'.next # Null =>
                     Resumes(Cols(page.next.sort), page.next.values, page.params.filter, table)'
              /\ page'.next = Null /\ page'.params.limit > 0 =>
                     \A id \in walk.steady :
                         table[id] \in page'.params.filter => id \in walk'.seen
  <2>1. Direction = "next" /\ search.columns = Cols(search.sort)
    BY <1>1, <1>10 DEF IInv, SnapOK, Direction, Forward, FirstPage
  <2>2. PICK shown \in SUBSET After :
            /\ walk' = [walk EXCEPT !.seen = @ \cup shown,
                                    !.again = @ \cup (walk.seen \cap shown)]
            /\ \A id \in shown, other \in After \ shown :
                   ~ Before(search.columns, search.snap, other, id)
            /\ \/ /\ shown = {} /\ page'.next = Null
                  /\ Cardinality(After) > search.params.limit
                         => Cardinality(shown) = search.params.limit
                  /\ Cardinality(After) > search.params.limit \/ shown = After
               \/ \E high \in shown :
                      /\ \A id \in shown : ~ Before(search.columns, search.snap, high, id)
                      /\ \/ page'.next = Link(TRUE, "next", high)
                         \/ page'.next = Null /\ shown = After
    BY <2>1, ForwardPage DEF IInv, Base
  <2>3. walk'.seen = walk.seen \cup shown
    BY <2>2 DEF IInv, Base, TypeOK
  <2>4. After \subseteq {id \in Ids : search.snap[id] # Null}
        /\ After \subseteq Matching(search.snap, search.params.filter)
    BY DEF After, Snapshot, Matching
  <2>5. CASE page'.next # Null
    <3>1. PICK high \in shown :
              /\ \A id \in shown : ~ Before(search.columns, search.snap, high, id)
              /\ page'.next = Link(TRUE, "next", high)
      BY <2>2, <2>5
    <3> DEFINE values == Key(search.columns, search.snap[high])
    <3>2. page'.next.values = values /\ page'.next.sort = search.sort
      BY <1>1, <2>4, <3>1, LinkTyped DEF IInv, Base
    <3>3. high \in After /\ search.snap[high] \in Rows /\ values \in Keys(search.columns)
      BY <1>2, <2>4, <3>1, KeyTyped DEF Tables
    <3>4. ASSUME NEW id \in walk.steady, search.snap[id] \in search.params.filter
          PROVE  id \in walk'.seen <=> ~ Before(search.columns, search.snap, high, id)
      <4>1. id \in Ids /\ search.snap[id] \in Rows
        BY <1>1, <3>4, StillToCome
      <4>2. CASE id \in After
        <5>1. id \in shown <=> ~ Before(search.columns, search.snap, high, id)
          BY <1>2, <2>2, <2>4, <3>1, <4>2, PageIsPrefix
        <5>2. id \notin walk.seen
          BY <1>1, <3>4, <4>2, StillToCome
        <5> QED
          BY <2>3, <5>1, <5>2
      <4>3. CASE id \notin After
        <5>1. id \in walk.seen /\ ~ FirstPage
              /\ ~ OrderedBefore(search.columns, TRUE, search.position.values,
                                 Key(search.columns, search.snap[id]))
          BY <1>1, <3>4, <4>3, StillToCome DEF After, Snapshot
        <5>2. Resumes(search.columns, search.position.values, search.params.filter,
                      search.snap)
          BY <1>1, <1>10, <5>1 DEF IInv, SnapOK
        <5>3. OrderedBefore(search.columns, TRUE, search.position.values, values)
          <6>1. KeysetPredicate(search.columns, TRUE, search.position.values, values)
            BY <2>1, <3>3, <5>1 DEF After, Snapshot, Order, Effective, NullsLast
          <6> HIDE DEF values
          <6> QED
            BY <1>2, <3>3, <5>2, <6>1, KeysetIsOrder DEF Resumes, Keys
        <5>4. ~ Before(search.columns, search.snap, high, id)
          BY <1>2, <3>3, <4>1, <5>1, <5>2, <5>3, BehindCursor DEF Before, Resumes
        <5> QED
          BY <2>3, <5>1, <5>4
      <4> QED
        BY <4>2, <4>3
    <3>5. Cols(page.next.sort)' = search.columns
      <4>1. Cols(page.next.sort)' = SortColumns(page'.next.sort, config'.sortables)
        BY DEF Cols
      <4> QED
        BY <1>1, <2>1, <3>2, <4>1 DEF Cols
    <3>6. \A id \in walk.steady : search.snap[id] = table[id]
      BY <1>1 DEF IInv, SnapOK
    <3> HIDE DEF values
    <3>7. Resumes(Cols(page.next.sort), page.next.values, page.params.filter, table)'
      <4>1. \A id \in walk.steady : table[id] \in search.params.filter =>
                (id \in walk'.seen
                     <=> ~ OrderedBefore(search.columns, TRUE, values,
                                         Key(search.columns, table[id])))
        BY <3>4, <3>6 DEF Before, values
      <4> QED
        BY <1>1, <1>2, <1>4, <1>5, <3>2, <3>3, <3>5, <4>1 DEF Resumes
    <3> QED
      BY <1>5, <2>1, <2>5, <3>7
  <2>6. CASE page'.next = Null
    <3> SUFFICES ASSUME search.params.limit > 0, NEW id \in walk.steady,
                        table[id] \in search.params.filter
                 PROVE  id \in walk'.seen
      BY <1>5, <2>1, <2>6
    <3>1. search.snap[id] = table[id]
      BY <1>1 DEF IInv, SnapOK
    <3>2. id \in After <=> id \notin walk.seen
      BY <1>1, <3>1, StillToCome
    <3>3. shown = After
      <4>1. \A high \in shown : Link(TRUE, "next", high) # Null
        BY <1>1, <2>4, LinkTyped DEF IInv, Base
      <4>2. search.params.limit # 0 /\ Cardinality({}) = 0
        BY FS_EmptySet
      <4> QED
        BY <2>2, <2>6, <4>1, <4>2
    <3> QED
      BY <2>3, <3>2, <3>3
  <2> QED
    BY <1>5, <2>1, <2>5, <2>6
<1>11. WalkOK'
  BY <1>1, <1>4, <1>10 DEF WalkOK
<1> QED
  BY <1>6, <1>7, <1>8, <1>9, <1>11 DEF IInv

-----------------------------------------------------------------------------
(* The steps of everyone else.                                             *)

\* A record that is written is not an untouched one any more.
LEMMA WriteInv == ASSUME IInv, NEW id \in Ids, Write(id) PROVE IInv'
<1>1. /\ UNCHANGED <<config, search, page, origin>>
      /\ writes > 0 /\ writes' = writes - 1
      /\ walk' = [walk EXCEPT !.steady = @ \ {id}]
  BY DEF Write
<1>2. PICK row \in RowsOf(id) \cup {Null} : table' = [table EXCEPT ![id] = row]
  BY DEF Write
<1>4. /\ walk'.steady = walk.steady \ {id} /\ walk'.seen = walk.seen
      /\ walk'.again = walk.again
  BY <1>1 DEF IInv, Base, TypeOK
<1>5. \A other \in walk'.steady :
          other \in walk.steady /\ other \in Ids /\ table'[other] = table[other]
  BY <1>2, <1>4 DEF IInv, Base, TypeOK, Tables
<1>6. Base'
  BY WriteBase DEF IInv
<1>7. LinksOK' /\ SearchOK'
  BY <1>1 DEF IInv, LinksOK, SearchOK, Links
<1>8. WalkOK'
  BY <1>1, <1>4, <1>5 DEF IInv, WalkOK, Resumes, Cols
<1>9. SnapOK'
  BY <1>1, <1>4, <1>5 DEF IInv, SnapOK, Resumes, Cols, FirstPage, Forward
<1>10. SteadyOK' /\ NothingTwice'
  BY <1>4, <1>5 DEF IInv, SteadyOK, NothingTwice
<1> QED
  BY <1>6, <1>7, <1>8, <1>9, <1>10 DEF IInv

\* A reconfiguration ends what is promised to the walk in progress.
LEMMA ReconfigureInv == ASSUME IInv, Reconfigure PROVE IInv'
<1>1. /\ UNCHANGED <<table, search, page, origin>> /\ config' \in Configs
      /\ writes > 0 /\ writes' = writes - 1
      /\ walk' = [walk EXCEPT !.steady = {}]
  BY DEF Reconfigure
<1>2. /\ walk'.steady = {} /\ walk'.seen = walk.seen /\ walk'.again = walk.again
  BY <1>1 DEF IInv, Base, TypeOK
<1>3. Base'
  BY ReconfigureBase DEF IInv
<1>4. SnapOK'
  BY <1>1, <1>2 DEF IInv, SnapOK, FirstPage
<1> QED
  BY <1>1, <1>2, <1>3, <1>4
     DEF IInv, LinksOK, SearchOK, WalkOK, SteadyOK, NothingTwice, Links

LEMMA StutterInv == ASSUME IInv, UNCHANGED vars PROVE IInv'
<1>1. Base'
  BY StutterBase DEF IInv
<1> QED
  BY <1>1 DEF vars, IInv, LinksOK, SearchOK, WalkOK, SnapOK, SteadyOK, NothingTwice, Links,
              Resumes, Cols, FirstPage, Forward

LEMMA NextInv == ASSUME IInv, IdIsIdentifier, [Next]_vars PROVE IInv'
<1>1. CASE Request
  BY <1>1, AskInv DEF Request
<1>2. CASE SearchFails
  BY <1>2, SearchFailsInv
<1>3. CASE Count
  BY <1>3, CountInv
<1>4. CASE PageRecords
  BY <1>4, PageRecordsInv
<1>5. CASE \E id \in Ids : Write(id)
  BY <1>5, WriteInv
<1>6. CASE Reconfigure
  BY <1>6, ReconfigureInv
<1>7. CASE UNCHANGED vars
  BY <1>7, StutterInv
<1> QED
  BY <1>1, <1>2, <1>3, <1>4, <1>5, <1>6, <1>7 DEF Next

\* The invariant that the properties follow from.
THEOREM Invariant == ASSUME IdIsIdentifier PROVE Spec => []IInv
<1>1. IdIsIdentifier /\ IInv /\ [Next]_vars => IInv'
  BY NextInv
<1> QED
  BY <1>1, InitInv, PTL DEF Spec

\* Following the "next" links of postgres/search.go's pages to the end, with
\* any sort order, page size, number of records and writes in between,
\* delivers every matching record that was there at the start and that nobody
\* has touched, provided "id" sorts by the record identifier.
THEOREM NothingIsSkipped == ASSUME IdIsIdentifier PROVE Spec => []NothingSkipped
<1>1. IInv => NothingSkipped
  BY DEF IInv, WalkOK, NothingSkipped
<1> QED
  BY <1>1, Invariant, PTL

\* No untouched record is delivered twice on such a walk.
THEOREM NothingComesTwice == ASSUME IdIsIdentifier PROVE Spec => []NothingTwice
<1>1. IInv => NothingTwice
  BY DEF IInv
<1> QED
  BY <1>1, Invariant, PTL

-----------------------------------------------------------------------------
(* There and back.                                                         *)

Shown(p) == Matching(p.snap, p.params.filter)
KeyOf(p, id) == Key(p.columns, p.snap[id])

\* On this side, a page ends at a row of its own, has every record between its
\* two ends, and has a link only if it is full or begins with the others.
Side(p, direction) ==
    /\ Far(p, direction) \in p.rows
    /\ \A id \in p.rows : ~ Ahead(direction, p.columns, KeyOf(p, Far(p, direction)), KeyOf(p, id))
    /\ \A id \in Shown(p) \ p.rows :
           \/ Ahead(direction, p.columns, KeyOf(p, Far(p, direction)), KeyOf(p, id))
           \/ Ahead(direction, p.columns, KeyOf(p, id), KeyOf(p, Near(p, direction)))
    /\ LinkOf(p, direction) # Null =>
           /\ LinkOf(p, direction).values = KeyOf(p, Far(p, direction))
           /\ \/ Cardinality(p.rows) = p.params.limit
              \/ \A id \in Shown(p) \ p.rows :
                     Ahead(direction, p.columns, KeyOf(p, Far(p, direction)), KeyOf(p, id))

\* A page is a run of the records that match, as long as the limit at most.
Run(p) ==
    /\ Cardinality(p.rows) <= p.params.limit
    /\ p.rows \subseteq Shown(p)
    /\ p.rows = {} => p.next = Null /\ p.prev = Null
    /\ p.rows # {} => Side(p, "next") /\ Side(p, "prev")

PageOK == page # Null => Run(page)

\* The page before this one is a run too, and this one begins where it ends if
\* the records and the columns are still the same.
OriginOK ==
    origin # Null =>
        /\ origin.by \in {"next", "prev"}
        /\ Run(origin.from)
        /\ LinkOf(origin.from, origin.by) # Null
        /\ page.params.filter = origin.from.params.filter
        /\ page.rows # {} /\ page.snap = origin.from.snap /\ page.columns = origin.from.columns =>
               \A id \in Shown(page) :
                   Ahead(origin.by, page.columns, KeyOf(page, Far(origin.from, origin.by)),
                         KeyOf(page, id))
                   <=> ~ Ahead(origin.by, page.columns, KeyOf(page, id),
                               KeyOf(page, Near(page, origin.by)))

\* Record x comes before record y in the page that is read.
Comes(direction, x, y) ==
    Ahead(direction, search.columns, Key(search.columns, search.snap[x]),
                                     Key(search.columns, search.snap[y]))

\* With the identifier among the columns, the records that match are in a
\* strict total order.
LEMMA ComesOrder ==
    ASSUME IInv, search.pc = "page", NEW direction \in {"next", "prev"},
           NEW x \in Matching(search.snap, search.params.filter),
           NEW y \in Matching(search.snap, search.params.filter),
           NEW z \in Matching(search.snap, search.params.filter)
    PROVE  /\ ~ Comes(direction, x, x)
           /\ Comes(direction, x, y) /\ Comes(direction, y, z) => Comes(direction, x, z)
           /\ x # y => Comes(direction, x, y) \/ Comes(direction, y, x)
           /\ Comes(Back(direction), x, y) <=> Comes(direction, y, x)
<1> DEFINE a == Key(search.columns, search.snap[x])
           b == Key(search.columns, search.snap[y])
           c == Key(search.columns, search.snap[z])
<1>1. /\ a \in Positions(search.columns) /\ b \in Positions(search.columns)
      /\ c \in Positions(search.columns) /\ search.columns \in Seq(Columns)
  BY MatchTyped DEF IInv, Base
<1>2. x # y => a # b
  BY KeysDiffer DEF IInv, Base, TypeOK, Requests, SnapOK, Matching
<1> HIDE DEF a, b, c
<1>3. /\ ~ Ahead(direction, search.columns, a, a)
      /\ Ahead(direction, search.columns, a, b) /\ Ahead(direction, search.columns, b, c)
             => Ahead(direction, search.columns, a, c)
      /\ a # b => Ahead(direction, search.columns, a, b) \/ Ahead(direction, search.columns, b, a)
      /\ Ahead(Back(direction), search.columns, a, b) <=> Ahead(direction, search.columns, b, a)
  BY <1>1, AheadIrreflexive, AheadTransitive, AheadTotal, AheadTurned
<1> QED
  BY <1>2, <1>3 DEF Comes, a, b, c

\* How the records lie around a page.
LEMMA PageOrder ==
    ASSUME IInv, PageRecords, page'.rows # {}
    PROVE  /\ Near(page', Direction) \in page'.rows /\ Far(page', Direction) \in page'.rows
           /\ page'.rows \subseteq After
           /\ \A id \in page'.rows : ~ Comes(Direction, Far(page', Direction), id)
           /\ \A id \in After : ~ Comes(Direction, id, Near(page', Direction))
           /\ \A id \in page'.rows, other \in After \ page'.rows : Comes(Direction, id, other)
           /\ \A id \in Matching(search.snap, search.params.filter) \ After :
                  ~ FirstPage /\ Comes(Direction, id, Near(page', Direction))
<1> DEFINE near == Near(page', Direction)
           far == Far(page', Direction)
           rows == page'.rows
           M == Matching(search.snap, search.params.filter)
<1>1. /\ rows \subseteq After /\ near \in rows /\ far \in rows
      /\ \A id \in rows, other \in After \ rows : ~ Sorted(other, id)
      /\ \A id \in rows : ~ Sorted(id, near) /\ ~ Sorted(far, id)
  BY PageShape DEF IInv, Base
<1>2. /\ After \subseteq M /\ search.pc = "page" /\ Direction \in {"next", "prev"}
  BY DirectionTyped DEF After, Snapshot, PageRecords, IInv, Base
<1>3. \A x, y \in M : Sorted(x, y) <=> Comes(Direction, x, y)
  BY <1>2, SortedAhead DEF IInv, Base, Comes
<1> HIDE DEF near, far, rows, M
<1>4. \A id \in After : ~ Comes(Direction, id, near)
  BY <1>1, <1>2, <1>3
<1>5. \A id \in rows, other \in After \ rows : Comes(Direction, id, other)
  BY <1>1, <1>2, <1>3, ComesOrder DEF M
<1>6. ASSUME NEW id \in M \ After
      PROVE  ~ FirstPage /\ Comes(Direction, id, near)
  <2> DEFINE values == search.position.values
             this == Key(search.columns, search.snap[id])
             start == Key(search.columns, search.snap[near])
  <2>1. /\ ~ FirstPage /\ values \in Positions(search.columns)
        /\ ~ Ahead(Direction, search.columns, values, this)
    BY <1>2, AheadOfCursor DEF M, IInv
  <2>2. Ahead(Direction, search.columns, values, start)
    BY <1>1, <1>2, <2>1, AheadOfCursor DEF M, IInv
  <2>3. /\ this \in Positions(search.columns) /\ start \in Positions(search.columns)
        /\ search.columns \in Seq(Columns)
    BY <1>1, <1>2, MatchTyped DEF M, IInv, Base
  <2> HIDE DEF values, this, start
  <2>4. ~ Ahead(Direction, search.columns, start, this)
    BY <1>2, <2>1, <2>2, <2>3, AheadTransitive
  <2>5. ~ Comes(Direction, near, id)
    BY <2>4 DEF Comes, this, start
  <2>6. id # near /\ id \in M /\ near \in M
    BY <1>1, <1>2
  <2> QED
    BY <1>2, <2>1, <2>5, <2>6, ComesOrder DEF M
<1> QED
  BY <1>1, <1>2, <1>3, <1>4, <1>5, <1>6 DEF near, far, rows, M

\* Every page is a run.
LEMMA PageIsRun == ASSUME IInv, PageRecords PROVE Run(page')
<1> DEFINE M == Matching(search.snap, search.params.filter)
           near == Near(page', Direction)
           far == Far(page', Direction)
           rows == page'.rows
           more == Cardinality(After) > search.params.limit
<1>1. /\ page'.params = search.params /\ page'.columns = search.columns
      /\ page'.snap = search.snap /\ rows \subseteq After
      /\ more => Cardinality(rows) = search.params.limit
      /\ more \/ rows = After
      /\ \/ rows = {} /\ page'.next = Null /\ page'.prev = Null
         \/ /\ near \in rows
            /\ LinkOf(page', Direction) = Link(more, Direction, far)
            /\ LinkOf(page', Back(Direction)) = Link(~ FirstPage, Back(Direction), near)
  BY PageShape DEF IInv, Base
<1>2. /\ After \subseteq M /\ search.pc = "page" /\ Direction \in {"next", "prev"}
      /\ Back(Direction) \in {"next", "prev"} /\ Back(Back(Direction)) = Direction
  BY DirectionTyped DEF After, Snapshot, PageRecords, IInv, Base, Back
<1>3. /\ Shown(page') = M
      /\ \A id : KeyOf(page', id) = Key(search.columns, search.snap[id])
  BY <1>1 DEF Shown, KeyOf
<1>4. \A direction, x, y :
          Ahead(direction, page'.columns, KeyOf(page', x), KeyOf(page', y))
              <=> Comes(direction, x, y)
  BY <1>1, <1>3 DEF Comes
<1>9. Cardinality(rows) <= search.params.limit
  <2>1. M \subseteq Ids
    BY DEF Matching
  <2>2. Cardinality(After) \in Nat /\ search.params.limit \in Nat
    BY <1>2, <2>1, IdsAssumption, FS_Subset, FS_CardinalityType, SearchAssumption
       DEF IInv, Base, TypeOK, Searches
  <2> QED
    BY <1>1, <2>2
<1>5. CASE rows = {}
  BY <1>1, <1>5, <1>9 DEF Run
<1>6. CASE rows # {}
  <2>1. /\ near \in rows /\ far \in rows
        /\ \A id \in rows : ~ Comes(Direction, far, id) /\ ~ Comes(Direction, id, near)
        /\ \A id \in M \ rows : Comes(Direction, far, id) \/ Comes(Direction, id, near)
        /\ \A id \in After \ rows : Comes(Direction, far, id)
        /\ \A id \in M \ After : Comes(Direction, id, near)
    BY <1>1, <1>6, PageOrder
  <2>2. \A id \in M : /\ Comes(Back(Direction), near, id) <=> Comes(Direction, id, near)
                      /\ Comes(Back(Direction), id, far) <=> Comes(Direction, far, id)
    BY <1>1, <1>2, <2>1, ComesOrder
  <2>3. Near(page', Back(Direction)) = far /\ Far(page', Back(Direction)) = near
    BY <1>2 DEF Far
  <2>4. Side(page', Direction)
    <3>1. LinkOf(page', Direction) # Null => more
      BY <1>1, <1>6 DEF Link
    <3>2. more => LinkOf(page', Direction) = Link(TRUE, Direction, far)
      BY <1>1, <1>6 DEF Link
    <3>3. Link(TRUE, Direction, far).values = KeyOf(page', far)
      <4>1. far \in Matching(search.snap, search.params.filter)
        BY <1>1, <1>2, <2>1
      <4> HIDE DEF far
      <4>2. Link(TRUE, Direction, far).values = Key(search.columns, search.snap[far])
        BY <1>2, <4>1, LinkTyped DEF IInv, Base
      <4> QED
        BY <1>3, <4>2
    <3> HIDE DEF M, near, rows, more
    <3> QED
      BY <1>1, <1>3, <1>4, <2>1, <3>1, <3>2, <3>3 DEF Side, near, rows
  <2>5. Side(page', Back(Direction))
    <3>1. LinkOf(page', Back(Direction)) # Null =>
              /\ ~ FirstPage
              /\ LinkOf(page', Back(Direction)) = Link(TRUE, Back(Direction), near)
      BY <1>1, <1>6 DEF Link
    <3>2. Link(TRUE, Back(Direction), near).values = KeyOf(page', near)
      <4>1. near \in Matching(search.snap, search.params.filter)
        BY <1>1, <1>2, <2>1
      <4> HIDE DEF near
      <4>2. Link(TRUE, Back(Direction), near).values = Key(search.columns, search.snap[near])
        BY <1>2, <4>1, LinkTyped DEF IInv, Base
      <4> QED
        BY <1>3, <4>2
    <3>3. \/ Cardinality(rows) = search.params.limit
          \/ \A id \in M \ rows : Comes(Back(Direction), near, id)
      BY <1>1, <2>1, <2>2
    <3> HIDE DEF M, near, far, rows, more
    <3>4. \A id \in rows : ~ Comes(Back(Direction), near, id)
      BY <1>1, <1>2, <2>1, <2>2
    <3>5. \A id \in M \ rows : \/ Comes(Back(Direction), near, id)
                               \/ Comes(Back(Direction), id, far)
      BY <2>1, <2>2
    <3> QED
      BY <1>1, <1>3, <1>4, <2>1, <2>3, <3>1, <3>2, <3>3, <3>4, <3>5 DEF Side, rows
  <2>6. {Direction, Back(Direction)} = {"next", "prev"}
    BY <1>2 DEF Back
  <2>7. Side(page', "next") /\ Side(page', "prev")
    <3>1. \A d \in {Direction, Back(Direction)} : Side(page', d)
      BY <2>4, <2>5
    <3> QED
      BY <2>6, <3>1
  <2> QED
    BY <1>1, <1>2, <1>3, <1>6, <1>9, <2>7 DEF Run
<1> QED
  BY <1>5, <1>6

\* A page that is reached by a link begins where the other page ends.
LEMMA PageJoins ==
    ASSUME IInv, PageOK, PageRecords
    PROVE  OriginOK'
<1> SUFFICES ASSUME origin' # Null PROVE OriginOK'
  BY DEF OriginOK
<1> DEFINE M == Matching(search.snap, search.params.filter)
           d == Direction
<1>1. ~ FirstPage /\ origin' = [from |-> page, by |-> d]
  BY DEF PageRecords
<1>2. search.pc = "page" /\ d \in {"next", "prev"}
  BY DirectionTyped DEF PageRecords, IInv, Base
<1>3. /\ page # Null /\ search.position = LinkOf(page, d) /\ search.position # Null
      /\ search.params.filter = page.params.filter
  BY <1>1, <1>2 DEF FirstPage, Direction, LinkOf, IInv, SearchOK, LinksOK
<1>4. Run(page)
  BY <1>3 DEF PageOK
<1>5. page.rows # {} /\ Side(page, d)
  BY <1>2, <1>3, <1>4 DEF Run, LinkOf
<1>6. search.position.values = KeyOf(page, Far(page, d))
  BY <1>3, <1>5 DEF Side
<1>7. /\ page'.params = search.params /\ page'.columns = search.columns
      /\ page'.snap = search.snap
  BY PageShape DEF IInv, Base
<1>8. ASSUME page'.rows # {}, page'.snap = page.snap, page'.columns = page.columns,
             NEW id \in M
      PROVE  Ahead(d, page'.columns, KeyOf(page', Far(page, d)), KeyOf(page', id))
                 <=> ~ Ahead(d, page'.columns, KeyOf(page', id), KeyOf(page', Near(page', d)))
  <2>1. id \in After <=> Ahead(d, page'.columns, KeyOf(page', Far(page, d)), KeyOf(page', id))
    BY <1>1, <1>2, <1>6, <1>7, <1>8, AheadOfCursor DEF IInv, KeyOf
  <2>2. id \in After <=> ~ Comes(d, id, Near(page', d))
    BY <1>8, PageOrder
  <2> QED
    BY <1>7, <2>1, <2>2 DEF Comes, KeyOf
<1>9. Shown(page') = M
  BY <1>7 DEF Shown
<1> DEFINE from == page
<1>10. origin'.from = from /\ origin'.by = d
  BY <1>1
<1> HIDE DEF M, d
<1> QED
  BY <1>2, <1>3, <1>4, <1>7, <1>8, <1>9, <1>10 DEF OriginOK

\* Two steps of a client that turns round: the second page is the one before
\* the first again.
LEMMA TurnedRound ==
    ASSUME IInv, PageOK, OriginOK, PageRecords, ~ FirstPage, origin # Null,
           origin.by # Direction,
           page.snap = search.snap, page.columns = search.columns,
           origin.from.snap = search.snap, origin.from.columns = search.columns,
           origin.from.params.limit = search.params.limit
    PROVE  page'.rows = origin.from.rows
<1> DEFINE M == Matching(search.snap, search.params.filter)
           d == origin.by
           old == origin.from.rows
           limit == search.params.limit
           far == Far(origin.from, d)
           near == Near(origin.from, d)
<1>1. /\ search.pc = "page" /\ d \in {"next", "prev"} /\ Direction = Back(d)
      /\ Direction \in {"next", "prev"} /\ Back(Direction) = d
  BY DirectionTyped DEF PageRecords, OriginOK, IInv, Base, Back
<1>2. /\ page # Null /\ search.position = LinkOf(page, Direction) /\ search.position # Null
      /\ search.params.filter = page.params.filter
  BY <1>1 DEF FirstPage, Direction, LinkOf, IInv, SearchOK, LinksOK
<1>3. page.rows # {} /\ Side(page, Direction) /\ Run(page)
  BY <1>1, <1>2 DEF PageOK, Run, LinkOf
<1>4. search.position.values = KeyOf(page, Near(page, d))
  BY <1>1, <1>2, <1>3 DEF Side, Far
<1>5. Run(origin.from) /\ LinkOf(origin.from, d) # Null
      /\ page.params.filter = origin.from.params.filter
  BY DEF OriginOK
<1>6. old # {} /\ Side(origin.from, d) /\ Side(origin.from, Back(d)) /\ old \subseteq M
  BY <1>1, <1>2, <1>5 DEF Run, LinkOf, Shown, Back
<1>7. \A x, y : Ahead(d, origin.from.columns, KeyOf(origin.from, x), KeyOf(origin.from, y))
                    <=> Comes(d, x, y)
  BY DEF Comes, KeyOf
<1>8. /\ \A id \in old : ~ Comes(d, far, id) /\ ~ Comes(d, id, near)
      /\ far \in old /\ near \in old
      /\ \A id \in M \ old : Comes(d, far, id) \/ Comes(d, id, near)
      /\ Cardinality(old) = limit \/ \A id \in M \ old : Comes(d, far, id)
  <2>1. Shown(origin.from) = M
    BY <1>2, <1>5 DEF Shown
  <2>2. Far(origin.from, Back(d)) = near /\ Near(origin.from, Back(d)) = far
    BY <1>1 DEF Far
  <2>3. \A x, y : Ahead(Back(d), origin.from.columns, KeyOf(origin.from, x),
                        KeyOf(origin.from, y)) <=> Comes(d, y, x)
    BY <1>1, <1>7, AheadTurned
  <2>4. /\ far \in old
        /\ \A id \in old : ~ Comes(d, far, id)
        /\ \A id \in M \ old : Comes(d, far, id) \/ Comes(d, id, near)
        /\ Cardinality(old) = limit \/ \A id \in M \ old : Comes(d, far, id)
    BY <1>5, <1>6, <1>7, <2>1 DEF Side
  <2>5. near \in old /\ \A id \in old : ~ Comes(d, id, near)
    BY <1>6, <2>2, <2>3 DEF Side
  <2> QED
    BY <2>4, <2>5
<1>9. \A id \in M : id \in After <=> ~ Comes(d, far, id)
  <2> TAKE id \in M
  <2>1. id \in After <=> Ahead(Direction, search.columns, KeyOf(page, Near(page, d)),
                               KeyOf(page, id))
    BY <1>1, <1>4, AheadOfCursor DEF IInv, KeyOf
  <2>2. id \in After <=> Ahead(d, search.columns, KeyOf(page, id), KeyOf(page, Near(page, d)))
    BY <1>1, <2>1, AheadTurned
  <2>3. Ahead(d, page.columns, KeyOf(page, far), KeyOf(page, id))
            <=> ~ Ahead(d, page.columns, KeyOf(page, id), KeyOf(page, Near(page, d)))
    BY <1>2, <1>3 DEF OriginOK, Shown
  <2> QED
    BY <2>2, <2>3 DEF Comes, KeyOf
<1>10. /\ After \subseteq M /\ old \subseteq After /\ IsFiniteSet(After)
  <2>1. After \subseteq M /\ M \subseteq Ids
    BY DEF After, Snapshot, Matching
  <2> QED
    BY <1>6, <1>8, <1>9, <2>1, IdsAssumption, FS_Subset
<1>11. \A x \in After \ old, y \in old : Comes(d, x, y)
  <2> TAKE x \in After \ old, y \in old
  <2>1. x \in M /\ y \in M /\ near \in M /\ Comes(d, x, near) /\ ~ Comes(d, y, near)
    BY <1>6, <1>8, <1>9, <1>10
  <2> HIDE DEF M, near, d
  <2>2. y = near \/ Comes(d, near, y)
    BY <1>1, <2>1, ComesOrder DEF M
  <2> QED
    BY <1>1, <2>1, <2>2, ComesOrder DEF M
<1>12. PICK rows \in SUBSET After :
           /\ page'.rows = rows
           /\ Cardinality(After) > limit => Cardinality(rows) = limit
           /\ Cardinality(After) > limit \/ rows = After
           /\ \A id \in rows, other \in After \ rows : ~ Sorted(other, id)
  BY PageShape DEF IInv, Base
<1>13. \A x \in rows, y \in After \ rows : ~ Comes(d, x, y)
  <2> TAKE x \in rows, y \in After \ rows
  <2>1. ~ Sorted(y, x) /\ x \in M /\ y \in M
    BY <1>10, <1>12
  <2>2. ~ Comes(Direction, y, x)
    BY <1>1, <2>1, SortedAhead DEF IInv, Base, Comes
  <2> QED
    BY <1>1, <2>1, <2>2, ComesOrder
<1> HIDE DEF M, d, old, limit, far, near
<1>14. rows \subseteq old \/ old \subseteq rows
  BY <1>10, <1>11, <1>13
<1>15. limit \in Nat /\ IsFiniteSet(old) /\ IsFiniteSet(rows)
       /\ Cardinality(old) \in Nat /\ Cardinality(rows) \in Nat /\ Cardinality(After) \in Nat
  BY <1>1, <1>10, FS_Subset, FS_CardinalityType, SearchAssumption
     DEF limit, IInv, Base, TypeOK, Searches
<1>16. ASSUME Cardinality(old) = limit PROVE rows = old
  <2>1. CASE Cardinality(After) > limit
    BY <1>12, <1>14, <1>15, <1>16, <2>1, FS_Subset
  <2>2. CASE ~ (Cardinality(After) > limit)
    <3>1. rows = After
      BY <1>12, <2>2
    <3>2. Cardinality(old) <= Cardinality(After)
      BY <1>10, FS_Subset
    <3>3. Cardinality(old) = Cardinality(After)
      BY <1>15, <1>16, <2>2, <3>2
    <3> QED
      BY <1>10, <3>1, <3>3, FS_Subset
  <2> QED
    BY <2>1, <2>2
<1>17. ASSUME \A id \in M \ old : Comes(d, far, id) PROVE rows = old
  <2>1. After = old
    BY <1>9, <1>10, <1>17
  <2>2. Cardinality(old) <= limit
    BY <1>5 DEF Run, old, limit
  <2> QED
    BY <1>12, <1>15, <2>1, <2>2
<1>18. page'.rows = old
  BY <1>8, <1>12, <1>16, <1>17
<1> QED
  BY <1>18 DEF old

LEMMA TrailInv ==
    ASSUME IInv, PageOK, OriginOK, [Next]_vars
    PROVE  PageOK' /\ OriginOK'
<1>1. CASE PageRecords
  <2>1. PageOK'
    BY <1>1, PageIsRun DEF PageOK
  <2> QED
    BY <1>1, <2>1, PageJoins
<1>2. CASE ~ PageRecords
  <2>1. UNCHANGED <<page, origin>>
    BY <1>2 DEF Next, vars, Request, Ask, SearchFails, Count, Write, Reconfigure
  <2> QED
    BY <2>1 DEF PageOK, OriginOK
<1> QED
  BY <1>1, <1>2

\* The "prev" link of a page that was reached by a "next" link leads back to
\* the same records, and the other way round, as long as the records, the
\* columns and the limit are the same: the backward query of postgres/search.go,
\* reversed order, NULLs first and rows put back in order, undoes the forward
\* one, provided "id" sorts by the record identifier.
THEOREM ThereAndBack == ASSUME IdIsIdentifier PROVE Spec => BackAndForth
<1>1. Init => PageOK /\ OriginOK
  BY DEF Init, PageOK, OriginOK
<1>2. IInv /\ PageOK /\ OriginOK /\ [Next]_vars => PageOK' /\ OriginOK'
  BY TrailInv
<1>3. Spec => [](IInv /\ PageOK /\ OriginOK)
  BY <1>1, <1>2, Invariant, PTL DEF Spec
<1>4. IInv /\ PageOK /\ OriginOK /\ [Next]_vars =>
          [LET same(p) == /\ p.snap = search.snap
                          /\ p.columns = search.columns
                          /\ p.params.limit = search.params.limit
           IN Answers /\ ~ FirstPage /\ origin # Null /\ origin.by # Direction
                  /\ same(page) /\ same(origin.from)
              => page'.rows = origin.from.rows]_vars
  BY TurnedRound, OnlyPageRecordsAnswers
<1> QED
  BY <1>3, <1>4, PTL DEF Spec, BackAndForth
=============================================================================
