------------------------------- MODULE Facets -------------------------------
(***************************************************************************)
(* postgres/search.go: the facets of one search.  SearchRecords opens a    *)
(* REPEATABLE READ transaction, counts the matching records and then       *)
(* computes each requested facet with one statement or several, while      *)
(* other sessions write records.                                           *)
(*                                                                         *)
(* A number is an integer, in some quantum, and the bound of a bucket a    *)
(* numerator over the "unit" of its bucket.  What PostgreSQL computes in   *)
(* numeric and Go in float64 is off by some error, each time another one,  *)
(* and so is the instant that a bound becomes (search.go:666); what is     *)
(* computed in bigint or in intervals of time is exact.                    *)
(***************************************************************************)
EXTENDS Integers, Sequences, FiniteSets, SequencesExt

CONSTANTS
    Records,      \* the records of the catalog
    Rows,         \* what a record may hold that matches the search: a row is
                  \* [number, integer, date : Int or Null, tags : Seq(Int)]
    Definitions,  \* the facets of the catalog, by name
    Parameters,   \* the values of the facets parameter, NULL when there is none
    Horizon,      \* 2^63 nanoseconds, in the unit of dates
    Saturates,    \* what converting a float64 beyond int64 does: on arm64 it
                  \* saturates, on amd64 it gives the least int64
    Errors,       \* by how much a computation may be off, as numerators
    Slack,        \* what no error exceeds
    MaxWrites,    \* how many writes there are at most (a bound)
    Null

Orders == {"value_asc", "value_desc", "count_asc", "count_desc"}
MaxCount == 1000

\* A facet as Normalize leaves it.  "interval" and "filters" matter to the
\* types that use them; a filter is the set of the rows it selects.
FacetDefinitions ==
    [type : {"term", "fixedCount", "fixedInterval", "filter"},
     property : {"number", "integer", "date", "tags"}, bucketCount : Nat \ {0},
     sortedBy : {"value", "count"}, minOccurs : Nat, default : BOOLEAN,
     interval : Nat \ {0}, filters : Seq(SUBSET Rows)]

\* Normalize: a histogram is over numbers or dates, a filter facet has filters.
ASSUME DefinitionsAssumption ==
    \A f \in DOMAIN Definitions :
        /\ Definitions[f] \in FacetDefinitions
        /\ Definitions[f].type \in {"fixedCount", "fixedInterval"} =>
               Definitions[f].property # "tags"
        /\ Definitions[f].type = "filter" => Definitions[f].filters # <<>>

\* A search meets finitely many records and facets.
ASSUME FiniteAssumption == IsFiniteSet(Records) /\ IsFiniteSet(DOMAIN Definitions)

ASSUME RowsAssumption ==
    \A row \in Rows :
        /\ \A property \in {"number", "integer", "date"} : row[property] \in Int \cup {Null}
        /\ row.tags \in Seq(Int)

ASSUME ParametersAssumption ==
    \A raw \in Parameters \ {Null} : raw \in Seq(Range(raw))

ASSUME HorizonAssumption == Horizon \in Nat \ {0} /\ Saturates \in BOOLEAN
ASSUME ErrorsAssumption == Slack \in Nat /\ Errors # {} /\ Errors \subseteq -Slack .. Slack
ASSUME WritesAssumption == MaxWrites \in Nat
ASSUME NullAssumption == Null \notin Rows \cup Int

VARIABLES
    table,    \* table[r]: the row of r, Null when it does not match
    writes,   \* how many writes there have been
    phase,    \* of the search
    snap,     \* the table when the transaction took its snapshot
    todo,     \* the facets still to be computed, in order
    work,     \* what the facet in progress has read, or Null: the least value and
              \* the greatest, or the counts of the filters so far
    facets    \* the facets computed, by name

vars == <<table, writes, phase, snap, todo, work, facets>>

-----------------------------------------------------------------------------
(* selectFacets.                                                           *)

DefaultSort(def) == IF def.sortedBy = "value" THEN "value_asc" ELSE "count_desc"

\* A token of the parameter is a name with a count and an order, both optional.
RequestOf(token) ==
    LET def == Definitions[token.name] IN
    [name  |-> token.name,
     count |-> IF token.count = Null THEN def.bucketCount ELSE token.count,
     sort  |-> IF token.sort = Null THEN DefaultSort(def) ELSE token.sort]

Acceptable(tokens) ==
    /\ \A i \in DOMAIN tokens :
           /\ tokens[i].name \in DOMAIN Definitions
           /\ tokens[i].count \in {Null} \cup 1 .. MaxCount
           /\ tokens[i].sort \in Orders \cup {Null}
    /\ \A i, j \in DOMAIN tokens : tokens[i].name = tokens[j].name => i = j

\* Without the parameter the default facets, in some fixed order of their
\* names; otherwise those it names.
Selected(raw) ==
    LET defaults == SetToSeq({f \in DOMAIN Definitions : Definitions[f].default})
    IN IF raw = Null
       THEN [i \in DOMAIN defaults |->
                RequestOf([name |-> defaults[i], count |-> Null, sort |-> Null])]
       ELSE [i \in DOMAIN raw |-> RequestOf(raw[i])]

-----------------------------------------------------------------------------
(* What a statement of the transaction computes.                           *)

\* Mutant: READ COMMITTED, every statement reads what is committed by then.
SnapshotNow == table

\* BeginTx with pgx.RepeatableRead.
Snapshot == snap

\* The values of a property in one row: none, one, or the elements of an array.
Elements(row, property) ==
    IF row = Null \/ (property # "tags" /\ row[property] = Null)
    THEN <<>>
    ELSE IF property = "tags" THEN row.tags ELSE <<row[property]>>

\* FROM ... [CROSS JOIN LATERAL jsonb_array_elements_text] WHERE ... IS NOT NULL
Occurrences(t, property) ==
    UNION {{[record |-> r, place |-> i, value |-> Elements(t[r], property)[i]] :
               i \in DOMAIN Elements(t[r], property)} : r \in Records}

Values(t, property) == {o.value : o \in Occurrences(t, property)}

\* GROUP BY key HAVING count(*) >= minOccurs, key being a function of the value
Grouped(key, property, minOccurs) ==
    LET count(k) == Cardinality({o \in Occurrences(Snapshot, property) : key[o.value] = k})
    IN {b \in {[key |-> k, count |-> count(k)] : k \in Range(key)} : b.count >= minOccurs}

\* facetOrder, and the order filterFacet sorts by.
Before(sort, a, b) ==
    CASE sort = "value_asc"  -> a.key < b.key
      [] sort = "value_desc" -> a.key > b.key
      [] sort = "count_asc"  -> a.count < b.count \/ (a.count = b.count /\ a.key < b.key)
      [] sort = "count_desc" -> a.count > b.count \/ (a.count = b.count /\ a.key < b.key)

\* ORDER BY: the bucket at place i is the one with i - 1 before it.
InOrder(sort, buckets) ==
    [i \in 1 .. Cardinality(buckets) |->
        CHOOSE b \in buckets : Cardinality({c \in buckets : Before(sort, c, b)}) = i - 1]

\* Mutant: LIMIT count.
FetchedExact(request) == request.count

\* LIMIT count + 1.
Fetched(request) == request.count + 1

\* The first buckets in the order requested, and whether there are more.
Limited(request, buckets) ==
    LET sorted  == InOrder(request.sort, buckets)
        fetched == SubSeq(sorted, 1, IF Len(sorted) < Fetched(request)
                                     THEN Len(sorted) ELSE Fetched(request))
        more    == Len(fetched) > request.count
    IN [buckets |-> IF more THEN SubSeq(fetched, 1, request.count) ELSE fetched,
        more |-> more]

\* Mutant: no LEAST.
ClampedNot(index, count) == index

\* LEAST(index, count - 1)
Clamped(index, count) == IF index < count THEN index ELSE count - 1

\* A float64 given for a parameter of type bigint: its whole part.
AsBigint(numerator, denominator) == numerator \div denominator

\* The interval that a value is in, counted from 0.  The database divides what the
\* value exceeds the least one by: a bigint by a bigint, or with an error.  The least
\* value as a float64 may exceed what it is: its own interval is then -1.
IndexOf(def, excess, width, count, error) ==
    IF def.property = "integer"
    THEN excess \div AsBigint(width, count)
    ELSE (excess * count + error) \div width

\* time.Unix(0, int64(seconds * 1e9)), for dates.
Instant(def, x, unit) ==
    IF def.property # "date" \/ (-Horizon * unit < x /\ x < Horizon * unit)
    THEN x
    ELSE IF Saturates /\ x > 0 THEN Horizon * unit ELSE -Horizon * unit

\* The upper bound of a bucket of fixedCount is cut off at the greatest value.
CutOff(x, top) == IF x > top THEN top ELSE x

\* The errors of one computation.
ErrorsOf(def) ==
    IF def.type = "fixedInterval" /\ def.property # "number" THEN {0} ELSE Errors

\* The errors of a histogram: SQL computes the interval that each value is in,
\* Go the bounds of each bucket in the order reported, and the greatest value.
Roundings(request, def) ==
    [index : [Values(Snapshot, def.property) -> ErrorsOf(def)], top : ErrorsOf(def),
     low : [1 .. request.count -> ErrorsOf(def)], high : [1 .. request.count -> ErrorsOf(def)]]

\* numericHistogram, fixedCount: count intervals of equal width between the
\* least value and the greatest.
FixedCount(request, def, least, greatest, off) ==
    LET n     == request.count
        width == greatest - least
        index == [v \in Values(Snapshot, def.property) |->
                     Clamped(IndexOf(def, v - least, width, n, off.index[v]), n)]
        start(b) == least * n + b.key * width
        limited == Limited(request, Grouped(index, def.property, def.minOccurs))
    IN [limited EXCEPT !.buckets = [i \in DOMAIN @ |->
            [key |-> @[i].key, count |-> @[i].count, unit |-> n,
             low |-> Instant(def, start(@[i]) + off.low[i], n),
             high |-> Instant(def, CutOff(start(@[i]) + width + off.high[i],
                                          greatest * n + off.top), n)]]]

\* numericHistogram, fixedInterval, from a multiple of the interval; and
\* date_bin with the origin 1970, where "anchor" is 0.
FixedInterval(request, def, anchor, off) ==
    LET index == [v \in Values(Snapshot, def.property) |->
                     (v - anchor + off.index[v]) \div def.interval]
        start(b) == anchor + b.key * def.interval
        limited == Limited(request, Grouped(index, def.property, def.minOccurs))
    IN [limited EXCEPT !.buckets = [i \in DOMAIN @ |->
            [key |-> @[i].key, count |-> @[i].count, unit |-> 1,
             low |-> start(@[i]) + off.low[i],
             high |-> start(@[i]) + def.interval + off.high[i]]]]

\* One value only: a single bucket, and nothing said about more.
SingleValue(def, v, error) ==
    LET count == Cardinality(Occurrences(Snapshot, def.property))
        bound == Instant(def, v + error, 1)
        bucket == [key |-> 0, count |-> count, unit |-> 1, low |-> bound, high |-> bound]
    IN [buckets |-> IF count >= def.minOccurs THEN <<bucket>> ELSE <<>>, more |-> Null]

-----------------------------------------------------------------------------
(* The search.                                                             *)

\* Another session inserts, replaces or deletes a record.
Write(r) ==
    /\ writes < MaxWrites
    /\ writes' = writes + 1
    /\ \E row \in Rows \cup {Null} :
           /\ row # table[r]
           /\ table' = [table EXCEPT ![r] = row]
    /\ UNCHANGED <<phase, snap, todo, work, facets>>

\* The first statements of SearchRecords, up to selectFacets.
Open ==
    /\ phase = "idle"
    /\ \E raw \in Parameters :
           IF raw # Null /\ ~ Acceptable(raw)
           THEN phase' = "refused" /\ UNCHANGED <<snap, todo>>
           ELSE /\ phase' = "open"
                /\ snap' = table
                /\ todo' = Selected(raw)
    /\ UNCHANGED <<table, writes, work, facets>>

\* The loop of computeFacets comes to a facet of one of these types.
Begin(types) ==
    /\ phase = "open" /\ work = Null
    /\ todo # <<>>
    /\ Definitions[Head(todo).name].type \in types

\* The facet is computed, and the loop goes on.
Finish(result) ==
    /\ facets' = [f \in DOMAIN facets \cup {Head(todo).name} |->
                      IF f = Head(todo).name
                      THEN [request |-> Head(todo), buckets |-> result.buckets,
                            more |-> result.more]
                      ELSE facets[f]]
    /\ todo' = Tail(todo)
    /\ work' = Null
    /\ UNCHANGED <<table, writes, phase, snap>>

\* A statement has been read, and another one of the same facet follows.
Continue(progress) ==
    /\ work' = progress
    /\ UNCHANGED <<table, writes, phase, snap, todo, facets>>

\* termFacet, and temporalHistogram with a fixed interval.
ComputeAtOnce ==
    /\ Begin({"term", "fixedInterval"})
    /\ LET request == Head(todo)
           def     == Definitions[request.name]
           value   == [v \in Values(Snapshot, def.property) |-> v]
       IN
       \/ /\ def.type = "term"
          /\ Finish(Limited(request, Grouped(value, def.property, def.minOccurs)))
       \/ /\ def.type = "fixedInterval" /\ def.property = "date"
          /\ \E off \in Roundings(request, def) : Finish(FixedInterval(request, def, 0, off))

\* numericHistogram: SELECT min(...), max(...).
ReadSpan ==
    /\ Begin({"fixedCount", "fixedInterval"})
    /\ LET def    == Definitions[Head(todo).name]
           values == Values(Snapshot, def.property)
       IN
       /\ def.type = "fixedInterval" => def.property # "date"
       /\ IF values = {}
          THEN Finish([buckets |-> <<>>, more |-> Null])
          ELSE Continue([least |-> Min(values), greatest |-> Max(values)])

\* A statement fails, and the search with it.
Fail ==
    /\ phase' = "failed"
    /\ work' = Null
    /\ facets' = <<>>
    /\ UNCHANGED <<table, writes, snap, todo>>

\* The width of the intervals is none in the type of the property.
DividesByZero(request, def, least, greatest) ==
    def.property = "integer" /\ AsBigint(greatest - least, request.count) = 0

\* The rest of numericHistogram.
ComputeHistogram ==
    /\ work # Null
    /\ LET request  == Head(todo)
           def      == Definitions[request.name]
           least    == work.least
           greatest == work.greatest
       IN
       \/ /\ def.type = "fixedInterval"
          /\ \E error \in ErrorsOf(def), off \in Roundings(request, def) :
                 Finish(FixedInterval(request, def,
                            ((least + error) \div def.interval) * def.interval, off))
       \/ /\ def.type = "fixedCount" /\ least = greatest
          /\ \E error \in ErrorsOf(def) : Finish(SingleValue(def, least, error))
       \/ /\ def.type = "fixedCount" /\ least # greatest
          /\ ~ DividesByZero(request, def, least, greatest)
          /\ \E off \in Roundings(request, def) :
                 Finish(FixedCount(request, def, least, greatest, off))
       \/ /\ def.type = "fixedCount" /\ least # greatest
          /\ DividesByZero(request, def, least, greatest)
          /\ Fail

\* filterFacet: one statement for each filter, in the order of a Go map.
CountFilter(i) ==
    LET counts == IF work = Null THEN <<>> ELSE work
        def    == Definitions[Head(todo).name]
    IN
    /\ def.type = "filter"
    /\ i \notin DOMAIN counts
    /\ Continue([j \in DOMAIN counts \cup {i} |->
            IF j = i THEN Cardinality({r \in Records : Snapshot[r] \in def.filters[i]})
            ELSE counts[j]])

\* filterFacet: sort.Slice and the limit.
ComputeFilters ==
    /\ work # Null
    /\ LET def == Definitions[Head(todo).name] IN
       /\ def.type = "filter"
       /\ DOMAIN work = DOMAIN def.filters
       /\ Finish(Limited(Head(todo),
              {b \in {[key |-> i, count |-> work[i]] : i \in DOMAIN work} :
                  b.count >= def.minOccurs}))

\* The page is read and the transaction ends: the client has its answer.
Answer ==
    /\ phase = "open" /\ todo = <<>>
    /\ phase' = "answered"
    /\ UNCHANGED <<table, writes, snap, todo, work, facets>>

\* The client has it, and nothing more happens.
Done ==
    /\ phase \in {"answered", "refused", "failed"}
    /\ UNCHANGED vars

Init ==
    /\ table \in [Records -> Rows \cup {Null}]
    /\ writes = 0
    /\ phase = "idle"
    /\ snap = Null
    /\ todo = <<>>
    /\ work = Null
    /\ facets = <<>>

Next ==
    \/ \E r \in Records : Write(r)
    \/ Open
    \/ ComputeAtOnce
    \/ ReadSpan
    \/ ComputeHistogram
    \/ /\ phase = "open" /\ todo # <<>>
       /\ \E i \in DOMAIN Definitions[Head(todo).name].filters : CountFilter(i)
    \/ ComputeFilters
    \/ Answer
    \/ Done

Spec == Init /\ [][Next]_vars

-----------------------------------------------------------------------------
(* Properties.                                                             *)

Requests == [name : DOMAIN Definitions, count : Nat \ {0}, sort : Orders]
Searches == [Records -> Rows \cup {Null}]

\* The type invariant: no facet has more buckets than were asked for.
TypeOK ==
    /\ table \in Searches
    /\ writes \in 0 .. MaxWrites
    /\ phase \in {"idle", "open", "answered", "refused", "failed"}
    /\ snap \in Searches \cup {Null}
    /\ todo \in Seq(Requests)
    /\ work # Null => phase = "open" /\ todo # <<>>
    /\ DOMAIN facets \subseteq DOMAIN Definitions
    /\ \A f \in DOMAIN facets :
           /\ facets[f].request \in Requests
           /\ facets[f].more \in BOOLEAN \cup {Null}
           /\ Len(facets[f].buckets) <= facets[f].request.count

IsHistogram(f) == Definitions[f].type \in {"fixedCount", "fixedInterval"}

\* A value may be counted in a bucket: it lies between the bounds, or so near to
\* one that the error of the bound and that of the index account for it.
About(v, bucket) ==
    /\ bucket.low - 2 * Slack <= v * bucket.unit
    /\ v * bucket.unit <= bucket.high + 2 * Slack

\* A value has to be counted in a bucket: it lies between the bounds and not that
\* near to one.  Where a histogram of fixedCount ends, nearness does not matter: the
\* greatest value is in the last bucket, whatever the errors.
Inside(v, bucket, f, request) ==
    /\ bucket.low + 2 * Slack <= v * bucket.unit
    /\ \/ v * bucket.unit < bucket.high - 2 * Slack
       \/ Definitions[f].type = "fixedCount" /\ bucket.key = request.count - 1

\* The width of the intervals keeps its value in the type of the property.  If not,
\* the index of a bucket has nothing to do with its bounds (search.go:596).
KeepsWidth(f, request) ==
    LET V     == Values(snap, Definitions[f].property)
        width == Max(V) - Min(V)
    IN Definitions[f].type = "fixedCount" /\ Definitions[f].property = "integer" /\ V # {} =>
           AsBigint(width, request.count) * request.count = width

\* No bound of the bucket is the end of what an int64 holds in nanoseconds, which is
\* reported for every date beyond (search.go:666).
WithinHorizon(f, bucket) ==
    Definitions[f].type = "fixedCount" /\ Definitions[f].property = "date" =>
        \A end \in {-Horizon * bucket.unit, Horizon * bucket.unit} :
            bucket.low # end /\ bucket.high # end

\* Every bucket of a histogram counts, in the table that the search has counted,
\* all values that lie between the bounds reported with it and none that does not,
\* give or take those that lie at a bound: the index computed in SQL and the
\* bounds computed in Go (search.go:596-615) are of the same interval, the greatest
\* value belongs to the last, and writes between the statements are not seen.
BucketsHoldTheirValues ==
    \A f \in DOMAIN facets : IsHistogram(f) /\ KeepsWidth(f, facets[f].request) =>
        \A i \in DOMAIN facets[f].buckets :
            LET bucket == facets[f].buckets[i]
                O == Occurrences(snap, Definitions[f].property)
            IN
            WithinHorizon(f, bucket) =>
                /\ Cardinality({o \in O : Inside(o.value, bucket, f, facets[f].request)})
                       <= bucket.count
                /\ bucket.count <= Cardinality({o \in O : About(o.value, bucket)})

\* The sum of the counts of some buckets.
Total(buckets) ==
    LET sum[n \in 0 .. Len(buckets)] ==
            IF n = 0 THEN 0 ELSE sum[n - 1] + buckets[n].count
    IN sum[Len(buckets)]

\* A facet that does not say there are more buckets, and leaves out no rare
\* ones, accounts for every value of every matching record; a filter facet,
\* for every match of a filter.
CountsAddUp ==
    \A f \in DOMAIN facets :
        LET def == Definitions[f] IN
        facets[f].more # TRUE /\ def.minOccurs <= 1 =>
            Total(facets[f].buckets) =
                IF def.type = "filter"
                THEN Cardinality({x \in Records \X DOMAIN def.filters :
                                     snap[x[1]] \in def.filters[x[2]]})
                ELSE Cardinality(Occurrences(snap, def.property))
=============================================================================
