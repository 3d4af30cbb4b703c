-------------------------------- MODULE Keyset --------------------------------
(***************************************************************************)
(* The ordering half of postgres/search.go and of catalog.NormalizeSort:   *)
(* which columns a search sorts by, the ORDER BY they make, and the        *)
(* predicate that resumes a search after the values of a cursor.  A value  *)
(* is the rank it has in the order of its column, or Null; a key is the    *)
(* tuple of a row's values, one for each column.                           *)
(***************************************************************************)
EXTENDS Integers, Sequences

CONSTANTS
    Props,          \* names of sortables; "id" is one of them
    Exprs,          \* SQL expressions that sortables are mapped to
    NotNullExprs,   \* r.id, r.created_at, r.updated_at: columns NOT NULL
    Null            \* SQL NULL; also "not sortable" and "none"

ASSUME IdAssumption      == "id" \in Props /\ "r.id" \in Exprs
ASSUME NotNullAssumption == NotNullExprs \subseteq Exprs /\ "r.id" \in NotNullExprs
ASSUME NullAssumption    == Null \notin Int \cup Exprs

Directions == {"asc", "desc"}
Fields     == [prop : Props, dir : Directions]
Columns    == [prop : Props, dir : Directions, expr : Exprs]
Values     == Int \cup {Null}

NonNull(column) == column.expr \in NotNullExprs

-----------------------------------------------------------------------------
(* The columns of a search.                                                *)

MaxSortFields == 8
TieBreaker == [prop |-> "id", dir |-> "asc"]

HasId(fields) == \E i \in DOMAIN fields : fields[i].prop = "id"

\* The fields of a request, or the catalog's default order without any.
Requested(sortby, defaults) ==
    IF sortby # <<>> THEN sortby
    ELSE IF defaults # <<>> THEN defaults ELSE <<TieBreaker>>

\* Mutant: a field that is not sortable is let through.
RefusedTooMany(sortby, defaults, sortables) ==
    Len(Requested(sortby, defaults)) > MaxSortFields

\* catalog.NormalizeSort and the store's normalizeSort refuse these.
Refused(sortby, defaults, sortables) ==
    LET fields == Requested(sortby, defaults) IN
    \/ Len(fields) > MaxSortFields
    \/ \E i \in DOMAIN fields : sortables[fields[i].prop] = Null

\* catalog.NormalizeSort: the tie-breaker goes last unless "id" is there.
NormalizeSort(sortby, defaults) ==
    LET fields == Requested(sortby, defaults) IN
    IF HasId(fields) THEN fields ELSE Append(fields, TieBreaker)

Column(field, expr) == [prop |-> field.prop, dir |-> field.dir, expr |-> expr]

\* normalizeSort of postgres/search.go: an expression for each field, found
\* by the name of its property, "id" included; its own tie-breaker is r.id.
SortColumns(fields, sortables) ==
    LET columns == [i \in DOMAIN fields |->
                       Column(fields[i], sortables[fields[i].prop])]
    IN IF HasId(fields) THEN columns
       ELSE Append(columns, Column(TieBreaker, "r.id"))

Opposite(dir) == IF dir = "asc" THEN "desc" ELSE "asc"

\* effectiveSort: a backward page is fetched in the reversed order, with
\* NULLS FIRST.
Reversed(columns) ==
    [i \in DOMAIN columns |-> [columns[i] EXCEPT !.dir = Opposite(@)]]
Effective(columns, direction) ==
    IF direction = "prev" THEN Reversed(columns) ELSE columns
NullsLast(direction) == direction # "prev"

-----------------------------------------------------------------------------
(* ORDER BY and the keyset predicate.                                      *)

\* One column of ORDER BY: value u sorts strictly before value v.
SortsBefore(column, nullsLast, u, v) ==
    \/ /\ u # Null /\ v # Null
       /\ column.dir = "asc" => u < v
       /\ column.dir = "desc" => u > v
    \/ nullsLast /\ u # Null /\ v = Null
    \/ ~ nullsLast /\ u = Null /\ v # Null

\* ORDER BY: key a sorts strictly before key b.
OrderedBefore(columns, nullsLast, a, b) ==
    \E i \in 1..Len(columns) :
        /\ SortsBefore(columns[i], nullsLast, a[i], b[i])
        /\ \A j \in 1..(i - 1) : a[j] = b[j]

\* The comparison of one branch of the predicate, TRUE in SQL's sense: no
\* comparison with NULL is.  There is no branch for a NULL that sorts last.
Comparison(column, nullsLast, value, x) ==
    IF value = Null THEN ~ nullsLast /\ x # Null
    ELSE \/ /\ x # Null
            /\ column.dir = "asc" => x > value
            /\ column.dir = "desc" => x < value
         \/ nullsLast /\ ~ NonNull(column) /\ x = Null

\* Mutant: NULLs never follow a value.
KeysetPredicateNoNulls(columns, nullsLast, values, key) ==
    \E i \in 1..Len(columns) :
        /\ Comparison(columns[i], nullsLast /\ values[i] = Null, values[i], key[i])
        /\ \A j \in 1..(i - 1) : key[j] = values[j]

\* Mutant: rows equal to the cursor in the first column are taken again.
KeysetPredicateFirst(columns, nullsLast, values, key) ==
    \/ key[1] = values[1]
    \/ Comparison(columns[1], nullsLast, values[1], key[1])

\* keysetPredicate: IS NULL, IS NOT DISTINCT FROM or = for the columns before
\* the one that is compared.
KeysetPredicate(columns, nullsLast, values, key) ==
    \E i \in 1..Len(columns) :
        /\ Comparison(columns[i], nullsLast, values[i], key[i])
        /\ \A j \in 1..(i - 1) : key[j] = values[j]
=============================================================================
