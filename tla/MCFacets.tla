------------------------------ MODULE MCFacets ------------------------------
(***************************************************************************)
(* An instance of Facets for TLC: facets of every type over numbers,       *)
(* integers, dates and tags.                                               *)
(***************************************************************************)
EXTENDS Facets

CONSTANTS r1, r2, r3

Row(number, integer, date, tags) ==
    [number |-> number, integer |-> integer, date |-> date, tags |-> tags]

NearRows ==
    {Row(0, 0, -4, <<>>), Row(4, 3, Null, <<1, 2>>), Row(9, 7, 4, <<1, 1>>),
     Row(12, Null, 14, <<3>>), Row(Null, 8, 0, <<2>>)}

NearErrors == {-1, 1}

Symmetry == Permutations(Records)

Facet(type, property, count, sortedBy, minOccurs, default) ==
    [type |-> type, property |-> property, bucketCount |-> count, sortedBy |-> sortedBy,
     minOccurs |-> minOccurs, default |-> default, interval |-> 6,
     filters |-> IF type = "filter"
                 THEN <<{row \in NearRows : row.number \in {0, 4}},
                        {row \in NearRows : row.tags # <<>>}>>
                 ELSE <<>>]

NearDefinitions ==
    [scores |-> Facet("fixedCount", "number", 3, "value", 0, TRUE),
     steps  |-> Facet("fixedInterval", "number", 2, "count", 1, FALSE),
     years  |-> Facet("fixedCount", "integer", 4, "value", 1, FALSE),
     ages   |-> Facet("fixedInterval", "integer", 1, "value", 0, FALSE),
     days   |-> Facet("fixedCount", "date", 2, "value", 1, FALSE),
     weeks  |-> Facet("fixedInterval", "date", 2, "value", 1, FALSE),
     tags   |-> Facet("term", "tags", 2, "count", 1, FALSE),
     often  |-> Facet("term", "tags", 5, "value", 2, FALSE),
     kinds  |-> Facet("filter", "number", 1, "count", 0, FALSE)]

Token(name, count, sort) == [name |-> name, count |-> count, sort |-> sort]
NearParameters ==
    {Null, <<>>,
     <<Token("steps", 3, "value_desc"), Token("kinds", 2, "count_asc")>>,
     <<Token("days", Null, Null), Token("tags", Null, Null)>>,
     <<Token("weeks", 5, Null), Token("kinds", Null, Null)>>,
     <<Token("years", Null, Null)>>,
     <<Token("years", 2, "count_desc"), Token("ages", Null, Null)>>,
     <<Token("often", Null, Null), Token("scores", 2, "count_asc")>>,
     <<Token("tags", 0, Null)>>, <<Token("tags", 1001, Null)>>,
     <<Token("tags", Null, Null), Token("tags", 3, Null)>>,
     <<Token("unknown", Null, Null)>>, <<Token("tags", Null, "random")>>}
=============================================================================
