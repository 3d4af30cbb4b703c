-------------------------- MODULE MCCatalogIndexes --------------------------
(***************************************************************************)
(* Instances of CatalogIndexes for TLC: two catalogs that give a property  *)
(* the format date or none, each with an index on it or without.           *)
(***************************************************************************)
EXTENDS CatalogIndexes, TLC

CONSTANTS s1, s2, s3, A, B, date, string, asDate, asText, day, word

\* The property is a full-date in the document day, another string in word.
MCValid == date :> {day} @@ string :> {day, word}
MCCasts == asDate :> {day} @@ asText :> {day, word}

Bundle(class, shape, auto, facets, declared) ==
    [class |-> class, shape |-> shape, auto |-> auto, facets |-> facets,
     declared |-> declared]
Plain(shape)       == Bundle("transactional", shape, FALSE, {}, {})
Faceted            == Bundle("transactional", date, TRUE, {asDate}, {})
DeclaredToo        == Bundle("transactional", date, TRUE, {asDate}, {asDate})
Temporal           == Bundle("temporal", string, TRUE, {asText}, {})

Apply(c, cf)       == [op |-> "apply", catalog |-> c, conf |-> cf]
Drop(c, cascade)   == [op |-> "drop", catalog |-> c, cascade |-> cascade]
Put(c, doc)        == [op |-> "put", catalog |-> c, doc |-> doc]
Discard(c)         == [op |-> "remove", catalog |-> c]
Search(c)          == [op |-> "search", catalog |-> c]

\* Two administrators whose catalogs share an index, the second of which may
\* search instead, and a session that writes.
SharedMayCall ==
    s1 :> {Apply(A, Faceted), Apply(A, DeclaredToo), Apply(A, Plain(string)), Drop(A, TRUE)} @@
    s2 :> {Apply(B, Faceted), Apply(A, Temporal), Drop(A, FALSE), Search(A)} @@
    s3 :> {Put(A, day), Put(A, word), Discard(A)}
SharedBudget == s1 :> 3 @@ s2 :> 1 @@ s3 :> 2

\* A catalog with an index on a date beside one whose values are strings.
NeighboursMayCall ==
    s1 :> {Apply(A, Faceted)} @@ s2 :> {Apply(B, Plain(string))} @@
    s3 :> {Put(A, day), Put(B, word)}
NeighboursBudget == s1 :> 1 @@ s2 :> 1 @@ s3 :> 1
=============================================================================
