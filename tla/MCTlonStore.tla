---------------------------- MODULE MCTlonStore ----------------------------
(***************************************************************************)
(* Instances of TlonStore for TLC: two partitions, documents with and      *)
(* without a closed start, and the calls each run lets its sessions make.  *)
(***************************************************************************)
EXTENDS TlonStore, TLC

CONSTANTS s1, s2, s3, a, b, d1, d2, d3, sc1, sc2, t1, t2, x1, x2

MCStart   == d1 :> t1 @@ d2 :> t2 @@ d3 :> Nil
MCAccepts == sc1 :> {d1, d2, d3} @@ sc2 :> {d1, d2}
MCDerived == d1 :> {x1} @@ d2 :> {x2} @@ d3 :> {}

Record(op, id, doc, cond) == [op |-> op, id |-> id, doc |-> doc, cond |-> cond]
Bulk(ids, doc)            == [op |-> "bulk", ids |-> ids, doc |-> doc]
Apply(class, schema)      == [op |-> "apply", class |-> class, schema |-> schema]
Drop(cascade)             == [op |-> "drop", cascade |-> cascade]

\* Writers of two records against each other, one by one and in batches that
\* name them in opposite orders; the administrator creates the catalog, of
\* either class, and may delete it.
WritersMayCall ==
    s1 :> {Record("create", a, d1, Nil), Record("put", a, d1, Nil), Record("delete", a, d1, Nil),
           Record("delete", a, d1, 1), Bulk({a, b}, d1)} @@
    s2 :> {Record("put", a, d2, Nil), Record("put", a, d1, 1), Record("put", a, d2, -1),
           Record("patch", a, d1, 1), Record("merge", a, d2, Nil),
           Record("delete", b, d1, Nil), Bulk({a, b}, d2)} @@
    s3 :> {Apply("transactional", sc1), Apply("temporal", sc1), Drop(TRUE)}
WritersBudget == s1 :> 3 @@ s2 :> 1 @@ s3 :> 2

\* One administrator, who configures the catalog, deletes it and creates it
\* again, under two sessions that write and read one record.
Configurations(schemas) == {Apply(class, sc) : class \in Classes, sc \in schemas}
AdminMayCall ==
    s1 :> {Record("put", a, d, Nil) : d \in {d1, d3}} \cup {Record("delete", a, d1, Nil)} @@
    s2 :> {Record("get", a, d1, Nil), Record("put", a, d2, Nil),
           Record("merge", a, d1, Nil), Bulk({a}, d1)} @@
    s3 :> Configurations({sc1, sc2}) \cup {Drop(TRUE), Drop(FALSE)}
AdminBudget == s1 :> 2 @@ s2 :> 2 @@ s3 :> 3

\* Two administrators at once, and one writer.
TwoAdminsMayCall ==
    s1 :> {Apply("transactional", sc1)} @@ s2 :> {Apply("temporal", sc2)} @@
    s3 :> {Record("put", a, d3, Nil)}
TwoAdminsBudget == s1 :> 1 @@ s2 :> 1 @@ s3 :> 1
=============================================================================
