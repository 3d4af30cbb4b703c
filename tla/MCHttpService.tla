--------------------------- MODULE MCHttpService ---------------------------
(***************************************************************************)
(* Instances of HttpService for TLC: a client that writes a record it has  *)
(* read and may repeat the write, against two requests of another one.     *)
(***************************************************************************)
EXTENDS HttpService, TLC

CONSTANTS c1, c2, a, n, d1, d2, z, u, p, sc1, sc2

write == 1
again == 2
other == 3
last  == 4

\* d2 has no closed start; z is d1 with a null; u is what p makes of a record:
\* valid, and not typed.
MCStart   == [d \in {d1, z, u} |-> 1] @@ d2 :> Nil
MCAccepts == sc1 :> {d1, d2, z, u} @@ sc2 :> {d1, d2, z}
MCMerged  == p :> (d1 :> d2 @@ [d \in {d2, z, u} |-> u])
MCSent    == z :> d1 @@ [d \in {d1, d2, u} |-> d]

MCClient  == write :> c1 @@ again :> c1 @@ other :> c2 @@ last :> c2
MCRetryOf == [r \in {write, other, last} |-> Nil] @@ again :> write

Call(op, doc, tags) == [op |-> op, id |-> a, tags |-> tags, query |-> "typed",
                        media |-> "application/geo+json", doc |-> doc]
Read(op) == Call(op, Nil, <<>>)

MCMinted == [r \in {write, again, other, last} |-> n]

MCCalls ==
    write :> {Call("put", d2, <<"known">>), Call("patch", p, <<"known">>), Call("put", d2, <<>>)} @@
    again :> {} @@
    other :> {Call("patch", p, <<>>), Call("delete", Nil, <<>>), Read("describe"), Read("facets"),
              Read("schema"), Read("ready")} @@
    last  :> {Call("put", z, <<>>), Call("post", d1, <<>>), Call("put", u, <<"weak">>),
              Read("search"), Read("get"), Read("queryables"), Read("sortables")}

MCConfigures == {[class |-> "transactional", schema |-> sc1], [class |-> "temporal", schema |-> sc2]}

\* A catalog with a record, and another one without.
MCFound ==
    {[config |-> [class |-> "transactional", schema |-> sc1],
      records |-> a :> [doc |-> d1, version |-> 1] @@ n :> Nil],
     [config |-> [class |-> "temporal", schema |-> sc2],
      records |-> a :> Nil @@ n :> Nil]}
=============================================================================
