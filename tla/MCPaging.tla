------------------------------- MODULE MCPaging -------------------------------
(* Instances of Paging for TLC.                                            *)
EXTENDS Paging

CONSTANT None

MCProps == {"id", "score"}
MCExprs == {"r.id", "score"}
MCNotNull == {"r.id"}
MCRows == {row \in [MCExprs -> (1..3) \cup {None}] :
              row["r.id"] \in Ids /\ row["score"] \in {1, 2, None}}
Field(prop, dir) == [prop |-> prop, dir |-> dir]
Sortables == [p \in MCProps |-> IF p = "id" THEN "r.id" ELSE "score"]
Default == <<Field("score", "desc")>>
MCConfigs == {[sortables |-> Sortables, defaultSort |-> Default],
              [sortables |-> [Sortables EXCEPT !["score"] = None],
               defaultSort |-> <<Field("id", "desc")>>]}
MCSorts == {<<>>, <<Field("score", "asc")>>}
MCFilters == {MCRows, {row \in MCRows : row["score"] # 1}}
=============================================================================
