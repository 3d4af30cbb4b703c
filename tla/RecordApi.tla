------------------------------ MODULE RecordApi ------------------------------
(***************************************************************************)
(* The operations of the API on a catalog and its records as messages: the *)
(* requests that the generated client writes (client/generated.go), what   *)
(* the generated router of the service takes from them, the answers that   *)
(* it writes (api/generated.go), and what the client reads of those.       *)
(***************************************************************************)
EXTENDS Naturals, Sequences

CONSTANTS
    Typed,      \* the documents that decode into the Go type of a record
    Objects,    \* the merge patches that are JSON objects
    Nil

\* tags: the values of If-Match, each of which is "any", "known", "weak" or
\* "malformed"; query: whether the query parameters have their types.
Message(op, id) == [op |-> op, id |-> id, tags |-> <<>>, query |-> "typed",
                    media |-> Nil, doc |-> Nil]

\* status, the tag in ETag, and the body with its Content-Type.
Response(status, tag, media, body) ==
    [status |-> status, tag |-> tag, media |-> media, body |-> body]

\* (The router's own 400, for a parameter it cannot bind, is text/plain; the media
\* type of an error matters to no property.)
Problem(status) == Response(status, Nil, "application/problem+json", "problem")

-----------------------------------------------------------------------------
(* The client writes a request.  Its editors may add any header, a second  *)
(* If-Match for one.                                                       *)

NewSearchRecordsRequest(call) == [Message("search", Nil) EXCEPT !.query = call.query]

NewHeadRecordsRequest(call) == Message("headAll", Nil)

NewCreateRecordRequest(call) ==
    [Message("post", Nil) EXCEPT !.media = call.media, !.doc = call.doc]

NewDeleteRecordRequest(call) == [Message("delete", call.id) EXCEPT !.tags = call.tags]

NewGetRecordRequest(call) == Message("get", call.id)

NewHeadRecordRequest(call) == Message("head", call.id)

NewPatchRecordRequest(call) ==
    [Message("patch", call.id) EXCEPT !.tags = call.tags, !.media = call.media, !.doc = call.doc]

NewPutRecordRequest(call) ==
    [Message("put", call.id) EXCEPT !.tags = call.tags, !.media = call.media, !.doc = call.doc]

NewGetCatalogRequest(call) == Message("describe", Nil)

NewGetFacetsRequest(call) == Message("facets", Nil)

NewGetQueryablesRequest(call) == Message("queryables", Nil)

NewGetSortablesRequest(call) == Message("sortables", Nil)

NewGetRecordSchemaRequest(call) == [Message("schema", Nil) EXCEPT !.query = call.query]

NewReadyRequest(call) == Message("ready", Nil)

NewRequest(call) ==
    CASE call.op = "search" -> NewSearchRecordsRequest(call)
      [] call.op = "headAll" -> NewHeadRecordsRequest(call)
      [] call.op = "post" -> NewCreateRecordRequest(call)
      [] call.op = "delete" -> NewDeleteRecordRequest(call)
      [] call.op = "get" -> NewGetRecordRequest(call)
      [] call.op = "head" -> NewHeadRecordRequest(call)
      [] call.op = "patch" -> NewPatchRecordRequest(call)
      [] call.op = "put" -> NewPutRecordRequest(call)
      [] call.op = "describe" -> NewGetCatalogRequest(call)
      [] call.op = "facets" -> NewGetFacetsRequest(call)
      [] call.op = "queryables" -> NewGetQueryablesRequest(call)
      [] call.op = "sortables" -> NewGetSortablesRequest(call)
      [] call.op = "schema" -> NewGetRecordSchemaRequest(call)
      [] call.op = "ready" -> NewReadyRequest(call)

-----------------------------------------------------------------------------
(* The router takes parameters and body from a request.  It refuses with   *)
(* 400 what has not the type that the API gives it, before any handler.    *)

Repeated(m) == Len(m.tags) > 1

BindSearchRecords(m) == m.query = "typed"

\* Its parameter is bound, and nobody looks at it.
BindGetRecordSchema(m) == m.query = "typed"

BindDeleteRecord(m) == ~ Repeated(m)

BindPatchRecord(m) == ~ Repeated(m)

BindPutRecord(m) == ~ Repeated(m)

\* Which of its media types a body has; a body of another one is not looked at.
RecordBody(m) == IF m.media \in {"application/geo+json", "application/json"} THEN m.doc ELSE Nil

DecodeRecord(doc) == doc \in Typed

DecodeCreateRecord(m) == RecordBody(m) = Nil \/ DecodeRecord(RecordBody(m))

DecodePutRecord(m) == RecordBody(m) = Nil \/ DecodeRecord(RecordBody(m))

\* PATCH has one media type, and nobody looks at it.
DecodePatchRecord(m) == m.doc \in Objects

-----------------------------------------------------------------------------
(* The answers that the service writes.                                    *)

\* The one answer of a handler that is no problem.
Success(status, response) == IF status = response.status THEN response ELSE Problem(status)

VisitSearchRecords(status) ==
    Success(status, Response(200, Nil, "application/geo+json", "collection"))

VisitHeadRecords(status) == Success(status, Response(200, Nil, Nil, Nil))

VisitCreateRecord(status, tag) ==
    Success(status, Response(201, tag, "application/geo+json", "record"))

VisitDeleteRecord(status) == Success(status, Response(204, Nil, Nil, Nil))

VisitGetRecord(status, tag) ==
    Success(status, Response(200, tag, "application/geo+json", "record"))

VisitHeadRecord(status, tag) == Success(status, Response(200, tag, Nil, Nil))

VisitPatchRecord(status, tag) == Success(status, Response(204, tag, Nil, Nil))

VisitPutRecord(status, tag) ==
    IF status = 201 THEN Response(201, tag, "application/geo+json", "record")
    ELSE Success(status, Response(204, tag, Nil, Nil))

VisitGetCatalog(status) == Success(status, Response(200, Nil, "application/json", "catalog"))

VisitGetFacets(status) == Success(status, Response(200, Nil, "application/facets+json", "facets"))

VisitGetQueryables(status) ==
    Success(status, Response(200, Nil, "application/schema+json", "queryables"))

VisitGetSortables(status) ==
    Success(status, Response(200, Nil, "application/schema+json", "sortables"))

VisitGetRecordSchema(status) ==
    Success(status, Response(200, Nil, "application/schema+json", "schema"))

VisitReady(status) == Success(status, Response(200, Nil, "application/json", "health"))

\* Middleware names a type for the answer to HEAD before the handler runs.
HeadContentType(response) ==
    IF response.media = Nil THEN [response EXCEPT !.media = "application/geo+json"] ELSE response

\* net/http sends no body in answer to HEAD.
WithoutBody(response) == [response EXCEPT !.body = Nil]

Visit(op, status, tag) ==
    CASE op = "search" -> VisitSearchRecords(status)
      [] op = "headAll" -> WithoutBody(HeadContentType(VisitHeadRecords(status)))
      [] op = "post" -> VisitCreateRecord(status, tag)
      [] op = "delete" -> VisitDeleteRecord(status)
      [] op = "get" -> VisitGetRecord(status, tag)
      [] op = "head" -> WithoutBody(HeadContentType(VisitHeadRecord(status, tag)))
      [] op = "patch" -> VisitPatchRecord(status, tag)
      [] op = "put" -> VisitPutRecord(status, tag)
      [] op = "describe" -> VisitGetCatalog(status)
      [] op = "facets" -> VisitGetFacets(status)
      [] op = "queryables" -> VisitGetQueryables(status)
      [] op = "sortables" -> VisitGetSortables(status)
      [] op = "schema" -> VisitGetRecordSchema(status)
      [] op = "ready" -> VisitReady(status)

-----------------------------------------------------------------------------
(* What the client reads of an answer: an empty body is no JSON.           *)

JSON(response) == response.media # Nil

Unmarshal(response, as) == IF response.body = as THEN as ELSE "unreadable"

\* Any answer that says it is JSON is a problem, except for the success.
ParseProblem(response) ==
    IF JSON(response) THEN Unmarshal(response, "problem") ELSE "nothing"

ParseAnswer(response, success, as) ==
    IF JSON(response) /\ response.status = success THEN Unmarshal(response, as)
    ELSE ParseProblem(response)

ParseSearchRecordsResponse(response) == ParseAnswer(response, 200, "collection")

ParseHeadRecordsResponse(response) == ParseProblem(response)

ParseCreateRecordResponse(response) == ParseAnswer(response, 201, "record")

ParseDeleteRecordResponse(response) == ParseProblem(response)

ParseGetRecordResponse(response) == ParseAnswer(response, 200, "record")

ParseHeadRecordResponse(response) == ParseProblem(response)

ParsePatchRecordResponse(response) == ParseProblem(response)

ParsePutRecordResponse(response) == ParseAnswer(response, 201, "record")

ParseGetCatalogResponse(response) == ParseAnswer(response, 200, "catalog")

ParseGetFacetsResponse(response) == ParseAnswer(response, 200, "facets")

ParseGetQueryablesResponse(response) == ParseAnswer(response, 200, "queryables")

ParseGetSortablesResponse(response) == ParseAnswer(response, 200, "sortables")

ParseGetRecordSchemaResponse(response) == ParseAnswer(response, 200, "schema")

\* Its only problem is 503.
ParseReadyResponse(response) ==
    IF response.status \in {200, 503} THEN ParseAnswer(response, 200, "health") ELSE "nothing"

Parse(op, response) ==
    CASE op = "search" -> ParseSearchRecordsResponse(response)
      [] op = "headAll" -> ParseHeadRecordsResponse(response)
      [] op = "post" -> ParseCreateRecordResponse(response)
      [] op = "delete" -> ParseDeleteRecordResponse(response)
      [] op = "get" -> ParseGetRecordResponse(response)
      [] op = "head" -> ParseHeadRecordResponse(response)
      [] op = "patch" -> ParsePatchRecordResponse(response)
      [] op = "put" -> ParsePutRecordResponse(response)
      [] op = "describe" -> ParseGetCatalogResponse(response)
      [] op = "facets" -> ParseGetFacetsResponse(response)
      [] op = "queryables" -> ParseGetQueryablesResponse(response)
      [] op = "sortables" -> ParseGetSortablesResponse(response)
      [] op = "schema" -> ParseGetRecordSchemaResponse(response)
      [] op = "ready" -> ParseReadyResponse(response)
=============================================================================
