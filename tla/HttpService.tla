----------------------------- MODULE HttpService -----------------------------
(***************************************************************************)
(* The record endpoints of the HTTP service, from the router to the answer *)
(* (server/records.go, application/application.go), in a process that is   *)
(* started and stopped (cmd/tlon/main.go), over the atomic store that      *)
(* RecordStore promises.  Clients hold entity tags, give up waiting and    *)
(* send a request again while the first may still be on its way.           *)
(***************************************************************************)
EXTENDS Integers, RecordApi

CONSTANTS
    Ids,          \* record identifiers
    Minted,       \* Minted[r]: the UUIDv7 that a POST r gives
    Docs,         \* record documents
    Schemas,      \* record schemas
    Start,        \* Start[d]: the closed start of d's time interval, or Nil
    Accepts,      \* Accepts[sc]: the documents that satisfy schema sc
    Malformed,    \* the documents that Validate or ForPut refuses
    Sent,         \* Sent[d]: what is left of a body d, decoded and encoded again
                  \* without nulls and without what Tlon manages
    Merged,       \* Merged[p][d]: the document d with patch p
    Requests,     \* requests, by number: each is sent once
    Clients,
    Client,       \* Client[r]: who sends r
    Calls,        \* Calls[r]: what r may ask for
    RetryOf,      \* RetryOf[r]: the request that r repeats, or Nil
    Configures,   \* the configurations an administrator applies
    Found,        \* the store as it may be found: the catalog and its records
    MaxTroubles   \* bound: signals, crashes, faults and the administrator's changes

VARIABLES
    config, records,  \* the store
    lives,            \* lives[id]: how often id has been created (history)
    process,          \* phase, and the mode of TLON_AUTH_MODE
    request,          \* request[r]: r, from the client to the answer
    known,            \* known[c][id]: what c knows of id, from the last answer
    troubles          \* how many of them there have been

Store == INSTANCE RecordStore

vars == <<config, records, lives, process, request, known, troubles>>

Mutations == {"post", "put", "patch", "delete"}
Parts == {"queryables", "sortables", "facets", "schema"}
AnyVersion == -1

\* The state of a record: the tag is its version; life and document tell what
\* the tag stands for.
Stamps == [life : Nat \ {0}, version : Nat \ {0}, doc : Docs]
Effects == [id : Ids, was : Stamps \cup {Nil}, now : Stamps \cup {Nil}]

\* What a request may ask for, and which requests name a record.
Operations == Mutations \cup Parts \cup {"search", "headAll", "get", "head", "describe", "ready"}
Addressed == {"get", "head", "put", "patch", "delete"}

\* The absence of a value is none.
ASSUME NilAssumption == Nil \notin Int \cup Requests \cup Stamps \cup Store!Records

ASSUME TypesAssumption ==
    /\ Client \in [Requests -> Clients]
    /\ RetryOf \in [Requests -> Requests \cup {Nil}]
    /\ Minted \in [Requests -> Ids]
    /\ Sent \in [Docs -> Docs]
    /\ Merged \in [Objects -> [Docs -> Docs]]
    /\ Configures \subseteq Store!Configs
    /\ \A found \in Found :
           /\ found.config \in Store!Configs \cup {Nil}
           /\ found.records \in [Ids -> Store!Records \cup {Nil}]

\* A client says what an operation needs.
ASSUME CallsAssumption ==
    \A r \in Requests : \A call \in Calls[r] :
        /\ call.op \in Operations
        /\ call.op \in Addressed => call.id \in Ids
        /\ call.op \in {"put", "post"} => call.doc \in Docs

Stamp(id) ==
    IF records[id] = Nil THEN Nil
    ELSE [life |-> lives[id], version |-> records[id].version, doc |-> records[id].doc]

\* call: the message; cond: the version that If-Match or a merge asks for; base:
\* the stamp that it was taken from; did: what the request has changed; gone: nobody waits for it.
Idle == [phase |-> "unsent", call |-> Nil, id |-> Nil, doc |-> Nil, cond |-> Nil,
         base |-> Nil, status |-> Nil, shown |-> Nil, did |-> Nil, gone |-> FALSE]

Answered(r) == request[r].phase = "answered"
InStore(r) == request[r].phase \in {"reading", "validating", "writing", "inserting"}
InProgress(r) == InStore(r) \/ request[r].phase = "answering"
Waiting(r) == InProgress(r) /\ ~ request[r].gone

Trouble == troubles < MaxTroubles /\ troubles' = troubles + 1

\* The pool of connections: Close is called when Shutdown returns.
PoolOpen == process.phase \in {"serving", "draining"}

\* Checks in the order the code makes them: the status of the first that fails.
Refusal(checks) ==
    LET failed == {i \in DOMAIN checks : checks[i][1]}
    IN  IF failed = {} THEN Nil
        ELSE checks[CHOOSE i \in failed : \A j \in failed : i <= j][2]

-----------------------------------------------------------------------------
(* The process.                                                            *)

\* config.Load, Open, Ping, ListenAndServe.
Serve(mode) ==
    /\ process.phase = "down"
    /\ process' = [phase |-> "serving", mode |-> mode]
    /\ UNCHANGED <<config, records, lives, request, known, troubles>>

\* SIGTERM: Shutdown closes the listener and waits.
Terminate ==
    /\ process.phase = "serving"
    /\ Trouble
    /\ process' = [process EXCEPT !.phase = "draining"]
    /\ UNCHANGED <<config, records, lives, request, known>>

\* Shutdown's context expires; serve returns and the pool is closed.
ShutdownTimeout ==
    /\ process.phase = "draining"
    /\ \E r \in Requests : InProgress(r)
    /\ process' = [process EXCEPT !.phase = "closing"]
    /\ UNCHANGED <<config, records, lives, request, known, troubles>>

\* The end of the process is the end of every handler and connection.
Exit ==
    /\ process' = [process EXCEPT !.phase = "down"]
    /\ request' = [r \in Requests |->
           IF InProgress(r) THEN [request[r] EXCEPT !.phase = "lost"] ELSE request[r]]
    /\ UNCHANGED <<config, records, lives, known>>

\* Shutdown has seen every connection idle, or Close every connection returned.
Stopped ==
    \/ process.phase = "draining" /\ \A r \in Requests : ~ InProgress(r)
    \/ process.phase = "closing" /\ \A r \in Requests : request[r].phase # "inserting"

Stop == Stopped /\ Exit /\ UNCHANGED troubles

Crash ==
    /\ process.phase # "down"
    /\ Trouble
    /\ Exit

-----------------------------------------------------------------------------
(* A request arrives: what its handler decides before it asks the store.   *)

\* etag.Parse, whose complaint about a weak tag does not pass for a client's
\* error.
TagChecks(m) ==
    <<<<m.tags = <<"malformed">>, 400>>,
      <<m.tags = <<"weak">>, 500>>>>

Forbidden(m) == m.op \in Mutations /\ process.mode # "external"

PutChecks(m) ==
    <<<<~ BindPutRecord(m), 400>>, <<~ DecodePutRecord(m), 400>>>> \o TagChecks(m) \o
    <<<<RecordBody(m) = Nil, 404>>, <<Forbidden(m), 403>>, <<RecordBody(m) \in Malformed, 400>>>>

CreateChecks(m) ==
    <<<<~ DecodeCreateRecord(m), 400>>, <<RecordBody(m) = Nil, 404>>, <<Forbidden(m), 403>>,
      <<RecordBody(m) \in Malformed, 400>>>>

\* Mutant: PATCH reads the store, so it asks nobody.
PatchChecksUnasked(m) ==
    <<<<~ BindPatchRecord(m), 400>>, <<~ DecodePatchRecord(m), 400>>>> \o TagChecks(m)

PatchChecks(m) ==
    <<<<~ BindPatchRecord(m), 400>>, <<~ DecodePatchRecord(m), 400>>>> \o TagChecks(m) \o
    <<<<Forbidden(m), 403>>>>

DeleteChecks(m) ==
    <<<<~ BindDeleteRecord(m), 400>>>> \o TagChecks(m) \o <<<<Forbidden(m), 403>>>>

\* The router knows the handler of a request, and so what is checked.
ChecksOf(m) ==
    CASE m.op = "put" -> PutChecks(m)
      [] m.op = "post" -> CreateChecks(m)
      [] m.op = "patch" -> PatchChecks(m)
      [] m.op = "delete" -> DeleteChecks(m)
      [] m.op = "search" -> <<<<~ BindSearchRecords(m), 400>>>>
      [] m.op = "schema" -> <<<<~ BindGetRecordSchema(m), 400>>>>
      [] OTHER -> <<>>

FirstStep(op) ==
    CASE op \in {"put", "post"} -> "validating"
      [] op = "delete" -> "writing"
      [] OTHER -> "reading"

\* expectedVersion: base is where the client has the tag from.
Expected(m, base) ==
    CASE m.tags = <<"any">> -> AnyVersion
      [] m.tags = <<"known">> -> base.version
      [] OTHER -> Nil

\* Mutations with a tag that a client knows are the conditional ones.
Conditional(m) == m.tags = <<"known">>

Received(m, base) ==
    LET refusal == Refusal(ChecksOf(m))
    IN  [Idle EXCEPT !.phase = IF refusal = Nil THEN FirstStep(m.op) ELSE "answering",
                     !.call = m, !.status = refusal, !.base = base,
                     !.cond = Expected(m, base),
                     !.id = m.id,
                     !.doc = IF refusal = Nil /\ m.op \in {"put", "post"} THEN Sent[m.doc] ELSE Nil]

\* A client sends one request after another; it may leave out a repetition.
MaySend(r) ==
    /\ process.phase = "serving"
    /\ request[r].phase = "unsent"
    /\ \A q \in Requests : Client[q] = Client[r] =>
           /\ ~ Waiting(q)
           /\ q < r => request[q].phase # "unsent" \/ RetryOf[q] # Nil

Send(r) ==
    /\ MaySend(r)
    /\ RetryOf[r] = Nil
    /\ \E call \in Calls[r] :
           LET m == NewRequest(call)
               base == IF Conditional(m) THEN known[Client[r]][m.id] ELSE Nil
           IN  /\ Conditional(m) => base # Nil
               /\ request' = [request EXCEPT ![r] = Received(m, base)]
    /\ UNCHANGED <<config, records, lives, process, known, troubles>>

\* The same request again, because the first has not been answered.
Retry(r) ==
    LET q == RetryOf[r]
        m == request[q].call
    IN  /\ MaySend(r)
        /\ q # Nil
        /\ request[q].phase = "lost" \/ request[q].gone
        /\ request' = [request EXCEPT ![r] = Received(m, IF Conditional(m) THEN request[q].base ELSE Nil)]
        /\ UNCHANGED <<config, records, lives, process, known, troubles>>

\* The client's own timeout, where it matters: a request that it sends again.
GiveUp(r) ==
    /\ Waiting(r)
    /\ \E q \in Requests : RetryOf[q] = r
    /\ request' = [request EXCEPT ![r].gone = TRUE]
    /\ UNCHANGED <<config, records, lives, process, known, troubles>>

\* The answer reaches the client, which keeps the tag if it can read the rest; a
\* request that has been answered is not sent again.
Answer(r) ==
    LET op == request[r].call.op
        response == Visit(op, request[r].status, request[r].shown)
    IN  /\ request[r].phase = "answering"
        /\ request' = [request EXCEPT ![r] = IF @.gone THEN [@ EXCEPT !.phase = "lost"]
                                  ELSE [@ EXCEPT !.phase = "answered", !.call = Nil, !.doc = Nil]]
        /\ known' = IF request[r].gone \/ response.tag = Nil \/ Parse(op, response) = "unreadable"
                    THEN known
                    ELSE [known EXCEPT ![Client[r]][request[r].id] = response.tag]
        /\ UNCHANGED <<config, records, lives, process, troubles>>

-----------------------------------------------------------------------------
(* The handler and the store.                                              *)

\* A call of the store ends the request with a status and changes nothing.
Refuse(r, status) ==
    /\ request' = [request EXCEPT ![r].phase = "answering", ![r].status = status]
    /\ UNCHANGED <<config, records, lives, process, known, troubles>>

\* A connection fails, or the context is cancelled because the client has gone.
Fault(r) ==
    /\ InStore(r)
    /\ Trouble
    /\ request' = [request EXCEPT ![r].phase = "answering",
                                  ![r].status = IF request[r].call.op = "ready" THEN 503 ELSE 500]
    /\ UNCHANGED <<config, records, lives, process, known>>

\* A closed pool gives no connection.
NoConnection(r) ==
    /\ ~ PoolOpen
    /\ request[r].phase \in {"reading", "validating", "writing"} /\ request[r].call.op # "ready"
    /\ Refuse(r, 500)

\* The store commits a change of record id; its answer may be lost.
Commit(r, id, status) ==
    LET now == IF records'[id] = Nil THEN Nil
               ELSE [life |-> lives'[id], version |-> records'[id].version,
                     doc |-> records'[id].doc]
        done(s) == [request EXCEPT ![r].phase = "answering", ![r].status = s, ![r].id = id,
                                   ![r].did = [id |-> id, was |-> Stamp(id), now |-> now],
                                   ![r].shown = IF s = 500 THEN Nil ELSE now]
    IN  \/ request' = done(status) /\ UNCHANGED troubles
        \/ request' = done(500) /\ Trouble

\* The condition of If-Match, or of a merge, on a record that is there.
Mismatch(r, id) == request[r].cond \notin {Nil, AnyVersion, records[id].version}

\* app.Record, and recordModel for all but HEAD.
GetRecord(r) ==
    LET id == request[r].id
        status == IF config = Nil \/ records[id] = Nil THEN 404
                  ELSE IF request[r].call.op = "get" /\ records[id].doc \notin Typed THEN 500
                  ELSE 200
    IN  /\ PoolOpen
        /\ request[r].phase = "reading" /\ request[r].call.op \in {"get", "head"}
        /\ request' = [request EXCEPT ![r].phase = "answering", ![r].status = status,
                                      ![r].shown = IF status = 200 THEN Stamp(id) ELSE Nil]
        /\ UNCHANGED <<config, records, lives, process, known, troubles>>

\* app.Catalog, for the catalog and for HEAD of its records.
GetCatalog(r) ==
    /\ PoolOpen
    /\ request[r].phase = "reading" /\ request[r].call.op \in {"describe", "headAll"}
    /\ Refuse(r, IF config = Nil THEN 404 ELSE 200)

\* app.Catalog, for one part of the configuration; a stored schema decodes.
DescribeCatalog(r) ==
    /\ PoolOpen
    /\ request[r].phase = "reading" /\ request[r].call.op \in Parts
    /\ Refuse(r, IF config = Nil THEN 404 ELSE 200)

\* The one handler that has a status of its own for a store out of reach.
Ready(r) ==
    /\ request[r].phase = "reading" /\ request[r].call.op = "ready"
    /\ Refuse(r, IF PoolOpen THEN 200 ELSE 503)

\* SearchRecords: one record that recordModel refuses fails the page.
SearchRecords(r) ==
    /\ PoolOpen
    /\ request[r].phase = "reading" /\ request[r].call.op = "search"
    /\ Refuse(r, IF config = Nil THEN 404
                 ELSE IF \E id \in Store!Live : records[id].doc \notin Typed THEN 500
                 ELSE 200)

\* Mutant: If-Match is left to the write, which is pinned to what has been read.
MergePatchAny(r) ==
    LET id == request[r].id
        merged == Merged[request[r].call.doc][records[id].doc]
        refusal == Refusal(<<<<config = Nil \/ records[id] = Nil, 404>>,
                             <<records[id] # Nil /\ merged \in Malformed, 400>>>>)
    IN  /\ PoolOpen
        /\ request[r].phase = "reading" /\ request[r].call.op = "patch"
        /\ IF refusal # Nil THEN Refuse(r, refusal)
           ELSE /\ request' = [request EXCEPT ![r].phase = "validating", ![r].doc = merged,
                                   ![r].cond = records[id].version, ![r].base = Stamp(id)]
                /\ UNCHANGED <<config, records, lives, process, known, troubles>>

\* app.Patch reads, compares, merges, and pins the write to what it has read.
MergePatch(r) ==
    LET id == request[r].id
        merged == Merged[request[r].call.doc][records[id].doc]
        refusal == Refusal(<<<<config = Nil \/ records[id] = Nil, 404>>,
                             <<records[id] # Nil /\ Mismatch(r, id), 412>>,
                             <<records[id] # Nil /\ merged \in Malformed, 400>>>>)
    IN  /\ PoolOpen
        /\ request[r].phase = "reading" /\ request[r].call.op = "patch"
        /\ IF refusal # Nil THEN Refuse(r, refusal)
           ELSE /\ request' = [request EXCEPT ![r].phase = "validating", ![r].doc = merged,
                                   ![r].cond = records[id].version, ![r].base = Stamp(id)]
                /\ UNCHANGED <<config, records, lives, process, known, troubles>>

\* validateRecord, in a statement of its own.
ValidateRecord(r) ==
    LET refusal == Refusal(<<<<config = Nil, 404>>,
                             <<config # Nil /\ request[r].doc \notin Accepts[config.schema], 400>>>>)
    IN  /\ PoolOpen
        /\ request[r].phase = "validating"
        /\ IF refusal # Nil THEN Refuse(r, refusal)
           ELSE /\ request' = [request EXCEPT ![r].phase = "writing"]
                /\ UNCHANGED <<config, records, lives, process, known, troubles>>

\* What a document of a write has to satisfy in its catalog; a temporal record
\* keeps its start.
DocumentChecks(doc) ==
    <<<<config = Nil, 404>>,
      <<config # Nil /\ doc \notin Accepts[config.schema], 400>>>>

StartChecks(id, doc) ==
    <<<<config # Nil /\ config.class = "temporal" /\ Start[doc] = Nil, 400>>,
      <<config # Nil /\ config.class = "temporal" /\ records[id] # Nil
            /\ Start[doc] # Start[records[id].doc], 400>>>>

\* Mutant: the row is not compared.
ConditionChecksAbsent(r, id) ==
    <<<<records[id] = Nil /\ request[r].cond # Nil, 412>>>>

ConditionChecks(r, id) ==
    <<<<records[id] = Nil /\ request[r].cond # Nil, 412>>,
      <<records[id] # Nil /\ Mismatch(r, id), 412>>>>

Born(id) == lives' = [lives EXCEPT ![id] = @ + 1]

\* CreateRecord, with a fresh UUIDv7.
CreateRecord(r) ==
    /\ PoolOpen
    /\ request[r].phase = "writing" /\ request[r].call.op = "post"
    /\ LET id == Minted[r]
           doc == request[r].doc
           refusal == Refusal(DocumentChecks(doc) \o StartChecks(id, doc))
       IN  IF refusal # Nil THEN Refuse(r, refusal)
           ELSE /\ Store!Create({id}, doc)
                /\ Born(id)
                /\ Commit(r, id, 201)
                /\ UNCHANGED <<process, known>>

\* PutRecord, for PUT and PATCH.  A row that is there stays locked from the
\* comparison to the commit; one that is not cannot be locked.
PutRecord(r) ==
    LET id == request[r].id
        doc == request[r].doc
        refusal == Refusal(DocumentChecks(doc) \o ConditionChecks(r, id) \o StartChecks(id, doc))
    IN  /\ PoolOpen
        /\ request[r].phase = "writing" /\ request[r].call.op \in {"put", "patch"}
        /\ IF refusal # Nil THEN Refuse(r, refusal)
           ELSE IF records[id] = Nil
           THEN /\ request' = [request EXCEPT ![r].phase = "inserting"]
                /\ UNCHANGED <<config, records, lives, process, known, troubles>>
           ELSE /\ Store!Replace(id, doc)
                /\ UNCHANGED lives
                /\ Commit(r, id, 204)
                /\ UNCHANGED <<process, known>>

\* Mutant: INSERT ... ON CONFLICT DO UPDATE.
InsertRecordOver(r) ==
    LET id == request[r].id
    IN  /\ request[r].phase = "inserting"
        /\ records' = [records EXCEPT ![id] = [doc |-> request[r].doc, version |-> 1]]
        /\ UNCHANGED <<config, lives>>
        /\ Commit(r, id, 201)
        /\ UNCHANGED <<process, known>>

\* Mutant: it waits for the key and is not told.
InsertRecordWaits(r) ==
    LET id == request[r].id
    IN  /\ request[r].phase = "inserting"
        /\ Store!Create({id}, request[r].doc)
        /\ Born(id)
        /\ Commit(r, id, 201)
        /\ UNCHANGED <<process, known>>

\* insertRecord of a PUT that has found no row; the catalog is still locked.
InsertRecord(r) ==
    LET id == request[r].id
    IN  /\ request[r].phase = "inserting"
        /\ IF records[id] # Nil THEN Refuse(r, 409)
           ELSE /\ Store!Create({id}, request[r].doc)
                /\ Born(id)
                /\ Commit(r, id, 201)
                /\ UNCHANGED <<process, known>>

DeleteRecord(r) ==
    LET id == request[r].id
        refusal == Refusal(<<<<config = Nil \/ records[id] = Nil, 404>>,
                             <<records[id] # Nil /\ Mismatch(r, id), 412>>>>)
    IN  /\ PoolOpen
        /\ request[r].phase = "writing" /\ request[r].call.op = "delete"
        /\ IF refusal # Nil THEN Refuse(r, refusal)
           ELSE /\ Store!Delete(id)
                /\ UNCHANGED lives
                /\ Commit(r, id, 204)
                /\ UNCHANGED <<process, known>>

-----------------------------------------------------------------------------
(* The administrator, on the command line: other processes.                *)

\* Mutant: lockCatalog locks nothing.
ChangeUnlocked ==
    /\ Trouble
    /\ \/ \E conf \in Configures : Store!Configure(conf)
       \/ Store!Remove
    /\ UNCHANGED <<lives, process, request, known>>

\* ApplyCatalog and DeleteCatalog wait for transactions that hold the catalog.
Change ==
    /\ Trouble
    /\ \A r \in Requests : request[r].phase # "inserting"
    /\ \/ \E conf \in Configures : Store!Configure(conf)
       \/ Store!Remove
    /\ UNCHANGED <<lives, process, request, known>>

\* Every client has read the store as it is found.
Init ==
    /\ \E found \in Found : config = found.config /\ records = found.records
    /\ lives = [id \in Ids |-> IF records[id] = Nil THEN 0 ELSE 1]
    /\ process = [phase |-> "down", mode |-> "deny"]
    /\ request = [r \in Requests |-> Idle]
    /\ known = [c \in Clients |-> [id \in Ids |-> Stamp(id)]]
    /\ troubles = 0

Handle(r) ==
    \/ NoConnection(r) \/ GetCatalog(r) \/ DescribeCatalog(r) \/ Ready(r)
    \/ GetRecord(r) \/ SearchRecords(r) \/ MergePatch(r) \/ ValidateRecord(r)
    \/ CreateRecord(r) \/ PutRecord(r) \/ InsertRecord(r) \/ DeleteRecord(r) \/ Answer(r)

\* The clients ask for no more.
Rest == (\A r \in Requests : ~ InProgress(r)) /\ UNCHANGED vars

Next ==
    \/ \E mode \in {"deny", "external"} : Serve(mode)
    \/ Terminate \/ ShutdownTimeout \/ Stop \/ Crash
    \/ \E r \in Requests : Send(r) \/ Retry(r) \/ GiveUp(r) \/ Handle(r) \/ Fault(r)
    \/ Change
    \/ Rest

Spec == Init /\ [][Next]_vars

\* Goroutines are scheduled, the store answers, and Shutdown and Close return
\* when there is nothing left to wait for.
FairSpec == Spec /\ WF_vars(Stop) /\ \A r \in Requests : WF_vars(Handle(r))

-----------------------------------------------------------------------------
(* Properties.                                                             *)

Phases == {"unsent", "reading", "validating", "writing", "inserting", "answering", "answered",
           "lost"}

\* The type invariant.
TypeOK ==
    /\ Store!TypeOK
    /\ lives \in [Ids -> Nat]
    /\ process \in [phase : {"down", "serving", "draining", "closing"},
                    mode : {"deny", "external"}]
    /\ \A r \in Requests :
           /\ request[r].phase \in Phases
           /\ request[r].did \in Effects \cup {Nil}
           /\ request[r].base \in Stamps \cup {Nil}
           /\ request[r].status \in {Nil, 200, 201, 204, 400, 403, 404, 409, 412, 500, 503}
           /\ request[r].phase = "inserting" => config # Nil
    /\ known \in [Clients -> [Ids -> Stamps \cup {Nil}]]

\* What a request has changed, or a client has seen, of a record.
Observed(id) ==
    {request[r].did.now : r \in {q \in Requests : request[q].did # Nil /\ request[q].did.id = id}}
    \cup {known[c][id] : c \in Clients} \cup {Stamp(id)}

\* An entity tag stands for one document, as long as the record is not deleted:
\* no two answers give different documents the same tag (etag.go, store.go:548).
TagsIdentify ==
    \A id \in Ids : \A s, t \in Observed(id) :
        s # Nil /\ t # Nil /\ s.life = t.life /\ s.version = t.version => s = t

\* A write that depends on a tag, or on what PATCH has read, replaces exactly
\* that, and is refused with 412 only when that is no longer there; a record that
\* was deleted and created again is not told apart (application.go:147).
ConditionsAreTrue ==
    \A r \in Requests : request[r].base # Nil =>
        /\ request[r].did # Nil /\ request[r].did.was.life = request[r].base.life
               => request[r].did.was = request[r].base
        /\ request[r].status = 412 /\ request[r].id \in Ids
               => Stamp(request[r].id) # request[r].base

\* A conditional write whose answer was lost and that is sent again takes effect
\* once, however late the first attempt reaches the store, unless the record was
\* created anew in between (records.go:118).
RetriesApplyOnce ==
    \A r \in Requests :
        LET q == RetryOf[r]
        IN  q # Nil /\ request[q].did # Nil /\ request[r].did # Nil
            /\ Conditional(request[q].call)
            => request[q].did.was.life # request[r].did.was.life

\* With TLON_AUTH_MODE=deny nothing that a client sends changes a record, whatever
\* the process did before it was started in that mode (auth.go:30).
DeniedChangesNothing ==
    [][process.mode = "deny" /\ config' = config => UNCHANGED records]_vars

\* Every request that has been accepted ends, and so does a shutdown, without a
\* timeout coming to help (main.go:102-111).
EveryRequestEnds ==
    /\ <>[](\A r \in Requests : ~ InProgress(r))
    /\ process.phase \in {"draining", "closing"} ~> process.phase = "down"
=============================================================================
