------------------------- MODULE HttpService_proofs -------------------------
(***************************************************************************)
(* Safety of HttpService, for any number of clients, requests and records  *)
(* and any process that stops and starts: nothing changes while mutations  *)
(* are denied; an entity tag stands for one document, a condition holds    *)
(* when the write commits, and a conditional write that is repeated takes  *)
(* effect once.                                                            *)
(***************************************************************************)
EXTENDS HttpService, TLAPS

Mutates(r) == InStore(r) /\ request[r].call.op \in Mutations

Fields == {"phase", "call", "id", "doc", "cond", "base", "status", "shown", "did", "gone"}

Formed ==
    /\ DOMAIN request = Requests
    /\ \A r \in Requests : DOMAIN request[r] = Fields
    /\ DOMAIN process = {"phase", "mode"}

\* What is under way belongs to a process that runs.
DownIsIdle == process.phase = "down" => \A r \in Requests : ~ InProgress(r)

\* A mutation is in the store only when the process has let it in.
MutationsAllowed == \A r \in Requests : Mutates(r) => process.mode = "external"

\* Only a PUT or a PATCH inserts.
InsertsArePuts ==
    \A r \in Requests : request[r].phase = "inserting" => request[r].call.op \in {"put", "patch"}

IInv == Formed /\ DownIsIdle /\ MutationsAllowed /\ InsertsArePuts

-----------------------------------------------------------------------------
(* The checks of a request.                                                *)

LEMMA SmallestOfEight ==
    ASSUME NEW S \in SUBSET (1 .. 8), S # {}
    PROVE  \E i \in S : \A j \in S : i <= j
<1>1. CASE 1 \in S  BY <1>1
<1>2. CASE 1 \notin S /\ 2 \in S  BY <1>2
<1>3. CASE 1 \notin S /\ 2 \notin S /\ 3 \in S  BY <1>3
<1>4. CASE (\A k \in 1 .. 3 : k \notin S) /\ 4 \in S  BY <1>4
<1>5. CASE (\A k \in 1 .. 4 : k \notin S) /\ 5 \in S  BY <1>5
<1>6. CASE (\A k \in 1 .. 5 : k \notin S) /\ 6 \in S  BY <1>6
<1>7. CASE (\A k \in 1 .. 6 : k \notin S) /\ 7 \in S  BY <1>7
<1>8. CASE \A k \in 1 .. 7 : k \notin S
  <2>1. \A k \in S : k = 8
    BY <1>8
  <2>2. 8 \in S
    BY <2>1
  <2> QED
    BY <2>1, <2>2
<1> QED
  BY <1>1, <1>2, <1>3, <1>4, <1>5, <1>6, <1>7, <1>8

\* A request that is not refused fails no check.
LEMMA NoRefusal ==
    ASSUME NEW checks, NEW n \in 0 .. 8, DOMAIN checks = 1 .. n,
           \A i \in 1 .. n : checks[i][2] \in Int,
           Refusal(checks) = Nil
    PROVE  \A i \in 1 .. n : ~ checks[i][1]
<1> DEFINE failed == {i \in DOMAIN checks : checks[i][1]}
<1>1. SUFFICES ASSUME failed # {} PROVE FALSE
  OBVIOUS
<1>2. failed \in SUBSET (1 .. 8)
  OBVIOUS
<1>3. \E i \in failed : \A j \in failed : i <= j
  BY <1>1, <1>2, SmallestOfEight
<1>4. PICK k : k = CHOOSE i \in failed : \A j \in failed : i <= j
  OBVIOUS
<1>5. k \in failed
  BY <1>3, <1>4
<1>6. Refusal(checks) = checks[k][2]
  BY <1>1, <1>4 DEF Refusal
<1>7. checks[k][2] \in Int
  BY <1>5
<1> QED
  BY <1>6, <1>7, NilAssumption

LEMMA OnlyIfAllowed ==
    ASSUME NEW m, m.op \in Mutations, Refusal(ChecksOf(m)) = Nil
    PROVE  process.mode = "external"
<1> USE DEF TagChecks
<1>1. CASE m.op = "put"
  <2> DEFINE c == PutChecks(m)
  <2>1. DOMAIN c = 1 .. 7 /\ \A i \in 1 .. 7 : c[i][2] \in Int
    BY DEF PutChecks
  <2>2. c[6][1] <=> Forbidden(m)
    BY DEF PutChecks
  <2>3. Refusal(c) = Nil
    BY <1>1, Zenon DEF ChecksOf
  <2> HIDE DEF c
  <2> QED
    BY <2>1, <2>2, <2>3, NoRefusal DEF Forbidden
<1>2. CASE m.op = "post"
  <2> DEFINE c == CreateChecks(m)
  <2>1. DOMAIN c = 1 .. 4 /\ \A i \in 1 .. 4 : c[i][2] \in Int
    BY DEF CreateChecks
  <2>2. c[3][1] <=> Forbidden(m)
    BY DEF CreateChecks
  <2>3. Refusal(c) = Nil
    BY <1>2, Zenon DEF ChecksOf
  <2> HIDE DEF c
  <2> QED
    BY <2>1, <2>2, <2>3, NoRefusal DEF Forbidden
<1>3. CASE m.op = "patch"
  <2> DEFINE c == PatchChecks(m)
  <2>1. DOMAIN c = 1 .. 5 /\ \A i \in 1 .. 5 : c[i][2] \in Int
    BY DEF PatchChecks
  <2>2. c[5][1] <=> Forbidden(m)
    BY DEF PatchChecks
  <2>3. Refusal(c) = Nil
    BY <1>3, Zenon DEF ChecksOf
  <2> HIDE DEF c
  <2> QED
    BY <2>1, <2>2, <2>3, NoRefusal DEF Forbidden
<1>4. CASE m.op = "delete"
  <2> DEFINE c == DeleteChecks(m)
  <2>1. DOMAIN c = 1 .. 4 /\ \A i \in 1 .. 4 : c[i][2] \in Int
    BY DEF DeleteChecks
  <2>2. c[4][1] <=> Forbidden(m)
    BY DEF DeleteChecks
  <2>3. Refusal(c) = Nil
    BY <1>4, Zenon DEF ChecksOf
  <2> HIDE DEF c
  <2> QED
    BY <2>1, <2>2, <2>3, NoRefusal DEF Forbidden
<1> QED
  BY <1>1, <1>2, <1>3, <1>4 DEF Mutations

-----------------------------------------------------------------------------
(* The invariant is inductive.                                             *)

\* A step that moves one request, in a process that goes on.
LEMMA OneMoves ==
    ASSUME IInv, process' = process, NEW r \in Requests, NEW next,
           request' = [request EXCEPT ![r] = next],
           DOMAIN next = Fields,
           next.phase \in {"reading", "validating", "writing", "inserting", "answering"}
               => process.phase # "down",
           next.phase \in {"reading", "validating", "writing", "inserting"}
               /\ next.call.op \in Mutations => process.mode = "external",
           next.phase = "inserting" => next.call.op \in {"put", "patch"}
    PROVE  IInv'
<1>1. Formed'
  BY DEF IInv, Formed
<1>2. \A q \in Requests : request'[q] = IF q = r THEN next ELSE request[q]
  BY DEF IInv, Formed
<1>3. DownIsIdle'
  BY <1>2 DEF IInv, DownIsIdle, InProgress, InStore
<1>4. MutationsAllowed'
  BY <1>2 DEF IInv, MutationsAllowed, Mutates, InStore
<1>5. InsertsArePuts'
  BY <1>2 DEF IInv, InsertsArePuts
<1> QED
  BY <1>1, <1>3, <1>4, <1>5 DEF IInv

\* A request ends, or waits for its answer, wherever it was.
LEMMA Leaves ==
    ASSUME IInv, process' = process, NEW r \in Requests, InProgress(r), NEW next,
           request' = [request EXCEPT ![r] = next],
           DOMAIN next = Fields,
           next.phase \in {"answering", "answered", "lost"}
    PROVE  IInv'
<1>1. process.phase # "down"
  BY DEF IInv, DownIsIdle
<1> QED
  BY <1>1, OneMoves

\* A request goes on in the store.
LEMMA GoesOn ==
    ASSUME IInv, process' = process, NEW r \in Requests, InStore(r), NEW next,
           request' = [request EXCEPT ![r] = next],
           DOMAIN next = Fields, next.call = request[r].call,
           next.phase \in {"validating", "writing", "inserting"},
           next.phase = "inserting" => request[r].call.op \in {"put", "patch"}
    PROVE  IInv'
<1>1. process.phase # "down"
  BY DEF IInv, DownIsIdle, InProgress
<1>2. next.call.op \in Mutations => process.mode = "external"
  BY DEF IInv, MutationsAllowed, Mutates
<1> QED
  BY <1>1, <1>2, OneMoves

LEMMA RefuseKeeps ==
    ASSUME IInv, NEW r \in Requests, InStore(r), NEW status, Refuse(r, status)
    PROVE  IInv'
<1> DEFINE next == [request[r] EXCEPT !.phase = "answering", !.status = status]
<1>1. request' = [request EXCEPT ![r] = next] /\ process' = process
  BY DEF Refuse
<1>2. DOMAIN next = Fields /\ next.phase = "answering"
  BY DEF IInv, Formed, Fields
<1> HIDE DEF next
<1> QED
  BY <1>1, <1>2, Leaves DEF InProgress

LEMMA CommitKeeps ==
    ASSUME IInv, NEW r \in Requests, InStore(r), NEW id, NEW status, Commit(r, id, status),
           process' = process
    PROVE  IInv'
<1> DEFINE now == IF records'[id] = Nil THEN Nil
                  ELSE [life |-> lives'[id], version |-> records'[id].version,
                        doc |-> records'[id].doc]
           change == [id |-> id, was |-> Stamp(id), now |-> now]
           made(s) == [request EXCEPT ![r].phase = "answering", ![r].status = s,
                           ![r].id = id, ![r].did = change,
                           ![r].shown = IF s = 500 THEN Nil ELSE now]
<1>0. request' = made(status) \/ request' = made(500)
  BY Zenon DEF Commit
<1> HIDE DEF made
<1>1. SUFFICES ASSUME NEW s, request' = made(s)
               PROVE  IInv'
  BY <1>0
<1> DEFINE next == [request[r] EXCEPT !.phase = "answering", !.status = s, !.id = id,
                        !.did = change, !.shown = IF s = 500 THEN Nil ELSE now]
<1> HIDE DEF change, now
<1>2. request' = [request EXCEPT ![r] = next]
  BY <1>1 DEF made
<1>3. DOMAIN next = Fields /\ next.phase = "answering"
  BY DEF IInv, Formed, Fields
<1> HIDE DEF next
<1> QED
  BY <1>2, <1>3, Leaves DEF InProgress

LEMMA ArrivalKeeps ==
    ASSUME IInv, NEW r \in Requests, NEW m, NEW base, process.phase = "serving",
           request' = [request EXCEPT ![r] = Received(m, base)], process' = process
    PROVE  IInv'
<1> DEFINE next == Received(m, base)
<1>1. DOMAIN next = Fields /\ next.call = m
  BY DEF Received, Idle, Fields
<1>2. next.phase = IF Refusal(ChecksOf(m)) = Nil THEN FirstStep(m.op) ELSE "answering"
  BY DEF Received, Idle
<1>3. FirstStep(m.op) \in {"validating", "writing", "reading"}
  BY DEF FirstStep
<1>4. m.op \in Mutations /\ Refusal(ChecksOf(m)) = Nil => process.mode = "external"
  BY OnlyIfAllowed
<1> HIDE DEF next
<1>5. request' = [request EXCEPT ![r] = next]
  BY DEF next
<1> QED
  BY <1>1, <1>2, <1>3, <1>4, <1>5, OneMoves

LEMMA ExitKeeps ==
    ASSUME IInv, Exit
    PROVE  IInv'
<1>1. \A r \in Requests :
         request'[r] = IF InProgress(r) THEN [request[r] EXCEPT !.phase = "lost"] ELSE request[r]
  BY DEF Exit
<1>2. \A r \in Requests : DOMAIN request'[r] = Fields
  BY <1>1 DEF IInv, Formed
<1>3. \A r \in Requests : ~ InProgress(r)'
  BY <1>1, <1>2 DEF IInv, Formed, Fields, InProgress, InStore
<1>4. Formed'
  BY <1>2 DEF IInv, Formed, Exit
<1> QED
  BY <1>3, <1>4 DEF IInv, DownIsIdle, MutationsAllowed, Mutates, InsertsArePuts, InProgress, InStore

LEMMA ProcessKeeps ==
    ASSUME IInv, request' = request,
           \/ \E mode \in {"deny", "external"} : Serve(mode)
           \/ Terminate
           \/ ShutdownTimeout
    PROVE  IInv'
<1>1. CASE \E mode \in {"deny", "external"} : Serve(mode)
  BY <1>1 DEF Serve, IInv, Formed, DownIsIdle, MutationsAllowed, Mutates, InsertsArePuts,
     InProgress, InStore
<1>2. CASE Terminate
  BY <1>2 DEF Terminate, IInv, Formed, DownIsIdle, MutationsAllowed, Mutates, InsertsArePuts,
     InProgress, InStore
<1>3. CASE ShutdownTimeout
  BY <1>3 DEF ShutdownTimeout, IInv, Formed, DownIsIdle, MutationsAllowed, Mutates,
     InsertsArePuts, InProgress, InStore
<1> QED
  BY <1>1, <1>2, <1>3

\* Requests that arrive, or whose clients give up.
LEMMA ClientKeeps ==
    ASSUME IInv, NEW r \in Requests, Send(r) \/ Retry(r) \/ GiveUp(r)
    PROVE  IInv'
<1>1. CASE Send(r)
  <2>1. PICK call \in Calls[r] :
           request' = [request EXCEPT ![r] = Received(NewRequest(call),
               IF Conditional(NewRequest(call)) THEN known[Client[r]][NewRequest(call).id] ELSE Nil)]
    BY <1>1 DEF Send
  <2> QED
    BY <1>1, <2>1, ArrivalKeeps DEF Send, MaySend
<1>2. CASE Retry(r)
  BY <1>2, ArrivalKeeps DEF Retry, MaySend
<1>3. CASE GiveUp(r)
  <2> DEFINE next == [request[r] EXCEPT !.gone = TRUE]
  <2>1. request' = [request EXCEPT ![r] = next] /\ process' = process /\ InProgress(r)
    BY <1>3 DEF GiveUp, Waiting
  <2>2. DOMAIN next = Fields /\ next.phase = request[r].phase /\ next.call = request[r].call
    BY DEF IInv, Formed, Fields
  <2>3. process.phase # "down"
    BY <2>1 DEF IInv, DownIsIdle
  <2>4. Mutates(r) => process.mode = "external"
    BY DEF IInv, MutationsAllowed
  <2>5. request[r].phase = "inserting" => request[r].call.op \in {"put", "patch"}
    BY DEF IInv, InsertsArePuts
  <2> HIDE DEF next
  <2> QED
    BY <2>1, <2>2, <2>3, <2>4, <2>5, OneMoves DEF Mutates, InStore
<1> QED
  BY <1>1, <1>2, <1>3

\* What a handler reads, and the end of a request.
LEMMA ReadKeeps ==
    ASSUME IInv, NEW r \in Requests,
           \/ NoConnection(r) \/ GetCatalog(r) \/ DescribeCatalog(r) \/ Ready(r)
           \/ GetRecord(r) \/ SearchRecords(r) \/ Answer(r) \/ Fault(r)
    PROVE  IInv'
<1>1. CASE NoConnection(r)
  BY <1>1, RefuseKeeps DEF NoConnection, InStore
<1>2. CASE GetCatalog(r)
  BY <1>2, RefuseKeeps DEF GetCatalog, InStore
<1>3. CASE DescribeCatalog(r)
  BY <1>3, RefuseKeeps DEF DescribeCatalog, InStore
<1>4. CASE Ready(r)
  BY <1>4, RefuseKeeps DEF Ready, InStore
<1>5. CASE SearchRecords(r)
  BY <1>5, RefuseKeeps DEF SearchRecords, InStore
<1>6. CASE GetRecord(r)
  <2> DEFINE status == IF config = Nil \/ records[request[r].id] = Nil THEN 404
                       ELSE IF request[r].call.op = "get" /\ records[request[r].id].doc \notin Typed
                       THEN 500 ELSE 200
             shown == IF status = 200 THEN Stamp(request[r].id) ELSE Nil
  <2>1. request' = [request EXCEPT ![r].phase = "answering", ![r].status = status,
                                   ![r].shown = shown]
    BY <1>6, Zenon DEF GetRecord
  <2> HIDE DEF status, shown
  <2> DEFINE next == [request[r] EXCEPT !.phase = "answering", !.status = status, !.shown = shown]
  <2>2. request' = [request EXCEPT ![r] = next]
    BY <2>1
  <2>3. DOMAIN next = Fields /\ next.phase = "answering"
    BY DEF IInv, Formed, Fields
  <2> HIDE DEF next
  <2> QED
    BY <1>6, <2>2, <2>3, Leaves DEF GetRecord, InProgress, InStore
<1>7. CASE Answer(r)
  <2> DEFINE next == IF request[r].gone THEN [request[r] EXCEPT !.phase = "lost"]
                     ELSE [request[r] EXCEPT !.phase = "answered", !.call = Nil, !.doc = Nil]
  <2>1. request' = [request EXCEPT ![r] = next]
    BY <1>7 DEF Answer
  <2>2. DOMAIN next = Fields /\ next.phase \in {"answered", "lost"}
    BY DEF IInv, Formed, Fields
  <2> HIDE DEF next
  <2> QED
    BY <1>7, <2>1, <2>2, Leaves DEF Answer, InProgress
<1>8. CASE Fault(r)
  <2>1. PICK status :
           request' = [request EXCEPT ![r].phase = "answering", ![r].status = status]
    BY <1>8 DEF Fault
  <2> DEFINE next == [request[r] EXCEPT !.phase = "answering", !.status = status]
  <2>2. request' = [request EXCEPT ![r] = next]
    BY <2>1
  <2>3. DOMAIN next = Fields /\ next.phase = "answering"
    BY DEF IInv, Formed, Fields
  <2> HIDE DEF next
  <2> QED
    BY <1>8, <2>2, <2>3, Leaves DEF Fault, InProgress
<1> QED
  BY <1>1, <1>2, <1>3, <1>4, <1>5, <1>6, <1>7, <1>8

LEMMA MergeRefusesOrGoesOn ==
    ASSUME NEW r, MergePatch(r)
    PROVE  \/ \E status : Refuse(r, status)
           \/ /\ request' = [request EXCEPT
                     ![r].phase = "validating",
                     ![r].doc = Merged[request[r].call.doc][records[request[r].id].doc],
                     ![r].cond = records[request[r].id].version,
                     ![r].base = Stamp(request[r].id)]
              /\ UNCHANGED <<config, records, lives, process, known, troubles>>
<1> DEFINE id == request[r].id
           merged == Merged[request[r].call.doc][records[id].doc]
           refusal == Refusal(<<<<config = Nil \/ records[id] = Nil, 404>>,
                                <<records[id] # Nil /\ Mismatch(r, id), 412>>,
                                <<records[id] # Nil /\ merged \in Malformed, 400>>>>)
<1>1. IF refusal # Nil THEN Refuse(r, refusal)
      ELSE /\ request' = [request EXCEPT ![r].phase = "validating", ![r].doc = merged,
                              ![r].cond = records[id].version, ![r].base = Stamp(id)]
           /\ UNCHANGED <<config, records, lives, process, known, troubles>>
  BY Zenon DEF MergePatch
<1> HIDE DEF refusal
<1> QED
  BY <1>1, Zenon

\* What a handler writes, and what it does before it writes.
LEMMA WriteKeeps ==
    ASSUME IInv, NEW r \in Requests,
           \/ MergePatch(r) \/ ValidateRecord(r) \/ CreateRecord(r) \/ PutRecord(r)
           \/ InsertRecord(r) \/ DeleteRecord(r)
    PROVE  IInv'
<1>1. CASE MergePatch(r)
  <2> DEFINE doc == Merged[request[r].call.doc][records[request[r].id].doc]
             cond == records[request[r].id].version
             base == Stamp(request[r].id)
  <2>1. \/ \E status : Refuse(r, status)
        \/ /\ request' = [request EXCEPT ![r].phase = "validating", ![r].doc = doc,
                                         ![r].cond = cond, ![r].base = base]
           /\ process' = process
    BY <1>1, MergeRefusesOrGoesOn
  <2> HIDE DEF doc, cond, base
  <2>2. InStore(r)
    BY <1>1 DEF MergePatch, InStore
  <2> DEFINE next == [request[r] EXCEPT !.phase = "validating", !.doc = doc, !.cond = cond,
                                        !.base = base]
  <2>3. DOMAIN next = Fields /\ next.phase = "validating" /\ next.call = request[r].call
    BY DEF IInv, Formed, Fields
  <2>4. \/ \E status : Refuse(r, status)
        \/ request' = [request EXCEPT ![r] = next] /\ process' = process
    BY <2>1
  <2> HIDE DEF next
  <2> QED
    BY <2>2, <2>3, <2>4, RefuseKeeps, GoesOn
<1>2. CASE ValidateRecord(r)
  <2>1. PICK status :
           \/ Refuse(r, status)
           \/ request' = [request EXCEPT ![r].phase = "writing"] /\ process' = process
    BY <1>2 DEF ValidateRecord
  <2>2. InStore(r)
    BY <1>2 DEF ValidateRecord, InStore
  <2> DEFINE next == [request[r] EXCEPT !.phase = "writing"]
  <2>3. DOMAIN next = Fields /\ next.phase = "writing" /\ next.call = request[r].call
    BY DEF IInv, Formed, Fields
  <2>4. Refuse(r, status) \/ (request' = [request EXCEPT ![r] = next] /\ process' = process)
    BY <2>1
  <2> HIDE DEF next
  <2> QED
    BY <2>2, <2>3, <2>4, RefuseKeeps, GoesOn
<1>3. CASE CreateRecord(r)
  <2>1. InStore(r)
    BY <1>3 DEF CreateRecord, InStore
  <2>2. (\E status : Refuse(r, status)) \/ (Commit(r, Minted[r], 201) /\ process' = process)
    BY <1>3 DEF CreateRecord
  <2> QED
    BY <2>1, <2>2, RefuseKeeps, CommitKeeps
<1>4. CASE PutRecord(r)
  <2>1. InStore(r)
    BY <1>4 DEF PutRecord, InStore
  <2>2. \/ \E status : Refuse(r, status)
        \/ request' = [request EXCEPT ![r].phase = "inserting"] /\ process' = process
        \/ Commit(r, request[r].id, 204) /\ process' = process
    BY <1>4 DEF PutRecord
  <2>3. CASE request' = [request EXCEPT ![r].phase = "inserting"] /\ process' = process
    <3> DEFINE next == [request[r] EXCEPT !.phase = "inserting"]
    <3>1. DOMAIN next = Fields /\ next.phase = "inserting" /\ next.call = request[r].call
      BY DEF IInv, Formed, Fields
    <3>2. request' = [request EXCEPT ![r] = next]
      BY <2>3
    <3>3. request[r].call.op \in {"put", "patch"}
      BY <1>4 DEF PutRecord
    <3> HIDE DEF next
    <3> QED
      BY <2>1, <2>3, <3>1, <3>2, <3>3, GoesOn
  <2> QED
    BY <2>1, <2>2, <2>3, RefuseKeeps, CommitKeeps
<1>5. CASE InsertRecord(r)
  <2>1. InStore(r)
    BY <1>5 DEF InsertRecord, InStore
  <2>2. Refuse(r, 409) \/ (Commit(r, request[r].id, 201) /\ process' = process)
    BY <1>5 DEF InsertRecord
  <2> QED
    BY <2>1, <2>2, RefuseKeeps, CommitKeeps
<1>6. CASE DeleteRecord(r)
  <2>1. InStore(r)
    BY <1>6 DEF DeleteRecord, InStore
  <2>2. (\E status : Refuse(r, status)) \/ (Commit(r, request[r].id, 204) /\ process' = process)
    BY <1>6 DEF DeleteRecord
  <2> QED
    BY <2>1, <2>2, RefuseKeeps, CommitKeeps
<1> QED
  BY <1>1, <1>2, <1>3, <1>4, <1>5, <1>6

\* The invariant of HttpService: a mutation is under way in the store only in a
\* process that was started to allow it.
THEOREM Invariant == Spec => []IInv
<1>1. Init => IInv
  BY DEF Init, Idle, IInv, Formed, Fields, DownIsIdle, MutationsAllowed, Mutates,
     InsertsArePuts, InProgress, InStore
<1>2. IInv /\ [Next]_vars => IInv'
  <2> SUFFICES ASSUME IInv, [Next]_vars PROVE IInv'
    OBVIOUS
  <2>1. CASE \/ \E mode \in {"deny", "external"} : Serve(mode)
             \/ Terminate \/ ShutdownTimeout
    BY <2>1, ProcessKeeps DEF Serve, Terminate, ShutdownTimeout
  <2>2. CASE Stop \/ Crash
    BY <2>2, ExitKeeps DEF Stop, Crash
  <2>3. CASE \E r \in Requests : Send(r) \/ Retry(r) \/ GiveUp(r)
    BY <2>3, ClientKeeps
  <2>4. CASE \E r \in Requests : Handle(r) \/ Fault(r)
    BY <2>4, ReadKeeps, WriteKeeps DEF Handle
  <2>5. CASE Change \/ Rest \/ UNCHANGED vars
    <3>1. UNCHANGED <<process, request>>
      BY <2>5 DEF Change, Rest, vars
    <3> QED
      BY <3>1 DEF IInv, Formed, DownIsIdle, MutationsAllowed, Mutates, InsertsArePuts,
         InProgress, InStore
  <2> QED
    BY <2>1, <2>2, <2>3, <2>4, <2>5 DEF Next
<1> QED
  BY <1>1, <1>2, PTL DEF Spec

-----------------------------------------------------------------------------
(* Authorisation.                                                          *)

LEMMA OnlyMutationsWrite ==
    ASSUME IInv, [Next]_vars, config' = config, records' # records
    PROVE  \E r \in Requests : Mutates(r)
<1>1. CASE Change
  BY <1>1 DEF Change, Store!Configure, Store!Remove
<1>2. CASE \E r \in Requests : CreateRecord(r)
  BY <1>2 DEF CreateRecord, Mutates, InStore, Mutations
<1>3. CASE \E r \in Requests : PutRecord(r)
  BY <1>3 DEF PutRecord, Mutates, InStore, Mutations
<1>4. CASE \E r \in Requests : InsertRecord(r)
  BY <1>4 DEF InsertRecord, IInv, InsertsArePuts, Mutates, InStore, Mutations
<1>5. CASE \E r \in Requests : DeleteRecord(r)
  BY <1>5 DEF DeleteRecord, Mutates, InStore, Mutations
<1>6. CASE \E r \in Requests :
             \/ NoConnection(r) \/ GetCatalog(r) \/ DescribeCatalog(r) \/ Ready(r)
             \/ SearchRecords(r) \/ Answer(r) \/ Fault(r) \/ ValidateRecord(r)
             \/ Retry(r) \/ GiveUp(r)
  BY <1>6 DEF NoConnection, GetCatalog, DescribeCatalog, Ready, SearchRecords, Answer,
     Fault, ValidateRecord, Retry, GiveUp, Refuse
<1>8. CASE \E r \in Requests : GetRecord(r)
  BY <1>8, Zenon DEF GetRecord
<1>9. CASE \E r \in Requests : Send(r)
  BY <1>9, Zenon DEF Send
<1>10. CASE \E r \in Requests : MergePatch(r)
  <2>1. PICK r \in Requests : MergePatch(r)
    BY <1>10
  <2>2. (\E status : Refuse(r, status)) \/ records' = records
    BY <2>1, MergeRefusesOrGoesOn
  <2> QED
    BY <2>2 DEF Refuse
<1>7. CASE \/ \E mode \in {"deny", "external"} : Serve(mode)
           \/ Terminate \/ ShutdownTimeout \/ Stop \/ Crash \/ Rest \/ UNCHANGED vars
  BY <1>7 DEF Serve, Terminate, ShutdownTimeout, Stop, Crash, Exit, Rest, vars
<1> QED
  BY <1>1, <1>2, <1>3, <1>4, <1>5, <1>6, <1>7, <1>8, <1>9, <1>10 DEF Next, Handle

\* With TLON_AUTH_MODE=deny no request changes a record, whatever the process did
\* before it was started in that mode, whichever requests and documents there are.
THEOREM NothingChangesWhileDenied == Spec => DeniedChangesNothing
<1>1. IInv /\ [Next]_vars => [process.mode = "deny" /\ config' = config => UNCHANGED records]_vars
  BY OnlyMutationsWrite DEF IInv, MutationsAllowed
<1> QED
  BY <1>1, Invariant, PTL DEF Spec, DeniedChangesNothing

-----------------------------------------------------------------------------
(* What entity tags are worth: the invariant.                              *)

Statuses == {Nil, 200, 201, 204, 400, 403, 404, 409, 412, 500, 503}

Sendable(m) ==
    /\ m.op \in Operations
    /\ m.op \in Addressed => m.id \in Ids
    /\ m.op \in {"put", "post"} => m.doc \in Docs
    /\ Conditional(m) => m.op \in {"put", "patch", "delete"}

Underway(v) == v.phase \in {"reading", "validating", "writing", "inserting"}
Remembered(v) == v.phase \notin {"unsent", "answered"}

\* What a request in the store has to do there.
Pending(v) ==
    /\ v.did = Nil /\ v.status = Nil /\ v.id = v.call.id
    /\ v.call.op \in Addressed => v.id \in Ids
    /\ v.phase = "reading" /\ v.call.op = "patch" => v.call.doc \in Objects
    /\ v.phase \in {"validating", "inserting"} => v.doc \in Docs
    /\ v.phase = "writing" => v.call.op = "delete" \/ v.doc \in Docs
    /\ v.phase = "inserting" => v.base = Nil

Shaped(v) ==
    /\ v.phase \in Phases
    /\ v.phase = "unsent" => v = Idle
    /\ v.gone => v.phase # "answered"
    /\ v.status \in Statuses
    /\ v.base \in Stamps \cup {Nil}
    /\ v.shown \in Stamps \cup {Nil}
    /\ v.did \in Effects \cup {Nil}
    /\ Remembered(v) => Sendable(v.call)
    /\ Underway(v) => Pending(v)

\* A condition is the version of its base, and what a request with a base has
\* changed had that version.
Conditioned(v) ==
    /\ v.base # Nil => v.cond = v.base.version /\ v.id \in Ids
    /\ v.base = Nil => v.cond \in {Nil, AnyVersion}
    /\ Remembered(v) /\ v.base # Nil => v.call.op \in {"put", "patch", "delete"} /\ v.id = v.call.id
    /\ Remembered(v) /\ Conditional(v.call) => v.base # Nil
    /\ v.did # Nil => v.did.id = v.id
    /\ v.did # Nil /\ v.base # Nil =>
           /\ v.did.was # Nil /\ v.did.was.version = v.cond
           /\ v.did.was.life = v.base.life => v.did.was = v.base

\* A stamp that the record has had and will never have again.
Past(s, id) ==
    \/ s.life < lives[id]
    \/ s.life = lives[id] /\ (records[id] = Nil \/ s.version < records[id].version)

Settled(v) ==
    /\ v.did # Nil /\ v.did.was # Nil => Past(v.did.was, v.id)
    /\ v.status = 412 /\ v.base # Nil => Past(v.base, v.id)

StoreTyped ==
    /\ Store!TypeOK
    /\ lives \in [Ids -> Nat]
    /\ \A id \in Ids : records[id] # Nil => lives[id] \in Nat \ {0}

ProcessTyped ==
    process \in [phase : {"down", "serving", "draining", "closing"}, mode : {"deny", "external"}]

KnownTyped == known \in [Clients -> [Ids -> Stamps \cup {Nil}]]

\* Where a stamp may be held.
Holds(v, s) ==
    \/ v.shown = s
    \/ v.base = s
    \/ v.did # Nil /\ (v.did.was = s \/ v.did.now = s)

Seen(s, id) ==
    \/ Stamp(id) = s
    \/ \E c \in Clients : known[c][id] = s
    \/ \E r \in Requests : request[r].id = id /\ Holds(request[r], s)

SeenIsPast ==
    \A id \in Ids, s \in Stamps : Seen(s, id) => s = Stamp(id) \/ Past(s, id)

SeenAgrees ==
    \A id \in Ids, s, t \in Stamps :
        Seen(s, id) /\ Seen(t, id) /\ s.life = t.life /\ s.version = t.version => s = t

\* The same stamp is not replaced twice.
ReplacedOnce ==
    \A r, q \in Requests :
        LET v == request[r].did
            w == request[q].did
        IN  r # q /\ v # Nil /\ w # Nil /\ v.id = w.id /\ v.was # Nil /\ w.was # Nil
            => v.was.life # w.was.life \/ v.was.version # w.was.version

\* A repetition has the condition of the first attempt, which is not answered.
RepeatOf(v, w) ==
    /\ w.phase = "lost" \/ w.gone
    /\ Conditional(w.call) => v.cond = w.cond /\ w.cond \in Nat /\ v.id = w.id

Repeats ==
    \A r \in Requests : RetryOf[r] # Nil /\ request[r].phase # "unsent" =>
        RetryOf[r] # r /\ RepeatOf(request[r], request[RetryOf[r]])

RequestsSound ==
    \A r \in Requests :
        /\ Shaped(request[r]) /\ Conditioned(request[r]) /\ Settled(request[r])
        /\ request[r].phase = "inserting" => config # Nil

TypesSound == StoreTyped /\ ProcessTyped /\ KnownTyped

HistorySound == SeenIsPast /\ SeenAgrees /\ ReplacedOnce /\ Repeats

TInv == TypesSound /\ RequestsSound /\ HistorySound

-----------------------------------------------------------------------------
(* Stamps and what the store does to them.                                 *)

LEMMA StampTyped ==
    ASSUME StoreTyped, NEW id \in Ids
    PROVE  /\ records[id] = Nil => Stamp(id) = Nil
           /\ records[id] # Nil => /\ records[id] \in Store!Records
                                   /\ Stamp(id) \in Stamps
                                   /\ Stamp(id).life = lives[id]
                                   /\ Stamp(id).version = records[id].version
                                   /\ Stamp(id).doc = records[id].doc
<1>1. records[id] = Nil => Stamp(id) = Nil
  BY DEF Stamp
<1>2. records[id] # Nil => records[id] \in Store!Records /\ lives[id] \in Nat \ {0}
  BY DEF StoreTyped, Store!TypeOK
<1>3. records[id] # Nil => Stamp(id) = [life |-> lives[id], version |-> records[id].version,
                                        doc |-> records[id].doc]
  BY DEF Stamp
<1> QED
  BY <1>1, <1>2, <1>3 DEF Store!Records, Stamps

LEMMA PastIsNotCurrent ==
    ASSUME StoreTyped, NEW id \in Ids, NEW s \in Stamps, Past(s, id)
    PROVE  s # Stamp(id) /\ (Stamp(id) # Nil => s.life # Stamp(id).life
                                                \/ s.version # Stamp(id).version)
<1>1. s.life \in Nat /\ s.version \in Nat /\ s # Nil
  BY NilAssumption DEF Stamps
<1>2. lives[id] \in Nat
  BY DEF StoreTyped
<1>3. records[id] # Nil => records[id].version \in Nat
  BY DEF StoreTyped, Store!TypeOK, Store!Records
<1> QED
  BY <1>1, <1>2, <1>3, StampTyped DEF Past

\* What one step may do to a record: nothing, or a replacement, a creation or a
\* deletion.
StoreMoves ==
    \A id \in Ids :
        \/ records'[id] = records[id] /\ lives'[id] = lives[id]
        \/ /\ records[id] # Nil /\ records'[id] # Nil
           /\ records'[id].version = records[id].version + 1 /\ lives'[id] = lives[id]
        \/ records[id] = Nil /\ records'[id] # Nil /\ lives'[id] = lives[id] + 1
        \/ records'[id] = Nil /\ lives'[id] = lives[id]

LEMMA PastStays ==
    ASSUME StoreTyped, StoreTyped', StoreMoves, NEW id \in Ids, NEW s \in Stamps
    PROVE  /\ Past(s, id) => Past(s, id)'
           /\ s = Stamp(id) => s = Stamp(id)' \/ Past(s, id)'
<1>1. s.life \in Nat /\ s.version \in Nat /\ s # Nil
  BY NilAssumption DEF Stamps
<1>2. lives[id] \in Nat /\ lives'[id] \in Nat
  BY DEF StoreTyped
<1>3. records[id] # Nil => records[id].version \in Nat
  BY DEF StoreTyped, Store!TypeOK, Store!Records
<1>4. records'[id] # Nil => records'[id].version \in Nat
  BY DEF StoreTyped, Store!TypeOK, Store!Records
<1>5. Past(s, id) => Past(s, id)'
  BY <1>1, <1>2, <1>3, <1>4 DEF StoreMoves, Past
<1>6. s = Stamp(id) => records[id] # Nil /\ s.life = lives[id] /\ s.version = records[id].version
  BY <1>1, StampTyped
<1>7. CASE records'[id] = records[id] /\ lives'[id] = lives[id]
  <2>1. Stamp(id)' = Stamp(id)
    BY <1>7 DEF Stamp
  <2> QED
    BY <1>5, <2>1
<1>8. CASE ~ (records'[id] = records[id] /\ lives'[id] = lives[id])
  BY <1>1, <1>2, <1>3, <1>4, <1>5, <1>6, <1>8 DEF StoreMoves, Past
<1> QED
  BY <1>7, <1>8

\* When nothing is seen that was not, except for the new state of a record, all
\* that is seen stays in order.
LEMMA OrderKeeps ==
    ASSUME StoreTyped, StoreTyped', StoreMoves, SeenIsPast, SeenAgrees,
           \A id \in Ids, s \in Stamps : Seen(s, id)' => Seen(s, id) \/ s = Stamp(id)'
    PROVE  SeenIsPast' /\ SeenAgrees'
<1>1. ASSUME NEW id \in Ids, NEW s \in Stamps, Seen(s, id)'
      PROVE  s = Stamp(id)' \/ Past(s, id)'
  <2>1. Seen(s, id) \/ s = Stamp(id)'
    BY <1>1
  <2>2. Seen(s, id) => s = Stamp(id) \/ Past(s, id)
    BY DEF SeenIsPast
  <2> QED
    BY <2>1, <2>2, PastStays
<1>2. ASSUME NEW id \in Ids, NEW s \in Stamps, NEW t \in Stamps, Seen(s, id)', Seen(t, id)',
             s.life = t.life, s.version = t.version
      PROVE  s = t
  <2>1. s # Nil /\ t # Nil
    BY NilAssumption
  <2>2. \A u \in Stamps : Past(u, id)' => Stamp(id)' = Nil \/ u.life # Stamp(id)'.life
                                                          \/ u.version # Stamp(id)'.version
    <3>1. SUFFICES ASSUME NEW u \in Stamps, Past(u, id)', Stamp(id)' # Nil
                   PROVE  u.life # Stamp(id)'.life \/ u.version # Stamp(id)'.version
      OBVIOUS
    <3>2. /\ records'[id] # Nil
          /\ Stamp(id)' = [life |-> lives'[id], version |-> records'[id].version,
                          doc |-> records'[id].doc]
      BY <3>1 DEF Stamp
    <3>3. u.life \in Nat /\ u.version \in Nat /\ lives'[id] \in Nat /\ records'[id].version \in Nat
      BY <3>2 DEF Stamps, StoreTyped, Store!TypeOK, Store!Records
    <3> QED
      BY <3>1, <3>2, <3>3 DEF Past
  <2>3. CASE s = Stamp(id)' \/ t = Stamp(id)'
    BY <1>1, <1>2, <2>1, <2>2, <2>3
  <2>4. CASE s # Stamp(id)' /\ t # Stamp(id)'
    <3>1. Seen(s, id) /\ Seen(t, id)
      BY <1>2, <2>4
    <3> QED
      BY <1>2, <3>1 DEF SeenAgrees
  <2> QED
    BY <2>3, <2>4
<1>3. SeenIsPast'
  BY <1>1 DEF SeenIsPast
<1>4. SeenAgrees'
  BY <1>2 DEF SeenAgrees
<1> QED
  BY <1>3, <1>4

-----------------------------------------------------------------------------
(* One request moves.                                                      *)

Becomes(r, w) == request' = [request EXCEPT ![r] = w]

LEMMA OneChanges ==
    ASSUME Formed, NEW r \in Requests, NEW w, Becomes(r, w)
    PROVE  \A q \in Requests : request'[q] = IF q = r THEN w ELSE request[q]
BY DEF Formed, Becomes

\* What a move of a request keeps for those that repeat it.
Follows(v, w) ==
    /\ v.phase # "unsent" /\ w.phase # "unsent"
    /\ v.phase # "lost"
    /\ v.gone => w.call = v.call /\ (w.gone \/ w.phase = "lost")
    /\ v.cond \in Nat => w.cond = v.cond /\ w.id = v.id

LEMMA FollowsKeeps ==
    ASSUME Formed, Repeats, NEW r \in Requests, NEW w, Becomes(r, w), Follows(request[r], w)
    PROVE  Repeats'
<1> SUFFICES ASSUME NEW q \in Requests, RetryOf[q] # Nil, request'[q].phase # "unsent"
             PROVE  RetryOf[q] # q /\ RepeatOf(request'[q], request'[RetryOf[q]])
  BY DEF Repeats
<1>1. \A p \in Requests : request'[p] = IF p = r THEN w ELSE request[p]
  BY OneChanges
<1>2. RetryOf[q] \in Requests
  BY TypesAssumption
<1>3. RetryOf[q] # q /\ RepeatOf(request[q], request[RetryOf[q]])
  BY <1>1 DEF Repeats, Follows
<1>4. CASE q = r
  BY <1>1, <1>2, <1>3, <1>4 DEF RepeatOf, Follows
<1>5. CASE q # r /\ RetryOf[q] = r
  BY <1>1, <1>2, <1>3, <1>5 DEF RepeatOf, Follows
<1>6. CASE q # r /\ RetryOf[q] # r
  BY <1>1, <1>2, <1>3, <1>6
<1> QED
  BY <1>4, <1>5, <1>6

\* What one request learns has been seen, or is new in the store.
Learns(v, w) ==
    \A s \in Stamps : w.id \in Ids /\ Holds(w, s) =>
        s = Stamp(w.id) \/ s = Stamp(w.id)' \/ (w.id = v.id /\ Holds(v, s)) \/ Seen(s, w.id)

\* What clients learn has been seen.
ClientsLearn ==
    \A c \in Clients, id \in Ids, s \in Stamps : known'[c][id] = s => Seen(s, id)

\* What a request does, it does to the present state of a record.
Acts(v, w) ==
    \/ w.did = Nil
    \/ w.did = v.did
    \/ w.did.was # Nil => w.did.was = Stamp(w.did.id) /\ w.did.id \in Ids

LEMMA SettledStays ==
    ASSUME StoreTyped, StoreTyped', StoreMoves, NEW v, Shaped(v), Conditioned(v), Settled(v)
    PROVE  Settled(v)'
<1>1. v.did # Nil /\ v.did.was # Nil => v.did.was \in Stamps /\ v.id \in Ids
  BY DEF Shaped, Conditioned, Effects
<1>2. v.base # Nil => v.base \in Stamps /\ v.id \in Ids
  BY DEF Shaped, Conditioned
<1>3. v.did # Nil /\ v.did.was # Nil => Past(v.did.was, v.id)'
  BY <1>1, PastStays DEF Settled
<1>4. v.status = 412 /\ v.base # Nil => Past(v.base, v.id)'
  BY <1>2, PastStays DEF Settled
<1> QED
  BY <1>3, <1>4 DEF Settled

LEMMA OneAdvances ==
    ASSUME Formed, TInv, NEW r \in Requests, NEW w, Becomes(r, w),
           StoreTyped', StoreMoves, config # Nil => config' # Nil, TypesSound', ClientsLearn,
           Shaped(w), Conditioned(w), Settled(w)',
           w.phase = "inserting" => config # Nil,
           Learns(request[r], w), Acts(request[r], w), Repeats'
    PROVE  TInv'
<1> DEFINE v == request[r]
<1>1. \A q \in Requests : request'[q] = IF q = r THEN w ELSE request[q]
  BY OneChanges DEF TInv
<1>2. RequestsSound'
  <2> SUFFICES ASSUME NEW q \in Requests
               PROVE  (/\ Shaped(request[q]) /\ Conditioned(request[q]) /\ Settled(request[q])
                       /\ request[q].phase = "inserting" => config # Nil)'
    BY DEF RequestsSound
  <2>1. CASE q = r
    <3>1. request'[q] = w
      BY <1>1, <2>1
    <3>2. Shaped(request[q])' /\ Conditioned(request[q])'
      BY <3>1 DEF Shaped, Conditioned, Pending, Remembered, Underway
    <3>3. Settled(request[q])'
      BY <3>1 DEF Settled, Past
    <3> QED
      BY <3>1, <3>2, <3>3
  <2>2. CASE q # r
    <3>1. PICK u : u = request[q]
      OBVIOUS
    <3>2. request'[q] = u
      BY <1>1, <2>2, <3>1
    <3>3. Shaped(u) /\ Conditioned(u) /\ Settled(u) /\ (u.phase = "inserting" => config # Nil)
      BY <3>1 DEF TInv, RequestsSound
    <3>4. Settled(u)'
      BY <3>3, SettledStays DEF TInv, TypesSound
    <3>5. Shaped(request[q])' /\ Conditioned(request[q])'
      BY <3>2, <3>3 DEF Shaped, Conditioned, Pending, Remembered, Underway
    <3>6. Settled(request[q])'
      BY <3>2, <3>4 DEF Settled, Past
    <3> QED
      BY <3>2, <3>3, <3>5, <3>6
  <2> QED
    BY <2>1, <2>2
<1>3. \A id \in Ids, s \in Stamps : Seen(s, id)' => Seen(s, id) \/ s = Stamp(id)'
  <2> SUFFICES ASSUME NEW id \in Ids, NEW s \in Stamps, Seen(s, id)'
               PROVE  Seen(s, id) \/ s = Stamp(id)'
    OBVIOUS
  <2>1. CASE \E c \in Clients : known'[c][id] = s
    BY <2>1 DEF ClientsLearn
  <2>2. CASE \E q \in Requests : request'[q].id = id /\ Holds(request'[q], s)
    <3>1. PICK q \in Requests : request'[q].id = id /\ Holds(request'[q], s)
      BY <2>2
    <3>2. CASE q = r
      BY <1>1, <3>1, <3>2 DEF Learns, Seen
    <3>3. CASE q # r
      BY <1>1, <3>1, <3>3 DEF Seen
    <3> QED
      BY <3>2, <3>3
  <2>3. Stamp(id)' = s \/ (\E c \in Clients : known'[c][id] = s)
        \/ (\E q \in Requests : request'[q].id = id /\ Holds(request'[q], s))
    BY DEF Seen, Holds
  <2> QED
    BY <2>1, <2>2, <2>3
<1>4. SeenIsPast' /\ SeenAgrees'
  BY <1>3, OrderKeeps DEF TInv, TypesSound, HistorySound
<1>5. ReplacedOnce'
  <2>1. \A q \in Requests :
           request[q].did # Nil /\ request[q].did.was # Nil =>
               /\ request[q].did.id \in Ids
               /\ request[q].did.was \in Stamps
               /\ Past(request[q].did.was, request[q].did.id)
    BY DEF TInv, RequestsSound, Shaped, Effects, Settled, Conditioned
  <2>2. \A q \in Requests :
           q # r /\ request[q].did # Nil /\ request[q].did.was # Nil
           /\ w.did # Nil /\ w.did.was # Nil /\ w.did.id = request[q].did.id
           => \/ w.did.was.life # request[q].did.was.life
              \/ w.did.was.version # request[q].did.was.version
    <3> SUFFICES ASSUME NEW q \in Requests, q # r, request[q].did # Nil, request[q].did.was # Nil,
                        w.did # Nil, w.did.was # Nil, w.did.id = request[q].did.id
                 PROVE  \/ w.did.was.life # request[q].did.was.life
                        \/ w.did.was.version # request[q].did.was.version
      OBVIOUS
    <3>1. CASE w.did = v.did
      BY <3>1 DEF TInv, HistorySound, ReplacedOnce
    <3>2. CASE w.did.was = Stamp(w.did.id)
      BY <2>1, <3>2, PastIsNotCurrent DEF TInv, TypesSound
    <3> QED
      BY <3>1, <3>2 DEF Acts
  <2>3. SUFFICES ASSUME NEW p \in Requests, NEW q \in Requests, p # q,
                        request'[p].did # Nil, request'[q].did # Nil,
                        request'[p].did.id = request'[q].did.id,
                        request'[p].did.was # Nil, request'[q].did.was # Nil
                 PROVE  \/ request'[p].did.was.life # request'[q].did.was.life
                        \/ request'[p].did.was.version # request'[q].did.was.version
    BY DEF ReplacedOnce
  <2>4. CASE p = r
    BY <1>1, <2>2, <2>3, <2>4
  <2>5. CASE q = r
    BY <1>1, <2>2, <2>3, <2>5
  <2>6. CASE p # r /\ q # r
    BY <1>1, <2>3, <2>6 DEF TInv, HistorySound, ReplacedOnce
  <2> QED
    BY <2>4, <2>5, <2>6
<1> QED
  BY <1>2, <1>4, <1>5 DEF TInv, HistorySound

-----------------------------------------------------------------------------
(* A request moves and the store stays as it is.                           *)

LEMMA StoreStays ==
    ASSUME StoreTyped, UNCHANGED <<config, records, lives>>
    PROVE  StoreTyped' /\ StoreMoves /\ (\A id \in Ids : Stamp(id)' = Stamp(id))
BY DEF StoreTyped, Store!TypeOK, StoreMoves, Stamp

LEMMA ClientsStay ==
    ASSUME known' = known
    PROVE  ClientsLearn
BY DEF ClientsLearn, Seen

LEMMA RequestMoves ==
    ASSUME Formed, TInv, NEW r \in Requests, NEW w, Becomes(r, w),
           UNCHANGED <<config, records, lives, process, known>>,
           Shaped(w), Conditioned(w), Settled(w),
           w.phase = "inserting" => config # Nil,
           w.did = request[r].did,
           Learns(request[r], w), Follows(request[r], w)
    PROVE  TInv'
<1>1. StoreTyped' /\ StoreMoves
  BY StoreStays DEF TInv, TypesSound
<1>2. TypesSound'
  BY <1>1 DEF TInv, TypesSound, ProcessTyped, KnownTyped
<1>3. Settled(w)'
  BY <1>1, SettledStays DEF TInv, TypesSound
<1>4. Repeats'
  BY FollowsKeeps DEF TInv, HistorySound
<1> QED
  BY <1>1, <1>2, <1>3, <1>4, ClientsStay, OneAdvances DEF Acts

LEMMA UnderwayIsInStore ==
    ASSUME NEW r, InStore(r)
    PROVE  Underway(request[r]) /\ Remembered(request[r]) /\ request[r].phase # "lost"
BY DEF InStore, Underway, Remembered

\* A call of the store that changes nothing ends with a status; 412 says that
\* what the request is conditioned on has gone.
LEMMA RefuseMoves ==
    ASSUME IInv, TInv, NEW r \in Requests, InStore(r), NEW status \in Statuses,
           request' = [request EXCEPT ![r].phase = "answering", ![r].status = status],
           UNCHANGED <<config, records, lives, process, known>>,
           status = 412 /\ request[r].base # Nil => Past(request[r].base, request[r].id)
    PROVE  TInv'
<1> DEFINE v == request[r]
           w == [request[r] EXCEPT !.phase = "answering", !.status = status]
<1>1. Formed /\ DOMAIN v = Fields
  BY DEF IInv, Formed
<1>2. Becomes(r, w)
  BY DEF Becomes
<1>3. /\ w.phase = "answering" /\ w.status = status /\ w.call = v.call /\ w.id = v.id
      /\ w.doc = v.doc /\ w.cond = v.cond /\ w.base = v.base /\ w.shown = v.shown
      /\ w.did = v.did /\ w.gone = v.gone
  BY <1>1 DEF Fields
<1>4. Shaped(v) /\ Conditioned(v) /\ Settled(v)
  BY DEF TInv, RequestsSound
<1>5. Underway(v) /\ Remembered(v) /\ v.phase # "lost"
  BY UnderwayIsInStore
<1>6. v.did = Nil
  BY <1>4, <1>5 DEF Shaped, Pending
<1> HIDE DEF w
<1>7. Shaped(w)
  BY <1>3, <1>4, <1>5 DEF Shaped, Phases, Underway, Remembered
<1>8. Conditioned(w)
  BY <1>3, <1>4, <1>5 DEF Conditioned, Remembered
<1>9. Settled(w)
  BY <1>3, <1>6 DEF Settled
<1>10. Learns(v, w) /\ Follows(v, w)
  BY <1>3, <1>5 DEF Learns, Holds, Follows, Underway
<1> QED
  BY <1>1, <1>2, <1>3, <1>7, <1>8, <1>9, <1>10, RequestMoves

\* A status of a list of checks is the status of one that fails.
LEMMA RefusalIsACheck ==
    ASSUME NEW checks, NEW n \in 0 .. 8, DOMAIN checks = 1 .. n, Refusal(checks) # Nil
    PROVE  \E i \in 1 .. n : checks[i][1] /\ Refusal(checks) = checks[i][2]
<1> DEFINE failed == {i \in DOMAIN checks : checks[i][1]}
<1>1. failed # {} /\ Refusal(checks) = checks[CHOOSE i \in failed : \A j \in failed : i <= j][2]
  BY DEF Refusal
<1>2. failed \in SUBSET (1 .. 8)
  OBVIOUS
<1>3. \E i \in failed : \A j \in failed : i <= j
  BY <1>1, <1>2, SmallestOfEight
<1>4. PICK k : k = CHOOSE i \in failed : \A j \in failed : i <= j
  OBVIOUS
<1>5. k \in failed
  BY <1>3, <1>4
<1> QED
  BY <1>1, <1>4, <1>5

\* A record that does not have the version that is asked for has left the base.
LEMMA MismatchIsPast ==
    ASSUME IInv, TInv, NEW r \in Requests, request[r].base # Nil,
           \/ records[request[r].id] = Nil
           \/ records[request[r].id] # Nil /\ Mismatch(r, request[r].id)
    PROVE  Past(request[r].base, request[r].id)
<1> DEFINE v == request[r]
<1>1. /\ v.base \in Stamps /\ v.id \in Ids /\ v.cond = v.base.version
  BY DEF TInv, RequestsSound, Shaped, Conditioned
<1>2. Seen(v.base, v.id)
  BY DEF Seen, Holds
<1>3. v.base = Stamp(v.id) \/ Past(v.base, v.id)
  BY <1>1, <1>2 DEF TInv, HistorySound, SeenIsPast
<1>4. v.base # Stamp(v.id)
  BY <1>1, StampTyped DEF TInv, TypesSound, Mismatch
<1> QED
  BY <1>3, <1>4

-----------------------------------------------------------------------------
(* A request arrives.                                                      *)

\* The client writes what it was called with.
LEMMA NewRequestSaysWhatIsAsked ==
    ASSUME NEW call, call.op \in Operations
    PROVE  LET m == NewRequest(call)
           IN  /\ m.op = call.op
               /\ m.op \in Addressed => m.id = call.id
               /\ m.op \in {"put", "post"} => m.doc = call.doc
               /\ m.op \in {"put", "patch", "delete"} \/ m.tags = <<>>
<1>1. CASE call.op = "search"
  <2>1. NewRequest(call) = NewSearchRecordsRequest(call)
    BY <1>1, Zenon DEF NewRequest
  <2> QED
    BY <1>1, <2>1 DEF NewSearchRecordsRequest, Message, Addressed
<1>2. CASE call.op = "headAll"
  <2>1. NewRequest(call) = NewHeadRecordsRequest(call)
    BY <1>2, Zenon DEF NewRequest
  <2> QED
    BY <1>2, <2>1 DEF NewHeadRecordsRequest, Message, Addressed
<1>3. CASE call.op = "post"
  <2>1. NewRequest(call) = NewCreateRecordRequest(call)
    BY <1>3, Zenon DEF NewRequest
  <2> QED
    BY <1>3, <2>1 DEF NewCreateRecordRequest, Message, Addressed
<1>4. CASE call.op = "delete"
  <2>1. NewRequest(call) = NewDeleteRecordRequest(call)
    BY <1>4, Zenon DEF NewRequest
  <2> QED
    BY <1>4, <2>1 DEF NewDeleteRecordRequest, Message, Addressed
<1>5. CASE call.op = "get"
  <2>1. NewRequest(call) = NewGetRecordRequest(call)
    BY <1>5, Zenon DEF NewRequest
  <2> QED
    BY <1>5, <2>1 DEF NewGetRecordRequest, Message, Addressed
<1>6. CASE call.op = "head"
  <2>1. NewRequest(call) = NewHeadRecordRequest(call)
    BY <1>6, Zenon DEF NewRequest
  <2> QED
    BY <1>6, <2>1 DEF NewHeadRecordRequest, Message, Addressed
<1>7. CASE call.op = "patch"
  <2>1. NewRequest(call) = NewPatchRecordRequest(call)
    BY <1>7, Zenon DEF NewRequest
  <2> QED
    BY <1>7, <2>1 DEF NewPatchRecordRequest, Message, Addressed
<1>8. CASE call.op = "put"
  <2>1. NewRequest(call) = NewPutRecordRequest(call)
    BY <1>8, Zenon DEF NewRequest
  <2> QED
    BY <1>8, <2>1 DEF NewPutRecordRequest, Message, Addressed
<1>9. CASE call.op = "describe"
  <2>1. NewRequest(call) = NewGetCatalogRequest(call)
    BY <1>9, Zenon DEF NewRequest
  <2> QED
    BY <1>9, <2>1 DEF NewGetCatalogRequest, Message, Addressed
<1>10. CASE call.op = "facets"
  <2>1. NewRequest(call) = NewGetFacetsRequest(call)
    BY <1>10, Zenon DEF NewRequest
  <2> QED
    BY <1>10, <2>1 DEF NewGetFacetsRequest, Message, Addressed
<1>11. CASE call.op = "queryables"
  <2>1. NewRequest(call) = NewGetQueryablesRequest(call)
    BY <1>11, Zenon DEF NewRequest
  <2> QED
    BY <1>11, <2>1 DEF NewGetQueryablesRequest, Message, Addressed
<1>12. CASE call.op = "sortables"
  <2>1. NewRequest(call) = NewGetSortablesRequest(call)
    BY <1>12, Zenon DEF NewRequest
  <2> QED
    BY <1>12, <2>1 DEF NewGetSortablesRequest, Message, Addressed
<1>13. CASE call.op = "schema"
  <2>1. NewRequest(call) = NewGetRecordSchemaRequest(call)
    BY <1>13, Zenon DEF NewRequest
  <2> QED
    BY <1>13, <2>1 DEF NewGetRecordSchemaRequest, Message, Addressed
<1>14. CASE call.op = "ready"
  <2>1. NewRequest(call) = NewReadyRequest(call)
    BY <1>14, Zenon DEF NewRequest
  <2> QED
    BY <1>14, <2>1 DEF NewReadyRequest, Message, Addressed
<1> QED
  BY <1>1, <1>2, <1>3, <1>4, <1>5, <1>6, <1>7,
     <1>8, <1>9, <1>10, <1>11, <1>12, <1>13, <1>14
     DEF Operations, Mutations, Parts

LEMMA NewRequestIsSendable ==
    ASSUME NEW r \in Requests, NEW call \in Calls[r]
    PROVE  Sendable(NewRequest(call))
<1>1. /\ call.op \in Operations
      /\ call.op \in Addressed => call.id \in Ids
      /\ call.op \in {"put", "post"} => call.doc \in Docs
  BY CallsAssumption
<1> DEFINE m == NewRequest(call)
<1>2. /\ m.op = call.op
      /\ m.op \in Addressed => m.id = call.id
      /\ m.op \in {"put", "post"} => m.doc = call.doc
      /\ m.op \in {"put", "patch", "delete"} \/ m.tags = <<>>
  BY <1>1, NewRequestSaysWhatIsAsked
<1>3. <<>> # <<"known">>
  OBVIOUS
<1> HIDE DEF m
<1> QED
  BY <1>1, <1>2, <1>3 DEF Sendable, Conditional, m

\* How a request is refused on arrival, and what it has when it is not.
LEMMA ArrivalIsChecked ==
    ASSUME NEW m, m.op \in Operations
    PROVE  /\ Refusal(ChecksOf(m)) \in {Nil, 400, 403, 404, 500}
           /\ m.op = "patch" /\ Refusal(ChecksOf(m)) = Nil => m.doc \in Objects
<1>1. CASE m.op = "put"
  <2> DEFINE c == PutChecks(m)
  <2>1. DOMAIN c = 1 .. 7 /\ \A i \in 1 .. 7 : c[i][2] \in {400, 403, 404, 500}
    BY DEF PutChecks, TagChecks
  <2>3. ChecksOf(m) = c
    BY <1>1, Zenon DEF ChecksOf
  <2> HIDE DEF c
  <2> QED
    BY <1>1, <2>1, <2>3, RefusalIsACheck
<1>2. CASE m.op = "post"
  <2> DEFINE c == CreateChecks(m)
  <2>1. DOMAIN c = 1 .. 4 /\ \A i \in 1 .. 4 : c[i][2] \in {400, 403, 404, 500}
    BY DEF CreateChecks, TagChecks
  <2>3. ChecksOf(m) = c
    BY <1>2, Zenon DEF ChecksOf
  <2> HIDE DEF c
  <2> QED
    BY <1>2, <2>1, <2>3, RefusalIsACheck
<1>3. CASE m.op = "patch"
  <2> DEFINE c == PatchChecks(m)
  <2>1. DOMAIN c = 1 .. 5 /\ \A i \in 1 .. 5 : c[i][2] \in {400, 403, 404, 500}
    BY DEF PatchChecks, TagChecks
  <2>2. c[2][1] = ~ DecodePatchRecord(m)
    <3>1. c[2] = <<~ DecodePatchRecord(m), 400>>
      BY DEF PatchChecks, TagChecks
    <3> QED
      BY <3>1
  <2>3. ChecksOf(m) = c
    BY <1>3, Zenon DEF ChecksOf
  <2> HIDE DEF c
  <2>4. Refusal(c) = Nil => ~ c[2][1]
    BY <2>1, NoRefusal
  <2>5. Refusal(c) = Nil => m.doc \in Objects
    BY <2>2, <2>4, Zenon DEF DecodePatchRecord
  <2>6. Refusal(c) \in {Nil, 400, 403, 404, 500}
    BY <2>1, RefusalIsACheck
  <2> QED
    BY <2>3, <2>5, <2>6
<1>4. CASE m.op = "delete"
  <2> DEFINE c == DeleteChecks(m)
  <2>1. DOMAIN c = 1 .. 4 /\ \A i \in 1 .. 4 : c[i][2] \in {400, 403, 404, 500}
    BY DEF DeleteChecks, TagChecks
  <2>3. ChecksOf(m) = c
    BY <1>4, Zenon DEF ChecksOf
  <2> HIDE DEF c
  <2> QED
    BY <1>4, <2>1, <2>3, RefusalIsACheck
<1>5. CASE m.op = "search"
  <2> DEFINE c == <<<<~ BindSearchRecords(m), 400>>>>
  <2>1. DOMAIN c = 1 .. 1 /\ c[1][2] = 400
    OBVIOUS
  <2>2. ChecksOf(m) = c
    BY <1>5, Zenon DEF ChecksOf
  <2> HIDE DEF c
  <2> QED
    BY <1>5, <2>1, <2>2, RefusalIsACheck
<1>6. CASE m.op = "schema"
  <2> DEFINE c == <<<<~ BindGetRecordSchema(m), 400>>>>
  <2>1. DOMAIN c = 1 .. 1 /\ c[1][2] = 400
    OBVIOUS
  <2>2. ChecksOf(m) = c
    BY <1>6, Zenon DEF ChecksOf
  <2> HIDE DEF c
  <2> QED
    BY <1>6, <2>1, <2>2, RefusalIsACheck
<1>7. CASE m.op \notin {"put", "post", "patch", "delete", "search", "schema"}
  <2>1. m.op # "put" /\ m.op # "post" /\ m.op # "patch" /\ m.op # "delete"
        /\ m.op # "search" /\ m.op # "schema"
    BY <1>7
  <2>2. ChecksOf(m) = <<>>
    BY <2>1, Zenon DEF ChecksOf
  <2>3. Refusal(<<>>) = Nil
    BY DEF Refusal
  <2> QED
    BY <2>1, <2>2, <2>3
<1> QED
  BY <1>1, <1>2, <1>3, <1>4, <1>5, <1>6, <1>7

LEMMA FirstStepIs ==
    ASSUME NEW op
    PROVE  /\ op \in {"put", "post"} => FirstStep(op) = "validating"
           /\ op = "delete" => FirstStep(op) = "writing"
           /\ op \notin {"put", "post", "delete"} => FirstStep(op) = "reading"
<1>1. CASE op \in {"put", "post"}
  <2>1. FirstStep(op) = "validating"
    BY <1>1, Zenon DEF FirstStep
  <2> QED
    BY <1>1, <2>1
<1>2. CASE op = "delete"
  <2>1. op \notin {"put", "post"}
    BY <1>2
  <2>2. FirstStep(op) = "writing"
    BY <1>2, <2>1, Zenon DEF FirstStep
  <2> QED
    BY <1>2, <2>2
<1>3. CASE op \notin {"put", "post", "delete"}
  <2>1. op \notin {"put", "post"} /\ op # "delete"
    BY <1>3
  <2>2. FirstStep(op) = "reading"
    BY <2>1, Zenon DEF FirstStep
  <2> QED
    BY <1>3, <2>2
<1> QED
  BY <1>1, <1>2, <1>3

LEMMA ExpectedIs ==
    ASSUME NEW m, NEW base
    PROVE  /\ Conditional(m) => Expected(m, base) = base.version
           /\ ~ Conditional(m) => Expected(m, base) \in {Nil, AnyVersion}
<1>1. CASE m.tags = <<"known">>
  <2>1. m.tags # <<"any">>
    BY <1>1
  <2>2. Expected(m, base) = base.version
    BY <1>1, <2>1, Zenon DEF Expected
  <2> QED
    BY <1>1, <2>2 DEF Conditional
<1>2. CASE m.tags = <<"any">>
  <2>1. m.tags # <<"known">>
    BY <1>2
  <2>2. Expected(m, base) = AnyVersion
    BY <1>2, <2>1, Zenon DEF Expected
  <2> QED
    BY <2>1, <2>2 DEF Conditional
<1>3. CASE m.tags # <<"any">> /\ m.tags # <<"known">>
  <2>1. Expected(m, base) = Nil
    BY <1>3, Zenon DEF Expected
  <2> QED
    BY <1>3, <2>1 DEF Conditional
<1> QED
  BY <1>1, <1>2, <1>3

LEMMA ReceivedIs ==
    ASSUME NEW m, NEW base, Sendable(m), base \in Stamps \cup {Nil},
           base # Nil <=> Conditional(m)
    PROVE  LET w == Received(m, base)
           IN  /\ Shaped(w) /\ Conditioned(w)
               /\ w.phase \notin {"unsent", "inserting"} /\ w.id = m.id /\ w.base = base
               /\ w.shown = Nil /\ w.did = Nil /\ w.status # 412
<1> DEFINE w == Received(m, base)
           refusal == Refusal(ChecksOf(m))
<1>1. /\ refusal \in {Nil, 400, 403, 404, 500}
      /\ m.op = "patch" /\ refusal = Nil => m.doc \in Objects
  BY ArrivalIsChecked DEF Sendable
<1>2. /\ w.phase = IF refusal = Nil THEN FirstStep(m.op) ELSE "answering"
      /\ w.call = m /\ w.status = refusal /\ w.base = base /\ w.cond = Expected(m, base)
      /\ w.id = m.id /\ w.gone = FALSE /\ w.shown = Nil /\ w.did = Nil
      /\ w.doc = IF refusal = Nil /\ m.op \in {"put", "post"} THEN Sent[m.doc] ELSE Nil
  BY DEF Received, Idle
<1> HIDE DEF w, refusal
<1>3. /\ w.phase \in {"validating", "writing", "reading", "answering"}
      /\ w.phase = "validating" => m.op \in {"put", "post"}
      /\ w.phase = "writing" => m.op = "delete"
      /\ w.phase # "answering" => refusal = Nil
  BY <1>2, FirstStepIs
<1>4. m.op \in {"put", "post"} => Sent[m.doc] \in Docs
  BY TypesAssumption DEF Sendable
<1>5. base # Nil => base \in Stamps /\ m.id \in Ids /\ m.op \in {"put", "patch", "delete"}
  BY DEF Sendable, Addressed
<1>6. Underway(w) => Pending(w)
  BY <1>1, <1>2, <1>3, <1>4 DEF Underway, Pending, Sendable
<1>7. Shaped(w)
  BY <1>1, <1>2, <1>3, <1>6 DEF Shaped, Phases, Statuses, Remembered
<1>8. Conditioned(w)
  BY <1>2, <1>3, <1>5, ExpectedIs DEF Conditioned, Remembered
<1>9. 412 # Nil
  BY NilAssumption
<1> QED
  BY <1>1, <1>2, <1>3, <1>7, <1>8, <1>9 DEF w

LEMMA ArrivalMoves ==
    ASSUME IInv, TInv, NEW r \in Requests, request[r].phase = "unsent",
           NEW m, Sendable(m), NEW base, base \in Stamps \cup {Nil},
           base # Nil <=> Conditional(m),
           base # Nil => Seen(base, m.id),
           request' = [request EXCEPT ![r] = Received(m, base)],
           UNCHANGED <<config, records, lives, process, known>>,
           RetryOf[r] # Nil => RetryOf[r] # r /\ RepeatOf(Received(m, base), request[RetryOf[r]])
    PROVE  TInv'
<1>1. PICK w : w = Received(m, base)
  OBVIOUS
<1>2. /\ Shaped(w) /\ Conditioned(w)
      /\ w.phase \notin {"unsent", "inserting"} /\ w.id = m.id /\ w.base = base
      /\ w.shown = Nil /\ w.did = Nil /\ w.status # 412
  BY <1>1, ReceivedIs
<1>3. /\ Becomes(r, w)
      /\ RetryOf[r] # Nil => RetryOf[r] # r /\ RepeatOf(w, request[RetryOf[r]])
  BY <1>1 DEF Becomes
<1>4. StoreTyped' /\ StoreMoves /\ TypesSound'
  BY StoreStays DEF TInv, TypesSound, ProcessTyped, KnownTyped
<1>5. Settled(w)'
  BY <1>2 DEF Settled
<1>6. Learns(request[r], w) /\ Acts(request[r], w)
  BY <1>2, NilAssumption DEF Learns, Holds, Acts
<1>7. \A q \in Requests : request'[q] = IF q = r THEN w ELSE request[q]
  BY <1>3, OneChanges DEF IInv
<1>8. request[r].gone = FALSE /\ request[r].phase # "lost"
  BY DEF TInv, RequestsSound, Shaped, Idle
<1>9. Repeats'
  <2> SUFFICES ASSUME NEW q \in Requests, RetryOf[q] # Nil, request'[q].phase # "unsent"
               PROVE  RetryOf[q] # q /\ RepeatOf(request'[q], request'[RetryOf[q]])
    BY DEF Repeats
  <2>1. RetryOf[q] \in Requests
    BY TypesAssumption
  <2>2. CASE q = r
    BY <1>3, <1>7, <2>1, <2>2
  <2>3. CASE q # r
    <3>1. RetryOf[q] # q /\ RepeatOf(request[q], request[RetryOf[q]])
      BY <1>7, <2>3 DEF TInv, HistorySound, Repeats
    <3>2. RetryOf[q] # r
      BY <1>8, <3>1 DEF RepeatOf
    <3> QED
      BY <1>7, <2>1, <2>3, <3>1, <3>2
  <2> QED
    BY <2>2, <2>3
<1> QED
  BY <1>2, <1>3, <1>4, <1>5, <1>6, <1>9, ClientsStay, OneAdvances DEF IInv

LEMMA SendMoves ==
    ASSUME IInv, TInv, NEW r \in Requests, Send(r)
    PROVE  TInv'
<1>1. PICK call \in Calls[r] :
         LET m == NewRequest(call)
             base == IF Conditional(m) THEN known[Client[r]][m.id] ELSE Nil
         IN  /\ Conditional(m) => base # Nil
             /\ request' = [request EXCEPT ![r] = Received(m, base)]
  BY Zenon DEF Send
<1>2. PICK m : m = NewRequest(call)
  OBVIOUS
<1>3. PICK base : base = IF Conditional(m) THEN known[Client[r]][m.id] ELSE Nil
  OBVIOUS
<1>4. (Conditional(m) => base # Nil) /\ request' = [request EXCEPT ![r] = Received(m, base)]
  BY <1>1, <1>2, <1>3, Zenon
<1>5. Sendable(m)
  BY <1>2, NewRequestIsSendable
<1>6. Conditional(m) => m.id \in Ids
  BY <1>5 DEF Sendable, Addressed
<1>7. Conditional(m) => base \in Stamps \cup {Nil} /\ Seen(base, m.id)
  BY <1>3, <1>6, TypesAssumption DEF TInv, TypesSound, KnownTyped, Seen
<1>8. ~ Conditional(m) => base = Nil
  BY <1>3
<1>9. /\ request[r].phase = "unsent" /\ RetryOf[r] = Nil
      /\ UNCHANGED <<config, records, lives, process, known>>
  BY Zenon DEF Send, MaySend
<1> QED
  BY <1>4, <1>5, <1>7, <1>8, <1>9, ArrivalMoves

\* A repetition has the condition of the first attempt.
LEMMA RetryMoves ==
    ASSUME IInv, TInv, NEW r \in Requests, Retry(r)
    PROVE  TInv'
<1>1. PICK q : q = RetryOf[r]
  OBVIOUS
<1>2. PICK m : m = request[q].call
  OBVIOUS
<1>3. PICK base : base = IF Conditional(m) THEN request[q].base ELSE Nil
  OBVIOUS
<1>4. /\ request[r].phase = "unsent" /\ q # Nil
      /\ request[q].phase = "lost" \/ request[q].gone
      /\ UNCHANGED <<config, records, lives, process, known>>
  BY <1>1, Zenon DEF Retry, MaySend
<1>5. request' = [request EXCEPT ![r] = Received(m, base)]
  BY <1>1, <1>2, <1>3, Zenon DEF Retry
<1>6. q \in Requests
  BY <1>1, <1>4, TypesAssumption
<1>7. Shaped(request[q]) /\ Conditioned(request[q]) /\ Shaped(request[r])
  BY <1>6 DEF TInv, RequestsSound
<1>8. Remembered(request[q]) /\ q # r
  <2>1. request[q].phase # "unsent"
    BY <1>4, <1>7 DEF Shaped, Idle
  <2>2. request[q].phase # "answered"
    BY <1>4, <1>7 DEF Shaped
  <2> QED
    BY <1>4, <2>1, <2>2 DEF Remembered
<1>9. Sendable(m)
  BY <1>2, <1>7, <1>8 DEF Shaped
<1>10. Conditional(m) => /\ base = request[q].base /\ base # Nil
                         /\ request[q].id \in Ids /\ request[q].cond = base.version
  BY <1>2, <1>3, <1>7, <1>8 DEF Conditioned
<1>11. ~ Conditional(m) => base = Nil
  BY <1>3
<1>12. base \in Stamps \cup {Nil}
  BY <1>7, <1>10, <1>11 DEF Shaped
<1>13. Conditional(m) => m.id = request[q].id
  BY <1>2, <1>7, <1>8 DEF Conditioned
<1>14. base # Nil => Seen(base, m.id)
  BY <1>6, <1>10, <1>11, <1>13 DEF Seen, Holds
<1>15. Conditional(m) => Received(m, base).cond = request[q].cond /\ request[q].cond \in Nat
                         /\ Received(m, base).id = request[q].id
  <2>1. Received(m, base).cond = Expected(m, base) /\ Received(m, base).id = m.id
    BY DEF Received, Idle
  <2>2. Conditional(m) => Expected(m, base) = base.version
    BY ExpectedIs
  <2>3. base # Nil => base.version \in Nat
    BY <1>12 DEF Stamps
  <2> QED
    BY <1>10, <1>13, <2>1, <2>2, <2>3
<1>16. RepeatOf(Received(m, base), request[q])
  BY <1>2, <1>4, <1>15 DEF RepeatOf
<1> QED
  BY <1>1, <1>4, <1>5, <1>8, <1>9, <1>10, <1>11, <1>12, <1>14, <1>16, ArrivalMoves

-----------------------------------------------------------------------------
(* A request is in the store, which stays as it is.                        *)

\* The ways to end that have nothing to do with a condition.
LEMMA RefusePlainly ==
    ASSUME IInv, TInv, NEW r \in Requests, InStore(r), NEW status \in Statuses \ {412},
           Refuse(r, status)
    PROVE  TInv'
BY RefuseMoves DEF Refuse

LEMMA RefuseForCondition ==
    ASSUME IInv, TInv, NEW r \in Requests, InStore(r), NEW status \in Statuses,
           Refuse(r, status),
           status = 412 => \/ records[request[r].id] = Nil
                           \/ records[request[r].id] # Nil /\ Mismatch(r, request[r].id)
    PROVE  TInv'
BY RefuseMoves, MismatchIsPast DEF Refuse

LEMMA ReadMoves ==
    ASSUME IInv, TInv, NEW r \in Requests,
           \/ NoConnection(r) \/ GetCatalog(r) \/ DescribeCatalog(r) \/ Ready(r)
           \/ SearchRecords(r) \/ Fault(r)
    PROVE  TInv'
<1>1. CASE NoConnection(r)
  BY <1>1, RefusePlainly DEF NoConnection, InStore, Statuses
<1>2. CASE GetCatalog(r)
  BY <1>2, RefusePlainly DEF GetCatalog, InStore, Statuses
<1>3. CASE DescribeCatalog(r)
  BY <1>3, RefusePlainly DEF DescribeCatalog, InStore, Statuses
<1>4. CASE Ready(r)
  BY <1>4, RefusePlainly DEF Ready, InStore, Statuses
<1>5. CASE SearchRecords(r)
  BY <1>5, RefusePlainly DEF SearchRecords, InStore, Statuses
<1>6. CASE Fault(r)
  <2> DEFINE status == IF request[r].call.op = "ready" THEN 503 ELSE 500
  <2>1. request' = [request EXCEPT ![r].phase = "answering", ![r].status = status]
    BY <1>6, Zenon DEF Fault
  <2>2. InStore(r) /\ UNCHANGED <<config, records, lives, process, known>>
    BY <1>6, Zenon DEF Fault
  <2>3. status \in Statuses /\ status # 412
    BY DEF Statuses
  <2> HIDE DEF status
  <2> QED
    BY <2>1, <2>2, <2>3, RefuseMoves
<1> QED
  BY <1>1, <1>2, <1>3, <1>4, <1>5, <1>6

LEMMA GetMoves ==
    ASSUME IInv, TInv, NEW r \in Requests, GetRecord(r)
    PROVE  TInv'
<1> DEFINE v == request[r]
           id == v.id
           status == IF config = Nil \/ records[request[r].id] = Nil THEN 404
                     ELSE IF request[r].call.op = "get"
                             /\ records[request[r].id].doc \notin Typed
                     THEN 500 ELSE 200
           shown == IF status = 200 THEN Stamp(request[r].id) ELSE Nil
           w == [request[r] EXCEPT !.phase = "answering", !.status = status, !.shown = shown]
<1>1. request' = [request EXCEPT ![r].phase = "answering", ![r].status = status,
                                 ![r].shown = shown]
  BY Zenon DEF GetRecord
<1>2. status \in {200, 404, 500} /\ shown \in {Nil, Stamp(id)}
  OBVIOUS
<1> HIDE DEF status, shown
<1>3. /\ InStore(r) /\ v.call.op \in {"get", "head"}
      /\ UNCHANGED <<config, records, lives, process, known>>
  BY Zenon DEF GetRecord, InStore
<1>4. Formed /\ DOMAIN v = Fields
  BY DEF IInv, Formed
<1>5. Becomes(r, w)
  BY <1>1 DEF Becomes
<1>6. /\ w.phase = "answering" /\ w.status = status /\ w.call = v.call /\ w.id = v.id
      /\ w.doc = v.doc /\ w.cond = v.cond /\ w.base = v.base /\ w.shown = shown
      /\ w.did = v.did /\ w.gone = v.gone
  BY <1>4 DEF Fields
<1>7. Shaped(v) /\ Conditioned(v)
  BY DEF TInv, RequestsSound
<1>8. Underway(v) /\ Remembered(v) /\ v.phase # "lost" /\ v.did = Nil /\ id \in Ids
  BY <1>3, <1>7, UnderwayIsInStore DEF Shaped, Pending, Addressed
<1>9. shown \in Stamps \cup {Nil}
  BY <1>2, <1>8, StampTyped DEF TInv, TypesSound
<1> HIDE DEF w
<1>10. Shaped(w)
  BY <1>2, <1>6, <1>7, <1>8, <1>9 DEF Shaped, Phases, Underway, Remembered, Statuses
<1>11. Conditioned(w)
  BY <1>6, <1>7, <1>8 DEF Conditioned, Remembered
<1>12. Settled(w)
  BY <1>2, <1>6, <1>8 DEF Settled
<1>13. Learns(v, w) /\ Follows(v, w)
  BY <1>2, <1>6, <1>8, NilAssumption DEF Learns, Holds, Follows, Underway
<1> QED
  BY <1>3, <1>4, <1>5, <1>6, <1>10, <1>11, <1>12, <1>13, RequestMoves

\* What Application.Patch makes of what it has read.
LEMMA MergeMoves ==
    ASSUME IInv, TInv, NEW r \in Requests, MergePatch(r)
    PROVE  TInv'
<1> DEFINE v == request[r]
           id == request[r].id
           doc == Merged[request[r].call.doc][records[id].doc]
           base == Stamp(id)
           checks == <<<<config = Nil \/ records[id] = Nil, 404>>,
                       <<records[id] # Nil /\ Mismatch(r, id), 412>>,
                       <<records[id] # Nil /\ doc \in Malformed, 400>>>>
           w == [request[r] EXCEPT !.phase = "validating", !.doc = doc,
                                   !.cond = records[id].version, !.base = base]
<1>1. IF Refusal(checks) # Nil THEN Refuse(r, Refusal(checks))
      ELSE /\ request' = [request EXCEPT ![r].phase = "validating", ![r].doc = doc,
                              ![r].cond = records[id].version, ![r].base = base]
           /\ UNCHANGED <<config, records, lives, process, known, troubles>>
  BY Zenon DEF MergePatch
<1>2. DOMAIN checks = 1 .. 3 /\ checks[1][2] = 404 /\ checks[2][2] = 412 /\ checks[3][2] = 400
  OBVIOUS
<1>3. /\ checks[1][1] = (config = Nil \/ records[id] = Nil)
      /\ checks[2][1] = (records[id] # Nil /\ Mismatch(r, id))
  OBVIOUS
<1>4. InStore(r) /\ v.phase = "reading" /\ v.call.op = "patch"
  BY DEF MergePatch, InStore
<1>5. doc = Merged[v.call.doc][records[id].doc] /\ base = Stamp(id)
  OBVIOUS
<1> HIDE DEF checks, doc, base
<1>6. CASE Refusal(checks) # Nil
  <2>1. PICK i \in 1 .. 3 : checks[i][1] /\ Refusal(checks) = checks[i][2]
    BY <1>2, <1>6, RefusalIsACheck
  <2>2. Refusal(checks) \in Statuses
    BY <1>2, <2>1 DEF Statuses
  <2>3. Refusal(checks) = 412 => i = 2
    <3>1. CASE i = 1
      BY <1>2, <2>1, <3>1
    <3>2. CASE i = 3
      BY <1>2, <2>1, <3>2
    <3> QED
      BY <3>1, <3>2
  <2>4. Refusal(checks) = 412 => records[id] # Nil /\ Mismatch(r, id)
    BY <1>3, <2>1, <2>3
  <2>5. Refuse(r, Refusal(checks))
    BY <1>1, <1>6
  <2> HIDE DEF id
  <2>6. id = request[r].id
    BY DEF id
  <2> QED
    BY <1>4, <2>2, <2>4, <2>5, <2>6, RefuseForCondition
<1>7. CASE Refusal(checks) = Nil
  <2>1. \A i \in 1 .. 3 : checks[i][2] \in Int
    BY <1>2
  <2>2. ~ checks[1][1] /\ ~ checks[2][1]
    BY <1>2, <1>7, <2>1, NoRefusal
  <2>3. records[id] # Nil /\ ~ Mismatch(r, id)
    BY <1>3, <2>2
  <2>4. Formed /\ DOMAIN v = Fields
    BY DEF IInv, Formed
  <2>5. Becomes(r, w) /\ UNCHANGED <<config, records, lives, process, known>>
    BY <1>1, <1>7 DEF Becomes
  <2>6. /\ w.phase = "validating" /\ w.status = v.status /\ w.call = v.call /\ w.id = id
        /\ w.doc = doc /\ w.cond = records[id].version /\ w.base = base /\ w.shown = v.shown
        /\ w.did = v.did /\ w.gone = v.gone
    BY <2>4 DEF Fields
  <2>7. Shaped(v) /\ Conditioned(v)
    BY DEF TInv, RequestsSound
  <2>8. Underway(v) /\ Remembered(v)
    BY <1>4, UnderwayIsInStore
  <2>9. Pending(v) /\ Sendable(v.call) /\ id \in Ids /\ v.call.doc \in Objects
    BY <1>4, <2>7, <2>8 DEF Shaped, Pending, Addressed
  <2>10. /\ records[id] \in Store!Records /\ base \in Stamps /\ base # Nil
         /\ base.version = records[id].version
    BY <1>5, <2>3, <2>9, StampTyped, NilAssumption DEF TInv, TypesSound
  <2>11. doc \in Docs
    BY <1>5, <2>9, <2>10, TypesAssumption DEF Store!Records
  <2>12. v.cond \in Nat => v.cond = records[id].version
    BY <2>3, NilAssumption DEF Mismatch, AnyVersion
  <2>13. v.id = v.call.id
    BY <2>9 DEF Pending
  <2> HIDE DEF w
  <2>14. Shaped(w)
    BY <1>4, <2>6, <2>7, <2>8, <2>9, <2>10, <2>11
       DEF Shaped, Phases, Underway, Remembered, Pending
  <2>15. Conditioned(w)
    BY <1>4, <2>6, <2>7, <2>8, <2>9, <2>10, <2>13 DEF Conditioned, Remembered, Pending
  <2>16. Settled(w)
    BY <2>6, <2>9, NilAssumption DEF Settled, Pending
  <2>17. Learns(v, w) /\ Follows(v, w)
    BY <1>4, <1>5, <2>6, <2>12 DEF Learns, Holds, Follows
  <2> QED
    BY <2>4, <2>5, <2>6, <2>14, <2>15, <2>16, <2>17, RequestMoves
<1> QED
  BY <1>6, <1>7

\* A request takes its next step with a document.
LEMMA PhaseMoves ==
    ASSUME IInv, TInv, NEW r \in Requests, InStore(r), NEW p \in {"writing", "inserting"},
           request[r].doc \in Docs,
           p = "inserting" => request[r].base = Nil /\ config # Nil,
           request' = [request EXCEPT ![r].phase = p],
           UNCHANGED <<config, records, lives, process, known>>
    PROVE  TInv'
<1> DEFINE v == request[r]
           w == [request[r] EXCEPT !.phase = p]
<1>1. Formed /\ DOMAIN v = Fields
  BY DEF IInv, Formed
<1>2. Becomes(r, w)
  BY DEF Becomes
<1>3. /\ w.phase = p /\ w.status = v.status /\ w.call = v.call /\ w.id = v.id
      /\ w.doc = v.doc /\ w.cond = v.cond /\ w.base = v.base /\ w.shown = v.shown
      /\ w.did = v.did /\ w.gone = v.gone
  BY <1>1 DEF Fields
<1>4. Shaped(v) /\ Conditioned(v) /\ Settled(v)
  BY DEF TInv, RequestsSound
<1>5. Underway(v) /\ Remembered(v) /\ v.phase # "lost"
  BY UnderwayIsInStore
<1>6. Pending(v)
  BY <1>4, <1>5 DEF Shaped
<1> HIDE DEF w
<1>7. Pending(w)
  BY <1>3, <1>6 DEF Pending
<1>8. Shaped(w)
  BY <1>3, <1>4, <1>5, <1>7 DEF Shaped, Phases, Underway, Remembered
<1>9. Conditioned(w)
  BY <1>3, <1>4, <1>5 DEF Conditioned, Remembered
<1>10. Settled(w)
  BY <1>3, <1>4 DEF Settled
<1>11. Learns(v, w) /\ Follows(v, w)
  BY <1>3, <1>5 DEF Learns, Holds, Follows, Underway
<1> QED
  BY <1>1, <1>2, <1>3, <1>8, <1>9, <1>10, <1>11, RequestMoves

LEMMA ValidateMoves ==
    ASSUME IInv, TInv, NEW r \in Requests, ValidateRecord(r)
    PROVE  TInv'
<1> DEFINE checks == <<<<config = Nil, 404>>,
                       <<config # Nil /\ request[r].doc \notin Accepts[config.schema], 400>>>>
<1>1. IF Refusal(checks) # Nil THEN Refuse(r, Refusal(checks))
      ELSE /\ request' = [request EXCEPT ![r].phase = "writing"]
           /\ UNCHANGED <<config, records, lives, process, known, troubles>>
  BY Zenon DEF ValidateRecord
<1>2. DOMAIN checks = 1 .. 2 /\ checks[1][2] = 404 /\ checks[2][2] = 400
  OBVIOUS
<1>3. InStore(r) /\ request[r].phase = "validating"
  BY DEF ValidateRecord, InStore
<1> HIDE DEF checks
<1>4. CASE Refusal(checks) # Nil
  <2>1. Refusal(checks) \in {404, 400}
    BY <1>2, <1>4, RefusalIsACheck
  <2> QED
    BY <1>1, <1>3, <1>4, <2>1, RefusePlainly DEF Statuses
<1>5. CASE Refusal(checks) = Nil
  <2>1. Shaped(request[r]) /\ Underway(request[r])
    BY <1>3, UnderwayIsInStore DEF TInv, RequestsSound
  <2>2. request[r].doc \in Docs
    BY <1>3, <2>1 DEF Shaped, Pending
  <2>3. request' = [request EXCEPT ![r].phase = "writing"]
        /\ UNCHANGED <<config, records, lives, process, known>>
    BY <1>1, <1>5
  <2> QED
    BY <1>3, <2>2, <2>3, PhaseMoves
<1> QED
  BY <1>4, <1>5

-----------------------------------------------------------------------------
(* A request changes the store.                                            *)

\* What Commit makes of a request.
Done(v, s, id, did, shown) ==
    [v EXCEPT !.phase = "answering", !.status = s, !.id = id, !.did = did, !.shown = shown]

EndsAs(r, s, id, did, shown) ==
    request' = [request EXCEPT ![r].phase = "answering", ![r].status = s, ![r].id = id,
                               ![r].did = did, ![r].shown = shown]

LEMMA DoneIsOne ==
    ASSUME NEW r \in Requests, NEW s, NEW id, NEW did, NEW shown, EndsAs(r, s, id, did, shown)
    PROVE  Becomes(r, Done(request[r], s, id, did, shown))
BY DEF Becomes, Done, EndsAs

LEMMA CommitMoves ==
    ASSUME IInv, TInv, NEW r \in Requests, InStore(r), NEW id \in Ids, NEW status \in {201, 204},
           Commit(r, id, status),
           UNCHANGED <<config, process, known>>, StoreTyped', StoreMoves,
           records[id] # Nil =>
               /\ lives'[id] = lives[id]
               /\ records'[id] # Nil => records'[id].version = records[id].version + 1,
           request[r].base # Nil =>
               id = request[r].id /\ records[id] # Nil /\ ~ Mismatch(r, id)
    PROVE  TInv'
<1>1. PICK now : now = IF records'[id] = Nil THEN Nil
                       ELSE [life |-> lives'[id], version |-> records'[id].version,
                             doc |-> records'[id].doc]
  OBVIOUS
<1>2. PICK was : was = Stamp(id)
  OBVIOUS
<1>3. PICK did : did = [id |-> id, was |-> was, now |-> now]
  OBVIOUS
<1>4. PICK s \in {201, 204, 500}, shown \in {Nil, now} : EndsAs(r, s, id, did, shown)
  <2> DEFINE shownFor(s) == IF s = 500 THEN Nil ELSE now
  <2>1. \/ EndsAs(r, status, id, did, shownFor(status))
        \/ EndsAs(r, 500, id, did, shownFor(500))
    BY <1>1, <1>2, <1>3, Zenon DEF Commit, EndsAs
  <2>2. \A s : shownFor(s) \in {Nil, now}
    OBVIOUS
  <2> HIDE DEF shownFor
  <2> QED
    BY <2>1, <2>2
<1>5. now = Stamp(id)'
  BY <1>1, Zenon DEF Stamp
<1>6. PICK v : v = request[r]
  OBVIOUS
<1>7. PICK w : w = Done(v, s, id, did, shown)
  OBVIOUS
<1>8. Becomes(r, w)
  BY <1>4, <1>6, <1>7, DoneIsOne
<1>9. Formed /\ DOMAIN v = Fields
  BY <1>6 DEF IInv, Formed
<1>10. /\ w.phase = "answering" /\ w.status = s /\ w.call = v.call /\ w.id = id
       /\ w.doc = v.doc /\ w.cond = v.cond /\ w.base = v.base
       /\ w.shown = shown /\ w.gone = v.gone
       /\ w.did = did
  BY <1>7, <1>9 DEF Fields, Done
<1>11. /\ w.did.id = id /\ w.did.was = was /\ w.did.now = now
  BY <1>3, <1>10
<1>12. Shaped(v) /\ Conditioned(v)
  BY <1>6 DEF TInv, RequestsSound
<1>13. Underway(v) /\ Remembered(v) /\ v.phase # "lost"
  BY <1>6, UnderwayIsInStore
<1>14. was \in Stamps \cup {Nil} /\ (was = Nil <=> records[id] = Nil)
  BY <1>2, StampTyped, NilAssumption DEF TInv, TypesSound
<1>15. now \in Stamps \cup {Nil}
  <2>1. records'[id] # Nil => records'[id] \in Store!Records /\ lives'[id] \in Nat \ {0}
    BY DEF StoreTyped, Store!TypeOK
  <2> QED
    BY <1>1, <2>1 DEF Store!Records, Stamps
<1>16. w.did \in Effects
  BY <1>3, <1>10, <1>14, <1>15 DEF Effects
<1>17. v.base # Nil => /\ v.id = id /\ was # Nil /\ was.version = v.cond
                       /\ was.life = v.base.life => was = v.base
  <2> SUFFICES ASSUME v.base # Nil
               PROVE  /\ v.id = id /\ was # Nil /\ was.version = v.cond
                      /\ was.life = v.base.life => was = v.base
    OBVIOUS
  <2>1. v.id = id /\ records[id] # Nil /\ ~ Mismatch(r, id)
    BY <1>6
  <2>2. v.base \in Stamps /\ v.cond = v.base.version /\ v.cond \in Nat
    BY <1>12 DEF Shaped, Conditioned, Stamps
  <2>3. v.cond = records[id].version
    BY <1>6, <2>1, <2>2, NilAssumption DEF Mismatch, AnyVersion
  <2>4. was \in Stamps /\ was.version = v.cond
    BY <1>2, <2>1, <2>3, StampTyped DEF TInv, TypesSound
  <2>5. Seen(v.base, id) /\ Seen(was, id)
    BY <1>2, <1>6, <2>1 DEF Seen, Holds
  <2>6. was.life = v.base.life => was = v.base
    BY <2>2, <2>4, <2>5 DEF TInv, HistorySound, SeenAgrees
  <2> QED
    BY <1>14, <2>1, <2>4, <2>6
<1>18. Shaped(w)
  BY <1>10, <1>12, <1>13, <1>15, <1>16 DEF Shaped, Phases, Statuses, Underway, Remembered
<1>19. Conditioned(w)
  BY <1>10, <1>11, <1>12, <1>13, <1>17 DEF Conditioned, Remembered
<1>20. was # Nil => Past(was, id)'
  <2> SUFFICES ASSUME was # Nil PROVE Past(was, id)'
    OBVIOUS
  <2>1. records[id] # Nil /\ was.life = lives[id] /\ was.version = records[id].version
    BY <1>2, <1>14, StampTyped DEF TInv, TypesSound
  <2>2. records[id].version \in Nat
    BY <2>1 DEF TInv, TypesSound, StoreTyped, Store!TypeOK, Store!Records
  <2> QED
    BY <2>1, <2>2 DEF Past
<1>21. Settled(w)'
  BY <1>10, <1>11, <1>20, NilAssumption DEF Settled
<1>22. TypesSound'
  BY DEF TInv, TypesSound, ProcessTyped, KnownTyped
<1>23. v.cond \in Nat => v.base # Nil
  BY <1>12, NilAssumption DEF Conditioned, AnyVersion
<1>24. Follows(v, w)
  BY <1>10, <1>13, <1>17, <1>23 DEF Follows, Underway
<1>25. Repeats'
  BY <1>6, <1>8, <1>9, <1>24, FollowsKeeps DEF TInv, HistorySound
<1>26. Acts(v, w)
  BY <1>2, <1>11 DEF Acts
<1>27. Learns(v, w)
  <2> SUFFICES ASSUME NEW t \in Stamps, Holds(w, t)
               PROVE  \/ t = Stamp(id) \/ t = Stamp(id)'
                      \/ (id = v.id /\ Holds(v, t)) \/ Seen(t, id)
    BY <1>10 DEF Learns
  <2>1. t # Nil
    BY NilAssumption
  <2> QED
    BY <1>2, <1>5, <1>10, <1>11, <1>17, <2>1 DEF Holds
<1> QED
  BY <1>6, <1>8, <1>9, <1>10, <1>18, <1>19, <1>21, <1>22, <1>25, <1>26, <1>27,
     ClientsStay, OneAdvances

LEMMA CreateIsAMove ==
    ASSUME StoreTyped, NEW id \in Ids, NEW doc \in Docs, Store!Create({id}, doc), Born(id)
    PROVE  StoreTyped' /\ StoreMoves /\ config' = config /\ records[id] = Nil
<1> DEFINE row == [doc |-> doc, version |-> 1]
<1>1. row \in Store!Records /\ row # Nil
  BY NilAssumption DEF Store!Records
<1> HIDE DEF row
<1>2. \A x \in Ids : records'[x] = IF x = id THEN row ELSE records[x]
  BY DEF Store!Create, row
<1>3. \A x \in Ids : lives'[x] = IF x = id THEN lives[id] + 1 ELSE lives[x]
  BY DEF Born, StoreTyped
<1>4. records[id] = Nil /\ config' = config
  BY DEF Store!Create, Store!Live
<1>5. DOMAIN records' = Ids /\ records' = [x \in Ids |-> records'[x]]
  BY DEF Store!Create
<1>6. DOMAIN lives' = Ids /\ lives' = [x \in Ids |-> lives'[x]]
  BY DEF Born, StoreTyped
<1>7. \A x \in Ids : records[x] \in Store!Records \cup {Nil} /\ lives[x] \in Nat
                     /\ (records[x] # Nil => lives[x] \in Nat \ {0})
  BY DEF StoreTyped, Store!TypeOK
<1>8. \A x \in Ids : records'[x] \in Store!Records \cup {Nil} /\ lives'[x] \in Nat
                     /\ (records'[x] # Nil => lives'[x] \in Nat \ {0})
  BY <1>1, <1>2, <1>3, <1>7
<1>9. StoreTyped'
  <2>1. records' \in [Ids -> Store!Records \cup {Nil}]
    BY <1>5, <1>8
  <2>2. lives' \in [Ids -> Nat]
    BY <1>6, <1>8
  <2>3. config' \in Store!Configs \cup {Nil}
    BY <1>4 DEF StoreTyped, Store!TypeOK
  <2> QED
    BY <1>8, <2>1, <2>2, <2>3 DEF StoreTyped, Store!TypeOK
<1>10. StoreMoves
  BY <1>1, <1>2, <1>3, <1>4 DEF StoreMoves
<1> QED
  BY <1>4, <1>9, <1>10

\* A row is replaced, or goes.
LEMMA RowIsAMove ==
    ASSUME StoreTyped, NEW id \in Ids, NEW row \in Store!Records \cup {Nil},
           records' = [records EXCEPT ![id] = row], UNCHANGED <<config, lives>>,
           records[id] # Nil, row # Nil => row.version = records[id].version + 1
    PROVE  StoreTyped' /\ StoreMoves
<1>1. \A x \in Ids : records'[x] = IF x = id THEN row ELSE records[x]
  BY DEF StoreTyped, Store!TypeOK
<1>2. records' \in [Ids -> Store!Records \cup {Nil}]
  BY DEF StoreTyped, Store!TypeOK
<1>3. \A x \in Ids : records'[x] # Nil => lives'[x] \in Nat \ {0}
  BY <1>1 DEF StoreTyped
<1>4. StoreTyped'
  BY <1>2, <1>3 DEF StoreTyped, Store!TypeOK
<1>5. StoreMoves
  BY <1>1 DEF StoreMoves
<1> QED
  BY <1>4, <1>5

LEMMA ReplaceIsAMove ==
    ASSUME StoreTyped, NEW id \in Ids, NEW doc \in Docs, Store!Replace(id, doc), lives' = lives
    PROVE  /\ StoreTyped' /\ StoreMoves /\ config' = config /\ records[id] # Nil
           /\ records'[id].version = records[id].version + 1
<1>1. PICK row : row = [doc |-> doc, version |-> records[id].version + 1]
  OBVIOUS
<1>2. records[id] # Nil /\ config' = config /\ records' = [records EXCEPT ![id] = row]
  BY <1>1 DEF Store!Replace, Store!Live
<1>3. records[id] \in Store!Records
  BY <1>2 DEF StoreTyped, Store!TypeOK
<1>4. row \in Store!Records /\ row.version = records[id].version + 1
  BY <1>1, <1>3 DEF Store!Records
<1>5. records'[id] = row
  BY <1>2 DEF StoreTyped, Store!TypeOK
<1> QED
  BY <1>2, <1>4, <1>5, RowIsAMove

LEMMA DeleteIsAMove ==
    ASSUME StoreTyped, NEW id \in Ids, Store!Delete(id), lives' = lives
    PROVE  /\ StoreTyped' /\ StoreMoves /\ config' = config /\ records[id] # Nil
           /\ records'[id] = Nil
<1>1. records[id] # Nil /\ config' = config /\ records' = [records EXCEPT ![id] = Nil]
  BY DEF Store!Delete, Store!Live
<1>2. records'[id] = Nil
  BY <1>1 DEF StoreTyped, Store!TypeOK
<1> QED
  BY <1>1, <1>2, RowIsAMove

LEMMA CreateMoves ==
    ASSUME IInv, TInv, NEW r \in Requests, CreateRecord(r)
    PROVE  TInv'
<1> DEFINE v == request[r]
           checks == DocumentChecks(request[r].doc) \o StartChecks(Minted[r], request[r].doc)
<1>1. IF Refusal(checks) # Nil THEN Refuse(r, Refusal(checks))
      ELSE /\ Store!Create({Minted[r]}, request[r].doc)
           /\ Born(Minted[r])
           /\ Commit(r, Minted[r], 201)
           /\ UNCHANGED <<process, known>>
  BY Zenon DEF CreateRecord
<1>2. DOMAIN checks = 1 .. 4 /\ \A i \in 1 .. 4 : checks[i][2] \in {400, 404}
  BY DEF DocumentChecks, StartChecks
<1>3. InStore(r) /\ v.phase = "writing" /\ v.call.op = "post"
  BY DEF CreateRecord, InStore
<1> HIDE DEF checks
<1>4. CASE Refusal(checks) # Nil
  <2>1. Refusal(checks) \in {404, 400}
    BY <1>2, <1>4, RefusalIsACheck
  <2> QED
    BY <1>1, <1>3, <1>4, <2>1, RefusePlainly DEF Statuses
<1>5. CASE Refusal(checks) = Nil
  <2>1. Shaped(v) /\ Conditioned(v) /\ Underway(v) /\ Remembered(v)
    BY <1>3, UnderwayIsInStore DEF TInv, RequestsSound
  <2>2. v.doc \in Docs /\ Minted[r] \in Ids
    BY <1>3, <2>1, TypesAssumption DEF Shaped, Pending
  <2>3. v.base = Nil
    BY <1>3, <2>1 DEF Conditioned
  <2>4. /\ Store!Create({Minted[r]}, v.doc) /\ Born(Minted[r]) /\ Commit(r, Minted[r], 201)
        /\ UNCHANGED <<process, known>>
    BY <1>1, <1>5
  <2>5. StoreTyped' /\ StoreMoves /\ config' = config /\ records[Minted[r]] = Nil
    BY <2>2, <2>4, CreateIsAMove DEF TInv, TypesSound
  <2> QED
    BY <1>3, <2>2, <2>3, <2>4, <2>5, CommitMoves
<1> QED
  BY <1>4, <1>5

\* What PutRecord checks.
ChecksOfPut(r, id, doc) == DocumentChecks(doc) \o ConditionChecks(r, id) \o StartChecks(id, doc)

LEMMA PutIsChecked ==
    ASSUME NEW r \in Requests, NEW id, NEW doc,
           NEW refusal, refusal = Refusal(ChecksOfPut(r, id, doc))
    PROVE  /\ refusal \in {Nil, 400, 404, 412}
           /\ refusal = 412 => \/ records[id] = Nil
                               \/ records[id] # Nil /\ Mismatch(r, id)
           /\ refusal = Nil => /\ config # Nil
                               /\ records[id] = Nil => request[r].cond = Nil
                               /\ records[id] # Nil => ~ Mismatch(r, id)
<1> DEFINE checks == ChecksOfPut(r, id, doc)
<1>0. refusal = Refusal(checks)
  OBVIOUS
<1>1. DOMAIN checks = 1 .. 6
  BY DEF ChecksOfPut, DocumentChecks, ConditionChecks, StartChecks
<1>2. /\ checks[1][2] = 404 /\ checks[2][2] = 400 /\ checks[3][2] = 412 /\ checks[4][2] = 412
      /\ checks[5][2] = 400 /\ checks[6][2] = 400
  BY DEF ChecksOfPut, DocumentChecks, ConditionChecks, StartChecks
<1>3. /\ checks[1][1] = (config = Nil)
      /\ checks[3][1] = (records[id] = Nil /\ request[r].cond # Nil)
      /\ checks[4][1] = (records[id] # Nil /\ Mismatch(r, id))
  BY DEF ChecksOfPut, DocumentChecks, ConditionChecks, StartChecks
<1> HIDE DEF checks
<1>4. CASE Refusal(checks) = Nil
  <2>1. \A i \in 1 .. 6 : checks[i][2] \in Int
    BY <1>2
  <2>2. \A i \in 1 .. 6 : ~ checks[i][1]
    BY <1>1, <1>4, <2>1, NoRefusal
  <2>3. ~ checks[1][1] /\ ~ checks[3][1] /\ ~ checks[4][1]
    BY <2>2
  <2>4. 412 # Nil
    BY NilAssumption
  <2> QED
    BY <1>0, <1>3, <1>4, <2>3, <2>4
<1>5. CASE Refusal(checks) # Nil
  <2>1. PICK i \in 1 .. 6 : checks[i][1] /\ Refusal(checks) = checks[i][2]
    BY <1>1, <1>5, RefusalIsACheck
  <2>2. i = 1 \/ i = 2 \/ i = 3 \/ i = 4 \/ i = 5 \/ i = 6
    OBVIOUS
  <2>3. Refusal(checks) \in {400, 404, 412}
    BY <1>2, <2>1, <2>2
  <2>4. Refusal(checks) = 412 => i = 3 \/ i = 4
    <3>1. CASE i = 1
      BY <1>2, <2>1, <3>1
    <3>2. CASE i = 2
      BY <1>2, <2>1, <3>2
    <3>3. CASE i = 5
      BY <1>2, <2>1, <3>3
    <3>4. CASE i = 6
      BY <1>2, <2>1, <3>4
    <3> QED
      BY <2>2, <3>1, <3>2, <3>3, <3>4
  <2>5. Refusal(checks) = 412 => \/ records[id] = Nil
                                 \/ records[id] # Nil /\ Mismatch(r, id)
    BY <1>3, <2>1, <2>4
  <2> QED
    BY <1>0, <1>5, <2>3, <2>5
<1> QED
  BY <1>0, <1>4, <1>5

LEMMA PutMoves ==
    ASSUME IInv, TInv, NEW r \in Requests, PutRecord(r)
    PROVE  TInv'
<1>1. PICK id : id = request[r].id
  OBVIOUS
<1>2. PICK doc : doc = request[r].doc
  OBVIOUS
<1>3. PICK refusal : refusal = Refusal(ChecksOfPut(r, id, doc))
  OBVIOUS
<1>4. IF refusal # Nil THEN Refuse(r, refusal)
      ELSE IF records[id] = Nil
      THEN /\ request' = [request EXCEPT ![r].phase = "inserting"]
           /\ UNCHANGED <<config, records, lives, process, known, troubles>>
      ELSE /\ Store!Replace(id, doc)
           /\ UNCHANGED lives
           /\ Commit(r, id, 204)
           /\ UNCHANGED <<process, known>>
  BY <1>1, <1>2, <1>3, Zenon DEF PutRecord, ChecksOfPut
<1>5. InStore(r) /\ request[r].phase = "writing" /\ request[r].call.op \in {"put", "patch"}
  BY Zenon DEF PutRecord, InStore
<1>6. /\ refusal \in {Nil, 400, 404, 412}
      /\ refusal = 412 => \/ records[id] = Nil
                          \/ records[id] # Nil /\ Mismatch(r, id)
      /\ refusal = Nil => /\ config # Nil
                          /\ records[id] = Nil => request[r].cond = Nil
                          /\ records[id] # Nil => ~ Mismatch(r, id)
  BY <1>3, PutIsChecked
<1>7. Shaped(request[r]) /\ Conditioned(request[r]) /\ Underway(request[r])
  BY <1>5, UnderwayIsInStore DEF TInv, RequestsSound
<1>8. id \in Ids /\ doc \in Docs
  BY <1>1, <1>2, <1>5, <1>7 DEF Shaped, Pending, Addressed
<1>9. CASE refusal # Nil
  BY <1>1, <1>4, <1>5, <1>6, <1>9, RefuseForCondition DEF Statuses
<1>10. CASE refusal = Nil /\ records[id] = Nil
  <2>1. request[r].base = Nil
    <3>1. request[r].base # Nil => request[r].cond \in Int
      BY <1>7 DEF Shaped, Conditioned, Stamps
    <3> QED
      BY <1>6, <1>10, <3>1, NilAssumption
  <2>2. /\ request' = [request EXCEPT ![r].phase = "inserting"]
        /\ UNCHANGED <<config, records, lives, process, known>>
    BY <1>4, <1>10
  <2> QED
    BY <1>2, <1>5, <1>6, <1>8, <1>10, <2>1, <2>2, PhaseMoves
<1>11. CASE refusal = Nil /\ records[id] # Nil
  <2>1. Store!Replace(id, doc) /\ lives' = lives /\ Commit(r, id, 204) /\ UNCHANGED <<process, known>>
    BY <1>4, <1>11
  <2>2. /\ StoreTyped' /\ StoreMoves /\ config' = config
        /\ records'[id].version = records[id].version + 1
    BY <1>8, <2>1, ReplaceIsAMove DEF TInv, TypesSound
  <2>3. lives'[id] = lives[id]
    BY <2>1
  <2> QED
    BY <1>1, <1>5, <1>6, <1>8, <1>11, <2>1, <2>2, <2>3, CommitMoves
<1> QED
  BY <1>9, <1>10, <1>11

LEMMA InsertMoves ==
    ASSUME IInv, TInv, NEW r \in Requests, InsertRecord(r)
    PROVE  TInv'
<1>1. PICK id : id = request[r].id
  OBVIOUS
<1>2. PICK doc : doc = request[r].doc
  OBVIOUS
<1>3. IF records[id] # Nil THEN Refuse(r, 409)
      ELSE /\ Store!Create({id}, doc)
           /\ Born(id)
           /\ Commit(r, id, 201)
           /\ UNCHANGED <<process, known>>
  BY <1>1, <1>2, Zenon DEF InsertRecord
<1>4. InStore(r) /\ request[r].phase = "inserting"
  BY Zenon DEF InsertRecord, InStore
<1>5. Shaped(request[r]) /\ Underway(request[r])
  BY <1>4, UnderwayIsInStore DEF TInv, RequestsSound
<1>6. doc \in Docs /\ request[r].base = Nil
  BY <1>2, <1>4, <1>5 DEF Shaped, Pending
<1>7. id \in Ids
  <2>1. request[r].call.op \in {"put", "patch"}
    BY <1>4 DEF IInv, InsertsArePuts
  <2> QED
    BY <1>1, <1>5, <2>1 DEF Shaped, Pending, Addressed
<1>8. CASE records[id] # Nil
  BY <1>3, <1>4, <1>8, RefusePlainly DEF Statuses
<1>9. CASE records[id] = Nil
  <2>1. /\ Store!Create({id}, doc) /\ Born(id) /\ Commit(r, id, 201)
        /\ UNCHANGED <<process, known>>
    BY <1>3, <1>9
  <2>2. StoreTyped' /\ StoreMoves /\ config' = config
    BY <1>6, <1>7, <2>1, CreateIsAMove DEF TInv, TypesSound
  <2> QED
    BY <1>4, <1>6, <1>7, <1>9, <2>1, <2>2, CommitMoves
<1> QED
  BY <1>8, <1>9

LEMMA DeleteMoves ==
    ASSUME IInv, TInv, NEW r \in Requests, DeleteRecord(r)
    PROVE  TInv'
<1>1. PICK id : id = request[r].id
  OBVIOUS
<1> DEFINE checks == <<<<config = Nil \/ records[request[r].id] = Nil, 404>>,
                       <<records[request[r].id] # Nil /\ Mismatch(r, request[r].id), 412>>>>
<1>2. IF Refusal(checks) # Nil THEN Refuse(r, Refusal(checks))
      ELSE /\ Store!Delete(id)
           /\ UNCHANGED lives
           /\ Commit(r, id, 204)
           /\ UNCHANGED <<process, known>>
  BY <1>1, Zenon DEF DeleteRecord
<1>3. DOMAIN checks = 1 .. 2 /\ checks[1][2] = 404 /\ checks[2][2] = 412
  OBVIOUS
<1>4. checks[2][1] = (records[id] # Nil /\ Mismatch(r, id))
  BY <1>1
<1>5. InStore(r) /\ request[r].phase = "writing" /\ request[r].call.op = "delete"
  BY Zenon DEF DeleteRecord, InStore
<1> HIDE DEF checks
<1>6. Shaped(request[r]) /\ Underway(request[r])
  BY <1>5, UnderwayIsInStore DEF TInv, RequestsSound
<1>7. id \in Ids
  BY <1>1, <1>5, <1>6 DEF Shaped, Pending, Addressed
<1>8. CASE Refusal(checks) # Nil
  <2>1. PICK i \in 1 .. 2 : checks[i][1] /\ Refusal(checks) = checks[i][2]
    BY <1>3, <1>8, RefusalIsACheck
  <2>2. i = 1 \/ i = 2
    OBVIOUS
  <2>3. Refusal(checks) \in {404, 412}
    BY <1>3, <2>1, <2>2
  <2>4. Refusal(checks) = 412 => records[id] # Nil /\ Mismatch(r, id)
    <3>1. CASE i = 1
      BY <1>3, <2>1, <3>1
    <3>2. CASE i = 2
      BY <1>4, <2>1, <3>2
    <3> QED
      BY <2>2, <3>1, <3>2
  <2> QED
    BY <1>1, <1>2, <1>5, <1>8, <2>3, <2>4, RefuseForCondition DEF Statuses
<1>9. CASE Refusal(checks) = Nil
  <2>1. \A i \in 1 .. 2 : checks[i][2] \in Int
    BY <1>3
  <2>2. ~ checks[2][1]
    BY <1>3, <1>9, <2>1, NoRefusal
  <2>3. Store!Delete(id) /\ lives' = lives /\ Commit(r, id, 204) /\ UNCHANGED <<process, known>>
    BY <1>2, <1>9
  <2>4. /\ StoreTyped' /\ StoreMoves /\ config' = config /\ records[id] # Nil
        /\ records'[id] = Nil
    BY <1>7, <2>3, DeleteIsAMove DEF TInv, TypesSound
  <2>5. lives'[id] = lives[id] /\ ~ Mismatch(r, id)
    BY <1>4, <2>2, <2>3, <2>4
  <2> QED
    BY <1>1, <1>5, <1>7, <2>3, <2>4, <2>5, CommitMoves
<1> QED
  BY <1>8, <1>9

-----------------------------------------------------------------------------
(* A request leaves the store.                                             *)

\* An answer has the tag that the handler gives it, or none.
LEMMA VisitTag ==
    ASSUME NEW op \in Operations, NEW status, NEW tag
    PROVE  Visit(op, status, tag).tag \in {Nil, tag}
<1> USE DEF Success, Response, Problem, WithoutBody, HeadContentType
<1>1. CASE op = "search"
  <2>1. Visit(op, status, tag) = VisitSearchRecords(status)
    BY <1>1, Zenon DEF Visit
  <2> QED
    BY <2>1 DEF VisitSearchRecords
<1>2. CASE op = "headAll"
  <2>1. Visit(op, status, tag) = WithoutBody(HeadContentType(VisitHeadRecords(status)))
    BY <1>2, Zenon DEF Visit
  <2> QED
    BY <2>1 DEF VisitHeadRecords
<1>3. CASE op = "post"
  <2>1. Visit(op, status, tag) = VisitCreateRecord(status, tag)
    BY <1>3, Zenon DEF Visit
  <2> QED
    BY <2>1 DEF VisitCreateRecord
<1>4. CASE op = "delete"
  <2>1. Visit(op, status, tag) = VisitDeleteRecord(status)
    BY <1>4, Zenon DEF Visit
  <2> QED
    BY <2>1 DEF VisitDeleteRecord
<1>5. CASE op = "get"
  <2>1. Visit(op, status, tag) = VisitGetRecord(status, tag)
    BY <1>5, Zenon DEF Visit
  <2> QED
    BY <2>1 DEF VisitGetRecord
<1>6. CASE op = "head"
  <2>1. Visit(op, status, tag) = WithoutBody(HeadContentType(VisitHeadRecord(status, tag)))
    BY <1>6, Zenon DEF Visit
  <2> QED
    BY <2>1 DEF VisitHeadRecord
<1>7. CASE op = "patch"
  <2>1. Visit(op, status, tag) = VisitPatchRecord(status, tag)
    BY <1>7, Zenon DEF Visit
  <2> QED
    BY <2>1 DEF VisitPatchRecord
<1>8. CASE op = "put"
  <2>1. Visit(op, status, tag) = VisitPutRecord(status, tag)
    BY <1>8, Zenon DEF Visit
  <2> QED
    BY <2>1 DEF VisitPutRecord
<1>9. CASE op = "describe"
  <2>1. Visit(op, status, tag) = VisitGetCatalog(status)
    BY <1>9, Zenon DEF Visit
  <2> QED
    BY <2>1 DEF VisitGetCatalog
<1>10. CASE op = "queryables"
  <2>1. Visit(op, status, tag) = VisitGetQueryables(status)
    BY <1>10, Zenon DEF Visit
  <2> QED
    BY <2>1 DEF VisitGetQueryables
<1>11. CASE op = "sortables"
  <2>1. Visit(op, status, tag) = VisitGetSortables(status)
    BY <1>11, Zenon DEF Visit
  <2> QED
    BY <2>1 DEF VisitGetSortables
<1>12. CASE op = "schema"
  <2>1. Visit(op, status, tag) = VisitGetRecordSchema(status)
    BY <1>12, Zenon DEF Visit
  <2> QED
    BY <2>1 DEF VisitGetRecordSchema
<1>13. CASE op = "ready"
  <2>1. Visit(op, status, tag) = VisitReady(status)
    BY <1>13, Zenon DEF Visit
  <2> QED
    BY <2>1 DEF VisitReady
<1>14. CASE op = "facets"
  <2>1. Visit(op, status, tag) = VisitGetFacets(status)
    BY <1>14, Zenon DEF Visit
  <2> QED
    BY <2>1 DEF VisitGetFacets
<1> QED
  BY <1>1, <1>2, <1>3, <1>4, <1>5, <1>6, <1>7,
     <1>8, <1>9, <1>10, <1>11, <1>12, <1>13, <1>14
     DEF Operations, Mutations, Parts

LEMMA AnswerMoves ==
    ASSUME IInv, TInv, NEW r \in Requests, Answer(r)
    PROVE  TInv'
<1>1. PICK v : v = request[r]
  OBVIOUS
<1>2. PICK tag : tag = Visit(v.call.op, v.status, v.shown).tag
  OBVIOUS
<1>3. PICK w : w = IF v.gone THEN [v EXCEPT !.phase = "lost"]
                   ELSE [v EXCEPT !.phase = "answered", !.call = Nil, !.doc = Nil]
  OBVIOUS
<1>4. Becomes(r, w)
  BY <1>1, <1>3, Zenon DEF Answer, Becomes
<1>5. known' = known \/ (tag # Nil /\ known' = [known EXCEPT ![Client[r]][v.id] = tag])
  BY <1>1, <1>2, Zenon DEF Answer
<1>6. v.phase = "answering" /\ UNCHANGED <<config, records, lives, process>>
  BY <1>1, Zenon DEF Answer
<1>7. Formed /\ DOMAIN v = Fields
  BY <1>1 DEF IInv, Formed
<1>8. /\ w.phase = IF v.gone THEN "lost" ELSE "answered"
      /\ w.call = IF v.gone THEN v.call ELSE Nil
      /\ w.status = v.status /\ w.id = v.id /\ w.cond = v.cond /\ w.base = v.base
      /\ w.shown = v.shown /\ w.did = v.did /\ w.gone = v.gone
  BY <1>3, <1>7 DEF Fields
<1>9. Shaped(v) /\ Conditioned(v) /\ Settled(v)
  BY <1>1 DEF TInv, RequestsSound
<1>10. Remembered(v)
  BY <1>6 DEF Remembered
<1>11. Shaped(w)
  BY <1>8, <1>9, <1>10 DEF Shaped, Phases, Underway, Remembered
<1>12. Conditioned(w)
  BY <1>8, <1>9, <1>10 DEF Conditioned, Remembered
<1>13. StoreTyped' /\ StoreMoves
  BY <1>6, StoreStays DEF TInv, TypesSound
<1>14. Settled(w)'
  <2>1. Settled(w)
    BY <1>8, <1>9 DEF Settled
  <2> QED
    BY <1>11, <1>12, <1>13, <2>1, SettledStays DEF TInv, TypesSound
<1>15. Follows(v, w)
  BY <1>6, <1>8 DEF Follows
<1>16. Repeats'
  BY <1>1, <1>4, <1>7, <1>15, FollowsKeeps DEF TInv, HistorySound
<1>17. Learns(v, w) /\ Acts(v, w)
  BY <1>8 DEF Learns, Holds, Acts
<1>18. tag \in {Nil, v.shown}
  BY <1>2, <1>9, <1>10, VisitTag DEF Shaped, Sendable
<1>19. tag # Nil => tag \in Stamps /\ tag = v.shown
  BY <1>9, <1>18 DEF Shaped
<1>20. \A c \in Clients, id \in Ids :
          \/ known'[c][id] = known[c][id]
          \/ id = v.id /\ tag # Nil /\ known'[c][id] = tag
  BY <1>5 DEF TInv, TypesSound, KnownTyped
<1>21. KnownTyped'
  <2>1. CASE known' = known
    BY <2>1 DEF TInv, TypesSound, KnownTyped
  <2>2. CASE tag # Nil /\ known' = [known EXCEPT ![Client[r]][v.id] = tag]
    <3>1. PICK c : c = Client[r]
      OBVIOUS
    <3>2. c \in Clients
      BY <3>1, TypesAssumption
    <3>3. [known[c] EXCEPT ![v.id] = tag] \in [Ids -> Stamps \cup {Nil}]
      BY <1>19, <2>2, <3>2 DEF TInv, TypesSound, KnownTyped
    <3>4. known' = [known EXCEPT ![c] = [known[c] EXCEPT ![v.id] = tag]]
      BY <2>2, <3>1
    <3> QED
      BY <3>2, <3>3, <3>4 DEF TInv, TypesSound, KnownTyped
  <2> QED
    BY <1>5, <2>1, <2>2
<1>22. ClientsLearn
  <2> SUFFICES ASSUME NEW c \in Clients, NEW id \in Ids, NEW s \in Stamps, known'[c][id] = s
               PROVE  Seen(s, id)
    BY DEF ClientsLearn
  <2>1. CASE known[c][id] = s
    BY <2>1 DEF Seen
  <2>2. CASE id = v.id /\ tag # Nil /\ s = tag
    BY <1>1, <1>19, <2>2 DEF Seen, Holds
  <2> QED
    BY <1>20, <2>1, <2>2
<1>23. TypesSound'
  BY <1>6, <1>13, <1>21 DEF TInv, TypesSound, ProcessTyped
<1> QED
  BY <1>1, <1>4, <1>6, <1>7, <1>8, <1>11, <1>12, <1>13, <1>14, <1>16, <1>17, <1>22, <1>23,
     OneAdvances

LEMMA GiveUpMoves ==
    ASSUME IInv, TInv, NEW r \in Requests, GiveUp(r)
    PROVE  TInv'
<1>1. PICK v : v = request[r]
  OBVIOUS
<1>2. PICK w : w = [v EXCEPT !.gone = TRUE]
  OBVIOUS
<1>3. Becomes(r, w)
  BY <1>1, <1>2 DEF GiveUp, Becomes
<1>4. /\ v.phase \in {"reading", "validating", "writing", "inserting", "answering"}
      /\ v.gone = FALSE
      /\ UNCHANGED <<config, records, lives, process, known>>
  BY <1>1 DEF GiveUp, Waiting, InProgress, InStore
<1>5. Formed /\ DOMAIN v = Fields
  BY <1>1 DEF IInv, Formed
<1>6. /\ w.phase = v.phase /\ w.status = v.status /\ w.call = v.call /\ w.id = v.id
      /\ w.doc = v.doc /\ w.cond = v.cond /\ w.base = v.base /\ w.shown = v.shown
      /\ w.did = v.did /\ w.gone = TRUE
  BY <1>2, <1>5 DEF Fields
<1>7. /\ Shaped(v) /\ Conditioned(v) /\ Settled(v)
      /\ v.phase = "inserting" => config # Nil
  BY <1>1 DEF TInv, RequestsSound
<1>8. Underway(w) => Pending(w)
  BY <1>6, <1>7 DEF Shaped, Underway, Pending
<1>9. Shaped(w)
  BY <1>4, <1>6, <1>7, <1>8 DEF Shaped, Remembered
<1>10. Conditioned(w)
  BY <1>6, <1>7 DEF Conditioned, Remembered
<1>11. Settled(w)
  BY <1>6, <1>7 DEF Settled
<1>12. Learns(v, w) /\ Follows(v, w)
  BY <1>4, <1>6 DEF Learns, Holds, Follows
<1> QED
  BY <1>1, <1>3, <1>4, <1>5, <1>6, <1>7, <1>9, <1>10, <1>11, <1>12, RequestMoves

-----------------------------------------------------------------------------
(* The process and the administrator.                                      *)

\* A request stays what it is, but for the process that it was in.
Stays(v, w) ==
    \/ w = v
    \/ /\ v.phase \notin {"unsent", "answered"} /\ w.phase = "lost"
       /\ w.call = v.call /\ w.id = v.id /\ w.cond = v.cond /\ w.base = v.base
       /\ w.status = v.status /\ w.shown = v.shown /\ w.did = v.did /\ w.gone = v.gone

LEMMA AllStay ==
    ASSUME TInv, \A q \in Requests : Stays(request[q], request'[q]),
           known' = known, StoreTyped', StoreMoves, ProcessTyped',
           \A q \in Requests : request'[q].phase = "inserting" => config' # Nil
    PROVE  TInv'
<1>1. TypesSound'
  BY DEF TInv, TypesSound, KnownTyped
<1>2. RequestsSound'
  <2> SUFFICES ASSUME NEW q \in Requests
               PROVE  (/\ Shaped(request[q]) /\ Conditioned(request[q]) /\ Settled(request[q])
                       /\ request[q].phase = "inserting" => config # Nil)'
    BY DEF RequestsSound
  <2>1. PICK v : v = request[q]
    OBVIOUS
  <2>2. PICK w : w = request'[q]
    OBVIOUS
  <2>3. Shaped(v) /\ Conditioned(v) /\ Settled(v)
    BY <2>1 DEF TInv, RequestsSound
  <2>4. Settled(v)'
    BY <2>3, SettledStays DEF TInv, TypesSound
  <2>5. Stays(v, w)
    BY <2>1, <2>2
  <2>6. Shaped(w) /\ Conditioned(w)
    <3>1. CASE w = v
      BY <2>3, <3>1
    <3>2. CASE w # v
      <4>1. Shaped(w)
        BY <2>3, <2>5, <3>2 DEF Stays, Shaped, Phases, Remembered, Underway
      <4>2. Conditioned(w)
        BY <2>3, <2>5, <3>2 DEF Stays, Conditioned, Remembered
      <4> QED
        BY <4>1, <4>2
    <3> QED
      BY <3>1, <3>2
  <2>7. Settled(w)'
    BY <2>4, <2>5 DEF Stays, Settled
  <2>8. Shaped(request[q])' /\ Conditioned(request[q])'
    BY <2>2, <2>6 DEF Shaped, Conditioned, Pending, Remembered, Underway
  <2>9. Settled(request[q])'
    BY <2>2, <2>7 DEF Settled, Past
  <2> QED
    BY <2>8, <2>9
<1>3. \A id \in Ids, s \in Stamps : Seen(s, id)' => Seen(s, id) \/ s = Stamp(id)'
  <2> SUFFICES ASSUME NEW id \in Ids, NEW s \in Stamps, Seen(s, id)'
               PROVE  Seen(s, id) \/ s = Stamp(id)'
    OBVIOUS
  <2>1. Stamp(id)' = s \/ (\E c \in Clients : known[c][id] = s)
        \/ (\E q \in Requests : request'[q].id = id /\ Holds(request'[q], s))
    BY DEF Seen, Holds
  <2>2. CASE \E q \in Requests : request'[q].id = id /\ Holds(request'[q], s)
    <3>1. PICK q \in Requests : request'[q].id = id /\ Holds(request'[q], s)
      BY <2>2
    <3>2. request[q].id = id /\ Holds(request[q], s)
      BY <3>1 DEF Stays, Holds
    <3> QED
      BY <3>2 DEF Seen
  <2> QED
    BY <2>1, <2>2 DEF Seen
<1>4. SeenIsPast' /\ SeenAgrees'
  BY <1>3, OrderKeeps DEF TInv, TypesSound, HistorySound
<1>5. ReplacedOnce'
  <2>1. \A q \in Requests : request'[q].did = request[q].did
    BY DEF Stays
  <2> QED
    BY <2>1 DEF TInv, HistorySound, ReplacedOnce
<1>6. Repeats'
  <2> SUFFICES ASSUME NEW q \in Requests, RetryOf[q] # Nil, request'[q].phase # "unsent"
               PROVE  RetryOf[q] # q /\ RepeatOf(request'[q], request'[RetryOf[q]])
    BY DEF Repeats
  <2>1. PICK p \in Requests : p = RetryOf[q]
    BY TypesAssumption
  <2>2. request[q].phase # "unsent"
    BY DEF Stays
  <2>3. p # q /\ RepeatOf(request[q], request[p])
    BY <2>1, <2>2 DEF TInv, HistorySound, Repeats
  <2>4. Stays(request[q], request'[q]) /\ Stays(request[p], request'[p])
    OBVIOUS
  <2>5. RepeatOf(request'[q], request'[p])
    BY <2>3, <2>4 DEF Stays, RepeatOf
  <2> QED
    BY <2>1, <2>3, <2>5
<1> QED
  BY <1>1, <1>2, <1>4, <1>5, <1>6 DEF TInv, HistorySound

LEMMA ExitMoves ==
    ASSUME IInv, TInv, Exit
    PROVE  TInv'
<1>1. \A q \in Requests :
         request'[q] = IF InProgress(q) THEN [request[q] EXCEPT !.phase = "lost"] ELSE request[q]
  BY DEF Exit
<1>2. \A q \in Requests : DOMAIN request[q] = Fields
  BY DEF IInv, Formed
<1>3. ASSUME NEW q \in Requests
      PROVE  Stays(request[q], request'[q]) /\ request'[q].phase # "inserting"
  <2>1. CASE InProgress(q)
    <3>1. request'[q] = [request[q] EXCEPT !.phase = "lost"]
      BY <1>1, <2>1
    <3>2. request[q].phase \notin {"unsent", "answered"}
      BY <2>1 DEF InProgress, InStore
    <3> QED
      BY <1>2, <3>1, <3>2 DEF Stays, Fields
  <2>2. CASE ~ InProgress(q)
    BY <1>1, <2>2 DEF Stays, InProgress, InStore
  <2> QED
    BY <2>1, <2>2
<1>4. StoreTyped' /\ StoreMoves
  BY StoreStays DEF TInv, TypesSound, Exit
<1>5. ProcessTyped'
  BY DEF TInv, TypesSound, ProcessTyped, Exit
<1>6. known' = known
  BY DEF Exit
<1> QED
  BY <1>3, <1>4, <1>5, <1>6, AllStay

LEMMA ProcessMoves ==
    ASSUME TInv, request' = request,
           \/ \E mode \in {"deny", "external"} : Serve(mode)
           \/ Terminate
           \/ ShutdownTimeout
           \/ UNCHANGED vars
    PROVE  TInv'
<1>1. ProcessTyped' /\ UNCHANGED <<config, records, lives, known>>
  <2>1. CASE \E mode \in {"deny", "external"} : Serve(mode)
    BY <2>1 DEF Serve, TInv, TypesSound, ProcessTyped
  <2>2. CASE Terminate
    BY <2>2 DEF Terminate, TInv, TypesSound, ProcessTyped
  <2>3. CASE ShutdownTimeout
    BY <2>3 DEF ShutdownTimeout, TInv, TypesSound, ProcessTyped
  <2>4. CASE UNCHANGED vars
    BY <2>4 DEF vars, TInv, TypesSound, ProcessTyped
  <2> QED
    BY <2>1, <2>2, <2>3, <2>4
<1>2. StoreTyped' /\ StoreMoves
  BY <1>1, StoreStays DEF TInv, TypesSound
<1>3. \A q \in Requests : Stays(request[q], request'[q])
  BY DEF Stays
<1>4. \A q \in Requests : request'[q].phase = "inserting" => config' # Nil
  BY <1>1 DEF TInv, RequestsSound
<1> QED
  BY <1>1, <1>2, <1>3, <1>4, AllStay

LEMMA ChangeMoves ==
    ASSUME TInv, Change
    PROVE  TInv'
<1>1. /\ UNCHANGED <<lives, process, request, known>>
      /\ \A q \in Requests : request[q].phase # "inserting"
  BY DEF Change
<1>2. config' \in Store!Configs \cup {Nil}
  BY TypesAssumption DEF Change, Store!Configure, Store!Remove
<1>3. records' = records \/ records' = [id \in Ids |-> Nil]
  BY DEF Change, Store!Configure, Store!Remove
<1>4. StoreTyped'
  BY <1>1, <1>2, <1>3 DEF TInv, TypesSound, StoreTyped, Store!TypeOK
<1>5. StoreMoves
  BY <1>1, <1>3 DEF StoreMoves
<1>6. ProcessTyped'
  BY <1>1 DEF TInv, TypesSound, ProcessTyped
<1>7. \A q \in Requests : Stays(request[q], request'[q])
  BY <1>1 DEF Stays
<1> QED
  BY <1>1, <1>4, <1>5, <1>6, <1>7, AllStay

-----------------------------------------------------------------------------
(* The invariant is inductive.                                             *)

LEMMA StartsSound == Init => TInv
<1> SUFFICES ASSUME Init PROVE TInv
  OBVIOUS
<1>1. PICK found \in Found : config = found.config /\ records = found.records
  BY DEF Init
<1>2. StoreTyped
  <2>1. Store!TypeOK
    BY <1>1, TypesAssumption DEF Store!TypeOK
  <2>2. lives = [id \in Ids |-> IF records[id] = Nil THEN 0 ELSE 1]
    BY DEF Init
  <2> QED
    BY <2>1, <2>2 DEF StoreTyped
<1>3. ProcessTyped
  BY DEF Init, ProcessTyped
<1>4. \A id \in Ids : Stamp(id) \in Stamps \cup {Nil}
  BY <1>2, StampTyped
<1>5. known = [c \in Clients |-> [id \in Ids |-> Stamp(id)]]
  BY DEF Init
<1>6. KnownTyped
  BY <1>4, <1>5 DEF KnownTyped
<1>7. \A r \in Requests : request[r] = Idle
  BY DEF Init
<1>8. RequestsSound
  <2>1. /\ Idle.phase = "unsent" /\ Idle.base = Nil /\ Idle.shown = Nil /\ Idle.did = Nil
        /\ Idle.status = Nil /\ Idle.cond = Nil /\ Idle.gone = FALSE
    BY DEF Idle
  <2>2. Shaped(Idle)
    BY <2>1 DEF Shaped, Phases, Statuses, Remembered, Underway
  <2>3. Conditioned(Idle)
    BY <2>1 DEF Conditioned, Remembered
  <2>4. Settled(Idle)
    BY <2>1 DEF Settled
  <2> QED
    BY <1>7, <2>1, <2>2, <2>3, <2>4 DEF RequestsSound
<1>9. \A r \in Requests : request[r].phase = "unsent" /\ request[r].did = Nil
  BY <1>7 DEF Idle
<1>10. \A id \in Ids, s \in Stamps : Seen(s, id) => s = Stamp(id)
  <2>1. \A s \in Stamps : ~ Holds(Idle, s)
    BY NilAssumption DEF Holds, Idle
  <2> QED
    BY <1>5, <1>7, <2>1 DEF Seen
<1>11. SeenIsPast /\ SeenAgrees
  BY <1>10 DEF SeenIsPast, SeenAgrees
<1>12. ReplacedOnce /\ Repeats
  BY <1>9 DEF ReplacedOnce, Repeats
<1> QED
  BY <1>2, <1>3, <1>6, <1>8, <1>11, <1>12 DEF TInv, TypesSound, HistorySound

LEMMA StepsSound ==
    ASSUME IInv, TInv, [Next]_vars
    PROVE  TInv'
<1>1. CASE \/ \E mode \in {"deny", "external"} : Serve(mode)
           \/ Terminate \/ ShutdownTimeout \/ UNCHANGED vars
  <2>1. request' = request
    BY <1>1 DEF Serve, Terminate, ShutdownTimeout, vars
  <2> QED
    BY <1>1, <2>1, ProcessMoves
<1>2. CASE Stop \/ Crash
  BY <1>2, ExitMoves DEF Stop, Crash
<1>3. CASE \E r \in Requests : Send(r) \/ Retry(r) \/ GiveUp(r)
  BY <1>3, SendMoves, RetryMoves, GiveUpMoves
<1>4. CASE \E r \in Requests : Handle(r) \/ Fault(r)
  BY <1>4, ReadMoves, GetMoves, MergeMoves, ValidateMoves, CreateMoves, PutMoves, InsertMoves,
     DeleteMoves, AnswerMoves DEF Handle
<1>5. CASE Change
  BY <1>5, ChangeMoves
<1>6. CASE Rest
  BY <1>1, <1>6 DEF Rest
<1> QED
  BY <1>1, <1>2, <1>3, <1>4, <1>5, <1>6 DEF Next

\* Whatever stamp of a record a client, a condition or an answer holds, it is the
\* present one or one that the record will never have again; there is one
\* document for it.
THEOREM StampsSound == Spec => []TInv
<1>1. Init => TInv
  BY StartsSound
<1>2. IInv /\ TInv /\ [Next]_vars => TInv'
  BY StepsSound
<1> QED
  BY <1>1, <1>2, Invariant, PTL DEF Spec

-----------------------------------------------------------------------------
(* What it is good for.                                                    *)

\* The types of the service: a status is one of the API's, an effect names the
\* record and its two states, and nothing is inserted without a catalog.
THEOREM TypeCorrect == Spec => []TypeOK
<1>1. TInv => TypeOK
  BY DEF TInv, TypesSound, StoreTyped, ProcessTyped, KnownTyped, RequestsSound, Shaped,
     Statuses, TypeOK
<1> QED
  BY <1>1, StampsSound, PTL

\* No two answers give different documents of a record the same tag while it
\* lives, however requests overlap, get lost and are repeated (etag.go,
\* store.go:548).
THEOREM TagsIdentifyDocuments == Spec => []TagsIdentify
<1>1. TInv => TagsIdentify
  <2> SUFFICES ASSUME TInv, NEW id \in Ids, NEW s \in Observed(id), NEW t \in Observed(id),
                      s # Nil, t # Nil, s.life = t.life, s.version = t.version
               PROVE  s = t
    BY DEF TagsIdentify
  <2>1. ASSUME NEW u \in Observed(id), u # Nil
        PROVE  u \in Stamps /\ Seen(u, id)
    <3>1. CASE \E r \in Requests : request[r].did # Nil /\ request[r].did.id = id
                                   /\ u = request[r].did.now
      <4>1. PICK r \in Requests : request[r].did # Nil /\ request[r].did.id = id
                                  /\ u = request[r].did.now
        BY <3>1
      <4>2. request[r].did \in Effects /\ request[r].id = id
        BY <4>1 DEF TInv, RequestsSound, Shaped, Conditioned
      <4> QED
        BY <2>1, <4>1, <4>2 DEF Effects, Seen, Holds
    <3>2. CASE \E c \in Clients : u = known[c][id]
      BY <2>1, <3>2 DEF TInv, TypesSound, KnownTyped, Seen
    <3>3. CASE u = Stamp(id)
      BY <2>1, <3>3, StampTyped DEF TInv, TypesSound, Seen
    <3> QED
      BY <2>1, <3>1, <3>2, <3>3 DEF Observed
  <2>2. s \in Stamps /\ t \in Stamps /\ Seen(s, id) /\ Seen(t, id)
    BY <2>1
  <2> QED
    BY <2>2 DEF TInv, HistorySound, SeenAgrees
<1> QED
  BY <1>1, StampsSound, PTL

\* A conditional write, and a PATCH, replaces the document that its condition was
\* taken from, and 412 is said only when that is no longer there
\* (application.go:147).
THEOREM ConditionsHold == Spec => []ConditionsAreTrue
<1>1. TInv => ConditionsAreTrue
  <2> SUFFICES ASSUME TInv, NEW r \in Requests, request[r].base # Nil
               PROVE  /\ request[r].did # Nil /\ request[r].did.was.life = request[r].base.life
                             => request[r].did.was = request[r].base
                      /\ request[r].status = 412 /\ request[r].id \in Ids
                             => Stamp(request[r].id) # request[r].base
    BY DEF ConditionsAreTrue
  <2>1. Conditioned(request[r]) /\ Settled(request[r]) /\ request[r].base \in Stamps
    BY DEF TInv, RequestsSound, Shaped
  <2>2. request[r].status = 412 /\ request[r].id \in Ids
        => Stamp(request[r].id) # request[r].base
    BY <2>1, PastIsNotCurrent DEF Settled, TInv, TypesSound
  <2> QED
    BY <2>1, <2>2 DEF Conditioned
<1> QED
  BY <1>1, StampsSound, PTL

\* A conditional write that is sent again because its answer was lost takes
\* effect once in the life of a record, in whichever order the two reach the store
\* (records.go:118).
THEOREM RetriesTakeEffectOnce == Spec => []RetriesApplyOnce
<1>1. TInv => RetriesApplyOnce
  <2> SUFFICES ASSUME TInv, NEW r \in Requests, RetryOf[r] # Nil,
                      request[RetryOf[r]].did # Nil, request[r].did # Nil,
                      Conditional(request[RetryOf[r]].call)
               PROVE  request[RetryOf[r]].did.was.life # request[r].did.was.life
    BY DEF RetriesApplyOnce
  <2>1. PICK q \in Requests : q = RetryOf[r]
    BY TypesAssumption
  <2>2. PICK v : v = request[q]
    OBVIOUS
  <2>3. PICK w : w = request[r]
    OBVIOUS
  <2>4. Shaped(v) /\ Conditioned(v) /\ Shaped(w) /\ Conditioned(w)
    BY <2>2, <2>3 DEF TInv, RequestsSound
  <2>5. v.did # Nil /\ w.did # Nil /\ Conditional(v.call)
    BY <2>1, <2>2, <2>3
  <2>6. w.phase # "unsent"
    BY <2>4, <2>5 DEF Shaped, Idle
  <2>7. r # q /\ RepeatOf(w, v)
    BY <2>1, <2>2, <2>3, <2>6 DEF TInv, HistorySound, Repeats
  <2>8. w.cond = v.cond /\ v.cond \in Nat /\ w.id = v.id
    BY <2>5, <2>7 DEF RepeatOf
  <2>9. v.base # Nil /\ w.base # Nil
    BY <2>4, <2>8, NilAssumption DEF Conditioned, AnyVersion
  <2>10. /\ v.did.was # Nil /\ w.did.was # Nil /\ v.did.id = w.did.id
         /\ v.did.was.version = w.did.was.version
    BY <2>4, <2>5, <2>8, <2>9 DEF Conditioned
  <2>11. v.did.was.life # w.did.was.life \/ v.did.was.version # w.did.was.version
    BY <2>2, <2>3, <2>5, <2>7, <2>10 DEF TInv, HistorySound, ReplacedOnce
  <2> QED
    BY <2>1, <2>2, <2>3, <2>10, <2>11
<1> QED
  BY <1>1, StampsSound, PTL
=============================================================================
