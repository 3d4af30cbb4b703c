------------------------------ MODULE TlonStore ------------------------------
(***************************************************************************)
(* postgres/store.go and postgres/bulk.go, with the use cases of           *)
(* application/application.go that call them: the record and catalog       *)
(* operations of one catalog, as the database executes them.               *)
(*                                                                         *)
(* A session is one call in progress.  Every SQL statement that takes a    *)
(* lock or reads a fresh READ COMMITTED snapshot is a step of its own;     *)
(* statements that follow under a lock which excludes every other writer   *)
(* of what they read are part of the step that took the lock.  A write     *)
(* becomes visible at COMMIT.  Every statement of the code is restricted   *)
(* by catalog_id, so one catalog is modelled; what catalogs share, the     *)
(* physical indexes, is not part of this module.                           *)
(***************************************************************************)
EXTENDS Integers, FiniteSets

CONSTANTS
    Sessions,     \* the calls that may be in progress at once
    Ids,          \* record identifiers
    Docs,         \* record documents
    Schemas,      \* record schemas, with queryables and sortables
    Times,        \* instants: partitions of records_temporal
    ExternalIds,  \* canonical external identifiers
    Start,        \* Start[d]: the closed start of d's interval, or Nil
    Accepts,      \* Accepts[sc]: the documents ValidateBundle accepts
    Derived,      \* Derived[d]: the external identifiers derived from d
    MayCall,      \* MayCall[s]: the calls session s may make
    Budget,       \* Budget[s]: how many calls s makes at most (a bound)
    Nil           \* SQL NULL, Go's nil, an absent row

Classes == {"transactional", "temporal"}
Configs == [class : Classes, schema : Schemas]
Parts   == Times \cup {Nil}

\* expected *int64: nil without If-Match, -1 for If-Match: *, a version else
Conds == {Nil, -1} \cup Nat

RecordCalls == [op : {"create", "put", "patch", "delete", "get", "merge"},
                id : Ids, doc : Docs, cond : Conds]
BulkCalls   == [op : {"bulk"}, ids : (SUBSET Ids) \ {{}}, doc : Docs]
ApplyCalls  == [op : {"apply"}, class : Classes, schema : Schemas]
DropCalls   == [op : {"drop"}, cascade : BOOLEAN]
Calls       == RecordCalls \cup BulkCalls \cup ApplyCalls \cup DropCalls

CatalogRows == [inc : Nat, class : Classes, schema : Schemas]
KeyRows     == [inc : Nat, class : Classes, part : Parts]
Rows        == [doc : Docs, version : Nat \ {0}]

ASSUME StartAssumption    == Start \in [Docs -> Parts]
ASSUME AcceptsAssumption  == Accepts \in [Schemas -> SUBSET Docs]
ASSUME DerivedAssumption  == Derived \in [Docs -> SUBSET ExternalIds]
ASSUME CallAssumption     == MayCall \in [Sessions -> SUBSET Calls]
ASSUME BudgetAssumption   == Budget \in [Sessions -> Nat]
ASSUME NilAssumption      ==
    /\ Nil \notin Int \cup Times
    /\ Nil \notin CatalogRows \cup KeyRows \cup Rows \cup Configs \cup Calls

VARIABLES
    catalog,   \* the row of catalogs, or Nil
    keys,      \* record_keys: the locator of each id, or Nil
    rows,      \* rows[id][p]: the row of records_transactional when p is
               \* Nil, of records_temporal with partition_time p otherwise
    links,     \* record_external_ids: the entries of each record
    births,    \* how many times a catalog or record row was inserted: it
               \* tells a row from a later one with the same primary key
    tx,        \* tx[s]: the call in progress in s and its transaction
    budget     \* how many more calls each session makes

database == <<catalog, keys, rows, links, births>>
vars     == <<catalog, keys, rows, links, births, tx, budget>>

-----------------------------------------------------------------------------
(***************************************************************************)
(* Sessions.  "held" is the lock on the catalogs row: "keyShare" for FOR   *)
(* KEY SHARE, "update" for FOR UPDATE, "noKeyUpdate" for the one that an   *)
(* UPDATE takes, "insert" for an uncommitted new row.  "seen" is the row a *)
(* locking statement found in its snapshot, before it waited for it;       *)
(* "claim" the identifiers whose record_keys rows this transaction has     *)
(* inserted.  "absent" is history: whether the call's record has been      *)
(* missing at some moment since the call began.                            *)
(***************************************************************************)
Fresh == [pc |-> "idle", call |-> Nil, seen |-> Nil, conf |-> Nil, key |-> Nil,
          row |-> Nil, held |-> "none", claim |-> {}, absent |-> FALSE, outcome |-> "none"]

Phases == {"idle", "catalog", "key", "insert", "inserted", "updated", "deleted",
           "upsert", "installed", "dropping", "locator", "row", "merge"}
LockModes == {"none", "keyShare", "noKeyUpdate", "update", "insert"}
Outcomes == {"none", "ok", "notFound", "conflict", "precondition", "invalid",
             "refused", "notEmpty", "failed"}

\* The transaction of s goes on as t.
Becomes(s, t) == tx' = [tx EXCEPT ![s] = t]

\* The transaction ends, by COMMIT or by the deferred Rollback, and the call
\* answers: nothing but the answer and the history is kept.
End(s, outcome) ==
    Becomes(s, [Fresh EXCEPT !.outcome = outcome, !.absent = tx[s].absent])

At(s, phase, ops) ==
    /\ tx[s].pc = phase
    /\ tx[s].call.op \in ops

RecordOps == {"create", "put", "patch", "delete", "bulk"}
ReadOps   == {"get", "merge"}
AdminOps  == {"apply", "drop"}

Inc(row) == IF row = Nil THEN Nil ELSE row.inc

\* The identifiers a call inserts when it creates records.
Wanted(call) == IF call.op = "bulk" THEN call.ids ELSE {call.id}

Conf(row) == [class |-> row.class, schema |-> row.schema]

\* relationFor and recordTarget: the physical place of a document, the single
\* transactional table (Nil) or the partition of its closed start.
Slot(class, doc) == IF class = "temporal" THEN Start[doc] ELSE Nil
Placeable(class, doc) == class = "temporal" => Start[doc] # Nil

\* Mutant: ApplyCatalog and DeleteCatalog lock FOR NO KEY UPDATE, which lets
\* transactions that hold KEY SHARE go on.
CatalogHoldersNoKey(s, modes) ==
    {t \in Sessions \ {s} : tx[t].held \in modes \ {"keyShare"}}

\* The other sessions that hold one of these locks on the catalogs row.
CatalogHolders(s, modes) == {t \in Sessions \ {s} : tx[t].held \in modes}

\* Mutant: getRecord is called with lock = false.
KeyHoldersUnlocked(s, id) == {}

\* The other sessions that hold the record_keys row of id FOR UPDATE.
KeyHolders(s, id) ==
    {t \in Sessions \ {s} :
        tx[t].pc \in {"updated", "deleted"} /\ tx[t].call.id = id}

\* The other sessions with an uncommitted insertion or deletion of that row,
\* which the insertion of the same primary key waits for.
KeyWriters(s, id) ==
    {t \in Sessions \ {s} :
        \/ id \in tx[t].claim
        \/ tx[t].pc = "deleted" /\ tx[t].call.id = id}

\* If-Match as PutRecord, PatchRecord and DeleteRecord compare it.
ConditionHolds(cond, version) ==
    cond # Nil /\ cond >= 0 => version = cond

Live == {id \in Ids : keys[id] # Nil}

\* What the call names, a record or only the catalog, does not exist.
Missing(call, cat, ks) ==
    IF call.op \in {"put", "patch", "delete", "get", "merge"}
    THEN ks[call.id] = Nil
    ELSE cat = Nil

-----------------------------------------------------------------------------
(* The beginning of a call, and the calls that change records.             *)

\* A call begins, and its first statement takes a snapshot of catalogs.
Call(s) ==
    /\ tx[s].pc = "idle"
    /\ budget[s] > 0
    /\ budget' = [budget EXCEPT ![s] = @ - 1]
    /\ \E call \in MayCall[s] :
           Becomes(s, [Fresh EXCEPT !.pc = "catalog", !.call = call,
                                    !.seen = Inc(catalog),
                                    !.absent = Missing(call, catalog, keys)])
    /\ UNCHANGED database

\* lockCatalog finds no row: none in its snapshot, or the one it waited for
\* was deleted, whether or not a new catalog has its identifier by now.
CatalogMissing(s) ==
    /\ At(s, "catalog", RecordOps \cup {"drop"})
    /\ tx[s].seen = Nil \/ Inc(catalog) # tx[s].seen
    /\ End(s, "notFound")
    /\ UNCHANGED <<database, budget>>

\* lockCatalog takes FOR KEY SHARE, getCatalog reads the configuration and
\* ValidateBundle checks the document with it; then the locator statement of
\* getRecord, which filters by storage class, takes its snapshot.
LockCatalog(s) ==
    LET call == tx[s].call
        located == {id \in Wanted(call) :
                       keys[id] # Nil /\ keys[id].class = catalog.class}
    IN
    /\ At(s, "catalog", RecordOps)
    /\ tx[s].seen # Nil
    /\ Inc(catalog) = tx[s].seen
    /\ CatalogHolders(s, {"update"}) = {}
    /\ IF call.op \in {"create", "put", "bulk"} /\ call.doc \notin Accepts[catalog.schema]
       THEN End(s, "invalid")
       ELSE Becomes(s, [tx[s] EXCEPT
                !.pc = IF call.op \in {"create", "bulk"} THEN "insert" ELSE "key",
                !.held = "keyShare",
                !.conf = Conf(catalog),
                !.seen = IF call.op \in {"create", "bulk"} \/ located = {}
                            THEN Nil ELSE keys[call.id].inc])
    /\ UNCHANGED <<database, budget>>

\* The locator row of the snapshot, if the lock that was waited for has left
\* it in place, and the record row it points to.
Located(s) ==
    LET id == tx[s].call.id IN
    /\ tx[s].seen # Nil
    /\ Inc(keys[id]) = tx[s].seen
    /\ rows[id][keys[id].part] # Nil

\* getRecord answers ErrNotFound: only an unconditional PUT goes on, to
\* create the record.
KeyMissing(s) ==
    LET call == tx[s].call IN
    /\ At(s, "key", {"put", "patch", "delete"})
    /\ tx[s].seen # Nil => KeyHolders(s, call.id) = {}
    /\ ~ Located(s)
    /\ IF call.op = "put"
       THEN IF call.cond = Nil
            THEN Becomes(s, [tx[s] EXCEPT !.pc = "insert"])
            ELSE End(s, "precondition")
       ELSE End(s, "notFound")
    /\ UNCHANGED <<database, budget>>

\* Mutant: recordTarget does not compare the existing partition.
ReplaceableAnywhere(call, conf, part) ==
    /\ call.doc \in Accepts[conf.schema]
    /\ Placeable(conf.class, call.doc)

\* updateRecord refuses a temporal document whose start is missing or is not
\* the partition the record is stored in; PatchRecord validates only here.
Replaceable(call, conf, part) ==
    /\ call.doc \in Accepts[conf.schema]
    /\ Placeable(conf.class, call.doc)
    /\ Slot(conf.class, call.doc) = part

\* getRecord locks the locator row and the record row FOR UPDATE; the
\* condition is compared and the row is rewritten or deleted.
LockKey(s) ==
    LET call == tx[s].call
        key  == keys[call.id]
        row  == rows[call.id][key.part]
    IN
    /\ At(s, "key", {"put", "patch", "delete"})
    /\ KeyHolders(s, call.id) = {}
    /\ Located(s)
    /\ IF ~ ConditionHolds(call.cond, row.version)
       THEN End(s, "precondition")
       ELSE IF call.op # "delete" /\ ~ Replaceable(call, tx[s].conf, key.part)
       THEN End(s, "invalid")
       ELSE Becomes(s, [tx[s] EXCEPT
                !.pc = IF call.op = "delete" THEN "deleted" ELSE "updated",
                !.key = key,
                !.row = row])
    /\ UNCHANGED <<database, budget>>

\* insertRecord and the batch insertion: one record_keys row at a time, each
\* waiting for an uncommitted row of the same key; a committed one is
\* SQLSTATE 23505, ErrConflict, for the whole transaction.
InsertKey(s) ==
    LET call == tx[s].call
        part == Slot(tx[s].conf.class, call.doc)
    IN
    /\ At(s, "insert", {"create", "put", "bulk"})
    /\ IF ~ Placeable(tx[s].conf.class, call.doc)
       THEN End(s, "invalid")
       ELSE \E id \in Wanted(call) \ tx[s].claim :
            /\ KeyWriters(s, id) = {}
            /\ IF keys[id] # Nil \/ rows[id][part] # Nil
               THEN End(s, "conflict")
               ELSE Becomes(s, [tx[s] EXCEPT
                        !.pc = IF Wanted(call) \subseteq tx[s].claim \cup {id}
                                  THEN "inserted" ELSE "insert",
                        !.claim = @ \cup {id}])
    /\ UNCHANGED <<database, budget>>

\* COMMIT: the call ends, and the history of the other calls is brought up to
\* date with the tables as they are now.
EndCommitted(s) ==
    tx' = [t \in Sessions |->
        IF t = s THEN [Fresh EXCEPT !.outcome = "ok"]
        ELSE IF tx[t].pc = "idle" THEN tx[t]
        ELSE [tx[t] EXCEPT !.absent = @ \/ Missing(tx[t].call, catalog', keys')]]

\* Mutant: the column default of version is 0.
FirstVersionZero == 0

\* version bigint NOT NULL DEFAULT 1.
FirstVersion == 1

CommitInsert(s) ==
    LET call == tx[s].call
        part == Slot(tx[s].conf.class, call.doc)
        new  == tx[s].claim
    IN
    /\ tx[s].pc = "inserted"
    /\ births' = births + 1
    /\ keys' = [id \in Ids |-> IF id \in new
           THEN [inc |-> births', class |-> tx[s].conf.class, part |-> part]
           ELSE keys[id]]
    /\ rows' = [id \in Ids |-> IF id \in new
           THEN [rows[id] EXCEPT ![part] = [doc |-> call.doc, version |-> FirstVersion]]
           ELSE rows[id]]
    /\ links' = [id \in Ids |-> IF id \in new THEN Derived[call.doc] ELSE links[id]]
    /\ UNCHANGED <<catalog, budget>>
    /\ EndCommitted(s)

\* Mutant: the entries of the old document stay.
RelinkAdding(old, doc) == old \cup Derived[doc]

\* replaceExternalIDs deletes every entry of the record before it inserts.
Relink(old, doc) == Derived[doc]

\* Mutant: the UPDATE leaves version alone.
NextVersionSame(row) == row.version

\* version = version + 1 on the row that is locked.
NextVersion(row) == row.version + 1

CommitUpdate(s) ==
    LET call == tx[s].call IN
    /\ tx[s].pc = "updated"
    /\ rows' = [rows EXCEPT ![call.id][tx[s].key.part] =
           [doc |-> call.doc, version |-> NextVersion(tx[s].row)]]
    /\ links' = [links EXCEPT ![call.id] = Relink(links[call.id], call.doc)]
    /\ UNCHANGED <<catalog, keys, births, budget>>
    /\ EndCommitted(s)

\* Mutant: only the locator is deleted, as if records_temporal had a foreign
\* key to it like records_transactional.
CommitDeleteLocator(s) ==
    LET id == tx[s].call.id IN
    /\ tx[s].pc = "deleted"
    /\ rows' = [rows EXCEPT ![id][Nil] = Nil]
    /\ keys' = [keys EXCEPT ![id] = Nil]
    /\ links' = [links EXCEPT ![id] = {}]
    /\ UNCHANGED <<catalog, births, budget>>
    /\ EndCommitted(s)

\* The record row, then its locator, whose foreign key takes the external
\* identifiers with it.
CommitDelete(s) ==
    LET id == tx[s].call.id IN
    /\ tx[s].pc = "deleted"
    /\ rows' = [rows EXCEPT ![id][tx[s].key.part] = Nil]
    /\ keys' = [keys EXCEPT ![id] = Nil]
    /\ links' = [links EXCEPT ![id] = {}]
    /\ UNCHANGED <<catalog, births, budget>>
    /\ EndCommitted(s)

-----------------------------------------------------------------------------
(* Catalog administration.                                                 *)

\* Mutant: the storage class is not compared.
ReconfigurableAnyClass(conf) ==
    conf.schema # catalog.schema =>
        \A id \in Live : rows[id][keys[id].part].doc \in Accepts[conf.schema]

\* Mutant: the stored documents are not validated.
ReconfigurableUnchecked(conf) ==
    Live # {} => conf.class = catalog.class

\* ApplyCatalog's checks under FOR UPDATE: the class of a catalog with
\* records, and every stored document when schema, queryables or sortables
\* change.
Reconfigurable(conf) ==
    /\ Live # {} => conf.class = catalog.class
    /\ conf.schema # catalog.schema =>
           \A id \in Ids, p \in Parts :
               /\ rows[id][p] # Nil
               /\ (p = Nil) = (catalog.class = "transactional")
               => rows[id][p].doc \in Accepts[conf.schema]

\* SELECT ... FOR UPDATE finds nothing: ApplyCatalog goes on to its INSERT
\* without a lock and without a check.
SelectNoCatalog(s) ==
    /\ At(s, "catalog", {"apply"})
    /\ tx[s].seen = Nil \/ Inc(catalog) # tx[s].seen
    /\ Becomes(s, [tx[s] EXCEPT !.pc = "upsert", !.seen = Nil,
                        !.conf = Conf(tx[s].call)])
    /\ UNCHANGED <<database, budget>>

\* SELECT ... FOR UPDATE waits for every transaction that holds the row.
SelectCatalog(s) ==
    LET call == tx[s].call IN
    /\ At(s, "catalog", AdminOps)
    /\ tx[s].seen # Nil
    /\ Inc(catalog) = tx[s].seen
    /\ CatalogHolders(s, {"keyShare", "noKeyUpdate", "update"}) = {}
    /\ IF call.op = "apply"
       THEN IF Reconfigurable(Conf(call))
            THEN Becomes(s, [tx[s] EXCEPT !.pc = "upsert", !.held = "update",
                                  !.conf = Conf(call)])
            ELSE End(s, "refused")
       ELSE IF Live # {} /\ ~ call.cascade
            THEN End(s, "notEmpty")
            ELSE Becomes(s, [tx[s] EXCEPT !.pc = "dropping", !.held = "update"])
    /\ UNCHANGED <<database, budget>>

\* INSERT ... ON CONFLICT DO UPDATE waits for other writers of the row, then
\* takes the lock of an UPDATE that leaves the key alone.
Upsert(s) ==
    /\ tx[s].pc = "upsert"
    /\ CatalogHolders(s, {"noKeyUpdate", "update", "insert"}) = {}
    /\ Becomes(s, [tx[s] EXCEPT !.pc = "installed",
                        !.held = IF @ = "update" THEN "update"
                                    ELSE IF catalog = Nil THEN "insert"
                                    ELSE "noKeyUpdate"])
    /\ UNCHANGED <<database, budget>>

CommitApply(s) ==
    LET new == tx[s].held = "insert" IN
    /\ tx[s].pc = "installed"
    /\ births' = IF new THEN births + 1 ELSE births
    /\ catalog' = [inc |-> IF new THEN births' ELSE catalog.inc,
                   class |-> tx[s].conf.class, schema |-> tx[s].conf.schema]
    /\ UNCHANGED <<keys, rows, links, budget>>
    /\ EndCommitted(s)

\* With cascade the records go first; without, the catalog was empty.
CommitDrop(s) ==
    LET gone == IF tx[s].call.cascade THEN Ids ELSE {} IN
    /\ tx[s].pc = "dropping"
    /\ catalog' = Nil
    /\ keys' = [id \in Ids |-> IF id \in gone THEN Nil ELSE keys[id]]
    /\ rows' = [id \in Ids |-> IF id \in gone THEN [p \in Parts |-> Nil] ELSE rows[id]]
    /\ links' = [id \in Ids |-> IF id \in gone THEN {} ELSE links[id]]
    /\ UNCHANGED <<births, budget>>
    /\ EndCommitted(s)

-----------------------------------------------------------------------------
(* GetRecord, without a transaction: three statements, three snapshots.    *)
(* Application.Patch ("merge") reads this way, merges and calls PutRecord. *)


ReadCatalog(s) ==
    /\ At(s, "catalog", ReadOps)
    /\ IF catalog = Nil
       THEN End(s, "notFound")
       ELSE Becomes(s, [tx[s] EXCEPT !.pc = "locator", !.seen = Nil,
                             !.conf = Conf(catalog)])
    /\ UNCHANGED <<database, budget>>

ReadLocator(s) ==
    LET key == keys[tx[s].call.id] IN
    /\ tx[s].pc = "locator"
    /\ IF key = Nil \/ key.class # tx[s].conf.class
       THEN End(s, "notFound")
       ELSE Becomes(s, [tx[s] EXCEPT !.pc = "row", !.key = key])
    /\ UNCHANGED <<database, budget>>

\* The row at the place the locator named a moment ago.  Application.Patch
\* compares the caller's If-Match with it.
ReadRow(s) ==
    LET call == tx[s].call
        row  == rows[call.id][tx[s].key.part]
    IN
    /\ tx[s].pc = "row"
    /\ IF row = Nil THEN End(s, "notFound")
       ELSE IF call.op = "get" THEN End(s, "ok")
       ELSE IF ~ ConditionHolds(call.cond, row.version) THEN End(s, "precondition")
       ELSE Becomes(s, [tx[s] EXCEPT !.pc = "merge", !.key = Nil, !.row = row])
    /\ UNCHANGED <<database, budget>>

\* The merged document goes to PutRecord on condition of the version read;
\* validateRecord has just looked at the catalog, without a lock.
Merge(s) ==
    LET call == tx[s].call IN
    /\ tx[s].pc = "merge"
    /\ IF catalog = Nil THEN End(s, "notFound")
       ELSE IF call.doc \notin Accepts[catalog.schema] THEN End(s, "invalid")
       ELSE Becomes(s, [tx[s] EXCEPT !.pc = "catalog", !.seen = Inc(catalog),
                !.call = [call EXCEPT !.op = "put", !.cond = tx[s].row.version],
                !.conf = Nil, !.row = Nil])
    /\ UNCHANGED <<database, budget>>

-----------------------------------------------------------------------------
(* Waiting, failure, the specification.                                    *)

\* Any statement may fail, the caller's context may be cancelled, the server
\* or the connection may be lost: the transaction is rolled back.
Abort(s) ==
    /\ tx[s].pc # "idle"
    /\ End(s, "failed")
    /\ UNCHANGED <<database, budget>>

\* The sessions that s waits for.
Blockers(s) ==
    LET call == tx[s].call IN
    CASE At(s, "catalog", RecordOps) /\ tx[s].seen # Nil /\ Inc(catalog) = tx[s].seen ->
           CatalogHolders(s, {"update"})
      [] At(s, "catalog", AdminOps) /\ tx[s].seen # Nil /\ Inc(catalog) = tx[s].seen ->
           CatalogHolders(s, {"keyShare", "noKeyUpdate", "update"})
      [] tx[s].pc = "upsert" -> CatalogHolders(s, {"noKeyUpdate", "update", "insert"})
      [] tx[s].pc = "key" /\ tx[s].seen # Nil -> KeyHolders(s, call.id)
      [] tx[s].pc = "insert" ->
           IF \E id \in Wanted(call) \ tx[s].claim : KeyWriters(s, id) = {} THEN {}
           ELSE UNION {KeyWriters(s, id) : id \in Wanted(call) \ tx[s].claim}
      [] OTHER -> {}

\* Mutant: no deadlock is ever detected.
NeverDeadlocked(s) == FALSE

\* PostgreSQL's deadlock detector ends one of a set of sessions that all wait
\* for each other.
Deadlocked(s) ==
    \E ring \in SUBSET Sessions :
        /\ s \in ring
        /\ \A t \in ring : Blockers(t) \cap ring # {}

DetectDeadlock(s) ==
    /\ Deadlocked(s)
    /\ End(s, "failed")
    /\ UNCHANGED <<database, budget>>

RecordStep(s) ==
    \/ CatalogMissing(s) \/ LockCatalog(s) \/ KeyMissing(s) \/ LockKey(s)
    \/ InsertKey(s) \/ CommitInsert(s) \/ CommitUpdate(s) \/ CommitDelete(s)

AdminStep(s) ==
    \/ SelectNoCatalog(s) \/ SelectCatalog(s) \/ Upsert(s)
    \/ CommitApply(s) \/ CommitDrop(s)

ReadStep(s) ==
    ReadCatalog(s) \/ ReadLocator(s) \/ ReadRow(s) \/ Merge(s)

Step(s) == RecordStep(s) \/ AdminStep(s) \/ ReadStep(s)

\* The end of a run: every session has used its budget.
Done ==
    /\ \A s \in Sessions : tx[s].pc = "idle" /\ budget[s] = 0
    /\ UNCHANGED vars

Init ==
    /\ catalog = Nil
    /\ keys = [id \in Ids |-> Nil]
    /\ rows = [id \in Ids |-> [p \in Parts |-> Nil]]
    /\ links = [id \in Ids |-> {}]
    /\ births = 0
    /\ tx = [s \in Sessions |-> Fresh]
    /\ budget = Budget

Next ==
    \/ \E s \in Sessions : Call(s) \/ Step(s) \/ Abort(s) \/ DetectDeadlock(s)
    \/ Done

Spec == Init /\ [][Next]_vars

\* A call that can go on goes on, and a deadlock is detected in the end.
Fairness ==
    \A s \in Sessions : WF_vars(Step(s)) /\ WF_vars(DetectDeadlock(s))

FairSpec == Spec /\ Fairness

-----------------------------------------------------------------------------
(* Properties.                                                             *)

Transactions ==
    [pc : Phases, call : Calls \cup {Nil}, seen : Nat \cup {Nil},
     conf : Configs \cup {Nil}, key : KeyRows \cup {Nil}, row : Rows \cup {Nil},
     held : LockModes, claim : SUBSET Ids,
     absent : BOOLEAN, outcome : Outcomes]

\* The type invariant of the tables and of the transactions in progress.
TypeOK ==
    /\ catalog \in CatalogRows \cup {Nil}
    /\ keys \in [Ids -> KeyRows \cup {Nil}]
    /\ rows \in [Ids -> [Parts -> Rows \cup {Nil}]]
    /\ links \in [Ids -> SUBSET ExternalIds]
    /\ births \in Nat
    /\ tx \in [Sessions -> Transactions]
    /\ budget \in [Sessions -> Nat]

\* A record row exists exactly where its locator says: in the table of the
\* locator's class, in its partition, and nowhere else.  No foreign key of
\* records_temporal states this, the order of the statements has to.
LocatorMatchesRow ==
    \A id \in Ids, p \in Parts :
        rows[id][p] # Nil <=> keys[id] # Nil /\ keys[id].part = p

\* record_external_ids holds what the stored document derives, no more and
\* no less, whatever writes and deletions interleave.
LinksMatchDocument ==
    \A id \in Ids :
        links[id] = IF keys[id] = Nil THEN {}
                    ELSE Derived[rows[id][keys[id].part].doc]

\* No lost update: the row a transaction is about to replace or delete is
\* still the row it has read, located and compared with If-Match.
WritesOverWhatItRead ==
    \A s \in Sessions : tx[s].pc \in {"updated", "deleted"} =>
        LET id == tx[s].call.id IN
        /\ keys[id] = tx[s].key
        /\ rows[id][tx[s].key.part] = tx[s].row

\* A record that is replaced keeps its locator, so a temporal record never
\* leaves its partition, and its version counts up by one.
ReplacementCounts ==
    [][\A id \in Ids :
        keys[id] # Nil /\ keys'[id] # Nil /\ rows'[id] # rows[id] =>
            /\ keys'[id] = keys[id]
            /\ rows'[id][keys[id].part].version = rows[id][keys[id].part].version + 1
      ]_vars

\* README.md:142 "A non-empty catalog cannot change its storage class": every
\* record is stored under the class its catalog has now.
ClassUniform ==
    \A id \in Live : catalog # Nil /\ keys[id].class = catalog.class

\* Every stored document satisfies the configuration in force.
StoredDocumentsValid ==
    \A id \in Live : catalog # Nil
        /\ rows[id][keys[id].part].doc \in Accepts[catalog.schema]

\* Deleting a catalog without cascade never takes a record with it.
DropKeepsRecords ==
    [][\A s \in Sessions :
        tx[s].pc = "dropping" /\ catalog # Nil /\ catalog' = Nil /\ ~ tx[s].call.cascade
            => Live = {}]_vars

\* ErrNotFound is never an artefact of the three snapshots of GetRecord or of
\* a lock wait: at some moment of the call there was no such record (no such
\* catalog, for the calls that name no record).
NotFoundIsTrue ==
    \A s \in Sessions : tx[s].outcome = "notFound" => tx[s].absent

\* Every call ends: nobody waits for ever for a lock.
EveryCallEnds ==
    \A s \in Sessions : tx[s].pc # "idle" ~> tx[s].pc = "idle"

\* The tables, seen as the atomic store of RecordStore.
Store == INSTANCE RecordStore WITH
    config  <- IF catalog = Nil THEN Nil ELSE Conf(catalog),
    records <- [id \in Ids |-> IF keys[id] = Nil THEN Nil
                               ELSE rows[id][keys[id].part]]

\* Every COMMIT is one step of the atomic store, everything else none.
ImplementsRecordStore == Store!Spec
=============================================================================
