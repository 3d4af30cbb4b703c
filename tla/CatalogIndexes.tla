--------------------------- MODULE CatalogIndexes ---------------------------
(***************************************************************************)
(* postgres/indexes.go: the physical indexes that catalogs share, with the *)
(* callers in postgres/store.go that reconcile them (ApplyCatalog and      *)
(* DeleteCatalog), and the record writes and searches that use the same    *)
(* tables.                                                                 *)
(*                                                                         *)
(* The subject is what several catalogs share: the index names, the        *)
(* advisory lock, and the locks PostgreSQL takes on the two records tables *)
(* for SELECT, INSERT, CREATE INDEX and DROP INDEX.  A catalog has one     *)
(* record here; TlonStore has the records of one catalog in full.          *)
(***************************************************************************)
EXTENDS Integers, FiniteSets

CONSTANTS
    Catalogs,   \* catalog identifiers
    Sessions,   \* the calls that may be in progress at once
    Docs,       \* record documents
    Shapes,     \* a schema with its queryables and sortables
    Defs,       \* typed key expressions of an index, with their directions
    Valid,      \* Valid[sh]: the documents ValidateBundle accepts
    Casts,      \* Casts[d]: the documents on which the expressions of d do
                \* not fail (a cast to a number or a date may)
    MayCall,    \* MayCall[s]: the calls session s may make
    Budget,     \* Budget[s]: how many calls s makes at most (a bound)
    Nil         \* an absent row, no configuration

Classes == {"transactional", "temporal"}

\* A catalog bundle: "facets" are the one-key ascending definitions of the
\* term and histogram facets over scalar queryables that no initial index
\* covers, "declared" the definitions of storage.indexes.
Configs  == [class : Classes, shape : Shapes, auto : BOOLEAN,
             facets : SUBSET Defs, declared : SUBSET Defs]
Indexes  == [class : Classes, def : Defs]
Bindings == [index : Indexes, automatic : BOOLEAN]
Rows     == [class : Classes, doc : Docs]

ApplyCalls  == [op : {"apply"}, catalog : Catalogs, conf : Configs]
DropCalls   == [op : {"drop"}, catalog : Catalogs, cascade : BOOLEAN]
PutCalls    == [op : {"put"}, catalog : Catalogs, doc : Docs]
OtherCalls  == [op : {"remove", "search"}, catalog : Catalogs]
Calls       == ApplyCalls \cup DropCalls \cup PutCalls \cup OtherCalls

ASSUME ValidAssumption  == Valid \in [Shapes -> SUBSET Docs]
ASSUME CastsAssumption  == Casts \in [Defs -> SUBSET Docs]
ASSUME CallAssumption   == MayCall \in [Sessions -> SUBSET Calls]
ASSUME BudgetAssumption == Budget \in [Sessions -> Nat]
ASSUME NilAssumption    == Nil \notin Configs \cup Rows \cup Calls

VARIABLES
    conf,      \* conf[c]: the row of catalogs, or Nil
    rows,      \* rows[c]: the record of c with the table it is in, or Nil
    bound,     \* bound[c]: the rows of catalog_indexes
    physical,  \* the indexes that exist
    tx,        \* tx[s]: the call in progress in s and its transaction
    budget     \* how many more calls each session makes

database == <<conf, rows, bound, physical>>
vars     == <<conf, rows, bound, physical, tx, budget>>

-----------------------------------------------------------------------------
(* Which indexes a configuration asks for.                                 *)

\* Mutant: storage.class is empty, its default has not been filled in.
IndexOnUnclassed(class, def) == [class |-> "", def |-> def]

IndexOn(class, def) == [class |-> class, def |-> def]

\* desiredCatalogIndexes: an explicit declaration wins over an identical
\* automatic index.
Desired(cf) ==
    LET auto == IF cf.auto THEN cf.facets ELSE {} IN
    {[index |-> IndexOn(cf.class, d), automatic |-> d \notin cf.declared] :
        d \in auto \cup cf.declared}

IndexesOf(bindings) == {b.index : b \in bindings}

\* Mutant: ON CONFLICT DO NOTHING.
ReboundKeeping(old, unbind, bind) ==
    {b \in old : b.index \notin unbind}
        \cup {b \in bind : b.index \notin IndexesOf(old)}

\* The bindings of a catalog once those of "unbind" are deleted and those of
\* "bind" inserted, ON CONFLICT(catalog_id, signature) DO UPDATE.
Rebound(old, unbind, bind) ==
    {b \in old : b.index \notin unbind \cup IndexesOf(bind)} \cup bind

\* Mutant: the index is dropped without asking who else is bound to it.
UnreferencedOwn(c, unbind) == unbind

\* dropUnreferencedIndex: those that no catalog is bound to any more.
Unreferenced(c, unbind) ==
    {i \in unbind : \A o \in Catalogs \ {c} : i \notin IndexesOf(bound[o])}

-----------------------------------------------------------------------------
(***************************************************************************)
(* Locks, as PostgreSQL documents them: the row locks FOR KEY SHARE, FOR   *)
(* SHARE, FOR NO KEY UPDATE and FOR UPDATE, the table locks, and the       *)
(* advisory lock.                                                          *)
(***************************************************************************)
Conflicts ==
    [keyShare        |-> {"update"},
     share           |-> {"noKeyUpdate", "update"},
     noKeyUpdate     |-> {"share", "noKeyUpdate", "update"},
     update          |-> {"keyShare", "share", "noKeyUpdate", "update"},
     accessShare     |-> {"accessExclusive"},
     rowShare        |-> {"accessExclusive"},
     rowExclusive    |-> {"shareTable", "accessExclusive"},
     shareUpdate     |-> {"shareTable", "shareUpdate", "accessExclusive"},
     shareTable      |-> {"rowExclusive", "shareUpdate", "accessExclusive"},
     accessExclusive |-> {"accessShare", "rowShare", "rowExclusive", "shareUpdate",
                          "shareTable", "accessExclusive"},
     exclusive       |-> {"exclusive"}]

CatalogRow(c) == <<"catalogs", c>>
RecordRow(c)  == <<"record_keys", c>>
Table(class)  == <<"table", class>>
IndexMutex    == <<"advisory", "tlon-catalog-indexes">>

LockOn(object, mode) == [on |-> object, mode |-> mode]

AdminOps  == {"apply", "drop"}
RecordOps == {"put", "remove"}

\* Mutant: ApplyCatalog and DeleteCatalog select FOR SHARE.
RowLockShared(op) == IF op \in AdminOps THEN "share" ELSE "keyShare"

\* SELECT ... FOR UPDATE in ApplyCatalog and DeleteCatalog, FOR KEY SHARE in
\* lockCatalog.
RowLock(op) == IF op \in AdminOps THEN "update" ELSE "keyShare"

\* Mutant: CREATE INDEX CONCURRENTLY.
BuildLockConcurrent == "shareUpdate"

\* CREATE INDEX.
BuildLock == "shareTable"

MutexLocks == {LockOn(IndexMutex, "exclusive")}

(***************************************************************************)
(* What the next statement of s locks, besides what it already holds.  The *)
(* DELETE of record_keys reaches records_transactional through its foreign *)
(* key.  ANALYZE, and the RESTRICT check of records_temporal when the      *)
(* catalogs row is deleted, lock in modes that only a session with the     *)
(* advisory lock could block, and the session that runs them has it.       *)
(***************************************************************************)
Wants(s) ==
    LET t == tx[s]
        c == t.call.catalog
    IN
    CASE t.at = "catalog" /\ t.call.op # "search" /\ t.seen ->
           {LockOn(CatalogRow(c), RowLock(t.call.op))}
      [] t.at = "check"      -> {LockOn(Table(t.conf.class), "accessShare")}
      [] t.at = "upsert"     -> {LockOn(CatalogRow(c), "noKeyUpdate")}
      [] t.at = "purge"      -> {LockOn(Table("temporal"), "rowExclusive")}
      [] t.at = "purgeKeys" /\ rows[c] # Nil ->
           {LockOn(Table("transactional"), "rowExclusive")}
      [] t.at = "mutex"      -> MutexLocks
      [] t.at = "create" /\ t.make # {} ->
           {LockOn(Table(t.call.conf.class), BuildLock)}
      [] t.at = "drop"       ->
           {LockOn(Table(i.class), "accessExclusive") : i \in t.drop}
      [] t.at = "record" /\ t.seen ->
           {LockOn(RecordRow(c), "update"), LockOn(Table(t.conf.class), "rowShare")}
      [] t.at = "write"      ->
           {LockOn(RecordRow(c), "update"), LockOn(Table(t.conf.class), "rowExclusive")}
      [] t.at = "unlink"     -> {LockOn(Table("transactional"), "rowExclusive")}
      [] t.at = "read"       -> {LockOn(Table(t.conf.class), "accessShare")}
      [] OTHER               -> {}

\* The sessions whose locks the next statement of s waits for.
Blockers(s) ==
    {t \in Sessions \ {s} :
        \E l \in Wants(s), k \in tx[t].locks :
            l.on = k.on /\ k.mode \in Conflicts[l.mode]}

Granted(s) == Blockers(s) = {}

-----------------------------------------------------------------------------
(***************************************************************************)
(* Sessions.  "seen" says that the row a locking statement is after was    *)
(* there when the statement began and has not been deleted since; a row    *)
(* that is deleted while the statement waits is not found, even when a new *)
(* one has the same key by then.  "make" and "drop" are the indexes this   *)
(* transaction creates and drops, "unbind" those it no longer wants.       *)
(***************************************************************************)
Fresh == [at |-> "idle", call |-> Nil, seen |-> FALSE, conf |-> Nil,
          locks |-> {}, make |-> {}, unbind |-> {}, drop |-> {}]

Phases == {"idle", "catalog", "check", "upsert", "purge", "purgeKeys", "mutex",
           "create", "drop", "apply", "delete", "record", "write", "unlink",
           "stored", "read", "answer"}

At(s, phase, ops) == tx[s].at = phase /\ tx[s].call.op \in ops

\* The statement of s is executed: t is the transaction after it, which holds
\* the locks of the statement until it ends.
Becomes(s, t) ==
    tx' = [tx EXCEPT ![s] = [t EXCEPT !.locks = tx[s].locks \cup Wants(s)]]

\* The transaction ends, by COMMIT or by the deferred Rollback, and the call
\* answers; TlonStore has the answers.
End(s) == tx' = [tx EXCEPT ![s] = Fresh]

\* COMMIT of a transaction that has deleted the row which the other sessions
\* in "phase" of the same catalog are after.
EndDeleting(s, phase) ==
    tx' = [t \in Sessions |->
        IF t = s THEN Fresh
        ELSE IF tx[t].at = phase /\ tx[t].call.catalog = tx[s].call.catalog
        THEN [tx[t] EXCEPT !.seen = FALSE]
        ELSE tx[t]]

\* A call begins, and its first statement takes a snapshot of catalogs.
Call(s) ==
    /\ tx[s].at = "idle"
    /\ budget[s] > 0
    /\ budget' = [budget EXCEPT ![s] = @ - 1]
    /\ \E call \in MayCall[s] :
           tx' = [tx EXCEPT ![s] = [Fresh EXCEPT !.at = "catalog", !.call = call,
                                       !.seen = conf[call.catalog] # Nil]]
    /\ UNCHANGED database

\* lockCatalog and DeleteCatalog answer ErrNotFound.
CatalogMissing(s) ==
    /\ At(s, "catalog", RecordOps \cup {"drop"})
    /\ ~ tx[s].seen
    /\ End(s)
    /\ UNCHANGED <<database, budget>>

\* The catalogs with a row on which an index of its table cannot be evaluated.
\* An index has no WHERE clause, so the rows of every catalog count.
Failing(i) ==
    {c \in Catalogs : rows[c] # Nil /\ rows[c].class = i.class
                          /\ rows[c].doc \notin Casts[i.def]}

\* The statement of s fails in an index expression: CREATE INDEX on a row that
\* is there, INSERT or UPDATE on the new row.
IndexFails(s) ==
    \/ At(s, "create", {"apply"}) /\ \E i \in tx[s].make : Failing(i) # {}
    \/ At(s, "write", {"put"}) /\ \E i \in physical :
           i.class = tx[s].conf.class /\ tx[s].call.doc \notin Casts[i.def]

-----------------------------------------------------------------------------
(* ApplyCatalog and DeleteCatalog.                                         *)

\* SELECT ... FOR UPDATE finds nothing: there is nothing to lock or to check.
SelectNoCatalog(s) ==
    /\ At(s, "catalog", {"apply"})
    /\ ~ tx[s].seen
    /\ Becomes(s, [tx[s] EXCEPT !.at = "upsert"])
    /\ UNCHANGED <<database, budget>>

\* SELECT ... FOR UPDATE, the count of the records and the storage class.
SelectCatalog(s) ==
    LET call == tx[s].call
        old  == conf[call.catalog]
    IN
    /\ At(s, "catalog", {"apply"})
    /\ tx[s].seen
    /\ Granted(s)
    /\ IF rows[call.catalog] # Nil /\ old.class # call.conf.class
       THEN End(s)
       ELSE Becomes(s, [tx[s] EXCEPT
                !.at = IF old.shape = call.conf.shape THEN "upsert" ELSE "check",
                !.conf = old])
    /\ UNCHANGED <<database, budget>>

\* The stored documents are validated with the new bundle.
CheckDocuments(s) ==
    LET call == tx[s].call
        row  == rows[call.catalog]
    IN
    /\ tx[s].at = "check"
    /\ Granted(s)
    /\ IF row # Nil /\ row.class = tx[s].conf.class /\ row.doc \notin Valid[call.conf.shape]
       THEN End(s)
       ELSE Becomes(s, [tx[s] EXCEPT !.at = "upsert"])
    /\ UNCHANGED <<database, budget>>

\* INSERT INTO catalogs ... ON CONFLICT(id) DO UPDATE.
Upsert(s) ==
    /\ tx[s].at = "upsert"
    /\ Granted(s)
    /\ Becomes(s, [tx[s] EXCEPT !.at = "mutex"])
    /\ UNCHANGED <<database, budget>>

\* DeleteCatalog: SELECT ... FOR UPDATE and the count of the records.
SelectDoomed(s) ==
    LET call == tx[s].call IN
    /\ At(s, "catalog", {"drop"})
    /\ tx[s].seen
    /\ Granted(s)
    /\ IF rows[call.catalog] # Nil /\ ~ call.cascade
       THEN End(s)
       ELSE Becomes(s, [tx[s] EXCEPT !.at = IF call.cascade THEN "purge" ELSE "mutex"])
    /\ UNCHANGED <<database, budget>>

\* The cascade: DELETE FROM records_temporal, DELETE FROM record_keys.
Purge(s) ==
    /\ tx[s].at \in {"purge", "purgeKeys"}
    /\ Granted(s)
    /\ Becomes(s, [tx[s] EXCEPT !.at = IF @ = "purge" THEN "purgeKeys" ELSE "mutex"])
    /\ UNCHANGED <<database, budget>>

\* pg_advisory_xact_lock, and what reconcileCatalogIndexes or
\* removeCatalogIndexes then reads: the bindings of the catalog, to_regclass
\* of the desired indexes, and who else is bound to those it gives up.
LockIndexes(s) ==
    LET call   == tx[s].call
        wanted == IF call.op = "apply" THEN IndexesOf(Desired(call.conf)) ELSE {}
        unbind == IndexesOf(bound[call.catalog]) \ wanted
    IN
    /\ tx[s].at = "mutex"
    /\ Granted(s)
    /\ Becomes(s, [tx[s] EXCEPT
           !.at = IF call.op = "apply" THEN "create" ELSE "drop",
           !.make = wanted \ physical,
           !.unbind = unbind,
           !.drop = Unreferenced(call.catalog, unbind)])
    /\ UNCHANGED <<database, budget>>

\* CREATE INDEX for each desired index that does not exist, and the bindings.
CreateIndexes(s) ==
    /\ tx[s].at = "create"
    /\ Granted(s)
    /\ IF IndexFails(s)
       THEN End(s)
       ELSE Becomes(s, [tx[s] EXCEPT !.at = "drop"])
    /\ UNCHANGED <<database, budget>>

\* DROP INDEX for each that nobody is bound to any more.
DropIndexes(s) ==
    /\ tx[s].at = "drop"
    /\ Granted(s)
    /\ Becomes(s, [tx[s] EXCEPT !.at = IF tx[s].call.op = "apply" THEN "apply" ELSE "delete"])
    /\ UNCHANGED <<database, budget>>

CommitApply(s) ==
    LET call == tx[s].call IN
    /\ tx[s].at = "apply"
    /\ conf' = [conf EXCEPT ![call.catalog] = call.conf]
    /\ bound' = [bound EXCEPT ![call.catalog] =
                    Rebound(@, tx[s].unbind, Desired(call.conf))]
    /\ physical' = (physical \cup tx[s].make) \ tx[s].drop
    /\ End(s)
    /\ UNCHANGED <<rows, budget>>

CommitDelete(s) ==
    LET c == tx[s].call.catalog IN
    /\ tx[s].at = "delete"
    /\ conf' = [conf EXCEPT ![c] = Nil]
    /\ rows' = [rows EXCEPT ![c] = Nil]
    /\ bound' = [bound EXCEPT ![c] = {}]
    /\ physical' = physical \ tx[s].drop
    /\ EndDeleting(s, "catalog")
    /\ UNCHANGED budget

-----------------------------------------------------------------------------
(* Record writes and searches.                                             *)

\* lockCatalog, getCatalog and ValidateBundle; the locator statement of
\* getRecord, which filters by storage class, takes its snapshot.
LockCatalog(s) ==
    LET call == tx[s].call
        cf   == conf[call.catalog]
        row  == rows[call.catalog]
    IN
    /\ At(s, "catalog", RecordOps)
    /\ tx[s].seen
    /\ Granted(s)
    /\ IF call.op = "put" /\ call.doc \notin Valid[cf.shape]
       THEN End(s)
       ELSE Becomes(s, [tx[s] EXCEPT
                !.at = "record",
                !.conf = cf,
                !.seen = row # Nil /\ row.class = cf.class])
    /\ UNCHANGED <<database, budget>>

\* getRecord locks the locator and the record FOR UPDATE, or finds nothing.
LockRecord(s) ==
    /\ tx[s].at = "record"
    /\ Granted(s)
    /\ IF tx[s].call.op = "remove" /\ ~ tx[s].seen
       THEN End(s)
       ELSE Becomes(s, [tx[s] EXCEPT !.at = "write"])
    /\ UNCHANGED <<database, budget>>

\* INSERT or UPDATE, and every index of the table on the new row.
Write(s) ==
    /\ At(s, "write", {"put"})
    /\ Granted(s)
    /\ IF (~ tx[s].seen /\ rows[tx[s].call.catalog] # Nil) \/ IndexFails(s)
       THEN End(s)
       ELSE Becomes(s, [tx[s] EXCEPT !.at = "stored"])
    /\ UNCHANGED <<database, budget>>

\* DeleteRecord: the record, then its locator.
Remove(s) ==
    /\ \/ At(s, "write", {"remove"})
       \/ tx[s].at = "unlink"
    /\ Granted(s)
    /\ Becomes(s, [tx[s] EXCEPT !.at = IF @ = "write" THEN "unlink" ELSE "stored"])
    /\ UNCHANGED <<database, budget>>

CommitRecord(s) ==
    LET call == tx[s].call IN
    /\ tx[s].at = "stored"
    /\ \/ /\ call.op = "put"
          /\ rows' = [rows EXCEPT ![call.catalog] =
                         [class |-> tx[s].conf.class, doc |-> call.doc]]
          /\ End(s)
       \/ /\ call.op = "remove"
          /\ rows' = [rows EXCEPT ![call.catalog] = Nil]
          /\ EndDeleting(s, "record")
    /\ UNCHANGED <<conf, bound, physical, budget>>

\* SearchRecords reads the catalog, without a lock, and then its table, whose
\* lock it keeps to the end of its transaction.
SearchCatalog(s) ==
    LET cf == conf[tx[s].call.catalog] IN
    /\ At(s, "catalog", {"search"})
    /\ IF cf = Nil THEN End(s)
                   ELSE Becomes(s, [tx[s] EXCEPT !.at = "read", !.conf = cf])
    /\ UNCHANGED <<database, budget>>

SearchTable(s) ==
    /\ tx[s].at = "read"
    /\ Granted(s)
    /\ Becomes(s, [tx[s] EXCEPT !.at = "answer"])
    /\ UNCHANGED <<database, budget>>

EndSearch(s) ==
    /\ tx[s].at = "answer"
    /\ End(s)
    /\ UNCHANGED <<database, budget>>

-----------------------------------------------------------------------------
(* Failure, deadlock, the specification.                                   *)

\* Any statement may fail, the caller's context may be cancelled, the server
\* or the connection may be lost: the transaction is rolled back, with its
\* CREATE INDEX and DROP INDEX.
Abort(s) ==
    /\ tx[s].at # "idle"
    /\ End(s)
    /\ UNCHANGED <<database, budget>>

\* Mutant: no deadlock is ever detected.
NeverDeadlocked(ring) == FALSE

\* Sessions that all wait for one another.
Deadlocked(ring) == ring # {} /\ \A t \in ring : Blockers(t) \cap ring # {}

\* PostgreSQL's deadlock detector ends one of them.
DetectDeadlock(s) ==
    /\ \E ring \in SUBSET Sessions : s \in ring /\ Deadlocked(ring)
    /\ End(s)
    /\ UNCHANGED <<database, budget>>

AdminStep(s) ==
    \/ SelectNoCatalog(s) \/ SelectCatalog(s) \/ CheckDocuments(s) \/ Upsert(s)
    \/ SelectDoomed(s) \/ Purge(s) \/ LockIndexes(s) \/ CreateIndexes(s)
    \/ DropIndexes(s) \/ CommitApply(s) \/ CommitDelete(s)

RecordStep(s) ==
    \/ CatalogMissing(s) \/ LockCatalog(s) \/ LockRecord(s) \/ Write(s)
    \/ Remove(s) \/ CommitRecord(s)

SearchStep(s) == SearchCatalog(s) \/ SearchTable(s) \/ EndSearch(s)

Step(s) == AdminStep(s) \/ RecordStep(s) \/ SearchStep(s)

\* The end of a run: every session has used its budget.
Done ==
    /\ \A s \in Sessions : tx[s].at = "idle" /\ budget[s] = 0
    /\ UNCHANGED vars

Init ==
    /\ conf = [c \in Catalogs |-> Nil]
    /\ rows = [c \in Catalogs |-> Nil]
    /\ bound = [c \in Catalogs |-> {}]
    /\ physical = {}
    /\ tx = [s \in Sessions |-> Fresh]
    /\ budget = Budget

Next ==
    \/ \E s \in Sessions : Call(s) \/ Step(s) \/ Abort(s) \/ DetectDeadlock(s)
    \/ Done

Spec == Init /\ [][Next]_vars

\* A call that can go on goes on, and a deadlock is detected in the end.
Fairness ==
    \A s \in Sessions : WF_vars(Step(s) \/ DetectDeadlock(s))

FairSpec == Spec /\ Fairness

-----------------------------------------------------------------------------
(* Properties.                                                             *)

Objects ==
    {CatalogRow(c) : c \in Catalogs} \cup {RecordRow(c) : c \in Catalogs}
        \cup {Table(class) : class \in Classes} \cup {IndexMutex}

Transactions ==
    [at : Phases, call : Calls \cup {Nil}, seen : BOOLEAN,
     conf : Configs \cup {Nil}, locks : SUBSET [on : Objects, mode : DOMAIN Conflicts],
     make : SUBSET Indexes, unbind : SUBSET Indexes, drop : SUBSET Indexes]

\* The type invariant of the tables and of the transactions in progress.
TypeOK ==
    /\ conf \in [Catalogs -> Configs \cup {Nil}]
    /\ rows \in [Catalogs -> Rows \cup {Nil}]
    /\ bound \in [Catalogs -> SUBSET Bindings]
    /\ physical \in SUBSET Indexes
    /\ tx \in [Sessions -> Transactions]
    /\ budget \in [Sessions -> Nat]

\* README.md:186 "Catalog apply reconciles changed declarations
\* transactionally": the bindings of a catalog are those its configuration
\* asks for, marked automatic exactly when it does not declare them.
BindingsAreDesired ==
    \A c \in Catalogs :
        bound[c] = IF conf[c] = Nil THEN {} ELSE Desired(conf[c])

\* README.md:185 "Identical definitions share one physical index across
\* catalogs", and it is removed "once no remaining catalog references it": the
\* indexes that exist are those that some catalog is bound to.
IndexesAreTheBound ==
    physical = UNION {IndexesOf(bound[c]) : c \in Catalogs}

\* An index can be evaluated on every row of its table: no row gets in while
\* the index is built, and none that it cannot be evaluated on afterwards.
IndexesCoverRows ==
    \A i \in physical : Failing(i) = {}

\* No set of calls waits for one another unless one of them holds the advisory
\* lock of the index reconciliation.
DeadlockNeedsMutex ==
    \A ring \in SUBSET Sessions :
        Deadlocked(ring) => \E s \in ring : MutexLocks \subseteq tx[s].locks

\* Every call ends: nobody waits for ever for a lock.
EveryCallEnds ==
    \A s \in Sessions : tx[s].at # "idle" ~> tx[s].at = "idle"

\* 003_immutable_temporal_parsers.sql:1 "Catalog values are validated [...]
\* before storage [...] so the same typed expressions are safe in B-tree
\* indexes": no statement that may go on fails in an index expression.
IndexedExpressionsAreSafe ==
    \A s \in Sessions : Granted(s) => ~ IndexFails(s)
=============================================================================
