# Tlön: specifications and proofs

Tlön is an OGC API Records server: catalogs of JSON records in PostgreSQL, an
HTTP API over them, faceted search with signed cursors. This directory keeps
TLA+ specifications of its core, TLC configurations that check them on small
instances, and TLAPS proofs for every value of the constants.

Source paths below are relative to `src/`.

## The system

| Part | State it keeps | Operations | What is hard | What makes it correct |
|---|---|---|---|---|
| Record and catalog store (`postgres/store.go`, `postgres/bulk.go`) | tables `catalogs`, `record_keys` (locators), `records_transactional`, `records_temporal` (partitioned by start), `record_external_ids` | ApplyCatalog, DeleteCatalog, Get/Create/Put/Patch/DeleteRecord, BulkCreateRecords | READ COMMITTED snapshots, row locks, waits, deadlocks, rollback at any statement; reads without a transaction | every operation looks atomic; locator, row and external ids agree; stored documents are valid; no lost update |
| Use cases (`application/application.go`, `auth/auth.go`) | none | authorise, validate, forward; Patch is read, merge, conditional PUT | Patch spans two transactions | Patch replaces what it merged |
| Documents (`internal/record`, `internal/recordschema`) | none | strip what Tlon owns, show it again, merge patches, derive interval and external ids, validate against a schema | open and missing intervals, precision of times | a document shown and put back changes nothing; a search by time finds what overlaps |
| Search and paging (`postgres/search.go`, `internal/cursor`, `server/records.go`, `server/helpers.go`) | none on the server: the cursor carries it | SearchRecords, ListCatalogs | writes between two pages, NULLs, ties, backward pages, stale cursors | no untouched record is skipped or repeated; links and counts are right |
| Facets (`postgres/search.go`) | none | term, histogram and filter facets | bucket arithmetic at the ends | counts agree with the matches |
| Catalog indexes (`postgres/indexes.go`) | `catalog_indexes` bindings, physical indexes shared by catalogs | reconcile and release inside ApplyCatalog and DeleteCatalog | advisory lock, table locks of CREATE/DROP INDEX, reference counts | a binding names an index that exists; no deadlock |
| Migrations (`postgres/migrate.go`, `postgres/migrations/*.sql`) | `tlon_schema_migrations` | apply the missing ones in order | two runners at once, a crash in between | each is applied once, in order |
| Catalog configuration (`catalog/catalog.go`) | none | Normalize, NormalizeSort | defaults, limits | normal forms are accepted again |
| CQL2 adapter (`internal/cql`) | none | filter text to SQL | third-party parser | property names map to one expression everywhere |
| HTTP surface (`server/*.go`, `internal/etag`) | none | routes, ETags, problems | retries after a lost answer, error classification | a tag stands for one document, a conditional write replaces what it was conditioned on |
| Generated API code (`api/generated.go`, `client/generated.go`) | none | requests and answers, on both sides of the wire | the two sides have to agree | the service takes what the client wrote, the client reads what the service answered |
| Process (`cmd/tlon`, `config`) | listener, pool | migrate, serve, shut down | requests in flight at shutdown | accepted requests end, a shutdown ends |
| Seeding (`demo`, `loadtest`) | none | reset and fill catalogs through the store | interrupted, run twice at once | two loads do not mix, a reported success is complete |
| Playground | none | | | |

How they interact. A handler of `server` asks `application`, which authorises,
normalises and validates, and calls the `store.Store` interface; `postgres`
implements it with one transaction per call (GetRecord and the catalog reads
have none). The server keeps no state between requests: concurrency happens
between database transactions of any number of server processes, so what
orders them is PostgreSQL's row locks, its unique keys and its snapshots. A
client carries state from one request to the next in an ETag (the record
version) and in a cursor (the sort values of a row). Nothing calls back.

## Modules

| Module | What it is | Code |
|---|---|---|
| `RecordStore` | what the Store interface promises for one catalog, every operation atomic | `store/store.go` |
| `TlonStore` | the same operations statement by statement | `postgres/store.go`, `postgres/bulk.go`, `application/application.go` |
| `MCTlonStore` | instances of `TlonStore` | |
| `RecordApi` | requests and answers: written by the client, taken by the router, and the other way round, as operators | `client/generated.go`, `api/generated.go`, `server/server.go` |
| `HttpService` | the record endpoints in a process that starts and stops, over `RecordStore`, with clients that repeat requests | `server/records.go`, `server/server.go`, `application/application.go`, `auth/auth.go`, `internal/etag`, `cmd/tlon/main.go` |
| `MCHttpService` | an instance of `HttpService` | |
| `HttpService_proofs` | authorisation, entity tags, conditions and repetitions in `HttpService` | |
| `Documents` | one record document: written, shown, patched, put back, found by time | `internal/record/record.go`, `postgres/store.go`, `postgres/search.go` |
| `MCDocuments` | an instance of `Documents` | |
| `Documents_proofs` | searches by time, GET and PUT in `Documents` | |
| `Seeding` | the commands that fill catalogs, several at once | `demo/demo.go`, `loadtest/loadtest.go` |
| `MCSeeding` | an instance of `Seeding` | |
| `Seeding_proofs` | safety of `Seeding` | |
| `TlonStore_proofs` | safety of `TlonStore`; `TlonStore` implements `RecordStore`; what one configurer makes true | |
| `Keyset` | sort columns, ORDER BY and the keyset predicate, as operators | `postgres/search.go`, `catalog/catalog.go` |
| `Paging` | a client walking the pages of a search under concurrent writes | `server/records.go`, `server/helpers.go`, `internal/cursor`, `postgres/search.go` |
| `MCPaging` | instances of `Paging` | |
| `Paging_proofs` | the predicate against the order, pages and their links, a walk | |
| `CatalogIndexes` | catalogs that share physical indexes, with the locks of every statement | `postgres/indexes.go`, `postgres/store.go`, `postgres/search.go` |
| `MCCatalogIndexes` | instances of `CatalogIndexes` | |
| `CatalogIndexes_proofs` | safety of `CatalogIndexes` | |
| `Facets` | the facets of one search under concurrent writes | `postgres/search.go`, `catalog/catalog.go` |
| `MCFacets` | an instance of `Facets` | |
| `Facets_proofs` | the buckets and counts of every facet | |
| `Migrate` | runs of the schema migrations, of several releases | `postgres/migrate.go` |
| `MCMigrate` | an instance of `Migrate` | |
| `Migrate_proofs` | safety of `Migrate` | |

### TlonStore

`catalog`, `keys`, `rows` and `links` are the four tables for one catalog:
every statement of the code is restricted by `catalog_id`. `rows[id][p]` is the
row of `records_transactional` when `p` is `Nil` and of `records_temporal` in
partition `p` otherwise. `births` numbers insertions, so that a row can be told
from a later one with the same primary key. `tx[s]` is the call of session `s`
with what its Go variables and its transaction hold: the phase, the lock on the
catalog row, the locator keys inserted, the rows read.

A step is one SQL statement that takes a lock or a fresh snapshot, with all Go
code up to the next one; statements that follow under a lock that excludes
every other writer of what they read are part of the step that took the lock.
Writes become visible at COMMIT. What PostgreSQL does is modelled as this code
relies on it:

- a locking SELECT sees the committed rows of its snapshot, waits for the
  conflicting lock, and looks again at the same row: deleted means no row,
  even when another with the same key has appeared (`seen`);
- FOR KEY SHARE (`lockCatalog`) conflicts with FOR UPDATE and not with the
  update of a row's other columns (`CatalogHolders` and the modes it is given);
- an INSERT waits for an uncommitted row with its key (`KeyWriters`);
- any statement may fail (`Abort`), and one session of a waiting ring fails
  (`DetectDeadlock`).

| Code | Actions |
|---|---|
| `lockCatalog`, `validate` | `Call`, `CatalogMissing`, `LockCatalog` |
| `getRecord` with lock, `PutRecord`, `PatchRecord`, `DeleteRecord` | `KeyMissing`, `LockKey`, `CommitUpdate`, `CommitDelete` |
| `insertRecord`, `BulkCreateRecords` | `InsertKey`, `CommitInsert` |
| `ApplyCatalog` | `SelectNoCatalog`, `SelectCatalog`, `Upsert`, `CommitApply` |
| `DeleteCatalog` | `CatalogMissing`, `SelectCatalog`, `CommitDrop` |
| `GetRecord` | `ReadCatalog`, `ReadLocator`, `ReadRow` |
| `Application.Patch` | the same three, then `Merge` and the path of a conditional PUT |

`absent` and `read` in `tx` are history variables: no guard reads them.
`ImplementsRecordStore` maps the tables to `RecordStore` by following the
locators: a COMMIT is one step of the atomic store and nothing else is.

The interval of a document enters as `Start[d]`, a whole microsecond or none;
what becomes of a start between two microseconds is in `Documents`.

### RecordApi and HttpService

`RecordApi` is the wire. A request is a message (operation, id, `If-Match`
values, whether the query parameters have their types, media type, document);
there is one operator for each `New...Request` of the generated client, each
parameter binding and body decoding of the generated router, each
`Visit...Response` of the service and each `Parse...Response` of the client.

`HttpService` takes a request from the client to its answer. `request[r]` is
request number `r`, which is sent at most once; a repetition is another number
with the same message (`RetryOf`). Its phase says which call of the store comes
next; `cond` is the expected version that the handler has made of `If-Match`,
or `Application.Patch` of what it has read, and `base` the state of the record
that this version was taken from. `lives`, `base` and `did` are history: how
often a record has been created, what a condition stands for, what a commit has
changed. `known[c][id]` is what the client remembers.

| Code | Actions |
|---|---|
| router, handler up to the first call of the store | `Send`, `Retry` (`ChecksOf`: the checks in the code's order, each with its status) |
| `Application.Record`, `Catalog`, `Search`, `readyz` | `GetRecord`, `GetCatalog`, `DescribeCatalog`, `SearchRecords`, `Ready` |
| `Application.Patch` up to its write | `MergePatch` |
| `validateRecord` | `ValidateRecord` |
| `CreateRecord`, `PutRecord`, `DeleteRecord` of the store | `CreateRecord`, `PutRecord` and `InsertRecord`, `DeleteRecord` |
| the generated response, and the client | `Answer`, `GiveUp` |
| `serve` | `Serve`, `Terminate`, `ShutdownTimeout`, `Stop` |
| failures | `Crash`, `Fault` (a statement fails), `Commit` with 500 (a COMMIT whose answer is lost), `NoConnection` (a closed pool) |

The store is `RecordStore`, instantiated: each call takes effect at one
instant. `PutRecord` is two steps when it finds no row, because nothing is
locked between that and the INSERT. `Change` is the administrator, in another
process, who waits for the share lock on the catalog.

### Documents

One record and a client that keeps what it was shown (`copy`). `Create`,
`BulkCreate`, `Put`, `PutBack`, `Patch`, `Get` and `Delete` are the ways a
document takes; the operators under them are the functions of
`internal/record/record.go`, by name: `ForCreate`, `ForPut`, `SanitizePatch`,
`MergePatch`, `Materialize`, `DeriveTime`, `ParseDatetime`. Time is counted in
ticks, of which `Micro` make a microsecond: Go computes with ticks and
PostgreSQL keeps microseconds. `Found` is the predicate of a search by
`datetime`, with the partitions it leaves out. `Without` filters a sequence, as a
function and not as `SelectSeq`, for the sake of the proofs.

### Seeding

`configs` and `records` are the catalogs that the tools name, `run[r]` one
process: what it was started with, the catalog it is at, how much it has
written. An action is one call of the store: `Reset`, `GetCatalog`,
`CountRecords`, `ApplyCatalog`, `Put` (demo), `BulkCreate` (load),
`AnalyzeCatalog`. Nothing is around them, so other runs come in between, and
`Interrupt` ends a run anywhere. `wiped` is history: which catalogs others have
deleted since a run applied them. Records know the run that wrote them.

### Keyset and Paging

A value is its rank in the order of its column, or `Null`; a row is a function
from SQL expressions to values, and a filter the set of rows it matches.
`Keyset` translates `NormalizeSort`, `normalizeSort`, `effectiveSort`,
`sortOrderSQL` and `keysetPredicate`; ORDER BY (`OrderedBefore`) and the
predicate (`KeysetPredicate`) are separate definitions, because they are
separate pieces of code that have to agree.

In `Paging` one client follows links. `Ask` is the handler up to the call of
the store (configuration read, sort order normalised, cursor decoded), `Count`
the statements that open the REPEATABLE READ transaction and count,
`PageRecords` the page, with the links of the answer. `Write` and `Reconfigure`
are everyone else, between any two of them. The store reads the configuration
a second time, so it may refuse what the handler accepted (`SearchFails`). Rows
that ORDER BY leaves tied come in any order, and another one each time. `walk`
and `origin` are history: what has been delivered since the walk began, which
records have been untouched since (`steady`), where the page was reached from.

### CatalogIndexes

`conf` is the table `catalogs`, `bound` is `catalog_indexes`, `physical` the
indexes that exist. `rows[c]` is the one record a catalog has here, with the
table it is in: an index is on a table, not on a catalog, so what matters of
the records is which of them share a table. A document is what validation
(`Valid`) and the typed index expressions (`Casts`) make of it; a definition
(`Defs`) is the list of expressions and directions that the signature hashes.

`tx[s]` is the call of a session with the locks it holds. Unlike `TlonStore`,
which asks at each step who is in the way, this module has a lock manager:
`Wants(s)` is what the next statement of `s` locks, `Conflicts` the tables of
PostgreSQL's manual for row, table and advisory locks, and a statement is
executed when `Granted`. All locks are kept to the end of the transaction.

| Code | Actions |
|---|---|
| `ApplyCatalog` | `SelectNoCatalog`, `SelectCatalog`, `CheckDocuments`, `Upsert`, then the reconciliation, `CommitApply` |
| `DeleteCatalog` | `CatalogMissing`, `SelectDoomed`, `Purge` (both statements of the cascade), then the release, `CommitDelete` |
| `reconcileCatalogIndexes`, `removeCatalogIndexes` | `LockIndexes` (advisory lock, bindings, `to_regclass`), `CreateIndexes`, `DropIndexes` |
| `CreateRecord`, `PutRecord`, `DeleteRecord` | `LockCatalog`, `LockRecord`, `Write` or `Remove`, `CommitRecord` |
| `SearchRecords` | `SearchCatalog`, `SearchTable`, `EndSearch` |

`make`, `unbind` and `drop` are computed when the advisory lock is granted,
because everything they depend on changes only under that lock (the proof
shows it: `PlanOK`). CREATE INDEX and DROP INDEX are transactional, so they
become visible at COMMIT and an abort undoes them.

### Facets

`table` is what the matching records hold now, `snap` what it held when the
transaction of the search took its snapshot. `Open` is everything up to
`selectFacets`; then the loop of `computeFacets` takes the requests in `todo`
one by one. A step is one SQL statement: `ComputeAtOnce` for term facets and
`date_bin`, `ReadSpan` and `ComputeHistogram` for the others, `CountFilter` for
each named filter and `ComputeFilters` for the sort at the end. All read
`Snapshot`; `Write` changes `table` between any two. A statement that fails ends
the search (`Fail`). GROUP BY, HAVING, ORDER BY and LIMIT are `Grouped`, `InOrder`
and `Limited`.

The code computes the index that a value is grouped by in SQL, from parameters,
and the bounds of each bucket in Go, in float64. The module keeps the two apart. A
bound is a numerator over the bucket's `unit`; the index of every value, the
two bounds of every bucket and the greatest value that cuts off the last one are
each off by an error of their own, any of `Errors` (`IndexOf`, `CutOff`,
`Roundings`), none of which exceeds `Slack`. An error of the index may put the
least value in interval -1, as in the code, which has LEAST and no GREATEST. What
the code computes exactly has no error (`ErrorsOf`): the division of two bigints
and `date_bin`. An integer property is divided by the whole part of the width, since the
driver turns the float64 into the bigint that the statement asks for (`AsBigint`,
external), and the statement fails when that is 0 (`DividesByZero`). `Instant` is
the conversion of a date to nanoseconds, whose range is the constant `Horizon`;
what an overflow gives depends on the processor (`Saturates`).

`BucketsHoldTheirValues` therefore says: a bucket counts every value that lies
between its bounds (`Inside`) and none that does not (`About`), where values
within `2 * Slack` of a bound may go either way, one error being that of the index
and the other that of the bound. Only at the end of the last bucket is it exact,
because of LEAST. Two cases are excepted, because there the code does not do it
(see the disagreements): `KeepsWidth` and `WithinHorizon`. Without either
exception, or with a tolerance of `Slack`, `facets_near` has a counterexample.

### Migrate

`recorded` is `tlon_schema_migrations`; `schema` is the history of committed
migrations. `run[r]` is one call of `Store.Migrate` in one session; its actions
are the statements between which it may fail: `Lock` (with CREATE TABLE IF NOT
EXISTS), `Check`, `Execute`, `Record`, `Commit`, `Finish` with the deferred
unlock. `Abort` is any failure, the death of the process included, and
`CommitLost` a connection lost while it commits. A retry is another run.
`Refuse` is a failure for what the database holds, which no run should meet.

## Runs

| Run | Instance | Distinct states | What it shows |
|---|---|---|---|
| `store_writers` | 3 sessions, 2 records, 3 documents, 12 calls, batches in opposite orders; budgets 3+1+2 | 190 823 | locator, row and external ids stay consistent, no update is lost, versions count, every call ends |
| `store_admin` | 3 sessions: writer, reader and writer, administrator; budgets 2+2+3 | 770 354 | refinement of `RecordStore`, valid documents, true 404s, safe deletion of a catalog |
| `store_two_admins` | 2 administrators, 1 writer | violation | `ClassUniform` |
| `http` | 2 clients with 2 requests each, one of them a repetition; one signal, crash, fault or change by the administrator | 628 418 | tags, conditions and repetitions mean what they should, mode `deny` denies, requests and shutdowns end |
| `documents` | 13 bodies, 6 patches, 73 values of `datetime`; 3 days of 4 microseconds of 2 ticks | 3 621 | what is shown can be put back, searches by time find what overlaps |
| `documents_precision` | the same | violation | `OtherFieldsMutable` |
| `seeding` | 3 runs: two loads, and the demo, `load configure` or a load; up to 3 records, batches of 1, 2 and 3, with and without reset | 100 340 | loads do not mix, a reported success is complete |
| `paging_walk` | 3 records, 2 columns, ties and NULLs, pages of 1 and 2, 2 filters, 2 orders, 2 configurations, 1 write | 2 291 482 | complete walks, right links, agreeing count |
| `indexes_shared` | 2 catalogs, 2 definitions, 2 documents; an administrator with 3 calls, another or a search with 1, a writer with 2 | 121 817 | bindings, shared indexes and rows agree, deadlocks involve the advisory lock, every call ends |
| `indexes_neighbours` | a typed index of one catalog, a plain string in another | violation | `IndexedExpressionsAreSafe` |
| `facets_near` | 3 records, 5 rows, 9 facets, 13 values of the parameter, 1 write, errors of 1 either way | 368 450 | buckets hold what their bounds say, counts add up |
| `migrate` | 3 runs, 2 releases, 3 migrations | 1 819 | migrations are applied once, in order and completely, runs are independent and end |

Bounds, and why they suffice. *Budgets* (`Budget`, `WriteBudget`) bound the
calls; they are the only bounds on counters. Three sessions are needed for the
catalog to exist and two others to race in it, one call more than that for a
record to be deleted and created between two statements of a third. One record
is enough where the code never relates two (`store_admin`); batches need two for
opposite lock orders. Three documents are one for each partition and one without a closed
start; two schemas are one that accepts everything and one that does not accept
the last. For paging, three records over two score values and NULL give ties,
a NULL at either end and a page boundary inside a tie; page sizes 1 and 2 put
a boundary behind every record; one write is one more than the walk expects and
may hit the record at the boundary. For indexes, two catalogs share one
definition and one table and differ in the other; three administrator calls
make an index, bind it explicitly or give it up, and delete its catalog, while
the second catalog binds it too; a writer of two calls stores and replaces or
deletes a record around each of them. For facets, the rows give an empty table,
a single value, equal values, values on the bounds of buckets, negative dates
and arrays with a repeated element; counts of buckets below, at and above the
number of buckets there are, integers whose interval is whole, a fraction and
less than 1, and a date beyond `Horizon`; `MaxWrites` is 1, and that write may come
between any two statements. `Slack` stands for what float64 and numeric lose: for
numbers a few units in the last of some 16 digits, for dates up to about 1
microsecond, in the epoch as a float64 and in `int64(low*1e9)`. `Errors` is 1 and -1,
the extremes: an error in between moves no value further.

For HTTP, a conditional write, its repetition and two requests of somebody else
are the least in which a late first attempt, the second one and a write in
between all meet, and the somebody may delete and create the record anew;
`MaxTroubles` is 1, which is what makes an answer get lost, and GiveUp needs no
trouble. The catalog is found in either class, with and without the record. The
operations that do not change anything are spread over the requests, so that
each is sent. For documents, days hold microseconds and microseconds ticks, and
there is a body and an end of a query on, before and between each; `Horizon` is
the last tick of the third day. For seeding, three runs are two that mix and one
that deletes or has left something; batches of one, several and all records,
the last one short.

Symmetry is declared in `facets_near`, whose records are interchangeable and
whose properties are invariants; in the other runs the session and document
constants play different parts.

Deadlock is checked in every run: `Done` lets a store run end when all budgets
are used and all calls have ended, and a client can always ask again. In `Spec`,
where `Abort` is enabled for every call in progress, this only says that nothing
else gets stuck; `EveryCallEnds` is the statement about waiting.

For migrations, two runs race and a third picks up what a failed one left; the
old release ends before, between or after the new one.

*Fairness.* `EveryCallEnds`, of `TlonStore` and of `CatalogIndexes`,
`EveryRunEnds` and `EveryRequestEnds` need it. `WF(Step(s))` says that a call that
can go on goes on: goroutines are scheduled and PostgreSQL wakes lock waiters.
`WF(DetectDeadlock(s))` says that PostgreSQL's deadlock detector ends one of a
ring of waiters, which it does after `deadlock_timeout`. There is no fairness
for `Abort`: calls end without a timeout or a lost connection coming to help.
The code sets no lock order for batches, so without the detector this fails;
the mutant of the property shows it. The same holds of index reconciliation: a
cascade locks a table and then waits for the advisory lock, while ApplyCatalog
holds that and waits for the table. (A PUT of an existing record, which first
reads it FOR UPDATE and then upgrades its table lock, against an ApplyCatalog
that creates an index and then drops one, is another such ring.)
`DeadlockNeedsMutex` says that this is the only kind of deadlock there is when
no batches are written. In `CatalogIndexes` the two conditions are one,
`WF(Step(s) \/ DetectDeadlock(s))`: a session that the detector may end does
not need to be the one it ends when another victim lets it go on. In `Migrate`
`WF(Proceed(r))` is enough: there are finitely many runs, so the advisory lock
is free for good once the others have ended. In `HttpService` it is
`WF(Handle(r))` for each request and `WF(Stop)`: a goroutine is scheduled, the
store answers (which `EveryCallEnds` says of it), and `Shutdown` and `Close`
return when they have nothing left to wait for. There is none for `Serve`,
`Terminate`, the clients, the deadline of the shutdown or any failure.

## Disagreements between the code and what it says

1. `store_two_admins`: "A non-empty catalog cannot change its storage class"
   (`README.md:142`). Two concurrent ApplyCatalog calls for a new id both find
   no row to lock and both skip the check; the second changes the class after
   a record has been stored.
2. `indexes_neighbours`: values are validated before they are stored, so that
   "the same typed expressions are safe in B-tree indexes"
   (`003_immutable_temporal_parsers.sql:1-3`). They are validated for their own
   catalog, and an index has no WHERE clause (`indexes.go:134-135`): it is
   evaluated on the records of every catalog in the table. A catalog with an
   index on a date and one where the same property is a plain string cannot
   both exist: the PUT of the one or the ApplyCatalog of the other fails.
3. `documents_precision`: the start of a temporal record "cannot change after
   creation; other record fields, including the interval end, remain mutable"
   (`README.md:138-139`). The start of a document, in nanoseconds, is compared
   with the partition that PostgreSQL has kept, in microseconds
   (`store.go:567`), so a record whose start lies between two microseconds is
   accepted once and then refuses every replacement that keeps its time.

Noticed on the way, without a run:

- *Versions and tags.* The pinned version of `Application.Patch`
  (`application.go:144-147`) and every strong ETag (`README.md:283`) restart at
  1 for a record that is deleted and created again; the new record passes for
  the one read. The properties of `HttpService` say "unless it was created anew"
  for that reason.
- *Sorting and limits.* The tie-breaker of every order is a field *named* `id`
  (`search.go:196`), which a catalog may map to another path
  (`catalog.go:126-131`): rows then tie and a walk skips one. "At most eight sort
  fields are supported" (`catalog.go:233`), but eight without `id` become nine in
  the handler and the store refuses them (`search.go:183`); Normalize does not
  bound the default order (`catalog.go:142`), so a default of eight makes every
  unsorted search fail. A sortable of type `array` passes Normalize, but its keyset
  comparison is of jsonb with text. A backward page that comes back empty carries
  no link, although `hasNext` is true (`helpers.go:193`). `README.md:279` says
  cursors are scoped to the facet request, `cursor.Scope` deliberately leaves it
  out (`cursor.go:38-41`).
- *Facets.* The bounds of a fixed-count date histogram go through nanoseconds in
  an int64 (`search.go:666`), so those after April 2262 or before September 1677
  are reported as the end of that range (`Saturates` and `Horizon` in `Facets`).
  The histogram of an integer property divides a bigint by a parameter that the
  driver takes for one too, while its value is a float64 (`search.go:596`): with a
  width of 2.5 values are grouped by 2 and reported with bounds 2.5 apart, and
  with a width below 1 the statement divides by zero and the whole search fails
  (`Fail`). Index and bounds are rounded apart from one another (`search.go:593-615`):
  of 0.1, 0.2 and 0.4 in three buckets, 0.2 is counted in the first, whose upper
  bound it is, and the bounds of dates are off by some 100 nanoseconds, so that the
  least date may lie outside its own bucket. The last bucket is closed by LEAST,
  but nothing closes the first: a least value that float64 does not hold exactly (17
  digits, or a microsecond after the year 2242) may get a bucket of its own before
  it, with index -1. An
  interval of `P0D` passes Normalize, which is said to want a positive one
  (`README.md:129`), and makes `date_bin` fail.
- *Store.* ApplyCatalog reads the catalog again after its COMMIT
  (`store.go:174`) and answers "not found" for what it has committed when the
  catalog is deleted in between. Two unconditional PUTs of a new record may end
  in 201 and 409. The canonical form of external identifiers joins scheme and
  value with a colon (`store.go:573-592`), so `{value: "x:y"}` and `{scheme: "x",
  value: "y"}` collide.
- *HTTP.* A repeated POST creates a second record. `isClientError`
  (`server.go:199-210`) looks at the first words of an error's text: a weak tag
  in If-Match, a facet requested twice, and complaints that begin with "limit
  must be" or "filter-lang" are answered 500. A body of a media type that the API
  does not name is answered 404. PATCH stores documents that PUT would refuse
  (`records.go:154`), and GET then answers 500. The answer to HEAD gets a JSON
  media type and has no body (`server.go:128`), so the generated client's
  `ParseHead...Response` fails on it (`client/generated.go:6065`, `6199`).
- *Seeding.* `--reset` deletes a catalog that another load is filling, and its
  next batch then goes into the new one: the exception in `LoadsDoNotMix`.

## Proofs

All of these hold for any constants that satisfy the modules' named
assumptions (functions have the domains they are used with, `Nil` is none of
the values, columns declared NOT NULL hold no NULL).

`TlonStore_proofs`: `TypeCorrect`, `LocatorsCorrect`, `LinksCorrect`,
`NoLostUpdate`, `DropCorrect` and `ReplacementsCount`, for any number of
sessions, records, documents and calls. The inductive invariant is

    Safe == Typed /\ Isolated /\ LocatorMatchesRow /\ LinksMatchDocument

`LocatorMatchesRow` is not inductive: CommitInsert adds a locator and a row for
keys in `claim`, and nothing in the tables says that these are still free, nor
CommitUpdate that the locked row is still there. `Isolated` adds that: what a
transaction has found under its locks (`Found`) is what the tables hold, it has
the lock its phase needs (`LockPhase`, `LockRow`), and no two transactions hold
locks that exclude each other (`Apart`). A step that only moves one transaction
is covered by `BecomesTyped` and `BecomesIsolated`; each commit has a lemma of
its own. `OnlyCommits` reduces `ReplacementCounts` to the four commits.

The second half of `TlonStore_proofs`: `ClassesUniform`, `DocumentsValid`, `NotFoundTrue`,
`RefinesRecordStore` and `RecordsAdmissible`, under the hypothesis
`OneConfigurer`: at most one session calls ApplyCatalog, while any number write,
read and delete the catalog. It is needed: `store_two_admins` breaks the first
with two configurers, the rest with it, because ApplyCatalog of a catalog that is
not there locks nothing (see the first disagreement); the instances of
`store_admin` and `store_writers` satisfy it. `Governed` adds to `Safe` that every
record is in the class, the partition and the schema in force (`InForce`), that
what a writer is about to store has passed the checks of the configuration it has
read (`Vetted`), and that this is the one in force or that what the configurer is
about to put in its place fits the records (`Current`): FOR KEY SHARE and FOR
UPDATE on the catalog row exclude each other, so the two cannot go on at once.
For `NotFoundIsTrue`, `Remembered` follows the record over the three snapshots of
GetRecord and the wait of `getRecord`. For the refinement each commit is a step of
`RecordStore` whose guard the invariant provides, and each other action leaves the
mapped variables alone.

`Paging_proofs` begins with the order. `KeysetIsOrder`: the predicate selects
exactly the rows that ORDER BY puts after the cursor, for any number of columns,
both directions and both placements of NULLs. `BackwardReverses`: a backward page
is fetched in exactly the reverse order. `OrderIrreflexive`, `OrderTransitive`,
`OrderTotal`: ORDER BY is a strict total order of keys. Each goes from one column
to all by the first column in which two keys differ.

`PagingTypes`, `MissingLinksAreEnds` and `CountsAgree` hold whatever `id` sorts
by. Their invariant `Base` says that every cursor, one from before a
reconfiguration included, has a value for each of its columns (`CursorsFit`) and
that the count of a request in progress is that of its snapshot (`Counted`). A
page is a prefix of what follows its cursor in the snapshot, so that a page
shorter than what was fetched is all that there is.

`NothingIsSkipped`, `NothingComesTwice` and `ThereAndBack` are under the
hypothesis `IdIsIdentifier`: no catalog maps the sortable `id` to anything but
`r.id`. It is needed: with a tie between different records a page may end inside
it. The inductive invariant `IInv` adds to `Base` of the cursor at hand: the
untouched matching records that have been delivered are exactly those that do not
sort after its values (`Resumes`), between pages (`WalkOK`) and inside the
transaction (`SnapOK`). It holds of the next cursor because a page is a prefix of
what sorts after the old one (`PageIsPrefix`, from `OrderTotal` and different
identifiers) and what was behind the old cursor is behind the new one
(`BehindCursor`, from `OrderTransitive`). The row a cursor was made from may be
gone: only its values enter. For `BackAndForth`, the page shown is a run of
records without a gap in the order of its snapshot (`PageOK`, `Run`), and the
cursor that came with it is that of its first or last record (`Side`,
`OriginOK`); the page on one side of a run, taken in the reverse order from there
and turned round, is the run that it was reached from.

`CatalogIndexes_proofs`: `Invariant`, `TypesCorrect`, `BindingsFollow`,
`IndexesFollow`, `IndexesSound` and `DeadlocksNeedMutex`, for any number of
catalogs, sessions, configurations and documents. None of the three properties of
indexes is inductive: a commit changes
the tables as planned some statements earlier. `IInv` adds that locks held
together never conflict (`LocksCompatible`), which locks each phase holds
(`HoldsOK`), that a plan is still right (`PlanOK`), that an index in the making
covers the rows (`BuiltOK`) and a row in the making fits the indexes
(`StoredOK`). From the locks follow `OneReconciles`, one session at a time is
between the advisory lock and its commit, and `BuildExcludesWriters`, no row is
on its way into the table of an index that has been built and not committed.
With these a commit disturbs nobody else's plan. `GrantedCompatible` is the one
place where the lock manager is reasoned about; the deadlock detector is an
abort and plays no part in safety.

`DeadlocksNeedMutex` needs one more invariant, `LocksFollow`: what a session holds
that does not hold the advisory lock. It is its own catalog's row, in the mode of
its call, its record's row from the write on, and tables in modes that agree with
one another. In a ring without the advisory lock every session would then be at
`catalog`, `upsert`, `record` or `write`, for the other statements wait only for
the mutex or for those that have it (`NoRing`). One at `record` or `write` waits
for a session that has the same record, which waits for nobody in the ring; one at
`upsert` for a session that has the catalog row exclusively, and so has nobody to
wait for either; and one at `catalog` holds nothing that others wait for.

`Migrate_proofs`: `Invariant`, `TypesCorrect`, `RecordsAreTrue`,
`OnceAndInOrder`, `RunsAreIndependent` and `SuccessIsComplete`, for any number of
runs, releases and migrations, if releases only add greater versions
(`ReleasesAssumption`). `IInv` adds that a run between the lock and its end holds
the lock (`Held`), that all it has passed is recorded (`Passed`), that the
migration at hand is the least one left and not recorded (`AtHand`), and that
no version below a recorded one is missing (`Closed`). From these
`NothingIsMissing`: what the migration at hand needs is there, and everything
recorded is smaller, so a commit keeps the order.

`HttpService_proofs`: first `Invariant` and `NothingChangesWhileDenied`, for any
number of requests, clients, records and restarts. A commit is several steps
after the check that allows it, and the process may have been restarted in
another mode in between. `IInv` says that a mutation in the store is in a process
of mode `external` (`MutationsAllowed`). It is established on arrival, because
the checks of every operation that writes contain `Forbidden` (`OnlyIfAllowed`),
and kept by a restart, because `Exit` ends every request (`DownIsIdle`). That
only these requests change `records` while `config` stays is
`OnlyMutationsWrite`.

Then `StampsSound`, `TypeCorrect`, `TagsIdentifyDocuments`,
`ConditionsHold` and `RetriesTakeEffectOnce`, for any number of requests,
clients and records, if the absent value is none of the others
(`NilAssumption`), the tables of documents and calls have their types
(`TypesAssumption`) and a client names the record and gives the document that
its operation needs (`CallsAssumption`). None of the properties is inductive,
for a tag may be held long after it was taken: by the client, by a condition on
its way, by an answer that was lost. `TInv` follows all of these places
(`Holds`, `Seen`) and says of every stamp in one of them that it is the present
one of its record or one that the record will never have again (`Past`,
`SeenIsPast`), and that life and version determine it (`SeenAgrees`). The store
moves a record only to a greater version, or to nothing, or to a new life
(`StoreMoves`), so that what is past stays past (`PastStays`). A condition that
holds at the commit then finds the stamp that it was taken from
(`Conditioned`), what a commit replaces is past from there on, hence no two
requests replace the same stamp (`ReplacedOnce`), and a repetition has the
condition of its first attempt (`Repeats`): the second one to arrive is refused.
A step that moves one request is a case of `OneAdvances`, one that moves none of
`AllStay`; what is left for an action is what its request says afterwards.

`Seeding_proofs`: `Invariant`, `BatchesStayWhole` and `SuccessHolds`, for any number of runs,
catalogs, options and sizes, if the options are what the flags can hold
(`OptionsAssumption`) and `Nil` is none of the values (`NilAssumption`).
`LoadsDoNotMix` needs in `IInv` that a run stands at the end of a batch
(`AtBoundary`), that what it has written in the catalog it is filling is exactly
up to there (`Filling`), and that everything a load that was not wiped has
written is an initial segment and alone (`Whole`, `Alone`). The argument: a
first batch contains record 1, and so does anything that another load has left,
so that the whole batch is refused; a later batch finds its run's own records
there, unless someone has deleted them.

`SuccessIsComplete` needs that the counts of a run that has not failed are those
of the catalogs before the one at hand and of what it has written of this one
(`Tallied`), that all it claims is there (`Kept`, with `Owes` for the claim and
`Written` for what is there), and that a catalog that is not there has no records
(`Vacant`), so that the reset of one that was never applied wipes nothing. A load
leaves the records of others alone because a batch that meets one is refused, a
demo because replacing a record leaves one there. That the counts add up is a
cardinality, `BatchSize`: a batch ends at the next boundary or at the last record.

`Documents_proofs`: `StoredIsPlaced`, `SearchesCorrect` and `GetPutCorrect`, for any
documents, patches, queries, relations and conformance classes and any lengths of a
microsecond and a day, if a day is a number of microseconds (`TimeAssumption`), the
inputs have the members of documents, patches and queries and no time in them is
beyond the horizon (`InputsAssumption`; `Microseconds` counts up to there), and the
absent value is neither a number nor a sequence of links or classes
(`NilAssumption`). `DInv` says that what is stored is a valid document whose row and
partition are derived from it (`Documented`, `Placed`); every way of writing ends in
`Store`, so that one lemma is enough for them (`StoreKeeps`). A readable time is one
interval (`Derived`), and an interval stands for all microseconds from that of its
start to that of its end (`Window`, from `q <= n \div m <=> m * q <= n`). Two such
sets meet exactly when each begins before the other ends, which is what the range
predicate compares in timestamps (`EndsMeet`); the comparison with the partition
follows from it. That filtering what was shown gives back what was filtered
(`WithoutEnd`) is an induction on the length of a sequence, made with a least
counterexample (`LeastNat`), because the induction theorems of the library are out
of the provers' reach.

`Facets_proofs`: `TypeCorrect`, `BucketsCorrect` and `CountsCorrect`, for any
finite number of records and facets, any requests and any number of concurrent
writes, if the values of rows are integers and sequences of them
(`RowsAssumption`), the parameters are sequences (`ParametersAssumption`) and
every definition is one that Normalize lets through (`DefinitionsAssumption`).
Of the errors of the arithmetic only a bound is assumed, any natural number
(`ErrorsAssumption`), and of none which computation makes which. The two exceptions
of `BucketsHoldTheirValues` are in the property; the theorem adds no hypothesis.

The buckets that a request gets are those of the snapshot, whatever is written
while they are computed. `FInv` says so of each facet that is in the answer
(`FacetsOK`), and of what the code keeps between the two statements of one
facet: the bounds that the first has read are the least and the greatest value
of the snapshot, the counts so far are those of the filters in their order
(`WorkOK`). That a statement keeps it (`FinishKeeps`) is one lemma for each type
of facet about what its result owes the snapshot (`Reports`):

- `TermReports`, `HistogramReports`: grouping loses no occurrence of a value
  (`GroupedIs`), the number of groups before one in ORDER BY is its place
  (`Places`, from `BeforeIsOrder`), and a result that has not reached LIMIT,
  one more than was asked for, is all there is (`LimitedIs`).
- `FixedIntervalReports`, `FixedCountReports`: bounds are compared in units of
  1/n, in which everything is an integer. A value that has index k is no further
  from interval k than the error of the index, and one that is further inside has
  index k (`Division`, `Position`); the division of bigints is the same one when the
  width keeps its value (`WholeDivision`, `IndexIs`). A bound that is reported is
  no further from the end of interval k than its own error: no interval ends after the
  greatest value (`Ends`), so cutting off moves nothing by more than the errors
  (`InstantIs`, `BoundsAre`). `InBucket` puts the two together.
- `SingleValueReports`, `NoValueReports`: a histogram of one value, or of none,
  is a case of its own in the code.
- `FilterReports`: what `sort.Slice` and the cut at the count requested leave of the buckets.

That the counts of the groups add up to the rows (`CountsTotal`) is an induction
on the number of groups, made with a least counterexample (`LeastNat`).

Every safety property of a passing run is thus a theorem. Only model-checked:
`EveryCallEnds`, `EveryRunEnds` and `EveryRequestEnds`, which are liveness and out
of the prover's reach.

## Not modelled, and why

- *In the store*: `created_at`/`updated_at`; UUIDv7 identifiers (an identifier
  is an input, and a fresh one is one that no other call uses); the checks that
  `application` makes before the store makes them again; the foreign keys of
  `records_transactional` and `record_external_ids`, which the order of the
  statements makes redundant; index reconciliation, which is in `CatalogIndexes`.
- *In paging*: the text form of cursor values and its cast back, the HMAC (a
  client has only tokens the service has signed), what each filter means, the
  deletion of the catalog during a walk, a search that fails in the database,
  the list of catalogs.
- *In catalog indexes*: more than one record of a catalog (`TlonStore` has them);
  PATCH and batches; ANALYZE and the RESTRICT check at the end of DeleteCatalog,
  which lock in modes that only the holder of the advisory lock could block;
  the queue in which PostgreSQL keeps lock waiters (any that can be granted may
  be next here); index names that collide on 20 digits of their hash; keys too
  long for a B-tree.
- *In facets*: which error a computation makes, of which only the size is bounded;
  values that differ but are one float64, and integers beyond 2^53; a fixed
  interval that is a fraction over an integer property, which the driver cuts to its
  whole part as it does a width; months in an interval of dates, and days that are
  not 24 hours in the time zone of the session; what a filter or a query means (a
  filter is the set of rows it selects); the order of text values; the page that the
  same transaction reads, which is in `Paging`.
- *In migrations*: what the statements of a migration do beyond what they need;
  `MigrationStatus`, which only reads.
- *In HTTP*: the list of catalogs, the landing page, the API document, the
  conformance page and the answers to OPTIONS, which change nothing and repeat
  what is modelled; logging, request identifiers and the recovery
  from a panic. A parameter that the generated router cannot bind is answered in
  text/plain (`api/generated.go:3328-3331`), where `RecordApi` has problem+json as for
  every other 400; no property looks at the media type of an error.
  `RecordApi` has one operator for each function of the operations modelled; the
  functions of the other operations of `api/generated.go` and `client/generated.go`,
  and the declarations of their types, are left out.
- *In documents*: the checks of geometries, links and contacts and of JSON
  Schema, which enter as sets of documents (`Malformed`, `Accepts`); external
  identifiers, which `TlonStore` has.
- *In seeding*: the stores' locks (a call is one step; `TlonStore` has them); the
  generated documents, which enter as the schemas that they satisfy. `ApplyCatalog`
  is one step too, which it is in the code only while one session configures a
  catalog that does not exist yet (`store.go:109-114`, `store_two_admins`), and here
  several runs may. `LoadsDoNotMix` and `SuccessIsComplete` are about the rows
  that are stored, which that race leaves alone; but it may change the class of the
  catalog under them, and GET then answers 404 for records that a run has reported.
- *catalog.Normalize* (defaults, names and limits of a configuration): a pure
  function from text to text whose result is the configuration that `Paging`,
  `Facets` and `CatalogIndexes` start from.
- *CQL2 adapter, playground, fixture generators*: text and data without state of
  their own; the adapter's grammar is a third-party parser.

## Plan

Done, in this order: the store (`RecordStore`, `TlonStore`), traversal under
writes (`Keyset`, `Paging`), catalogs that share indexes (`CatalogIndexes`),
migrations (`Migrate`), facets (`Facets`), the HTTP service over the atomic store
(`RecordApi`, `HttpService`), documents and time (`Documents`), the seeding tools
(`Seeding`).

Nothing of it is left: what the models leave out is under "Not modelled", and
what could be proved of them has been.
