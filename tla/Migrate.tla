------------------------------- MODULE Migrate -------------------------------
(***************************************************************************)
(* postgres/migrate.go: runs of "tlon migrate up", of one release or of    *)
(* several, that bring one database up to date.  A run is one session of   *)
(* the database.  It may fail before any statement and its connection may  *)
(* be lost while it commits; to try again is another run.                  *)
(***************************************************************************)
EXTENDS Integers, Sequences

CONSTANTS
    Runs,      \* the runs of Migrate
    Versions,  \* the versions of all migrations
    Embedded,  \* Embedded[r]: the versions embedded in the binary of r
    Needs,     \* Needs[v]: what the statements of v need to be there
    None

ASSUME VersionsAssumption == Versions \subseteq Nat

ASSUME NeedsAssumption ==
    Needs \in [Versions -> SUBSET Versions] /\ \A v \in Versions : \A u \in Needs[v] : u < v

\* A release keeps the migrations of the ones before it and adds greater versions.
ASSUME ReleasesAssumption ==
    /\ Embedded \in [Runs -> SUBSET Versions]
    /\ \A r \in Runs : \A v \in Embedded[r] : \A u \in Versions : u < v => u \in Embedded[r]

ASSUME NoneAssumption == None \notin Runs \cup Versions

VARIABLES
    lock,      \* the run that holds the advisory lock, or None
    recorded,  \* the versions in tlon_schema_migrations
    schema,    \* the migrations whose statements have been committed, in order
    run        \* run[r]: the call of Migrate

vars == <<lock, recorded, schema, run>>

\* todo: what the loop has not come to; at: the migration in its transaction;
\* broken: a statement or the connection has failed.
Calls ==
    [phase : {"idle", "waiting", "checking", "executing", "recording", "committing",
              "done", "failed"},
     todo : SUBSET Versions, at : Versions \cup {None}, broken : BOOLEAN]

Ended(r) == run[r].phase \in {"done", "failed"}
InProgress(r) == run[r].phase # "idle" /\ ~ Ended(r)
Applied == {schema[i] : i \in DOMAIN schema}

-----------------------------------------------------------------------------

\* Mutant: no advisory lock.
FreeAlways == TRUE

Free == lock = None

\* Mutant: an error returns without the unlock.
ReleasedNot(r) == IF run[r].todo = {} THEN None ELSE lock

\* The deferred pg_advisory_unlock; a session that ends has no locks either.
Released(r) == IF lock = r THEN None ELSE lock

\* Mutant: in the order of a map.
IsNextAny(v, todo) == v \in todo

\* migrations() sorts by version.
IsNext(v, todo) == v \in todo /\ \A u \in todo : v <= u

\* Mutant: the statements are not executed in the transaction.
KeptNot(r) ==
    IF run[r].phase \in {"recording", "committing"} THEN Append(schema, run[r].at) ELSE schema

\* What is left of the schema when a run fails: Rollback.
Kept(r) == schema

\* Mutant: the error of Commit is dropped.
FailureIgnored(r) ==
    IF run[r].phase = "committing"
    THEN [run[r] EXCEPT !.phase = "checking", !.todo = @ \ {run[r].at}, !.at = None,
                        !.broken = TRUE]
    ELSE [run[r] EXCEPT !.phase = "failed", !.at = None, !.broken = TRUE]

Failure(r) == [run[r] EXCEPT !.phase = "failed", !.at = None, !.broken = TRUE]

\* A statement fails for what the database holds.
Refuse(r) ==
    /\ run' = [run EXCEPT ![r].phase = "failed", ![r].at = None]
    /\ lock' = Released(r)
    /\ UNCHANGED <<recorded, schema>>

-----------------------------------------------------------------------------

\* A session asks for the lock.
Start(r) ==
    /\ run[r].phase = "idle"
    /\ run' = [run EXCEPT ![r].phase = "waiting"]
    /\ UNCHANGED <<lock, recorded, schema>>

\* The lock is granted; CREATE TABLE IF NOT EXISTS, and the list of migrations.
Lock(r) ==
    /\ run[r].phase = "waiting"
    /\ Free
    /\ lock' = r
    /\ run' = [run EXCEPT ![r].phase = "checking", ![r].todo = Embedded[r]]
    /\ UNCHANGED <<recorded, schema>>

\* Mutant: the loop ends at the first version that has been applied.
CheckStops(r) ==
    /\ run[r].phase = "checking"
    /\ \E v \in Versions :
           /\ IsNext(v, run[r].todo)
           /\ run' = IF v \in recorded
                     THEN [run EXCEPT ![r].phase = "done"]
                     ELSE [run EXCEPT ![r].phase = "executing", ![r].at = v]
    /\ lock' = IF run'[r].phase = "done" THEN Released(r) ELSE lock
    /\ UNCHANGED <<recorded, schema>>

\* SELECT EXISTS: a version that has been recorded is passed over.
Check(r) ==
    /\ run[r].phase = "checking"
    /\ \E v \in Versions :
           /\ IsNext(v, run[r].todo)
           /\ run' = IF v \in recorded
                     THEN [run EXCEPT ![r].todo = @ \ {v}]
                     ELSE [run EXCEPT ![r].phase = "executing", ![r].at = v]
    /\ UNCHANGED <<lock, recorded, schema>>

\* The statements of the migration.  All are made to be executed again; they
\* fail without the tables of earlier ones.
Execute(r) ==
    /\ run[r].phase = "executing"
    /\ IF Needs[run[r].at] \subseteq Applied
       THEN /\ run' = [run EXCEPT ![r].phase = "recording"]
            /\ UNCHANGED <<lock, recorded, schema>>
       ELSE Refuse(r)

\* INSERT INTO tlon_schema_migrations waits for an insertion of the same version
\* and fails when it is there.
Record(r) ==
    /\ run[r].phase = "recording"
    /\ \A q \in Runs \ {r} : run[q].phase = "committing" => run[q].at # run[r].at
    /\ IF run[r].at \in recorded
       THEN Refuse(r)
       ELSE /\ run' = [run EXCEPT ![r].phase = "committing"]
            /\ UNCHANGED <<lock, recorded, schema>>

\* COMMIT: the statements and the record of them.
Publish(r) ==
    /\ run[r].phase = "committing"
    /\ recorded' = recorded \cup {run[r].at}
    /\ schema' = Append(schema, run[r].at)

Commit(r) ==
    /\ Publish(r)
    /\ run' = [run EXCEPT ![r].phase = "checking", ![r].todo = @ \ {run[r].at}, ![r].at = None]
    /\ UNCHANGED lock

\* COMMIT has been executed, and the connection is lost before its answer.
CommitLost(r) ==
    /\ Publish(r)
    /\ run' = [run EXCEPT ![r].phase = "failed", ![r].at = None, ![r].broken = TRUE]
    /\ lock' = Released(r)

\* The loop is at its end.
Finish(r) ==
    /\ run[r].phase = "checking" /\ run[r].todo = {}
    /\ run' = [run EXCEPT ![r].phase = "done"]
    /\ lock' = Released(r)
    /\ UNCHANGED <<recorded, schema>>

\* A statement fails, the context expires, the process or the connection dies.
Abort(r) ==
    /\ InProgress(r)
    /\ run' = [run EXCEPT ![r] = Failure(r)]
    /\ schema' = Kept(r)
    /\ lock' = IF run'[r].phase = "failed" THEN Released(r) ELSE lock
    /\ UNCHANGED recorded

Done == (\A r \in Runs : Ended(r)) /\ UNCHANGED vars

Init ==
    /\ lock = None
    /\ recorded = {}
    /\ schema = <<>>
    /\ run = [r \in Runs |-> [phase |-> "idle", todo |-> {}, at |-> None, broken |-> FALSE]]

Proceed(r) == Lock(r) \/ Check(r) \/ Execute(r) \/ Record(r) \/ Commit(r) \/ Finish(r)

Next ==
    \/ \E r \in Runs : Start(r) \/ Proceed(r) \/ CommitLost(r) \/ Abort(r)
    \/ Done

Spec == Init /\ [][Next]_vars

\* Runs are scheduled and the lock wakes one that waits; nothing else has to happen.
FairSpec == Spec /\ \A r \in Runs : WF_vars(Proceed(r))

-----------------------------------------------------------------------------
(* Properties.                                                             *)

\* The type invariant; a run is done only when it has gone through its list.
TypeOK ==
    /\ lock \in Runs \cup {None}
    /\ recorded \in SUBSET Versions
    /\ schema \in Seq(Versions)
    /\ run \in [Runs -> Calls]
    /\ \A r \in Runs : run[r].phase = "done" => run[r].todo = {}

\* The table of migrations tells the truth, whenever a run fails: a version is
\* recorded exactly when its statements have been committed (migrate.go:49-66).
RecordedIsApplied == recorded = Applied

\* Every migration is applied once and after all that are smaller, however many
\* runs there are and of whichever releases (migrate.go:41, 120).
AppliedInOrder == \A i, j \in DOMAIN schema : i < j => schema[i] < schema[j]

\* Runs do not disturb one another: one fails only when its own connection or
\* statement does, never for what another has done (migrate.go:30).
FailuresAreOwn == \A r \in Runs : run[r].phase = "failed" => run[r].broken

\* A server that starts when the migrations have been completed successfully
\* finds all of them (compose.yaml:39, migrate.go:68).
DoneMeansApplied == \A r \in Runs : run[r].phase = "done" => Embedded[r] \subseteq Applied

\* A run that has started ends, without a timeout coming to help.
EveryRunEnds == \A r \in Runs : InProgress(r) ~> Ended(r)
=============================================================================
