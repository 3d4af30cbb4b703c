------------------------------- MODULE Seeding -------------------------------
(***************************************************************************)
(* The commands that fill catalogs: tlon demo seed (demo/demo.go), tlon    *)
(* load seed and tlon load configure (loadtest/loadtest.go).  Each is a    *)
(* process of its own, a sequence of calls of the store with nothing       *)
(* around them: it stops at the first error, it may be killed between any  *)
(* two calls, and several may run at once on one catalog.                  *)
(*                                                                         *)
(* A call of the store takes effect at one instant, as RecordStore has it. *)
(***************************************************************************)
EXTENDS Integers, Sequences, FiniteSets

CONSTANTS
    Runs,
    Options,    \* Options[r]: what r may be started with
    Catalogs,
    MaximumCount,
    Transactional, Temporal, \* the catalogs that the load tool names so
    Nil

Tools == {"demo", "load", "configure"}

\* What the flags of the commands can hold.
ASSUME OptionsAssumption ==
    /\ MaximumCount \in Nat
    /\ {Transactional, Temporal} \subseteq Catalogs /\ Transactional # Temporal
    /\ \A r \in Runs : \A o \in Options[r] :
           /\ o.tool \in Tools
           /\ IF o.tool = "demo" THEN o.catalog \in Catalogs
              ELSE o.storage \in {"both", "transactional", "temporal"}
           /\ o.tool # "configure" => o.count \in Int
           /\ o.tool = "load" => o.batch \in Int

\* The documents of both tools satisfy the schema of the demo; those of the demo
\* lack members that the schema of the load tool requires.
DemoBundle == [class |-> "transactional", accepts |-> {"demo", "load"}]
LoadBundle(class) == [class |-> class, accepts |-> {"load"}]

Bundles == {DemoBundle} \cup {LoadBundle(class) : class \in {"transactional", "temporal"}}

\* No run and no configuration is the absence of one.
ASSUME NilAssumption == Nil \notin Runs /\ Nil \notin Bundles

VARIABLES
    configs,    \* configs[c]: the bundle of a catalog, Nil when there is none
    records,    \* records[c][id]: the run that has written the record, or Nil
    run,        \* run[r]: where run r is
    wiped       \* wiped[r]: what others have deleted since r applied it (history)

vars == <<configs, records, run, wiped>>

\* Identifiers are numbered from 1 by each tool, whatever the options.
Ids == {"demo", "load"} \X (1 .. MaximumCount)

Live(c) == {id \in Ids : records[c][id] # Nil}

Admissible(id, bundle) == id[1] \in bundle.accepts

-----------------------------------------------------------------------------
(* Starting a run.                                                         *)

\* load: both, transactional or temporal.
ClassesOf(o) ==
    IF o.tool = "demo" THEN <<o.catalog>>
    ELSE [both |-> <<Transactional, Temporal>>, transactional |-> <<Transactional>>,
          temporal |-> <<Temporal>>][o.storage]

BundleOf(o, c) ==
    IF o.tool = "demo" THEN DemoBundle
    ELSE LoadBundle(IF c = Temporal THEN "temporal" ELSE "transactional")

ValidOptions(o) ==
    /\ o.tool # "configure" => o.count \in 1 .. MaximumCount
    /\ o.tool = "load" => o.batch >= 1

\* phase: the call that comes next.
Unstarted == [phase |-> "unstarted", opts |-> Nil, class |-> 0, offset |-> 0,
              created |-> 0, replaced |-> 0]

Running(r) == run[r].phase \notin {"unstarted", "done", "failed"}
Catalog(r) == ClassesOf(run[r].opts)[run[r].class]

\* What the loop over catalogs begins with.
FirstCall(o) ==
    IF o.tool # "configure" /\ o.reset THEN "reset"
    ELSE IF o.tool = "load" THEN "get" ELSE "apply"

Begin(r) ==
    /\ run[r].phase = "unstarted"
    /\ \E o \in Options[r] :
           /\ ValidOptions(o)
           /\ run' = [run EXCEPT ![r].phase = FirstCall(o), ![r].opts = o, ![r].class = 1]
    /\ UNCHANGED <<configs, records, wiped>>

\* The next catalog, or the end.
NextClass(r) ==
    LET o == run[r].opts
    IN  IF run[r].class < Len(ClassesOf(o))
        THEN [run[r] EXCEPT !.phase = FirstCall(o), !.class = @ + 1, !.offset = 0]
        ELSE [run[r] EXCEPT !.phase = "done"]

To(r, phase) == run' = [run EXCEPT ![r].phase = phase]

\* An error is returned at once, with whatever has been done.
Fail(r) == To(r, "failed") /\ UNCHANGED <<configs, records, wiped>>

-----------------------------------------------------------------------------
(* The calls.                                                              *)

\* DeleteCatalog with cascade; that there is no catalog is no error.
Reset(r) ==
    LET c == Catalog(r)
    IN  /\ run[r].phase = "reset"
        /\ configs' = [configs EXCEPT ![c] = Nil]
        /\ records' = [records EXCEPT ![c] = [id \in Ids |-> Nil]]
        /\ wiped' = [q \in Runs |-> IF q # r /\ configs[c] # Nil THEN wiped[q] \cup {c}
                                    ELSE wiped[q]]
        /\ To(r, "apply")

\* Without a reset: GetCatalog, and a search that counts.
GetCatalog(r) ==
    /\ run[r].phase = "get"
    /\ To(r, IF configs[Catalog(r)] = Nil THEN "apply" ELSE "count")
    /\ UNCHANGED <<configs, records, wiped>>

CountRecords(r) ==
    /\ run[r].phase = "count"
    /\ IF configs[Catalog(r)] = Nil \/ Live(Catalog(r)) # {} THEN Fail(r)
       ELSE To(r, "apply") /\ UNCHANGED <<configs, records, wiped>>

Configurable(c, bundle) ==
    Live(c) # {} =>
        /\ configs[c].class = bundle.class
        /\ configs[c].accepts = bundle.accepts \/ \A id \in Live(c) : Admissible(id, bundle)

\* One step, although store.go:109-114 locks nothing while the catalog does not exist:
\* of two runs that create it the later one may change the class under the records of
\* the other.  The rows stay, which is what the properties are about.
ApplyCatalog(r) ==
    LET c == Catalog(r)
        bundle == BundleOf(run[r].opts, c)
    IN  /\ run[r].phase = "apply"
        /\ IF ~ Configurable(c, bundle) THEN Fail(r)
           ELSE /\ configs' = [configs EXCEPT ![c] = bundle]
                /\ wiped' = [wiped EXCEPT ![r] = @ \ {c}]
                /\ run' = [run EXCEPT ![r] = IF run[r].opts.tool = "configure" THEN NextClass(r)
                                             ELSE [@ EXCEPT !.phase = "fill"]]
                /\ UNCHANGED records

\* Mutant: a record that is refused is counted and left out.
PutGoesOn(r) ==
    LET c == Catalog(r)
        id == <<"demo", run[r].offset + 1>>
        step == [run[r] EXCEPT !.offset = @ + 1, !.created = @ + 1]
    IN  /\ run[r].phase = "fill" /\ run[r].opts.tool = "demo"
        /\ records' = IF configs[c] = Nil \/ ~ Admissible(id, configs[c]) THEN records
                      ELSE [records EXCEPT ![c][id] = r]
        /\ run' = [run EXCEPT ![r] = IF step.offset < step.opts.count THEN step
                                     ELSE [step EXCEPT !.phase = "done"]]
        /\ UNCHANGED <<configs, wiped>>

\* app.Put of the next record of the demo, with no condition.
Put(r) ==
    LET c == Catalog(r)
        id == <<"demo", run[r].offset + 1>>
        step == [run[r] EXCEPT !.offset = @ + 1,
                               !.created = IF records[c][id] = Nil THEN @ + 1 ELSE @,
                               !.replaced = IF records[c][id] = Nil THEN @ ELSE @ + 1]
    IN  /\ run[r].phase = "fill" /\ run[r].opts.tool = "demo"
        /\ IF configs[c] = Nil \/ ~ Admissible(id, configs[c]) THEN Fail(r)
           ELSE /\ records' = [records EXCEPT ![c][id] = r]
                /\ run' = [run EXCEPT ![r] = IF step.offset < step.opts.count THEN step
                                             ELSE [step EXCEPT !.phase = "done"]]
                /\ UNCHANGED <<configs, wiped>>

\* The records of the next batch do not depend on where batches begin.
Batch(r) ==
    {<<"load", i>> : i \in {j \in 1 .. run[r].opts.count :
         run[r].offset < j /\ j <= run[r].offset + run[r].opts.batch}}

\* Mutant: INSERT ... ON CONFLICT DO NOTHING.
BulkCreateSkips(r) ==
    LET c == Catalog(r)
        new == {id \in Batch(r) : records[c][id] = Nil}
        offset == run[r].offset + run[r].opts.batch
    IN  /\ run[r].phase = "fill" /\ run[r].opts.tool = "load"
        /\ IF configs[c] = Nil THEN Fail(r)
           ELSE /\ records' = [records EXCEPT ![c] = [id \in Ids |-> IF id \in new THEN r ELSE @[id]]]
                /\ run' = [run EXCEPT ![r].offset = offset,
                                      ![r].created = @ + Cardinality(Batch(r)),
                                      ![r].phase = IF offset < run[r].opts.count THEN @ ELSE "analyze"]
                /\ UNCHANGED <<configs, wiped>>

\* BulkCreateRecords: all of a batch or, when one record of it is there, none.
BulkCreate(r) ==
    LET c == Catalog(r)
        offset == run[r].offset + run[r].opts.batch
    IN  /\ run[r].phase = "fill" /\ run[r].opts.tool = "load"
        /\ IF configs[c] = Nil \/ Batch(r) \cap Live(c) # {} THEN Fail(r)
           ELSE /\ records' = [records EXCEPT ![c] =
                       [id \in Ids |-> IF id \in Batch(r) THEN r ELSE @[id]]]
                /\ run' = [run EXCEPT ![r].offset = offset,
                                      ![r].created = @ + Cardinality(Batch(r)),
                                      ![r].phase = IF offset < run[r].opts.count THEN @ ELSE "analyze"]
                /\ UNCHANGED <<configs, wiped>>

\* AnalyzeCatalog reads the catalog for the name of its table.
AnalyzeCatalog(r) ==
    /\ run[r].phase = "analyze"
    /\ IF configs[Catalog(r)] = Nil THEN Fail(r)
       ELSE run' = [run EXCEPT ![r] = NextClass(r)] /\ UNCHANGED <<configs, records, wiped>>

\* A signal, the timeout of the demo, a lost connection, a lost answer, a conflict
\* of two insertions of one key: the run ends between two calls.
Interrupt(r) == Running(r) /\ Fail(r)

-----------------------------------------------------------------------------
Init ==
    /\ configs = [c \in Catalogs |-> Nil]
    /\ records = [c \in Catalogs |-> [id \in Ids |-> Nil]]
    /\ run = [r \in Runs |-> Unstarted]
    /\ wiped = [r \in Runs |-> {}]

Rest == (\A r \in Runs : ~ Running(r)) /\ UNCHANGED vars

Next ==
    \/ \E r \in Runs :
           \/ Begin(r) \/ Reset(r) \/ GetCatalog(r) \/ CountRecords(r) \/ ApplyCatalog(r)
           \/ Put(r) \/ BulkCreate(r) \/ AnalyzeCatalog(r) \/ Interrupt(r)
    \/ Rest

Spec == Init /\ [][Next]_vars

-----------------------------------------------------------------------------
(* Properties.                                                             *)

Loaded(c, r) == {i \in 1 .. MaximumCount : records[c][<<"load", i>>] = r}

\* Where a batch ends.
Boundaries(o) == {o.count} \cup {k * o.batch : k \in {j \in 0 .. o.count : j * o.batch <= o.count}}

\* Two loads never mix their records and none leaves a part of a batch, however
\* many run at once and wherever they are killed, unless a reset has deleted the
\* catalog of a load that had applied it (loadtest.go:99-112).
LoadsDoNotMix ==
    \A c \in Catalogs, r \in Runs : Loaded(c, r) # {} /\ c \notin wiped[r] =>
        /\ \E n \in Boundaries(run[r].opts) : Loaded(c, r) = 1 .. n
        /\ \A q \in Runs \ {r} : Loaded(c, q) # {} => c \in wiped[q]

\* A run that reports success has left every record that it counts, a load its own,
\* whatever earlier or concurrent runs have left in the catalogs, unless someone
\* has deleted one after the run had applied it (demo.go:131-142).
SuccessIsComplete ==
    \A r \in Runs : run[r].phase = "done" /\ run[r].opts.tool # "configure" =>
        LET o == run[r].opts
        IN  /\ run[r].created + run[r].replaced = o.count * Len(ClassesOf(o))
            /\ \A k \in DOMAIN ClassesOf(o) :
                   LET c == ClassesOf(o)[k]
                   IN  c \in wiped[r] \/ \A i \in 1 .. o.count :
                           IF o.tool = "load" THEN records[c][<<"load", i>>] = r
                           ELSE records[c][<<"demo", i>>] # Nil
=============================================================================
