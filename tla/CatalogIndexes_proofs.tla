------------------------ MODULE CatalogIndexes_proofs ------------------------
(***************************************************************************)
(* The shared indexes follow the catalogs, for every number of catalogs,   *)
(* sessions, configurations and documents; and which calls may deadlock.   *)
(*                                                                         *)
(* The argument: locks exclude each other (LocksCompatible), so one        *)
(* session at a time reconciles indexes, and what it has planned under the *)
(* advisory lock (PlanOK) still holds when it commits; and no row is on    *)
(* its way into a table whose index is being built.                        *)
(***************************************************************************)
EXTENDS CatalogIndexes, TLAPS

AllOps == {"apply", "drop", "put", "remove", "search"}

\* The calls that pass through a phase.
OpsAt ==
    [idle |-> {}, catalog |-> AllOps, check |-> {"apply"}, upsert |-> {"apply"},
     purge |-> {"drop"}, purgeKeys |-> {"drop"}, mutex |-> AdminOps,
     create |-> {"apply"}, drop |-> AdminOps, apply |-> {"apply"}, delete |-> {"drop"},
     record |-> RecordOps, write |-> RecordOps, unlink |-> {"remove"},
     stored |-> RecordOps, read |-> {"search"}, answer |-> {"search"}]

\* What a phase says of the call and of what the transaction has read.
PhaseOK(t) ==
    /\ t.at # "idle" => t.call \in Calls /\ t.call.op \in OpsAt[t.at]
    /\ t.at \in {"check", "record", "write", "unlink", "stored", "read"} => t.conf \in Configs

Mutex == LockOn(IndexMutex, "exclusive")
Reconciling == {"create", "drop", "apply", "delete"}

\* The locks that a phase needs.
HoldsOK(t) ==
    /\ t.at \in Reconciling => Mutex \in t.locks
    /\ t.at \in {"drop", "apply"} /\ t.make # {} =>
           LockOn(Table(t.call.conf.class), "shareTable") \in t.locks
    /\ t.at = "stored" /\ t.call.op = "put" =>
           LockOn(Table(t.conf.class), "rowExclusive") \in t.locks

WantedBy(call) == IF call.op = "apply" THEN IndexesOf(Desired(call.conf)) ELSE {}

\* What has been planned under the advisory lock is still what is to be done.
PlanOK(t) ==
    t.at \in Reconciling =>
        /\ t.make = WantedBy(t.call) \ physical
        /\ t.unbind = IndexesOf(bound[t.call.catalog]) \ WantedBy(t.call)
        /\ t.drop = Unreferenced(t.call.catalog, t.unbind)

\* An index that has been built covers the rows of its table.
BuiltOK(t) ==
    t.at \in {"drop", "apply"} => \A i \in t.make : Failing(i) = {}

\* A row that has been written fits the indexes of its table.
StoredOK(t) ==
    t.at = "stored" /\ t.call.op = "put" =>
        \A i \in physical : i.class = t.conf.class => t.call.doc \in Casts[i.def]

SeenOK(t) ==
    t.at = "catalog" /\ t.seen => conf[t.call.catalog] # Nil

Local(t) ==
    /\ PhaseOK(t)
    /\ HoldsOK(t)
    /\ PlanOK(t)
    /\ BuiltOK(t)
    /\ StoredOK(t)
    /\ SeenOK(t)

\* No two sessions hold locks that conflict.
LocksCompatible ==
    \A s, t \in Sessions : s # t =>
        \A l \in tx[s].locks, k \in tx[t].locks :
            l.on = k.on => k.mode \notin Conflicts[l.mode]

IInv ==
    /\ TypeOK
    /\ \A s \in Sessions : Local(tx[s])
    /\ LocksCompatible
    /\ BindingsAreDesired
    /\ IndexesAreTheBound
    /\ IndexesCoverRows

-----------------------------------------------------------------------------
(* Lemmas on calls, indexes and locks.                                     *)

\* The operation of a call tells its kind.
LEMMA CallKinds ==
    ASSUME NEW c \in Calls
    PROVE  /\ c.catalog \in Catalogs
           /\ c.op \in AllOps
           /\ c.op = "apply" => c.conf \in Configs
           /\ c.op = "put" => c.doc \in Docs
BY DEF Calls, ApplyCalls, DropCalls, PutCalls, OtherCalls, AllOps

\* The indexes of a configuration are on the table of its class.
LEMMA DesiredIndexes ==
    ASSUME NEW cf \in Configs
    PROVE  /\ Desired(cf) \in SUBSET Bindings
           /\ IndexesOf(Desired(cf)) \in SUBSET Indexes
           /\ \A i \in IndexesOf(Desired(cf)) : i.class = cf.class
<1> DEFINE defs == (IF cf.auto THEN cf.facets ELSE {}) \cup cf.declared
<1>1. defs \subseteq Defs /\ cf.class \in Classes
  BY DEF Configs
<1>2. Desired(cf) = {[index |-> IndexOn(cf.class, d), automatic |-> d \notin cf.declared] :
                        d \in defs}
  BY DEF Desired
<1>3. \A d \in defs : IndexOn(cf.class, d) \in Indexes /\ IndexOn(cf.class, d).class = cf.class
  BY <1>1 DEF IndexOn, Indexes
<1>4. \A b \in Desired(cf) : b \in Bindings /\ b.index.class = cf.class
  <2>1. \A d : (d \notin cf.declared) \in BOOLEAN
    OBVIOUS
  <2> DEFINE free(d) == d \notin cf.declared
  <2>2. \A d : free(d) \in BOOLEAN
    BY <2>1
  <2>3. Desired(cf) = {[index |-> IndexOn(cf.class, d), automatic |-> free(d)] : d \in defs}
    BY <1>2
  <2> HIDE DEF free, defs
  <2>4. \A d \in defs :
            /\ [index |-> IndexOn(cf.class, d), automatic |-> free(d)] \in Bindings
            /\ [index |-> IndexOn(cf.class, d), automatic |-> free(d)].index.class = cf.class
    BY <1>3, <2>2 DEF Bindings
  <2> QED
    BY <2>3, <2>4
<1> QED
  BY <1>4 DEF IndexesOf, Bindings

\* Deleting the bindings that are not wanted and inserting the wanted ones
\* leaves exactly these.
LEMMA ReboundExactly ==
    ASSUME NEW old, NEW bind
    PROVE  Rebound(old, IndexesOf(old) \ IndexesOf(bind), bind) = bind
BY DEF Rebound, IndexesOf

\* Conflicts are symmetric.
LEMMA ConflictsSymmetric ==
    ASSUME NEW m \in DOMAIN Conflicts, NEW n \in DOMAIN Conflicts
    PROVE  n \in Conflicts[m] <=> m \in Conflicts[n]
BY DEF Conflicts

LEMMA WantedIndexes ==
    ASSUME NEW call \in Calls
    PROVE  /\ WantedBy(call) \in SUBSET Indexes
           /\ call.op = "apply" => \A i \in WantedBy(call) : i.class = call.conf.class
BY CallKinds, DesiredIndexes DEF WantedBy

\* A statement locks rows, tables and the advisory lock in their own modes.
LEMMA WantsTyped ==
    ASSUME TypeOK, NEW s \in Sessions, PhaseOK(tx[s]), PlanOK(tx[s])
    PROVE  Wants(s) \in SUBSET [on : Objects, mode : DOMAIN Conflicts]
<1>1. tx[s] \in Transactions
  BY DEF TypeOK
<1>2. tx[s].at # "idle" => tx[s].call.catalog \in Catalogs
  BY CallKinds DEF PhaseOK
<1>3. tx[s].at \in {"check", "record", "write", "unlink", "stored", "read"} =>
          tx[s].conf.class \in Classes
  BY DEF PhaseOK, Configs
<1>4. tx[s].at = "create" => tx[s].call.conf.class \in Classes
  <2>1. SUFFICES ASSUME tx[s].at = "create" PROVE tx[s].call.conf.class \in Classes
    OBVIOUS
  <2>2. tx[s].call \in Calls /\ tx[s].call.op = "apply"
    BY <2>1 DEF PhaseOK, OpsAt
  <2> QED
    BY <2>2, CallKinds DEF Configs
<1>5. \A i \in tx[s].drop : i.class \in Classes
  BY <1>1 DEF Transactions, Indexes
<1>6. \A o \in Objects, m \in DOMAIN Conflicts :
          LockOn(o, m) \in [on : Objects, mode : DOMAIN Conflicts]
  BY DEF LockOn
<1>7. /\ \A c \in Catalogs : CatalogRow(c) \in Objects /\ RecordRow(c) \in Objects
      /\ \A class \in Classes : Table(class) \in Objects
      /\ IndexMutex \in Objects
  BY DEF Objects
<1>8. {"keyShare", "update", "noKeyUpdate", "accessShare", "rowShare", "rowExclusive",
       "shareTable", "accessExclusive", "exclusive"} \subseteq DOMAIN Conflicts
  BY DEF Conflicts
<1>9. \A op : RowLock(op) \in DOMAIN Conflicts
  BY <1>8 DEF RowLock
<1>10. BuildLock \in DOMAIN Conflicts
  BY <1>8 DEF BuildLock
<1> QED
  BY <1>2, <1>3, <1>4, <1>5, <1>6, <1>7, <1>8, <1>9, <1>10
  DEF Wants, MutexLocks, Classes

-----------------------------------------------------------------------------
(* Steps that leave the tables alone.                                      *)

\* A statement that is granted its locks conflicts with nobody.
LEMMA GrantedCompatible ==
    ASSUME TypeOK, LocksCompatible, NEW s \in Sessions, NEW t, Becomes(s, t), Granted(s),
           Wants(s) \in SUBSET [on : Objects, mode : DOMAIN Conflicts]
    PROVE  LocksCompatible'
<1>1. \A r \in Sessions \ {s} : tx'[r] = tx[r]
  BY DEF Becomes, TypeOK
<1>2. tx'[s].locks = tx[s].locks \cup Wants(s)
  BY DEF Becomes, TypeOK
<1>3. \A r \in Sessions : tx[r].locks \in SUBSET [on : Objects, mode : DOMAIN Conflicts]
  BY DEF TypeOK, Transactions
<1>4. ASSUME NEW r \in Sessions \ {s}, NEW l \in tx'[s].locks, NEW k \in tx[r].locks, l.on = k.on
      PROVE  k.mode \notin Conflicts[l.mode] /\ l.mode \notin Conflicts[k.mode]
  <2>1. l.mode \in DOMAIN Conflicts /\ k.mode \in DOMAIN Conflicts
    BY <1>2, <1>3, <1>4
  <2>2. k.mode \notin Conflicts[l.mode]
    <3>1. CASE l \in tx[s].locks
      BY <3>1, <1>4 DEF LocksCompatible
    <3>2. CASE l \in Wants(s)
      BY <3>2, <1>4 DEF Granted, Blockers
    <3> QED
      BY <3>1, <3>2, <1>2
  <2> QED
    BY <2>1, <2>2, ConflictsSymmetric
<1> QED
  BY <1>1, <1>4 DEF LocksCompatible

\* Ending a transaction releases its locks.
LEMMA EndCompatible ==
    ASSUME LocksCompatible, TypeOK, NEW s \in Sessions,
           tx'[s].locks = {}, \A r \in Sessions \ {s} : tx'[r].locks = tx[r].locks
    PROVE  LocksCompatible'
<1>1. \A r, q \in Sessions : r # q =>
          \/ tx'[r].locks = {}
          \/ tx'[q].locks = {}
          \/ tx'[r].locks = tx[r].locks /\ tx'[q].locks = tx[q].locks
  OBVIOUS
<1> QED
  BY <1>1 DEF LocksCompatible

\* A transaction that goes on with the tables as they are.
LEMMA QuietStep ==
    ASSUME IInv, NEW s \in Sessions, NEW t, Becomes(s, t), Granted(s),
           UNCHANGED <<database, budget>>,
           tx'[s] \in Transactions, Local(tx'[s])
    PROVE  IInv'
<1>1. \A r \in Sessions \ {s} : tx'[r] = tx[r]
  BY DEF Becomes, IInv, TypeOK
<1>2. TypeOK'
  BY <1>1 DEF IInv, TypeOK, database, Becomes
<1>3. LocksCompatible'
  BY GrantedCompatible, WantsTyped DEF IInv, Local
<1>4. /\ conf' = conf
      /\ rows' = rows
      /\ bound' = bound
      /\ physical' = physical
  BY DEF database
<1>5. ASSUME NEW r \in Sessions PROVE Local(tx[r])'
  <2>1. Local(tx'[r])
    BY <1>1 DEF IInv
  <2> QED
    BY <1>4, <2>1 DEF Local, PhaseOK, HoldsOK, PlanOK, BuiltOK, StoredOK, SeenOK, Failing,
       Unreferenced
<1>6. BindingsAreDesired' /\ IndexesAreTheBound' /\ IndexesCoverRows'
  BY <1>4 DEF IInv, BindingsAreDesired, IndexesAreTheBound, IndexesCoverRows, Failing
<1> QED
  BY <1>2, <1>3, <1>5, <1>6 DEF IInv

\* A transaction that has ended is idle and holds nothing.
LEMMA FreshOK ==
    /\ Fresh \in Transactions
    /\ Fresh.at = "idle" /\ Fresh.locks = {}
BY DEF Fresh, Transactions, Phases

\* A call that ends without having changed anything.
LEMMA QuietEnd ==
    ASSUME IInv, NEW s \in Sessions, End(s), UNCHANGED <<database, budget>>
    PROVE  IInv'
<1>1. /\ \A r \in Sessions \ {s} : tx'[r] = tx[r]
      /\ tx'[s] = Fresh
  BY DEF End, IInv, TypeOK
<1>2. TypeOK'
  BY <1>1, FreshOK DEF IInv, TypeOK, database, End
<1>3. LocksCompatible'
  BY <1>1, FreshOK, EndCompatible DEF IInv
<1>4. /\ conf' = conf
      /\ rows' = rows
      /\ bound' = bound
      /\ physical' = physical
  BY DEF database
<1>5. ASSUME NEW r \in Sessions PROVE Local(tx[r])'
  <2>1. CASE r = s
    BY <1>1, <2>1, FreshOK DEF Local, PhaseOK, HoldsOK, PlanOK, BuiltOK, StoredOK, SeenOK,
       Reconciling
  <2>2. CASE r # s
    <3>1. Local(tx'[r])
      BY <1>1, <2>2 DEF IInv
    <3> QED
      BY <1>4, <3>1 DEF Local, PhaseOK, HoldsOK, PlanOK, BuiltOK, StoredOK, SeenOK, Failing,
         Unreferenced
  <2> QED
    BY <2>1, <2>2
<1>6. BindingsAreDesired' /\ IndexesAreTheBound' /\ IndexesCoverRows'
  BY <1>4 DEF IInv, BindingsAreDesired, IndexesAreTheBound, IndexesCoverRows, Failing
<1> QED
  BY <1>2, <1>3, <1>5, <1>6 DEF IInv

\* What a session that is not idle is known to be.
LEMMA Busy ==
    ASSUME IInv, NEW s \in Sessions, tx[s].at # "idle"
    PROVE  /\ tx[s] \in Transactions
           /\ tx[s].call \in Calls /\ tx[s].call.op \in OpsAt[tx[s].at]
           /\ Local(tx[s])
BY DEF IInv, TypeOK, Local, PhaseOK

\* The step to another phase "a" that needs nothing but the locks in hand.
LEMMA MoveStep ==
    ASSUME IInv, NEW s \in Sessions, tx[s].at # "idle",
           NEW a \in Phases \ {"idle", "catalog"},
           Becomes(s, [tx[s] EXCEPT !.at = a]), Granted(s),
           UNCHANGED <<database, budget>>,
           tx[s].call.op \in OpsAt[a],
           a \in {"check", "record", "write", "unlink", "stored", "read"}
               => tx[s].conf \in Configs,
           HoldsOK(tx'[s]), PlanOK(tx'[s]), BuiltOK(tx'[s]), StoredOK(tx'[s])
    PROVE  IInv'
<1>1. tx[s] \in Transactions /\ tx[s].call \in Calls
  BY Busy
<1>2. Wants(s) \in SUBSET [on : Objects, mode : DOMAIN Conflicts]
  BY WantsTyped DEF IInv, Local
<1>3. tx'[s] = [tx[s] EXCEPT !.at = a, !.locks = tx[s].locks \cup Wants(s)]
  BY <1>1 DEF Becomes, IInv, TypeOK, Transactions
<1>4. tx'[s] \in Transactions /\ tx'[s].at = a
  BY <1>1, <1>2, <1>3 DEF Transactions
<1>5. PhaseOK(tx'[s]) /\ SeenOK(tx'[s])
  BY <1>1, <1>3, <1>4 DEF PhaseOK, SeenOK, Transactions
<1> QED
  BY <1>4, <1>5, QuietStep DEF Local

\* The fields of a transaction that moves.
LEMMA MoveFields ==
    ASSUME IInv, NEW s \in Sessions, NEW a, Becomes(s, [tx[s] EXCEPT !.at = a])
    PROVE  /\ tx'[s].at = a
           /\ tx'[s].call = tx[s].call /\ tx'[s].conf = tx[s].conf
           /\ tx'[s].make = tx[s].make /\ tx'[s].unbind = tx[s].unbind
           /\ tx'[s].drop = tx[s].drop
           /\ tx'[s].locks = tx[s].locks \cup Wants(s)
BY DEF Becomes, IInv, TypeOK, Transactions

\* The phases outside the reconciliation and before a commit ask for nothing.
LEMMA Unplanned ==
    ASSUME NEW t, t.at \notin Reconciling \cup {"stored"}
    PROVE  HoldsOK(t) /\ PlanOK(t) /\ BuiltOK(t) /\ StoredOK(t)
BY DEF HoldsOK, PlanOK, BuiltOK, StoredOK, Reconciling

-----------------------------------------------------------------------------
(* One lemma for each action.                                              *)

LEMMA CallKeeps ==
    ASSUME IInv, NEW s \in Sessions, Call(s)
    PROVE  IInv'
<1>1. PICK call \in MayCall[s] :
          tx' = [tx EXCEPT ![s] = [Fresh EXCEPT !.at = "catalog", !.call = call,
                                       !.seen = conf[call.catalog] # Nil]]
  BY DEF Call
<1>2. call \in Calls
  BY CallAssumption
<1>3. /\ \A r \in Sessions \ {s} : tx'[r] = tx[r]
      /\ tx'[s].at = "catalog" /\ tx'[s].call = call /\ tx'[s].locks = {}
      /\ tx'[s].seen = (conf[call.catalog] # Nil)
      /\ tx'[s] = [Fresh EXCEPT !.at = "catalog", !.call = call,
                                 !.seen = conf[call.catalog] # Nil]
  BY <1>1 DEF IInv, TypeOK, Fresh
<1>4. tx'[s] \in Transactions
  <2>1. (conf[call.catalog] # Nil) \in BOOLEAN
    OBVIOUS
  <2> QED
    BY <1>2, <1>3, <2>1, FreshOK DEF Transactions, Phases
<1>5. TypeOK'
  <2>1. budget' \in [Sessions -> Nat]
    BY DEF Call, IInv, TypeOK
  <2>2. tx' \in [Sessions -> Transactions]
    BY <1>1, <1>3, <1>4 DEF IInv, TypeOK
  <2> QED
    BY <2>1, <2>2 DEF Call, database, IInv, TypeOK
<1>6. LocksCompatible'
  BY <1>3, EndCompatible DEF IInv
<1>7. /\ conf' = conf
      /\ rows' = rows
      /\ bound' = bound
      /\ physical' = physical
  BY DEF Call, database
<1>8. ASSUME NEW r \in Sessions PROVE Local(tx[r])'
  <2>1. CASE r = s
    <3>1. call.op \in OpsAt["catalog"]
      BY <1>2, CallKinds DEF OpsAt
    <3>2. tx'[s].seen => conf[call.catalog] # Nil
      BY <1>3
    <3>3. PhaseOK(tx'[s])
      BY <1>2, <1>3, <3>1 DEF PhaseOK
    <3> QED
      BY <1>3, <1>7, <2>1, <3>2, <3>3 DEF Local, PhaseOK, HoldsOK, PlanOK, BuiltOK,
         StoredOK, SeenOK, Reconciling
  <2>2. CASE r # s
    <3>1. Local(tx'[r])
      BY <1>3, <2>2 DEF IInv
    <3> QED
      BY <1>7, <3>1 DEF Local, PhaseOK, HoldsOK, PlanOK, BuiltOK, StoredOK, SeenOK, Failing,
         Unreferenced
  <2> QED
    BY <2>1, <2>2
<1>9. BindingsAreDesired' /\ IndexesAreTheBound' /\ IndexesCoverRows'
  BY <1>7 DEF IInv, BindingsAreDesired, IndexesAreTheBound, IndexesCoverRows, Failing
<1> QED
  BY <1>5, <1>6, <1>8, <1>9 DEF IInv

LEMMA CatalogMissingKeeps ==
    ASSUME IInv, NEW s \in Sessions, CatalogMissing(s)
    PROVE  IInv'
BY QuietEnd DEF CatalogMissing

LEMMA SelectNoCatalogKeeps ==
    ASSUME IInv, NEW s \in Sessions, SelectNoCatalog(s)
    PROVE  IInv'
<1>1. tx[s].at = "catalog" /\ tx[s].call.op = "apply" /\ ~ tx[s].seen
  BY DEF SelectNoCatalog, At
<1>2. tx[s].call.op \in OpsAt["upsert"]
  BY <1>1 DEF OpsAt
<1>3. Granted(s)
  BY <1>1 DEF Wants, Granted, Blockers
<1>4. HoldsOK(tx'[s]) /\ PlanOK(tx'[s]) /\ BuiltOK(tx'[s]) /\ StoredOK(tx'[s])
  <2>1. tx'[s].at = "upsert"
    BY MoveFields DEF SelectNoCatalog
  <2> QED
    BY <2>1, Unplanned DEF Reconciling
<1> QED
  BY <1>1, <1>2, <1>3, <1>4, MoveStep DEF SelectNoCatalog, Phases

LEMMA CheckDocumentsKeeps ==
    ASSUME IInv, NEW s \in Sessions, CheckDocuments(s)
    PROVE  IInv'
<1>1. CASE End(s)
  BY <1>1, QuietEnd DEF CheckDocuments
<1>2. CASE Becomes(s, [tx[s] EXCEPT !.at = "upsert"])
  <2>1. tx[s].at = "check" /\ Granted(s)
    BY DEF CheckDocuments
  <2>2. tx[s].call.op \in OpsAt["upsert"]
    BY <2>1, Busy DEF OpsAt
  <2>3. HoldsOK(tx'[s]) /\ PlanOK(tx'[s]) /\ BuiltOK(tx'[s]) /\ StoredOK(tx'[s])
    <3>1. tx'[s].at = "upsert"
      BY <1>2, MoveFields
    <3> QED
      BY <3>1, Unplanned DEF Reconciling
  <2> QED
    BY <1>2, <2>1, <2>2, <2>3, MoveStep DEF CheckDocuments, Phases
<1> QED
  BY <1>1, <1>2 DEF CheckDocuments

LEMMA UpsertKeeps ==
    ASSUME IInv, NEW s \in Sessions, Upsert(s)
    PROVE  IInv'
<1>1. tx[s].at = "upsert" /\ Granted(s)
  BY DEF Upsert
<1>2. tx[s].call.op \in OpsAt["mutex"]
  BY <1>1, Busy DEF OpsAt, AdminOps
<1>3. HoldsOK(tx'[s]) /\ PlanOK(tx'[s]) /\ BuiltOK(tx'[s]) /\ StoredOK(tx'[s])
  <2>1. tx'[s].at = "mutex"
    BY MoveFields DEF Upsert
  <2> QED
    BY <2>1, Unplanned DEF Reconciling
<1> QED
  BY <1>1, <1>2, <1>3, MoveStep DEF Upsert, Phases

LEMMA SelectDoomedKeeps ==
    ASSUME IInv, NEW s \in Sessions, SelectDoomed(s)
    PROVE  IInv'
<1> DEFINE a == IF tx[s].call.cascade THEN "purge" ELSE "mutex"
<1>1. CASE End(s)
  BY <1>1, QuietEnd DEF SelectDoomed
<1>2. CASE Becomes(s, [tx[s] EXCEPT !.at = a])
  <2>1. tx[s].at = "catalog" /\ tx[s].call.op = "drop" /\ Granted(s)
    BY DEF SelectDoomed, At
  <2>2. tx[s].call.op \in OpsAt[a]
    BY <2>1 DEF OpsAt, AdminOps
  <2>3. HoldsOK(tx'[s]) /\ PlanOK(tx'[s]) /\ BuiltOK(tx'[s]) /\ StoredOK(tx'[s])
    <3>1. tx'[s].at = a
      BY <1>2, MoveFields
    <3>2. a \notin Reconciling \cup {"stored"}
      BY DEF Reconciling
    <3> QED
      BY <3>1, <3>2, Unplanned
  <2>4. a \in {"purge", "mutex"}
    OBVIOUS
  <2> HIDE DEF a
  <2> QED
    BY <1>2, <2>1, <2>2, <2>3, <2>4, MoveStep DEF SelectDoomed, Phases
<1> QED
  BY <1>1, <1>2 DEF SelectDoomed

LEMMA PurgeKeeps ==
    ASSUME IInv, NEW s \in Sessions, Purge(s)
    PROVE  IInv'
<1> DEFINE a == IF tx[s].at = "purge" THEN "purgeKeys" ELSE "mutex"
<1>1. tx[s].at \in {"purge", "purgeKeys"} /\ Granted(s) /\ UNCHANGED <<database, budget>>
  BY DEF Purge
<1>2. Becomes(s, [tx[s] EXCEPT !.at = a])
  BY DEF Purge
<1>3. tx[s].call.op \in OpsAt[a]
  BY <1>1, Busy DEF OpsAt, AdminOps
<1>4. HoldsOK(tx'[s]) /\ PlanOK(tx'[s]) /\ BuiltOK(tx'[s]) /\ StoredOK(tx'[s])
  <2>1. tx'[s].at = a
    BY <1>2, MoveFields
  <2>2. a \notin Reconciling \cup {"stored"}
    BY DEF Reconciling
  <2> QED
    BY <2>1, <2>2, Unplanned
<1>5. a \in {"purgeKeys", "mutex"}
  OBVIOUS
<1> HIDE DEF a
<1> QED
  BY <1>1, <1>2, <1>3, <1>4, <1>5, MoveStep DEF Phases

LEMMA SelectCatalogKeeps ==
    ASSUME IInv, NEW s \in Sessions, SelectCatalog(s)
    PROVE  IInv'
<1> DEFINE c == tx[s].call.catalog
           a == IF conf[c].shape = tx[s].call.conf.shape THEN "upsert" ELSE "check"
           t == [tx[s] EXCEPT !.at = a, !.conf = conf[c]]
<1>1. CASE End(s)
  BY <1>1, QuietEnd DEF SelectCatalog
<1>2. CASE Becomes(s, t)
  <2>1. tx[s].at = "catalog" /\ tx[s].call.op = "apply" /\ tx[s].seen /\ Granted(s)
    BY DEF SelectCatalog, At
  <2>2. tx[s] \in Transactions /\ tx[s].call \in Calls /\ Local(tx[s])
    BY <2>1, Busy
  <2>3. conf[c] \in Configs
    BY <2>1, <2>2, CallKinds DEF Local, SeenOK, IInv, TypeOK
  <2>4. Wants(s) \in SUBSET [on : Objects, mode : DOMAIN Conflicts]
    BY WantsTyped, <2>2 DEF IInv, Local
  <2>5. a \in {"upsert", "check"} /\ "apply" \in OpsAt["upsert"] /\ "apply" \in OpsAt["check"]
    BY DEF OpsAt
  <2> HIDE DEF a, c
  <2>6. tx'[s] = [tx[s] EXCEPT !.at = a, !.conf = conf[c], !.locks = tx[s].locks \cup Wants(s)]
    BY <1>2, <2>2 DEF Becomes, IInv, TypeOK, Transactions
  <2>7. tx'[s] \in Transactions
    BY <2>2, <2>3, <2>4, <2>5, <2>6 DEF Transactions, Phases
  <2>8. tx'[s].at = a /\ tx'[s].call = tx[s].call /\ tx'[s].conf = conf[c]
    BY <2>2, <2>6 DEF Transactions
  <2>9. Local(tx'[s])
    BY <2>1, <2>2, <2>3, <2>5, <2>8 DEF Local, PhaseOK, HoldsOK, PlanOK, BuiltOK, StoredOK,
       SeenOK, Reconciling
  <2> QED
    BY <1>2, <2>1, <2>7, <2>9, QuietStep DEF SelectCatalog
<1> QED
  BY <1>1, <1>2 DEF SelectCatalog

\* Under the advisory lock the plan is made from what is committed.
LEMMA LockIndexesKeeps ==
    ASSUME IInv, NEW s \in Sessions, LockIndexes(s)
    PROVE  IInv'
<1> DEFINE call   == tx[s].call
           unbind == IndexesOf(bound[call.catalog]) \ WantedBy(call)
           a      == IF call.op = "apply" THEN "create" ELSE "drop"
           make   == WantedBy(call) \ physical
           drop   == Unreferenced(call.catalog, unbind)
           t      == [tx[s] EXCEPT !.at = a, !.make = make, !.unbind = unbind, !.drop = drop]
<1>1. tx[s].at = "mutex" /\ Granted(s) /\ Becomes(s, t) /\ UNCHANGED <<database, budget>>
  BY DEF LockIndexes, WantedBy
<1>2. tx[s] \in Transactions /\ call \in Calls /\ call.op \in AdminOps
  BY <1>1, Busy DEF OpsAt
<1>3. /\ a \in {"create", "drop"} /\ call.op \in OpsAt[a]
      /\ a = "drop" => call.op # "apply"
  BY <1>2 DEF OpsAt, AdminOps
<1>4. make \in SUBSET Indexes
  BY <1>2, WantedIndexes
<1>5. unbind \in SUBSET Indexes /\ drop \in SUBSET Indexes
  <2>1. bound[call.catalog] \in SUBSET Bindings
    BY <1>2, CallKinds DEF IInv, TypeOK
  <2>2. IndexesOf(bound[call.catalog]) \in SUBSET Indexes
    BY <2>1 DEF IndexesOf, Bindings
  <2> QED
    BY <2>2 DEF Unreferenced
<1>6. Wants(s) = {Mutex}
  BY <1>1 DEF Wants, MutexLocks, Mutex
<1>7. Wants(s) \in SUBSET [on : Objects, mode : DOMAIN Conflicts]
  BY WantsTyped DEF IInv, Local
<1>8. make = {} \/ a = "create"
  BY DEF WantedBy
<1> HIDE DEF make, drop, unbind, a
<1>9. tx'[s] = [tx[s] EXCEPT !.at = a, !.make = make, !.unbind = unbind, !.drop = drop,
                             !.locks = tx[s].locks \cup Wants(s)]
  BY <1>1, <1>2 DEF Becomes, IInv, TypeOK, Transactions
<1>10. tx'[s] \in Transactions
  BY <1>2, <1>3, <1>4, <1>5, <1>7, <1>9 DEF Transactions, Phases
<1>11. /\ tx'[s].at = a /\ tx'[s].call = call /\ tx'[s].make = make
       /\ tx'[s].unbind = unbind /\ tx'[s].drop = drop
       /\ Mutex \in tx'[s].locks
  BY <1>2, <1>6, <1>9 DEF Transactions
<1>12. PhaseOK(tx'[s]) /\ HoldsOK(tx'[s]) /\ StoredOK(tx'[s]) /\ SeenOK(tx'[s])
  BY <1>2, <1>3, <1>8, <1>11 DEF PhaseOK, HoldsOK, StoredOK, SeenOK
<1>13. PlanOK(tx'[s])
  BY <1>11 DEF PlanOK, make, unbind, drop
<1>14. BuiltOK(tx'[s])
  BY <1>3, <1>8, <1>11 DEF BuiltOK
<1> QED
  BY <1>1, <1>10, <1>12, <1>13, <1>14, QuietStep DEF Local

\* CREATE INDEX is granted its table lock and meets no row that fails.
LEMMA CreateIndexesKeeps ==
    ASSUME IInv, NEW s \in Sessions, CreateIndexes(s)
    PROVE  IInv'
<1>1. CASE End(s)
  BY <1>1, QuietEnd DEF CreateIndexes
<1>2. CASE ~ IndexFails(s) /\ Becomes(s, [tx[s] EXCEPT !.at = "drop"])
  <2>1. tx[s].at = "create" /\ Granted(s)
    BY DEF CreateIndexes
  <2>2. Local(tx[s]) /\ tx[s].call.op = "apply"
    BY <2>1, Busy DEF OpsAt
  <2>3. tx[s].call.op \in OpsAt["drop"]
    BY <2>2 DEF OpsAt, AdminOps
  <2>4. tx[s].make # {} =>
            LockOn(Table(tx[s].call.conf.class), "shareTable") \in tx'[s].locks
    BY <1>2, <2>1, MoveFields DEF Wants, BuildLock
  <2>5. HoldsOK(tx'[s])
    BY <1>2, <2>1, <2>2, <2>4, MoveFields DEF HoldsOK, Local, Reconciling
  <2>6. PlanOK(tx'[s]) /\ StoredOK(tx'[s])
    BY <1>2, <2>1, <2>2, MoveFields DEF PlanOK, StoredOK, Local, Reconciling
  <2>7. BuiltOK(tx'[s])
    BY <1>2, <2>1, <2>2, MoveFields DEF BuiltOK, IndexFails, At
  <2> QED
    BY <1>2, <2>1, <2>3, <2>5, <2>6, <2>7, MoveStep DEF CreateIndexes, Phases
<1> QED
  BY <1>1, <1>2 DEF CreateIndexes

LEMMA DropIndexesKeeps ==
    ASSUME IInv, NEW s \in Sessions, DropIndexes(s)
    PROVE  IInv'
<1> DEFINE a == IF tx[s].call.op = "apply" THEN "apply" ELSE "delete"
<1>1. tx[s].at = "drop" /\ Granted(s) /\ UNCHANGED <<database, budget>>
  BY DEF DropIndexes
<1>2. Becomes(s, [tx[s] EXCEPT !.at = a])
  BY DEF DropIndexes
<1>3. Local(tx[s]) /\ tx[s].call.op \in OpsAt[a]
  BY <1>1, Busy DEF OpsAt, AdminOps
<1>4. a \in {"apply", "delete"}
  OBVIOUS
<1> HIDE DEF a
<1>5. HoldsOK(tx'[s]) /\ PlanOK(tx'[s]) /\ BuiltOK(tx'[s]) /\ StoredOK(tx'[s])
  BY <1>1, <1>2, <1>3, <1>4, MoveFields
  DEF Local, HoldsOK, PlanOK, BuiltOK, StoredOK, Reconciling
<1> QED
  BY <1>1, <1>2, <1>3, <1>4, <1>5, MoveStep DEF Phases

LEMMA LockCatalogKeeps ==
    ASSUME IInv, NEW s \in Sessions, LockCatalog(s)
    PROVE  IInv'
<1> DEFINE c == tx[s].call.catalog
           found == rows[c] # Nil /\ rows[c].class = conf[c].class
<1>1. CASE End(s)
  BY <1>1, QuietEnd DEF LockCatalog
<1>2. CASE Becomes(s, [tx[s] EXCEPT !.at = "record", !.conf = conf[c], !.seen = found])
  <2>1. tx[s].at = "catalog" /\ tx[s].call.op \in RecordOps /\ tx[s].seen /\ Granted(s)
    BY DEF LockCatalog, At
  <2>2. tx[s] \in Transactions /\ tx[s].call \in Calls /\ Local(tx[s])
    BY <2>1, Busy
  <2>3. conf[c] \in Configs
    BY <2>1, <2>2, CallKinds DEF Local, SeenOK, IInv, TypeOK
  <2>4. Wants(s) \in SUBSET [on : Objects, mode : DOMAIN Conflicts]
    BY WantsTyped, <2>2 DEF IInv, Local
  <2>5. tx[s].call.op \in OpsAt["record"] /\ found \in BOOLEAN
    BY <2>1 DEF OpsAt
  <2> HIDE DEF c, found
  <2>6. tx'[s] = [tx[s] EXCEPT !.at = "record", !.conf = conf[c], !.seen = found,
                               !.locks = tx[s].locks \cup Wants(s)]
    BY <1>2, <2>2 DEF Becomes, IInv, TypeOK, Transactions
  <2>7. tx'[s] \in Transactions
    BY <2>2, <2>3, <2>4, <2>5, <2>6 DEF Transactions, Phases
  <2>8. tx'[s].at = "record" /\ tx'[s].call = tx[s].call /\ tx'[s].conf = conf[c]
    BY <2>2, <2>6 DEF Transactions
  <2>9. Local(tx'[s])
    BY <2>1, <2>2, <2>3, <2>5, <2>8 DEF Local, PhaseOK, HoldsOK, PlanOK, BuiltOK, StoredOK,
       SeenOK, Reconciling
  <2> QED
    BY <1>2, <2>1, <2>7, <2>9, QuietStep DEF LockCatalog
<1> QED
  BY <1>1, <1>2 DEF LockCatalog

LEMMA LockRecordKeeps ==
    ASSUME IInv, NEW s \in Sessions, LockRecord(s)
    PROVE  IInv'
<1>1. CASE End(s)
  BY <1>1, QuietEnd DEF LockRecord
<1>2. CASE Becomes(s, [tx[s] EXCEPT !.at = "write"])
  <2>1. tx[s].at = "record" /\ Granted(s)
    BY DEF LockRecord
  <2>2. tx[s].call.op \in OpsAt["write"] /\ tx[s].conf \in Configs
    BY <2>1, Busy DEF OpsAt, Local, PhaseOK
  <2>3. HoldsOK(tx'[s]) /\ PlanOK(tx'[s]) /\ BuiltOK(tx'[s]) /\ StoredOK(tx'[s])
    <3>1. tx'[s].at = "write"
      BY <1>2, MoveFields
    <3> QED
      BY <3>1, Unplanned DEF Reconciling
  <2> QED
    BY <1>2, <2>1, <2>2, <2>3, MoveStep DEF LockRecord, Phases
<1> QED
  BY <1>1, <1>2 DEF LockRecord

\* INSERT or UPDATE is granted its table lock and fails in no index.
LEMMA WriteKeeps ==
    ASSUME IInv, NEW s \in Sessions, Write(s)
    PROVE  IInv'
<1>1. CASE End(s)
  BY <1>1, QuietEnd DEF Write
<1>2. CASE ~ IndexFails(s) /\ Becomes(s, [tx[s] EXCEPT !.at = "stored"])
  <2>1. tx[s].at = "write" /\ tx[s].call.op = "put" /\ Granted(s)
    BY DEF Write, At
  <2>2. tx[s].call.op \in OpsAt["stored"] /\ tx[s].conf \in Configs
    BY <2>1, Busy DEF OpsAt, Local, PhaseOK
  <2>3. LockOn(Table(tx[s].conf.class), "rowExclusive") \in tx'[s].locks
    BY <1>2, <2>1, MoveFields DEF Wants
  <2>4. HoldsOK(tx'[s]) /\ PlanOK(tx'[s]) /\ BuiltOK(tx'[s])
    BY <1>2, <2>3, MoveFields DEF HoldsOK, PlanOK, BuiltOK, Reconciling
  <2>5. StoredOK(tx'[s])
    BY <1>2, <2>1, MoveFields DEF StoredOK, IndexFails, At
  <2> QED
    BY <1>2, <2>1, <2>2, <2>4, <2>5, MoveStep DEF Write, Phases
<1> QED
  BY <1>1, <1>2 DEF Write

LEMMA RemoveKeeps ==
    ASSUME IInv, NEW s \in Sessions, Remove(s)
    PROVE  IInv'
<1> DEFINE a == IF tx[s].at = "write" THEN "unlink" ELSE "stored"
<1>1. /\ tx[s].at \in {"write", "unlink"}
      /\ tx[s].at = "write" => tx[s].call.op = "remove"
      /\ Granted(s) /\ UNCHANGED <<database, budget>>
  BY DEF Remove, At
<1>2. Becomes(s, [tx[s] EXCEPT !.at = a])
  BY DEF Remove
<1>3. tx[s].call.op = "remove" /\ tx[s].call.op \in OpsAt[a] /\ tx[s].conf \in Configs
  BY <1>1, Busy DEF OpsAt, RecordOps, Local, PhaseOK
<1>4. a \in {"unlink", "stored"}
  OBVIOUS
<1> HIDE DEF a
<1>5. HoldsOK(tx'[s]) /\ PlanOK(tx'[s]) /\ BuiltOK(tx'[s]) /\ StoredOK(tx'[s])
  BY <1>2, <1>3, <1>4, MoveFields DEF HoldsOK, PlanOK, BuiltOK, StoredOK, Reconciling
<1> QED
  BY <1>1, <1>2, <1>3, <1>4, <1>5, MoveStep DEF Phases

LEMMA SearchKeeps ==
    ASSUME IInv, NEW s \in Sessions, SearchStep(s)
    PROVE  IInv'
<1>1. CASE SearchCatalog(s)
  <2> DEFINE c == tx[s].call.catalog
  <2>1. CASE End(s)
    BY <1>1, <2>1, QuietEnd DEF SearchCatalog
  <2>2. CASE conf[c] # Nil /\ Becomes(s, [tx[s] EXCEPT !.at = "read", !.conf = conf[c]])
    <3>1. tx[s].at = "catalog" /\ tx[s].call.op = "search"
      BY <1>1 DEF SearchCatalog, At
    <3>2. tx[s] \in Transactions /\ tx[s].call \in Calls /\ Local(tx[s])
      BY <3>1, Busy
    <3>3. conf[c] \in Configs
      BY <2>2, <3>2, CallKinds DEF IInv, TypeOK
    <3>4. Wants(s) = {} /\ Granted(s)
      BY <3>1 DEF Wants, Granted, Blockers
    <3>5. tx[s].call.op \in OpsAt["read"]
      BY <3>1 DEF OpsAt
    <3> HIDE DEF c
    <3>6. tx'[s] = [tx[s] EXCEPT !.at = "read", !.conf = conf[c], !.locks = tx[s].locks]
      BY <2>2, <3>2, <3>4 DEF Becomes, IInv, TypeOK, Transactions
    <3>7. tx'[s] \in Transactions
      BY <3>2, <3>3, <3>6 DEF Transactions, Phases
    <3>8. tx'[s].at = "read" /\ tx'[s].call = tx[s].call /\ tx'[s].conf = conf[c]
      BY <3>2, <3>6 DEF Transactions
    <3>9. Local(tx'[s])
      BY <3>2, <3>3, <3>5, <3>8 DEF Local, PhaseOK, HoldsOK, PlanOK, BuiltOK, StoredOK,
         SeenOK, Reconciling
    <3> QED
      BY <1>1, <2>2, <3>4, <3>7, <3>9, QuietStep DEF SearchCatalog
  <2> QED
    BY <1>1, <2>1, <2>2 DEF SearchCatalog
<1>2. CASE SearchTable(s)
  <2>1. tx[s].at = "read" /\ Granted(s)
    BY <1>2 DEF SearchTable
  <2>2. tx[s].call.op \in OpsAt["answer"]
    BY <2>1, Busy DEF OpsAt
  <2>3. HoldsOK(tx'[s]) /\ PlanOK(tx'[s]) /\ BuiltOK(tx'[s]) /\ StoredOK(tx'[s])
    <3>1. tx'[s].at = "answer"
      BY <1>2, MoveFields DEF SearchTable
    <3> QED
      BY <3>1, Unplanned DEF Reconciling
  <2> QED
    BY <1>2, <2>1, <2>2, <2>3, MoveStep DEF SearchTable, Phases
<1>3. CASE EndSearch(s)
  BY <1>3, QuietEnd DEF EndSearch
<1> QED
  BY <1>1, <1>2, <1>3 DEF SearchStep

-----------------------------------------------------------------------------
(* The commits.                                                            *)

\* Only one session at a time is between the advisory lock and its commit.
LEMMA OneReconciles ==
    ASSUME IInv, NEW s \in Sessions, NEW r \in Sessions, s # r,
           tx[s].at \in Reconciling
    PROVE  tx[r].at \notin Reconciling
<1> SUFFICES ASSUME tx[r].at \in Reconciling PROVE FALSE
  OBVIOUS
<1>1. Mutex \in tx[s].locks /\ Mutex \in tx[r].locks
  BY DEF IInv, Local, HoldsOK
<1>2. Mutex.mode \in Conflicts[Mutex.mode]
  BY DEF Mutex, LockOn, Conflicts
<1> QED
  BY <1>1, <1>2 DEF IInv, LocksCompatible

\* CREATE INDEX excludes the writers of its table.
LEMMA BuildExcludesWriters ==
    ASSUME IInv, NEW s \in Sessions, NEW r \in Sessions,
           tx[s].at \in {"drop", "apply"}, NEW i \in tx[s].make,
           tx[r].at = "stored", tx[r].call.op = "put"
    PROVE  i.class # tx[r].conf.class
<1> DEFINE build == LockOn(Table(tx[s].call.conf.class), "shareTable")
           write == LockOn(Table(tx[r].conf.class), "rowExclusive")
<1>1. build \in tx[s].locks /\ write \in tx[r].locks
  BY DEF IInv, Local, HoldsOK
<1>2. s # r
  OBVIOUS
<1>3. build.on # write.on
  <2>1. build.on = Table(tx[s].call.conf.class) /\ build.mode = "shareTable"
    BY DEF LockOn
  <2>2. write.on = Table(tx[r].conf.class) /\ write.mode = "rowExclusive"
    BY DEF LockOn
  <2>3. "rowExclusive" \in Conflicts["shareTable"]
    BY DEF Conflicts
  <2> QED
    BY <1>1, <1>2, <2>1, <2>2, <2>3 DEF IInv, LocksCompatible
<1>4. i \in WantedBy(tx[s].call) /\ tx[s].call \in Calls
  BY DEF IInv, Local, PlanOK, PhaseOK, Reconciling
<1>5. i.class = tx[s].call.conf.class
  BY <1>4, WantedIndexes DEF WantedBy
<1> QED
  BY <1>3, <1>5 DEF LockOn, Table

\* Nothing is asked of a transaction that has ended.
LEMMA EndedLocal ==
    ASSUME NEW s \in Sessions, tx'[s] = Fresh
    PROVE  Local(tx[s])'
BY FreshOK DEF Local, PhaseOK, HoldsOK, PlanOK, BuiltOK, StoredOK, SeenOK, Reconciling

\* Reconciling catalog c leaves the indexes that some catalog is bound to.
LEMMA ReconciledIndexes ==
    ASSUME NEW c \in Catalogs, IndexesAreTheBound, bound \in [Catalogs -> SUBSET Bindings],
           NEW new, NEW wanted, wanted = IndexesOf(new),
           bound' = [bound EXCEPT ![c] = new],
           NEW unbind, unbind = IndexesOf(bound[c]) \ wanted,
           physical' = (physical \cup (wanted \ physical)) \ Unreferenced(c, unbind)
    PROVE  IndexesAreTheBound'
<1> DEFINE I(o) == IndexesOf(bound[o])
           J(o) == IndexesOf(bound'[o])
<1>1. J(c) = wanted /\ \A o \in Catalogs \ {c} : J(o) = I(o)
  OBVIOUS
<1>2. \A i : i \in physical <=> \E o \in Catalogs : i \in I(o)
  BY DEF IndexesAreTheBound
<1>3. \A i : i \in Unreferenced(c, unbind) <=>
          i \in I(c) /\ i \notin wanted /\ \A o \in Catalogs \ {c} : i \notin I(o)
  BY DEF Unreferenced
<1> HIDE DEF I, J
<1>4. \A i : i \in physical' <=> \E o \in Catalogs : i \in J(o)
  <2> SUFFICES ASSUME NEW i
               PROVE  i \in physical' <=> \E o \in Catalogs : i \in J(o)
    OBVIOUS
  <2>1. CASE i \in wanted
    BY <2>1, <1>1, <1>3
  <2>2. CASE i \notin wanted
    <3>1. i \in physical' <=> i \in physical /\ i \notin Unreferenced(c, unbind)
      BY <2>2
    <3>2. i \in physical' <=> \E o \in Catalogs \ {c} : i \in I(o)
      BY <3>1, <1>2, <1>3, <2>2
    <3> QED
      BY <3>2, <2>2, <1>1
  <2> QED
    BY <2>1, <2>2
<1>5. physical' = UNION {J(o) : o \in Catalogs}
  BY <1>4
<1> QED
  BY <1>5 DEF IndexesAreTheBound, J

\* COMMIT of ApplyCatalog.
LEMMA CommitApplyKeeps ==
    ASSUME IInv, NEW s \in Sessions, CommitApply(s)
    PROVE  IInv'
<1> DEFINE call == tx[s].call
           c == call.catalog
           new == Desired(call.conf)
<1>1. tx[s].at = "apply" /\ rows' = rows /\ budget' = budget /\ End(s)
  BY DEF CommitApply
<1>2. tx[s] \in Transactions /\ call \in Calls /\ call.op = "apply" /\ Local(tx[s])
  BY <1>1, Busy DEF OpsAt
<1>3. c \in Catalogs /\ call.conf \in Configs /\ call.conf # Nil
  BY <1>2, CallKinds, NilAssumption
<1>4. /\ tx[s].make = IndexesOf(new) \ physical
      /\ tx[s].unbind = IndexesOf(bound[c]) \ IndexesOf(new)
      /\ tx[s].drop = Unreferenced(c, tx[s].unbind)
  BY <1>1, <1>2 DEF Local, PlanOK, Reconciling, WantedBy
<1>5. /\ tx'[s] = Fresh
      /\ \A r \in Sessions \ {s} : tx'[r] = tx[r]
  BY <1>1 DEF End, IInv, TypeOK
<1>6. new \in SUBSET Bindings
  BY <1>3, DesiredIndexes
<1>7. /\ conf' = [conf EXCEPT ![c] = call.conf]
      /\ physical' = (physical \cup (IndexesOf(new) \ physical))
                        \ Unreferenced(c, tx[s].unbind)
  BY <1>4 DEF CommitApply
<1>8. bound' = [bound EXCEPT ![c] = new]
  <2>1. Rebound(bound[c], tx[s].unbind, new) = new
    BY <1>4, ReboundExactly
  <2> QED
    BY <2>1, <1>3 DEF CommitApply, IInv, TypeOK
<1>9. physical' \subseteq physical \cup tx[s].make
  BY <1>4, <1>7
<1>10. \A i : Failing(i)' = Failing(i)
  BY <1>1 DEF Failing
<1>11. TypeOK'
  <2>1. tx' \in [Sessions -> Transactions]
    BY <1>1, FreshOK DEF End, IInv, TypeOK
  <2>2. physical' \in SUBSET Indexes
    BY <1>2, <1>9 DEF Transactions, IInv, TypeOK
  <2>3. conf' \in [Catalogs -> Configs \cup {Nil}]
    BY <1>3, <1>7 DEF IInv, TypeOK
  <2>4. bound' \in [Catalogs -> SUBSET Bindings]
    BY <1>3, <1>6, <1>8 DEF IInv, TypeOK
  <2> QED
    BY <1>1, <2>1, <2>2, <2>3, <2>4 DEF IInv, TypeOK
<1>12. LocksCompatible'
  BY <1>5, FreshOK, EndCompatible DEF IInv
<1>13. BindingsAreDesired'
  BY <1>3, <1>7, <1>8 DEF BindingsAreDesired, IInv, TypeOK
<1>14. IndexesAreTheBound'
  BY <1>3, <1>4, <1>7, <1>8, ReconciledIndexes DEF IInv, TypeOK
<1>15. IndexesCoverRows'
  <2>1. \A i \in tx[s].make : Failing(i) = {}
    BY <1>1, <1>2 DEF Local, BuiltOK
  <2> QED
    BY <1>9, <1>10, <2>1 DEF IInv, IndexesCoverRows
<1>16. ASSUME NEW r \in Sessions PROVE Local(tx[r])'
  <2>1. CASE r = s
    BY <1>5, <2>1, EndedLocal
  <2>2. CASE r # s
    <3>1. tx'[r] = tx[r] /\ Local(tx[r])
      BY <1>5, <2>2 DEF IInv
    <3>2. tx[r].at \notin Reconciling
      BY <1>1, <2>2, OneReconciles DEF Reconciling
    <3>3. PhaseOK(tx[r])' /\ HoldsOK(tx[r])'
      BY <3>1 DEF Local, PhaseOK, HoldsOK
    <3>4. PlanOK(tx[r])' /\ BuiltOK(tx[r])'
      BY <3>1, <3>2 DEF PlanOK, BuiltOK, Reconciling
    <3>5. StoredOK(tx[r])'
      <4>1. SUFFICES ASSUME tx[r].at = "stored", tx[r].call.op = "put",
                            NEW i \in physical', i.class = tx[r].conf.class
                     PROVE  tx[r].call.doc \in Casts[i.def]
        BY <3>1 DEF StoredOK
      <4>2. i \notin tx[s].make
        BY <1>1, <4>1, BuildExcludesWriters
      <4> QED
        BY <1>9, <3>1, <4>1, <4>2 DEF Local, StoredOK
    <3>6. SeenOK(tx[r])'
      <4>1. SUFFICES ASSUME tx[r].at = "catalog", tx[r].seen
                     PROVE  conf'[tx[r].call.catalog] # Nil
        BY <3>1 DEF SeenOK
      <4>2. conf[tx[r].call.catalog] # Nil
        BY <3>1, <4>1 DEF Local, SeenOK
      <4>3. tx[r].call.catalog \in Catalogs
        BY <4>1, Busy, CallKinds
      <4> QED
        BY <1>3, <1>7, <4>2, <4>3 DEF IInv, TypeOK
    <3> QED
      BY <3>3, <3>4, <3>5, <3>6 DEF Local
  <2> QED
    BY <2>1, <2>2
<1> QED
  BY <1>11, <1>12, <1>13, <1>14, <1>15, <1>16 DEF IInv

\* A commit that deletes a row tells it to those who are after the row.
LEMMA EndDeletingFields ==
    ASSUME TypeOK, NEW s \in Sessions, NEW phase, EndDeleting(s, phase)
    PROVE  /\ tx' \in [Sessions -> Transactions]
           /\ tx'[s] = Fresh
           /\ \A r \in Sessions \ {s} :
                  /\ tx'[r] = tx[r] \/ tx'[r] = [tx[r] EXCEPT !.seen = FALSE]
                  /\ tx[r].at = phase /\ tx[r].call.catalog = tx[s].call.catalog
                       => tx'[r] = [tx[r] EXCEPT !.seen = FALSE]
<1>1. \A r \in Sessions : tx[r] \in Transactions
  BY DEF TypeOK
<1>2. \A r \in Sessions : [tx[r] EXCEPT !.seen = FALSE] \in Transactions
  BY <1>1 DEF Transactions
<1> QED
  BY <1>1, <1>2, FreshOK DEF EndDeleting

\* Only what a transaction has seen may change in it.
LEMMA UnseenFields ==
    ASSUME TypeOK, NEW r \in Sessions,
           tx'[r] = tx[r] \/ tx'[r] = [tx[r] EXCEPT !.seen = FALSE]
    PROVE  /\ tx'[r].at = tx[r].at /\ tx'[r].call = tx[r].call
           /\ tx'[r].conf = tx[r].conf /\ tx'[r].locks = tx[r].locks
           /\ tx'[r].make = tx[r].make /\ tx'[r].unbind = tx[r].unbind
           /\ tx'[r].drop = tx[r].drop
           /\ tx'[r].seen => tx[r].seen
<1>1. tx[r] \in Transactions
  BY DEF TypeOK
<1> QED
  BY <1>1 DEF Transactions

\* COMMIT of DeleteCatalog.
LEMMA CommitDeleteKeeps ==
    ASSUME IInv, NEW s \in Sessions, CommitDelete(s)
    PROVE  IInv'
<1> DEFINE call == tx[s].call
           c == call.catalog
<1>1. tx[s].at = "delete" /\ budget' = budget /\ EndDeleting(s, "catalog")
  BY DEF CommitDelete
<1>2. tx[s] \in Transactions /\ call \in Calls /\ call.op = "drop" /\ Local(tx[s])
  BY <1>1, Busy DEF OpsAt
<1>3. c \in Catalogs
  BY <1>2, CallKinds
<1>4. /\ tx[s].make = {} \ physical
      /\ tx[s].unbind = IndexesOf(bound[c]) \ {}
      /\ tx[s].drop = Unreferenced(c, tx[s].unbind)
  BY <1>1, <1>2 DEF Local, PlanOK, Reconciling, WantedBy
<1>5. /\ tx' \in [Sessions -> Transactions]
      /\ tx'[s] = Fresh
      /\ \A r \in Sessions \ {s} :
             /\ tx'[r] = tx[r] \/ tx'[r] = [tx[r] EXCEPT !.seen = FALSE]
             /\ tx[r].at = "catalog" /\ tx[r].call.catalog = c
                  => tx'[r] = [tx[r] EXCEPT !.seen = FALSE]
  BY <1>1, EndDeletingFields DEF IInv
<1>6. /\ conf' = [conf EXCEPT ![c] = Nil]
      /\ rows' = [rows EXCEPT ![c] = Nil]
      /\ bound' = [bound EXCEPT ![c] = {}]
      /\ physical' = physical \ tx[s].drop
  BY DEF CommitDelete
<1>7. \A i : Failing(i)' \subseteq Failing(i)
  BY <1>3, <1>6 DEF Failing, IInv, TypeOK
<1>8. TypeOK'
  BY <1>1, <1>3, <1>5, <1>6 DEF IInv, TypeOK
<1>9. LocksCompatible'
  <2>1. \A r \in Sessions \ {s} : tx'[r].locks = tx[r].locks
    BY <1>5, UnseenFields DEF IInv
  <2> QED
    BY <1>5, <2>1, FreshOK, EndCompatible DEF IInv
<1>10. BindingsAreDesired'
  BY <1>3, <1>6 DEF BindingsAreDesired, IInv, TypeOK
<1>11. IndexesAreTheBound'
  <2>1. IndexesOf({}) = {}
    BY DEF IndexesOf
  <2>2. physical' = (physical \cup ({} \ physical)) \ Unreferenced(c, tx[s].unbind)
    BY <1>4, <1>6
  <2> QED
    BY <1>3, <1>4, <1>6, <2>1, <2>2, ReconciledIndexes DEF IInv, TypeOK
<1>12. IndexesCoverRows'
  BY <1>6, <1>7 DEF IInv, IndexesCoverRows
<1>13. ASSUME NEW r \in Sessions PROVE Local(tx[r])'
  <2>1. CASE r = s
    BY <1>5, <2>1, EndedLocal
  <2>2. CASE r # s
    <3>1. /\ tx'[r].at = tx[r].at /\ tx'[r].call = tx[r].call
          /\ tx'[r].conf = tx[r].conf /\ tx'[r].locks = tx[r].locks
          /\ tx'[r].make = tx[r].make
          /\ tx'[r].seen => tx[r].seen
      BY <1>5, <2>2, UnseenFields DEF IInv
    <3>2. tx[r].at \notin Reconciling /\ Local(tx[r])
      BY <1>1, <2>2, OneReconciles DEF Reconciling, IInv
    <3>3. PhaseOK(tx[r])' /\ HoldsOK(tx[r])'
      BY <3>1, <3>2 DEF Local, PhaseOK, HoldsOK
    <3>4. PlanOK(tx[r])' /\ BuiltOK(tx[r])'
      BY <3>1, <3>2 DEF PlanOK, BuiltOK, Reconciling
    <3>5. StoredOK(tx[r])'
      BY <1>6, <3>1, <3>2 DEF Local, StoredOK
    <3>6. SeenOK(tx[r])'
      <4>1. SUFFICES ASSUME tx[r].at = "catalog", tx'[r].seen
                     PROVE  conf'[tx[r].call.catalog] # Nil
        BY <3>1 DEF SeenOK
      <4>2. conf[tx[r].call.catalog] # Nil
        BY <3>1, <3>2, <4>1 DEF Local, SeenOK
      <4>3. tx[r].call.catalog # c
        <5>1. tx[r] \in Transactions
          BY DEF IInv, TypeOK
        <5>2. [tx[r] EXCEPT !.seen = FALSE].seen = FALSE
          BY <5>1 DEF Transactions
        <5> QED
          BY <1>5, <2>2, <4>1, <5>2
      <4> QED
        BY <1>3, <1>6, <4>2, <4>3 DEF IInv, TypeOK
    <3> QED
      BY <3>3, <3>4, <3>5, <3>6 DEF Local
  <2> QED
    BY <2>1, <2>2
<1> QED
  BY <1>8, <1>9, <1>10, <1>11, <1>12, <1>13 DEF IInv

\* A commit that changes the rows only, in such a way that the indexes that
\* exist, and those that are being built, still cover them.
LEMMA RowsChange ==
    ASSUME IInv, NEW s \in Sessions,
           UNCHANGED <<conf, bound, physical, budget>>,
           rows' \in [Catalogs -> Rows \cup {Nil}],
           tx' \in [Sessions -> Transactions], tx'[s] = Fresh,
           \A r \in Sessions \ {s} :
               tx'[r] = tx[r] \/ tx'[r] = [tx[r] EXCEPT !.seen = FALSE],
           \A i \in physical : Failing(i)' = {},
           \A r \in Sessions \ {s} : tx[r].at \in {"drop", "apply"} =>
               \A i \in tx[r].make : Failing(i)' = {}
    PROVE  IInv'
<1>1. TypeOK'
  BY DEF IInv, TypeOK
<1>2. LocksCompatible'
  <2>1. \A r \in Sessions \ {s} : tx'[r].locks = tx[r].locks
    BY UnseenFields DEF IInv
  <2> QED
    BY <2>1, FreshOK, EndCompatible DEF IInv
<1>3. BindingsAreDesired' /\ IndexesAreTheBound' /\ IndexesCoverRows'
  BY DEF IInv, BindingsAreDesired, IndexesAreTheBound, IndexesCoverRows
<1>4. ASSUME NEW r \in Sessions PROVE Local(tx[r])'
  <2>1. CASE r = s
    BY <2>1, EndedLocal
  <2>2. CASE r # s
    <3>1. /\ tx'[r].at = tx[r].at /\ tx'[r].call = tx[r].call
          /\ tx'[r].conf = tx[r].conf /\ tx'[r].locks = tx[r].locks
          /\ tx'[r].make = tx[r].make /\ tx'[r].unbind = tx[r].unbind
          /\ tx'[r].drop = tx[r].drop
          /\ tx'[r].seen => tx[r].seen
      BY <2>2, UnseenFields DEF IInv
    <3>2. Local(tx[r])
      BY DEF IInv
    <3>3. PhaseOK(tx[r])' /\ HoldsOK(tx[r])'
      BY <3>1, <3>2 DEF Local, PhaseOK, HoldsOK
    <3>4. PlanOK(tx[r])'
      BY <3>1, <3>2 DEF Local, PlanOK, Unreferenced
    <3>5. BuiltOK(tx[r])'
      BY <2>2, <3>1 DEF BuiltOK
    <3>6. StoredOK(tx[r])' /\ SeenOK(tx[r])'
      BY <3>1, <3>2 DEF Local, StoredOK, SeenOK
    <3> QED
      BY <3>3, <3>4, <3>5, <3>6 DEF Local
  <2> QED
    BY <2>1, <2>2
<1> QED
  BY <1>1, <1>2, <1>3, <1>4 DEF IInv

\* COMMIT of PutRecord or DeleteRecord.
LEMMA CommitRecordKeeps ==
    ASSUME IInv, NEW s \in Sessions, CommitRecord(s)
    PROVE  IInv'
<1> DEFINE call == tx[s].call
           c == call.catalog
<1>1. tx[s].at = "stored" /\ UNCHANGED <<conf, bound, physical, budget>>
  BY DEF CommitRecord
<1>2. tx[s] \in Transactions /\ call \in Calls /\ Local(tx[s])
  BY <1>1, Busy
<1>3. c \in Catalogs
  BY <1>2, CallKinds
<1>4. CASE /\ call.op = "put"
           /\ rows' = [rows EXCEPT ![c] = [class |-> tx[s].conf.class, doc |-> call.doc]]
           /\ End(s)
  <2>1. tx[s].conf \in Configs /\ call.doc \in Docs
    BY <1>1, <1>2, <1>4, CallKinds DEF Local, PhaseOK
  <2>2. rows' \in [Catalogs -> Rows \cup {Nil}]
    BY <1>3, <1>4, <2>1 DEF Configs, Rows, IInv, TypeOK
  <2>3. /\ tx' \in [Sessions -> Transactions]
        /\ tx'[s] = Fresh
        /\ \A r \in Sessions \ {s} : tx'[r] = tx[r]
    BY <1>4, FreshOK DEF End, IInv, TypeOK
  <2>4. ASSUME NEW i, Failing(i) = {},
               i.class = tx[s].conf.class => call.doc \in Casts[i.def]
        PROVE  Failing(i)' = {}
    <3>1. SUFFICES ASSUME NEW o \in Failing(i)' PROVE FALSE
      OBVIOUS
    <3>2. CASE o = c
      BY <1>3, <1>4, <2>4, <3>1, <3>2 DEF Failing, IInv, TypeOK
    <3>3. CASE o # c
      BY <1>3, <1>4, <2>4, <3>1, <3>3 DEF Failing, IInv, TypeOK
    <3> QED
      BY <3>2, <3>3
  <2>5. \A i \in physical : Failing(i)' = {}
    BY <1>1, <1>2, <1>4, <2>4 DEF IInv, IndexesCoverRows, Local, StoredOK
  <2>6. ASSUME NEW r \in Sessions \ {s}, tx[r].at \in {"drop", "apply"}, NEW i \in tx[r].make
        PROVE  Failing(i)' = {}
    <3>1. Failing(i) = {}
      BY <2>6 DEF IInv, Local, BuiltOK
    <3>2. i.class # tx[s].conf.class
      BY <1>1, <1>4, <2>6, BuildExcludesWriters
    <3> QED
      BY <2>4, <3>1, <3>2
  <2> QED
    BY <1>1, <2>2, <2>3, <2>5, <2>6, RowsChange
<1>5. CASE /\ call.op = "remove"
           /\ rows' = [rows EXCEPT ![c] = Nil]
           /\ EndDeleting(s, "record")
  <2>1. \A i : Failing(i)' \subseteq Failing(i)
    BY <1>3, <1>5 DEF Failing, IInv, TypeOK
  <2>2. rows' \in [Catalogs -> Rows \cup {Nil}]
    BY <1>3, <1>5 DEF IInv, TypeOK
  <2>3. \A i \in physical : Failing(i)' = {}
    BY <2>1 DEF IInv, IndexesCoverRows
  <2>4. \A r \in Sessions \ {s} : tx[r].at \in {"drop", "apply"} =>
            \A i \in tx[r].make : Failing(i)' = {}
    BY <2>1 DEF IInv, Local, BuiltOK
  <2>5. /\ tx' \in [Sessions -> Transactions]
        /\ tx'[s] = Fresh
        /\ \A r \in Sessions \ {s} :
               tx'[r] = tx[r] \/ tx'[r] = [tx[r] EXCEPT !.seen = FALSE]
    BY <1>5, EndDeletingFields DEF IInv
  <2> QED
    BY <1>1, <2>2, <2>3, <2>4, <2>5, RowsChange
<1> QED
  BY <1>4, <1>5 DEF CommitRecord

\* The tables are empty at first, and nobody holds a lock.
LEMMA InitOK == Init => IInv
<1> SUFFICES ASSUME Init PROVE IInv
  OBVIOUS
<1>1. TypeOK
  BY FreshOK, BudgetAssumption DEF Init, TypeOK
<1>2. \A s \in Sessions : tx[s] = Fresh
  BY DEF Init
<1>3. \A s \in Sessions : Local(tx[s])
  BY <1>2, FreshOK DEF Local, PhaseOK, HoldsOK, PlanOK, BuiltOK, StoredOK, SeenOK, Reconciling
<1>4. LocksCompatible
  BY <1>2, FreshOK DEF LocksCompatible
<1>5. BindingsAreDesired
  BY DEF Init, BindingsAreDesired
<1>6. IndexesAreTheBound
  BY DEF Init, IndexesAreTheBound, IndexesOf
<1>7. IndexesCoverRows
  BY DEF Init, IndexesCoverRows
<1> QED
  BY <1>1, <1>3, <1>4, <1>5, <1>6, <1>7 DEF IInv

\* Every step keeps the inductive invariant.
LEMMA NextKeeps == IInv /\ [Next]_vars => IInv'
<1> SUFFICES ASSUME IInv, [Next]_vars PROVE IInv'
  OBVIOUS
<1>1. CASE UNCHANGED vars
  BY <1>1 DEF vars, IInv, TypeOK, Local, PhaseOK, HoldsOK, PlanOK, BuiltOK, StoredOK, SeenOK,
     LocksCompatible, BindingsAreDesired, IndexesAreTheBound, IndexesCoverRows, Failing,
     Unreferenced
<1>2. ASSUME NEW s \in Sessions, Step(s) PROVE IInv'
  <2>1. CASE AdminStep(s)
    BY <2>1, SelectNoCatalogKeeps, SelectCatalogKeeps, CheckDocumentsKeeps, UpsertKeeps,
       SelectDoomedKeeps, PurgeKeeps, LockIndexesKeeps, CreateIndexesKeeps, DropIndexesKeeps,
       CommitApplyKeeps, CommitDeleteKeeps
    DEF AdminStep
  <2>2. CASE RecordStep(s)
    BY <2>2, CatalogMissingKeeps, LockCatalogKeeps, LockRecordKeeps, WriteKeeps, RemoveKeeps,
       CommitRecordKeeps
    DEF RecordStep
  <2>3. CASE SearchStep(s)
    BY <2>3, SearchKeeps
  <2> QED
    BY <1>2, <2>1, <2>2, <2>3 DEF Step
<1>3. ASSUME NEW s \in Sessions, Call(s) PROVE IInv'
  BY <1>3, CallKeeps
<1>4. ASSUME NEW s \in Sessions, Abort(s) \/ DetectDeadlock(s) PROVE IInv'
  BY <1>4, QuietEnd DEF Abort, DetectDeadlock
<1> QED
  BY <1>1, <1>2, <1>3, <1>4 DEF Next, Done

-----------------------------------------------------------------------------
(* The theorems.                                                           *)

\* Locks never conflict, and what every transaction has planned, built or
\* written under its locks still holds when it commits, whatever the calls of
\* the other sessions in indexes.go and store.go.
THEOREM Invariant == Spec => []IInv
BY InitOK, NextKeeps, PTL DEF Spec

\* The types of the tables and of the transactions in progress.
THEOREM TypesCorrect == Spec => []TypeOK
BY Invariant, PTL DEF IInv

\* The bindings that reconcileCatalogIndexes and removeCatalogIndexes leave
\* are those that the configuration of each catalog asks for.
THEOREM BindingsFollow == Spec => []BindingsAreDesired
BY Invariant, PTL DEF IInv

\* An index exists exactly while some catalog is bound to it: none is lost
\* and none is left over by reconciliations at the same time.
THEOREM IndexesFollow == Spec => []IndexesAreTheBound
BY Invariant, PTL DEF IInv

\* No index exists with a row in its table on which it cannot be evaluated,
\* although rows are written while indexes are built.
THEOREM IndexesSound == Spec => []IndexesCoverRows
BY Invariant, PTL DEF IInv

-----------------------------------------------------------------------------
(* Deadlocks.  What a session without the advisory lock holds is so little *)
(* that no two of them can wait for each other.                            *)

Reading == {"accessShare", "rowShare", "rowExclusive"}

\* The locks of a transaction that has not come to the advisory lock.
Shaped(t) ==
    Mutex \notin t.locks =>
        /\ t.at \in {"idle", "catalog"} => t.locks = {}
        /\ \A l \in t.locks :
               \/ /\ l.on = CatalogRow(t.call.catalog)
                  /\ \/ l.mode = "update" /\ t.call.op \in AdminOps
                     \/ l.mode = "noKeyUpdate" /\ t.at = "mutex"
                     \/ l.mode = "keyShare" /\ t.call.op \in RecordOps
               \/ /\ l.on = RecordRow(t.call.catalog)
                  /\ l.mode = "update" /\ t.at \in {"write", "unlink", "stored"}
               \/ l.mode \in Reading

LocksFollow == \A s \in Sessions : Shaped(tx[s])

\* What the statement of each phase waits for.
LEMMA WantsOf ==
    ASSUME NEW s \in Sessions
    PROVE  /\ tx[s].at \in {"idle", "apply", "delete", "stored", "answer"} => Wants(s) = {}
           /\ tx[s].at = "catalog" =>
                  Wants(s) \subseteq {LockOn(CatalogRow(tx[s].call.catalog), RowLock(tx[s].call.op))}
           /\ tx[s].at = "catalog" /\ tx[s].call.op = "search" => Wants(s) = {}
           /\ tx[s].at = "upsert" =>
                  Wants(s) = {LockOn(CatalogRow(tx[s].call.catalog), "noKeyUpdate")}
           /\ tx[s].at = "mutex" => Wants(s) = MutexLocks
           /\ tx[s].at \in {"check", "purge", "purgeKeys", "unlink", "read"} =>
                  \A l \in Wants(s) : l.mode \in Reading
           /\ tx[s].at \in {"record", "write"} =>
                  \A l \in Wants(s) : \/ l = LockOn(RecordRow(tx[s].call.catalog), "update")
                                      \/ l.mode \in Reading
<1>1. CASE tx[s].at \in {"idle", "apply", "delete", "stored", "answer"}
  BY <1>1 DEF Wants
<1>2. CASE tx[s].at = "catalog"
  BY <1>2 DEF Wants
<1>3. CASE tx[s].at = "upsert"
  BY <1>3 DEF Wants
<1>4. CASE tx[s].at = "mutex"
  BY <1>4 DEF Wants
<1>5. CASE tx[s].at \in {"check", "purge", "purgeKeys", "unlink", "read"}
  BY <1>5 DEF Wants, LockOn, Reading
<1>6. CASE tx[s].at \in {"record", "write"}
  BY <1>6 DEF Wants, LockOn, Reading
<1> QED
  BY <1>1, <1>2, <1>3, <1>4, <1>5, <1>6

\* A step ends the transaction, or adds what its statement locks and goes on to
\* one of the phases that follow.
LEMMA StepMoves ==
    ASSUME IInv, NEW s \in Sessions, Step(s)
    PROVE  /\ \A r \in Sessions \ {s} : /\ tx'[r].at = tx[r].at /\ tx'[r].call = tx[r].call
                                        /\ tx'[r].locks = tx[r].locks
           /\ \/ tx'[s] = Fresh
              \/ /\ tx'[s].call = tx[s].call /\ tx'[s].locks = tx[s].locks \cup Wants(s)
                 /\ \/ /\ tx[s].at = "catalog" /\ tx[s].call.op \in AdminOps
                       /\ tx'[s].at \in {"upsert", "check", "purge", "mutex"}
                    \/ /\ tx[s].at = "catalog" /\ tx[s].call.op \in RecordOps
                       /\ tx'[s].at = "record"
                    \/ /\ tx[s].at = "catalog" /\ tx[s].call.op = "search"
                       /\ tx'[s].at = "read"
                    \/ /\ tx[s].at = "check" /\ tx'[s].at = "upsert"
                    \/ /\ tx[s].at = "upsert" /\ tx'[s].at = "mutex"
                    \/ /\ tx[s].at = "purge" /\ tx'[s].at = "purgeKeys"
                    \/ /\ tx[s].at = "purgeKeys" /\ tx'[s].at = "mutex"
                    \/ /\ tx[s].at \in {"mutex", "create", "drop"}
                       /\ tx'[s].at \in Reconciling
                    \/ /\ tx[s].at = "record" /\ tx'[s].at = "write"
                    \/ /\ tx[s].at = "write" /\ tx'[s].at \in {"unlink", "stored"}
                    \/ /\ tx[s].at = "unlink" /\ tx'[s].at = "stored"
                    \/ /\ tx[s].at = "read" /\ tx'[s].at = "answer"
<1>1. tx \in [Sessions -> Transactions]
  BY DEF IInv, TypeOK
<1>2. ASSUME End(s)
      PROVE  tx'[s] = Fresh /\ \A r \in Sessions \ {s} : tx'[r] = tx[r]
  BY <1>1, <1>2 DEF End
<1>3. ASSUME NEW phase, EndDeleting(s, phase)
      PROVE  /\ tx'[s] = Fresh
             /\ \A r \in Sessions \ {s} : /\ tx'[r].at = tx[r].at /\ tx'[r].call = tx[r].call
                                          /\ tx'[r].locks = tx[r].locks
  BY <1>3, EndDeletingFields, UnseenFields DEF IInv
<1>4. ASSUME NEW t, Becomes(s, t), {"at", "call", "locks"} \subseteq DOMAIN t
      PROVE  /\ tx'[s].at = t.at /\ tx'[s].call = t.call
             /\ tx'[s].locks = tx[s].locks \cup Wants(s)
             /\ \A r \in Sessions \ {s} : tx'[r] = tx[r]
  BY <1>1, <1>4 DEF Becomes
<1>5. ASSUME NEW a, Becomes(s, [tx[s] EXCEPT !.at = a])
      PROVE  /\ tx'[s].at = a /\ tx'[s].call = tx[s].call
             /\ tx'[s].locks = tx[s].locks \cup Wants(s)
             /\ \A r \in Sessions \ {s} : tx'[r] = tx[r]
  <2>1. tx[s] \in Transactions
    BY <1>1
  <2> QED
    BY <1>4, <1>5, <2>1 DEF Transactions
<1>6. CASE SelectNoCatalog(s)
  BY <1>5, <1>6 DEF SelectNoCatalog, At, AdminOps
<1>7. CASE SelectCatalog(s)
  <2> DEFINE old == conf[tx[s].call.catalog]
             a == IF old.shape = tx[s].call.conf.shape THEN "upsert" ELSE "check"
             t == [tx[s] EXCEPT !.at = a, !.conf = old]
  <2>1. tx[s].at = "catalog" /\ tx[s].call.op = "apply"
    BY <1>7 DEF SelectCatalog, At
  <2>2. t.at \in {"upsert", "check"} /\ t.call = tx[s].call /\ {"at", "call", "locks"} \subseteq DOMAIN t
    <3>1. tx[s] \in Transactions
      BY <1>1
    <3> QED
      BY <3>1 DEF Transactions
  <2>3. End(s) \/ Becomes(s, t)
    BY <1>7 DEF SelectCatalog
  <2> HIDE DEF t
  <2> QED
    BY <1>2, <1>4, <2>1, <2>2, <2>3 DEF AdminOps
<1>8. CASE CheckDocuments(s)
  BY <1>2, <1>5, <1>8 DEF CheckDocuments
<1>9. CASE Upsert(s)
  BY <1>5, <1>9 DEF Upsert
<1>10. CASE SelectDoomed(s)
  <2> DEFINE a == IF tx[s].call.cascade THEN "purge" ELSE "mutex"
  <2>1. tx[s].at = "catalog" /\ tx[s].call.op = "drop"
    BY <1>10 DEF SelectDoomed, At
  <2>2. End(s) \/ Becomes(s, [tx[s] EXCEPT !.at = a])
    BY <1>10 DEF SelectDoomed
  <2>3. a \in {"purge", "mutex"}
    OBVIOUS
  <2> HIDE DEF a
  <2> QED
    BY <1>2, <1>5, <2>1, <2>2, <2>3 DEF AdminOps
<1>11. CASE Purge(s)
  <2> DEFINE a == IF tx[s].at = "purge" THEN "purgeKeys" ELSE "mutex"
  <2>1. tx[s].at \in {"purge", "purgeKeys"} /\ Becomes(s, [tx[s] EXCEPT !.at = a])
    BY <1>1, <1>11 DEF Purge, Transactions
  <2>2. \/ tx[s].at = "purge" /\ a = "purgeKeys"
        \/ tx[s].at = "purgeKeys" /\ a = "mutex"
    BY <2>1
  <2> HIDE DEF a
  <2> QED
    BY <1>5, <2>1, <2>2
<1>12. CASE LockIndexes(s)
  <2> DEFINE call   == tx[s].call
             wanted == IF call.op = "apply" THEN IndexesOf(Desired(call.conf)) ELSE {}
             unbind == IndexesOf(bound[call.catalog]) \ wanted
             t == [tx[s] EXCEPT !.at = IF call.op = "apply" THEN "create" ELSE "drop",
                                !.make = wanted \ physical, !.unbind = unbind,
                                !.drop = Unreferenced(call.catalog, unbind)]
  <2>1. tx[s].at = "mutex" /\ Becomes(s, t)
    BY <1>12 DEF LockIndexes
  <2> HIDE DEF wanted, unbind
  <2>2. t.at \in Reconciling /\ t.call = tx[s].call /\ {"at", "call", "locks"} \subseteq DOMAIN t
    <3>1. tx[s] \in Transactions
      BY <1>1
    <3> QED
      BY <3>1 DEF Transactions, Reconciling
  <2> HIDE DEF t
  <2> QED
    BY <1>4, <2>1, <2>2
<1>13. CASE CreateIndexes(s)
  BY <1>2, <1>5, <1>13 DEF CreateIndexes, Reconciling
<1>14. CASE DropIndexes(s)
  <2> DEFINE a == IF tx[s].call.op = "apply" THEN "apply" ELSE "delete"
  <2>1. tx[s].at = "drop" /\ Becomes(s, [tx[s] EXCEPT !.at = a])
    BY <1>14 DEF DropIndexes
  <2>2. a \in Reconciling
    BY DEF Reconciling
  <2> HIDE DEF a
  <2> QED
    BY <1>5, <2>1, <2>2
<1>15. CASE CommitApply(s)
  BY <1>2, <1>15 DEF CommitApply
<1>16. CASE CommitDelete(s)
  BY <1>3, <1>16 DEF CommitDelete
<1>17. CASE CatalogMissing(s)
  BY <1>2, <1>17 DEF CatalogMissing
<1>18. CASE LockCatalog(s)
  <2> DEFINE cf == conf[tx[s].call.catalog]
             row == rows[tx[s].call.catalog]
             t == [tx[s] EXCEPT !.at = "record", !.conf = cf,
                                !.seen = row # Nil /\ row.class = cf.class]
  <2>1. tx[s].at = "catalog" /\ tx[s].call.op \in RecordOps
    BY <1>18 DEF LockCatalog, At
  <2>2. t.at = "record" /\ t.call = tx[s].call /\ {"at", "call", "locks"} \subseteq DOMAIN t
    <3>1. tx[s] \in Transactions
      BY <1>1
    <3> QED
      BY <3>1 DEF Transactions
  <2>3. End(s) \/ Becomes(s, t)
    BY <1>18 DEF LockCatalog
  <2> HIDE DEF t
  <2> QED
    BY <1>2, <1>4, <2>1, <2>2, <2>3
<1>19. CASE LockRecord(s)
  BY <1>2, <1>5, <1>19 DEF LockRecord
<1>20. CASE Write(s)
  BY <1>2, <1>5, <1>20 DEF Write, At
<1>21. CASE Remove(s)
  <2> DEFINE a == IF tx[s].at = "write" THEN "unlink" ELSE "stored"
  <2>1. tx[s].at \in {"write", "unlink"} /\ Becomes(s, [tx[s] EXCEPT !.at = a])
    BY <1>1, <1>21 DEF Remove, At, Transactions
  <2>2. \/ tx[s].at = "write" /\ a = "unlink"
        \/ tx[s].at = "unlink" /\ a = "stored"
    BY <2>1
  <2> HIDE DEF a
  <2> QED
    BY <1>5, <2>1, <2>2
<1>22. CASE CommitRecord(s)
  BY <1>2, <1>3, <1>22 DEF CommitRecord
<1>23. CASE SearchCatalog(s)
  <2> DEFINE cf == conf[tx[s].call.catalog]
             t == [tx[s] EXCEPT !.at = "read", !.conf = cf]
  <2>1. tx[s].at = "catalog" /\ tx[s].call.op = "search"
    BY <1>23 DEF SearchCatalog, At
  <2>2. t.at = "read" /\ t.call = tx[s].call /\ {"at", "call", "locks"} \subseteq DOMAIN t
    <3>1. tx[s] \in Transactions
      BY <1>1
    <3> QED
      BY <3>1 DEF Transactions
  <2>3. End(s) \/ Becomes(s, t)
    BY <1>23 DEF SearchCatalog
  <2> HIDE DEF t
  <2> QED
    BY <1>2, <1>4, <2>1, <2>2, <2>3
<1>24. CASE SearchTable(s)
  BY <1>5, <1>24 DEF SearchTable
<1>25. CASE EndSearch(s)
  BY <1>2, <1>25 DEF EndSearch
<1> QED
  BY <1>6, <1>7, <1>8, <1>9, <1>10, <1>11, <1>12, <1>13, <1>14, <1>15, <1>16, <1>17, <1>18,
     <1>19, <1>20, <1>21, <1>22, <1>23, <1>24, <1>25
  DEF Step, AdminStep, RecordStep, SearchStep

LEMMA StepFollows == ASSUME IInv, LocksFollow, NEW s \in Sessions, Step(s) PROVE LocksFollow'
<1>1. \A r \in Sessions \ {s} : Shaped(tx'[r])
  BY StepMoves DEF LocksFollow, Shaped
<1>2. CASE tx'[s] = Fresh
  <2>1. Shaped(tx'[s])
    BY <1>2, FreshOK DEF Shaped
  <2> QED
    BY <1>1, <2>1 DEF LocksFollow, Shaped
<1>3. CASE tx'[s] # Fresh
  <2> DEFINE t == tx[s]
             u == tx'[s]
  <2>1. u.call = t.call /\ u.locks = t.locks \cup Wants(s)
    BY <1>3, StepMoves
  <2>2. Shaped(t)
    BY DEF LocksFollow
  <2>3. t.call.op \in AllOps
    <3>1. t.at # "idle"
      BY <1>3, StepMoves DEF Reconciling
    <3> QED
      BY <3>1, Busy, CallKinds
  <2>4. CASE t.at \in {"mutex", "create", "drop"}
    <3>1. Mutex \in u.locks
      <4>1. t.at = "mutex" => Mutex \in Wants(s)
        BY WantsOf DEF MutexLocks, Mutex
      <4>2. t.at # "mutex" => Mutex \in t.locks
        BY <2>4 DEF IInv, Local, HoldsOK, Reconciling
      <4> QED
        BY <2>1, <4>1, <4>2
    <3>2. Shaped(u)
      BY <3>1 DEF Shaped
    <3> QED
      BY <1>1, <3>2 DEF LocksFollow, Shaped
  <2>5. CASE t.at \notin {"mutex", "create", "drop"}
    <3>1. SUFFICES Shaped(u)
      BY <1>1 DEF LocksFollow, Shaped
    <3>2. SUFFICES ASSUME Mutex \notin u.locks
                   PROVE  /\ u.at \notin {"idle", "catalog"}
                          /\ \A l \in u.locks :
                                 \/ /\ l.on = CatalogRow(u.call.catalog)
                                    /\ \/ l.mode = "update" /\ u.call.op \in AdminOps
                                       \/ l.mode = "noKeyUpdate" /\ u.at = "mutex"
                                       \/ l.mode = "keyShare" /\ u.call.op \in RecordOps
                                 \/ /\ l.on = RecordRow(u.call.catalog)
                                    /\ l.mode = "update" /\ u.at \in {"write", "unlink", "stored"}
                                 \/ l.mode \in Reading
      BY DEF Shaped
    <3>3. Mutex \notin t.locks
      BY <2>1, <3>2
    <3>4. /\ t.at \in {"idle", "catalog"} => t.locks = {}
          /\ \A l \in t.locks :
               \/ /\ l.on = CatalogRow(u.call.catalog)
                  /\ \/ l.mode = "update" /\ u.call.op \in AdminOps
                     \/ l.mode = "noKeyUpdate" /\ t.at = "mutex"
                     \/ l.mode = "keyShare" /\ u.call.op \in RecordOps
               \/ /\ l.on = RecordRow(u.call.catalog)
                  /\ l.mode = "update" /\ t.at \in {"write", "unlink", "stored"}
               \/ l.mode \in Reading
      BY <2>1, <2>2, <3>3 DEF Shaped
    <3> HIDE DEF u, t
    <3>5. ASSUME NEW l \in Wants(s)
          PROVE  \/ /\ l.on = CatalogRow(u.call.catalog)
                    /\ \/ l.mode = "update" /\ u.call.op \in AdminOps
                       \/ l.mode = "noKeyUpdate" /\ u.at = "mutex"
                       \/ l.mode = "keyShare" /\ u.call.op \in RecordOps
                 \/ /\ l.on = RecordRow(u.call.catalog)
                    /\ l.mode = "update" /\ u.at \in {"write", "unlink", "stored"}
                 \/ l.mode \in Reading
      <4>1. /\ t.at = "catalog" => l = LockOn(CatalogRow(t.call.catalog), RowLock(t.call.op))
            /\ t.at = "upsert" => l = LockOn(CatalogRow(t.call.catalog), "noKeyUpdate")
            /\ t.at \in {"check", "purge", "purgeKeys", "unlink", "read"} => l.mode \in Reading
            /\ t.at \in {"record", "write"} =>
                   l = LockOn(RecordRow(t.call.catalog), "update") \/ l.mode \in Reading
            /\ t.at \notin {"idle", "apply", "delete", "stored", "answer"}
            /\ t.at = "catalog" => t.call.op # "search"
        BY <3>5, WantsOf DEF t
      <4>2. /\ t.at = "upsert" => u.at = "mutex"
            /\ t.at \in {"record", "write"} => u.at \in {"write", "unlink", "stored"}
            /\ t.at = "catalog" => t.call.op \in AdminOps \/ t.call.op \in RecordOps \/ t.call.op = "search"
            /\ t.at \in {"catalog", "check", "upsert", "purge", "purgeKeys", "mutex", "create",
                         "drop", "record", "write", "unlink", "read"}
        BY <1>3, StepMoves DEF t, u
      <4>3. /\ t.call.op \in AdminOps => RowLock(t.call.op) = "update"
            /\ t.call.op \in RecordOps => RowLock(t.call.op) = "keyShare"
        BY DEF RowLock, AdminOps, RecordOps
      <4>4. \A o, m : LockOn(o, m).on = o /\ LockOn(o, m).mode = m
        BY DEF LockOn
      <4> QED
        BY <2>1, <2>5, <4>1, <4>2, <4>3, <4>4
    <3>6. /\ u.at \notin {"idle", "catalog"}
          /\ t.at \in {"write", "unlink", "stored"} => u.at \in {"write", "unlink", "stored"}
          /\ t.at # "mutex"
      BY <1>3, <2>5, StepMoves DEF t, u, Reconciling
    <3> QED
      BY <2>1, <3>4, <3>5, <3>6
  <2> QED
    BY <2>4, <2>5
<1> QED
  BY <1>2, <1>3

LEMMA NextFollows == IInv /\ LocksFollow /\ [Next]_vars => LocksFollow'
<1> SUFFICES ASSUME IInv, LocksFollow, [Next]_vars
             PROVE  LocksFollow'
  OBVIOUS
<1>1. CASE UNCHANGED vars \/ Done
  <2>1. tx' = tx
    BY <1>1 DEF vars, Done
  <2> QED
    BY <2>1 DEF LocksFollow, Shaped
<1>2. ASSUME NEW s \in Sessions, Step(s) PROVE LocksFollow'
  BY <1>2, StepFollows
<1>3. ASSUME NEW s \in Sessions, Call(s) \/ Abort(s) \/ DetectDeadlock(s) PROVE LocksFollow'
  <2>1. /\ tx'[s].locks = {}
        /\ \A r \in Sessions \ {s} : tx'[r] = tx[r]
    BY <1>3, FreshOK DEF Call, Abort, DetectDeadlock, End, IInv, TypeOK, Fresh
  <2> QED
    BY <2>1 DEF LocksFollow, Shaped
<1> QED
  BY <1>1, <1>2, <1>3 DEF Next

\* A ring of sessions without the advisory lock has no one to wait for.
LEMMA NoRing ==
    ASSUME IInv, LocksFollow, NEW ring \in SUBSET Sessions,
           \A t \in ring : Blockers(t) \cap ring # {},
           \A t \in ring : Mutex \notin tx[t].locks
    PROVE  ring = {}
<1>1. ASSUME NEW s \in ring
      PROVE  \E t \in ring : /\ t # s
                             /\ \E l \in Wants(s), k \in tx[t].locks :
                                    l.on = k.on /\ k.mode \in Conflicts[l.mode]
  BY DEF Blockers
<1>2. ASSUME NEW t \in ring, NEW k \in tx[t].locks
      PROVE  \/ /\ k.on = CatalogRow(tx[t].call.catalog)
                /\ \/ k.mode = "update" /\ tx[t].call.op \in AdminOps
                   \/ k.mode = "noKeyUpdate" /\ tx[t].at = "mutex"
                   \/ k.mode = "keyShare" /\ tx[t].call.op \in RecordOps
             \/ /\ k.on = RecordRow(tx[t].call.catalog)
                /\ k.mode = "update" /\ tx[t].at \in {"write", "unlink", "stored"}
             \/ k.mode \in Reading
  BY <1>2 DEF LocksFollow, Shaped
<1>3. \A s, t \in ring : s # t => \A l \in tx[s].locks, k \in tx[t].locks :
          l.on = k.on => k.mode \notin Conflicts[l.mode]
  BY DEF IInv, LocksCompatible
<1>4. \A m \in Reading : Conflicts[m] \cap ({"update", "noKeyUpdate", "keyShare"} \cup Reading) = {}
  BY DEF Conflicts, Reading
<1>5. ASSUME NEW s \in ring PROVE tx[s].at \in {"catalog", "upsert", "record", "write"}
  <2>0. PICK t \in ring : \E l \in Wants(s), k \in tx[t].locks :
            l.on = k.on /\ k.mode \in Conflicts[l.mode]
    BY <1>1
  <2>1. PICK l \in Wants(s), k \in tx[t].locks : l.on = k.on /\ k.mode \in Conflicts[l.mode]
    BY <2>0
  <2>2. l.mode \notin Reading
    BY <1>2, <1>4, <2>1
  <2>3. tx[s].at \notin {"mutex", "create", "drop"}
    <3>1. ASSUME tx[s].at = "mutex" PROVE FALSE
      <4>1. l = Mutex
        BY <3>1, WantsOf DEF MutexLocks, Mutex
      <4>2. k.mode = "exclusive"
        BY <2>1, <4>1 DEF Mutex, LockOn, Conflicts
      <4> QED
        BY <1>2, <4>2 DEF Reading
    <3>2. ASSUME tx[s].at \in {"create", "drop"} PROVE FALSE
      BY <3>2 DEF IInv, Local, HoldsOK, Reconciling
    <3> QED
      BY <3>1, <3>2
  <2>4. tx[s].at \in Phases
    BY DEF IInv, TypeOK, Transactions
  <2> QED
    BY <2>2, <2>3, <2>4, WantsOf DEF Phases
<1>6. ASSUME NEW s \in ring PROVE tx[s].at \notin {"record", "write"}
  <2> SUFFICES ASSUME tx[s].at \in {"record", "write"} PROVE FALSE
    OBVIOUS
  <2>0. PICK t \in ring : \E l \in Wants(s), k \in tx[t].locks :
            l.on = k.on /\ k.mode \in Conflicts[l.mode]
    BY <1>1
  <2>1. PICK l \in Wants(s), k \in tx[t].locks : l.on = k.on /\ k.mode \in Conflicts[l.mode]
    BY <2>0
  <2>2. l.on = RecordRow(tx[s].call.catalog)
    BY <1>2, <1>4, <2>1, WantsOf DEF LockOn
  <2>3. k.on # CatalogRow(tx[t].call.catalog)
    BY <2>1, <2>2 DEF CatalogRow, RecordRow
  <2>4. k.mode \notin Reading
    <3>1. l = LockOn(RecordRow(tx[s].call.catalog), "update")
      BY <1>2, <1>4, <2>1, WantsOf
    <3> QED
      BY <2>1, <3>1 DEF Conflicts, LockOn, Reading
  <2>5. /\ k.on = RecordRow(tx[t].call.catalog) /\ k.mode = "update"
        /\ tx[t].at = "write"
    BY <1>2, <1>5, <2>3, <2>4
  <2>6a. PICK q \in ring : q # t /\ \E m \in Wants(t), n \in tx[q].locks :
            m.on = n.on /\ n.mode \in Conflicts[m.mode]
    BY <1>1
  <2>6. PICK m \in Wants(t), n \in tx[q].locks : m.on = n.on /\ n.mode \in Conflicts[m.mode]
    BY <2>6a
  <2>7. m = LockOn(RecordRow(tx[t].call.catalog), "update")
    BY <1>2, <1>4, <2>5, <2>6, WantsOf
  <2>8. n.on = k.on /\ n.mode \in Conflicts[k.mode]
    BY <2>5, <2>6, <2>7 DEF LockOn
  <2> QED
    BY <1>3, <2>6a, <2>8
<1>7. ASSUME NEW s \in ring PROVE tx[s].at # "upsert"
  <2> SUFFICES ASSUME tx[s].at = "upsert" PROVE FALSE
    OBVIOUS
  <2>0. PICK t \in ring : \E l \in Wants(s), k \in tx[t].locks :
            l.on = k.on /\ k.mode \in Conflicts[l.mode]
    BY <1>1
  <2>1. PICK l \in Wants(s), k \in tx[t].locks : l.on = k.on /\ k.mode \in Conflicts[l.mode]
    BY <2>0
  <2>2. l = LockOn(CatalogRow(tx[s].call.catalog), "noKeyUpdate")
    BY WantsOf
  <2>3. k.mode \in {"share", "noKeyUpdate", "update"} /\ k.on = CatalogRow(tx[s].call.catalog)
    BY <2>1, <2>2 DEF Conflicts, LockOn
  <2>4. tx[t].at \in {"catalog", "upsert"}
    BY <1>5, <1>6
  <2>5. tx[t].at = "upsert"
    BY <2>1, <2>4 DEF LocksFollow, Shaped
  <2>6. k.on # RecordRow(tx[t].call.catalog)
    BY <2>3 DEF CatalogRow, RecordRow
  <2>7. k.on = CatalogRow(tx[t].call.catalog) /\ k.mode = "update"
    BY <1>2, <2>3, <2>5, <2>6 DEF Reading
  <2>8a. PICK q \in ring : q # t /\ \E m \in Wants(t), n \in tx[q].locks :
            m.on = n.on /\ n.mode \in Conflicts[m.mode]
    BY <1>1
  <2>8. PICK m \in Wants(t), n \in tx[q].locks : m.on = n.on /\ n.mode \in Conflicts[m.mode]
    BY <2>8a
  <2>9. m = LockOn(CatalogRow(tx[t].call.catalog), "noKeyUpdate")
    BY <2>5, <2>8, WantsOf
  <2>10. n.on = k.on /\ n.mode \in Conflicts[k.mode]
    BY <2>7, <2>8, <2>9 DEF LockOn, Conflicts
  <2> QED
    BY <1>3, <2>8a, <2>10
<1> SUFFICES ASSUME NEW s \in ring PROVE FALSE
  OBVIOUS
<1>8. PICK t \in ring : tx[t].locks # {}
  BY <1>1
<1>9. tx[t].at = "catalog"
  BY <1>5, <1>6, <1>7
<1> QED
  BY <1>8, <1>9 DEF LocksFollow, Shaped

\* Calls wait in a ring only if one of them has the advisory lock: the order in
\* which the statements of store.go take the locks of catalogs, records and
\* tables allows none before it.
THEOREM DeadlocksNeedMutex == Spec => []DeadlockNeedsMutex
<1>1. Init => LocksFollow
  BY FreshOK DEF Init, LocksFollow, Shaped
<1>2. IInv /\ LocksFollow => DeadlockNeedsMutex
  <2> SUFFICES ASSUME IInv, LocksFollow, NEW ring \in SUBSET Sessions, Deadlocked(ring)
               PROVE  \E s \in ring : MutexLocks \subseteq tx[s].locks
    BY DEF DeadlockNeedsMutex
  <2>1. \E s \in ring : Mutex \in tx[s].locks
    BY NoRing DEF Deadlocked
  <2> QED
    BY <2>1 DEF MutexLocks, Mutex
<1> QED
  BY <1>1, <1>2, NextFollows, Invariant, PTL DEF Spec
=============================================================================
