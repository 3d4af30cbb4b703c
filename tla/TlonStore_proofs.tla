--------------------------- MODULE TlonStore_proofs ---------------------------
(***************************************************************************)
(* Safety of TlonStore for every number of sessions, records, documents    *)
(* and calls; and its refinement of RecordStore.                           *)
(***************************************************************************)
EXTENDS TlonStore, TLAPS

\* What a phase says of a transaction that is in it: the kind of its call, and
\* that it has read what its next statements use.
PhaseOK(t) ==
    /\ t.pc # "idle" => t.call \in Calls
    /\ t.pc \in {"key", "updated", "deleted"} =>
           t.call \in RecordCalls /\ t.call.op \in {"put", "patch", "delete"}
    /\ t.pc \in {"insert", "inserted"} => t.call \in RecordCalls \cup BulkCalls
    /\ t.pc \in {"locator", "row", "merge"} => t.call \in RecordCalls
    /\ t.pc \in {"upsert", "installed"} => t.call \in ApplyCalls
    /\ t.pc = "dropping" => t.call \in DropCalls
    /\ t.pc \in {"key", "insert", "inserted", "updated", "deleted", "upsert",
                 "installed", "locator"} => t.conf \in Configs
    /\ t.pc \in {"updated", "deleted", "row"} => t.key \in KeyRows
    /\ t.pc \in {"updated", "deleted", "merge"} => t.row \in Rows

Typed == TypeOK /\ \A s \in Sessions : PhaseOK(tx[s])

\* What one session does leaves the transactions of the others alone, but for
\* their history.
Same(t) ==
    /\ tx'[t].pc = tx[t].pc
    /\ tx'[t].call = tx[t].call
    /\ tx'[t].seen = tx[t].seen
    /\ tx'[t].conf = tx[t].conf
    /\ tx'[t].key = tx[t].key
    /\ tx'[t].row = tx[t].row
    /\ tx'[t].held = tx[t].held
    /\ tx'[t].claim = tx[t].claim

\* A transaction that has ended.
Ended(t) == t.pc = "idle" /\ t.held = "none" /\ t.claim = {}

-----------------------------------------------------------------------------
(* Lemmas on transactions and calls.                                       *)

\* A step that leaves the tables alone is type correct when the transaction
\* that takes it is.
LEMMA BecomesTyped ==
    ASSUME Typed, NEW s \in Sessions, NEW t \in Transactions,
           PhaseOK(t), Becomes(s, t), UNCHANGED <<database, budget>>
    PROVE  Typed'
BY DEF Typed, TypeOK, Becomes, database

\* A transaction rolled back is an idle one.
LEMMA EndEffect ==
    ASSUME NEW s \in Sessions, TypeOK, NEW o \in Outcomes, End(s, o)
    PROVE  \E t \in Transactions : Becomes(s, t) /\ Ended(t) /\ PhaseOK(t)
<1> DEFINE t == [Fresh EXCEPT !.outcome = o, !.absent = tx[s].absent]
<1>1. t \in Transactions
  BY DEF TypeOK, Transactions, Fresh, Phases, LockModes, Outcomes
<1>2. Ended(t) /\ PhaseOK(t)
  BY DEF Ended, PhaseOK, Fresh
<1> QED
  BY <1>1, <1>2 DEF End

LEMMA EndTyped ==
    ASSUME Typed, NEW s \in Sessions, NEW o \in Outcomes, End(s, o),
           UNCHANGED <<database, budget>>
    PROVE  Typed'
BY EndEffect, BecomesTyped DEF Typed

\* COMMIT ends a transaction and touches only the history of the others.
LEMMA CommitEffect ==
    ASSUME TypeOK, NEW s \in Sessions, EndCommitted(s)
    PROVE  /\ tx' \in [Sessions -> Transactions]
           /\ Ended(tx'[s])
           /\ \A t \in Sessions \ {s} : Same(t)
<1>1. [Fresh EXCEPT !.outcome = "ok"] \in Transactions
  BY DEF Transactions, Fresh, Phases, LockModes, Outcomes
<1>2. ASSUME NEW t \in Sessions, tx[t].pc # "idle"
      PROVE  [tx[t] EXCEPT !.absent = @ \/ Missing(tx[t].call, catalog', keys')] \in Transactions
  BY DEF TypeOK, Transactions
<1>3. tx' \in [Sessions -> Transactions]
  BY <1>1, <1>2 DEF EndCommitted, TypeOK
<1>4. Ended(tx'[s])
  BY DEF EndCommitted, Fresh, Ended
<1>5. \A t \in Sessions \ {s} : Same(t)
  BY DEF EndCommitted, Same, TypeOK, Transactions
<1> QED
  BY <1>3, <1>4, <1>5

\* A committed step is type correct when the tables it leaves are.
LEMMA CommitTyped ==
    ASSUME Typed, NEW s \in Sessions, EndCommitted(s), budget' = budget,
           catalog' \in CatalogRows \cup {Nil},
           keys' \in [Ids -> KeyRows \cup {Nil}],
           rows' \in [Ids -> [Parts -> Rows \cup {Nil}]],
           links' \in [Ids -> SUBSET ExternalIds],
           births' \in Nat
    PROVE  Typed'
<1>1. TypeOK'
  BY CommitEffect DEF Typed, TypeOK
<1>2. ASSUME NEW t \in Sessions PROVE PhaseOK(tx'[t])
  <2>1. CASE t = s
    BY <2>1, CommitEffect DEF Typed, Ended, PhaseOK
  <2>2. CASE t # s
    <3>1. Same(t) /\ PhaseOK(tx[t])
      BY <2>2, CommitEffect DEF Typed
    <3> QED
      BY <3>1 DEF Same, PhaseOK
  <2> QED
    BY <2>1, <2>2
<1> QED
  BY <1>1, <1>2 DEF Typed

\* The operation of a call tells its kind.
LEMMA CallKinds ==
    ASSUME NEW c \in Calls
    PROVE  /\ c.op \in {"create", "put", "patch", "delete", "get", "merge"} => c \in RecordCalls
           /\ c.op = "bulk" => c \in BulkCalls
           /\ c.op = "apply" => c \in ApplyCalls
           /\ c.op = "drop" => c \in DropCalls
BY DEF Calls, RecordCalls, BulkCalls, ApplyCalls, DropCalls

\* What a phase and an operation say together.
LEMMA AtCall ==
    ASSUME Typed, NEW s \in Sessions, NEW pc \in Phases \ {"idle"}, NEW ops, At(s, pc, ops)
    PROVE  /\ tx[s] \in Transactions /\ tx[s].pc = pc
           /\ tx[s].call \in Calls /\ tx[s].call.op \in ops
           /\ PhaseOK(tx[s])
BY DEF Typed, TypeOK, At, PhaseOK

-----------------------------------------------------------------------------
(* Type correctness, one lemma for each part of Next.                      *)

LEMMA CallTyped ==
    ASSUME Typed, NEW s \in Sessions, Call(s)
    PROVE  Typed'
<1>1. PICK call \in MayCall[s] :
          Becomes(s, [Fresh EXCEPT !.pc = "catalog", !.call = call,
                                   !.seen = Inc(catalog),
                                   !.absent = Missing(call, catalog, keys)])
  BY DEF Call
<1> DEFINE t == [Fresh EXCEPT !.pc = "catalog", !.call = call,
                              !.seen = Inc(catalog),
                              !.absent = Missing(call, catalog, keys)]
<1>2. call \in Calls
  BY CallAssumption
<1>3. Inc(catalog) \in Nat \cup {Nil}
  BY DEF Typed, TypeOK, Inc, CatalogRows
<1>4. Missing(call, catalog, keys) \in BOOLEAN
  BY DEF Missing
<1>5. t \in Transactions
  BY <1>2, <1>3, <1>4 DEF Transactions, Fresh, Phases, LockModes, Outcomes
<1>6. PhaseOK(t)
  BY <1>2 DEF PhaseOK, Fresh
<1> QED
  BY <1>1, <1>5, <1>6 DEF Typed, TypeOK, Call, Becomes, database

LEMMA LockCatalogTyped ==
    ASSUME Typed, NEW s \in Sessions, LockCatalog(s)
    PROVE  Typed'
<1> DEFINE call == tx[s].call
           located == {id \in Wanted(call) :
                          keys[id] # Nil /\ keys[id].class = catalog.class}
           seen == IF call.op \in {"create", "bulk"} \/ located = {}
                   THEN Nil ELSE keys[call.id].inc
           t == [tx[s] EXCEPT
                    !.pc = IF call.op \in {"create", "bulk"} THEN "insert" ELSE "key",
                    !.held = "keyShare", !.conf = Conf(catalog), !.seen = seen]
<1>1. CASE End(s, "invalid")
  BY <1>1, EndTyped DEF LockCatalog, Outcomes
<1>2. CASE Becomes(s, t)
  <2>1. /\ call \in Calls /\ call.op \in RecordOps
        /\ catalog \in CatalogRows /\ tx[s] \in Transactions
    BY AtCall DEF LockCatalog, Typed, TypeOK, Inc, Phases
  <2>2. call \in RecordCalls \cup BulkCalls
    BY <2>1, CallKinds DEF RecordOps
  <2>3. Conf(catalog) \in Configs
    BY <2>1 DEF Conf, Configs, CatalogRows
  <2>4. seen \in Nat \cup {Nil}
    <3>1. CASE call.op \in {"create", "bulk"} \/ located = {}
      BY <3>1
    <3>2. CASE ~ (call.op \in {"create", "bulk"} \/ located = {})
      <4>1. call.id \in Ids /\ Wanted(call) = {call.id}
        BY <2>1, <2>2, <3>2 DEF RecordCalls, BulkCalls, Wanted
      <4>2. keys[call.id] \in KeyRows
        BY <3>2, <4>1 DEF Typed, TypeOK
      <4> QED
        BY <3>2, <4>2 DEF KeyRows
    <3> QED
      BY <3>1, <3>2
  <2>5. t \in Transactions
    BY <2>1, <2>3, <2>4 DEF Transactions, Phases, LockModes
  <2>6. PhaseOK(t)
    BY <2>1, <2>2, <2>3, CallKinds DEF PhaseOK, Transactions, RecordOps
  <2> QED
    BY <1>2, <2>5, <2>6, BecomesTyped DEF LockCatalog
<1> QED
  BY <1>1, <1>2 DEF LockCatalog

LEMMA KeyTyped ==
    ASSUME Typed, NEW s \in Sessions, KeyMissing(s) \/ LockKey(s)
    PROVE  Typed'
<1> DEFINE call == tx[s].call
           key == keys[call.id]
           t1 == [tx[s] EXCEPT !.pc = "insert"]
           t2 == [tx[s] EXCEPT
                    !.pc = IF call.op = "delete" THEN "deleted" ELSE "updated",
                    !.key = key, !.row = rows[call.id][key.part]]
<1>1. /\ tx[s].pc = "key" /\ UNCHANGED <<database, budget>>
      /\ call \in RecordCalls /\ call.op \in {"put", "patch", "delete"}
      /\ call \in Calls /\ tx[s].conf \in Configs /\ tx[s] \in Transactions
  BY AtCall DEF KeyMissing, LockKey, PhaseOK, Phases
<1>2. CASE \E o \in Outcomes : End(s, o)
  BY <1>1, <1>2, EndTyped
<1>3. CASE Becomes(s, t1)
  <2>1. t1 \in Transactions /\ PhaseOK(t1)
    BY <1>1 DEF PhaseOK, Transactions, Phases
  <2> QED
    BY <1>1, <1>3, <2>1, BecomesTyped
<1>4. CASE Located(s) /\ Becomes(s, t2)
  <2>1. call.id \in Ids
    BY <1>1 DEF RecordCalls
  <2>2. key \in KeyRows
    BY <1>4, <2>1 DEF Located, Inc, Typed, TypeOK
  <2>3. rows[call.id][key.part] \in Rows
    BY <1>4, <2>1, <2>2 DEF Located, Typed, TypeOK, KeyRows
  <2>4. t2 \in Transactions
    BY <1>1, <2>2, <2>3 DEF Transactions, Phases
  <2>5. PhaseOK(t2)
    BY <1>1, <2>2, <2>3 DEF PhaseOK, Transactions
  <2> QED
    BY <1>1, <1>4, <2>4, <2>5, BecomesTyped
<1> QED
  BY <1>2, <1>3, <1>4 DEF KeyMissing, LockKey, Outcomes

LEMMA InsertKeyTyped ==
    ASSUME Typed, NEW s \in Sessions, InsertKey(s)
    PROVE  Typed'
<1> DEFINE call == tx[s].call
           t(id) == [tx[s] EXCEPT
                        !.pc = IF Wanted(call) \subseteq tx[s].claim \cup {id}
                               THEN "inserted" ELSE "insert",
                        !.claim = @ \cup {id}]
<1>1. /\ tx[s].pc = "insert" /\ UNCHANGED <<database, budget>>
      /\ call \in RecordCalls \cup BulkCalls
      /\ call \in Calls /\ tx[s].conf \in Configs /\ tx[s] \in Transactions
  BY AtCall DEF InsertKey, PhaseOK, Phases
<1>2. CASE \E o \in Outcomes : End(s, o)
  BY <1>1, <1>2, EndTyped
<1>3. ASSUME NEW id \in Wanted(call), Becomes(s, t(id))
      PROVE  Typed'
  <2>1. id \in Ids
    BY <1>1 DEF Wanted, RecordCalls, BulkCalls
  <2>2. t(id) \in Transactions /\ PhaseOK(t(id))
    BY <1>1, <2>1 DEF PhaseOK, Transactions, Phases
  <2> QED
    BY <1>1, <1>3, <2>2, BecomesTyped
<1> QED
  BY <1>2, <1>3 DEF InsertKey, Outcomes

\* recordTarget places a document in some table and partition.
LEMMA SlotType ==
    ASSUME NEW class, NEW doc \in Docs
    PROVE  Slot(class, doc) \in Parts
BY StartAssumption DEF Slot, Parts

LEMMA CommitInsertTyped ==
    ASSUME Typed, NEW s \in Sessions, CommitInsert(s)
    PROVE  Typed'
<1> DEFINE call == tx[s].call
           part == Slot(tx[s].conf.class, call.doc)
<1>1. /\ tx[s] \in Transactions /\ call \in RecordCalls \cup BulkCalls
      /\ tx[s].conf \in Configs
  BY DEF Typed, TypeOK, PhaseOK, CommitInsert
<1>2. call.doc \in Docs /\ part \in Parts /\ tx[s].conf.class \in Classes
  BY <1>1, SlotType DEF RecordCalls, BulkCalls, Configs
<1>3. births' \in Nat
  BY DEF CommitInsert, Typed, TypeOK
<1>4. keys' \in [Ids -> KeyRows \cup {Nil}]
  BY <1>2, <1>3 DEF CommitInsert, Typed, TypeOK, KeyRows
<1>5. [doc |-> call.doc, version |-> FirstVersion] \in Rows
  BY <1>2 DEF Rows, FirstVersion
<1>6. rows' \in [Ids -> [Parts -> Rows \cup {Nil}]]
  BY <1>2, <1>5 DEF CommitInsert, Typed, TypeOK
<1>7. links' \in [Ids -> SUBSET ExternalIds]
  BY <1>2, DerivedAssumption DEF CommitInsert, Typed, TypeOK
<1> QED
  BY <1>3, <1>4, <1>6, <1>7, CommitTyped DEF CommitInsert, Typed, TypeOK

LEMMA CommitUpdateTyped ==
    ASSUME Typed, NEW s \in Sessions, CommitUpdate(s)
    PROVE  Typed'
<1> DEFINE call == tx[s].call
<1>1. /\ call \in RecordCalls /\ tx[s].key \in KeyRows /\ tx[s].row \in Rows
  BY DEF Typed, PhaseOK, CommitUpdate
<1>2. call.doc \in Docs /\ call.id \in Ids /\ tx[s].key.part \in Parts
  BY <1>1 DEF RecordCalls, KeyRows
<1>3. [doc |-> call.doc, version |-> NextVersion(tx[s].row)] \in Rows
  BY <1>1, <1>2 DEF Rows, NextVersion
<1>4. rows' \in [Ids -> [Parts -> Rows \cup {Nil}]]
  BY <1>2, <1>3 DEF CommitUpdate, Typed, TypeOK
<1>5. links' \in [Ids -> SUBSET ExternalIds]
  BY <1>2, DerivedAssumption DEF CommitUpdate, Typed, TypeOK, Relink
<1> QED
  BY <1>4, <1>5, CommitTyped DEF CommitUpdate, Typed, TypeOK

LEMMA CommitDeleteTyped ==
    ASSUME Typed, NEW s \in Sessions, CommitDelete(s)
    PROVE  Typed'
<1>1. tx[s].call.id \in Ids /\ tx[s].key.part \in Parts
  BY DEF Typed, PhaseOK, CommitDelete, RecordCalls, KeyRows
<1> QED
  BY <1>1, CommitTyped DEF CommitDelete, Typed, TypeOK

LEMMA SelectTyped ==
    ASSUME Typed, NEW s \in Sessions, SelectNoCatalog(s) \/ SelectCatalog(s)
    PROVE  Typed'
<1> DEFINE call == tx[s].call
           t1 == [tx[s] EXCEPT !.pc = "upsert", !.seen = Nil, !.conf = Conf(call)]
           t2 == [tx[s] EXCEPT !.pc = "upsert", !.held = "update", !.conf = Conf(call)]
           t3 == [tx[s] EXCEPT !.pc = "dropping", !.held = "update"]
<1>1. /\ UNCHANGED <<database, budget>> /\ tx[s] \in Transactions
      /\ call \in Calls /\ call.op \in AdminOps /\ PhaseOK(tx[s])
  BY AtCall DEF SelectNoCatalog, SelectCatalog, AdminOps, Phases
<1>2. CASE \E o \in Outcomes : End(s, o)
  BY <1>1, <1>2, EndTyped
<1>3. CASE call.op = "apply" /\ (Becomes(s, t1) \/ Becomes(s, t2))
  <2>1. call \in ApplyCalls /\ Conf(call) \in Configs
    BY <1>1, <1>3, CallKinds DEF Conf, Configs, ApplyCalls
  <2>2. t1 \in Transactions /\ t2 \in Transactions
    BY <1>1, <2>1 DEF Transactions, Phases, LockModes
  <2>3. PhaseOK(t1) /\ PhaseOK(t2)
    BY <1>1, <2>1 DEF PhaseOK, Transactions
  <2> QED
    BY <1>1, <1>3, <2>2, <2>3, BecomesTyped
<1>4. CASE call.op = "drop" /\ Becomes(s, t3)
  <2>1. call \in DropCalls
    BY <1>1, <1>4, CallKinds
  <2>2. t3 \in Transactions
    BY <1>1, <2>1 DEF Transactions, Phases, LockModes
  <2>3. PhaseOK(t3)
    BY <1>1, <2>1 DEF PhaseOK, Transactions
  <2> QED
    BY <1>1, <1>4, <2>2, <2>3, BecomesTyped
<1> QED
  BY <1>1, <1>2, <1>3, <1>4 DEF SelectNoCatalog, SelectCatalog, Outcomes, At, AdminOps

LEMMA UpsertTyped ==
    ASSUME Typed, NEW s \in Sessions, Upsert(s)
    PROVE  Typed'
<1> DEFINE held == IF tx[s].held = "update" THEN "update"
                   ELSE IF catalog = Nil THEN "insert" ELSE "noKeyUpdate"
           t == [tx[s] EXCEPT !.pc = "installed", !.held = held]
<1>1. tx[s] \in Transactions /\ PhaseOK(tx[s]) /\ tx[s].pc = "upsert"
  BY DEF Typed, TypeOK, Upsert
<1>2. held \in LockModes
  BY DEF LockModes
<1>3. t \in Transactions
  <2> HIDE DEF held
  <2> QED
    BY <1>1, <1>2 DEF Transactions, Phases
<1>4. PhaseOK(t)
  BY <1>1 DEF PhaseOK, Transactions
<1>5. Becomes(s, t)
  BY DEF Upsert
<1> QED
  BY <1>3, <1>4, <1>5, BecomesTyped DEF Upsert

LEMMA ReadTyped ==
    ASSUME Typed, NEW s \in Sessions, ReadStep(s)
    PROVE  Typed'
<1> DEFINE call == tx[s].call
           row  == rows[call.id][tx[s].key.part]
<1>1. UNCHANGED <<database, budget>> /\ tx[s] \in Transactions /\ PhaseOK(tx[s])
  BY DEF Typed, TypeOK, ReadStep, ReadCatalog, ReadLocator, ReadRow, Merge
<1>2. CASE \E o \in Outcomes : End(s, o)
  BY <1>1, <1>2, EndTyped
<1>3. CASE ReadCatalog(s) /\ catalog # Nil
  <2> DEFINE t == [tx[s] EXCEPT !.pc = "locator", !.seen = Nil, !.conf = Conf(catalog)]
  <2>1. call \in RecordCalls
    BY <1>3, AtCall, CallKinds DEF ReadCatalog, ReadOps, Phases
  <2>2. Conf(catalog) \in Configs
    BY <1>3 DEF Typed, TypeOK, Conf, Configs, CatalogRows
  <2>3. t \in Transactions
    BY <1>1, <2>2 DEF Transactions, Phases
  <2>4. PhaseOK(t)
    BY <1>1, <2>1, <2>2 DEF PhaseOK, Calls, Transactions
  <2> QED
    BY <1>1, <1>3, <2>3, <2>4, BecomesTyped DEF ReadCatalog
<1>4. CASE ReadLocator(s) /\ keys[call.id] # Nil /\ Becomes(s, [tx[s] EXCEPT !.pc = "row", !.key = keys[call.id]])
  <2> DEFINE t == [tx[s] EXCEPT !.pc = "row", !.key = keys[call.id]]
  <2>1. call \in RecordCalls
    BY <1>1, <1>4 DEF ReadLocator, PhaseOK
  <2>2. keys[call.id] \in KeyRows
    BY <1>4, <2>1 DEF Typed, TypeOK, RecordCalls
  <2>3. t \in Transactions
    BY <1>1, <2>2 DEF Transactions, Phases
  <2>4. PhaseOK(t)
    BY <1>1, <2>1, <2>2 DEF PhaseOK, Calls, Transactions
  <2> QED
    BY <1>1, <1>4, <2>3, <2>4, BecomesTyped
<1>5. CASE /\ ReadRow(s) /\ row # Nil
           /\ Becomes(s, [tx[s] EXCEPT !.pc = "merge", !.key = Nil, !.row = row])
  <2> DEFINE t == [tx[s] EXCEPT !.pc = "merge", !.key = Nil, !.row = row]
  <2>1. call \in RecordCalls /\ tx[s].key \in KeyRows
    BY <1>1, <1>5 DEF ReadRow, PhaseOK
  <2>2. row \in Rows
    BY <1>5, <2>1 DEF Typed, TypeOK, RecordCalls, KeyRows
  <2>3. t \in Transactions
    BY <1>1, <2>2 DEF Transactions, Phases
  <2>4. PhaseOK(t)
    BY <1>1, <2>1, <2>2 DEF PhaseOK, Calls, Transactions
  <2> QED
    BY <1>1, <1>5, <2>3, <2>4, BecomesTyped
<1>6. CASE /\ Merge(s)
           /\ Becomes(s, [tx[s] EXCEPT !.pc = "catalog", !.seen = Inc(catalog),
                !.call = [call EXCEPT !.op = "put", !.cond = tx[s].row.version],
                !.conf = Nil, !.row = Nil])
  <2> DEFINE put == [call EXCEPT !.op = "put", !.cond = tx[s].row.version]
             t == [tx[s] EXCEPT !.pc = "catalog", !.seen = Inc(catalog),
                      !.call = put, !.conf = Nil, !.row = Nil]
  <2>1. call \in RecordCalls /\ tx[s].row \in Rows
    BY <1>1, <1>6 DEF Merge, PhaseOK
  <2>2. put \in RecordCalls
    BY <2>1 DEF RecordCalls, Rows, Conds
  <2>3. Inc(catalog) \in Nat \cup {Nil}
    BY DEF Typed, TypeOK, Inc, CatalogRows
  <2>4. t \in Transactions
    BY <1>1, <2>2, <2>3 DEF Transactions, Phases, Calls
  <2>5. PhaseOK(t)
    BY <1>1, <2>2 DEF PhaseOK, Calls, Transactions
  <2> QED
    BY <1>1, <1>6, <2>4, <2>5, BecomesTyped
<1> QED
  BY <1>2, <1>3, <1>4, <1>5, <1>6
  DEF ReadStep, ReadCatalog, ReadLocator, ReadRow, Merge, Outcomes

LEMMA CommitApplyTyped ==
    ASSUME Typed, NEW s \in Sessions, CommitApply(s),
           tx[s].held # "insert" => catalog # Nil
    PROVE  Typed'
<1>1. tx[s].conf \in Configs
  BY DEF Typed, PhaseOK, CommitApply
<1>2. births' \in Nat
  BY DEF Typed, TypeOK, CommitApply
<1>3. catalog' \in CatalogRows
  BY <1>1, <1>2 DEF Typed, TypeOK, CommitApply, CatalogRows, Configs
<1> QED
  BY <1>2, <1>3, CommitTyped DEF CommitApply, Typed, TypeOK

LEMMA CommitDropTyped ==
    ASSUME Typed, NEW s \in Sessions, CommitDrop(s)
    PROVE  Typed'
<1>1. /\ keys' \in [Ids -> KeyRows \cup {Nil}]
      /\ rows' \in [Ids -> [Parts -> Rows \cup {Nil}]]
      /\ links' \in [Ids -> SUBSET ExternalIds]
  BY DEF CommitDrop, Typed, TypeOK
<1> QED
  BY <1>1, CommitTyped DEF CommitDrop, Typed, TypeOK

-----------------------------------------------------------------------------
(* The inductive invariant.                                                *)

\* Which lock a phase holds on the catalogs row.
LockPhase(t) ==
    /\ t.pc \in {"key", "insert", "inserted", "updated", "deleted"} <=> t.held = "keyShare"
    /\ t.pc = "dropping" => t.held = "update"
    /\ t.pc = "upsert" => t.held \in {"none", "update"}
    /\ t.pc = "installed" => t.held \in {"noKeyUpdate", "update", "insert"}
    /\ t.held \in {"noKeyUpdate", "update", "insert"} =>
           t.pc \in {"upsert", "installed", "dropping"}

\* Only an uncommitted insertion holds a lock without a catalog.
LockRow(t) ==
    /\ t.held = "insert" => catalog = Nil
    /\ t.held \in {"keyShare", "noKeyUpdate", "update"} => catalog # Nil

\* What a transaction has found in the tables is still there.
Found(t) ==
    /\ t.claim # {} => t.pc \in {"insert", "inserted"}
    /\ \A id \in t.claim : keys[id] = Nil
    /\ t.pc \in {"updated", "deleted"} =>
           keys[t.call.id] = t.key /\ rows[t.call.id][t.key.part] = t.row
    /\ t.pc = "dropping" /\ ~ t.call.cascade => Live = {}

TxOK(t) == LockPhase(t) /\ LockRow(t) /\ Found(t)

\* The locks of the catalogs row that exclude each other.
Conflict(a, b) ==
    \/ a = "update" /\ b \in {"keyShare", "noKeyUpdate", "update"}
    \/ b = "update" /\ a \in {"keyShare", "noKeyUpdate", "update"}
    \/ a \in {"noKeyUpdate", "insert"} /\ b \in {"noKeyUpdate", "insert"}

\* Two transactions do not hold the same thing.
Apart(t, u) ==
    /\ ~ Conflict(t.held, u.held)
    /\ t.claim \cap u.claim = {}
    /\ t.pc \in {"updated", "deleted"} /\ u.pc \in {"updated", "deleted"} =>
           t.call.id # u.call.id

Isolated ==
    /\ \A s \in Sessions : TxOK(tx[s])
    /\ \A s, t \in Sessions : s # t => Apart(tx[s], tx[t])

Safe == Typed /\ Isolated /\ LocatorMatchesRow /\ LinksMatchDocument

LEMMA ApartSymmetric ==
    ASSUME NEW t, NEW u, Apart(t, u)
    PROVE  Apart(u, t)
BY DEF Apart, Conflict

\* A step that leaves the tables alone keeps the transactions isolated when
\* the one that takes it finds itself in order and apart from the others.
LEMMA BecomesIsolated ==
    ASSUME TypeOK, Isolated, NEW s \in Sessions, NEW t, Becomes(s, t),
           UNCHANGED <<database, budget>>, TxOK(t),
           \A u \in Sessions \ {s} : Apart(t, tx[u])
    PROVE  Isolated'
<1>1. tx' = [tx EXCEPT ![s] = t] /\ tx \in [Sessions -> Transactions]
  BY DEF Becomes, TypeOK
<1>2. ASSUME NEW u \in Sessions PROVE TxOK(tx'[u])
  BY <1>1 DEF Isolated
<1>3. ASSUME NEW u \in Sessions PROVE TxOK(tx[u])'
  BY <1>2 DEF TxOK, LockPhase, LockRow, Found, Live, database
<1>4. ASSUME NEW u \in Sessions, NEW v \in Sessions, u # v
      PROVE  Apart(tx'[u], tx'[v])
  BY <1>1, <1>4, ApartSymmetric DEF Isolated
<1> QED
  BY <1>3, <1>4 DEF Isolated, Apart, Conflict

\* A transaction that has ended holds nothing.
LEMMA EndedIsolated ==
    ASSUME NEW t, Ended(t)
    PROVE  TxOK(t) /\ \A u \in Sessions : Apart(t, tx[u])
BY DEF Ended, TxOK, LockPhase, LockRow, Found, Apart, Conflict

LEMMA EndIsolated ==
    ASSUME TypeOK, Isolated, NEW s \in Sessions, NEW o \in Outcomes, End(s, o),
           UNCHANGED <<database, budget>>
    PROVE  Isolated'
BY EndEffect, EndedIsolated, BecomesIsolated

\* COMMIT keeps the transactions isolated when the tables it leaves are as
\* the others have found them.
LEMMA CommitIsolated ==
    ASSUME TypeOK, Isolated, NEW s \in Sessions, EndCommitted(s),
           \A u \in Sessions \ {s} : LockRow(tx[u])' /\ Found(tx[u])'
    PROVE  Isolated'
<1>1. tx' \in [Sessions -> Transactions] /\ Ended(tx'[s])
  BY CommitEffect
<1>2. ASSUME NEW u \in Sessions \ {s} PROVE Same(u)
  BY CommitEffect
<1>3. TxOK(tx[s])'
  BY <1>1 DEF Ended, TxOK, LockPhase, LockRow, Found
<1>4. ASSUME NEW u \in Sessions \ {s} PROVE TxOK(tx[u])'
  BY <1>2 DEF Isolated, TxOK, Same, LockPhase
<1>5. ASSUME NEW u \in Sessions, NEW v \in Sessions, u # v
      PROVE  Apart(tx[u], tx[v])'
  <2>1. CASE u = s \/ v = s
    BY <1>1, <2>1 DEF Ended, Apart, Conflict
  <2>2. CASE u # s /\ v # s
    BY <1>2, <1>5, <2>2 DEF Same, Isolated, Apart, Conflict
  <2> QED
    BY <2>1, <2>2
<1> QED
  BY <1>3, <1>4, <1>5 DEF Isolated

-----------------------------------------------------------------------------
(* Isolation, one lemma for each part of Next.                             *)

LEMMA CallIsolated ==
    ASSUME Typed, Isolated, NEW s \in Sessions, Call(s)
    PROVE  Isolated'
<1>1. PICK call \in MayCall[s] :
          Becomes(s, [Fresh EXCEPT !.pc = "catalog", !.call = call,
                                   !.seen = Inc(catalog),
                                   !.absent = Missing(call, catalog, keys)])
  BY DEF Call
<1> DEFINE t == [Fresh EXCEPT !.pc = "catalog", !.call = call,
                              !.seen = Inc(catalog),
                              !.absent = Missing(call, catalog, keys)]
<1>2. TxOK(t) /\ \A u \in Sessions : Apart(t, tx[u])
  BY DEF Fresh, TxOK, LockPhase, LockRow, Found, Apart, Conflict
<1>3. ASSUME NEW u \in Sessions PROVE TxOK(tx'[u])
  BY <1>1, <1>2 DEF Typed, TypeOK, Becomes, Isolated
<1>4. ASSUME NEW u \in Sessions PROVE TxOK(tx[u])'
  BY <1>3 DEF Call, TxOK, LockPhase, LockRow, Found, Live, database
<1>5. ASSUME NEW u \in Sessions, NEW v \in Sessions, u # v
      PROVE  Apart(tx'[u], tx'[v])
  BY <1>1, <1>2, <1>5, ApartSymmetric DEF Typed, TypeOK, Becomes, Isolated
<1> QED
  BY <1>4, <1>5 DEF Isolated, Apart, Conflict

LEMMA LockCatalogIsolated ==
    ASSUME Typed, Isolated, NEW s \in Sessions, LockCatalog(s)
    PROVE  Isolated'
<1> DEFINE call == tx[s].call
           located == {id \in Wanted(call) :
                          keys[id] # Nil /\ keys[id].class = catalog.class}
           seen == IF call.op \in {"create", "bulk"} \/ located = {}
                   THEN Nil ELSE keys[call.id].inc
           pc == IF call.op \in {"create", "bulk"} THEN "insert" ELSE "key"
           t == [tx[s] EXCEPT !.pc = pc, !.held = "keyShare",
                    !.conf = Conf(catalog), !.seen = seen]
<1>1. CASE End(s, "invalid")
  BY <1>1, EndIsolated DEF LockCatalog, Outcomes, Typed
<1>2. CASE Becomes(s, t)
  <2>1. /\ tx[s] \in Transactions /\ tx[s].pc = "catalog" /\ catalog # Nil
        /\ TxOK(tx[s])
    BY DEF LockCatalog, At, Typed, TypeOK, Inc, Isolated
  <2>2. pc \in {"insert", "key"}
    OBVIOUS
  <2>3. tx[s].claim = {} /\ tx[s].held = "none"
    BY <2>1 DEF TxOK, Found, LockPhase, Transactions, LockModes
  <2>4. /\ t.pc = pc /\ t.held = "keyShare" /\ t.claim = {}
    BY <2>1, <2>3 DEF Transactions
  <2>5. TxOK(t)
    <3> HIDE DEF t, pc
    <3> QED
      BY <2>1, <2>2, <2>4 DEF TxOK, LockPhase, LockRow, Found
  <2>6. ASSUME NEW u \in Sessions \ {s} PROVE Apart(t, tx[u])
    <3>1. tx[u].held # "update"
      BY DEF LockCatalog, CatalogHolders
    <3> HIDE DEF t, pc
    <3> QED
      BY <2>2, <2>4, <3>1 DEF Apart, Conflict
  <2> QED
    BY <1>2, <2>5, <2>6, BecomesIsolated DEF LockCatalog, Typed
<1> QED
  BY <1>1, <1>2 DEF LockCatalog

LEMMA KeyMissingIsolated ==
    ASSUME Typed, Isolated, NEW s \in Sessions, KeyMissing(s)
    PROVE  Isolated'
<1> DEFINE t == [tx[s] EXCEPT !.pc = "insert"]
<1>1. CASE \E o \in Outcomes : End(s, o)
  BY <1>1, EndIsolated DEF KeyMissing, Typed
<1>2. CASE Becomes(s, t)
  <2>1. tx[s] \in Transactions /\ tx[s].pc = "key" /\ TxOK(tx[s])
    BY DEF KeyMissing, At, Typed, TypeOK, Isolated
  <2>2. TxOK(t)
    BY <2>1 DEF Transactions, TxOK, LockPhase, LockRow, Found
  <2>3. ASSUME NEW u \in Sessions \ {s} PROVE Apart(t, tx[u])
    BY <2>1 DEF Transactions, Isolated, Apart
  <2> QED
    BY <1>2, <2>2, <2>3, BecomesIsolated DEF KeyMissing, Typed
<1> QED
  BY <1>1, <1>2 DEF KeyMissing, Outcomes

LEMMA LockKeyIsolated ==
    ASSUME Typed, Isolated, NEW s \in Sessions, LockKey(s)
    PROVE  Isolated'
<1> DEFINE call == tx[s].call
           key == keys[call.id]
           row == rows[call.id][key.part]
           pc == IF call.op = "delete" THEN "deleted" ELSE "updated"
           t == [tx[s] EXCEPT !.pc = pc, !.key = key, !.row = row]
<1>1. CASE \E o \in Outcomes : End(s, o)
  BY <1>1, EndIsolated DEF LockKey, Typed
<1>2. CASE Becomes(s, t)
  <2>1. tx[s] \in Transactions /\ tx[s].pc = "key" /\ TxOK(tx[s])
    BY DEF LockKey, At, Typed, TypeOK, Isolated
  <2>2. pc \in {"deleted", "updated"}
    OBVIOUS
  <2>3. /\ t.pc = pc /\ t.held = tx[s].held /\ t.claim = tx[s].claim
        /\ t.call = call /\ t.key = key /\ t.row = row
    BY <2>1 DEF Transactions
  <2>4. TxOK(t)
    <3> HIDE DEF t, pc
    <3> QED
      BY <2>1, <2>2, <2>3 DEF TxOK, LockPhase, LockRow, Found
  <2>5. ASSUME NEW u \in Sessions \ {s} PROVE Apart(t, tx[u])
    <3>1. ~ (tx[u].pc \in {"updated", "deleted"} /\ tx[u].call.id = call.id)
      BY DEF LockKey, KeyHolders
    <3>2. Apart(tx[s], tx[u])
      BY DEF Isolated
    <3> HIDE DEF t, pc
    <3> QED
      BY <2>2, <2>3, <3>1, <3>2 DEF Apart
  <2> QED
    BY <1>2, <2>4, <2>5, BecomesIsolated DEF LockKey, Typed
<1> QED
  BY <1>1, <1>2 DEF LockKey, Outcomes

LEMMA InsertKeyIsolated ==
    ASSUME Typed, Isolated, NEW s \in Sessions, InsertKey(s)
    PROVE  Isolated'
<1> DEFINE call == tx[s].call
           pc(id) == IF Wanted(call) \subseteq tx[s].claim \cup {id}
                     THEN "inserted" ELSE "insert"
           t(id) == [tx[s] EXCEPT !.pc = pc(id), !.claim = tx[s].claim \cup {id}]
<1>1. CASE \E o \in Outcomes : End(s, o)
  BY <1>1, EndIsolated DEF InsertKey, Typed
<1>2. ASSUME NEW id \in Wanted(call), KeyWriters(s, id) = {}, keys[id] = Nil,
             Becomes(s, t(id))
      PROVE  Isolated'
  <2>1. tx[s] \in Transactions /\ tx[s].pc = "insert" /\ TxOK(tx[s])
    BY DEF InsertKey, At, Typed, TypeOK, Isolated
  <2>2. pc(id) \in {"insert", "inserted"}
    OBVIOUS
  <2>3. /\ t(id).pc = pc(id) /\ t(id).held = tx[s].held
        /\ t(id).claim = tx[s].claim \cup {id}
    BY <2>1 DEF Transactions
  <2>4. TxOK(t(id))
    <3> HIDE DEF t, pc
    <3> QED
      BY <1>2, <2>1, <2>2, <2>3 DEF TxOK, LockPhase, LockRow, Found
  <2>5. ASSUME NEW u \in Sessions \ {s} PROVE Apart(t(id), tx[u])
    <3>1. id \notin tx[u].claim
      BY <1>2 DEF KeyWriters
    <3>2. Apart(tx[s], tx[u])
      BY DEF Isolated
    <3> HIDE DEF t, pc
    <3> QED
      BY <2>2, <2>3, <3>1, <3>2 DEF Apart
  <2> QED
    BY <1>2, <2>4, <2>5, BecomesIsolated DEF InsertKey, Typed
<1> QED
  BY <1>1, <1>2 DEF InsertKey, Outcomes

LEMMA SelectNoCatalogIsolated ==
    ASSUME Typed, Isolated, NEW s \in Sessions, SelectNoCatalog(s)
    PROVE  Isolated'
<1> DEFINE t == [tx[s] EXCEPT !.pc = "upsert", !.seen = Nil, !.conf = Conf(tx[s].call)]
<1>1. tx[s] \in Transactions /\ tx[s].pc = "catalog" /\ TxOK(tx[s])
  BY DEF SelectNoCatalog, At, Typed, TypeOK, Isolated
<1>2. t.pc = "upsert" /\ t.held = tx[s].held /\ t.claim = tx[s].claim
  BY <1>1 DEF Transactions
<1>3. t.held = "none"
  BY <1>1, <1>2 DEF TxOK, LockPhase, Transactions, LockModes
<1>4. TxOK(t)
  <2> HIDE DEF t
  <2> QED
    BY <1>1, <1>2, <1>3 DEF TxOK, LockPhase, LockRow, Found
<1>5. ASSUME NEW u \in Sessions \ {s} PROVE Apart(t, tx[u])
  <2>1. Apart(tx[s], tx[u])
    BY DEF Isolated
  <2> HIDE DEF t
  <2> QED
    BY <1>2, <2>1 DEF Apart
<1> QED
  BY <1>4, <1>5, BecomesIsolated DEF SelectNoCatalog, Typed

LEMMA SelectCatalogIsolated ==
    ASSUME Typed, Isolated, NEW s \in Sessions, SelectCatalog(s)
    PROVE  Isolated'
<1> DEFINE call == tx[s].call
           t1 == [tx[s] EXCEPT !.pc = "upsert", !.held = "update", !.conf = Conf(call)]
           t2 == [tx[s] EXCEPT !.pc = "dropping", !.held = "update"]
<1>1. CASE \E o \in Outcomes : End(s, o)
  BY <1>1, EndIsolated DEF SelectCatalog, Typed
<1>2. /\ tx[s] \in Transactions /\ tx[s].pc = "catalog" /\ catalog # Nil
      /\ TxOK(tx[s])
  BY DEF SelectCatalog, At, Typed, TypeOK, Inc, Isolated
<1>3. ASSUME NEW t, Becomes(s, t), t.held = "update", t.claim = tx[s].claim,
             t.call = call, t.pc \in {"upsert", "dropping"},
             t.pc = "dropping" => Live = {} \/ call.cascade
      PROVE  Isolated'
  <2>1. TxOK(t)
    BY <1>2, <1>3 DEF TxOK, LockPhase, LockRow, Found
  <2>2. ASSUME NEW u \in Sessions \ {s} PROVE Apart(t, tx[u])
    <3>1. tx[u].held \notin {"keyShare", "noKeyUpdate", "update"}
      BY DEF SelectCatalog, CatalogHolders
    <3>2. Apart(tx[s], tx[u])
      BY DEF Isolated
    <3> QED
      BY <1>3, <3>1, <3>2 DEF Apart, Conflict
  <2> QED
    BY <1>3, <2>1, <2>2, BecomesIsolated DEF SelectCatalog, Typed
<1>4. CASE Becomes(s, t1)
  <2>1. /\ t1.held = "update" /\ t1.claim = tx[s].claim /\ t1.call = call
        /\ t1.pc = "upsert"
    BY <1>2 DEF Transactions
  <2> HIDE DEF t1
  <2> QED
    BY <1>3, <1>4, <2>1
<1>5. CASE Becomes(s, t2) /\ (Live = {} \/ call.cascade)
  <2>1. /\ t2.held = "update" /\ t2.claim = tx[s].claim /\ t2.call = call
        /\ t2.pc = "dropping"
    BY <1>2 DEF Transactions
  <2> HIDE DEF t2
  <2> QED
    BY <1>3, <1>5, <2>1
<1> QED
  BY <1>1, <1>4, <1>5 DEF SelectCatalog, Outcomes

LEMMA UpsertIsolated ==
    ASSUME Typed, Isolated, NEW s \in Sessions, Upsert(s)
    PROVE  Isolated'
<1> DEFINE held == IF tx[s].held = "update" THEN "update"
                   ELSE IF catalog = Nil THEN "insert" ELSE "noKeyUpdate"
           t == [tx[s] EXCEPT !.pc = "installed", !.held = held]
<1>1. tx[s] \in Transactions /\ tx[s].pc = "upsert" /\ TxOK(tx[s])
  BY DEF Upsert, Typed, TypeOK, Isolated
<1>2. Becomes(s, t)
  BY DEF Upsert
<1>3. t.pc = "installed" /\ t.held = held /\ t.claim = tx[s].claim
  BY <1>1 DEF Transactions
<1>4. TxOK(t)
  <2> HIDE DEF t
  <2> QED
    BY <1>1, <1>3 DEF TxOK, LockPhase, LockRow, Found
<1>5. ASSUME NEW u \in Sessions \ {s} PROVE Apart(t, tx[u])
  <2>1. Apart(tx[s], tx[u]) /\ tx[u].held \notin {"noKeyUpdate", "update", "insert"}
    BY DEF Isolated, Upsert, CatalogHolders
  <2> HIDE DEF t
  <2> QED
    BY <1>3, <2>1 DEF Apart, Conflict
<1> QED
  BY <1>2, <1>4, <1>5, BecomesIsolated DEF Upsert, Typed

\* A call that only reads, or has only begun, holds nothing.
LEMMA ReadIsolated ==
    ASSUME Typed, Isolated, NEW s \in Sessions, ReadStep(s)
    PROVE  Isolated'
<1> DEFINE call == tx[s].call
           row  == rows[call.id][tx[s].key.part]
           Reading == {"catalog", "locator", "row", "merge"}
           t1 == [tx[s] EXCEPT !.pc = "locator", !.seen = Nil, !.conf = Conf(catalog)]
           t2 == [tx[s] EXCEPT !.pc = "row", !.key = keys[call.id]]
           t3 == [tx[s] EXCEPT !.pc = "merge", !.key = Nil, !.row = row]
           t4 == [tx[s] EXCEPT !.pc = "catalog", !.seen = Inc(catalog),
                !.call = [call EXCEPT !.op = "put", !.cond = tx[s].row.version],
                !.conf = Nil, !.row = Nil]
<1>1. /\ UNCHANGED <<database, budget>> /\ tx[s] \in Transactions
      /\ tx[s].pc \in Reading /\ TxOK(tx[s])
  BY DEF ReadStep, ReadCatalog, ReadLocator, ReadRow, Merge, At, Typed, TypeOK, Isolated
<1>2. tx[s].held = "none" /\ tx[s].claim = {}
  BY <1>1 DEF TxOK, LockPhase, Found, Transactions, LockModes
<1>3. CASE \E o \in Outcomes : End(s, o)
  BY <1>1, <1>3, EndIsolated DEF Typed
<1>4. ASSUME NEW t, Becomes(s, t), t.pc \in Reading, t.held = "none", t.claim = {}
      PROVE  Isolated'
  <2>1. TxOK(t) /\ \A u \in Sessions \ {s} : Apart(t, tx[u])
    BY <1>4 DEF TxOK, LockPhase, LockRow, Found, Apart, Conflict
  <2> QED
    BY <1>1, <1>4, <2>1, BecomesIsolated DEF Typed
<1>5. /\ t1.pc = "locator" /\ t1.held = "none" /\ t1.claim = {}
      /\ t2.pc = "row" /\ t2.held = "none" /\ t2.claim = {}
      /\ t3.pc = "merge" /\ t3.held = "none" /\ t3.claim = {}
      /\ t4.pc = "catalog" /\ t4.held = "none" /\ t4.claim = {}
  BY <1>1, <1>2 DEF Transactions
<1>6. \/ \E o \in Outcomes : End(s, o)
      \/ Becomes(s, t1) \/ Becomes(s, t2) \/ Becomes(s, t3) \/ Becomes(s, t4)
  BY DEF ReadStep, ReadCatalog, ReadLocator, ReadRow, Merge, Outcomes
<1> HIDE DEF t1, t2, t3, t4
<1> QED
  BY <1>3, <1>4, <1>5, <1>6

-----------------------------------------------------------------------------
(* The commits.                                                            *)

\* No catalog is deleted while a record transaction holds its row.
LEMMA SharersKeepCatalog ==
    ASSUME Isolated, NEW s \in Sessions, NEW u \in Sessions \ {s},
           tx[s].pc \in {"inserted", "updated", "deleted"}
    PROVE  tx[u].pc # "dropping"
BY DEF Isolated, TxOK, LockPhase, Apart, Conflict

LEMMA CommitInsertSafe ==
    ASSUME Safe, NEW s \in Sessions, CommitInsert(s)
    PROVE  Safe'
<1> DEFINE call == tx[s].call
           part == Slot(tx[s].conf.class, call.doc)
           new == tx[s].claim
<1>1. /\ TypeOK /\ Isolated /\ tx[s].pc = "inserted" /\ TxOK(tx[s])
      /\ call \in RecordCalls \cup BulkCalls /\ new \subseteq Ids
  BY DEF Safe, Typed, TypeOK, Isolated, CommitInsert, PhaseOK, Transactions
<1>2. part \in Parts
  BY <1>1, SlotType DEF RecordCalls, BulkCalls
<1>3. \A id \in new : keys[id] = Nil
  BY <1>1 DEF TxOK, Found
<1>4. \A id \in Ids \ new : keys'[id] = keys[id] /\ rows'[id] = rows[id] /\ links'[id] = links[id]
  BY DEF CommitInsert
<1>5. \A id \in new : /\ keys'[id] = [inc |-> births', class |-> tx[s].conf.class, part |-> part]
                      /\ keys'[id] # Nil /\ keys'[id].part = part
                      /\ rows'[id] = [rows[id] EXCEPT ![part] = [doc |-> call.doc, version |-> FirstVersion]]
                      /\ links'[id] = Derived[call.doc]
  <2>1. [inc |-> births', class |-> tx[s].conf.class, part |-> part] \in KeyRows
    BY <1>1, <1>2 DEF CommitInsert, TypeOK, Safe, Typed, PhaseOK, Configs, KeyRows
  <2> QED
    BY <1>1, <2>1, NilAssumption DEF CommitInsert
<1>6. Typed'
  BY CommitInsertTyped DEF Safe
<1>7. Isolated'
  <2>1. SUFFICES ASSUME NEW u \in Sessions \ {s}
                 PROVE  LockRow(tx[u])' /\ Found(tx[u])'
    BY <1>1, CommitIsolated DEF CommitInsert
  <2>2. Same(u)
    BY <1>1, CommitEffect DEF CommitInsert
  <2>3. TxOK(tx[u]) /\ Apart(tx[s], tx[u]) /\ tx[u].pc # "dropping"
    BY <1>1, SharersKeepCatalog DEF Isolated
  <2>4. LockRow(tx[u])'
    BY <2>2, <2>3 DEF TxOK, LockRow, Same, CommitInsert
  <2>5. \A id \in tx[u].claim : keys'[id] = Nil
    BY <1>1, <1>4, <2>3 DEF TxOK, Found, Apart, TypeOK, Transactions
  <2>6. ASSUME tx[u].pc \in {"updated", "deleted"}
        PROVE  keys'[tx[u].call.id] = tx[u].key /\ rows'[tx[u].call.id] = rows[tx[u].call.id]
    <3>1. tx[u].call.id \in Ids /\ tx[u].key \in KeyRows
      BY <2>6 DEF Safe, Typed, PhaseOK, RecordCalls
    <3>2. keys[tx[u].call.id] # Nil
      BY <2>3, <2>6, <3>1, NilAssumption DEF TxOK, Found
    <3> QED
      BY <1>3, <1>4, <2>3, <2>6, <3>1, <3>2 DEF TxOK, Found
  <2> QED
    BY <2>2, <2>3, <2>4, <2>5, <2>6 DEF TxOK, Found, Same
<1>8. LocatorMatchesRow'
  <2>1. SUFFICES ASSUME NEW id \in Ids, NEW p \in Parts
                 PROVE  rows'[id][p] # Nil <=> keys'[id] # Nil /\ keys'[id].part = p
    BY DEF LocatorMatchesRow
  <2>2. rows[id][p] # Nil <=> keys[id] # Nil /\ keys[id].part = p
    BY DEF Safe, LocatorMatchesRow
  <2>3. CASE id \in new
    <3>1. [doc |-> call.doc, version |-> FirstVersion] # Nil
      <4>1. [doc |-> call.doc, version |-> FirstVersion] \in Rows
        BY <1>1 DEF RecordCalls, BulkCalls, Rows, FirstVersion
      <4> QED
        BY <4>1, NilAssumption
    <3>2. keys'[id] # Nil /\ keys'[id].part = part
      BY <1>5, <2>3
    <3>3. rows[id] \in [Parts -> Rows \cup {Nil}] /\ rows[id][p] = Nil
      BY <1>1, <1>3, <2>2, <2>3 DEF TypeOK
    <3>4. rows'[id][p] = IF p = part THEN [doc |-> call.doc, version |-> FirstVersion]
                         ELSE Nil
      BY <1>5, <2>3, <3>3
    <3> QED
      BY <3>1, <3>2, <3>4
  <2>4. CASE id \notin new
    BY <1>4, <2>2, <2>4
  <2> QED
    BY <2>3, <2>4
<1>9. LinksMatchDocument'
  <2>1. SUFFICES ASSUME NEW id \in Ids
                 PROVE  links'[id] = IF keys'[id] = Nil THEN {}
                                     ELSE Derived[rows'[id][keys'[id].part].doc]
    BY DEF LinksMatchDocument
  <2>2. CASE id \in new
    <3>1. keys'[id] # Nil /\ keys'[id].part = part /\ links'[id] = Derived[call.doc]
      BY <1>5, <2>2
    <3>2. rows[id] \in [Parts -> Rows \cup {Nil}]
      BY <1>1 DEF TypeOK
    <3>3. rows'[id][part] = [doc |-> call.doc, version |-> FirstVersion]
      BY <1>2, <1>5, <2>2, <3>2
    <3>4. rows'[id][part].doc = call.doc
      BY <3>3
    <3> QED
      BY <3>1, <3>4
  <2>3. CASE id \notin new
    BY <1>4, <2>3 DEF Safe, LinksMatchDocument
  <2> QED
    BY <2>2, <2>3
<1> QED
  BY <1>6, <1>7, <1>8, <1>9 DEF Safe

\* What a transaction about to replace or delete a record knows of it.
LEMMA OwnedRecord ==
    ASSUME Safe, NEW s \in Sessions, tx[s].pc \in {"updated", "deleted"}
    PROVE  /\ tx[s].call \in RecordCalls /\ tx[s].call.id \in Ids
           /\ tx[s].key \in KeyRows /\ tx[s].key # Nil /\ tx[s].key.part \in Parts
           /\ tx[s].row \in Rows
           /\ keys[tx[s].call.id] = tx[s].key
           /\ rows[tx[s].call.id][tx[s].key.part] = tx[s].row
BY NilAssumption DEF Safe, Typed, PhaseOK, RecordCalls, KeyRows, Isolated, TxOK, Found

\* The other transactions do not see a change of a record that s owns.
LEMMA OwnedIsolated ==
    ASSUME Safe, NEW s \in Sessions, tx[s].pc \in {"updated", "deleted"},
           EndCommitted(s), catalog' = catalog,
           \A id \in Ids \ {tx[s].call.id} : keys'[id] = keys[id] /\ rows'[id] = rows[id],
           keys'[tx[s].call.id] \in {Nil, keys[tx[s].call.id]}
    PROVE  Isolated'
<1>1. TypeOK /\ Isolated
  BY DEF Safe, Typed
<1>2. SUFFICES ASSUME NEW u \in Sessions \ {s}
               PROVE  LockRow(tx[u])' /\ Found(tx[u])'
  BY <1>1, CommitIsolated
<1>3. Same(u)
  BY <1>1, CommitEffect
<1>4. TxOK(tx[u]) /\ Apart(tx[s], tx[u]) /\ tx[u].pc # "dropping"
  BY <1>1, SharersKeepCatalog DEF Isolated
<1>5. LockRow(tx[u])'
  BY <1>3, <1>4 DEF TxOK, LockRow, Same
<1>6. \A id \in tx[u].claim : keys'[id] = Nil
  BY <1>1, <1>4 DEF TxOK, Found, TypeOK, Transactions
<1>7. ASSUME tx[u].pc \in {"updated", "deleted"}
      PROVE  keys'[tx[u].call.id] = tx[u].key
             /\ rows'[tx[u].call.id][tx[u].key.part] = tx[u].row
  <2>1. tx[u].call.id \in Ids \ {tx[s].call.id}
    BY <1>4, <1>7, OwnedRecord DEF Apart
  <2> QED
    BY <1>7, <2>1, OwnedRecord
<1> QED
  BY <1>3, <1>4, <1>5, <1>6, <1>7 DEF TxOK, Found, Same

LEMMA CommitUpdateSafe ==
    ASSUME Safe, NEW s \in Sessions, CommitUpdate(s)
    PROVE  Safe'
<1> DEFINE call == tx[s].call
           new == [doc |-> call.doc, version |-> NextVersion(tx[s].row)]
<1>1. /\ TypeOK /\ EndCommitted(s) /\ keys' = keys /\ catalog' = catalog
      /\ tx[s].pc = "updated"
      /\ rows' = [rows EXCEPT ![call.id][tx[s].key.part] = new]
      /\ links' = [links EXCEPT ![call.id] = Relink(links[call.id], call.doc)]
  BY DEF CommitUpdate, Safe, Typed
<1>2. /\ call \in RecordCalls /\ call.id \in Ids
      /\ tx[s].key \in KeyRows /\ tx[s].key # Nil /\ tx[s].key.part \in Parts
      /\ tx[s].row \in Rows /\ keys[call.id] = tx[s].key
      /\ rows[call.id][tx[s].key.part] = tx[s].row
  BY <1>1, OwnedRecord
<1>3. new \in Rows /\ new # Nil
  <2>1. new \in Rows
    BY <1>2 DEF RecordCalls, Rows, NextVersion
  <2> QED
    BY <2>1, NilAssumption
<1> HIDE DEF new
<1>4. Typed'
  BY CommitUpdateTyped DEF Safe
<1>5. Isolated'
  BY <1>1, <1>2, OwnedIsolated DEF TypeOK
<1>6. \A id \in Ids, p \in Parts : (rows'[id][p] # Nil <=> rows[id][p] # Nil)
  BY <1>1, <1>2, <1>3, NilAssumption DEF TypeOK
<1>7. LocatorMatchesRow'
  BY <1>1, <1>6 DEF Safe, LocatorMatchesRow
<1>8. LinksMatchDocument'
  <2>1. SUFFICES ASSUME NEW id \in Ids
                 PROVE  links'[id] = IF keys'[id] = Nil THEN {}
                                     ELSE Derived[rows'[id][keys'[id].part].doc]
    BY DEF LinksMatchDocument
  <2>2. CASE id = call.id
    <3>1. rows'[id][keys'[id].part] = new
      BY <1>1, <1>2, <2>2 DEF TypeOK
    <3>2. links'[id] = Derived[call.doc]
      BY <1>1, <2>2 DEF TypeOK, Relink
    <3>3. new.doc = call.doc
      BY DEF new
    <3>4. keys'[id] # Nil
      BY <1>1, <1>2, <2>2
    <3> QED
      BY <3>1, <3>2, <3>3, <3>4
  <2>3. CASE id # call.id
    BY <1>1, <2>3 DEF Safe, LinksMatchDocument, TypeOK
  <2> QED
    BY <2>2, <2>3
<1> QED
  BY <1>4, <1>5, <1>7, <1>8 DEF Safe

LEMMA CommitDeleteSafe ==
    ASSUME Safe, NEW s \in Sessions, CommitDelete(s)
    PROVE  Safe'
<1> DEFINE id == tx[s].call.id
<1>1. /\ TypeOK /\ EndCommitted(s) /\ catalog' = catalog /\ tx[s].pc = "deleted"
      /\ rows' = [rows EXCEPT ![id][tx[s].key.part] = Nil]
      /\ keys' = [keys EXCEPT ![id] = Nil]
      /\ links' = [links EXCEPT ![id] = {}]
  BY DEF CommitDelete, Safe, Typed
<1>2. /\ id \in Ids /\ tx[s].key.part \in Parts /\ tx[s].key # Nil
      /\ keys[id] = tx[s].key
  BY <1>1, OwnedRecord
<1>3. \A i \in Ids \ {id} : keys'[i] = keys[i] /\ rows'[i] = rows[i] /\ links'[i] = links[i]
  BY <1>1 DEF TypeOK
<1>4. keys'[id] = Nil /\ links'[id] = {}
  BY <1>1, <1>2 DEF TypeOK
<1>5. Typed'
  BY CommitDeleteTyped DEF Safe
<1>6. Isolated'
  BY <1>1, <1>3, <1>4, OwnedIsolated
<1>7. ASSUME NEW p \in Parts PROVE rows'[id][p] = Nil
  <2>1. rows[id][p] # Nil <=> keys[id].part = p
    BY <1>2 DEF Safe, LocatorMatchesRow
  <2> QED
    BY <1>1, <1>2, <2>1 DEF TypeOK
<1>8. LocatorMatchesRow'
  BY <1>3, <1>4, <1>7 DEF Safe, LocatorMatchesRow
<1>9. LinksMatchDocument'
  BY <1>3, <1>4 DEF Safe, LinksMatchDocument
<1> QED
  BY <1>5, <1>6, <1>8, <1>9 DEF Safe

\* The consistency of the tables is a matter of three of them.
LEMMA TablesUnchanged ==
    ASSUME LocatorMatchesRow, LinksMatchDocument, UNCHANGED <<keys, rows, links>>
    PROVE  LocatorMatchesRow' /\ LinksMatchDocument'
<1>1. keys' = keys /\ rows' = rows /\ links' = links
  OBVIOUS
<1>2. LocatorMatchesRow'
  BY <1>1 DEF LocatorMatchesRow
<1>3. LinksMatchDocument'
  BY <1>1 DEF LinksMatchDocument
<1> QED
  BY <1>2, <1>3

LEMMA CommitApplySafe ==
    ASSUME Safe, NEW s \in Sessions, CommitApply(s)
    PROVE  Safe'
<1>1. /\ TypeOK /\ Isolated /\ EndCommitted(s) /\ tx[s].pc = "installed"
      /\ keys' = keys /\ rows' = rows /\ links' = links
  BY DEF CommitApply, Safe, Typed
<1>2. TxOK(tx[s])
  BY <1>1 DEF Isolated
<1>3. tx[s].held \in {"noKeyUpdate", "update", "insert"}
      /\ (tx[s].held # "insert" => catalog # Nil)
  BY <1>1, <1>2 DEF TxOK, LockPhase, LockRow
<1>4. Typed'
  BY <1>3, CommitApplyTyped DEF Safe
<1>5. catalog' # Nil
  <2>1. tx[s].conf \in Configs
    BY DEF Safe, Typed, PhaseOK, CommitApply
  <2>2. births' \in Nat
    BY <1>4 DEF Typed, TypeOK
  <2>3. catalog' \in CatalogRows
    BY <1>3, <2>1, <2>2 DEF Safe, Typed, TypeOK, CommitApply, CatalogRows, Configs
  <2> QED
    BY <2>3, NilAssumption
<1>6. Isolated'
  <2>1. SUFFICES ASSUME NEW u \in Sessions \ {s}
                 PROVE  LockRow(tx[u])' /\ Found(tx[u])'
    BY <1>1, CommitIsolated
  <2>2. Same(u) /\ TxOK(tx[u]) /\ Apart(tx[s], tx[u])
    BY <1>1, CommitEffect DEF Isolated
  <2>3. tx[u].held # "insert"
    BY <1>2, <1>3, <2>2 DEF TxOK, LockRow, Apart, Conflict
  <2>4. LockRow(tx[u])'
    BY <1>5, <2>2, <2>3 DEF LockRow, Same
  <2>5. Found(tx[u])'
    BY <1>1, <2>2 DEF TxOK, Found, Same, Live
  <2> QED
    BY <2>4, <2>5
<1>7. LocatorMatchesRow' /\ LinksMatchDocument'
  BY <1>1 DEF Safe, LocatorMatchesRow, LinksMatchDocument
<1> QED
  BY <1>4, <1>6, <1>7 DEF Safe

LEMMA CommitDropSafe ==
    ASSUME Safe, NEW s \in Sessions, CommitDrop(s)
    PROVE  Safe'
<1>1. /\ TypeOK /\ Isolated /\ EndCommitted(s) /\ tx[s].pc = "dropping"
      /\ catalog' = Nil
  BY DEF CommitDrop, Safe, Typed
<1>2. Typed'
  BY CommitDropTyped DEF Safe
<1>3. tx[s].held = "update" /\ catalog # Nil
  BY <1>1 DEF Isolated, TxOK, LockPhase, LockRow
<1>4. \/ keys' = keys /\ rows' = rows /\ links' = links
      \/ \A id \in Ids : /\ keys'[id] = Nil /\ links'[id] = {}
                         /\ rows'[id] = [p \in Parts |-> Nil]
  BY <1>1 DEF CommitDrop, TypeOK
<1>5. Isolated'
  <2>1. SUFFICES ASSUME NEW u \in Sessions \ {s}
                 PROVE  LockRow(tx[u])' /\ Found(tx[u])'
    BY <1>1, CommitIsolated
  <2>2. Same(u) /\ TxOK(tx[u]) /\ Apart(tx[s], tx[u])
    BY <1>1, CommitEffect DEF Isolated
  <2>3. tx[u].held \notin {"keyShare", "noKeyUpdate", "update"}
    BY <1>3, <2>2 DEF Apart, Conflict
  <2>4. LockRow(tx[u])'
    BY <1>1, <2>2, <2>3 DEF LockRow, Same
  <2>5. /\ tx[u].pc \notin {"insert", "inserted", "updated", "deleted", "dropping"}
        /\ tx[u].claim = {}
    BY <2>2, <2>3 DEF TxOK, LockPhase, Found
  <2>6. Found(tx[u])'
    BY <2>2, <2>5 DEF Found, Same
  <2> QED
    BY <2>4, <2>6
<1>6. CASE keys' = keys /\ rows' = rows /\ links' = links
  BY <1>2, <1>5, <1>6, TablesUnchanged DEF Safe
<1>7. CASE \A id \in Ids : /\ keys'[id] = Nil /\ links'[id] = {}
                           /\ rows'[id] = [p \in Parts |-> Nil]
  <2>1. LocatorMatchesRow'
    BY <1>7 DEF LocatorMatchesRow
  <2>2. LinksMatchDocument'
    BY <1>7 DEF LinksMatchDocument
  <2> QED
    BY <1>2, <1>5, <2>1, <2>2 DEF Safe
<1> QED
  BY <1>4, <1>6, <1>7

-----------------------------------------------------------------------------
(* Every step.                                                             *)

LEMMA InitSafe == Init => Safe
<1> SUFFICES ASSUME Init PROVE Safe
  OBVIOUS
<1>1. Fresh \in Transactions /\ Ended(Fresh) /\ PhaseOK(Fresh)
  BY DEF Fresh, Transactions, Phases, LockModes, Outcomes, Ended, PhaseOK
<1>2. Typed
  BY <1>1, BudgetAssumption DEF Init, Typed, TypeOK
<1>3. Isolated
  BY <1>1, EndedIsolated DEF Init, Isolated
<1>4. LocatorMatchesRow
  BY DEF Init, LocatorMatchesRow
<1>5. LinksMatchDocument
  BY DEF Init, LinksMatchDocument
<1> QED
  BY <1>2, <1>3, <1>4, <1>5 DEF Safe

LEMMA NextSafe == Safe /\ [Next]_vars => Safe'
<1> SUFFICES ASSUME Safe, [Next]_vars PROVE Safe'
  OBVIOUS
<1> USE DEF Safe
<1>1. UNCHANGED <<keys, rows, links>> => LocatorMatchesRow' /\ LinksMatchDocument'
  BY TablesUnchanged
<1>2. ASSUME NEW s \in Sessions, Call(s) PROVE Safe'
  BY <1>1, <1>2, CallTyped, CallIsolated DEF Call, database
<1>3. ASSUME NEW s \in Sessions, RecordStep(s) PROVE Safe'
  <2>1. CASE CatalogMissing(s)
    BY <1>1, <2>1, EndTyped, EndIsolated DEF CatalogMissing, Outcomes, database, Typed
  <2>2. CASE LockCatalog(s)
    BY <1>1, <2>2, LockCatalogTyped, LockCatalogIsolated DEF LockCatalog, database
  <2>3. CASE KeyMissing(s)
    BY <1>1, <2>3, KeyTyped, KeyMissingIsolated DEF KeyMissing, database
  <2>4. CASE LockKey(s)
    BY <1>1, <2>4, KeyTyped, LockKeyIsolated DEF LockKey, database
  <2>5. CASE InsertKey(s)
    BY <1>1, <2>5, InsertKeyTyped, InsertKeyIsolated DEF InsertKey, database
  <2> QED
    BY <1>3, <2>1, <2>2, <2>3, <2>4, <2>5,
       CommitInsertSafe, CommitUpdateSafe, CommitDeleteSafe DEF RecordStep
<1>4. ASSUME NEW s \in Sessions, AdminStep(s) PROVE Safe'
  <2>1. CASE SelectNoCatalog(s)
    BY <1>1, <2>1, SelectTyped, SelectNoCatalogIsolated DEF SelectNoCatalog, database
  <2>2. CASE SelectCatalog(s)
    BY <1>1, <2>2, SelectTyped, SelectCatalogIsolated DEF SelectCatalog, database
  <2>3. CASE Upsert(s)
    BY <1>1, <2>3, UpsertTyped, UpsertIsolated DEF Upsert, database
  <2> QED
    BY <1>4, <2>1, <2>2, <2>3, CommitApplySafe, CommitDropSafe DEF AdminStep
<1>5. ASSUME NEW s \in Sessions, ReadStep(s) PROVE Safe'
  <2>1. UNCHANGED <<keys, rows, links>>
    BY <1>5 DEF ReadStep, ReadCatalog, ReadLocator, ReadRow, Merge, database
  <2> QED
    BY <1>1, <1>5, <2>1, ReadTyped, ReadIsolated
<1>6. ASSUME NEW s \in Sessions, Abort(s) \/ DetectDeadlock(s) PROVE Safe'
  BY <1>1, <1>6, EndTyped, EndIsolated DEF Abort, DetectDeadlock, Outcomes, database, Typed
<1>7. CASE UNCHANGED vars
  BY <1>7 DEF vars, Typed, TypeOK, Isolated, TxOK, LockPhase, LockRow, Found, Live,
              Apart, LocatorMatchesRow, LinksMatchDocument
<1> QED
  BY <1>2, <1>3, <1>4, <1>5, <1>6, <1>7 DEF Next, Step, Done

LEMMA AlwaysSafe == Spec => []Safe
BY InitSafe, NextSafe, PTL DEF Spec

-----------------------------------------------------------------------------
(* The theorems.                                                           *)

\* Tables and transactions stay within their types.
THEOREM TypeCorrect == Spec => []TypeOK
<1>1. Safe => TypeOK
  BY DEF Safe, Typed
<1> QED
  BY <1>1, AlwaysSafe, PTL

\* A record row is where its locator says, and nowhere else.
THEOREM LocatorsCorrect == Spec => []LocatorMatchesRow
<1>1. Safe => LocatorMatchesRow
  BY DEF Safe
<1> QED
  BY <1>1, AlwaysSafe, PTL

\* The external identifiers are those of the stored document.
THEOREM LinksCorrect == Spec => []LinksMatchDocument
<1>1. Safe => LinksMatchDocument
  BY DEF Safe
<1> QED
  BY <1>1, AlwaysSafe, PTL

\* No update is lost: what a transaction replaces is what it has compared.
THEOREM NoLostUpdate == Spec => []WritesOverWhatItRead
<1>1. Safe => WritesOverWhatItRead
  BY DEF Safe, Isolated, TxOK, Found, WritesOverWhatItRead
<1> QED
  BY <1>1, AlwaysSafe, PTL

\* Deleting a catalog without cascade takes no record with it.
THEOREM DropCorrect == Spec => DropKeepsRecords
<1>1. Safe /\ [Next]_vars =>
          [\A s \in Sessions :
             tx[s].pc = "dropping" /\ catalog # Nil /\ catalog' = Nil /\ ~ tx[s].call.cascade
               => Live = {}]_vars
  BY DEF Safe, Isolated, TxOK, Found
<1> QED
  BY <1>1, AlwaysSafe, PTL DEF Spec, DropKeepsRecords

\* The steps that change a table are the commits.
LEMMA OnlyCommits ==
    ASSUME [Next]_vars, ~ UNCHANGED <<keys, rows>>
    PROVE  \E s \in Sessions : \/ CommitInsert(s) \/ CommitUpdate(s)
                               \/ CommitDelete(s) \/ CommitDrop(s)
<1>1. ASSUME NEW s \in Sessions, RecordStep(s)
      PROVE  CommitInsert(s) \/ CommitUpdate(s) \/ CommitDelete(s)
  BY <1>1 DEF RecordStep, CatalogMissing, LockCatalog, KeyMissing, LockKey, InsertKey, database
<1>2. ASSUME NEW s \in Sessions, AdminStep(s)
      PROVE  CommitDrop(s)
  BY <1>2 DEF AdminStep, SelectNoCatalog, SelectCatalog, Upsert, CommitApply, database
<1>3. ASSUME NEW s \in Sessions, ReadStep(s)
      PROVE  FALSE
  BY <1>3 DEF ReadStep, ReadCatalog, ReadLocator, ReadRow, Merge, database
<1>4. ASSUME NEW s \in Sessions, Call(s) \/ Abort(s) \/ DetectDeadlock(s)
      PROVE  FALSE
  BY <1>4 DEF Call, Abort, DetectDeadlock, database
<1> QED
  BY <1>1, <1>2, <1>3, <1>4 DEF Next, Step, Done, vars

\* A replaced record keeps its locator and its version counts up by one.
THEOREM ReplacementsCount == Spec => ReplacementCounts
<1> DEFINE Counts(id) ==
        /\ keys'[id] = keys[id]
        /\ rows'[id][keys[id].part].version = rows[id][keys[id].part].version + 1
<1>1. ASSUME Safe, [Next]_vars, NEW id \in Ids,
             keys[id] # Nil, keys'[id] # Nil, rows'[id] # rows[id]
      PROVE  Counts(id)
  <2>1. PICK s \in Sessions : \/ CommitInsert(s) \/ CommitUpdate(s)
                              \/ CommitDelete(s) \/ CommitDrop(s)
    BY <1>1, OnlyCommits
  <2>2. TypeOK /\ TxOK(tx[s])
    BY <1>1 DEF Safe, Typed, Isolated
  <2>3. CASE CommitInsert(s)
    <3>1. id \notin tx[s].claim
      BY <1>1, <2>2 DEF TxOK, Found
    <3> QED
      BY <1>1, <2>3, <3>1 DEF CommitInsert
  <2>4. CASE CommitUpdate(s)
    <3>1. tx[s].pc = "updated"
      BY <2>4 DEF CommitUpdate
    <3>2. /\ tx[s].call.id \in Ids /\ tx[s].key.part \in Parts /\ tx[s].row \in Rows
          /\ keys[tx[s].call.id] = tx[s].key
          /\ rows[tx[s].call.id][tx[s].key.part] = tx[s].row
      BY <1>1, <3>1, OwnedRecord
    <3>3. id = tx[s].call.id
      BY <1>1, <2>2, <2>4 DEF CommitUpdate, TypeOK
    <3>4. rows'[id][tx[s].key.part].version = NextVersion(tx[s].row)
      BY <2>2, <2>4, <3>2, <3>3 DEF CommitUpdate, TypeOK
    <3> QED
      BY <2>4, <3>2, <3>3, <3>4 DEF CommitUpdate, NextVersion
  <2>5. CASE CommitDelete(s)
    BY <1>1, <2>2, <2>5 DEF CommitDelete, TypeOK
  <2>6. CASE CommitDrop(s)
    BY <1>1, <2>2, <2>6 DEF CommitDrop, TypeOK
  <2> QED
    BY <2>1, <2>3, <2>4, <2>5, <2>6
<1>2. Safe /\ [Next]_vars =>
          [\A id \in Ids : keys[id] # Nil /\ keys'[id] # Nil /\ rows'[id] # rows[id]
                               => Counts(id)]_vars
  BY <1>1
<1> QED
  BY <1>2, AlwaysSafe, PTL DEF Spec, ReplacementCounts

-----------------------------------------------------------------------------
(***************************************************************************)
(* TlonStore implements the atomic store of RecordStore, its records are   *)
(* valid under the configuration in force, and its ErrNotFound is true, as *)
(* long as at most one of its sessions configures the catalog.  Any number *)
(* of sessions may delete it.                                              *)
(***************************************************************************)

\* ApplyCatalog of an absent catalog takes no lock and checks nothing, so all
\* of this rests on its callers: they take turns.
OneConfigurer ==
    \A s, t \in Sessions :
        MayCall[s] \cap ApplyCalls # {} /\ MayCall[t] \cap ApplyCalls # {} => s = t

-----------------------------------------------------------------------------
(* The inductive invariant.                                                *)

\* Every record is where and what the configuration in force wants it to be.
InForce ==
    \A id \in Live :
        LET doc == rows[id][keys[id].part].doc IN
        /\ catalog # Nil
        /\ keys[id].class = catalog.class
        /\ keys[id].part = Slot(catalog.class, doc)
        /\ doc \in Accepts[catalog.schema]
        /\ Placeable(catalog.class, doc)

\* What a record transaction is about to write has passed its checks.
Vetted(t) ==
    /\ t.pc \in {"key", "insert", "inserted"} /\ t.call.op \in {"create", "put", "bulk"} =>
           t.call.doc \in Accepts[t.conf.schema]
    /\ t.pc \in {"insert", "inserted"} => t.call.op \in {"create", "put", "bulk"}
    /\ t.pc = "inserted" => t.claim # {} /\ Placeable(t.conf.class, t.call.doc)
    /\ t.pc = "updated" => Replaceable(t.call, t.conf, t.key.part)

\* The configuration a transaction has read, or has checked the records
\* against, is still the one in force, or will fit what is stored.
Current(s, t) ==
    /\ t.held = "keyShare" => t.conf = Conf(catalog)
    /\ t.held # "noKeyUpdate"
    /\ t.pc \in {"upsert", "installed"} \/ (t.pc = "catalog" /\ t.call.op = "apply") =>
           t.call \in MayCall[s] \cap ApplyCalls
    /\ t.pc = "catalog" /\ t.call.op = "apply" => catalog = Nil \/ Inc(catalog) = t.seen
    /\ t.pc = "upsert" /\ t.held = "none" => catalog = Nil
    /\ t.pc \in {"upsert", "installed"} /\ t.held = "update" => Reconfigurable(t.conf)

Governed ==
    /\ InForce
    /\ \A s \in Sessions : Vetted(tx[s]) /\ Current(s, tx[s])

-----------------------------------------------------------------------------
(* The steps that leave the tables alone.                                  *)

LEMMA BecomesGoverned ==
    ASSUME TypeOK, Governed, NEW s \in Sessions, NEW t, Becomes(s, t),
           UNCHANGED database, Vetted(t), Current(s, t)
    PROVE  Governed'
<1>1. tx' = [tx EXCEPT ![s] = t] /\ tx \in [Sessions -> Transactions]
  BY DEF Becomes, TypeOK
<1>2. ASSUME NEW u \in Sessions PROVE Vetted(tx'[u]) /\ Current(u, tx'[u])
  BY <1>1 DEF Governed
<1>3. ASSUME NEW u \in Sessions PROVE Vetted(tx[u])' /\ Current(u, tx[u])'
  <2>1. catalog' = catalog /\ keys' = keys /\ rows' = rows
    BY DEF database
  <2>2. Vetted(tx[u])'
    BY <1>2 DEF Vetted, Replaceable, Placeable
  <2>3. Current(u, tx[u])'
    BY <1>2, <2>1 DEF Current, Reconfigurable, Live
  <2> QED
    BY <2>2, <2>3
<1>4. InForce'
  BY DEF Governed, InForce, Live, database, Placeable
<1> QED
  BY <1>3, <1>4 DEF Governed

\* A transaction that has ended stands for nothing.
LEMMA EndedGoverned ==
    ASSUME NEW s, NEW t, Ended(t)
    PROVE  Vetted(t) /\ Current(s, t)
BY DEF Ended, Vetted, Current

LEMMA EndGoverned ==
    ASSUME TypeOK, Governed, NEW s \in Sessions, NEW o \in Outcomes, End(s, o),
           UNCHANGED database
    PROVE  Governed'
BY EndEffect, EndedGoverned, BecomesGoverned

LEMMA CallGoverned ==
    ASSUME Safe, Governed, NEW s \in Sessions, Call(s)
    PROVE  Governed'
<1>1. PICK call \in MayCall[s] :
          Becomes(s, [Fresh EXCEPT !.pc = "catalog", !.call = call,
                                   !.seen = Inc(catalog),
                                   !.absent = Missing(call, catalog, keys)])
  BY DEF Call
<1> DEFINE t == [Fresh EXCEPT !.pc = "catalog", !.call = call,
                              !.seen = Inc(catalog),
                              !.absent = Missing(call, catalog, keys)]
<1>2. call \in Calls
  BY CallAssumption
<1>3. t.pc = "catalog" /\ t.call = call /\ t.seen = Inc(catalog) /\ t.held = "none"
  BY DEF Fresh
<1>4. Vetted(t) /\ Current(s, t)
  <2> HIDE DEF t
  <2> QED
    BY <1>2, <1>3, CallKinds DEF Vetted, Current
<1> QED
  BY <1>1, <1>4, BecomesGoverned DEF Call, Safe, Typed

LEMMA LockCatalogGoverned ==
    ASSUME Safe, Governed, NEW s \in Sessions, LockCatalog(s)
    PROVE  Governed'
<1> DEFINE call == tx[s].call
           located == {id \in Wanted(call) :
                          keys[id] # Nil /\ keys[id].class = catalog.class}
           seen == IF call.op \in {"create", "bulk"} \/ located = {}
                   THEN Nil ELSE keys[call.id].inc
           pc == IF call.op \in {"create", "bulk"} THEN "insert" ELSE "key"
           t == [tx[s] EXCEPT !.pc = pc, !.held = "keyShare",
                    !.conf = Conf(catalog), !.seen = seen]
<1>1. CASE End(s, "invalid")
  BY <1>1, EndGoverned DEF LockCatalog, Outcomes, Safe, Typed
<1>2. CASE /\ Becomes(s, t)
           /\ call.op \in {"create", "put", "bulk"} => call.doc \in Accepts[catalog.schema]
  <2>1. tx[s] \in Transactions /\ call.op \in RecordOps
    BY DEF LockCatalog, At, Safe, Typed, TypeOK
  <2>2. pc \in {"insert", "key"} /\ (pc = "insert" => call.op \in {"create", "bulk"})
    OBVIOUS
  <2>3. /\ t.pc = pc /\ t.held = "keyShare" /\ t.call = call /\ t.conf = Conf(catalog)
    BY <2>1 DEF Transactions
  <2>4. Conf(catalog).schema = catalog.schema
    BY DEF Conf
  <2>5. Vetted(t) /\ Current(s, t)
    <3> HIDE DEF t, pc
    <3> QED
      BY <1>2, <2>1, <2>2, <2>3, <2>4 DEF Vetted, Current
  <2> QED
    BY <1>2, <2>5, BecomesGoverned DEF LockCatalog, Safe, Typed
<1> QED
  BY <1>1, <1>2 DEF LockCatalog

LEMMA KeyMissingGoverned ==
    ASSUME Safe, Governed, NEW s \in Sessions, KeyMissing(s)
    PROVE  Governed'
<1> DEFINE t == [tx[s] EXCEPT !.pc = "insert"]
<1>1. CASE \E o \in Outcomes : End(s, o)
  BY <1>1, EndGoverned DEF KeyMissing, Safe, Typed
<1>2. CASE Becomes(s, t) /\ tx[s].call.op = "put"
  <2>1. tx[s] \in Transactions /\ tx[s].pc = "key" /\ Vetted(tx[s]) /\ Current(s, tx[s])
    BY DEF KeyMissing, At, Safe, Typed, TypeOK, Governed
  <2>2. /\ t.pc = "insert" /\ t.held = tx[s].held /\ t.call = tx[s].call
        /\ t.conf = tx[s].conf
    BY <2>1 DEF Transactions
  <2>3. Vetted(t) /\ Current(s, t)
    <3> HIDE DEF t
    <3> QED
      BY <1>2, <2>1, <2>2 DEF Vetted, Current
  <2> QED
    BY <1>2, <2>3, BecomesGoverned DEF KeyMissing, Safe, Typed
<1> QED
  BY <1>1, <1>2 DEF KeyMissing, Outcomes

LEMMA LockKeyGoverned ==
    ASSUME Safe, Governed, NEW s \in Sessions, LockKey(s)
    PROVE  Governed'
<1> DEFINE call == tx[s].call
           key == keys[call.id]
           row == rows[call.id][key.part]
           pc == IF call.op = "delete" THEN "deleted" ELSE "updated"
           t == [tx[s] EXCEPT !.pc = pc, !.key = key, !.row = row]
<1>1. CASE \E o \in Outcomes : End(s, o)
  BY <1>1, EndGoverned DEF LockKey, Safe, Typed
<1>2. CASE /\ Becomes(s, t)
           /\ call.op = "delete" \/ Replaceable(call, tx[s].conf, key.part)
  <2>1. tx[s] \in Transactions /\ tx[s].pc = "key" /\ Current(s, tx[s])
    BY DEF LockKey, At, Safe, Typed, TypeOK, Governed
  <2>2. pc \in {"deleted", "updated"} /\ (pc = "updated" => call.op # "delete")
    OBVIOUS
  <2>3. /\ t.pc = pc /\ t.held = tx[s].held /\ t.call = call /\ t.key = key
        /\ t.conf = tx[s].conf
    BY <2>1 DEF Transactions
  <2>4. Vetted(t) /\ Current(s, t)
    <3> HIDE DEF t, pc
    <3> QED
      BY <1>2, <2>1, <2>2, <2>3 DEF Vetted, Current
  <2> QED
    BY <1>2, <2>4, BecomesGoverned DEF LockKey, Safe, Typed
<1> QED
  BY <1>1, <1>2 DEF LockKey, Outcomes

LEMMA InsertKeyGoverned ==
    ASSUME Safe, Governed, NEW s \in Sessions, InsertKey(s)
    PROVE  Governed'
<1> DEFINE call == tx[s].call
           pc(id) == IF Wanted(call) \subseteq tx[s].claim \cup {id}
                     THEN "inserted" ELSE "insert"
           t(id) == [tx[s] EXCEPT !.pc = pc(id), !.claim = tx[s].claim \cup {id}]
<1>1. CASE \E o \in Outcomes : End(s, o)
  BY <1>1, EndGoverned DEF InsertKey, Safe, Typed
<1>2. ASSUME NEW id \in Wanted(call), Placeable(tx[s].conf.class, call.doc),
             Becomes(s, t(id))
      PROVE  Governed'
  <2>1. /\ tx[s] \in Transactions /\ tx[s].pc = "insert"
        /\ call.op \in {"create", "put", "bulk"}
        /\ Vetted(tx[s]) /\ Current(s, tx[s])
    BY DEF InsertKey, At, Safe, Typed, TypeOK, Governed
  <2>2. pc(id) \in {"insert", "inserted"}
    OBVIOUS
  <2>3. /\ t(id).pc = pc(id) /\ t(id).held = tx[s].held /\ t(id).call = call
        /\ t(id).conf = tx[s].conf /\ t(id).claim = tx[s].claim \cup {id}
    BY <2>1 DEF Transactions
  <2>4. Vetted(t(id)) /\ Current(s, t(id))
    <3> HIDE DEF t, pc
    <3> QED
      BY <1>2, <2>1, <2>2, <2>3 DEF Vetted, Current
  <2> QED
    BY <1>2, <2>4, BecomesGoverned DEF InsertKey, Safe, Typed
<1> QED
  BY <1>1, <1>2 DEF InsertKey, Outcomes

\* The one administrator who finds no catalog to lock has none to configure.
LEMMA SelectNoCatalogGoverned ==
    ASSUME Safe, Governed, NEW s \in Sessions, SelectNoCatalog(s)
    PROVE  Governed'
<1> DEFINE t == [tx[s] EXCEPT !.pc = "upsert", !.seen = Nil, !.conf = Conf(tx[s].call)]
<1>1. /\ tx[s] \in Transactions /\ tx[s].pc = "catalog" /\ tx[s].call.op = "apply"
      /\ TxOK(tx[s]) /\ Current(s, tx[s])
  BY DEF SelectNoCatalog, At, Safe, Typed, TypeOK, Isolated, Governed
<1>2. t.pc = "upsert" /\ t.held = tx[s].held /\ t.call = tx[s].call
  BY <1>1 DEF Transactions
<1>3. t.held = "none"
  BY <1>1, <1>2 DEF TxOK, LockPhase, Transactions, LockModes
<1>4. catalog = Nil
  <2>1. catalog # Nil => Inc(catalog) \in Nat
    BY DEF Safe, Typed, TypeOK, Inc, CatalogRows
  <2> QED
    BY <1>1, <2>1, NilAssumption DEF SelectNoCatalog, Current
<1>5. Vetted(t) /\ Current(s, t)
  <2> HIDE DEF t
  <2> QED
    BY <1>1, <1>2, <1>3, <1>4 DEF Vetted, Current
<1> QED
  BY <1>5, BecomesGoverned DEF SelectNoCatalog, Safe, Typed

LEMMA SelectCatalogGoverned ==
    ASSUME Safe, Governed, NEW s \in Sessions, SelectCatalog(s)
    PROVE  Governed'
<1> DEFINE call == tx[s].call
           t1 == [tx[s] EXCEPT !.pc = "upsert", !.held = "update", !.conf = Conf(call)]
           t2 == [tx[s] EXCEPT !.pc = "dropping", !.held = "update"]
<1>1. CASE \E o \in Outcomes : End(s, o)
  BY <1>1, EndGoverned DEF SelectCatalog, Safe, Typed
<1>2. tx[s] \in Transactions /\ tx[s].pc = "catalog" /\ Current(s, tx[s])
  BY DEF SelectCatalog, At, Safe, Typed, TypeOK, Governed
<1>3. CASE Becomes(s, t1) /\ call.op = "apply" /\ Reconfigurable(Conf(call))
  <2>1. /\ t1.held = "update" /\ t1.call = call /\ t1.pc = "upsert"
        /\ t1.conf = Conf(call)
    BY <1>2 DEF Transactions
  <2>2. Vetted(t1) /\ Current(s, t1)
    <3> HIDE DEF t1
    <3> QED
      BY <1>2, <1>3, <2>1 DEF Vetted, Current
  <2> QED
    BY <1>3, <2>2, BecomesGoverned DEF SelectCatalog, Safe, Typed
<1>4. CASE Becomes(s, t2)
  <2>1. t2.held = "update" /\ t2.pc = "dropping"
    BY <1>2 DEF Transactions
  <2>2. Vetted(t2) /\ Current(s, t2)
    <3> HIDE DEF t2
    <3> QED
      BY <2>1 DEF Vetted, Current
  <2> QED
    BY <1>4, <2>2, BecomesGoverned DEF SelectCatalog, Safe, Typed
<1> QED
  BY <1>1, <1>3, <1>4 DEF SelectCatalog, Outcomes

LEMMA UpsertGoverned ==
    ASSUME Safe, Governed, NEW s \in Sessions, Upsert(s)
    PROVE  Governed'
<1> DEFINE held == IF tx[s].held = "update" THEN "update"
                   ELSE IF catalog = Nil THEN "insert" ELSE "noKeyUpdate"
           t == [tx[s] EXCEPT !.pc = "installed", !.held = held]
<1>1. /\ tx[s] \in Transactions /\ tx[s].pc = "upsert"
      /\ TxOK(tx[s]) /\ Current(s, tx[s])
  BY DEF Upsert, Safe, Typed, TypeOK, Isolated, Governed
<1>2. Becomes(s, t)
  BY DEF Upsert
<1>3. /\ t.pc = "installed" /\ t.held = held /\ t.call = tx[s].call
      /\ t.conf = tx[s].conf
  BY <1>1 DEF Transactions
<1>4. held \in {"update", "insert"} /\ (held = "update" => tx[s].held = "update")
  BY <1>1 DEF TxOK, LockPhase, Current
<1>5. Vetted(t) /\ Current(s, t)
  <2> HIDE DEF t, held
  <2> QED
    BY <1>1, <1>3, <1>4 DEF Vetted, Current
<1> QED
  BY <1>2, <1>5, BecomesGoverned DEF Upsert, Safe, Typed

LEMMA ReadGoverned ==
    ASSUME Safe, Governed, NEW s \in Sessions, ReadStep(s)
    PROVE  Governed'
<1> DEFINE call == tx[s].call
           row  == rows[call.id][tx[s].key.part]
           put == [call EXCEPT !.op = "put", !.cond = tx[s].row.version]
           t1 == [tx[s] EXCEPT !.pc = "locator", !.seen = Nil, !.conf = Conf(catalog)]
           t2 == [tx[s] EXCEPT !.pc = "row", !.key = keys[call.id]]
           t3 == [tx[s] EXCEPT !.pc = "merge", !.key = Nil, !.row = row]
           t4 == [tx[s] EXCEPT !.pc = "catalog", !.seen = Inc(catalog),
                !.call = put, !.conf = Nil, !.row = Nil]
<1>1. /\ UNCHANGED database /\ tx[s] \in Transactions /\ TypeOK
      /\ tx[s].pc \in {"catalog", "locator", "row", "merge"} /\ TxOK(tx[s])
  BY DEF ReadStep, ReadCatalog, ReadLocator, ReadRow, Merge, At, Safe, Typed, TypeOK, Isolated
<1>2. tx[s].held = "none"
  BY <1>1 DEF TxOK, LockPhase, Transactions, LockModes
<1>3. CASE \E o \in Outcomes : End(s, o)
  BY <1>1, <1>3, EndGoverned
<1>4. ASSUME NEW t, Becomes(s, t), t.held = "none",
             t.pc \in {"locator", "row", "merge"} \/ (t.pc = "catalog" /\ t.call.op = "put")
      PROVE  Governed'
  <2>1. Vetted(t) /\ Current(s, t)
    BY <1>4 DEF Vetted, Current
  <2> QED
    BY <1>1, <1>4, <2>1, BecomesGoverned
<1>5. /\ t1.pc = "locator" /\ t1.held = "none"
      /\ t2.pc = "row" /\ t2.held = "none"
      /\ t3.pc = "merge" /\ t3.held = "none"
      /\ t4.pc = "catalog" /\ t4.held = "none" /\ t4.call = put
  BY <1>1, <1>2 DEF Transactions
<1>6. CASE Merge(s) /\ Becomes(s, t4)
  <2>1. call \in RecordCalls
    BY <1>6 DEF Merge, Safe, Typed, PhaseOK
  <2>2. put.op = "put"
    BY <2>1 DEF RecordCalls
  <2> HIDE DEF t4, put
  <2> QED
    BY <1>4, <1>5, <1>6, <2>2
<1>7. \/ \E o \in Outcomes : End(s, o)
      \/ Becomes(s, t1) \/ Becomes(s, t2) \/ Becomes(s, t3) \/ (Merge(s) /\ Becomes(s, t4))
  BY DEF ReadStep, ReadCatalog, ReadLocator, ReadRow, Merge, Outcomes
<1> HIDE DEF t1, t2, t3, t4
<1> QED
  BY <1>3, <1>4, <1>5, <1>6, <1>7

-----------------------------------------------------------------------------
(* The commits.                                                            *)

LEMMA CommitGoverned ==
    ASSUME TypeOK, Governed, NEW s \in Sessions, EndCommitted(s), InForce',
           \A u \in Sessions \ {s} : Current(u, tx[u])'
    PROVE  Governed'
<1>1. Ended(tx'[s]) /\ \A u \in Sessions \ {s} : Same(u)
  BY CommitEffect
<1>2. Vetted(tx[s])' /\ Current(s, tx[s])'
  BY <1>1 DEF Ended, Vetted, Current
<1>3. ASSUME NEW u \in Sessions \ {s} PROVE Vetted(tx[u])'
  BY <1>1 DEF Governed, Vetted, Same, Replaceable, Placeable
<1> QED
  BY <1>2, <1>3 DEF Governed

\* While a record transaction holds the catalogs row, nobody has checked the
\* records against another configuration.
LEMMA SharersCurrent ==
    ASSUME Safe, Governed, NEW s \in Sessions, EndCommitted(s), catalog' = catalog,
           tx[s].pc \in {"inserted", "updated", "deleted"}
    PROVE  \A u \in Sessions \ {s} : Current(u, tx[u])'
<1> SUFFICES ASSUME NEW u \in Sessions \ {s} PROVE Current(u, tx[u])'
  OBVIOUS
<1>1. Same(u)
  BY CommitEffect DEF Safe, Typed
<1>2. tx[u].held # "update"
  BY DEF Safe, Isolated, TxOK, LockPhase, Apart, Conflict
<1>3. Current(u, tx[u])
  BY DEF Governed
<1> QED
  BY <1>1, <1>2, <1>3 DEF Current, Same

\* A transaction about to write or to delete records has the configuration in
\* force.
LEMMA SharersKnow ==
    ASSUME Safe, Governed, NEW s \in Sessions,
           tx[s].pc \in {"key", "insert", "inserted", "updated", "deleted"}
    PROVE  /\ catalog \in CatalogRows /\ catalog # Nil
           /\ tx[s].conf.class = catalog.class /\ tx[s].conf.schema = catalog.schema
<1>1. tx[s].held = "keyShare"
  BY DEF Safe, Isolated, TxOK, LockPhase
<1>2. catalog # Nil
  BY <1>1 DEF Safe, Isolated, TxOK, LockRow
<1>3. tx[s].conf = Conf(catalog)
  BY <1>1 DEF Governed, Current
<1> QED
  BY <1>2, <1>3 DEF Safe, Typed, TypeOK, Conf

\* What CommitInsert leaves in the tables.
LEMMA Inserted ==
    ASSUME Safe, NEW s \in Sessions, CommitInsert(s)
    PROVE  LET call == tx[s].call
               part == Slot(tx[s].conf.class, call.doc)
           IN
           /\ call.doc \in Docs /\ part \in Parts
           /\ \A id \in tx[s].claim :
                /\ id \in Ids /\ keys[id] = Nil /\ keys'[id] # Nil
                /\ keys'[id].class = tx[s].conf.class /\ keys'[id].part = part
                /\ rows'[id][part] = [doc |-> call.doc, version |-> 1]
           /\ \A id \in Ids \ tx[s].claim :
                keys'[id] = keys[id] /\ rows'[id] = rows[id]
<1> DEFINE call == tx[s].call
           part == Slot(tx[s].conf.class, call.doc)
           new == tx[s].claim
<1>1. /\ TypeOK /\ tx[s].pc = "inserted" /\ TxOK(tx[s])
      /\ call \in RecordCalls \cup BulkCalls /\ new \subseteq Ids /\ tx[s].conf \in Configs
  BY DEF Safe, Typed, TypeOK, Isolated, CommitInsert, PhaseOK, Transactions
<1>2. call.doc \in Docs /\ part \in Parts
  BY <1>1, SlotType DEF RecordCalls, BulkCalls
<1>3. \A id \in Ids \ new : keys'[id] = keys[id] /\ rows'[id] = rows[id]
  BY DEF CommitInsert
<1>4. ASSUME NEW id \in new
      PROVE  /\ id \in Ids /\ keys[id] = Nil /\ keys'[id] # Nil
             /\ keys'[id].class = tx[s].conf.class /\ keys'[id].part = part
             /\ rows'[id][part] = [doc |-> call.doc, version |-> 1]
  <2>1. id \in Ids /\ keys[id] = Nil /\ rows[id] \in [Parts -> Rows \cup {Nil}]
    BY <1>1 DEF TxOK, Found, TypeOK
  <2>2. keys'[id] = [inc |-> births', class |-> tx[s].conf.class, part |-> part]
    BY <2>1 DEF CommitInsert
  <2>3. [inc |-> births', class |-> tx[s].conf.class, part |-> part] \in KeyRows
    BY <1>1, <1>2 DEF CommitInsert, TypeOK, Configs, KeyRows
  <2>4. rows'[id] = [rows[id] EXCEPT ![part] = [doc |-> call.doc, version |-> 1]]
    BY <2>1 DEF CommitInsert, FirstVersion
  <2> QED
    BY <1>2, <2>1, <2>2, <2>3, <2>4, NilAssumption
<1> QED
  BY <1>2, <1>3, <1>4

LEMMA CommitInsertGoverned ==
    ASSUME Safe, Governed, NEW s \in Sessions, CommitInsert(s)
    PROVE  Governed'
<1> DEFINE call == tx[s].call
           part == Slot(tx[s].conf.class, call.doc)
<1>1. /\ EndCommitted(s) /\ catalog' = catalog /\ tx[s].pc = "inserted" /\ TypeOK
      /\ Vetted(tx[s])
  BY DEF CommitInsert, Safe, Typed, Governed
<1>2. /\ catalog # Nil
      /\ tx[s].conf.class = catalog.class /\ tx[s].conf.schema = catalog.schema
  BY <1>1, SharersKnow
<1>3. InForce'
  <2>1. SUFFICES ASSUME NEW id \in Ids, keys'[id] # Nil
                 PROVE  LET doc == rows'[id][keys'[id].part].doc IN
                        /\ keys'[id].class = catalog.class
                        /\ keys'[id].part = Slot(catalog.class, doc)
                        /\ doc \in Accepts[catalog.schema]
                        /\ Placeable(catalog.class, doc)
    BY <1>1, <1>2 DEF InForce, Live, Placeable
  <2>2. CASE id \in tx[s].claim
    <3>1. /\ keys'[id].class = catalog.class /\ keys'[id].part = part
          /\ rows'[id][part] = [doc |-> call.doc, version |-> 1]
      BY <1>2, <2>2, Inserted
    <3>2. call.doc \in Accepts[catalog.schema] /\ Placeable(catalog.class, call.doc)
      BY <1>1, <1>2 DEF Vetted
    <3> QED
      BY <1>2, <3>1, <3>2
  <2>3. CASE id \notin tx[s].claim
    <3>1. keys'[id] = keys[id] /\ rows'[id] = rows[id]
      BY <2>3, Inserted
    <3>2. id \in Live
      BY <2>1, <3>1 DEF Live
    <3>3. /\ keys[id].class = catalog.class
          /\ keys[id].part = Slot(catalog.class, rows[id][keys[id].part].doc)
          /\ rows[id][keys[id].part].doc \in Accepts[catalog.schema]
          /\ Placeable(catalog.class, rows[id][keys[id].part].doc)
      BY <3>2 DEF Governed, InForce
    <3> QED
      BY <3>1, <3>3
  <2> QED
    BY <2>2, <2>3
<1> QED
  BY <1>1, <1>3, SharersCurrent, CommitGoverned

LEMMA CommitUpdateGoverned ==
    ASSUME Safe, Governed, NEW s \in Sessions, CommitUpdate(s)
    PROVE  Governed'
<1> DEFINE call == tx[s].call
           new == [doc |-> call.doc, version |-> NextVersion(tx[s].row)]
<1>1. /\ EndCommitted(s) /\ catalog' = catalog /\ keys' = keys
      /\ tx[s].pc = "updated" /\ TypeOK /\ Vetted(tx[s])
      /\ rows' = [rows EXCEPT ![call.id][tx[s].key.part] = new]
  BY DEF CommitUpdate, Safe, Typed, Governed
<1>2. /\ call.id \in Ids /\ tx[s].key.part \in Parts /\ keys[call.id] = tx[s].key
  BY <1>1, OwnedRecord
<1>3. /\ catalog # Nil
      /\ tx[s].conf.class = catalog.class /\ tx[s].conf.schema = catalog.schema
  BY <1>1, SharersKnow
<1>4. new.doc = call.doc
  OBVIOUS
<1> HIDE DEF new
<1>5. InForce'
  <2>1. SUFFICES ASSUME NEW id \in Ids, keys[id] # Nil
                 PROVE  LET doc == rows'[id][keys[id].part].doc IN
                        /\ keys[id].class = catalog.class
                        /\ keys[id].part = Slot(catalog.class, doc)
                        /\ doc \in Accepts[catalog.schema]
                        /\ Placeable(catalog.class, doc)
    BY <1>1, <1>3 DEF InForce, Live, Placeable
  <2>2. CASE id = call.id
    <3>1. rows'[id][keys[id].part] = new
      BY <1>1, <1>2, <2>2 DEF TypeOK
    <3>2. Replaceable(call, tx[s].conf, tx[s].key.part)
      BY <1>1 DEF Vetted
    <3>3. keys[id].class = catalog.class
      BY <2>1 DEF Governed, InForce, Live
    <3> QED
      BY <1>2, <1>3, <1>4, <2>2, <3>1, <3>2, <3>3 DEF Replaceable
  <2>3. CASE id # call.id
    <3>1. rows'[id] = rows[id]
      BY <1>1, <2>3 DEF TypeOK
    <3> QED
      BY <2>1, <3>1 DEF Governed, InForce, Live
  <2> QED
    BY <2>2, <2>3
<1> QED
  BY <1>1, <1>5, SharersCurrent, CommitGoverned

LEMMA CommitDeleteGoverned ==
    ASSUME Safe, Governed, NEW s \in Sessions, CommitDelete(s)
    PROVE  Governed'
<1> DEFINE id == tx[s].call.id
<1>1. /\ EndCommitted(s) /\ catalog' = catalog /\ tx[s].pc = "deleted" /\ TypeOK
      /\ rows' = [rows EXCEPT ![id][tx[s].key.part] = Nil]
      /\ keys' = [keys EXCEPT ![id] = Nil]
  BY DEF CommitDelete, Safe, Typed
<1>2. InForce'
  <2>1. keys'[id] = Nil
    BY <1>1, OwnedRecord DEF TypeOK
  <2>2. \A i \in Ids \ {id} : keys'[i] = keys[i] /\ rows'[i] = rows[i]
    BY <1>1 DEF TypeOK
  <2> QED
    BY <1>1, <2>1, <2>2 DEF Governed, InForce, Live, Placeable
<1> QED
  BY <1>1, <1>2, SharersCurrent, CommitGoverned

\* Two transactions that configure the catalog are one.
LEMMA Alone ==
    ASSUME OneConfigurer, Governed, NEW s \in Sessions, NEW u \in Sessions,
           tx[s].pc \in {"upsert", "installed"},
           tx[u].pc \in {"upsert", "installed"}
               \/ (tx[u].pc = "catalog" /\ tx[u].call.op = "apply")
    PROVE  u = s
<1>1. Current(s, tx[s]) /\ Current(u, tx[u])
  BY DEF Governed
<1>2. MayCall[s] \cap ApplyCalls # {} /\ MayCall[u] \cap ApplyCalls # {}
  BY <1>1 DEF Current
<1> QED
  BY <1>2 DEF OneConfigurer

\* The document of a record lies where its storage class has it.
LEMMA TableOfClass ==
    ASSUME NEW class \in Classes, NEW doc \in Docs, Placeable(class, doc)
    PROVE  (Slot(class, doc) = Nil) = (class = "transactional")
BY DEF Classes, Placeable, Slot

\* What a record in the tables is.
LEMMA Stored ==
    ASSUME Safe, NEW id \in Live
    PROVE  /\ id \in Ids /\ keys[id] \in KeyRows /\ keys[id].part \in Parts
           /\ rows[id][keys[id].part] \in Rows /\ rows[id][keys[id].part] # Nil
           /\ rows[id][keys[id].part].doc \in Docs
<1>1. id \in Ids /\ keys[id] # Nil /\ keys[id] \in KeyRows
  BY DEF Live, Safe, Typed, TypeOK
<1>2. keys[id].part \in Parts
  BY <1>1 DEF KeyRows
<1>3. rows[id][keys[id].part] # Nil
  BY <1>1, <1>2 DEF Safe, LocatorMatchesRow
<1>4. rows[id][keys[id].part] \in Rows
  BY <1>1, <1>2, <1>3 DEF Safe, Typed, TypeOK
<1> QED
  BY <1>1, <1>2, <1>3, <1>4 DEF Rows

\* The configuration that is about to be installed fits what is stored.
LEMMA Installable ==
    ASSUME Safe, Governed, NEW s \in Sessions, tx[s].pc = "installed", NEW id \in Live
    PROVE  /\ tx[s].held = "update" /\ catalog # Nil
           /\ tx[s].conf.class = catalog.class
           /\ rows[id][keys[id].part].doc \in Accepts[tx[s].conf.schema]
<1> DEFINE doc == rows[id][keys[id].part].doc
<1>1. /\ catalog # Nil /\ catalog \in CatalogRows
      /\ keys[id].part = Slot(catalog.class, doc)
      /\ doc \in Accepts[catalog.schema] /\ Placeable(catalog.class, doc)
  BY DEF Governed, InForce, Safe, Typed, TypeOK
<1>2. tx[s].held = "update"
  BY <1>1 DEF Safe, Isolated, TxOK, LockPhase, LockRow, Governed, Current
<1>3. Reconfigurable(tx[s].conf)
  BY <1>2 DEF Governed, Current
<1>4. tx[s].conf.class = catalog.class
  BY <1>3 DEF Reconfigurable
<1>5. (keys[id].part = Nil) = (catalog.class = "transactional")
  BY <1>1, Stored, TableOfClass DEF CatalogRows
<1>6. doc \in Accepts[tx[s].conf.schema]
  BY <1>1, <1>3, <1>5, Stored DEF Reconfigurable
<1> QED
  BY <1>1, <1>2, <1>4, <1>6

\* What CommitApply leaves of the catalog.
LEMMA Installed ==
    ASSUME Safe, NEW s \in Sessions, CommitApply(s)
    PROVE  /\ tx[s].pc = "installed" /\ tx[s].conf \in Configs
           /\ catalog' \in CatalogRows /\ catalog' # Nil
           /\ catalog'.class = tx[s].conf.class /\ catalog'.schema = tx[s].conf.schema
           /\ catalog # Nil => Inc(catalog') = Inc(catalog)
<1>1. tx[s].pc = "installed" /\ tx[s].conf \in Configs /\ TypeOK
  BY DEF CommitApply, Safe, Typed, PhaseOK
<1>2. births' \in Nat
  BY <1>1 DEF CommitApply, TypeOK
<1>3. /\ tx[s].held # "insert" => catalog \in CatalogRows
      /\ catalog # Nil => tx[s].held # "insert"
  BY <1>1 DEF TypeOK, Safe, Isolated, TxOK, LockPhase, LockRow
<1>4. catalog' \in CatalogRows
  BY <1>1, <1>2, <1>3 DEF CommitApply, CatalogRows, Configs
<1>5. catalog' # Nil
  BY <1>4, NilAssumption
<1>6. catalog # Nil => catalog'.inc = catalog.inc
  BY <1>3 DEF CommitApply
<1> QED
  BY <1>1, <1>4, <1>5, <1>6 DEF CommitApply, Inc

LEMMA CommitApplyGoverned ==
    ASSUME OneConfigurer, Safe, Governed, NEW s \in Sessions, CommitApply(s)
    PROVE  Governed'
<1>1. /\ EndCommitted(s) /\ tx[s].pc = "installed" /\ TypeOK
      /\ keys' = keys /\ rows' = rows
      /\ catalog'.class = tx[s].conf.class /\ catalog'.schema = tx[s].conf.schema
  BY Installed DEF CommitApply, Safe, Typed
<1>2. catalog' # Nil
  BY Installed
<1>3. InForce'
  <2>1. SUFFICES ASSUME NEW id \in Live
                 PROVE  LET doc == rows[id][keys[id].part].doc IN
                        /\ keys[id].class = tx[s].conf.class
                        /\ keys[id].part = Slot(tx[s].conf.class, doc)
                        /\ doc \in Accepts[tx[s].conf.schema]
                        /\ Placeable(tx[s].conf.class, doc)
    BY <1>1, <1>2 DEF InForce, Live, Placeable
  <2> QED
    BY <1>1, Installable DEF Governed, InForce
<1>4. ASSUME NEW u \in Sessions \ {s} PROVE Current(u, tx[u])'
  <2>1. Same(u) /\ Current(u, tx[u]) /\ Apart(tx[s], tx[u]) /\ LockPhase(tx[u])
        /\ LockPhase(tx[s]) /\ LockRow(tx[s]) /\ LockRow(tx[u])
    BY <1>1, CommitEffect DEF Governed, Safe, Isolated, TxOK
  <2>2. /\ tx[u].pc \notin {"upsert", "installed"}
        /\ ~ (tx[u].pc = "catalog" /\ tx[u].call.op = "apply")
    BY <1>1, Alone
  <2>3. tx[u].held # "keyShare"
    BY <1>1, <2>1 DEF LockPhase, LockRow, Apart, Conflict, Governed, Current
  <2> QED
    BY <2>1, <2>2, <2>3 DEF Current, Same
<1> QED
  BY <1>1, <1>3, <1>4, CommitGoverned

\* Deleting the catalog leaves no record.
LEMMA Dropped ==
    ASSUME Safe, NEW s \in Sessions, CommitDrop(s)
    PROVE  catalog' = Nil /\ \A id \in Ids : keys'[id] = Nil
BY DEF CommitDrop, Safe, Isolated, TxOK, Found, Live

LEMMA CommitDropGoverned ==
    ASSUME Safe, Governed, NEW s \in Sessions, CommitDrop(s)
    PROVE  Governed'
<1>1. EndCommitted(s) /\ tx[s].pc = "dropping" /\ TypeOK
  BY DEF CommitDrop, Safe, Typed
<1>2. InForce'
  BY Dropped DEF InForce, Live
<1>3. ASSUME NEW u \in Sessions \ {s} PROVE Current(u, tx[u])'
  <2>1. Same(u) /\ Current(u, tx[u]) /\ Apart(tx[s], tx[u]) /\ LockPhase(tx[s])
    BY <1>1, CommitEffect DEF Governed, Safe, Isolated, TxOK
  <2>2. tx[u].held \notin {"keyShare", "update"}
    BY <1>1, <2>1 DEF LockPhase, Apart, Conflict
  <2> QED
    BY <2>1, <2>2, Dropped DEF Current, Same
<1> QED
  BY <1>1, <1>2, <1>3, CommitGoverned

-----------------------------------------------------------------------------
(* Every step.                                                             *)

LEMMA InitGoverned == Init => Governed
<1> SUFFICES ASSUME Init PROVE Governed
  OBVIOUS
<1>1. Ended(Fresh)
  BY DEF Fresh, Ended
<1>2. InForce
  BY DEF Init, InForce, Live
<1> QED
  BY <1>1, <1>2, EndedGoverned DEF Init, Governed

LEMMA NextGoverned ==
    ASSUME OneConfigurer, Safe, Governed, [Next]_vars
    PROVE  Governed'
<1>1. ASSUME NEW s \in Sessions, Call(s) PROVE Governed'
  BY <1>1, CallGoverned
<1>2. ASSUME NEW s \in Sessions, RecordStep(s) PROVE Governed'
  <2>1. CASE CatalogMissing(s)
    BY <2>1, EndGoverned DEF CatalogMissing, Outcomes, Safe, Typed
  <2> QED
    BY <1>2, <2>1, LockCatalogGoverned, KeyMissingGoverned, LockKeyGoverned,
       InsertKeyGoverned, CommitInsertGoverned, CommitUpdateGoverned,
       CommitDeleteGoverned DEF RecordStep
<1>3. ASSUME NEW s \in Sessions, AdminStep(s) PROVE Governed'
  BY <1>3, SelectNoCatalogGoverned, SelectCatalogGoverned, UpsertGoverned,
     CommitApplyGoverned, CommitDropGoverned DEF AdminStep
<1>4. ASSUME NEW s \in Sessions, ReadStep(s) PROVE Governed'
  BY <1>4, ReadGoverned
<1>5. ASSUME NEW s \in Sessions, Abort(s) \/ DetectDeadlock(s) PROVE Governed'
  BY <1>5, EndGoverned DEF Abort, DetectDeadlock, Outcomes, Safe, Typed
<1>6. CASE UNCHANGED vars
  BY <1>6 DEF vars, Governed, InForce, Live, Vetted, Current, Replaceable, Placeable,
              Reconfigurable
<1> QED
  BY <1>1, <1>2, <1>3, <1>4, <1>5, <1>6 DEF Next, Step, Done

LEMMA AlwaysGoverned ==
    ASSUME OneConfigurer
    PROVE  Spec => [](Safe /\ Governed)
<1>1. Init => Governed
  BY InitGoverned
<1>2. Safe /\ Governed /\ [Next]_vars => Governed'
  BY NextGoverned
<1> QED
  BY <1>1, <1>2, AlwaysSafe, PTL DEF Spec

-----------------------------------------------------------------------------
(* What the calls remember.                                                *)

\* The history is up to date, and a call that has not yet met an absent record
\* has the catalog and the locator of its snapshots still before it.
Remembers(t) ==
    /\ t.pc # "idle" /\ Missing(t.call, catalog, keys) => t.absent
    /\ t.outcome = "notFound" => t.absent
    /\ t.pc = "catalog" /\ t.call.op \in RecordOps \cup {"drop"}
           /\ (t.seen = Nil \/ Inc(catalog) # t.seen) => t.absent
    /\ t.pc = "key" => t.absent \/ (keys[t.call.id] # Nil /\ t.seen = keys[t.call.id].inc)
    /\ t.pc \in {"locator", "row", "merge"} => t.call.op \in ReadOps
    /\ t.pc = "locator" => t.absent \/ (catalog # Nil /\ t.conf.class = catalog.class)
    /\ t.pc = "row" => t.absent \/ keys[t.call.id] = t.key

Remembered == \A s \in Sessions : Remembers(tx[s])

LEMMA BecomesRemembered ==
    ASSUME TypeOK, Remembered, NEW s \in Sessions, NEW t, Becomes(s, t),
           UNCHANGED database, Remembers(t)
    PROVE  Remembered'
<1>1. tx' = [tx EXCEPT ![s] = t] /\ tx \in [Sessions -> Transactions]
  BY DEF Becomes, TypeOK
<1>2. ASSUME NEW u \in Sessions PROVE Remembers(tx'[u])
  BY <1>1 DEF Remembered
<1>3. ASSUME NEW u \in Sessions PROVE Remembers(tx[u])'
  BY <1>2 DEF Remembers, Missing, database, Inc
<1> QED
  BY <1>3 DEF Remembered

\* A call may end as it likes, but for an ErrNotFound that has no reason.
LEMMA EndRemembered ==
    ASSUME TypeOK, Remembered, NEW s \in Sessions, NEW o \in Outcomes, End(s, o),
           o = "notFound" => tx[s].absent, UNCHANGED database
    PROVE  Remembered'
<1> DEFINE t == [Fresh EXCEPT !.outcome = o, !.absent = tx[s].absent]
<1>1. t.pc = "idle" /\ t.outcome = o /\ t.absent = tx[s].absent
  BY DEF Fresh
<1>2. Becomes(s, t)
  BY DEF End
<1>3. Remembers(t)
  <2> HIDE DEF t
  <2> QED
    BY <1>1 DEF Remembers
<1> QED
  BY <1>2, <1>3, BecomesRemembered

\* Without a catalog there are no records, so every call finds its own missing.
LEMMA NoCatalogNoRecord ==
    ASSUME Governed, NEW call \in Calls, catalog = Nil
    PROVE  Missing(call, catalog, keys)
<1>1. call.op \in {"put", "patch", "delete", "get", "merge"} => call.id \in Ids
  BY CallKinds DEF RecordCalls
<1>2. \A id \in Ids : keys[id] = Nil
  BY DEF Governed, InForce, Live
<1> QED
  BY <1>1, <1>2 DEF Missing

LEMMA IncNumber ==
    ASSUME TypeOK
    PROVE  Inc(catalog) = Nil <=> catalog = Nil
BY NilAssumption DEF TypeOK, Inc, CatalogRows

LEMMA CallRemembered ==
    ASSUME Safe, Governed, Remembered, NEW s \in Sessions, Call(s)
    PROVE  Remembered'
<1>1. PICK call \in MayCall[s] :
          Becomes(s, [Fresh EXCEPT !.pc = "catalog", !.call = call,
                                   !.seen = Inc(catalog),
                                   !.absent = Missing(call, catalog, keys)])
  BY DEF Call
<1> DEFINE t == [Fresh EXCEPT !.pc = "catalog", !.call = call,
                              !.seen = Inc(catalog),
                              !.absent = Missing(call, catalog, keys)]
<1>2. call \in Calls
  BY CallAssumption
<1>3. /\ t.pc = "catalog" /\ t.call = call /\ t.seen = Inc(catalog)
      /\ t.outcome = "none" /\ t.absent = Missing(call, catalog, keys)
  BY DEF Fresh
<1>4. Inc(catalog) = Nil => Missing(call, catalog, keys)
  BY <1>2, IncNumber, NoCatalogNoRecord DEF Safe, Typed
<1>5. Remembers(t)
  <2> HIDE DEF t
  <2> QED
    BY <1>3, <1>4 DEF Remembers
<1> QED
  BY <1>1, <1>5, BecomesRemembered DEF Call, Safe, Typed

LEMMA CatalogMissingRemembered ==
    ASSUME Safe, Remembered, NEW s \in Sessions, CatalogMissing(s)
    PROVE  Remembered'
<1>1. tx[s].absent
  BY DEF CatalogMissing, At, Remembered, Remembers
<1> QED
  BY <1>1, EndRemembered DEF CatalogMissing, Outcomes, Safe, Typed

\* The locator statement filters by the storage class, which is that of every
\* record: what it does not find is not there.
LEMMA LockCatalogRemembered ==
    ASSUME Safe, Governed, Remembered, NEW s \in Sessions, LockCatalog(s)
    PROVE  Remembered'
<1> DEFINE call == tx[s].call
           located == {id \in Wanted(call) :
                          keys[id] # Nil /\ keys[id].class = catalog.class}
           seen == IF call.op \in {"create", "bulk"} \/ located = {}
                   THEN Nil ELSE keys[call.id].inc
           pc == IF call.op \in {"create", "bulk"} THEN "insert" ELSE "key"
           t == [tx[s] EXCEPT !.pc = pc, !.held = "keyShare",
                    !.conf = Conf(catalog), !.seen = seen]
<1>1. CASE End(s, "invalid")
  BY <1>1, EndRemembered DEF LockCatalog, Outcomes, Safe, Typed
<1>2. CASE Becomes(s, t)
  <2>1. /\ tx[s] \in Transactions /\ call.op \in RecordOps /\ tx[s].pc = "catalog"
        /\ call \in Calls /\ Remembers(tx[s])
    BY DEF LockCatalog, At, Safe, Typed, TypeOK, PhaseOK, Remembered
  <2>2. pc \in {"insert", "key"} /\ (pc = "key" => call.op \in {"put", "patch", "delete"})
    BY <2>1 DEF RecordOps
  <2>3. /\ t.pc = pc /\ t.call = call /\ t.seen = seen
        /\ t.outcome = tx[s].outcome /\ t.absent = tx[s].absent
    BY <2>1 DEF Transactions
  <2>4. ASSUME pc = "key", ~ tx[s].absent
        PROVE  keys[call.id] # Nil /\ seen = keys[call.id].inc
    <3>1. call.op \in {"put", "patch", "delete"} /\ call.id \in Ids
      BY <2>1, <2>2, <2>4, CallKinds DEF RecordCalls
    <3>2. keys[call.id] # Nil
      BY <2>1, <2>4, <3>1 DEF Remembers, Missing
    <3>3. call.id \in Wanted(call) /\ keys[call.id].class = catalog.class
      BY <3>1, <3>2 DEF Wanted, Governed, InForce, Live
    <3>4. located # {} /\ call.op \notin {"create", "bulk"}
      BY <3>1, <3>2, <3>3
    <3> QED
      BY <3>2, <3>4
  <2>5. Remembers(t)
    <3> HIDE DEF t, pc, seen
    <3> QED
      BY <2>1, <2>2, <2>3, <2>4 DEF Remembers
  <2> QED
    BY <1>2, <2>5, BecomesRemembered DEF LockCatalog, Safe, Typed
<1> QED
  BY <1>1, <1>2 DEF LockCatalog

\* getRecord's ErrNotFound: a locator that was there and is there no longer has
\* been deleted meanwhile.
LEMMA KeyMissingRemembered ==
    ASSUME Safe, Remembered, NEW s \in Sessions, KeyMissing(s)
    PROVE  Remembered'
<1> DEFINE call == tx[s].call
           t == [tx[s] EXCEPT !.pc = "insert"]
<1>1. /\ tx[s] \in Transactions /\ tx[s].pc = "key" /\ Remembers(tx[s])
      /\ call.id \in Ids
  BY DEF KeyMissing, At, Safe, Typed, TypeOK, PhaseOK, RecordCalls, Remembered
<1>2. tx[s].absent
  <2>1. SUFFICES ASSUME ~ tx[s].absent PROVE Located(s)
    BY DEF KeyMissing
  <2>2. keys[call.id] # Nil /\ tx[s].seen = keys[call.id].inc
    BY <1>1, <2>1 DEF Remembers
  <2>3. call.id \in Live /\ keys[call.id] \in KeyRows
    BY <1>1, <2>2 DEF Live, Safe, Typed, TypeOK
  <2>4. tx[s].seen # Nil
    BY <2>2, <2>3, NilAssumption DEF KeyRows
  <2> QED
    BY <2>2, <2>3, <2>4, Stored DEF Located, Inc
<1>3. CASE \E o \in Outcomes : End(s, o)
  BY <1>2, <1>3, EndRemembered DEF KeyMissing, Safe, Typed
<1>4. CASE Becomes(s, t)
  <2>1. /\ t.pc = "insert" /\ t.call = call
        /\ t.outcome = tx[s].outcome /\ t.absent = tx[s].absent
    BY <1>1 DEF Transactions
  <2>2. Remembers(t)
    <3> HIDE DEF t
    <3> QED
      BY <1>1, <2>1 DEF Remembers
  <2> QED
    BY <1>4, <2>2, BecomesRemembered DEF KeyMissing, Safe, Typed
<1> QED
  BY <1>3, <1>4 DEF KeyMissing, Outcomes

\* The steps of a transaction that has its locks remember nothing new.
LEMMA LockedRemembered ==
    ASSUME Safe, Remembered, NEW s \in Sessions, NEW t, Becomes(s, t),
           UNCHANGED database, tx[s].pc # "idle",
           t.pc \in {"insert", "inserted", "updated", "deleted",
                     "upsert", "installed", "dropping"},
           t.call = tx[s].call, t.outcome = tx[s].outcome, t.absent = tx[s].absent
    PROVE  Remembered'
<1>1. Remembers(tx[s])
  BY DEF Remembered
<1>2. Remembers(t)
  BY <1>1 DEF Remembers
<1> QED
  BY <1>2, BecomesRemembered DEF Safe, Typed

LEMMA LockKeyRemembered ==
    ASSUME Safe, Remembered, NEW s \in Sessions, LockKey(s)
    PROVE  Remembered'
<1> DEFINE call == tx[s].call
           key == keys[call.id]
           row == rows[call.id][key.part]
           pc == IF call.op = "delete" THEN "deleted" ELSE "updated"
           t == [tx[s] EXCEPT !.pc = pc, !.key = key, !.row = row]
<1>1. tx[s] \in Transactions /\ tx[s].pc = "key"
  BY DEF LockKey, At, Safe, Typed, TypeOK
<1>2. CASE \E o \in Outcomes \ {"notFound"} : End(s, o)
  BY <1>2, EndRemembered DEF LockKey, Safe, Typed
<1>3. CASE Becomes(s, t)
  <2>1. pc \in {"deleted", "updated"}
    OBVIOUS
  <2>2. /\ t.pc = pc /\ t.call = tx[s].call
        /\ t.outcome = tx[s].outcome /\ t.absent = tx[s].absent
    BY <1>1 DEF Transactions
  <2> HIDE DEF t, pc
  <2> QED
    BY <1>1, <1>3, <2>1, <2>2, LockedRemembered DEF LockKey
<1> QED
  BY <1>2, <1>3 DEF LockKey, Outcomes

LEMMA InsertKeyRemembered ==
    ASSUME Safe, Remembered, NEW s \in Sessions, InsertKey(s)
    PROVE  Remembered'
<1> DEFINE call == tx[s].call
           pc(id) == IF Wanted(call) \subseteq tx[s].claim \cup {id}
                     THEN "inserted" ELSE "insert"
           t(id) == [tx[s] EXCEPT !.pc = pc(id), !.claim = tx[s].claim \cup {id}]
<1>1. tx[s] \in Transactions /\ tx[s].pc = "insert"
  BY DEF InsertKey, At, Safe, Typed, TypeOK
<1>2. CASE \E o \in Outcomes \ {"notFound"} : End(s, o)
  BY <1>2, EndRemembered DEF InsertKey, Safe, Typed
<1>3. ASSUME NEW id \in Wanted(call), Becomes(s, t(id))
      PROVE  Remembered'
  <2>1. pc(id) \in {"insert", "inserted"}
    OBVIOUS
  <2>2. /\ t(id).pc = pc(id) /\ t(id).call = tx[s].call
        /\ t(id).outcome = tx[s].outcome /\ t(id).absent = tx[s].absent
    BY <1>1 DEF Transactions
  <2> HIDE DEF t, pc
  <2> QED
    BY <1>1, <1>3, <2>1, <2>2, LockedRemembered DEF InsertKey
<1> QED
  BY <1>2, <1>3 DEF InsertKey, Outcomes

LEMMA SelectRemembered ==
    ASSUME Safe, Remembered, NEW s \in Sessions,
           SelectNoCatalog(s) \/ SelectCatalog(s) \/ Upsert(s)
    PROVE  Remembered'
<1> DEFINE call == tx[s].call
           held == IF tx[s].held = "update" THEN "update"
                   ELSE IF catalog = Nil THEN "insert" ELSE "noKeyUpdate"
           t1 == [tx[s] EXCEPT !.pc = "upsert", !.seen = Nil, !.conf = Conf(call)]
           t2 == [tx[s] EXCEPT !.pc = "upsert", !.held = "update", !.conf = Conf(call)]
           t3 == [tx[s] EXCEPT !.pc = "dropping", !.held = "update"]
           t4 == [tx[s] EXCEPT !.pc = "installed", !.held = held]
<1>1. tx[s] \in Transactions /\ tx[s].pc \in {"catalog", "upsert"} /\ UNCHANGED database
  BY DEF SelectNoCatalog, SelectCatalog, Upsert, At, Safe, Typed, TypeOK
<1>2. CASE \E o \in Outcomes \ {"notFound"} : End(s, o)
  BY <1>1, <1>2, EndRemembered DEF Safe, Typed
<1>3. ASSUME NEW t, Becomes(s, t), t.pc \in {"upsert", "installed", "dropping"},
             t.call = call, t.outcome = tx[s].outcome, t.absent = tx[s].absent
      PROVE  Remembered'
  BY <1>1, <1>3, LockedRemembered
<1>4. /\ t1.pc = "upsert" /\ t1.call = call
      /\ t1.outcome = tx[s].outcome /\ t1.absent = tx[s].absent
      /\ t2.pc = "upsert" /\ t2.call = call
      /\ t2.outcome = tx[s].outcome /\ t2.absent = tx[s].absent
      /\ t3.pc = "dropping" /\ t3.call = call
      /\ t3.outcome = tx[s].outcome /\ t3.absent = tx[s].absent
      /\ t4.pc = "installed" /\ t4.call = call
      /\ t4.outcome = tx[s].outcome /\ t4.absent = tx[s].absent
  BY <1>1 DEF Transactions
<1>5. \/ \E o \in Outcomes \ {"notFound"} : End(s, o)
      \/ Becomes(s, t1) \/ Becomes(s, t2) \/ Becomes(s, t3) \/ Becomes(s, t4)
  BY DEF SelectNoCatalog, SelectCatalog, Upsert, Outcomes
<1> HIDE DEF t1, t2, t3, t4
<1> QED
  BY <1>2, <1>3, <1>4, <1>5

\* GetRecord's three snapshots, and the read that precedes a merge.
LEMMA ReadCatalogRemembered ==
    ASSUME Safe, Governed, Remembered, NEW s \in Sessions, ReadCatalog(s)
    PROVE  Remembered'
<1> DEFINE call == tx[s].call
           t == [tx[s] EXCEPT !.pc = "locator", !.seen = Nil, !.conf = Conf(catalog)]
<1>1. /\ tx[s] \in Transactions /\ tx[s].pc = "catalog" /\ call \in Calls
      /\ call.op \in ReadOps /\ Remembers(tx[s])
  BY DEF ReadCatalog, At, Safe, Typed, TypeOK, PhaseOK, Remembered
<1>2. CASE catalog = Nil
  <2>1. tx[s].absent
    BY <1>1, <1>2, NoCatalogNoRecord DEF Remembers
  <2> QED
    BY <1>2, <2>1, EndRemembered DEF ReadCatalog, Outcomes, Safe, Typed
<1>3. CASE catalog # Nil
  <2>1. /\ t.pc = "locator" /\ t.call = call /\ t.conf.class = catalog.class
        /\ t.outcome = tx[s].outcome /\ t.absent = tx[s].absent
    BY <1>1 DEF Transactions, Conf
  <2>2. Remembers(t)
    <3> HIDE DEF t
    <3> QED
      BY <1>1, <1>3, <2>1 DEF Remembers
  <2> QED
    BY <1>3, <2>2, BecomesRemembered DEF ReadCatalog, Safe, Typed
<1> QED
  BY <1>2, <1>3

\* A locator of another storage class than the one read a moment ago is one of
\* a record that has been created since.
LEMMA ReadLocatorRemembered ==
    ASSUME Safe, Governed, Remembered, NEW s \in Sessions, ReadLocator(s)
    PROVE  Remembered'
<1> DEFINE call == tx[s].call
           key == keys[call.id]
           t == [tx[s] EXCEPT !.pc = "row", !.key = key]
<1>1. /\ tx[s] \in Transactions /\ tx[s].pc = "locator" /\ call \in Calls
      /\ call.id \in Ids /\ call.op \in ReadOps /\ Remembers(tx[s])
  BY DEF ReadLocator, Safe, Typed, TypeOK, PhaseOK, Remembered, Remembers, RecordCalls
<1>2. CASE key = Nil \/ key.class # tx[s].conf.class
  <2>1. tx[s].absent
    <3>1. CASE key = Nil
      BY <1>1, <3>1 DEF Remembers, Missing, ReadOps
    <3>2. CASE key # Nil /\ key.class # tx[s].conf.class
      BY <1>1, <3>2 DEF Remembers, Governed, InForce, Live
    <3> QED
      BY <1>2, <3>1, <3>2
  <2> QED
    BY <1>2, <2>1, EndRemembered DEF ReadLocator, Outcomes, Safe, Typed
<1>3. CASE ~ (key = Nil \/ key.class # tx[s].conf.class)
  <2>1. /\ t.pc = "row" /\ t.call = call /\ t.key = key
        /\ t.outcome = tx[s].outcome /\ t.absent = tx[s].absent
    BY <1>1 DEF Transactions
  <2>2. Remembers(t)
    <3> HIDE DEF t
    <3> QED
      BY <1>1, <2>1 DEF Remembers
  <2> QED
    BY <1>3, <2>2, BecomesRemembered DEF ReadLocator, Safe, Typed
<1> QED
  BY <1>2, <1>3

LEMMA ReadRowRemembered ==
    ASSUME Safe, Remembered, NEW s \in Sessions, ReadRow(s)
    PROVE  Remembered'
<1> DEFINE call == tx[s].call
           row == rows[call.id][tx[s].key.part]
           t == [tx[s] EXCEPT !.pc = "merge", !.key = Nil, !.row = row]
<1>1. /\ tx[s] \in Transactions /\ tx[s].pc = "row" /\ call.id \in Ids
      /\ tx[s].key \in KeyRows /\ call.op \in ReadOps /\ Remembers(tx[s])
  BY DEF ReadRow, Safe, Typed, TypeOK, PhaseOK, Remembered, Remembers, RecordCalls
<1>2. CASE row = Nil
  <2>1. tx[s].absent
    <3>1. SUFFICES ASSUME keys[call.id] = tx[s].key PROVE row # Nil
      BY <1>1, <1>2 DEF Remembers
    <3>2. call.id \in Live
      BY <1>1, <3>1, NilAssumption DEF Live
    <3> QED
      BY <3>1, <3>2, Stored
  <2> QED
    BY <1>2, <2>1, EndRemembered DEF ReadRow, Outcomes, Safe, Typed
<1>3. CASE \E o \in Outcomes \ {"notFound"} : End(s, o)
  BY <1>3, EndRemembered DEF ReadRow, Safe, Typed
<1>4. CASE Becomes(s, t)
  <2>1. /\ t.pc = "merge" /\ t.call = call
        /\ t.outcome = tx[s].outcome /\ t.absent = tx[s].absent
    BY <1>1 DEF Transactions
  <2>2. Remembers(t)
    <3> HIDE DEF t
    <3> QED
      BY <1>1, <2>1 DEF Remembers
  <2> QED
    BY <1>4, <2>2, BecomesRemembered DEF ReadRow, Safe, Typed
<1> QED
  BY <1>2, <1>3, <1>4 DEF ReadRow, Outcomes

LEMMA MergeRemembered ==
    ASSUME Safe, Governed, Remembered, NEW s \in Sessions, Merge(s)
    PROVE  Remembered'
<1> DEFINE call == tx[s].call
           put == [call EXCEPT !.op = "put", !.cond = tx[s].row.version]
           t == [tx[s] EXCEPT !.pc = "catalog", !.seen = Inc(catalog),
                    !.call = put, !.conf = Nil, !.row = Nil]
<1>1. /\ tx[s] \in Transactions /\ tx[s].pc = "merge" /\ call \in Calls
      /\ call \in RecordCalls /\ call.op \in ReadOps /\ Remembers(tx[s])
  BY DEF Merge, Safe, Typed, TypeOK, PhaseOK, Remembered, Remembers
<1>2. CASE catalog = Nil
  <2>1. tx[s].absent
    BY <1>1, <1>2, NoCatalogNoRecord DEF Remembers
  <2> QED
    BY <1>2, <2>1, EndRemembered DEF Merge, Outcomes, Safe, Typed
<1>3. CASE End(s, "invalid")
  BY <1>3, EndRemembered DEF Merge, Outcomes, Safe, Typed
<1>4. CASE catalog # Nil /\ Becomes(s, t)
  <2>1. put.op = "put" /\ put.id = call.id
    BY <1>1 DEF RecordCalls
  <2>2. Missing(put, catalog, keys) => Missing(call, catalog, keys)
    <3> HIDE DEF put
    <3> QED
      BY <1>1, <2>1 DEF Missing, ReadOps
  <2>3. /\ t.pc = "catalog" /\ t.call = put /\ t.seen = Inc(catalog)
        /\ t.outcome = tx[s].outcome /\ t.absent = tx[s].absent
    BY <1>1 DEF Transactions
  <2>4. Remembers(t)
    <3> HIDE DEF t, put
    <3> QED
      BY <1>1, <1>4, <2>1, <2>2, <2>3, IncNumber DEF Remembers, Safe, Typed
  <2> QED
    BY <1>4, <2>4, BecomesRemembered DEF Merge, Safe, Typed
<1> QED
  BY <1>2, <1>3, <1>4 DEF Merge

\* What a COMMIT does to the catalog and to the locators: it deletes them all;
\* or it leaves a catalog, of the same row and class for every record there is,
\* and each locator as it was, but for those inserted and those deleted.
Committed ==
    \/ catalog' = Nil /\ \A id \in Ids : keys'[id] = Nil
    \/ /\ catalog' # Nil
       /\ catalog # Nil => Inc(catalog') = Inc(catalog)
       /\ \A id \in Live : catalog'.class = catalog.class
       /\ \A id \in Ids : keys'[id] = keys[id] \/ keys[id] = Nil \/ keys'[id] = Nil

\* COMMIT brings the history of the others up to date.
LEMMA CommitHistory ==
    ASSUME TypeOK, NEW s \in Sessions, EndCommitted(s)
    PROVE  /\ tx'[s].pc = "idle" /\ tx'[s].outcome = "ok"
           /\ \A u \in Sessions \ {s} :
                /\ Same(u) /\ tx'[u].outcome = tx[u].outcome
                /\ tx[u].absent => tx'[u].absent
                /\ tx[u].pc # "idle" /\ Missing(tx[u].call, catalog', keys') => tx'[u].absent
                /\ tx'[u].absent \in BOOLEAN
<1>1. tx'[s].pc = "idle" /\ tx'[s].outcome = "ok"
  BY DEF EndCommitted, Fresh
<1>2. ASSUME NEW u \in Sessions \ {s}
      PROVE  /\ tx'[u].outcome = tx[u].outcome
             /\ tx[u].absent => tx'[u].absent
             /\ tx[u].pc # "idle" /\ Missing(tx[u].call, catalog', keys') => tx'[u].absent
  <2>1. tx[u] \in Transactions
    BY DEF TypeOK
  <2>2. CASE tx[u].pc = "idle"
    <3>1. tx'[u] = tx[u]
      BY <2>2 DEF EndCommitted
    <3> QED
      BY <2>2, <3>1
  <2>3. CASE tx[u].pc # "idle"
    <3> DEFINE absent == tx[u].absent \/ Missing(tx[u].call, catalog', keys')
    <3>1. tx'[u] = [tx[u] EXCEPT !.absent = absent]
      BY <2>3 DEF EndCommitted
    <3>2. tx'[u].outcome = tx[u].outcome /\ tx'[u].absent = absent
      BY <2>1, <3>1 DEF Transactions
    <3> QED
      BY <3>2
  <2> QED
    BY <2>2, <2>3
<1> QED
  BY <1>1, <1>2, CommitEffect DEF Transactions

LEMMA CommitRemembered ==
    ASSUME Safe, Governed, Remembered, NEW s \in Sessions, EndCommitted(s), Committed
    PROVE  Remembered'
<1> SUFFICES ASSUME NEW u \in Sessions PROVE Remembers(tx[u])'
  BY DEF Remembered
<1>1. TypeOK
  BY DEF Safe, Typed
<1>2. CASE u = s
  BY <1>1, <1>2, CommitHistory DEF Remembers
<1>3. CASE u # s /\ tx[u].pc = "idle"
  BY <1>1, <1>3, CommitHistory DEF Remembers, Remembered, Same
<1>4. CASE u # s /\ tx[u].pc # "idle" /\ tx'[u].absent
  BY <1>1, <1>4, CommitHistory DEF Remembers, Remembered, Same
<1>5. CASE u # s /\ tx[u].pc # "idle" /\ ~ tx'[u].absent
  <2>1. /\ Same(u) /\ tx'[u].outcome = tx[u].outcome /\ ~ tx[u].absent
        /\ ~ Missing(tx[u].call, catalog', keys')
        /\ Remembers(tx[u]) /\ PhaseOK(tx[u]) /\ tx[u].call \in Calls
    BY <1>1, <1>5, CommitHistory DEF Remembered, Safe, Typed, PhaseOK
  <2>2. ~ Missing(tx[u].call, catalog, keys)
    BY <1>5, <2>1 DEF Remembers
  <2>3. tx[u].call.op \in {"put", "patch", "delete", "get", "merge"} =>
            /\ tx[u].call.id \in Ids
            /\ keys[tx[u].call.id] # Nil /\ keys'[tx[u].call.id] # Nil
    BY <2>1, <2>2, CallKinds DEF Missing, RecordCalls
  <2>4. catalog # Nil
    BY <2>1, <2>2, NoCatalogNoRecord
  <2>5. CASE catalog' = Nil /\ \A id \in Ids : keys'[id] = Nil
    BY <2>1, <2>3, <2>5 DEF Missing
  <2>6. CASE /\ catalog' # Nil /\ Inc(catalog') = Inc(catalog)
             /\ \A id \in Live : catalog'.class = catalog.class
             /\ \A id \in Ids : keys'[id] = keys[id] \/ keys[id] = Nil \/ keys'[id] = Nil
    <3>1. tx[u].call.op \in {"put", "patch", "delete", "get", "merge"} =>
              /\ keys'[tx[u].call.id] = keys[tx[u].call.id]
              /\ catalog'.class = catalog.class
      BY <2>3, <2>6 DEF Live
    <3>2. /\ tx[u].pc = "key" => tx[u].call.op \in {"put", "patch", "delete"}
          /\ tx[u].pc \in {"locator", "row", "merge"} => tx[u].call.op \in ReadOps
      BY <2>1 DEF PhaseOK, Remembers
    <3> QED
      BY <1>5, <2>1, <2>6, <3>1, <3>2 DEF Remembers, Same, ReadOps
  <2> QED
    BY <2>4, <2>5, <2>6 DEF Committed
<1> QED
  BY <1>1, <1>2, <1>3, <1>4, <1>5

LEMMA RecordCommitRemembered ==
    ASSUME Safe, Governed, Remembered, NEW s \in Sessions,
           CommitInsert(s) \/ CommitUpdate(s) \/ CommitDelete(s)
    PROVE  Remembered'
<1>1. /\ tx[s].pc \in {"inserted", "updated", "deleted"} /\ EndCommitted(s)
      /\ catalog' = catalog
  BY DEF CommitInsert, CommitUpdate, CommitDelete
<1>2. catalog # Nil
  BY <1>1, SharersKnow
<1>3. ASSUME NEW id \in Ids PROVE keys'[id] = keys[id] \/ keys[id] = Nil \/ keys'[id] = Nil
  <2>1. CASE CommitInsert(s)
    BY <2>1, Inserted
  <2>2. CASE CommitUpdate(s)
    BY <2>2 DEF CommitUpdate
  <2>3. CASE CommitDelete(s)
    BY <2>3 DEF CommitDelete, Safe, Typed, TypeOK
  <2> QED
    BY <2>1, <2>2, <2>3
<1> QED
  BY <1>1, <1>2, <1>3, CommitRemembered DEF Committed

LEMMA AdminCommitRemembered ==
    ASSUME Safe, Governed, Remembered, NEW s \in Sessions,
           CommitApply(s) \/ CommitDrop(s)
    PROVE  Remembered'
<1>1. CASE CommitApply(s)
  <2>1. EndCommitted(s) /\ keys' = keys
    BY <1>1 DEF CommitApply
  <2>2. Committed
    BY <1>1, <2>1, Installed, Installable DEF Committed
  <2> QED
    BY <2>1, <2>2, CommitRemembered
<1>2. CASE CommitDrop(s)
  <2>1. EndCommitted(s)
    BY <1>2 DEF CommitDrop
  <2> QED
    BY <1>2, <2>1, Dropped, CommitRemembered DEF Committed
<1> QED
  BY <1>1, <1>2

LEMMA InitRemembered == Init => Remembered
<1> SUFFICES ASSUME Init, NEW s \in Sessions PROVE Remembers(tx[s])
  BY DEF Remembered
<1>1. tx[s].pc = "idle" /\ tx[s].outcome = "none"
  BY DEF Init, Fresh
<1> QED
  BY <1>1 DEF Remembers

LEMMA NextRemembered ==
    ASSUME Safe, Governed, Remembered, [Next]_vars
    PROVE  Remembered'
<1>1. ASSUME NEW s \in Sessions, Call(s) PROVE Remembered'
  BY <1>1, CallRemembered
<1>2. ASSUME NEW s \in Sessions, RecordStep(s) PROVE Remembered'
  BY <1>2, CatalogMissingRemembered, LockCatalogRemembered, KeyMissingRemembered,
     LockKeyRemembered, InsertKeyRemembered, RecordCommitRemembered DEF RecordStep
<1>3. ASSUME NEW s \in Sessions, AdminStep(s) PROVE Remembered'
  BY <1>3, SelectRemembered, AdminCommitRemembered DEF AdminStep
<1>4. ASSUME NEW s \in Sessions, ReadStep(s) PROVE Remembered'
  BY <1>4, ReadCatalogRemembered, ReadLocatorRemembered, ReadRowRemembered,
     MergeRemembered DEF ReadStep
<1>5. ASSUME NEW s \in Sessions, Abort(s) \/ DetectDeadlock(s) PROVE Remembered'
  BY <1>5, EndRemembered DEF Abort, DetectDeadlock, Outcomes, Safe, Typed
<1>6. CASE UNCHANGED vars
  <2>1. ASSUME NEW s \in Sessions PROVE Remembers(tx[s])'
    <3>1. Remembers(tx[s])
      BY DEF Remembered
    <3> QED
      BY <1>6, <3>1 DEF vars, Remembers, Missing, Inc
  <2> QED
    BY <2>1 DEF Remembered
<1> QED
  BY <1>1, <1>2, <1>3, <1>4, <1>5, <1>6 DEF Next, Step, Done

-----------------------------------------------------------------------------
(* The refinement: what the steps are in the atomic store.                 *)

\* A record of the atomic store is the row that the locator points to.
LEMMA StoreRecords ==
    ASSUME Safe
    PROVE  /\ Store!Live = Live
           /\ \A id \in Live : /\ rows[id][keys[id].part] # Nil
                               /\ rows[id][keys[id].part].doc \in Docs
BY Stored DEF Store!Live, Live

\* Admissible is what InForce says of every record.
LEMMA StoreAdmissible ==
    ASSUME NEW doc, NEW conf
    PROVE  Store!Admissible(doc, conf) <=>
               doc \in Accepts[conf.schema] /\ Placeable(conf.class, doc)
BY DEF Store!Admissible, Placeable

LEMMA CreateStep ==
    ASSUME Safe, Governed, NEW s \in Sessions, CommitInsert(s)
    PROVE  Store!Next
<1> DEFINE part == Slot(tx[s].conf.class, tx[s].call.doc)
<1>1. /\ catalog' = catalog /\ tx[s].pc = "inserted" /\ Vetted(tx[s])
  BY DEF CommitInsert, Governed
<1>2. /\ catalog # Nil /\ Conf(catalog) # Nil
      /\ Conf(catalog).class = tx[s].conf.class /\ Conf(catalog).schema = tx[s].conf.schema
  <2>1. catalog \in CatalogRows /\ Conf(catalog) \in Configs
    BY <1>1, SharersKnow DEF Conf, Configs, CatalogRows
  <2> QED
    BY <1>1, <2>1, SharersKnow, NilAssumption DEF Conf
<1>3. tx[s].call.doc \in Docs /\ tx[s].claim \in (SUBSET Ids) \ {{}} /\ tx[s].claim \cap Live = {}
  BY <1>1, Inserted DEF Vetted, Live
<1>4. PICK doc \in Docs, batch \in (SUBSET Ids) \ {{}} : doc = tx[s].call.doc /\ batch = tx[s].claim
  BY <1>3
<1>5. Store!Admissible(doc, Conf(catalog))
  BY <1>1, <1>2, <1>4, StoreAdmissible DEF Vetted
<1> DEFINE record == [doc |-> doc, version |-> 1]
<1>6. ASSUME NEW id \in Ids
      PROVE  (IF keys[id] = Nil THEN Nil ELSE rows[id][keys[id].part])'
             = IF id \in batch THEN record
               ELSE IF keys[id] = Nil THEN Nil ELSE rows[id][keys[id].part]
  <2>1. CASE id \in batch
    BY <1>4, <2>1, Inserted
  <2>2. CASE id \notin batch
    BY <1>4, <2>2, Inserted
  <2> QED
    BY <2>1, <2>2
<1>7. Store!Create(batch, doc)
  BY <1>1, <1>2, <1>3, <1>4, <1>5, <1>6, StoreRecords DEF Store!Create, Conf
<1> QED
  BY <1>7 DEF Store!Next

LEMMA ReplaceStep ==
    ASSUME Safe, Governed, NEW s \in Sessions, CommitUpdate(s)
    PROVE  Store!Next
<1>1. /\ catalog' = catalog /\ keys' = keys /\ tx[s].pc = "updated" /\ TypeOK
      /\ Vetted(tx[s])
  BY DEF CommitUpdate, Governed, Safe, Typed
<1>2. PICK id \in Ids, doc \in Docs : id = tx[s].call.id /\ doc = tx[s].call.doc
  BY <1>1, OwnedRecord DEF RecordCalls
<1>3. /\ tx[s].key # Nil /\ tx[s].key.part \in Parts /\ keys[id] = tx[s].key
      /\ rows[id][keys[id].part] = tx[s].row
  BY <1>1, <1>2, OwnedRecord
<1>4. /\ catalog # Nil /\ Conf(catalog) # Nil
      /\ Conf(catalog).class = tx[s].conf.class /\ Conf(catalog).schema = tx[s].conf.schema
  <2>1. catalog \in CatalogRows /\ Conf(catalog) \in Configs
    BY <1>1, SharersKnow DEF Conf, Configs, CatalogRows
  <2> QED
    BY <1>1, <2>1, SharersKnow, NilAssumption DEF Conf
<1>5. Replaceable(tx[s].call, tx[s].conf, keys[id].part)
  BY <1>1, <1>3 DEF Vetted
<1>6. Store!Admissible(doc, Conf(catalog))
  BY <1>2, <1>4, <1>5, StoreAdmissible DEF Replaceable
<1>7. id \in Live
  BY <1>3 DEF Live
<1>8. Conf(catalog).class = "temporal" =>
          Start[doc] = Start[rows[id][keys[id].part].doc]
  <2>1. keys[id].part = Slot(catalog.class, rows[id][keys[id].part].doc)
    BY <1>7 DEF Governed, InForce
  <2>2. keys[id].part = Slot(catalog.class, doc)
    BY <1>2, <1>4, <1>5 DEF Replaceable, Conf
  <2> QED
    BY <2>1, <2>2 DEF Slot, Conf
<1> DEFINE record == [doc |-> doc, version |-> rows[id][keys[id].part].version + 1]
<1>9. ASSUME NEW i \in Ids
      PROVE  (IF keys[i] = Nil THEN Nil ELSE rows[i][keys[i].part])'
             = IF i = id THEN record
               ELSE IF keys[i] = Nil THEN Nil ELSE rows[i][keys[i].part]
  <2>1. CASE i = id
    <3>1. rows' = [rows EXCEPT ![id][keys[id].part] = record]
      BY <1>2, <1>3 DEF CommitUpdate, NextVersion
    <3>2. rows'[id][keys[id].part] = record
      BY <1>1, <1>3, <3>1 DEF TypeOK
    <3> QED
      BY <1>1, <1>3, <2>1, <3>2
  <2>2. CASE i # id
    BY <1>1, <1>2, <2>2 DEF CommitUpdate, TypeOK
  <2> QED
    BY <2>1, <2>2
<1>10. Store!Replace(id, doc)
  BY <1>1, <1>3, <1>4, <1>6, <1>7, <1>8, <1>9, StoreRecords DEF Store!Replace, Conf
<1> QED
  BY <1>10 DEF Store!Next

LEMMA DeleteStep ==
    ASSUME Safe, NEW s \in Sessions, CommitDelete(s)
    PROVE  Store!Next
<1>1. catalog' = catalog /\ tx[s].pc = "deleted" /\ TypeOK
  BY DEF CommitDelete, Safe, Typed
<1>2. PICK id \in Ids : id = tx[s].call.id
  BY <1>1, OwnedRecord
<1>3. keys[id] # Nil /\ id \in Live
  BY <1>1, <1>2, OwnedRecord DEF Live
<1>4. ASSUME NEW i \in Ids
      PROVE  (IF keys[i] = Nil THEN Nil ELSE rows[i][keys[i].part])'
             = IF i = id THEN Nil
               ELSE IF keys[i] = Nil THEN Nil ELSE rows[i][keys[i].part]
  BY <1>1, <1>2 DEF CommitDelete, TypeOK
<1>5. Store!Delete(id)
  BY <1>1, <1>3, <1>4, StoreRecords DEF Store!Delete, Conf
<1> QED
  BY <1>5 DEF Store!Next

LEMMA ConfigureStep ==
    ASSUME Safe, Governed, NEW s \in Sessions, CommitApply(s)
    PROVE  Store!Next
<1>1. PICK conf \in Configs : conf = tx[s].conf
  BY Installed
<1>2. catalog' # Nil /\ Conf(catalog)' = conf
  BY <1>1, Installed DEF Conf, Configs
<1>3. ASSUME NEW id \in Live
      PROVE  /\ catalog # Nil /\ Conf(catalog) # Nil /\ conf.class = Conf(catalog).class
             /\ Store!Admissible(rows[id][keys[id].part].doc, conf)
  <2>1. catalog # Nil /\ Placeable(catalog.class, rows[id][keys[id].part].doc)
    BY DEF Governed, InForce
  <2>2. Conf(catalog) \in Configs
    BY <2>1 DEF Safe, Typed, TypeOK, Conf, Configs, CatalogRows
  <2>3. /\ conf.class = catalog.class
        /\ rows[id][keys[id].part].doc \in Accepts[conf.schema]
    BY <1>1, Installed, Installable
  <2> QED
    BY <2>1, <2>2, <2>3, StoreAdmissible, NilAssumption DEF Conf
<1>4. keys' = keys /\ rows' = rows
  BY DEF CommitApply
<1>5. Store!Configure(conf)
  BY <1>2, <1>3, <1>4, StoreRecords DEF Store!Configure, Live
<1>6. conf \in Store!Configs
  BY DEF Store!Configs, Store!Classes, Configs, Classes
<1> QED
  BY <1>5, <1>6 DEF Store!Next

LEMMA RemoveStep ==
    ASSUME Safe, NEW s \in Sessions, CommitDrop(s)
    PROVE  Store!Next
<1>1. tx[s].pc = "dropping"
  BY DEF CommitDrop
<1>2. catalog \in CatalogRows /\ catalog # Nil
  BY <1>1 DEF Safe, Typed, TypeOK, Isolated, TxOK, LockPhase, LockRow
<1>3. Conf(catalog) # Nil
  <2>1. Conf(catalog) \in Configs
    BY <1>2 DEF Conf, Configs, CatalogRows
  <2> QED
    BY <2>1, NilAssumption
<1>4. Store!Remove
  BY <1>2, <1>3, Dropped DEF Store!Remove
<1> QED
  BY <1>4 DEF Store!Next

\* Every other step changes neither the catalog nor a record.
LEMMA StutterStep ==
    ASSUME UNCHANGED <<catalog, keys, rows>>
    PROVE  UNCHANGED Store!vars
BY DEF Store!vars, Conf

LEMMA EveryStep ==
    ASSUME Safe, Governed, [Next]_vars
    PROVE  [Store!Next]_(Store!vars)
<1>1. ASSUME NEW s \in Sessions, Call(s) \/ Abort(s) \/ DetectDeadlock(s)
      PROVE  UNCHANGED Store!vars
  BY <1>1, StutterStep DEF Call, Abort, DetectDeadlock, database
<1>2. ASSUME NEW s \in Sessions, RecordStep(s)
      PROVE  [Store!Next]_(Store!vars)
  <2>1. CASE \/ CatalogMissing(s) \/ LockCatalog(s) \/ KeyMissing(s) \/ LockKey(s)
             \/ InsertKey(s)
    BY <2>1, StutterStep
    DEF CatalogMissing, LockCatalog, KeyMissing, LockKey, InsertKey, database
  <2> QED
    BY <1>2, <2>1, CreateStep, ReplaceStep, DeleteStep DEF RecordStep
<1>3. ASSUME NEW s \in Sessions, AdminStep(s)
      PROVE  [Store!Next]_(Store!vars)
  <2>1. CASE SelectNoCatalog(s) \/ SelectCatalog(s) \/ Upsert(s)
    BY <2>1, StutterStep DEF SelectNoCatalog, SelectCatalog, Upsert, database
  <2> QED
    BY <1>3, <2>1, ConfigureStep, RemoveStep DEF AdminStep
<1>4. ASSUME NEW s \in Sessions, ReadStep(s)
      PROVE  UNCHANGED Store!vars
  BY <1>4, StutterStep DEF ReadStep, ReadCatalog, ReadLocator, ReadRow, Merge, database
<1>5. CASE UNCHANGED vars
  BY <1>5, StutterStep DEF vars
<1> QED
  BY <1>1, <1>2, <1>3, <1>4, <1>5 DEF Next, Step, Done

-----------------------------------------------------------------------------
(* The theorems.                                                           *)

\* README.md:142 "A non-empty catalog cannot change its storage class", which
\* two calls of ApplyCatalog at once can break: it holds as long as one session
\* alone configures the catalog, however many write to it and delete it.
THEOREM ClassesUniform ==
    ASSUME OneConfigurer
    PROVE  Spec => []ClassUniform
<1>1. Safe /\ Governed => ClassUniform
  BY DEF Governed, InForce, ClassUniform
<1> QED
  BY <1>1, AlwaysGoverned, PTL

\* Every stored document satisfies the schema in force: ApplyCatalog's check
\* under FOR UPDATE and the writers' FOR KEY SHARE leave no gap between them.
THEOREM DocumentsValid ==
    ASSUME OneConfigurer
    PROVE  Spec => []StoredDocumentsValid
<1>1. Safe /\ Governed => StoredDocumentsValid
  BY DEF Governed, InForce, StoredDocumentsValid
<1> QED
  BY <1>1, AlwaysGoverned, PTL

\* ErrNotFound is true of some moment of the call, although getRecord waits
\* for a lock between its snapshots and GetRecord takes three of them.
THEOREM NotFoundTrue ==
    ASSUME OneConfigurer
    PROVE  Spec => []NotFoundIsTrue
<1>1. Safe /\ Governed /\ Remembered /\ [Next]_vars => Remembered'
  BY NextRemembered
<1>2. Remembered => NotFoundIsTrue
  BY DEF Remembered, Remembers, NotFoundIsTrue
<1> QED
  BY <1>1, <1>2, InitRemembered, AlwaysGoverned, PTL DEF Spec

\* The Store interface as store/store.go presents it: every COMMIT is one step
\* of the atomic store, and no other step shows in it.
THEOREM RefinesRecordStore ==
    ASSUME OneConfigurer
    PROVE  Spec => ImplementsRecordStore
<1>1. Init => Store!Init
  BY DEF Init, Store!Init
<1>2. Safe /\ Governed /\ [Next]_vars => [Store!Next]_(Store!vars)
  BY EveryStep
<1> QED
  BY <1>1, <1>2, AlwaysGoverned, PTL DEF Spec, ImplementsRecordStore, Store!Spec

\* What RecordStore promises of its records, and no COMMIT breaks: none without
\* a catalog, and each admissible under its configuration, with the start that
\* recordTarget asks of a temporal document.
THEOREM RecordsAdmissible ==
    ASSUME OneConfigurer
    PROVE  Spec => []Store!StoredAdmissible
<1>1. ASSUME Safe, Governed, NEW id \in Live
      PROVE  /\ catalog # Nil /\ Conf(catalog) # Nil
             /\ Store!Admissible(rows[id][keys[id].part].doc, Conf(catalog))
  <2> DEFINE doc == rows[id][keys[id].part].doc
  <2>1. /\ catalog # Nil /\ catalog \in CatalogRows
        /\ doc \in Accepts[catalog.schema] /\ Placeable(catalog.class, doc)
    BY <1>1 DEF Governed, InForce, Safe, Typed, TypeOK
  <2>2. Conf(catalog) \in Configs
    BY <2>1 DEF Conf, Configs, CatalogRows
  <2> QED
    BY <2>1, <2>2, StoreAdmissible, NilAssumption DEF Conf
<1>2. ASSUME Safe, Governed PROVE Store!StoredAdmissible
  BY <1>1, <1>2, StoreRecords DEF Store!StoredAdmissible, Live
<1>3. Safe /\ Governed => Store!StoredAdmissible
  BY <1>2
<1> QED
  BY <1>3, AlwaysGoverned, PTL
=============================================================================
