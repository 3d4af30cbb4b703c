----------------------------- MODULE RecordStore -----------------------------
(***************************************************************************)
(* What the Store interface of store/store.go promises for one catalog:    *)
(* every operation takes effect at one instant.  A catalog is configured   *)
(* with a storage class and a schema, every stored record is admissible    *)
(* under that configuration, and a record carries a version that counts    *)
(* the replacements of its document.  There are no sessions, transactions, *)
(* locks, locator rows or physical tables here; TlonStore has all of these *)
(* and is checked to implement this module.                                *)
(***************************************************************************)
EXTENDS Naturals

CONSTANTS
    Ids,        \* record identifiers
    Docs,       \* record documents
    Schemas,    \* record schemas, with the queryables and sortables they fix
    Start,      \* Start[d]: the closed start of d's time interval, or Nil
    Accepts,    \* Accepts[sc]: the documents that satisfy schema sc
    Nil         \* absence: no catalog, no record, an SQL NULL

VARIABLES
    config,     \* the catalog's class and schema, Nil when it does not exist
    records     \* records[id]: document and version, Nil when absent

vars == <<config, records>>

Classes == {"transactional", "temporal"}
Configs == [class : Classes, schema : Schemas]
Records == [doc : Docs, version : Nat \ {0}]

Live == {id \in Ids : records[id] # Nil}

\* A document may be stored under a configuration.
Admissible(doc, conf) ==
    /\ doc \in Accepts[conf.schema]
    /\ conf.class = "temporal" => Start[doc] # Nil

TypeOK ==
    /\ config \in Configs \cup {Nil}
    /\ records \in [Ids -> Records \cup {Nil}]

Init ==
    /\ config = Nil
    /\ records = [id \in Ids |-> Nil]

-----------------------------------------------------------------------------
\* Creating or reconfiguring the catalog: the class of a non-empty catalog is
\* fixed and no stored record may become inadmissible.
Configure(conf) ==
    /\ Live # {} => config # Nil /\ conf.class = config.class
    /\ \A id \in Live : Admissible(records[id].doc, conf)
    /\ config' = conf
    /\ UNCHANGED records

\* Deleting the catalog takes every record with it.
Remove ==
    /\ config # Nil
    /\ config' = Nil
    /\ records' = [id \in Ids |-> Nil]

\* A single creation and a bulk batch alike: all of the batch or none of it.
Create(batch, doc) ==
    /\ config # Nil
    /\ Admissible(doc, config)
    /\ batch \cap Live = {}
    /\ records' = [id \in Ids |->
           IF id \in batch THEN [doc |-> doc, version |-> 1] ELSE records[id]]
    /\ UNCHANGED config

\* A replacement keeps the partition of a temporal record and counts up.
Replace(id, doc) ==
    /\ config # Nil
    /\ id \in Live
    /\ Admissible(doc, config)
    /\ config.class = "temporal" => Start[doc] = Start[records[id].doc]
    /\ records' = [records EXCEPT ![id] =
           [doc |-> doc, version |-> records[id].version + 1]]
    /\ UNCHANGED config

Delete(id) ==
    /\ id \in Live
    /\ records' = [records EXCEPT ![id] = Nil]
    /\ UNCHANGED config

Next ==
    \/ \E conf \in Configs : Configure(conf)
    \/ Remove
    \/ \E batch \in (SUBSET Ids) \ {{}}, doc \in Docs : Create(batch, doc)
    \/ \E id \in Ids, doc \in Docs : Replace(id, doc)
    \/ \E id \in Ids : Delete(id)

Spec == Init /\ [][Next]_vars

\* The abstract safety of the store: whatever is stored is admissible under
\* the configuration in force, and nothing is stored without a catalog.
StoredAdmissible ==
    \A id \in Live : config # Nil /\ Admissible(records[id].doc, config)
=============================================================================
