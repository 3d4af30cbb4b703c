------------------------------ MODULE MCSeeding ------------------------------
(***************************************************************************)
(* Instances of Seeding for TLC: two loads and a run of the demo, or of    *)
(* load configure, that may be pointed at one of the catalogs of the load. *)
(***************************************************************************)
EXTENDS Seeding, TLC

CONSTANTS lt, lp, first, second, third

Load(storage, count, batch, reset) ==
    [tool |-> "load", storage |-> storage, count |-> count, batch |-> batch, reset |-> reset]
Demo(catalog, count, reset) ==
    [tool |-> "demo", catalog |-> catalog, count |-> count, reset |-> reset]
Configure == [tool |-> "configure", storage |-> "both", count |-> 0]

MCOptions ==
    first  :> {Load("both", 3, 2, FALSE), Load("temporal", 3, 1, FALSE)} @@
    second :> {Load("transactional", 2, 1, FALSE), Load("both", 3, 3, TRUE)} @@
    third  :> {Demo(lt, 2, FALSE), Demo(lp, 2, FALSE), Demo(lt, 2, TRUE), Configure,
               Load("both", 2, 2, FALSE), Load("transactional", 3, 1, TRUE)}
=============================================================================
