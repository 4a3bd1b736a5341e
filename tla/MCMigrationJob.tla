---------------------------- MODULE MCMigrationJob ----------------------------
(***************************************************************************)
(* MigrationJob on the three tables of the manifest: one policy, two       *)
(* documents of its class in one range, one file audit row of a document.  *)
(***************************************************************************)
EXTENDS MigrationJob, TLC

CONSTANTS p1, d1, d2, f1

MCKeys == {p1, d1, d2, f1}
MCRangeTable == <<1, 2, 3>>
MCRangeOf == (p1 :> 1) @@ (d1 :> 2) @@ (d2 :> 2) @@ (f1 :> 3)
MCParentOf == [k \in MCKeys |-> IF k = f1 THEN d1 ELSE None]
MCPolicy == [k \in MCKeys |-> IF k \in {d1, d2} THEN p1 ELSE None]
MCRawClass == [k \in MCKeys |-> IF k \in {d1, d2} THEN "old" ELSE "kept"]
MCNewClass == [k \in MCKeys |-> IF k \in {d1, d2} THEN "new" ELSE "kept"]
=============================================================================
