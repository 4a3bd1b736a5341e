------------------------------ MODULE SafeArchive ------------------------------
(***************************************************************************)
(* What the migration job promises about the rows of the source and of the *)
(* archive, with its stages, staging tables, verdicts, counts, retries and *)
(* crashes left out: a row is copied once, after its parent, and nothing   *)
(* takes the copy back; a row is deleted once, before no child of it, and  *)
(* while the operator is careful only if its copy is in the archive.       *)
(***************************************************************************)
CONSTANTS Keys, ParentOf, None,
          MayBeArchived,  \* rows the archive may hold from the start
          Mutable         \* rows the application may still touch or remove

VARIABLES source,    \* source[k]: the row at the source: cold, touched or gone
          arch,      \* arch[k]: its copy in the archive: copy, other or none
          deleted,   \* the rows that were deleted here
          careless   \* VALIDATE was run on incomplete staging

vars == <<source, arch, deleted, careless>>

Children(S) == {k \in Keys : ParentOf[k] \in S /\ source[k] # "gone"}

Gone(S) == [k \in Keys |-> IF k \in S THEN "gone" ELSE source[k]]

Init == /\ source = [k \in Keys |-> "cold"]
        /\ arch \in [Keys -> {"none", "copy", "other"}]
        /\ \A k \in Keys \ MayBeArchived : arch[k] = "none"
        /\ deleted = {}
        /\ careless = FALSE

Archive(S) ==
  /\ \A k \in S : /\ arch[k] = "none"
                  /\ ParentOf[k] # None => arch[ParentOf[k]] # "none"
  /\ arch' = [k \in Keys |-> IF k \in S THEN "copy" ELSE arch[k]]
  /\ UNCHANGED <<source, deleted, careless>>

Purge(S) ==
  /\ \A k \in S : /\ source[k] # "gone" /\ k \notin deleted
                  /\ arch[k] = "copy" \/ careless
  /\ Children(S) \subseteq S
  /\ source' = Gone(S)
  /\ deleted' = deleted \cup S
  /\ UNCHANGED <<arch, careless>>

Touch(k) == /\ source[k] = "cold"
            /\ source' = [source EXCEPT ![k] = "touched"]
            /\ UNCHANGED <<arch, deleted, careless>>

Remove(k) == /\ source[k] # "gone" /\ Children({k}) = {}
             /\ source' = Gone({k})
             /\ UNCHANGED <<arch, deleted, careless>>

LoseCare == /\ careless' = TRUE
            /\ UNCHANGED <<source, arch, deleted>>

Next == \/ \E S \in SUBSET Keys : Archive(S) \/ Purge(S)
        \/ \E k \in Mutable \cap Keys : Touch(k) \/ Remove(k)
        \/ LoseCare

Spec == Init /\ [][Next]_vars
=============================================================================
