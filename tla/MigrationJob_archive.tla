-------------------------- MODULE MigrationJob_archive --------------------------
(***************************************************************************)
(* Proofs about what MigrationJob archives, deletes and reports, for every *)
(* manifest, any number of rows and any number of faults.                  *)
(***************************************************************************)
EXTENDS MigrationJob_proofs

\* Where VALIDATE stands with the table it is at.
Judging == {"judging", "clearing", "recording"}

Validating == Judging \cup {"validate", "promote"}

FreshPass == pc = "validate" => ~second

\* Every parent that is validated in an earlier table is archived by now.
ParentsFirst ==
  pc \in Validating =>
    \A k \in staged : TableOf(k) < tab /\ validation[k] = "VALIDATED" => arch[k] # "none"

VerdictsSound ==
  /\ pc \in Judging => todo \subseteq Staged(tab)
  /\ pc \in Judging =>
       \A k \in Staged(tab) : validation[k] = "VALIDATED" /\ (k \notin todo \/ second) =>
          RowPasses(k)
  /\ pc \in Judging /\ second =>
       /\ \A k \in todo : ClassFails(k)
       /\ \A k \in Staged(tab) :
            validation[k] = "VALIDATED" /\ ClassFails(k) => k \in todo
  /\ pc = "promote" =>
       \A k \in Staged(tab) : validation[k] = "VALIDATED" =>
          arch[k] = "copy" /\ RowPasses(k) /\ ~ClassFails(k)

-----------------------------------------------------------------------------
\* EXTRACT finds nothing more to plan in a table it has counted.
Emptied(t) == (\A r \in RangesOf(t) : ext[r] = "none") =>
                 \A k \in RowsOf(t) : source[k] # "cold"

ExtractCounted ==
  /\ \A t \in Tables : ledger[t].extracted # NULL =>
       /\ Emptied(t)
       /\ \A r \in RangesOf(t) : ext[r] # "open"
       /\ ledger[t].extracted = Cardinality(unload \cap RowsOf(t))
  /\ pc = "unload" => Emptied(tab)

\* No row is both staged and refused by LOAD, even if a range is loaded again.
Loading == {"dropRejects", "loading", "rejecting"}

LoadSets ==
  /\ staged \subseteq unload
  /\ \A k \in staged : rejects[k] # "LOAD"
  /\ \A k \in Keys : load[RangeOf[k]] = "PENDING" => k \notin staged /\ rejects[k] # "LOAD"
  /\ pc \in {"load", "dropRejects", "loading"} => batch = {}
  /\ pc \in Loading => \E r \in RangesOf(tab) :
       Current(r) /\ load[r] = "RUNNING" /\ batch \cup todo \subseteq Held(r)
  /\ pc \in Loading => todo \subseteq unload \ staged
  /\ pc \in {"loading", "rejecting"} => \A k \in todo : rejects[k] # "LOAD"
  /\ pc = "rejecting" => batch \cap (staged \cup todo) = {}

-----------------------------------------------------------------------------
\* EXTRACT and LOAD are over for good.
Over == /\ \A t \in Tables : ledger[t].extracted # NULL
        /\ \A r \in Ranges : ext[r] # "none" => ext[r] = "done" /\ load[r] = "DONE"

ParentArchived(k) == ParentOf[k] # None => arch[ParentOf[k]] # "none"

\* Rows that are archived and that VALIDATE, begun again, would validate again.
Firm(t) == {k \in PurgeSafe(t) : /\ arch[k] = "copy"
                                 /\ k \notin bad
                                 /\ ParentArchived(k)
                                 /\ Whole => ~ClassFails(k)}

\* While VALIDATE has only begun on whole staging, the validated count of a
\* table is a count of firm rows, and the rows deleted are firm.
FirmCounts ==
  ~partial =>
    /\ pc \in Validating \ {"validate"} => Whole
    /\ \A k \in Keys : validation[k] # "none" =>
          Over /\ k \in unload /\ rejects[k] # "LOAD"
    /\ \A t \in DataTables : ledger[t].validated # NULL =>
          Over /\ ledger[t].validated <= Cardinality(Firm(t))
    /\ \A t \in Tables : migAudit \cap RowsOf(t) \subseteq Firm(t)
    /\ \A t \in Tables : Cardinality(migAudit \cap RowsOf(t)) <= Zero(ledger[t].validated)

-----------------------------------------------------------------------------
\* Counts that are written together, and the order they are written in.
Paired(t) == /\ ledger[t].loaded # NULL => ledger[t].rejected # NULL
             /\ ledger[t].validated # NULL => ledger[t].failed # NULL
             /\ t \in DataTables /\ ledger[t].purged # NULL => ledger[t].validated # NULL

\* The books were compared with the last counts there are.
BooksStand ==
  /\ \A t \in Tables : Paired(t)
  /\ \A t \in Tables : Zero(ledger[t].purged) <= Cardinality(migAudit \cap RowsOf(t))
  /\ pc \in {"cleanup", "close"} \/ status = "CLOSED" => \A t \in Tables : TableCloses(t)
  /\ status = "CLOSED" => pc = "idle"

-----------------------------------------------------------------------------
LEMMA Tabled == \A k \in Keys : TableOf(k) \in Tables
  BY Params DEF TableOf

LEMMA PassStays ==
  ASSUME UNCHANGED <<staged, validation, arch, bad>>
  PROVE  \A k : RowPasses(k)' <=> RowPasses(k)
  BY DEF RowPasses, ParentPresent

LEMMA SidesStay ==
  ASSUME UNCHANGED staged
  PROVE  /\ \A k : SourceClass(k)' = SourceClass(k)
         /\ \A t, c : SourceSide(t, c)' = SourceSide(t, c) /\ TargetSide(t, c)' = TargetSide(t, c)
         /\ \A k : Moved(k)' <=> Moved(k)
         /\ \A t : MovedClasses(t)' = MovedClasses(t)
  BY DEF SourceClass, SourceSide, TargetSide, Moved, MovedClasses, Staged

\* A row whose class is found to agree stays so when hashes are repaired.
LEMMA FailsLess ==
  ASSUME UNCHANGED staged, bad' \subseteq bad
  PROVE  \A k : ClassFails(k)' => ClassFails(k)
<1>1. \A t, c : Mismatch(t, c)' => Mismatch(t, c)
  BY SidesStay DEF Mismatch
<1> QED
  BY <1>1, SidesStay DEF ClassFails

LEMMA FailsStays ==
  ASSUME UNCHANGED <<staged, bad>>
  PROVE  \A k : ClassFails(k)' <=> ClassFails(k)
<1>1. \A t, c : Mismatch(t, c)' <=> Mismatch(t, c)
  BY SidesStay DEF Mismatch
<1> QED
  BY <1>1, SidesStay DEF ClassFails

ArchInv == FreshPass /\ ParentsFirst /\ VerdictsSound /\ ArchiveHasParents

LEMMA OutsideArch ==
  ASSUME ArchInv, pc' \notin Validating, UNCHANGED arch
  PROVE  ArchInv'
  BY DEF ArchInv, FreshPass, ParentsFirst, VerdictsSound, ArchiveHasParents, Validating, Judging

LEMMA StartsArch ==
  ASSUME TypeOK, ArchInv, Goto("validate", 1), UNCHANGED <<staged, arch>>
  PROVE  ArchInv'
<1>1. \A k \in staged : TableOf(k) \in Tables /\ ~(TableOf(k) < 1)
  BY Tabled DEF TypeOK, Tables
<1> QED
  BY <1>1 DEF Goto, ArchInv, FreshPass, ParentsFirst, VerdictsSound, ArchiveHasParents, Judging

LEMMA ArchStays ==
  ASSUME ArchInv, UNCHANGED <<staged, validation, arch, bad, tab, todo, second>>,
         UNCHANGED pc \/ (pc \in Judging /\ pc' \in Judging)
  PROVE  ArchInv'
<1>1. \A k : (RowPasses(k)' <=> RowPasses(k)) /\ (ClassFails(k)' <=> ClassFails(k))
  BY PassStays, FailsStays
<1>2. Staged(tab)' = Staged(tab)
  BY DEF Staged, RowsOf
<1> QED
  BY <1>1, <1>2 DEF ArchInv, FreshPass, ParentsFirst, VerdictsSound, ArchiveHasParents,
     Validating, Judging

LEMMA ArchKept == TypeOK /\ ArchInv /\ [Next]_vars => ArchInv'
<1> SUFFICES ASSUME TypeOK, ArchInv, [Next]_vars PROVE ArchInv'
  OBVIOUS
<1>1. ASSUME NEW verb \in Stages \cup {"all"}, Start(verb) PROVE ArchInv'
    <2>1. UNCHANGED <<staged, arch>>
      BY <1>1 DEF Start, staging, verdicts
    <2>2. Goto("validate", 1) \/ pc' \notin Validating
      BY <1>1 DEF Start, Goto, Stages, Validating, Judging
    <2> QED
      BY <2>1, <2>2, OutsideArch, StartsArch
<1>2. ASSUME MarkFailed PROVE ArchInv'
    BY <1>2, OutsideArch DEF MarkFailed, Goto, verdicts, loop, Validating,
      Judging
<1>3. ASSUME Stop PROVE ArchInv'
    BY <1>3, OutsideArch DEF Stop, Goto, verdicts, loop, Validating,
      Judging
<1>4. ASSUME NEW k0 \in Keys, TouchRow(k0) PROVE ArchInv'
    BY <1>4, ArchStays DEF TouchRow, staging, verdicts, loop
<1>5. ASSUME NEW k0 \in Keys, RemoveRow(k0) PROVE ArchInv'
    BY <1>5, ArchStays DEF RemoveRow, staging, verdicts, loop
<1>6. ASSUME NEW k0 \in Keys, Repair(k0) PROVE ArchInv'
    BY <1>6, OutsideArch DEF Repair, Validating, Judging
<1>7. ASSUME PlanRanges PROVE ArchInv'
    BY <1>7, OutsideArch DEF PlanRanges, Goto, verdicts, loop, Validating,
      Judging
<1>8. ASSUME NEW r \in Ranges, UnloadRange(r) PROVE ArchInv'
    BY <1>8, OutsideArch DEF UnloadRange, Goto, verdicts, loop, Validating,
      Judging
<1>9. ASSUME ExtractDone PROVE ArchInv'
    BY <1>9, OutsideArch DEF ExtractDone, NextTable, EndStage, Follows,
      Goto, verdicts, loop, Validating, Judging
<1>10. ASSUME LoadRefused PROVE ArchInv'
    BY <1>10, OutsideArch DEF LoadRefused, Raises, Goto, verdicts, loop,
      Validating, Judging
<1>11. ASSUME NEW r \in Ranges, BeginRange(r) PROVE ArchInv'
    BY <1>11, OutsideArch DEF BeginRange, Goto, verdicts, loop, Validating,
      Judging
<1>12. ASSUME NEW r \in Ranges, DropRejects(r) PROVE ArchInv'
    BY <1>12, OutsideArch DEF DropRejects, Goto, verdicts, loop,
      Validating, Judging
<1>13. ASSUME NEW r \in Ranges, FinishRange(r) PROVE ArchInv'
    BY <1>13, OutsideArch DEF FinishRange, Goto, verdicts, loop,
      Validating, Judging
<1>14. ASSUME NEW B \in Batches(todo), LoadBatch(B) PROVE ArchInv'
    BY <1>14, OutsideArch DEF LoadBatch, Goto, verdicts, loop, Validating,
      Judging
<1>15. ASSUME WriteLoadRejects PROVE ArchInv'
    BY <1>15, OutsideArch DEF WriteLoadRejects, Goto, verdicts, loop,
      Validating, Judging
<1>16. ASSUME LoadDone PROVE ArchInv'
    <2>1. UNCHANGED <<staged, arch>>
      BY <1>16 DEF LoadDone, staging, verdicts
    <2>2. NextTable("load") \/ Raises
      BY <1>16 DEF LoadDone
    <2>3. Goto("validate", 1) \/ pc' \notin Validating
      BY <2>2 DEF NextTable, EndStage, Follows, Raises, Goto, Validating, Judging
    <2> QED
      BY <2>1, <2>3, OutsideArch, StartsArch
<1>17. ASSUME BeginValidate PROVE ArchInv'
    BY <1>17, PassStays DEF BeginValidate, staging, Staged, ArchInv, FreshPass, ParentsFirst,
       VerdictsSound, ArchiveHasParents, Validating, Judging
<1>18. ASSUME NEW B \in Batches(todo), JudgeBatch(B) PROVE ArchInv'
    <2> DEFINE J == batch'
    <2>1. /\ pc = "judging" /\ pc' = "clearing" /\ ~second /\ J \subseteq todo
          /\ todo' = todo \ J
          /\ UNCHANGED <<staged, arch, bad, tab, second>>
      BY <1>18 DEF JudgeBatch, Batches, staging
    <2>2. validation' = [k \in Keys |->
                           IF k \notin J THEN validation[k]
                           ELSE IF RowPasses(k) THEN "VALIDATED" ELSE "FAILED"]
      BY <1>18 DEF JudgeBatch
    <2>3. \A k \in J : k \in staged /\ k \in Keys /\ TableOf(k) = tab
      BY <2>1 DEF ArchInv, VerdictsSound, Judging, Staged, RowsOf
    <2>4. \A k \in Keys : TableOf(k) = tab => (RowPasses(k)' <=> RowPasses(k))
      <3> SUFFICES ASSUME NEW k \in Keys, TableOf(k) = tab PROVE RowPasses(k)' <=> RowPasses(k)
        OBVIOUS
      <3>1. ParentOf[k] # None => validation'[ParentOf[k]] = validation[ParentOf[k]]
        BY <2>2, <2>3, Tabled, ManifestOK DEF ManifestOK, Tables
      <3> QED
        BY <2>1, <3>1 DEF RowPasses, ParentPresent
    <2>5. ParentsFirst'
      BY <2>1, <2>2, <2>3, Tabled DEF TypeOK, ArchInv, ParentsFirst, Validating, Judging, Tables
    <2>6. VerdictsSound'
      BY <2>1, <2>2, <2>3, <2>4 DEF ArchInv, VerdictsSound, Judging, Staged, RowsOf
    <2> QED
      BY <2>1, <2>5, <2>6 DEF ArchInv, FreshPass, ArchiveHasParents
<1>19. ASSUME NEW B \in Batches(todo), FlipBatch(B) PROVE ArchInv'
    <2> DEFINE J == batch'
    <2>1. /\ pc = "judging" /\ pc' = "clearing" /\ second /\ J \subseteq todo
          /\ todo' = todo \ J
          /\ UNCHANGED <<staged, arch, bad, tab, second>>
      BY <1>19 DEF FlipBatch, Batches, staging
    <2>2. validation' = [k \in Keys |-> IF k \in J THEN "FAILED" ELSE validation[k]]
      BY <1>19 DEF FlipBatch
    <2>3. \A k \in J : k \in staged /\ k \in Keys /\ TableOf(k) = tab
      BY <2>1 DEF ArchInv, VerdictsSound, Judging, Staged, RowsOf
    <2>4. \A k \in Keys : TableOf(k) = tab => (RowPasses(k)' <=> RowPasses(k))
      <3> SUFFICES ASSUME NEW k \in Keys, TableOf(k) = tab PROVE RowPasses(k)' <=> RowPasses(k)
        OBVIOUS
      <3>1. ParentOf[k] # None => validation'[ParentOf[k]] = validation[ParentOf[k]]
        BY <2>2, <2>3, Tabled, ManifestOK DEF ManifestOK, Tables
      <3> QED
        BY <2>1, <3>1 DEF RowPasses, ParentPresent
    <2>5. \A k \in Keys : ClassFails(k)' <=> ClassFails(k)
      BY <2>1, FailsStays
    <2>6. ParentsFirst'
      BY <2>1, <2>2, <2>3, Tabled DEF TypeOK, ArchInv, ParentsFirst, Validating, Judging, Tables
    <2>7. VerdictsSound'
      BY <2>1, <2>2, <2>3, <2>4, <2>5 DEF TypeOK, ArchInv, VerdictsSound, Judging, Staged, RowsOf
    <2> QED
      BY <2>1, <2>6, <2>7 DEF ArchInv, FreshPass, ArchiveHasParents
<1>20. ASSUME SecondPass PROVE ArchInv'
    <2>1. /\ pc = "judging" /\ pc' = "judging" /\ ~second /\ todo = {} /\ second'
          /\ todo' = {k \in Staged(tab) : RowPasses(k) /\ ClassFails(k)}
          /\ UNCHANGED <<staged, validation, arch, bad, tab>>
      BY <1>20 DEF SecondPass, staging, verdicts
    <2>2. \A k \in Keys : (RowPasses(k)' <=> RowPasses(k)) /\ (ClassFails(k)' <=> ClassFails(k))
      BY <2>1, PassStays, FailsStays
    <2>3. Staged(tab)' = Staged(tab) /\ Staged(tab) \subseteq Keys
      BY <2>1 DEF Staged, RowsOf
    <2>4. \A k \in Staged(tab) : validation[k] = "VALIDATED" => RowPasses(k)
      BY <2>1 DEF ArchInv, VerdictsSound, Judging
    <2>5. VerdictsSound'
      BY <2>1, <2>2, <2>3, <2>4 DEF VerdictsSound, Judging
    <2> QED
      BY <2>1, <2>5 DEF ArchInv, FreshPass, ParentsFirst, ArchiveHasParents, Validating, Judging
<1>21. ASSUME ClearRejects PROVE ArchInv'
    <2>1. /\ pc \in Judging /\ pc' \in Judging
          /\ UNCHANGED <<staged, validation, arch, bad, tab, todo, second>>
      BY <1>21 DEF ClearRejects, staging, verdicts, loop, Judging
    <2> QED
      BY <2>1, ArchStays DEF Judging
<1>22. ASSUME RecordRejects PROVE ArchInv'
    <2>1. /\ pc \in Judging /\ pc' \in Judging
          /\ UNCHANGED <<staged, validation, arch, bad, tab, todo, second>>
      BY <1>22 DEF RecordRejects, staging, verdicts, loop, Judging
    <2> QED
      BY <2>1, ArchStays DEF Judging
<1>23. ASSUME Promote PROVE ArchInv'
    <2>1. /\ pc = "judging" /\ pc' = "promote" /\ second /\ todo = {}
          /\ UNCHANGED <<staged, validation, bad, tab, second, todo>>
      BY <1>23 DEF Promote, staging, loop
    <2>2. arch' = [k \in Keys |-> IF /\ k \in Staged(tab)
                                     /\ validation[k] = "VALIDATED"
                                     /\ arch[k] = "none"
                                  THEN "copy" ELSE arch[k]]
      BY <1>23 DEF Promote
    <2>3. \A k \in Staged(tab) : validation[k] = "VALIDATED" => RowPasses(k) /\ ~ClassFails(k)
      BY <2>1 DEF ArchInv, VerdictsSound, Judging
    <2>4. \A k \in Keys : arch[k] # "none" => arch'[k] = arch[k]
      BY <2>2 DEF TypeOK
    <2>5. \A k \in Staged(tab) : validation[k] = "VALIDATED" => arch'[k] = "copy"
      BY <2>2, <2>3 DEF RowPasses, TypeOK, Staged, RowsOf
    <2>6. \A k \in Staged(tab) : validation[k] = "VALIDATED" => RowPasses(k)' /\ ~ClassFails(k)'
      <3> SUFFICES ASSUME NEW k \in Staged(tab), validation[k] = "VALIDATED"
                   PROVE  RowPasses(k)' /\ ~ClassFails(k)'
        OBVIOUS
      <3>1. k \in Keys /\ ParentOf[k] \in Keys \cup {None}
        BY ManifestOK DEF ManifestOK, Staged, RowsOf
      <3>2. ParentPresent(k) => ParentPresent(k)'
        BY <2>1, <2>4, <3>1 DEF ParentPresent
      <3>3. ~ClassFails(k)'
        BY <2>1, <2>3, <3>1, FailsStays
      <3>4. k \notin bad' /\ arch'[k] # "other"
        BY <2>1, <2>3, <2>5 DEF RowPasses
      <3> QED
        BY <2>3, <3>2, <3>3, <3>4 DEF RowPasses
    <2>7. VerdictsSound'
      BY <2>1, <2>5, <2>6 DEF VerdictsSound, Judging, Staged, RowsOf
    <2>8. ParentsFirst'
      BY <2>1, <2>4 DEF TypeOK, ArchInv, ParentsFirst, Validating, Judging
    <2>9. ArchiveHasParents'
      <3> SUFFICES ASSUME NEW k \in Keys \ MayBeArchived, arch'[k] = "copy", ParentOf[k] # None
                   PROVE  arch'[ParentOf[k]] # "none"
        BY DEF ArchiveHasParents
      <3>1. ParentOf[k] \in Keys /\ TableOf(ParentOf[k]) < TableOf(k)
        BY ManifestOK DEF ManifestOK
      <3>2. arch[ParentOf[k]] # "none"
        <4>1. CASE arch[k] = "copy"
          BY <4>1 DEF ArchInv, ArchiveHasParents
        <4>2. CASE k \in Staged(tab) /\ validation[k] = "VALIDATED"
          BY <2>1, <2>3, <3>1, <4>2
             DEF RowPasses, ParentPresent, ArchInv, ParentsFirst, Validating, Judging, Staged, RowsOf
        <4> QED
          BY <2>2, <4>1, <4>2
      <3> QED
        BY <2>4, <3>1, <3>2
    <2> QED
      BY <2>1, <2>7, <2>8, <2>9 DEF ArchInv, FreshPass
<1>24. ASSUME ValidateDone PROVE ArchInv'
    <2>1. CASE Raises \/ EndStage("validate")
      BY <1>24, <2>1, OutsideArch DEF ValidateDone, Raises, EndStage, Follows, Goto, verdicts,
         Validating, Judging
    <2>2. CASE tab < NumTables /\ Goto("validate", tab + 1)
      <3>1. /\ pc = "promote" /\ UNCHANGED <<staged, validation, arch, bad>>
            /\ tab \in Tables /\ pc' = "validate" /\ tab' = tab + 1 /\ ~second'
        BY <1>24, <2>2 DEF ValidateDone, Goto, staging, verdicts, TypeOK
      <3>2. ASSUME NEW k \in staged, TableOf(k) < tab + 1, validation[k] = "VALIDATED"
            PROVE  arch[k] # "none"
        <4>1. k \in Keys /\ TableOf(k) \in Tables
          BY Tabled DEF TypeOK
        <4>2. CASE TableOf(k) < tab
          BY <3>1, <3>2, <4>2 DEF ArchInv, ParentsFirst, Validating
        <4>3. CASE TableOf(k) = tab
          BY <3>1, <3>2, <4>1, <4>3 DEF ArchInv, VerdictsSound, Staged, RowsOf
        <4> QED
          BY <3>1, <3>2, <4>1, <4>2, <4>3 DEF Tables
      <3>3. ParentsFirst'
        BY <3>1, <3>2 DEF ParentsFirst
      <3> QED
        BY <3>1, <3>3 DEF ArchInv, FreshPass, VerdictsSound, ArchiveHasParents, Judging
    <2> QED
      BY <1>24, <2>1, <2>2 DEF ValidateDone, NextTable
<1>25. ASSUME SkipReferences PROVE ArchInv'
    BY <1>25, OutsideArch DEF SkipReferences, Descend, EndStage, Follows,
      Goto, verdicts, loop, Validating, Judging
<1>26. ASSUME Guard PROVE ArchInv'
    BY <1>26, OutsideArch DEF Guard, Descend, Raises, Goto, verdicts, loop,
      Validating, Judging
<1>27. ASSUME DryRun PROVE ArchInv'
    BY <1>27, OutsideArch DEF DryRun, TableDone, Descend, EndStage,
      Follows, Goto, verdicts, loop, Validating, Judging
<1>28. ASSUME BeginPurge PROVE ArchInv'
    BY <1>28, OutsideArch DEF BeginPurge, Goto, verdicts, loop, Validating,
      Judging
<1>29. ASSUME RecoverIntent PROVE ArchInv'
    BY <1>29, OutsideArch DEF RecoverIntent, Goto, verdicts, loop,
      Validating, Judging
<1>30. ASSUME NEW B \in Batches(todo), TakeBatch(B) PROVE ArchInv'
    BY <1>30, OutsideArch DEF TakeBatch, Goto, verdicts, loop, Validating,
      Judging
<1>31. ASSUME WriteIntent PROVE ArchInv'
    BY <1>31, OutsideArch DEF WriteIntent, Goto, verdicts, loop,
      Validating, Judging
<1>32. ASSUME DeleteCommitted PROVE ArchInv'
    BY <1>32, OutsideArch DEF DeleteCommitted, Goto, verdicts, loop,
      Validating, Judging
<1>33. ASSUME CommitUnknown PROVE ArchInv'
    BY <1>33, OutsideArch DEF CommitUnknown, Goto, verdicts, loop,
      Validating, Judging
<1>34. ASSUME DeleteRefused PROVE ArchInv'
    BY <1>34, OutsideArch DEF DeleteRefused, Goto, verdicts, loop,
      Validating, Judging
<1>35. ASSUME DeleteTransient PROVE ArchInv'
    BY <1>35, OutsideArch DEF DeleteTransient, Goto, verdicts, loop,
      Validating, Judging
<1>36. ASSUME MarkForRetry PROVE ArchInv'
    BY <1>36, OutsideArch DEF MarkForRetry, Goto, verdicts, loop,
      Validating, Judging
<1>37. ASSUME MarkRolledBack PROVE ArchInv'
    BY <1>37, OutsideArch DEF MarkRolledBack, Goto, verdicts, loop,
      Validating, Judging
<1>38. ASSUME AbortPurge PROVE ArchInv'
    BY <1>38, OutsideArch DEF AbortPurge, Raises, Goto, verdicts, loop,
      Validating, Judging
<1>39. ASSUME MarkPurged PROVE ArchInv'
    BY <1>39, OutsideArch DEF MarkPurged, Goto, verdicts, loop, Validating,
      Judging
<1>40. ASSUME PurgeDone PROVE ArchInv'
    BY <1>40, OutsideArch DEF PurgeDone, TableDone, Descend, EndStage,
      Follows, Raises, Goto, verdicts, loop, Validating, Judging
<1>41. ASSUME Closes PROVE ArchInv'
    BY <1>41, OutsideArch DEF Closes, Goto, verdicts, loop, Validating,
      Judging
<1>42. ASSUME DoesNotClose PROVE ArchInv'
    BY <1>42, OutsideArch DEF DoesNotClose, Raises, Goto, verdicts, loop,
      Validating, Judging
<1>43. ASSUME CleanUp PROVE ArchInv'
    BY <1>43, OutsideArch DEF CleanUp, Goto, verdicts, loop, Validating,
      Judging
<1>44. ASSUME Close PROVE ArchInv'
    BY <1>44, OutsideArch DEF Close, Goto, verdicts, loop, Validating,
      Judging
<1>45. CASE UNCHANGED vars
    BY <1>45, ArchStays DEF vars
<1> QED
    BY <1>1, <1>2, <1>3, <1>4, <1>5, <1>6, <1>7, <1>8, <1>9, <1>10, <1>11,
      <1>12, <1>13, <1>14, <1>15, <1>16, <1>17, <1>18, <1>19, <1>20, <1>21,
      <1>22, <1>23, <1>24, <1>25, <1>26, <1>27, <1>28, <1>29, <1>30, <1>31,
      <1>32, <1>33, <1>34, <1>35, <1>36, <1>37, <1>38, <1>39, <1>40, <1>41,
      <1>42, <1>43, <1>44, <1>45 DEF Next, Job, Extract, Load, Validate,
      Purge, Reconcile

LEMMA ArchInvariant == Spec => [](TypeOK /\ ArchInv)
<1>1. Init => TypeOK /\ Retrying /\ ArchInv
  BY TypesBegin DEF Init, ArchInv, FreshPass, ParentsFirst, VerdictsSound,
     ArchiveHasParents, Validating, Judging
<1>2. TypeOK /\ Retrying /\ ArchInv /\ [Next]_vars
        => (TypeOK /\ Retrying /\ ArchInv)'
  BY TypesKept, ArchKept
<1> QED
  BY <1>1, <1>2, PTL DEF Spec

\* No row this run promotes is in the archive without its parent.
THEOREM ParentsAreArchived == Spec => []ArchiveHasParents
<1>1. ArchInv => ArchiveHasParents
  BY DEF ArchInv
<1> QED
  BY <1>1, ArchInvariant, PTL

-----------------------------------------------------------------------------
LEMMA ExtractStays ==
  ASSUME TypeOK, ExtractCounted, UNCHANGED <<ext, unload>>,
         UNCHANGED source
           \/ source' = [k \in Keys |-> IF k \in batch THEN "gone" ELSE source[k]]
           \/ \E k \in Keys : \/ source' = [source EXCEPT ![k] = "touched"]
                              \/ source' = [source EXCEPT ![k] = "gone"],
         UNCHANGED ledger
           \/ \A t \in Tables : ledger'[t].extracted = ledger[t].extracted,
         pc' # "unload" \/ UNCHANGED <<pc, tab>>
  PROVE  ExtractCounted'
<1>1. \A k \in Keys : source'[k] = "cold" => source[k] = "cold"
  BY DEF TypeOK
<1>2. \A t : Emptied(t) => Emptied(t)'
  BY <1>1 DEF Emptied, RangesOf, RowsOf
<1> QED
  BY <1>2 DEF ExtractCounted, RangesOf, RowsOf

LEMMA ExtractKept == TypeOK /\ ExtractCounted /\ [Next]_vars => ExtractCounted'
<1> SUFFICES ASSUME TypeOK, ExtractCounted, [Next]_vars PROVE ExtractCounted'
  OBVIOUS
<1>1. ASSUME NEW verb \in Stages \cup {"all"}, Start(verb) PROVE ExtractCounted'
    BY <1>1, ExtractStays DEF Start, Stages, Goto, files, loop, atSource
<1>2. ASSUME MarkFailed PROVE ExtractCounted'
    BY <1>2, ExtractStays DEF MarkFailed, Goto, files, loop, atSource
<1>3. ASSUME Stop PROVE ExtractCounted'
    BY <1>3, ExtractStays DEF Stop, Goto, files, loop, atSource
<1>4. ASSUME NEW k0 \in Keys, TouchRow(k0) PROVE ExtractCounted'
    BY <1>4, ExtractStays DEF TouchRow, Goto, files, loop, atSource
<1>5. ASSUME NEW k0 \in Keys, RemoveRow(k0) PROVE ExtractCounted'
    BY <1>5, ExtractStays DEF RemoveRow, Goto, files, loop, atSource
<1>6. ASSUME NEW k0 \in Keys, Repair(k0) PROVE ExtractCounted'
    BY <1>6, ExtractStays DEF Repair, Goto, files, loop, atSource
<1>7. ASSUME PlanRanges PROVE ExtractCounted'
    <2> USE DEF RangesOf, RowsOf
    <2>1. /\ tab \in Tables /\ pc' = "unload"
          /\ UNCHANGED <<source, unload, ledger, tab>>
      BY <1>7 DEF PlanRanges, atSource, loop, TypeOK
    <2>2. CASE ext' = ext
      <3>1. (\A r \in RangesOf(tab) : ext[r] = "none")
               => \A r \in RangesOf(tab) : ~\E k \in Held(r) : source[k] = "cold"
        BY <1>7, <2>2 DEF PlanRanges
      <3>2. Emptied(tab)
        BY <3>1, Params DEF Emptied, Held, TableOf
      <3> QED
        BY <2>1, <2>2, <3>2 DEF ExtractCounted, Emptied
    <2>3. CASE /\ \A r \in RangesOf(tab) : ext[r] = "none"
               /\ ext' = [r \in Ranges |->
                            IF /\ RangeTable[r] = tab
                               /\ \E k \in Held(r) : source[k] = "cold"
                            THEN "open" ELSE ext[r]]
      <3>1. Emptied(tab)'
        BY <2>1, <2>3, Params DEF Emptied, Held, TableOf
      <3>2. ASSUME NEW t \in Tables, t # tab
            PROVE  \A r \in RangesOf(t) : ext'[r] = ext[r]
        BY <2>3, <3>2
      <3>3. ASSUME ledger[tab].extracted # NULL PROVE \A r \in RangesOf(tab) : ext'[r] # "open"
        <4>1. \A k \in RowsOf(tab) : source[k] # "cold"
          BY <2>1, <2>3, <3>3 DEF ExtractCounted, Emptied
        <4>2. \A r \in RangesOf(tab) : Held(r) \subseteq RowsOf(tab)
          BY DEF Held, TableOf
        <4> QED
          BY <2>3, <4>1, <4>2
      <3> QED
        BY <2>1, <3>1, <3>2, <3>3 DEF ExtractCounted, Emptied
    <2> QED
      BY <1>7, <2>2, <2>3 DEF PlanRanges
<1>8. ASSUME NEW r \in Ranges, UnloadRange(r) PROVE ExtractCounted'
    <2>1. /\ pc = "unload" /\ pc' = "unload" /\ RangeTable[r] = tab /\ ext[r] = "open"
          /\ UNCHANGED <<source, ledger, tab>>
          /\ unload' = unload \cup {k \in Held(r) : source[k] = "cold"}
          /\ ext' = [ext EXCEPT ![r] = "done"]
      BY <1>8 DEF UnloadRange, atSource, loop
    <2>2. r \in RangesOf(tab) /\ tab \in Tables
      BY <2>1 DEF RangesOf, TypeOK
    <2>3. ledger[tab].extracted = NULL
      BY <2>1, <2>2 DEF ExtractCounted
    <2>4. ASSUME NEW t \in Tables, t # tab
          PROVE  /\ unload' \cap RowsOf(t) = unload \cap RowsOf(t)
                 /\ \A q \in RangesOf(t) : ext'[q] = ext[q]
      BY <2>1, <2>4 DEF Held, RowsOf, TableOf, RangesOf, TypeOK
    <2>5. Emptied(tab)'
      BY <2>1, <2>2 DEF Emptied, TypeOK
    <2>6. \A t \in Tables : Emptied(t) => Emptied(t)'
      BY <2>1, <2>4, <2>5 DEF Emptied, RangesOf, RowsOf
    <2> QED
      BY <2>1, <2>3, <2>4, <2>5, <2>6 DEF ExtractCounted, RangesOf, RowsOf
<1>9. ASSUME ExtractDone PROVE ExtractCounted'
    <2>1. /\ pc = "unload" /\ tab \in Tables /\ pc' # "unload"
          /\ \A r \in RangesOf(tab) : ext[r] # "open"
          /\ UNCHANGED <<source, ext, unload>>
      BY <1>9 DEF ExtractDone, NextTable, EndStage, Follows, Goto, atSource, files, TypeOK
    <2>2. /\ ledger'[tab].extracted = Cardinality(unload \cap RowsOf(tab))
          /\ \A t \in Tables \ {tab} : ledger'[t] = ledger[t]
      BY <1>9, <2>1 DEF ExtractDone, TypeOK, Counts
    <2>3. Emptied(tab)
      BY <2>1 DEF ExtractCounted
    <2> QED
      BY <2>1, <2>2, <2>3 DEF ExtractCounted, Emptied, RangesOf, RowsOf
<1>10. ASSUME LoadRefused PROVE ExtractCounted'
    BY <1>10, ExtractStays DEF LoadRefused, Raises, Goto, files, loop,
      atSource
<1>11. ASSUME NEW r \in Ranges, BeginRange(r) PROVE ExtractCounted'
    BY <1>11, ExtractStays DEF BeginRange, Goto, files, loop, atSource
<1>12. ASSUME NEW r \in Ranges, DropRejects(r) PROVE ExtractCounted'
    BY <1>12, ExtractStays DEF DropRejects, Goto, files, loop, atSource
<1>13. ASSUME NEW r \in Ranges, FinishRange(r) PROVE ExtractCounted'
    BY <1>13, ExtractStays DEF FinishRange, Goto, files, loop, atSource
<1>14. ASSUME NEW B \in Batches(todo), LoadBatch(B) PROVE ExtractCounted'
    BY <1>14, ExtractStays DEF LoadBatch, Goto, files, loop, atSource
<1>15. ASSUME WriteLoadRejects PROVE ExtractCounted'
    BY <1>15, ExtractStays DEF WriteLoadRejects, Goto, files, loop, atSource
<1>16. ASSUME LoadDone PROVE ExtractCounted'
    <2>1. \A t \in Tables : ledger'[t].extracted = ledger[t].extracted
      BY <1>16 DEF LoadDone, TypeOK, Counts
    <2>2. UNCHANGED <<source, ext, unload>>
      BY <1>16 DEF LoadDone, atSource, files
    <2>3. pc' # "unload"
      BY <1>16 DEF LoadDone, NextTable, EndStage, Follows, Raises, Goto
    <2> QED
      BY <2>1, <2>2, <2>3, ExtractStays
<1>17. ASSUME BeginValidate PROVE ExtractCounted'
    BY <1>17, ExtractStays DEF BeginValidate, Goto, files, loop, atSource
<1>18. ASSUME NEW B \in Batches(todo), JudgeBatch(B) PROVE ExtractCounted'
    BY <1>18, ExtractStays DEF JudgeBatch, Goto, files, loop, atSource
<1>19. ASSUME NEW B \in Batches(todo), FlipBatch(B) PROVE ExtractCounted'
    BY <1>19, ExtractStays DEF FlipBatch, Goto, files, loop, atSource
<1>20. ASSUME SecondPass PROVE ExtractCounted'
    BY <1>20, ExtractStays DEF SecondPass, Goto, files, loop, atSource
<1>21. ASSUME ClearRejects PROVE ExtractCounted'
    BY <1>21, ExtractStays DEF ClearRejects, Goto, files, loop, atSource
<1>22. ASSUME RecordRejects PROVE ExtractCounted'
    BY <1>22, ExtractStays DEF RecordRejects, Goto, files, loop, atSource
<1>23. ASSUME Promote PROVE ExtractCounted'
    BY <1>23, ExtractStays DEF Promote, Goto, files, loop, atSource
<1>24. ASSUME ValidateDone PROVE ExtractCounted'
    <2>1. \A t \in Tables : ledger'[t].extracted = ledger[t].extracted
      BY <1>24 DEF ValidateDone, TypeOK, Counts
    <2>2. UNCHANGED <<source, ext, unload>>
      BY <1>24 DEF ValidateDone, atSource, files
    <2>3. pc' # "unload"
      BY <1>24 DEF ValidateDone, NextTable, EndStage, Follows, Raises, Goto
    <2> QED
      BY <2>1, <2>2, <2>3, ExtractStays
<1>25. ASSUME SkipReferences PROVE ExtractCounted'
    <2>1. \A t \in Tables : ledger'[t].extracted = ledger[t].extracted
      <3> SUFFICES ASSUME NEW t \in Tables PROVE ledger'[t].extracted = ledger[t].extracted
        OBVIOUS
      <3>1. ledger[t] \in Counts
        BY DEF TypeOK
      <3>2. \/ ledger'[t] = ledger[t]
            \/ ledger'[t] = [ledger[t] EXCEPT !.intended = 0, !.purged = 0]
        BY <1>25 DEF SkipReferences
      <3> QED
        BY <3>1, <3>2 DEF Counts
    <2>2. UNCHANGED <<source, ext, unload>>
      BY <1>25 DEF SkipReferences, atSource, files
    <2>3. pc' # "unload"
      BY <1>25 DEF SkipReferences, Descend, EndStage, Follows, Goto
    <2> QED
      BY <2>1, <2>2, <2>3, ExtractStays
<1>26. ASSUME Guard PROVE ExtractCounted'
    <2>1. \A t \in Tables : ledger'[t].extracted = ledger[t].extracted
      BY <1>26 DEF Guard, TypeOK, Counts
    <2>2. UNCHANGED <<source, ext, unload>>
      BY <1>26 DEF Guard, atSource, files
    <2>3. pc' # "unload"
      BY <1>26 DEF Guard, Descend, Raises, Goto
    <2> QED
      BY <2>1, <2>2, <2>3, ExtractStays
<1>27. ASSUME DryRun PROVE ExtractCounted'
    <2>1. \A t \in Tables : ledger'[t].extracted = ledger[t].extracted
      BY <1>27 DEF DryRun, TypeOK, Counts
    <2>2. UNCHANGED <<source, ext, unload>>
      BY <1>27 DEF DryRun, atSource, files
    <2>3. pc' # "unload"
      BY <1>27 DEF DryRun, TableDone, Descend, EndStage, Follows, Goto
    <2> QED
      BY <2>1, <2>2, <2>3, ExtractStays
<1>28. ASSUME BeginPurge PROVE ExtractCounted'
    BY <1>28, ExtractStays DEF BeginPurge, Goto, files, loop, atSource
<1>29. ASSUME RecoverIntent PROVE ExtractCounted'
    BY <1>29, ExtractStays DEF RecoverIntent, Goto, files, loop, atSource
<1>30. ASSUME NEW B \in Batches(todo), TakeBatch(B) PROVE ExtractCounted'
    BY <1>30, ExtractStays DEF TakeBatch, Goto, files, loop, atSource
<1>31. ASSUME WriteIntent PROVE ExtractCounted'
    BY <1>31, ExtractStays DEF WriteIntent, Goto, files, loop, atSource
<1>32. ASSUME DeleteCommitted PROVE ExtractCounted'
    BY <1>32, ExtractStays DEF DeleteCommitted, CommitDelete, files, loop
<1>33. ASSUME CommitUnknown PROVE ExtractCounted'
    BY <1>33, ExtractStays DEF CommitUnknown, CommitDelete, files, loop
<1>34. ASSUME DeleteRefused PROVE ExtractCounted'
    BY <1>34, ExtractStays DEF DeleteRefused, Goto, files, loop, atSource
<1>35. ASSUME DeleteTransient PROVE ExtractCounted'
    BY <1>35, ExtractStays DEF DeleteTransient, Goto, files, loop, atSource
<1>36. ASSUME MarkForRetry PROVE ExtractCounted'
    BY <1>36, ExtractStays DEF MarkForRetry, Goto, files, loop, atSource
<1>37. ASSUME MarkRolledBack PROVE ExtractCounted'
    BY <1>37, ExtractStays DEF MarkRolledBack, Goto, files, loop, atSource
<1>38. ASSUME AbortPurge PROVE ExtractCounted'
    <2>1. \A t \in Tables : ledger'[t].extracted = ledger[t].extracted
      BY <1>38 DEF AbortPurge, TypeOK, Counts
    <2>2. UNCHANGED <<source, ext, unload>>
      BY <1>38 DEF AbortPurge, atSource, files
    <2>3. pc' # "unload"
      BY <1>38 DEF AbortPurge, Raises, Goto
    <2> QED
      BY <2>1, <2>2, <2>3, ExtractStays
<1>39. ASSUME MarkPurged PROVE ExtractCounted'
    BY <1>39, ExtractStays DEF MarkPurged, Goto, files, loop, atSource
<1>40. ASSUME PurgeDone PROVE ExtractCounted'
    <2>1. \A t \in Tables : ledger'[t].extracted = ledger[t].extracted
      BY <1>40 DEF PurgeDone, TypeOK, Counts
    <2>2. UNCHANGED <<source, ext, unload>>
      BY <1>40 DEF PurgeDone, atSource, files
    <2>3. pc' # "unload"
      BY <1>40 DEF PurgeDone, TableDone, Descend, EndStage, Follows, Raises, Goto
    <2> QED
      BY <2>1, <2>2, <2>3, ExtractStays
<1>41. ASSUME Closes PROVE ExtractCounted'
    BY <1>41, ExtractStays DEF Closes, Goto, files, loop, atSource
<1>42. ASSUME DoesNotClose PROVE ExtractCounted'
    BY <1>42, ExtractStays DEF DoesNotClose, Raises, Goto, files, loop,
      atSource
<1>43. ASSUME CleanUp PROVE ExtractCounted'
    BY <1>43, ExtractStays DEF CleanUp, Goto, files, loop, atSource
<1>44. ASSUME Close PROVE ExtractCounted'
    BY <1>44, ExtractStays DEF Close, Goto, files, loop, atSource
<1>45. CASE UNCHANGED vars
    BY <1>45, ExtractStays DEF vars
<1> QED
    BY <1>1, <1>2, <1>3, <1>4, <1>5, <1>6, <1>7, <1>8, <1>9, <1>10, <1>11,
      <1>12, <1>13, <1>14, <1>15, <1>16, <1>17, <1>18, <1>19, <1>20, <1>21,
      <1>22, <1>23, <1>24, <1>25, <1>26, <1>27, <1>28, <1>29, <1>30, <1>31,
      <1>32, <1>33, <1>34, <1>35, <1>36, <1>37, <1>38, <1>39, <1>40, <1>41,
      <1>42, <1>43, <1>44, <1>45 DEF Next, Job, Extract, Load, Validate,
      Purge, Reconcile

-----------------------------------------------------------------------------
LEMMA OneCurrent == \A q, r \in Ranges : Current(q) /\ Current(r) => q = r
<1>1. Ranges \subseteq Nat
  BY ManifestOK DEF ManifestOK
<1> QED
  BY <1>1 DEF Current, Unloaded, RangesOf

\* Outside LOAD nothing is staged and no row becomes a reject of LOAD.
LEMMA LoadOut ==
  ASSUME TypeOK, LoadSets, pc' \notin Loading, pc' = "load" => batch' = {},
         staged' \subseteq staged,
         unload \subseteq unload',
         UNCHANGED load \/ \E r \in Ranges : load' = [load EXCEPT ![r] = "DONE"],
         UNCHANGED rejects \/ \A k \in Keys : rejects'[k] = "LOAD" => rejects[k] = "LOAD"
  PROVE  LoadSets'
<1>1. \A k \in Keys : load'[RangeOf[k]] = "PENDING" => load[RangeOf[k]] = "PENDING"
  BY Params DEF TypeOK
<1>2. staged \subseteq Keys
  BY DEF TypeOK
<1> QED
  BY <1>1, <1>2 DEF LoadSets, Loading

LEMMA LoadStays ==
  ASSUME LoadSets, UNCHANGED <<ext, unload, load, staged, rejects, pc, tab, batch, todo>>
  PROVE  LoadSets'
<1>1. (\A r : Current(r)' <=> Current(r)) /\ RangesOf(tab)' = RangesOf(tab)
  BY DEF Current, Unloaded, RangesOf
<1> QED
  BY <1>1 DEF LoadSets, Held

LEMMA LoadKept == TypeOK /\ LoadSets /\ [Next]_vars => LoadSets'
<1> SUFFICES ASSUME TypeOK, LoadSets, [Next]_vars PROVE LoadSets'
  OBVIOUS
<1>1. ASSUME NEW verb \in Stages \cup {"all"}, Start(verb) PROVE LoadSets'
    BY <1>1, LoadOut DEF Start, Stages, Goto, files, staging, loop, Loading
<1>2. ASSUME MarkFailed PROVE LoadSets'
    BY <1>2, LoadOut DEF MarkFailed, Goto, files, staging, loop, Loading
<1>3. ASSUME Stop PROVE LoadSets'
    BY <1>3, LoadOut DEF Stop, Goto, files, staging, loop, Loading
<1>4. ASSUME NEW k0 \in Keys, TouchRow(k0) PROVE LoadSets'
    BY <1>4, LoadStays DEF TouchRow, files, staging, loop
<1>5. ASSUME NEW k0 \in Keys, RemoveRow(k0) PROVE LoadSets'
    BY <1>5, LoadStays DEF RemoveRow, files, staging, loop
<1>6. ASSUME NEW k0 \in Keys, Repair(k0) PROVE LoadSets'
    BY <1>6, LoadOut DEF Repair, Goto, files, staging, loop, Loading
<1>7. ASSUME PlanRanges PROVE LoadSets'
    BY <1>7, LoadOut DEF PlanRanges, Goto, files, staging, loop, Loading
<1>8. ASSUME NEW r \in Ranges, UnloadRange(r) PROVE LoadSets'
    BY <1>8, LoadOut DEF UnloadRange, staging, loop, Loading
<1>9. ASSUME ExtractDone PROVE LoadSets'
    BY <1>9, LoadOut DEF ExtractDone, NextTable, EndStage, Follows, Goto,
      files, staging, loop, Loading
<1>10. ASSUME LoadRefused PROVE LoadSets'
    BY <1>10, LoadOut DEF LoadRefused, Raises, Goto, files, staging, loop,
      Loading
<1>11. ASSUME NEW r \in Ranges, BeginRange(r) PROVE LoadSets'
    <2>1. /\ pc = "load" /\ Current(r) /\ r \in RangesOf(tab)
          /\ load' = [load EXCEPT ![r] = "RUNNING"]
          /\ todo' = unload \cap Held(r)
          /\ batch = {} /\ batch' = {}
          /\ UNCHANGED <<ext, unload, rejects, tab>>
      BY <1>11 DEF BeginRange, Current, Unloaded, files, LoadSets
    <2>2. /\ staged' \subseteq staged
          /\ pc' \in {"dropRejects", "loading"}
          /\ staged' \cap Held(r) = {}
          /\ pc' = "loading" => \A k \in Held(r) : rejects[k] # "LOAD"
      <3>1. CASE load[r] = "RUNNING"
        BY <1>11, <3>1 DEF BeginRange
      <3>2. CASE load[r] = "PENDING"
        BY <1>11, <3>2 DEF BeginRange, LoadSets, Held
      <3>3. load[r] # "DONE"
        BY <2>1 DEF Current, Unloaded
      <3> QED
        BY <3>1, <3>2, <3>3 DEF TypeOK
    <2>3. Current(r)' /\ RangesOf(tab)' = RangesOf(tab) /\ load'[r] = "RUNNING"
      <3>1. Unloaded(tab)' = Unloaded(tab)
        BY <2>1 DEF Current, Unloaded, RangesOf, TypeOK
      <3> QED
        BY <2>1, <3>1 DEF Current, RangesOf, TypeOK
    <2>4. \A k \in Keys : load'[RangeOf[k]] = "PENDING" => load[RangeOf[k]] = "PENDING"
      BY <2>1, Params DEF TypeOK
    <2>5. staged \subseteq Keys
      BY DEF TypeOK
    <2> QED
      BY <2>1, <2>2, <2>3, <2>4, <2>5 DEF LoadSets, Loading, Held
<1>12. ASSUME NEW r \in Ranges, DropRejects(r) PROVE LoadSets'
    <2>1. /\ pc = "dropRejects" /\ pc' = "loading" /\ Current(r) /\ r \in RangesOf(tab)
          /\ UNCHANGED <<ext, load, unload, staged, tab, todo, batch>>
      BY <1>12 DEF DropRejects, Current, Unloaded, files, staging, loop
    <2>2. rejects' = [k \in Keys |-> IF RangeOf[k] = r /\ rejects[k] = "LOAD"
                                     THEN "none" ELSE rejects[k]]
      BY <1>12 DEF DropRejects
    <2>3. PICK q \in RangesOf(tab) :
            Current(q) /\ load[q] = "RUNNING" /\ batch \cup todo \subseteq Held(q)
      BY <2>1 DEF LoadSets, Loading
    <2>4. q = r
      BY <2>1, <2>3, OneCurrent DEF RangesOf
    <2>5. \A k \in todo : rejects'[k] # "LOAD"
      BY <2>2, <2>3, <2>4 DEF Held
    <2>6. Current(r)' /\ RangesOf(tab)' = RangesOf(tab)
      BY <2>1 DEF Current, Unloaded, RangesOf
    <2>7. \A k \in Keys : rejects[k] # "LOAD" => rejects'[k] # "LOAD"
      BY <2>2
    <2>8. staged \subseteq Keys
      BY DEF TypeOK
    <2> QED
      BY <2>1, <2>3, <2>4, <2>5, <2>6, <2>7, <2>8 DEF LoadSets, Loading, Held
<1>13. ASSUME NEW r \in Ranges, FinishRange(r) PROVE LoadSets'
    BY <1>13, LoadOut DEF FinishRange, LoadSets, files, loop, Loading, TypeOK
<1>14. ASSUME NEW B \in Batches(todo), LoadBatch(B) PROVE LoadSets'
    <2>1. /\ pc = "loading" /\ pc' \in {"loading", "rejecting"}
          /\ todo' = todo \ B /\ B \subseteq todo
          /\ UNCHANGED <<ext, load, unload, rejects, tab>>
      BY <1>14 DEF LoadBatch, Batches, files
    <2>2. PICK R \in SUBSET (B \cap Rejectable) : /\ batch' = R \cup (B \cap staged)
                                                  /\ staged' = staged \cup (B \ R)
      BY <1>14 DEF LoadBatch
    <2>3. PICK q \in RangesOf(tab) :
            Current(q) /\ load[q] = "RUNNING" /\ batch \cup todo \subseteq Held(q)
      BY <2>1 DEF LoadSets, Loading
    <2>4. B \cap staged = {} /\ B \subseteq unload /\ B \subseteq Keys
      BY <2>1 DEF LoadSets, Loading, TypeOK
    <2>5. Current(q)' /\ RangesOf(tab)' = RangesOf(tab)
      BY <2>1, <2>3 DEF Current, Unloaded, RangesOf
    <2>6. \A k \in B : load[RangeOf[k]] = "RUNNING" /\ rejects[k] # "LOAD"
      BY <2>1, <2>3 DEF LoadSets, Held
    <2>7. batch' \subseteq B /\ batch' \cap staged' = {}
      BY <2>2, <2>4
    <2>8. /\ staged' \subseteq unload' /\ \A k \in staged' : rejects'[k] # "LOAD"
          /\ \A k \in Keys : load'[RangeOf[k]] = "PENDING" =>
               k \notin staged' /\ rejects'[k] # "LOAD"
      BY <2>1, <2>2, <2>4, <2>6 DEF LoadSets
    <2>9. pc' \in {"load", "dropRejects", "loading"} => batch' = {}
      BY <1>14, <2>1 DEF LoadBatch
    <2>10. /\ batch' \cup todo' \subseteq Held(q)
           /\ todo' \subseteq unload' \ staged'
           /\ \A k \in todo' : rejects'[k] # "LOAD"
           /\ batch' \cap todo' = {}
      BY <2>1, <2>2, <2>3, <2>7 DEF LoadSets, Loading
    <2> QED
      BY <2>1, <2>3, <2>5, <2>7, <2>8, <2>9, <2>10 DEF LoadSets, Loading, Held
<1>15. ASSUME WriteLoadRejects PROVE LoadSets'
    <2>1. /\ pc = "rejecting" /\ pc' = "loading" /\ batch' = {}
          /\ UNCHANGED <<ext, load, unload, staged, tab, todo>>
      BY <1>15 DEF WriteLoadRejects, files, staging
    <2>2. \A k \in Keys : rejects'[k] = "LOAD" => k \in batch \/ rejects[k] = "LOAD"
      BY <1>15 DEF WriteLoadRejects, AddRejects
    <2>3. PICK q \in RangesOf(tab) :
            Current(q) /\ load[q] = "RUNNING" /\ batch \cup todo \subseteq Held(q)
      BY <2>1 DEF LoadSets, Loading
    <2>4. Current(q)' /\ RangesOf(tab)' = RangesOf(tab)
      BY <2>1, <2>3 DEF Current, Unloaded, RangesOf
    <2>5. batch \cap (staged \cup todo) = {} /\ \A k \in batch : load[RangeOf[k]] # "PENDING"
      BY <2>1, <2>3 DEF LoadSets, Held
    <2>6. staged \subseteq Keys /\ todo \subseteq Keys
      BY DEF TypeOK
    <2> QED
      BY <2>1, <2>2, <2>3, <2>4, <2>5, <2>6 DEF LoadSets, Loading, Held
<1>16. ASSUME LoadDone PROVE LoadSets'
    BY <1>16, LoadOut DEF LoadDone, NextTable, EndStage, Follows, Raises,
      Goto, files, staging, loop, Loading
<1>17. ASSUME BeginValidate PROVE LoadSets'
    BY <1>17, LoadOut DEF BeginValidate, Goto, files, staging, loop, Loading
<1>18. ASSUME NEW B \in Batches(todo), JudgeBatch(B) PROVE LoadSets'
    BY <1>18, LoadOut DEF JudgeBatch, Goto, files, staging, loop, Loading
<1>19. ASSUME NEW B \in Batches(todo), FlipBatch(B) PROVE LoadSets'
    BY <1>19, LoadOut DEF FlipBatch, Goto, files, staging, loop, Loading
<1>20. ASSUME SecondPass PROVE LoadSets'
    BY <1>20, LoadOut DEF SecondPass, Goto, files, staging, loop, Loading
<1>21. ASSUME ClearRejects PROVE LoadSets'
    BY <1>21, LoadOut DEF ClearRejects, files, staging, loop, Loading
<1>22. ASSUME RecordRejects PROVE LoadSets'
    BY <1>22, LoadOut DEF RecordRejects, AddRejects, files, staging, loop, Loading
<1>23. ASSUME Promote PROVE LoadSets'
    BY <1>23, LoadOut DEF Promote, Goto, files, staging, loop, Loading
<1>24. ASSUME ValidateDone PROVE LoadSets'
    BY <1>24, LoadOut DEF ValidateDone, NextTable, EndStage, Follows, Raises,
      Goto, files, staging, loop, Loading
<1>25. ASSUME SkipReferences PROVE LoadSets'
    BY <1>25, LoadOut DEF SkipReferences, Descend, EndStage, Follows, Goto,
      files, staging, loop, Loading
<1>26. ASSUME Guard PROVE LoadSets'
    BY <1>26, LoadOut DEF Guard, Descend, Raises, Goto, files, staging, loop,
      Loading
<1>27. ASSUME DryRun PROVE LoadSets'
    BY <1>27, LoadOut DEF DryRun, TableDone, Descend, EndStage, Follows, Goto,
      files, staging, loop, Loading
<1>28. ASSUME BeginPurge PROVE LoadSets'
    BY <1>28, LoadOut DEF BeginPurge, Goto, files, staging, loop, Loading
<1>29. ASSUME RecoverIntent PROVE LoadSets'
    BY <1>29, LoadOut DEF RecoverIntent, Goto, files, staging, loop, Loading
<1>30. ASSUME NEW B \in Batches(todo), TakeBatch(B) PROVE LoadSets'
    BY <1>30, LoadOut DEF TakeBatch, Goto, files, staging, loop, Loading
<1>31. ASSUME WriteIntent PROVE LoadSets'
    BY <1>31, LoadOut DEF WriteIntent, Goto, files, staging, loop, Loading
<1>32. ASSUME DeleteCommitted PROVE LoadSets'
    BY <1>32, LoadOut DEF DeleteCommitted, Goto, files, staging, loop, Loading
<1>33. ASSUME CommitUnknown PROVE LoadSets'
    BY <1>33, LoadOut DEF CommitUnknown, Goto, files, staging, loop, Loading
<1>34. ASSUME DeleteRefused PROVE LoadSets'
    BY <1>34, LoadOut DEF DeleteRefused, Goto, files, staging, loop, Loading
<1>35. ASSUME DeleteTransient PROVE LoadSets'
    BY <1>35, LoadOut DEF DeleteTransient, Goto, files, staging, loop, Loading
<1>36. ASSUME MarkForRetry PROVE LoadSets'
    BY <1>36, LoadOut DEF MarkForRetry, Goto, files, staging, loop, Loading
<1>37. ASSUME MarkRolledBack PROVE LoadSets'
    BY <1>37, LoadOut DEF MarkRolledBack, Goto, files, staging, loop, Loading
<1>38. ASSUME AbortPurge PROVE LoadSets'
    BY <1>38, LoadOut DEF AbortPurge, Raises, Goto, files, staging, loop,
      Loading
<1>39. ASSUME MarkPurged PROVE LoadSets'
    BY <1>39, LoadOut DEF MarkPurged, Goto, files, staging, loop, Loading
<1>40. ASSUME PurgeDone PROVE LoadSets'
    BY <1>40, LoadOut DEF PurgeDone, TableDone, Descend, EndStage, Follows,
      Raises, Goto, files, staging, loop, Loading
<1>41. ASSUME Closes PROVE LoadSets'
    BY <1>41, LoadOut DEF Closes, Goto, files, staging, loop, Loading
<1>42. ASSUME DoesNotClose PROVE LoadSets'
    BY <1>42, LoadOut DEF DoesNotClose, Raises, Goto, files, staging, loop,
      Loading
<1>43. ASSUME CleanUp PROVE LoadSets'
    BY <1>43, LoadOut DEF CleanUp, Goto, files, Loading
<1>44. ASSUME Close PROVE LoadSets'
    BY <1>44, LoadOut DEF Close, Goto, files, staging, loop, Loading
<1>45. CASE UNCHANGED vars
    BY <1>45, LoadStays DEF vars
<1> QED
    BY <1>1, <1>2, <1>3, <1>4, <1>5, <1>6, <1>7, <1>8, <1>9, <1>10, <1>11,
      <1>12, <1>13, <1>14, <1>15, <1>16, <1>17, <1>18, <1>19, <1>20, <1>21,
      <1>22, <1>23, <1>24, <1>25, <1>26, <1>27, <1>28, <1>29, <1>30, <1>31,
      <1>32, <1>33, <1>34, <1>35, <1>36, <1>37, <1>38, <1>39, <1>40, <1>41,
      <1>42, <1>43, <1>44, <1>45 DEF Next, Job, Extract, Load, Validate,
      Purge, Reconcile

-----------------------------------------------------------------------------
\* Which actions change what.
LEMMA LedgerFrame ==
  [Next]_vars => \/ UNCHANGED ledger
                 \/ ExtractDone \/ LoadDone \/ ValidateDone
                 \/ SkipReferences \/ Guard \/ DryRun \/ AbortPurge \/ PurgeDone
  BY DEF Next, Job, Extract, Load, Validate, Purge, Reconcile, vars, Start,
    MarkFailed, Stop, TouchRow, RemoveRow, Repair, PlanRanges, UnloadRange,
    LoadRefused, BeginRange, DropRejects, FinishRange, LoadBatch,
    WriteLoadRejects, BeginValidate, JudgeBatch, FlipBatch, SecondPass,
    ClearRejects, RecordRejects, Promote, BeginPurge, RecoverIntent,
    TakeBatch, WriteIntent, DeleteCommitted, CommitUnknown, DeleteRefused,
    DeleteTransient, MarkForRetry, MarkRolledBack, MarkPurged, Closes,
    DoesNotClose, CleanUp, Close

LEMMA ExtractFrame ==
  [Next]_vars => \/ UNCHANGED <<ext, unload>>
                 \/ PlanRanges
                 \/ \E r \in Ranges : UnloadRange(r)
  BY DEF Next, Job, Extract, Load, Validate, Purge, Reconcile, vars, Start,
    MarkFailed, Stop, TouchRow, RemoveRow, Repair, ExtractDone, LoadRefused,
    BeginRange, DropRejects, FinishRange, LoadBatch, WriteLoadRejects,
    LoadDone, BeginValidate, JudgeBatch, FlipBatch, SecondPass, ClearRejects,
    RecordRejects, Promote, ValidateDone, SkipReferences, Guard, DryRun,
    BeginPurge, RecoverIntent, TakeBatch, WriteIntent, DeleteCommitted,
    CommitUnknown, DeleteRefused, DeleteTransient, MarkForRetry,
    MarkRolledBack, AbortPurge, MarkPurged, PurgeDone, Closes, DoesNotClose,
    CleanUp, Close, files

LEMMA LoadFrame ==
  [Next]_vars => \/ UNCHANGED <<load, staged>>
                 \/ \E r \in Ranges : BeginRange(r) \/ FinishRange(r)
                 \/ \E B \in Batches(todo) : LoadBatch(B)
                 \/ UNCHANGED load /\ CleanUp
  BY DEF Next, Job, Extract, Load, Validate, Purge, Reconcile, vars, Start,
    MarkFailed, Stop, TouchRow, RemoveRow, Repair, PlanRanges, UnloadRange,
    ExtractDone, LoadRefused, DropRejects, WriteLoadRejects, LoadDone,
    BeginValidate, JudgeBatch, FlipBatch, SecondPass, ClearRejects,
    RecordRejects, Promote, ValidateDone, SkipReferences, Guard, DryRun,
    BeginPurge, RecoverIntent, TakeBatch, WriteIntent, DeleteCommitted,
    CommitUnknown, DeleteRefused, DeleteTransient, MarkForRetry,
    MarkRolledBack, AbortPurge, MarkPurged, PurgeDone, Closes, DoesNotClose,
    CleanUp, Close, staging

LEMMA RejectsFrame ==
  [Next]_vars => \/ UNCHANGED rejects
                 \/ \E r \in Ranges : DropRejects(r)
                 \/ WriteLoadRejects \/ ClearRejects \/ RecordRejects
  BY DEF Next, Job, Extract, Load, Validate, Purge, Reconcile, vars, Start,
    MarkFailed, Stop, TouchRow, RemoveRow, Repair, PlanRanges, UnloadRange,
    ExtractDone, LoadRefused, BeginRange, FinishRange, LoadBatch, LoadDone,
    BeginValidate, JudgeBatch, FlipBatch, SecondPass, Promote, ValidateDone,
    SkipReferences, Guard, DryRun, BeginPurge, RecoverIntent, TakeBatch,
    WriteIntent, DeleteCommitted, CommitUnknown, DeleteRefused,
    DeleteTransient, MarkForRetry, MarkRolledBack, AbortPurge, MarkPurged,
    PurgeDone, Closes, DoesNotClose, CleanUp, Close

LEMMA VerdictFrame ==
  [Next]_vars => /\ \/ UNCHANGED validation
                    \/ \E B \in Batches(todo) : JudgeBatch(B) \/ FlipBatch(B)
                 /\ UNCHANGED arch \/ Promote
                 /\ UNCHANGED partial \/ BeginValidate
<1> SUFFICES ASSUME [Next]_vars
             PROVE  /\ \/ UNCHANGED validation
                       \/ \E B \in Batches(todo) : JudgeBatch(B) \/ FlipBatch(B)
                    /\ UNCHANGED arch \/ Promote
                    /\ UNCHANGED partial \/ BeginValidate
  OBVIOUS
<1>1. \/ UNCHANGED validation
      \/ \E B \in Batches(todo) : JudgeBatch(B) \/ FlipBatch(B)
  BY DEF Next, Job, Extract, Load, Validate, Purge, Reconcile, vars, Start,
    MarkFailed, Stop, TouchRow, RemoveRow, Repair, PlanRanges, UnloadRange,
    ExtractDone, LoadRefused, BeginRange, DropRejects, FinishRange,
    LoadBatch, WriteLoadRejects, LoadDone, BeginValidate, SecondPass,
    ClearRejects, RecordRejects, Promote, ValidateDone, SkipReferences,
    Guard, DryRun, BeginPurge, RecoverIntent, TakeBatch, WriteIntent,
    DeleteCommitted, CommitUnknown, DeleteRefused, DeleteTransient,
    MarkForRetry, MarkRolledBack, AbortPurge, MarkPurged, PurgeDone, Closes,
    DoesNotClose, CleanUp, Close, verdicts
<1>2. UNCHANGED arch \/ Promote
  BY DEF Next, Job, Extract, Load, Validate, Purge, Reconcile, vars, Start,
    MarkFailed, Stop, TouchRow, RemoveRow, Repair, PlanRanges, UnloadRange,
    ExtractDone, LoadRefused, BeginRange, DropRejects, FinishRange,
    LoadBatch, WriteLoadRejects, LoadDone, BeginValidate, JudgeBatch,
    FlipBatch, SecondPass, ClearRejects, RecordRejects, ValidateDone,
    SkipReferences, Guard, DryRun, BeginPurge, RecoverIntent, TakeBatch,
    WriteIntent, DeleteCommitted, CommitUnknown, DeleteRefused,
    DeleteTransient, MarkForRetry, MarkRolledBack, AbortPurge, MarkPurged,
    PurgeDone, Closes, DoesNotClose, CleanUp, Close, verdicts
<1>3. UNCHANGED partial \/ BeginValidate
  BY DEF Next, Job, Extract, Load, Validate, Purge, Reconcile, vars, Start,
    MarkFailed, Stop, TouchRow, RemoveRow, Repair, PlanRanges, UnloadRange,
    ExtractDone, LoadRefused, BeginRange, DropRejects, FinishRange,
    LoadBatch, WriteLoadRejects, LoadDone, JudgeBatch, FlipBatch, SecondPass,
    ClearRejects, RecordRejects, Promote, ValidateDone, SkipReferences,
    Guard, DryRun, BeginPurge, RecoverIntent, TakeBatch, WriteIntent,
    DeleteCommitted, CommitUnknown, DeleteRefused, DeleteTransient,
    MarkForRetry, MarkRolledBack, AbortPurge, MarkPurged, PurgeDone, Closes,
    DoesNotClose, CleanUp, Close, verdicts
<1> QED
  BY <1>1, <1>2, <1>3

LEMMA BadFrame == [Next]_vars => bad' \subseteq bad
  BY DEF Next, Job, Extract, Load, Validate, Purge, Reconcile, vars, Start,
    MarkFailed, Stop, TouchRow, RemoveRow, Repair, PlanRanges, UnloadRange,
    ExtractDone, LoadRefused, BeginRange, DropRejects, FinishRange,
    LoadBatch, WriteLoadRejects, LoadDone, BeginValidate, JudgeBatch,
    FlipBatch, SecondPass, ClearRejects, RecordRejects, Promote,
    ValidateDone, SkipReferences, Guard, DryRun, BeginPurge, RecoverIntent,
    TakeBatch, WriteIntent, DeleteCommitted, CommitUnknown, DeleteRefused,
    DeleteTransient, MarkForRetry, MarkRolledBack, AbortPurge, MarkPurged,
    PurgeDone, Closes, DoesNotClose, CleanUp, Close, verdicts

LEMMA DeleteFrame == [Next]_vars => UNCHANGED migAudit \/ DeleteCommitted \/ CommitUnknown
  BY DeleteOnly

LEMMA CountsFrame ==
  ASSUME TypeOK, [Next]_vars, NEW t \in Tables
  PROVE  /\ ledger[t].extracted # NULL => ledger'[t].extracted # NULL
         /\ ledger'[t].validated = ledger[t].validated \/ (ValidateDone /\ t = tab)
         /\ \/ ledger'[t].purged = ledger[t].purged
            \/ Zero(ledger'[t].purged) = 0
            \/ Zero(ledger'[t].purged) = Cardinality(Audited(t))
<1> DEFINE Goal == /\ ledger[t].extracted # NULL => ledger'[t].extracted # NULL
                   /\ ledger'[t].validated = ledger[t].validated \/ (ValidateDone /\ t = tab)
                   /\ \/ ledger'[t].purged = ledger[t].purged
                      \/ Zero(ledger'[t].purged) = 0
                      \/ Zero(ledger'[t].purged) = Cardinality(Audited(t))
<1>0. /\ ledger[t] \in Counts /\ ledger \in [Tables -> Counts]
      /\ \A S \in SUBSET Keys : Cardinality(S) # NULL
  BY Sizes DEF TypeOK, NULL
<1>1. CASE UNCHANGED ledger
  BY <1>1
<1>2. CASE ExtractDone
  BY <1>0, <1>2 DEF ExtractDone, Counts, RowsOf
<1>3. CASE LoadDone
  BY <1>0, <1>3 DEF LoadDone, Counts
<1>4. CASE ValidateDone
  BY <1>0, <1>4 DEF ValidateDone, Counts
<1>5. CASE SkipReferences
  <2>1. \/ ledger'[t] = ledger[t]
        \/ ledger'[t] = [ledger[t] EXCEPT !.intended = 0, !.purged = 0]
    BY <1>5 DEF SkipReferences
  <2> QED
    BY <1>0, <2>1 DEF Counts, Zero
<1>6. CASE Guard
  BY <1>0, <1>6 DEF Guard, Counts
<1>7. CASE DryRun
  BY <1>0, <1>7 DEF DryRun, Counts, Zero
<1>8. CASE AbortPurge \/ PurgeDone
  <2>1. ledger' = [ledger EXCEPT ![tab].purged = Cardinality(Audited(tab))]
    BY <1>8 DEF AbortPurge, PurgeDone
  <2>2. Cardinality(Audited(tab)) \in Nat
    BY Sizes DEF Audited, RowsOf
  <2> QED
    BY <1>0, <2>1, <2>2 DEF Counts, Zero, NULL
<1> QED
  BY <1>1, <1>2, <1>3, <1>4, <1>5, <1>6, <1>7, <1>8, LedgerFrame

-----------------------------------------------------------------------------
\* Once EXTRACT and LOAD are over they have nothing left to do.
LEMMA OverStays ==
  ASSUME TypeOK, ExtractCounted, LoadSets, Over, [Next]_vars
  PROVE  /\ Over'
         /\ UNCHANGED <<ext, unload, load>>
         /\ UNCHANGED staged \/ CleanUp
         /\ \A k \in Keys : rejects'[k] = "LOAD" <=> rejects[k] = "LOAD"
<1>1. pc \notin Loading
  BY DEF LoadSets, Over, Current, Unloaded, RangesOf
<1>2. \A r \in Ranges : ~UnloadRange(r) /\ ~BeginRange(r)
  BY DEF UnloadRange, BeginRange, Current, Unloaded, Over
<1>3. ASSUME PlanRanges PROVE UNCHANGED <<ext, unload>>
  <2>1. tab \in Tables /\ UNCHANGED unload
    BY <1>3 DEF PlanRanges, TypeOK
  <2>2. CASE ~\A r \in RangesOf(tab) : ext[r] = "none"
    BY <1>3, <2>1, <2>2 DEF PlanRanges
  <2>3. CASE \A r \in RangesOf(tab) : ext[r] = "none"
    <3>1. \A k \in RowsOf(tab) : source[k] # "cold"
      BY <2>1, <2>3 DEF ExtractCounted, Over, Emptied
    <3>2. \A r \in RangesOf(tab) : ~\E k \in Held(r) : source[k] = "cold"
      BY <3>1 DEF RangesOf, RowsOf, Held, TableOf
    <3>3. ext' = [r \in Ranges |-> ext[r]]
      BY <1>3, <2>3, <3>2 DEF PlanRanges, RangesOf
    <3> QED
      BY <2>1, <3>3 DEF TypeOK
  <2> QED
    BY <2>2, <2>3
<1>4. UNCHANGED <<ext, unload>>
  BY <1>2, <1>3, ExtractFrame
<1>5. UNCHANGED load /\ (UNCHANGED staged \/ CleanUp)
  BY <1>1, <1>2, LoadFrame DEF FinishRange, LoadBatch, Loading
<1>6. \A k \in Keys : rejects'[k] = "LOAD" <=> rejects[k] = "LOAD"
  BY <1>1, RejectsFrame
     DEF DropRejects, WriteLoadRejects, ClearRejects, RecordRejects, AddRejects, Loading
<1>7. Over'
  BY <1>4, <1>5, CountsFrame DEF Over
<1> QED
  BY <1>4, <1>5, <1>6, <1>7

LEMMA WholeOver ==
  ASSUME TypeOK, Whole
  PROVE  Over
  BY DEF Whole, Over

\* Staging that is cleaned of any row is not whole.
LEMMA WholeBack ==
  ASSUME TypeOK, ExtractCounted, LoadSets, Over, [Next]_vars, Whole'
  PROVE  Whole /\ UNCHANGED staged
<1>1. /\ UNCHANGED <<ext, unload, load>>
      /\ UNCHANGED staged \/ CleanUp
      /\ \A k \in Keys : rejects'[k] = "LOAD" <=> rejects[k] = "LOAD"
  BY OverStays
<1>2. staged' \subseteq staged
  BY <1>1 DEF CleanUp
<1>3. ASSUME NEW k \in staged, k \notin staged' PROVE FALSE
  <2>1. k \in Keys /\ k \in unload' /\ rejects'[k] # "LOAD"
    BY <1>1, <1>3 DEF LoadSets, TypeOK
  <2> QED
    BY <1>3, <2>1 DEF Whole
<1>4. UNCHANGED staged
  BY <1>2, <1>3
<1>5. \A k \in Keys : (k \in unload) = ((k \in staged) # (rejects[k] = "LOAD"))
  BY <1>1, <1>4 DEF Whole
<1> QED
  BY <1>4, <1>5 DEF Whole, Over

LEMMA WholeOn ==
  ASSUME TypeOK, ExtractCounted, LoadSets, [Next]_vars, Whole, UNCHANGED staged
  PROVE  Whole'
<1>1. /\ Over' /\ UNCHANGED <<ext, unload, load>>
      /\ \A k \in Keys : rejects'[k] = "LOAD" <=> rejects[k] = "LOAD"
  BY WholeOver, OverStays
<1>2. \A k \in Keys : (k \in unload') = ((k \in staged') # (rejects'[k] = "LOAD"))
  BY <1>1 DEF Whole
<1> QED
  BY <1>1, <1>2 DEF Whole, Over

-----------------------------------------------------------------------------
FirmInv == FirmCounts /\ PurgedRowsArchived

AllInv == /\ TypeOK
          /\ GuardInv
          /\ ArchInv
          /\ ExtractCounted
          /\ LoadSets
          /\ FirmInv

LEMMA PartialStays == [Next]_vars /\ ~partial' => ~partial
  BY VerdictFrame DEF BeginValidate

LEMMA ArchiveStays ==
  ASSUME TypeOK, [Next]_vars, NEW k \in Keys, arch[k] # "none"
  PROVE  arch'[k] = arch[k]
  BY VerdictFrame DEF Promote, TypeOK

\* A firm row stays firm whatever is repeated, repaired or cleaned.
LEMMA FirmStays ==
  ASSUME AllInv, [Next]_vars, ~partial, NEW t \in Tables, NEW k \in Firm(t)
  PROVE  k \in Firm(t)'
<1>1. /\ k \in Keys /\ TableOf(k) = t /\ t \in DataTables
      /\ validation[k] = "VALIDATED" /\ arch[k] = "copy" /\ k \notin bad
      /\ ParentArchived(k) /\ (Whole => ~ClassFails(k))
  BY DEF Firm, PurgeSafe, Judged, RowsOf
<1>2. Over
  BY <1>1 DEF AllInv, FirmInv, FirmCounts
<1>3. arch'[k] = "copy" /\ k \notin bad'
  BY <1>1, ArchiveStays, BadFrame DEF AllInv
<1>4. ParentArchived(k)'
  <2>1. ParentOf[k] # None => ParentOf[k] \in Keys
    BY <1>1, ManifestOK DEF ManifestOK
  <2> QED
    BY <1>1, <2>1, ArchiveStays DEF AllInv, ParentArchived
<1>5. Whole' => ~ClassFails(k)'
  <2> SUFFICES ASSUME Whole' PROVE ~ClassFails(k)'
    OBVIOUS
  <2>1. Whole /\ UNCHANGED staged
    BY <1>2, WholeBack DEF AllInv
  <2> QED
    BY <1>1, <2>1, FailsLess, BadFrame
<1>6. validation'[k] = "VALIDATED"
  <2>1. CASE UNCHANGED validation
    BY <1>1, <2>1
  <2>2. ASSUME NEW B \in Batches(todo), JudgeBatch(B) PROVE validation'[k] = "VALIDATED"
    <3>1. ParentPresent(k)
      BY <1>1 DEF ParentPresent, ParentArchived
    <3>2. RowPasses(k)
      BY <1>1, <3>1 DEF RowPasses
    <3> QED
      BY <1>1, <2>2, <3>2 DEF JudgeBatch
  <2>3. ASSUME NEW B \in Batches(todo), FlipBatch(B) PROVE validation'[k] = "VALIDATED"
    <3>1. pc = "judging" /\ second /\ B \subseteq todo
      BY <2>3 DEF FlipBatch, Batches
    <3>2. Whole
      BY <3>1 DEF AllInv, FirmInv, FirmCounts, Validating, Judging
    <3>3. \A j \in B : ClassFails(j)
      BY <3>1 DEF AllInv, ArchInv, VerdictsSound, Judging
    <3> QED
      BY <1>1, <2>3, <3>2, <3>3 DEF FlipBatch
  <2> QED
    BY <2>1, <2>2, <2>3, VerdictFrame
<1> QED
  BY <1>1, <1>3, <1>4, <1>5, <1>6 DEF Firm, PurgeSafe, Judged, RowsOf

LEMMA FirmSafe == \A t : Firm(t) \subseteq PurgeSafe(t)
  BY DEF Firm

\* When the guard of a table holds, its purge-safe rows are its firm rows.
LEMMA GuardMeansFirm ==
  ASSUME AllInv, ~partial, NEW t \in DataTables, Agrees(t)
  PROVE  PurgeSafe(t) = Firm(t)
<1>1. /\ IsFiniteSet(PurgeSafe(t)) /\ Firm(t) \in SUBSET PurgeSafe(t)
      /\ Cardinality(PurgeSafe(t)) \in Nat /\ Cardinality(Firm(t)) \in Nat
  BY Sizes, SafeKeys, FirmSafe
<1>2. Cardinality(PurgeSafe(t)) <= Cardinality(Firm(t))
  BY <1>1 DEF Agrees, AllInv, FirmInv, FirmCounts, NULL
<1>3. Cardinality(Firm(t)) <= Cardinality(PurgeSafe(t))
  BY <1>1, FS_Subset
<1>4. Cardinality(Firm(t)) = Cardinality(PurgeSafe(t))
  BY <1>1, <1>2, <1>3
<1> QED
  BY <1>1, <1>4, FS_Subset

LEMMA DeletedFirm ==
  ASSUME AllInv, ~partial, DeleteCommitted \/ CommitUnknown
  PROVE  /\ migAudit' = migAudit \cup batch
         /\ batch \subseteq Firm(tab)
         /\ tab \in Tables
         /\ batch # {} => tab \in DataTables /\ Agrees(tab)
         /\ UNCHANGED <<validation, ledger>>
<1>1. /\ pc = "deleting" /\ migAudit' = migAudit \cup batch
      /\ UNCHANGED <<validation, ledger>>
  BY DEF DeleteCommitted, CommitUnknown, CommitDelete, verdicts
<1>2. batch \subseteq PurgeSafe(tab) /\ tab \in Tables
  BY <1>1 DEF AllInv, GuardInv, LoopsOverSafe, InPurgeLoop, Unsettled, TypeOK
<1>3. \A t \in DataTables : Agrees(t)
  BY <1>1 DEF AllInv, GuardInv, Guarded, InPurgeLoop, Unsettled
<1>4. batch # {} => tab \in DataTables
  BY <1>2 DEF PurgeSafe
<1>5. batch \subseteq Firm(tab)
  BY <1>2, <1>3, <1>4, GuardMeansFirm
<1> QED
  BY <1>1, <1>2, <1>3, <1>4, <1>5

\* The rows in the archive.
LEMMA PurgedKept == AllInv /\ [Next]_vars => PurgedRowsArchived'
<1> SUFFICES ASSUME AllInv, [Next]_vars, NEW k \in migAudit', ~partial'
             PROVE  arch'[k] = "copy"
  BY DEF PurgedRowsArchived
<1>1. ~partial
  BY PartialStays
<1>2. ASSUME k \in Keys, arch[k] = "copy" PROVE arch'[k] = "copy"
  BY <1>2, ArchiveStays DEF AllInv
<1>3. CASE k \in migAudit
  BY <1>1, <1>2, <1>3 DEF AllInv, FirmInv, PurgedRowsArchived, TypeOK
<1>4. CASE k \notin migAudit
  <2>1. DeleteCommitted \/ CommitUnknown
    BY <1>4, DeleteFrame
  <2>2. k \in Firm(tab)
    BY <1>1, <1>4, <2>1, DeletedFirm
  <2> QED
    BY <1>2, <2>2 DEF Firm, PurgeSafe, Judged, RowsOf
<1> QED
  BY <1>3, <1>4

-----------------------------------------------------------------------------
LEMMA ValidatingFrame ==
  ASSUME [Next]_vars, pc' \in Validating \ {"validate"}
  PROVE  /\ UNCHANGED staged
         /\ pc \in Validating \ {"validate"} \/ BeginValidate
<1>1. UNCHANGED pc \/ BeginValidate \/ pc \in Judging
  BY DEF Next, Job, Extract, Load, Validate, Purge, Reconcile, vars, Start,
    MarkFailed, Stop, TouchRow, RemoveRow, Repair, PlanRanges, UnloadRange,
    ExtractDone, LoadRefused, BeginRange, DropRejects, FinishRange,
    LoadBatch, WriteLoadRejects, LoadDone, JudgeBatch, FlipBatch, SecondPass,
    ClearRejects, RecordRejects, Promote, ValidateDone, SkipReferences,
    Guard, DryRun, BeginPurge, RecoverIntent, TakeBatch, WriteIntent,
    DeleteCommitted, CommitUnknown, DeleteRefused, DeleteTransient,
    MarkForRetry, MarkRolledBack, AbortPurge, MarkPurged, PurgeDone, Closes,
    DoesNotClose, CleanUp, Close, Goto, Raises, NextTable, EndStage,
    TableDone, Descend, Follows, Stages, loop, Validating, Judging
<1>2. UNCHANGED staged
  BY DEF Next, Job, Extract, Load, Validate, Purge, Reconcile, vars, Start,
    MarkFailed, Stop, TouchRow, RemoveRow, Repair, PlanRanges, UnloadRange,
    ExtractDone, LoadRefused, BeginRange, DropRejects, FinishRange,
    LoadBatch, WriteLoadRejects, LoadDone, BeginValidate, JudgeBatch,
    FlipBatch, SecondPass, ClearRejects, RecordRejects, Promote,
    ValidateDone, SkipReferences, Guard, DryRun, BeginPurge, RecoverIntent,
    TakeBatch, WriteIntent, DeleteCommitted, CommitUnknown, DeleteRefused,
    DeleteTransient, MarkForRetry, MarkRolledBack, AbortPurge, MarkPurged,
    PurgeDone, Closes, DoesNotClose, CleanUp, Close, Goto, staging,
    Validating, Judging
<1> QED
  BY <1>1, <1>2 DEF Validating, Judging

LEMMA WholeWhileValidating ==
  ASSUME AllInv, [Next]_vars, ~partial', pc' \in Validating \ {"validate"}
  PROVE  Whole'
<1>1. UNCHANGED staged
  BY ValidatingFrame
<1>2. Whole
  <2>1. CASE BeginValidate
    BY <2>1 DEF BeginValidate
  <2>2. CASE pc \in Validating \ {"validate"}
    BY <2>2, PartialStays DEF AllInv, FirmInv, FirmCounts
  <2> QED
    BY <2>1, <2>2, ValidatingFrame
<1> QED
  BY <1>1, <1>2, WholeOn DEF AllInv

LEMMA VerdictsOver ==
  ASSUME AllInv, [Next]_vars, ~partial', NEW k \in Keys, validation'[k] # "none"
  PROVE  Over' /\ k \in unload' /\ rejects'[k] # "LOAD"
<1>1. ~partial
  BY PartialStays
<1>2. Over /\ k \in unload /\ rejects[k] # "LOAD"
  <2>1. CASE validation[k] # "none"
    BY <1>1, <2>1 DEF AllInv, FirmInv, FirmCounts
  <2>2. CASE validation[k] = "none"
    <3>1. PICK B \in Batches(todo) : JudgeBatch(B) \/ FlipBatch(B)
      BY <2>2, VerdictFrame
    <3>2. pc = "judging" /\ k \in B /\ B \subseteq todo
      BY <2>2, <3>1 DEF JudgeBatch, FlipBatch, Batches
    <3>3. k \in staged
      BY <3>2 DEF AllInv, ArchInv, VerdictsSound, Judging, Staged
    <3>4. Whole
      BY <1>1, <3>2 DEF AllInv, FirmInv, FirmCounts, Validating, Judging
    <3> QED
      BY <3>3, <3>4, WholeOver DEF AllInv, LoadSets
  <2> QED
    BY <2>1, <2>2
<1> QED
  BY <1>2, OverStays DEF AllInv

\* What VALIDATE counts when it finishes a table are firm rows.
LEMMA CountedFirm ==
  ASSUME AllInv, ~partial, ValidateDone, NEW k \in Judged(tab, "VALIDATED"), tab \in DataTables
  PROVE  k \in Firm(tab)
<1>1. pc = "promote" /\ k \in Keys /\ TableOf(k) = tab /\ validation[k] = "VALIDATED"
  BY DEF ValidateDone, Judged, RowsOf
<1>2. Whole
  BY <1>1 DEF AllInv, FirmInv, FirmCounts, Validating
<1>3. k \in unload /\ rejects[k] # "LOAD"
  BY <1>1 DEF AllInv, FirmInv, FirmCounts
<1>4. k \in staged
  BY <1>1, <1>2, <1>3 DEF Whole
<1>5. arch[k] = "copy" /\ RowPasses(k) /\ ~ClassFails(k)
  BY <1>1, <1>4 DEF AllInv, ArchInv, VerdictsSound, Staged, RowsOf
<1>6. ParentArchived(k)
  <2> SUFFICES ASSUME ParentOf[k] # None PROVE arch[ParentOf[k]] # "none"
    BY DEF ParentArchived
  <2>1. TableOf(ParentOf[k]) < tab
    BY <1>1, ManifestOK DEF ManifestOK
  <2> QED
    BY <1>1, <1>5, <2>1 DEF RowPasses, ParentPresent, AllInv, ArchInv, ParentsFirst, Validating
<1> QED
  BY <1>1, <1>5, <1>6 DEF RowPasses, Firm, PurgeSafe, Judged, RowsOf

LEMMA ValidatedCounts ==
  ASSUME AllInv, [Next]_vars, ~partial', NEW t \in DataTables, ledger'[t].validated # NULL
  PROVE  Over' /\ ledger'[t].validated <= Cardinality(Firm(t)')
<1>1. ~partial /\ t \in Tables
  BY PartialStays DEF DataTables
<1>2. Over /\ ledger'[t].validated \in Nat /\ ledger'[t].validated <= Cardinality(Firm(t))
  <2>1. CASE ledger'[t].validated = ledger[t].validated
    BY <1>1, <2>1 DEF AllInv, FirmInv, FirmCounts, TypeOK, Counts, Count
  <2>2. CASE ValidateDone /\ t = tab
    <3>1. ledger'[t].validated = Cardinality(Judged(t, "VALIDATED"))
      BY <1>1, <2>2 DEF ValidateDone, AllInv, TypeOK, Counts
    <3>2. Judged(t, "VALIDATED") = Firm(t)
      BY <1>1, <2>2, CountedFirm DEF Firm, PurgeSafe
    <3>3. Whole
      BY <1>1, <2>2 DEF ValidateDone, AllInv, FirmInv, FirmCounts, Validating
    <3>4. Cardinality(Firm(t)) \in Nat
      BY Sizes, FirmSafe, SafeKeys
    <3> QED
      BY <3>1, <3>2, <3>3, <3>4, WholeOver DEF AllInv
  <2> QED
    BY <1>1, <2>1, <2>2, CountsFrame DEF AllInv
<1>3. Over'
  BY <1>2, OverStays DEF AllInv
<1>4. Firm(t) \in SUBSET Firm(t)' /\ IsFiniteSet(Firm(t)')
  <2>1. Firm(t)' \subseteq Keys
    BY DEF Firm, PurgeSafe, Judged, RowsOf
  <2> QED
    BY <1>1, <2>1, FirmStays, Sizes
<1>5. /\ Cardinality(Firm(t)) <= Cardinality(Firm(t)')
      /\ Cardinality(Firm(t)) \in Nat /\ Cardinality(Firm(t)') \in Nat
  BY <1>4, FS_Subset, FS_CardinalityType
<1> QED
  BY <1>2, <1>3, <1>5

LEMMA DeletedCounts ==
  ASSUME AllInv, [Next]_vars, ~partial', NEW t \in Tables
  PROVE  /\ (migAudit \cap RowsOf(t))' \subseteq Firm(t)'
         /\ Cardinality((migAudit \cap RowsOf(t))') <= Zero(ledger'[t].validated)
<1>1. ~partial
  BY PartialStays
<1>2. /\ migAudit \cap RowsOf(t) \subseteq Firm(t)
      /\ Cardinality(migAudit \cap RowsOf(t)) <= Zero(ledger[t].validated)
      /\ RowsOf(t)' = RowsOf(t) /\ RowsOf(t) \subseteq Keys
  BY <1>1 DEF AllInv, FirmInv, FirmCounts, RowsOf
<1>3. migAudit' \cap RowsOf(t) \subseteq Firm(t)
  <2>1. CASE UNCHANGED migAudit
    BY <1>2, <2>1
  <2>2. CASE DeleteCommitted \/ CommitUnknown
    <3>1. migAudit' = migAudit \cup batch /\ batch \subseteq Firm(tab)
      BY <1>1, <2>2, DeletedFirm
    <3>2. \A k \in batch : TableOf(k) = tab
      BY <3>1 DEF Firm, PurgeSafe, Judged, RowsOf
    <3>3. \A k \in batch : k \in RowsOf(t) => k \in Firm(t)
      BY <3>1, <3>2 DEF RowsOf
    <3> QED
      BY <1>2, <3>1, <3>3
  <2> QED
    BY <2>1, <2>2, DeleteFrame
<1>4. (migAudit \cap RowsOf(t))' \subseteq Firm(t)'
  BY <1>1, <1>2, <1>3, FirmStays
<1>5. Cardinality(migAudit' \cap RowsOf(t)) <= Zero(ledger'[t].validated)
  <2>1. CASE UNCHANGED migAudit /\ ledger'[t].validated = ledger[t].validated
    BY <1>2, <2>1
  <2>2. CASE UNCHANGED migAudit /\ ValidateDone /\ t = tab
    <3>1. ledger'[t].validated = Cardinality(Judged(t, "VALIDATED"))
      BY <2>2 DEF ValidateDone, AllInv, TypeOK, Counts
    <3>2. /\ migAudit' \cap RowsOf(t) \in SUBSET Judged(t, "VALIDATED")
          /\ IsFiniteSet(Judged(t, "VALIDATED"))
          /\ Cardinality(Judged(t, "VALIDATED")) \in Nat
      BY <1>2, <2>2, Sizes DEF Firm, PurgeSafe, Judged
    <3>3. Cardinality(migAudit' \cap RowsOf(t)) <= Cardinality(Judged(t, "VALIDATED"))
      BY <3>2, FS_Subset
    <3> QED
      BY <3>1, <3>2, <3>3 DEF Zero, NULL
  <2>3. CASE DeleteCommitted \/ CommitUnknown
    <3>1. /\ UNCHANGED ledger
          /\ migAudit' = migAudit \cup batch /\ batch \subseteq Firm(tab)
          /\ batch # {} => tab \in DataTables /\ Agrees(tab)
      BY <1>1, <2>3, DeletedFirm
    <3>2. \A k \in batch : TableOf(k) = tab
      BY <3>1 DEF Firm, PurgeSafe, Judged, RowsOf
    <3>3. CASE batch = {} \/ t # tab
      <4>1. migAudit' \cap RowsOf(t) = migAudit \cap RowsOf(t)
        BY <3>1, <3>2, <3>3 DEF RowsOf
      <4> QED
        BY <1>2, <3>1, <4>1
    <3>4. CASE batch # {} /\ t = tab
      <4>1. /\ migAudit' \cap RowsOf(t) \in SUBSET PurgeSafe(t)
            /\ IsFiniteSet(PurgeSafe(t)) /\ Cardinality(PurgeSafe(t)) \in Nat
        BY <1>3, FirmSafe, SafeKeys, Sizes
      <4>2. Cardinality(migAudit' \cap RowsOf(t)) <= Cardinality(PurgeSafe(t))
        BY <4>1, FS_Subset
      <4> QED
        BY <3>1, <3>4, <4>1, <4>2 DEF Agrees, Zero, NULL
    <3> QED
      BY <3>3, <3>4
  <2> QED
    BY <2>1, <2>2, <2>3, DeleteFrame, CountsFrame DEF AllInv, DeleteCommitted, CommitUnknown
<1> QED
  BY <1>2, <1>4, <1>5

LEMMA FirmKept == AllInv /\ [Next]_vars => FirmInv'
<1> SUFFICES ASSUME AllInv, [Next]_vars PROVE FirmInv'
  OBVIOUS
<1>1. PurgedRowsArchived'
  BY PurgedKept
<1>2. FirmCounts'
  BY WholeWhileValidating, VerdictsOver, ValidatedCounts, DeletedCounts DEF FirmCounts
<1> QED
  BY <1>1, <1>2 DEF FirmInv

LEMMA AllBegin == Init => AllInv /\ Retrying
<1> SUFFICES ASSUME Init PROVE AllInv /\ Retrying
  OBVIOUS
<1>1. TypeOK /\ Retrying
  BY TypesBegin
<1>2. GuardInv
  BY DEF Init, GuardInv, Guarded, LoopsOverSafe, Unsettled, InPurgeLoop
<1>3. ArchInv
  BY DEF Init, ArchInv, FreshPass, ParentsFirst, VerdictsSound, ArchiveHasParents,
     Validating, Judging
<1>4. ExtractCounted
  BY DEF Init, ExtractCounted
<1>5. LoadSets
  BY DEF Init, LoadSets, Loading
<1>6. PurgedRowsArchived
  BY DEF Init, PurgedRowsArchived
<1>7. \A t \in Tables : /\ migAudit \cap RowsOf(t) = {}
                        /\ ledger[t].validated = NULL
                        /\ Cardinality(migAudit \cap RowsOf(t)) = 0
  BY FS_EmptySet DEF Init
<1>8. FirmCounts
  BY <1>7 DEF Init, FirmCounts, Validating, Judging, DataTables, Zero
<1> QED
  BY <1>1, <1>2, <1>3, <1>4, <1>5, <1>6, <1>8 DEF AllInv, FirmInv

LEMMA AllKept == AllInv /\ Retrying /\ [Next]_vars => AllInv' /\ Retrying'
<1> SUFFICES ASSUME AllInv, Retrying, [Next]_vars PROVE AllInv' /\ Retrying'
  OBVIOUS
<1>1. TypeOK' /\ Retrying'
  BY TypesKept DEF AllInv
<1>2. GuardInv' /\ ArchInv' /\ ExtractCounted' /\ LoadSets'
  BY GuardKept, ArchKept, ExtractKept, LoadKept DEF AllInv
<1>3. FirmInv'
  BY FirmKept
<1> QED
  BY <1>1, <1>2, <1>3 DEF AllInv

LEMMA AllInvariant == Spec => [](AllInv /\ Retrying)
  BY AllBegin, AllKept, PTL DEF Spec

\* Every row the purge deletes is in the archive, if VALIDATE never began on
\* incomplete staging.
THEOREM PurgedRowsAreArchived == Spec => []PurgedRowsArchived
<1>1. AllInv => PurgedRowsArchived
  BY DEF AllInv, FirmInv
<1> QED
  BY <1>1, AllInvariant, PTL

-----------------------------------------------------------------------------
\* The job is a safe archive: each step that changes the source, the archive or
\* the record of deletions is one of its actions.
LEMMA SourceFrame ==
  [Next]_vars => \/ UNCHANGED source
                 \/ DeleteCommitted \/ CommitUnknown
                 \/ \E k \in Mutable \cap Keys : TouchRow(k) \/ RemoveRow(k)
  BY DEF Next, Job, Extract, Load, Validate, Purge, Reconcile, vars, Start,
    MarkFailed, Stop, Repair, PlanRanges, UnloadRange,
    ExtractDone, LoadRefused, BeginRange, DropRejects, FinishRange,
    LoadBatch, WriteLoadRejects, LoadDone, BeginValidate, JudgeBatch,
    FlipBatch, SecondPass, ClearRejects, RecordRejects, Promote,
    ValidateDone, SkipReferences, Guard, DryRun, BeginPurge, RecoverIntent,
    TakeBatch, WriteIntent, DeleteRefused, DeleteTransient, MarkForRetry,
    MarkRolledBack, AbortPurge, MarkPurged, PurgeDone, Closes, DoesNotClose,
    CleanUp, Close, atSource

LEMMA PromoteArchives ==
  ASSUME TypeOK, ArchInv, Promote
  PROVE  \E S \in SUBSET Keys : Archive!Archive(S)
<1>. DEFINE S == {k \in Staged(tab) : validation[k] = "VALIDATED" /\ arch[k] = "none"}
<1>1. /\ pc = "judging" /\ second /\ todo = {}
      /\ UNCHANGED <<source, migAudit, partial>>
  BY DEF Promote, atSource
<1>2. S \in SUBSET Keys
  BY DEF Staged, TypeOK
<1>3. arch' = [k \in Keys |-> IF k \in S THEN "copy" ELSE arch[k]]
  BY DEF Promote
<1>4. ASSUME NEW k \in S, ParentOf[k] # None PROVE arch[ParentOf[k]] # "none"
  <2>1. RowPasses(k)
    BY <1>1, <1>4 DEF ArchInv, VerdictsSound, Judging
  <2>2. TableOf(ParentOf[k]) < TableOf(k) /\ TableOf(k) = tab
    BY <1>2, <1>4, ManifestOK DEF ManifestOK, Staged, RowsOf
  <2>. QED
    BY <1>1, <1>4, <2>1, <2>2
       DEF RowPasses, ParentPresent, ArchInv, ParentsFirst, Validating, Judging
<1>5. Archive!Archive(S)
  BY <1>1, <1>3, <1>4 DEF Archive!Archive
<1>. QED
  BY <1>2, <1>5

LEMMA DeletePurges ==
  ASSUME AllInv, DeleteCommitted \/ CommitUnknown
  PROVE  \E S \in SUBSET Keys : Archive!Purge(S)
<1>1. /\ CanDelete(batch)
      /\ source' = [k \in Keys |-> IF k \in batch THEN "gone" ELSE source[k]]
      /\ migAudit' = migAudit \cup batch
      /\ UNCHANGED <<arch, partial>>
  BY DEF DeleteCommitted, CommitUnknown, CommitDelete, verdicts
<1>2. batch \in SUBSET Keys
  BY DEF AllInv, TypeOK
<1>3. \A k \in batch : arch[k] = "copy" \/ partial
  BY DeletedFirm DEF Firm
<1>4. Archive!Purge(batch)
  BY <1>1, <1>3 DEF CanDelete, Children, Archive!Purge, Archive!Children, Archive!Gone
<1>. QED
  BY <1>2, <1>4

LEMMA ArchiveStep ==
  ASSUME AllInv, [Next]_vars
  PROVE  [Archive!Next]_Archive!vars
<1>1. CASE Promote
  BY <1>1, PromoteArchives DEF AllInv, Archive!Next
<1>2. CASE DeleteCommitted \/ CommitUnknown
  BY <1>2, DeletePurges DEF Archive!Next
<1>3. ASSUME NEW k \in Mutable \cap Keys, TouchRow(k) \/ RemoveRow(k)
      PROVE  [Archive!Next]_Archive!vars
  <2>1. UNCHANGED <<arch, migAudit, partial>>
    BY <1>3 DEF TouchRow, RemoveRow, verdicts
  <2>2. TouchRow(k) => Archive!Touch(k)
    BY <2>1 DEF TouchRow, Archive!Touch
  <2>3. RemoveRow(k) => Archive!Remove(k)
    BY <2>1 DEF RemoveRow, Children, Archive!Remove, Archive!Children, Archive!Gone, AllInv, TypeOK
  <2>. QED
    BY <1>3, <2>2, <2>3 DEF Archive!Next
<1>4. CASE BeginValidate
  <2>1. UNCHANGED <<source, arch, migAudit>> /\ partial' \in {partial, TRUE}
    BY <1>4 DEF BeginValidate, atSource, AllInv, TypeOK
  <2>. QED
    BY <2>1 DEF Archive!Next, Archive!LoseCare, Archive!vars
<1>5. CASE UNCHANGED <<source, arch, migAudit, partial>>
  BY <1>5 DEF Archive!vars
<1>6. \/ Promote \/ BeginValidate \/ DeleteCommitted \/ CommitUnknown
      \/ \E k \in Mutable \cap Keys : TouchRow(k) \/ RemoveRow(k)
      \/ UNCHANGED <<source, arch, migAudit, partial>>
  BY SourceFrame, VerdictFrame, DeleteFrame
<1>. QED
  BY <1>1, <1>2, <1>3, <1>4, <1>5, <1>6

\* The job implements SafeArchive for every manifest, any order of verbs, any
\* number of crashes, lost answers and rows the application changes (promote,
\* purge_batch): a row is copied once and after its parent, and deleted at most
\* once and with its copy in the archive unless VALIDATE ran too early.
THEOREM ArchiveCorrect == Spec => ImplementsArchive
<1>1. Init => Archive!Init
  BY DEF Init, Archive!Init
<1>2. AllInv /\ [Next]_vars => [Archive!Next]_Archive!vars
  BY ArchiveStep
<1>. QED
  BY <1>1, <1>2, AllInvariant, PTL DEF Spec, ImplementsArchive, Archive!Spec

-----------------------------------------------------------------------------
LEMMA PairsKept ==
  ASSUME TypeOK, GuardInv, [Next]_vars, NEW t \in Tables, Paired(t)
  PROVE  Paired(t)'
<1>0. /\ ledger[t] \in Counts /\ ledger \in [Tables -> Counts]
      /\ \A S \in SUBSET Keys : Cardinality(S) # NULL /\ Cardinality(S) \in Nat
      /\ t \in DataTables <=> t \notin Reference
  BY Sizes DEF TypeOK, NULL, DataTables
<1>1. CASE UNCHANGED ledger
  BY <1>1 DEF Paired
<1>2. CASE ExtractDone
  BY <1>0, <1>2 DEF ExtractDone, Counts, Paired
<1>3. CASE LoadDone
  <2>1. Cardinality(Rejected(tab)) # NULL
    BY <1>0 DEF Rejected, RowsOf
  <2> QED
    BY <1>0, <1>3, <2>1 DEF LoadDone, Counts, Paired
<1>4. CASE ValidateDone
  <2>1. /\ Cardinality(Judged(tab, "VALIDATED")) # NULL
        /\ Cardinality(Judged(tab, "FAILED")) # NULL
    BY <1>0 DEF Judged, RowsOf
  <2> QED
    BY <1>0, <1>4, <2>1 DEF ValidateDone, Counts, Paired
<1>5. CASE SkipReferences
  <2>1. \/ ledger'[t] = ledger[t]
        \/ /\ t \in Reference
           /\ ledger'[t] = [ledger[t] EXCEPT !.intended = 0, !.purged = 0]
    BY <1>5 DEF SkipReferences
  <2> QED
    BY <1>0, <2>1 DEF Counts, Paired
<1>6. CASE Guard
  BY <1>0, <1>6 DEF Guard, Counts, Paired
<1>7. CASE DryRun \/ AbortPurge \/ PurgeDone
  <2>1. t \in DataTables => ledger[t].validated # NULL
    <3>1. t \in DataTables => Agrees(t)
      BY <1>7 DEF DryRun, AbortPurge, PurgeDone, GuardInv, Guarded, InPurgeLoop
    <3>2. Cardinality(PurgeSafe(t)) # NULL
      BY <1>0, SafeKeys
    <3> QED
      BY <3>1, <3>2 DEF Agrees
  <2>2. \E n : ledger' = [ledger EXCEPT ![tab].purged = n]
    BY <1>7 DEF DryRun, AbortPurge, PurgeDone
  <2> QED
    BY <1>0, <2>1, <2>2 DEF Counts, Paired
<1> QED
  BY <1>1, <1>2, <1>3, <1>4, <1>5, <1>6, <1>7, LedgerFrame

\* Marks of the target's audit never exceed the rows deleted.
LEMMA BooksKept == AllInv /\ AuditInv /\ BooksStand /\ [Next]_vars => BooksStand'
<1> SUFFICES ASSUME AllInv, AuditInv, BooksStand, [Next]_vars PROVE BooksStand'
  OBVIOUS
<1>0. TypeOK
  BY DEF AllInv
<1>1. ASSUME NEW t \in Tables
      PROVE  Zero(ledger'[t].purged) <= Cardinality((migAudit \cap RowsOf(t))')
  <2>1. /\ migAudit \cap RowsOf(t) \in SUBSET (migAudit' \cap RowsOf(t))
        /\ IsFiniteSet(migAudit' \cap RowsOf(t))
        /\ RowsOf(t)' = RowsOf(t)
    BY DeleteFrame, Sizes DEF DeleteCommitted, CommitUnknown, CommitDelete, RowsOf
  <2>2. /\ Cardinality(migAudit \cap RowsOf(t)) <= Cardinality(migAudit' \cap RowsOf(t))
        /\ Cardinality(migAudit \cap RowsOf(t)) \in Nat
        /\ Cardinality(migAudit' \cap RowsOf(t)) \in Nat
    BY <2>1, FS_Subset, FS_CardinalityType
  <2>3. /\ Cardinality(Audited(t)) <= Cardinality(migAudit \cap RowsOf(t))
        /\ Cardinality(Audited(t)) \in Nat
    <3>1. Audited(t) \in SUBSET (migAudit \cap RowsOf(t)) /\ migAudit \cap RowsOf(t) \subseteq Keys
      BY DEF Audited, RowsOf, AuditInv, AuditsAgree
    <3> QED
      BY <3>1, Sizes, FS_Subset
  <2>4. Zero(ledger[t].purged) <= Cardinality(migAudit \cap RowsOf(t))
        /\ Zero(ledger[t].purged) \in Nat
    BY <1>0 DEF BooksStand, Zero, TypeOK, Counts, Count
  <2>5. \/ ledger'[t].purged = ledger[t].purged
        \/ Zero(ledger'[t].purged) = 0
        \/ Zero(ledger'[t].purged) = Cardinality(Audited(t))
    BY <1>0, CountsFrame
  <2> QED
    BY <2>1, <2>2, <2>3, <2>4, <2>5
<1>2. status' = "CLOSED" => pc' = "idle" /\ (status = "CLOSED" \/ pc = "close")
  BY DEF Next, Job, Extract, Load, Validate, Purge, Reconcile, vars, Start,
    MarkFailed, Stop, TouchRow, RemoveRow, Repair, PlanRanges, UnloadRange,
    ExtractDone, LoadRefused, BeginRange, DropRejects, FinishRange,
    LoadBatch, WriteLoadRejects, LoadDone, BeginValidate, JudgeBatch,
    FlipBatch, SecondPass, ClearRejects, RecordRejects, Promote,
    ValidateDone, SkipReferences, Guard, DryRun, BeginPurge, RecoverIntent,
    TakeBatch, WriteIntent, DeleteCommitted, CommitUnknown, DeleteRefused,
    DeleteTransient, MarkForRetry, MarkRolledBack, AbortPurge, MarkPurged,
    PurgeDone, Closes, DoesNotClose, CleanUp, Close, Goto, Raises, NextTable,
    EndStage, TableDone, Descend, Follows, Stages, loop, run, BooksStand
<1>3. pc' \in {"cleanup", "close"} \/ status' = "CLOSED" =>
        /\ UNCHANGED <<ledger, purge>>
        /\ \A t \in Tables : TableCloses(t)
  BY <1>0, <1>2 DEF Next, Job, Extract, Load, Validate, Purge, Reconcile,
    vars, Start, MarkFailed, Stop, TouchRow, RemoveRow, Repair, PlanRanges,
    UnloadRange, ExtractDone, LoadRefused, BeginRange, DropRejects,
    FinishRange, LoadBatch, WriteLoadRejects, LoadDone, BeginValidate,
    JudgeBatch, FlipBatch, SecondPass, ClearRejects, RecordRejects, Promote,
    ValidateDone, SkipReferences, Guard, DryRun, BeginPurge, RecoverIntent,
    TakeBatch, WriteIntent, DeleteCommitted, CommitUnknown, DeleteRefused,
    DeleteTransient, MarkForRetry, MarkRolledBack, AbortPurge, MarkPurged,
    PurgeDone, Closes, DoesNotClose, CleanUp, Close, Goto, Raises, NextTable,
    EndStage, TableDone, Descend, Follows, Stages, loop, run, BooksStand
<1>4. (\A t \in Tables : TableCloses(t)) /\ UNCHANGED <<ledger, purge>>
        => \A t \in Tables : TableCloses(t)'
  BY DEF TableCloses
<1>5. \A t \in Tables : Paired(t)'
  BY PairsKept DEF AllInv, BooksStand
<1> QED
  BY <1>1, <1>2, <1>3, <1>4, <1>5 DEF BooksStand

LEMMA BooksInvariant == Spec => [](AllInv /\ BooksStand)
<1>1. Init => BooksStand
  <2> SUFFICES ASSUME Init PROVE BooksStand
    OBVIOUS
  <2>1. \A t \in Tables : /\ migAudit \cap RowsOf(t) = {}
                          /\ Zero(ledger[t].purged) = 0
                          /\ Paired(t)
    BY DEF Init, Zero, NULL, Paired
  <2> QED
    BY <2>1, FS_EmptySet DEF Init, BooksStand
<1>2. AllInv /\ AuditInv /\ BooksStand /\ [Next]_vars => BooksStand'
  BY BooksKept
<1> QED
  BY <1>1, <1>2, AllInvariant, AuditInvariant, PTL DEF Spec

\* The report of a closed run is true of both databases.
THEOREM ClosedBooksAreTrue == Spec => []ClosedBooks
<1>1. AllInv /\ BooksStand => ClosedBooks
  <2> SUFFICES ASSUME AllInv, BooksStand, status = "CLOSED", purge, ~partial,
                      NEW t \in DataTables
               PROVE  /\ ledger[t].purged = Cardinality(migAudit \cap RowsOf(t))
                      /\ Cardinality(unload \cap RowsOf(t))
                           = ledger[t].purged + ledger[t].rejected + ledger[t].failed
    BY DEF ClosedBooks
  <2>1. /\ t \in Tables /\ t \notin Reference
        /\ TableCloses(t)
        /\ Zero(ledger[t].purged) <= Cardinality(migAudit \cap RowsOf(t))
        /\ Cardinality(migAudit \cap RowsOf(t)) <= Zero(ledger[t].validated)
    BY DEF DataTables, BooksStand, AllInv, FirmInv, FirmCounts
  <2>2. ledger[t] \in Counts /\ Cardinality(migAudit \cap RowsOf(t)) \in Nat
    BY <2>1, Sizes DEF AllInv, TypeOK, RowsOf
  <2>3. Paired(t)
    BY <2>1 DEF BooksStand
  <2>4. ledger[t].extracted # NULL =>
          ledger[t].extracted = Cardinality(unload \cap RowsOf(t))
    BY <2>1 DEF AllInv, ExtractCounted
  <2> DEFINE row == ledger[t]
  <2>5. /\ row.extracted \in Count /\ row.loaded \in Count /\ row.rejected \in Count
        /\ row.validated \in Count /\ row.failed \in Count /\ row.purged \in Count
    BY <2>2 DEF Counts
  <2>6. /\ row.extracted = Zero(row.loaded) + Zero(row.rejected)
        /\ row.loaded = Zero(row.validated) + Zero(row.failed)
        /\ row.purged = Zero(row.validated)
    BY <2>1 DEF TableCloses
  <2>7. \A n \in Count : Zero(n) \in Nat /\ (n # NULL => Zero(n) = n)
    BY DEF Count, Zero, NULL
  <2>8. row.purged # NULL /\ row.loaded # NULL /\ row.extracted # NULL
    BY <2>5, <2>6, <2>7 DEF NULL
  <2>9. row.validated # NULL /\ row.failed # NULL /\ row.rejected # NULL
    BY <2>1, <2>3, <2>8 DEF Paired
  <2>10. row.purged = Cardinality(migAudit \cap RowsOf(t))
    BY <2>1, <2>2, <2>5, <2>6, <2>7, <2>8
  <2>11. Cardinality(unload \cap RowsOf(t)) = row.purged + row.rejected + row.failed
    BY <2>4, <2>5, <2>6, <2>7, <2>8, <2>9 DEF Count, NULL
  <2> QED
    BY <2>10, <2>11
<1> QED
  BY <1>1, BooksInvariant, PTL
=============================================================================
