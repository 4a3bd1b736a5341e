-------------------------- MODULE MigrationJob_proofs --------------------------
(***************************************************************************)
(* Proofs about MigrationJob, for every manifest, any number of rows and   *)
(* any number of faults.                                                   *)
(***************************************************************************)
EXTENDS MigrationJob, FiniteSetTheorems, TLAPS

\* Retrying is only promised while attempts are left.
Retrying == pc = "retry" => tries < MaxRetries

-----------------------------------------------------------------------------
\* The two audits, place by place of the purge loop.
AtBatch == {"deleting", "purged", "retry", "giveUp", "recovered"}

Unsettled == {"intend", "deleting", "retry", "giveUp"}

InPurgeLoop == Unsettled \cup {"recovering", "recovered", "purging", "purged"}

IntentFirst == pc \in AtBatch => \A k \in batch : audit[k] # "none"

DeleteBeforeMark == pc \in {"purged", "recovering", "recovered"} => batch \subseteq migAudit

NoMarkTwice == /\ pc \in InPurgeLoop => \A k \in todo : audit[k] # "PURGED"
               /\ pc \in Unsettled => \A k \in batch : audit[k] # "PURGED"

-----------------------------------------------------------------------------
\* Guards that have been passed still hold.
Agrees(t) == Cardinality(PurgeSafe(t)) = ledger[t].validated

Guarded == /\ pc \in InPurgeLoop \cup {"purgeTable", "purgeAbort"} =>
                \A t \in DataTables : Agrees(t)
           /\ pc = "guard" => \A t \in DataTables : t > tab => Agrees(t)

LoopsOverSafe == pc \in InPurgeLoop => batch \cup todo \subseteq PurgeSafe(tab)

-----------------------------------------------------------------------------
LEMMA FiniteKeys == IsFiniteSet(Keys)
  BY ManifestOK DEF ManifestOK

LEMMA Params == /\ NumTables \in Nat /\ NumTables > 0
                /\ MaxRetries \in Nat
                /\ MaxFaults \in Nat
                /\ RangeOf \in [Keys -> Ranges]
                /\ RangeTable \in [Ranges -> Tables]
  BY ManifestOK, BoundsOK DEF ManifestOK, BoundsOK

LEMMA Sizes == \A S \in SUBSET Keys : IsFiniteSet(S) /\ Cardinality(S) \in Nat
  BY FiniteKeys, FS_Subset, FS_CardinalityType

LEMMA SafeKeys == \A t : PurgeSafe(t) \subseteq Keys
  BY DEF PurgeSafe, Judged, RowsOf

-----------------------------------------------------------------------------
\* The process's own variables, and the rest.
LoopTypes == /\ pc \in Places
             /\ tab \in 0 .. NumTables
             /\ pc \notin {"idle", "raise"} => tab \in Tables
             /\ batch \subseteq Keys
             /\ todo \subseteq Keys
             /\ second \in BOOLEAN
             /\ tries \in 0 .. MaxRetries

StoreTypes ==
  /\ source \in [Keys -> {"cold", "touched", "gone"}]
  /\ migAudit \subseteq Keys
  /\ ext \in [Ranges -> {"none", "open", "done"}]
  /\ load \in [Ranges -> {"PENDING", "RUNNING", "DONE"}]
  /\ unload \subseteq Keys
  /\ staged \subseteq Keys
  /\ rejects \in [Keys -> {"none", "LOAD", "VALIDATE"}]
  /\ validation \in [Keys -> {"none", "VALIDATED", "FAILED"}]
  /\ arch \in [Keys -> {"none", "copy", "other"}]
  /\ bad \subseteq Keys
  /\ partial \in BOOLEAN
  /\ audit \in [Keys -> {"none", "INTENDED", "PURGED", "ROLLED_BACK"}]
  /\ ledger \in [Tables -> Counts]
  /\ status \in {"NONE", "RUNNING", "FAILED", "CLOSED"}
  /\ purge \in BOOLEAN
  /\ all \in BOOLEAN
  /\ faults \in 0 .. MaxFaults

LEMMA TypesSplit == TypeOK <=> LoopTypes /\ StoreTypes
  BY DEF TypeOK, LoopTypes, StoreTypes

LEMMA TypesSplitNext == TypeOK' <=> LoopTypes' /\ StoreTypes'
  BY DEF TypeOK, LoopTypes, StoreTypes

LEMMA GotoLoop ==
  ASSUME NEW p \in Places \ {"retry"}, NEW t \in 0 .. NumTables,
         p \notin {"idle", "raise"} => t \in Tables, Goto(p, t)
  PROVE  LoopTypes' /\ Retrying'
<1>1. pc' \in Places /\ tab' \in 0 .. NumTables
  BY DEF Goto
<1>2. pc' \notin {"idle", "raise"} => tab' \in Tables
  BY DEF Goto
<1>3. batch' \subseteq Keys /\ todo' \subseteq Keys /\ second' \in BOOLEAN
  BY DEF Goto
<1>4. tries' \in 0 .. MaxRetries /\ Retrying'
  BY Params DEF Goto, Retrying
<1> QED
  BY <1>1, <1>2, <1>3, <1>4 DEF LoopTypes

LEMMA RowCounts ==
  ASSUME NEW row \in Counts, NEW n \in Nat
  PROVE  /\ [row EXCEPT !.extracted = n] \in Counts
         /\ [row EXCEPT !.loaded = n] \in Counts
         /\ [row EXCEPT !.rejected = n] \in Counts
         /\ [row EXCEPT !.validated = n] \in Counts
         /\ [row EXCEPT !.failed = n] \in Counts
         /\ [row EXCEPT !.intended = n] \in Counts
         /\ [row EXCEPT !.purged = n] \in Counts
  BY DEF Counts, Count

LEMMA EndLoop ==
  ASSUME NEW stage \in Stages \ {"reconcile"}, EndStage(stage)
  PROVE  LoopTypes' /\ Retrying'
<1>1. Follows[stage] \in Stages
  BY DEF Stages, Follows
<1>2. 1 \in Tables /\ 0 \in 0 .. NumTables /\ 1 \in 0 .. NumTables
  BY Params DEF Tables
<1> QED
  BY <1>1, <1>2, GotoLoop DEF EndStage, Stages, Places

LEMMA TableLoop ==
  ASSUME TypeOK, pc \notin {"idle", "raise"},
         NEW stage \in Stages \ {"reconcile"}, NextTable(stage)
  PROVE  LoopTypes' /\ Retrying'
<1>1. CASE tab < NumTables /\ Goto(stage, tab + 1)
  <2>1. tab + 1 \in Tables /\ tab + 1 \in 0 .. NumTables
    BY <1>1, Params DEF TypeOK, Tables
  <2> QED
    BY <1>1, <2>1, GotoLoop DEF Stages, Places
<1>2. CASE EndStage(stage)
  BY <1>2, EndLoop
<1> QED
  BY <1>1, <1>2 DEF NextTable

LEMMA DownLoop ==
  ASSUME NEW p \in Places \ {"retry"}, NEW t, Descend(p, t)
  PROVE  LoopTypes' /\ Retrying'
<1>1. PICK u \in Below(t) : Goto(p, u)
  BY DEF Descend
<1>2. u \in Tables /\ u \in 0 .. NumTables
  BY <1>1, Params DEF Below, DataTables, Tables
<1> QED
  BY <1>1, <1>2, GotoLoop

LEMMA Lands == /\ Goto("idle", 0) => LoopTypes' /\ Retrying'
               /\ Raises => LoopTypes' /\ Retrying'
               /\ \A p \in Stages \cup {"cleanup"} : Goto(p, 1) => LoopTypes' /\ Retrying'
               /\ \A p \in {"cleanup", "close"}, t \in Tables :
                    Goto(p, t) => LoopTypes' /\ Retrying'
<1>1. 1 \in Tables /\ 0 \in 0 .. NumTables /\ Tables \subseteq 0 .. NumTables
  BY Params DEF Tables
<1>2. Goto("idle", 0) => LoopTypes' /\ Retrying'
  BY <1>1, GotoLoop DEF Places
<1>3. Raises => LoopTypes' /\ Retrying'
  BY <1>1, GotoLoop DEF Raises, Places
<1>4. ASSUME NEW p \in Stages \cup {"cleanup"}, Goto(p, 1)
      PROVE  LoopTypes' /\ Retrying'
  BY <1>1, <1>4, GotoLoop DEF Stages, Places
<1>5. ASSUME NEW p \in {"cleanup", "close"}, NEW t \in Tables, Goto(p, t)
      PROVE  LoopTypes' /\ Retrying'
  BY <1>1, <1>5, GotoLoop DEF Stages, Places
<1> QED
  BY <1>2, <1>3, <1>4, <1>5

LEMMA StoreKept == TypeOK /\ [Next]_vars => StoreTypes'
<1> SUFFICES ASSUME TypeOK, [Next]_vars PROVE StoreTypes'
  OBVIOUS
<1> USE Params DEF StoreTypes
<1>1. ASSUME NEW verb \in Stages \cup {"all"}, Start(verb) PROVE StoreTypes'
    BY <1>1 DEF Start, TypeOK, atSource, files, staging, verdicts, run
<1>2. ASSUME MarkFailed PROVE StoreTypes'
    BY <1>2 DEF MarkFailed, TypeOK, atSource, files, staging, verdicts, run
<1>3. ASSUME Stop PROVE StoreTypes'
    BY <1>3 DEF Stop, TypeOK, atSource, files, staging, verdicts, run
<1>4. ASSUME NEW k0 \in Keys, TouchRow(k0) PROVE StoreTypes'
    BY <1>4 DEF TouchRow, TypeOK, atSource, files, staging, verdicts, run
<1>5. ASSUME NEW k0 \in Keys, RemoveRow(k0) PROVE StoreTypes'
    BY <1>5 DEF RemoveRow, TypeOK, atSource, files, staging, verdicts, run
<1>6. ASSUME NEW k0 \in Keys, Repair(k0) PROVE StoreTypes'
    BY <1>6 DEF Repair, TypeOK, atSource, files, staging, verdicts, run
<1>7. ASSUME PlanRanges PROVE StoreTypes'
    BY <1>7 DEF PlanRanges, TypeOK, atSource, files, staging, verdicts, run
<1>8. ASSUME NEW r \in Ranges, UnloadRange(r) PROVE StoreTypes'
    BY <1>8 DEF UnloadRange, TypeOK, atSource, files, staging, verdicts,
      run, Held
<1>9. ASSUME ExtractDone PROVE StoreTypes'
    BY <1>9, Sizes, RowCounts DEF ExtractDone, TypeOK, atSource, files,
      staging, verdicts, run, RowsOf
<1>10. ASSUME LoadRefused PROVE StoreTypes'
    BY <1>10 DEF LoadRefused, TypeOK, atSource, files, staging, verdicts,
      run
<1>11. ASSUME NEW r \in Ranges, BeginRange(r) PROVE StoreTypes'
    BY <1>11 DEF BeginRange, TypeOK, atSource, files, staging, verdicts,
      run
<1>12. ASSUME NEW r \in Ranges, DropRejects(r) PROVE StoreTypes'
    BY <1>12 DEF DropRejects, TypeOK, atSource, files, staging, verdicts,
      run
<1>13. ASSUME NEW r \in Ranges, FinishRange(r) PROVE StoreTypes'
    BY <1>13 DEF FinishRange, TypeOK, atSource, files, staging, verdicts,
      run
<1>14. ASSUME NEW B \in Batches(todo), LoadBatch(B) PROVE StoreTypes'
    BY <1>14 DEF LoadBatch, TypeOK, atSource, files, staging, verdicts,
      run, Batches
<1>15. ASSUME WriteLoadRejects PROVE StoreTypes'
    BY <1>15 DEF WriteLoadRejects, TypeOK, atSource, files, staging,
      verdicts, run, AddRejects
<1>16. ASSUME LoadDone PROVE StoreTypes'
    BY <1>16, Sizes, RowCounts DEF LoadDone, TypeOK, atSource, files,
      staging, verdicts, run, Staged, Rejected, RowsOf
<1>17. ASSUME BeginValidate PROVE StoreTypes'
    BY <1>17 DEF BeginValidate, TypeOK, atSource, files, staging, verdicts,
      run
<1>18. ASSUME NEW B \in Batches(todo), JudgeBatch(B) PROVE StoreTypes'
    BY <1>18 DEF JudgeBatch, TypeOK, atSource, files, staging, verdicts,
      run
<1>19. ASSUME NEW B \in Batches(todo), FlipBatch(B) PROVE StoreTypes'
    BY <1>19 DEF FlipBatch, TypeOK, atSource, files, staging, verdicts, run
<1>20. ASSUME SecondPass PROVE StoreTypes'
    BY <1>20 DEF SecondPass, TypeOK, atSource, files, staging, verdicts,
      run
<1>21. ASSUME ClearRejects PROVE StoreTypes'
    BY <1>21 DEF ClearRejects, TypeOK, atSource, files, staging, verdicts,
      run
<1>22. ASSUME RecordRejects PROVE StoreTypes'
    BY <1>22 DEF RecordRejects, TypeOK, atSource, files, staging, verdicts,
      run, AddRejects
<1>23. ASSUME Promote PROVE StoreTypes'
    BY <1>23 DEF Promote, TypeOK, atSource, files, staging, verdicts, run,
      Staged
<1>24. ASSUME ValidateDone PROVE StoreTypes'
    BY <1>24, Sizes, RowCounts DEF ValidateDone, TypeOK, atSource, files,
      staging, verdicts, run, Judged, RowsOf
<1>25. ASSUME SkipReferences PROVE StoreTypes'
    BY <1>25, RowCounts DEF SkipReferences, TypeOK, atSource, files,
      staging, verdicts, run
<1>26. ASSUME Guard PROVE StoreTypes'
    BY <1>26, Sizes, SafeKeys, RowCounts DEF Guard, TypeOK, atSource,
      files, staging, verdicts, run
<1>27. ASSUME DryRun PROVE StoreTypes'
    BY <1>27, RowCounts DEF DryRun, TypeOK, atSource, files, staging,
      verdicts, run
<1>28. ASSUME BeginPurge PROVE StoreTypes'
    BY <1>28 DEF BeginPurge, TypeOK, atSource, files, staging, verdicts,
      run
<1>29. ASSUME RecoverIntent PROVE StoreTypes'
    BY <1>29 DEF RecoverIntent, TypeOK, atSource, files, staging, verdicts,
      run, Intended
<1>30. ASSUME NEW B \in Batches(todo), TakeBatch(B) PROVE StoreTypes'
    BY <1>30 DEF TakeBatch, TypeOK, atSource, files, staging, verdicts, run
<1>31. ASSUME WriteIntent PROVE StoreTypes'
    BY <1>31 DEF WriteIntent, TypeOK, atSource, files, staging, verdicts,
      run, Intended
<1>32. ASSUME DeleteCommitted PROVE StoreTypes'
    BY <1>32 DEF DeleteCommitted, TypeOK, atSource, files, staging,
      verdicts, run, CommitDelete
<1>33. ASSUME CommitUnknown PROVE StoreTypes'
    BY <1>33 DEF CommitUnknown, TypeOK, atSource, files, staging, verdicts,
      run, CommitDelete
<1>34. ASSUME DeleteRefused PROVE StoreTypes'
    BY <1>34 DEF DeleteRefused, TypeOK, atSource, files, staging, verdicts,
      run
<1>35. ASSUME DeleteTransient PROVE StoreTypes'
    BY <1>35 DEF DeleteTransient, TypeOK, atSource, files, staging,
      verdicts, run
<1>36. ASSUME MarkForRetry PROVE StoreTypes'
    BY <1>36 DEF MarkForRetry, TypeOK, atSource, files, staging, verdicts,
      run, Marked
<1>37. ASSUME MarkRolledBack PROVE StoreTypes'
    BY <1>37 DEF MarkRolledBack, TypeOK, atSource, files, staging,
      verdicts, run, Marked
<1>38. ASSUME AbortPurge PROVE StoreTypes'
    BY <1>38, Sizes, RowCounts DEF AbortPurge, TypeOK, atSource, files,
      staging, verdicts, run, Audited, RowsOf
<1>39. ASSUME MarkPurged PROVE StoreTypes'
    BY <1>39 DEF MarkPurged, TypeOK, atSource, files, staging, verdicts,
      run, Marked
<1>40. ASSUME PurgeDone PROVE StoreTypes'
    BY <1>40, Sizes, RowCounts DEF PurgeDone, TypeOK, atSource, files,
      staging, verdicts, run, Audited, RowsOf
<1>41. ASSUME Closes PROVE StoreTypes'
    BY <1>41 DEF Closes, TypeOK, atSource, files, staging, verdicts, run
<1>42. ASSUME DoesNotClose PROVE StoreTypes'
    BY <1>42 DEF DoesNotClose, TypeOK, atSource, files, staging, verdicts,
      run
<1>43. ASSUME CleanUp PROVE StoreTypes'
    BY <1>43 DEF CleanUp, TypeOK, atSource, files, staging, verdicts, run
<1>44. ASSUME Close PROVE StoreTypes'
    BY <1>44 DEF Close, TypeOK, atSource, files, staging, verdicts, run
<1>45. CASE UNCHANGED vars
    BY <1>45 DEF vars, TypeOK, atSource, files, staging, verdicts, run
<1> QED
    BY <1>1, <1>2, <1>3, <1>4, <1>5, <1>6, <1>7, <1>8, <1>9, <1>10, <1>11,
      <1>12, <1>13, <1>14, <1>15, <1>16, <1>17, <1>18, <1>19, <1>20, <1>21,
      <1>22, <1>23, <1>24, <1>25, <1>26, <1>27, <1>28, <1>29, <1>30, <1>31,
      <1>32, <1>33, <1>34, <1>35, <1>36, <1>37, <1>38, <1>39, <1>40, <1>41,
      <1>42, <1>43, <1>44, <1>45 DEF Next, Job, Extract, Load, Validate,
      Purge, Reconcile

LEMMA LoopKept == TypeOK /\ Retrying /\ [Next]_vars => LoopTypes' /\ Retrying'
<1> SUFFICES ASSUME TypeOK, Retrying, [Next]_vars PROVE LoopTypes' /\ Retrying'
  OBVIOUS
<1> USE Params DEF Tables
<1>1. ASSUME NEW verb \in Stages \cup {"all"}, Start(verb) PROVE LoopTypes' /\ Retrying'
    BY <1>1, Lands DEF Start, Stages
<1>2. ASSUME MarkFailed PROVE LoopTypes' /\ Retrying'
    BY <1>2, Lands DEF MarkFailed
<1>3. ASSUME Stop PROVE LoopTypes' /\ Retrying'
    BY <1>3, Lands DEF Stop
<1>4. ASSUME NEW k0 \in Keys, TouchRow(k0) PROVE LoopTypes' /\ Retrying'
    BY <1>4 DEF TouchRow, TypeOK, Retrying, loop, LoopTypes, Places, Stages
<1>5. ASSUME NEW k0 \in Keys, RemoveRow(k0) PROVE LoopTypes' /\ Retrying'
    BY <1>5 DEF RemoveRow, TypeOK, Retrying, loop, LoopTypes, Places,
      Stages
<1>6. ASSUME NEW k0 \in Keys, Repair(k0) PROVE LoopTypes' /\ Retrying'
    BY <1>6 DEF Repair, TypeOK, Retrying, loop, LoopTypes, Places, Stages
<1>7. ASSUME PlanRanges PROVE LoopTypes' /\ Retrying'
    BY <1>7 DEF PlanRanges, TypeOK, Retrying, loop, LoopTypes, Places,
      Stages
<1>8. ASSUME NEW r \in Ranges, UnloadRange(r) PROVE LoopTypes' /\ Retrying'
    BY <1>8 DEF UnloadRange, TypeOK, Retrying, loop, LoopTypes, Places,
      Stages
<1>9. ASSUME ExtractDone PROVE LoopTypes' /\ Retrying'
    <2>1. pc \notin {"idle", "raise"}
      BY <1>9 DEF ExtractDone
    <2>2. "extract" \in Stages \ {"reconcile"}
      BY DEF Stages
    <2> QED
      BY <1>9, <2>1, <2>2, TableLoop, Lands DEF ExtractDone
<1>10. ASSUME LoadRefused PROVE LoopTypes' /\ Retrying'
    BY <1>10, Lands DEF LoadRefused
<1>11. ASSUME NEW r \in Ranges, BeginRange(r) PROVE LoopTypes' /\ Retrying'
    BY <1>11 DEF BeginRange, TypeOK, Retrying, loop, LoopTypes, Held,
      Places, Stages
<1>12. ASSUME NEW r \in Ranges, DropRejects(r) PROVE LoopTypes' /\ Retrying'
    BY <1>12 DEF DropRejects, TypeOK, Retrying, loop, LoopTypes, Places,
      Stages
<1>13. ASSUME NEW r \in Ranges, FinishRange(r) PROVE LoopTypes' /\ Retrying'
    BY <1>13 DEF FinishRange, TypeOK, Retrying, loop, LoopTypes, Places,
      Stages
<1>14. ASSUME NEW B \in Batches(todo), LoadBatch(B) PROVE LoopTypes' /\ Retrying'
    BY <1>14 DEF LoadBatch, TypeOK, Retrying, loop, LoopTypes, Batches,
      Places, Stages
<1>15. ASSUME WriteLoadRejects PROVE LoopTypes' /\ Retrying'
    BY <1>15 DEF WriteLoadRejects, TypeOK, Retrying, loop, LoopTypes,
      Places, Stages
<1>16. ASSUME LoadDone PROVE LoopTypes' /\ Retrying'
    <2>1. pc \notin {"idle", "raise"}
      BY <1>16 DEF LoadDone
    <2>2. "load" \in Stages \ {"reconcile"}
      BY DEF Stages
    <2> QED
      BY <1>16, <2>1, <2>2, TableLoop, Lands DEF LoadDone
<1>17. ASSUME BeginValidate PROVE LoopTypes' /\ Retrying'
    BY <1>17 DEF BeginValidate, TypeOK, Retrying, loop, LoopTypes, Staged,
      RowsOf, Places, Stages
<1>18. ASSUME NEW B \in Batches(todo), JudgeBatch(B) PROVE LoopTypes' /\ Retrying'
    BY <1>18 DEF JudgeBatch, TypeOK, Retrying, loop, LoopTypes, Batches,
      Places, Stages
<1>19. ASSUME NEW B \in Batches(todo), FlipBatch(B) PROVE LoopTypes' /\ Retrying'
    BY <1>19 DEF FlipBatch, TypeOK, Retrying, loop, LoopTypes, Batches,
      Places, Stages
<1>20. ASSUME SecondPass PROVE LoopTypes' /\ Retrying'
    BY <1>20 DEF SecondPass, TypeOK, Retrying, loop, LoopTypes, Staged,
      RowsOf, Places, Stages
<1>21. ASSUME ClearRejects PROVE LoopTypes' /\ Retrying'
    BY <1>21 DEF ClearRejects, TypeOK, Retrying, loop, LoopTypes, Places,
      Stages
<1>22. ASSUME RecordRejects PROVE LoopTypes' /\ Retrying'
    BY <1>22 DEF RecordRejects, TypeOK, Retrying, loop, LoopTypes, Places,
      Stages
<1>23. ASSUME Promote PROVE LoopTypes' /\ Retrying'
    BY <1>23 DEF Promote, TypeOK, Retrying, loop, LoopTypes, Places, Stages
<1>24. ASSUME ValidateDone PROVE LoopTypes' /\ Retrying'
    <2>1. pc \notin {"idle", "raise"}
      BY <1>24 DEF ValidateDone
    <2>2. "validate" \in Stages \ {"reconcile"}
      BY DEF Stages
    <2> QED
      BY <1>24, <2>1, <2>2, TableLoop, Lands DEF ValidateDone
<1>25. ASSUME SkipReferences PROVE LoopTypes' /\ Retrying'
    <2>1. "purge" \in Stages \ {"reconcile"} /\ "guard" \in Places \ {"retry"} /\ "purgeTable" \in Places \ {"retry"}
      BY DEF Stages, Places
    <2> QED
      BY <1>25, <2>1, DownLoop, EndLoop, Lands DEF SkipReferences
<1>26. ASSUME Guard PROVE LoopTypes' /\ Retrying'
    <2>1. "purge" \in Stages \ {"reconcile"} /\ "guard" \in Places \ {"retry"} /\ "purgeTable" \in Places \ {"retry"}
      BY DEF Stages, Places
    <2> QED
      BY <1>26, <2>1, DownLoop, EndLoop, Lands DEF Guard
<1>27. ASSUME DryRun PROVE LoopTypes' /\ Retrying'
    <2>1. "purge" \in Stages \ {"reconcile"} /\ "guard" \in Places \ {"retry"} /\ "purgeTable" \in Places \ {"retry"}
      BY DEF Stages, Places
    <2> QED
      BY <1>27, <2>1, DownLoop, EndLoop, Lands DEF DryRun, TableDone
<1>28. ASSUME BeginPurge PROVE LoopTypes' /\ Retrying'
    BY <1>28, SafeKeys DEF BeginPurge, TypeOK, Retrying, loop, LoopTypes,
      Places, Stages
<1>29. ASSUME RecoverIntent PROVE LoopTypes' /\ Retrying'
    BY <1>29 DEF RecoverIntent, TypeOK, Retrying, loop, LoopTypes, Places,
      Stages
<1>30. ASSUME NEW B \in Batches(todo), TakeBatch(B) PROVE LoopTypes' /\ Retrying'
    BY <1>30 DEF TakeBatch, TypeOK, Retrying, loop, LoopTypes, Batches,
      Places, Stages
<1>31. ASSUME WriteIntent PROVE LoopTypes' /\ Retrying'
    BY <1>31 DEF WriteIntent, TypeOK, Retrying, loop, LoopTypes, Places,
      Stages
<1>32. ASSUME DeleteCommitted PROVE LoopTypes' /\ Retrying'
    BY <1>32 DEF DeleteCommitted, TypeOK, Retrying, loop, LoopTypes,
      Places, Stages
<1>33. ASSUME CommitUnknown PROVE LoopTypes' /\ Retrying'
    BY <1>33 DEF CommitUnknown, TypeOK, Retrying, loop, LoopTypes, Places,
      Stages
<1>34. ASSUME DeleteRefused PROVE LoopTypes' /\ Retrying'
    BY <1>34 DEF DeleteRefused, TypeOK, Retrying, loop, LoopTypes, Places,
      Stages
<1>35. ASSUME DeleteTransient PROVE LoopTypes' /\ Retrying'
    BY <1>35 DEF DeleteTransient, TypeOK, Retrying, loop, LoopTypes,
      Places, Stages
<1>36. ASSUME MarkForRetry PROVE LoopTypes' /\ Retrying'
    BY <1>36 DEF MarkForRetry, TypeOK, Retrying, loop, LoopTypes, Places,
      Stages
<1>37. ASSUME MarkRolledBack PROVE LoopTypes' /\ Retrying'
    BY <1>37 DEF MarkRolledBack, TypeOK, Retrying, loop, LoopTypes, Places,
      Stages
<1>38. ASSUME AbortPurge PROVE LoopTypes' /\ Retrying'
    BY <1>38, Lands DEF AbortPurge
<1>39. ASSUME MarkPurged PROVE LoopTypes' /\ Retrying'
    BY <1>39 DEF MarkPurged, TypeOK, Retrying, loop, LoopTypes, Places,
      Stages
<1>40. ASSUME PurgeDone PROVE LoopTypes' /\ Retrying'
    <2>1. "purge" \in Stages \ {"reconcile"} /\ "guard" \in Places \ {"retry"} /\ "purgeTable" \in Places \ {"retry"}
      BY DEF Stages, Places
    <2> QED
      BY <1>40, <2>1, DownLoop, EndLoop, Lands DEF PurgeDone, TableDone
<1>41. ASSUME Closes PROVE LoopTypes' /\ Retrying'
    BY <1>41, Lands DEF Closes
<1>42. ASSUME DoesNotClose PROVE LoopTypes' /\ Retrying'
    BY <1>42, Lands DEF DoesNotClose
<1>43. ASSUME CleanUp PROVE LoopTypes' /\ Retrying'
    <2>1. tab \in Tables /\ (tab < NumTables => tab + 1 \in Tables)
      BY <1>43 DEF CleanUp, TypeOK
    <2> QED
      BY <1>43, <2>1, Lands DEF CleanUp
<1>44. ASSUME Close PROVE LoopTypes' /\ Retrying'
    BY <1>44, Lands DEF Close
<1>45. CASE UNCHANGED vars
    BY <1>45 DEF vars, LoopTypes, TypeOK, Retrying, loop
<1> QED
    BY <1>1, <1>2, <1>3, <1>4, <1>5, <1>6, <1>7, <1>8, <1>9, <1>10, <1>11,
      <1>12, <1>13, <1>14, <1>15, <1>16, <1>17, <1>18, <1>19, <1>20, <1>21,
      <1>22, <1>23, <1>24, <1>25, <1>26, <1>27, <1>28, <1>29, <1>30, <1>31,
      <1>32, <1>33, <1>34, <1>35, <1>36, <1>37, <1>38, <1>39, <1>40, <1>41,
      <1>42, <1>43, <1>44, <1>45 DEF Next, Job, Extract, Load, Validate,
      Purge, Reconcile

LEMMA TypesKept == TypeOK /\ Retrying /\ [Next]_vars => TypeOK' /\ Retrying'
  BY StoreKept, LoopKept, TypesSplitNext

LEMMA TypesBegin == Init => TypeOK /\ Retrying
<1> SUFFICES ASSUME Init PROVE TypeOK /\ Retrying
  OBVIOUS
<1>0. 0 \in 0 .. NumTables /\ 0 \in 0 .. MaxRetries /\ 0 \in 0 .. MaxFaults
  BY Params
<1>1. /\ pc = "idle" /\ pc \in Places
      /\ tab \in 0 .. NumTables /\ tries \in 0 .. MaxRetries
      /\ batch \subseteq Keys /\ todo \subseteq Keys /\ second \in BOOLEAN
  BY <1>0 DEF Init, Places
<1>2. LoopTypes /\ Retrying
  BY <1>1 DEF LoopTypes, Retrying
<1>3. ledger \in [Tables -> Counts]
  BY DEF Init, Counts, Count, NULL
<1>4. /\ purge \in BOOLEAN /\ partial \in BOOLEAN /\ all \in BOOLEAN
      /\ faults \in 0 .. MaxFaults
  BY <1>0, BoundsOK DEF Init, BoundsOK
<1>5. /\ source \in [Keys -> {"cold", "touched", "gone"}]
      /\ ext \in [Ranges -> {"none", "open", "done"}]
      /\ load \in [Ranges -> {"PENDING", "RUNNING", "DONE"}]
      /\ rejects \in [Keys -> {"none", "LOAD", "VALIDATE"}]
      /\ validation \in [Keys -> {"none", "VALIDATED", "FAILED"}]
      /\ arch \in [Keys -> {"none", "copy", "other"}]
      /\ audit \in [Keys -> {"none", "INTENDED", "PURGED", "ROLLED_BACK"}]
  BY DEF Init
<1>6. /\ migAudit \subseteq Keys /\ unload \subseteq Keys /\ staged \subseteq Keys
      /\ bad \subseteq Keys /\ status \in {"NONE", "RUNNING", "FAILED", "CLOSED"}
  BY DEF Init
<1>7. StoreTypes
  BY <1>3, <1>4, <1>5, <1>6 DEF StoreTypes
<1> QED
  BY <1>2, <1>7, TypesSplit

\* The variables keep their types (mig.* tables, run_stage).
THEOREM TypesCorrect == Spec => [](TypeOK /\ Retrying)
<1>1. Init => TypeOK /\ Retrying
  BY TypesBegin
<1>2. TypeOK /\ Retrying /\ [Next]_vars => TypeOK' /\ Retrying'
  BY TypesKept
<1> QED
  BY <1>1, <1>2, PTL DEF Spec

-----------------------------------------------------------------------------
AuditInv == IntentFirst /\ DeleteBeforeMark /\ NoMarkTwice /\ AuditsAgree

LEMMA GotoAudits ==
  ASSUME AuditInv, NEW p, NEW t, Goto(p, t), UNCHANGED <<migAudit, audit>>
  PROVE  AuditInv'
  BY DEF Goto, AuditInv, IntentFirst, DeleteBeforeMark, NoMarkTwice, AuditsAgree

LEMMA AuditsKept == TypeOK /\ AuditInv /\ [Next]_vars => AuditInv'
<1> SUFFICES ASSUME TypeOK, AuditInv, [Next]_vars PROVE AuditInv'
  OBVIOUS
<1>1. ASSUME NEW verb \in Stages \cup {"all"}, Start(verb) PROVE AuditInv'
    BY <1>1, GotoAudits DEF Start, atSource
<1>2. ASSUME MarkFailed PROVE AuditInv'
    BY <1>2, GotoAudits DEF MarkFailed, atSource
<1>3. ASSUME Stop PROVE AuditInv'
    BY <1>3, GotoAudits DEF Stop, atSource
<1>4. ASSUME NEW k0 \in Keys, TouchRow(k0) PROVE AuditInv'
    BY <1>4 DEF TouchRow, AuditInv, IntentFirst, DeleteBeforeMark,
      NoMarkTwice, AuditsAgree, AtBatch, Unsettled, InPurgeLoop, TypeOK,
      atSource, loop, Goto
<1>5. ASSUME NEW k0 \in Keys, RemoveRow(k0) PROVE AuditInv'
    BY <1>5 DEF RemoveRow, AuditInv, IntentFirst, DeleteBeforeMark,
      NoMarkTwice, AuditsAgree, AtBatch, Unsettled, InPurgeLoop, TypeOK,
      atSource, loop, Goto
<1>6. ASSUME NEW k0 \in Keys, Repair(k0) PROVE AuditInv'
    BY <1>6 DEF Repair, AuditInv, IntentFirst, DeleteBeforeMark,
      NoMarkTwice, AuditsAgree, AtBatch, Unsettled, InPurgeLoop, TypeOK,
      atSource, loop, Goto
<1>7. ASSUME PlanRanges PROVE AuditInv'
    BY <1>7 DEF PlanRanges, AuditInv, IntentFirst, DeleteBeforeMark,
      NoMarkTwice, AuditsAgree, AtBatch, Unsettled, InPurgeLoop, TypeOK,
      atSource, loop, Goto
<1>8. ASSUME NEW r \in Ranges, UnloadRange(r) PROVE AuditInv'
    BY <1>8 DEF UnloadRange, AuditInv, IntentFirst, DeleteBeforeMark,
      NoMarkTwice, AuditsAgree, AtBatch, Unsettled, InPurgeLoop, TypeOK,
      atSource, loop, Goto
<1>9. ASSUME ExtractDone PROVE AuditInv'
    BY <1>9, GotoAudits DEF ExtractDone, NextTable, EndStage, atSource
<1>10. ASSUME LoadRefused PROVE AuditInv'
    BY <1>10, GotoAudits DEF LoadRefused, Raises, atSource
<1>11. ASSUME NEW r \in Ranges, BeginRange(r) PROVE AuditInv'
    BY <1>11 DEF BeginRange, AuditInv, IntentFirst, DeleteBeforeMark,
      NoMarkTwice, AuditsAgree, AtBatch, Unsettled, InPurgeLoop, TypeOK,
      atSource, loop, Goto
<1>12. ASSUME NEW r \in Ranges, DropRejects(r) PROVE AuditInv'
    BY <1>12 DEF DropRejects, AuditInv, IntentFirst, DeleteBeforeMark,
      NoMarkTwice, AuditsAgree, AtBatch, Unsettled, InPurgeLoop, TypeOK,
      atSource, loop, Goto
<1>13. ASSUME NEW r \in Ranges, FinishRange(r) PROVE AuditInv'
    BY <1>13 DEF FinishRange, AuditInv, IntentFirst, DeleteBeforeMark,
      NoMarkTwice, AuditsAgree, AtBatch, Unsettled, InPurgeLoop, TypeOK,
      atSource, loop, Goto
<1>14. ASSUME NEW B \in Batches(todo), LoadBatch(B) PROVE AuditInv'
    BY <1>14 DEF LoadBatch, AuditInv, IntentFirst, DeleteBeforeMark,
      NoMarkTwice, AuditsAgree, AtBatch, Unsettled, InPurgeLoop, TypeOK,
      atSource, loop, Goto, Batches
<1>15. ASSUME WriteLoadRejects PROVE AuditInv'
    BY <1>15 DEF WriteLoadRejects, AuditInv, IntentFirst, DeleteBeforeMark,
      NoMarkTwice, AuditsAgree, AtBatch, Unsettled, InPurgeLoop, TypeOK,
      atSource, loop, Goto
<1>16. ASSUME LoadDone PROVE AuditInv'
    BY <1>16, GotoAudits DEF LoadDone, NextTable, EndStage, Raises,
      atSource
<1>17. ASSUME BeginValidate PROVE AuditInv'
    BY <1>17 DEF BeginValidate, AuditInv, IntentFirst, DeleteBeforeMark,
      NoMarkTwice, AuditsAgree, AtBatch, Unsettled, InPurgeLoop, TypeOK,
      atSource, loop, Goto
<1>18. ASSUME NEW B \in Batches(todo), JudgeBatch(B) PROVE AuditInv'
    BY <1>18 DEF JudgeBatch, AuditInv, IntentFirst, DeleteBeforeMark,
      NoMarkTwice, AuditsAgree, AtBatch, Unsettled, InPurgeLoop, TypeOK,
      atSource, loop, Goto
<1>19. ASSUME NEW B \in Batches(todo), FlipBatch(B) PROVE AuditInv'
    BY <1>19 DEF FlipBatch, AuditInv, IntentFirst, DeleteBeforeMark,
      NoMarkTwice, AuditsAgree, AtBatch, Unsettled, InPurgeLoop, TypeOK,
      atSource, loop, Goto
<1>20. ASSUME SecondPass PROVE AuditInv'
    BY <1>20 DEF SecondPass, AuditInv, IntentFirst, DeleteBeforeMark,
      NoMarkTwice, AuditsAgree, AtBatch, Unsettled, InPurgeLoop, TypeOK,
      atSource, loop, Goto
<1>21. ASSUME ClearRejects PROVE AuditInv'
    BY <1>21 DEF ClearRejects, AuditInv, IntentFirst, DeleteBeforeMark,
      NoMarkTwice, AuditsAgree, AtBatch, Unsettled, InPurgeLoop, TypeOK,
      atSource, loop, Goto
<1>22. ASSUME RecordRejects PROVE AuditInv'
    BY <1>22 DEF RecordRejects, AuditInv, IntentFirst, DeleteBeforeMark,
      NoMarkTwice, AuditsAgree, AtBatch, Unsettled, InPurgeLoop, TypeOK,
      atSource, loop, Goto
<1>23. ASSUME Promote PROVE AuditInv'
    BY <1>23 DEF Promote, AuditInv, IntentFirst, DeleteBeforeMark,
      NoMarkTwice, AuditsAgree, AtBatch, Unsettled, InPurgeLoop, TypeOK,
      atSource, loop, Goto
<1>24. ASSUME ValidateDone PROVE AuditInv'
    BY <1>24, GotoAudits DEF ValidateDone, NextTable, EndStage, Raises,
      atSource
<1>25. ASSUME SkipReferences PROVE AuditInv'
    BY <1>25, GotoAudits DEF SkipReferences, Descend, EndStage, atSource
<1>26. ASSUME Guard PROVE AuditInv'
    BY <1>26, GotoAudits DEF Guard, Descend, Raises, atSource
<1>27. ASSUME DryRun PROVE AuditInv'
    BY <1>27, GotoAudits DEF DryRun, TableDone, Descend, EndStage, atSource
<1>28. ASSUME BeginPurge PROVE AuditInv'
    BY <1>28 DEF BeginPurge, AuditInv, IntentFirst, DeleteBeforeMark,
      NoMarkTwice, AuditsAgree, AtBatch, Unsettled, InPurgeLoop, TypeOK,
      atSource, loop, Goto, PurgeSafe, Judged, Audited
<1>29. ASSUME RecoverIntent PROVE AuditInv'
    BY <1>29 DEF RecoverIntent, AuditInv, IntentFirst, DeleteBeforeMark,
      NoMarkTwice, AuditsAgree, AtBatch, Unsettled, InPurgeLoop, TypeOK,
      atSource, loop, Goto, Intended
<1>30. ASSUME NEW B \in Batches(todo), TakeBatch(B) PROVE AuditInv'
    BY <1>30 DEF TakeBatch, AuditInv, IntentFirst, DeleteBeforeMark,
      NoMarkTwice, AuditsAgree, AtBatch, Unsettled, InPurgeLoop, TypeOK,
      atSource, loop, Goto, Batches
<1>31. ASSUME WriteIntent PROVE AuditInv'
    BY <1>31 DEF WriteIntent, AuditInv, IntentFirst, DeleteBeforeMark,
      NoMarkTwice, AuditsAgree, AtBatch, Unsettled, InPurgeLoop, TypeOK,
      atSource, loop, Goto, Intended
<1>32. ASSUME DeleteCommitted PROVE AuditInv'
    BY <1>32 DEF DeleteCommitted, AuditInv, IntentFirst, DeleteBeforeMark,
      NoMarkTwice, AuditsAgree, AtBatch, Unsettled, InPurgeLoop, TypeOK,
      atSource, loop, Goto, CommitDelete
<1>33. ASSUME CommitUnknown PROVE AuditInv'
    BY <1>33 DEF CommitUnknown, AuditInv, IntentFirst, DeleteBeforeMark,
      NoMarkTwice, AuditsAgree, AtBatch, Unsettled, InPurgeLoop, TypeOK,
      atSource, loop, Goto, CommitDelete
<1>34. ASSUME DeleteRefused PROVE AuditInv'
    BY <1>34 DEF DeleteRefused, AuditInv, IntentFirst, DeleteBeforeMark,
      NoMarkTwice, AuditsAgree, AtBatch, Unsettled, InPurgeLoop, TypeOK,
      atSource, loop, Goto
<1>35. ASSUME DeleteTransient PROVE AuditInv'
    BY <1>35 DEF DeleteTransient, AuditInv, IntentFirst, DeleteBeforeMark,
      NoMarkTwice, AuditsAgree, AtBatch, Unsettled, InPurgeLoop, TypeOK,
      atSource, loop, Goto
<1>36. ASSUME MarkForRetry PROVE AuditInv'
    BY <1>36 DEF MarkForRetry, AuditInv, IntentFirst, DeleteBeforeMark,
      NoMarkTwice, AuditsAgree, AtBatch, Unsettled, InPurgeLoop, TypeOK,
      atSource, loop, Goto, Marked
<1>37. ASSUME MarkRolledBack PROVE AuditInv'
    BY <1>37 DEF MarkRolledBack, AuditInv, IntentFirst, DeleteBeforeMark,
      NoMarkTwice, AuditsAgree, AtBatch, Unsettled, InPurgeLoop, TypeOK,
      atSource, loop, Goto, Marked
<1>38. ASSUME AbortPurge PROVE AuditInv'
    BY <1>38, GotoAudits DEF AbortPurge, Raises, atSource
<1>39. ASSUME MarkPurged PROVE AuditInv'
    BY <1>39 DEF MarkPurged, AuditInv, IntentFirst, DeleteBeforeMark,
      NoMarkTwice, AuditsAgree, AtBatch, Unsettled, InPurgeLoop, TypeOK,
      atSource, loop, Goto, Marked
<1>40. ASSUME PurgeDone PROVE AuditInv'
    BY <1>40, GotoAudits DEF PurgeDone, TableDone, Descend, EndStage,
      Raises, atSource
<1>41. ASSUME Closes PROVE AuditInv'
    BY <1>41, GotoAudits DEF Closes, atSource
<1>42. ASSUME DoesNotClose PROVE AuditInv'
    BY <1>42, GotoAudits DEF DoesNotClose, Raises, atSource
<1>43. ASSUME CleanUp PROVE AuditInv'
    BY <1>43, GotoAudits DEF CleanUp, atSource
<1>44. ASSUME Close PROVE AuditInv'
    BY <1>44, GotoAudits DEF Close, atSource
<1>45. CASE UNCHANGED vars
    BY <1>45 DEF vars, AuditInv, IntentFirst, DeleteBeforeMark,
      NoMarkTwice, AuditsAgree, AtBatch, Unsettled, InPurgeLoop, TypeOK,
      atSource, loop, Goto
<1> QED
    BY <1>1, <1>2, <1>3, <1>4, <1>5, <1>6, <1>7, <1>8, <1>9, <1>10, <1>11,
      <1>12, <1>13, <1>14, <1>15, <1>16, <1>17, <1>18, <1>19, <1>20, <1>21,
      <1>22, <1>23, <1>24, <1>25, <1>26, <1>27, <1>28, <1>29, <1>30, <1>31,
      <1>32, <1>33, <1>34, <1>35, <1>36, <1>37, <1>38, <1>39, <1>40, <1>41,
      <1>42, <1>43, <1>44, <1>45 DEF Next, Job, Extract, Load, Validate,
      Purge, Reconcile

LEMMA AuditInvariant == Spec => [](TypeOK /\ AuditInv)
<1>1. Init => TypeOK /\ Retrying /\ AuditInv
  BY TypesBegin DEF Init, AuditInv, IntentFirst, DeleteBeforeMark, NoMarkTwice,
     AuditsAgree, AtBatch, Unsettled, InPurgeLoop
<1>2. TypeOK /\ Retrying /\ AuditInv /\ [Next]_vars
        => (TypeOK /\ Retrying /\ AuditInv)'
  BY TypesKept, AuditsKept
<1> QED
  BY <1>1, <1>2, PTL DEF Spec

\* The two audits agree, whichever of the calls between them fails.
THEOREM AuditsAlwaysAgree == Spec => []AuditsAgree
<1>1. AuditInv => AuditsAgree
  BY DEF AuditInv
<1> QED
  BY <1>1, AuditInvariant, PTL

LEMMA MarksKept ==
  ASSUME TypeOK, AuditInv, [Next]_vars, NEW k \in Keys, audit[k] = "PURGED"
  PROVE  audit'[k] = "PURGED"
<1>1. CASE UNCHANGED audit
  BY <1>1
<1>2. CASE RecoverIntent \/ WriteIntent
  BY <1>2 DEF RecoverIntent, WriteIntent, Intended
<1>3. CASE MarkForRetry \/ MarkRolledBack
  BY <1>3 DEF MarkForRetry, MarkRolledBack, Marked, AuditInv, NoMarkTwice, Unsettled
<1>4. CASE MarkPurged
  BY <1>4 DEF MarkPurged, Marked
<1>5. UNCHANGED audit \/ RecoverIntent \/ WriteIntent \/ MarkForRetry
        \/ MarkRolledBack \/ MarkPurged
  BY DEF Next, Job, Extract, Load, Validate, Purge, Reconcile, vars, Start,
    MarkFailed, Stop, TouchRow, RemoveRow, Repair, PlanRanges, UnloadRange,
    ExtractDone, LoadRefused, BeginRange, DropRejects, FinishRange,
    LoadBatch, WriteLoadRejects, LoadDone, BeginValidate, JudgeBatch,
    FlipBatch, SecondPass, ClearRejects, RecordRejects, Promote,
    ValidateDone, SkipReferences, Guard, DryRun, BeginPurge, TakeBatch,
    DeleteCommitted, CommitUnknown, DeleteRefused, DeleteTransient,
    AbortPurge, PurgeDone, Closes, DoesNotClose, CleanUp, Close
<1> QED
  BY <1>1, <1>2, <1>3, <1>4, <1>5

\* No later verb takes the mark PURGED back from a key.
THEOREM MarksAreForGood == Spec => PurgedForGood
<1>1. TypeOK /\ AuditInv /\ [Next]_vars
        => [\A k \in Keys : audit[k] = "PURGED" => audit'[k] = "PURGED"]_vars
  BY MarksKept
<1> QED
  BY <1>1, AuditInvariant, PTL DEF Spec, PurgedForGood

-----------------------------------------------------------------------------
GuardInv == Guarded /\ LoopsOverSafe

LEMMA SafeStays == UNCHANGED validation => \A t : PurgeSafe(t)' = PurgeSafe(t)
  BY DEF PurgeSafe, Judged

LEMMA AgreesStays ==
  ASSUME TypeOK, UNCHANGED validation,
         ledger' = ledger
           \/ \E n \in Nat : \/ ledger' = [ledger EXCEPT ![tab].intended = n]
                             \/ ledger' = [ledger EXCEPT ![tab].purged = n]
  PROVE  \A t \in DataTables : Agrees(t) => Agrees(t)'
<1> SUFFICES ASSUME NEW t \in DataTables, Agrees(t) PROVE Agrees(t)'
  OBVIOUS
<1>1. ledger'[t].validated = ledger[t].validated
  BY DEF TypeOK, Counts, DataTables
<1>2. PurgeSafe(t)' = PurgeSafe(t)
  BY SafeStays
<1> QED
  BY <1>1, <1>2 DEF Agrees

LEMMA SafeAgrees == TypeOK /\ UNCHANGED <<validation, ledger>>
                      => \A t \in DataTables : Agrees(t) => Agrees(t)'
  BY AgreesStays

LEMMA GuardKept == TypeOK /\ GuardInv /\ [Next]_vars => GuardInv'
<1> SUFFICES ASSUME TypeOK, GuardInv, [Next]_vars PROVE GuardInv'
  OBVIOUS
<1> USE Sizes, SafeKeys
<1>1. ASSUME NEW verb \in Stages \cup {"all"}, Start(verb) PROVE GuardInv'
    BY <1>1 DEF Start, GuardInv, Guarded, LoopsOverSafe, InPurgeLoop,
      Unsettled, loop, verdicts, Goto, Stages
<1>2. ASSUME MarkFailed PROVE GuardInv'
    BY <1>2 DEF MarkFailed, GuardInv, Guarded, LoopsOverSafe, InPurgeLoop,
      Unsettled, loop, verdicts, Goto
<1>3. ASSUME Stop PROVE GuardInv'
    BY <1>3 DEF Stop, GuardInv, Guarded, LoopsOverSafe, InPurgeLoop,
      Unsettled, loop, verdicts, Goto
<1>4. ASSUME NEW k0 \in Keys, TouchRow(k0) PROVE GuardInv'
    BY <1>4, SafeStays, SafeAgrees DEF TouchRow, GuardInv, Guarded,
      LoopsOverSafe, InPurgeLoop, Unsettled, loop, verdicts
<1>5. ASSUME NEW k0 \in Keys, RemoveRow(k0) PROVE GuardInv'
    BY <1>5, SafeStays, SafeAgrees DEF RemoveRow, GuardInv, Guarded,
      LoopsOverSafe, InPurgeLoop, Unsettled, loop, verdicts
<1>6. ASSUME NEW k0 \in Keys, Repair(k0) PROVE GuardInv'
    BY <1>6, SafeStays, SafeAgrees DEF Repair, GuardInv, Guarded,
      LoopsOverSafe, InPurgeLoop, Unsettled, loop, verdicts
<1>7. ASSUME PlanRanges PROVE GuardInv'
    BY <1>7 DEF PlanRanges, GuardInv, Guarded, LoopsOverSafe, InPurgeLoop,
      Unsettled, loop, verdicts
<1>8. ASSUME NEW r \in Ranges, UnloadRange(r) PROVE GuardInv'
    BY <1>8 DEF UnloadRange, GuardInv, Guarded, LoopsOverSafe, InPurgeLoop,
      Unsettled, loop, verdicts
<1>9. ASSUME ExtractDone PROVE GuardInv'
    BY <1>9 DEF ExtractDone, GuardInv, Guarded, LoopsOverSafe, InPurgeLoop,
      Unsettled, loop, verdicts, Goto, NextTable, EndStage, Follows
<1>10. ASSUME LoadRefused PROVE GuardInv'
    BY <1>10 DEF LoadRefused, GuardInv, Guarded, LoopsOverSafe,
      InPurgeLoop, Unsettled, loop, verdicts, Goto, Raises
<1>11. ASSUME NEW r \in Ranges, BeginRange(r) PROVE GuardInv'
    BY <1>11 DEF BeginRange, GuardInv, Guarded, LoopsOverSafe, InPurgeLoop,
      Unsettled, loop, verdicts
<1>12. ASSUME NEW r \in Ranges, DropRejects(r) PROVE GuardInv'
    BY <1>12 DEF DropRejects, GuardInv, Guarded, LoopsOverSafe,
      InPurgeLoop, Unsettled, loop, verdicts
<1>13. ASSUME NEW r \in Ranges, FinishRange(r) PROVE GuardInv'
    BY <1>13 DEF FinishRange, GuardInv, Guarded, LoopsOverSafe,
      InPurgeLoop, Unsettled, loop, verdicts
<1>14. ASSUME NEW B \in Batches(todo), LoadBatch(B) PROVE GuardInv'
    BY <1>14 DEF LoadBatch, GuardInv, Guarded, LoopsOverSafe, InPurgeLoop,
      Unsettled, loop, verdicts
<1>15. ASSUME WriteLoadRejects PROVE GuardInv'
    BY <1>15 DEF WriteLoadRejects, GuardInv, Guarded, LoopsOverSafe,
      InPurgeLoop, Unsettled, loop, verdicts
<1>16. ASSUME LoadDone PROVE GuardInv'
    BY <1>16 DEF LoadDone, GuardInv, Guarded, LoopsOverSafe, InPurgeLoop,
      Unsettled, loop, verdicts, Goto, NextTable, EndStage, Raises, Follows
<1>17. ASSUME BeginValidate PROVE GuardInv'
    BY <1>17 DEF BeginValidate, GuardInv, Guarded, LoopsOverSafe,
      InPurgeLoop, Unsettled, loop, verdicts
<1>18. ASSUME NEW B \in Batches(todo), JudgeBatch(B) PROVE GuardInv'
    BY <1>18 DEF JudgeBatch, GuardInv, Guarded, LoopsOverSafe, InPurgeLoop,
      Unsettled, loop, verdicts
<1>19. ASSUME NEW B \in Batches(todo), FlipBatch(B) PROVE GuardInv'
    BY <1>19 DEF FlipBatch, GuardInv, Guarded, LoopsOverSafe, InPurgeLoop,
      Unsettled, loop, verdicts
<1>20. ASSUME SecondPass PROVE GuardInv'
    BY <1>20 DEF SecondPass, GuardInv, Guarded, LoopsOverSafe, InPurgeLoop,
      Unsettled, loop, verdicts
<1>21. ASSUME ClearRejects PROVE GuardInv'
    BY <1>21 DEF ClearRejects, GuardInv, Guarded, LoopsOverSafe,
      InPurgeLoop, Unsettled, loop, verdicts
<1>22. ASSUME RecordRejects PROVE GuardInv'
    BY <1>22 DEF RecordRejects, GuardInv, Guarded, LoopsOverSafe,
      InPurgeLoop, Unsettled, loop, verdicts
<1>23. ASSUME Promote PROVE GuardInv'
    BY <1>23 DEF Promote, GuardInv, Guarded, LoopsOverSafe, InPurgeLoop,
      Unsettled, loop, verdicts
<1>24. ASSUME ValidateDone PROVE GuardInv'
    BY <1>24 DEF ValidateDone, GuardInv, Guarded, LoopsOverSafe,
      InPurgeLoop, Unsettled, loop, verdicts, Goto, NextTable, EndStage,
      Raises, Follows
<1>25. ASSUME SkipReferences PROVE GuardInv'
    <2>1. ASSUME EndStage("purge") PROVE GuardInv'
      BY <2>1 DEF EndStage, Follows, Goto, GuardInv, Guarded, LoopsOverSafe, InPurgeLoop, Unsettled
    <2>2. ASSUME Descend("guard", NumTables + 1) PROVE GuardInv'
      <3>1. PICK u \in Below(NumTables + 1) :
              /\ \A v \in Below(NumTables + 1) : v <= u
              /\ Goto("guard", u)
        BY <2>2 DEF Descend
      <3>2. \A t \in DataTables : ~(t > u)
        BY <3>1, Params DEF Below, DataTables, Tables
      <3> QED
        BY <3>1, <3>2 DEF Goto, GuardInv, Guarded, LoopsOverSafe, InPurgeLoop, Unsettled
    <2> QED
      BY <1>25, <2>1, <2>2 DEF SkipReferences
<1>26. ASSUME Guard PROVE GuardInv'
    <2>1. ASSUME Raises PROVE GuardInv'
      BY <2>1 DEF Raises, Goto, GuardInv, Guarded, LoopsOverSafe, InPurgeLoop, Unsettled
    <2>2. \A t \in DataTables : t >= tab => Agrees(t)' \/ Raises
      <3>1. \A t \in DataTables : t > tab => Agrees(t)
        BY <1>26 DEF Guard, GuardInv, Guarded
      <3>2. Agrees(tab) \/ Raises
        BY <1>26 DEF Guard, Agrees
      <3>3. \A t \in DataTables : Agrees(t) => Agrees(t)'
        BY <1>26, AgreesStays DEF Guard, verdicts
      <3>4. \A t \in DataTables : t >= tab => t = tab \/ t > tab
        BY DEF DataTables, Tables, TypeOK
      <3> QED
        BY <3>1, <3>2, <3>3, <3>4
    <2>3. ASSUME Descend("guard", tab), ~Raises PROVE GuardInv'
      <3>1. PICK u \in Below(tab) : /\ \A v \in Below(tab) : v <= u
                                   /\ Goto("guard", u)
        BY <2>3 DEF Descend
      <3>2. \A t \in DataTables : t > u => t >= tab
        BY <3>1 DEF Below, DataTables, Tables, TypeOK
      <3> QED
        BY <2>2, <2>3, <3>1, <3>2 DEF Goto, GuardInv, Guarded, LoopsOverSafe, InPurgeLoop, Unsettled
    <2>4. ASSUME Below(tab) = {}, Descend("purgeTable", NumTables + 1), ~Raises PROVE GuardInv'
      <3>1. \A t \in DataTables : t >= tab
        BY <2>4 DEF Below, DataTables, Tables, TypeOK
      <3>2. \A t \in DataTables : Agrees(t)'
        BY <2>2, <2>4, <3>1
      <3> QED
        BY <2>4, <3>2 DEF Descend, Goto, GuardInv, Guarded, LoopsOverSafe, InPurgeLoop, Unsettled
    <2> QED
      BY <1>26, <2>1, <2>3, <2>4 DEF Guard
<1>27. ASSUME DryRun PROVE GuardInv'
    <2>1. \A t \in DataTables : Agrees(t)
      BY <1>27 DEF DryRun, GuardInv, Guarded, InPurgeLoop
    <2>2. \A t \in DataTables : Agrees(t)'
      BY <1>27, <2>1, AgreesStays DEF DryRun, verdicts
    <2> QED
      BY <1>27, <2>2 DEF DryRun, TableDone, Raises, Descend, EndStage, Follows, Goto, GuardInv, Guarded, LoopsOverSafe, InPurgeLoop, Unsettled
<1>28. ASSUME BeginPurge PROVE GuardInv'
    BY <1>28, SafeStays, SafeAgrees DEF BeginPurge, GuardInv, Guarded,
      LoopsOverSafe, InPurgeLoop, Unsettled, loop, verdicts
<1>29. ASSUME RecoverIntent PROVE GuardInv'
    BY <1>29, SafeStays, SafeAgrees DEF RecoverIntent, GuardInv, Guarded,
      LoopsOverSafe, InPurgeLoop, Unsettled, loop, verdicts
<1>30. ASSUME NEW B \in Batches(todo), TakeBatch(B) PROVE GuardInv'
    BY <1>30, SafeStays, SafeAgrees DEF TakeBatch, GuardInv, Guarded,
      LoopsOverSafe, InPurgeLoop, Unsettled, loop, verdicts, Batches
<1>31. ASSUME WriteIntent PROVE GuardInv'
    BY <1>31, SafeStays, SafeAgrees DEF WriteIntent, GuardInv, Guarded,
      LoopsOverSafe, InPurgeLoop, Unsettled, loop, verdicts
<1>32. ASSUME DeleteCommitted PROVE GuardInv'
    BY <1>32, SafeStays, SafeAgrees DEF DeleteCommitted, GuardInv, Guarded,
      LoopsOverSafe, InPurgeLoop, Unsettled, loop, verdicts
<1>33. ASSUME CommitUnknown PROVE GuardInv'
    BY <1>33, SafeStays, SafeAgrees DEF CommitUnknown, GuardInv, Guarded,
      LoopsOverSafe, InPurgeLoop, Unsettled, loop, verdicts
<1>34. ASSUME DeleteRefused PROVE GuardInv'
    BY <1>34, SafeStays, SafeAgrees DEF DeleteRefused, GuardInv, Guarded,
      LoopsOverSafe, InPurgeLoop, Unsettled, loop, verdicts
<1>35. ASSUME DeleteTransient PROVE GuardInv'
    BY <1>35, SafeStays, SafeAgrees DEF DeleteTransient, GuardInv, Guarded,
      LoopsOverSafe, InPurgeLoop, Unsettled, loop, verdicts
<1>36. ASSUME MarkForRetry PROVE GuardInv'
    BY <1>36, SafeStays, SafeAgrees DEF MarkForRetry, GuardInv, Guarded,
      LoopsOverSafe, InPurgeLoop, Unsettled, loop, verdicts
<1>37. ASSUME MarkRolledBack PROVE GuardInv'
    BY <1>37, SafeStays, SafeAgrees DEF MarkRolledBack, GuardInv, Guarded,
      LoopsOverSafe, InPurgeLoop, Unsettled, loop, verdicts
<1>38. ASSUME AbortPurge PROVE GuardInv'
    BY <1>38 DEF AbortPurge, GuardInv, Guarded, LoopsOverSafe, InPurgeLoop,
      Unsettled, loop, verdicts, Goto, Raises
<1>39. ASSUME MarkPurged PROVE GuardInv'
    BY <1>39, SafeStays, SafeAgrees DEF MarkPurged, GuardInv, Guarded,
      LoopsOverSafe, InPurgeLoop, Unsettled, loop, verdicts
<1>40. ASSUME PurgeDone PROVE GuardInv'
    <2>1. \A t \in DataTables : Agrees(t)
      BY <1>40 DEF PurgeDone, GuardInv, Guarded, InPurgeLoop
    <2>2. \A t \in DataTables : Agrees(t)'
      BY <1>40, <2>1, AgreesStays DEF PurgeDone, verdicts, Audited, RowsOf
    <2> QED
      BY <1>40, <2>2 DEF PurgeDone, TableDone, Raises, Descend, EndStage, Follows, Goto, GuardInv, Guarded, LoopsOverSafe, InPurgeLoop, Unsettled
<1>41. ASSUME Closes PROVE GuardInv'
    BY <1>41 DEF Closes, GuardInv, Guarded, LoopsOverSafe, InPurgeLoop,
      Unsettled, loop, verdicts, Goto
<1>42. ASSUME DoesNotClose PROVE GuardInv'
    BY <1>42 DEF DoesNotClose, GuardInv, Guarded, LoopsOverSafe,
      InPurgeLoop, Unsettled, loop, verdicts, Goto, Raises
<1>43. ASSUME CleanUp PROVE GuardInv'
    BY <1>43 DEF CleanUp, GuardInv, Guarded, LoopsOverSafe, InPurgeLoop,
      Unsettled, loop, verdicts, Goto
<1>44. ASSUME Close PROVE GuardInv'
    BY <1>44 DEF Close, GuardInv, Guarded, LoopsOverSafe, InPurgeLoop,
      Unsettled, loop, verdicts, Goto
<1>45. CASE UNCHANGED vars
    BY <1>45, SafeStays, SafeAgrees DEF vars, GuardInv, Guarded, LoopsOverSafe, InPurgeLoop,
      Unsettled, loop, verdicts
<1> QED
    BY <1>1, <1>2, <1>3, <1>4, <1>5, <1>6, <1>7, <1>8, <1>9, <1>10, <1>11,
      <1>12, <1>13, <1>14, <1>15, <1>16, <1>17, <1>18, <1>19, <1>20, <1>21,
      <1>22, <1>23, <1>24, <1>25, <1>26, <1>27, <1>28, <1>29, <1>30, <1>31,
      <1>32, <1>33, <1>34, <1>35, <1>36, <1>37, <1>38, <1>39, <1>40, <1>41,
      <1>42, <1>43, <1>44, <1>45 DEF Next, Job, Extract, Load, Validate,
      Purge, Reconcile

LEMMA GuardInvariant == Spec => [](TypeOK /\ GuardInv)
<1>1. Init => TypeOK /\ Retrying /\ GuardInv
  BY TypesBegin DEF Init, GuardInv, Guarded, LoopsOverSafe, Unsettled, InPurgeLoop
<1>2. TypeOK /\ Retrying /\ GuardInv /\ [Next]_vars
        => (TypeOK /\ Retrying /\ GuardInv)'
  BY TypesKept, GuardKept
<1> QED
  BY <1>1, <1>2, PTL DEF Spec

LEMMA DeleteOnly ==
  ASSUME [Next]_vars, migAudit' # migAudit
  PROVE  DeleteCommitted \/ CommitUnknown
  BY DEF Next, Job, Extract, Load, Validate, Purge, Reconcile, vars,
    atSource, Start, MarkFailed, Stop, TouchRow, RemoveRow, Repair,
    PlanRanges, UnloadRange, ExtractDone, LoadRefused, BeginRange,
    DropRejects, FinishRange, LoadBatch, WriteLoadRejects, LoadDone,
    BeginValidate, JudgeBatch, FlipBatch, SecondPass, ClearRejects,
    RecordRejects, Promote, ValidateDone, SkipReferences, Guard, DryRun,
    BeginPurge, RecoverIntent, TakeBatch, WriteIntent, DeleteRefused,
    DeleteTransient, MarkForRetry, MarkRolledBack, AbortPurge, MarkPurged,
    PurgeDone, Closes, DoesNotClose, CleanUp, Close

LEMMA DeletesGuarded ==
  ASSUME TypeOK, GuardInv, [Next]_vars, migAudit' # migAudit
  PROVE  \A t \in DataTables : Cardinality(PurgeSafe(t)) = ledger[t].validated
<1>1. DeleteCommitted \/ CommitUnknown
  BY DeleteOnly
<1>2. pc = "deleting"
  BY <1>1 DEF DeleteCommitted, CommitUnknown
<1> QED
  BY <1>2 DEF GuardInv, Guarded, InPurgeLoop, Unsettled, Agrees

\* No row is deleted at the source while the guard of some data table fails.
THEOREM GuardsStopEverything == Spec => GuardStopsEverything
<1>1. TypeOK /\ GuardInv /\ [Next]_vars
        => [migAudit' # migAudit =>
              \A t \in DataTables :
                Cardinality(PurgeSafe(t)) = ledger[t].validated]_vars
  BY DeletesGuarded
<1> QED
  BY <1>1, GuardInvariant, PTL DEF Spec, GuardStopsEverything

-----------------------------------------------------------------------------
\* What may be deleted at all.
LoopsMayPurge == pc \in InPurgeLoop => purge

LEMMA PurgeEntered ==
  ASSUME TypeOK, [Next]_vars, pc' \in InPurgeLoop
  PROVE  /\ pc \in InPurgeLoop \/ BeginPurge
         /\ UNCHANGED purge
<1>1. UNCHANGED purge
  BY DEF Next, Job, Extract, Load, Validate, Purge, Reconcile, vars, run,
    Start, MarkFailed, Stop, TouchRow, RemoveRow, Repair,
    PlanRanges, UnloadRange, ExtractDone, LoadRefused, BeginRange,
    DropRejects, FinishRange, LoadBatch, WriteLoadRejects, LoadDone,
    BeginValidate, JudgeBatch, FlipBatch, SecondPass, ClearRejects,
    RecordRejects, Promote, ValidateDone, SkipReferences, Guard, DryRun,
    BeginPurge, RecoverIntent, TakeBatch, WriteIntent, DeleteCommitted,
    CommitUnknown, DeleteRefused, DeleteTransient, MarkForRetry,
    MarkRolledBack, AbortPurge, MarkPurged, PurgeDone, Closes, DoesNotClose,
    CleanUp, Close
<1>2. pc \in InPurgeLoop \/ BeginPurge
  <2>1. ASSUME UNCHANGED vars \/ (\E k \in Keys : TouchRow(k) \/ RemoveRow(k) \/ Repair(k))
        PROVE  pc \in InPurgeLoop
    BY <2>1 DEF vars, TouchRow, RemoveRow, Repair
  <2>2. ~(MarkFailed \/ Stop \/ \E verb \in Stages \cup {"all"} : Start(verb))
    BY DEF MarkFailed, Stop, Start, Goto, Stages, InPurgeLoop, Unsettled
  <2>3. ~Extract
    BY DEF Extract, PlanRanges, UnloadRange, ExtractDone, NextTable, EndStage, Follows, Goto,
      InPurgeLoop, Unsettled
  <2>4. ~Load
    BY DEF Load, LoadRefused, BeginRange, DropRejects, FinishRange, LoadBatch, WriteLoadRejects,
      LoadDone, NextTable, EndStage, Follows, Raises, Goto, InPurgeLoop, Unsettled
  <2>5. ~Validate
    BY DEF Validate, BeginValidate, JudgeBatch, FlipBatch, SecondPass, ClearRejects, RecordRejects,
      Promote, ValidateDone, NextTable, EndStage, Follows, Raises, Goto, InPurgeLoop, Unsettled
  <2>6. ~Reconcile
    BY DEF Reconcile, Closes, DoesNotClose, CleanUp, Close, Raises, Goto, InPurgeLoop, Unsettled
  <2>7. Purge => pc \in InPurgeLoop \/ BeginPurge
    BY DEF Purge, SkipReferences, Guard, DryRun, TableDone, Descend, EndStage, Follows, Raises, Goto,
      RecoverIntent, TakeBatch, WriteIntent, DeleteCommitted, CommitUnknown, DeleteRefused,
      DeleteTransient, MarkForRetry, MarkRolledBack, AbortPurge, MarkPurged, PurgeDone, InPurgeLoop,
      Unsettled
  <2> QED
    BY <2>1, <2>2, <2>3, <2>4, <2>5, <2>6, <2>7 DEF Next, Job
<1> QED
  BY <1>1, <1>2

LEMMA MayPurgeKept == TypeOK /\ LoopsMayPurge /\ [Next]_vars => LoopsMayPurge'
  BY PurgeEntered DEF LoopsMayPurge, BeginPurge

\* A run whose overlay does not say "purge: true" deletes nothing, and no run
\* deletes a row of a reference table, whichever verbs are run in whichever order
\* and wherever they stop (purge.run, purge_table).
OnlyWhatMayGo == [][
  migAudit' # migAudit =>
    purge /\ \A k \in migAudit' \ migAudit : TableOf(k) \notin Reference]_vars

THEOREM OnlyWhatMayGoCorrect == Spec => OnlyWhatMayGo
<1>1. TypeOK /\ GuardInv /\ LoopsMayPurge /\ [Next]_vars
        => [migAudit' # migAudit =>
              purge /\ \A k \in migAudit' \ migAudit : TableOf(k) \notin Reference]_vars
  <2> SUFFICES ASSUME TypeOK, GuardInv, LoopsMayPurge, [Next]_vars, migAudit' # migAudit
               PROVE  purge /\ \A k \in migAudit' \ migAudit : TableOf(k) \notin Reference
    OBVIOUS
  <2>1. pc = "deleting" /\ migAudit' = migAudit \cup batch
    BY DeleteOnly DEF DeleteCommitted, CommitUnknown, CommitDelete
  <2>2. batch \subseteq PurgeSafe(tab)
    BY <2>1 DEF GuardInv, LoopsOverSafe, InPurgeLoop, Unsettled
  <2>3. \A k \in batch : TableOf(k) \in DataTables
    BY <2>2 DEF PurgeSafe, Judged, RowsOf
  <2> QED
    BY <2>1, <2>3 DEF LoopsMayPurge, InPurgeLoop, Unsettled, DataTables
<1>2. Spec => [](TypeOK /\ LoopsMayPurge)
  <2>1. Init => TypeOK /\ Retrying /\ LoopsMayPurge
    BY TypesBegin DEF Init, LoopsMayPurge, InPurgeLoop, Unsettled
  <2>2. TypeOK /\ Retrying /\ LoopsMayPurge /\ [Next]_vars
          => (TypeOK /\ Retrying /\ LoopsMayPurge)'
    BY TypesKept, MayPurgeKept
  <2> QED
    BY <2>1, <2>2, PTL DEF Spec
<1> QED
  BY <1>1, <1>2, GuardInvariant, PTL DEF Spec, OnlyWhatMayGo
=============================================================================
