------------------------------ MODULE MigrationJob ------------------------------
(***************************************************************************)
(* The legacy data migration job (ldm): it copies selected rows of a       *)
(* source database into an archive through staging tables, checks every    *)
(* copy, deletes the source rows and closes the books.  One process at a   *)
(* time; every driver call commits on its own, so the process may stop     *)
(* between any two of them, and an operator then runs any stage again.     *)
(*                                                                         *)
(* A row is its key.  Its copies are a member of a set or not: a range     *)
(* file, once DONE, never changes, so a copy is the copy in the file.      *)
(***************************************************************************)
EXTENDS Integers, FiniteSets

CONSTANTS
  NumTables,      \* tables of the manifest, in its order: parents first
  Reference,      \* tables of role "reference": migrated, never purged
  Keys,           \* keys of the rows selected when the run begins
  Ranges,         \* key ranges, numbered in key order
  RangeTable,     \* RangeTable[r]: the table of range r
  RangeOf,        \* RangeOf[k]: the range that holds row k
  ParentOf,       \* ParentOf[k]: the row that k refers to, or None
  Policy,         \* Policy[k]: reference row that maps the class of k, or None
  RawClass,       \* RawClass[k]: class of k at the source, unmapped
  NewClass,       \* NewClass[k]: the class Policy[k] maps it to
  TargetClass,    \* TargetClass[k]: class of the staged copy of k
  None,           \* no row
  Summed,         \* tables with class_totals.sum_columns
  Charged,        \* rows whose hash, if it differs, differs in such a column
  Suspect,        \* rows whose two hashes may differ
  Rejectable,     \* rows that LOAD may reject
  MayBeArchived,  \* rows an earlier run may have archived
  Mutable,        \* rows the application may still touch or remove
  PurgeFlags,     \* values the overlay's purge flag may have
  BatchRows,      \* most rows of a batch
  MaxRetries,     \* batch.purge_retry_attempts
  MaxFaults       \* bound on crashes, failed calls and changed source rows

Tables == 1 .. NumTables

TableOf(k) == RangeTable[RangeOf[k]]

ASSUME ManifestOK ==
  /\ NumTables \in Nat \ {0}
  /\ Reference \subseteq Tables
  /\ IsFiniteSet(Keys)
  /\ None \notin Keys
  /\ Ranges \subseteq Nat
  /\ RangeTable \in [Ranges -> Tables]
  /\ RangeOf \in [Keys -> Ranges]
  /\ ParentOf \in [Keys -> Keys \cup {None}]
  /\ \A k \in Keys : ParentOf[k] # None =>
        /\ TableOf(ParentOf[k]) < TableOf(k)
        /\ TableOf(ParentOf[k]) \notin Reference
  /\ Policy \in [Keys -> Keys \cup {None}]
  /\ DOMAIN RawClass = Keys
  /\ DOMAIN NewClass = Keys
  /\ DOMAIN TargetClass = Keys

ASSUME BoundsOK == /\ PurgeFlags \subseteq BOOLEAN
                   /\ BatchRows \in Nat \ {0}
                   /\ MaxRetries \in Nat
                   /\ MaxFaults \in Nat

VARIABLES
  source,      \* source[k]: the row at the source: cold, touched or gone
  migAudit,    \* rows of MIGAUDIT.PURGE_AUDIT, the source's own record
  ext,         \* ext[r]: none (not planned), open or done: extract_status
  load,        \* load[r]: load_status
  unload,      \* rows in the files of the ranges that are done
  staged,      \* rows in the staging tables
  rejects,     \* rejects[k]: stage of the reject recorded for k, or none
  validation,  \* validation[k]: VALIDATED, FAILED or none
  arch,        \* arch[k]: copy (same hash), other or none
  bad,         \* rows whose source and target hashes differ
  partial,     \* some VALIDATE of a table began on incomplete staging
  audit,       \* audit[k]: status of the row of mig.purge_audit, or none
  ledger,      \* ledger[t]: the counts of mig.run_ledger, -1 for NULL
  status,      \* mig.runs.status
  purge,       \* the manifest's purge flag: part of the run's identity
  pc,          \* the next call of the process
  all,         \* the process runs the verb "all"
  tab,         \* the table it is at
  batch,       \* the rows of the current batch
  todo,        \* the rows of the current loop that are left
  second,      \* VALIDATE is in its second pass
  tries,       \* attempts made for the current purge batch
  faults       \* crashes, failed calls and changed source rows so far

atSource == <<source, migAudit>>
files == <<ext, unload>>
staging == <<load, staged>>
verdicts == <<validation, arch, bad, partial>>
loop == <<tab, batch, todo, second, tries>>
run == <<status, purge, all>>
vars == <<source, migAudit, ext, load, unload, staged, rejects, validation,
          arch, bad, partial, audit, ledger, status, purge, pc, all, tab, batch,
          todo, second, tries, faults>>

NULL == -1

Count == Nat \cup {NULL}

Counts == [extracted : Count, loaded : Count, rejected : Count,
           validated : Count, failed : Count, intended : Count,
           purged : Count]

Stages == {"extract", "load", "validate", "purge", "reconcile"}

\* Where the process may be; a stage's name is its first call.
Places == Stages \cup
  {"idle", "raise", "unload", "loading", "dropRejects", "rejecting",
   "judging", "clearing", "recording", "promote", "guard", "purgeTable",
   "recovering", "recovered", "purging", "intend", "deleting", "retry",
   "giveUp", "purgeAbort", "purged", "cleanup", "close"}

TypeOK ==
  /\ source \in [Keys -> {"cold", "touched", "gone"}]
  /\ migAudit \subseteq Keys
  /\ ext \in [Ranges -> {"none", "open", "done"}]
  /\ load \in [Ranges -> {"PENDING", "RUNNING", "DONE"}]
  /\ unload \subseteq Keys
  /\ staged \subseteq Keys
  /\ rejects \in [Keys -> {"none", "LOAD", "VALIDATE"}]
  /\ validation \in [Keys -> {"none", "VALIDATED", "FAILED"}]
  /\ arch \in [Keys -> {"none", "copy", "other"}]
  /\ bad \subseteq Keys
  /\ partial \in BOOLEAN
  /\ audit \in [Keys -> {"none", "INTENDED", "PURGED", "ROLLED_BACK"}]
  /\ ledger \in [Tables -> Counts]
  /\ status \in {"NONE", "RUNNING", "FAILED", "CLOSED"}
  /\ purge \in BOOLEAN
  /\ pc \in Places
  /\ all \in BOOLEAN
  /\ tab \in 0 .. NumTables
  /\ pc \notin {"idle", "raise"} => tab \in Tables
  /\ batch \subseteq Keys
  /\ todo \subseteq Keys
  /\ second \in BOOLEAN
  /\ tries \in 0 .. MaxRetries
  /\ faults \in 0 .. MaxFaults

Init ==
  /\ source = [k \in Keys |-> "cold"]
  /\ migAudit = {}
  /\ ext = [r \in Ranges |-> "none"]
  /\ load = [r \in Ranges |-> "PENDING"]
  /\ unload = {}
  /\ staged = {}
  /\ rejects = [k \in Keys |-> "none"]
  /\ validation = [k \in Keys |-> "none"]
  /\ arch \in [Keys -> {"none", "copy", "other"}]
  /\ \A k \in Keys \ MayBeArchived : arch[k] = "none"
  /\ bad \in SUBSET (Suspect \cap Keys)
  /\ partial = FALSE
  /\ audit = [k \in Keys |-> "none"]
  /\ ledger = [t \in Tables |->
                 [extracted |-> NULL, loaded |-> NULL, rejected |-> NULL,
                  validated |-> NULL, failed |-> NULL, intended |-> NULL,
                  purged |-> NULL]]
  /\ status = "NONE"
  /\ purge \in PurgeFlags
  /\ pc = "idle"
  /\ all = FALSE
  /\ tab = 0
  /\ batch = {}
  /\ todo = {}
  /\ second = FALSE
  /\ tries = 0
  /\ faults = 0

-----------------------------------------------------------------------------
DataTables == Tables \ Reference

RowsOf(t) == {k \in Keys : TableOf(k) = t}

RangesOf(t) == {r \in Ranges : RangeTable[r] = t}

Held(r) == {k \in Keys : RangeOf[k] = r}

Staged(t) == staged \cap RowsOf(t)

Rejected(t) == {k \in RowsOf(t) : rejects[k] = "LOAD"}

Judged(t, verdict) == {k \in RowsOf(t) : validation[k] = verdict}

\* purge_safe is written as "validated, and the table is a data table".
PurgeSafe(t) == IF t \in DataTables THEN Judged(t, "VALIDATED") ELSE {}

Audited(t) == {k \in RowsOf(t) : audit[k] = "PURGED"}

Batches(S) == {B \in SUBSET S : B # {} /\ Cardinality(B) <= BatchRows}

\* The process goes to place p with table t and no batch in hand.
Goto(p, t) == /\ pc' = p
              /\ tab' = t
              /\ batch' = {}
              /\ todo' = {}
              /\ second' = FALSE
              /\ tries' = 0

Follows == [extract |-> "load", load |-> "validate", validate |-> "purge",
            purge |-> "reconcile"]

EndStage(stage) == \/ all /\ Goto(Follows[stage], 1)
                   \/ ~all /\ Goto("idle", 0)

NextTable(stage) == \/ tab < NumTables /\ Goto(stage, tab + 1)
                    \/ tab = NumTables /\ EndStage(stage)

\* The loop over the data tables in reverse: on to the last one before t.
Below(t) == {u \in DataTables : u < t}

Descend(p, t) == \E u \in Below(t) : /\ \A v \in Below(t) : v <= u
                                     /\ Goto(p, u)

\* A driver call or a check raises: execute marks the run FAILED.
Raises == Goto("raise", 0)

-----------------------------------------------------------------------------
\* An operator starts a verb.  prepare_run refuses a CLOSED run, resumes a
\* FAILED one and creates the row of a new one.
Start(verb) ==
  /\ pc = "idle"
  /\ status # "CLOSED"
  /\ status' = "RUNNING"
  /\ all' = (verb = "all")
  /\ Goto(IF verb = "all" THEN "extract" ELSE verb, 1)
  /\ UNCHANGED <<atSource, files, staging, rejects, verdicts, audit, ledger,
                 purge, faults>>

MarkFailed ==
  /\ pc = "raise"
  /\ status' = IF status = "RUNNING" THEN "FAILED" ELSE status
  /\ Goto("idle", 0)
  /\ UNCHANGED <<atSource, files, staging, rejects, verdicts, audit, ledger,
                 purge, all, faults>>

\* The process crashes, or a call fails and the run is marked FAILED.
Stop ==
  /\ pc # "idle"
  /\ faults < MaxFaults
  /\ faults' = faults + 1
  /\ status' \in {status, IF status = "RUNNING" THEN "FAILED" ELSE status}
  /\ Goto("idle", 0)
  /\ UNCHANGED <<atSource, files, staging, rejects, verdicts, audit, ledger,
                 purge, all>>

\* Meanwhile the application uses the source: a row that is touched no longer
\* matches the selection, and stays that way; a parent with rows cannot go.
Children(B) == {k \in Keys : ParentOf[k] \in B /\ source[k] # "gone"}

TouchRow(k) ==
  /\ source[k] = "cold"
  /\ faults < MaxFaults
  /\ faults' = faults + 1
  /\ source' = [source EXCEPT ![k] = "touched"]
  /\ UNCHANGED <<migAudit, files, staging, rejects, verdicts, audit, ledger,
                 run, pc, loop>>

RemoveRow(k) ==
  /\ source[k] # "gone"
  /\ Children({k}) = {}
  /\ faults < MaxFaults
  /\ faults' = faults + 1
  /\ source' = [source EXCEPT ![k] = "gone"]
  /\ UNCHANGED <<migAudit, files, staging, rejects, verdicts, audit, ledger,
                 run, pc, loop>>

\* Between verbs, a new image repairs the hash expression of a column.
Repair(k) ==
  /\ pc = "idle"
  /\ k \in bad
  /\ bad' = bad \ {k}
  /\ UNCHANGED <<atSource, files, staging, rejects, validation, arch, partial,
                 audit, ledger, run, pc, loop, faults>>

-----------------------------------------------------------------------------
\* EXTRACT.  The ranges of a table are planned once; a rerun skips those that
\* are done and writes the files of the others again.
PlanRanges ==
  /\ pc = "extract"
  /\ ext' = IF \A r \in RangesOf(tab) : ext[r] = "none"
            THEN [r \in Ranges |->
                    IF /\ RangeTable[r] = tab
                       /\ \E k \in Held(r) : source[k] = "cold"
                    THEN "open" ELSE ext[r]]
            ELSE ext
  /\ pc' = "unload"
  /\ UNCHANGED <<atSource, unload, staging, rejects, verdicts, audit, ledger,
                 run, loop, faults>>

UnloadRange(r) ==
  /\ pc = "unload"
  /\ RangeTable[r] = tab
  /\ ext[r] = "open"
  /\ \A q \in RangesOf(tab) : ext[q] = "open" => r <= q
  /\ unload' = unload \cup {k \in Held(r) : source[k] = "cold"}
  /\ ext' = [ext EXCEPT ![r] = "done"]
  /\ UNCHANGED <<atSource, staging, rejects, verdicts, audit, ledger, run, pc,
                 loop, faults>>

ExtractDone ==
  /\ pc = "unload"
  /\ \A r \in RangesOf(tab) : ext[r] # "open"
  /\ ledger' = [ledger EXCEPT ![tab].extracted =
                  Cardinality(unload \cap RowsOf(tab))]
  /\ NextTable("extract")
  /\ UNCHANGED <<atSource, files, staging, rejects, verdicts, audit, run,
                 faults>>

-----------------------------------------------------------------------------
\* LOAD.  A range found RUNNING was interrupted: its rows and rejects go first.
NotExtracted(t) == \/ \E r \in RangesOf(t) : ext[r] = "open"
                   \/ /\ \A r \in RangesOf(t) : ext[r] = "none"
                      /\ ledger[t].extracted # 0

Unloaded(t) == {r \in RangesOf(t) : ext[r] = "done" /\ load[r] # "DONE"}

\* The ranges are loaded in order.
Current(r) == r \in Unloaded(tab) /\ \A q \in Unloaded(tab) : r <= q

LoadRefused ==
  /\ pc = "load"
  /\ NotExtracted(tab)
  /\ Raises
  /\ UNCHANGED <<atSource, files, staging, rejects, verdicts, audit, ledger,
                 run, faults>>

BeginRange(r) ==
  /\ pc = "load"
  /\ ~NotExtracted(tab)
  /\ Current(r)
  /\ IF load[r] = "RUNNING"
     THEN staged' = staged \ Held(r) /\ pc' = "dropRejects"
     ELSE staged' = staged /\ pc' = "loading"
  /\ load' = [load EXCEPT ![r] = "RUNNING"]
  /\ todo' = unload \cap Held(r)
  /\ UNCHANGED <<atSource, files, rejects, verdicts, audit, ledger, run, tab,
                 batch, second, tries, faults>>

DropRejects(r) ==
  /\ pc = "dropRejects"
  /\ Current(r)
  /\ load[r] = "RUNNING"
  /\ rejects' = [k \in Keys |-> IF RangeOf[k] = r /\ rejects[k] = "LOAD"
                                THEN "none" ELSE rejects[k]]
  /\ pc' = "loading"
  /\ UNCHANGED <<atSource, files, staging, verdicts, audit, ledger, run, loop,
                 faults>>

\* One insert of staging rows; rows that cannot be converted, that the target
\* refuses or that are staged already become rejects of the batch.
LoadBatch(B) ==
  /\ pc = "loading"
  /\ \E R \in SUBSET (B \cap Rejectable) :
       /\ batch' = R \cup (B \cap staged)
       /\ staged' = staged \cup (B \ R)
  /\ todo' = todo \ B
  /\ pc' = IF batch' = {} THEN "loading" ELSE "rejecting"
  /\ UNCHANGED <<atSource, files, load, rejects, verdicts, audit, ledger, run,
                 tab, second, tries, faults>>

\* ON CONFLICT DO NOTHING: one reject per row, whatever the stage.
AddRejects(S, stage) ==
  rejects' = [k \in Keys |-> IF k \in S /\ rejects[k] = "none"
                             THEN stage ELSE rejects[k]]

WriteLoadRejects ==
  /\ pc = "rejecting"
  /\ AddRejects(batch, "LOAD")
  /\ batch' = {}
  /\ pc' = "loading"
  /\ UNCHANGED <<atSource, files, staging, verdicts, audit, ledger, run, tab,
                 todo, second, tries, faults>>

FinishRange(r) ==
  /\ pc = "loading"
  /\ todo = {}
  /\ Current(r)
  /\ load[r] = "RUNNING"
  /\ load' = [load EXCEPT ![r] = "DONE"]
  /\ pc' = "load"
  /\ UNCHANGED <<atSource, files, staged, rejects, verdicts, audit, ledger,
                 run, loop, faults>>

LoadDone ==
  /\ pc = "load"
  /\ ~NotExtracted(tab)
  /\ Unloaded(tab) = {}
  /\ LET loaded == Cardinality(Staged(tab))
         rejected == Cardinality(Rejected(tab))
     IN /\ ledger' = [ledger EXCEPT ![tab].loaded = loaded,
                                    ![tab].rejected = rejected]
        /\ IF ledger[tab].extracted = loaded + rejected
           THEN NextTable("load") ELSE Raises
  /\ UNCHANGED <<atSource, files, staging, rejects, verdicts, audit, run,
                 faults>>

-----------------------------------------------------------------------------
\* VALIDATE.  Classes: the source's class of a row is mapped through the
\* staged reference row; a class agrees when both sides count the same rows
\* and, in a summed table, sum the same charges (two different sets of rows,
\* or a differing charge, are taken to give different sums).
SourceClass(k) == IF Policy[k] \in staged THEN NewClass[k] ELSE RawClass[k]

SourceSide(t, c) == {k \in Staged(t) : SourceClass(k) = c}

TargetSide(t, c) == {k \in Staged(t) : TargetClass[k] = c}

Mismatch(t, c) ==
  \/ Cardinality(SourceSide(t, c)) # Cardinality(TargetSide(t, c))
  \/ /\ t \in Summed
     /\ \/ SourceSide(t, c) # TargetSide(t, c)
        \/ SourceSide(t, c) \cap bad \cap Charged # {}

Moved(k) == SourceClass(k) # TargetClass[k]

MovedClasses(t) ==
  UNION {{SourceClass(k), TargetClass[k]} : k \in {j \in Staged(t) : Moved(j)}}

\* Rows whose class moved explain a mismatch; without any, all rows do.
ClassFails(k) ==
  LET t == TableOf(k)
  IN /\ t \in DataTables
     /\ \/ Moved(k) /\ (Mismatch(t, SourceClass(k)) \/ Mismatch(t, TargetClass[k]))
        \/ /\ TargetClass[k] \notin MovedClasses(t)
           /\ Mismatch(t, TargetClass[k])

\* Mutant: being staged is enough for a parent.
ParentStaged(k) ==
  LET p == ParentOf[k]
  IN p = None \/ p \in staged \/ arch[p] # "none"

ParentPresent(k) ==
  LET p == ParentOf[k]
  IN \/ p = None
     \/ p \in staged /\ validation[p] = "VALIDATED"
     \/ arch[p] # "none"

RowPasses(k) == /\ k \notin bad
                /\ arch[k] # "other"
                /\ ParentPresent(k)

\* Every row that was unloaded is either staged or rejected, and no other is:
\* what VALIDATE supposes of the stages before it and checks too late.
Whole == /\ \A t \in Tables : ledger[t].extracted # NULL
         /\ \A r \in Ranges : ext[r] # "none" => ext[r] = "done" /\ load[r] = "DONE"
         /\ \A k \in Keys : (k \in unload) = ((k \in staged) # (rejects[k] = "LOAD"))

BeginValidate ==
  /\ pc = "validate"
  /\ partial' = (partial \/ ~Whole)
  /\ todo' = Staged(tab)
  /\ pc' = "judging"
  /\ UNCHANGED <<atSource, files, staging, rejects, validation, arch, bad, audit,
                 ledger, run, tab, batch, second, tries, faults>>

\* First pass: the verdict of every row of a batch on its own.
JudgeBatch(B) ==
  /\ pc = "judging"
  /\ ~second
  /\ validation' = [k \in Keys |->
                      IF k \notin B THEN validation[k]
                      ELSE IF RowPasses(k) THEN "VALIDATED" ELSE "FAILED"]
  /\ batch' = B
  /\ todo' = todo \ B
  /\ pc' = "clearing"
  /\ UNCHANGED <<atSource, files, staging, rejects, arch, bad, partial, audit,
                 ledger, run, tab, second, tries, faults>>

\* Second pass: rows that passed and whose class disagrees.
SecondPass ==
  /\ pc = "judging"
  /\ ~second
  /\ todo = {}
  /\ second' = TRUE
  /\ todo' = {k \in Staged(tab) : RowPasses(k) /\ ClassFails(k)}
  /\ UNCHANGED <<atSource, files, staging, rejects, verdicts, audit, ledger,
                 run, pc, tab, batch, tries, faults>>

FlipBatch(B) ==
  /\ pc = "judging"
  /\ second
  /\ validation' = [k \in Keys |-> IF k \in B THEN "FAILED" ELSE validation[k]]
  /\ batch' = B
  /\ todo' = todo \ B
  /\ pc' = "clearing"
  /\ UNCHANGED <<atSource, files, staging, rejects, arch, bad, partial, audit,
                 ledger, run, tab, second, tries, faults>>

ClearRejects ==
  /\ pc = "clearing"
  /\ rejects' = [k \in Keys |-> IF k \in batch /\ rejects[k] = "VALIDATE"
                                THEN "none" ELSE rejects[k]]
  /\ pc' = "recording"
  /\ UNCHANGED <<atSource, files, staging, verdicts, audit, ledger, run, loop,
                 faults>>

RecordRejects ==
  /\ pc = "recording"
  /\ AddRejects({k \in batch : validation[k] = "FAILED"}, "VALIDATE")
  /\ batch' = {}
  /\ pc' = "judging"
  /\ UNCHANGED <<atSource, files, staging, verdicts, audit, ledger, run, tab,
                 todo, second, tries, faults>>

Promote ==
  /\ pc = "judging"
  /\ second
  /\ todo = {}
  /\ arch' = [k \in Keys |->
                IF /\ k \in Staged(tab)
                   /\ validation[k] = "VALIDATED"
                   /\ arch[k] = "none"
                THEN "copy" ELSE arch[k]]
  /\ pc' = "promote"
  /\ UNCHANGED <<atSource, files, staging, rejects, validation, bad, partial,
                 audit, ledger, run, loop, faults>>

ValidateDone ==
  /\ pc = "promote"
  /\ LET validated == Cardinality(Judged(tab, "VALIDATED"))
         failed == Cardinality(Judged(tab, "FAILED"))
     IN /\ ledger' = [ledger EXCEPT ![tab].validated = validated,
                                    ![tab].failed = failed]
        /\ IF ledger[tab].loaded = validated + failed
           THEN NextTable("validate") ELSE Raises
  /\ UNCHANGED <<atSource, files, staging, rejects, verdicts, audit, run,
                 faults>>

-----------------------------------------------------------------------------
\* PURGE.  All guards come before the first delete; both loops run over the
\* data tables from children to parents.
SkipReferences ==
  /\ pc = "purge"
  /\ ledger' = [t \in Tables |->
                  IF t \in Reference
                  THEN [ledger[t] EXCEPT !.intended = 0, !.purged = 0]
                  ELSE ledger[t]]
  /\ \/ Descend("guard", NumTables + 1)
     \/ DataTables = {} /\ EndStage("purge")
  /\ UNCHANGED <<atSource, files, staging, rejects, verdicts, audit, run,
                 faults>>

\* Mutant: the counts are not compared.
GuardNothing ==
  /\ pc = "guard"
  /\ ledger' = [ledger EXCEPT ![tab].intended = Cardinality(PurgeSafe(tab))]
  /\ \/ Descend("guard", tab)
     \/ Below(tab) = {} /\ Descend("purgeTable", NumTables + 1)
  /\ UNCHANGED <<atSource, files, staging, rejects, verdicts, audit, run,
                 faults>>

\* Mutant: each table is purged as soon as its own guard holds.
GuardOneTable ==
  /\ pc = "guard"
  /\ ledger' = [ledger EXCEPT ![tab].intended = Cardinality(PurgeSafe(tab))]
  /\ IF Cardinality(PurgeSafe(tab)) = ledger[tab].validated
     THEN Goto("purgeTable", tab) ELSE Raises
  /\ UNCHANGED <<atSource, files, staging, rejects, verdicts, audit, run,
                 faults>>

Guard ==
  /\ pc = "guard"
  /\ LET intended == Cardinality(PurgeSafe(tab))
     IN /\ ledger' = [ledger EXCEPT ![tab].intended = intended]
        /\ \/ intended # ledger[tab].validated /\ Raises
           \/ /\ intended = ledger[tab].validated
              /\ \/ Descend("guard", tab)
                 \/ Below(tab) = {} /\ Descend("purgeTable", NumTables + 1)
  /\ UNCHANGED <<atSource, files, staging, rejects, verdicts, audit, run,
                 faults>>

TableDone == \/ Descend("purgeTable", tab)
             \/ Below(tab) = {} /\ EndStage("purge")

DryRun ==
  /\ pc = "purgeTable"
  /\ ~purge
  /\ ledger' = [ledger EXCEPT ![tab].purged = 0]
  /\ TableDone
  /\ UNCHANGED <<atSource, files, staging, rejects, verdicts, audit, run,
                 faults>>

\* Mutant: a purge that is resumed takes every row again.
BeginPurgeAfresh ==
  /\ pc = "purgeTable"
  /\ purge
  /\ todo' = PurgeSafe(tab)
  /\ pc' = "purging"
  /\ UNCHANGED <<atSource, files, staging, rejects, verdicts, audit, ledger,
                 run, tab, batch, second, tries, faults>>

\* Keys the source's record already holds were deleted by a commit whose
\* answer was lost: they are recovered, not deleted again.
BeginPurge ==
  /\ pc = "purgeTable"
  /\ purge
  /\ LET left == PurgeSafe(tab) \ Audited(tab)
     IN /\ batch' = left \cap migAudit
        /\ todo' = left \ migAudit
  /\ pc' = IF batch' = {} THEN "purging" ELSE "recovering"
  /\ UNCHANGED <<atSource, files, staging, rejects, verdicts, audit, ledger,
                 run, tab, second, tries, faults>>

Intended(S) == [k \in Keys |-> IF k \in S /\ audit[k] = "none"
                               THEN "INTENDED" ELSE audit[k]]

Marked(S, mark) == [k \in Keys |-> IF k \in S /\ audit[k] # "none"
                                   THEN mark ELSE audit[k]]

RecoverIntent ==
  /\ pc = "recovering"
  /\ audit' = Intended(batch)
  /\ pc' = "recovered"
  /\ UNCHANGED <<atSource, files, staging, rejects, verdicts, ledger, run,
                 loop, faults>>

TakeBatch(B) ==
  /\ pc = "purging"
  /\ batch' = B
  /\ tries' = 0
  /\ pc' = "intend"
  /\ UNCHANGED <<atSource, files, staging, rejects, verdicts, audit, ledger,
                 run, tab, todo, second, faults>>

WriteIntent ==
  /\ pc = "intend"
  /\ audit' = Intended(batch)
  /\ pc' = "deleting"
  /\ UNCHANGED <<atSource, files, staging, rejects, verdicts, ledger, run,
                 loop, faults>>

\* One transaction at the source: its audit rows, the DELETE by key, the check
\* that every row was there, COMMIT.  Children restrict their parent.
CanDelete(B) == /\ \A k \in B : source[k] # "gone"
                /\ B \cap migAudit = {}
                /\ Children(B) \subseteq B

CommitDelete(B) ==
  /\ CanDelete(B)
  /\ source' = [k \in Keys |-> IF k \in B THEN "gone" ELSE source[k]]
  /\ migAudit' = migAudit \cup B

DeleteCommitted ==
  /\ pc = "deleting"
  /\ CommitDelete(batch)
  /\ pc' = "purged"
  /\ UNCHANGED <<files, staging, rejects, verdicts, audit, ledger, run, loop,
                 faults>>

\* The commit happened, its answer did not arrive.
CommitUnknown ==
  /\ pc = "deleting"
  /\ faults < MaxFaults
  /\ faults' = faults + 1
  /\ CommitDelete(batch)
  /\ pc' = "giveUp"
  /\ UNCHANGED <<files, staging, rejects, verdicts, audit, ledger, run, loop>>

\* Mutant: a row that is missing counts as deleted.
DeleteShort ==
  /\ pc = "deleting"
  /\ ~CanDelete(batch)
  /\ pc' = "purged"
  /\ UNCHANGED <<atSource, files, staging, rejects, verdicts, audit, ledger,
                 run, loop, faults>>

DeleteRefused ==
  /\ pc = "deleting"
  /\ ~CanDelete(batch)
  /\ pc' = "giveUp"
  /\ UNCHANGED <<atSource, files, staging, rejects, verdicts, audit, ledger,
                 run, loop, faults>>

\* Mutant: one attempt too many.
DeleteTransientAgain ==
  /\ pc = "deleting"
  /\ pc' = IF tries <= MaxRetries THEN "retry" ELSE "giveUp"
  /\ UNCHANGED <<atSource, files, staging, rejects, verdicts, audit, ledger,
                 run, loop, faults>>

\* Deadlock, lock timeout or a full log: rolled back, retried MaxRetries times.
DeleteTransient ==
  /\ pc = "deleting"
  /\ pc' = IF tries < MaxRetries THEN "retry" ELSE "giveUp"
  /\ UNCHANGED <<atSource, files, staging, rejects, verdicts, audit, ledger,
                 run, loop, faults>>

MarkForRetry ==
  /\ pc = "retry"
  /\ audit' = Marked(batch, "ROLLED_BACK")
  /\ tries' = tries + 1
  /\ pc' = "intend"
  /\ UNCHANGED <<atSource, files, staging, rejects, verdicts, ledger, run, tab,
                 batch, todo, second, faults>>

MarkRolledBack ==
  /\ pc = "giveUp"
  /\ audit' = Marked(batch, "ROLLED_BACK")
  /\ pc' = "purgeAbort"
  /\ UNCHANGED <<atSource, files, staging, rejects, verdicts, ledger, run,
                 loop, faults>>

AbortPurge ==
  /\ pc = "purgeAbort"
  /\ ledger' = [ledger EXCEPT ![tab].purged = Cardinality(Audited(tab))]
  /\ Raises
  /\ UNCHANGED <<atSource, files, staging, rejects, verdicts, audit, run,
                 faults>>

\* Both after a delete and after a recovery.
MarkPurged ==
  /\ pc \in {"purged", "recovered"}
  /\ audit' = Marked(batch, "PURGED")
  /\ todo' = todo \ batch
  /\ batch' = {}
  /\ tries' = 0
  /\ pc' = "purging"
  /\ UNCHANGED <<atSource, files, staging, rejects, verdicts, ledger, run, tab,
                 second, faults>>

PurgeDone ==
  /\ pc = "purging"
  /\ todo = {}
  /\ LET purged == Cardinality(Audited(tab))
     IN /\ ledger' = [ledger EXCEPT ![tab].purged = purged]
        /\ IF purged = ledger[tab].validated THEN TableDone ELSE Raises
  /\ UNCHANGED <<atSource, files, staging, rejects, verdicts, audit, run,
                 faults>>

-----------------------------------------------------------------------------
\* RECONCILE.
Zero(n) == IF n = NULL THEN 0 ELSE n

\* Mutant: what was purged is not compared with what was validated.
TableClosesUnpurged(t) ==
  LET row == ledger[t]
  IN /\ row.extracted = Zero(row.loaded) + Zero(row.rejected)
     /\ row.loaded = Zero(row.validated) + Zero(row.failed)
     /\ t \in Reference \/ ~purge => Zero(row.purged) = 0

TableCloses(t) ==
  LET row == ledger[t]
  IN /\ row.extracted = Zero(row.loaded) + Zero(row.rejected)
     /\ row.loaded = Zero(row.validated) + Zero(row.failed)
     /\ IF t \in Reference THEN Zero(row.purged) = 0
        ELSE IF purge THEN row.purged = Zero(row.validated)
        ELSE row.intended = Zero(row.validated) /\ Zero(row.purged) = 0

Closes ==
  /\ pc = "reconcile"
  /\ \A t \in Tables : TableCloses(t)
  /\ Goto("cleanup", 1)
  /\ UNCHANGED <<atSource, files, staging, rejects, verdicts, audit, ledger,
                 run, faults>>

DoesNotClose ==
  /\ pc = "reconcile"
  /\ \E t \in Tables : ~TableCloses(t)
  /\ status' = "FAILED"
  /\ Raises
  /\ UNCHANGED <<atSource, files, staging, rejects, verdicts, audit, ledger,
                 purge, all, faults>>

\* Staging is emptied table by table before the run is marked CLOSED.
CleanUp ==
  /\ pc = "cleanup"
  /\ staged' = staged \ RowsOf(tab)
  /\ \/ tab < NumTables /\ Goto("cleanup", tab + 1)
     \/ tab = NumTables /\ Goto("close", tab)
  /\ UNCHANGED <<atSource, files, load, rejects, verdicts, audit, ledger, run,
                 faults>>

Close ==
  /\ pc = "close"
  /\ status' = "CLOSED"
  /\ Goto("idle", 0)
  /\ UNCHANGED <<atSource, files, staging, rejects, verdicts, audit, ledger,
                 purge, all, faults>>

-----------------------------------------------------------------------------
Extract == PlanRanges \/ (\E r \in Ranges : UnloadRange(r)) \/ ExtractDone

Load == \/ LoadRefused
        \/ \E r \in Ranges : BeginRange(r) \/ DropRejects(r) \/ FinishRange(r)
        \/ \E B \in Batches(todo) : LoadBatch(B)
        \/ WriteLoadRejects
        \/ LoadDone

Validate == \/ BeginValidate
            \/ \E B \in Batches(todo) : JudgeBatch(B) \/ FlipBatch(B)
            \/ SecondPass
            \/ ClearRejects
            \/ RecordRejects
            \/ Promote
            \/ ValidateDone

Purge == \/ SkipReferences
         \/ Guard
         \/ DryRun
         \/ BeginPurge
         \/ RecoverIntent
         \/ \E B \in Batches(todo) : TakeBatch(B)
         \/ WriteIntent
         \/ DeleteCommitted \/ CommitUnknown \/ DeleteRefused
         \/ DeleteTransient
         \/ MarkForRetry
         \/ MarkRolledBack
         \/ AbortPurge
         \/ MarkPurged
         \/ PurgeDone

Reconcile == Closes \/ DoesNotClose \/ CleanUp \/ Close

Job == Extract \/ Load \/ Validate \/ Purge \/ Reconcile \/ MarkFailed

Next == \/ \E verb \in Stages \cup {"all"} : Start(verb)
        \/ Job
        \/ Stop
        \/ \E k \in Mutable \cap Keys : TouchRow(k) \/ RemoveRow(k)
        \/ \E k \in Keys : Repair(k)

Spec == Init /\ [][Next]_vars

-----------------------------------------------------------------------------
\* The purge deletes by key what an earlier, possibly interrupted, VALIDATE
\* declared safe, after comparing numbers only.  Every row it deleted is in the
\* archive with the hash of the row that was unloaded, if VALIDATE never began
\* on staging that was incomplete (purge.guard, validate_table, promote).
PurgedRowsArchived == \A k \in migAudit : arch[k] = "copy" \/ partial

\* The target's audit against the source's own, which no transaction spans: a
\* key marked PURGED was deleted by this run, and no key is deleted that the
\* target has no row for, whatever call failed (_purge_batch_with_retry).
AuditsAgree == \A k \in Keys :
  /\ audit[k] = "PURGED" => k \in migAudit
  /\ k \in migAudit => audit[k] # "none"

\* No row is promoted whose parent is in no archive, although the parent's
\* verdict is changed twice while it is read (parents_present, promote).
ArchiveHasParents == \A k \in Keys \ MayBeArchived :
  arch[k] = "copy" /\ ParentOf[k] # None => arch[ParentOf[k]] # "none"

\* The report of a closed run, whose counts were written by several verbs at
\* several times, is true of the databases: as many rows of each table as it
\* calls purged are deleted, and it calls all others failed (table_closes), if
\* VALIDATE never began on incomplete staging.
ClosedBooks ==
  status = "CLOSED" /\ purge /\ ~partial =>
    \A t \in DataTables :
      /\ ledger[t].purged = Cardinality(migAudit \cap RowsOf(t))
      /\ Cardinality(unload \cap RowsOf(t))
           = ledger[t].purged + ledger[t].rejected + ledger[t].failed

\* A delete happens only while the guard of every data table holds, so a table
\* that fails it keeps the rows of all the others (purge.run).
GuardStopsEverything == [][
  migAudit' # migAudit =>
    \A t \in DataTables : Cardinality(PurgeSafe(t)) = ledger[t].validated]_vars

\* A key once marked PURGED stays so: a later verb that retries, gives up or
\* recovers a batch never takes the mark back, because it skips the keys that
\* either record holds (purge_table, audited_keys, set_purge_audit_status).
PurgedForGood == [][
  \A k \in Keys : audit[k] = "PURGED" => audit'[k] = "PURGED"]_vars

\* The job, seen from the source and the archive alone, is an archive that copies
\* a row once and after its parent, deletes it once and only with its copy in
\* the archive, and has no other effect, whatever is interrupted and run again
\* (promote, purge_batch).
Archive == INSTANCE SafeArchive WITH deleted <- migAudit, careless <- partial
ImplementsArchive == Archive!Spec
=============================================================================
