---------------------------- MODULE TrustedTable ----------------------------
(***************************************************************************)
(* The trusted table of a dataset loaded with strategy full or upsert: the *)
(* runs that replace or merge it (pipeline.py, publish_full and            *)
(* publish_upsert of postgres.py), the preview that pages through it       *)
(* (trusted_data.py) and the health the ledger is summed up to             *)
(* (observability.sql).                                                    *)
(*                                                                         *)
(* A publish is one transaction of several statements and a preview is     *)
(* another; every statement sees what is committed when it runs (READ      *)
(* COMMITTED), and only the locks of the tables order them.                *)
(***************************************************************************)
EXTENDS SchemaDrift, QualityContracts, Integers

CONSTANTS
  Delivery,     \* what the source may hold when it is extracted
  Config,       \* the configurations a dataset may have
  Kind(_),      \* the representation of a value in a CSV file
  SampleSize,   \* rows of a file its schema is taken from (10,000 in the code)
  MaxRuns,      \* bound on the runs, which start in the order of their numbers
  MaxAtWork,    \* bound on the runs at work at a time
  MaxFaults     \* bound on the failures and deaths of runs and previews

ASSUME SampleAssumption == SampleSize \in Nat \ {0}
ASSUME BoundAssumption ==
  MaxRuns \in Nat \ {0} /\ MaxAtWork \in Nat \ {0} /\ MaxFaults \in Nat
ASSUME DeliveryAssumption ==
  \A delivery \in Delivery :
    /\ delivery = [header |-> delivery.header, rows |-> delivery.rows]
    /\ delivery.header \in Seq(Range(delivery.header)) \ {<< >>}
    /\ delivery.rows \in Seq(Range(delivery.rows))
ASSUME ConfigAssumption ==
  \A c \in Config : c.strategy \in {"full", "upsert"} /\ c.policies \in Policies

Run == 1..MaxRuns

VARIABLES
  config,   \* the approved configuration, which does not change
  ledger,   \* etl_run_ledger: the row of each run
  pc,       \* program point of the process of a run
  batch,    \* locals of a run, and what its transaction has written
  lock,     \* the run whose transaction locks the table, 0 for none
  exists,   \* the trusted table has been created
  table,    \* its committed rows
  commits,  \* the runs whose transaction is committed, in that order (history)
  preview,  \* the transaction of a preview, and its answer
  faults    \* failures and deaths so far

runVars     == <<pc, batch>>
tableVars   == <<lock, exists, table, commits>>
vars        == <<config, ledger, runVars, tableVars, preview, faults>>

-----------------------------------------------------------------------------
(* Types *)

NoDelivery == [header |-> << >>, rows |-> << >>]

DriftStatuses == {"NONE", "ALLOWED", "WARN", "FAILED"}

Positions == UNION {DOMAIN delivery.rows : delivery \in Delivery}

DeliveredRow == UNION {Range(delivery.rows) : delivery \in Delivery}

\* A stored row remembers the run and the position that inserted it.
StoredRow == [run : Run, at : Positions, row : DeliveredRow]

(* A row of the ledger.  raw is the artifact it names, whose schema it     *)
(* keeps too.  alone is history: no run was at work when this one started. *)
LedgerRow ==
  [status : {"NONE", "RUNNING", "SUCCEEDED", "FAILED"}, finished : 0..MaxRuns,
   quarantined : Nat, inserted : Nat, drift : DriftStatuses,
   raw : Delivery \union {NoDelivery}, alone : BOOLEAN]

NoLedgerRow ==
  [status |-> "NONE", finished |-> 0, quarantined |-> 0, inserted |-> 0, drift |-> "NONE",
   raw |-> NoDelivery, alone |-> FALSE]

(* The locals of run_pipeline; inserts are the rows its open transaction   *)
(* adds to the table and updated is the rows_updated of its publish.       *)
Batch ==
  [delivery : Delivery \union {NoDelivery}, valid : SUBSET Positions, quarantined : Nat,
   drift : DriftStatuses, updated : Nat, inserts : SUBSET StoredRow]

NoBatch ==
  [delivery |-> NoDelivery, valid |-> {}, quarantined |-> 0, drift |-> "NONE",
   updated |-> 0, inserts |-> {}]

\* The transaction of a preview; version is history, the commits it could see.
Preview ==
  [pc : {"idle", "columns", "count", "page", "done"}, label : Run \union {0},
   state : {"NONE", "NOT_PUBLISHED", "EMPTY", "AVAILABLE"},
   total : Nat, page : SUBSET StoredRow, version : Nat]

NoPreview ==
  [pc |-> "idle", label |-> 0, state |-> "NONE", total |-> 0, page |-> {}, version |-> 0]

Point == {"new", "extract", "lock", "write", "count", "merge", "commit",
          "finish", "failing", "done", "dead"}

TypeOK ==
  /\ config \in Config
  /\ ledger \in [Run -> LedgerRow]
  /\ pc \in [Run -> Point]
  /\ batch \in [Run -> Batch]
  /\ lock \in Run \union {0}
  /\ exists \in BOOLEAN
  /\ table \subseteq StoredRow
  /\ commits \in Seq(Run)
  /\ preview \in Preview
  /\ faults \in 0..MaxFaults

-----------------------------------------------------------------------------
(* A run, up to its publish *)

Goto(r, point) == pc' = [pc EXCEPT ![r] = point]

AtWork == {r \in Run : pc[r] \notin {"new", "done", "dead"}}

(* start_run: the row of the ledger appears.                               *)
StartRun(r) ==
  /\ pc[r] = "new"
  /\ \A s \in Run : s < r => pc[s] # "new"
  /\ Cardinality(AtWork) < MaxAtWork
  /\ ledger' = [ledger EXCEPT ![r].status = "RUNNING", ![r].alone = AtWork = {}]
  /\ Goto(r, "extract")
  /\ UNCHANGED <<config, batch, tableVars, preview, faults>>

(* The raw schema of a file is that of its first rows.                     *)
RawSchema(delivery) ==
  LET sample == {k \in DOMAIN delivery.rows : k <= SampleSize}
  IN  RawCsvFingerprint(delivery.header,
        [i \in DOMAIN delivery.header |->
           {Kind(delivery.rows[k][delivery.header[i]]) : k \in sample}])

Succeeded == {s \in Run : ledger[s].status = "SUCCEEDED"}

\* The run of some that finished last, 0 when there is none.
LastOf(runs) ==
  IF runs = {} THEN 0
  ELSE CHOOSE s \in runs : \A t \in runs : ledger[t].finished <= ledger[s].finished

LastSuccess == LastOf(Succeeded)

(* get_previous_successful_schemas *)
Baseline ==
  IF LastSuccess = 0 THEN NoFingerprint ELSE RawSchema(ledger[LastSuccess].raw)

DriftOf(delivery) ==
  DriftStatus(DetectSchemaDrift(Baseline, RawSchema(delivery),
                                config.canonical, config.canonical, config.policies))

(* The source is extracted, its schema compared with the baseline, its     *)
(* rows put to the contracts.  The canonical schema is the configuration's *)
(* and does not drift here.  Drift a policy forbids fails the run, and so  *)
(* do rows an upsert refuses.                                              *)
Extract(r, delivery) ==
  LET valid == ValidIndexes(config.contracts, delivery.rows)
      drift == DriftOf(delivery)
      stopped == drift = "FAILED"
  IN
  /\ pc[r] = "extract"
  /\ batch' = [batch EXCEPT ![r] =
       [batch[r] EXCEPT !.delivery = delivery,
                 !.valid = IF stopped THEN {} ELSE valid,
                 !.quarantined =
                   IF stopped THEN 0 ELSE RowsQuarantined(config.contracts, delivery.rows),
                 !.drift = drift]]
  /\ Goto(r, IF \/ stopped
                \/ /\ config.strategy = "upsert"
                   /\ ~ UpsertAccepts(config.keys, delivery.rows, valid)
             THEN "failing" ELSE "lock")
  /\ UNCHANGED <<config, ledger, tableVars, preview, faults>>

-----------------------------------------------------------------------------
(* The transaction of a publish *)

\* A preview that has read the table holds ACCESS SHARE until it ends.
ReaderHolds == preview.pc = "page"

\* Mutants of Conflicts: an upsert that takes no lock, a DELETE for the TRUNCATE.
ConflictsOfFullLoad(r) == config.strategy = "full" /\ (lock # 0 \/ ReaderHolds)
ConflictsOfDelete(r) == lock # 0

(* Whether the lock of a run has to wait: TRUNCATE takes ACCESS EXCLUSIVE, *)
(* an upsert SHARE ROW EXCLUSIVE, which readers do not mind.  A run that   *)
(* creates the table holds it exclusively, and no one has seen it.         *)
Conflicts(r) == lock # 0 \/ (config.strategy = "full" /\ ReaderHolds)

(* CREATE TABLE IF NOT EXISTS with TRUNCATE or LOCK TABLE.                 *)
LockTable(r) ==
  /\ pc[r] = "lock"
  /\ ~ Conflicts(r)
  /\ lock' = r
  /\ Goto(r, IF config.strategy = "full" THEN "write" ELSE "count")
  /\ UNCHANGED <<config, ledger, batch, exists, table, commits, preview, faults>>

Stored(r, i) == [run |-> r, at |-> i, row |-> batch[r].delivery.rows[i]]

(* publish_full: INSERT into the truncated table.                          *)
InsertAll(r) ==
  /\ pc[r] = "write"
  /\ batch' = [batch EXCEPT ![r].inserts = {Stored(r, i) : i \in batch[r].valid}]
  /\ Goto(r, "commit")
  /\ UNCHANGED <<config, ledger, tableVars, preview, faults>>

\* ON of the MERGE: SQL's equality, which NULL satisfies with nothing.
Matches(row, other) ==
  /\ SameKey(row, other, config.keys)
  /\ Whole(row, config.keys)

HasMatch(r, i) == \E t \in table : Matches(batch[r].delivery.rows[i], t.row)

\* Mutant of CountMatches: EXISTS is left out and the table counted.
CountTable(r) ==
  /\ pc[r] = "count"
  /\ batch' = [batch EXCEPT ![r].updated = Cardinality(table)]
  /\ Goto(r, "merge")
  /\ UNCHANGED <<config, ledger, tableVars, preview, faults>>

(* publish_upsert: the staged rows with a match in the table are counted.  *)
CountMatches(r) ==
  /\ pc[r] = "count"
  /\ batch' = [batch EXCEPT ![r].updated = Cardinality({i \in batch[r].valid : HasMatch(r, i)})]
  /\ Goto(r, "merge")
  /\ UNCHANGED <<config, ledger, tableVars, preview, faults>>

(* MERGE: rows without a match are inserted; the others are updated, which *)
(* shows at the commit.                                                    *)
Merge(r) ==
  /\ pc[r] = "merge"
  /\ batch' = [batch EXCEPT ![r].inserts =
       {Stored(r, i) : i \in {i \in batch[r].valid : ~ HasMatch(r, i)}}]
  /\ Goto(r, "commit")
  /\ UNCHANGED <<config, ledger, tableVars, preview, faults>>

\* What the UPDATE of the MERGE of run r makes of a row of the table.
Merged(r, row) ==
  IF \E i \in batch[r].valid : Matches(batch[r].delivery.rows[i], row)
  THEN batch[r].delivery.rows[CHOOSE i \in batch[r].valid :
                                Matches(batch[r].delivery.rows[i], row)]
  ELSE row

Updated(r) == {[t EXCEPT !.row = Merged(r, t.row)] : t \in table}

Commit(r) ==
  /\ pc[r] = "commit"
  /\ table' = batch[r].inserts \union (IF config.strategy = "full" THEN {} ELSE Updated(r))
  /\ exists' = TRUE
  /\ commits' = Append(commits, r)
  /\ lock' = 0
  /\ batch' = [batch EXCEPT ![r].inserts = {}]
  /\ Goto(r, "finish")
  /\ UNCHANGED <<config, ledger, preview, faults>>

-----------------------------------------------------------------------------
(* How a run ends *)

\* LoadMetrics: what is not updated was inserted.
RowsInserted(r) == Cardinality(batch[r].valid) - batch[r].updated

(* finish_run writes what the process knows; its locals go with it.        *)
Close(r, status, inserted) ==
  /\ ledger' = [ledger EXCEPT ![r] =
       [ledger[r] EXCEPT !.status = status,
                 !.finished = 1 + Cardinality({s \in Run : ledger[s].finished # 0}),
                 !.quarantined = batch[r].quarantined,
                 !.inserted = inserted,
                 !.drift = batch[r].drift,
                 !.raw = batch[r].delivery]]
  /\ batch' = [batch EXCEPT ![r] = NoBatch]
  /\ Goto(r, "done")
  /\ UNCHANGED <<config, tableVars, preview, faults>>

FinishRun(r) ==
  /\ pc[r] = "finish"
  /\ Close(r, "SUCCEEDED", RowsInserted(r))

FinishFailed(r) ==
  /\ pc[r] = "failing"
  /\ Close(r, "FAILED", 0)

Fault ==
  /\ faults < MaxFaults
  /\ faults' = faults + 1

\* A transaction that does not commit leaves nothing, and releases its lock.
RollBack(r) ==
  /\ lock' = IF lock = r THEN 0 ELSE lock
  /\ UNCHANGED <<exists, table, commits>>

(* The source is unreadable or a statement fails; so does the CREATE of a  *)
(* run that waited for another to create the table.                        *)
FailRun(r) ==
  /\ pc[r] \in {"extract", "lock", "write", "count", "merge", "commit"}
  /\ Fault
  /\ RollBack(r)
  /\ batch' = [batch EXCEPT ![r].inserts = {}, ![r].updated = 0]
  /\ Goto(r, "failing")
  /\ UNCHANGED <<config, ledger, preview>>

(* The process dies, or finish_run fails: the ledger keeps it RUNNING.     *)
Die(r) ==
  /\ r \in AtWork
  /\ Fault
  /\ RollBack(r)
  /\ batch' = [batch EXCEPT ![r] = NoBatch]
  /\ Goto(r, "dead")
  /\ UNCHANGED <<config, ledger, preview>>

-----------------------------------------------------------------------------
(* A preview: four statements of one read-only transaction *)

ReadLabel ==
  /\ preview.pc \in {"idle", "done"}
  /\ preview' = [NoPreview EXCEPT !.pc = "columns", !.label = LastSuccess]
  /\ UNCHANGED <<config, ledger, runVars, tableVars, faults>>

ReadColumns ==
  /\ preview.pc = "columns"
  /\ preview' = IF exists THEN [preview EXCEPT !.pc = "count"]
                ELSE [preview EXCEPT !.pc = "done", !.state = "NOT_PUBLISHED"]
  /\ UNCHANGED <<config, ledger, runVars, tableVars, faults>>

\* SELECT waits for a table that is being truncated.
CountRows ==
  /\ preview.pc = "count"
  /\ config.strategy = "full" => lock = 0
  /\ preview' = [preview EXCEPT !.pc = "page", !.total = Cardinality(table),
                                !.version = Len(commits)]
  /\ UNCHANGED <<config, ledger, runVars, tableVars, faults>>

\* Mutant of ReadPage: the successful run is looked up last.
ReadPageThenLabel ==
  /\ preview.pc = "page"
  /\ preview' = [preview EXCEPT !.pc = "done", !.page = table, !.label = LastSuccess,
                                !.state = IF preview.total = 0 THEN "EMPTY" ELSE "AVAILABLE"]
  /\ UNCHANGED <<config, ledger, runVars, tableVars, faults>>

(* The page is the whole table: a limit no smaller, an offset of 0.        *)
ReadPage ==
  /\ preview.pc = "page"
  /\ preview' = [preview EXCEPT !.pc = "done", !.page = table,
                                !.state = IF preview.total = 0 THEN "EMPTY" ELSE "AVAILABLE"]
  /\ UNCHANGED <<config, ledger, runVars, tableVars, faults>>

(* A statement fails and the client gets a 503.                            *)
FailPreview ==
  /\ preview.pc \in {"columns", "count", "page"}
  /\ Fault
  /\ preview' = NoPreview
  /\ UNCHANGED <<config, ledger, runVars, tableVars>>

-----------------------------------------------------------------------------
(* etl_observability.dataset_health *)

Ledgered == {r \in Run : ledger[r].status # "NONE"}

\* Mutant of LatestRun: in the order the runs finished in.
LatestFinished == IF Ledgered = {} THEN 0 ELSE LastOf(Ledgered)

\* The run that started last, 0 when there is none.
LatestRun ==
  IF Ledgered = {} THEN 0 ELSE CHOOSE r \in Ledgered : \A s \in Ledgered : s <= r

HealthStatus ==
  IF LatestRun = 0 THEN "UNKNOWN"
  ELSE LET latest == ledger[LatestRun] IN
       CASE latest.status = "FAILED" -> "FAILED"
         [] latest.status = "RUNNING" -> "UNKNOWN"
         [] latest.status = "SUCCEEDED" ->
              IF latest.quarantined > 0 \/ latest.drift = "WARN" THEN "WARNING" ELSE "HEALTHY"

\* The failed runs no run of another status is newer than.
FailureStreak ==
  Cardinality({r \in Ledgered : \A s \in Ledgered : s >= r => ledger[s].status = "FAILED"})

-----------------------------------------------------------------------------
(* The specification *)

Init ==
  /\ config \in Config
  /\ ledger = [r \in Run |-> NoLedgerRow]
  /\ pc = [r \in Run |-> "new"]
  /\ batch = [r \in Run |-> NoBatch]
  /\ lock = 0
  /\ exists = FALSE
  /\ table = {}
  /\ commits = << >>
  /\ preview = NoPreview
  /\ faults = 0

RunStep(r) ==
  \/ StartRun(r)
  \/ \E delivery \in Delivery : Extract(r, delivery)
  \/ LockTable(r)
  \/ InsertAll(r)
  \/ CountMatches(r)
  \/ Merge(r)
  \/ Commit(r)
  \/ FinishRun(r)
  \/ FinishFailed(r)
  \/ FailRun(r)
  \/ Die(r)

PreviewStep == ReadLabel \/ ReadColumns \/ CountRows \/ ReadPage \/ FailPreview

Next == PreviewStep \/ \E r \in Run : RunStep(r)

Spec == Init /\ [][Next]_vars

-----------------------------------------------------------------------------
(* Properties *)

(* A table loaded by upsert never holds two rows of one business key, and  *)
(* none without a key: publish_upsert writes no unique index, so only its  *)
(* refusals and its lock see to it (postgres.py:600, 652).                 *)
OneRowPerKey ==
  config.strategy = "upsert" =>
    /\ \A t \in table : Whole(t.row, config.keys)
    /\ \A t, u \in table : SameKey(t.row, u.row, config.keys) => t = u

(* The ledger says how many rows an upsert added, and the table still      *)
(* tells them apart: the count is taken by one statement and the merge by  *)
(* another (postgres.py:654, 662).                                         *)
InsertsAreExplained ==
  config.strategy = "upsert" =>
    \A r \in Succeeded :
      ledger[r].inserted = Cardinality({t \in table : t.run = r})

(* A page of a table loaded in full comes from the same load as the number *)
(* of rows shown with it: the lock of the first SELECT holds back the      *)
(* TRUNCATE (trusted_data.py:115, 142; postgres.py:504).                   *)
PageMatchesCount ==
  (/\ config.strategy = "full"
   /\ preview.state \in {"AVAILABLE", "EMPTY"})
    => Cardinality(preview.page) = preview.total

(* The rows of a preview are never older than the successful run it names, *)
(* and a table with a successful run is never called unpublished: the run  *)
(* is looked up first (trusted_data.py:57-88).                             *)
PageNotOlderThanLabel ==
  (preview.pc = "done" /\ preview.label # 0)
    => /\ preview.state # "NOT_PUBLISHED"
       /\ \E k \in 1..preview.version : commits[k] = preview.label

\* Every row of a delivery is in the table, as that delivery has it.
Reflects(delivery, r) ==
  IF config.strategy = "full"
  THEN table = {[run |-> r, at |-> i, row |-> delivery.rows[i]] : i \in DOMAIN delivery.rows}
  ELSE \A i \in DOMAIN delivery.rows :
         {t.row : t \in {t \in table : Matches(t.row, delivery.rows[i])}} = {delivery.rows[i]}

(* A dataset called HEALTHY has every row of its last delivery in the      *)
(* trusted table, and the raw schema of the success before, as far as the  *)
(* sampled rows tell it, unless another run was at work with the last one, *)
(* its header repeats a name or the policies allow drift; FAILED is said   *)
(* exactly when there is a streak of failures (observability.sql:67).      *)
HealthIsHonest ==
  LET latest == ledger[LatestRun]
      before == LastOf(Succeeded \ {LatestRun})
  IN
  /\ (HealthStatus = "HEALTHY" /\ latest.alone)
       => /\ Reflects(latest.raw, LatestRun)
          /\ (/\ before # 0
              /\ DistinctNames(RawSchema(latest.raw))
              /\ \A change \in DOMAIN config.policies : config.policies[change] # "allow")
               => RawSchema(latest.raw) = RawSchema(ledger[before].raw)
  /\ HealthStatus = "FAILED" <=> FailureStreak > 0

Publish == INSTANCE AtomicPublish
             WITH rows <- {t.row : t \in table},
                  published <- Range(commits),
                  succeeded <- Succeeded

(* The transactions of the runs, however their statements interleave, fail *)
(* and are cut off, are whole publishes one after another, and a success   *)
(* is recorded after its publish (postgres.py:496, 646; pipeline.py:468).  *)
PublishIsAtomic == Publish!PublishSpec
=============================================================================
