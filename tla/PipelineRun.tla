---------------------------- MODULE PipelineRun ----------------------------
(***************************************************************************)
(* The runs of one incremental dataset: run_pipeline of                    *)
(* src/src/metadata_etl/pipeline.py over the PostgresStore of postgres.py. *)
(*                                                                         *)
(* Every store method opens a transaction of its own, so a run is a        *)
(* sequence of atomic steps between which other runs of the same dataset   *)
(* (another DAG run, a CLI run, a backfill) may act, and after any of      *)
(* which the process may die.  A retry is a new run: it draws a new        *)
(* run_id.                                                                 *)
(*                                                                         *)
(* A source row is an opaque value with a watermark position Mark and a    *)
(* Fate under the transformations and the contracts.  Position 0 stands    *)
(* for "no value stored": the watermark column is declared not nullable,   *)
(* so every row has a position of its own.                                 *)
(***************************************************************************)
EXTENDS Naturals, Sequences

CONSTANTS
  Row,            \* rows the source may ever hold
  Mark,           \* watermark position of each row
  Fate,           \* what transformation and contracts make of each row
  InitialMark,    \* load.watermark.initial_value (0 = null)
  Schema,         \* raw schema fingerprints the source may show
  DriftPolicy,    \* strictest policy of the drift events from one schema to another
  Windows,        \* backfill windows <<from, to>> an operator may ask for
  Run,            \* run identifiers; bounds the number of runs
  None            \* absence of a value

CONSTANTS         \* how the installation is operated, see README
  Serial,         \* at most one run of the dataset at a time
  HistoryOnly,    \* a backfill window ends at or below the stored watermark
  OrderedSource   \* rows arrive in the order of their watermark position

ASSUME RowAssumption ==
  /\ Mark \in [Row -> Nat \ {0}]
  /\ Fate \in [Row -> {"trusted", "quarantined", "filtered"}]
  /\ InitialMark \in Nat

ASSUME WindowAssumption ==
  Windows \subseteq {w \in Nat \X Nat : w[1] < w[2]}

ASSUME PolicyAssumption ==
  DriftPolicy \in [Schema \X Schema -> {"allow", "warn", "fail"}]

ASSUME NoneAssumption == None \notin Run \cup Schema \cup Windows

ASSUME OperationAssumption ==
  /\ Serial \in BOOLEAN
  /\ HistoryOnly \in BOOLEAN
  /\ OrderedSource \in BOOLEAN

VARIABLES
  source,         \* rows present in the source                    (external)
  sourceSchema,   \* its current raw schema                        (external)
  ledger,         \* etl_meta.etl_run_ledger
  finished,       \* finished runs in the order of finished_at
  driftHistory,   \* runs with rows in etl_meta.schema_drift_history
  quarantine,     \* etl_meta.etl_quarantine as <<row, run>>
  target,         \* the trusted table: one <<row, run>> per physical row
  watermark,      \* etl_meta.etl_watermarks.last_successful_value
  watermarkRun,   \* etl_meta.etl_watermarks.run_id
  pc,             \* where the process of a run is
  raw,            \* its extracted raw artifact and the schema found in it
  baseline,       \* its previous_raw, the schema it compares with
  input,          \* watermark_before, the canonical batch above it and
                  \* candidate_watermark, the last position of the batch
  doomed          \* the trusted rows the DELETE of its backfill matched

sourceVars == <<source, sourceSchema>>
ledgerVars == <<ledger, finished>>
auditVars  == <<driftHistory, quarantine>>
trustVars  == <<target, watermark, watermarkRun>>
localVars  == <<raw, baseline, input, doomed>>
vars == <<sourceVars, ledgerVars, auditVars, trustVars, pc, localVars>>

-----------------------------------------------------------------------------
(* Types *)

\* Mutant of InTry: the finish_run of a success moved into the try block.
InTryWithFinish == {"extract", "baseline", "drift", "raise", "watermark",
                    "quality", "publish", "replace", "finish"}

Ended  == {"idle", "succeeded", "failed", "dead"}
InTry  == {"extract", "baseline", "drift", "raise", "watermark",
           "quality", "publish", "replace"}
Phase  == Ended \cup InTry \cup {"finish"}

LedgerRow ==
  [status : {"ABSENT", "RUNNING", "SUCCEEDED", "FAILED"},
   window : Windows \cup {None},       \* None: run_mode = normal
   schema : Schema \cup {None},        \* raw_schema_json
   after  : Nat]                       \* watermark_after

Raw   == [rows : SUBSET Row, schema : Schema \cup {None}]
Input == [before : Nat, batch : SUBSET Row, candidate : Nat]

NoLedgerRow == [status |-> "ABSENT", window |-> None, schema |-> None, after |-> 0]
NoRaw       == [rows |-> {}, schema |-> None]
NoInput     == [before |-> 0, batch |-> {}, candidate |-> 0]

TypeOK ==
  /\ source \in SUBSET Row
  /\ sourceSchema \in Schema
  /\ ledger \in [Run -> LedgerRow]
  /\ finished \in Seq(Run)
  /\ driftHistory \in SUBSET Run
  /\ quarantine \in SUBSET (Row \X Run)
  /\ target \in SUBSET (Row \X Run)
  /\ watermark \in Nat
  /\ watermarkRun \in Run \cup {None}
  /\ pc \in [Run -> Phase]
  /\ raw \in [Run -> Raw]
  /\ baseline \in [Run -> Schema \cup {None}]
  /\ input \in [Run -> Input]
  /\ doomed \in [Run -> SUBSET (Row \X Run)]

-----------------------------------------------------------------------------
(* Helpers *)

Active(r) == pc[r] \notin Ended

IsBackfill(r) == ledger[r].window # None

InWindow(x, w) == w[1] < Mark[x] /\ Mark[x] <= w[2]

\* The bounds compile_canonical_sql puts on the range: a normal run reads what
\* is strictly newer than the stored watermark, or than initial_value.
LowerBound(before) == IF before = 0 THEN InitialMark ELSE before

\* Mutants of InRange: an inclusive lower bound, an exclusive upper one.
InRangeInclusive(x, r, before) ==
  IF IsBackfill(r) THEN InWindow(x, ledger[r].window)
                   ELSE Mark[x] >= LowerBound(before)
InRangeOpen(x, r, before) ==
  IF IsBackfill(r) THEN InWindow(x, ledger[r].window) /\ Mark[x] < ledger[r].window[2]
                   ELSE Mark[x] > LowerBound(before)

InRange(x, r, before) ==
  IF IsBackfill(r) THEN InWindow(x, ledger[r].window)
                   ELSE Mark[x] > LowerBound(before)

\* SELECT max(watermark column) over the extracted range, NULL when it is empty.
IsCandidate(c, batch) ==
  IF batch = {} THEN c = 0
  ELSE /\ \E x \in batch : Mark[x] = c
       /\ \A x \in batch : Mark[x] <= c

\* Mutant of IsBaseline: the latest finished run, however it ended.
IsLatestSchema(s) ==
  IF finished = <<>> THEN s = None ELSE s = ledger[finished[Len(finished)]].schema

Successes == {i \in DOMAIN finished : ledger[finished[i]].status = "SUCCEEDED"}

\* The raw schema of the latest SUCCEEDED run.
IsBaseline(s) ==
  IF Successes = {} THEN s = None
  ELSE \E i \in Successes : /\ \A j \in Successes : j <= i
                            /\ s = ledger[finished[i]].schema

Drifted(r) == baseline[r] \notin {None, raw[r].schema}

Fails(r) == Drifted(r) /\ DriftPolicy[<<baseline[r], raw[r].schema>>] = "fail"

Publishable(batch) == {x \in batch : Fate[x] = "trusted"}

Goto(r, phase) == pc' = [pc EXCEPT ![r] = phase]

-----------------------------------------------------------------------------
(* The source *)

Arrive(rows) ==
  /\ rows # {}
  /\ OrderedSource => \A x \in rows, y \in source : Mark[y] < Mark[x]
  /\ source' = source \cup rows
  /\ UNCHANGED <<sourceSchema, ledgerVars, auditVars, trustVars, pc, localVars>>

ChangeSchema(s) ==
  /\ s # sourceSchema
  /\ sourceSchema' = s
  /\ UNCHANGED <<source, ledgerVars, auditVars, trustVars, pc, localVars>>

-----------------------------------------------------------------------------
(* The run *)

StartRun(r, window) ==
  /\ pc[r] = "idle"
  /\ Serial => \A q \in Run : ~Active(q)
  /\ (HistoryOnly /\ window # None) => window[2] <= watermark
  /\ ledger' = [ledger EXCEPT ![r] =
                  [status |-> "RUNNING", window |-> window,
                   schema |-> None, after |-> 0]]
  /\ Goto(r, "extract")
  /\ UNCHANGED <<sourceVars, finished, auditVars, trustVars, localVars>>

Extract(r) ==
  /\ pc[r] = "extract"
  /\ raw' = [raw EXCEPT ![r] = [rows |-> source, schema |-> sourceSchema]]
  /\ Goto(r, "baseline")
  /\ UNCHANGED <<sourceVars, ledgerVars, auditVars, trustVars, baseline, input, doomed>>

ReadBaseline(r) ==
  /\ pc[r] = "baseline"
  /\ \E s \in Schema \cup {None} :
       /\ IsBaseline(s)
       /\ baseline' = [baseline EXCEPT ![r] = s]
  /\ Goto(r, "drift")
  /\ UNCHANGED <<sourceVars, ledgerVars, auditVars, trustVars, raw, input, doomed>>

\* Every event is persisted, then a "fail" policy raises SchemaDriftError.
RecordDrift(r) ==
  /\ pc[r] = "drift"
  /\ driftHistory' = IF Drifted(r) THEN driftHistory \cup {r} ELSE driftHistory
  /\ Goto(r, IF Fails(r) THEN "raise" ELSE "watermark")
  /\ UNCHANGED <<sourceVars, ledgerVars, quarantine, trustVars, localVars>>

\* A normal run reads the stored watermark, a backfill does not; both then
\* select and transform the range of the raw artifact, which is local work.
ReadWatermark(r) ==
  /\ pc[r] = "watermark"
  /\ LET before == IF IsBackfill(r) THEN 0 ELSE watermark
         batch  == {x \in raw[r].rows : InRange(x, r, before)}
     IN \E c \in {0} \cup {Mark[x] : x \in batch} :
          /\ IsCandidate(c, batch)
          /\ input' = [input EXCEPT ![r] =
                         [before |-> before, batch |-> batch, candidate |-> c]]
  /\ Goto(r, "quality")
  /\ UNCHANGED <<sourceVars, ledgerVars, auditVars, trustVars, raw, baseline, doomed>>

RecordQuality(r) ==
  /\ pc[r] = "quality"
  /\ quarantine' = quarantine \cup
       {<<x, r>> : x \in {y \in input[r].batch : Fate[y] = "quarantined"}}
  /\ Goto(r, "publish")
  /\ UNCHANGED <<sourceVars, ledgerVars, driftHistory, trustVars, localVars>>

\* Mutant of PublishIncremental: the upsert also runs without a candidate.
PublishIncrementalAlways(r) ==
  /\ pc[r] = "publish"
  /\ ~IsBackfill(r)
  /\ target' = target \cup {<<x, r>> : x \in Publishable(input[r].batch)}
  /\ watermark' = input[r].candidate
  /\ watermarkRun' = r
  /\ Goto(r, "finish")
  /\ UNCHANGED <<sourceVars, ledgerVars, auditVars, localVars>>

\* publish_incremental: append and watermark upsert in one transaction.  The
\* upsert is unconditional: it does not look at the value it replaces.
PublishIncremental(r) ==
  /\ pc[r] = "publish"
  /\ ~IsBackfill(r)
  /\ target' = target \cup {<<x, r>> : x \in Publishable(input[r].batch)}
  /\ IF input[r].candidate # 0
     THEN watermark' = input[r].candidate /\ watermarkRun' = r
     ELSE UNCHANGED <<watermark, watermarkRun>>
  /\ Goto(r, "finish")
  /\ UNCHANGED <<sourceVars, ledgerVars, auditVars, localVars>>

\* publish_backfill takes no table lock.  Under READ COMMITTED its DELETE sees
\* the rows committed when the statement starts; the transaction commits later.
DeleteWindow(r) ==
  /\ pc[r] = "publish"
  /\ IsBackfill(r)
  /\ doomed' = [doomed EXCEPT ![r] =
                  {t \in target : InWindow(t[1], ledger[r].window)}]
  /\ Goto(r, "replace")
  /\ UNCHANGED <<sourceVars, ledgerVars, auditVars, trustVars, raw, baseline, input>>

PublishBackfill(r) ==
  /\ pc[r] = "replace"
  /\ target' = (target \ doomed[r])
                 \cup {<<x, r>> : x \in Publishable(input[r].batch)}
  /\ Goto(r, "finish")
  /\ UNCHANGED <<sourceVars, ledgerVars, auditVars, watermark, watermarkRun, localVars>>

\* Mutants of WatermarkAfter: the candidate forgotten, the fallback forgotten.
WatermarkBefore(r) == IF IsBackfill(r) THEN 0 ELSE input[r].before
WatermarkOrNull(r) ==
  IF IsBackfill(r) THEN 0
  ELSE IF input[r].candidate # 0 THEN input[r].candidate ELSE None

\* finish_run(status="SUCCEEDED") stands outside the try block.
\* watermark_after is candidate_watermark or watermark_before; a backfill has none.
WatermarkAfter(r) ==
  IF IsBackfill(r) THEN 0
  ELSE IF input[r].candidate # 0 THEN input[r].candidate ELSE input[r].before

Forget(r) ==
  /\ raw' = [raw EXCEPT ![r] = NoRaw]
  /\ baseline' = [baseline EXCEPT ![r] = None]
  /\ input' = [input EXCEPT ![r] = NoInput]
  /\ doomed' = [doomed EXCEPT ![r] = {}]

CloseLedger(r, status, after) ==
  /\ ledger' = [ledger EXCEPT ![r] =
                  [status |-> status, window |-> ledger[r].window,
                   schema |-> raw[r].schema, after |-> after]]
  /\ finished' = Append(finished, r)
  /\ Forget(r)

FinishRun(r) ==
  /\ pc[r] = "finish"
  /\ CloseLedger(r, "SUCCEEDED", WatermarkAfter(r))
  /\ Goto(r, "succeeded")
  /\ UNCHANGED <<sourceVars, auditVars, trustVars>>

\* An exception in the try block: the open transaction rolls back and
\* finish_run(status="FAILED") commits.
FailRun(r) ==
  /\ pc[r] \in InTry
  /\ CloseLedger(r, "FAILED", input[r].before)
  /\ Goto(r, "failed")
  /\ UNCHANGED <<sourceVars, auditVars, trustVars>>

\* The process dies, or a finish_run fails: the ledger row stays RUNNING.
Crash(r) ==
  /\ Active(r)
  /\ Forget(r)
  /\ Goto(r, "dead")
  /\ UNCHANGED <<sourceVars, ledgerVars, auditVars, trustVars>>

-----------------------------------------------------------------------------
Init ==
  /\ source = {}
  /\ sourceSchema \in Schema
  /\ ledger = [r \in Run |-> NoLedgerRow]
  /\ finished = <<>>
  /\ driftHistory = {}
  /\ quarantine = {}
  /\ target = {}
  /\ watermark = 0
  /\ watermarkRun = None
  /\ pc = [r \in Run |-> "idle"]
  /\ raw = [r \in Run |-> NoRaw]
  /\ baseline = [r \in Run |-> None]
  /\ input = [r \in Run |-> NoInput]
  /\ doomed = [r \in Run |-> {}]

Progress(r) ==
  \/ Extract(r)
  \/ ReadBaseline(r)
  \/ RecordDrift(r)
  \/ ReadWatermark(r)
  \/ RecordQuality(r)
  \/ PublishIncremental(r)
  \/ DeleteWindow(r)
  \/ PublishBackfill(r)
  \/ FinishRun(r)

Next ==
  \/ \E rows \in SUBSET (Row \ source) : Arrive(rows)
  \/ \E s \in Schema : ChangeSchema(s)
  \/ \E r \in Run :
       \/ \E w \in Windows \cup {None} : StartRun(r, w)
       \/ Progress(r)
       \/ FailRun(r)
       \/ Crash(r)

Spec == Init /\ [][Next]_vars

-----------------------------------------------------------------------------
(* Properties *)

\* A run that ended FAILED changed neither the trusted table nor the watermark,
\* and a run shows in them only once its publish transaction has committed:
\* until then the trusted rows and the watermark are those of other runs.
FailedRunsLeaveNoTrace ==
  \A r \in Run :
    ((\E x \in Row : <<x, r>> \in target) \/ watermarkRun = r)
      => pc[r] \in {"finish", "succeeded", "dead"} /\ ledger[r].status # "FAILED"

\* No row is lost: once the watermark has passed a source row, the row is in
\* the trusted table, or its quarantine record exists, or the transformations
\* dropped it.  No later run will look at it again, so this must hold however
\* runs interleave, fail and die.
Accounted(x) ==
  \/ Fate[x] = "trusted" /\ \E r \in Run : <<x, r>> \in target
  \/ Fate[x] = "quarantined" /\ \E r \in Run : <<x, r>> \in quarantine
  \/ Fate[x] = "filtered"

NoRowLost ==
  \A x \in source : InitialMark < Mark[x] /\ Mark[x] <= watermark => Accounted(x)

\* Reruns, retries and backfills never leave two copies of a source row in the
\* trusted table.
NoDuplicateTrustedRows ==
  \A x \in Row : \A q, r \in Run :
    <<x, q>> \in target /\ <<x, r>> \in target => q = r

\* Two backfills, of one window or of overlapping ones, leave one copy of a row
\* between them: each replaces what the other left in the interval.
BackfillsReplaceEachOther ==
  \A x \in Row : \A q, r \in Run :
    IsBackfill(q) /\ IsBackfill(r) /\ <<x, q>> \in target /\ <<x, r>> \in target
      => q = r

\* The stored watermark only advances.
WatermarkNeverMovesBack == [][watermark' >= watermark]_vars

\* The watermark is explained by the run it names: a normal run that is about
\* to report success, reported this very value, or died before it could.
LedgerExplainsWatermark ==
  watermark # 0 =>
    /\ watermarkRun \in Run
    /\ ~IsBackfill(watermarkRun)
    /\ \/ ledger[watermarkRun].status = "RUNNING"
          /\ pc[watermarkRun] \in {"finish", "dead"}
       \/ ledger[watermarkRun].status = "SUCCEEDED"
          /\ ledger[watermarkRun].after = watermark

\* Successes that follow each other, whatever failed or died in between, either
\* saw one schema, or the later run has its drift events on record and the
\* policies let this change pass.
NoSilentDrift ==
  \A i, j \in Successes :
    LET old == ledger[finished[i]].schema
        new == ledger[finished[j]].schema
    IN i < j /\ old # new /\ (\A k \in Successes : k <= i \/ j <= k)
         => finished[j] \in driftHistory /\ DriftPolicy[<<old, new>>] # "fail"

\* The trusted table as readers of the feed see it: a row counts while it is
\* there exactly once, so that a duplicate is no step of the feed.
OnceTrusted ==
  {x \in Row : \E r \in Run : /\ <<x, r>> \in target
                              /\ \A q \in Run : <<x, q>> \in target => q = r}

Feed == INSTANCE WatermarkFeed
          WITH arrived <- source, trusted <- OnceTrusted, cursor <- watermark

\* The runs of the dataset, with their crashes and retries, implement the
\* exactly-once feed.
FeedIsImplemented == Feed!FeedSpec
=============================================================================
