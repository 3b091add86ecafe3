# A TLA+ model of the metadata-driven ETL

This directory specifies the parts of the ETL whose correctness depends on order, overlap and failure: the
runs that move rows into trusted tables, the uploads that trigger such runs, the approval of a configuration,
its activation and first run, the tables the load strategies keep and what readers see of them, and the rules
of drift and quality. TLC checks the modules on small instances, TLAPS proves the central invariants for every
value of the constants. Paths below are relative to the root of the repository; `E/` stands for
`src/metadata_etl/`, `A/` for `src/metadata_etl_api/`.

    tlc -workers 2 -config PipelineSerial.cfg MCPipelineRun.tla
    tlapm SCD2HistoryProofs.tla

## 1. The system

A dataset is one YAML configuration. `etl run` (or an Airflow DAG generated for the configuration) extracts
the source, compares its schema with the last successful run, transforms, checks quality contracts,
quarantines the rows that fail and publishes the rest with one of four load strategies. Everything a run
leaves is in PostgreSQL. A FastAPI service sits beside it: it shows the ledger, takes files for approved
datasets and triggers their DAG, and leads a new source through profile, review, validation and approval to a
configuration committed to Git.

| component | state it keeps | operations | interacts with |
|---|---|---|---|
| Pipeline run (`E/pipeline.py`) | local variables of one process | `run_pipeline`: start, extract, drift, watermark, quality, publish, finish | store (one transaction per call), other runs only through the tables |
| PostgreSQL store (`E/postgres.py`) | `etl_run_ledger`, `etl_watermarks`, `etl_quarantine`, `schema_drift_history`, trusted tables | `start_run`, `finish_run`, `record_*`, five `publish_*` | every run; API reads |
| Source boundaries (`E/sql_compiler.py`, `E/validation.py`) | none | the range a run extracts | pipeline run |
| Schema drift (`E/schema/`) | none | fingerprints, classification, policy | pipeline run, ledger for the baseline |
| Quality (`E/quality/`) | none | contracts, privacy of quarantined values | pipeline run |
| Upload sessions (`A/upload_service.py`, `operations.py`, `airflow_client.py`) | `etl_app.upload_sessions`, landing files | upload, validate, run, get | Airflow REST, ledger (correlation id) |
| Airflow orchestration (`airflow/dags/generic_etl.py`, `E/orchestration.py`) | DAG runs and task attempts (Airflow) | validate and run tasks, retries | starts pipeline runs |
| Dataset onboarding (`A/onboarding_service.py`, `onboarding_operations.py`) | `etl_app.onboarding_sessions`, draft files, stable sources | profile, edits, validate, approve, activate, first run, completion | configuration repository, Airflow, ledger |
| Configuration repository (`A/git_adapter.py`) | the Git work tree and HEAD | ensure clean, commit, recover | onboarding of every dataset |
| Observability (`A/repository.py`, `E/sql/observability.sql`) | none (views) | runs, health, quality, drift | ledger |
| Trusted data preview (`A/trusted_data.py`) | none (one read-only transaction) | label, columns, count, page | trusted tables and their locks, ledger |
| Frontend (`frontend/src/pages/UploadPage.tsx`, `ConfigurationBuilderPage.tsx`) | the answer it shows | buttons, polling | upload and onboarding handlers |
| Configuration model, connectors, transformations, profiler, CLI | none | parse, read, compile, suggest, page | — |

What is hard about it:

- **Overlap.** Nothing serialises the runs of a dataset (no `max_active_runs`, no lock in the CLI); each store
  call is a transaction of its own, so a run reads in one and writes in another. API handlers are plain
  functions on a thread pool: every one reads a row, works, and writes later with an `UPDATE` that looks at
  nothing but the id. Only the three `claim_*` methods check and write at once.
- **Failure between two steps.** A process may die between publish and `finish_run`, between a claim and what
  it claims, between a Git commit and the row that records it.
- **Lost answers and retries.** Airflow may have accepted a trigger whose answer is lost, and retries a task
  with the same correlation id.
- **Boundaries.** The exclusive watermark, the inclusive upper bound, ties, effective times.

What makes each component correct:

- runs: nothing the watermark has passed is missing from trusted table and quarantine; nothing is published
  twice; a failed run leaves no trace; the ledger explains the watermark; the raw schema of the successful
  runs never changes without a record the policy tolerates;
- uploads: one publication per upload; a shown success is real; the session follows its documented progression
  while no two requests overlap, and a page that polls comes to show the result;
- first runs: one attempt at work at a time for a client that waits; a shown success is that of the linked
  run, and every result is shown in the end;
- full and upsert tables: one row per key, counts that the table explains; a page agrees with the count and
  the run shown with it; a healthy dataset is what its last delivery says;
- drift and contracts: no change of a schema goes unnoticed, every row is published or quarantined;
- approvals: everything or nothing of row, source, configuration and commit; what is promoted is what was
  validated; a claim is resolved; a commit is not forgotten;
- SCD2: the versions of a key form a chain that is only extended, and reruns change nothing.

`PROJECT.json` lists each hazard at its line with the properties that cover it, or why none does.

## 2. The modules

| module | what it is |
|---|---|
| `WatermarkFeed` | abstract: what readers of an incremental dataset may rely on |
| `PipelineRun` | the runs of one incremental dataset and its backfills; refines `WatermarkFeed` |
| `PipelineRunProofs`, `PipelineFeedProofs` | theorems about it, the refinement among them |
| `SerialHistory` | abstract: SCD2 batches published one after another |
| `SCD2History` | `publish_scd2` called by several runs; refines `SerialHistory` |
| `SCD2HistoryProofs` | theorems about it, the refinement among them |
| `UploadSession` | one upload: handlers, the DAG run, the correlated ETL run |
| `UploadSessionProofs` | theorems about it |
| `OnboardingApproval` | profile, edits, validate, approve and the recovery of an approval, for several datasets over one work tree |
| `OnboardingApprovalProofs` | theorems about it |
| `FirstRun` | activation, first run, retries and completion after an approval |
| `FirstRunProofs` | theorems about it |
| `SchemaDrift`, `QualityContracts` | pure rules: fingerprints and drift events, contracts and what an upsert accepts |
| `RulesProofs` | theorems about the rules |
| `AtomicPublish` | abstract: what readers of a full or upsert table may rely on |
| `TrustedTable` | runs with strategy full or upsert, the preview of their table and the health of the dataset; uses the rules; refines `AtomicPublish` |
| `TrustedTableProofs` | theorems about it, the refinement among them |
| `MC*` | constants and symmetry for TLC; `MCTrustedTable` also has the bounded checks of the rules |

The modules compose through narrow interfaces: `UploadSession` and `FirstRun` record that a run has published
and leave what that does to the tables to `PipelineRun`, `TrustedTable` and `SCD2History`, one for each kind
of strategy; a run of an SCD2 dataset is `PipelineRun` with the publication of `SCD2History` in place of
`PublishIncremental` (no watermark is read or written by that strategy); `FirstRun` begins with the row an
approval of `OnboardingApproval` ends with; `TrustedTable` EXTENDS the two modules of rules, so every run in
it goes through them.

### PipelineRun

One variable per table (`ledger`, `driftHistory`, `quarantine`, `target`, `watermark` with `watermarkRun`),
one function from runs per local of `run_pipeline` (`raw`, `baseline`, `input`), and `pc` for where the
process is. A source row is an opaque value with a watermark position (`Mark`) and what transformations and
contracts make of it (`Fate`); `target` holds `<<row, run>>`, so duplicates are visible. One action is one
transaction: `StartRun`, `Extract`, `ReadBaseline`, `RecordDrift`, `ReadWatermark` (with the local work up to
the candidate), `RecordQuality`, `PublishIncremental`, `FinishRun`. `publish_backfill` is two actions,
`DeleteWindow` and `PublishBackfill`: it takes no table lock, and under READ COMMITTED (PostgreSQL's default,
which the store does not change) its DELETE sees the rows committed when it starts, while the whole commits
later. `FailRun` is any exception of the try block, `Crash` is the death of the process or a failing
`finish_run`, after which the ledger row stays RUNNING. `emit_event` only logs and is taken not to fail.

`DriftPolicy` says for each pair of raw schemas whether the change is tolerated (`allow` and `warn` alike) or
fails the run. How an installation is operated is three constants, each of which is an assumption of some
property:

- `Serial`: at most one run of the dataset at a time. Without it two runs read one watermark and append the
  same rows (run `pipeline_overlap`), and the unconditional watermark upsert of the slower run may set the
  watermark back.
- `HistoryOnly`: a backfill ends at or below the stored watermark. A backfill beyond it followed by a normal
  run publishes the rows of the overlap twice, as each strategy is idempotent only by itself.
- `OrderedSource`: rows arrive in the order of their watermark position. A row that arrives behind the
  watermark is never read: this is the documented meaning of "strictly newer".

### SCD2History

`publish_scd2` is one transaction; a step of the module is one row of the batch. `closed[r]` and `added[r]`
are what the transaction has written and not committed, and `View(r)` is what its next statement reads.
`LockTable` waits for the SHARE ROW EXCLUSIVE lock, `KeepRow`, `RefuseRow` and `ChangeRow` are the three
outcomes of the loop body, `Due` is the sort, `RollBack` ends the transaction on a `LoadError`, a database
error or the death of the process (`Abort`). Tracked columns are one value; other columns are left out.
`last`, the batch committed last, is a history variable. `SerialHistory` has one publication at a time and no
runs, transactions or locks: its `working` table is the view of the transaction that holds the lock, and a key
takes only rows newer than all it has.

Two observations the module makes precise. A rerun never changes the history, but it may be *refused* where
the first attempt succeeded: of the rows va at 1, va at 2 and vb at 3 of one key the second leaves no version,
and the rerun meets it as a change older than the current one (`E/postgres.py:876`); `RerunChangesNothing` is
about a rerun that commits. And two rows of one key and time with different values, which README.md:661-662
says fail safely, are not always refused: a row that repeats the current version is skipped before a conflict
is looked for, and the other then takes effect. The run `scd2_conflict` shows it with `ConflictsAreRefused`.
`BatchIsReflected` is strict, a row is reflected by a version valid at its time (the end exclusive) or later
with its values, and excepts only the rows of such a contradiction (`Contested`).

### UploadSession

`session` is the row of `etl_app.upload_sessions`; `dagRun`, `attempts`, `worker`, `etl` and `published` are
Airflow's and the worker's side; `pc`, `seen`, `etlSeen` and `airflowSeen` are what a handler thread has read;
`page` is the status in the last answer the upload page has received, where the three it polls in are one,
ACTIVE. The threads of `Page` serve that page, which validates when it shows UPLOADED, runs when it shows
READY or WARNING, polls while it shows ACTIVE and otherwise asks for nothing (`Offered`, `UploadPage.tsx:13,
30-36`); the other threads serve clients that press anything at any time. The steps of a handler are its
repository calls and HTTP requests in their order. `Trigger` may be answered, refused or lost after it was
accepted. `StartEtl` fails when the correlation id is in the ledger, which the unique index enforces.
`SucceedEtl` and `FailEtl` write the ledger; `EndTask`, a step of its own, ends the task and with it the DAG
run, and a worker may die between the two. A page has one request at work at a time. `overlapped` (two
handlers were at work at one time) and `cut` (one did not get to its end) are history.

What does not hold, and why the properties are stated as they are:

- while handlers overlap, a `validate` that read the status before Run was pressed writes READY over
  TRIGGERING, QUEUED or RUNNING, which the progression of docs/frontend_architecture.md:70-76 does not have,
  and a `get` that read TRIGGERING writes it back over QUEUED or FAILED: `TriggeredNeverGoesBack` and
  `ClaimIsAnswered` are stated for `~overlapped`;
- a session whose handler was cut off between the claim and the answer stays TRIGGERING (`~cut`);
- a `get` that reads the ledger before the run has its row and Airflow after it has ended writes FAILED,
  "Airflow completed without a correlated ETL result."; the page shows it and asks no more.  So it is after a
  lost answer to a trigger: the session says FAILED, the page has a 502, nobody polls, and the published run
  is not shown. No liveness property can promise that every success is shown; `ResultIsShown` starts from a
  page that polls when the run has ended and from handlers that have not read an older ledger
  (`AnswersAreCurrent`);
- a worker that dies leaves its ledger row RUNNING, which outranks Airflow's FAILED for ever: such an upload
  has no `Result`.

### OnboardingApproval

`row` holds the rows of `etl_app.onboarding_sessions`, `draft`, `config` and `stable` the three kinds of
files, `committed` and `head` the Git side. The content of a draft is the set of changes made to it, so equal
contents are equal hashes. The statuses before validation that no handler tells apart are one, DRAFT. Every
read of the draft file is a step: `validate` reads it three times, `approve` twice. The try block of `approve`
is `ApproveExists`, `EnsureClean`, `MaterializeSource`, `PromoteConfig`, `CommitConfig`, `FinishApproval`,
`ArchiveDraft`; `Fail` takes any of its file and Git steps to the except clauses, `Undo` and `FailApproval`.
`ResumeApproval` and `RecoverCommit` are `_resume_approval`. The check that a draft of an older version lacks
activation settings, the checksum of the copied source and the temporary `.part` files are left out; two
writers of one draft share the file `.yaml.part`, so one may replace the draft with what the other has written
so far (onboarding_service.py:1409), which the model's whole contents do not show.

`DraftsAlone` (requests of one session overlap only when all of them are approvals) and `Faults` are its
assumptions. What does not hold without them, or at all:

- with `DraftsAlone = FALSE` a draft that was not validated is promoted (run `onboarding_stale_draft`), and
  `set_configuration` or `set_validation` overwrite APPROVING, after which a second approval races the first
  and each may remove the other's files; two profiles may leave the session PROFILING;
- with `"after"` in `Faults` (`git rev-parse` fails after `git commit` succeeded) the configuration is removed
  although its commit stays, and the work tree is dirty for every dataset;
- with two datasets, the commit of the other moves HEAD and `recover_config_commit` no longer finds the
  approval's commit: `CommitIsRecovered` is stated for one dataset;
- a process that dies between the claim and the commit leaves APPROVING, and an untracked configuration that
  blocks other approvals; the code has no way back.

### FirstRun

`row` is what the columns of a first run hold in `etl_app.onboarding_sessions`; the identifiers of an attempt
are its number. An upload has one correlation id for ever; here each attempt takes a new one, so the unique
index of the ledger protects an attempt from itself and not the attempts from each other. `RequestActivation`,
`RequestRun` and `RequestCompletion` read the row as the handlers do, the steps behind them are their
repository and Airflow calls (`BeginActivation`, `PollDag`, `FinishActivation`; `ClaimFirstRun`, `Trigger`,
`MarkTriggered`, `MarkFailed`; `ReadRow`, `ReadLedger`, `ReadAirflow`, `Sync`), and `Discover`, `StartDagRun`,
`StartEtl`, `Publish`, `FinishEtl`, `EndTask`, `KillWorker` are Airflow and the worker: `FinishEtl` writes the
ledger, and only `EndTask` ends the DAG run, so a completion may see FAILED in the ledger, and a retry start
the next attempt, while Airflow's run of the first is still RUNNING. `OneRunAtATime` therefore counts the
attempts that are queued, or running with a ledger row that has not ended (`AtWork`). The configurations
onboarding writes have no retries. `overlapped` and `lost` (Airflow started a run and its answer was lost) are
history.

Limits the model makes visible, all of them by design of single `UPDATE`s that do not look at what they
replace:

- `run_first` numbers its attempt from a row read before the claim (`A/onboarding_service.py:903-906`,
  `A/onboarding_operations.py:388-396`). Of two requests that overlap, the later may claim attempt 2 under the
  identifiers of attempt 1; Airflow answers 409 with the old run and a retry of a failed run is no new run
  (`tests/test_new_dataset_onboarding.py:1325` and `:1348` test retries one at a time). `OneRunAtATime` is
  stated for requests that have not overlapped, and the run has one thread that runs beside one that polls;
- when the answer of a trigger is lost the session says FIRST_RUN_FAILED while the run goes on; a retry has a
  new correlation id, so both may publish: `OneRunAtATime` is stated for `~lost`, and holds through every
  other fault;
- `completion` asks the ledger before Airflow: a run that starts and ends in between is shown FIRST_RUN_FAILED
  although it has published, until the page polls again (`ResultIsShown`); who retries before that publishes
  twice;
- a stale `completion` or `activate` may take a session back, and a handler that is cut off after its claim
  leaves it TRIGGERING until a completion finds the run; if Airflow never got the trigger nothing leads out of
  it.

### SchemaDrift and QualityContracts

A fingerprint is a sequence of fields (its hash is compared in the code, the sequence here). `RawEvents`
translates `_raw_events`: columns added, removed, of another datatype, in another order, and a possible
rename. The order is *defined* declaratively (no renumbering keeps names and order) and TLC compares it with
the two lists of names the code builds. A header that repeats a name may change in silence, because the
dictionaries by name keep the last field; a change to a header with distinct names cannot
(`DriftNeverSilent`). Drift under `warn` is seen by one run only: that run succeeds and becomes the baseline.

`Failures` are the four rules; every rule sees the whole batch, invalid rows of other rules included.
`UpsertAccepts` is what `publish_upsert` demands; a configuration with strategy upsert need not have contracts
that ensure it (`ContractsSatisfyUpsert` says which do), and its run then fails.

### TrustedTable

A stored row remembers which run inserted it and from which position of its delivery. `Extract` is the run
from extraction to contracts, in one step since only the baseline is shared; the raw schema is taken from the
first `SampleSize` rows (10,000 in `E/schema/fingerprint.py:93`), so drift in later rows goes unseen.
`LockTable` is CREATE TABLE IF NOT EXISTS with TRUNCATE (ACCESS EXCLUSIVE, which waits for readers) or with
LOCK TABLE (SHARE ROW EXCLUSIVE, which does not); then `InsertAll`, or `CountMatches` and `Merge`, which are
two statements that each read the committed table; `Commit`. `AtomicPublish` has none of that: `Replace` and
`Upsert` change the table in one step, by all the valid rows of one delivery, at most once for each run, and
`Succeed` follows. It knows rows and not who stored them, and reads the table, the set of runs in `commits`
and the successes of the ledger. `FailRun` rolls back, `Die` leaves the ledger RUNNING. A preview is four
statements: `ReadLabel`, `ReadColumns`, `CountRows`, `ReadPage`. `HealthStatus` and `FailureStreak` translate
the view `dataset_health`. `commits`, `version` and `alone` are history.

What does not hold, and is therefore not stated: count and page of a preview of an *upsert* table may differ,
as a merge may commit between the two; a dataset may be HEALTHY although the table holds the rows of an older
delivery when two runs overlapped, since the last to start is not the last to commit (`alone` in
`HealthIsHonest`), or although its schema is not that of the success before, when its header repeats a name
(`DistinctNames` there). The loser of a race to create the table gets an error, which is a `FailRun`. The
canonical schema of a dataset does not change, and a page is the whole table.

## 3. What TLC checks

| run | instance | properties | shows |
|---|---|---|---|
| `pipeline_serial` | 3 rows (one quarantined, two in a tie), 3 runs, 2 windows, 2 schemas, of which one may follow the other with a warning and not the other way, `Serial`, unordered source | `TypeOK`, `NoDuplicateTrustedRows`, `NoSilentDrift`, `FeedIsImplemented` | runs one after another, failing and dying anywhere, implement `WatermarkFeed` |
| `pipeline_concurrent` | 4 rows (one quarantined, one filtered), 3 runs, 2 windows, overlapping, ordered source | `FailedRunsLeaveNoTrace`, `NoRowLost`, `LedgerExplainsWatermark` | what holds even for overlapping runs |
| `pipeline_overlap` (violation) | 2 runs | `NoDuplicateTrustedRows` | two runs publish the same rows; README.md:585-587 |
| `pipeline_backfill_repeat` (violation) | 1 window, 3 runs | `BackfillsReplaceEachOther` | repeating a window is not idempotent when repetitions overlap; README.md:676-677 |
| `scd2_history` | 3 runs, 2 keys, 2 values, 3 times, 39 batches | `TypeOK`, `HistoryIsChain`, `VersionsDiffer`, `CountsExplainHistory`, `NeverRewritten`, `RerunChangesNothing`, `BatchIsReflected`, `HistoryIsSerial` | the history is a chain that is only extended, as if by one run after another |
| `scd2_conflict` (violation) | the same | `ConflictsAreRefused` | a batch that contradicts itself commits; README.md:661-662 |
| `upload_session` | 2 threads, one of the page and one of a client that presses Validate and Run, verdict READY, 1 retry, any one fault, overlapping requests | `TypeOK`, `PublishedAtMostOnce`, `SuccessIsReal`, `ClaimIsAnswered`, `TriggeredNeverGoesBack`, `ResultIsShown` | one publication, no false success, the documented progression, a page that comes to show the result |
| `onboarding_approvals` | 2 datasets, 3 threads, 2 crashes, failing files and Git | `TypeOK`, `ApprovedIsPromoted`, `AllOrNothing`, `PromotesTheValidated`, `ClaimIsResolved` | an approval happens entirely or not at all |
| `onboarding_recovery` | 1 dataset, 3 threads, 2 crashes, fair | `CommitIsRecovered` | a commit is finished by a later approve |
| `onboarding_stale_draft` (violation) | 1 dataset, 2 threads, no faults | `PromotesTheValidated` | `A/onboarding_service.py:683`, README.md:233-235 |
| `first_run` | 2 threads, one polling and one asked to activate and to run, 2 attempts, any one fault, overlapping requests | `TypeOK`, `SuccessIsReal`, `OneRunAtATime`, `ResultIsShown` | what is shown has happened, what happened is shown, one attempt at work at a time for a client that waits |
| `trusted_table` | 3 runs, 2 at work at a time, 1 fault, 3 deliveries, a sample of 2 rows, 4 configurations, a preview | `TypeOK`, `OneRowPerKey`, `InsertsAreExplained`, `PageMatchesCount`, `PageNotOlderThanLabel`, `HealthIsHonest` | keys, counts, pages and health agree with the table |

Each property of a passing run has a mutant in `PROJECT.json`: a slip in the modelled code (a dropped guard,
an inclusive bound, a missing lock, a forgotten cleanup) under which TLC finds it violated.

Bounds. Three runs are a run that fails or dies, its retry, and one that overlaps either; a duplicate, a lost
row or a regressed watermark needs two, recovery from it shows in the third. Three rows give a tie and a row
of each fate. Three SCD2 publications are a version, a change and a rerun; batches of two or three rows
contain the unchanged, late, tied and refused rows. One retry is enough for a second attempt to meet the first
one's ledger row. Three approval threads are the promoter, one that resumes and one that starts again; two
crashes take down a promoter and its first recovery. Two attempts are a first run and its retry, and each
handler step may be separated by any step of the other; one fault at any place of an upload or a first run. An
upload's verdict WARNING is treated as READY by every handler, and BLOCKED leaves a session that cannot be
run, as it was before it was validated; both are left out. So are the `get`s and completions of other clients
(`Kinds`), which their requests turn into once the session is triggered or its DAG is known. Three runs of
`TrustedTable`, two at a time (`MaxAtWork`), are a load, one that overlaps it and one that finds the result;
its deliveries have a row that changes, a key that repeats, a NULL and a moved column, its configurations each
strategy with and without contracts that ensure its keys and each policy. The rules are checked on all schemas
of up to three columns and all batches of up to three rows. Handler threads and runs are symmetric where no
liveness is checked.

Deadlock is checked for uploads, approvals, first runs and previews, where a request can always come; the runs
of a pipeline and SCD2 publications are finitely many, so those models end (`CHECK_DEADLOCK FALSE`).

Fairness. An upload's page polls while it shows an active status, which is all `UploadPage.tsx:30-36` does,
and the handler that serves it runs to its end: weak fairness of `Receive(q, "get")`, enabled only then, or
`Handle(q)` for `Page`. In `first_run` the page asks for the completion every 2.5 seconds in every status once
the configuration is approved (`ConfigurationBuilderPage.tsx:341-349`): weak fairness of its requests and of
the handler that serves them. Nothing is assumed of other requests, of Airflow and of its workers. These
fairness conditions have the subscript `pc`, which each of those steps changes. The faults are bounded, so a
poll that is cut off is followed by one that is not. `CommitIsRecovered` needs a user who approves again until
a thread serves the request (`SF` of `Receive`), since a thread may be busy with other requests each time. No
button press is assumed otherwise, and nothing is assumed of crashes.

## 4. What TLAPS proves

All theorems hold for every set of rows, runs, keys, threads and so on, under the named `ASSUME`s of the
modules, which only say that constants have their types (TLC evaluates them). Two types are worth naming: a
delivery has a header (`fingerprint.py:100` refuses an empty one) and a policy is allow, warn or fail
(`config.py:473`).

- **PipelineRunProofs.** `TypeCorrect`; from `AuditInv` (what each `pc` implies about ledger, drift history,
  trusted rows and watermark) `FailedRunsCorrect` and `LedgerCorrect`, in every installation. `ReadInv` ties
  what a run has read to what it will publish. `CoverInv` strengthens `NoRowLost`: an artifact holds every
  source row at or below one it holds, the rows below the watermark *and* below the watermark each run started
  from are accounted for, a backfill's artifact holds every row of the window it is about to replace, and a
  quarantined row of a published artifact is recorded; this gives `NoRowLostCorrect` under `OrderedSource` and
  `HistoryOnly`, however runs overlap. `SerialInv` says that the one active run's view is current, which gives
  `NoDuplicatesCorrect` and `WatermarkCorrect` under `Serial`. `NoSilentDriftCorrect`, under `Serial` and for
  any drift policy, rests on the baseline of a run under way being the schema of the last success, which each
  success in turn has compared itself with.
- **PipelineFeedProofs.** `FeedImplemented`: under `Serial` and `HistoryOnly` every step of `PipelineRun` is a
  step of `WatermarkFeed` or a stutter; a publish transaction is `Deliver` or `Refill`.
- **SCD2HistoryProofs.** First, about one table and one row, without state: `ChangeKeepsGood` (expiring the
  current version and adding the next keeps a chain; `EndsBefore` is why: all of a key ends before a row that
  fits), `ChangeExtends`, `ChangeReflects`, `ChangeSettles`. Then `Inv`: only the holder of the lock has
  written, and both the committed table and the table its transaction sees are chains, the second extending
  the first. It is needed because `HistoryIsChain` says nothing of the uncommitted table a commit makes
  visible. Results: `HistoryTypeCorrect`, `ChainCorrect`, `DifferCorrect`, `NeverRewrittenCorrect`,
  `ReflectedCorrect`, and `RerunCorrect` by `LastInv`: each row of the last batch is found, unchanged or late.
  `CountsCorrect` by `CountInv`: both tables are finite and the one a transaction sees is ahead of the
  committed one by exactly the counts it carries, so that a commit moves those into the sum and a rollback
  drops both. The sum of the counts of all runs is the size of a disjoint union (`Together`), which adds one
  run's count without an induction over runs. `SerialImplemented` is the refinement of `SerialHistory`: the
  holder of the lock makes the abstract steps and all others stutter, and `ChangedFits` with `EndsBefore` turn
  what the code asks of the exact and the current version into what the abstract step asks of all of them.
- **UploadSessionProofs.** `UploadTypeCorrect`, `PublishedOnceCorrect`, `SuccessCorrect`: with every fault
  switched on, because a worker publishes only while the ledger row it created is RUNNING, the row is never
  created twice, and what handlers have read of it stays true. `ProgressionCorrect` and `AnsweredCorrect`, for
  any constants: `ClientInv` says that while no two handlers overlap what the one at work has read of the
  session is still so, and that a session shown RUNNING has a run from the ledger or from an Airflow that is
  past QUEUED, so nothing derived from later reads is a step back.
- **OnboardingApprovalProofs.** `OnboardingTypeCorrect` in every installation; under `DraftsAlone`, without
  `"after"`, `ApprovedCorrect`, `AllOrNothingCorrect`, `ValidatedCorrect` and `ResolvedCorrect`, for any
  number of sessions, threads, changes and crashes. The invariant is `ApprovalInv`: `SessionInv` (what a
  session has in the repository and in Git is determined by whether it is closed and committed), `ThreadInv`
  (what a handler at each point knows of its session) and `PairInv` (handlers of one session are approvals,
  and one of them owns the claim). It is needed because each of the properties speaks of the end of an
  approval, and the except clauses remove only what their own thread has made if no other thread owns the
  claim.
- **FirstRunProofs.** `FirstRunTypeCorrect`; `FirstSuccessCorrect` in every installation, by `RunsInv`
  (ledger, worker and Airflow of one attempt agree) and `SuccessInv` (a success a handler has read is that of
  the attempt it is linked to); `OneRunCorrect`, where `AloneInv` and `OneRunInv` say what a lone handler has
  read and which attempts can still be at work at each of its points, as long as no trigger's answer was lost.
- **TrustedTableProofs.** `TypeCorrect`; `KeysCorrect` (the holder of the lock is the only writer, so what its
  statements read is what it commits on), `PageCorrect` (a full load waits for a preview that has read),
  `LabelCorrect` (a run that has succeeded has committed) and `InsertsCorrect`, which adds to the keys that a
  merge changes rows and never their number per run, and counts what matches by a bijection between rows and
  keys. `HealthCorrect` needs three more parts. `BatchOK`: a run that has passed the checks carries the whole
  valid part of its delivery, and what its comparison gave. `SoleOK`: while the newest run is one that found
  nobody at work, all before it are done or dead, so nobody replaces what it reads or has committed.
  `HealthOK`: such a run, once it has committed, is reflected in the table, until another starts and is the
  newest. That HEALTHY means no drift comes from `ChangeIsReported`; that FAILED is a streak from the order of
  the ledger. The refinement `PublishImplemented` (`Spec => PublishIsAtomic`) adds `PublishedOK`, that a run
  which has committed does not come back to commit, and `UpsertedRows`: what one MERGE statement read of the
  table is still so at the commit, so the rows after it are the batch and the rows of other keys.
- **RulesProofs.** `DriftNeverSilent`, `ChangeIsReported`, `StrictPoliciesStop`, `ValidOrQuarantined`,
  `ContractsSatisfyUpsert` and `OrderOfRowsIrrelevant`, for all schemas, contracts and batches.

Model-checked only: the liveness properties (`CommitIsRecovered` and the two `ResultIsShown`), because
temporal reasoning with fairness and `ENABLED` is out of the prover's reach; and the bounded comparisons of
the rules in `MCTrustedTable`, as what the list of shared names is for every schema needs an induction. Every
safety invariant and action property of the runs is a theorem. Two are the other way round, proved and stated
by no run: `WatermarkNeverMovesBack`, which `FeedIsImplemented` implies, and `PublishIsAtomic`, whose
exploration takes several minutes.

## 5. What is not modelled

The SQL text, quoting and types; the semantics of transformations in DuckDB; the statistics of the profiler
and the drafts generated from them; what a review asks and an edit may say, which one draft decides; file
uploads up to the landed file; schedules of DAGs; `git push`, whose outcome is only recorded; the values shown
in quarantine records and their masking; the fingerprints of sources other than CSV; the read-only views and
listings besides dataset health; authentication and payload validation; the frontend beyond what its pages may
request and when they poll. These parts keep no state of their own, or only a file written in one step: no
order of events is at stake in them, and unit tests reach them. Their reasons are in the component list of
`PROJECT.json`.

## 6. Plan

Done, in this order: `WatermarkFeed` and `PipelineRun` with proofs, `UploadSession` with proofs,
`OnboardingApproval`, `SCD2History` with proofs, `FirstRun` with proofs, the rules with proofs, `TrustedTable`
with proofs, the proofs of `OnboardingApproval`, the progression of `UploadSession`, `NoSilentDrift`, the
counts of `SCD2History` and its refinement of `SerialHistory`, the health of `TrustedTable` and its refinement
of `AtomicPublish`.

What would extend it: the fingerprints of JSON and PostgreSQL sources beside those of CSV files; the review
questions of a draft as rules over decisions; a run of the SCD2 strategy composed with the ledger.
