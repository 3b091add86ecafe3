--------------------------- MODULE UploadSession ---------------------------
(***************************************************************************)
(* One upload to an approved dataset: UploadService (upload_service.py)    *)
(* over UploadRepository (operations.py), the DAG run it asks Airflow for  *)
(* (airflow_client.py), the correlated ETL run that DAG run starts         *)
(* (orchestration.py, pipeline.py) and the page that shows the status      *)
(* (UploadPage.tsx).                                                       *)
(*                                                                         *)
(* The API runs its handlers on threads.  A handler is a sequence of steps *)
(* between which any other may act: each repository call is a transaction, *)
(* each Airflow call an HTTP request whose answer may be lost.  Only the   *)
(* trigger claim reads and writes in one transaction.  What the worker     *)
(* does to the trusted data is PipelineRun; here a run publishes once.     *)
(***************************************************************************)
EXTENDS Naturals

CONSTANTS
  Request,       \* handler threads; each serves requests one after another
  Page,          \* those of Request that serve the page; the others serve other clients
  Kinds,         \* what other clients ask for, of {"validate", "run", "get"}
  Verdicts,      \* what a preflight may come to
  Retries,       \* orchestration.retries of the dataset
  AirflowFaults, \* Airflow may fail to answer, having acted or not
  HandlerFaults, \* a handler may be cut off: its process dies, a transaction fails
  WorkerCrashes, \* the process of the ETL run may die
  MaxFaults      \* bound on the lost answers, cut off handlers and dead workers

ASSUME RequestAssumption == Page \subseteq Request
ASSUME KindAssumption == Kinds \subseteq {"validate", "run", "get"}
ASSUME VerdictAssumption == Verdicts \subseteq {"READY", "WARNING", "BLOCKED"}
ASSUME RetryAssumption == Retries \in Nat
ASSUME FaultAssumption ==
  /\ {AirflowFaults, HandlerFaults, WorkerCrashes} \subseteq BOOLEAN
  /\ MaxFaults \in Nat

VARIABLES
  session,       \* the row of etl_app.upload_sessions
  dagRun,        \* state of Airflow's DAG run upload__<upload_id>
  attempts,      \* failed attempts of its run_etl task
  worker,        \* the process of the current attempt
  etl,           \* status of the ledger row with the correlation id
  published,     \* how often rows of this upload were published
  page,          \* the status in the last answer the page has received
  pc,            \* program point of a handler
  seen,          \* the session row it works with
  etlSeen,       \* the ledger status it has read
  airflowSeen,   \* its local airflow_state
  overlapped,    \* history: two handlers have been at work at one time
  cut,           \* history: a handler did not get to its end
  faults         \* faults so far

airflowVars == <<dagRun, attempts, worker, etl, published>>
localVars   == <<seen, etlSeen, airflowSeen>>
history     == <<overlapped, cut>>
vars == <<session, airflowVars, page, pc, localVars, history, faults>>

-----------------------------------------------------------------------------
(* Types *)

Status == {"UPLOADED", "READY", "WARNING", "BLOCKED", "TRIGGERING", "QUEUED",
           "RUNNING", "SUCCEEDED", "FAILED"}

TriggeredStates == {"TRIGGERING", "QUEUED", "RUNNING", "SUCCEEDED", "FAILED"}

Claimable == {"READY", "WARNING"}

\* What the page makes of a status: it polls in the active ones.
Shown(status) ==
  IF status \in {"TRIGGERING", "QUEUED", "RUNNING"} THEN "ACTIVE" ELSE status

AirflowState == {"NONE", "UNKNOWN", "QUEUED", "RUNNING", "SUCCESS", "FAILED"}

EtlStatus == {"ABSENT", "RUNNING", "SUCCEEDED", "FAILED"}

Session ==
  [status  : Status,
   claimed : BOOLEAN,          \* airflow_dag_id and airflow_run_id are set
   airflow : AirflowState,     \* airflow_state, NONE for NULL
   linked  : BOOLEAN,          \* etl_run_id is set
   error   : {"none", "trigger", "no_result"}]     \* safe_error

Point == {"idle", "v_read", "v_write", "r_claim", "r_trigger", "r_mark", "r_fail",
          "g_read", "g_etl", "g_airflow", "g_status", "g_sync"}

Uploaded ==
  [status |-> "UPLOADED", claimed |-> FALSE, airflow |-> "NONE", linked |-> FALSE,
   error |-> "none"]

TypeOK ==
  /\ session \in Session
  /\ dagRun \in AirflowState \ {"UNKNOWN"}
  /\ attempts \in 0..(Retries + 1)
  /\ worker \in {"none", "running", "published", "succeeded", "failed"}
  /\ etl \in EtlStatus
  /\ published \in Nat
  /\ page \in {Shown(status) : status \in Status}
  /\ pc \in [Request -> Point]
  /\ seen \in [Request -> Session]
  /\ etlSeen \in [Request -> EtlStatus]
  /\ airflowSeen \in [Request -> AirflowState]
  /\ {overlapped, cut} \subseteq BOOLEAN
  /\ faults \in 0..MaxFaults

-----------------------------------------------------------------------------
(* A request *)

Goto(q, point) == pc' = [pc EXCEPT ![q] = point]

\* One of the faults that are switched on happens.
Fault(on) ==
  /\ on
  /\ faults < MaxFaults
  /\ faults' = faults + 1

\* The handler has ended; what it had read is gone with it.
End(q) ==
  /\ Goto(q, "idle")
  /\ seen' = [seen EXCEPT ![q] = Uploaded]
  /\ etlSeen' = [etlSeen EXCEPT ![q] = "ABSENT"]
  /\ airflowSeen' = [airflowSeen EXCEPT ![q] = "NONE"]

\* Its answer goes to the client that has asked.
Answer(q, status) ==
  /\ End(q)
  /\ page' = IF q \in Page THEN Shown(status) ELSE page

\* An HTTP error leaves the page as it is.
Refuse(q) == End(q) /\ UNCHANGED page

Entry == [validate |-> "v_read", run |-> "r_claim", get |-> "g_read"]

\* The page offers one button for each status it shows, and polls while that is
\* active; when it shows the end, or BLOCKED, it asks for nothing.
Offered(kind) ==
  CASE kind = "validate" -> page = "UPLOADED"
    [] kind = "run"      -> page \in {"READY", "WARNING"}
    [] kind = "get"      -> page = "ACTIVE"

Receive(q, kind) ==
  /\ pc[q] = "idle"
  /\ IF q \in Page THEN Offered(kind) ELSE kind \in Kinds
  /\ Goto(q, Entry[kind])
  /\ overlapped' = (overlapped \/ \E p \in Request : pc[p] # "idle")
  /\ UNCHANGED <<session, airflowVars, page, localVars, cut, faults>>

\* Mutant of ValidateRead: the preflight runs whatever the status is.
ValidateAlways(q) ==
  /\ pc[q] = "v_read"
  /\ Goto(q, "v_write")
  /\ UNCHANGED <<session, airflowVars, page, localVars, history, faults>>

\* validate: a session that was triggered, and has not failed, is only shown.
ValidateRead(q) ==
  /\ pc[q] = "v_read"
  /\ Goto(q, IF session.status \in TriggeredStates \ {"FAILED"} THEN "g_read"
                                                               ELSE "v_write")
  /\ UNCHANGED <<session, airflowVars, page, localVars, history, faults>>

\* The preflight answers according to file, configuration and baseline; the
\* UPDATE does not look at the status it replaces.
SetPreflight(q, outcome) ==
  /\ pc[q] = "v_write"
  /\ session' = [session EXCEPT !.status = outcome, !.error = "none"]
  /\ Answer(q, outcome)
  /\ UNCHANGED <<airflowVars, history, faults>>

\* run: SELECT ... FOR UPDATE and UPDATE in one transaction.
ClaimTrigger(q) ==
  /\ pc[q] = "r_claim"
  /\ \/ /\ session.status \in TriggeredStates
        /\ Goto(q, "g_read")
        /\ UNCHANGED <<session, page, localVars>>
     \/ /\ session.status \in Claimable
        /\ session' = [session EXCEPT !.status = "TRIGGERING", !.claimed = TRUE]
        /\ Goto(q, "r_trigger")
        /\ UNCHANGED <<page, localVars>>
     \/ /\ session.status \notin TriggeredStates \cup Claimable
        /\ Refuse(q)
        /\ UNCHANGED session
  /\ UNCHANGED <<airflowVars, history, faults>>

\* POST dagRuns with the deterministic run id; on HTTP 409 the existing run is
\* read instead.  A lost answer says nothing about whether the run exists.
Trigger(q) ==
  /\ pc[q] = "r_trigger"
  /\ \/ /\ dagRun' = IF dagRun = "NONE" THEN "QUEUED" ELSE dagRun
        /\ \/ /\ airflowSeen' = [airflowSeen EXCEPT ![q] = dagRun']
              /\ Goto(q, "r_mark")
              /\ UNCHANGED faults
           \/ /\ Fault(AirflowFaults)
              /\ Goto(q, "r_fail")
              /\ UNCHANGED airflowSeen
     \/ /\ Fault(AirflowFaults)
        /\ Goto(q, "r_fail")
        /\ UNCHANGED <<dagRun, airflowSeen>>
  /\ UNCHANGED <<session, attempts, worker, etl, published, page, seen, etlSeen, history>>

MarkTriggered(q) ==
  /\ pc[q] = "r_mark"
  /\ session' = [session EXCEPT !.status = "QUEUED", !.airflow = airflowSeen[q]]
  /\ Answer(q, "QUEUED")
  /\ UNCHANGED <<airflowVars, history, faults>>

\* Mutant of MarkFailed: the error is noted, the status is not.
MarkErrorOnly(q) ==
  /\ pc[q] = "r_fail"
  /\ session' = [session EXCEPT !.error = "trigger"]
  /\ Refuse(q)
  /\ UNCHANGED <<airflowVars, history, faults>>

MarkFailed(q) ==
  /\ pc[q] = "r_fail"
  /\ session' = [session EXCEPT !.status = "FAILED", !.error = "trigger"]
  /\ Refuse(q)
  /\ UNCHANGED <<airflowVars, history, faults>>

\* get: the session, the ledger and Airflow are read one after the other.
ReadSession(q) ==
  /\ pc[q] = "g_read"
  /\ seen' = [seen EXCEPT ![q] = session]
  /\ airflowSeen' = [airflowSeen EXCEPT ![q] = session.airflow]
  /\ Goto(q, "g_etl")
  /\ UNCHANGED <<session, airflowVars, page, etlSeen, history, faults>>

ReadLedger(q) ==
  /\ pc[q] = "g_etl"
  /\ etlSeen' = [etlSeen EXCEPT ![q] = etl]
  /\ Goto(q, IF seen[q].claimed THEN "g_airflow" ELSE "g_status")
  /\ UNCHANGED <<session, airflowVars, page, seen, airflowSeen, history, faults>>

ReadAirflow(q) ==
  /\ pc[q] = "g_airflow"
  /\ \/ /\ dagRun # "NONE"
        /\ airflowSeen' = [airflowSeen EXCEPT ![q] = dagRun]
        /\ UNCHANGED faults
     \/ /\ IF dagRun = "NONE" THEN UNCHANGED faults ELSE Fault(AirflowFaults)
        /\ airflowSeen' =
             [airflowSeen EXCEPT ![q] = IF @ = "NONE" THEN "UNKNOWN" ELSE @]
  /\ Goto(q, "g_status")
  /\ UNCHANGED <<session, airflowVars, page, seen, etlSeen, history>>

\* Mutant of ShownStatus: a failed DAG run is not noticed.
ShownWithoutFailure(q) ==
  IF etlSeen[q] # "ABSENT" THEN etlSeen[q]
  ELSE IF airflowSeen[q] \in {"RUNNING", "QUEUED"} THEN airflowSeen[q]
  ELSE seen[q].status

\* The ledger decides; without a ledger row Airflow does; without either the
\* session keeps the status it was read with.
ShownStatus(q) ==
  IF etlSeen[q] # "ABSENT" THEN etlSeen[q]
  ELSE CASE airflowSeen[q] = "RUNNING"             -> "RUNNING"
         [] airflowSeen[q] \in {"FAILED", "SUCCESS"} -> "FAILED"
         [] airflowSeen[q] = "QUEUED"              -> "QUEUED"
         [] airflowSeen[q] \in {"NONE", "UNKNOWN"}   -> seen[q].status

NoResult(q) ==
  etlSeen[q] = "ABSENT" /\ airflowSeen[q] = "SUCCESS" /\ seen[q].error = "none"

MarkNoResult(q) ==
  /\ pc[q] = "g_status"
  /\ NoResult(q)
  /\ session' = [session EXCEPT !.status = "FAILED", !.error = "no_result"]
  /\ seen' = [seen EXCEPT ![q] = session']
  /\ Goto(q, "g_sync")
  /\ UNCHANGED <<airflowVars, page, etlSeen, airflowSeen, history, faults>>

\* sync writes what was derived from the reads, over whatever is there by now.
Sync(q) ==
  /\ pc[q] = "g_sync" \/ (pc[q] = "g_status" /\ ~NoResult(q))
  /\ LET found == etlSeen[q] # "ABSENT"
         news  == \/ ShownStatus(q) # seen[q].status
                  \/ airflowSeen[q] # seen[q].airflow
                  \/ found /\ ~seen[q].linked
     IN session' =
          IF news THEN [session EXCEPT !.status = ShownStatus(q),
                                       !.airflow = airflowSeen[q],
                                       !.linked = @ \/ found]
                  ELSE session
  /\ Answer(q, ShownStatus(q))
  /\ UNCHANGED <<airflowVars, history, faults>>

\* The handler does not get to its end: the process dies, the database is away.
Abort(q) ==
  /\ Fault(HandlerFaults)
  /\ pc[q] # "idle"
  /\ Refuse(q)
  /\ cut' = TRUE
  /\ UNCHANGED <<session, airflowVars, overlapped>>

Handle(q) ==
  \/ ValidateRead(q)
  \/ \E outcome \in Verdicts : SetPreflight(q, outcome)
  \/ ClaimTrigger(q) \/ Trigger(q) \/ MarkTriggered(q) \/ MarkFailed(q)
  \/ ReadSession(q) \/ ReadLedger(q) \/ ReadAirflow(q) \/ MarkNoResult(q) \/ Sync(q)

-----------------------------------------------------------------------------
(* Airflow and the ETL run it starts *)

apiVars == <<session, page, pc, localVars, history>>

\* validate_config passes, or fails the DAG run (it is not retried).
StartDagRun ==
  /\ dagRun = "QUEUED"
  /\ dagRun' \in {"RUNNING", "FAILED"}
  /\ UNCHANGED <<apiVars, attempts, worker, etl, published, faults>>

\* Mutant of StartEtl: the correlation id is not unique.
StartEtlAgain ==
  /\ dagRun = "RUNNING" /\ worker = "none"
  /\ etl' = "RUNNING"
  /\ worker' = "running"
  /\ UNCHANGED <<apiVars, dagRun, attempts, published, faults>>

\* start_run inserts the ledger row with the correlation id, which is unique.
StartEtl ==
  /\ dagRun = "RUNNING" /\ worker = "none"
  /\ etl = "ABSENT"
  /\ etl' = "RUNNING"
  /\ worker' = "running"
  /\ UNCHANGED <<apiVars, dagRun, attempts, published, faults>>

\* Mutant of FailAttempt: one retry too many.
FailAttemptLate ==
  /\ attempts' = attempts + 1
  /\ dagRun' = IF attempts <= Retries THEN dagRun ELSE "FAILED"
  /\ worker' = "none"

FailAttempt ==
  /\ attempts' = attempts + 1
  /\ dagRun' = IF attempts < Retries THEN dagRun ELSE "FAILED"
  /\ worker' = "none"

\* The attempt ends before it has a ledger row: the CLI cannot load what it
\* needs, or start_run runs into the row of an earlier attempt.
RejectAttempt ==
  /\ dagRun = "RUNNING" /\ worker = "none"
  /\ FailAttempt
  /\ UNCHANGED <<apiVars, etl, published, faults>>

Publish ==
  /\ worker = "running"
  /\ worker' = "published"
  /\ published' = published + 1
  /\ UNCHANGED <<apiVars, dagRun, attempts, etl, faults>>

\* finish_run commits the status in the ledger; the process of the run goes on
\* to its exit code, which is all that Airflow sees.
SucceedEtl ==
  /\ worker = "published"
  /\ worker' = "succeeded"
  /\ etl' = "SUCCEEDED"
  /\ UNCHANGED <<apiVars, dagRun, attempts, published, faults>>

FailEtl ==
  /\ worker = "running"
  /\ worker' = "failed"
  /\ etl' = "FAILED"
  /\ UNCHANGED <<apiVars, dagRun, attempts, published, faults>>

EndTask ==
  /\ \/ /\ worker = "succeeded"
        /\ worker' = "none"
        /\ dagRun' = "SUCCESS"
        /\ UNCHANGED attempts
     \/ /\ worker = "failed"
        /\ FailAttempt
  /\ UNCHANGED <<apiVars, etl, published, faults>>

\* The worker dies: a ledger row it has not finished stays RUNNING, and one it
\* has finished no longer decides how the task ends.
KillWorker ==
  /\ Fault(WorkerCrashes)
  /\ worker # "none"
  /\ FailAttempt
  /\ UNCHANGED <<apiVars, etl, published>>

Execute ==
  \/ StartDagRun \/ StartEtl \/ RejectAttempt
  \/ Publish \/ SucceedEtl \/ FailEtl \/ EndTask

-----------------------------------------------------------------------------
Init ==
  /\ session = Uploaded
  /\ dagRun = "NONE"
  /\ attempts = 0
  /\ worker = "none"
  /\ etl = "ABSENT"
  /\ published = 0
  /\ page = "UPLOADED"
  /\ pc = [q \in Request |-> "idle"]
  /\ seen = [q \in Request |-> Uploaded]
  /\ etlSeen = [q \in Request |-> "ABSENT"]
  /\ airflowSeen = [q \in Request |-> "NONE"]
  /\ overlapped = FALSE
  /\ cut = FALSE
  /\ faults = 0

Next ==
  \/ \E q \in Request : \/ \E kind \in DOMAIN Entry : Receive(q, kind)
                        \/ Handle(q)
                        \/ Abort(q)
  \/ Execute
  \/ KillWorker

Spec == Init /\ [][Next]_vars

\* The page polls while it shows an active status, and the handler that answers
\* it runs to its end unless it is cut off; each of those steps moves pc.
\* Nothing else has to go on: nobody has to press a button, and other requests,
\* Airflow and the workers may hang.
Fairness == \A q \in Page : WF_pc(Receive(q, "get") \/ Handle(q))

FairSpec == Spec /\ Fairness

-----------------------------------------------------------------------------
(* Properties *)

\* However often Run is pressed, the trigger is answered or lost, the session
\* is validated again and Airflow retries a dead worker, the file is published
\* at most once.
PublishedAtMostOnce == published <= 1

\* A session is shown SUCCEEDED only when its own ETL run is.
SuccessIsReal == session.status = "SUCCEEDED" => etl = "SUCCEEDED" /\ published = 1

Rank(status) ==
  CASE status = "UPLOADED"                        -> 0
    [] status \in {"READY", "WARNING", "BLOCKED"} -> 1
    [] status = "TRIGGERING"                      -> 2
    [] status = "QUEUED"                          -> 3
    [] status = "RUNNING"                         -> 4
    [] status \in {"SUCCEEDED", "FAILED"}         -> 5

\* The documented progression: a session that has been triggered never goes
\* back, except that a failed one may be validated and triggered again.  Only
\* handlers that overlap can break it: each writes what it decided on reads
\* that may be stale by then.
TriggeredNeverGoesBack ==
  [][~overlapped /\ session.status \in TriggeredStates \ {"FAILED"}
       => Rank(session'.status) >= Rank(session.status)]_vars

\* A session is TRIGGERING only while the handler that claimed it is at work:
\* no other request takes it out of that state.  A refused or lost trigger is
\* answered too.
ClaimIsAnswered ==
  session.status = "TRIGGERING" /\ ~overlapped /\ ~cut =>
    \E q \in Request : pc[q] \in {"r_trigger", "r_mark", "r_fail"}

\* No handler is about to answer from a ledger it read before the run ended.
AnswersAreCurrent ==
  \A q \in Request :
    pc[q] \in {"g_airflow", "g_status", "g_sync"} => etlSeen[q] = etl

\* How the upload has ended: the ledger says so, or Airflow if no attempt came
\* as far as a ledger row.  A worker that dies may leave its row RUNNING.
Result ==
  IF etl = "ABSENT" THEN IF dagRun = "FAILED" THEN "FAILED" ELSE "NONE"
  ELSE IF etl = "RUNNING" THEN "NONE" ELSE etl

\* A page that still polls when the upload has ended comes to show how, unless
\* the session is validated again, whatever stale answers and stale writes come
\* in between.
ResultIsShown ==
  page = "ACTIVE" /\ Result # "NONE" /\ AnswersAreCurrent
    ~> page \in {Result, "READY", "WARNING", "BLOCKED"}
=============================================================================
