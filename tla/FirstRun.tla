------------------------------ MODULE FirstRun ------------------------------
(***************************************************************************)
(* What follows an approval: activate, run_first and completion of         *)
(* OnboardingService (onboarding_service.py) over the row of               *)
(* OnboardingRepository (onboarding_operations.py), Airflow                *)
(* (airflow_client.py, generic_etl.py) and the correlated ETL runs.        *)
(*                                                                         *)
(* Unlike an upload, which has one correlation id for ever, every attempt  *)
(* at a first run takes a new one, and its Airflow run id with it.  So the *)
(* unique index of the ledger protects one attempt from itself and not the *)
(* attempts from each other.                                               *)
(*                                                                         *)
(* A handler is a sequence of steps between which any other may act: a     *)
(* repository call is a transaction, an Airflow call an HTTP request.  The *)
(* identifiers are the numbers of the attempts; 0 stands for NULL.  The    *)
(* configurations the onboarding writes have orchestration.retries 0.      *)
(***************************************************************************)
EXTENDS Naturals, FiniteSets

CONSTANTS
  Request,       \* handler threads; each serves requests one after another
  Poller,        \* threads of Request a client uses to poll the completion
  Kinds,         \* what the clients of the other threads ask for
  OneAtATime,    \* a client waits for an answer before it sends a request
  AirflowFaults, \* Airflow may fail to answer, having acted or not
  HandlerFaults, \* a handler may be cut off: its process dies, a transaction fails
  MaxFaults,     \* bound on those faults
  MaxAttempts    \* bound on the attempts at a first run

ASSUME RequestAssumption ==
  /\ Poller \subseteq Request
  /\ Kinds \subseteq {"activate", "run", "completion"}
ASSUME FaultAssumption ==
  /\ {OneAtATime, AirflowFaults, HandlerFaults} \subseteq BOOLEAN
  /\ MaxFaults \in Nat
ASSUME AttemptAssumption == MaxAttempts \in Nat \ {0}

VARIABLES
  row,         \* the row of etl_app.onboarding_sessions
  discovered,  \* Airflow has parsed the approved configuration
  dagRun,      \* per attempt: the state of Airflow's DAG run of that id
  worker,      \* per attempt: the process of its ETL run
  etl,         \* per attempt: status of the ledger row with its correlation id
  published,   \* attempts whose rows are in the trusted table
  pc,          \* program point of a handler
  seen,        \* the row it works with
  retry,       \* the retry flag of run_first
  nextId,      \* the attempt run_first has numbered, 0 outside of it
  found,       \* activate's discovered
  etlSeen,     \* the ledger status it has read
  airflowSeen, \* its local airflow_state
  faults,      \* faults so far
  overlapped,  \* two requests were at work at a time (history)
  lost         \* Airflow started a run and its answer was lost (history)

airflowVars == <<discovered, dagRun, worker, etl, published>>
localVars   == <<seen, retry, nextId, found, etlSeen, airflowSeen>>
vars == <<row, airflowVars, pc, localVars, faults, overlapped, lost>>

-----------------------------------------------------------------------------
(* Types *)

Attempt == 1..MaxAttempts

Status == {"APPROVED", "ACTIVATING", "ACTIVATION_FAILED", "READY_FOR_FIRST_RUN",
           "TRIGGERING", "QUEUED", "RUNNING", "SUCCEEDED", "FIRST_RUN_FAILED"}

\* activate only shows a session in one of these states.
Activated == {"READY_FOR_FIRST_RUN", "TRIGGERING", "QUEUED", "RUNNING",
              "SUCCEEDED", "FIRST_RUN_FAILED"}

\* claim_first_run does not trigger again in one of these.
Triggered == {"TRIGGERING", "QUEUED", "RUNNING", "SUCCEEDED"}

AirflowState == {"NONE", "UNKNOWN", "QUEUED", "RUNNING", "SUCCESS", "FAILED"}

EtlStatus == {"ABSENT", "RUNNING", "SUCCEEDED", "FAILED"}

Row ==
  [status  : Status,
   attempt : 0..MaxAttempts,         \* first_run_attempt
   corr    : 0..MaxAttempts,         \* first_run_correlation_id, airflow_run_id
   airflow : AirflowState,           \* airflow_state, NONE for NULL
   linked  : 0..MaxAttempts]         \* etl_run_id

Point == {"idle", "a_begin", "a_poll", "a_finish",
          "r_claim", "r_trigger", "r_mark", "r_fail", "c_read", "c_etl", "c_airflow", "c_sync"}

Approved ==
  [status |-> "APPROVED", attempt |-> 0, corr |-> 0, airflow |-> "NONE", linked |-> 0]

TypeOK ==
  /\ row \in Row
  /\ discovered \in BOOLEAN
  /\ dagRun \in [Attempt -> AirflowState \ {"UNKNOWN"}]
  /\ worker \in [Attempt -> {"none", "running", "published", "succeeded", "failed"}]
  /\ etl \in [Attempt -> EtlStatus]
  /\ published \in SUBSET Attempt
  /\ pc \in [Request -> Point]
  /\ seen \in [Request -> Row]
  /\ retry \in [Request -> BOOLEAN]
  /\ nextId \in [Request -> 0..MaxAttempts]
  /\ found \in [Request -> BOOLEAN]
  /\ etlSeen \in [Request -> EtlStatus]
  /\ airflowSeen \in [Request -> AirflowState]
  /\ faults \in 0..MaxFaults
  /\ {overlapped, lost} \subseteq BOOLEAN

-----------------------------------------------------------------------------
(* A request *)

Goto(q, point) == pc' = [pc EXCEPT ![q] = point]

\* One of the faults that are switched on happens.
Fault(on) ==
  /\ on
  /\ faults < MaxFaults
  /\ faults' = faults + 1

\* What a handler had read is gone once it answers or calls completion.
Forget(q) ==
  /\ seen' = [seen EXCEPT ![q] = Approved]
  /\ retry' = [retry EXCEPT ![q] = FALSE]
  /\ nextId' = [nextId EXCEPT ![q] = 0]
  /\ found' = [found EXCEPT ![q] = FALSE]
  /\ etlSeen' = [etlSeen EXCEPT ![q] = "ABSENT"]
  /\ airflowSeen' = [airflowSeen EXCEPT ![q] = "NONE"]

Answer(q) == Goto(q, "idle") /\ Forget(q)

Complete(q) == Goto(q, "c_read") /\ Forget(q)

Asked(q, kind) == q \notin Poller /\ kind \in Kinds

\* A request arrives at an idle thread.
Arrive(q) ==
  LET others == \E p \in Request \ {q} : pc[p] # "idle"
  IN /\ pc[q] = "idle"
     /\ OneAtATime => ~others
     /\ overlapped' = (overlapped \/ others)

\* activate, and the end of approve, of a session whose DAG is not known yet.
RequestActivation(q) ==
  /\ Asked(q, "activate")
  /\ row.status \notin Activated
  /\ Arrive(q)
  /\ Goto(q, "a_begin")
  /\ UNCHANGED <<row, airflowVars, localVars, faults, lost>>

\* run_first: the row is read and the attempt numbered after it.
RequestRun(q, again) ==
  /\ Asked(q, "run")
  /\ row.attempt < MaxAttempts
  /\ Arrive(q)
  /\ Goto(q, "r_claim")
  /\ retry' = [retry EXCEPT ![q] = again]
  /\ nextId' = [nextId EXCEPT ![q] = row.attempt + 1]
  /\ UNCHANGED <<row, airflowVars, seen, found, etlSeen, airflowSeen, faults, lost>>

\* completion begins with reading the row; without a correlation id there is
\* nothing to ask and the answer follows at once.
Read(q) ==
  /\ row.corr # 0
  /\ seen' = [seen EXCEPT ![q] = row]
  /\ airflowSeen' = [airflowSeen EXCEPT ![q] = row.airflow]
  /\ Goto(q, "c_etl")
  /\ UNCHANGED <<retry, nextId, found, etlSeen>>

\* activate of a session whose DAG is known is no more than a completion.
RequestCompletion(q) ==
  /\ q \in Poller \/ Asked(q, "completion")
  /\ Arrive(q)
  /\ Read(q)
  /\ UNCHANGED <<row, airflowVars, faults, lost>>

-----------------------------------------------------------------------------
(* activate *)

BeginActivation(q) ==
  /\ pc[q] = "a_begin"
  /\ row' = [row EXCEPT !.status = "ACTIVATING"]
  /\ Goto(q, "a_poll")
  /\ UNCHANGED <<airflowVars, localVars, faults, overlapped, lost>>

\* Airflow is asked until it knows the DAG or the deadline has passed.
PollDag(q) ==
  /\ pc[q] = "a_poll"
  /\ \/ /\ discovered
        /\ found' = [found EXCEPT ![q] = TRUE]
        /\ UNCHANGED faults
     \/ /\ IF discovered THEN Fault(AirflowFaults) ELSE UNCHANGED faults
        /\ UNCHANGED found
  /\ Goto(q, "a_finish")
  /\ UNCHANGED <<row, airflowVars, seen, retry, nextId, etlSeen, airflowSeen, overlapped, lost>>

\* The UPDATE does not look at the status it replaces.
FinishActivation(q) ==
  /\ pc[q] = "a_finish"
  /\ row' = [row EXCEPT !.status = IF found[q] THEN "READY_FOR_FIRST_RUN"
                                               ELSE "ACTIVATION_FAILED"]
  /\ Complete(q)
  /\ UNCHANGED <<airflowVars, faults, overlapped, lost>>

-----------------------------------------------------------------------------
(* run_first *)

\* Mutant of MayClaim: a run that was triggered may be triggered again.
MayClaimAgain(q) ==
  \/ row.status = "READY_FOR_FIRST_RUN"
  \/ retry[q] /\ row.status \in {"FIRST_RUN_FAILED", "QUEUED"}

MayClaim(q) ==
  \/ row.status = "READY_FOR_FIRST_RUN"
  \/ retry[q] /\ row.status = "FIRST_RUN_FAILED"

\* SELECT ... FOR UPDATE and UPDATE in one transaction.  The attempt is counted
\* in the database, its identifiers come from the number read before.
ClaimFirstRun(q) ==
  /\ pc[q] = "r_claim"
  /\ \/ /\ MayClaim(q) /\ row.attempt < MaxAttempts
        /\ row' = [status |-> "TRIGGERING", attempt |-> row.attempt + 1,
                   corr |-> nextId[q], airflow |-> "NONE", linked |-> 0]
        /\ Goto(q, "r_trigger")
        /\ UNCHANGED localVars
     \/ /\ row.status \in Triggered
        /\ Complete(q)
        /\ UNCHANGED row
     \/ /\ row.status \notin Triggered
        /\ ~MayClaim(q) \/ row.attempt = MaxAttempts
        /\ Answer(q)
        /\ UNCHANGED row
  /\ UNCHANGED <<airflowVars, faults, overlapped, lost>>

\* The DAG is unpaused and a run with the claimed id is asked for; on HTTP 409
\* the existing run is read instead.  A lost answer of the second request says
\* nothing about whether the run exists.
Trigger(q) ==
  /\ pc[q] = "r_trigger"
  /\ LET n == nextId[q]
     IN \/ /\ discovered
           /\ dagRun' = [dagRun EXCEPT ![n] = IF @ = "NONE" THEN "QUEUED" ELSE @]
           /\ \/ /\ airflowSeen' = [airflowSeen EXCEPT ![q] = dagRun'[n]]
                 /\ Goto(q, "r_mark")
                 /\ UNCHANGED <<faults, lost>>
              \/ /\ Fault(AirflowFaults)
                 /\ lost' = TRUE
                 /\ Goto(q, "r_fail")
                 /\ UNCHANGED airflowSeen
        \/ /\ IF discovered THEN Fault(AirflowFaults) ELSE UNCHANGED faults
           /\ Goto(q, "r_fail")
           /\ UNCHANGED <<dagRun, airflowSeen, lost>>
  /\ UNCHANGED <<row, discovered, worker, etl, published, seen, retry, nextId, found,
                 etlSeen, overlapped>>

MarkTriggered(q) ==
  /\ pc[q] = "r_mark"
  /\ row' = [row EXCEPT !.status = "QUEUED", !.airflow = airflowSeen[q]]
  /\ Complete(q)
  /\ UNCHANGED <<airflowVars, faults, overlapped, lost>>

MarkFailed(q) ==
  /\ pc[q] = "r_fail"
  /\ row' = [row EXCEPT !.status = "FIRST_RUN_FAILED", !.airflow = "FAILED"]
  /\ Answer(q)
  /\ UNCHANGED <<airflowVars, faults, overlapped, lost>>

-----------------------------------------------------------------------------
(* completion: the row, the ledger and Airflow are read one after the other, *)
(* and what follows from them is written over whatever is there by then.     *)

ReadRow(q) ==
  /\ pc[q] = "c_read"
  /\ Read(q) \/ (row.corr = 0 /\ Answer(q))
  /\ UNCHANGED <<row, airflowVars, faults, overlapped, lost>>

ReadLedger(q) ==
  /\ pc[q] = "c_etl"
  /\ etlSeen' = [etlSeen EXCEPT ![q] = etl[seen[q].corr]]
  /\ Goto(q, "c_airflow")
  /\ UNCHANGED <<row, airflowVars, seen, retry, nextId, found, airflowSeen, faults,
                 overlapped, lost>>

ReadAirflow(q) ==
  /\ pc[q] = "c_airflow"
  /\ LET state == dagRun[seen[q].corr]
     IN \/ /\ state # "NONE"
           /\ airflowSeen' = [airflowSeen EXCEPT ![q] = state]
           /\ UNCHANGED faults
        \/ /\ IF state = "NONE" THEN UNCHANGED faults ELSE Fault(AirflowFaults)
           /\ airflowSeen' =
                [airflowSeen EXCEPT ![q] = IF @ = "NONE" THEN "UNKNOWN" ELSE @]
  /\ Goto(q, "c_sync")
  /\ UNCHANGED <<row, airflowVars, seen, retry, nextId, found, etlSeen, overlapped, lost>>

\* Mutants of ShownStatus: the ledger's status as it is; Airflow is believed
\* without a ledger row; Airflow decides although there is one.
ShownAsInLedger(q) == IF etlSeen[q] # "ABSENT" THEN etlSeen[q] ELSE seen[q].status
ShownTrustingAirflow(q) ==
  IF etlSeen[q] = "SUCCEEDED" \/ airflowSeen[q] = "SUCCESS" THEN "SUCCEEDED"
  ELSE IF etlSeen[q] = "FAILED" \/ airflowSeen[q] = "FAILED" THEN "FIRST_RUN_FAILED"
  ELSE IF airflowSeen[q] \in {"QUEUED", "RUNNING"} THEN airflowSeen[q]
  ELSE seen[q].status
ShownByAirflow(q) ==
  IF airflowSeen[q] \in {"QUEUED", "RUNNING"} THEN airflowSeen[q]
  ELSE IF airflowSeen[q] \in {"FAILED", "SUCCESS"} THEN "FIRST_RUN_FAILED"
  ELSE seen[q].status

\* The ledger decides; without a ledger row Airflow does; without either the
\* session keeps the status it was read with.
ShownStatus(q) ==
  CASE etlSeen[q] = "SUCCEEDED" -> "SUCCEEDED"
    [] etlSeen[q] = "FAILED"    -> "FIRST_RUN_FAILED"
    [] etlSeen[q] = "RUNNING"   -> "RUNNING"
    [] etlSeen[q] = "ABSENT"    ->
         CASE airflowSeen[q] = "RUNNING"               -> "RUNNING"
           [] airflowSeen[q] \in {"FAILED", "SUCCESS"} -> "FIRST_RUN_FAILED"
           [] airflowSeen[q] = "QUEUED"                -> "QUEUED"
           [] airflowSeen[q] \in {"NONE", "UNKNOWN"}   -> seen[q].status

Sync(q) ==
  /\ pc[q] = "c_sync"
  /\ LET run  == IF etlSeen[q] = "ABSENT" THEN 0 ELSE seen[q].corr
         news == \/ ShownStatus(q) # seen[q].status
                 \/ airflowSeen[q] # seen[q].airflow
                 \/ run # 0 /\ seen[q].linked # run
     IN row' = IF news THEN [row EXCEPT !.status = ShownStatus(q),
                                        !.airflow = airflowSeen[q],
                                        !.linked = IF run = 0 THEN @ ELSE run]
                       ELSE row
  /\ Answer(q)
  /\ UNCHANGED <<airflowVars, faults, overlapped, lost>>

\* The handler does not get to its end: the process dies, the database is away.
Abort(q) ==
  /\ Fault(HandlerFaults)
  /\ pc[q] # "idle"
  /\ Answer(q)
  /\ UNCHANGED <<row, airflowVars, overlapped, lost>>

Handle(q) ==
  \/ BeginActivation(q) \/ PollDag(q) \/ FinishActivation(q)
  \/ ClaimFirstRun(q) \/ Trigger(q) \/ MarkTriggered(q) \/ MarkFailed(q)
  \/ ReadRow(q) \/ ReadLedger(q) \/ ReadAirflow(q) \/ Sync(q)

-----------------------------------------------------------------------------
(* Airflow and the ETL runs it starts *)

apiVars == <<row, pc, localVars, overlapped, lost>>

Discover ==
  /\ ~discovered
  /\ discovered' = TRUE
  /\ UNCHANGED <<apiVars, dagRun, worker, etl, published, faults>>

EndDagRun(n, state) == dagRun' = [dagRun EXCEPT ![n] = state]

\* validate_config passes, or fails the DAG run.
StartDagRun(n) ==
  /\ dagRun[n] = "QUEUED"
  /\ \E state \in {"RUNNING", "FAILED"} : EndDagRun(n, state)
  /\ UNCHANGED <<apiVars, discovered, worker, etl, published, faults>>

\* start_run inserts the ledger row, or the task ends before it.
StartEtl(n) ==
  /\ dagRun[n] = "RUNNING" /\ etl[n] = "ABSENT"
  /\ \/ /\ etl' = [etl EXCEPT ![n] = "RUNNING"]
        /\ worker' = [worker EXCEPT ![n] = "running"]
        /\ UNCHANGED dagRun
     \/ /\ EndDagRun(n, "FAILED")
        /\ UNCHANGED <<etl, worker>>
  /\ UNCHANGED <<apiVars, discovered, published, faults>>

Publish(n) ==
  /\ worker[n] = "running"
  /\ worker' = [worker EXCEPT ![n] = "published"]
  /\ published' = published \cup {n}
  /\ UNCHANGED <<apiVars, discovered, dagRun, etl, faults>>

\* finish_run writes how the run ended to the ledger ...
FinishEtl(n) ==
  /\ \/ /\ worker[n] = "published"
        /\ worker' = [worker EXCEPT ![n] = "succeeded"]
        /\ etl' = [etl EXCEPT ![n] = "SUCCEEDED"]
     \/ /\ worker[n] = "running"
        /\ worker' = [worker EXCEPT ![n] = "failed"]
        /\ etl' = [etl EXCEPT ![n] = "FAILED"]
  /\ UNCHANGED <<apiVars, discovered, dagRun, published, faults>>

\* ... and only then the process ends, and with it the task and the DAG run.
EndTask(n) ==
  /\ \/ worker[n] = "succeeded" /\ EndDagRun(n, "SUCCESS")
     \/ worker[n] = "failed" /\ EndDagRun(n, "FAILED")
  /\ worker' = [worker EXCEPT ![n] = "none"]
  /\ UNCHANGED <<apiVars, discovered, etl, published, faults>>

\* The worker dies: the ledger row stays as it is, which may be RUNNING.
KillWorker(n) ==
  /\ Fault(HandlerFaults)
  /\ worker[n] # "none"
  /\ worker' = [worker EXCEPT ![n] = "none"]
  /\ EndDagRun(n, "FAILED")
  /\ UNCHANGED <<apiVars, discovered, etl, published>>

Execute(n) ==
  StartDagRun(n) \/ StartEtl(n) \/ Publish(n) \/ FinishEtl(n) \/ EndTask(n)

-----------------------------------------------------------------------------
Init ==
  /\ row = Approved
  /\ discovered = FALSE
  /\ dagRun = [n \in Attempt |-> "NONE"]
  /\ worker = [n \in Attempt |-> "none"]
  /\ etl = [n \in Attempt |-> "ABSENT"]
  /\ published = {}
  /\ pc = [q \in Request |-> "idle"]
  /\ seen = [q \in Request |-> Approved]
  /\ retry = [q \in Request |-> FALSE]
  /\ nextId = [q \in Request |-> 0]
  /\ found = [q \in Request |-> FALSE]
  /\ etlSeen = [q \in Request |-> "ABSENT"]
  /\ airflowSeen = [q \in Request |-> "NONE"]
  /\ faults = 0
  /\ overlapped = FALSE
  /\ lost = FALSE

Next ==
  \/ \E q \in Request : \/ RequestActivation(q)
                        \/ \E again \in BOOLEAN : RequestRun(q, again)
                        \/ RequestCompletion(q)
                        \/ Handle(q)
                        \/ Abort(q)
  \/ Discover
  \/ \E n \in Attempt : Execute(n) \/ KillWorker(n)

Spec == Init /\ [][Next]_vars

\* The page asks for the completion every 2.5 seconds in every status
\* (ConfigurationBuilderPage.tsx:341), and the handler that answers it runs to its
\* end unless it is cut off.  Nothing else has to go on: nobody has to press a
\* button, and Airflow, the workers and other requests may hang.
Fairness ==
  \A q \in Poller : WF_pc(RequestCompletion(q) \/ Handle(q))

FairSpec == Spec /\ Fairness

-----------------------------------------------------------------------------
(* Properties *)

\* "Status resolution queries that correlation identifier rather than guessing
\* the latest dataset run": a session is shown SUCCEEDED only with the run it
\* is linked to, and that run has succeeded and published.
SuccessIsReal ==
  row.status = "SUCCEEDED" =>
    row.linked # 0 /\ etl[row.linked] = "SUCCEEDED" /\ row.linked \in published

\* While requests came one at a time, each attempt runs under identifiers of
\* its own, and unless Airflow's answer to a trigger was lost at most one attempt
\* is waiting or at work, however often Run and Retry are pressed and whatever
\* else fails.  A retry does not wait for Airflow: the DAG run of an attempt
\* whose ledger row has ended may still be RUNNING beside the next.
AtWork ==
  {n \in Attempt : \/ dagRun[n] = "QUEUED"
                   \/ dagRun[n] = "RUNNING" /\ etl[n] \in {"ABSENT", "RUNNING"}}

OneRunAtATime ==
  ~overlapped =>
    /\ row.corr = row.attempt
    /\ ~lost => Cardinality(AtWork) <= 1

\* What the current attempt has come to is shown in the end, whatever stale
\* answers were written over it, unless a new attempt takes its place.
Over(n) ==
  etl[n] \in {"SUCCEEDED", "FAILED"} \/ (etl[n] = "ABSENT" /\ dagRun[n] = "FAILED")

Shown(n) ==
  /\ row.status = IF etl[n] = "SUCCEEDED" THEN "SUCCEEDED" ELSE "FIRST_RUN_FAILED"
  /\ etl[n] # "ABSENT" => row.linked = n

CurrentIsOver == row.corr # 0 /\ Over(row.corr)

ResultIsShown == CurrentIsOver ~> ~CurrentIsOver \/ Shown(row.corr)
=============================================================================
