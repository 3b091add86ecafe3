------------------------ MODULE UploadSessionProofs ------------------------
(***************************************************************************)
(* Theorems about UploadSession, for any number of handler threads and     *)
(* retries and with every fault switched on or off.                        *)
(***************************************************************************)
EXTENDS UploadSession, TLAPS

USE DEF airflowVars, localVars, history, apiVars, Fault, End, Refuse

-----------------------------------------------------------------------------
(* Types.  The bound on the attempts needs to know that a DAG run that     *)
(* has not failed has an attempt left, and that only a running one has a   *)
(* worker.                                                                 *)

TypeInv ==
  /\ TypeOK
  /\ worker # "none" => dagRun = "RUNNING"
  /\ dagRun # "FAILED" => attempts <= Retries

LEMMA TypeInit == Init => TypeInv
<1> SUFFICES ASSUME Init PROVE TypeInv
  OBVIOUS
<1>1. Shown("UPLOADED") = "UPLOADED" /\ "UPLOADED" \in Status
  BY DEF Shown, Status
<1>2. page \in {Shown(status) : status \in Status}
  BY <1>1 DEF Init
<1>3. {overlapped, cut} \subseteq BOOLEAN
  BY DEF Init
<1>4. /\ attempts \in 0..(Retries + 1) /\ attempts <= Retries
      /\ faults \in 0..MaxFaults
  BY RetryAssumption, FaultAssumption DEF Init
<1>5. Uploaded \in Session
  BY DEF Uploaded, Session, Status, AirflowState
<1> QED
  BY <1>2, <1>3, <1>4, <1>5
  DEF Init, TypeInv, TypeOK, AirflowState, EtlStatus, Point

LEMMA ShownIsStatus ==
  ASSUME TypeOK, NEW q \in Request
  PROVE  ShownStatus(q) \in Status
  BY DEF TypeOK, ShownStatus, Session, Status, EtlStatus, AirflowState

\* What every handler leaves behind.
LEMMA EndKeepsTypes ==
  ASSUME TypeOK, NEW q \in Request, End(q)
  PROVE  /\ pc' \in [Request -> Point]
         /\ seen' \in [Request -> Session]
         /\ etlSeen' \in [Request -> EtlStatus]
         /\ airflowSeen' \in [Request -> AirflowState]
  BY DEF TypeOK, Goto, Point, Uploaded, Session, Status, EtlStatus, AirflowState

LEMMA AnswerKeepsTypes ==
  ASSUME TypeOK, NEW q \in Request, NEW status \in Status, Answer(q, status)
  PROVE  page' \in {Shown(s) : s \in Status}
  BY DEF TypeOK, Answer

LEMMA TypeNext == TypeInv /\ [Next]_vars => TypeInv'
<1> SUFFICES ASSUME TypeInv, [Next]_vars PROVE TypeInv'
  OBVIOUS
<1> USE RetryAssumption, FaultAssumption DEF TypeInv, TypeOK
<1>1. ASSUME NEW q \in Request, NEW kind \in DOMAIN Entry, Receive(q, kind)
      PROVE  TypeInv'
  BY <1>1 DEF Receive, Goto, Entry, Point
<1>2. ASSUME NEW q \in Request, ValidateRead(q) PROVE TypeInv'
  BY <1>2 DEF ValidateRead, Goto, Point
<1>3. ASSUME NEW q \in Request, NEW outcome \in Verdicts, SetPreflight(q, outcome)
      PROVE  TypeInv'
  <2>1. outcome \in Status /\ session' \in Session
    BY <1>3, VerdictAssumption DEF SetPreflight, Session, Status
  <2> QED
    BY <2>1, <1>3, EndKeepsTypes, AnswerKeepsTypes DEF SetPreflight, Answer
<1>4. ASSUME NEW q \in Request, ClaimTrigger(q) PROVE TypeInv'
  <2>1. session' \in Session
    BY <1>4 DEF ClaimTrigger, Session, Status
  <2>2. pc' \in [Request -> Point]
    BY <1>4 DEF ClaimTrigger, Goto, Point
  <2>3. UNCHANGED localVars \/ End(q)
    BY <1>4 DEF ClaimTrigger
  <2> QED
    BY <2>1, <2>2, <2>3, <1>4, EndKeepsTypes DEF ClaimTrigger
<1>5. ASSUME NEW q \in Request, Trigger(q) PROVE TypeInv'
  BY <1>5 DEF Trigger, Goto, Point, AirflowState
<1>6. ASSUME NEW q \in Request, MarkTriggered(q) PROVE TypeInv'
  <2>1. "QUEUED" \in Status /\ session' \in Session
    BY <1>6 DEF MarkTriggered, Session, Status
  <2> QED
    BY <2>1, <1>6, EndKeepsTypes, AnswerKeepsTypes DEF MarkTriggered, Answer
<1>7. ASSUME NEW q \in Request, MarkFailed(q) PROVE TypeInv'
  <2>1. session' \in Session
    BY <1>7 DEF MarkFailed, Session, Status
  <2> QED
    BY <2>1, <1>7, EndKeepsTypes DEF MarkFailed
<1>8. ASSUME NEW q \in Request, ReadSession(q) PROVE TypeInv'
  BY <1>8 DEF ReadSession, Goto, Point, Session
<1>9. ASSUME NEW q \in Request, ReadLedger(q) PROVE TypeInv'
  BY <1>9 DEF ReadLedger, Goto, Point
<1>10. ASSUME NEW q \in Request, ReadAirflow(q) PROVE TypeInv'
  BY <1>10 DEF ReadAirflow, Goto, Point, AirflowState
<1>11. ASSUME NEW q \in Request, MarkNoResult(q) PROVE TypeInv'
  BY <1>11 DEF MarkNoResult, Goto, Point, Session, Status
<1>12. ASSUME NEW q \in Request, Sync(q) PROVE TypeInv'
  <2>1. ShownStatus(q) \in Status /\ session' \in Session
    BY <1>12, ShownIsStatus DEF Sync, Session
  <2> QED
    BY <2>1, <1>12, EndKeepsTypes, AnswerKeepsTypes DEF Sync, Answer
<1>13. ASSUME NEW q \in Request, Abort(q) PROVE TypeInv'
  <2>1. faults' \in 0..MaxFaults /\ {overlapped, cut}' \subseteq BOOLEAN
    BY <1>13 DEF Abort
  <2> QED
    BY <2>1, <1>13, EndKeepsTypes DEF Abort
<1>14. CASE Execute
  BY <1>14
  DEF Execute, StartDagRun, StartEtl, RejectAttempt, Publish, SucceedEtl, FailEtl,
      EndTask, FailAttempt, EtlStatus, AirflowState
<1>15. CASE KillWorker
  BY <1>15 DEF KillWorker, FailAttempt, AirflowState
<1>16. CASE UNCHANGED vars
  BY <1>16 DEF vars
<1> QED
  BY <1>1, <1>2, <1>3, <1>4, <1>5, <1>6, <1>7, <1>8, <1>9, <1>10, <1>11, <1>12,
     <1>13, <1>14, <1>15, <1>16
  DEF Next, Handle

\* Every variable keeps its type, and Airflow makes at most one attempt more
\* than the dataset's retries (generic_etl.py).
THEOREM UploadTypeCorrect == Spec => []TypeOK
<1>1. TypeInv => TypeOK
  BY DEF TypeInv
<1> QED
  BY <1>1, TypeInit, TypeNext, PTL DEF Spec

-----------------------------------------------------------------------------
(* One correlation id, one publication.                                    *)

\* The ledger row stands for the only attempt that can have published: it is
\* there before that attempt publishes and keeps every other from starting.
LedgerGuardsPublish ==
  /\ published \in Nat
  /\ etl = "ABSENT" => published = 0 /\ worker = "none"
  /\ worker \in {"none", "running", "published", "succeeded", "failed"}
  /\ worker = "running" => published = 0 /\ etl = "RUNNING"
  /\ worker = "published" => published = 1 /\ etl = "RUNNING"
  /\ worker = "succeeded" => etl = "SUCCEEDED"
  /\ worker = "failed" => etl = "FAILED"
  /\ etl = "SUCCEEDED" => published = 1 /\ worker \in {"none", "succeeded"}
  /\ published <= 1

LEMMA PublishInit == Init => LedgerGuardsPublish
  BY DEF Init, LedgerGuardsPublish

LEMMA PublishNext == LedgerGuardsPublish /\ [Next]_vars => LedgerGuardsPublish'
<1> SUFFICES ASSUME LedgerGuardsPublish, [Next]_vars PROVE LedgerGuardsPublish'
  OBVIOUS
<1> USE DEF LedgerGuardsPublish
<1>1. ASSUME NEW q \in Request, NEW kind \in DOMAIN Entry, Receive(q, kind)
      PROVE  LedgerGuardsPublish'
  BY <1>1 DEF Receive
<1>2. ASSUME NEW q \in Request, Handle(q) PROVE LedgerGuardsPublish'
  BY <1>2
  DEF Handle, ValidateRead, SetPreflight, ClaimTrigger, Trigger, MarkTriggered,
      MarkFailed, ReadSession, ReadLedger, ReadAirflow, MarkNoResult, Sync
<1>3. ASSUME NEW q \in Request, Abort(q) PROVE LedgerGuardsPublish'
  BY <1>3 DEF Abort
<1>4. CASE Execute
  BY <1>4
  DEF Execute, StartDagRun, StartEtl, RejectAttempt, Publish, SucceedEtl, FailEtl,
      EndTask, FailAttempt
<1>5. CASE KillWorker
  BY <1>5 DEF KillWorker, FailAttempt
<1>6. CASE UNCHANGED vars
  BY <1>6 DEF vars
<1> QED
  BY <1>1, <1>2, <1>3, <1>4, <1>5, <1>6 DEF Next

\* The unique correlation id (postgres.py, start_run) makes Run idempotent:
\* whatever is pressed, lost, retried or dies, the file is published at most
\* once.
THEOREM PublishedOnceCorrect == Spec => []PublishedAtMostOnce
<1>1. LedgerGuardsPublish => PublishedAtMostOnce
  BY DEF LedgerGuardsPublish, PublishedAtMostOnce
<1> QED
  BY <1>1, PublishInit, PublishNext, PTL DEF Spec

-----------------------------------------------------------------------------
(* A success that is shown has happened.                                   *)

\* Whatever a handler has read of a success is still so when it writes it.
SuccessSeenIsReal ==
  /\ session.status = "SUCCEEDED" => etl = "SUCCEEDED"
  /\ \A q \in Request : seen[q].status = "SUCCEEDED" => etl = "SUCCEEDED"
  /\ \A q \in Request : etlSeen[q] = "SUCCEEDED" => etl = "SUCCEEDED"

LEMMA SuccessInit == Init => SuccessSeenIsReal
  BY DEF Init, SuccessSeenIsReal, Uploaded

LEMMA EndForgets ==
  ASSUME TypeOK, SuccessSeenIsReal, NEW q \in Request, End(q), UNCHANGED etl,
         session'.status = "SUCCEEDED" => etl = "SUCCEEDED"
  PROVE  SuccessSeenIsReal'
  BY DEF TypeOK, SuccessSeenIsReal, Uploaded

LEMMA SuccessNext ==
  TypeOK /\ LedgerGuardsPublish /\ SuccessSeenIsReal /\ [Next]_vars
    => SuccessSeenIsReal'
<1> SUFFICES ASSUME TypeOK, LedgerGuardsPublish, SuccessSeenIsReal, [Next]_vars
             PROVE  SuccessSeenIsReal'
  OBVIOUS
<1> USE DEF SuccessSeenIsReal, TypeOK, Session, Uploaded
\* A handler does not touch the ledger.
<1>1. ASSUME NEW q \in Request, NEW kind \in DOMAIN Entry, Receive(q, kind)
      PROVE  SuccessSeenIsReal'
  BY <1>1 DEF Receive
<1>2. ASSUME NEW q \in Request, ValidateRead(q) \/ Trigger(q) PROVE SuccessSeenIsReal'
  BY <1>2 DEF ValidateRead, Trigger
<1>3. ASSUME NEW q \in Request, NEW outcome \in Verdicts, SetPreflight(q, outcome)
      PROVE  SuccessSeenIsReal'
  <2>1. session'.status # "SUCCEEDED" /\ UNCHANGED etl
    BY <1>3, VerdictAssumption DEF SetPreflight
  <2> QED
    BY <2>1, <1>3, EndForgets DEF SetPreflight, Answer
<1>4. ASSUME NEW q \in Request, ClaimTrigger(q) PROVE SuccessSeenIsReal'
  <2>1. (session'.status = "SUCCEEDED" => session.status = "SUCCEEDED") /\ UNCHANGED etl
    BY <1>4 DEF ClaimTrigger
  <2> QED
    BY <2>1, <1>4, EndForgets DEF ClaimTrigger
<1>5. ASSUME NEW q \in Request, MarkTriggered(q) \/ MarkFailed(q) PROVE SuccessSeenIsReal'
  <2>1. session'.status # "SUCCEEDED" /\ UNCHANGED etl
    BY <1>5 DEF MarkTriggered, MarkFailed
  <2> QED
    BY <2>1, <1>5, EndForgets DEF MarkTriggered, MarkFailed, Answer
<1>6. ASSUME NEW q \in Request, ReadSession(q) \/ ReadLedger(q) \/ ReadAirflow(q)
      PROVE  SuccessSeenIsReal'
  BY <1>6 DEF ReadSession, ReadLedger, ReadAirflow
<1>7. ASSUME NEW q \in Request, MarkNoResult(q) PROVE SuccessSeenIsReal'
  BY <1>7 DEF MarkNoResult
<1>8. ASSUME NEW q \in Request, Sync(q) PROVE SuccessSeenIsReal'
  <2>1. ShownStatus(q) = "SUCCEEDED" => etl = "SUCCEEDED"
    BY DEF ShownStatus, AirflowState
  <2>2. session'.status = "SUCCEEDED" => etl = "SUCCEEDED"
    BY <1>8, <2>1 DEF Sync
  <2> QED
    BY <2>2, <1>8, EndForgets DEF Sync, Answer
<1>9. ASSUME NEW q \in Request, Abort(q) PROVE SuccessSeenIsReal'
  BY <1>9, EndForgets DEF Abort
\* Nothing follows a success in the ledger: its run has no worker any more.
<1>10. CASE Execute
  BY <1>10
  DEF Execute, StartDagRun, StartEtl, RejectAttempt, Publish, SucceedEtl, FailEtl,
      EndTask, FailAttempt, LedgerGuardsPublish
<1>11. CASE KillWorker
  BY <1>11 DEF KillWorker
<1>12. CASE UNCHANGED vars
  BY <1>12 DEF vars
<1> QED
  BY <1>1, <1>2, <1>3, <1>4, <1>5, <1>6, <1>7, <1>8, <1>9, <1>10, <1>11, <1>12
  DEF Next, Handle

\* Whatever handlers race and whatever they had read, a session is shown
\* SUCCEEDED (upload_service.py, get) only when its ETL run has succeeded and
\* published.
THEOREM SuccessCorrect == Spec => []SuccessIsReal
<1>1. SuccessSeenIsReal /\ LedgerGuardsPublish => SuccessIsReal
  BY DEF SuccessSeenIsReal, LedgerGuardsPublish, SuccessIsReal
<1>2. TypeInv => TypeOK
  BY DEF TypeInv
<1> QED
  BY <1>1, <1>2, TypeInit, TypeNext, PublishInit, PublishNext, SuccessInit,
     SuccessNext, PTL
  DEF Spec

-----------------------------------------------------------------------------
(* The progression of a session whose client waits for every answer.       *)

Started == dagRun \in {"RUNNING", "SUCCESS", "FAILED"}

\* Evidence of a run is never withdrawn: this needs no client that waits.
StartIsReal ==
  /\ etl # "ABSENT" => Started
  /\ session.airflow = "RUNNING" => Started
  /\ \A q \in Request : airflowSeen[q] = "RUNNING" => Started
  /\ \A q \in Request : etlSeen[q] # "ABSENT" => etl # "ABSENT"

LEMMA StartNext ==
  TypeInv /\ LedgerGuardsPublish /\ StartIsReal /\ [Next]_vars => StartIsReal'
<1> SUFFICES ASSUME TypeInv, LedgerGuardsPublish, StartIsReal, [Next]_vars
             PROVE  StartIsReal'
  OBVIOUS
<1> USE DEF StartIsReal, Started, TypeInv, TypeOK, Session
<1>1. ASSUME NEW q \in Request, NEW kind \in DOMAIN Entry, Receive(q, kind)
      PROVE  StartIsReal'
  BY <1>1 DEF Receive
<1>2. ASSUME NEW q \in Request, Handle(q) PROVE StartIsReal'
  <2>1. CASE ValidateRead(q) \/ ReadSession(q) \/ ReadLedger(q) \/ ReadAirflow(q)
             \/ MarkNoResult(q)
    BY <2>1 DEF ValidateRead, ReadSession, ReadLedger, ReadAirflow, MarkNoResult
  <2>2. CASE \/ \E outcome \in Verdicts : SetPreflight(q, outcome)
             \/ ClaimTrigger(q) \/ MarkTriggered(q) \/ MarkFailed(q)
    BY <2>2 DEF SetPreflight, ClaimTrigger, MarkTriggered, MarkFailed, Answer
  <2>3. CASE Trigger(q)
    BY <2>3 DEF Trigger
  <2>4. CASE Sync(q)
    BY <2>4 DEF Sync, Answer
  <2> QED
    BY <1>2, <2>1, <2>2, <2>3, <2>4 DEF Handle
<1>3. ASSUME NEW q \in Request, Abort(q) PROVE StartIsReal'
  BY <1>3 DEF Abort, Answer
<1>4. CASE Execute
  BY <1>4
  DEF Execute, StartDagRun, StartEtl, RejectAttempt, Publish, SucceedEtl, FailEtl,
      EndTask, FailAttempt, LedgerGuardsPublish
<1>5. CASE KillWorker
  BY <1>5 DEF KillWorker, FailAttempt
<1>6. CASE UNCHANGED vars
  BY <1>6 DEF vars
<1> QED
  BY <1>1, <1>2, <1>3, <1>4, <1>5, <1>6 DEF Next

Claimed(q) == pc[q] \in {"r_trigger", "r_mark", "r_fail"}

Derives(q) == pc[q] \in {"g_airflow", "g_status", "g_sync"}

Alone == \A p, q \in Request : pc[p] # "idle" /\ pc[q] # "idle" => p = q

\* What the handler at work knows of the session is still so.
KnowsSession ==
  \A q \in Request :
    /\ pc[q] = "v_write" => session.status \notin TriggeredStates \ {"FAILED"}
    /\ Claimed(q) => session.status = "TRIGGERING"
    /\ pc[q] = "g_etl" \/ Derives(q) => seen[q] = session
    /\ pc[q] = "g_etl" => airflowSeen[q] = session.airflow

\* A session shown RUNNING has a run that has started, and has it from the
\* ledger or from an Airflow that no longer says QUEUED.
RunningIsExplained ==
  session.status = "RUNNING" => Started /\ (etl = "ABSENT" => session.airflow # "QUEUED")

\* So what a handler is about to derive is no step back.
ReadsExplain ==
  \A q \in Request : Derives(q) =>
    /\ session.status = "RUNNING" /\ etlSeen[q] = "ABSENT" => airflowSeen[q] # "QUEUED"
    /\ session.status = "SUCCEEDED" => etlSeen[q] = "SUCCEEDED"

ClientInv ==
  /\ Alone
  /\ KnowsSession
  /\ RunningIsExplained
  /\ ReadsExplain

\* All of it holds as long as no two handlers have been at work at one time.
SerialInv == overlapped \/ ClientInv

\* What a step of a handler must establish, the others being idle.
LEMMA ClientHandler ==
  ASSUME TypeOK, Alone, NEW q \in Request, pc[q] # "idle",
         NEW point \in Point, pc' = [pc EXCEPT ![q] = point],
         RunningIsExplained',
         point = "v_write" => session'.status \notin TriggeredStates \ {"FAILED"},
         Claimed(q)' => session'.status = "TRIGGERING",
         point = "g_etl" \/ Derives(q)' => seen'[q] = session',
         point = "g_etl" => airflowSeen'[q] = session'.airflow,
         Derives(q)' /\ session'.status = "RUNNING" /\ etlSeen'[q] = "ABSENT"
           => airflowSeen'[q] # "QUEUED",
         Derives(q)' /\ session'.status = "SUCCEEDED" => etlSeen'[q] = "SUCCEEDED"
  PROVE  ClientInv'
<1>1. pc'[q] = point /\ \A p \in Request \ {q} : pc'[p] = "idle"
  BY DEF TypeOK, Alone
<1>2. Alone'
  BY <1>1 DEF Alone
<1>3. KnowsSession'
  BY <1>1 DEF KnowsSession, Claimed, Derives
<1>4. ReadsExplain'
  BY <1>1 DEF ReadsExplain, Derives
<1> QED
  BY <1>2, <1>3, <1>4 DEF ClientInv

LEMMA ClientSync ==
  ASSUME TypeInv, StartIsReal, SuccessSeenIsReal, ClientInv, NEW q \in Request, Sync(q)
  PROVE  /\ RunningIsExplained'
         /\ session.status \in TriggeredStates \ {"FAILED"}
              => Rank(session'.status) >= Rank(session.status)
         /\ session'.status = "TRIGGERING" => session.status = "TRIGGERING"
<1> USE DEF TypeInv, TypeOK, Session
<1>1. /\ Derives(q) /\ seen[q] = session
      /\ session.status = "RUNNING" /\ etlSeen[q] = "ABSENT" => airflowSeen[q] # "QUEUED"
      /\ session.status = "SUCCEEDED" => etlSeen[q] = "SUCCEEDED"
  BY DEF ClientInv, KnowsSession, ReadsExplain, Derives, Sync
<1>2. /\ session'.status \in {session.status, ShownStatus(q)}
      /\ session' = session \/ session'.airflow = airflowSeen[q]
      /\ UNCHANGED <<etl, dagRun>>
  BY <1>1 DEF Sync
<1>3. \/ etlSeen[q] # "ABSENT" /\ ShownStatus(q) = etlSeen[q]
      \/ etlSeen[q] = "ABSENT" /\ airflowSeen[q] = "RUNNING" /\ ShownStatus(q) = "RUNNING"
      \/ ShownStatus(q) = "FAILED"
      \/ etlSeen[q] = "ABSENT" /\ airflowSeen[q] = "QUEUED" /\ ShownStatus(q) = "QUEUED"
      \/ /\ etlSeen[q] = "ABSENT" /\ airflowSeen[q] \in {"NONE", "UNKNOWN"}
         /\ ShownStatus(q) = session.status
  BY <1>1 DEF ShownStatus, AirflowState
<1>4. RunningIsExplained'
  <2> SUFFICES ASSUME session'.status = "RUNNING"
               PROVE  Started' /\ (etl' = "ABSENT" => session'.airflow # "QUEUED")
    BY DEF RunningIsExplained
  <2>1. CASE session' = session
    BY <1>2, <2>1 DEF ClientInv, RunningIsExplained, Started
  <2>2. CASE session' # session
    <3>1. ShownStatus(q) = "RUNNING"
      BY <1>1, <2>2 DEF Sync
    <3>2. Started'
      BY <1>2, <1>3, <3>1 DEF StartIsReal, Started, ClientInv, RunningIsExplained
    <3>3. etl' = "ABSENT" => airflowSeen[q] # "QUEUED"
      BY <1>2, <1>3, <3>1 DEF StartIsReal
    <3> QED
      BY <1>2, <2>2, <3>2, <3>3
  <2> QED
    BY <2>1, <2>2
<1>5. session'.status = "TRIGGERING" => session.status = "TRIGGERING"
  BY <1>2, <1>3 DEF EtlStatus
<1>6. ASSUME session.status \in TriggeredStates \ {"FAILED"}
      PROVE  Rank(session'.status) >= Rank(session.status)
  <2>1. CASE session'.status = session.status
    BY <2>1, <1>6 DEF Rank, TriggeredStates
  <2>2. CASE session'.status \in {"SUCCEEDED", "FAILED"}
    BY <2>2, <1>6 DEF Rank, TriggeredStates
  <2>3. CASE session'.status = "RUNNING" /\ session.status # "SUCCEEDED"
    BY <2>3, <1>6 DEF Rank, TriggeredStates
  <2>4. CASE session'.status = "QUEUED" /\ session.status \in {"TRIGGERING", "QUEUED"}
    BY <2>4, <1>6 DEF Rank
  <2> QED
    BY <1>1, <1>2, <1>3, <1>6, <2>1, <2>2, <2>3, <2>4 DEF EtlStatus, TriggeredStates
<1> QED
  BY <1>4, <1>5, <1>6

LEMMA ClientNext ==
  ASSUME TypeInv, LedgerGuardsPublish, StartIsReal, SuccessSeenIsReal, ClientInv,
         ~overlapped', [Next]_vars
  PROVE  ClientInv'
<1> USE DEF TypeInv, TypeOK, Session, Goto
<1>k. Alone /\ KnowsSession /\ RunningIsExplained /\ ReadsExplain
  BY DEF ClientInv
<1>1. ASSUME NEW q \in Request, NEW kind \in DOMAIN Entry, Receive(q, kind) PROVE ClientInv'
  <2>0. \A p \in Request : pc[p] = "idle"
    BY <1>1 DEF Receive
  <2>1. /\ pc'[q] \in {"v_read", "r_claim", "g_read"}
        /\ \A p \in Request \ {q} : pc'[p] = "idle"
        /\ UNCHANGED <<session, airflowVars, localVars>>
    BY <1>1, <2>0 DEF Receive, Entry
  <2> QED
    BY <2>1, <1>k
    DEF ClientInv, Alone, KnowsSession, RunningIsExplained, ReadsExplain, Claimed,
        Derives, Started
<1>a. ASSUME NEW q \in Request, pc[q] # "idle", End(q), RunningIsExplained'
      PROVE  ClientInv'
  <2>1. "idle" \in Point
    BY DEF Point
  <2> QED
    BY <1>a, <1>k, <2>1, ClientHandler DEF Claimed, Derives
<1>2. ASSUME NEW q \in Request, ValidateRead(q) PROVE ClientInv'
  <2>1. CASE session.status \in TriggeredStates \ {"FAILED"}
    <3>1. "g_read" \in Point
      BY DEF Point
    <3> QED
      BY <1>2, <1>k, <2>1, <3>1, ClientHandler
      DEF ValidateRead, Claimed, Derives, RunningIsExplained, Started
  <2>2. CASE session.status \notin TriggeredStates \ {"FAILED"}
    <3>1. "v_write" \in Point
      BY DEF Point
    <3> QED
      BY <1>2, <1>k, <2>2, <3>1, ClientHandler
      DEF ValidateRead, Claimed, Derives, RunningIsExplained, Started
  <2> QED
    BY <2>1, <2>2
<1>3. ASSUME NEW q \in Request, NEW outcome \in Verdicts, SetPreflight(q, outcome)
      PROVE  ClientInv'
  <2>1. session'.status # "RUNNING"
    BY <1>3, VerdictAssumption DEF SetPreflight
  <2> QED
    BY <2>1, <1>3, <1>a DEF SetPreflight, Answer, RunningIsExplained
<1>4. ASSUME NEW q \in Request, ClaimTrigger(q) PROVE ClientInv'
  <2>0. {"g_read", "r_trigger"} \subseteq Point /\ pc[q] # "idle"
    BY <1>4 DEF Point, ClaimTrigger
  <2>1. RunningIsExplained'
    BY <1>4, <1>k DEF ClaimTrigger, RunningIsExplained, Started
  <2>2. CASE pc' = [pc EXCEPT ![q] = "g_read"]
    BY <1>k, <2>0, <2>1, <2>2, ClientHandler DEF Claimed, Derives
  <2>3. CASE pc' = [pc EXCEPT ![q] = "r_trigger"] /\ session'.status = "TRIGGERING"
    BY <1>k, <2>0, <2>1, <2>3, ClientHandler DEF Claimed, Derives
  <2>4. CASE End(q)
    BY <1>a, <2>0, <2>1, <2>4
  <2> QED
    BY <1>4, <2>2, <2>3, <2>4 DEF ClaimTrigger
<1>5. ASSUME NEW q \in Request, Trigger(q) PROVE ClientInv'
  <2>0. {"r_mark", "r_fail"} \subseteq Point
    BY DEF Point
  <2>1. RunningIsExplained' /\ session'.status = "TRIGGERING" /\ pc[q] # "idle"
    BY <1>5, <1>k DEF Trigger, RunningIsExplained, KnowsSession, Claimed
  <2>2. PICK point \in {"r_mark", "r_fail"} : pc' = [pc EXCEPT ![q] = point]
    BY <1>5 DEF Trigger
  <2> QED
    BY <1>k, <2>0, <2>1, <2>2, ClientHandler DEF Claimed, Derives
<1>6. ASSUME NEW q \in Request, MarkTriggered(q) \/ MarkFailed(q) PROVE ClientInv'
  BY <1>6, <1>a DEF MarkTriggered, MarkFailed, Answer, RunningIsExplained
<1>7. ASSUME NEW q \in Request, ReadSession(q) PROVE ClientInv'
  <2>1. "g_etl" \in Point /\ RunningIsExplained'
    BY <1>7, <1>k DEF Point, ReadSession, RunningIsExplained, Started
  <2> QED
    BY <1>7, <1>k, <2>1, ClientHandler DEF ReadSession, Claimed, Derives
<1>8. ASSUME NEW q \in Request, ReadLedger(q) PROVE ClientInv'
  <2>1. {"g_airflow", "g_status"} \subseteq Point /\ RunningIsExplained'
    BY <1>8, <1>k DEF Point, ReadLedger, RunningIsExplained, Started
  <2>2. seen[q] = session /\ airflowSeen[q] = session.airflow /\ etlSeen'[q] = etl
    BY <1>8, <1>k DEF ReadLedger, KnowsSession
  <2>3. /\ session.status = "RUNNING" /\ etl = "ABSENT" => airflowSeen[q] # "QUEUED"
        /\ session.status = "SUCCEEDED" => etl = "SUCCEEDED"
    BY <1>k, <2>2 DEF RunningIsExplained, SuccessSeenIsReal
  <2>4. PICK point \in {"g_airflow", "g_status"} : pc' = [pc EXCEPT ![q] = point]
    BY <1>8 DEF ReadLedger
  <2>5. /\ seen'[q] = session' /\ session' = session
        /\ airflowSeen'[q] = airflowSeen[q] /\ pc[q] # "idle"
    BY <1>8, <2>2 DEF ReadLedger
  <2>6. point \in Point /\ pc'[q] = point
    BY <2>1, <2>4
  <2> QED
    BY <1>k, <2>1, <2>2, <2>3, <2>4, <2>5, <2>6, ClientHandler DEF Claimed, Derives
<1>9. ASSUME NEW q \in Request, ReadAirflow(q) PROVE ClientInv'
  <2>1. "g_status" \in Point /\ RunningIsExplained'
    BY <1>9, <1>k DEF Point, ReadAirflow, RunningIsExplained, Started
  <2>2. /\ seen[q] = session
        /\ session.status = "RUNNING" /\ etlSeen[q] = "ABSENT" => airflowSeen[q] # "QUEUED"
        /\ session.status = "SUCCEEDED" => etlSeen[q] = "SUCCEEDED"
    BY <1>9, <1>k DEF ReadAirflow, KnowsSession, ReadsExplain, Derives
  <2>3. session.status = "RUNNING" => dagRun # "QUEUED"
    BY <1>k DEF RunningIsExplained, Started
  <2>4. airflowSeen'[q] \in {dagRun, "UNKNOWN", airflowSeen[q]}
    BY <1>9 DEF ReadAirflow
  <2> QED
    BY <1>9, <1>k, <2>1, <2>2, <2>3, <2>4, ClientHandler
    DEF ReadAirflow, Claimed, Derives
<1>10. ASSUME NEW q \in Request, MarkNoResult(q) PROVE ClientInv'
  <2>1. "g_sync" \in Point /\ session'.status = "FAILED" /\ RunningIsExplained'
    BY <1>10 DEF Point, MarkNoResult, RunningIsExplained
  <2> QED
    BY <1>10, <1>k, <2>1, ClientHandler DEF MarkNoResult, Claimed, Derives
<1>11. ASSUME NEW q \in Request, Sync(q) PROVE ClientInv'
  BY <1>11, <1>a, ClientSync DEF Sync, Answer
<1>12. ASSUME NEW q \in Request, Abort(q) PROVE ClientInv'
  BY <1>12, <1>a, <1>k DEF Abort, RunningIsExplained, Started
\* Airflow and the worker only move on.
<1>13. CASE Execute \/ KillWorker
  <2>1. UNCHANGED apiVars /\ (Started => Started') /\ (etl' = "ABSENT" => etl = "ABSENT")
    BY <1>13
    DEF Execute, StartDagRun, StartEtl, RejectAttempt, Publish, SucceedEtl, FailEtl,
        EndTask, KillWorker, FailAttempt, Started, apiVars
  <2> QED
    BY <2>1, <1>k
    DEF apiVars, ClientInv, Alone, KnowsSession, RunningIsExplained, ReadsExplain,
        Claimed, Derives
<1>14. CASE UNCHANGED vars
  BY <1>14, <1>k
  DEF vars, ClientInv, Alone, KnowsSession, RunningIsExplained, ReadsExplain, Claimed,
      Derives, Started
<1> QED
  BY <1>1, <1>2, <1>3, <1>4, <1>5, <1>6, <1>7, <1>8, <1>9, <1>10, <1>11, <1>12,
     <1>13, <1>14
  DEF Next, Handle

SessionInv ==
  /\ TypeInv
  /\ LedgerGuardsPublish
  /\ SuccessSeenIsReal
  /\ StartIsReal

LEMMA SessionCorrect == Spec => []SessionInv
<1>1. Init => StartIsReal
  BY DEF Init, StartIsReal, Uploaded
<1>2. SessionInv /\ [Next]_vars => SessionInv'
  BY TypeNext, PublishNext, SuccessNext, StartNext DEF SessionInv, TypeInv
<1>3. Init => SessionInv
  BY <1>1, TypeInit, PublishInit, SuccessInit DEF SessionInv
<1> QED
  BY <1>2, <1>3, PTL DEF Spec

\* Two handlers that have overlapped have done so for good.
LEMMA OverlapStays == [Next]_vars => (overlapped => overlapped')
  BY DEF Next, Receive, Handle, ValidateRead, SetPreflight, ClaimTrigger, Trigger,
         MarkTriggered, MarkFailed, ReadSession, ReadLedger, ReadAirflow, MarkNoResult,
         Sync, Abort, Execute, StartDagRun, StartEtl, RejectAttempt, Publish, SucceedEtl,
         FailEtl, EndTask, KillWorker, vars

LEMMA SerialCorrect == Spec => []SerialInv
<1>1. Init => SerialInv
  BY DEF Init, SerialInv, ClientInv, Alone, KnowsSession, RunningIsExplained,
         ReadsExplain, Claimed, Derives, Uploaded
<1>2. SessionInv /\ SerialInv /\ [Next]_vars => SerialInv'
  <2> SUFFICES ASSUME SessionInv, SerialInv, [Next]_vars, ~overlapped' PROVE ClientInv'
    BY DEF SerialInv
  <2>1. ~overlapped
    BY OverlapStays
  <2> QED
    BY <2>1, ClientNext DEF SessionInv, SerialInv
<1> QED
  BY <1>1, <1>2, SessionCorrect, PTL DEF Spec

LEMMA ProgressStep ==
  ASSUME SessionInv, ClientInv, [Next]_vars,
         session.status \in TriggeredStates \ {"FAILED"}
  PROVE  Rank(session'.status) >= Rank(session.status)
<1> USE DEF SessionInv, TypeInv, TypeOK, Session
<1> DEFINE Forward == Rank(session'.status) >= Rank(session.status)
<1>k. KnowsSession
  BY DEF ClientInv
<1>1. ASSUME UNCHANGED session PROVE Forward
  BY <1>1 DEF Rank, TriggeredStates
<1>2. ASSUME NEW q \in Request, NEW outcome \in Verdicts, SetPreflight(q, outcome)
      PROVE  Forward
  BY <1>2, <1>k DEF SetPreflight, KnowsSession
<1>3. ASSUME NEW q \in Request, ClaimTrigger(q) PROVE Forward
  <2>1. session.status \notin Claimable
    BY DEF Claimable, TriggeredStates
  <2> QED
    BY <1>1, <1>3, <2>1 DEF ClaimTrigger
<1>4. ASSUME NEW q \in Request, MarkTriggered(q) \/ MarkFailed(q) PROVE Forward
  <2>1. session.status = "TRIGGERING" /\ session'.status \in {"QUEUED", "FAILED"}
    BY <1>4, <1>k DEF MarkTriggered, MarkFailed, KnowsSession, Claimed
  <2> QED
    BY <2>1 DEF Rank
<1>5. ASSUME NEW q \in Request, MarkNoResult(q) PROVE Forward
  <2>1. session'.status = "FAILED"
    BY <1>5 DEF MarkNoResult
  <2> QED
    BY <2>1 DEF Rank, TriggeredStates
<1>6. ASSUME NEW q \in Request, Sync(q) PROVE Forward
  BY <1>6, ClientSync
<1>7. ASSUME NEW q \in Request,
             \/ ValidateRead(q) \/ Trigger(q) \/ ReadSession(q) \/ ReadLedger(q)
             \/ ReadAirflow(q) \/ Abort(q) \/ \E kind \in DOMAIN Entry : Receive(q, kind)
      PROVE  UNCHANGED session
  BY <1>7 DEF ValidateRead, Trigger, ReadSession, ReadLedger, ReadAirflow, Abort, Receive
<1>8. CASE Execute \/ KillWorker \/ UNCHANGED vars
  <2>1. UNCHANGED session
    BY <1>8
    DEF Execute, StartDagRun, StartEtl, RejectAttempt, Publish, SucceedEtl, FailEtl,
        EndTask, KillWorker, apiVars, vars
  <2> QED
    BY <1>1, <2>1
<1> QED
  BY <1>1, <1>2, <1>3, <1>4, <1>5, <1>6, <1>7, <1>8 DEF Next, Handle

\* As long as no two handlers are at work at one time a session follows the
\* documented progression, whatever answers of Airflow are lost, whichever
\* handler is cut off and whatever worker dies (upload_service.py, get;
\* operations.py, sync).
THEOREM ProgressionCorrect == Spec => TriggeredNeverGoesBack
<1>1. SessionInv /\ SerialInv /\ [Next]_vars
        => [~overlapped /\ session.status \in TriggeredStates \ {"FAILED"}
              => Rank(session'.status) >= Rank(session.status)]_vars
  BY ProgressStep DEF SerialInv
<1> QED
  BY <1>1, SessionCorrect, SerialCorrect, PTL DEF Spec, TriggeredNeverGoesBack

\* A handler that is cut off does not come back.
LEMMA CutStays == [Next]_vars => (cut => cut')
  BY DEF Next, Receive, Handle, ValidateRead, SetPreflight, ClaimTrigger, Trigger,
         MarkTriggered, MarkFailed, ReadSession, ReadLedger, ReadAirflow, MarkNoResult,
         Sync, Abort, Execute, StartDagRun, StartEtl, RejectAttempt, Publish, SucceedEtl,
         FailEtl, EndTask, KillWorker, vars

LEMMA AnsweredStep ==
  ASSUME SessionInv, ClientInv, ClaimIsAnswered, ~overlapped, ~cut', [Next]_vars
  PROVE  ClaimIsAnswered'
<1> USE DEF SessionInv, TypeInv, TypeOK, Session, Goto
<1> SUFFICES ASSUME session'.status = "TRIGGERING"
             PROVE  \E p \in Request : pc'[p] \in {"r_trigger", "r_mark", "r_fail"}
  BY DEF ClaimIsAnswered
<1>1. CASE session.status # "TRIGGERING"
  <2>1. ASSUME NEW q \in Request, NEW outcome \in Verdicts PROVE ~SetPreflight(q, outcome)
    BY VerdictAssumption DEF SetPreflight
  <2>2. PICK q \in Request : ClaimTrigger(q)
    BY <1>1, <2>1, ClientSync
    DEF Next, Handle, Receive, ValidateRead, Trigger, MarkTriggered,
        MarkFailed, ReadSession, ReadLedger, ReadAirflow, MarkNoResult, Abort, Execute,
        StartDagRun, StartEtl, RejectAttempt, Publish, SucceedEtl, FailEtl, EndTask,
        KillWorker, apiVars, vars
  <2> QED
    BY <1>1, <2>2 DEF ClaimTrigger
<1>2. CASE session.status = "TRIGGERING"
  <2>1. PICK p \in Request : Claimed(p) /\ pc[p] # "idle"
    BY <1>2, CutStays DEF ClaimIsAnswered, Claimed
  <2>2. ASSUME NEW q \in Request, pc[q] # "idle" PROVE q = p
    BY <2>1, <2>2 DEF ClientInv, Alone
  <2>3. ASSUME NEW q \in Request, NEW kind \in DOMAIN Entry, Receive(q, kind)
        PROVE  pc'[p] = pc[p]
    BY <2>1, <2>3 DEF Receive
  <2>4. ASSUME NEW q \in Request, Handle(q) PROVE Trigger(p)
    <3>1. q = p
      BY <2>2, <2>4
      DEF Handle, ValidateRead, SetPreflight, ClaimTrigger, Trigger, MarkTriggered,
          MarkFailed, ReadSession, ReadLedger, ReadAirflow, MarkNoResult, Sync
    <3> QED
      BY <2>1, <2>4, <3>1
      DEF Claimed, Handle, ValidateRead, SetPreflight, ClaimTrigger, MarkTriggered,
          MarkFailed, ReadSession, ReadLedger, ReadAirflow, MarkNoResult, Sync
  <2>5. Trigger(p) => pc'[p] \in {"r_mark", "r_fail"}
    BY DEF Trigger
  <2>6. Execute \/ KillWorker \/ UNCHANGED vars => pc' = pc
    BY DEF Execute, StartDagRun, StartEtl, RejectAttempt, Publish, SucceedEtl, FailEtl,
           EndTask, KillWorker, apiVars, vars
  <2>7. \A q \in Request : ~Abort(q)
    BY DEF Abort
  <2> QED
    BY <2>1, <2>3, <2>4, <2>5, <2>6, <2>7 DEF Next, Claimed
<1> QED
  BY <1>1, <1>2

\* No session is left TRIGGERING while handlers do not overlap and run to their
\* end: a refused or lost trigger is answered too (upload_service.py:247).
THEOREM AnsweredCorrect == Spec => []ClaimIsAnswered
<1>1. Init => ClaimIsAnswered
  BY DEF Init, ClaimIsAnswered, Uploaded
<1>2. SessionInv /\ SerialInv /\ ClaimIsAnswered /\ [Next]_vars => ClaimIsAnswered'
  <2> SUFFICES ASSUME SessionInv, SerialInv, ClaimIsAnswered, [Next]_vars,
                      ~overlapped', ~cut'
               PROVE  ClaimIsAnswered'
    BY DEF ClaimIsAnswered
  <2>1. ~overlapped
    BY OverlapStays
  <2> QED
    BY <2>1, AnsweredStep DEF SerialInv
<1> QED
  BY <1>1, <1>2, SessionCorrect, SerialCorrect, PTL DEF Spec
=============================================================================
