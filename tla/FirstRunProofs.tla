--------------------------- MODULE FirstRunProofs ---------------------------
(***************************************************************************)
(* Theorems about FirstRun, for any number of handler threads and attempts *)
(* and with every fault switched on or off.                                *)
(***************************************************************************)
EXTENDS FirstRun, FiniteSetTheorems, TLAPS

USE DEF airflowVars, localVars, apiVars

-----------------------------------------------------------------------------
(* Types *)

\* The attempt a handler works for has a number at the points that use it.
WorksFor ==
  \A q \in Request :
    /\ pc[q] \in {"r_claim", "r_trigger", "r_mark", "r_fail"} => nextId[q] \in Attempt
    /\ pc[q] \in {"c_etl", "c_airflow", "c_sync"} => seen[q].corr \in Attempt

TypeInv == TypeOK /\ WorksFor

LEMMA TypeInit == Init => TypeInv
<1> SUFFICES ASSUME Init
             PROVE  TypeInv
  OBVIOUS
<1>1. Approved \in Row /\ 0 \in 0..MaxAttempts /\ 0 \in 0..MaxFaults
  BY FaultAssumption, AttemptAssumption DEF Approved, Row, Status, AirflowState
<1>2. TypeOK
  BY <1>1 DEF Init, TypeOK, AirflowState, EtlStatus, Point
<1>3. WorksFor
  BY DEF Init, WorksFor
<1> QED
  BY <1>2, <1>3 DEF TypeInv

LEMMA ShownIsStatus ==
  ASSUME TypeOK, NEW q \in Request
  PROVE  ShownStatus(q) \in Status
  BY DEF TypeOK, ShownStatus, Row, Status, EtlStatus, AirflowState

\* Answering and going on to a completion keep the types of what is local.
LEMMA AnswerType ==
  ASSUME TypeInv, NEW q \in Request, Answer(q) \/ Complete(q)
  PROVE  /\ pc' \in [Request -> Point]
         /\ seen' \in [Request -> Row]
         /\ retry' \in [Request -> BOOLEAN]
         /\ nextId' \in [Request -> 0..MaxAttempts]
         /\ found' \in [Request -> BOOLEAN]
         /\ etlSeen' \in [Request -> EtlStatus]
         /\ airflowSeen' \in [Request -> AirflowState]
         /\ WorksFor'
<1>1. /\ Approved \in Row /\ "ABSENT" \in EtlStatus /\ "NONE" \in AirflowState
      /\ "idle" \in Point /\ "c_read" \in Point /\ 0 \in 0..MaxAttempts
  BY AttemptAssumption DEF Approved, Row, Status, EtlStatus, AirflowState, Point
<1>2. /\ pc' \in [Request -> Point]
      /\ seen' \in [Request -> Row]
      /\ retry' \in [Request -> BOOLEAN]
      /\ nextId' \in [Request -> 0..MaxAttempts]
      /\ found' \in [Request -> BOOLEAN]
      /\ etlSeen' \in [Request -> EtlStatus]
      /\ airflowSeen' \in [Request -> AirflowState]
  <2>1. pc' \in [Request -> Point]
    BY <1>1 DEF TypeInv, TypeOK, Answer, Complete, Goto
  <2>2. Forget(q)
    BY DEF Answer, Complete
  <2> QED
    BY <1>1, <2>1, <2>2 DEF TypeInv, TypeOK, Forget
<1>3. WorksFor'
  BY DEF TypeInv, TypeOK, WorksFor, Answer, Complete, Forget, Goto
<1> QED
  BY <1>2, <1>3

LEMMA TypeNext == TypeInv /\ [Next]_vars => TypeInv'
<1> SUFFICES ASSUME TypeInv, [Next]_vars
             PROVE  TypeInv'
  OBVIOUS
<1> USE FaultAssumption, AttemptAssumption DEF TypeInv, TypeOK, Attempt, Fault
<1>1. ASSUME NEW q \in Request, RequestActivation(q)
      PROVE  TypeInv'
  BY <1>1 DEF RequestActivation, Arrive, Goto, Point, WorksFor
<1>2. ASSUME NEW q \in Request, NEW again \in BOOLEAN, RequestRun(q, again)
      PROVE  TypeInv'
  <2>1. row.attempt + 1 \in 1..MaxAttempts
    BY <1>2 DEF RequestRun, Row
  <2> QED
    BY <1>2, <2>1 DEF RequestRun, Arrive, Goto, Point, WorksFor
<1>3. ASSUME NEW q \in Request, Read(q)
      PROVE  /\ pc' \in [Request -> Point]
             /\ seen' \in [Request -> Row]
             /\ airflowSeen' \in [Request -> AirflowState]
             /\ WorksFor'
  BY <1>3 DEF Read, Goto, Point, Row, WorksFor
<1>4. ASSUME NEW q \in Request, RequestCompletion(q)
      PROVE  TypeInv'
  BY <1>3, <1>4 DEF RequestCompletion, Arrive, Read
<1>5. ASSUME NEW q \in Request, BeginActivation(q)
      PROVE  TypeInv'
  BY <1>5 DEF BeginActivation, Goto, Point, Row, Status, WorksFor
<1>6. ASSUME NEW q \in Request, PollDag(q)
      PROVE  TypeInv'
  <2>1. found' = found \/ found' = [found EXCEPT ![q] = TRUE]
    BY <1>6 DEF PollDag
  <2>3. faults' = faults \/ Fault(AirflowFaults)
    BY <1>6 DEF PollDag
  <2>2. pc' \in [Request -> Point] /\ WorksFor'
    BY <1>6 DEF PollDag, Goto, Point, WorksFor
  <2>4. found' \in [Request -> BOOLEAN]
    <3>1. found \in [Request -> BOOLEAN]
      OBVIOUS
    <3> QED
      BY <2>1, <3>1, Zenon
  <2>6. faults' \in 0..MaxFaults
    BY <2>3
  <2>5. UNCHANGED <<row, airflowVars, seen, retry, nextId, etlSeen, airflowSeen,
                    overlapped, lost>>
    BY <1>6 DEF PollDag
  <2> QED
    BY <2>2, <2>4, <2>5, <2>6
<1>7. ASSUME NEW q \in Request, FinishActivation(q)
      PROVE  TypeInv'
  <2>1. row' \in Row
    BY <1>7 DEF FinishActivation, Row, Status
  <2> QED
    BY <1>7, <2>1, AnswerType DEF FinishActivation
<1>8. ASSUME NEW q \in Request, ClaimFirstRun(q)
      PROVE  TypeInv'
  <2>1. CASE MayClaim(q) /\ row.attempt < MaxAttempts /\ Goto(q, "r_trigger") /\ UNCHANGED localVars
    <3>1. row' \in Row
      <4>1. row.attempt + 1 \in 0..MaxAttempts
        BY <2>1 DEF Row
      <4>2. /\ nextId[q] \in 0..MaxAttempts /\ 0 \in 0..MaxAttempts
            /\ row \in Row
        OBVIOUS
      <4> QED
        BY <1>8, <4>1, <4>2 DEF ClaimFirstRun, Row, Status, AirflowState
    <3> QED
      BY <1>8, <2>1, <3>1 DEF ClaimFirstRun, Goto, Point, WorksFor
  <2>2. CASE Complete(q) \/ Answer(q)
    <3>1. row' \in Row
      BY <1>8, <2>2 DEF ClaimFirstRun, Row, Status, AirflowState
    <3> QED
      BY <1>8, <2>2, <3>1, AnswerType DEF ClaimFirstRun
  <2> QED
    BY <1>8, <2>1, <2>2 DEF ClaimFirstRun
<1>9. ASSUME NEW q \in Request, Trigger(q)
      PROVE  TypeInv'
  <2>1. nextId[q] \in Attempt
    BY <1>9 DEF Trigger, WorksFor
  <2>2. dagRun' \in [Attempt -> AirflowState \ {"UNKNOWN"}]
    <3>1. UNCHANGED dagRun \/
            dagRun' = [dagRun EXCEPT ![nextId[q]] =
                         IF dagRun[nextId[q]] = "NONE" THEN "QUEUED" ELSE dagRun[nextId[q]]]
      BY <1>9, <2>1 DEF Trigger
    <3>2. \A n \in Attempt : dagRun'[n] \in {dagRun[n], "QUEUED"}
      BY <2>1, <3>1
    <3>3. DOMAIN dagRun' = Attempt /\ dagRun' = [n \in Attempt |-> dagRun'[n]]
      BY <2>1, <3>1
    <3> QED
      BY <3>2, <3>3 DEF AirflowState
  <2>3. airflowSeen' \in [Request -> AirflowState]
    BY <1>9, <2>1, <2>2 DEF Trigger
  <2> QED
    <3>1. faults' \in 0..MaxFaults
      BY <1>9 DEF Trigger
    <3>2. pc' \in [Request -> Point] /\ WorksFor'
      BY <1>9 DEF Trigger, Goto, Point, WorksFor
    <3> QED
      BY <1>9, <2>2, <2>3, <3>1, <3>2 DEF Trigger
<1>10. ASSUME NEW q \in Request, MarkTriggered(q)
       PROVE  TypeInv'
  <2>1. row' \in Row
    BY <1>10 DEF MarkTriggered, Row, Status
  <2> QED
    BY <1>10, <2>1, AnswerType DEF MarkTriggered
<1>11. ASSUME NEW q \in Request, MarkFailed(q)
       PROVE  TypeInv'
  <2>1. row' \in Row
    BY <1>11 DEF MarkFailed, Row, Status, AirflowState
  <2> QED
    BY <1>11, <2>1, AnswerType DEF MarkFailed
<1>12. ASSUME NEW q \in Request, ReadRow(q)
       PROVE  TypeInv'
  <2>1. CASE Read(q)
    BY <1>3, <1>12, <2>1 DEF ReadRow, Read
  <2>2. CASE Answer(q)
    BY <1>12, <2>2, AnswerType DEF ReadRow
  <2> QED
    BY <1>12, <2>1, <2>2 DEF ReadRow
<1>13. ASSUME NEW q \in Request, ReadLedger(q)
       PROVE  TypeInv'
  BY <1>13 DEF ReadLedger, Goto, Point, WorksFor
<1>14. ASSUME NEW q \in Request, ReadAirflow(q)
       PROVE  TypeInv'
  <2>1. seen[q].corr \in Attempt
    BY <1>14 DEF ReadAirflow, WorksFor
  <2>2. airflowSeen' \in [Request -> AirflowState]
    BY <1>14, <2>1 DEF ReadAirflow, AirflowState
  <2> QED
    BY <1>14, <2>2 DEF ReadAirflow, Goto, Point, WorksFor
<1>15. ASSUME NEW q \in Request, Sync(q)
       PROVE  TypeInv'
  <2>1. seen[q].corr \in 0..MaxAttempts /\ 0 \in 0..MaxAttempts
    BY DEF Row
  <2>2. row' \in Row
    BY <1>15, <2>1, ShownIsStatus DEF Sync, Row
  <2> QED
    BY <1>15, <2>2, AnswerType DEF Sync
<1>16. ASSUME NEW q \in Request, Abort(q)
       PROVE  TypeInv'
  BY <1>16, AnswerType DEF Abort
<1>17. ASSUME NEW n \in Attempt, Execute(n)
       PROVE  TypeInv'
  <2>1. /\ dagRun' \in [Attempt -> AirflowState \ {"UNKNOWN"}]
        /\ worker' \in [Attempt -> {"none", "running", "published", "succeeded", "failed"}]
    BY <1>17
    DEF Execute, StartDagRun, StartEtl, Publish, FinishEtl, EndTask, EndDagRun, AirflowState
  <2>2. etl' \in [Attempt -> EtlStatus] /\ published' \in SUBSET Attempt
    BY <1>17 DEF Execute, StartDagRun, StartEtl, Publish, FinishEtl, EndTask, EtlStatus
  <2>3. UNCHANGED <<apiVars, discovered, faults>>
    BY <1>17 DEF Execute, StartDagRun, StartEtl, Publish, FinishEtl, EndTask
  <2> QED
    BY <2>1, <2>2, <2>3 DEF WorksFor
<1>18. ASSUME NEW n \in Attempt, KillWorker(n)
       PROVE  TypeInv'
  BY <1>18 DEF KillWorker, EndDagRun, AirflowState, WorksFor
<1>19. CASE Discover \/ UNCHANGED vars
  BY <1>19 DEF Discover, vars, WorksFor
<1> QED
  BY <1>1, <1>2, <1>4, <1>5, <1>6, <1>7, <1>8, <1>9, <1>10, <1>11, <1>12, <1>13, <1>14,
     <1>15, <1>16, <1>17, <1>18, <1>19
  DEF Next, Handle

\* Every variable keeps its type, and every handler that asks the ledger or
\* Airflow for an attempt asks for one that has been claimed
\* (onboarding_service.py:948-954).
THEOREM FirstRunTypeCorrect == Spec => []TypeOK
<1>1. TypeInv => TypeOK
  BY DEF TypeInv
<1> QED
  BY <1>1, TypeInit, TypeNext, PTL DEF Spec

-----------------------------------------------------------------------------
(* What the runs do, which no handler touches *)

\* The DAG run of a worker is RUNNING and so is its ledger row until the worker
\* has ended it; a success has published.
RunsInv ==
  \A n \in Attempt :
    /\ worker[n] # "none" => dagRun[n] = "RUNNING"
    /\ worker[n] \in {"running", "published"} => etl[n] = "RUNNING"
    /\ worker[n] = "succeeded" => etl[n] = "SUCCEEDED"
    /\ worker[n] = "failed" => etl[n] = "FAILED"
    /\ worker[n] = "published" => n \in published
    /\ etl[n] = "SUCCEEDED" => n \in published
    /\ etl[n] # "ABSENT" => dagRun[n] # "NONE" /\ dagRun[n] # "QUEUED"

\* What a ledger row ends with it keeps.
EndsKept ==
  /\ \A n \in Attempt : etl[n] \in {"SUCCEEDED", "FAILED"} => etl'[n] = etl[n]
  /\ published \subseteq published'

LEMMA RunsInit == Init => RunsInv
  BY DEF Init, RunsInv

LEMMA RunsNext == TypeInv /\ RunsInv /\ [Next]_vars => RunsInv' /\ EndsKept
<1> SUFFICES ASSUME TypeInv, RunsInv, [Next]_vars
             PROVE  RunsInv' /\ EndsKept
  OBVIOUS
<1> USE DEF RunsInv, EndsKept, TypeInv, TypeOK
<1>1. CASE UNCHANGED <<dagRun, worker, etl, published>>
  BY <1>1
<1>2. ASSUME NEW q \in Request, Trigger(q)
      PROVE  RunsInv' /\ EndsKept
  <2>1. \A n \in Attempt : dagRun'[n] = dagRun[n] \/ dagRun[n] = "NONE"
    BY <1>2 DEF Trigger
  <2>2. UNCHANGED <<worker, etl, published>>
    BY <1>2 DEF Trigger
  <2> QED
    BY <2>1, <2>2 DEF EtlStatus
<1>3. ASSUME NEW q \in Request,
             \/ RequestActivation(q) \/ RequestCompletion(q) \/ Abort(q)
             \/ \E again \in BOOLEAN : RequestRun(q, again)
             \/ Handle(q) /\ ~ Trigger(q)
      PROVE  UNCHANGED <<dagRun, worker, etl, published>>
  BY <1>3
  DEF RequestActivation, RequestCompletion, Abort, RequestRun, Handle, BeginActivation,
      PollDag, FinishActivation, ClaimFirstRun, MarkTriggered, MarkFailed, ReadRow,
      ReadLedger, ReadAirflow, Sync
<1>4. ASSUME NEW n \in Attempt, StartDagRun(n)
      PROVE  RunsInv' /\ EndsKept
  <2>1. /\ dagRun[n] = "QUEUED" /\ etl[n] = "ABSENT" /\ worker[n] = "none"
        /\ \A k \in Attempt \ {n} : dagRun'[k] = dagRun[k]
        /\ UNCHANGED <<worker, etl, published>>
    BY <1>4 DEF StartDagRun, EndDagRun, EtlStatus
  <2> QED
    BY <2>1
<1>5. ASSUME NEW n \in Attempt, StartEtl(n)
      PROVE  RunsInv' /\ EndsKept
  <2>1. dagRun[n] = "RUNNING" /\ etl[n] = "ABSENT" /\ worker[n] = "none" /\ UNCHANGED published
    BY <1>5 DEF StartEtl
  <2>2. CASE etl' = [etl EXCEPT ![n] = "RUNNING"] /\ worker' = [worker EXCEPT ![n] = "running"]
             /\ UNCHANGED dagRun
    BY <2>1, <2>2
  <2>3. CASE EndDagRun(n, "FAILED") /\ UNCHANGED <<etl, worker>>
    BY <2>1, <2>3 DEF EndDagRun
  <2> QED
    BY <1>5, <2>2, <2>3 DEF StartEtl
<1>6. ASSUME NEW n \in Attempt, Publish(n)
      PROVE  RunsInv' /\ EndsKept
  BY <1>6 DEF Publish
<1>7. ASSUME NEW n \in Attempt, FinishEtl(n)
      PROVE  RunsInv' /\ EndsKept
  <2>1. CASE /\ worker[n] = "published" /\ worker' = [worker EXCEPT ![n] = "succeeded"]
             /\ etl' = [etl EXCEPT ![n] = "SUCCEEDED"]
    BY <1>7, <2>1 DEF FinishEtl
  <2>2. CASE /\ worker[n] = "running" /\ worker' = [worker EXCEPT ![n] = "failed"]
             /\ etl' = [etl EXCEPT ![n] = "FAILED"]
    BY <1>7, <2>2 DEF FinishEtl
  <2> QED
    BY <1>7, <2>1, <2>2 DEF FinishEtl
<1>10. ASSUME NEW n \in Attempt, EndTask(n)
       PROVE  RunsInv' /\ EndsKept
  BY <1>10 DEF EndTask, EndDagRun
<1>8. ASSUME NEW n \in Attempt, KillWorker(n)
      PROVE  RunsInv' /\ EndsKept
  BY <1>8 DEF KillWorker, EndDagRun
<1>9. CASE Discover \/ UNCHANGED vars
  BY <1>1, <1>9 DEF Discover, vars
<1> QED
  BY <1>1, <1>2, <1>3, <1>4, <1>5, <1>6, <1>7, <1>8, <1>9, <1>10
  DEF Next, Handle, Execute

-----------------------------------------------------------------------------
(* A success that is shown has happened *)

\* What a handler knows of a success: the ledger row it has read stays as it
\* is, and the answer of Airflow that it writes is never the NULL of a claim.
SeenInv(q) ==
  /\ seen[q].status = "SUCCEEDED" => seen[q].airflow # "NONE"
  /\ pc[q] \in {"c_airflow", "c_sync"} =>
       /\ etlSeen[q] = "SUCCEEDED" => etl[seen[q].corr] = "SUCCEEDED"
       /\ etlSeen[q] = "FAILED" => etl[seen[q].corr] = "FAILED"
  /\ pc[q] \in {"c_etl", "c_airflow"} => airflowSeen[q] = seen[q].airflow
  /\ pc[q] = "c_sync" =>
       /\ airflowSeen[q] # "NONE"
       /\ airflowSeen[q] = "UNKNOWN" => seen[q].airflow \in {"NONE", "UNKNOWN"}

RowInv ==
  /\ SuccessIsReal
  /\ row.status = "SUCCEEDED" => row.airflow # "NONE"

SuccessInv == RowInv /\ \A q \in Request : SeenInv(q)

LEMMA SuccessInit == Init => SuccessInv
  BY DEF Init, SuccessInv, SeenInv, RowInv, SuccessIsReal, Approved

\* A row that is not written, or not to SUCCEEDED, claims nothing new.
LEMMA RowKept ==
  ASSUME TypeInv, RowInv, EndsKept, row' = row \/ row'.status # "SUCCEEDED"
  PROVE  RowInv'
<1>1. row.linked \in 0..MaxAttempts
  BY DEF TypeInv, TypeOK, Row
<1> QED
  BY <1>1, AttemptAssumption DEF RowInv, SuccessIsReal, EndsKept, Attempt

LEMMA SeenKept ==
  ASSUME TypeInv, EndsKept, NEW q \in Request, SeenInv(q),
         pc'[q] = pc[q], seen'[q] = seen[q], etlSeen'[q] = etlSeen[q],
         airflowSeen'[q] = airflowSeen[q]
  PROVE  SeenInv(q)'
<1>1. pc[q] \in {"c_airflow", "c_sync"} => seen[q].corr \in Attempt
  BY DEF TypeInv, WorksFor
<1> QED
  BY <1>1 DEF SeenInv, EndsKept

LEMMA AnswerSeen ==
  ASSUME TypeInv, EndsKept, \A p \in Request : SeenInv(p),
         NEW q \in Request, Answer(q) \/ Complete(q)
  PROVE  \A p \in Request : SeenInv(p)'
<1>1. /\ pc'[q] \in {"idle", "c_read"} /\ seen'[q] = Approved
      /\ \A p \in Request \ {q} :
           /\ pc'[p] = pc[p] /\ seen'[p] = seen[p] /\ etlSeen'[p] = etlSeen[p]
           /\ airflowSeen'[p] = airflowSeen[p]
  BY DEF TypeInv, TypeOK, Answer, Complete, Forget, Goto
<1>2. SeenInv(q)'
  BY <1>1 DEF SeenInv, Approved
<1> QED
  BY <1>1, <1>2, SeenKept

\* The one handler that may write SUCCEEDED has read it from the ledger, or
\* writes nothing.
LEMMA SyncSuccess ==
  ASSUME TypeInv, RunsInv, SuccessInv, NEW q \in Request, Sync(q)
  PROVE  RowInv'
<1>1. /\ pc[q] = "c_sync" /\ seen[q].corr \in Attempt /\ UNCHANGED <<etl, published>>
      /\ SeenInv(q) /\ RowInv
  BY DEF Sync, TypeInv, WorksFor, SuccessInv
<1>2. ShownStatus(q) = "SUCCEEDED" =>
        \/ etlSeen[q] = "SUCCEEDED"
        \/ etlSeen[q] = "ABSENT" /\ seen[q].status = "SUCCEEDED" /\ airflowSeen[q] = "UNKNOWN"
  BY <1>1 DEF TypeInv, TypeOK, ShownStatus, EtlStatus, AirflowState, SeenInv
<1>3. CASE ShownStatus(q) = "SUCCEEDED" /\ etlSeen[q] = "SUCCEEDED"
  <2>1. etl[seen[q].corr] = "SUCCEEDED" /\ seen[q].corr \in published /\ seen[q].corr # 0
    BY <1>1, <1>3 DEF SeenInv, RunsInv, Attempt
  <2>2. row' = row \/ row' = [row EXCEPT !.status = "SUCCEEDED", !.airflow = airflowSeen[q],
                                         !.linked = seen[q].corr]
    BY <1>3, <2>1 DEF Sync
  <2>3. airflowSeen[q] # "NONE" /\ row \in Row
    BY <1>1 DEF SeenInv, TypeInv, TypeOK
  <2> QED
    BY <1>1, <2>1, <2>2, <2>3 DEF RowInv, SuccessIsReal, Row
<1>4. CASE ShownStatus(q) = "SUCCEEDED" /\ etlSeen[q] # "SUCCEEDED"
  <2>1. airflowSeen[q] = seen[q].airflow /\ etlSeen[q] = "ABSENT" /\ seen[q].status = "SUCCEEDED"
    BY <1>1, <1>2, <1>4 DEF SeenInv
  <2>2. row' = row
    BY <1>4, <2>1 DEF Sync
  <2> QED
    BY <1>1, <2>2 DEF RowInv, SuccessIsReal
<1>5. CASE ShownStatus(q) # "SUCCEEDED"
  <2>1. row' = row \/ row'.status # "SUCCEEDED"
    BY <1>5 DEF Sync, TypeInv, TypeOK, Row
  <2> QED
    BY <1>1, <2>1 DEF RowInv, SuccessIsReal
<1> QED
  BY <1>3, <1>4, <1>5

LEMMA SuccessNext ==
  TypeInv /\ RunsInv /\ SuccessInv /\ EndsKept /\ [Next]_vars => SuccessInv'
<1> SUFFICES ASSUME TypeInv, RunsInv, SuccessInv, EndsKept, [Next]_vars
             PROVE  SuccessInv'
  OBVIOUS
<1>0. RowInv /\ \A q \in Request : SeenInv(q)
  BY DEF SuccessInv
<1>s. SUFFICES RowInv' /\ \A p \in Request : SeenInv(p)'
  BY DEF SuccessInv
<1>1. ASSUME NEW q \in Request,
             \/ RequestActivation(q) \/ BeginActivation(q) \/ PollDag(q)
             \/ \E again \in BOOLEAN : RequestRun(q, again)
      PROVE  RowInv' /\ \A p \in Request : SeenInv(p)'
  <2>1. row' = row \/ row'.status # "SUCCEEDED"
    BY <1>1 DEF RequestActivation, BeginActivation, PollDag, RequestRun, TypeInv, TypeOK, Row
  <2>2. UNCHANGED <<seen, etlSeen, airflowSeen>>
    BY <1>1 DEF RequestActivation, BeginActivation, PollDag, RequestRun, Arrive
  <2>3. /\ pc'[q] \in {"c_read", "a_begin", "a_poll", "a_finish", "r_claim"}
        /\ \A p \in Request \ {q} : pc'[p] = pc[p]
    BY <1>1
    DEF RequestActivation, BeginActivation, PollDag, RequestRun, Goto, TypeInv, TypeOK
  <2>4. SeenInv(q)'
    BY <1>0, <2>2, <2>3 DEF SeenInv
  <2> QED
    BY <1>0, <2>1, <2>2, <2>3, <2>4, RowKept, SeenKept
<1>2. ASSUME NEW q \in Request,
             FinishActivation(q) \/ MarkTriggered(q) \/ MarkFailed(q) \/ Abort(q)
      PROVE  RowInv' /\ \A p \in Request : SeenInv(p)'
  <2>1. row' = row \/ row'.status # "SUCCEEDED"
    BY <1>2 DEF FinishActivation, MarkTriggered, MarkFailed, Abort, TypeInv, TypeOK, Row
  <2>2. Answer(q) \/ Complete(q)
    BY <1>2 DEF FinishActivation, MarkTriggered, MarkFailed, Abort
  <2> QED
    BY <1>0, <2>1, <2>2, RowKept, AnswerSeen
<1>3. ASSUME NEW q \in Request, ClaimFirstRun(q)
      PROVE  RowInv' /\ \A p \in Request : SeenInv(p)'
  <2>1. row' = row \/ row'.status # "SUCCEEDED"
    BY <1>3 DEF ClaimFirstRun
  <2>2. CASE Answer(q) \/ Complete(q)
    BY <1>0, <2>1, <2>2, RowKept, AnswerSeen
  <2>3. CASE Goto(q, "r_trigger") /\ UNCHANGED localVars
    <3>1. pc'[q] = "r_trigger" /\ \A p \in Request \ {q} : pc'[p] = pc[p]
      BY <2>3 DEF Goto, TypeInv, TypeOK
    <3>2. SeenInv(q)'
      BY <1>0, <2>3, <3>1 DEF SeenInv
    <3> QED
      BY <1>0, <2>1, <2>3, <3>1, <3>2, RowKept, SeenKept
  <2> QED
    BY <1>3, <2>2, <2>3 DEF ClaimFirstRun
<1>4. ASSUME NEW q \in Request, Trigger(q)
      PROVE  RowInv' /\ \A p \in Request : SeenInv(p)'
  <2>1. UNCHANGED <<row, seen, etlSeen>>
    BY <1>4 DEF Trigger
  <2>2. /\ pc'[q] \in {"r_mark", "r_fail"}
        /\ \A p \in Request \ {q} : pc'[p] = pc[p] /\ airflowSeen'[p] = airflowSeen[p]
    BY <1>4 DEF Trigger, Goto, TypeInv, TypeOK
  <2>3. SeenInv(q)'
    BY <1>0, <2>1, <2>2 DEF SeenInv
  <2> QED
    BY <1>0, <2>1, <2>2, <2>3, RowKept, SeenKept
<1>5. ASSUME NEW q \in Request, Read(q), UNCHANGED row
      PROVE  RowInv' /\ \A p \in Request : SeenInv(p)'
  <2>1. /\ pc'[q] = "c_etl" /\ seen'[q] = row /\ airflowSeen'[q] = row.airflow
        /\ \A p \in Request \ {q} :
             /\ pc'[p] = pc[p] /\ seen'[p] = seen[p] /\ airflowSeen'[p] = airflowSeen[p]
        /\ UNCHANGED etlSeen
    BY <1>5 DEF Read, Goto, TypeInv, TypeOK
  <2>2. SeenInv(q)'
    BY <1>0, <2>1 DEF SeenInv, RowInv
  <2> QED
    BY <1>0, <1>5, <2>1, <2>2, RowKept, SeenKept
<1>6. ASSUME NEW q \in Request, RequestCompletion(q) \/ ReadRow(q)
      PROVE  RowInv' /\ \A p \in Request : SeenInv(p)'
  <2>1. UNCHANGED row /\ (Read(q) \/ Answer(q))
    BY <1>6 DEF RequestCompletion, ReadRow
  <2> QED
    BY <1>0, <1>5, <2>1, RowKept, AnswerSeen
<1>7. ASSUME NEW q \in Request, ReadLedger(q)
      PROVE  RowInv' /\ \A p \in Request : SeenInv(p)'
  <2>1. /\ pc[q] = "c_etl" /\ pc'[q] = "c_airflow" /\ etlSeen'[q] = etl[seen[q].corr]
        /\ \A p \in Request \ {q} : pc'[p] = pc[p] /\ etlSeen'[p] = etlSeen[p]
        /\ UNCHANGED <<row, seen, airflowSeen, etl>>
    BY <1>7 DEF ReadLedger, Goto, TypeInv, TypeOK
  <2>2. SeenInv(q)'
    BY <1>0, <2>1 DEF SeenInv
  <2> QED
    BY <1>0, <2>1, <2>2, RowKept, SeenKept
<1>8. ASSUME NEW q \in Request, ReadAirflow(q)
      PROVE  RowInv' /\ \A p \in Request : SeenInv(p)'
  <2>1. /\ pc[q] = "c_airflow" /\ pc'[q] = "c_sync"
        /\ \A p \in Request \ {q} : pc'[p] = pc[p] /\ airflowSeen'[p] = airflowSeen[p]
        /\ UNCHANGED <<row, seen, etlSeen, etl>>
    BY <1>8 DEF ReadAirflow, Goto, TypeInv, TypeOK
  <2>2. seen[q].corr \in Attempt
    BY <2>1 DEF TypeInv, WorksFor
  <2>3. /\ airflowSeen'[q] # "NONE"
        /\ airflowSeen'[q] = "UNKNOWN" => airflowSeen[q] \in {"NONE", "UNKNOWN"}
    <3>1. dagRun[seen[q].corr] # "UNKNOWN"
      BY <2>2 DEF TypeInv, TypeOK
    <3> QED
      BY <1>8, <3>1 DEF ReadAirflow, TypeInv, TypeOK
  <2>4. SeenInv(q)'
    BY <1>0, <2>1, <2>3 DEF SeenInv
  <2> QED
    BY <1>0, <2>1, <2>4, RowKept, SeenKept
<1>9. ASSUME NEW q \in Request, Sync(q)
      PROVE  RowInv' /\ \A p \in Request : SeenInv(p)'
  <2>1. Answer(q)
    BY <1>9 DEF Sync
  <2> QED
    BY <1>0, <1>9, <2>1, SyncSuccess, AnswerSeen
<1>10. ASSUME UNCHANGED <<row, pc, localVars>>
       PROVE  RowInv' /\ \A p \in Request : SeenInv(p)'
  BY <1>0, <1>10, RowKept, SeenKept
<1>11. ASSUME NEW n \in Attempt, Execute(n) \/ KillWorker(n)
       PROVE  UNCHANGED <<row, pc, localVars>>
  BY <1>11 DEF Execute, StartDagRun, StartEtl, Publish, FinishEtl, EndTask, KillWorker
<1>12. ASSUME Discover \/ UNCHANGED vars
       PROVE  UNCHANGED <<row, pc, localVars>>
  BY <1>12 DEF Discover, vars
<1> QED
  BY <1>1, <1>2, <1>3, <1>4, <1>6, <1>7, <1>8, <1>9, <1>10, <1>11, <1>12 DEF Next, Handle

\* A session is shown SUCCEEDED (onboarding_service.py:962) only with the run it
\* is linked to, which has succeeded and published, whatever answers were lost
\* and whatever stale rows were written.
THEOREM FirstSuccessCorrect == Spec => []SuccessIsReal
<1>1. SuccessInv => SuccessIsReal
  BY DEF SuccessInv, RowInv
<1> QED
  BY <1>1, TypeInit, TypeNext, RunsInit, RunsNext, SuccessInit, SuccessNext, PTL DEF Spec

-----------------------------------------------------------------------------
(* One run at a time *)

\* The handler that is alone works with the row as it is.
AloneAt(q) ==
  /\ pc[q] = "r_claim" => nextId[q] = row.attempt + 1
  /\ pc[q] \in {"r_trigger", "r_mark", "r_fail"} => nextId[q] = row.corr
  /\ pc[q] \in {"c_etl", "c_airflow", "c_sync"} => seen[q] = row

AloneInv ==
  ~overlapped =>
    /\ row.corr = row.attempt
    /\ \A p, q \in Request : pc[p] # "idle" /\ pc[q] # "idle" => p = q
    /\ \A q \in Request : AloneAt(q)

LEMMA AloneInit == Init => AloneInv
  BY DEF Init, AloneInv, AloneAt, Approved

StepOf(q) ==
  \/ RequestActivation(q)
  \/ \E again \in BOOLEAN : RequestRun(q, again)
  \/ RequestCompletion(q)
  \/ Handle(q)
  \/ Abort(q)

LEMMA OthersIdle ==
  ASSUME TypeInv, AloneInv, NEW q \in Request, StepOf(q), ~overlapped'
  PROVE  /\ ~overlapped
         /\ \A p \in Request \ {q} : pc[p] = "idle" /\ pc'[p] = "idle"
<1>1. CASE \/ RequestActivation(q) \/ RequestCompletion(q)
           \/ \E again \in BOOLEAN : RequestRun(q, again)
  <2>1. Arrive(q) /\ \E point \in Point : Goto(q, point)
    BY <1>1 DEF RequestActivation, RequestCompletion, RequestRun, Read, Point
  <2> QED
    BY <2>1 DEF Arrive, Goto, TypeInv, TypeOK
<1>2. CASE Handle(q) \/ Abort(q)
  <2>1. pc[q] # "idle" /\ overlapped' = overlapped
    BY <1>2
    DEF Handle, Abort, BeginActivation, PollDag, FinishActivation, ClaimFirstRun, Trigger,
        MarkTriggered, MarkFailed, ReadRow, ReadLedger, ReadAirflow, Sync
  <2>2. \E point \in Point : Goto(q, point)
    BY <1>2
    DEF Handle, Abort, BeginActivation, PollDag, FinishActivation, ClaimFirstRun, Trigger,
        MarkTriggered, MarkFailed, ReadRow, Read, ReadLedger, ReadAirflow, Sync, Answer,
        Complete, Point
  <2> QED
    BY <2>1, <2>2 DEF AloneInv, Goto, TypeInv, TypeOK
<1> QED
  BY <1>1, <1>2 DEF StepOf

LEMMA AloneStep ==
  ASSUME TypeInv, AloneInv, ~overlapped, NEW q \in Request, StepOf(q)
  PROVE  row'.corr = row'.attempt /\ AloneAt(q)'
<1>0. row.corr = row.attempt /\ AloneAt(q) /\ row \in Row
  BY DEF AloneInv, TypeInv, TypeOK
<1>1. ASSUME Answer(q) \/ Complete(q), row'.corr = row.corr, row'.attempt = row.attempt
      PROVE  row'.corr = row'.attempt /\ AloneAt(q)'
  BY <1>0, <1>1 DEF Answer, Complete, Goto, AloneAt, TypeInv, TypeOK
<1>2. CASE \/ RequestActivation(q) \/ BeginActivation(q) \/ PollDag(q)
           \/ \E again \in BOOLEAN : RequestRun(q, again)
  <2>1. row'.corr = row.corr /\ row'.attempt = row.attempt
    BY <1>0, <1>2 DEF RequestActivation, BeginActivation, PollDag, RequestRun, Row
  <2>2. CASE pc'[q] \in {"c_read", "a_begin", "a_poll", "a_finish"}
    BY <1>0, <2>1, <2>2 DEF AloneAt
  <2>3. CASE \E again \in BOOLEAN : RequestRun(q, again)
    BY <1>0, <2>3 DEF RequestRun, Goto, AloneAt, TypeInv, TypeOK
  <2> QED
    BY <1>2, <2>2, <2>3 DEF RequestActivation, BeginActivation, PollDag, Goto, TypeInv, TypeOK
<1>3. CASE FinishActivation(q) \/ MarkTriggered(q) \/ MarkFailed(q) \/ Abort(q) \/ Sync(q)
  <2>1. row'.corr = row.corr /\ row'.attempt = row.attempt
    BY <1>0, <1>3 DEF FinishActivation, MarkTriggered, MarkFailed, Abort, Sync, Row
  <2> QED
    BY <1>1, <1>3, <2>1 DEF FinishActivation, MarkTriggered, MarkFailed, Abort, Sync
<1>4. CASE ClaimFirstRun(q)
  <2>1. CASE /\ row' = [status |-> "TRIGGERING", attempt |-> row.attempt + 1,
                        corr |-> nextId[q], airflow |-> "NONE", linked |-> 0]
             /\ Goto(q, "r_trigger") /\ UNCHANGED localVars
    BY <1>0, <1>4, <2>1 DEF ClaimFirstRun, Goto, AloneAt, TypeInv, TypeOK
  <2> QED
    BY <1>1, <1>4, <2>1 DEF ClaimFirstRun
<1>5. CASE Trigger(q)
  <2>1. /\ pc[q] = "r_trigger" /\ pc'[q] \in {"r_mark", "r_fail"}
        /\ UNCHANGED <<row, nextId>>
    BY <1>5 DEF Trigger, Goto, TypeInv, TypeOK
  <2> QED
    BY <1>0, <2>1 DEF AloneAt
<1>6. CASE RequestCompletion(q) \/ ReadRow(q)
  <2>1. UNCHANGED row /\ (Read(q) \/ Answer(q))
    BY <1>6 DEF RequestCompletion, ReadRow
  <2> QED
    BY <1>0, <1>1, <2>1 DEF Read, Goto, AloneAt, TypeInv, TypeOK
<1>7. CASE ReadLedger(q) \/ ReadAirflow(q)
  <2>1. /\ pc[q] \in {"c_etl", "c_airflow"} /\ pc'[q] \in {"c_airflow", "c_sync"}
        /\ UNCHANGED <<row, seen>>
    BY <1>7 DEF ReadLedger, ReadAirflow, Goto, TypeInv, TypeOK
  <2> QED
    BY <1>0, <2>1 DEF AloneAt
<1> QED
  BY <1>2, <1>3, <1>4, <1>5, <1>6, <1>7 DEF StepOf, Handle

LEMMA AloneNext == TypeInv /\ AloneInv /\ [Next]_vars => AloneInv'
<1> SUFFICES ASSUME TypeInv, AloneInv, [Next]_vars, ~overlapped'
             PROVE  AloneInv'
  BY DEF AloneInv
<1>1. ASSUME NEW q \in Request, StepOf(q)
      PROVE  AloneInv'
  <2>1. ~overlapped /\ \A p \in Request \ {q} : pc'[p] = "idle"
    BY <1>1, OthersIdle
  <2>2. row'.corr = row'.attempt /\ AloneAt(q)'
    BY <1>1, <2>1, AloneStep
  <2> QED
    BY <2>1, <2>2 DEF AloneInv, AloneAt
<1>2. CASE UNCHANGED <<row, pc, localVars, overlapped>>
  BY <1>2 DEF AloneInv, AloneAt
<1>3. ASSUME NEW n \in Attempt, Execute(n) \/ KillWorker(n)
      PROVE  UNCHANGED <<row, pc, localVars, overlapped>>
  BY <1>3 DEF Execute, StartDagRun, StartEtl, Publish, FinishEtl, EndTask, KillWorker
<1>4. CASE Discover \/ UNCHANGED vars
  BY <1>2, <1>4 DEF Discover, vars
<1> QED
  BY <1>1, <1>2, <1>3, <1>4 DEF Next, StepOf

\* Member of AtWork.
Going(n) ==
  \/ dagRun[n] = "QUEUED"
  \/ dagRun[n] = "RUNNING" /\ etl[n] \in {"ABSENT", "RUNNING"}

\* No run but the claimed one is going, and that one only while the session
\* says so; what the handler has read of an end has happened.
AttemptInv(n) ==
  /\ n # row.corr => ~Going(n)
  /\ n > row.attempt => dagRun[n] = "NONE"
  /\ n = row.corr /\ row.status \notin Triggered => ~Going(n)
  /\ n = row.corr /\ row.airflow \in {"FAILED", "SUCCESS"} => ~Going(n)

HandlerInv(q) ==
  /\ pc[q] = "a_begin" => row.status \notin Activated
  /\ pc[q] \in {"a_poll", "a_finish"} => row.status = "ACTIVATING"
  /\ pc[q] \in {"r_trigger", "r_mark", "r_fail"} =>
       row.status = "TRIGGERING" /\ row.airflow = "NONE"
  /\ pc[q] \in {"r_trigger", "r_fail"} => dagRun[nextId[q]] = "NONE"
  /\ pc[q] = "r_mark" => airflowSeen[q] = "QUEUED"
  /\ pc[q] \in {"c_airflow", "c_sync"} /\ airflowSeen[q] \in {"FAILED", "SUCCESS"} =>
       ~Going(seen[q].corr)

OneRunInv ==
  ~overlapped /\ ~lost =>
    /\ \A n \in Attempt : AttemptInv(n)
    /\ \A q \in Request : HandlerInv(q)

LEMMA OneRunInit == Init => OneRunInv
  BY DEF Init, OneRunInv, AttemptInv, HandlerInv, Going, Approved

\* A request or a handler's step that loses no answer to a trigger, with no other
\* handler at work.
LEMMA OneRunStep ==
  ASSUME TypeInv, RunsInv, SuccessInv, AloneInv, OneRunInv, ~overlapped, ~lost, ~lost',
         NEW q \in Request, StepOf(q)
  PROVE  (\A n \in Attempt : AttemptInv(n)') /\ HandlerInv(q)'
<1>0. /\ \A n \in Attempt : AttemptInv(n)
      /\ HandlerInv(q) /\ AloneAt(q) /\ SeenInv(q)
      /\ row.corr = row.attempt /\ row \in Row
  BY DEF OneRunInv, AloneInv, SuccessInv, TypeInv, TypeOK
<1>1. ASSUME Answer(q) \/ Complete(q), UNCHANGED <<dagRun, etl>>
      PROVE  HandlerInv(q)'
  BY <1>1 DEF Answer, Complete, Goto, HandlerInv, TypeInv, TypeOK
<1>2. ASSUME UNCHANGED <<row, dagRun, etl>>
      PROVE  \A n \in Attempt : AttemptInv(n)'
  BY <1>0, <1>2 DEF AttemptInv, Going
<1>3. CASE \/ RequestActivation(q) \/ RequestCompletion(q) \/ ReadRow(q) \/ PollDag(q)
           \/ \E again \in BOOLEAN : RequestRun(q, again)
  <2>1. UNCHANGED <<row, dagRun, etl>>
    BY <1>3 DEF RequestActivation, RequestCompletion, ReadRow, PollDag, RequestRun, airflowVars
  <2>2. CASE RequestActivation(q)
    <3>1. pc'[q] = IF row.status \in Activated THEN "c_read" ELSE "a_begin"
      BY <2>2 DEF RequestActivation, Goto, TypeInv, TypeOK
    <3> QED
      BY <1>2, <2>1, <3>1 DEF HandlerInv, Going
  <2>3. CASE PollDag(q)
    <3>1. pc[q] = "a_poll" /\ pc'[q] = "a_finish"
      BY <2>3 DEF PollDag, Goto, TypeInv, TypeOK
    <3> QED
      BY <1>0, <1>2, <2>1, <3>1 DEF HandlerInv, Going
  <2>4. CASE RequestCompletion(q) \/ ReadRow(q)
    <3>1. Answer(q) \/ pc'[q] = "c_etl"
      BY <2>4 DEF RequestCompletion, ReadRow, Read, Goto, TypeInv, TypeOK
    <3> QED
      BY <1>1, <1>2, <2>1, <3>1 DEF HandlerInv, Going
  <2>5. CASE \E again \in BOOLEAN : RequestRun(q, again)
    <3>1. pc'[q] = "r_claim"
      BY <2>5 DEF RequestRun, Goto, TypeInv, TypeOK
    <3> QED
      BY <1>2, <2>1, <3>1 DEF HandlerInv, Going
  <2> QED
    BY <1>3, <2>2, <2>3, <2>4, <2>5
<1>4. CASE BeginActivation(q) \/ FinishActivation(q)
  <2>1. /\ row.status \notin Triggered /\ UNCHANGED <<dagRun, etl>>
        /\ row'.corr = row.corr /\ row'.attempt = row.attempt /\ row'.airflow = row.airflow
    BY <1>0, <1>4
    DEF BeginActivation, FinishActivation, HandlerInv, Triggered, Activated, Row
  <2>2. \A n \in Attempt : AttemptInv(n)'
    BY <1>0, <2>1 DEF AttemptInv, Going
  <2>3. CASE BeginActivation(q)
    <3>1. pc'[q] = "a_poll" /\ row'.status = "ACTIVATING"
      BY <1>0, <2>3 DEF BeginActivation, Goto, TypeInv, TypeOK, Row
    <3> QED
      BY <2>2, <3>1 DEF HandlerInv
  <2>4. CASE FinishActivation(q)
    BY <1>1, <2>1, <2>2, <2>4 DEF FinishActivation
  <2> QED
    BY <1>4, <2>3, <2>4
<1>5. CASE ClaimFirstRun(q)
  <2>1. UNCHANGED <<dagRun, etl>>
    BY <1>5 DEF ClaimFirstRun, airflowVars
  <2>2. CASE UNCHANGED row /\ (Answer(q) \/ Complete(q))
    BY <1>1, <1>2, <2>1, <2>2
  <2>3. CASE /\ MayClaim(q) /\ Goto(q, "r_trigger") /\ UNCHANGED localVars
             /\ row' = [status |-> "TRIGGERING", attempt |-> row.attempt + 1,
                        corr |-> nextId[q], airflow |-> "NONE", linked |-> 0]
    <3>1. /\ row.status \notin Triggered /\ nextId[q] = row.attempt + 1
          /\ nextId[q] \in Attempt /\ row.attempt \in Nat
      BY <1>0, <1>5, <2>3
      DEF ClaimFirstRun, MayClaim, Triggered, AloneAt, TypeInv, WorksFor, Row
    <3>2. \A n \in Attempt : ~Going(n)
      BY <1>0, <3>1 DEF AttemptInv
    <3>3. \A n \in Attempt : n > row.attempt + 1 => dagRun[n] = "NONE"
      BY <1>0, <3>1 DEF AttemptInv, Attempt
    <3>4. dagRun[nextId[q]] = "NONE"
      BY <1>0, <3>1 DEF AttemptInv
    <3>5. \A n \in Attempt : AttemptInv(n)'
      BY <2>1, <2>3, <3>2, <3>3 DEF AttemptInv, Going
    <3>6. /\ pc'[q] = "r_trigger" /\ nextId' = nextId
          /\ row'.status = "TRIGGERING" /\ row'.airflow = "NONE"
      BY <2>3 DEF Goto, TypeInv, TypeOK
    <3> QED
      BY <2>1, <3>4, <3>5, <3>6 DEF HandlerInv
  <2> QED
    BY <1>5, <2>2, <2>3 DEF ClaimFirstRun
<1>6. CASE Trigger(q)
  <2>1. /\ pc[q] = "r_trigger" /\ UNCHANGED <<row, nextId>>
        /\ nextId[q] \in Attempt /\ nextId[q] = row.corr /\ dagRun[nextId[q]] = "NONE"
        /\ row.status = "TRIGGERING" /\ row.airflow = "NONE" /\ row.corr \in Nat
    BY <1>0, <1>6 DEF Trigger, HandlerInv, AloneAt, TypeInv, WorksFor, Row
  <2>2. UNCHANGED etl
    BY <1>6 DEF Trigger
  <2>3. CASE /\ dagRun' = [dagRun EXCEPT ![nextId[q]] = IF @ = "NONE" THEN "QUEUED" ELSE @]
             /\ airflowSeen' = [airflowSeen EXCEPT ![q] = dagRun'[nextId[q]]]
             /\ Goto(q, "r_mark")
    <3>1. /\ dagRun' = [dagRun EXCEPT ![nextId[q]] = "QUEUED"]
          /\ airflowSeen'[q] = "QUEUED" /\ pc'[q] = "r_mark"
      BY <2>1, <2>3 DEF Goto, TypeInv, TypeOK
    <3>2. ASSUME NEW n \in Attempt
          PROVE  AttemptInv(n)'
      <4>1. CASE n = nextId[q]
        BY <1>0, <2>1, <4>1 DEF AttemptInv, Triggered, Attempt
      <4>2. CASE n # nextId[q]
        BY <1>0, <2>1, <2>2, <3>1, <4>2 DEF AttemptInv, Going, TypeInv, TypeOK
      <4> QED
        BY <4>1, <4>2
    <3> QED
      BY <2>1, <3>1, <3>2 DEF HandlerInv
  <2>4. CASE Goto(q, "r_fail") /\ UNCHANGED <<dagRun, etl>>
    <3>1. pc'[q] = "r_fail"
      BY <2>4 DEF Goto, TypeInv, TypeOK
    <3> QED
      BY <1>2, <2>1, <2>4, <3>1 DEF HandlerInv
  <2> QED
    BY <1>6, <2>2, <2>3, <2>4 DEF Trigger
<1>7. CASE MarkTriggered(q)
  <2>1. /\ UNCHANGED <<dagRun, etl>> /\ Complete(q)
        /\ row'.corr = row.corr /\ row'.attempt = row.attempt
        /\ row'.status = "QUEUED" /\ row'.airflow = "QUEUED"
    BY <1>0, <1>7 DEF MarkTriggered, HandlerInv, Row, airflowVars
  <2>2. \A n \in Attempt : AttemptInv(n)'
    BY <1>0, <2>1 DEF AttemptInv, Going, Triggered
  <2> QED
    BY <1>1, <2>1, <2>2
<1>8. CASE MarkFailed(q)
  <2>1. /\ UNCHANGED <<dagRun, etl>> /\ Answer(q)
        /\ row'.corr = row.corr /\ row'.attempt = row.attempt
        /\ nextId[q] = row.corr /\ dagRun[nextId[q]] = "NONE"
    BY <1>0, <1>8 DEF MarkFailed, HandlerInv, AloneAt, Row, airflowVars
  <2>2. \A n \in Attempt : AttemptInv(n)'
    BY <1>0, <2>1 DEF AttemptInv, Going
  <2> QED
    BY <1>1, <2>1, <2>2
<1>9. CASE ReadLedger(q)
  <2>1. /\ pc[q] = "c_etl" /\ pc'[q] = "c_airflow"
        /\ UNCHANGED <<row, dagRun, etl, seen, airflowSeen>>
    BY <1>9 DEF ReadLedger, Goto, TypeInv, TypeOK, airflowVars
  <2>2. airflowSeen[q] = row.airflow /\ seen[q].corr = row.corr /\ seen[q].corr \in Attempt
    BY <1>0, <2>1 DEF SeenInv, AloneAt, TypeInv, WorksFor
  <2>3. airflowSeen[q] \in {"FAILED", "SUCCESS"} => ~Going(seen[q].corr)
    BY <1>0, <2>2 DEF AttemptInv
  <2> QED
    BY <1>2, <2>1, <2>3 DEF HandlerInv, Going
<1>10. CASE ReadAirflow(q)
  <2>1. /\ pc[q] = "c_airflow" /\ pc'[q] = "c_sync"
        /\ UNCHANGED <<row, dagRun, etl, seen>>
    BY <1>10 DEF ReadAirflow, Goto, TypeInv, TypeOK, airflowVars
  <2>2. airflowSeen'[q] \in {dagRun[seen[q].corr], airflowSeen[q], "UNKNOWN"}
    BY <1>10 DEF ReadAirflow, TypeInv, TypeOK
  <2>3. airflowSeen'[q] \in {"FAILED", "SUCCESS"} => ~Going(seen[q].corr)
    BY <1>0, <2>1, <2>2 DEF HandlerInv, Going
  <2> QED
    BY <1>2, <2>1, <2>3 DEF HandlerInv, Going
<1>11. CASE Sync(q)
  <2>1. /\ pc[q] = "c_sync" /\ UNCHANGED <<dagRun, etl>> /\ Answer(q)
        /\ seen[q] = row /\ row.corr \in Attempt
    BY <1>0, <1>11 DEF Sync, AloneAt, TypeInv, WorksFor, airflowVars
  <2>2. airflowSeen[q] \in {"FAILED", "SUCCESS"} => ~Going(row.corr)
    BY <1>0, <2>1 DEF HandlerInv
  <2>3. ShownStatus(q) \notin Triggered => ~Going(row.corr)
    <3>1. CASE etlSeen[q] = "FAILED"
      BY <1>0, <2>1, <3>1 DEF SeenInv, RunsInv, Going
    <3>2. CASE etlSeen[q] \in {"SUCCEEDED", "RUNNING"}
      BY <3>2 DEF ShownStatus, Triggered
    <3>3. CASE etlSeen[q] = "ABSENT"
      BY <1>0, <2>1, <2>2, <3>3
      DEF ShownStatus, Triggered, AttemptInv, TypeInv, TypeOK, AirflowState
    <3> QED
      BY <3>1, <3>2, <3>3 DEF TypeInv, TypeOK, EtlStatus
  <2>4. \/ row' = row
        \/ /\ row'.corr = row.corr /\ row'.attempt = row.attempt
           /\ row'.status = ShownStatus(q) /\ row'.airflow = airflowSeen[q]
    BY <1>0, <1>11 DEF Sync, Row
  <2>5. \A n \in Attempt : AttemptInv(n)'
    BY <1>0, <2>1, <2>2, <2>3, <2>4 DEF AttemptInv, Going
  <2> QED
    BY <1>1, <2>1, <2>5
<1>12. CASE Abort(q)
  <2>1. UNCHANGED <<row, dagRun, etl>> /\ Answer(q)
    BY <1>12 DEF Abort, airflowVars
  <2> QED
    BY <1>1, <1>2, <2>1
<1> QED
  BY <1>3, <1>4, <1>5, <1>6, <1>7, <1>8, <1>9, <1>10, <1>11, <1>12 DEF StepOf, Handle

LEMMA OneRunNext ==
  TypeInv /\ RunsInv /\ SuccessInv /\ AloneInv /\ OneRunInv /\ [Next]_vars => OneRunInv'
<1> SUFFICES ASSUME TypeInv, RunsInv, SuccessInv, AloneInv, OneRunInv, [Next]_vars,
                    ~overlapped', ~lost'
             PROVE  OneRunInv'
  BY DEF OneRunInv
<1>1. ASSUME NEW q \in Request, StepOf(q)
      PROVE  OneRunInv'
  <2>1. ~overlapped /\ \A p \in Request \ {q} : pc'[p] = "idle"
    BY <1>1, OthersIdle
  <2>2. ~lost
    BY <1>1
    DEF StepOf, RequestActivation, RequestRun, RequestCompletion, Handle, Abort,
        BeginActivation, PollDag, FinishActivation, ClaimFirstRun, Trigger, MarkTriggered,
        MarkFailed, ReadRow, ReadLedger, ReadAirflow, Sync
  <2>3. (\A n \in Attempt : AttemptInv(n)') /\ HandlerInv(q)'
    BY <1>1, <2>1, <2>2, OneRunStep
  <2> QED
    BY <2>1, <2>3 DEF OneRunInv, HandlerInv
<1>2. ASSUME UNCHANGED <<row, pc, localVars, overlapped, lost>>,
             \A n \in Attempt : /\ Going(n)' => Going(n)
                                /\ dagRun[n] = "NONE" => dagRun'[n] = "NONE"
      PROVE  OneRunInv'
  <2>1. /\ \A n \in Attempt : AttemptInv(n)
        /\ \A q \in Request : HandlerInv(q)
    BY <1>2 DEF OneRunInv
  <2>3. \A n \in Attempt : AttemptInv(n)'
    BY <1>2, <2>1 DEF AttemptInv
  <2>4. ASSUME NEW q \in Request
        PROVE  HandlerInv(q)'
    <3>1. /\ pc[q] \in {"r_trigger", "r_fail"} => nextId[q] \in Attempt
          /\ pc[q] \in {"c_airflow", "c_sync"} => seen[q].corr \in Attempt
      BY DEF TypeInv, WorksFor
    <3> QED
      BY <1>2, <2>1, <3>1 DEF HandlerInv
  <2> QED
    BY <2>3, <2>4 DEF OneRunInv
<1>3. ASSUME NEW n \in Attempt, Execute(n) \/ KillWorker(n)
      PROVE  OneRunInv'
  <2>1. UNCHANGED <<row, pc, localVars, overlapped, lost>>
    BY <1>3 DEF Execute, StartDagRun, StartEtl, Publish, FinishEtl, EndTask, KillWorker
  <2>2. \A k \in Attempt \ {n} : dagRun'[k] = dagRun[k] /\ etl'[k] = etl[k]
    BY <1>3
    DEF Execute, StartDagRun, StartEtl, Publish, FinishEtl, EndTask, KillWorker, EndDagRun,
        TypeInv, TypeOK
  <2>3. (Going(n)' => Going(n)) /\ (dagRun[n] = "NONE" => dagRun'[n] = "NONE")
    BY <1>3
    DEF Execute, StartDagRun, StartEtl, Publish, FinishEtl, EndTask, KillWorker, EndDagRun,
        Going, RunsInv, TypeInv, TypeOK
  <2> QED
    BY <1>2, <2>1, <2>2, <2>3 DEF Going
<1>5. CASE Discover \/ UNCHANGED vars
  BY <1>2, <1>5 DEF Discover, vars, Going
<1> QED
  BY <1>1, <1>3, <1>5 DEF Next, StepOf

LEMMA OneGoing == TypeInv /\ AloneInv /\ OneRunInv => OneRunAtATime
<1> SUFFICES ASSUME TypeInv, AloneInv, OneRunInv, ~overlapped
             PROVE  row.corr = row.attempt /\ (~lost => Cardinality(AtWork) <= 1)
  BY DEF OneRunAtATime
<1>1. row.corr = row.attempt
  BY DEF AloneInv
<1>2. ASSUME ~lost
      PROVE  Cardinality(AtWork) <= 1
  <2>1. AtWork \subseteq {row.corr}
    BY <1>2 DEF AtWork, OneRunInv, AttemptInv, Going
  <2>2. IsFiniteSet({row.corr}) /\ Cardinality({row.corr}) = 1
    BY FS_Singleton
  <2> QED
    BY <2>1, <2>2, FS_Subset
<1> QED
  BY <1>1, <1>2

\* While requests came one at a time the attempt that was claimed has the
\* identifiers of its own number, and unless Airflow's answer to a trigger was lost
\* no two attempts are waiting or at work: a retry is claimed only when the ledger
\* row of the attempt before has ended, or Airflow has ended its run, or never had
\* it (onboarding_service.py:903, 962-985, onboarding_operations.py:371).  Workers
\* that die and handlers that are cut off do not change that.
THEOREM OneRunCorrect == Spec => []OneRunAtATime
  BY TypeInit, TypeNext, RunsInit, RunsNext, SuccessInit, SuccessNext, AloneInit, AloneNext,
     OneRunInit, OneRunNext, OneGoing, PTL
  DEF Spec
=============================================================================
