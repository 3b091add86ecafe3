------------------------- MODULE PipelineRunProofs -------------------------
(***************************************************************************)
(* Theorems about PipelineRun, for every set of rows, runs, schemas and    *)
(* windows.                                                                *)
(***************************************************************************)
EXTENDS PipelineRun, TLAPS

\* The groups of variables an action leaves alone.
USE DEF sourceVars, ledgerVars, auditVars, trustVars, localVars

-----------------------------------------------------------------------------
(* Type correctness *)

LEMMA EmptyTyped ==
  NoLedgerRow \in LedgerRow /\ NoRaw \in Raw /\ NoInput \in Input
  BY NoneAssumption DEF NoRaw, Raw, NoInput, Input, NoLedgerRow, LedgerRow

LEMMA CloseLedgerTyped ==
  ASSUME TypeOK, NEW r \in Run, NEW st \in {"SUCCEEDED", "FAILED"},
         NEW after \in Nat, CloseLedger(r, st, after)
  PROVE  ledger' \in [Run -> LedgerRow] /\ finished' \in Seq(Run)
<1>1. ledger' \in [Run -> LedgerRow]
  BY DEF TypeOK, CloseLedger, LedgerRow, Raw
<1>2. finished' \in Seq(Run)
  BY DEF TypeOK, CloseLedger
<1> QED BY <1>1, <1>2

LEMMA ForgetTyped ==
  ASSUME TypeOK, NEW r \in Run, Forget(r)
  PROVE  /\ raw' \in [Run -> Raw]
         /\ baseline' \in [Run -> Schema \cup {None}]
         /\ input' \in [Run -> Input]
         /\ doomed' \in [Run -> SUBSET (Row \X Run)]
  BY EmptyTyped DEF TypeOK, Forget

LEMMA TypeProgress ==
  ASSUME TypeOK, NEW r \in Run, Progress(r)
  PROVE  TypeOK'
<1> USE DEF Goto, Phase, InTry, Ended
<1>1. CASE Extract(r)
  <2>1. raw' \in [Run -> Raw]
    BY <1>1 DEF TypeOK, Extract, Raw
  <2> QED BY <1>1, <2>1 DEF TypeOK, Extract
<1>2. CASE ReadBaseline(r)
  BY <1>2 DEF TypeOK, ReadBaseline
<1>3. CASE RecordDrift(r)
  BY <1>3 DEF TypeOK, RecordDrift
<1>4. CASE ReadWatermark(r)
  <2> DEFINE before == IF IsBackfill(r) THEN 0 ELSE watermark
             batch  == {x \in raw[r].rows : InRange(x, r, before)}
  <2>1. before \in Nat
    BY DEF TypeOK
  <2>2. batch \in SUBSET Row
    BY DEF TypeOK, Raw
  <2>3. PICK c \in {0} \cup {Mark[x] : x \in batch} :
          input' = [input EXCEPT ![r] =
                      [before |-> before, batch |-> batch, candidate |-> c]]
    BY <1>4 DEF ReadWatermark
  <2>4. c \in Nat
    BY <2>2, <2>3, RowAssumption
  <2> HIDE DEF before, batch
  <2>5. input' \in [Run -> Input]
    BY <2>1, <2>2, <2>3, <2>4 DEF TypeOK, Input
  <2> QED BY <1>4, <2>5 DEF TypeOK, ReadWatermark
<1>5. CASE RecordQuality(r)
  BY <1>5 DEF TypeOK, RecordQuality, Input
<1>6. CASE PublishIncremental(r)
  BY <1>6 DEF TypeOK, PublishIncremental, Input, Publishable
<1>7. CASE DeleteWindow(r)
  BY <1>7 DEF TypeOK, DeleteWindow
<1>8. CASE PublishBackfill(r)
  BY <1>8 DEF TypeOK, PublishBackfill, Input, Publishable
<1>9. CASE FinishRun(r)
  <2>1. WatermarkAfter(r) \in Nat
    BY DEF TypeOK, Input, WatermarkAfter
  <2>2. ledger' \in [Run -> LedgerRow] /\ finished' \in Seq(Run)
    BY <1>9, <2>1, CloseLedgerTyped DEF FinishRun
  <2> QED BY <1>9, <2>2, ForgetTyped DEF TypeOK, FinishRun, CloseLedger
<1> QED
  BY <1>1, <1>2, <1>3, <1>4, <1>5, <1>6, <1>7, <1>8, <1>9 DEF Progress

LEMMA TypeNext == TypeOK /\ [Next]_vars => TypeOK'
<1> SUFFICES ASSUME TypeOK, [Next]_vars PROVE TypeOK'
  OBVIOUS
<1> USE DEF Goto, Phase, InTry, Ended
<1>1. ASSUME NEW rows \in SUBSET (Row \ source), Arrive(rows) PROVE TypeOK'
  BY <1>1 DEF TypeOK, Arrive
<1>2. ASSUME NEW s \in Schema, ChangeSchema(s) PROVE TypeOK'
  BY <1>2 DEF TypeOK, ChangeSchema
<1>3. ASSUME NEW r \in Run, NEW w \in Windows \cup {None}, StartRun(r, w)
      PROVE  TypeOK'
  BY <1>3 DEF TypeOK, StartRun, LedgerRow
<1>4. ASSUME NEW r \in Run, Progress(r) PROVE TypeOK'
  BY <1>4, TypeProgress
<1>5. ASSUME NEW r \in Run, FailRun(r) PROVE TypeOK'
  <2>1. input[r].before \in Nat
    BY DEF TypeOK, Input
  <2>2. ledger' \in [Run -> LedgerRow] /\ finished' \in Seq(Run)
    BY <1>5, <2>1, CloseLedgerTyped DEF FailRun
  <2> QED BY <1>5, <2>2, ForgetTyped DEF TypeOK, FailRun, CloseLedger
<1>6. ASSUME NEW r \in Run, Crash(r) PROVE TypeOK'
  BY <1>6, ForgetTyped DEF TypeOK, Crash
<1>7. CASE UNCHANGED vars
  BY <1>7 DEF TypeOK, vars
<1> QED
  BY <1>1, <1>2, <1>3, <1>4, <1>5, <1>6, <1>7 DEF Next

\* Every variable keeps its type: the tables hold rows of their schema and the
\* process of a run is at one of its program points.
THEOREM TypeCorrect == Spec => []TypeOK
<1>1. Init => TypeOK
  BY EmptyTyped, NoneAssumption DEF Init, TypeOK, Phase, Ended
<1> QED BY <1>1, TypeNext, PTL DEF Spec

-----------------------------------------------------------------------------
(* What the safety properties rest on.  None of them is inductive alone:   *)
(* each part below relates what a run has read to what the tables hold now. *)

\* The ledger follows the process: RUNNING until a finish_run commits, and so
\* for ever when the process died first.
LedgerFollowsProcess ==
  \A r \in Run :
    /\ pc[r] = "idle" => ledger[r].status = "ABSENT"
    /\ pc[r] \in InTry \cup {"finish", "dead"} => ledger[r].status = "RUNNING"
    /\ pc[r] = "succeeded" => ledger[r].status = "SUCCEEDED"
    /\ pc[r] = "failed" => ledger[r].status = "FAILED"

\* An incremental run sits in its publish branch, a backfill in the other.
BranchOfMode ==
  \A r \in Run : pc[r] = "replace" => IsBackfill(r)

\* A committed publish left the candidate of its run in the watermark.
CandidatePublished ==
  /\ watermark = 0 \/ watermarkRun \in Run
  /\ \A r \in Run :
       watermark # 0 /\ watermarkRun = r /\ pc[r] = "finish"
         => input[r].candidate = watermark

\* Drift found by a run still under way was recorded and tolerated.
DriftSettled ==
  \A r \in Run :
    pc[r] \in {"watermark", "quality", "publish", "replace", "finish"} /\ Drifted(r)
      => r \in driftHistory /\ DriftPolicy[<<baseline[r], raw[r].schema>>] # "fail"

AuditInv ==
  /\ LedgerFollowsProcess
  /\ BranchOfMode
  /\ FailedRunsLeaveNoTrace
  /\ CandidatePublished
  /\ LedgerExplainsWatermark
  /\ DriftSettled

LEMMA AuditProgress ==
  ASSUME TypeOK, AuditInv, NEW r \in Run, Progress(r)
  PROVE  AuditInv'
<1> USE DEF AuditInv, LedgerFollowsProcess, BranchOfMode, FailedRunsLeaveNoTrace,
            CandidatePublished, LedgerExplainsWatermark, DriftSettled,
            TypeOK, Goto, Phase, InTry, Ended, IsBackfill, Drifted
<1>1. CASE Extract(r)
  BY <1>1 DEF Extract
<1>2. CASE ReadBaseline(r)
  BY <1>2 DEF ReadBaseline
<1>3. CASE RecordDrift(r)
  BY <1>3 DEF RecordDrift, Fails
<1>4. CASE ReadWatermark(r)
  BY <1>4 DEF ReadWatermark
<1>5. CASE RecordQuality(r)
  BY <1>5 DEF RecordQuality
<1>6. CASE PublishIncremental(r)
  BY <1>6 DEF PublishIncremental
<1>7. CASE DeleteWindow(r)
  BY <1>7 DEF DeleteWindow
<1>8. CASE PublishBackfill(r)
  BY <1>8 DEF PublishBackfill
<1>9. CASE FinishRun(r)
  BY <1>9 DEF FinishRun, CloseLedger, Forget, WatermarkAfter
<1> QED
  BY <1>1, <1>2, <1>3, <1>4, <1>5, <1>6, <1>7, <1>8, <1>9 DEF Progress

LEMMA AuditNext == TypeOK /\ AuditInv /\ [Next]_vars => AuditInv'
<1> SUFFICES ASSUME TypeOK, AuditInv, [Next]_vars PROVE AuditInv'
  OBVIOUS
<1> USE DEF AuditInv, LedgerFollowsProcess, BranchOfMode, FailedRunsLeaveNoTrace,
            CandidatePublished, LedgerExplainsWatermark, DriftSettled,
            TypeOK, Goto, Phase, InTry, Ended, IsBackfill, Drifted
<1>1. ASSUME NEW rows \in SUBSET (Row \ source), Arrive(rows) PROVE AuditInv'
  BY <1>1 DEF Arrive
<1>2. ASSUME NEW s \in Schema, ChangeSchema(s) PROVE AuditInv'
  BY <1>2 DEF ChangeSchema
<1>3. ASSUME NEW r \in Run, NEW w \in Windows \cup {None}, StartRun(r, w)
      PROVE  AuditInv'
  BY <1>3 DEF StartRun
<1>4. ASSUME NEW r \in Run, Progress(r) PROVE AuditInv'
  BY <1>4, AuditProgress
<1>5. ASSUME NEW r \in Run, FailRun(r) PROVE AuditInv'
  BY <1>5 DEF FailRun, CloseLedger, Forget
<1>6. ASSUME NEW r \in Run, Crash(r) PROVE AuditInv'
  BY <1>6 DEF Crash, Active, Forget
<1>7. CASE UNCHANGED vars
  BY <1>7 DEF vars
<1> QED
  BY <1>1, <1>2, <1>3, <1>4, <1>5, <1>6, <1>7 DEF Next

LEMMA AuditCorrect == Spec => []AuditInv
<1>1. Init => AuditInv
  BY NoneAssumption
  DEF Init, AuditInv, LedgerFollowsProcess, BranchOfMode, FailedRunsLeaveNoTrace,
      CandidatePublished, LedgerExplainsWatermark, DriftSettled, NoLedgerRow, InTry
<1> QED BY <1>1, AuditNext, TypeCorrect, PTL DEF Spec

\* In every installation, whatever runs overlap, fail or die: no trace of a
\* failed run, and none of any run before its publish transaction commits.
THEOREM FailedRunsCorrect == Spec => []FailedRunsLeaveNoTrace
  BY AuditCorrect, PTL DEF AuditInv

\* In every installation the watermark is the one its run reported, or would
\* have reported had it not died between the publish and the ledger update.
THEOREM LedgerCorrect == Spec => []LedgerExplainsWatermark
  BY AuditCorrect, PTL DEF AuditInv

-----------------------------------------------------------------------------

(* What a run has read is what it publishes.                               *)

Selected(r) == pc[r] \in {"quality", "publish", "replace"}

\* The batch of a run is the range of its artifact above the watermark it read,
\* or inside its window, and the candidate is the end of that batch.
BatchIsRange ==
  \A r \in Run : Selected(r) =>
    /\ input[r].batch = {x \in raw[r].rows : InRange(x, r, input[r].before)}
    /\ IsCandidate(input[r].candidate, input[r].batch)

ReadInv ==
  /\ \A r \in Run : raw[r].rows \subseteq source
  /\ BatchIsRange

LEMMA ReadReadWatermark ==
  ASSUME TypeOK, ReadInv, NEW r \in Run, ReadWatermark(r)
  PROVE  ReadInv'
<1> USE DEF TypeOK, Goto, Phase
<1> DEFINE before == IF IsBackfill(r) THEN 0 ELSE watermark
           batch  == {x \in raw[r].rows : InRange(x, r, before)}
<1>1. PICK c \in {0} \cup {Mark[x] : x \in batch} :
        /\ IsCandidate(c, batch)
        /\ input' = [input EXCEPT ![r] =
                       [before |-> before, batch |-> batch, candidate |-> c]]
  BY DEF ReadWatermark
<1>2. pc[r] = "watermark" /\ UNCHANGED <<source, ledger, raw>>
  BY DEF ReadWatermark
<1>3. input'[r].before = before /\ input'[r].batch = batch /\ input'[r].candidate = c
  BY <1>1
<1>4. \A q \in Run \ {r} : input'[q] = input[q] /\ pc'[q] = pc[q]
  BY <1>1 DEF ReadWatermark
<1>5. \A x, q, m : InRange(x, q, m)' = InRange(x, q, m)
  BY <1>2 DEF InRange, InWindow, IsBackfill
<1>6. ASSUME NEW q \in Run, Selected(q)'
      PROVE  /\ input'[q].batch = {x \in raw'[q].rows : InRange(x, q, input'[q].before)}
             /\ IsCandidate(input'[q].candidate, input'[q].batch)
  <2>1. CASE q = r
    BY <1>1, <1>2, <1>3, <2>1
  <2>2. CASE q # r
    BY <1>2, <1>4, <1>6, <2>2 DEF ReadInv, BatchIsRange, Selected
  <2> QED BY <2>1, <2>2
<1> QED BY <1>2, <1>5, <1>6 DEF ReadInv, BatchIsRange, IsCandidate

LEMMA ReadNext == TypeOK /\ ReadInv /\ [Next]_vars => ReadInv'
<1> SUFFICES ASSUME TypeOK, ReadInv, [Next]_vars PROVE ReadInv'
  OBVIOUS
<1> USE DEF TypeOK, ReadInv, BatchIsRange, Selected, InRange, InWindow, IsBackfill,
            Goto, Phase, InTry, Ended
<1>1. ASSUME NEW rows \in SUBSET (Row \ source), Arrive(rows) PROVE ReadInv'
  BY <1>1 DEF Arrive
<1>2. ASSUME NEW s \in Schema, ChangeSchema(s) PROVE ReadInv'
  BY <1>2 DEF ChangeSchema
<1>3. ASSUME NEW r \in Run, NEW w \in Windows \cup {None}, StartRun(r, w)
      PROVE  ReadInv'
  BY <1>3 DEF StartRun
<1>4. ASSUME NEW r \in Run, Progress(r) PROVE ReadInv'
  <2>1. CASE Extract(r)
    BY <2>1 DEF Extract
  <2>2. CASE ReadBaseline(r)
    BY <2>2 DEF ReadBaseline
  <2>3. CASE RecordDrift(r)
    BY <2>3 DEF RecordDrift
  <2>4. CASE RecordQuality(r)
    BY <2>4 DEF RecordQuality
  <2>5. CASE PublishIncremental(r)
    BY <2>5 DEF PublishIncremental
  <2>6. CASE DeleteWindow(r)
    BY <2>6 DEF DeleteWindow
  <2>7. CASE PublishBackfill(r)
    BY <2>7 DEF PublishBackfill
  <2>8. CASE FinishRun(r)
    BY <2>8 DEF FinishRun, CloseLedger, Forget, NoRaw
  <2> QED
    BY <1>4, <2>1, <2>2, <2>3, <2>4, <2>5, <2>6, <2>7, <2>8, ReadReadWatermark
    DEF Progress
<1>5. ASSUME NEW r \in Run, FailRun(r) PROVE ReadInv'
  BY <1>5 DEF FailRun, CloseLedger, Forget, NoRaw
<1>6. ASSUME NEW r \in Run, Crash(r) PROVE ReadInv'
  BY <1>6 DEF Crash, Forget, NoRaw
<1>7. CASE UNCHANGED vars
  BY <1>7 DEF vars
<1> QED
  BY <1>1, <1>2, <1>3, <1>4, <1>5, <1>6, <1>7 DEF Next

LEMMA ReadCorrect == Spec => []ReadInv
<1>1. Init => ReadInv
  BY DEF Init, ReadInv, BatchIsRange, Selected, NoRaw
<1> QED BY <1>1, ReadNext, TypeCorrect, PTL DEF Spec

-----------------------------------------------------------------------------
(* No row is lost.                                                         *)

Covered(m) == \A x \in source : InitialMark < Mark[x] /\ Mark[x] <= m => Accounted(x)

\* A position read from the watermark table is that of a row the source has.
Reached(m) == m = 0 \/ \E z \in source : Mark[z] = m

\* With a source that grows in watermark order, an artifact holds everything
\* below its newest row.
ArtifactIsPrefix ==
  \A r \in Run :
    \A x \in raw[r].rows, y \in source : Mark[y] <= Mark[x] => y \in raw[r].rows

\* A backfill of history holds every row its window can replace.
BackfillIsComplete ==
  \A r \in Run : IsBackfill(r) =>
    /\ pc[r] \in InTry => \E z \in source : ledger[r].window[2] <= Mark[z]
    /\ pc[r] \in InTry \ {"extract"} =>
         \A y \in source : Mark[y] <= ledger[r].window[2] => y \in raw[r].rows
    /\ pc[r] = "replace" => \A t \in doomed[r] : InWindow(t[1], ledger[r].window)

QuarantineRecorded ==
  \A r \in Run : pc[r] \in {"publish", "replace"} =>
    \A x \in input[r].batch : Fate[x] = "quarantined" => <<x, r>> \in quarantine

CoverInv ==
  /\ ArtifactIsPrefix
  /\ Reached(watermark) /\ Covered(watermark)
  /\ \A r \in Run : Reached(input[r].before) /\ Covered(input[r].before)
  /\ BackfillIsComplete
  /\ QuarantineRecorded

\* A recorded or published row stays accounted for while its rows stay.
LEMMA AccountedStays ==
  ASSUME NEW x \in Row, Accounted(x),
         quarantine \subseteq quarantine',
         \A r \in Run : <<x, r>> \in target => \E q \in Run : <<x, q>> \in target'
  PROVE  Accounted(x)'
  BY DEF Accounted

LEMMA CoverArrive ==
  ASSUME TypeOK, ReadInv, CoverInv, OrderedSource, NEW rows \in SUBSET (Row \ source),
         Arrive(rows)
  PROVE  CoverInv'
<1> USE RowAssumption DEF TypeOK
<1>1. /\ source' = source \cup rows
      /\ \A x \in rows, y \in source : Mark[y] < Mark[x]
      /\ \A x \in rows : Mark[x] \in Nat \ {0}
      /\ \A x \in source : Mark[x] \in Nat \ {0}
      /\ UNCHANGED <<ledger, quarantine, target, watermark, pc, raw, input, doomed>>
  BY DEF Arrive
<1>2. ArtifactIsPrefix'
  BY <1>1 DEF ReadInv, CoverInv, ArtifactIsPrefix, Raw
<1>3. ASSUME NEW m \in Nat, Reached(m), Covered(m)
      PROVE  /\ m = 0 \/ \E z \in source' : Mark[z] = m
             /\ \A x \in source' : InitialMark < Mark[x] /\ Mark[x] <= m => Accounted(x)
  BY <1>1, <1>3 DEF Reached, Covered
<1>4. Reached(watermark)' /\ Covered(watermark)'
  <2>1. \A x : Accounted(x)' = Accounted(x)
    BY <1>1 DEF Accounted
  <2> QED BY <1>1, <1>3, <2>1 DEF CoverInv, Reached, Covered
<1>5. ASSUME NEW r \in Run
      PROVE  Reached(input[r].before)' /\ Covered(input[r].before)'
  <2>1. \A x : Accounted(x)' = Accounted(x)
    BY <1>1 DEF Accounted
  <2>2. input[r].before \in Nat
    BY DEF Input
  <2> QED BY <1>1, <1>3, <2>1, <2>2 DEF CoverInv, Reached, Covered
<1>6. BackfillIsComplete'
  BY <1>1, WindowAssumption
  DEF CoverInv, BackfillIsComplete, IsBackfill, InTry, LedgerRow, InWindow
<1>7. QuarantineRecorded'
  BY <1>1 DEF CoverInv, QuarantineRecorded
<1> QED BY <1>2, <1>4, <1>5, <1>6, <1>7 DEF CoverInv

\* Steps that leave the source, the tables and what was read alone.
LEMMA CoverQuiet ==
  ASSUME TypeOK, CoverInv,
         UNCHANGED <<source, target, watermark, raw, input>>,
         quarantine \subseteq quarantine',
         BackfillIsComplete', QuarantineRecorded'
  PROVE  CoverInv'
<1>1. \A x \in Row : Accounted(x) => Accounted(x)'
  BY AccountedStays
<1> QED
  BY <1>1 DEF TypeOK, CoverInv, ArtifactIsPrefix, Reached, Covered

LEMMA CoverStart ==
  ASSUME TypeOK, CoverInv, HistoryOnly, NEW r \in Run,
         NEW w \in Windows \cup {None}, StartRun(r, w)
  PROVE  CoverInv'
<1> USE DEF TypeOK, StartRun, Goto, Phase, InTry, Ended, IsBackfill
<1>1. BackfillIsComplete'
  <2>1. w # None => \E z \in source : w[2] <= Mark[z]
    BY WindowAssumption, RowAssumption DEF CoverInv, Reached
  <2> QED BY <2>1 DEF CoverInv, BackfillIsComplete, InWindow
<1>2. QuarantineRecorded'
  BY DEF CoverInv, QuarantineRecorded
<1> QED BY <1>1, <1>2, CoverQuiet

\* A run that ended, either way, has nothing left to be right about.
LEMMA CoverForget ==
  ASSUME TypeOK, CoverInv, NEW r \in Run, Forget(r),
         NEW phase \in Ended, Goto(r, phase),
         UNCHANGED <<source, target, watermark, quarantine>>,
         \A q \in Run : ledger'[q].window = ledger[q].window
  PROVE  CoverInv'
<1> USE DEF TypeOK, Goto, Phase, InTry, Ended, Forget, NoRaw, NoInput
<1>1. \A x : Accounted(x)' = Accounted(x)
  BY DEF Accounted
<1>2. ArtifactIsPrefix'
  BY DEF CoverInv, ArtifactIsPrefix
<1>3. Reached(watermark)' /\ Covered(watermark)'
  BY <1>1 DEF CoverInv, Reached, Covered
<1>4. ASSUME NEW q \in Run
      PROVE  Reached(input[q].before)' /\ Covered(input[q].before)'
  <2>1. CASE q = r
    <3>1. input'[q].before = 0
      BY <2>1
    <3> QED BY <3>1, RowAssumption DEF Reached, Covered
  <2>2. CASE q # r
    BY <1>1, <2>2 DEF CoverInv, Reached, Covered
  <2> QED BY <2>1, <2>2
<1>5. BackfillIsComplete'
  BY DEF CoverInv, BackfillIsComplete, InWindow, IsBackfill
<1>6. QuarantineRecorded'
  BY DEF CoverInv, QuarantineRecorded
<1> QED BY <1>2, <1>3, <1>4, <1>5, <1>6 DEF CoverInv

LEMMA CoverPublish ==
  ASSUME TypeOK, ReadInv, CoverInv, OrderedSource, NEW r \in Run, PublishIncremental(r)
  PROVE  CoverInv'
<1> USE RowAssumption DEF TypeOK, PublishIncremental, Goto, Phase
<1> DEFINE c == input[r].candidate
           b == input[r].batch
<1>1. \A x \in Row : Accounted(x) => Accounted(x)'
  BY AccountedStays
<1>2. /\ b = {x \in raw[r].rows : Mark[x] > LowerBound(input[r].before)}
      /\ IsCandidate(c, b)
      /\ \A x \in b : Fate[x] = "quarantined" => <<x, r>> \in quarantine
  BY DEF ReadInv, CoverInv, BatchIsRange, QuarantineRecorded, Selected, InRange
<1>3. b \subseteq source /\ b \subseteq Row /\ c \in Nat /\ input[r].before \in Nat
  BY <1>2 DEF Input, ReadInv
<1>4. ASSUME c # 0 PROVE Reached(c) /\ Covered(c)'
  <2>1. PICK z \in b : Mark[z] = c
    BY <1>2, <1>4 DEF IsCandidate
  <2>2. Reached(c)
    BY <1>3, <2>1 DEF Reached
  <2>3. ASSUME NEW x \in source, InitialMark < Mark[x], Mark[x] <= c
        PROVE  Accounted(x)'
    <3>1. CASE x \in b
      <4>1. CASE Fate[x] = "trusted"
        <5>1. <<x, r>> \in target'
          BY <3>1, <4>1 DEF Publishable
        <5> QED BY <4>1, <5>1 DEF Accounted
      <4>2. CASE Fate[x] = "quarantined"
        BY <1>2, <3>1, <4>2 DEF Accounted
      <4>3. CASE Fate[x] = "filtered"
        BY <4>3 DEF Accounted
      <4> QED BY <4>1, <4>2, <4>3
    <3>2. CASE x \notin b
      <4>1. x \in raw[r].rows
        BY <1>2, <2>1, <2>3 DEF CoverInv, ArtifactIsPrefix
      <4>2. Mark[x] <= input[r].before
        BY <1>2, <1>3, <2>3, <3>2, <4>1 DEF LowerBound
      <4> QED BY <1>1, <2>3, <4>2 DEF CoverInv, Covered
    <3> QED BY <3>1, <3>2
  <2> QED BY <2>2, <2>3 DEF Covered
<1>5. ArtifactIsPrefix'
  BY DEF CoverInv, ArtifactIsPrefix
<1>6. Reached(watermark)' /\ Covered(watermark)'
  <2>1. CASE c # 0
    BY <1>4, <2>1 DEF Reached, Covered
  <2>2. CASE c = 0
    BY <1>1, <2>2 DEF CoverInv, Reached, Covered
  <2> QED BY <2>1, <2>2
<1>7. \A q \in Run : Reached(input[q].before)' /\ Covered(input[q].before)'
  BY <1>1 DEF CoverInv, Reached, Covered
<1>8. BackfillIsComplete'
  BY DEF CoverInv, BackfillIsComplete, InWindow, IsBackfill, InTry
<1>9. QuarantineRecorded'
  BY DEF CoverInv, QuarantineRecorded
<1> QED BY <1>5, <1>6, <1>7, <1>8, <1>9 DEF CoverInv

LEMMA CoverExtract ==
  ASSUME TypeOK, ReadInv, CoverInv, NEW r \in Run, Extract(r)
  PROVE  CoverInv'
<1> USE DEF TypeOK, Extract, Goto, Phase
<1>1. \A x : Accounted(x)' = Accounted(x)
  BY DEF Accounted
<1>2. ArtifactIsPrefix'
  BY DEF CoverInv, ArtifactIsPrefix
<1>3. Reached(watermark)' /\ Covered(watermark)'
  BY <1>1 DEF CoverInv, Reached, Covered
<1>4. \A q \in Run : Reached(input[q].before)' /\ Covered(input[q].before)'
  BY <1>1 DEF CoverInv, Reached, Covered
<1>5. BackfillIsComplete'
  BY DEF CoverInv, BackfillIsComplete, InWindow, IsBackfill, InTry
<1>6. QuarantineRecorded'
  BY DEF CoverInv, QuarantineRecorded
<1> QED BY <1>2, <1>3, <1>4, <1>5, <1>6 DEF CoverInv

LEMMA CoverReadWatermark ==
  ASSUME TypeOK, CoverInv, NEW r \in Run, ReadWatermark(r)
  PROVE  CoverInv'
<1> USE DEF TypeOK, Goto, Phase
<1> DEFINE before == IF IsBackfill(r) THEN 0 ELSE watermark
           batch  == {x \in raw[r].rows : InRange(x, r, before)}
<1>1. PICK c \in {0} \cup {Mark[x] : x \in batch} :
        /\ IsCandidate(c, batch)
        /\ input' = [input EXCEPT ![r] =
                       [before |-> before, batch |-> batch, candidate |-> c]]
  BY DEF ReadWatermark
<1>2. /\ pc[r] = "watermark" /\ pc' = [pc EXCEPT ![r] = "quality"]
      /\ UNCHANGED <<source, ledger, quarantine, target, watermark, raw, doomed>>
  BY DEF ReadWatermark
<1>3. input'[r].before = before /\ input'[r].batch = batch /\ input'[r].candidate = c
  BY <1>1
<1>4. \A q \in Run \ {r} : input'[q] = input[q]
  BY <1>1
<1>5. \A x : Accounted(x)' = Accounted(x)
  BY <1>2 DEF Accounted
<1>6. ArtifactIsPrefix'
  BY <1>2 DEF CoverInv, ArtifactIsPrefix
<1>7. Reached(watermark)' /\ Covered(watermark)'
  BY <1>2, <1>5 DEF CoverInv, Reached, Covered
<1>8. \A q \in Run : Reached(input[q].before)' /\ Covered(input[q].before)'
  <2>1. Reached(before) /\ Covered(before)
    BY RowAssumption DEF CoverInv, Reached, Covered
  <2> HIDE DEF before
  <2>3. Reached(input[r].before)' /\ Covered(input[r].before)'
    BY <1>2, <1>3, <1>5, <2>1 DEF Reached, Covered
  <2>4. ASSUME NEW q \in Run \ {r}
        PROVE  Reached(input[q].before)' /\ Covered(input[q].before)'
    BY <1>2, <1>4, <1>5 DEF CoverInv, Reached, Covered
  <2> QED BY <2>3, <2>4
<1>9. BackfillIsComplete'
  BY <1>2 DEF CoverInv, BackfillIsComplete, InWindow, IsBackfill, InTry
<1>10. QuarantineRecorded'
  BY <1>2, <1>4 DEF CoverInv, QuarantineRecorded
<1> QED BY <1>6, <1>7, <1>8, <1>9, <1>10 DEF CoverInv

LEMMA CoverQuality ==
  ASSUME TypeOK, CoverInv, NEW r \in Run, RecordQuality(r)
  PROVE  CoverInv'
<1> USE DEF TypeOK, RecordQuality, Goto, Phase
<1>1. BackfillIsComplete'
  BY DEF CoverInv, BackfillIsComplete, InWindow, IsBackfill, InTry
<1>2. QuarantineRecorded'
  BY DEF CoverInv, QuarantineRecorded
<1> QED BY <1>1, <1>2, CoverQuiet

LEMMA CoverReplace ==
  ASSUME TypeOK, AuditInv, ReadInv, CoverInv, NEW r \in Run, PublishBackfill(r)
  PROVE  CoverInv'
<1> USE RowAssumption DEF TypeOK, PublishBackfill, Goto, Phase
<1> DEFINE b == input[r].batch
           w == ledger[r].window
<1>1. IsBackfill(r)
  BY DEF AuditInv, BranchOfMode
<1>2. /\ b = {x \in raw[r].rows : InWindow(x, w)}
      /\ \A x \in b : Fate[x] = "quarantined" => <<x, r>> \in quarantine
      /\ \A y \in source : Mark[y] <= w[2] => y \in raw[r].rows
      /\ \A t \in doomed[r] : InWindow(t[1], w)
  BY <1>1 DEF ReadInv, CoverInv, BatchIsRange, QuarantineRecorded, Selected, InRange,
              BackfillIsComplete, InTry
<1>3. ASSUME NEW x \in source, Accounted(x) PROVE Accounted(x)'
  <2>1. CASE InWindow(x, w)
    <3>1. x \in b
      BY <1>2, <2>1 DEF InWindow
    <3>2. CASE Fate[x] = "trusted"
      <4>1. <<x, r>> \in target'
        BY <3>1, <3>2 DEF Publishable
      <4> QED BY <3>2, <4>1 DEF Accounted
    <3>3. CASE Fate[x] # "trusted"
      BY <1>3, <3>3 DEF Accounted
    <3> QED BY <3>2, <3>3
  <2>2. CASE ~InWindow(x, w)
    <3>1. \A q \in Run : <<x, q>> \in target => <<x, q>> \in target'
      BY <1>2, <2>2
    <3> QED BY <1>3, <3>1 DEF Accounted
  <2> QED BY <2>1, <2>2
<1>4. ArtifactIsPrefix'
  BY DEF CoverInv, ArtifactIsPrefix
<1>5. Reached(watermark)' /\ Covered(watermark)'
  BY <1>3 DEF CoverInv, Reached, Covered
<1>6. \A q \in Run : Reached(input[q].before)' /\ Covered(input[q].before)'
  BY <1>3 DEF CoverInv, Reached, Covered
<1>7. BackfillIsComplete'
  BY DEF CoverInv, BackfillIsComplete, InWindow, IsBackfill, InTry
<1>8. QuarantineRecorded'
  BY DEF CoverInv, QuarantineRecorded
<1> QED BY <1>4, <1>5, <1>6, <1>7, <1>8 DEF CoverInv

LEMMA CoverNext ==
  ASSUME TypeOK, AuditInv, ReadInv, CoverInv, OrderedSource, HistoryOnly, [Next]_vars
  PROVE  CoverInv'
<1>1. ASSUME NEW rows \in SUBSET (Row \ source), Arrive(rows) PROVE CoverInv'
  BY <1>1, CoverArrive
<1>2. ASSUME UNCHANGED <<source, target, watermark, raw, input, quarantine,
                         ledger, pc, doomed>>
      PROVE  CoverInv'
  <2>1. BackfillIsComplete'
    BY <1>2 DEF CoverInv, BackfillIsComplete, InWindow, IsBackfill, InTry
  <2>2. QuarantineRecorded'
    BY <1>2 DEF CoverInv, QuarantineRecorded
  <2> QED BY <1>2, <2>1, <2>2, CoverQuiet
<1>3. ASSUME NEW r \in Run, NEW w \in Windows \cup {None}, StartRun(r, w)
      PROVE  CoverInv'
  BY <1>3, CoverStart
<1>4. ASSUME NEW r \in Run, ReadBaseline(r) \/ RecordDrift(r) \/ DeleteWindow(r)
      PROVE  CoverInv'
  <2> USE <1>4 DEF TypeOK, ReadBaseline, RecordDrift, DeleteWindow, Goto, Phase, InTry
  <2>1. BackfillIsComplete'
    BY DEF CoverInv, BackfillIsComplete, InWindow, IsBackfill
  <2>2. QuarantineRecorded'
    BY DEF CoverInv, QuarantineRecorded
  <2> QED BY <2>1, <2>2, CoverQuiet
<1>5. ASSUME NEW r \in Run, Progress(r) PROVE CoverInv'
  <2>1. CASE FinishRun(r)
    BY <2>1, CoverForget DEF FinishRun, CloseLedger, Ended, TypeOK
  <2> QED
    BY <1>4, <1>5, <2>1, CoverExtract, CoverReadWatermark, CoverQuality,
       CoverPublish, CoverReplace DEF Progress
<1>6. ASSUME NEW r \in Run, FailRun(r) PROVE CoverInv'
  BY <1>6, CoverForget DEF FailRun, CloseLedger, Ended, TypeOK
<1>7. ASSUME NEW r \in Run, Crash(r) PROVE CoverInv'
  BY <1>7, CoverForget DEF Crash, Ended
<1> QED
  BY <1>1, <1>2, <1>3, <1>5, <1>6, <1>7 DEF Next, ChangeSchema, vars

\* With a source ordered by watermark and backfills of history only, the runs
\* may overlap, fail and die as they like: no row the watermark passed is lost.
THEOREM NoRowLostCorrect ==
  ASSUME OrderedSource, HistoryOnly
  PROVE  Spec => []NoRowLost
<1>1. Init => CoverInv
  <2> SUFFICES ASSUME Init PROVE CoverInv
    OBVIOUS
  <2> QED
    BY DEF Init, CoverInv, ArtifactIsPrefix, Reached, Covered,
           BackfillIsComplete, IsBackfill, InTry, QuarantineRecorded, NoRaw, NoInput,
           NoLedgerRow
<1>2. TypeOK /\ AuditInv /\ ReadInv /\ CoverInv /\ [Next]_vars => CoverInv'
  BY CoverNext
<1>3. CoverInv => NoRowLost
  BY DEF CoverInv, Covered, NoRowLost
<1> QED BY <1>1, <1>2, <1>3, TypeCorrect, AuditCorrect, ReadCorrect, PTL DEF Spec

-----------------------------------------------------------------------------

OneAtATime == \A q, r \in Run : Active(q) /\ Active(r) => q = r

\* The watermark is the ceiling of the trusted table.
TargetBelowWatermark == \A t \in target : Mark[t[1]] <= watermark

\* With one run at a time, what the active run has read is still so.
ReadsAreCurrent ==
  \A r \in Run :
    /\ Selected(r) /\ ~IsBackfill(r) => input[r].before = watermark
    /\ pc[r] = "replace" =>
         doomed[r] = {t \in target : InWindow(t[1], ledger[r].window)}

WindowBelowWatermark ==
  \A r \in Run : pc[r] \in InTry /\ IsBackfill(r) => ledger[r].window[2] <= watermark

SerialInv ==
  /\ OneAtATime
  /\ NoDuplicateTrustedRows
  /\ TargetBelowWatermark
  /\ ReadsAreCurrent
  /\ WindowBelowWatermark

\* The rows a run publishes: what its batch holds above the watermark it read,
\* or inside its window.
LEMMA SerialPublish ==
  ASSUME TypeOK, AuditInv, ReadInv, SerialInv, Serial, NEW r \in Run,
         PublishIncremental(r)
  PROVE  SerialInv' /\ watermark' >= watermark
<1> USE RowAssumption DEF TypeOK, PublishIncremental, Goto, Phase
<1> DEFINE c == input[r].candidate
           b == input[r].batch
<1>1. /\ b \in SUBSET Row
      /\ \A x \in b : Mark[x] > watermark
      /\ IsCandidate(c, b)
  <2>1. b = {x \in raw[r].rows : Mark[x] > LowerBound(input[r].before)}
    BY DEF ReadInv, BatchIsRange, Selected, InRange
  <2>2. input[r].before = watermark
    BY DEF SerialInv, ReadsAreCurrent, Selected
  <2>3. b \in SUBSET Row
    BY <2>1 DEF Raw
  <2>4. \A x \in b : Mark[x] > watermark
    BY <2>1, <2>2, <2>3 DEF LowerBound
  <2>5. IsCandidate(c, b)
    BY DEF ReadInv, BatchIsRange, Selected
  <2> QED BY <2>3, <2>4, <2>5
<1>2. watermark' >= watermark /\ (b # {} => watermark' = c) /\ watermark' \in Nat
  BY <1>1 DEF IsCandidate, Input
<1>3. \A q \in Run \ {r} : ~Active(q)
  BY DEF SerialInv, OneAtATime, Active, Ended
<1>4. OneAtATime'
  BY <1>3 DEF OneAtATime, Active, Ended
<1>5. NoDuplicateTrustedRows'
  <2>1. \A x \in b : \A q \in Run : <<x, q>> \notin target
    BY <1>1 DEF SerialInv, TargetBelowWatermark
  <2> QED BY <2>1 DEF SerialInv, NoDuplicateTrustedRows, Publishable
<1>6. TargetBelowWatermark'
  <2>1. ASSUME NEW t \in target PROVE Mark[t[1]] <= watermark'
    BY <1>2, <2>1 DEF SerialInv, TargetBelowWatermark
  <2>2. ASSUME NEW x \in b PROVE Mark[x] <= watermark'
    BY <1>1, <1>2, <2>2 DEF IsCandidate
  <2> QED BY <2>1, <2>2 DEF TargetBelowWatermark, Publishable
<1>7. ReadsAreCurrent'
  BY <1>3 DEF ReadsAreCurrent, Selected, Active, Ended
<1>8. WindowBelowWatermark'
  BY <1>3 DEF WindowBelowWatermark, InTry, Active, Ended
<1> QED BY <1>2, <1>4, <1>5, <1>6, <1>7, <1>8 DEF SerialInv

LEMMA SerialReplace ==
  ASSUME TypeOK, AuditInv, ReadInv, SerialInv, NEW r \in Run, PublishBackfill(r)
  PROVE  SerialInv'
<1> USE RowAssumption DEF TypeOK, PublishBackfill, Goto, Phase
<1> DEFINE b == input[r].batch
           w == ledger[r].window
<1>1. IsBackfill(r)
  BY DEF AuditInv, BranchOfMode
<1>2. /\ b \in SUBSET Row
      /\ \A x \in b : InWindow(x, w)
      /\ doomed[r] = {t \in target : InWindow(t[1], w)}
      /\ w \in Windows /\ w[2] <= watermark
  BY <1>1 DEF ReadInv, BatchIsRange, Selected, InRange, Input, IsBackfill, LedgerRow,
              SerialInv, ReadsAreCurrent, WindowBelowWatermark, InTry
<1>3. \A q \in Run \ {r} : ~Active(q)
  BY DEF SerialInv, OneAtATime, Active, Ended
<1>4. OneAtATime'
  BY <1>3 DEF OneAtATime, Active, Ended
<1>5. NoDuplicateTrustedRows'
  <2>1. \A x \in b : \A q \in Run : <<x, q>> \notin target \ doomed[r]
    BY <1>2
  <2> QED BY <2>1 DEF SerialInv, NoDuplicateTrustedRows, Publishable
<1>6. TargetBelowWatermark'
  <2>1. \A x \in b : Mark[x] <= watermark
    BY <1>2, WindowAssumption DEF InWindow
  <2> QED BY <2>1 DEF SerialInv, TargetBelowWatermark, Publishable
<1>7. ReadsAreCurrent'
  BY <1>3 DEF ReadsAreCurrent, Selected, Active, Ended
<1>8. WindowBelowWatermark'
  BY <1>3 DEF WindowBelowWatermark, InTry, Active, Ended
<1> QED BY <1>4, <1>5, <1>6, <1>7, <1>8 DEF SerialInv

\* Everything but a publish leaves the trusted table and the watermark alone.
LEMMA SerialQuiet ==
  ASSUME TypeOK, AuditInv, SerialInv, Serial, HistoryOnly, [Next]_vars,
         \A r \in Run : ~PublishIncremental(r) /\ ~PublishBackfill(r)
  PROVE  SerialInv' /\ UNCHANGED <<target, watermark>>
<1> USE DEF TypeOK, Goto, Phase, InTry, Ended, Active, Selected, IsBackfill, InWindow,
            SerialInv, OneAtATime, NoDuplicateTrustedRows, TargetBelowWatermark,
            ReadsAreCurrent, WindowBelowWatermark
<1>1. ASSUME NEW rows \in SUBSET (Row \ source), Arrive(rows)
      PROVE  SerialInv' /\ UNCHANGED <<target, watermark>>
  BY <1>1 DEF Arrive
<1>2. ASSUME NEW s \in Schema, ChangeSchema(s)
      PROVE  SerialInv' /\ UNCHANGED <<target, watermark>>
  BY <1>2 DEF ChangeSchema
<1>3. ASSUME NEW r \in Run, NEW w \in Windows \cup {None}, StartRun(r, w)
      PROVE  SerialInv' /\ UNCHANGED <<target, watermark>>
  BY <1>3 DEF StartRun
<1>4. ASSUME NEW r \in Run, Progress(r)
      PROVE  SerialInv' /\ UNCHANGED <<target, watermark>>
  <2>1. CASE Extract(r)
    BY <2>1 DEF Extract
  <2>2. CASE ReadBaseline(r)
    BY <2>2 DEF ReadBaseline
  <2>3. CASE RecordDrift(r)
    BY <2>3 DEF RecordDrift
  <2>4. CASE ReadWatermark(r)
    <3>1. ~IsBackfill(r) => input'[r].before = watermark
      BY <2>4 DEF ReadWatermark
    <3> QED BY <2>4, <3>1 DEF ReadWatermark
  <2>5. CASE RecordQuality(r)
    BY <2>5 DEF RecordQuality
  <2>6. CASE DeleteWindow(r)
    BY <2>6 DEF DeleteWindow
  <2>7. CASE FinishRun(r)
    BY <2>7 DEF FinishRun, CloseLedger, Forget
  <2> QED
    BY <1>4, <2>1, <2>2, <2>3, <2>4, <2>5, <2>6, <2>7 DEF Progress
<1>5. ASSUME NEW r \in Run, FailRun(r)
      PROVE  SerialInv' /\ UNCHANGED <<target, watermark>>
  BY <1>5 DEF FailRun, CloseLedger, Forget
<1>6. ASSUME NEW r \in Run, Crash(r)
      PROVE  SerialInv' /\ UNCHANGED <<target, watermark>>
  BY <1>6 DEF Crash, Forget
<1>7. CASE UNCHANGED vars
  BY <1>7 DEF vars
<1> QED
  BY <1>1, <1>2, <1>3, <1>4, <1>5, <1>6, <1>7 DEF Next

LEMMA SerialNext ==
  ASSUME TypeOK, AuditInv, ReadInv, SerialInv, Serial, HistoryOnly, [Next]_vars
  PROVE  SerialInv' /\ watermark' >= watermark
<1>1. CASE \E r \in Run : PublishIncremental(r)
  BY <1>1, SerialPublish
<1>2. CASE \E r \in Run : PublishBackfill(r)
  <2>1. watermark' = watermark
    BY <1>2 DEF PublishBackfill
  <2> QED BY <1>2, <2>1, SerialReplace DEF TypeOK
<1>3. CASE \A r \in Run : ~PublishIncremental(r) /\ ~PublishBackfill(r)
  BY <1>3, SerialQuiet DEF TypeOK
<1> QED BY <1>1, <1>2, <1>3

LEMMA SerialCorrect ==
  ASSUME Serial, HistoryOnly
  PROVE  Spec => []SerialInv
<1>1. Init => SerialInv
  BY DEF Init, SerialInv, OneAtATime, Active, Ended, NoDuplicateTrustedRows, Selected,
         TargetBelowWatermark, ReadsAreCurrent, WindowBelowWatermark, InTry
<1>2. TypeOK /\ AuditInv /\ ReadInv /\ SerialInv /\ [Next]_vars => SerialInv'
  BY SerialNext
<1> QED BY <1>1, <1>2, TypeCorrect, AuditCorrect, ReadCorrect, PTL DEF Spec

\* With one run of the dataset at a time and backfills of history only, runs
\* that fail, die and are run again never publish a row twice.
THEOREM NoDuplicatesCorrect ==
  ASSUME Serial, HistoryOnly
  PROVE  Spec => []NoDuplicateTrustedRows
<1>1. SerialInv => NoDuplicateTrustedRows
  BY DEF SerialInv
<1> QED BY <1>1, SerialCorrect, PTL

\* In such an installation the unconditional watermark upsert only advances.
THEOREM WatermarkCorrect ==
  ASSUME Serial, HistoryOnly
  PROVE  Spec => WatermarkNeverMovesBack
<1>1. TypeOK /\ AuditInv /\ ReadInv /\ SerialInv /\ [Next]_vars
        => [watermark' >= watermark]_vars
  BY SerialNext
<1> QED
  BY <1>1, TypeCorrect, AuditCorrect, ReadCorrect, SerialCorrect, PTL
  DEF Spec, WatermarkNeverMovesBack

-----------------------------------------------------------------------------
(* No drift goes unnoticed between successes: with one run at a time the   *)
(* baseline of a run under way is that of the latest success.              *)

\* Only runs that have ended are in the ledger's order.
FinishedAreOver ==
  \A i \in DOMAIN finished : pc[finished[i]] \in {"succeeded", "failed"}

\* Once it has extracted, a run knows the schema it will report.
SchemaIsKnown ==
  \A r \in Run :
    /\ Active(r) /\ pc[r] # "extract" => raw[r].schema # None
    /\ pc[r] = "succeeded" => ledger[r].schema # None

BaselineIsCurrent ==
  \A r \in Run :
    Active(r) /\ pc[r] \notin {"extract", "baseline"} => IsBaseline(baseline[r])

DriftInv ==
  /\ OneAtATime
  /\ FinishedAreOver
  /\ SchemaIsKnown
  /\ BaselineIsCurrent
  /\ NoSilentDrift

\* What a run does before it ends says nothing of the successes so far.
LEMMA SuccessesStay ==
  ASSUME TypeOK, NoSilentDrift, finished' = finished, driftHistory \subseteq driftHistory',
         \A i \in DOMAIN finished : ledger'[finished[i]] = ledger[finished[i]]
  PROVE  /\ \A s : IsBaseline(s) => IsBaseline(s)'
         /\ NoSilentDrift'
<1>1. Successes' = Successes
  BY DEF Successes
<1>2. \A i \in Successes : ledger'[finished'[i]] = ledger[finished[i]]
  BY DEF Successes
<1>3. \A s : IsBaseline(s) => IsBaseline(s)'
  BY <1>1, <1>2 DEF IsBaseline
<1>4. NoSilentDrift'
  BY <1>1, <1>2 DEF NoSilentDrift
<1> QED BY <1>3, <1>4

\* A run that reports success was compared with the success before it.
LEMMA DriftFinish ==
  ASSUME TypeOK, AuditInv, DriftInv, NEW r \in Run, FinishRun(r)
  PROVE  DriftInv'
<1> DEFINE n == Len(finished) + 1
<1>1. Active(r) /\ pc[r] = "finish" /\ raw[r].schema # None
  BY DEF FinishRun, Active, Ended, DriftInv, SchemaIsKnown
<1>2. /\ finished' = Append(finished, r)
      /\ ledger'[r].status = "SUCCEEDED" /\ ledger'[r].schema = raw[r].schema
      /\ pc' = [pc EXCEPT ![r] = "succeeded"]
      /\ driftHistory' = driftHistory
      /\ \A q \in Run \ {r} : ledger'[q] = ledger[q]
  BY DEF FinishRun, CloseLedger, Goto, TypeOK
<1>3. \A q \in Run : ~Active(q)'
  BY <1>1, <1>2 DEF DriftInv, OneAtATime, Active, Ended, TypeOK
<1>4. /\ DOMAIN finished' = DOMAIN finished \cup {n} /\ n \notin DOMAIN finished
      /\ finished'[n] = r /\ n \in Nat
      /\ \A i \in DOMAIN finished : i \in Nat /\ i < n /\ finished'[i] = finished[i]
  BY <1>2 DEF TypeOK
<1>5. \A i \in DOMAIN finished : finished[i] \in Run \ {r}
  BY <1>1 DEF DriftInv, FinishedAreOver, TypeOK
<1>6. \A i \in DOMAIN finished : ledger'[finished'[i]] = ledger[finished[i]]
  BY <1>2, <1>4, <1>5
<1>7. Successes' = Successes \cup {n} /\ Successes \subseteq DOMAIN finished
  BY <1>2, <1>4, <1>6 DEF Successes
<1>8. OneAtATime' /\ BaselineIsCurrent'
  BY <1>3 DEF OneAtATime, BaselineIsCurrent
<1>9. FinishedAreOver'
  BY <1>2, <1>4, <1>5 DEF DriftInv, FinishedAreOver, TypeOK
<1>10. SchemaIsKnown'
  BY <1>1, <1>2, <1>3 DEF DriftInv, SchemaIsKnown, TypeOK
<1>11. NoSilentDrift'
  <2> SUFFICES ASSUME NEW i \in Successes', NEW j \in Successes', i < j,
                      ledger'[finished'[i]].schema # ledger'[finished'[j]].schema,
                      \A k \in Successes' : k <= i \/ j <= k
               PROVE  /\ finished'[j] \in driftHistory'
                      /\ DriftPolicy[<<ledger'[finished'[i]].schema,
                                       ledger'[finished'[j]].schema>>] # "fail"
    BY DEF NoSilentDrift
  <2>1. i \in Successes
    BY <1>4, <1>7
  <2>2. CASE j = n
    <3>1. \A k \in Successes : k <= i
      BY <1>4, <1>7, <2>2
    <3>2. IsBaseline(baseline[r])
      BY <1>1 DEF DriftInv, BaselineIsCurrent
    <3>3. PICK k \in Successes : /\ \A l \in Successes : l <= k
                                 /\ baseline[r] = ledger[finished[k]].schema
      BY <2>1, <3>2 DEF IsBaseline
    <3>4. k = i
      BY <1>4, <1>7, <2>1, <3>1, <3>3
    <3>5. baseline[r] # None
      <4>1. ledger[finished[i]].status = "SUCCEEDED" /\ finished[i] \in Run
        BY <1>5, <1>7, <2>1 DEF Successes
      <4>2. pc[finished[i]] = "succeeded"
        BY <1>7, <2>1, <4>1 DEF DriftInv, FinishedAreOver, AuditInv, LedgerFollowsProcess
      <4> QED BY <3>3, <3>4, <4>1, <4>2 DEF DriftInv, SchemaIsKnown
    <3>6. /\ ledger'[finished'[i]].schema = baseline[r]
          /\ ledger'[finished'[j]].schema = raw[r].schema /\ finished'[j] = r
      BY <1>2, <1>4, <1>6, <1>7, <2>1, <2>2, <3>3, <3>4
    <3>7. Drifted(r)
      BY <3>5, <3>6 DEF Drifted
    <3>8. r \in driftHistory /\ DriftPolicy[<<baseline[r], raw[r].schema>>] # "fail"
      BY <1>1, <3>7 DEF AuditInv, DriftSettled
    <3> QED BY <1>2, <3>6, <3>8
  <2>3. CASE j # n
    <3>1. j \in Successes /\ \A k \in Successes : k <= i \/ j <= k
      BY <1>7, <2>3
    <3>2. /\ ledger'[finished'[i]] = ledger[finished[i]] /\ finished'[j] = finished[j]
          /\ ledger'[finished'[j]] = ledger[finished[j]]
      BY <1>4, <1>6, <1>7, <2>1, <3>1
    <3> QED BY <1>2, <2>1, <3>1, <3>2 DEF DriftInv, NoSilentDrift
  <2> QED BY <2>2, <2>3
<1> QED
  BY <1>8, <1>9, <1>10, <1>11 DEF DriftInv

\* A run that fails is no success, and nobody is at work after it.
LEMMA DriftFail ==
  ASSUME TypeOK, AuditInv, DriftInv, NEW r \in Run, FailRun(r)
  PROVE  DriftInv'
<1> DEFINE n == Len(finished) + 1
<1>1. Active(r) /\ pc[r] \in InTry
  BY DEF FailRun, Active, Ended, InTry
<1>2. /\ finished' = Append(finished, r)
      /\ ledger'[r].status = "FAILED"
      /\ pc' = [pc EXCEPT ![r] = "failed"]
      /\ driftHistory' = driftHistory
      /\ \A q \in Run \ {r} : ledger'[q] = ledger[q]
  BY DEF FailRun, CloseLedger, Goto, TypeOK
<1>3. \A q \in Run : ~Active(q)'
  BY <1>1, <1>2 DEF DriftInv, OneAtATime, Active, Ended, TypeOK
<1>4. /\ DOMAIN finished' = DOMAIN finished \cup {n} /\ n \notin DOMAIN finished
      /\ finished'[n] = r
      /\ \A i \in DOMAIN finished : finished'[i] = finished[i]
  BY <1>2 DEF TypeOK
<1>5. \A i \in DOMAIN finished : finished[i] \in Run \ {r}
  BY <1>1 DEF DriftInv, FinishedAreOver, TypeOK, InTry
<1>6. \A i \in DOMAIN finished : ledger'[finished'[i]] = ledger[finished[i]]
  BY <1>2, <1>4, <1>5
<1>7. Successes' = Successes
  BY <1>2, <1>4, <1>6 DEF Successes
<1>8. OneAtATime' /\ BaselineIsCurrent'
  BY <1>3 DEF OneAtATime, BaselineIsCurrent
<1>9. FinishedAreOver'
  BY <1>2, <1>4, <1>5 DEF DriftInv, FinishedAreOver, TypeOK
<1>10. SchemaIsKnown'
  BY <1>2, <1>3 DEF DriftInv, SchemaIsKnown, TypeOK
<1>11. NoSilentDrift'
  <2>1. \A i \in Successes : /\ ledger'[finished'[i]] = ledger[finished[i]]
                             /\ finished'[i] = finished[i]
    BY <1>4, <1>6 DEF Successes
  <2> SUFFICES ASSUME NEW i \in Successes', NEW j \in Successes', i < j,
                      ledger'[finished'[i]].schema # ledger'[finished'[j]].schema,
                      \A k \in Successes' : k <= i \/ j <= k
               PROVE  /\ finished'[j] \in driftHistory'
                      /\ DriftPolicy[<<ledger'[finished'[i]].schema,
                                       ledger'[finished'[j]].schema>>] # "fail"
    BY DEF NoSilentDrift
  <2>2. /\ ledger'[finished'[i]] = ledger[finished[i]] /\ finished'[j] = finished[j]
        /\ ledger'[finished'[j]] = ledger[finished[j]]
        /\ i \in Successes /\ j \in Successes /\ \A k \in Successes : k <= i \/ j <= k
    BY <1>7, <2>1
  <2> QED BY <1>2, <2>2 DEF DriftInv, NoSilentDrift
<1> QED
  BY <1>8, <1>9, <1>10, <1>11 DEF DriftInv

LEMMA DriftNext ==
  ASSUME TypeOK, AuditInv, DriftInv, Serial, [Next]_vars
  PROVE  DriftInv'
<1>1. ASSUME NEW rows \in SUBSET (Row \ source), Arrive(rows) PROVE DriftInv'
  <2>1. (\A s : IsBaseline(s) => IsBaseline(s)') /\ NoSilentDrift'
    BY <1>1, SuccessesStay DEF Arrive, ledgerVars, auditVars, DriftInv
  <2> QED
    BY <1>1, <2>1 DEF Arrive, ledgerVars, auditVars, localVars, DriftInv, OneAtATime,
                      FinishedAreOver, SchemaIsKnown, BaselineIsCurrent, Active
<1>2. ASSUME NEW s \in Schema, ChangeSchema(s) PROVE DriftInv'
  <2>1. (\A t : IsBaseline(t) => IsBaseline(t)') /\ NoSilentDrift'
    BY <1>2, SuccessesStay DEF ChangeSchema, ledgerVars, auditVars, DriftInv
  <2> QED
    BY <1>2, <2>1 DEF ChangeSchema, ledgerVars, auditVars, localVars, DriftInv, OneAtATime,
                      FinishedAreOver, SchemaIsKnown, BaselineIsCurrent, Active
<1>3. ASSUME NEW r \in Run, NEW w \in Windows \cup {None}, StartRun(r, w)
      PROVE  DriftInv'
  <2>1. /\ pc[r] = "idle" /\ (\A q \in Run : ~Active(q))
        /\ pc' = [pc EXCEPT ![r] = "extract"]
        /\ \A q \in Run \ {r} : ledger'[q] = ledger[q]
        /\ raw' = raw /\ baseline' = baseline
    BY <1>3 DEF StartRun, Goto, TypeOK, localVars
  <2>2. finished' = finished /\ driftHistory' = driftHistory
    BY <1>3 DEF StartRun, auditVars
  <2>3. \A i \in DOMAIN finished : finished[i] \in Run \ {r}
    BY <2>1 DEF DriftInv, FinishedAreOver, TypeOK
  <2>4. NoSilentDrift'
    BY <2>1, <2>2, <2>3, SuccessesStay DEF DriftInv
  <2>5. OneAtATime' /\ BaselineIsCurrent' /\ SchemaIsKnown' /\ FinishedAreOver'
    BY <2>1, <2>2, <2>3 DEF DriftInv, OneAtATime, BaselineIsCurrent, SchemaIsKnown,
                            FinishedAreOver, Active, Ended, TypeOK
  <2> QED BY <2>4, <2>5 DEF DriftInv
<1>4. ASSUME NEW r \in Run, Progress(r) PROVE DriftInv'
  <2>1. CASE FinishRun(r)
    BY <2>1, DriftFinish
  <2>2. CASE ~FinishRun(r)
    <3>1. UNCHANGED ledgerVars /\ driftHistory \subseteq driftHistory'
      BY <1>4, <2>2 DEF Progress, Extract, ReadBaseline, RecordDrift, ReadWatermark,
         RecordQuality, PublishIncremental, DeleteWindow, PublishBackfill, auditVars
    <3>2. (\A s : IsBaseline(s) => IsBaseline(s)') /\ NoSilentDrift'
      BY <3>1, SuccessesStay DEF ledgerVars, DriftInv
    <3>3. /\ Active(r)
          /\ \A q \in Run \ {r} : pc'[q] = pc[q] /\ raw'[q] = raw[q] /\ ~Active(q)
          /\ pc'[r] \in Phase \ {"idle", "succeeded", "failed", "dead", "extract"}
      BY <1>4, <2>2 DEF Progress, Extract, ReadBaseline, RecordDrift, ReadWatermark,
         RecordQuality, PublishIncremental, DeleteWindow, PublishBackfill, Goto, localVars,
         TypeOK, DriftInv, OneAtATime, Active, Ended, Phase, InTry
    <3>4. raw'[r].schema # None
      <4>1. CASE Extract(r)
        BY <4>1, NoneAssumption DEF Extract, TypeOK
      <4>2. CASE ~Extract(r)
        BY <1>4, <2>2, <4>2 DEF Progress, ReadBaseline, RecordDrift, ReadWatermark,
           RecordQuality, PublishIncremental, DeleteWindow, PublishBackfill, localVars,
           DriftInv, SchemaIsKnown, Active, Ended
      <4> QED BY <4>1, <4>2
    <3>5. pc'[r] # "baseline" => IsBaseline(baseline'[r])
      <4>1. CASE ReadBaseline(r)
        BY <4>1 DEF ReadBaseline, TypeOK
      <4>2. CASE Extract(r)
        BY <4>2 DEF Extract, Goto, TypeOK
      <4>3. CASE ~ReadBaseline(r) /\ ~Extract(r)
        BY <1>4, <2>2, <4>3 DEF Progress, RecordDrift, ReadWatermark,
           RecordQuality, PublishIncremental, DeleteWindow, PublishBackfill, localVars,
           DriftInv, BaselineIsCurrent, Active, Ended
      <4> QED BY <4>1, <4>2, <4>3
    <3>6. \A q \in Run \ {r} : ~Active(q)'
      BY <3>3 DEF Active
    <3>7. OneAtATime' /\ BaselineIsCurrent'
      BY <3>2, <3>5, <3>6 DEF OneAtATime, BaselineIsCurrent
    <3>8. SchemaIsKnown'
      BY <3>1, <3>3, <3>4, <3>6 DEF DriftInv, SchemaIsKnown, ledgerVars
    <3>9. FinishedAreOver'
      BY <3>1, <3>3 DEF DriftInv, FinishedAreOver, ledgerVars, Active, Ended, TypeOK
    <3> QED BY <3>2, <3>7, <3>8, <3>9 DEF DriftInv
  <2> QED BY <2>1, <2>2
<1>5. ASSUME NEW r \in Run, FailRun(r) PROVE DriftInv'
  BY <1>5, DriftFail
<1>6. ASSUME NEW r \in Run, Crash(r) PROVE DriftInv'
  <2>1. /\ Active(r) /\ pc' = [pc EXCEPT ![r] = "dead"]
        /\ UNCHANGED ledgerVars /\ driftHistory' = driftHistory
    BY <1>6 DEF Crash, Goto, auditVars
  <2>2. NoSilentDrift'
    BY <2>1, SuccessesStay DEF ledgerVars, DriftInv
  <2>3. \A q \in Run : ~Active(q)'
    BY <2>1 DEF DriftInv, OneAtATime, Active, Ended, TypeOK
  <2>4. OneAtATime' /\ BaselineIsCurrent' /\ SchemaIsKnown'
    BY <2>1, <2>3 DEF DriftInv, OneAtATime, BaselineIsCurrent, SchemaIsKnown, ledgerVars, TypeOK
  <2>5. FinishedAreOver'
    BY <2>1 DEF DriftInv, FinishedAreOver, ledgerVars, Active, Ended, TypeOK
  <2> QED BY <2>2, <2>4, <2>5 DEF DriftInv
<1>7. CASE UNCHANGED vars
  <2>1. (\A s : IsBaseline(s) => IsBaseline(s)') /\ NoSilentDrift'
    BY <1>7, SuccessesStay DEF vars, ledgerVars, auditVars, DriftInv
  <2> QED
    BY <1>7, <2>1 DEF vars, ledgerVars, localVars, DriftInv, OneAtATime, FinishedAreOver,
                      SchemaIsKnown, BaselineIsCurrent, Active
<1> QED
  BY <1>1, <1>2, <1>3, <1>4, <1>5, <1>6, <1>7 DEF Next

\* Runs one after another: whatever failed or died between two successes, a
\* change of schema from one to the next is on record and was let pass by the
\* policies, because a run under way compares with the latest success
\* (pipeline.py:308, 339).
THEOREM NoSilentDriftCorrect ==
  ASSUME Serial
  PROVE  Spec => []NoSilentDrift
<1>1. Init => DriftInv
  BY DEF Init, DriftInv, OneAtATime, FinishedAreOver, SchemaIsKnown, BaselineIsCurrent,
         NoSilentDrift, Successes, Active, Ended
<1>2. TypeOK /\ AuditInv /\ DriftInv /\ [Next]_vars => DriftInv'
  BY DriftNext
<1>3. DriftInv => NoSilentDrift
  BY DEF DriftInv
<1> QED BY <1>1, <1>2, <1>3, TypeCorrect, AuditCorrect, PTL DEF Spec
=============================================================================
