------------------------- MODULE PipelineFeedProofs -------------------------
(***************************************************************************)
(* PipelineRun implements WatermarkFeed: under the mapping of the instance *)
(* Feed, a publish transaction is a step of the feed and every other step  *)
(* of a run, a failure or a crash is a stutter.                            *)
(***************************************************************************)
EXTENDS PipelineRunProofs

USE DEF sourceVars, ledgerVars, auditVars, trustVars, localVars

\* Without duplicates the mapped trusted set is what the table holds.
LEMMA OnceTrustedIsTarget ==
  ASSUME SerialInv, SerialInv'
  PROVE  /\ OnceTrusted = {x \in Row : \E r \in Run : <<x, r>> \in target}
         /\ OnceTrusted' = {x \in Row : \E r \in Run : <<x, r>> \in target'}
  BY DEF SerialInv, OnceTrusted, NoDuplicateTrustedRows

LEMMA PublishDelivers ==
  ASSUME TypeOK, ReadInv, SerialInv, SerialInv', NEW r \in Run, PublishIncremental(r)
  PROVE  [Feed!FeedNext]_(Feed!feedVars)
<1> USE RowAssumption DEF TypeOK, PublishIncremental
<1> DEFINE b == input[r].batch
           c == input[r].candidate
<1>1. /\ b = {x \in raw[r].rows : Mark[x] > LowerBound(watermark)}
      /\ IsCandidate(c, b)
  BY DEF ReadInv, BatchIsRange, Selected, InRange, SerialInv, ReadsAreCurrent
<1>2. b \in SUBSET source /\ b \in SUBSET Row
  BY <1>1 DEF ReadInv
<1>3. OnceTrusted = {x \in Row : \E q \in Run : <<x, q>> \in target}
  BY OnceTrustedIsTarget
<1>4. OnceTrusted' = {x \in Row : \E q \in Run : <<x, q>> \in target'}
  BY OnceTrustedIsTarget
<1>5. OnceTrusted' = OnceTrusted \cup Publishable(b)
  <2> DEFINE new == {<<x, r>> : x \in Publishable(b)}
  <2>1. Publishable(b) \subseteq Row
    BY <1>2 DEF Publishable
  <2>2. target' = target \cup new
    OBVIOUS
  <2>3. \A x \in Row : (\E q \in Run : <<x, q>> \in new) <=> x \in Publishable(b)
    OBVIOUS
  <2> HIDE DEF new
  <2>4. \A x \in Row : (\E q \in Run : <<x, q>> \in target')
                     <=> (\E q \in Run : <<x, q>> \in target) \/ x \in Publishable(b)
    BY <2>2, <2>3
  <2> QED BY <1>3, <1>4, <2>1, <2>4
<1>6. CASE b = {}
  <2>1. c = 0 /\ Publishable(b) = {}
    BY <1>1, <1>6 DEF IsCandidate, Publishable
  <2> QED BY <1>5, <2>1 DEF Feed!feedVars
<1>7. CASE b # {}
  <2>1. c # 0 /\ \E x \in b : Mark[x] = c /\ \A y \in b : Mark[y] <= Mark[x]
    BY <1>1, <1>2, <1>7 DEF IsCandidate
  <2>2. \A x \in b : Mark[x] > Feed!Floor
    BY <1>1 DEF Feed!Floor, LowerBound
  <2>3. Feed!Deliver(b)
    BY <1>5, <1>7, <2>1, <2>2 DEF Feed!Deliver, Feed!Clean, Publishable
  <2> QED BY <1>2, <2>3 DEF Feed!FeedNext
<1> QED BY <1>6, <1>7

LEMMA ReplaceRefills ==
  ASSUME TypeOK, AuditInv, ReadInv, SerialInv, SerialInv', NEW r \in Run,
         PublishBackfill(r)
  PROVE  [Feed!FeedNext]_(Feed!feedVars)
<1> USE RowAssumption DEF TypeOK, PublishBackfill
<1> DEFINE b == input[r].batch
           w == ledger[r].window
           new == {<<x, r>> : x \in Publishable(b)}
<1>1. IsBackfill(r)
  BY DEF AuditInv, BranchOfMode
<1>2. /\ b = {x \in raw[r].rows : InWindow(x, w)}
      /\ doomed[r] = {t \in target : InWindow(t[1], w)}
      /\ w \in Windows
  BY <1>1 DEF ReadInv, BatchIsRange, Selected, InRange, IsBackfill, LedgerRow,
              SerialInv, ReadsAreCurrent
<1>3. b \in SUBSET Feed!Inside(source, w) /\ Publishable(b) \subseteq Row
  BY <1>2 DEF ReadInv, Feed!Inside, InWindow, Publishable
<1>4. target' = {t \in target : ~InWindow(t[1], w)} \cup new
  BY <1>2
<1>5. \A x \in Row : (\E q \in Run : <<x, q>> \in new) <=> x \in Publishable(b)
  OBVIOUS
<1> HIDE DEF new
<1>6. \A x \in Row : (\E q \in Run : <<x, q>> \in target')
                   <=> \/ (\E q \in Run : <<x, q>> \in target) /\ ~InWindow(x, w)
                       \/ x \in Publishable(b)
  BY <1>4, <1>5
<1>7. OnceTrusted' = (OnceTrusted \ Feed!Inside(OnceTrusted, w)) \cup Feed!Clean(b)
  BY <1>3, <1>6, OnceTrustedIsTarget DEF Feed!Inside, Feed!Clean, InWindow, Publishable
<1>8. Feed!Refill(w, b)
  BY <1>7 DEF Feed!Refill
<1> QED BY <1>2, <1>3, <1>8 DEF Feed!FeedNext

LEMMA StepIsFeedStep ==
  ASSUME TypeOK, AuditInv, ReadInv, SerialInv, SerialInv', Serial, HistoryOnly,
         [Next]_vars
  PROVE  [Feed!FeedNext]_(Feed!feedVars)
<1>1. CASE \E r \in Run : PublishIncremental(r)
  BY <1>1, PublishDelivers
<1>2. CASE \E r \in Run : PublishBackfill(r)
  BY <1>2, ReplaceRefills
<1>3. CASE \A r \in Run : ~PublishIncremental(r) /\ ~PublishBackfill(r)
  <2>1. target' = target /\ watermark' = watermark
    BY <1>3, SerialQuiet
  <2>2. OnceTrusted' = OnceTrusted
    BY <2>1 DEF OnceTrusted
  <2>3. ASSUME NEW rows \in SUBSET (Row \ source), Arrive(rows)
        PROVE  Feed!FeedNext
    BY <2>1, <2>2, <2>3 DEF Arrive, Feed!FeedNext, Feed!NewRows
  <2>4. ASSUME source' = source
        PROVE  UNCHANGED Feed!feedVars
    BY <2>1, <2>2, <2>4 DEF Feed!feedVars
  <2>5. source' = source \/ \E rows \in SUBSET (Row \ source) : Arrive(rows)
    BY <1>3
    DEF Next, vars, ChangeSchema, StartRun, Progress, Extract, ReadBaseline, RecordDrift,
        ReadWatermark, RecordQuality, DeleteWindow, FinishRun, FailRun, Crash
  <2> QED BY <2>3, <2>4, <2>5
<1> QED BY <1>1, <1>2, <1>3

\* The runs of a dataset, with their failures, crashes and reruns, implement the
\* exactly-once feed, if they are run one at a time and backfill history only.
THEOREM FeedImplemented ==
  ASSUME Serial, HistoryOnly
  PROVE  Spec => FeedIsImplemented
<1>1. Init => Feed!FeedInit
  BY DEF Init, Feed!FeedInit, OnceTrusted
<1>2. /\ TypeOK /\ AuditInv /\ ReadInv /\ SerialInv /\ SerialInv'
      /\ [Next]_vars
      => [Feed!FeedNext]_(Feed!feedVars)
  BY StepIsFeedStep
<1> QED
  BY <1>1, <1>2, TypeCorrect, AuditCorrect, ReadCorrect, SerialCorrect, PTL
  DEF Spec, FeedIsImplemented, Feed!FeedSpec
=============================================================================
