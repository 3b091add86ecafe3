------------------------- MODULE TrustedTableProofs -------------------------
(***************************************************************************)
(* For every delivery, configuration and number of runs: the types, the    *)
(* keys of an upsert, what a preview shows and what the health of the      *)
(* dataset says, on inductive invariants about the lock of the table and   *)
(* about the newest run when it is alone at work.                          *)
(***************************************************************************)
EXTENDS TrustedTable, RulesProofs, FiniteSetTheorems, NaturalsInduction, WellFoundedInduction,
        TLAPS

USE BoundAssumption DEF Run

-----------------------------------------------------------------------------
(* Lemmas about the data *)

LEMMA BatchSize ==
  ASSUME NEW delivery \in Delivery \union {NoDelivery}
  PROVE  IsFiniteSet(DOMAIN delivery.rows)
<1>1. \E n \in Nat : DOMAIN delivery.rows = 1..n
  <2>1. CASE delivery \in Delivery
    <3>1. delivery.rows \in Seq(Range(delivery.rows))
      BY <2>1, DeliveryAssumption
    <3> QED
      BY <3>1
  <2>2. CASE delivery = NoDelivery
    <3>1. DOMAIN delivery.rows = 1..0
      BY <2>2 DEF NoDelivery
    <3> QED
      BY <3>1
  <2> QED
    BY <2>1, <2>2
<1> QED
  BY <1>1, FS_Interval

LEMMA QuarantinedSize ==
  ASSUME NEW contracts, NEW delivery \in Delivery
  PROVE  RowsQuarantined(contracts, delivery.rows) \in Nat
<1>1. InvalidIndexes(contracts, delivery.rows) \subseteq DOMAIN delivery.rows
  BY DEF InvalidIndexes, Failures
<1>2. IsFiniteSet(DOMAIN delivery.rows)
  BY BatchSize
<1>3. Cardinality(InvalidIndexes(contracts, delivery.rows)) \in Nat
  BY <1>1, <1>2, FS_Subset, FS_CardinalityType
<1> QED
  BY <1>3 DEF RowsQuarantined

LEMMA DriftStatusType ==
  ASSUME NEW events
  PROVE  DriftStatus(events) \in DriftStatuses
BY DEF DriftStatus, DriftStatuses

(* Among runs that have a place in the order of finishing, one is last.    *)
LEMMA LastExists ==
  ASSUME NEW runs \in SUBSET Run, runs # {}, ledger \in [Run -> LedgerRow]
  PROVE  /\ LastOf(runs) \in runs
         /\ \A t \in runs : ledger[t].finished <= ledger[LastOf(runs)].finished
<1> DEFINE S == {MaxRuns - ledger[t].finished : t \in runs}
<1>1. \A t \in runs : ledger[t].finished \in 0..MaxRuns
  BY DEF LedgerRow
<1>2. S \subseteq Nat /\ S # {}
  <2>1. \A t \in runs : MaxRuns - ledger[t].finished \in Nat
    BY <1>1
  <2> QED
    BY <2>1
<1>3. PICK least \in S : \A k \in S : ~ (<<k, least>> \in OpToRel(<, Nat))
  BY <1>2, NatLessThanWellFounded, WFMin, Zenon
<1>4. PICK s \in runs : least = MaxRuns - ledger[s].finished
  OBVIOUS
<1>5. \A t \in runs : ledger[t].finished <= ledger[s].finished
  <2> TAKE t \in runs
  <2>1. MaxRuns - ledger[t].finished \in S /\ least \in Nat
    BY <1>2
  <2>2. ~ (MaxRuns - ledger[t].finished < least)
    BY <1>2, <1>3, <2>1 DEF OpToRel
  <2> QED
    BY <1>1, <1>4, <2>2
<1> QED
  BY <1>5 DEF LastOf

LEMMA LastSuccessType ==
  ASSUME ledger \in [Run -> LedgerRow]
  PROVE  /\ LastSuccess \in Run \union {0}
         /\ LastSuccess # 0 => LastSuccess \in Succeeded
<1>1. Succeeded \subseteq Run
  BY DEF Succeeded
<1>2. CASE Succeeded = {}
  BY <1>2 DEF LastSuccess, LastOf
<1>3. CASE Succeeded # {}
  BY <1>1, <1>3, LastExists DEF LastSuccess
<1> QED
  BY <1>2, <1>3

-----------------------------------------------------------------------------
(* Types *)

(* What the types rest on: a run that is not done has no place in the      *)
(* order of finishing, and updates no more rows than it has, once it has   *)
(* counted them.                                                           *)
CountsOK ==
  \A r \in Run :
    /\ ledger[r].finished # 0 => pc[r] = "done"
    /\ batch[r].valid \subseteq DOMAIN batch[r].delivery.rows
    /\ batch[r].updated <= Cardinality(batch[r].valid)
    /\ batch[r].updated # 0 => pc[r] \in {"merge", "commit", "finish"}

TInv == TypeOK /\ CountsOK

LEMMA TInit == Init => TInv
<1> SUFFICES ASSUME Init
             PROVE  TInv
  OBVIOUS
<1>1. NoLedgerRow \in LedgerRow
  BY DEF NoLedgerRow, LedgerRow, DriftStatuses
<1>2. NoBatch \in Batch
  BY DEF NoBatch, Batch, DriftStatuses
<1>3. NoPreview \in Preview
  BY DEF NoPreview, Preview
<1>4. TypeOK
  <2>1. commits \in Seq(Run)
    BY DEF Init
  <2>2. ledger \in [Run -> LedgerRow] /\ batch \in [Run -> Batch] /\ pc \in [Run -> Point]
    BY <1>1, <1>2 DEF Init, Point
  <2>3. table \subseteq StoredRow /\ lock \in Run \union {0} /\ exists \in BOOLEAN
    BY DEF Init
  <2>4. config \in Config /\ preview \in Preview /\ faults \in 0..MaxFaults
    BY <1>3 DEF Init
  <2> QED
    BY <2>1, <2>2, <2>3, <2>4 DEF TypeOK
<1>5. Cardinality({}) = 0
  BY FS_EmptySet
<1>6. CountsOK
  <2> SUFFICES ASSUME NEW r \in Run
               PROVE  /\ ledger[r].finished = 0
                      /\ batch[r].valid = {}
                      /\ batch[r].updated = 0
    BY <1>5 DEF CountsOK
  <2> QED
    BY DEF Init, NoLedgerRow, NoBatch
<1> QED
  BY <1>4, <1>6 DEF TInv

LEMMA ValidSize ==
  ASSUME TInv, NEW r \in Run
  PROVE  IsFiniteSet(batch[r].valid) /\ Cardinality(batch[r].valid) \in Nat
<1>1. batch[r].delivery \in Delivery \union {NoDelivery}
  BY DEF TInv, TypeOK, Batch
<1>2. IsFiniteSet(DOMAIN batch[r].delivery.rows)
  BY <1>1, BatchSize
<1> QED
  BY <1>2, FS_Subset, FS_CardinalityType DEF TInv, CountsOK

LEMMA StoredType ==
  ASSUME TInv, NEW r \in Run, NEW i \in batch[r].valid
  PROVE  /\ Stored(r, i) \in StoredRow
         /\ batch[r].delivery.rows[i] \in DeliveredRow
<1>1. /\ batch[r].delivery \in Delivery \union {NoDelivery}
      /\ i \in DOMAIN batch[r].delivery.rows
  BY DEF TInv, TypeOK, CountsOK, Batch
<1>2. batch[r].delivery \in Delivery
  <2>1. DOMAIN NoDelivery.rows = {}
    BY DEF NoDelivery
  <2> QED
    BY <1>1, <2>1
<1>3. i \in Positions
  BY <1>1, <1>2 DEF Positions
<1>4. batch[r].delivery.rows[i] \in Range(batch[r].delivery.rows)
  BY <1>1 DEF Range
<1>5. batch[r].delivery.rows[i] \in DeliveredRow
  BY <1>2, <1>4 DEF DeliveredRow
<1> QED
  BY <1>3, <1>5 DEF Stored, StoredRow

(* finish_run finds a free place in the order of finishing.                *)
LEMMA CloseType ==
  ASSUME TInv, NEW r \in Run, pc[r] # "done",
         NEW status \in {"SUCCEEDED", "FAILED"}, NEW inserted \in Nat,
         Close(r, status, inserted)
  PROVE  TInv'
<1> DEFINE S == {s \in Run : ledger[s].finished # 0}
<1>1. Cardinality(S) \in 0..(MaxRuns - 1)
  <2>1. IsFiniteSet(Run) /\ Cardinality(Run) = MaxRuns
    BY FS_Interval
  <2>2. IsFiniteSet(Run \ {r}) /\ Cardinality(Run \ {r}) = MaxRuns - 1
    <3>1. Cardinality(Run \ {r}) = IF r \in Run THEN Cardinality(Run) - 1 ELSE Cardinality(Run)
      BY <2>1, FS_RemoveElement, Zenon
    <3>2. IsFiniteSet(Run \ {r})
      BY <2>1, FS_RemoveElement, Zenon
    <3> QED
      BY <2>1, <3>1, <3>2
  <2>3. S \subseteq Run \ {r}
    BY DEF TInv, CountsOK
  <2>4. IsFiniteSet(S) /\ Cardinality(S) <= MaxRuns - 1
    BY <2>2, <2>3, FS_Subset
  <2> QED
    BY <2>4, FS_CardinalityType
<1>2. ledger'[r] \in LedgerRow
  <2>1. 1 + Cardinality(S) \in 0..MaxRuns
    BY <1>1
  <2>2. batch[r] \in Batch /\ ledger[r] \in LedgerRow
    BY DEF TInv, TypeOK
  <2>3. ledger'[r] = [ledger[r] EXCEPT !.status = status,
                 !.finished = 1 + Cardinality(S),
                 !.quarantined = batch[r].quarantined,
                 !.inserted = inserted,
                 !.drift = batch[r].drift,
                 !.raw = batch[r].delivery]
    BY DEF Close, TInv, TypeOK
  <2> HIDE DEF S
  <2> QED
    BY <2>1, <2>2, <2>3 DEF LedgerRow, Batch
<1>3. NoBatch \in Batch
  BY DEF NoBatch, Batch, DriftStatuses
<1>4. TypeOK'
  BY <1>2, <1>3 DEF Close, TInv, TypeOK, Goto, Point, tableVars
<1>5. Cardinality({}) = 0
  BY FS_EmptySet
<1>6. CountsOK'
  BY <1>5 DEF Close, TInv, TypeOK, CountsOK, Goto, NoBatch, Point
<1> QED
  BY <1>4, <1>6 DEF TInv

(* The transaction of a run changes nothing of the ledger.                 *)
LEMMA FailType ==
  ASSUME TInv, NEW r \in Run, FailRun(r) \/ Die(r)
  PROVE  TInv'
<1>1. lock' \in Run \union {0} /\ faults' \in 0..MaxFaults
  <2>1. RollBack(r) /\ Fault
    BY DEF FailRun, Die
  <2>2. lock' \in Run \union {0}
    BY <2>1 DEF RollBack, TInv, TypeOK
  <2>3. faults' \in 0..MaxFaults
    BY <2>1 DEF Fault, TInv, TypeOK
  <2> QED
    BY <2>2, <2>3
<1>2. NoBatch \in Batch
  BY DEF NoBatch, Batch, DriftStatuses
<1>3. pc' \in [Run -> Point]
  BY DEF FailRun, Die, Goto, Point, TInv, TypeOK
<1>4. batch' \in [Run -> Batch]
  <2>1. CASE Die(r)
    BY <1>2, <2>1 DEF Die, TInv, TypeOK
  <2>2. CASE FailRun(r)
    <3>1. batch' = [batch EXCEPT ![r] = [batch[r] EXCEPT !.inserts = {}, !.updated = 0]]
      BY <2>2 DEF FailRun, TInv, TypeOK
    <3>2. [batch[r] EXCEPT !.inserts = {}, !.updated = 0] \in Batch
      BY DEF TInv, TypeOK, Batch
    <3> QED
      BY <3>1, <3>2 DEF TInv, TypeOK
  <2> QED
    BY <2>1, <2>2
<1>5. TypeOK'
  BY <1>1, <1>3, <1>4 DEF FailRun, Die, RollBack, TInv, TypeOK
<1>6. CountsOK'
  <2> SUFFICES ASSUME NEW s \in Run
               PROVE  /\ ledger'[s].finished # 0 => pc'[s] = "done"
                      /\ batch'[s].valid \subseteq DOMAIN batch'[s].delivery.rows
                      /\ batch'[s].updated <= Cardinality(batch'[s].valid)
                      /\ batch'[s].updated # 0 => pc'[s] \in {"merge", "commit", "finish"}
    BY DEF CountsOK
  <2>1. pc[r] # "done"
    BY DEF FailRun, Die, AtWork
  <2>2. ledger'[s].finished # 0 => pc'[s] = "done"
    BY <2>1 DEF FailRun, Die, Goto, TInv, TypeOK, CountsOK
  <2>3. CASE s # r
    BY <2>2, <2>3 DEF FailRun, Die, Goto, TInv, TypeOK, CountsOK
  <2>4. CASE s = r /\ FailRun(r)
    <3>1. /\ batch'[r].valid = batch[r].valid
          /\ batch'[r].delivery = batch[r].delivery
          /\ batch'[r].updated = 0
      BY <2>4 DEF FailRun, TInv, TypeOK, Batch
    <3> QED
      BY <2>2, <2>4, <3>1, ValidSize DEF TInv, CountsOK
  <2>5. CASE s = r /\ Die(r)
    <3>1. batch'[r] = NoBatch
      BY <2>5 DEF Die, TInv, TypeOK
    <3>2. Cardinality({}) = 0
      BY FS_EmptySet
    <3> QED
      BY <2>2, <2>5, <3>1, <3>2 DEF NoBatch
  <2> QED
    BY <2>3, <2>4, <2>5
<1> QED
  BY <1>5, <1>6 DEF TInv

LEMMA ExtractType ==
  ASSUME TInv, NEW r \in Run, NEW delivery \in Delivery, Extract(r, delivery)
  PROVE  TInv'
<1> DEFINE valid == ValidIndexes(config.contracts, delivery.rows)
           drift == DriftOf(delivery)
           kept == IF drift = "FAILED" THEN {} ELSE valid
           out == IF drift = "FAILED" THEN 0
                  ELSE RowsQuarantined(config.contracts, delivery.rows)
<1>1. drift \in DriftStatuses
  BY DriftStatusType DEF DriftOf
<1>2. out \in Nat
  BY QuarantinedSize
<1>3. kept \subseteq DOMAIN delivery.rows /\ kept \in SUBSET Positions
  BY DEF ValidIndexes, Positions
<1>4. batch' = [batch EXCEPT ![r] =
        [batch[r] EXCEPT !.delivery = delivery, !.valid = kept, !.quarantined = out,
                         !.drift = drift]]
  BY DEF Extract
<1>5. batch[r] \in Batch /\ pc[r] # "done"
  BY DEF TInv, TypeOK, Extract
<1> HIDE DEF kept, out, drift
<1>6. /\ batch'[r] \in Batch
      /\ batch'[r].valid = kept
      /\ batch'[r].delivery = delivery
      /\ batch'[r].updated = batch[r].updated
  BY <1>1, <1>2, <1>3, <1>4, <1>5 DEF Batch, TInv, TypeOK
<1>7. batch' \in [Run -> Batch] /\ \A s \in Run \ {r} : batch'[s] = batch[s]
  BY <1>4, <1>6 DEF TInv, TypeOK
<1>8. pc' \in [Run -> Point] /\ \A s \in Run \ {r} : pc'[s] = pc[s]
  BY DEF Extract, Goto, Point, TInv, TypeOK
<1>9. TypeOK'
  BY <1>7, <1>8 DEF Extract, TInv, TypeOK, tableVars
<1>10. CountsOK'
  <2>1. batch[r].updated = 0
    BY DEF Extract, TInv, CountsOK
  <2>2. 0 <= Cardinality(kept)
    <3>1. IsFiniteSet(kept)
      BY <1>3, BatchSize, FS_Subset
    <3> QED
      BY <3>1, FS_CardinalityType
  <2>3. \A s \in Run : ledger'[s] = ledger[s]
    BY DEF Extract
  <2> SUFFICES ASSUME NEW s \in Run
               PROVE  /\ ledger[s].finished # 0 => pc'[s] = "done"
                      /\ batch'[s].valid \subseteq DOMAIN batch'[s].delivery.rows
                      /\ batch'[s].updated <= Cardinality(batch'[s].valid)
                      /\ batch'[s].updated # 0 => pc'[s] \in {"merge", "commit", "finish"}
    BY <2>3 DEF CountsOK
  <2>4. CASE s = r
    BY <1>3, <1>5, <1>6, <2>1, <2>2, <2>4 DEF TInv, CountsOK
  <2>5. CASE s # r
    BY <1>7, <1>8, <2>5 DEF TInv, CountsOK
  <2> QED
    BY <2>4, <2>5
<1> QED
  BY <1>9, <1>10 DEF TInv

(* Steps that write the batch of a run at work, and nothing of its rows.   *)
LEMMA BatchType ==
  ASSUME TInv, NEW r \in Run, NEW point \in Point, NEW b \in Batch,
         pc[r] # "done",
         Goto(r, point), batch' = [batch EXCEPT ![r] = b],
         b.valid = batch[r].valid, b.delivery = batch[r].delivery,
         b.updated <= Cardinality(b.valid),
         b.updated # 0 => point \in {"merge", "commit", "finish"},
         UNCHANGED <<config, ledger, preview, faults>>,
         lock' \in Run \union {0}, exists' \in BOOLEAN, table' \subseteq StoredRow,
         commits' \in Seq(Run)
  PROVE  TInv'
<1>1. TypeOK'
  BY DEF TInv, TypeOK, Goto
<1>2. CountsOK'
  BY DEF TInv, TypeOK, CountsOK, Goto
<1> QED
  BY <1>1, <1>2 DEF TInv

LEMMA LockType ==
  ASSUME TInv, NEW r \in Run, LockTable(r)
  PROVE  TInv'
<1>1. TypeOK'
  BY DEF LockTable, Goto, Point, TInv, TypeOK
<1>2. CountsOK'
  BY DEF LockTable, Goto, TInv, TypeOK, CountsOK
<1> QED
  BY <1>1, <1>2 DEF TInv

LEMMA StartType ==
  ASSUME TInv, NEW r \in Run, StartRun(r)
  PROVE  TInv'
<1> DEFINE alone == AtWork = {}
<1>1. ledger' \in [Run -> LedgerRow] /\ \A s \in Run : ledger'[s].finished = ledger[s].finished
  <2>1. alone \in BOOLEAN
    BY Zenon
  <2>2. ledger' = [ledger EXCEPT ![r] = [ledger[r] EXCEPT !.status = "RUNNING", !.alone = alone]]
    BY DEF StartRun, TInv, TypeOK
  <2>3. ledger[r] \in LedgerRow
    BY DEF TInv, TypeOK
  <2> HIDE DEF alone
  <2>4. /\ [ledger[r] EXCEPT !.status = "RUNNING", !.alone = alone] \in LedgerRow
        /\ [ledger[r] EXCEPT !.status = "RUNNING", !.alone = alone].finished = ledger[r].finished
    BY <2>1, <2>3 DEF LedgerRow
  <2> QED
    BY <2>2, <2>4 DEF TInv, TypeOK
<1>2. pc' \in [Run -> Point] /\ \A s \in Run : s # r => pc'[s] = pc[s]
  BY DEF StartRun, Goto, Point, TInv, TypeOK
<1>3. TypeOK'
  BY <1>1, <1>2 DEF StartRun, TInv, TypeOK, tableVars
<1>4. CountsOK'
  BY <1>1, <1>2 DEF StartRun, TInv, CountsOK
<1> QED
  BY <1>3, <1>4 DEF TInv

LEMMA InsertType ==
  ASSUME TInv, NEW r \in Run, InsertAll(r)
  PROVE  TInv'
<1> DEFINE b == [batch[r] EXCEPT !.inserts = {Stored(r, i) : i \in batch[r].valid}]
<1>1. {Stored(r, i) : i \in batch[r].valid} \subseteq StoredRow
  BY StoredType
<1>2. /\ b \in Batch /\ b.valid = batch[r].valid /\ b.delivery = batch[r].delivery
      /\ b.updated = batch[r].updated
  BY <1>1 DEF TInv, TypeOK, Batch
<1>3. batch' = [batch EXCEPT ![r] = b]
  BY DEF InsertAll, TInv, TypeOK
<1> HIDE DEF b
<1>4. b.updated <= Cardinality(b.valid) /\ b.updated = 0
  BY <1>2 DEF InsertAll, TInv, CountsOK
<1>5. pc[r] # "done" /\ Goto(r, "commit") /\ UNCHANGED <<config, ledger, preview, faults>>
  BY DEF InsertAll
<1>6. /\ lock' \in Run \union {0} /\ exists' \in BOOLEAN /\ table' \subseteq StoredRow
      /\ commits' \in Seq(Run)
  BY DEF InsertAll, tableVars, TInv, TypeOK
<1>7. "commit" \in Point
  BY DEF Point
<1> QED
  BY <1>2, <1>3, <1>4, <1>5, <1>6, <1>7, BatchType

LEMMA CountType ==
  ASSUME TInv, NEW r \in Run, CountMatches(r)
  PROVE  TInv'
<1> DEFINE matched == {i \in batch[r].valid : HasMatch(r, i)}
           b == [batch[r] EXCEPT !.updated = Cardinality(matched)]
<1>1. Cardinality(matched) \in Nat /\ Cardinality(matched) <= Cardinality(batch[r].valid)
  <2>1. matched \in SUBSET batch[r].valid
    OBVIOUS
  <2> HIDE DEF matched
  <2> QED
    BY <2>1, ValidSize, FS_Subset, FS_CardinalityType
<1>2. /\ b \in Batch /\ b.valid = batch[r].valid /\ b.delivery = batch[r].delivery
      /\ b.updated = Cardinality(matched)
  BY <1>1 DEF TInv, TypeOK, Batch
<1>3. batch' = [batch EXCEPT ![r] = b]
  BY DEF CountMatches, TInv, TypeOK
<1> HIDE DEF b, matched
<1>4. pc[r] # "done" /\ Goto(r, "merge") /\ UNCHANGED <<config, ledger, preview, faults>>
  BY DEF CountMatches
<1>5. /\ lock' \in Run \union {0} /\ exists' \in BOOLEAN /\ table' \subseteq StoredRow
      /\ commits' \in Seq(Run)
  BY DEF CountMatches, tableVars, TInv, TypeOK
<1>6. "merge" \in Point
  BY DEF Point
<1> QED
  BY <1>1, <1>2, <1>3, <1>4, <1>5, <1>6, BatchType

LEMMA MergeType ==
  ASSUME TInv, NEW r \in Run, Merge(r)
  PROVE  TInv'
<1> DEFINE new == {Stored(r, i) : i \in {i \in batch[r].valid : ~ HasMatch(r, i)}}
           b == [batch[r] EXCEPT !.inserts = new]
<1>1. new \subseteq StoredRow
  BY StoredType
<1>2. /\ b \in Batch /\ b.valid = batch[r].valid /\ b.delivery = batch[r].delivery
      /\ b.updated = batch[r].updated
  BY <1>1 DEF TInv, TypeOK, Batch
<1>3. batch' = [batch EXCEPT ![r] = b]
  BY DEF Merge, TInv, TypeOK
<1> HIDE DEF b, new
<1>4. b.updated <= Cardinality(b.valid)
  BY <1>2 DEF TInv, CountsOK
<1>5. pc[r] # "done" /\ Goto(r, "commit") /\ UNCHANGED <<config, ledger, preview, faults>>
  BY DEF Merge
<1>6. /\ lock' \in Run \union {0} /\ exists' \in BOOLEAN /\ table' \subseteq StoredRow
      /\ commits' \in Seq(Run)
  BY DEF Merge, tableVars, TInv, TypeOK
<1>7. "commit" \in Point
  BY DEF Point
<1> QED
  BY <1>2, <1>3, <1>4, <1>5, <1>6, <1>7, BatchType

(* The UPDATE of a MERGE moves no row and leaves one of the delivery.      *)
LEMMA UpdatedType ==
  ASSUME TInv, NEW r \in Run
  PROVE  Updated(r) \subseteq StoredRow
<1> SUFFICES ASSUME NEW t \in table
             PROVE  [t EXCEPT !.row = Merged(r, t.row)] \in StoredRow
  BY DEF Updated
<1>1. t \in StoredRow
  BY DEF TInv, TypeOK
<1>2. Merged(r, t.row) \in DeliveredRow
  <2>1. CASE \E i \in batch[r].valid : Matches(batch[r].delivery.rows[i], t.row)
    BY <2>1, StoredType DEF Merged
  <2>2. CASE ~ \E i \in batch[r].valid : Matches(batch[r].delivery.rows[i], t.row)
    BY <1>1, <2>2 DEF StoredRow, Merged
  <2> QED
    BY <2>1, <2>2
<1> QED
  BY <1>1, <1>2 DEF StoredRow

LEMMA CommitType ==
  ASSUME TInv, NEW r \in Run, Commit(r)
  PROVE  TInv'
<1> DEFINE b == [batch[r] EXCEPT !.inserts = {}]
<1>1. /\ b \in Batch /\ b.valid = batch[r].valid /\ b.delivery = batch[r].delivery
      /\ b.updated = batch[r].updated
  BY DEF TInv, TypeOK, Batch
<1>2. batch' = [batch EXCEPT ![r] = b]
  BY DEF Commit, TInv, TypeOK
<1> HIDE DEF b
<1>3. b.updated <= Cardinality(b.valid)
  BY <1>1 DEF TInv, CountsOK
<1>4. pc[r] # "done" /\ Goto(r, "finish") /\ UNCHANGED <<config, ledger, preview, faults>>
  BY DEF Commit
<1>5. table' \subseteq StoredRow
  <2>1. batch[r].inserts \subseteq StoredRow
    BY DEF TInv, TypeOK, Batch
  <2> QED
    BY <2>1, UpdatedType DEF Commit
<1>6. commits' \in Seq(Run)
  BY DEF Commit, TInv, TypeOK
<1>7. lock' \in Run \union {0} /\ exists' \in BOOLEAN
  BY DEF Commit
<1>8. "finish" \in Point
  BY DEF Point
<1> QED
  BY <1>1, <1>2, <1>3, <1>4, <1>5, <1>6, <1>7, <1>8, BatchType

LEMMA FinishType ==
  ASSUME TInv, NEW r \in Run, FinishRun(r) \/ FinishFailed(r)
  PROVE  TInv'
<1>1. CASE FinishRun(r)
  <2>1. batch[r] \in Batch
    BY DEF TInv, TypeOK
  <2>2. RowsInserted(r) \in Nat
    BY <2>1, ValidSize DEF RowsInserted, TInv, CountsOK, Batch
  <2> QED
    BY <1>1, <2>2, CloseType DEF FinishRun
<1>2. CASE FinishFailed(r)
  BY <1>2, CloseType DEF FinishFailed
<1> QED
  BY <1>1, <1>2

(* A preview reads, and keeps what it has read.                            *)
LEMMA PreviewType ==
  ASSUME TInv, PreviewStep, IsFiniteSet(table)
  PROVE  TInv'
<1>1. NoPreview \in Preview
  BY DEF NoPreview, Preview
<1>2. LastSuccess \in Run \union {0}
  BY LastSuccessType DEF TInv, TypeOK
<1>3. Cardinality(table) \in Nat
  BY FS_CardinalityType
<1>4. Len(commits) \in Nat
  BY DEF TInv, TypeOK
<1>5. preview' \in Preview
  <2>1. CASE ReadLabel
    BY <1>1, <1>2, <2>1 DEF ReadLabel, Preview
  <2>2. CASE ReadColumns
    BY <2>2 DEF ReadColumns, Preview, TInv, TypeOK
  <2>3. CASE CountRows
    BY <1>3, <1>4, <2>3 DEF CountRows, Preview, TInv, TypeOK
  <2>4. CASE ReadPage
    BY <2>4 DEF ReadPage, Preview, TInv, TypeOK
  <2>5. CASE FailPreview
    BY <1>1, <2>5 DEF FailPreview
  <2> QED
    BY <2>1, <2>2, <2>3, <2>4, <2>5 DEF PreviewStep
<1>6. faults' \in 0..MaxFaults
  BY DEF PreviewStep, ReadLabel, ReadColumns, CountRows, ReadPage, FailPreview, Fault,
         TInv, TypeOK
<1>7. UNCHANGED <<config, ledger, runVars, tableVars>>
  BY DEF PreviewStep, ReadLabel, ReadColumns, CountRows, ReadPage, FailPreview
<1>8. TypeOK'
  BY <1>5, <1>6, <1>7 DEF TInv, TypeOK, runVars, tableVars
<1>9. CountsOK'
  BY <1>7 DEF TInv, CountsOK, runVars
<1> QED
  BY <1>8, <1>9 DEF TInv

-----------------------------------------------------------------------------
(* What a step of a run leaves alone *)

LEMMA Frame ==
  ASSUME TInv, NEW r \in Run, RunStep(r)
  PROVE  /\ config' = config
         /\ preview' = preview
         /\ \A s \in Run : s # r =>
              pc'[s] = pc[s] /\ batch'[s] = batch[s] /\ ledger'[s] = ledger[s]
         /\ ~ Commit(r) => table' = table /\ exists' = exists /\ commits' = commits
<1>1. CASE StartRun(r)
  BY <1>1 DEF StartRun, Goto, tableVars, TInv, TypeOK
<1>2. CASE \E delivery \in Delivery : Extract(r, delivery)
  BY <1>2 DEF Extract, Goto, tableVars, TInv, TypeOK
<1>3. CASE LockTable(r) \/ InsertAll(r)
  BY <1>3 DEF LockTable, InsertAll, Goto, tableVars, TInv, TypeOK
<1>4. CASE CountMatches(r) \/ Merge(r)
  BY <1>4 DEF CountMatches, Merge, Goto, tableVars, TInv, TypeOK
<1>5. CASE Commit(r)
  BY <1>5 DEF Commit, Goto, TInv, TypeOK
<1>6. CASE FinishRun(r) \/ FinishFailed(r)
  BY <1>6 DEF FinishRun, FinishFailed, Close, Goto, tableVars, TInv, TypeOK
<1>7. CASE FailRun(r) \/ Die(r)
  BY <1>7 DEF FailRun, Die, RollBack, Goto, TInv, TypeOK
<1> QED
  BY <1>1, <1>2, <1>3, <1>4, <1>5, <1>6, <1>7 DEF RunStep

LEMMA PreviewFrame ==
  ASSUME PreviewStep
  PROVE  UNCHANGED <<config, ledger, pc, batch, lock, exists, table, commits>>
BY DEF PreviewStep, ReadLabel, ReadColumns, CountRows, ReadPage, FailPreview, runVars, tableVars

-----------------------------------------------------------------------------
(* Finite tables, so that their rows can be counted *)

FiniteOK ==
  /\ IsFiniteSet(table)
  /\ \A r \in Run : IsFiniteSet(batch[r].inserts)

\* The rows a run would insert, of a set of positions.
StoredAll(r, positions) == {Stored(r, i) : i \in positions}

LEMMA StoredBijection ==
  ASSUME NEW r, NEW positions, IsFiniteSet(positions)
  PROVE  /\ IsFiniteSet(StoredAll(r, positions))
         /\ Cardinality(StoredAll(r, positions)) = Cardinality(positions)
<1> DEFINE f == [i \in positions |-> Stored(r, i)]
<1>1. f \in Bijection(positions, StoredAll(r, positions))
  BY DEF Bijection, Injection, IsInjective, Surjection, StoredAll, Stored
<1> QED
  BY <1>1, FS_Bijection DEF ExistsBijection

LEMMA UpdatedFinite ==
  ASSUME NEW r, IsFiniteSet(table)
  PROVE  IsFiniteSet(Updated(r))
<1> DEFINE f == [t \in table |-> [t EXCEPT !.row = Merged(r, t.row)]]
<1>1. f \in Surjection(table, Updated(r))
  BY DEF Surjection, Updated
<1> QED
  BY <1>1, FS_Surjection

LEMMA FiniteStep ==
  ASSUME TInv, FiniteOK, NEW r \in Run, RunStep(r)
  PROVE  FiniteOK'
<1>1. IsFiniteSet({})
  BY FS_EmptySet
<1>2. IsFiniteSet(batch[r].valid)
  BY ValidSize
<1>3. IsFiniteSet(table')
  <2>1. CASE Commit(r)
    <3>1. IsFiniteSet(batch[r].inserts \union Updated(r)) /\ IsFiniteSet(batch[r].inserts \union {})
      BY <1>1, UpdatedFinite, FS_Union DEF FiniteOK
    <3> QED
      BY <2>1, <3>1 DEF Commit
  <2>2. CASE ~ Commit(r)
    BY <2>2, Frame DEF FiniteOK
  <2> QED
    BY <2>1, <2>2
<1>4. IsFiniteSet(batch'[r].inserts)
  <2>1. CASE InsertAll(r)
    <3>1. batch'[r].inserts = StoredAll(r, batch[r].valid)
      BY <2>1 DEF InsertAll, StoredAll, TInv, TypeOK, Batch
    <3> QED
      BY <1>2, <3>1, StoredBijection
  <2>2. CASE Merge(r)
    <3> DEFINE free == {i \in batch[r].valid : ~ HasMatch(r, i)}
    <3>1. batch'[r].inserts = StoredAll(r, free)
      BY <2>2 DEF Merge, StoredAll, TInv, TypeOK, Batch
    <3>2. free \in SUBSET batch[r].valid
      OBVIOUS
    <3> HIDE DEF free
    <3>3. IsFiniteSet(free)
      BY <1>2, <3>2, FS_Subset
    <3> QED
      BY <3>1, <3>3, StoredBijection
  <2>3. CASE ~ InsertAll(r) /\ ~ Merge(r)
    <3>1. batch'[r].inserts \in {batch[r].inserts, {}}
      <4>1. CASE StartRun(r) \/ LockTable(r)
        BY <4>1 DEF StartRun, LockTable
      <4>2. CASE \E delivery \in Delivery : Extract(r, delivery)
        BY <4>2 DEF Extract, TInv, TypeOK, Batch
      <4>3. CASE CountMatches(r) \/ Commit(r) \/ FailRun(r)
        BY <4>3 DEF CountMatches, Commit, FailRun, TInv, TypeOK, Batch
      <4>4. CASE FinishRun(r) \/ FinishFailed(r) \/ Die(r)
        BY <4>4 DEF FinishRun, FinishFailed, Die, Close, NoBatch, TInv, TypeOK
      <4> QED
        BY <2>3, <4>1, <4>2, <4>3, <4>4 DEF RunStep
    <3> QED
      BY <1>1, <3>1 DEF FiniteOK
  <2> QED
    BY <2>1, <2>2, <2>3
<1> QED
  BY <1>3, <1>4, Frame DEF FiniteOK

-----------------------------------------------------------------------------
(* The type invariant *)

LEMMA TStep ==
  ASSUME TInv, FiniteOK, [Next]_vars
  PROVE  TInv' /\ FiniteOK'
<1>1. CASE PreviewStep
  BY <1>1, PreviewType, PreviewFrame DEF FiniteOK
<1>2. ASSUME NEW r \in Run, RunStep(r)
      PROVE  TInv' /\ FiniteOK'
  BY <1>2, StartType, ExtractType, LockType, InsertType, CountType, MergeType, CommitType,
     FinishType, FailType, FiniteStep DEF RunStep
<1>3. CASE UNCHANGED vars
  BY <1>3 DEF TInv, TypeOK, CountsOK, FiniteOK, vars, runVars, tableVars
<1> QED
  BY <1>1, <1>2, <1>3 DEF Next

LEMMA FiniteInit == Init => FiniteOK
<1>1. IsFiniteSet({})
  BY FS_EmptySet
<1>2. Init => table = {} /\ \A r \in Run : batch[r].inserts = {}
  BY DEF Init, NoBatch
<1> QED
  BY <1>1, <1>2 DEF FiniteOK

(* The types of the ledger, of the table and of every run and preview.     *)
THEOREM TypeCorrect == Spec => []TypeOK
<1>1. Init => TInv /\ FiniteOK
  BY TInit, FiniteInit
<1>2. TInv /\ FiniteOK /\ [Next]_vars => TInv' /\ FiniteOK'
  BY TStep
<1>3. TInv => TypeOK
  BY DEF TInv
<1> QED
  BY <1>1, <1>2, <1>3, PTL DEF Spec

-----------------------------------------------------------------------------
(* The lock *)

(* A run in the middle of its transaction holds the lock of the table, and *)
(* takes the statements of its strategy.                                   *)
LockOK ==
  \A r \in Run :
    /\ pc[r] \in {"write", "count", "merge", "commit"} => lock = r
    /\ pc[r] = "write" => config.strategy = "full"
    /\ pc[r] \in {"count", "merge"} => config.strategy = "upsert"

TF == TInv /\ FiniteOK

LEMMA Strategy ==
  ASSUME TInv
  PROVE  config.strategy \in {"full", "upsert"}
BY ConfigAssumption DEF TInv, TypeOK

LEMMA LockStep ==
  ASSUME TInv, LockOK, [Next]_vars
  PROVE  LockOK'
<1>1. CASE PreviewStep
  BY <1>1, PreviewFrame DEF LockOK
<1>2. ASSUME NEW r \in Run, RunStep(r)
      PROVE  LockOK'
  <2>1. CASE LockTable(r)
    <3>1. lock = 0
      BY <2>1 DEF LockTable, Conflicts
    <3>2. \A s \in Run : pc[s] \notin {"write", "count", "merge", "commit"}
      BY <3>1 DEF LockOK
    <3> QED
      BY <2>1, <3>2, Strategy DEF LockTable, LockOK, Goto, TInv, TypeOK
  <2>2. CASE Commit(r)
    <3>1. \A s \in Run : s # r => pc[s] \notin {"write", "count", "merge", "commit"}
      BY <2>2 DEF Commit, LockOK
    <3> QED
      BY <2>2, <3>1 DEF Commit, LockOK, Goto, TInv, TypeOK
  <2>3. CASE FailRun(r) \/ Die(r)
    <3>1. pc'[r] \in {"failing", "dead"} /\ RollBack(r)
      BY <2>3 DEF FailRun, Die, Goto, TInv, TypeOK
    <3> QED
      BY <1>2, <3>1, Frame DEF RollBack, LockOK
  <2>4. CASE StartRun(r) \/ \E delivery \in Delivery : Extract(r, delivery)
    <3>1. pc'[r] \in {"extract", "lock", "failing"} /\ lock' = lock
      BY <2>4 DEF StartRun, Extract, Goto, tableVars, TInv, TypeOK
    <3> QED
      BY <1>2, <3>1, Frame DEF LockOK
  <2>5. CASE InsertAll(r) \/ CountMatches(r) \/ Merge(r)
    <3>1. lock' = lock /\ pc[r] \in {"write", "count", "merge"}
      BY <2>5 DEF InsertAll, CountMatches, Merge, tableVars
    <3>2. \/ pc'[r] = "commit"
          \/ pc'[r] = "merge" /\ pc[r] = "count"
      BY <2>5 DEF InsertAll, CountMatches, Merge, Goto, TInv, TypeOK
    <3> QED
      BY <1>2, <3>1, <3>2, Frame DEF LockOK
  <2>6. CASE FinishRun(r) \/ FinishFailed(r)
    <3>1. pc'[r] = "done" /\ lock' = lock
      BY <2>6 DEF FinishRun, FinishFailed, Close, Goto, tableVars, TInv, TypeOK
    <3> QED
      BY <1>2, <3>1, Frame DEF LockOK
  <2> QED
    BY <1>2, <2>1, <2>2, <2>3, <2>4, <2>5, <2>6 DEF RunStep
<1>3. CASE UNCHANGED vars
  BY <1>3 DEF LockOK, vars, runVars, tableVars
<1> QED
  BY <1>1, <1>2, <1>3 DEF Next

(* Only the holder of the lock commits, so no other transaction is open.   *)
LEMMA CommitAlone ==
  ASSUME LockOK, NEW r \in Run, Commit(r), NEW s \in Run, s # r
  PROVE  pc[s] \notin {"write", "count", "merge", "commit"}
BY DEF LockOK, Commit

-----------------------------------------------------------------------------
(* Keys *)

\* The positions of a run's valid rows that no row of the table matches.
Free(r) == {i \in batch[r].valid : ~ HasMatch(r, i)}

(* In an upsert the table has one row per key, a run on its way to publish *)
(* has too, and what it has inserted is free of the keys of the table.     *)
KeysOK ==
  config.strategy = "upsert" =>
    /\ OneRowPerKey
    /\ \A r \in Run :
         /\ pc[r] \in {"lock", "count", "merge", "commit"}
              => UpsertAccepts(config.keys, batch[r].delivery.rows, batch[r].valid)
         /\ pc[r] = "commit" => batch[r].inserts = StoredAll(r, Free(r))

LEMMA FreeSame ==
  ASSUME NEW r \in Run, batch'[r].delivery = batch[r].delivery,
         batch'[r].valid = batch[r].valid, table' = table, config' = config
  PROVE  StoredAll(r, Free(r))' = StoredAll(r, Free(r))
<1>1. Free(r)' = Free(r)
  BY DEF Free, HasMatch, Matches
<1>2. \A i : Stored(r, i)' = Stored(r, i)
  BY DEF Stored
<1> QED
  BY <1>1, <1>2 DEF StoredAll

(* A merge changes no key: the row it writes matches the row it replaces.  *)
LEMMA MergedKey ==
  ASSUME NEW r, NEW row
  PROVE  /\ SameKey(Merged(r, row), row, config.keys)
         /\ Whole(row, config.keys) => Whole(Merged(r, row), config.keys)
<1>1. CASE \E i \in batch[r].valid : Matches(batch[r].delivery.rows[i], row)
  <2>1. Matches(Merged(r, row), row)
    BY <1>1 DEF Merged
  <2> QED
    BY <2>1 DEF Matches
<1>2. CASE ~ \E i \in batch[r].valid : Matches(batch[r].delivery.rows[i], row)
  BY <1>2 DEF Merged, SameKey
<1> QED
  BY <1>1, <1>2

LEMMA CommitKeys ==
  ASSUME TInv, LockOK, KeysOK, config.strategy = "upsert", NEW r \in Run, Commit(r)
  PROVE  OneRowPerKey'
<1> DEFINE keys == config.keys
           rows == batch[r].delivery.rows
<1>1. /\ \A t \in table : Whole(t.row, keys)
      /\ \A t, u \in table : SameKey(t.row, u.row, keys) => t = u
  BY DEF KeysOK, OneRowPerKey
<1>2. /\ \A i \in batch[r].valid : Whole(rows[i], keys)
      /\ \A i, j \in batch[r].valid : SameKey(rows[i], rows[j], keys) => i = j
  BY DEF KeysOK, UpsertAccepts, Commit
<1>3. table' = StoredAll(r, Free(r)) \union Updated(r) /\ config' = config
  BY DEF KeysOK, Commit
<1>4. \A n \in StoredAll(r, Free(r)) :
        \E i \in Free(r) : n = Stored(r, i) /\ n.row = rows[i] /\ i \in batch[r].valid
  BY DEF StoredAll, Stored, Free
<1>5. \A n \in Updated(r) :
        \E t \in table :
          /\ n = [t EXCEPT !.row = Merged(r, t.row)]
          /\ n.row = Merged(r, t.row)
  <2> SUFFICES ASSUME NEW t \in table
               PROVE  [t EXCEPT !.row = Merged(r, t.row)].row = Merged(r, t.row)
    BY DEF Updated
  <2>1. t \in StoredRow
    BY DEF TInv, TypeOK
  <2> QED
    BY <2>1 DEF StoredRow
<1> HIDE DEF keys, rows
<1>6. \A n \in table' : Whole(n.row, keys)
  BY <1>1, <1>2, <1>3, <1>4, <1>5, MergedKey DEF keys
<1>7. ASSUME NEW n \in table', NEW m \in table', SameKey(n.row, m.row, keys)
      PROVE  n = m
  <2>1. CASE n \in StoredAll(r, Free(r)) /\ m \in StoredAll(r, Free(r))
    BY <1>2, <1>4, <1>7, <2>1
  <2>2. CASE n \in Updated(r) /\ m \in Updated(r)
    <3>1. PICK t \in table : n = [t EXCEPT !.row = Merged(r, t.row)] /\ n.row = Merged(r, t.row)
      BY <1>5, <2>2
    <3>2. PICK u \in table : m = [u EXCEPT !.row = Merged(r, u.row)] /\ m.row = Merged(r, u.row)
      BY <1>5, <2>2
    <3>3. SameKey(n.row, t.row, keys) /\ SameKey(m.row, u.row, keys)
      BY <3>1, <3>2, MergedKey DEF keys
    <3>4. SameKey(t.row, u.row, keys)
      BY <1>7, <3>3 DEF SameKey
    <3> QED
      BY <1>1, <3>1, <3>2, <3>4
  <2>3. ASSUME NEW new \in StoredAll(r, Free(r)), NEW old \in Updated(r)
        PROVE  ~ SameKey(new.row, old.row, keys) /\ ~ SameKey(old.row, new.row, keys)
    <3>1. PICK i \in Free(r) : new.row = rows[i] /\ i \in batch[r].valid
      BY <1>4
    <3>2. PICK t \in table : old.row = Merged(r, t.row)
      BY <1>5
    <3>3. SameKey(old.row, t.row, keys)
      BY <3>2, MergedKey DEF keys
    <3>4. ~ Matches(rows[i], t.row)
      BY <3>1 DEF Free, HasMatch, rows
    <3>5. ~ SameKey(rows[i], t.row, keys)
      BY <1>2, <3>1, <3>4 DEF Matches, keys
    <3> QED
      BY <3>1, <3>3, <3>5 DEF SameKey
  <2> QED
    BY <1>3, <1>7, <2>1, <2>2, <2>3
<1> QED
  BY <1>3, <1>6, <1>7 DEF OneRowPerKey, keys

LEMMA KeysStep ==
  ASSUME TInv, LockOK, KeysOK, [Next]_vars
  PROVE  KeysOK'
<1>1. CASE PreviewStep
  BY <1>1, PreviewFrame, FreeSame DEF KeysOK, OneRowPerKey
<1>2. ASSUME NEW r \in Run, RunStep(r)
      PROVE  KeysOK'
  <2> SUFFICES ASSUME config.strategy = "upsert"
               PROVE  KeysOK'
    BY <1>2, Frame DEF KeysOK
  <2>1. config' = config
    BY <1>2, Frame
  <2>2. OneRowPerKey'
    <3>1. CASE Commit(r)
      BY <3>1, CommitKeys
    <3>2. CASE ~ Commit(r)
      BY <1>2, <3>2, Frame DEF KeysOK, OneRowPerKey
    <3> QED
      BY <3>1, <3>2
  <2>3. ASSUME NEW s \in Run, s # r
        PROVE  /\ pc'[s] \in {"lock", "count", "merge", "commit"}
                    => UpsertAccepts(config.keys, batch'[s].delivery.rows, batch'[s].valid)
               /\ pc'[s] = "commit" => batch'[s].inserts = StoredAll(s, Free(s))'
    <3>1. pc'[s] = pc[s] /\ batch'[s] = batch[s]
      BY <1>2, <2>3, Frame
    <3>2. CASE Commit(r)
      BY <2>3, <3>1, <3>2, CommitAlone DEF KeysOK
    <3>3. CASE ~ Commit(r)
      <4>1. table' = table
        BY <1>2, <3>3, Frame
      <4> QED
        BY <2>1, <3>1, <4>1, FreeSame DEF KeysOK
    <3> QED
      BY <3>2, <3>3
  <2>4. /\ pc'[r] \in {"lock", "count", "merge", "commit"}
             => UpsertAccepts(config.keys, batch'[r].delivery.rows, batch'[r].valid)
        /\ pc'[r] = "commit" => batch'[r].inserts = StoredAll(r, Free(r))'
    <3>1. CASE \E delivery \in Delivery : Extract(r, delivery)
      <4>1. PICK delivery \in Delivery : Extract(r, delivery)
        BY <3>1
      <4>2. pc'[r] = "lock" \/ pc'[r] = "failing"
        BY <4>1 DEF Extract, Goto, TInv, TypeOK
      <4>3. ASSUME pc'[r] = "lock"
            PROVE  UpsertAccepts(config.keys, batch'[r].delivery.rows, batch'[r].valid)
        <5> DEFINE valid == ValidIndexes(config.contracts, delivery.rows)
                   drift == DriftOf(delivery)
        <5>1. drift # "FAILED" /\ UpsertAccepts(config.keys, delivery.rows, valid)
          BY <4>1, <4>3 DEF Extract, Goto, TInv, TypeOK
        <5>2. batch'[r].delivery = delivery /\ batch'[r].valid = valid
          BY <4>1, <5>1 DEF Extract, TInv, TypeOK, Batch
        <5> HIDE DEF valid, drift
        <5> QED
          BY <5>1, <5>2
      <4> QED
        BY <4>2, <4>3
    <3>2. CASE LockTable(r)
      BY <3>2, Strategy DEF LockTable, Goto, KeysOK, TInv, TypeOK
    <3>3. CASE CountMatches(r)
      <4>1. /\ batch'[r].delivery = batch[r].delivery /\ batch'[r].valid = batch[r].valid
            /\ pc'[r] = "merge" /\ pc[r] = "count"
        BY <3>3 DEF CountMatches, Goto, TInv, TypeOK, Batch
      <4> QED
        BY <4>1 DEF KeysOK
    <3>4. CASE Merge(r)
      <4>1. /\ batch'[r].delivery = batch[r].delivery /\ batch'[r].valid = batch[r].valid
            /\ pc'[r] = "commit" /\ pc[r] = "merge" /\ table' = table
            /\ batch'[r].inserts = StoredAll(r, Free(r))
        BY <3>4 DEF Merge, Goto, tableVars, StoredAll, Free, TInv, TypeOK, Batch
      <4> QED
        BY <2>1, <4>1, FreeSame DEF KeysOK
    <3>5. CASE InsertAll(r)
      BY <3>5 DEF InsertAll, LockOK
    <3>6. CASE StartRun(r) \/ FailRun(r) \/ Die(r) \/ Commit(r) \/ FinishRun(r)
               \/ FinishFailed(r)
      <4>1. pc'[r] \notin {"lock", "count", "merge", "commit"}
        BY <3>6 DEF StartRun, FailRun, Die, Commit, FinishRun, FinishFailed, Close, Goto,
                    TInv, TypeOK
      <4> QED
        BY <4>1
    <3> QED
      BY <1>2, <3>1, <3>2, <3>3, <3>4, <3>5, <3>6 DEF RunStep
  <2> QED
    BY <2>1, <2>2, <2>3, <2>4 DEF KeysOK
<1>3. CASE UNCHANGED vars
  BY <1>3, FreeSame DEF KeysOK, OneRowPerKey, vars, runVars, tableVars
<1> QED
  BY <1>1, <1>2, <1>3 DEF Next

LEMMA KeysInit == Init => LockOK /\ KeysOK
BY DEF Init, LockOK, KeysOK, OneRowPerKey

(* However runs overlap, fail and die, a table loaded by upsert holds one  *)
(* row per key and none without: the refusals of publish_upsert and its    *)
(* lock (postgres.py:600, 652) stand in for a unique index.                *)
THEOREM KeysCorrect == Spec => []OneRowPerKey
<1> DEFINE IInv == TInv /\ FiniteOK /\ LockOK /\ KeysOK
<1>1. Init => IInv
  BY TInit, FiniteInit, KeysInit
<1>2. IInv /\ [Next]_vars => IInv'
  BY TStep, LockStep, KeysStep
<1>3. IInv => OneRowPerKey
  BY DEF KeysOK, OneRowPerKey
<1> QED
  BY <1>1, <1>2, <1>3, PTL DEF Spec

-----------------------------------------------------------------------------
(* What a preview shows *)

(* While a preview of a table loaded in full is between its count and its  *)
(* page, no run has the lock and the table is the one it counted.          *)
PageOK ==
  config.strategy = "full" =>
    /\ preview.pc = "page" => lock = 0 /\ Cardinality(table) = preview.total
    /\ preview.pc # "done" => preview.state \notin {"AVAILABLE", "EMPTY"}
    /\ PageMatchesCount

LEMMA PageStep ==
  ASSUME TInv, LockOK, PageOK, [Next]_vars
  PROVE  PageOK'
<1>1. CASE PreviewStep
  <2>1. CASE ReadLabel \/ FailPreview
    <3>1. preview'.state = "NONE" /\ preview'.pc \in {"columns", "idle"} /\ config' = config
      <4>1. CASE ReadLabel
        BY <4>1 DEF ReadLabel, NoPreview
      <4>2. CASE FailPreview
        BY <4>2 DEF FailPreview, NoPreview
      <4> QED
        BY <2>1, <4>1, <4>2
    <3> QED
      BY <3>1 DEF PageOK, PageMatchesCount
  <2>2. CASE ReadColumns
    BY <2>2 DEF ReadColumns, PageOK, PageMatchesCount, TInv, TypeOK, Preview
  <2>3. CASE CountRows
    BY <2>3 DEF CountRows, PageOK, PageMatchesCount, TInv, TypeOK, Preview, tableVars
  <2>4. CASE ReadPage
    <3>1. /\ preview.pc = "page" /\ table' = table /\ lock' = lock /\ config' = config
          /\ preview'.pc = "done" /\ preview'.page = table /\ preview'.total = preview.total
      BY <2>4 DEF ReadPage, TInv, TypeOK, Preview, tableVars
    <3> QED
      BY <3>1 DEF PageOK, PageMatchesCount
  <2> QED
    BY <1>1, <2>1, <2>2, <2>3, <2>4 DEF PreviewStep
<1>2. ASSUME NEW r \in Run, RunStep(r)
      PROVE  PageOK'
  <2>1. preview' = preview /\ config' = config
    BY <1>2, Frame
  <2>2. ASSUME config.strategy = "full", preview.pc = "page"
        PROVE  lock' = 0 /\ table' = table
    <3>1. lock = 0
      BY <2>2 DEF PageOK
    <3>2. ~ Commit(r)
      BY <3>1 DEF Commit, LockOK
    <3>3. ~ LockTable(r)
      BY <2>2 DEF LockTable, Conflicts, ReaderHolds
    <3>4. lock' = lock
      BY <1>2, <3>1, <3>2, <3>3 DEF RunStep, StartRun, Extract, InsertAll, CountMatches, Merge,
         FinishRun, FinishFailed, Close, FailRun, Die, RollBack, tableVars
    <3> QED
      BY <1>2, <3>1, <3>2, <3>4, Frame
  <2> QED
    BY <2>1, <2>2 DEF PageOK, PageMatchesCount
<1>3. CASE UNCHANGED vars
  BY <1>3 DEF PageOK, PageMatchesCount, vars, tableVars
<1> QED
  BY <1>1, <1>2, <1>3 DEF Next

(* The page and the count a preview of a full load shows are of one and    *)
(* the same load (trusted_data.py:115, 142; postgres.py:504).              *)
THEOREM PageCorrect == Spec => []PageMatchesCount
<1> DEFINE IInv == TInv /\ FiniteOK /\ LockOK /\ PageOK
<1>1. Init => IInv
  BY TInit, FiniteInit, KeysInit DEF Init, PageOK, PageMatchesCount, NoPreview
<1>2. IInv /\ [Next]_vars => IInv'
  BY TStep, LockStep, PageStep
<1>3. IInv => PageMatchesCount
  BY DEF PageOK, PageMatchesCount
<1> QED
  BY <1>1, <1>2, <1>3, PTL DEF Spec

-----------------------------------------------------------------------------
(* The label of a preview *)

\* Run r is among the first n commits.
Committed(r, n) == \E k \in 1..n : commits[k] = r

(* A run that has published, or is recorded as a success, is among the     *)
(* commits; so is the label of a preview, before it reads the table and in *)
(* what it has read.                                                       *)
LabelOK ==
  /\ commits # << >> => exists
  /\ \A r \in Run :
       (pc[r] = "finish" \/ ledger[r].status = "SUCCEEDED") => Committed(r, Len(commits))
  /\ preview.version <= Len(commits)
  /\ preview.label # 0 =>
       /\ preview.pc \in {"columns", "count"} => Committed(preview.label, Len(commits))
       /\ preview.pc = "page" => Committed(preview.label, preview.version)
       /\ preview.pc # "done" => preview.state # "NOT_PUBLISHED"
  /\ preview.pc = "idle" => preview.label = 0
  /\ PageNotOlderThanLabel

LEMMA CommittedStays ==
  ASSUME TInv, NEW r \in Run, RunStep(r),
         NEW s, NEW n \in Nat, n <= Len(commits), Committed(s, n)
  PROVE  Committed(s, n)' /\ Committed(s, Len(commits))'
<1>1. commits' = commits \/ commits' = Append(commits, r)
  <2>1. CASE Commit(r)
    BY <2>1 DEF Commit
  <2>2. CASE ~ Commit(r)
    BY <2>2, Frame
  <2> QED
    BY <2>1, <2>2
<1>2. commits \in Seq(Run)
  BY DEF TInv, TypeOK
<1>3. PICK k \in 1..n : commits[k] = s
  BY DEF Committed
<1>4. commits'[k] = s /\ Len(commits') \in Nat /\ n <= Len(commits')
  <2>1. CASE commits' = commits
    BY <1>2, <1>3, <2>1
  <2>2. CASE commits' = Append(commits, r)
    <3>1. Len(commits') = Len(commits) + 1
      BY <1>2, <2>2
    <3>2. \A i \in 1..Len(commits) : commits'[i] = commits[i]
      BY <1>2, <2>2
    <3>3. Len(commits) \in Nat /\ k \in 1..Len(commits)
      BY <1>2
    <3>4. commits'[k] = commits[k]
      BY <3>2, <3>3
    <3> QED
      BY <1>3, <3>1, <3>3, <3>4
  <2> QED
    BY <1>1, <2>1, <2>2
<1> QED
  BY <1>3, <1>4 DEF Committed

LEMMA LabelRun ==
  ASSUME TInv, LabelOK, NEW r \in Run, RunStep(r)
  PROVE  LabelOK'
<1>1. commits \in Seq(Run) /\ preview \in Preview /\ Len(commits) \in Nat
  BY DEF TInv, TypeOK
<1>2. preview' = preview
  BY Frame
<1>3. (commits' # << >> => exists') /\ preview.version <= Len(commits')
  <2>1. CASE Commit(r)
    BY <1>1, <2>1 DEF Commit, LabelOK, Preview
  <2>2. CASE ~ Commit(r)
    BY <2>2, Frame DEF LabelOK
  <2> QED
    BY <2>1, <2>2
<1>4. ASSUME NEW s \in Run, pc'[s] = "finish" \/ ledger'[s].status = "SUCCEEDED"
      PROVE  Committed(s, Len(commits))'
  <2>1. CASE s # r
    <3>1. Committed(s, Len(commits))
      BY <1>4, <2>1, Frame DEF LabelOK
    <3> QED
      BY <1>1, <3>1, CommittedStays
  <2>2. CASE s = r /\ Commit(r)
    <3>1. commits' = Append(commits, r)
      BY <2>2 DEF Commit
    <3>2. Len(commits') = Len(commits) + 1 /\ commits'[Len(commits')] = r
      BY <1>1, <3>1
    <3> QED
      BY <1>1, <2>2, <3>2 DEF Committed
  <2>3. CASE s = r /\ ~ Commit(r)
    <3>1. pc[r] = "finish" \/ ledger[r].status = "SUCCEEDED"
      <4>1. CASE FinishRun(r)
        BY <4>1 DEF FinishRun
      <4>2. CASE ~ FinishRun(r)
        <5>1. pc'[r] # "finish"
          BY <2>3, <4>2 DEF RunStep, StartRun, Extract, LockTable, InsertAll, CountMatches, Merge,
             FinishFailed, Close, FailRun, Die, Goto, TInv, TypeOK
        <5>2. ledger'[r].status \in {ledger[r].status, "RUNNING", "FAILED"}
          <6>1. CASE StartRun(r)
            BY <6>1 DEF StartRun, TInv, TypeOK, LedgerRow
          <6>2. CASE FinishFailed(r)
            BY <6>2 DEF FinishFailed, Close, TInv, TypeOK, LedgerRow
          <6>3. CASE ~ StartRun(r) /\ ~ FinishFailed(r)
            BY <2>3, <4>2, <6>3 DEF RunStep, Extract, LockTable, InsertAll, CountMatches, Merge,
               FailRun, Die
          <6> QED
            BY <6>1, <6>2, <6>3
        <5> QED
          BY <1>4, <2>3, <5>1, <5>2
      <4> QED
        BY <4>1, <4>2
    <3>2. Committed(r, Len(commits))
      BY <3>1 DEF LabelOK
    <3> QED
      BY <1>1, <2>3, <3>2, CommittedStays
  <2> QED
    BY <2>1, <2>2, <2>3
<1>5. preview.version \in Nat
  BY <1>1 DEF Preview
<1>6. \A s : Committed(s, preview.version) => Committed(s, preview.version)'
  BY <1>2, <1>5, CommittedStays DEF LabelOK, Committed
<1>7. \A s : Committed(s, Len(commits)) => Committed(s, Len(commits))'
  BY <1>1, CommittedStays
<1>8. PageNotOlderThanLabel <=>
        ((preview.pc = "done" /\ preview.label # 0)
          => preview.state # "NOT_PUBLISHED" /\ Committed(preview.label, preview.version))
  BY DEF PageNotOlderThanLabel, Committed
<1>9. PageNotOlderThanLabel' <=>
        ((preview.pc = "done" /\ preview.label # 0)
          => preview.state # "NOT_PUBLISHED" /\ Committed(preview.label, preview.version)')
  BY <1>2 DEF PageNotOlderThanLabel, Committed
<1> QED
  BY <1>2, <1>3, <1>4, <1>6, <1>7, <1>8, <1>9 DEF LabelOK

LEMMA LabelPreview ==
  ASSUME TInv, LabelOK, PreviewStep
  PROVE  LabelOK'
<1>1. UNCHANGED <<ledger, pc, exists, commits>>
  BY PreviewFrame
<1>2. /\ commits' # << >> => exists'
      /\ \A r \in Run :
           (pc'[r] = "finish" \/ ledger'[r].status = "SUCCEEDED") => Committed(r, Len(commits))'
  BY <1>1 DEF LabelOK, Committed
<1>3. preview \in Preview /\ Len(commits) \in Nat /\ commits \in Seq(Run)
  BY DEF TInv, TypeOK
<1>4. CASE ReadLabel
  <2>1. /\ preview'.pc = "columns" /\ preview'.label = LastSuccess
        /\ preview'.version = 0 /\ preview'.state = "NONE"
    BY <1>4 DEF ReadLabel, NoPreview
  <2>2. LastSuccess # 0 => Committed(LastSuccess, Len(commits))
    <3>1. LastSuccess # 0 => LastSuccess \in Run /\ ledger[LastSuccess].status = "SUCCEEDED"
      BY LastSuccessType DEF Succeeded, TInv, TypeOK
    <3> QED
      BY <3>1 DEF LabelOK
  <2> QED
    BY <1>1, <1>2, <1>3, <2>1, <2>2 DEF LabelOK, PageNotOlderThanLabel, Committed
<1>5. CASE ReadColumns
  <2>1. CASE exists
    <3>1. preview' = [preview EXCEPT !.pc = "count"] /\ preview.pc = "columns"
      BY <1>5, <2>1 DEF ReadColumns
    <3>2. /\ preview'.pc = "count" /\ preview'.label = preview.label
          /\ preview'.version = preview.version /\ preview'.state = preview.state
      BY <1>3, <3>1 DEF Preview
    <3> QED
      BY <1>1, <1>2, <3>1, <3>2 DEF LabelOK, PageNotOlderThanLabel, Committed
  <2>2. CASE ~ exists
    <3>1. preview' = [preview EXCEPT !.pc = "done", !.state = "NOT_PUBLISHED"]
          /\ preview.pc = "columns"
      BY <1>5, <2>2 DEF ReadColumns
    <3>2. preview'.pc = "done" /\ preview'.label = preview.label
          /\ preview'.version = preview.version
      BY <1>3, <3>1 DEF Preview
    <3>3. commits = << >>
      BY <2>2 DEF LabelOK
    <3>4. preview.label = 0
      BY <3>1, <3>3 DEF LabelOK, Committed
    <3> QED
      BY <1>1, <1>2, <3>2, <3>4 DEF LabelOK, PageNotOlderThanLabel, Committed
  <2> QED
    BY <2>1, <2>2
<1>6. CASE CountRows
  <2>1. /\ preview.pc = "count" /\ preview'.pc = "page" /\ preview'.label = preview.label
        /\ preview'.version = Len(commits) /\ preview'.state = preview.state
    BY <1>3, <1>6 DEF CountRows, Preview
  <2> QED
    BY <1>1, <1>2, <1>3, <2>1 DEF LabelOK, PageNotOlderThanLabel, Committed
<1>7. CASE ReadPage
  <2>1. /\ preview.pc = "page" /\ preview'.pc = "done" /\ preview'.label = preview.label
        /\ preview'.version = preview.version /\ preview'.state # "NOT_PUBLISHED"
    BY <1>3, <1>7 DEF ReadPage, Preview
  <2> QED
    BY <1>1, <1>2, <1>3, <2>1 DEF LabelOK, PageNotOlderThanLabel, Committed
<1>8. CASE FailPreview
  <2>1. preview' = NoPreview
    BY <1>8 DEF FailPreview
  <2> QED
    BY <1>1, <1>2, <1>3, <2>1 DEF NoPreview, LabelOK, PageNotOlderThanLabel
<1> QED
  BY <1>4, <1>5, <1>6, <1>7, <1>8 DEF PreviewStep

LEMMA LabelStep ==
  ASSUME TInv, LabelOK, [Next]_vars
  PROVE  LabelOK'
<1>1. CASE UNCHANGED vars
  BY <1>1 DEF LabelOK, Committed, PageNotOlderThanLabel, vars, runVars, tableVars
<1> QED
  BY <1>1, LabelRun, LabelPreview DEF Next

LEMMA LabelInit == Init => LabelOK
BY DEF Init, LabelOK, NoPreview, NoLedgerRow, PageNotOlderThanLabel

(* A preview never shows rows older than the run it names, nor calls       *)
(* unpublished a table some run has published with success                 *)
(* (trusted_data.py:57-88).                                                *)
THEOREM LabelCorrect == Spec => []PageNotOlderThanLabel
<1> DEFINE IInv == TInv /\ FiniteOK /\ LabelOK
<1>1. Init => IInv
  BY TInit, FiniteInit, LabelInit
<1>2. IInv /\ [Next]_vars => IInv'
  BY TStep, LabelStep
<1>3. IInv => PageNotOlderThanLabel
  BY DEF LabelOK
<1> QED
  BY <1>1, <1>2, <1>3, PTL DEF Spec

-----------------------------------------------------------------------------
(* The numbers of an upsert *)

InsertedBy(r) == {t \in table : t.run = r}

(* A run has rows in the table only after its commit.  What it counts as   *)
(* inserted are the positions its merge finds free, then its rows in the   *)
(* table, which later merges rewrite and never remove.                     *)
InsertsOK ==
  /\ \A t \in table : pc[t.run] \in {"finish", "done", "dead"}
  /\ config.strategy = "upsert" =>
       \A r \in Run :
         /\ pc[r] \in {"merge", "commit"} => RowsInserted(r) = Cardinality(Free(r))
         /\ pc[r] = "finish" => RowsInserted(r) = Cardinality(InsertedBy(r))
         /\ ledger[r].status = "SUCCEEDED" => ledger[r].inserted = Cardinality(InsertedBy(r))
  /\ \A r \in Run :
       /\ ledger[r].status = "SUCCEEDED" => pc[r] = "done"
       /\ \A t \in batch[r].inserts : t.run = r

(* A merge keeps the rows of every other run apart, and their number.      *)
LEMMA OthersKept ==
  ASSUME TInv, FiniteOK, LockOK, KeysOK, config.strategy = "upsert",
         NEW r \in Run, Commit(r), NEW s \in Run, s # r
  PROVE  Cardinality(InsertedBy(s)') = Cardinality(InsertedBy(s))
<1> DEFINE Upd(t) == [t EXCEPT !.row = Merged(r, t.row)]
           f == [t \in InsertedBy(s) |-> Upd(t)]
<1>1. table' = StoredAll(r, Free(r)) \union Updated(r)
  BY DEF KeysOK, Commit
<1>2. \A t \in table : Upd(t).run = t.run /\ Upd(t).row = Merged(r, t.row)
  BY DEF TInv, TypeOK, StoredRow
<1>3. \A n \in StoredAll(r, Free(r)) : n.run = r
  BY DEF StoredAll, Stored
<1>4. InsertedBy(s)' = {Upd(t) : t \in InsertedBy(s)}
  <2>1. Updated(r) = {Upd(t) : t \in table}
    BY DEF Updated
  <2> HIDE DEF Upd
  <2> QED
    BY <1>1, <1>2, <1>3, <2>1 DEF InsertedBy
<1>5. \A t, u \in InsertedBy(s) : Upd(t) = Upd(u) => t = u
  <2> SUFFICES ASSUME NEW t \in table, NEW u \in table, Upd(t) = Upd(u)
               PROVE  t = u
    BY DEF InsertedBy
  <2>1. SameKey(Merged(r, t.row), t.row, config.keys)
        /\ SameKey(Merged(r, u.row), u.row, config.keys)
    BY MergedKey
  <2>2. Merged(r, t.row) = Merged(r, u.row)
    BY <1>2
  <2>3. SameKey(t.row, u.row, config.keys)
    BY <2>1, <2>2 DEF SameKey
  <2> QED
    BY <2>3 DEF KeysOK, OneRowPerKey
<1>6. IsFiniteSet(InsertedBy(s))
  <2>1. InsertedBy(s) \in SUBSET table
    BY DEF InsertedBy
  <2> QED
    BY <2>1, FS_Subset DEF FiniteOK
<1> HIDE DEF Upd
<1>7. f \in Bijection(InsertedBy(s), InsertedBy(s)')
  BY <1>4, <1>5 DEF Bijection, Injection, IsInjective, Surjection
<1> QED
  BY <1>6, <1>7, FS_Bijection DEF ExistsBijection

LEMMA CommitInserts ==
  ASSUME TInv, FiniteOK, LockOK, KeysOK, InsertsOK, NEW r \in Run, Commit(r)
  PROVE  InsertsOK'
<1>1. pc'[r] = "finish" /\ pc[r] = "commit" /\ config' = config /\ ledger' = ledger
  BY DEF Commit, Goto, TInv, TypeOK
<1>2. \A s \in Run : s # r => pc'[s] = pc[s] /\ batch'[s] = batch[s]
  BY DEF Commit, Goto, TInv, TypeOK
<1>3. \A t \in table : t \in StoredRow
  BY DEF TInv, TypeOK
<1>4. ASSUME NEW t \in table'
      PROVE  pc'[t.run] \in {"finish", "done", "dead"}
  <2>1. CASE t \in batch[r].inserts
    <3>1. t.run = r
      <4>1. CASE config.strategy = "upsert"
        BY <1>1, <2>1, <4>1 DEF KeysOK, StoredAll, Stored
      <4>2. CASE config.strategy = "full"
        BY <1>1, <2>1, <4>2 DEF InsertsOK
      <4> QED
        BY <4>1, <4>2, Strategy
    <3> QED
      BY <1>1, <3>1
  <2>2. CASE t \in Updated(r)
    <3>1. PICK u \in table : t = [u EXCEPT !.row = Merged(r, u.row)]
      BY <2>2 DEF Updated
    <3>2. t.run = u.run /\ u.run \in Run
      BY <1>3, <3>1 DEF StoredRow
    <3> QED
      BY <1>1, <1>2, <3>2 DEF InsertsOK
  <2> QED
    BY <2>1, <2>2 DEF Commit
<1>5. ASSUME config.strategy = "upsert", NEW s \in Run
      PROVE  /\ pc'[s] \in {"merge", "commit"} => RowsInserted(s)' = Cardinality(Free(s))'
             /\ pc'[s] = "finish" => RowsInserted(s)' = Cardinality(InsertedBy(s))'
             /\ ledger'[s].status = "SUCCEEDED"
                  => ledger'[s].inserted = Cardinality(InsertedBy(s))'
  <2>1. CASE s # r
    <3>1. RowsInserted(s)' = RowsInserted(s)
      BY <1>2, <2>1 DEF RowsInserted
    <3>2. Cardinality(InsertedBy(s))' = Cardinality(InsertedBy(s))
      BY <1>5, <2>1, OthersKept
    <3>3. pc'[s] \notin {"merge", "commit"}
      BY <1>2, <2>1, CommitAlone
    <3> QED
      BY <1>1, <1>2, <1>5, <2>1, <3>1, <3>2, <3>3 DEF InsertsOK
  <2>2. CASE s = r
    <3>1. RowsInserted(r)' = RowsInserted(r)
      BY DEF Commit, RowsInserted, TInv, TypeOK, Batch
    <3>2. InsertedBy(r)' = StoredAll(r, Free(r))
      <4>1. table' = StoredAll(r, Free(r)) \union Updated(r)
        BY <1>5 DEF KeysOK, Commit
      <4>2. \A n \in StoredAll(r, Free(r)) : n.run = r
        BY DEF StoredAll, Stored
      <4>3. ASSUME NEW u \in table
            PROVE  [u EXCEPT !.row = Merged(r, u.row)].run # r
        BY <1>1, <1>3 DEF InsertsOK, StoredRow
      <4>4. \A n \in Updated(r) : n.run # r
        BY <4>3 DEF Updated
      <4> QED
        BY <4>1, <4>2, <4>4 DEF InsertedBy
    <3>3. Cardinality(StoredAll(r, Free(r))) = Cardinality(Free(r))
      <4>1. Free(r) \in SUBSET batch[r].valid
        BY DEF Free
      <4>2. IsFiniteSet(Free(r))
        BY <4>1, ValidSize, FS_Subset
      <4> QED
        BY <4>2, StoredBijection
    <3>4. ledger[r].status # "SUCCEEDED"
      BY <1>1 DEF InsertsOK
    <3> QED
      BY <1>1, <1>5, <2>2, <3>1, <3>2, <3>3, <3>4 DEF InsertsOK
  <2> QED
    BY <2>1, <2>2
<1>6. \A s \in Run : ledger'[s].status = "SUCCEEDED" => pc'[s] = "done"
  BY <1>1, <1>2 DEF InsertsOK
<1>7. \A s \in Run : \A t \in batch'[s].inserts : t.run = s
  <2>1. batch'[r].inserts = {}
    BY DEF Commit, TInv, TypeOK, Batch
  <2> QED
    BY <1>2, <2>1 DEF InsertsOK
<1> QED
  BY <1>1, <1>4, <1>5, <1>6, <1>7 DEF InsertsOK

LEMMA FreeCount ==
  ASSUME NEW r \in Run, batch'[r].delivery = batch[r].delivery,
         batch'[r].valid = batch[r].valid, table' = table, config' = config
  PROVE  Cardinality(Free(r))' = Cardinality(Free(r))
BY DEF Free, HasMatch, Matches

LEMMA InsertsRun ==
  ASSUME TInv, FiniteOK, LockOK, KeysOK, InsertsOK, NEW r \in Run, RunStep(r), ~ Commit(r)
  PROVE  InsertsOK'
<1>1. /\ table' = table /\ config' = config
      /\ \A s \in Run : s # r =>
           pc'[s] = pc[s] /\ batch'[s] = batch[s] /\ ledger'[s] = ledger[s]
  BY Frame
<1>2. \A s : InsertedBy(s)' = InsertedBy(s)
  BY <1>1 DEF InsertedBy
<1>3. pc[r] \in {"finish", "done", "dead"} => pc'[r] \in {"finish", "done", "dead"}
  BY DEF RunStep, StartRun, Extract, LockTable, InsertAll, CountMatches, Merge, Commit,
     FinishRun, FinishFailed, Close, FailRun, Die, AtWork, Goto, TInv, TypeOK
<1>4. \A t \in table : pc'[t.run] \in {"finish", "done", "dead"}
  <2>1. \A t \in table : t.run \in Run
    BY DEF TInv, TypeOK, StoredRow
  <2> QED
    BY <1>1, <1>3, <2>1 DEF InsertsOK
<1>5. \A s \in Run : s # r =>
        /\ RowsInserted(s)' = RowsInserted(s)
        /\ Cardinality(Free(s))' = Cardinality(Free(s))
  BY <1>1, FreeCount DEF RowsInserted
<1>6. \A t \in batch'[r].inserts : t.run = r
  <2>1. CASE InsertAll(r)
    BY <2>1 DEF InsertAll, Stored, TInv, TypeOK, Batch
  <2>2. CASE Merge(r)
    BY <2>2 DEF Merge, Stored, TInv, TypeOK, Batch
  <2>3. CASE StartRun(r) \/ LockTable(r)
    BY <2>3 DEF StartRun, LockTable, InsertsOK
  <2>4. CASE \E delivery \in Delivery : Extract(r, delivery)
    <3>1. batch'[r].inserts = batch[r].inserts
      BY <2>4 DEF Extract, TInv, TypeOK, Batch
    <3> QED
      BY <3>1 DEF InsertsOK
  <2>5. CASE CountMatches(r)
    <3>1. batch'[r].inserts = batch[r].inserts
      BY <2>5 DEF CountMatches, TInv, TypeOK, Batch
    <3> QED
      BY <3>1 DEF InsertsOK
  <2>6. CASE FailRun(r)
    <3>1. batch'[r].inserts = {}
      BY <2>6 DEF FailRun, TInv, TypeOK, Batch
    <3> QED
      BY <3>1
  <2>7. CASE FinishRun(r) \/ FinishFailed(r) \/ Die(r)
    <3>1. batch'[r] = NoBatch
      BY <2>7 DEF FinishRun, FinishFailed, Close, Die, TInv, TypeOK
    <3> QED
      BY <3>1 DEF NoBatch
  <2> QED
    BY <2>1, <2>2, <2>3, <2>4, <2>5, <2>6, <2>7 DEF RunStep
<1>7. ledger'[r].status = "SUCCEEDED" => pc'[r] = "done"
  <2>1. CASE StartRun(r)
    BY <2>1 DEF StartRun, TInv, TypeOK, LedgerRow
  <2>2. CASE FinishRun(r) \/ FinishFailed(r)
    BY <2>2 DEF FinishRun, FinishFailed, Close, Goto, TInv, TypeOK
  <2>3. CASE ~ (StartRun(r) \/ FinishRun(r) \/ FinishFailed(r))
    <3>1. ledger' = ledger /\ pc[r] # "done"
      BY <2>3 DEF RunStep, Extract, LockTable, InsertAll, CountMatches, Merge, FailRun, Die, AtWork
    <3> QED
      BY <3>1 DEF InsertsOK
  <2> QED
    BY <2>1, <2>2, <2>3
<1>8. ASSUME config.strategy = "upsert"
      PROVE  /\ pc'[r] \in {"merge", "commit"} => RowsInserted(r)' = Cardinality(Free(r))'
             /\ pc'[r] # "finish"
             /\ ledger'[r].status = "SUCCEEDED"
                  => ledger'[r].inserted = Cardinality(InsertedBy(r))
  <2>1. CASE CountMatches(r)
    <3> DEFINE matched == {i \in batch[r].valid : HasMatch(r, i)}
    <3>1. /\ batch'[r].delivery = batch[r].delivery /\ batch'[r].valid = batch[r].valid
          /\ batch'[r].updated = Cardinality(matched) /\ pc'[r] = "merge" /\ ledger' = ledger
          /\ pc[r] # "done"
      BY <2>1 DEF CountMatches, Goto, TInv, TypeOK, Batch
    <3>2. Free(r) = batch[r].valid \ matched /\ matched = batch[r].valid \cap matched
      BY DEF Free
    <3> HIDE DEF matched
    <3>3. Cardinality(Free(r)) = Cardinality(batch[r].valid) - Cardinality(matched)
      <4>1. Cardinality(batch[r].valid \ matched)
              = Cardinality(batch[r].valid) - Cardinality(batch[r].valid \cap matched)
        BY ValidSize, FS_Difference, Zenon
      <4> QED
        BY <3>2, <4>1
    <3>4. RowsInserted(r)' = Cardinality(batch[r].valid) - Cardinality(matched)
      BY <3>1 DEF RowsInserted
    <3> QED
      BY <1>1, <3>1, <3>3, <3>4, FreeCount DEF InsertsOK
  <2>2. CASE Merge(r)
    <3>1. /\ batch'[r].delivery = batch[r].delivery /\ batch'[r].valid = batch[r].valid
          /\ batch'[r].updated = batch[r].updated /\ pc'[r] = "commit" /\ ledger' = ledger
          /\ pc[r] = "merge"
      BY <2>2 DEF Merge, Goto, TInv, TypeOK, Batch
    <3>2. RowsInserted(r)' = RowsInserted(r)
      BY <3>1 DEF RowsInserted
    <3> QED
      BY <1>1, <1>8, <3>1, <3>2, FreeCount DEF InsertsOK
  <2>3. CASE FinishRun(r)
    <3>1. /\ pc'[r] = "done" /\ pc[r] = "finish"
          /\ ledger'[r].inserted = RowsInserted(r)
      BY <2>3 DEF FinishRun, Close, Goto, TInv, TypeOK, LedgerRow
    <3> QED
      BY <1>8, <3>1 DEF InsertsOK
  <2>4. CASE StartRun(r)
    BY <2>4 DEF StartRun, Goto, TInv, TypeOK, LedgerRow
  <2>5. CASE FinishFailed(r)
    BY <2>5 DEF FinishFailed, Close, Goto, TInv, TypeOK, LedgerRow
  <2>6. CASE InsertAll(r)
    BY <1>8, <2>6 DEF InsertAll, LockOK
  <2>7. CASE LockTable(r)
    BY <1>8, <2>7 DEF LockTable, Goto, InsertsOK, TInv, TypeOK
  <2>8. CASE FailRun(r) \/ Die(r) \/ \E delivery \in Delivery : Extract(r, delivery)
    <3>1. /\ pc'[r] \in {"failing", "dead", "lock"} /\ ledger' = ledger
          /\ pc[r] # "done"
      BY <2>8 DEF FailRun, Die, Extract, AtWork, Goto, TInv, TypeOK
    <3> QED
      BY <3>1 DEF InsertsOK
  <2> QED
    BY <2>1, <2>2, <2>3, <2>4, <2>5, <2>6, <2>7, <2>8 DEF RunStep
<1>9. ASSUME config.strategy = "upsert", NEW s \in Run
      PROVE  /\ pc'[s] \in {"merge", "commit"} => RowsInserted(s)' = Cardinality(Free(s))'
             /\ pc'[s] = "finish" => RowsInserted(s)' = Cardinality(InsertedBy(s))'
             /\ ledger'[s].status = "SUCCEEDED"
                  => ledger'[s].inserted = Cardinality(InsertedBy(s))'
  <2>1. CASE s = r
    BY <1>2, <1>8, <1>9, <2>1
  <2>2. CASE s # r
    BY <1>1, <1>2, <1>5, <1>9, <2>2 DEF InsertsOK
  <2> QED
    BY <2>1, <2>2
<1>10. \A s \in Run :
         /\ ledger'[s].status = "SUCCEEDED" => pc'[s] = "done"
         /\ \A t \in batch'[s].inserts : t.run = s
  BY <1>1, <1>6, <1>7 DEF InsertsOK
<1> QED
  BY <1>1, <1>4, <1>9, <1>10 DEF InsertsOK

LEMMA InsertsStep ==
  ASSUME TInv, FiniteOK, LockOK, KeysOK, InsertsOK, [Next]_vars
  PROVE  InsertsOK'
<1>1. CASE UNCHANGED <<config, ledger, pc, batch, table>>
  BY <1>1, FreeCount DEF InsertsOK, InsertedBy, RowsInserted
<1>2. CASE PreviewStep
  BY <1>1, <1>2, PreviewFrame
<1>3. CASE UNCHANGED vars
  BY <1>1, <1>3 DEF vars, runVars, tableVars
<1>4. ASSUME NEW r \in Run, RunStep(r)
      PROVE  InsertsOK'
  BY <1>4, InsertsRun, CommitInserts
<1> QED
  BY <1>2, <1>3, <1>4 DEF Next

LEMMA InsertsInit == Init => InsertsOK
BY DEF Init, InsertsOK, NoLedgerRow, NoBatch

(* rows_inserted of every successful upsert is the number of rows of the   *)
(* table that run brought, whatever ran beside it and since                *)
(* (postgres.py:654, 662, 679).                                            *)
THEOREM InsertsCorrect == Spec => []InsertsAreExplained
<1> DEFINE IInv == TInv /\ FiniteOK /\ LockOK /\ KeysOK /\ InsertsOK
<1>1. Init => IInv
  BY TInit, FiniteInit, KeysInit, InsertsInit
<1>2. IInv /\ [Next]_vars => IInv'
  BY TStep, LockStep, KeysStep, InsertsStep
<1>3. IInv => InsertsAreExplained
  BY DEF InsertsOK, InsertsAreExplained, InsertedBy, Succeeded
<1> QED
  BY <1>1, <1>2, <1>3, PTL DEF Spec

-----------------------------------------------------------------------------
(* The health of a dataset *)

\* Where a run is whose drift and contracts have let it through.
Admitted == {"lock", "write", "count", "merge", "commit", "finish"}

(* A run has no row before it starts and no outcome before it ends, and    *)
(* carries the verdict of the contracts from its extraction on.            *)
BatchOK ==
  \A r \in Run :
    /\ pc[r] = "new" <=> ledger[r].status = "NONE"
    /\ ledger[r].status = "SUCCEEDED" =>
         pc[r] = "done" /\ ledger[r].raw \in Delivery /\ ledger[r].drift # "FAILED"
    /\ pc[r] \in Admitted =>
         /\ batch[r].delivery \in Delivery /\ batch[r].drift # "FAILED"
         /\ batch[r].valid = ValidIndexes(config.contracts, batch[r].delivery.rows)
         /\ batch[r].quarantined = RowsQuarantined(config.contracts, batch[r].delivery.rows)
    /\ (config.strategy = "full" /\ pc[r] = "commit")
         => batch[r].inserts = StoredAll(r, batch[r].valid)

(* What finish_run writes to the row of the run it ends.                   *)
LEMMA Closed ==
  ASSUME TInv, NEW r \in Run, NEW status, NEW inserted, Close(r, status, inserted)
  PROVE  /\ pc'[r] = "done"
         /\ ledger'[r].status = status /\ ledger'[r].alone = ledger[r].alone
         /\ ledger'[r].quarantined = batch[r].quarantined
         /\ ledger'[r].drift = batch[r].drift /\ ledger'[r].raw = batch[r].delivery
<1> DEFINE place == 1 + Cardinality({s \in Run : ledger[s].finished # 0})
<1>1. ledger'[r] = [ledger[r] EXCEPT !.status = status,
                 !.finished = place,
                 !.quarantined = batch[r].quarantined,
                 !.inserted = inserted,
                 !.drift = batch[r].drift,
                 !.raw = batch[r].delivery]
  BY DEF Close, TInv, TypeOK
<1>2. ledger[r] \in LedgerRow
  BY DEF TInv, TypeOK
<1>3. pc'[r] = "done"
  BY DEF Close, Goto, TInv, TypeOK
<1> HIDE DEF place
<1> QED
  BY <1>1, <1>2, <1>3 DEF LedgerRow

\* What happens to the place of a run and to its row in a step of its own.
LEMMA OwnStep ==
  ASSUME TInv, NEW r \in Run, RunStep(r)
  PROVE  /\ pc[r] \notin {"done", "dead"} /\ pc'[r] # "new"
         /\ pc[r] = "new" <=> StartRun(r)
         /\ ~ StartRun(r) => ledger'[r].alone = ledger[r].alone
         /\ ~ (StartRun(r) \/ FinishRun(r) \/ FinishFailed(r)) => ledger' = ledger
<1>1. CASE StartRun(r)
  BY <1>1 DEF StartRun, Goto, TInv, TypeOK
<1>2. CASE \E delivery \in Delivery : Extract(r, delivery)
  BY <1>2 DEF Extract, StartRun, Goto, TInv, TypeOK
<1>3. CASE LockTable(r) \/ InsertAll(r)
  BY <1>3 DEF LockTable, InsertAll, StartRun, Goto, TInv, TypeOK
<1>4. CASE CountMatches(r) \/ Merge(r) \/ Commit(r)
  BY <1>4 DEF CountMatches, Merge, Commit, StartRun, Goto, TInv, TypeOK
<1>5. CASE FinishRun(r) \/ FinishFailed(r)
  <2>1. ledger'[r].alone = ledger[r].alone /\ pc'[r] = "done"
    BY <1>5, Closed DEF FinishRun, FinishFailed
  <2>2. pc[r] \in {"finish", "failing"}
    BY <1>5 DEF FinishRun, FinishFailed
  <2>3. StartRun(r) => pc[r] = "new"
    BY DEF StartRun
  <2> QED
    BY <1>5, <2>1, <2>2, <2>3
<1>6. CASE FailRun(r) \/ Die(r)
  BY <1>6 DEF FailRun, Die, AtWork, StartRun, Goto, TInv, TypeOK
<1> QED
  BY <1>1, <1>2, <1>3, <1>4, <1>5, <1>6 DEF RunStep

LEMMA StoredSame ==
  ASSUME NEW r, batch'[r].delivery = batch[r].delivery, batch'[r].valid = batch[r].valid
  PROVE  StoredAll(r, batch[r].valid)' = StoredAll(r, batch[r].valid)
<1>1. \A i : Stored(r, i)' = Stored(r, i)
  BY DEF Stored
<1> QED
  BY <1>1 DEF StoredAll

(* The step of an extraction that lets the run through.                    *)
LEMMA ExtractAdmits ==
  ASSUME TInv, NEW r \in Run, NEW delivery \in Delivery, Extract(r, delivery),
         pc'[r] \in Admitted
  PROVE  /\ pc'[r] = "lock" /\ DriftOf(delivery) # "FAILED"
         /\ batch'[r].delivery = delivery
         /\ batch'[r].valid = ValidIndexes(config.contracts, delivery.rows)
         /\ batch'[r].quarantined = RowsQuarantined(config.contracts, delivery.rows)
         /\ batch'[r].drift = DriftOf(delivery)
<1>1. DriftOf(delivery) # "FAILED" /\ pc'[r] = "lock"
  BY DEF Extract, Goto, Admitted, TInv, TypeOK
<1>2. batch'[r] = [batch[r] EXCEPT !.delivery = delivery,
                     !.valid = ValidIndexes(config.contracts, delivery.rows),
                     !.quarantined = RowsQuarantined(config.contracts, delivery.rows),
                     !.drift = DriftOf(delivery)]
  BY <1>1 DEF Extract, TInv, TypeOK
<1> QED
  BY <1>1, <1>2 DEF TInv, TypeOK, Batch

LEMMA BatchStep ==
  ASSUME TInv, LockOK, BatchOK, [Next]_vars
  PROVE  BatchOK'
<1>1. CASE UNCHANGED <<config, ledger, pc, batch>>
  <2>1. \A r \in Run : StoredAll(r, batch[r].valid)' = StoredAll(r, batch[r].valid)
    BY <1>1, StoredSame
  <2> QED
    BY <1>1, <2>1 DEF BatchOK
<1>2. ASSUME NEW r \in Run, RunStep(r)
      PROVE  BatchOK'
  <2>1. /\ config' = config
        /\ \A s \in Run : s # r =>
             pc'[s] = pc[s] /\ batch'[s] = batch[s] /\ ledger'[s] = ledger[s]
    BY <1>2, Frame
  <2>2. /\ pc'[r] = "new" <=> ledger'[r].status = "NONE"
        /\ ledger'[r].status = "SUCCEEDED" =>
             pc'[r] = "done" /\ ledger'[r].raw \in Delivery /\ ledger'[r].drift # "FAILED"
    <3>1. CASE StartRun(r)
      BY <3>1 DEF StartRun, Goto, TInv, TypeOK, LedgerRow
    <3>2. CASE FinishRun(r) \/ FinishFailed(r)
      <4>1. /\ pc'[r] = "done" /\ ledger'[r].raw = batch[r].delivery
            /\ ledger'[r].drift = batch[r].drift
        BY <3>2, Closed DEF FinishRun, FinishFailed
      <4>2. CASE FinishRun(r)
        <5>1. ledger'[r].status = "SUCCEEDED"
          BY <4>2, Closed DEF FinishRun
        <5>2. batch[r].delivery \in Delivery /\ batch[r].drift # "FAILED"
          BY <4>2 DEF FinishRun, Admitted, BatchOK
        <5> QED
          BY <4>1, <5>1, <5>2
      <4>3. CASE FinishFailed(r)
        <5>1. ledger'[r].status = "FAILED"
          BY <4>3, Closed DEF FinishFailed
        <5> QED
          BY <4>1, <5>1
      <4> QED
        BY <3>2, <4>2, <4>3
    <3> QED
      BY <1>2, <3>1, <3>2, OwnStep DEF BatchOK
  <2>3. ASSUME pc'[r] \in Admitted
        PROVE  /\ batch'[r].delivery \in Delivery /\ batch'[r].drift # "FAILED"
               /\ batch'[r].valid = ValidIndexes(config.contracts, batch'[r].delivery.rows)
               /\ batch'[r].quarantined
                    = RowsQuarantined(config.contracts, batch'[r].delivery.rows)
    <3>1. CASE \E delivery \in Delivery : Extract(r, delivery)
      BY <2>3, <3>1, ExtractAdmits
    <3>2. CASE LockTable(r) \/ InsertAll(r) \/ CountMatches(r) \/ Merge(r) \/ Commit(r)
      <4>1. /\ batch'[r].delivery = batch[r].delivery /\ batch'[r].valid = batch[r].valid
            /\ batch'[r].quarantined = batch[r].quarantined /\ batch'[r].drift = batch[r].drift
        BY <3>2 DEF LockTable, InsertAll, CountMatches, Merge, Commit, TInv, TypeOK, Batch
      <4>2. pc[r] \in Admitted
        BY <3>2 DEF LockTable, InsertAll, CountMatches, Merge, Commit, Admitted
      <4> QED
        BY <4>1, <4>2 DEF BatchOK
    <3>3. CASE StartRun(r) \/ FinishRun(r) \/ FinishFailed(r) \/ FailRun(r) \/ Die(r)
      <4>1. pc'[r] \in {"extract", "done", "failing", "dead"}
        BY <3>3 DEF StartRun, FinishRun, FinishFailed, Close, FailRun, Die, Goto, TInv, TypeOK
      <4> QED
        BY <2>3, <4>1 DEF Admitted
    <3> QED
      BY <1>2, <3>1, <3>2, <3>3 DEF RunStep
  <2>4. ASSUME config.strategy = "full", pc'[r] = "commit"
        PROVE  batch'[r].inserts = StoredAll(r, batch[r].valid)'
    <3>1. CASE InsertAll(r)
      <4>1. /\ batch'[r].delivery = batch[r].delivery /\ batch'[r].valid = batch[r].valid
            /\ batch'[r].inserts = StoredAll(r, batch[r].valid)
        BY <3>1 DEF InsertAll, StoredAll, TInv, TypeOK, Batch
      <4> QED
        BY <4>1, StoredSame
    <3>2. CASE Merge(r)
      BY <2>4, <3>2 DEF Merge, LockOK
    <3>3. CASE ~ InsertAll(r) /\ ~ Merge(r)
      <4>1. pc'[r] # "commit"
        BY <1>2, <3>3 DEF RunStep, StartRun, Extract, LockTable, CountMatches, Commit,
           FinishRun, FinishFailed, Close, FailRun, Die, Goto, TInv, TypeOK
      <4> QED
        BY <2>4, <4>1
    <3> QED
      BY <3>1, <3>2, <3>3
  <2>5. \A s \in Run : s # r => StoredAll(s, batch[s].valid)' = StoredAll(s, batch[s].valid)
    BY <2>1, StoredSame
  <2> QED
    BY <2>1, <2>2, <2>3, <2>4, <2>5 DEF BatchOK
<1> QED
  BY <1>1, <1>2, PreviewFrame DEF Next, vars, runVars

-----------------------------------------------------------------------------
(* The run health is about *)

\* The newest run, when it found no other at work.
Sole(r) ==
  /\ pc[r] # "new" /\ ledger[r].alone
  /\ \A s \in Run : r < s => pc[s] = "new"

(* The runs before it have ended, so it is the only one that acts.         *)
SoleOK == \A r \in Run : Sole(r) => \A s \in Run : s < r => pc[s] \in {"done", "dead"}

LEMMA OnlySoleActs ==
  ASSUME TInv, SoleOK, NEW r \in Run, Sole(r)', NEW q \in Run, RunStep(q)
  PROVE  /\ q = r
         /\ ~ StartRun(r) => Sole(r)
<1>1. pc'[q] # "new" /\ pc[q] \notin {"done", "dead"}
  BY OwnStep
<1>2. \A s \in Run : s # q => pc'[s] = pc[s] /\ ledger'[s] = ledger[s]
  BY Frame
<1>3. ~ (r < q)
  BY <1>1 DEF Sole
<1>4. ASSUME q # r
      PROVE  FALSE
  <2>1. Sole(r)
    BY <1>2, <1>3, <1>4 DEF Sole
  <2>2. q < r
    BY <1>3, <1>4
  <2> QED
    BY <1>1, <2>1, <2>2 DEF SoleOK
<1>5. ASSUME ~ StartRun(r), q = r
      PROVE  Sole(r)
  <2>1. pc[r] # "new" /\ ledger'[r].alone = ledger[r].alone
    BY <1>5, OwnStep
  <2> QED
    BY <1>2, <1>5, <2>1 DEF Sole
<1> QED
  BY <1>4, <1>5

LEMMA SoleStep ==
  ASSUME TInv, SoleOK, [Next]_vars
  PROVE  SoleOK'
<1>1. CASE UNCHANGED <<ledger, pc>>
  BY <1>1 DEF SoleOK, Sole
<1>2. ASSUME NEW q \in Run, RunStep(q)
      PROVE  SoleOK'
  <2> SUFFICES ASSUME NEW r \in Run, Sole(r)', NEW s \in Run, s < r
               PROVE  pc'[s] \in {"done", "dead"}
    BY DEF SoleOK
  <2>1. q = r
    BY <1>2, OnlySoleActs
  <2>2. pc'[s] = pc[s]
    BY <1>2, <2>1, Frame
  <2>3. CASE StartRun(r)
    <3>1. pc[s] # "new"
      BY <2>3 DEF StartRun
    <3>2. AtWork = {}
      <4>1. ledger'[r].alone = (AtWork = {})
        BY <2>3 DEF StartRun, TInv, TypeOK, LedgerRow
      <4> QED
        BY <4>1 DEF Sole
    <3> QED
      BY <2>2, <3>1, <3>2 DEF AtWork
  <2>4. CASE ~ StartRun(r)
    BY <1>2, <2>2, <2>4, OnlySoleActs DEF SoleOK
  <2> QED
    BY <2>3, <2>4
<1> QED
  BY <1>1, <1>2, PreviewFrame DEF Next, vars, runVars

-----------------------------------------------------------------------------
(* The schema a success keeps *)

(* No success came before the run, or its raw schema is that of the last,  *)
(* when the drift found says so and the policies let nothing pass.         *)
SchemaKept(r, delivery, drift) ==
  LET before == LastOf(Succeeded \ {r}) IN
  (/\ before # 0
   /\ drift \notin {"WARN", "FAILED"}
   /\ DistinctNames(RawSchema(delivery))
   /\ \A change \in DOMAIN config.policies : config.policies[change] # "allow")
    => RawSchema(delivery) = RawSchema(ledger[before].raw)

RawField == UNION {Range(RawSchema(delivery)) : delivery \in Delivery}

LEMMA RawSchemaType ==
  ASSUME NEW delivery \in Delivery
  PROVE  RawSchema(delivery) \in Seq(RawField) /\ RawSchema(delivery) # << >>
<1>1. PICK n \in Nat \ {0} : DOMAIN delivery.header = 1..n
  <2>1. /\ delivery.header \in Seq(Range(delivery.header))
        /\ delivery.header # << >>
    BY DeliveryAssumption
  <2>2. Len(delivery.header) \in Nat \ {0} /\ DOMAIN delivery.header = 1..Len(delivery.header)
    BY <2>1
  <2> QED
    BY <2>2
<1>2. DOMAIN RawSchema(delivery) = 1..n
  BY <1>1 DEF RawSchema, RawCsvFingerprint
<1>3. RawSchema(delivery) = [i \in 1..n |-> RawSchema(delivery)[i]]
  BY <1>1 DEF RawSchema, RawCsvFingerprint
<1>4. \A i \in 1..n : RawSchema(delivery)[i] \in RawField
  BY <1>2 DEF RawField, Range
<1> HIDE DEF RawSchema
<1>5. RawSchema(delivery) \in [1..n -> RawField]
  BY <1>3, <1>4
<1> QED
  BY <1>2, <1>5

LEMMA RawFieldType ==
  ASSUME NEW field \in RawField
  PROVE  field = [name |-> field.name, datatype |-> field.datatype]
<1>1. PICK delivery \in Delivery : field \in Range(RawSchema(delivery))
  BY DEF RawField
<1>2. PICK i \in DOMAIN delivery.header : field = RawSchema(delivery)[i]
  BY <1>1 DEF Range, RawSchema, RawCsvFingerprint
<1> QED
  BY <1>2 DEF RawSchema, RawCsvFingerprint

LEMMA LastSame ==
  ASSUME NEW runs, \A t \in runs : ledger'[t].finished = ledger[t].finished
  PROVE  LastOf(runs)' = LastOf(runs)
<1>1. PICK old, new : old = ledger /\ new = ledger'
  OBVIOUS
<1>2. \A s : (s \in runs /\ \A t \in runs : new[t].finished <= new[s].finished)
               <=> (s \in runs /\ \A t \in runs : old[t].finished <= old[s].finished)
  BY <1>1
<1>3. (CHOOSE s \in runs : \A t \in runs : new[t].finished <= new[s].finished)
        = (CHOOSE s \in runs : \A t \in runs : old[t].finished <= old[s].finished)
  BY <1>2
<1>4. CASE runs = {}
  BY <1>4 DEF LastOf
<1>5. CASE runs # {}
  <2>1. LastOf(runs) = CHOOSE s \in runs : \A t \in runs : old[t].finished <= old[s].finished
    BY <1>1, <1>5 DEF LastOf
  <2>2. LastOf(runs)' = CHOOSE s \in runs : \A t \in runs : new[t].finished <= new[s].finished
    BY <1>1, <1>5 DEF LastOf
  <2> QED
    BY <1>3, <2>1, <2>2
<1> QED
  BY <1>4, <1>5

(* What a run does to its own row is nothing to the success before it.     *)
LEMMA KeptSame ==
  ASSUME TInv, NEW r, NEW delivery, NEW drift, config' = config,
         \A s \in Run : s # r => ledger'[s] = ledger[s]
  PROVE  SchemaKept(r, delivery, drift)' <=> SchemaKept(r, delivery, drift)
<1>1. PICK runs : runs = Succeeded \ {r}
  OBVIOUS
<1>2. (Succeeded \ {r})' = runs /\ runs \in SUBSET Run
  BY <1>1 DEF Succeeded
<1>3. LastOf(runs)' = LastOf(runs)
  <2>1. \A t \in runs : ledger'[t].finished = ledger[t].finished
    BY <1>1, <1>2
  <2> QED
    BY <2>1, LastSame
<1>4. LastOf(Succeeded \ {r})' = LastOf(Succeeded \ {r})
  BY <1>1, <1>2, <1>3
<1>5. LastOf(runs) # 0 => LastOf(runs) \in runs
  <2>1. CASE runs = {}
    BY <2>1 DEF LastOf
  <2>2. CASE runs # {}
    BY <1>2, <2>2, LastExists DEF TInv, TypeOK
  <2> QED
    BY <2>1, <2>2
<1>6. LastOf(runs) # 0 => ledger'[LastOf(runs)] = ledger[LastOf(runs)]
  BY <1>1, <1>2, <1>5
<1> QED
  BY <1>1, <1>4, <1>6 DEF SchemaKept

(* At its extraction a run has no row of success itself, so the baseline   *)
(* it compares with is that of the success before it.                      *)
LEMMA KeptAtExtract ==
  ASSUME TInv, BatchOK, NEW r \in Run, pc[r] = "extract", NEW delivery \in Delivery
  PROVE  SchemaKept(r, delivery, DriftOf(delivery))
<1> DEFINE before == LastOf(Succeeded \ {r})
<1> SUFFICES ASSUME before # 0,
                    DriftOf(delivery) \notin {"WARN", "FAILED"},
                    DistinctNames(RawSchema(delivery)),
                    \A change \in DOMAIN config.policies : config.policies[change] # "allow",
                    RawSchema(delivery) # RawSchema(ledger[before].raw)
             PROVE  FALSE
  BY DEF SchemaKept
<1>1. Succeeded \ {r} = Succeeded
  BY DEF Succeeded, BatchOK
<1>2. before = LastSuccess
  BY <1>1 DEF LastSuccess
<1>3. before \in Run /\ ledger[before].raw \in Delivery
  <2>1. before \in Succeeded
    BY <1>2, LastSuccessType DEF TInv, TypeOK
  <2> QED
    BY <2>1 DEF Succeeded, BatchOK
<1>4. PICK old, new, policies :
        /\ old = RawSchema(ledger[before].raw) /\ new = RawSchema(delivery)
        /\ policies = config.policies
  OBVIOUS
<1>5. Baseline = old
  BY <1>2, <1>4 DEF Baseline
<1>6. old \in Seq(RawField) /\ new \in Seq(RawField) /\ old # NoFingerprint
  BY <1>3, <1>4, RawSchemaType DEF NoFingerprint
<1>7. policies \in Policies
  BY <1>4, ConfigAssumption DEF TInv, TypeOK
<1>8. PICK canonical : canonical = config.canonical
  OBVIOUS
<1>9. DriftStatus(DetectSchemaDrift(old, new, canonical, canonical, policies))
        \in {"WARN", "FAILED"}
  <2>1. \A field \in RawField : field = [name |-> field.name, datatype |-> field.datatype]
    BY RawFieldType
  <2>2. /\ DistinctNames(new) /\ old # new
        /\ \A change \in DOMAIN policies : policies[change] # "allow"
    BY <1>4
  <2> QED
    BY <1>6, <1>7, <2>1, <2>2, ChangeIsReported
<1> QED
  BY <1>4, <1>5, <1>8, <1>9 DEF DriftOf

-----------------------------------------------------------------------------
(* What a commit leaves in the table *)

LEMMA AllValid ==
  ASSUME BatchOK, NEW r \in Run, pc[r] \in Admitted, batch[r].quarantined = 0
  PROVE  batch[r].valid = DOMAIN batch[r].delivery.rows
<1>1. /\ batch[r].delivery \in Delivery
      /\ batch[r].valid = ValidIndexes(config.contracts, batch[r].delivery.rows)
      /\ RowsQuarantined(config.contracts, batch[r].delivery.rows) = 0
  BY DEF BatchOK
<1>2. PICK invalid : invalid = InvalidIndexes(config.contracts, batch[r].delivery.rows)
  OBVIOUS
<1>3. invalid \in SUBSET DOMAIN batch[r].delivery.rows
  BY <1>2 DEF InvalidIndexes, Failures
<1>4. IsFiniteSet(invalid)
  BY <1>1, <1>3, BatchSize, FS_Subset
<1>5. invalid = {}
  BY <1>1, <1>2, <1>4, FS_EmptySet DEF RowsQuarantined
<1> QED
  BY <1>1, <1>2, <1>5 DEF ValidIndexes

(* A merge leaves a row of the delivery for each of its keys: inserted, or *)
(* in the place of the row it matched.                                     *)
LEMMA MergedRow ==
  ASSUME TInv, KeysOK, config.strategy = "upsert", NEW r \in Run, Commit(r),
         NEW i \in batch[r].valid
  PROVE  \E n \in table' : n.row = batch[r].delivery.rows[i]
<1> DEFINE rows == batch[r].delivery.rows
<1>1. table' = StoredAll(r, Free(r)) \union Updated(r)
  BY DEF KeysOK, Commit
<1>2. CASE i \in Free(r)
  <2>1. Stored(r, i) \in StoredAll(r, Free(r)) /\ Stored(r, i).row = rows[i]
    BY <1>2 DEF StoredAll, Stored
  <2> QED
    BY <1>1, <2>1
<1>3. CASE i \notin Free(r)
  <2>1. PICK t \in table : Matches(rows[i], t.row)
    BY <1>3 DEF Free, HasMatch
  <2>2. PICK j \in batch[r].valid : Matches(rows[j], t.row) /\ Merged(r, t.row) = rows[j]
    BY <2>1 DEF Merged
  <2>3. SameKey(rows[i], rows[j], config.keys)
    BY <2>1, <2>2 DEF Matches, SameKey
  <2>4. i = j
    BY <2>3 DEF KeysOK, UpsertAccepts, Commit
  <2>5. [t EXCEPT !.row = Merged(r, t.row)].row = Merged(r, t.row)
    <3>1. t \in StoredRow
      BY DEF TInv, TypeOK
    <3> QED
      BY <3>1 DEF StoredRow
  <2>6. [t EXCEPT !.row = Merged(r, t.row)] \in Updated(r)
    BY DEF Updated
  <2> QED
    BY <1>1, <2>2, <2>4, <2>5, <2>6
<1> QED
  BY <1>2, <1>3

LEMMA CommitReflects ==
  ASSUME TInv, LockOK, KeysOK, BatchOK, NEW r \in Run, Commit(r),
         batch[r].quarantined = 0, NEW delivery, delivery = batch[r].delivery
  PROVE  Reflects(delivery, r)'
<1>1. config' = config /\ pc[r] = "commit" /\ batch[r].valid = DOMAIN delivery.rows
  <2>1. pc[r] \in Admitted
    BY DEF Commit, Admitted
  <2> QED
    BY <2>1, AllValid DEF Commit
<1>2. CASE config.strategy = "full"
  <2>1. table' = StoredAll(r, DOMAIN delivery.rows)
    BY <1>1, <1>2 DEF Commit, BatchOK
  <2>2. StoredAll(r, DOMAIN delivery.rows)
          = {[run |-> r, at |-> i, row |-> delivery.rows[i]] : i \in DOMAIN delivery.rows}
    BY DEF StoredAll, Stored
  <2> QED
    BY <1>1, <1>2, <2>1, <2>2 DEF Reflects
<1>3. CASE config.strategy = "upsert"
  <2>1. \A t, u \in table' : SameKey(t.row, u.row, config.keys) => t = u
    BY <1>1, <1>3, CommitKeys DEF OneRowPerKey
  <2>2. ASSUME NEW i \in DOMAIN delivery.rows
        PROVE  {t.row : t \in {t \in table' : Matches(t.row, delivery.rows[i])}}
                 = {delivery.rows[i]}
    <3>1. PICK n \in table' : n.row = delivery.rows[i]
      BY <1>1, <1>3, MergedRow
    <3>2. Whole(delivery.rows[i], config.keys)
      BY <1>1, <1>3 DEF KeysOK, UpsertAccepts
    <3>3. Matches(n.row, delivery.rows[i])
      BY <3>1, <3>2 DEF Matches, SameKey
    <3>4. \A t \in table' : Matches(t.row, delivery.rows[i]) => t = n
      BY <2>1, <3>1 DEF Matches
    <3> QED
      BY <3>1, <3>3, <3>4
  <2>3. \A i \in DOMAIN delivery.rows :
          {t.row : t \in {t \in table' : Matches(t.row, delivery.rows[i])'}}
             = {delivery.rows[i]}
    BY <1>1, <2>2 DEF Matches
  <2> QED
    BY <1>1, <1>3, <2>3 DEF Reflects
<1> QED
  BY <1>2, <1>3, Strategy

-----------------------------------------------------------------------------
(* What the sole run at work, or the last to have been, has come to *)

HealthOK ==
  \A r \in Run : Sole(r) =>
    /\ pc[r] \in Admitted => SchemaKept(r, batch[r].delivery, batch[r].drift)
    /\ (pc[r] = "finish" /\ batch[r].quarantined = 0) => Reflects(batch[r].delivery, r)
    /\ ledger[r].status = "SUCCEEDED" =>
         /\ ledger[r].quarantined = 0 => Reflects(ledger[r].raw, r)
         /\ SchemaKept(r, ledger[r].raw, ledger[r].drift)

LEMMA ReflectsSame ==
  ASSUME NEW r, NEW delivery, config' = config, table' = table
  PROVE  Reflects(delivery, r)' <=> Reflects(delivery, r)
BY DEF Reflects, Matches

LEMMA HealthFrame ==
  ASSUME TInv, HealthOK, UNCHANGED <<config, ledger, pc, batch, table>>
  PROVE  HealthOK'
<1> SUFFICES ASSUME NEW r \in Run, Sole(r)'
             PROVE  /\ pc[r] \in Admitted => SchemaKept(r, batch[r].delivery, batch[r].drift)'
                    /\ (pc[r] = "finish" /\ batch[r].quarantined = 0)
                         => Reflects(batch[r].delivery, r)'
                    /\ ledger[r].status = "SUCCEEDED" =>
                         /\ ledger[r].quarantined = 0 => Reflects(ledger[r].raw, r)'
                         /\ SchemaKept(r, ledger[r].raw, ledger[r].drift)'
  BY DEF HealthOK
<1>1. Sole(r)
  BY DEF Sole
<1>2. PICK d, e, x, y : /\ d = batch[r].delivery /\ e = ledger[r].raw
                        /\ x = batch[r].drift /\ y = ledger[r].drift
  OBVIOUS
<1>3. /\ Reflects(d, r)' <=> Reflects(d, r)
      /\ Reflects(e, r)' <=> Reflects(e, r)
  BY ReflectsSame
<1>4. /\ SchemaKept(r, d, x)' <=> SchemaKept(r, d, x)
      /\ SchemaKept(r, e, y)' <=> SchemaKept(r, e, y)
  BY KeptSame
<1> QED
  BY <1>1, <1>2, <1>3, <1>4 DEF HealthOK

LEMMA HealthRun ==
  ASSUME TInv, LockOK, KeysOK, BatchOK, HealthOK, NEW r \in Run, RunStep(r),
         StartRun(r) \/ Sole(r)
  PROVE  /\ pc'[r] \in Admitted => SchemaKept(r, batch[r].delivery, batch[r].drift)'
         /\ (pc'[r] = "finish" /\ batch'[r].quarantined = 0)
              => Reflects(batch[r].delivery, r)'
         /\ ledger'[r].status = "SUCCEEDED" =>
              /\ ledger'[r].quarantined = 0 => Reflects(ledger[r].raw, r)'
              /\ SchemaKept(r, ledger[r].raw, ledger[r].drift)'
<1>1. config' = config /\ \A s \in Run : s # r => ledger'[s] = ledger[s]
  BY Frame
<1>2. \A delivery, drift : SchemaKept(r, delivery, drift)' <=> SchemaKept(r, delivery, drift)
  BY <1>1, KeptSame
<1>3. CASE StartRun(r)
  <2>1. pc'[r] = "extract" /\ ledger'[r].status = "RUNNING"
    BY <1>3 DEF StartRun, Goto, TInv, TypeOK, LedgerRow
  <2> QED
    BY <2>1 DEF Admitted
<1>4. CASE \E delivery \in Delivery : Extract(r, delivery)
  <2>1. PICK delivery \in Delivery : Extract(r, delivery)
    BY <1>4
  <2>2. pc'[r] # "finish" /\ ledger'[r].status # "SUCCEEDED" /\ pc[r] = "extract"
    BY <2>1 DEF Extract, Goto, TInv, TypeOK, BatchOK
  <2>3. ASSUME pc'[r] \in Admitted
        PROVE  SchemaKept(r, batch[r].delivery, batch[r].drift)'
    <3>1. PICK drift : drift = DriftOf(delivery)
      OBVIOUS
    <3>2. batch'[r].delivery = delivery /\ batch'[r].drift = drift
      BY <2>1, <2>3, <3>1, ExtractAdmits
    <3>3. SchemaKept(r, delivery, drift)'
      BY <1>2, <2>2, <3>1, KeptAtExtract
    <3> QED
      BY <3>2, <3>3
  <2> QED
    BY <2>2, <2>3
<1>5. CASE LockTable(r) \/ InsertAll(r) \/ CountMatches(r) \/ Merge(r) \/ Commit(r)
  <2>1. PICK delivery, drift : delivery = batch[r].delivery /\ drift = batch[r].drift
    OBVIOUS
  <2>2. /\ batch'[r].delivery = delivery /\ batch'[r].drift = drift
        /\ batch'[r].quarantined = batch[r].quarantined
    BY <1>5, <2>1 DEF LockTable, InsertAll, CountMatches, Merge, Commit, TInv, TypeOK, Batch
  <2>3. pc[r] \in Admitted /\ ledger' = ledger /\ ledger[r].status # "SUCCEEDED"
    BY <1>5 DEF LockTable, InsertAll, CountMatches, Merge, Commit, Admitted, BatchOK
  <2>4. SchemaKept(r, delivery, drift)'
    <3>1. Sole(r)
      BY <2>3 DEF StartRun, Admitted
    <3> QED
      BY <1>2, <2>1, <2>3, <3>1 DEF HealthOK
  <2>5. SchemaKept(r, batch[r].delivery, batch[r].drift)'
    BY <2>2, <2>4
  <2>6. ASSUME pc'[r] = "finish", batch'[r].quarantined = 0
        PROVE  Reflects(batch[r].delivery, r)'
    <3>1. Commit(r)
      BY <1>5, <2>6 DEF LockTable, InsertAll, CountMatches, Merge, Goto, TInv, TypeOK
    <3>2. Reflects(delivery, r)'
      BY <2>1, <2>2, <2>6, <3>1, CommitReflects
    <3> QED
      BY <2>2, <3>2
  <2> QED
    BY <2>3, <2>5, <2>6
<1>6. CASE FinishRun(r)
  <2>1. PICK delivery, drift : delivery = batch[r].delivery /\ drift = batch[r].drift
    OBVIOUS
  <2>2. /\ pc'[r] = "done" /\ ledger'[r].quarantined = batch[r].quarantined
        /\ ledger'[r].raw = delivery /\ ledger'[r].drift = drift
    BY <1>6, <2>1, Closed DEF FinishRun
  <2>3. pc[r] = "finish" /\ table' = table /\ Sole(r)
    BY <1>6 DEF FinishRun, Close, StartRun, tableVars
  <2>4. SchemaKept(r, delivery, drift)'
    BY <1>2, <2>1, <2>3 DEF HealthOK, Admitted
  <2>5. ledger'[r].quarantined = 0 => Reflects(delivery, r)'
    BY <1>1, <2>1, <2>2, <2>3, ReflectsSame DEF HealthOK
  <2>6. SchemaKept(r, ledger[r].raw, ledger[r].drift)'
    BY <2>2, <2>4
  <2>7. ledger'[r].quarantined = 0 => Reflects(ledger[r].raw, r)'
    BY <2>2, <2>5
  <2> QED
    BY <2>2, <2>6, <2>7 DEF Admitted
<1>7. CASE FinishFailed(r)
  <2>1. pc'[r] = "done" /\ ledger'[r].status = "FAILED"
    BY <1>7, Closed DEF FinishFailed
  <2> QED
    BY <2>1 DEF Admitted
<1>8. CASE FailRun(r) \/ Die(r)
  <2>1. pc'[r] \in {"failing", "dead"} /\ ledger' = ledger /\ pc[r] # "done"
    BY <1>8 DEF FailRun, Die, AtWork, Goto, TInv, TypeOK
  <2> QED
    BY <2>1 DEF Admitted, BatchOK
<1> QED
  BY <1>3, <1>4, <1>5, <1>6, <1>7, <1>8 DEF RunStep

LEMMA HealthStep ==
  ASSUME TInv, LockOK, KeysOK, BatchOK, SoleOK, HealthOK, [Next]_vars
  PROVE  HealthOK'
<1>1. CASE UNCHANGED <<config, ledger, pc, batch, table>>
  BY <1>1, HealthFrame
<1>2. ASSUME NEW q \in Run, RunStep(q)
      PROVE  HealthOK'
  <2> SUFFICES ASSUME NEW r \in Run, Sole(r)'
               PROVE  /\ pc'[r] \in Admitted => SchemaKept(r, batch[r].delivery, batch[r].drift)'
                      /\ (pc'[r] = "finish" /\ batch'[r].quarantined = 0)
                           => Reflects(batch[r].delivery, r)'
                      /\ ledger'[r].status = "SUCCEEDED" =>
                           /\ ledger'[r].quarantined = 0 => Reflects(ledger[r].raw, r)'
                           /\ SchemaKept(r, ledger[r].raw, ledger[r].drift)'
    BY DEF HealthOK
  <2>1. q = r /\ (StartRun(r) \/ Sole(r))
    BY <1>2, OnlySoleActs
  <2>2. RunStep(r)
    BY <1>2, <2>1
  <2> QED
    BY <2>1, <2>2, HealthRun
<1> QED
  BY <1>1, <1>2, PreviewFrame DEF Next, vars, runVars, tableVars

LEMMA HealthInit == Init => BatchOK /\ SoleOK /\ HealthOK
BY DEF Init, BatchOK, SoleOK, HealthOK, Sole, Admitted, NoLedgerRow

-----------------------------------------------------------------------------
(* The newest run and the streak *)

LEMMA NewestRun ==
  ASSUME Ledgered # {}
  PROVE  LatestRun \in Ledgered /\ \A s \in Ledgered : s <= LatestRun
<1> DEFINE S == {MaxRuns - s : s \in Ledgered}
<1>1. Ledgered \subseteq 1..MaxRuns
  BY DEF Ledgered
<1>2. S \in SUBSET Nat /\ S # {}
  <2>1. \A s \in Ledgered : MaxRuns - s \in Nat
    BY <1>1
  <2> QED
    BY <2>1
<1>3. PICK least \in S : \A k \in S : least <= k
  BY <1>2, LeastElement, Zenon
<1>4. PICK r \in Ledgered : least = MaxRuns - r
  OBVIOUS
<1>5. \A s \in Ledgered : s <= r
  <2> TAKE s \in Ledgered
  <2>1. MaxRuns - s \in S
    OBVIOUS
  <2>2. MaxRuns - r <= MaxRuns - s
    BY <1>3, <1>4, <2>1
  <2> QED
    BY <1>1, <2>2
<1> QED
  BY <1>5 DEF LatestRun

LEMMA StreakOfFailures ==
  ASSUME TInv
  PROVE  HealthStatus = "FAILED" <=> FailureStreak > 0
<1> DEFINE Streak == {r \in Ledgered : \A s \in Ledgered : s >= r => ledger[s].status = "FAILED"}
<1>1. IsFiniteSet(Streak)
  <2>1. Streak \in SUBSET Run
    BY DEF Ledgered
  <2>2. IsFiniteSet(Run)
    BY FS_Interval
  <2> QED
    BY <2>1, <2>2, FS_Subset
<1>2. FailureStreak > 0 <=> Streak # {}
  <2>1. Cardinality(Streak) = 0 <=> Streak = {}
    BY <1>1, FS_EmptySet
  <2>2. Cardinality(Streak) \in Nat
    BY <1>1, FS_CardinalityType
  <2>3. FailureStreak = Cardinality(Streak)
    BY DEF FailureStreak
  <2> HIDE DEF Streak
  <2> QED
    BY <2>1, <2>2, <2>3
<1>3. CASE Ledgered = {}
  <2>1. HealthStatus = "UNKNOWN"
    BY <1>3 DEF HealthStatus, LatestRun
  <2> QED
    BY <1>2, <1>3, <2>1
<1>4. CASE Ledgered # {}
  <2>1. LatestRun \in Ledgered /\ \A s \in Ledgered : s <= LatestRun
    BY <1>4, NewestRun
  <2>2. PICK last \in Run : last = LatestRun
    BY <2>1 DEF Ledgered
  <2>3. ledger[last].status \in {"RUNNING", "SUCCEEDED", "FAILED"}
    BY <2>1, <2>2 DEF Ledgered, TInv, TypeOK, LedgerRow
  <2>4. HealthStatus = "FAILED" <=> ledger[last].status = "FAILED"
    BY <2>2, <2>3 DEF HealthStatus
  <2>5. ledger[last].status = "FAILED" <=> Streak # {}
    <3>1. ASSUME ledger[last].status = "FAILED"
          PROVE  last \in Streak
      <4>1. \A s \in Ledgered : s >= last => s = last
        BY <2>1, <2>2 DEF Ledgered
      <4> QED
        BY <2>1, <2>2, <3>1, <4>1
    <3>2. ASSUME NEW r \in Streak
          PROVE  ledger[last].status = "FAILED"
      <4>1. last >= r
        BY <2>1, <2>2 DEF Ledgered
      <4> QED
        BY <2>1, <2>2, <4>1
    <3> QED
      BY <3>1, <3>2
  <2> QED
    BY <1>2, <2>4, <2>5
<1> QED
  BY <1>3, <1>4

LEMMA HealthImplied ==
  ASSUME TInv, BatchOK, HealthOK
  PROVE  HealthIsHonest
<1> DEFINE latest == ledger[LatestRun]
           before == LastOf(Succeeded \ {LatestRun})
<1>1. ASSUME HealthStatus = "HEALTHY", latest.alone
      PROVE  /\ Reflects(latest.raw, LatestRun)
             /\ (/\ before # 0
                 /\ DistinctNames(RawSchema(latest.raw))
                 /\ \A change \in DOMAIN config.policies : config.policies[change] # "allow")
                  => RawSchema(latest.raw) = RawSchema(ledger[before].raw)
  <2>1. LatestRun # 0
    BY <1>1 DEF HealthStatus
  <2>2. Ledgered # {}
    BY <2>1 DEF LatestRun
  <2>3. LatestRun \in Ledgered /\ \A s \in Ledgered : s <= LatestRun
    BY <2>2, NewestRun
  <2>4. PICK r \in Run : r = LatestRun
    BY <2>3 DEF Ledgered
  <2>5. ledger[r] \in LedgerRow /\ ledger[r].status \in {"RUNNING", "SUCCEEDED", "FAILED"}
    BY <2>3, <2>4 DEF Ledgered, TInv, TypeOK, LedgerRow
  <2>6. /\ ledger[r].status = "SUCCEEDED" /\ ledger[r].drift # "WARN"
        /\ ~ (ledger[r].quarantined > 0)
    BY <1>1, <2>1, <2>4, <2>5 DEF HealthStatus
  <2>7. ledger[r].quarantined = 0
    BY <2>5, <2>6 DEF LedgerRow
  <2>8. Sole(r)
    <3>1. \A s \in Run : r < s => pc[s] = "new"
      BY <2>3, <2>4 DEF Ledgered, BatchOK
    <3> QED
      BY <1>1, <2>4, <2>6, <3>1 DEF Sole, BatchOK
  <2>9. Reflects(ledger[r].raw, r) /\ SchemaKept(r, ledger[r].raw, ledger[r].drift)
    BY <2>6, <2>7, <2>8 DEF HealthOK
  <2>10. ledger[r].drift # "FAILED"
    BY <2>6 DEF BatchOK
  <2> QED
    BY <2>4, <2>6, <2>9, <2>10 DEF SchemaKept
<1> QED
  BY <1>1, StreakOfFailures DEF HealthIsHonest

(* A dataset called HEALTHY, whose last run was alone at work, shows every *)
(* row of its last delivery and the raw schema of the success before; it   *)
(* is called FAILED exactly when its newest runs failed                    *)
(* (observability.sql:67, drift.py:20).                                    *)
THEOREM HealthCorrect == Spec => []HealthIsHonest
<1> DEFINE IInv == TInv /\ FiniteOK /\ LockOK /\ KeysOK /\ BatchOK /\ SoleOK /\ HealthOK
<1>1. Init => IInv
  BY TInit, FiniteInit, KeysInit, HealthInit
<1>2. IInv /\ [Next]_vars => IInv'
  BY TStep, LockStep, KeysStep, BatchStep, SoleStep, HealthStep
<1>3. IInv => HealthIsHonest
  BY HealthImplied
<1> QED
  BY <1>1, <1>2, <1>3, PTL DEF Spec

-----------------------------------------------------------------------------
(* Publishes are atomic *)

\* A run that has committed will not publish again.
PublishedOK ==
  \A r \in Run : r \in Range(commits) => pc[r] \in {"finish", "done", "dead"}

LEMMA CommitRange ==
  ASSUME TInv, NEW r \in Run, Commit(r)
  PROVE  Range(commits') = Range(commits) \union {r}
<1>1. PICK n \in Nat : /\ DOMAIN commits = 1..n
                       /\ DOMAIN commits' = 1..(n + 1)
                       /\ commits'[n + 1] = r
                       /\ \A k \in 1..n : commits'[k] = commits[k]
  <2>1. commits \in Seq(Run) /\ commits' = Append(commits, r)
    BY DEF Commit, TInv, TypeOK
  <2>2. Len(commits) \in Nat /\ DOMAIN commits = 1..Len(commits)
    BY <2>1
  <2>3. DOMAIN commits' = 1..(Len(commits) + 1) /\ commits'[Len(commits) + 1] = r
    BY <2>1
  <2>4. \A k \in 1..Len(commits) : commits'[k] = commits[k]
    BY <2>1
  <2> QED
    BY <2>2, <2>3, <2>4
<1>2. 1..(n + 1) = (1..n) \union {n + 1}
  OBVIOUS
<1> QED
  BY <1>1, <1>2 DEF Range

LEMMA PublishedStep ==
  ASSUME TInv, PublishedOK, [Next]_vars
  PROVE  PublishedOK'
<1>1. CASE UNCHANGED <<pc, commits>>
  BY <1>1 DEF PublishedOK, Range
<1>2. ASSUME NEW r \in Run, RunStep(r)
      PROVE  PublishedOK'
  <2>1. \A s \in Run : s # r => pc'[s] = pc[s]
    BY <1>2, Frame
  <2>2. CASE Commit(r)
    <3>1. pc'[r] = "finish"
      BY <2>2 DEF Commit, Goto, TInv, TypeOK
    <3> QED
      BY <2>1, <2>2, <3>1, CommitRange DEF PublishedOK
  <2>3. CASE ~ Commit(r)
    <3>1. commits' = commits
      BY <1>2, <2>3, Frame
    <3>2. pc[r] \in {"finish", "done", "dead"} => pc'[r] \in {"finish", "done", "dead"}
      BY <1>2 DEF RunStep, StartRun, Extract, LockTable, InsertAll, CountMatches, Merge, Commit,
         FinishRun, FinishFailed, Close, FailRun, Die, AtWork, Goto, TInv, TypeOK
    <3> QED
      BY <2>1, <3>1, <3>2 DEF PublishedOK, Range
  <2> QED
    BY <2>2, <2>3
<1> QED
  BY <1>1, <1>2, PreviewFrame DEF Next, vars, runVars, tableVars

LEMMA PublishedInit == Init => PublishedOK
<1>1. Range(<< >>) = {}
  BY DOMAIN << >> = {} DEF Range
<1> QED
  BY <1>1 DEF Init, PublishedOK

\* The instance has the contracts and keys of this module.
LEMMA SameRules ==
  ASSUME NEW contracts, NEW keys, NEW batched, NEW row, NEW other, NEW valid
  PROVE  /\ Publish!ValidIndexes(contracts, batched) = ValidIndexes(contracts, batched)
         /\ Publish!SameKey(row, other, keys) <=> SameKey(row, other, keys)
         /\ Publish!UpsertAccepts(keys, batched, valid) <=> UpsertAccepts(keys, batched, valid)
<1>1. \A rule : Publish!Failures(rule, batched) = Failures(rule, batched)
  BY DEF Publish!Failures, Failures, Publish!NotNullFailures, NotNullFailures,
         Publish!UniqueFailures, UniqueFailures, Publish!RangeFailures, RangeFailures,
         Publish!RegexFailures, RegexFailures, Publish!Whole, Whole, Publish!SameKey, SameKey
<1>2. Publish!ValidIndexes(contracts, batched) = ValidIndexes(contracts, batched)
  BY <1>1 DEF Publish!ValidIndexes, ValidIndexes, Publish!InvalidIndexes, InvalidIndexes
<1> QED
  BY <1>2 DEF Publish!UpsertAccepts, UpsertAccepts, Publish!Whole, Whole,
              Publish!SameKey, SameKey

\* The rows of the table, and those a run is about to publish.
Rows == {t.row : t \in table}

BatchRows(r) == {batch[r].delivery.rows[i] : i \in batch[r].valid}

(* A commit of an upsert shows the rows of its batch and of the table only *)
(* those of other keys: what its MERGE found free still is.                *)
LEMMA UpsertedRows ==
  ASSUME TInv, LockOK, KeysOK, config.strategy = "upsert", NEW r \in Run, Commit(r)
  PROVE  Rows' = BatchRows(r) \union
                 {row \in Rows : ~ \E new \in BatchRows(r) : SameKey(new, row, config.keys)}
<1> DEFINE rows == batch[r].delivery.rows
           others == {row \in Rows : ~ \E new \in BatchRows(r) : SameKey(new, row, config.keys)}
           Upd(t) == [t EXCEPT !.row = Merged(r, t.row)]
<1>1. table' = StoredAll(r, Free(r)) \union Updated(r)
  BY DEF KeysOK, Commit
<1>2. \A i \in batch[r].valid : Whole(rows[i], config.keys)
  BY DEF KeysOK, UpsertAccepts, Commit
<1>3. \A t \in table : Upd(t) \in Updated(r) /\ Upd(t).row = Merged(r, t.row)
  <2> TAKE t \in table
  <2>1. t \in StoredRow
    BY DEF TInv, TypeOK
  <2>2. Upd(t).row = Merged(r, t.row)
    BY <2>1 DEF StoredRow
  <2> QED
    BY <2>2 DEF Updated
<1>4. ASSUME NEW n \in table'
      PROVE  n.row \in BatchRows(r) \union others
  <2>1. CASE n \in StoredAll(r, Free(r))
    BY <2>1 DEF StoredAll, Stored, Free, BatchRows
  <2>2. CASE n \in Updated(r)
    <3>1. PICK t \in table : n = Upd(t)
      BY <2>2 DEF Updated
    <3>2. n.row = Merged(r, t.row)
      BY <1>3, <3>1
    <3>3. CASE \E i \in batch[r].valid : Matches(rows[i], t.row)
      BY <3>2, <3>3 DEF Merged, BatchRows
    <3>4. CASE ~ \E i \in batch[r].valid : Matches(rows[i], t.row)
      <4>1. n.row = t.row
        BY <3>2, <3>4 DEF Merged
      <4>2. \A new \in BatchRows(r) : ~ SameKey(new, t.row, config.keys)
        BY <1>2, <3>4 DEF BatchRows, Matches
      <4> QED
        BY <4>1, <4>2 DEF Rows
    <3> QED
      BY <3>3, <3>4
  <2> QED
    BY <1>1, <2>1, <2>2
<1>5. ASSUME NEW row \in BatchRows(r)
      PROVE  row \in Rows'
  <2>1. PICK i \in batch[r].valid : row = rows[i]
    BY DEF BatchRows
  <2>2. PICK n \in table' : n.row = rows[i]
    BY MergedRow
  <2> QED
    BY <2>1, <2>2 DEF Rows
<1>6. ASSUME NEW row \in others
      PROVE  row \in Rows'
  <2>1. PICK t \in table : row = t.row
    BY DEF Rows
  <2>2. ~ \E i \in batch[r].valid : Matches(rows[i], t.row)
    BY <2>1 DEF BatchRows, Matches
  <2>3. Upd(t) \in table' /\ Upd(t).row = row
    BY <1>1, <1>3, <2>1, <2>2 DEF Merged
  <2> QED
    BY <2>3 DEF Rows
<1> HIDE DEF others
<1>7. Rows' \subseteq BatchRows(r) \union others
  BY <1>4 DEF Rows
<1>8. BatchRows(r) \union others \subseteq Rows'
  BY <1>5, <1>6
<1> QED
  BY <1>7, <1>8 DEF others

LEMMA CommitPublishes ==
  ASSUME TInv, LockOK, KeysOK, BatchOK, PublishedOK, NEW r \in Run, Commit(r)
  PROVE  Publish!PublishNext
<1>1. /\ pc[r] = "commit" /\ config' = config /\ Succeeded' = Succeeded
      /\ batch[r].delivery \in Delivery
      /\ batch[r].valid = ValidIndexes(config.contracts, batch[r].delivery.rows)
  BY DEF Commit, BatchOK, Admitted, Succeeded
<1>2. PICK delivery \in Delivery : delivery = batch[r].delivery
  BY <1>1
<1>3. Publish!ValidRows(delivery) = BatchRows(r)
  BY <1>1, <1>2, SameRules DEF Publish!ValidRows, BatchRows
<1>4. Publish!FirstPublish(r)
  <2>1. r \notin Range(commits)
    BY <1>1 DEF PublishedOK
  <2>2. Range(commits') = Range(commits) \union {r}
    BY CommitRange
  <2> QED
    BY <2>1, <2>2 DEF Publish!FirstPublish, Range
<1>5. CASE config.strategy = "full"
  <2>1. table' = StoredAll(r, batch[r].valid)
    BY <1>1, <1>5 DEF Commit, BatchOK
  <2>2. {t.row : t \in table'} = BatchRows(r)
    <3> DEFINE stored == StoredAll(r, batch[r].valid)
    <3>1. \A t \in stored : t.row \in BatchRows(r)
      BY DEF StoredAll, Stored, BatchRows
    <3>2. \A row \in BatchRows(r) : \E t \in stored : row = t.row
      <4> TAKE row \in BatchRows(r)
      <4>1. PICK i \in batch[r].valid : row = batch[r].delivery.rows[i]
        BY DEF BatchRows
      <4>2. Stored(r, i) \in stored /\ Stored(r, i).row = row
        BY <4>1 DEF StoredAll, Stored
      <4> QED
        BY <4>2
    <3> HIDE DEF stored
    <3>3. {t.row : t \in stored} = BatchRows(r)
      BY <3>1, <3>2
    <3> QED
      BY <2>1, <3>3 DEF stored
  <2>3. Publish!Replace(r, delivery)
    BY <1>1, <1>3, <1>4, <1>5, <2>2 DEF Publish!Replace
  <2> QED
    BY <2>3 DEF Publish!PublishNext
<1>6. CASE config.strategy = "upsert"
  <2>1. Publish!UpsertAccepts(config.keys, delivery.rows,
                              Publish!ValidIndexes(config.contracts, delivery.rows))
    <3>1. UpsertAccepts(config.keys, delivery.rows, ValidIndexes(config.contracts, delivery.rows))
      BY <1>1, <1>2, <1>6 DEF KeysOK
    <3> QED
      BY <3>1, SameRules
  <2>2. {t.row : t \in table'} = BatchRows(r) \union Publish!Kept(BatchRows(r))
    <3>1. Publish!Kept(BatchRows(r))
            = {row \in Rows : ~ \E new \in BatchRows(r) : SameKey(new, row, config.keys)}
      BY SameRules DEF Publish!Kept, Rows
    <3>2. Rows' = {t.row : t \in table'}
      BY DEF Rows
    <3> QED
      BY <1>6, <3>1, <3>2, UpsertedRows
  <2>3. Publish!Upsert(r, delivery)
    BY <1>1, <1>3, <1>4, <1>6, <2>1, <2>2 DEF Publish!Upsert
  <2> QED
    BY <2>3 DEF Publish!PublishNext
<1> QED
  BY <1>5, <1>6, Strategy

LEMMA StepPublishes ==
  ASSUME TInv, LockOK, KeysOK, LabelOK, BatchOK, PublishedOK, [Next]_vars
  PROVE  [Publish!PublishNext]_(Publish!publishVars)
<1>1. CASE UNCHANGED <<config, ledger, table, commits>>
  BY <1>1 DEF Publish!publishVars, Succeeded, Range
<1>2. ASSUME NEW r \in Run, RunStep(r)
      PROVE  [Publish!PublishNext]_(Publish!publishVars)
  <2>1. /\ config' = config
        /\ \A s \in Run : s # r => ledger'[s] = ledger[s]
        /\ ~ Commit(r) => table' = table /\ commits' = commits
    BY <1>2, Frame
  <2>2. CASE FinishRun(r)
    <3>1. ~ Commit(r) /\ pc[r] = "finish"
      BY <2>2 DEF FinishRun, Commit
    <3>2. r \in Range(commits)
      <4>1. commits \in Seq(Run) /\ Committed(r, Len(commits))
        BY <3>1 DEF LabelOK, TInv, TypeOK
      <4> QED
        BY <4>1 DEF Committed, Range
    <3>3. r \notin Succeeded
      BY <3>1 DEF Succeeded, BatchOK
    <3>4. ledger'[r].status = "SUCCEEDED"
      BY <2>2, Closed DEF FinishRun
    <3>5. Succeeded' = Succeeded \union {r}
      BY <2>1, <3>4 DEF Succeeded
    <3>6. {t.row : t \in table}' = {t.row : t \in table} /\ Range(commits)' = Range(commits)
      BY <2>1, <3>1
    <3>7. Publish!Succeed(r)
      BY <2>1, <3>2, <3>3, <3>5, <3>6 DEF Publish!Succeed
    <3> QED
      BY <3>7 DEF Publish!PublishNext
  <2>3. CASE Commit(r)
    BY <2>3, CommitPublishes
  <2>4. CASE ~ FinishRun(r) /\ ~ Commit(r)
    <3>1. (ledger'[r].status = "SUCCEEDED") <=> (ledger[r].status = "SUCCEEDED")
      <4>1. CASE StartRun(r)
        BY <4>1 DEF StartRun, TInv, TypeOK, LedgerRow, BatchOK
      <4>2. CASE FinishFailed(r)
        <5>1. ledger'[r].status = "FAILED" /\ pc[r] = "failing"
          BY <4>2, Closed DEF FinishFailed
        <5> QED
          BY <5>1 DEF BatchOK
      <4>3. CASE ~ StartRun(r) /\ ~ FinishFailed(r)
        BY <1>2, <2>4, <4>3, OwnStep
      <4> QED
        BY <4>1, <4>2, <4>3
    <3>2. Succeeded' = Succeeded
      BY <2>1, <3>1 DEF Succeeded
    <3> QED
      BY <2>1, <2>4, <3>2 DEF Publish!publishVars, Range
  <2> QED
    BY <2>2, <2>3, <2>4
<1> QED
  BY <1>1, <1>2, PreviewFrame DEF Next, vars, tableVars

(* The transactions of any number of full loads or upserts, interleaved,   *)
(* failing and dying anywhere, are whole publishes one after another, and  *)
(* none is called a success before it is there (postgres.py:496, 646;      *)
(* pipeline.py:468).                                                       *)
THEOREM PublishImplemented == Spec => PublishIsAtomic
<1> DEFINE IInv == /\ TInv /\ FiniteOK /\ LockOK /\ KeysOK /\ LabelOK
                   /\ BatchOK /\ PublishedOK
<1>1. Init => IInv
  BY TInit, FiniteInit, KeysInit, LabelInit, HealthInit, PublishedInit
<1>2. IInv /\ [Next]_vars => IInv'
  BY TStep, LockStep, KeysStep, LabelStep, BatchStep, PublishedStep
<1>3. Init => Publish!PublishInit
  BY DEF Init, Publish!PublishInit, Succeeded, NoLedgerRow, Range
<1>4. IInv /\ [Next]_vars => [Publish!PublishNext]_(Publish!publishVars)
  BY StepPublishes
<1> QED
  BY <1>1, <1>2, <1>3, <1>4, PTL DEF Spec, PublishIsAtomic, Publish!PublishSpec
=============================================================================
