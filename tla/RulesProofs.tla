---------------------------- MODULE RulesProofs ----------------------------
(***************************************************************************)
(* What the pure rules of a run promise for every schema, every policy and *)
(* every batch: no change of a schema without an event, and rows an upsert *)
(* accepts once its keys are under contract, in whatever order they come.  *)
(***************************************************************************)
EXTENDS SchemaDrift, QualityContracts, NaturalsInduction, WellFoundedInduction, TLAPS

-----------------------------------------------------------------------------
(* A non-empty set of natural numbers has a least element. *)
LEMMA LeastElement ==
  ASSUME NEW S \in SUBSET Nat, S # {}
  PROVE  \E i \in S : \A j \in S : i <= j
<1>1. IsWellFoundedOn(OpToRel(<, Nat), Nat)
  BY NatLessThanWellFounded
<1>2. PICK i \in S : \A j \in S : ~ (<<j, i>> \in OpToRel(<, Nat))
  BY <1>1, WFMin, Zenon
<1>3. \A j \in S : ~ (j < i)
  BY <1>2 DEF OpToRel
<1>4. \A j \in S : i <= j
  BY <1>3
<1> QED
  BY <1>4

(* A bijection between two initial segments of the natural numbers that    *)
(* keeps the order moves nothing.                                          *)
LEMMA MonotoneIsIdentity ==
  ASSUME NEW m \in Nat, NEW n \in Nat, NEW f \in Bijection(1..m, 1..n),
         \A i, j \in 1..m : i < j => f[i] < f[j]
  PROVE  /\ \A i \in 1..m : f[i] = i
         /\ m = n
<1>1. /\ f \in [1..m -> 1..n]
      /\ \A k \in 1..n : \E i \in 1..m : f[i] = k
  BY DEF Bijection, Surjection, Injection, IsInjective
<1>2. \A i \in 1..m : f[i] = i
  <2> DEFINE Moved == {i \in 1..m : f[i] # i}
  <2> SUFFICES ASSUME Moved # {}
               PROVE  FALSE
    OBVIOUS
  <2>1. PICK i \in Moved : \A j \in Moved : i <= j
    <3>1. Moved \in SUBSET Nat
      OBVIOUS
    <3> QED
      BY <3>1, LeastElement, Zenon
  <2>2. \A j \in 1..m : j < i => f[j] = j
    BY <2>1
  <2>3. CASE f[i] < i
    <3>1. f[i] \in 1..m /\ f[f[i]] = f[i]
      BY <1>1, <2>1, <2>2, <2>3
    <3>2. f[f[i]] < f[i]
      BY <2>1, <2>3, <3>1
    <3> QED
      BY <1>1, <2>1, <3>1, <3>2
  <2>4. CASE i < f[i]
    <3>1. PICK j \in 1..m : f[j] = i
      BY <1>1, <2>1, <2>4
    <3>2. j # i /\ ~ (j < i)
      BY <2>1, <2>2, <2>4, <3>1
    <3>3. f[i] < f[j]
      BY <2>1, <3>2
    <3> QED
      BY <1>1, <2>1, <2>4, <3>1, <3>3
  <2> QED
    BY <1>1, <2>1, <2>3, <2>4
<1>3. m <= n
  BY <1>1, <1>2
<1>4. n <= m
  <2> SUFFICES ASSUME m < n
               PROVE  FALSE
    OBVIOUS
  <2>1. PICK i \in 1..m : f[i] = n
    BY <1>1
  <2> QED
    BY <1>2, <2>1
<1> QED
  BY <1>2, <1>3, <1>4

-----------------------------------------------------------------------------
(* Drift *)

(* With names that do not repeat, a dictionary by name keeps each field.   *)
LEMMA FieldOfDistinct ==
  ASSUME NEW schema, DistinctNames(schema), NEW i \in DOMAIN schema,
         DOMAIN schema \subseteq Nat
  PROVE  FieldOf(schema, schema[i].name) = schema[i]
<1>1. \A k \in DOMAIN schema :
        (/\ schema[k].name = schema[i].name
         /\ \A j \in DOMAIN schema : schema[j].name = schema[i].name => j <= k)
          <=> k = i
  BY DEF DistinctNames
<1> QED
  BY <1>1 DEF FieldOf

(* A change of the raw schema never goes by in silence: whatever column    *)
(* was added, removed, moved or represented otherwise, _raw_events         *)
(* (drift.py:39) reports an event.  The names of the new header must not   *)
(* repeat, which the profiler demands (profiler.py:343) and a later        *)
(* extraction does not; those of the old one then do not either.           *)
THEOREM DriftNeverSilent ==
  ASSUME NEW Field, NEW old \in Seq(Field), NEW new \in Seq(Field), NEW policies,
         \A field \in Field : field = [name |-> field.name, datatype |-> field.datatype],
         DistinctNames(new),
         RawEvents(old, new, policies) = {}
  PROVE  old = new
<1>1. Missing(old, new) = {} /\ Missing(new, old) = {}
  BY DEF RawEvents
<1>2. DatatypeChanged(old, new) = {} /\ ~ OrderChanged(old, new)
  BY DEF RawEvents
<1>3. Shared(old, new) = 1..Len(old) /\ Shared(new, old) = 1..Len(new)
  BY <1>1 DEF Shared
<1>4. PICK f \in Bijection(1..Len(old), 1..Len(new)) : Renumbers(f, old, new)
  BY <1>2, <1>3 DEF OrderChanged
<1>5. \A i, j \in 1..Len(old) : i < j => f[i] < f[j]
  BY <1>3, <1>4 DEF Renumbers
<1>6. (\A i \in 1..Len(old) : f[i] = i) /\ Len(old) = Len(new)
  BY <1>4, <1>5, MonotoneIsIdentity
<1>7. \A i \in 1..Len(old) : old[i].name = new[i].name
  BY <1>3, <1>4, <1>6 DEF Renumbers
<1>8. \A i \in 1..Len(old) : old[i].datatype = new[i].datatype
  <2>1. DistinctNames(old)
    <3>1. DOMAIN old = DOMAIN new
      BY <1>6
    <3>2. \A i \in DOMAIN old : old[i].name = new[i].name
      BY <1>7
    <3> QED
      BY <3>1, <3>2 DEF DistinctNames
  <2> TAKE i \in 1..Len(old)
  <2>2. old[i].name \in Names(old) \cap Names(new)
    BY <1>6, <1>7 DEF Names
  <2>3. FieldOf(old, old[i].name).datatype = FieldOf(new, old[i].name).datatype
    BY <1>2, <2>2 DEF DatatypeChanged
  <2>4. FieldOf(old, old[i].name) = old[i]
    BY <2>1, FieldOfDistinct
  <2>5. FieldOf(new, new[i].name) = new[i]
    BY <1>6, FieldOfDistinct
  <2> QED
    BY <1>7, <2>3, <2>4, <2>5
<1>9. \A i \in 1..Len(old) : old[i] = new[i]
  <2> TAKE i \in 1..Len(old)
  <2>1. old[i] \in Field /\ new[i] \in Field
    BY <1>6
  <2>2. /\ old[i] = [name |-> old[i].name, datatype |-> old[i].datatype]
        /\ new[i] = [name |-> new[i].name, datatype |-> new[i].datatype]
    BY <2>1
  <2> QED
    BY <1>7, <1>8, <2>2
<1> QED
  BY <1>6, <1>9

(* When no policy says allow, a run whose raw schema differs from its      *)
(* baseline gets a drift result that warns of it or stops it               *)
(* (pipeline.py:339, observability.sql:104).                               *)
THEOREM ChangeIsReported ==
  ASSUME NEW Field, NEW old \in Seq(Field), NEW new \in Seq(Field), NEW policies \in Policies,
         \A field \in Field : field = [name |-> field.name, datatype |-> field.datatype],
         \A change \in DOMAIN policies : policies[change] # "allow",
         DistinctNames(new), old # NoFingerprint, old # new,
         NEW oldCanonical, NEW canonical
  PROVE  DriftStatus(DetectSchemaDrift(old, new, oldCanonical, canonical, policies))
           \in {"WARN", "FAILED"}
<1>1. RawEvents(old, new, policies) # {}
  BY DriftNeverSilent, Zenon
<1>2. PICK event \in RawEvents(old, new, policies) : TRUE
  BY <1>1
<1>3. event.policy \in {"warn", "fail"}
  BY <1>2 DEF RawEvents, DriftEvent, Policies, Policy
<1>4. event \in DetectSchemaDrift(old, new, oldCanonical, canonical, policies)
  BY <1>2 DEF DetectSchemaDrift
<1> QED
  BY <1>3, <1>4 DEF DriftStatus

(* Under policies that all say fail it is stopped.                         *)
THEOREM StrictPoliciesStop ==
  ASSUME NEW Field, NEW old \in Seq(Field), NEW new \in Seq(Field), NEW policies \in Policies,
         \A field \in Field : field = [name |-> field.name, datatype |-> field.datatype],
         \A change \in DOMAIN policies : policies[change] = "fail",
         DistinctNames(new), old # NoFingerprint, old # new,
         NEW oldCanonical, NEW canonical
  PROVE  DriftStatus(DetectSchemaDrift(old, new, oldCanonical, canonical, policies)) = "FAILED"
<1>1. RawEvents(old, new, policies) # {}
  BY DriftNeverSilent, Zenon
<1>2. PICK event \in RawEvents(old, new, policies) : TRUE
  BY <1>1
<1>3. event.policy = "fail"
  BY <1>2 DEF RawEvents, DriftEvent, Policies
<1>4. event \in DetectSchemaDrift(old, new, oldCanonical, canonical, policies)
  BY <1>2 DEF DetectSchemaDrift
<1> QED
  BY <1>3, <1>4 DEF DriftStatus

-----------------------------------------------------------------------------
(* Contracts *)

(* Every row of a batch is published or quarantined, and never both        *)
(* (engine.py:110).                                                        *)
THEOREM ValidOrQuarantined ==
  ASSUME NEW contracts, NEW rows, NEW i \in DOMAIN rows
  PROVE  i \in ValidIndexes(contracts, rows) <=>
           ~ \E record \in QuarantineRecords(contracts, rows) : record.index = i
<1>1. i \in InvalidIndexes(contracts, rows) <=>
        \E rule \in contracts : i \in Failures(rule, rows)
  BY DEF InvalidIndexes
<1>2. (\E record \in QuarantineRecords(contracts, rows) : record.index = i) <=>
        \E rule \in contracts : i \in Failures(rule, rows)
  <2>1. ASSUME NEW record \in QuarantineRecords(contracts, rows), record.index = i
        PROVE  \E rule \in contracts : i \in Failures(rule, rows)
    <3>1. PICK rule \in contracts :
            record \in {[rule |-> rule, index |-> k] : k \in Failures(rule, rows)}
      BY DEF QuarantineRecords
    <3> QED
      BY <2>1, <3>1
  <2>2. ASSUME NEW rule \in contracts, i \in Failures(rule, rows)
        PROVE  \E record \in QuarantineRecords(contracts, rows) : record.index = i
    <3>1. [rule |-> rule, index |-> i] \in QuarantineRecords(contracts, rows)
      BY <2>2 DEF QuarantineRecords
    <3> QED
      BY <3>1
  <2> QED
    BY <2>1, <2>2
<1> QED
  BY <1>1, <1>2 DEF ValidIndexes

(* Contracts that demand a value in every key column and unique keys leave *)
(* publish_upsert nothing to refuse (postgres.py:600-603).                 *)
THEOREM ContractsSatisfyUpsert ==
  ASSUME NEW keys, NEW contracts, NEW rows,
         \A key \in keys : NotNull(key) \in contracts,
         Unique(keys) \in contracts
  PROVE  UpsertAccepts(keys, rows, ValidIndexes(contracts, rows))
<1> DEFINE valid == ValidIndexes(contracts, rows)
<1>1. \A i \in valid : Whole(rows[i], keys)
  <2> SUFFICES ASSUME NEW i \in valid, NEW key \in keys, rows[i][key] = Null
               PROVE  FALSE
    BY DEF Whole
  <2>1. i \in NotNullFailures(NotNull(key), rows)
    BY DEF ValidIndexes, NotNullFailures, NotNull
  <2>2. i \in Failures(NotNull(key), rows)
    BY <2>1 DEF Failures, NotNullFailures, NotNull
  <2> QED
    BY <2>1, <2>2 DEF ValidIndexes, InvalidIndexes
<1>2. \A i, j \in valid : SameKey(rows[i], rows[j], keys) => i = j
  <2> SUFFICES ASSUME NEW i \in valid, NEW j \in valid,
                      SameKey(rows[i], rows[j], keys), i # j
               PROVE  FALSE
    OBVIOUS
  <2>1. i \in UniqueFailures(Unique(keys), rows)
    BY <1>1 DEF ValidIndexes, UniqueFailures, Unique
  <2>2. i \in Failures(Unique(keys), rows)
    BY <2>1 DEF Failures, UniqueFailures, Unique
  <2> QED
    BY <2>1, <2>2 DEF ValidIndexes, InvalidIndexes
<1> QED
  BY <1>1, <1>2 DEF UpsertAccepts

(* The outcome of a row does not depend on where in the batch it and the   *)
(* others stand: of rows with one key none is the first to be let through  *)
(* (contracts.py:91, engine.py:88).                                        *)
THEOREM OrderOfRowsIrrelevant ==
  ASSUME NEW contracts, NEW rows, NEW moved,
         NEW place \in Bijection(DOMAIN moved, DOMAIN rows),
         \A i \in DOMAIN moved : moved[i] = rows[place[i]]
  PROVE  \A i \in DOMAIN moved :
           i \in ValidIndexes(contracts, moved) <=> place[i] \in ValidIndexes(contracts, rows)
<1>1. /\ \A i \in DOMAIN moved : place[i] \in DOMAIN rows
      /\ \A i, j \in DOMAIN moved : place[i] = place[j] => i = j
      /\ \A k \in DOMAIN rows : \E i \in DOMAIN moved : place[i] = k
  BY DEF Bijection, Injection, Surjection, IsInjective
<1>2. ASSUME NEW rule, NEW i \in DOMAIN moved
      PROVE  i \in Failures(rule, moved) <=> place[i] \in Failures(rule, rows)
  <2>1. i \in UniqueFailures(rule, moved) <=> place[i] \in UniqueFailures(rule, rows)
    <3>1. ASSUME NEW j \in DOMAIN moved \ {i}, SameKey(moved[i], moved[j], rule.columns)
          PROVE  \E k \in DOMAIN rows \ {place[i]} :
                   SameKey(rows[place[i]], rows[k], rule.columns)
      BY <1>1, <3>1
    <3>2. ASSUME NEW k \in DOMAIN rows \ {place[i]}, SameKey(rows[place[i]], rows[k], rule.columns)
          PROVE  \E j \in DOMAIN moved \ {i} : SameKey(moved[i], moved[j], rule.columns)
      BY <1>1, <3>2
    <3> QED
      BY <1>1, <3>1, <3>2 DEF UniqueFailures
  <2> QED
    BY <1>1, <2>1 DEF Failures, NotNullFailures, RangeFailures, RegexFailures
<1>3. ASSUME NEW i \in DOMAIN moved
      PROVE  i \in InvalidIndexes(contracts, moved) <=> place[i] \in InvalidIndexes(contracts, rows)
  BY <1>2 DEF InvalidIndexes
<1> QED
  BY <1>1, <1>3 DEF ValidIndexes
=============================================================================
