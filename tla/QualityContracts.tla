-------------------------- MODULE QualityContracts --------------------------
(***************************************************************************)
(* Quality contracts (quality/contracts.py, quality/engine.py): which rows *)
(* of a batch a run quarantines and which it publishes.                    *)
(*                                                                         *)
(* A row is a function from the names of its columns to values, a batch a  *)
(* sequence of rows; Null is SQL's NULL.  A pattern is the set of values   *)
(* re.search finds it in; an absent bound of a range is Null.              *)
(***************************************************************************)
EXTENDS Naturals, Sequences, FiniteSets

CONSTANT Null

-----------------------------------------------------------------------------
(* The rules: the indexes of the rows that fail one *)

NotNull(column) == [type |-> "not_null", column |-> column]
Unique(columns) == [type |-> "unique", columns |-> columns]
InRange(column, min, max) == [type |-> "range", column |-> column, min |-> min, max |-> max]
Regex(column, pattern) == [type |-> "regex", column |-> column, pattern |-> pattern]

NotNullFailures(rule, rows) == {i \in DOMAIN rows : rows[i][rule.column] = Null}

\* A key with a NULL in it is not counted and never a duplicate.
Whole(row, columns) == \A column \in columns : row[column] # Null

SameKey(row, other, columns) == \A column \in columns : row[column] = other[column]

UniqueFailures(rule, rows) ==
  {i \in DOMAIN rows :
     /\ Whole(rows[i], rule.columns)
     /\ \E j \in DOMAIN rows \ {i} : SameKey(rows[i], rows[j], rule.columns)}

RangeFailures(rule, rows) ==
  {i \in DOMAIN rows :
     LET value == rows[i][rule.column] IN
     /\ value # Null
     /\ \/ rule.min # Null /\ value < rule.min
        \/ rule.max # Null /\ value > rule.max}

RegexFailures(rule, rows) ==
  {i \in DOMAIN rows : rows[i][rule.column] \notin rule.pattern \union {Null}}

Failures(rule, rows) ==
  {i \in DOMAIN rows :
     \/ rule.type = "not_null" /\ i \in NotNullFailures(rule, rows)
     \/ rule.type = "unique" /\ i \in UniqueFailures(rule, rows)
     \/ rule.type = "range" /\ i \in RangeFailures(rule, rows)
     \/ rule.type = "regex" /\ i \in RegexFailures(rule, rows)}

-----------------------------------------------------------------------------
(* The evaluation of a batch: every rule sees the whole of it *)

InvalidIndexes(contracts, rows) == UNION {Failures(rule, rows) : rule \in contracts}

\* The order of the valid rows does not reach a table: their indexes do.
ValidIndexes(contracts, rows) == DOMAIN rows \ InvalidIndexes(contracts, rows)

\* One record per rule a row fails.
QuarantineRecords(contracts, rows) ==
  UNION {{[rule |-> rule, index |-> i] : i \in Failures(rule, rows)} : rule \in contracts}

RowsQuarantined(contracts, rows) == Cardinality(InvalidIndexes(contracts, rows))

(* What publish_upsert demands of the rows it is given: no NULL in a key   *)
(* and no key twice.                                                       *)
UpsertAccepts(keys, rows, valid) ==
  /\ \A i \in valid : Whole(rows[i], keys)
  /\ \A i, j \in valid : SameKey(rows[i], rows[j], keys) => i = j
=============================================================================
