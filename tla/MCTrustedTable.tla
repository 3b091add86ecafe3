--------------------------- MODULE MCTrustedTable ---------------------------
(***************************************************************************)
(* Small instances of TrustedTable, and bounded checks of the pure rules   *)
(* it uses.  Keys and values are numbers; Null is a model value.           *)
(***************************************************************************)
EXTENDS TrustedTable, TLC

Row(k, v) == [key |-> k, value |-> v]

MCHeader == <<"key", "value">>

MCDelivery ==
  {[header |-> MCHeader, rows |-> <<Row(1, 2), Row(2, 1)>>],
   [header |-> MCHeader, rows |-> <<Row(1, 1), Row(1, 2), Row(2, Null)>>],
   [header |-> <<"value", "key">>, rows |-> <<Row(Null, 1), Row(2, 2)>>]}

MCKind(value) == IF value = Null THEN "empty" ELSE "integer"

MCCanonical == <<[name |-> "key", datatype |-> "integer", nullable |-> FALSE],
                 [name |-> "value", datatype |-> "integer", nullable |-> TRUE]>>

MCContracts == {NotNull("key"), Unique({"key"})}

MCPolicies(policy) == [change \in {"added_columns", "removed_columns", "datatype_change",
                                   "raw_structure_change", "canonical_change"} |-> policy]

Configuration(strategy, contracts, policy) ==
  [strategy |-> strategy, keys |-> {"key"}, contracts |-> contracts,
   policies |-> MCPolicies(policy), canonical |-> MCCanonical]

MCConfig ==
  {Configuration("full", {}, "warn"),
   Configuration("full", MCContracts, "fail"),
   Configuration("upsert", MCContracts, "warn"),
   Configuration("upsert", {}, "allow")}

-----------------------------------------------------------------------------
(* Bounded checks of SchemaDrift *)

SeqUpTo(S, n) == UNION {[1..k -> S] : k \in 0..n}

MCSchema == SeqUpTo([name : {"a", "b", "c"}, datatype : {"integer"}], 3)
              \union SeqUpTo([name : {"a", "b"}, datatype : {"integer", "mixed"}], 2)

\* The lists of shared names drift.py:80 compares.
SharedNames(schema, other) ==
  LET shared == SelectSeq(schema, LAMBDA field : field.name \in Names(other)) IN
  [i \in DOMAIN shared |-> shared[i].name]

(* The order of two schemas changed exactly when those lists differ, for   *)
(* headers that repeat a name too.                                         *)
ASSUME OrderIsThatOfNames ==
  \A old, new \in MCSchema :
    OrderChanged(old, new) <=> SharedNames(old, new) # SharedNames(new, old)

(* With distinct names a schema without an event is the schema of before;  *)
(* a header that repeats a name may change in silence.                     *)
ASSUME SilenceNeedsRepeatedNames ==
  /\ \A old, new \in MCSchema :
       /\ DistinctNames(old) /\ DistinctNames(new)
       /\ RawEvents(old, new, MCPolicies("warn")) = {}
       => old = new
  /\ \E old, new \in MCSchema : old # new /\ RawEvents(old, new, MCPolicies("warn")) = {}

(* A rename is reported beside the column that came and the one that went, *)
(* and never without them.                                                 *)
ASSUME RenameComesWithBoth ==
  \A old, new \in MCSchema :
    LET types == {event.drift_type : event \in RawEvents(old, new, MCPolicies("warn"))} IN
    "possible_column_rename" \in types => {"column_added", "column_removed"} \subseteq types

-----------------------------------------------------------------------------
(* Bounded checks of QualityContracts *)

MCRows == SeqUpTo([key : {1, 2, Null}, value : {1, Null}], 3)

\* Counter over the whole keys, and the rows whose key it counts twice.
CountedTwice(columns, rows) ==
  LET key(i) == [column \in columns |-> rows[i][column]]
      whole == {i \in DOMAIN rows : \A column \in columns : key(i)[column] # Null}
  IN  {i \in whole : Cardinality({j \in whole : key(j) = key(i)}) > 1}

(* unique fails the rows a counter of whole keys counts more than once.    *)
ASSUME UniqueIsCounted ==
  \A rows \in MCRows : \A columns \in {{"key"}, {"key", "value"}} :
    Failures(Unique(columns), rows) = CountedTwice(columns, rows)

(* No rule but not_null fails a row for a NULL, a range fails nothing      *)
(* within its bounds, and each side of it may be absent.                   *)
ASSUME NullFailsOnlyNotNull ==
  \A rows \in MCRows : \A i \in DOMAIN rows :
    /\ rows[i].key = Null =>
         /\ i \in Failures(NotNull("key"), rows)
         /\ \A rule \in {Unique({"key"}), InRange("key", 2, 2), Regex("key", {1})} :
              i \notin Failures(rule, rows)
    /\ i \in Failures(InRange("key", 1, 1), rows) <=> rows[i].key = 2
    /\ i \in Failures(InRange("key", 2, Null), rows) <=> rows[i].key = 1
    /\ i \in Failures(InRange("key", Null, 1), rows) <=> rows[i].key = 2
    /\ i \in Failures(Regex("key", {1}), rows) <=> rows[i].key = 2
=============================================================================
