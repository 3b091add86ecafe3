---------------------------- MODULE SchemaDrift ----------------------------
(***************************************************************************)
(* Fingerprints and drift (schema/fingerprint.py, schema/drift.py): what a *)
(* run calls a change of schema between the last successful run and its    *)
(* own source, and what the configured policies make of it.                *)
(*                                                                         *)
(* A fingerprint is the sequence of its fields, their position is the      *)
(* index.  The SHA-256 of it is compared in the code and the sequence      *)
(* here: a collision is not modelled.  A header may name a column twice.   *)
(***************************************************************************)
EXTENDS Naturals, Sequences, FiniteSets, Functions

-----------------------------------------------------------------------------
(* Fingerprints *)

\* A raw schema is never empty, so the empty sequence is the missing baseline.
NoFingerprint == << >>

(* The representation of a column of a CSV file, from those of its values. *)
ColumnRepresentation(observed) ==
  LET kinds == observed \ {"empty"} IN
  IF kinds = {} THEN "empty"
  ELSE IF kinds \subseteq {"integer", "decimal"}
       THEN IF "decimal" \in kinds THEN "decimal" ELSE "integer"
  ELSE IF \E kind \in kinds : kinds = {kind} THEN CHOOSE kind \in kinds : TRUE
  ELSE "mixed"

(* The fingerprint of a CSV file: sample[i] is the set of representations  *)
(* seen in its i-th column.                                                *)
RawCsvFingerprint(header, sample) ==
  [i \in DOMAIN header |->
     [name |-> header[i], datatype |-> ColumnRepresentation(sample[i])]]

-----------------------------------------------------------------------------
(* The comparison of two raw schemas *)

Names(schema) == {schema[i].name : i \in DOMAIN schema}

DistinctNames(schema) ==
  \A i, j \in DOMAIN schema : schema[i].name = schema[j].name => i = j

\* Positions of the fields of one schema whose name the other has not.
Missing(schema, other) == {i \in DOMAIN schema : schema[i].name \notin Names(other)}

\* Positions of those it has.
Shared(schema, other) == DOMAIN schema \ Missing(schema, other)

\* The field a dictionary by name keeps: the last one of that name.
FieldOf(schema, name) ==
  schema[CHOOSE i \in DOMAIN schema :
           /\ schema[i].name = name
           /\ \A j \in DOMAIN schema : schema[j].name = name => j <= i]

DatatypeChanged(old, new) ==
  {name \in Names(old) \cap Names(new) :
     FieldOf(old, name).datatype # FieldOf(new, name).datatype}

(* A renumbering of the shared fields that keeps names and order: there is *)
(* one exactly when the two lists of shared names are equal.               *)
Renumbers(f, old, new) ==
  /\ \A i \in Shared(old, new) : old[i].name = new[f[i]].name
  /\ \A i, j \in Shared(old, new) : i < j => f[i] < f[j]

OrderChanged(old, new) ==
  ~ \E f \in Bijection(Shared(old, new), Shared(new, old)) : Renumbers(f, old, new)

\* One column went and one came, at the same position.
MaybeRenamed(old, new) == \E i \in DOMAIN old : Missing(old, new) = {i} /\ Missing(new, old) = {i}

-----------------------------------------------------------------------------
(* Events and their status *)

Policy == {"allow", "warn", "fail"}

Policies ==
  [{"added_columns", "removed_columns", "datatype_change",
    "raw_structure_change", "canonical_change"} -> Policy]

DriftEvent(type, about, policy) == [drift_type |-> type, about |-> about, policy |-> policy]

RawEvents(old, new, policies) ==
  {DriftEvent("column_added", i, policies["added_columns"]) : i \in Missing(new, old)}
    \union
  {DriftEvent("column_removed", i, policies["removed_columns"]) : i \in Missing(old, new)}
    \union
  {DriftEvent("datatype_change", name, policies["datatype_change"]) :
     name \in DatatypeChanged(old, new)}
    \union
  {DriftEvent("column_order_change", 0, policies["raw_structure_change"]) :
     c \in {c \in {0} : OrderChanged(old, new)}}
    \union
  {DriftEvent("possible_column_rename", 0, policies["removed_columns"]) :
     c \in {c \in {0} : MaybeRenamed(old, new)}}

DetectSchemaDrift(oldRaw, raw, oldCanonical, canonical, policies) ==
  (IF oldRaw # NoFingerprint /\ oldRaw # raw THEN RawEvents(oldRaw, raw, policies) ELSE {})
    \union
  (IF oldCanonical # NoFingerprint /\ oldCanonical # canonical
   THEN {DriftEvent("canonical_change", 0, policies["canonical_change"])} ELSE {})

DriftStatus(events) ==
  IF \E event \in events : event.policy = "fail" THEN "FAILED"
  ELSE IF \E event \in events : event.policy = "warn" THEN "WARN"
  ELSE IF events # {} THEN "ALLOWED"
  ELSE "NONE"
=============================================================================
