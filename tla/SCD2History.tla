---------------------------- MODULE SCD2History ----------------------------
(***************************************************************************)
(* The history table of a dataset loaded with the scd2 strategy:           *)
(* PostgresStore.publish_scd2 of postgres.py, called by several runs.      *)
(*                                                                         *)
(* publish_scd2 is one transaction.  It stages its batch, locks the table  *)
(* in SHARE ROW EXCLUSIVE mode and then reads and writes the table row by  *)
(* row, so a step is one row; what it has written is its own until it      *)
(* commits, and under READ COMMITTED what it reads is what is committed    *)
(* when the statement starts, with its own writes.  The steps of a run     *)
(* around the publication, which PipelineRun models, do not touch this     *)
(* table.                                                                  *)
(*                                                                         *)
(* The tracked columns are one value, the other columns are left out.      *)
(* Time 0 is NULL, and so is the key None.                                 *)
(***************************************************************************)
EXTENDS Naturals, FiniteSets

CONSTANTS
  Key,        \* values of the business key
  Value,      \* values of the tracked columns
  Batches,    \* batches of contract-passing rows a run may publish
  Run,        \* runs; bounds the number of publications
  None        \* absence of a value

Row == [key : Key \cup {None}, value : Value, at : Nat]

ASSUME BatchAssumption == Batches \subseteq SUBSET Row
ASSUME NoneAssumption == None \notin Key \cup Run /\ \A b \in Batches : b # None

VARIABLES
  history,    \* the committed versions
  lock,       \* the run whose transaction holds the table lock
  pc,         \* where the publication of a run is
  batch,      \* the rows it publishes
  todo,       \* those it has not come to
  closed,     \* committed versions its transaction has expired
  added,      \* versions its transaction has written
  counts,     \* its rows_inserted and rows_expired
  last        \* history variable: the batch committed last

txVars == <<todo, closed, added, counts>>
vars == <<history, lock, pc, batch, txVars, last>>

-----------------------------------------------------------------------------
(* Types *)

Version == [key : Key, value : Value, from : Nat, until : Nat, current : BOOLEAN]

TypeOK ==
  /\ history \in SUBSET Version
  /\ lock \in Run \cup {None}
  /\ pc \in [Run -> {"idle", "staged", "apply", "done", "failed"}]
  /\ batch \in [Run -> SUBSET Row]
  /\ todo \in [Run -> SUBSET Row]
  /\ closed \in [Run -> SUBSET Version]
  /\ added \in [Run -> SUBSET Version]
  /\ counts \in [Run -> [inserted : Nat, expired : Nat]]
  /\ last \in {None} \cup SUBSET Row

-----------------------------------------------------------------------------
(* What a statement sees, and what it decides *)

\* The table as the transaction of r sees it.
View(r) == (history \ closed[r]) \cup added[r]

Exact(r, x) == {v \in View(r) : v.key = x.key /\ v.from = x.at}

Current(r, x) == {v \in View(r) : v.key = x.key /\ v.current}

\* Mutant of Due: the rows are not sorted.
DueUnsorted(r, x) == x \in todo[r]

\* The rows are sorted by the text of their key, then by their effective time:
\* in which order the keys come is left open, and so is that of equal rows.
Due(r, x) ==
  /\ x \in todo[r]
  /\ \A y \in todo[r] : y.key = x.key => x.at <= y.at

\* Mutant of Unchanged: only the exact version is looked for.
UnchangedExact(r, x) == \E v \in Exact(r, x) : v.value = x.value

Unchanged(r, x) ==
  \/ \E v \in Exact(r, x) : v.value = x.value
  \/ Exact(r, x) = {} /\ \E c \in Current(r, x) : c.value = x.value

\* Mutant of Refused: null keys are let through.
RefusedKeyed(r, x) ==
  \/ \E v \in Exact(r, x) : v.value # x.value
  \/ /\ Exact(r, x) = {}
     /\ \E c \in Current(r, x) : c.value # x.value /\ x.at <= c.from

\* A null key, a conflict with the version of that time, a stale change.
Refused(r, x) ==
  \/ x.key = None
  \/ \E v \in Exact(r, x) : v.value # x.value
  \/ /\ Exact(r, x) = {}
     /\ \E c \in Current(r, x) : c.value # x.value /\ x.at <= c.from

Expire(v, at) == [v EXCEPT !.until = at, !.current = FALSE]

NewVersion(x) ==
  [key |-> x.key, value |-> x.value, from |-> x.at, until |-> 0, current |-> TRUE]

-----------------------------------------------------------------------------
(* publish_scd2 *)

\* Mutant of RollBack: what was written before the failure stays.
RollBackNothing(r) ==
  /\ lock' = IF lock = r THEN None ELSE lock
  /\ pc' = [pc EXCEPT ![r] = "failed"]
  /\ todo' = [todo EXCEPT ![r] = {}]
  /\ closed' = [closed EXCEPT ![r] = {}]
  /\ added' = [added EXCEPT ![r] = {}]
  /\ counts' = [counts EXCEPT ![r] = [inserted |-> 0, expired |-> 0]]
  /\ history' = View(r)
  /\ UNCHANGED last

\* The end of a transaction that has not committed.
RollBack(r) ==
  /\ lock' = IF lock = r THEN None ELSE lock
  /\ pc' = [pc EXCEPT ![r] = "failed"]
  /\ todo' = [todo EXCEPT ![r] = {}]
  /\ closed' = [closed EXCEPT ![r] = {}]
  /\ added' = [added EXCEPT ![r] = {}]
  /\ counts' = [counts EXCEPT ![r] = [inserted |-> 0, expired |-> 0]]
  /\ UNCHANGED <<history, last>>

\* A null effective time is refused before the transaction opens.
Stage(r, b) ==
  /\ pc[r] = "idle"
  /\ batch' = [batch EXCEPT ![r] = b]
  /\ \/ (\E x \in b : x.at = 0) /\ RollBack(r)
     \/ /\ \A x \in b : x.at # 0
        /\ pc' = [pc EXCEPT ![r] = "staged"]
        /\ UNCHANGED <<history, lock, txVars, last>>

\* Mutant of LockTable: the table is not locked.
LockTableNot(r) ==
  /\ pc[r] = "staged"
  /\ pc' = [pc EXCEPT ![r] = "apply"]
  /\ todo' = [todo EXCEPT ![r] = batch[r]]
  /\ UNCHANGED <<history, lock, batch, closed, added, counts, last>>

LockTable(r) ==
  /\ pc[r] = "staged"
  /\ lock = None
  /\ lock' = r
  /\ pc' = [pc EXCEPT ![r] = "apply"]
  /\ todo' = [todo EXCEPT ![r] = batch[r]]
  /\ UNCHANGED <<history, batch, closed, added, counts, last>>

KeepRow(r, x) ==
  /\ pc[r] = "apply" /\ Due(r, x)
  /\ ~Refused(r, x) /\ Unchanged(r, x)
  /\ todo' = [todo EXCEPT ![r] = @ \ {x}]
  /\ UNCHANGED <<history, lock, pc, batch, closed, added, counts, last>>

\* Mutant of RefuseRow: the row is skipped instead.
RefuseRowOnly(r, x) ==
  /\ pc[r] = "apply" /\ Due(r, x)
  /\ Refused(r, x)
  /\ todo' = [todo EXCEPT ![r] = @ \ {x}]
  /\ UNCHANGED <<history, lock, pc, batch, closed, added, counts, last>>

RefuseRow(r, x) ==
  /\ pc[r] = "apply" /\ Due(r, x)
  /\ Refused(r, x)
  /\ RollBack(r)
  /\ UNCHANGED batch

\* Mutants of ChangeRow: the UPDATE reaches every version of the key, and each
\* version written counts as a new key.
ChangeRowEverywhere(r, x) ==
  LET versions == {v \in View(r) : v.key = x.key} IN
  /\ pc[r] = "apply" /\ Due(r, x)
  /\ ~Refused(r, x) /\ ~Unchanged(r, x)
  /\ closed' = [closed EXCEPT ![r] = @ \cup (versions \cap history)]
  /\ added' = [added EXCEPT ![r] =
       (@ \ versions) \cup {Expire(v, x.at) : v \in versions} \cup {NewVersion(x)}]
  /\ counts' = IF Current(r, x) = {} THEN [counts EXCEPT ![r].inserted = @ + 1]
                                     ELSE [counts EXCEPT ![r].expired = @ + 1]
  /\ todo' = [todo EXCEPT ![r] = @ \ {x}]
  /\ UNCHANGED <<history, lock, pc, batch, last>>
ChangeRowAllNew(r, x) ==
  LET current == Current(r, x) IN
  /\ pc[r] = "apply" /\ Due(r, x)
  /\ ~Refused(r, x) /\ ~Unchanged(r, x)
  /\ closed' = [closed EXCEPT ![r] = @ \cup (current \cap history)]
  /\ added' = [added EXCEPT ![r] =
       (@ \ current) \cup {Expire(v, x.at) : v \in current} \cup {NewVersion(x)}]
  /\ counts' = [counts EXCEPT ![r].inserted = @ + 1]
  /\ todo' = [todo EXCEPT ![r] = @ \ {x}]
  /\ UNCHANGED <<history, lock, pc, batch, last>>

ChangeRow(r, x) ==
  LET current == Current(r, x) IN
  /\ pc[r] = "apply" /\ Due(r, x)
  /\ ~Refused(r, x) /\ ~Unchanged(r, x)
  /\ closed' = [closed EXCEPT ![r] = @ \cup (current \cap history)]
  /\ added' = [added EXCEPT ![r] =
       (@ \ current) \cup {Expire(v, x.at) : v \in current} \cup {NewVersion(x)}]
  /\ counts' = IF current = {} THEN [counts EXCEPT ![r].inserted = @ + 1]
                               ELSE [counts EXCEPT ![r].expired = @ + 1]
  /\ todo' = [todo EXCEPT ![r] = @ \ {x}]
  /\ UNCHANGED <<history, lock, pc, batch, last>>

Commit(r) ==
  /\ pc[r] = "apply" /\ todo[r] = {}
  /\ history' = View(r)
  /\ lock' = IF lock = r THEN None ELSE lock
  /\ pc' = [pc EXCEPT ![r] = "done"]
  /\ closed' = [closed EXCEPT ![r] = {}]
  /\ added' = [added EXCEPT ![r] = {}]
  /\ last' = batch[r]
  /\ UNCHANGED <<batch, todo, counts>>

\* A statement fails, or the process or the connection dies.
Abort(r) ==
  /\ pc[r] \in {"staged", "apply"}
  /\ RollBack(r)
  /\ UNCHANGED batch

-----------------------------------------------------------------------------
Init ==
  /\ history = {}
  /\ lock = None
  /\ pc = [r \in Run |-> "idle"]
  /\ batch = [r \in Run |-> {}]
  /\ todo = [r \in Run |-> {}]
  /\ closed = [r \in Run |-> {}]
  /\ added = [r \in Run |-> {}]
  /\ counts = [r \in Run |-> [inserted |-> 0, expired |-> 0]]
  /\ last = None

Next ==
  \E r \in Run :
    \/ \E b \in Batches : Stage(r, b)
    \/ LockTable(r)
    \/ \E x \in todo[r] : KeepRow(r, x) \/ RefuseRow(r, x) \/ ChangeRow(r, x)
    \/ Commit(r)
    \/ Abort(r)

Spec == Init /\ [][Next]_vars

-----------------------------------------------------------------------------
(* Properties *)

\* The versions of a key follow each other without gap or overlap: each closed
\* one ends where the next begins, and there is a current one, the last.
IsChain(h) ==
  \A v \in h :
    /\ v.current <=> v.until = 0
    /\ ~v.current => /\ v.from < v.until
                     /\ \E w \in h : w.key = v.key /\ w.from = v.until
    /\ \E w \in h : w.key = v.key /\ w.current
    /\ \A w \in h : w.key = v.key /\ w # v =>
         w.from # v.from /\ (v.from < w.from => ~v.current /\ v.until <= w.from)

\* Whatever runs race or fail, the committed history is such a chain.
HistoryIsChain == IsChain(history)

\* "An unchanged tracked value does nothing": no two versions that follow each
\* other have the same tracked values.
ValuesDiffer(h) ==
  \A v, w \in h : v.key = w.key /\ v.until = w.from => v.value # w.value

VersionsDiffer == ValuesDiffer(history)

\* History is never rewritten: a publication leaves every closed version as it
\* is, and changes a current one only by closing it after its beginning.
Extends(h, g) ==
  \A v \in h :
    \/ v \in g
    \/ v.current /\ \E w \in g : v.from < w.until /\ w = Expire(v, w.until)

NeverRewritten == [][Extends(history, history')]_vars

\* "Exact reruns ... do not duplicate history": a run that publishes the batch
\* committed last changes nothing, should it succeed.
RerunChangesNothing ==
  [][\A r \in Run :
       pc[r] = "apply" /\ pc'[r] = "done" /\ batch[r] = last
         => history' = history]_vars

\* Two rows of a batch that give one key two values at one time.
Contested(x, b) == \E y \in b : y.key = x.key /\ y.at = x.at /\ y.value # x.value

\* The history holds the row: its values, in a version valid at its time (until
\* is exclusive) or, for a row that repeats the current version, later.
Reflected(x, h) ==
  \E v \in h : v.key = x.key /\ v.value = x.value /\ (v.until = 0 \/ x.at < v.until)

\* A publication happens in full: each of its rows is in the history, in a
\* version that had not ended at the row's time, unless the batch contradicts
\* itself there.
BatchIsReflected ==
  [][\A r \in Run :
       pc[r] = "apply" /\ pc'[r] = "done"
         => \A x \in batch[r] : Contested(x, batch[r]) \/ Reflected(x, history')]_vars

\* "Conflicting versions ... fail safely" (README.md:661): no publication
\* commits a batch that contradicts itself.
ConflictsAreRefused ==
  \A r \in Run : pc[r] = "done" => \A x \in batch[r] : ~Contested(x, batch[r])

\* What some runs report together, numbered one by one: a sum as a disjoint union.
Together(runs, number) == UNION {{r} \X (1..number[r]) : r \in runs}

\* What the publications report adds up to the table: as many keys, current
\* versions that is, as rows_inserted, and as many closed ones as rows_expired.
CountsExplainHistory ==
  LET done == {r \in Run : pc[r] = "done"} IN
  /\ Cardinality({v \in history : v.current})
       = Cardinality(Together(done, [r \in done |-> counts[r].inserted]))
  /\ Cardinality({v \in history : ~v.current})
       = Cardinality(Together(done, [r \in done |-> counts[r].expired]))

\* The one publication that is writing, as its transaction sees the table.
Serial == INSTANCE SerialHistory
            WITH busy <- lock # None,
                 working <- IF lock = None THEN history ELSE View(lock),
                 pending <- IF lock = None THEN {} ELSE todo[lock]

\* Publications that race, fail and die do to the history what publications
\* one after another do to it (postgres.py:811, 835).
HistoryIsSerial == Serial!SerialSpec
=============================================================================
