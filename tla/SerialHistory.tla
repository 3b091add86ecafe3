--------------------------- MODULE SerialHistory ---------------------------
(***************************************************************************)
(* What an SCD2 dataset promises its readers, without runs, transactions,  *)
(* locks or deaths: batches are published one at a time, row by row in the *)
(* order of their times, on a table of their own that takes the place of   *)
(* the history in one step, or never does.  SCD2History is shown to        *)
(* implement this module.                                                  *)
(***************************************************************************)
EXTENDS Naturals

CONSTANTS Batches, None

VARIABLES
  history,   \* the versions readers see
  busy,      \* whether a batch is being published
  working,   \* the table as that batch has made it so far
  pending    \* the rows it has left

serialVars == <<history, busy, working, pending>>

Versions(x) == {v \in working : v.key = x.key}

CurrentVersions(x) == {v \in Versions(x) : v.current}

\* A version of the time of a row, or the current one, has its value already.
Says(v, x) == v.value = x.value /\ (v.from = x.at \/ v.current)

NothingNew(x) ==
  /\ \E v \in Versions(x) : Says(v, x)
  /\ \A v \in Versions(x) : v.from = x.at => v.value = x.value

\* All the key has is older, and its current value another one.
Newer(x) ==
  /\ \A v \in Versions(x) : v.from < x.at /\ (~ v.current => v.until < x.at)
  /\ \A v \in CurrentVersions(x) : v.value # x.value

Ended(v, x) == [v EXCEPT !.until = x.at, !.current = FALSE]

Opened(x) == [key |-> x.key, value |-> x.value, from |-> x.at, until |-> 0, current |-> TRUE]

SerialInit ==
  /\ history = {}
  /\ busy = FALSE
  /\ working = {}
  /\ pending = {}

Begin(b) ==
  /\ ~ busy
  /\ \A x \in b : x.at # 0
  /\ busy' = TRUE
  /\ pending' = b
  /\ UNCHANGED <<history, working>>

\* No row goes before an older one of its key, and none without a key goes.
Take(x) ==
  /\ busy
  /\ x.key # None
  /\ \A y \in pending : y.key = x.key => x.at <= y.at
  /\ pending' = pending \ {x}
  /\ UNCHANGED <<history, busy>>

Repeat(x) ==
  /\ Take(x)
  /\ NothingNew(x)
  /\ UNCHANGED working

Change(x) ==
  /\ Take(x)
  /\ Newer(x)
  /\ working' = (working \ CurrentVersions(x)) \union {Opened(x)}
                  \union {Ended(v, x) : v \in CurrentVersions(x)}

Publish ==
  /\ busy
  /\ pending = {}
  /\ history' = working
  /\ busy' = FALSE
  /\ UNCHANGED <<working, pending>>

GiveUp ==
  /\ busy
  /\ busy' = FALSE
  /\ working' = history
  /\ pending' = {}
  /\ UNCHANGED history

SerialNext ==
  \/ \E b \in Batches : Begin(b)
  \/ \E x \in pending : Repeat(x) \/ Change(x)
  \/ Publish
  \/ GiveUp

SerialSpec == SerialInit /\ [][SerialNext]_serialVars
=============================================================================
