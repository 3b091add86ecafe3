--------------------------- MODULE WatermarkFeed ---------------------------
(***************************************************************************)
(* What an incremental dataset promises its readers, without runs, ledger, *)
(* crashes or retries: the trusted table is fed from the source exactly    *)
(* once, and a single cursor says how far.  PipelineRun is shown to        *)
(* implement this module when the installation is operated as documented.  *)
(***************************************************************************)
EXTENDS Naturals

CONSTANTS Row, Mark, Fate, InitialMark, Windows

VARIABLES
  arrived,    \* rows the source has shown so far
  trusted,    \* rows that are in the trusted table, each of them once
  cursor      \* the published watermark, 0 when there is none

feedVars == <<arrived, trusted, cursor>>

Floor == IF cursor = 0 THEN InitialMark ELSE cursor

Clean(batch) == {x \in batch : Fate[x] = "trusted"}

Inside(rows, w) == {x \in rows : w[1] < Mark[x] /\ Mark[x] <= w[2]}

FeedInit ==
  /\ arrived = {}
  /\ trusted = {}
  /\ cursor = 0

NewRows(rows) ==
  /\ arrived' = arrived \cup rows
  /\ UNCHANGED <<trusted, cursor>>

\* A batch from beyond the cursor becomes readable and the cursor moves to its
\* last row, in one step.
Deliver(batch) ==
  /\ batch # {}
  /\ \A x \in batch : Mark[x] > Floor
  /\ trusted' = trusted \cup Clean(batch)
  /\ \E x \in batch : /\ \A y \in batch : Mark[y] <= Mark[x]
                      /\ cursor' = Mark[x]
  /\ UNCHANGED arrived

\* A window is replaced by what the source holds for it; the cursor stays.
Refill(w, batch) ==
  /\ trusted' = (trusted \ Inside(trusted, w)) \cup Clean(batch)
  /\ UNCHANGED <<arrived, cursor>>

FeedNext ==
  \/ \E rows \in SUBSET (Row \ arrived) : NewRows(rows)
  \/ \E batch \in SUBSET arrived : Deliver(batch)
  \/ \E w \in Windows : \E batch \in SUBSET Inside(arrived, w) : Refill(w, batch)

FeedSpec == FeedInit /\ [][FeedNext]_feedVars
=============================================================================
