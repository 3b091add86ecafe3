--------------------------- MODULE MCPipelineRun ---------------------------
(***************************************************************************)
(* Small instances of PipelineRun.  Of the rows x1 and x3 are clean, x2 is *)
(* quarantined or filtered and x4 is filtered; x2 and x3 share a watermark *)
(* position, so a batch may end in a tie, and x4 comes after all of them.  *)
(* The raw schema s2 adds a column to s1, which passes with a warning;     *)
(* losing it again fails.                                                  *)
(***************************************************************************)
EXTENDS PipelineRun, TLC

CONSTANTS x1, x2, x3, x4, s1, s2

MCMark == [x \in Row |-> CASE x = x1 -> 1 [] x \in {x2, x3} -> 2 [] x = x4 -> 3]
MCFateQuarantine ==
  [x \in Row |-> CASE x = x2 -> "quarantined" [] x = x4 -> "filtered" [] OTHER -> "trusted"]
MCFateFilter == [x \in Row |-> IF x = x2 THEN "filtered" ELSE "trusted"]

MCDriftPolicy ==
  [change \in Schema \X Schema |-> IF change = <<s1, s2>> THEN "warn" ELSE "fail"]

MCNoWindows == {}
MCWindows == {<<0, 1>>, <<1, 2>>}
MCWindow == {<<0, 2>>}

MCSymmetry == Permutations(Run)
=============================================================================
