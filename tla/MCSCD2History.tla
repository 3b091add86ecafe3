--------------------------- MODULE MCSCD2History ---------------------------
(***************************************************************************)
(* A small instance of SCD2History: batches of one or two rows (two       *)
(* values of the key k1 at three times, k2 changing once), a batch of      *)
(* three, one with a null key and one with a null time.                    *)
(***************************************************************************)
EXTENDS SCD2History, TLC

CONSTANTS k1, k2, va, vb

R(key, value, at) == [key |-> key, value |-> value, at |-> at]

MCRows == {R(k, v, t) : k \in {k1}, v \in {va, vb}, t \in 1..3} \cup {R(k2, va, 1), R(k2, vb, 2)}

MCBatches ==
  {b \in SUBSET MCRows : Cardinality(b) \in 1..2}
  \cup {{R(k1, va, 1), R(k1, va, 2), R(k1, vb, 3)},
        {R(k2, va, 1), R(None, va, 1)}, {R(k2, va, 1), R(k1, va, 0)}}

MCSymmetry == Permutations(Run)
=============================================================================
