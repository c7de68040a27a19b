------------------------------ MODULE MCCursor -------------------------------
(* Small instances of Cursor. *)
EXTENDS Cursor, TLC

CONSTANTS c1, c2, n1, n2, a, b, w1, w2

LabelSymmetry == Permutations(Label)
==============================================================================
