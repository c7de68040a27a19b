--------------------------- MODULE MCFilteredWatch ---------------------------
(* One object, three contents, two of them inside the selector. *)
EXTENDS FilteredWatch
CONSTANT k1
==============================================================================
