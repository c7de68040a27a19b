------------------------------- MODULE MCSuite -------------------------------
(* Two managers with one controller each. *)
EXTENDS Suite
==============================================================================
