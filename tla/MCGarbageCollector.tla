-------------------------- MODULE MCGarbageCollector --------------------------
(* Small instances of GarbageCollector: the kind of one owner is listed     *)
(* before the dependents', that of the other after them.                    *)
EXTENDS GarbageCollector

CONSTANTS p, q, d

EitherSide == <<{p}, {d}, {q}>>
==============================================================================
