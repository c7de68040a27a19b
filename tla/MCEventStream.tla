---------------------------- MODULE MCEventStream ----------------------------
(* Small instances of EventStream. *)
EXTENDS EventStream

CONSTANTS k1, k2, o1, o2, d1, d2

TwoKinds == <<k1, k2>>
OnePerKind == (o1 :> k1) @@ (o2 :> k2)
==============================================================================
