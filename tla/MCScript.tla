------------------------------ MODULE MCScript ------------------------------
(* A small instance of Script: one object with two paths, and declarations *)
(* whose leaves compete for the same events.                               *)
EXTENDS Script

CONSTANTS o, p, q

Any == Changed(o, {})
P == Changed(o, {p})
Q == Changed(o, {q})
PQ == Changed(o, {p, q})
Nameless == Changed(Empty, {})

AllAllows == {Any, P, Q, PQ, Added(o), Deleted(o), Quiet, Zero, Nameless, Before(P, Any), Before(Any, P),
              Before(Before(P, Any), Q), Before(Quiet, P)}

Modified(paths) == [typ |-> "modified", obj |-> o, changed |-> paths]
AllEvents == {Modified({}), Modified({p}), Modified({p, q}),
              [typ |-> "deleted", obj |-> o, changed |-> {p, q}]}

Sound == {<<Quiet>>, <<Any, P, PQ>>, <<Before(P, Any), Deleted(o)>>, <<Before(Any, P), PQ>>,
          <<Before(Before(P, Any), Q)>>}
Malformed == {<<>>, <<Quiet, P>>, <<Before(Quiet, P)>>, <<Zero>>, <<Nameless>>}

AllDeclarations == Sound \cup Malformed
OnlyDeletes == {[typ |-> "deleted", obj |-> o, changed |-> {p, q}]}
==============================================================================
