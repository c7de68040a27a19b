---------------------------- MODULE MCInterceptor ----------------------------
(* Small instances of Interceptor: two controllers that share a namespace.   *)
EXTENDS Interceptor, TLC

CONSTANTS c1, c2, r1, r2, n1, w1, w2

OneNamespace == [r \in Request |-> n1]
EachItsOwn   == (w1 :> c1) @@ (w2 :> c2)
OneErrs      == (c1 :> 2) @@ (c2 :> 1)
==============================================================================
