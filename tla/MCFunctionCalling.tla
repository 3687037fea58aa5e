------------------------- MODULE MCFunctionCalling -------------------------
EXTENDS FunctionCalling, TLC

CONSTANTS c1, c2, c3, t1, t2, k1, k2, r1, r2

\* Two instances of one function and one of another.
TwoAndOne == c1 :> t1 @@ c2 :> t1 @@ c3 :> t2
Single == c1 :> t1
OneEach == k1 :> t1 @@ k2 :> t2
OneCall == k1 :> t1
=============================================================================
