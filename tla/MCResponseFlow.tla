--------------------------- MODULE MCResponseFlow ---------------------------
EXTENDS ResponseFlow
CONSTANTS q1, q2, s1, t1
OneOwner == s1 :> q1
OneLog == (q1 :> 1) @@ (q2 :> 0)
OneOutput == t1 :> s1
=============================================================================
