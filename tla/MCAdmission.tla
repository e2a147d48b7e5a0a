----------------------------- MODULE MCAdmission -----------------------------
(***************************************************************************)
(* Instances of Admission for TLC.  Three requests to the caps of one      *)
(* install: two for the same cap, the third for another one.  Each chain   *)
(* is the pool of its cap and the pool of all.                             *)
(***************************************************************************)
EXTENDS Admission, TLC

CONSTANTS a, b, all, r1, r2, r3

TwoCaps == (r1 :> {a, all}) @@ (r2 :> {a, all}) @@ (r3 :> {b, all})

Tight == (a :> 1) @@ (b :> 1) @@ (all :> 1)
Wide  == (a :> 1) @@ (b :> 0) @@ (all :> 2)

BothMaps == {Tight, Wide}
=============================================================================
