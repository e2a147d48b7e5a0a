---------------------------- MODULE MCCreditFlow ----------------------------
(***************************************************************************)
(* Instances of CreditFlow for TLC: a stream whose items are one CHUNK     *)
(* each, and one whose items are one CHUNK or three.                       *)
(***************************************************************************)
EXTENDS CreditFlow

WholeItems == {1}
SplitItems == {1, 3}
=============================================================================
