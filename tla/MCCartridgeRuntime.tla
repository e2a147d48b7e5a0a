-------------------------- MODULE MCCartridgeRuntime --------------------------
(***************************************************************************)
(* Instances of CartridgeRuntime for TLC: two requests, of one cap or of   *)
(* two, whose chains are the pool of the cap and the pool of all.          *)
(***************************************************************************)
EXTENDS CartridgeRuntime, TLC

CONSTANTS a, b, all, r1, r2

OneCap  == [r \in Requests |-> {a, all}]
TwoCaps == [r \in Requests |-> IF r = r1 THEN {a, all} ELSE {b, all}]

One == (a :> 1) @@ (b :> 1) @@ (all :> 1)

OneLimit  == {One}

NoWork    == [r \in Requests |-> {}]
OneWrites == [r \in Requests |-> IF r = r1 THEN {"write"} ELSE {}]
AllWork   == [r \in Requests |-> IF r = r1 THEN {"read", "write", "call"} ELSE {"write"}]
=============================================================================
