---------------------------- MODULE MCPoolSystem ----------------------------
EXTENDS PoolSystem, TLC

CONSTANTS r1, r2, r3

MCRequests == {r1, r2, r3}

TwoRequests == {r1, r3}

(* Two requests of one cap and one of another; the first cap is in a pool of *)
(* its own.                                                                  *)
MCCap == r1 :> "c1" @@ r2 :> "c1" @@ r3 :> "c2"

TwoCap == [r \in TwoRequests |-> MCCap[r]]

MCCaps == <<"c1", "c2">>

MCShared == <<[name |-> "s", members |-> {"c1"}]>>

MCSorted == <<"all", "c1", "c2", "s">>

MCDeclared == "all" :> 1 @@ "c1" :> 0 @@ "c2" :> 0 @@ "s" :> 1

(* One batch sets two pools, one names a pool there is not. *)
MCBatches == {("all" :> 2) @@ ("c1" :> 0), ("c1" :> 1) @@ ("t" :> 1)}

MCReports == {<<"all", 1>>}

(* The two requests of one cap may be exchanged. *)
Alike == Permutations({r1, r2})
=============================================================================
