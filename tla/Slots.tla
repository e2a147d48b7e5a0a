-------------------------------- MODULE Slots --------------------------------
(***************************************************************************)
(* What admission promises: at any time some requests hold a slot in every *)
(* pool of their chain, and none is let in where the pool is already at    *)
(* its capacity.  A capacity may change at any time, even below what is    *)
(* held; it then takes effect as the holders leave.                        *)
(***************************************************************************)
EXTENDS Naturals, FiniteSets

CONSTANTS Requests, Pools, Chain

VARIABLES holders, capacity

vars == <<holders, capacity>>

Holding(p) == {r \in holders : p \in Chain[r]}

Full(p) == capacity[p] # 0 /\ Cardinality(Holding(p)) >= capacity[p]

Init == holders = {} /\ capacity \in [Pools -> Nat]

Enter(r) ==
  /\ r \notin holders
  /\ \A p \in Chain[r] : ~Full(p)
  /\ holders' = holders \cup {r}
  /\ UNCHANGED capacity

Exit(r) ==
  /\ r \in holders
  /\ holders' = holders \ {r}
  /\ UNCHANGED capacity

Resize ==
  /\ capacity' \in [Pools -> Nat]
  /\ UNCHANGED holders

Next == Resize \/ \E r \in Requests : Enter(r) \/ Exit(r)

Spec == Init /\ [][Next]_vars
=============================================================================
