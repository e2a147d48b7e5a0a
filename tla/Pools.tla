-------------------------------- MODULE Pools --------------------------------
(***************************************************************************)
(* The decisions of the concurrency pools: the compiled model functions    *)
(* that AdmissionController (engine side) and RuntimePools (cartridge      *)
(* side) ask who is admitted and when.  A request is admitted through      *)
(* every pool of its chain at once.  The line of waiters, a list ordered   *)
(* by ticket, is kept as the set of those in line and, for each, the set   *)
(* of those ahead of it: nothing else is asked of the order.               *)
(***************************************************************************)
EXTENDS Naturals

Unlimited == 0

PoolHasRoom(capacity, active) == capacity = Unlimited \/ active < capacity

HasRoom(capacity, active, chain) ==
  \A p \in chain : PoolHasRoom(capacity[p], active[p])

(* Mutant: every pool counted but the shared ones, here all but one of the chain. *)
Take_Partly(active, chain) ==
  LET some == CHOOSE p \in chain : TRUE
  IN  [p \in DOMAIN active |-> IF p = some THEN active[p] + 1 ELSE active[p]]

Take(active, chain) ==
  [p \in DOMAIN active |-> IF p \in chain THEN active[p] + 1 ELSE active[p]]

(* Subtraction stops at zero. *)
Release(active, chain) ==
  [p \in DOMAIN active |->
     IF p \in chain /\ active[p] > 0 THEN active[p] - 1 ELSE active[p]]

(* The longest waiting request among those whose whole chain has room. *)
IsNextUp(r, inLine, ahead, chain, capacity, active) ==
  /\ r \in inLine
  /\ HasRoom(capacity, active, chain[r])
  /\ \A q \in ahead[r] : ~HasRoom(capacity, active, chain[q])

(* r joins behind everyone in line; r leaves and the others close up. *)
Join(ahead, inLine, r) == [ahead EXCEPT ![r] = inLine]

Leave(ahead, r) == [q \in DOMAIN ahead |-> IF q = r THEN {} ELSE ahead[q] \ {r}]
=============================================================================
