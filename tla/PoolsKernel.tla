----------------------------- MODULE PoolsKernel -----------------------------
(***************************************************************************)
(* The compiled pools functions on their own data: an install's pools, a   *)
(* list of names with their capacities and counts, and the line, a list of *)
(* tickets with their chains.  (Pools.tla says the same of sets and of who *)
(* is ahead of whom, for the modules where the lists do not matter.)       *)
(* A capacity of zero is no limit; "all" is the pool of every request.     *)
(***************************************************************************)
EXTENDS Naturals, Sequences, FiniteSets

CONSTANT None   \* no waiter, no report, no pool

All == "all"

(* The members of a list; of a chain, the names of its pools. *)
Members(list) == {list[i] : i \in 1..Len(list)}

Names(chain) == Members(chain)

(* The elements of a list that are in a set, in their order. *)
Kept(list, set) ==
  LET kept[i \in 0..Len(list)] ==
        IF i = 0 THEN <<>>
        ELSE IF list[i] \in set THEN Append(kept[i - 1], list[i]) ELSE kept[i - 1]
  IN  kept[Len(list)]

Empty == [pools |-> <<>>, queue |-> <<>>, nextTicket |-> 0]

-----------------------------------------------------------------------------
(* One pool. *)

PoolHasRoom(p) == p.capacity = 0 \/ p.active < p.capacity

(* The first pool of that name. *)
PoolNamed(s, name) ==
  IF \E i \in 1..Len(s.pools) : s.pools[i].name = name
  THEN s.pools[CHOOSE i \in 1..Len(s.pools) :
         /\ s.pools[i].name = name
         /\ \A j \in 1..(i - 1) : s.pools[j].name # name]
  ELSE None

Knows(s, name) == PoolNamed(s, name) # None

(* What the configured and the reported limit come to: the lower of the    *)
(* two, where zero and no report are no limit.                             *)
Effective(configured, available) ==
  IF available \in {None, 0} THEN configured
  ELSE IF configured = 0 \/ available < configured THEN available
  ELSE configured

(* Mutant: a cartridge that is not running is believed like any other. *)
Advertised_Believed(running, name, configured, available) ==
  Effective(configured, available)

Advertised(running, name, configured, available) ==
  IF ~running /\ name = All THEN 1 ELSE Effective(configured, available)

Joined(cap, shared) == Kept(shared, {pool \in Members(shared) : cap \in pool.members})

NamesOf(pools) == [i \in 1..Len(pools) |-> pools[i].name]

(* A cap's chain: its own pool, the shared pools it belongs to in the order *)
(* given, and the pool of every request.                                    *)
ChainOf(cap, shared) == <<cap>> \o NamesOf(Joined(cap, shared)) \o <<All>>

-----------------------------------------------------------------------------
(* The pools of an install. *)

HasRoom(s, chain) ==
  \A i \in 1..Len(s.pools) :
    s.pools[i].name \in Names(chain) => PoolHasRoom(s.pools[i])

OneMore(p, chain) ==
  IF p.name \in Names(chain) THEN [p EXCEPT !.active = @ + 1] ELSE p

Take(s, chain) ==
  [s EXCEPT !.pools = [i \in DOMAIN @ |-> OneMore(@[i], chain)]]

(* Subtraction stops at zero. *)
OneLess(p, chain) ==
  IF p.name \in Names(chain) /\ p.active > 0 THEN [p EXCEPT !.active = @ - 1] ELSE p

Release(s, chain) ==
  [s EXCEPT !.pools = [i \in DOMAIN @ |-> OneLess(@[i], chain)]]

(* Mutant: a pool that is given a capacity again starts again. *)
Resized_Anew(p, name, capacity) ==
  IF p.name = name THEN [name |-> name, capacity |-> capacity, active |-> 0] ELSE p

(* A pool keeps its count when its capacity changes. *)
Resized(p, name, capacity) ==
  IF p.name = name THEN [p EXCEPT !.capacity = capacity] ELSE p

SetCapacity(s, name, capacity) ==
  [s EXCEPT !.pools =
     IF Knows(s, name) THEN [i \in DOMAIN @ |-> Resized(@[i], name, capacity)]
     ELSE Append(@, [name |-> name, capacity |-> capacity, active |-> 0])]

-----------------------------------------------------------------------------
(* The line. *)

FirstUnknown(s, chain) ==
  IF \A i \in 1..Len(chain) : Knows(s, chain[i]) THEN None
  ELSE chain[CHOOSE i \in 1..Len(chain) :
         /\ ~Knows(s, chain[i])
         /\ \A j \in 1..(i - 1) : Knows(s, chain[j])]

Enqueue(s, chain) ==
  [s EXCEPT !.queue = Append(@, [ticket |-> s.nextTicket, chain |-> chain]),
            !.nextTicket = @ + 1]

(* The first in line whose whole chain has room. *)
NextUp(s) ==
  LET ready == {i \in 1..Len(s.queue) : HasRoom(s, s.queue[i].chain)}
  IN  IF ready = {} THEN None
      ELSE s.queue[CHOOSE i \in ready : \A j \in ready : i <= j]

WithoutTicket(queue, ticket) == Kept(queue, {w \in Members(queue) : w.ticket # ticket})

Leave(s, ticket) == [s EXCEPT !.queue = WithoutTicket(@, ticket)]

WithoutWaiter(queue, waiter) == Kept(queue, Members(queue) \ {waiter})

Admitted(s, w) == Take([s EXCEPT !.queue = WithoutWaiter(@, w)], w.chain)

(* Answers the waiter that was admitted and the state after it, or None. *)
AdmitNext(s) ==
  LET w == NextUp(s)
  IN  IF w = None THEN None ELSE [waiter |-> w, state |-> Admitted(s, w)]

(* One waiter's turn: None unless it is the next. *)
Admit(s, ticket) ==
  LET w == NextUp(s)
  IN  IF w = None THEN None
      ELSE IF w.ticket # ticket THEN None ELSE Admitted(s, w)

(* As many turns as there are in line, or until nobody can go. *)
SettleWithin(n, state) ==
  LET turn[k \in 0..n] ==
        IF k = 0 THEN [state |-> state, admitted |-> <<>>]
        ELSE LET next == AdmitNext(turn[k - 1].state)
             IN  IF next = None THEN turn[k - 1]
                 ELSE [state    |-> next.state,
                       admitted |-> Append(turn[k - 1].admitted, next.waiter.ticket)]
  IN  turn[n]

Settle(s) == SettleWithin(Len(s.queue), s)

(* The first waiter with that ticket. *)
WaiterOf(queue, ticket) ==
  LET those == {i \in 1..Len(queue) : queue[i].ticket = ticket}
  IN  IF those = {} THEN None
      ELSE queue[CHOOSE i \in those : \A j \in those : i <= j]

(* The waiters before that ticket. *)
Before(queue, ticket) ==
  {i \in 1..Len(queue) : \A j \in 1..i : queue[j].ticket # ticket}

(* Mutant: the waiters of all caps are counted. *)
OfItsCap_Any(queue, ahead, w) == ahead

OfItsCap(queue, ahead, w) == {i \in ahead : Head(queue[i].chain) = Head(w.chain)}

(* A waiter's place, from one, among the waiters of its own cap. *)
Position(s, ticket) ==
  LET w == WaiterOf(s.queue, ticket)
  IN  IF w = None THEN 0
      ELSE 1 + Cardinality(OfItsCap(s.queue, Before(s.queue, ticket), w))

(* A waiter counts on its cap's own pool and on each pool it lacks room in. *)
IsHeldBack(s, w, name) ==
  \/ Head(w.chain) = name
  \/ /\ name \in Names(w.chain)
     /\ Knows(s, name)
     /\ ~PoolHasRoom(PoolNamed(s, name))

HeldBack(s, name) ==
  Cardinality({i \in 1..Len(s.queue) : IsHeldBack(s, s.queue[i], name)})

(* Joining answers the ticket and the position, or the pool nobody knows. *)
Join(s, chain) ==
  LET name == FirstUnknown(s, chain)
  IN  IF name # None THEN [answer |-> "unknown", state |-> s]
      ELSE LET after == Enqueue(s, chain)
           IN  [answer |-> "queued", state |-> after, ticket |-> s.nextTicket,
                position |-> Position(after, s.nextTicket)]

(* Mutant: an arrival goes straight in when its own chain has room. *)
Arrive_IfRoom(s, chain) ==
  LET joined == Join(s, chain)
  IN  IF joined.answer = "unknown" \/ ~HasRoom(s, chain) THEN joined
      ELSE [answer |-> "admitted", state |-> Take(s, chain)]

Arrive(s, chain) ==
  LET joined == Join(s, chain)
  IN  IF joined.answer = "unknown" THEN joined
      ELSE LET turn == Admit(joined.state, joined.ticket)
           IN  IF turn = None THEN joined
               ELSE [answer |-> "admitted", state |-> turn]
=============================================================================
