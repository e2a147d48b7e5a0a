-------------------------- MODULE PoolSystem_proofs --------------------------
(***************************************************************************)
(* Proofs about PoolSystem for every set of requests and every manifest:   *)
(* the slots are accounted for and the line is held, the limits are the    *)
(* effective ones, nobody is passed over, one canary goes at a time, and   *)
(* what the kernel answers is true.                                        *)
(*                                                                         *)
(* The recursive functions of the model (Kept, Configured, SettleWithin)   *)
(* are unfolded by two lemmas: a function defined step by step exists      *)
(* (Recursion), and what every step keeps holds of its last value          *)
(* (StepByStep).                                                           *)
(***************************************************************************)
EXTENDS PoolSystem, FiniteSetTheorems, TLAPS

-----------------------------------------------------------------------------
(***************************************************************************)
(* Recursion over a list, which the compiled functions do everywhere: it   *)
(* has a solution, and what holds at the start and is kept by each step    *)
(* holds at the end.                                                       *)
(***************************************************************************)
LEMMA LeastOf ==
  ASSUME NEW S \in SUBSET Nat, S # {}
  PROVE  \E n \in S : \A m \in S : n <= m
<1>1. \E n \in S : \A m \in S : ~ (<<m, n>> \in OpToRel(<, Nat))
  BY NatLessThanWellFounded, WFMin
<1>2. PICK n \in S : \A m \in S : ~ (<<m, n>> \in OpToRel(<, Nat))
  BY <1>1
<1>3. \A m \in S : ~ (m < n)
  BY <1>2 DEF OpToRel
<1>4. QED
  BY <1>3

(* f goes from base by the steps of g. *)
Goes(f, n, base, g) ==
  /\ f[0] = base
  /\ \A i \in 1..n : f[i] = g[<<i, f[i - 1]>>]

LEMMA Recursion ==
  ASSUME NEW D, NEW n \in Nat, NEW base \in D, NEW g \in [(1..n) \X D -> D]
  PROVE  \E f \in [0..n -> D] : Goes(f, n, base, g)
<1> DEFINE S == {k \in 0..n : ~ \E f \in [0..k -> D] : Goes(f, k, base, g)}
<1>1. SUFFICES ASSUME S # {} PROVE FALSE
  <2>1. n \in 0..n
    OBVIOUS
  <2>2. QED
    BY <2>1
<1>2. PICK k \in S : \A m \in S : k <= m
  <2>1. S \in SUBSET Nat
    OBVIOUS
  <2> HIDE DEF S
  <2>2. QED
    BY <1>1, <2>1, LeastOf
<1>3. k \in 0..n /\ ~ \E f \in [0..k -> D] : Goes(f, k, base, g)
  OBVIOUS
<1>4. k # 0
  <2>1. [i \in 0..0 |-> base] \in [0..0 -> D] /\ Goes([i \in 0..0 |-> base], 0, base, g)
    BY DEF Goes
  <2>2. QED
    BY <1>3, <2>1
<1>5. k - 1 \in 0..n /\ k - 1 \notin S
  <2>1. k - 1 \in 0..n /\ ~ (k <= k - 1)
    BY <1>3, <1>4
  <2> HIDE DEF S
  <2>2. QED
    BY <1>2, <2>1
<1>6. PICK h \in [0..(k - 1) -> D] : Goes(h, k - 1, base, g)
  BY <1>5
<1> DEFINE f == [i \in 0..k |-> IF i = k THEN g[<<k, h[k - 1]>>] ELSE h[i]]
<1>7. k - 1 \in 0..(k - 1) /\ k \in 1..n /\ \A i \in 0..k : i # k => i \in 0..(k - 1)
  BY <1>3, <1>4
<1>8. f \in [0..k -> D]
  <2>1. g[<<k, h[k - 1]>>] \in D
    BY <1>7
  <2>2. QED
    BY <1>7, <2>1
<1>9. Goes(f, k, base, g)
  <2>1. f[0] = base
    BY <1>3, <1>4, <1>6 DEF Goes
  <2>2. ASSUME NEW i \in 1..k
        PROVE  f[i] = g[<<i, f[i - 1]>>]
    <3>1. i - 1 \in 0..k /\ i - 1 # k /\ i \in 0..k
      BY <1>3
    <3>2. f[i - 1] = h[i - 1]
      BY <3>1
    <3>3. CASE i = k
      BY <3>1, <3>2, <3>3
    <3>4. CASE i # k
      <4>1. i \in 1..(k - 1)
        BY <1>3, <3>4
      <4>2. h[i] = g[<<i, h[i - 1]>>]
        BY <1>6, <4>1 DEF Goes
      <4>3. f[i] = h[i]
        BY <3>1, <3>4
      <4>4. QED
        BY <3>2, <4>2, <4>3
    <3>5. QED
      BY <3>3, <3>4
  <2> HIDE DEF f
  <2>3. QED
    BY <2>1, <2>2 DEF Goes
<1>10. QED
  BY <1>3, <1>8, <1>9

LEMMA StepByStep ==
  ASSUME NEW n \in Nat, NEW f, NEW J, f[0] \in J[0],
         \A i \in 1..n : f[i - 1] \in J[i - 1] => f[i] \in J[i]
  PROVE  \A i \in 0..n : f[i] \in J[i]
<1> DEFINE S == {i \in 0..n : f[i] \notin J[i]}
<1>1. SUFFICES ASSUME S # {} PROVE FALSE
  OBVIOUS
<1>2. PICK i \in S : \A m \in S : i <= m
  <2>1. S \in SUBSET Nat
    OBVIOUS
  <2> HIDE DEF S
  <2>2. QED
    BY <1>1, <2>1, LeastOf
<1>3. i \in 0..n /\ f[i] \notin J[i] /\ i # 0
  OBVIOUS
<1>4. i - 1 \in 0..n /\ ~ (i <= i - 1) /\ i \in 1..n
  BY <1>3
<1>5. f[i - 1] \in J[i - 1]
  BY <1>2, <1>4
<1>6. QED
  BY <1>3, <1>4, <1>5

-----------------------------------------------------------------------------
(***************************************************************************)
(* A filtered list has the members that pass, in the order of the list     *)
(* (the filters of CapDAG-Bifaci-Pools.c:4087-4171, 4343-4425, 4545-4627). *)
(***************************************************************************)
Keeps(f, list, set) ==
  f = [i \in 0..Len(list) |->
        IF i = 0 THEN <<>>
        ELSE IF list[i] \in set THEN Append(f[i - 1], list[i]) ELSE f[i - 1]]

LEMMA KeptUnfolds ==
  ASSUME NEW S, NEW list \in Seq(S), NEW set
  PROVE  \E f : /\ Kept(list, set) = f[Len(list)] /\ f[0] = <<>>
                /\ \A i \in 0..Len(list) : f[i] \in Seq(S)
                /\ \A i \in 1..Len(list) :
                     f[i] = IF list[i] \in set THEN Append(f[i - 1], list[i]) ELSE f[i - 1]
<1> DEFINE n == Len(list)
           g == [p \in (1..n) \X Seq(S) |->
                  IF list[p[1]] \in set THEN Append(p[2], list[p[1]]) ELSE p[2]]
<1>1. n \in Nat /\ \A i \in 1..n : list[i] \in S
  OBVIOUS
<1>2. g \in [(1..n) \X Seq(S) -> Seq(S)]
  <2>1. ASSUME NEW p \in (1..n) \X Seq(S)
        PROVE  (IF list[p[1]] \in set THEN Append(p[2], list[p[1]]) ELSE p[2]) \in Seq(S)
    <3>1. p[1] \in 1..n /\ p[2] \in Seq(S)
      OBVIOUS
    <3>2. list[p[1]] \in S
      BY <1>1, <3>1
    <3>3. QED
      BY <3>1, <3>2
  <2>2. QED
    BY <2>1
<1>3. \A i \in 1..n, x \in Seq(S) :
        g[<<i, x>>] = IF list[i] \in set THEN Append(x, list[i]) ELSE x
  OBVIOUS
<1> HIDE DEF g
<1>4. PICK h \in [0..n -> Seq(S)] : Goes(h, n, <<>>, g)
  <2>1. <<>> \in Seq(S)
    OBVIOUS
  <2> HIDE DEF n
  <2>2. QED
    BY <1>1, <1>2, <2>1, Recursion
<1>5. ASSUME NEW i \in 0..n
      PROVE  h[i] = IF i = 0 THEN <<>>
                    ELSE IF list[i] \in set THEN Append(h[i - 1], list[i]) ELSE h[i - 1]
  <2>1. CASE i = 0
    BY <1>4, <2>1 DEF Goes
  <2>2. CASE i # 0
    <3>1. i \in 1..n /\ i - 1 \in 0..n
      BY <1>1, <2>2
    <3>2. h[i] = g[<<i, h[i - 1]>>] /\ h[i - 1] \in Seq(S)
      BY <1>4, <3>1 DEF Goes
    <3>3. QED
      BY <1>3, <2>2, <3>1, <3>2
  <2>3. QED
    BY <2>1, <2>2
<1>6. Keeps(h, list, set)
  <2>1. h = [i \in 0..n |-> h[i]]
    BY <1>4
  <2>2. QED
    BY <1>5, <2>1 DEF Keeps
<1> DEFINE f == CHOOSE f : Keeps(f, list, set)
<1>7. Keeps(f, list, set)
  BY <1>6
<1>8. Kept(list, set) = f[n]
  BY DEF Kept, Keeps
<1> HIDE DEF f
<1>9. \A i \in 0..n :
        f[i] = IF i = 0 THEN <<>>
               ELSE IF list[i] \in set THEN Append(f[i - 1], list[i]) ELSE f[i - 1]
  BY <1>7 DEF Keeps
<1>10. 0 \in 0..n /\ f[0] = <<>>
  BY <1>1, <1>9
<1>11. ASSUME NEW i \in 1..n
       PROVE  f[i] = IF list[i] \in set THEN Append(f[i - 1], list[i]) ELSE f[i - 1]
  <2>1. i \in 0..n /\ i # 0
    BY <1>1
  <2>2. QED
    BY <1>9, <2>1
<1>12. \A i \in 0..n : f[i] \in Seq(S)
  <2> DEFINE J == [i \in 0..n |-> Seq(S)]
  <2>1. \A i \in 0..n : J[i] = Seq(S)
    OBVIOUS
  <2> HIDE DEF J
  <2>2. f[0] \in J[0]
    <3>1. <<>> \in Seq(S)
      OBVIOUS
    <3>2. J[0] = Seq(S) /\ f[0] = <<>>
      BY <1>10, <2>1
    <3>3. QED
      BY <3>1, <3>2
  <2>3. ASSUME NEW i \in 1..n, f[i - 1] \in J[i - 1]
        PROVE  f[i] \in J[i]
    <3>1. i - 1 \in 0..n /\ i \in 0..n
      BY <1>1
    <3>2. f[i - 1] \in Seq(S) /\ list[i] \in S
      BY <1>1, <2>1, <2>3, <3>1
    <3>3. f[i] \in Seq(S)
      <4>1. PICK x : x = f[i - 1]
        OBVIOUS
      <4>2. Append(x, list[i]) \in Seq(S)
        BY <3>2, <4>1
      <4>3. QED
        BY <1>11, <3>2, <4>1, <4>2
    <3>4. QED
      BY <2>1, <3>1, <3>3
  <2> HIDE DEF n
  <2>4. QED
    BY <1>1, <2>1, <2>2, <2>3, StepByStep
<1>13. QED
  BY <1>8, <1>10, <1>11, <1>12

(* The members of the first i of a list that are in a set, in their order. *)
IsPart(part, list, i, set) ==
  /\ Members(part) = {list[j] : j \in {m \in 1..i : list[m] \in set}}
  /\ \A b \in 1..Len(part) : \E d \in 1..i :
       /\ part[b] = list[d]
       /\ \A a \in 1..(b - 1) : \E c \in 1..(d - 1) : part[a] = list[c]

LEMMA PartAppended ==
  ASSUME NEW S, NEW list \in Seq(S), NEW set, NEW part \in Seq(S), NEW i \in 1..Len(list),
         NEW k, k = i - 1,
         IsPart(part, list, k, set), list[i] \in set
  PROVE  IsPart(Append(part, list[i]), list, i, set)
<1>1. PICK n, m, more : /\ n = Len(part) /\ m = n + 1 /\ more = Append(part, list[i])
  OBVIOUS
<1>2. /\ n \in Nat /\ m \in Nat /\ n = m - 1 /\ Len(more) = m /\ more[m] = list[i]
      /\ \A j \in 1..n : more[j] = part[j] /\ j \in 1..m /\ j # m
      /\ \A j \in 1..m : j # m => j \in 1..n
      /\ m \in 1..m
  BY <1>1
<1>3. /\ i \in Nat /\ k \in Nat /\ i \in 1..i /\ \A j \in 1..k : j \in 1..i /\ j # i
      /\ \A j \in 1..i : j # i => j \in 1..k
  OBVIOUS
<1>4. Members(more) = {list[j] : j \in {q \in 1..i : list[q] \in set}}
  <2>1. Members(more) = Members(part) \cup {list[i]}
    BY <1>1, <1>2 DEF Members
  <2>2. {list[j] : j \in {q \in 1..i : list[q] \in set}}
          = {list[j] : j \in {q \in 1..k : list[q] \in set}} \cup {list[i]}
    BY <1>3
  <2>3. QED
    BY <2>1, <2>2 DEF IsPart
<1>5. ASSUME NEW b \in 1..Len(more)
      PROVE  \E d \in 1..i : /\ more[b] = list[d]
                             /\ \A a \in 1..(b - 1) : \E c \in 1..(d - 1) : more[a] = list[c]
  <2>1. CASE b = m
    <3>1. ASSUME NEW a \in 1..n
          PROVE  \E c \in 1..k : more[a] = list[c]
      <4>1. part[a] \in Members(part)
        BY <1>1 DEF Members
      <4>2. QED
        BY <1>2, <4>1 DEF IsPart
    <3>2. b - 1 = n /\ i - 1 = k /\ more[b] = list[i]
      BY <1>2, <2>1
    <3>3. QED
      BY <1>3, <3>1, <3>2
  <2>2. CASE b # m
    <3>1. b \in 1..n /\ more[b] = part[b]
      BY <1>2, <2>2
    <3>2. PICK d \in 1..k : /\ part[b] = list[d]
                            /\ \A a \in 1..(b - 1) : \E c \in 1..(d - 1) : part[a] = list[c]
      BY <1>1, <3>1 DEF IsPart
    <3>3. \A a \in 1..(b - 1) : a \in 1..n
      BY <1>2, <3>1
    <3>4. \A a \in 1..(b - 1) : more[a] = part[a]
      BY <1>2, <3>3
    <3>5. d \in 1..i /\ more[b] = list[d]
      BY <1>3, <3>1, <3>2
    <3>6. QED
      BY <3>2, <3>4, <3>5
  <2>3. QED
    BY <2>1, <2>2
<1>6. IsPart(more, list, i, set)
  BY <1>4, <1>5 DEF IsPart
<1>7. QED
  BY <1>1, <1>6

LEMMA KeptIsPart ==
  ASSUME NEW S, NEW list \in Seq(S), NEW set
  PROVE  /\ Kept(list, set) \in Seq(S)
         /\ IsPart(Kept(list, set), list, Len(list), set)
<1> DEFINE n == Len(list)
           J == [i \in 0..n |-> {x \in Seq(S) : IsPart(x, list, i, set)}]
<1>1. PICK f : /\ Kept(list, set) = f[n] /\ f[0] = <<>>
               /\ \A i \in 0..n : f[i] \in Seq(S)
               /\ \A i \in 1..n :
                    f[i] = IF list[i] \in set THEN Append(f[i - 1], list[i]) ELSE f[i - 1]
  BY KeptUnfolds
<1>2. n \in Nat /\ 0 \in 0..n /\ n \in 0..n
  OBVIOUS
<1>3. \A i \in 0..n : J[i] = {x \in Seq(S) : IsPart(x, list, i, set)}
  OBVIOUS
<1> HIDE DEF J
<1>4. f[0] \in J[0]
  <2>1. IsPart(<<>>, list, 0, set)
    BY DEF IsPart, Members
  <2>2. QED
    BY <1>1, <1>2, <1>3, <2>1
<1>5. ASSUME NEW i \in 1..n, f[i - 1] \in J[i - 1]
      PROVE  f[i] \in J[i]
  <2>1. PICK k : k = i - 1
    OBVIOUS
  <2>2. k \in 0..n /\ i \in 0..n /\ k \in Nat /\ i \in Nat
    BY <2>1
  <2>3. f[k] \in Seq(S) /\ IsPart(f[k], list, k, set)
    BY <1>3, <1>5, <2>1, <2>2
  <2>4. CASE list[i] \in set
    <3>1. IsPart(Append(f[k], list[i]), list, i, set)
      BY <2>1, <2>3, <2>4, PartAppended
    <3>2. f[i] = Append(f[k], list[i])
      BY <1>1, <2>1, <2>4
    <3>3. QED
      BY <1>1, <1>3, <2>2, <3>1, <3>2
  <2>5. CASE list[i] \notin set
    <3>1. f[i] = f[k]
      BY <1>1, <2>1, <2>5
    <3>2. /\ {j \in 1..i : list[j] \in set} = {j \in 1..k : list[j] \in set}
          /\ \A j \in 1..k : j \in 1..i
      BY <2>1, <2>2, <2>5
    <3>3. IsPart(f[k], list, i, set)
      BY <2>3, <3>2 DEF IsPart
    <3>4. QED
      BY <1>1, <1>3, <2>2, <3>1, <3>3
  <2>6. QED
    BY <2>4, <2>5
<1>6. \A i \in 0..n : f[i] \in J[i]
  <2> HIDE DEF n
  <2>1. QED
    BY <1>2, <1>4, <1>5, StepByStep
<1>7. QED
  BY <1>1, <1>2, <1>3, <1>6

LEMMA KeptMembers ==
  ASSUME NEW S, NEW list \in Seq(S), NEW set
  PROVE  Members(Kept(list, set)) = {x \in Members(list) : x \in set}
<1>1. IsPart(Kept(list, set), list, Len(list), set)
  BY KeptIsPart
<1>2. PICK n, part : n = Len(list) /\ part = Kept(list, set)
  OBVIOUS
<1>3. Members(part) = {list[j] : j \in {m \in 1..n : list[m] \in set}}
  BY <1>1, <1>2 DEF IsPart
<1>4. Members(list) = {list[j] : j \in 1..n}
  BY <1>2 DEF Members
<1>5. QED
  BY <1>2, <1>3, <1>4

-----------------------------------------------------------------------------
(***************************************************************************)
(* The pools of an install, one operation after the other.                 *)
(***************************************************************************)
Listed(s) == {s.pools[i].name : i \in 1..Len(s.pools)}

OnlyOnce(s) == \A i, j \in 1..Len(s.pools) : s.pools[i].name = s.pools[j].name => i = j

LEMMA PoolStateParts ==
  ASSUME NEW s \in PoolStates
  PROVE  /\ s.pools \in Seq(Pool) /\ s.queue \in Seq(Waiter) /\ s.nextTicket \in Nat
         /\ Len(s.pools) \in Nat /\ Len(s.queue) \in Nat
         /\ DOMAIN s.pools = 1..Len(s.pools)
         /\ \A i \in 1..Len(s.pools) :
              /\ s.pools[i] \in Pool /\ s.pools[i].name \in PoolNames
              /\ s.pools[i].capacity \in Nat /\ s.pools[i].active \in Nat
         /\ \A i \in 1..Len(s.queue) :
              /\ s.queue[i] \in Waiter /\ s.queue[i].ticket \in Nat
              /\ s.queue[i].chain \in Seq(PoolNames)
<1>1. s.pools \in Seq(Pool) /\ s.queue \in Seq(Waiter) /\ s.nextTicket \in Nat
  BY DEF PoolStates
<1>2. \A i \in 1..Len(s.pools) : s.pools[i] \in Pool
  BY <1>1
<1>3. \A i \in 1..Len(s.queue) : s.queue[i] \in Waiter
  BY <1>1
<1>4. Len(s.pools) \in Nat /\ Len(s.queue) \in Nat /\ DOMAIN s.pools = 1..Len(s.pools)
  BY <1>1
<1>5. QED
  BY <1>1, <1>2, <1>3, <1>4 DEF Pool, Waiter

(***************************************************************************)
(* A pool's name finds the first pool of that name                         *)
(* (CapDAG-Bifaci-Pools.c:4695-4732).                                      *)
(***************************************************************************)
LEMMA PoolIsFound ==
  ASSUME NEW s \in PoolStates, NEW name
  PROVE  /\ name \in Listed(s) =>
              /\ Knows(s, name)
              /\ \E i \in 1..Len(s.pools) : PoolNamed(s, name) = s.pools[i] /\ s.pools[i].name = name
         /\ name \notin Listed(s) => ~Knows(s, name)
<1>1. CASE name \in Listed(s)
  <2> DEFINE S == {i \in 1..Len(s.pools) : s.pools[i].name = name}
  <2>1. S \in SUBSET Nat /\ S # {}
    BY <1>1 DEF Listed
  <2>2. PICK i \in S : \A m \in S : i <= m
    <3> HIDE DEF S
    <3>1. QED
      BY <2>1, LeastOf
  <2>3. /\ i \in 1..Len(s.pools) /\ s.pools[i].name = name
        /\ \A j \in 1..(i - 1) : s.pools[j].name # name
    BY <2>2, PoolStateParts
  <2> DEFINE k == CHOOSE m \in 1..Len(s.pools) :
                     s.pools[m].name = name /\ \A j \in 1..(m - 1) : s.pools[j].name # name
  <2>4. k \in 1..Len(s.pools) /\ s.pools[k].name = name
    BY <2>3
  <2>5. PoolNamed(s, name) = s.pools[k]
    BY <2>3 DEF PoolNamed
  <2> HIDE DEF k
  <2>6. s.pools[k] # None
    BY <2>4, PoolStateParts, NoneAssumption
  <2>7. QED
    BY <1>1, <2>4, <2>5, <2>6 DEF Knows
<1>2. CASE name \notin Listed(s)
  BY <1>2 DEF Listed, Knows, PoolNamed
<1>3. QED
  BY <1>1, <1>2

(* t has the pools of s with the same names and capacities, and s's line. *)
SameButCounts(s, t) ==
  /\ t \in PoolStates /\ t.queue = s.queue /\ t.nextTicket = s.nextTicket
  /\ Len(t.pools) = Len(s.pools)
  /\ \A i \in 1..Len(s.pools) :
       t.pools[i].name = s.pools[i].name /\ t.pools[i].capacity = s.pools[i].capacity

LEMMA TakeFacts ==
  ASSUME NEW s \in PoolStates, NEW through
  PROVE  /\ SameButCounts(s, Take(s, through))
         /\ \A i \in 1..Len(s.pools) :
              Take(s, through).pools[i].active =
                IF s.pools[i].name \in Names(through) THEN s.pools[i].active + 1 ELSE s.pools[i].active
<1> DEFINE ps == [i \in 1..Len(s.pools) |-> OneMore(s.pools[i], through)]
<1>1. ASSUME NEW i \in 1..Len(s.pools)
      PROVE  /\ ps[i] \in Pool /\ ps[i].name = s.pools[i].name /\ ps[i].capacity = s.pools[i].capacity
             /\ ps[i].active = IF s.pools[i].name \in Names(through)
                               THEN s.pools[i].active + 1 ELSE s.pools[i].active
  <2>1. s.pools[i] \in Pool
    BY PoolStateParts
  <2>2. QED
    BY <2>1 DEF OneMore, Pool
<1>2. ps \in Seq(Pool) /\ Len(ps) = Len(s.pools)
  <2>1. Len(s.pools) \in Nat
    BY PoolStateParts
  <2>2. \A i \in 1..Len(s.pools) : ps[i] \in Pool
    BY <1>1
  <2> HIDE DEF ps
  <2>3. ps = [i \in 1..Len(s.pools) |-> ps[i]]
    BY DEF ps
  <2>4. ps \in [1..Len(s.pools) -> Pool]
    BY <2>2, <2>3
  <2>5. QED
    BY <2>1, <2>4
<1>3. Take(s, through) = [s EXCEPT !.pools = ps]
  BY PoolStateParts DEF Take
<1> HIDE DEF ps
<1>4. /\ Take(s, through) \in PoolStates /\ Take(s, through).pools = ps
      /\ Take(s, through).queue = s.queue /\ Take(s, through).nextTicket = s.nextTicket
  BY <1>2, <1>3 DEF PoolStates
<1>5. QED
  BY <1>1, <1>2, <1>4 DEF SameButCounts

LEMMA ReleaseFacts ==
  ASSUME NEW s \in PoolStates, NEW through
  PROVE  /\ SameButCounts(s, Release(s, through))
         /\ \A i \in 1..Len(s.pools) :
              Release(s, through).pools[i].active =
                IF s.pools[i].name \in Names(through) /\ s.pools[i].active > 0
                THEN s.pools[i].active - 1 ELSE s.pools[i].active
<1> DEFINE ps == [i \in 1..Len(s.pools) |-> OneLess(s.pools[i], through)]
<1>1. ASSUME NEW i \in 1..Len(s.pools)
      PROVE  /\ ps[i] \in Pool /\ ps[i].name = s.pools[i].name /\ ps[i].capacity = s.pools[i].capacity
             /\ ps[i].active = IF s.pools[i].name \in Names(through) /\ s.pools[i].active > 0
                               THEN s.pools[i].active - 1 ELSE s.pools[i].active
  <2>1. s.pools[i] \in Pool
    BY PoolStateParts
  <2>2. QED
    BY <2>1 DEF OneLess, Pool
<1>2. ps \in Seq(Pool) /\ Len(ps) = Len(s.pools)
  <2>1. Len(s.pools) \in Nat
    BY PoolStateParts
  <2>2. \A i \in 1..Len(s.pools) : ps[i] \in Pool
    BY <1>1
  <2> HIDE DEF ps
  <2>3. ps = [i \in 1..Len(s.pools) |-> ps[i]]
    BY DEF ps
  <2>4. ps \in [1..Len(s.pools) -> Pool]
    BY <2>2, <2>3
  <2>5. QED
    BY <2>1, <2>4
<1>3. Release(s, through) = [s EXCEPT !.pools = ps]
  BY PoolStateParts DEF Release
<1> HIDE DEF ps
<1>4. /\ Release(s, through) \in PoolStates /\ Release(s, through).pools = ps
      /\ Release(s, through).queue = s.queue /\ Release(s, through).nextTicket = s.nextTicket
  BY <1>2, <1>3 DEF PoolStates
<1>5. QED
  BY <1>1, <1>2, <1>4 DEF SameButCounts

(***************************************************************************)
(* A list of capacities applied: what is listed keeps its count, what is   *)
(* new counts nobody (CapDAG-Bifaci-Pools.c:1054-1176).                    *)
(***************************************************************************)
(* t is s with the capacities of map for the names that are done. *)
Reset(s, t, map, done) ==
  /\ t \in PoolStates /\ t.queue = s.queue /\ t.nextTicket = s.nextTicket
  /\ Listed(t) = Listed(s) \cup done
  /\ \A i \in 1..Len(s.pools) :
       /\ i \in 1..Len(t.pools) /\ t.pools[i].name = s.pools[i].name
       /\ t.pools[i].active = s.pools[i].active
       /\ t.pools[i].capacity =
            IF s.pools[i].name \in done THEN map[s.pools[i].name] ELSE s.pools[i].capacity
  /\ \A i \in 1..Len(t.pools) : i \notin 1..Len(s.pools) =>
       /\ t.pools[i].name \in done /\ t.pools[i].name \notin Listed(s)
       /\ t.pools[i].active = 0 /\ t.pools[i].capacity = map[t.pools[i].name]
  /\ OnlyOnce(s) => OnlyOnce(t)

LEMMA ResetNothing ==
  ASSUME NEW s \in PoolStates, NEW map
  PROVE  Reset(s, s, map, {})
BY DEF Reset

LEMMA SetCapacityKnown ==
  ASSUME NEW s \in PoolStates, NEW name \in PoolNames, NEW capacity \in Nat,
         name \in Listed(s)
  PROVE  /\ SetCapacity(s, name, capacity) \in PoolStates
         /\ SetCapacity(s, name, capacity).queue = s.queue
         /\ SetCapacity(s, name, capacity).nextTicket = s.nextTicket
         /\ Len(SetCapacity(s, name, capacity).pools) = Len(s.pools)
         /\ \A i \in 1..Len(s.pools) :
              SetCapacity(s, name, capacity).pools[i] = Resized(s.pools[i], name, capacity)
<1> DEFINE ps == [i \in 1..Len(s.pools) |-> Resized(s.pools[i], name, capacity)]
<1>1. \A i \in 1..Len(s.pools) : ps[i] \in Pool
  <2>1. SUFFICES ASSUME NEW i \in 1..Len(s.pools) PROVE Resized(s.pools[i], name, capacity) \in Pool
    OBVIOUS
  <2>2. s.pools[i] \in Pool
    BY PoolStateParts
  <2>3. QED
    BY <2>2 DEF Resized, Pool
<1>2. ps \in Seq(Pool) /\ Len(ps) = Len(s.pools) /\ \A i \in 1..Len(s.pools) : ps[i] = Resized(s.pools[i], name, capacity)
  <2>1. Len(s.pools) \in Nat
    BY PoolStateParts
  <2>2. ps = [i \in 1..Len(s.pools) |-> ps[i]]
    OBVIOUS
  <2>3. \A i \in 1..Len(s.pools) : ps[i] = Resized(s.pools[i], name, capacity)
    OBVIOUS
  <2> HIDE DEF ps
  <2>4. ps \in [1..Len(s.pools) -> Pool]
    BY <1>1, <2>2
  <2>5. QED
    BY <2>1, <2>3, <2>4
<1>3. SetCapacity(s, name, capacity) = [s EXCEPT !.pools = ps]
  <2>1. Knows(s, name)
    BY PoolIsFound
  <2>2. QED
    BY <2>1, PoolStateParts DEF SetCapacity
<1> HIDE DEF ps
<1>4. QED
  BY <1>2, <1>3 DEF PoolStates

LEMMA SetCapacityNew ==
  ASSUME NEW s \in PoolStates, NEW name \in PoolNames, NEW capacity \in Nat,
         name \notin Listed(s)
  PROVE  /\ SetCapacity(s, name, capacity) \in PoolStates
         /\ SetCapacity(s, name, capacity).queue = s.queue
         /\ SetCapacity(s, name, capacity).nextTicket = s.nextTicket
         /\ SetCapacity(s, name, capacity).pools
              = Append(s.pools, [name |-> name, capacity |-> capacity, active |-> 0])
<1> DEFINE p == [name |-> name, capacity |-> capacity, active |-> 0]
<1>1. p \in Pool
  BY DEF Pool
<1>2. SetCapacity(s, name, capacity) = [s EXCEPT !.pools = Append(s.pools, p)]
  BY PoolIsFound DEF SetCapacity
<1> HIDE DEF p
<1>3. Append(s.pools, p) \in Seq(Pool)
  BY <1>1, PoolStateParts
<1>4. QED
  BY <1>2, <1>3 DEF PoolStates, p

LEMMA ResetOneMore ==
  ASSUME NEW s \in PoolStates, NEW t, NEW map, NEW done, NEW name \in PoolNames,
         map[name] \in Nat, Reset(s, t, map, done)
  PROVE  Reset(s, SetCapacity(t, name, map[name]), map, done \cup {name})
<1>1. PICK u : u = SetCapacity(t, name, map[name])
  OBVIOUS
<1>2. t \in PoolStates /\ Len(t.pools) \in Nat /\ Len(s.pools) \in Nat
  BY PoolStateParts DEF Reset
<1>3. CASE name \in Listed(t)
  <2>1. /\ u \in PoolStates /\ u.queue = s.queue /\ u.nextTicket = s.nextTicket
        /\ Len(u.pools) = Len(t.pools)
        /\ \A i \in 1..Len(t.pools) : u.pools[i] = Resized(t.pools[i], name, map[name])
    BY <1>1, <1>2, <1>3, SetCapacityKnown DEF Reset
  <2>2. \A i \in 1..Len(t.pools) :
          /\ u.pools[i].name = t.pools[i].name /\ u.pools[i].active = t.pools[i].active
          /\ u.pools[i].capacity = IF t.pools[i].name = name THEN map[name] ELSE t.pools[i].capacity
    <3>1. SUFFICES ASSUME NEW i \in 1..Len(t.pools)
          PROVE /\ u.pools[i].name = t.pools[i].name /\ u.pools[i].active = t.pools[i].active
                /\ u.pools[i].capacity = IF t.pools[i].name = name THEN map[name] ELSE t.pools[i].capacity
      OBVIOUS
    <3>2. t.pools[i] \in Pool
      BY <1>2, PoolStateParts
    <3>3. QED
      BY <2>1, <3>2 DEF Resized, Pool
  <2>3. Listed(u) = Listed(t)
    BY <2>1, <2>2 DEF Listed
  <2>4. Listed(u) = Listed(s) \cup (done \cup {name})
    BY <1>3, <2>3 DEF Reset
  <2>5. OnlyOnce(t) => OnlyOnce(u)
    BY <2>1, <2>2 DEF OnlyOnce
  <2>6. \A i \in 1..Len(s.pools) :
          /\ i \in 1..Len(u.pools) /\ u.pools[i].name = s.pools[i].name
          /\ u.pools[i].active = s.pools[i].active
          /\ u.pools[i].capacity =
               IF s.pools[i].name \in done \cup {name} THEN map[s.pools[i].name] ELSE s.pools[i].capacity
    BY <2>1, <2>2 DEF Reset
  <2>7. \A i \in 1..Len(u.pools) : i \notin 1..Len(s.pools) =>
          /\ u.pools[i].name \in done \cup {name} /\ u.pools[i].name \notin Listed(s)
          /\ u.pools[i].active = 0 /\ u.pools[i].capacity = map[u.pools[i].name]
    BY <2>1, <2>2 DEF Reset
  <2>8. QED
    BY <1>1, <2>1, <2>4, <2>5, <2>6, <2>7 DEF Reset
<1>4. CASE name \notin Listed(t)
  <2> DEFINE p == [name |-> name, capacity |-> map[name], active |-> 0]
  <2>1. /\ u \in PoolStates /\ u.queue = s.queue /\ u.nextTicket = s.nextTicket
        /\ u.pools = Append(t.pools, p)
    BY <1>1, <1>2, <1>4, SetCapacityNew DEF Reset
  <2>2. p.name = name /\ p.capacity = map[name] /\ p.active = 0
    OBVIOUS
  <2> HIDE DEF p
  <2>3. PICK n : n = Len(t.pools) + 1
    OBVIOUS
  <2>4. /\ n \in Nat /\ n \in 1..n /\ Len(u.pools) = n /\ u.pools[n] = p /\ n \notin 1..Len(t.pools)
        /\ \A i \in 1..Len(t.pools) : i \in 1..n /\ i # n /\ u.pools[i] = t.pools[i]
        /\ \A i \in 1..n : i # n => i \in 1..Len(t.pools)
    <3>1. t.pools \in Seq(Pool)
      BY <1>2, PoolStateParts
    <3>2. QED
      BY <1>2, <2>1, <2>3, <3>1
  <2>5. \A i \in 1..Len(t.pools) : u.pools[i].name # name
    BY <1>4, <2>4 DEF Listed
  <2>6. Listed(u) = Listed(t) \cup {name}
    BY <2>2, <2>4 DEF Listed
  <2>7. Listed(u) = Listed(s) \cup (done \cup {name})
    BY <2>6 DEF Reset
  <2>8. OnlyOnce(t) => OnlyOnce(u)
    BY <2>2, <2>4, <2>5 DEF OnlyOnce
  <2>9. \A i \in 1..Len(s.pools) : i \in 1..Len(t.pools) /\ s.pools[i].name # name
    BY <1>4 DEF Reset, Listed
  <2>10. \A i \in 1..Len(s.pools) :
          /\ i \in 1..Len(u.pools) /\ u.pools[i].name = s.pools[i].name
          /\ u.pools[i].active = s.pools[i].active
          /\ u.pools[i].capacity =
               IF s.pools[i].name \in done \cup {name} THEN map[s.pools[i].name] ELSE s.pools[i].capacity
    <3>1. SUFFICES ASSUME NEW i \in 1..Len(s.pools)
          PROVE  /\ i \in 1..Len(u.pools) /\ u.pools[i].name = s.pools[i].name
                 /\ u.pools[i].active = s.pools[i].active
                 /\ u.pools[i].capacity =
                      IF s.pools[i].name \in done \cup {name} THEN map[s.pools[i].name]
                      ELSE s.pools[i].capacity
      OBVIOUS
    <3>2. i \in 1..Len(t.pools) /\ s.pools[i].name # name
      BY <2>9
    <3>3. i \in 1..Len(u.pools) /\ u.pools[i] = t.pools[i]
      BY <2>4, <3>2
    <3>4. /\ t.pools[i].name = s.pools[i].name /\ t.pools[i].active = s.pools[i].active
          /\ t.pools[i].capacity =
               IF s.pools[i].name \in done THEN map[s.pools[i].name] ELSE s.pools[i].capacity
      BY DEF Reset
    <3>5. QED
      BY <3>2, <3>3, <3>4
  <2>11. \A i \in 1..Len(u.pools) : i \notin 1..Len(s.pools) =>
          /\ u.pools[i].name \in done \cup {name} /\ u.pools[i].name \notin Listed(s)
          /\ u.pools[i].active = 0 /\ u.pools[i].capacity = map[u.pools[i].name]
    <3>1. name \notin Listed(s)
      BY <2>9 DEF Listed
    <3>2. QED
      BY <2>2, <2>4, <3>1 DEF Reset
  <2>12. QED
    BY <1>1, <2>1, <2>7, <2>8, <2>10, <2>11 DEF Reset
<1>5. QED
  BY <1>3, <1>4

LEMMA ConfiguredUnfolds ==
  ASSUME NEW s \in PoolStates, NEW map, \A p \in PoolNames : p \in DOMAIN map => map[p] \in Nat
  PROVE  \E f : /\ Configured(s, map) = f[Len(Sorted)] /\ f[0] = s
                /\ \A i \in 1..Len(Sorted) :
                     f[i] = IF Sorted[i] \notin DOMAIN map THEN f[i - 1]
                            ELSE SetCapacity(f[i - 1], Sorted[i], map[Sorted[i]])
<1> DEFINE n == Len(Sorted)
           Step(i, x) == IF Sorted[i] \notin DOMAIN map THEN x
                         ELSE SetCapacity(x, Sorted[i], map[Sorted[i]])
           g == [p \in (1..n) \X PoolStates |-> Step(p[1], p[2])]
           Solves(f) == f = [i \in 0..Len(Sorted) |->
             IF i = 0 THEN s
             ELSE IF Sorted[i] \notin DOMAIN map THEN f[i - 1]
             ELSE SetCapacity(f[i - 1], Sorted[i], map[Sorted[i]])]
<1>1. n \in Nat /\ \A i \in 1..n : Sorted[i] \in PoolNames
  BY ManifestAssumption
<1>2. g \in [(1..n) \X PoolStates -> PoolStates]
  <2>1. ASSUME NEW i \in 1..n, NEW x \in PoolStates
        PROVE  Step(i, x) \in PoolStates
    <3>1. Sorted[i] \in DOMAIN map => SetCapacity(x, Sorted[i], map[Sorted[i]]) \in PoolStates
      BY <1>1, SetCapacityKnown, SetCapacityNew
    <3>2. QED
      BY <3>1
  <2> HIDE DEF Step
  <2>2. QED
    BY <2>1
<1>3. \A i \in 1..n, x \in PoolStates : g[<<i, x>>] = Step(i, x)
  OBVIOUS
<1> HIDE DEF g
<1>4. PICK h \in [0..n -> PoolStates] : Goes(h, n, s, g)
  <2> HIDE DEF n
  <2>1. QED
    BY <1>1, <1>2, Recursion
<1>5. ASSUME NEW i \in 0..n
      PROVE  h[i] = IF i = 0 THEN s ELSE Step(i, h[i - 1])
  <2> HIDE DEF Step
  <2>1. CASE i = 0
    BY <1>4, <2>1 DEF Goes
  <2>2. CASE i # 0
    <3>1. i \in 1..n /\ i - 1 \in 0..n
      BY <1>1, <2>2
    <3>2. h[i] = g[<<i, h[i - 1]>>] /\ h[i - 1] \in PoolStates
      BY <1>4, <3>1 DEF Goes
    <3>3. QED
      BY <1>3, <2>2, <3>1, <3>2
  <2>3. QED
    BY <2>1, <2>2
<1>6. Solves(h)
  <2>1. h = [i \in 0..n |-> h[i]]
    BY <1>4
  <2>2. QED
    BY <1>5, <2>1
<1> DEFINE f == CHOOSE f : Solves(f)
<1>7. Solves(f)
  BY <1>6
<1>8. Configured(s, map) = f[n]
  BY DEF Configured
<1> HIDE DEF f
<1>9. \A i \in 0..n : f[i] = IF i = 0 THEN s ELSE Step(i, f[i - 1])
  BY <1>7
<1>10. f[0] = s
  BY <1>1, <1>9
<1>11. \A i \in 1..n : i \in 0..n /\ i # 0
  BY <1>1
<1>12. \A i \in 1..n : f[i] = Step(i, f[i - 1])
  <2> HIDE DEF Step
  <2>1. QED
    BY <1>9, <1>11
<1>13. QED
  BY <1>8, <1>10, <1>12

(***************************************************************************)
(* configure_pools applies the whole map (pools.py, one set_capacity per   *)
(* pool in the order of the names).                                        *)
(***************************************************************************)
LEMMA ConfiguredFacts ==
  ASSUME NEW s \in PoolStates, NEW map, \A p \in PoolNames : p \in DOMAIN map => map[p] \in Nat
  PROVE  Reset(s, Configured(s, map), map, PoolNames \cap DOMAIN map)
<1> DEFINE n == Len(Sorted)
           done == [i \in 0..n |-> {Sorted[j] : j \in {m \in 1..i : Sorted[m] \in DOMAIN map}}]
           J == [i \in 0..n |-> {x \in PoolStates : Reset(s, x, map, done[i])}]
<1>1. n \in Nat /\ \A i \in 1..n : Sorted[i] \in PoolNames
  BY ManifestAssumption
<1>2. PICK f : /\ Configured(s, map) = f[n] /\ f[0] = s
               /\ \A i \in 1..n :
                    f[i] = IF Sorted[i] \notin DOMAIN map THEN f[i - 1]
                           ELSE SetCapacity(f[i - 1], Sorted[i], map[Sorted[i]])
  BY ConfiguredUnfolds
<1>3. \A i \in 0..n : J[i] = {x \in PoolStates : Reset(s, x, map, done[i])}
  OBVIOUS
<1> HIDE DEF J
<1>4. f[0] \in J[0]
  <2>1. 0 \in 0..n /\ done[0] = {}
    BY <1>1
  <2> HIDE DEF done
  <2>2. Reset(s, s, map, done[0])
    <3>1. Reset(s, s, map, {})
      BY ResetNothing
    <3>2. QED
      BY <2>1, <3>1
  <2>3. QED
    BY <1>2, <1>3, <2>2
<1>5. ASSUME NEW i \in 1..n, f[i - 1] \in J[i - 1]
      PROVE  f[i] \in J[i]
  <2>1. PICK k : k = i - 1
    OBVIOUS
  <2>2. k \in 0..n /\ i \in 0..n /\ Sorted[i] \in PoolNames
    BY <1>1, <2>1
  <2>3. f[k] \in PoolStates /\ Reset(s, f[k], map, done[k])
    BY <1>3, <1>5, <2>1, <2>2
  <2>4. CASE Sorted[i] \in DOMAIN map
    <3>1. done[i] = done[k] \cup {Sorted[i]}
      BY <2>1, <2>2, <2>4
    <3> HIDE DEF done
    <3>2. map[Sorted[i]] \in Nat /\ f[i] = SetCapacity(f[k], Sorted[i], map[Sorted[i]])
      BY <1>2, <2>1, <2>2, <2>4
    <3>3. Reset(s, f[i], map, done[i])
      <4>1. Reset(s, SetCapacity(f[k], Sorted[i], map[Sorted[i]]), map, done[k] \cup {Sorted[i]})
        BY <2>2, <2>3, <3>2, ResetOneMore
      <4>2. QED
        BY <3>1, <3>2, <4>1
    <3>4. f[i] \in PoolStates
      BY <3>3 DEF Reset
    <3>5. QED
      BY <1>3, <2>2, <3>3, <3>4
  <2>5. CASE Sorted[i] \notin DOMAIN map
    <3>1. done[i] = done[k]
      BY <2>1, <2>2, <2>5
    <3> HIDE DEF done
    <3>2. f[i] = f[k]
      BY <1>2, <2>1, <2>5
    <3>3. QED
      BY <1>3, <2>2, <2>3, <3>1, <3>2
  <2>6. QED
    BY <2>4, <2>5
<1>6. n \in 0..n /\ \A i \in 0..n : f[i] \in J[i]
  <2> HIDE DEF n
  <2>1. \A i \in 0..n : f[i] \in J[i]
    BY <1>1, <1>4, <1>5, StepByStep
  <2>2. QED
    BY <1>1, <2>1
<1>7. done[n] = PoolNames \cap DOMAIN map
  BY DEF PoolNames, Names, Members
<1> HIDE DEF done
<1>8. QED
  BY <1>2, <1>3, <1>6, <1>7

-----------------------------------------------------------------------------
(***************************************************************************)
(* The line: who joins goes to its end with a ticket of its own, who goes  *)
(* or leaves is taken out and the others stay as they were                 *)
(* (CapDAG-Bifaci-Pools.c:460-515, 630-699, 813-864, 4642-4679).           *)
(***************************************************************************)
InOrder(s) ==
  \A i \in 1..Len(s.queue) :
    /\ s.queue[i].ticket < s.nextTicket
    /\ \A j \in 1..(i - 1) : s.queue[j].ticket < s.queue[i].ticket

Line(s) == Members(s.queue)

LEMMA LineFacts ==
  ASSUME NEW s \in PoolStates, InOrder(s)
  PROVE  /\ \A w \in Line(s) : /\ w \in Waiter /\ w.ticket \in Nat /\ w.chain \in Seq(PoolNames)
                               /\ w.ticket < s.nextTicket
         /\ \A v, w \in Line(s) : v.ticket = w.ticket => v = w
         /\ \A i \in 1..Len(s.queue) : \A j \in 1..(i - 1) :
              j \in 1..Len(s.queue) /\ s.queue[j].ticket < s.queue[i].ticket
         /\ \A i, j \in 1..Len(s.queue) :
              s.queue[j].ticket < s.queue[i].ticket => j \in 1..(i - 1)
<1>1. \A w \in Line(s) : /\ w \in Waiter /\ w.ticket \in Nat /\ w.chain \in Seq(PoolNames)
                         /\ w.ticket < s.nextTicket
  BY PoolStateParts DEF Line, Members, InOrder
<1>2. ASSUME NEW i \in 1..Len(s.queue), NEW j \in 1..Len(s.queue),
             s.queue[i].ticket = s.queue[j].ticket
      PROVE  i = j
  <2>1. Len(s.queue) \in Nat /\ s.queue[i].ticket \in Nat /\ s.queue[j].ticket \in Nat
    BY PoolStateParts
  <2>2. i < j => i \in 1..(j - 1)
    BY <2>1
  <2>3. j < i => j \in 1..(i - 1)
    BY <2>1
  <2>4. ~(i < j) /\ ~(j < i)
    BY <1>2, <2>1, <2>2, <2>3 DEF InOrder
  <2>5. QED
    BY <2>1, <2>4
<1>3. \A v, w \in Line(s) : v.ticket = w.ticket => v = w
  BY <1>2 DEF Line, Members
<1>4. \A i \in 1..Len(s.queue) : \A j \in 1..(i - 1) :
        j \in 1..Len(s.queue) /\ s.queue[j].ticket < s.queue[i].ticket
  BY PoolStateParts DEF InOrder
<1>5. ASSUME NEW i \in 1..Len(s.queue), NEW j \in 1..Len(s.queue),
             s.queue[j].ticket < s.queue[i].ticket
      PROVE  j \in 1..(i - 1)
  <2>1. Len(s.queue) \in Nat /\ s.queue[i].ticket \in Nat /\ s.queue[j].ticket \in Nat
    BY PoolStateParts
  <2>2. i # j
    BY <1>5, <2>1
  <2>3. i < j => i \in 1..(j - 1)
    BY <2>1
  <2>4. ~(i < j)
    BY <1>4, <1>5, <2>1, <2>3
  <2>5. QED
    BY <2>1, <2>2, <2>4
<1>6. QED
  BY <1>1, <1>3, <1>4, <1>5

LEMMA KeptLine ==
  ASSUME NEW s \in PoolStates, InOrder(s), NEW set,
         NEW t, t = [s EXCEPT !.queue = Kept(s.queue, set)]
  PROVE  /\ t \in PoolStates /\ t.pools = s.pools /\ t.nextTicket = s.nextTicket
         /\ InOrder(t) /\ Line(t) = {w \in Line(s) : w \in set}
<1> DEFINE q == Kept(s.queue, set)
<1>1. s.queue \in Seq(Waiter)
  BY PoolStateParts
<1>2. q \in Seq(Waiter) /\ IsPart(q, s.queue, Len(s.queue), set)
  BY <1>1, KeptIsPart
<1>3. Members(q) = {w \in Members(s.queue) : w \in set}
  BY <1>1, KeptMembers
<1>4. t = [s EXCEPT !.queue = q]
  OBVIOUS
<1> HIDE DEF q
<1>5. t \in PoolStates /\ t.pools = s.pools /\ t.nextTicket = s.nextTicket /\ t.queue = q
  BY <1>2, <1>4 DEF PoolStates
<1>6. ASSUME NEW b \in 1..Len(q)
      PROVE  /\ q[b].ticket < s.nextTicket
             /\ \A a \in 1..(b - 1) : q[a].ticket < q[b].ticket
  <2>1. PICK d \in 1..Len(s.queue) :
               /\ q[b] = s.queue[d]
               /\ \A a \in 1..(b - 1) : \E c \in 1..(d - 1) : q[a] = s.queue[c]
    BY <1>2 DEF IsPart
  <2>2. /\ s.queue[d].ticket < s.nextTicket
        /\ \A c \in 1..(d - 1) : s.queue[c].ticket < s.queue[d].ticket
    BY DEF InOrder
  <2>3. QED
    BY <2>1, <2>2
<1>7. QED
  BY <1>3, <1>5, <1>6 DEF InOrder, Line

LEMMA LeaveFacts ==
  ASSUME NEW s \in PoolStates, InOrder(s), NEW number
  PROVE  /\ Leave(s, number) \in PoolStates /\ Leave(s, number).pools = s.pools
         /\ Leave(s, number).nextTicket = s.nextTicket
         /\ InOrder(Leave(s, number))
         /\ Line(Leave(s, number)) = {w \in Line(s) : w.ticket # number}
<1> DEFINE set == {w \in Members(s.queue) : w.ticket # number}
<1>1. Leave(s, number) = [s EXCEPT !.queue = Kept(s.queue, set)]
  BY DEF Leave, WithoutTicket
<1>2. {w \in Line(s) : w \in set} = {w \in Line(s) : w.ticket # number}
  BY DEF Line
<1> HIDE DEF set
<1>3. QED
  BY <1>1, <1>2, KeptLine

(* t is s after w has taken its slots and left the line. *)
Went(s, t, w) ==
  /\ t \in PoolStates /\ t.nextTicket = s.nextTicket
  /\ InOrder(t) /\ Line(t) = Line(s) \ {w}
  /\ Len(t.pools) = Len(s.pools)
  /\ \A i \in 1..Len(s.pools) :
       /\ t.pools[i].name = s.pools[i].name /\ t.pools[i].capacity = s.pools[i].capacity
       /\ t.pools[i].active =
            IF s.pools[i].name \in Names(w.chain) THEN s.pools[i].active + 1 ELSE s.pools[i].active

LEMMA AdmittedFacts ==
  ASSUME NEW s \in PoolStates, InOrder(s), NEW w \in Line(s)
  PROVE  Went(s, Admitted(s, w), w)
<1> DEFINE set == Members(s.queue) \ {w}
<1>1. PICK t : t = [s EXCEPT !.queue = Kept(s.queue, set)]
  OBVIOUS
<1>2. Admitted(s, w) = Take(t, w.chain)
  BY <1>1 DEF Admitted, WithoutWaiter
<1>3. {x \in Line(s) : x \in set} = Line(s) \ {w}
  BY DEF Line
<1> HIDE DEF set
<1>4. /\ t \in PoolStates /\ t.pools = s.pools /\ t.nextTicket = s.nextTicket
      /\ InOrder(t) /\ Line(t) = Line(s) \ {w}
  BY <1>1, <1>3, KeptLine
<1>5. PICK u : u = Take(t, w.chain)
  OBVIOUS
<1>6. /\ SameButCounts(t, u)
      /\ \A i \in 1..Len(t.pools) :
           u.pools[i].active =
             IF t.pools[i].name \in Names(w.chain) THEN t.pools[i].active + 1 ELSE t.pools[i].active
  BY <1>4, <1>5, TakeFacts
<1>7. InOrder(u) /\ Line(u) = Line(t)
  BY <1>4, <1>6 DEF SameButCounts, InOrder, Line
<1>8. QED
  BY <1>2, <1>4, <1>5, <1>6, <1>7 DEF Went, SameButCounts

LEMMA EnqueueFacts ==
  ASSUME NEW s \in PoolStates, InOrder(s), NEW through \in Seq(PoolNames)
  PROVE  /\ Enqueue(s, through) \in PoolStates /\ Enqueue(s, through).pools = s.pools
         /\ Enqueue(s, through).nextTicket = s.nextTicket + 1
         /\ InOrder(Enqueue(s, through))
         /\ Line(Enqueue(s, through)) = Line(s) \cup {[ticket |-> s.nextTicket, chain |-> through]}
<1> DEFINE w == [ticket |-> s.nextTicket, chain |-> through]
           q == Append(s.queue, w)
<1>1. w \in Waiter /\ w.ticket = s.nextTicket /\ s.nextTicket \in Nat /\ s.queue \in Seq(Waiter)
  BY PoolStateParts DEF Waiter
<1>2. Enqueue(s, through) = [[s EXCEPT !.queue = q] EXCEPT !.nextTicket = s.nextTicket + 1]
  BY DEF Enqueue, PoolStates
<1> HIDE DEF w
<1>3. PICK n : n = Len(s.queue) + 1
  OBVIOUS
<1>4. /\ q \in Seq(Waiter) /\ Len(q) = n /\ q[n] = w /\ n \in Nat
      /\ \A i \in 1..Len(s.queue) : i \in 1..n /\ i # n /\ q[i] = s.queue[i]
      /\ \A i \in 1..n : i # n => i \in 1..Len(s.queue) /\ \A j \in 1..(i - 1) : j \in 1..Len(s.queue)
      /\ \A j \in 1..(n - 1) : j \in 1..Len(s.queue)
      /\ n \in 1..n
  BY <1>1, <1>3
<1> HIDE DEF q
<1>5. PICK t : t = Enqueue(s, through)
  OBVIOUS
<1>6. t \in PoolStates /\ t.pools = s.pools /\ t.nextTicket = s.nextTicket + 1 /\ t.queue = q
  <2>1. PICK u : u = [s EXCEPT !.queue = q]
    OBVIOUS
  <2>2. u \in PoolStates /\ u.pools = s.pools /\ u.nextTicket = s.nextTicket /\ u.queue = q
    BY <1>4, <2>1 DEF PoolStates
  <2>3. t = [u EXCEPT !.nextTicket = s.nextTicket + 1] /\ s.nextTicket + 1 \in Nat
    BY <1>1, <1>2, <1>5, <2>1
  <2>4. QED
    BY <2>2, <2>3 DEF PoolStates
<1>7. InOrder(t)
  <2>1. \A i \in 1..Len(s.queue) : s.queue[i].ticket \in Nat /\ s.queue[i].ticket < s.nextTicket
    BY PoolStateParts DEF InOrder
  <2>2. ASSUME NEW i \in 1..n
        PROVE  /\ q[i].ticket < s.nextTicket + 1
               /\ \A j \in 1..(i - 1) : q[j].ticket < q[i].ticket
    <3>1. CASE i = n
      BY <1>1, <1>4, <2>1, <3>1
    <3>2. CASE i # n
      <4>1. i \in 1..Len(s.queue) /\ q[i] = s.queue[i]
        BY <1>4, <3>2
      <4>2. \A j \in 1..(i - 1) : q[j] = s.queue[j]
        BY <1>4, <3>2
      <4>3. \A j \in 1..(i - 1) : s.queue[j].ticket < s.queue[i].ticket
        BY <4>1 DEF InOrder
      <4>4. q[i].ticket < s.nextTicket + 1
        BY <1>1, <2>1, <4>1
      <4>5. QED
        BY <4>1, <4>2, <4>3, <4>4
    <3>3. QED
      BY <3>1, <3>2
  <2>3. QED
    BY <1>4, <1>6, <2>2 DEF InOrder
<1>8. Line(t) = Line(s) \cup {w}
  BY <1>4, <1>6 DEF Line, Members
<1>9. QED
  BY <1>5, <1>6, <1>7, <1>8 DEF w

(* Nobody who came before the number could go. *)
NobodyOlder(s, number) == \A v \in Line(s) : v.ticket < number => ~HasRoom(s, v.chain)

LEMMA NextUpFacts ==
  ASSUME NEW s \in PoolStates, InOrder(s)
  PROVE  /\ NextUp(s) = None => \A w \in Line(s) : ~HasRoom(s, w.chain)
         /\ NextUp(s) # None => /\ NextUp(s) \in Line(s) /\ HasRoom(s, NextUp(s).chain)
                                /\ NobodyOlder(s, NextUp(s).ticket)
<1> DEFINE ready == {i \in 1..Len(s.queue) : HasRoom(s, s.queue[i].chain)}
<1>1. CASE ready = {}
  BY <1>1 DEF NextUp, Line, Members
<1>2. CASE ready # {}
  <2>1. ready \in SUBSET Nat
    BY PoolStateParts
  <2>2. \E i \in ready : \A j \in ready : i <= j
    <3> HIDE DEF ready
    <3>1. QED
      BY <1>2, <2>1, LeastOf
  <2> DEFINE k == CHOOSE i \in ready : \A j \in ready : i <= j
  <2>3. k \in ready /\ \A j \in ready : k <= j
    <3> HIDE DEF ready
    <3>1. QED
      BY <2>2
  <2>4. NextUp(s) = s.queue[k]
    BY <1>2 DEF NextUp
  <2> HIDE DEF k
  <2>5. k \in 1..Len(s.queue) /\ HasRoom(s, s.queue[k].chain)
    BY <2>3
  <2>6. s.queue[k] \in Waiter /\ s.queue[k] # None
    BY <2>5, PoolStateParts, NoneAssumption
  <2>7. NobodyOlder(s, s.queue[k].ticket)
    <3>1. SUFFICES ASSUME NEW j \in 1..Len(s.queue), s.queue[j].ticket < s.queue[k].ticket
                   PROVE  ~HasRoom(s, s.queue[j].chain)
      BY DEF NobodyOlder, Line, Members
    <3>2. j \in 1..(k - 1)
      BY <2>5, <3>1, LineFacts
    <3>3. ~(k <= j)
      BY <2>5, <3>2
    <3>4. QED
      BY <2>3, <3>3
  <2>8. s.queue[k] \in Line(s)
    BY <2>5 DEF Line, Members
  <2>9. QED
    BY <2>4, <2>5, <2>6, <2>7, <2>8
<1>3. QED
  BY <1>1, <1>2

(***************************************************************************)
(* Whoever takes a turn is the first in line whose whole chain has room    *)
(* (CapDAG-Bifaci-Pools.c:315-456).                                        *)
(***************************************************************************)
LEMMA AdmitFacts ==
  ASSUME NEW s \in PoolStates, InOrder(s), NEW number, Admit(s, number) # None
  PROVE  \E w \in Line(s) : /\ w.ticket = number /\ Admit(s, number) = Admitted(s, w)
                            /\ Went(s, Admit(s, number), w)
                            /\ HasRoom(s, w.chain) /\ NobodyOlder(s, number)
<1> DEFINE w == NextUp(s)
<1>1. w # None /\ w.ticket = number /\ Admit(s, number) = Admitted(s, w)
  BY DEF Admit
<1>2. w \in Line(s) /\ HasRoom(s, w.chain) /\ NobodyOlder(s, w.ticket)
  BY <1>1, NextUpFacts
<1>3. Went(s, Admitted(s, w), w)
  BY <1>2, AdmittedFacts
<1>4. QED
  BY <1>1, <1>2, <1>3

LEMMA AdmitNextFacts ==
  ASSUME NEW s \in PoolStates, InOrder(s)
  PROVE  /\ AdmitNext(s) = None => \A w \in Line(s) : ~HasRoom(s, w.chain)
         /\ AdmitNext(s) # None =>
              \E w \in Line(s) : /\ AdmitNext(s).waiter = w /\ Went(s, AdmitNext(s).state, w)
                                 /\ HasRoom(s, w.chain) /\ NobodyOlder(s, w.ticket)
<1> DEFINE w == NextUp(s)
<1>1. CASE w = None
  BY <1>1, NextUpFacts DEF AdmitNext
<1>2. CASE w # None
  <2>1. w \in Line(s) /\ HasRoom(s, w.chain) /\ NobodyOlder(s, w.ticket)
    BY <1>2, NextUpFacts
  <2>2. Went(s, Admitted(s, w), w)
    BY <2>1, AdmittedFacts
  <2>3. AdmitNext(s) = [waiter |-> w, state |-> Admitted(s, w)]
    BY <1>2 DEF AdmitNext
  <2>4. AdmitNext(s) \in [waiter : Waiter, state : PoolStates]
    <3>1. w \in Waiter
      BY <2>1, LineFacts
    <3>2. Admitted(s, w) \in PoolStates
      BY <2>2 DEF Went
    <3>3. QED
      BY <2>3, <3>1, <3>2
  <2>5. AdmitNext(s) # None
    BY <2>4, NoneAssumption
  <2>6. AdmitNext(s).waiter = w /\ AdmitNext(s).state = Admitted(s, w)
    BY <2>3
  <2>7. QED
    BY <2>1, <2>2, <2>5, <2>6
<1>3. QED
  BY <1>1, <1>2

LEMMA JoinFacts ==
  ASSUME NEW s \in PoolStates, NEW through \in Seq(PoolNames), Names(through) \subseteq Listed(s)
  PROVE  /\ Join(s, through).answer = "queued"
         /\ Join(s, through).state = Enqueue(s, through)
         /\ Join(s, through).ticket = s.nextTicket
<1>1. \A i \in 1..Len(through) : Knows(s, through[i])
  BY PoolIsFound DEF Names, Members
<1>2. FirstUnknown(s, through) = None
  BY <1>1 DEF FirstUnknown
<1>3. QED
  BY <1>2 DEF Join

LEMMA ArriveFacts ==
  ASSUME NEW s \in PoolStates, InOrder(s), NEW through \in Seq(PoolNames),
         Names(through) \subseteq Listed(s), NEW a, a = Arrive(s, through),
         NEW w, w = [ticket |-> s.nextTicket, chain |-> through]
  PROVE  \/ /\ a.answer = "queued" /\ a.state = Enqueue(s, through) /\ a.ticket = s.nextTicket
         \/ /\ a.answer = "admitted" /\ Went(Enqueue(s, through), a.state, w)
            /\ HasRoom(s, through) /\ NobodyOlder(s, s.nextTicket)
<1>1. PICK j : j = Join(s, through)
  OBVIOUS
<1>2. /\ j.answer = "queued" /\ j.state = Enqueue(s, through) /\ j.ticket = s.nextTicket
  BY <1>1, JoinFacts
<1>3. PICK turn : turn = Admit(j.state, j.ticket)
  OBVIOUS
<1>4. a = IF turn = None THEN j ELSE [answer |-> "admitted", state |-> turn]
  BY <1>1, <1>2, <1>3 DEF Arrive
<1>5. CASE turn = None
  BY <1>2, <1>4, <1>5
<1>6. CASE turn # None
  <2>1. PICK e : e = Enqueue(s, through)
    OBVIOUS
  <2>2. /\ e \in PoolStates /\ InOrder(e) /\ e.pools = s.pools
        /\ Line(e) = Line(s) \cup {w}
    BY <2>1, EnqueueFacts
  <2>3. turn = Admit(e, s.nextTicket)
    BY <1>2, <1>3, <2>1
  <2>4. PICK v \in Line(e) : /\ v.ticket = s.nextTicket /\ Went(e, turn, v)
                             /\ HasRoom(e, v.chain) /\ NobodyOlder(e, s.nextTicket)
    BY <1>6, <2>2, <2>3, AdmitFacts
  <2>5. w \in Line(e) /\ w.ticket = s.nextTicket /\ w.chain = through
    BY <2>2
  <2>6. v = w
    <3>1. \A x, y \in Line(e) : x.ticket = y.ticket => x = y
      BY <2>2, LineFacts
    <3>2. QED
      BY <2>4, <2>5, <3>1
  <2>7. HasRoom(s, through)
    BY <2>2, <2>4, <2>5, <2>6 DEF HasRoom
  <2>8. NobodyOlder(s, s.nextTicket)
    BY <2>2, <2>4 DEF NobodyOlder, HasRoom
  <2>9. QED
    BY <1>4, <1>6, <2>1, <2>4, <2>6, <2>7, <2>8
<1>7. QED
  BY <1>5, <1>6

-----------------------------------------------------------------------------
(***************************************************************************)
(* The invariant.                                                          *)
(***************************************************************************)
Records == [running : BOOLEAN, pools : Limits \cup {None}]

TypeInv ==
  /\ engine \in PoolStates /\ local \in PoolStates
  /\ record \in Records /\ host \in Records
  /\ notices \in Seq(Records) /\ Len(notices) <= MaxNotices
  /\ phase \in [Requests -> {"idle", "resolved", "waiting", "sent", "ended"}]
  /\ chain \in [Requests -> Seq(PoolNames)]
  /\ ticket \in [Requests -> Nat]
  /\ meta \in Limits
  /\ DOMAIN waiting \subseteq Nat /\ waiting \in [DOMAIN waiting -> Requests]
  /\ served \in [Requests -> {"none", "coming", "queued", "running", "done"}]
  /\ told \subseteq Requests
  /\ deaths \in 0..MaxDeaths
  /\ broken = FALSE

Counted(s, count) ==
  \A i \in 1..Len(s.pools) : s.pools[i].active = count[s.pools[i].name]

Limited(s, limit) ==
  \A i \in 1..Len(s.pools) :
    s.pools[i].name \in DOMAIN limit => s.pools[i].capacity = limit[s.pools[i].name]

Usage(holders, chains) ==
  [n \in PoolNames |-> Cardinality({r \in holders : n \in Names(chains[r])})]

LocalChains == [r \in Requests |-> LocalChain(r)]

Ticketed(r) == [ticket |-> ticket[r], chain |-> chain[r]]

Waiting == {r \in Requests : phase[r] = "waiting"}

HasJoined == {r \in Requests : phase[r] \in {"waiting", "sent", "ended"}}

(* The engine's picture: a request's chain is listed before it is used, the *)
(* line is that of the waiting requests and each pool counts its holders;   *)
(* its capacities are those of the record.                                  *)
EngineInv ==
  /\ InOrder(engine) /\ OnlyOnce(engine)
  /\ Counted(engine, Usage(Admitted_, chain))
  /\ Limited(engine, Capacities(record))
  /\ All \in Listed(engine)
  /\ \A r \in Requests : /\ Names(chain[r]) \subseteq Listed(engine)
                         /\ phase[r] # "idle" => All \in Names(chain[r])
                         /\ ticket[r] <= engine.nextTicket
  /\ Line(engine) = {Ticketed(r) : r \in Waiting}
  /\ \A q, r \in Waiting : ticket[q] = ticket[r] => q = r
  /\ engine.nextTicket = Cardinality(HasJoined)

HasCome == {r \in Requests : served[r] \in {"queued", "running", "done"}}

LocalLimits == [n \in PoolNames |-> EffectiveOf(meta[n])]

Queued(t) == [ticket |-> t, chain |-> LocalChains[waiting[t]]]

(* The cartridge's: a process that runs lists every pool, one that does not *)
(* holds nothing; each ticket in line is one waiting request's.             *)
LocalInv ==
  /\ InOrder(local)
  /\ Counted(local, Usage(Running, LocalChains))
  /\ Limited(local, LocalLimits)
  /\ host.running => Listed(local) = PoolNames
  /\ ~host.running => local = Empty /\ DOMAIN waiting = {} /\ Routed = {}
  /\ Line(local) = {Queued(t) : t \in DOMAIN waiting}
  /\ \A t, u \in DOMAIN waiting : waiting[t] = waiting[u] => t = u
  /\ {waiting[t] : t \in DOMAIN waiting} = InLocal
  /\ local.nextTicket <= Cardinality(HasCome)

(* The cartridge sees no request before the engine has sent it.             *)
SentFirst ==
  \A r \in Requests : phase[r] \in {"idle", "resolved", "waiting"} => served[r] = "none"

IInv == TypeInv /\ EngineInv /\ LocalInv /\ SentFirst

-----------------------------------------------------------------------------
(***************************************************************************)
(* The manifest's pools, and what a record says of them.                   *)
(***************************************************************************)
LEMMA LocalNames ==
  /\ All \in PoolNames
  /\ \A i \in 1..Len(Caps) : Caps[i] \in PoolNames
  /\ \A i \in 1..Len(Shared) : Shared[i].name \in PoolNames
  /\ Len(Local) \in Nat /\ \A i \in 1..Len(Local) : Local[i] \in PoolNames
  /\ \A n \in PoolNames : \E i \in 1..Len(Local) : Local[i] = n
<1> DEFINE a == [i \in 1..Len(Caps) |-> Caps[i]]
           b == [i \in 1..Len(Shared) |-> Shared[i].name]
           S == Members(Caps) \cup {Shared[i].name : i \in 1..Len(Shared)} \cup {All}
<1>1. /\ Len(Caps) \in Nat /\ Len(Shared) \in Nat
  BY ManifestAssumption
<1>2. /\ \A i \in 1..Len(Caps) : Caps[i] \in S
      /\ \A i \in 1..Len(Shared) : Shared[i].name \in S
      /\ All \in S
  BY DEF Members
<1> HIDE DEF S
<1>3. a \in Seq(S) /\ Len(a) = Len(Caps) /\ \A i \in 1..Len(Caps) : a[i] = Caps[i]
  BY <1>1, <1>2
<1>4. b \in Seq(S) /\ Len(b) = Len(Shared) /\ \A i \in 1..Len(Shared) : b[i] = Shared[i].name
  BY <1>1, <1>2
<1>5. Local = a \o b \o <<All>>
  BY DEF Local
<1> HIDE DEF a, b
<1>6. PICK x : x = a \o b
  OBVIOUS
<1>7. /\ x \in Seq(S) /\ Len(x) = Len(Caps) + Len(Shared)
      /\ \A i \in 1..Len(Caps) : i \in 1..Len(x) /\ x[i] = Caps[i]
      /\ \A i \in 1..Len(Shared) : Len(Caps) + i \in 1..Len(x) /\ x[Len(Caps) + i] = Shared[i].name
  <2>1. x \in Seq(S) /\ Len(x) = Len(a) + Len(b)
    <3>1. a \in Seq(S) /\ b \in Seq(S)
      BY <1>3, <1>4
    <3>2. x = a \o b
      BY <1>6
    <3>3. QED
      BY <3>1, <3>2
  <2>2. \A i \in 1..Len(a) : x[i] = a[i]
    BY <1>3, <1>4, <1>6
  <2>3. ASSUME NEW i \in 1..Len(b), NEW k, k = Len(a) + i
        PROVE  x[k] = b[i] /\ k \in 1..Len(x)
    <3>1. Len(a) \in Nat /\ Len(b) \in Nat /\ k \in 1..(Len(a) + Len(b)) /\ k > Len(a) /\ k - Len(a) = i
      BY <1>3, <1>4, <2>3
    <3>2. x[k] = b[k - Len(a)]
      BY <1>3, <1>4, <1>6, <3>1
    <3>3. QED
      BY <2>1, <3>1, <3>2
  <2>4. \A i \in 1..Len(Caps) : i \in 1..Len(x)
    BY <1>1, <1>3, <1>4, <2>1
  <2>5. QED
    BY <1>1, <1>3, <1>4, <2>1, <2>2, <2>3, <2>4
<1>8. PICK m : m = Len(x) + 1
  OBVIOUS
<1>9. /\ m \in Nat /\ Len(Local) = m /\ Local[m] = All /\ m \in 1..m
      /\ \A i \in 1..Len(x) : i \in 1..m /\ Local[i] = x[i]
  <2>1. Local = x \o <<All>> /\ Len(x) \in Nat /\ m \in Nat
    BY <1>5, <1>6, <1>7, <1>8
  <2>2. x \o <<All>> = Append(x, All)
    BY <1>2, <1>7
  <2>3. Local = Append(x, All)
    BY <2>1, <2>2
  <2>4. Len(Local) = m /\ Local[m] = All /\ \A i \in 1..Len(x) : Local[i] = x[i]
    BY <1>7, <1>8, <2>3
  <2>5. m \in 1..m /\ \A i \in 1..Len(x) : i \in 1..m
    BY <1>8, <2>1
  <2>6. QED
    BY <2>1, <2>4, <2>5
<1>10. PoolNames = {Local[i] : i \in 1..Len(Local)}
  BY ManifestAssumption DEF Names, Members
<1>11. QED
  BY <1>7, <1>9, <1>10

LEMMA ChainFacts ==
  ASSUME NEW r \in Requests
  PROVE  /\ LocalChain(r) \in Seq(PoolNames) /\ LocalChains[r] = LocalChain(r)
         /\ All \in Names(LocalChain(r)) /\ Names(LocalChain(r)) \subseteq PoolNames
         /\ LocalChain(r) # <<>> /\ Head(LocalChain(r)) = Cap[r]
         /\ Cap[r] \in Names(LocalChain(r))
<1> DEFINE cap == Cap[r]
           joined == Joined(cap, Shared)
<1>1. cap \in PoolNames
  <2>1. cap \in Members(Caps)
    BY ManifestAssumption
  <2>2. QED
    BY <2>1, LocalNames DEF Members
<1>2. joined \in Seq(Members(Shared)) /\ Members(joined) \subseteq Members(Shared)
  <2>1. Shared \in Seq(Members(Shared))
    BY ManifestAssumption
  <2>2. QED
    BY <2>1, KeptIsPart, KeptMembers DEF Joined
<1>3. LocalChain(r) = <<cap>> \o NamesOf(joined) \o <<All>>
  BY DEF LocalChain, ChainOf
<1> HIDE DEF cap, joined
<1>4. PICK ns : ns = NamesOf(joined)
  OBVIOUS
<1>5. ns \in Seq(PoolNames)
  <2>1. Len(joined) \in Nat
    BY <1>2
  <2>2. \A i \in 1..Len(joined) : joined[i].name \in PoolNames
    BY <1>2, LocalNames DEF Members
  <2>3. QED
    BY <1>4, <2>1, <2>2 DEF NamesOf
<1>6. PICK x : x = <<cap>> \o ns
  OBVIOUS
<1>7. x \in Seq(PoolNames) /\ x # <<>> /\ Len(x) \in Nat /\ Len(x) >= 1 /\ x[1] = cap
  BY <1>1, <1>5, <1>6
<1>8. PICK y, m : y = x \o <<All>> /\ m = Len(x) + 1
  OBVIOUS
<1>9. y \in Seq(PoolNames) /\ Len(y) = m /\ m \in Nat /\ m \in 1..m /\ 1 \in 1..m /\ y[m] = All /\ y[1] = cap
  BY <1>7, <1>8, LocalNames
<1>10. LocalChain(r) = y
  BY <1>3, <1>4, <1>6, <1>8
<1>11. Head(y) = y[1] /\ y # <<>>
  BY <1>9
<1>12. All \in Names(y) /\ cap \in Names(y) /\ Names(y) \subseteq PoolNames
  BY <1>9 DEF Names, Members
<1>13. LocalChains[r] = LocalChain(r)
  BY DEF LocalChains
<1>14. QED
  BY <1>9, <1>10, <1>11, <1>12, <1>13 DEF cap

LEMMA EffectiveType ==
  ASSUME NEW configured \in Nat, NEW available \in Nat \cup {None}
  PROVE  Effective(configured, available) \in Nat
BY DEF Effective

LEMMA ManifestType == FromManifest \in Limits /\ \A n \in PoolNames : FromManifest[n] = Static(n)
BY ManifestAssumption DEF FromManifest, Static, Limits

LEMMA LimitsParts ==
  ASSUME NEW m \in Limits, NEW n \in PoolNames
  PROVE  /\ m[n].configured \in Nat /\ m[n].available \in Nat \cup {None}
         /\ EffectiveOf(m[n]) \in Nat
BY EffectiveType DEF Limits, EffectiveOf

(***************************************************************************)
(* What the engine is told of an install are limits of its pools, and      *)
(* while the process does not run, one request at a time (pools.py,        *)
(* CapDAG-Bifaci-Pools.c:1428-1454).                                       *)
(***************************************************************************)
LEMMA CapacitiesFacts ==
  ASSUME NEW rec \in Records
  PROVE  /\ DOMAIN Capacities(rec) \subseteq PoolNames /\ All \in DOMAIN Capacities(rec)
         /\ \A p \in PoolNames : p \in DOMAIN Capacities(rec) => Capacities(rec)[p] \in Nat
         /\ rec.pools # None => DOMAIN Capacities(rec) = PoolNames
         /\ ~rec.running => Capacities(rec)[All] = 1
<1>1. CASE rec.pools = None
  <2>1. Capacities(rec) = [p \in {All} |-> 1]
    BY <1>1 DEF Capacities
  <2>2. QED
    BY <1>1, <2>1, LocalNames
<1>2. CASE rec.pools # None
  <2>1. rec.pools \in Limits
    BY <1>2 DEF Records
  <2> DEFINE map == [p \in PoolNames |->
               Advertised(rec.running, p, rec.pools[p].configured, rec.pools[p].available)]
  <2>2. Capacities(rec) = map
    BY <1>2 DEF Capacities
  <2>3. \A p \in PoolNames : map[p] \in Nat
    <3>1. SUFFICES ASSUME NEW p \in PoolNames PROVE map[p] \in Nat
      OBVIOUS
    <3>2. rec.pools[p].configured \in Nat /\ rec.pools[p].available \in Nat \cup {None}
      BY <2>1, LimitsParts
    <3>3. Effective(rec.pools[p].configured, rec.pools[p].available) \in Nat
      BY <3>2, EffectiveType
    <3>4. QED
      BY <3>3 DEF Advertised
  <2>4. ~rec.running => map[All] = 1
    BY LocalNames DEF Advertised
  <2>5. DOMAIN map = PoolNames
    OBVIOUS
  <2> HIDE DEF map
  <2>6. QED
    BY <1>2, <2>2, <2>3, <2>4, <2>5, LocalNames
<1>3. QED
  BY <1>1, <1>2

LEMMA EmptyFacts ==
  /\ Empty \in PoolStates /\ Empty.pools = <<>> /\ Empty.queue = <<>> /\ Empty.nextTicket = 0
  /\ InOrder(Empty) /\ Line(Empty) = {} /\ Listed(Empty) = {} /\ OnlyOnce(Empty)
  /\ Len(Empty.pools) = 0
<1>1. Empty \in PoolStates /\ Empty.pools = <<>> /\ Empty.queue = <<>> /\ Empty.nextTicket = 0
  BY DEF Empty, PoolStates
<1>2. QED
  BY <1>1 DEF InOrder, Line, Members, Listed, OnlyOnce

(***************************************************************************)
(* A process starts with every pool of its manifest, at the manifest's     *)
(* capacity and with nobody in it (cartridge_runtime.py:441-516).          *)
(***************************************************************************)
LEMMA NewPoolsFacts ==
  /\ NewPools \in PoolStates /\ NewPools.queue = <<>> /\ NewPools.nextTicket = 0
  /\ InOrder(NewPools) /\ Line(NewPools) = {} /\ Listed(NewPools) = PoolNames
  /\ \A i \in 1..Len(NewPools.pools) :
       /\ NewPools.pools[i].active = 0
       /\ NewPools.pools[i].capacity = EffectiveOf(FromManifest[NewPools.pools[i].name])
<1> DEFINE p(i) == [name |-> Local[i], capacity |-> EffectiveOf(Static(Local[i])), active |-> 0]
           ps == [i \in 1..Len(Local) |-> p(i)]
<1>1. ASSUME NEW i \in 1..Len(Local)
      PROVE  /\ p(i) \in Pool /\ p(i).name = Local[i] /\ p(i).active = 0
             /\ p(i).capacity = EffectiveOf(FromManifest[Local[i]])
  <2>1. Local[i] \in PoolNames
    BY LocalNames
  <2>2. EffectiveOf(FromManifest[Local[i]]) \in Nat /\ FromManifest[Local[i]] = Static(Local[i])
    BY <2>1, ManifestType, LimitsParts
  <2>3. QED
    BY <2>1, <2>2 DEF Pool
<1>2. Len(Local) \in Nat /\ \A i \in 1..Len(Local) : ps[i] = p(i)
  BY LocalNames
<1>3. ps \in Seq(Pool) /\ Len(ps) = Len(Local)
  <2>1. ps \in [1..Len(Local) -> Pool]
    <3> HIDE DEF p
    <3>1. QED
      BY <1>1
  <2> HIDE DEF ps
  <2>2. QED
    BY <1>2, <2>1
<1>4. NewPools = [Empty EXCEPT !.pools = ps]
  BY DEF NewPools
<1> HIDE DEF ps
<1>5. NewPools \in PoolStates /\ NewPools.pools = ps /\ NewPools.queue = <<>> /\ NewPools.nextTicket = 0
  BY <1>3, <1>4, EmptyFacts DEF PoolStates
<1>6. InOrder(NewPools) /\ Line(NewPools) = {}
  BY <1>5 DEF InOrder, Line, Members
<1>7. \A i \in 1..Len(Local) :
        /\ ps[i].name = Local[i] /\ ps[i].active = 0
        /\ ps[i].capacity = EffectiveOf(FromManifest[ps[i].name])
  <2> HIDE DEF p
  <2>1. QED
    BY <1>1, <1>2
<1> HIDE DEF p
<1>8. Listed(NewPools) = PoolNames
  BY <1>3, <1>5, <1>7, LocalNames DEF Listed
<1>9. QED
  BY <1>3, <1>5, <1>6, <1>7, <1>8

-----------------------------------------------------------------------------
(***************************************************************************)
(* Counting who holds a slot.                                              *)
(***************************************************************************)
LEMMA UsageType ==
  ASSUME NEW holders \in SUBSET Requests, NEW chains, NEW n \in PoolNames
  PROVE  /\ Usage(holders, chains)[n] = Cardinality({r \in holders : n \in Names(chains[r])})
         /\ Usage(holders, chains)[n] \in Nat
         /\ Usage(holders, chains)[n] <= Cardinality(Requests)
         /\ IsFiniteSet({r \in holders : n \in Names(chains[r])})
<1> DEFINE T == {r \in holders : n \in Names(chains[r])}
<1>1. T \subseteq Requests /\ IsFiniteSet(Requests)
  BY ManifestAssumption
<1>2. Usage(holders, chains)[n] = Cardinality(T)
  BY DEF Usage
<1>3. IsFiniteSet(T) /\ Cardinality(T) \in Nat /\ Cardinality(T) <= Cardinality(Requests)
  <2> HIDE DEF T
  <2>1. IsFiniteSet(T) /\ Cardinality(T) <= Cardinality(Requests)
    BY <1>1, FS_Subset
  <2>2. QED
    BY <2>1, FS_CardinalityType
<1>4. QED
  BY <1>2, <1>3

LEMMA UsageMore ==
  ASSUME NEW holders \in SUBSET Requests, NEW chains, NEW n \in PoolNames,
         NEW r \in Requests, r \notin holders
  PROVE  Usage(holders \cup {r}, chains)[n] =
           IF n \in Names(chains[r]) THEN Usage(holders, chains)[n] + 1 ELSE Usage(holders, chains)[n]
<1> DEFINE T == {q \in holders : n \in Names(chains[q])}
           more == holders \cup {r}
           U == {q \in more : n \in Names(chains[q])}
<1>1. more \in SUBSET Requests
  OBVIOUS
<1>2. Usage(holders, chains)[n] = Cardinality(T) /\ IsFiniteSet(T)
  <2> HIDE DEF more, U
  <2>1. Usage(holders, chains)[n] = Cardinality(T)
    BY DEF Usage
  <2>2. T \in SUBSET Requests
    OBVIOUS
  <2> HIDE DEF T
  <2>3. QED
    BY <2>1, <2>2, ManifestAssumption, FS_Subset
<1>3. Usage(more, chains)[n] = Cardinality(U)
  <2> HIDE DEF more
  <2>1. QED
    BY <1>1, UsageType
<1>4. CASE n \in Names(chains[r])
  <2>1. U = T \cup {r} /\ r \notin T
    BY <1>4
  <2> HIDE DEF T, U
  <2>2. Cardinality(U) = Cardinality(T) + 1
    BY <1>2, <2>1, FS_AddElement
  <2>3. QED
    BY <1>2, <1>3, <1>4, <2>2
<1>5. CASE n \notin Names(chains[r])
  <2>1. U = T
    BY <1>5
  <2>2. QED
    BY <1>2, <1>3, <1>5, <2>1
<1>6. QED
  BY <1>4, <1>5

LEMMA UsageFewer ==
  ASSUME NEW holders \in SUBSET Requests, NEW chains, NEW n \in PoolNames, NEW r \in holders
  PROVE  /\ Usage(holders \ {r}, chains)[n] =
              IF n \in Names(chains[r]) THEN Usage(holders, chains)[n] - 1 ELSE Usage(holders, chains)[n]
         /\ n \in Names(chains[r]) => Usage(holders, chains)[n] > 0
<1> DEFINE fewer == holders \ {r}
<1>1. fewer \in SUBSET Requests /\ r \notin fewer /\ holders = fewer \cup {r}
  OBVIOUS
<1> HIDE DEF fewer
<1>2. PICK x, y : x = Usage(fewer, chains)[n] /\ y = Usage(holders, chains)[n]
  OBVIOUS
<1>3. y = IF n \in Names(chains[r]) THEN x + 1 ELSE x
  BY <1>1, <1>2, UsageMore
<1>4. x \in Nat /\ y \in Nat
  BY <1>1, <1>2, UsageType
<1>5. QED
  BY <1>2, <1>3, <1>4 DEF fewer

LEMMA UsageSame ==
  ASSUME NEW holders \in SUBSET Requests, NEW chains, NEW others,
         \A r \in holders : others[r] = chains[r]
  PROVE  Usage(holders, others) = Usage(holders, chains)
<1>1. \A n \in PoolNames : {r \in holders : n \in Names(others[r])} = {r \in holders : n \in Names(chains[r])}
  OBVIOUS
<1>2. QED
  BY <1>1 DEF Usage

LEMMA UsageOfNone ==
  ASSUME NEW chains, NEW n \in PoolNames
  PROVE  Usage({}, chains)[n] = 0
<1>1. {r \in {} : n \in Names(chains[r])} = {}
  OBVIOUS
<1>2. QED
  BY <1>1, FS_EmptySet DEF Usage

(***************************************************************************)
(* The counters follow: one more holder taken, one given back, capacities  *)
(* set (CapDAG-Bifaci-Pools.c:989-1176, 1344-1395).                        *)
(***************************************************************************)
LEMMA CountedMore ==
  ASSUME NEW s \in PoolStates, NEW t, NEW w, Went(s, t, w),
         NEW holders \in SUBSET Requests, NEW chains, NEW r \in Requests, r \notin holders,
         w.chain = chains[r], Counted(s, Usage(holders, chains))
  PROVE  Counted(t, Usage(holders \cup {r}, chains))
<1>1. PICK u, v : u = Usage(holders, chains) /\ v = Usage(holders \cup {r}, chains)
  OBVIOUS
<1>2. \A n \in PoolNames : v[n] = IF n \in Names(chains[r]) THEN u[n] + 1 ELSE u[n]
  <2>1. SUFFICES ASSUME NEW n \in PoolNames
        PROVE  v[n] = IF n \in Names(chains[r]) THEN u[n] + 1 ELSE u[n]
    OBVIOUS
  <2>2. Usage(holders \cup {r}, chains)[n] =
          IF n \in Names(chains[r]) THEN Usage(holders, chains)[n] + 1 ELSE Usage(holders, chains)[n]
    BY UsageMore
  <2>3. QED
    BY <1>1, <2>2
<1>3. ASSUME NEW i \in 1..Len(t.pools)
      PROVE  t.pools[i].active = v[t.pools[i].name]
  <2>1. i \in 1..Len(s.pools) /\ t.pools[i].name = s.pools[i].name /\ s.pools[i].name \in PoolNames
    BY PoolStateParts DEF Went
  <2>2. t.pools[i].active =
          IF s.pools[i].name \in Names(w.chain) THEN s.pools[i].active + 1 ELSE s.pools[i].active
    BY <2>1 DEF Went
  <2>3. s.pools[i].active = u[s.pools[i].name]
    BY <1>1, <2>1 DEF Counted
  <2>4. QED
    BY <1>2, <2>1, <2>2, <2>3
<1>4. QED
  BY <1>1, <1>3 DEF Counted

LEMMA CountedFewer ==
  ASSUME NEW s \in PoolStates, NEW chains, NEW r, NEW t, t = Release(s, chains[r]),
         NEW holders \in SUBSET Requests, r \in holders,
         Counted(s, Usage(holders, chains))
  PROVE  Counted(t, Usage(holders \ {r}, chains))
<1>1. PICK u, v : u = Usage(holders, chains) /\ v = Usage(holders \ {r}, chains)
  OBVIOUS
<1>2. \A n \in PoolNames : /\ v[n] = IF n \in Names(chains[r]) THEN u[n] - 1 ELSE u[n]
                           /\ n \in Names(chains[r]) => u[n] > 0
  <2>1. SUFFICES ASSUME NEW n \in PoolNames
        PROVE  /\ v[n] = IF n \in Names(chains[r]) THEN u[n] - 1 ELSE u[n]
               /\ n \in Names(chains[r]) => u[n] > 0
    OBVIOUS
  <2>2. /\ Usage(holders \ {r}, chains)[n] =
             IF n \in Names(chains[r]) THEN Usage(holders, chains)[n] - 1 ELSE Usage(holders, chains)[n]
        /\ n \in Names(chains[r]) => Usage(holders, chains)[n] > 0
    BY UsageFewer
  <2>3. QED
    BY <1>1, <2>2
<1>3. /\ SameButCounts(s, t)
      /\ \A i \in 1..Len(s.pools) :
           t.pools[i].active =
             IF s.pools[i].name \in Names(chains[r]) /\ s.pools[i].active > 0
             THEN s.pools[i].active - 1 ELSE s.pools[i].active
  BY ReleaseFacts
<1>4. ASSUME NEW i \in 1..Len(t.pools)
      PROVE  t.pools[i].active = v[t.pools[i].name]
  <2>1. i \in 1..Len(s.pools) /\ t.pools[i].name = s.pools[i].name /\ s.pools[i].name \in PoolNames
    BY <1>3, PoolStateParts DEF SameButCounts
  <2>2. t.pools[i].active =
          IF s.pools[i].name \in Names(chains[r]) /\ s.pools[i].active > 0
          THEN s.pools[i].active - 1 ELSE s.pools[i].active
    BY <1>3, <2>1
  <2>3. s.pools[i].active = u[s.pools[i].name]
    BY <1>1, <2>1 DEF Counted
  <2>4. QED
    BY <1>2, <2>1, <2>2, <2>3
<1>5. QED
  BY <1>1, <1>4 DEF Counted

LEMMA CountedReset ==
  ASSUME NEW s \in PoolStates, NEW t, NEW map, NEW done, Reset(s, t, map, done),
         NEW count, Counted(s, count), \A n \in PoolNames : n \notin Listed(s) => count[n] = 0
  PROVE  Counted(t, count)
<1>1. ASSUME NEW i \in 1..Len(t.pools)
      PROVE  t.pools[i].active = count[t.pools[i].name]
  <2>1. CASE i \in 1..Len(s.pools)
    BY <2>1 DEF Reset, Counted
  <2>2. CASE i \notin 1..Len(s.pools)
    <3>1. t.pools[i].name \in PoolNames
      BY PoolStateParts DEF Reset
    <3>2. t.pools[i].name \notin Listed(s) /\ t.pools[i].active = 0
      BY <2>2 DEF Reset
    <3>3. QED
      BY <3>1, <3>2
  <2>3. QED
    BY <2>1, <2>2
<1>2. QED
  BY <1>1 DEF Counted

LEMMA LimitedReset ==
  ASSUME NEW s \in PoolStates, NEW t, NEW map, NEW done, Reset(s, t, map, done),
         NEW limit, NEW after,
         \A n \in PoolNames : n \in DOMAIN after =>
           IF n \in done THEN after[n] = map[n]
           ELSE n \in DOMAIN limit /\ after[n] = limit[n],
         Limited(s, limit)
  PROVE  Limited(t, after)
<1>1. ASSUME NEW i \in 1..Len(t.pools), t.pools[i].name \in DOMAIN after
      PROVE  t.pools[i].capacity = after[t.pools[i].name]
  <2>1. t.pools[i].name \in PoolNames
    BY PoolStateParts DEF Reset
  <2>2. CASE i \in 1..Len(s.pools)
    BY <1>1, <2>1, <2>2 DEF Reset, Limited
  <2>3. CASE i \notin 1..Len(s.pools)
    BY <1>1, <2>1, <2>3 DEF Reset
  <2>4. QED
    BY <2>2, <2>3
<1>2. QED
  BY <1>1 DEF Limited

LEMMA ResetLine ==
  ASSUME NEW s \in PoolStates, NEW t, NEW map, NEW done, Reset(s, t, map, done), InOrder(s)
  PROVE  InOrder(t) /\ Line(t) = Line(s)
BY DEF Reset, InOrder, Line

LEMMA WentPools ==
  ASSUME NEW s \in PoolStates, NEW t, NEW w, Went(s, t, w)
  PROVE  /\ Listed(t) = Listed(s)
         /\ OnlyOnce(s) => OnlyOnce(t)
         /\ \A limit : Limited(s, limit) => Limited(t, limit)
BY DEF Went, Listed, OnlyOnce, Limited

LEMMA SameButCountsPools ==
  ASSUME NEW s \in PoolStates, NEW t, SameButCounts(s, t), InOrder(s)
  PROVE  /\ Listed(t) = Listed(s)
         /\ OnlyOnce(s) => OnlyOnce(t)
         /\ \A limit : Limited(s, limit) => Limited(t, limit)
         /\ InOrder(t) /\ Line(t) = Line(s)
BY DEF SameButCounts, Listed, OnlyOnce, Limited, InOrder, Line

-----------------------------------------------------------------------------
(***************************************************************************)
(* The engine's steps.                                                     *)
(***************************************************************************)
LEMMA EngineConfigured ==
  ASSUME TypeInv, EngineInv, NEW rec \in Records, NEW e, e = Configured(engine, Capacities(rec))
  PROVE  /\ e \in PoolStates /\ InOrder(e) /\ OnlyOnce(e)
         /\ Counted(e, Usage(Admitted_, chain))
         /\ Limited(e, Capacities(rec))
         /\ Listed(e) = Listed(engine) \cup DOMAIN Capacities(rec)
         /\ Line(e) = Line(engine) /\ e.nextTicket = engine.nextTicket
<1> DEFINE map == Capacities(rec)
<1>1. /\ DOMAIN map \subseteq PoolNames
      /\ \A p \in PoolNames : p \in DOMAIN map => map[p] \in Nat
  BY CapacitiesFacts
<1> HIDE DEF map
<1>2. /\ engine \in PoolStates /\ InOrder(engine) /\ OnlyOnce(engine)
      /\ Counted(engine, Usage(Admitted_, chain))
  BY DEF TypeInv, EngineInv
<1>3. e = Configured(engine, map)
  BY DEF map
<1>4. Reset(engine, e, map, DOMAIN map)
  <2>1. Reset(engine, e, map, PoolNames \cap DOMAIN map)
    BY <1>1, <1>2, <1>3, ConfiguredFacts
  <2>2. PoolNames \cap DOMAIN map = DOMAIN map
    BY <1>1
  <2>3. QED
    BY <2>1, <2>2
<1>5. InOrder(e) /\ Line(e) = Line(engine)
  BY <1>2, <1>4, ResetLine
<1>6. Counted(e, Usage(Admitted_, chain))
  <2>1. ASSUME NEW n \in PoolNames, n \notin Listed(engine)
        PROVE  Usage(Admitted_, chain)[n] = 0
    <3>1. {r \in Admitted_ : n \in Names(chain[r])} = {}
      BY <2>1 DEF EngineInv, Admitted_
    <3>2. QED
      BY <3>1, FS_EmptySet DEF Usage
  <2>2. QED
    BY <1>2, <1>4, <2>1, CountedReset
<1>7. Limited(e, map)
  <2>1. \A i \in 1..Len(e.pools) : e.pools[i].name \in DOMAIN map => e.pools[i].capacity = map[e.pools[i].name]
    <3>1. SUFFICES ASSUME NEW i \in 1..Len(e.pools), e.pools[i].name \in DOMAIN map
                   PROVE  e.pools[i].capacity = map[e.pools[i].name]
      OBVIOUS
    <3>2. CASE i \in 1..Len(engine.pools)
      BY <1>4, <3>1, <3>2 DEF Reset
    <3>3. CASE i \notin 1..Len(engine.pools)
      BY <1>4, <3>1, <3>3 DEF Reset
    <3>4. QED
      BY <3>2, <3>3
  <2>2. QED
    BY <2>1 DEF Limited
<1>8. /\ e \in PoolStates /\ OnlyOnce(e) /\ Listed(e) = Listed(engine) \cup DOMAIN map
      /\ e.nextTicket = engine.nextTicket
  BY <1>2, <1>4 DEF Reset
<1>9. QED
  BY <1>5, <1>6, <1>7, <1>8 DEF map

LEMMA AdmissionChainFacts ==
  ASSUME TypeInv, NEW r \in Requests
  PROVE  /\ AdmissionChain(r) \in Seq(PoolNames) /\ All \in Names(AdmissionChain(r))
         /\ Names(AdmissionChain(r)) \subseteq DOMAIN Capacities(record)
<1>1. record \in Records
  BY DEF TypeInv
<1>2. /\ DOMAIN Capacities(record) \subseteq PoolNames /\ All \in DOMAIN Capacities(record)
      /\ record.pools # None => DOMAIN Capacities(record) = PoolNames
  BY <1>1, CapacitiesFacts
<1>3. CASE record.pools = None
  <2>1. AdmissionChain(r) = <<All>>
    BY <1>3 DEF AdmissionChain
  <2>2. <<All>> \in Seq(PoolNames) /\ Names(<<All>>) = {All}
    BY LocalNames DEF Names, Members
  <2>3. QED
    BY <1>2, <2>1, <2>2
<1>4. CASE record.pools # None
  BY <1>2, <1>4, ChainFacts DEF AdmissionChain
<1>5. QED
  BY <1>3, <1>4

LEMMA ResolveStep ==
  ASSUME IInv, NEW r \in Requests, Resolve(r)
  PROVE  EngineInv' /\ engine' \in PoolStates /\ chain' \in [Requests -> Seq(PoolNames)]
<1> USE DEF IInv
<1>1. /\ record \in Records /\ phase \in [Requests -> {"idle", "resolved", "waiting", "sent", "ended"}]
      /\ chain \in [Requests -> Seq(PoolNames)]
  BY DEF TypeInv
<1>2. /\ phase[r] = "idle" /\ phase' = [phase EXCEPT ![r] = "resolved"]
      /\ chain' = [chain EXCEPT ![r] = AdmissionChain(r)]
      /\ engine' = Configured(engine, Capacities(record))
      /\ record' = record /\ ticket' = ticket
  BY DEF Resolve
<1>3. /\ engine' \in PoolStates /\ InOrder(engine') /\ OnlyOnce(engine')
      /\ Counted(engine', Usage(Admitted_, chain))
      /\ Limited(engine', Capacities(record))
      /\ Listed(engine') = Listed(engine) \cup DOMAIN Capacities(record)
      /\ Line(engine') = Line(engine) /\ engine'.nextTicket = engine.nextTicket
  BY <1>1, <1>2, EngineConfigured
<1>4. /\ AdmissionChain(r) \in Seq(PoolNames) /\ All \in Names(AdmissionChain(r))
      /\ Names(AdmissionChain(r)) \subseteq DOMAIN Capacities(record)
  BY AdmissionChainFacts
<1>5. /\ Admitted_' = Admitted_ /\ r \notin Admitted_ /\ Waiting' = Waiting /\ r \notin Waiting
      /\ HasJoined' = HasJoined /\ Admitted_ \in SUBSET Requests
  BY <1>1, <1>2 DEF Admitted_, Waiting, HasJoined
<1>6. Counted(engine', Usage(Admitted_, chain'))
  <2>1. \A q \in Admitted_ : chain'[q] = chain[q]
    BY <1>1, <1>2, <1>5
  <2>2. Usage(Admitted_, chain') = Usage(Admitted_, chain)
    BY <1>5, <2>1, UsageSame
  <2>3. QED
    BY <1>3, <2>2
<1>7. \A q \in Requests : /\ Names(chain'[q]) \subseteq Listed(engine')
                          /\ phase'[q] # "idle" => All \in Names(chain'[q])
                          /\ ticket'[q] <= engine'.nextTicket
  BY <1>1, <1>2, <1>3, <1>4 DEF EngineInv
<1>8. {Ticketed(q)' : q \in Waiting} = {Ticketed(q) : q \in Waiting}
  <2>1. \A q \in Waiting : Ticketed(q)' = Ticketed(q)
    BY <1>1, <1>2, <1>5 DEF Ticketed, Waiting
  <2>2. QED
    BY <2>1
<1>9. Line(engine') = {Ticketed(q)' : q \in Waiting'}
  BY <1>3, <1>5, <1>8 DEF EngineInv
<1>10. \A p, q \in Waiting' : ticket'[p] = ticket'[q] => p = q
  BY <1>2, <1>5 DEF EngineInv
<1>11. engine'.nextTicket = Cardinality(HasJoined')
  BY <1>3, <1>5 DEF EngineInv
<1>12. All \in Listed(engine')
  BY <1>3 DEF EngineInv
<1>13. chain' \in [Requests -> Seq(PoolNames)]
  BY <1>1, <1>2, <1>4
<1>14. Limited(engine', Capacities(record'))
  BY <1>2, <1>3
<1>15. Counted(engine', Usage(Admitted_', chain'))
  BY <1>5, <1>6
<1>16. QED
  BY <1>3, <1>7, <1>9, <1>10, <1>11, <1>12, <1>13, <1>14, <1>15 DEF EngineInv

LEMMA NotifiedStep ==
  ASSUME IInv, Notified
  PROVE  EngineInv' /\ engine' \in PoolStates
<1> USE DEF IInv
<1>1. /\ notices \in Seq(Records) /\ notices # <<>>
      /\ record' = Head(notices) /\ engine' = Configured(engine, Capacities(Head(notices)))
      /\ phase' = phase /\ chain' = chain /\ ticket' = ticket
  BY DEF Notified, TypeInv
<1>2. Head(notices) \in Records
  BY <1>1
<1>3. /\ engine' \in PoolStates /\ InOrder(engine') /\ OnlyOnce(engine')
      /\ Counted(engine', Usage(Admitted_, chain))
      /\ Limited(engine', Capacities(record'))
      /\ Listed(engine') = Listed(engine) \cup DOMAIN Capacities(record')
      /\ Line(engine') = Line(engine) /\ engine'.nextTicket = engine.nextTicket
  BY <1>1, <1>2, EngineConfigured
<1>4. Admitted_' = Admitted_ /\ Waiting' = Waiting /\ HasJoined' = HasJoined
  BY <1>1 DEF Admitted_, Waiting, HasJoined
<1>5. {Ticketed(q)' : q \in Waiting'} = {Ticketed(q) : q \in Waiting}
  BY <1>1, <1>4 DEF Ticketed
<1>6. Counted(engine', Usage(Admitted_', chain'))
  BY <1>1, <1>3, <1>4
<1>7. QED
  BY <1>1, <1>3, <1>4, <1>5, <1>6 DEF EngineInv

LEMMA JoinedGrows ==
  ASSUME NEW r \in Requests, r \notin HasJoined, NEW more, more = HasJoined \cup {r}
  PROVE  Cardinality(more) = Cardinality(HasJoined) + 1 /\ Cardinality(HasJoined) \in Nat
<1>1. HasJoined \subseteq Requests
  BY DEF HasJoined
<1>2. IsFiniteSet(HasJoined)
  BY <1>1, ManifestAssumption, FS_Subset
<1>3. QED
  BY <1>2, FS_AddElement, FS_CardinalityType

LEMMA JoinLineStep ==
  ASSUME IInv, NEW r \in Requests, JoinLine(r)
  PROVE  /\ EngineInv' /\ engine' \in PoolStates /\ ticket' \in [Requests -> Nat]
         /\ phase' = [phase EXCEPT ![r] = "waiting"] /\ phase[r] = "resolved"
         /\ broken' = broken
<1> USE DEF IInv
<1>1. /\ engine \in PoolStates /\ InOrder(engine) /\ chain[r] \in Seq(PoolNames)
      /\ Names(chain[r]) \subseteq Listed(engine)
      /\ phase \in [Requests -> {"idle", "resolved", "waiting", "sent", "ended"}]
      /\ ticket \in [Requests -> Nat] /\ engine.nextTicket \in Nat
  BY PoolStateParts DEF TypeInv, EngineInv
<1>2. PICK j : j = Join(engine, chain[r])
  OBVIOUS
<1>3. j.answer = "queued" /\ j.state = Enqueue(engine, chain[r]) /\ j.ticket = engine.nextTicket
  BY <1>1, <1>2, JoinFacts
<1>4. /\ phase[r] = "resolved" /\ phase' = [phase EXCEPT ![r] = "waiting"]
      /\ engine' = Enqueue(engine, chain[r])
      /\ ticket' = [ticket EXCEPT ![r] = engine.nextTicket]
      /\ record' = record /\ chain' = chain /\ broken' = broken
  BY <1>2, <1>3 DEF JoinLine
<1> DEFINE w == [ticket |-> engine.nextTicket, chain |-> chain[r]]
<1>5. /\ engine' \in PoolStates /\ engine'.pools = engine.pools
      /\ engine'.nextTicket = engine.nextTicket + 1
      /\ InOrder(engine') /\ Line(engine') = Line(engine) \cup {w}
  BY <1>1, <1>4, EnqueueFacts
<1>6. ticket' \in [Requests -> Nat]
  BY <1>1, <1>4
<1>7. /\ Admitted_' = Admitted_ /\ Waiting' = Waiting \cup {r} /\ r \notin Waiting
      /\ HasJoined' = HasJoined \cup {r} /\ r \notin HasJoined
  BY <1>1, <1>4 DEF Admitted_, Waiting, HasJoined
<1>8. /\ OnlyOnce(engine') /\ Listed(engine') = Listed(engine)
      /\ Counted(engine', Usage(Admitted_', chain')) /\ Limited(engine', Capacities(record'))
  BY <1>4, <1>5, <1>7 DEF EngineInv, OnlyOnce, Listed, Counted, Limited
<1>9. engine'.nextTicket = Cardinality(HasJoined')
  BY <1>5, <1>7, JoinedGrows DEF EngineInv
<1>10. \A q \in Requests : /\ Names(chain'[q]) \subseteq Listed(engine')
                           /\ phase'[q] # "idle" => All \in Names(chain'[q])
                           /\ ticket'[q] <= engine'.nextTicket
  <2>1. SUFFICES ASSUME NEW q \in Requests
        PROVE /\ Names(chain'[q]) \subseteq Listed(engine')
              /\ phase'[q] # "idle" => All \in Names(chain'[q])
              /\ ticket'[q] <= engine'.nextTicket
    OBVIOUS
  <2>2. Names(chain[q]) \subseteq Listed(engine) /\ (phase[q] # "idle" => All \in Names(chain[q]))
    BY DEF EngineInv
  <2>3. ticket[q] <= engine.nextTicket /\ ticket[q] \in Nat
    BY <1>1 DEF EngineInv
  <2>4. ticket'[q] <= engine'.nextTicket
    BY <1>1, <1>4, <1>5, <2>3
  <2>5. phase'[q] # "idle" => phase[q] # "idle"
    BY <1>1, <1>4
  <2>6. QED
    BY <1>4, <1>8, <2>2, <2>4, <2>5
<1>11. \A q \in Waiting : ticket[q] # engine.nextTicket /\ q # r /\ ticket'[q] = ticket[q] /\ Ticketed(q)' = Ticketed(q)
  <2>1. SUFFICES ASSUME NEW q \in Waiting
        PROVE  ticket[q] # engine.nextTicket /\ q # r /\ ticket'[q] = ticket[q] /\ Ticketed(q)' = Ticketed(q)
    OBVIOUS
  <2>2. q \in Requests /\ q # r
    BY <1>7 DEF Waiting
  <2>3. Ticketed(q) \in Line(engine)
    BY DEF EngineInv
  <2>4. Ticketed(q).ticket < engine.nextTicket /\ Ticketed(q).ticket \in Nat
    BY <1>1, <2>3, LineFacts
  <2>5. ticket[q] # engine.nextTicket
    BY <1>1, <2>4 DEF Ticketed
  <2>6. ticket'[q] = ticket[q] /\ chain'[q] = chain[q]
    BY <1>1, <1>4, <2>2
  <2>7. QED
    BY <2>2, <2>5, <2>6 DEF Ticketed
<1>12. Ticketed(r)' = w /\ ticket'[r] = engine.nextTicket
  BY <1>1, <1>4 DEF Ticketed
<1>13. Line(engine') = {Ticketed(q)' : q \in Waiting'}
  <2> HIDE DEF w
  <2>1. {Ticketed(q)' : q \in Waiting'} = {Ticketed(q)' : q \in Waiting} \cup {w}
    BY <1>7, <1>12
  <2>2. {Ticketed(q)' : q \in Waiting} = {Ticketed(q) : q \in Waiting}
    BY <1>11
  <2>3. QED
    BY <1>5, <2>1, <2>2 DEF EngineInv
<1>14. \A p, q \in Waiting' : ticket'[p] = ticket'[q] => p = q
  BY <1>7, <1>11, <1>12 DEF EngineInv
<1>15. All \in Listed(engine')
  BY <1>8 DEF EngineInv
<1>16. EngineInv'
  BY <1>5, <1>8, <1>9, <1>10, <1>13, <1>14, <1>15 DEF EngineInv
<1>17. QED
  BY <1>4, <1>5, <1>6, <1>16

LEMMA TakeTurnStep ==
  ASSUME IInv, NEW r \in Requests, TakeTurn(r)
  PROVE  /\ EngineInv' /\ engine' \in PoolStates /\ served[r] = "none"
         /\ Went(engine, engine', Ticketed(r)) /\ HasRoom(engine, chain[r])
         /\ NobodyOlder(engine, ticket[r])
<1> USE DEF IInv
<1>1. /\ engine \in PoolStates /\ InOrder(engine)
      /\ phase \in [Requests -> {"idle", "resolved", "waiting", "sent", "ended"}]
  BY DEF TypeInv, EngineInv
<1>2. /\ phase[r] = "waiting" /\ phase' = [phase EXCEPT ![r] = "sent"]
      /\ engine' = Admit(engine, ticket[r]) /\ Admit(engine, ticket[r]) # None
      /\ record' = record /\ chain' = chain /\ ticket' = ticket
  BY DEF TakeTurn
<1>3. PICK w \in Line(engine) : /\ w.ticket = ticket[r] /\ Went(engine, engine', w)
                                /\ HasRoom(engine, w.chain) /\ NobodyOlder(engine, ticket[r])
  BY <1>1, <1>2, AdmitFacts
<1>4. r \in Waiting /\ Ticketed(r) \in Line(engine)
  BY <1>2 DEF Waiting, EngineInv
<1>5. Ticketed(r).ticket = ticket[r] /\ Ticketed(r).chain = chain[r]
  BY DEF Ticketed
<1>6. w = Ticketed(r)
  BY <1>1, <1>3, <1>4, <1>5, LineFacts
<1>7. /\ Went(engine, engine', Ticketed(r)) /\ HasRoom(engine, chain[r])
      /\ NobodyOlder(engine, ticket[r])
  BY <1>3, <1>5, <1>6
<1>8. /\ Admitted_' = Admitted_ \cup {r} /\ r \notin Admitted_ /\ Admitted_ \in SUBSET Requests
      /\ Waiting' = Waiting \ {r} /\ HasJoined' = HasJoined
  BY <1>1, <1>2 DEF Admitted_, Waiting, HasJoined
<1>9. Counted(engine', Usage(Admitted_ \cup {r}, chain))
  BY <1>1, <1>5, <1>7, <1>8, CountedMore DEF EngineInv
<1>10. /\ Listed(engine') = Listed(engine) /\ OnlyOnce(engine')
       /\ Limited(engine', Capacities(record))
  BY <1>1, <1>7, WentPools DEF EngineInv
<1>11. /\ engine' \in PoolStates /\ engine'.nextTicket = engine.nextTicket
       /\ InOrder(engine') /\ Line(engine') = Line(engine) \ {Ticketed(r)}
  BY <1>7 DEF Went
<1>12. \A q \in Requests : Ticketed(q)' = Ticketed(q)
  BY <1>2 DEF Ticketed
<1>13. Line(engine') = {Ticketed(q)' : q \in Waiting'}
  <2>1. \A q \in Waiting : q # r => Ticketed(q) # Ticketed(r)
    BY <1>4 DEF EngineInv, Ticketed
  <2>2. \A q \in Waiting : q \in Requests
    BY DEF Waiting
  <2>3. Line(engine) = {Ticketed(q) : q \in Waiting}
    BY DEF EngineInv
  <2>4. {Ticketed(q) : q \in Waiting} \ {Ticketed(r)} = {Ticketed(q) : q \in Waiting \ {r}}
    BY <2>1
  <2>5. {Ticketed(q)' : q \in Waiting \ {r}} = {Ticketed(q) : q \in Waiting \ {r}}
    BY <1>12, <2>2
  <2>6. QED
    BY <1>8, <1>11, <2>3, <2>4, <2>5
<1>14. \A q \in Requests : /\ Names(chain'[q]) \subseteq Listed(engine')
                           /\ phase'[q] # "idle" => All \in Names(chain'[q])
                           /\ ticket'[q] <= engine'.nextTicket
  BY <1>1, <1>2, <1>10, <1>11 DEF EngineInv
<1>15. \A p, q \in Waiting' : ticket'[p] = ticket'[q] => p = q
  BY <1>2, <1>8 DEF EngineInv
<1>16. All \in Listed(engine') /\ engine'.nextTicket = Cardinality(HasJoined')
  BY <1>8, <1>10, <1>11 DEF EngineInv
<1>17. Counted(engine', Usage(Admitted_', chain')) /\ Limited(engine', Capacities(record'))
  BY <1>2, <1>8, <1>9, <1>10
<1>18. EngineInv'
  BY <1>10, <1>11, <1>13, <1>14, <1>15, <1>16, <1>17 DEF EngineInv
<1>19. served[r] = "none"
  BY <1>2 DEF SentFirst
<1>20. QED
  BY <1>7, <1>11, <1>18, <1>19

LEMMA TerminalStep ==
  ASSUME IInv, NEW r \in Requests, Terminal(r)
  PROVE  EngineInv' /\ engine' \in PoolStates
<1> USE DEF IInv
<1>1. /\ engine \in PoolStates /\ InOrder(engine)
      /\ phase \in [Requests -> {"idle", "resolved", "waiting", "sent", "ended"}]
  BY DEF TypeInv, EngineInv
<1>2. /\ phase[r] = "sent" /\ phase' = [phase EXCEPT ![r] = "ended"]
      /\ engine' = Release(engine, chain[r])
      /\ record' = record /\ chain' = chain /\ ticket' = ticket
  BY DEF Terminal
<1>3. /\ Admitted_' = Admitted_ \ {r} /\ r \in Admitted_ /\ Admitted_ \in SUBSET Requests
      /\ Waiting' = Waiting /\ HasJoined' = HasJoined
  BY <1>1, <1>2 DEF Admitted_, Waiting, HasJoined
<1>4. Counted(engine', Usage(Admitted_ \ {r}, chain))
  BY <1>1, <1>2, <1>3, CountedFewer DEF EngineInv
<1>5. SameButCounts(engine, engine')
  BY <1>1, <1>2, ReleaseFacts
<1>6. /\ Listed(engine') = Listed(engine) /\ OnlyOnce(engine')
      /\ Limited(engine', Capacities(record))
      /\ InOrder(engine') /\ Line(engine') = Line(engine)
  BY <1>1, <1>5, SameButCountsPools DEF EngineInv
<1>7. engine' \in PoolStates /\ engine'.nextTicket = engine.nextTicket
  BY <1>5 DEF SameButCounts
<1>8. {Ticketed(q)' : q \in Waiting'} = {Ticketed(q) : q \in Waiting}
  BY <1>2, <1>3 DEF Ticketed
<1>9. \A q \in Requests : /\ Names(chain'[q]) \subseteq Listed(engine')
                          /\ phase'[q] # "idle" => All \in Names(chain'[q])
                          /\ ticket'[q] <= engine'.nextTicket
  BY <1>1, <1>2, <1>6, <1>7 DEF EngineInv
<1>10. Counted(engine', Usage(Admitted_', chain')) /\ Limited(engine', Capacities(record'))
  BY <1>2, <1>3, <1>4, <1>6
<1>11. QED
  BY <1>2, <1>3, <1>6, <1>7, <1>8, <1>9, <1>10 DEF EngineInv

LEMMA EngineStays ==
  ASSUME IInv, UNCHANGED engineVars
  PROVE  EngineInv'
<1>1. /\ engine' = engine /\ record' = record /\ phase' = phase
      /\ chain' = chain /\ ticket' = ticket
  BY DEF engineVars
<1>2. Admitted_' = Admitted_ /\ Waiting' = Waiting /\ HasJoined' = HasJoined
  BY <1>1 DEF Admitted_, Waiting, HasJoined
<1>3. {Ticketed(q)' : q \in Waiting'} = {Ticketed(q) : q \in Waiting}
  BY <1>1, <1>2 DEF Ticketed
<1>4. QED
  BY <1>1, <1>2, <1>3 DEF IInv, EngineInv

-----------------------------------------------------------------------------
(***************************************************************************)
(* The cartridge's steps.                                                  *)
(***************************************************************************)
LEMMA ComeGrows ==
  ASSUME NEW r \in Requests, r \notin HasCome, NEW more, more = HasCome \cup {r}
  PROVE  Cardinality(more) = Cardinality(HasCome) + 1 /\ Cardinality(HasCome) \in Nat
<1>1. HasCome \subseteq Requests
  BY DEF HasCome
<1>2. IsFiniteSet(HasCome)
  BY <1>1, ManifestAssumption, FS_Subset
<1>3. QED
  BY <1>2, FS_AddElement, FS_CardinalityType

(* The pools a REQ finds: those of the process, or those of a new one.      *)
LEMMA FoundPools ==
  ASSUME IInv, NEW s, s = IF host.running THEN local ELSE NewPools,
         NEW m, m = IF host.running THEN meta ELSE FromManifest
  PROVE  /\ s \in PoolStates /\ InOrder(s) /\ Listed(s) = PoolNames /\ m \in Limits
         /\ Counted(s, Usage(Running, LocalChains))
         /\ Limited(s, [n \in PoolNames |-> EffectiveOf(m[n])])
         /\ Line(s) = {Queued(t) : t \in DOMAIN waiting}
         /\ s.nextTicket <= Cardinality(HasCome)
         /\ \A t \in DOMAIN waiting : t # s.nextTicket
<1> USE DEF IInv
<1>1. CASE host.running
  <2>1. /\ s \in PoolStates /\ InOrder(s) /\ Listed(s) = PoolNames /\ m \in Limits
        /\ Counted(s, Usage(Running, LocalChains))
        /\ Limited(s, [n \in PoolNames |-> EffectiveOf(m[n])])
        /\ Line(s) = {Queued(t) : t \in DOMAIN waiting}
        /\ s.nextTicket <= Cardinality(HasCome)
    BY <1>1 DEF LocalInv, TypeInv, LocalLimits
  <2>2. ASSUME NEW t \in DOMAIN waiting
        PROVE  t # s.nextTicket
    <3>1. Queued(t) \in Line(s) /\ Queued(t).ticket = t
      BY <2>1 DEF Queued
    <3>2. Queued(t).ticket < s.nextTicket /\ s.nextTicket \in Nat /\ Queued(t).ticket \in Nat
      BY <2>1, <3>1, LineFacts, PoolStateParts
    <3>3. QED
      BY <3>1, <3>2
  <2>3. QED
    BY <2>1, <2>2
<1>2. CASE ~host.running
  <2>1. DOMAIN waiting = {} /\ Running = {}
    BY <1>2 DEF LocalInv, Routed
  <2>2. /\ NewPools \in PoolStates /\ NewPools.nextTicket = 0
        /\ InOrder(NewPools) /\ Line(NewPools) = {} /\ Listed(NewPools) = PoolNames
        /\ \A i \in 1..Len(NewPools.pools) :
             /\ NewPools.pools[i].active = 0
             /\ NewPools.pools[i].capacity = EffectiveOf(FromManifest[NewPools.pools[i].name])
    BY NewPoolsFacts
  <2>3. s = NewPools /\ m = FromManifest /\ m \in Limits
    BY <1>2, ManifestType
  <2>4. \A i \in 1..Len(s.pools) : s.pools[i].name \in PoolNames
    BY <2>2, <2>3, PoolStateParts
  <2>5. Counted(s, Usage(Running, LocalChains))
    <3>1. \A n \in PoolNames : Usage({}, LocalChains)[n] = 0
      BY UsageOfNone
    <3>2. QED
      BY <2>1, <2>2, <2>3, <2>4, <3>1 DEF Counted
  <2>6. Limited(s, [n \in PoolNames |-> EffectiveOf(m[n])])
    BY <2>2, <2>3, <2>4 DEF Limited
  <2>7. s.nextTicket <= Cardinality(HasCome)
    <3>1. HasCome \subseteq Requests
      BY DEF HasCome
    <3>2. Cardinality(HasCome) \in Nat
      BY <3>1, ManifestAssumption, FS_Subset, FS_CardinalityType
    <3>3. QED
      BY <2>2, <2>3, <3>2
  <2>8. Line(s) = {Queued(t) : t \in DOMAIN waiting}
    BY <2>1, <2>2, <2>3
  <2>9. QED
    BY <2>1, <2>2, <2>3, <2>5, <2>6, <2>7, <2>8
<1>3. QED
  BY <1>1, <1>2

LEMMA ArrivesStep ==
  ASSUME IInv, NEW r \in Requests, Arrives(r)
  PROVE  /\ LocalInv' /\ local' \in PoolStates /\ broken' = broken
         /\ host' \in Records /\ meta' \in Limits
         /\ DOMAIN waiting' \subseteq Nat /\ waiting' \in [DOMAIN waiting' -> Requests]
         /\ served' \in [Requests -> {"none", "coming", "queued", "running", "done"}]
         /\ served[r] = "coming" /\ \A q \in Requests : q # r => served'[q] = served[q]
         /\ LET s == IF host.running THEN local ELSE NewPools IN
              served'[r] = "running" =>
                HasRoom(s, LocalChain(r)) /\ NobodyOlder(s, s.nextTicket)
<1> USE DEF IInv
<1>1. PICK s, m : /\ s = IF host.running THEN local ELSE NewPools
                  /\ m = IF host.running THEN meta ELSE FromManifest
  OBVIOUS
<1>2. /\ s \in PoolStates /\ InOrder(s) /\ Listed(s) = PoolNames /\ m \in Limits
      /\ Counted(s, Usage(Running, LocalChains))
      /\ Limited(s, [n \in PoolNames |-> EffectiveOf(m[n])])
      /\ Line(s) = {Queued(t) : t \in DOMAIN waiting}
      /\ s.nextTicket <= Cardinality(HasCome)
      /\ \A t \in DOMAIN waiting : t # s.nextTicket
  BY <1>1, FoundPools
<1>3. /\ LocalChain(r) \in Seq(PoolNames) /\ LocalChains[r] = LocalChain(r)
      /\ Names(LocalChain(r)) \subseteq Listed(s)
  BY <1>2, ChainFacts
<1>4. PICK a, w : a = Arrive(s, LocalChain(r)) /\ w = [ticket |-> s.nextTicket, chain |-> LocalChain(r)]
  OBVIOUS
<1>5. w.ticket = s.nextTicket /\ w.chain = LocalChain(r)
  BY <1>4
<1>6. \/ /\ a.answer = "queued" /\ a.state = Enqueue(s, LocalChain(r)) /\ a.ticket = s.nextTicket
      \/ /\ a.answer = "admitted" /\ Went(Enqueue(s, LocalChain(r)), a.state, w)
         /\ HasRoom(s, LocalChain(r)) /\ NobodyOlder(s, s.nextTicket)
  BY <1>2, <1>3, <1>4, ArriveFacts
<1>7. PICK e : e = Enqueue(s, LocalChain(r))
  OBVIOUS
<1>8. /\ e \in PoolStates /\ e.pools = s.pools /\ e.nextTicket = s.nextTicket + 1
      /\ InOrder(e) /\ Line(e) = Line(s) \cup {w}
  BY <1>2, <1>3, <1>4, <1>7, EnqueueFacts
<1>9. /\ Listed(e) = PoolNames /\ Counted(e, Usage(Running, LocalChains))
      /\ Limited(e, [n \in PoolNames |-> EffectiveOf(m[n])])
  BY <1>2, <1>8 DEF Listed, Counted, Limited
<1>10. /\ served[r] = "coming" /\ served \in [Requests -> {"none", "coming", "queued", "running", "done"}]
       /\ waiting \in [DOMAIN waiting -> Requests] /\ DOMAIN waiting \subseteq Nat
       /\ host \in Records
  BY DEF Arrives, TypeInv
<1>11. meta' = m /\ host' \in Records /\ host'.running
  <2>1. CASE host.running
    BY <1>1, <1>10, <2>1 DEF Arrives
  <2>2. CASE ~host.running
    <3>1. meta' = m /\ host' = [running |-> TRUE, pools |-> FromManifest]
      BY <1>1, <2>2 DEF Arrives
    <3>2. QED
      BY <3>1, ManifestType DEF Records
  <2>3. QED
    BY <2>1, <2>2
<1>12. LocalLimits' = [n \in PoolNames |-> EffectiveOf(m[n])]
  BY <1>11 DEF LocalLimits
<1>13. r \notin Running /\ r \notin InLocal /\ r \notin HasCome /\ Running \in SUBSET Requests
  BY <1>10 DEF Running, InLocal, HasCome
<1>14. s.nextTicket \in Nat
  BY <1>2, PoolStateParts
<1>15. CASE a.answer = "queued"
  <2>1. a.state = e /\ a.ticket = s.nextTicket
    BY <1>6, <1>7, <1>15
  <2>2. /\ local' = e /\ waiting' = Extend(waiting, s.nextTicket, r) /\ broken' = broken
        /\ served' = [served EXCEPT ![r] = "queued"]
    BY <1>1, <1>4, <1>15, <2>1 DEF Arrives
  <2>3. /\ Running' = Running /\ InLocal' = InLocal \cup {r} /\ HasCome' = HasCome \cup {r}
        /\ \A q \in Requests : q # r => served'[q] = served[q]
        /\ served' \in [Requests -> {"none", "coming", "queued", "running", "done"}]
        /\ served'[r] = "queued"
    BY <1>10, <2>2 DEF Running, InLocal, HasCome
  <2>4. /\ DOMAIN waiting' = DOMAIN waiting \cup {s.nextTicket}
        /\ waiting'[s.nextTicket] = r
        /\ \A t \in DOMAIN waiting : waiting'[t] = waiting[t] /\ waiting[t] \in Requests
    BY <1>2, <1>10, <2>2 DEF Extend
  <2>5. waiting' \in [DOMAIN waiting' -> Requests] /\ DOMAIN waiting' \subseteq Nat
    <3>1. \A t \in DOMAIN waiting' : waiting'[t] \in Requests
      BY <2>4
    <3>2. waiting' = [t \in DOMAIN waiting' |-> waiting'[t]]
      BY <2>2 DEF Extend
    <3>3. QED
      BY <1>10, <1>14, <2>4, <3>1, <3>2
  <2>6. Queued(s.nextTicket)' = w /\ \A t \in DOMAIN waiting : Queued(t)' = Queued(t)
    BY <1>3, <1>4, <2>4 DEF Queued, LocalChains
  <2>7. Line(local') = {Queued(t)' : t \in DOMAIN waiting'}
    <3>1. {Queued(t)' : t \in DOMAIN waiting'} = {Queued(t)' : t \in DOMAIN waiting} \cup {w}
      BY <2>4, <2>6
    <3>2. {Queued(t)' : t \in DOMAIN waiting} = {Queued(t) : t \in DOMAIN waiting}
      BY <2>6
    <3>3. QED
      BY <1>2, <1>8, <2>2, <3>1, <3>2
  <2>8. {waiting'[t] : t \in DOMAIN waiting'} = InLocal'
    <3>1. {waiting'[t] : t \in DOMAIN waiting'} = {waiting[t] : t \in DOMAIN waiting} \cup {r}
      BY <2>4
    <3>2. QED
      BY <2>3, <3>1 DEF LocalInv
  <2>9. \A t, u \in DOMAIN waiting' : waiting'[t] = waiting'[u] => t = u
    <3>1. \A t \in DOMAIN waiting : waiting[t] # r
      BY <1>13 DEF LocalInv
    <3>2. QED
      BY <2>4, <3>1 DEF LocalInv
  <2>10. local'.nextTicket <= Cardinality(HasCome')
    <3>1. Cardinality(HasCome') = Cardinality(HasCome) + 1 /\ Cardinality(HasCome) \in Nat
      BY <1>13, <2>3, ComeGrows
    <3>2. QED
      BY <1>2, <1>8, <1>14, <2>2, <3>1
  <2>11. Counted(local', Usage(Running', LocalChains)) /\ Limited(local', LocalLimits')
    BY <1>9, <1>12, <2>2, <2>3
  <2>12. LocalInv'
    BY <1>8, <1>9, <1>11, <2>2, <2>7, <2>8, <2>9, <2>10, <2>11 DEF LocalInv, LocalChains
  <2>13. QED
    BY <1>8, <1>10, <1>11, <1>2, <2>2, <2>3, <2>5, <2>12
<1>16. CASE a.answer # "queued"
  <2>1. a.answer = "admitted" /\ Went(e, a.state, w) /\ HasRoom(s, LocalChain(r)) /\ NobodyOlder(s, s.nextTicket)
    BY <1>6, <1>7, <1>16
  <2>2. /\ local' = a.state /\ waiting' = waiting /\ broken' = broken
        /\ served' = [served EXCEPT ![r] = "running"]
    BY <1>1, <1>4, <1>16, <2>1 DEF Arrives
  <2>3. /\ Running' = Running \cup {r} /\ InLocal' = InLocal /\ HasCome' = HasCome \cup {r}
        /\ \A q \in Requests : q # r => served'[q] = served[q]
        /\ served' \in [Requests -> {"none", "coming", "queued", "running", "done"}]
    BY <1>10, <2>2 DEF Running, InLocal, HasCome
  <2>4. Counted(local', Usage(Running \cup {r}, LocalChains))
    BY <1>3, <1>5, <1>8, <1>9, <1>13, <2>1, <2>2, CountedMore
  <2>5. Listed(local') = PoolNames /\ Limited(local', LocalLimits')
    BY <1>8, <1>9, <1>12, <2>1, <2>2, WentPools
  <2>6. /\ local' \in PoolStates /\ local'.nextTicket = s.nextTicket + 1 /\ InOrder(local')
        /\ Line(local') = Line(s)
    <3>1. /\ local' \in PoolStates /\ local'.nextTicket = s.nextTicket + 1 /\ InOrder(local')
          /\ Line(local') = (Line(s) \cup {w}) \ {w}
      BY <1>8, <2>1, <2>2 DEF Went
    <3>2. w \notin Line(s)
      BY <1>2, <1>5 DEF Queued
    <3>3. QED
      BY <3>1, <3>2
  <2>7. Line(local') = {Queued(t)' : t \in DOMAIN waiting'}
    <3>1. \A t \in DOMAIN waiting : Queued(t)' = Queued(t)
      BY <2>2 DEF Queued, LocalChains
    <3>2. QED
      BY <1>2, <2>2, <2>6, <3>1
  <2>8. /\ {waiting'[t] : t \in DOMAIN waiting'} = InLocal'
        /\ \A t, u \in DOMAIN waiting' : waiting'[t] = waiting'[u] => t = u
    BY <2>2, <2>3 DEF LocalInv
  <2>9. local'.nextTicket <= Cardinality(HasCome')
    <3>1. Cardinality(HasCome') = Cardinality(HasCome) + 1 /\ Cardinality(HasCome) \in Nat
      BY <1>13, <2>3, ComeGrows
    <3>2. QED
      BY <1>2, <1>14, <2>6, <3>1
  <2>10. LocalInv'
    BY <1>11, <2>3, <2>4, <2>5, <2>6, <2>7, <2>8, <2>9 DEF LocalInv, LocalChains
  <2>11. QED
    BY <1>1, <1>10, <1>11, <1>2, <2>1, <2>2, <2>3, <2>6, <2>10
<1>17. QED
  BY <1>15, <1>16

LEMMA WaiterIsRequest ==
  ASSUME IInv, NEW w \in Line(local)
  PROVE  /\ w.ticket \in DOMAIN waiting /\ w = Queued(w.ticket)
         /\ waiting[w.ticket] \in Requests /\ served[waiting[w.ticket]] = "queued"
         /\ w.chain = LocalChains[waiting[w.ticket]]
<1>1. PICK t \in DOMAIN waiting : w = Queued(t)
  BY DEF IInv, LocalInv
<1>2. w.ticket = t /\ w.chain = LocalChains[waiting[t]]
  BY <1>1 DEF Queued
<1>3. waiting[t] \in InLocal
  BY DEF IInv, LocalInv
<1>4. QED
  BY <1>1, <1>2, <1>3 DEF InLocal

(* One ticket is taken off the requests that wait. *)
LEMMA TicketGone ==
  ASSUME IInv, NEW t \in DOMAIN waiting, waiting' = Without(waiting, t)
  PROVE  /\ DOMAIN waiting' = DOMAIN waiting \ {t}
         /\ \A u \in DOMAIN waiting' : waiting'[u] = waiting[u] /\ Queued(u)' = Queued(u)
         /\ DOMAIN waiting' \subseteq Nat /\ waiting' \in [DOMAIN waiting' -> Requests]
         /\ {waiting'[u] : u \in DOMAIN waiting'} = InLocal \ {waiting[t]}
         /\ {Queued(u)' : u \in DOMAIN waiting'} = {w \in {Queued(u) : u \in DOMAIN waiting} : w.ticket # t}
         /\ \A u, v \in DOMAIN waiting' : waiting'[u] = waiting'[v] => u = v
<1>1. /\ DOMAIN waiting' = DOMAIN waiting \ {t}
      /\ \A u \in DOMAIN waiting' : waiting'[u] = waiting[u]
      /\ waiting' = [u \in DOMAIN waiting' |-> waiting'[u]]
  BY DEF Without
<1>2. DOMAIN waiting \subseteq Nat /\ \A u \in DOMAIN waiting : waiting[u] \in Requests
  BY DEF IInv, TypeInv
<1>3. \A u \in DOMAIN waiting' : Queued(u)' = Queued(u)
  BY <1>1 DEF Queued, LocalChains
<1>4. waiting' \in [DOMAIN waiting' -> Requests]
  BY <1>1, <1>2
<1>5. \A u, v \in DOMAIN waiting : waiting[u] = waiting[v] => u = v
  BY DEF IInv, LocalInv
<1>6. {waiting'[u] : u \in DOMAIN waiting'} = InLocal \ {waiting[t]}
  <2>1. {waiting[u] : u \in DOMAIN waiting} = InLocal
    BY DEF IInv, LocalInv
  <2>2. {waiting[u] : u \in DOMAIN waiting \ {t}} = {waiting[u] : u \in DOMAIN waiting} \ {waiting[t]}
    BY <1>5
  <2>3. {waiting'[u] : u \in DOMAIN waiting'} = {waiting[u] : u \in DOMAIN waiting \ {t}}
    BY <1>1
  <2>4. QED
    BY <2>1, <2>2, <2>3
<1>7. {Queued(u)' : u \in DOMAIN waiting'} = {w \in {Queued(u) : u \in DOMAIN waiting} : w.ticket # t}
  <2>1. \A u \in DOMAIN waiting : Queued(u).ticket = u
    BY DEF Queued
  <2>2. {Queued(u)' : u \in DOMAIN waiting'} = {Queued(u) : u \in DOMAIN waiting \ {t}}
    BY <1>1, <1>3
  <2>3. QED
    BY <2>1, <2>2
<1>8. QED
  BY <1>1, <1>2, <1>3, <1>4, <1>5, <1>6, <1>7

LEMMA StartNextStep ==
  ASSUME IInv, StartNext
  PROVE  /\ LocalInv' /\ local' \in PoolStates /\ broken' = broken
         /\ DOMAIN waiting' \subseteq Nat /\ waiting' \in [DOMAIN waiting' -> Requests]
         /\ \E w \in Line(local) :
              /\ served' = [served EXCEPT ![waiting[w.ticket]] = "running"]
              /\ HasRoom(local, w.chain) /\ NobodyOlder(local, w.ticket)
<1>1. local \in PoolStates /\ InOrder(local)
  BY DEF IInv, TypeInv, LocalInv
<1>2. AdmitNext(local) # None
  BY DEF StartNext
<1>3. PICK w \in Line(local) :
        /\ AdmitNext(local).waiter = w /\ Went(local, AdmitNext(local).state, w)
        /\ HasRoom(local, w.chain) /\ NobodyOlder(local, w.ticket)
  BY <1>1, <1>2, AdmitNextFacts
<1>4. /\ w.ticket \in DOMAIN waiting /\ w = Queued(w.ticket)
      /\ waiting[w.ticket] \in Requests /\ served[waiting[w.ticket]] = "queued"
      /\ w.chain = LocalChains[waiting[w.ticket]]
  BY WaiterIsRequest
<1>5. PICK t, r : t = w.ticket /\ r = waiting[w.ticket]
  OBVIOUS
<1>6. /\ local' = AdmitNext(local).state /\ waiting' = Without(waiting, t)
      /\ served' = [served EXCEPT ![r] = "running"] /\ broken' = broken
      /\ host' = host /\ meta' = meta
  BY <1>3, <1>4, <1>5 DEF StartNext
<1>7. /\ DOMAIN waiting' = DOMAIN waiting \ {t}
      /\ DOMAIN waiting' \subseteq Nat /\ waiting' \in [DOMAIN waiting' -> Requests]
      /\ {waiting'[u] : u \in DOMAIN waiting'} = InLocal \ {r}
      /\ {Queued(u)' : u \in DOMAIN waiting'} = {v \in {Queued(u) : u \in DOMAIN waiting} : v.ticket # t}
      /\ \A u, v \in DOMAIN waiting' : waiting'[u] = waiting'[v] => u = v
  BY <1>4, <1>5, <1>6, TicketGone
<1>8. Went(local, local', w)
  BY <1>3, <1>6
<1>9. served \in [Requests -> {"none", "coming", "queued", "running", "done"}]
  BY DEF IInv, TypeInv
<1>10. /\ Running' = Running \cup {r} /\ r \notin Running /\ Running \in SUBSET Requests
       /\ r \in Requests /\ InLocal' = InLocal \ {r} /\ HasCome' = HasCome
  BY <1>4, <1>5, <1>6, <1>9 DEF Running, InLocal, HasCome
<1>11. Counted(local', Usage(Running \cup {r}, LocalChains))
  BY <1>1, <1>4, <1>5, <1>8, <1>10, CountedMore DEF IInv, LocalInv
<1>12. Listed(local') = Listed(local) /\ Limited(local', LocalLimits)
  BY <1>1, <1>8, WentPools DEF IInv, LocalInv
<1>13. /\ local' \in PoolStates /\ local'.nextTicket = local.nextTicket /\ InOrder(local')
       /\ Line(local') = Line(local) \ {w}
  BY <1>8 DEF Went
<1>14. Line(local') = {Queued(u)' : u \in DOMAIN waiting'}
  <2>1. Line(local) = {Queued(u) : u \in DOMAIN waiting}
    BY DEF IInv, LocalInv
  <2>2. \A v \in Line(local) : v.ticket = t <=> v = w
    BY <1>1, <1>5, LineFacts
  <2>3. QED
    BY <1>7, <1>13, <2>1, <2>2
<1>15. host'.running
  <2>1. DOMAIN waiting # {}
    BY <1>4
  <2>2. host.running
    BY <2>1 DEF IInv, LocalInv
  <2>3. QED
    BY <1>6, <2>2
<1>16. LocalLimits' = LocalLimits /\ LocalChains' = LocalChains
  BY <1>6 DEF LocalLimits, LocalChains
<1>17. Listed(local') = PoolNames
  BY <1>6, <1>12, <1>15 DEF IInv, LocalInv
<1>18. LocalInv'
  <2>1. local'.nextTicket <= Cardinality(HasCome')
    BY <1>10, <1>13 DEF IInv, LocalInv
  <2>2. Counted(local', Usage(Running', LocalChains')) /\ Limited(local', LocalLimits')
    BY <1>10, <1>11, <1>12, <1>16
  <2>3. QED
    BY <1>7, <1>10, <1>13, <1>14, <1>15, <1>17, <2>1, <2>2 DEF LocalInv
<1>19. QED
  BY <1>3, <1>5, <1>6, <1>7, <1>13, <1>18

LEMMA RemoveQueuedStep ==
  ASSUME IInv, NEW t \in DOMAIN waiting, RemoveQueued(t)
  PROVE  /\ LocalInv' /\ local' \in PoolStates
         /\ DOMAIN waiting' \subseteq Nat /\ waiting' \in [DOMAIN waiting' -> Requests]
         /\ waiting[t] \in Requests /\ served[waiting[t]] = "queued"
<1>1. local \in PoolStates /\ InOrder(local)
  BY DEF IInv, TypeInv, LocalInv
<1>2. PICK r : r = waiting[t]
  OBVIOUS
<1>3. r \in InLocal
  BY <1>2 DEF IInv, LocalInv
<1>4. /\ local' = Leave(local, t) /\ waiting' = Without(waiting, t)
      /\ served' = [served EXCEPT ![r] = "done"] /\ host' = host /\ meta' = meta
  BY <1>2 DEF RemoveQueued
<1>5. /\ DOMAIN waiting' = DOMAIN waiting \ {t}
      /\ DOMAIN waiting' \subseteq Nat /\ waiting' \in [DOMAIN waiting' -> Requests]
      /\ {waiting'[u] : u \in DOMAIN waiting'} = InLocal \ {r}
      /\ {Queued(u)' : u \in DOMAIN waiting'} = {v \in {Queued(u) : u \in DOMAIN waiting} : v.ticket # t}
      /\ \A u, v \in DOMAIN waiting' : waiting'[u] = waiting'[v] => u = v
  BY <1>2, <1>4, TicketGone
<1>6. /\ local' \in PoolStates /\ local'.pools = local.pools
      /\ local'.nextTicket = local.nextTicket
      /\ InOrder(local') /\ Line(local') = {w \in Line(local) : w.ticket # t}
  BY <1>1, <1>4, LeaveFacts
<1>7. served \in [Requests -> {"none", "coming", "queued", "running", "done"}]
  BY DEF IInv, TypeInv
<1>8. Running' = Running /\ InLocal' = InLocal \ {r} /\ HasCome' = HasCome
  BY <1>3, <1>4, <1>7 DEF Running, InLocal, HasCome
<1>9. /\ Listed(local') = Listed(local) /\ Limited(local', LocalLimits')
      /\ Counted(local', Usage(Running', LocalChains'))
  BY <1>4, <1>6, <1>8 DEF IInv, LocalInv, Listed, Limited, Counted, LocalLimits, LocalChains
<1>10. Line(local') = {Queued(u)' : u \in DOMAIN waiting'}
  BY <1>5, <1>6 DEF IInv, LocalInv
<1>11. host'.running /\ Listed(local') = PoolNames
  <2>1. DOMAIN waiting # {}
    OBVIOUS
  <2>2. host.running /\ Listed(local) = PoolNames
    BY <2>1 DEF IInv, LocalInv
  <2>3. QED
    BY <1>4, <1>9, <2>2
<1>12. local'.nextTicket <= Cardinality(HasCome')
  BY <1>6, <1>8 DEF IInv, LocalInv
<1>13. LocalInv'
  BY <1>5, <1>6, <1>8, <1>9, <1>10, <1>11, <1>12 DEF LocalInv
<1>14. QED
  BY <1>2, <1>3, <1>5, <1>6, <1>13 DEF InLocal

LEMMA FinishStep ==
  ASSUME IInv, NEW r \in Requests, Finish(r)
  PROVE  /\ LocalInv' /\ local' \in PoolStates /\ broken' = broken
<1>1. /\ local \in PoolStates /\ InOrder(local)
      /\ served \in [Requests -> {"none", "coming", "queued", "running", "done"}]
      /\ Counted(local, Usage(Running, LocalChains))
  BY DEF IInv, TypeInv, LocalInv
<1>2. served[r] = "running"
  BY DEF Finish
<1>3. r \in Running /\ Running \in SUBSET Requests
  BY <1>2 DEF Running
<1>4. host.running /\ Listed(local) = PoolNames
  <2>1. host.running
    BY <1>3 DEF IInv, LocalInv, Routed
  <2>2. QED
    BY <2>1 DEF IInv, LocalInv
<1>5. LocalChains[r] = LocalChain(r) /\ Names(LocalChain(r)) \subseteq PoolNames
  BY ChainFacts
<1>6. ASSUME NEW n \in Names(LocalChain(r))
      PROVE  PoolNamed(local, n).active # 0
  <2>1. n \in Listed(local) /\ n \in PoolNames
    BY <1>4, <1>5
  <2>2. PICK i \in 1..Len(local.pools) : PoolNamed(local, n) = local.pools[i] /\ local.pools[i].name = n
    BY <1>1, <2>1, PoolIsFound
  <2>3. local.pools[i].active = Usage(Running, LocalChains)[n]
    BY <1>1, <2>2 DEF Counted
  <2>4. Usage(Running, LocalChains)[n] > 0
    BY <1>3, <1>5, <2>1, UsageFewer
  <2>5. QED
    BY <2>2, <2>3, <2>4
<1>7. /\ local' = Release(local, LocalChain(r)) /\ broken' = broken
      /\ served' = [served EXCEPT ![r] = "done"]
      /\ host' = host /\ meta' = meta /\ waiting' = waiting
  BY <1>6 DEF Finish
<1>8. Running' = Running \ {r} /\ InLocal' = InLocal /\ HasCome' = HasCome
  BY <1>1, <1>2, <1>7 DEF Running, InLocal, HasCome
<1>9. Counted(local', Usage(Running \ {r}, LocalChains))
  BY <1>1, <1>3, <1>5, <1>7, CountedFewer
<1>10. SameButCounts(local, local')
  BY <1>1, <1>7, ReleaseFacts
<1>11. /\ Listed(local') = Listed(local) /\ Limited(local', LocalLimits)
       /\ InOrder(local') /\ Line(local') = Line(local)
  BY <1>1, <1>10, SameButCountsPools DEF IInv, LocalInv
<1>12. local' \in PoolStates /\ local'.nextTicket = local.nextTicket
  BY <1>10 DEF SameButCounts
<1>13. LocalLimits' = LocalLimits /\ LocalChains' = LocalChains /\ \A t \in DOMAIN waiting : Queued(t)' = Queued(t)
  BY <1>7 DEF LocalLimits, LocalChains, Queued
<1>14. Line(local') = {Queued(t)' : t \in DOMAIN waiting'}
  BY <1>7, <1>11, <1>13 DEF IInv, LocalInv
<1>15. Counted(local', Usage(Running', LocalChains')) /\ Limited(local', LocalLimits')
  BY <1>8, <1>9, <1>11, <1>13
<1>16. LocalInv'
  BY <1>4, <1>7, <1>8, <1>11, <1>12, <1>14, <1>15 DEF IInv, LocalInv
<1>17. QED
  BY <1>7, <1>12, <1>16

LEMMA LocalReset ==
  ASSUME IInv, host.running, NEW map, NEW done \in SUBSET PoolNames,
         Reset(local, local', map, done), meta' \in Limits,
         \A n \in PoolNames : IF n \in done THEN map[n] = EffectiveOf(meta'[n]) ELSE meta'[n] = meta[n],
         host' = host, waiting' = waiting, served' = served
  PROVE  LocalInv' /\ local' \in PoolStates
<1>1. /\ local \in PoolStates /\ InOrder(local) /\ Listed(local) = PoolNames
      /\ Counted(local, Usage(Running, LocalChains)) /\ Limited(local, LocalLimits)
  BY DEF IInv, TypeInv, LocalInv
<1>2. /\ local' \in PoolStates /\ local'.nextTicket = local.nextTicket
      /\ Listed(local') = PoolNames
  BY <1>1 DEF Reset
<1>3. InOrder(local') /\ Line(local') = Line(local)
  BY <1>1, ResetLine
<1>4. Counted(local', Usage(Running, LocalChains))
  <2>1. \A n \in PoolNames : n \notin Listed(local) => Usage(Running, LocalChains)[n] = 0
    BY <1>1
  <2>2. QED
    BY <1>1, <2>1, CountedReset
<1>5. Limited(local', LocalLimits')
  <2>1. PICK after : after = LocalLimits'
    OBVIOUS
  <2>2. \A n \in PoolNames : n \in DOMAIN after =>
          IF n \in done THEN after[n] = map[n]
          ELSE n \in DOMAIN LocalLimits /\ after[n] = LocalLimits[n]
    BY <2>1 DEF LocalLimits
  <2>3. Limited(local', after)
    BY <1>1, <2>2, LimitedReset
  <2>4. QED
    BY <2>1, <2>3
<1>6. Running' = Running /\ InLocal' = InLocal /\ HasCome' = HasCome /\ LocalChains' = LocalChains
  BY DEF Running, InLocal, HasCome, LocalChains
<1>7. \A t \in DOMAIN waiting : Queued(t)' = Queued(t)
  BY DEF Queued, LocalChains
<1>8. Line(local') = {Queued(t)' : t \in DOMAIN waiting'}
  BY <1>3, <1>7 DEF IInv, LocalInv
<1>9. Counted(local', Usage(Running', LocalChains'))
  BY <1>4, <1>6
<1>10. LocalInv'
  BY <1>2, <1>3, <1>5, <1>6, <1>8, <1>9 DEF IInv, LocalInv
<1>11. QED
  BY <1>2, <1>10

LEMMA ApplyDesiredStep ==
  ASSUME IInv, NEW batch \in Batches, ApplyDesired(batch)
  PROVE  LocalInv' /\ local' \in PoolStates /\ meta' \in Limits
<1> DEFINE to == [p \in PoolNames |->
                   IF p \in DOMAIN batch THEN [meta[p] EXCEPT !.configured = batch[p]]
                   ELSE meta[p]]
           map == [p \in DOMAIN batch |-> EffectiveOf(to[p])]
<1>1. /\ host.running /\ DOMAIN batch \subseteq PoolNames /\ meta' = to
      /\ local' = Configured(local, map)
      /\ host' = host /\ waiting' = waiting /\ served' = served
  BY DEF ApplyDesired
<1>2. meta \in Limits /\ \A p \in DOMAIN batch : batch[p] \in Nat
  BY ManifestAssumption DEF IInv, TypeInv
<1>3. to \in Limits
  <2>1. ASSUME NEW p \in PoolNames
        PROVE  to[p] \in [configured : Nat, available : Nat \cup {None}]
    <3>1. meta[p] \in [configured : Nat, available : Nat \cup {None}]
      BY <1>2 DEF Limits
    <3>2. CASE p \in DOMAIN batch
      <4>1. to[p] = [meta[p] EXCEPT !.configured = batch[p]] /\ batch[p] \in Nat
        BY <1>2, <3>2
      <4>2. QED
        BY <3>1, <4>1
    <3>3. CASE p \notin DOMAIN batch
      BY <3>1, <3>3
    <3>4. QED
      BY <3>2, <3>3
  <2>2. to = [p \in PoolNames |-> to[p]]
    OBVIOUS
  <2> HIDE DEF to
  <2>3. QED
    BY <2>1, <2>2 DEF Limits
<1>4. \A p \in PoolNames : IF p \in DOMAIN batch THEN map[p] = EffectiveOf(to[p]) ELSE to[p] = meta[p]
  OBVIOUS
<1>5. DOMAIN map = DOMAIN batch
  OBVIOUS
<1> HIDE DEF map, to
<1>6. \A p \in PoolNames : p \in DOMAIN map => map[p] \in Nat
  BY <1>3, <1>4, <1>5, LimitsParts
<1>7. local \in PoolStates
  BY DEF IInv, TypeInv
<1>8. Reset(local, local', map, DOMAIN map)
  <2>1. Reset(local, local', map, PoolNames \cap DOMAIN map)
    BY <1>1, <1>6, <1>7, ConfiguredFacts
  <2>2. PoolNames \cap DOMAIN map = DOMAIN map
    BY <1>1, <1>5
  <2>3. QED
    BY <2>1, <2>2
<1>9. LocalInv' /\ local' \in PoolStates
  BY <1>1, <1>3, <1>4, <1>5, <1>8, LocalReset
<1>10. QED
  BY <1>1, <1>3, <1>9

LEMMA SetAvailableStep ==
  ASSUME IInv, NEW report \in Reports, SetAvailable(report[1], report[2])
  PROVE  LocalInv' /\ local' \in PoolStates /\ meta' \in Limits
<1>1. PICK p, n : p = report[1] /\ n = report[2]
  OBVIOUS
<1>2. p \in PoolNames /\ n \in Nat \cup {None}
  BY <1>1, ManifestAssumption
<1>3. PICK to : to = [meta[p] EXCEPT !.available = n]
  OBVIOUS
<1>4. /\ host.running /\ meta' = [meta EXCEPT ![p] = to]
      /\ local' = SetCapacity(local, p, EffectiveOf(to))
      /\ host' = host /\ waiting' = waiting /\ served' = served
  BY <1>1, <1>3 DEF SetAvailable
<1>5. meta \in Limits /\ local \in PoolStates
  BY DEF IInv, TypeInv
<1>6. to \in [configured : Nat, available : Nat \cup {None}]
  <2>1. meta[p] \in [configured : Nat, available : Nat \cup {None}]
    BY <1>2, <1>5 DEF Limits
  <2>2. QED
    BY <1>2, <1>3, <2>1
<1>7. meta' \in Limits /\ meta'[p] = to /\ \A q \in PoolNames : q # p => meta'[q] = meta[q]
  BY <1>2, <1>4, <1>5, <1>6 DEF Limits
<1>8. PICK map : map = [q \in {p} |-> EffectiveOf(to)]
  OBVIOUS
<1>9. map[p] = EffectiveOf(to) /\ map[p] \in Nat
  BY <1>2, <1>7, <1>8, LimitsParts
<1>10. Reset(local, local', map, {p})
  <2>1. Reset(local, local, map, {})
    BY <1>5, ResetNothing
  <2>2. Reset(local, SetCapacity(local, p, map[p]), map, {} \cup {p})
    BY <1>2, <1>5, <1>9, <2>1, ResetOneMore
  <2>3. {} \cup {p} = {p}
    OBVIOUS
  <2>4. QED
    BY <1>4, <1>9, <2>2, <2>3
<1>11. \A q \in PoolNames : IF q \in {p} THEN map[q] = EffectiveOf(meta'[q]) ELSE meta'[q] = meta[q]
  BY <1>7, <1>9
<1>12. LocalInv' /\ local' \in PoolStates
  <2>1. {p} \in SUBSET PoolNames
    BY <1>2
  <2>2. QED
    BY <1>4, <1>7, <1>10, <1>11, <2>1, LocalReset
<1>13. QED
  BY <1>7, <1>12

LEMMA DieStep ==
  ASSUME IInv, Die
  PROVE  /\ LocalInv' /\ local' \in PoolStates /\ host' \in Records
         /\ DOMAIN waiting' \subseteq Nat /\ waiting' \in [DOMAIN waiting' -> Requests]
         /\ served' \in [Requests -> {"none", "coming", "queued", "running", "done"}]
         /\ \A r \in Requests : served'[r] \in {served[r], "done"} /\ (served[r] = "none" => served'[r] = "none")
<1>1. /\ host \in Records /\ served \in [Requests -> {"none", "coming", "queued", "running", "done"}]
  BY DEF IInv, TypeInv
<1>2. /\ host' = [host EXCEPT !.running = FALSE]
      /\ served' = [r \in Requests |-> IF r \in Routed THEN "done" ELSE served[r]]
      /\ local' = Empty /\ waiting' = <<>> /\ meta' = meta
  BY DEF Die
<1>3. ~host'.running /\ host' \in Records
  BY <1>1, <1>2 DEF Records
<1>4. \A r \in Routed : served[r] \in {"queued", "running"} /\ r \in Requests
  BY DEF Routed, InLocal, Running
<1>5. \A r \in Requests : /\ served'[r] \in {served[r], "done"}
                          /\ served[r] = "none" => served'[r] = "none"
                          /\ served'[r] # "queued" /\ served'[r] # "running"
                          /\ served'[r] = "done" <=> served[r] \in {"queued", "running", "done"}
  BY <1>1, <1>2, <1>4 DEF Routed, InLocal, Running
<1>6. served' \in [Requests -> {"none", "coming", "queued", "running", "done"}]
  BY <1>1, <1>2
<1>7. Running' = {} /\ InLocal' = {} /\ Routed' = {} /\ HasCome' = HasCome
  BY <1>5 DEF Running, InLocal, Routed, HasCome
<1>8. DOMAIN waiting' = {} /\ waiting' \in [DOMAIN waiting' -> Requests]
  BY <1>2
<1>9. /\ local' \in PoolStates /\ InOrder(local') /\ Line(local') = {} /\ local'.nextTicket = 0
      /\ Len(local'.pools) = 0
  BY <1>2, EmptyFacts
<1>10. Counted(local', Usage(Running', LocalChains')) /\ Limited(local', LocalLimits')
  BY <1>9 DEF Counted, Limited
<1>11. local'.nextTicket <= Cardinality(HasCome')
  <2>1. HasCome \subseteq Requests
    BY DEF HasCome
  <2>2. Cardinality(HasCome) \in Nat
    BY <2>1, ManifestAssumption, FS_Subset, FS_CardinalityType
  <2>3. QED
    BY <1>7, <1>9, <2>2
<1>12. Line(local') = {Queued(t)' : t \in DOMAIN waiting'}
  BY <1>8, <1>9
<1>13. {waiting'[t] : t \in DOMAIN waiting'} = InLocal'
  BY <1>7, <1>8
<1>14. LocalInv'
  BY <1>2, <1>3, <1>7, <1>8, <1>9, <1>10, <1>11, <1>12, <1>13 DEF LocalInv
<1>15. QED
  BY <1>3, <1>5, <1>6, <1>8, <1>9, <1>14

LEMMA LocalStays ==
  ASSUME IInv, local' = local, meta' = meta, waiting' = waiting,
         host'.running = host.running,
         Running' = Running, InLocal' = InLocal, HasCome' = HasCome
  PROVE  LocalInv'
<1>1. Routed' = Routed /\ LocalLimits' = LocalLimits /\ LocalChains' = LocalChains
  BY DEF Routed, LocalLimits, LocalChains
<1>2. {Queued(t)' : t \in DOMAIN waiting'} = {Queued(t) : t \in DOMAIN waiting}
  BY DEF Queued, LocalChains
<1>3. QED
  BY <1>1, <1>2 DEF IInv, LocalInv

-----------------------------------------------------------------------------
(***************************************************************************)
(* Every step keeps the invariant.                                         *)
(***************************************************************************)
LEMMA EngineSideStep ==
  ASSUME IInv, NEW r \in Requests, Resolve(r) \/ JoinLine(r) \/ TakeTurn(r) \/ Terminal(r)
  PROVE  IInv'
<1> USE DEF IInv
<1>1. CASE Resolve(r)
  <2>1. EngineInv' /\ engine' \in PoolStates /\ chain' \in [Requests -> Seq(PoolNames)]
    BY <1>1, ResolveStep
  <2>2. TypeInv'
    BY <1>1, <2>1 DEF TypeInv, Resolve, poolVars
  <2>3. LocalInv'
    BY <1>1, LocalStays DEF Resolve, poolVars, Running, InLocal, HasCome
  <2>4. SentFirst'
    BY <1>1 DEF SentFirst, Resolve, TypeInv
  <2>5. QED
    BY <2>1, <2>2, <2>3, <2>4
<1>2. CASE JoinLine(r)
  <2>1. /\ EngineInv' /\ engine' \in PoolStates /\ ticket' \in [Requests -> Nat]
        /\ phase' = [phase EXCEPT ![r] = "waiting"] /\ phase[r] = "resolved"
        /\ broken' = broken
    BY <1>2, JoinLineStep
  <2>2. TypeInv'
    BY <1>2, <2>1 DEF TypeInv, JoinLine, poolVars
  <2>3. LocalInv'
    BY <1>2, LocalStays DEF JoinLine, poolVars, Running, InLocal, HasCome
  <2>4. SentFirst'
    BY <1>2, <2>1 DEF SentFirst, JoinLine, TypeInv
  <2>5. QED
    BY <2>1, <2>2, <2>3, <2>4
<1>3. CASE TakeTurn(r)
  <2>1. EngineInv' /\ engine' \in PoolStates /\ served[r] = "none"
    BY <1>3, TakeTurnStep
  <2>2. TypeInv'
    BY <1>3, <2>1 DEF TypeInv, TakeTurn, poolVars
  <2>3. Running' = Running /\ InLocal' = InLocal /\ HasCome' = HasCome
    BY <1>3, <2>1 DEF TakeTurn, TypeInv, Running, InLocal, HasCome
  <2>4. LocalInv'
    BY <1>3, <2>3, LocalStays DEF TakeTurn, poolVars
  <2>5. SentFirst'
    BY <1>3 DEF SentFirst, TakeTurn, TypeInv
  <2>6. QED
    BY <2>1, <2>2, <2>4, <2>5
<1>4. CASE Terminal(r)
  <2>1. EngineInv' /\ engine' \in PoolStates
    BY <1>4, TerminalStep
  <2>2. TypeInv'
    BY <1>4, <2>1 DEF TypeInv, Terminal, poolVars
  <2>3. LocalInv'
    BY <1>4, LocalStays DEF Terminal, poolVars, Running, InLocal, HasCome
  <2>4. SentFirst'
    BY <1>4 DEF SentFirst, Terminal, TypeInv
  <2>5. QED
    BY <2>1, <2>2, <2>3, <2>4
<1>5. QED
  BY <1>1, <1>2, <1>3, <1>4

LEMMA HostSideStep ==
  ASSUME IInv, Notified \/ Notify \/ Die \/ Heartbeat
  PROVE  IInv'
<1> USE DEF IInv
<1>1. CASE Notified
  <2>1. EngineInv' /\ engine' \in PoolStates
    BY <1>1, NotifiedStep
  <2>2. notices \in Seq(Records) /\ notices # <<>> /\ Len(notices) <= MaxNotices /\ MaxNotices \in Nat
    BY <1>1, BoundAssumption DEF Notified, TypeInv
  <2>3. Tail(notices) \in Seq(Records) /\ Len(Tail(notices)) <= MaxNotices /\ Head(notices) \in Records
    BY <2>2
  <2>4. TypeInv'
    BY <1>1, <2>1, <2>3 DEF TypeInv, Notified, poolVars
  <2>5. LocalInv'
    BY <1>1, LocalStays DEF Notified, poolVars, Running, InLocal, HasCome
  <2>6. SentFirst'
    BY <1>1 DEF SentFirst, Notified
  <2>7. QED
    BY <2>1, <2>4, <2>5, <2>6
<1>2. CASE Notify
  <2>1. EngineInv'
    BY <1>2, EngineStays DEF Notify
  <2>2. notices \in Seq(Records) /\ Len(notices) < MaxNotices /\ MaxNotices \in Nat /\ host \in Records
    BY <1>2, BoundAssumption DEF Notify, TypeInv
  <2>3. Append(notices, host) \in Seq(Records) /\ Len(Append(notices, host)) <= MaxNotices
    BY <2>2
  <2>4. TypeInv'
    BY <1>2, <2>3 DEF TypeInv, Notify, poolVars, engineVars
  <2>5. LocalInv'
    BY <1>2, LocalStays DEF Notify, poolVars, Running, InLocal, HasCome
  <2>6. SentFirst'
    BY <1>2 DEF SentFirst, Notify, engineVars
  <2>7. QED
    BY <2>1, <2>4, <2>5, <2>6
<1>3. CASE Die
  <2>1. EngineInv'
    BY <1>3, EngineStays DEF Die
  <2>2. /\ LocalInv' /\ local' \in PoolStates /\ host' \in Records
        /\ DOMAIN waiting' \subseteq Nat /\ waiting' \in [DOMAIN waiting' -> Requests]
        /\ served' \in [Requests -> {"none", "coming", "queued", "running", "done"}]
        /\ \A r \in Requests : served[r] = "none" => served'[r] = "none"
    BY <1>3, DieStep
  <2>3. told' \subseteq Requests
    BY <1>3 DEF Die, TypeInv, Routed, InLocal, Running
  <2>4. deaths' \in 0..MaxDeaths
    BY <1>3, BoundAssumption DEF Die, TypeInv
  <2>5. TypeInv'
    BY <1>3, <2>2, <2>3, <2>4 DEF TypeInv, Die, engineVars
  <2>6. SentFirst'
    BY <1>3, <2>2 DEF SentFirst, Die, engineVars
  <2>7. QED
    BY <2>1, <2>2, <2>5, <2>6
<1>4. CASE Heartbeat
  <2>1. EngineInv'
    BY <1>4, EngineStays DEF Heartbeat
  <2>2. host' = [host EXCEPT !.pools = meta] /\ host \in Records /\ meta \in Limits
    BY <1>4 DEF Heartbeat, TypeInv
  <2>3. host' \in Records /\ host'.running = host.running
    BY <2>2 DEF Records
  <2>4. TypeInv'
    BY <1>4, <2>3 DEF TypeInv, Heartbeat, poolVars, engineVars
  <2>5. LocalInv'
    BY <1>4, <2>3, LocalStays DEF Heartbeat, poolVars, Running, InLocal, HasCome
  <2>6. SentFirst'
    BY <1>4 DEF SentFirst, Heartbeat, engineVars
  <2>7. QED
    BY <2>1, <2>4, <2>5, <2>6
<1>5. QED
  BY <1>1, <1>2, <1>3, <1>4

LEMMA RequestStep ==
  ASSUME IInv, NEW r \in Requests, Arrives(r) \/ Answer(r) \/ Finish(r)
  PROVE  IInv'
<1> USE DEF IInv
<1>1. CASE Arrives(r)
  <2>1. EngineInv'
    BY <1>1, EngineStays DEF Arrives
  <2>2. /\ LocalInv' /\ local' \in PoolStates /\ broken' = broken
        /\ host' \in Records /\ meta' \in Limits
        /\ DOMAIN waiting' \subseteq Nat /\ waiting' \in [DOMAIN waiting' -> Requests]
        /\ served' \in [Requests -> {"none", "coming", "queued", "running", "done"}]
        /\ served[r] = "coming" /\ \A q \in Requests : q # r => served'[q] = served[q]
    BY <1>1, ArrivesStep
  <2>3. TypeInv'
    BY <1>1, <2>2 DEF TypeInv, Arrives, engineVars
  <2>4. SentFirst'
    BY <1>1, <2>2 DEF SentFirst, Arrives, engineVars
  <2>5. QED
    BY <2>1, <2>2, <2>3, <2>4
<1>2. CASE Answer(r)
  <2>1. EngineInv'
    BY <1>2, EngineStays DEF Answer
  <2>2. TypeInv'
    BY <1>2 DEF TypeInv, Answer, poolVars, engineVars
  <2>3. LocalInv'
    BY <1>2, LocalStays DEF Answer, poolVars, Running, InLocal, HasCome
  <2>4. SentFirst'
    BY <1>2 DEF SentFirst, Answer, engineVars
  <2>5. QED
    BY <2>1, <2>2, <2>3, <2>4
<1>3. CASE Finish(r)
  <2>1. EngineInv'
    BY <1>3, EngineStays DEF Finish
  <2>2. LocalInv' /\ local' \in PoolStates /\ broken' = broken
    BY <1>3, FinishStep
  <2>3. TypeInv'
    BY <1>3, <2>2 DEF TypeInv, Finish, engineVars
  <2>4. SentFirst'
    BY <1>3 DEF SentFirst, Finish, engineVars, TypeInv
  <2>5. QED
    BY <2>1, <2>2, <2>3, <2>4
<1>4. QED
  BY <1>1, <1>2, <1>3

LEMMA PoolsStep ==
  ASSUME IInv,
         \/ StartNext
         \/ \E t \in DOMAIN waiting : RemoveQueued(t)
         \/ \E batch \in Batches : ApplyDesired(batch)
         \/ \E report \in Reports : SetAvailable(report[1], report[2])
  PROVE  IInv'
<1> USE DEF IInv
<1>1. CASE StartNext
  <2>1. EngineInv'
    BY <1>1, EngineStays DEF StartNext
  <2>2. /\ LocalInv' /\ local' \in PoolStates /\ broken' = broken
        /\ DOMAIN waiting' \subseteq Nat /\ waiting' \in [DOMAIN waiting' -> Requests]
        /\ \E w \in Line(local) : served' = [served EXCEPT ![waiting[w.ticket]] = "running"]
    BY <1>1, StartNextStep
  <2>3. PICK q \in Requests : served' = [served EXCEPT ![q] = "running"] /\ served[q] = "queued"
    BY <2>2, WaiterIsRequest
  <2>4. TypeInv'
    BY <1>1, <2>2, <2>3 DEF TypeInv, StartNext, engineVars
  <2>5. SentFirst'
    BY <1>1, <2>3 DEF SentFirst, StartNext, engineVars, TypeInv
  <2>6. QED
    BY <2>1, <2>2, <2>4, <2>5
<1>2. ASSUME NEW t \in DOMAIN waiting, RemoveQueued(t)
      PROVE  IInv'
  <2>1. EngineInv'
    BY <1>2, EngineStays DEF RemoveQueued
  <2>2. /\ LocalInv' /\ local' \in PoolStates
        /\ DOMAIN waiting' \subseteq Nat /\ waiting' \in [DOMAIN waiting' -> Requests]
        /\ waiting[t] \in Requests /\ served[waiting[t]] = "queued"
    BY <1>2, RemoveQueuedStep
  <2>3. TypeInv'
    BY <1>2, <2>2 DEF TypeInv, RemoveQueued, engineVars
  <2>4. SentFirst'
    BY <1>2, <2>2 DEF SentFirst, RemoveQueued, engineVars, TypeInv
  <2>5. QED
    BY <2>1, <2>2, <2>3, <2>4
<1>3. ASSUME NEW batch \in Batches, ApplyDesired(batch)
      PROVE  IInv'
  <2>1. EngineInv'
    BY <1>3, EngineStays DEF ApplyDesired
  <2>2. LocalInv' /\ local' \in PoolStates /\ meta' \in Limits
    BY <1>3, ApplyDesiredStep
  <2>3. /\ notices' = notices /\ host' = host /\ waiting' = waiting /\ served' = served
        /\ told' = told /\ deaths' = deaths /\ broken' = broken /\ UNCHANGED engineVars
    BY <1>3 DEF ApplyDesired
  <2>4. TypeInv' /\ SentFirst'
    BY <2>2, <2>3 DEF TypeInv, SentFirst, engineVars
  <2>5. QED
    BY <2>1, <2>2, <2>4
<1>4. ASSUME NEW report \in Reports, SetAvailable(report[1], report[2])
      PROVE  IInv'
  <2>1. EngineInv'
    BY <1>4, EngineStays DEF SetAvailable
  <2>2. LocalInv' /\ local' \in PoolStates /\ meta' \in Limits
    BY <1>4, SetAvailableStep
  <2>3. /\ notices' = notices /\ host' = host /\ waiting' = waiting /\ served' = served
        /\ told' = told /\ deaths' = deaths /\ broken' = broken /\ UNCHANGED engineVars
    BY <1>4 DEF SetAvailable
  <2>4. TypeInv' /\ SentFirst'
    BY <2>2, <2>3 DEF TypeInv, SentFirst, engineVars
  <2>5. QED
    BY <2>1, <2>2, <2>4
<1>5. QED
  BY <1>1, <1>2, <1>3, <1>4

LEMMA InitHolds == Init => IInv
<1> SUFFICES ASSUME Init PROVE IInv
  OBVIOUS
<1>1. Cold \in Records /\ Cold.pools = None /\ ~Cold.running
  BY DEF Cold, Records
<1>2. /\ DOMAIN Capacities(Cold) \subseteq PoolNames /\ All \in DOMAIN Capacities(Cold)
      /\ \A p \in PoolNames : p \in DOMAIN Capacities(Cold) => Capacities(Cold)[p] \in Nat
  BY <1>1, CapacitiesFacts
<1>3. PICK map : map = Capacities(Cold)
  OBVIOUS
<1>4. Reset(Empty, engine, map, PoolNames \cap DOMAIN map)
  BY <1>2, <1>3, EmptyFacts, ConfiguredFacts DEF Init
<1>5. /\ engine \in PoolStates /\ engine.nextTicket = 0 /\ engine.queue = <<>>
      /\ All \in Listed(engine) /\ OnlyOnce(engine)
      /\ \A i \in 1..Len(engine.pools) :
           engine.pools[i].active = 0 /\ engine.pools[i].capacity = map[engine.pools[i].name]
  BY <1>2, <1>3, <1>4, EmptyFacts, LocalNames DEF Reset
<1>6. Admitted_ = {} /\ Waiting = {} /\ HasJoined = {} /\ Running = {} /\ InLocal = {} /\ HasCome = {}
  BY DEF Init, Admitted_, Waiting, HasJoined, Running, InLocal, HasCome
<1>7. \A chains : \A n \in PoolNames : Usage({}, chains)[n] = 0
  BY UsageOfNone
<1>8. TypeInv
  <2>1. notices \in Seq(Records) /\ Len(notices) <= MaxNotices /\ deaths \in 0..MaxDeaths
    BY BoundAssumption DEF Init
  <2>2. DOMAIN waiting \subseteq Nat /\ waiting \in [DOMAIN waiting -> Requests]
    BY DEF Init
  <2>3. chain \in [Requests -> Seq(PoolNames)]
    BY DEF Init, NoChain
  <2>4. QED
    BY <1>1, <1>5, <2>1, <2>2, <2>3, EmptyFacts, ManifestType DEF Init, TypeInv
<1>9. Cardinality({}) = 0
  BY FS_EmptySet
<1>10. EngineInv
  <2>1. Counted(engine, Usage(Admitted_, chain))
    <3>1. \A i \in 1..Len(engine.pools) : engine.pools[i].name \in PoolNames
      BY <1>5, PoolStateParts
    <3>2. QED
      BY <1>5, <1>6, <1>7, <3>1 DEF Counted
  <2>2. InOrder(engine) /\ Line(engine) = {}
    BY <1>5 DEF InOrder, Line, Members
  <2>3. Limited(engine, Capacities(record))
    BY <1>3, <1>5 DEF Limited, Init
  <2>4. \A r \in Requests : /\ Names(chain[r]) \subseteq Listed(engine)
                            /\ phase[r] # "idle" => All \in Names(chain[r])
                            /\ ticket[r] <= engine.nextTicket
    BY <1>5 DEF Init, NoChain, Names, Members
  <2>5. QED
    BY <1>5, <1>6, <1>9, <2>1, <2>2, <2>3, <2>4 DEF EngineInv
<1>11. LocalInv
  <2>1. Counted(local, Usage(Running, LocalChains)) /\ Limited(local, LocalLimits)
    BY EmptyFacts DEF Init, Counted, Limited
  <2>2. Line(local) = {} /\ InOrder(local) /\ local.nextTicket = 0 /\ local = Empty
    BY EmptyFacts DEF Init
  <2>3. DOMAIN waiting = {} /\ ~host.running /\ Routed = {}
    BY <1>1, <1>6 DEF Init, Routed
  <2>4. QED
    BY <1>6, <1>9, <2>1, <2>2, <2>3 DEF LocalInv
<1>12. SentFirst
  BY DEF Init, SentFirst
<1>13. QED
  BY <1>8, <1>10, <1>11, <1>12 DEF IInv

LEMMA StutterHolds ==
  ASSUME IInv, UNCHANGED vars
  PROVE  IInv'
<1>1. EngineInv'
  BY EngineStays DEF vars
<1>2. LocalInv'
  BY LocalStays DEF vars, poolVars, Running, InLocal, HasCome
<1>3. TypeInv' /\ SentFirst'
  BY DEF IInv, vars, poolVars, engineVars, TypeInv, SentFirst
<1>4. QED
  BY <1>1, <1>2, <1>3 DEF IInv

LEMMA Inductive == IInv /\ [Next]_vars => IInv'
<1> SUFFICES ASSUME IInv, [Next]_vars PROVE IInv'
  OBVIOUS
<1>1. CASE UNCHANGED vars
  BY <1>1, StutterHolds
<1>2. CASE Notified \/ Notify \/ Die \/ Heartbeat
  BY <1>2, HostSideStep
<1>3. ASSUME NEW r \in Requests, Resolve(r) \/ Progress(r)
      PROVE  IInv'
  BY <1>3, EngineSideStep, RequestStep DEF Progress
<1>4. CASE \/ StartNext
           \/ \E t \in DOMAIN waiting : RemoveQueued(t)
           \/ \E batch \in Batches : ApplyDesired(batch)
           \/ \E report \in Reports : SetAvailable(report[1], report[2])
  BY <1>4, PoolsStep
<1>5. QED
  BY <1>1, <1>2, <1>3, <1>4 DEF Next

-----------------------------------------------------------------------------
(***************************************************************************)
(* What the invariant says.                                                *)
(***************************************************************************)
LEMMA StateIsTyped ==
  ASSUME NEW s \in PoolStates, InOrder(s), NEW holders \in SUBSET Requests, NEW chains,
         Counted(s, Usage(holders, chains)), s.nextTicket <= Cardinality(Requests)
  PROVE  StateType(s)
<1>1. Cardinality(Requests) \in Nat
  BY ManifestAssumption, FS_CardinalityType
<1>2. \A i \in 1..Len(s.pools) :
        s.pools[i] \in [name : PoolNames, capacity : Nat, active : 0..Cardinality(Requests)]
  <2>1. SUFFICES ASSUME NEW i \in 1..Len(s.pools)
        PROVE s.pools[i] \in [name : PoolNames, capacity : Nat, active : 0..Cardinality(Requests)]
    OBVIOUS
  <2>2. s.pools[i] \in Pool /\ s.pools[i].name \in PoolNames
    BY PoolStateParts
  <2>3. s.pools[i].active = Usage(holders, chains)[s.pools[i].name]
    BY DEF Counted
  <2>4. s.pools[i].active \in 0..Cardinality(Requests)
    <3>1. PICK n, u : n = s.pools[i].name /\ u = Usage(holders, chains)[n]
      OBVIOUS
    <3>2. n \in PoolNames
      BY <2>2, <3>1
    <3>3. Usage(holders, chains)[n] \in Nat /\ Usage(holders, chains)[n] <= Cardinality(Requests)
      BY <3>2, UsageType
    <3>4. u \in Nat /\ u <= Cardinality(Requests) /\ s.pools[i].active = u
      BY <2>3, <3>1, <3>3
    <3>5. QED
      BY <1>1, <3>4
  <2>5. QED
    BY <2>2, <2>4 DEF Pool
<1>3. \A i \in 1..Len(s.queue) :
        /\ s.queue[i].ticket \in 0..(s.nextTicket - 1)
        /\ Names(s.queue[i].chain) \subseteq PoolNames
  <2>1. SUFFICES ASSUME NEW i \in 1..Len(s.queue)
        PROVE /\ s.queue[i].ticket \in 0..(s.nextTicket - 1)
              /\ Names(s.queue[i].chain) \subseteq PoolNames
    OBVIOUS
  <2>2. /\ s.queue[i].ticket \in Nat /\ s.nextTicket \in Nat
        /\ s.queue[i].chain \in Seq(PoolNames) /\ s.queue[i].ticket < s.nextTicket
    BY PoolStateParts DEF InOrder
  <2>3. QED
    BY <2>2 DEF Names, Members
<1>4. s.nextTicket \in 0..Cardinality(Requests)
  BY <1>1, PoolStateParts
<1>5. QED
  BY <1>2, <1>3, <1>4 DEF StateType

LEMMA RecordIsTyped == ASSUME NEW rec \in Records PROVE RecordType(rec)
BY DEF Records, RecordType

LEMMA AllTyped == IInv => TypeOK
<1> SUFFICES ASSUME IInv PROVE TypeOK
  OBVIOUS
<1> USE DEF IInv
<1>1. /\ Cardinality(Requests) \in Nat /\ Cardinality(HasJoined) <= Cardinality(Requests)
      /\ Cardinality(HasCome) <= Cardinality(Requests) /\ Cardinality(HasCome) \in Nat
  <2>1. HasJoined \subseteq Requests /\ HasCome \subseteq Requests
    BY DEF HasJoined, HasCome
  <2>2. QED
    BY <2>1, ManifestAssumption, FS_Subset, FS_CardinalityType
<1>2. StateType(engine) /\ StateType(local)
  <2>1. Admitted_ \in SUBSET Requests /\ Running \in SUBSET Requests
    BY DEF Admitted_, Running
  <2>2. local.nextTicket <= Cardinality(Requests)
    <3>1. local.nextTicket \in Nat
      BY PoolStateParts DEF TypeInv
    <3>2. QED
      BY <1>1, <3>1 DEF LocalInv
  <2>3. StateType(engine)
    BY <1>1, <2>1, StateIsTyped DEF TypeInv, EngineInv
  <2>4. StateType(local)
    BY <2>1, <2>2, StateIsTyped DEF TypeInv, LocalInv
  <2>5. QED
    BY <2>3, <2>4
<1>3. RecordType(record) /\ RecordType(host) /\ \A i \in 1..Len(notices) : RecordType(notices[i])
  BY RecordIsTyped DEF TypeInv
<1>4. \A r \in Requests : Names(chain[r]) \subseteq PoolNames
  BY DEF TypeInv, Names, Members
<1>5. ticket \in [Requests -> 0..Cardinality(Requests)]
  <2>1. ASSUME NEW r \in Requests
        PROVE  ticket[r] \in 0..Cardinality(Requests)
    <3>1. /\ ticket[r] \in Nat /\ ticket[r] <= engine.nextTicket
          /\ engine.nextTicket = Cardinality(HasJoined) /\ engine.nextTicket \in Nat
      BY PoolStateParts DEF TypeInv, EngineInv
    <3>2. QED
      BY <1>1, <3>1
  <2>2. QED
    BY <2>1 DEF TypeInv
<1>6. \A t \in DOMAIN waiting : waiting[t] \in InLocal
  BY DEF LocalInv
<1>7. QED
  BY <1>2, <1>3, <1>4, <1>5, <1>6 DEF TypeInv, TypeOK

LEMMA AllAccounted == IInv => SlotsAccounted
<1> SUFFICES ASSUME IInv PROVE SlotsAccounted
  OBVIOUS
<1>1. TypeOK /\ ~broken
  BY AllTyped DEF IInv, TypeInv
<1>2. ASSUME NEW i \in 1..Len(engine.pools)
      PROVE  engine.pools[i].active =
               Cardinality(Through(Admitted_, EngineChain, engine.pools[i].name))
  <2>1. engine.pools[i].name \in PoolNames
    BY PoolStateParts DEF IInv, TypeInv
  <2>2. engine.pools[i].active = Usage(Admitted_, chain)[engine.pools[i].name]
    BY DEF IInv, EngineInv, Counted
  <2>3. QED
    BY <2>1, <2>2 DEF Usage, Through, EngineChain
<1>3. ASSUME NEW i \in 1..Len(local.pools)
      PROVE  local.pools[i].active =
               Cardinality(Through(Running, LocalChain, local.pools[i].name))
  <2>1. local.pools[i].name \in PoolNames
    BY PoolStateParts DEF IInv, TypeInv
  <2>2. local.pools[i].active = Usage(Running, LocalChains)[local.pools[i].name]
    BY DEF IInv, LocalInv, Counted
  <2>3. \A n : {r \in Running : n \in Names(LocalChains[r])} = {r \in Running : n \in Names(LocalChain(r))}
    BY DEF LocalChains, Running
  <2>4. QED
    BY <2>1, <2>2, <2>3 DEF Usage, Through
<1>4. QED
  BY <1>1, <1>2, <1>3 DEF SlotsAccounted

(***************************************************************************)
(* At both ends a pool counts exactly the requests that hold a slot in it, *)
(* whatever was added, resized, cancelled or lost meanwhile, and none of   *)
(* the errors the code calls BUG is met (request_state.py:733-930,         *)
(* cartridge_runtime.py:522-606, CapDAG-Bifaci-Pools.c:989-1395).          *)
(***************************************************************************)
THEOREM SlotsAreAccounted == Spec => []SlotsAccounted
<1>1. Init => IInv
  BY InitHolds
<1>2. IInv /\ [Next]_vars => IInv'
  BY Inductive
<1>3. IInv => SlotsAccounted
  BY AllAccounted
<1>4. QED
  BY <1>1, <1>2, <1>3, PTL DEF Spec

LEMMA AllHeld == IInv => LineIsHeld
<1> SUFFICES ASSUME IInv PROVE LineIsHeld
  OBVIOUS
<1>1. local \in PoolStates /\ InOrder(local)
  BY DEF IInv, TypeInv, LocalInv
<1>2. {local.queue[i].ticket : i \in 1..Len(local.queue)} = DOMAIN waiting
  <2>1. {local.queue[i].ticket : i \in 1..Len(local.queue)} = {w.ticket : w \in Line(local)}
    BY DEF Line, Members
  <2>2. \A t \in DOMAIN waiting : Queued(t).ticket = t
    BY DEF Queued
  <2>3. Line(local) = {Queued(t) : t \in DOMAIN waiting}
    BY DEF IInv, LocalInv
  <2>4. {w.ticket : w \in Line(local)} = DOMAIN waiting
    BY <2>2, <2>3
  <2>5. QED
    BY <2>1, <2>4
<1>3. \A i \in 1..Len(local.queue) : local.queue[i].chain = LocalChain(waiting[local.queue[i].ticket])
  <2>1. SUFFICES ASSUME NEW i \in 1..Len(local.queue)
                 PROVE  local.queue[i].chain = LocalChain(waiting[local.queue[i].ticket])
    OBVIOUS
  <2>2. local.queue[i] \in Line(local)
    BY DEF Line, Members
  <2>3. QED
    BY <2>2, WaiterIsRequest DEF LocalChains
<1>4. \A i \in 1..Len(local.queue) : \A j \in 1..(i - 1) : local.queue[j].ticket < local.queue[i].ticket
  BY <1>1 DEF InOrder
<1>5. {waiting[t] : t \in DOMAIN waiting} = InLocal
  BY DEF IInv, LocalInv
<1>6. QED
  BY <1>2, <1>3, <1>4, <1>5 DEF LineIsHeld

(***************************************************************************)
(* A request waits in the cartridge exactly when its ticket is in the      *)
(* model's line, in order of arrival, with the chain of its own cap        *)
(* (cartridge_runtime.py:522-582, CapDAG-Bifaci-Pools.c:630-864).          *)
(***************************************************************************)
THEOREM TheLineIsHeld == Spec => []LineIsHeld
<1>1. Init => IInv
  BY InitHolds
<1>2. IInv /\ [Next]_vars => IInv'
  BY Inductive
<1>3. IInv => LineIsHeld
  BY AllHeld
<1>4. QED
  BY <1>1, <1>2, <1>3, PTL DEF Spec

LEMMA EffectiveIsLower ==
  ASSUME NEW c \in Nat, NEW a \in Nat \cup {None}
  PROVE  Effective(c, a) = IF a \in {None, 0} THEN c
                           ELSE IF c = 0 THEN a
                           ELSE CHOOSE n \in {c, a} : n <= c /\ n <= a
<1>1. CASE a \in {None, 0} \/ c = 0
  BY <1>1 DEF Effective
<1>2. CASE ~(a \in {None, 0} \/ c = 0)
  <2>1. a \in Nat
    BY <1>2
  <2>2. PICK n : n = CHOOSE k \in {c, a} : k <= c /\ k <= a
    OBVIOUS
  <2>3. \E m \in {c, a} : m <= c /\ m <= a
    BY <2>1
  <2>4. n \in {c, a} /\ n <= c /\ n <= a
    BY <2>2, <2>3
  <2>5. Effective(c, a) = n
    BY <1>2, <2>1, <2>4 DEF Effective
  <2>6. QED
    BY <1>2, <2>2, <2>5
<1>3. QED
  BY <1>1, <1>2

LEMMA AllEffective == IInv => LimitsAreEffective
<1> SUFFICES ASSUME IInv, NEW i \in 1..Len(local.pools), NEW m, m = meta[local.pools[i].name]
             PROVE  local.pools[i].capacity =
                      IF m.available \in {None, 0} THEN m.configured
                      ELSE IF m.configured = 0 THEN m.available
                      ELSE CHOOSE n \in {m.configured, m.available} :
                             n <= m.configured /\ n <= m.available
  BY DEF LimitsAreEffective
<1>1. local.pools[i].name \in PoolNames /\ meta \in Limits
  BY PoolStateParts DEF IInv, TypeInv
<1>2. local.pools[i].capacity = EffectiveOf(m)
  BY <1>1 DEF IInv, LocalInv, Limited, LocalLimits
<1>3. m.configured \in Nat /\ m.available \in Nat \cup {None}
  BY <1>1, LimitsParts
<1>4. EffectiveOf(m) = Effective(m.configured, m.available)
  BY DEF EffectiveOf
<1>5. QED
  BY <1>2, <1>3, <1>4, EffectiveIsLower

(***************************************************************************)
(* The process admits by the lower of the operator's and the cartridge's   *)
(* number of each pool, however batches, refused batches and reports       *)
(* interleave (cartridge_runtime.py:584-606, pools.py:57-66).              *)
(***************************************************************************)
THEOREM TheLimitsAreEffective == Spec => []LimitsAreEffective
<1>1. Init => IInv
  BY InitHolds
<1>2. IInv /\ [Next]_vars => IInv'
  BY Inductive
<1>3. IInv => LimitsAreEffective
  BY AllEffective
<1>4. QED
  BY <1>1, <1>2, <1>3, PTL DEF Spec

-----------------------------------------------------------------------------
(***************************************************************************)
(* Room, as the line sees it and as the holders of slots show it.          *)
(***************************************************************************)
IsFull(s, count, n) ==
  Knows(s, n) /\ PoolNamed(s, n).capacity # 0 /\ count[n] >= PoolNamed(s, n).capacity

(* A state may list a pool twice, but not with two limits.                  *)
OneLimit(s) ==
  \A i, j \in 1..Len(s.pools) :
    s.pools[i].name = s.pools[j].name => s.pools[i].capacity = s.pools[j].capacity

LEMMA FullFacts ==
  ASSUME NEW s \in PoolStates, OneLimit(s), NEW holders \in SUBSET Requests, NEW chains,
         NEW count, count = Usage(holders, chains), Counted(s, count), NEW n \in PoolNames
  PROVE  IsFull(s, count, n) <=>
           \E i \in 1..Len(s.pools) : s.pools[i].name = n /\ ~PoolHasRoom(s.pools[i])
<1>1. count[n] \in Nat
  BY UsageType
<1>2. CASE n \notin Listed(s)
  BY <1>2, PoolIsFound DEF IsFull, Listed
<1>3. CASE n \in Listed(s)
  <2>1. PICK k \in 1..Len(s.pools) : PoolNamed(s, n) = s.pools[k] /\ s.pools[k].name = n
    BY <1>3, PoolIsFound
  <2>2. Knows(s, n)
    BY <1>3, PoolIsFound
  <2>3. ASSUME NEW i \in 1..Len(s.pools), s.pools[i].name = n
        PROVE  PoolHasRoom(s.pools[i]) <=> s.pools[k].capacity = 0 \/ count[n] < s.pools[k].capacity
    <3>1. s.pools[i].active = count[n] /\ s.pools[i].capacity = s.pools[k].capacity
      BY <2>1, <2>3 DEF Counted, OneLimit
    <3>2. QED
      BY <3>1 DEF PoolHasRoom
  <2>4. s.pools[k].capacity \in Nat
    BY PoolStateParts
  <2>5. IsFull(s, count, n) <=> ~(s.pools[k].capacity = 0 \/ count[n] < s.pools[k].capacity)
    BY <1>1, <2>1, <2>2, <2>4 DEF IsFull
  <2>6. QED
    BY <2>1, <2>3, <2>5
<1>4. QED
  BY <1>2, <1>3

LEMMA RoomFacts ==
  ASSUME NEW s \in PoolStates, OneLimit(s), NEW holders \in SUBSET Requests, NEW chains,
         NEW count, count = Usage(holders, chains), Counted(s, count),
         NEW through \in Seq(PoolNames)
  PROVE  HasRoom(s, through) <=> \A n \in Names(through) : ~IsFull(s, count, n)
<1>1. Names(through) \subseteq PoolNames
  BY DEF Names, Members
<1>2. \A n \in PoolNames : IsFull(s, count, n) <=>
        \E i \in 1..Len(s.pools) : s.pools[i].name = n /\ ~PoolHasRoom(s.pools[i])
  BY FullFacts
<1>3. QED
  BY <1>1, <1>2 DEF HasRoom

LEMMA EngineRoom ==
  ASSUME IInv, NEW r \in Requests
  PROVE  CouldBeSent(r) <=> HasRoom(engine, chain[r])
<1>1. /\ engine \in PoolStates /\ chain[r] \in Seq(PoolNames)
      /\ Counted(engine, Usage(Admitted_, chain)) /\ Admitted_ \in SUBSET Requests
  BY DEF IInv, TypeInv, EngineInv, Admitted_
<1>2. OneLimit(engine)
  BY DEF IInv, EngineInv, OnlyOnce, OneLimit
<1>3. PICK count : count = Usage(Admitted_, chain)
  OBVIOUS
<1>4. HasRoom(engine, chain[r]) <=> \A n \in Names(chain[r]) : ~IsFull(engine, count, n)
  BY <1>1, <1>2, <1>3, RoomFacts
<1>5. Names(chain[r]) \subseteq PoolNames
  BY <1>1 DEF Names, Members
<1>6. \A n \in PoolNames : Full(engine, Admitted_, EngineChain, n) <=> IsFull(engine, count, n)
  BY <1>3 DEF Full, Through, EngineChain, IsFull, Usage
<1>7. QED
  BY <1>4, <1>5, <1>6 DEF CouldBeSent

LEMMA LocalCount ==
  ASSUME NEW holders \in SUBSET Requests, NEW n \in PoolNames
  PROVE  /\ Usage(holders, LocalChains)[n] = Cardinality(Through(holders, LocalChain, n))
         /\ Full(local, holders, LocalChain, n) <=> IsFull(local, Usage(holders, LocalChains), n)
<1>1. {r \in holders : n \in Names(LocalChains[r])} = {r \in holders : n \in Names(LocalChain(r))}
  BY DEF LocalChains
<1>2. Usage(holders, LocalChains)[n] = Cardinality(Through(holders, LocalChain, n))
  BY <1>1 DEF Usage, Through
<1>3. QED
  BY <1>2 DEF Full, IsFull

LEMMA LocalLimit == IInv => OneLimit(local)
<1> SUFFICES ASSUME IInv, NEW i \in 1..Len(local.pools), NEW j \in 1..Len(local.pools),
                    local.pools[i].name = local.pools[j].name
             PROVE  local.pools[i].capacity = local.pools[j].capacity
  BY DEF OneLimit
<1>1. local.pools[i].name \in PoolNames
  BY PoolStateParts DEF IInv, TypeInv
<1>2. QED
  BY <1>1 DEF IInv, LocalInv, Limited, LocalLimits

LEMMA LocalRoom ==
  ASSUME IInv, NEW r \in Requests
  PROVE  CouldRun(r) <=> HasRoom(local, LocalChain(r))
<1>1. /\ local \in PoolStates /\ Running \in SUBSET Requests
      /\ Counted(local, Usage(Running, LocalChains))
  BY DEF IInv, TypeInv, LocalInv, Running
<1>2. LocalChain(r) \in Seq(PoolNames) /\ Names(LocalChain(r)) \subseteq PoolNames
  BY ChainFacts
<1>3. PICK count : count = Usage(Running, LocalChains)
  OBVIOUS
<1>4. HasRoom(local, LocalChain(r)) <=> \A n \in Names(LocalChain(r)) : ~IsFull(local, count, n)
  BY <1>1, <1>2, <1>3, LocalLimit, RoomFacts
<1>5. \A n \in PoolNames : Full(local, Running, LocalChain, n) <=> IsFull(local, count, n)
  BY <1>1, <1>3, LocalCount
<1>6. QED
  BY <1>2, <1>4, <1>5 DEF CouldRun

-----------------------------------------------------------------------------
(***************************************************************************)
(* Who goes.                                                               *)
(***************************************************************************)
LEMMA OnlyATurnSends ==
  ASSUME IInv, [Next]_vars, NEW r \in Requests, Sent(r)
  PROVE  TakeTurn(r)
<1>1. phase' # phase /\ phase'[r] = "sent" /\ phase[r] # "sent"
  BY DEF Sent
<1>2. phase \in [Requests -> {"idle", "resolved", "waiting", "sent", "ended"}]
  BY DEF IInv, TypeInv
<1>3. PICK q \in Requests : Resolve(q) \/ JoinLine(q) \/ TakeTurn(q) \/ Terminal(q)
  BY <1>1 DEF Next, vars, engineVars, Notified, Notify, Die, Heartbeat, StartNext,
              Progress, Arrives, Answer, Finish, RemoveQueued, ApplyDesired, SetAvailable
<1>4. ~Resolve(q)
  BY <1>1, <1>2 DEF Resolve
<1>5. ~JoinLine(q)
  BY <1>1, <1>2 DEF JoinLine
<1>6. ~Terminal(q)
  BY <1>1, <1>2 DEF Terminal
<1>7. TakeTurn(q) => q = r
  BY <1>1, <1>2 DEF TakeTurn
<1>8. QED
  BY <1>3, <1>4, <1>5, <1>6, <1>7

LEMMA SentInTurn ==
  ASSUME IInv, [Next]_vars, NEW r \in Requests, Sent(r)
  PROVE  /\ CouldBeSent(r)
         /\ \A q \in Requests : phase[q] = "waiting" /\ ticket[q] < ticket[r] => ~CouldBeSent(q)
<1>1. HasRoom(engine, chain[r]) /\ NobodyOlder(engine, ticket[r])
  BY OnlyATurnSends, TakeTurnStep
<1>2. CouldBeSent(r)
  BY <1>1, EngineRoom
<1>3. ASSUME NEW q \in Requests, phase[q] = "waiting", ticket[q] < ticket[r]
      PROVE  ~CouldBeSent(q)
  <2>1. Ticketed(q) \in Line(engine)
    BY <1>3 DEF IInv, EngineInv, Waiting
  <2>2. Ticketed(q).ticket = ticket[q] /\ Ticketed(q).chain = chain[q]
    BY DEF Ticketed
  <2>3. ~HasRoom(engine, chain[q])
    BY <1>1, <1>3, <2>1, <2>2 DEF NobodyOlder
  <2>4. QED
    BY <2>3, EngineRoom
<1>4. QED
  BY <1>2, <1>3

LEMMA StartsBy ==
  ASSUME IInv, [Next]_vars, NEW r \in Requests, Starts(r)
  PROVE  Arrives(r) \/ StartNext
<1>1. served' # served /\ served'[r] = "running" /\ served[r] # "running"
  BY DEF Starts
<1>2. served \in [Requests -> {"none", "coming", "queued", "running", "done"}]
  BY DEF IInv, TypeInv
<1>3. \/ Die \/ StartNext
      \/ \E q \in Requests : TakeTurn(q) \/ Arrives(q) \/ Finish(q)
      \/ \E t \in DOMAIN waiting : RemoveQueued(t)
  BY <1>1 DEF Next, vars, engineVars, Notified, Notify, Heartbeat,
              Progress, Resolve, JoinLine, Terminal, Answer, ApplyDesired, SetAvailable
<1>4. ~Die
  BY <1>1, <1>2 DEF Die
<1>5. \A q \in Requests : ~TakeTurn(q) /\ ~Finish(q)
  BY <1>1, <1>2 DEF TakeTurn, Finish
<1>6. \A t \in DOMAIN waiting : ~RemoveQueued(t)
  BY <1>1, <1>2 DEF RemoveQueued
<1>7. \A q \in Requests : Arrives(q) => q = r
  <2>1. ASSUME NEW q \in Requests, Arrives(q) PROVE q = r
    <3>1. \A p \in Requests : p # q => served'[p] = served[p]
      BY <2>1, ArrivesStep
    <3>2. QED
      BY <1>1, <3>1
  <2>2. QED
    BY <2>1
<1>8. QED
  BY <1>3, <1>4, <1>5, <1>6, <1>7

LEMMA InLine ==
  ASSUME IInv, NEW t \in DOMAIN waiting
  PROVE  /\ Queued(t) \in Line(local) /\ Queued(t).ticket = t /\ waiting[t] \in Requests
         /\ Queued(t).chain = LocalChain(waiting[t]) /\ served[waiting[t]] = "queued"
         /\ t \in Nat /\ t < local.nextTicket
<1>1. waiting[t] \in Requests /\ served[waiting[t]] = "queued" /\ Queued(t) \in Line(local)
  BY DEF IInv, LocalInv, InLocal
<1>2. Queued(t).ticket = t /\ Queued(t).chain = LocalChain(waiting[t])
  BY <1>1, ChainFacts DEF Queued
<1>3. Queued(t).ticket \in Nat /\ Queued(t).ticket < local.nextTicket
  BY <1>1, LineFacts DEF IInv, TypeInv, LocalInv
<1>4. QED
  BY <1>1, <1>2, <1>3

LEMMA StartsInTurn ==
  ASSUME IInv, [Next]_vars, NEW r \in Requests, Starts(r)
  PROVE  /\ CouldRun(r)
         /\ \A t \in DOMAIN waiting :
              (\A u \in DOMAIN waiting : waiting[u] = r => t < u) => ~CouldRun(waiting[t])
<1>1. Arrives(r) \/ StartNext
  BY StartsBy
<1>2. CASE Arrives(r) /\ host.running
  <2>1. HasRoom(local, LocalChain(r)) /\ NobodyOlder(local, local.nextTicket)
    BY <1>2, ArrivesStep DEF Starts
  <2>2. CouldRun(r)
    BY <2>1, LocalRoom
  <2>3. ASSUME NEW t \in DOMAIN waiting
        PROVE  ~CouldRun(waiting[t])
    <3>1. ~HasRoom(local, LocalChain(waiting[t]))
      BY <2>1, InLine DEF NobodyOlder
    <3>2. QED
      BY <3>1, InLine, LocalRoom
  <2>4. QED
    BY <2>2, <2>3
<1>3. CASE Arrives(r) /\ ~host.running
  <2>1. local = Empty /\ DOMAIN waiting = {}
    BY <1>3 DEF IInv, LocalInv
  <2>2. HasRoom(local, LocalChain(r))
    BY <2>1, EmptyFacts DEF HasRoom
  <2>3. QED
    BY <2>1, <2>2, LocalRoom
<1>4. CASE StartNext
  <2>1. PICK w \in Line(local) :
          /\ served' = [served EXCEPT ![waiting[w.ticket]] = "running"]
          /\ HasRoom(local, w.chain) /\ NobodyOlder(local, w.ticket)
    BY <1>4, StartNextStep
  <2>2. /\ w.ticket \in DOMAIN waiting /\ waiting[w.ticket] \in Requests
        /\ w.chain = LocalChains[waiting[w.ticket]]
    BY WaiterIsRequest
  <2>3. waiting[w.ticket] = r
    BY <2>1, <2>2 DEF Starts, IInv, TypeInv
  <2>4. w.chain = LocalChain(r)
    BY <2>2, <2>3, ChainFacts
  <2>5. CouldRun(r)
    BY <2>1, <2>4, LocalRoom
  <2>6. ASSUME NEW t \in DOMAIN waiting, t < w.ticket
        PROVE  ~CouldRun(waiting[t])
    <3>1. ~HasRoom(local, LocalChain(waiting[t]))
      BY <2>1, <2>6, InLine DEF NobodyOlder
    <3>2. QED
      BY <3>1, InLine, LocalRoom
  <2>7. QED
    BY <2>2, <2>3, <2>5, <2>6
<1>5. QED
  BY <1>1, <1>2, <1>3, <1>4

(***************************************************************************)
(* At both ends, a request that goes finds room in its whole chain, and no *)
(* request that came before it could have gone instead                     *)
(* (request_state.py:845-889, cartridge_runtime.py:522-567,                *)
(* CapDAG-Bifaci-Pools.c:315-594).                                         *)
(***************************************************************************)
THEOREM FirstThatFitsGoes == Spec => NobodyIsPassedOver
<1>1. Init => IInv
  BY InitHolds
<1>2. IInv /\ [Next]_vars => IInv'
  BY Inductive
<1>3. IInv /\ [Next]_vars =>
        \A r \in Requests :
          /\ Sent(r) =>
               /\ CouldBeSent(r)
               /\ \A q \in Requests :
                    phase[q] = "waiting" /\ ticket[q] < ticket[r] => ~CouldBeSent(q)
          /\ Starts(r) =>
               /\ CouldRun(r)
               /\ \A t \in DOMAIN waiting :
                    (\A u \in DOMAIN waiting : waiting[u] = r => t < u)
                       => ~CouldRun(waiting[t])
  BY SentInTurn, StartsInTurn
<1>4. QED
  BY <1>1, <1>2, <1>3, PTL DEF Spec, NobodyIsPassedOver

LEMMA SentToTheCold ==
  ASSUME IInv, [Next]_vars, NEW r \in Requests, Sent(r), ~record.running
  PROVE  Admitted_ = {}
<1>1. TakeTurn(r)
  BY OnlyATurnSends
<1>2. HasRoom(engine, chain[r])
  BY <1>1, TakeTurnStep
<1>3. /\ engine \in PoolStates /\ record \in Records /\ Admitted_ \in SUBSET Requests
      /\ All \in Listed(engine)
      /\ \A q \in Admitted_ \cup {r} : All \in Names(chain[q])
  BY <1>1 DEF IInv, TypeInv, EngineInv, Admitted_, TakeTurn
<1>4. PICK i \in 1..Len(engine.pools) : engine.pools[i].name = All
  BY <1>3 DEF Listed
<1>5. engine.pools[i].capacity = 1
  BY <1>3, <1>4, CapacitiesFacts DEF IInv, EngineInv, Limited
<1>6. PICK count : count = Usage(Admitted_, chain)[All]
  OBVIOUS
<1>7. engine.pools[i].active = count
  BY <1>4, <1>6 DEF IInv, EngineInv, Counted
<1>8. PoolHasRoom(engine.pools[i])
  BY <1>2, <1>3, <1>4 DEF HasRoom
<1>9. {q \in Admitted_ : All \in Names(chain[q])} = Admitted_
  BY <1>3
<1>10. count \in Nat /\ count = Cardinality(Admitted_) /\ IsFiniteSet(Admitted_)
  <2>1. All \in PoolNames
    BY LocalNames
  <2>2. /\ Usage(Admitted_, chain)[All] = Cardinality({q \in Admitted_ : All \in Names(chain[q])})
        /\ Usage(Admitted_, chain)[All] \in Nat
    BY <1>3, <2>1, UsageType
  <2>3. IsFiniteSet(Admitted_)
    BY <1>3, ManifestAssumption, FS_Subset
  <2>4. QED
    BY <1>6, <1>9, <2>2, <2>3
<1>11. count = 0
  BY <1>5, <1>7, <1>8, <1>10 DEF PoolHasRoom
<1>12. QED
  BY <1>10, <1>11, FS_EmptySet

(***************************************************************************)
(* The cold-start canary: while the engine knows the process as not        *)
(* running, it sends it one request at a time                              *)
(* (pools.py:68-79, relay_switch.py:2127-2151, request_state.py:845-889).  *)
(***************************************************************************)
THEOREM OneCanaryAtATime == Spec => CanaryIsAlone
<1>1. Init => IInv
  BY InitHolds
<1>2. IInv /\ [Next]_vars => IInv'
  BY Inductive
<1>3. IInv /\ [Next]_vars =>
        \A r \in Requests : Sent(r) /\ ~record.running => Admitted_ = {}
  BY SentToTheCold
<1>4. QED
  BY <1>1, <1>2, <1>3, PTL DEF Spec, CanaryIsAlone

-----------------------------------------------------------------------------
(***************************************************************************)
(* Turns, one after the other, as settle takes them                        *)
(* (CapDAG-Bifaci-Pools.c:1180-1212).                                      *)
(***************************************************************************)
Turns == {d \in [state : PoolStates, admitted : Seq(Nat)] : InOrder(d.state)}

OneTurn(d) ==
  IF AdmitNext(d.state) = None THEN d
  ELSE [state    |-> AdmitNext(d.state).state,
        admitted |-> Append(d.admitted, AdmitNext(d.state).waiter.ticket)]

LEMMA TurnFacts ==
  ASSUME NEW d \in Turns
  PROVE  /\ OneTurn(d) \in Turns /\ d.state \in PoolStates /\ InOrder(d.state)
         /\ d.admitted \in Seq(Nat)
         /\ AdmitNext(d.state) = None =>
              OneTurn(d) = d /\ \A w \in Line(d.state) : ~HasRoom(d.state, w.chain)
         /\ AdmitNext(d.state) # None => \E w \in Line(d.state) :
              /\ Went(d.state, OneTurn(d).state, w) /\ HasRoom(d.state, w.chain)
              /\ OneTurn(d).admitted = Append(d.admitted, w.ticket) /\ w.ticket \in Nat
<1>1. d.state \in PoolStates /\ InOrder(d.state) /\ d.admitted \in Seq(Nat)
  BY DEF Turns
<1>2. CASE AdmitNext(d.state) = None
  <2>1. OneTurn(d) = d
    BY <1>2 DEF OneTurn
  <2>2. \A w \in Line(d.state) : ~HasRoom(d.state, w.chain)
    BY <1>1, <1>2, AdmitNextFacts
  <2>3. QED
    BY <1>1, <1>2, <2>1, <2>2
<1>3. CASE AdmitNext(d.state) # None
  <2>1. PICK w \in Line(d.state) :
          /\ AdmitNext(d.state).waiter = w /\ Went(d.state, AdmitNext(d.state).state, w)
          /\ HasRoom(d.state, w.chain)
    BY <1>1, <1>3, AdmitNextFacts
  <2>2. w.ticket \in Nat
    BY <1>1, LineFacts
  <2>3. PICK e : e = OneTurn(d)
    OBVIOUS
  <2>4. e = [state |-> AdmitNext(d.state).state, admitted |-> Append(d.admitted, w.ticket)]
    BY <1>3, <2>1, <2>3 DEF OneTurn
  <2>5. Append(d.admitted, w.ticket) \in Seq(Nat)
    BY <1>1, <2>2
  <2>6. e.state = AdmitNext(d.state).state /\ e.admitted = Append(d.admitted, w.ticket)
    BY <2>4
  <2>7. AdmitNext(d.state).state \in PoolStates /\ InOrder(AdmitNext(d.state).state)
    BY <2>1 DEF Went
  <2>8. e \in Turns
    BY <2>4, <2>5, <2>6, <2>7 DEF Turns
  <2>9. QED
    BY <1>1, <1>3, <2>1, <2>2, <2>3, <2>6, <2>8
<1>4. QED
  BY <1>2, <1>3

LEMMA SettleUnfolds ==
  ASSUME NEW s \in PoolStates, InOrder(s), NEW n \in Nat
  PROVE  \E f : /\ SettleWithin(n, s) = f[n]
                /\ f[0] = [state |-> s, admitted |-> <<>>]
                /\ \A i \in 1..n : f[i] = OneTurn(f[i - 1])
<1> DEFINE base == [state |-> s, admitted |-> <<>>]
           g == [p \in (1..n) \X Turns |-> OneTurn(p[2])]
           Solves(f) == f = [i \in 0..n |->
             IF i = 0 THEN [state |-> s, admitted |-> <<>>]
             ELSE IF AdmitNext(f[i - 1].state) = None THEN f[i - 1]
             ELSE [state    |-> AdmitNext(f[i - 1].state).state,
                   admitted |-> Append(f[i - 1].admitted, AdmitNext(f[i - 1].state).waiter.ticket)]]
<1>1. base \in Turns
  BY DEF Turns
<1>2. g \in [(1..n) \X Turns -> Turns]
  <2>1. \A x \in Turns : OneTurn(x) \in Turns
    BY TurnFacts
  <2>2. QED
    BY <2>1
<1>3. \A i \in 1..n, x \in Turns : g[<<i, x>>] = OneTurn(x)
  OBVIOUS
<1> HIDE DEF g
<1>4. PICK h \in [0..n -> Turns] : Goes(h, n, base, g)
  <2> HIDE DEF base
  <2>1. QED
    BY <1>1, <1>2, Recursion
<1>5. ASSUME NEW i \in 0..n
      PROVE  h[i] = IF i = 0 THEN base ELSE OneTurn(h[i - 1])
  <2> HIDE DEF base
  <2>1. CASE i = 0
    BY <1>4, <2>1 DEF Goes
  <2>2. CASE i # 0
    <3>1. i \in 1..n /\ i - 1 \in 0..n
      BY <2>2
    <3>2. h[i] = g[<<i, h[i - 1]>>] /\ h[i - 1] \in Turns
      BY <1>4, <3>1 DEF Goes
    <3>3. QED
      BY <1>3, <2>2, <3>1, <3>2
  <2>3. QED
    BY <2>1, <2>2
<1>6. Solves(h)
  <2>1. h = [i \in 0..n |-> h[i]]
    BY <1>4
  <2>2. QED
    BY <1>5, <2>1 DEF OneTurn
<1> DEFINE f == CHOOSE f : Solves(f)
<1>7. Solves(f)
  BY <1>6
<1>8. SettleWithin(n, s) = f[n]
  BY DEF SettleWithin
<1> HIDE DEF f
<1>9. \A i \in 0..n : f[i] = IF i = 0 THEN base ELSE OneTurn(f[i - 1])
  BY <1>7 DEF OneTurn
<1>10. f[0] = base /\ \A i \in 1..n : f[i] = OneTurn(f[i - 1])
  <2>1. 0 \in 0..n
    OBVIOUS
  <2>2. \A i \in 1..n : i \in 0..n /\ i # 0
    OBVIOUS
  <2> HIDE DEF base
  <2>3. QED
    BY <1>9, <2>1, <2>2
<1>11. QED
  BY <1>8, <1>10

Going(d) == Running \cup {waiting[t] : t \in Members(d.admitted)}

(* What holds of settle's state after k turns: who was let go holds a slot  *)
(* in every pool of its chain, within the limits; the others are in line;   *)
(* and a turn was taken as long as one could be.                            *)
Settling(k, d) ==
  /\ d \in Turns
  /\ Members(d.admitted) \subseteq DOMAIN waiting
  /\ Line(d.state) = {Queued(t) : t \in DOMAIN waiting \ Members(d.admitted)}
  /\ Counted(d.state, Usage(Going(d), LocalChains))
  /\ Limited(d.state, LocalLimits) /\ Listed(d.state) = Listed(local)
  /\ \A n \in PoolNames :
       \/ LocalLimits[n] = 0
       \/ Usage(Going(d), LocalChains)[n] <= LocalLimits[n]
       \/ \A r \in Going(d) : n \in Names(LocalChains[r]) => r \in Running
  /\ IsFiniteSet(Line(d.state))
  /\ AdmitNext(d.state) = None \/ Cardinality(Line(d.state)) + k <= Len(local.queue)

LEMMA MembersAppended ==
  ASSUME NEW S, NEW list \in Seq(S), NEW x \in S
  PROVE  Members(Append(list, x)) = Members(list) \cup {x}
<1>1. PICK after, n : after = Append(list, x) /\ n = Len(list)
  OBVIOUS
<1>2. /\ n \in Nat /\ Len(after) = n + 1 /\ after[n + 1] = x
      /\ \A i \in 1..n : after[i] = list[i]
  BY <1>1
<1>3. ASSUME NEW y PROVE y \in Members(after) <=> y \in Members(list) \cup {x}
  <2>1. ASSUME NEW i \in 1..(n + 1) PROVE after[i] \in Members(list) \cup {x}
    <3>1. CASE i = n + 1
      BY <1>2, <3>1
    <3>2. CASE i # n + 1
      <4>1. i \in 1..n
        BY <1>2, <3>2
      <4>2. QED
        BY <1>1, <1>2, <4>1 DEF Members
    <3>3. QED
      BY <3>1, <3>2
  <2>2. ASSUME NEW i \in 1..n PROVE list[i] \in Members(after)
    <3>1. i \in 1..(n + 1) /\ after[i] = list[i]
      BY <1>2
    <3>2. QED
      BY <1>2, <3>1 DEF Members
  <2>3. x \in Members(after)
    <3>1. n + 1 \in 1..(n + 1)
      BY <1>2
    <3>2. QED
      BY <1>2, <3>1 DEF Members
  <2>4. QED
    BY <1>1, <1>2, <2>1, <2>2, <2>3 DEF Members
<1>4. QED
  BY <1>1, <1>3

LEMMA LineIsFinite ==
  ASSUME NEW s \in PoolStates
  PROVE  IsFiniteSet(Line(s)) /\ Cardinality(Line(s)) <= Len(s.queue) /\ Len(s.queue) \in Nat
<1>1. s.queue \in Seq(Waiter) /\ Len(s.queue) \in Nat
  BY PoolStateParts
<1>2. PICK f, n : f = s.queue /\ n = Len(s.queue)
  OBVIOUS
<1>3. f \in [1..n -> Line(s)]
  <2>1. f = [i \in 1..n |-> f[i]]
    BY <1>1, <1>2
  <2>2. QED
    BY <1>2, <2>1 DEF Line, Members
<1>4. f \in Surjection(1..n, Line(s))
  BY <1>2, <1>3 DEF Surjection, Line, Members
<1>5. IsFiniteSet(1..n) /\ Cardinality(1..n) = n
  <2>1. n \in Int /\ 1 \in Int
    BY <1>1, <1>2
  <2>2. IsFiniteSet(1..n) /\ Cardinality(1..n) = IF 1 > n THEN 0 ELSE n - 1 + 1
    BY <2>1, FS_Interval
  <2>3. QED
    BY <1>1, <1>2, <2>2
<1>6. QED
  BY <1>1, <1>2, <1>4, <1>5, FS_Surjection

LEMMA SettlingStarts ==
  ASSUME IInv, NEW d, d = [state |-> local, admitted |-> <<>>]
  PROVE  Settling(0, d)
<1>1. d.state = local /\ d.admitted = <<>> /\ d \in Turns
  BY DEF IInv, TypeInv, LocalInv, Turns
<1>2. Members(d.admitted) = {} /\ Going(d) = Running
  BY <1>1 DEF Members, Going
<1>3. DOMAIN waiting \ Members(d.admitted) = DOMAIN waiting
  BY <1>2
<1>4. IsFiniteSet(Line(local)) /\ Cardinality(Line(local)) <= Len(local.queue) /\ Len(local.queue) \in Nat
  BY LineIsFinite DEF IInv, TypeInv
<1>5. Cardinality(Line(local)) \in Nat
  BY <1>4, FS_CardinalityType
<1>6. Cardinality(Line(d.state)) + 0 <= Len(local.queue)
  BY <1>1, <1>4, <1>5
<1>7. QED
  BY <1>1, <1>2, <1>3, <1>4, <1>6 DEF Settling, IInv, LocalInv

LEMMA TurnSettles ==
  ASSUME IInv, NEW k \in Nat, NEW d, Settling(k, d)
  PROVE  Settling(k + 1, OneTurn(d))
<1>1. /\ d \in Turns /\ OneTurn(d) \in Turns /\ d.state \in PoolStates /\ d.admitted \in Seq(Nat)
      /\ InOrder(d.state)
  BY TurnFacts DEF Settling
<1>2. CASE AdmitNext(d.state) = None
  <2>1. OneTurn(d) = d
    BY <1>1, <1>2, TurnFacts
  <2>2. QED
    BY <1>2, <2>1 DEF Settling
<1>3. CASE AdmitNext(d.state) # None
  <2>1. PICK e : e = OneTurn(d)
    OBVIOUS
  <2>2. PICK w \in Line(d.state) :
          /\ Went(d.state, e.state, w) /\ HasRoom(d.state, w.chain)
          /\ e.admitted = Append(d.admitted, w.ticket) /\ w.ticket \in Nat
    BY <1>1, <1>3, <2>1, TurnFacts
  <2>3. PICK t \in DOMAIN waiting \ Members(d.admitted) : w = Queued(t)
    BY <2>2 DEF Settling
  <2>4. PICK r : r = waiting[t]
    OBVIOUS
  <2>5. w.ticket = t /\ w.chain = LocalChains[r] /\ r \in Requests /\ served[r] = "queued"
    <3>1. w.ticket = t /\ w.chain = LocalChains[waiting[t]]
      BY <2>3 DEF Queued
    <3>2. QED
      BY <2>3, <2>4, <3>1, InLine
  <2>6. Members(e.admitted) = Members(d.admitted) \cup {t}
    BY <1>1, <2>2, <2>5, MembersAppended
  <2>7. Going(e) = Going(d) \cup {r} /\ r \notin Going(d) /\ Going(d) \in SUBSET Requests
    <3>1. Going(e) = Going(d) \cup {r}
      BY <2>4, <2>6 DEF Going
    <3>2. r \notin Running /\ Running \in SUBSET Requests
      BY <2>5 DEF Running
    <3>3. \A u \in Members(d.admitted) : u \in DOMAIN waiting /\ waiting[u] # r /\ waiting[u] \in Requests
      BY <2>3, <2>4 DEF Settling, IInv, LocalInv, TypeInv
    <3>4. QED
      BY <3>1, <3>2, <3>3 DEF Going
  <2>8. Counted(e.state, Usage(Going(e), LocalChains))
    <3>1. Counted(d.state, Usage(Going(d), LocalChains))
      BY DEF Settling
    <3>2. Counted(e.state, Usage(Going(d) \cup {r}, LocalChains))
      BY <1>1, <2>2, <2>5, <2>7, <3>1, CountedMore
    <3>3. QED
      BY <2>7, <3>2
  <2>9. Limited(e.state, LocalLimits) /\ Listed(e.state) = Listed(local)
    BY <1>1, <2>2, WentPools DEF Settling
  <2>10. Line(e.state) = {Queued(u) : u \in DOMAIN waiting \ Members(e.admitted)}
    <3>1. Line(e.state) = Line(d.state) \ {w}
      BY <2>2 DEF Went
    <3>2. \A u \in DOMAIN waiting : Queued(u).ticket = u
      BY DEF Queued
    <3>3. Line(d.state) = {Queued(u) : u \in DOMAIN waiting \ Members(d.admitted)}
      BY DEF Settling
    <3>4. {Queued(u) : u \in DOMAIN waiting \ Members(d.admitted)} \ {w}
            = {Queued(u) : u \in (DOMAIN waiting \ Members(d.admitted)) \ {t}}
      BY <2>3, <3>2
    <3>5. (DOMAIN waiting \ Members(d.admitted)) \ {t} = DOMAIN waiting \ Members(e.admitted)
      BY <2>6
    <3>6. QED
      BY <3>1, <3>3, <3>4, <3>5
  <2>11. IsFiniteSet(Line(e.state)) /\ Cardinality(Line(e.state)) + (k + 1) <= Len(local.queue)
    <3>1. Line(e.state) = Line(d.state) \ {w} /\ IsFiniteSet(Line(d.state))
      BY <2>2 DEF Went, Settling
    <3>2. /\ IsFiniteSet(Line(e.state)) /\ Cardinality(Line(e.state)) = Cardinality(Line(d.state)) - 1
          /\ Cardinality(Line(d.state)) \in Nat
      BY <2>2, <3>1, FS_RemoveElement, FS_CardinalityType
    <3>3. Cardinality(Line(d.state)) + k <= Len(local.queue) /\ Len(local.queue) \in Nat
      BY <1>3, PoolStateParts DEF Settling, IInv, TypeInv
    <3>4. QED
      BY <3>2, <3>3
  <2>12. ASSUME NEW n \in PoolNames
         PROVE  \/ LocalLimits[n] = 0
                \/ Usage(Going(e), LocalChains)[n] <= LocalLimits[n]
                \/ \A q \in Going(e) : n \in Names(LocalChains[q]) => q \in Running
    <3>1. PICK u, v : u = Usage(Going(d), LocalChains)[n] /\ v = Usage(Going(e), LocalChains)[n]
      OBVIOUS
    <3>2. v = IF n \in Names(LocalChains[r]) THEN u + 1 ELSE u
      BY <2>5, <2>7, <3>1, UsageMore
    <3>3. u \in Nat /\ LocalLimits[n] \in Nat
      BY <2>7, <3>1, UsageType, LimitsParts DEF LocalLimits, IInv, TypeInv
    <3>4. CASE n \in Names(LocalChains[r])
      <4>1. host.running /\ Listed(local) = PoolNames
        BY <2>5 DEF IInv, LocalInv, Routed, InLocal
      <4>2. PICK i \in 1..Len(d.state.pools) : d.state.pools[i].name = n
        BY <4>1 DEF Settling, Listed
      <4>3. PoolHasRoom(d.state.pools[i])
        BY <2>2, <2>5, <3>4, <4>2 DEF HasRoom
      <4>4. d.state.pools[i].active = u
        BY <3>1, <4>2 DEF Settling, Counted
      <4>5. d.state.pools[i].capacity = LocalLimits[n]
        BY <4>2 DEF Settling, Limited, LocalLimits
      <4>6. LocalLimits[n] = 0 \/ u < LocalLimits[n]
        BY <4>3, <4>4, <4>5 DEF PoolHasRoom
      <4>7. LocalLimits[n] = 0 \/ v <= LocalLimits[n]
        BY <3>2, <3>3, <3>4, <4>6
      <4>8. QED
        BY <3>1, <4>7
    <3>5. CASE n \notin Names(LocalChains[r])
      <4>1. v = u
        BY <3>2, <3>5
      <4>2. \/ LocalLimits[n] = 0 \/ u <= LocalLimits[n]
            \/ \A q \in Going(d) : n \in Names(LocalChains[q]) => q \in Running
        BY <3>1 DEF Settling
      <4>3. QED
        BY <2>7, <3>1, <3>5, <4>1, <4>2
    <3>6. QED
      BY <3>4, <3>5
  <2>13. Members(e.admitted) \subseteq DOMAIN waiting
    BY <2>3, <2>6 DEF Settling
  <2>14. QED
    BY <1>1, <2>1, <2>8, <2>9, <2>10, <2>11, <2>12, <2>13 DEF Settling
<1>4. QED
  BY <1>2, <1>3

LEMMA SettledFacts ==
  ASSUME IInv
  PROVE  \E d : /\ Settle(local) = d /\ Settling(Len(local.queue), d)
                /\ AdmitNext(d.state) = None
<1>1. local \in PoolStates /\ InOrder(local) /\ Len(local.queue) \in Nat
  BY PoolStateParts DEF IInv, TypeInv, LocalInv
<1>2. PICK n : n = Len(local.queue)
  OBVIOUS
<1>3. PICK f : /\ SettleWithin(n, local) = f[n]
               /\ f[0] = [state |-> local, admitted |-> <<>>]
               /\ \A i \in 1..n : f[i] = OneTurn(f[i - 1])
  BY <1>1, <1>2, SettleUnfolds
<1> DEFINE S == {i \in 0..n : ~Settling(i, f[i])}
<1>4. S = {}
  <2>1. SUFFICES ASSUME S # {} PROVE FALSE
    OBVIOUS
  <2>2. PICK i \in S : \A m \in S : i <= m
    <3>1. S \in SUBSET Nat
      BY <1>1, <1>2
    <3> HIDE DEF S
    <3>2. QED
      BY <2>1, <3>1, LeastOf
  <2>3. i \in 0..n /\ ~Settling(i, f[i]) /\ i \in Nat
    BY <1>1, <1>2
  <2>4. i # 0
    BY <1>3, <2>3, SettlingStarts
  <2>5. PICK k : k = i - 1
    OBVIOUS
  <2>6. k \in 0..n /\ k \in Nat /\ i = k + 1 /\ ~ (i <= k) /\ i \in 1..n
    BY <1>1, <1>2, <2>3, <2>4, <2>5
  <2>7. Settling(k, f[k])
    BY <2>2, <2>6
  <2> HIDE DEF S
  <2>8. Settling(k + 1, OneTurn(f[k]))
    BY <2>6, <2>7, TurnSettles
  <2>9. f[i] = OneTurn(f[k])
    BY <1>3, <2>5, <2>6
  <2>10. QED
    BY <2>3, <2>6, <2>8, <2>9
<1>5. Settling(n, f[n])
  BY <1>1, <1>2, <1>4
<1> HIDE DEF S
<1>6. Settle(local) = f[n]
  BY <1>2, <1>3 DEF Settle
<1>7. AdmitNext(f[n].state) = None
  <2>1. SUFFICES ASSUME AdmitNext(f[n].state) # None PROVE FALSE
    OBVIOUS
  <2>2. PICK s : s = f[n].state
    OBVIOUS
  <2>3. IsFiniteSet(Line(s)) /\ Cardinality(Line(s)) + n <= n
    BY <1>2, <1>5, <2>1, <2>2 DEF Settling
  <2>4. Cardinality(Line(s)) \in Nat
    BY <2>3, FS_CardinalityType
  <2>5. Cardinality(Line(s)) = 0
    BY <1>1, <1>2, <2>3, <2>4
  <2>6. Line(s) = {}
    BY <2>3, <2>5, FS_EmptySet
  <2>7. QED
    BY <1>5, <2>1, <2>2, <2>6, TurnFacts DEF Settling
<1>8. QED
  BY <1>2, <1>5, <1>6, <1>7

LEMMA AllSettle == IInv => SettlesAll
<1> SUFFICES ASSUME IInv PROVE SettlesAll
  OBVIOUS
<1>1. PICK d : /\ Settle(local) = d /\ Settling(Len(local.queue), d)
               /\ AdmitNext(d.state) = None
  BY SettledFacts
<1>2. PICK going, let, count : /\ going = Going(d) /\ let = Members(d.admitted)
                               /\ count = Usage(going, LocalChains)
  OBVIOUS
<1>3. /\ let \subseteq DOMAIN waiting /\ going = Running \cup {waiting[t] : t \in let}
      /\ d.state \in PoolStates /\ InOrder(d.state)
      /\ Line(d.state) = {Queued(t) : t \in DOMAIN waiting \ let}
      /\ Counted(d.state, count) /\ Limited(d.state, LocalLimits)
      /\ Listed(d.state) = Listed(local)
      /\ \A n \in PoolNames :
           \/ LocalLimits[n] = 0 \/ count[n] <= LocalLimits[n]
           \/ \A r \in going : n \in Names(LocalChains[r]) => r \in Running
  BY <1>1, <1>2, TurnFacts DEF Settling, Going
<1>4. going \in SUBSET Requests
  BY <1>3 DEF IInv, TypeInv, Running
<1>5. ASSUME DOMAIN waiting # {}, NEW n \in PoolNames
      PROVE  Knows(local, n) /\ PoolNamed(local, n).capacity = LocalLimits[n] /\ n \in Listed(local)
  <2>1. host.running /\ Listed(local) = PoolNames
    BY <1>5 DEF IInv, LocalInv
  <2>2. /\ Knows(local, n)
        /\ \E i \in 1..Len(local.pools) : PoolNamed(local, n) = local.pools[i] /\ local.pools[i].name = n
    BY <2>1, PoolIsFound DEF IInv, TypeInv
  <2>3. QED
    BY <2>1, <2>2 DEF IInv, LocalInv, Limited, LocalLimits
<1>6. ASSUME NEW t \in DOMAIN waiting \ let
      PROVE  \E n \in Names(LocalChain(waiting[t])) : Full(local, going, LocalChain, n)
  <2>1. Queued(t) \in Line(d.state) /\ Queued(t).chain = LocalChain(waiting[t]) /\ waiting[t] \in Requests
    BY <1>3, InLine
  <2>2. ~HasRoom(d.state, LocalChain(waiting[t]))
    <3>1. \A w \in Line(d.state) : ~HasRoom(d.state, w.chain)
      BY <1>1, TurnFacts DEF Settling
    <3>2. QED
      BY <2>1, <3>1
  <2>3. PICK i \in 1..Len(d.state.pools) :
          d.state.pools[i].name \in Names(LocalChain(waiting[t])) /\ ~PoolHasRoom(d.state.pools[i])
    BY <2>2 DEF HasRoom
  <2>4. PICK n : n = d.state.pools[i].name
    OBVIOUS
  <2>5. n \in PoolNames /\ d.state.pools[i].active \in Nat /\ d.state.pools[i].capacity \in Nat
    BY <1>3, <2>4, PoolStateParts
  <2>6. d.state.pools[i].active = count[n] /\ d.state.pools[i].capacity = LocalLimits[n]
    BY <1>3, <2>4, <2>5 DEF Counted, Limited, LocalLimits
  <2>7. LocalLimits[n] # 0 /\ count[n] >= LocalLimits[n]
    BY <2>3, <2>5, <2>6 DEF PoolHasRoom
  <2>8. Knows(local, n) /\ PoolNamed(local, n).capacity = LocalLimits[n]
    BY <1>5, <2>5
  <2>9. IsFull(local, count, n)
    BY <2>7, <2>8 DEF IsFull
  <2>10. Full(local, going, LocalChain, n)
    BY <1>2, <1>4, <2>5, <2>9, LocalCount
  <2>11. QED
    BY <2>3, <2>4, <2>10
<1>7. ASSUME NEW n \in PoolNames, let # {}
      PROVE  \/ PoolNamed(local, n).capacity = 0
             \/ Cardinality(Through(going, LocalChain, n)) <= PoolNamed(local, n).capacity
             \/ Through(going, LocalChain, n) = Through(Running, LocalChain, n)
  <2>1. PoolNamed(local, n).capacity = LocalLimits[n]
    BY <1>3, <1>5, <1>7
  <2>2. count[n] = Cardinality(Through(going, LocalChain, n))
    BY <1>2, <1>4, LocalCount
  <2>3. CASE \A r \in going : n \in Names(LocalChains[r]) => r \in Running
    <3>1. \A r \in going : LocalChains[r] = LocalChain(r)
      BY <1>4, ChainFacts
    <3>2. Running \subseteq going
      BY <1>3
    <3>3. Through(going, LocalChain, n) = Through(Running, LocalChain, n)
      BY <2>3, <3>1, <3>2 DEF Through
    <3>4. QED
      BY <3>3
  <2>4. QED
    BY <1>3, <2>1, <2>2, <2>3
<1>8. {Settle(local).admitted[i] : i \in 1..Len(Settle(local).admitted)} = let
  BY <1>1, <1>2 DEF Members
<1>9. QED
  BY <1>3, <1>6, <1>7, <1>8 DEF SettlesAll

-----------------------------------------------------------------------------
(***************************************************************************)
(* The figures.                                                            *)
(***************************************************************************)
LEMMA AsManyImages ==
  ASSUME NEW I, IsFiniteSet(I), NEW f, \A i, j \in I : f[i] = f[j] => i = j
  PROVE  /\ IsFiniteSet({f[i] : i \in I})
         /\ Cardinality({f[i] : i \in I}) = Cardinality(I)
<1>1. PICK T, g : T = {f[i] : i \in I} /\ g = [i \in I |-> f[i]]
  OBVIOUS
<1>2. g \in [I -> T] /\ \A i \in I : g[i] = f[i]
  BY <1>1
<1>3. g \in Injection(I, T)
  <2>1. \A i, j \in I : g[i] = g[j] => i = j
    BY <1>2
  <2>2. QED
    BY <1>2, <2>1 DEF Injection, IsInjective
<1>4. g \in Surjection(I, T)
  BY <1>1, <1>2 DEF Surjection
<1>5. ExistsBijection(I, T)
  BY <1>3, <1>4 DEF ExistsBijection, Bijection
<1>6. QED
  BY <1>1, <1>5, FS_Bijection

LEMMA PlacesInLine ==
  ASSUME IInv
  PROVE  /\ Len(local.queue) \in Nat
         /\ \A i \in 1..Len(local.queue) :
              /\ local.queue[i].ticket \in DOMAIN waiting /\ local.queue[i].ticket \in Nat
              /\ waiting[local.queue[i].ticket] \in InLocal
              /\ local.queue[i].chain = LocalChain(waiting[local.queue[i].ticket])
              /\ Head(local.queue[i].chain) = Cap[waiting[local.queue[i].ticket]]
         /\ \A t \in DOMAIN waiting : \E i \in 1..Len(local.queue) : local.queue[i].ticket = t
         /\ \A i, j \in 1..Len(local.queue) :
              /\ local.queue[i].ticket = local.queue[j].ticket => i = j
              /\ local.queue[i].ticket < local.queue[j].ticket <=> i < j
<1>1. local \in PoolStates /\ InOrder(local) /\ Len(local.queue) \in Nat
  BY PoolStateParts DEF IInv, TypeInv, LocalInv
<1>2. ASSUME NEW i \in 1..Len(local.queue)
      PROVE  /\ local.queue[i].ticket \in DOMAIN waiting /\ local.queue[i].ticket \in Nat
             /\ waiting[local.queue[i].ticket] \in InLocal
             /\ local.queue[i].chain = LocalChain(waiting[local.queue[i].ticket])
             /\ Head(local.queue[i].chain) = Cap[waiting[local.queue[i].ticket]]
  <2>1. local.queue[i] \in Line(local)
    BY DEF Line, Members
  <2>2. PICK w, r : w = local.queue[i] /\ r = waiting[w.ticket]
    OBVIOUS
  <2>3. /\ w.ticket \in DOMAIN waiting /\ r \in Requests /\ served[r] = "queued"
        /\ w.chain = LocalChains[r]
    BY <2>1, <2>2, WaiterIsRequest
  <2>4. w.ticket \in Nat
    BY <2>3 DEF IInv, TypeInv
  <2>5. LocalChains[r] = LocalChain(r) /\ Head(LocalChain(r)) = Cap[r]
    BY <2>3, ChainFacts
  <2>6. QED
    BY <2>2, <2>3, <2>4, <2>5 DEF InLocal
<1>3. ASSUME NEW t \in DOMAIN waiting
      PROVE  \E i \in 1..Len(local.queue) : local.queue[i].ticket = t
  BY InLine DEF Line, Members
<1>4. ASSUME NEW i \in 1..Len(local.queue), NEW j \in 1..Len(local.queue)
      PROVE  /\ local.queue[i].ticket = local.queue[j].ticket => i = j
             /\ local.queue[i].ticket < local.queue[j].ticket <=> i < j
  <2>1. PICK a, b : a = local.queue[i].ticket /\ b = local.queue[j].ticket
    OBVIOUS
  <2>2. a \in Nat /\ b \in Nat /\ i \in Nat /\ j \in Nat
    BY <1>1, <1>2, <2>1
  <2>3. i < j => a < b
    <3>1. i < j => i \in 1..(j - 1)
      BY <2>2
    <3>2. QED
      BY <1>1, <2>1, <3>1 DEF InOrder
  <2>4. j < i => b < a
    <3>1. j < i => j \in 1..(i - 1)
      BY <2>2
    <3>2. QED
      BY <1>1, <2>1, <3>1 DEF InOrder
  <2>5. i = j => a = b
    BY <2>1
  <2>6. (a = b => i = j) /\ (a < b <=> i < j)
    BY <2>2, <2>3, <2>4, <2>5
  <2>7. QED
    BY <2>1, <2>6
<1>5. QED
  BY <1>1, <1>2, <1>3, <1>4

LEMMA PositionIsTrue ==
  ASSUME IInv, NEW t \in DOMAIN waiting
  PROVE  Position(local, t) =
           Cardinality({u \in DOMAIN waiting : u <= t /\ Cap[waiting[u]] = Cap[waiting[t]]})
<1>1. PICK q, n : q = local.queue /\ n = Len(local.queue)
  OBVIOUS
<1>2. /\ n \in Nat
      /\ \A i \in 1..n : /\ q[i].ticket \in DOMAIN waiting /\ q[i].ticket \in Nat
                         /\ Head(q[i].chain) = Cap[waiting[q[i].ticket]]
      /\ \A u \in DOMAIN waiting : \E i \in 1..n : q[i].ticket = u
      /\ \A i, j \in 1..n : /\ q[i].ticket = q[j].ticket => i = j
                            /\ q[i].ticket < q[j].ticket <=> i < j
  <2>1. /\ n \in Nat
        /\ \A i \in 1..n : /\ q[i].ticket \in DOMAIN waiting /\ q[i].ticket \in Nat
                           /\ Head(q[i].chain) = Cap[waiting[q[i].ticket]]
    BY <1>1, PlacesInLine
  <2>2. \A u \in DOMAIN waiting : \E i \in 1..n : q[i].ticket = u
    BY <1>1, PlacesInLine
  <2>3. \A i, j \in 1..n : q[i].ticket = q[j].ticket => i = j
    BY <1>1, PlacesInLine
  <2>4. \A i, j \in 1..n : q[i].ticket < q[j].ticket <=> i < j
    BY <1>1, PlacesInLine
  <2>5. QED
    BY <2>1, <2>2, <2>3, <2>4
<1>3. PICK k \in 1..n : q[k].ticket = t
  BY <1>2
<1>4. WaiterOf(q, t) = q[k]
  <2>1. {i \in 1..Len(q) : q[i].ticket = t} = {k}
    <3>1. \A i \in 1..n : q[i].ticket = t => i = k
      BY <1>2, <1>3
    <3>2. QED
      BY <1>1, <1>3, <3>1
  <2>2. (CHOOSE i \in {k} : \A j \in {k} : i <= j) = k
    BY <1>2
  <2>3. QED
    BY <2>1, <2>2 DEF WaiterOf
<1>5. q[k] # None
  <2>1. q[k] \in Waiter
    BY <1>1, <1>3, PoolStateParts DEF IInv, TypeInv
  <2>2. QED
    BY <2>1, NoneAssumption
<1>6. Before(q, t) = 1..(k - 1)
  <2>1. ASSUME NEW i \in 1..n
        PROVE  (\A j \in 1..i : q[j].ticket # t) <=> i < k
    <3>1. \A j \in 1..i : j \in 1..n
      BY <1>2
    <3>2. CASE i < k
      <4>1. \A j \in 1..i : j # k
        BY <1>2, <3>2
      <4>2. QED
        BY <1>2, <1>3, <3>1, <3>2, <4>1
    <3>3. CASE ~(i < k)
      <4>1. k \in 1..i
        BY <1>2, <3>3
      <4>2. QED
        BY <1>3, <3>3, <4>1
    <3>4. QED
      BY <3>2, <3>3
  <2>2. {i \in 1..n : i < k} = 1..(k - 1)
    BY <1>2
  <2>3. QED
    BY <1>1, <2>1, <2>2 DEF Before
<1>7. PICK I : I = OfItsCap(q, Before(q, t), q[k])
  OBVIOUS
<1>8. I = {i \in 1..(k - 1) : Cap[waiting[q[i].ticket]] = Cap[waiting[t]]}
  <2>1. \A i \in 1..(k - 1) : i \in 1..n
    BY <1>2
  <2>2. I = {i \in 1..(k - 1) : Head(q[i].chain) = Head(q[k].chain)}
    BY <1>6, <1>7 DEF OfItsCap
  <2>3. Head(q[k].chain) = Cap[waiting[t]]
    BY <1>2, <1>3
  <2>4. \A i \in 1..(k - 1) : Head(q[i].chain) = Cap[waiting[q[i].ticket]]
    BY <1>2, <2>1
  <2>5. QED
    BY <2>2, <2>3, <2>4
<1>9. IsFiniteSet(I)
  <2>1. IsFiniteSet(1..(k - 1))
    <3>1. 1 \in Int /\ k - 1 \in Int
      BY <1>2
    <3>2. QED
      BY <3>1, FS_Interval
  <2>2. I \subseteq 1..(k - 1)
    BY <1>8
  <2>3. QED
    BY <2>1, <2>2, FS_Subset
<1>10. PICK f : f = [i \in 1..n |-> q[i].ticket]
  OBVIOUS
<1>11. ASSUME NEW i \in I
       PROVE  i \in 1..n /\ f[i] = q[i].ticket /\ i < k
  <2>1. i \in 1..(k - 1) /\ n \in Nat
    BY <1>2, <1>8
  <2>2. i \in 1..n /\ i < k
    BY <2>1
  <2>3. QED
    BY <1>10, <2>2
<1>12. PICK V : V = {f[i] : i \in I}
  OBVIOUS
<1>13. IsFiniteSet(V) /\ Cardinality(V) = Cardinality(I)
  <2>1. \A i, j \in I : f[i] = f[j] => i = j
    BY <1>2, <1>11
  <2>2. QED
    BY <1>9, <1>12, <2>1, AsManyImages
<1>14. V = {u \in DOMAIN waiting : u < t /\ Cap[waiting[u]] = Cap[waiting[t]]}
  <2>1. ASSUME NEW i \in I
        PROVE  f[i] \in DOMAIN waiting /\ f[i] < t /\ Cap[waiting[f[i]]] = Cap[waiting[t]]
    BY <1>2, <1>3, <1>8, <1>11
  <2>2. ASSUME NEW u \in DOMAIN waiting, u < t, Cap[waiting[u]] = Cap[waiting[t]]
        PROVE  u \in V
    <3>1. PICK i \in 1..n : q[i].ticket = u
      BY <1>2
    <3>2. i < k
      BY <1>2, <1>3, <2>2, <3>1
    <3>3. i \in 1..(k - 1)
      BY <1>2, <3>2
    <3>4. i \in I
      BY <1>8, <2>2, <3>1, <3>3
    <3>5. QED
      BY <1>11, <1>12, <3>1, <3>4
  <2>3. QED
    BY <1>12, <2>1, <2>2
<1>15. {u \in DOMAIN waiting : u <= t /\ Cap[waiting[u]] = Cap[waiting[t]]} = V \cup {t}
  <2>1. \A u \in DOMAIN waiting : u \in Nat
    BY DEF IInv, TypeInv
  <2>2. \A u \in DOMAIN waiting : u <= t <=> u < t \/ u = t
    BY <2>1
  <2>3. QED
    BY <1>14, <2>2
<1>16. Cardinality(V \cup {t}) = 1 + Cardinality(I)
  <2>1. t \notin V
    <3>1. t \in Nat /\ ~(t < t)
      BY DEF IInv, TypeInv
    <3>2. QED
      BY <1>14, <3>1
  <2>2. Cardinality(V \cup {t}) = Cardinality(V) + 1 /\ Cardinality(V) \in Nat
    BY <1>13, <2>1, FS_AddElement, FS_CardinalityType
  <2>3. QED
    BY <1>13, <2>2
<1>17. Position(local, t) = 1 + Cardinality(I)
  BY <1>1, <1>4, <1>5, <1>7 DEF Position
<1>18. QED
  BY <1>15, <1>16, <1>17

LEMMA HeldBackIsTrue ==
  ASSUME IInv, host.running, NEW n \in PoolNames
  PROVE  HeldBack(local, n) =
           Cardinality({r \in InLocal :
             \/ Cap[r] = n
             \/ n \in Names(LocalChain(r)) /\ Full(local, Running, LocalChain, n)})
<1>1. PICK q, m : q = local.queue /\ m = Len(local.queue)
  OBVIOUS
<1>2. /\ m \in Nat
      /\ \A i \in 1..m : /\ q[i].ticket \in DOMAIN waiting
                         /\ waiting[q[i].ticket] \in InLocal
                         /\ q[i].chain = LocalChain(waiting[q[i].ticket])
                         /\ Head(q[i].chain) = Cap[waiting[q[i].ticket]]
      /\ \A u \in DOMAIN waiting : \E i \in 1..m : q[i].ticket = u
      /\ \A i, j \in 1..m : q[i].ticket = q[j].ticket => i = j
  BY <1>1, PlacesInLine
<1>3. /\ \A t, u \in DOMAIN waiting : waiting[t] = waiting[u] => t = u
      /\ {waiting[t] : t \in DOMAIN waiting} = InLocal
      /\ local \in PoolStates /\ Listed(local) = PoolNames
      /\ Counted(local, Usage(Running, LocalChains)) /\ Running \in SUBSET Requests
  BY DEF IInv, TypeInv, LocalInv, Running
<1>4. Full(local, Running, LocalChain, n) <=> Knows(local, n) /\ ~PoolHasRoom(PoolNamed(local, n))
  <2>1. PICK k \in 1..Len(local.pools) : PoolNamed(local, n) = local.pools[k] /\ local.pools[k].name = n
    BY <1>3, PoolIsFound
  <2>2. Knows(local, n)
    BY <1>3, PoolIsFound
  <2>3. PICK count : count = Usage(Running, LocalChains)[n]
    OBVIOUS
  <2>4. local.pools[k].active = count /\ count \in Nat /\ local.pools[k].capacity \in Nat
    BY <1>3, <2>1, <2>3, PoolStateParts DEF Counted
  <2>5. PoolHasRoom(local.pools[k]) <=> ~(local.pools[k].capacity # 0 /\ count >= local.pools[k].capacity)
    BY <2>4 DEF PoolHasRoom
  <2>6. Full(local, Running, LocalChain, n) <=> IsFull(local, Usage(Running, LocalChains), n)
    BY <1>3, LocalCount
  <2>7. QED
    BY <2>1, <2>2, <2>3, <2>5, <2>6 DEF IsFull
<1>5. PICK I, f : /\ I = {i \in 1..m : IsHeldBack(local, q[i], n)}
                  /\ f = [i \in 1..m |-> waiting[q[i].ticket]]
  OBVIOUS
<1>6. ASSUME NEW i \in 1..m
      PROVE  i \in I <=> \/ Cap[f[i]] = n
                         \/ n \in Names(LocalChain(f[i])) /\ Full(local, Running, LocalChain, n)
  BY <1>2, <1>4, <1>5 DEF IsHeldBack
<1>7. {f[i] : i \in I} = {r \in InLocal :
             \/ Cap[r] = n
             \/ n \in Names(LocalChain(r)) /\ Full(local, Running, LocalChain, n)}
  <2>1. \A i \in I : i \in 1..m /\ f[i] \in InLocal
    BY <1>2, <1>5
  <2>2. ASSUME NEW r \in InLocal PROVE \E i \in 1..m : f[i] = r
    <3>1. PICK t \in DOMAIN waiting : waiting[t] = r
      BY <1>3
    <3>2. PICK i \in 1..m : q[i].ticket = t
      BY <1>2
    <3>3. f[i] = r
      BY <1>5, <3>1, <3>2
    <3>4. QED
      BY <3>3
  <2>3. PICK B : B = {r \in InLocal :
             \/ Cap[r] = n
             \/ n \in Names(LocalChain(r)) /\ Full(local, Running, LocalChain, n)}
    OBVIOUS
  <2>4. \A i \in I : f[i] \in B
    BY <1>6, <2>1, <2>3
  <2>5. \A r \in B : \E i \in I : f[i] = r
    BY <1>6, <2>2, <2>3
  <2>6. {f[i] : i \in I} = B
    BY <2>4, <2>5
  <2>7. QED
    BY <2>3, <2>6
<1>8. IsFiniteSet(I)
  <2>1. IsFiniteSet(1..m)
    <3>1. 1 \in Int /\ m \in Int
      BY <1>2
    <3>2. QED
      BY <3>1, FS_Interval
  <2>2. I \subseteq 1..m
    BY <1>5
  <2>3. QED
    BY <2>1, <2>2, FS_Subset
<1>9. \A i, j \in I : f[i] = f[j] => i = j
  BY <1>2, <1>3, <1>5
<1>10. Cardinality({f[i] : i \in I}) = Cardinality(I)
  BY <1>8, <1>9, AsManyImages
<1>11. HeldBack(local, n) = Cardinality(I)
  BY <1>1, <1>5 DEF HeldBack
<1>12. QED
  BY <1>7, <1>10, <1>11

(***************************************************************************)
(* What the kernel answers whoever asks about a line is what the line,     *)
(* read as a set, says: a waiter's position among those of its own cap,    *)
(* how many each pool holds back (HeldBackIsTrue says it of waiters whose  *)
(* own pool is full too), and whom to admit, all of them and within every  *)
(* limit (CapDAG-Bifaci-Pools.c:726-739, 919-960, 1180-1330,  *)
(* which cartridge_runtime.py:608-627 and the controller ask).             *)
(***************************************************************************)
THEOREM TheAnswersAreTrue == Spec => []AnswersAreTrue
<1>1. Init => IInv
  BY InitHolds
<1>2. IInv /\ [Next]_vars => IInv'
  BY Inductive
<1>3. IInv => AnswersAreTrue
  <2>1. IInv => FiguresAreTrue
    BY PositionIsTrue, HeldBackIsTrue DEF FiguresAreTrue
  <2>2. QED
    BY <2>1, AllSettle DEF AnswersAreTrue
<1>4. QED
  BY <1>1, <1>2, <1>3, PTL DEF Spec
=============================================================================
