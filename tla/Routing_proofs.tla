--------------------------- MODULE Routing_proofs ---------------------------
(***************************************************************************)
(* Proofs about Routing for every table, request and set of three or more  *)
(* values: a pass over sorted tags is the relation, the executable         *)
(* questions are the defined ones, a request goes to the nearest cap that  *)
(* serves it, and what is sent to a master is handled there.               *)
(*                                                                         *)
(* The recursive functions of the model (MergeWith, TagsScore, Select,     *)
(* ExecSelect, and FlattenSeq under Table) are unfolded by showing that    *)
(* their recursion has a solution, and only one.                           *)
(***************************************************************************)
EXTENDS Routing, Caps_proofs, FiniteSetTheorems, TLAPS

-----------------------------------------------------------------------------
(***************************************************************************)
(* Recursion over a list: it has a solution, and what holds at the start   *)
(* and is kept by each step holds at the end.                              *)
(***************************************************************************)
LEMMA LeastOf ==
  ASSUME NEW S \in SUBSET Nat, S # {}
  PROVE  \E n \in S : \A m \in S : n <= m
<1>1. \E n \in S : \A m \in S : ~ (<<m, n>> \in OpToRel(<, Nat))
  BY NatLessThanWellFounded, WFMin
<1>2. PICK n \in S : \A m \in S : ~ (<<m, n>> \in OpToRel(<, Nat))
  BY <1>1
<1>3. \A m \in S : ~ (m < n)
  BY <1>2 DEF OpToRel
<1>4. QED
  BY <1>3

(* f goes from base by the steps of g. *)
Goes(f, n, base, g) ==
  /\ f[0] = base
  /\ \A x \in 1..n : f[x] = g[<<x, f[x - 1]>>]

LEMMA Recursion ==
  ASSUME NEW D, NEW n \in Nat, NEW base \in D, NEW g \in [(1..n) \X D -> D]
  PROVE  \E f \in [0..n -> D] : Goes(f, n, base, g)
<1> DEFINE S == {k \in 0..n : ~ \E f \in [0..k -> D] : Goes(f, k, base, g)}
<1>1. SUFFICES ASSUME S # {} PROVE FALSE
  <2>1. n \in 0..n
    OBVIOUS
  <2>2. QED
    BY <2>1
<1>2. PICK k \in S : \A m \in S : k <= m
  <2>1. S \in SUBSET Nat
    OBVIOUS
  <2> HIDE DEF S
  <2>2. QED
    BY <1>1, <2>1, LeastOf
<1>3. k \in 0..n /\ ~ \E f \in [0..k -> D] : Goes(f, k, base, g)
  OBVIOUS
<1>4. k # 0
  <2>1. [x \in 0..0 |-> base] \in [0..0 -> D] /\ Goes([x \in 0..0 |-> base], 0, base, g)
    BY DEF Goes
  <2>2. QED
    BY <1>3, <2>1
<1>5. k - 1 \in 0..n /\ k - 1 \notin S
  <2>1. k - 1 \in 0..n /\ ~ (k <= k - 1)
    BY <1>3, <1>4
  <2> HIDE DEF S
  <2>2. QED
    BY <1>2, <2>1
<1>6. PICK h \in [0..(k - 1) -> D] : Goes(h, k - 1, base, g)
  BY <1>5
<1> DEFINE f == [x \in 0..k |-> IF x = k THEN g[<<k, h[k - 1]>>] ELSE h[x]]
<1>7. k - 1 \in 0..(k - 1) /\ k \in 1..n /\ \A x \in 0..k : x # k => x \in 0..(k - 1)
  BY <1>3, <1>4
<1>8. f \in [0..k -> D]
  <2>1. g[<<k, h[k - 1]>>] \in D
    BY <1>7
  <2>2. QED
    BY <1>7, <2>1
<1>9. Goes(f, k, base, g)
  <2>1. f[0] = base
    BY <1>3, <1>4, <1>6 DEF Goes
  <2>2. ASSUME NEW x \in 1..k
        PROVE  f[x] = g[<<x, f[x - 1]>>]
    <3>1. x - 1 \in 0..k /\ x - 1 # k /\ x \in 0..k
      BY <1>3
    <3>2. f[x - 1] = h[x - 1]
      BY <3>1
    <3>3. CASE x = k
      BY <3>1, <3>2, <3>3
    <3>4. CASE x # k
      <4>1. x \in 1..(k - 1)
        BY <1>3, <3>4
      <4>2. h[x] = g[<<x, h[x - 1]>>]
        BY <1>6, <4>1 DEF Goes
      <4>3. f[x] = h[x]
        BY <3>1, <3>4
      <4>4. QED
        BY <3>2, <4>2, <4>3
    <3>5. QED
      BY <3>3, <3>4
  <2> HIDE DEF f
  <2>3. QED
    BY <2>1, <2>2 DEF Goes
<1>10. QED
  BY <1>3, <1>8, <1>9

LEMMA StepByStep ==
  ASSUME NEW n \in Nat, NEW f, NEW J, f[0] \in J[0],
         \A x \in 1..n : f[x - 1] \in J[x - 1] => f[x] \in J[x]
  PROVE  \A x \in 0..n : f[x] \in J[x]
<1> DEFINE S == {x \in 0..n : f[x] \notin J[x]}
<1>1. SUFFICES ASSUME S # {} PROVE FALSE
  OBVIOUS
<1>2. PICK x \in S : \A m \in S : x <= m
  <2>1. S \in SUBSET Nat
    OBVIOUS
  <2> HIDE DEF S
  <2>2. QED
    BY <1>1, <2>1, LeastOf
<1>3. x \in 0..n /\ f[x] \notin J[x] /\ x # 0
  OBVIOUS
<1>4. x - 1 \in 0..n /\ ~ (x <= x - 1) /\ x \in 1..n
  BY <1>3
<1>5. f[x - 1] \in J[x - 1]
  BY <1>2, <1>4
<1>6. QED
  BY <1>3, <1>4, <1>5

Flattens(f, seqs, n) ==
  f = [q \in 1 .. n |-> IF q = 1 THEN seqs[q] ELSE f[q - 1] \o seqs[q]]

LEMMA FlatExists ==
  ASSUME NEW seqs, NEW n \in Nat
  PROVE  \E f : Flattens(f, seqs, n)
<1> DEFINE S == {k \in Nat : \A f : ~Flattens(f, seqs, k)}
<1>1. SUFFICES ASSUME S # {} PROVE FALSE
  OBVIOUS
<1>2. PICK k \in S : \A m \in S : k <= m
  <2>1. S \in SUBSET Nat
    OBVIOUS
  <2> HIDE DEF S
  <2>2. QED
    BY <1>1, <2>1, LeastOf
<1>3. k \in Nat /\ \A f : ~Flattens(f, seqs, k)
  OBVIOUS
<1>4. k # 0
  <2>1. 1 .. 0 = {}
    OBVIOUS
  <2>2. Flattens([q \in 1 .. 0 |-> 0], seqs, 0)
    BY <2>1 DEF Flattens
  <2>3. QED
    BY <1>3, <2>2
<1>5. k - 1 \in Nat /\ k - 1 \notin S
  <2>1. k - 1 \in Nat /\ ~ (k <= k - 1)
    BY <1>3, <1>4
  <2> HIDE DEF S
  <2>2. QED
    BY <1>2, <2>1
<1>6. PICK g : Flattens(g, seqs, k - 1)
  BY <1>5
<1> DEFINE f == [q \in 1 .. k |-> IF q < k THEN g[q]
                                  ELSE IF q = 1 THEN seqs[q] ELSE g[q - 1] \o seqs[q]]
<1>7. ASSUME NEW q \in 1 .. k
      PROVE  f[q] = IF q = 1 THEN seqs[q] ELSE f[q - 1] \o seqs[q]
  <2>1. CASE q = k
    <3>1. q # 1 => q - 1 \in 1 .. k /\ q - 1 < k
      BY <1>3, <2>1
    <3>2. q # 1 => f[q - 1] = g[q - 1]
      BY <3>1
    <3>3. QED
      BY <2>1, <3>2
  <2>2. CASE q # k
    <3>1. q < k /\ q \in 1 .. (k - 1) /\ (q # 1 => q - 1 \in 1 .. k /\ q - 1 < k)
      BY <1>3, <2>2
    <3>2. f[q] = g[q] /\ (q # 1 => f[q - 1] = g[q - 1])
      BY <3>1
    <3>3. g[q] = IF q = 1 THEN seqs[q] ELSE g[q - 1] \o seqs[q]
      BY <1>6, <3>1 DEF Flattens
    <3>4. QED
      BY <3>2, <3>3
  <2>3. QED
    BY <2>1, <2>2
<1>8. f = [q \in 1 .. k |-> f[q]]
  OBVIOUS
<1> HIDE DEF f
<1>9. Flattens(f, seqs, k)
  BY <1>7, <1>8 DEF Flattens
<1>10. QED
  BY <1>3, <1>9

LEMMA FlattenUnfolds ==
  ASSUME NEW seqs, Len(seqs) \in Nat, Len(seqs) # 0
  PROVE  \E f : Flattens(f, seqs, Len(seqs)) /\ FlattenSeq(seqs) = f[Len(seqs)]
<1>1. Len(seqs) \in Nat
  OBVIOUS
<1> DEFINE F == CHOOSE f : Flattens(f, seqs, Len(seqs))
<1>2. Flattens(F, seqs, Len(seqs))
  BY <1>1, FlatExists
<1>3. FlattenSeq(seqs) = F[Len(seqs)]
  BY DEF FlattenSeq, Flattens
<1>4. QED
  BY <1>2, <1>3

LEMMA FlattenEmpty == FlattenSeq(<<>>) = <<>>
BY DEF FlattenSeq

LEMMA FlattenType ==
  ASSUME NEW D, NEW seqs \in Seq(Seq(D))
  PROVE  FlattenSeq(seqs) \in Seq(D)
<1> DEFINE n == Len(seqs)
<1>1. n \in Nat /\ \A q \in 1 .. n : seqs[q] \in Seq(D)
  OBVIOUS
<1>2. CASE n = 0
  <2>1. seqs = <<>>
    BY <1>2
  <2>2. FlattenSeq(seqs) = <<>>
    BY <2>1, FlattenEmpty
  <2>3. QED
    BY <2>2
<1>3. CASE n # 0
  <2>1. PICK f : Flattens(f, seqs, n) /\ FlattenSeq(seqs) = f[n]
    BY <1>3, FlattenUnfolds
  <2> HIDE DEF n
  <2> DEFINE S == {q \in 1 .. n : f[q] \notin Seq(D)}
  <2>2. S = {}
    <3> SUFFICES ASSUME S # {} PROVE FALSE
      OBVIOUS
    <3>1. PICK q \in S : \A m \in S : q <= m
      <4>1. S \in SUBSET Nat
        OBVIOUS
      <4> HIDE DEF S
      <4>2. QED
        BY <4>1, LeastOf
    <3>2. q \in 1 .. n /\ f[q] \notin Seq(D)
      OBVIOUS
    <3>3. f[q] = IF q = 1 THEN seqs[q] ELSE f[q - 1] \o seqs[q]
      BY <2>1, <3>2 DEF Flattens
    <3>4. q # 1 => q - 1 \in 1 .. n /\ ~ (q <= q - 1)
      BY <1>1, <3>2
    <3>5. q # 1 => f[q - 1] \in Seq(D)
      BY <3>1, <3>4
    <3>6. seqs[q] \in Seq(D)
      BY <1>1, <3>2
    <3>7. q # 1 => f[q - 1] \o seqs[q] \in Seq(D)
      BY <3>5, <3>6
    <3>8. QED
      BY <3>2, <3>3, <3>6, <3>7
  <2>3. n \in 1 .. n
    BY <1>1, <1>3
  <2>4. QED
    BY <2>1, <2>2, <2>3
<1>4. QED
  BY <1>2, <1>3
Relations == {"refines", "meets", "refinesClosed", "meetsClosed"}

Lists == TagLists(Values)

Holds(k) == Test(rel, Lookup(inst, k), Lookup(patt, k))

ListsInv ==
  /\ rel \in Relations /\ inst \in Lists /\ patt \in Lists
  /\ i \in 1 .. (Len(inst) + 1) /\ j \in 1 .. (Len(patt) + 1)
  /\ answer \in {"none", "yes", "no"}

(* What was read of either list is before what is left of the other.       *)
ApartInv ==
  /\ \A m \in 1 .. (i - 1), n \in j .. Len(patt) : inst[m].key < patt[n].key
  /\ \A n \in 1 .. (j - 1), m \in i .. Len(inst) : patt[n].key < inst[m].key

(* While the pass runs, every key it has read holds.                       *)
ReadInv ==
  answer = "none" =>
    /\ \A m \in 1 .. (i - 1) : Holds(inst[m].key)
    /\ \A n \in 1 .. (j - 1) : Holds(patt[n].key)

PassInv == ListsInv /\ ApartInv /\ ReadInv /\ AnswerIsRelation
-----------------------------------------------------------------------------
(***************************************************************************)
(* In a sorted list an entry is what is found under its key, and a key     *)
(* that no entry has is missing.                                           *)
(***************************************************************************)
LEMMA ListFacts ==
  ASSUME NEW tags \in Lists
  PROVE  /\ Len(tags) \in Nat /\ DOMAIN tags = 1 .. Len(tags)
         /\ \A m \in 1 .. Len(tags) : tags[m].key \in Int
         /\ \A m, n \in 1 .. Len(tags) : m < n => tags[m].key < tags[n].key
<1> DEFINE Entries == [key : Int, con : Constraints(Values)]
<1>1. tags \in Seq(Entries) /\ Sorted(tags)
  BY DEF Lists, TagLists
<1> HIDE DEF Entries
<1>2. Len(tags) \in Nat /\ DOMAIN tags = 1 .. Len(tags)
  BY <1>1
<1>3. \A m \in 1 .. Len(tags) : tags[m] \in Entries
  BY <1>1
<1>4. \A m \in 1 .. Len(tags) : tags[m].key \in Int
  BY <1>3 DEF Entries
<1>5. QED
  BY <1>1, <1>2, <1>4 DEF Sorted

LEMMA LookupEntry ==
  ASSUME NEW tags \in Lists, NEW m \in 1 .. Len(tags)
  PROVE  Lookup(tags, tags[m].key) = tags[m].con
<1> DEFINE k == tags[m].key
           IsFirst(n) == tags[n].key = k /\ \A l \in 1 .. (n - 1) : tags[l].key # k
<1>1. k \in KeysOf(tags) /\ m \in DOMAIN tags
  BY ListFacts DEF KeysOf
<1>2. IsFirst(m)
  BY ListFacts
<1>3. \A n \in DOMAIN tags : IsFirst(n) => n = m
  BY ListFacts
<1>4. (CHOOSE n \in DOMAIN tags : IsFirst(n)) = m
  BY <1>1, <1>2, <1>3
<1>5. QED
  BY <1>1, <1>4 DEF Lookup

LEMMA LookupMissing ==
  ASSUME NEW tags, NEW k, k \notin KeysOf(tags)
  PROVE  Lookup(tags, k) = Missing
BY DEF Lookup

LEMMA KeyIsOfEntry ==
  ASSUME NEW tags \in Lists, NEW k
  PROVE  k \in KeysOf(tags) <=> \E m \in 1 .. Len(tags) : tags[m].key = k
BY ListFacts DEF KeysOf

(***************************************************************************)
(* What is left of one list can be in the other only where that is left.   *)
(***************************************************************************)
LEMMA KeysLeft ==
  ASSUME ListsInv, ApartInv
  PROVE  /\ \A n \in j .. Len(patt) : patt[n].key \in KeysOf(inst) =>
              \E m \in i .. Len(inst) : inst[m].key = patt[n].key
         /\ \A m \in i .. Len(inst) : inst[m].key \in KeysOf(patt) =>
              \E n \in j .. Len(patt) : patt[n].key = inst[m].key
<1>1. /\ Len(inst) \in Nat /\ i \in 1 .. (Len(inst) + 1)
      /\ Len(patt) \in Nat /\ j \in 1 .. (Len(patt) + 1)
      /\ \A m \in 1 .. Len(inst) : inst[m].key \in Int
      /\ \A n \in 1 .. Len(patt) : patt[n].key \in Int
  BY ListFacts DEF ListsInv
<1>2. ASSUME NEW n \in j .. Len(patt), NEW m \in 1 .. Len(inst), inst[m].key = patt[n].key
      PROVE  m \in i .. Len(inst)
  <2>1. m \notin 1 .. (i - 1)
    BY <1>1, <1>2 DEF ApartInv
  <2>2. QED
    BY <1>1, <2>1
<1>3. ASSUME NEW m \in i .. Len(inst), NEW n \in 1 .. Len(patt), inst[m].key = patt[n].key
      PROVE  n \in j .. Len(patt)
  <2>1. n \notin 1 .. (j - 1)
    BY <1>1, <1>3 DEF ApartInv
  <2>2. QED
    BY <1>1, <2>1
<1>4. QED
  BY <1>2, <1>3, KeyIsOfEntry DEF ListsInv

(***************************************************************************)
(* Each step of the pass.                                                  *)
(***************************************************************************)
LEMMA StartInv ==
  ASSUME NEW r \in Relations, NEW a \in Lists, NEW b \in Lists, StartMerge(r, a, b)
  PROVE  PassInv'
<1>1. ListsInv'
  BY ListFacts DEF StartMerge, ListsInv
<1>2. ApartInv' /\ ReadInv' /\ AnswerIsRelation'
  BY DEF StartMerge, ApartInv, ReadInv, AnswerIsRelation
<1>3. QED
  BY <1>1, <1>2 DEF PassInv

LEMMA InstEndsInv ==
  ASSUME PassInv, InstEnds
  PROVE  PassInv'
<1> USE DEF PassInv
<1>1. /\ answer = "none" /\ i = Len(inst) + 1
      /\ UNCHANGED <<rel, inst, patt, i, j>>
      /\ answer' = IF \A n \in j .. Len(patt) : Test(rel, Missing, patt[n].con)
                   THEN "yes" ELSE "no"
  BY ListFacts DEF InstEnds, Running, ListsInv
<1>2. ASSUME NEW n \in j .. Len(patt)
      PROVE  /\ patt[n].key \in KeysOf(patt)
             /\ Holds(patt[n].key) <=> Test(rel, Missing, patt[n].con)
  <2>1. n \in 1 .. Len(patt)
    BY ListFacts DEF ListsInv
  <2>2. patt[n].key \notin KeysOf(inst)
    <3>1. Len(inst) \in Nat
      BY ListFacts DEF ListsInv
    <3>2. i .. Len(inst) = {}
      BY <1>1, <3>1
    <3>3. QED
      BY <3>2, KeysLeft
  <2>3. QED
    BY <2>1, <2>2, LookupEntry, LookupMissing, KeyIsOfEntry DEF Holds, ListsInv
<1>3. CASE \A n \in j .. Len(patt) : Test(rel, Missing, patt[n].con)
  <2>1. \A m \in 1 .. Len(inst) : Holds(inst[m].key)
    BY <1>1, ListFacts DEF ReadInv, ListsInv
  <2>2. \A n \in 1 .. Len(patt) : Holds(patt[n].key)
    BY <1>1, <1>2, <1>3, ListFacts DEF ReadInv, ListsInv
  <2>3. Related
    BY <2>1, <2>2, KeyIsOfEntry DEF Related, Holds, ListsInv
  <2>4. answer' = "yes" /\ Related'
    BY <1>1, <1>3, <2>3 DEF Related
  <2>5. QED
    BY <1>1, <2>4 DEF ListsInv, ApartInv, ReadInv, AnswerIsRelation
<1>4. CASE ~ \A n \in j .. Len(patt) : Test(rel, Missing, patt[n].con)
  <2>1. ~Related
    BY <1>2, <1>4 DEF Related, Holds
  <2>2. answer' = "no" /\ ~Related'
    BY <1>1, <1>4, <2>1 DEF Related
  <2>3. QED
    BY <1>1, <2>2 DEF ListsInv, ApartInv, ReadInv, AnswerIsRelation
<1>5. QED
  BY <1>3, <1>4

LEMMA PattEndsInv ==
  ASSUME PassInv, PattEnds
  PROVE  PassInv'
<1> USE DEF PassInv
<1>1. /\ answer = "none" /\ j = Len(patt) + 1
      /\ UNCHANGED <<rel, inst, patt, i, j>>
      /\ answer' = IF \A n \in i .. Len(inst) : Test(rel, inst[n].con, Missing)
                   THEN "yes" ELSE "no"
  BY ListFacts DEF PattEnds, Running, ListsInv
<1>2. ASSUME NEW n \in i .. Len(inst)
      PROVE  /\ inst[n].key \in KeysOf(inst)
             /\ Holds(inst[n].key) <=> Test(rel, inst[n].con, Missing)
  <2>1. n \in 1 .. Len(inst)
    BY ListFacts DEF ListsInv
  <2>2. inst[n].key \notin KeysOf(patt)
    <3>1. Len(patt) \in Nat
      BY ListFacts DEF ListsInv
    <3>2. j .. Len(patt) = {}
      BY <1>1, <3>1
    <3>3. QED
      BY <3>2, KeysLeft
  <2>3. QED
    BY <2>1, <2>2, LookupEntry, LookupMissing, KeyIsOfEntry DEF Holds, ListsInv
<1>3. CASE \A n \in i .. Len(inst) : Test(rel, inst[n].con, Missing)
  <2>1. \A n \in 1 .. Len(patt) : Holds(patt[n].key)
    BY <1>1, ListFacts DEF ReadInv, ListsInv
  <2>2. \A m \in 1 .. Len(inst) : Holds(inst[m].key)
    BY <1>1, <1>2, <1>3, ListFacts DEF ReadInv, ListsInv
  <2>3. Related
    BY <2>1, <2>2, KeyIsOfEntry DEF Related, Holds, ListsInv
  <2>4. answer' = "yes" /\ Related'
    BY <1>1, <1>3, <2>3 DEF Related
  <2>5. QED
    BY <1>1, <2>4 DEF ListsInv, ApartInv, ReadInv, AnswerIsRelation
<1>4. CASE ~ \A n \in i .. Len(inst) : Test(rel, inst[n].con, Missing)
  <2>1. ~Related
    BY <1>2, <1>4 DEF Related, Holds
  <2>2. answer' = "no" /\ ~Related'
    BY <1>1, <1>4, <2>1 DEF Related
  <2>3. QED
    BY <1>1, <2>2 DEF ListsInv, ApartInv, ReadInv, AnswerIsRelation
<1>5. QED
  BY <1>3, <1>4

(***************************************************************************)
(* A step that reads the keys k decides by whether they hold.              *)
(***************************************************************************)
LEMMA VerdictInv ==
  ASSUME ListsInv, ReadInv, answer = "none", NEW k \in KeysOf(inst) \cup KeysOf(patt),
         UNCHANGED <<rel, inst, patt>>, answer' = Verdict(Holds(k)),
         \A m \in 1 .. (i' - 1) : m \in 1 .. (i - 1) \/ inst[m].key = k,
         \A n \in 1 .. (j' - 1) : n \in 1 .. (j - 1) \/ patt[n].key = k
  PROVE  ReadInv' /\ AnswerIsRelation'
<1>1. \A key : Holds(key)' <=> Holds(key)
  BY DEF Holds
<1>2. CASE Holds(k)
  <2>1. answer' = "none"
    BY <1>2 DEF Verdict
  <2>2. ReadInv'
    BY <1>1, <1>2 DEF ReadInv
  <2>3. QED
    BY <2>1, <2>2 DEF AnswerIsRelation
<1>3. CASE ~Holds(k)
  <2>1. answer' = "no"
    BY <1>3 DEF Verdict
  <2>2. ~Related'
    BY <1>3 DEF Related, Holds
  <2>3. QED
    BY <2>1, <2>2 DEF ReadInv, AnswerIsRelation
<1>4. QED
  BY <1>2, <1>3

LEMMA InstFirstInv ==
  ASSUME PassInv, InstFirst
  PROVE  PassInv'
<1> USE DEF PassInv
<1>1. /\ answer = "none" /\ i \in 1 .. Len(inst) /\ j \in 1 .. Len(patt)
      /\ inst[i].key < patt[j].key
      /\ i' = i + 1 /\ UNCHANGED <<rel, inst, patt, j>>
      /\ answer' = Verdict(Test(rel, inst[i].con, Missing))
  BY ListFacts DEF InstFirst, BothLeft, Running, ListsInv
<1>2. inst[i].key \in KeysOf(inst)
  BY <1>1, KeyIsOfEntry DEF ListsInv
<1>3. /\ Len(inst) \in Nat /\ \A m \in 1 .. Len(inst) : inst[m].key \in Int
      /\ Len(patt) \in Nat /\ \A n \in 1 .. Len(patt) : patt[n].key \in Int
      /\ \A m, n \in 1 .. Len(inst) : m < n => inst[m].key < inst[n].key
      /\ \A m, n \in 1 .. Len(patt) : m < n => patt[m].key < patt[n].key
  BY ListFacts DEF ListsInv
<1>4. \A n \in j .. Len(patt) : inst[i].key < patt[n].key
  <2> SUFFICES ASSUME NEW n \in j .. Len(patt) PROVE inst[i].key < patt[n].key
    OBVIOUS
  <2>1. n = j \/ patt[j].key < patt[n].key
    BY <1>1, <1>3
  <2>2. n \in 1 .. Len(patt) /\ inst[i].key \in Int /\ patt[j].key \in Int /\ patt[n].key \in Int
    BY <1>1, <1>3
  <2>3. QED
    BY <1>1, <2>1, <2>2
<1>5. inst[i].key \notin KeysOf(patt)
  <2>1. i \in i .. Len(inst)
    BY <1>1, <1>3
  <2>2. \A n \in j .. Len(patt) : patt[n].key # inst[i].key
    BY <1>1, <1>3, <1>4
  <2>3. QED
    BY <2>1, <2>2, KeysLeft
<1>6. answer' = Verdict(Holds(inst[i].key))
  BY <1>1, <1>5, LookupEntry, LookupMissing DEF Holds, ListsInv
<1>7. ListsInv'
  BY <1>1, ListFacts DEF ListsInv, Verdict
<1>8. ApartInv'
  <2>1. ASSUME NEW m \in 1 .. i, NEW n \in j .. Len(patt)
        PROVE  inst[m].key < patt[n].key
    <3>1. CASE m = i
      BY <1>4, <3>1
    <3>2. CASE m # i
      <4>1. m \in 1 .. (i - 1)
        BY <1>1, <1>3, <3>2
      <4>2. QED
        BY <4>1 DEF ApartInv
    <3>3. QED
      BY <3>1, <3>2
  <2>2. ASSUME NEW n \in 1 .. (j - 1), NEW m \in (i + 1) .. Len(inst)
        PROVE  patt[n].key < inst[m].key
    <3>1. m \in i .. Len(inst)
      BY <1>1, <1>3
    <3>2. QED
      BY <3>1 DEF ApartInv
  <2>3. i' - 1 = i
    BY <1>1, <1>3
  <2>4. QED
    BY <1>1, <2>1, <2>2, <2>3 DEF ApartInv
<1>9. ReadInv' /\ AnswerIsRelation'
  BY <1>1, <1>2, <1>6, VerdictInv DEF ListsInv
<1>10. QED
  BY <1>7, <1>8, <1>9

LEMMA PattFirstInv ==
  ASSUME PassInv, PattFirst
  PROVE  PassInv'
<1> USE DEF PassInv
<1>1. /\ answer = "none" /\ i \in 1 .. Len(inst) /\ j \in 1 .. Len(patt)
      /\ patt[j].key < inst[i].key
      /\ j' = j + 1 /\ UNCHANGED <<rel, inst, patt, i>>
      /\ answer' = Verdict(Test(rel, Missing, patt[j].con))
  BY ListFacts DEF PattFirst, BothLeft, Running, ListsInv
<1>2. patt[j].key \in KeysOf(patt)
  BY <1>1, KeyIsOfEntry DEF ListsInv
<1>3. /\ Len(inst) \in Nat /\ \A m \in 1 .. Len(inst) : inst[m].key \in Int
      /\ Len(patt) \in Nat /\ \A n \in 1 .. Len(patt) : patt[n].key \in Int
      /\ \A m, n \in 1 .. Len(inst) : m < n => inst[m].key < inst[n].key
      /\ \A m, n \in 1 .. Len(patt) : m < n => patt[m].key < patt[n].key
  BY ListFacts DEF ListsInv
<1>4. \A n \in i .. Len(inst) : patt[j].key < inst[n].key
  <2> SUFFICES ASSUME NEW n \in i .. Len(inst) PROVE patt[j].key < inst[n].key
    OBVIOUS
  <2>1. n = i \/ inst[i].key < inst[n].key
    BY <1>1, <1>3
  <2>2. n \in 1 .. Len(inst) /\ patt[j].key \in Int /\ inst[i].key \in Int /\ inst[n].key \in Int
    BY <1>1, <1>3
  <2>3. QED
    BY <1>1, <2>1, <2>2
<1>5. patt[j].key \notin KeysOf(inst)
  <2>1. j \in j .. Len(patt)
    BY <1>1, <1>3
  <2>2. \A n \in i .. Len(inst) : inst[n].key # patt[j].key
    BY <1>1, <1>3, <1>4
  <2>3. QED
    BY <2>1, <2>2, KeysLeft
<1>6. answer' = Verdict(Holds(patt[j].key))
  BY <1>1, <1>5, LookupEntry, LookupMissing DEF Holds, ListsInv
<1>7. ListsInv'
  BY <1>1, ListFacts DEF ListsInv, Verdict
<1>8. ApartInv'
  <2>1. ASSUME NEW n \in 1 .. j, NEW m \in i .. Len(inst)
        PROVE  patt[n].key < inst[m].key
    <3>1. CASE n = j
      BY <1>4, <3>1
    <3>2. CASE n # j
      <4>1. n \in 1 .. (j - 1)
        BY <1>1, <1>3, <3>2
      <4>2. QED
        BY <4>1 DEF ApartInv
    <3>3. QED
      BY <3>1, <3>2
  <2>2. ASSUME NEW m \in 1 .. (i - 1), NEW n \in (j + 1) .. Len(patt)
        PROVE  inst[m].key < patt[n].key
    <3>1. n \in j .. Len(patt)
      BY <1>1, <1>3
    <3>2. QED
      BY <3>1 DEF ApartInv
  <2>3. j' - 1 = j
    BY <1>1, <1>3
  <2>4. QED
    BY <1>1, <2>1, <2>2, <2>3 DEF ApartInv
<1>9. ReadInv' /\ AnswerIsRelation'
  BY <1>1, <1>2, <1>6, VerdictInv DEF ListsInv
<1>10. QED
  BY <1>7, <1>8, <1>9

LEMMA SameKeyInv ==
  ASSUME PassInv, SameKey
  PROVE  PassInv'
<1> USE DEF PassInv
<1>1. /\ answer = "none" /\ i \in 1 .. Len(inst) /\ j \in 1 .. Len(patt)
      /\ inst[i].key = patt[j].key
      /\ i' = i + 1 /\ j' = j + 1 /\ UNCHANGED <<rel, inst, patt>>
      /\ answer' = Verdict(Test(rel, inst[i].con, patt[j].con))
  BY ListFacts DEF SameKey, BothLeft, Running, ListsInv
<1>2. inst[i].key \in KeysOf(inst)
  BY <1>1, KeyIsOfEntry DEF ListsInv
<1>3. answer' = Verdict(Holds(inst[i].key))
  BY <1>1, LookupEntry DEF Holds, ListsInv
<1>4. ListsInv'
  <2>1. /\ i + 1 \in 1 .. (Len(inst) + 1) /\ j + 1 \in 1 .. (Len(patt) + 1)
        /\ rel \in Relations /\ inst \in Lists /\ patt \in Lists
    BY <1>1, ListFacts DEF ListsInv
  <2>2. answer' \in {"none", "yes", "no"}
    BY <1>1 DEF Verdict
  <2>3. QED
    BY <1>1, <2>1, <2>2 DEF ListsInv
<1>5. ApartInv'
  <2>1. /\ Len(inst) \in Nat /\ \A m \in 1 .. Len(inst) : inst[m].key \in Int
        /\ Len(patt) \in Nat /\ \A n \in 1 .. Len(patt) : patt[n].key \in Int
        /\ \A m, n \in 1 .. Len(inst) : m < n => inst[m].key < inst[n].key
        /\ \A m, n \in 1 .. Len(patt) : m < n => patt[m].key < patt[n].key
    BY ListFacts DEF ListsInv
  <2>2. ASSUME NEW m \in 1 .. i, NEW n \in (j + 1) .. Len(patt)
        PROVE  inst[m].key < patt[n].key
    <3>1. n \in j .. Len(patt) /\ patt[j].key < patt[n].key
      BY <1>1, <2>1
    <3>2. CASE m = i
      BY <1>1, <3>1, <3>2
    <3>3. CASE m # i
      <4>1. m \in 1 .. (i - 1)
        BY <1>1, <2>1, <3>3
      <4>2. QED
        BY <3>1, <4>1 DEF ApartInv
    <3>4. QED
      BY <3>2, <3>3
  <2>3. ASSUME NEW n \in 1 .. j, NEW m \in (i + 1) .. Len(inst)
        PROVE  patt[n].key < inst[m].key
    <3>1. m \in i .. Len(inst) /\ inst[i].key < inst[m].key
      BY <1>1, <2>1
    <3>2. CASE n = j
      BY <1>1, <3>1, <3>2
    <3>3. CASE n # j
      <4>1. n \in 1 .. (j - 1)
        BY <1>1, <2>1, <3>3
      <4>2. QED
        BY <3>1, <4>1 DEF ApartInv
    <3>4. QED
      BY <3>2, <3>3
  <2>4. i' - 1 = i /\ j' - 1 = j
    BY <1>1, <2>1
  <2>5. QED
    BY <1>1, <2>2, <2>3, <2>4 DEF ApartInv
<1>6. ReadInv' /\ AnswerIsRelation'
  BY <1>1, <1>2, <1>3, VerdictInv DEF ListsInv
<1>7. QED
  BY <1>4, <1>5, <1>6

LEMMA PassStep ==
  ASSUME PassInv, MergeStep
  PROVE  PassInv'
BY InstEndsInv, PattEndsInv, InstFirstInv, PattFirstInv, SameKeyInv DEF MergeStep
-----------------------------------------------------------------------------
(***************************************************************************)
(* The pass as a function (mergeWith, TaggedUrn-Sorted.c 346-491): from    *)
(* any two places on, it answers for the keys that are left.  That answer  *)
(* solves the recursion, and the recursion has no other solution.          *)
(***************************************************************************)
LeftOf(list, n) == {list[q].key : q \in n .. Len(list)}

ConFrom(list, n, k) == IF k \in LeftOf(list, n) THEN Lookup(list, k) ELSE Missing

RestHolds(r, a, b, m, n) ==
  \A k \in LeftOf(a, m) \cup LeftOf(b, n) : Test(r, ConFrom(a, m, k), ConFrom(b, n, k))

LEMMA LeftFacts ==
  ASSUME NEW list \in Lists, NEW n \in 1 .. Len(list)
  PROVE  /\ LeftOf(list, n) = {list[n].key} \cup LeftOf(list, n + 1)
         /\ list[n].key \in Int
         /\ \A k \in LeftOf(list, n + 1) : k \in Int /\ list[n].key < k
         /\ ConFrom(list, n, list[n].key) = list[n].con
         /\ \A k : k # list[n].key => ConFrom(list, n, k) = ConFrom(list, n + 1, k)
<1>1. /\ Len(list) \in Nat
      /\ \A m \in 1 .. Len(list) : list[m].key \in Int
      /\ \A m, l \in 1 .. Len(list) : m < l => list[m].key < list[l].key
  BY ListFacts
<1>2. n .. Len(list) = {n} \cup (n + 1) .. Len(list)
  BY <1>1
<1>3. LeftOf(list, n) = {list[n].key} \cup LeftOf(list, n + 1)
  BY <1>2 DEF LeftOf
<1>4. ASSUME NEW q \in (n + 1) .. Len(list)
      PROVE  list[q].key \in Int /\ list[n].key < list[q].key
  <2>1. q \in 1 .. Len(list) /\ n < q
    BY <1>1
  <2>2. QED
    BY <1>1, <2>1
<1>5. \A k \in LeftOf(list, n + 1) : k \in Int /\ list[n].key < k
  BY <1>4 DEF LeftOf
<1>6. ConFrom(list, n, list[n].key) = list[n].con
  BY <1>3, LookupEntry DEF ConFrom
<1>7. \A k : k # list[n].key => ConFrom(list, n, k) = ConFrom(list, n + 1, k)
  BY <1>3 DEF ConFrom
<1>8. QED
  BY <1>1, <1>3, <1>5, <1>6, <1>7

LEMMA LeftNothing ==
  ASSUME NEW list \in Lists, NEW n \in Nat, n > Len(list)
  PROVE  LeftOf(list, n) = {} /\ \A k : ConFrom(list, n, k) = Missing
<1>1. n .. Len(list) = {}
  BY ListFacts
<1>2. LeftOf(list, n) = {}
  BY <1>1 DEF LeftOf
<1>3. QED
  BY <1>2 DEF ConFrom

LEMMA LeftEach ==
  ASSUME NEW list \in Lists, NEW n \in 1 .. (Len(list) + 1), NEW q \in n .. Len(list)
  PROVE  list[q].key \in LeftOf(list, n) /\ ConFrom(list, n, list[q].key) = list[q].con
<1>1. q \in 1 .. Len(list)
  BY ListFacts
<1>2. list[q].key \in LeftOf(list, n)
  BY DEF LeftOf
<1>3. QED
  BY <1>1, <1>2, LookupEntry DEF ConFrom

LEMMA RestInstEnds ==
  ASSUME NEW r, NEW a \in Lists, NEW b \in Lists,
         NEW m \in 1 .. (Len(a) + 1), NEW n \in 1 .. (Len(b) + 1), m > Len(a)
  PROVE  RestHolds(r, a, b, m, n) <=> \A k \in n .. Len(b) : Test(r, Missing, b[k].con)
<1>1. m \in Nat /\ LeftOf(a, m) = {} /\ \A k : ConFrom(a, m, k) = Missing
  BY LeftNothing, ListFacts
<1>2. \A q \in n .. Len(b) : /\ b[q].key \in LeftOf(b, n)
                             /\ ConFrom(b, n, b[q].key) = b[q].con
  BY LeftEach
<1>3. RestHolds(r, a, b, m, n) <=>
        \A k \in LeftOf(b, n) : Test(r, Missing, ConFrom(b, n, k))
  BY <1>1 DEF RestHolds
<1>4. QED
  BY <1>2, <1>3 DEF LeftOf

LEMMA RestPattEnds ==
  ASSUME NEW r, NEW a \in Lists, NEW b \in Lists,
         NEW m \in 1 .. (Len(a) + 1), NEW n \in 1 .. (Len(b) + 1), n > Len(b)
  PROVE  RestHolds(r, a, b, m, n) <=> \A k \in m .. Len(a) : Test(r, a[k].con, Missing)
<1>1. n \in Nat /\ LeftOf(b, n) = {} /\ \A k : ConFrom(b, n, k) = Missing
  BY LeftNothing, ListFacts
<1>2. \A q \in m .. Len(a) : /\ a[q].key \in LeftOf(a, m)
                             /\ ConFrom(a, m, a[q].key) = a[q].con
  BY LeftEach
<1>3. RestHolds(r, a, b, m, n) <=>
        \A k \in LeftOf(a, m) : Test(r, ConFrom(a, m, k), Missing)
  BY <1>1 DEF RestHolds
<1>4. QED
  BY <1>2, <1>3 DEF LeftOf

LEMMA RestInstFirst ==
  ASSUME NEW r, NEW a \in Lists, NEW b \in Lists,
         NEW m \in 1 .. Len(a), NEW n \in 1 .. Len(b), a[m].key < b[n].key
  PROVE  RestHolds(r, a, b, m, n) <=>
           Test(r, a[m].con, Missing) /\ RestHolds(r, a, b, m + 1, n)
<1> DEFINE k == a[m].key
<1>1. /\ LeftOf(a, m) = {k} \cup LeftOf(a, m + 1)
      /\ ConFrom(a, m, k) = a[m].con
      /\ \A x : x # k => ConFrom(a, m, x) = ConFrom(a, m + 1, x)
      /\ \A x \in LeftOf(a, m + 1) : x # k
  BY LeftFacts
<1>2. \A x \in LeftOf(b, n) : x # k
  <2>1. /\ LeftOf(b, n) = {b[n].key} \cup LeftOf(b, n + 1)
        /\ \A x \in LeftOf(b, n + 1) : x \in Int /\ b[n].key < x
        /\ b[n].key \in Int /\ k \in Int
    BY LeftFacts
  <2>2. QED
    BY <2>1
<1>3. ConFrom(b, n, k) = Missing
  BY <1>2 DEF ConFrom
<1> HIDE DEF k
<1>4. QED
  BY <1>1, <1>2, <1>3 DEF RestHolds, k

LEMMA RestPattFirst ==
  ASSUME NEW r, NEW a \in Lists, NEW b \in Lists,
         NEW m \in 1 .. Len(a), NEW n \in 1 .. Len(b), b[n].key < a[m].key
  PROVE  RestHolds(r, a, b, m, n) <=>
           Test(r, Missing, b[n].con) /\ RestHolds(r, a, b, m, n + 1)
<1> DEFINE k == b[n].key
<1>1. /\ LeftOf(b, n) = {k} \cup LeftOf(b, n + 1)
      /\ ConFrom(b, n, k) = b[n].con
      /\ \A x : x # k => ConFrom(b, n, x) = ConFrom(b, n + 1, x)
      /\ \A x \in LeftOf(b, n + 1) : x # k
  BY LeftFacts
<1>2. \A x \in LeftOf(a, m) : x # k
  <2>1. /\ LeftOf(a, m) = {a[m].key} \cup LeftOf(a, m + 1)
        /\ \A x \in LeftOf(a, m + 1) : x \in Int /\ a[m].key < x
        /\ a[m].key \in Int /\ k \in Int
    BY LeftFacts
  <2>2. QED
    BY <2>1
<1>3. ConFrom(a, m, k) = Missing
  BY <1>2 DEF ConFrom
<1> HIDE DEF k
<1>4. QED
  BY <1>1, <1>2, <1>3 DEF RestHolds, k

LEMMA RestSameKey ==
  ASSUME NEW r, NEW a \in Lists, NEW b \in Lists,
         NEW m \in 1 .. Len(a), NEW n \in 1 .. Len(b), a[m].key = b[n].key
  PROVE  RestHolds(r, a, b, m, n) <=>
           Test(r, a[m].con, b[n].con) /\ RestHolds(r, a, b, m + 1, n + 1)
<1> DEFINE k == a[m].key
<1>1. /\ LeftOf(a, m) = {k} \cup LeftOf(a, m + 1)
      /\ ConFrom(a, m, k) = a[m].con
      /\ \A x : x # k => ConFrom(a, m, x) = ConFrom(a, m + 1, x)
      /\ \A x \in LeftOf(a, m + 1) : x # k
  BY LeftFacts
<1>2. /\ LeftOf(b, n) = {k} \cup LeftOf(b, n + 1)
      /\ ConFrom(b, n, k) = b[n].con
      /\ \A x : x # k => ConFrom(b, n, x) = ConFrom(b, n + 1, x)
      /\ \A x \in LeftOf(b, n + 1) : x # k
  BY LeftFacts
<1> HIDE DEF k
<1>3. QED
  BY <1>1, <1>2 DEF RestHolds

Places(a, b) == (1 .. (Len(a) + 1)) \X (1 .. (Len(b) + 1))

MergeBody(from, r, a, b, m, n) ==
  CASE m > Len(a) -> \A k \in n .. Len(b) : Test(r, Missing, b[k].con)
    [] m <= Len(a) /\ n > Len(b) ->
         \A k \in m .. Len(a) : Test(r, a[k].con, Missing)
    [] OTHER ->
         \/ /\ a[m].key < b[n].key
            /\ Test(r, a[m].con, Missing) /\ from[<<m + 1, n>>]
         \/ /\ b[n].key < a[m].key
            /\ Test(r, Missing, b[n].con) /\ from[<<m, n + 1>>]
         \/ /\ a[m].key = b[n].key
            /\ Test(r, a[m].con, b[n].con) /\ from[<<m + 1, n + 1>>]

Merges(from, r, a, b) ==
  from = [at \in Places(a, b) |-> MergeBody(from, r, a, b, at[1], at[2])]

LEMMA MergeWithIs ==
  ASSUME NEW r, NEW a, NEW b
  PROVE  MergeWith(r, a, b) <=> (CHOOSE from : Merges(from, r, a, b))[<<1, 1>>]
BY DEF MergeWith, Merges, MergeBody, Places

LEMMA MergesAt ==
  ASSUME NEW r, NEW a, NEW b, NEW from, Merges(from, r, a, b),
         NEW m \in 1 .. (Len(a) + 1), NEW n \in 1 .. (Len(b) + 1)
  PROVE  from[<<m, n>>] = MergeBody(from, r, a, b, m, n)
BY DEF Merges, Places

(***************************************************************************)
(* What a step of the recursion gives when what it goes on to is right.    *)
(***************************************************************************)
LEMMA BodyIsRest ==
  ASSUME NEW r, NEW a \in Lists, NEW b \in Lists, NEW from,
         NEW m \in 1 .. (Len(a) + 1), NEW n \in 1 .. (Len(b) + 1),
         \A x \in 1 .. (Len(a) + 1), y \in 1 .. (Len(b) + 1) :
           x + y > m + n => (from[<<x, y>>] <=> RestHolds(r, a, b, x, y))
  PROVE  MergeBody(from, r, a, b, m, n) <=> RestHolds(r, a, b, m, n)
<1>1. Len(a) \in Nat /\ Len(b) \in Nat
  BY ListFacts
<1>2. CASE m > Len(a)
  BY <1>1, <1>2, RestInstEnds DEF MergeBody
<1>3. CASE m <= Len(a) /\ n > Len(b)
  <2>1. ~ (m > Len(a))
    BY <1>1, <1>3
  <2>2. QED
    BY <1>3, <2>1, RestPattEnds DEF MergeBody
<1>4. CASE m <= Len(a) /\ n <= Len(b)
  <2>1. /\ m \in 1 .. Len(a) /\ n \in 1 .. Len(b)
        /\ ~ (m > Len(a)) /\ ~ (n > Len(b))
        /\ m + 1 \in 1 .. (Len(a) + 1) /\ n + 1 \in 1 .. (Len(b) + 1)
        /\ (m + 1) + n > m + n /\ m + (n + 1) > m + n /\ (m + 1) + (n + 1) > m + n
    BY <1>1, <1>4
  <2>2. a[m].key \in Int /\ b[n].key \in Int
    BY <2>1, ListFacts
  <2>3. /\ from[<<m + 1, n>>] <=> RestHolds(r, a, b, m + 1, n)
        /\ from[<<m, n + 1>>] <=> RestHolds(r, a, b, m, n + 1)
        /\ from[<<m + 1, n + 1>>] <=> RestHolds(r, a, b, m + 1, n + 1)
    BY <2>1
  <2>4. MergeBody(from, r, a, b, m, n) <=>
          \/ /\ a[m].key < b[n].key
             /\ Test(r, a[m].con, Missing) /\ RestHolds(r, a, b, m + 1, n)
          \/ /\ b[n].key < a[m].key
             /\ Test(r, Missing, b[n].con) /\ RestHolds(r, a, b, m, n + 1)
          \/ /\ a[m].key = b[n].key
             /\ Test(r, a[m].con, b[n].con) /\ RestHolds(r, a, b, m + 1, n + 1)
    BY <2>1, <2>3 DEF MergeBody
  <2>5. CASE a[m].key < b[n].key
    <3>1. ~ (b[n].key < a[m].key) /\ a[m].key # b[n].key
      BY <2>2, <2>5
    <3>2. QED
      BY <2>1, <2>4, <2>5, <3>1, RestInstFirst
  <2>6. CASE b[n].key < a[m].key
    <3>1. ~ (a[m].key < b[n].key) /\ a[m].key # b[n].key
      BY <2>2, <2>6
    <3>2. QED
      BY <2>1, <2>4, <2>6, <3>1, RestPattFirst
  <2>7. CASE a[m].key = b[n].key
    <3>1. ~ (a[m].key < b[n].key) /\ ~ (b[n].key < a[m].key)
      BY <2>2, <2>7
    <3>2. QED
      BY <2>1, <2>4, <2>7, <3>1, RestSameKey
  <2>8. QED
    BY <2>2, <2>5, <2>6, <2>7
<1>5. QED
  BY <1>1, <1>2, <1>3, <1>4

LEMMA RestSolves ==
  ASSUME NEW r, NEW a \in Lists, NEW b \in Lists
  PROVE  \E from : Merges(from, r, a, b)
<1> DEFINE F == [at \in Places(a, b) |-> RestHolds(r, a, b, at[1], at[2])]
<1>1. ASSUME NEW m \in 1 .. (Len(a) + 1), NEW n \in 1 .. (Len(b) + 1)
      PROVE  F[<<m, n>>] <=> RestHolds(r, a, b, m, n)
  BY DEF Places
<1> HIDE DEF F
<1>2. ASSUME NEW m \in 1 .. (Len(a) + 1), NEW n \in 1 .. (Len(b) + 1)
      PROVE  RestHolds(r, a, b, m, n) = MergeBody(F, r, a, b, m, n)
  <2>1. MergeBody(F, r, a, b, m, n) <=> RestHolds(r, a, b, m, n)
    BY <1>1, BodyIsRest
  <2>2. RestHolds(r, a, b, m, n) \in BOOLEAN
    BY DEF RestHolds
  <2>3. MergeBody(F, r, a, b, m, n) \in BOOLEAN
    BY DEF MergeBody
  <2>4. QED
    BY <2>1, <2>2, <2>3
<1>3. \A at \in Places(a, b) :
        RestHolds(r, a, b, at[1], at[2]) = MergeBody(F, r, a, b, at[1], at[2])
  BY <1>2 DEF Places
<1>4. Merges(F, r, a, b)
  BY <1>3 DEF Merges, F
<1>5. QED
  BY <1>4

LEMMA MergesIsRest ==
  ASSUME NEW r, NEW a \in Lists, NEW b \in Lists, NEW from, Merges(from, r, a, b),
         NEW m \in 1 .. (Len(a) + 1), NEW n \in 1 .. (Len(b) + 1)
  PROVE  from[<<m, n>>] <=> RestHolds(r, a, b, m, n)
<1>1. Len(a) \in Nat /\ Len(b) \in Nat
  BY ListFacts
<1> DEFINE Wrong(x, y) == ~ (from[<<x, y>>] <=> RestHolds(r, a, b, x, y))
           S == {d \in Nat : \E x \in 1 .. (Len(a) + 1), y \in 1 .. (Len(b) + 1) :
                   d = (Len(a) + Len(b) + 2) - (x + y) /\ Wrong(x, y)}
<1>2. ASSUME S # {}
      PROVE  FALSE
  <2>1. PICK d \in S : \A e \in S : d <= e
    <3>1. S \in SUBSET Nat
      OBVIOUS
    <3> HIDE DEF S
    <3>2. QED
      BY <1>2, <3>1, LeastOf
  <2>2. d \in Nat
    OBVIOUS
  <2>3. PICK x \in 1 .. (Len(a) + 1) : \E y \in 1 .. (Len(b) + 1) :
               d = (Len(a) + Len(b) + 2) - (x + y) /\ Wrong(x, y)
    OBVIOUS
  <2>4. PICK y \in 1 .. (Len(b) + 1) :
               d = (Len(a) + Len(b) + 2) - (x + y) /\ Wrong(x, y)
    BY <2>3
  <2>5. ASSUME NEW v \in 1 .. (Len(a) + 1), NEW w \in 1 .. (Len(b) + 1), v + w > x + y
        PROVE  ~Wrong(v, w)
    <3>1. (Len(a) + Len(b) + 2) - (v + w) \in Nat /\ (Len(a) + Len(b) + 2) - (v + w) < d
      <4>1. /\ v \in Int /\ w \in Int /\ x \in Int /\ y \in Int
            /\ v <= Len(a) + 1 /\ w <= Len(b) + 1 /\ v + w > x + y
        BY <1>1, <2>5
      <4>2. d = (Len(a) + Len(b) + 2) - (x + y)
        BY <2>4
      <4> HIDE DEF S, Wrong
      <4>3. QED
        BY <1>1, <4>1, <4>2
    <3>2. (Len(a) + Len(b) + 2) - (v + w) \notin S
      <4>1. ~ (d <= (Len(a) + Len(b) + 2) - (v + w))
        BY <2>2, <3>1
      <4> HIDE DEF S
      <4>2. QED
        BY <2>1, <4>1
    <3> HIDE DEF Wrong
    <3>3. QED
      BY <3>1, <3>2
  <2>6. MergeBody(from, r, a, b, x, y) <=> RestHolds(r, a, b, x, y)
    BY <2>5, BodyIsRest
  <2>7. from[<<x, y>>] = MergeBody(from, r, a, b, x, y)
    BY MergesAt
  <2>8. QED
    BY <2>4, <2>6, <2>7
<1>3. CASE Wrong(m, n)
  <2>1. (Len(a) + Len(b) + 2) - (m + n) \in Nat
    BY <1>1
  <2> HIDE DEF Wrong
  <2>2. (Len(a) + Len(b) + 2) - (m + n) \in S
    BY <1>3, <2>1
  <2>3. QED
    BY <1>2, <2>2
<1>4. QED
  BY <1>3

(***************************************************************************)
(* The answer of the pass as a function is the relation, key by key.       *)
(***************************************************************************)
LEMMA MergeIsRelation ==
  ASSUME NEW r, NEW a \in Lists, NEW b \in Lists
  PROVE  MergeWith(r, a, b) <=>
           \A k \in KeysOf(a) \cup KeysOf(b) : Test(r, Lookup(a, k), Lookup(b, k))
<1>1. Merges((CHOOSE from : Merges(from, r, a, b)), r, a, b)
  BY RestSolves
<1>2. 1 \in 1 .. (Len(a) + 1) /\ 1 \in 1 .. (Len(b) + 1)
  BY ListFacts
<1>3. MergeWith(r, a, b) <=> RestHolds(r, a, b, 1, 1)
  BY <1>1, <1>2, MergesIsRest, MergeWithIs
<1>4. ASSUME NEW list \in Lists
      PROVE  LeftOf(list, 1) = KeysOf(list) /\ \A k : ConFrom(list, 1, k) = Lookup(list, k)
  <2>1. LeftOf(list, 1) = KeysOf(list)
    BY ListFacts DEF LeftOf, KeysOf
  <2>2. \A k : k \notin KeysOf(list) => Lookup(list, k) = Missing
    BY LookupMissing
  <2>3. QED
    BY <2>1, <2>2 DEF ConFrom
<1>5. QED
  BY <1>3, <1>4 DEF RestHolds
-----------------------------------------------------------------------------
(***************************************************************************)
(* The executable questions are the defined ones.                          *)
(***************************************************************************)
TheCaps == WfCaps(Values)

LEMMA CapFacts ==
  ASSUME NEW c \in TheCaps
  PROVE  /\ c.in.prefix = "media" /\ c.in.tags \in Lists
         /\ c.out.prefix = "media" /\ c.out.tags \in Lists
         /\ c.tags.prefix = "cap" /\ c.tags.tags \in Lists
         /\ c.effect \in Effects
<1>1. /\ c.in \in WfUrns({"media"}, Values) /\ c.out \in WfUrns({"media"}, Values)
      /\ c.tags \in WfUrns({"cap"}, Values) /\ c.effect \in Effects
  BY DEF TheCaps, WfCaps
<1>2. ASSUME NEW s, NEW u \in WfUrns({s}, Values)
      PROVE  u.prefix = s /\ u.tags \in Lists
  BY DEF WfUrns, Lists
<1>3. QED
  BY <1>1, <1>2

LEMMA TopFacts == MediaTop.prefix = "media" /\ MediaTop.tags = <<>> /\ <<>> \in Lists
<1>1. <<>> \in Lists
  BY DEF Lists, TagLists, Sorted
<1>2. QED
  BY <1>1 DEF MediaTop, Urn

LEMMA ExecUrns ==
  ASSUME NEW u, NEW w, u.tags \in Lists, w.tags \in Lists
  PROVE  /\ ExecRefines(u, w) <=> Refines(u, w)
         /\ ExecMeets(u, w) <=> Meets(u, w)
         /\ ExecRefinesClosed(u, w) <=> RefinesClosed(u, w)
         /\ ExecMeetsClosed(u, w) <=> MeetsClosed(u, w)
<1>1. \A a, b : /\ Test("refines", a, b) <=> TagMatch(a, b)
                /\ Test("meets", a, b) <=> TagMeets(a, b)
                /\ Test("refinesClosed", a, b) <=> TagMatchClosed(a, b)
                /\ Test("meetsClosed", a, b) <=> TagMeetsClosed(a, b)
  BY DEF Test
<1>2. \A r : MergeWith(r, u.tags, w.tags) <=>
               \A k \in AllKeys(u, w) : Test(r, Lookup(u.tags, k), Lookup(w.tags, k))
  BY MergeIsRelation DEF AllKeys
<1>3. ExecRefines(u, w) <=> Refines(u, w)
  BY <1>1, <1>2 DEF ExecRefines, MergeTags, Refines
<1>4. ExecMeets(u, w) <=> Meets(u, w)
  BY <1>1, <1>2 DEF ExecMeets, Meets
<1>5. ExecRefinesClosed(u, w) <=> RefinesClosed(u, w)
  BY <1>1, <1>2 DEF ExecRefinesClosed, RefinesClosed
<1>6. ExecMeetsClosed(u, w) <=> MeetsClosed(u, w)
  BY <1>1, <1>2 DEF ExecMeetsClosed, MeetsClosed
<1>7. QED
  BY <1>3, <1>4, <1>5, <1>6

LEMMA ExecOpen ==
  ASSUME NEW u, u.tags \in Lists
  PROVE  ExecUnconstrained(u) <=> UnconstrainedMedia(u)
BY TopFacts, ExecUrns DEF ExecUnconstrained, UnconstrainedMedia

(* What may be asked of a side.                                            *)
WfAsk(ask) == ask.kind = "unknown" \/ ask.media.tags \in Lists

LEMMA AskFacts ==
  ASSUME NEW u, u.tags \in Lists
  PROVE  WfAsk(Unknown) /\ WfAsk(Within(u)) /\ WfAsk(Covers(u)) /\ WfAsk(Same(u))
BY DEF WfAsk, Unknown, Within, Covers, Same

LEMMA ExecAsks ==
  ASSUME NEW ask, WfAsk(ask), NEW u, u.tags \in Lists
  PROVE  /\ ExecAskAdmits(ask, u) <=> AskAdmits(ask, u)
         /\ ExecAskMayAdmit(ask, u) <=> AskMayAdmit(ask, u)
         /\ WfAskExactly(ask) = AskExactly(ask)
         /\ WfAsk(AskExactly(ask))
<1>1. CASE ask.kind = "unknown"
  <2>1. WfAskExactly(ask) = ask /\ AskExactly(ask) = ask
    BY <1>1 DEF WfAskExactly, AskExactly
  <2>2. QED
    BY <1>1, <2>1 DEF ExecAskAdmits, AskAdmits, ExecAskMayAdmit, AskMayAdmit
<1>2. CASE ask.kind # "unknown"
  <2>1. ask.media.tags \in Lists
    BY <1>2 DEF WfAsk
  <2>2. /\ ExecRefines(u, ask.media) <=> Refines(u, ask.media)
        /\ ExecRefines(ask.media, u) <=> Refines(ask.media, u)
        /\ ExecMeets(u, ask.media) <=> Meets(u, ask.media)
    BY <2>1, ExecUrns
  <2>3. WfAsk(AskExactly(ask))
    BY <2>1, AskFacts DEF AskExactly, WfAsk
  <2>4. QED
    BY <2>2, <2>3
    DEF ExecAskAdmits, AskAdmits, ExecAskMayAdmit, AskMayAdmit, WfAskExactly, AskExactly
<1>3. QED
  BY <1>1, <1>2

LEMMA ExecQueries ==
  ASSUME NEW q, WfAsk(q.in), WfAsk(q.out), q.tags.tags \in Lists, NEW c \in TheCaps
  PROVE  /\ QueryAdmits(q, c) <=> Admits(q, c)
         /\ QueryMayAdmit(q, c) <=> MayAdmit(q, c)
<1>1. /\ c.in.tags \in Lists /\ c.out.tags \in Lists /\ c.tags.tags \in Lists
  BY CapFacts
<1>2. /\ ExecAskAdmits(q.in, c.in) <=> AskAdmits(q.in, c.in)
      /\ ExecAskMayAdmit(q.in, c.in) <=> AskMayAdmit(q.in, c.in)
      /\ ExecAskAdmits(q.out, c.out) <=> AskAdmits(q.out, c.out)
      /\ ExecAskMayAdmit(q.out, c.out) <=> AskMayAdmit(q.out, c.out)
  BY <1>1, ExecAsks
<1>3. /\ ExecRefinesClosed(c.tags, q.tags) <=> RefinesClosed(c.tags, q.tags)
      /\ ExecMeetsClosed(c.tags, q.tags) <=> MeetsClosed(c.tags, q.tags)
  BY <1>1, ExecUrns
<1>4. ExecEffectOk(c.effect, q.effect) <=> EffectOk(c.effect, q.effect)
  BY DEF ExecEffectOk, EffectOk
<1>5. QED
  BY <1>2, <1>3, <1>4 DEF QueryAdmits, Admits, QueryMayAdmit, MayAdmit

LEMMA ExecGrade ==
  ASSUME NEW asked, NEW given, NEW u, NEW e, WfAsk(asked), WfAsk(given), u.tags \in Lists,
         NEW c \in TheCaps
  PROVE  QueryGrade(Query(asked, given, u, e), c) = Grade(Query(asked, given, u, e), c)
<1> DEFINE q == Query(asked, given, u, e)
           x == Exactly(q)
           w == WfQueryExactly(q)
<1>1. q.in = asked /\ q.out = given /\ q.tags = u /\ q.effect = e
  BY DEF Query
<1>2. /\ w.in = AskExactly(asked) /\ w.out = AskExactly(given) /\ w.tags = u /\ w.effect = e
  <2>1. WfAskExactly(asked) = AskExactly(asked) /\ WfAskExactly(given) = AskExactly(given)
    BY ExecAsks
  <2>2. QED
    BY <1>1, <2>1 DEF WfQueryExactly, Query
<1>3. /\ x.in = AskExactly(asked) /\ x.out = AskExactly(given) /\ x.tags = u /\ x.effect = e
  BY DEF Exactly, Query
<1>4. WfAsk(AskExactly(asked)) /\ WfAsk(AskExactly(given))
  BY ExecAsks
<1> HIDE DEF q, x, w
<1>5. Admits(x, c) <=> Admits(w, c)
  BY <1>2, <1>3 DEF Admits
<1>6. QueryAdmits(w, c) <=> Admits(x, c)
  BY <1>2, <1>4, <1>5, ExecQueries
<1>7. /\ QueryAdmits(q, c) <=> Admits(q, c)
      /\ QueryMayAdmit(q, c) <=> MayAdmit(q, c)
  BY <1>1, ExecQueries
<1>8. QueryGrade(q, c) = Grade(q, c)
  BY <1>6, <1>7 DEF QueryGrade, Grade, x, w
<1>9. QED
  BY <1>8 DEF q

LEMMA ExecForms ==
  ASSUME NEW r \in TheCaps
  PROVE  /\ QueryOfRequest(r) = OfRequest(r) /\ QueryOfPattern(r) = OfPattern(r)
         /\ \E asked, given : /\ OfRequest(r) = Query(asked, given, r.tags, r.effect)
                              /\ WfAsk(asked) /\ WfAsk(given)
         /\ \E asked, given : /\ OfPattern(r) = Query(asked, given, r.tags, r.effect)
                              /\ WfAsk(asked) /\ WfAsk(given)
<1>1. r.in.tags \in Lists /\ r.out.tags \in Lists
  BY CapFacts
<1>2. /\ ExecUnconstrained(r.in) <=> UnconstrainedMedia(r.in)
      /\ ExecUnconstrained(r.out) <=> UnconstrainedMedia(r.out)
  BY <1>1, ExecOpen
<1>3. /\ WfAsk(Unknown) /\ WfAsk(Covers(r.in)) /\ WfAsk(Within(r.in))
      /\ WfAsk(Covers(r.out)) /\ WfAsk(Within(r.out))
  BY <1>1, AskFacts
<1>4. QueryOfRequest(r) = OfRequest(r) /\ QueryOfPattern(r) = OfPattern(r)
  BY <1>2 DEF QueryOfRequest, OfRequest, QueryOfPattern, OfPattern
<1>5. \E asked, given : /\ OfRequest(r) = Query(asked, given, r.tags, r.effect)
                        /\ WfAsk(asked) /\ WfAsk(given)
  BY <1>3 DEF OfRequest
<1>6. \E asked, given : /\ OfPattern(r) = Query(asked, given, r.tags, r.effect)
                        /\ WfAsk(asked) /\ WfAsk(given)
  BY <1>3 DEF OfPattern
<1>7. QED
  BY <1>4, <1>5, <1>6

LEMMA ExecServes ==
  ASSUME NEW c \in TheCaps, NEW r \in TheCaps
  PROVE  /\ Dispatch(c, r) <=> Serves(c, r)
         /\ MayDispatch(c, r) <=> MayServe(c, r)
         /\ Accepts(r, c) <=> Fits(r, c)
<1>1. r.tags.tags \in Lists
  BY CapFacts
<1>2. \A asked, given, u, e :
        LET q == Query(asked, given, u, e)
        IN  q.in = asked /\ q.out = given /\ q.tags = u
  BY DEF Query
<1>3. /\ WfAsk(OfRequest(r).in) /\ WfAsk(OfRequest(r).out) /\ OfRequest(r).tags = r.tags
      /\ WfAsk(OfPattern(r).in) /\ WfAsk(OfPattern(r).out) /\ OfPattern(r).tags = r.tags
  BY <1>2, ExecForms
<1>4. /\ QueryAdmits(OfRequest(r), c) <=> Admits(OfRequest(r), c)
      /\ QueryMayAdmit(OfRequest(r), c) <=> MayAdmit(OfRequest(r), c)
      /\ QueryAdmits(OfPattern(r), c) <=> Admits(OfPattern(r), c)
  BY <1>1, <1>3, ExecQueries
<1>5. QED
  BY <1>4, ExecForms DEF Dispatch, Serves, MayDispatch, MayServe, Accepts, Fits

LEMMA ExecGrades ==
  ASSUME NEW c \in TheCaps, NEW r \in TheCaps
  PROVE  /\ QueryGrade(QueryOfRequest(r), c) = Grade(OfRequest(r), c)
         /\ QueryGrade(QueryOfPattern(r), c) = Grade(OfPattern(r), c)
         /\ QueryGrade(QueryBetween(r.in, r.out, r.tags), c)
              = Grade(Query(Covers(r.in), Within(r.out), r.tags, "unspecified"), c)
         /\ QueryGrade(QueryProducing(r.out, r.tags), c) = Grade(Producing(r.out, r.tags), c)
         /\ QueryGrade(QueryConsuming(r.in, r.tags), c) = Grade(Consuming(r.in, r.tags), c)
<1>1. r.in.tags \in Lists /\ r.out.tags \in Lists /\ r.tags.tags \in Lists
  BY CapFacts
<1>2. WfAsk(Unknown) /\ WfAsk(Covers(r.in)) /\ WfAsk(Within(r.out))
  BY <1>1, AskFacts
<1>3. QueryGrade(QueryOfRequest(r), c) = Grade(OfRequest(r), c)
  BY <1>1, ExecForms, ExecGrade
<1>4. QueryGrade(QueryOfPattern(r), c) = Grade(OfPattern(r), c)
  BY <1>1, ExecForms, ExecGrade
<1>5. /\ QueryGrade(QueryBetween(r.in, r.out, r.tags), c)
           = Grade(Query(Covers(r.in), Within(r.out), r.tags, "unspecified"), c)
      /\ QueryGrade(QueryProducing(r.out, r.tags), c) = Grade(Producing(r.out, r.tags), c)
      /\ QueryGrade(QueryConsuming(r.in, r.tags), c) = Grade(Consuming(r.in, r.tags), c)
  BY <1>1, <1>2, ExecGrade
  DEF QueryBetween, QueryProducing, QueryConsuming, Producing, Consuming
<1>6. QED
  BY <1>3, <1>4, <1>5

LEMMA ExecCompares ==
  ASSUME NEW c \in TheCaps, NEW r \in TheCaps
  PROVE  /\ Comparable(c, r) <=> (CapAccepts(c, r) \/ CapAccepts(r, c))
         /\ Equivalent(c, r) <=> (CapRefines(c, r) /\ CapRefines(r, c))
         /\ ExecFlows(c, r) <=> Flows(c, r)
         /\ ExecMayFlow(c, r) <=> MayFlow(c, r)
<1>1. /\ c.in.tags \in Lists /\ c.out.tags \in Lists /\ c.tags.tags \in Lists
      /\ r.in.tags \in Lists /\ r.out.tags \in Lists /\ r.tags.tags \in Lists
  BY CapFacts
<1>2. /\ SameSides(c, r) <=> CapAccepts(c, r)
      /\ SameSides(r, c) <=> CapAccepts(r, c)
  BY <1>1, ExecUrns DEF SameSides, CapAccepts
<1>3. (CapAccepts(c, r) /\ CapAccepts(r, c)) <=> (CapRefines(c, r) /\ CapRefines(r, c))
  BY DEF CapAccepts, CapRefines, EffectOk
<1>4. ExecFlows(c, r) <=> Flows(c, r)
  BY <1>1, ExecUrns DEF ExecFlows, Flows
<1>5. ExecMayFlow(c, r) <=> MayFlow(c, r)
  BY <1>1, ExecUrns DEF ExecMayFlow, MayFlow
<1>6. QED
  BY <1>2, <1>3, <1>4, <1>5 DEF Comparable, Equivalent
-----------------------------------------------------------------------------
(***************************************************************************)
(* Scores are numbers, and keys are compared as pairs of them.             *)
(***************************************************************************)
Scores(f, tags) ==
  f = [n \in 0 .. Len(tags) |-> IF n = 0 THEN 0 ELSE f[n - 1] + TagScore(tags[n].con)]

LEMMA ScoreIsNumber ==
  ASSUME NEW tags \in Lists
  PROVE  TagsScore(tags) \in Nat
<1> DEFINE n == Len(tags)
           g == [p \in (1..n) \X Nat |-> p[2] + TagScore(tags[p[1]].con)]
<1>1. n \in Nat
  BY ListFacts
<1>2. \A c : TagScore(c) \in Nat
  BY DEF TagScore
<1>3. g \in [(1..n) \X Nat -> Nat]
  BY <1>2
<1>4. \A x \in 1..n, y \in Nat : g[<<x, y>>] = y + TagScore(tags[x].con)
  OBVIOUS
<1> HIDE DEF g
<1>5. PICK h \in [0..n -> Nat] : Goes(h, n, 0, g)
  <2> HIDE DEF n
  <2>1. QED
    BY <1>1, <1>3, Recursion
<1>6. ASSUME NEW x \in 0..n
      PROVE  h[x] = IF x = 0 THEN 0 ELSE h[x - 1] + TagScore(tags[x].con)
  <2>1. CASE x = 0
    BY <1>5, <2>1 DEF Goes
  <2>2. CASE x # 0
    <3>1. x \in 1..n /\ x - 1 \in 0..n
      BY <1>1, <2>2
    <3>2. h[x] = g[<<x, h[x - 1]>>] /\ h[x - 1] \in Nat
      BY <1>5, <3>1 DEF Goes
    <3>3. QED
      BY <1>4, <2>2, <3>1, <3>2
  <2>3. QED
    BY <2>1, <2>2
<1>7. Scores(h, tags)
  <2>1. h = [x \in 0..n |-> h[x]]
    BY <1>5
  <2>2. QED
    BY <1>6, <2>1 DEF Scores
<1> DEFINE f == CHOOSE f : Scores(f, tags)
<1>8. Scores(f, tags)
  BY <1>7
<1>9. TagsScore(tags) = f[n]
  BY DEF TagsScore, Scores
<1> HIDE DEF f
<1>10. \A x \in 0..n : f[x] = IF x = 0 THEN 0 ELSE f[x - 1] + TagScore(tags[x].con)
  BY <1>8 DEF Scores
<1> DEFINE J == [x \in 0..n |-> Nat]
<1>11. f[0] \in J[0] /\ \A x \in 1..n : f[x - 1] \in J[x - 1] => f[x] \in J[x]
  <2>1. f[0] = 0 /\ 0 \in 0..n
    BY <1>1, <1>10
  <2>2. ASSUME NEW x \in 1..n, f[x - 1] \in Nat
        PROVE  f[x] \in Nat
    <3>1. x \in 0..n /\ x # 0
      BY <1>1
    <3>2. f[x] = f[x - 1] + TagScore(tags[x].con)
      BY <1>10, <3>1
    <3>3. QED
      BY <1>2, <2>2, <3>2
  <2>3. \A x \in 1..n : x - 1 \in 0..n /\ x \in 0..n
    BY <1>1
  <2>4. QED
    BY <2>1, <2>2, <2>3
<1>12. \A x \in 0..n : f[x] \in J[x]
  <2> HIDE DEF n, J
  <2>1. QED
    BY <1>1, <1>11, StepByStep
<1>13. n \in 0..n
  BY <1>1
<1>14. QED
  BY <1>9, <1>12, <1>13

LEMMA CapScoreIsNumber ==
  ASSUME NEW c \in TheCaps
  PROVE  CapScore(c) \in Nat
<1>1. TagsScore(c.in.tags) \in Nat /\ TagsScore(c.out.tags) \in Nat /\ TagsScore(c.tags.tags) \in Nat
  BY CapFacts, ScoreIsNumber
<1>2. QED
  BY <1>1 DEF CapScore, UrnScore

TheKeys == (0 .. 1) \X Nat

LEMMA KeyFacts ==
  ASSUME NEW c \in TheCaps, NEW r \in TheCaps
  PROVE  SortKey(c, r) = RankingKey(c, r) /\ SortKey(c, r) \in TheKeys
<1> DEFINE x == CapScore(c)
           y == CapScore(r)
<1>1. x \in Nat /\ y \in Nat
  BY CapScoreIsNumber
<1>2. SortKey(c, r) = IF x - y >= 0 THEN <<0, x - y>> ELSE <<1, -(x - y)>>
  BY DEF SortKey, Specificity
<1>3. RankingKey(c, r) = IF x >= y THEN <<0, x - y>> ELSE <<1, y - x>>
  BY DEF RankingKey
<1> HIDE DEF x, y
<1>4. CASE x >= y
  <2>1. x - y >= 0 /\ x - y \in Nat
    BY <1>1, <1>4
  <2>2. SortKey(c, r) = <<0, x - y>> /\ RankingKey(c, r) = <<0, x - y>>
    BY <1>2, <1>3, <1>4, <2>1
  <2>3. QED
    BY <2>1, <2>2 DEF TheKeys
<1>5. CASE ~ (x >= y)
  <2>1. ~ (x - y >= 0) /\ y - x \in Nat /\ -(x - y) = y - x
    BY <1>1, <1>5
  <2>2. SortKey(c, r) = <<1, y - x>> /\ RankingKey(c, r) = <<1, y - x>>
    BY <1>2, <1>3, <1>5, <2>1
  <2>3. QED
    BY <2>1, <2>2 DEF TheKeys
<1>6. QED
  BY <1>4, <1>5

LEMMA OwnKey ==
  ASSUME NEW r \in TheCaps
  PROVE  SortKey(r, r) = <<0, 0>>
<1>1. CapScore(r) \in Nat
  BY CapScoreIsNumber
<1>2. CapScore(r) - CapScore(r) = 0
  BY <1>1
<1>3. QED
  BY <1>2 DEF SortKey, Specificity

LEMMA KeyOrder ==
  ASSUME NEW k \in TheKeys, NEW l \in TheKeys, NEW m \in TheKeys
  PROVE  /\ ~BetterKey(k, k)
         /\ BetterKey(k, l) => ~BetterKey(l, k)
         /\ ~BetterKey(k, l) /\ ~BetterKey(l, m) => ~BetterKey(k, m)
         /\ BetterKey(k, l) /\ ~BetterKey(m, l) => BetterKey(k, m)
         /\ ~BetterKey(k, <<0, 0>>)
<1>1. /\ k[1] \in Int /\ l[1] \in Int /\ m[1] \in Int
      /\ k[2] \in Int /\ l[2] \in Int /\ m[2] \in Int
      /\ k[1] >= 0 /\ k[2] >= 0
  BY DEF TheKeys
<1>2. <<0, 0>>[1] = 0 /\ <<0, 0>>[2] = 0
  OBVIOUS
<1>3. QED
  BY <1>1, <1>2 DEF BetterKey

(***************************************************************************)
(* What is ranked first is what comes first among the nearest, and there   *)
(* is one such as soon as there is anything.                               *)
(***************************************************************************)
IsFirst(n, keys) ==
  /\ n \in DOMAIN keys
  /\ \A k \in DOMAIN keys :
       ~BetterKey(keys[k], keys[n]) /\ (k < n => BetterKey(keys[n], keys[k]))

LEMMA FirstExists ==
  ASSUME NEW S \in SUBSET Nat, S # {}, NEW keys \in [S -> TheKeys]
  PROVE  IsFirst(FirstRanked(keys), keys)
<1>1. \A n \in S : keys[n][1] \in Nat /\ keys[n][2] \in Nat
  BY DEF TheKeys
<1>2. PICK x \in {keys[n][1] : n \in S} : \A y \in {keys[n][1] : n \in S} : x <= y
  <2>1. {keys[n][1] : n \in S} \in SUBSET Nat /\ {keys[n][1] : n \in S} # {}
    BY <1>1
  <2>2. QED
    BY <2>1, LeastOf
<1> DEFINE T == {n \in S : keys[n][1] = x}
<1>3. PICK z \in {keys[n][2] : n \in T} : \A y \in {keys[n][2] : n \in T} : z <= y
  <2>1. {keys[n][2] : n \in T} \in SUBSET Nat /\ {keys[n][2] : n \in T} # {}
    BY <1>1, <1>2
  <2> HIDE DEF T
  <2>2. QED
    BY <2>1, LeastOf
<1> DEFINE U == {n \in T : keys[n][2] = z}
<1>4. PICK n \in U : \A k \in U : n <= k
  <2>1. U \in SUBSET Nat /\ U # {}
    BY <1>3
  <2> HIDE DEF U
  <2>2. QED
    BY <2>1, LeastOf
<1>5. n \in S /\ keys[n][1] = x /\ keys[n][2] = z
  OBVIOUS
<1>6. ASSUME NEW k \in S
      PROVE  ~BetterKey(keys[k], keys[n]) /\ (k < n => BetterKey(keys[n], keys[k]))
  <2>1. x <= keys[k][1] /\ keys[k][1] \in Nat /\ keys[k][2] \in Nat /\ x \in Nat /\ z \in Nat
    BY <1>1, <1>2, <1>5
  <2>2. keys[k][1] = x => z <= keys[k][2]
    BY <1>3
  <2>3. k < n => ~ (keys[k][1] = x /\ keys[k][2] = z)
    <3>1. k \in Nat /\ n \in Nat
      BY <1>5
    <3>2. keys[k][1] = x /\ keys[k][2] = z => n <= k
      BY <1>4
    <3>3. QED
      BY <3>1, <3>2
  <2>4. QED
    BY <1>5, <2>1, <2>2, <2>3 DEF BetterKey
<1>7. IsFirst(n, keys)
  BY <1>5, <1>6 DEF IsFirst
<1>8. QED
  BY <1>7 DEF FirstRanked, IsFirst

LEMMA FirstIsOne ==
  ASSUME NEW S \in SUBSET Nat, NEW keys \in [S -> TheKeys],
         NEW n, NEW k, IsFirst(n, keys), IsFirst(k, keys)
  PROVE  n = k
<1>1. n \in S /\ k \in S /\ n \in Nat /\ k \in Nat
  BY DEF IsFirst
<1>2. ~ (n < k) /\ ~ (k < n)
  BY <1>1 DEF IsFirst
<1>3. QED
  BY <1>1, <1>2
-----------------------------------------------------------------------------
(***************************************************************************)
(* The selection takes the first of the nearest that serve.                *)
(***************************************************************************)
Selection == {<<>>} \cup {<<c>> : c \in TheCaps}

Selects(f, caps, r) ==
  f = [n \in 0 .. Len(caps) |-> IF n = 0 THEN <<>> ELSE SelectStep(r, f[n - 1], caps[n])]

ExecSelects(f, caps, r) ==
  f = [n \in 0 .. Len(caps) |-> IF n = 0 THEN <<>> ELSE ExecSelectStep(r, f[n - 1], caps[n])]

HitsUpTo(caps, r, n) == {m \in 1 .. n : Serves(caps[m], r)}

KeysUpTo(caps, r, n) == [m \in HitsUpTo(caps, r, n) |-> SortKey(caps[m], r)]

SelectedUpTo(caps, r, n, best) ==
  \/ HitsUpTo(caps, r, n) = {} /\ best = <<>>
  \/ \E m \in 1 .. n : IsFirst(m, KeysUpTo(caps, r, n)) /\ best = <<caps[m]>>

LEMMA StepsAgree ==
  ASSUME NEW r \in TheCaps, NEW best \in Selection, NEW c \in TheCaps
  PROVE  /\ ExecSelectStep(r, best, c) = SelectStep(r, best, c)
         /\ SelectStep(r, best, c) \in Selection
<1>1. Dispatch(c, r) <=> Serves(c, r)
  BY ExecServes
<1>2. ExecSelectStep(r, best, c) = SelectStep(r, best, c)
  BY <1>1 DEF ExecSelectStep, SelectStep
<1>3. SelectStep(r, best, c) \in Selection
  BY DEF SelectStep, Selection
<1>4. QED
  BY <1>2, <1>3

LEMMA SelectUnfolds ==
  ASSUME NEW r \in TheCaps, NEW caps \in Seq(TheCaps)
  PROVE  \E h \in [0 .. Len(caps) -> Selection] :
           /\ ExecSelect(caps, r) = h[Len(caps)] /\ Select(caps, r) = h[Len(caps)]
           /\ h[0] = <<>>
           /\ \A n \in 1 .. Len(caps) : h[n] = SelectStep(r, h[n - 1], caps[n])
<1> DEFINE n == Len(caps)
           g == [p \in (1..n) \X Selection |-> SelectStep(r, p[2], caps[p[1]])]
<1>1. n \in Nat /\ \A x \in 1..n : caps[x] \in TheCaps
  OBVIOUS
<1>2. g \in [(1..n) \X Selection -> Selection]
  <2>1. ASSUME NEW p \in (1..n) \X Selection
        PROVE  SelectStep(r, p[2], caps[p[1]]) \in Selection
    <3>1. p[2] \in Selection /\ caps[p[1]] \in TheCaps
      BY <1>1
    <3>2. QED
      BY <3>1, StepsAgree
  <2>2. QED
    BY <2>1
<1>3. \A x \in 1..n, y \in Selection : g[<<x, y>>] = SelectStep(r, y, caps[x])
  OBVIOUS
<1> HIDE DEF g, n
<1>4. PICK h \in [0..n -> Selection] : Goes(h, n, <<>>, g)
  <2>1. <<>> \in Selection
    BY DEF Selection
  <2>2. QED
    BY <1>1, <1>2, <2>1, Recursion
<1>5. h[0] = <<>> /\ 0 \in 0..n /\ n \in 0..n
  BY <1>1, <1>4 DEF Goes
<1>6. ASSUME NEW x \in 1..n
      PROVE  /\ x \in 0..n /\ x # 0
             /\ h[x] = SelectStep(r, h[x - 1], caps[x])
             /\ h[x] = ExecSelectStep(r, h[x - 1], caps[x])
  <2>1. x \in 0..n /\ x - 1 \in 0..n /\ x # 0
    BY <1>1
  <2>2. h[x] = g[<<x, h[x - 1]>>] /\ h[x - 1] \in Selection /\ caps[x] \in TheCaps
    BY <1>1, <1>4, <2>1 DEF Goes
  <2>3. h[x] = SelectStep(r, h[x - 1], caps[x])
    BY <1>3, <2>2
  <2>4. QED
    BY <2>1, <2>2, <2>3, StepsAgree
<1>7. \A x \in 0..n : x = 0 \/ x \in 1..n
  BY <1>1
<1>8. h = [x \in 0..n |-> h[x]]
  BY <1>4
<1>9. Selects(h, caps, r) /\ ExecSelects(h, caps, r)
  BY <1>5, <1>6, <1>7, <1>8 DEF Selects, ExecSelects, n
<1> DEFINE J == [x \in 0..n |-> {h[x]}]
<1>10. \A x \in 0..n : J[x] = {h[x]}
  OBVIOUS
<1>11. \A x \in 1..n : x - 1 \in 0..n
  BY <1>1
<1> HIDE DEF J
<1>12. Select(caps, r) = h[n]
  <2> DEFINE f == CHOOSE f : Selects(f, caps, r)
  <2>1. Selects(f, caps, r)
    BY <1>9
  <2>2. Select(caps, r) = f[n]
    BY DEF Select, Selects, n
  <2> HIDE DEF f
  <2>3. \A x \in 0..n : f[x] = IF x = 0 THEN <<>> ELSE SelectStep(r, f[x - 1], caps[x])
    BY <2>1 DEF Selects, n
  <2>4. f[0] \in J[0] /\ \A x \in 1..n : f[x - 1] \in J[x - 1] => f[x] \in J[x]
    <3>1. f[0] \in J[0]
      BY <1>5, <1>10, <2>3
    <3>2. ASSUME NEW x \in 1..n, f[x - 1] \in J[x - 1]
          PROVE  f[x] \in J[x]
      <4>1. f[x - 1] = h[x - 1] /\ x \in 0..n /\ x # 0
        BY <1>6, <1>10, <1>11, <3>2
      <4>2. f[x] = h[x]
        BY <1>6, <2>3, <4>1
      <4>3. QED
        BY <1>10, <4>1, <4>2
    <3>3. QED
      BY <3>1, <3>2
  <2>5. \A x \in 0..n : f[x] \in J[x]
    BY <1>1, <2>4, StepByStep
  <2>6. QED
    BY <1>5, <1>10, <2>2, <2>5
<1>13. ExecSelect(caps, r) = h[n]
  <2> DEFINE f == CHOOSE f : ExecSelects(f, caps, r)
  <2>1. ExecSelects(f, caps, r)
    BY <1>9
  <2>2. ExecSelect(caps, r) = f[n]
    BY DEF ExecSelect, ExecSelects, n
  <2> HIDE DEF f
  <2>3. \A x \in 0..n : f[x] = IF x = 0 THEN <<>> ELSE ExecSelectStep(r, f[x - 1], caps[x])
    BY <2>1 DEF ExecSelects, n
  <2>4. f[0] \in J[0] /\ \A x \in 1..n : f[x - 1] \in J[x - 1] => f[x] \in J[x]
    <3>1. f[0] \in J[0]
      BY <1>5, <1>10, <2>3
    <3>2. ASSUME NEW x \in 1..n, f[x - 1] \in J[x - 1]
          PROVE  f[x] \in J[x]
      <4>1. f[x - 1] = h[x - 1] /\ x \in 0..n /\ x # 0
        BY <1>6, <1>10, <1>11, <3>2
      <4>2. f[x] = h[x]
        BY <1>6, <2>3, <4>1
      <4>3. QED
        BY <1>10, <4>1, <4>2
    <3>3. QED
      BY <3>1, <3>2
  <2>5. \A x \in 0..n : f[x] \in J[x]
    BY <1>1, <2>4, StepByStep
  <2>6. QED
    BY <1>5, <1>10, <2>2, <2>5
<1>14. QED
  BY <1>4, <1>5, <1>6, <1>12, <1>13 DEF n

LEMMA SelectedOneMore ==
  ASSUME NEW r \in TheCaps, NEW caps \in Seq(TheCaps), NEW n \in 1 .. Len(caps),
         NEW best, SelectedUpTo(caps, r, n - 1, best)
  PROVE  SelectedUpTo(caps, r, n, SelectStep(r, best, caps[n]))
<1>1. n \in Nat /\ n # 0 /\ \A m \in 1 .. n : caps[m] \in TheCaps
  OBVIOUS
<1>2. 1 .. n = {n} \cup 1 .. (n - 1) /\ \A m \in 1 .. (n - 1) : m < n /\ m # n
  BY <1>1
<1> DEFINE was == HitsUpTo(caps, r, n - 1)
           is  == HitsUpTo(caps, r, n)
           key == [m \in is |-> SortKey(caps[m], r)]
           old == [m \in was |-> SortKey(caps[m], r)]
<1>3. KeysUpTo(caps, r, n) = key /\ KeysUpTo(caps, r, n - 1) = old
  BY DEF KeysUpTo
<1>4. was \subseteq 1 .. (n - 1) /\ was \subseteq is
  BY <1>2 DEF HitsUpTo
<1>5. \A m \in is : key[m] \in TheKeys /\ key[m] = SortKey(caps[m], r)
  BY <1>1, KeyFacts DEF HitsUpTo
<1>6. \A m \in was : old[m] = key[m]
  BY <1>4
<1>7. DOMAIN key = is /\ DOMAIN old = was
  OBVIOUS
<1>8. (Serves(caps[n], r) => is = was \cup {n}) /\ (~Serves(caps[n], r) => is = was)
  BY <1>2 DEF HitsUpTo
<1>9. RankingKey(caps[n], r) = SortKey(caps[n], r)
  BY <1>1, KeyFacts
<1> HIDE DEF key, old, was, is
<1>10. CASE ~Serves(caps[n], r)
  <2>1. is = was /\ SelectStep(r, best, caps[n]) = best
    BY <1>8, <1>10 DEF SelectStep
  <2>2. key = old
    BY <2>1 DEF key, old
  <2>3. QED
    BY <1>2, <1>3, <2>1, <2>2 DEF SelectedUpTo, was, is
<1>11. CASE Serves(caps[n], r) /\ was = {} /\ best = <<>>
  <2>1. is = {n} /\ SelectStep(r, best, caps[n]) = <<caps[n]>>
    BY <1>8, <1>11 DEF SelectStep
  <2>2. IsFirst(n, key)
    BY <1>1, <1>5, <1>7, <2>1, KeyOrder DEF IsFirst
  <2>3. QED
    BY <1>2, <1>3, <2>1, <2>2 DEF SelectedUpTo
<1>12. ASSUME Serves(caps[n], r),
              NEW m \in 1 .. (n - 1), IsFirst(m, old), best = <<caps[m]>>
       PROVE  SelectedUpTo(caps, r, n, SelectStep(r, best, caps[n]))
  <2>1. /\ m \in was /\ m \in is /\ n \in is /\ m < n /\ is = was \cup {n}
        /\ key[m] \in TheKeys /\ key[n] \in TheKeys
    BY <1>2, <1>4, <1>5, <1>7, <1>8, <1>12 DEF IsFirst
  <2>2. \A k \in was : ~BetterKey(key[k], key[m]) /\ (k < m => BetterKey(key[m], key[k]))
    BY <1>6, <1>7, <1>12, <2>1 DEF IsFirst
  <2>3. /\ best # <<>> /\ best[1] = caps[m]
        /\ RankingKey(caps[m], r) = key[m] /\ RankingKey(caps[n], r) = key[n]
    BY <1>1, <1>2, <1>5, <1>9, <1>12, <2>1, KeyFacts
  <2>4. CASE BetterKey(key[n], key[m])
    <3>1. SelectStep(r, best, caps[n]) = <<caps[n]>>
      BY <1>12, <2>3, <2>4 DEF SelectStep
    <3>2. ASSUME NEW k \in was
          PROVE  BetterKey(key[n], key[k]) /\ ~BetterKey(key[k], key[n])
      <4>1. key[k] \in TheKeys
        BY <1>4, <1>5
      <4>2. BetterKey(key[n], key[k])
        BY <2>1, <2>2, <2>4, <4>1, KeyOrder
      <4>3. QED
        BY <2>1, <4>1, <4>2, KeyOrder
    <3>3. ~BetterKey(key[n], key[n]) /\ ~ (n < n)
      BY <1>1, <2>1, KeyOrder
    <3>4. IsFirst(n, key)
      BY <1>7, <2>1, <3>2, <3>3 DEF IsFirst
    <3>5. QED
      BY <1>2, <1>3, <3>1, <3>4 DEF SelectedUpTo
  <2>5. CASE ~BetterKey(key[n], key[m])
    <3>1. SelectStep(r, best, caps[n]) = best
      BY <1>12, <2>3, <2>5 DEF SelectStep
    <3>2. ~ (n < m)
      BY <1>1, <2>1
    <3>3. IsFirst(m, key)
      BY <1>7, <2>1, <2>2, <2>5, <3>2 DEF IsFirst
    <3>4. QED
      BY <1>2, <1>3, <1>12, <3>1, <3>3 DEF SelectedUpTo
  <2>6. QED
    BY <2>4, <2>5
<1>13. \/ was = {} /\ best = <<>>
       \/ \E m \in 1 .. (n - 1) : IsFirst(m, old) /\ best = <<caps[m]>>
  BY <1>3 DEF SelectedUpTo, was
<1>14. QED
  BY <1>10, <1>11, <1>12, <1>13

LEMMA SelectIsFirst ==
  ASSUME NEW r \in TheCaps, NEW caps \in Seq(TheCaps)
  PROVE  /\ ExecSelect(caps, r) = Select(caps, r)
         /\ SelectedUpTo(caps, r, Len(caps), Select(caps, r))
<1> DEFINE n == Len(caps)
<1>1. n \in Nat
  OBVIOUS
<1>2. PICK h \in [0..n -> Selection] :
             /\ ExecSelect(caps, r) = h[n] /\ Select(caps, r) = h[n]
             /\ h[0] = <<>>
             /\ \A x \in 1..n : h[x] = SelectStep(r, h[x - 1], caps[x])
  BY SelectUnfolds
<1> DEFINE J == [x \in 0..n |-> {b \in Selection : SelectedUpTo(caps, r, x, b)}]
<1>3. /\ 0 \in 0..n /\ n \in 0..n
      /\ \A x \in 1..n : x \in 0..n /\ x - 1 \in 0..n
  BY <1>1
<1>4. h[0] \in J[0]
  <2>1. HitsUpTo(caps, r, 0) = {}
    BY DEF HitsUpTo
  <2>2. SelectedUpTo(caps, r, 0, h[0])
    BY <1>2, <2>1 DEF SelectedUpTo
  <2>3. QED
    BY <1>2, <1>3, <2>2
<1>5. ASSUME NEW x \in 1..n, h[x - 1] \in J[x - 1]
      PROVE  h[x] \in J[x]
  <2>1. x \in 0..n /\ x - 1 \in 0..n
    BY <1>3
  <2>2. SelectedUpTo(caps, r, x - 1, h[x - 1])
    BY <1>5, <2>1
  <2>3. SelectedUpTo(caps, r, x, SelectStep(r, h[x - 1], caps[x]))
    BY <2>2, SelectedOneMore
  <2>4. h[x] = SelectStep(r, h[x - 1], caps[x])
    BY <1>2
  <2>5. h[x] \in Selection
    BY <1>2, <2>1
  <2>6. QED
    BY <2>1, <2>3, <2>4, <2>5
<1>6. \A x \in 0..n : h[x] \in J[x]
  <2> HIDE DEF n, J
  <2>1. QED
    BY <1>1, <1>4, <1>5, StepByStep
<1>7. SelectedUpTo(caps, r, n, h[n])
  BY <1>3, <1>6
<1>8. QED
  BY <1>2, <1>7
-----------------------------------------------------------------------------
(***************************************************************************)
(* The table has the caps of the rosters.                                  *)
(***************************************************************************)
TheEntries == [cap : TheCaps, owner : Cartridges]

RosterTypes == roster \in [Masters -> Rosters] /\ healthy \in [Masters -> BOOLEAN]

Listed ==
  {e \in [cap : TheCaps, owner : Cartridges, master : Masters] :
     \E l \in DOMAIN roster[e.master] : e.cap = roster[e.master][l].cap}

LEMMA RosterFacts ==
  ASSUME RosterTypes, NEW m \in Masters
  PROVE  /\ roster[m] \in Seq(TheEntries)
         /\ DOMAIN roster[m] \in SUBSET Nat
         /\ \A l \in DOMAIN roster[m] :
              roster[m][l].cap \in TheCaps /\ roster[m][l].owner \in Cartridges
<1>1. Rosters \subseteq Seq(TheEntries)
  BY RoutingAssumption DEF TheEntries, TheCaps
<1>2. roster[m] \in Seq(TheEntries)
  BY <1>1 DEF RosterTypes
<1> HIDE DEF TheEntries
<1>3. DOMAIN roster[m] = 1 .. Len(roster[m]) /\ Len(roster[m]) \in Nat
  BY <1>2
<1>4. \A l \in DOMAIN roster[m] : roster[m][l] \in TheEntries
  BY <1>2
<1>5. QED
  BY <1>2, <1>3, <1>4 DEF TheEntries

LEMMA TableType ==
  ASSUME RosterTypes
  PROVE  Table \in Seq(Listed)
<1> DEFINE Part(m) == IF healthy[m]
                      THEN [n \in DOMAIN roster[m] |->
                             [cap |-> roster[m][n].cap, owner |-> roster[m][n].owner,
                              master |-> m]]
                      ELSE <<>>
           seqs == [m \in Masters |-> Part(m)]
<1>1. ASSUME NEW m \in Masters
      PROVE  Part(m) \in Seq(Listed)
  <2>1. DOMAIN roster[m] = 1 .. Len(roster[m]) /\ Len(roster[m]) \in Nat
    BY RosterFacts
  <2>2. ASSUME NEW n \in DOMAIN roster[m]
        PROVE  [cap |-> roster[m][n].cap, owner |-> roster[m][n].owner, master |-> m] \in Listed
    BY RosterFacts DEF Listed
  <2> HIDE DEF Listed
  <2>3. <<>> \in Seq(Listed)
    OBVIOUS
  <2>4. [n \in DOMAIN roster[m] |->
           [cap |-> roster[m][n].cap, owner |-> roster[m][n].owner, master |-> m]]
          \in Seq(Listed)
    BY <2>1, <2>2
  <2>5. QED
    BY <2>3, <2>4
<1> HIDE DEF Part
<1>2. PICK n \in Nat : Masters = 1 .. n
  BY RoutingAssumption
<1> HIDE DEF Listed
<1>3. seqs \in [1 .. n -> Seq(Listed)]
  BY <1>1, <1>2
<1>4. seqs \in Seq(Seq(Listed))
  BY <1>3
<1>5. FlattenSeq(seqs) \in Seq(Listed)
  BY <1>4, FlattenType
<1>6. Table = FlattenSeq(seqs)
  BY DEF Table, Part
<1>7. QED
  BY <1>5, <1>6

LEMMA TableFacts ==
  ASSUME RosterTypes
  PROVE  /\ Len(Table) \in Nat /\ DOMAIN Table = 1 .. Len(Table)
         /\ \A n \in 1 .. Len(Table) :
              /\ Table[n].cap \in TheCaps /\ Table[n].master \in Masters
              /\ \E l \in DOMAIN roster[Table[n].master] :
                   Table[n].cap = roster[Table[n].master][l].cap
<1>1. Table \in Seq(Listed)
  BY TableType
<1> HIDE DEF Listed
<1>2. Len(Table) \in Nat /\ DOMAIN Table = 1 .. Len(Table)
  BY <1>1
<1>3. \A n \in 1 .. Len(Table) : Table[n] \in Listed
  BY <1>1
<1>4. QED
  BY <1>2, <1>3 DEF Listed
-----------------------------------------------------------------------------
(***************************************************************************)
(* To serve is to be narrower in what is allowed.                          *)
(***************************************************************************)
LEMMA LookupType ==
  ASSUME NEW tags \in Lists, NEW k
  PROVE  /\ Lookup(tags, k) \in Constraints(Values)
         /\ Closed(Lookup(tags, k)) \in Constraints(Values)
<1>1. Missing \in Constraints(Values) /\ Absent \in Constraints(Values)
  BY DEF Constraints, Plain
<1>2. ASSUME NEW m \in 1 .. Len(tags)
      PROVE  tags[m].con \in Constraints(Values)
  <2> DEFINE Entries == [key : Int, con : Constraints(Values)]
  <2>1. tags \in Seq(Entries)
    BY DEF Lists, TagLists
  <2> HIDE DEF Entries
  <2>2. tags[m] \in Entries
    BY <2>1
  <2>3. QED
    BY <2>2 DEF Entries
<1>3. Lookup(tags, k) \in Constraints(Values)
  <2>1. CASE k \in KeysOf(tags)
    <3>1. PICK m \in 1 .. Len(tags) : tags[m].key = k
      BY <2>1, KeyIsOfEntry
    <3>2. QED
      BY <1>2, <3>1, LookupEntry
  <2>2. CASE k \notin KeysOf(tags)
    BY <1>1, <2>2, LookupMissing
  <2>3. QED
    BY <2>1, <2>2
<1>4. QED
  BY <1>1, <1>3 DEF Closed

LEMMA Inclusion ==
  ASSUME NEW c \in Constraints(Values), NEW d \in Constraints(Values)
  PROVE  Allowed(c, Values) \subseteq Allowed(d, Values) <=> TagMatch(c, d)
<1>1. PICK u, v, w \in Values : u # v /\ v # w /\ u # w
  BY RoutingAssumption
<1>2. Nothing \notin Values
  BY RoutingAssumption
<1>3. QED
  BY <1>1, <1>2, MatchIsInclusion

LEMMA NarrowerIs ==
  ASSUME NEW u, NEW w, u.tags \in Lists, w.tags \in Lists, u.prefix = w.prefix
  PROVE  Narrower(u, w) <=> Refines(u, w)
<1>1. \A k : Lookup(u.tags, k) \in Constraints(Values) /\ Lookup(w.tags, k) \in Constraints(Values)
  BY LookupType
<1>2. \A k : Allowed(Lookup(u.tags, k), Values) \subseteq Allowed(Lookup(w.tags, k), Values)
               <=> TagMatch(Lookup(u.tags, k), Lookup(w.tags, k))
  BY <1>1, Inclusion
<1>3. QED
  BY <1>2 DEF Narrower, Refines

LEMMA MeansIs ==
  ASSUME NEW c \in TheCaps, NEW r \in TheCaps
  PROVE  MeansServes(c, r) <=> Serves(c, r)
<1>1. /\ c.in.prefix = "media" /\ c.out.prefix = "media" /\ c.tags.prefix = "cap"
      /\ r.in.prefix = "media" /\ r.out.prefix = "media" /\ r.tags.prefix = "cap"
      /\ c.in.tags \in Lists /\ c.out.tags \in Lists /\ c.tags.tags \in Lists
      /\ r.in.tags \in Lists /\ r.out.tags \in Lists /\ r.tags.tags \in Lists
  BY CapFacts
<1>2. /\ Narrower(MediaTop, r.in) <=> UnconstrainedMedia(r.in)
      /\ Narrower(r.in, c.in) <=> Refines(r.in, c.in)
      /\ Narrower(c.out, r.out) <=> Refines(c.out, r.out)
  BY <1>1, TopFacts, NarrowerIs DEF UnconstrainedMedia
<1>3. \A k : Allowed(Closed(Lookup(c.tags.tags, k)), Values)
                \subseteq Allowed(Lookup(r.tags.tags, k), Values)
               <=> TagMatchClosed(Lookup(c.tags.tags, k), Lookup(r.tags.tags, k))
  <2>1. \A k : /\ Closed(Lookup(c.tags.tags, k)) \in Constraints(Values)
               /\ Lookup(r.tags.tags, k) \in Constraints(Values)
    BY <1>1, LookupType
  <2>2. QED
    BY <2>1, Inclusion DEF TagMatchClosed
<1>4. RefinesClosed(c.tags, r.tags) <=>
        \A k \in AllKeys(c.tags, r.tags) :
          Allowed(Closed(Lookup(c.tags.tags, k)), Values)
            \subseteq Allowed(Lookup(r.tags.tags, k), Values)
  BY <1>1, <1>3 DEF RefinesClosed
<1>5. AskAdmits(OfRequest(r).in, c.in) <=>
        UnconstrainedMedia(r.in) \/ Refines(r.in, c.in)
  BY DEF AskAdmits, OfRequest, Query, Unknown, Covers
<1>6. AskAdmits(OfRequest(r).out, c.out) <=> Refines(c.out, r.out)
  BY DEF AskAdmits, OfRequest, Query, Within
<1>7. OfRequest(r).effect = r.effect /\ OfRequest(r).tags = r.tags
  BY DEF OfRequest, Query
<1>8. Serves(c, r) <=>
        /\ UnconstrainedMedia(r.in) \/ Refines(r.in, c.in)
        /\ Refines(c.out, r.out)
        /\ EffectOk(c.effect, r.effect)
        /\ RefinesClosed(c.tags, r.tags)
  BY <1>5, <1>6, <1>7 DEF Serves, Admits
<1>9. EffectOk(c.effect, r.effect) <=> r.effect \in {"unspecified", c.effect}
  BY DEF EffectOk
<1>10. QED
  BY <1>2, <1>4, <1>8, <1>9 DEF MeansServes

(***************************************************************************)
(* A cap serves a request for it.                                          *)
(***************************************************************************)
LEMMA ServesItself ==
  ASSUME NEW r \in TheCaps
  PROVE  Serves(r, r)
<1>1. \A c \in Constraints(Values) : Allowed(c, Values) \subseteq Allowed(c, Values)
  OBVIOUS
<1>2. ASSUME NEW u, u.tags \in Lists
      PROVE  Narrower(u, u)
  BY DEF Narrower
<1>3. r.in.tags \in Lists /\ r.out.tags \in Lists /\ r.tags.tags \in Lists
  BY CapFacts
<1>4. ASSUME NEW k
      PROVE  Allowed(Closed(Lookup(r.tags.tags, k)), Values)
               \subseteq Allowed(Lookup(r.tags.tags, k), Values)
  <2>1. Lookup(r.tags.tags, k) \in Constraints(Values)
    BY <1>3, LookupType
  <2>2. TagMatch(Closed(Lookup(r.tags.tags, k)), Lookup(r.tags.tags, k))
    <3>1. CASE Lookup(r.tags.tags, k) = Missing
      BY <3>1 DEF TagMatch, Missing, Con, Open
    <3>2. CASE Lookup(r.tags.tags, k) # Missing
      BY <2>1, <3>2, Inclusion DEF Closed
    <3>3. QED
      BY <3>1, <3>2
  <2>3. QED
    BY <1>3, <2>1, <2>2, LookupType, Inclusion
<1>5. MeansServes(r, r)
  BY <1>2, <1>3, <1>4 DEF MeansServes
<1>6. QED
  BY <1>5, MeansIs
-----------------------------------------------------------------------------
(***************************************************************************)
(* What serves on a master is found there, by the host and then by the     *)
(* cartridge.                                                              *)
(***************************************************************************)
LEMMA EntryIsSome ==
  ASSUME NEW e \in TheEntries
  PROVE  e # None
<1>1. DOMAIN e = {"cap", "owner"}
  BY DEF TheEntries
<1>2. DOMAIN None = {"none"}
  BY DEF None
<1>3. "none" \notin {"cap", "owner"}
  OBVIOUS
<1>4. QED
  BY <1>1, <1>2, <1>3

LEMMA FoundFacts ==
  ASSUME NEW entries \in Seq(TheEntries), NEW S \in SUBSET DOMAIN entries, NEW r \in TheCaps
  PROVE  /\ DOMAIN Found(entries, S, r) = {n \in S : Serves(entries[n].cap, r)}
         /\ \A n \in S : Serves(entries[n].cap, r) =>
              /\ Found(entries, S, r)[n] = SortKey(entries[n].cap, r)
              /\ SortKey(entries[n].cap, r) \in TheKeys
         /\ (\E n \in S : Serves(entries[n].cap, r)) =>
              IsFirst(FirstRanked(Found(entries, S, r)), Found(entries, S, r))
<1> DEFINE found == Found(entries, S, r)
           T == {n \in S : Serves(entries[n].cap, r)}
<1>1. \A n \in S : entries[n].cap \in TheCaps /\ n \in Nat
  <2>1. \A n \in S : n \in Nat /\ entries[n] \in TheEntries
    <3> HIDE DEF TheEntries
    <3>1. QED
      OBVIOUS
  <2>2. QED
    BY <2>1 DEF TheEntries
<1>2. {m \in S : Dispatch(entries[m].cap, r)} = T
  BY <1>1, ExecServes
<1>3. found = [n \in T |-> SortKey(entries[n].cap, r)]
  BY <1>2 DEF Found
<1>4. \A n \in T : SortKey(entries[n].cap, r) \in TheKeys
  BY <1>1, KeyFacts
<1> HIDE DEF found
<1>5. found \in [T -> TheKeys] /\ DOMAIN found = T
  BY <1>3, <1>4
<1>6. T \in SUBSET Nat
  BY <1>1
<1>7. T # {} => IsFirst(FirstRanked(found), found)
  BY <1>5, <1>6, FirstExists
<1>8. \A n \in T : found[n] = SortKey(entries[n].cap, r)
  BY <1>3
<1>9. QED
  BY <1>4, <1>5, <1>7, <1>8 DEF found

LEMMA HostFinds ==
  ASSUME NEW entries \in Seq(TheEntries), NEW r \in TheCaps,
         NEW l \in DOMAIN entries, Serves(entries[l].cap, r)
  PROVE  \E h \in DOMAIN entries :
           /\ HostFind(entries, r) = entries[h]
           /\ \/ entries[h].cap = r
              \/ /\ \A n \in DOMAIN entries : entries[n].cap # r
                 /\ Serves(entries[h].cap, r)
                 /\ ~BetterKey(SortKey(entries[l].cap, r), SortKey(entries[h].cap, r))
<1> DEFINE exact == {n \in DOMAIN entries : entries[n].cap = r}
           found == Found(entries, DOMAIN entries, r)
<1>1. CASE exact # {}
  <2>1. exact \in SUBSET Nat
    <3> HIDE DEF TheEntries
    <3>1. DOMAIN entries \subseteq Nat
      OBVIOUS
    <3>2. QED
      BY <3>1
  <2> DEFINE h == CHOOSE n \in exact : \A k \in exact : n <= k
  <2>2. h \in exact
    <3> HIDE DEF exact
    <3>1. \E n \in exact : \A k \in exact : n <= k
      BY <1>1, <2>1, LeastOf
    <3>2. QED
      BY <3>1
  <2>3. HostFind(entries, r) = entries[h]
    BY <1>1 DEF HostFind
  <2> HIDE DEF h
  <2>4. QED
    BY <2>2, <2>3
<1>2. CASE exact = {}
  <2>1. /\ DOMAIN found = {n \in DOMAIN entries : Serves(entries[n].cap, r)}
        /\ \A n \in DOMAIN found : found[n] = SortKey(entries[n].cap, r)
        /\ IsFirst(FirstRanked(found), found)
    <3>1. DOMAIN entries \in SUBSET DOMAIN entries
      OBVIOUS
    <3> HIDE DEF TheEntries
    <3>2. QED
      BY <3>1, FoundFacts
  <2>2. l \in DOMAIN found
    BY <2>1
  <2>3. HostFind(entries, r) = entries[FirstRanked(found)]
    BY <1>2, <2>2 DEF HostFind
  <2>4. /\ FirstRanked(found) \in DOMAIN found
        /\ ~BetterKey(found[l], found[FirstRanked(found)])
    BY <2>1, <2>2 DEF IsFirst
  <2> HIDE DEF found
  <2>5. QED
    BY <1>2, <2>1, <2>2, <2>3, <2>4
<1>3. QED
  BY <1>1, <1>2

LEMMA CartridgeFinds ==
  ASSUME NEW entries \in Seq(TheEntries), NEW r \in TheCaps,
         NEW h \in DOMAIN entries, Serves(entries[h].cap, r)
  PROVE  \E n \in DOMAIN entries :
           /\ CartridgeFind(entries, entries[h].owner, r) = entries[n]
           /\ \/ entries[n].cap = r
              \/ /\ entries[h].cap # r
                 /\ Serves(entries[n].cap, r)
                 /\ ~BetterKey(SortKey(entries[h].cap, r), SortKey(entries[n].cap, r))
<1> DEFINE own == {n \in DOMAIN entries : entries[n].owner = entries[h].owner}
           exact == {n \in own : entries[n].cap = r}
           found == Found(entries, own, r)
<1>1. CASE exact # {}
  <2> DEFINE x == CHOOSE n \in exact : TRUE
  <2>1. x \in exact
    BY <1>1
  <2>2. CartridgeFind(entries, entries[h].owner, r) = entries[x]
    BY <1>1 DEF CartridgeFind
  <2> HIDE DEF x
  <2>3. QED
    BY <2>1, <2>2
<1>2. CASE exact = {}
  <2>1. /\ DOMAIN found = {n \in own : Serves(entries[n].cap, r)}
        /\ \A n \in DOMAIN found : found[n] = SortKey(entries[n].cap, r)
        /\ IsFirst(FirstRanked(found), found)
    <3>1. own \in SUBSET DOMAIN entries /\ h \in own
      OBVIOUS
    <3> HIDE DEF own
    <3>2. QED
      BY <3>1, FoundFacts
  <2>2. h \in DOMAIN found /\ entries[h].cap # r
    BY <1>2, <2>1
  <2>3. CartridgeFind(entries, entries[h].owner, r) = entries[FirstRanked(found)]
    BY <1>2, <2>2 DEF CartridgeFind
  <2>4. /\ FirstRanked(found) \in DOMAIN found
        /\ ~BetterKey(found[h], found[FirstRanked(found)])
    BY <2>1, <2>2 DEF IsFirst
  <2> HIDE DEF found
  <2>5. QED
    BY <2>1, <2>2, <2>3, <2>4
<1>3. QED
  BY <1>1, <1>2

LEMMA Handled ==
  ASSUME NEW entries \in Seq(TheEntries), NEW r \in TheCaps,
         NEW l \in DOMAIN entries, Serves(entries[l].cap, r)
  PROVE  \E hosted \in {HostFind(entries, r)} :
           /\ hosted # None
           /\ \E handler \in {CartridgeFind(entries, hosted.owner, r)} :
                /\ handler # None
                /\ MeansServes(handler.cap, r)
                /\ ~BetterKey(SortKey(entries[l].cap, r), SortKey(handler.cap, r))
<1>1. \A n \in DOMAIN entries : entries[n] \in TheEntries
  <2> HIDE DEF TheEntries
  <2>1. QED
    OBVIOUS
<1>2. \A n \in DOMAIN entries :
        /\ entries[n] # None /\ entries[n].cap \in TheCaps
        /\ SortKey(entries[n].cap, r) \in TheKeys
  <2>1. \A n \in DOMAIN entries : entries[n] # None
    BY <1>1, EntryIsSome
  <2>2. \A n \in DOMAIN entries : entries[n].cap \in TheCaps
    BY <1>1 DEF TheEntries
  <2>3. QED
    BY <2>1, <2>2, KeyFacts
<1>3. Serves(r, r) /\ SortKey(r, r) = <<0, 0>>
  BY ServesItself, OwnKey
<1>4. PICK h \in DOMAIN entries :
        /\ HostFind(entries, r) = entries[h]
        /\ \/ entries[h].cap = r
           \/ /\ \A n \in DOMAIN entries : entries[n].cap # r
              /\ Serves(entries[h].cap, r)
              /\ ~BetterKey(SortKey(entries[l].cap, r), SortKey(entries[h].cap, r))
  BY HostFinds
<1>5. Serves(entries[h].cap, r)
  BY <1>3, <1>4
<1>6. PICK n \in DOMAIN entries :
        /\ CartridgeFind(entries, entries[h].owner, r) = entries[n]
        /\ \/ entries[n].cap = r
           \/ /\ entries[h].cap # r
              /\ Serves(entries[n].cap, r)
              /\ ~BetterKey(SortKey(entries[h].cap, r), SortKey(entries[n].cap, r))
  BY <1>5, CartridgeFinds
<1>7. Serves(entries[n].cap, r)
  BY <1>3, <1>6
<1>8. ~BetterKey(SortKey(entries[l].cap, r), SortKey(entries[n].cap, r))
  <2>1. CASE entries[n].cap = r
    BY <1>2, <1>3, <2>1, KeyOrder
  <2>2. CASE entries[n].cap # r
    BY <1>2, <1>4, <1>6, <2>2, KeyOrder
  <2>3. QED
    BY <2>1, <2>2
<1>9. MeansServes(entries[n].cap, r)
  BY <1>2, <1>7, MeansIs
<1>10. QED
  BY <1>2, <1>4, <1>6, <1>8, <1>9
-----------------------------------------------------------------------------
(***************************************************************************)
(* The inductive invariant.  While the table is read, what was found is    *)
(* the entries read so far that serve the request, in their order, and the *)
(* sides compared before the one at hand fit.  What the request was sent   *)
(* to is the first of the nearest, or the first preferred.                 *)
(***************************************************************************)
Matched == [master : Masters, cap : TheCaps, key : TheKeys]

Hits == {n \in 1 .. Len(Table) : Serves(Table[n].cap, request)}

HitKeys == [n \in Hits |-> SortKey(Table[n].cap, request)]

Wanted == {n \in Hits : IsPreferred(Table[n].cap)}

Stages == {"idle", "permitting", "waiting", "sending", "sent", "refused"}

RouteTypes ==
  /\ RosterTypes /\ request \in TheCaps
  /\ stage \in Stages /\ side \in {"start", "in", "out", "tags"}

InputFits == UnconstrainedMedia(request.in) \/ Refines(request.in, Candidate.in)

SidesInv ==
  Scanning /\ side # "start" =>
    /\ pos \in 1 .. Len(Table)
    /\ side = "in"   => /\ rel = "refines"
                        /\ inst = request.in.tags /\ patt = Candidate.in.tags
                        /\ ~UnconstrainedMedia(request.in)
    /\ side = "out"  => /\ rel = "refines"
                        /\ inst = Candidate.out.tags /\ patt = request.out.tags
                        /\ InputFits
    /\ side = "tags" => /\ rel = "refinesClosed"
                        /\ inst = Candidate.tags.tags /\ patt = request.tags.tags
                        /\ InputFits
                        /\ Refines(Candidate.out, request.out)
                        /\ EffectOk(Candidate.effect, request.effect)

(* The entries that matches has, by their places in the table.             *)
ReadSoFar(at) ==
  /\ \A n \in 1 .. Len(matches) :
       matches[n] = Match(Table[at[n]]) /\ Serves(Table[at[n]].cap, request)
  /\ \A m, n \in 1 .. Len(matches) : m < n => at[m] < at[n]
  /\ \A k \in 1 .. (pos - 1) :
       Serves(Table[k].cap, request) => \E n \in 1 .. Len(matches) : at[n] = k

ScanInv ==
  Scanning =>
    /\ pos \in 1 .. (Len(Table) + 1)
    /\ matches \in Seq(Matched)
    /\ \E at \in [1 .. Len(matches) -> 1 .. (pos - 1)] : ReadSoFar(at)

IsChosen(n) ==
  /\ n \in Hits
  /\ Wanted = {} => IsFirst(n, HitKeys)
  /\ Wanted # {} => n \in Wanted /\ \A k \in Wanted : n <= k

DestInv ==
  /\ stage = "sent" => \E n \in 1 .. Len(Table) : IsChosen(n) /\ dest = Match(Table[n])
  /\ stage = "refused" => Hits = {}

IInv == RouteTypes /\ PassInv /\ SidesInv /\ ScanInv /\ DestInv
-----------------------------------------------------------------------------
LEMMA SameTable ==
  ASSUME UNCHANGED <<roster, healthy>>
  PROVE  Table' = Table
BY DEF Table

LEMMA MatchType ==
  ASSUME RouteTypes, NEW n \in 1 .. Len(Table)
  PROVE  /\ Match(Table[n]) \in Matched
         /\ Match(Table[n]).master = Table[n].master
         /\ Match(Table[n]).cap = Table[n].cap
         /\ Match(Table[n]).key = SortKey(Table[n].cap, request)
<1>1. /\ Table[n].cap \in TheCaps /\ Table[n].master \in Masters
      /\ SortKey(Table[n].cap, request) \in TheKeys
  BY TableFacts, KeyFacts DEF RouteTypes
<1>2. QED
  BY <1>1 DEF Match, Matched

LEMMA MatchedIsSome ==
  ASSUME NEW e \in Matched
  PROVE  e # None
<1>1. DOMAIN e = {"master", "cap", "key"}
  BY DEF Matched
<1>2. DOMAIN None = {"none"}
  BY DEF None
<1>3. "none" \notin {"master", "cap", "key"}
  OBVIOUS
<1>4. QED
  BY <1>1, <1>2, <1>3

LEMMA CandidateFacts ==
  ASSUME RouteTypes, pos \in 1 .. Len(Table)
  PROVE  /\ Candidate \in TheCaps /\ Candidate = Table[pos].cap
         /\ Serves(Candidate, request) <=>
              /\ InputFits
              /\ Refines(Candidate.out, request.out)
              /\ EffectOk(Candidate.effect, request.effect)
              /\ RefinesClosed(Candidate.tags, request.tags)
<1>1. Candidate \in TheCaps /\ Candidate = Table[pos].cap
  BY TableFacts DEF RouteTypes, Candidate
<1>2. AskAdmits(OfRequest(request).in, Candidate.in) <=> InputFits
  BY DEF AskAdmits, OfRequest, Query, Unknown, Covers, InputFits
<1>3. AskAdmits(OfRequest(request).out, Candidate.out) <=> Refines(Candidate.out, request.out)
  BY DEF AskAdmits, OfRequest, Query, Within
<1>4. OfRequest(request).effect = request.effect /\ OfRequest(request).tags = request.tags
  BY DEF OfRequest, Query
<1>5. QED
  BY <1>1, <1>2, <1>3, <1>4 DEF Serves, Admits

(***************************************************************************)
(* What the answer of a pass says of the side that is compared.            *)
(***************************************************************************)
LEMMA SideAnswer ==
  ASSUME RouteTypes, SidesInv, Scanning, side # "start"
  PROVE  /\ side = "in" => (Related <=> Refines(request.in, Candidate.in))
         /\ side = "out" => (Related <=> Refines(Candidate.out, request.out))
         /\ side = "tags" => (Related <=> RefinesClosed(Candidate.tags, request.tags))
<1>1. Candidate \in TheCaps /\ request \in TheCaps
  BY CandidateFacts DEF SidesInv, RouteTypes
<1>2. /\ request.in.prefix = Candidate.in.prefix
      /\ request.out.prefix = Candidate.out.prefix
      /\ request.tags.prefix = Candidate.tags.prefix
  BY <1>1, CapFacts
<1>3. /\ \A x, y : Test("refines", x, y) <=> TagMatch(x, y)
      /\ \A x, y : Test("refinesClosed", x, y) <=> TagMatchClosed(x, y)
  BY DEF Test
<1>4. side = "in" => (Related <=> Refines(request.in, Candidate.in))
  BY <1>2, <1>3 DEF SidesInv, Related, Refines, AllKeys
<1>5. side = "out" => (Related <=> Refines(Candidate.out, request.out))
  BY <1>2, <1>3 DEF SidesInv, Related, Refines, AllKeys
<1>6. side = "tags" => (Related <=> RefinesClosed(Candidate.tags, request.tags))
  BY <1>2, <1>3 DEF SidesInv, Related, RefinesClosed, AllKeys
<1>7. QED
  BY <1>4, <1>5, <1>6
-----------------------------------------------------------------------------
(***************************************************************************)
(* The steps that compare the sides of an entry.                           *)
(***************************************************************************)
LEMMA ScanAsBefore ==
  ASSUME IInv, UNCHANGED <<roster, healthy, stage, request, preferred, pos, matches, dest>>
  PROVE  /\ ScanInv' /\ DestInv' /\ Table' = Table /\ Candidate' = Candidate
         /\ (RosterTypes /\ request \in TheCaps /\ stage \in Stages)'
         /\ Scanning' = Scanning /\ InputFits' = InputFits
<1>1. Table' = Table
  BY SameTable
<1>2. Scanning' = Scanning /\ Candidate' = Candidate /\ InputFits' = InputFits
  BY <1>1 DEF Scanning, Candidate, InputFits
<1>3. (RosterTypes /\ request \in TheCaps /\ stage \in Stages)'
  BY DEF IInv, RouteTypes, RosterTypes
<1>4. ScanInv'
  <2>1. \A n : Match(Table[n])' = Match(Table[n])
    BY <1>1 DEF Match
  <2>2. \A at : ReadSoFar(at)' <=> ReadSoFar(at)
    BY <1>1, <2>1 DEF ReadSoFar
  <2>3. Matched' = Matched
    BY DEF Matched, TheCaps
  <2>4. QED
    BY <1>1, <1>2, <2>2, <2>3 DEF IInv, ScanInv
<1>5. DestInv'
  <2>1. Hits' = Hits
    BY <1>1 DEF Hits
  <2>2. HitKeys' = HitKeys /\ Wanted' = Wanted
    BY <1>1, <2>1 DEF HitKeys, Wanted, IsPreferred
  <2>3. \A n : IsChosen(n)' <=> IsChosen(n)
    BY <2>1, <2>2 DEF IsChosen
  <2>4. \A n : Match(Table[n])' = Match(Table[n])
    BY <1>1 DEF Match
  <2>5. QED
    BY <1>1, <2>1, <2>3, <2>4 DEF IInv, DestInv
<1>6. QED
  BY <1>1, <1>2, <1>3, <1>4, <1>5

LEMMA CompareInv ==
  ASSUME IInv, NEW s \in {"in", "out", "tags"}, Compare(s), Scanning,
         pos \in 1 .. Len(Table),
         s = "in" => ~UnconstrainedMedia(request.in),
         s \in {"out", "tags"} => InputFits,
         s = "tags" => /\ Refines(Candidate.out, request.out)
                       /\ EffectOk(Candidate.effect, request.effect)
  PROVE  IInv'
<1>1. /\ Candidate \in TheCaps /\ request \in TheCaps
  BY CandidateFacts DEF IInv, RouteTypes
<1>2. /\ Candidate.in.tags \in Lists /\ Candidate.out.tags \in Lists /\ Candidate.tags.tags \in Lists
      /\ request.in.tags \in Lists /\ request.out.tags \in Lists /\ request.tags.tags \in Lists
  BY <1>1, CapFacts
<1>3. /\ side' = s
      /\ UNCHANGED <<roster, healthy, stage, request, preferred, pos, matches, dest>>
  BY DEF Compare
<1>4. /\ ScanInv' /\ DestInv' /\ Table' = Table /\ Candidate' = Candidate
      /\ (RosterTypes /\ request \in TheCaps /\ stage \in Stages)'
      /\ Scanning' = Scanning /\ InputFits' = InputFits
  BY <1>3, ScanAsBefore
<1>5. RouteTypes'
  BY <1>3, <1>4 DEF RouteTypes
<1>6. CASE s = "in"
  <2>1. StartMerge("refines", request.in.tags, Candidate.in.tags)
    BY <1>6 DEF Compare
  <2>2. PassInv'
    BY <1>2, <2>1, StartInv DEF Relations
  <2>3. SidesInv'
    BY <1>3, <1>4, <1>6, <2>1 DEF SidesInv, StartMerge
  <2>4. QED
    BY <1>4, <1>5, <2>2, <2>3 DEF IInv
<1>7. CASE s = "out"
  <2>1. StartMerge("refines", Candidate.out.tags, request.out.tags)
    BY <1>7 DEF Compare
  <2>2. PassInv'
    BY <1>2, <2>1, StartInv DEF Relations
  <2>3. SidesInv'
    BY <1>3, <1>4, <1>7, <2>1 DEF SidesInv, StartMerge
  <2>4. QED
    BY <1>4, <1>5, <2>2, <2>3 DEF IInv
<1>8. CASE s = "tags"
  <2>1. StartMerge("refinesClosed", Candidate.tags.tags, request.tags.tags)
    BY <1>8 DEF Compare
  <2>2. PassInv'
    BY <1>2, <2>1, StartInv DEF Relations
  <2>3. SidesInv'
    BY <1>3, <1>4, <1>8, <2>1 DEF SidesInv, StartMerge
  <2>4. QED
    BY <1>4, <1>5, <2>2, <2>3 DEF IInv
<1>9. QED
  BY <1>6, <1>7, <1>8

LEMMA ReadEntryInv ==
  ASSUME IInv, ReadEntry
  PROVE  IInv'
<1>1. pos \in 1 .. Len(Table) /\ Scanning /\ request.in.tags \in Lists
  BY TableFacts, CapFacts DEF ReadEntry, IInv, ScanInv, RouteTypes
<1>2. ExecUnconstrained(request.in) <=> UnconstrainedMedia(request.in)
  BY <1>1, ExecOpen
<1>3. CASE UnconstrainedMedia(request.in)
  <2>1. Compare("out") /\ InputFits
    BY <1>2, <1>3 DEF ReadEntry, InputFits
  <2>2. QED
    BY <1>1, <2>1, CompareInv
<1>4. CASE ~UnconstrainedMedia(request.in)
  <2>1. Compare("in")
    BY <1>2, <1>4 DEF ReadEntry
  <2>2. QED
    BY <1>1, <1>4, <2>1, CompareInv
<1>5. QED
  BY <1>3, <1>4

LEMMA InFitsInv ==
  ASSUME IInv, InFits
  PROVE  IInv'
<1>1. Scanning /\ side = "in" /\ answer = "yes" /\ Compare("out")
  BY DEF InFits
<1>2. Related /\ pos \in 1 .. Len(Table)
  BY <1>1 DEF IInv, PassInv, AnswerIsRelation, SidesInv
<1>3. InputFits
  BY <1>1, <1>2, SideAnswer DEF IInv, InputFits
<1>4. QED
  BY <1>1, <1>2, <1>3, CompareInv

LEMMA OutFitsInv ==
  ASSUME IInv, OutFits
  PROVE  IInv'
<1>1. Scanning /\ side = "out" /\ answer = "yes" /\ Compare("tags")
  BY DEF OutFits
<1>2. Related /\ pos \in 1 .. Len(Table) /\ InputFits
  BY <1>1 DEF IInv, PassInv, AnswerIsRelation, SidesInv
<1>3. Refines(Candidate.out, request.out)
  BY <1>1, <1>2, SideAnswer DEF IInv
<1>4. EffectOk(Candidate.effect, request.effect)
  BY DEF OutFits, ExecEffectOk, EffectOk
<1>5. QED
  BY <1>1, <1>2, <1>3, <1>4, CompareInv

LEMMA MergePassInv ==
  ASSUME IInv, MergePass
  PROVE  IInv'
<1>1. MergeStep /\ UNCHANGED routeVars
  BY DEF MergePass
<1>2. PassInv'
  BY <1>1, PassStep DEF IInv
<1>3. UNCHANGED <<rel, inst, patt>>
  BY <1>1 DEF MergeStep, InstEnds, PattEnds, InstFirst, PattFirst, SameKey
<1>4. /\ ScanInv' /\ DestInv' /\ Table' = Table /\ Candidate' = Candidate
      /\ (RosterTypes /\ request \in TheCaps /\ stage \in Stages)'
      /\ Scanning' = Scanning /\ InputFits' = InputFits
  BY <1>1, ScanAsBefore DEF routeVars
<1>5. RouteTypes'
  BY <1>1, <1>4 DEF RouteTypes, IInv, routeVars
<1>6. SidesInv'
  BY <1>1, <1>3, <1>4 DEF SidesInv, IInv, routeVars
<1>7. QED
  BY <1>2, <1>4, <1>5, <1>6 DEF IInv
-----------------------------------------------------------------------------
(***************************************************************************)
(* The steps from entry to entry.                                          *)
(***************************************************************************)
LEMMA StartScanInv ==
  ASSUME IInv, NEW scan \in {"permitting", "sending"}, StartScan(scan)
  PROVE  IInv'
<1>1. /\ stage' = scan /\ pos' = 1 /\ side' = "start" /\ matches' = <<>>
      /\ UNCHANGED <<roster, healthy, request>> /\ UNCHANGED mergeVars
  BY DEF StartScan
<1>2. PassInv'
  BY <1>1 DEF IInv, PassInv, ListsInv, ApartInv, ReadInv, AnswerIsRelation, Related, Holds, mergeVars
<1>3. RouteTypes'
  BY <1>1 DEF IInv, RouteTypes, RosterTypes, Stages
<1>4. SidesInv' /\ DestInv'
  BY <1>1 DEF SidesInv, DestInv
<1>5. ScanInv'
  <2>1. Table' = Table /\ Len(Table) \in Nat
    BY <1>1, SameTable, TableFacts DEF IInv, RouteTypes
  <2>2. pos' \in 1 .. (Len(Table') + 1) /\ matches' \in Seq(Matched)
    <3>1. <<>> \in Seq(Matched)
      OBVIOUS
    <3>2. 1 \in 1 .. (Len(Table) + 1)
      BY <2>1
    <3>3. QED
      BY <1>1, <2>1, <3>1, <3>2
  <2> DEFINE at == [n \in {} |-> 1]
  <2>3. 1 .. Len(matches') = {} /\ 1 .. (pos' - 1) = {}
    <3>1. Len(<<>>) = 0 /\ 1 - 1 = 0 /\ 1 .. 0 = {}
      OBVIOUS
    <3>2. QED
      BY <1>1, <3>1
  <2>4. at \in [1 .. Len(matches') -> 1 .. (pos' - 1)]
    BY <2>3
  <2>5. ReadSoFar(at)'
    BY <2>3 DEF ReadSoFar
  <2>6. Matched' = Matched
    BY DEF Matched, TheCaps
  <2> HIDE DEF at
  <2>7. \E a \in [1 .. Len(matches') -> 1 .. (pos' - 1)] : ReadSoFar(a)'
    BY <2>4, <2>5
  <2>8. QED
    BY <2>2, <2>6, <2>7 DEF ScanInv
<1>6. QED
  BY <1>2, <1>3, <1>4, <1>5 DEF IInv

LEMMA NextEntryInv ==
  ASSUME IInv, Scanning, pos \in 1 .. Len(Table), NEW found, NextEntry(found),
         \/ found = <<>> /\ ~Serves(Candidate, request)
         \/ found = <<Match(Table[pos])>> /\ Serves(Candidate, request)
  PROVE  IInv'
<1>1. /\ matches' = matches \o found /\ pos' = pos + 1 /\ side' = "start"
      /\ UNCHANGED <<roster, healthy, stage, request, preferred, dest>> /\ UNCHANGED mergeVars
  BY DEF NextEntry
<1>2. PassInv'
  BY <1>1 DEF IInv, PassInv, ListsInv, ApartInv, ReadInv, AnswerIsRelation, Related, Holds, mergeVars
<1>3. RouteTypes'
  BY <1>1 DEF IInv, RouteTypes, RosterTypes
<1>4. SidesInv'
  BY <1>1 DEF SidesInv
<1>5. stage \notin {"sent", "refused"}
  BY DEF Scanning
<1>6. DestInv'
  BY <1>1, <1>5 DEF DestInv
<1>7. Table' = Table /\ Len(Table) \in Nat /\ Candidate = Table[pos].cap
  BY <1>1, SameTable, TableFacts DEF IInv, RouteTypes, Candidate
<1>8. Matched' = Matched /\ \A n : Match(Table[n])' = Match(Table[n])
  BY <1>1, <1>7 DEF Matched, TheCaps, Match
<1>9. matches \in Seq(Matched) /\ Match(Table[pos]) \in Matched
  BY MatchType DEF IInv, ScanInv
<1>10. PICK at \in [1 .. Len(matches) -> 1 .. (pos - 1)] : ReadSoFar(at)
  BY DEF IInv, ScanInv
<1> DEFINE k == Len(matches)
<1>11. k \in Nat /\ pos \in Nat /\ pos' \in 1 .. (Len(Table') + 1) /\ pos' - 1 = pos
  BY <1>1, <1>7, <1>9
<1>12. CASE found = <<>> /\ ~Serves(Candidate, request)
  <2>1. matches' = matches
    BY <1>1, <1>9, <1>12
  <2>2. at \in [1 .. Len(matches') -> 1 .. (pos' - 1)]
    <3>1. 1 .. (pos - 1) \subseteq 1 .. pos
      BY <1>11
    <3>2. QED
      BY <1>11, <2>1, <3>1
  <2>3. ReadSoFar(at)'
    <3>1. \A m \in 1 .. pos : m = pos \/ m \in 1 .. (pos - 1)
      BY <1>11
    <3>2. ~Serves(Table[pos].cap, request)
      BY <1>7, <1>12
    <3>3. \A m \in 1 .. pos :
            Serves(Table[m].cap, request) => \E n \in 1 .. Len(matches) : at[n] = m
      BY <1>10, <3>1, <3>2 DEF ReadSoFar
    <3>4. QED
      BY <1>1, <1>7, <1>8, <1>10, <1>11, <2>1, <3>3 DEF ReadSoFar
  <2>4. QED
    BY <1>2, <1>3, <1>4, <1>6, <1>8, <1>9, <1>11, <2>1, <2>2, <2>3 DEF IInv, ScanInv
<1>13. CASE found = <<Match(Table[pos])>> /\ Serves(Candidate, request)
  <2>1. /\ matches' \in Seq(Matched) /\ Len(matches') = k + 1
        /\ \A n \in 1 .. k : matches'[n] = matches[n]
        /\ matches'[k + 1] = Match(Table[pos])
    BY <1>1, <1>9, <1>13
  <2> PICK to : to = [n \in 1 .. (k + 1) |-> IF n = k + 1 THEN pos ELSE at[n]]
    OBVIOUS
  <2>2. \A n \in 1 .. (k + 1) : n = k + 1 \/ (n \in 1 .. k /\ n # k + 1 /\ n < k + 1)
    BY <1>11
  <2>3. to[k + 1] = pos /\ \A n \in 1 .. k : to[n] = at[n] /\ at[n] \in 1 .. (pos - 1)
    BY <1>10, <1>11
  <2>4. to \in [1 .. Len(matches') -> 1 .. (pos' - 1)]
    <3>1. \A n \in 1 .. (k + 1) : to[n] \in 1 .. pos
      BY <1>11, <2>2, <2>3
    <3>2. QED
      BY <1>11, <2>1, <3>1
  <2> HIDE DEF k
  <2>5. \A n \in 1 .. (k + 1) :
          matches'[n] = Match(Table[to[n]]) /\ Serves(Table[to[n]].cap, request)
    BY <1>7, <1>10, <1>13, <2>1, <2>2, <2>3 DEF ReadSoFar, k
  <2>6. ASSUME NEW m \in 1 .. (k + 1), NEW n \in 1 .. (k + 1), m < n
        PROVE  to[m] < to[n]
    <3>1. m \in 1 .. k
      BY <1>11, <2>6
    <3>2. CASE n = k + 1
      <4>1. to[n] = pos /\ to[m] = at[m] /\ at[m] \in 1 .. (pos - 1)
        BY <2>3, <3>1, <3>2
      <4>2. QED
        BY <1>11, <4>1
    <3>3. CASE n # k + 1
      <4>1. n \in 1 .. k
        BY <2>2, <3>3
      <4>2. at[m] < at[n]
        BY <1>10, <2>6, <3>1, <4>1 DEF ReadSoFar, k
      <4>3. QED
        BY <2>3, <3>1, <4>1, <4>2
    <3>4. QED
      BY <3>2, <3>3
  <2>7. ASSUME NEW x \in 1 .. pos, Serves(Table[x].cap, request)
        PROVE  \E n \in 1 .. (k + 1) : to[n] = x
    <3>1. CASE x = pos
      <4>1. k + 1 \in 1 .. (k + 1)
        BY <1>11
      <4>2. QED
        BY <2>3, <3>1, <4>1
    <3>2. CASE x # pos
      <4>1. x \in 1 .. (pos - 1)
        BY <1>11, <3>2
      <4>2. PICK n \in 1 .. k : at[n] = x
        BY <1>10, <2>7, <4>1 DEF ReadSoFar, k
      <4>3. n \in 1 .. (k + 1)
        BY <1>11
      <4>4. QED
        BY <2>3, <4>2, <4>3
    <3>3. QED
      BY <3>1, <3>2
  <2>8. ReadSoFar(to)'
    <3>1. (\A n : Match(Table[n])' = Match(Table[n])) /\ request' = request
      BY <1>1, <1>8
    <3>2. \A n \in 1 .. Len(matches') :
            matches'[n] = Match(Table[to[n]])' /\ Serves(Table'[to[n]].cap, request')
      BY <1>7, <2>1, <2>5, <3>1
    <3>3. \A m, n \in 1 .. Len(matches') : m < n => to[m] < to[n]
      BY <2>1, <2>6
    <3>4. \A x \in 1 .. (pos' - 1) :
            Serves(Table'[x].cap, request') => \E n \in 1 .. Len(matches') : to[n] = x
      BY <1>7, <1>11, <2>1, <2>7, <3>1
    <3>5. QED
      BY <3>2, <3>3, <3>4 DEF ReadSoFar
  <2>9. \E a \in [1 .. Len(matches') -> 1 .. (pos' - 1)] : ReadSoFar(a)'
    BY <2>4, <2>8
  <2>10. ScanInv'
    BY <1>8, <1>11, <2>1, <2>9 DEF ScanInv
  <2>11. QED
    BY <1>2, <1>3, <1>4, <1>6, <2>10 DEF IInv
<1>14. QED
  BY <1>12, <1>13

LEMMA ExcludedInv ==
  ASSUME IInv, Excluded
  PROVE  IInv'
<1>1. Scanning /\ side # "start" /\ NextEntry(<<>>)
  BY DEF Excluded
<1>2. pos \in 1 .. Len(Table) /\ side \in {"in", "out", "tags"}
  BY <1>1 DEF IInv, SidesInv, RouteTypes
<1>3. Serves(Candidate, request) <=>
        /\ InputFits
        /\ Refines(Candidate.out, request.out)
        /\ EffectOk(Candidate.effect, request.effect)
        /\ RefinesClosed(Candidate.tags, request.tags)
  BY <1>2, CandidateFacts DEF IInv
<1>4. CASE answer = "no"
  <2>1. ~Related
    BY <1>4 DEF IInv, PassInv, AnswerIsRelation
  <2>2. /\ side = "in" => ~Refines(request.in, Candidate.in) /\ ~UnconstrainedMedia(request.in)
        /\ side = "out" => ~Refines(Candidate.out, request.out)
        /\ side = "tags" => ~RefinesClosed(Candidate.tags, request.tags)
    BY <1>1, <2>1, SideAnswer DEF IInv, SidesInv
  <2>3. ~Serves(Candidate, request)
    BY <1>2, <1>3, <2>2 DEF InputFits
  <2>4. QED
    BY <1>1, <1>2, <2>3, NextEntryInv
<1>5. CASE answer # "no"
  <2>1. ~ExecEffectOk(Candidate.effect, request.effect)
    BY <1>5 DEF Excluded
  <2>2. ~Serves(Candidate, request)
    BY <1>3, <2>1 DEF ExecEffectOk, EffectOk
  <2>3. QED
    BY <1>1, <1>2, <2>2, NextEntryInv
<1>6. QED
  BY <1>4, <1>5

LEMMA FittingInv ==
  ASSUME IInv, Fitting
  PROVE  IInv'
<1>1. Scanning /\ side = "tags" /\ answer = "yes" /\ NextEntry(<<Match(Table[pos])>>)
  BY DEF Fitting
<1>2. /\ pos \in 1 .. Len(Table) /\ InputFits
      /\ Refines(Candidate.out, request.out)
      /\ EffectOk(Candidate.effect, request.effect)
  BY <1>1 DEF IInv, SidesInv
<1>3. Related
  BY <1>1 DEF IInv, PassInv, AnswerIsRelation
<1>4. RefinesClosed(Candidate.tags, request.tags)
  BY <1>1, <1>3, SideAnswer DEF IInv
<1>5. Serves(Candidate, request)
  BY <1>2, <1>4, CandidateFacts DEF IInv
<1>6. QED
  BY <1>1, <1>2, <1>5, NextEntryInv
-----------------------------------------------------------------------------
(***************************************************************************)
(* What the switch resolves when it has read the whole table.              *)
(***************************************************************************)
LEMMA ResolvedFacts ==
  ASSUME IInv, ScanEnds
  PROVE  /\ Resolved = None => Hits = {}
         /\ Resolved # None =>
              \E n \in 1 .. Len(Table) : IsChosen(n) /\ Resolved = Match(Table[n])
<1>1. Scanning /\ pos > Len(Table) /\ pos \in 1 .. (Len(Table) + 1) /\ Len(Table) \in Nat
  BY TableFacts DEF ScanEnds, IInv, ScanInv, RouteTypes
<1>2. pos - 1 = Len(Table)
  BY <1>1
<1>3. matches \in Seq(Matched)
  BY <1>1 DEF IInv, ScanInv
<1>4. PICK at \in [1 .. Len(matches) -> 1 .. (pos - 1)] : ReadSoFar(at)
  BY <1>1 DEF IInv, ScanInv
<1>5. /\ Len(matches) \in Nat /\ DOMAIN matches = 1 .. Len(matches)
      /\ \A n \in DOMAIN matches : matches[n] \in Matched
  BY <1>3
<1>6. \A n \in DOMAIN matches :
        /\ at[n] \in Hits /\ matches[n] = Match(Table[at[n]])
        /\ matches[n].cap = Table[at[n]].cap
        /\ matches[n].key = SortKey(Table[at[n]].cap, request)
  BY <1>2, <1>4, <1>5, MatchType DEF ReadSoFar, Hits, IInv
<1>7. \A k \in Hits : \E n \in DOMAIN matches : at[n] = k
  BY <1>2, <1>4, <1>5 DEF ReadSoFar, Hits
<1>8. \A m, n \in DOMAIN matches : m < n => at[m] < at[n]
  BY <1>4, <1>5 DEF ReadSoFar
<1>9. \A n \in DOMAIN matches : at[n] \in Nat /\ n \in Nat
  BY <1>1, <1>2, <1>4, <1>5
<1> DEFINE wanted == {n \in DOMAIN matches : IsPreferred(matches[n].cap)}
           keys == [n \in DOMAIN matches |-> matches[n].key]
<1>10. CASE matches = <<>>
  <2>1. DOMAIN matches = {}
    BY <1>5, <1>10
  <2>2. Hits = {}
    BY <1>7, <2>1
  <2>3. Resolved = None
    BY <1>10 DEF Resolved
  <2>4. QED
    BY <2>2, <2>3
<1>11. CASE matches # <<>> /\ wanted # {}
  <2>1. wanted \in SUBSET Nat
    BY <1>9
  <2> DEFINE x == CHOOSE n \in wanted : \A k \in wanted : n <= k
  <2>2. x \in wanted /\ \A k \in wanted : x <= k
    <3> HIDE DEF wanted
    <3>1. \E n \in wanted : \A k \in wanted : n <= k
      BY <1>11, <2>1, LeastOf
    <3>2. QED
      BY <3>1
  <2>3. Resolved = matches[x]
    BY <1>11 DEF Resolved
  <2> HIDE DEF x
  <2>4. x \in DOMAIN matches /\ matches[x] # None
    BY <1>5, <2>2, MatchedIsSome
  <2>5. at[x] \in Wanted
    BY <1>6, <2>2 DEF Wanted
  <2>6. ASSUME NEW k \in Wanted
        PROVE  at[x] <= k
    <3>1. PICK m \in DOMAIN matches : at[m] = k
      BY <1>7 DEF Wanted
    <3>2. m \in wanted
      BY <1>6, <3>1 DEF Wanted
    <3>3. x <= m
      BY <2>2, <3>2
    <3>4. x = m \/ x < m
      BY <1>9, <2>4, <3>3
    <3>5. QED
      BY <1>8, <1>9, <2>4, <3>1, <3>4
  <2>7. IsChosen(at[x]) /\ at[x] \in 1 .. Len(Table)
    BY <2>5, <2>6 DEF IsChosen, Wanted, Hits
  <2>8. QED
    BY <1>6, <2>3, <2>4, <2>7
<1>12. CASE matches # <<>> /\ wanted = {}
  <2>1. Resolved = matches[FirstRanked(keys)]
    BY <1>12 DEF Resolved
  <2>2. keys \in [DOMAIN matches -> TheKeys] /\ DOMAIN matches \in SUBSET Nat
    BY <1>5, <1>9 DEF Matched
  <2>3. DOMAIN matches # {}
    <3> HIDE DEF Matched
    <3>1. QED
      BY <1>3, <1>12
  <2>4. IsFirst(FirstRanked(keys), keys)
    <3> HIDE DEF keys
    <3>1. QED
      BY <2>2, <2>3, FirstExists
  <2>5. DOMAIN keys = DOMAIN matches
    OBVIOUS
  <2>6. \A n \in DOMAIN matches : keys[n] = matches[n].key
    OBVIOUS
  <2> HIDE DEF keys
  <2>7. PICK x : x = FirstRanked(keys)
    OBVIOUS
  <2>8. x \in DOMAIN matches /\ matches[x] # None
    BY <1>5, <2>4, <2>5, <2>7, MatchedIsSome DEF IsFirst
  <2>9. at[x] \in Hits
    BY <1>6, <2>8
  <2>10. Wanted = {}
    <3>1. ASSUME NEW k \in Wanted
          PROVE  FALSE
      <4>1. PICK m \in DOMAIN matches : at[m] = k
        BY <1>7 DEF Wanted
      <4>2. m \in wanted
        BY <1>6, <4>1 DEF Wanted
      <4>3. QED
        BY <1>12, <4>2
    <3>2. QED
      BY <3>1
  <2>11. ASSUME NEW k \in Hits
         PROVE  /\ ~BetterKey(HitKeys[k], HitKeys[at[x]])
                /\ k < at[x] => BetterKey(HitKeys[at[x]], HitKeys[k])
    <3>1. PICK m \in DOMAIN matches : at[m] = k
      BY <1>7
    <3>2. HitKeys[k] = keys[m] /\ HitKeys[at[x]] = keys[x]
      BY <1>6, <2>6, <2>8, <2>9, <3>1 DEF HitKeys
    <3>3. k < at[x] => m < x
      <4>1. m < x \/ m = x \/ x < m
        BY <1>9, <2>8
      <4>2. QED
        BY <1>8, <1>9, <2>8, <3>1, <4>1
    <3>4. /\ ~BetterKey(keys[m], keys[x])
          /\ m < x => BetterKey(keys[x], keys[m])
      BY <2>4, <2>5, <2>7 DEF IsFirst
    <3>5. QED
      BY <3>2, <3>3, <3>4
  <2>12. IsFirst(at[x], HitKeys)
    <3>1. DOMAIN HitKeys = Hits
      BY DEF HitKeys
    <3>2. QED
      BY <2>9, <2>11, <3>1 DEF IsFirst
  <2>13. IsChosen(at[x]) /\ at[x] \in 1 .. Len(Table)
    BY <2>9, <2>10, <2>12 DEF IsChosen, Hits
  <2>14. QED
    BY <1>6, <2>1, <2>7, <2>8, <2>13
<1>13. QED
  BY <1>10, <1>11, <1>12

LEMMA ResolveInv ==
  ASSUME IInv, ScanEnds, dest' = Resolved,
         stage' \in {"refused", "waiting", "sent"},
         stage' = "sent" => Resolved # None,
         stage' = "refused" => Resolved = None,
         UNCHANGED <<roster, healthy, request, preferred, side>>, UNCHANGED mergeVars
  PROVE  IInv'
<1>1. PassInv'
  BY DEF IInv, PassInv, ListsInv, ApartInv, ReadInv, AnswerIsRelation, Related, Holds, mergeVars
<1>2. RouteTypes'
  BY DEF IInv, RouteTypes, RosterTypes, Stages
<1>3. ~Scanning'
  BY DEF Scanning
<1>4. SidesInv' /\ ScanInv'
  BY <1>3 DEF SidesInv, ScanInv
<1>5. Table' = Table
  BY SameTable
<1>6. Hits' = Hits
  BY <1>5 DEF Hits
<1>7. HitKeys' = HitKeys /\ Wanted' = Wanted
  BY <1>5, <1>6 DEF HitKeys, Wanted, IsPreferred
<1>8. /\ \A n : IsChosen(n)' <=> IsChosen(n)
      /\ \A n : Match(Table[n])' = Match(Table[n])
  BY <1>5, <1>6, <1>7 DEF IsChosen, Match
<1>9. DestInv'
  BY <1>5, <1>6, <1>8, ResolvedFacts DEF DestInv
<1>10. QED
  BY <1>1, <1>2, <1>4, <1>9 DEF IInv

LEMMA HealthInv ==
  ASSUME IInv, NEW m \in Masters, HealthChanges(m)
  PROVE  IInv'
<1>1. /\ stage = "waiting" /\ stage' = "waiting"
      /\ healthy' = [healthy EXCEPT ![m] = ~@]
      /\ UNCHANGED <<roster, request, side>> /\ UNCHANGED mergeVars
  BY DEF HealthChanges
<1>2. PassInv'
  BY <1>1 DEF IInv, PassInv, ListsInv, ApartInv, ReadInv, AnswerIsRelation, Related, Holds, mergeVars
<1>3. healthy' \in [Masters -> BOOLEAN]
  BY <1>1 DEF IInv, RouteTypes, RosterTypes
<1>4. RouteTypes'
  BY <1>1, <1>3 DEF IInv, RouteTypes, RosterTypes, Stages
<1>5. SidesInv' /\ ScanInv' /\ DestInv'
  BY <1>1 DEF SidesInv, ScanInv, DestInv, Scanning
<1>6. QED
  BY <1>2, <1>4, <1>5 DEF IInv

LEMMA InitInv == Init => IInv
<1> SUFFICES ASSUME Init PROVE IInv
  OBVIOUS
<1>1. <<>> \in Lists /\ "refines" \in Relations /\ Len(<<>>) = 0 /\ DOMAIN <<>> = {}
  BY TopFacts DEF Relations
<1>2. ListsInv
  BY <1>1 DEF Init, ListsInv
<1>3. ApartInv /\ ReadInv
  BY <1>1 DEF Init, ApartInv, ReadInv
<1>4. AnswerIsRelation
  <2>1. KeysOf(inst) = {} /\ KeysOf(patt) = {}
    BY <1>1 DEF Init, KeysOf
  <2>2. QED
    BY <2>1 DEF Init, AnswerIsRelation, Related
<1>5. RouteTypes
  <2>1. Requests \subseteq TheCaps
    BY RoutingAssumption DEF TheCaps
  <2>2. QED
    BY <2>1 DEF Init, RouteTypes, RosterTypes, Stages
<1>6. SidesInv /\ ScanInv /\ DestInv
  BY DEF Init, SidesInv, ScanInv, DestInv, Scanning
<1>7. QED
  BY <1>2, <1>3, <1>4, <1>5, <1>6 DEF IInv, PassInv

LEMMA NextInv == IInv /\ [Next]_vars => IInv'
<1> SUFFICES ASSUME IInv, [Next]_vars PROVE IInv'
  OBVIOUS
<1>1. CASE Execute
  BY <1>1, StartScanInv DEF Execute
<1>2. CASE ReadEntry
  BY <1>2, ReadEntryInv
<1>3. CASE InFits
  BY <1>3, InFitsInv
<1>4. CASE OutFits
  BY <1>4, OutFitsInv
<1>5. CASE Excluded
  BY <1>5, ExcludedInv
<1>6. CASE Fitting
  BY <1>6, FittingInv
<1>7. CASE MergePass
  BY <1>7, MergePassInv
<1>8. CASE ResolveForPermit
  <2>1. /\ ScanEnds /\ dest' = Resolved
        /\ stage' = IF Resolved = None THEN "refused" ELSE "waiting"
        /\ UNCHANGED <<roster, healthy, request, preferred, side>> /\ UNCHANGED mergeVars
    BY <1>8 DEF ResolveForPermit
  <2>2. QED
    BY <2>1, ResolveInv
<1>9. CASE Admitted
  BY <1>9, StartScanInv DEF Admitted
<1>10. CASE ResolveToSend
  <2>1. /\ ScanEnds /\ dest' = Resolved
        /\ stage' = IF Resolved = None THEN "refused" ELSE "sent"
        /\ UNCHANGED <<roster, healthy, request, preferred, side>> /\ UNCHANGED mergeVars
    BY <1>10 DEF ResolveToSend
  <2>2. QED
    BY <2>1, ResolveInv
<1>11. CASE \E m \in Masters : HealthChanges(m)
  BY <1>11, HealthInv
<1>12. CASE UNCHANGED vars
  <2>1. /\ UNCHANGED <<roster, healthy, stage, request, preferred, pos, matches, dest>>
        /\ side' = side /\ UNCHANGED mergeVars
    BY <1>12 DEF vars, routeVars
  <2>2. PassInv'
    BY <2>1 DEF IInv, PassInv, ListsInv, ApartInv, ReadInv, AnswerIsRelation, Related, Holds, mergeVars
  <2>3. /\ ScanInv' /\ DestInv' /\ Table' = Table /\ Candidate' = Candidate
        /\ (RosterTypes /\ request \in TheCaps /\ stage \in Stages)'
        /\ Scanning' = Scanning /\ InputFits' = InputFits
    BY <2>1, ScanAsBefore
  <2>4. RouteTypes' /\ SidesInv'
    BY <2>1, <2>3 DEF IInv, RouteTypes, SidesInv, mergeVars
  <2>5. QED
    BY <2>2, <2>3, <2>4 DEF IInv
<1>13. QED
  BY <1>1, <1>2, <1>3, <1>4, <1>5, <1>6, <1>7, <1>8, <1>9, <1>10, <1>11, <1>12 DEF Next
-----------------------------------------------------------------------------
(***************************************************************************)
(* What the inductive invariant says of the route.                         *)
(***************************************************************************)
LEMMA HitFacts ==
  ASSUME RouteTypes
  PROVE  /\ Hits \in SUBSET Nat /\ Servers = Hits
         /\ HitKeys \in [Hits -> TheKeys]
         /\ \A n \in Hits : HitKeys[n] = RankingKey(Table[n].cap, request)
<1>1. request \in TheCaps /\ Len(Table) \in Nat /\ DOMAIN Table = 1 .. Len(Table)
  BY TableFacts DEF RouteTypes
<1>2. \A n \in 1 .. Len(Table) : Table[n].cap \in TheCaps
  BY TableFacts DEF RouteTypes
<1>3. \A n \in 1 .. Len(Table) :
        /\ MeansServes(Table[n].cap, request) <=> Serves(Table[n].cap, request)
        /\ SortKey(Table[n].cap, request) = RankingKey(Table[n].cap, request)
        /\ SortKey(Table[n].cap, request) \in TheKeys
  BY <1>1, <1>2, MeansIs, KeyFacts
<1>4. QED
  BY <1>1, <1>3 DEF Hits, HitKeys, Servers

(* The selection takes the same of the same table.                         *)
LEMMA SelectionAgrees ==
  ASSUME RouteTypes, NEW n, IsFirst(n, HitKeys)
  PROVE  ExecSelect([m \in DOMAIN Table |-> Table[m].cap], request) = <<Table[n].cap>>
<1> DEFINE caps == [m \in DOMAIN Table |-> Table[m].cap]
<1>1. request \in TheCaps /\ Len(Table) \in Nat /\ DOMAIN Table = 1 .. Len(Table)
  BY TableFacts DEF RouteTypes
<1>2. \A m \in 1 .. Len(Table) : Table[m].cap \in TheCaps
  BY TableFacts DEF RouteTypes
<1>3. caps \in Seq(TheCaps) /\ Len(caps) = Len(Table)
  BY <1>1, <1>2
<1>4. \A m \in 1 .. Len(Table) : caps[m] = Table[m].cap
  BY <1>1
<1> HIDE DEF caps
<1>5. HitsUpTo(caps, request, Len(Table)) = Hits
  BY <1>4 DEF HitsUpTo, Hits
<1>6. KeysUpTo(caps, request, Len(Table)) = HitKeys
  BY <1>4, <1>5 DEF KeysUpTo, HitKeys, Hits
<1>7. /\ ExecSelect(caps, request) = Select(caps, request)
      /\ SelectedUpTo(caps, request, Len(Table), Select(caps, request))
  BY <1>1, <1>3, SelectIsFirst
<1>8. n \in Hits
  BY DEF IsFirst, HitKeys
<1>9. PICK m \in 1 .. Len(Table) :
        IsFirst(m, HitKeys) /\ Select(caps, request) = <<caps[m]>>
  BY <1>5, <1>6, <1>7, <1>8 DEF SelectedUpTo
<1>10. m = n
  BY <1>9, HitFacts, FirstIsOne
<1>11. QED
  BY <1>4, <1>7, <1>9, <1>10 DEF caps

LEMMA SentFacts ==
  ASSUME IInv, stage = "sent"
  PROVE  \E n \in 1 .. Len(Table) :
           /\ IsChosen(n)
           /\ dest.master = Table[n].master /\ dest.cap = Table[n].cap
           /\ dest.key = SortKey(Table[n].cap, request)
<1>1. PICK n \in 1 .. Len(Table) : IsChosen(n) /\ dest = Match(Table[n])
  BY DEF IInv, DestInv
<1>2. QED
  BY <1>1, MatchType DEF IInv

LEMMA NearestInv ==
  ASSUME IInv
  PROVE  RouteIsNearest
<1> DEFINE wanted == {n \in Servers : IsPreferred(Table[n].cap)}
           rank(n) == RankingKey(Table[n].cap, request)
           nearest == {n \in Servers : \A k \in Servers : ~BetterKey(rank(k), rank(n))}
           chosen == IF wanted = {} THEN nearest ELSE wanted
<1>1. RouteTypes /\ wanted = Wanted
  BY HitFacts DEF IInv, Wanted
<1>2. ASSUME stage = "refused"
      PROVE  Servers = {}
  BY <1>1, <1>2, HitFacts DEF IInv, DestInv
<1>3. ASSUME stage = "sent"
      PROVE  \E n \in chosen : /\ \A k \in chosen : n <= k
                               /\ dest.master = Table[n].master /\ dest.cap = Table[n].cap
  <2>1. PICK n \in 1 .. Len(Table) :
          /\ IsChosen(n)
          /\ dest.master = Table[n].master /\ dest.cap = Table[n].cap
    BY <1>3, SentFacts
  <2>2. CASE Wanted # {}
    BY <1>1, <2>1, <2>2 DEF IsChosen
  <2>3. CASE Wanted = {}
    <3>1. IsFirst(n, HitKeys) /\ n \in Hits /\ chosen = nearest
      BY <1>1, <2>1, <2>3 DEF IsChosen
    <3>2. /\ Servers = Hits /\ Hits \in SUBSET Nat /\ DOMAIN HitKeys = Hits
          /\ \A k \in Hits : HitKeys[k] = rank(k) /\ rank(k) \in TheKeys
      BY <1>1, HitFacts
    <3>3. \A k \in Hits : ~BetterKey(rank(k), rank(n)) /\ (k < n => BetterKey(rank(n), rank(k)))
      BY <3>1, <3>2 DEF IsFirst
    <3>4. n \in nearest
      BY <3>1, <3>2, <3>3
    <3>5. ASSUME NEW k \in nearest
          PROVE  n <= k
      <4>1. k \in Hits /\ ~BetterKey(rank(n), rank(k))
        BY <3>1, <3>2
      <4>2. k \in Nat /\ n \in Nat /\ ~ (k < n)
        BY <3>1, <3>2, <3>3, <4>1
      <4>3. QED
        BY <4>2
    <3>6. QED
      BY <2>1, <3>1, <3>4, <3>5
  <2>4. QED
    BY <2>2, <2>3
<1>4. ASSUME stage = "sent", preferred = None
      PROVE  ExecSelect([n \in DOMAIN Table |-> Table[n].cap], request) = <<dest.cap>>
  <2>1. PICK n \in 1 .. Len(Table) : IsChosen(n) /\ dest.cap = Table[n].cap
    BY <1>4, SentFacts
  <2>2. Wanted = {}
    BY <1>4 DEF Wanted, IsPreferred
  <2>3. IsFirst(n, HitKeys)
    BY <2>1, <2>2 DEF IsChosen
  <2>4. QED
    BY <1>1, <2>1, <2>3, SelectionAgrees
<1>5. preferred = None => wanted = {}
  BY DEF IsPreferred
<1>6. QED
  BY <1>2, <1>3, <1>4, <1>5 DEF RouteIsNearest

LEMMA HandledInv ==
  ASSUME IInv
  PROVE  RoutedIsHandled
<1> SUFFICES ASSUME stage = "sent"
             PROVE  \E hosted \in {HostFind(roster[dest.master], request)} :
                      /\ hosted # None
                      /\ \E handler \in {CartridgeFind(roster[dest.master], hosted.owner, request)} :
                           /\ handler # None
                           /\ MeansServes(handler.cap, request)
                           /\ ~BetterKey(dest.key, SortKey(handler.cap, request))
  BY DEF RoutedIsHandled
<1>1. PICK n \in 1 .. Len(Table) :
        /\ IsChosen(n)
        /\ dest.master = Table[n].master /\ dest.cap = Table[n].cap
        /\ dest.key = SortKey(Table[n].cap, request)
  BY SentFacts
<1>2. RosterTypes /\ request \in TheCaps
  BY DEF IInv, RouteTypes
<1>3. Serves(Table[n].cap, request)
  BY <1>1 DEF IsChosen, Hits
<1>4. dest.master \in Masters
  BY <1>1, <1>2, TableFacts
<1>5. PICK l \in DOMAIN roster[dest.master] : Table[n].cap = roster[dest.master][l].cap
  BY <1>1, <1>2, TableFacts
<1>6. roster[dest.master] \in Seq(TheEntries)
  BY <1>2, <1>4, RosterFacts
<1>7. dest.key = SortKey(roster[dest.master][l].cap, request)
  BY <1>1, <1>5
<1> DEFINE entries == roster[dest.master]
<1>8. l \in DOMAIN entries /\ Serves(entries[l].cap, request) /\ entries \in Seq(TheEntries)
  BY <1>3, <1>5, <1>6
<1> HIDE DEF TheEntries, entries
<1>9. \E hosted \in {HostFind(entries, request)} :
        /\ hosted # None
        /\ \E handler \in {CartridgeFind(entries, hosted.owner, request)} :
             /\ handler # None
             /\ MeansServes(handler.cap, request)
             /\ ~BetterKey(SortKey(entries[l].cap, request), SortKey(handler.cap, request))
  BY <1>2, <1>8, Handled
<1>10. QED
  BY <1>7, <1>9 DEF entries

LEMMA ExecInv ==
  ASSUME IInv
  PROVE  ExecAnswersAsDefined
<1> SUFFICES ASSUME Scanning, side = "start", pos <= Len(Table)
             PROVE  ExecAnswersAsDefined
  BY DEF ExecAnswersAsDefined
<1>1. RouteTypes /\ request \in TheCaps /\ Len(Table) \in Nat
  BY TableFacts DEF IInv, RouteTypes
<1>2. pos \in 1 .. Len(Table)
  BY <1>1 DEF IInv, ScanInv
<1>3. Candidate \in TheCaps
  BY <1>1, <1>2, CandidateFacts
<1>4. CapsUpTo(pos) \in Seq(TheCaps)
  <2>1. \A m \in 1 .. pos : Table[m].cap \in TheCaps
    BY <1>1, <1>2, TableFacts DEF RouteTypes
  <2>2. QED
    BY <1>2, <2>1 DEF CapsUpTo
<1>5. ExecSelect(CapsUpTo(pos), request) = Select(CapsUpTo(pos), request)
  BY <1>1, <1>4, SelectIsFirst
<1> DEFINE c == Candidate
           r == request
<1>6. c \in TheCaps /\ r \in TheCaps
  BY <1>1, <1>3
<1> HIDE DEF c
<1>7. /\ QueryGrade(QueryOfRequest(r), c) = Grade(OfRequest(r), c)
      /\ QueryGrade(QueryOfPattern(r), c) = Grade(OfPattern(r), c)
      /\ QueryGrade(QueryBetween(r.in, r.out, r.tags), c)
           = Grade(Query(Covers(r.in), Within(r.out), r.tags, "unspecified"), c)
      /\ QueryGrade(QueryProducing(r.out, r.tags), c) = Grade(Producing(r.out, r.tags), c)
      /\ QueryGrade(QueryConsuming(r.in, r.tags), c) = Grade(Consuming(r.in, r.tags), c)
  BY <1>6, ExecGrades
<1>8. /\ Dispatch(c, r) <=> Serves(c, r)
      /\ MayDispatch(c, r) <=> MayServe(c, r)
      /\ Accepts(r, c) <=> Fits(r, c)
  BY <1>6, ExecServes
<1>9. /\ Comparable(c, r) <=> (CapAccepts(c, r) \/ CapAccepts(r, c))
      /\ Equivalent(c, r) <=> (CapRefines(c, r) /\ CapRefines(r, c))
      /\ ExecFlows(c, r) <=> Flows(c, r)
      /\ ExecMayFlow(c, r) <=> MayFlow(c, r)
  BY <1>6, ExecCompares
<1>10. QED
  BY <1>5, <1>7, <1>8, <1>9 DEF ExecAnswersAsDefined, c
-----------------------------------------------------------------------------
(***************************************************************************)
(* One pass over two sorted lists of tags answers what comparing every key *)
(* of either would (mergeWith, TaggedUrn-Sorted.c 346-491). What was read  *)
(* of one list lies before what is left of the other, so that a key that   *)
(* is passed in one list is in the other or in none.                       *)
(***************************************************************************)
THEOREM PassIsRelation == Spec => []AnswerIsRelation
<1>1. IInv => AnswerIsRelation
  BY DEF IInv, PassInv
<1>2. QED
  BY <1>1, InitInv, NextInv, PTL DEF Spec

(***************************************************************************)
(* The executable questions (CapDAG-Exec.c 212-305, 494-541, 839-989 and   *)
(* 1683-1751), whose relations are passes over sorted tags, answer for     *)
(* every cap and request what the key-by-key definitions say, and the fold *)
(* of the selection takes the same cap.                                    *)
(***************************************************************************)
THEOREM ExecutableIsDefined == Spec => []ExecAnswersAsDefined
<1>1. IInv => ExecAnswersAsDefined
  BY ExecInv
<1>2. QED
  BY <1>1, InitInv, NextInv, PTL DEF Spec

(***************************************************************************)
(* _find_master_for_cap (relay_switch.py 1548-1610) sends a request to the *)
(* master of the first cap that serves it and is the preferred one, or, if *)
(* none was preferred, of the first of the nearest that serve it, which is *)
(* what the kernel's selection takes (CapDAG-Exec.c 839-989); and refuses  *)
(* it only when none serves it, whatever the health of the masters did     *)
(* while the request waited for its permit.                                *)
(***************************************************************************)
THEOREM RouteGoesToTheNearest == Spec => []RouteIsNearest
<1>1. IInv => RouteIsNearest
  BY NearestInv
<1>2. QED
  BY <1>1, InitInv, NextInv, PTL DEF Spec

(***************************************************************************)
(* Of what is sent to a master, its host finds a cartridge                 *)
(* (host_runtime.py 735-767) and that cartridge a handler                  *)
(* (cartridge_runtime.py 4150-4181) that serves the request and does not   *)
(* rank behind the cap the switch chose: the three readings of the ranking *)
(* agree.                                                                  *)
(***************************************************************************)
THEOREM WhatIsRoutedIsHandled == Spec => []RoutedIsHandled
<1>1. IInv => RoutedIsHandled
  BY HandledInv
<1>2. QED
  BY <1>1, InitInv, NextInv, PTL DEF Spec
=============================================================================
