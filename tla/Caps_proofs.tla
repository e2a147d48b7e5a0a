---------------------------- MODULE Caps_proofs ----------------------------
(***************************************************************************)
(* Proofs about the relations of URNs and the questions about caps, for    *)
(* every tag, value and list of tags.                                      *)
(***************************************************************************)
EXTENDS Caps, TLAPS

Kinds == {"missing", "unconstrained", "present", "absent"} \cup Valued

(* Whether a constraint allows x, by its kind.                             *)
Allows(c, x, values) ==
  /\ x \in values \cup {Nothing}
  /\ c.kind = "optionalNot" => x # c.value
  /\ c.kind = "present" => x # Nothing
  /\ c.kind = "presentNot" => x # Nothing /\ x # c.value
  /\ c.kind = "exact" => x = c.value
  /\ c.kind = "absent" => x = Nothing
-----------------------------------------------------------------------------
(***************************************************************************)
(* A constraint has one of seven kinds, and a value of the three that have *)
(* one; what it allows, by its kind.                                       *)
(***************************************************************************)
LEMMA ConstraintShape ==
  ASSUME NEW values, NEW c \in Constraints(values)
  PROVE  c.kind \in Kinds /\ (c.kind \in Valued => c.value \in values)
<1>1. CASE c \in Plain
  BY <1>1 DEF Plain, Missing, Unconstrained, Present, Absent, Con, Kinds, Valued
<1>2. CASE c \in [kind : Valued, value : values]
  BY <1>2 DEF Kinds
<1>3. QED
  BY <1>1, <1>2 DEF Constraints

LEMMA AllowedIsAllows ==
  ASSUME NEW values, Nothing \notin values, NEW c \in Constraints(values), NEW x
  PROVE  x \in Allowed(c, values) <=> Allows(c, x, values)
<1>1. c.kind \in Kinds /\ (c.kind \in Valued => c.value \in values)
  BY ConstraintShape
<1>2. CASE c.kind \in Open
  BY <1>2 DEF Allowed, Allows, Open
<1>3. CASE c.kind = "optionalNot"
  BY <1>3 DEF Allowed, Allows, Open
<1>4. CASE c.kind = "present"
  BY <1>4 DEF Allowed, Allows, Open
<1>5. CASE c.kind = "presentNot"
  BY <1>5 DEF Allowed, Allows, Open
<1>6. CASE c.kind = "exact"
  BY <1>1, <1>6 DEF Allowed, Allows, Open, Valued
<1>7. CASE c.kind = "absent"
  BY <1>7 DEF Allowed, Allows, Open
<1>8. QED
  BY <1>1, <1>2, <1>3, <1>4, <1>5, <1>6, <1>7 DEF Kinds, Open, Valued

(***************************************************************************)
(* One constraint refines another (tagMatch, TaggedUrn-Constraint.c        *)
(* 973-1122) exactly when all it allows is allowed by the other, as soon   *)
(* as there are three values: with fewer, constraints that are told apart  *)
(* come to the same.                                                       *)
(***************************************************************************)
THEOREM MatchIsInclusion ==
  ASSUME NEW values, Nothing \notin values,
         NEW u \in values, NEW v \in values, NEW w \in values, u # v, v # w, u # w,
         NEW c \in Constraints(values), NEW d \in Constraints(values)
  PROVE  TagMatch(c, d) <=> Allowed(c, values) \subseteq Allowed(d, values)
<1>1. /\ c.kind \in Kinds /\ (c.kind \in Valued => c.value \in values)
      /\ d.kind \in Kinds /\ (d.kind \in Valued => d.value \in values)
  BY ConstraintShape
<1>2. ASSUME TagMatch(c, d), NEW x, Allows(c, x, values)
      PROVE  Allows(d, x, values)
  BY <1>1, <1>2 DEF TagMatch, Allows, Open, Kinds, Valued
<1>3. ASSUME ~TagMatch(c, d)
      PROVE  \E x \in {u, v, w, c.value, d.value, Nothing} :
               Allows(c, x, values) /\ ~Allows(d, x, values)
  BY <1>1, <1>3 DEF TagMatch, Allows, Open, Kinds, Valued
<1>4. QED
  BY <1>2, <1>3, AllowedIsAllows

(***************************************************************************)
(* Two constraints meet (tagMeets, TaggedUrn-Constraint.c 1126-1336)       *)
(* exactly when something is allowed by both.                              *)
(***************************************************************************)
THEOREM MeetIsOverlap ==
  ASSUME NEW values, Nothing \notin values,
         NEW u \in values, NEW v \in values, NEW w \in values, u # v, v # w, u # w,
         NEW c \in Constraints(values), NEW d \in Constraints(values)
  PROVE  TagMeets(c, d) <=> Allowed(c, values) \cap Allowed(d, values) # {}
<1>1. /\ c.kind \in Kinds /\ (c.kind \in Valued => c.value \in values)
      /\ d.kind \in Kinds /\ (d.kind \in Valued => d.value \in values)
  BY ConstraintShape
<1>2. ASSUME ~TagMeets(c, d), NEW x, Allows(c, x, values)
      PROVE  ~Allows(d, x, values)
  BY <1>1, <1>2 DEF TagMeets, Allows, Open, Kinds, Valued
<1>3. ASSUME TagMeets(c, d)
      PROVE  \E x \in {u, v, w, c.value, d.value, Nothing} :
               Allows(c, x, values) /\ Allows(d, x, values)
  BY <1>1, <1>3 DEF TagMeets, Allows, Open, Kinds, Valued
<1>4. QED
  BY <1>2, <1>3, AllowedIsAllows
-----------------------------------------------------------------------------
(***************************************************************************)
(* A key of neither list is missing in both.                               *)
(***************************************************************************)
LEMMA MatchEverywhere ==
  ASSUME NEW s, NEW t,
         \A k \in KeysOf(s) \cup KeysOf(t) : TagMatch(Lookup(s, k), Lookup(t, k)),
         NEW k
  PROVE  TagMatch(Lookup(s, k), Lookup(t, k))
<1>1. CASE k \in KeysOf(s) \cup KeysOf(t)
  BY <1>1
<1>2. CASE k \notin KeysOf(s) \cup KeysOf(t)
  BY <1>2 DEF Lookup, TagMatch, Missing, Con, Open
<1>3. QED
  BY <1>1, <1>2

(* A constraint that refines one that refines a third refines the third.   *)
LEMMA MatchTransitive ==
  ASSUME NEW a, NEW b, NEW c, TagMatch(a, b), TagMatch(b, c)
  PROVE  TagMatch(a, c)
BY DEF TagMatch, Open

(***************************************************************************)
(* The refinement of URNs composes (instDecidableRefines, TaggedUrn.c      *)
(* 1011-1057): what takes a URN takes all that refine it, however many     *)
(* refinements lie between.                                                *)
(***************************************************************************)
THEOREM RefinesTransitive ==
  ASSUME NEW u, NEW w, NEW x, Refines(u, w), Refines(w, x)
  PROVE  Refines(u, x)
<1>1. u.prefix = x.prefix
  BY DEF Refines
<1>2. ASSUME NEW k
      PROVE  TagMatch(Lookup(u.tags, k), Lookup(x.tags, k))
  <2>1. TagMatch(Lookup(u.tags, k), Lookup(w.tags, k))
    BY MatchEverywhere DEF Refines, AllKeys
  <2>2. TagMatch(Lookup(w.tags, k), Lookup(x.tags, k))
    BY MatchEverywhere DEF Refines, AllKeys
  <2>3. QED
    BY <2>1, <2>2, MatchTransitive
<1>3. QED
  BY <1>1, <1>2 DEF Refines

(* A constraint that refines another meets it, from either side.           *)
LEMMA MatchMeets ==
  ASSUME NEW a, NEW b, TagMatch(a, b)
  PROVE  TagMeets(a, b) /\ TagMeets(b, a)
BY DEF TagMatch, TagMeets, Open

LEMMA RefinesMeets ==
  ASSUME NEW u, NEW w, Refines(u, w)
  PROVE  Meets(u, w) /\ Meets(w, u)
BY MatchMeets DEF Refines, Meets, AllKeys

(***************************************************************************)
(* What is guaranteed is possible: a cap that a query admits is one it may *)
(* admit (instDecidableAdmits and instDecidableMayAdmit, CapDAG-Query.c    *)
(* 1004-1067 and 1417-1480).                                               *)
(***************************************************************************)
THEOREM GuaranteedIsPossible ==
  ASSUME NEW q, NEW c, Admits(q, c)
  PROVE  MayAdmit(q, c)
<1>1. ASSUME NEW ask, NEW m, AskAdmits(ask, m)
      PROVE  AskMayAdmit(ask, m)
  BY <1>1, RefinesMeets DEF AskAdmits, AskMayAdmit
<1>2. RefinesClosed(c.tags, q.tags) => MeetsClosed(c.tags, q.tags)
  BY MatchMeets DEF RefinesClosed, MeetsClosed, TagMatchClosed, TagMeetsClosed
<1>3. QED
  BY <1>1, <1>2 DEF Admits, MayAdmit
=============================================================================
