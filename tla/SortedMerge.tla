----------------------------- MODULE SortedMerge -----------------------------
(***************************************************************************)
(* The comparison the kernel really runs: one pass over two sorted lists   *)
(* of tags (mergeTags for "refines", mergeWith for the other relations),   *)
(* which stops at the first key that fails.  A key that only one list has  *)
(* is tested against Missing.                                              *)
(***************************************************************************)
EXTENDS Urns

VARIABLES
  rel,     \* the relation asked about
  inst,    \* the first list of tags
  patt,    \* the second
  i,       \* where the first list has been read to
  j,       \* where the second
  answer   \* "none" while the pass runs, then "yes" or "no"

mergeVars == <<rel, inst, patt, i, j, answer>>

StartMerge(r, a, b) ==
  /\ rel' = r
  /\ inst' = a
  /\ patt' = b
  /\ i' = 1
  /\ j' = 1
  /\ answer' = "none"

Verdict(ok) == IF ok THEN "none" ELSE "no"

Running == answer = "none"

(* One list is used up: the rest of the other is tested against Missing.   *)
InstEnds ==
  /\ Running
  /\ i > Len(inst)
  /\ answer' = IF \A n \in j .. Len(patt) : Test(rel, Missing, patt[n].con)
               THEN "yes" ELSE "no"
  /\ UNCHANGED <<rel, inst, patt, i, j>>

PattEnds ==
  /\ Running
  /\ i <= Len(inst)
  /\ j > Len(patt)
  /\ answer' = IF \A n \in i .. Len(inst) : Test(rel, inst[n].con, Missing)
               THEN "yes" ELSE "no"
  /\ UNCHANGED <<rel, inst, patt, i, j>>

BothLeft ==
  /\ Running
  /\ i <= Len(inst)
  /\ j <= Len(patt)

InstFirst ==
  /\ BothLeft
  /\ inst[i].key < patt[j].key
  /\ answer' = Verdict(Test(rel, inst[i].con, Missing))
  /\ i' = i + 1
  /\ UNCHANGED <<rel, inst, patt, j>>

(* Mutant: a key only the second list has is not tested.                   *)
PattFirst_Untested ==
  /\ BothLeft
  /\ patt[j].key < inst[i].key
  /\ j' = j + 1
  /\ UNCHANGED <<rel, inst, patt, i, answer>>

PattFirst ==
  /\ BothLeft
  /\ patt[j].key < inst[i].key
  /\ answer' = Verdict(Test(rel, Missing, patt[j].con))
  /\ j' = j + 1
  /\ UNCHANGED <<rel, inst, patt, i>>

SameKey ==
  /\ BothLeft
  /\ inst[i].key = patt[j].key
  /\ answer' = Verdict(Test(rel, inst[i].con, patt[j].con))
  /\ i' = i + 1
  /\ j' = j + 1
  /\ UNCHANGED <<rel, inst, patt>>

MergeStep == InstEnds \/ PattEnds \/ InstFirst \/ PattFirst \/ SameKey

(* The relation itself, of the whole lists.                                *)
Related ==
  \A k \in KeysOf(inst) \cup KeysOf(patt) :
    Test(rel, Lookup(inst, k), Lookup(patt, k))

(* The single pass over the sorted lists answers what comparing every key  *)
(* of either list would: no key is skipped at a step where both lists      *)
(* advance, none is tested against the wrong tag.                          *)
AnswerIsRelation ==
  /\ answer = "yes" => Related
  /\ answer = "no"  => ~Related
=============================================================================
