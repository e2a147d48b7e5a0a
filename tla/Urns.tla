-------------------------------- MODULE Urns --------------------------------
(***************************************************************************)
(* Tagged URNs, as the compiled kernel decides about them.  A URN is a     *)
(* prefix and a list of tags, each a key and a constraint; a key the list  *)
(* does not mention is constrained by Missing.  One constraint refines     *)
(* another when all it allows is allowed by the other; two constraints     *)
(* meet when something is allowed by both.  URNs are compared key by key.  *)
(* A cap's own tags are complete, so the "closed" comparisons read a key   *)
(* the first URN does not mention as absent.                               *)
(***************************************************************************)
EXTENDS Integers, Sequences, FiniteSets

NoValue == "-"

Con(kind, value) == [kind |-> kind, value |-> value]

Missing       == Con("missing", NoValue)
Unconstrained == Con("unconstrained", NoValue)
Present       == Con("present", NoValue)
Absent        == Con("absent", NoValue)

Plain  == {Missing, Unconstrained, Present, Absent}
Valued == {"optionalNot", "presentNot", "exact"}

Constraints(values) ==
  Plain \cup [kind : Valued, value : values]

(* A key that is not mentioned is, among the tags of a cap, not there.     *)
Closed(c) == IF c = Missing THEN Absent ELSE c

Open == {"missing", "unconstrained"}

(* All that inst allows, patt allows.                                      *)
TagMatch(inst, patt) ==
  \/ patt.kind \in Open
  \/ /\ patt.kind = "optionalNot"
     /\ \/ inst.kind \in {"optionalNot", "presentNot"} /\ inst.value = patt.value
        \/ inst.kind = "exact" /\ inst.value # patt.value
        \/ inst.kind = "absent"
  \/ /\ patt.kind = "present"
     /\ inst.kind \in {"present", "presentNot", "exact"}
  \/ /\ patt.kind = "presentNot"
     /\ \/ inst.kind = "presentNot" /\ inst.value = patt.value
        \/ inst.kind = "exact" /\ inst.value # patt.value
  \/ /\ patt.kind = "exact"
     /\ inst.kind = "exact" /\ inst.value = patt.value
  \/ /\ patt.kind = "absent"
     /\ inst.kind = "absent"

(* Something is allowed by both.                                           *)
TagMeets(a, b) ==
  \/ a.kind \in Open
  \/ b.kind \in Open
  \/ a.kind = "absent" /\ b.kind \in {"optionalNot", "absent"}
  \/ /\ a.kind = "optionalNot"
     /\ b.kind = "exact" => a.value # b.value
  \/ /\ a.kind = "present"
     /\ b.kind # "absent"
  \/ /\ a.kind = "presentNot"
     /\ b.kind # "absent"
     /\ b.kind = "exact" => a.value # b.value
  \/ /\ a.kind = "exact"
     /\ \/ b.kind = "present"
        \/ b.kind = "exact" /\ a.value = b.value
        \/ b.kind \in {"optionalNot", "presentNot"} /\ a.value # b.value

TagMatchClosed(inst, patt) == TagMatch(Closed(inst), patt)

TagMeetsClosed(a, b) == TagMeets(Closed(a), b)

(* The relations two lists of tags are compared by, and their test at a key. *)
Test(r, a, b) ==
  CASE r = "refines"       -> TagMatch(a, b)
    [] r = "meets"         -> TagMeets(a, b)
    [] r = "refinesClosed" -> TagMatchClosed(a, b)
    [] r = "meetsClosed"   -> TagMeetsClosed(a, b)

TagScore(c) ==
  CASE c.kind = "optionalNot" -> 1
    [] c.kind = "present"     -> 2
    [] c.kind = "presentNot"  -> 3
    [] c.kind = "exact"       -> 4
    [] c.kind = "absent"      -> 5
    [] OTHER                  -> 0

-----------------------------------------------------------------------------
(* Lists of tags. *)

TagOf(key, c) == [key |-> key, con |-> c]

KeysOf(tags) == {tags[n].key : n \in DOMAIN tags}

(* The first entry of the key counts.                                      *)
Lookup(tags, key) ==
  IF key \in KeysOf(tags)
  THEN tags[CHOOSE n \in DOMAIN tags :
              /\ tags[n].key = key
              /\ \A m \in 1 .. (n - 1) : tags[m].key # key].con
  ELSE Missing

(* Keys strictly increase.                                                 *)
Sorted(tags) ==
  \A m, n \in DOMAIN tags : m < n => tags[m].key < tags[n].key

(* The lists the kernel accepts.                                           *)
TagLists(values) ==
  {tags \in Seq([key : Int, con : Constraints(values)]) : Sorted(tags)}

TagsScore(tags) ==
  LET upTo[n \in 0 .. Len(tags)] ==
        IF n = 0 THEN 0 ELSE upTo[n - 1] + TagScore(tags[n].con)
  IN  upTo[Len(tags)]

-----------------------------------------------------------------------------
(* The relations of whole URNs, key by key. *)

Urn(prefix, tags) == [prefix |-> prefix, tags |-> tags]

AllKeys(u, w) == KeysOf(u.tags) \cup KeysOf(w.tags)

Refines(u, w) ==
  /\ u.prefix = w.prefix
  /\ \A k \in AllKeys(u, w) : TagMatch(Lookup(u.tags, k), Lookup(w.tags, k))

Meets(u, w) ==
  /\ u.prefix = w.prefix
  /\ \A k \in AllKeys(u, w) : TagMeets(Lookup(u.tags, k), Lookup(w.tags, k))

RefinesClosed(u, w) ==
  /\ u.prefix = w.prefix
  /\ \A k \in AllKeys(u, w) : TagMatchClosed(Lookup(u.tags, k), Lookup(w.tags, k))

MeetsClosed(u, w) ==
  /\ u.prefix = w.prefix
  /\ \A k \in AllKeys(u, w) : TagMeetsClosed(Lookup(u.tags, k), Lookup(w.tags, k))

UrnScore(u) == TagsScore(u.tags)

-----------------------------------------------------------------------------
(* The meaning of a constraint, against which the comparisons are judged:  *)
(* the values it allows, and whether it allows the tag not to be there.    *)

Nothing == "nothing"

Allowed(c, values) ==
  CASE c.kind \in Open         -> values \cup {Nothing}
    [] c.kind = "optionalNot"  -> (values \cup {Nothing}) \ {c.value}
    [] c.kind = "present"      -> values
    [] c.kind = "presentNot"   -> values \ {c.value}
    [] c.kind = "exact"        -> {c.value}
    [] c.kind = "absent"       -> {Nothing}
=============================================================================
