------------------------------ MODULE CapsExec ------------------------------
(***************************************************************************)
(* The executable questions: those of Caps, with the relations of URNs     *)
(* decided by a pass over sorted lists of tags.  These are the operations  *)
(* that CapUrn and CapQuery call.                                          *)
(***************************************************************************)
EXTENDS Caps

(* What the kernel accepts as a URN with one of the prefixes, and as a     *)
(* cap: the tags of each side sorted.                                      *)
WfUrns(prefixes, values) == [prefix : prefixes, tags : TagLists(values)]

WfCaps(values) ==
  [in : WfUrns({"media"}, values), out : WfUrns({"media"}, values),
   tags : WfUrns({"cap"}, values), effect : Effects]

(* The pass from places m of a and n of b on, with the relation's test at  *)
(* each key.                                                               *)
MergeWith(rel, a, b) ==
  LET from[at \in (1 .. (Len(a) + 1)) \X (1 .. (Len(b) + 1))] ==
        LET m == at[1]
            n == at[2]
        IN  CASE m > Len(a) -> \A k \in n .. Len(b) : Test(rel, Missing, b[k].con)
              [] m <= Len(a) /\ n > Len(b) ->
                   \A k \in m .. Len(a) : Test(rel, a[k].con, Missing)
              [] OTHER ->
                   \/ /\ a[m].key < b[n].key
                      /\ Test(rel, a[m].con, Missing) /\ from[<<m + 1, n>>]
                   \/ /\ b[n].key < a[m].key
                      /\ Test(rel, Missing, b[n].con) /\ from[<<m, n + 1>>]
                   \/ /\ a[m].key = b[n].key
                      /\ Test(rel, a[m].con, b[n].con) /\ from[<<m + 1, n + 1>>]
  IN  from[<<1, 1>>]

MergeTags(a, b) == MergeWith("refines", a, b)

ExecRefines(u, w) == u.prefix = w.prefix /\ MergeTags(u.tags, w.tags)

ExecMeets(u, w) == u.prefix = w.prefix /\ MergeWith("meets", u.tags, w.tags)

ExecRefinesClosed(u, w) ==
  u.prefix = w.prefix /\ MergeWith("refinesClosed", u.tags, w.tags)

ExecMeetsClosed(u, w) ==
  u.prefix = w.prefix /\ MergeWith("meetsClosed", u.tags, w.tags)

ExecUnconstrained(m) == ExecRefines(MediaTop, m)

ExecEffectOk(has, asked) == asked = "unspecified" \/ has = asked

ExecAskAdmits(ask, m) ==
  \/ ask.kind = "unknown"
  \/ ask.kind = "within" /\ ExecRefines(m, ask.media)
  \/ ask.kind = "covers" /\ ExecRefines(ask.media, m)
  \/ ask.kind = "same"   /\ ExecRefines(m, ask.media) /\ ExecRefines(ask.media, m)

ExecAskMayAdmit(ask, m) == ask.kind = "unknown" \/ ExecMeets(m, ask.media)

QueryAdmits(q, c) ==
  /\ ExecAskAdmits(q.in, c.in)
  /\ ExecAskAdmits(q.out, c.out)
  /\ ExecEffectOk(c.effect, q.effect)
  /\ ExecRefinesClosed(c.tags, q.tags)

QueryMayAdmit(q, c) ==
  /\ ExecAskMayAdmit(q.in, c.in)
  /\ ExecAskMayAdmit(q.out, c.out)
  /\ ExecEffectOk(c.effect, q.effect)
  /\ ExecMeetsClosed(c.tags, q.tags)

WfAskExactly(ask) ==
  IF ask.kind \in {"within", "covers"} THEN Same(ask.media) ELSE ask

WfQueryExactly(q) ==
  Query(WfAskExactly(q.in), WfAskExactly(q.out), q.tags, q.effect)

QueryGrade(q, c) ==
  IF QueryAdmits(WfQueryExactly(q), c) THEN "exact"
  ELSE IF QueryAdmits(q, c) THEN "guaranteed"
  ELSE IF QueryMayAdmit(q, c) THEN "possible"
  ELSE "none"

QueryOfRequest(c) ==
  Query(IF ExecUnconstrained(c.in) THEN Unknown ELSE Covers(c.in),
        Within(c.out), c.tags, c.effect)

(* Mutant: an output the pattern leaves open is the type "anything".       *)
QueryOfPattern_Closed(c) ==
  Query(Within(c.in), Covers(c.out), c.tags, c.effect)

QueryOfPattern(c) ==
  Query(Within(c.in),
        IF ExecUnconstrained(c.out) THEN Unknown ELSE Covers(c.out),
        c.tags, c.effect)

QueryProducing(m, tags) == Query(Unknown, Within(m), tags, "unspecified")

QueryConsuming(m, tags) == Query(Covers(m), Unknown, tags, "unspecified")

QueryBetween(m, n, tags) == Query(Covers(m), Within(n), tags, "unspecified")

Dispatch(c, r) == QueryAdmits(QueryOfRequest(r), c)

MayDispatch(c, r) == QueryMayAdmit(QueryOfRequest(r), c)

Accepts(p, c) == QueryAdmits(QueryOfPattern(p), c)

SameSides(p, c) ==
  /\ ExecRefines(c.in, p.in)
  /\ ExecRefines(p.out, c.out)
  /\ p.effect = "unspecified" \/ p.effect = c.effect
  /\ ExecRefines(c.tags, p.tags)

Comparable(c, d) == SameSides(c, d) \/ SameSides(d, c)

Equivalent(c, d) == SameSides(c, d) /\ SameSides(d, c)

ExecFlows(c, d) == ExecRefines(c.out, d.in)

ExecMayFlow(c, d) == ExecMeets(c.out, d.in)

Specificity(c) == CapScore(c)

ExecSelectStep(r, best, c) ==
  IF ~Dispatch(c, r) THEN best
  ELSE IF best = <<>> THEN <<c>>
  ELSE IF BetterKey(RankingKey(c, r), RankingKey(best[1], r)) THEN <<c>>
  ELSE best

ExecSelect(caps, r) ==
  LET best[n \in 0 .. Len(caps)] ==
        IF n = 0 THEN <<>> ELSE ExecSelectStep(r, best[n - 1], caps[n])
  IN  best[Len(caps)]
=============================================================================
