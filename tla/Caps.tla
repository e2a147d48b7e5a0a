-------------------------------- MODULE Caps --------------------------------
(***************************************************************************)
(* Caps and the questions asked about them.  A cap takes an input and      *)
(* gives an output, both media URNs, has tags, and an effect.  A query     *)
(* asks something of each side; an effect "unspecified" asks nothing.      *)
(* This is the reference reading of the kernel, key by key.                *)
(***************************************************************************)
EXTENDS Urns

Effects == {"unspecified", "declared", "none", "patch"}

Cap(in, out, tags, effect) ==
  [in |-> in, out |-> out, tags |-> tags, effect |-> effect]

MediaTop == Urn("media", <<>>)

UnconstrainedMedia(m) == Refines(MediaTop, m)

EffectOk(has, asked) == asked = "unspecified" \/ has = asked

-----------------------------------------------------------------------------
(* Queries. *)

Unknown   == [kind |-> "unknown"]
Within(m) == [kind |-> "within", media |-> m]
Covers(m) == [kind |-> "covers", media |-> m]
Same(m)   == [kind |-> "same", media |-> m]

Query(in, out, tags, effect) ==
  [in |-> in, out |-> out, tags |-> tags, effect |-> effect]

(* A caller says what it sends and what it needs; an input left open is    *)
(* not established.                                                        *)
OfRequest(c) ==
  Query(IF UnconstrainedMedia(c.in) THEN Unknown ELSE Covers(c.in),
        Within(c.out), c.tags, c.effect)

(* A search gives a pattern of the caps it wants; an output left open is   *)
(* not asked about.                                                        *)
OfPattern(c) ==
  Query(Within(c.in),
        IF UnconstrainedMedia(c.out) THEN Unknown ELSE Covers(c.out),
        c.tags, c.effect)

Producing(m, tags) == Query(Unknown, Within(m), tags, "unspecified")

Consuming(m, tags) == Query(Covers(m), Unknown, tags, "unspecified")

AskExactly(ask) ==
  IF ask.kind \in {"within", "covers"} THEN Same(ask.media) ELSE ask

Exactly(q) == [q EXCEPT !.in = AskExactly(@), !.out = AskExactly(@)]

AskAdmits(ask, m) ==
  \/ ask.kind = "unknown"
  \/ ask.kind = "within" /\ Refines(m, ask.media)
  \/ ask.kind = "covers" /\ Refines(ask.media, m)
  \/ ask.kind = "same"   /\ Refines(m, ask.media) /\ Refines(ask.media, m)

AskMayAdmit(ask, m) == ask.kind = "unknown" \/ Meets(m, ask.media)

Admits(q, c) ==
  /\ AskAdmits(q.in, c.in)
  /\ AskAdmits(q.out, c.out)
  /\ EffectOk(c.effect, q.effect)
  /\ RefinesClosed(c.tags, q.tags)

MayAdmit(q, c) ==
  /\ AskMayAdmit(q.in, c.in)
  /\ AskMayAdmit(q.out, c.out)
  /\ EffectOk(c.effect, q.effect)
  /\ MeetsClosed(c.tags, q.tags)

Grade(q, c) ==
  CASE Admits(Exactly(q), c) -> "exact"
    [] ~Admits(Exactly(q), c) /\ Admits(q, c) -> "guaranteed"
    [] ~Admits(Exactly(q), c) /\ ~Admits(q, c) /\ MayAdmit(q, c) -> "possible"
    [] OTHER -> "none"

Serves(c, r) == Admits(OfRequest(r), c)

MayServe(c, r) == MayAdmit(OfRequest(r), c)

Fits(p, c) == Admits(OfPattern(p), c)

-----------------------------------------------------------------------------
(* Two caps compared as descriptions, and along a route. *)

CapAccepts(p, c) ==
  /\ Refines(c.in, p.in)
  /\ Refines(p.out, c.out)
  /\ p.effect = "unspecified" \/ p.effect = c.effect
  /\ Refines(c.tags, p.tags)

CapRefines(c, d) ==
  /\ Refines(d.in, c.in)
  /\ Refines(c.out, d.out)
  /\ EffectOk(c.effect, d.effect)
  /\ Refines(c.tags, d.tags)

Flows(c, d) == Refines(c.out, d.in)

MayFlow(c, d) == Meets(c.out, d.in)

-----------------------------------------------------------------------------
(* Ranking: first what is at least as specific as the request, the nearest *)
(* first; then what is less specific, the nearest first.                   *)

CapScore(c) ==
  10000 * UrnScore(c.out) + 100 * UrnScore(c.in) + UrnScore(c.tags)

RankingKey(c, r) ==
  IF CapScore(c) >= CapScore(r)
  THEN <<0, CapScore(c) - CapScore(r)>>
  ELSE <<1, CapScore(r) - CapScore(c)>>

BetterKey(k, l) == k[1] < l[1] \/ (k[1] = l[1] /\ k[2] < l[2])

(* One step of a selection: a cap that serves takes the place of the best  *)
(* so far only when it ranks strictly before it.                           *)
SelectStep(r, best, c) ==
  CASE ~Serves(c, r) -> best
    [] Serves(c, r) /\ best = <<>> -> <<c>>
    [] OTHER -> IF BetterKey(RankingKey(c, r), RankingKey(best[1], r))
                THEN <<c>> ELSE best

(* The cap that a request is served with, among caps in their order:       *)
(* nothing, or one.                                                        *)
Select(caps, r) ==
  LET best[n \in 0 .. Len(caps)] ==
        IF n = 0 THEN <<>> ELSE SelectStep(r, best[n - 1], caps[n])
  IN  best[Len(caps)]
=============================================================================
