------------------------------- MODULE Routing -------------------------------
(***************************************************************************)
(* How a request finds the handler that serves it.  The relay switch reads *)
(* its table of caps entry by entry, asks of each whether it may be        *)
(* dispatched to (three passes over sorted tags, one for each side of the  *)
(* cap), and takes the nearest; it then takes a permit of the cartridge    *)
(* that owns "the" entry of that master, waits for it without its lock,    *)
(* and resolves the master again.  The host of that master picks one of    *)
(* its cartridges, and the cartridge one of its handlers, each by its own  *)
(* reading of the same rule.                                               *)
(***************************************************************************)
EXTENDS CapsExec, SortedMerge, SequencesExt

CONSTANTS
  Values,       \* what the tags of a cap may say
  Masters,      \* 1 .. n, in the order of registration
  Cartridges,   \* what a master may have installed
  Rosters,      \* and how it lists that: sequences of Entry
  Requests,     \* the caps that may be requested
  Preferences,  \* the caps that may be given as preferred
  MaxChanges    \* bound: health changes while a request waits for admission

ASSUME RoutingAssumption ==
  /\ Nothing \notin Values
  /\ \E u, v, w \in Values : u # v /\ v # w /\ u # w
  /\ Cardinality(Masters) \in Nat
  /\ Masters = 1 .. Cardinality(Masters)
  /\ Rosters \subseteq Seq([cap : WfCaps(Values), owner : Cartridges])
  /\ Requests \subseteq WfCaps(Values)
  /\ Preferences \subseteq WfCaps(Values)
  /\ MaxChanges \in Nat

None == [none |-> "none"]

Entry(cap, owner) == [cap |-> cap, owner |-> owner]

VARIABLES
  roster,     \* master -> the caps of its cartridges, in order
  healthy,    \* master -> are its caps in the table
  stage,      \* idle, scanning for the permit, waiting, scanning again, sent
  request,    \* the cap requested
  preferred,  \* the cap preferred, or None
  pos,        \* the entry of the table being read
  side,       \* the side of the cap being compared: start, in, out, tags
  matches,    \* what was found so far
  dest,       \* the master resolved last
  permit,     \* the entry of the table whose chain of pools the permit is of
  changes

routeVars == <<roster, healthy, stage, request, preferred, pos, side, matches,
               dest, permit, changes>>
vars == <<routeVars, mergeVars>>

(* The caps of every healthy master, masters in order.                     *)
Table ==
  FlattenSeq([m \in Masters |->
    IF healthy[m]
    THEN [n \in DOMAIN roster[m] |->
           [cap |-> roster[m][n].cap, owner |-> roster[m][n].owner, master |-> m]]
    ELSE <<>>])

-----------------------------------------------------------------------------
(* Ranking, as the routers write it. *)

(* Mutant: by distance alone.                                              *)
SortKey_Absolute(c, r) ==
  LET distance == Specificity(c) - Specificity(r)
  IN  <<0, IF distance >= 0 THEN distance ELSE -distance>>

(* The signed distance from the request: what is at least as specific      *)
(* first, then by smallest distance.                                       *)
SortKey(c, r) ==
  LET distance == Specificity(c) - Specificity(r)
  IN  IF distance >= 0 THEN <<0, distance>> ELSE <<1, -distance>>

(* The first of what has these keys, stably sorted by them.                *)
FirstRanked(keys) ==
  CHOOSE n \in DOMAIN keys :
    \A k \in DOMAIN keys :
      ~BetterKey(keys[k], keys[n]) /\ (k < n => BetterKey(keys[n], keys[k]))

(* The entries among those of S that can be dispatched to, with their keys. *)
Found(entries, S, r) ==
  [n \in {m \in S : Dispatch(entries[m].cap, r)} |-> SortKey(entries[n].cap, r)]

(* Mutant: the host takes the first that can be dispatched to.             *)
HostFind_First(entries, r) ==
  LET hits == DOMAIN Found(entries, DOMAIN entries, r)
  IN  IF hits = {} THEN None ELSE entries[CHOOSE n \in hits : \A k \in hits : n <= k]

(* The host: the cartridge whose cap is the very one requested, or else    *)
(* the nearest that can be dispatched to.                                  *)
HostFind(entries, r) ==
  LET exact == {n \in DOMAIN entries : entries[n].cap = r}
      found == Found(entries, DOMAIN entries, r)
  IN  CASE exact # {} -> entries[CHOOSE n \in exact : \A k \in exact : n <= k]
        [] exact = {} /\ DOMAIN found = {} -> None
        [] OTHER -> entries[FirstRanked(found)]

(* The cartridge, among the handlers it has registered.                    *)
CartridgeFind(entries, owner, r) ==
  LET own   == {n \in DOMAIN entries : entries[n].owner = owner}
      exact == {n \in own : entries[n].cap = r}
      found == Found(entries, own, r)
  IN  CASE exact # {} -> entries[CHOOSE n \in exact : TRUE]
        [] exact = {} /\ DOMAIN found = {} -> None
        [] OTHER -> entries[FirstRanked(found)]

(* The switch, for the permit: the first entry of the master in the table  *)
(* that can be dispatched to.                                              *)
RegisteredCap(m, r) ==
  LET fits == {n \in DOMAIN Table : Table[n].master = m /\ Dispatch(Table[n].cap, r)}
  IN  IF fits = {} THEN None
      ELSE Table[CHOOSE n \in fits : \A k \in fits : n <= k]

-----------------------------------------------------------------------------
Init ==
  /\ roster \in [Masters -> Rosters]
  /\ healthy \in [Masters -> BOOLEAN]
  /\ stage = "idle"
  /\ request \in Requests
  /\ preferred \in Preferences \cup {None}
  /\ pos = 1 /\ side = "start" /\ matches = <<>>
  /\ dest = None /\ permit = None /\ changes = 0
  /\ rel = "refines" /\ inst = <<>> /\ patt = <<>>
  /\ i = 1 /\ j = 1 /\ answer = "yes"

StartScan(for) ==
  /\ stage' = for
  /\ pos' = 1
  /\ side' = "start"
  /\ matches' = <<>>
  /\ UNCHANGED <<roster, healthy, request, preferred, dest, permit, changes, mergeVars>>

Execute == stage = "idle" /\ StartScan("permitting")

Scanning == stage \in {"permitting", "sending"}

Candidate == Table[pos].cap

Compare(s) ==
  /\ side' = s
  /\ CASE s = "in"   -> StartMerge("refines", request.in.tags, Candidate.in.tags)
       [] s = "out"  -> StartMerge("refines", Candidate.out.tags, request.out.tags)
       [] s = "tags" -> StartMerge("refinesClosed", Candidate.tags.tags, request.tags.tags)
  /\ UNCHANGED <<roster, healthy, stage, request, preferred, pos, matches, dest,
                 permit, changes>>

(* An input the request leaves open is not compared.                       *)
ReadEntry ==
  /\ Scanning /\ side = "start"
  /\ pos <= Len(Table)
  /\ Compare(IF ExecUnconstrained(request.in) THEN "out" ELSE "in")

InFits == Scanning /\ side = "in" /\ answer = "yes" /\ Compare("out")

OutFits ==
  /\ Scanning /\ side = "out" /\ answer = "yes"
  /\ ExecEffectOk(Candidate.effect, request.effect)
  /\ Compare("tags")

NextEntry(found) ==
  /\ matches' = matches \o found
  /\ pos' = pos + 1
  /\ side' = "start"
  /\ UNCHANGED <<roster, healthy, stage, request, preferred, dest, permit, changes,
                 mergeVars>>

Excluded ==
  /\ Scanning /\ side # "start"
  /\ \/ answer = "no"
     \/ /\ side = "out" /\ answer = "yes"
        /\ ~ExecEffectOk(Candidate.effect, request.effect)
  /\ NextEntry(<<>>)

(* The preferred cap, by its sides and its tags.                           *)
IsPreferred(c) ==
  /\ preferred # None
  /\ preferred.in = c.in /\ preferred.out = c.out /\ preferred.tags = c.tags

Match(entry) ==
  [master |-> entry.master, cap |-> entry.cap, key |-> SortKey(entry.cap, request)]

(* Every side fits: the entry is dispatchable.                             *)
Fitting ==
  /\ Scanning /\ side = "tags" /\ answer = "yes"
  /\ NextEntry(<<Match(Table[pos])>>)

Resolved ==
  LET wanted == {n \in DOMAIN matches : IsPreferred(matches[n].cap)}
  IN  CASE matches = <<>> -> None
        [] matches # <<>> /\ wanted # {} ->
             matches[CHOOSE n \in wanted : \A k \in wanted : n <= k]
        [] OTHER -> matches[FirstRanked([n \in DOMAIN matches |-> matches[n].key])]

ScanEnds == Scanning /\ side = "start" /\ pos > Len(Table)

(* Under the same lock the entry is picked whose owner's pools admit.      *)
ResolveForPermit ==
  /\ ScanEnds /\ stage = "permitting"
  /\ dest' = Resolved
  /\ stage' = IF Resolved = None THEN "refused" ELSE "waiting"
  /\ permit' = IF Resolved = None THEN None
               ELSE RegisteredCap(Resolved.master, request)
  /\ UNCHANGED <<roster, healthy, request, preferred, pos, side, matches, changes,
                 mergeVars>>

(* While the request waits for its permit the lock is free.                *)
HealthChanges(m) ==
  /\ stage = "waiting"
  /\ changes < MaxChanges
  /\ changes' = changes + 1
  /\ healthy' = [healthy EXCEPT ![m] = ~@]
  /\ UNCHANGED <<roster, stage, request, preferred, pos, side, matches, dest,
                 permit, mergeVars>>

Admitted == stage = "waiting" /\ StartScan("sending")

ResolveToSend ==
  /\ ScanEnds /\ stage = "sending"
  /\ dest' = Resolved
  /\ stage' = IF Resolved = None THEN "refused" ELSE "sent"
  /\ UNCHANGED <<roster, healthy, request, preferred, pos, side, matches, permit,
                 changes, mergeVars>>

MergePass == Scanning /\ MergeStep /\ UNCHANGED routeVars

Next ==
  \/ Execute
  \/ ReadEntry \/ InFits \/ OutFits \/ Excluded \/ Fitting
  \/ MergePass
  \/ ResolveForPermit \/ Admitted \/ ResolveToSend
  \/ \E m \in Masters : HealthChanges(m)

Spec == Init /\ [][Next]_vars

-----------------------------------------------------------------------------
(* Properties. *)

(* What serving means, by the values the tags allow: whatever the request  *)
(* sends is taken, whatever is given is what the request needs, and the    *)
(* cap's complete tags are among those asked for.                          *)
Narrower(u, w) ==
  \A k \in AllKeys(u, w) :
    Allowed(Lookup(u.tags, k), Values) \subseteq Allowed(Lookup(w.tags, k), Values)

MeansServes(c, r) ==
  /\ Narrower(MediaTop, r.in) \/ Narrower(r.in, c.in)
  /\ Narrower(c.out, r.out)
  /\ r.effect \in {"unspecified", c.effect}
  /\ \A k \in AllKeys(c.tags, r.tags) :
       Allowed(Closed(Lookup(c.tags.tags, k)), Values)
         \subseteq Allowed(Lookup(r.tags.tags, k), Values)

Servers == {n \in DOMAIN Table : MeansServes(Table[n].cap, request)}

(* A request is refused only when no entry serves it.  Without a preferred *)
(* cap it is sent to the master of the first of the nearest entries that   *)
(* serve it, which is the cap that the kernel's proved selection takes     *)
(* from the same table; with one that an entry is and that serves it, to   *)
(* the first such entry.  The passes, the order of the sides, the ranking  *)
(* and the stable sort of _find_master_for_cap have to agree for this,     *)
(* also when the health of a master changed while the request waited for   *)
(* its permit.  Where a cap was preferred that serves nowhere, nothing     *)
(* more is claimed: whether caps that are only comparable with the request *)
(* are then candidates, the repository both says and denies                *)
(* (relay_switch.py:1206-1207, 1547-1549, 1570 against 1578-1579 and       *)
(* tests/test_relay_switch.py:426).  That it is the very cap and not an    *)
(* equivalent one (1549) follows the comment at 1583-1586.                 *)
RouteIsNearest ==
  LET wanted == {n \in Servers : IsPreferred(Table[n].cap)}
      rank(n) == RankingKey(Table[n].cap, request)
      nearest == {n \in Servers : \A k \in Servers : ~BetterKey(rank(k), rank(n))}
      goesToFirst(S) ==
        \E n \in S : /\ \A k \in S : n <= k
                     /\ dest.master = Table[n].master /\ dest.cap = Table[n].cap
  IN  /\ stage = "refused" => Servers = {}
      /\ stage = "sent" /\ wanted # {} => goesToFirst(wanted)
      /\ stage = "sent" /\ preferred = None => goesToFirst(nearest)
      /\ stage = "sent" /\ preferred = None =>
           ExecSelect([n \in DOMAIN Table |-> Table[n].cap], request) = <<dest.cap>>

(* What the switch routed to a master is handled there: the host finds a   *)
(* cartridge, the cartridge finds a handler that serves the request, and   *)
(* neither takes one that ranks behind the entry the switch had chosen.    *)
RoutedIsHandled ==
  stage = "sent" =>
    \E hosted \in {HostFind(roster[dest.master], request)} :
      /\ hosted # None
      /\ \E handler \in {CartridgeFind(roster[dest.master], hosted.owner, request)} :
           /\ handler # None
           /\ MeansServes(handler.cap, request)
           /\ ~BetterKey(dest.key, SortKey(handler.cap, request))

CapsUpTo(n) == [m \in 1..n |-> Table[m].cap]

(* The executable questions answer as their key-by-key definitions do, for *)
(* every candidate and the request it is read for, and the selection among *)
(* the candidates read so far takes the one the definition takes.          *)
ExecAnswersAsDefined ==
  Scanning /\ side = "start" /\ pos <= Len(Table) =>
    LET c == Candidate
        r == request
    IN  /\ QueryGrade(QueryOfRequest(r), c) = Grade(OfRequest(r), c)
        /\ QueryGrade(QueryOfPattern(r), c) = Grade(OfPattern(r), c)
        /\ QueryGrade(QueryBetween(r.in, r.out, r.tags), c)
             = Grade(Query(Covers(r.in), Within(r.out), r.tags, "unspecified"), c)
        /\ QueryGrade(QueryProducing(r.out, r.tags), c) = Grade(Producing(r.out, r.tags), c)
        /\ QueryGrade(QueryConsuming(r.in, r.tags), c) = Grade(Consuming(r.in, r.tags), c)
        /\ Dispatch(c, r) <=> Serves(c, r)
        /\ MayDispatch(c, r) <=> MayServe(c, r)
        /\ ExecSelect(CapsUpTo(pos), r) = Select(CapsUpTo(pos), r)
        /\ Accepts(r, c) <=> Fits(r, c)
        /\ Comparable(c, r) <=> (CapAccepts(c, r) \/ CapAccepts(r, c))
        /\ Equivalent(c, r) <=> (CapRefines(c, r) /\ CapRefines(r, c))
        /\ ExecFlows(c, r) <=> Flows(c, r)
        /\ ExecMayFlow(c, r) <=> MayFlow(c, r)
=============================================================================
