------------------------------- MODULE Request -------------------------------
(***************************************************************************)
(* One request as the runtimes see it: the table a routing runtime keeps   *)
(* of the requests that are live and of those that ended lately, what it   *)
(* does with a frame by that table, the writer's gate behind a request's   *)
(* terminal frame, the per-stream ledger, and the rules the frames a       *)
(* request sends have to keep.  The compiled model functions behind        *)
(* bifaci/request_state.py and the writer of bifaci/cartridge_runtime.py.  *)
(***************************************************************************)
EXTENDS Flow, Integers, Sequences

(* The credit left on a stream, as an observer between its ends counts it. *)
Ledger(remaining, kind, granted) ==
  CASE kind = "CHUNK"  -> remaining - 1
    [] kind = "CREDIT" -> remaining + granted
    [] OTHER           -> remaining

TerminalOf(kind) ==
  CASE kind = "END" -> "finished" [] kind = "ERR" -> "failed" [] OTHER -> "none"

(* The writer, for a flow whose terminal was written or not. *)
Suppressed(over, kind) == over /\ IsFlow(kind)
EndsFlow(over, kind) == ~Suppressed(over, kind) /\ IsFlow(kind) /\ IsTerminal(kind)

-----------------------------------------------------------------------------
(* The table: the routing id of each live request, by its request id; the   *)
(* request ids that ended last, the oldest first; how many there ever were. *)
TableEmpty == [live |-> <<>>, ended |-> <<>>, registered |-> 0]

LiveRids(table) == DOMAIN table.live
EndedLately(table, rid) == \E i \in DOMAIN table.ended : table.ended[i] = rid

Listed(live, xid, rid) == rid \in DOMAIN live /\ live[rid] = xid

IsLive(table, xid, rid) == Listed(table.live, xid, rid)

(* A request id is registered once at a time, whatever its routing id. *)
CanRegister(table, rid) == rid \notin LiveRids(table)

Registered(table, xid, rid) ==
  [table EXCEPT !.live = [r \in LiveRids(table) \cup {rid} |->
                            IF r = rid THEN xid ELSE table.live[r]],
                !.registered = @ + 1]

(* Mutant: one more than need be. *)
Forgotten_OneMore(ended, capacity) ==
  LET over == Len(ended) - capacity
  IN  IF over >= 0 THEN SubSeq(ended, over + 2, Len(ended)) ELSE ended

Forgotten(ended, capacity) ==
  LET over == Len(ended) - capacity
  IN  IF over > 0 THEN SubSeq(ended, over + 1, Len(ended)) ELSE ended

Struck(live, rid) == [r \in DOMAIN live \ {rid} |-> live[r]]

(* Of a request that is live. *)
Terminated(table, rid, capacity) ==
  [table EXCEPT !.live = Struck(@, rid),
                !.ended = Forgotten(Append(@, rid), capacity)]

Dispose(live, endedLately) ==
  IF live THEN "route" ELSE IF endedLately THEN "straggler" ELSE "no_route"

Disposition(table, rid) ==
  Dispose(rid \in LiveRids(table), EndedLately(table, rid))

-----------------------------------------------------------------------------
(* The frames one end of a request sends: the streams that are open with   *)
(* how many CHUNKs each has carried, those that were closed, and whether   *)
(* the terminal was sent.  A frame that breaks a rule is a violation and   *)
(* changes nothing.                                                        *)
EmissionStart == [open |-> <<>>, closed |-> {}, done |-> FALSE]

OpenStreams(e) == DOMAIN e.open

Without(open, s) == [t \in DOMAIN open \ {s} |-> open[t]]

StartViolates(e, s) == s \in OpenStreams(e) \cup e.closed

StreamStarted(e, s) ==
  [e EXCEPT !.open = [t \in OpenStreams(e) \cup {s} |-> IF t = s THEN 0 ELSE e.open[t]]]

(* index is the CHUNK's place in its stream. *)
ChunkViolates(e, s, index) == s \notin OpenStreams(e) \/ index # e.open[s]

OneMore(open, s) == [open EXCEPT ![s] = @ + 1]

ChunkSent(e, s) == [e EXCEPT !.open = OneMore(@, s)]

(* NoCount is the count of a stream that promised no length. *)
NoCount == -1

StreamEndViolates(e, s, count) ==
  s \notin OpenStreams(e) \/ count \notin {NoCount, e.open[s]}

StreamEnded(e, s) ==
  [e EXCEPT !.open = Without(e.open, s), !.closed = @ \cup {s}]

EndViolates(e) == OpenStreams(e) # {}

(* Every frame after the terminal violates; before it an ERR never does. *)
Violates(e, f) ==
  \/ e.done
  \/ f.kind = "STREAM_START" /\ StartViolates(e, f.stream)
  \/ f.kind = "CHUNK" /\ ChunkViolates(e, f.stream, f.index)
  \/ f.kind = "STREAM_END" /\ StreamEndViolates(e, f.stream, f.index)
  \/ f.kind = "END" /\ EndViolates(e)

Observed(e, f) ==
  CASE f.kind = "STREAM_START" -> StreamStarted(e, f.stream)
    [] f.kind = "CHUNK"        -> ChunkSent(e, f.stream)
    [] f.kind = "STREAM_END"   -> StreamEnded(e, f.stream)
    [] f.kind \in {"END", "ERR"} -> [e EXCEPT !.done = TRUE]
    [] OTHER -> e
=============================================================================
