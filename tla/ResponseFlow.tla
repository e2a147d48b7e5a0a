---------------------------- MODULE ResponseFlow ----------------------------
(***************************************************************************)
(* The way of a response: a handler's threads emit to output streams of    *)
(* ThreadSafeEmitter, bytes through a coalescing buffer and other values   *)
(* past it; SyncFrameWriter numbers the frames of each flow and holds back *)
(* what comes after the terminal; the frames travel and may be reordered   *)
(* or repeated; a receiver puts them back in order with a ReorderBuffer    *)
(* and routes them by its RequestTable (bifaci/cartridge_runtime.py,       *)
(* frame.py, stats.py, request_state.py).                                  *)
(*                                                                         *)
(* What an emission carries is a unit, numbered in its stream; the wait    *)
(* for credit before each CHUNK is one of the places where the threads     *)
(* interleave (CreditFlow models it).                                      *)
(***************************************************************************)
EXTENDS Request, SequencesExt

CONSTANTS
  Requests,           \* the requests that are answered, each a flow
  Streams,            \* the output streams, each of one request
  Owner,              \* the request of each stream
  Threads,            \* the threads of the handlers
  Output,             \* the stream each thread emits to
  MaxUnits,           \* how much each thread emits
  CoalesceMax,        \* how many units make a batch that is due
  ChunkMax,           \* how many units one CHUNK carries
  Logs,               \* how many LOGs each request's detached sender sends
  Cancellable,        \* the requests that may be cancelled
  TerminatedCapacity, \* how many terminated flows the writer remembers
  RecentCapacity,     \* how many ended requests the receiver remembers
  HoldLimit,          \* max_reorder_buffer
  Displacement,       \* by how many frames a frame may be overtaken
  MaxRepeats          \* how often the transport may repeat a frame

ASSUME ResponseAssumption ==
  /\ Owner \in [Streams -> Requests]
  /\ Output \in [Threads -> Streams]
  /\ Cancellable \subseteq Requests
  /\ {MaxUnits, CoalesceMax, ChunkMax, TerminatedCapacity, RecentCapacity} \subseteq Nat \ {0}
  /\ Logs \in [Requests -> Nat]
  /\ {HoldLimit, Displacement, MaxRepeats} \subseteq Nat

NotTaken == -1

VARIABLES
  phase,       \* how far each handler is
  cancelled,   \* the requests a CANCEL has claimed
  started,     \* the streams whose STREAM_START was sent
  closed,      \* those whose STREAM_END was
  left,        \* how much each thread has still to emit
  units,       \* how many units were emitted to each stream
  buffer,      \* the units each stream's CoalesceBuf holds
  batch,       \* the payloads each thread has to write, before it goes on
  taken,       \* the chunk index it has taken for the first of them
  chunkIndex,  \* the next chunk index of each stream
  logs,        \* how many LOGs of each request were sent
  counters,    \* SeqAssigner: the next number of each flow
  terminated,  \* TerminatedFlows, the oldest first
  written,     \* the frames written, in order, with their numbers
  travelling,  \* the places in written of the frames still under way
  repeats,     \* how often a frame was repeated
  orders,      \* ReorderBuffer: the order of each flow it knows
  held,        \* and the frames it holds back
  ready,       \* the frames it released and the receiver has not routed
  refused,     \* how it refused frames, and what its table knew of their request
  table,       \* the receiver's RequestTable
  emission,    \* the rules of a request's frames, as the receiver sees them
  broken,      \* the requests that broke them
  got          \* the frames routed to each request

handlerVars  == <<phase, cancelled>>
streamVars   == <<started, closed, left, units, buffer, batch, taken, chunkIndex, logs>>
writerVars   == <<counters, terminated, written, travelling>>
receiverVars == <<repeats, orders, held, ready, refused, table, emission, broken, got>>
vars == <<handlerVars, streamVars, writerVars, receiverVars>>

ThreadsOf(r) == {t \in Threads : Owner[Output[t]] = r}
StreamsOf(r) == {s \in Streams : Owner[s] = r}

Init ==
  /\ phase = [r \in Requests |-> "none"]
  /\ cancelled = {} /\ started = {} /\ closed = {}
  /\ left = [t \in Threads |-> MaxUnits]
  /\ units = [s \in Streams |-> 0]
  /\ buffer = [s \in Streams |-> <<>>]
  /\ batch = [t \in Threads |-> <<>>]
  /\ taken = [t \in Threads |-> NotTaken]
  /\ chunkIndex = [s \in Streams |-> 0]
  /\ logs = [r \in Requests |-> 0]
  /\ counters = <<>> /\ terminated = <<>>
  /\ written = [r \in Requests |-> <<>>]
  /\ travelling = [r \in Requests |-> {}]
  /\ repeats = 0
  /\ orders = <<>> /\ held = <<>> /\ ready = <<>> /\ refused = {}
  /\ table = TableEmpty
  /\ emission = [r \in Requests |-> EmissionStart]
  /\ broken = {}
  /\ got = [r \in Requests |-> <<>>]

-----------------------------------------------------------------------------
(* SeqAssigner.assign. *)
Numbered(frame, seq) ==
  [seq |-> seq, kind |-> frame.kind, stream |-> frame.stream, index |-> frame.index,
   payload |-> frame.payload]

(* write_gated, under the writer's lock.                                    *)
NextSeq(r) == IF r \in DOMAIN counters THEN counters[r] ELSE 0

(* TerminatedFlows.insert: the oldest makes room. *)
Remembered(flows, r) ==
  Append(IF Len(flows) = TerminatedCapacity THEN Tail(flows) ELSE flows, r)

(* Mutant: a LOG does not count. *)
WriteFrame_LogUncounted(r, frame) ==
  LET over == r \in Range(terminated) IN
  \/ Suppressed(over, frame.kind) /\ UNCHANGED writerVars
  \/ /\ ~Suppressed(over, frame.kind)
     /\ written' = [written EXCEPT ![r] = Append(@, Numbered(frame, NextSeq(r)))]
     /\ travelling' = [travelling EXCEPT ![r] = @ \cup {Len(written[r]) + 1}]
     /\ IF EndsFlow(over, frame.kind)
        THEN /\ counters' = [q \in DOMAIN counters \ {r} |-> counters[q]]
             /\ terminated' = Remembered(terminated, r)
        ELSE /\ counters' = [q \in DOMAIN counters \cup {r} |->
                               IF q # r THEN counters[q]
                               ELSE IF frame.kind = "LOG" THEN NextSeq(r) ELSE NextSeq(r) + 1]
             /\ UNCHANGED terminated

WriteFrame(r, frame) ==
  LET over == r \in Range(terminated) IN
  \/ Suppressed(over, frame.kind) /\ UNCHANGED writerVars
  \/ /\ ~Suppressed(over, frame.kind)
     /\ written' = [written EXCEPT ![r] = Append(@, Numbered(frame, NextSeq(r)))]
     /\ travelling' = [travelling EXCEPT ![r] = @ \cup {Len(written[r]) + 1}]
     /\ IF EndsFlow(over, frame.kind)
        THEN /\ counters' = [q \in DOMAIN counters \ {r} |-> counters[q]]
             /\ terminated' = Remembered(terminated, r)
        ELSE /\ counters' = [q \in DOMAIN counters \cup {r} |->
                               IF q = r THEN NextSeq(r) + 1 ELSE counters[q]]
             /\ UNCHANGED terminated

Frame(kind, s, index, payload) ==
  [kind |-> kind, stream |-> s, index |-> index, payload |-> payload]

Plain(kind) == Frame(kind, "none", NoCount, <<>>)

-----------------------------------------------------------------------------
(* The handler.                                                             *)

(* The receiver sends the request: it knows it from now on. *)
Accept(r) ==
  /\ phase[r] = "none"
  /\ phase' = [phase EXCEPT ![r] = "running"]
  /\ table' = Registered(table, r, r)
  /\ UNCHANGED <<cancelled, streamVars, writerVars, repeats, orders, held, ready, refused,
                 emission, broken, got>>

MayEmit(t) ==
  /\ phase[Owner[Output[t]]] = "running"
  /\ left[t] > 0 /\ batch[t] = <<>>

(* _ensure_stream_started, under stream_lock. *)
StartStream(s) ==
  /\ s \notin started
  /\ \/ \E t \in Threads : Output[t] = s /\ MayEmit(t)
     \/ phase[Owner[s]] = "finishing"
  /\ started' = started \cup {s}
  /\ WriteFrame(Owner[s], Frame("STREAM_START", s, NoCount, <<>>))
  /\ UNCHANGED <<handlerVars, closed, left, units, buffer, batch, taken, chunkIndex, logs,
                 receiverVars>>

(* A batch is split at max_chunk. *)
Pieces(content) ==
  [i \in 1..((Len(content) + ChunkMax - 1) \div ChunkMax) |->
     SubSeq(content, (i - 1) * ChunkMax + 1,
            IF i * ChunkMax < Len(content) THEN i * ChunkMax ELSE Len(content))]

Emits(t) ==
  /\ MayEmit(t)
  /\ Output[t] \in started
  /\ left' = [left EXCEPT ![t] = @ - 1]
  /\ units' = [units EXCEPT ![Output[t]] = @ + 1]
  /\ UNCHANGED <<handlerVars, started, closed, taken, chunkIndex, logs, writerVars,
                 receiverVars>>

(* Bytes: the batch is due when it is large enough, or when its oldest byte *)
(* is old enough.                                                           *)
EmitBytes(t) ==
  LET s == Output[t]
      content == Append(buffer[s], units[s] + 1)
  IN  /\ Emits(t)
      /\ \/ /\ Len(content) < CoalesceMax
            /\ buffer' = [buffer EXCEPT ![s] = content]
            /\ UNCHANGED batch
         \/ /\ Len(content) >= CoalesceMax \/ buffer[s] # <<>>
            /\ buffer' = [buffer EXCEPT ![s] = <<>>]
            /\ batch' = [batch EXCEPT ![t] = Pieces(content)]

(* Mutant: a value overtakes the bytes still in the buffer. *)
EmitValue_NoBarrier(t) ==
  LET s == Output[t] IN
  /\ Emits(t)
  /\ batch' = [batch EXCEPT ![t] = <<<<units[s] + 1>>>>]
  /\ UNCHANGED buffer

(* Any other value: what is in the buffer goes first. *)
EmitValue(t) ==
  LET s == Output[t] IN
  /\ Emits(t)
  /\ buffer' = [buffer EXCEPT ![s] = <<>>]
  /\ batch' = [batch EXCEPT ![t] = Append(Pieces(buffer[s]), <<units[s] + 1>>)]

(* Each payload takes its index, under chunk_lock; ... *)
TakeIndex(t) ==
  /\ batch[t] # <<>> /\ taken[t] = NotTaken
  /\ taken' = [taken EXCEPT ![t] = chunkIndex[Output[t]]]
  /\ chunkIndex' = [chunkIndex EXCEPT ![Output[t]] = @ + 1]
  /\ UNCHANGED <<handlerVars, started, closed, left, units, buffer, batch, logs, writerVars,
                 receiverVars>>

(* ... then it waits for credit and is written. *)
WriteChunk(t) ==
  /\ taken[t] # NotTaken
  /\ WriteFrame(Owner[Output[t]], Frame("CHUNK", Output[t], taken[t], Head(batch[t])))
  /\ batch' = [batch EXCEPT ![t] = Tail(@)]
  /\ taken' = [taken EXCEPT ![t] = NotTaken]
  /\ UNCHANGED <<handlerVars, started, closed, left, units, buffer, chunkIndex, logs,
                 receiverVars>>

(* The handler returns, with the threads it started. *)
Return(r) ==
  /\ phase[r] = "running"
  /\ \A t \in ThreadsOf(r) : batch[t] = <<>>
  /\ phase' = [phase EXCEPT ![r] = "finishing"]
  /\ UNCHANGED <<cancelled, streamVars, writerVars, receiverVars>>

(* It fails: its outputs stay as they are. *)
Fail(r) ==
  /\ phase[r] = "running"
  /\ phase' = [phase EXCEPT ![r] = "failed"]
  /\ batch' = [t \in Threads |-> IF t \in ThreadsOf(r) THEN <<>> ELSE batch[t]]
  /\ taken' = [t \in Threads |-> IF t \in ThreadsOf(r) THEN NotTaken ELSE taken[t]]
  /\ UNCHANGED <<cancelled, started, closed, left, units, buffer, chunkIndex, logs,
                 writerVars, receiverVars>>

(* ResponseOutputs.finish closes each output: the coalesced tail, ... *)
FlushLast(s) ==
  /\ phase[Owner[s]] = "finishing" /\ buffer[s] # <<>>
  /\ \E t \in Threads :
       /\ Output[t] = s /\ batch[t] = <<>>
       /\ batch' = [batch EXCEPT ![t] = Pieces(buffer[s])]
  /\ buffer' = [buffer EXCEPT ![s] = <<>>]
  /\ UNCHANGED <<handlerVars, started, closed, left, units, taken, chunkIndex, logs,
                 writerVars, receiverVars>>

(* ... then its STREAM_END with the number of its CHUNKs. *)
CloseStream(s) ==
  /\ phase[Owner[s]] = "finishing"
  /\ s \in started \ closed /\ buffer[s] = <<>>
  /\ \A t \in Threads : Output[t] = s => batch[t] = <<>>
  /\ closed' = closed \cup {s}
  /\ WriteFrame(Owner[s], Frame("STREAM_END", s, chunkIndex[s], <<>>))
  /\ UNCHANGED <<handlerVars, started, left, units, buffer, batch, taken, chunkIndex, logs,
                 receiverVars>>

(* A CANCEL claims the terminal while nobody has. *)
Cancel(r) ==
  /\ r \in Cancellable \ cancelled
  /\ phase[r] \in {"running", "finishing", "failed"}
  /\ cancelled' = cancelled \cup {r}
  /\ UNCHANGED <<phase, streamVars, writerVars, receiverVars>>

(* The terminal, once the handler is through: END, the handler's ERR, or *)
(* the ERR of the cancel that came first.                                *)
WriteTerminal(r) ==
  /\ \/ phase[r] = "finishing" /\ StreamsOf(r) \subseteq closed
     \/ phase[r] = "failed"
  /\ phase' = [phase EXCEPT ![r] = "over"]
  /\ WriteFrame(r, Plain(IF phase[r] = "finishing" /\ r \notin cancelled THEN "END" ELSE "ERR"))
  /\ UNCHANGED <<cancelled, streamVars, receiverVars>>

(* A detached ProgressSender goes on whenever it likes, the END or not. *)
WriteLog(r) ==
  /\ phase[r] # "none" /\ logs[r] < Logs[r]
  /\ logs' = [logs EXCEPT ![r] = @ + 1]
  /\ WriteFrame(r, Plain("LOG"))
  /\ UNCHANGED <<handlerVars, started, closed, left, units, buffer, batch, taken, chunkIndex,
                 receiverVars>>

-----------------------------------------------------------------------------
(* The receiver.                                                            *)
OrderOf(r) == IF r \in DOMAIN orders THEN orders[r] ELSE Start
HeldOf(r)  == IF r \in DOMAIN held THEN held[r] ELSE <<>>

(* ReorderBuffer.accept, for the frame at place i of what was written. *)
Arrive(r, i) ==
  LET seq   == written[r][i].seq
      order == OrderOf(r)
      after == Accepted(order, seq, HoldLimit)
      have  == [n \in DOMAIN HeldOf(r) \cup {seq} |-> IF n = seq THEN i ELSE HeldOf(r)[n]]
      answer == Answer(order, seq, HoldLimit)
  IN  /\ orders' = [q \in DOMAIN orders \cup {r} |-> IF q = r THEN after ELSE orders[q]]
      /\ CASE answer = "deliver" ->
                /\ ready' = [k \in 1..(after.expected - seq) |-> <<r, have[seq + k - 1]>>]
                /\ held' = [q \in DOMAIN held \cup {r} |->
                              IF q = r THEN [n \in after.held |-> have[n]] ELSE held[q]]
                /\ UNCHANGED refused
           [] answer = "hold" ->
                /\ held' = [q \in DOMAIN held \cup {r} |-> IF q = r THEN have ELSE held[q]]
                /\ UNCHANGED <<ready, refused>>
           [] OTHER ->
                /\ refused' = refused \cup {<<Disposition(table, r), answer>>}
                /\ held' = [q \in DOMAIN held \cup {r} |-> HeldOf(q)]
                /\ UNCHANGED ready
      /\ UNCHANGED <<handlerVars, streamVars, counters, terminated, written, table, emission,
                     broken, got>>

(* Written although the terminal of the flow had been: the writer had      *)
(* forgotten it, which takes TerminatedCapacity flows that end.  By then   *)
(* nothing of the flow is under way any more that it could overtake.       *)
IsLate(r, i) == \E k \in 1..(i - 1) : IsTerminal(written[r][k].kind)

MayArrive(r, i) ==
  /\ ready = <<>>
  /\ i \in travelling[r]
  /\ \A j \in travelling[r] :
       /\ i <= j + Displacement
       /\ IsLate(r, i) => IsLate(r, j)

ArriveOnce(r, i) ==
  /\ MayArrive(r, i)
  /\ Arrive(r, i)
  /\ travelling' = [travelling EXCEPT ![r] = @ \ {i}]
  /\ UNCHANGED repeats

ArriveAndStay(r, i) ==
  /\ MayArrive(r, i) /\ repeats < MaxRepeats
  /\ Arrive(r, i)
  /\ repeats' = repeats + 1
  /\ UNCHANGED travelling

(* Mutant: a request whose END was routed stays in the table. *)
Ended_Live(r) ==
  /\ UNCHANGED table
  /\ orders' = [q \in DOMAIN orders \ {r} |-> orders[q]]
  /\ held' = [q \in DOMAIN held \ {r} |-> held[q]]

(* The terminal was routed: the entry and the order of the flow go. *)
Ended(r) ==
  /\ table' = Terminated(table, r, RecentCapacity)
  /\ orders' = [q \in DOMAIN orders \ {r} |-> orders[q]]
  /\ held' = [q \in DOMAIN held \ {r} |-> held[q]]

(* Every frame goes to its request if the table has it, else nowhere. *)
Route ==
  /\ ready # <<>>
  /\ ready' = Tail(ready)
  /\ LET r == Head(ready)[1]
         f == written[r][Head(ready)[2]]
     IN  \/ /\ Disposition(table, r) = "route"
            /\ got' = [got EXCEPT ![r] = Append(@, f)]
            /\ IF Violates(emission[r], f)
               THEN broken' = broken \cup {r} /\ UNCHANGED emission
               ELSE emission' = [emission EXCEPT ![r] = Observed(@, f)] /\ UNCHANGED broken
            /\ IF TerminalOf(f.kind) # "none"
               THEN Ended(r) ELSE UNCHANGED <<table, orders, held>>
         \/ /\ Disposition(table, r) # "route"
            /\ UNCHANGED <<table, orders, held, emission, broken, got>>
  /\ UNCHANGED <<handlerVars, streamVars, writerVars, repeats, refused>>

Next ==
  \/ \E r \in Requests :
       \/ Accept(r) \/ Return(r) \/ Fail(r) \/ Cancel(r) \/ WriteTerminal(r) \/ WriteLog(r)
       \/ \E i \in travelling[r] : ArriveOnce(r, i) \/ ArriveAndStay(r, i)
  \/ \E s \in Streams : StartStream(s) \/ FlushLast(s) \/ CloseStream(s)
  \/ \E t \in Threads : EmitBytes(t) \/ EmitValue(t) \/ TakeIndex(t) \/ WriteChunk(t)
  \/ Route

Spec == Init /\ [][Next]_vars

(* The transport delivers, in the end, what has travelled longest, and the *)
(* receiver routes what its buffer released.  Nothing else need happen.    *)
ArriveOldest(r) ==
  \E i \in travelling[r] : (\A j \in travelling[r] : i <= j) /\ ArriveOnce(r, i)

FairSpec == Spec /\ WF_vars(Route) /\ \A r \in Requests : WF_vars(ArriveOldest(r))
-----------------------------------------------------------------------------
TypeOK ==
  /\ phase \in [Requests -> {"none", "running", "finishing", "failed", "over"}]
  /\ cancelled \subseteq Cancellable
  /\ closed \subseteq started /\ started \subseteq Streams
  /\ left \in [Threads -> 0..MaxUnits]
  /\ units \in [Streams -> Nat]
  /\ buffer \in [Streams -> Seq(Nat)]
  /\ batch \in [Threads -> Seq(Seq(Nat))]
  /\ taken \in [Threads -> Nat \cup {NotTaken}]
  /\ chunkIndex \in [Streams -> Nat]
  /\ logs \in [Requests -> Nat]
  /\ DOMAIN counters \subseteq Requests
  /\ terminated \in Seq(Requests) /\ Len(terminated) <= TerminatedCapacity
  /\ \A r \in Requests : travelling[r] \subseteq DOMAIN written[r]
  /\ repeats \in 0..MaxRepeats
  /\ DOMAIN orders \subseteq Requests /\ DOMAIN held = DOMAIN orders
  /\ \A r \in DOMAIN orders : orders[r] \in Orders /\ DOMAIN held[r] = orders[r].held
  /\ refused \subseteq {"route", "straggler", "no_route"} \X {"stale", "duplicate", "overflow"}
  /\ LiveRids(table) \subseteq Requests
  /\ broken \subseteq Requests

OvertakenAreTaken == Displacement <= HoldLimit => <<"route", "overflow">> \notin refused

(* What reaches a request keeps every rule of its frames: each stream is    *)
(* started once, its CHUNKs are numbered from zero without a gap, its end   *)
(* counts them, an END comes when all are closed and nothing comes after    *)
(* the terminal: a LOG of a sender that did not notice does not, even when  *)
(* the writer has forgotten the flow and numbers it from zero again         *)
(* (cartridge_runtime.py:305-318, stats.py:254-266).  Frames that are       *)
(* overtaken by no more than the negotiated limit are all taken while their *)
(* request is live (frame.py:1498-1506).                                    *)
FlowKeepsRules ==
  /\ TypeOK
  /\ broken = {}
  /\ OvertakenAreTaken

(* The units of a stream that were routed, in the order they came. *)
Content(s) ==
  FlattenSeq([i \in DOMAIN got[Owner[s]] |->
    IF got[Owner[s]][i].kind = "CHUNK" /\ got[Owner[s]][i].stream = s
    THEN got[Owner[s]][i].payload ELSE <<>>])

Finished(r) == \E i \in DOMAIN got[r] : got[r][i].kind = "END"

(* Coalescing changes where a CHUNK ends and nothing else: what arrives of  *)
(* a stream is at any time a beginning of what was emitted to it, in that   *)
(* order, and all of it once its request has finished                       *)
(* (cartridge_runtime.py:252-262, 1875-1877).                               *)
CoalescingIsLossless ==
  \A s \in Streams :
    /\ IsPrefix(Content(s), [n \in 1..units[s] |-> n])
    /\ Finished(Owner[s]) => Len(Content(s)) = units[s]

(* The terminal gets through: once it was written the receiver sees the     *)
(* request end, whatever was held back, repeated, suppressed or refused on  *)
(* the way (frame.py:1488-1496, request_state.py:473-487).                  *)
TerminalArrives == \A r \in Requests : phase[r] = "over" ~> r \notin LiveRids(table)

(* A flow implements the sequence of frames its receiver gets in order.     *)
(* What was written after the terminal, when the writer had forgotten the   *)
(* flow, is not part of it.                                                 *)
UpToTerminal(frames) ==
  IF \E i \in DOMAIN frames : IsTerminal(frames[i].kind)
  THEN SubSeq(frames, 1, CHOOSE i \in DOMAIN frames :
         IsTerminal(frames[i].kind) /\ \A j \in 1..(i - 1) : ~IsTerminal(frames[j].kind))
  ELSE frames

Ordered == INSTANCE OrderedFlow WITH
  sent <- [r \in Requests |-> UpToTerminal(written[r])]

IsOrderedFlow == Ordered!Spec
=============================================================================
