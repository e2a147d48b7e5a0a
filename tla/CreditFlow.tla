----------------------------- MODULE CreditFlow -----------------------------
(***************************************************************************)
(* One credited stream, end to end.  Sender threads write the items of the *)
(* stream through a ThreadSafeEmitter: a CHUNK costs one credit of the     *)
(* stream's CreditGate, a thread that finds none waits on the gate's       *)
(* condition.  On the other side the demux thread accounts for every CHUNK *)
(* against its CreditWindow and hands whole items to the handler thread,   *)
(* whose recv grants credit back in batches, and flushes what is pending   *)
(* before it blocks.  CREDIT frames travel back to the sender's reader     *)
(* thread, which finds the gate in the CreditRouter and grants.  The       *)
(* request may be terminated at any moment: its gates are then removed     *)
(* from the router and closed.                                             *)
(***************************************************************************)
EXTENDS Credit, Sequences

CONSTANTS
  Senders,         \* the threads that write the stream
  SenderWindow,    \* initial credit of the gate, negotiated on its link
  ReceiverWindow,  \* initial credit of the window, negotiated on its link
  Sizes,           \* the numbers of CHUNKs an item may be split into
  MaxItems         \* bound: the number of items written to the stream

ASSUME WindowAssumption ==
  /\ SenderWindow \in Nat \ {0}
  /\ ReceiverWindow \in Nat \ {0}

ASSUME StreamAssumption ==
  /\ IsFiniteSet(Senders)
  /\ Sizes \subseteq Nat \ {0}
  /\ MaxItems \in Nat

Terminal == "terminated"

VARIABLES
  gate,          \* the sender's CreditGate
  registered,    \* is the gate in the CreditRouter
  pc,            \* where each sender thread is
  left,          \* CHUNKs of its item each sender thread has still to write
  items,         \* items whose writing has begun
  wire,          \* CHUNKs under way: each a part of an item, or its last
  ending,        \* what ends the stream: nothing yet, its STREAM_END or the
                 \* request's ERR on the wire, or already at the demux
  window,        \* the receiver's CreditWindow
  partial,       \* SeqReassembly holds the beginning of an item
  queued,        \* items in the stream's channel to the handler
  errors,        \* StreamErrors in that channel
  delivered,     \* items the handler has taken (history)
  handler,       \* where the handler thread is in recv
  demuxGrant,    \* grant the demux thread computed and has still to write
  handlerGrant,  \* grant the handler thread computed and has still to write
  credits,       \* credit in the CREDIT frames under way
  granting       \* credit the reader thread found the gate for

senderVars   == <<gate, registered, pc, left, items>>
receiverVars == <<window, partial, queued, errors, delivered, handler, demuxGrant, handlerGrant>>
vars == <<senderVars, wire, ending, receiverVars, credits, granting>>

SenderStates  == {"idle", "acquire", "parked", "write", "failed"}
Endings       == {"none", "stream_end", "err", "seen"}
HandlerStates == {"ready", "flush", "get", "consumed", "done"}

TypeOK ==
  /\ gate \in Gates({Terminal})
  /\ registered \in BOOLEAN
  /\ pc \in [Senders -> SenderStates]
  /\ left \in [Senders -> Nat]
  /\ items \in Nat
  /\ wire \in Seq({"part", "last"})
  /\ ending \in Endings
  /\ window \in Windows
  /\ partial \in BOOLEAN
  /\ queued \in Nat
  /\ errors \in Nat
  /\ delivered \in Nat
  /\ handler \in HandlerStates
  /\ demuxGrant \in Nat
  /\ handlerGrant \in Nat
  /\ credits \in Nat
  /\ granting \in Nat

(* STREAM_START was sent: the gate is registered, the window open. *)
Init ==
  /\ gate = GateOpened(SenderWindow)
  /\ registered = TRUE
  /\ pc = [t \in Senders |-> "idle"]
  /\ left = [t \in Senders |-> 0]
  /\ items = 0
  /\ wire = <<>>
  /\ ending = "none"
  /\ window = WindowOpened(ReceiverWindow)
  /\ partial = FALSE
  /\ queued = 0
  /\ errors = 0
  /\ delivered = 0
  /\ handler = "ready"
  /\ demuxGrant = 0
  /\ handlerGrant = 0
  /\ credits = 0
  /\ granting = 0

-----------------------------------------------------------------------------
(* The sender: emit_list_item splits an item, one credit before each CHUNK. *)

Emit(t) ==
  /\ pc[t] = "idle"
  /\ items < MaxItems
  /\ ending = "none"
  /\ items' = items + 1
  /\ \E size \in Sizes : left' = [left EXCEPT ![t] = size]
  /\ pc' = [pc EXCEPT ![t] = "acquire"]
  /\ UNCHANGED <<gate, registered, wire, ending, receiverVars, credits, granting>>

(* CreditGate.acquire(1), under the condition's lock. *)
Acquire(t) ==
  /\ pc[t] = "acquire"
  /\ \/ /\ CanTake(gate, 1)
        /\ gate' = Taken(gate, 1)
        /\ pc' = [pc EXCEPT ![t] = "write"]
     \/ /\ MustWait(gate, 1)
        /\ pc' = [pc EXCEPT ![t] = "parked"]
        /\ UNCHANGED gate
     \/ /\ MustFail(gate)
        /\ pc' = [pc EXCEPT ![t] = "failed"]
        /\ UNCHANGED gate
  /\ UNCHANGED <<registered, left, items, wire, ending, receiverVars, credits, granting>>

WriteChunk(t) ==
  /\ pc[t] = "write"
  /\ wire' = Append(wire, IF left[t] = 1 THEN "last" ELSE "part")
  /\ left' = [left EXCEPT ![t] = @ - 1]
  /\ pc' = [pc EXCEPT ![t] = IF left[t] = 1 THEN "idle" ELSE "acquire"]
  /\ UNCHANGED <<gate, registered, items, ending, receiverVars, credits, granting>>

(* close(): once everything is written, STREAM_END follows the last CHUNK. *)
CloseStream ==
  /\ ending = "none"
  /\ items = MaxItems
  /\ \A t \in Senders : pc[t] = "idle"
  /\ ending' = "stream_end"
  /\ UNCHANGED <<senderVars, wire, receiverVars, credits, granting>>

(* A write that failed on the closed gate fails the handler: an ERR ends the *)
(* request once none of its threads writes any more.                         *)
FailRequest ==
  /\ ending = "none"
  /\ \A t \in Senders : pc[t] \in {"idle", "failed"}
  /\ \E t \in Senders : pc[t] = "failed"
  /\ ending' = "err"
  /\ UNCHANGED <<senderVars, wire, receiverVars, credits, granting>>

(* Mutant: the threads waiting on the condition are not notified. *)
Woken_None == pc

(* What notify_all does to the threads waiting on the gate's condition. *)
Woken == [t \in Senders |-> IF pc[t] = "parked" THEN "acquire" ELSE pc[t]]

(* CreditRouter.grant, under the router's lock: a CREDIT frame whose gate *)
(* is gone is dropped.  Grants commute, so CREDIT frames under way are    *)
(* their total and any part of it may be the next frame.                  *)
RouteCredit ==
  /\ granting = 0
  /\ \E n \in 1..credits :
       /\ credits' = credits - n
       /\ granting' = IF registered THEN n ELSE 0
  /\ UNCHANGED <<senderVars, wire, ending, receiverVars>>

(* CreditGate.grant, after the router's lock is released. *)
GrantGate ==
  /\ granting > 0
  /\ gate' = Granted(gate, granting)
  /\ pc' = Woken
  /\ granting' = 0
  /\ UNCHANGED <<registered, left, items, wire, ending, receiverVars, credits>>

(* CreditRouter.close_request: the request ended or was cancelled. *)
CloseRequest ==
  /\ registered
  /\ registered' = FALSE
  /\ gate' = Closed(gate, Terminal)
  /\ pc' = Woken
  /\ UNCHANGED <<left, items, wire, ending, receiverVars, credits, granting>>

-----------------------------------------------------------------------------
(* The receiver: the demux thread, then the handler thread in recv. *)

(* A CHUNK: account for it, give a continuation back at once, and hand    *)
(* over the item it completes.  The grant of a continuation is written    *)
(* before anything else is read from the request's frames.                *)
DemuxChunk ==
  /\ wire # <<>>
  /\ demuxGrant = 0
  /\ wire' = Tail(wire)
  /\ \/ /\ Violates(window)
        /\ errors' = errors + 1
        /\ UNCHANGED <<window, partial, queued, demuxGrant>>
     \/ /\ ~Violates(window)
        /\ LET arrived == Arrived(window)
           IN  /\ window' = IF partial THEN Continued(arrived).window ELSE arrived
               /\ demuxGrant' = IF partial THEN Continued(arrived).grant ELSE 0
        /\ partial' = (Head(wire) = "part")
        /\ queued' = IF Head(wire) = "last" THEN queued + 1 ELSE queued
        /\ UNCHANGED errors
  /\ UNCHANGED <<senderVars, ending, delivered, handler, handlerGrant, credits, granting>>

(* STREAM_END comes after the CHUNKs: a truncated item is an error. *)
DemuxEnd ==
  /\ ending = "stream_end"
  /\ wire = <<>>
  /\ demuxGrant = 0
  /\ ending' = "seen"
  /\ errors' = IF partial THEN errors + 1 ELSE errors
  /\ partial' = FALSE
  /\ UNCHANGED <<senderVars, wire, window, queued, delivered, handler, demuxGrant, handlerGrant, credits, granting>>

(* ERR fails every open stream; what it holds of an item is forgotten. *)
DemuxErr ==
  /\ ending = "err"
  /\ wire = <<>>
  /\ demuxGrant = 0
  /\ ending' = "seen"
  /\ errors' = errors + 1
  /\ partial' = FALSE
  /\ UNCHANGED <<senderVars, wire, window, queued, delivered, handler, demuxGrant, handlerGrant, credits, granting>>

(* InputStream.recv: what get() returns, and where recv goes with it. *)
TakeFromChannel ==
  \/ /\ queued > 0
     /\ queued' = queued - 1
     /\ delivered' = delivered + 1
     /\ handler' = "consumed"
     /\ UNCHANGED errors
  \/ /\ errors > 0
     /\ errors' = errors - 1
     /\ handler' = "ready"
     /\ UNCHANGED <<queued, delivered>>
  \/ /\ queued = 0
     /\ errors = 0
     /\ ending = "seen"
     /\ handler' = "done"
     /\ UNCHANGED <<queued, errors, delivered>>

ChannelEmpty == queued = 0 /\ errors = 0 /\ ending # "seen"

RecvNoWait ==
  /\ handler = "ready"
  /\ handlerGrant = 0
  /\ \/ TakeFromChannel
     \/ /\ ChannelEmpty
        /\ handler' = "flush"
        /\ UNCHANGED <<queued, errors, delivered>>
  /\ UNCHANGED <<senderVars, wire, ending, window, partial, demuxGrant, handlerGrant, credits, granting>>

(* Mutant: recv blocks without granting what is pending. *)
FlushGrants_Skipped ==
  /\ handler = "flush"
  /\ handler' = "get"
  /\ UNCHANGED <<senderVars, wire, ending, window, partial, queued, errors, delivered, demuxGrant, handlerGrant, credits, granting>>

(* About to block: the pending batch is granted first. *)
FlushGrants ==
  /\ handler = "flush"
  /\ window' = Flush(window).window
  /\ handlerGrant' = Flush(window).grant
  /\ handler' = "get"
  /\ UNCHANGED <<senderVars, wire, ending, partial, queued, errors, delivered, demuxGrant, credits, granting>>

RecvBlocking ==
  /\ handler = "get"
  /\ handlerGrant = 0
  /\ TakeFromChannel
  /\ UNCHANGED <<senderVars, wire, ending, window, partial, demuxGrant, handlerGrant, credits, granting>>

Consumed ==
  /\ handler = "consumed"
  /\ window' = Consume(window).window
  /\ handlerGrant' = Consume(window).grant
  /\ handler' = "ready"
  /\ UNCHANGED <<senderVars, wire, ending, partial, queued, errors, delivered, demuxGrant, credits, granting>>

(* InputGrantEmitter._send, in the thread that computed the grant. *)
SendDemuxGrant ==
  /\ demuxGrant > 0
  /\ credits' = credits + demuxGrant
  /\ demuxGrant' = 0
  /\ UNCHANGED <<senderVars, wire, ending, window, partial, queued, errors, delivered, handler, handlerGrant, granting>>

SendHandlerGrant ==
  /\ handlerGrant > 0
  /\ credits' = credits + handlerGrant
  /\ handlerGrant' = 0
  /\ UNCHANGED <<senderVars, wire, ending, window, partial, queued, errors, delivered, handler, demuxGrant, granting>>

-----------------------------------------------------------------------------
Finished ==
  /\ \A t \in Senders : pc[t] \in {"idle", "failed"}
  /\ handler = "done"
  /\ credits = 0 /\ granting = 0 /\ demuxGrant = 0 /\ handlerGrant = 0

(* The stream is over: nothing is left to do. *)
Done == Finished /\ UNCHANGED vars

Sender(t) == Emit(t) \/ Acquire(t) \/ WriteChunk(t)

Next ==
  \/ \E t \in Senders : Sender(t)
  \/ CloseStream
  \/ FailRequest
  \/ RouteCredit
  \/ GrantGate
  \/ CloseRequest
  \/ DemuxChunk
  \/ DemuxEnd
  \/ DemuxErr
  \/ RecvNoWait
  \/ FlushGrants
  \/ RecvBlocking
  \/ Consumed
  \/ SendDemuxGrant
  \/ SendHandlerGrant
  \/ Done

Spec == Init /\ [][Next]_vars

(* Every thread runs: the senders, the reader, the demux and the handler.  *)
(* Nothing obliges anyone to terminate the request.                        *)
Fairness ==
  /\ \A t \in Senders : WF_vars(Sender(t))
  /\ WF_vars(CloseStream \/ FailRequest)
  /\ WF_vars(RouteCredit \/ GrantGate)
  /\ WF_vars(DemuxChunk \/ SendDemuxGrant \/ DemuxEnd \/ DemuxErr)
  /\ WF_vars(RecvNoWait \/ FlushGrants \/ RecvBlocking \/ Consumed \/ SendHandlerGrant)

FairSpec == Spec /\ Fairness
-----------------------------------------------------------------------------
(* What the flow control promises.                                          *)

Writing == {t \in Senders : pc[t] = "write"}

(* Credit that is the sender's, wherever it is: left in the gate or spent on *)
(* a CHUNK not yet accounted for, or granted and not yet back at the gate.   *)
Outgoing     == gate.available + Cardinality(Writing) + Len(wire)
Returning    == credits + granting + demuxGrant + handlerGrant
SenderCredit == Outgoing + Returning

(* Credit spent on data the receiver has and the handler has not consumed. *)
BeingReassembled == IF partial THEN 1 ELSE 0
BeingHandled     == IF handler = "consumed" THEN 1 ELSE 0
Unconsumed       == queued + BeingReassembled + BeingHandled

(* A thread waits on the gate's condition only while the gate is open and  *)
(* has nothing left: a grant or a close that finds it waiting wakes it     *)
(* (credit.py:122-133, L13).                                               *)
NoLostWakeup ==
  \A t \in Senders : pc[t] = "parked" => IsOpen(gate) /\ gate.available = 0

(* A CHUNK under way is never beyond the window the receiver counts, when  *)
(* the receiver's window is no smaller than the sender's: the two ends     *)
(* agree although each counts alone (cartridge_runtime.py:2745-2756, L12). *)
NoCreditViolation == wire # <<>> => ~Violates(window)

(* No credit is made or lost: while the stream is open the sender's credit *)
(* is what the receiver says remains, and a terminated request only loses  *)
(* it (credit.py:122-127, 166-201).                                        *)
CreditConserved ==
  /\ IsOpen(gate) => SenderCredit + ReceiverWindow = window.remaining + SenderWindow
  /\ SenderCredit + ReceiverWindow <= window.remaining + SenderWindow

(* Back-pressure: however the threads interleave, what was sent and not    *)
(* consumed is never more than the sender's window (L9).                   *)
BackPressure == Cardinality(Writing) + Len(wire) + Unconsumed <= SenderWindow

(* Nothing is moving: the receiver has handled and granted all it has, the *)
(* handler is blocked in recv and no CREDIT is under way.                  *)
Quiet ==
  /\ wire = <<>> /\ Writing = {}
  /\ credits = 0 /\ granting = 0 /\ demuxGrant = 0 /\ handlerGrant = 0
  /\ handler = "get" /\ queued = 0 /\ errors = 0

(* Deadlock freedom (L10): when nothing is moving no sender waits for      *)
(* credit, since the handler granted what was pending before it blocked    *)
(* (cartridge_runtime.py:782-788, 2342-2347).                              *)
NeverStalled == Quiet => \A t \in Senders : pc[t] # "parked"

(* A sender that starts an item finishes it or fails, whatever it waits    *)
(* for and whether or not the request is terminated meanwhile (L10, L13).  *)
SendersNeverHang ==
  \A t \in Senders : pc[t] \in {"acquire", "parked", "write"} ~> pc[t] \in {"idle", "failed"}

(* The handler sees the end of the stream, and every item of a stream that *)
(* was not terminated.                                                     *)
StreamCompletes ==
  <>[](handler = "done" /\ (registered => delivered = items))

(* The stream, seen from outside, is a bounded channel of items: a writer   *)
(* blocks at SenderWindow undelivered items, and none is lost.              *)
Channel == INSTANCE BoundedChannel WITH
  Capacity <- SenderWindow,
  buffer   <- queued + Cardinality({i \in DOMAIN wire : wire[i] = "last"}),
  status   <- IF handler = "done" THEN "done"
              ELSE IF ending = "none" THEN "open" ELSE "ended"

IsBoundedChannel == Channel!FairSpec
=============================================================================
