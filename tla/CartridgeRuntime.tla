--------------------------- MODULE CartridgeRuntime ---------------------------
(***************************************************************************)
(* A cartridge serving requests: run_cbor_mode of                          *)
(* bifaci/cartridge_runtime.py with RuntimePools, TerminalClaim and        *)
(* PeerInvokerImpl.  The main loop reads the host's frames and must never  *)
(* block; every request runs in a handler thread of its own, started by    *)
(* the main loop or by whichever thread found room for it; a handler may   *)
(* itself call a cap of the host.                                          *)
(*                                                                         *)
(* A step is what one thread does under one lock.  Of a request's frames   *)
(* the model keeps what decides whether its handler goes on: whether its   *)
(* input has ended, whether its sender has credit.  (CreditFlow models a   *)
(* stream.)  A REQ that is refused at once leaves no state and is left     *)
(* out.                                                                    *)
(***************************************************************************)
EXTENDS Pools, Sequences, FiniteSets

CONSTANTS
  Requests,       \* the requests the host sends, each once
  PoolNames,      \* the cartridge's pools
  Chain,          \* the pools each request must be admitted through
  Limits,         \* the capacities the operator and the cartridge may set
  Work,           \* what each handler may wait for: "read" its input,
                  \* "write" an output, "call" a cap of the host
  InputEnds,      \* the requests whose input the host may end
  Cancellable,    \* the requests the host may cancel
  MayDisconnect,  \* may the connection close?
  Main, Reporter, \* the main loop; a thread that uses a PoolHandle
  NoRequest

ASSUME RequestAssumption ==
  /\ IsFiniteSet(Requests)
  /\ NoRequest \notin Requests
  /\ Main \notin Requests
  /\ Reporter \notin Requests
  /\ Main # Reporter
  /\ InputEnds \subseteq Requests
  /\ Cancellable \subseteq Requests
  /\ Work \in [Requests -> SUBSET {"read", "write", "call"}]
  /\ MayDisconnect \in BOOLEAN

ASSUME PoolAssumption ==
  /\ Chain \in [Requests -> SUBSET PoolNames]
  /\ Limits # {}
  /\ Limits \subseteq [PoolNames -> Nat]

Actors == Requests \cup {Main, Reporter}

VARIABLES
  at, cur,      \* where the main loop is, and with which request
  routed,       \* active_requests: where frames of a request still go
  input,        \* how far each request's input is
  capacity, active, inLine, ahead,   \* RuntimePools
  admitting,    \* where each thread is in _admit_waiting
  picked,       \* the request it took out of the line
  running,      \* the requests registered as running
  claim,        \* who ends each request: its TerminalClaim
  thread,       \* where each handler thread is
  todo,         \* what each handler may still do
  gate,         \* the credit gate of each handler's output
  pending,      \* pending_peer_requests: whose peer call is not answered
  peer,         \* the cap each handler called
  response,     \* how far the response to each peer call is
  told,         \* what was written about each request
  asked,        \* the requests whose CANCEL was read
  ignored       \* the cancels dropped as of unknown requests

mainVars    == <<at, cur>>
inputVars   == <<routed, input>>
lineVars    == <<active, inLine, ahead>>
admitVars   == <<admitting, picked>>
runVars     == <<running, claim>>
peerVars    == <<pending, peer, response>>
cancelVars  == <<asked, ignored>>
handlerVars == <<thread, todo, gate, peerVars>>
vars == <<mainVars, inputVars, capacity, lineVars, admitVars, runVars,
          handlerVars, told, cancelVars>>

(* END or ERR of the handler, ERR of a cancel. *)
Terminals == {"ended", "cancelled"}

HasEnded(frames) == \E i \in DOMAIN frames : frames[i] \in Terminals

TypeOK ==
  /\ at \in {"read", "arrive", "spawn", "queued", "admit",
             "dequeue", "claim", "cut", "gates", "peers", "closed"}
  /\ cur \in Requests \cup {NoRequest}
  /\ routed \subseteq Requests
  /\ input \in [Requests -> {"none", "open", "ended", "cut"}]
  /\ capacity \in [PoolNames -> Nat]
  /\ active \in [PoolNames -> Nat]
  /\ inLine \subseteq Requests
  /\ ahead \in [Requests -> SUBSET Requests]
  /\ admitting \in [Actors -> {"no", "next", "log", "spawn"}]
  /\ picked \in [Actors -> Requests \cup {NoRequest}]
  /\ \A a \in Actors : picked[a] = NoRequest <=> admitting[a] \in {"no", "next"}
  /\ running \subseteq Requests
  /\ claim \in [Requests -> {"open", "handler", "cancel"}]
  /\ thread \in [Requests -> {"none", "op", "reading", "writing", "calling", "awaiting",
                              "ending", "popping", "answering", "releasing",
                              "draining", "gone"}]
  /\ todo \in [Requests -> SUBSET {"read", "write", "call"}]
  /\ gate \in [Requests -> {"none", "open", "closed"}]
  /\ pending \subseteq Requests
  /\ peer \in [Requests -> {"none", "running", "over"}]
  /\ response \in [Requests -> {"open", "ended", "cut"}]
  /\ told \in [Requests -> Seq({"queued", "dequeued"} \cup Terminals)]
  /\ asked \subseteq Cancellable
  /\ ignored \subseteq asked

Init ==
  /\ at = "read" /\ cur = NoRequest
  /\ routed = {} /\ input = [r \in Requests |-> "none"]
  /\ capacity \in Limits
  /\ active = [p \in PoolNames |-> 0]
  /\ inLine = {} /\ ahead = [r \in Requests |-> {}]
  /\ admitting = [a \in Actors |-> "no"]
  /\ picked = [a \in Actors |-> NoRequest]
  /\ running = {} /\ claim = [r \in Requests |-> "open"]
  /\ thread = [r \in Requests |-> "none"]
  /\ todo = Work
  /\ gate = [r \in Requests |-> "none"]
  /\ pending = {}
  /\ peer = [r \in Requests |-> "none"]
  /\ response = [r \in Requests |-> "open"]
  /\ told = [r \in Requests |-> << >>]
  /\ asked = {} /\ ignored = {}

(* Nothing is written about a request after its terminal. *)
Write(r, frame) ==
  told' = [told EXCEPT ![r] = IF HasEnded(@) THEN @ ELSE Append(@, frame)]

-----------------------------------------------------------------------------
(* Admission.                                                               *)

(* Register the request as running, with nobody's claim, and start its thread. *)
Spawn(r) ==
  /\ running' = running \cup {r}
  /\ claim' = [claim EXCEPT ![r] = "open"]
  /\ thread' = [thread EXCEPT ![r] = "op"]

(* Mutant: the slots of an admitted waiter are not taken. *)
LeavesLineWithSlots_Free(r) ==
  /\ inLine' = inLine \ {r}
  /\ ahead' = Leave(ahead, r)
  /\ UNCHANGED active

LeavesLineWithSlots(r) ==
  /\ active' = Take(active, Chain[r])
  /\ inLine' = inLine \ {r}
  /\ ahead' = Leave(ahead, r)

(* One turn of the loop that starts everyone who can go: the next one leaves *)
(* the line, under the pools' lock, or the loop is over.                     *)
AdmitNext(a) ==
  /\ admitting[a] = "next"
  /\ \/ \E r \in inLine :
          /\ IsNextUp(r, inLine, ahead, Chain, capacity, active)
          /\ LeavesLineWithSlots(r)
          /\ admitting' = [admitting EXCEPT ![a] = "log"]
          /\ picked' = [picked EXCEPT ![a] = r]
          /\ UNCHANGED <<mainVars, thread>>
     \/ /\ \A r \in inLine : ~HasRoom(capacity, active, Chain[r])
        /\ admitting' = [admitting EXCEPT ![a] = "no"]
        /\ at' = IF a = Main THEN "read" ELSE at
        /\ cur' = IF a = Main THEN NoRequest ELSE cur
        /\ thread' = [r \in Requests |-> IF r = a THEN "gone" ELSE thread[r]]
        /\ UNCHANGED <<lineVars, picked>>
  /\ UNCHANGED <<inputVars, capacity, runVars, todo, gate, peerVars, told, cancelVars>>

WriteDequeued(a) ==
  /\ admitting[a] = "log"
  /\ Write(picked[a], "dequeued")
  /\ admitting' = [admitting EXCEPT ![a] = "spawn"]
  /\ UNCHANGED <<mainVars, inputVars, capacity, lineVars, picked, runVars, handlerVars,
                 cancelVars>>

SpawnPicked(a) ==
  /\ admitting[a] = "spawn"
  /\ Spawn(picked[a])
  /\ admitting' = [admitting EXCEPT ![a] = "next"]
  /\ picked' = [picked EXCEPT ![a] = NoRequest]
  /\ UNCHANGED <<mainVars, inputVars, capacity, lineVars, todo, gate, peerVars, told,
                 cancelVars>>

(* PoolHandle.set: some thread reports what the cartridge can serve. *)
Report(limits) ==
  /\ admitting[Reporter] = "no"
  /\ capacity' = limits
  /\ admitting' = [admitting EXCEPT ![Reporter] = "next"]
  /\ UNCHANGED <<mainVars, inputVars, lineVars, picked, runVars, handlerVars, told,
                 cancelVars>>

-----------------------------------------------------------------------------
(* The main loop.                                                           *)

Reads == at = "read"

(* REQ: its frames are routed from now on, whenever its handler starts. *)
ReadReq(r) ==
  /\ Reads /\ input[r] = "none"
  /\ input' = [input EXCEPT ![r] = "open"]
  /\ routed' = routed \cup {r}
  /\ at' = "arrive" /\ cur' = r
  /\ UNCHANGED <<capacity, lineVars, admitVars, runVars, handlerVars, told, cancelVars>>

(* Admitted at once if there is room and nobody in line could go instead. *)
Arrive ==
  LET line  == inLine \cup {cur}
      order == Join(ahead, inLine, cur)
  IN  /\ at = "arrive"
      /\ \/ /\ IsNextUp(cur, line, order, Chain, capacity, active)
            /\ active' = Take(active, Chain[cur])
            /\ at' = "spawn"
            /\ UNCHANGED <<inLine, ahead>>
         \/ /\ ~IsNextUp(cur, line, order, Chain, capacity, active)
            /\ inLine' = line /\ ahead' = order
            /\ at' = "queued"
            /\ UNCHANGED active
      /\ UNCHANGED <<cur, inputVars, capacity, admitVars, runVars, handlerVars, told,
                     cancelVars>>

SpawnArrived ==
  /\ at = "spawn"
  /\ Spawn(cur)
  /\ at' = "read" /\ cur' = NoRequest
  /\ UNCHANGED <<inputVars, capacity, lineVars, admitVars, todo, gate, peerVars, told,
                 cancelVars>>

WriteQueued ==
  /\ at = "queued"
  /\ Write(cur, "queued")
  /\ admitting' = [admitting EXCEPT ![Main] = "next"]
  /\ at' = "admit" /\ cur' = NoRequest
  /\ UNCHANGED <<inputVars, capacity, lineVars, picked, runVars, handlerVars, cancelVars>>

(* The last frame of a request's input, END or ERR; the route ends with it. *)
ReadInputEnd(r) ==
  /\ Reads /\ r \in routed \cap InputEnds
  /\ routed' = routed \ {r}
  /\ input' = [input EXCEPT ![r] = "ended"]
  /\ UNCHANGED <<mainVars, capacity, lineVars, admitVars, runVars, handlerVars, told,
                 cancelVars>>

(* CREDIT for a stream whose sender waits: the one of an output, or the one *)
(* of an argument of a peer call.                                           *)
ReadOutputCredit(r) ==
  /\ Reads /\ thread[r] = "writing" /\ gate[r] = "open"
  /\ thread' = [thread EXCEPT ![r] = "op"]
  /\ UNCHANGED <<mainVars, inputVars, capacity, lineVars, admitVars, runVars, todo, gate,
                 peerVars, told, cancelVars>>

ReadArgumentCredit(r) ==
  /\ Reads /\ thread[r] = "calling" /\ peer[r] = "running"
  /\ thread' = [thread EXCEPT ![r] = "awaiting"]
  /\ UNCHANGED <<mainVars, inputVars, capacity, lineVars, admitVars, runVars, todo, gate,
                 peerVars, told, cancelVars>>

(* The called cap's END or ERR, also before it has read its arguments.     *)
ReadPeerEnd(r) ==
  /\ Reads /\ peer[r] = "running" /\ r \in pending
  /\ pending' = pending \ {r}
  /\ response' = [response EXCEPT ![r] = "ended"]
  /\ peer' = [peer EXCEPT ![r] = "over"]
  /\ UNCHANGED <<mainVars, inputVars, capacity, lineVars, admitVars, runVars, thread, todo,
                 gate, told, cancelVars>>

(* A HEARTBEAT that carries the operator's limits. *)
ReadHeartbeat(limits) ==
  /\ Reads
  /\ capacity' = limits
  /\ admitting' = [admitting EXCEPT ![Main] = "next"]
  /\ at' = "admit"
  /\ UNCHANGED <<cur, inputVars, lineVars, picked, runVars, handlerVars, told, cancelVars>>

(* The host is gone: nothing is read any more, the handlers are waited for. *)
ReadEof ==
  /\ Reads /\ MayDisconnect
  /\ at' = "closed"
  /\ UNCHANGED <<cur, inputVars, capacity, lineVars, admitVars, runVars, handlerVars, told,
                 cancelVars>>

-----------------------------------------------------------------------------
(* CANCEL, in the order the main loop goes through it.                      *)

ReadCancel(r) ==
  /\ Reads /\ input[r] # "none" /\ r \in Cancellable \ asked
  /\ asked' = asked \cup {r}
  /\ at' = "dequeue" /\ cur' = r
  /\ UNCHANGED <<inputVars, capacity, lineVars, admitVars, runVars, handlerVars, told,
                 ignored>>

(* Mutant: the request is answered and stays in line. *)
TakeFromLine_Answered ==
  /\ at = "dequeue"
  /\ \/ /\ cur \in inLine
        /\ routed' = routed \ {cur}
        /\ Write(cur, "cancelled")
        /\ at' = "read" /\ cur' = NoRequest
     \/ /\ cur \notin inLine
        /\ at' = "claim"
        /\ UNCHANGED <<cur, routed, told>>
  /\ UNCHANGED <<input, capacity, lineVars, admitVars, runVars, handlerVars, cancelVars>>

(* In line: it holds no slot; it is taken out and answered. *)
TakeFromLine ==
  /\ at = "dequeue"
  /\ \/ /\ cur \in inLine
        /\ inLine' = inLine \ {cur}
        /\ ahead' = Leave(ahead, cur)
        /\ routed' = routed \ {cur}
        /\ Write(cur, "cancelled")
        /\ at' = "read" /\ cur' = NoRequest
     \/ /\ cur \notin inLine
        /\ at' = "claim"
        /\ UNCHANGED <<cur, routed, inLine, ahead, told>>
  /\ UNCHANGED <<input, capacity, active, admitVars, runVars, handlerVars, cancelVars>>

(* Running: the cancel ends it unless its handler already has.  Unknown: it *)
(* already ended or was never seen; the cancel is dropped.                  *)
ClaimForCancel ==
  /\ at = "claim"
  /\ \/ /\ cur \in running /\ claim[cur] = "open"
        /\ claim' = [claim EXCEPT ![cur] = "cancel"]
        /\ at' = "cut"
        /\ UNCHANGED <<cur, ignored>>
     \/ /\ ~ (cur \in running /\ claim[cur] = "open")
        /\ ignored' = IF cur \in running THEN ignored ELSE ignored \cup {cur}
        /\ at' = "read" /\ cur' = NoRequest
        /\ UNCHANGED claim
  /\ UNCHANGED <<inputVars, capacity, lineVars, admitVars, running, handlerVars, told,
                 asked>>

(* Mutant: the reader of the input is not told. *)
CutInput_Unrouted ==
  /\ at = "cut"
  /\ routed' = routed \ {cur}
  /\ at' = "gates"
  /\ UNCHANGED <<cur, input, capacity, lineVars, admitVars, runVars, handlerVars, told,
                 cancelVars>>

CutInput ==
  /\ at = "cut"
  /\ routed' = routed \ {cur}
  /\ input' = IF cur \in routed THEN [input EXCEPT ![cur] = "cut"] ELSE input
  /\ at' = "gates"
  /\ UNCHANGED <<cur, capacity, lineVars, admitVars, runVars, handlerVars, told, cancelVars>>

(* CreditRouter.close_request: the gates that are registered are closed. *)
CloseGate(r) == gate' = [gate EXCEPT ![r] = IF @ = "open" THEN "closed" ELSE @]

CancelGates ==
  /\ at = "gates"
  /\ CloseGate(cur)
  /\ at' = "peers"
  /\ UNCHANGED <<cur, inputVars, capacity, lineVars, admitVars, runVars, thread, todo,
                 peerVars, told, cancelVars>>

(* The peer call is cancelled, and its response ends short. *)
CancelPeers ==
  /\ at = "peers"
  /\ \/ /\ cur \in pending
        /\ pending' = pending \ {cur}
        /\ response' = [response EXCEPT ![cur] = "cut"]
        /\ peer' = [peer EXCEPT ![cur] = "over"]
     \/ cur \notin pending /\ UNCHANGED peerVars
  /\ at' = "read" /\ cur' = NoRequest
  /\ UNCHANGED <<inputVars, capacity, lineVars, admitVars, runVars, thread, todo, gate, told,
                 cancelVars>>

-----------------------------------------------------------------------------
(* A request's handler thread.                                              *)

Moves(r, from, to) == thread[r] = from /\ thread' = [thread EXCEPT ![r] = to]

(* What the handler thread does by itself leaves all this alone. *)
Alone == UNCHANGED <<mainVars, inputVars, capacity, inLine, ahead, cancelVars>>

StartReading(r) ==
  /\ "read" \in todo[r]
  /\ Moves(r, "op", "reading")
  /\ todo' = [todo EXCEPT ![r] = @ \ {"read"}]
  /\ Alone /\ UNCHANGED <<active, admitVars, runVars, gate, peerVars, told>>

(* The input ended, or was cut short, which its reader is told. *)
StopReading(r) ==
  /\ input[r] \in {"ended", "cut"}
  /\ Moves(r, "reading", "op")
  /\ Alone /\ UNCHANGED <<active, admitVars, runVars, todo, gate, peerVars, told>>

(* The stream is started, its gate registered, and its window used up. *)
StartWriting(r) ==
  /\ "write" \in todo[r]
  /\ Moves(r, "op", "writing")
  /\ gate' = [gate EXCEPT ![r] = "open"]
  /\ todo' = [todo EXCEPT ![r] = @ \ {"write"}]
  /\ Alone /\ UNCHANGED <<active, admitVars, runVars, peerVars, told>>

GateCloses(r) ==
  /\ gate[r] = "closed"
  /\ Moves(r, "writing", "op")
  /\ Alone /\ UNCHANGED <<active, admitVars, runVars, todo, gate, peerVars, told>>

(* invoke: the call is made known, its REQ sent, a gate registered for its  *)
(* arguments, whose window they exceed, or not.  The gate is registered     *)
(* under the call's own id: no close_request of the caller's reaches it.    *)
CallPeer(r) ==
  /\ "call" \in todo[r]
  /\ Moves(r, "op", "calling") \/ Moves(r, "op", "awaiting")
  /\ pending' = pending \cup {r}
  /\ peer' = [peer EXCEPT ![r] = "running"]
  /\ todo' = [todo EXCEPT ![r] = @ \ {"call"}]
  /\ Alone /\ UNCHANGED <<active, admitVars, runVars, gate, response, told>>

ResponseEnds(r) ==
  /\ response[r] \in {"ended", "cut"}
  /\ Moves(r, "awaiting", "op")
  /\ Alone /\ UNCHANGED <<active, admitVars, runVars, todo, gate, peerVars, told>>

(* Mutant: the handler sends its terminal whoever claimed the request. *)
Return_Unclaimed(r) ==
  /\ Moves(r, "op", "ending")
  /\ UNCHANGED claim
  /\ Alone /\ UNCHANGED <<active, admitVars, running, todo, gate, peerVars, told>>

(* The operation returns or fails, whenever it likes, or its outputs could  *)
(* not even be derived.  The terminal is the handler's unless a cancel has  *)
(* claimed the request.                                                     *)
Return(r) ==
  /\ \/ /\ claim[r] = "open"
        /\ claim' = [claim EXCEPT ![r] = "handler"]
        /\ Moves(r, "op", "ending")
     \/ /\ claim[r] # "open"
        /\ Moves(r, "op", "popping")
        /\ UNCHANGED claim
  /\ Alone /\ UNCHANGED <<active, admitVars, running, todo, gate, peerVars, told>>

WriteTerminal(r) ==
  /\ Moves(r, "ending", "popping")
  /\ Write(r, "ended")
  /\ Alone /\ UNCHANGED <<active, admitVars, runVars, todo, gate, peerVars>>

-----------------------------------------------------------------------------
(* _on_handler_done, in its order. *)

PopRunning(r) ==
  /\ running' = running \ {r}
  /\ IF claim[r] = "cancel" THEN Moves(r, "popping", "answering")
                            ELSE Moves(r, "popping", "releasing")
  /\ Alone /\ UNCHANGED <<active, admitVars, claim, todo, gate, peerVars, told>>

AnswerCancel(r) ==
  /\ Moves(r, "answering", "releasing")
  /\ Write(r, "cancelled")
  /\ Alone /\ UNCHANGED <<active, admitVars, runVars, todo, gate, peerVars>>

(* Mutant: the slots come back and nobody is started. *)
ReleaseSlots_Only(r) ==
  /\ Moves(r, "releasing", "gone")
  /\ active' = Release(active, Chain[r])
  /\ CloseGate(r)
  /\ Alone /\ UNCHANGED <<admitVars, runVars, todo, peerVars, told>>

(* The request's gates are closed and its slots come back. *)
ReleaseSlots(r) ==
  /\ Moves(r, "releasing", "draining")
  /\ CloseGate(r)
  /\ active' = Release(active, Chain[r])
  /\ admitting' = [admitting EXCEPT ![r] = "next"]
  /\ Alone /\ UNCHANGED <<picked, runVars, todo, peerVars, told>>

-----------------------------------------------------------------------------
Handler(r) ==
  \/ StartReading(r) \/ StopReading(r) \/ StartWriting(r) \/ GateCloses(r)
  \/ CallPeer(r) \/ ResponseEnds(r) \/ Return(r) \/ WriteTerminal(r)
  \/ PopRunning(r) \/ AnswerCancel(r) \/ ReleaseSlots(r)

AdmitWaiting(a) == AdmitNext(a) \/ WriteDequeued(a) \/ SpawnPicked(a)

(* What the main loop does with a frame it has read. *)
Dispatch ==
  \/ Arrive \/ SpawnArrived \/ WriteQueued
  \/ TakeFromLine \/ ClaimForCancel \/ CutInput \/ CancelGates \/ CancelPeers

Read(r) ==
  \/ ReadReq(r) \/ ReadInputEnd(r) \/ ReadCancel(r)
  \/ ReadOutputCredit(r) \/ ReadArgumentCredit(r) \/ ReadPeerEnd(r)

Next ==
  \/ Dispatch
  \/ ReadEof
  \/ \E r \in Requests : Read(r) \/ Handler(r)
  \/ \E a \in Actors : AdmitWaiting(a)
  \/ \E limits \in Limits : ReadHeartbeat(limits) \/ Report(limits)

Spec == Init /\ [][Next]_vars

(* The frames the host is sure to send: it ends a request's input unless    *)
(* the request has been answered, grants what is written as long as it has  *)
(* not cancelled the request, and lets a called cap end.                    *)
ReadOwedFrame ==
  \E r \in Requests :
    \/ ReadInputEnd(r) /\ ~HasEnded(told[r])
    \/ ReadOutputCredit(r) /\ r \notin asked
    \/ ReadArgumentCredit(r)
    \/ ReadPeerEnd(r)

(* Every thread runs.  Frames are read in the order of their sending, so    *)
(* one that was sent is read however many others are: strong fairness, for  *)
(* all of them together, each being read once at most.  The host need not   *)
(* send a request, a cancel or a limit.                                     *)
Fairness ==
  /\ WF_vars(Dispatch)
  /\ SF_vars(ReadOwedFrame)
  /\ \A a \in Actors : WF_vars(AdmitWaiting(a))
  /\ \A r \in Requests : WF_vars(Handler(r))

FairSpec == Spec /\ Fairness
-----------------------------------------------------------------------------
(* Who holds slots: from the admission until the release. *)
Holders ==
  {r \in Requests :
     \/ at = "spawn" /\ cur = r
     \/ \E a \in Actors : picked[a] = r
     \/ thread[r] \notin {"none", "draining", "gone"}}

HoldersOf(p) == {r \in Holders : p \in Chain[r]}

(* The pools count exactly the requests between their admission and their   *)
(* release, by whichever thread they were admitted                          *)
(* (cartridge_runtime.py:4420-4446, 4473-4474, 4485-4503).                  *)
SlotsAccounted == \A p \in PoolNames : active[p] = Cardinality(HoldersOf(p))

(* A request in line that could go has somebody on the way to start it:     *)
(* whatever frees room or raises a limit is followed by a drain of the line *)
(* in the same thread (cartridge_runtime.py:4421-4428, 4475, 4501, 4882).   *)
NobodyLeftInLine ==
  \A r \in inLine :
    HasRoom(capacity, active, Chain[r]) =>
      at = "queued" \/ \E a \in Actors : admitting[a] # "no"

(* What ends a request on the wire is the frame of whoever claimed it, the  *)
(* handler or the cancel, never both and never the other's; and a handler   *)
(* that is over has left the host with such a frame, the last that was      *)
(* written about the request (cartridge_runtime.py:1232-1262, 4457-4475,    *)
(* 4815-4819).                                                              *)
TerminalIsClaimants ==
  \A r \in Requests :
    /\ \A i \in DOMAIN told[r] :
         /\ told[r][i] = "ended" => claim[r] = "handler"
         /\ told[r][i] = "cancelled" => claim[r] = "cancel" \/ thread[r] = "none"
    /\ thread[r] \in {"releasing", "draining", "gone"} =>
         told[r] # << >> /\ told[r][Len(told[r])] \in Terminals

(* A request that was answered, from the line or by its handler, is never   *)
(* started: what a cancel takes out of line no other thread starts          *)
(* (cartridge_runtime.py:4429-4446, 4789-4805).                             *)
NeverStartsAnswered ==
  [][\A r \in Requests :
       thread[r] = "none" /\ thread'[r] # "none" => ~HasEnded(told'[r])]_vars

(* Admission through the pools is slots entered only where there is room. *)
SlotsOfChains == INSTANCE Slots WITH
  Pools <- PoolNames, holders <- Holders

IsSlots == SlotsOfChains!Spec

(* A writer whose request the host has cancelled, with a gate that nobody    *)
(* closes nor is sure to grant: the handler opened its output after the     *)
(* cancel had closed the gates that were registered, or the cancel found    *)
(* the request neither in line nor running and was dropped.  And a caller   *)
(* that waits in invoke, under the call's own id, for a call that is over   *)
(* (cartridge_runtime.py:1369-1379, 1669, 4820-4823, 4835, 4978-4993).      *)
LateWriter(r) ==
  r \in asked /\ cur # r /\ thread[r] = "writing" /\ gate[r] = "open"

LateCaller(r) == thread[r] = "calling" /\ peer[r] = "over"

(* Every request is answered, unless the host goes or a handler is left in  *)
(* one of these two waits: neither the line, nor a cancel, nor any other    *)
(* wait for input, credit or a called cap keeps a handler for good, and a   *)
(* cancel ends each wait that it finds (cartridge_runtime.py:4455-4475,     *)
(* 4807-4854).                                                              *)
EveryRequestEnds ==
  \A r \in Requests :
    input[r] # "none" ~>
      \/ HasEnded(told[r]) \/ at = "closed"
      \/ \E q \in Requests : LateWriter(q) \/ LateCaller(q)

(* A request that a cancel claimed ends: "its credit waiters and peer calls *)
(* are released", "a cancelled producer must not hang on credit"            *)
(* (cartridge_runtime.py:4811-4814, 4834).                                  *)
CancelEndsHandler ==
  \A r \in Requests : claim[r] = "cancel" ~> thread[r] = "gone"

(* A cancel is dropped only for a request that has already ended, none that *)
(* has yet to start (cartridge_runtime.py:4391-4394, 4820-4823).            *)
NoCancelLost == \A r \in ignored : thread[r] \notin {"none", "op"}
=============================================================================
