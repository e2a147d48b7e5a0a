-------------------------- MODULE CreditFlow_proofs --------------------------
(***************************************************************************)
(* Proofs about CreditFlow for every window, every set of sender threads   *)
(* and every stream length.                                                *)
(***************************************************************************)
EXTENDS CreditFlow, FiniteSetTheorems, TLAPS

Busy == {"acquire", "parked", "write"}

(* A thread in the middle of an item has CHUNKs left, and the stream is open. *)
InProgress ==
  \A t \in Senders : pc[t] \in Busy => left[t] > 0 /\ ending = "none"

(* The router knows a gate exactly while the gate is open. *)
RegisteredIsOpen == registered <=> IsOpen(gate)

(* The handler blocks with nothing pending. *)
NothingHeldBack == handler = "get" => window.pending = 0

(* The handler computes a grant only when it has written the last one. *)
GrantWritten == handler \in {"flush", "consumed"} => handlerGrant = 0

ControlInv ==
  /\ TypeOK
  /\ InProgress
  /\ RegisteredIsOpen
  /\ NoLostWakeup
  /\ NothingHeldBack
  /\ GrantWritten

(***************************************************************************)
(* The steps of the window keep it a window.                               *)
(***************************************************************************)
LEMMA WindowSteps ==
  ASSUME NEW w \in Windows
  PROVE  /\ Flush(w).window \in Windows
         /\ Flush(w).window.pending = 0
         /\ Flush(w).grant \in Nat
         /\ Consume(w).window \in Windows
         /\ Consume(w).grant \in Nat
         /\ Continued(w).window \in Windows
         /\ Continued(w).window.pending = w.pending
         /\ ~Violates(w) => /\ Arrived(w) \in Windows
                            /\ Arrived(w).pending = w.pending
BY DEF Windows, Flush, Consume, Continued, Violates, Arrived

(***************************************************************************)
(* What a flush, a consumption and a continuation do to the numbers: the   *)
(* grant is exactly what the window takes back.                            *)
(***************************************************************************)
LEMMA WindowGrants ==
  ASSUME NEW w \in Windows
  PROVE  /\ Flush(w).window.remaining = w.remaining + Flush(w).grant
         /\ Flush(w).window.remaining = w.remaining + w.pending
         /\ Consume(w).window.remaining = w.remaining + Consume(w).grant
         /\ Consume(w).window.remaining + Consume(w).window.pending
              = w.remaining + w.pending + 1
         /\ Continued(w).window.remaining = w.remaining + 1
         /\ Continued(w).grant = 1
         /\ ~Violates(w) => Arrived(w).remaining = w.remaining - 1
BY DEF Windows, Flush, Consume, Continued, Violates, Arrived

LEMMA InitControl == Init => ControlInv
<1> SUFFICES ASSUME Init PROVE ControlInv
  OBVIOUS
<1>1. Batch(ReceiverWindow) \in Nat \ {0}
  BY WindowAssumption DEF Batch
<1>2. window \in Windows
  BY <1>1, WindowAssumption DEF Init, WindowOpened, Windows
<1>3. gate \in Gates({Terminal}) /\ IsOpen(gate)
  BY WindowAssumption DEF Init, GateOpened, Gates, IsOpen
<1>4. pc \in [Senders -> SenderStates] /\ left \in [Senders -> Nat]
  BY DEF Init, SenderStates
<1>5. TypeOK
  <2>0. wire \in Seq({"part", "last"})
    <3>1. wire = <<>>
      BY DEF Init
    <3>2. QED
      BY <3>1
  <2>1. registered \in BOOLEAN /\ partial \in BOOLEAN
    BY DEF Init
  <2>2. ending \in Endings /\ handler \in HandlerStates
    BY DEF Init, HandlerStates, Endings
  <2>3. /\ items \in Nat /\ queued \in Nat /\ errors \in Nat /\ delivered \in Nat
        /\ demuxGrant \in Nat /\ handlerGrant \in Nat /\ credits \in Nat /\ granting \in Nat
    BY DEF Init
  <2>4. QED
    BY <1>2, <1>3, <1>4, <2>0, <2>1, <2>2, <2>3 DEF TypeOK
<1>6. InProgress /\ NoLostWakeup
  BY DEF Init, InProgress, NoLostWakeup, Busy
<1>7. RegisteredIsOpen /\ NothingHeldBack /\ GrantWritten
  BY <1>3 DEF Init, RegisteredIsOpen, NothingHeldBack, GrantWritten
<1>8. QED
  BY <1>5, <1>6, <1>7 DEF ControlInv

LEMMA NextControl == ControlInv /\ [Next]_vars => ControlInv'
<1> SUFFICES ASSUME ControlInv, [Next]_vars
             PROVE  ControlInv'
  OBVIOUS
<1> USE DEF ControlInv, InProgress, RegisteredIsOpen, NoLostWakeup, NothingHeldBack, GrantWritten, Busy
<1> DEFINE K == /\ TypeOK' /\ InProgress' /\ RegisteredIsOpen' /\ NoLostWakeup' /\ NothingHeldBack'
                /\ GrantWritten'
<1>1. ASSUME NEW t \in Senders, Emit(t)
      PROVE  K
  BY <1>1, StreamAssumption DEF Emit, TypeOK, SenderStates, receiverVars
<1>2. ASSUME NEW t \in Senders, Acquire(t)
      PROVE  K
  <2>1. CASE CanTake(gate, 1) /\ gate' = Taken(gate, 1) /\ pc' = [pc EXCEPT ![t] = "write"]
    <3>1. gate' \in Gates({Terminal}) /\ (IsOpen(gate') <=> IsOpen(gate)) /\ gate.available > 0
      BY SMTT(30), <2>1 DEF CanTake, Taken, IsOpen, Gates, TypeOK
    <3>2. QED
      BY SMTT(30), <1>2, <2>1, <3>1 DEF Acquire, TypeOK, SenderStates, receiverVars
  <2>2. CASE MustWait(gate, 1) /\ UNCHANGED gate /\ pc' = [pc EXCEPT ![t] = "parked"]
    <3>1. IsOpen(gate) /\ gate.available = 0
      BY <2>2 DEF MustWait, IsOpen, Gates, TypeOK
    <3>2. QED
      BY <1>2, <2>2, <3>1 DEF Acquire, TypeOK, SenderStates, receiverVars
  <2>3. CASE UNCHANGED gate /\ pc' = [pc EXCEPT ![t] = "failed"]
    BY <1>2, <2>3 DEF Acquire, TypeOK, SenderStates, receiverVars
  <2>4. QED
    BY <1>2, <2>1, <2>2, <2>3 DEF Acquire
<1>3. ASSUME NEW t \in Senders, WriteChunk(t)
      PROVE  K
  BY <1>3 DEF WriteChunk, TypeOK, SenderStates, receiverVars
<1>4. CASE CloseStream
  BY <1>4 DEF CloseStream, TypeOK, Endings, senderVars, receiverVars
<1>5. CASE FailRequest
  BY <1>5 DEF FailRequest, TypeOK, Endings, senderVars, receiverVars
<1>6. CASE RouteCredit
  BY <1>6 DEF RouteCredit, TypeOK, senderVars, receiverVars
<1>7. CASE GrantGate
  BY SMTT(30), <1>7 DEF GrantGate, TypeOK, receiverVars, Granted, Woken, IsOpen, Gates, SenderStates
<1>8. CASE CloseRequest
  BY <1>8 DEF CloseRequest, TypeOK, receiverVars, Closed, Woken, IsOpen, Gates, SenderStates,
              Terminal, NotClosed
<1>9. CASE DemuxChunk
  <2>1. window' \in Windows /\ window'.pending = window.pending
    BY <1>9, WindowSteps DEF DemuxChunk, TypeOK
  <2>2. demuxGrant' \in Nat
    BY <1>9 DEF DemuxChunk, TypeOK, Continued
  <2>3. partial' \in BOOLEAN
    BY <1>9 DEF DemuxChunk, TypeOK
  <2>4. queued' \in Nat /\ errors' \in Nat
    BY <1>9 DEF DemuxChunk, TypeOK
  <2>5. wire' \in Seq({"part", "last"})
    BY <1>9 DEF DemuxChunk, TypeOK
  <2>6. UNCHANGED <<senderVars, ending, delivered, handler, handlerGrant, credits, granting>>
    BY <1>9 DEF DemuxChunk
  <2>7. QED
    BY <2>1, <2>2, <2>3, <2>4, <2>5, <2>6 DEF TypeOK, senderVars
<1>10. CASE DemuxEnd
  <2>1. errors' \in Nat
    BY <1>10 DEF DemuxEnd, TypeOK
  <2>2. QED
    BY <1>10, <2>1 DEF DemuxEnd, TypeOK, Endings, senderVars
<1>11. CASE DemuxErr
  <2>1. errors' \in Nat
    BY <1>11 DEF DemuxErr, TypeOK
  <2>2. QED
    BY <1>11, <2>1 DEF DemuxErr, TypeOK, Endings, senderVars
<1>12. CASE RecvNoWait
  BY <1>12 DEF RecvNoWait, TakeFromChannel, TypeOK, HandlerStates, senderVars
<1>13. CASE FlushGrants
  BY <1>13, WindowSteps DEF FlushGrants, TypeOK, HandlerStates, senderVars
<1>14. CASE RecvBlocking
  BY <1>14 DEF RecvBlocking, TakeFromChannel, TypeOK, HandlerStates, senderVars
<1>15. CASE Consumed
  BY <1>15, WindowSteps DEF Consumed, TypeOK, HandlerStates, senderVars
<1>16. CASE SendDemuxGrant
  BY <1>16 DEF SendDemuxGrant, TypeOK, senderVars
<1>17. CASE SendHandlerGrant
  BY <1>17 DEF SendHandlerGrant, TypeOK, senderVars
<1>18. CASE Done \/ UNCHANGED vars
  <2>1. UNCHANGED vars
    BY <1>18 DEF Done
  <2>2. TypeOK'
    BY <2>1 DEF vars, TypeOK, senderVars, receiverVars
  <2>3. UNCHANGED <<gate, registered, pc, left, ending, handler, window, handlerGrant>>
    BY <2>1 DEF vars, senderVars, receiverVars
  <2>4. QED
    BY <2>2, <2>3
<1>19. QED
  BY <1>1, <1>2, <1>3, <1>4, <1>5, <1>6, <1>7, <1>8, <1>9, <1>10, <1>11, <1>12, <1>13,
     <1>14, <1>15, <1>16, <1>17, <1>18 DEF Next, Sender

(***************************************************************************)
(* Every variable keeps its type: in particular no counter of credit, of   *)
(* the window or of the channel ever goes below zero.                      *)
(***************************************************************************)
THEOREM TypeCorrect == Spec => []TypeOK
<1>1. Spec => []ControlInv
  BY InitControl, NextControl, PTL DEF Spec
<1>2. ControlInv => TypeOK
  BY DEF ControlInv
<1>3. QED
  BY <1>1, <1>2, PTL

(***************************************************************************)
(* No wakeup is lost, whatever the number of threads waiting on the gate.  *)
(***************************************************************************)
THEOREM WakeupsNeverLost == Spec => []NoLostWakeup
<1>1. Spec => []ControlInv
  BY InitControl, NextControl, PTL DEF Spec
<1>2. ControlInv => NoLostWakeup
  BY DEF ControlInv
<1>3. QED
  BY <1>1, <1>2, PTL
-----------------------------------------------------------------------------
(* Accounting.  The receiver's window is a partition of ReceiverWindow into *)
(* what may still be sent, what waits to be granted and what is not yet     *)
(* consumed; the end of the stream forgets the beginning of an item.        *)
WindowAccount ==
  /\ window.remaining + window.pending + Unconsumed <= ReceiverWindow
  /\ ending # "seen" => window.remaining + window.pending + Unconsumed = ReceiverWindow

Accounts == CreditConserved /\ WindowAccount

(***************************************************************************)
(* The number of threads between acquiring a credit and writing its CHUNK. *)
(***************************************************************************)
LEMMA WritingCount ==
  ASSUME TypeOK
  PROVE  /\ IsFiniteSet(Writing)
         /\ Cardinality(Writing) \in Nat
         /\ Writing = {} => Cardinality(Writing) = 0
<1>1. IsFiniteSet(Writing)
  BY FS_Subset, StreamAssumption DEF Writing
<1>2. QED
  BY <1>1, FS_CardinalityType, FS_EmptySet

LEMMA WritingEntered ==
  ASSUME TypeOK, NEW t \in Senders, pc[t] # "write", pc' = [pc EXCEPT ![t] = "write"]
  PROVE  Cardinality(Writing') = Cardinality(Writing) + 1
<1>1. Writing' = Writing \cup {t} /\ t \notin Writing
  BY DEF Writing, TypeOK
<1>2. QED
  BY <1>1, WritingCount, FS_AddElement

LEMMA WritingLeft ==
  ASSUME TypeOK, NEW t \in Senders, pc[t] = "write", NEW s, s # "write",
         pc' = [pc EXCEPT ![t] = s]
  PROVE  Cardinality(Writing') = Cardinality(Writing) - 1
<1>1. Writing' = Writing \ {t} /\ t \in Writing
  BY DEF Writing, TypeOK
<1>2. QED
  BY <1>1, WritingCount, FS_RemoveElement

LEMMA WritingSame ==
  ASSUME TypeOK, \A t \in Senders : pc'[t] = "write" <=> pc[t] = "write"
  PROVE  Cardinality(Writing') = Cardinality(Writing)
<1>1. Writing' = Writing
  BY DEF Writing
<1>2. QED
  BY <1>1

LEMMA InitAccounts == Init => Accounts
<1> SUFFICES ASSUME Init PROVE Accounts
  OBVIOUS
<1>1. Cardinality(Writing) = 0 /\ Len(wire) = 0
  <2>1. Writing = {} /\ wire = <<>>
    BY DEF Init, Writing
  <2>2. QED
    BY <2>1, FS_EmptySet
<1>2. SenderCredit = SenderWindow /\ Unconsumed = 0
  BY <1>1, WindowAssumption DEF Init, SenderCredit, Outgoing, Returning, Unconsumed,
     BeingReassembled, BeingHandled, GateOpened
<1>3. window.remaining = ReceiverWindow /\ window.pending = 0
  BY DEF Init, WindowOpened
<1>4. QED
  BY <1>2, <1>3, WindowAssumption DEF Accounts, CreditConserved, WindowAccount

(***************************************************************************)
(* With a receiver's window no smaller than the sender's, a CHUNK on the   *)
(* wire finds room in the window.                                          *)
(***************************************************************************)
LEMMA RoomForChunk ==
  ASSUME SenderWindow <= ReceiverWindow, TypeOK, CreditConserved, wire # <<>>
  PROVE  ~Violates(window)
<1>1. Len(wire) \in Nat /\ Len(wire) > 0
  BY DEF TypeOK
<1>2. SenderCredit \in Nat /\ SenderCredit >= Len(wire)
  BY <1>1, WritingCount DEF SenderCredit, Outgoing, Returning, TypeOK, Gates
<1>3. QED
  BY <1>1, <1>2, WindowAssumption DEF CreditConserved, Violates, TypeOK, Windows

(***************************************************************************)
(* The numbers the accounts are made of, in a state of the right type.     *)
(***************************************************************************)
LEMMA Numbers ==
  ASSUME TypeOK
  PROVE  /\ gate.available \in Nat /\ Cardinality(Writing) \in Nat /\ Len(wire) \in Nat
         /\ credits \in Nat /\ granting \in Nat /\ demuxGrant \in Nat /\ handlerGrant \in Nat
         /\ window.remaining \in Nat /\ window.pending \in Nat /\ window \in Windows
         /\ queued \in Nat /\ BeingReassembled \in Nat /\ BeingHandled \in Nat
         /\ Outgoing \in Nat /\ Returning \in Nat /\ Unconsumed \in Nat /\ SenderCredit \in Nat
<1>1. gate.available \in Nat /\ Cardinality(Writing) \in Nat /\ Len(wire) \in Nat
  BY WritingCount DEF TypeOK, Gates
<1>2. /\ credits \in Nat /\ granting \in Nat /\ demuxGrant \in Nat /\ handlerGrant \in Nat
      /\ window.remaining \in Nat /\ window.pending \in Nat /\ window \in Windows /\ queued \in Nat
  BY DEF TypeOK, Windows
<1>3. BeingReassembled \in Nat /\ BeingHandled \in Nat
  BY DEF BeingReassembled, BeingHandled
<1>4. Outgoing \in Nat
  BY <1>1 DEF Outgoing
<1>5. Returning \in Nat
  BY <1>2 DEF Returning
<1>6. Unconsumed \in Nat
  BY <1>2, <1>3 DEF Unconsumed
<1>7. SenderCredit \in Nat
  BY <1>4, <1>5 DEF SenderCredit
<1>8. QED
  BY <1>1, <1>2, <1>3, <1>4, <1>5, <1>6, <1>7

Numerical == Outgoing \in Nat /\ Returning \in Nat /\ Unconsumed \in Nat /\ SenderCredit \in Nat

LEMMA NumbersNext == ControlInv /\ [Next]_vars => Numerical'
<1>1. TypeOK => Numerical
  BY Numbers DEF Numerical
<1>2. TypeOK' => Numerical'
  BY <1>1, PTL
<1>3. QED
  BY <1>2, NextControl DEF ControlInv

(***************************************************************************)
(* Every step keeps the accounts.  The receiver's steps move credit from   *)
(* the window to a grant and back, the sender's from the gate to the wire. *)
(***************************************************************************)
LEMMA NextAccounts ==
  ASSUME SenderWindow <= ReceiverWindow
  PROVE  ControlInv /\ Accounts /\ [Next]_vars => Accounts'
<1> SUFFICES ASSUME ControlInv, Accounts, [Next]_vars
             PROVE  Accounts'
  OBVIOUS
<1> USE DEF ControlInv, Accounts
<1> DEFINE N == Cardinality(Writing)
<1>a. TypeOK /\ TypeOK'
  BY NextControl
<1>b. /\ gate.available \in Nat /\ N \in Nat /\ Len(wire) \in Nat
      /\ credits \in Nat /\ granting \in Nat /\ demuxGrant \in Nat /\ handlerGrant \in Nat
      /\ window.remaining \in Nat /\ window.pending \in Nat /\ window \in Windows
      /\ queued \in Nat /\ BeingReassembled \in Nat /\ BeingHandled \in Nat
  BY <1>a, Numbers
<1>c. Outgoing \in Nat /\ Returning \in Nat /\ Unconsumed \in Nat
  BY <1>a, Numbers
<1>d. Outgoing' \in Nat /\ Returning' \in Nat /\ Unconsumed' \in Nat
  BY NumbersNext DEF Numerical
<1>r. window.remaining \in Nat /\ window.pending \in Nat
  BY <1>b
<1>s. SenderCredit \in Nat /\ SenderCredit' \in Nat
  BY <1>a, Numbers, NumbersNext DEF Numerical
<1>e. /\ Outgoing' = gate'.available + N' + Len(wire')
      /\ Returning' = credits' + granting' + demuxGrant' + handlerGrant'
      /\ Unconsumed' = queued' + BeingReassembled' + BeingHandled'
  BY DEF Outgoing, Returning, Unconsumed
<1>f. /\ Outgoing = gate.available + N + Len(wire)
      /\ Returning = credits + granting + demuxGrant + handlerGrant
      /\ Unconsumed = queued + BeingReassembled + BeingHandled
  BY DEF Outgoing, Returning, Unconsumed
<1>g. ASSUME UNCHANGED <<window, ending, Unconsumed>>,
             Outgoing' + Returning' = Outgoing + Returning,
             IsOpen(gate)' => IsOpen(gate)
      PROVE  Accounts'
  BY <1>g, <1>c, <1>d DEF CreditConserved, WindowAccount, SenderCredit
<1>h. ASSUME window'.remaining \in Nat, window'.pending \in Nat,
             IsOpen(gate)' => IsOpen(gate),
             Outgoing' + Returning' + window.remaining <= Outgoing + Returning + window'.remaining,
             IsOpen(gate)' => Outgoing' + Returning' + window.remaining
                                = Outgoing + Returning + window'.remaining,
             ending' # "seen" => ending # "seen",
             window'.remaining + window'.pending + Unconsumed'
               <= window.remaining + window.pending + Unconsumed,
             ending' # "seen" => window'.remaining + window'.pending + Unconsumed'
                                   = window.remaining + window.pending + Unconsumed
      PROVE  Accounts'
  <2>1. CreditConserved'
    <3>1. SenderCredit' + ReceiverWindow <= window'.remaining + SenderWindow
      <4>1. SenderCredit + ReceiverWindow <= window.remaining + SenderWindow
        BY DEF CreditConserved
      <4>2. SenderCredit' + window.remaining <= SenderCredit + window'.remaining
        BY <1>h DEF SenderCredit
      <4>3. QED
        BY <4>1, <4>2, <1>r, <1>h, <1>s, WindowAssumption
    <3>2. ASSUME IsOpen(gate)'
          PROVE  SenderCredit' + ReceiverWindow = window'.remaining + SenderWindow
      <4>1. SenderCredit + ReceiverWindow = window.remaining + SenderWindow
        BY <1>h, <3>2 DEF CreditConserved
      <4>2. SenderCredit' + window.remaining = SenderCredit + window'.remaining
        BY <1>h, <3>2 DEF SenderCredit
      <4>3. QED
        BY <4>1, <4>2, <1>r, <1>h, <1>s, WindowAssumption
    <3>3. QED
      BY <3>1, <3>2 DEF CreditConserved
  <2>2. WindowAccount'
    <3> DEFINE Seen == window.remaining + window.pending + Unconsumed
    <3>1. Seen \in Nat /\ Seen' \in Nat
      BY <1>h, <1>r, <1>c, <1>d
    <3>2. Seen' <= Seen /\ (ending' # "seen" => ending # "seen" /\ Seen' = Seen)
      BY <1>h
    <3>3. Seen <= ReceiverWindow /\ (ending # "seen" => Seen = ReceiverWindow)
      BY DEF WindowAccount
    <3>4. Seen' <= ReceiverWindow /\ (ending' # "seen" => Seen' = ReceiverWindow)
      <4> HIDE DEF Seen
      <4> QED
        BY <3>1, <3>2, <3>3, WindowAssumption
    <3>5. QED
      BY <3>4 DEF WindowAccount
  <2>3. QED
    BY <2>1, <2>2
<1>i. ASSUME window'.remaining \in Nat, window'.pending \in Nat, UNCHANGED <<gate, ending>>,
             Outgoing' + Returning' + window.remaining = Outgoing + Returning + window'.remaining,
             window'.remaining + window'.pending + Unconsumed'
               = window.remaining + window.pending + Unconsumed
      PROVE  Accounts'
  <2>1. Outgoing' + Returning' + window.remaining <= Outgoing + Returning + window'.remaining
    BY <1>i, <1>b, <1>c
  <2>2. window'.remaining + window'.pending + Unconsumed' <= window.remaining + window.pending + Unconsumed
    BY <1>i, <1>b, <1>c
  <2>3. IsOpen(gate)' => IsOpen(gate)
    BY <1>i DEF IsOpen
  <2>4. QED
    BY <1>i, <2>1, <2>2, <2>3, <1>h
<1> HIDE DEF N
<1>1. ASSUME NEW t \in Senders, Emit(t)
      PROVE  Accounts'
  <2>1. \A u \in Senders : pc'[u] = "write" <=> pc[u] = "write"
    BY <1>1, <1>a DEF Emit, TypeOK
  <2>2. N' = N
    BY <1>a, <2>1, WritingSame DEF N
  <2>3. Outgoing' = Outgoing /\ Returning' = Returning /\ Unconsumed' = Unconsumed
    BY <1>1, <2>2, <1>e, <1>f DEF Emit, receiverVars, BeingReassembled, BeingHandled
  <2>4. QED
    BY <1>1, <2>3, <1>g DEF Emit, receiverVars
<1>2. ASSUME NEW t \in Senders, Acquire(t)
      PROVE  Accounts'
  <2>1. /\ UNCHANGED <<window, wire, ending, credits, granting, demuxGrant, handlerGrant>>
        /\ UNCHANGED <<queued, partial, handler>>
    BY <1>2 DEF Acquire, receiverVars
  <2>2. gate'.available + N' = gate.available + N /\ gate'.closed = gate.closed
    <3>1. CASE CanTake(gate, 1) /\ gate' = Taken(gate, 1) /\ pc' = [pc EXCEPT ![t] = "write"]
      <4>1. N' = N + 1
        BY <1>2, <1>a, <3>1, WritingEntered DEF Acquire, N
      <4>2. gate'.available = gate.available - 1 /\ gate'.closed = gate.closed
        BY <3>1, <1>a DEF Taken, TypeOK, Gates
      <4>3. QED
        BY <4>1, <4>2, <1>b
    <3>2. CASE UNCHANGED gate /\ \E s \in {"parked", "failed"} : pc' = [pc EXCEPT ![t] = s]
      <4>1. \A u \in Senders : pc'[u] = "write" <=> pc[u] = "write"
        BY <1>2, <1>a, <3>2 DEF Acquire, TypeOK
      <4>2. N' = N
        BY <1>a, <4>1, WritingSame DEF N
      <4>3. QED
        BY <3>2, <4>2
    <3>3. QED
      BY <1>2, <3>1, <3>2 DEF Acquire
  <2>3. Outgoing' = Outgoing /\ Returning' = Returning /\ Unconsumed' = Unconsumed
    BY <2>1, <2>2, <1>e, <1>f DEF BeingReassembled, BeingHandled
  <2>4. QED
    BY <2>1, <2>2, <2>3, <1>g DEF IsOpen
<1>3. ASSUME NEW t \in Senders, WriteChunk(t)
      PROVE  Accounts'
  <2>1. N' = N - 1
    <3>1. PICK s \in {"idle", "acquire"} : pc' = [pc EXCEPT ![t] = s]
      BY <1>3 DEF WriteChunk
    <3>2. QED
      BY <1>3, <1>a, <3>1, WritingLeft DEF WriteChunk, N
  <2>2. Len(wire') = Len(wire) + 1
    BY <1>3, <1>a DEF WriteChunk, TypeOK
  <2>3. /\ UNCHANGED <<gate, window, ending, credits, granting, demuxGrant, handlerGrant>>
        /\ UNCHANGED <<queued, partial, handler>>
    BY <1>3 DEF WriteChunk, receiverVars
  <2>4. Outgoing' = Outgoing
    BY <2>1, <2>2, <2>3, <1>b, <1>e, <1>f
  <2>5. Returning' = Returning /\ Unconsumed' = Unconsumed
    BY <2>3, <1>e, <1>f DEF BeingReassembled, BeingHandled
  <2>6. QED
    BY <2>3, <2>4, <2>5, <1>g DEF IsOpen
<1>4. CASE CloseStream \/ FailRequest
  <2>1. /\ UNCHANGED <<senderVars, wire, receiverVars, credits, granting>>
        /\ ending = "none"
    BY <1>4 DEF CloseStream, FailRequest
  <2>2. N' = N
    BY <2>1, <1>a, WritingSame DEF senderVars, N
  <2>3. Outgoing' = Outgoing /\ Returning' = Returning /\ Unconsumed' = Unconsumed
    BY <2>1, <2>2, <1>e, <1>f DEF senderVars, receiverVars, BeingReassembled, BeingHandled
  <2>4. QED
    BY <2>1, <2>3 DEF senderVars, receiverVars, CreditConserved, WindowAccount, IsOpen, SenderCredit
<1>5. CASE RouteCredit
  <2>1. UNCHANGED <<senderVars, wire, ending, receiverVars>>
    BY <1>5 DEF RouteCredit
  <2>2. N' = N
    BY <2>1, <1>a, WritingSame DEF senderVars, N
  <2>3. PICK n \in 1..credits : /\ credits' = credits - n
                                /\ granting' = IF registered THEN n ELSE 0
    BY <1>5 DEF RouteCredit
  <2>4. Returning' <= Returning /\ (IsOpen(gate) => Returning' = Returning)
    BY <1>5, <2>1, <2>3, <1>b, <1>e, <1>f DEF RouteCredit, RegisteredIsOpen, receiverVars
  <2>5. Outgoing' = Outgoing /\ Unconsumed' = Unconsumed
    BY <2>1, <2>2, <1>e, <1>f DEF senderVars, receiverVars, BeingReassembled, BeingHandled
  <2>6. QED
    BY <2>1, <2>4, <2>5, <1>b, <1>c, <1>d, <1>h DEF senderVars, receiverVars, IsOpen
<1>6. CASE GrantGate
  <2>1. UNCHANGED <<wire, ending, receiverVars, credits>> /\ granting' = 0
    BY <1>6 DEF GrantGate
  <2>2. \A u \in Senders : pc'[u] = "write" <=> pc[u] = "write"
    BY <1>6, <1>a DEF GrantGate, Woken
  <2>3. N' = N
    BY <2>2, <1>a, WritingSame DEF N
  <2>4. PICK n \in Nat :
          /\ gate'.available = gate.available + n
          /\ n <= granting
          /\ IsOpen(gate) => n = granting
    <3>1. CASE IsOpen(gate)
      BY <1>6, <1>a, <1>b, <3>1 DEF GrantGate, Granted, IsOpen, TypeOK, Gates
    <3>2. CASE ~IsOpen(gate)
      BY <1>6, <1>a, <1>b, <3>2 DEF GrantGate, Granted
    <3>3. QED
      BY <3>1, <3>2
  <2>5. gate'.closed = gate.closed
    BY <1>6, <1>a DEF GrantGate, Granted, IsOpen, TypeOK, Gates
  <2>6. Outgoing' = Outgoing + n
    BY SMTT(30), <2>1, <2>3, <2>4, <1>b, <1>e, <1>f
  <2>7. Returning' = Returning - granting
    BY <2>1, <1>b, <1>e, <1>f DEF receiverVars
  <2>8. Unconsumed' = Unconsumed
    BY <2>1, <1>e, <1>f DEF receiverVars, BeingReassembled, BeingHandled
  <2>9. n \in Nat /\ n <= granting /\ UNCHANGED <<window, ending>>
    BY <2>1, <2>4, <1>b DEF receiverVars
  <2>10. Outgoing' + Returning' <= Outgoing + Returning
    BY <2>6, <2>7, <2>9, <1>b, <1>c, <1>d
  <2>11. IsOpen(gate) => Outgoing' + Returning' = Outgoing + Returning
    BY <2>4, <2>6, <2>7, <2>9, <1>b, <1>c, <1>d
  <2>12. QED
    <3>1. IsOpen(gate)' => IsOpen(gate)
      BY <2>5 DEF IsOpen
    <3>2. CreditConserved'
      <4>1. SenderCredit' <= SenderCredit /\ SenderCredit \in Nat /\ SenderCredit' \in Nat
        <5>1. SenderCredit \in Nat /\ SenderCredit' \in Nat
          BY <1>s
        <5>2. SenderCredit' = SenderCredit + n - granting
          BY <2>6, <2>7, <1>b, <1>c, <1>d, <2>9 DEF SenderCredit
        <5>3. QED
          BY <5>1, <5>2, <2>9, <1>b
      <4>2. SenderCredit + ReceiverWindow <= window.remaining + SenderWindow
        BY DEF CreditConserved
      <4>3. SenderCredit' + ReceiverWindow <= window.remaining + SenderWindow
        BY <4>1, <4>2, <1>b, WindowAssumption
      <4>4. IsOpen(gate)' => Outgoing' + Returning' + ReceiverWindow = window.remaining + SenderWindow
        BY <2>11, <3>1 DEF CreditConserved, SenderCredit
      <4>5. QED
        BY <2>9, <4>3, <4>4 DEF CreditConserved, SenderCredit
    <3>3. WindowAccount'
      BY <2>8, <2>9 DEF WindowAccount
    <3>4. QED
      BY <3>2, <3>3
<1>7. CASE CloseRequest
  <2>1. UNCHANGED <<wire, ending, receiverVars, credits, granting>>
    BY <1>7 DEF CloseRequest
  <2>2. \A u \in Senders : pc'[u] = "write" <=> pc[u] = "write"
    BY <1>7, <1>a DEF CloseRequest, Woken
  <2>3. N' = N
    BY <2>2, <1>a, WritingSame DEF N
  <2>4. gate'.available = gate.available /\ ~IsOpen(gate)'
    BY <1>7, <1>a DEF CloseRequest, Closed, IsOpen, TypeOK, Gates, Terminal, NotClosed
  <2>5. Outgoing' = Outgoing /\ Returning' = Returning /\ Unconsumed' = Unconsumed
    BY <2>1, <2>3, <2>4, <1>e, <1>f DEF receiverVars, BeingReassembled, BeingHandled
  <2>6. QED
    BY <2>1, <2>4, <2>5, <1>g DEF receiverVars
<1>8. CASE DemuxChunk
  <2>1. ~Violates(window) /\ wire # <<>>
    BY <1>8, <1>a, RoomForChunk DEF DemuxChunk
  <2>2. Len(wire') = Len(wire) - 1
    BY <1>8, <1>a, <2>1 DEF DemuxChunk, TypeOK
  <2>3. Head(wire) = "part" \/ Head(wire) = "last"
    BY <1>8, <1>a, <2>1 DEF DemuxChunk, TypeOK
  <2>4. UNCHANGED <<gate, ending, handler, handlerGrant, credits, granting>>
    BY <1>8 DEF DemuxChunk, senderVars
  <2>5. N' = N
    BY <1>8, <1>a, WritingSame DEF DemuxChunk, senderVars, N
  <2>6. demuxGrant = 0 /\ window.remaining > 0
    BY <1>8, <2>1, <1>b DEF DemuxChunk, Violates
  <2>7. Outgoing' = Outgoing - 1
    <3>1. Outgoing' = gate.available + N + (Len(wire) - 1)
      BY <2>2, <2>4, <2>5, <1>e
    <3>2. gate.available \in Nat /\ N \in Nat /\ Len(wire) \in Nat
      BY <1>b
    <3>3. QED
      BY SMTT(30), <3>1, <3>2, <1>f
  <2>8. BeingHandled' = BeingHandled
    BY <2>4 DEF BeingHandled
  <2>9. queued' + BeingReassembled' = queued + 1
    <3>1. CASE Head(wire) = "part"
      BY <1>8, <2>1, <3>1 DEF DemuxChunk, BeingReassembled
    <3>2. CASE Head(wire) = "last"
      <4>1. queued' = queued + 1 /\ partial' = FALSE
        BY <1>8, <2>1, <3>2 DEF DemuxChunk
      <4>2. QED
        BY <4>1, <1>b DEF BeingReassembled
    <3>3. QED
      BY <2>3, <3>1, <3>2
  <2>10. Unconsumed' = queued + 1 + BeingHandled
    BY <2>8, <2>9, <1>e
  <2>11. CASE partial
    <3>1. /\ window' = Continued(Arrived(window)).window
          /\ demuxGrant' = Continued(Arrived(window)).grant
      BY <1>8, <2>1, <2>11 DEF DemuxChunk
    <3>2. Arrived(window) \in Windows /\ Arrived(window).pending = window.pending
      BY <2>1, <1>b, WindowSteps
    <3>3. window'.remaining = window.remaining /\ window'.pending = window.pending /\ demuxGrant' = 1
      <4>1. Arrived(window).remaining = window.remaining - 1
        BY <2>1, <1>b, WindowGrants
      <4>2. /\ window'.remaining = Arrived(window).remaining + 1
            /\ window'.pending = Arrived(window).pending
            /\ demuxGrant' = 1
        BY <3>1, <3>2, WindowGrants, WindowSteps
      <4>3. QED
        BY <3>2, <4>1, <4>2, <1>b
    <3>4. Unconsumed' = Unconsumed
      BY <2>10, <2>11, <1>b, <1>f DEF BeingReassembled
    <3>5. Returning' = Returning + 1
      BY <2>4, <2>6, <3>3, <1>b, <1>e, <1>f
    <3>6. QED
      BY <2>4, <2>7, <3>3, <3>4, <3>5, <1>c, <1>d
         DEF CreditConserved, WindowAccount, IsOpen, SenderCredit
  <2>12. CASE ~partial
    <3>1. window' = Arrived(window) /\ demuxGrant' = 0
      BY <1>8, <2>1, <2>12 DEF DemuxChunk
    <3>2. window'.remaining = window.remaining - 1 /\ window'.pending = window.pending
      BY <2>1, <3>1, <1>b, WindowGrants, WindowSteps
    <3>3. Unconsumed' = Unconsumed + 1
      BY <2>10, <2>12, <1>b, <1>f DEF BeingReassembled
    <3>4. Returning' = Returning
      BY <2>4, <2>6, <3>1, <1>e, <1>f
    <3>5. QED
      <4>1. window'.remaining \in Nat /\ window'.pending \in Nat
        BY <2>6, <3>2, <1>b
      <4>2. /\ Outgoing' + Returning' + window.remaining = Outgoing + Returning + window'.remaining
            /\ window'.remaining + window'.pending + Unconsumed'
                 = window.remaining + window.pending + Unconsumed
        <5>1. Outgoing' + Returning' + window.remaining = Outgoing + Returning + window'.remaining
          BY <2>7, <3>2, <3>4, <1>r, <1>c
        <5>2. window'.remaining + window'.pending + Unconsumed'
                = window.remaining + window.pending + Unconsumed
          BY <3>2, <3>3, <1>r, <1>c
        <5>3. QED
          BY <5>1, <5>2
      <4>3. QED
        BY <2>4, <4>1, <4>2, <1>i
  <2>13. QED
    BY <2>11, <2>12
<1>9. CASE DemuxEnd \/ DemuxErr
  <2>1. /\ UNCHANGED <<senderVars, wire, window, queued, handler, demuxGrant, handlerGrant, credits, granting>>
        /\ ending' = "seen" /\ partial' = FALSE
    BY <1>9 DEF DemuxEnd, DemuxErr
  <2>2. N' = N
    BY <2>1, <1>a, WritingSame DEF senderVars, N
  <2>3. Outgoing' = Outgoing /\ Returning' = Returning
    BY <2>1, <2>2, <1>e, <1>f DEF senderVars
  <2>4. BeingReassembled' = 0 /\ BeingHandled' = BeingHandled
    BY <2>1 DEF BeingReassembled, BeingHandled
  <2>5. Unconsumed' <= Unconsumed
    BY <2>1, <2>4, <1>b, <1>e, <1>f
  <2>6. QED
    BY <2>1, <2>3, <2>5, <1>b, <1>c, <1>d, WindowAssumption
       DEF senderVars, CreditConserved, WindowAccount, IsOpen, SenderCredit
<1>10. CASE RecvNoWait \/ RecvBlocking
  <2>1. UNCHANGED <<senderVars, wire, ending, window, partial, demuxGrant, handlerGrant, credits, granting>>
    BY <1>10 DEF RecvNoWait, RecvBlocking
  <2>2. N' = N
    BY <2>1, <1>a, WritingSame DEF senderVars, N
  <2>3. Outgoing' = Outgoing /\ Returning' = Returning
    BY <2>1, <2>2, <1>e, <1>f DEF senderVars
  <2>4. queued' + BeingHandled' = queued + BeingHandled
    BY <1>10, <1>b DEF RecvNoWait, RecvBlocking, TakeFromChannel, BeingHandled
  <2>5. BeingReassembled' = BeingReassembled
    BY <2>1 DEF BeingReassembled
  <2>6. queued' \in Nat /\ BeingHandled' \in Nat
    BY <1>a DEF TypeOK, BeingHandled
  <2>7. Unconsumed' = Unconsumed
    <3>1. /\ Unconsumed = (queued + BeingHandled) + BeingReassembled
          /\ Unconsumed' = (queued' + BeingHandled') + BeingReassembled'
      BY <2>5, <2>6, <1>b, <1>e, <1>f
    <3>2. QED
      BY <2>4, <2>5, <3>1
  <2>8. QED
    BY <2>1, <2>3, <2>7, <1>g DEF senderVars, IsOpen
<1>11. CASE FlushGrants
  <2>1. /\ UNCHANGED <<senderVars, wire, ending, partial, queued, demuxGrant, credits, granting>>
        /\ handlerGrant = 0 /\ handlerGrant' = Flush(window).grant
    BY <1>11 DEF FlushGrants, GrantWritten
  <2>2. N' = N
    BY <2>1, <1>a, WritingSame DEF senderVars, N
  <2>3. Outgoing' = Outgoing
    BY <2>1, <2>2, <1>e, <1>f DEF senderVars
  <2>4. Unconsumed' = Unconsumed
    BY <1>11, <2>1, <1>e, <1>f DEF FlushGrants, BeingReassembled, BeingHandled
  <2>5. /\ window'.remaining = window.remaining + Flush(window).grant
        /\ window'.remaining + window'.pending = window.remaining + window.pending
        /\ Flush(window).grant \in Nat /\ window'.remaining \in Nat /\ window'.pending \in Nat
    BY <1>11, <1>b DEF FlushGrants, Flush, Windows
  <2>6. Returning' = Returning + Flush(window).grant
    BY <2>1, <2>5, <1>b, <1>e, <1>f
  <2>7. QED
    <3>1. /\ Outgoing' + Returning' + window.remaining = Outgoing + Returning + window'.remaining
          /\ window'.remaining + window'.pending + Unconsumed'
               = window.remaining + window.pending + Unconsumed
      BY SMTT(40), <2>3, <2>4, <2>5, <2>6, <1>r, <1>c
    <3>2. QED
      BY <2>1, <2>5, <3>1, <1>i DEF senderVars
<1>12. CASE Consumed
  <2>1. /\ UNCHANGED <<senderVars, wire, ending, partial, queued, demuxGrant, credits, granting>>
        /\ handlerGrant = 0 /\ handlerGrant' = Consume(window).grant
    BY <1>12 DEF Consumed, GrantWritten
  <2>2. N' = N
    BY <2>1, <1>a, WritingSame DEF senderVars, N
  <2>3. Outgoing' = Outgoing
    BY <2>1, <2>2, <1>e, <1>f DEF senderVars
  <2>4. BeingHandled = 1 /\ BeingHandled' = 0 /\ BeingReassembled' = BeingReassembled
    BY <1>12, <2>1 DEF Consumed, BeingReassembled, BeingHandled
  <2>5. Unconsumed' = Unconsumed - 1
    BY <2>1, <2>4, <1>b, <1>e, <1>f
  <2>6. /\ window'.remaining = window.remaining + Consume(window).grant
        /\ window'.remaining + window'.pending = window.remaining + window.pending + 1
        /\ Consume(window).grant \in Nat /\ window'.remaining \in Nat /\ window'.pending \in Nat
    BY <1>12, <1>b, WindowGrants, WindowSteps DEF Consumed, Windows
  <2>7. Returning' = Returning + Consume(window).grant
    BY <2>1, <2>6, <1>b, <1>e, <1>f
  <2>8. QED
    <3>1. /\ Outgoing' + Returning' + window.remaining = Outgoing + Returning + window'.remaining
          /\ window'.remaining + window'.pending + Unconsumed'
               = window.remaining + window.pending + Unconsumed
      <4>1. Outgoing' + Returning' + window.remaining = Outgoing + Returning + window'.remaining
        BY SMTT(40), <2>3, <2>6, <2>7, <1>r, <1>c
      <4>2. window'.remaining + window'.pending + Unconsumed'
              = window.remaining + window.pending + Unconsumed
        BY SMTT(40), <2>5, <2>6, <1>r, <1>c
      <4>3. QED
        BY <4>1, <4>2
    <3>2. QED
      BY <2>1, <2>6, <3>1, <1>i DEF senderVars
<1>13. CASE SendDemuxGrant \/ SendHandlerGrant
  <2>1. UNCHANGED <<senderVars, wire, ending, window, partial, queued, handler, granting>>
    BY <1>13 DEF SendDemuxGrant, SendHandlerGrant
  <2>2. N' = N
    BY <2>1, <1>a, WritingSame DEF senderVars, N
  <2>3. Outgoing' = Outgoing /\ Unconsumed' = Unconsumed
    BY <2>1, <2>2, <1>e, <1>f DEF senderVars, BeingReassembled, BeingHandled
  <2>4. Returning' = Returning
    <3>1. credits \in Nat /\ granting \in Nat /\ demuxGrant \in Nat /\ handlerGrant \in Nat
      BY <1>b
    <3>2. CASE SendDemuxGrant
      BY <3>1, <3>2, <1>e, <1>f DEF SendDemuxGrant
    <3>3. CASE SendHandlerGrant
      BY <3>1, <3>3, <1>e, <1>f DEF SendHandlerGrant
    <3>4. QED
      BY <1>13, <3>2, <3>3
  <2>5. QED
    BY <2>1, <2>3, <2>4, <1>g DEF senderVars, IsOpen
<1>14. CASE Done \/ UNCHANGED vars
  <2>1. UNCHANGED vars
    BY <1>14 DEF Done
  <2>2. N' = N
    BY <2>1, <1>a, WritingSame DEF vars, senderVars, N
  <2>3. Outgoing' = Outgoing /\ Returning' = Returning /\ Unconsumed' = Unconsumed
    BY <2>1, <2>2, <1>e, <1>f DEF vars, senderVars, receiverVars, BeingReassembled, BeingHandled
  <2>4. QED
    BY <2>1, <2>3, <1>g DEF vars, senderVars, receiverVars, IsOpen
<1>15. QED
  BY <1>1, <1>2, <1>3, <1>4, <1>5, <1>6, <1>7, <1>8, <1>9, <1>10, <1>11, <1>12, <1>13, <1>14
     DEF Next, Sender

(***************************************************************************)
(* When the receiver's window is no smaller than the sender's, credit is   *)
(* neither made nor lost while the stream is open.                         *)
(***************************************************************************)
THEOREM CreditIsConserved ==
  ASSUME SenderWindow <= ReceiverWindow
  PROVE  Spec => []CreditConserved
<1>1. ControlInv /\ Accounts /\ [Next]_vars => (ControlInv /\ Accounts)'
  BY NextControl, NextAccounts
<1>2. Init => ControlInv /\ Accounts
  BY InitControl, InitAccounts
<1>3. ControlInv /\ Accounts => CreditConserved
  BY DEF Accounts
<1>4. QED
  BY <1>1, <1>2, <1>3, PTL DEF Spec

(***************************************************************************)
(* When the receiver's window is no smaller than the sender's, no CHUNK    *)
(* arrives beyond it, however grants and CHUNKs cross.                     *)
(***************************************************************************)
THEOREM NoViolation ==
  ASSUME SenderWindow <= ReceiverWindow
  PROVE  Spec => []NoCreditViolation
<1>1. ControlInv /\ Accounts /\ [Next]_vars => (ControlInv /\ Accounts)'
  BY NextControl, NextAccounts
<1>2. Init => ControlInv /\ Accounts
  BY InitControl, InitAccounts
<1>3. ControlInv /\ Accounts => NoCreditViolation
  BY RoomForChunk DEF Accounts, ControlInv, NoCreditViolation
<1>4. QED
  BY <1>1, <1>2, <1>3, PTL DEF Spec

LEMMA Backed ==
  ASSUME SenderWindow <= ReceiverWindow, ControlInv, Accounts
  PROVE  BackPressure
<1>1. TypeOK
  BY DEF ControlInv
<1>2. Outgoing + Returning + Unconsumed <= SenderWindow
  <2>1. SenderCredit + ReceiverWindow <= window.remaining + SenderWindow
    BY DEF Accounts, CreditConserved
  <2>2. window.remaining + window.pending + Unconsumed <= ReceiverWindow
    BY DEF Accounts, WindowAccount
  <2>3. SenderCredit \in Nat /\ Unconsumed \in Nat /\ window.remaining \in Nat /\ window.pending \in Nat
    BY <1>1, Numbers
  <2>4. SenderCredit + Unconsumed <= SenderWindow
    BY <2>1, <2>2, <2>3, WindowAssumption
  <2>5. QED
    BY <2>4 DEF SenderCredit
<1>3. Cardinality(Writing) + Len(wire) <= Outgoing
  <2>1. gate.available \in Nat /\ Cardinality(Writing) \in Nat /\ Len(wire) \in Nat
    BY <1>1, Numbers
  <2>2. QED
    BY SMTT(40), <2>1 DEF Outgoing
<1>4. QED
  BY SMTT(40), <1>1, <1>2, <1>3, Numbers, WindowAssumption DEF BackPressure

(***************************************************************************)
(* What is sent and not consumed never exceeds the sender's window.        *)
(***************************************************************************)
THEOREM SentIsBounded ==
  ASSUME SenderWindow <= ReceiverWindow
  PROVE  Spec => []BackPressure
<1>1. ControlInv /\ Accounts /\ [Next]_vars => (ControlInv /\ Accounts)'
  BY NextControl, NextAccounts
<1>2. Init => ControlInv /\ Accounts
  BY InitControl, InitAccounts
<1>3. ControlInv /\ Accounts => BackPressure
  BY Backed
<1>4. QED
  BY <1>1, <1>2, <1>3, PTL DEF Spec

(***************************************************************************)
(* A stream with a window of two or more never stalls: when nothing moves, *)
(* no sender waits for credit.                                             *)
(***************************************************************************)
THEOREM StreamNeverStalls ==
  ASSUME SenderWindow <= ReceiverWindow, SenderWindow >= 2
  PROVE  Spec => []NeverStalled
<1>1. ControlInv /\ Accounts /\ [Next]_vars => (ControlInv /\ Accounts)'
  BY NextControl, NextAccounts
<1>2. Init => ControlInv /\ Accounts
  BY InitControl, InitAccounts
<1>3. ControlInv /\ Accounts => NeverStalled
  <2> SUFFICES ASSUME ControlInv, Accounts, Quiet, NEW t \in Senders, pc[t] = "parked"
               PROVE  FALSE
    BY DEF NeverStalled
  <2>1. TypeOK
    BY DEF ControlInv
  <2>2. IsOpen(gate) /\ gate.available = 0 /\ ending = "none" /\ window.pending = 0
    BY DEF ControlInv, NoLostWakeup, InProgress, Busy, NothingHeldBack, Quiet
  <2>3. Len(wire) = 0 /\ Cardinality(Writing) = 0
    BY <2>1, WritingCount DEF Quiet
  <2>4. SenderCredit = 0
    BY <2>2, <2>3 DEF SenderCredit, Outgoing, Returning, Quiet
  <2>5. Unconsumed <= 1
    BY DEF Unconsumed, BeingReassembled, BeingHandled, Quiet
  <2>6. window.remaining + Unconsumed = ReceiverWindow
    BY <2>1, <2>2, Numbers DEF Accounts, WindowAccount
  <2>7. ReceiverWindow = window.remaining + SenderWindow
    BY <2>1, <2>2, <2>4, Numbers, WindowAssumption DEF Accounts, CreditConserved
  <2>8. Unconsumed = SenderWindow
    <3>1. Unconsumed \in Nat /\ window.remaining \in Nat
      BY <2>1, Numbers
    <3>2. QED
      BY <2>6, <2>7, <3>1, WindowAssumption
  <2>9. QED
    BY <2>5, <2>8, WindowAssumption
<1>4. QED
  BY <1>1, <1>2, <1>3, PTL DEF Spec
-----------------------------------------------------------------------------
(* The stream as a channel: its items are the last CHUNKs under way and     *)
(* what is queued.                                                          *)
Lasts(w) == {k \in DOMAIN w : w[k] = "last"}

Chunks == Seq({"part", "last"})

LEMMA LastsFacts ==
  ASSUME NEW w \in Chunks
  PROVE  /\ IsFiniteSet(Lasts(w)) /\ Cardinality(Lasts(w)) \in Nat
         /\ Cardinality(Lasts(w)) <= Len(w)
         /\ w = <<>> => Cardinality(Lasts(w)) = 0
<1>1. DOMAIN w = 1 .. Len(w) /\ Len(w) \in Nat
  BY DEF Chunks
<1>2. IsFiniteSet(1 .. Len(w)) /\ Cardinality(1 .. Len(w)) = Len(w)
  <2>1. 1 \in Int /\ Len(w) \in Int
    BY <1>1
  <2>2. Cardinality(1 .. Len(w)) = IF 1 > Len(w) THEN 0 ELSE Len(w) - 1 + 1
    BY <2>1, FS_Interval
  <2>3. IsFiniteSet(1 .. Len(w))
    BY <2>1, FS_Interval
  <2>4. QED
    BY <1>1, <2>2, <2>3
<1>3. Lasts(w) \subseteq 1 .. Len(w)
  BY <1>1 DEF Lasts
<1>4. IsFiniteSet(Lasts(w)) /\ Cardinality(Lasts(w)) <= Len(w)
  BY <1>2, <1>3, FS_Subset
<1>5. QED
  BY <1>4, FS_CardinalityType, FS_EmptySet DEF Lasts

LEMMA LastsAppended ==
  ASSUME NEW w \in Chunks, NEW c \in {"part", "last"}
  PROVE  Cardinality(Lasts(Append(w, c)))
           = Cardinality(Lasts(w)) + (IF c = "last" THEN 1 ELSE 0)
<1> DEFINE n == Len(w) + 1
           v == Append(w, c)
<1>1. /\ DOMAIN w = 1 .. Len(w) /\ Len(w) \in Nat /\ DOMAIN v = 1 .. n
      /\ v[n] = c /\ \A k \in 1 .. Len(w) : v[k] = w[k]
  BY DEF Chunks
<1> HIDE DEF v
<1>2. 1 .. n = {n} \cup 1 .. Len(w) /\ n \notin 1 .. Len(w)
  BY <1>1
<1> HIDE DEF n
<1>3. CASE c = "last"
  <2>1. Lasts(v) = Lasts(w) \cup {n} /\ n \notin Lasts(w)
    BY <1>1, <1>2, <1>3 DEF Lasts
  <2>2. Cardinality(Lasts(v)) = Cardinality(Lasts(w)) + 1
    BY <2>1, LastsFacts, FS_AddElement
  <2>3. QED
    BY <1>3, <2>2 DEF v
<1>4. CASE c # "last"
  <2>1. Lasts(v) = Lasts(w)
    BY <1>1, <1>2, <1>4 DEF Lasts
  <2>2. QED
    BY <1>4, <2>1, LastsFacts DEF v
<1>5. QED
  BY <1>3, <1>4

LEMMA LastsLeft ==
  ASSUME NEW w \in Chunks, w # <<>>
  PROVE  /\ Tail(w) \in Chunks
         /\ Cardinality(Lasts(w))
              = Cardinality(Lasts(Tail(w))) + (IF Head(w) = "last" THEN 1 ELSE 0)
<1> DEFINE v == Tail(w)
           rest == Lasts(w) \ {1}
<1>1. /\ DOMAIN w = 1 .. Len(w) /\ Len(w) \in Nat /\ Len(w) > 0 /\ Head(w) = w[1]
      /\ v \in Chunks /\ DOMAIN v = 1 .. (Len(w) - 1)
      /\ \A k \in 1 .. (Len(w) - 1) : v[k] = w[k + 1]
  BY DEF Chunks
<1> HIDE DEF v
<1>2. PICK f : f = [k \in Lasts(v) |-> k + 1]
  OBVIOUS
<1>3. /\ \A k \in Lasts(v) : k \in 1 .. (Len(w) - 1) /\ w[k + 1] = "last"
      /\ \A k \in 1 .. (Len(w) - 1) : w[k + 1] = "last" => k \in Lasts(v)
  BY <1>1 DEF Lasts
<1>4. f \in [Lasts(v) -> rest]
  <2>1. \A k \in Lasts(v) : k + 1 \in rest
    BY <1>1, <1>3 DEF Lasts
  <2>2. QED
    BY <1>2, <2>1
<1>5. \A k, l \in Lasts(v) : f[k] = f[l] => k = l
  BY <1>2, <1>3
<1>6. \A m \in rest : \E k \in Lasts(v) : f[k] = m
  <2> SUFFICES ASSUME NEW m \in rest PROVE \E k \in Lasts(v) : f[k] = m
    OBVIOUS
  <2>1. m \in 1 .. Len(w) /\ m # 1 /\ w[m] = "last"
    BY <1>1 DEF Lasts
  <2>2. m - 1 \in 1 .. (Len(w) - 1) /\ (m - 1) + 1 = m
    BY <1>1, <2>1
  <2>3. m - 1 \in Lasts(v)
    BY <1>3, <2>1, <2>2
  <2>4. f[m - 1] = m
    BY <1>2, <2>2, <2>3
  <2>5. QED
    BY <2>3, <2>4
<1>7. ExistsBijection(Lasts(v), rest)
  <2>1. f \in Injection(Lasts(v), rest)
    BY <1>4, <1>5 DEF Injection, IsInjective
  <2>2. f \in Surjection(Lasts(v), rest)
    BY <1>4, <1>6 DEF Surjection
  <2>3. QED
    BY <2>1, <2>2 DEF ExistsBijection, Bijection
<1>8. Cardinality(rest) = Cardinality(Lasts(v))
  BY <1>1, <1>7, LastsFacts, FS_Bijection
<1>9. CASE Head(w) = "last"
  <2>1. 1 \in Lasts(w)
    BY <1>1, <1>9 DEF Lasts
  <2>2. Cardinality(rest) = Cardinality(Lasts(w)) - 1
    BY <2>1, LastsFacts, FS_RemoveElement
  <2>3. QED
    BY <1>1, <1>8, <1>9, <2>2, LastsFacts DEF v
<1>10. CASE Head(w) # "last"
  <2>1. rest = Lasts(w)
    BY <1>1, <1>10 DEF Lasts
  <2>2. Cardinality(Lasts(w)) = Cardinality(Lasts(v)) + 0
    <3>1. Cardinality(Lasts(v)) \in Nat
      BY <1>1, LastsFacts
    <3>2. Cardinality(Lasts(w)) = Cardinality(Lasts(v))
      BY <1>8, <2>1
    <3>3. QED
      BY <3>1, <3>2
  <2>3. QED
    BY <1>1, <1>10, <2>2 DEF v
<1>11. QED
  BY <1>9, <1>10

(* What the handler and the demux have seen of the stream's end is true.    *)
EndSeen ==
  /\ handler = "done" => ending = "seen"
  /\ ending = "seen" => wire = <<>>

Items == queued + Cardinality(Lasts(wire))

Status == IF handler = "done" THEN "done" ELSE IF ending = "none" THEN "open" ELSE "ended"

(* One step of the stream is one step of the channel or none.               *)
ChannelStep ==
  \/ Status = "open" /\ Items < SenderWindow /\ Items' = Items + 1 /\ Status' = Status
  \/ Items > 0 /\ Items' = Items - 1 /\ Status' = Status
  \/ Status = "open" /\ Status' = "ended" /\ Items' = Items
  \/ Status = "ended" /\ Items = 0 /\ Status' = "done" /\ Items' = Items
  \/ Status' = Status /\ Items' = Items

LEMMA ChannelSteps ==
  ASSUME SenderWindow <= ReceiverWindow, ControlInv, Accounts, EndSeen, [Next]_vars
  PROVE  EndSeen' /\ ChannelStep
<1>1. /\ TypeOK /\ wire \in Chunks /\ queued \in Nat /\ Cardinality(Lasts(wire)) \in Nat
      /\ InProgress /\ (wire # <<>> => ~Violates(window))
  BY LastsFacts, RoomForChunk DEF ControlInv, Accounts, TypeOK, Chunks
<1>2. BackPressure
  BY Backed
<1>3. ASSUME UNCHANGED <<wire, queued, handler, ending>>
      PROVE  EndSeen' /\ ChannelStep
  BY <1>3 DEF EndSeen, ChannelStep, Items, Status
<1>4. CASE \E t \in Senders : Emit(t) \/ Acquire(t)
  BY <1>3, <1>4 DEF Emit, Acquire, receiverVars
<1>5. ASSUME NEW t \in Senders, WriteChunk(t)
      PROVE  EndSeen' /\ ChannelStep
  <2> DEFINE c == IF left[t] = 1 THEN "last" ELSE "part"
  <2>1. /\ pc[t] = "write" /\ wire' = Append(wire, c) /\ c \in {"part", "last"}
        /\ UNCHANGED <<queued, handler, ending>>
    BY <1>5 DEF WriteChunk, receiverVars
  <2>2. ending = "none" /\ handler # "done"
    BY <1>1, <2>1 DEF InProgress, Busy, EndSeen
  <2> HIDE DEF c
  <2>3. Cardinality(Lasts(wire')) = Cardinality(Lasts(wire)) + (IF c = "last" THEN 1 ELSE 0)
    BY <1>1, <2>1, LastsAppended
  <2>4. Status = "open" /\ Status' = Status /\ EndSeen'
    BY <2>1, <2>2 DEF Status, EndSeen
  <2>5. Items < SenderWindow
    <3>1. Cardinality(Writing) >= 1
      <4>1. t \in Writing
        BY <2>1 DEF Writing
      <4>2. Cardinality(Writing) # 0
        BY <1>1, <4>1, WritingCount, FS_EmptySet
      <4>3. QED
        BY <1>1, <4>2, WritingCount
    <3>2. Cardinality(Lasts(wire)) <= Len(wire) /\ Len(wire) \in Nat
      BY <1>1, LastsFacts DEF Chunks
    <3>3. Unconsumed >= queued /\ Unconsumed \in Nat
      <4>1. BeingReassembled \in Nat /\ BeingHandled \in Nat /\ Unconsumed \in Nat
        BY <1>1, Numbers
      <4>2. Unconsumed = queued + BeingReassembled + BeingHandled
        BY DEF Unconsumed
      <4>3. QED
        BY <1>1, <4>1, <4>2
    <3>4. Cardinality(Writing) \in Nat /\ Cardinality(Writing) + Len(wire) + Unconsumed <= SenderWindow
      BY <1>1, <1>2, WritingCount DEF BackPressure
    <3>5. QED
      BY <1>1, <3>1, <3>2, <3>3, <3>4, WindowAssumption DEF Items
  <2>6. Items' = Items \/ Items' = Items + 1
    BY <1>1, <2>1, <2>3 DEF Items
  <2>7. QED
    BY <2>4, <2>5, <2>6 DEF ChannelStep
<1>6. CASE CloseStream \/ FailRequest
  <2>1. /\ ending = "none" /\ ending' \in {"stream_end", "err"}
        /\ UNCHANGED <<wire, queued, handler>>
    BY <1>6 DEF CloseStream, FailRequest, receiverVars
  <2>2. QED
    BY <2>1 DEF EndSeen, ChannelStep, Items, Status
<1>7. CASE RouteCredit \/ GrantGate \/ CloseRequest \/ SendDemuxGrant \/ SendHandlerGrant
  BY <1>3, <1>7 DEF RouteCredit, GrantGate, CloseRequest, SendDemuxGrant, SendHandlerGrant, receiverVars
<1>8. CASE DemuxChunk
  <2>1. /\ wire # <<>> /\ wire' = Tail(wire)
        /\ queued' = IF Head(wire) = "last" THEN queued + 1 ELSE queued
        /\ UNCHANGED <<handler, ending>>
    BY <1>1, <1>8 DEF DemuxChunk
  <2>2. Cardinality(Lasts(wire))
          = Cardinality(Lasts(wire')) + (IF Head(wire) = "last" THEN 1 ELSE 0)
    BY <1>1, <2>1, LastsLeft
  <2>3. Cardinality(Lasts(wire')) \in Nat
    BY <1>1, <2>1, LastsLeft, LastsFacts
  <2>4. Items' = Items
    BY <1>1, <2>1, <2>2, <2>3 DEF Items
  <2>5. EndSeen' /\ Status' = Status
    BY <2>1 DEF EndSeen, Status
  <2>6. QED
    BY <2>4, <2>5 DEF ChannelStep
<1>9. CASE DemuxEnd \/ DemuxErr
  <2>1. /\ ending # "none" /\ ending' = "seen" /\ wire = <<>> /\ UNCHANGED <<wire, queued, handler>>
    BY <1>9 DEF DemuxEnd, DemuxErr
  <2>2. QED
    BY <2>1 DEF EndSeen, ChannelStep, Items, Status
<1>10. CASE RecvNoWait \/ RecvBlocking
  <2>1. handler # "done" /\ UNCHANGED <<wire, ending>>
    BY <1>10 DEF RecvNoWait, RecvBlocking
  <2>2. \/ queued > 0 /\ queued' = queued - 1 /\ handler' = "consumed"
        \/ UNCHANGED queued /\ handler' \in {"ready", "flush"}
        \/ queued = 0 /\ ending = "seen" /\ UNCHANGED queued /\ handler' = "done"
    BY <1>10 DEF RecvNoWait, RecvBlocking, TakeFromChannel
  <2>3. CASE queued > 0 /\ queued' = queued - 1 /\ handler' = "consumed"
    <3>1. Items > 0 /\ Items' = Items - 1
      BY <1>1, <2>1, <2>3 DEF Items
    <3>2. EndSeen' /\ Status' = Status
      BY <2>1, <2>3 DEF EndSeen, Status
    <3>3. QED
      BY <3>1, <3>2 DEF ChannelStep
  <2>4. CASE UNCHANGED queued /\ handler' \in {"ready", "flush"}
    BY <2>1, <2>4 DEF EndSeen, ChannelStep, Items, Status
  <2>5. CASE queued = 0 /\ ending = "seen" /\ UNCHANGED queued /\ handler' = "done"
    <3>1. wire = <<>>
      BY <2>5 DEF EndSeen
    <3>2. Items = 0
      BY <1>1, <2>5, <3>1, LastsFacts DEF Items
    <3>3. QED
      BY <2>1, <2>5, <3>1, <3>2 DEF EndSeen, ChannelStep, Items, Status
  <2>6. QED
    BY <2>2, <2>3, <2>4, <2>5
<1>11. CASE FlushGrants \/ Consumed
  <2>1. handler # "done" /\ handler' # "done" /\ UNCHANGED <<wire, queued, ending>>
    BY <1>11 DEF FlushGrants, Consumed
  <2>2. QED
    BY <2>1 DEF EndSeen, ChannelStep, Items, Status
<1>12. CASE Done \/ UNCHANGED vars
  BY <1>3, <1>12 DEF Done, vars, receiverVars
<1>13. QED
  BY <1>4, <1>5, <1>6, <1>7, <1>8, <1>9, <1>10, <1>11, <1>12 DEF Next, Sender

LEMMA ChannelMapped ==
  ASSUME ChannelStep
  PROVE  [Channel!Next]_(Channel!vars)
BY DEF ChannelStep, Items, Status, Lasts, Channel!Next, Channel!Put, Channel!Take, Channel!End,
       Channel!SeeEnd, Channel!vars

(***************************************************************************)
(* When the receiver's window is no smaller than the sender's, the stream  *)
(* takes the steps of a channel of SenderWindow items, from the writing of *)
(* an item's last CHUNK (emit_list_item, cartridge_runtime.py 1940-1977)   *)
(* to recv (cartridge_runtime.py 2333-2350): no item is lost, made or put  *)
(* beyond the bound, and the handler sees the end after the last of them.  *)
(***************************************************************************)
THEOREM ImplementsChannel ==
  ASSUME SenderWindow <= ReceiverWindow
  PROVE  Spec => Channel!Spec
<1>1. ControlInv /\ Accounts /\ EndSeen /\ [Next]_vars
        => (ControlInv /\ Accounts /\ EndSeen)' /\ ChannelStep
  BY NextControl, NextAccounts, ChannelSteps
<1>2. Init => ControlInv /\ Accounts /\ EndSeen
  BY InitControl, InitAccounts DEF Init, EndSeen
<1>3. Init => Channel!Init
  <2> SUFFICES ASSUME Init PROVE Channel!Init
    OBVIOUS
  <2>1. wire = <<>> /\ <<>> \in Chunks
    BY DEF Init, Chunks
  <2>2. Cardinality(Lasts(wire)) = 0
    BY <2>1, LastsFacts
  <2>3. QED
    BY <2>2 DEF Init, Channel!Init, Lasts
<1>4. ChannelStep => [Channel!Next]_(Channel!vars)
  BY ChannelMapped
<1>5. QED
  BY <1>1, <1>2, <1>3, <1>4, PTL DEF Spec, Channel!Spec
=============================================================================
