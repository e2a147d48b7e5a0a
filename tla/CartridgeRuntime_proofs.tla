------------------------ MODULE CartridgeRuntime_proofs ------------------------
(***************************************************************************)
(* Proofs about CartridgeRuntime for every set of requests, pools, chains, *)
(* limits and work of the handlers.                                        *)
(***************************************************************************)
EXTENDS CartridgeRuntime, FiniteSetTheorems, TLAPS

-----------------------------------------------------------------------------
(***************************************************************************)
(* Facts about the decisions of Pools on which the accounting of the       *)
(* cartridge's admission rests.                                            *)
(***************************************************************************)
(* The holders that count in a pool, and what it means to count them.      *)
Through(holders, chain, p) == {r \in holders : p \in chain[r]}

Counts(counts, holders, chain) ==
  \A p \in DOMAIN counts : counts[p] = Cardinality(Through(holders, chain, p))

(***************************************************************************)
(* Taking the slots of one more holder counts it in each of its pools      *)
(* (CapDAG-Bifaci-Pools.c:737-806).                                        *)
(***************************************************************************)
LEMMA TakeCounts ==
  ASSUME NEW Names, NEW counts \in [Names -> Nat],
         NEW holders, IsFiniteSet(holders), NEW chain, NEW r, r \notin holders,
         Counts(counts, holders, chain)
  PROVE  Counts(Take(counts, chain[r]), holders \cup {r}, chain)
<1> DEFINE more == holders \cup {r}
<1>0. DOMAIN Take(counts, chain[r]) = Names
  BY DEF Take
<1> SUFFICES ASSUME NEW p \in Names
             PROVE  Take(counts, chain[r])[p] = Cardinality(Through(more, chain, p))
  BY <1>0 DEF Counts
<1>1. IsFiniteSet(Through(holders, chain, p)) /\ Cardinality(Through(holders, chain, p)) \in Nat
  <2>1. IsFiniteSet(Through(holders, chain, p))
    BY FS_Subset DEF Through
  <2>2. QED
    BY <2>1, FS_CardinalityType
<1>2. counts[p] = Cardinality(Through(holders, chain, p))
  BY DEF Counts
<1>3. CASE p \in chain[r]
  <2>1. Through(more, chain, p) = Through(holders, chain, p) \cup {r} /\ r \notin Through(holders, chain, p)
    BY <1>3 DEF Through
  <2>2. Cardinality(Through(more, chain, p)) = Cardinality(Through(holders, chain, p)) + 1
    BY <1>1, <2>1, FS_AddElement
  <2>3. Take(counts, chain[r])[p] = counts[p] + 1
    BY <1>3 DEF Take
  <2>4. QED
    BY <1>2, <2>2, <2>3
<1>4. CASE p \notin chain[r]
  <2>1. Through(more, chain, p) = Through(holders, chain, p)
    BY <1>4 DEF Through
  <2>2. Take(counts, chain[r])[p] = counts[p]
    BY <1>4 DEF Take
  <2>3. QED
    BY <1>2, <2>1, <2>2
<1>5. QED
  BY <1>3, <1>4

(***************************************************************************)
(* Giving them back counts it out of each, and no counter is at zero       *)
(* before (CapDAG-Bifaci-Pools.c:811-873).                                 *)
(***************************************************************************)
LEMMA ReleaseCounts ==
  ASSUME NEW Names, NEW counts \in [Names -> Nat],
         NEW holders, IsFiniteSet(holders), NEW chain, NEW r \in holders,
         Counts(counts, holders, chain)
  PROVE  Counts(Release(counts, chain[r]), holders \ {r}, chain)
<1> DEFINE fewer == holders \ {r}
<1>0. DOMAIN Release(counts, chain[r]) = Names
  BY DEF Release
<1> SUFFICES ASSUME NEW p \in Names
             PROVE  Release(counts, chain[r])[p] = Cardinality(Through(fewer, chain, p))
  BY <1>0 DEF Counts
<1>1. IsFiniteSet(Through(holders, chain, p)) /\ Cardinality(Through(holders, chain, p)) \in Nat
  <2>1. IsFiniteSet(Through(holders, chain, p))
    BY FS_Subset DEF Through
  <2>2. QED
    BY <2>1, FS_CardinalityType
<1>2. counts[p] = Cardinality(Through(holders, chain, p))
  BY DEF Counts
<1>3. CASE p \in chain[r]
  <2>1. Through(fewer, chain, p) = Through(holders, chain, p) \ {r} /\ r \in Through(holders, chain, p)
    BY <1>3 DEF Through
  <2>2. Cardinality(Through(fewer, chain, p)) = Cardinality(Through(holders, chain, p)) - 1
    <3> DEFINE T == Through(holders, chain, p)
    <3>1. IsFiniteSet(T) /\ r \in T /\ Through(fewer, chain, p) = T \ {r}
      BY <1>1, <2>1
    <3> HIDE DEF T
    <3>2. Cardinality(T \ {r}) = Cardinality(T) - 1
      BY <3>1, FS_RemoveElement
    <3>3. QED
      BY <3>1, <3>2 DEF T
  <2>3. Cardinality(Through(holders, chain, p)) # 0
    BY <1>1, <2>1, FS_EmptySet, SMTT(30)
  <2>4. Release(counts, chain[r])[p] = counts[p] - 1
    BY <1>1, <1>2, <1>3, <2>3 DEF Release
  <2>5. QED
    BY <1>2, <2>2, <2>4
<1>4. CASE p \notin chain[r]
  <2>1. Through(fewer, chain, p) = Through(holders, chain, p)
    BY <1>4 DEF Through
  <2>2. Release(counts, chain[r])[p] = counts[p]
    BY <1>4 DEF Release
  <2>3. QED
    BY <1>2, <2>1, <2>2
<1>5. QED
  BY <1>3, <1>4

(***************************************************************************)
(* Who has room when more is taken had room before                         *)
(* (CapDAG-Bifaci-Pools.c:278-300, 701-723).                               *)
(***************************************************************************)
LEMMA TakeLeavesNoMoreRoom ==
  ASSUME NEW Names, NEW counts \in [Names -> Nat], NEW bounds \in [Names -> Nat],
         NEW taken, NEW chain \in SUBSET Names,
         HasRoom(bounds, Take(counts, taken), chain)
  PROVE  HasRoom(bounds, counts, chain)
<1> SUFFICES ASSUME NEW p \in chain
             PROVE  PoolHasRoom(bounds[p], counts[p])
  BY DEF HasRoom
<1>1. PoolHasRoom(bounds[p], Take(counts, taken)[p])
  BY DEF HasRoom
<1>2. /\ counts[p] \in Nat /\ bounds[p] \in Nat
      /\ Take(counts, taken)[p] \in {counts[p], counts[p] + 1}
  BY DEF Take
<1>3. QED
  BY <1>1, <1>2 DEF PoolHasRoom

LEMMA TakeType ==
  ASSUME NEW Names, NEW counts \in [Names -> Nat], NEW chain
  PROVE  Take(counts, chain) \in [Names -> Nat]
BY DEF Take

LEMMA ReleaseType ==
  ASSUME NEW Names, NEW counts \in [Names -> Nat], NEW chain
  PROVE  Release(counts, chain) \in [Names -> Nat]
BY DEF Release

-----------------------------------------------------------------------------

Frames == {"queued", "dequeued"} \cup Terminals

(* The places of a handler thread in which its operation goes on.          *)
Working == {"op", "reading", "writing", "calling", "awaiting"}

Arriving(r) == at \in {"arrive", "spawn"} /\ cur = r

PickedBy(r, a) == picked[a] = r

Picked(r) == \E a \in Actors : PickedBy(r, a)

(* The main loop has a request in hand while it works on one, and drains   *)
(* the line at one place; a handler thread drains it when it is done.      *)
MainInv ==
  /\ at \in {"read", "admit", "closed"} <=> cur = NoRequest
  /\ \A r \in Requests : cur = r => input[r] # "none"
  /\ at \in {"dequeue", "claim", "cut", "gates", "peers"} => cur \in asked
  /\ admitting[Main] # "no" <=> at = "admit"
  /\ \A r \in Requests : admitting[r] # "no" <=> thread[r] = "draining"

(* A request is at most at one place: it arrives, is in line, is in the    *)
(* hands of one thread, or has a handler.                                  *)
PlaceInv ==
  \A r \in Requests :
    /\ r \in inLine => thread[r] = "none" /\ ~Arriving(r) /\ ~Picked(r)
    /\ Arriving(r) => thread[r] = "none" /\ ~Picked(r)
    /\ Picked(r) => thread[r] = "none"
    /\ \A a, b \in Actors : PickedBy(r, a) /\ PickedBy(r, b) => a = b
    /\ input[r] = "none" => r \notin inLine /\ thread[r] = "none" /\ ~Picked(r)

(* A request is registered until its handler is through with it.           *)
RunningInv ==
  \A r \in Requests :
    r \in running <=> thread[r] \in Working \cup {"ending", "popping"}

(* Who has claimed a request and whether it was answered, by the place of  *)
(* its handler.                                                            *)
ClaimInv ==
  \A r \in Requests :
    /\ thread[r] \in Working => claim[r] # "handler"
    /\ thread[r] = "ending" => claim[r] = "handler"
    /\ thread[r] = "popping" => claim[r] # "open"
    /\ thread[r] = "answering" => claim[r] = "cancel"

AnsweredInv ==
  \A r \in Requests :
    /\ input[r] = "none" \/ r \in inLine \/ Arriving(r) \/ Picked(r) => ~HasEnded(told[r])
    /\ thread[r] \in Working \cup {"ending", "answering"} => ~HasEnded(told[r])
    /\ thread[r] = "popping" => (HasEnded(told[r]) <=> claim[r] = "handler")
    /\ thread[r] \in {"releasing", "draining", "gone"} => HasEnded(told[r])

(* The terminal is the last that is written about a request, and its kind  *)
(* tells who claimed the request.                                          *)
FrameInv ==
  \A r \in Requests :
    /\ HasEnded(told[r]) => told[r][Len(told[r])] \in Terminals
    /\ \A i \in DOMAIN told[r] :
         /\ told[r][i] = "ended" => claim[r] = "handler"
         /\ told[r][i] = "cancelled" => claim[r] = "cancel" \/ thread[r] = "none"

Inv ==
  /\ TypeOK
  /\ MainInv /\ PlaceInv /\ RunningInv
  /\ ClaimInv /\ AnsweredInv /\ FrameInv
-----------------------------------------------------------------------------
(***************************************************************************)
(* What writing does: nothing to a request that was answered, otherwise    *)
(* one more frame.                                                         *)
(***************************************************************************)
WrittenTo(r, frame) ==
  /\ told' \in [Requests -> Seq(Frames)]
  /\ \A q \in Requests : q # r => told'[q] = told[q]
  /\ HasEnded(told[r]) => told'[r] = told[r]
  /\ HasEnded(told'[r]) <=> (HasEnded(told[r]) \/ frame \in Terminals)
  /\ \A i \in DOMAIN told'[r] :
       \/ i \in DOMAIN told[r] /\ told'[r][i] = told[r][i]
       \/ told'[r][i] = frame /\ ~HasEnded(told[r])
  /\ ~HasEnded(told[r]) => told'[r][Len(told'[r])] = frame

LEMMA WriteFacts ==
  ASSUME TypeOK, NEW r \in Requests, NEW frame \in Frames, Write(r, frame)
  PROVE  WrittenTo(r, frame)
<1>1. told \in [Requests -> Seq(Frames)]
  BY DEF TypeOK, Frames
<1>2. told' = [told EXCEPT ![r] = IF HasEnded(told[r]) THEN told[r] ELSE Append(told[r], frame)]
  BY DEF Write
<1>3. \A q \in Requests : q # r => told'[q] = told[q]
  BY <1>1, <1>2
<1>4. CASE HasEnded(told[r])
  <2>1. told'[r] = told[r]
    BY <1>1, <1>2, <1>4
  <2>2. told' \in [Requests -> Seq(Frames)]
    BY <1>1, <1>2, <1>4
  <2>3. QED
    BY <1>3, <1>4, <2>1, <2>2 DEF WrittenTo
<1>5. CASE ~HasEnded(told[r])
  <2> DEFINE s == told[r]
  <2>1. s \in Seq(Frames)
    BY <1>1
  <2>2. told'[r] = Append(s, frame)
    BY <1>1, <1>2, <1>5
  <2>3. told' \in [Requests -> Seq(Frames)]
    BY <1>1, <1>2, <1>5
  <2>4. /\ DOMAIN Append(s, frame) = 1..(Len(s) + 1) /\ DOMAIN s = 1..Len(s) /\ Len(s) \in Nat
        /\ Len(Append(s, frame)) = Len(s) + 1
        /\ Append(s, frame)[Len(s) + 1] = frame
        /\ \A i \in DOMAIN s : Append(s, frame)[i] = s[i]
    BY <2>1
  <2>5. \A i \in DOMAIN told'[r] :
           \/ i \in DOMAIN s /\ told'[r][i] = s[i]
           \/ told'[r][i] = frame
    BY <2>2, <2>4
  <2>6. HasEnded(told'[r]) <=> frame \in Terminals
    BY <1>5, <2>2, <2>4, <2>5 DEF HasEnded
  <2>7. told'[r][Len(told'[r])] = frame
    BY <2>2, <2>4
  <2>8. QED
    BY <1>3, <1>5, <2>2, <2>3, <2>5, <2>6, <2>7 DEF WrittenTo
<1>6. QED
  BY <1>4, <1>5
(***************************************************************************)
(* A handler whose operation goes on, or is woken, disturbs nothing.       *)
(***************************************************************************)
LEMMA OperationGoesOn ==
  ASSUME Inv, NEW r \in Requests, thread[r] \in Working, NEW p \in Working,
         thread' = [thread EXCEPT ![r] = p], TypeOK',
         UNCHANGED <<mainVars, inputVars, capacity, lineVars, admitVars, runVars, told,
                     cancelVars>>
  PROVE  Inv'
<1> USE DEF Inv
<1>1. /\ \A q \in Requests : q # r => thread'[q] = thread[q]
      /\ thread'[r] = p
  BY DEF TypeOK
<1>2. UNCHANGED <<at, cur, input, inLine, admitting, picked, running, claim, told, asked>>
  BY DEF mainVars, inputVars, lineVars, admitVars, runVars, cancelVars
<1>3. MainInv' /\ PlaceInv' /\ RunningInv'
  BY <1>1, <1>2 DEF MainInv, PlaceInv, RunningInv, Arriving, Picked, PickedBy, Working
<1>4. ClaimInv' /\ AnsweredInv' /\ FrameInv'
  BY <1>1, <1>2 DEF PlaceInv, ClaimInv, AnsweredInv, FrameInv, Arriving, Picked, PickedBy,
    Working
<1>5. QED
  BY <1>3, <1>4

(***************************************************************************)
(* What the main loop does with a frame it has read.                       *)
(***************************************************************************)
LEMMA DispatchInv ==
  ASSUME Inv, Dispatch
  PROVE  Inv'
<1> USE DEF Inv
<1>1. CASE Arrive
  <2>1. cur \in Requests
    BY <1>1 DEF Arrive, TypeOK, MainInv
  <2>2. active' \in [PoolNames -> Nat]
    BY <1>1, TakeType DEF Arrive, TypeOK
  <2>3. inLine' \subseteq Requests /\ ahead' \in [Requests -> SUBSET Requests]
    <3>1. \/ inLine' = inLine \cup {cur} /\ ahead' = [ahead EXCEPT ![cur] = inLine]
          \/ UNCHANGED <<inLine, ahead>>
      BY <1>1 DEF Arrive, Join
    <3>2. inLine \subseteq Requests /\ ahead \in [Requests -> SUBSET Requests]
      BY DEF TypeOK
    <3>3. QED
      BY <2>1, <3>1, <3>2
  <2>4. TypeOK'
    BY <1>1, <2>2, <2>3 DEF Arrive, TypeOK, inputVars, admitVars, runVars, handlerVars,
      peerVars, cancelVars
  <2>5. MainInv' /\ PlaceInv' /\ RunningInv'
    BY <1>1, RequestAssumption DEF Arrive, TypeOK, MainInv, PlaceInv, RunningInv,
      Arriving, Picked, PickedBy, Working, Actors, inputVars, admitVars, runVars,
      handlerVars, cancelVars
  <2>6. ClaimInv' /\ AnsweredInv' /\ FrameInv'
    BY <1>1, RequestAssumption DEF Arrive, TypeOK, MainInv, PlaceInv, ClaimInv,
      AnsweredInv, FrameInv, Arriving, Picked, PickedBy, Working, Actors, inputVars,
      admitVars, runVars, handlerVars, cancelVars
  <2>7. QED
    BY <2>4, <2>5, <2>6
<1>2. CASE SpawnArrived
  <2>1. cur \in Requests /\ Arriving(cur)
    BY <1>2 DEF SpawnArrived, TypeOK, MainInv, Arriving
  <2>2. /\ thread' = [thread EXCEPT ![cur] = "op"] /\ claim' = [claim EXCEPT ![cur] = "open"]
        /\ running' = running \cup {cur}
        /\ at' = "read" /\ cur' = NoRequest
        /\ UNCHANGED <<inputVars, capacity, lineVars, admitVars, todo, gate, peerVars, told,
                       cancelVars>>
    BY <1>2 DEF SpawnArrived, Spawn
  <2>3. TypeOK'
    BY <2>1, <2>2 DEF TypeOK, inputVars, lineVars, admitVars, peerVars, cancelVars
  <2>4. MainInv' /\ PlaceInv' /\ RunningInv'
    BY <2>1, <2>2, RequestAssumption DEF TypeOK, MainInv, PlaceInv, RunningInv, Arriving,
      Picked, PickedBy, Working, Actors, inputVars, lineVars, admitVars, cancelVars
  <2>5. ClaimInv' /\ AnsweredInv'
    BY <2>1, <2>2 DEF TypeOK, PlaceInv, ClaimInv, AnsweredInv, Arriving, Picked, PickedBy,
      Working, inputVars, lineVars, admitVars
  <2>6. FrameInv'
    BY <2>1, <2>2 DEF TypeOK, PlaceInv, AnsweredInv, FrameInv, HasEnded, Terminals
  <2>7. QED
    BY <2>3, <2>4, <2>5, <2>6
<1>3. CASE WriteQueued
  <2>1. cur \in Requests /\ WrittenTo(cur, "queued") /\ "queued" \notin Terminals
    BY <1>3, WriteFacts DEF WriteQueued, TypeOK, MainInv, Frames, Terminals
  <2>2. /\ at = "queued" /\ at' = "admit" /\ cur' = NoRequest
        /\ admitting' = [admitting EXCEPT ![Main] = "next"]
        /\ UNCHANGED <<inputVars, capacity, lineVars, picked, runVars, handlerVars, cancelVars>>
    BY <1>3 DEF WriteQueued
  <2>3. TypeOK'
    BY <2>1, <2>2, RequestAssumption DEF WrittenTo, Frames, TypeOK, MainInv, Actors,
      inputVars, lineVars, runVars, handlerVars, peerVars, cancelVars
  <2>4. MainInv' /\ PlaceInv' /\ RunningInv'
    BY <2>2, RequestAssumption DEF TypeOK, MainInv, PlaceInv, RunningInv, Arriving,
      Picked, PickedBy, Working, Actors, inputVars, lineVars, runVars, handlerVars,
      cancelVars
  <2>5. \A r \in Requests : HasEnded(told'[r]) <=> HasEnded(told[r])
    BY <2>1 DEF WrittenTo
  <2>6. ClaimInv' /\ AnsweredInv'
    BY <2>2, <2>5 DEF ClaimInv, AnsweredInv, Arriving, Picked, PickedBy, Working,
      inputVars, lineVars, runVars, handlerVars
  <2>7. FrameInv'
    BY <2>1, <2>2, <2>5 DEF WrittenTo, FrameInv, Terminals, runVars, handlerVars
  <2>8. QED
    BY <2>3, <2>4, <2>6, <2>7
<1>4. CASE TakeFromLine
  <2>1. cur \in Requests
    BY <1>4 DEF TakeFromLine, TypeOK, MainInv
  <2>2. UNCHANGED <<input, capacity, active, admitVars, runVars, handlerVars, cancelVars>>
    BY <1>4 DEF TakeFromLine
  <2>3. CASE cur \in inLine
    <3>1. /\ inLine' = inLine \ {cur} /\ ahead' = Leave(ahead, cur) /\ routed' = routed \ {cur}
          /\ at' = "read" /\ cur' = NoRequest
      BY <1>4, <2>3 DEF TakeFromLine
    <3>2. WrittenTo(cur, "cancelled") /\ ~HasEnded(told[cur]) /\ thread[cur] = "none"
      BY <1>4, <2>1, <2>3, WriteFacts DEF TakeFromLine, Frames, Terminals, AnsweredInv,
        PlaceInv
    <3>3. ahead' \in [Requests -> SUBSET Requests]
      BY <3>1 DEF TypeOK, Leave
    <3>4. TypeOK'
      BY <2>2, <3>1, <3>2, <3>3 DEF WrittenTo, Frames, TypeOK, admitVars, runVars,
        handlerVars, peerVars, cancelVars
    <3>5. MainInv' /\ PlaceInv' /\ RunningInv'
      BY <1>4, <2>2, <3>1, RequestAssumption DEF TakeFromLine, MainInv, PlaceInv,
        RunningInv, Arriving, Picked, PickedBy, Working, admitVars, runVars, handlerVars,
        cancelVars
    <3>6. ClaimInv' /\ AnsweredInv'
      BY <1>4, <2>1, <2>2, <2>3, <3>1, <3>2 DEF TakeFromLine, WrittenTo, MainInv,
        PlaceInv, ClaimInv, AnsweredInv, Arriving, Picked, PickedBy, Working, admitVars,
        runVars, handlerVars
    <3>7. FrameInv'
      BY <2>2, <3>2 DEF WrittenTo, FrameInv, Terminals, runVars, handlerVars
    <3>8. QED
      BY <3>4, <3>5, <3>6, <3>7
  <2>4. CASE cur \notin inLine
    <3>1. at = "dequeue" /\ at' = "claim" /\ UNCHANGED <<cur, routed, inLine, ahead, told>>
      BY <1>4, <2>4 DEF TakeFromLine
    <3>2. TypeOK'
      BY <2>2, <3>1 DEF TypeOK, admitVars, runVars, handlerVars, peerVars, cancelVars
    <3>3. MainInv' /\ PlaceInv' /\ RunningInv'
      BY <2>2, <3>1 DEF MainInv, PlaceInv, RunningInv, Arriving, Picked, PickedBy,
        Working, admitVars, runVars, handlerVars, cancelVars
    <3>4. ClaimInv' /\ AnsweredInv' /\ FrameInv'
      BY <2>2, <3>1 DEF ClaimInv, AnsweredInv, FrameInv, Arriving, Picked, PickedBy,
        Working, admitVars, runVars, handlerVars
    <3>5. QED
      BY <3>2, <3>3, <3>4
  <2>5. QED
    BY <2>3, <2>4
<1>5. CASE ClaimForCancel
  <2>1. cur \in Requests /\ cur \in asked
    BY <1>5 DEF ClaimForCancel, TypeOK, MainInv
  <2>2. /\ claim' = IF cur \in running /\ claim[cur] = "open"
                     THEN [claim EXCEPT ![cur] = "cancel"] ELSE claim
        /\ ignored' \subseteq ignored \cup {cur}
        /\ at = "claim"
        /\ (at' = "cut" /\ cur' = cur) \/ (at' = "read" /\ cur' = NoRequest)
        /\ UNCHANGED <<inputVars, capacity, lineVars, admitVars, running, handlerVars, told,
                       asked>>
    BY <1>5 DEF ClaimForCancel
  <2>3. claim' \in [Requests -> {"open", "handler", "cancel"}]
    BY <2>2 DEF TypeOK
  <2>4. TypeOK'
    BY <2>1, <2>2, <2>3 DEF TypeOK, inputVars, lineVars, admitVars, handlerVars, peerVars
  <2>5. MainInv' /\ PlaceInv' /\ RunningInv'
    BY <2>2, RequestAssumption DEF MainInv, PlaceInv, RunningInv, Arriving, Picked,
      PickedBy, Working, inputVars, lineVars, admitVars, handlerVars
  <2>6. ClaimInv' /\ AnsweredInv' /\ FrameInv'
    BY <2>1, <2>2 DEF TypeOK, RunningInv, ClaimInv, AnsweredInv, FrameInv, Arriving,
      Picked, PickedBy, Working, inputVars, lineVars, admitVars, handlerVars
  <2>7. QED
    BY <2>4, <2>5, <2>6
<1>6. CASE CutInput
  <2>1. TypeOK'
    BY <1>6, RequestAssumption, PoolAssumption DEF CutInput, TypeOK, MainInv, Actors,
      lineVars, admitVars, runVars, handlerVars, cancelVars, peerVars
  <2>2. MainInv' /\ PlaceInv' /\ RunningInv'
    BY <1>6, RequestAssumption DEF CutInput, TypeOK, MainInv, PlaceInv, RunningInv,
      Arriving, Picked, PickedBy, Working, Actors, lineVars, admitVars, runVars,
      handlerVars, cancelVars, peerVars
  <2>3. ClaimInv' /\ AnsweredInv' /\ FrameInv'
    BY <1>6, RequestAssumption DEF CutInput, TypeOK, MainInv, PlaceInv, RunningInv,
      ClaimInv, AnsweredInv, FrameInv, Arriving, Picked, PickedBy, Working, Actors,
      lineVars, admitVars, runVars, handlerVars, cancelVars, peerVars
  <2>4. QED
    BY <2>1, <2>2, <2>3
<1>7. CASE CancelGates
  <2>1. TypeOK'
    BY <1>7, RequestAssumption, PoolAssumption DEF CancelGates, CloseGate, TypeOK,
      MainInv, Actors, inputVars, lineVars, admitVars, runVars, peerVars, cancelVars
  <2>2. MainInv' /\ PlaceInv' /\ RunningInv'
    BY <1>7, RequestAssumption DEF CancelGates, CloseGate, TypeOK, MainInv, PlaceInv,
      RunningInv, Arriving, Picked, PickedBy, Working, Actors, inputVars, lineVars,
      admitVars, runVars, peerVars, cancelVars
  <2>3. ClaimInv' /\ AnsweredInv' /\ FrameInv'
    BY <1>7, RequestAssumption DEF CancelGates, CloseGate, TypeOK, MainInv, PlaceInv,
      RunningInv, ClaimInv, AnsweredInv, FrameInv, Arriving, Picked, PickedBy, Working,
      Actors, inputVars, lineVars, admitVars, runVars, peerVars, cancelVars
  <2>4. QED
    BY <2>1, <2>2, <2>3
<1>8. CASE CancelPeers
  <2>1. cur \in Requests
    BY <1>8 DEF CancelPeers, TypeOK, MainInv
  <2>2. /\ at = "peers" /\ at' = "read" /\ cur' = NoRequest
        /\ UNCHANGED <<inputVars, capacity, lineVars, admitVars, runVars, thread, todo, gate, told,
                       cancelVars>>
    BY <1>8 DEF CancelPeers
  <2>3. /\ pending' \subseteq Requests
        /\ peer' \in [Requests -> {"none", "running", "over"}]
        /\ response' \in [Requests -> {"open", "ended", "cut"}]
    <3>1. CASE cur \in pending
      <4>1. /\ pending' = pending \ {cur} /\ peer' = [peer EXCEPT ![cur] = "over"]
            /\ response' = [response EXCEPT ![cur] = "cut"]
        BY <1>8, <3>1 DEF CancelPeers
      <4>2. QED
        BY <4>1 DEF TypeOK
    <3>2. CASE cur \notin pending
      BY <1>8, <3>2 DEF CancelPeers, TypeOK, peerVars
    <3>3. QED
      BY <3>1, <3>2
  <2>4. TypeOK'
    BY <2>2, <2>3 DEF TypeOK, inputVars, lineVars, admitVars, runVars, cancelVars
  <2>5. MainInv' /\ PlaceInv' /\ RunningInv'
    BY <2>2, RequestAssumption DEF MainInv, PlaceInv, RunningInv, Arriving, Picked,
      PickedBy, Working, inputVars, lineVars, admitVars, runVars, cancelVars
  <2>6. ClaimInv' /\ AnsweredInv' /\ FrameInv'
    BY <2>2 DEF ClaimInv, AnsweredInv, FrameInv, Arriving, Picked, PickedBy, Working,
      inputVars, lineVars, admitVars, runVars
  <2>7. QED
    BY <2>4, <2>5, <2>6
<1>9. QED
  BY <1>1, <1>2, <1>3, <1>4, <1>5, <1>6, <1>7, <1>8 DEF Dispatch

(***************************************************************************)
(* Reading a frame.                                                        *)
(***************************************************************************)
LEMMA ReadInv ==
  ASSUME Inv, NEW r \in Requests, Read(r)
  PROVE  Inv'
<1> USE DEF Inv
<1>1. CASE ReadReq(r)
  <2>1. TypeOK'
    BY <1>1, RequestAssumption, PoolAssumption DEF ReadReq, Reads, TypeOK, MainInv,
      Actors, lineVars, admitVars, runVars, handlerVars, cancelVars, peerVars
  <2>2. MainInv' /\ PlaceInv' /\ RunningInv'
    BY <1>1, RequestAssumption DEF ReadReq, Reads, TypeOK, MainInv, PlaceInv, RunningInv,
      Arriving, Picked, PickedBy, Working, Actors, lineVars, admitVars, runVars,
      handlerVars, cancelVars, peerVars
  <2>3. ClaimInv' /\ AnsweredInv' /\ FrameInv'
    BY <1>1, RequestAssumption DEF ReadReq, Reads, TypeOK, MainInv, PlaceInv, RunningInv,
      ClaimInv, AnsweredInv, FrameInv, Arriving, Picked, PickedBy, Working, Actors,
      lineVars, admitVars, runVars, handlerVars, cancelVars, peerVars
  <2>4. QED
    BY <2>1, <2>2, <2>3
<1>2. CASE ReadInputEnd(r)
  <2>1. TypeOK'
    BY <1>2, RequestAssumption, PoolAssumption DEF ReadInputEnd, Reads, TypeOK, MainInv,
      Actors, mainVars, lineVars, admitVars, runVars, handlerVars, cancelVars, peerVars
  <2>2. MainInv' /\ PlaceInv' /\ RunningInv'
    BY <1>2, RequestAssumption DEF ReadInputEnd, Reads, TypeOK, MainInv, PlaceInv,
      RunningInv, Arriving, Picked, PickedBy, Working, Actors, mainVars, lineVars,
      admitVars, runVars, handlerVars, cancelVars, peerVars
  <2>3. ClaimInv' /\ AnsweredInv' /\ FrameInv'
    BY <1>2, RequestAssumption DEF ReadInputEnd, Reads, TypeOK, MainInv, PlaceInv,
      RunningInv, ClaimInv, AnsweredInv, FrameInv, Arriving, Picked, PickedBy, Working,
      Actors, mainVars, lineVars, admitVars, runVars, handlerVars, cancelVars, peerVars
  <2>4. QED
    BY <2>1, <2>2, <2>3
<1>3. CASE ReadCancel(r)
  <2>1. TypeOK'
    BY <1>3, RequestAssumption, PoolAssumption DEF ReadCancel, Reads, TypeOK, MainInv,
      Actors, inputVars, lineVars, admitVars, runVars, handlerVars, peerVars
  <2>2. MainInv' /\ PlaceInv' /\ RunningInv'
    BY <1>3, RequestAssumption DEF ReadCancel, Reads, TypeOK, MainInv, PlaceInv,
      RunningInv, Arriving, Picked, PickedBy, Working, Actors, inputVars, lineVars,
      admitVars, runVars, handlerVars, peerVars
  <2>3. ClaimInv' /\ AnsweredInv' /\ FrameInv'
    BY <1>3, RequestAssumption DEF ReadCancel, Reads, TypeOK, MainInv, PlaceInv,
      RunningInv, ClaimInv, AnsweredInv, FrameInv, Arriving, Picked, PickedBy, Working,
      Actors, inputVars, lineVars, admitVars, runVars, handlerVars, peerVars
  <2>4. QED
    BY <2>1, <2>2, <2>3
<1>4. CASE ReadOutputCredit(r)
  <2>1. TypeOK'
    BY <1>4, RequestAssumption, PoolAssumption DEF ReadOutputCredit, Reads, TypeOK,
      MainInv, Actors, mainVars, inputVars, lineVars, admitVars, runVars, peerVars,
      cancelVars
  <2>2. QED
    BY <1>4, <2>1, OperationGoesOn DEF ReadOutputCredit, Reads, Working, mainVars,
      inputVars, lineVars, admitVars, runVars, peerVars, cancelVars
<1>5. CASE ReadArgumentCredit(r)
  <2>1. TypeOK'
    BY <1>5, RequestAssumption, PoolAssumption DEF ReadArgumentCredit, Reads, TypeOK,
      MainInv, Actors, mainVars, inputVars, lineVars, admitVars, runVars, peerVars,
      cancelVars
  <2>2. QED
    BY <1>5, <2>1, OperationGoesOn DEF ReadArgumentCredit, Reads, Working, mainVars,
      inputVars, lineVars, admitVars, runVars, peerVars, cancelVars
<1>6. CASE ReadPeerEnd(r)
  <2>1. TypeOK'
    BY <1>6, RequestAssumption, PoolAssumption DEF ReadPeerEnd, Reads, TypeOK, MainInv,
      Actors, mainVars, inputVars, lineVars, admitVars, runVars, cancelVars
  <2>2. MainInv' /\ PlaceInv' /\ RunningInv'
    BY <1>6, RequestAssumption DEF ReadPeerEnd, Reads, TypeOK, MainInv, PlaceInv,
      RunningInv, Arriving, Picked, PickedBy, Working, Actors, mainVars, inputVars,
      lineVars, admitVars, runVars, cancelVars
  <2>3. ClaimInv' /\ AnsweredInv' /\ FrameInv'
    BY <1>6, RequestAssumption DEF ReadPeerEnd, Reads, TypeOK, MainInv, PlaceInv,
      RunningInv, ClaimInv, AnsweredInv, FrameInv, Arriving, Picked, PickedBy, Working,
      Actors, mainVars, inputVars, lineVars, admitVars, runVars, cancelVars
  <2>4. QED
    BY <2>1, <2>2, <2>3
<1>7. QED
  BY <1>1, <1>2, <1>3, <1>4, <1>5, <1>6 DEF Read

(***************************************************************************)
(* A handler's thread.                                                     *)
(***************************************************************************)
LEMMA HandlerInv ==
  ASSUME Inv, NEW r \in Requests, Handler(r)
  PROVE  Inv'
<1> USE DEF Inv
<1>1. CASE StartReading(r)
  <2>1. TypeOK'
    BY <1>1, RequestAssumption, PoolAssumption DEF StartReading, Moves, Alone, TypeOK,
      MainInv, Actors, mainVars, inputVars, cancelVars, lineVars, admitVars, runVars,
      peerVars
  <2>2. QED
    BY <1>1, <2>1, OperationGoesOn DEF StartReading, Moves, Alone, Working, mainVars,
      inputVars, cancelVars, lineVars, admitVars, runVars, peerVars
<1>2. CASE StopReading(r)
  <2>1. TypeOK'
    BY <1>2, RequestAssumption, PoolAssumption DEF StopReading, Moves, Alone, TypeOK,
      MainInv, Actors, mainVars, inputVars, cancelVars, lineVars, admitVars, runVars,
      peerVars
  <2>2. QED
    BY <1>2, <2>1, OperationGoesOn DEF StopReading, Moves, Alone, Working, mainVars,
      inputVars, cancelVars, lineVars, admitVars, runVars, peerVars
<1>3. CASE StartWriting(r)
  <2>1. TypeOK'
    BY <1>3, RequestAssumption, PoolAssumption DEF StartWriting, Moves, Alone, TypeOK,
      MainInv, Actors, mainVars, inputVars, cancelVars, lineVars, admitVars, runVars,
      peerVars
  <2>2. QED
    BY <1>3, <2>1, OperationGoesOn DEF StartWriting, Moves, Alone, Working, mainVars,
      inputVars, cancelVars, lineVars, admitVars, runVars, peerVars
<1>4. CASE GateCloses(r)
  <2>1. TypeOK'
    BY <1>4, RequestAssumption, PoolAssumption DEF GateCloses, Moves, Alone, TypeOK,
      MainInv, Actors, mainVars, inputVars, cancelVars, lineVars, admitVars, runVars,
      peerVars
  <2>2. QED
    BY <1>4, <2>1, OperationGoesOn DEF GateCloses, Moves, Alone, Working, mainVars,
      inputVars, cancelVars, lineVars, admitVars, runVars, peerVars
<1>5. CASE CallPeer(r)
  <2>1. UNCHANGED <<mainVars, inputVars, capacity, lineVars, admitVars, runVars, gate, response,
                    told, cancelVars>>
    BY <1>5 DEF CallPeer, Alone, lineVars
  <2>2. PICK p \in {"calling", "awaiting"} :
          thread[r] = "op" /\ thread' = [thread EXCEPT ![r] = p]
    BY <1>5 DEF CallPeer, Moves
  <2>3. /\ pending' = pending \cup {r} /\ peer' = [peer EXCEPT ![r] = "running"]
        /\ todo' = [todo EXCEPT ![r] = @ \ {"call"}]
    BY <1>5 DEF CallPeer
  <2>4. TypeOK'
    BY <2>1, <2>2, <2>3 DEF TypeOK, mainVars, inputVars, lineVars, admitVars, runVars,
      cancelVars
  <2>5. QED
    BY <2>1, <2>2, <2>4, OperationGoesOn DEF Working
<1>6. CASE ResponseEnds(r)
  <2>1. TypeOK'
    BY <1>6, RequestAssumption, PoolAssumption DEF ResponseEnds, Moves, Alone, TypeOK,
      MainInv, Actors, mainVars, inputVars, cancelVars, lineVars, admitVars, runVars,
      peerVars
  <2>2. QED
    BY <1>6, <2>1, OperationGoesOn DEF ResponseEnds, Moves, Alone, Working, mainVars,
      inputVars, cancelVars, lineVars, admitVars, runVars, peerVars
<1>7. CASE Return(r)
  <2>1. UNCHANGED <<mainVars, inputVars, capacity, lineVars, admitVars, running, todo, gate,
                    peerVars, told, cancelVars>>
    BY <1>7 DEF Return, Alone, lineVars
  <2>2. CASE claim[r] = "open"
    <3>1. /\ thread[r] = "op" /\ thread' = [thread EXCEPT ![r] = "ending"]
          /\ claim' = [claim EXCEPT ![r] = "handler"]
      BY <1>7, <2>2 DEF Return, Moves
    <3>2. TypeOK'
      BY <2>1, <3>1 DEF TypeOK, mainVars, inputVars, lineVars, admitVars, peerVars,
        cancelVars
    <3>3. MainInv' /\ PlaceInv' /\ RunningInv'
      BY <2>1, <3>1 DEF TypeOK, MainInv, PlaceInv, RunningInv, Arriving, Picked, PickedBy,
        Working, mainVars, inputVars, lineVars, admitVars, cancelVars
    <3>4. ClaimInv' /\ AnsweredInv' /\ FrameInv'
      BY <2>1, <2>2, <3>1 DEF TypeOK, ClaimInv, AnsweredInv, FrameInv, Arriving, Picked,
        PickedBy, Working, mainVars, inputVars, lineVars, admitVars
    <3>5. QED
      BY <3>2, <3>3, <3>4
  <2>3. CASE claim[r] # "open"
    <3>1. /\ thread[r] = "op" /\ thread' = [thread EXCEPT ![r] = "popping"]
          /\ claim' = claim
      BY <1>7, <2>3 DEF Return, Moves
    <3>2. TypeOK'
      BY <2>1, <3>1 DEF TypeOK, mainVars, inputVars, lineVars, admitVars, peerVars,
        cancelVars
    <3>3. MainInv' /\ PlaceInv' /\ RunningInv'
      BY <2>1, <3>1 DEF TypeOK, MainInv, PlaceInv, RunningInv, Arriving, Picked, PickedBy,
        Working, mainVars, inputVars, lineVars, admitVars, cancelVars
    <3>4. ClaimInv' /\ AnsweredInv' /\ FrameInv'
      BY <2>1, <2>3, <3>1 DEF TypeOK, ClaimInv, AnsweredInv, FrameInv, Arriving, Picked,
        PickedBy, Working, mainVars, inputVars, lineVars, admitVars
    <3>5. QED
      BY <3>2, <3>3, <3>4
  <2>4. QED
    BY <2>2, <2>3
<1>8. CASE WriteTerminal(r)
  <2>1. WrittenTo(r, "ended") /\ "ended" \in Terminals
    BY <1>8, WriteFacts DEF WriteTerminal, Frames, Terminals
  <2>2. /\ thread[r] = "ending" /\ thread' = [thread EXCEPT ![r] = "popping"]
        /\ UNCHANGED <<mainVars, inputVars, capacity, lineVars, admitVars, runVars, todo, gate,
                       peerVars, cancelVars>>
    BY <1>8 DEF WriteTerminal, Moves, Alone, lineVars
  <2>3. TypeOK'
    BY <2>1, <2>2 DEF WrittenTo, Frames, TypeOK, mainVars, inputVars, lineVars, admitVars,
      runVars, peerVars, cancelVars
  <2>4. MainInv' /\ PlaceInv' /\ RunningInv'
    BY <2>2 DEF TypeOK, MainInv, PlaceInv, RunningInv, Arriving, Picked, PickedBy,
      Working, mainVars, inputVars, lineVars, admitVars, runVars, cancelVars
  <2>5. ClaimInv' /\ AnsweredInv'
    BY <2>1, <2>2 DEF WrittenTo, TypeOK, PlaceInv, ClaimInv, AnsweredInv, Arriving,
      Picked, PickedBy, Working, mainVars, inputVars, lineVars, admitVars, runVars
  <2>6. FrameInv'
    <3>1. told'[r][Len(told'[r])] \in Terminals /\ ~HasEnded(told[r])
      BY <2>1, <2>2 DEF WrittenTo, AnsweredInv
    <3>2. ASSUME NEW q \in Requests, NEW i \in DOMAIN told'[q]
          PROVE  /\ told'[q][i] = "ended" => claim'[q] = "handler"
                 /\ told'[q][i] = "cancelled" => claim'[q] = "cancel" \/ thread'[q] = "none"
      <4>1. CASE q # r
        BY <2>1, <2>2, <4>1 DEF WrittenTo, TypeOK, FrameInv, runVars
      <4>2. CASE q = r
        BY <2>1, <2>2, <4>2 DEF WrittenTo, TypeOK, ClaimInv, FrameInv, runVars
      <4>3. QED
        BY <4>1, <4>2
    <3>3. \A q \in Requests : HasEnded(told'[q]) => told'[q][Len(told'[q])] \in Terminals
      BY <2>1, <3>1 DEF WrittenTo, FrameInv
    <3>4. QED
      BY <3>2, <3>3 DEF FrameInv
  <2>7. QED
    BY <2>3, <2>4, <2>5, <2>6
<1>9. CASE PopRunning(r)
  <2>1. /\ thread[r] = "popping" /\ running' = running \ {r}
        /\ thread' = [thread EXCEPT ![r] = IF claim[r] = "cancel" THEN "answering" ELSE "releasing"]
        /\ UNCHANGED <<mainVars, inputVars, capacity, lineVars, admitVars, claim, todo, gate,
                       peerVars, told, cancelVars>>
    BY <1>9 DEF PopRunning, Moves, Alone, lineVars
  <2>2. TypeOK'
    BY <2>1 DEF TypeOK, mainVars, inputVars, lineVars, admitVars, peerVars, cancelVars
  <2>3. MainInv' /\ PlaceInv' /\ RunningInv'
    BY <2>1 DEF TypeOK, MainInv, PlaceInv, RunningInv, Arriving, Picked, PickedBy,
      Working, mainVars, inputVars, lineVars, admitVars, cancelVars
  <2>4. ClaimInv' /\ AnsweredInv' /\ FrameInv'
    BY <2>1 DEF TypeOK, ClaimInv, AnsweredInv, FrameInv, Arriving, Picked, PickedBy,
      Working, mainVars, inputVars, lineVars, admitVars
  <2>5. QED
    BY <2>2, <2>3, <2>4
<1>10. CASE AnswerCancel(r)
  <2>1. WrittenTo(r, "cancelled") /\ "cancelled" \in Terminals
    BY <1>10, WriteFacts DEF AnswerCancel, Frames, Terminals
  <2>2. /\ thread[r] = "answering" /\ thread' = [thread EXCEPT ![r] = "releasing"]
        /\ UNCHANGED <<mainVars, inputVars, capacity, lineVars, admitVars, runVars, todo, gate,
                       peerVars, cancelVars>>
    BY <1>10 DEF AnswerCancel, Moves, Alone, lineVars
  <2>3. TypeOK'
    BY <2>1, <2>2 DEF WrittenTo, Frames, TypeOK, mainVars, inputVars, lineVars, admitVars,
      runVars, peerVars, cancelVars
  <2>4. MainInv' /\ PlaceInv' /\ RunningInv'
    BY <2>2 DEF TypeOK, MainInv, PlaceInv, RunningInv, Arriving, Picked, PickedBy,
      Working, mainVars, inputVars, lineVars, admitVars, runVars, cancelVars
  <2>5. ClaimInv' /\ AnsweredInv'
    BY <2>1, <2>2 DEF WrittenTo, TypeOK, PlaceInv, ClaimInv, AnsweredInv, Arriving,
      Picked, PickedBy, Working, mainVars, inputVars, lineVars, admitVars, runVars
  <2>6. FrameInv'
    <3>1. told'[r][Len(told'[r])] \in Terminals /\ ~HasEnded(told[r])
      BY <2>1, <2>2 DEF WrittenTo, AnsweredInv
    <3>2. ASSUME NEW q \in Requests, NEW i \in DOMAIN told'[q]
          PROVE  /\ told'[q][i] = "ended" => claim'[q] = "handler"
                 /\ told'[q][i] = "cancelled" => claim'[q] = "cancel" \/ thread'[q] = "none"
      <4>1. CASE q # r
        BY <2>1, <2>2, <4>1 DEF WrittenTo, TypeOK, FrameInv, runVars
      <4>2. CASE q = r
        BY <2>1, <2>2, <4>2 DEF WrittenTo, TypeOK, ClaimInv, FrameInv, runVars
      <4>3. QED
        BY <4>1, <4>2
    <3>3. \A q \in Requests : HasEnded(told'[q]) => told'[q][Len(told'[q])] \in Terminals
      BY <2>1, <3>1 DEF WrittenTo, FrameInv
    <3>4. QED
      BY <3>2, <3>3 DEF FrameInv
  <2>7. QED
    BY <2>3, <2>4, <2>5, <2>6
<1>11. CASE ReleaseSlots(r)
  <2>1. /\ thread[r] = "releasing" /\ thread' = [thread EXCEPT ![r] = "draining"]
        /\ admitting' = [admitting EXCEPT ![r] = "next"]
        /\ UNCHANGED <<mainVars, inputVars, capacity, inLine, ahead, picked, runVars, todo, peerVars,
                       told, cancelVars>>
    BY <1>11 DEF ReleaseSlots, Moves, Alone
  <2>2. active' \in [PoolNames -> Nat] /\ gate' \in [Requests -> {"none", "open", "closed"}]
    BY <1>11, ReleaseType DEF ReleaseSlots, CloseGate, TypeOK
  <2>3. admitting[r] = "no"
    BY <2>1 DEF MainInv
  <2>4. TypeOK'
    BY <2>1, <2>2, <2>3 DEF TypeOK, Actors, mainVars, inputVars, runVars, peerVars,
      cancelVars
  <2>5. MainInv' /\ PlaceInv' /\ RunningInv'
    BY <2>1, RequestAssumption DEF TypeOK, MainInv, PlaceInv, RunningInv, Arriving,
      Picked, PickedBy, Working, Actors, mainVars, inputVars, runVars, cancelVars
  <2>6. ClaimInv' /\ AnsweredInv' /\ FrameInv'
    BY <2>1 DEF TypeOK, ClaimInv, AnsweredInv, FrameInv, Arriving, Picked, PickedBy,
      Working, mainVars, inputVars, runVars
  <2>7. QED
    BY <2>4, <2>5, <2>6
<1>12. QED
  BY <1>1, <1>2, <1>3, <1>4, <1>5, <1>6, <1>7, <1>8, <1>9, <1>10, <1>11 DEF Handler

(***************************************************************************)
(* A thread that is starting somebody has a request in hand.               *)
(***************************************************************************)
LEMMA PickedIsRequest ==
  ASSUME TypeOK, NEW a \in Actors, admitting[a] \in {"log", "spawn"}
  PROVE  picked[a] \in Requests
<1>1. picked[a] # NoRequest
  BY DEF TypeOK
<1>2. QED
  BY <1>1 DEF TypeOK

(***************************************************************************)
(* Draining the line.                                                      *)
(***************************************************************************)
LEMMA AdmitInv ==
  ASSUME Inv, NEW a \in Actors, AdmitWaiting(a)
  PROVE  Inv'
<1> USE DEF Inv
<1>1. CASE AdmitNext(a)
  <2>1. UNCHANGED <<inputVars, capacity, runVars, todo, gate, peerVars, told, cancelVars>>
    BY <1>1 DEF AdmitNext
  <2>2. ASSUME NEW r \in inLine, LeavesLineWithSlots(r),
               admitting[a] = "next", admitting' = [admitting EXCEPT ![a] = "log"],
               picked' = [picked EXCEPT ![a] = r], UNCHANGED <<mainVars, thread>>
        PROVE  Inv'
    <3>1. r \in Requests /\ picked[a] = NoRequest
      BY <2>2 DEF TypeOK
    <3>2. /\ active' \in [PoolNames -> Nat] /\ ahead' \in [Requests -> SUBSET Requests]
          /\ inLine' = inLine \ {r}
      BY <2>2, TakeType DEF LeavesLineWithSlots, Leave, TypeOK
    <3>3. TypeOK'
      BY <2>1, <2>2, <3>1, <3>2, RequestAssumption DEF TypeOK, mainVars, inputVars,
        runVars, peerVars, cancelVars
    <3>4. MainInv' /\ RunningInv'
      BY <2>1, <2>2 DEF TypeOK, MainInv, RunningInv, Actors, Working, mainVars, inputVars,
        runVars, cancelVars
    <3>5. PlaceInv'
      BY <2>1, <2>2, <3>1, <3>2, RequestAssumption DEF TypeOK, PlaceInv, Arriving, Picked,
        PickedBy, mainVars, inputVars
    <3>6. ClaimInv' /\ AnsweredInv' /\ FrameInv'
      BY <2>1, <2>2, <3>1, <3>2 DEF TypeOK, ClaimInv, AnsweredInv, FrameInv, Arriving,
        Picked, PickedBy, Working, mainVars, inputVars, runVars
    <3>7. QED
      BY <3>3, <3>4, <3>5, <3>6
  <2>3. ASSUME admitting[a] = "next", admitting' = [admitting EXCEPT ![a] = "no"],
               at' = IF a = Main THEN "read" ELSE at,
               cur' = IF a = Main THEN NoRequest ELSE cur,
               thread' = [r \in Requests |-> IF r = a THEN "gone" ELSE thread[r]],
               UNCHANGED <<lineVars, picked>>
        PROVE  Inv'
    <3>1. a \in Requests => thread[a] = "draining"
      BY <2>3 DEF MainInv
    <3>2. a = Main => at = "admit" /\ cur = NoRequest
      BY <2>3 DEF MainInv
    <3>3. TypeOK'
      BY <2>1, <2>3, <3>2 DEF TypeOK, inputVars, lineVars, runVars, peerVars, cancelVars
    <3>4. MainInv' /\ RunningInv'
      BY <2>1, <2>3, <3>1, <3>2, RequestAssumption DEF TypeOK, MainInv, RunningInv,
        Actors, Working, inputVars, runVars, cancelVars
    <3>5. PlaceInv'
      BY <2>1, <2>3, <3>1, <3>2 DEF TypeOK, PlaceInv, Arriving, Picked, PickedBy,
        inputVars, lineVars
    <3>6. ClaimInv' /\ AnsweredInv' /\ FrameInv'
      BY <2>1, <2>3, <3>1, <3>2 DEF TypeOK, ClaimInv, AnsweredInv, FrameInv, Arriving,
        Picked, PickedBy, Working, inputVars, lineVars, runVars
    <3>7. QED
      BY <3>3, <3>4, <3>5, <3>6
  <2>4. QED
    BY <1>1, <2>2, <2>3 DEF AdmitNext
<1>2. CASE WriteDequeued(a)
  <2>1. /\ admitting[a] = "log" /\ admitting' = [admitting EXCEPT ![a] = "spawn"]
        /\ UNCHANGED <<mainVars, inputVars, capacity, lineVars, picked, runVars, handlerVars,
                       cancelVars>>
    BY <1>2 DEF WriteDequeued
  <2>2. picked[a] \in Requests
    BY <2>1, PickedIsRequest
  <2>3. WrittenTo(picked[a], "dequeued") /\ "dequeued" \notin Terminals
    BY <1>2, <2>2, WriteFacts DEF WriteDequeued, Frames, Terminals
  <2>4. TypeOK'
    BY <2>1, <2>3 DEF WrittenTo, Frames, TypeOK, mainVars, inputVars, lineVars, runVars,
      handlerVars, peerVars, cancelVars
  <2>5. MainInv' /\ PlaceInv' /\ RunningInv'
    BY <2>1, RequestAssumption DEF TypeOK, MainInv, PlaceInv, RunningInv, Arriving,
      Picked, PickedBy, Working, Actors, mainVars, inputVars, lineVars, runVars,
      handlerVars, cancelVars
  <2>6. \A r \in Requests : HasEnded(told'[r]) <=> HasEnded(told[r])
    BY <2>3 DEF WrittenTo
  <2>7. ClaimInv' /\ AnsweredInv'
    BY <2>1, <2>6 DEF ClaimInv, AnsweredInv, Arriving, Picked, PickedBy, Working,
      mainVars, inputVars, lineVars, runVars, handlerVars
  <2>8. FrameInv'
    BY <2>1, <2>3, <2>6 DEF WrittenTo, FrameInv, Terminals, runVars, handlerVars
  <2>9. QED
    BY <2>4, <2>5, <2>7, <2>8
<1>3. CASE SpawnPicked(a)
  <2>1. admitting[a] = "spawn" /\ picked[a] \in Requests
    BY <1>3, PickedIsRequest DEF SpawnPicked
  <2>2. PICK r \in Requests : r = picked[a]
    BY <2>1
  <2>3. admitting[a] = "spawn" /\ r \in Requests /\ PickedBy(r, a) /\ Picked(r)
    BY <2>1, <2>2 DEF Picked, PickedBy
  <2>4. /\ thread' = [thread EXCEPT ![r] = "op"] /\ claim' = [claim EXCEPT ![r] = "open"]
        /\ running' = running \cup {r}
        /\ admitting' = [admitting EXCEPT ![a] = "next"]
        /\ picked' = [picked EXCEPT ![a] = NoRequest]
        /\ UNCHANGED <<mainVars, inputVars, capacity, lineVars, todo, gate, peerVars, told,
                       cancelVars>>
    BY <1>3, <2>2 DEF SpawnPicked, Spawn
  <2>5. thread[r] = "none" /\ ~Arriving(r) /\ r \notin inLine /\ ~HasEnded(told[r])
    BY <2>3 DEF PlaceInv, AnsweredInv
  <2>6. \A b \in Actors : picked[b] = r => b = a
    BY <2>3 DEF PlaceInv, PickedBy
  <2>7. TypeOK'
    BY <2>3, <2>4 DEF TypeOK, mainVars, inputVars, lineVars, peerVars, cancelVars
  <2>8. MainInv' /\ RunningInv'
    BY <2>3, <2>4, <2>5 DEF TypeOK, MainInv, RunningInv, Actors, Working, mainVars,
      inputVars, cancelVars
  <2>9. \A b \in Actors : picked'[b] = IF b = a THEN NoRequest ELSE picked[b]
    BY <2>4 DEF TypeOK
  <2>10. \A q \in Requests, b \in Actors : PickedBy(q, b)' => PickedBy(q, b) /\ b # a
    BY <2>9, RequestAssumption DEF PickedBy
  <2>11. ~Picked(r)'
    BY <2>10, <2>6 DEF Picked, PickedBy
  <2>12. \A q \in Requests : Picked(q)' => Picked(q)
    BY <2>10 DEF Picked
  <2>13. PlaceInv'
    <3> SUFFICES ASSUME NEW q \in Requests
                 PROVE  /\ q \in inLine' => thread'[q] = "none" /\ ~Arriving(q)' /\ ~Picked(q)'
                        /\ Arriving(q)' => thread'[q] = "none" /\ ~Picked(q)'
                        /\ Picked(q)' => thread'[q] = "none"
                        /\ \A b, c \in Actors : PickedBy(q, b)' /\ PickedBy(q, c)' => b = c
                        /\ input'[q] = "none" =>
                             q \notin inLine' /\ thread'[q] = "none" /\ ~Picked(q)'
      BY DEF PlaceInv
    <3>1. Arriving(q)' <=> Arriving(q)
      BY <2>4 DEF Arriving, mainVars
    <3>2. inLine' = inLine /\ input' = input
      BY <2>4 DEF inputVars, lineVars
    <3>3. CASE q = r
      BY <2>3, <2>5, <2>10, <2>11, <3>1, <3>2, <3>3 DEF PlaceInv
    <3>4. CASE q # r
      <4>1. thread'[q] = thread[q]
        BY <2>3, <2>4, <3>4 DEF TypeOK
      <4>2. QED
        BY <2>10, <2>12, <3>1, <3>2, <4>1 DEF PlaceInv
    <3>5. QED
      BY <3>3, <3>4
  <2>14. ClaimInv' /\ AnsweredInv'
    BY <2>3, <2>4, <2>5, <2>11, <2>12 DEF TypeOK, ClaimInv, AnsweredInv, Arriving,
      Working, mainVars, inputVars, lineVars
  <2>15. FrameInv'
    BY <2>3, <2>4, <2>5 DEF TypeOK, FrameInv, HasEnded, Terminals
  <2>16. QED
    BY <2>7, <2>8, <2>13, <2>14, <2>15
<1>4. QED
  BY <1>1, <1>2, <1>3 DEF AdmitWaiting

(***************************************************************************)
(* A change of the limits.                                                 *)
(***************************************************************************)
LEMMA LimitsInv ==
  ASSUME Inv, NEW limits \in Limits, ReadHeartbeat(limits) \/ Report(limits)
  PROVE  Inv'
<1> USE DEF Inv
<1>1. CASE ReadHeartbeat(limits)
  <2>1. TypeOK'
    BY <1>1, RequestAssumption, PoolAssumption DEF ReadHeartbeat, Reads, TypeOK, MainInv,
      Actors, inputVars, lineVars, runVars, handlerVars, cancelVars, peerVars
  <2>2. MainInv' /\ PlaceInv' /\ RunningInv'
    BY <1>1, RequestAssumption DEF ReadHeartbeat, Reads, TypeOK, MainInv, PlaceInv,
      RunningInv, Arriving, Picked, PickedBy, Working, Actors, inputVars, lineVars,
      runVars, handlerVars, cancelVars, peerVars
  <2>3. ClaimInv' /\ AnsweredInv' /\ FrameInv'
    BY <1>1, RequestAssumption DEF ReadHeartbeat, Reads, TypeOK, MainInv, PlaceInv,
      RunningInv, ClaimInv, AnsweredInv, FrameInv, Arriving, Picked, PickedBy, Working,
      Actors, inputVars, lineVars, runVars, handlerVars, cancelVars, peerVars
  <2>4. QED
    BY <2>1, <2>2, <2>3
<1>2. CASE Report(limits)
  <2>1. TypeOK'
    BY <1>2, RequestAssumption, PoolAssumption DEF Report, TypeOK, MainInv, Actors,
      mainVars, inputVars, lineVars, runVars, handlerVars, cancelVars, peerVars
  <2>2. MainInv' /\ PlaceInv' /\ RunningInv'
    BY <1>2, RequestAssumption DEF Report, TypeOK, MainInv, PlaceInv, RunningInv,
      Arriving, Picked, PickedBy, Working, Actors, mainVars, inputVars, lineVars, runVars,
      handlerVars, cancelVars, peerVars
  <2>3. ClaimInv' /\ AnsweredInv' /\ FrameInv'
    BY <1>2, RequestAssumption DEF Report, TypeOK, MainInv, PlaceInv, RunningInv,
      ClaimInv, AnsweredInv, FrameInv, Arriving, Picked, PickedBy, Working, Actors,
      mainVars, inputVars, lineVars, runVars, handlerVars, cancelVars, peerVars
  <2>4. QED
    BY <2>1, <2>2, <2>3
<1>3. QED
  BY <1>1, <1>2

(***************************************************************************)
(* The end of the connection.                                              *)
(***************************************************************************)
LEMMA EofInv ==
  ASSUME Inv, ReadEof
  PROVE  Inv'
<1> USE DEF Inv
<1>1. at = "read" /\ at' = "closed"
  BY DEF ReadEof, Reads
<1>2. TypeOK'
  BY <1>1 DEF ReadEof, TypeOK, inputVars, lineVars, admitVars, runVars, handlerVars,
    peerVars, cancelVars
<1>3. MainInv' /\ PlaceInv' /\ RunningInv'
  BY <1>1 DEF ReadEof, MainInv, PlaceInv, RunningInv, Arriving, Picked, PickedBy,
    inputVars, lineVars, admitVars, runVars, handlerVars, cancelVars
<1>4. ClaimInv' /\ AnsweredInv' /\ FrameInv'
  BY <1>1 DEF ReadEof, ClaimInv, AnsweredInv, FrameInv, Arriving, Picked, PickedBy,
    inputVars, lineVars, admitVars, runVars, handlerVars
<1>5. QED
  BY <1>2, <1>3, <1>4

(***************************************************************************)
(* Initially, and after every step.                                        *)
(***************************************************************************)
LEMMA InitInv == Init => Inv
<1> SUFFICES ASSUME Init PROVE Inv
  OBVIOUS
<1>1. /\ at = "read" /\ cur = NoRequest /\ inLine = {} /\ running = {}
      /\ \A a \in Actors : admitting[a] = "no" /\ picked[a] = NoRequest
      /\ \A r \in Requests : /\ input[r] = "none" /\ thread[r] = "none"
                             /\ told[r] = << >> /\ claim[r] = "open"
  BY DEF Init
<1>2. TypeOK
  <2>1. capacity \in [PoolNames -> Nat] /\ active \in [PoolNames -> Nat]
    BY PoolAssumption DEF Init
  <2>2. told \in [Requests -> Seq({"queued", "dequeued"} \cup Terminals)]
    BY DEF Init
  <2>3. todo \in [Requests -> SUBSET {"read", "write", "call"}]
    BY RequestAssumption DEF Init
  <2>4. QED
    BY <1>1, <2>1, <2>2, <2>3 DEF Init, TypeOK
<1>3. \A r \in Requests : ~HasEnded(told[r])
  BY <1>1 DEF HasEnded
<1>4. MainInv /\ PlaceInv /\ RunningInv /\ ClaimInv
  BY <1>1, RequestAssumption DEF MainInv, PlaceInv, RunningInv, ClaimInv, Arriving,
    Picked, PickedBy, Working, Actors
<1>5. AnsweredInv /\ FrameInv
  BY <1>1, <1>3 DEF AnsweredInv, FrameInv, Working
<1>6. QED
  BY <1>2, <1>4, <1>5 DEF Inv

LEMMA NextInv == Inv /\ [Next]_vars => Inv'
<1> SUFFICES ASSUME Inv, [Next]_vars PROVE Inv'
  OBVIOUS
<1>1. ASSUME NEW r \in Requests, Read(r) \/ Handler(r) PROVE Inv'
  BY <1>1, ReadInv, HandlerInv
<1>2. CASE UNCHANGED vars
  BY <1>2 DEF Inv, TypeOK, MainInv, PlaceInv, RunningInv, ClaimInv, AnsweredInv, FrameInv,
    Arriving, Picked, PickedBy, HasEnded, vars, mainVars, inputVars, lineVars, admitVars,
    runVars, handlerVars, peerVars, cancelVars
<1>3. QED
  BY <1>1, <1>2, DispatchInv, EofInv, AdmitInv, LimitsInv DEF Next

(***************************************************************************)
(* The state is well formed (cartridge_runtime.py:4336-4890).              *)
(***************************************************************************)
THEOREM TypeCorrect == Spec => []TypeOK
<1>1. Inv => TypeOK
  BY DEF Inv
<1>2. QED
  BY <1>1, InitInv, NextInv, PTL DEF Spec

(***************************************************************************)
(* A request's terminal is the frame of whoever claimed it, and a handler  *)
(* that is over has left one (cartridge_runtime.py:1232-1262, 4457-4475,   *)
(* 4815-4819).  By the invariant a claim never changes hands once a frame  *)
(* of its owner is written, and no frame follows a terminal.               *)
(***************************************************************************)
THEOREM TerminalBelongsToClaimant == Spec => []TerminalIsClaimants
<1>1. Inv => TerminalIsClaimants
  <2> SUFFICES ASSUME Inv, NEW r \in Requests, thread[r] \in {"releasing", "draining", "gone"}
               PROVE  told[r] # << >> /\ told[r][Len(told[r])] \in Terminals
    BY DEF TerminalIsClaimants, Inv, FrameInv
  <2>1. HasEnded(told[r])
    BY DEF Inv, AnsweredInv
  <2>2. QED
    BY <2>1 DEF Inv, FrameInv, HasEnded
<1>2. QED
  BY <1>1, InitInv, NextInv, PTL DEF Spec
-----------------------------------------------------------------------------
(***************************************************************************)
(* Only the two starts of a handler give a request a thread.               *)
(***************************************************************************)
LEMMA OnlyStartsMakeThreads ==
  ASSUME Inv, Next, NEW r \in Requests, thread[r] = "none", thread'[r] # "none"
  PROVE  thread'[r] = "op"
<1> USE DEF Inv
<1>1. ASSUME NEW q \in Requests, Read(q) \/ Handler(q)
      PROVE  thread'[r] = "none"
  <2>1. CASE Read(q)
    BY <2>1 DEF Read, ReadReq, ReadInputEnd, ReadCancel, ReadOutputCredit,
      ReadArgumentCredit, ReadPeerEnd, TypeOK, handlerVars
  <2>2. CASE Handler(q)
    BY <2>2 DEF Handler, StartReading, StopReading, StartWriting, GateCloses, CallPeer,
      ResponseEnds, Return, WriteTerminal, PopRunning, AnswerCancel, ReleaseSlots, Moves,
      TypeOK
  <2>3. QED
    BY <1>1, <2>1, <2>2
<1>2. CASE Dispatch
  BY <1>2 DEF Dispatch, Arrive, SpawnArrived, Spawn, WriteQueued, TakeFromLine,
    ClaimForCancel, CutInput, CancelGates, CancelPeers, TypeOK, handlerVars
<1>3. ASSUME NEW a \in Actors, AdmitWaiting(a)
      PROVE  thread'[r] \in {"none", "op"}
  <2>1. a = r => admitting[a] = "no"
    BY DEF MainInv
  <2>2. CASE AdmitNext(a)
    BY <2>1, <2>2 DEF AdmitNext, TypeOK
  <2>3. CASE WriteDequeued(a) \/ SpawnPicked(a)
    BY <2>3 DEF WriteDequeued, SpawnPicked, Spawn, TypeOK, handlerVars
  <2>4. QED
    BY <1>3, <2>2, <2>3 DEF AdmitWaiting
<1>4. ASSUME NEW limits \in Limits, ReadEof \/ ReadHeartbeat(limits) \/ Report(limits)
      PROVE  thread' = thread
  BY <1>4 DEF ReadEof, ReadHeartbeat, Report, handlerVars
<1>5. QED
  BY <1>1, <1>2, <1>3, <1>4, PoolAssumption DEF Next

(***************************************************************************)
(* A request that was answered is never started                            *)
(* (cartridge_runtime.py:4429-4446, 4789-4805).                            *)
(***************************************************************************)
THEOREM StartsUnanswered == Spec => NeverStartsAnswered
<1>1. ASSUME Inv, [Next]_vars
      PROVE  [\A r \in Requests :
                thread[r] = "none" /\ thread'[r] # "none" => ~HasEnded(told'[r])]_vars
  <2> SUFFICES ASSUME Next, NEW r \in Requests, thread[r] = "none", thread'[r] # "none"
               PROVE  ~HasEnded(told'[r])
    BY <1>1
  <2>1. Inv' /\ thread'[r] = "op"
    BY <1>1, NextInv, OnlyStartsMakeThreads
  <2>2. QED
    BY <2>1 DEF Inv, AnsweredInv, Working
<1>2. QED
  BY <1>1, InitInv, NextInv, PTL DEF Spec, NeverStartsAnswered
-----------------------------------------------------------------------------
(***************************************************************************)
(* What a step does to the slots.                                          *)
(***************************************************************************)
Enters(r) ==
  /\ r \in Requests \ Holders
  /\ Holders' = Holders \cup {r}
  /\ HasRoom(capacity, active, Chain[r])
  /\ active' = Take(active, Chain[r])
  /\ capacity' = capacity

Leaves(r) ==
  /\ r \in Holders
  /\ Holders' = Holders \ {r}
  /\ active' = Release(active, Chain[r])
  /\ capacity' = capacity

Stays == Holders' = Holders /\ active' = active

SlotStep == Stays \/ \E r \in Requests : Enters(r) \/ Leaves(r)

LEMMA DispatchMovesSlots ==
  ASSUME Inv, Dispatch
  PROVE  SlotStep
<1> USE DEF Inv
<1>1. CASE Arrive
  <2>1. cur \in Requests /\ cur' = cur /\ UNCHANGED <<capacity, picked, thread>>
    BY <1>1 DEF Arrive, TypeOK, MainInv, admitVars, handlerVars
  <2>2. cur \notin Holders
    BY <1>1, <2>1 DEF Arrive, PlaceInv, Arriving, Picked, PickedBy, Holders
  <2>3. CASE at' = "spawn"
    <3>1. HasRoom(capacity, active, Chain[cur]) /\ active' = Take(active, Chain[cur])
      BY <1>1, <2>3 DEF Arrive, IsNextUp
    <3>2. Holders' = Holders \cup {cur}
      BY <1>1, <2>1, <2>3 DEF Arrive, Holders
    <3>3. QED
      BY <2>1, <2>2, <3>1, <3>2 DEF Enters, SlotStep
  <2>4. CASE at' # "spawn"
    <3>1. active' = active /\ at # "spawn"
      BY <1>1, <2>4 DEF Arrive
    <3>2. Holders' = Holders
      BY <2>1, <2>4, <3>1 DEF Holders
    <3>3. QED
      BY <3>1, <3>2 DEF Stays, SlotStep
  <2>5. QED
    BY <2>3, <2>4
<1>2. CASE SpawnArrived
  <2>1. cur \in Requests /\ at' # "spawn" /\ UNCHANGED <<active, picked>>
    BY <1>2 DEF SpawnArrived, TypeOK, MainInv, lineVars, admitVars
  <2>2. thread' = [thread EXCEPT ![cur] = "op"]
    BY <1>2 DEF SpawnArrived, Spawn
  <2>3. Holders' = Holders
    BY <1>2, <2>1, <2>2 DEF SpawnArrived, TypeOK, Holders
  <2>4. QED
    BY <2>1, <2>3 DEF Stays, SlotStep
<1>3. CASE WriteQueued \/ TakeFromLine \/ ClaimForCancel \/ CutInput \/ CancelGates \/ CancelPeers
  <2>1. at # "spawn" /\ at' # "spawn" /\ UNCHANGED <<active, picked, thread>>
    BY <1>3 DEF WriteQueued, TakeFromLine, ClaimForCancel, CutInput, CancelGates,
      CancelPeers, lineVars, admitVars, handlerVars
  <2>2. Holders' = Holders
    BY <2>1 DEF Holders
  <2>3. QED
    BY <2>1, <2>2 DEF Stays, SlotStep
<1>4. QED
  BY <1>1, <1>2, <1>3 DEF Dispatch

LEMMA ReadMovesNoSlot ==
  ASSUME Inv, NEW r \in Requests, Read(r)
  PROVE  Stays
<1> USE DEF Inv
<1>1. at = "read" /\ at' # "spawn" /\ UNCHANGED <<active, picked>>
  BY DEF Read, ReadReq, ReadInputEnd, ReadCancel, ReadOutputCredit, ReadArgumentCredit,
    ReadPeerEnd, Reads, mainVars, lineVars, admitVars
<1>2. \A q \in Requests : thread'[q] = thread[q] \/ {thread[q], thread'[q]} \subseteq Working
  BY DEF Read, ReadReq, ReadInputEnd, ReadCancel, ReadOutputCredit, ReadArgumentCredit,
    ReadPeerEnd, TypeOK, Working, handlerVars
<1>3. Holders' = Holders
  BY <1>1, <1>2 DEF Holders, Working
<1>4. QED
  BY <1>1, <1>3 DEF Stays

LEMMA HandlerMovesSlots ==
  ASSUME Inv, NEW r \in Requests, Handler(r)
  PROVE  SlotStep
<1> USE DEF Inv
<1>1. CASE ReleaseSlots(r)
  <2>1. /\ thread[r] = "releasing" /\ thread' = [thread EXCEPT ![r] = "draining"]
        /\ UNCHANGED <<at, cur, picked, capacity>> /\ active' = Release(active, Chain[r])
    BY <1>1 DEF ReleaseSlots, Moves, Alone, mainVars
  <2>2. ~(at = "spawn" /\ cur = r) /\ \A a \in Actors : picked[a] # r
    BY <2>1 DEF PlaceInv, Arriving, Picked, PickedBy
  <2>3. r \in Holders /\ Holders' = Holders \ {r}
    BY <2>1, <2>2 DEF Holders, TypeOK
  <2>4. QED
    BY <2>1, <2>3 DEF Leaves, SlotStep
<1>2. CASE ~ReleaseSlots(r)
  <2>1. UNCHANGED <<at, cur, picked, active>>
    BY <1>2 DEF Handler, StartReading, StopReading, StartWriting, GateCloses, CallPeer,
      ResponseEnds, Return, WriteTerminal, PopRunning, AnswerCancel, Alone, mainVars,
      admitVars
  <2>2. \E from, to \in Working \cup {"ending", "popping", "answering", "releasing"} :
          Moves(r, from, to)
    BY <1>2 DEF Handler, StartReading, StopReading, StartWriting, GateCloses, CallPeer,
      ResponseEnds, Return, WriteTerminal, PopRunning, AnswerCancel, Working
  <2>3. Holders' = Holders
    BY <2>1, <2>2 DEF Moves, Working, Holders, TypeOK
  <2>4. QED
    BY <2>1, <2>3 DEF Stays, SlotStep
<1>3. QED
  BY <1>1, <1>2

LEMMA AdmitMovesSlots ==
  ASSUME Inv, NEW a \in Actors, AdmitWaiting(a)
  PROVE  SlotStep
<1> USE DEF Inv
<1>1. ASSUME NEW r \in inLine, IsNextUp(r, inLine, ahead, Chain, capacity, active),
             LeavesLineWithSlots(r), admitting[a] = "next",
             picked' = [picked EXCEPT ![a] = r], UNCHANGED <<mainVars, thread, capacity>>
      PROVE  SlotStep
  <2>1. r \in Requests /\ picked[a] = NoRequest
    BY <1>1 DEF TypeOK
  <2>2. r \notin Holders
    BY <1>1, <2>1 DEF PlaceInv, Arriving, Picked, PickedBy, Holders
  <2>3. \A b \in Actors : picked'[b] = IF b = a THEN r ELSE picked[b]
    BY <1>1 DEF TypeOK
  <2>4. Holders' = Holders \cup {r}
    BY <1>1, <2>1, <2>3, RequestAssumption DEF Holders, mainVars
  <2>5. QED
    BY <1>1, <2>1, <2>2, <2>4 DEF Enters, IsNextUp, LeavesLineWithSlots, SlotStep
<1>2. ASSUME admitting[a] = "next", UNCHANGED <<lineVars, picked>>,
             at' = IF a = Main THEN "read" ELSE at,
             cur' = IF a = Main THEN NoRequest ELSE cur,
             thread' = [r \in Requests |-> IF r = a THEN "gone" ELSE thread[r]]
      PROVE  SlotStep
  <2>1. a \in Requests => thread[a] = "draining"
    BY <1>2 DEF MainInv
  <2>2. a = Main => at = "admit"
    BY <1>2 DEF MainInv
  <2>3. at' = "spawn" <=> at = "spawn"
    BY <1>2, <2>2
  <2>4. at = "spawn" => cur' = cur
    BY <1>2, <2>2
  <2>5. Holders' = Holders
    BY <1>2, <2>1, <2>3, <2>4 DEF Holders, TypeOK
  <2>6. QED
    BY <1>2, <2>5 DEF Stays, SlotStep, lineVars
<1>3. CASE WriteDequeued(a)
  <2>1. UNCHANGED <<at, cur, picked, thread, active>>
    BY <1>3 DEF WriteDequeued, mainVars, lineVars, handlerVars
  <2>2. QED
    BY <2>1 DEF Holders, Stays, SlotStep
<1>4. CASE SpawnPicked(a)
  <2>1. picked[a] \in Requests
    BY <1>4, PickedIsRequest DEF SpawnPicked
  <2>2. PICK r \in Requests : r = picked[a]
    BY <2>1
  <2>3. /\ thread' = [thread EXCEPT ![r] = "op"] /\ UNCHANGED <<at, cur, active>>
        /\ picked' = [picked EXCEPT ![a] = NoRequest]
    BY <1>4, <2>2 DEF SpawnPicked, Spawn, mainVars, lineVars
  <2>4. \A b \in Actors : picked'[b] = IF b = a THEN NoRequest ELSE picked[b]
    BY <2>3 DEF TypeOK
  <2>5. Holders' = Holders
    BY <2>2, <2>3, <2>4, RequestAssumption DEF Holders, TypeOK
  <2>6. QED
    BY <2>3, <2>5 DEF Stays, SlotStep
<1>5. QED
  BY <1>1, <1>2, <1>3, <1>4 DEF AdmitWaiting, AdmitNext

LEMMA NextMovesSlots ==
  ASSUME Inv, Next
  PROVE  SlotStep
<1>1. ASSUME NEW r \in Requests, Read(r) \/ Handler(r) PROVE SlotStep
  BY <1>1, ReadMovesNoSlot, HandlerMovesSlots DEF SlotStep
<1>2. ASSUME NEW limits \in Limits, ReadEof \/ ReadHeartbeat(limits) \/ Report(limits)
      PROVE  SlotStep
  <2>1. /\ at' = at \/ (at = "read" /\ at' # "spawn")
        /\ UNCHANGED <<cur, picked, thread, active>>
    <3>1. CASE ReadEof
      BY <3>1 DEF ReadEof, Reads, lineVars, admitVars, handlerVars
    <3>2. CASE ReadHeartbeat(limits)
      BY <3>2 DEF ReadHeartbeat, Reads, lineVars, handlerVars
    <3>3. CASE Report(limits)
      BY <3>3 DEF Report, mainVars, lineVars, handlerVars
    <3>4. QED
      BY <1>2, <3>1, <3>2, <3>3
  <2>2. QED
    BY <2>1 DEF Holders, Stays, SlotStep
<1>3. QED
  BY <1>1, <1>2, DispatchMovesSlots, AdmitMovesSlots, PoolAssumption DEF Next

LEMMA HoldersCounted ==
  /\ IsFiniteSet(Holders)
  /\ TypeOK => (SlotsAccounted <=> Counts(active, Holders, Chain))
<1>1. Holders \subseteq Requests
  BY DEF Holders
<1>2. \A p \in PoolNames : HoldersOf(p) = Through(Holders, Chain, p)
  BY DEF HoldersOf, Through
<1>3. TypeOK => DOMAIN active = PoolNames
  BY DEF TypeOK
<1>4. QED
  BY <1>1, <1>2, <1>3, RequestAssumption, FS_Subset DEF SlotsAccounted, Counts

LEMMA SlotsInv == Inv /\ SlotsAccounted /\ [Next]_vars => SlotsAccounted'
<1> SUFFICES ASSUME Inv, SlotsAccounted, [Next]_vars PROVE SlotsAccounted'
  OBVIOUS
<1>1. active \in [PoolNames -> Nat] /\ Counts(active, Holders, Chain) /\ IsFiniteSet(Holders)
  BY HoldersCounted DEF Inv, TypeOK
<1>2. TypeOK'
  BY NextInv DEF Inv
<1>3. SUFFICES Counts(active, Holders, Chain)'
  <2>1. (TypeOK => (SlotsAccounted <=> Counts(active, Holders, Chain)))'
    BY HoldersCounted, PTL
  <2>2. QED
    BY <1>2, <1>3, <2>1
<1>4. CASE Stays
  BY <1>1, <1>4 DEF Stays, Counts, Through
<1>5. ASSUME NEW r \in Requests, Enters(r)
      PROVE  Counts(active, Holders, Chain)'
  <2>1. Counts(Take(active, Chain[r]), Holders \cup {r}, Chain)
    BY <1>1, <1>5, TakeCounts DEF Enters
  <2>2. QED
    BY <1>5, <2>1 DEF Enters, Counts, Through
<1>6. ASSUME NEW r \in Requests, Leaves(r)
      PROVE  Counts(active, Holders, Chain)'
  <2>1. Counts(Release(active, Chain[r]), Holders \ {r}, Chain)
    BY <1>1, <1>6, ReleaseCounts DEF Leaves
  <2>2. QED
    BY <1>6, <2>1 DEF Leaves, Counts, Through
<1>7. CASE UNCHANGED vars
  <2>1. UNCHANGED <<active, Holders>>
    BY <1>7 DEF vars, Holders, mainVars, lineVars, admitVars, handlerVars
  <2>2. QED
    BY <1>1, <2>1 DEF Counts, Through
<1>8. QED
  BY <1>4, <1>5, <1>6, <1>7, NextMovesSlots DEF SlotStep

LEMMA InitSlots == Init => SlotsAccounted
<1> SUFFICES ASSUME Init, NEW p \in PoolNames PROVE active[p] = Cardinality(HoldersOf(p))
  BY DEF SlotsAccounted
<1>1. HoldersOf(p) = {}
  BY RequestAssumption DEF Init, HoldersOf, Holders
<1>2. QED
  BY <1>1, FS_EmptySet DEF Init

(***************************************************************************)
(* The pools count the requests between their admission and their release, *)
(* by whichever thread they were admitted                                  *)
(* (cartridge_runtime.py:4420-4446, 4473-4474, 4485-4503).                 *)
(***************************************************************************)
THEOREM SlotsAreAccounted == Spec => []SlotsAccounted
BY InitInv, InitSlots, NextInv, SlotsInv, PTL DEF Spec

(***************************************************************************)
(* A step lets a request in only where there is room: the slots' rules.    *)
(***************************************************************************)
LEMMA StepImplements ==
  Inv /\ SlotsAccounted /\ [Next]_vars => [SlotsOfChains!Next]_(SlotsOfChains!vars)
<1> SUFFICES ASSUME Inv, SlotsAccounted, [Next]_vars
             PROVE  [SlotsOfChains!Next]_(SlotsOfChains!vars)
  OBVIOUS
<1>1. capacity' \in [PoolNames -> Nat]
  BY NextInv DEF Inv, TypeOK
<1>2. CASE Holders' = Holders
  BY <1>1, <1>2 DEF SlotsOfChains!Resize, SlotsOfChains!Next
<1>3. ASSUME NEW r \in Requests, Enters(r)
      PROVE  SlotsOfChains!Next
  <2>1. ASSUME NEW p \in Chain[r]
        PROVE  ~SlotsOfChains!Full(p)
    <3>1. p \in PoolNames /\ PoolHasRoom(capacity[p], active[p])
      BY <1>3, <2>1, PoolAssumption DEF Enters, HasRoom
    <3>2. active[p] = Cardinality(SlotsOfChains!Holding(p))
      BY <3>1 DEF SlotsAccounted, HoldersOf, SlotsOfChains!Holding
    <3>3. capacity[p] \in Nat /\ active[p] \in Nat
      BY <3>1 DEF Inv, TypeOK
    <3>4. SlotsOfChains!Full(p) <=> capacity[p] # 0 /\ active[p] >= capacity[p]
      BY <3>2, Zenon DEF SlotsOfChains!Full, SlotsOfChains!Cardinality, Cardinality
    <3>5. ~(capacity[p] # 0 /\ active[p] >= capacity[p])
      BY <3>1, <3>3, SMT DEF PoolHasRoom, Unlimited
    <3>6. QED
      BY <3>4, <3>5
  <2>2. SlotsOfChains!Enter(r)
    BY <1>3, <2>1 DEF Enters, SlotsOfChains!Enter
  <2>3. QED
    BY <2>2 DEF SlotsOfChains!Next
<1>4. ASSUME NEW r \in Requests, Leaves(r)
      PROVE  SlotsOfChains!Next
  BY <1>4 DEF Leaves, SlotsOfChains!Exit, SlotsOfChains!Next
<1>5. CASE UNCHANGED vars
  BY <1>2, <1>5 DEF vars, Holders, mainVars, admitVars, handlerVars
<1>6. QED
  BY <1>2, <1>3, <1>4, <1>5, NextMovesSlots DEF SlotStep, Stays

(***************************************************************************)
(* The cartridge's admission implements the same slots as the engine's     *)
(* controller.                                                             *)
(***************************************************************************)
THEOREM ImplementsSlots == Spec => IsSlots
<1>1. Init => SlotsOfChains!Init
  <2> SUFFICES ASSUME Init PROVE SlotsOfChains!Init
    OBVIOUS
  <2>1. Holders = {} /\ capacity \in [PoolNames -> Nat]
    BY RequestAssumption, PoolAssumption DEF Init, Holders
  <2>2. QED
    BY <2>1 DEF SlotsOfChains!Init
<1>2. QED
  BY <1>1, InitInv, InitSlots, NextInv, SlotsInv, StepImplements, PTL DEF Spec, IsSlots,
    SlotsOfChains!Spec
-----------------------------------------------------------------------------
(***************************************************************************)
(* Whatever makes room for somebody in line leaves a thread on its way to  *)
(* the line.                                                               *)
(***************************************************************************)
Draining == \E a \in Actors : admitting[a] # "no"

LEMMA LineStaysServed == Inv /\ NobodyLeftInLine /\ [Next]_vars => NobodyLeftInLine'
<1> SUFFICES ASSUME Inv, NobodyLeftInLine, [Next]_vars
             PROVE  NobodyLeftInLine'
  OBVIOUS
<1> USE DEF Inv
<1>1. CASE Draining'
  BY <1>1 DEF Draining, NobodyLeftInLine
<1>2. ASSUME inLine' \subseteq inLine, admitting' = admitting, capacity' = capacity,
             \/ active' = active
             \/ \E r \in Requests : active' = Take(active, Chain[r]),
             at = "queued" => at' = "queued"
      PROVE  NobodyLeftInLine'
  <2> SUFFICES ASSUME NEW r \in inLine', HasRoom(capacity', active', Chain[r])
               PROVE  at' = "queued" \/ \E a \in Actors : admitting'[a] # "no"
    BY DEF NobodyLeftInLine
  <2>1. r \in inLine /\ Chain[r] \in SUBSET PoolNames
    BY <1>2, PoolAssumption DEF TypeOK
  <2>2. active \in [PoolNames -> Nat] /\ capacity \in [PoolNames -> Nat]
    BY DEF TypeOK
  <2>3. HasRoom(capacity, active, Chain[r])
    BY <1>2, <2>1, <2>2, TakeLeavesNoMoreRoom
  <2>4. QED
    BY <1>2, <2>1, <2>3 DEF NobodyLeftInLine
<1>3. ASSUME NEW r \in Requests, Read(r)
      PROVE  NobodyLeftInLine'
  BY <1>2, <1>3 DEF Read, ReadReq, ReadInputEnd, ReadCancel, ReadOutputCredit,
    ReadArgumentCredit, ReadPeerEnd, Reads, lineVars, admitVars
<1>4. ASSUME NEW r \in Requests, Handler(r)
      PROVE  NobodyLeftInLine'
  <2>1. CASE ReleaseSlots(r)
    BY <1>1, <2>1 DEF ReleaseSlots, Draining, Actors, TypeOK
  <2>2. CASE ~ReleaseSlots(r)
    BY <1>2, <1>4, <2>2 DEF Handler, StartReading, StopReading, StartWriting, GateCloses,
      CallPeer, ResponseEnds, Return, WriteTerminal, PopRunning, AnswerCancel, Alone,
      mainVars, admitVars
  <2>3. QED
    BY <2>1, <2>2
<1>5. CASE Dispatch
  <2>1. CASE Arrive
    <3>1. cur \in Requests /\ admitting' = admitting /\ capacity' = capacity
      BY <2>1 DEF Arrive, TypeOK, MainInv, admitVars
    <3>2. CASE at' = "queued"
      BY <3>2 DEF NobodyLeftInLine
    <3>3. CASE at' # "queued"
      <4>1. inLine' = inLine /\ active' = Take(active, Chain[cur]) /\ at # "queued"
        BY <2>1, <3>3 DEF Arrive
      <4>2. QED
        BY <1>2, <3>1, <4>1
    <3>4. QED
      BY <3>2, <3>3
  <2>2. CASE WriteQueued
    BY <1>1, <2>2 DEF WriteQueued, Draining, Actors, TypeOK
  <2>3. CASE SpawnArrived \/ TakeFromLine \/ ClaimForCancel \/ CutInput \/ CancelGates
             \/ CancelPeers
    BY <1>2, <2>3 DEF SpawnArrived, TakeFromLine, ClaimForCancel, CutInput, CancelGates,
      CancelPeers, lineVars, admitVars
  <2>4. QED
    BY <1>5, <2>1, <2>2, <2>3 DEF Dispatch
<1>6. ASSUME NEW a \in Actors, AdmitWaiting(a)
      PROVE  NobodyLeftInLine'
  <2>1. CASE admitting'[a] # "no"
    BY <1>1, <2>1 DEF Draining
  <2>2. CASE admitting'[a] = "no"
    <3>1. /\ \A r \in inLine : ~HasRoom(capacity, active, Chain[r])
          /\ UNCHANGED <<lineVars, capacity>>
      BY <1>6, <2>2 DEF AdmitWaiting, AdmitNext, WriteDequeued, SpawnPicked, TypeOK
    <3>2. QED
      BY <3>1 DEF NobodyLeftInLine, lineVars
  <2>3. QED
    BY <2>1, <2>2
<1>7. ASSUME NEW limits \in Limits, ReadHeartbeat(limits) \/ Report(limits)
      PROVE  NobodyLeftInLine'
  BY <1>1, <1>7 DEF ReadHeartbeat, Report, Draining, Actors, TypeOK
<1>8. CASE ReadEof
  BY <1>2, <1>8 DEF ReadEof, Reads, lineVars, admitVars
<1>9. CASE UNCHANGED vars
  BY <1>2, <1>9 DEF vars, mainVars, lineVars, admitVars
<1>10. QED
  BY <1>3, <1>4, <1>5, <1>6, <1>7, <1>8, <1>9 DEF Next

(***************************************************************************)
(* A request in line that could go has somebody on the way to start it     *)
(* (cartridge_runtime.py:4421-4428, 4475, 4501, 4882).                     *)
(***************************************************************************)
THEOREM NobodyIsLeftInLine == Spec => []NobodyLeftInLine
<1>1. Init => NobodyLeftInLine
  BY DEF Init, NobodyLeftInLine
<1>2. QED
  BY <1>1, InitInv, NextInv, LineStaysServed, PTL DEF Spec
=============================================================================
