------------------------ MODULE ResponseFlow_proofs ------------------------
(***************************************************************************)
(* Proofs about the way of a response, for any requests, streams and       *)
(* threads, any sizes of batches and CHUNKs and any memory of the writer:  *)
(* while frames are overtaken by no more others than the receiver may      *)
(* hold, it gets the frames of each request as they were written, each     *)
(* once and up to the terminal, whatever was repeated or came late, and    *)
(* they keep the rules of a request's frames; and while one thread at most *)
(* emits to each stream, batches and CHUNKs change nothing of what was     *)
(* emitted.                                                                *)
(***************************************************************************)
EXTENDS ResponseFlow, FiniteSetTheorems, TLAPS

(* The orders a receiver can be in: what it holds lies beyond what it      *)
(* expects, since everything before was delivered and what it expects was  *)
(* not.                                                                    *)
Proper(order) ==
  /\ order \in Orders /\ IsFiniteSet(order.held)
  /\ \A n \in order.held : n > order.expected
-----------------------------------------------------------------------------
(***************************************************************************)
(* A run of held numbers has an end, since only finitely many are held.    *)
(***************************************************************************)
LEMMA LeastOf ==
  ASSUME NEW S \in SUBSET Nat, S # {}
  PROVE  \E n \in S : \A m \in S : n <= m
<1>1. \E n \in S : \A m \in S : ~ (<<m, n>> \in OpToRel(<, Nat))
  BY NatLessThanWellFounded, WFMin
<1>2. PICK n \in S : \A m \in S : ~ (<<m, n>> \in OpToRel(<, Nat))
  BY <1>1
<1>3. \A m \in S : ~ (m < n)
  BY <1>2 DEF OpToRel
<1>4. QED
  BY <1>3

LEMMA RunEndFacts ==
  ASSUME NEW seq \in Nat, NEW nums \in SUBSET Nat, IsFiniteSet(nums)
  PROVE  /\ RunEnd(seq, nums) \in Nat /\ RunEnd(seq, nums) >= seq
         /\ seq .. (RunEnd(seq, nums) - 1) \subseteq nums
         /\ RunEnd(seq, nums) \notin nums
<1> DEFINE c == Cardinality(nums)
           S == {n \in seq .. (seq + c) : n \notin nums}
<1>1. c \in Nat
  BY FS_CardinalityType
<1>2. S # {}
  <2> SUFFICES ASSUME S = {} PROVE FALSE
    OBVIOUS
  <2>1. seq .. (seq + c) \in SUBSET nums
    OBVIOUS
  <2>2. Cardinality(seq .. (seq + c)) = c + 1
    <3>1. seq \in Int /\ seq + c \in Int /\ ~ (seq > seq + c) /\ (seq + c) - seq + 1 = c + 1
      BY <1>1
    <3> HIDE DEF c
    <3>2. QED
      BY <3>1, FS_Interval
  <2>3. Cardinality(seq .. (seq + c)) <= c
    BY <2>1, FS_Subset
  <2> HIDE DEF c
  <2>4. QED
    BY <1>1, <2>2, <2>3
<1>3. PICK n \in S : \A m \in S : n <= m
  <2>1. S \in SUBSET Nat
    BY <1>1
  <2> HIDE DEF S
  <2>2. QED
    BY <1>2, <2>1, LeastOf
<1>4. n \in seq .. (seq + c) /\ n \notin nums
  OBVIOUS
<1>5. seq .. (n - 1) \subseteq nums
  <2> SUFFICES ASSUME NEW m \in seq .. (n - 1), m \notin nums PROVE FALSE
    OBVIOUS
  <2>1. m \in seq .. (seq + c) /\ m < n
    BY <1>1, <1>4
  <2>2. QED
    BY <1>3, <2>1
<1>6. /\ RunEnd(seq, nums) \in seq .. (seq + c)
      /\ seq .. (RunEnd(seq, nums) - 1) \subseteq nums /\ RunEnd(seq, nums) \notin nums
  BY <1>4, <1>5 DEF RunEnd
<1>7. QED
  BY <1>1, <1>6

(***************************************************************************)
(* The frame expected next is delivered with the run it releases, and the  *)
(* rest stays held.                                                        *)
(***************************************************************************)
LEMMA DeliverFacts ==
  ASSUME NEW order, Proper(order), NEW limit
  PROVE  LET after == Accepted(order, order.expected, limit) IN
         /\ Answer(order, order.expected, limit) = "deliver"
         /\ after.expected \in Nat /\ after.expected > order.expected
         /\ \A n \in (order.expected + 1) .. (after.expected - 1) : n \in order.held
         /\ after.held = {n \in order.held : n >= after.expected}
         /\ after.expected \notin order.held
         /\ Proper(after)
<1> DEFINE e == order.expected
           a == Advance(order)
           after == Accepted(order, e, limit)
<1>1. e \in Nat /\ order.held \in SUBSET Nat /\ IsFiniteSet(order.held)
      /\ \A n \in order.held : n > e
  BY DEF Proper, Orders
<1>2. Answer(order, e, limit) = "deliver"
  BY <1>1 DEF Answer
<1>3. /\ a \in Nat /\ a >= e + 1 /\ a \notin order.held
      /\ (e + 1) .. (a - 1) \subseteq order.held
  BY <1>1, RunEndFacts DEF Advance
<1>4. after.expected = a /\ after.held = order.held \ (0 .. (a - 1))
      /\ after = [expected |-> a, held |-> order.held \ (0 .. (a - 1))]
  BY <1>2 DEF Accepted
<1> HIDE DEF e, a, after
<1>5. order.held \ (0 .. (a - 1)) = {n \in order.held : n >= a}
  BY <1>1, <1>3
<1>6. Proper(after)
  <2>1. IsFiniteSet(after.held)
    BY <1>1, <1>4, FS_Subset
  <2>2. \A n \in after.held : n > a
    BY <1>1, <1>3, <1>4, <1>5
  <2>3. QED
    BY <1>1, <1>3, <1>4, <2>1, <2>2 DEF Proper, Orders
<1>7. QED
  BY <1>1, <1>2, <1>3, <1>4, <1>5, <1>6 DEF e, a, after

LEMMA HoldFacts ==
  ASSUME NEW order, Proper(order), NEW seq \in Nat, NEW limit \in Nat,
         Answer(order, seq, limit) = "hold"
  PROVE  LET after == Accepted(order, seq, limit) IN
         /\ seq > order.expected /\ seq \notin order.held
         /\ after.expected = order.expected /\ after.held = order.held \cup {seq}
         /\ Proper(after)
<1>1. /\ order.expected \in Nat /\ order.held \in SUBSET Nat /\ IsFiniteSet(order.held)
      /\ order = [expected |-> order.expected, held |-> order.held]
  BY DEF Proper, Orders
<1>2. seq > order.expected /\ seq \notin order.held
  BY <1>1 DEF Answer
<1>3. Accepted(order, seq, limit) = [expected |-> order.expected, held |-> order.held \cup {seq}]
  BY <1>1 DEF Accepted, Hold
<1>4. IsFiniteSet(order.held \cup {seq})
  BY <1>1, FS_AddElement
<1>5. QED
  BY <1>1, <1>2, <1>3, <1>4 DEF Proper, Orders

LEMMA RefuseFacts ==
  ASSUME NEW order, NEW seq, NEW limit, Answer(order, seq, limit) \notin {"deliver", "hold"}
  PROVE  Accepted(order, seq, limit) = order
BY DEF Accepted

(***************************************************************************)
(* Whoever is overtaken by at most limit others finds room: what is held   *)
(* lies in an interval of that size, and so does what arrives.             *)
(***************************************************************************)
LEMMA RoomFor ==
  ASSUME NEW order, Proper(order), NEW limit \in Nat, NEW reach \in Nat, reach <= limit,
         NEW seq \in Nat, seq <= order.expected + reach,
         \A n \in order.held : n <= order.expected + reach
  PROVE  Answer(order, seq, limit) # "overflow"
<1> DEFINE e == order.expected
<1>1. e \in Nat /\ order.held \in SUBSET Nat /\ IsFiniteSet(order.held)
      /\ \A n \in order.held : n > e
  BY DEF Proper, Orders
<1>2. SUFFICES ASSUME seq > e, seq \notin order.held, Cardinality(order.held) >= limit
               PROVE  FALSE
  BY <1>1 DEF Answer
<1>3. Cardinality(order.held \cup {seq}) = Cardinality(order.held) + 1
  BY <1>1, <1>2, FS_AddElement
<1>4. order.held \cup {seq} \in SUBSET ((e + 1) .. (e + reach))
  BY <1>1, <1>2
<1>5. IsFiniteSet((e + 1) .. (e + reach)) /\ Cardinality((e + 1) .. (e + reach)) <= reach
  <2>1. e + 1 \in Int /\ e + reach \in Int
    BY <1>1
  <2>2. /\ IsFiniteSet((e + 1) .. (e + reach))
        /\ Cardinality((e + 1) .. (e + reach)) =
             IF e + 1 > e + reach THEN 0 ELSE (e + reach) - (e + 1) + 1
    BY <2>1, FS_Interval
  <2>3. QED
    BY <1>1, <2>2
<1>6. Cardinality(order.held \cup {seq}) <= reach
  <2>1. Cardinality(order.held \cup {seq}) <= Cardinality((e + 1) .. (e + reach))
    BY <1>4, <1>5, FS_Subset
  <2>2. Cardinality(order.held \cup {seq}) \in Nat /\ Cardinality((e + 1) .. (e + reach)) \in Nat
    BY <1>1, <1>5, FS_AddElement, FS_CardinalityType
  <2>3. QED
    BY <1>5, <2>1, <2>2
<1>7. Cardinality(order.held) \in Nat
  BY <1>1, FS_CardinalityType
<1>8. QED
  BY <1>2, <1>3, <1>6, <1>7

(***************************************************************************)
(* An arrival that is taken adds its number to those that were delivered   *)
(* or are held and drops none; one that is refused was there already or    *)
(* found no room, and changes nothing (CapDAG-Bifaci-Flow.c, accept;       *)
(* frame.py, ReorderBuffer: "none is lost").                               *)
(***************************************************************************)
Known(order) == (0 .. (order.expected - 1)) \cup order.held

THEOREM NoneIsLost ==
  ASSUME NEW order, Proper(order), NEW seq \in Nat, NEW limit \in Nat
  PROVE  LET after  == Accepted(order, seq, limit)
             answer == Answer(order, seq, limit)
         IN  /\ Proper(after)
             /\ answer \in {"deliver", "hold"} =>
                  seq \notin Known(order) /\ Known(after) = Known(order) \cup {seq}
             /\ answer \notin {"deliver", "hold"} =>
                  after = order /\ (answer = "overflow" \/ seq \in Known(order))
<1> DEFINE after  == Accepted(order, seq, limit)
           answer == Answer(order, seq, limit)
           Taken == seq \notin Known(order) /\ Known(after) = Known(order) \cup {seq}
           Refused == after = order /\ (answer = "overflow" \/ seq \in Known(order))
<1>1. order.expected \in Nat /\ order.held \in SUBSET Nat /\ \A n \in order.held : n > order.expected
  BY DEF Proper, Orders
<1>2. ASSUME answer = "deliver" PROVE Proper(after) /\ Taken
  <2>1. seq = order.expected
    BY <1>1, <1>2 DEF Answer
  <2>2. /\ after.expected \in Nat /\ after.expected > seq
        /\ \A n \in (seq + 1) .. (after.expected - 1) : n \in order.held
        /\ after.held = {n \in order.held : n >= after.expected}
        /\ Proper(after)
    <3>1. after = Accepted(order, order.expected, limit)
      BY <2>1
    <3> HIDE DEF after
    <3>2. QED
      BY <2>1, <3>1, DeliverFacts
  <2> HIDE DEF after
  <2>3. Known(after) \subseteq Known(order) \cup {seq}
    <3>1. ASSUME NEW n \in 0 .. (after.expected - 1) PROVE n \in Known(order) \cup {seq}
      <4>1. n \in 0 .. (seq - 1) \/ n = seq \/ n \in (seq + 1) .. (after.expected - 1)
        BY <2>2
      <4>2. QED
        BY <2>1, <2>2, <4>1 DEF Known
    <3>2. QED
      BY <2>2, <3>1 DEF Known
  <2>4. Known(order) \cup {seq} \subseteq Known(after)
    BY <1>1, <2>1, <2>2 DEF Known
  <2>5. seq \notin Known(order)
    BY <1>1, <2>1 DEF Known
  <2>6. QED
    BY <2>2, <2>3, <2>4, <2>5
<1>3. ASSUME answer = "hold" PROVE Proper(after) /\ Taken
  <2>1. /\ seq > order.expected /\ seq \notin order.held
        /\ after.expected = order.expected /\ after.held = order.held \cup {seq}
        /\ Proper(after)
    BY <1>3, HoldFacts
  <2> HIDE DEF after
  <2>2. QED
    BY <1>1, <2>1 DEF Known
<1>4. ASSUME answer \notin {"deliver", "hold"} PROVE Proper(after) /\ Refused
  <2>1. after = order
    BY <1>4, RefuseFacts
  <2>2. answer = "overflow" \/ seq \in Known(order)
    BY <1>1, <1>4 DEF Answer, Known
  <2> HIDE DEF after
  <2>3. QED
    BY <2>1, <2>2
<1>5. QED
  BY <1>2, <1>3, <1>4
-----------------------------------------------------------------------------
(***************************************************************************)
(* The frames of a flow, up to its terminal: OrderedFlow's sent.           *)
(***************************************************************************)
Sent(r) == UpToTerminal(written[r])

Live(r) == r \in LiveRids(table)

Frames == [seq : Nat, kind : Kinds, stream : Streams \cup {"none"}, index : Int,
           payload : Seq(Nat)]

DataInv ==
  /\ written \in [Requests -> Seq(Frames)] /\ got \in [Requests -> Seq(Frames)]
  /\ travelling \in [Requests -> SUBSET Nat]
  /\ counters \in [DOMAIN counters -> Nat]
  /\ ready \in Seq(Requests \X Nat)
  /\ \A r \in DOMAIN orders : Proper(orders[r]) /\ held[r] \in [orders[r].held -> Nat]
  /\ table = [live |-> table.live, ended |-> table.ended, registered |-> table.registered]

(* A thread has written nothing before its request came, and has taken an  *)
(* index only for what it has to write.                                    *)
ThreadInv ==
  \A t \in Threads :
    /\ phase[Owner[Output[t]]] = "none" => batch[t] = <<>> /\ taken[t] = NotTaken
    /\ taken[t] # NotTaken => batch[t] # <<>>

(* The writer numbers the frames of a flow from zero, without a gap.       *)
WriterInv ==
  \A r \in Requests :
    /\ phase[r] = "none" => written[r] = <<>>
    /\ \A i \in 1 .. Len(Sent(r)) : written[r][i].seq = i - 1
    /\ (\A i \in 1 .. Len(written[r]) : ~IsTerminal(written[r][i].kind)) =>
         NextSeq(r) = Len(written[r])

(* What was released and not routed yet: frames of one flow.               *)
ReadyFor(r) == ready # <<>> /\ ready[1][1] = r

(* A request that was not accepted yet has left no trace at the receiver.  *)
FreshInv ==
  \A r \in Requests : phase[r] = "none" =>
    ~Live(r) /\ ~ReadyFor(r) /\ got[r] = <<>> /\ r \notin DOMAIN orders

(* What was routed is the beginning of what was sent.                      *)
GotInv ==
  \A r \in Requests :
    /\ Len(got[r]) <= Len(Sent(r))
    /\ \A i \in 1 .. Len(got[r]) : got[r][i] = written[r][i]

(* It is all of one flow.                                                  *)
ReadyInv == \A k \in 1 .. Len(ready) : ready[k][1] = ready[1][1]

(* While a request is live, each frame of its flow was delivered, is held  *)
(* or is under way; none was refused that was not there already.           *)
LiveFlow(r) ==
  LET e == OrderOf(r).expected
      h == OrderOf(r).held
  IN  /\ e = Len(got[r]) + (IF ReadyFor(r) THEN Len(ready) ELSE 0)
      /\ e <= Len(Sent(r))
      /\ \A n \in h : n < Len(Sent(r)) /\ HeldOf(r)[n] = n + 1 /\ n <= e + Displacement
      /\ \A i \in 1 .. Len(Sent(r)) : i <= e \/ i - 1 \in h \/ i \in travelling[r]
      /\ \A i \in 1 .. Len(got[r]) : ~IsTerminal(got[r][i].kind)
      /\ ReadyFor(r) => \A k \in 1 .. Len(ready) : ready[k][2] = Len(got[r]) + k

LiveInv == \A r \in Requests : Live(r) => LiveFlow(r)
-----------------------------------------------------------------------------
(***************************************************************************)
(* A sequence of frames up to its terminal, and what one more does to it.  *)
(***************************************************************************)
HasTerminal(frames) == \E i \in 1 .. Len(frames) : IsTerminal(frames[i].kind)

LEMMA FirstTerminal ==
  ASSUME NEW S, NEW frames \in Seq(S), HasTerminal(frames)
  PROVE  \E i \in 1 .. Len(frames) :
           /\ IsTerminal(frames[i].kind)
           /\ \A j \in 1 .. (i - 1) : ~IsTerminal(frames[j].kind)
           /\ UpToTerminal(frames) = SubSeq(frames, 1, i)
<1> DEFINE T == {i \in 1 .. Len(frames) : IsTerminal(frames[i].kind)}
           First(i) == IsTerminal(frames[i].kind) /\ \A j \in 1 .. (i - 1) : ~IsTerminal(frames[j].kind)
<1>1. DOMAIN frames = 1 .. Len(frames) /\ Len(frames) \in Nat
  OBVIOUS
<1>2. PICK n \in T : \A m \in T : n <= m
  <2>1. T \in SUBSET Nat /\ T # {}
    BY <1>1 DEF HasTerminal
  <2> HIDE DEF T
  <2>2. QED
    BY <2>1, LeastOf
<1>3. n \in DOMAIN frames /\ First(n)
  <2>1. ASSUME NEW j \in 1 .. (n - 1), IsTerminal(frames[j].kind) PROVE FALSE
    <3>1. j \in T /\ j < n
      BY <1>1, <2>1
    <3>2. QED
      BY <1>1, <1>2, <3>1
  <2>2. QED
    BY <1>1, <2>1
<1>4. PICK c : c = CHOOSE i \in DOMAIN frames : First(i)
  OBVIOUS
<1>5. c \in DOMAIN frames /\ First(c)
  BY <1>3, <1>4
<1>6. UpToTerminal(frames) = SubSeq(frames, 1, c)
  BY <1>3, <1>4 DEF UpToTerminal
<1>7. QED
  BY <1>1, <1>5, <1>6

LEMMA NoTerminal ==
  ASSUME NEW S, NEW frames \in Seq(S), ~HasTerminal(frames)
  PROVE  UpToTerminal(frames) = frames
BY DEF UpToTerminal, HasTerminal

LEMMA UpToFacts ==
  ASSUME NEW S, NEW frames \in Seq(S)
  PROVE  LET u == UpToTerminal(frames) IN
         /\ u \in Seq(S) /\ Len(u) \in Nat /\ Len(u) <= Len(frames)
         /\ \A i \in 1 .. Len(u) : u[i] = frames[i]
         /\ \A i \in 1 .. (Len(u) - 1) : ~IsTerminal(frames[i].kind)
         /\ HasTerminal(frames) => Len(u) > 0 /\ IsTerminal(frames[Len(u)].kind)
         /\ ~HasTerminal(frames) => u = frames
<1>1. CASE HasTerminal(frames)
  <2>1. PICK i \in 1 .. Len(frames) :
          /\ IsTerminal(frames[i].kind)
          /\ \A j \in 1 .. (i - 1) : ~IsTerminal(frames[j].kind)
          /\ UpToTerminal(frames) = SubSeq(frames, 1, i)
    BY <1>1, FirstTerminal
  <2>2. /\ SubSeq(frames, 1, i) \in Seq(S) /\ Len(SubSeq(frames, 1, i)) = i
        /\ \A j \in 1 .. i : SubSeq(frames, 1, i)[j] = frames[j]
    OBVIOUS
  <2>3. QED
    BY <1>1, <2>1, <2>2
<1>2. CASE ~HasTerminal(frames)
  BY <1>2, NoTerminal DEF HasTerminal
<1>3. QED
  BY <1>1, <1>2

LEMMA UpToAppend ==
  ASSUME NEW S, NEW frames \in Seq(S), NEW f \in S
  PROVE  UpToTerminal(Append(frames, f)) =
           IF HasTerminal(frames) THEN UpToTerminal(frames) ELSE Append(frames, f)
<1> DEFINE more == Append(frames, f)
<1>1. /\ more \in Seq(S) /\ Len(more) = Len(frames) + 1 /\ Len(frames) \in Nat
      /\ \A i \in 1 .. Len(frames) : more[i] = frames[i]
      /\ more[Len(frames) + 1] = f
  OBVIOUS
<1>2. CASE HasTerminal(frames)
  <2>1. PICK i \in 1 .. Len(frames) :
          /\ IsTerminal(frames[i].kind)
          /\ \A j \in 1 .. (i - 1) : ~IsTerminal(frames[j].kind)
          /\ UpToTerminal(frames) = SubSeq(frames, 1, i)
    BY <1>2, FirstTerminal
  <2>2. HasTerminal(more)
    BY <1>1, <2>1 DEF HasTerminal
  <2>3. PICK k \in 1 .. Len(more) :
          /\ IsTerminal(more[k].kind)
          /\ \A j \in 1 .. (k - 1) : ~IsTerminal(more[j].kind)
          /\ UpToTerminal(more) = SubSeq(more, 1, k)
    BY <1>1, <2>2, FirstTerminal
  <2>4. k = i
    <3> HIDE DEF more
    <3>1. ~ (k < i)
      <4>1. k < i => k \in 1 .. (i - 1) /\ k \in 1 .. Len(frames)
        BY <1>1, <2>1, <2>3
      <4>2. k \in 1 .. Len(frames) => more[k] = frames[k]
        BY <1>1
      <4>3. QED
        BY <2>1, <2>3, <4>1, <4>2
    <3>2. ~ (i < k)
      <4>1. i < k => i \in 1 .. (k - 1) /\ more[i] = frames[i]
        BY <1>1, <2>1
      <4>2. QED
        BY <2>1, <2>3, <4>1
    <3>3. QED
      BY <1>1, <3>1, <3>2
  <2>5. SubSeq(more, 1, i) = SubSeq(frames, 1, i)
    OBVIOUS
  <2>6. QED
    BY <1>2, <2>1, <2>3, <2>4, <2>5
<1>3. CASE ~HasTerminal(frames)
  <2>1. \A j \in 1 .. Len(frames) : ~IsTerminal(more[j].kind)
    BY <1>1, <1>3 DEF HasTerminal
  <2>2. CASE ~HasTerminal(more)
    BY <1>1, <1>3, <2>2, NoTerminal
  <2>3. CASE HasTerminal(more)
    <3>1. PICK k \in 1 .. Len(more) : IsTerminal(more[k].kind) /\ UpToTerminal(more) = SubSeq(more, 1, k)
      BY <1>1, <2>3, FirstTerminal
    <3>2. k = Len(more)
      <4> HIDE DEF more
      <4>1. QED
        BY <1>1, <2>1, <3>1
    <3>3. SubSeq(more, 1, Len(more)) = more
      <4> HIDE DEF more
      <4>1. QED
        BY <1>1
    <3>4. QED
      BY <1>3, <3>1, <3>2, <3>3
  <2>4. QED
    BY <2>2, <2>3
<1>4. QED
  BY <1>2, <1>3

(***************************************************************************)
(* A batch is split into payloads.                                         *)
(***************************************************************************)
LEMMA PiecesType ==
  ASSUME NEW content \in Seq(Nat)
  PROVE  Pieces(content) \in Seq(Seq(Nat))
<1> DEFINE k == (Len(content) + ChunkMax - 1) \div ChunkMax
           Piece(i) == SubSeq(content, (i - 1) * ChunkMax + 1,
                              IF i * ChunkMax < Len(content) THEN i * ChunkMax ELSE Len(content))
<1>1. ChunkMax \in Nat /\ ChunkMax > 0 /\ Len(content) \in Nat
  BY ResponseAssumption
<1>2. k \in Nat /\ k * ChunkMax <= Len(content) + ChunkMax - 1
  BY <1>1
<1>3. ASSUME NEW i \in 1 .. k PROVE Piece(i) \in Seq(Nat)
  <2>1. i \in Nat /\ i >= 1 /\ i <= k /\ (i - 1) * ChunkMax = i * ChunkMax - ChunkMax
    BY <1>1, <1>2
  <2>2. i * ChunkMax \in Nat /\ i * ChunkMax <= k * ChunkMax /\ i * ChunkMax >= ChunkMax
    BY <1>1, <1>2, <2>1
  <2>3. (i - 1) * ChunkMax + 1 \in 1 .. Len(content)
    BY <1>1, <1>2, <2>1, <2>2
  <2>4. (IF i * ChunkMax < Len(content) THEN i * ChunkMax ELSE Len(content)) \in 0 .. Len(content)
    BY <1>1, <2>2
  <2>5. ASSUME NEW m \in 1 .. Len(content), NEW n \in 0 .. Len(content)
        PROVE  SubSeq(content, m, n) \in Seq(Nat)
    OBVIOUS
  <2>6. QED
    BY <2>3, <2>4, <2>5
<1>4. Pieces(content) = [i \in 1 .. k |-> Piece(i)]
  BY DEF Pieces
<1> HIDE DEF k, Piece
<1>5. QED
  BY <1>2, <1>3, <1>4
-----------------------------------------------------------------------------
(***************************************************************************)
(* Types.                                                                  *)
(***************************************************************************)
HandlerTypes ==
  /\ phase \in [Requests -> {"none", "running", "finishing", "failed", "over"}]
  /\ cancelled \subseteq Cancellable
  /\ closed \subseteq started /\ started \subseteq Streams
  /\ left \in [Threads -> 0..MaxUnits]
  /\ units \in [Streams -> Nat]
  /\ buffer \in [Streams -> Seq(Nat)]
  /\ batch \in [Threads -> Seq(Seq(Nat))]
  /\ taken \in [Threads -> Nat \cup {NotTaken}]
  /\ chunkIndex \in [Streams -> Nat]
  /\ logs \in [Requests -> Nat]

WriterTypes ==
  /\ DOMAIN counters \subseteq Requests
  /\ terminated \in Seq(Requests) /\ Len(terminated) <= TerminatedCapacity
  /\ \A r \in Requests : travelling[r] \subseteq DOMAIN written[r]

ReceiverTypes ==
  /\ repeats \in 0..MaxRepeats
  /\ DOMAIN orders \subseteq Requests /\ DOMAIN held = DOMAIN orders
  /\ \A r \in DOMAIN orders : orders[r] \in Orders /\ DOMAIN held[r] = orders[r].held
  /\ refused \subseteq {"route", "straggler", "no_route"} \X {"stale", "duplicate", "overflow"}
  /\ LiveRids(table) \subseteq Requests
  /\ broken \subseteq Requests

LEMMA TypeParts == TypeOK <=> HandlerTypes /\ WriterTypes /\ ReceiverTypes
BY DEF TypeOK, HandlerTypes, WriterTypes, ReceiverTypes

LEMMA AppendType ==
  ASSUME NEW S, NEW s \in Seq(S), NEW e \in S
  PROVE  Append(s, e) \in Seq(S)
OBVIOUS

LEMMA ExceptType ==
  ASSUME NEW D, NEW S, NEW f \in [D -> S], NEW d \in D, NEW e \in S
  PROVE  [f EXCEPT ![d] = e] \in [D -> S]
OBVIOUS

LEMMA EmitType ==
  ASSUME HandlerTypes, ThreadInv, NEW t \in Threads, EmitBytes(t) \/ EmitValue(t)
  PROVE  HandlerTypes' /\ ThreadInv'
<1> DEFINE s == Output[t]
           full == Append(buffer[s], units[s] + 1)
<1>1. s \in Streams /\ buffer[s] \in Seq(Nat) /\ units[s] \in Nat
  BY ResponseAssumption DEF HandlerTypes
<1>2. full \in Seq(Nat) /\ <<units[s] + 1>> \in Seq(Nat)
  BY <1>1
<1>3. Pieces(full) \in Seq(Seq(Nat)) /\ Append(Pieces(buffer[s]), <<units[s] + 1>>) \in Seq(Seq(Nat))
  BY <1>1, <1>2, PiecesType, AppendType
<1>4. /\ phase[Owner[s]] = "running" /\ left[t] > 0 /\ batch[t] = <<>>
      /\ left' = [left EXCEPT ![t] = @ - 1] /\ units' = [units EXCEPT ![s] = @ + 1]
      /\ UNCHANGED <<phase, cancelled, started, closed, taken, chunkIndex, logs>>
  BY DEF EmitBytes, EmitValue, Emits, MayEmit, handlerVars
<1>5. PICK b \in Seq(Nat), c \in Seq(Seq(Nat)) :
        buffer' = [buffer EXCEPT ![s] = b] /\ batch' = [batch EXCEPT ![t] = c]
  <2>1. <<>> \in Seq(Nat) /\ batch[t] \in Seq(Seq(Nat)) /\ batch = [batch EXCEPT ![t] = batch[t]]
    BY DEF HandlerTypes
  <2>2. CASE EmitValue(t)
    <3>1. /\ buffer' = [buffer EXCEPT ![s] = <<>>]
          /\ batch' = [batch EXCEPT ![t] = Append(Pieces(buffer[s]), <<units[s] + 1>>)]
      BY <2>2 DEF EmitValue
    <3>2. QED
      BY <1>3, <2>1, <3>1
  <2>3. CASE EmitBytes(t)
    <3>1. \/ buffer' = [buffer EXCEPT ![s] = full] /\ batch' = batch
          \/ buffer' = [buffer EXCEPT ![s] = <<>>] /\ batch' = [batch EXCEPT ![t] = Pieces(full)]
      BY <2>3 DEF EmitBytes
    <3> HIDE DEF full
    <3>2. QED
      BY <1>2, <1>3, <2>1, <3>1
  <2>4. QED
    BY <2>2, <2>3
<1> HIDE DEF full
<1>6. HandlerTypes'
  <2>1. buffer' \in [Streams -> Seq(Nat)] /\ batch' \in [Threads -> Seq(Seq(Nat))]
    BY <1>1, <1>5, ExceptType DEF HandlerTypes
  <2>2. units' \in [Streams -> Nat]
    BY <1>1, <1>4 DEF HandlerTypes
  <2>3. left' \in [Threads -> 0 .. MaxUnits]
    <3>1. MaxUnits \in Nat /\ left[t] \in 0 .. MaxUnits
      BY ResponseAssumption DEF HandlerTypes
    <3>2. left[t] - 1 \in 0 .. MaxUnits
      BY <1>4, <3>1
    <3>3. QED
      BY <1>4, <3>2, ExceptType DEF HandlerTypes
  <2>4. QED
    BY <1>4, <2>1, <2>2, <2>3 DEF HandlerTypes
<1>7. ThreadInv'
  BY <1>1, <1>4, <1>5 DEF HandlerTypes, ThreadInv, NotTaken
<1>8. QED
  BY <1>6, <1>7

LEMMA FlushType ==
  ASSUME HandlerTypes, ThreadInv, NEW s \in Streams, FlushLast(s)
  PROVE  HandlerTypes' /\ ThreadInv'
<1>1. buffer[s] \in Seq(Nat) /\ Pieces(buffer[s]) \in Seq(Seq(Nat))
  BY PiecesType DEF HandlerTypes
<1>2. PICK t \in Threads : /\ Output[t] = s /\ batch[t] = <<>>
                           /\ batch' = [batch EXCEPT ![t] = Pieces(buffer[s])]
  BY DEF FlushLast
<1>3. HandlerTypes'
  <2>1. buffer' = [buffer EXCEPT ![s] = <<>>] /\ <<>> \in Seq(Nat)
    BY DEF FlushLast
  <2>2. buffer' \in [Streams -> Seq(Nat)] /\ batch' \in [Threads -> Seq(Seq(Nat))]
    BY <1>1, <1>2, <2>1, ExceptType DEF HandlerTypes
  <2>3. QED
    BY <2>2 DEF HandlerTypes, FlushLast, handlerVars
<1>4. ThreadInv'
  BY <1>1, <1>2 DEF HandlerTypes, ThreadInv, FlushLast, handlerVars
<1>5. QED
  BY <1>3, <1>4

LEMMA ChunkType ==
  ASSUME HandlerTypes, ThreadInv, NEW t \in Threads, TakeIndex(t) \/ WriteChunk(t)
  PROVE  HandlerTypes' /\ ThreadInv'
<1>1. Output[t] \in Streams /\ batch[t] \in Seq(Seq(Nat)) /\ batch[t] # <<>>
  BY ResponseAssumption DEF HandlerTypes, ThreadInv, TakeIndex, WriteChunk
<1>2. CASE TakeIndex(t)
  <2>1. /\ batch[t] # <<>> /\ taken' = [taken EXCEPT ![t] = chunkIndex[Output[t]]]
        /\ chunkIndex' = [chunkIndex EXCEPT ![Output[t]] = @ + 1]
        /\ UNCHANGED <<phase, cancelled, started, closed, left, units, buffer, batch, logs>>
    BY <1>2 DEF TakeIndex, handlerVars
  <2>2. chunkIndex[Output[t]] \in Nat /\ phase[Owner[Output[t]]] # "none"
    BY <1>1, <2>1 DEF HandlerTypes, ThreadInv
  <2>3. HandlerTypes'
    <3>1. taken' \in [Threads -> Nat \cup {NotTaken}]
      BY <2>1, <2>2 DEF HandlerTypes
    <3>2. chunkIndex' \in [Streams -> Nat]
      BY <1>1, <2>1, <2>2 DEF HandlerTypes
    <3>3. QED
      BY <2>1, <3>1, <3>2 DEF HandlerTypes
  <2>4. ThreadInv'
    BY <1>1, <2>1, <2>2 DEF HandlerTypes, ThreadInv
  <2>5. QED
    BY <2>3, <2>4
<1>3. CASE WriteChunk(t)
  <2>1. Tail(batch[t]) \in Seq(Seq(Nat))
    BY <1>1
  <2>2. /\ batch' = [batch EXCEPT ![t] = Tail(batch[t])] /\ taken' = [taken EXCEPT ![t] = NotTaken]
        /\ UNCHANGED <<phase, cancelled, started, closed, left, units, buffer, chunkIndex, logs>>
    BY <1>3 DEF WriteChunk, handlerVars
  <2>3. taken[t] # NotTaken
    BY <1>3 DEF WriteChunk
  <2>4. HandlerTypes'
    BY <2>1, <2>2 DEF HandlerTypes
  <2>5. ThreadInv'
    BY <2>1, <2>2, <2>3 DEF HandlerTypes, ThreadInv
  <2>6. QED
    BY <2>4, <2>5
<1>4. QED
  BY <1>2, <1>3

(* The other steps of a handler and its streams, and those of the receiver. *)
LEMMA HandlerStep ==
  ASSUME HandlerTypes, ThreadInv, [Next]_vars
  PROVE  HandlerTypes' /\ ThreadInv'
<1>1. CASE UNCHANGED <<phase, streamVars, cancelled>>
  BY <1>1 DEF HandlerTypes, ThreadInv, streamVars
<1>2. CASE \E r \in Requests : \E p \in {"running", "finishing", "over"} :
             /\ phase' = [phase EXCEPT ![r] = p] /\ UNCHANGED <<cancelled, streamVars>>
  BY <1>2 DEF HandlerTypes, ThreadInv, streamVars
<1>3. ASSUME NEW r \in Requests, Fail(r) PROVE HandlerTypes' /\ ThreadInv'
  BY <1>3 DEF Fail, HandlerTypes, ThreadInv, ThreadsOf
<1>4. ASSUME NEW r \in Requests, Cancel(r) PROVE HandlerTypes' /\ ThreadInv'
  BY <1>4 DEF Cancel, HandlerTypes, ThreadInv, streamVars
<1>5. ASSUME NEW r \in Requests, WriteLog(r) PROVE HandlerTypes' /\ ThreadInv'
  BY <1>5 DEF WriteLog, HandlerTypes, ThreadInv, handlerVars
<1>6. ASSUME NEW s \in Streams, StartStream(s) PROVE HandlerTypes' /\ ThreadInv'
  BY <1>6 DEF StartStream, HandlerTypes, ThreadInv, handlerVars
<1>7. ASSUME NEW s \in Streams, CloseStream(s) PROVE HandlerTypes' /\ ThreadInv'
  BY <1>7 DEF CloseStream, HandlerTypes, ThreadInv, handlerVars
<1>8. ASSUME NEW r \in Requests, Accept(r) \/ Return(r) \/ WriteTerminal(r)
      PROVE  HandlerTypes' /\ ThreadInv'
  <2>1. \E p \in {"running", "finishing", "over"} : phase' = [phase EXCEPT ![r] = p]
    BY <1>8 DEF Accept, Return, WriteTerminal
  <2>2. UNCHANGED <<cancelled, streamVars>>
    BY <1>8 DEF Accept, Return, WriteTerminal
  <2>3. QED
    BY <1>2, <2>1, <2>2
<1>9. ASSUME NEW r \in Requests, NEW i, ArriveOnce(r, i) \/ ArriveAndStay(r, i)
      PROVE  HandlerTypes' /\ ThreadInv'
  BY <1>1, <1>9 DEF ArriveOnce, ArriveAndStay, Arrive, handlerVars
<1>10. CASE Route
  BY <1>1, <1>10 DEF Route, handlerVars
<1>11. CASE UNCHANGED vars
  BY <1>1, <1>11 DEF vars, handlerVars
<1>12. QED
  BY <1>3, <1>4, <1>5, <1>6, <1>7, <1>8, <1>9, <1>10, <1>11, EmitType, FlushType, ChunkType
  DEF Next
-----------------------------------------------------------------------------
(***************************************************************************)
(* What each step does to the flows.                                       *)
(***************************************************************************)
FlowInv == WriterInv /\ FreshInv /\ GotInv /\ ReadyInv /\ LiveInv

RestInv == WriterTypes /\ ReceiverTypes /\ DataInv /\ FlowInv

SameFresh == \A r \in Requests : phase'[r] = "none" <=> phase[r] = "none"

LEMMA SentFacts ==
  ASSUME DataInv, NEW r \in Requests
  PROVE  /\ written[r] \in Seq(Frames) /\ Len(written[r]) \in Nat
         /\ Len(Sent(r)) \in Nat /\ Len(Sent(r)) <= Len(written[r])
         /\ \A i \in 1 .. Len(Sent(r)) : Sent(r)[i] = written[r][i]
         /\ \A i \in 1 .. (Len(Sent(r)) - 1) : ~IsTerminal(written[r][i].kind)
         /\ HasTerminal(written[r]) =>
              Len(Sent(r)) > 0 /\ IsTerminal(written[r][Len(Sent(r))].kind)
         /\ ~HasTerminal(written[r]) => Len(Sent(r)) = Len(written[r])
<1>1. written[r] \in Seq(Frames)
  BY DEF DataInv
<1> HIDE DEF Frames
<1>2. LET u == Sent(r) IN
      /\ u \in Seq(Frames) /\ Len(u) \in Nat /\ Len(u) <= Len(written[r])
      /\ \A i \in 1 .. Len(u) : u[i] = written[r][i]
      /\ \A i \in 1 .. (Len(u) - 1) : ~IsTerminal(written[r][i].kind)
      /\ HasTerminal(written[r]) => Len(u) > 0 /\ IsTerminal(written[r][Len(u)].kind)
      /\ ~HasTerminal(written[r]) => u = written[r]
  <2> DEFINE w == written[r]
  <2>1. w \in Seq(Frames)
    BY <1>1
  <2> HIDE DEF w
  <2>2. LET u == UpToTerminal(w) IN
        /\ u \in Seq(Frames) /\ Len(u) \in Nat /\ Len(u) <= Len(w)
        /\ \A i \in 1 .. Len(u) : u[i] = w[i]
        /\ \A i \in 1 .. (Len(u) - 1) : ~IsTerminal(w[i].kind)
        /\ HasTerminal(w) => Len(u) > 0 /\ IsTerminal(w[Len(u)].kind)
        /\ ~HasTerminal(w) => u = w
    BY <2>1, UpToFacts
  <2>3. QED
    BY <2>2 DEF Sent, w
<1>3. Len(written[r]) \in Nat
  BY <1>1
<1>4. QED
  BY <1>1, <1>2, <1>3

(* No flow is touched. *)
LEMMA QuietStep ==
  ASSUME RestInv, SameFresh, UNCHANGED <<writerVars, receiverVars>>
  PROVE  RestInv'
<1>1. UNCHANGED <<counters, terminated, written, travelling, repeats, orders, held, ready,
                  refused, table, emission, broken, got>>
  BY DEF writerVars, receiverVars
<1>2. WriterTypes' /\ ReceiverTypes' /\ DataInv'
  BY <1>1 DEF RestInv, WriterTypes, ReceiverTypes, DataInv, LiveRids
<1>3. WriterInv' /\ GotInv' /\ ReadyInv'
  BY <1>1 DEF RestInv, FlowInv, SameFresh, WriterInv, GotInv, ReadyInv, Sent, NextSeq
<1>4. FreshInv'
  BY <1>1 DEF RestInv, FlowInv, SameFresh, FreshInv, Live, ReadyFor
<1>5. LiveInv'
  <2>1. ASSUME NEW r \in Requests, LiveFlow(r) PROVE LiveFlow(r)'
    <3>1. /\ Sent(r)' = Sent(r) /\ OrderOf(r)' = OrderOf(r) /\ HeldOf(r)' = HeldOf(r)
          /\ ReadyFor(r)' <=> ReadyFor(r)
      BY <1>1 DEF Sent, OrderOf, HeldOf, ReadyFor
    <3>2. QED
      BY <1>1, <2>1, <3>1 DEF LiveFlow
  <2>2. \A r \in Requests : Live(r)' <=> Live(r)
    BY <1>1 DEF Live
  <2>3. QED
    BY <2>1, <2>2 DEF RestInv, FlowInv, LiveInv
<1>6. QED
  BY <1>2, <1>3, <1>4, <1>5 DEF RestInv, FlowInv

Unnumbered == [kind : Kinds, stream : Streams \cup {"none"}, index : Int, payload : Seq(Nat)]

(* A frame is written, or suppressed. *)
LEMMA Written ==
  ASSUME RestInv, NEW r \in Requests, NEW frame \in Unnumbered, WriteFrame(r, frame),
         ~UNCHANGED writerVars
  PROVE  LET f == Numbered(frame, NextSeq(r)) IN
         /\ f \in Frames /\ f.seq = NextSeq(r) /\ f.kind = frame.kind
         /\ written' = [written EXCEPT ![r] = Append(written[r], f)]
         /\ travelling' = [travelling EXCEPT ![r] = travelling[r] \cup {Len(written[r]) + 1}]
         /\ counters' \in [DOMAIN counters' -> Nat] /\ DOMAIN counters' \subseteq Requests
         /\ ~IsTerminal(f.kind) => NextSeq(r)' = NextSeq(r) + 1
         /\ \A q \in Requests \ {r} : NextSeq(q)' = NextSeq(q)
         /\ terminated' \in Seq(Requests) /\ Len(terminated') <= TerminatedCapacity
<1> DEFINE f == Numbered(frame, NextSeq(r))
           over == r \in Range(terminated)
<1>1. NextSeq(r) \in Nat
  BY DEF NextSeq, RestInv, DataInv
<1>2. f \in Frames /\ f.seq = NextSeq(r) /\ f.kind = frame.kind
  BY <1>1 DEF Numbered, Frames, Unnumbered
<1>3. /\ written' = [written EXCEPT ![r] = Append(written[r], f)]
      /\ travelling' = [travelling EXCEPT ![r] = travelling[r] \cup {Len(written[r]) + 1}]
      /\ \/ /\ EndsFlow(over, frame.kind)
            /\ counters' = [q \in DOMAIN counters \ {r} |-> counters[q]]
            /\ terminated' = Remembered(terminated, r)
         \/ /\ ~EndsFlow(over, frame.kind) /\ ~Suppressed(over, frame.kind)
            /\ counters' = [q \in DOMAIN counters \cup {r} |->
                              IF q = r THEN NextSeq(r) + 1 ELSE counters[q]]
            /\ UNCHANGED terminated
  BY DEF WriteFrame
<1> HIDE DEF f, over
<1>4. counters \in [DOMAIN counters -> Nat] /\ DOMAIN counters \subseteq Requests
  BY DEF RestInv, DataInv, WriterTypes
<1>5. CASE /\ EndsFlow(over, frame.kind)
           /\ counters' = [q \in DOMAIN counters \ {r} |-> counters[q]]
           /\ terminated' = Remembered(terminated, r)
  <2>1. terminated \in Seq(Requests) /\ Len(terminated) <= TerminatedCapacity
        /\ TerminatedCapacity \in Nat /\ TerminatedCapacity > 0
    BY ResponseAssumption DEF RestInv, WriterTypes
  <2>2. terminated' \in Seq(Requests) /\ Len(terminated') <= TerminatedCapacity
    BY <1>5, <2>1 DEF Remembered
  <2>3. counters' \in [DOMAIN counters' -> Nat] /\ DOMAIN counters' \subseteq Requests
    BY <1>4, <1>5
  <2>4. \A q \in Requests \ {r} : NextSeq(q)' = NextSeq(q)
    BY <1>5 DEF NextSeq
  <2>5. IsTerminal(f.kind)
    BY <1>2, <1>5 DEF EndsFlow
  <2>6. QED
    BY <1>2, <1>3, <2>2, <2>3, <2>4, <2>5 DEF f
<1>6. CASE /\ counters' = [q \in DOMAIN counters \cup {r} |->
                             IF q = r THEN NextSeq(r) + 1 ELSE counters[q]]
           /\ UNCHANGED terminated
  <2>1. counters' \in [DOMAIN counters' -> Nat] /\ DOMAIN counters' \subseteq Requests
    BY <1>1, <1>4, <1>6
  <2>2. NextSeq(r)' = NextSeq(r) + 1 /\ \A q \in Requests \ {r} : NextSeq(q)' = NextSeq(q)
    BY <1>6 DEF NextSeq
  <2>3. QED
    BY <1>2, <1>3, <1>6, <2>1, <2>2 DEF f, RestInv, WriterTypes
<1>7. QED
  BY <1>3, <1>5, <1>6

LEMMA WriteStep ==
  ASSUME RestInv, SameFresh, NEW r \in Requests, phase[r] # "none",
         NEW frame \in Unnumbered, WriteFrame(r, frame), UNCHANGED receiverVars
  PROVE  RestInv'
<1>1. CASE UNCHANGED writerVars
  BY <1>1, QuietStep
<1>2. CASE ~UNCHANGED writerVars
  <2> DEFINE f == Numbered(frame, NextSeq(r))
             last == Len(written[r]) + 1
  <2>1. /\ f \in Frames /\ f.seq = NextSeq(r)
        /\ written' = [written EXCEPT ![r] = Append(written[r], f)]
        /\ travelling' = [travelling EXCEPT ![r] = travelling[r] \cup {last}]
        /\ counters' \in [DOMAIN counters' -> Nat] /\ DOMAIN counters' \subseteq Requests
        /\ ~IsTerminal(f.kind) => NextSeq(r)' = NextSeq(r) + 1
        /\ \A q \in Requests \ {r} : NextSeq(q)' = NextSeq(q)
        /\ terminated' \in Seq(Requests) /\ Len(terminated') <= TerminatedCapacity
    BY <1>2, Written
  <2> HIDE DEF f
  <2>2. UNCHANGED <<repeats, orders, held, ready, refused, table, emission, broken, got>>
    BY DEF receiverVars
  <2>3. /\ WriterTypes /\ ReceiverTypes /\ DataInv
        /\ WriterInv /\ FreshInv /\ GotInv /\ ReadyInv /\ LiveInv
    BY DEF RestInv, FlowInv
  <2>4. /\ written \in [Requests -> Seq(Frames)] /\ travelling \in [Requests -> SUBSET Nat]
        /\ written[r] \in Seq(Frames) /\ Len(written[r]) \in Nat
    BY <2>3 DEF DataInv
  <2> HIDE DEF Frames
  <2>5. /\ written'[r] = Append(written[r], f) /\ written'[r] \in Seq(Frames)
        /\ Len(written'[r]) = last /\ written'[r][last] = f
        /\ \A i \in 1 .. Len(written[r]) : written'[r][i] = written[r][i]
        /\ \A q \in Requests \ {r} : written'[q] = written[q] /\ travelling'[q] = travelling[q]
        /\ travelling'[r] = travelling[r] \cup {last}
    BY <2>1, <2>4
  <2>6. /\ \A q \in Requests \ {r} : Sent(q)' = Sent(q)
        /\ Sent(r)' = IF HasTerminal(written[r]) THEN Sent(r) ELSE Append(written[r], f)
    BY <2>1, <2>4, <2>5, UpToAppend DEF Sent
  <2>7. /\ \A q \in Requests : Len(Sent(q)) \in Nat /\ Len(Sent(q)) <= Len(written[q])
        /\ ~HasTerminal(written[r]) => Len(Sent(r)) = Len(written[r]) /\ Len(Sent(r)') = last
    BY <2>3, <2>4, <2>6, SentFacts
  <2>8. WriterTypes' /\ ReceiverTypes' /\ DataInv'
    <3>1. WriterTypes'
      <4>1. \A q \in Requests : travelling'[q] \subseteq DOMAIN written'[q]
        <5>1. \A q \in Requests : travelling[q] \subseteq DOMAIN written[q]
          BY <2>3 DEF WriterTypes
        <5>2. DOMAIN written'[r] = 1 .. last /\ DOMAIN written[r] = 1 .. Len(written[r])
          BY <2>4, <2>5
        <5>3. travelling'[r] \subseteq 1 .. last
          BY <2>4, <2>5, <5>1, <5>2
        <5>4. QED
          BY <2>5, <5>1, <5>2, <5>3
      <4>2. QED
        BY <2>1, <4>1 DEF WriterTypes
    <3>2. ReceiverTypes'
      BY <2>2, <2>3 DEF ReceiverTypes, LiveRids
    <3>3. written' \in [Requests -> Seq(Frames)] /\ travelling' \in [Requests -> SUBSET Nat]
      <4>1. travelling[r] \cup {last} \in SUBSET Nat
        BY <2>4
      <4> HIDE DEF last
      <4>2. QED
        BY <2>1, <2>4, <2>5, <4>1, ExceptType
    <3>4. QED
      BY <2>1, <2>2, <2>3, <3>1, <3>2, <3>3 DEF DataInv
  <2>9. WriterInv'
    <3> SUFFICES ASSUME NEW q \in Requests
                 PROVE  /\ phase'[q] = "none" => written'[q] = <<>>
                        /\ \A i \in 1 .. Len(Sent(q)') : written'[q][i].seq = i - 1
                        /\ (\A i \in 1 .. Len(written'[q]) : ~IsTerminal(written'[q][i].kind)) =>
                              NextSeq(q)' = Len(written'[q])
      BY DEF WriterInv
    <3>1. CASE q # r
      BY <2>1, <2>3, <2>5, <2>6, <3>1 DEF WriterInv, SameFresh
    <3>2. CASE q = r
      <4>1. phase'[r] # "none"
        BY DEF SameFresh
      <4>2. ~HasTerminal(written[r]) => NextSeq(r) = Len(written[r])
        BY <2>3 DEF WriterInv, HasTerminal
      <4>3. \A i \in 1 .. Len(Sent(r)') : written'[r][i].seq = i - 1
        <5>1. CASE HasTerminal(written[r])
          BY <2>3, <2>4, <2>5, <2>6, <2>7, <5>1 DEF WriterInv
        <5>2. CASE ~HasTerminal(written[r])
          <6>1. /\ Len(Sent(r)') = last /\ Len(Sent(r)) = Len(written[r])
                /\ NextSeq(r) = last - 1 /\ last \in Nat
            BY <2>4, <2>7, <4>2, <5>2
          <6>2. \A i \in 1 .. Len(written[r]) : written[r][i].seq = i - 1
            BY <2>3, <6>1 DEF WriterInv
          <6>3. \A i \in 1 .. last : i \in 1 .. Len(written[r]) \/ i = last
            BY <2>4
          <6> HIDE DEF last
          <6>4. QED
            BY <2>1, <2>5, <6>1, <6>2, <6>3
        <5>3. QED
          BY <5>1, <5>2
      <4>4. ASSUME \A i \in 1 .. Len(written'[r]) : ~IsTerminal(written'[r][i].kind)
            PROVE  NextSeq(r)' = Len(written'[r])
        <5>1. ~HasTerminal(written[r]) /\ ~IsTerminal(f.kind)
          <6>1. \A i \in 1 .. Len(written[r]) : i \in 1 .. last
            BY <2>4
          <6>2. last \in 1 .. last
            BY <2>4
          <6> HIDE DEF last
          <6>3. QED
            BY <2>5, <4>4, <6>1, <6>2 DEF HasTerminal
        <5>2. QED
          BY <2>1, <2>5, <4>2, <5>1
      <4>5. QED
        BY <3>2, <4>1, <4>3, <4>4
    <3>3. QED
      BY <3>1, <3>2
  <2>10. FreshInv' /\ ReadyInv'
    BY <2>2, <2>3 DEF FreshInv, SameFresh, ReadyInv, Live, ReadyFor
  <2>11. \A q \in Requests :
           /\ Len(Sent(q)) <= Len(Sent(q)') /\ Len(Sent(q)') \in Nat
           /\ \A i \in 1 .. Len(Sent(q)) : written'[q][i] = written[q][i]
           /\ \A i \in 1 .. Len(Sent(q)') : i \in 1 .. Len(Sent(q)) \/ i \in travelling'[q]
           /\ travelling[q] \subseteq travelling'[q]
    <3> SUFFICES ASSUME NEW q \in Requests
                 PROVE  /\ Len(Sent(q)) <= Len(Sent(q)') /\ Len(Sent(q)') \in Nat
                        /\ \A i \in 1 .. Len(Sent(q)) : written'[q][i] = written[q][i]
                        /\ \A i \in 1 .. Len(Sent(q)') : i \in 1 .. Len(Sent(q)) \/ i \in travelling'[q]
                        /\ travelling[q] \subseteq travelling'[q]
      OBVIOUS
    <3>1. Len(Sent(q)) \in Nat /\ Len(Sent(q)) <= Len(written[q])
      BY <2>7
    <3>2. CASE Sent(q)' = Sent(q)
      <4>1. \A i \in 1 .. Len(Sent(q)) : i \in 1 .. Len(written[q])
        BY <2>4, <3>1
      <4>2. \A i \in 1 .. Len(Sent(q)) : written'[q][i] = written[q][i]
        BY <2>5, <4>1
      <4>3. travelling[q] \subseteq travelling'[q]
        BY <2>5
      <4>4. Len(Sent(q)') = Len(Sent(q))
        BY <3>2
      <4>5. QED
        BY <3>1, <4>2, <4>3, <4>4
    <3>3. CASE q = r /\ ~HasTerminal(written[r])
      <4>1. Len(Sent(r)) = Len(written[r]) /\ Len(Sent(r)') = last
        BY <2>7, <3>3
      <4>2. \A i \in 1 .. last : i \in 1 .. Len(written[r]) \/ i = last
        BY <2>4
      <4>3. last \in Nat /\ Len(written[r]) <= last
        BY <2>4
      <4> HIDE DEF last
      <4>4. QED
        BY <2>5, <3>3, <4>1, <4>2, <4>3
    <3>4. QED
      BY <2>6, <3>2, <3>3
  <2>12. GotInv'
    <3>1. \A q \in Requests : Len(got[q]) \in Nat
      BY <2>3 DEF DataInv
    <3>2. QED
      BY <2>2, <2>3, <2>7, <2>11, <3>1 DEF GotInv
  <2>13. LiveInv'
    <3> SUFFICES ASSUME NEW q \in Requests, Live(q) PROVE LiveFlow(q)'
      BY <2>2 DEF LiveInv, Live
    <3> DEFINE e == OrderOf(q).expected
               h == OrderOf(q).held
    <3>1. /\ e = Len(got[q]) + (IF ReadyFor(q) THEN Len(ready) ELSE 0)
          /\ e <= Len(Sent(q))
          /\ \A n \in h : n < Len(Sent(q)) /\ HeldOf(q)[n] = n + 1 /\ n <= e + Displacement
          /\ \A i \in 1 .. Len(Sent(q)) : i <= e \/ i - 1 \in h \/ i \in travelling[q]
          /\ \A i \in 1 .. Len(got[q]) : ~IsTerminal(got[q][i].kind)
          /\ ReadyFor(q) => \A k \in 1 .. Len(ready) : ready[k][2] = Len(got[q]) + k
      BY <2>3 DEF LiveInv, LiveFlow
    <3>2. e \in Nat /\ h \in SUBSET Nat
      BY <2>3 DEF DataInv, OrderOf, Start, Proper, Orders
    <3> HIDE DEF e, h
    <3>3. e <= Len(Sent(q)') /\ \A n \in h : n < Len(Sent(q)')
      <4>1. Len(Sent(q)) \in Nat /\ Len(Sent(q)') \in Nat /\ Len(Sent(q)) <= Len(Sent(q)')
        BY <2>7, <2>11
      <4>2. e <= Len(Sent(q)) /\ \A n \in h : n < Len(Sent(q))
        BY <3>1 DEF e, h
      <4>3. QED
        BY <3>2, <4>1, <4>2
    <3>4. \A i \in 1 .. Len(Sent(q)') : i <= e \/ i - 1 \in h \/ i \in travelling'[q]
      BY <2>11, <3>1
    <3>5. QED
      BY <2>2, <3>1, <3>3, <3>4 DEF e, h, LiveFlow, OrderOf, HeldOf, ReadyFor
  <2>14. QED
    BY <2>8, <2>9, <2>10, <2>12, <2>13 DEF RestInv, FlowInv
<1>3. QED
  BY <1>1, <1>2
(* The request comes: its flow starts from nothing at the receiver. *)
LEMMA AcceptStep ==
  ASSUME RestInv, NEW r \in Requests, Accept(r),
         phase \in [Requests -> {"none", "running", "finishing", "failed", "over"}]
  PROVE  RestInv'
<1>1. /\ phase[r] = "none" /\ phase' = [phase EXCEPT ![r] = "running"]
      /\ table' = Registered(table, r, r)
      /\ UNCHANGED <<counters, terminated, written, travelling, repeats, orders, held, ready,
                     refused, emission, broken, got>>
  BY DEF Accept, writerVars
<1>2. /\ WriterTypes /\ ReceiverTypes /\ DataInv
      /\ WriterInv /\ FreshInv /\ GotInv /\ ReadyInv /\ LiveInv
  BY DEF RestInv, FlowInv
<1>3. /\ LiveRids(table)' = LiveRids(table) \cup {r}
      /\ table' = [live |-> table'.live, ended |-> table'.ended, registered |-> table'.registered]
  BY <1>1, <1>2 DEF DataInv, Registered, LiveRids
<1>4. phase'[r] # "none" /\ \A q \in Requests \ {r} : phase'[q] = phase[q]
  BY <1>1
<1>5. WriterTypes' /\ ReceiverTypes' /\ DataInv'
  BY <1>1, <1>2, <1>3 DEF WriterTypes, ReceiverTypes, DataInv
<1>6. WriterInv' /\ GotInv' /\ ReadyInv'
  BY <1>1, <1>2, <1>4 DEF WriterInv, GotInv, ReadyInv, Sent, NextSeq
<1>7. FreshInv'
  BY <1>1, <1>2, <1>3, <1>4 DEF FreshInv, Live, ReadyFor
<1>8. LiveInv'
  <2>1. OrderOf(r) = [expected |-> 0, held |-> {}] /\ ~ReadyFor(r) /\ got[r] = <<>>
    BY <1>1, <1>2 DEF FreshInv, OrderOf, Start
  <2>2. Len(Sent(r)) = 0
    <3>1. written[r] = <<>>
      BY <1>1, <1>2 DEF WriterInv
    <3>2. Len(Sent(r)) \in Nat /\ Len(Sent(r)) <= Len(written[r])
      BY <1>2, SentFacts
    <3>3. QED
      BY <3>1, <3>2
  <2>3. ASSUME NEW q \in Requests, LiveFlow(q) PROVE LiveFlow(q)'
    BY <1>1, <2>3 DEF LiveFlow, OrderOf, HeldOf, Sent, ReadyFor
  <2>4. QED
    <3> SUFFICES ASSUME NEW q \in Requests, Live(q)' PROVE LiveFlow(q)'
      BY DEF LiveInv
    <3>1. CASE q = r
      <4>1. LiveFlow(r)
        BY <2>1, <2>2 DEF LiveFlow
      <4>2. QED
        BY <2>3, <3>1, <4>1
    <3>2. CASE q # r
      <4>1. Live(q)
        BY <1>3, <3>2 DEF Live
      <4>2. QED
        BY <1>2, <2>3, <4>1 DEF LiveInv
    <3>3. QED
      BY <3>1, <3>2
<1>9. QED
  BY <1>5, <1>6, <1>7, <1>8 DEF RestInv, FlowInv

(* What arrives late finds its request ended: while it is live, a frame of *)
(* the flow that was not delivered is held or under way, and what is late  *)
(* comes after those.                                                      *)
LEMMA InTime ==
  ASSUME RestInv, NEW r \in Requests, NEW i \in travelling[r], MayArrive(r, i), Live(r)
  PROVE  LET e == OrderOf(r).expected IN
         /\ i \in 1 .. Len(Sent(r)) /\ written[r][i].seq = i - 1
         /\ i - 1 > e => i - 1 <= e + Displacement
         /\ e = Len(got[r]) /\ e \in Nat /\ e <= Len(Sent(r)) /\ Proper(OrderOf(r))
<1> DEFINE e == OrderOf(r).expected
           h == OrderOf(r).held
           n == Len(Sent(r))
<1>1. Proper(OrderOf(r)) /\ e \in Nat /\ h \in SUBSET Nat /\ \A m \in h : m > e
  <2>1. Proper(Start)
    BY FS_EmptySet DEF Proper, Start, Orders
  <2>2. Proper(OrderOf(r))
    BY <2>1 DEF OrderOf, RestInv, DataInv
  <2>3. QED
    BY <2>2 DEF Proper, Orders
<1>2. /\ e = Len(got[r]) /\ e <= n
      /\ \A p \in 1 .. n : p <= e \/ p - 1 \in h \/ p \in travelling[r]
      /\ \A p \in 1 .. Len(got[r]) : ~IsTerminal(got[r][p].kind)
      /\ Len(got[r]) \in Nat
  <2>1. ~ReadyFor(r) /\ got[r] \in Seq(Frames)
    BY DEF MayArrive, ReadyFor, RestInv, DataInv
  <2>2. /\ e = Len(got[r]) + (IF ReadyFor(r) THEN Len(ready) ELSE 0)
        /\ e <= n
        /\ \A p \in 1 .. n : p <= e \/ p - 1 \in h \/ p \in travelling[r]
        /\ \A p \in 1 .. Len(got[r]) : ~IsTerminal(got[r][p].kind)
    BY DEF RestInv, FlowInv, LiveInv, LiveFlow
  <2> HIDE DEF e, h, n
  <2>3. Len(got[r]) \in Nat
    BY <2>1
  <2>4. QED
    BY <2>1, <2>2, <2>3
<1>3. /\ Len(written[r]) \in Nat /\ n \in Nat /\ n <= Len(written[r])
      /\ \A p \in 1 .. (n - 1) : ~IsTerminal(written[r][p].kind)
      /\ HasTerminal(written[r]) => n > 0 /\ IsTerminal(written[r][n].kind)
      /\ ~HasTerminal(written[r]) => n = Len(written[r])
  BY SentFacts DEF RestInv
<1>4. i \in 1 .. Len(written[r])
  BY DEF RestInv, WriterTypes, DataInv
<1> HIDE DEF e, h, n
<1>5. ASSUME e < n PROVE e + 1 \in travelling[r] /\ ~IsLate(r, e + 1)
  <2>1. e + 1 \in 1 .. n /\ ~ (e + 1 <= e) /\ (e + 1) - 1 = e
    BY <1>1, <1>3, <1>5
  <2>2. e + 1 \in travelling[r]
    BY <1>1, <1>2, <2>1
  <2>3. ~IsLate(r, e + 1)
    BY <1>1, <1>3, <1>5 DEF IsLate
  <2>4. QED
    BY <2>2, <2>3
<1>6. i <= n
  <2> SUFFICES ASSUME i > n PROVE FALSE
    BY <1>3, <1>4
  <2>1. n > 0 /\ IsTerminal(written[r][n].kind)
    BY <1>3, <1>4
  <2>2. IsLate(r, i)
    <3>1. n \in 1 .. (i - 1)
      BY <1>3, <1>4, <2>1
    <3>2. QED
      BY <2>1, <3>1 DEF IsLate
  <2>3. ~ (e < n)
    BY <1>5, <2>2 DEF MayArrive
  <2>4. n = Len(got[r])
    BY <1>1, <1>2, <1>3, <2>3
  <2>5. got[r][n] = written[r][n] /\ n \in 1 .. Len(got[r])
    BY <1>2, <1>3, <2>1, <2>4 DEF RestInv, FlowInv, GotInv
  <2>6. QED
    BY <1>2, <2>1, <2>5
<1>7. i \in 1 .. n
  BY <1>3, <1>4, <1>6
<1>8. written[r][i].seq = i - 1
  BY <1>7 DEF RestInv, FlowInv, WriterInv, n
<1>9. ASSUME i - 1 > e PROVE i - 1 <= e + Displacement
  <2>1. e + 1 \in travelling[r]
    BY <1>1, <1>3, <1>5, <1>7, <1>9
  <2>2. i <= e + 1 + Displacement
    BY <2>1 DEF MayArrive
  <2>3. i \in Nat /\ e \in Nat /\ Displacement \in Nat
    BY <1>1, <1>3, <1>4, ResponseAssumption
  <2>4. QED
    BY <2>2, <2>3
<1>10. QED
  BY <1>1, <1>2, <1>7, <1>8, <1>9 DEF e, n

(* A frame arrives. *)
LEMMA ArriveTypes ==
  ASSUME RestInv, NEW r \in Requests, NEW i \in travelling[r], MayArrive(r, i), Arrive(r, i),
         Displacement <= HoldLimit, OvertakenAreTaken
  PROVE  LET seq   == written[r][i].seq
             order == OrderOf(r)
             after == Accepted(order, seq, HoldLimit)
             answer == Answer(order, seq, HoldLimit)
         IN  /\ seq \in Nat /\ Proper(order) /\ Proper(after)
             /\ HeldOf(r) \in [order.held -> Nat]
             /\ DOMAIN orders' = DOMAIN orders \cup {r} /\ orders'[r] = after
             /\ \A q \in DOMAIN orders \ {r} : orders'[q] = orders[q]
             /\ DOMAIN held' = DOMAIN orders'
             /\ \A q \in DOMAIN orders \ {r} : held'[q] = held[q]
             /\ answer = "deliver" =>
                  /\ seq = order.expected
                  /\ held'[r] \in [after.held -> Nat]
                  /\ \A m \in after.held : held'[r][m] = HeldOf(r)[m]
                  /\ ready' \in Seq(Requests \X Nat)
                  /\ Len(ready') = after.expected - seq
                  /\ \A k \in 1 .. Len(ready') : ready'[k][1] = r
                  /\ ready'[1] = <<r, i>>
                  /\ \A k \in 2 .. Len(ready') :
                       /\ seq + k - 1 \in order.held
                       /\ ready'[k][2] = HeldOf(r)[seq + k - 1]
             /\ answer = "hold" =>
                  /\ held'[r] \in [after.held -> Nat]
                  /\ \A m \in order.held : held'[r][m] = HeldOf(r)[m]
                  /\ held'[r][seq] = i
             /\ answer \notin {"deliver", "hold"} =>
                  after = order /\ held'[r] = HeldOf(r)
             /\ answer # "deliver" => ready' = ready
             /\ refused' \subseteq {"route", "straggler", "no_route"} \X {"stale", "duplicate", "overflow"}
<1> DEFINE seq   == written[r][i].seq
           order == OrderOf(r)
           after == Accepted(order, seq, HoldLimit)
           answer == Answer(order, seq, HoldLimit)
           have == [n \in DOMAIN HeldOf(r) \cup {seq} |-> IF n = seq THEN i ELSE HeldOf(r)[n]]
<1>1. /\ WriterTypes /\ ReceiverTypes /\ DataInv
  BY DEF RestInv
<1>2. i \in Nat /\ seq \in Nat
  <2>1. i \in DOMAIN written[r] /\ written[r] \in Seq(Frames)
    BY <1>1 DEF WriterTypes, DataInv
  <2>2. i \in Nat /\ written[r][i] \in Frames
    BY <2>1
  <2>3. QED
    BY <2>2 DEF Frames
<1>3. Proper(order) /\ HeldOf(r) \in [order.held -> Nat]
  <2>1. CASE r \in DOMAIN orders
    BY <1>1, <2>1 DEF ReceiverTypes, DataInv, OrderOf, HeldOf
  <2>2. CASE r \notin DOMAIN orders
    <3>1. order = [expected |-> 0, held |-> {}] /\ HeldOf(r) = <<>>
      BY <1>1, <2>2 DEF ReceiverTypes, OrderOf, HeldOf, Start
    <3>2. Proper(order)
      BY <3>1, FS_EmptySet DEF Proper, Orders
    <3>3. QED
      BY <3>1, <3>2
  <2>3. QED
    BY <2>1, <2>2
<1>4. /\ orders' = [q \in DOMAIN orders \cup {r} |-> IF q = r THEN after ELSE orders[q]]
      /\ answer = "deliver" =>
           /\ ready' = [k \in 1..(after.expected - seq) |-> <<r, have[seq + k - 1]>>]
           /\ held' = [q \in DOMAIN held \cup {r} |->
                         IF q = r THEN [n \in after.held |-> have[n]] ELSE held[q]]
           /\ UNCHANGED refused
      /\ answer = "hold" =>
           /\ held' = [q \in DOMAIN held \cup {r} |-> IF q = r THEN have ELSE held[q]]
           /\ UNCHANGED <<ready, refused>>
      /\ answer \notin {"deliver", "hold"} =>
           /\ refused' = refused \cup {<<Disposition(table, r), answer>>}
           /\ held' = [q \in DOMAIN held \cup {r} |-> HeldOf(q)]
           /\ UNCHANGED ready
  BY DEF Arrive
<1>5. answer \in {"deliver", "hold", "stale", "duplicate", "overflow"}
  BY DEF Answer
<1>6. DOMAIN held = DOMAIN orders
  BY <1>1 DEF ReceiverTypes
<1>7. Proper(after)
  BY <1>2, <1>3, NoneIsLost, ResponseAssumption
<1>8. HoldLimit \in Nat
  BY ResponseAssumption
<1>9. ASSUME answer = "deliver"
      PROVE  /\ seq = order.expected
             /\ after.expected \in Nat /\ after.expected > seq
             /\ \A n \in (seq + 1) .. (after.expected - 1) : n \in order.held
             /\ after.held \subseteq order.held /\ seq \notin after.held
  <2>1. seq = order.expected /\ order.expected \in Nat
    BY <1>2, <1>3, <1>9 DEF Answer, Proper, Orders
  <2>2. after = Accepted(order, order.expected, HoldLimit)
    BY <2>1
  <2> HIDE DEF after
  <2>3. /\ after.expected \in Nat /\ after.expected > seq
        /\ \A n \in (seq + 1) .. (after.expected - 1) : n \in order.held
        /\ after.held = {n \in order.held : n >= after.expected}
    BY <1>3, <2>1, <2>2, DeliverFacts
  <2> HIDE DEF seq, order
  <2>4. seq \notin after.held
    BY <2>1, <2>3
  <2>5. QED
    BY <2>1, <2>3, <2>4
<1>10. ASSUME answer = "hold"
       PROVE  after.held = order.held \cup {seq} /\ seq \notin order.held
  BY <1>2, <1>3, <1>8, <1>10, HoldFacts
<1>11. ASSUME answer \notin {"deliver", "hold"} PROVE after = order
  BY <1>11, RefuseFacts
<1>12. Disposition(table, r) \in {"route", "straggler", "no_route"}
  BY DEF Disposition, Dispose
<1> HIDE DEF seq, order, after, answer
<1>13. /\ DOMAIN have = order.held \cup {seq} /\ have[seq] = i
       /\ \A n \in order.held : n # seq => have[n] = HeldOf(r)[n]
       /\ \A n \in order.held : HeldOf(r)[n] \in Nat
  BY <1>3
<1> HIDE DEF have
<1>14. /\ DOMAIN orders' = DOMAIN orders \cup {r} /\ orders'[r] = after
       /\ \A q \in DOMAIN orders \ {r} : orders'[q] = orders[q]
  BY <1>4
<1>15. /\ DOMAIN held' = DOMAIN orders'
       /\ \A q \in DOMAIN orders \ {r} : held'[q] = held[q]
  <2>1. answer \notin {"deliver", "hold"} => \A q \in DOMAIN orders : HeldOf(q) = held[q]
    BY <1>6 DEF HeldOf
  <2>2. QED
    BY <1>4, <1>5, <1>6, <1>14, <2>1
<1>16. refused' \subseteq {"route", "straggler", "no_route"} \X {"stale", "duplicate", "overflow"}
  BY <1>1, <1>4, <1>5, <1>12 DEF ReceiverTypes
<1>17. ASSUME answer = "deliver"
       PROVE  /\ held'[r] \in [after.held -> Nat]
              /\ \A m \in after.held : held'[r][m] = HeldOf(r)[m]
  <2>1. held'[r] = [n \in after.held |-> have[n]]
    BY <1>4, <1>17
  <2>2. \A m \in after.held : have[m] = HeldOf(r)[m] /\ HeldOf(r)[m] \in Nat
    BY <1>9, <1>13, <1>17
  <2>3. QED
    BY <2>1, <2>2
<1>18. ASSUME answer = "deliver"
       PROVE  /\ ready' \in Seq(Requests \X Nat)
              /\ Len(ready') = after.expected - seq
              /\ \A k \in 1 .. Len(ready') : ready'[k][1] = r
              /\ ready'[1] = <<r, i>>
              /\ \A k \in 2 .. Len(ready') :
                   /\ seq + k - 1 \in order.held
                   /\ ready'[k][2] = HeldOf(r)[seq + k - 1]
  <2> DEFINE l == after.expected - seq
  <2>1. l \in Nat /\ l >= 1 /\ ready' = [k \in 1 .. l |-> <<r, have[seq + k - 1]>>]
    BY <1>2, <1>4, <1>9, <1>18
  <2>2. seq + 1 - 1 = seq
    BY <1>2 DEF seq
  <2>3. \A k \in 2 .. l : seq + k - 1 \in (seq + 1) .. (after.expected - 1) /\ seq + k - 1 # seq
    BY <1>2, <1>9, <1>18 DEF seq
  <2>4. \A k \in 2 .. l : /\ seq + k - 1 \in order.held
                          /\ have[seq + k - 1] = HeldOf(r)[seq + k - 1]
                          /\ have[seq + k - 1] \in Nat
    BY <1>9, <1>13, <1>18, <2>3
  <2> HIDE DEF l
  <2>5. \A k \in 1 .. l : have[seq + k - 1] \in Nat
    <3>1. \A k \in 1 .. l : k = 1 \/ k \in 2 .. l
      BY <2>1
    <3>2. QED
      BY <1>2, <1>13, <2>2, <2>4, <3>1
  <2>6. ready' \in Seq(Requests \X Nat) /\ Len(ready') = l
    BY <2>1, <2>5
  <2>7. 1 \in 1 .. l /\ \A k \in 2 .. l : k \in 1 .. l
    BY <2>1
  <2>8. QED
    BY <1>13, <2>1, <2>2, <2>4, <2>6, <2>7 DEF l
<1>19. ASSUME answer = "hold"
       PROVE  /\ held'[r] \in [after.held -> Nat]
              /\ \A m \in order.held : held'[r][m] = HeldOf(r)[m]
              /\ held'[r][seq] = i
  <2>1. held'[r] = have
    BY <1>4, <1>19
  <2>2. have \in [after.held -> Nat]
    BY <1>2, <1>10, <1>13, <1>19 DEF have
  <2>3. QED
    BY <1>10, <1>13, <1>19, <2>1, <2>2
<1>20. answer \notin {"deliver", "hold"} => held'[r] = HeldOf(r)
  BY <1>4
<1>21. answer # "deliver" => ready' = ready
  BY <1>4
<1>22. QED
  BY <1>2, <1>3, <1>7, <1>9, <1>11, <1>14, <1>15, <1>16, <1>17, <1>18, <1>19, <1>20, <1>21
  DEF seq, order, after, answer
LEMMA ArriveStep ==
  ASSUME RestInv, OvertakenAreTaken, Displacement <= HoldLimit,
         phase \in [Requests -> {"none", "running", "finishing", "failed", "over"}],
         NEW r \in Requests, NEW i \in travelling[r], ArriveOnce(r, i) \/ ArriveAndStay(r, i)
  PROVE  RestInv' /\ OvertakenAreTaken'
<1> DEFINE seq   == written[r][i].seq
           order == OrderOf(r)
           after == Accepted(order, seq, HoldLimit)
           answer == Answer(order, seq, HoldLimit)
<1>1. /\ WriterTypes /\ ReceiverTypes /\ DataInv
      /\ WriterInv /\ FreshInv /\ GotInv /\ ReadyInv /\ LiveInv
  BY DEF RestInv, FlowInv
<1>2. /\ MayArrive(r, i) /\ Arrive(r, i) /\ ready = <<>>
      /\ UNCHANGED <<phase, counters, terminated, written, table, broken, got>>
      /\ repeats' \in 0 .. MaxRepeats
      /\ travelling' = [travelling EXCEPT ![r] = travelling[r] \ {i}] \/ travelling' = travelling
  <2>1. repeats \in 0 .. MaxRepeats /\ MaxRepeats \in Nat
    BY <1>1, ResponseAssumption DEF ReceiverTypes
  <2>2. CASE ArriveOnce(r, i)
    BY <2>1, <2>2 DEF ArriveOnce, MayArrive, Arrive, handlerVars
  <2>3. CASE ArriveAndStay(r, i)
    <3>1. repeats' = repeats + 1 /\ repeats < MaxRepeats
      BY <2>3 DEF ArriveAndStay
    <3>2. repeats' \in 0 .. MaxRepeats
      BY <2>1, <3>1
    <3>3. QED
      BY <2>3, <3>2 DEF ArriveAndStay, MayArrive, Arrive, handlerVars
  <2>4. QED
    BY <2>2, <2>3
<1>3. /\ seq \in Nat /\ Proper(order) /\ Proper(after)
      /\ HeldOf(r) \in [order.held -> Nat]
      /\ DOMAIN orders' = DOMAIN orders \cup {r} /\ orders'[r] = after
      /\ \A q \in DOMAIN orders \ {r} : orders'[q] = orders[q]
      /\ DOMAIN held' = DOMAIN orders'
      /\ \A q \in DOMAIN orders \ {r} : held'[q] = held[q]
      /\ answer = "deliver" =>
           /\ seq = order.expected
           /\ held'[r] \in [after.held -> Nat]
           /\ \A m \in after.held : held'[r][m] = HeldOf(r)[m]
           /\ ready' \in Seq(Requests \X Nat)
           /\ Len(ready') = after.expected - seq
           /\ \A k \in 1 .. Len(ready') : ready'[k][1] = r
           /\ ready'[1] = <<r, i>>
           /\ \A k \in 2 .. Len(ready') :
                /\ seq + k - 1 \in order.held
                /\ ready'[k][2] = HeldOf(r)[seq + k - 1]
      /\ answer = "hold" =>
           /\ held'[r] \in [after.held -> Nat]
           /\ \A m \in order.held : held'[r][m] = HeldOf(r)[m]
           /\ held'[r][seq] = i
      /\ answer \notin {"deliver", "hold"} =>
           after = order /\ held'[r] = HeldOf(r)
      /\ answer # "deliver" => ready' = ready
      /\ refused' \subseteq {"route", "straggler", "no_route"} \X {"stale", "duplicate", "overflow"}
  BY <1>1, <1>2, ArriveTypes
<1>4. /\ order.expected \in Nat /\ order.held \in SUBSET Nat /\ \A m \in order.held : m > order.expected
      /\ after.expected \in Nat /\ after.held \in SUBSET Nat
  BY <1>3 DEF Proper, Orders
<1>5. answer \in {"deliver", "hold"} =>
        seq \notin Known(order) /\ Known(after) = Known(order) \cup {seq}
  BY <1>3, NoneIsLost, ResponseAssumption
<1>6. answer \notin {"deliver", "hold"} => answer = "overflow" \/ seq \in Known(order)
  BY <1>3, NoneIsLost, ResponseAssumption
<1>7. answer = "deliver" =>
        after.expected > order.expected /\ after.held \subseteq order.held
  <2>1. SUFFICES ASSUME answer = "deliver"
                 PROVE  after.expected > order.expected /\ after.held \subseteq order.held
    OBVIOUS
  <2>2. after = Accepted(order, order.expected, HoldLimit)
    BY <1>3, <2>1
  <2> HIDE DEF after, order, seq
  <2>3. QED
    <3>1. Proper(order)
      BY <1>3
    <3>2. LET next == Accepted(order, order.expected, HoldLimit) IN
          /\ next.expected > order.expected
          /\ next.held = {n \in order.held : n >= next.expected}
      BY <3>1, DeliverFacts
    <3>3. QED
      BY <2>2, <3>2
<1>8. answer = "hold" => /\ after.expected = order.expected /\ after.held = order.held \cup {seq}
                         /\ seq > order.expected
  <2>1. Proper(order) /\ seq \in Nat /\ HoldLimit \in Nat
    BY <1>3, ResponseAssumption
  <2>2. QED
    BY <2>1, HoldFacts
<1>9. i \in DOMAIN written[r] /\ written[r] \in Seq(Frames) /\ Len(written[r]) \in Nat /\ i \in Nat
  BY <1>1 DEF WriterTypes, DataInv
<1>10. phase[r] # "none"
  <2>1. written[r] # <<>>
    BY <1>9
  <2>2. QED
    BY <1>1, <2>1 DEF WriterInv
<1>11. UNCHANGED <<refused>> \/ refused' = refused \cup {<<Disposition(table, r), answer>>}
  BY <1>2 DEF Arrive
<1>12. Live(r) => /\ i \in 1 .. Len(Sent(r)) /\ seq = i - 1
                  /\ seq > order.expected => seq <= order.expected + Displacement
                  /\ order.expected = Len(got[r]) /\ order.expected <= Len(Sent(r))
  BY <1>2, InTime
<1>13. Live(r) => LiveFlow(r) /\ \A m \in order.held : m <= order.expected + Displacement
  BY <1>1 DEF LiveInv, LiveFlow
<1>14. Live(r) => answer # "overflow"
  <2>1. SUFFICES ASSUME Live(r), answer = "overflow" PROVE FALSE
    OBVIOUS
  <2>2. seq > order.expected
    <3>1. seq \in Nat /\ order.expected \in Nat
      BY <1>3, <1>4
    <3>2. ~ (seq < order.expected) /\ seq # order.expected
      BY <2>1 DEF Answer
    <3> HIDE DEF seq, order
    <3>3. QED
      BY <3>1, <3>2
  <2>3. Displacement \in Nat /\ HoldLimit \in Nat
    BY ResponseAssumption
  <2> HIDE DEF seq, order, after
  <2>4. QED
    BY <1>3, <1>12, <1>13, <2>1, <2>2, <2>3, RoomFor
<1> HIDE DEF seq, order, after, answer
<1>15. OvertakenAreTaken'
  <2>1. Disposition(table, r) = "route" => Live(r)
    BY DEF Disposition, Dispose, Live
  <2>2. <<"route", "overflow">> \notin refused
    BY DEF OvertakenAreTaken
  <2>3. QED
    BY <1>11, <1>14, <2>1, <2>2 DEF OvertakenAreTaken
<1>16. travelling' \in [Requests -> SUBSET Nat]
       /\ \A q \in Requests : travelling'[q] \subseteq travelling[q] /\ travelling[q] \ {i} \subseteq travelling'[q]
       /\ \A p \in Requests \ {r} : travelling'[p] = travelling[p]
  <2>1. travelling \in [Requests -> SUBSET Nat]
    BY <1>1 DEF DataInv
  <2>2. QED
    BY <1>2, <2>1
<1>17. WriterTypes'
  BY <1>1, <1>2, <1>16 DEF WriterTypes
<1>18. ReceiverTypes' /\ DataInv'
  <2>1. \A q \in DOMAIN orders' : Proper(orders'[q]) /\ held'[q] \in [orders'[q].held -> Nat]
    <3>1. held'[r] \in [after.held -> Nat]
      BY <1>3
    <3>2. QED
      BY <1>1, <1>3, <3>1 DEF DataInv
  <2>2. \A q \in DOMAIN orders' : orders'[q] \in Orders /\ DOMAIN held'[q] = orders'[q].held
    BY <2>1 DEF Proper
  <2>3. LiveRids(table)' = LiveRids(table)
    BY <1>2 DEF LiveRids
  <2>4. ReceiverTypes'
    BY <1>1, <1>2, <1>3, <2>2, <2>3 DEF ReceiverTypes
  <2>5. ready' \in Seq(Requests \X Nat)
    BY <1>1, <1>3 DEF DataInv
  <2>6. DataInv'
    BY <1>1, <1>2, <1>16, <2>1, <2>5 DEF DataInv
  <2>7. QED
    BY <2>4, <2>6
<1>19. WriterInv' /\ GotInv'
  BY <1>1, <1>2 DEF WriterInv, GotInv, Sent, NextSeq
<1>20. /\ ReadyInv' /\ \A q \in Requests \ {r} : ~ReadyFor(q)'
       /\ answer # "deliver" => ~ReadyFor(r)'
  <2>1. CASE answer = "deliver"
    <3>1. ready'[1] = <<r, i>> /\ 1 \in 1 .. Len(ready')
      BY <1>3, <1>4, <1>7, <2>1
    <3>2. QED
      BY <1>3, <2>1, <3>1 DEF ReadyInv, ReadyFor
  <2>2. CASE answer # "deliver"
    BY <1>2, <1>3, <2>2 DEF ReadyInv, ReadyFor
  <2>3. QED
    BY <2>1, <2>2
<1>21. FreshInv'
  BY <1>1, <1>2, <1>3, <1>10, <1>20 DEF FreshInv, Live
<1>22. LiveInv'
  <2> SUFFICES ASSUME NEW q \in Requests, Live(q)' PROVE LiveFlow(q)'
    BY DEF LiveInv
  <2>1. Live(q) /\ LiveFlow(q)
    BY <1>1, <1>2 DEF Live, LiveInv
  <2>2. Sent(q)' = Sent(q) /\ got' = got /\ ~ReadyFor(q)
    BY <1>2 DEF Sent, ReadyFor
  <2>3. CASE q # r
    <3>1. OrderOf(q)' = OrderOf(q) /\ HeldOf(q)' = HeldOf(q)
      BY <1>1, <1>3, <2>3 DEF OrderOf, HeldOf, ReceiverTypes
    <3>2. QED
      BY <1>16, <1>20, <2>1, <2>2, <2>3, <3>1 DEF LiveFlow
  <2>4. CASE q = r
    <3> DEFINE n == Len(Sent(r))
               e == order.expected
               h == order.held
    <3>1. OrderOf(r)' = after /\ HeldOf(r)' = held'[r]
      BY <1>3 DEF OrderOf, HeldOf
    <3>2. /\ e = Len(got[r]) /\ e <= n /\ n \in Nat
          /\ \A m \in h : m < n /\ HeldOf(r)[m] = m + 1 /\ m <= e + Displacement
          /\ \A p \in 1 .. n : p <= e \/ p - 1 \in h \/ p \in travelling[r]
          /\ \A p \in 1 .. Len(got[r]) : ~IsTerminal(got[r][p].kind)
          /\ i \in 1 .. n /\ seq = i - 1
          /\ seq > e => seq <= e + Displacement
      BY <1>1, <1>12, <2>1, <2>4, SentFacts DEF LiveFlow, order
    <3> HIDE DEF n, e, h
    <3>3. \A m \in Nat : m \in Known(order) => m < after.expected \/ m \in after.held
      <4>1. Known(order) \subseteq Known(after)
        BY <1>3, <1>5
      <4>2. QED
        BY <1>4, <4>1 DEF Known
    <3>4. seq < after.expected \/ seq \in after.held
      <4>1. seq \in Known(after)
        BY <1>3, <1>5, <1>6, <1>14, <2>1, <2>4
      <4>2. QED
        BY <1>3, <1>4, <4>1 DEF Known
    <3>5. \A p \in 1 .. n : p <= after.expected \/ p - 1 \in after.held \/ p \in travelling'[r]
      <4> SUFFICES ASSUME NEW p \in 1 .. n, p \notin travelling'[r]
                   PROVE  p - 1 < after.expected \/ p - 1 \in after.held
        BY <1>4, <3>2
      <4>1. CASE p = i
        BY <3>2, <3>4, <4>1
      <4>2. CASE p # i
        <5>1. p <= e \/ p - 1 \in h
          BY <1>16, <3>2, <4>2
        <5>2. p - 1 \in Nat /\ p - 1 \in Known(order)
          BY <1>4, <3>2, <5>1 DEF Known, e, h
        <5>3. QED
          BY <3>3, <5>2
      <4>3. QED
        BY <4>1, <4>2
    <3>6. CASE answer = "deliver"
      <4>1. /\ seq = e /\ after.expected > e /\ after.held \subseteq h
            /\ Len(ready') = after.expected - e
            /\ ready'[1] = <<r, i>>
            /\ \A k \in 2 .. Len(ready') :
                 seq + k - 1 \in h /\ ready'[k][2] = HeldOf(r)[seq + k - 1]
            /\ \A m \in after.held : held'[r][m] = HeldOf(r)[m]
        BY <1>3, <1>7, <3>6 DEF e, h
      <4>2. ReadyFor(r)' /\ ready'[1][2] = Len(got[r]) + 1
        BY <1>3, <1>4, <3>2, <4>1 DEF ReadyFor
      <4>3. ASSUME NEW k \in 1 .. Len(ready') PROVE ready'[k][2] = Len(got[r]) + k
        <5>1. CASE k = 1
          BY <4>2, <5>1
        <5>2. CASE k # 1
          <6>1. k \in 2 .. Len(ready') /\ k \in Nat
            BY <1>4, <4>1, <5>2 DEF e
          <6>2. ready'[k][2] = (seq + k - 1) + 1
            BY <3>2, <4>1, <6>1
          <6>3. QED
            BY <1>3, <3>2, <4>1, <6>1, <6>2
        <5>3. QED
          BY <5>1, <5>2
      <4>4. after.expected <= n
        <5>1. CASE Len(ready') = 1
          BY <1>4, <3>2, <4>1, <5>1 DEF e
        <5>2. CASE Len(ready') # 1
          <6> DEFINE l == Len(ready')
          <6>1. l \in 2 .. l /\ seq + l - 1 = after.expected - 1
            <7>1. e \in Nat /\ seq = e /\ l = after.expected - e /\ l # 1
                  /\ after.expected \in Nat /\ after.expected > e
              BY <1>4, <4>1, <5>2 DEF e
            <7> HIDE DEF l
            <7>2. QED
              BY <7>1
          <6>2. after.expected - 1 \in h
            BY <4>1, <6>1
          <6>3. QED
            BY <1>4, <3>2, <6>2
        <5>3. QED
          BY <5>1, <5>2
      <4>5. \A m \in after.held : m < n /\ held'[r][m] = m + 1 /\ m <= after.expected + Displacement
        <5>1. Displacement \in Nat /\ e \in Nat /\ h \in SUBSET Nat
          BY <1>4, ResponseAssumption DEF e, h
        <5>2. ASSUME NEW m \in after.held
              PROVE  m < n /\ held'[r][m] = m + 1 /\ m <= after.expected + Displacement
          <6>1. m \in h /\ m \in Nat /\ held'[r][m] = HeldOf(r)[m]
            BY <4>1, <5>1
          <6>2. m < n /\ HeldOf(r)[m] = m + 1 /\ m <= e + Displacement
            BY <3>2, <6>1
          <6>3. QED
            BY <1>4, <4>1, <5>1, <6>1, <6>2
        <5>3. QED
          BY <5>2
      <4>6. after.expected = Len(got[r]) + Len(ready')
        BY <1>4, <3>2, <4>1 DEF e
      <4>7. QED
        BY <2>2, <2>4, <3>1, <3>2, <3>5, <4>2, <4>3, <4>4, <4>5, <4>6 DEF LiveFlow, n
    <3>7. CASE answer = "hold"
      <4>1. /\ after.expected = e /\ after.held = h \cup {seq} /\ seq > e
            /\ \A m \in h : held'[r][m] = HeldOf(r)[m]
            /\ held'[r][seq] = i
        BY <1>3, <1>8, <3>7 DEF e, h
      <4>2. ~ReadyFor(r)'
        BY <1>20, <3>7
      <4>3. \A m \in after.held : m < n /\ held'[r][m] = m + 1 /\ m <= e + Displacement
        BY <1>9, <3>2, <4>1
      <4>4. e = Len(got[r]) + 0
        BY <1>4, <3>2 DEF e
      <4>5. QED
        BY <2>2, <2>4, <3>1, <3>2, <3>5, <4>1, <4>2, <4>3, <4>4 DEF LiveFlow, n
    <3>8. CASE answer \notin {"deliver", "hold"}
      <4>1. after.expected = e /\ after.held = h /\ held'[r] = HeldOf(r)
        BY <1>3, <3>8 DEF e, h
      <4>2. ~ReadyFor(r)'
        BY <1>20, <3>8
      <4>3. e = Len(got[r]) + 0
        BY <1>4, <3>2 DEF e
      <4>4. QED
        BY <2>2, <2>4, <3>1, <3>2, <3>5, <4>1, <4>2, <4>3 DEF LiveFlow, n
    <3>9. QED
      BY <3>6, <3>7, <3>8
  <2>5. QED
    BY <2>3, <2>4
<1>23. QED
  BY <1>15, <1>17, <1>18, <1>19, <1>20, <1>21, <1>22 DEF RestInv, FlowInv
(* What was released is routed. *)
LEMMA RouteFacts ==
  ASSUME RestInv, Route
  PROVE  LET r == Head(ready)[1]
             f == written[r][Head(ready)[2]]
         IN  /\ r \in Requests /\ ready # <<>> /\ Head(ready) = ready[1]
             /\ ready' = Tail(ready)
             /\ UNCHANGED <<phase, counters, terminated, written, travelling, repeats, refused>>
             /\ Live(r) =>
                  /\ got' = [got EXCEPT ![r] = Append(got[r], f)]
                  /\ f = written[r][Len(got[r]) + 1]
                  /\ Len(got[r]) + 1 <= Len(Sent(r))
                  /\ f \in Frames
                  /\ IsTerminal(f.kind) => Ended(r)
                  /\ ~IsTerminal(f.kind) => UNCHANGED <<table, orders, held>>
             /\ ~Live(r) => UNCHANGED <<table, orders, held, got>>
             /\ broken' \subseteq Requests
<1> DEFINE r == Head(ready)[1]
           place == Head(ready)[2]
           f == written[r][place]
<1>1. /\ WriterTypes /\ ReceiverTypes /\ DataInv /\ GotInv /\ LiveInv
  BY DEF RestInv, FlowInv
<1>2. ready # <<>> /\ ready \in Seq(Requests \X Nat)
  BY <1>1 DEF Route, DataInv
<1>3. Head(ready) = ready[1] /\ ready[1] \in Requests \X Nat /\ Len(ready) \in Nat /\ Len(ready) >= 1
  BY <1>2
<1>4. r \in Requests /\ ReadyFor(r)
  BY <1>2, <1>3 DEF ReadyFor
<1>5. Disposition(table, r) = "route" <=> Live(r)
  BY DEF Disposition, Dispose, Live
<1>6. TerminalOf(f.kind) # "none" <=> IsTerminal(f.kind)
  BY DEF TerminalOf, IsTerminal
<1>7. /\ ready' = Tail(ready)
      /\ UNCHANGED <<phase, counters, terminated, written, travelling, repeats, refused>>
  BY DEF Route, handlerVars, writerVars
<1>8. ASSUME Live(r)
      PROVE  /\ got' = [got EXCEPT ![r] = Append(got[r], f)]
             /\ IsTerminal(f.kind) => Ended(r)
             /\ ~IsTerminal(f.kind) => UNCHANGED <<table, orders, held>>
             /\ broken' = broken \cup {r} \/ broken' = broken
  BY <1>5, <1>6, <1>8 DEF Route
<1>9. ASSUME Live(r)
      PROVE  /\ place = Len(got[r]) + 1 /\ Len(got[r]) + 1 <= Len(Sent(r)) /\ f \in Frames
  <2>1. LiveFlow(r)
    BY <1>1, <1>4, <1>9 DEF LiveInv
  <2>2. ready[1][2] = Len(got[r]) + 1
    BY <1>3, <1>4, <2>1 DEF LiveFlow
  <2>3. OrderOf(r).expected = Len(got[r]) + Len(ready) /\ OrderOf(r).expected <= Len(Sent(r))
    BY <1>4, <2>1 DEF LiveFlow
  <2>4. Len(got[r]) \in Nat
    BY <1>1, <1>4 DEF DataInv
  <2>5. Len(Sent(r)) \in Nat /\ Len(Sent(r)) <= Len(written[r]) /\ written[r] \in Seq(Frames)
    BY <1>1, <1>4, SentFacts
  <2>6. place \in 1 .. Len(written[r]) /\ Len(got[r]) + 1 <= Len(Sent(r))
    BY <1>3, <2>2, <2>3, <2>4, <2>5
  <2>7. f \in Frames
    BY <2>5, <2>6
  <2>8. QED
    BY <1>3, <2>2, <2>6, <2>7
<1>10. ASSUME ~Live(r) PROVE UNCHANGED <<table, orders, held, got, broken>>
  BY <1>5, <1>10 DEF Route
<1>11. broken' \subseteq Requests
  BY <1>1, <1>4, <1>8, <1>10 DEF ReceiverTypes
<1>12. QED
  BY <1>2, <1>3, <1>4, <1>7, <1>8, <1>9, <1>10, <1>11

LEMMA RouteStep ==
  ASSUME RestInv, OvertakenAreTaken, Route
  PROVE  RestInv' /\ OvertakenAreTaken'
<1>0. PICK r, f : r = Head(ready)[1] /\ f = written[r][Head(ready)[2]]
  OBVIOUS
<1>1. /\ WriterTypes /\ ReceiverTypes /\ DataInv
      /\ WriterInv /\ FreshInv /\ GotInv /\ ReadyInv /\ LiveInv
  BY DEF RestInv, FlowInv
<1>2. /\ r \in Requests /\ ready # <<>> /\ Head(ready) = ready[1]
      /\ ready' = Tail(ready)
      /\ UNCHANGED <<phase, counters, terminated, written, travelling, repeats, refused>>
      /\ Live(r) =>
           /\ got' = [got EXCEPT ![r] = Append(got[r], f)]
           /\ f = written[r][Len(got[r]) + 1]
           /\ Len(got[r]) + 1 <= Len(Sent(r))
           /\ f \in Frames
           /\ IsTerminal(f.kind) => Ended(r)
           /\ ~IsTerminal(f.kind) => UNCHANGED <<table, orders, held>>
      /\ ~Live(r) => UNCHANGED <<table, orders, held, got>>
      /\ broken' \subseteq Requests
  BY <1>0, RouteFacts
<1>3. /\ ready \in Seq(Requests \X Nat) /\ ready' \in Seq(Requests \X Nat)
      /\ Len(ready) \in Nat /\ Len(ready) >= 1 /\ Len(ready') = Len(ready) - 1
      /\ \A k \in 1 .. Len(ready') : ready'[k] = ready[k + 1] /\ k + 1 \in 1 .. Len(ready)
      /\ ready' # <<>> <=> Len(ready') >= 1
  <2>1. ready \in Seq(Requests \X Nat) /\ ready # <<>>
    BY <1>1, <1>2 DEF DataInv
  <2> DEFINE S == Requests \X Nat
  <2> HIDE DEF S
  <2>2. ready \in Seq(S)
    BY <2>1 DEF S
  <2>3. Tail(ready) \in Seq(S)
    BY <2>1, <2>2
  <2>4. Len(ready) \in Nat /\ Len(ready) >= 1 /\ Len(Tail(ready)) = Len(ready) - 1
    BY <2>1, <2>2
  <2>5. \A k \in 1 .. Len(Tail(ready)) : Tail(ready)[k] = ready[k + 1] /\ k + 1 \in 1 .. Len(ready)
    BY <2>1, <2>2, <2>4
  <2>6. Tail(ready) # <<>> <=> Len(Tail(ready)) >= 1
    <3>1. PICK z \in Seq(S) : z = Tail(ready)
      BY <2>3
    <3>2. z # <<>> <=> Len(z) >= 1
      OBVIOUS
    <3>3. QED
      BY <3>1, <3>2
  <2>7. QED
    BY <1>2, <2>1, <2>3, <2>4, <2>5, <2>6 DEF S
<1>4. r = ready[1][1] /\ ReadyFor(r) /\ \A q \in Requests \ {r} : ~ReadyFor(q)
  BY <1>0, <1>2 DEF ReadyFor
<1>5. /\ ReadyInv' /\ \A k \in 1 .. Len(ready') : ready'[k][1] = r
      /\ \A q \in Requests \ {r} : ~ReadyFor(q)'
      /\ ReadyFor(r)' <=> Len(ready') >= 1
  <2>1. \A k \in 1 .. Len(ready') : ready'[k][1] = r
    BY <1>1, <1>3, <1>4 DEF ReadyInv
  <2>2. /\ Len(ready') >= 1 => 1 \in 1 .. Len(ready')
        /\ \A k \in 1 .. Len(ready') : 1 \in 1 .. Len(ready')
    BY <1>3
  <2>3. ReadyInv'
    BY <2>1, <2>2 DEF ReadyInv
  <2>4. \A q \in Requests : ReadyFor(q)' <=> (Len(ready') >= 1 /\ r = q)
    BY <1>3, <2>1, <2>2 DEF ReadyFor
  <2>5. QED
    BY <1>2, <2>1, <2>3, <2>4
<1>6. CASE ~Live(r)
  <2>1. UNCHANGED <<table, orders, held, got>>
    BY <1>2, <1>6
  <2>2. WriterTypes' /\ ReceiverTypes' /\ DataInv' /\ WriterInv' /\ GotInv'
    <3>1. WriterTypes' /\ ReceiverTypes'
      BY <1>1, <1>2, <2>1 DEF WriterTypes, ReceiverTypes, LiveRids
    <3>2. DataInv'
      <4> HIDE DEF Frames
      <4>1. QED
        BY <1>1, <1>2, <1>3, <2>1 DEF DataInv
    <3>3. WriterInv'
      BY <1>1, <1>2 DEF WriterInv, Sent, NextSeq
    <3>4. GotInv'
      BY <1>1, <1>2, <2>1 DEF GotInv, Sent
    <3>5. QED
      BY <3>1, <3>2, <3>3, <3>4
  <2>3. FreshInv'
    BY <1>1, <1>2, <1>4, <1>5, <2>1 DEF FreshInv, Live
  <2>4. LiveInv'
    <3> SUFFICES ASSUME NEW q \in Requests, Live(q)' PROVE LiveFlow(q)'
      BY DEF LiveInv
    <3>1. Live(q) /\ LiveFlow(q) /\ q # r
      BY <1>1, <1>6, <2>1 DEF Live, LiveInv
    <3>2. QED
      BY <1>2, <1>4, <1>5, <2>1, <3>1 DEF LiveFlow, OrderOf, HeldOf, Sent
  <2>5. QED
    BY <1>2, <1>5, <2>2, <2>3, <2>4 DEF RestInv, FlowInv, OvertakenAreTaken
<1>7. CASE Live(r)
  <2>1. /\ got' = [got EXCEPT ![r] = Append(got[r], f)]
        /\ f = written[r][Len(got[r]) + 1] /\ Len(got[r]) + 1 <= Len(Sent(r)) /\ f \in Frames
        /\ IsTerminal(f.kind) => Ended(r)
        /\ ~IsTerminal(f.kind) => UNCHANGED <<table, orders, held>>
    BY <1>2, <1>7
  <2>2. /\ got \in [Requests -> Seq(Frames)] /\ got[r] \in Seq(Frames) /\ Len(got[r]) \in Nat
    <3>1. got \in [Requests -> Seq(Frames)]
      BY <1>1 DEF DataInv
    <3> HIDE DEF Frames
    <3>2. got[r] \in Seq(Frames)
      BY <1>2, <3>1
    <3>3. QED
      BY <3>1, <3>2
  <2> HIDE DEF Frames
  <2>3. /\ Append(got[r], f) \in Seq(Frames) /\ Len(Append(got[r], f)) = Len(got[r]) + 1
        /\ \A k \in 1 .. Len(got[r]) : Append(got[r], f)[k] = got[r][k]
        /\ Append(got[r], f)[Len(got[r]) + 1] = f
    BY <2>1, <2>2
  <2>4. /\ got' \in [Requests -> Seq(Frames)]
        /\ got'[r] = Append(got[r], f) /\ \A q \in Requests \ {r} : got'[q] = got[q]
    BY <1>2, <2>1, <2>2, <2>3, ExceptType
  <2>5. \A k \in 1 .. (Len(got[r]) + 1) : k \in 1 .. Len(got[r]) \/ k = Len(got[r]) + 1
    <3>1. \A n \in Nat : \A k \in 1 .. (n + 1) : k \in 1 .. n \/ k = n + 1
      OBVIOUS
    <3>2. QED
      BY <2>2, <3>1
  <2>6. /\ LiveRids(table)' \subseteq LiveRids(table)
        /\ \A q \in Requests \ {r} : Live(q)' => OrderOf(q)' = OrderOf(q) /\ HeldOf(q)' = HeldOf(q)
        /\ Live(r)' => ~IsTerminal(f.kind)
        /\ DOMAIN orders' \subseteq DOMAIN orders
        /\ DOMAIN held' = DOMAIN orders'
        /\ \A q \in DOMAIN orders' : orders'[q] = orders[q] /\ held'[q] = held[q]
        /\ table' = [live |-> table'.live, ended |-> table'.ended, registered |-> table'.registered]
    <3>1. DOMAIN held = DOMAIN orders
      BY <1>1 DEF ReceiverTypes
    <3>2. CASE IsTerminal(f.kind)
      <4>1. /\ table' = Terminated(table, r, RecentCapacity)
            /\ orders' = [q \in DOMAIN orders \ {r} |-> orders[q]]
            /\ held' = [q \in DOMAIN held \ {r} |-> held[q]]
        BY <2>1, <3>2 DEF Ended
      <4>2. table = [live |-> table.live, ended |-> table.ended, registered |-> table.registered]
        BY <1>1 DEF DataInv
      <4>3. /\ DOMAIN table'.live = DOMAIN table.live \ {r}
            /\ table' = [live |-> table'.live, ended |-> table'.ended, registered |-> table'.registered]
        BY <4>1, <4>2 DEF Terminated, Struck
      <4>4. \A q \in Requests \ {r} : OrderOf(q)' = OrderOf(q) /\ HeldOf(q)' = HeldOf(q)
        BY <3>1, <4>1 DEF OrderOf, HeldOf
      <4>5. LiveRids(table)' \subseteq LiveRids(table) /\ ~Live(r)'
        BY <4>3 DEF LiveRids, Live
      <4>6. DOMAIN orders' = DOMAIN orders \ {r} /\ DOMAIN held' = DOMAIN orders \ {r}
        BY <3>1, <4>1
      <4>7. \A q \in DOMAIN orders' : orders'[q] = orders[q] /\ held'[q] = held[q]
        BY <3>1, <4>1, <4>6
      <4>8. QED
        BY <4>3, <4>4, <4>5, <4>6, <4>7
    <3>3. CASE ~IsTerminal(f.kind)
      BY <1>1, <2>1, <3>1, <3>3 DEF LiveRids, Live, OrderOf, HeldOf, DataInv
    <3>4. QED
      BY <3>2, <3>3
  <2>7. WriterTypes' /\ ReceiverTypes'
    BY <1>1, <1>2, <2>6 DEF WriterTypes, ReceiverTypes
  <2>8. DataInv'
    BY <1>1, <1>2, <1>3, <2>4, <2>6 DEF DataInv
  <2>9. WriterInv'
    BY <1>1, <1>2 DEF WriterInv, Sent, NextSeq
  <2>10. \A q \in Requests : Sent(q)' = Sent(q)
    BY <1>2 DEF Sent
  <2>11. GotInv'
    <3> SUFFICES ASSUME NEW q \in Requests
                 PROVE  /\ Len(got'[q]) <= Len(Sent(q))
                        /\ \A k \in 1 .. Len(got'[q]) : got'[q][k] = written[q][k]
      BY <1>2, <2>10 DEF GotInv
    <3>1. CASE q # r
      BY <1>1, <2>4, <3>1 DEF GotInv
    <3>2. CASE q = r
      BY <1>1, <2>1, <2>3, <2>4, <2>5, <3>2 DEF GotInv
    <3>3. QED
      BY <3>1, <3>2
  <2>12. FreshInv'
    <3>1. phase[r] # "none"
      BY <1>1, <1>2, <1>7 DEF FreshInv
    <3>2. QED
      BY <1>1, <1>2, <1>5, <2>4, <2>6, <3>1 DEF FreshInv, Live
  <2>13. LiveInv'
    <3> SUFFICES ASSUME NEW q \in Requests, Live(q)' PROVE LiveFlow(q)'
      BY DEF LiveInv
    <3>1. Live(q) /\ LiveFlow(q)
      BY <1>1, <2>6 DEF Live, LiveInv
    <3>2. CASE q # r
      <4>1. OrderOf(q)' = OrderOf(q) /\ HeldOf(q)' = HeldOf(q) /\ got'[q] = got[q]
            /\ ~ReadyFor(q) /\ ~ReadyFor(q)' /\ Sent(q)' = Sent(q) /\ travelling' = travelling
        BY <1>2, <1>4, <1>5, <2>4, <2>6, <2>10, <3>2
      <4>2. QED
        BY <3>1, <4>1 DEF LiveFlow
    <3>3. CASE q = r
      <4> DEFINE e == OrderOf(r).expected
                 h == OrderOf(r).held
      <4>1. ~IsTerminal(f.kind)
        <5>1. Live(r)'
          BY <3>3
        <5>2. QED
          BY <2>6, <5>1
      <4>2. OrderOf(r)' = OrderOf(r) /\ HeldOf(r)' = HeldOf(r) /\ Sent(r)' = Sent(r)
            /\ travelling' = travelling
        BY <1>2, <2>1, <2>10, <4>1 DEF OrderOf, HeldOf
      <4>3. /\ e = Len(got[r]) + Len(ready)
            /\ e <= Len(Sent(r))
            /\ \A n \in h : n < Len(Sent(r)) /\ HeldOf(r)[n] = n + 1 /\ n <= e + Displacement
            /\ \A i \in 1 .. Len(Sent(r)) : i <= e \/ i - 1 \in h \/ i \in travelling[r]
            /\ \A i \in 1 .. Len(got[r]) : ~IsTerminal(got[r][i].kind)
            /\ \A k \in 1 .. Len(ready) : ready[k][2] = Len(got[r]) + k
        BY <1>4, <3>1, <3>3 DEF LiveFlow
      <4> HIDE DEF e, h
      <4>4. Len(got'[r]) = Len(got[r]) + 1
        BY <2>3, <2>4
      <4>5. e = Len(got'[r]) + (IF ReadyFor(r)' THEN Len(ready') ELSE 0)
        <5>1. Len(ready) >= 1 /\ Len(ready) \in Nat /\ Len(ready') = Len(ready) - 1
              /\ Len(got[r]) \in Nat
          BY <1>3, <2>2
        <5>2. CASE ReadyFor(r)'
          BY <4>3, <4>4, <5>1, <5>2
        <5>3. CASE ~ReadyFor(r)'
          BY <1>5, <4>3, <4>4, <5>1, <5>3
        <5>4. QED
          BY <5>2, <5>3
      <4>6. \A k \in 1 .. Len(got'[r]) : ~IsTerminal(got'[r][k].kind)
        BY <2>3, <2>4, <2>5, <4>1, <4>3, <4>4
      <4>7. \A k \in 1 .. Len(ready') : ready'[k][2] = Len(got'[r]) + k
        <5>1. SUFFICES ASSUME NEW k \in 1 .. Len(ready')
                       PROVE  ready'[k][2] = Len(got'[r]) + k
          OBVIOUS
        <5>2. ready'[k] = ready[k + 1] /\ k + 1 \in 1 .. Len(ready)
          BY <1>3
        <5>3. ready[k + 1][2] = Len(got[r]) + (k + 1)
          BY <4>3, <5>2
        <5>4. k \in Nat /\ Len(got[r]) \in Nat
          BY <1>3, <2>2
        <5>5. \A m, n \in Nat : m + (n + 1) = (m + 1) + n
          OBVIOUS
        <5>6. ready'[k][2] = Len(got[r]) + (k + 1)
          BY <5>2, <5>3
        <5>7. Len(got[r]) + (k + 1) = (Len(got[r]) + 1) + k
          BY <5>4, <5>5
        <5>8. QED
          BY <4>4, <5>6, <5>7
      <4>8. QED
        BY <3>3, <4>2, <4>3, <4>5, <4>6, <4>7 DEF LiveFlow, e, h
    <3>4. QED
      BY <3>2, <3>3
  <2>14. QED
    BY <1>2, <1>5, <2>7, <2>8, <2>9, <2>11, <2>12, <2>13 DEF RestInv, FlowInv, OvertakenAreTaken
<1>8. QED
  BY <1>6, <1>7

(***************************************************************************)
(* All the steps.                                                          *)
(***************************************************************************)
QuietAction == SameFresh /\ UNCHANGED <<writerVars, receiverVars>>

WriteAction ==
  \E r \in Requests, frame \in Unnumbered :
    SameFresh /\ phase[r] # "none" /\ WriteFrame(r, frame) /\ UNCHANGED receiverVars

ArriveAction ==
  \E r \in Requests : \E i \in travelling[r] : ArriveOnce(r, i) \/ ArriveAndStay(r, i)

(* Every kind of frame that is written carries fields of their types.      *)
LEMMA FrameType ==
  ASSUME NEW kind \in Kinds, NEW s \in Streams \cup {"none"}, NEW index \in Int,
         NEW payload \in Seq(Nat)
  PROVE  Frame(kind, s, index, payload) \in Unnumbered
BY DEF Frame, Unnumbered

LEMMA PlainType ==
  ASSUME NEW kind \in Kinds
  PROVE  Plain(kind) \in Unnumbered
<1>1. NoCount \in Int /\ <<>> \in Seq(Nat)
  BY DEF NoCount
<1>2. QED
  BY <1>1, FrameType DEF Plain

LEMMA StreamStep ==
  ASSUME HandlerTypes, NEW s \in Streams, StartStream(s) \/ CloseStream(s)
  PROVE  WriteAction
<1>1. Owner[s] \in Requests /\ UNCHANGED <<phase, receiverVars>>
  BY ResponseAssumption DEF StartStream, CloseStream, handlerVars
<1>2. phase[Owner[s]] # "none"
  BY DEF StartStream, CloseStream, MayEmit
<1>3. NoCount \in Int /\ <<>> \in Seq(Nat) /\ chunkIndex[s] \in Int
      /\ "STREAM_START" \in Kinds /\ "STREAM_END" \in Kinds
  BY DEF NoCount, HandlerTypes, Kinds
<1>4. /\ Frame("STREAM_START", s, NoCount, <<>>) \in Unnumbered
      /\ Frame("STREAM_END", s, chunkIndex[s], <<>>) \in Unnumbered
  BY <1>3, FrameType
<1>5. \E frame \in Unnumbered : WriteFrame(Owner[s], frame)
  BY <1>4 DEF StartStream, CloseStream
<1>6. QED
  BY <1>1, <1>2, <1>5 DEF WriteAction, SameFresh

LEMMA ChunkStep ==
  ASSUME HandlerTypes, ThreadInv, NEW t \in Threads, WriteChunk(t)
  PROVE  WriteAction
<1>1. Output[t] \in Streams /\ Owner[Output[t]] \in Requests /\ UNCHANGED <<phase, receiverVars>>
  BY ResponseAssumption DEF WriteChunk, handlerVars
<1>2. phase[Owner[Output[t]]] # "none" /\ batch[t] # <<>> /\ taken[t] \in Int
  BY DEF ThreadInv, WriteChunk, HandlerTypes, NotTaken
<1>3. Head(batch[t]) \in Seq(Nat)
  <2>1. batch[t] \in Seq(Seq(Nat))
    BY DEF HandlerTypes
  <2>2. QED
    BY <1>2, <2>1
<1>4. Frame("CHUNK", Output[t], taken[t], Head(batch[t])) \in Unnumbered
  BY <1>1, <1>2, <1>3, FrameType DEF Kinds
<1>5. WriteFrame(Owner[Output[t]], Frame("CHUNK", Output[t], taken[t], Head(batch[t])))
  BY DEF WriteChunk
<1>6. QED
  BY <1>1, <1>2, <1>4, <1>5 DEF WriteAction, SameFresh

LEMMA LastStep ==
  ASSUME HandlerTypes, NEW r \in Requests, WriteTerminal(r) \/ WriteLog(r)
  PROVE  WriteAction
<1>1. "END" \in Kinds /\ "ERR" \in Kinds /\ "LOG" \in Kinds
  BY DEF Kinds
<1>2. \E frame \in Unnumbered : WriteFrame(r, frame)
  <2>1. Plain("END") \in Unnumbered /\ Plain("ERR") \in Unnumbered /\ Plain("LOG") \in Unnumbered
    BY <1>1, PlainType
  <2>2. QED
    BY <2>1 DEF WriteTerminal, WriteLog
<1>3. phase[r] # "none" /\ UNCHANGED receiverVars /\ SameFresh
  BY DEF WriteTerminal, WriteLog, SameFresh, handlerVars, HandlerTypes
<1>4. QED
  BY <1>2, <1>3 DEF WriteAction

LEMMA Steps ==
  ASSUME HandlerTypes, ThreadInv, [Next]_vars
  PROVE  \/ QuietAction
         \/ WriteAction
         \/ \E r \in Requests : Accept(r)
         \/ ArriveAction
         \/ Route
<1>1. ASSUME NEW r \in Requests, Return(r) \/ Fail(r) PROVE QuietAction
  BY <1>1 DEF Return, Fail, QuietAction, SameFresh, HandlerTypes
<1>2. ASSUME NEW r \in Requests, Cancel(r) PROVE QuietAction
  BY <1>2 DEF Cancel, QuietAction, SameFresh
<1>3. ASSUME NEW s \in Streams, FlushLast(s) PROVE QuietAction
  BY <1>3 DEF FlushLast, QuietAction, SameFresh, handlerVars
<1>4. ASSUME NEW t \in Threads, EmitBytes(t) \/ EmitValue(t) \/ TakeIndex(t) PROVE QuietAction
  BY <1>4 DEF EmitBytes, EmitValue, Emits, TakeIndex, QuietAction, SameFresh, handlerVars
<1>5. CASE UNCHANGED vars
  BY <1>5 DEF vars, QuietAction, SameFresh, handlerVars
<1>6. QED
  BY <1>1, <1>2, <1>3, <1>4, <1>5, StreamStep, ChunkStep, LastStep DEF Next, ArriveAction

LEMMA InitRest == Init => HandlerTypes /\ ThreadInv /\ RestInv /\ OvertakenAreTaken
<1> SUFFICES ASSUME Init PROVE HandlerTypes /\ ThreadInv /\ RestInv /\ OvertakenAreTaken
  OBVIOUS
<1>1. HandlerTypes
  BY ResponseAssumption DEF Init, HandlerTypes
<1>2. ThreadInv
  BY DEF Init, ThreadInv
<1>3. WriterTypes
  BY ResponseAssumption DEF Init, WriterTypes
<1>4. ReceiverTypes
  BY ResponseAssumption DEF Init, ReceiverTypes, TableEmpty, LiveRids
<1>5. DataInv
  <2>1. <<>> \in Seq(Frames) /\ <<>> \in Seq(Requests \X Nat)
    OBVIOUS
  <2> HIDE DEF Frames
  <2>2. QED
    BY <2>1 DEF Init, DataInv, TableEmpty
<1>6. \A r \in Requests : Sent(r) = <<>>
  BY DEF Init, Sent, UpToTerminal
<1>7. FlowInv
  <2>1. WriterInv
    BY <1>6 DEF Init, WriterInv, NextSeq
  <2>2. FreshInv
    BY DEF Init, FreshInv, Live, LiveRids, TableEmpty, ReadyFor
  <2>3. GotInv
    BY <1>6 DEF Init, GotInv
  <2>4. ReadyInv
    BY DEF Init, ReadyInv
  <2>5. LiveInv
    BY DEF Init, LiveInv, Live, LiveRids, TableEmpty
  <2>6. QED
    BY <2>1, <2>2, <2>3, <2>4, <2>5 DEF FlowInv
<1>8. OvertakenAreTaken
  BY DEF Init, OvertakenAreTaken
<1>9. QED
  BY <1>1, <1>2, <1>3, <1>4, <1>5, <1>7, <1>8 DEF RestInv

LEMMA NextRest ==
  ASSUME Displacement <= HoldLimit,
         HandlerTypes, ThreadInv, RestInv, OvertakenAreTaken, [Next]_vars
  PROVE  HandlerTypes' /\ ThreadInv' /\ RestInv' /\ OvertakenAreTaken'
<1>1. HandlerTypes' /\ ThreadInv'
  BY HandlerStep
<1>2. phase \in [Requests -> {"none", "running", "finishing", "failed", "over"}]
  BY DEF HandlerTypes
<1>3. CASE QuietAction
  <2>1. RestInv'
    BY <1>3, QuietStep DEF QuietAction
  <2>2. QED
    BY <1>1, <1>3, <2>1 DEF QuietAction, receiverVars, OvertakenAreTaken
<1>4. CASE WriteAction
  <2>1. RestInv'
    BY <1>4, WriteStep DEF WriteAction
  <2>2. QED
    BY <1>1, <1>4, <2>1 DEF WriteAction, receiverVars, OvertakenAreTaken
<1>5. ASSUME NEW r \in Requests, Accept(r) PROVE RestInv' /\ OvertakenAreTaken'
  BY <1>2, <1>5, AcceptStep DEF Accept, OvertakenAreTaken
<1>6. CASE ArriveAction
  BY <1>1, <1>2, <1>6, ArriveStep DEF ArriveAction
<1>7. CASE Route
  BY <1>1, <1>7, RouteStep
<1>8. QED
  BY <1>1, <1>3, <1>4, <1>5, <1>6, <1>7, Steps
-----------------------------------------------------------------------------
(***************************************************************************)
(* The state of the handlers, the writer and the receiver is what TypeOK   *)
(* says, however threads, frames and cancels interleave                    *)
(* (cartridge_runtime.py:1854-1937, frame.py:1463-1548).                   *)
(***************************************************************************)
THEOREM TypeCorrect ==
  ASSUME Displacement <= HoldLimit
  PROVE  Spec => []TypeOK
<1> DEFINE I == HandlerTypes /\ ThreadInv /\ RestInv /\ OvertakenAreTaken
<1>1. Init => I
  BY InitRest
<1>2. I /\ [Next]_vars => I'
  BY NextRest
<1>3. I => TypeOK
  BY TypeParts DEF RestInv
<1>4. QED
  BY <1>1, <1>2, <1>3, PTL DEF Spec

(***************************************************************************)
(* While frames are overtaken by no more others than the receiver may      *)
(* hold, it refuses none of a live request for want of room                *)
(* (frame.py:1498-1506).                                                   *)
(***************************************************************************)
THEOREM OvertakenFindRoom ==
  ASSUME Displacement <= HoldLimit
  PROVE  Spec => []OvertakenAreTaken
<1> DEFINE I == HandlerTypes /\ ThreadInv /\ RestInv /\ OvertakenAreTaken
<1>1. Init => I
  BY InitRest
<1>2. I /\ [Next]_vars => I'
  BY NextRest
<1>3. QED
  BY <1>1, <1>2, PTL DEF Spec

(***************************************************************************)
(* The refinement: the frames of a flow up to its terminal are what is     *)
(* sent, and what is routed is received.                                   *)
(***************************************************************************)
SentAll == [r \in Requests |-> UpToTerminal(written[r])]

LEMMA OverIsTerminal ==
  ASSUME DataInv, NEW r \in Requests
  PROVE  Ordered!Over(Sent(r)) <=> HasTerminal(written[r])
<1>1. /\ Len(Sent(r)) \in Nat /\ Len(Sent(r)) <= Len(written[r]) /\ Sent(r) \in Seq(Frames)
      /\ \A i \in 1 .. Len(Sent(r)) : Sent(r)[i] = written[r][i]
      /\ HasTerminal(written[r]) =>
           Len(Sent(r)) > 0 /\ IsTerminal(written[r][Len(Sent(r))].kind)
      /\ Len(written[r]) \in Nat /\ DOMAIN written[r] = 1 .. Len(written[r])
  <2>1. written[r] \in Seq(Frames)
    BY SentFacts
  <2> HIDE DEF Frames
  <2>2. Sent(r) \in Seq(Frames)
    BY <2>1, UpToFacts DEF Sent
  <2>3. Len(written[r]) \in Nat /\ DOMAIN written[r] = 1 .. Len(written[r])
    BY <2>1
  <2>4. QED
    BY <2>2, <2>3, SentFacts
<1> HIDE DEF Frames
<1>2. Sent(r) # <<>> <=> Len(Sent(r)) > 0
  BY <1>1
<1>3. CASE HasTerminal(written[r])
  <2>1. Len(Sent(r)) \in 1 .. Len(Sent(r))
    BY <1>1, <1>3
  <2>2. IsTerminal(Sent(r)[Len(Sent(r))].kind)
    BY <1>1, <1>3, <2>1
  <2>3. QED
    BY <1>1, <1>2, <1>3, <2>2 DEF Ordered!Over, Ordered!IsTerminal, IsTerminal
<1>4. CASE ~HasTerminal(written[r])
  <2>1. \A i \in 1 .. Len(written[r]) : ~IsTerminal(written[r][i].kind)
    BY <1>1, <1>4 DEF HasTerminal
  <2>2. ASSUME Sent(r) # <<>> PROVE ~IsTerminal(Sent(r)[Len(Sent(r))].kind)
    <3>1. Len(Sent(r)) \in 1 .. Len(Sent(r)) /\ Len(Sent(r)) \in 1 .. Len(written[r])
      BY <1>1, <1>2, <2>2
    <3>2. QED
      BY <1>1, <2>1, <3>1
  <2>3. QED
    BY <1>4, <2>2 DEF Ordered!Over, Ordered!IsTerminal, IsTerminal
<1>5. QED
  BY <1>3, <1>4

(* A frame that is written is sent, or comes after the terminal.           *)
LEMMA WriteImplements ==
  ASSUME RestInv, WriteAction
  PROVE  [Ordered!Next]_<<SentAll, got>>
<1>1. DataInv
  BY DEF RestInv
<1>2. PICK r \in Requests, frame \in Unnumbered :
        WriteFrame(r, frame) /\ UNCHANGED receiverVars
  BY DEF WriteAction
<1>3. UNCHANGED got
  BY <1>2 DEF receiverVars
<1>4. CASE UNCHANGED writerVars
  BY <1>3, <1>4 DEF writerVars, SentAll
<1>5. CASE ~UNCHANGED writerVars
  <2>1. PICK f \in Frames : written' = [written EXCEPT ![r] = Append(written[r], f)]
    BY <1>2, <1>5, Written
  <2>2. written \in [Requests -> Seq(Frames)] /\ written[r] \in Seq(Frames)
    BY <1>1 DEF DataInv
  <2> HIDE DEF Frames
  <2>3. /\ written'[r] = Append(written[r], f)
        /\ \A q \in Requests \ {r} : written'[q] = written[q]
    BY <2>1, <2>2
  <2>4. CASE HasTerminal(written[r])
    <3>1. UpToTerminal(written'[r]) = UpToTerminal(written[r])
      BY <2>2, <2>3, <2>4, UpToAppend
    <3>2. SentAll' = SentAll
      BY <2>3, <3>1 DEF SentAll
    <3>3. QED
      BY <1>3, <3>2
  <2>5. CASE ~HasTerminal(written[r])
    <3>1. /\ UpToTerminal(written'[r]) = Append(written[r], f)
          /\ UpToTerminal(written[r]) = written[r]
      BY <2>2, <2>3, <2>5, UpToAppend, NoTerminal
    <3>2. /\ SentAll[r] = written[r] /\ SentAll'[r] = Append(written[r], f)
          /\ SentAll' = [SentAll EXCEPT ![r] = Append(written[r], f)]
      BY <2>3, <3>1 DEF SentAll
    <3>3. /\ Len(SentAll'[r]) = Len(SentAll[r]) + 1
          /\ SentAll'[r][Len(SentAll[r]) + 1] = f
      BY <2>2, <3>2
    <3>4. ~Ordered!Over(SentAll[r])
      BY <1>1, <2>5, OverIsTerminal DEF Sent, SentAll
    <3>5. SentAll' = [SentAll EXCEPT ![r] = Append(SentAll[r], SentAll'[r][Len(SentAll[r]) + 1])]
      BY <3>2, <3>3
    <3>6. Ordered!Send(r)
      BY <1>3, <3>3, <3>4, <3>5 DEF Ordered!Send, SentAll
    <3>7. QED
      BY <3>6 DEF Ordered!Next
  <2>6. QED
    BY <2>4, <2>5
<1>6. QED
  BY <1>4, <1>5

(* A frame of a live request that is routed is the next one sent.          *)
LEMMA RouteImplements ==
  ASSUME RestInv, Route
  PROVE  [Ordered!Next]_<<SentAll, got>>
<1>1. PICK r, f : r = Head(ready)[1] /\ f = written[r][Head(ready)[2]]
  OBVIOUS
<1>2. /\ r \in Requests /\ UNCHANGED written
      /\ Live(r) =>
           /\ got' = [got EXCEPT ![r] = Append(got[r], f)]
           /\ f = written[r][Len(got[r]) + 1] /\ Len(got[r]) + 1 <= Len(Sent(r))
      /\ ~Live(r) => UNCHANGED got
  BY <1>1, RouteFacts
<1>3. SentAll' = SentAll /\ SentAll[r] = Sent(r)
  BY <1>2 DEF SentAll, Sent
<1>4. CASE ~Live(r)
  BY <1>2, <1>3, <1>4
<1>5. CASE Live(r)
  <2>1. DataInv
    BY DEF RestInv
  <2>2. /\ Len(Sent(r)) \in Nat /\ Len(got[r]) \in Nat
        /\ \A i \in 1 .. Len(Sent(r)) : Sent(r)[i] = written[r][i]
    BY <1>2, <2>1, SentFacts DEF DataInv
  <2>3. Len(got[r]) < Len(Sent(r)) /\ f = Sent(r)[Len(got[r]) + 1]
    BY <1>2, <1>5, <2>2
  <2>4. Ordered!Receive(r)
    BY <1>2, <1>3, <1>5, <2>3 DEF Ordered!Receive, SentAll
  <2>5. QED
    BY <1>2, <2>4 DEF Ordered!Next
<1>6. QED
  BY <1>4, <1>5

(***************************************************************************)
(* A flow is a sequence of frames that ends with at most one terminal, and *)
(* its receiver gets that sequence in order, each frame once, whatever was *)
(* overtaken within the limit, repeated or written too late                *)
(* (cartridge_runtime.py:305-318, frame.py:1463-1548).                     *)
(***************************************************************************)
THEOREM ImplementsOrderedFlow ==
  ASSUME Displacement <= HoldLimit
  PROVE  Spec => IsOrderedFlow
<1> DEFINE I == HandlerTypes /\ ThreadInv /\ RestInv /\ OvertakenAreTaken
<1>1. Init => I
  BY InitRest
<1>2. I /\ [Next]_vars => I'
  BY NextRest
<1>3. Init => Ordered!Init
  BY DEF Init, Ordered!Init, UpToTerminal
<1>4. I /\ [Next]_vars => [Ordered!Next]_<<SentAll, got>>
  <2> SUFFICES ASSUME I, [Next]_vars PROVE [Ordered!Next]_<<SentAll, got>>
    OBVIOUS
  <2>1. CASE QuietAction
    BY <2>1 DEF QuietAction, writerVars, receiverVars, SentAll
  <2>2. ASSUME NEW r \in Requests, Accept(r) PROVE [Ordered!Next]_<<SentAll, got>>
    BY <2>2 DEF Accept, writerVars, SentAll
  <2>3. CASE ArriveAction
    <3>1. PICK r \in Requests : \E i \in travelling[r] : Arrive(r, i)
      BY <2>3 DEF ArriveAction, ArriveOnce, ArriveAndStay
    <3>2. UNCHANGED <<written, got>>
      BY <3>1 DEF Arrive
    <3>3. QED
      BY <3>2 DEF SentAll
  <2>4. QED
    BY <2>1, <2>2, <2>3, Steps, WriteImplements, RouteImplements
<1>5. QED
  BY <1>1, <1>2, <1>3, <1>4, PTL DEF Spec, IsOrderedFlow, Ordered!Spec, Ordered!vars, SentAll
-----------------------------------------------------------------------------
(***************************************************************************)
(* The rules of a request's frames: what the first n frames of a sequence  *)
(* started, ended and numbered.                                            *)
(***************************************************************************)
Starts(w, n) ==
  {s \in Streams : \E i \in 1 .. n : w[i].kind = "STREAM_START" /\ w[i].stream = s}

Ends(w, n) ==
  {s \in Streams : \E i \in 1 .. n : w[i].kind = "STREAM_END" /\ w[i].stream = s}

Indices(w, s, n) ==
  {m \in Nat : \E i \in 1 .. n : w[i].kind = "CHUNK" /\ w[i].stream = s /\ w[i].index = m}

(* The frame at place i may follow those before it.                        *)
Follows(w, i, r) ==
  LET f == w[i] IN
  /\ f.kind = "STREAM_START" => f.stream \in StreamsOf(r) \ Starts(w, i - 1)
  /\ f.kind \in {"CHUNK", "STREAM_END"} =>
       /\ f.stream \in Starts(w, i - 1) \ Ends(w, i - 1) /\ f.index \in Nat
       /\ Indices(w, f.stream, i - 1) = 0 .. (f.index - 1)
  /\ f.kind = "END" => Starts(w, i - 1) \subseteq Ends(w, i - 1)

RulesInv == \A r \in Requests : \A i \in 1 .. Len(Sent(r)) : Follows(written[r], i, r)

(* A thread has something to write only for a stream that is open.         *)
PhaseInv ==
  /\ \A r \in Requests : HasTerminal(written[r]) \/ r \in Range(terminated) => phase[r] = "over"
  /\ \A t \in Threads :
       /\ batch[t] # <<>> => /\ phase[Owner[Output[t]]] \in {"running", "finishing"}
                             /\ Output[t] \in started \ closed
       /\ taken[t] # NotTaken => taken[t] + 1 = chunkIndex[Output[t]]
  /\ \A s \in Streams : buffer[s] # <<>> => s \in started \ closed
  /\ \A s \in closed : phase[Owner[s]] \in {"finishing", "over"}

(* The index of the next CHUNK that is written to a stream.                *)
Due(s) ==
  IF \E t \in Threads : Output[t] = s /\ taken[t] # NotTaken
  THEN chunkIndex[s] - 1 ELSE chunkIndex[s]

(* Until the handler ends, what was written is what its outputs stand at.  *)
Account(r) ==
  LET w == written[r]
      n == Len(written[r])
  IN  /\ Starts(w, n) = started \cap StreamsOf(r)
      /\ Ends(w, n) = closed \cap StreamsOf(r)
      /\ \A s \in StreamsOf(r) : Indices(w, s, n) = 0 .. (Due(s) - 1)

AccountInv ==
  \A r \in Requests : phase[r] \in {"none", "running", "finishing"} => Account(r)

(* While a request is live, what the receiver noted of its streams is what *)
(* it has routed.                                                          *)
Noted(e, w, n) ==
  /\ DOMAIN e = {"open", "closed", "done"} /\ e.done = FALSE
  /\ DOMAIN e.open = Starts(w, n) \ Ends(w, n) /\ e.closed = Ends(w, n)
  /\ Ends(w, n) \subseteq Starts(w, n)
  /\ \A s \in Streams \ Starts(w, n) : Indices(w, s, n) = {}
  /\ \A s \in DOMAIN e.open : e.open[s] \in Nat /\ Indices(w, s, n) = 0 .. (e.open[s] - 1)

NotedInv ==
  /\ broken = {} /\ emission = [r \in Requests |-> emission[r]]
  /\ \A r \in Requests : phase[r] = "none" => emission[r] = EmissionStart
  /\ \A r \in Requests : Live(r) => Noted(emission[r], written[r], Len(got[r]))

OneWriter == \A t, u \in Threads : Output[t] = Output[u] => t = u

LEMMA SameFrames ==
  ASSUME NEW w, NEW v, NEW n \in Nat, \A i \in 1 .. n : w[i] = v[i]
  PROVE  /\ Starts(w, n) = Starts(v, n) /\ Ends(w, n) = Ends(v, n)
         /\ \A s : Indices(w, s, n) = Indices(v, s, n)
BY DEF Starts, Ends, Indices

LEMMA OneMoreFrame ==
  ASSUME NEW w, NEW n \in Nat
  PROVE  LET f == w[n + 1] IN
         /\ Starts(w, n + 1) =
              Starts(w, n) \cup {s \in Streams : f.kind = "STREAM_START" /\ f.stream = s}
         /\ Ends(w, n + 1) =
              Ends(w, n) \cup {s \in Streams : f.kind = "STREAM_END" /\ f.stream = s}
         /\ \A s : Indices(w, s, n + 1) =
              Indices(w, s, n) \cup {m \in Nat : f.kind = "CHUNK" /\ f.stream = s /\ f.index = m}
<1>1. \A i \in 1 .. (n + 1) : i \in 1 .. n \/ i = n + 1
  OBVIOUS
<1>2. n + 1 \in 1 .. (n + 1) /\ \A i \in 1 .. n : i \in 1 .. (n + 1)
  OBVIOUS
<1>3. QED
  BY <1>1, <1>2 DEF Starts, Ends, Indices

LEMMA SameFollows ==
  ASSUME NEW w, NEW v, NEW i \in Nat \ {0}, NEW r,
         \A j \in 1 .. i : w[j] = v[j], Follows(w, i, r)
  PROVE  Follows(v, i, r)
<1>1. i - 1 \in Nat /\ i \in 1 .. i /\ \A j \in 1 .. (i - 1) : j \in 1 .. i
  OBVIOUS
<1>2. w[i] = v[i] /\ \A j \in 1 .. (i - 1) : w[j] = v[j]
  BY <1>1
<1>3. QED
  BY <1>1, <1>2, SameFrames DEF Follows

(* One more frame that may follow keeps the rules.                         *)
LEMMA RulesWrite ==
  ASSUME DataInv, RulesInv, NEW r \in Requests, NEW f \in Frames,
         written' = [written EXCEPT ![r] = Append(written[r], f)],
         ~HasTerminal(written[r]) => Follows(written'[r], Len(written[r]) + 1, r)
  PROVE  RulesInv'
<1>1. written \in [Requests -> Seq(Frames)] /\ written[r] \in Seq(Frames)
  BY DEF DataInv
<1>2. /\ Len(Sent(r)) \in Nat /\ Len(Sent(r)) <= Len(written[r])
      /\ ~HasTerminal(written[r]) => Len(Sent(r)) = Len(written[r])
  BY SentFacts
<1> HIDE DEF Frames
<1>3. /\ written'[r] = Append(written[r], f)
      /\ \A q \in Requests \ {r} : written'[q] = written[q]
      /\ Len(written[r]) \in Nat /\ Len(Append(written[r], f)) = Len(written[r]) + 1
      /\ \A i \in 1 .. Len(written[r]) : written'[r][i] = written[r][i]
  BY <1>1
<1>4. \A q \in Requests \ {r} : Sent(q)' = Sent(q)
  BY <1>3 DEF Sent
<1>5. Sent(r)' = IF HasTerminal(written[r]) THEN Sent(r) ELSE Append(written[r], f)
  BY <1>1, <1>3, UpToAppend DEF Sent
<1>6. ASSUME NEW i \in 1 .. Len(Sent(r)) PROVE Follows(written'[r], i, r)
  <2>1. i \in Nat \ {0} /\ \A j \in 1 .. i : j \in 1 .. Len(written[r])
    BY <1>2, <1>3
  <2>2. Follows(written[r], i, r)
    BY DEF RulesInv
  <2>3. QED
    BY <1>3, <2>1, <2>2, SameFollows
<1>7. ASSUME NEW i \in 1 .. Len(Sent(r)') PROVE Follows(written'[r], i, r)
  <2>1. CASE HasTerminal(written[r])
    BY <1>5, <1>6, <2>1
  <2>2. CASE ~HasTerminal(written[r])
    <3>1. i \in 1 .. Len(Sent(r)) \/ i = Len(written[r]) + 1
      BY <1>2, <1>3, <1>5, <2>2
    <3>2. QED
      BY <1>6, <2>2, <3>1
  <2>3. QED
    BY <2>1, <2>2
<1>8. ASSUME NEW q \in Requests, NEW i \in 1 .. Len(Sent(q)') PROVE Follows(written'[q], i, q)
  BY <1>3, <1>4, <1>7 DEF RulesInv
<1>9. QED
  BY <1>8 DEF RulesInv

(* What is written while the terminal is not remembered is appended.       *)
LEMMA Appended ==
  ASSUME RestInv, NEW r \in Requests, NEW frame \in Unnumbered, WriteFrame(r, frame),
         r \notin Range(terminated)
  PROVE  \E f \in Frames :
           /\ f.kind = frame.kind /\ f.stream = frame.stream /\ f.index = frame.index
           /\ f.payload = frame.payload
           /\ written' = [written EXCEPT ![r] = Append(written[r], f)]
           /\ ~IsTerminal(frame.kind) => terminated' = terminated
<1> DEFINE f == Numbered(frame, NextSeq(r))
<1>1. ~Suppressed(r \in Range(terminated), frame.kind)
  BY DEF Suppressed
<1>2. /\ written' = [written EXCEPT ![r] = Append(written[r], f)]
      /\ EndsFlow(r \in Range(terminated), frame.kind) \/ terminated' = terminated
  BY <1>1 DEF WriteFrame
<1>3. NextSeq(r) \in Nat
  BY DEF NextSeq, RestInv, DataInv
<1>4. /\ f \in Frames /\ f.kind = frame.kind /\ f.stream = frame.stream /\ f.index = frame.index
      /\ f.payload = frame.payload
  BY <1>3 DEF Numbered, Frames, Unnumbered
<1>5. ~IsTerminal(frame.kind) => terminated' = terminated
  BY <1>2 DEF EndsFlow
<1> HIDE DEF f
<1>6. QED
  BY <1>2, <1>4, <1>5

(* The terminal is remembered only of what wrote one.                      *)
LEMMA RememberedOnes ==
  ASSUME RestInv, NEW r \in Requests, NEW frame, WriteFrame(r, frame)
  PROVE  Range(terminated') \subseteq Range(terminated) \cup {r}
<1>1. terminated \in Seq(Requests)
  BY DEF RestInv, WriterTypes
<1>2. terminated' = terminated \/ terminated' = Remembered(terminated, r)
  BY DEF WriteFrame, writerVars
<1>3. Range(Remembered(terminated, r)) \subseteq Range(terminated) \cup {r}
  <2>1. CASE Len(terminated) = TerminatedCapacity
    <3>1. Len(terminated) > 0 /\ terminated # <<>>
      BY <1>1, <2>1, ResponseAssumption
    <3>2. Tail(terminated) \in Seq(Requests) /\ Len(Tail(terminated)) = Len(terminated) - 1
          /\ \A i \in 1 .. Len(Tail(terminated)) :
               Tail(terminated)[i] = terminated[i + 1] /\ i + 1 \in 1 .. Len(terminated)
      BY <1>1, <3>1
    <3>3. Range(Tail(terminated)) \subseteq Range(terminated)
      BY <1>1, <3>2 DEF Range
    <3>4. Remembered(terminated, r) = Append(Tail(terminated), r)
      BY <2>1 DEF Remembered
    <3>5. Range(Append(Tail(terminated), r)) \subseteq Range(Tail(terminated)) \cup {r}
      BY <3>2 DEF Range
    <3>6. QED
      BY <3>3, <3>4, <3>5
  <2>2. CASE Len(terminated) # TerminatedCapacity
    BY <1>1, <2>2 DEF Remembered, Range
  <2>3. QED
    BY <2>1, <2>2
<1>4. QED
  BY <1>2, <1>3

LedgerInv == RulesInv /\ PhaseInv /\ AccountInv

LEMMA SameAccount ==
  ASSUME NEW r \in Requests, Account(r),
         UNCHANGED <<written, started, closed, chunkIndex, taken>>
  PROVE  Account(r)'
BY DEF Account, Due

(* What writes nothing.                                                    *)
LEMMA LedgerSilent ==
  ASSUME HandlerTypes, ThreadInv, LedgerInv, UNCHANGED <<written, terminated>>,
         \/ \E r \in Requests : Accept(r) \/ Return(r) \/ Cancel(r)
         \/ UNCHANGED <<handlerVars, streamVars>>
  PROVE  LedgerInv'
<1>1. /\ UNCHANGED <<written, terminated, started, closed, chunkIndex, taken, batch, buffer>>
      /\ \/ UNCHANGED phase
         \/ \E r \in Requests : \/ phase[r] = "none" /\ phase' = [phase EXCEPT ![r] = "running"]
                                \/ phase[r] = "running" /\ phase' = [phase EXCEPT ![r] = "finishing"]
  BY DEF Accept, Return, Cancel, handlerVars, streamVars, writerVars
<1>2. RulesInv'
  BY <1>1 DEF LedgerInv, RulesInv, Sent
<1>3. \A q \in Requests :
        /\ phase'[q] \in {"none", "running", "finishing"} => phase[q] \in {"none", "running", "finishing"}
        /\ phase[q] = "over" => phase'[q] = "over"
        /\ phase[q] \in {"running", "finishing"} => phase'[q] \in {"running", "finishing"}
        /\ phase[q] = "finishing" => phase'[q] = "finishing"
  BY <1>1 DEF HandlerTypes
<1>4. AccountInv'
  BY <1>1, <1>3, SameAccount DEF LedgerInv, AccountInv
<1>5. PhaseInv'
  <2>1. \A s \in Streams : Owner[s] \in Requests
    BY ResponseAssumption
  <2>2. \A t \in Threads : Owner[Output[t]] \in Requests
    BY ResponseAssumption
  <2>3. closed \subseteq Streams
    BY DEF HandlerTypes
  <2>4. QED
    BY <1>1, <1>3, <2>1, <2>2, <2>3 DEF LedgerInv, PhaseInv, HasTerminal
<1>6. QED
  BY <1>2, <1>4, <1>5 DEF LedgerInv

LEMMA LedgerFail ==
  ASSUME HandlerTypes, ThreadInv, LedgerInv, NEW r \in Requests, Fail(r)
  PROVE  LedgerInv'
<1>1. /\ UNCHANGED <<written, terminated, started, closed, chunkIndex, buffer>>
      /\ phase[r] = "running" /\ phase' = [phase EXCEPT ![r] = "failed"]
      /\ \A t \in Threads : t \notin ThreadsOf(r) => taken'[t] = taken[t] /\ batch'[t] = batch[t]
      /\ \A t \in ThreadsOf(r) : taken'[t] = NotTaken /\ batch'[t] = <<>>
  BY DEF Fail, writerVars, ThreadsOf
<1>2. RulesInv'
  BY <1>1 DEF LedgerInv, RulesInv, Sent
<1>3. /\ phase'[r] = "failed" /\ \A q \in Requests \ {r} : phase'[q] = phase[q]
      /\ \A t \in Threads : t \in ThreadsOf(r) <=> Owner[Output[t]] = r
      /\ \A s \in Streams : Owner[s] \in Requests
      /\ \A t \in Threads : Owner[Output[t]] \in Requests
      /\ closed \subseteq Streams
  BY <1>1, ResponseAssumption DEF HandlerTypes, ThreadsOf
<1>4. AccountInv'
  <2> SUFFICES ASSUME NEW q \in Requests, phase'[q] \in {"none", "running", "finishing"}
               PROVE  Account(q)'
    BY DEF AccountInv
  <2>1. q # r /\ Account(q)
    BY <1>3 DEF LedgerInv, AccountInv
  <2>2. \A s \in StreamsOf(q) : Due(s)' = Due(s)
    <3> SUFFICES ASSUME NEW s \in StreamsOf(q) PROVE Due(s)' = Due(s)
      OBVIOUS
    <3>1. \A t \in Threads : Output[t] = s => taken'[t] = taken[t]
      BY <1>1, <1>3, <2>1 DEF StreamsOf
    <3>2. QED
      BY <1>1, <3>1 DEF Due
  <2>3. QED
    BY <1>1, <2>1, <2>2 DEF Account
<1>5. PhaseInv'
  <2>1. \A q \in Requests : HasTerminal(written[q])' \/ q \in Range(terminated)' => phase'[q] = "over"
    BY <1>1, <1>3 DEF LedgerInv, PhaseInv, HasTerminal
  <2>2. ASSUME NEW t \in Threads
        PROVE  /\ batch'[t] # <<>> => /\ phase'[Owner[Output[t]]] \in {"running", "finishing"}
                                      /\ Output[t] \in started' \ closed'
               /\ taken'[t] # NotTaken => taken'[t] + 1 = chunkIndex'[Output[t]]
    BY <1>1, <1>3 DEF LedgerInv, PhaseInv
  <2>3. \A s \in closed : phase'[Owner[s]] \in {"finishing", "over"}
    BY <1>1, <1>3 DEF LedgerInv, PhaseInv
  <2>4. QED
    BY <1>1, <2>1, <2>2, <2>3 DEF LedgerInv, PhaseInv
<1>6. QED
  BY <1>2, <1>4, <1>5 DEF LedgerInv

(* The emissions and the flush: payloads for a stream that is open.        *)
LEMMA LedgerEmit ==
  ASSUME HandlerTypes, ThreadInv, LedgerInv,
         \/ \E t \in Threads : EmitBytes(t) \/ EmitValue(t)
         \/ \E s \in Streams : FlushLast(s)
  PROVE  LedgerInv'
<1>1. PICK t \in Threads :
        /\ UNCHANGED <<phase, written, terminated, started, closed, chunkIndex, taken>>
        /\ phase[Owner[Output[t]]] \in {"running", "finishing"}
        /\ Output[t] \in started \ closed
        /\ batch' = batch \/ \E b : batch' = [batch EXCEPT ![t] = b]
        /\ buffer' = buffer \/ \E b : buffer' = [buffer EXCEPT ![Output[t]] = b]
  <2>1. ASSUME NEW t \in Threads, EmitBytes(t) \/ EmitValue(t)
        PROVE  /\ UNCHANGED <<phase, written, terminated, started, closed, chunkIndex, taken>>
               /\ phase[Owner[Output[t]]] = "running" /\ Output[t] \in started
               /\ batch' = batch \/ \E b : batch' = [batch EXCEPT ![t] = b]
               /\ buffer' = buffer \/ \E b : buffer' = [buffer EXCEPT ![Output[t]] = b]
    BY <2>1 DEF EmitBytes, EmitValue, Emits, MayEmit, handlerVars, writerVars
  <2>2. ASSUME NEW t \in Threads, EmitBytes(t) \/ EmitValue(t) PROVE Output[t] \notin closed
    BY <2>1, <2>2 DEF LedgerInv, PhaseInv
  <2>3. ASSUME NEW s \in Streams, FlushLast(s)
        PROVE  \E t \in Threads :
               /\ UNCHANGED <<phase, written, terminated, started, closed, chunkIndex, taken>>
               /\ phase[Owner[s]] = "finishing" /\ buffer[s] # <<>> /\ Output[t] = s
               /\ \E b : batch' = [batch EXCEPT ![t] = b]
               /\ buffer' = [buffer EXCEPT ![s] = <<>>]
    BY <2>3 DEF FlushLast, handlerVars, writerVars
  <2>4. \A s \in Streams : buffer[s] # <<>> => s \in started \ closed
    BY DEF LedgerInv, PhaseInv
  <2>5. CASE \E t \in Threads : EmitBytes(t) \/ EmitValue(t)
    BY <2>1, <2>2, <2>5
  <2>6. CASE \E s \in Streams : FlushLast(s)
    <3>1. PICK s \in Streams : FlushLast(s)
      BY <2>6
    <3>2. PICK t \in Threads :
            /\ UNCHANGED <<phase, written, terminated, started, closed, chunkIndex, taken>>
            /\ phase[Owner[s]] = "finishing" /\ buffer[s] # <<>> /\ Output[t] = s
            /\ \E b : batch' = [batch EXCEPT ![t] = b]
            /\ buffer' = [buffer EXCEPT ![s] = <<>>]
      BY <2>3, <3>1
    <3>3. QED
      BY <2>4, <3>2
  <2>7. QED
    BY <2>5, <2>6
<1>2. /\ \A u \in Threads \ {t} : batch'[u] = batch[u]
      /\ \A s \in Streams \ {Output[t]} : buffer'[s] = buffer[s]
  BY <1>1 DEF HandlerTypes
<1>3. RulesInv'
  BY <1>1 DEF LedgerInv, RulesInv, Sent
<1>4. AccountInv'
  BY <1>1, SameAccount DEF LedgerInv, AccountInv
<1>5. PhaseInv'
  BY <1>1, <1>2 DEF LedgerInv, PhaseInv, HasTerminal
<1>6. QED
  BY <1>3, <1>4, <1>5 DEF LedgerInv

LEMMA LedgerTake ==
  ASSUME HandlerTypes, ThreadInv, LedgerInv, OneWriter, NEW t \in Threads, TakeIndex(t)
  PROVE  LedgerInv'
<1>1. /\ UNCHANGED <<phase, written, terminated, started, closed, batch, buffer>>
      /\ batch[t] # <<>> /\ taken[t] = NotTaken
      /\ taken' = [taken EXCEPT ![t] = chunkIndex[Output[t]]]
      /\ chunkIndex' = [chunkIndex EXCEPT ![Output[t]] = @ + 1]
  BY DEF TakeIndex, handlerVars, writerVars
<1>2. /\ Output[t] \in Streams /\ chunkIndex[Output[t]] \in Nat
      /\ taken'[t] = chunkIndex[Output[t]] /\ \A u \in Threads \ {t} : taken'[u] = taken[u]
      /\ chunkIndex'[Output[t]] = chunkIndex[Output[t]] + 1
      /\ \A s \in Streams \ {Output[t]} : chunkIndex'[s] = chunkIndex[s]
  BY <1>1, ResponseAssumption DEF HandlerTypes
<1>3. \A u \in Threads : Output[u] = Output[t] => u = t
  BY DEF OneWriter
<1>4. taken'[t] # NotTaken
  BY <1>2 DEF NotTaken
<1>5. \A s \in Streams : Due(s)' = Due(s)
  <2> SUFFICES ASSUME NEW s \in Streams PROVE Due(s)' = Due(s)
    OBVIOUS
  <2>1. CASE s = Output[t]
    <3>1. Due(s) = chunkIndex[s]
      BY <1>1, <1>3, <2>1 DEF Due
    <3>2. Due(s)' = chunkIndex'[s] - 1
      BY <1>4, <2>1 DEF Due
    <3>3. QED
      BY <1>2, <2>1, <3>1, <3>2
  <2>2. CASE s # Output[t]
    BY <1>2, <2>2 DEF Due
  <2>3. QED
    BY <2>1, <2>2
<1>6. AccountInv'
  BY <1>1, <1>5 DEF LedgerInv, AccountInv, Account, StreamsOf
<1>7. RulesInv'
  BY <1>1 DEF LedgerInv, RulesInv, Sent
<1>8. PhaseInv'
  <2>1. ASSUME NEW u \in Threads, taken'[u] # NotTaken PROVE taken'[u] + 1 = chunkIndex'[Output[u]]
    <3>1. CASE u = t
      BY <1>2, <3>1
    <3>2. CASE u # t
      <4>1. Output[u] # Output[t] /\ Output[u] \in Streams
        BY <1>3, <3>2, ResponseAssumption
      <4>2. QED
        BY <1>2, <2>1, <3>2, <4>1 DEF LedgerInv, PhaseInv
    <3>3. QED
      BY <3>1, <3>2
  <2>2. QED
    BY <1>1, <2>1 DEF LedgerInv, PhaseInv, HasTerminal
<1>9. QED
  BY <1>6, <1>7, <1>8 DEF LedgerInv

(* What one more frame of a request adds to its account.                   *)
LEMMA FrameAdded ==
  ASSUME DataInv, NEW r \in Requests, NEW f \in Frames,
         written' = [written EXCEPT ![r] = Append(written[r], f)]
  PROVE  LET w == written[r]
             v == written'[r]
             n == Len(written[r])
         IN  /\ n \in Nat /\ Len(v) = n + 1 /\ v[n + 1] = f
             /\ Starts(v, n) = Starts(w, n) /\ Ends(v, n) = Ends(w, n)
             /\ \A s : Indices(v, s, n) = Indices(w, s, n)
             /\ Starts(v, n + 1) =
                  Starts(w, n) \cup {s \in Streams : f.kind = "STREAM_START" /\ f.stream = s}
             /\ Ends(v, n + 1) =
                  Ends(w, n) \cup {s \in Streams : f.kind = "STREAM_END" /\ f.stream = s}
             /\ \A s : Indices(v, s, n + 1) = Indices(w, s, n)
                         \cup {m \in Nat : f.kind = "CHUNK" /\ f.stream = s /\ f.index = m}
             /\ HasTerminal(v) <=> HasTerminal(w) \/ IsTerminal(f.kind)
             /\ \A q \in Requests \ {r} : written'[q] = written[q]
<1> DEFINE w == written[r]
           v == written'[r]
           n == Len(written[r])
<1>1. written \in [Requests -> Seq(Frames)] /\ written[r] \in Seq(Frames)
  BY DEF DataInv
<1> HIDE DEF Frames
<1>2. /\ n \in Nat /\ Len(v) = n + 1 /\ v[n + 1] = f /\ n = Len(w)
      /\ \A i \in 1 .. n : v[i] = w[i]
      /\ \A q \in Requests \ {r} : written'[q] = written[q]
  BY <1>1
<1> HIDE DEF v, w, n
<1>3. /\ Starts(v, n) = Starts(w, n) /\ Ends(v, n) = Ends(w, n)
      /\ \A s : Indices(v, s, n) = Indices(w, s, n)
  BY <1>2, SameFrames
<1>4. HasTerminal(v) <=> HasTerminal(w) \/ IsTerminal(f.kind)
  <2>1. /\ \A i \in 1 .. (n + 1) : i \in 1 .. n \/ i = n + 1
        /\ n + 1 \in 1 .. (n + 1) /\ \A i \in 1 .. n : i \in 1 .. (n + 1)
    BY <1>2
  <2>2. QED
    BY <1>2, <2>1 DEF HasTerminal
<1>5. LET g == v[n + 1] IN
      /\ Starts(v, n + 1) =
           Starts(v, n) \cup {s \in Streams : g.kind = "STREAM_START" /\ g.stream = s}
      /\ Ends(v, n + 1) =
           Ends(v, n) \cup {s \in Streams : g.kind = "STREAM_END" /\ g.stream = s}
      /\ \A s : Indices(v, s, n + 1) =
           Indices(v, s, n) \cup {m \in Nat : g.kind = "CHUNK" /\ g.stream = s /\ g.index = m}
  <2>1. n \in Nat
    BY <1>2
  <2>2. QED
    BY <2>1, OneMoreFrame
<1>6. QED
  BY <1>2, <1>3, <1>4, <1>5 DEF v, w, n

(* A STREAM_START, ...                                                     *)
LEMMA StartAdded ==
  ASSUME DataInv, NEW r \in Requests, NEW f \in Frames, 
         f.kind = "STREAM_START", f.stream \in Streams,
         written' = [written EXCEPT ![r] = Append(written[r], f)]
  PROVE  LET w == written[r]
             v == written'[r]
             n == Len(written[r])
         IN  /\ n \in Nat /\ Len(v) = n + 1 /\ v[n + 1] = f
             /\ Starts(v, n) = Starts(w, n) /\ Ends(v, n) = Ends(w, n)
             /\ \A s : Indices(v, s, n) = Indices(w, s, n)
             /\ Starts(v, n + 1) = Starts(w, n) \cup {f.stream} /\ Ends(v, n + 1) = Ends(w, n)
             /\ \A s : Indices(v, s, n + 1) = Indices(w, s, n)
             /\ HasTerminal(v) <=> HasTerminal(w)
             /\ \A q \in Requests \ {r} : written'[q] = written[q]
<1>1. PICK w, v, n : w = written[r] /\ v = written'[r] /\ n = Len(written[r])
  OBVIOUS
<1>2. LET a == written[r]
          b == written'[r]
          k == Len(written[r])
      IN  /\ k \in Nat /\ Len(b) = k + 1 /\ b[k + 1] = f
          /\ Starts(b, k) = Starts(a, k) /\ Ends(b, k) = Ends(a, k)
          /\ \A s : Indices(b, s, k) = Indices(a, s, k)
          /\ Starts(b, k + 1) =
               Starts(a, k) \cup {s \in Streams : f.kind = "STREAM_START" /\ f.stream = s}
          /\ Ends(b, k + 1) =
               Ends(a, k) \cup {s \in Streams : f.kind = "STREAM_END" /\ f.stream = s}
          /\ \A s : Indices(b, s, k + 1) = Indices(a, s, k)
                      \cup {m \in Nat : f.kind = "CHUNK" /\ f.stream = s /\ f.index = m}
          /\ HasTerminal(b) <=> HasTerminal(a) \/ IsTerminal(f.kind)
          /\ \A q \in Requests \ {r} : written'[q] = written[q]
  BY FrameAdded
<1> HIDE DEF Frames
<1>3. /\ n \in Nat /\ Len(v) = n + 1 /\ v[n + 1] = f
      /\ Starts(v, n) = Starts(w, n) /\ Ends(v, n) = Ends(w, n)
      /\ \A s : Indices(v, s, n) = Indices(w, s, n)
      /\ \A q \in Requests \ {r} : written'[q] = written[q]
  BY <1>1, <1>2
<1>4. Starts(v, n + 1) = Starts(w, n) \cup {f.stream}
  <2>1. Starts(v, n + 1) =
          Starts(w, n) \cup {s \in Streams : f.kind = "STREAM_START" /\ f.stream = s}
    BY <1>1, <1>2
  <2>2. QED
    BY <2>1
<1>5. Ends(v, n + 1) = Ends(w, n)
  <2>1. Ends(v, n + 1) =
          Ends(w, n) \cup {s \in Streams : f.kind = "STREAM_END" /\ f.stream = s}
    BY <1>1, <1>2
  <2>2. QED
    BY <2>1
<1>6. \A s : Indices(v, s, n + 1) = Indices(w, s, n)
  <2>1. \A s : Indices(v, s, n + 1) = Indices(w, s, n)
                \cup {m \in Nat : f.kind = "CHUNK" /\ f.stream = s /\ f.index = m}
    BY <1>1, <1>2
  <2>2. QED
    BY <2>1
<1>7. HasTerminal(v) <=> HasTerminal(w)
  BY <1>1, <1>2 DEF IsTerminal
<1>8. QED
  BY <1>1, <1>3, <1>4, <1>5, <1>6, <1>7

(* ... a CHUNK, ...                                                        *)
LEMMA ChunkAdded ==
  ASSUME DataInv, NEW r \in Requests, NEW f \in Frames, 
         f.kind = "CHUNK", f.index \in Nat,
         written' = [written EXCEPT ![r] = Append(written[r], f)]
  PROVE  LET w == written[r]
             v == written'[r]
             n == Len(written[r])
         IN  /\ n \in Nat /\ Len(v) = n + 1 /\ v[n + 1] = f
             /\ Starts(v, n) = Starts(w, n) /\ Ends(v, n) = Ends(w, n)
             /\ \A s : Indices(v, s, n) = Indices(w, s, n)
             /\ Starts(v, n + 1) = Starts(w, n) /\ Ends(v, n + 1) = Ends(w, n)
             /\ Indices(v, f.stream, n + 1) = Indices(w, f.stream, n) \cup {f.index}
             /\ \A s : s # f.stream => Indices(v, s, n + 1) = Indices(w, s, n)
             /\ HasTerminal(v) <=> HasTerminal(w)
             /\ \A q \in Requests \ {r} : written'[q] = written[q]
<1>1. PICK w, v, n : w = written[r] /\ v = written'[r] /\ n = Len(written[r])
  OBVIOUS
<1>2. LET a == written[r]
          b == written'[r]
          k == Len(written[r])
      IN  /\ k \in Nat /\ Len(b) = k + 1 /\ b[k + 1] = f
          /\ Starts(b, k) = Starts(a, k) /\ Ends(b, k) = Ends(a, k)
          /\ \A s : Indices(b, s, k) = Indices(a, s, k)
          /\ Starts(b, k + 1) =
               Starts(a, k) \cup {s \in Streams : f.kind = "STREAM_START" /\ f.stream = s}
          /\ Ends(b, k + 1) =
               Ends(a, k) \cup {s \in Streams : f.kind = "STREAM_END" /\ f.stream = s}
          /\ \A s : Indices(b, s, k + 1) = Indices(a, s, k)
                      \cup {m \in Nat : f.kind = "CHUNK" /\ f.stream = s /\ f.index = m}
          /\ HasTerminal(b) <=> HasTerminal(a) \/ IsTerminal(f.kind)
          /\ \A q \in Requests \ {r} : written'[q] = written[q]
  BY FrameAdded
<1> HIDE DEF Frames
<1>3. /\ n \in Nat /\ Len(v) = n + 1 /\ v[n + 1] = f
      /\ Starts(v, n) = Starts(w, n) /\ Ends(v, n) = Ends(w, n)
      /\ \A s : Indices(v, s, n) = Indices(w, s, n)
      /\ \A q \in Requests \ {r} : written'[q] = written[q]
  BY <1>1, <1>2
<1>4. Starts(v, n + 1) = Starts(w, n)
  <2>1. Starts(v, n + 1) =
          Starts(w, n) \cup {s \in Streams : f.kind = "STREAM_START" /\ f.stream = s}
    BY <1>1, <1>2
  <2>2. QED
    BY <2>1
<1>5. Ends(v, n + 1) = Ends(w, n)
  <2>1. Ends(v, n + 1) =
          Ends(w, n) \cup {s \in Streams : f.kind = "STREAM_END" /\ f.stream = s}
    BY <1>1, <1>2
  <2>2. QED
    BY <2>1
<1>6. /\ Indices(v, f.stream, n + 1) = Indices(w, f.stream, n) \cup {f.index}
      /\ \A s : s # f.stream => Indices(v, s, n + 1) = Indices(w, s, n)
  <2>1. \A s : Indices(v, s, n + 1) = Indices(w, s, n)
                \cup {m \in Nat : f.kind = "CHUNK" /\ f.stream = s /\ f.index = m}
    BY <1>1, <1>2
  <2>2. QED
    BY <2>1
<1>7. HasTerminal(v) <=> HasTerminal(w)
  BY <1>1, <1>2 DEF IsTerminal
<1>8. QED
  BY <1>1, <1>3, <1>4, <1>5, <1>6, <1>7

(* ... a STREAM_END, ...                                                   *)
LEMMA EndAdded ==
  ASSUME DataInv, NEW r \in Requests, NEW f \in Frames, 
         f.kind = "STREAM_END", f.stream \in Streams,
         written' = [written EXCEPT ![r] = Append(written[r], f)]
  PROVE  LET w == written[r]
             v == written'[r]
             n == Len(written[r])
         IN  /\ n \in Nat /\ Len(v) = n + 1 /\ v[n + 1] = f
             /\ Starts(v, n) = Starts(w, n) /\ Ends(v, n) = Ends(w, n)
             /\ \A s : Indices(v, s, n) = Indices(w, s, n)
             /\ Starts(v, n + 1) = Starts(w, n) /\ Ends(v, n + 1) = Ends(w, n) \cup {f.stream}
             /\ \A s : Indices(v, s, n + 1) = Indices(w, s, n)
             /\ HasTerminal(v) <=> HasTerminal(w)
             /\ \A q \in Requests \ {r} : written'[q] = written[q]
<1>1. PICK w, v, n : w = written[r] /\ v = written'[r] /\ n = Len(written[r])
  OBVIOUS
<1>2. LET a == written[r]
          b == written'[r]
          k == Len(written[r])
      IN  /\ k \in Nat /\ Len(b) = k + 1 /\ b[k + 1] = f
          /\ Starts(b, k) = Starts(a, k) /\ Ends(b, k) = Ends(a, k)
          /\ \A s : Indices(b, s, k) = Indices(a, s, k)
          /\ Starts(b, k + 1) =
               Starts(a, k) \cup {s \in Streams : f.kind = "STREAM_START" /\ f.stream = s}
          /\ Ends(b, k + 1) =
               Ends(a, k) \cup {s \in Streams : f.kind = "STREAM_END" /\ f.stream = s}
          /\ \A s : Indices(b, s, k + 1) = Indices(a, s, k)
                      \cup {m \in Nat : f.kind = "CHUNK" /\ f.stream = s /\ f.index = m}
          /\ HasTerminal(b) <=> HasTerminal(a) \/ IsTerminal(f.kind)
          /\ \A q \in Requests \ {r} : written'[q] = written[q]
  BY FrameAdded
<1> HIDE DEF Frames
<1>3. /\ n \in Nat /\ Len(v) = n + 1 /\ v[n + 1] = f
      /\ Starts(v, n) = Starts(w, n) /\ Ends(v, n) = Ends(w, n)
      /\ \A s : Indices(v, s, n) = Indices(w, s, n)
      /\ \A q \in Requests \ {r} : written'[q] = written[q]
  BY <1>1, <1>2
<1>4. Starts(v, n + 1) = Starts(w, n)
  <2>1. Starts(v, n + 1) =
          Starts(w, n) \cup {s \in Streams : f.kind = "STREAM_START" /\ f.stream = s}
    BY <1>1, <1>2
  <2>2. QED
    BY <2>1
<1>5. Ends(v, n + 1) = Ends(w, n) \cup {f.stream}
  <2>1. Ends(v, n + 1) =
          Ends(w, n) \cup {s \in Streams : f.kind = "STREAM_END" /\ f.stream = s}
    BY <1>1, <1>2
  <2>2. QED
    BY <2>1
<1>6. \A s : Indices(v, s, n + 1) = Indices(w, s, n)
  <2>1. \A s : Indices(v, s, n + 1) = Indices(w, s, n)
                \cup {m \in Nat : f.kind = "CHUNK" /\ f.stream = s /\ f.index = m}
    BY <1>1, <1>2
  <2>2. QED
    BY <2>1
<1>7. HasTerminal(v) <=> HasTerminal(w)
  BY <1>1, <1>2 DEF IsTerminal
<1>8. QED
  BY <1>1, <1>3, <1>4, <1>5, <1>6, <1>7

(* ... and what no stream counts: a LOG or the terminal.                   *)
LEMMA PlainAdded ==
  ASSUME DataInv, NEW r \in Requests, NEW f \in Frames, 
         f.kind \in {"LOG", "END", "ERR"},
         written' = [written EXCEPT ![r] = Append(written[r], f)]
  PROVE  LET w == written[r]
             v == written'[r]
             n == Len(written[r])
         IN  /\ n \in Nat /\ Len(v) = n + 1 /\ v[n + 1] = f
             /\ Starts(v, n) = Starts(w, n) /\ Ends(v, n) = Ends(w, n)
             /\ \A s : Indices(v, s, n) = Indices(w, s, n)
             /\ Starts(v, n + 1) = Starts(w, n) /\ Ends(v, n + 1) = Ends(w, n)
             /\ \A s : Indices(v, s, n + 1) = Indices(w, s, n)
             /\ HasTerminal(v) <=> HasTerminal(w) \/ IsTerminal(f.kind)
             /\ \A q \in Requests \ {r} : written'[q] = written[q]
<1>1. PICK w, v, n : w = written[r] /\ v = written'[r] /\ n = Len(written[r])
  OBVIOUS
<1>2. LET a == written[r]
          b == written'[r]
          k == Len(written[r])
      IN  /\ k \in Nat /\ Len(b) = k + 1 /\ b[k + 1] = f
          /\ Starts(b, k) = Starts(a, k) /\ Ends(b, k) = Ends(a, k)
          /\ \A s : Indices(b, s, k) = Indices(a, s, k)
          /\ Starts(b, k + 1) =
               Starts(a, k) \cup {s \in Streams : f.kind = "STREAM_START" /\ f.stream = s}
          /\ Ends(b, k + 1) =
               Ends(a, k) \cup {s \in Streams : f.kind = "STREAM_END" /\ f.stream = s}
          /\ \A s : Indices(b, s, k + 1) = Indices(a, s, k)
                      \cup {m \in Nat : f.kind = "CHUNK" /\ f.stream = s /\ f.index = m}
          /\ HasTerminal(b) <=> HasTerminal(a) \/ IsTerminal(f.kind)
          /\ \A q \in Requests \ {r} : written'[q] = written[q]
  BY FrameAdded
<1> HIDE DEF Frames
<1>3. /\ n \in Nat /\ Len(v) = n + 1 /\ v[n + 1] = f
      /\ Starts(v, n) = Starts(w, n) /\ Ends(v, n) = Ends(w, n)
      /\ \A s : Indices(v, s, n) = Indices(w, s, n)
      /\ \A q \in Requests \ {r} : written'[q] = written[q]
  BY <1>1, <1>2
<1>4. Starts(v, n + 1) = Starts(w, n)
  <2>1. Starts(v, n + 1) =
          Starts(w, n) \cup {s \in Streams : f.kind = "STREAM_START" /\ f.stream = s}
    BY <1>1, <1>2
  <2>2. QED
    BY <2>1
<1>5. Ends(v, n + 1) = Ends(w, n)
  <2>1. Ends(v, n + 1) =
          Ends(w, n) \cup {s \in Streams : f.kind = "STREAM_END" /\ f.stream = s}
    BY <1>1, <1>2
  <2>2. QED
    BY <2>1
<1>6. \A s : Indices(v, s, n + 1) = Indices(w, s, n)
  <2>1. \A s : Indices(v, s, n + 1) = Indices(w, s, n)
                \cup {m \in Nat : f.kind = "CHUNK" /\ f.stream = s /\ f.index = m}
    BY <1>1, <1>2
  <2>2. QED
    BY <2>1
<1>7. HasTerminal(v) <=> HasTerminal(w) \/ IsTerminal(f.kind)
  BY <1>1, <1>2
<1>8. QED
  BY <1>1, <1>3, <1>4, <1>5, <1>6, <1>7

LEMMA StillOpen ==
  ASSUME PhaseInv, NEW r \in Requests, phase[r] # "over"
  PROVE  ~HasTerminal(written[r]) /\ r \notin Range(terminated)
BY DEF PhaseInv

(* The accounts of the other requests, when one writes.                    *)
LEMMA OtherAccount ==
  ASSUME NEW q \in Requests, Account(q), written'[q] = written[q],
         started' \cap StreamsOf(q) = started \cap StreamsOf(q),
         closed' \cap StreamsOf(q) = closed \cap StreamsOf(q),
         \A s \in StreamsOf(q) : Due(s)' = Due(s)
  PROVE  Account(q)'
BY DEF Account

LEMMA LedgerStart ==
  ASSUME HandlerTypes, RestInv, LedgerInv, NEW s \in Streams, StartStream(s)
  PROVE  LedgerInv'
<1> DEFINE r == Owner[s]
           n == Len(written[r])
<1>1. /\ r \in Requests /\ s \in StreamsOf(r) /\ s \notin started
      /\ started' = started \cup {s}
      /\ UNCHANGED <<phase, closed, buffer, batch, taken, chunkIndex>>
      /\ phase[r] \in {"running", "finishing"}
  BY ResponseAssumption DEF StartStream, StreamsOf, handlerVars, MayEmit
<1>2. ~HasTerminal(written[r]) /\ r \notin Range(terminated)
  BY <1>1, StillOpen DEF LedgerInv
<1>3. Frame("STREAM_START", s, NoCount, <<>>) \in Unnumbered
  <2>1. NoCount \in Int /\ <<>> \in Seq(Nat) /\ "STREAM_START" \in Kinds
    BY DEF NoCount, Kinds
  <2>2. QED
    BY <2>1, FrameType
<1>4. WriteFrame(r, Frame("STREAM_START", s, NoCount, <<>>))
  BY DEF StartStream
<1>5. PICK f \in Frames :
        /\ f.kind = "STREAM_START" /\ f.stream = s
        /\ written' = [written EXCEPT ![r] = Append(written[r], f)] /\ terminated' = terminated
  BY <1>1, <1>2, <1>3, <1>4, Appended DEF Frame, IsTerminal
<1>6. DataInv
  BY DEF RestInv
<1> HIDE DEF Frames
<1>7. /\ n \in Nat /\ Len(written'[r]) = n + 1 /\ written'[r][n + 1] = f
      /\ Starts(written'[r], n) = Starts(written[r], n)
      /\ Starts(written'[r], n + 1) = Starts(written[r], n) \cup {s}
      /\ Ends(written'[r], n + 1) = Ends(written[r], n)
      /\ \A u : Indices(written'[r], u, n + 1) = Indices(written[r], u, n)
      /\ ~HasTerminal(written'[r])
      /\ \A q \in Requests \ {r} : written'[q] = written[q]
  <2>1. LET w == written[r]
            v == written'[r]
            k == Len(written[r])
        IN  /\ k \in Nat /\ Len(v) = k + 1 /\ v[k + 1] = f
            /\ Starts(v, k) = Starts(w, k) /\ Ends(v, k) = Ends(w, k)
            /\ \A u : Indices(v, u, k) = Indices(w, u, k)
            /\ Starts(v, k + 1) = Starts(w, k) \cup {f.stream} /\ Ends(v, k + 1) = Ends(w, k)
            /\ \A u : Indices(v, u, k + 1) = Indices(w, u, k)
            /\ HasTerminal(v) <=> HasTerminal(w)
            /\ \A q \in Requests \ {r} : written'[q] = written[q]
    <3>1. /\ r \in Requests /\ s \in Streams /\ DataInv /\ f \in Frames
          /\ written' = [written EXCEPT ![r] = Append(written[r], f)]
      BY <1>1, <1>5, <1>6
    <3>2. f.kind = "STREAM_START" /\ f.stream \in Streams
      BY <1>5
    <3> HIDE DEF r
    <3>3. QED
      BY <3>1, <3>2, StartAdded
  <2>2. QED
    BY <1>2, <1>5, <2>1
<1>8. Account(r)
  BY <1>1 DEF LedgerInv, AccountInv
<1>9. RulesInv'
  <2>1. Follows(written'[r], n + 1, r)
    <3>1. (n + 1) - 1 = n
      BY <1>7
    <3>2. s \notin Starts(written'[r], n)
      BY <1>1, <1>7, <1>8 DEF Account
    <3>3. QED
      BY <1>1, <1>5, <1>7, <3>1, <3>2 DEF Follows
  <2>2. QED
    BY <1>1, <1>5, <1>6, <2>1, RulesWrite DEF LedgerInv
<1>10. \A u \in Streams : Due(u)' = Due(u)
  BY <1>1 DEF Due
<1>11. AccountInv'
  <2> SUFFICES ASSUME NEW q \in Requests, phase[q] \in {"none", "running", "finishing"}
               PROVE  Account(q)'
    BY <1>1 DEF AccountInv
  <2>1. CASE q = r
    BY <1>1, <1>7, <1>8, <1>10, <2>1 DEF Account, StreamsOf
  <2>2. CASE q # r
    <3>1. Account(q) /\ s \notin StreamsOf(q)
      BY <2>2 DEF LedgerInv, AccountInv, StreamsOf
    <3>2. QED
      BY <1>1, <1>7, <1>10, <2>2, <3>1, OtherAccount DEF StreamsOf
  <2>3. QED
    BY <2>1, <2>2
<1>12. PhaseInv'
  BY <1>1, <1>2, <1>5, <1>7 DEF LedgerInv, PhaseInv
<1>13. QED
  BY <1>9, <1>11, <1>12 DEF LedgerInv

LEMMA LedgerChunk ==
  ASSUME HandlerTypes, ThreadInv, RestInv, LedgerInv, OneWriter,
         NEW t \in Threads, WriteChunk(t)
  PROVE  LedgerInv'
<1> DEFINE s == Output[t]
           r == Owner[s]
           n == Len(written[r])
<1>1. /\ s \in Streams /\ r \in Requests /\ s \in StreamsOf(r)
      /\ taken[t] # NotTaken /\ batch[t] # <<>>
      /\ taken' = [taken EXCEPT ![t] = NotTaken] /\ batch' = [batch EXCEPT ![t] = Tail(batch[t])]
      /\ UNCHANGED <<phase, started, closed, buffer, chunkIndex>>
  BY ResponseAssumption DEF WriteChunk, StreamsOf, handlerVars, ThreadInv
<1>2. /\ phase[r] \in {"running", "finishing"} /\ s \in started \ closed
      /\ taken[t] \in Nat /\ chunkIndex[s] \in Nat /\ taken[t] + 1 = chunkIndex[s]
  BY <1>1 DEF LedgerInv, PhaseInv, HandlerTypes
<1>3. ~HasTerminal(written[r]) /\ r \notin Range(terminated)
  BY <1>1, <1>2, StillOpen DEF LedgerInv
<1>4. Frame("CHUNK", s, taken[t], Head(batch[t])) \in Unnumbered
  <2>1. batch[t] \in Seq(Seq(Nat))
    BY DEF HandlerTypes
  <2>2. Head(batch[t]) \in Seq(Nat)
    BY <1>1, <2>1
  <2>3. taken[t] \in Int /\ "CHUNK" \in Kinds
    BY <1>2 DEF Kinds
  <2>4. QED
    BY <1>1, <2>2, <2>3, FrameType
<1>5. WriteFrame(r, Frame("CHUNK", s, taken[t], Head(batch[t])))
  BY DEF WriteChunk
<1>6. PICK f \in Frames :
        /\ f.kind = "CHUNK" /\ f.stream = s /\ f.index = taken[t]
        /\ written' = [written EXCEPT ![r] = Append(written[r], f)] /\ terminated' = terminated
  BY <1>1, <1>3, <1>4, <1>5, Appended DEF Frame, IsTerminal
<1>7. DataInv
  BY DEF RestInv
<1> HIDE DEF Frames
<1>8. /\ n \in Nat /\ Len(written'[r]) = n + 1 /\ written'[r][n + 1] = f
      /\ Starts(written'[r], n) = Starts(written[r], n)
      /\ Ends(written'[r], n) = Ends(written[r], n)
      /\ Indices(written'[r], s, n) = Indices(written[r], s, n)
      /\ Starts(written'[r], n + 1) = Starts(written[r], n)
      /\ Ends(written'[r], n + 1) = Ends(written[r], n)
      /\ Indices(written'[r], s, n + 1) = Indices(written[r], s, n) \cup {taken[t]}
      /\ \A u : u # s => Indices(written'[r], u, n + 1) = Indices(written[r], u, n)
      /\ ~HasTerminal(written'[r])
      /\ \A q \in Requests \ {r} : written'[q] = written[q]
  <2>1. LET w == written[r]
            v == written'[r]
            k == Len(written[r])
        IN  /\ k \in Nat /\ Len(v) = k + 1 /\ v[k + 1] = f
            /\ Starts(v, k) = Starts(w, k) /\ Ends(v, k) = Ends(w, k)
            /\ \A u : Indices(v, u, k) = Indices(w, u, k)
            /\ Starts(v, k + 1) = Starts(w, k) /\ Ends(v, k + 1) = Ends(w, k)
            /\ Indices(v, f.stream, k + 1) = Indices(w, f.stream, k) \cup {f.index}
            /\ \A u : u # f.stream => Indices(v, u, k + 1) = Indices(w, u, k)
            /\ HasTerminal(v) <=> HasTerminal(w)
            /\ \A q \in Requests \ {r} : written'[q] = written[q]
    <3>1. /\ r \in Requests /\ s \in Streams /\ DataInv /\ f \in Frames
          /\ written' = [written EXCEPT ![r] = Append(written[r], f)]
      BY <1>1, <1>6, <1>7
    <3>2. f.kind = "CHUNK" /\ f.index \in Nat
      BY <1>2, <1>6
    <3> HIDE DEF r, s
    <3>3. QED
      BY <3>1, <3>2, ChunkAdded
  <2>2. QED
    BY <1>3, <2>1, <1>6
<1>9. Account(r)
  BY <1>1, <1>2 DEF LedgerInv, AccountInv
<1>10. \A u \in Threads : Output[u] = s => u = t
  BY DEF OneWriter
<1>11. Due(s) = taken[t] /\ Due(s)' = chunkIndex[s]
  <2>1. Due(s) = chunkIndex[s] - 1
    BY <1>1 DEF Due
  <2>2. taken'[t] = NotTaken
    BY <1>1 DEF HandlerTypes
  <2>3. Due(s)' = chunkIndex'[s]
    BY <1>10, <2>2 DEF Due
  <2>4. QED
    BY <1>1, <1>2, <2>1, <2>3
<1>12. \A u \in Streams \ {s} : Due(u)' = Due(u)
  <2> SUFFICES ASSUME NEW u \in Streams \ {s} PROVE Due(u)' = Due(u)
    OBVIOUS
  <2>1. \A k \in Threads : Output[k] = u => taken'[k] = taken[k]
    BY <1>1 DEF HandlerTypes
  <2>2. QED
    BY <1>1, <2>1 DEF Due
<1>13. Indices(written[r], s, n) = 0 .. (taken[t] - 1)
  BY <1>1, <1>9, <1>11 DEF Account
<1>14. RulesInv'
  <2>1. Follows(written'[r], n + 1, r)
    <3>1. (n + 1) - 1 = n
      BY <1>8
    <3>2. s \in Starts(written'[r], n) \ Ends(written'[r], n)
      BY <1>1, <1>2, <1>8, <1>9 DEF Account
    <3>3. QED
      BY <1>2, <1>6, <1>8, <1>13, <3>1, <3>2 DEF Follows
  <2>2. QED
    BY <1>1, <1>6, <1>7, <2>1, RulesWrite DEF LedgerInv
<1>15. AccountInv'
  <2> SUFFICES ASSUME NEW q \in Requests, phase[q] \in {"none", "running", "finishing"}
               PROVE  Account(q)'
    BY <1>1 DEF AccountInv
  <2>1. CASE q = r
    <3>1. Indices(written'[r], s, n + 1) = 0 .. (chunkIndex[s] - 1)
      <4>1. \A k \in Nat : (0 .. (k - 1)) \cup {k} = 0 .. ((k + 1) - 1)
        OBVIOUS
      <4>2. QED
        BY <1>2, <1>8, <1>13, <4>1
    <3>2. \A u \in StreamsOf(r) : Indices(written'[r], u, n + 1) = 0 .. (Due(u)' - 1)
      BY <1>8, <1>9, <1>11, <1>12, <3>1 DEF Account, StreamsOf
    <3>3. QED
      BY <1>1, <1>8, <1>9, <2>1, <3>2 DEF Account
  <2>2. CASE q # r
    <3>1. Account(q) /\ s \notin StreamsOf(q)
      BY <2>2 DEF LedgerInv, AccountInv, StreamsOf
    <3>2. QED
      BY <1>1, <1>8, <1>12, <2>2, <3>1, OtherAccount DEF StreamsOf
  <2>3. QED
    BY <2>1, <2>2
<1>16. PhaseInv'
  <2>1. \A u \in Threads \ {t} : taken'[u] = taken[u] /\ batch'[u] = batch[u]
    BY <1>1 DEF HandlerTypes
  <2>2. taken'[t] = NotTaken
    BY <1>1 DEF HandlerTypes
  <2>3. \A u \in Threads : taken'[u] # NotTaken => taken'[u] + 1 = chunkIndex'[Output[u]]
    BY <1>1, <2>1, <2>2 DEF LedgerInv, PhaseInv
  <2>4. \A u \in Threads : batch'[u] # <<>> => /\ phase'[Owner[Output[u]]] \in {"running", "finishing"}
                                               /\ Output[u] \in started' \ closed'
    BY <1>1, <1>2, <2>1 DEF LedgerInv, PhaseInv
  <2>5. \A q \in Requests : HasTerminal(written'[q]) \/ q \in Range(terminated') => phase'[q] = "over"
    BY <1>1, <1>3, <1>6, <1>8 DEF LedgerInv, PhaseInv
  <2>6. QED
    BY <1>1, <2>3, <2>4, <2>5 DEF LedgerInv, PhaseInv
<1>17. QED
  BY <1>14, <1>15, <1>16 DEF LedgerInv

LEMMA LedgerClose ==
  ASSUME HandlerTypes, ThreadInv, RestInv, LedgerInv, NEW s \in Streams, CloseStream(s)
  PROVE  LedgerInv'
<1> DEFINE r == Owner[s]
           n == Len(written[r])
<1>1. /\ r \in Requests /\ s \in StreamsOf(r) /\ phase[r] = "finishing"
      /\ s \in started \ closed /\ buffer[s] = <<>> /\ closed' = closed \cup {s}
      /\ \A t \in Threads : Output[t] = s => batch[t] = <<>>
      /\ UNCHANGED <<phase, started, buffer, batch, taken, chunkIndex>>
  BY ResponseAssumption DEF CloseStream, StreamsOf, handlerVars
<1>2. ~HasTerminal(written[r]) /\ r \notin Range(terminated)
  BY <1>1, StillOpen DEF LedgerInv
<1>3. chunkIndex[s] \in Nat
  BY DEF HandlerTypes
<1>4. Frame("STREAM_END", s, chunkIndex[s], <<>>) \in Unnumbered
  <2>1. chunkIndex[s] \in Int /\ <<>> \in Seq(Nat) /\ "STREAM_END" \in Kinds
    BY <1>3 DEF Kinds
  <2>2. QED
    BY <2>1, FrameType
<1>5. WriteFrame(r, Frame("STREAM_END", s, chunkIndex[s], <<>>))
  BY DEF CloseStream
<1>6. PICK f \in Frames :
        /\ f.kind = "STREAM_END" /\ f.stream = s /\ f.index = chunkIndex[s]
        /\ written' = [written EXCEPT ![r] = Append(written[r], f)] /\ terminated' = terminated
  BY <1>1, <1>2, <1>4, <1>5, Appended DEF Frame, IsTerminal
<1>7. DataInv
  BY DEF RestInv
<1> HIDE DEF Frames
<1>8. /\ n \in Nat /\ Len(written'[r]) = n + 1 /\ written'[r][n + 1] = f
      /\ Starts(written'[r], n) = Starts(written[r], n)
      /\ Ends(written'[r], n) = Ends(written[r], n)
      /\ Indices(written'[r], s, n) = Indices(written[r], s, n)
      /\ Starts(written'[r], n + 1) = Starts(written[r], n)
      /\ Ends(written'[r], n + 1) = Ends(written[r], n) \cup {s}
      /\ \A u : Indices(written'[r], u, n + 1) = Indices(written[r], u, n)
      /\ ~HasTerminal(written'[r])
      /\ \A q \in Requests \ {r} : written'[q] = written[q]
  <2>1. LET w == written[r]
            v == written'[r]
            k == Len(written[r])
        IN  /\ k \in Nat /\ Len(v) = k + 1 /\ v[k + 1] = f
            /\ Starts(v, k) = Starts(w, k) /\ Ends(v, k) = Ends(w, k)
            /\ \A u : Indices(v, u, k) = Indices(w, u, k)
            /\ Starts(v, k + 1) = Starts(w, k) /\ Ends(v, k + 1) = Ends(w, k) \cup {f.stream}
            /\ \A u : Indices(v, u, k + 1) = Indices(w, u, k)
            /\ HasTerminal(v) <=> HasTerminal(w)
            /\ \A q \in Requests \ {r} : written'[q] = written[q]
    <3>1. /\ r \in Requests /\ s \in Streams /\ DataInv /\ f \in Frames
          /\ written' = [written EXCEPT ![r] = Append(written[r], f)]
      BY <1>1, <1>6, <1>7
    <3>2. f.kind = "STREAM_END" /\ f.stream \in Streams
      BY <1>6
    <3> HIDE DEF r
    <3>3. QED
      BY <3>1, <3>2, EndAdded
  <2>2. QED
    BY <1>2, <1>6, <2>1
<1>9. Account(r)
  BY <1>1 DEF LedgerInv, AccountInv
<1>10. Due(s) = chunkIndex[s]
  BY <1>1 DEF Due, ThreadInv
<1>11. RulesInv'
  <2>1. Follows(written'[r], n + 1, r)
    <3>1. (n + 1) - 1 = n
      BY <1>8
    <3>2. s \in Starts(written'[r], n) \ Ends(written'[r], n)
      BY <1>1, <1>8, <1>9 DEF Account
    <3>3. Indices(written'[r], s, n) = 0 .. (chunkIndex[s] - 1)
      BY <1>1, <1>8, <1>9, <1>10 DEF Account
    <3>4. QED
      BY <1>3, <1>6, <1>8, <3>1, <3>2, <3>3 DEF Follows
  <2>2. QED
    BY <1>1, <1>6, <1>7, <2>1, RulesWrite DEF LedgerInv
<1>12. \A u \in Streams : Due(u)' = Due(u)
  BY <1>1 DEF Due
<1>13. AccountInv'
  <2> SUFFICES ASSUME NEW q \in Requests, phase[q] \in {"none", "running", "finishing"}
               PROVE  Account(q)'
    BY <1>1 DEF AccountInv
  <2>1. CASE q = r
    BY <1>1, <1>8, <1>9, <1>12, <2>1 DEF Account, StreamsOf
  <2>2. CASE q # r
    <3>1. Account(q) /\ s \notin StreamsOf(q)
      BY <2>2 DEF LedgerInv, AccountInv, StreamsOf
    <3>2. QED
      BY <1>1, <1>8, <1>12, <2>2, <3>1, OtherAccount DEF StreamsOf
  <2>3. QED
    BY <2>1, <2>2
<1>14. PhaseInv'
  <2>1. \A u \in Threads : batch'[u] # <<>> => /\ phase'[Owner[Output[u]]] \in {"running", "finishing"}
                                               /\ Output[u] \in started' \ closed'
    BY <1>1 DEF LedgerInv, PhaseInv
  <2>2. \A q \in Requests : HasTerminal(written'[q]) \/ q \in Range(terminated') => phase'[q] = "over"
    BY <1>1, <1>2, <1>6, <1>8 DEF LedgerInv, PhaseInv
  <2>3. \A u \in closed' : phase'[Owner[u]] \in {"finishing", "over"}
    BY <1>1 DEF LedgerInv, PhaseInv
  <2>4. QED
    BY <1>1, <2>1, <2>2, <2>3 DEF LedgerInv, PhaseInv
<1>15. QED
  BY <1>11, <1>13, <1>14 DEF LedgerInv

LEMMA LedgerTerminal ==
  ASSUME HandlerTypes, ThreadInv, RestInv, LedgerInv, NEW r \in Requests, WriteTerminal(r)
  PROVE  LedgerInv'
<1> DEFINE kind == IF phase[r] = "finishing" /\ r \notin cancelled THEN "END" ELSE "ERR"
           n == Len(written[r])
<1>1. /\ \/ phase[r] = "finishing" /\ StreamsOf(r) \subseteq closed
         \/ phase[r] = "failed"
      /\ phase' = [phase EXCEPT ![r] = "over"]
      /\ UNCHANGED <<started, closed, buffer, batch, taken, chunkIndex>>
      /\ WriteFrame(r, Plain(kind))
  BY DEF WriteTerminal, streamVars
<1>2. /\ phase'[r] = "over" /\ \A q \in Requests \ {r} : phase'[q] = phase[q]
      /\ ~HasTerminal(written[r]) /\ r \notin Range(terminated)
  BY <1>1, StillOpen DEF HandlerTypes, LedgerInv
<1>3. Plain(kind) \in Unnumbered /\ Plain(kind).kind = kind
  <2>1. kind \in Kinds
    BY DEF Kinds
  <2>2. QED
    BY <2>1, PlainType DEF Plain, Frame
<1>4. PICK f \in Frames :
        f.kind = kind /\ written' = [written EXCEPT ![r] = Append(written[r], f)]
  BY <1>1, <1>2, <1>3, Appended DEF RestInv
<1>5. Range(terminated') \subseteq Range(terminated) \cup {r}
  BY <1>1, RememberedOnes
<1>6. DataInv
  BY DEF RestInv
<1> HIDE DEF Frames
<1>7. /\ n \in Nat /\ Len(written'[r]) = n + 1 /\ written'[r][n + 1] = f
      /\ Starts(written'[r], n) = Starts(written[r], n)
      /\ Ends(written'[r], n) = Ends(written[r], n)
      /\ \A q \in Requests \ {r} : written'[q] = written[q]
  BY <1>4, <1>6, PlainAdded
<1>8. RulesInv'
  <2>1. Follows(written'[r], n + 1, r)
    <3>1. (n + 1) - 1 = n
      BY <1>7
    <3>2. ASSUME kind = "END" PROVE Starts(written[r], n) \subseteq Ends(written[r], n)
      <4>1. phase[r] = "finishing" /\ StreamsOf(r) \subseteq closed
        BY <1>1, <3>2
      <4>2. Account(r)
        BY <4>1 DEF LedgerInv, AccountInv
      <4>3. QED
        BY <4>1, <4>2 DEF Account
    <3>3. QED
      BY <1>4, <1>7, <3>1, <3>2 DEF Follows
  <2>2. QED
    BY <1>4, <1>6, <2>1, RulesWrite DEF LedgerInv
<1>9. AccountInv'
  <2> SUFFICES ASSUME NEW q \in Requests, phase'[q] \in {"none", "running", "finishing"}
               PROVE  Account(q)'
    BY DEF AccountInv
  <2>1. q # r /\ Account(q)
    BY <1>2 DEF LedgerInv, AccountInv
  <2>2. \A s \in StreamsOf(q) : Due(s)' = Due(s)
    BY <1>1 DEF Due
  <2>3. QED
    BY <1>1, <1>7, <2>1, <2>2, OtherAccount
<1>10. PhaseInv'
  <2>1. \A q \in Requests : HasTerminal(written'[q]) \/ q \in Range(terminated') => phase'[q] = "over"
    BY <1>2, <1>5, <1>7 DEF LedgerInv, PhaseInv
  <2>2. ASSUME NEW t \in Threads, batch'[t] # <<>>
        PROVE  /\ phase'[Owner[Output[t]]] \in {"running", "finishing"}
               /\ Output[t] \in started' \ closed'
    <3>1. /\ phase[Owner[Output[t]]] \in {"running", "finishing"}
          /\ Output[t] \in started \ closed
      BY <1>1, <2>2 DEF LedgerInv, PhaseInv
    <3>2. Output[t] \in Streams /\ Owner[Output[t]] \in Requests
      BY ResponseAssumption
    <3>3. Owner[Output[t]] # r
      BY <1>1, <3>1, <3>2 DEF StreamsOf
    <3>4. QED
      BY <1>1, <1>2, <3>1, <3>2, <3>3
  <2>3. \A s \in closed' : phase'[Owner[s]] \in {"finishing", "over"}
    <3>1. closed \subseteq Streams
      BY DEF HandlerTypes
    <3>2. QED
      BY <1>1, <1>2, <3>1, ResponseAssumption DEF LedgerInv, PhaseInv
  <2>4. QED
    BY <1>1, <2>1, <2>2, <2>3 DEF LedgerInv, PhaseInv
<1>11. QED
  BY <1>8, <1>9, <1>10 DEF LedgerInv

LEMMA LedgerLog ==
  ASSUME HandlerTypes, ThreadInv, RestInv, LedgerInv, NEW r \in Requests, WriteLog(r)
  PROVE  LedgerInv'
<1> DEFINE n == Len(written[r])
<1>1. /\ UNCHANGED <<phase, started, closed, buffer, batch, taken, chunkIndex>>
      /\ WriteFrame(r, Plain("LOG"))
  BY DEF WriteLog, handlerVars
<1>2. \A s \in Streams : Due(s)' = Due(s)
  BY <1>1 DEF Due
<1>3. CASE r \in Range(terminated)
  <2>1. UNCHANGED <<written, terminated>>
    BY <1>1, <1>3 DEF WriteFrame, Suppressed, IsFlow, ControlKinds, Plain, Frame, writerVars
  <2>2. RulesInv'
    BY <2>1 DEF LedgerInv, RulesInv, Sent
  <2>3. AccountInv'
    BY <1>1, <2>1, SameAccount DEF LedgerInv, AccountInv
  <2>4. PhaseInv'
    BY <1>1, <2>1 DEF LedgerInv, PhaseInv, HasTerminal
  <2>5. QED
    BY <2>2, <2>3, <2>4 DEF LedgerInv
<1>4. CASE r \notin Range(terminated)
  <2>1. Plain("LOG") \in Unnumbered /\ Plain("LOG").kind = "LOG"
    BY PlainType DEF Plain, Frame, Kinds
  <2>2. PICK f \in Frames :
          /\ f.kind = "LOG" /\ written' = [written EXCEPT ![r] = Append(written[r], f)]
          /\ terminated' = terminated
    BY <1>1, <1>4, <2>1, Appended DEF IsTerminal
  <2>3. DataInv
    BY DEF RestInv
  <2> HIDE DEF Frames
  <2>4. /\ n \in Nat /\ Len(written'[r]) = n + 1 /\ written'[r][n + 1] = f
        /\ Starts(written'[r], n + 1) = Starts(written[r], n)
        /\ Ends(written'[r], n + 1) = Ends(written[r], n)
        /\ \A u : Indices(written'[r], u, n + 1) = Indices(written[r], u, n)
        /\ HasTerminal(written'[r]) <=> HasTerminal(written[r])
        /\ \A q \in Requests \ {r} : written'[q] = written[q]
    BY <2>2, <2>3, PlainAdded DEF IsTerminal
  <2>5. RulesInv'
    <3>1. Follows(written'[r], n + 1, r)
      BY <2>2, <2>4 DEF Follows
    <3>2. QED
      BY <2>2, <2>3, <3>1, RulesWrite DEF LedgerInv
  <2>6. AccountInv'
    <3> SUFFICES ASSUME NEW q \in Requests, phase[q] \in {"none", "running", "finishing"}
                 PROVE  Account(q)'
      BY <1>1 DEF AccountInv
    <3>1. Account(q)
      BY DEF LedgerInv, AccountInv
    <3>2. CASE q = r
      BY <1>1, <1>2, <2>4, <3>1, <3>2 DEF Account, StreamsOf
    <3>3. CASE q # r
      BY <1>1, <1>2, <2>4, <3>1, <3>3, OtherAccount DEF StreamsOf
    <3>4. QED
      BY <3>2, <3>3
  <2>7. PhaseInv'
    BY <1>1, <2>2, <2>4 DEF LedgerInv, PhaseInv
  <2>8. QED
    BY <2>5, <2>6, <2>7 DEF LedgerInv
<1>5. QED
  BY <1>3, <1>4

LEMMA InitLedger == Init => LedgerInv
<1> SUFFICES ASSUME Init PROVE LedgerInv
  OBVIOUS
<1>1. \A r \in Requests : written[r] = <<>> /\ Sent(r) = <<>> /\ Len(written[r]) = 0
  BY DEF Init, Sent, UpToTerminal
<1>2. \A i : i \notin 1 .. 0
  OBVIOUS
<1>3. RulesInv
  BY <1>1 DEF RulesInv
<1>4. PhaseInv
  BY <1>1 DEF Init, PhaseInv, HasTerminal, Range
<1>5. \A s \in Streams : Due(s) = 0
  BY ResponseAssumption DEF Init, Due
<1>6. \A s \in Streams : 0 .. (Due(s) - 1) = {}
  BY <1>5
<1>7. AccountInv
  <2> SUFFICES ASSUME NEW r \in Requests PROVE Account(r)
    BY DEF AccountInv
  <2>1. Starts(written[r], 0) = {} /\ Ends(written[r], 0) = {} /\ \A s : Indices(written[r], s, 0) = {}
    BY <1>2 DEF Starts, Ends, Indices
  <2>2. started = {} /\ closed = {}
    BY DEF Init
  <2>3. QED
    BY <1>1, <1>6, <2>1, <2>2 DEF Account, StreamsOf
<1>8. QED
  BY <1>3, <1>4, <1>7 DEF LedgerInv

LEMMA NextLedger ==
  ASSUME OneWriter, HandlerTypes, ThreadInv, RestInv, LedgerInv, [Next]_vars
  PROVE  LedgerInv'
<1>1. ASSUME NEW r \in Requests, Accept(r) \/ Return(r) \/ Cancel(r) PROVE LedgerInv'
  <2>1. UNCHANGED <<written, terminated>>
    BY <1>1 DEF Accept, Return, Cancel, writerVars
  <2>2. QED
    BY <1>1, <2>1, LedgerSilent
<1>2. ASSUME NEW r \in Requests, NEW i \in travelling[r], ArriveOnce(r, i) \/ ArriveAndStay(r, i)
      PROVE  LedgerInv'
  <2>1. UNCHANGED <<written, terminated>> /\ UNCHANGED <<handlerVars, streamVars>>
    BY <1>2 DEF ArriveOnce, ArriveAndStay, Arrive
  <2>2. QED
    BY <2>1, LedgerSilent
<1>3. ASSUME Route \/ UNCHANGED vars PROVE LedgerInv'
  <2>1. UNCHANGED <<written, terminated>> /\ UNCHANGED <<handlerVars, streamVars>>
    BY <1>3 DEF Route, vars, writerVars
  <2>2. QED
    BY <2>1, LedgerSilent
<1>4. ASSUME NEW r \in Requests, Fail(r) \/ WriteTerminal(r) \/ WriteLog(r) PROVE LedgerInv'
  BY <1>4, LedgerFail, LedgerTerminal, LedgerLog
<1>5. ASSUME NEW s \in Streams, StartStream(s) \/ FlushLast(s) \/ CloseStream(s) PROVE LedgerInv'
  BY <1>5, LedgerStart, LedgerEmit, LedgerClose
<1>6. ASSUME NEW t \in Threads, EmitBytes(t) \/ EmitValue(t) \/ TakeIndex(t) \/ WriteChunk(t)
      PROVE  LedgerInv'
  BY <1>6, LedgerEmit, LedgerTake, LedgerChunk
<1>7. QED
  BY <1>1, <1>2, <1>3, <1>4, <1>5, <1>6 DEF Next

-----------------------------------------------------------------------------
(***************************************************************************)
(* The receiver's side of the rules.                                       *)
(***************************************************************************)
LEMMA NoneViolates ==
  ASSUME NEW e, NEW w, NEW n \in Nat, NEW r, Noted(e, w, n), Follows(w, n + 1, r)
  PROVE  ~Violates(e, w[n + 1])
<1> DEFINE f == w[n + 1]
<1>1. (n + 1) - 1 = n
  OBVIOUS
<1>2. /\ f.kind = "STREAM_START" => f.stream \in StreamsOf(r) \ Starts(w, n)
      /\ f.kind \in {"CHUNK", "STREAM_END"} =>
           /\ f.stream \in Starts(w, n) \ Ends(w, n) /\ f.index \in Nat
           /\ Indices(w, f.stream, n) = 0 .. (f.index - 1)
      /\ f.kind = "END" => Starts(w, n) \subseteq Ends(w, n)
  BY <1>1 DEF Follows
<1> HIDE DEF f
<1>3. e.done = FALSE
  BY DEF Noted
<1>4. f.kind = "STREAM_START" => ~StartViolates(e, f.stream)
  BY <1>2 DEF Noted, StartViolates, OpenStreams
<1>5. f.kind \in {"CHUNK", "STREAM_END"} => f.stream \in DOMAIN e.open /\ f.index = e.open[f.stream]
  <2> SUFFICES ASSUME f.kind \in {"CHUNK", "STREAM_END"}
               PROVE  f.stream \in DOMAIN e.open /\ f.index = e.open[f.stream]
    OBVIOUS
  <2>1. f.stream \in DOMAIN e.open
    BY <1>2 DEF Noted
  <2>2. PICK a, b : a = f.index /\ b = e.open[f.stream]
    OBVIOUS
  <2>3. a \in Nat /\ b \in Nat /\ 0 .. (a - 1) = 0 .. (b - 1)
    BY <1>2, <2>1, <2>2 DEF Noted
  <2>4. a = b
    <3>1. a < b => a \in 0 .. (b - 1) /\ a \notin 0 .. (a - 1)
      BY <2>3
    <3>2. b < a => b \in 0 .. (a - 1) /\ b \notin 0 .. (b - 1)
      BY <2>3
    <3>3. QED
      BY <2>3, <3>1, <3>2
  <2>5. QED
    BY <2>1, <2>2, <2>4
<1>6. f.kind = "END" => ~EndViolates(e)
  BY <1>2 DEF Noted, EndViolates, OpenStreams
<1>7. QED
  BY <1>3, <1>4, <1>5, <1>6 DEF Violates, ChunkViolates, StreamEndViolates, OpenStreams, f

LEMMA OpenedAndClosed ==
  ASSUME NEW e, DOMAIN e = {"open", "closed", "done"}, NEW o, NEW c
  PROVE  /\ LET d == [e EXCEPT !.open = o] IN
            DOMAIN d = DOMAIN e /\ d.open = o /\ d.closed = e.closed /\ d.done = e.done
         /\ LET d == [e EXCEPT !.open = o, !.closed = c] IN
            DOMAIN d = DOMAIN e /\ d.open = o /\ d.closed = c /\ d.done = e.done
<1>1. LET d == [e EXCEPT !.open = o] IN
      DOMAIN d = DOMAIN e /\ d.open = o /\ d.closed = e.closed /\ d.done = e.done
  OBVIOUS
<1>2. LET d == [e EXCEPT !.open = o, !.closed = c] IN
      DOMAIN d = DOMAIN e /\ d.open = o /\ d.closed = c /\ d.done = e.done
  OBVIOUS
<1>3. QED
  BY <1>1, <1>2

LEMMA NotedMore ==
  ASSUME NEW e, NEW w, NEW n \in Nat, NEW r, Noted(e, w, n), Follows(w, n + 1, r),
         ~IsTerminal(w[n + 1].kind)
  PROVE  Noted(Observed(e, w[n + 1]), w, n + 1)
<1> DEFINE f == w[n + 1]
           s == f.stream
<1>1. (n + 1) - 1 = n
  OBVIOUS
<1>2. /\ f.kind = "STREAM_START" => s \in StreamsOf(r) \ Starts(w, n)
      /\ f.kind \in {"CHUNK", "STREAM_END"} =>
           /\ s \in Starts(w, n) \ Ends(w, n) /\ f.index \in Nat
           /\ Indices(w, s, n) = 0 .. (f.index - 1)
  BY <1>1 DEF Follows
<1>3. /\ Starts(w, n + 1) =
           Starts(w, n) \cup {u \in Streams : f.kind = "STREAM_START" /\ f.stream = u}
      /\ Ends(w, n + 1) =
           Ends(w, n) \cup {u \in Streams : f.kind = "STREAM_END" /\ f.stream = u}
      /\ \A u : Indices(w, u, n + 1) =
           Indices(w, u, n) \cup {m \in Nat : f.kind = "CHUNK" /\ f.stream = u /\ f.index = m}
  BY OneMoreFrame
<1>4. f.kind \notin {"END", "ERR"} /\ ~Violates(e, f)
  BY NoneViolates DEF IsTerminal
<1>5. Starts(w, n) \subseteq Streams
  BY DEF Starts
<1>6. /\ DOMAIN e = {"open", "closed", "done"} /\ e.done = FALSE
      /\ DOMAIN e.open = Starts(w, n) \ Ends(w, n) /\ e.closed = Ends(w, n)
      /\ Ends(w, n) \subseteq Starts(w, n)
      /\ \A u \in Streams \ Starts(w, n) : Indices(w, u, n) = {}
      /\ \A u \in DOMAIN e.open : e.open[u] \in Nat /\ Indices(w, u, n) = 0 .. (e.open[u] - 1)
  BY DEF Noted
<1> HIDE DEF f, s
<1>7. CASE f.kind = "STREAM_START"
  <2> DEFINE open == [t \in DOMAIN e.open \cup {s} |-> IF t = s THEN 0 ELSE e.open[t]]
  <2>1. s \in Streams /\ s \notin Starts(w, n)
    BY <1>2, <1>7 DEF StreamsOf
  <2>2. LET d == Observed(e, f) IN
        DOMAIN d = DOMAIN e /\ d.open = open /\ d.closed = e.closed /\ d.done = FALSE
    <3>1. Observed(e, f) = [e EXCEPT !.open = open]
      BY <1>7 DEF Observed, StreamStarted, OpenStreams, s
    <3> HIDE DEF open
    <3>2. QED
      BY <1>6, <3>1, OpenedAndClosed
  <2>3. /\ Starts(w, n + 1) = Starts(w, n) \cup {s} /\ Ends(w, n + 1) = Ends(w, n)
        /\ \A u : Indices(w, u, n + 1) = Indices(w, u, n)
    BY <1>3, <1>7, <2>1 DEF s
  <2>4. /\ DOMAIN open = DOMAIN e.open \cup {s} /\ open[s] = 0
        /\ \A t \in DOMAIN e.open : t # s /\ open[t] = e.open[t]
    BY <1>6, <2>1
  <2> HIDE DEF open
  <2>5. \A u \in DOMAIN open : open[u] \in Nat /\ Indices(w, u, n + 1) = 0 .. (open[u] - 1)
    <3>1. open[s] \in Nat /\ Indices(w, s, n + 1) = 0 .. (open[s] - 1)
      <4>1. 0 .. (0 - 1) = {} /\ 0 \in Nat
        OBVIOUS
      <4>2. QED
        BY <1>6, <2>1, <2>3, <2>4, <4>1
    <3>2. \A u \in DOMAIN e.open : open[u] \in Nat /\ Indices(w, u, n + 1) = 0 .. (open[u] - 1)
      BY <1>6, <2>3, <2>4
    <3>3. ASSUME NEW u \in DOMAIN open
          PROVE  open[u] \in Nat /\ Indices(w, u, n + 1) = 0 .. (open[u] - 1)
      <4>1. u = s \/ u \in DOMAIN e.open
        BY <2>4
      <4>2. QED
        BY <3>1, <3>2, <4>1
    <3>4. QED
      BY <3>3
  <2>6. DOMAIN open = Starts(w, n + 1) \ Ends(w, n + 1)
    BY <1>6, <2>1, <2>3, <2>4
  <2>7. \A u \in Streams \ Starts(w, n + 1) : Indices(w, u, n + 1) = {}
    BY <1>6, <2>3
  <2>8. Noted(Observed(e, f), w, n + 1)
    BY <2>2, <1>6, <2>3, <2>5, <2>6, <2>7 DEF Noted
  <2>9. QED
    BY <2>8 DEF f
<1>8. CASE f.kind = "CHUNK"
  <2> DEFINE open == [e.open EXCEPT ![s] = @ + 1]
  <2>1. s \in DOMAIN e.open /\ f.index = e.open[s] /\ s \in Starts(w, n)
    BY <1>2, <1>4, <1>8 DEF Violates, ChunkViolates, OpenStreams, s
  <2>2. LET d == Observed(e, f) IN
        DOMAIN d = DOMAIN e /\ d.open = open /\ d.closed = e.closed /\ d.done = FALSE
    <3>1. Observed(e, f) = [e EXCEPT !.open = open]
      BY <1>8 DEF Observed, ChunkSent, OneMore, s
    <3> HIDE DEF open
    <3>2. QED
      BY <1>6, <3>1, OpenedAndClosed
  <2>3. /\ Starts(w, n + 1) = Starts(w, n) /\ Ends(w, n + 1) = Ends(w, n)
        /\ \A u : u # s => Indices(w, u, n + 1) = Indices(w, u, n)
        /\ Indices(w, s, n + 1) = Indices(w, s, n) \cup {f.index}
    <3>1. /\ {u \in Streams : f.kind = "STREAM_START" /\ f.stream = u} = {}
          /\ {u \in Streams : f.kind = "STREAM_END" /\ f.stream = u} = {}
      BY <1>8
    <3>2. \A u : u # s => {m \in Nat : f.kind = "CHUNK" /\ f.stream = u /\ f.index = m} = {}
      BY DEF s
    <3>3. {m \in Nat : f.kind = "CHUNK" /\ f.stream = s /\ f.index = m} = {f.index}
      BY <1>2, <1>8 DEF s
    <3>4. QED
      BY <1>3, <3>1, <3>2, <3>3
  <2>4. /\ DOMAIN open = DOMAIN e.open /\ open[s] = e.open[s] + 1
        /\ \A u \in DOMAIN e.open : u # s => open[u] = e.open[u]
    BY <2>1
  <2> HIDE DEF open
  <2>5. open[s] \in Nat /\ Indices(w, s, n + 1) = 0 .. (open[s] - 1)
    <3>1. \A k \in Nat : k + 1 \in Nat /\ (0 .. (k - 1)) \cup {k} = 0 .. ((k + 1) - 1)
      OBVIOUS
    <3>2. QED
      BY <1>6, <2>1, <2>3, <2>4, <3>1
  <2>6. \A u \in DOMAIN open : open[u] \in Nat /\ Indices(w, u, n + 1) = 0 .. (open[u] - 1)
    BY <1>6, <2>3, <2>4, <2>5
  <2>7. \A u \in Streams \ Starts(w, n + 1) : Indices(w, u, n + 1) = {}
    BY <1>6, <2>1, <2>3
  <2>8. Noted(Observed(e, f), w, n + 1)
    BY <2>2, <1>6, <2>3, <2>4, <2>6, <2>7 DEF Noted
  <2>9. QED
    BY <2>8 DEF f
<1>9. CASE f.kind = "STREAM_END"
  <2> DEFINE open == [t \in DOMAIN e.open \ {s} |-> e.open[t]]
  <2>1. s \in Streams /\ s \in Starts(w, n)
    BY <1>2, <1>5, <1>9
  <2>2. LET d == Observed(e, f) IN
        DOMAIN d = DOMAIN e /\ d.open = open /\ d.closed = e.closed \cup {s} /\ d.done = FALSE
    <3>1. Observed(e, f) = [e EXCEPT !.open = open, !.closed = e.closed \cup {s}]
      BY <1>9 DEF Observed, StreamEnded, Without, s
    <3> HIDE DEF open
    <3>2. QED
      BY <1>6, <3>1, OpenedAndClosed
  <2>3. /\ Starts(w, n + 1) = Starts(w, n) /\ Ends(w, n + 1) = Ends(w, n) \cup {s}
        /\ \A u : Indices(w, u, n + 1) = Indices(w, u, n)
    BY <1>3, <1>9, <2>1 DEF s
  <2>4. DOMAIN open = DOMAIN e.open \ {s} /\ \A t \in DOMAIN open : open[t] = e.open[t]
    OBVIOUS
  <2> HIDE DEF open
  <2>5. \A u \in DOMAIN open : open[u] \in Nat /\ Indices(w, u, n + 1) = 0 .. (open[u] - 1)
    BY <1>6, <2>3, <2>4
  <2>6. DOMAIN open = Starts(w, n + 1) \ Ends(w, n + 1)
    BY <1>6, <2>3, <2>4
  <2>7. Noted(Observed(e, f), w, n + 1)
    BY <2>2, <1>6, <2>1, <2>3, <2>5, <2>6 DEF Noted
  <2>8. QED
    BY <2>7 DEF f
<1>10. CASE f.kind \notin {"STREAM_START", "CHUNK", "STREAM_END"}
  <2>1. Observed(e, f) = e
    BY <1>4, <1>10 DEF Observed
  <2>2. /\ Starts(w, n + 1) = Starts(w, n) /\ Ends(w, n + 1) = Ends(w, n)
        /\ \A u : Indices(w, u, n + 1) = Indices(w, u, n)
    BY <1>3, <1>10
  <2>3. Noted(e, w, n + 1)
    BY <1>6, <2>2 DEF Noted
  <2>4. QED
    BY <2>1, <2>3 DEF f
<1>11. QED
  BY <1>7, <1>8, <1>9, <1>10

(* What is written later changes nothing of what was noted.                *)
LEMMA NotedSame ==
  ASSUME RestInv, NotedInv, SameFresh, UNCHANGED <<table, emission, broken, got>>,
         \A r \in Requests : \A i \in 1 .. Len(written[r]) : written'[r][i] = written[r][i]
  PROVE  NotedInv'
<1>1. \A r \in Requests : phase'[r] = "none" => emission'[r] = EmissionStart
  BY DEF NotedInv, SameFresh
<1>2. ASSUME NEW r \in Requests, Live(r)'
      PROVE  Noted(emission[r], written'[r], Len(got[r]))
  <2>1. Live(r)
    BY <1>2 DEF Live
  <2>2. Noted(emission[r], written[r], Len(got[r]))
    BY <2>1 DEF NotedInv
  <2>3. /\ Len(got[r]) \in Nat /\ Len(got[r]) <= Len(Sent(r))
        /\ Len(Sent(r)) \in Nat /\ Len(Sent(r)) <= Len(written[r]) /\ Len(written[r]) \in Nat
    <3>1. got[r] \in Seq(Frames)
      BY DEF RestInv, DataInv
    <3> HIDE DEF Frames
    <3>2. Len(got[r]) \in Nat
      BY <3>1
    <3>3. QED
      BY <3>2, SentFacts DEF RestInv, FlowInv, GotInv
  <2>4. PICK w, v, n, e : w = written[r] /\ v = written'[r] /\ n = Len(got[r]) /\ e = emission[r]
    OBVIOUS
  <2>5. n \in Nat /\ \A i \in 1 .. n : w[i] = v[i]
    BY <2>3, <2>4
  <2>6. /\ Starts(w, n) = Starts(v, n) /\ Ends(w, n) = Ends(v, n)
        /\ \A s : Indices(w, s, n) = Indices(v, s, n)
    BY <2>5, SameFrames
  <2>7. Noted(e, v, n)
    BY <2>2, <2>4, <2>6 DEF Noted
  <2>8. QED
    BY <2>4, <2>7
<1>3. QED
  BY <1>1, <1>2 DEF NotedInv, Live

LEMMA NotedAccept ==
  ASSUME HandlerTypes, RestInv, NotedInv, NEW r \in Requests, Accept(r)
  PROVE  NotedInv'
<1>1. /\ phase[r] = "none" /\ phase' = [phase EXCEPT ![r] = "running"]
      /\ table' = Registered(table, r, r)
      /\ UNCHANGED <<written, emission, broken, got>>
  BY DEF Accept, writerVars
<1>2. /\ LiveRids(table)' = LiveRids(table) \cup {r} /\ got[r] = <<>>
      /\ emission[r] = EmissionStart
  BY <1>1 DEF RestInv, DataInv, FlowInv, FreshInv, Registered, LiveRids, NotedInv
<1>3. \A q \in Requests : phase'[q] = "none" => phase[q] = "none"
  BY <1>1 DEF HandlerTypes
<1>4. Noted(EmissionStart, written[r], 0)
  <2>1. /\ Starts(written[r], 0) = {} /\ Ends(written[r], 0) = {}
        /\ \A s : Indices(written[r], s, 0) = {}
    <3>1. \A i : i \notin 1 .. 0
      OBVIOUS
    <3>2. QED
      BY <3>1 DEF Starts, Ends, Indices
  <2>2. /\ DOMAIN <<>> = {} /\ DOMAIN EmissionStart = {"open", "closed", "done"}
        /\ EmissionStart.open = <<>> /\ EmissionStart.closed = {} /\ EmissionStart.done = FALSE
    BY DEF EmissionStart
  <2>3. QED
    BY <2>1, <2>2 DEF Noted
<1>5. ASSUME NEW q \in Requests, Live(q)' PROVE Noted(emission[q], written[q], Len(got[q]))
  <2>1. CASE q = r
    <3>1. Len(got[r]) = 0
      BY <1>2
    <3>2. QED
      BY <1>2, <1>4, <2>1, <3>1
  <2>2. CASE q # r
    BY <1>2, <1>5, <2>2 DEF Live, NotedInv
  <2>3. QED
    BY <2>1, <2>2
<1>6. QED
  BY <1>1, <1>3, <1>5 DEF NotedInv

LEMMA NotedRoute ==
  ASSUME RestInv, RulesInv, NotedInv, Route
  PROVE  NotedInv'
<1>1. PICK r, f : r = Head(ready)[1] /\ f = written[r][Head(ready)[2]]
  OBVIOUS
<1>2. /\ r \in Requests /\ UNCHANGED <<phase, written>>
      /\ Live(r) =>
           /\ got' = [got EXCEPT ![r] = Append(got[r], f)]
           /\ f = written[r][Len(got[r]) + 1] /\ Len(got[r]) + 1 <= Len(Sent(r))
           /\ f \in Frames
           /\ IsTerminal(f.kind) => Ended(r)
           /\ ~IsTerminal(f.kind) => UNCHANGED <<table, orders, held>>
      /\ ~Live(r) => UNCHANGED <<table, orders, held, got>>
  BY <1>1, RouteFacts
<1>3. Disposition(table, r) = "route" <=> Live(r)
  BY DEF Disposition, Dispose, Live
<1>4. CASE ~Live(r)
  <2>1. UNCHANGED <<table, emission, broken, got>>
    BY <1>1, <1>3, <1>4 DEF Route
  <2>2. QED
    BY <1>2, <2>1, NotedSame DEF SameFresh
<1>5. CASE Live(r)
  <2> DEFINE n == Len(got[r])
  <2>1. got \in [Requests -> Seq(Frames)] /\ got[r] \in Seq(Frames)
    BY <1>2 DEF RestInv, DataInv
  <2>2. n \in Nat /\ n + 1 \in 1 .. Len(Sent(r))
    <3> HIDE DEF Frames
    <3>1. n \in Nat /\ Len(Sent(r)) \in Nat
      BY <1>2, <2>1, SentFacts DEF RestInv
    <3>2. QED
      BY <1>2, <1>5, <3>1
  <2>3. Follows(written[r], n + 1, r) /\ Noted(emission[r], written[r], n) /\ f = written[r][n + 1]
    BY <1>2, <1>5, <2>2 DEF RulesInv, NotedInv
  <2>4. ~Violates(emission[r], f)
    BY <2>2, <2>3, NoneViolates
  <2>5. broken' = broken /\ emission' = [emission EXCEPT ![r] = Observed(emission[r], f)]
    BY <1>1, <1>3, <1>5, <2>4 DEF Route
  <2>6. /\ emission'[r] = Observed(emission[r], f) /\ emission' = [q \in Requests |-> emission'[q]]
        /\ \A q \in Requests \ {r} : emission'[q] = emission[q]
    BY <1>2, <2>5 DEF NotedInv
  <2>7. \A q \in Requests : phase'[q] = "none" => emission'[q] = EmissionStart
    <3>1. phase[r] # "none"
      BY <1>2, <1>5 DEF RestInv, FlowInv, FreshInv
    <3>2. QED
      BY <1>2, <2>6, <3>1 DEF NotedInv
  <2>8. /\ \A q \in Requests \ {r} : got'[q] = got[q]
        /\ Len(got'[r]) = n + 1
    <3> HIDE DEF Frames
    <3>1. got' = [got EXCEPT ![r] = Append(got[r], f)] /\ f \in Frames
      BY <1>2, <1>5
    <3>2. QED
      BY <1>2, <2>1, <3>1
  <2>9. \A q \in Requests \ {r} : Live(q)' => Live(q)
    <3>1. CASE IsTerminal(f.kind)
      <4>1. table' = Terminated(table, r, RecentCapacity)
        BY <1>2, <1>5, <3>1 DEF Ended
      <4>2. QED
        BY <4>1 DEF Live, LiveRids, Terminated, Struck, RestInv, DataInv
    <3>2. CASE ~IsTerminal(f.kind)
      BY <1>2, <1>5, <3>2 DEF Live
    <3>3. QED
      BY <3>1, <3>2
  <2>10. ASSUME Live(r)' PROVE Noted(emission'[r], written[r], n + 1)
    <3>1. ~IsTerminal(f.kind)
      <4> SUFFICES ASSUME IsTerminal(f.kind) PROVE FALSE
        OBVIOUS
      <4>1. table' = Terminated(table, r, RecentCapacity)
        BY <1>2, <1>5 DEF Ended
      <4>2. QED
        BY <2>10, <4>1 DEF Live, LiveRids, Terminated, Struck, RestInv, DataInv
    <3>2. QED
      BY <2>2, <2>3, <2>6, <3>1, NotedMore
  <2>11. ASSUME NEW q \in Requests, Live(q)'
         PROVE  Noted(emission'[q], written'[q], Len(got'[q]))
    <3>1. CASE q = r
      BY <1>2, <2>8, <2>10, <2>11, <3>1
    <3>2. CASE q # r
      BY <1>2, <2>6, <2>8, <2>9, <2>11, <3>2 DEF NotedInv
    <3>3. QED
      BY <3>1, <3>2
  <2>12. QED
    BY <2>5, <2>6, <2>7, <2>11 DEF NotedInv
<1>6. QED
  BY <1>4, <1>5

LEMMA NextNoted ==
  ASSUME HandlerTypes, ThreadInv, RestInv, RulesInv, NotedInv, [Next]_vars
  PROVE  NotedInv'
<1>1. CASE QuietAction
  BY <1>1, NotedSame DEF QuietAction, writerVars, receiverVars
<1>2. CASE WriteAction
  <2>1. PICK r \in Requests, frame \in Unnumbered :
          SameFresh /\ WriteFrame(r, frame) /\ UNCHANGED receiverVars
    BY <1>2 DEF WriteAction
  <2>2. \A q \in Requests : \A i \in 1 .. Len(written[q]) : written'[q][i] = written[q][i]
    <3>1. CASE UNCHANGED writerVars
      BY <3>1 DEF writerVars
    <3>2. CASE ~UNCHANGED writerVars
      <4>1. PICK f \in Frames : written' = [written EXCEPT ![r] = Append(written[r], f)]
        BY <2>1, <3>2, Written
      <4>2. written \in [Requests -> Seq(Frames)]
        BY DEF RestInv, DataInv
      <4> HIDE DEF Frames
      <4>3. QED
        BY <4>1, <4>2
    <3>3. QED
      BY <3>1, <3>2
  <2>3. QED
    BY <2>1, <2>2, NotedSame DEF receiverVars
<1>3. ASSUME NEW r \in Requests, Accept(r) PROVE NotedInv'
  BY <1>3, NotedAccept
<1>4. CASE ArriveAction
  <2>1. UNCHANGED <<table, emission, broken, got, written, phase>>
    <3>1. PICK r, i : ArriveOnce(r, i) \/ ArriveAndStay(r, i)
      BY <1>4 DEF ArriveAction
    <3>2. Arrive(r, i)
      BY <3>1 DEF ArriveOnce, ArriveAndStay
    <3>3. QED
      BY <3>2 DEF Arrive, handlerVars
  <2>2. QED
    BY <2>1, NotedSame DEF SameFresh
<1>5. CASE Route
  BY <1>5, NotedRoute
<1>6. QED
  BY <1>1, <1>2, <1>3, <1>4, <1>5, Steps

(***************************************************************************)
(* What reaches a request keeps every rule of its frames, whatever was     *)
(* cancelled, reordered, repeated or written after the terminal, as long   *)
(* as one thread at most emits to each stream: two may take their indices  *)
(* in one order and write in the other (cartridge_runtime.py:1884-1937,    *)
(* CapDAG-Bifaci-Request.c:280-866).                                       *)
(***************************************************************************)
THEOREM ResponsesKeepRules ==
  ASSUME Displacement <= HoldLimit, OneWriter
  PROVE  Spec => []FlowKeepsRules
<1> DEFINE I == /\ HandlerTypes /\ ThreadInv /\ RestInv /\ OvertakenAreTaken
                /\ LedgerInv /\ NotedInv
<1>1. Init => I
  <2>1. Init => NotedInv
    BY DEF Init, NotedInv, Live, LiveRids, TableEmpty
  <2>2. QED
    BY <2>1, InitRest, InitLedger
<1>2. I /\ [Next]_vars => I'
  BY NextRest, NextLedger, NextNoted DEF LedgerInv
<1>3. I => FlowKeepsRules
  BY TypeParts DEF RestInv, NotedInv, FlowKeepsRules
<1>4. QED
  BY <1>1, <1>2, <1>3, PTL DEF Spec
-----------------------------------------------------------------------------
(***************************************************************************)
(* Sequences joined to one: the recursion of FlattenSeq has one solution,  *)
(* so that one sequence more is one sequence appended.                     *)
(***************************************************************************)
Flattens(f, seqs, n) ==
  f = [i \in 1 .. n |-> IF i = 1 THEN seqs[i] ELSE f[i - 1] \o seqs[i]]

LEMMA FlatExists ==
  ASSUME NEW seqs, NEW n \in Nat
  PROVE  \E f : Flattens(f, seqs, n)
<1> DEFINE S == {k \in Nat : \A f : ~Flattens(f, seqs, k)}
<1>1. SUFFICES ASSUME S # {} PROVE FALSE
  OBVIOUS
<1>2. PICK k \in S : \A m \in S : k <= m
  <2>1. S \in SUBSET Nat
    OBVIOUS
  <2> HIDE DEF S
  <2>2. QED
    BY <1>1, <2>1, LeastOf
<1>3. k \in Nat /\ \A f : ~Flattens(f, seqs, k)
  OBVIOUS
<1>4. k # 0
  <2>1. 1 .. 0 = {}
    OBVIOUS
  <2>2. Flattens([i \in 1 .. 0 |-> 0], seqs, 0)
    BY <2>1 DEF Flattens
  <2>3. QED
    BY <1>3, <2>2
<1>5. k - 1 \in Nat /\ k - 1 \notin S
  <2>1. k - 1 \in Nat /\ ~ (k <= k - 1)
    BY <1>3, <1>4
  <2> HIDE DEF S
  <2>2. QED
    BY <1>2, <2>1
<1>6. PICK g : Flattens(g, seqs, k - 1)
  BY <1>5
<1> DEFINE f == [i \in 1 .. k |-> IF i < k THEN g[i]
                                  ELSE IF i = 1 THEN seqs[i] ELSE g[i - 1] \o seqs[i]]
<1>7. ASSUME NEW i \in 1 .. k
      PROVE  f[i] = IF i = 1 THEN seqs[i] ELSE f[i - 1] \o seqs[i]
  <2>1. CASE i = k
    <3>1. i # 1 => i - 1 \in 1 .. k /\ i - 1 < k
      BY <1>3, <2>1
    <3>2. i # 1 => f[i - 1] = g[i - 1]
      BY <3>1
    <3>3. QED
      BY <2>1, <3>2
  <2>2. CASE i # k
    <3>1. i < k /\ i \in 1 .. (k - 1) /\ (i # 1 => i - 1 \in 1 .. k /\ i - 1 < k)
      BY <1>3, <2>2
    <3>2. f[i] = g[i] /\ (i # 1 => f[i - 1] = g[i - 1])
      BY <3>1
    <3>3. g[i] = IF i = 1 THEN seqs[i] ELSE g[i - 1] \o seqs[i]
      BY <1>6, <3>1 DEF Flattens
    <3>4. QED
      BY <3>2, <3>3
  <2>3. QED
    BY <2>1, <2>2
<1>8. f = [i \in 1 .. k |-> f[i]]
  OBVIOUS
<1> HIDE DEF f
<1>9. Flattens(f, seqs, k)
  BY <1>7, <1>8 DEF Flattens
<1>10. QED
  BY <1>3, <1>9

LEMMA FlatAt ==
  ASSUME NEW seqs, NEW n \in Nat, NEW f, Flattens(f, seqs, n), NEW i \in 1 .. n
  PROVE  f[i] = IF i = 1 THEN seqs[i] ELSE f[i - 1] \o seqs[i]
BY DEF Flattens

LEMMA FlatAgree ==
  ASSUME NEW seqs, NEW more, NEW f, NEW g, NEW n \in Nat, NEW k \in Nat,
         Flattens(f, seqs, n), Flattens(g, more, k),
         n <= k, \A i \in 1 .. n : seqs[i] = more[i]
  PROVE  \A i \in 1 .. n : f[i] = g[i]
<1> DEFINE S == {i \in 1 .. n : f[i] # g[i]}
<1>1. SUFFICES ASSUME S # {} PROVE FALSE
  OBVIOUS
<1>2. PICK i \in S : \A m \in S : i <= m
  <2>1. S \in SUBSET Nat
    OBVIOUS
  <2> HIDE DEF S
  <2>2. QED
    BY <1>1, <2>1, LeastOf
<1>3. i \in 1 .. n /\ i \in 1 .. k /\ f[i] # g[i]
  OBVIOUS
<1>4. f[i] = IF i = 1 THEN seqs[i] ELSE f[i - 1] \o seqs[i]
  BY <1>3 DEF Flattens
<1>5. g[i] = IF i = 1 THEN more[i] ELSE g[i - 1] \o more[i]
  BY <1>3 DEF Flattens
<1>6. i # 1 => i - 1 \in 1 .. n /\ ~ (i <= i - 1)
  BY <1>3
<1>7. i # 1 => f[i - 1] = g[i - 1]
  BY <1>2, <1>6
<1>8. QED
  BY <1>3, <1>4, <1>5, <1>7

LEMMA FlattenUnfolds ==
  ASSUME NEW seqs \in Seq(Seq(Nat)), Len(seqs) # 0
  PROVE  \E f : Flattens(f, seqs, Len(seqs)) /\ FlattenSeq(seqs) = f[Len(seqs)]
<1>1. Len(seqs) \in Nat
  OBVIOUS
<1> DEFINE F == CHOOSE f : Flattens(f, seqs, Len(seqs))
<1>2. Flattens(F, seqs, Len(seqs))
  BY <1>1, FlatExists
<1>3. FlattenSeq(seqs) = F[Len(seqs)]
  BY DEF FlattenSeq, Flattens
<1>4. QED
  BY <1>2, <1>3

LEMMA FlattenEmpty == FlattenSeq(<<>>) = <<>>
BY DEF FlattenSeq

LEMMA FlattenType ==
  ASSUME NEW seqs \in Seq(Seq(Nat))
  PROVE  FlattenSeq(seqs) \in Seq(Nat)
<1> DEFINE n == Len(seqs)
<1>1. n \in Nat /\ \A i \in 1 .. n : seqs[i] \in Seq(Nat)
  OBVIOUS
<1>2. CASE n = 0
  <2>1. seqs = <<>>
    BY <1>2
  <2>2. FlattenSeq(seqs) = <<>>
    BY <2>1, FlattenEmpty
  <2>3. QED
    BY <2>2
<1>3. CASE n # 0
  <2>1. PICK f : Flattens(f, seqs, n) /\ FlattenSeq(seqs) = f[n]
    BY <1>3, FlattenUnfolds
  <2> HIDE DEF n
  <2> DEFINE S == {i \in 1 .. n : f[i] \notin Seq(Nat)}
  <2>2. S = {}
    <3> SUFFICES ASSUME S # {} PROVE FALSE
      OBVIOUS
    <3>1. PICK i \in S : \A m \in S : i <= m
      <4>1. S \in SUBSET Nat
        OBVIOUS
      <4> HIDE DEF S
      <4>2. QED
        BY <4>1, LeastOf
    <3>2. i \in 1 .. n /\ f[i] \notin Seq(Nat)
      OBVIOUS
    <3>3. f[i] = IF i = 1 THEN seqs[i] ELSE f[i - 1] \o seqs[i]
      BY <2>1, <3>2 DEF Flattens
    <3>4. i # 1 => i - 1 \in 1 .. n /\ ~ (i <= i - 1)
      BY <1>1, <3>2
    <3>5. i # 1 => f[i - 1] \in Seq(Nat)
      BY <3>1, <3>4
    <3>6. seqs[i] \in Seq(Nat)
      BY <1>1, <3>2
    <3>7. i # 1 => f[i - 1] \o seqs[i] \in Seq(Nat)
      BY <3>5, <3>6
    <3>8. QED
      BY <3>2, <3>3, <3>6, <3>7
  <2>3. n \in 1 .. n
    BY <1>1, <1>3
  <2>4. QED
    BY <2>1, <2>2, <2>3
<1>4. QED
  BY <1>2, <1>3

LEMMA FlattenAppend ==
  ASSUME NEW seqs \in Seq(Seq(Nat)), NEW x \in Seq(Nat)
  PROVE  FlattenSeq(Append(seqs, x)) = FlattenSeq(seqs) \o x
<1> DEFINE more == Append(seqs, x)
<1>1. PICK n, k : n = Len(seqs) /\ k = Len(seqs) + 1
  OBVIOUS
<1>2. /\ n \in Nat /\ k \in Nat /\ n <= k /\ k # 0 /\ k - 1 = n /\ (k = 1 <=> n = 0)
      /\ k \in 1 .. k /\ (n # 0 => n \in 1 .. n)
  BY <1>1
<1>3. /\ more \in Seq(Seq(Nat)) /\ Len(more) = k
      /\ more[k] = x /\ \A i \in 1 .. n : seqs[i] = more[i]
  BY <1>1
<1> HIDE DEF more
<1>4. PICK g : Flattens(g, more, k) /\ FlattenSeq(more) = g[k]
  BY <1>2, <1>3, FlattenUnfolds
<1>5. g[k] = IF k = 1 THEN x ELSE g[k - 1] \o x
  BY <1>2, <1>3, <1>4, FlatAt
<1>6. CASE n = 0
  <2>1. seqs = <<>>
    <3>1. Len(seqs) = 0
      BY <1>1, <1>6
    <3>2. QED
      BY <3>1
  <2>2. FlattenSeq(seqs) = <<>>
    BY <2>1, FlattenEmpty
  <2>3. <<>> \o x = x
    OBVIOUS
  <2>4. QED
    BY <1>2, <1>4, <1>5, <1>6, <2>2, <2>3 DEF more
<1>7. CASE n # 0
  <2>1. PICK f : Flattens(f, seqs, n) /\ FlattenSeq(seqs) = f[n]
    BY <1>1, <1>7, FlattenUnfolds
  <2>2. f[n] = g[n]
    <3>1. \A i \in 1 .. n : f[i] = g[i]
      <4>1. /\ n \in Nat /\ k \in Nat /\ n <= k /\ \A i \in 1 .. n : seqs[i] = more[i]
            /\ Flattens(f, seqs, n) /\ Flattens(g, more, k)
        BY <1>2, <1>3, <1>4, <2>1
      <4>2. QED
        BY <4>1, FlatAgree
    <3>2. QED
      BY <1>2, <1>7, <3>1
  <2>3. QED
    BY <1>2, <1>4, <1>5, <1>7, <2>1, <2>2 DEF more
<1>8. QED
  BY <1>6, <1>7
-----------------------------------------------------------------------------
(***************************************************************************)
(* What frames carry of a stream: the units of its CHUNKs, joined.         *)
(***************************************************************************)
Carries(f, s) == f.kind = "CHUNK" /\ f.stream = s

Payloads(frames, s) ==
  [i \in DOMAIN frames |-> IF Carries(frames[i], s) THEN frames[i].payload ELSE <<>>]

Units(frames, s) == FlattenSeq(Payloads(frames, s))

LEMMA PayloadType ==
  ASSUME NEW f \in Frames, NEW s
  PROVE  (IF Carries(f, s) THEN f.payload ELSE <<>>) \in Seq(Nat)
BY DEF Frames

LEMMA PayloadsType ==
  ASSUME NEW frames \in Seq(Frames), NEW s
  PROVE  Payloads(frames, s) \in Seq(Seq(Nat))
<1>1. DOMAIN frames = 1 .. Len(frames) /\ Len(frames) \in Nat
      /\ \A i \in 1 .. Len(frames) : frames[i] \in Frames
  OBVIOUS
<1> DEFINE p(i) == IF Carries(frames[i], s) THEN frames[i].payload ELSE <<>>
<1>2. ASSUME NEW i \in 1 .. Len(frames) PROVE p(i) \in Seq(Nat)
  BY <1>1, PayloadType
<1>3. Payloads(frames, s) = [i \in 1 .. Len(frames) |-> p(i)]
  BY <1>1 DEF Payloads
<1> HIDE DEF p, Frames
<1>4. QED
  BY <1>1, <1>2, <1>3

LEMMA UnitsEmpty == \A s : Units(<<>>, s) = <<>>
<1> SUFFICES ASSUME NEW s PROVE Units(<<>>, s) = <<>>
  OBVIOUS
<1>1. Payloads(<<>>, s) = <<>>
  BY DEF Payloads
<1>2. QED
  BY <1>1, FlattenEmpty DEF Units

LEMMA UnitsAppend ==
  ASSUME NEW frames \in Seq(Frames), NEW f \in Frames, NEW s
  PROVE  /\ Units(frames, s) \in Seq(Nat)
         /\ Carries(f, s) => Units(Append(frames, f), s) = Units(frames, s) \o f.payload
         /\ ~Carries(f, s) => Units(Append(frames, f), s) = Units(frames, s)
<1> DEFINE x == IF Carries(f, s) THEN f.payload ELSE <<>>
           p == Payloads(frames, s)
<1>1. x \in Seq(Nat) /\ p \in Seq(Seq(Nat))
  BY PayloadType, PayloadsType
<1>2. Payloads(Append(frames, f), s) = Append(p, x)
  <2>1. DOMAIN Append(frames, f) = 1 .. (Len(frames) + 1) /\ Len(frames) \in Nat
        /\ DOMAIN frames = 1 .. Len(frames)
        /\ \A i \in 1 .. Len(frames) : Append(frames, f)[i] = frames[i]
        /\ Append(frames, f)[Len(frames) + 1] = f
    OBVIOUS
  <2>2. Len(p) = Len(frames) /\ DOMAIN p = 1 .. Len(frames)
    BY <1>1, <2>1 DEF Payloads
  <2>3. Append(p, x) = [i \in 1 .. (Len(frames) + 1) |-> IF i = Len(frames) + 1 THEN x ELSE p[i]]
    <3> DEFINE q == Append(p, x)
               n == Len(frames)
    <3>1. /\ q \in Seq(Seq(Nat)) /\ Len(q) = n + 1 /\ q[n + 1] = x
          /\ \A i \in 1 .. n : q[i] = p[i]
      <4> HIDE DEF p, x
      <4>1. QED
        BY <1>1, <2>1, <2>2
    <3> HIDE DEF q, n, p, x
    <3>2. q = [i \in 1 .. (n + 1) |-> q[i]]
      BY <3>1
    <3>3. \A i \in 1 .. (n + 1) : q[i] = IF i = n + 1 THEN x ELSE p[i]
      <4>1. n \in Nat
        BY <2>1 DEF n
      <4>2. \A i \in 1 .. (n + 1) : i = n + 1 \/ i \in 1 .. n
        BY <4>1
      <4>3. QED
        BY <3>1, <4>2
    <3>4. q = [i \in 1 .. (n + 1) |-> IF i = n + 1 THEN x ELSE p[i]]
      BY <3>2, <3>3
    <3>5. QED
      BY <3>4 DEF q, n
  <2>4. ASSUME NEW i \in 1 .. (Len(frames) + 1)
        PROVE  (IF Carries(Append(frames, f)[i], s) THEN Append(frames, f)[i].payload ELSE <<>>)
                 = IF i = Len(frames) + 1 THEN x ELSE p[i]
    <3>1. CASE i = Len(frames) + 1
      BY <2>1, <3>1
    <3>2. CASE i # Len(frames) + 1
      <4>1. i \in 1 .. Len(frames) /\ Append(frames, f)[i] = frames[i]
        BY <2>1, <3>2
      <4>2. p[i] = IF Carries(frames[i], s) THEN frames[i].payload ELSE <<>>
        BY <2>1, <4>1 DEF Payloads
      <4>3. QED
        BY <3>2, <4>1, <4>2
    <3>3. QED
      BY <3>1, <3>2
  <2> HIDE DEF p, x
  <2>5. Payloads(Append(frames, f), s)
          = [i \in 1 .. (Len(frames) + 1) |-> IF i = Len(frames) + 1 THEN x ELSE p[i]]
    BY <2>1, <2>4 DEF Payloads
  <2>6. QED
    BY <2>3, <2>5
<1>3. Units(Append(frames, f), s) = Units(frames, s) \o x /\ Units(frames, s) \in Seq(Nat)
  <2> HIDE DEF x
  <2>1. QED
    BY <1>1, <1>2, FlattenAppend, FlattenType DEF Units
<1>4. Units(frames, s) \o <<>> = Units(frames, s)
  BY <1>3
<1>5. QED
  BY <1>3, <1>4

(* The first n of them.                                                    *)
First(w, n) == SubSeq(w, 1, n)

LEMMA FirstOf ==
  ASSUME NEW S, NEW w \in Seq(S)
  PROVE  /\ First(w, Len(w)) = w
         /\ \A f \in S : \A n \in 0 .. Len(w) : First(Append(w, f), n) = First(w, n)
BY DEF First
-----------------------------------------------------------------------------
(***************************************************************************)
(* The units from a, exclusive, to b; the first ones; and payloads that    *)
(* follow on each other from a to b.                                       *)
(***************************************************************************)
Span(a, b) == [k \in 1 .. (b - a) |-> a + k]

UpTo(n) == [k \in 1 .. n |-> k]

Chain(b, a, z) ==
  \E m \in [1 .. (Len(b) + 1) -> Nat] :
    /\ m[1] = a /\ m[Len(b) + 1] = z /\ a <= z
    /\ \A i \in 1 .. Len(b) :
         m[i] <= m[i + 1] /\ m[i + 1] <= z /\ b[i] = Span(m[i], m[i + 1])

LEMMA SpanFacts ==
  ASSUME NEW a \in Nat, NEW b \in Nat, a <= b
  PROVE  /\ Span(a, b) \in Seq(Nat) /\ Len(Span(a, b)) = b - a
         /\ \A k \in 1 .. (b - a) : Span(a, b)[k] = a + k
<1>1. b - a \in Nat /\ \A k \in 1 .. (b - a) : a + k \in Nat
  OBVIOUS
<1>2. PICK n : n = b - a
  OBVIOUS
<1>3. Span(a, b) = [k \in 1 .. n |-> a + k] /\ n \in Nat
  BY <1>1, <1>2 DEF Span
<1>4. QED
  BY <1>1, <1>2, <1>3

LEMMA UpToType ==
  ASSUME NEW n \in Nat
  PROVE  UpTo(n) \in Seq(Nat) /\ Len(UpTo(n)) = n /\ \A k \in 1 .. n : UpTo(n)[k] = k
BY DEF UpTo

LEMMA UpToSpan ==
  ASSUME NEW a \in Nat, NEW b \in Nat, a <= b
  PROVE  UpTo(a) \o Span(a, b) = UpTo(b)
<1>1. /\ UpTo(a) \in Seq(Nat) /\ Len(UpTo(a)) = a /\ \A k \in 1 .. a : UpTo(a)[k] = k
      /\ UpTo(b) \in Seq(Nat) /\ Len(UpTo(b)) = b /\ \A k \in 1 .. b : UpTo(b)[k] = k
  BY UpToType
<1>2. /\ Span(a, b) \in Seq(Nat) /\ Len(Span(a, b)) = b - a
      /\ \A k \in 1 .. (b - a) : Span(a, b)[k] = a + k
  BY SpanFacts
<1> DEFINE c == UpTo(a) \o Span(a, b)
<1>3. c \in Seq(Nat) /\ Len(c) = b
  BY <1>1, <1>2
<1>4. ASSUME NEW k \in 1 .. b PROVE c[k] = k
  <2>1. CASE k <= a
    <3>1. k \in 1 .. a
      BY <2>1
    <3>2. c[k] = UpTo(a)[k]
      BY <1>1, <1>2, <3>1
    <3>3. QED
      BY <1>1, <3>1, <3>2
  <2>2. CASE k > a
    <3>1. k - a \in 1 .. (b - a) /\ a + (k - a) = k
      BY <2>2
    <3>2. c[k] = Span(a, b)[k - a]
      BY <1>1, <1>2, <2>2, <3>1
    <3>3. QED
      BY <1>2, <3>1, <3>2
  <2> HIDE DEF c
  <2>3. k <= a \/ k > a
    OBVIOUS
  <2>4. QED
    BY <2>1, <2>2, <2>3
<1> HIDE DEF c
<1>5. c = UpTo(b)
  BY <1>1, <1>3, <1>4
<1>6. QED
  BY <1>5 DEF c

LEMMA SpanAppend ==
  ASSUME NEW a \in Nat, NEW b \in Nat, a <= b
  PROVE  Append(Span(a, b), b + 1) = Span(a, b + 1)
<1>1. /\ Span(a, b) \in Seq(Nat) /\ Len(Span(a, b)) = b - a
      /\ \A k \in 1 .. (b - a) : Span(a, b)[k] = a + k
  BY SpanFacts
<1>2. b + 1 \in Nat /\ a <= b + 1
  OBVIOUS
<1>3. /\ Span(a, b + 1) \in Seq(Nat) /\ Len(Span(a, b + 1)) = (b + 1) - a
      /\ \A k \in 1 .. ((b + 1) - a) : Span(a, b + 1)[k] = a + k
  BY <1>2, SpanFacts
<1>4. PICK n \in Nat : n = b - a
  OBVIOUS
<1> DEFINE c == Append(Span(a, b), b + 1)
<1>5. c \in Seq(Nat) /\ Len(c) = n + 1
  BY <1>1, <1>4
<1>6. ASSUME NEW k \in 1 .. (n + 1) PROVE c[k] = a + k
  BY <1>1, <1>4
<1> HIDE DEF c
<1>7. c = Span(a, b + 1)
  <2>1. (b + 1) - a = n + 1
    BY <1>4
  <2>2. QED
    BY <1>3, <1>5, <1>6, <2>1
<1>8. QED
  BY <1>7 DEF c

LEMMA SpanEmpty ==
  ASSUME NEW a \in Nat, NEW b \in Nat, a <= b
  PROVE  Span(a, b) = <<>> <=> a = b
<1>1. Span(a, b) \in Seq(Nat) /\ Len(Span(a, b)) = b - a
  BY SpanFacts
<1>2. b - a = 0 <=> a = b
  OBVIOUS
<1>3. Span(a, b) = <<>> <=> Len(Span(a, b)) = 0
  BY <1>1
<1>4. QED
  BY <1>1, <1>2, <1>3

LEMMA ChainEnds ==
  ASSUME NEW b \in Seq(Seq(Nat)), NEW a, NEW z, Chain(b, a, z)
  PROVE  a \in Nat /\ z \in Nat /\ a <= z
<1>1. PICK m \in [1 .. (Len(b) + 1) -> Nat] : m[1] = a /\ m[Len(b) + 1] = z /\ a <= z
  BY DEF Chain
<1>2. 1 \in 1 .. (Len(b) + 1) /\ Len(b) + 1 \in 1 .. (Len(b) + 1)
  <2>1. Len(b) \in Nat
    OBVIOUS
  <2>2. QED
    BY <2>1
<1>3. QED
  BY <1>1, <1>2

LEMMA ChainEmpty ==
  ASSUME NEW a \in Nat
  PROVE  Chain(<<>>, a, a) /\ \A z : Chain(<<>>, a, z) => z = a
<1>1. Len(<<>>) = 0 /\ 0 + 1 = 1 /\ 1 .. 0 = {}
  OBVIOUS
<1>2. PICK m \in [1 .. 1 -> Nat] : m[1] = a
  <2>1. [i \in 1 .. 1 |-> a] \in [1 .. 1 -> Nat] /\ [i \in 1 .. 1 |-> a][1] = a
    OBVIOUS
  <2>2. QED
    BY <2>1
<1>3. Chain(<<>>, a, a)
  <2>1. m \in [1 .. (Len(<<>>) + 1) -> Nat] /\ m[1] = a /\ m[Len(<<>>) + 1] = a /\ a <= a
    BY <1>1, <1>2
  <2>2. \A i \in 1 .. Len(<<>>) :
          m[i] <= m[i + 1] /\ m[i + 1] <= a /\ <<>>[i] = Span(m[i], m[i + 1])
    BY <1>1
  <2>3. QED
    BY <2>1, <2>2 DEF Chain
<1>4. \A z : Chain(<<>>, a, z) => z = a
  BY <1>1 DEF Chain
<1>5. QED
  BY <1>3, <1>4

LEMMA ChainHead ==
  ASSUME NEW b \in Seq(Seq(Nat)), b # <<>>, NEW a, NEW z, Chain(b, a, z)
  PROVE  \E c \in Nat : a <= c /\ c <= z /\ Head(b) = Span(a, c) /\ Chain(Tail(b), c, z)
<1>1. PICK n \in Nat : n = Len(b)
  OBVIOUS
<1>2. n > 0 /\ Len(Tail(b)) = n - 1 /\ Head(b) = b[1]
      /\ \A i \in 1 .. (n - 1) : Tail(b)[i] = b[i + 1]
  BY <1>1
<1>3. PICK m \in [1 .. (n + 1) -> Nat] :
        /\ m[1] = a /\ m[n + 1] = z /\ a <= z
        /\ \A i \in 1 .. n : m[i] <= m[i + 1] /\ m[i + 1] <= z /\ b[i] = Span(m[i], m[i + 1])
  BY <1>1 DEF Chain
<1> DEFINE o == [i \in 1 .. n |-> m[i + 1]]
<1>4. /\ 1 \in 1 .. n /\ 1 + 1 = 2 /\ 2 \in 1 .. (n + 1) /\ n \in 1 .. n
      /\ \A i \in 1 .. n : i + 1 \in 1 .. (n + 1)
      /\ \A i \in 1 .. (n - 1) : i \in 1 .. n /\ i + 1 \in 1 .. n
  BY <1>2
<1>5. m[2] \in Nat /\ a <= m[2] /\ m[2] <= z /\ Head(b) = Span(a, m[2])
  BY <1>2, <1>3, <1>4
<1>6. o \in [1 .. n -> Nat] /\ o[1] = m[2] /\ o[n] = z
  BY <1>3, <1>4
<1>7. ASSUME NEW i \in 1 .. (n - 1)
      PROVE  o[i] <= o[i + 1] /\ o[i + 1] <= z /\ Tail(b)[i] = Span(o[i], o[i + 1])
  <2>1. i \in 1 .. n /\ i + 1 \in 1 .. n /\ o[i] = m[i + 1] /\ o[i + 1] = m[i + 1 + 1]
        /\ Tail(b)[i] = b[i + 1]
    BY <1>2, <1>4
  <2> HIDE DEF o
  <2>2. QED
    BY <1>3, <2>1
<1>8. n = Len(Tail(b)) + 1 /\ n - 1 = Len(Tail(b))
  BY <1>2
<1> HIDE DEF o
<1>9. Chain(Tail(b), m[2], z)
  <2>1. o \in [1 .. (Len(Tail(b)) + 1) -> Nat] /\ o[1] = m[2] /\ o[Len(Tail(b)) + 1] = z
    BY <1>6, <1>8
  <2>2. \A i \in 1 .. Len(Tail(b)) :
          o[i] <= o[i + 1] /\ o[i + 1] <= z /\ Tail(b)[i] = Span(o[i], o[i + 1])
    BY <1>7, <1>8
  <2>3. QED
    BY <1>5, <2>1, <2>2 DEF Chain
<1>10. QED
  BY <1>5, <1>9

LEMMA ChainAppend ==
  ASSUME NEW b \in Seq(Seq(Nat)), NEW a, NEW z, Chain(b, a, z), NEW y \in Nat, z <= y
  PROVE  Chain(Append(b, Span(z, y)), a, y)
<1>1. PICK n \in Nat : n = Len(b)
  OBVIOUS
<1>2. PICK m \in [1 .. (n + 1) -> Nat] :
        /\ m[1] = a /\ m[n + 1] = z /\ a <= z
        /\ \A i \in 1 .. n : m[i] <= m[i + 1] /\ m[i + 1] <= z /\ b[i] = Span(m[i], m[i + 1])
  BY <1>1 DEF Chain
<1>3. a \in Nat /\ z \in Nat /\ a <= y
  <2>1. a \in Nat /\ z \in Nat /\ a <= z
    BY ChainEnds
  <2>2. QED
    BY <2>1
<1> DEFINE o == [i \in 1 .. (n + 2) |-> IF i = n + 2 THEN y ELSE m[i]]
           c == Append(b, Span(z, y))
<1>4. Len(c) = n + 1 /\ c[n + 1] = Span(z, y) /\ \A i \in 1 .. n : c[i] = b[i]
  BY <1>1
<1>5. o \in [1 .. (n + 2) -> Nat] /\ o[1] = a /\ o[n + 2] = y /\ o[n + 1] = z
      /\ \A i \in 1 .. (n + 1) : o[i] = m[i]
  <2>1. \A i \in 1 .. (n + 2) : i = n + 2 \/ i \in 1 .. (n + 1)
    OBVIOUS
  <2>2. \A i \in 1 .. (n + 1) : i \in 1 .. (n + 2) /\ i # n + 2
    OBVIOUS
  <2>3. 1 \in 1 .. (n + 1) /\ n + 1 \in 1 .. (n + 1) /\ n + 2 \in 1 .. (n + 2)
    OBVIOUS
  <2>4. QED
    BY <1>2, <2>1, <2>2, <2>3
<1> HIDE DEF o, c
<1>6. ASSUME NEW i \in 1 .. (n + 1)
      PROVE  o[i] <= o[i + 1] /\ o[i + 1] <= y /\ c[i] = Span(o[i], o[i + 1])
  <2>1. CASE i = n + 1
    BY <1>3, <1>4, <1>5, <2>1
  <2>2. CASE i # n + 1
    <3>1. i \in 1 .. n /\ i + 1 \in 1 .. (n + 1)
      BY <2>2
    <3>2. o[i] = m[i] /\ o[i + 1] = m[i + 1] /\ c[i] = b[i] /\ m[i + 1] \in Nat
      BY <1>4, <1>5, <3>1
    <3>3. m[i] <= m[i + 1] /\ m[i + 1] <= z /\ b[i] = Span(m[i], m[i + 1])
      BY <1>2, <3>1
    <3>4. QED
      BY <1>3, <3>2, <3>3
  <2>3. QED
    BY <2>1, <2>2
<1>7. n + 2 = Len(c) + 1 /\ n + 1 = Len(c)
  BY <1>4
<1>8. o \in [1 .. (Len(c) + 1) -> Nat] /\ o[1] = a /\ o[Len(c) + 1] = y
  BY <1>5, <1>7
<1>9. \A i \in 1 .. Len(c) : o[i] <= o[i + 1] /\ o[i + 1] <= y /\ c[i] = Span(o[i], o[i + 1])
  BY <1>6, <1>7
<1>10. Chain(c, a, y)
  BY <1>3, <1>8, <1>9 DEF Chain
<1>11. QED
  BY <1>10 DEF c

Part(c, k, h) == SubSeq(c, k, h)

LEMMA SubSpan ==
  ASSUME NEW a \in Nat, NEW z \in Nat, NEW d \in Nat, NEW e \in Nat,
         NEW k \in Nat, NEW h \in Nat, a <= d, d <= e, e <= z, k = (d - a) + 1, h = e - a
  PROVE  Part(Span(a, z), k, h) = Span(d, e)
<1>0. a <= z
  OBVIOUS
<1> PICK l \in Nat : l = d - a
  OBVIOUS
<1>1. /\ Span(a, z) \in Seq(Nat) /\ Len(Span(a, z)) = z - a
      /\ \A i \in 1 .. (z - a) : Span(a, z)[i] = a + i
  BY <1>0, SpanFacts
<1>2. d <= e /\ e - d = h - l /\ h - l \in Nat
  OBVIOUS
<1>3. /\ Span(d, e) \in Seq(Nat) /\ Len(Span(d, e)) = e - d
      /\ \A i \in 1 .. (e - d) : Span(d, e)[i] = d + i
  BY <1>2, SpanFacts
<1> DEFINE c == SubSeq(Span(a, z), k, h)
<1>4. PICK s \in Seq(Nat) : s = Span(a, z)
  BY <1>1
<1>5. SubSeq(s, l + 1, h) \in Seq(Nat) /\ Len(SubSeq(s, l + 1, h)) = h - l
      /\ \A i \in 1 .. (h - l) : SubSeq(s, l + 1, h)[i] = s[l + i]
  BY <1>1, <1>4
<1>6. c \in Seq(Nat) /\ Len(c) = h - l /\ \A i \in 1 .. (h - l) : c[i] = a + (l + i)
  <2>1. \A i \in 1 .. (h - l) : l + i \in 1 .. (z - a)
    OBVIOUS
  <2>2. QED
    BY <1>1, <1>4, <1>5, <2>1
<1>7. \A i \in 1 .. (h - l) : a + (l + i) = d + i
  OBVIOUS
<1> HIDE DEF c
<1>8. c = Span(d, e)
  BY <1>2, <1>3, <1>6, <1>7
<1>9. QED
  BY <1>8 DEF c, Part

(* A batch is split without a gap.                                         *)
LEMMA PiecesChain ==
  ASSUME NEW a \in Nat, NEW z \in Nat, a <= z
  PROVE  Chain(Pieces(Span(a, z)), a, z)
<1> DEFINE content == Span(a, z)
           C == ChunkMax
           b == Pieces(content)
           Hi(i) == IF i * C < Len(content) THEN i * C ELSE Len(content)
<1>1. PICK L \in Nat : L = z - a
  OBVIOUS
<1>2. Len(content) = L /\ C \in Nat /\ C > 0
  <2>1. Len(Span(a, z)) = z - a
    BY SpanFacts
  <2>2. QED
    BY <1>1, <2>1, ResponseAssumption
<1>3. PICK k : k = (L + C - 1) \div C
  OBVIOUS
<1>4. k \in Nat /\ k * C <= L + C - 1 /\ L <= k * C
  BY <1>2, <1>3
<1>5. b = [i \in 1 .. k |-> SubSeq(content, (i - 1) * C + 1, Hi(i))]
  BY <1>2, <1>3 DEF Pieces
<1>6. Len(b) = k
  <2> HIDE DEF b, Hi, content
  <2>1. QED
    BY <1>4, <1>5
<1> DEFINE At(i) == IF (i - 1) * C < L THEN a + (i - 1) * C ELSE z
           m == [i \in 1 .. (k + 1) |-> At(i)]
<1>7. ASSUME NEW i \in 1 .. (k + 1)
      PROVE  (i - 1) * C \in Nat /\ At(i) \in Nat /\ At(i) <= z
  <2>1. i - 1 \in Nat
    BY <1>4
  <2>2. (i - 1) * C \in Nat
    BY <1>2, <2>1
  <2>3. QED
    BY <1>1, <2>2
<1>8. At(1) = a /\ At(k + 1) = z
  <2>1. (1 - 1) * C = 0 /\ (k + 1) - 1 = k
    BY <1>2, <1>4
  <2>2. ~ (k * C < L)
    BY <1>2, <1>4
  <2>3. QED
    BY <1>1, <2>1, <2>2
<1>9. ASSUME NEW i \in 1 .. k
      PROVE  At(i) <= At(i + 1) /\ b[i] = Span(At(i), At(i + 1))
  <2>1. PICK l : l = (i - 1) * C
    OBVIOUS
  <2>2. l \in Nat /\ i * C = l + C /\ (i + 1) - 1 = i /\ l < L
    <3>1. i \in Nat /\ i >= 1 /\ i <= k /\ (i - 1) * C = i * C - C
      BY <1>2, <1>4
    <3>2. i * C \in Nat /\ i * C <= k * C /\ i * C >= C
      BY <1>2, <1>4, <3>1
    <3>3. QED
      BY <1>2, <1>4, <2>1, <3>1, <3>2
  <2>3. PICK h : h = IF l + C < L THEN l + C ELSE L
    OBVIOUS
  <2>4. h \in Nat /\ l <= h /\ h <= z - a
    BY <1>1, <1>2, <2>2, <2>3
  <2>5. At(i) = a + l /\ At(i + 1) = a + h
    BY <1>1, <1>2, <2>1, <2>2, <2>3
  <2>6. b[i] = SubSeq(content, l + 1, h)
    <3>1. Hi(i) = h
      BY <1>2, <2>2, <2>3
    <3> HIDE DEF Hi, b, content
    <3>2. QED
      BY <1>5, <2>1, <3>1
  <2>7. b[i] = Span(a + l, a + h)
    <3>1. PICK x \in Nat, y \in Nat : x = l /\ y = h /\ x <= y /\ y <= z - a
      BY <2>2, <2>4
    <3>2. PICK n \in Nat, d \in Nat, e \in Nat : n = x + 1 /\ d = a + x /\ e = a + y
      OBVIOUS
    <3>3. Part(Span(a, z), n, y) = Span(d, e)
      BY <3>1, <3>2, SubSpan
    <3> HIDE DEF b
    <3>4. QED
      BY <2>6, <3>1, <3>2, <3>3 DEF Part
  <2> HIDE DEF b, At
  <2>8. QED
    BY <2>2, <2>4, <2>5, <2>7
<1>10. /\ m \in [1 .. (k + 1) -> Nat] /\ m[1] = a /\ m[k + 1] = z
       /\ \A i \in 1 .. (k + 1) : m[i] = At(i)
  <2>1. 1 \in 1 .. (k + 1) /\ k + 1 \in 1 .. (k + 1)
    BY <1>4
  <2> HIDE DEF At
  <2>2. QED
    BY <1>7, <1>8, <2>1
<1>11. ASSUME NEW i \in 1 .. k
       PROVE  m[i] <= m[i + 1] /\ m[i + 1] <= z /\ b[i] = Span(m[i], m[i + 1])
  <2>1. i \in 1 .. (k + 1) /\ i + 1 \in 1 .. (k + 1)
    BY <1>4
  <2> HIDE DEF At, b, m
  <2>2. QED
    BY <1>7, <1>9, <1>10, <2>1
<1> HIDE DEF b, m, At
<1>12. Chain(b, a, z)
  BY <1>6, <1>10, <1>11 DEF Chain
<1>13. QED
  BY <1>12 DEF b
-----------------------------------------------------------------------------
(***************************************************************************)
(* What was written of a stream, what its thread has still to write and    *)
(* what its buffer holds are, in this order, what was emitted to it.       *)
(***************************************************************************)
Owes(q, w, b, u, s) ==
  \E d, e \in Nat :
    /\ Units(w, s) = UpTo(d) /\ Chain(q, d, e)
    /\ e <= u /\ b = Span(e, u)

Queue(s) ==
  IF \E t \in Threads : Output[t] = s
  THEN batch[CHOOSE t \in Threads : Output[t] = s] ELSE <<>>

Active(r) == phase[r] \in {"none", "running", "finishing"}

OwedInv ==
  \A s \in Streams : Active(Owner[s]) =>
    Owes(Queue(s), written[Owner[s]], buffer[s], units[s], s)

(* However little of it was written, it is a beginning of what was emitted.*)
BeginInv ==
  \A s \in Streams : \A n \in 0 .. Len(Sent(Owner[s])) :
    \E k \in 0 .. units[s] : Units(First(Sent(Owner[s]), n), s) = UpTo(k)

(* And all of it was written before the END.                               *)
EndInv ==
  \A s \in Streams : \A i \in 1 .. Len(Sent(Owner[s])) :
    written[Owner[s]][i].kind = "END" => Units(Sent(Owner[s]), s) = UpTo(units[s])

CoalesceInv == OwedInv /\ BeginInv /\ EndInv

LEMMA QueueOf ==
  ASSUME OneWriter, NEW t \in Threads
  PROVE  Queue(Output[t]) = batch[t] /\ Queue(Output[t])' = batch'[t]
<1>1. (CHOOSE u \in Threads : Output[u] = Output[t]) = t
  BY DEF OneWriter
<1>2. QED
  BY <1>1 DEF Queue

LEMMA SameQueue ==
  ASSUME NEW s \in Streams, \A t \in Threads : Output[t] = s => batch'[t] = batch[t]
  PROVE  Queue(s)' = Queue(s)
BY DEF Queue

LEMMA QueueType ==
  ASSUME HandlerTypes, NEW s \in Streams
  PROVE  Queue(s) \in Seq(Seq(Nat))
<1>1. <<>> \in Seq(Seq(Nat)) /\ \A t \in Threads : batch[t] \in Seq(Seq(Nat))
  BY DEF HandlerTypes
<1>2. QED
  BY <1>1 DEF Queue

LEMMA OwesBegin ==
  ASSUME NEW q \in Seq(Seq(Nat)), NEW w, NEW b, NEW u \in Nat, NEW s, Owes(q, w, b, u, s)
  PROVE  \E k \in 0 .. u : Units(w, s) = UpTo(k)
<1>1. PICK d \in Nat, e \in Nat : Units(w, s) = UpTo(d) /\ Chain(q, d, e) /\ e <= u
  BY DEF Owes
<1>2. d <= e
  BY <1>1, ChainEnds
<1>3. d \in 0 .. u
  BY <1>1, <1>2
<1>4. QED
  BY <1>1, <1>3

LEMMA OwesNothing ==
  ASSUME NEW w, NEW u \in Nat, NEW s, Owes(<<>>, w, <<>>, u, s)
  PROVE  Units(w, s) = UpTo(u)
<1>1. PICK d \in Nat, e \in Nat :
        Units(w, s) = UpTo(d) /\ Chain(<<>>, d, e) /\ e <= u /\ <<>> = Span(e, u)
  BY DEF Owes
<1>2. e = d /\ e = u
  BY <1>1, ChainEmpty, SpanEmpty
<1>3. QED
  BY <1>1, <1>2

(* Emitting one more unit, as a byte or as another value, and the flush.   *)
LEMMA OwesEmit ==
  ASSUME NEW w, NEW b, NEW u \in Nat, NEW s, Owes(<<>>, w, b, u, s)
  PROVE  /\ Owes(<<>>, w, Append(b, u + 1), u + 1, s)
         /\ Owes(Pieces(Append(b, u + 1)), w, <<>>, u + 1, s)
         /\ Owes(Append(Pieces(b), <<u + 1>>), w, <<>>, u + 1, s)
         /\ Owes(Pieces(b), w, <<>>, u, s)
<1>1. PICK d \in Nat : Units(w, s) = UpTo(d) /\ d <= u /\ b = Span(d, u)
  <2>1. PICK d \in Nat, e \in Nat :
          Units(w, s) = UpTo(d) /\ Chain(<<>>, d, e) /\ e <= u /\ b = Span(e, u)
    BY DEF Owes
  <2>2. e = d
    BY <2>1, ChainEmpty
  <2>3. QED
    BY <2>1, <2>2
<1>2. PICK v \in Nat : v = u + 1
  OBVIOUS
<1>3. d <= v /\ u <= v /\ v <= v /\ u <= u
  BY <1>1, <1>2
<1>4. Append(b, v) = Span(d, v)
  BY <1>1, <1>2, SpanAppend
<1>5. Chain(<<>>, d, d)
  BY ChainEmpty
<1>6. <<>> = Span(v, v) /\ <<>> = Span(u, u)
  BY <1>3, SpanEmpty
<1>7. Chain(Pieces(b), d, u) /\ Chain(Pieces(Append(b, v)), d, v)
  BY <1>1, <1>3, <1>4, PiecesChain
<1>8. <<v>> = Span(u, v)
  <2>1. Append(Span(u, u), v) = Span(u, v)
    BY <1>2, <1>3, SpanAppend
  <2>2. Append(<<>>, v) = <<v>>
    OBVIOUS
  <2>3. QED
    BY <1>6, <2>1, <2>2
<1>9. Chain(Append(Pieces(b), <<v>>), d, v)
  <2>1. b \in Seq(Nat)
    BY <1>1, SpanFacts
  <2>2. Pieces(b) \in Seq(Seq(Nat))
    BY <2>1, PiecesType
  <2>3. Chain(Append(Pieces(b), Span(u, v)), d, v)
    BY <1>3, <1>7, <2>2, ChainAppend
  <2>4. QED
    BY <1>8, <2>3
<1>10. Owes(<<>>, w, Append(b, v), v, s)
  BY <1>1, <1>3, <1>4, <1>5 DEF Owes
<1>11. Owes(Pieces(Append(b, v)), w, <<>>, v, s)
  BY <1>1, <1>3, <1>6, <1>7 DEF Owes
<1>12. Owes(Append(Pieces(b), <<v>>), w, <<>>, v, s)
  BY <1>1, <1>3, <1>6, <1>9 DEF Owes
<1>13. Owes(Pieces(b), w, <<>>, u, s)
  BY <1>1, <1>3, <1>6, <1>7 DEF Owes
<1>14. QED
  BY <1>2, <1>10, <1>11, <1>12, <1>13

(* Writing the CHUNK that is next, and any frame that carries nothing of   *)
(* the stream.                                                             *)
LEMMA OwesChunk ==
  ASSUME NEW q \in Seq(Seq(Nat)), q # <<>>, NEW w \in Seq(Frames), NEW b, NEW u \in Nat, NEW s,
         Owes(q, w, b, u, s), NEW f \in Frames, Carries(f, s), f.payload = Head(q)
  PROVE  Owes(Tail(q), Append(w, f), b, u, s)
<1>1. PICK d \in Nat, e \in Nat :
        Units(w, s) = UpTo(d) /\ Chain(q, d, e) /\ e <= u /\ b = Span(e, u)
  BY DEF Owes
<1>2. PICK c \in Nat : d <= c /\ c <= e /\ Head(q) = Span(d, c) /\ Chain(Tail(q), c, e)
  BY <1>1, ChainHead
<1>3. Units(Append(w, f), s) = UpTo(d) \o Span(d, c)
  <2>1. Units(Append(w, f), s) = Units(w, s) \o f.payload
    BY UnitsAppend
  <2>2. QED
    BY <1>1, <1>2, <2>1
<1>4. Units(Append(w, f), s) = UpTo(c)
  BY <1>2, <1>3, UpToSpan
<1>5. QED
  BY <1>1, <1>2, <1>4 DEF Owes

LEMMA OwesOther ==
  ASSUME NEW q, NEW w \in Seq(Frames), NEW b, NEW u, NEW s,
         Owes(q, w, b, u, s), NEW f \in Frames, ~Carries(f, s)
  PROVE  Owes(q, Append(w, f), b, u, s)
<1>1. Units(Append(w, f), s) = Units(w, s)
  BY UnitsAppend
<1>2. QED
  BY <1>1 DEF Owes
-----------------------------------------------------------------------------
(***************************************************************************)
(* The steps.  Those that write nothing may emit.                          *)
(***************************************************************************)
LEMMA EmittedOnly ==
  ASSUME DataInv, PhaseInv, BeginInv, EndInv,
         written' = written, units \in [Streams -> Nat], units' \in [Streams -> Nat],
         \A s \in Streams : /\ units[s] <= units'[s]
                            /\ units'[s] # units[s] => phase[Owner[s]] # "over"
  PROVE  BeginInv' /\ EndInv'
<1>1. \A r : Sent(r)' = Sent(r)
  BY DEF Sent
<1>2. BeginInv'
  <2> SUFFICES ASSUME NEW s \in Streams, NEW n \in 0 .. Len(Sent(Owner[s]))
               PROVE  \E k \in 0 .. units'[s] : Units(First(Sent(Owner[s]), n), s) = UpTo(k)
    BY <1>1 DEF BeginInv
  <2>1. PICK k \in 0 .. units[s] : Units(First(Sent(Owner[s]), n), s) = UpTo(k)
    BY DEF BeginInv
  <2>2. k \in 0 .. units'[s]
    <3>1. units[s] \in Nat /\ units'[s] \in Nat /\ units[s] <= units'[s]
      OBVIOUS
    <3>2. QED
      BY <3>1
  <2>3. QED
    BY <2>1, <2>2
<1>3. EndInv'
  <2> SUFFICES ASSUME NEW s \in Streams, NEW i \in 1 .. Len(Sent(Owner[s])),
                      written[Owner[s]][i].kind = "END"
               PROVE  Units(Sent(Owner[s]), s) = UpTo(units'[s])
    BY <1>1 DEF EndInv
  <2>1. Owner[s] \in Requests
    BY ResponseAssumption
  <2>2. Len(Sent(Owner[s])) \in Nat /\ Len(Sent(Owner[s])) <= Len(written[Owner[s]])
        /\ Len(written[Owner[s]]) \in Nat
    BY <2>1, SentFacts
  <2>3. HasTerminal(written[Owner[s]])
    <3>1. i \in 1 .. Len(written[Owner[s]])
      BY <2>2
    <3>2. QED
      BY <3>1 DEF HasTerminal, IsTerminal
  <2>4. units'[s] = units[s]
    BY <2>1, <2>3 DEF PhaseInv
  <2>5. QED
    BY <2>4 DEF EndInv
<1>4. QED
  BY <1>2, <1>3

(* One more frame of a request: a CHUNK that comes next, or an END when    *)
(* everything was written, or another.                                     *)
LEMMA FrameWritten ==
  ASSUME DataInv, BeginInv, EndInv, NEW r \in Requests, NEW f \in Frames,
         written' = [written EXCEPT ![r] = Append(written[r], f)], units' = units,
         f.kind = "CHUNK" => \A s \in StreamsOf(r) :
           \E k \in 0 .. units[s] : Units(Append(written[r], f), s) = UpTo(k),
         f.kind = "END" => \A s \in StreamsOf(r) : Units(written[r], s) = UpTo(units[s])
  PROVE  BeginInv' /\ EndInv'
<1> DEFINE w == written[r]
<1>1. written \in [Requests -> Seq(Frames)] /\ w \in Seq(Frames) /\ Len(w) \in Nat
  BY SentFacts DEF DataInv
<1> HIDE DEF Frames
<1>2. written'[r] = Append(w, f) /\ \A q \in Requests \ {r} : written'[q] = written[q]
  BY <1>1
<1>3. /\ \A q \in Requests \ {r} : Sent(q)' = Sent(q)
      /\ Sent(r)' = IF HasTerminal(w) THEN Sent(r) ELSE Append(w, f)
      /\ ~HasTerminal(w) => Sent(r) = w
  BY <1>1, <1>2, UpToAppend, NoTerminal DEF Sent
<1>4. \A s \in Streams : Owner[s] \in Requests /\ (Owner[s] = r <=> s \in StreamsOf(r))
  BY ResponseAssumption DEF StreamsOf
<1>5. \A s : f.kind \notin {"CHUNK"} => Units(Append(w, f), s) = Units(w, s)
  BY <1>1, UnitsAppend DEF Carries
<1>6. BeginInv'
  <2> SUFFICES ASSUME NEW s \in Streams, NEW n \in 0 .. Len(Sent(Owner[s])')
               PROVE  \E k \in 0 .. units[s] : Units(First(Sent(Owner[s])', n), s) = UpTo(k)
    BY <1>3 DEF BeginInv
  <2>1. CASE Owner[s] # r \/ HasTerminal(w)
    BY <1>3, <1>4, <2>1 DEF BeginInv
  <2>2. CASE Owner[s] = r /\ ~HasTerminal(w)
    <3>1. Sent(Owner[s])' = Append(w, f) /\ Sent(Owner[s]) = w
      BY <1>3, <2>2
    <3>2. PICK v \in Seq(Frames) : v = Append(w, f) /\ Len(v) = Len(w) + 1
      BY <1>1
    <3>3. CASE n \in 0 .. Len(w)
      <4>1. First(v, n) = First(w, n)
        BY <1>1, <3>2, <3>3, FirstOf
      <4>2. QED
        BY <3>1, <3>2, <3>3, <4>1 DEF BeginInv
    <3>4. CASE n = Len(v)
      <4>1. First(v, n) = v
        BY <3>2, <3>4, FirstOf
      <4>2. CASE f.kind = "CHUNK"
        BY <1>4, <2>2, <3>1, <3>2, <4>1, <4>2
      <4>3. CASE f.kind # "CHUNK"
        <5>1. Units(v, s) = Units(w, s)
          BY <1>5, <3>2, <4>3
        <5>2. First(w, Len(w)) = w /\ Len(w) \in 0 .. Len(w)
          BY <1>1, FirstOf
        <5>3. PICK k \in 0 .. units[s] : Units(First(w, Len(w)), s) = UpTo(k)
          BY <3>1, <5>2 DEF BeginInv
        <5>4. QED
          BY <3>1, <3>2, <4>1, <5>1, <5>2, <5>3
      <4>4. QED
        BY <4>2, <4>3
    <3>5. QED
      BY <1>1, <3>1, <3>2, <3>3, <3>4
  <2>3. QED
    BY <2>1, <2>2
<1>7. EndInv'
  <2> SUFFICES ASSUME NEW s \in Streams, NEW i \in 1 .. Len(Sent(Owner[s])'),
                      written'[Owner[s]][i].kind = "END"
               PROVE  Units(Sent(Owner[s])', s) = UpTo(units[s])
    BY DEF EndInv
  <2>1. CASE Owner[s] # r
    BY <1>2, <1>3, <1>4, <2>1 DEF EndInv
  <2>2. CASE Owner[s] = r /\ HasTerminal(w)
    <3>1. Sent(r)' = Sent(r) /\ i \in 1 .. Len(Sent(r)) /\ Len(Sent(r)) <= Len(w)
          /\ Len(Sent(r)) \in Nat
      BY <1>3, <2>2, SentFacts
    <3>2. written'[r][i] = w[i]
      <4>1. i \in 1 .. Len(w)
        BY <1>1, <3>1
      <4>2. QED
        BY <1>1, <1>2, <4>1
    <3>3. QED
      BY <2>2, <3>1, <3>2 DEF EndInv
  <2>3. CASE Owner[s] = r /\ ~HasTerminal(w)
    <3>1. Sent(r)' = Append(w, f) /\ i \in 1 .. (Len(w) + 1) /\ written'[r] = Append(w, f)
      BY <1>1, <1>2, <1>3, <2>3
    <3>2. i \notin 1 .. Len(w)
      <4>1. i \in 1 .. Len(w) => w[i] = Append(w, f)[i]
        BY <1>1
      <4>2. QED
        BY <2>3, <3>1, <4>1 DEF HasTerminal, IsTerminal
    <3>3. i = Len(w) + 1 /\ Append(w, f)[Len(w) + 1] = f
      BY <1>1, <3>1, <3>2
    <3>4. f.kind = "END"
      BY <2>3, <3>1, <3>3
    <3>5. Units(Append(w, f), s) = Units(w, s) /\ Units(w, s) = UpTo(units[s])
      BY <1>4, <1>5, <2>3, <3>4
    <3>6. QED
      BY <2>3, <3>1, <3>5
  <2>4. QED
    BY <2>1, <2>2, <2>3
<1>8. QED
  BY <1>6, <1>7

(* Nothing is written, and nothing is emitted.                             *)
LEMMA OwedStill ==
  ASSUME DataInv, PhaseInv, CoalesceInv, UNCHANGED <<written, units, buffer>>,
         units \in [Streams -> Nat],
         \A s \in Streams : Active(Owner[s])' =>
           Active(Owner[s]) /\ \A t \in Threads : Output[t] = s => batch'[t] = batch[t]
  PROVE  CoalesceInv'
<1>1. BeginInv' /\ EndInv'
  <2>1. \A s \in Streams : units[s] <= units[s]
    OBVIOUS
  <2>2. QED
    BY <2>1, EmittedOnly DEF CoalesceInv
<1>2. OwedInv'
  BY SameQueue DEF CoalesceInv, OwedInv
<1>3. QED
  BY <1>1, <1>2 DEF CoalesceInv

LEMMA CoalesceSilent ==
  ASSUME HandlerTypes, DataInv, PhaseInv, CoalesceInv,
         \/ \E r \in Requests : Accept(r) \/ Return(r) \/ Cancel(r)
         \/ \E t \in Threads : TakeIndex(t)
         \/ UNCHANGED <<handlerVars, streamVars, written>>
  PROVE  CoalesceInv'
<1>1. /\ UNCHANGED <<written, units, buffer, batch>>
      /\ \/ UNCHANGED phase
         \/ \E r \in Requests : \/ phase[r] = "none" /\ phase' = [phase EXCEPT ![r] = "running"]
                                \/ phase[r] = "running" /\ phase' = [phase EXCEPT ![r] = "finishing"]
  BY DEF Accept, Return, Cancel, TakeIndex, handlerVars, streamVars, writerVars
<1>2. \A q \in Requests : Active(q)' => Active(q)
  BY <1>1 DEF HandlerTypes, Active
<1>3. \A s \in Streams : Owner[s] \in Requests
  BY ResponseAssumption
<1>4. units \in [Streams -> Nat]
  BY DEF HandlerTypes
<1>5. QED
  BY <1>1, <1>2, <1>3, <1>4, OwedStill

LEMMA CoalesceFail ==
  ASSUME HandlerTypes, DataInv, PhaseInv, CoalesceInv, NEW r \in Requests, Fail(r)
  PROVE  CoalesceInv'
<1>1. /\ UNCHANGED <<written, units, buffer>> /\ phase' = [phase EXCEPT ![r] = "failed"]
      /\ \A t \in Threads : t \notin ThreadsOf(r) => batch'[t] = batch[t]
  BY DEF Fail, writerVars
<1>2. \A q \in Requests : Active(q)' => q # r /\ Active(q)
  BY <1>1 DEF HandlerTypes, Active
<1>3. \A s \in Streams : Owner[s] \in Requests
  BY ResponseAssumption
<1>4. \A s \in Streams : Owner[s] # r => \A t \in Threads : Output[t] = s => batch'[t] = batch[t]
  BY <1>1 DEF ThreadsOf
<1>5. units \in [Streams -> Nat]
  BY DEF HandlerTypes
<1>6. QED
  BY <1>1, <1>2, <1>3, <1>4, <1>5, OwedStill

LEMMA CoalesceEmit ==
  ASSUME HandlerTypes, DataInv, PhaseInv, CoalesceInv, OneWriter,
         \/ \E t \in Threads : EmitBytes(t) \/ EmitValue(t)
         \/ \E s \in Streams : FlushLast(s)
  PROVE  CoalesceInv'
<1>1. PICK t \in Threads :
        /\ batch[t] = <<>> /\ phase[Owner[Output[t]]] \in {"running", "finishing"}
        /\ UNCHANGED <<phase, written>>
        /\ \/ units' = [units EXCEPT ![Output[t]] = units[Output[t]] + 1]
           \/ units' = units
        /\ \A u \in Threads \ {t} : batch'[u] = batch[u]
        /\ \A s \in Streams \ {Output[t]} : buffer'[s] = buffer[s]
        /\ LET b == buffer[Output[t]]
               u == units[Output[t]]
               c == batch'[t]
               k == buffer'[Output[t]]
               n == units'[Output[t]]
           IN  \/ c = <<>> /\ k = Append(b, u + 1) /\ n = u + 1
               \/ c = Pieces(Append(b, u + 1)) /\ k = <<>> /\ n = u + 1
               \/ c = Append(Pieces(b), <<u + 1>>) /\ k = <<>> /\ n = u + 1
               \/ c = Pieces(b) /\ k = <<>> /\ n = u
  <2>1. ASSUME NEW t \in Threads, EmitBytes(t) \/ EmitValue(t)
        PROVE  /\ batch[t] = <<>> /\ phase[Owner[Output[t]]] = "running"
               /\ UNCHANGED <<phase, written>>
               /\ units' = [units EXCEPT ![Output[t]] = units[Output[t]] + 1]
               /\ units'[Output[t]] = units[Output[t]] + 1
    BY <2>1, ResponseAssumption
    DEF EmitBytes, EmitValue, Emits, MayEmit, handlerVars, writerVars, HandlerTypes
  <2>2. ASSUME NEW t \in Threads, EmitBytes(t) \/ EmitValue(t)
        PROVE  /\ \A u \in Threads \ {t} : batch'[u] = batch[u]
               /\ \A s \in Streams \ {Output[t]} : buffer'[s] = buffer[s]
               /\ LET b == buffer[Output[t]]
                      u == units[Output[t]]
                      c == batch'[t]
                      k == buffer'[Output[t]]
                  IN  \/ c = <<>> /\ k = Append(b, u + 1)
                      \/ c = Pieces(Append(b, u + 1)) /\ k = <<>>
                      \/ c = Append(Pieces(b), <<u + 1>>) /\ k = <<>>
    <3>1. /\ batch = [x \in Threads |-> batch[x]] /\ buffer = [x \in Streams |-> buffer[x]]
          /\ Output[t] \in Streams
      BY ResponseAssumption DEF HandlerTypes
    <3>2. CASE EmitBytes(t)
      <4> DEFINE full == Append(buffer[Output[t]], units[Output[t]] + 1)
      <4>1. \/ buffer' = [buffer EXCEPT ![Output[t]] = full] /\ batch' = batch
            \/ /\ buffer' = [buffer EXCEPT ![Output[t]] = <<>>]
               /\ batch' = [batch EXCEPT ![t] = Pieces(full)]
        BY <3>2 DEF EmitBytes
      <4> HIDE DEF full
      <4>2. \/ batch'[t] = <<>> /\ buffer'[Output[t]] = full
            \/ batch'[t] = Pieces(full) /\ buffer'[Output[t]] = <<>>
        BY <2>1, <2>2, <3>1, <4>1
      <4>3. QED
        BY <3>1, <4>1, <4>2 DEF full
    <3>3. CASE EmitValue(t)
      <4>1. /\ buffer' = [buffer EXCEPT ![Output[t]] = <<>>]
            /\ batch' = [batch EXCEPT ![t] =
                           Append(Pieces(buffer[Output[t]]), <<units[Output[t]] + 1>>)]
        BY <3>3 DEF EmitValue
      <4>2. QED
        BY <3>1, <4>1
    <3>4. QED
      BY <2>2, <3>2, <3>3
  <2>3. ASSUME NEW s \in Streams, FlushLast(s)
        PROVE  \E t \in Threads :
                 /\ Output[t] = s /\ batch[t] = <<>> /\ phase[Owner[s]] = "finishing"
                 /\ UNCHANGED <<phase, written, units>>
                 /\ batch' = [batch EXCEPT ![t] = Pieces(buffer[s])]
                 /\ buffer' = [buffer EXCEPT ![s] = <<>>]
    BY <2>3 DEF FlushLast, handlerVars, writerVars
  <2>4. CASE \E t \in Threads : EmitBytes(t) \/ EmitValue(t)
    <3>1. PICK t \in Threads : EmitBytes(t) \/ EmitValue(t)
      BY <2>4
    <3>2. QED
      BY <2>1, <2>2, <3>1
  <2>5. CASE \E s \in Streams : FlushLast(s)
    <3>1. PICK s \in Streams : FlushLast(s)
      BY <2>5
    <3>2. PICK t \in Threads :
            /\ Output[t] = s /\ batch[t] = <<>> /\ phase[Owner[s]] = "finishing"
            /\ UNCHANGED <<phase, written, units>>
            /\ batch' = [batch EXCEPT ![t] = Pieces(buffer[s])]
            /\ buffer' = [buffer EXCEPT ![s] = <<>>]
      BY <2>3, <3>1
    <3>3. /\ batch = [x \in Threads |-> batch[x]] /\ buffer = [x \in Streams |-> buffer[x]]
      BY DEF HandlerTypes
    <3>4. /\ batch'[t] = Pieces(buffer[s]) /\ buffer'[s] = <<>>
          /\ \A u \in Threads \ {t} : batch'[u] = batch[u]
          /\ \A u \in Streams \ {s} : buffer'[u] = buffer[u]
      BY <3>2, <3>3
    <3>5. QED
      BY <3>2, <3>4
  <2>6. QED
    BY <2>4, <2>5
<1> DEFINE s == Output[t]
<1>2. s \in Streams /\ units \in [Streams -> Nat] /\ units[s] \in Nat
      /\ \A u \in Streams : units[u] \in Nat
  BY ResponseAssumption DEF HandlerTypes
<1>3. /\ units' \in [Streams -> Nat] /\ \A u \in Streams \ {s} : units'[u] = units[u]
      /\ units[s] <= units'[s]
  <2>1. CASE units' = units
    BY <1>2, <2>1
  <2>2. CASE units' = [units EXCEPT ![s] = units[s] + 1]
    <3>1. units[s] + 1 \in Nat /\ units[s] <= units[s] + 1
      BY <1>2
    <3>2. QED
      BY <1>2, <2>2, <3>1
  <2>3. QED
    BY <1>1, <2>1, <2>2
<1>4. BeginInv' /\ EndInv'
  <2>1. \A u \in Streams : units[u] <= units'[u]
    BY <1>2, <1>3
  <2>2. \A u \in Streams : units'[u] # units[u] => phase[Owner[u]] # "over"
    BY <1>1, <1>3
  <2>3. QED
    BY <1>1, <1>2, <1>3, <2>1, <2>2, EmittedOnly DEF CoalesceInv
<1>5. Queue(s) = <<>> /\ Queue(s)' = batch'[t]
  BY <1>1, QueueOf
<1>6. Active(Owner[s])
  BY <1>1 DEF Active
<1>7. Owes(<<>>, written[Owner[s]], buffer[s], units[s], s)
  BY <1>2, <1>5, <1>6 DEF CoalesceInv, OwedInv
<1>8. Owes(batch'[t], written[Owner[s]], buffer'[s], units'[s], s)
  <2> HIDE DEF s
  <2>0. PICK u \in Nat : u = units[s]
    BY <1>2
  <2>1. PICK b, w : u = units[s] /\ b = buffer[s] /\ w = written[Owner[s]]
    BY <2>0
  <2>2. /\ Owes(<<>>, w, Append(b, u + 1), u + 1, s)
        /\ Owes(Pieces(Append(b, u + 1)), w, <<>>, u + 1, s)
        /\ Owes(Append(Pieces(b), <<u + 1>>), w, <<>>, u + 1, s)
        /\ Owes(Pieces(b), w, <<>>, u, s)
    BY <1>7, <2>1, OwesEmit
  <2>3. LET c == batch'[t]
            k == buffer'[s]
            n == units'[s]
        IN  \/ c = <<>> /\ k = Append(b, u + 1) /\ n = u + 1
            \/ c = Pieces(Append(b, u + 1)) /\ k = <<>> /\ n = u + 1
            \/ c = Append(Pieces(b), <<u + 1>>) /\ k = <<>> /\ n = u + 1
            \/ c = Pieces(b) /\ k = <<>> /\ n = u
    BY <1>1, <2>1 DEF s
  <2>4. QED
    BY <2>1, <2>2, <2>3
<1>9. OwedInv'
  <2> SUFFICES ASSUME NEW v \in Streams, Active(Owner[v])'
               PROVE  Owes(Queue(v)', written[Owner[v]], buffer'[v], units'[v], v)
    BY <1>1 DEF OwedInv
  <2>1. CASE v = s
    BY <1>5, <1>8, <2>1
  <2>2. CASE v # s
    <3>1. Queue(v)' = Queue(v)
      BY <1>1, <2>2, SameQueue
    <3>2. Active(Owner[v]) /\ buffer'[v] = buffer[v] /\ units'[v] = units[v]
      BY <1>1, <1>3, <2>2 DEF Active
    <3>3. QED
      BY <3>1, <3>2 DEF CoalesceInv, OwedInv
  <2>3. QED
    BY <2>1, <2>2
<1>10. QED
  BY <1>4, <1>9 DEF CoalesceInv

(* The frames that carry nothing.                                          *)
LEMMA CoalesceOther ==
  ASSUME HandlerTypes, RestInv, PhaseInv, CoalesceInv,
         NEW r \in Requests, NEW frame \in Unnumbered, frame.kind # "CHUNK",
         WriteFrame(r, frame), UNCHANGED <<units, buffer, batch>>,
         \A q \in Requests : Active(q)' => Active(q),
         frame.kind = "END" =>
           \A s \in StreamsOf(r) : Owes(<<>>, written[r], <<>>, units[s], s)
  PROVE  CoalesceInv'
<1>1. \A s \in Streams : Owner[s] \in Requests /\ Queue(s)' = Queue(s)
  BY SameQueue, ResponseAssumption
<1>2. DataInv /\ units \in [Streams -> Nat]
  BY DEF RestInv, HandlerTypes
<1>3. CASE UNCHANGED writerVars
  <2>1. written' = written
    BY <1>3 DEF writerVars
  <2>2. \A s \in Streams : Active(Owner[s])' =>
          Active(Owner[s]) /\ \A t \in Threads : Output[t] = s => batch'[t] = batch[t]
    BY <1>1
  <2>3. QED
    BY <1>2, <2>1, <2>2, OwedStill
<1>4. CASE ~UNCHANGED writerVars
  <2>1. PICK f \in Frames :
          f.kind = frame.kind /\ written' = [written EXCEPT ![r] = Append(written[r], f)]
    BY <1>4, Written
  <2>2. written \in [Requests -> Seq(Frames)] /\ written[r] \in Seq(Frames)
    BY <1>2 DEF DataInv
  <2> HIDE DEF Frames
  <2>3. written'[r] = Append(written[r], f) /\ \A q \in Requests \ {r} : written'[q] = written[q]
    BY <2>1, <2>2
  <2>4. BeginInv' /\ EndInv'
    <3>1. f.kind = "END" => \A s \in StreamsOf(r) : Units(written[r], s) = UpTo(units[s])
      BY <1>2, <2>1, OwesNothing DEF StreamsOf
    <3>2. QED
      BY <1>2, <2>1, <3>1, FrameWritten DEF CoalesceInv
  <2>5. OwedInv'
    <3> SUFFICES ASSUME NEW s \in Streams, Active(Owner[s])'
                 PROVE  Owes(Queue(s), written'[Owner[s]], buffer[s], units[s], s)
      BY <1>1 DEF OwedInv
    <3>1. Owes(Queue(s), written[Owner[s]], buffer[s], units[s], s)
      BY <1>1 DEF CoalesceInv, OwedInv
    <3>2. ~Carries(f, s)
      BY <2>1 DEF Carries
    <3>3. CASE Owner[s] = r
      BY <2>2, <2>3, <3>1, <3>2, <3>3, OwesOther
    <3>4. CASE Owner[s] # r
      BY <1>1, <2>3, <3>1, <3>4
    <3>5. QED
      BY <3>3, <3>4
  <2>6. QED
    BY <2>4, <2>5 DEF CoalesceInv
<1>5. QED
  BY <1>3, <1>4

LEMMA CoalesceChunk ==
  ASSUME HandlerTypes, ThreadInv, RestInv, PhaseInv, CoalesceInv, OneWriter,
         NEW t \in Threads, WriteChunk(t)
  PROVE  CoalesceInv'
<1> DEFINE s == Output[t]
           r == Owner[s]
<1>1. /\ s \in Streams /\ r \in Requests /\ taken[t] # NotTaken /\ batch[t] # <<>>
      /\ batch' = [batch EXCEPT ![t] = Tail(batch[t])]
      /\ UNCHANGED <<phase, units, buffer>>
      /\ WriteFrame(r, Frame("CHUNK", s, taken[t], Head(batch[t])))
  BY ResponseAssumption DEF WriteChunk, handlerVars, ThreadInv
<1>2. phase[r] \in {"running", "finishing"} /\ taken[t] \in Int
  BY <1>1 DEF PhaseInv, HandlerTypes
<1>3. ~HasTerminal(written[r]) /\ r \notin Range(terminated)
  BY <1>1, <1>2, StillOpen
<1>4. batch[t] \in Seq(Seq(Nat)) /\ Head(batch[t]) \in Seq(Nat)
  <2>1. batch[t] \in Seq(Seq(Nat))
    BY DEF HandlerTypes
  <2>2. QED
    BY <1>1, <2>1
<1>5. Frame("CHUNK", s, taken[t], Head(batch[t])) \in Unnumbered
  BY <1>1, <1>2, <1>4, FrameType DEF Kinds
<1>6. PICK f \in Frames :
        /\ f.kind = "CHUNK" /\ f.stream = s /\ f.payload = Head(batch[t])
        /\ written' = [written EXCEPT ![r] = Append(written[r], f)]
  BY <1>1, <1>3, <1>5, Appended DEF Frame
<1>7. DataInv /\ units \in [Streams -> Nat] /\ \A u \in Streams : units[u] \in Nat
  BY DEF RestInv, HandlerTypes
<1> HIDE DEF Frames
<1>8. /\ written \in [Requests -> Seq(Frames)] /\ written[r] \in Seq(Frames)
      /\ written'[r] = Append(written[r], f)
      /\ \A q \in Requests \ {r} : written'[q] = written[q]
  BY <1>1, <1>6, <1>7 DEF DataInv
<1>9. Queue(s) = batch[t] /\ Queue(s)' = Tail(batch[t])
  BY <1>1, QueueOf DEF HandlerTypes
<1>10. \A v \in Streams \ {s} : Queue(v)' = Queue(v)
  <2>1. \A u \in Threads \ {t} : batch'[u] = batch[u]
    BY <1>1 DEF HandlerTypes
  <2>2. QED
    BY <2>1, SameQueue
<1>11. \A q : Active(q)' <=> Active(q)
  BY <1>1 DEF Active
<1>12. OwedInv'
  <2> SUFFICES ASSUME NEW v \in Streams, Active(Owner[v])
               PROVE  Owes(Queue(v)', written'[Owner[v]], buffer[v], units[v], v)
    BY <1>1, <1>11 DEF OwedInv
  <2>1. Owes(Queue(v), written[Owner[v]], buffer[v], units[v], v)
    BY DEF CoalesceInv, OwedInv
  <2>2. CASE v = s
    <3>1. Carries(f, s)
      BY <1>6 DEF Carries
    <3>2. Owes(batch[t], written[r], buffer[s], units[s], s)
      BY <1>9, <2>1, <2>2
    <3> HIDE DEF r, s
    <3>3. Owes(Tail(batch[t]), Append(written[r], f), buffer[s], units[s], s)
      BY <1>1, <1>4, <1>6, <1>7, <1>8, <3>1, <3>2, OwesChunk
    <3>4. QED
      BY <1>8, <1>9, <2>2, <3>3 DEF r
  <2>3. CASE v # s
    <3>1. Queue(v)' = Queue(v) /\ ~Carries(f, v)
      BY <1>6, <1>10, <2>3 DEF Carries
    <3>2. CASE Owner[v] = r
      <4>1. Owes(Queue(v), written[r], buffer[v], units[v], v) /\ written'[Owner[v]] = Append(written[r], f)
        BY <1>8, <2>1, <3>2
      <4> HIDE DEF r
      <4>2. Owes(Queue(v), Append(written[r], f), buffer[v], units[v], v)
        BY <1>8, <3>1, <4>1, OwesOther
      <4>3. QED
        BY <3>1, <4>1, <4>2
    <3>3. CASE Owner[v] # r
      <4>1. Owner[v] \in Requests \ {r}
        BY <3>3, ResponseAssumption
      <4>2. QED
        BY <1>8, <2>1, <3>1, <4>1
    <3>4. QED
      BY <3>2, <3>3
  <2>4. QED
    BY <2>2, <2>3
<1>13. BeginInv' /\ EndInv'
  <2>1. ASSUME NEW v \in StreamsOf(r)
        PROVE  \E k \in 0 .. units[v] : Units(Append(written[r], f), v) = UpTo(k)
    <3>1. v \in Streams /\ Owner[v] = r /\ Active(r)'
      BY <1>1, <1>2 DEF StreamsOf, Active
    <3>2. Owes(Queue(v)', Append(written[r], f), buffer'[v], units'[v], v)
      BY <1>8, <1>12, <3>1 DEF OwedInv
    <3>3. Queue(v)' \in Seq(Seq(Nat))
      <4>1. Queue(v) \in Seq(Seq(Nat)) /\ Tail(batch[t]) \in Seq(Seq(Nat))
        BY <1>1, <1>4, <3>1, QueueType
      <4>2. QED
        BY <1>9, <1>10, <3>1, <4>1
    <3>4. units'[v] = units[v] /\ units[v] \in Nat
      BY <1>1, <1>7, <3>1
    <3> HIDE DEF r
    <3>5. QED
      BY <3>2, <3>3, <3>4, OwesBegin
  <2>2. f.kind # "END" /\ units' = units
    BY <1>1, <1>6
  <2>3. BeginInv /\ EndInv
    BY DEF CoalesceInv
  <2> HIDE DEF r, s
  <2>4. QED
    BY <1>1, <1>6, <1>7, <2>1, <2>2, <2>3, FrameWritten
<1>14. QED
  BY <1>12, <1>13 DEF CoalesceInv

LEMMA CoalesceStream ==
  ASSUME HandlerTypes, RestInv, PhaseInv, CoalesceInv, NEW s \in Streams,
         StartStream(s) \/ CloseStream(s)
  PROVE  CoalesceInv'
<1>1. Owner[s] \in Requests /\ UNCHANGED <<phase, units, buffer, batch>>
  BY ResponseAssumption DEF StartStream, CloseStream, handlerVars
<1>2. NoCount \in Int /\ <<>> \in Seq(Nat) /\ chunkIndex[s] \in Int
      /\ "STREAM_START" \in Kinds /\ "STREAM_END" \in Kinds
  BY DEF NoCount, HandlerTypes, Kinds
<1>3. PICK frame \in Unnumbered :
        frame.kind \in {"STREAM_START", "STREAM_END"} /\ WriteFrame(Owner[s], frame)
  <2>1. /\ Frame("STREAM_START", s, NoCount, <<>>) \in Unnumbered
        /\ Frame("STREAM_END", s, chunkIndex[s], <<>>) \in Unnumbered
    BY <1>2, FrameType
  <2>2. /\ Frame("STREAM_START", s, NoCount, <<>>).kind = "STREAM_START"
        /\ Frame("STREAM_END", s, chunkIndex[s], <<>>).kind = "STREAM_END"
    BY DEF Frame
  <2>3. QED
    BY <2>1, <2>2 DEF StartStream, CloseStream
<1>4. \A q \in Requests : Active(q)' => Active(q)
  BY <1>1 DEF Active
<1>5. QED
  BY <1>1, <1>3, <1>4, CoalesceOther

LEMMA CoalesceLast ==
  ASSUME HandlerTypes, RestInv, PhaseInv, CoalesceInv, NEW r \in Requests,
         WriteTerminal(r) \/ WriteLog(r)
  PROVE  CoalesceInv'
<1>1. UNCHANGED <<units, buffer, batch>>
  BY DEF WriteTerminal, WriteLog, streamVars
<1>2. \A q \in Requests : Active(q)' => Active(q)
  BY DEF WriteTerminal, WriteLog, handlerVars, Active, HandlerTypes
<1>3. /\ Plain("END") \in Unnumbered /\ Plain("ERR") \in Unnumbered /\ Plain("LOG") \in Unnumbered
      /\ Plain("END").kind = "END" /\ Plain("ERR").kind = "ERR" /\ Plain("LOG").kind = "LOG"
  <2>1. "END" \in Kinds /\ "ERR" \in Kinds /\ "LOG" \in Kinds
    BY DEF Kinds
  <2>2. QED
    BY <2>1, PlainType DEF Plain, Frame
<1>4. PICK frame \in Unnumbered :
        /\ frame.kind \in {"END", "ERR", "LOG"} /\ WriteFrame(r, frame)
        /\ frame.kind = "END" => phase[r] = "finishing" /\ StreamsOf(r) \subseteq closed
  BY <1>3 DEF WriteTerminal, WriteLog
<1>5. ASSUME frame.kind = "END", NEW s \in StreamsOf(r)
      PROVE  Owes(<<>>, written[r], <<>>, units[s], s)
  <2>1. s \in Streams /\ Owner[s] = r /\ s \in closed /\ Active(r)
    BY <1>4, <1>5 DEF StreamsOf, Active
  <2>2. buffer[s] = <<>>
    BY <2>1 DEF PhaseInv
  <2>3. Queue(s) = <<>>
    BY <2>1 DEF PhaseInv, Queue
  <2>4. QED
    BY <2>1, <2>2, <2>3 DEF CoalesceInv, OwedInv
<1>6. QED
  BY <1>1, <1>2, <1>4, <1>5, CoalesceOther

LEMMA InitCoalesce == Init => CoalesceInv
<1> SUFFICES ASSUME Init PROVE CoalesceInv
  OBVIOUS
<1>1. /\ \A r \in Requests : written[r] = <<>> /\ Sent(r) = <<>> /\ Len(Sent(r)) = 0
      /\ \A s \in Streams : /\ Owner[s] \in Requests /\ buffer[s] = <<>> /\ units[s] = 0
                            /\ Queue(s) = <<>>
  BY ResponseAssumption DEF Init, Sent, UpToTerminal, Queue
<1>2. <<>> = UpTo(0) /\ <<>> = Span(0, 0) /\ Chain(<<>>, 0, 0)
  BY UpToType, SpanEmpty, ChainEmpty
<1>3. \A s : Units(<<>>, s) = UpTo(0) /\ Owes(<<>>, <<>>, <<>>, 0, s)
  BY <1>2, UnitsEmpty DEF Owes
<1>4. OwedInv
  BY <1>1, <1>3 DEF OwedInv
<1>5. BeginInv
  <2>1. \A n \in 0 .. 0 : First(<<>>, n) = <<>>
    BY DEF First
  <2>2. QED
    BY <1>1, <1>3, <2>1 DEF BeginInv
<1>6. EndInv
  BY <1>1 DEF EndInv
<1>7. QED
  BY <1>4, <1>5, <1>6 DEF CoalesceInv

LEMMA NextCoalesce ==
  ASSUME OneWriter, HandlerTypes, ThreadInv, RestInv, LedgerInv, CoalesceInv, [Next]_vars
  PROVE  CoalesceInv'
<1>1. DataInv /\ PhaseInv
  BY DEF RestInv, LedgerInv
<1>2. ASSUME NEW r \in Requests, Accept(r) \/ Return(r) \/ Cancel(r) PROVE CoalesceInv'
  BY <1>1, <1>2, CoalesceSilent
<1>3. ASSUME NEW r \in Requests, NEW i \in travelling[r], ArriveOnce(r, i) \/ ArriveAndStay(r, i)
      PROVE  CoalesceInv'
  <2>1. UNCHANGED <<handlerVars, streamVars, written>>
    BY <1>3 DEF ArriveOnce, ArriveAndStay, Arrive
  <2>2. QED
    BY <1>1, <2>1, CoalesceSilent
<1>4. ASSUME Route \/ UNCHANGED vars PROVE CoalesceInv'
  <2>1. UNCHANGED <<handlerVars, streamVars, written>>
    BY <1>4 DEF Route, vars, writerVars
  <2>2. QED
    BY <1>1, <2>1, CoalesceSilent
<1>5. ASSUME NEW r \in Requests, Fail(r) \/ WriteTerminal(r) \/ WriteLog(r) PROVE CoalesceInv'
  BY <1>1, <1>5, CoalesceFail, CoalesceLast
<1>6. ASSUME NEW s \in Streams, StartStream(s) \/ FlushLast(s) \/ CloseStream(s)
      PROVE  CoalesceInv'
  BY <1>1, <1>6, CoalesceEmit, CoalesceStream
<1>7. ASSUME NEW t \in Threads, EmitBytes(t) \/ EmitValue(t) \/ TakeIndex(t) \/ WriteChunk(t)
      PROVE  CoalesceInv'
  BY <1>1, <1>7, CoalesceEmit, CoalesceSilent, CoalesceChunk
<1>8. QED
  BY <1>2, <1>3, <1>4, <1>5, <1>6, <1>7 DEF Next

(* What was routed is the beginning of what was written.                   *)
LEMMA GotIsFirst ==
  ASSUME RestInv, NEW r \in Requests
  PROVE  Len(got[r]) \in 0 .. Len(Sent(r)) /\ got[r] = First(Sent(r), Len(got[r]))
<1>1. written[r] \in Seq(Frames) /\ got[r] \in Seq(Frames) /\ Sent(r) \in Seq(Frames)
  BY UpToFacts DEF RestInv, DataInv, Sent
<1> HIDE DEF Frames
<1>2. /\ Len(Sent(r)) \in Nat /\ Len(got[r]) \in Nat /\ Len(got[r]) <= Len(Sent(r))
      /\ \A i \in 1 .. Len(got[r]) : got[r][i] = Sent(r)[i]
  <2>1. /\ Len(Sent(r)) \in Nat /\ \A i \in 1 .. Len(Sent(r)) : Sent(r)[i] = written[r][i]
    BY SentFacts DEF RestInv
  <2>2. /\ Len(got[r]) <= Len(Sent(r))
        /\ \A i \in 1 .. Len(got[r]) : got[r][i] = written[r][i]
    BY DEF RestInv, FlowInv, GotInv
  <2>3. QED
    BY <1>1, <2>1, <2>2
<1>3. PICK w \in Seq(Frames), g \in Seq(Frames) : w = Sent(r) /\ g = got[r]
  BY <1>1
<1>4. g = SubSeq(w, 1, Len(g))
  <2>1. Len(g) \in Nat /\ Len(g) <= Len(w) /\ \A i \in 1 .. Len(g) : g[i] = w[i]
    BY <1>2, <1>3
  <2>2. SubSeq(w, 1, Len(g)) \in Seq(Frames) /\ Len(SubSeq(w, 1, Len(g))) = Len(g)
        /\ \A i \in 1 .. Len(g) : SubSeq(w, 1, Len(g))[i] = w[i]
    BY <2>1
  <2>3. QED
    BY <2>1, <2>2
<1>5. QED
  BY <1>2, <1>3, <1>4 DEF First

LEMMA IsLossless ==
  ASSUME HandlerTypes, RestInv, CoalesceInv
  PROVE  CoalescingIsLossless
<1> SUFFICES ASSUME NEW s \in Streams
             PROVE  /\ IsPrefix(Content(s), [n \in 1 .. units[s] |-> n])
                    /\ Finished(Owner[s]) => Len(Content(s)) = units[s]
  BY DEF CoalescingIsLossless
<1> DEFINE r == Owner[s]
           n == Len(got[r])
<1>1. r \in Requests /\ units[s] \in Nat
  BY ResponseAssumption DEF HandlerTypes
<1>2. n \in 0 .. Len(Sent(r)) /\ got[r] = First(Sent(r), n)
  BY <1>1, GotIsFirst
<1>3. Content(s) = Units(got[r], s)
  BY DEF Content, Units, Payloads, Carries
<1>4. PICK k \in 0 .. units[s] : Content(s) = UpTo(k)
  BY <1>2, <1>3 DEF CoalesceInv, BeginInv
<1>5. k \in Nat /\ Len(UpTo(k)) = k
  BY <1>1, <1>4, UpToType
<1>6. IsPrefix(Content(s), UpTo(units[s]))
  <2>1. /\ UpTo(k) \in Seq(Nat) /\ Len(UpTo(k)) = k /\ \A i \in 1 .. k : UpTo(k)[i] = i
        /\ UpTo(units[s]) \in Seq(Nat) /\ Len(UpTo(units[s])) = units[s]
        /\ \A i \in 1 .. units[s] : UpTo(units[s])[i] = i
    BY <1>1, <1>5, UpToType
  <2>2. PICK c \in Seq(Nat), u \in Seq(Nat) : c = UpTo(k) /\ u = UpTo(units[s])
    BY <2>1
  <2>3. k <= Len(u) /\ Len(c) = k /\ \A i \in 1 .. k : c[i] = i /\ u[i] = i
    BY <1>1, <1>4, <1>5, <2>1, <2>2
  <2>4. SubSeq(c, 1, k) = SubSeq(u, 1, k)
    BY <1>5, <2>3
  <2>5. QED
    BY <1>4, <2>2, <2>3, <2>4 DEF IsPrefix
<1>7. ASSUME Finished(r) PROVE Len(Content(s)) = units[s]
  <2>1. PICK i \in DOMAIN got[r] : got[r][i].kind = "END"
    BY <1>7 DEF Finished
  <2>2. i \in 1 .. n
    BY <1>1 DEF RestInv, DataInv
  <2>3. written[r][i].kind = "END"
    BY <1>1, <2>1, <2>2 DEF RestInv, FlowInv, GotInv
  <2>4. Len(Sent(r)) \in Nat /\ \A j \in 1 .. (Len(Sent(r)) - 1) : ~IsTerminal(written[r][j].kind)
    BY <1>1, SentFacts DEF RestInv
  <2>5. i = Len(Sent(r)) /\ n = Len(Sent(r))
    <3>1. ~ (i \in 1 .. (Len(Sent(r)) - 1))
      BY <2>3, <2>4 DEF IsTerminal
    <3> HIDE DEF n, r
    <3>2. QED
      BY <1>2, <2>2, <2>4, <3>1
  <2>6. First(Sent(r), Len(Sent(r))) = Sent(r)
    <3>1. Sent(r) \in Seq(Frames)
      BY <1>1, UpToFacts DEF RestInv, DataInv, Sent
    <3>2. QED
      BY <3>1, FirstOf
  <2>7. Units(Sent(r), s) = UpTo(units[s])
    <3>1. i \in 1 .. Len(Sent(r))
      BY <2>2, <2>5
    <3>2. QED
      BY <2>3, <3>1 DEF CoalesceInv, EndInv
  <2>8. Content(s) = UpTo(units[s])
    BY <1>2, <1>3, <2>5, <2>6, <2>7
  <2>9. QED
    BY <1>1, <2>8, UpToType
<1>8. QED
  BY <1>6, <1>7 DEF UpTo

(***************************************************************************)
(* Whatever is coalesced, split, reordered or repeated, what arrives of a  *)
(* stream is the beginning of what was emitted to it, and all of it once   *)
(* its request has finished, if one thread at most emits to each stream    *)
(* (cartridge_runtime.py:252-262, 1854-1937).                              *)
(***************************************************************************)
THEOREM NothingIsLost ==
  ASSUME Displacement <= HoldLimit, OneWriter
  PROVE  Spec => []CoalescingIsLossless
<1> DEFINE I == /\ HandlerTypes /\ ThreadInv /\ RestInv /\ OvertakenAreTaken
                /\ LedgerInv /\ CoalesceInv
<1>1. Init => I
  BY InitRest, InitLedger, InitCoalesce
<1>2. I /\ [Next]_vars => I'
  BY NextRest, NextLedger, NextCoalesce
<1>3. I => CoalescingIsLossless
  BY IsLossless
<1>4. QED
  BY <1>1, <1>2, <1>3, PTL DEF Spec
=============================================================================
