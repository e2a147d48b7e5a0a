------------------------- MODULE RelaySwitch_proofs -------------------------
(***************************************************************************)
(* Proofs about the switch, for every number of masters and requests,      *)
(* every relation of callers, every window and every size of the ring.     *)
(***************************************************************************)
EXTENDS RelaySwitch, FiniteSetTheorems, TLAPS

(***************************************************************************)
(* The inductive invariant.                                                *)
(***************************************************************************)
FrameKinds == {"REQ", "CHUNK", "END", "ERR", "CREDIT", "CANCEL"}
Replies == {"CHUNK", "END", "ERR"}

Frames == [kind : FrameKinds, rid : Requests] \cup [kind : {"EOF"}, from : Masters]

Tables == [live : UNION {[S -> Requests] : S \in SUBSET Requests}, ended : Seq(Requests),
           registered : Nat]

(* What TypeOK leaves open: the queue, the table, and that only finitely   *)
(* many requests were registered.                                          *)
StateOK ==
  /\ TypeOK
  /\ queue \in Seq(Frames)
  /\ table \in Tables
  /\ \A r \in Live : table.live[r] = r
  /\ IsFiniteSet(seen)
  /\ probed # "pending" => probes # <<>>

(* A request that was not registered yet has left no trace: neither a      *)
(* response nor a reply in the queue nor a host; and it is registered      *)
(* once, since its REQ is written once.                                    *)
Fresh(r) ==
  /\ got[r] = <<>> /\ hosting[r] = "none" /\ r \notin misplaced
  /\ \A i \in DOMAIN queue : queue[i].kind \in Replies => queue[i].rid # r

NoTraces == \A r \in Requests \ seen : Fresh(r)

SentOnce == \A r \in FromEngine : pc[r] \in {"idle", "resolved", "admitted"} => r \notin seen

QueuedOnce ==
  \A i \in DOMAIN queue : queue[i].kind = "REQ" =>
    /\ queue[i].rid \notin seen
    /\ Parent[queue[i].rid] # Engine /\ origin[queue[i].rid] # NoMaster
    /\ \A j \in DOMAIN queue : queue[j].kind = "REQ" /\ queue[j].rid = queue[i].rid => j = i

CalledOnce == \A r \in Requests : Parent[r] # Engine /\ origin[r] = NoMaster => r \notin seen

(* Nor can a CREDIT for it be queued.                                      *)
CreditsAreOfSeen == \A i \in DOMAIN queue : queue[i].kind = "CREDIT" => queue[i].rid \in seen

RegisteredOnce == NoTraces /\ SentOnce /\ QueuedOnce /\ CalledOnce /\ CreditsAreOfSeen

(* A host that has a request is still the one it was written to.           *)
HostsAreThere ==
  \A r \in Requests : hosting[r] \in {"serving", "cancelled"} => dest[r] \in reading

SlotsHeld ==
  \A r \in Requests :
    slot[r] # NoMaster <=>
      r \in FromEngine /\ (pc[r] = "admitted" \/ (pc[r] = "sent" /\ r \in Live))

(* A cancelled request has ended, so nothing is linked to it any more.     *)
CancelEnds == Live \cap cancelled = {}

(* With room in the ring it holds every request that ended, once.          *)
Remembered ==
  RecentCapacity >= Cardinality(seen) =>
    /\ \A i, j \in DOMAIN table.ended : table.ended[i] = table.ended[j] => i = j
    /\ \A i \in DOMAIN table.ended : table.ended[i] \in seen \ Live
    /\ \A r \in seen \ Live : EndedLately(table, r)
    /\ misplaced \cap seen = {}
-----------------------------------------------------------------------------
(***************************************************************************)
(* Sequences: what an Append and a Tail do to a count of elements.         *)
(***************************************************************************)
Count(q, S) == Cardinality({i \in DOMAIN q : q[i] \in S})

LEMMA CountFinite ==
  ASSUME NEW T, NEW q \in Seq(T), NEW S
  PROVE  /\ IsFiniteSet({i \in DOMAIN q : q[i] \in S})
         /\ Count(q, S) \in Nat
<1>1. IsFiniteSet(1..Len(q))
  BY FS_Interval
<1>2. DOMAIN q = 1..Len(q)
  OBVIOUS
<1>3. {i \in DOMAIN q : q[i] \in S} \in SUBSET (1..Len(q))
  BY <1>2
<1>4. IsFiniteSet({i \in DOMAIN q : q[i] \in S})
  BY <1>1, <1>3, FS_Subset
<1>5. QED
  BY <1>4, FS_CardinalityType DEF Count

LEMMA CountAppend ==
  ASSUME NEW T, NEW q \in Seq(T), NEW e \in T, NEW S
  PROVE  Count(Append(q, e), S) = IF e \in S THEN Count(q, S) + 1 ELSE Count(q, S)
<1> DEFINE A == {i \in DOMAIN q : q[i] \in S}
           B == {i \in DOMAIN Append(q, e) : Append(q, e)[i] \in S}
           n == Len(q) + 1
<1>1. IsFiniteSet(A)
  BY CountFinite
<1>2. /\ DOMAIN Append(q, e) = 1..n /\ DOMAIN q = 1..Len(q) /\ Len(q) \in Nat
      /\ \A i \in 1..Len(q) : Append(q, e)[i] = q[i]
      /\ Append(q, e)[n] = e
  OBVIOUS
<1>3. n \notin A
  BY <1>2
<1>4. B = IF e \in S THEN A \cup {n} ELSE A
  <2>1. ASSUME NEW i PROVE i \in 1..n <=> i \in 1..Len(q) \/ i = n
    BY <1>2
  <2> HIDE DEF n
  <2>2. QED
    BY <1>2, <2>1
<1>5. Cardinality(A \cup {n}) = Cardinality(A) + 1
  BY <1>1, <1>3, FS_AddElement
<1> HIDE DEF A, B, n
<1>6. Cardinality(B) = IF e \in S THEN Cardinality(A) + 1 ELSE Cardinality(A)
  BY <1>4, <1>5
<1>7. QED
  BY <1>6 DEF A, B, Count

LEMMA CountTail ==
  ASSUME NEW T, NEW q \in Seq(T), q # <<>>, NEW S
  PROVE  Count(Tail(q), S) = IF Head(q) \in S THEN Count(q, S) - 1 ELSE Count(q, S)
<1> DEFINE A == {i \in DOMAIN q : q[i] \in S}
           B == {i \in DOMAIN Tail(q) : Tail(q)[i] \in S}
           f == [i \in B |-> i + 1]
<1>1. IsFiniteSet(A)
  BY CountFinite
<1>2. /\ Tail(q) \in Seq(T) /\ Len(q) \in Nat \ {0}
      /\ DOMAIN Tail(q) = 1..(Len(q) - 1) /\ DOMAIN q = 1..Len(q)
      /\ \A i \in 1..(Len(q) - 1) : Tail(q)[i] = q[i + 1]
      /\ Head(q) = q[1]
  <2>1. Tail(q) \in Seq(T) /\ Len(Tail(q)) = Len(q) - 1
    OBVIOUS
  <2>2. Len(q) \in Nat \ {0} /\ DOMAIN q = 1..Len(q) /\ Head(q) = q[1]
    OBVIOUS
  <2>3. \A i \in 1..(Len(q) - 1) : Tail(q)[i] = q[i + 1]
    OBVIOUS
  <2>4. QED
    BY <2>1, <2>2, <2>3
<1>3. IsFiniteSet(B)
  BY <1>2, CountFinite
<1>4. f \in Bijection(B, A \ {1})
  <2>1. \A i \in B : i + 1 \in A \ {1}
    BY <1>2
  <2>2. \A a, b \in B : f[a] = f[b] => a = b
    BY <1>2
  <2>3. ASSUME NEW k \in A \ {1} PROVE \E i \in B : f[i] = k
    <3>1. k - 1 \in B
      BY <1>2
    <3>2. f[k - 1] = k
      BY <1>2, <3>1
    <3>3. QED
      BY <3>1, <3>2
  <2>4. f \in [B -> A \ {1}]
    BY <2>1
  <2> HIDE DEF f, A, B
  <2>5. f \in Injection(B, A \ {1})
    BY <2>2, <2>4 DEF Injection, IsInjective
  <2>6. f \in Surjection(B, A \ {1})
    BY <2>3, <2>4 DEF Surjection
  <2>7. QED
    BY <2>5, <2>6 DEF Bijection
<1>5. Cardinality(B) = Cardinality(A \ {1})
  <2> HIDE DEF f, A, B
  <2>1. ExistsBijection(B, A \ {1})
    BY <1>4 DEF ExistsBijection
  <2>2. QED
    BY <1>3, <2>1, FS_Bijection
<1>6. Cardinality(A \ {1}) = IF 1 \in A THEN Cardinality(A) - 1 ELSE Cardinality(A)
  BY <1>1, FS_RemoveElement
<1>7. 1 \in A <=> Head(q) \in S
  BY <1>2
<1> HIDE DEF A, B
<1>8. Cardinality(B) = IF Head(q) \in S THEN Cardinality(A) - 1 ELSE Cardinality(A)
  BY <1>5, <1>6, <1>7
<1>9. QED
  BY <1>8 DEF A, B, Count

LEMMA TailFacts ==
  ASSUME NEW T, NEW q \in Seq(T), q # <<>>
  PROVE  /\ Tail(q) \in Seq(T) /\ Head(q) \in T /\ 1 \in DOMAIN q /\ q[1] = Head(q)
         /\ \A i \in DOMAIN Tail(q) : i + 1 \in DOMAIN q /\ Tail(q)[i] = q[i + 1]
         /\ \A i \in DOMAIN Tail(q) : i \in Nat \ {0}
<1>1. Tail(q) \in Seq(T) /\ Len(Tail(q)) = Len(q) - 1 /\ Len(q) \in Nat \ {0}
  OBVIOUS
<1>2. DOMAIN q = 1..Len(q) /\ DOMAIN Tail(q) = 1..(Len(q) - 1) /\ Head(q) = q[1]
  BY <1>1
<1>3. \A i \in 1..(Len(q) - 1) : Tail(q)[i] = q[i + 1]
  OBVIOUS
<1>4. QED
  BY <1>1, <1>2, <1>3

LEMMA AppendFacts ==
  ASSUME NEW T, NEW q \in Seq(T), NEW e \in T
  PROVE  /\ Append(q, e) \in Seq(T) /\ Len(Append(q, e)) = Len(q) + 1
         /\ \A i \in DOMAIN Append(q, e) :
              \/ i \in DOMAIN q /\ Append(q, e)[i] = q[i]
              \/ i = Len(q) + 1 /\ Append(q, e)[i] = e
         /\ Len(q) + 1 \notin DOMAIN q /\ Len(q) \in Nat
<1>1. Append(q, e) \in Seq(T) /\ Len(Append(q, e)) = Len(q) + 1 /\ Len(q) \in Nat
  OBVIOUS
<1>2. DOMAIN q = 1..Len(q) /\ DOMAIN Append(q, e) = 1..(Len(q) + 1)
  BY <1>1
<1>3. (\A i \in 1..Len(q) : Append(q, e)[i] = q[i]) /\ Append(q, e)[Len(q) + 1] = e
  OBVIOUS
<1>4. QED
  BY <1>1, <1>2, <1>3
-----------------------------------------------------------------------------
(***************************************************************************)
(* The table.                                                              *)
(***************************************************************************)
LEMMA Capacities ==
  /\ RecentCapacity \in Nat /\ InitialCredit \in Nat /\ MaxGrants \in Nat
  /\ Engine \notin Requests /\ NoMaster \notin Masters
  /\ Parent \in [Requests -> Requests \cup {Engine}]
  /\ \A r \in Requests : Serves[r] \subseteq Masters
BY SwitchAssumption

LEMMA TableFacts ==
  ASSUME table \in Tables
  PROVE  /\ DOMAIN table = {"live", "ended", "registered"}
         /\ table.ended \in Seq(Requests) /\ table.registered \in Nat
         /\ Live = DOMAIN table.live /\ Live \subseteq Requests
         /\ table.live \in [Live -> Requests]
BY DEF Tables, Live, LiveRids

LEMMA ForgottenFacts ==
  ASSUME NEW T, NEW s \in Seq(T), NEW c \in Nat
  PROVE  /\ Forgotten(s, c) \in Seq(T)
         /\ Len(s) <= c => Forgotten(s, c) = s
<1>1. Len(s) \in Nat
  OBVIOUS
<1>2. CASE Len(s) <= c
  BY <1>1, <1>2 DEF Forgotten
<1>3. CASE ~(Len(s) <= c)
  <2>1. Forgotten(s, c) = SubSeq(s, Len(s) - c + 1, Len(s))
    BY <1>1, <1>3 DEF Forgotten
  <2>2. Len(s) - c + 1 \in 1..(Len(s) + 1)
    BY <1>1, <1>3
  <2>3. SubSeq(s, Len(s) - c + 1, Len(s)) \in Seq(T)
    BY <1>1, <2>2
  <2>4. QED
    BY <1>3, <2>1, <2>3
<1>4. QED
  BY <1>2, <1>3

(* Registration adds one live request and keeps the rest.                  *)
LEMMA RegisterFacts ==
  ASSUME StateOK, NEW r \in Requests, NEW m, Register(r, m)
  PROVE  /\ table' \in Tables
         /\ Live' = Live \cup {r} /\ r \notin Live
         /\ \A q \in Live' : table'.live[q] = q
         /\ table'.registered = table.registered + 1
         /\ table'.ended = table.ended
<1>1. /\ DOMAIN table = {"live", "ended", "registered"}
      /\ table.ended \in Seq(Requests) /\ table.registered \in Nat
      /\ Live = DOMAIN table.live /\ Live \subseteq Requests
      /\ table.live \in [Live -> Requests]
      /\ \A q \in Live : table.live[q] = q
  BY TableFacts DEF StateOK
<1>2. r \notin Live
  BY DEF Register, CanRegister, Live, LiveRids
<1> DEFINE after == [q \in Live \cup {r} |-> IF q = r THEN r ELSE table.live[q]]
<1>3. /\ table' = [table EXCEPT !.live = after, !.registered = @ + 1]
      /\ LiveRids(table) = Live
  BY <1>1 DEF Register, Registered, Live, LiveRids
<1>4. /\ after \in [Live \cup {r} -> Requests]
      /\ \A q \in Live \cup {r} : after[q] = q
      /\ DOMAIN after = Live \cup {r}
  BY <1>1
<1> HIDE DEF after
<1>5. /\ table'.live = after /\ table'.ended = table.ended
      /\ table'.registered = table.registered + 1
      /\ table' = [live |-> after, ended |-> table.ended, registered |-> table.registered + 1]
  <2>1. table \in [live : UNION {[S -> Requests] : S \in SUBSET Requests},
                   ended : Seq(Requests), registered : Nat]
    BY DEF StateOK, Tables
  <2>2. QED
    BY <1>1, <1>3, <2>1
<1>6. Live' = Live \cup {r}
  <2>1. Live' = DOMAIN table'.live
    BY DEF Live, LiveRids
  <2>2. QED
    BY <1>4, <1>5, <2>1
<1>7. table' \in Tables
  <2>1. after \in UNION {[S -> Requests] : S \in SUBSET Requests}
    <3>1. Live \cup {r} \in SUBSET Requests
      BY <1>1
    <3>2. QED
      BY <1>4, <3>1
  <2>2. table.registered + 1 \in Nat
    BY <1>1
  <2>3. QED
    BY <1>1, <1>5, <2>1, <2>2 DEF Tables
<1>8. QED
  BY <1>1, <1>2, <1>4, <1>5, <1>6, <1>7

LEMMA EndAllFacts ==
  ASSUME StateOK, NEW ends \in SUBSET Live, EndAll(ends)
  PROVE  /\ table' \in Tables
         /\ Live' = Live \ ends
         /\ \A q \in Live' : table'.live[q] = q
         /\ table'.registered = table.registered
         /\ IsFiniteSet(ends) /\ Cardinality(ends) \in Nat
         /\ \E order \in Bijection(1..Cardinality(ends), ends) :
              /\ table.ended \o order \in Seq(Requests)
              /\ table'.ended = Forgotten(table.ended \o order, RecentCapacity)
<1>1. /\ DOMAIN table = {"live", "ended", "registered"}
      /\ table.ended \in Seq(Requests) /\ table.registered \in Nat
      /\ Live = DOMAIN table.live /\ Live \subseteq Requests
      /\ table.live \in [Live -> Requests]
      /\ \A q \in Live : table.live[q] = q
  BY TableFacts DEF StateOK
<1>2. IsFiniteSet(ends) /\ Cardinality(ends) \in Nat
  <2>1. ends \in SUBSET seen
    BY DEF StateOK, TypeOK
  <2>2. IsFiniteSet(ends)
    BY <2>1, FS_Subset DEF StateOK
  <2>3. QED
    BY <2>2, FS_CardinalityType
<1> DEFINE after == [q \in Live \ ends |-> table.live[q]]
<1>3. PICK order \in Bijection(1..Cardinality(ends), ends) :
        table' = [table EXCEPT !.live = [q \in DOMAIN @ \ ends |-> @[q]],
                               !.ended = Forgotten(@ \o order, RecentCapacity)]
  BY DEF EndAll
<1>4. order \in Seq(Requests)
  <2>1. order \in [1..Cardinality(ends) -> ends]
    BY <1>3 DEF Bijection, Injection
  <2>2. order \in [1..Cardinality(ends) -> Requests]
    BY <1>1, <2>1
  <2>3. QED
    BY <1>2, <2>2
<1>5. table.ended \o order \in Seq(Requests)
  BY <1>1, <1>4
<1>6. Forgotten(table.ended \o order, RecentCapacity) \in Seq(Requests)
  BY <1>5, ForgottenFacts, Capacities
<1> DEFINE late == Forgotten(table.ended \o order, RecentCapacity)
<1>7. table' = [table EXCEPT !.live = after, !.ended = late]
  BY <1>1, <1>3
<1>8. /\ after \in [Live \ ends -> Requests]
      /\ \A q \in Live \ ends : after[q] = q
      /\ DOMAIN after = Live \ ends
  BY <1>1
<1> HIDE DEF after, late
<1>9. /\ table'.live = after /\ table'.ended = late
      /\ table'.registered = table.registered
      /\ table' = [live |-> after, ended |-> late, registered |-> table.registered]
  <2>1. table \in [live : UNION {[S -> Requests] : S \in SUBSET Requests},
                   ended : Seq(Requests), registered : Nat]
    BY DEF StateOK, Tables
  <2>2. QED
    BY <1>1, <1>7, <2>1
<1>10. Live' = Live \ ends
  <2>1. Live' = DOMAIN table'.live
    BY DEF Live, LiveRids
  <2>2. QED
    BY <1>8, <1>9, <2>1
<1>11. table' \in Tables
  <2>1. after \in UNION {[S -> Requests] : S \in SUBSET Requests}
    <3>1. Live \ ends \in SUBSET Requests
      BY <1>1
    <3>2. QED
      BY <1>8, <3>1
  <2>2. late \in Seq(Requests)
    BY <1>6 DEF late
  <2>3. QED
    BY <1>1, <1>9, <2>1, <2>2 DEF Tables
<1>12. QED
  BY <1>2, <1>3, <1>5, <1>8, <1>9, <1>10, <1>11 DEF late

(* One terminal ends one request: the same, for a set of one.              *)
LEMMA TerminatedIsEndAll ==
  ASSUME StateOK, NEW r \in Live, table' = Terminated(table, r, RecentCapacity)
  PROVE  EndAll({r})
<1>1. /\ table.ended \in Seq(Requests) /\ Live = DOMAIN table.live /\ r \in Requests
  BY TableFacts DEF StateOK
<1> DEFINE order == <<r>>
<1>2. Cardinality({r}) = 1
  BY FS_Singleton
<1>3. order \in Bijection(1..1, {r})
  <2>1. order \in [1..1 -> {r}] /\ order[1] = r
    OBVIOUS
  <2>2. \A i, j \in 1..1 : i = j
    OBVIOUS
  <2> HIDE DEF order
  <2>3. order \in Injection(1..1, {r})
    BY <2>1, <2>2 DEF Injection, IsInjective
  <2>4. order \in Surjection(1..1, {r})
    BY <2>1 DEF Surjection
  <2>5. QED
    BY <2>3, <2>4 DEF Bijection
<1>4. Append(table.ended, r) = table.ended \o order
  BY <1>1
<1> HIDE DEF order
<1>5. table' = [table EXCEPT !.live = [q \in DOMAIN @ \ {r} |-> @[q]],
                             !.ended = Forgotten(@ \o order, RecentCapacity)]
  BY <1>4 DEF Terminated, Struck
<1>6. QED
  BY <1>2, <1>3, <1>5 DEF EndAll

LEMMA IsLiveFacts ==
  ASSUME StateOK, NEW r
  PROVE  IsLive(table, r, r) <=> r \in Live
BY DEF StateOK, IsLive, Listed, Live, LiveRids
-----------------------------------------------------------------------------
(***************************************************************************)
(* The queue.                                                              *)
(***************************************************************************)
LEMMA MessageFacts ==
  ASSUME NEW k \in FrameKinds, NEW r \in Requests
  PROVE  Message(k, r) \in Frames /\ Message(k, r).kind = k /\ Message(k, r).rid = r
BY DEF Message, Frames

LEMMA FrameFacts ==
  ASSUME NEW f \in Frames
  PROVE  /\ f.kind \in FrameKinds \cup {"EOF"}
         /\ f.kind # "EOF" => f.rid \in Requests
         /\ f.kind = "EOF" => f.from \in Masters
BY DEF Frames, FrameKinds

(* What queueing does, and what taking does.                               *)
LEMMA QueuesFacts ==
  ASSUME StateOK, NEW f \in Frames, queue' = Append(queue, f)
  PROVE  /\ queue' \in Seq(Frames)
         /\ \A i \in DOMAIN queue' :
              \/ i \in DOMAIN queue /\ queue'[i] = queue[i]
              \/ i = Len(queue) + 1 /\ queue'[i] = f
         /\ Len(queue) + 1 \notin DOMAIN queue /\ Len(queue) \in Nat
<1>1. queue \in Seq(Frames)
  BY DEF StateOK
<1> HIDE DEF Frames
<1>2. QED
  BY <1>1, AppendFacts

LEMMA TakesFacts ==
  ASSUME StateOK, Takes
  PROVE  /\ queue' \in Seq(Frames) /\ Head(queue) \in Frames
         /\ 1 \in DOMAIN queue /\ queue[1] = Head(queue)
         /\ \A i \in DOMAIN queue' :
              i \in Nat \ {0} /\ i + 1 \in DOMAIN queue /\ queue'[i] = queue[i + 1]
<1>1. queue \in Seq(Frames) /\ queue # <<>> /\ queue' = Tail(queue)
  BY DEF StateOK, Takes
<1>2. QED
  BY <1>1, TailFacts

-----------------------------------------------------------------------------
(***************************************************************************)
(* Types.                                                                  *)
(***************************************************************************)
LEMMA InitOK == Init => StateOK
<1> SUFFICES ASSUME Init PROVE StateOK
  OBVIOUS
<1>1. Live = {} /\ table.registered = 0 /\ table \in Tables
  <2>1. table = [live |-> <<>>, ended |-> <<>>, registered |-> 0]
    BY DEF Init, TableEmpty
  <2>2. <<>> \in [{} -> Requests] /\ <<>> \in Seq(Requests) /\ DOMAIN <<>> = {}
    OBVIOUS
  <2>3. <<>> \in UNION {[S -> Requests] : S \in SUBSET Requests}
    BY <2>2
  <2>4. QED
    BY <2>1, <2>2, <2>3 DEF Live, LiveRids, Tables
<1>2. IsFiniteSet(seen) /\ Cardinality(seen) = 0
  BY FS_EmptySet DEF Init
<1>3. TypeOK
  BY <1>1, <1>2, Capacities DEF Init, TypeOK, FromEngine
<1>4. QED
  BY <1>1, <1>2, <1>3 DEF Init, StateOK

LEMMA OKResolve ==
  ASSUME StateOK, NEW r \in FromEngine, Resolve(r)
  PROVE  StateOK'
<1>1. Routable(r) \subseteq Masters
  BY DEF Routable, StateOK, TypeOK
<1>2. TypeOK'
  BY <1>1 DEF StateOK, TypeOK, Resolve, slotVars, probeVars, entryVars, hostVars, historyVars, Live
<1>3. QED
  BY <1>2 DEF StateOK, Resolve, slotVars, probeVars, entryVars, hostVars, historyVars, Live

LEMMA OKAcquire ==
  ASSUME StateOK, NEW r \in FromEngine, Acquire(r)
  PROVE  StateOK'
<1>1. TypeOK'
  BY DEF StateOK, TypeOK, Acquire, slotVars, probeVars, hostVars, historyVars, Live, FromEngine
<1>2. QED
  BY <1>1 DEF StateOK, Acquire, slotVars, probeVars, hostVars, historyVars, Live
(* Registration and the write of the REQ, by the engine or by a peer.      *)
LEMMA OKRegister ==
  ASSUME StateOK, NEW r \in Requests, NEW m \in Routable(r), r \notin seen,
         Register(r, m), Serve(r, m), UNCHANGED reading
  PROVE  /\ table' \in Tables /\ (\A q \in Live' : table'.live[q] = q)
         /\ IsFiniteSet(seen') /\ Live' \subseteq seen' /\ seen' \subseteq Requests
         /\ Cardinality(seen') = table'.registered
         /\ dest' \in [Requests -> Masters \cup {NoMaster}]
         /\ \A q \in Requests : dest'[q] = NoMaster <=> q \notin seen'
         /\ ledger' \in [Requests -> Int]
         /\ hosting' \in [Requests -> {"none", "serving", "cancelled", "over", "lost"}]
         /\ window' \in [Requests -> Nat]
         /\ m \in Masters /\ seen' = seen \cup {r}
<1>1. m \in Masters /\ m # NoMaster
  BY Capacities DEF Routable, StateOK, TypeOK
<1>2. /\ table' \in Tables /\ (\A q \in Live' : table'.live[q] = q) /\ Live' = Live \cup {r}
      /\ table'.registered = table.registered + 1
  BY RegisterFacts
<1>3. seen' = seen \cup {r}
  BY DEF Register
<1>4. IsFiniteSet(seen') /\ Cardinality(seen') = Cardinality(seen) + 1
  BY <1>3, FS_AddElement DEF StateOK
<1>5. Live' \subseteq seen' /\ seen' \subseteq Requests /\ Cardinality(seen') = table'.registered
  BY <1>2, <1>3, <1>4 DEF StateOK, TypeOK
<1>6. dest' = [dest EXCEPT ![r] = m] /\ ledger' = [ledger EXCEPT ![r] = InitialCredit]
  BY DEF Register
<1>7. /\ dest' \in [Requests -> Masters \cup {NoMaster}]
      /\ \A q \in Requests : dest'[q] = NoMaster <=> q \notin seen'
      /\ ledger' \in [Requests -> Int]
  BY <1>1, <1>3, <1>6, Capacities DEF StateOK, TypeOK
<1>8. /\ hosting' \in [Requests -> {"none", "serving", "cancelled", "over", "lost"}]
      /\ window' \in [Requests -> Nat]
  <2>1. CASE m \in reading
    <3>1. /\ hosting' = [hosting EXCEPT ![r] = "serving"]
          /\ window' = [window EXCEPT ![r] = InitialCredit] /\ InitialCredit \in Nat
      BY <2>1, Capacities DEF Serve
    <3>2. QED
      BY <3>1 DEF StateOK, TypeOK
  <2>2. CASE m \notin reading
    BY <2>2 DEF StateOK, TypeOK, Serve
  <2>3. QED
    BY <2>1, <2>2
<1>9. QED
  BY <1>1, <1>2, <1>3, <1>4, <1>5, <1>7, <1>8

LEMMA OKSendAdmitted ==
  ASSUME StateOK, RegisteredOnce, NEW r \in FromEngine, SendAdmitted(r)
  PROVE  StateOK'
<1>1. r \in Requests /\ r \notin seen /\ UNCHANGED reading
  BY DEF FromEngine, RegisteredOnce, SentOnce, SendAdmitted, slotVars
<1>2. CASE /\ pc' = [pc EXCEPT ![r] = "failed"]
           /\ slot' = [slot EXCEPT ![r] = NoMaster]
           /\ UNCHANGED <<table, dest, ledger, seen, hosting, window>>
  <2>1. TypeOK'
    BY <1>2 DEF StateOK, TypeOK, SendAdmitted, slotVars, probeVars, Live
  <2>2. QED
    BY <1>2, <2>1 DEF StateOK, SendAdmitted, slotVars, probeVars, Live
<1>3. ASSUME NEW m \in Routable(r), Register(r, m), Serve(r, m),
             pc' = [pc EXCEPT ![r] = IF m \in reading THEN "sent" ELSE "failed"],
             slot' = [slot EXCEPT ![r] = IF m \in reading THEN @ ELSE NoMaster]
      PROVE  StateOK'
  <2>1. /\ table' \in Tables /\ (\A q \in Live' : table'.live[q] = q)
        /\ IsFiniteSet(seen') /\ Live' \subseteq seen' /\ seen' \subseteq Requests
        /\ Cardinality(seen') = table'.registered
        /\ dest' \in [Requests -> Masters \cup {NoMaster}]
        /\ \A q \in Requests : dest'[q] = NoMaster <=> q \notin seen'
        /\ ledger' \in [Requests -> Int]
        /\ hosting' \in [Requests -> {"none", "serving", "cancelled", "over", "lost"}]
        /\ window' \in [Requests -> Nat]
        /\ m \in Masters /\ seen' = seen \cup {r}
    BY <1>1, <1>3, OKRegister
  <2>2. TypeOK'
    BY <1>3, <2>1 DEF StateOK, TypeOK, SendAdmitted, slotVars, probeVars
  <2>3. QED
    BY <2>1, <2>2 DEF StateOK, SendAdmitted, slotVars, probeVars
<1>4. QED
  BY <1>2, <1>3 DEF SendAdmitted

LEMMA OKHandleRequest ==
  ASSUME StateOK, RegisteredOnce, HandleRequest
  PROVE  StateOK'
<1> DEFINE r == Head(queue).rid
<1>1. queue' \in Seq(Frames) /\ Head(queue) \in Frames /\ 1 \in DOMAIN queue /\ queue[1] = Head(queue)
  BY TakesFacts DEF HandleRequest
<1>2. r \in Requests
  BY <1>1, FrameFacts DEF HandleRequest
<1>3. r \notin seen /\ UNCHANGED reading
  BY <1>1 DEF RegisteredOnce, QueuedOnce, HandleRequest, slotVars
<1>4. CASE UNCHANGED <<table, dest, linked, ledger, seen, hosting, window>>
  <2>1. TypeOK'
    BY <1>4 DEF StateOK, TypeOK, HandleRequest, slotVars, probeVars, engineVars, Live
  <2>2. QED
    BY <1>1, <1>4, <2>1 DEF StateOK, HandleRequest, slotVars, probeVars, Live
<1>5. ASSUME NEW m \in Routable(r), Register(r, m), Serve(r, m),
             linked' = IF Parent[r] \in Live THEN linked \cup {r} ELSE linked
      PROVE  StateOK'
  <2>1. /\ table' \in Tables /\ (\A q \in Live' : table'.live[q] = q)
        /\ IsFiniteSet(seen') /\ Live' \subseteq seen' /\ seen' \subseteq Requests
        /\ Cardinality(seen') = table'.registered
        /\ dest' \in [Requests -> Masters \cup {NoMaster}]
        /\ \A q \in Requests : dest'[q] = NoMaster <=> q \notin seen'
        /\ ledger' \in [Requests -> Int]
        /\ hosting' \in [Requests -> {"none", "serving", "cancelled", "over", "lost"}]
        /\ window' \in [Requests -> Nat]
        /\ m \in Masters /\ seen' = seen \cup {r}
    BY <1>2, <1>3, <1>5, OKRegister
  <2>2. linked' \subseteq seen'
    BY <1>5, <2>1 DEF StateOK, TypeOK
  <2>3. TypeOK'
    BY <2>1, <2>2 DEF StateOK, TypeOK, HandleRequest, slotVars, probeVars, engineVars
  <2>4. QED
    BY <1>1, <2>1, <2>3 DEF StateOK, HandleRequest, slotVars, probeVars
<1>6. QED
  BY <1>4, <1>5 DEF HandleRequest

(* An end of some entries keeps what is known of the rest.                 *)
LEMMA OKEnds ==
  ASSUME StateOK, NEW ends \in SUBSET Live, EndAll(ends), GivesBack(ends), UNCHANGED seen
  PROVE  /\ table' \in Tables /\ (\A q \in Live' : table'.live[q] = q)
         /\ Live' = Live \ ends
         /\ IsFiniteSet(seen') /\ Live' \subseteq seen' /\ seen' \subseteq Requests
         /\ Cardinality(seen') = table'.registered
         /\ slot' \in [Requests -> Masters \cup {NoMaster}]
<1>1. /\ table' \in Tables /\ (\A q \in Live' : table'.live[q] = q)
      /\ Live' = Live \ ends /\ table'.registered = table.registered
  BY EndAllFacts
<1>2. slot' \in [Requests -> Masters \cup {NoMaster}]
  BY DEF GivesBack, StateOK, TypeOK
<1>3. QED
  BY <1>1, <1>2 DEF StateOK, TypeOK

LEMMA ToldFacts ==
  ASSUME StateOK, NEW ends, hosting' = ToldToCancel(ends)
  PROVE  hosting' \in [Requests -> {"none", "serving", "cancelled", "over", "lost"}]
BY DEF ToldToCancel, StateOK, TypeOK

LEMMA OKCancel ==
  ASSUME StateOK, NEW r \in Requests, Cancel(r)
  PROVE  StateOK'
<1>1. Doomed(r) \in SUBSET Live
  BY DEF Doomed
<1>2. /\ table' \in Tables /\ (\A q \in Live' : table'.live[q] = q)
      /\ IsFiniteSet(seen') /\ Live' \subseteq seen' /\ seen' \subseteq Requests
      /\ Cardinality(seen') = table'.registered
      /\ slot' \in [Requests -> Masters \cup {NoMaster}]
  BY <1>1, OKEnds DEF Cancel
<1>3. hosting' \in [Requests -> {"none", "serving", "cancelled", "over", "lost"}]
  BY ToldFacts DEF Cancel
<1>4. cancelled' \subseteq seen'
  BY DEF Cancel, StateOK, TypeOK
<1>5. TypeOK'
  BY <1>2, <1>3, <1>4 DEF StateOK, TypeOK, Cancel, slotVars, probeVars, engineVars
<1>6. QED
  BY <1>2, <1>5 DEF StateOK, Cancel, slotVars, probeVars
LEMMA CreditFacts ==
  ASSUME StateOK, NEW r \in Requests, Credit(r)
  PROVE  /\ ledger' = [ledger EXCEPT ![r] = @ + 1]
         /\ window' = [window EXCEPT ![r] = IF Hosted(r) THEN @ + 1 ELSE @]
         /\ ledger' \in [Requests -> Int] /\ window' \in [Requests -> Nat]
<1>1. ledger \in [Requests -> Int] /\ window \in [Requests -> Nat]
  BY DEF StateOK, TypeOK
<1>2. ledger' = [ledger EXCEPT ![r] = @ + 1]
  BY <1>1 DEF Credit, Ledger
<1>3. window' = [window EXCEPT ![r] = IF Hosted(r) THEN @ + 1 ELSE @]
  BY <1>1 DEF Credit, Hosted
<1>4. QED
  BY <1>1, <1>2, <1>3

LEMMA OKGrant ==
  ASSUME StateOK, NEW r \in Requests, Grant(r)
  PROVE  StateOK'
<1>1. ledger' \in [Requests -> Int] /\ window' \in [Requests -> Nat]
  BY CreditFacts DEF Grant
<1>2. granted' \in [Requests -> 0..MaxGrants]
  BY Capacities DEF StateOK, TypeOK, Grant, Grants
<1>3. TypeOK'
  BY <1>1, <1>2 DEF StateOK, TypeOK, Grant, slotVars, probeVars, engineVars, historyVars, Live
<1>4. QED
  BY <1>3 DEF StateOK, Grant, slotVars, probeVars, historyVars, Live

(* The hosts' frames.                                                      *)
LEMMA OKSends ==
  ASSUME StateOK, NEW r \in Requests,
         SendChunk(r) \/ SendTerminal(r) \/ CallPeer(r) \/ SendPeerCredit(r) \/ SendPeerCancel(r)
  PROVE  StateOK'
<1>1. ASSUME NEW k \in FrameKinds, Queues(Message(k, r)) PROVE queue' \in Seq(Frames)
  BY <1>1, MessageFacts, QueuesFacts DEF Queues
<1>2. CASE SendChunk(r)
  <2>1. queue' \in Seq(Frames)
    BY <1>1, <1>2 DEF SendChunk, FrameKinds
  <2>2. window' \in [Requests -> Nat]
    BY <1>2 DEF StateOK, TypeOK, SendChunk
  <2>3. TypeOK'
    BY <1>2, <2>2 DEF StateOK, TypeOK, SendChunk, slotVars, probeVars, entryVars, engineVars,
                      historyVars, Live
  <2>4. QED
    BY <1>2, <2>1, <2>3 DEF StateOK, SendChunk, slotVars, probeVars, entryVars, historyVars, Live
<1>3. CASE SendTerminal(r)
  <2>1. queue' \in Seq(Frames)
    BY <1>1, <1>3 DEF SendTerminal, FrameKinds
  <2>2. TypeOK'
    BY <1>3 DEF StateOK, TypeOK, SendTerminal, slotVars, probeVars, entryVars, engineVars,
                historyVars, Live
  <2>3. QED
    BY <1>3, <2>1, <2>2 DEF StateOK, SendTerminal, slotVars, probeVars, entryVars, historyVars, Live
<1>4. CASE CallPeer(r)
  <2>1. queue' \in Seq(Frames)
    BY <1>1, <1>4 DEF CallPeer, FrameKinds
  <2>2. dest[Parent[r]] \in Masters \cup {NoMaster}
    <3>1. Parent[r] \in Requests
      BY <1>4, Capacities DEF CallPeer, Calls
    <3>2. QED
      BY <3>1 DEF StateOK, TypeOK
  <2>3. TypeOK'
    BY <1>4, <2>2 DEF StateOK, TypeOK, CallPeer, slotVars, probeVars, entryVars, engineVars,
                historyVars, Live
  <2>4. QED
    BY <1>4, <2>1, <2>3 DEF StateOK, CallPeer, slotVars, probeVars, entryVars, historyVars, Live
<1>5. CASE SendPeerCredit(r)
  <2>1. queue' \in Seq(Frames)
    BY <1>1, <1>5 DEF SendPeerCredit, FrameKinds
  <2>2. granted' \in [Requests -> 0..MaxGrants]
    BY <1>5, Capacities DEF StateOK, TypeOK, SendPeerCredit, Grants
  <2>3. TypeOK'
    BY <1>5, <2>2 DEF StateOK, TypeOK, SendPeerCredit, slotVars, probeVars, entryVars, engineVars,
                      historyVars, Live
  <2>4. QED
    BY <1>5, <2>1, <2>3 DEF StateOK, SendPeerCredit, slotVars, probeVars, entryVars, historyVars,
                            Live
<1>6. CASE SendPeerCancel(r)
  <2>1. queue' \in Seq(Frames)
    BY <1>1, <1>6 DEF SendPeerCancel, FrameKinds
  <2>2. TypeOK'
    BY <1>6 DEF StateOK, TypeOK, SendPeerCancel, slotVars, probeVars, entryVars, engineVars,
                hostVars, historyVars, Live
  <2>3. QED
    BY <1>6, <2>1, <2>2 DEF StateOK, SendPeerCancel, slotVars, probeVars, entryVars, historyVars,
                            Live
<1>7. QED
  BY <1>2, <1>3, <1>4, <1>5, <1>6

LEMMA OKHosts ==
  ASSUME StateOK, NEW m \in Masters, Notify(m) \/ Disconnect(m) \/ Attach(m)
  PROVE  StateOK'
<1>1. CASE Notify(m)
  <2>1. probes' \in Seq(Masters) /\ (probes # <<>> => probes' # <<>>)
    <3>1. probes \in Seq(Masters)
      BY DEF StateOK, TypeOK
    <3>2. Append(probes, m) \in Seq(Masters) /\ Append(probes, m) # <<>>
      <4>1. /\ Append(probes, m) \in Seq(Masters) /\ Len(probes) \in Nat
            /\ Len(Append(probes, m)) = Len(probes) + 1
        BY <3>1, AppendFacts
      <4>2. Len(<<>>) = 0
        OBVIOUS
      <4>3. QED
        BY <4>1, <4>2
    <3>3. probes' = probes \/ probes' = Append(probes, m)
      BY <1>1 DEF Notify
    <3>4. QED
      BY <3>1, <3>2, <3>3
  <2>2. TypeOK'
    BY <1>1, <2>1 DEF StateOK, TypeOK, Notify, entryVars, engineVars, hostVars, historyVars, Live
  <2>3. QED
    BY <1>1, <2>1, <2>2 DEF StateOK, Notify, entryVars, historyVars, Live
<1>2. CASE Disconnect(m)
  <2>1. Eof(m) \in Frames
    BY DEF Eof, Frames
  <2>2. queue' \in Seq(Frames)
    BY <1>2, <2>1, QueuesFacts DEF Disconnect
  <2>3. hosting' \in [Requests -> {"none", "serving", "cancelled", "over", "lost"}]
    BY <1>2 DEF Disconnect, StateOK, TypeOK
  <2>4. TypeOK'
    BY <1>2, <2>3 DEF StateOK, TypeOK, Disconnect, probeVars, entryVars, engineVars, historyVars,
                      Live
  <2>5. QED
    BY <1>2, <2>2, <2>4 DEF StateOK, Disconnect, probeVars, entryVars, historyVars, Live
<1>3. CASE Attach(m)
  <2>1. TypeOK'
    BY <1>3 DEF StateOK, TypeOK, Attach, probeVars, entryVars, engineVars, hostVars, historyVars,
                Live
  <2>2. QED
    BY <1>3, <2>1 DEF StateOK, Attach, probeVars, entryVars, historyVars, Live
<1>4. QED
  BY <1>1, <1>2, <1>3

LEMMA OKProbes ==
  ASSUME StateOK, ProbeAnswered \/ ProbeConcludes
  PROVE  StateOK'
<1>1. CASE ProbeAnswered
  <2>1. TypeOK'
    BY <1>1 DEF StateOK, TypeOK, ProbeAnswered, slotVars, entryVars, engineVars, hostVars,
                historyVars, Live
  <2>2. QED
    BY <1>1, <2>1 DEF StateOK, ProbeAnswered, entryVars, historyVars, Live
<1>2. CASE ProbeConcludes
  <2>1. probes # <<>> /\ probes \in Seq(Masters)
    BY <1>2 DEF StateOK, TypeOK, ProbeConcludes
  <2>2. Head(probes) \in Masters /\ Tail(probes) \in Seq(Masters)
    BY <2>1
  <2>3. TypeOK'
    BY <1>2, <2>2 DEF StateOK, TypeOK, ProbeConcludes, entryVars, engineVars, hostVars, Live
  <2>4. QED
    BY <1>2, <2>3 DEF StateOK, ProbeConcludes, entryVars, Live
<1>3. QED
  BY <1>1, <1>2
LEMMA LedgerFacts ==
  ASSUME NEW n \in Int, NEW k \in Replies
  PROVE  Ledger(n, k, 0) = IF k = "CHUNK" THEN n - 1 ELSE n
BY DEF Ledger, Replies

LEMMA DeliveredFacts ==
  ASSUME StateOK, NEW r \in Requests, NEW k \in Replies, Delivered(r, k)
  PROVE  /\ got' \in [Requests -> Seq(Replies)]
         /\ \A q \in Requests : q # r => got'[q] = got[q]
         /\ got'[r] = got[r] \/ got'[r] = Append(got[r], k)
<1>1. got \in [Requests -> Seq(Replies)]
  BY DEF StateOK, TypeOK, Replies
<1>2. got[r] \in Seq(Replies) /\ Append(got[r], k) \in Seq(Replies)
  BY <1>1
<1> HIDE DEF Replies
<1>3. QED
  BY <1>1, <1>2 DEF Delivered

LEMMA UnroutedFacts ==
  ASSUME StateOK, NEW r \in Requests, Unrouted(r)
  PROVE  misplaced' \subseteq Requests
BY DEF Unrouted, StateOK, TypeOK

LEMMA OKHandleReply ==
  ASSUME StateOK, HandleReply
  PROVE  StateOK'
<1> DEFINE r == Head(queue).rid
           kind == Head(queue).kind
<1>1. queue' \in Seq(Frames) /\ Head(queue) \in Frames
  BY TakesFacts DEF HandleReply
<1>2. r \in Requests /\ kind \in Replies
  BY <1>1, FrameFacts DEF HandleReply, Replies
<1>3. CASE r \notin Live
  <2>1. Unrouted(r) /\ UNCHANGED <<table, slot, ledger, got>>
    BY <1>3, IsLiveFacts DEF HandleReply
  <2>2. misplaced' \subseteq Requests
    BY <1>2, <2>1, UnroutedFacts
  <2>3. TypeOK'
    BY <2>1, <2>2 DEF StateOK, TypeOK, HandleReply, slotVars, probeVars, engineVars, hostVars, Live
  <2>4. QED
    BY <1>1, <2>1, <2>3 DEF StateOK, HandleReply, slotVars, probeVars, Live
<1>4. CASE r \in Live
  <2>1. /\ ledger' = [ledger EXCEPT ![r] = Ledger(@, kind, 0)]
        /\ IF TerminalOf(kind) # "none"
           THEN table' = Terminated(table, r, RecentCapacity) /\ GivesBack({r})
           ELSE UNCHANGED <<table, slot>>
        /\ Delivered(r, kind) /\ UNCHANGED <<misplaced, seen>>
    BY <1>4, IsLiveFacts DEF HandleReply
  <2>2. ledger' \in [Requests -> Int]
    <3>1. ledger \in [Requests -> Int] /\ ledger[r] \in Int
      BY <1>2 DEF StateOK, TypeOK
    <3>2. Ledger(ledger[r], kind, 0) \in Int
      BY <1>2, <3>1, LedgerFacts
    <3>3. QED
      BY <2>1, <3>1, <3>2
  <2>3. got' \in [Requests -> Seq({"CHUNK", "END", "ERR"})]
    BY <1>2, <2>1, DeliveredFacts DEF Replies
  <2>4. /\ table' \in Tables /\ (\A q \in Live' : table'.live[q] = q)
        /\ IsFiniteSet(seen') /\ Live' \subseteq seen' /\ seen' \subseteq Requests
        /\ Cardinality(seen') = table'.registered
        /\ slot' \in [Requests -> Masters \cup {NoMaster}]
    <3>1. CASE TerminalOf(kind) # "none"
      <4>1. EndAll({r}) /\ GivesBack({r}) /\ {r} \in SUBSET Live /\ UNCHANGED seen
        BY <1>4, <2>1, <3>1, TerminatedIsEndAll
      <4>2. QED
        BY <4>1, OKEnds
    <3>2. CASE TerminalOf(kind) = "none"
      BY <2>1, <3>2 DEF StateOK, TypeOK, Live
    <3>3. QED
      BY <3>1, <3>2
  <2> HIDE DEF r, kind
  <2>5. TypeOK'
    BY <2>1, <2>2, <2>3, <2>4 DEF StateOK, TypeOK, HandleReply, slotVars, probeVars, engineVars,
                                  hostVars
  <2>6. QED
    BY <1>1, <2>1, <2>4, <2>5 DEF StateOK, HandleReply, slotVars, probeVars
<1>5. QED
  BY <1>3, <1>4

LEMMA OKHandleRest ==
  ASSUME StateOK, HandleCredit \/ HandleCancel
  PROVE  StateOK'
<1> DEFINE r == Head(queue).rid
<1>1. queue' \in Seq(Frames) /\ Head(queue) \in Frames
  BY TakesFacts DEF HandleCredit, HandleCancel
<1>2. r \in Requests
  BY <1>1, FrameFacts DEF HandleCredit, HandleCancel
<1>3. CASE HandleCredit
  <2>1. /\ ledger' \in [Requests -> Int] /\ window' \in [Requests -> Nat]
        /\ misplaced' \subseteq Requests
    <3>1. CASE Credit(r) /\ UNCHANGED misplaced
      BY <1>2, <3>1, CreditFacts DEF StateOK, TypeOK
    <3>2. CASE Unrouted(r) /\ UNCHANGED <<ledger, window>>
      BY <1>2, <3>2, UnroutedFacts DEF StateOK, TypeOK
    <3>3. QED
      BY <1>3, <3>1, <3>2 DEF HandleCredit
  <2>2. TypeOK'
    BY <1>3, <2>1 DEF StateOK, TypeOK, HandleCredit, slotVars, probeVars, engineVars, Live
  <2>3. QED
    BY <1>1, <1>3, <2>2 DEF StateOK, HandleCredit, slotVars, probeVars, Live
<1>4. CASE HandleCancel
  <2>1. hosting' \in [Requests -> {"none", "serving", "cancelled", "over", "lost"}]
    BY <1>4, ToldFacts DEF HandleCancel
  <2>2. TypeOK'
    BY <1>4, <2>1 DEF StateOK, TypeOK, HandleCancel, slotVars, probeVars, entryVars, engineVars,
                      historyVars, Live
  <2>3. QED
    BY <1>1, <1>4, <2>2 DEF StateOK, HandleCancel, slotVars, probeVars, entryVars, historyVars, Live
<1>5. QED
  BY <1>3, <1>4

LEMMA DeathFacts ==
  ASSUME StateOK, NEW m, Death(m)
  PROVE  got' \in [Requests -> Seq(Replies)]
<1>1. got \in [Requests -> Seq(Replies)] /\ "ERR" \in Replies
  BY DEF StateOK, TypeOK, Replies
<1>2. \A r \in Requests : got[r] \in Seq(Replies) /\ Append(got[r], "ERR") \in Seq(Replies)
  BY <1>1
<1> HIDE DEF Replies
<1>3. QED
  BY <1>2 DEF Death

LEMMA OKHandleEof ==
  ASSUME StateOK, HandleEof
  PROVE  StateOK'
<1> DEFINE m == Head(queue).from
<1>1. queue' \in Seq(Frames) /\ Head(queue) \in Frames
  BY TakesFacts DEF HandleEof
<1>2. m \in Masters
  BY <1>1, FrameFacts DEF HandleEof
<1>3. CASE m \in healthy
  <2>1. Death(m) /\ UNCHANGED <<seen, overlooked>>
    BY <1>3 DEF HandleEof
  <2>2. got' \in [Requests -> Seq({"CHUNK", "END", "ERR"})]
    BY <2>1, DeathFacts DEF Replies
  <2>3. /\ table' \in Tables /\ (\A q \in Live' : table'.live[q] = q)
        /\ IsFiniteSet(seen') /\ Live' \subseteq seen' /\ seen' \subseteq Requests
        /\ Cardinality(seen') = table'.registered
        /\ slot' \in [Requests -> Masters \cup {NoMaster}]
    <3>1. RoutedTo(m) \in SUBSET Live
      BY DEF RoutedTo
    <3>2. EndAll(RoutedTo(m)) /\ GivesBack(RoutedTo(m)) /\ UNCHANGED seen
      BY <2>1 DEF Death
    <3> HIDE DEF m
    <3>3. QED
      BY <3>1, <3>2, OKEnds
  <2>4. healthy' \subseteq Masters /\ available' \subseteq Masters
    BY <2>1 DEF Death, StateOK, TypeOK
  <2>5. TypeOK'
    BY <1>2, <2>1, <2>2, <2>3, <2>4
    DEF StateOK, TypeOK, HandleEof, probeVars, engineVars, hostVars
  <2>6. QED
    BY <1>1, <2>1, <2>3, <2>5 DEF StateOK, HandleEof, probeVars
<1>4. CASE m \notin healthy
  <2>1. /\ overlooked' \subseteq Masters
        /\ UNCHANGED <<healthy, available, table, slot, got>>
    BY <1>2, <1>4 DEF HandleEof, StateOK, TypeOK
  <2>2. TypeOK'
    BY <1>2, <2>1 DEF StateOK, TypeOK, HandleEof, probeVars, engineVars, hostVars, Live
  <2>3. QED
    BY <1>1, <2>1, <2>2 DEF StateOK, HandleEof, probeVars, Live
<1>5. QED
  BY <1>3, <1>4

LEMMA OKStep ==
  ASSUME StateOK, RegisteredOnce, [Next]_vars
  PROVE  StateOK'
<1>1. CASE UNCHANGED vars
  <2>1. TypeOK'
    BY <1>1 DEF StateOK, TypeOK, vars, slotVars, probeVars, entryVars, engineVars, hostVars,
                historyVars, Live
  <2>2. QED
    BY <1>1, <2>1 DEF StateOK, vars, slotVars, probeVars, entryVars, hostVars, historyVars, Live
<1>2. ASSUME NEW r \in FromEngine, Resolve(r) \/ Acquire(r) \/ SendAdmitted(r) \/ Grant(r)
      PROVE  StateOK'
  <2>1. r \in Requests
    BY DEF FromEngine
  <2>2. QED
    BY <1>2, <2>1, OKResolve, OKAcquire, OKSendAdmitted, OKGrant
<1>3. ASSUME NEW r \in Requests,
             Cancel(r) \/ SendChunk(r) \/ SendTerminal(r) \/ CallPeer(r)
               \/ SendPeerCredit(r) \/ SendPeerCancel(r)
      PROVE  StateOK'
  BY <1>3, OKCancel, OKSends
<1>4. ASSUME NEW m \in Masters, Notify(m) \/ Disconnect(m) \/ Attach(m)
      PROVE  StateOK'
  BY <1>4, OKHosts
<1>5. CASE ProbeAnswered \/ ProbeConcludes
  BY <1>5, OKProbes
<1>6. CASE Handle
  BY <1>6, OKHandleRequest, OKHandleReply, OKHandleRest, OKHandleEof DEF Handle
<1>7. QED
  BY <1>1, <1>2, <1>3, <1>4, <1>5, <1>6 DEF Next
-----------------------------------------------------------------------------
(***************************************************************************)
(* Every request is registered once.                                       *)
(***************************************************************************)
(* What a step does to the queue.                                          *)
QueueStep ==
  \/ queue' = queue
  \/ \E f \in Frames : queue' = Append(queue, f)
  \/ Takes

LEMMA InitOnce == Init => RegisteredOnce
BY DEF Init, RegisteredOnce, NoTraces, Fresh, SentOnce, QueuedOnce, CalledOnce, CreditsAreOfSeen

LEMMA FreshStays ==
  ASSUME NoTraces, seen \subseteq seen',
         \A q \in Requests \ seen' :
           got'[q] = got[q] /\ hosting'[q] = hosting[q] /\ (q \in misplaced' => q \in misplaced),
         \A i \in DOMAIN queue' : queue'[i].kind \in Replies =>
           queue'[i].rid \in seen \/ \E j \in DOMAIN queue : queue[j] = queue'[i]
  PROVE  NoTraces'
BY DEF NoTraces, Fresh

(* The kinds of frame the table does not count as replies.                 *)
LEMMA TakenOf ==
  ASSUME StateOK, RegisteredOnce, Takes
  PROVE  /\ \A i \in DOMAIN queue' : \E j \in DOMAIN queue : queue[j] = queue'[i]
         /\ Head(queue).kind \in Replies \cup {"CREDIT"} =>
              Head(queue).rid \in Requests /\ Head(queue).rid \in seen
         /\ Head(queue).kind = "REQ" =>
              Head(queue).rid \in Requests /\ Head(queue).rid \notin seen
<1>1. /\ queue' \in Seq(Frames) /\ Head(queue) \in Frames
      /\ 1 \in DOMAIN queue /\ queue[1] = Head(queue)
      /\ \A i \in DOMAIN queue' : i + 1 \in DOMAIN queue /\ queue'[i] = queue[i + 1]
  BY TakesFacts
<1>2. Head(queue).kind # "EOF" => Head(queue).rid \in Requests
  BY <1>1, FrameFacts
<1>3. \A i \in DOMAIN queue' : \E j \in DOMAIN queue : queue[j] = queue'[i]
  BY <1>1
<1>4. Head(queue).kind \in Replies => Head(queue).rid \in seen
  BY <1>1, <1>2 DEF RegisteredOnce, NoTraces, Fresh, Replies
<1>5. /\ Head(queue).kind = "CREDIT" => Head(queue).rid \in seen
      /\ Head(queue).kind = "REQ" => Head(queue).rid \notin seen
  BY <1>1 DEF RegisteredOnce, CreditsAreOfSeen, QueuedOnce
<1>6. QED
  BY <1>2, <1>3, <1>4, <1>5 DEF Replies

LEMMA SendsAppend ==
  ASSUME StateOK, NEW k \in FrameKinds, NEW r \in Requests, Queues(Message(k, r))
  PROVE  \A i \in DOMAIN queue' :
           \/ i \in DOMAIN queue /\ queue'[i] = queue[i]
           \/ i \notin DOMAIN queue /\ i = Len(queue) + 1
                /\ queue'[i].kind = k /\ queue'[i].rid = r
<1>1. Message(k, r) \in Frames /\ Message(k, r).kind = k /\ Message(k, r).rid = r
  BY MessageFacts
<1>2. QED
  BY <1>1, QueuesFacts DEF Queues

LEMMA HostedIsSeen ==
  ASSUME StateOK, RegisteredOnce, NEW r \in Requests, hosting[r] # "none" \/ got[r] # <<>>
  PROVE  r \in seen
BY DEF RegisteredOnce, NoTraces, Fresh

LEMMA GrantsOfSeen ==
  ASSUME StateOK, RegisteredOnce, NEW r \in Requests, Grants(r)
  PROVE  r \in seen
<1>1. SUFFICES ASSUME got[r] = <<>> PROVE FALSE
  BY HostedIsSeen
<1>2. {i \in DOMAIN got[r] : got[r][i] = "CHUNK"} = {}
  BY <1>1
<1>3. Consumed(r) = 0
  BY <1>2, FS_EmptySet DEF Consumed
<1>4. granted[r] \in 0..MaxGrants
  BY DEF StateOK, TypeOK
<1>5. QED
  BY <1>3, <1>4, Capacities DEF Grants

LEMMA NoTracesStep ==
  ASSUME StateOK, RegisteredOnce, [Next]_vars
  PROVE  NoTraces'
<1>0. NoTraces /\ Live \subseteq seen
  BY DEF RegisteredOnce, StateOK, TypeOK
<1>1. ASSUME UNCHANGED <<got, hosting, misplaced, queue, seen>> PROVE NoTraces'
  BY <1>0, <1>1 DEF NoTraces, Fresh
<1>2. ASSUME NEW r \in FromEngine, SendAdmitted(r) PROVE NoTraces'
  <2>1. UNCHANGED <<got, misplaced, queue>> /\ r \in Requests
    BY <1>2 DEF SendAdmitted, FromEngine
  <2>2. /\ seen \subseteq seen'
        /\ \A q \in Requests \ seen' : hosting'[q] = hosting[q]
    <3>1. CASE UNCHANGED <<seen, hosting>>
      BY <3>1
    <3>2. ASSUME NEW m, Register(r, m), Serve(r, m)
          PROVE  /\ seen \subseteq seen'
                 /\ \A q \in Requests \ seen' : hosting'[q] = hosting[q]
      BY <3>2 DEF Register, Serve, StateOK, TypeOK
    <3>3. QED
      BY <1>2, <3>1, <3>2 DEF SendAdmitted
  <2>3. QED
    BY <1>0, <2>1, <2>2, FreshStays
<1>3. ASSUME NEW r \in Requests, Cancel(r) PROVE NoTraces'
  <2>1. UNCHANGED <<got, misplaced, queue, seen>> /\ hosting' = ToldToCancel(Doomed(r))
    BY <1>3 DEF Cancel
  <2>2. \A q \in Requests \ seen : hosting[q] = "none"
    BY <1>0 DEF NoTraces, Fresh
  <2>3. \A q \in Requests \ seen : hosting'[q] = hosting[q]
    BY <2>1, <2>2 DEF ToldToCancel
  <2>4. QED
    BY <1>0, <2>1, <2>3, FreshStays
<1>4. ASSUME NEW r \in Requests, NEW k \in FrameKinds, Queues(Message(k, r)),
             k \in Replies => r \in seen,
             UNCHANGED <<got, misplaced, seen>>,
             \A q \in Requests \ seen : hosting'[q] = hosting[q]
      PROVE  NoTraces'
  <2>1. \A i \in DOMAIN queue' : queue'[i].kind \in Replies =>
          queue'[i].rid \in seen \/ \E j \in DOMAIN queue : queue[j] = queue'[i]
    BY <1>4, SendsAppend
  <2>2. QED
    BY <1>0, <1>4, <2>1, FreshStays
<1>5. ASSUME NEW r \in Requests, SendChunk(r) PROVE NoTraces'
  <2>1. r \in seen
    BY <1>5, HostedIsSeen DEF SendChunk, Hosted
  <2>2. QED
    BY <1>4, <1>5, <2>1 DEF SendChunk, historyVars, FrameKinds
<1>6. ASSUME NEW r \in Requests, SendTerminal(r) PROVE NoTraces'
  <2>1. r \in seen
    BY <1>6, HostedIsSeen DEF SendTerminal, Hosted
  <2>2. \A q \in Requests \ seen : hosting'[q] = hosting[q]
    BY <1>6, <2>1 DEF SendTerminal, StateOK, TypeOK
  <2>3. QED
    BY <1>4, <1>6, <2>1, <2>2 DEF SendTerminal, historyVars, FrameKinds
<1>7. ASSUME NEW r \in Requests, CallPeer(r) \/ SendPeerCredit(r) \/ SendPeerCancel(r)
      PROVE  NoTraces'
  BY <1>4, <1>7
  DEF CallPeer, SendPeerCredit, SendPeerCancel, hostVars, historyVars, FrameKinds, Replies
<1>8. ASSUME NEW m \in Masters, Disconnect(m) PROVE NoTraces'
  <2>1. \A i \in DOMAIN queue' : queue'[i].kind \in Replies =>
          \E j \in DOMAIN queue : queue[j] = queue'[i]
    <3>1. Eof(m) \in Frames /\ Eof(m).kind \notin Replies
      BY DEF Eof, Frames, Replies
    <3>2. QED
      BY <1>8, <3>1, QueuesFacts DEF Disconnect
  <2>2. \A q \in Requests \ seen : hosting'[q] = hosting[q]
    BY <1>0, <1>8 DEF Disconnect, NoTraces, Fresh
  <2>3. QED
    BY <1>0, <1>8, <2>1, <2>2, FreshStays DEF Disconnect, historyVars
<1>9. CASE HandleRequest
  <2>1. /\ \A i \in DOMAIN queue' : \E j \in DOMAIN queue : queue[j] = queue'[i]
        /\ Head(queue).rid \in Requests /\ Takes
    BY <1>9, TakenOf DEF HandleRequest
  <2>2. /\ seen \subseteq seen'
        /\ \A q \in Requests \ seen' : hosting'[q] = hosting[q]
    <3>1. CASE UNCHANGED <<seen, hosting>>
      BY <3>1
    <3>2. ASSUME NEW m, Register(Head(queue).rid, m), Serve(Head(queue).rid, m)
          PROVE  /\ seen \subseteq seen'
                 /\ \A q \in Requests \ seen' : hosting'[q] = hosting[q]
      BY <3>2 DEF Register, Serve, StateOK, TypeOK
    <3>3. QED
      BY <1>9, <3>1, <3>2 DEF HandleRequest
  <2>3. UNCHANGED <<got, misplaced>>
    BY <1>9 DEF HandleRequest
  <2>4. QED
    BY <1>0, <2>1, <2>2, <2>3, FreshStays
<1>10. CASE HandleReply \/ HandleCredit
  <2> DEFINE r == Head(queue).rid
  <2>1. /\ \A i \in DOMAIN queue' : \E j \in DOMAIN queue : queue[j] = queue'[i]
        /\ r \in Requests /\ r \in seen
    BY <1>10, TakenOf DEF HandleReply, HandleCredit, Replies
  <2>2. UNCHANGED <<hosting, seen>>
    BY <1>10 DEF HandleReply, HandleCredit, hostVars
  <2>3. \A q \in misplaced' : q \in misplaced \/ q = r
    BY <1>10 DEF HandleReply, HandleCredit, Unrouted
  <2>4. \A q \in Requests : q # r => got'[q] = got[q]
    BY <1>10 DEF HandleReply, HandleCredit, Delivered, StateOK, TypeOK
  <2> HIDE DEF r
  <2>5. QED
    BY <1>0, <2>1, <2>2, <2>3, <2>4, FreshStays
<1>11. CASE HandleCancel
  <2>1. \A i \in DOMAIN queue' : \E j \in DOMAIN queue : queue[j] = queue'[i]
    BY <1>11, TakenOf DEF HandleCancel
  <2>2. UNCHANGED <<got, misplaced, seen>> /\ hosting' = ToldToCancel({Head(queue).rid} \cap Live)
    BY <1>11 DEF HandleCancel, historyVars
  <2>3. \A q \in Requests \ seen : hosting[q] = "none"
    BY <1>0 DEF NoTraces, Fresh
  <2>4. \A q \in Requests \ seen : hosting'[q] = hosting[q]
    BY <2>2, <2>3 DEF ToldToCancel
  <2>5. QED
    BY <1>0, <2>1, <2>2, <2>4, FreshStays
<1>12. CASE HandleEof
  <2>1. \A i \in DOMAIN queue' : \E j \in DOMAIN queue : queue[j] = queue'[i]
    BY <1>12, TakenOf DEF HandleEof
  <2>2. UNCHANGED <<hosting, misplaced, seen>>
    BY <1>12 DEF HandleEof, hostVars
  <2>3. \A q \in Requests \ seen : got'[q] = got[q]
    BY <1>0, <1>12 DEF HandleEof, Death, RoutedTo
  <2>4. QED
    BY <1>0, <2>1, <2>2, <2>3, FreshStays
<1>13. ASSUME NEW r \in FromEngine, Resolve(r) \/ Acquire(r) \/ Grant(r) PROVE NoTraces'
  BY <1>1, <1>13 DEF Resolve, Acquire, Grant, hostVars, historyVars
<1>14. ASSUME NEW m \in Masters, Notify(m) \/ Attach(m) PROVE NoTraces'
  BY <1>1, <1>14 DEF Notify, Attach, hostVars, historyVars
<1>15. CASE ProbeAnswered \/ ProbeConcludes
  BY <1>1, <1>15 DEF ProbeAnswered, ProbeConcludes, hostVars, historyVars
<1>16. CASE UNCHANGED vars
  BY <1>1, <1>16 DEF vars, hostVars, historyVars
<1>17. QED
  BY <1>2, <1>3, <1>5, <1>6, <1>7, <1>8, <1>9, <1>10, <1>11, <1>12, <1>13, <1>14, <1>15, <1>16
  DEF Next, Handle
(* What a step does to the requests that were registered.                  *)
LEMMA SeenStep ==
  ASSUME StateOK, RegisteredOnce, [Next]_vars
  PROVE  \/ seen' = seen
         \/ \E r \in FromEngine : SendAdmitted(r) /\ seen' = seen \cup {r}
         \/ HandleRequest /\ seen' = seen \cup {Head(queue).rid}
<1>1. ASSUME NEW r \in FromEngine, SendAdmitted(r)
      PROVE  seen' = seen \/ seen' = seen \cup {r}
  BY <1>1 DEF SendAdmitted, Register
<1>2. CASE HandleRequest
  BY <1>2 DEF HandleRequest, Register
<1>3. ASSUME NEW r \in FromEngine, Resolve(r) \/ Acquire(r) \/ Grant(r) PROVE seen' = seen
  BY <1>3 DEF Resolve, Acquire, Grant, historyVars
<1>4. ASSUME NEW r \in Requests,
             Cancel(r) \/ SendChunk(r) \/ SendTerminal(r) \/ CallPeer(r)
               \/ SendPeerCredit(r) \/ SendPeerCancel(r)
      PROVE  seen' = seen
  BY <1>4
  DEF Cancel, SendChunk, SendTerminal, CallPeer, SendPeerCredit, SendPeerCancel, historyVars
<1>5. ASSUME NEW m \in Masters, Notify(m) \/ Disconnect(m) \/ Attach(m) PROVE seen' = seen
  BY <1>5 DEF Notify, Disconnect, Attach, historyVars
<1>6. CASE ProbeAnswered \/ ProbeConcludes \/ UNCHANGED vars
  BY <1>6 DEF ProbeAnswered, ProbeConcludes, vars, historyVars
<1>7. CASE HandleReply \/ HandleCredit \/ HandleCancel \/ HandleEof
  BY <1>7 DEF HandleReply, HandleCredit, HandleCancel, HandleEof, historyVars
<1>8. QED
  BY <1>1, <1>2, <1>3, <1>4, <1>5, <1>6, <1>7 DEF Next, Handle

LEMMA SentOnceStep ==
  ASSUME StateOK, RegisteredOnce, [Next]_vars
  PROVE  SentOnce'
<1>0. SentOnce /\ pc \in [FromEngine -> {"idle", "resolved", "admitted", "sent", "failed"}]
  BY DEF RegisteredOnce, StateOK, TypeOK
<1>1. CASE seen' = seen
  <2>1. ASSUME NEW r \in FromEngine, Resolve(r) \/ Acquire(r) \/ SendAdmitted(r)
        PROVE  SentOnce'
    BY <1>0, <1>1, <2>1 DEF SentOnce, Resolve, Acquire, SendAdmitted
  <2>2. ASSUME pc' = pc PROVE SentOnce'
    BY <1>0, <1>1, <2>2 DEF SentOnce
  <2>3. ASSUME NEW r \in FromEngine, Grant(r) PROVE SentOnce'
    BY <2>2, <2>3 DEF Grant, engineVars
  <2>4. ASSUME NEW r \in Requests,
               Cancel(r) \/ SendChunk(r) \/ SendTerminal(r) \/ CallPeer(r)
                 \/ SendPeerCredit(r) \/ SendPeerCancel(r)
        PROVE  SentOnce'
    BY <2>2, <2>4
    DEF Cancel, SendChunk, SendTerminal, CallPeer, SendPeerCredit, SendPeerCancel, engineVars
  <2>5. ASSUME NEW m \in Masters, Notify(m) \/ Disconnect(m) \/ Attach(m) PROVE SentOnce'
    BY <2>2, <2>5 DEF Notify, Disconnect, Attach, engineVars
  <2>6. CASE ProbeAnswered \/ ProbeConcludes \/ Handle \/ UNCHANGED vars
    BY <2>2, <2>6 DEF ProbeAnswered, ProbeConcludes, Handle, HandleRequest, HandleReply,
                      HandleCredit, HandleCancel, HandleEof, vars, engineVars
  <2>7. QED
    BY <2>1, <2>3, <2>4, <2>5, <2>6 DEF Next
<1>2. ASSUME NEW r \in FromEngine, SendAdmitted(r), seen' = seen \cup {r} PROVE SentOnce'
  <2>1. \A q \in FromEngine : pc'[q] = IF q = r THEN pc'[r] ELSE pc[q]
    BY <1>0, <1>2 DEF SendAdmitted
  <2>2. pc'[r] \in {"sent", "failed"}
    BY <1>0, <1>2 DEF SendAdmitted
  <2>3. QED
    BY <1>0, <1>2, <2>1, <2>2 DEF SentOnce
<1>3. CASE HandleRequest /\ seen' = seen \cup {Head(queue).rid}
  <2>1. Head(queue).rid \notin FromEngine
    <3>1. 1 \in DOMAIN queue /\ queue[1] = Head(queue) /\ queue[1].kind = "REQ"
      BY <1>3, TakesFacts DEF HandleRequest
    <3>2. QED
      BY <3>1 DEF RegisteredOnce, QueuedOnce, FromEngine
  <2>2. pc' = pc
    BY <1>3 DEF HandleRequest, engineVars
  <2>3. QED
    BY <1>0, <1>3, <2>1, <2>2 DEF SentOnce
<1>4. QED
  BY <1>1, <1>2, <1>3, SeenStep

(* Only the call of a peer sets where it came from.                        *)
LEMMA OriginStep ==
  ASSUME StateOK, [Next]_vars
  PROVE  \/ origin' = origin
         \/ \E r \in Requests : CallPeer(r)
<1>1. ASSUME NEW r \in FromEngine, Resolve(r) \/ Acquire(r) \/ SendAdmitted(r) \/ Grant(r)
      PROVE  origin' = origin
  BY <1>1 DEF Resolve, Acquire, SendAdmitted, Grant, hostVars
<1>2. ASSUME NEW r \in Requests,
             Cancel(r) \/ SendChunk(r) \/ SendTerminal(r) \/ SendPeerCredit(r) \/ SendPeerCancel(r)
      PROVE  origin' = origin
  BY <1>2 DEF Cancel, SendChunk, SendTerminal, SendPeerCredit, SendPeerCancel, hostVars
<1>3. ASSUME NEW m \in Masters, Notify(m) \/ Disconnect(m) \/ Attach(m) PROVE origin' = origin
  BY <1>3 DEF Notify, Disconnect, Attach, hostVars
<1>4. CASE ProbeAnswered \/ ProbeConcludes \/ UNCHANGED vars
  BY <1>4 DEF ProbeAnswered, ProbeConcludes, vars, hostVars
<1>5. CASE Handle
  BY <1>5
  DEF Handle, HandleRequest, HandleReply, HandleCredit, HandleCancel, HandleEof, hostVars
<1>6. QED
  BY <1>1, <1>2, <1>3, <1>4, <1>5 DEF Next

LEMMA CallFacts ==
  ASSUME StateOK, RegisteredOnce, NEW r \in Requests, CallPeer(r)
  PROVE  /\ Parent[r] # Engine /\ origin[r] = NoMaster /\ r \notin seen
         /\ origin' \in [Requests -> Masters \cup {NoMaster}]
         /\ origin'[r] # NoMaster /\ \A q \in Requests : q # r => origin'[q] = origin[q]
         /\ Queues(Message("REQ", r)) /\ "REQ" \in FrameKinds
         /\ UNCHANGED <<seen, got, pc, table>>
<1>1. Parent[r] # Engine /\ origin[r] = NoMaster /\ Hosted(Parent[r])
  BY DEF CallPeer, Calls
<1>2. r \notin seen
  BY <1>1 DEF RegisteredOnce, CalledOnce
<1>3. dest[Parent[r]] \in Masters
  BY <1>1 DEF Hosted, StateOK, TypeOK
<1>4. origin' = [origin EXCEPT ![r] = dest[Parent[r]]]
  BY DEF CallPeer
<1>5. QED
  BY <1>1, <1>2, <1>3, <1>4, Capacities
  DEF StateOK, TypeOK, CallPeer, FrameKinds, historyVars, engineVars, entryVars

LEMMA CalledOnceStep ==
  ASSUME StateOK, RegisteredOnce, [Next]_vars
  PROVE  CalledOnce'
<1>0. CalledOnce
  BY DEF RegisteredOnce
<1>1. ASSUME NEW r \in Requests, CallPeer(r) PROVE CalledOnce'
  BY <1>0, <1>1, CallFacts DEF CalledOnce
<1>2. CASE origin' = origin
  <2>1. CASE seen' = seen
    BY <1>0, <1>2, <2>1 DEF CalledOnce
  <2>2. ASSUME NEW r \in FromEngine, seen' = seen \cup {r} PROVE CalledOnce'
    BY <1>0, <1>2, <2>2 DEF CalledOnce, FromEngine
  <2>3. CASE HandleRequest /\ seen' = seen \cup {Head(queue).rid}
    <3>1. 1 \in DOMAIN queue /\ queue[1] = Head(queue) /\ queue[1].kind = "REQ"
      BY <2>3, TakesFacts DEF HandleRequest
    <3>2. origin[Head(queue).rid] # NoMaster
      BY <3>1 DEF RegisteredOnce, QueuedOnce
    <3>3. QED
      BY <1>0, <1>2, <2>3, <3>2 DEF CalledOnce
  <2>4. QED
    BY <2>1, <2>2, <2>3, SeenStep
<1>3. QED
  BY <1>1, <1>2, OriginStep

(* A step queues a REQ for a call and a CREDIT for a response that has     *)
(* begun, or only takes the head.                                          *)
LEMMA QueueStepFacts ==
  ASSUME StateOK, RegisteredOnce, [Next]_vars
  PROVE  \/ queue' = queue
         \/ Takes /\ Handle
         \/ \E r \in Requests : CallPeer(r)
         \/ \E r \in Requests : Queues(Message("CREDIT", r)) /\ r \in seen
         \/ \E f \in Frames : f.kind \notin {"REQ", "CREDIT"} /\ queue' = Append(queue, f)
<1>1. ASSUME NEW r \in FromEngine, Resolve(r) \/ Acquire(r) \/ SendAdmitted(r) \/ Grant(r)
      PROVE  queue' = queue
  BY <1>1 DEF Resolve, Acquire, SendAdmitted, Grant
<1>2. ASSUME NEW r \in Requests, SendChunk(r) \/ SendTerminal(r) \/ SendPeerCancel(r)
      PROVE  \E f \in Frames : f.kind \notin {"REQ", "CREDIT"} /\ queue' = Append(queue, f)
  <2>1. PICK k \in {"CHUNK", "END", "ERR", "CANCEL"} : queue' = Append(queue, Message(k, r))
    BY <1>2 DEF SendChunk, SendTerminal, SendPeerCancel, Queues
  <2>2. k \in FrameKinds
    BY <2>1 DEF FrameKinds
  <2>3. Message(k, r) \in Frames /\ Message(k, r).kind = k
    BY <2>2, MessageFacts
  <2>4. k \notin {"REQ", "CREDIT"}
    BY <2>1
  <2>5. QED
    BY <2>1, <2>3, <2>4
<1>3. ASSUME NEW r \in Requests, SendPeerCredit(r)
      PROVE  Queues(Message("CREDIT", r)) /\ r \in seen
  BY <1>3, GrantsOfSeen DEF SendPeerCredit
<1>4. ASSUME NEW m \in Masters, Disconnect(m)
      PROVE  \E f \in Frames : f.kind \notin {"REQ", "CREDIT"} /\ queue' = Append(queue, f)
  <2>1. Eof(m) \in Frames /\ Eof(m).kind = "EOF" /\ queue' = Append(queue, Eof(m))
    BY <1>4 DEF Eof, Frames, Disconnect
  <2>2. QED
    BY <2>1
<1>5. ASSUME NEW m \in Masters, Notify(m) \/ Attach(m) PROVE queue' = queue
  BY <1>5 DEF Notify, Attach
<1>6. CASE ProbeAnswered \/ ProbeConcludes \/ UNCHANGED vars \/ (\E r \in Requests : Cancel(r))
  BY <1>6 DEF ProbeAnswered, ProbeConcludes, vars, Cancel
<1>7. Handle => Takes
  BY DEF Handle, HandleRequest, HandleReply, HandleCredit, HandleCancel, HandleEof
<1> HIDE DEF Frames
<1>8. QED
  BY <1>1, <1>2, <1>3, <1>4, <1>5, <1>6, <1>7 DEF Next

LEMMA CreditsStep ==
  ASSUME StateOK, RegisteredOnce, [Next]_vars
  PROVE  CreditsAreOfSeen'
<1>0. CreditsAreOfSeen
  BY DEF RegisteredOnce
<1>1. seen \subseteq seen'
  BY SeenStep
<1>2. CASE queue' = queue
  BY <1>0, <1>1, <1>2 DEF CreditsAreOfSeen
<1>3. CASE Takes
  BY <1>0, <1>1, <1>3, TakenOf DEF CreditsAreOfSeen
<1>4. ASSUME NEW r \in Requests, CallPeer(r) PROVE CreditsAreOfSeen'
  BY <1>0, <1>1, <1>4, CallFacts, SendsAppend DEF CreditsAreOfSeen
<1>5. ASSUME NEW r \in Requests, Queues(Message("CREDIT", r)), r \in seen PROVE CreditsAreOfSeen'
  BY <1>0, <1>1, <1>5, SendsAppend DEF CreditsAreOfSeen, FrameKinds
<1>6. ASSUME NEW f \in Frames, f.kind \notin {"REQ", "CREDIT"}, queue' = Append(queue, f)
      PROVE  CreditsAreOfSeen'
  BY <1>0, <1>1, <1>6, QueuesFacts DEF CreditsAreOfSeen
<1>7. QED
  BY <1>2, <1>3, <1>4, <1>5, <1>6, QueueStepFacts

LEMMA QueuedOnceStep ==
  ASSUME StateOK, RegisteredOnce, [Next]_vars
  PROVE  QueuedOnce'
<1>0. QueuedOnce
  BY DEF RegisteredOnce
<1> DEFINE IsReq(i) == queue[i].kind = "REQ"
<1>1. ASSUME NEW r \in Requests, CallPeer(r) PROVE QueuedOnce'
  <2>1. /\ Parent[r] # Engine /\ origin[r] = NoMaster /\ r \notin seen
        /\ origin'[r] # NoMaster /\ \A q \in Requests : q # r => origin'[q] = origin[q]
        /\ Queues(Message("REQ", r)) /\ "REQ" \in FrameKinds /\ seen' = seen
    BY <1>1, CallFacts
  <2>2. \A i \in DOMAIN queue' :
           \/ i \in DOMAIN queue /\ queue'[i] = queue[i]
           \/ i \notin DOMAIN queue /\ i = Len(queue) + 1
                /\ queue'[i].kind = "REQ" /\ queue'[i].rid = r
    BY <2>1, SendsAppend
  <2>3. \A i \in DOMAIN queue : queue[i].kind = "REQ" =>
          queue[i].rid # r /\ queue[i].rid \in Requests
    <3>1. queue \in Seq(Frames)
      BY DEF StateOK
    <3>2. \A i \in DOMAIN queue : queue[i] \in Frames
      BY <3>1
    <3>3. QED
      BY <1>0, <2>1, <3>2, FrameFacts DEF QueuedOnce
  <2>4. QED
    BY <1>0, <2>1, <2>2, <2>3 DEF QueuedOnce
<1>2. ASSUME origin' = origin, seen' = seen, NEW f, NEW n, n \notin DOMAIN queue,
             f.kind # "REQ",
             \A i \in DOMAIN queue' :
               \/ i \in DOMAIN queue /\ queue'[i] = queue[i]
               \/ i = n /\ queue'[i] = f
      PROVE  QueuedOnce'
  BY <1>0, <1>2 DEF QueuedOnce
<1>3. ASSUME origin' = origin, queue' = queue, seen' = seen PROVE QueuedOnce'
  BY <1>0, <1>3 DEF QueuedOnce
<1>4. ASSUME origin' = origin, Takes,
             seen' = seen \/ (Head(queue).kind = "REQ" /\ seen' = seen \cup {Head(queue).rid})
      PROVE  QueuedOnce'
  <2>1. /\ 1 \in DOMAIN queue /\ queue[1] = Head(queue)
        /\ \A i \in DOMAIN queue' :
             i \in Nat \ {0} /\ i + 1 \in DOMAIN queue /\ queue'[i] = queue[i + 1]
    BY <1>4, TakesFacts
  <2>2. ASSUME NEW i \in DOMAIN queue', queue'[i].kind = "REQ"
        PROVE  /\ queue'[i].rid \notin seen'
               /\ Parent[queue'[i].rid] # Engine /\ origin'[queue'[i].rid] # NoMaster
    <3>1. i + 1 \in DOMAIN queue /\ queue'[i] = queue[i + 1] /\ i + 1 # 1
      BY <2>1
    <3>2. Head(queue).kind = "REQ" => queue[i + 1].rid # Head(queue).rid
      BY <1>0, <2>1, <2>2, <3>1 DEF QueuedOnce
    <3>3. QED
      BY <1>0, <1>4, <2>2, <3>1, <3>2 DEF QueuedOnce
  <2>3. ASSUME NEW i \in DOMAIN queue', NEW j \in DOMAIN queue', queue'[i].kind = "REQ",
               queue'[j].kind = "REQ", queue'[j].rid = queue'[i].rid
        PROVE  j = i
    <3>1. i \in Nat /\ j \in Nat /\ i + 1 \in DOMAIN queue /\ j + 1 \in DOMAIN queue
          /\ queue'[i] = queue[i + 1] /\ queue'[j] = queue[j + 1]
      BY <2>1
    <3>2. j + 1 = i + 1
      BY <1>0, <2>3, <3>1 DEF QueuedOnce
    <3>3. QED
      BY <3>1, <3>2
  <2>4. QED
    BY <2>2, <2>3 DEF QueuedOnce
<1>5. ASSUME NEW r \in FromEngine, SendAdmitted(r), seen' = seen \cup {r} PROVE QueuedOnce'
  <2>1. UNCHANGED <<queue, origin>>
    BY <1>5 DEF SendAdmitted
  <2>2. Parent[r] = Engine
    BY DEF FromEngine
  <2>3. QED
    BY <1>0, <1>5, <2>1, <2>2 DEF QueuedOnce
<1>6. CASE HandleRequest /\ seen' = seen \cup {Head(queue).rid}
  BY <1>4, <1>6 DEF HandleRequest
<1>7. CASE seen' = seen /\ origin' = origin
  <2>1. CASE Takes
    BY <1>4, <1>7, <2>1
  <2>2. CASE queue' = queue
    BY <1>3, <1>7, <2>2
  <2>3. ASSUME NEW r \in Requests, Queues(Message("CREDIT", r)) PROVE QueuedOnce'
    <3>1. Message("CREDIT", r) \in Frames /\ Message("CREDIT", r).kind # "REQ"
      BY MessageFacts DEF FrameKinds
    <3>2. queue' = Append(queue, Message("CREDIT", r))
      BY <2>3 DEF Queues
    <3>3. QED
      BY <1>2, <1>7, <3>1, <3>2, QueuesFacts
  <2>4. ASSUME NEW f \in Frames, f.kind \notin {"REQ", "CREDIT"}, queue' = Append(queue, f)
        PROVE  QueuedOnce'
    BY <1>2, <1>7, <2>4, QueuesFacts
  <2>5. QED
    BY <1>1, <2>1, <2>2, <2>3, <2>4, QueueStepFacts
<1>8. QED
  BY <1>1, <1>5, <1>6, <1>7, OriginStep, SeenStep, CallFacts

LEMMA OnceStep ==
  ASSUME StateOK, RegisteredOnce, [Next]_vars
  PROVE  RegisteredOnce'
BY NoTracesStep, SentOnceStep, QueuedOnceStep, CalledOnceStep, CreditsStep DEF RegisteredOnce
-----------------------------------------------------------------------------
(***************************************************************************)
(* What a step does to the table: it registers one request that was never  *)
(* registered before, or ends some of the live ones.                       *)
(***************************************************************************)
Registers(r) == r \notin seen /\ seen' = seen \cup {r} /\ \E m : Register(r, m)

LEMMA SendAdmittedFacts ==
  ASSUME StateOK, RegisteredOnce, NEW r \in FromEngine, SendAdmitted(r)
  PROVE  /\ r \in Requests /\ r \notin seen /\ Parent[r] = Engine
         /\ UNCHANGED <<reading, queue, linked, origin, got, misplaced, cancelled>>
         /\ \/ /\ pc' = [pc EXCEPT ![r] = "failed"] /\ slot' = [slot EXCEPT ![r] = NoMaster]
               /\ UNCHANGED <<table, dest, ledger, seen, hosting, window>>
            \/ \E m \in Masters :
                 /\ Register(r, m) /\ Serve(r, m) /\ Registers(r)
                 /\ pc' = [pc EXCEPT ![r] = IF m \in reading THEN "sent" ELSE "failed"]
                 /\ slot' = [slot EXCEPT ![r] = IF m \in reading THEN @ ELSE NoMaster]
<1>1. r \in Requests /\ Parent[r] = Engine /\ r \notin seen
  BY DEF FromEngine, RegisteredOnce, SentOnce, SendAdmitted
<1>2. UNCHANGED <<reading, queue, linked, origin, got, misplaced, cancelled>>
  BY DEF SendAdmitted, slotVars
<1>3. \A m \in Routable(r) : m \in Masters
  BY DEF Routable, StateOK, TypeOK
<1>4. \A m : Register(r, m) => Registers(r)
  BY <1>1 DEF Register, Registers
<1>5. QED
  BY <1>1, <1>2, <1>3, <1>4 DEF SendAdmitted

LEMMA HandleRequestFacts ==
  ASSUME StateOK, RegisteredOnce, HandleRequest
  PROVE  LET r == Head(queue).rid IN
         /\ r \in Requests /\ r \notin seen /\ Parent[r] # Engine /\ Head(queue).kind = "REQ"
         /\ UNCHANGED <<reading, slot, pc, origin, got, misplaced, cancelled>>
         /\ \/ UNCHANGED <<table, dest, linked, ledger, seen, hosting, window>>
            \/ \E m \in Masters :
                 /\ Register(r, m) /\ Serve(r, m) /\ Registers(r)
                 /\ linked' = IF Parent[r] \in Live THEN linked \cup {r} ELSE linked
<1> DEFINE r == Head(queue).rid
<1>1. /\ 1 \in DOMAIN queue /\ queue[1] = Head(queue) /\ queue[1].kind = "REQ" /\ r \in Requests
      /\ r \notin seen
  BY TakesFacts, TakenOf DEF HandleRequest
<1>2. Parent[r] # Engine
  BY <1>1 DEF RegisteredOnce, QueuedOnce
<1>3. UNCHANGED <<reading, slot, pc, origin, got, misplaced, cancelled>>
  BY DEF HandleRequest, slotVars, engineVars
<1>4. \A m \in Routable(r) : m \in Masters
  BY DEF Routable, StateOK, TypeOK
<1>5. \A m : Register(r, m) => Registers(r)
  BY <1>1 DEF Register, Registers
<1>6. \/ UNCHANGED <<table, dest, linked, ledger, seen, hosting, window>>
      \/ \E m \in Routable(r) :
           /\ Register(r, m)
           /\ linked' = IF Parent[r] \in Live THEN linked \cup {r} ELSE linked
           /\ Serve(r, m)
  BY DEF HandleRequest
<1> HIDE DEF r
<1>7. \/ UNCHANGED <<table, dest, linked, ledger, seen, hosting, window>>
      \/ \E m \in Masters :
           /\ Register(r, m) /\ Serve(r, m) /\ Registers(r)
           /\ linked' = IF Parent[r] \in Live THEN linked \cup {r} ELSE linked
  BY <1>4, <1>5, <1>6
<1>8. QED
  BY <1>1, <1>2, <1>3, <1>7 DEF r

(* A reply of a live request, and one of a request that has ended.         *)
LEMMA HandleReplyFacts ==
  ASSUME StateOK, RegisteredOnce, HandleReply
  PROVE  LET r == Head(queue).rid
             kind == Head(queue).kind IN
         /\ r \in Requests /\ r \in seen /\ kind \in Replies
         /\ UNCHANGED <<reading, dest, linked, pc, origin, hosting, window, cancelled, seen>>
         /\ \/ /\ r \in Live /\ misplaced' = misplaced /\ Delivered(r, kind)
               /\ ledger' = [ledger EXCEPT ![r] = IF kind = "CHUNK" THEN @ - 1 ELSE @]
               /\ \/ kind # "CHUNK" /\ EndAll({r}) /\ GivesBack({r})
                  \/ kind = "CHUNK" /\ UNCHANGED <<table, slot>>
            \/ /\ r \notin Live /\ Unrouted(r)
               /\ UNCHANGED <<table, slot, ledger, got>>
<1> DEFINE r == Head(queue).rid
           kind == Head(queue).kind
<1>1. r \in Requests /\ r \in seen /\ kind \in Replies
  BY TakenOf DEF HandleReply, Replies
<1>2. UNCHANGED <<reading, dest, linked, pc, origin, hosting, window, cancelled, seen>>
  BY DEF HandleReply, slotVars, engineVars, hostVars
<1>3. CASE r \notin Live
  <2>1. Unrouted(r) /\ UNCHANGED <<table, slot, ledger, got>>
    BY <1>3, IsLiveFacts DEF HandleReply
  <2>2. QED
    BY <1>1, <1>2, <1>3, <2>1
<1>4. CASE r \in Live
  <2>1. /\ ledger' = [ledger EXCEPT ![r] = Ledger(@, kind, 0)]
        /\ IF TerminalOf(kind) # "none"
           THEN table' = Terminated(table, r, RecentCapacity) /\ GivesBack({r})
           ELSE UNCHANGED <<table, slot>>
        /\ Delivered(r, kind) /\ misplaced' = misplaced
    BY <1>4, IsLiveFacts DEF HandleReply
  <2>2. TerminalOf(kind) # "none" <=> kind # "CHUNK"
    BY <1>1 DEF TerminalOf, Replies
  <2>3. ledger \in [Requests -> Int] /\ ledger[r] \in Int
    BY <1>1 DEF StateOK, TypeOK
  <2>4. Ledger(ledger[r], kind, 0) = IF kind = "CHUNK" THEN ledger[r] - 1 ELSE ledger[r]
    BY <1>1, <2>3, LedgerFacts
  <2>5. ledger' = [ledger EXCEPT ![r] = IF kind = "CHUNK" THEN @ - 1 ELSE @]
    BY <2>1, <2>3, <2>4
  <2>6. kind # "CHUNK" => EndAll({r}) /\ GivesBack({r})
    BY <1>4, <2>1, <2>2, TerminatedIsEndAll
  <2>7. kind = "CHUNK" => UNCHANGED <<table, slot>>
    BY <2>1, <2>2
  <2>8. QED
    BY <1>1, <1>2, <1>4, <2>1, <2>5, <2>6, <2>7
<1>5. QED
  BY <1>3, <1>4

LEMMA HandleEofFacts ==
  ASSUME StateOK, HandleEof
  PROVE  LET m == Head(queue).from IN
         /\ UNCHANGED <<reading, dest, linked, ledger, pc, origin, hosting, window, misplaced,
                        cancelled, seen>>
         /\ \/ EndAll(RoutedTo(m)) /\ GivesBack(RoutedTo(m)) /\ Death(m)
            \/ UNCHANGED <<table, slot, got>>
         /\ RoutedTo(m) \in SUBSET Live
<1>1. UNCHANGED <<reading, dest, linked, ledger, pc, origin, hosting, window, misplaced,
                  cancelled, seen>>
  BY DEF HandleEof, engineVars, hostVars
<1>2. \A m : Death(m) => EndAll(RoutedTo(m)) /\ GivesBack(RoutedTo(m))
  BY DEF Death
<1>3. \A m : RoutedTo(m) \in SUBSET Live
  BY DEF RoutedTo
<1>4. Death(Head(queue).from) \/ UNCHANGED <<table, slot, got>>
  BY DEF HandleEof
<1>5. QED
  BY <1>1, <1>2, <1>3, <1>4

LEMMA CancelFacts ==
  ASSUME StateOK, NEW r \in Requests, Cancel(r)
  PROVE  /\ r \in Live /\ Doomed(r) \in SUBSET Live /\ EndAll(Doomed(r)) /\ GivesBack(Doomed(r))
         /\ hosting' = ToldToCancel(Doomed(r)) /\ cancelled' = cancelled \cup {r}
         /\ UNCHANGED <<reading, queue, dest, linked, ledger, pc, origin, window, got, misplaced,
                        seen>>
<1>1. Doomed(r) \in SUBSET Live
  BY DEF Doomed
<1>2. QED
  BY <1>1 DEF Cancel, slotVars, engineVars

(* Every other step leaves the table and all that depends on it.           *)
Elsewhere ==
  /\ UNCHANGED <<table, seen, dest, linked, cancelled, got>>

LEMMA ElsewhereFacts ==
  ASSUME [Next]_vars
  PROVE  \/ \E r \in FromEngine : SendAdmitted(r)
         \/ \E r \in Requests : Cancel(r)
         \/ HandleRequest \/ HandleReply \/ HandleEof
         \/ Elsewhere /\ UNCHANGED <<misplaced>>
         \/ Elsewhere /\ HandleCredit
<1>1. ASSUME NEW r \in FromEngine, Resolve(r) \/ Acquire(r) \/ Grant(r)
      PROVE  Elsewhere /\ UNCHANGED misplaced
  BY <1>1 DEF Resolve, Acquire, Grant, Elsewhere, entryVars, historyVars
<1>2. ASSUME NEW r \in Requests,
             SendChunk(r) \/ SendTerminal(r) \/ CallPeer(r) \/ SendPeerCredit(r) \/ SendPeerCancel(r)
      PROVE  Elsewhere /\ UNCHANGED misplaced
  BY <1>2 DEF SendChunk, SendTerminal, CallPeer, SendPeerCredit, SendPeerCancel, Elsewhere,
              entryVars, historyVars
<1>3. ASSUME NEW m \in Masters, Notify(m) \/ Disconnect(m) \/ Attach(m)
      PROVE  Elsewhere /\ UNCHANGED misplaced
  BY <1>3 DEF Notify, Disconnect, Attach, Elsewhere, entryVars, historyVars
<1>4. CASE ProbeAnswered \/ ProbeConcludes \/ HandleCancel \/ UNCHANGED vars
  <2>1. Elsewhere /\ UNCHANGED misplaced
    BY <1>4 DEF ProbeAnswered, ProbeConcludes, HandleCancel, vars, Elsewhere, entryVars, historyVars
  <2>2. QED
    BY <2>1
<1>5. HandleCredit => Elsewhere
  BY DEF HandleCredit, Elsewhere
<1>6. QED
  BY <1>1, <1>2, <1>3, <1>4, <1>5 DEF Next, Handle
-----------------------------------------------------------------------------
(***************************************************************************)
(* The permits.                                                            *)
(***************************************************************************)
LEMMA RegistersLive ==
  ASSUME StateOK, NEW r \in Requests, Registers(r)
  PROVE  Live' = Live \cup {r} /\ r \notin Live
BY RegisterFacts DEF Registers

LEMMA InitSlots == Init => SlotsHeld
BY DEF Init, SlotsHeld, TableEmpty, Live, LiveRids, FromEngine

(* Ending entries gives their permits back, and no others.                 *)
LEMMA EndsSlots ==
  ASSUME StateOK, RegisteredOnce, SlotsHeld, NEW ends \in SUBSET Live,
         EndAll(ends), GivesBack(ends), pc' = pc
  PROVE  SlotsHeld'
<1>1. Live' = Live \ ends
  BY EndAllFacts
<1>2. \A r \in Requests : slot'[r] = IF r \in ends THEN NoMaster ELSE slot[r]
  BY DEF GivesBack
<1>3. \A r \in FromEngine : r \in Live => pc[r] # "admitted"
  BY DEF RegisteredOnce, SentOnce, StateOK, TypeOK
<1>4. QED
  BY <1>1, <1>2, <1>3 DEF SlotsHeld

LEMMA SlotsStep ==
  ASSUME StateOK, RegisteredOnce, SlotsHeld, [Next]_vars
  PROVE  SlotsHeld'
<1>0. /\ pc \in [FromEngine -> {"idle", "resolved", "admitted", "sent", "failed"}]
      /\ slot \in [Requests -> Masters \cup {NoMaster}]
      /\ target \in [FromEngine -> Masters \cup {NoMaster}]
      /\ available \subseteq Masters
      /\ FromEngine \subseteq Requests
  BY DEF StateOK, TypeOK, FromEngine
<1>1. ASSUME UNCHANGED <<table, slot, pc>> PROVE SlotsHeld'
  BY <1>1 DEF SlotsHeld, Live
<1>2. ASSUME NEW r \in FromEngine, Resolve(r) PROVE SlotsHeld'
  <2>1. /\ UNCHANGED <<table, slot>> /\ pc[r] = "idle"
        /\ pc' = [pc EXCEPT ![r] = "failed"] \/ pc' = [pc EXCEPT ![r] = "resolved"]
    BY <1>2 DEF Resolve, entryVars
  <2>2. Live' = Live
    BY <2>1 DEF Live
  <2>3. QED
    BY <1>0, <2>1, <2>2 DEF SlotsHeld
<1>3. ASSUME NEW r \in FromEngine, Acquire(r) PROVE SlotsHeld'
  <2>1. table' = table /\ pc[r] = "resolved"
    BY <1>3 DEF Acquire
  <2>2. Live' = Live
    BY <2>1 DEF Live
  <2>3. CASE /\ target[r] \in available
             /\ slot' = [slot EXCEPT ![r] = target[r]]
             /\ pc' = [pc EXCEPT ![r] = "admitted"]
    <3>1. target[r] # NoMaster
      BY <1>0, <2>3, Capacities
    <3>2. QED
      BY <1>0, <2>1, <2>2, <2>3, <3>1 DEF SlotsHeld
  <2>4. CASE /\ slot' = slot
             /\ pc' = [pc EXCEPT ![r] = "failed"]
    BY <1>0, <2>1, <2>2, <2>4 DEF SlotsHeld
  <2>5. QED
    BY <1>3, <2>3, <2>4 DEF Acquire
<1>4. ASSUME NEW r \in FromEngine, SendAdmitted(r) PROVE SlotsHeld'
  <2>1. r \in Requests /\ pc[r] = "admitted"
    BY <1>0, <1>4 DEF SendAdmitted
  <2>2. CASE /\ pc' = [pc EXCEPT ![r] = "failed"] /\ slot' = [slot EXCEPT ![r] = NoMaster]
             /\ UNCHANGED <<table, dest, ledger, seen, hosting, window>>
    <3>1. Live' = Live
      BY <2>2 DEF Live
    <3>2. QED
      BY <1>0, <2>1, <2>2, <3>1 DEF SlotsHeld
  <2>3. ASSUME NEW m \in Masters, Registers(r),
               pc' = [pc EXCEPT ![r] = IF m \in reading THEN "sent" ELSE "failed"],
               slot' = [slot EXCEPT ![r] = IF m \in reading THEN @ ELSE NoMaster]
        PROVE  SlotsHeld'
    <3>1. Live' = Live \cup {r}
      BY <2>1, <2>3, RegistersLive
    <3>2. slot[r] # NoMaster
      BY <2>1 DEF SlotsHeld
    <3>3. CASE m \in reading
      <4>1. slot' = slot /\ pc' = [pc EXCEPT ![r] = "sent"]
        BY <1>0, <2>1, <2>3, <3>3
      <4>2. QED
        BY <1>0, <2>1, <3>1, <3>2, <4>1 DEF SlotsHeld
    <3>4. CASE m \notin reading
      <4>1. slot' = [slot EXCEPT ![r] = NoMaster] /\ pc' = [pc EXCEPT ![r] = "failed"]
        BY <2>3, <3>4
      <4>2. QED
        BY <1>0, <2>1, <3>1, <4>1 DEF SlotsHeld
    <3>5. QED
      BY <3>3, <3>4
  <2>4. QED
    BY <1>4, <2>2, <2>3, SendAdmittedFacts
<1>5. ASSUME NEW r \in Requests, Cancel(r) PROVE SlotsHeld'
  BY <1>5, CancelFacts, EndsSlots
<1>6. CASE HandleRequest
  <2> DEFINE r == Head(queue).rid
  <2>1. r \in Requests /\ Parent[r] # Engine /\ UNCHANGED <<slot, pc>>
    BY <1>6, HandleRequestFacts
  <2>2. Live' = Live \/ Live' = Live \cup {r}
    <3>1. table' = table \/ Registers(r)
      BY <1>6, HandleRequestFacts
    <3>2. QED
      BY <2>1, <3>1, RegistersLive DEF Live
  <2>3. QED
    BY <2>1, <2>2 DEF SlotsHeld, FromEngine
<1>7. CASE HandleReply
  <2>1. UNCHANGED <<table, slot, pc>>
          \/ \E ends \in SUBSET Live : EndAll(ends) /\ GivesBack(ends) /\ pc' = pc
    BY <1>7, HandleReplyFacts
  <2>2. QED
    BY <1>1, <2>1, EndsSlots
<1>8. CASE HandleEof
  <2>1. UNCHANGED <<table, slot, pc>>
          \/ \E ends \in SUBSET Live : EndAll(ends) /\ GivesBack(ends) /\ pc' = pc
    BY <1>8, HandleEofFacts
  <2>2. QED
    BY <1>1, <2>1, EndsSlots
<1>9. ASSUME NEW r \in FromEngine, Grant(r) PROVE SlotsHeld'
  BY <1>1, <1>9 DEF Grant, engineVars
<1>10. ASSUME NEW r \in Requests,
             SendChunk(r) \/ SendTerminal(r) \/ CallPeer(r) \/ SendPeerCredit(r) \/ SendPeerCancel(r)
      PROVE  SlotsHeld'
  BY <1>1, <1>10
  DEF SendChunk, SendTerminal, CallPeer, SendPeerCredit, SendPeerCancel, entryVars, engineVars
<1>11. ASSUME NEW m \in Masters, Notify(m) \/ Disconnect(m) \/ Attach(m) PROVE SlotsHeld'
  BY <1>1, <1>11 DEF Notify, Disconnect, Attach, entryVars, engineVars
<1>12. CASE ProbeAnswered \/ ProbeConcludes \/ HandleCredit \/ HandleCancel \/ UNCHANGED vars
  BY <1>1, <1>12
  DEF ProbeAnswered, ProbeConcludes, HandleCredit, HandleCancel, vars, entryVars, engineVars
<1>13. QED
  BY <1>2, <1>3, <1>4, <1>5, <1>6, <1>7, <1>8, <1>9, <1>10, <1>11, <1>12 DEF Next, Handle

-----------------------------------------------------------------------------
(***************************************************************************)
(* The responses: what is delivered comes to an end once.                  *)
(***************************************************************************)
(* No response that can still grow has its terminal.                       *)
LEMMA Grown ==
  ASSUME NEW s \in Seq(Replies), NEW k \in Replies, \A i \in DOMAIN s : ~IsTerminal(s[i])
  PROVE  \A i \in DOMAIN Append(s, k) :
           IsTerminal(Append(s, k)[i]) => i = Len(Append(s, k)) /\ k # "CHUNK"
<1>1. /\ Len(Append(s, k)) = Len(s) + 1
      /\ \A i \in DOMAIN Append(s, k) :
           \/ i \in DOMAIN s /\ Append(s, k)[i] = s[i]
           \/ i = Len(s) + 1 /\ Append(s, k)[i] = k
  BY AppendFacts
<1>2. ~IsTerminal("CHUNK")
  BY DEF IsTerminal
<1>3. QED
  BY <1>1, <1>2

LEMMA LiveHasNone ==
  ASSUME StateOK, EndsOnce, NEW r \in Live
  PROVE  /\ r \in Requests /\ got[r] \in Seq(Replies)
         /\ \A i \in DOMAIN got[r] : ~IsTerminal(got[r][i])
BY DEF StateOK, TypeOK, EndsOnce, Replies

LEMMA InitEnds == Init => EndsOnce
BY DEF Init, EndsOnce

LEMMA EndsOnceStep ==
  ASSUME StateOK, RegisteredOnce, EndsOnce, [Next]_vars
  PROVE  EndsOnce'
<1>1. ASSUME got' = got, Live' \subseteq Live PROVE EndsOnce'
  BY <1>1 DEF EndsOnce
<1>2. ASSUME NEW r \in Requests, Registers(r), got' = got PROVE EndsOnce'
  <2>1. Live' = Live \cup {r}
    BY <1>2, RegistersLive
  <2>2. got[r] = <<>>
    BY <1>2 DEF Registers, RegisteredOnce, NoTraces, Fresh
  <2>3. DOMAIN got[r] = {}
    BY <2>2
  <2>4. QED
    BY <1>2, <2>1, <2>3 DEF EndsOnce
<1>3. ASSUME UNCHANGED <<got, table>> PROVE EndsOnce'
  <2>1. Live' = Live
    BY <1>3 DEF Live
  <2>2. QED
    BY <1>1, <1>3, <2>1
<1>4. ASSUME NEW r \in FromEngine, SendAdmitted(r) PROVE EndsOnce'
  BY <1>2, <1>3, <1>4, SendAdmittedFacts
<1>5. ASSUME NEW r \in Requests, Cancel(r) PROVE EndsOnce'
  BY <1>1, <1>5, CancelFacts, EndAllFacts
<1>6. CASE HandleRequest
  BY <1>2, <1>3, <1>6, HandleRequestFacts
<1>7. CASE HandleReply
  <2> DEFINE r == Head(queue).rid
             kind == Head(queue).kind
  <2>1. CASE UNCHANGED <<got, table>>
    BY <1>3, <2>1
  <2>2. CASE /\ r \in Live /\ Delivered(r, kind)
             /\ \/ kind # "CHUNK" /\ EndAll({r})
                \/ kind = "CHUNK" /\ table' = table
    <3>1. r \in Requests /\ kind \in Replies
      BY <1>7, HandleReplyFacts
    <3>2. Live' \subseteq Live /\ (kind # "CHUNK" => r \notin Live')
      <4>1. CASE kind = "CHUNK"
        BY <2>2, <4>1 DEF Live
      <4>2. CASE kind # "CHUNK"
        <5>1. EndAll({r}) /\ {r} \in SUBSET Live
          BY <2>2, <4>2
        <5>2. Live' = Live \ {r}
          BY <5>1, EndAllFacts
        <5>3. QED
          BY <5>2
      <4>3. QED
        BY <4>1, <4>2
    <3>3. /\ \A q \in Requests : q # r => got'[q] = got[q]
          /\ got'[r] = got[r] \/ got'[r] = Append(got[r], kind)
      BY <2>2, <3>1, DeliveredFacts
    <3>4. /\ got[r] \in Seq(Replies) /\ \A i \in DOMAIN got[r] : ~IsTerminal(got[r][i])
      BY <2>2, LiveHasNone
    <3> HIDE DEF r, kind
    <3>5. \A i \in DOMAIN got'[r] : IsTerminal(got'[r][i]) => i = Len(got'[r]) /\ r \notin Live'
      <4>1. CASE got'[r] = got[r]
        BY <3>4, <4>1
      <4>2. CASE got'[r] = Append(got[r], kind)
        <5>1. \A i \in DOMAIN Append(got[r], kind) :
                IsTerminal(Append(got[r], kind)[i]) => i = Len(Append(got[r], kind)) /\ kind # "CHUNK"
          BY <3>1, <3>4, Grown
        <5>2. QED
          BY <3>2, <4>2, <5>1
      <4>3. QED
        BY <3>3, <4>1, <4>2
    <3>6. ASSUME NEW q \in Requests, q # r, NEW i \in DOMAIN got'[q], IsTerminal(got'[q][i])
          PROVE  i = Len(got'[q]) /\ q \notin Live'
      BY <3>2, <3>3, <3>6 DEF EndsOnce
    <3>7. QED
      BY <3>5, <3>6 DEF EndsOnce
  <2>3. QED
    BY <1>7, <2>1, <2>2, HandleReplyFacts
<1>8. CASE HandleEof
  <2> DEFINE m == Head(queue).from
  <2>1. CASE UNCHANGED <<table, slot, got>>
    BY <1>3, <2>1
  <2>2. CASE EndAll(RoutedTo(m)) /\ Death(m)
    <3>1. Live' = Live \ RoutedTo(m) /\ RoutedTo(m) \subseteq Live
      <4>1. RoutedTo(m) \in SUBSET Live
        BY <1>8, HandleEofFacts
      <4> HIDE DEF m
      <4>2. QED
        BY <2>2, <4>1, EndAllFacts
    <3>2. \A q \in Requests :
            got'[q] = got[q] \/ (q \in RoutedTo(m) /\ got'[q] = Append(got[q], "ERR"))
      BY <2>2 DEF Death
    <3> HIDE DEF m
    <3>3. ASSUME NEW q \in Requests, NEW i \in DOMAIN got'[q], IsTerminal(got'[q][i])
          PROVE  i = Len(got'[q]) /\ q \notin Live'
      <4>1. CASE got'[q] = got[q]
        BY <3>1, <3>3, <4>1 DEF EndsOnce
      <4>2. CASE q \in RoutedTo(m) /\ got'[q] = Append(got[q], "ERR")
        <5>1. got[q] \in Seq(Replies) /\ \A j \in DOMAIN got[q] : ~IsTerminal(got[q][j])
          BY <3>1, <4>2, LiveHasNone
        <5>2. "ERR" \in Replies
          BY DEF Replies
        <5>3. \A j \in DOMAIN Append(got[q], "ERR") :
                IsTerminal(Append(got[q], "ERR")[j]) => j = Len(Append(got[q], "ERR"))
          BY <5>1, <5>2, Grown
        <5>4. QED
          BY <3>1, <3>3, <4>2, <5>3
      <4>3. QED
        BY <3>2, <4>1, <4>2
    <3>4. QED
      BY <3>3 DEF EndsOnce
  <2>3. QED
    BY <1>8, <2>1, <2>2, HandleEofFacts
<1>9. CASE Elsewhere
  BY <1>3, <1>9 DEF Elsewhere
<1>10. QED
  BY <1>4, <1>5, <1>6, <1>7, <1>8, <1>9, ElsewhereFacts
-----------------------------------------------------------------------------
(***************************************************************************)
(* The cascade of a cancel.                                                *)
(***************************************************************************)
LEMMA InitCascade == Init => CancelEnds /\ CascadeIsComplete
BY DEF Init, CancelEnds, CascadeIsComplete

(* Whoever is linked to what ends, and lives, ends too.                    *)
LEMMA DoomedFacts ==
  ASSUME NEW r \in Live
  PROVE  /\ r \in Doomed(r)
         /\ \A q \in linked \cap Live : Parent[q] = r => q \in Doomed(r)
BY DEF Doomed, Cascades

LEMMA CascadeStep ==
  ASSUME StateOK, RegisteredOnce, CancelEnds, CascadeIsComplete, [Next]_vars
  PROVE  CancelEnds' /\ CascadeIsComplete'
<1>0. cancelled \subseteq seen /\ linked \subseteq seen
  BY DEF StateOK, TypeOK
<1>1. ASSUME UNCHANGED <<linked, cancelled>>, Live' \subseteq Live
      PROVE  CancelEnds' /\ CascadeIsComplete'
  BY <1>1 DEF CancelEnds, CascadeIsComplete
<1>2. ASSUME NEW r \in Requests, Registers(r), UNCHANGED cancelled,
             linked' = linked \/ (linked' = linked \cup {r} /\ Parent[r] \in Live)
      PROVE  CancelEnds' /\ CascadeIsComplete'
  <2>1. Live' = Live \cup {r} /\ r \notin cancelled /\ r \notin linked
    BY <1>0, <1>2, RegistersLive DEF Registers
  <2>2. CancelEnds'
    BY <1>2, <2>1 DEF CancelEnds
  <2>3. CascadeIsComplete'
    BY <1>2, <2>1 DEF CascadeIsComplete, CancelEnds
  <2>4. QED
    BY <2>2, <2>3
<1>3. ASSUME NEW r \in FromEngine, SendAdmitted(r) PROVE CancelEnds' /\ CascadeIsComplete'
  <2>1. /\ r \in Requests /\ UNCHANGED <<linked, cancelled>>
        /\ UNCHANGED table \/ Registers(r)
    BY <1>3, SendAdmittedFacts
  <2>2. QED
    BY <1>1, <1>2, <2>1 DEF Live
<1>4. ASSUME NEW r \in Requests, Cancel(r) PROVE CancelEnds' /\ CascadeIsComplete'
  <2>1. /\ r \in Live /\ Doomed(r) \in SUBSET Live /\ EndAll(Doomed(r))
        /\ cancelled' = cancelled \cup {r} /\ linked' = linked
    BY <1>4, CancelFacts
  <2>2. Live' = Live \ Doomed(r)
    BY <2>1, EndAllFacts
  <2>3. r \in Doomed(r) /\ \A q \in linked \cap Live : Parent[q] = r => q \in Doomed(r)
    BY <2>1, DoomedFacts
  <2>4. QED
    BY <2>1, <2>2, <2>3 DEF CancelEnds, CascadeIsComplete
<1>5. CASE HandleRequest
  <2> DEFINE r == Head(queue).rid
  <2>1. /\ r \in Requests /\ UNCHANGED cancelled
        /\ \/ UNCHANGED <<table, linked>>
           \/ Registers(r) /\ linked' = IF Parent[r] \in Live THEN linked \cup {r} ELSE linked
    BY <1>5, HandleRequestFacts
  <2> HIDE DEF r
  <2>2. QED
    BY <1>1, <1>2, <2>1 DEF Live
<1>6. CASE HandleReply
  <2>1. /\ UNCHANGED <<linked, cancelled>>
        /\ UNCHANGED table \/ \E ends \in SUBSET Live : EndAll(ends)
    BY <1>6, HandleReplyFacts
  <2>2. Live' \subseteq Live
    BY <2>1, EndAllFacts DEF Live
  <2>3. QED
    BY <1>1, <2>1, <2>2
<1>7. CASE HandleEof
  <2>1. /\ UNCHANGED <<linked, cancelled>>
        /\ UNCHANGED table \/ \E ends \in SUBSET Live : EndAll(ends)
    BY <1>7, HandleEofFacts
  <2>2. Live' \subseteq Live
    BY <2>1, EndAllFacts DEF Live
  <2>3. QED
    BY <1>1, <2>1, <2>2
<1>8. CASE Elsewhere
  BY <1>1, <1>8 DEF Elsewhere, Live
<1>9. QED
  BY <1>3, <1>4, <1>5, <1>6, <1>7, <1>8, ElsewhereFacts

-----------------------------------------------------------------------------
(***************************************************************************)
(* The ring of recent terminations.                                        *)
(***************************************************************************)
LEMMA InitRemembered == Init => Remembered
<1> SUFFICES ASSUME Init PROVE Remembered
  OBVIOUS
<1>1. table.ended = <<>> /\ seen = {} /\ misplaced = {}
  BY DEF Init, TableEmpty
<1>2. DOMAIN table.ended = {}
  BY <1>1
<1>3. QED
  BY <1>1, <1>2 DEF Remembered

(* The room there is now there was before.                                 *)
LEMMA RoomBefore ==
  ASSUME StateOK, NEW r \in Requests, Registers(r), RecentCapacity >= Cardinality(seen')
  PROVE  RecentCapacity >= Cardinality(seen)
<1>1. Cardinality(seen') = Cardinality(seen) + 1
  BY FS_AddElement DEF Registers, StateOK
<1>2. Cardinality(seen) \in Nat
  BY FS_CardinalityType DEF StateOK
<1>3. QED
  BY <1>1, <1>2, Capacities

LEMMA RegistersRemembered ==
  ASSUME StateOK, RegisteredOnce, Remembered, NEW r \in Requests, Registers(r), misplaced' = misplaced
  PROVE  Remembered'
<1>1. /\ Live' = Live \cup {r} /\ r \notin Live /\ table'.ended = table.ended
      /\ r \notin seen /\ seen' = seen \cup {r}
  BY RegisterFacts DEF Registers
<1>2. r \notin misplaced
  BY <1>1 DEF RegisteredOnce, NoTraces, Fresh
<1>3. SUFFICES ASSUME RecentCapacity >= Cardinality(seen') PROVE Remembered'
  BY DEF Remembered
<1>4. RecentCapacity >= Cardinality(seen)
  BY <1>3, RoomBefore
<1>5. QED
  BY <1>1, <1>2, <1>4 DEF Remembered, EndedLately

(* What ends finds room behind what ended before: nothing is pushed out.   *)
LEMMA EndsRemembered ==
  ASSUME StateOK, Remembered, NEW ends \in SUBSET Live, EndAll(ends), UNCHANGED <<seen, misplaced>>
  PROVE  Remembered'
<1>1. SUFFICES ASSUME RecentCapacity >= Cardinality(seen) PROVE Remembered'
  BY DEF Remembered
<1>2. /\ \A i, j \in DOMAIN table.ended : table.ended[i] = table.ended[j] => i = j
      /\ \A i \in DOMAIN table.ended : table.ended[i] \in seen \ Live
      /\ \A r \in seen \ Live : EndedLately(table, r)
      /\ misplaced \cap seen = {}
  BY <1>1 DEF Remembered
<1>3. /\ Live' = Live \ ends /\ Cardinality(ends) \in Nat /\ Live \subseteq seen
      /\ seen \subseteq Requests
  BY EndAllFacts DEF StateOK, TypeOK
<1>4. PICK order \in Bijection(1..Cardinality(ends), ends) :
        /\ table.ended \o order \in Seq(Requests)
        /\ table'.ended = Forgotten(table.ended \o order, RecentCapacity)
  BY EndAllFacts
<1> DEFINE c == Cardinality(ends)
           n == Len(table.ended)
           s == table.ended \o order
<1>5. /\ order \in [1..c -> ends] /\ \A a, b \in 1..c : order[a] = order[b] => a = b
      /\ \A e \in ends : \E a \in 1..c : order[a] = e
  BY <1>4 DEF Bijection, Injection, Surjection, IsInjective
<1>6. /\ table.ended \in Seq(Requests) /\ n \in Nat /\ DOMAIN table.ended = 1..n
  BY TableFacts DEF StateOK
<1>7. order \in Seq(ends) /\ Len(order) = c /\ DOMAIN order = 1..c
  BY <1>3, <1>5
<1>8. /\ Len(s) = n + c /\ DOMAIN s = 1..(n + c)
      /\ \A i \in 1..n : s[i] = table.ended[i]
      /\ \A i \in 1..c : s[n + i] = order[i]
  <2>1. order \in Seq(Requests)
    BY <1>3, <1>7
  <2>2. Len(s) = n + c /\ DOMAIN s = 1..(n + c)
    BY <1>6, <1>7, <2>1
  <2>3. \A i \in 1..(n + c) : s[i] = IF i <= n THEN table.ended[i] ELSE order[i - n]
    BY <1>6, <1>7, <2>1
  <2> HIDE DEF s, n, c
  <2>4. \A i \in 1..c : n + i \in 1..(n + c) /\ ~(n + i <= n) /\ (n + i) - n = i
    BY <1>3, <1>6 DEF c
  <2>5. \A i \in 1..n : i \in 1..(n + c) /\ i <= n
    BY <1>3, <1>6 DEF c
  <2>6. QED
    BY <2>2, <2>3, <2>4, <2>5
<1> HIDE DEF s, n, c
<1>9. \A i \in 1..(n + c) : i \in 1..n \/ \E k \in 1..c : i = n + k
  <2>1. SUFFICES ASSUME NEW i \in 1..(n + c), i \notin 1..n PROVE \E k \in 1..c : i = n + k
    OBVIOUS
  <2>2. i - n \in 1..c /\ i = n + (i - n)
    BY <1>3, <1>6, <2>1 DEF c
  <2>3. QED
    BY <2>2
<1>10. \A i \in 1..(n + c) : s[i] \in seen \ Live'
  <2>1. \A i \in 1..n : s[i] \in seen \ Live'
    BY <1>2, <1>3, <1>6, <1>8
  <2>2. \A k \in 1..c : s[n + k] \in seen \ Live'
    BY <1>3, <1>5, <1>8
  <2>3. QED
    BY <1>9, <2>1, <2>2
<1>11. \A i, j \in 1..(n + c) : s[i] = s[j] => i = j
  <2>1. \A i, j \in 1..n : s[i] = s[j] => i = j
    BY <1>2, <1>6, <1>8
  <2>2. \A k, l \in 1..c : s[n + k] = s[n + l] => n + k = n + l
    BY <1>5, <1>8
  <2>3. \A i \in 1..n, k \in 1..c : s[i] # s[n + k]
    <3>1. \A i \in 1..n : s[i] \notin Live
      BY <1>2, <1>6, <1>8
    <3>2. \A k \in 1..c : s[n + k] \in Live
      BY <1>5, <1>8
    <3>3. QED
      BY <3>1, <3>2
  <2>4. SUFFICES ASSUME NEW i \in 1..(n + c), NEW j \in 1..(n + c), s[i] = s[j] PROVE i = j
    OBVIOUS
  <2>5. CASE i \in 1..n /\ j \in 1..n
    BY <2>1, <2>4, <2>5
  <2>6. CASE i \notin 1..n /\ j \in 1..n
    BY <1>9, <2>3, <2>4, <2>6
  <2>7. CASE i \in 1..n /\ j \notin 1..n
    BY <1>9, <2>3, <2>4, <2>7
  <2>8. CASE i \notin 1..n /\ j \notin 1..n
    BY <1>9, <2>2, <2>4, <2>8
  <2>9. QED
    BY <2>5, <2>6, <2>7, <2>8
<1>12. Len(s) <= RecentCapacity
  <2>1. s \in [1..(n + c) -> seen]
    <3>1. s \in Seq(Requests)
      BY <1>4 DEF s
    <3>2. s = [i \in 1..(n + c) |-> s[i]]
      BY <1>8, <3>1
    <3>3. QED
      BY <1>10, <3>2
  <2>2. s \in Injection(1..(n + c), seen)
    BY <1>11, <2>1 DEF Injection, IsInjective
  <2>3. Cardinality(1..(n + c)) <= Cardinality(seen)
    BY <2>2, FS_Injection DEF StateOK
  <2>4. Cardinality(1..(n + c)) = n + c
    <3>1. n + c \in Nat
      BY <1>3, <1>6 DEF c
    <3>2. Cardinality(1..(n + c)) = IF 1 > n + c THEN 0 ELSE (n + c) - 1 + 1
      BY <3>1, FS_Interval
    <3>3. QED
      BY <3>1, <3>2
  <2>5. Cardinality(seen) \in Nat /\ n + c \in Nat
    BY <1>3, <1>6, FS_CardinalityType DEF c, StateOK
  <2>6. QED
    BY <1>1, <1>8, <2>3, <2>4, <2>5, Capacities
<1>13. table'.ended = s
  BY <1>4, <1>12, ForgottenFacts, Capacities DEF s
<1>14. \A r \in seen \ Live' : EndedLately(table', r)
  <2>1. SUFFICES ASSUME NEW r \in seen \ Live' PROVE \E i \in 1..(n + c) : s[i] = r
    BY <1>8, <1>13 DEF EndedLately
  <2>2. CASE r \in ends
    <3>1. PICK a \in 1..c : order[a] = r
      BY <1>5, <2>2
    <3>2. n + a \in 1..(n + c)
      BY <1>3, <1>6 DEF c
    <3>3. s[n + a] = r
      BY <1>8, <3>1
    <3>4. QED
      BY <3>2, <3>3
  <2>3. CASE r \notin ends
    <3>1. r \in seen \ Live
      BY <1>3, <2>3
    <3>2. PICK i \in DOMAIN table.ended : table.ended[i] = r
      BY <1>2, <3>1 DEF EndedLately
    <3>3. i \in 1..(n + c) /\ s[i] = r
      BY <1>3, <1>6, <1>8, <3>2 DEF c
    <3>4. QED
      BY <3>3
  <2>4. QED
    BY <2>2, <2>3
<1>15. QED
  BY <1>2, <1>8, <1>10, <1>11, <1>13, <1>14 DEF Remembered

(* A frame of a request that ended is a straggler.                         *)
LEMMA UnroutedRemembered ==
  ASSUME StateOK, Remembered, NEW r \in seen \ Live, Unrouted(r), UNCHANGED <<table, seen>>
  PROVE  Remembered'
<1>1. SUFFICES ASSUME RecentCapacity >= Cardinality(seen) PROVE Remembered'
  BY DEF Remembered
<1>2. EndedLately(table, r)
  BY <1>1 DEF Remembered
<1>3. Disposition(table, r) # "no_route"
  BY <1>2 DEF Disposition, Dispose
<1>4. misplaced' = misplaced
  BY <1>3 DEF Unrouted
<1>5. QED
  BY <1>4 DEF Remembered, Live, EndedLately

LEMMA RememberedStep ==
  ASSUME StateOK, RegisteredOnce, Remembered, [Next]_vars
  PROVE  Remembered'
<1>1. ASSUME UNCHANGED <<table, seen, misplaced>> PROVE Remembered'
  BY <1>1 DEF Remembered, Live, EndedLately
<1>2. ASSUME NEW r \in FromEngine, SendAdmitted(r) PROVE Remembered'
  BY <1>1, <1>2, SendAdmittedFacts, RegistersRemembered
<1>3. ASSUME NEW r \in Requests, Cancel(r) PROVE Remembered'
  BY <1>3, CancelFacts, EndsRemembered
<1>4. CASE HandleRequest
  BY <1>1, <1>4, HandleRequestFacts, RegistersRemembered
<1>5. CASE HandleReply
  <2> DEFINE r == Head(queue).rid
  <2>1. /\ r \in seen /\ UNCHANGED seen
        /\ \/ misplaced' = misplaced /\ \E ends \in SUBSET Live : EndAll(ends)
           \/ UNCHANGED <<table, misplaced>>
           \/ r \notin Live /\ Unrouted(r) /\ UNCHANGED table
    BY <1>5, HandleReplyFacts
  <2> HIDE DEF r
  <2>2. QED
    BY <1>1, <2>1, EndsRemembered, UnroutedRemembered
<1>6. CASE HandleEof
  <2>1. /\ UNCHANGED <<seen, misplaced>>
        /\ UNCHANGED table \/ \E ends \in SUBSET Live : EndAll(ends)
    BY <1>6, HandleEofFacts
  <2>2. QED
    BY <1>1, <2>1, EndsRemembered
<1>7. CASE HandleCredit
  <2>1. Head(queue).rid \in seen /\ UNCHANGED <<table, seen>>
    BY <1>7, TakenOf DEF HandleCredit
  <2>2. UNCHANGED misplaced \/ (Head(queue).rid \notin Live /\ Unrouted(Head(queue).rid))
    BY <1>7 DEF HandleCredit
  <2>3. QED
    BY <1>1, <2>1, <2>2, UnroutedRemembered
<1>8. CASE Elsewhere /\ UNCHANGED misplaced
  BY <1>1, <1>8 DEF Elsewhere
<1>9. QED
  BY <1>2, <1>3, <1>4, <1>5, <1>6, <1>7, <1>8, ElsewhereFacts
-----------------------------------------------------------------------------
(***************************************************************************)
(* The hosts and the ledgers of what they send.                            *)
(***************************************************************************)
LEMMA HostedFacts ==
  ASSUME HostsAreThere, NEW r \in Requests
  PROVE  Hosted(r) <=> hosting[r] \in {"serving", "cancelled"}
BY DEF HostsAreThere, Hosted

LEMMA InitHosts == Init => HostsAreThere
BY DEF Init, HostsAreThere

(* A host gets a request when it is written to it, and then only loses it. *)
LEMMA ServeFacts ==
  ASSUME StateOK, RegisteredOnce, HostsAreThere, NEW r \in Requests, NEW m \in Masters,
         Registers(r), Register(r, m), Serve(r, m), UNCHANGED reading
  PROVE  /\ HostsAreThere'
         /\ \A q \in Requests : q # r =>
              hosting'[q] = hosting[q] /\ dest'[q] = dest[q] /\ window'[q] = window[q]
                /\ ledger'[q] = ledger[q]
         /\ ledger'[r] = InitialCredit
         /\ Hosted(r)' => window'[r] = InitialCredit
<1>1. hosting[r] = "none"
  BY DEF Registers, RegisteredOnce, NoTraces, Fresh
<1>2. /\ dest' = [dest EXCEPT ![r] = m] /\ ledger' = [ledger EXCEPT ![r] = InitialCredit]
      /\ DOMAIN dest = Requests /\ DOMAIN ledger = Requests /\ DOMAIN hosting = Requests
      /\ DOMAIN window = Requests
  BY DEF Register, StateOK, TypeOK
<1>3. CASE m \in reading
  <2>1. /\ hosting' = [hosting EXCEPT ![r] = "serving"]
        /\ window' = [window EXCEPT ![r] = InitialCredit]
    BY <1>3 DEF Serve
  <2>2. HostsAreThere'
    BY <1>2, <1>3, <2>1 DEF HostsAreThere
  <2>3. QED
    BY <1>2, <2>1, <2>2
<1>4. CASE m \notin reading
  <2>1. UNCHANGED <<hosting, window>>
    BY <1>4 DEF Serve
  <2>2. HostsAreThere'
    BY <1>1, <1>2, <2>1 DEF HostsAreThere
  <2>3. ~ Hosted(r)'
    BY <1>1, <2>1 DEF Hosted
  <2>4. QED
    BY <1>2, <2>1, <2>2, <2>3
<1>5. QED
  BY <1>3, <1>4

LEMMA HostsStep ==
  ASSUME StateOK, RegisteredOnce, HostsAreThere, [Next]_vars
  PROVE  HostsAreThere'
<1>0. hosting \in [Requests -> {"none", "serving", "cancelled", "over", "lost"}]
  BY DEF StateOK, TypeOK
<1>1. ASSUME UNCHANGED <<dest, hosting>>, reading \subseteq reading' PROVE HostsAreThere'
  BY <1>1 DEF HostsAreThere
<1>2. ASSUME NEW r \in FromEngine, SendAdmitted(r) PROVE HostsAreThere'
  <2>1. r \in Requests /\ UNCHANGED reading
    BY <1>2, SendAdmittedFacts
  <2>2. UNCHANGED <<dest, hosting>> \/ \E m \in Masters :
          Register(r, m) /\ Serve(r, m) /\ Registers(r)
    BY <1>2, SendAdmittedFacts
  <2>3. QED
    BY <1>1, <2>1, <2>2, ServeFacts
<1>3. CASE HandleRequest
  <2> DEFINE r == Head(queue).rid
  <2>1. /\ r \in Requests /\ UNCHANGED reading
        /\ UNCHANGED <<dest, hosting>> \/ \E m \in Masters :
             Register(r, m) /\ Serve(r, m) /\ Registers(r)
    BY <1>3, HandleRequestFacts
  <2> HIDE DEF r
  <2>2. QED
    BY <1>1, <2>1, ServeFacts
<1>4. ASSUME NEW ends, hosting' = ToldToCancel(ends), UNCHANGED <<reading, dest>>
      PROVE  HostsAreThere'
  <2>1. \A r \in Requests :
          hosting'[r] \in {"serving", "cancelled"} => hosting[r] \in {"serving", "cancelled"}
    BY <1>4 DEF ToldToCancel
  <2>2. QED
    BY <1>4, <2>1 DEF HostsAreThere
<1>5. ASSUME NEW r \in Requests, Cancel(r) PROVE HostsAreThere'
  BY <1>4, <1>5, CancelFacts
<1>6. CASE HandleCancel
  BY <1>4, <1>6 DEF HandleCancel, slotVars, entryVars
<1>7. ASSUME NEW r \in Requests, SendTerminal(r) PROVE HostsAreThere'
  BY <1>0, <1>7 DEF HostsAreThere, SendTerminal, slotVars, entryVars
<1>8. ASSUME NEW m \in Masters, Disconnect(m) PROVE HostsAreThere'
  <2>1. /\ UNCHANGED dest /\ reading' = reading \ {m}
        /\ \A r \in Requests : hosting'[r] \in {"serving", "cancelled"} =>
             hosting'[r] = hosting[r] /\ dest[r] # m
    BY <1>8 DEF Disconnect, entryVars
  <2>2. QED
    BY <2>1 DEF HostsAreThere
<1>9. ASSUME NEW r \in FromEngine, Resolve(r) \/ Acquire(r) \/ Grant(r) PROVE HostsAreThere'
  BY <1>1, <1>9 DEF Resolve, Acquire, Grant, slotVars, entryVars, hostVars
<1>10. ASSUME NEW r \in Requests,
             SendChunk(r) \/ CallPeer(r) \/ SendPeerCredit(r) \/ SendPeerCancel(r)
      PROVE  HostsAreThere'
  BY <1>1, <1>10
  DEF SendChunk, CallPeer, SendPeerCredit, SendPeerCancel, slotVars, entryVars, hostVars
<1>11. ASSUME NEW m \in Masters, Notify(m) \/ Attach(m) PROVE HostsAreThere'
  BY <1>1, <1>11 DEF Notify, Attach, entryVars, hostVars
<1>12. CASE ProbeAnswered \/ ProbeConcludes \/ HandleCredit \/ HandleReply \/ HandleEof \/ UNCHANGED vars
  BY <1>1, <1>12
  DEF ProbeAnswered, ProbeConcludes, HandleCredit, HandleReply, HandleEof, vars, slotVars,
      entryVars, hostVars
<1>13. QED
  BY <1>2, <1>3, <1>5, <1>6, <1>7, <1>8, <1>9, <1>10, <1>11, <1>12 DEF Next, Handle

(* The CHUNKs of a response that are queued.                               *)
ChunksOf(r) == {f \in Frames : f.kind = "CHUNK" /\ f.rid = r}

LEMMA InFlightIsCount ==
  ASSUME NEW r
  PROVE  queue \in Seq(Frames) => InFlight(r) = Count(queue, ChunksOf(r))
<1> SUFFICES ASSUME queue \in Seq(Frames) PROVE InFlight(r) = Count(queue, ChunksOf(r))
  OBVIOUS
<1>1. \A i \in DOMAIN queue : queue[i] \in Frames
  OBVIOUS
<1>2. {i \in DOMAIN queue : queue[i].kind = "CHUNK" /\ queue[i].rid = r}
        = {i \in DOMAIN queue : queue[i] \in ChunksOf(r)}
  BY <1>1 DEF ChunksOf
<1>3. QED
  BY <1>2 DEF InFlight, Count

LEMMA InFlightIsCountNext ==
  ASSUME NEW r
  PROVE  queue' \in Seq(Frames) => InFlight(r)' = Count(queue', ChunksOf(r))
<1> SUFFICES ASSUME queue' \in Seq(Frames) PROVE InFlight(r)' = Count(queue', ChunksOf(r))
  OBVIOUS
<1>1. \A i \in DOMAIN queue' : queue'[i] \in Frames
  OBVIOUS
<1>2. {i \in DOMAIN queue' : queue'[i].kind = "CHUNK" /\ queue'[i].rid = r}
        = {i \in DOMAIN queue' : queue'[i] \in ChunksOf(r)}
  BY <1>1 DEF ChunksOf
<1>3. InFlight(r)' = Cardinality({i \in DOMAIN queue' : queue'[i].kind = "CHUNK" /\ queue'[i].rid = r})
  BY DEF InFlight
<1>4. QED
  BY <1>2, <1>3 DEF Count

LEMMA InFlightAppend ==
  ASSUME StateOK, NEW f \in Frames, queue' = Append(queue, f), NEW r
  PROVE  /\ InFlight(r)' = IF f.kind = "CHUNK" /\ f.rid = r THEN InFlight(r) + 1 ELSE InFlight(r)
         /\ InFlight(r) \in Nat
<1>1. queue \in Seq(Frames) /\ queue' \in Seq(Frames)
  BY QueuesFacts DEF StateOK
<1>2. InFlight(r) = Count(queue, ChunksOf(r)) /\ InFlight(r)' = Count(queue', ChunksOf(r))
  BY <1>1, InFlightIsCount, InFlightIsCountNext
<1>3. f \in ChunksOf(r) <=> f.kind = "CHUNK" /\ f.rid = r
  BY DEF ChunksOf
<1> HIDE DEF Frames
<1>4. /\ Count(Append(queue, f), ChunksOf(r)) =
           IF f \in ChunksOf(r) THEN Count(queue, ChunksOf(r)) + 1 ELSE Count(queue, ChunksOf(r))
      /\ Count(queue, ChunksOf(r)) \in Nat
  BY <1>1, CountAppend, CountFinite
<1>5. QED
  BY <1>2, <1>3, <1>4

LEMMA InFlightTail ==
  ASSUME StateOK, Takes, NEW r
  PROVE  /\ InFlight(r)' = IF Head(queue).kind = "CHUNK" /\ Head(queue).rid = r
                           THEN InFlight(r) - 1 ELSE InFlight(r)
         /\ InFlight(r) \in Nat
<1>1. /\ queue \in Seq(Frames) /\ queue' \in Seq(Frames) /\ queue # <<>> /\ queue' = Tail(queue)
      /\ Head(queue) \in Frames
  BY TakesFacts DEF StateOK, Takes
<1>2. InFlight(r) = Count(queue, ChunksOf(r)) /\ InFlight(r)' = Count(queue', ChunksOf(r))
  BY <1>1, InFlightIsCount, InFlightIsCountNext
<1>3. Head(queue) \in ChunksOf(r) <=> Head(queue).kind = "CHUNK" /\ Head(queue).rid = r
  BY <1>1 DEF ChunksOf
<1>4. /\ Count(Tail(queue), ChunksOf(r)) =
           IF Head(queue) \in ChunksOf(r) THEN Count(queue, ChunksOf(r)) - 1
           ELSE Count(queue, ChunksOf(r))
      /\ Count(queue, ChunksOf(r)) \in Nat
  BY <1>1, CountTail, CountFinite
<1>5. QED
  BY <1>1, <1>2, <1>3, <1>4

(* Nothing of a request that was not registered is in flight.              *)
LEMMA NoneInFlight ==
  ASSUME StateOK, RegisteredOnce, NEW r \in Requests \ seen
  PROVE  InFlight(r) = 0
<1>1. {i \in DOMAIN queue : queue[i].kind = "CHUNK" /\ queue[i].rid = r} = {}
  BY DEF RegisteredOnce, NoTraces, Fresh, Replies
<1>2. QED
  BY <1>1, FS_EmptySet DEF InFlight

LEMMA InitLedger == Init => LedgerIsTheWindow
BY DEF Init, LedgerIsTheWindow, TableEmpty, Live, LiveRids

LEMMA LedgerStep ==
  ASSUME StateOK, RegisteredOnce, HostsAreThere, LedgerIsTheWindow, [Next]_vars
  PROVE  LedgerIsTheWindow'
<1>0. /\ Live \subseteq Requests /\ ledger \in [Requests -> Int] /\ window \in [Requests -> Nat]
      /\ HostsAreThere' /\ DOMAIN hosting = Requests /\ seen \subseteq Requests
      /\ Live \subseteq seen
  BY HostsStep DEF StateOK, TypeOK
<1>1. ASSUME Live' \subseteq Live,
             \A q \in Live' : hosting'[q] \in {"serving", "cancelled"} =>
               /\ hosting[q] \in {"serving", "cancelled"}
               /\ ledger'[q] = ledger[q] /\ window'[q] = window[q] /\ InFlight(q)' = InFlight(q)
      PROVE  LedgerIsTheWindow'
  <2>1. SUFFICES ASSUME NEW q \in Live', Hosted(q)'
                 PROVE  ledger'[q] = window'[q] + InFlight(q)'
    BY DEF LedgerIsTheWindow
  <2>2. q \in Requests /\ q \in Live /\ hosting'[q] \in {"serving", "cancelled"}
    BY <1>0, <1>1, <2>1 DEF Hosted
  <2>3. Hosted(q)
    BY <1>1, <2>2, HostedFacts
  <2>4. QED
    BY <1>1, <2>2, <2>3 DEF LedgerIsTheWindow
<1>2. ASSUME queue' = queue, NEW q PROVE InFlight(q)' = InFlight(q)
  BY <1>2 DEF InFlight
<1>3. ASSUME UNCHANGED <<table, hosting, ledger, window, queue>> PROVE LedgerIsTheWindow'
  BY <1>1, <1>2, <1>3 DEF Live
<1>4. ASSUME NEW r \in Requests, NEW m \in Masters, Registers(r), Register(r, m), Serve(r, m),
             UNCHANGED reading, \A q \in Requests : InFlight(q)' = InFlight(q)
      PROVE  LedgerIsTheWindow'
  <2>1. Live' = Live \cup {r}
    BY <1>4, RegistersLive
  <2>2. /\ \A q \in Requests : q # r =>
              hosting'[q] = hosting[q] /\ dest'[q] = dest[q] /\ window'[q] = window[q]
                /\ ledger'[q] = ledger[q]
        /\ ledger'[r] = InitialCredit
        /\ Hosted(r)' => window'[r] = InitialCredit
    BY <1>4, ServeFacts
  <2>3. InFlight(r)' = 0
    BY <1>4, NoneInFlight DEF Registers
  <2>4. SUFFICES ASSUME NEW q \in Live', Hosted(q)'
                 PROVE  ledger'[q] = window'[q] + InFlight(q)'
    BY DEF LedgerIsTheWindow
  <2>5. CASE q = r
    BY <2>2, <2>3, <2>4, <2>5, Capacities
  <2>6. CASE q # r
    <3>1. q \in Live /\ q \in Requests
      BY <1>0, <2>1, <2>6
    <3>2. Hosted(q)
      BY <1>4, <2>2, <2>4, <2>6, <3>1 DEF Hosted
    <3>3. QED
      BY <1>4, <2>2, <2>6, <3>1, <3>2 DEF LedgerIsTheWindow
  <2>7. QED
    BY <2>5, <2>6
<1>5. ASSUME NEW r \in FromEngine, SendAdmitted(r) PROVE LedgerIsTheWindow'
  <2>1. r \in Requests /\ UNCHANGED <<reading, queue>>
    BY <1>5, SendAdmittedFacts
  <2>2. \/ UNCHANGED <<table, ledger, hosting, window>>
        \/ \E m \in Masters : Register(r, m) /\ Serve(r, m) /\ Registers(r)
    BY <1>5, SendAdmittedFacts
  <2>3. QED
    BY <1>2, <1>3, <1>4, <2>1, <2>2
<1>6. CASE HandleRequest
  <2> DEFINE r == Head(queue).rid
  <2>1. /\ r \in Requests /\ UNCHANGED reading /\ Head(queue).kind = "REQ"
        /\ \/ UNCHANGED <<table, ledger, hosting, window>>
           \/ \E m \in Masters : Register(r, m) /\ Serve(r, m) /\ Registers(r)
    BY <1>6, HandleRequestFacts
  <2>2. \A q : InFlight(q)' = InFlight(q)
    BY <1>6, <2>1, InFlightTail DEF HandleRequest
  <2> HIDE DEF r
  <2>3. CASE UNCHANGED <<table, ledger, hosting, window>>
    BY <1>1, <2>2, <2>3 DEF Live
  <2>4. QED
    BY <1>4, <2>1, <2>2, <2>3
<1>7. ASSUME NEW r \in Requests, Credit(r), UNCHANGED <<table, hosting, reading, dest>>,
             \A q \in Requests : InFlight(q)' = InFlight(q) /\ InFlight(q) \in Nat
      PROVE  LedgerIsTheWindow'
  <2>1. /\ ledger' = [ledger EXCEPT ![r] = @ + 1]
        /\ window' = [window EXCEPT ![r] = IF Hosted(r) THEN @ + 1 ELSE @]
    BY <1>7, CreditFacts
  <2>2. SUFFICES ASSUME NEW q \in Live', Hosted(q)'
                 PROVE  ledger'[q] = window'[q] + InFlight(q)'
    BY DEF LedgerIsTheWindow
  <2>3. q \in Live /\ q \in Requests /\ Hosted(q)
    BY <1>0, <1>7, <2>2 DEF Live, Hosted
  <2>4. /\ ledger[q] = window[q] + InFlight(q) /\ ledger[q] \in Int /\ window[q] \in Nat
        /\ InFlight(q) \in Nat /\ InFlight(q)' = InFlight(q)
    BY <1>0, <1>7, <2>3 DEF LedgerIsTheWindow
  <2>5. CASE q = r
    <3>1. ledger'[q] = ledger[q] + 1 /\ window'[q] = window[q] + 1
      BY <1>0, <2>1, <2>3, <2>5
    <3>2. QED
      BY <2>4, <3>1
  <2>6. CASE q # r
    <3>1. ledger'[q] = ledger[q] /\ window'[q] = window[q]
      BY <1>0, <2>1, <2>3, <2>6
    <3>2. QED
      BY <2>4, <3>1
  <2>7. QED
    BY <2>5, <2>6
<1>8. ASSUME NEW r \in FromEngine, Grant(r) PROVE LedgerIsTheWindow'
  <2>1. r \in Requests /\ Credit(r) /\ UNCHANGED <<table, hosting, reading, dest, queue>>
    BY <1>8 DEF Grant, FromEngine, slotVars
  <2>2. \A q \in Requests : InFlight(q) \in Nat
    <3>1. queue \in Seq(Frames)
      BY DEF StateOK
    <3>2. \A q : InFlight(q) = Count(queue, ChunksOf(q))
      BY <3>1, InFlightIsCount
    <3> HIDE DEF Frames
    <3>3. QED
      BY <3>1, <3>2, CountFinite
  <2>3. QED
    BY <1>2, <1>7, <2>1, <2>2
<1>9. CASE HandleCredit
  <2> DEFINE r == Head(queue).rid
  <2>1. /\ r \in Requests /\ UNCHANGED <<table, hosting, reading, dest>>
        /\ Head(queue).kind = "CREDIT" /\ Takes
        /\ Credit(r) \/ UNCHANGED <<ledger, window>>
    BY <1>9, TakenOf DEF HandleCredit, slotVars
  <2>2. \A q : InFlight(q)' = InFlight(q) /\ InFlight(q) \in Nat
    BY <2>1, InFlightTail
  <2> HIDE DEF r
  <2>3. CASE UNCHANGED <<ledger, window>>
    BY <1>1, <2>1, <2>2, <2>3 DEF Live
  <2>4. QED
    BY <1>7, <2>1, <2>2, <2>3
<1>10. ASSUME NEW r \in Requests, SendChunk(r) PROVE LedgerIsTheWindow'
  <2>1. /\ UNCHANGED <<table, hosting, ledger, reading, dest>> /\ window[r] > 0
        /\ window' = [window EXCEPT ![r] = @ - 1]
        /\ queue' = Append(queue, Message("CHUNK", r))
    BY <1>10 DEF SendChunk, Queues, slotVars, entryVars
  <2>2. /\ Message("CHUNK", r) \in Frames /\ Message("CHUNK", r).kind = "CHUNK"
        /\ Message("CHUNK", r).rid = r
    BY MessageFacts DEF FrameKinds
  <2>3. \A q : /\ InFlight(q)' = IF q = r THEN InFlight(q) + 1 ELSE InFlight(q)
               /\ InFlight(q) \in Nat
    BY <2>1, <2>2, InFlightAppend
  <2>4. SUFFICES ASSUME NEW q \in Live', Hosted(q)'
                 PROVE  ledger'[q] = window'[q] + InFlight(q)'
    BY DEF LedgerIsTheWindow
  <2>5. q \in Live /\ q \in Requests /\ Hosted(q)
    BY <1>0, <2>1, <2>4 DEF Live, Hosted
  <2>6. /\ ledger[q] = window[q] + InFlight(q) /\ ledger'[q] = ledger[q]
        /\ window[q] \in Nat /\ ledger[q] \in Int
    BY <1>0, <2>1, <2>5 DEF LedgerIsTheWindow
  <2>7. CASE q = r
    <3>1. window'[q] = window[q] - 1 /\ InFlight(q)' = InFlight(q) + 1 /\ InFlight(q) \in Nat
      BY <1>0, <2>1, <2>3, <2>5, <2>7
    <3>2. QED
      BY <2>6, <3>1
  <2>8. CASE q # r
    <3>1. window'[q] = window[q] /\ InFlight(q)' = InFlight(q)
      BY <1>0, <2>1, <2>3, <2>5, <2>8
    <3>2. QED
      BY <2>6, <3>1
  <2>9. QED
    BY <2>7, <2>8
<1>11. ASSUME UNCHANGED <<table, ledger, window>>, NEW f \in Frames, f.kind # "CHUNK",
              queue' = Append(queue, f),
              \A q \in Requests : hosting'[q] \in {"serving", "cancelled"} =>
                hosting[q] \in {"serving", "cancelled"}
       PROVE  LedgerIsTheWindow'
  <2>1. \A q : InFlight(q)' = InFlight(q)
    BY <1>11, InFlightAppend
  <2>2. QED
    BY <1>0, <1>1, <1>11, <2>1 DEF Live
<1>12. ASSUME NEW r \in Requests,
              SendTerminal(r) \/ CallPeer(r) \/ SendPeerCredit(r) \/ SendPeerCancel(r)
       PROVE  LedgerIsTheWindow'
  <2>1. PICK k \in {"END", "ERR", "REQ", "CREDIT", "CANCEL"} : queue' = Append(queue, Message(k, r))
    BY <1>12 DEF SendTerminal, CallPeer, SendPeerCredit, SendPeerCancel, Queues
  <2>2. Message(k, r) \in Frames /\ Message(k, r).kind # "CHUNK"
    BY <2>1, MessageFacts DEF FrameKinds
  <2>3. /\ UNCHANGED <<table, ledger, window>>
        /\ \A q \in Requests : hosting'[q] \in {"serving", "cancelled"} =>
             hosting[q] \in {"serving", "cancelled"}
    BY <1>0, <1>12
    DEF SendTerminal, CallPeer, SendPeerCredit, SendPeerCancel, entryVars, hostVars
  <2>4. QED
    BY <1>11, <2>1, <2>2, <2>3
<1>13. ASSUME NEW m \in Masters, Disconnect(m) PROVE LedgerIsTheWindow'
  <2>1. Eof(m) \in Frames /\ Eof(m).kind # "CHUNK" /\ queue' = Append(queue, Eof(m))
    BY <1>13 DEF Eof, Frames, Disconnect
  <2>2. /\ UNCHANGED <<table, ledger, window>>
        /\ \A q \in Requests : hosting'[q] \in {"serving", "cancelled"} =>
             hosting[q] \in {"serving", "cancelled"}
    BY <1>13 DEF Disconnect, entryVars
  <2>3. QED
    BY <1>11, <2>1, <2>2
<1>14. ASSUME NEW r \in Requests, Cancel(r) PROVE LedgerIsTheWindow'
  <2>1. /\ Doomed(r) \in SUBSET Live /\ EndAll(Doomed(r))
        /\ hosting' = ToldToCancel(Doomed(r)) /\ UNCHANGED <<queue, ledger, window>>
    BY <1>14, CancelFacts
  <2>2. Live' \subseteq Live
    BY <2>1, EndAllFacts
  <2>3. \A q \in Requests : hosting'[q] \in {"serving", "cancelled"} =>
          hosting[q] \in {"serving", "cancelled"}
    BY <2>1 DEF ToldToCancel
  <2>4. QED
    BY <1>0, <1>1, <1>2, <2>1, <2>2, <2>3
<1>15. CASE HandleCancel
  <2>1. /\ UNCHANGED <<table, ledger, window>> /\ Takes /\ Head(queue).kind = "CANCEL"
        /\ hosting' = ToldToCancel({Head(queue).rid} \cap Live)
    BY <1>15 DEF HandleCancel, entryVars
  <2>2. \A q : InFlight(q)' = InFlight(q)
    BY <2>1, InFlightTail
  <2>3. \A q \in Requests : hosting'[q] \in {"serving", "cancelled"} =>
          hosting[q] \in {"serving", "cancelled"}
    BY <2>1 DEF ToldToCancel
  <2>4. QED
    BY <1>0, <1>1, <2>1, <2>2, <2>3 DEF Live
<1>16. CASE HandleEof
  <2>1. /\ UNCHANGED <<hosting, ledger, window>> /\ Takes /\ Head(queue).kind = "EOF"
        /\ UNCHANGED table \/ \E ends \in SUBSET Live : EndAll(ends)
    BY <1>16, HandleEofFacts DEF HandleEof
  <2>2. \A q : InFlight(q)' = InFlight(q)
    BY <2>1, InFlightTail
  <2>3. Live' \subseteq Live
    BY <2>1, EndAllFacts DEF Live
  <2>4. QED
    BY <1>1, <2>1, <2>2, <2>3
<1>17. CASE HandleReply
  <2> DEFINE r == Head(queue).rid
             kind == Head(queue).kind
  <2>1. /\ r \in Requests /\ kind \in Replies /\ UNCHANGED <<reading, dest, hosting, window>>
        /\ \/ /\ r \in Live
              /\ ledger' = [ledger EXCEPT ![r] = IF kind = "CHUNK" THEN @ - 1 ELSE @]
              /\ \/ kind # "CHUNK" /\ EndAll({r})
                 \/ kind = "CHUNK" /\ UNCHANGED table
           \/ r \notin Live /\ UNCHANGED <<table, ledger>>
    BY <1>17, HandleReplyFacts
  <2>2. \A q : /\ InFlight(q)' = IF kind = "CHUNK" /\ r = q THEN InFlight(q) - 1 ELSE InFlight(q)
               /\ InFlight(q) \in Nat
    BY <1>17, InFlightTail DEF HandleReply
  <2>3. Live' \subseteq Live /\ (r \in Live /\ kind # "CHUNK" => r \notin Live')
    <3>1. CASE UNCHANGED table /\ (r \in Live => kind = "CHUNK")
      BY <3>1 DEF Live
    <3>2. CASE r \in Live /\ kind # "CHUNK" /\ EndAll({r})
      <4>1. {r} \in SUBSET Live
        BY <3>2
      <4>2. Live' = Live \ {r}
        BY <3>2, <4>1, EndAllFacts
      <4>3. QED
        BY <4>2
    <3>3. QED
      BY <2>1, <3>1, <3>2
  <2> HIDE DEF r, kind
  <2>4. SUFFICES ASSUME NEW q \in Live', Hosted(q)'
                 PROVE  ledger'[q] = window'[q] + InFlight(q)'
    BY DEF LedgerIsTheWindow
  <2>5. q \in Live /\ q \in Requests /\ Hosted(q)
    BY <1>0, <2>1, <2>3, <2>4 DEF Hosted
  <2>6. /\ ledger[q] = window[q] + InFlight(q) /\ window'[q] = window[q]
        /\ window[q] \in Nat /\ ledger[q] \in Int
    BY <1>0, <2>1, <2>5 DEF LedgerIsTheWindow
  <2>7. CASE q = r
    <3>1. kind = "CHUNK" /\ r \in Live
      BY <2>3, <2>4, <2>5, <2>7
    <3>2. ledger'[q] = ledger[q] - 1
      BY <1>0, <2>1, <2>5, <2>7, <3>1
    <3>3. InFlight(q)' = InFlight(q) - 1 /\ InFlight(q) \in Nat
      BY <2>2, <2>7, <3>1
    <3>4. QED
      BY <2>6, <3>2, <3>3
  <2>8. CASE q # r
    <3>1. ledger'[q] = ledger[q]
      BY <1>0, <2>1, <2>5, <2>8
    <3>2. InFlight(q)' = InFlight(q)
      BY <2>2, <2>8
    <3>3. QED
      BY <2>6, <3>1, <3>2
  <2>9. QED
    BY <2>7, <2>8
<1>18. ASSUME NEW r \in FromEngine, Resolve(r) \/ Acquire(r) PROVE LedgerIsTheWindow'
  BY <1>3, <1>18 DEF Resolve, Acquire, entryVars, hostVars
<1>19. ASSUME NEW m \in Masters, Notify(m) \/ Attach(m) PROVE LedgerIsTheWindow'
  BY <1>3, <1>19 DEF Notify, Attach, entryVars, hostVars
<1>20. CASE ProbeAnswered \/ ProbeConcludes \/ UNCHANGED vars
  BY <1>3, <1>20 DEF ProbeAnswered, ProbeConcludes, vars, entryVars, hostVars
<1>21. QED
  BY <1>5, <1>6, <1>8, <1>9, <1>10, <1>12, <1>13, <1>14, <1>15, <1>16, <1>17, <1>18, <1>19, <1>20
  DEF Next, Handle

-----------------------------------------------------------------------------
(***************************************************************************)
(* The theorems.                                                           *)
(***************************************************************************)
IInv ==
  /\ StateOK /\ RegisteredOnce /\ HostsAreThere
  /\ SlotsHeld /\ EndsOnce /\ CancelEnds /\ CascadeIsComplete /\ Remembered /\ LedgerIsTheWindow

LEMMA IInvInit == Init => IInv
BY InitOK, InitOnce, InitHosts, InitSlots, InitEnds, InitCascade, InitRemembered, InitLedger DEF IInv

LEMMA IInvStep == IInv /\ [Next]_vars => IInv'
BY OKStep, OnceStep, HostsStep, SlotsStep, EndsOnceStep, CascadeStep, RememberedStep, LedgerStep
DEF IInv

(***************************************************************************)
(* The invariant holds in every reachable state.                           *)
(***************************************************************************)
THEOREM Invariance == Spec => []IInv
<1>1. QED
  BY IInvInit, IInvStep, PTL DEF Spec

(***************************************************************************)
(* A slot is held exactly from the admission of a request until its entry  *)
(* ends or its REQ turns out not to be sent, whichever of cancel, terminal,*)
(* death and failed write comes first (relay_switch.py:1215-1230,          *)
(* 1259-1263), and the table has counted every request it ever held.       *)
(***************************************************************************)
THEOREM Permits == Spec => []PermitsAccounted
<1>1. IInv => PermitsAccounted
  BY DEF IInv, StateOK, SlotsHeld, PermitsAccounted
<1>2. QED
  BY <1>1, Invariance, PTL

(***************************************************************************)
(* Every response ends once, and its requester's entry with it, however a  *)
(* cancel, a death and the host's own END race (relay_switch.py:1675-1690, *)
(* request_state.py:473).                                                  *)
(***************************************************************************)
THEOREM ResponsesEndOnce == Spec => []EndsOnce
<1>1. IInv => EndsOnce
  BY DEF IInv
<1>2. QED
  BY <1>1, Invariance, PTL

(***************************************************************************)
(* No call that was recorded under a cancelled request is left in the      *)
(* table, whatever the tree of calls (relay_switch.py:1025-1046).          *)
(***************************************************************************)
THEOREM CascadeCompletes == Spec => []CascadeIsComplete
<1>1. IInv => CascadeIsComplete
  BY DEF IInv
<1>2. QED
  BY <1>1, Invariance, PTL

(***************************************************************************)
(* While the ring has room for all requests there were, no frame of one of *)
(* them is counted as one of an unknown request (relay_switch.py:1377-1391,*)
(* request_state.py:473-525).                                              *)
(***************************************************************************)
THEOREM StragglersAreKnown == Spec => []NoFalseAlarm
<1>1. IInv => NoFalseAlarm
  BY DEF IInv, Remembered, NoFalseAlarm
<1>2. QED
  BY <1>1, Invariance, PTL

(***************************************************************************)
(* The table's ledger of a response is the window its sender has and the   *)
(* CHUNKs it sent since, so that it never reads negative unless the sender *)
(* overran its window (relay_switch.py:1292-1296, request_state.py:155-162,*)
(* 573-580).                                                               *)
(***************************************************************************)
THEOREM LedgersAreTrue == Spec => []LedgerIsTheWindow
<1>1. IInv => LedgerIsTheWindow
  BY DEF IInv
<1>2. QED
  BY <1>1, Invariance, PTL
=============================================================================
