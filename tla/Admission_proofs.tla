--------------------------- MODULE Admission_proofs ---------------------------
(***************************************************************************)
(* Proofs about Admission for every set of requests, pools, chains and     *)
(* advertisements.                                                         *)
(***************************************************************************)
EXTENDS Admission, FiniteSetTheorems, TLAPS

(* A request has a permit exactly while it is admitted, and gives its slots *)
(* back only when the permit was released.                                  *)
PermitOfAdmitted ==
  \A r \in Requests :
    /\ pc[r] = "admitted" <=> permit[r] # "none"
    /\ owed[r] > 0 => permit[r] = "released"

Inv ==
  /\ TypeOK
  /\ PermitOfAdmitted
  /\ LineIsOrdered
  /\ UntimedOnlyWhileThere
  /\ NobodySleepsOnItsTurn
  /\ SlotsAccounted

(***************************************************************************)
(* A request in line holds nothing.                                        *)
(***************************************************************************)
LEMMA InLineHoldsNothing ==
  ASSUME TypeOK, PermitOfAdmitted, NEW r \in Requests, pc[r] # "admitted"
  PROVE  r \notin Holders /\ permit[r] = "none" /\ owed[r] = 0
BY DEF TypeOK, PermitOfAdmitted, Holders

LEMMA HoldersAreCounted ==
  ASSUME NEW p \in PoolNames
  PROVE  /\ IsFiniteSet(HoldersOf(p))
         /\ Cardinality(HoldersOf(p)) \in Nat
<1>1. IsFiniteSet(HoldersOf(p))
  BY ChainAssumption, FS_Subset DEF HoldersOf, Holders
<1>2. QED
  BY <1>1, FS_CardinalityType

(***************************************************************************)
(* Slots are taken and given back for a whole chain.                       *)
(***************************************************************************)
LEMMA TakeCounts ==
  ASSUME TypeOK, SlotsAccounted, NEW r \in Requests, r \notin Holders,
         Holders' = Holders \cup {r}, active' = Take(active, Chain[r])
  PROVE  SlotsAccounted'
<1> SUFFICES ASSUME NEW p \in PoolNames
             PROVE  active'[p] = Cardinality(HoldersOf(p)')
  BY DEF SlotsAccounted
<1>1. CASE p \in Chain[r]
  <2>1. HoldersOf(p)' = HoldersOf(p) \cup {r} /\ r \notin HoldersOf(p)
    BY <1>1 DEF HoldersOf
  <2>2. Cardinality(HoldersOf(p)') = Cardinality(HoldersOf(p)) + 1
    BY <2>1, HoldersAreCounted, FS_AddElement
  <2>3. active'[p] = active[p] + 1
    BY <1>1 DEF TypeOK, Take
  <2>4. QED
    BY <2>2, <2>3 DEF SlotsAccounted
<1>2. CASE p \notin Chain[r]
  <2>1. HoldersOf(p)' = HoldersOf(p)
    BY <1>2 DEF HoldersOf
  <2>2. active'[p] = active[p]
    BY <1>2 DEF TypeOK, Take
  <2>3. QED
    BY <2>1, <2>2 DEF SlotsAccounted
<1>3. QED
  BY <1>1, <1>2

LEMMA ReleaseCounts ==
  ASSUME TypeOK, SlotsAccounted, NEW r \in Requests, r \in Holders,
         Holders' = Holders \ {r}, active' = Release(active, Chain[r])
  PROVE  SlotsAccounted'
<1> SUFFICES ASSUME NEW p \in PoolNames
             PROVE  active'[p] = Cardinality(HoldersOf(p)')
  BY DEF SlotsAccounted
<1>1. CASE p \in Chain[r]
  <2>1. HoldersOf(p)' = HoldersOf(p) \ {r} /\ r \in HoldersOf(p)
    BY <1>1 DEF HoldersOf
  <2>2. /\ Cardinality(HoldersOf(p)') = Cardinality(HoldersOf(p)) - 1
        /\ Cardinality(HoldersOf(p)) # 0
    BY <2>1, HoldersAreCounted, FS_RemoveElement, FS_EmptySet
  <2>3. active[p] = Cardinality(HoldersOf(p)) /\ active[p] \in Nat
    BY DEF SlotsAccounted, TypeOK
  <2>4. active'[p] = active[p] - 1
    BY <1>1, <2>2, <2>3 DEF TypeOK, Release
  <2>5. QED
    BY <2>2, <2>3, <2>4
<1>2. CASE p \notin Chain[r]
  <2>1. HoldersOf(p)' = HoldersOf(p)
    BY <1>2 DEF HoldersOf
  <2>2. active'[p] = active[p]
    BY <1>2 DEF TypeOK, Release
  <2>3. QED
    BY <2>1, <2>2 DEF SlotsAccounted
<1>3. QED
  BY <1>1, <1>2

LEMMA SameCounts ==
  ASSUME SlotsAccounted, Holders' = Holders, active' = active
  PROVE  SlotsAccounted'
BY DEF SlotsAccounted, HoldersOf

LEMMA InitInv == Init => Inv
<1> SUFFICES ASSUME Init PROVE Inv
  OBVIOUS
<1>1. TypeOK
  BY DEF Init, TypeOK, Unlimited
<1>2. PermitOfAdmitted /\ UntimedOnlyWhileThere /\ NobodySleepsOnItsTurn
  BY DEF Init, PermitOfAdmitted, UntimedOnlyWhileThere, NobodySleepsOnItsTurn
<1>3. LineIsOrdered
  BY DEF Init, LineIsOrdered, InLine
<1>4. SlotsAccounted
  <2> SUFFICES ASSUME NEW p \in PoolNames PROVE active[p] = Cardinality(HoldersOf(p))
    BY DEF SlotsAccounted
  <2>1. HoldersOf(p) = {}
    BY DEF Init, HoldersOf, Holders
  <2>2. QED
    BY <2>1, FS_EmptySet DEF Init
<1>5. QED
  BY <1>1, <1>2, <1>3, <1>4 DEF Inv

(***************************************************************************)
(* Whoever leaves a line leaves a line behind.                             *)
(***************************************************************************)
LEMMA LeaveKeepsOrder ==
  ASSUME NEW r \in Requests, NEW order \in [Requests -> SUBSET Requests],
         \A q \in Requests : order[q] \subseteq (InLine \cup {r}) \ {q},
         \A q \in InLine \cup {r} : \A s \in (InLine \cup {r}) \ {q} : s \in order[q] <=> q \notin order[s],
         ahead' = Leave(order, r), InLine' = InLine \ {r}
  PROVE  LineIsOrdered'
<1>1. \A q \in Requests : ahead'[q] = IF q = r THEN {} ELSE order[q] \ {r}
  BY DEF Leave
<1>2. ASSUME NEW q \in Requests
      PROVE  ahead'[q] \subseteq InLine' \ {q}
  <2>1. CASE q = r
    BY <1>1, <2>1
  <2>2. CASE q # r
    <3>1. ahead'[q] = order[q] \ {r} /\ order[q] \subseteq (InLine \cup {r}) \ {q}
      BY <1>1, <2>2
    <3>2. QED
      BY <3>1
  <2>3. QED
    BY <2>1, <2>2
<1>3. ASSUME NEW q \in InLine \ {r}, NEW s \in (InLine \ {r}) \ {q}
      PROVE  s \in ahead'[q] <=> q \notin ahead'[s]
  <2>1. ahead'[q] = order[q] \ {r} /\ ahead'[s] = order[s] \ {r}
    BY <1>1 DEF InLine
  <2>2. s \in order[q] <=> q \notin order[s]
    OBVIOUS
  <2>3. QED
    BY <2>1, <2>2
<1>4. QED
  BY <1>2, <1>3 DEF LineIsOrdered

(***************************************************************************)
(* An iteration of acquire's loop, for a request that stands in the line   *)
(* it is given: line and order are the line with it.                       *)
(***************************************************************************)
LEMMA IterateInv ==
  ASSUME Inv, NEW r \in Requests, pc[r] \in {"idle", "check"}, permit[r] = "none",
         NEW order \in [Requests -> SUBSET Requests],
         \A q \in Requests : order[q] \subseteq (InLine \cup {r}) \ {q},
         \A q \in InLine \cup {r} : \A s \in (InLine \cup {r}) \ {q} : s \in order[q] <=> q \notin order[s],
         \A q \in Requests \ {r} : order[q] = ahead[q],
         Iterate(r, InLine \cup {r}, order)
  PROVE  Inv'
<1> USE DEF Inv
<1>0. UNCHANGED <<known, capacity, outage, cancelled, owed>>
  BY DEF Iterate
<1>1. r \notin Holders
  BY InLineHoldsNothing, r \in Requests
<1>2. CASE GivesUp(r, order)
  <2>1. /\ ahead' = Leave(order, r)
        /\ pc' = [q \in Requests |-> IF q = r THEN "idle" ELSE Notified(q)]
        /\ UNCHANGED <<active, permit, calls>>
    BY <1>2 DEF GivesUp, LeavesLine
  <2>2. InLine' = InLine \ {r}
    BY <2>1 DEF InLine, Notified, TypeOK
  <2>3. TypeOK'
    BY <1>0, <2>1 DEF TypeOK, Leave, Notified
  <2>4. PermitOfAdmitted'
    BY <1>0, <2>1 DEF PermitOfAdmitted, Notified, TypeOK
  <2>5. LineIsOrdered'
    BY <2>1, <2>2, LeaveKeepsOrder
  <2>6. UntimedOnlyWhileThere' /\ NobodySleepsOnItsTurn'
    BY <2>1 DEF UntimedOnlyWhileThere, NobodySleepsOnItsTurn, Notified, TypeOK
  <2>7. SlotsAccounted'
    BY <1>0, <2>1, SameCounts DEF Holders
  <2>8. QED
    BY <2>3, <2>4, <2>5, <2>6, <2>7
<1>3. CASE IsAdmitted(r, InLine \cup {r}, order)
  <2>1. /\ ahead' = Leave(order, r)
        /\ pc' = [q \in Requests |-> IF q = r THEN "admitted" ELSE Notified(q)]
        /\ active' = Take(active, Chain[r])
        /\ permit' = [permit EXCEPT ![r] = "held"]
        /\ calls' = [calls EXCEPT ![r] = 0]
    BY <1>3 DEF IsAdmitted, LeavesLine
  <2>2. InLine' = InLine \ {r}
    BY <2>1 DEF InLine, Notified, TypeOK
  <2>3. TypeOK'
    BY <1>0, <2>1 DEF TypeOK, Leave, Notified, Take
  <2>4. PermitOfAdmitted'
    BY <1>0, <2>1, InLineHoldsNothing DEF PermitOfAdmitted, Notified, TypeOK
  <2>5. LineIsOrdered'
    BY <2>1, <2>2, LeaveKeepsOrder
  <2>6. UntimedOnlyWhileThere' /\ NobodySleepsOnItsTurn'
    BY <2>1 DEF UntimedOnlyWhileThere, NobodySleepsOnItsTurn, Notified, TypeOK
  <2>7. SlotsAccounted'
    <3>1. Holders' = Holders \cup {r}
      BY <1>0, <2>1 DEF Holders, TypeOK
    <3>2. QED
      BY <1>1, <2>1, <3>1, TakeCounts
  <2>8. QED
    BY <2>3, <2>4, <2>5, <2>6, <2>7
<1>4. CASE Waits(r, InLine \cup {r}, order)
  <2>1. /\ ahead' = order
        /\ pc' = [pc EXCEPT ![r] =
                    IF outage = "grace" \/ r \in Cancellable THEN "timed" ELSE "wait"]
        /\ UNCHANGED <<active, permit, calls>>
        /\ outage # "expired"
        /\ ~(outage = "none" /\ IsNextUp(r, InLine \cup {r}, order, Chain, capacity, active))
    BY <1>4 DEF Waits
  <2>2. InLine' = InLine \cup {r}
    BY <2>1 DEF InLine, TypeOK
  <2>3. TypeOK'
    BY <1>0, <2>1 DEF TypeOK
  <2>4. PermitOfAdmitted'
    BY <1>0, <2>1 DEF PermitOfAdmitted, TypeOK
  <2>5. LineIsOrdered'
    BY <2>1, <2>2 DEF LineIsOrdered
  <2>6. UntimedOnlyWhileThere'
    BY <1>0, <2>1 DEF UntimedOnlyWhileThere, TypeOK
  <2>7. NobodySleepsOnItsTurn'
    <3> SUFFICES ASSUME NEW q \in Requests, pc'[q] \in {"wait", "timed"}, outage = "none"
                 PROVE  ~IsNextUp(q, InLine', ahead', Chain, capacity, active)
      BY <1>0, <2>1 DEF NobodySleepsOnItsTurn
    <3>1. CASE q = r
      BY <2>1, <2>2, <3>1
    <3>2. CASE q # r
      <4>1. pc[q] \in {"wait", "timed"} /\ ahead'[q] = ahead[q] /\ q \in InLine
        BY <2>1, <3>2 DEF TypeOK, InLine
      <4>2. ~IsNextUp(q, InLine, ahead, Chain, capacity, active)
        BY <4>1 DEF NobodySleepsOnItsTurn
      <4>3. QED
        BY <4>1, <4>2 DEF IsNextUp
    <3>3. QED
      BY <3>1, <3>2
  <2>8. SlotsAccounted'
    BY <1>0, <2>1, SameCounts DEF Holders
  <2>9. QED
    BY <2>3, <2>4, <2>5, <2>6, <2>7, <2>8
<1>5. QED
  BY <1>2, <1>3, <1>4 DEF Iterate

LEMMA NextInv == Inv /\ [Next]_vars => Inv'
<1> SUFFICES ASSUME Inv, [Next]_vars
             PROVE  Inv'
  OBVIOUS
<1> USE DEF Inv
<1>1. ASSUME NEW r \in Requests, Acquire(r)
      PROVE  Inv'
  <2>1. r \notin InLine /\ InLine \subseteq Requests /\ pc[r] = "idle" /\ permit[r] = "none"
    BY <1>1 DEF Acquire, InLine
  <2> DEFINE order == Join(ahead, InLine, r)
  <2>2. order \in [Requests -> SUBSET Requests]
    BY <2>1 DEF Join, TypeOK
  <2>3. order[r] = InLine /\ \A q \in Requests \ {r} : order[q] = ahead[q]
    BY DEF Join, TypeOK
  <2>4. \A q \in Requests : order[q] \subseteq (InLine \cup {r}) \ {q}
    BY <2>1, <2>3 DEF LineIsOrdered
  <2>5. \A q \in InLine \cup {r} : \A s \in (InLine \cup {r}) \ {q} :
          s \in order[q] <=> q \notin order[s]
    <3> SUFFICES ASSUME NEW q \in InLine \cup {r}, NEW s \in (InLine \cup {r}) \ {q}
                 PROVE  s \in order[q] <=> q \notin order[s]
      OBVIOUS
    <3>1. CASE q = r
      BY <2>1, <2>3, <3>1 DEF LineIsOrdered
    <3>2. CASE s = r
      BY <2>1, <2>3, <3>2 DEF LineIsOrdered
    <3>3. CASE q # r /\ s # r
      BY <2>1, <2>3, <3>3 DEF LineIsOrdered
    <3>4. QED
      BY <3>1, <3>2, <3>3
  <2>6. Iterate(r, InLine \cup {r}, order)
    BY <1>1 DEF Acquire
  <2> HIDE DEF order
  <2>7. QED
    BY <2>1, <2>2, <2>3, <2>4, <2>5, <2>6, IterateInv
<1>2. ASSUME NEW r \in Requests, Recheck(r)
      PROVE  Inv'
  <2>1. r \in InLine /\ pc[r] = "check" /\ permit[r] = "none"
    BY <1>2 DEF Recheck, InLine, PermitOfAdmitted
  <2>2. InLine \cup {r} = InLine
    BY <2>1
  <2>3. ahead \in [Requests -> SUBSET Requests] /\ \A q \in Requests : ahead[q] \subseteq InLine \ {q}
    BY DEF TypeOK, LineIsOrdered
  <2>4. \A q \in InLine : \A s \in InLine \ {q} : s \in ahead[q] <=> q \notin ahead[s]
    BY DEF LineIsOrdered
  <2>5. Iterate(r, InLine, ahead)
    BY <1>2 DEF Recheck
  <2>6. QED
    BY <2>1, <2>2, <2>3, <2>4, <2>5, IterateInv
<1>3. ASSUME NEW r \in Requests, WaitTimesOut(r)
      PROVE  Inv'
  <2>1. /\ UNCHANGED <<poolVars, ahead, outage, cancelled, permitVars>>
        /\ pc[r] = "timed" /\ pc' = [pc EXCEPT ![r] = "check"]
    BY <1>3 DEF WaitTimesOut
  <2>2. InLine' = InLine
    BY <2>1 DEF InLine, TypeOK
  <2>3. TypeOK' /\ PermitOfAdmitted' /\ LineIsOrdered' /\ UntimedOnlyWhileThere'
    BY <2>1, <2>2 DEF TypeOK, PermitOfAdmitted, LineIsOrdered, UntimedOnlyWhileThere, poolVars, permitVars
  <2>4. NobodySleepsOnItsTurn'
    BY <2>1, <2>2 DEF TypeOK, NobodySleepsOnItsTurn, poolVars
  <2>5. SlotsAccounted'
    BY <2>1, SameCounts DEF Holders, poolVars, permitVars
  <2>6. QED
    BY <2>3, <2>4, <2>5
<1>4. ASSUME NEW r \in Requests, Cancel(r)
      PROVE  Inv'
  <2>1. /\ UNCHANGED <<poolVars, ahead, outage, pc, permitVars>>
        /\ cancelled' = cancelled \cup {r} /\ r \in Cancellable
    BY <1>4 DEF Cancel
  <2>2. InLine' = InLine
    BY <2>1 DEF InLine
  <2>3. TypeOK' /\ PermitOfAdmitted' /\ LineIsOrdered' /\ UntimedOnlyWhileThere'
    BY <2>1, <2>2 DEF TypeOK, PermitOfAdmitted, LineIsOrdered, UntimedOnlyWhileThere, poolVars, permitVars
  <2>4. NobodySleepsOnItsTurn'
    BY <2>1, <2>2 DEF NobodySleepsOnItsTurn, poolVars
  <2>5. SlotsAccounted'
    BY <2>1, SameCounts DEF Holders, poolVars, permitVars
  <2>6. QED
    BY <2>3, <2>4, <2>5
<1>5. ASSUME NEW r \in Requests, CallRelease(r)
      PROVE  Inv'
  <2>1. /\ UNCHANGED <<poolVars, ahead, outage, pc, cancelled>>
        /\ permit[r] # "none" /\ calls[r] < 2
        /\ calls' = [calls EXCEPT ![r] = @ + 1]
        /\ permit' = [permit EXCEPT ![r] = "released"]
        /\ owed' = [owed EXCEPT ![r] = IF permit[r] = "held" THEN @ + 1 ELSE @]
    BY <1>5 DEF CallRelease
  <2>2. InLine' = InLine
    BY <2>1 DEF InLine
  <2>3. permit[r] = "held" => owed[r] = 0
    BY DEF TypeOK, PermitOfAdmitted
  <2>4. TypeOK'
    BY <2>1, <2>3 DEF TypeOK, poolVars
  <2>5. PermitOfAdmitted'
    BY <2>1 DEF TypeOK, PermitOfAdmitted
  <2>6. LineIsOrdered' /\ UntimedOnlyWhileThere' /\ NobodySleepsOnItsTurn'
    BY <2>1, <2>2 DEF LineIsOrdered, UntimedOnlyWhileThere, NobodySleepsOnItsTurn, poolVars
  <2>7. Holders' = Holders
    BY <2>1, <2>3 DEF Holders, TypeOK
  <2>8. QED
    BY <2>1, <2>4, <2>5, <2>6, <2>7, SameCounts DEF poolVars
<1>6. ASSUME NEW r \in Requests, GiveBack(r)
      PROVE  Inv'
  <2>1. /\ owed[r] > 0 /\ active' = Release(active, Chain[r])
        /\ owed' = [owed EXCEPT ![r] = @ - 1]
        /\ pc' = [q \in Requests |-> Notified(q)]
        /\ UNCHANGED <<known, capacity, ahead, outage, cancelled, permit, calls>>
    BY <1>6 DEF GiveBack
  <2>2. InLine' = InLine
    BY <2>1 DEF InLine, Notified, TypeOK
  <2>3. TypeOK'
    BY <2>1 DEF TypeOK, Notified, Release
  <2>4. PermitOfAdmitted'
    BY <2>1 DEF PermitOfAdmitted, Notified, TypeOK
  <2>5. LineIsOrdered'
    BY <2>1, <2>2 DEF LineIsOrdered
  <2>6. UntimedOnlyWhileThere' /\ NobodySleepsOnItsTurn'
    BY <2>1 DEF UntimedOnlyWhileThere, NobodySleepsOnItsTurn, Notified, TypeOK
  <2>7. r \in Holders /\ Holders' = Holders \ {r}
    <3>1. owed[r] = 1 /\ permit[r] = "released"
      BY <2>1 DEF TypeOK, PermitOfAdmitted
    <3>2. QED
      BY <2>1, <3>1 DEF Holders, TypeOK
  <2>8. SlotsAccounted'
    BY <2>1, <2>7, ReleaseCounts
  <2>9. QED
    BY <2>3, <2>4, <2>5, <2>6, <2>8
<1>7. ASSUME NEW r \in Requests, Return(r)
      PROVE  Inv'
  <2>1. /\ UNCHANGED <<poolVars, ahead, outage, owed>>
        /\ pc[r] \in {"admitted", "idle"} /\ owed[r] = 0
        /\ pc' = [pc EXCEPT ![r] = "idle"]
        /\ permit' = [permit EXCEPT ![r] = "none"]
        /\ calls' = [calls EXCEPT ![r] = 0]
        /\ cancelled' = cancelled \ {r}
        /\ permit[r] # "held"
    BY <1>7 DEF Return, PermitOfAdmitted
  <2>2. InLine' = InLine
    BY <2>1 DEF InLine, TypeOK
  <2>3. TypeOK'
    BY <2>1 DEF TypeOK, poolVars
  <2>4. PermitOfAdmitted'
    BY <2>1 DEF PermitOfAdmitted, TypeOK
  <2>5. LineIsOrdered' /\ UntimedOnlyWhileThere'
    BY <2>1, <2>2 DEF LineIsOrdered, UntimedOnlyWhileThere, TypeOK
  <2>6. NobodySleepsOnItsTurn'
    BY <2>1, <2>2 DEF NobodySleepsOnItsTurn, TypeOK, poolVars
  <2>7. Holders' = Holders
    BY <2>1 DEF Holders, TypeOK
  <2>8. QED
    BY <2>1, <2>3, <2>4, <2>5, <2>6, <2>7, SameCounts DEF poolVars
<1>8. ASSUME NEW map \in Advertisements, Configure(map)
      PROVE  Inv'
  <2>1. /\ known' = known \cup DOMAIN map
        /\ capacity' = [p \in PoolNames |-> IF p \in DOMAIN map THEN map[p] ELSE capacity[p]]
        /\ outage' = "none" /\ pc' = [q \in Requests |-> Notified(q)]
        /\ UNCHANGED <<active, ahead, cancelled, permitVars>>
    BY <1>8 DEF Configure
  <2>2. InLine' = InLine
    BY <2>1 DEF InLine, Notified, TypeOK
  <2>3. TypeOK'
    BY <2>1, AdvertisementAssumption DEF TypeOK, Notified, permitVars
  <2>4. PermitOfAdmitted'
    BY <2>1 DEF PermitOfAdmitted, Notified, TypeOK, permitVars
  <2>5. LineIsOrdered'
    BY <2>1, <2>2 DEF LineIsOrdered
  <2>6. UntimedOnlyWhileThere' /\ NobodySleepsOnItsTurn'
    BY <2>1 DEF UntimedOnlyWhileThere, NobodySleepsOnItsTurn, Notified, TypeOK
  <2>7. SlotsAccounted'
    BY <2>1, SameCounts DEF Holders, permitVars
  <2>8. QED
    BY <2>3, <2>4, <2>5, <2>6, <2>7
<1>9. CASE GoUnavailable
  <2>1. /\ outage' = IF outage = "none" THEN "grace" ELSE outage
        /\ pc' = [q \in Requests |-> Notified(q)]
        /\ UNCHANGED <<poolVars, ahead, cancelled, permitVars>>
    BY <1>9 DEF GoUnavailable
  <2>2. InLine' = InLine
    BY <2>1 DEF InLine, Notified, TypeOK
  <2>3. TypeOK'
    BY <2>1 DEF TypeOK, Notified, poolVars, permitVars
  <2>4. PermitOfAdmitted'
    BY <2>1 DEF PermitOfAdmitted, Notified, TypeOK, permitVars
  <2>5. LineIsOrdered'
    BY <2>1, <2>2 DEF LineIsOrdered
  <2>6. UntimedOnlyWhileThere' /\ NobodySleepsOnItsTurn'
    BY <2>1 DEF UntimedOnlyWhileThere, NobodySleepsOnItsTurn, Notified, TypeOK
  <2>7. SlotsAccounted'
    BY <2>1, SameCounts DEF Holders, permitVars, poolVars
  <2>8. QED
    BY <2>3, <2>4, <2>5, <2>6, <2>7
<1>10. CASE GraceExpires
  <2>1. /\ outage = "grace" /\ outage' = "expired"
        /\ UNCHANGED <<poolVars, ahead, pc, cancelled, permitVars>>
    BY <1>10 DEF GraceExpires
  <2>2. TypeOK' /\ PermitOfAdmitted' /\ LineIsOrdered'
    BY <2>1 DEF TypeOK, PermitOfAdmitted, LineIsOrdered, InLine, poolVars, permitVars
  <2>3. UntimedOnlyWhileThere' /\ NobodySleepsOnItsTurn'
    BY <2>1 DEF UntimedOnlyWhileThere, NobodySleepsOnItsTurn
  <2>4. SlotsAccounted'
    BY <2>1, SameCounts DEF Holders, permitVars, poolVars
  <2>5. QED
    BY <2>2, <2>3, <2>4
<1>11. CASE UNCHANGED vars
  <2>1. TypeOK' /\ PermitOfAdmitted' /\ LineIsOrdered' /\ UntimedOnlyWhileThere'
    BY <1>11 DEF vars, TypeOK, PermitOfAdmitted, LineIsOrdered, InLine, UntimedOnlyWhileThere,
                 poolVars, permitVars
  <2>2. NobodySleepsOnItsTurn'
    BY <1>11 DEF vars, NobodySleepsOnItsTurn, InLine, poolVars
  <2>3. SlotsAccounted'
    BY <1>11, SameCounts DEF vars, Holders, permitVars, poolVars
  <2>4. QED
    BY <2>1, <2>2, <2>3
<1>12. QED
  BY <1>1, <1>2, <1>3, <1>4, <1>5, <1>6, <1>7, <1>8, <1>9, <1>10, <1>11 DEF Next

(***************************************************************************)
(* Every variable of the controller keeps its type: above all, no counter  *)
(* of a pool goes below zero and no permit owes two releases.              *)
(***************************************************************************)
THEOREM TypeCorrect == Spec => []TypeOK
<1>1. Inv => TypeOK
  BY DEF Inv
<1>2. QED
  BY <1>1, InitInv, NextInv, PTL DEF Spec

(***************************************************************************)
(* Every pool counts exactly the requests that hold a slot in it.          *)
(***************************************************************************)
THEOREM SlotsAreAccounted == Spec => []SlotsAccounted
<1>1. Inv => SlotsAccounted
  BY DEF Inv
<1>2. QED
  BY <1>1, InitInv, NextInv, PTL DEF Spec

(***************************************************************************)
(* No waiter sleeps when it is its turn, whatever the chains, capacities    *)
(* and outages.                                                            *)
(***************************************************************************)
THEOREM SleepersAreNotNext == Spec => []NobodySleepsOnItsTurn
<1>1. Inv => NobodySleepsOnItsTurn
  BY DEF Inv
<1>2. QED
  BY <1>1, InitInv, NextInv, PTL DEF Spec

(***************************************************************************)
(* The line stays an order of those in it.                                 *)
(***************************************************************************)
THEOREM LineStaysOrdered == Spec => []LineIsOrdered
<1>1. Inv => LineIsOrdered
  BY DEF Inv
<1>2. QED
  BY <1>1, InitInv, NextInv, PTL DEF Spec

(***************************************************************************)
(* Every step is a step of the slots seen from outside: a request enters   *)
(* with the admission, exits when its slots come back, and an              *)
(* advertisement resizes.                                                  *)
(***************************************************************************)
LEMMA StepImplements == Inv /\ [Next]_vars => [SlotsOfChains!Next]_(SlotsOfChains!vars)
<1> SUFFICES ASSUME Inv, [Next]_vars
             PROVE  [SlotsOfChains!Next]_(SlotsOfChains!vars)
  OBVIOUS
<1> USE DEF Inv
<1> DEFINE Stutter == Holders' = Holders /\ capacity' = capacity
<1>1. ASSUME Stutter PROVE UNCHANGED SlotsOfChains!vars
  BY <1>1 DEF SlotsOfChains!vars
<1>2. ASSUME NEW r \in Requests, NEW line, NEW order, pc[r] \in {"idle", "check"},
             permit[r] = "none", Iterate(r, line, order)
      PROVE  SlotsOfChains!Next \/ Stutter
  <2>1. capacity' = capacity /\ owed' = owed
    BY <1>2 DEF Iterate
  <2>2. CASE GivesUp(r, order) \/ Waits(r, line, order)
    BY <2>1, <2>2 DEF GivesUp, Waits, Holders
  <2>3. CASE IsAdmitted(r, line, order)
    <3>1. r \notin Holders
      BY <1>2, InLineHoldsNothing DEF PermitOfAdmitted
    <3>2. Holders' = Holders \cup {r}
      BY <2>1, <2>3 DEF IsAdmitted, Holders, TypeOK
    <3>3. ASSUME NEW p \in Chain[r]
          PROVE  ~SlotsOfChains!Full(p)
      <4>1. p \in PoolNames /\ PoolHasRoom(capacity[p], active[p])
        BY <2>3, ChainAssumption DEF IsAdmitted, IsNextUp, HasRoom
      <4>2. active[p] = Cardinality(SlotsOfChains!Holding(p))
        BY <4>1 DEF SlotsAccounted, HoldersOf, SlotsOfChains!Holding
      <4>3. capacity[p] \in Nat /\ active[p] \in Nat
        BY <4>1 DEF TypeOK
      <4>4. SlotsOfChains!Full(p) <=> capacity[p] # 0 /\ active[p] >= capacity[p]
        BY <4>2, Zenon DEF SlotsOfChains!Full, SlotsOfChains!Cardinality, Cardinality
      <4>5. ~(capacity[p] # 0 /\ active[p] >= capacity[p])
        BY <4>1, <4>3, SMT DEF PoolHasRoom, Unlimited
      <4>6. QED
        BY <4>4, <4>5
    <3>4. SlotsOfChains!Enter(r)
      BY <2>1, <3>1, <3>2, <3>3 DEF SlotsOfChains!Enter
    <3>5. QED
      BY <3>4 DEF SlotsOfChains!Next
  <2>4. QED
    BY <1>2, <2>2, <2>3 DEF Iterate
<1>3. ASSUME NEW r \in Requests, Acquire(r) \/ Recheck(r)
      PROVE  SlotsOfChains!Next \/ Stutter
  <2>1. PICK line, order : Iterate(r, line, order)
    BY <1>3 DEF Acquire, Recheck
  <2>2. pc[r] \in {"idle", "check"} /\ permit[r] = "none"
    BY <1>3 DEF Acquire, Recheck, PermitOfAdmitted
  <2>3. QED
    BY <1>2, <2>1, <2>2
<1>4. ASSUME NEW r \in Requests, WaitTimesOut(r) \/ Cancel(r)
      PROVE  Stutter
  BY <1>4 DEF WaitTimesOut, Cancel, Holders, poolVars, permitVars
<1>5. ASSUME NEW r \in Requests, CallRelease(r)
      PROVE  Stutter
  <2>1. permit[r] = "held" => owed[r] = 0
    BY DEF TypeOK, PermitOfAdmitted
  <2>2. QED
    BY <1>5, <2>1 DEF CallRelease, Holders, TypeOK, poolVars
<1>6. ASSUME NEW r \in Requests, GiveBack(r)
      PROVE  SlotsOfChains!Next
  <2>1. owed[r] = 1 /\ permit[r] = "released"
    BY <1>6 DEF GiveBack, TypeOK, PermitOfAdmitted
  <2>2. r \in Holders /\ Holders' = Holders \ {r}
    BY <1>6, <2>1 DEF GiveBack, Holders, TypeOK
  <2>3. SlotsOfChains!Exit(r)
    BY <1>6, <2>2 DEF GiveBack, SlotsOfChains!Exit
  <2>4. QED
    BY <2>3 DEF SlotsOfChains!Next
<1>7. ASSUME NEW r \in Requests, Return(r)
      PROVE  Stutter
  BY <1>7 DEF Return, Holders, TypeOK, PermitOfAdmitted, poolVars
<1>8. ASSUME NEW map \in Advertisements, Configure(map)
      PROVE  SlotsOfChains!Next
  <2>1. Holders' = Holders
    BY <1>8 DEF Configure, Holders, permitVars
  <2>2. capacity' \in [PoolNames -> Nat]
    BY NextInv DEF TypeOK
  <2>3. QED
    BY <2>1, <2>2 DEF SlotsOfChains!Resize, SlotsOfChains!Next
<1>9. CASE GoUnavailable \/ GraceExpires
  BY <1>1, <1>9 DEF GoUnavailable, GraceExpires, Holders, poolVars, permitVars
<1>10. CASE UNCHANGED vars
  BY <1>1, <1>10 DEF vars, Holders, poolVars, permitVars
<1>11. QED
  BY <1>1, <1>3, <1>4, <1>5, <1>6, <1>7, <1>8, <1>9, <1>10 DEF Next

(***************************************************************************)
(* The controller implements the slots: a request is let in only when each *)
(* pool of its chain is below its capacity at that moment.                 *)
(***************************************************************************)
THEOREM ImplementsSlots == Spec => IsSlots
<1>1. Init => SlotsOfChains!Init
  BY DEF Init, SlotsOfChains!Init, Holders, Unlimited
<1>2. QED
  BY <1>1, InitInv, NextInv, StepImplements, PTL DEF Spec, IsSlots, SlotsOfChains!Spec
=============================================================================
