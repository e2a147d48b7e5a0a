------------------------------ MODULE Admission ------------------------------
(***************************************************************************)
(* The engine's admission of requests to the pools of one installed        *)
(* cartridge: AdmissionController of bifaci/request_state.py.  Each        *)
(* request is a thread that waits on the controller's condition until its  *)
(* whole chain of pools has room and nobody who waited longer could go     *)
(* instead.  Meanwhile the install advertises new capacities, goes         *)
(* unavailable and comes back, waits are cancelled, and requests that end  *)
(* give their slots back.                                                  *)
(*                                                                         *)
(* Every iteration of acquire's loop runs under the condition's lock, the  *)
(* first one together with the joining of the line: each is one step.      *)
(***************************************************************************)
EXTENDS Pools, FiniteSets

CONSTANTS
  Requests,        \* the threads that acquire, one request after another
  PoolNames,       \* the pools the install may advertise
  Chain,           \* the pools each request must be admitted through
  Cancellable,     \* the requests whose caller may give up
  Advertisements   \* the pool maps the install advertises: functions from
                   \* some of its pools to their effective capacities

ASSUME ChainAssumption ==
  /\ IsFiniteSet(Requests)
  /\ Chain \in [Requests -> (SUBSET PoolNames) \ {{}}]
  /\ Cancellable \subseteq Requests

ASSUME AdvertisementAssumption ==
  \A map \in Advertisements :
    DOMAIN map \subseteq PoolNames /\ \A p \in DOMAIN map : map[p] \in Nat

VARIABLES
  known,      \* the pools ever advertised: a pool is never forgotten
  capacity,   \* the capacity of each pool
  active,     \* how many requests hold a slot in each pool
  ahead,      \* who is ahead of each request in line
  outage,     \* is the install there, away within its grace, or for longer
  pc,         \* where each thread is in acquire
  cancelled,  \* the requests whose cancel event is set
  permit,     \* each request's AdmissionPermit, if it has one
  calls,      \* how often release was called on that permit
  owed        \* releases of it that have still to take the controller's lock

poolVars   == <<known, capacity, active>>
permitVars == <<permit, calls, owed>>
vars == <<poolVars, ahead, outage, pc, cancelled, permitVars>>

InLine == {r \in Requests : pc[r] \in {"check", "wait", "timed"}}

TypeOK ==
  /\ known \subseteq PoolNames
  /\ capacity \in [PoolNames -> Nat]
  /\ active \in [PoolNames -> Nat]
  /\ ahead \in [Requests -> SUBSET Requests]
  /\ outage \in {"none", "grace", "expired"}
  /\ pc \in [Requests -> {"idle", "check", "wait", "timed", "admitted"}]
  /\ cancelled \subseteq Cancellable
  /\ permit \in [Requests -> {"none", "held", "released"}]
  /\ calls \in [Requests -> 0..2]
  /\ owed \in [Requests -> 0..1]

Init ==
  /\ known = {}
  /\ capacity = [p \in PoolNames |-> Unlimited]
  /\ active = [p \in PoolNames |-> 0]
  /\ ahead = [r \in Requests |-> {}]
  /\ outage = "none"
  /\ pc = [r \in Requests |-> "idle"]
  /\ cancelled = {}
  /\ permit = [r \in Requests |-> "none"]
  /\ calls = [r \in Requests |-> 0]
  /\ owed = [r \in Requests |-> 0]

(* notify_all: who waits on the condition looks at the state again. *)
Notified(q) == IF pc[q] \in {"wait", "timed"} THEN "check" ELSE pc[q]

-----------------------------------------------------------------------------
(* acquire: one iteration of its loop, for a request r that stands in line  *)
(* with the requests of line, in the order of order.                        *)

(* r leaves the line, without a permit or with one. *)
LeavesLine(r, order, to) ==
  /\ ahead' = Leave(order, r)
  /\ pc' = [q \in Requests |-> IF q = r THEN to ELSE Notified(q)]

GivesUp(r, order) ==
  /\ r \in cancelled \/ outage = "expired"
  /\ LeavesLine(r, order, "idle")
  /\ UNCHANGED <<active, permit, calls>>

IsAdmitted(r, line, order) ==
  /\ r \notin cancelled
  /\ outage = "none"
  /\ IsNextUp(r, line, order, Chain, capacity, active)
  /\ active' = Take(active, Chain[r])
  /\ LeavesLine(r, order, "admitted")
  /\ permit' = [permit EXCEPT ![r] = "held"]
  /\ calls' = [calls EXCEPT ![r] = 0]

(* Mutant: a wait during an outage has no timeout. *)
Waits_Untimed(r, line, order) ==
  /\ r \notin cancelled
  /\ outage # "expired"
  /\ ~ (outage = "none" /\ IsNextUp(r, line, order, Chain, capacity, active))
  /\ ahead' = order
  /\ pc' = [pc EXCEPT ![r] = IF r \in Cancellable THEN "timed" ELSE "wait"]
  /\ UNCHANGED <<active, permit, calls>>

(* Mutant: a wait that can be cancelled does not look at the event again. *)
Waits_NotPolled(r, line, order) ==
  /\ r \notin cancelled
  /\ outage # "expired"
  /\ ~ (outage = "none" /\ IsNextUp(r, line, order, Chain, capacity, active))
  /\ ahead' = order
  /\ pc' = [pc EXCEPT ![r] = IF outage = "grace" THEN "timed" ELSE "wait"]
  /\ UNCHANGED <<active, permit, calls>>

(* The wait ends by itself when the outage's grace does; a wait that can be *)
(* cancelled ends every few milliseconds, the event cannot be waited for.   *)
Waits(r, line, order) ==
  /\ r \notin cancelled
  /\ outage # "expired"
  /\ ~ (outage = "none" /\ IsNextUp(r, line, order, Chain, capacity, active))
  /\ ahead' = order
  /\ pc' = [pc EXCEPT ![r] =
              IF outage = "grace" \/ r \in Cancellable THEN "timed" ELSE "wait"]
  /\ UNCHANGED <<active, permit, calls>>

Iterate(r, line, order) ==
  /\ \/ GivesUp(r, order)
     \/ IsAdmitted(r, line, order)
     \/ Waits(r, line, order)
  /\ UNCHANGED <<known, capacity, outage, cancelled, owed>>

(* A chain with a pool that was never advertised is refused at once. *)
Acquire(r) ==
  /\ pc[r] = "idle"
  /\ permit[r] = "none"
  /\ r \notin cancelled
  /\ Chain[r] \subseteq known
  /\ Iterate(r, InLine \cup {r}, Join(ahead, InLine, r))

Recheck(r) ==
  /\ pc[r] = "check"
  /\ Iterate(r, InLine, ahead)

WaitTimesOut(r) ==
  /\ pc[r] = "timed"
  /\ pc' = [pc EXCEPT ![r] = "check"]
  /\ UNCHANGED <<poolVars, ahead, outage, cancelled, permitVars>>

(* The caller gives up: it sets the event and tells nobody. *)
Cancel(r) ==
  /\ r \in Cancellable \cap InLine
  /\ cancelled' = cancelled \cup {r}
  /\ UNCHANGED <<poolVars, ahead, outage, pc, permitVars>>

-----------------------------------------------------------------------------
(* AdmissionPermit.release is called by whatever ends the request: the      *)
(* request table when it terminates the entry, and the sender when its      *)
(* frame could not be written, which may well happen to the same request.   *)

(* Mutant: the flag is not looked at. *)
CallRelease_Unchecked(r) ==
  /\ permit[r] # "none"
  /\ calls[r] < 2
  /\ calls' = [calls EXCEPT ![r] = @ + 1]
  /\ permit' = [permit EXCEPT ![r] = "released"]
  /\ owed' = [owed EXCEPT ![r] = @ + 1]
  /\ UNCHANGED <<poolVars, ahead, outage, pc, cancelled>>

CallRelease(r) ==
  /\ permit[r] # "none"
  /\ calls[r] < 2
  /\ calls' = [calls EXCEPT ![r] = @ + 1]
  /\ permit' = [permit EXCEPT ![r] = "released"]
  /\ owed' = [owed EXCEPT ![r] = IF permit[r] = "held" THEN @ + 1 ELSE @]
  /\ UNCHANGED <<poolVars, ahead, outage, pc, cancelled>>

(* Mutant: the slots come back and nobody is told. *)
GiveBack_Silent(r) ==
  /\ owed[r] > 0
  /\ active' = Release(active, Chain[r])
  /\ owed' = [owed EXCEPT ![r] = @ - 1]
  /\ UNCHANGED <<known, capacity, ahead, outage, pc, cancelled, permit, calls>>

(* AdmissionController._release, under the lock. *)
GiveBack(r) ==
  /\ owed[r] > 0
  /\ active' = Release(active, Chain[r])
  /\ owed' = [owed EXCEPT ![r] = @ - 1]
  /\ pc' = [q \in Requests |-> Notified(q)]
  /\ UNCHANGED <<known, capacity, ahead, outage, cancelled, permit, calls>>

(* The request is over; its thread may send another one. *)
Return(r) ==
  /\ \/ pc[r] = "admitted" /\ permit[r] = "released"
     \/ pc[r] = "idle" /\ r \in cancelled
  /\ owed[r] = 0
  /\ pc' = [pc EXCEPT ![r] = "idle"]
  /\ permit' = [permit EXCEPT ![r] = "none"]
  /\ calls' = [calls EXCEPT ![r] = 0]
  /\ cancelled' = cancelled \ {r}
  /\ UNCHANGED <<poolVars, ahead, outage, owed>>

-----------------------------------------------------------------------------
(* configure_pools: the install advertises itself, which ends any outage. *)
Configure(map) ==
  /\ known' = known \cup DOMAIN map
  /\ capacity' = [p \in PoolNames |-> IF p \in DOMAIN map THEN map[p] ELSE capacity[p]]
  /\ outage' = "none"
  /\ pc' = [q \in Requests |-> Notified(q)]
  /\ UNCHANGED <<active, ahead, cancelled, permitVars>>

(* reconcile_master and disable_master: the install is no longer there. An *)
(* outage in progress keeps its beginning.                                 *)
GoUnavailable ==
  /\ known # {}
  /\ outage' = IF outage = "none" THEN "grace" ELSE outage
  /\ pc' = [q \in Requests |-> Notified(q)]
  /\ UNCHANGED <<poolVars, ahead, cancelled, permitVars>>

(* Time passes: the outage has lasted for the whole grace window. *)
GraceExpires ==
  /\ outage = "grace"
  /\ outage' = "expired"
  /\ UNCHANGED <<poolVars, ahead, pc, cancelled, permitVars>>

Next ==
  \/ \E r \in Requests :
       \/ Acquire(r) \/ Recheck(r) \/ WaitTimesOut(r) \/ Cancel(r)
       \/ CallRelease(r) \/ GiveBack(r) \/ Return(r)
  \/ \E map \in Advertisements : Configure(map)
  \/ GoUnavailable
  \/ GraceExpires

Spec == Init /\ [][Next]_vars

(* The threads in acquire run, waits with a timeout time out and a release  *)
(* that was called goes on; time passes.  Nothing else need ever happen: an *)
(* admitted request may run for good, and nobody has to send, to cancel, to *)
(* advertise or to go away.                                                 *)
Fairness ==
  /\ \A r \in Requests :
       WF_vars(Recheck(r)) /\ WF_vars(WaitTimesOut(r)) /\ WF_vars(GiveBack(r))
  /\ WF_vars(GraceExpires)

FairSpec == Spec /\ Fairness
-----------------------------------------------------------------------------
(* Who owns slots: the holders of permits, and those about to give back. *)
Holders == {r \in Requests : permit[r] = "held" \/ owed[r] > 0}

HoldersOf(p) == {r \in Holders : p \in Chain[r]}

(* Every pool counts exactly the requests that hold a slot in it, however   *)
(* often and by whomever a permit is released: the release happens once,    *)
(* for the whole chain (request_state.py:483-487, 723-739).                 *)
SlotsAccounted == \A p \in PoolNames : active[p] = Cardinality(HoldersOf(p))

(* Nobody sleeps on the condition when it is its turn: whatever frees room, *)
(* shortens the line or ends an outage wakes the waiters                    *)
(* (request_state.py:789, 872-874, 886, 924).                               *)
NobodySleepsOnItsTurn ==
  \A r \in Requests :
    pc[r] \in {"wait", "timed"} /\ outage = "none" =>
      ~IsNextUp(r, InLine, ahead, Chain, capacity, active)

(* A sleep with no timeout never outlasts the install: when it goes away    *)
(* every waiter looks again and takes the grace as its timeout              *)
(* (request_state.py:801-808, 890-914).                                     *)
UntimedOnlyWhileThere == \A r \in Requests : pc[r] = "wait" => outage = "none"

(* The line is a line: of two requests in it one is ahead of the other,     *)
(* and nobody is behind a request that left (request_state.py:872-874).     *)
LineIsOrdered ==
  /\ \A r \in Requests : ahead[r] \subseteq InLine \ {r}
  /\ \A r \in InLine : \A q \in InLine \ {r} : q \in ahead[r] <=> r \notin ahead[q]

(* Every request that was admitted ends. *)
AdmittedEnd == \A r \in Requests : []<>(r \notin Holders)

(* Where admitted requests end, a waiter is admitted, fails or is cancelled *)
(* once the install is there for good or gone for good: neither those who   *)
(* came later nor a cancelled or dead waiter keeps it waiting               *)
(* (request_state.py:838-850).                                              *)
NoWaiterForgotten ==
  AdmittedEnd /\ (<>[](outage = "none") \/ <>[](outage # "none")) =>
    \A r \in Requests : r \in InLine ~> r \notin InLine

(* A waiter that gave up leaves the line whatever the state of the install  *)
(* and even if no other request ever ends: nobody notifies the condition    *)
(* for a cancel, the wait has to poll (request_state.py:908-912).           *)
CancelIsHeard ==
  \A r \in Requests : r \in cancelled ~> r \notin InLine

(* The controller implements slots that are entered only where there is room. *)
SlotsOfChains == INSTANCE Slots WITH
  Pools <- PoolNames, holders <- Holders

IsSlots == SlotsOfChains!Spec
=============================================================================
