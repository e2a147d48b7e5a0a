----------------------------- MODULE RelaySwitch -----------------------------
(***************************************************************************)
(* The engine's switch between its masters: RelaySwitch of                 *)
(* bifaci/relay_switch.py with its RequestTable.  The engine's threads     *)
(* send requests, grant credit and cancel; a reader thread per master      *)
(* takes the inventories of its host at once and queues everything else;   *)
(* one consumer, read_from_masters, handles what is queued; a driver       *)
(* probes masters whose caps have come back; hosts answer, call other      *)
(* caps, disconnect and attach again.                                      *)
(*                                                                         *)
(* A host with its socket and its reader is one actor: what it sends is    *)
(* queued at once, what is written to it is known to it at once, although  *)
(* it may still act as if it were not.  A request is registered at most    *)
(* once, so that its id stands for its routing id.  An exception loses the *)
(* frame at hand and goes to the caller of read_from_masters, who calls it *)
(* again.                                                                  *)
(***************************************************************************)
EXTENDS Request, SequencesExt

CONSTANTS
  Masters,
  Requests,        \* every request, each sent at most once
  Parent,          \* the request whose handler sends it, or Engine
  Serves,          \* the masters whose host has a cap for each request
  Cancellable,     \* the requests the engine may cancel
  RecentCapacity,  \* how many ended requests the table remembers
  InitialCredit,
  MaxGrants,       \* how often credit is granted to each response
  MaxEvents,       \* how often hosts disconnect, attach and send inventories
  MaxQueue,        \* how many frames may be queued when a host sends one
  Engine, NoMaster

ASSUME SwitchAssumption ==
  /\ Engine \notin Requests /\ NoMaster \notin Masters
  /\ Parent \in [Requests -> Requests \cup {Engine}]
  /\ Serves \in [Requests -> SUBSET Masters]
  /\ Cancellable \subseteq Requests
  /\ {RecentCapacity, InitialCredit, MaxGrants, MaxEvents, MaxQueue} \subseteq Nat

VARIABLES
  reading,      \* the masters whose connection is open and whose reader runs
  healthy, detached,   \* the flags of their slots
  advertising,  \* the masters whose last inventory had caps
  available,    \* those whose pool admits
  probes,       \* _pending_identity_probes
  probed,       \* what came of the first of them: "pending", "passed", "failed"
  queue,        \* _frame_queue
  table,        \* the RequestTable
  dest,         \* the master each request was routed to
  linked,       \* the requests recorded as children of a live parent
  ledger,       \* what the table believes the credit of a response to be
  slot,         \* the master whose pool the permit of a request is for
  pc,           \* where the engine's thread is in send_to_master
  target,       \* the master it resolved before it waited
  origin,       \* the master a peer request came from
  hosting,      \* what the destination's host does with a request
  window,       \* the credit its response has
  granted,      \* how often its origin granted credit
  got,          \* the response as its origin got it
  misplaced,    \* the requests of whose frames one was counted as no_route
  cancelled,    \* the requests that were cancelled
  seen,         \* the requests that were registered
  overlooked,   \* the masters a death of which left requests behind
  events

slotVars    == <<reading, healthy, detached, advertising>>
probeVars   == <<probes, probed>>
entryVars   == <<table, dest, linked, ledger, slot>>
engineVars  == <<pc, target>>
hostVars    == <<origin, hosting, window, granted>>
historyVars == <<misplaced, cancelled, seen, overlooked>>
vars == <<slotVars, available, probeVars, queue, entryVars, engineVars, hostVars, got,
          historyVars, events>>

FromEngine == {r \in Requests : Parent[r] = Engine}
Live == LiveRids(table)

(* _rebuild_cap_table and _find_master_for_cap: any of the masters that a *)
(* request could be dispatched to; the ranking of their caps is abstract. *)
Routable(r) == Serves[r] \cap healthy \cap advertising

(* Whom a frame comes from is told by dest and origin. *)
Message(kind, r) == [kind |-> kind, rid |-> r]

Eof(m) == [kind |-> "EOF", from |-> m]

Init ==
  /\ reading = Masters /\ healthy = Masters /\ detached = {}
  /\ advertising \in SUBSET Masters /\ available = advertising
  /\ probes = <<>> /\ probed = "pending"
  /\ queue = <<>>
  /\ table = TableEmpty
  /\ dest = [r \in Requests |-> NoMaster]
  /\ linked = {}
  /\ ledger = [r \in Requests |-> 0]
  /\ slot = [r \in Requests |-> NoMaster]
  /\ pc = [r \in FromEngine |-> "idle"]
  /\ target = [r \in FromEngine |-> NoMaster]
  /\ origin = [r \in Requests |-> NoMaster]
  /\ hosting = [r \in Requests |-> "none"]
  /\ window = [r \in Requests |-> 0]
  /\ granted = [r \in Requests |-> 0]
  /\ got = [r \in Requests |-> <<>>]
  /\ misplaced = {} /\ cancelled = {} /\ seen = {} /\ overlooked = {}
  /\ events = 0

-----------------------------------------------------------------------------
(* The request table.                                                       *)

(* Termination releases the permit the entry owns. *)
GivesBack(ends) ==
  slot' = [r \in Requests |-> IF r \in ends THEN NoMaster ELSE slot[r]]

(* Registration at m, with the ledger at the negotiated window. *)
Register(r, m) ==
  /\ CanRegister(table, r)
  /\ table' = Registered(table, r, r)
  /\ dest' = [dest EXCEPT ![r] = m]
  /\ ledger' = [ledger EXCEPT ![r] = InitialCredit]
  /\ seen' = seen \cup {r}

(* The write of the REQ: a host that is there has the request from now on. *)
Serve(r, m) ==
  IF m \in reading
  THEN /\ hosting' = [hosting EXCEPT ![r] = "serving"]
       /\ window' = [window EXCEPT ![r] = InitialCredit]
  ELSE UNCHANGED <<hosting, window>>

(* Ending a set of requests at once, in some order: Terminated for each. *)
EndAll(ends) ==
  \E order \in Bijection(1..Cardinality(ends), ends) :
    table' = [table EXCEPT !.live = [r \in DOMAIN @ \ ends |-> @[r]],
                           !.ended = Forgotten(@ \o order, RecentCapacity)]

(* CANCEL written to the host of each of them. *)
ToldToCancel(ends) ==
  [r \in Requests |-> IF r \in ends /\ hosting[r] = "serving" /\ dest[r] \in reading
                      THEN "cancelled" ELSE hosting[r]]

-----------------------------------------------------------------------------
(* The engine.                                                              *)

(* _acquire_cap_admission resolves the request under the lock, ... *)
Resolve(r) ==
  /\ pc[r] = "idle"
  /\ \/ /\ Routable(r) = {}
        /\ pc' = [pc EXCEPT ![r] = "failed"]
        /\ UNCHANGED <<target, available>>
     \/ \E m \in Routable(r) :
          /\ pc' = [pc EXCEPT ![r] = "resolved"]
          /\ target' = [target EXCEPT ![r] = m]
          /\ available' = available \cup {m}
  /\ UNCHANGED <<slotVars, probeVars, queue, entryVars, hostVars, got, historyVars, events>>

(* ... and waits without it: for room (Admission models that), or until *)
(* the grace is over.                                                   *)
Acquire(r) ==
  /\ pc[r] = "resolved"
  /\ \/ /\ target[r] \in available
        /\ slot' = [slot EXCEPT ![r] = target[r]]
        /\ pc' = [pc EXCEPT ![r] = "admitted"]
     \/ /\ target[r] \notin available
        /\ pc' = [pc EXCEPT ![r] = "failed"]
        /\ UNCHANGED slot
  /\ target' = [target EXCEPT ![r] = NoMaster]
  /\ UNCHANGED <<slotVars, available, probeVars, queue, table, dest, linked, ledger, hostVars,
                 got, historyVars, events>>

(* Mutant: a write that fails keeps the permit. *)
SendAdmitted_KeepsPermit(r) ==
  /\ pc[r] = "admitted"
  /\ \/ /\ Routable(r) = {}
        /\ pc' = [pc EXCEPT ![r] = "failed"]
        /\ slot' = [slot EXCEPT ![r] = NoMaster]
        /\ UNCHANGED <<table, dest, ledger, seen, hosting, window>>
     \/ \E m \in Routable(r) :
          /\ Register(r, m)
          /\ Serve(r, m)
          /\ pc' = [pc EXCEPT ![r] = IF m \in reading THEN "sent" ELSE "failed"]
          /\ UNCHANGED slot
  /\ UNCHANGED <<slotVars, available, probeVars, queue, linked, target, origin, granted,
                 got, misplaced, cancelled, overlooked, events>>

(* _send_to_master_admitted resolves it again, registers it and writes it. *)
(* If that fails the permit is given back; the entry, if there is one by   *)
(* then, stays.                                                            *)
SendAdmitted(r) ==
  /\ pc[r] = "admitted"
  /\ \/ /\ Routable(r) = {}
        /\ pc' = [pc EXCEPT ![r] = "failed"]
        /\ slot' = [slot EXCEPT ![r] = NoMaster]
        /\ UNCHANGED <<table, dest, ledger, seen, hosting, window>>
     \/ \E m \in Routable(r) :
          /\ Register(r, m)
          /\ Serve(r, m)
          /\ pc' = [pc EXCEPT ![r] = IF m \in reading THEN "sent" ELSE "failed"]
          /\ slot' = [slot EXCEPT ![r] = IF m \in reading THEN @ ELSE NoMaster]
  /\ UNCHANGED <<slotVars, available, probeVars, queue, linked, target, origin, granted,
                 got, misplaced, cancelled, overlooked, events>>

(* A CREDIT that reached the switch is recorded and written on. *)
Credit(r) ==
  /\ ledger' = [ledger EXCEPT ![r] = Ledger(@, "CREDIT", 1)]
  /\ window' = [window EXCEPT ![r] =
                  IF hosting[r] \in {"serving", "cancelled"} /\ dest[r] \in reading
                  THEN @ + 1 ELSE @]

Consumed(r) == Cardinality({i \in DOMAIN got[r] : got[r][i] = "CHUNK"})

(* Who gets a response grants what it consumed, one CHUNK after another. *)
Grants(r) ==
  /\ granted[r] < Consumed(r)
  /\ granted[r] < MaxGrants
  /\ granted' = [granted EXCEPT ![r] = @ + 1]

(* Mutant: what the engine grants is not recorded. *)
Grant_Unrecorded(r) ==
  /\ r \in FromEngine \cap Live
  /\ Grants(r)
  /\ window' = [window EXCEPT ![r] = @ + 1]
  /\ UNCHANGED <<slotVars, available, probeVars, queue, entryVars, engineVars, origin, hosting,
                 got, historyVars, events>>

(* A request that is not live any more is an error to the caller. *)
Grant(r) ==
  /\ r \in FromEngine \cap Live
  /\ Grants(r)
  /\ Credit(r)
  /\ UNCHANGED <<slotVars, available, probeVars, queue, table, dest, linked, slot, engineVars,
                 origin, hosting, got, historyVars, events>>

(* Mutant: the peer calls of the cancelled request go on. *)
Doomed_Alone(r) == {r}

(* _cancel_request_locked goes down the live children of live parents. *)
Cascades(S) == \A q \in linked \cap Live : Parent[q] \in S => q \in S

Doomed(r) == {q \in Live : \A S \in SUBSET Live : r \in S /\ Cascades(S) => q \in S}

Cancel(r) ==
  /\ r \in Cancellable \cap Live
  /\ EndAll(Doomed(r))
  /\ GivesBack(Doomed(r))
  /\ hosting' = ToldToCancel(Doomed(r))
  /\ cancelled' = cancelled \cup {r}
  /\ UNCHANGED <<slotVars, available, probeVars, queue, dest, linked, ledger, engineVars,
                 origin, window, granted, got, misplaced, seen, overlooked, events>>

-----------------------------------------------------------------------------
(* The hosts and their readers.                                             *)

Queues(message) == Len(queue) < MaxQueue /\ queue' = Append(queue, message)

Hosted(r) == hosting[r] \in {"serving", "cancelled"} /\ dest[r] \in reading

(* They send the response (an END stands for a handler's ERR too), ... *)
SendChunk(r) ==
  /\ Hosted(r) /\ window[r] > 0
  /\ window' = [window EXCEPT ![r] = @ - 1]
  /\ Queues(Message("CHUNK", r))
  /\ UNCHANGED <<slotVars, available, probeVars, entryVars, engineVars, origin, hosting, granted, got,
                 historyVars, events>>

SendTerminal(r) ==
  /\ Hosted(r)
  /\ Queues(Message(IF hosting[r] = "cancelled" THEN "ERR" ELSE "END", r))
  /\ hosting' = [hosting EXCEPT ![r] = "over"]
  /\ UNCHANGED <<slotVars, available, probeVars, entryVars, engineVars, origin, window, granted, got,
                 historyVars, events>>

(* ... call a cap for a request they serve, ... *)
Calls(r) == Parent[r] # Engine /\ Hosted(Parent[r])

CallPeer(r) ==
  /\ Calls(r) /\ origin[r] = NoMaster
  /\ origin' = [origin EXCEPT ![r] = dest[Parent[r]]]
  /\ Queues(Message("REQ", r))
  /\ UNCHANGED <<slotVars, available, probeVars, entryVars, engineVars, hosting, window, granted, got,
                 historyVars, events>>

(* ... grant credit to its response, or cancel it because they were. *)
SendPeerCredit(r) ==
  /\ Calls(r) /\ origin[r] # NoMaster
  /\ Grants(r)
  /\ Queues(Message("CREDIT", r))
  /\ UNCHANGED <<slotVars, available, probeVars, entryVars, engineVars, origin, hosting, window, got,
                 historyVars, events>>

SendPeerCancel(r) ==
  /\ Calls(r) /\ origin[r] # NoMaster /\ hosting[Parent[r]] = "cancelled"
  /\ hosting[r] \in {"none", "serving"}
  /\ Queues(Message("CANCEL", r))
  /\ UNCHANGED <<slotVars, available, probeVars, entryVars, engineVars, hostVars, got,
                 historyVars, events>>

Happens == events < MaxEvents /\ events' = events + 1

(* A RelayNotify.  When caps come back to a master that had none they are *)
(* held back until the master has been probed.                            *)
Notify(m) ==
  /\ m \in reading
  /\ Happens
  /\ \/ /\ advertising' = advertising \ {m}
        /\ available' = available \ {m}
        /\ UNCHANGED <<healthy, probes>>
     \/ /\ advertising' = advertising \cup {m}
        /\ available' = available \cup {m}
        /\ IF m \in advertising
           THEN UNCHANGED <<healthy, probes>>
           ELSE healthy' = healthy \ {m} /\ probes' = Append(probes, m)
  /\ UNCHANGED <<reading, detached, probed, queue, entryVars, engineVars, hostVars, got,
                 historyVars>>

(* The connection closes, and what the host was serving is lost. *)
Disconnect(m) ==
  /\ m \in reading
  /\ Happens
  /\ reading' = reading \ {m}
  /\ queue' = Append(queue, Eof(m))
  /\ hosting' = [r \in Requests |->
                   IF dest[r] = m /\ hosting[r] \in {"serving", "cancelled"} THEN "lost" ELSE hosting[r]]
  /\ UNCHANGED <<healthy, detached, advertising, available, probeVars, entryVars, engineVars,
                 origin, window, granted, got, historyVars>>

(* add_master: the reader of the slot has ended or its death was declared. *)
(* A host without caps is not verified; one that fails to identify itself  *)
(* joins unhealthy.  A host does not dial in again while its connection    *)
(* stands; add_master refuses that (645), unless a failed write had the    *)
(* slot declared dead.                                                     *)
Attach(m) ==
  /\ m \notin reading
  /\ Happens
  /\ reading' = reading \cup {m}
  /\ detached' = detached \ {m}
  /\ \/ /\ advertising' = advertising \ {m}
        /\ available' = available \ {m}
        /\ healthy' = healthy \cup {m}
     \/ /\ advertising' = advertising \cup {m}
        /\ available' = available \cup {m}
        /\ healthy' \in {healthy \cup {m}, healthy \ {m}}
  /\ UNCHANGED <<probeVars, queue, entryVars, engineVars, hostVars, got, historyVars>>

-----------------------------------------------------------------------------
(* The probe driver.                                                        *)
ProbeAnswered ==
  /\ probes # <<>> /\ probed = "pending"
  /\ \/ Head(probes) \in reading /\ probed' = "passed"
     \/ probed' = "failed"
  /\ UNCHANGED <<slotVars, available, probes, queue, entryVars, engineVars, hostVars, got,
                 historyVars, events>>

(* The result is applied to whatever the slot is by then. *)
ProbeConcludes ==
  /\ probed # "pending"
  /\ LET m == Head(probes) IN
     /\ healthy' = IF probed = "passed" THEN healthy \cup {m} ELSE healthy \ {m}
     /\ overlooked' = IF probed = "passed" /\ m \in detached THEN overlooked \cup {m} ELSE overlooked
  /\ probes' = Tail(probes) /\ probed' = "pending"
  /\ UNCHANGED <<reading, detached, advertising, available, queue, entryVars, engineVars,
                 hostVars, got, misplaced, cancelled, seen, events>>

-----------------------------------------------------------------------------
(* The consumer: read_from_masters takes the first of the queue.            *)
Takes == queue # <<>> /\ queue' = Tail(queue)

(* _account_unrouted_frame_locked *)
Unrouted(r) ==
  misplaced' = IF Disposition(table, r) = "no_route" THEN misplaced \cup {r} ELSE misplaced

(* A peer request is registered and linked to its parent, if that is live, *)
(* and written.  One that no master can serve is lost, and nobody told.    *)
HandleRequest ==
  /\ Takes /\ Head(queue).kind = "REQ"
  /\ LET r == Head(queue).rid IN
     \/ /\ Routable(r) = {}
        /\ UNCHANGED <<table, dest, linked, ledger, seen, hosting, window>>
     \/ \E m \in Routable(r) :
          /\ Register(r, m)
          /\ linked' = IF Parent[r] \in Live THEN linked \cup {r} ELSE linked
          /\ Serve(r, m)
  /\ UNCHANGED <<slotVars, available, probeVars, slot, engineVars, origin, granted, got, misplaced,
                 cancelled, overlooked, events>>

(* A peer's origin gets what is written to it. *)
Delivered(r, kind) ==
  got' = [got EXCEPT ![r] = IF Parent[r] = Engine \/ origin[r] \in reading
                            THEN Append(@, kind) ELSE @]

(* Mutant: a terminal is passed on and ends nothing. *)
HandleReply_Keeps ==
  /\ Takes /\ Head(queue).kind \in {"CHUNK", "END", "ERR"}
  /\ LET r == Head(queue).rid
         kind == Head(queue).kind IN
     \/ /\ IsLive(table, r, r)
        /\ ledger' = [ledger EXCEPT ![r] = Ledger(@, kind, 0)]
        /\ UNCHANGED <<table, slot>>
        /\ Delivered(r, kind)
        /\ UNCHANGED misplaced
     \/ /\ ~IsLive(table, r, r)
        /\ Unrouted(r)
        /\ UNCHANGED <<table, slot, ledger, got>>
  /\ UNCHANGED <<slotVars, available, probeVars, dest, linked, engineVars, hostVars, cancelled,
                 seen, overlooked, events>>

(* A reply of a live request is recorded, ends it if it is a terminal, and *)
(* goes to the engine or to the master the request came from.              *)
HandleReply ==
  /\ Takes /\ Head(queue).kind \in {"CHUNK", "END", "ERR"}
  /\ LET r == Head(queue).rid
         kind == Head(queue).kind IN
     \/ /\ IsLive(table, r, r)
        /\ ledger' = [ledger EXCEPT ![r] = Ledger(@, kind, 0)]
        /\ IF TerminalOf(kind) # "none"
           THEN table' = Terminated(table, r, RecentCapacity) /\ GivesBack({r})
           ELSE UNCHANGED <<table, slot>>
        /\ Delivered(r, kind)
        /\ UNCHANGED misplaced
     \/ /\ ~IsLive(table, r, r)
        /\ Unrouted(r)
        /\ UNCHANGED <<table, slot, ledger, got>>
  /\ UNCHANGED <<slotVars, available, probeVars, dest, linked, engineVars, hostVars, cancelled,
                 seen, overlooked, events>>

HandleCredit ==
  /\ Takes /\ Head(queue).kind = "CREDIT"
  /\ LET r == Head(queue).rid IN
     \/ r \in Live /\ Credit(r) /\ UNCHANGED misplaced
     \/ r \notin Live /\ Unrouted(r) /\ UNCHANGED <<ledger, window>>
  /\ UNCHANGED <<slotVars, available, probeVars, table, dest, linked, slot, engineVars, origin, granted,
                 hosting, got, cancelled, seen, overlooked, events>>

(* Of a request that has ended it is nothing. *)
HandleCancel ==
  /\ Takes /\ Head(queue).kind = "CANCEL"
  /\ hosting' = ToldToCancel({Head(queue).rid} \cap Live)
  /\ UNCHANGED <<slotVars, available, probeVars, entryVars, engineVars, origin, window, granted, got,
                 historyVars, events>>

RoutedTo(m) == {r \in Live : dest[r] = m}

(* Its requests end, and the masters their callers are at are told.  The *)
(* engine is not: what it sent with send_to_master has no channel.       *)
Death(m) ==
  /\ healthy' = healthy \ {m}
  /\ available' = available \ {m}
  /\ EndAll(RoutedTo(m))
  /\ GivesBack(RoutedTo(m))
  /\ got' = [r \in Requests |->
               IF r \in RoutedTo(m) /\ origin[r] \in (healthy \ {m}) \cap reading
               THEN Append(got[r], "ERR") ELSE got[r]]

(* _handle_master_death: a slot that is not healthy was handled already. *)
HandleEof ==
  /\ Takes /\ Head(queue).kind = "EOF"
  /\ LET m == Head(queue).from IN
     /\ detached' = detached \cup {m}
     /\ IF m \in healthy
        THEN Death(m) /\ UNCHANGED overlooked
        ELSE /\ overlooked' = IF RoutedTo(m) # {} THEN overlooked \cup {m} ELSE overlooked
             /\ UNCHANGED <<healthy, available, table, slot, got>>
  /\ UNCHANGED <<reading, advertising, probeVars, dest, linked, ledger, engineVars, hostVars,
                 misplaced, cancelled, seen, events>>

Handle == HandleRequest \/ HandleReply \/ HandleCredit \/ HandleCancel \/ HandleEof

Next ==
  \/ \E r \in FromEngine : Resolve(r) \/ Acquire(r) \/ SendAdmitted(r) \/ Grant(r)
  \/ \E r \in Requests :
       \/ Cancel(r) \/ SendChunk(r) \/ SendTerminal(r) \/ CallPeer(r)
       \/ SendPeerCredit(r) \/ SendPeerCancel(r)
  \/ \E m \in Masters : Notify(m) \/ Disconnect(m) \/ Attach(m)
  \/ ProbeAnswered \/ ProbeConcludes
  \/ Handle

Spec == Init /\ [][Next]_vars

(* The consumer, the driver and the engine's threads run; hosts end what    *)
(* they serve.  Nothing else need happen.                                   *)
FairSpec ==
  /\ Spec
  /\ WF_vars(Handle)
  /\ \A r \in Requests : WF_vars(SendTerminal(r))
-----------------------------------------------------------------------------
TypeOK ==
  /\ reading \subseteq Masters /\ healthy \subseteq Masters /\ detached \subseteq Masters
  /\ advertising \subseteq Masters /\ available \subseteq Masters
  /\ probes \in Seq(Masters) /\ probed \in {"pending", "passed", "failed"}
  /\ Live \subseteq seen /\ seen \subseteq Requests
  /\ Cardinality(seen) = table.registered
  /\ dest \in [Requests -> Masters \cup {NoMaster}]
  /\ \A r \in Requests : dest[r] = NoMaster <=> r \notin seen
  /\ linked \subseteq seen
  /\ ledger \in [Requests -> Int]
  /\ slot \in [Requests -> Masters \cup {NoMaster}]
  /\ pc \in [FromEngine -> {"idle", "resolved", "admitted", "sent", "failed"}]
  /\ target \in [FromEngine -> Masters \cup {NoMaster}]
  /\ origin \in [Requests -> Masters \cup {NoMaster}]
  /\ hosting \in [Requests -> {"none", "serving", "cancelled", "over", "lost"}]
  /\ window \in [Requests -> Nat]
  /\ granted \in [Requests -> 0..MaxGrants]
  /\ got \in [Requests -> Seq({"CHUNK", "END", "ERR"})]
  /\ misplaced \subseteq Requests /\ cancelled \subseteq seen /\ overlooked \subseteq Masters

(* A slot is held exactly from the admission of a request until its entry   *)
(* ends or its REQ turns out not to be sent, whichever of cancel, terminal, *)
(* death and failed write comes first (relay_switch.py:1215-1230,           *)
(* 1259-1263); and the table has counted every request it ever held.        *)
PermitsAccounted ==
  /\ TypeOK
  /\ \A r \in Requests :
       slot[r] # NoMaster <=>
         r \in FromEngine /\ (pc[r] = "admitted" \/ (pc[r] = "sent" /\ r \in Live))

(* A response ends once: nothing follows its terminal, and nobody who got a *)
(* terminal has an entry in the table, however a cancel, a death and the    *)
(* host's own END race (relay_switch.py:1675-1690, request_state.py:473).   *)
EndsOnce ==
  \A r \in Requests : \A i \in DOMAIN got[r] :
    IsTerminal(got[r][i]) => i = Len(got[r]) /\ r \notin Live

(* A cancel reaches every peer call that was recorded under the request     *)
(* (relay_switch.py:1044-1046).                                             *)
CascadeIsComplete == \A r \in linked \cap Live : Parent[r] \notin cancelled

(* A frame of a request that was once registered is never taken for one of  *)
(* an unknown request while the ring has room for all there were: what      *)
(* crosses a cancel or a death on its way is a straggler                    *)
(* (relay_switch.py:1377-1391).                                             *)
NoFalseAlarm ==
  RecentCapacity >= Cardinality(seen) => misplaced \cap seen = {}

InFlight(r) == Cardinality({i \in DOMAIN queue : queue[i].kind = "CHUNK" /\ queue[i].rid = r})

(* The ledger of a response is the window its sender has and what it sent   *)
(* since, so that it reads negative only when the sender overran it: grants *)
(* of the engine and of peers count (relay_switch.py:1292-1296,             *)
(* request_state.py:155-162).                                               *)
LedgerIsTheWindow ==
  \A r \in Live :
    Hosted(r) => ledger[r] = window[r] + InFlight(r)

(* Every entry ends: by the answer of its host or with the master, but for  *)
(* those that a death has overlooked (relay_switch.py:1789-1838).           *)
EveryEntryEnds ==
  \A r \in Requests : r \in Live ~> r \notin Live \/ dest[r] \in overlooked

-----------------------------------------------------------------------------
(* What the tests say of a dead master: every request routed to it ends.    *)
NoStateOfTheDead == \A r \in Live : dest[r] \notin detached
=============================================================================
