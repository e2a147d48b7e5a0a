------------------------------ MODULE PoolSystem ------------------------------
(***************************************************************************)
(* Admission at both ends of one install: the engine's AdmissionController *)
(* (request_state.py), that believes the pool map of the last RelayNotify, *)
(* and the RuntimePools of the cartridge's process (cartridge_runtime.py), *)
(* where the limits are true; between them the host, that starts the       *)
(* process at the first request, answers for the requests of one that      *)
(* died, and passes the pool map on.  Both ends ask the compiled functions *)
(* of PoolsKernel.                                                         *)
(*                                                                         *)
(* Left to other modules: the controller's threads, cancels and outages    *)
(* (Admission), the handler threads (CartridgeRuntime).                    *)
(***************************************************************************)
EXTENDS PoolsKernel

CONSTANTS
  Requests,    \* the requests the engine dispatches, each once
  Cap,         \* the cap each calls
  Caps,        \* the registered caps, in the order of registration
  Shared,      \* the declared pools, in the order of their names
  Sorted,      \* the names of all pools, sorted
  Declared,    \* the manifest's capacity of each pool
  Batches,     \* the capacities an operator may set in one probe
  Reports,     \* what the cartridge may report of a pool: <<pool, limit>>
  OthersRun,   \* does another cartridge of the same host run?
  MaxDeaths, MaxNotices

ASSUME BoundAssumption ==
  OthersRun \in BOOLEAN /\ MaxDeaths \in Nat /\ MaxNotices \in Nat \ {0}

PoolNames == Names(Sorted)

Local == [i \in 1..Len(Caps) |-> Caps[i]]
           \o [i \in 1..Len(Shared) |-> Shared[i].name] \o <<All>>

(* The pools of a manifest, what operators and the cartridge may say of     *)
(* them, and None for what is not there.                                    *)
Limits == [PoolNames -> [configured : Nat, available : Nat \cup {None}]]

Pool == [name : PoolNames, capacity : Nat, active : Nat]

Waiter == [ticket : Nat, chain : Seq(PoolNames)]

PoolStates == [pools : Seq(Pool), queue : Seq(Waiter), nextTicket : Nat]

ASSUME ManifestAssumption ==
  /\ IsFiniteSet(Requests)
  /\ Caps \in Seq(Members(Caps)) /\ Shared \in Seq(Members(Shared))
  /\ Sorted \in Seq(PoolNames) /\ PoolNames = Names(Local)
  /\ Cap \in [Requests -> Members(Caps)]
  /\ Declared \in [PoolNames -> Nat]
  /\ \A batch \in Batches : \A p \in DOMAIN batch : batch[p] \in Nat
  /\ Reports \subseteq PoolNames \X (Nat \cup {None})

ASSUME NoneAssumption ==
  None \notin PoolNames \cup Nat \cup Limits \cup Pool \cup Waiter \cup PoolStates
                \cup [waiter : Waiter, state : PoolStates]

VARIABLES
  engine,      \* the controller's picture of the install's pools
  record,      \* the switch's record of the install: running, its pool map
  phase,       \* where each request is, for the engine
  chain,       \* the pools it is to be admitted through
  ticket,      \* its place in the engine's line
  notices,     \* RelayNotify frames on their way to the engine
  host,        \* the host's own record of the install
  local, meta, waiting,   \* RuntimePools: state, meta, waiting
  served,      \* where each request is, for the host and the cartridge
  told,        \* the requests whose END or ERR was written
  deaths, broken          \* how often the process died; a BUG was met

engineVars == <<engine, record, phase, chain, ticket>>
poolVars   == <<local, meta, waiting>>
vars == <<engineVars, notices, host, poolVars, served, told, deaths, broken>>

NoChain == <<>>

Cold == [running |-> FALSE, pools |-> None]

Admitted_ == {r \in Requests : phase[r] = "sent"}
Running   == {r \in Requests : served[r] = "running"}
InLocal   == {r \in Requests : served[r] = "queued"}

LocalChain(r) == ChainOf(Cap[r], Shared)

-----------------------------------------------------------------------------
(* The engine. *)

(* The effective capacity of each pool of a record; a record without a pool *)
(* map is a process that never ran: one request, through "all".             *)
Capacities(rec) ==
  IF rec.pools = None THEN [p \in {All} |-> 1]
  ELSE [p \in PoolNames |->
         Advertised(rec.running, p, rec.pools[p].configured, rec.pools[p].available)]

(* configure_pools: one set_capacity per pool, in the order of the names. *)
Configured(s, map) ==
  LET after[i \in 0..Len(Sorted)] ==
        IF i = 0 THEN s
        ELSE IF Sorted[i] \notin DOMAIN map THEN after[i - 1]
        ELSE SetCapacity(after[i - 1], Sorted[i], map[Sorted[i]])
  IN  after[Len(Sorted)]

AdmissionChain(r) == IF record.pools = None THEN <<All>> ELSE LocalChain(r)

(* Under the switch's lock: the chain is read off the record, and the       *)
(* controller is told the record's capacities again.                        *)
Resolve(r) ==
  /\ phase[r] = "idle"
  /\ phase' = [phase EXCEPT ![r] = "resolved"]
  /\ chain' = [chain EXCEPT ![r] = AdmissionChain(r)]
  /\ engine' = Configured(engine, Capacities(record))
  /\ UNCHANGED <<record, ticket, notices, host, poolVars, served, told, deaths, broken>>

(* Later, under the controller's: the request joins the line. *)
JoinLine(r) ==
  LET joined == Join(engine, chain[r])
  IN  /\ phase[r] = "resolved"
      /\ IF joined.answer = "unknown"
         THEN /\ broken' = TRUE
              /\ UNCHANGED <<engine, phase, ticket>>
         ELSE /\ engine' = joined.state
              /\ ticket' = [ticket EXCEPT ![r] = joined.ticket]
              /\ phase' = [phase EXCEPT ![r] = "waiting"]
              /\ UNCHANGED broken
      /\ UNCHANGED <<record, chain, notices, host, poolVars, served, told, deaths>>

(* Its turn: it takes a slot in every pool of its chain, and the REQ is sent. *)
TakeTurn(r) ==
  LET turn == Admit(engine, ticket[r])
  IN  /\ phase[r] = "waiting"
      /\ turn # None
      /\ engine' = turn
      /\ phase' = [phase EXCEPT ![r] = "sent"]
      /\ served' = [served EXCEPT ![r] = "coming"]
      /\ UNCHANGED <<record, chain, ticket, notices, host, poolVars, told, deaths, broken>>

(* The request's END or ERR is read: its permit is released. *)
Terminal(r) ==
  /\ phase[r] = "sent"
  /\ r \in told
  /\ engine' = Release(engine, chain[r])
  /\ phase' = [phase EXCEPT ![r] = "ended"]
  /\ UNCHANGED <<record, chain, ticket, notices, host, poolVars, served, told, deaths, broken>>

Notified ==
  /\ notices # <<>>
  /\ record' = Head(notices)
  /\ notices' = Tail(notices)
  /\ engine' = Configured(engine, Capacities(Head(notices)))
  /\ UNCHANGED <<phase, chain, ticket, host, poolVars, served, told, deaths, broken>>

-----------------------------------------------------------------------------
(* The host. *)

LastNotice == IF notices = <<>> THEN record ELSE notices[Len(notices)]

(* It sends its record of the install with every tick of its statistics, as *)
(* long as any of its cartridges runs; only news are kept here.  (HELLO and *)
(* death rebuild the inventory and do not send it.)                         *)
Notify ==
  /\ host.running \/ OthersRun
  /\ Len(notices) < MaxNotices
  /\ host # LastNotice
  /\ notices' = Append(notices, host)
  /\ UNCHANGED <<engineVars, host, poolVars, served, told, deaths, broken>>

Static(name) == [configured |-> Declared[name], available |-> None]

FromManifest == [p \in PoolNames |-> Static(p)]

EffectiveOf(m) == Effective(m.configured, m.available)

(* RuntimePools.__init__: its pools, in the order it lists them. *)
NewPools ==
  [Empty EXCEPT !.pools =
    [i \in 1..Len(Local) |->
      [name |-> Local[i], capacity |-> EffectiveOf(Static(Local[i])), active |-> 0]]]

Routed == InLocal \cup Running

(* The process dies: the host sends an ERR for every request routed to it   *)
(* and keeps the pool map it had.                                           *)
Die ==
  /\ host.running
  /\ deaths < MaxDeaths
  /\ deaths' = deaths + 1
  /\ host' = [host EXCEPT !.running = FALSE]
  /\ served' = [r \in Requests |-> IF r \in Routed THEN "done" ELSE served[r]]
  /\ told' = told \cup Routed
  /\ local' = Empty
  /\ waiting' = <<>>
  /\ UNCHANGED <<engineVars, notices, meta, broken>>

(* A heartbeat reply brings the pool map as it is. *)
Heartbeat ==
  /\ host.running
  /\ host' = [host EXCEPT !.pools = meta]
  /\ UNCHANGED <<engineVars, notices, poolVars, served, told, deaths, broken>>

-----------------------------------------------------------------------------
(* The cartridge: every operation of RuntimePools is under its lock. *)

Extend(f, k, v) == [x \in DOMAIN f \cup {k} |-> IF x = k THEN v ELSE f[x]]

Without(f, k) == [x \in DOMAIN f \ {k} |-> f[x]]

(* A REQ: the host starts a process that does not run, whose HELLO brings   *)
(* the pool map of its manifest, and forwards it; in the cartridge, arrive. *)
Arrives(r) ==
  LET pools == IF host.running THEN local ELSE NewPools
      arrival == Arrive(pools, LocalChain(r))
      queued == arrival.answer = "queued"
  IN  /\ served[r] = "coming"
      /\ IF host.running
         THEN UNCHANGED <<host, meta>>
         ELSE /\ host' = [running |-> TRUE, pools |-> FromManifest]
              /\ meta' = FromManifest
      /\ IF arrival.answer = "unknown"
         THEN /\ broken' = TRUE
              /\ local' = pools
              /\ UNCHANGED <<waiting, served>>
         ELSE /\ local' = arrival.state
              /\ served' = [served EXCEPT ![r] = IF queued THEN "queued" ELSE "running"]
              /\ waiting' = IF queued THEN Extend(waiting, arrival.ticket, r) ELSE waiting
              /\ UNCHANGED broken
      /\ UNCHANGED <<engineVars, notices, told, deaths>>

(* admit_next, and the handler it names is started. *)
StartNext ==
  LET next == AdmitNext(local)
  IN  /\ next # None
      /\ local' = next.state
      /\ IF next.waiter.ticket \in DOMAIN waiting
         THEN /\ waiting' = Without(waiting, next.waiter.ticket)
              /\ served' = [served EXCEPT ![waiting[next.waiter.ticket]] = "running"]
              /\ UNCHANGED broken
         ELSE /\ broken' = TRUE
              /\ UNCHANGED <<waiting, served>>
      /\ UNCHANGED <<engineVars, notices, host, meta, told, deaths>>

(* Mutant: a cancel forgets the request and leaves its ticket in line. *)
RemoveQueued_TicketStays(t) ==
  /\ t \in DOMAIN waiting
  /\ waiting' = Without(waiting, t)
  /\ served' = [served EXCEPT ![waiting[t]] = "done"]
  /\ told' = told \cup {waiting[t]}
  /\ UNCHANGED <<engineVars, notices, host, local, meta, deaths, broken>>

(* A cancel takes a request out of the line; an ERR answers it. *)
RemoveQueued(t) ==
  /\ t \in DOMAIN waiting
  /\ local' = Leave(local, t)
  /\ waiting' = Without(waiting, t)
  /\ served' = [served EXCEPT ![waiting[t]] = "done"]
  /\ told' = told \cup {waiting[t]}
  /\ UNCHANGED <<engineVars, notices, host, meta, deaths, broken>>

(* The handler writes its END or ERR, and after that gives its slots back. *)
Answer(r) ==
  /\ served[r] = "running"
  /\ r \notin told
  /\ told' = told \cup {r}
  /\ UNCHANGED <<engineVars, notices, host, poolVars, served, deaths, broken>>

Finish(r) ==
  /\ served[r] = "running"
  /\ r \in told
  /\ IF \E n \in Names(LocalChain(r)) : PoolNamed(local, n).active = 0
     THEN /\ broken' = TRUE
          /\ UNCHANGED local
     ELSE /\ local' = Release(local, LocalChain(r))
          /\ UNCHANGED broken
  /\ served' = [served EXCEPT ![r] = "done"]
  /\ UNCHANGED <<engineVars, notices, host, meta, waiting, told, deaths>>

(* Mutant: the pools before the unknown one have their new number already. *)
ApplyDesired_Midway(batch) ==
  LET known == DOMAIN batch \cap PoolNames
      to == [p \in PoolNames |->
              IF p \in known THEN [meta[p] EXCEPT !.configured = batch[p]] ELSE meta[p]]
  IN  /\ host.running
      /\ meta' = to
      /\ local' = IF known # DOMAIN batch THEN local
                  ELSE Configured(local, [p \in known |-> EffectiveOf(to[p])])
      /\ UNCHANGED <<engineVars, notices, host, waiting, served, told, deaths, broken>>

(* An operator's numbers: all of them, or none when one names no pool. *)
ApplyDesired(batch) ==
  LET to == [p \in PoolNames |->
              IF p \in DOMAIN batch THEN [meta[p] EXCEPT !.configured = batch[p]]
              ELSE meta[p]]
  IN  /\ host.running
      /\ DOMAIN batch \subseteq PoolNames
      /\ meta' = to
      /\ local' = Configured(local, [p \in DOMAIN batch |-> EffectiveOf(to[p])])
      /\ UNCHANGED <<engineVars, notices, host, waiting, served, told, deaths, broken>>

(* The cartridge reports what it can serve. *)
SetAvailable(p, n) ==
  LET to == [meta[p] EXCEPT !.available = n]
  IN  /\ host.running
      /\ meta' = [meta EXCEPT ![p] = to]
      /\ local' = SetCapacity(local, p, EffectiveOf(to))
      /\ UNCHANGED <<engineVars, notices, host, waiting, served, told, deaths, broken>>

-----------------------------------------------------------------------------
Init ==
  /\ engine = Configured(Empty, Capacities(Cold))
  /\ record = Cold
  /\ phase = [r \in Requests |-> "idle"]
  /\ chain = [r \in Requests |-> NoChain]
  /\ ticket = [r \in Requests |-> 0]
  /\ notices = <<>>
  /\ host = Cold
  /\ local = Empty
  /\ meta = FromManifest
  /\ waiting = <<>>
  /\ served = [r \in Requests |-> "none"]
  /\ told = {}
  /\ deaths = 0
  /\ broken = FALSE

(* What brings a request on. *)
Progress(r) ==
  JoinLine(r) \/ TakeTurn(r) \/ Terminal(r) \/ Arrives(r) \/ Answer(r) \/ Finish(r)

Next ==
  \/ Notified \/ Notify \/ Die \/ Heartbeat \/ StartNext
  \/ \E r \in Requests : Resolve(r) \/ Progress(r)
  \/ \E t \in DOMAIN waiting : RemoveQueued(t)
  \/ \E batch \in Batches : ApplyDesired(batch)
  \/ \E report \in Reports : SetAvailable(report[1], report[2])

Spec == Init /\ [][Next]_vars

(* The threads and the tick go on, frames arrive, handlers end. *)
Fairness ==
  /\ WF_vars(Notify)
  /\ WF_vars(Notified)
  /\ WF_vars(StartNext \/ \E r \in Requests : Progress(r))

FairSpec == Spec /\ Fairness

-----------------------------------------------------------------------------
(* Types of the state. *)
StateType(s) ==
  /\ \A i \in 1..Len(s.pools) :
       s.pools[i] \in [name : PoolNames, capacity : Nat, active : 0..Cardinality(Requests)]
  /\ \A i \in 1..Len(s.queue) :
       /\ s.queue[i].ticket \in 0..(s.nextTicket - 1)
       /\ Names(s.queue[i].chain) \subseteq PoolNames
  /\ s.nextTicket \in 0..Cardinality(Requests)

RecordType(rec) ==
  /\ DOMAIN rec = {"running", "pools"}
  /\ rec.running \in BOOLEAN
  /\ rec.pools # None => rec.pools \in Limits

TypeOK ==
  /\ StateType(engine) /\ StateType(local)
  /\ RecordType(record) /\ RecordType(host)
  /\ \A i \in 1..Len(notices) : RecordType(notices[i])
  /\ Len(notices) <= MaxNotices
  /\ phase \in [Requests -> {"idle", "resolved", "waiting", "sent", "ended"}]
  /\ \A r \in Requests : Names(chain[r]) \subseteq PoolNames
  /\ ticket \in [Requests -> 0..Cardinality(Requests)]
  /\ meta \in Limits
  /\ \A t \in DOMAIN waiting : waiting[t] \in InLocal
  /\ served \in [Requests ->
       {"none", "coming", "queued", "running", "done"}]
  /\ told \subseteq Requests
  /\ deaths \in 0..MaxDeaths
  /\ broken \in BOOLEAN

Through(holders, chainOf(_), name) == {r \in holders : name \in Names(chainOf(r))}

EngineChain(r) == chain[r]

(* At both ends a pool counts exactly the requests that hold a slot in it,  *)
(* whatever was added, resized, cancelled or lost meanwhile; and no release *)
(* finds a pool at zero, no ticket is without its request and no chain      *)
(* names an unknown pool (the errors the code calls BUG).                   *)
SlotsAccounted ==
  /\ TypeOK /\ ~broken
  /\ \A i \in 1..Len(engine.pools) :
       engine.pools[i].active =
         Cardinality(Through(Admitted_, EngineChain, engine.pools[i].name))
  /\ \A i \in 1..Len(local.pools) :
       local.pools[i].active =
         Cardinality(Through(Running, LocalChain, local.pools[i].name))

(* A request waits in the cartridge exactly when its ticket is in the       *)
(* model's line, in order of arrival, with the chain of its own cap.        *)
LineIsHeld ==
  /\ {local.queue[i].ticket : i \in 1..Len(local.queue)} = DOMAIN waiting
  /\ {waiting[t] : t \in DOMAIN waiting} = InLocal
  /\ \A i \in 1..Len(local.queue) :
       /\ local.queue[i].chain = LocalChain(waiting[local.queue[i].ticket])
       /\ \A j \in 1..(i - 1) : local.queue[j].ticket < local.queue[i].ticket

(* The process admits by the lower of the two numbers of each pool, however *)
(* the operator's batches and the cartridge's own reports interleave.  A    *)
(* batch is applied whole or, when it names a pool there is not, not at all *)
(* (cartridge_runtime.py:584-606).                                          *)
LimitsAreEffective ==
  \A i \in 1..Len(local.pools) :
    local.pools[i].capacity =
      LET m == meta[local.pools[i].name]
      IN  IF m.available \in {None, 0} THEN m.configured
          ELSE IF m.configured = 0 THEN m.available
          ELSE CHOOSE n \in {m.configured, m.available} :
                 n <= m.configured /\ n <= m.available

Full(s, holders, chainOf(_), name) ==
  LET cap == PoolNamed(s, name).capacity
  IN  Knows(s, name) /\ cap # 0 /\ Cardinality(Through(holders, chainOf, name)) >= cap

CouldRun(r) == \A n \in Names(LocalChain(r)) : ~Full(local, Running, LocalChain, n)

CouldBeSent(r) == \A n \in Names(chain[r]) : ~Full(engine, Admitted_, EngineChain, n)

(* What the two descriptions of a shared pool's "queued" agree on: the      *)
(* waiters of the pool whose own cap's pool has room count if this one has  *)
(* no room for them (pools.py:98-99; cartridge_runtime.py:608-612).  Of a   *)
(* waiter whose own pool is full too the first says that it does not count, *)
(* the second that it does, as the code has it.                             *)
Agreed(n) ==
  \A r \in InLocal :
    n \in Names(LocalChain(r)) /\ n # Cap[r] => ~Full(local, Running, LocalChain, Cap[r])

(* The figures the cartridge shows: a waiter's position is its place among  *)
(* the waiters of its own cap that came before it, and a pool's "queued"    *)
(* counts the waiters of its cap and those it has no slot for, as far as    *)
(* the code's descriptions of it agree.                                     *)
FiguresAreTrue ==
  /\ \A t \in DOMAIN waiting :
       Position(local, t) =
         Cardinality({u \in DOMAIN waiting : u <= t /\ Cap[waiting[u]] = Cap[waiting[t]]})
  /\ host.running => \A n \in PoolNames : Agreed(n) =>
       HeldBack(local, n) =
         Cardinality({r \in InLocal :
           \/ Cap[r] = n
           \/ n \in Names(LocalChain(r)) /\ Full(local, Running, LocalChain, n)})

(* settle answers who may go, all of them and only them: after it nobody in *)
(* line could, and those it admitted are within every limit.                *)
SettlesAll ==
  LET settled == Settle(local)
      let == {settled.admitted[i] : i \in 1..Len(settled.admitted)}
      going == Running \cup {waiting[t] : t \in let}
  IN  /\ let \subseteq DOMAIN waiting
      /\ \A t \in DOMAIN waiting \ let :
           \E n \in Names(LocalChain(waiting[t])) : Full(local, going, LocalChain, n)
      /\ \A n \in PoolNames : let = {} \/
           \/ PoolNamed(local, n).capacity = 0
           \/ Cardinality(Through(going, LocalChain, n)) <= PoolNamed(local, n).capacity
           \/ Through(going, LocalChain, n) = Through(Running, LocalChain, n)

(* What the kernel answers whoever asks about a line is what the line, read *)
(* as a set, says: its figures, and whom to admit                           *)
(* (CapDAG-Bifaci-Pools.c:726-739, 919-960, 1180-1330).                     *)
AnswersAreTrue == FiguresAreTrue /\ SettlesAll

Sent(r) == phase[r] # "sent" /\ phase'[r] = "sent"

Starts(r) == served[r] # "running" /\ served'[r] = "running"

(* At both ends, a request that goes finds room in its whole chain, and     *)
(* nobody who came before it could have gone instead.                       *)
NobodyIsPassedOver ==
  [][ \A r \in Requests :
        /\ Sent(r) =>
             /\ CouldBeSent(r)
             /\ \A q \in Requests :
                  phase[q] = "waiting" /\ ticket[q] < ticket[r] => ~CouldBeSent(q)
        /\ Starts(r) =>
             /\ CouldRun(r)
             /\ \A t \in DOMAIN waiting :
                  (\A u \in DOMAIN waiting : waiting[u] = r => t < u)
                     => ~CouldRun(waiting[t]) ]_vars

(* The cold-start canary: while the engine knows the process as not         *)
(* running, it sends it one request at a time.                              *)
CanaryIsAlone ==
  [][ \A r \in Requests : Sent(r) /\ ~record.running => Admitted_ = {} ]_vars

(* What the host says of a death: that it is published, so that the engine  *)
(* does not go on believing in a process that is gone.  (The code publishes *)
(* only while some cartridge runs.)                                         *)
DeathIsTold ==
  ~host.running /\ record.running ~> host.running \/ ~record.running
=============================================================================
