# A formal model of capdag's request runtime

capdag runs *caps* (capabilities named by URNs) in *cartridges*: separate
processes that an engine starts, talks to in CBOR frames over their standard
streams, and that may call caps of the engine in turn. The package
`capdag.bifaci` (`src/src/capdag/bifaci`) is that runtime. This directory models
its concurrent core in TLA+, checks it with TLC and proves the parts that matter
most with TLAPS.

Contents: [Parts](#the-system-and-its-parts) · [Modules](#modules) ·
[Runs](#runs) · [Findings](#findings) · [Proofs](#proofs) ·
[Left out](#what-is-not-modelled) · [Plan](#plan)

## The system and its parts

| Part | State it keeps | Operations | Talks to | Correct when |
| --- | --- | --- | --- | --- |
| Credit flow control (`credit.py`, kernel `CapDAG-Bifaci-Credit.c`) | a `CreditGate` per outgoing stream, a `CreditWindow` per incoming one, the `CreditRouter`'s table of gates | acquire, grant, close; arrive, consume, continued, flush; register, grant, close_request | emitters block on the gate; the demux and `recv` grant | credit is conserved, nobody waits on a closed gate or for credit that is there, senders never hang, a stream is a bounded channel |
| Concurrency pools (`pools.py`, kernel `CapDAG-Bifaci-Pools.c`) | capacity and active count per pool, one line of waiters | arrive, join, admit, admitNext, leave, release, setCapacity | called by the two below under their locks | a request holds its whole chain or nothing; no pool above its limit because of an admission; the longest waiting of those with room goes next |
| `AdmissionController` (`request_state.py`) | pools, outage clock and line of each installed cartridge; permits | acquire, release, configure_pools, reconcile_master, disable_master | threads of `RelaySwitch.send_to_master`; the request table releases permits | slots are released once; no sleeper misses its turn, an outage or its cancel |
| `RequestTable` (`request_state.py`) | live requests, the rid index, 64 recent terminations | register, record, terminate, link_child | the relay switch | one terminal per request, permit given back, stragglers told from strays |
| `RelaySwitch` (`relay_switch.py`) | masters, routing, requests, capability roster | send_to_master, read_from_masters, cancel, add_master, master death | masters through `RelayMaster`, admission, request table | every request ends once, cancels cascade to peers, a dead master ends what it served |
| `CartridgeHost` (`host_runtime.py`) | cartridge processes, routing table with eviction | spawn, route, heartbeat, kill, respawn | cartridges' pipes, the relay | routes end with their requests, a dead process ends its requests |
| `CartridgeRuntime` (`cartridge_runtime.py`) | active_requests, running, RuntimePools, pending peer requests, gates, terminated flows | every frame type in `run_cbor_mode`; handler threads; peer calls | the host over stdin and stdout | see [CartridgeRuntime](#cartridgeruntime) |
| `InProcessCartridgeHost` | handlers as threads in the engine, pending peer calls | run | the relay | like the runtime, without processes |
| Frames, ordering, handshake (`frame.py`, `io.py`, kernel `CapDAG-Bifaci-Flow.c`) | SeqAssigner, ReorderBuffer, negotiated limits | assign, accept, handshake | every reader and writer | frames of a flow are delivered in order, once; nothing after the terminal |
| Live feeds (`live_feed.py`) | a ring of bounded size, an end | push, finish, close, read | capture thread, handler | overruns are counted, a closed feed ends its reader |
| Relay (`relay.py`, `router.py`) | none but the connection | forward both ways | host and switch | frames are forwarded in order |
| Statistics and trace (`stats.py`, `protocol_trace.py`) | counters, the last 1024 terminated flows | record, insert | all of them | stragglers and drops are told apart |
| Discovery, verdicts, policy, manifests | files, a cached verdict | scan, verify | the host | sequential |
| URNs and caps (`urn/`, `cap/`, kernels `TaggedUrn-*.c`, `CapDAG-*.c`) | definitions | match, ask, grade, rank, select | routing at every level | the single pass agrees with the definition; every router takes the nearest cap |
| Media types, fabric registry | definitions, caches | validate, fetch | everybody | sequential |
| Machine notation, planner, orchestrator, input resolver | trees, plans | parse, resolve, plan, execute | the command line | pure or sequential |

Most of the package (parser, planner, registries) is sequential code that
unit tests reach well. What tests hardly reach is in `bifaci`: the main loop
of a cartridge must stay responsive while handler threads block on input, on
credit and on peer calls; three kinds of threads drain one line of waiters; a
cancel races the handler's return; grants cross terminals; outages begin and end
under waiters with timeouts; frames are overtaken and repeated on their way;
masters die, attach again and are probed while their requests are in the table;
both ends of an install count the same slots by different numbers.
`PROJECT.json` lists these hazards, each at its line and with the properties
that would notice it, or the reason why none does.

## Modules

| Module | Models | Lines of the code |
| --- | --- | --- |
| `Credit` | the decisions of a gate and of a window | kernel `CapDAG-Bifaci-Credit.c`, `credit.py` |
| `CreditFlow` | one credited stream between sender threads and a handler | `ThreadSafeEmitter`, `demux_multi_stream`, `InputStream.recv`, `InputGrantEmitter`, `CreditRouter` |
| `BoundedChannel` | abstract: what a stream promises | |
| `Flow` | which frames belong to a flow; the order of a flow at its receiver | kernel `CapDAG-Bifaci-Flow.c` |
| `Request` | the request table, the writer's gate, the ledger, the rules of a request's frames | kernel `CapDAG-Bifaci-Request.c`, `request_state.py` |
| `ResponseFlow` | a response from the handler's emitters to the caller's table | `ThreadSafeEmitter`, `CoalesceBuf`, `SyncFrameWriter`, `SeqAssigner`, `TerminatedFlows`, `ReorderBuffer` |
| `OrderedFlow` | abstract: frames of a flow, once and in order | |
| `Pools` | the decisions on admission and release, on sets | kernel `CapDAG-Bifaci-Pools.c` |
| `PoolsKernel` | every compiled pools function, on its own lists | the same |
| `Admission` | the engine's admission of requests to one install | `AdmissionController`, `AdmissionPermit` |
| `CartridgeRuntime` | a cartridge dispatching requests | `run_cbor_mode` and its closures, `RuntimePools`, `TerminalClaim`, `PeerInvokerImpl`, `write_gated` |
| `Slots` | abstract: what admission promises, on either side | |
| `PoolSystem` | the pools of one install at the engine, the host and the process | `AdmissionController`, `_pool_capacities`, `CartridgeHost`, `RuntimePools` |
| `RelaySwitch` | requests between masters that come and go | `RelaySwitch`, `RequestTable` |
| `Urns` | constraints on tags, their comparison and meaning | kernels `TaggedUrn-Constraint.c`, `-Urn.c` |
| `SortedMerge` | the single pass over two sorted lists of tags, step by step | kernel `TaggedUrn-Sorted.c` |
| `Caps` | caps and the questions about them, defined key by key; ranking, selection | kernels `CapDAG-Cap.c`, `-Query.c`, `-Ranking.c`, `-Route.c` |
| `CapsExec` | the same questions as they are executed | kernel `CapDAG-Exec.c`, `TaggedUrn-Exec.c` |
| `Routing` | a request looked up by the switch, the host and the cartridge | `_find_master_for_cap`, `_find_cartridge_for_cap_locked`, `find_handler_with_pattern` |
| `CreditFlow_proofs`, `Admission_proofs`, `CartridgeRuntime_proofs`, `ResponseFlow_proofs`, `PoolSystem_proofs`, `RelaySwitch_proofs`, `Routing_proofs` | theorems about the specifications | |
| `Caps_proofs` | facts about the kernel's comparisons | |
| `MC*` | instances for TLC | |

`CreditFlow` extends `Credit`; `Admission` and `CartridgeRuntime` extend
`Pools`, `PoolSystem` extends `PoolsKernel`; `ResponseFlow` and `RelaySwitch`
extend `Request`, which extends `Flow`; `Routing` extends `CapsExec` and
`SortedMerge`, which extend `Caps` and `Urns`: as the code calls the compiled
kernels. `Admission` and `CartridgeRuntime` are shown to implement `Slots`,
`CreditFlow` to implement `BoundedChannel`, `ResponseFlow` to implement
`OrderedFlow`. Operators whose name ends in `_` and a word, each under a
comment that begins with "Mutant", are broken variants of the operator they
precede: putting one in its place must make a run fail.

### CreditFlow

A CHUNK costs its sender one credit; the receiver grants credit back as the
handler consumes. A step is what one thread does under one lock or between two
blocking calls, so a thread can be interrupted between taking a credit and
writing the CHUNK, between finding a gate in the router and granting it, and
between computing a grant and writing its CREDIT. Data are counted, not kept:
an item is a number of CHUNKs, `wire` tells the last CHUNK of an item from the
others. The request may be terminated at any moment (`CloseRequest`, `FailRequest`).

### ResponseFlow

Threads emit units to output streams; bytes go through the coalescing buffer,
other values flush it first. The writer gives each frame its number and
suppresses what comes after a terminal it remembers; it remembers
`TerminatedCapacity` flows. A frame under way may be overtaken by at most
`Displacement` others of its flow and be repeated. The receiver's reorder buffer
releases frames in order, and its table routes them, taking stragglers of ended
requests for what they are. `got` is what was routed, in order.

### Pools, Admission and PoolSystem

A request is admitted through every pool of its chain at once. The kernel keeps
its line as a list by ticket; `Pools` keeps who is ahead of whom, which is all
the decisions ask, and `PoolsKernel` the list. In `Admission` each iteration of
`acquire`'s loop runs under the condition's lock and is one step (`Recheck`), the
first one together with joining the line (`Acquire`). `pc` is `"check"` for a
thread that was notified or timed out, `"wait"` for a sleep without and
`"timed"` for one with a timeout. Time is abstracted to three phases of an
outage: none, within its grace, beyond it. `CallRelease` and `GiveBack` are the
two halves of a permit's release: the flag, and the slots under the
controller's lock.

`PoolSystem` puts the two admissions of one install together. The engine admits
by the capacities of the last RelayNotify (`record`), which is a single `all` of
one for a process that is not running; the process admits by its own
(`local`, `meta`), which an operator (`ApplyDesired`) and the process itself
(`SetAvailable`) change; the host starts the process at the first request, answers
for its requests when it dies, and publishes its record periodically while some
process of its runs (`OthersRun` says whether another one does).

### CartridgeRuntime

The main loop is one process with its place `at` and its request `cur`; each
request's handler thread has a place in `thread`; whoever drains the line
(`_admit_waiting`) has a place in `admitting`: the main loop, a handler that has
ended, or a thread that reports a limit. The three sections of `_admit_waiting`
(take from the line, write "dequeued", register and start) are steps of their
own, as are the sections of CANCEL and of `_on_handler_done`. `told` is what was
written about each request, through the gate of `write_gated`. What a handler
may block on is kept, its data are not: `input` is open, ended or cut short;
`gate` is the gate of its output; `peer`, `pending` and `response` are its peer
call. `Work` says which of these a handler does, once each.

### RelaySwitch

The engine's threads go through `send_to_master` in three steps, since the lock is
not held while a permit is waited for: `Resolve`, `Acquire`, `SendAdmitted`. A host, its
socket and its reader thread are one actor: what a host sends is in `queue` at
once. The consumer handles the queue in order, an EOF like any other frame; a
probe runs outside the lock and its result is applied later (`ProbeAnswered`,
`ProbeConcludes`). An entry of the table, its permit, its ledger and its children
are variables of their own so that properties can relate them. `got`, `misplaced`,
`cancelled`, `seen` and `overlooked` are history.

### Routing

The switch reads its table entry by entry (`ReadEntry`), and for each entry runs up
to three passes of `SortedMerge`, whose steps are steps of the model. It does so
twice, before the wait for admission and after it, and the health of masters may
change in between. `HostFind` and `CartridgeFind` are the choices further down,
as operators. `Caps` says what a question means with quantifiers over keys,
`CapsExec` how it is executed; `ExecAnswersAsDefined` compares them.

## Runs

| Run | Instance | Checks |
| --- | --- | --- |
| `CreditFlow_sequence` | one sender, windows 2 and 4, items of one or three CHUNKs, at most 4 items | conservation of credit, no violation, no stall, the stream completes, refinement of `BoundedChannel` |
| `CreditFlow_threads` | two senders on one gate, windows 3 and 1, so that CHUNKs are refused, at most 5 items | no lost wakeup, back-pressure, no sender hangs |
| `Admission_slots` | three requests, two caps, pools `a`, `b`, `all`, two advertisements | accounting, no sleeper on its turn, refinement of `Slots`; a cancelled waiter leaves although admitted requests run for good; where they end no waiter is forgotten |
| `CartridgeRuntime` | two requests of two caps for one slot; one reads, writes and calls and may be cancelled, one writes; limits are reported and come with heartbeats; the connection may close | accounting, nobody left in line, one terminal, the claimant's, for every finished handler, an answered request never starts, refinement of `Slots`; every request is answered, but for the waits that [a finding](#findings) is about |
| `ResponseFlow` | two requests, a coalesced stream, a writer that remembers one flow, a LOG after the terminal, one overtaking, one repetition | the rules of a response and the reorder limit, lossless coalescing, every terminal arrives, refinement of `OrderedFlow` |
| `PoolSystem` | three requests, two caps, a shared pool, one death, two batches of limits (one refused, for a pool there is not), a report | accounting at both ends, the line, effective limits, the figures shown and `settle`, nobody is passed over, one request to a cold process |
| `RelaySwitch` | two masters, a request to either and a peer call to one, a cancel, two events among disconnects, attachments and inventories | permits and masters of the entries, one terminal, the cascade, stragglers, the ledger, every entry ends |
| `Routing` | two masters, five rosters, nine requests, two preferred caps, one change of health | the pass against the relation, the nearest entry, the kernel's selection, handled where it was routed, execution against definition |

The remaining runs are [findings](#findings).

**Bounds.** `MaxItems` cuts `CreditFlow`: 4 or 5 items exceed
every window and batch of the instance, so that gates run dry, grants are
flushed in part and the window wraps to a second batch. A permit is released at
most twice: the code has two callers. Two requests for one slot make a line; the
third, with a chain that shares only the pool of all, makes requests overtake
each other. Two capacity maps are enough for a limit to rise and to fall below
what is in use (`Admission_slots`, `PoolSystem`). In `CartridgeRuntime` limits
are set again and again, to the same number: that the line moves when one rises is
checked in `PoolSystem` and proved for any limits (`NobodyIsLeftInLine`). Each of
its handlers does each blocking thing once, in any order, and each request is sent
and cancelled at most once. In `ResponseFlow` two units
fill a batch and two CHUNKs (`CoalesceMax`, `ChunkMax`), a flow is long enough to
be evicted from the writer's memory of one, and the reorder limit is as large as
the displacement, so that it is reached; a frame is repeated once (`MaxRepeats`). `MaxEvents = 2` lets a master disconnect and
attach again, or two masters fail, under a request and its call; `MaxQueue` makes
hosts wait when two frames are queued. `MaxDeaths = 1` restarts the process once,
`MaxNotices = 1` keeps one RelayNotify on its way, so that it is stale when it
arrives. Requests, rosters and preferences of `Routing` contain every kind of constraint, tags
that only one side has at the beginning, the middle and the end of a list, open
inputs and outputs, and ties.

**Fairness.** Threads run: weak fairness for each. In `Admission_slots` nothing is
assumed of admitted requests; `NoWaiterForgotten` has their ending as its
hypothesis (`AdmittedEnd`), which the engine ensures with its activity timeout. In
`CartridgeRuntime` frames come through one pipe in the order of their sending, so
a frame that was sent is read although others keep coming: this is strong
fairness of `ReadOwedFrame`. Those frames are the ones the engine owes: the end
of a request's input, credit for what it consumes unless it cancelled the
request, credit for a call's arguments while the called cap runs, and the call's
end, which may come before it has read them. Nothing is assumed of handlers but that they return when nothing blocks
them, and no one has to send requests, cancels, heartbeats or limits. In
`ResponseFlow` the receiver routes what was released and the transport delivers
what has travelled longest; handlers need not do anything. In `RelaySwitch` the
consumer goes on reading and hosts end what they serve (their side of it is
`EveryRequestEnds`, and its exceptions); no host has to attach again and no cancel to come. In
`PoolSystem_staleRunning` a published record is delivered and the republish runs as often
as the code's loop allows.

**Deadlock** is checked in the runs of `CreditFlow`, `Admission` and
`CartridgeRuntime`, whose liveness must not hold by standing still.
`ResponseFlow`, `RelaySwitch`, `PoolSystem` and `Routing` have a bounded
number of requests and events and stop when these are used up.

## Findings

Runs whose property is meant to fail, each a statement of the code's own
comments or tests:

| Run | What happens |
| --- | --- |
| `CartridgeRuntime_lostCancel` | a cancel arrives after a handler thread took the request out of the line and before it registered it: "unknown", and the request runs |
| `CartridgeRuntime_cancelledWriter` | a handler opens its output after a cancel has closed the gates that were registered (`4835`): its gate is registered after that (`1669`), nobody closes it, and the host that cancelled the request need not grant it. The handler and its slot are held for good, although "a cancelled producer must not hang on credit" (`4834`) and the cancel is to release "its credit waiters and peer calls" (`4811`) |
| `RelaySwitch_missedDeath` | a host attaches again with an identity that does not verify before the EOF of its old connection is handled: the slot is not healthy, the death counts as handled, and the old connection's requests stay for ever |
| `PoolSystem_staleRunning` | the host's last process dies; the republish runs only while some process runs, so the engine goes on believing in it and sends by its full capacities to a process that has to be started |

`EveryRequestEnds` names the same wait as one of its exceptions (`LateWriter`), with
that of the writer whose cancel was lost. The other exception, `LateCaller`, is
a handler that is blocked in `invoke` (`1358`) on credit for the arguments of a call
that is over: the gate is registered under the call's own id, so neither a cancel of
the caller nor the early end of the call (`4978-4993`) closes it.

In two places the repository contradicts itself. The models follow the code, and
the properties stop where the two sides differ:

* a shared pool's "queued" counts, by `pools.py:98-99`, only waiters whose own
  pool has room; by `cartridge_runtime.py:608-612`, and in the code, every waiter
  the pool has no room for. `AnswersAreTrue` speaks of the pools whose waiters
  all have room in their own (`Agreed`); the lemma `HeldBackIsTrue` says what the
  code counts in the other case;
* with a preferred cap, routing considers caps that are *comparable* with the
  request and prefers one *equivalent* to the preferred, by
  `relay_switch.py:1206-1207`, `1547-1549` and `1570`; the code, its comments
  (`1578`, `1583-1586`) and `tests/test_relay_switch.py:426-427` consider only
  dispatchable caps and prefer the very cap. A request for a scanned page (the fifth
  of `MCRouting`) is refused by a roster whose `ScanPdf` is comparable with it and not
  dispatchable to it, whatever cap is preferred. `RouteIsNearest` claims nothing
  of where a request goes whose preferred cap serves nowhere. Where it does serve,
  the property follows the comment at `1583-1586`: that very cap is taken, not an
  equivalent one listed before it (no two caps of the instance are equivalent).

The models or the reading of the code show more that no property states, since
no document promises otherwise; most are hazards in `PROJECT.json`:

* two links that negotiated different windows make a sender that keeps to its own
  a violator (`CreditFlow` with `SenderWindow` above `ReceiverWindow`); a window of one
  stalls an item of two CHUNKs (`cartridge_runtime.py:2749`, `2776`);
* "queued" may be written after "dequeued" (`cartridge_runtime.py:4497`);
* readers of input are not told of the end of stdin; a handler that ends before its
  input leaves its route, queue and demux thread behind (`4516`, `4459`);
* two threads that write to one stream may write CHUNKs out of the order of their
  indices (`1850`);
* the EOF of an old connection ends the requests of the new one in the same slot
  (`relay_switch.py:1799`); a peer's call that no master serves is lost and ends
  the background pump (`1620`); a request without a channel hears nothing of its
  master's death (`1829`);
* the permit is taken from the pools of the first dispatchable cap of the master,
  the request goes to the nearest (`relay_switch.py:1159`); a preferred cap is
  not honoured beyond the switch (`1587`);
* frames to a slow cartridge are dropped when its queue of 64 is full
  (`host_runtime.py:1150`).

## Proofs

TLC shows a property on a small instance. The theorems hold for every value of
the constants that satisfies the named assumptions. `PROJECT.json` lists them.
Every invariant that a run checks and every action property is also a theorem;
what remains to TLC is [at the end](#only-model-checked).

**`CreditFlow_proofs`** (`WindowAssumption`, `StreamAssumption`; any number of
senders, any sizes of items, any bound on their number). `TypeCorrect`,
`WakeupsNeverLost`, `CreditIsConserved`, `NoViolation`, `SentIsBounded` and
`StreamNeverStalls`. `TypeCorrect` and `WakeupsNeverLost` hold for any windows;
the others, and `ImplementsChannel`, assume the sender's window no larger than the
receiver's, as on one link or on two where the sender's negotiated less (for the
converse see [Findings](#findings)), and `StreamNeverStalls` at least
two. The inductive invariant has
two halves. `ControlInv` says where the threads are: whose item is in progress, that a
registered gate is open, that nobody waits on a gate that has credit, that the
handler holds no grant back when it blocks, and that a computed grant is always
about to be written. `Accounts` is the bookkeeping: credit is conserved between
the two ends, and the receiver's window equals what is consumed, pending and
granted. Neither conservation nor back-pressure is inductive alone: a grant
computed by one thread and written by another has to be counted while it is in
neither place, and the counters of the window do not determine how much of an
item is held by the reassembly. `ImplementsChannel` is the safety half of
`IsBoundedChannel`: every step of the stream is a step of a channel that holds
`SenderWindow` items, or none. It needs that a CHUNK is not written by a thread
that would overfill the channel, which is back-pressure with that thread's credit
counted, and that the wire is empty when the demux has seen the end (`EndSeen`).

**`Admission_proofs`** (`ChainAssumption`, `AdvertisementAssumption`; any
requests, pools, chains and advertisements). `TypeCorrect`, `SlotsAreAccounted`,
`SleepersAreNotNext`, `LineStaysOrdered`, and `ImplementsSlots`: every step is
an entry with room, an exit or a resize of `Slots`, or a stutter. The inductive
invariant adds to the stated properties what ties a thread to its permit
(`PermitOfAdmitted`: only an admitted thread has one, and what is owed is owed
for a released one). The accounting needs that a thread in line holds nothing,
which needs the permit's state; that nobody sleeps on its turn needs the order
of the line, since an admission may make someone behind it next only if the
line is an order.

**`CartridgeRuntime_proofs`** (the assumptions of `CartridgeRuntime`; any
requests, pools, chains, limits and work of the handlers). `TypeCorrect`,
`TerminalBelongsToClaimant`, `StartsUnanswered`, `SlotsAreAccounted`,
`ImplementsSlots` and `NobodyIsLeftInLine`. The inductive invariant follows a
request through the threads. `PlaceInv` puts it at one place: it arrives, is in
line, is in the hands of one of the threads that drain the line, or has a
handler; `MainInv` says what the main loop has in hand, `RunningInv` between
which two steps a request is registered. `ClaimInv` relates the claim on the
terminal to the place of the handler, `AnsweredInv` whether a terminal was written,
and `FrameInv` says that a terminal is the last frame and of the kind its claimant
writes. That a handler which is over has left a terminal holds only because a
cancel that wins the claim writes its ERR before the handler can be through,
which no single one of these parts says. The accounting then needs where a
request can be between its admission and its release, on three kinds of threads;
nobody is left in line because each step that makes room puts a thread on its way
to the line before it lets go of the slot.

**`ResponseFlow_proofs`** (`ResponseAssumption`; any requests,
streams, threads, batches, CHUNKs and memories of writer and receiver).
`NoneIsLost`: an arrival that is taken joins what was delivered or is held and
drops none, one that is refused was there already or found no room.
`TypeCorrect`, `OvertakenFindRoom` and `ImplementsOrderedFlow` assume that frames
are overtaken by no more than the receiver may hold (`Displacement <= HoldLimit`,
which `frame.py:1498-1506` asks of the transport). The invariant speaks of a live
request's flow up to its terminal: its frames are numbered without a gap
(`WriterInv`), each was delivered, is held or is under way (`LiveFlow`), what is
held lies no further than the displacement beyond what is expected, and what was
routed is the beginning of what was sent (`GotInv`). A gap in what was delivered is
a frame under way, so that a frame which finds the buffer full would have
overtaken too many. What is written after the terminal, when the writer has
forgotten the flow, is numbered from zero again; `LiveFlow` and the transport's
rule on late frames make it arrive when the request has ended.
`ResponsesKeepRules` assumes besides that no two threads emit to one stream
(`OneWriter`; two that do may take their indices in one order and write in the
other, a hazard on the list). Its invariant has three parts. `AccountInv` equates
what was written for a request until its handler ends (the streams started and
ended, the indices of each) with what its outputs stand at, an index that was taken
and not yet written aside (`Due`); `PhaseInv` says that a thread with something to
write has an open stream and that nothing of the request was remembered as over;
so every frame up to the terminal may follow those before it (`RulesInv`). And
`NotedInv` equates what the receiver's rules have noted of a live request with the
frames routed to it, which are a beginning of those. `NothingIsLost`, under the
same assumptions, is about the bytes: `CoalesceInv` says that what was written to
a stream, what a thread has taken from its buffer and has not written, and what the
buffer still holds are together what was emitted (`OwedInv`), that each frame
leaves a beginning of it (`BeginInv`), and that all of it was written before an END
(`EndInv`). `FlattenSeq`, with which the community modules concatenate CHUNKs, is
recursive; it is unfolded one sequence at a time by a least counterexample on its
length.

**`RelaySwitch_proofs`** (`SwitchAssumption`; any requests and tree of calls, any
masters, windows, ring, numbers of grants and events). `Permits`,
`ResponsesEndOnce`, `CascadeCompletes`, `StragglersAreKnown` and `LedgersAreTrue`.
The inductive invariant adds three parts to the stated properties. `RegisteredOnce`
says that a request that was not registered yet has left no trace, neither a
response nor a frame in the queue nor a host, and that it is registered by one
step only; without it, an answer from before the registration could count against
an entry. `HostsAreThere` ties a host that serves a request to the connection it
was written to, so that a death finds everything that connection served. `SlotsHeld`
is the half of `PermitsAccounted` about slots; the other half, that the table has
counted one registration for each request seen, comes from the types. A cancelled request has no entry (`CancelEnds`), so that nothing can be
linked under it after the cascade has read its children. `Remembered` says that a
ring with room holds every ended request once; `NoFalseAlarm` and the theorem make
no statement when more requests were registered than the ring holds. The steps that
end many entries at once (a death, a cascade) end them in any order; the proof shows
what the table is afterwards for each entry, whatever that order was.

**`PoolSystem_proofs`** (`BoundAssumption`, `ManifestAssumption`, `NoneAssumption`;
any requests, any manifest whose list of names is that of its pools, any batches and
reports). `SlotsAreAccounted`, `TheLineIsHeld`, `TheLimitsAreEffective`,
`TheAnswersAreTrue`, and the action properties `FirstThatFitsGoes` and
`OneCanaryAtATime`. The kernel computes on lists with recursive functions (`Kept`,
`Configured`, `SettleWithin`), which two lemmas unfold: a function that is defined
step by step exists (`Recursion`), and what every step keeps holds of its last value
(`StepByStep`). The lists are then read as sets, as `Pools` has them: a line in
order of tickets, pools by name. The inductive invariant has a part for either end.
`EngineInv` says that the controller's line is that of the waiting requests, with
distinct tickets below the next one, that each pool counts its holders and has the
record's capacity, and that a chain names only pools that are listed, since the record
may change under a waiter. `LocalInv` says the same of the process and the limits in
`meta`, and that a process that does not run holds nothing. `SentFirst` joins the two:
nothing is served that was not sent. That nobody is passed over needs what the kernel
looks at to be what its line says (`FullFacts`, `RoomFacts`); that one canary goes
at a time needs that a record of a process that is not running has the single pool of
all, so that everybody counts in it.

**`Routing_proofs`** (`RoutingAssumption`; any masters, rosters, requests and
preferences over three or more values, any health and any change of it). The
assumption takes caps as the kernel accepts them: tags sorted, the prefix `media` for
input and output (`media_urn.py:319`) and `cap` for the tags (`cap_urn.py:291`).
`PassIsRelation`: one pass over two sorted lists of any length answers what comparing
every key would; what was read of one list lies before what is left of the other.
`ExecutableIsDefined`: the questions as they are executed are the defined ones. For
that the recursion of `MergeWith` is solved: from any two places on, the answer for the
keys that are left solves it, and a least counterexample shows that nothing else does.
`RouteGoesToTheNearest` and `WhatIsRoutedIsHandled` rest on four facts: a cap serves
as the comparisons say exactly when it does by the values its tags allow
(`MatchIsInclusion`, over three or more values); the keys by which the three routers
and the kernel rank are the same; what is first in a stable sort is unique; and the
fold of the selection keeps the first of the nearest so far. The inductive invariant
says, while the table is read, that the sides compared before the one at hand fit
(`SidesInv`), that what was found is the entries read so far that serve, in their order
(`ScanInv`), and afterwards that the destination is the first of the nearest, or the
first preferred (`DestInv`). The destination must hold by the table after the wait,
since the health of masters changes while a request waits; this is why the scan
starts again.

**`Caps_proofs`**. `MatchIsInclusion` and `MeetIsOverlap` give the comparisons of
constraints their meaning as sets of values; with fewer than three values the first
is false, which is why it assumes three. `RefinesTransitive` and
`GuaranteedIsPossible` are about whole URNs and questions.

### Only model-checked

* Liveness: `StreamCompletes`, `SendersNeverHang`, `NoWaiterForgotten`,
  `CancelIsHeard`, `EveryRequestEnds`, `TerminalArrives`,
  `EveryEntryEnds`, and the fair half of `IsBoundedChannel` (that an item which is
  there is taken in the end). These need fairness and ENABLED, which the prover does
  not handle.
* The findings, which are counterexamples.

## What is not modelled

* **Data.** Payloads, CBOR, checksums, media types, messages and wording.
* **Free-threaded builds.** `AdmissionPermit.release` tests and sets its flag
  without a lock; the model does it in one step.
* **In `CartridgeRuntime`:** CLOSE_STREAM and the live feeds that a CANCEL
  closes too; `set_policy` and POLICY; REQs that are refused at once; HELLO; write
  failures; the join of the handlers at exit; a dictionary that changes while
  another thread iterates over it.
* **In `Admission`:** an install's death while its request is being written is a
  release like any other; which master serves a cap is the relay switch's
  business. A waiter with a chain of several pools may be overtaken for ever
  when others keep one of them full: the code promises no more.
* **In `RelaySwitch`:** the background pump's own thread, the probe's timeout, the
  content of inventories beyond the caps they name, and a host that dials in again
  while its old connection still stands: `add_master` refuses it (`645`) unless a failed
  write had the slot declared dead.
* **Live feeds.** The ring's operations are each under its one lock; its producers
  are devices.
* **The host's routes and timers.** Of `CartridgeHost`, the start and death of a
  process and the choice of the cartridge are modelled; its table of routes with
  the eviction at the hard cap, and the heartbeat probes by themselves, are not. A
  relay (`relay.py`) is two loops that forward in order, part of a host in
  `RelaySwitch`.
* **The in-process host's** dispatch: a thread per request, no pools.
* **Planner, orchestrator, parser, registries, discovery, input resolver.**
  Sequential, over data that a model would have to write out; unit tests reach
  them.
* **Generated code that decides nothing.** The kernels are compiled to about
  44 000 lines of C. Some 13 000 of them format values for display, 2 800
  compare structures field by field, 6 000 are declarations and initialisers, and
  several thousand more are eliminators, boxed entry points and marshalling.
  What decides something is about 11 000 lines, in long case distinctions, and the
  modules stand for most of it: all of the pools, the flow, the request and the
  credit kernels, the relations of tags and the questions about caps.

## Plan

All modules of the first plan are written: credit, admission, the cartridge, the
order of frames, the request table and the switch, the pools of both ends together,
routing by caps; and what their runs check, apart from liveness, is proved. Left,
in this order:

1. Theorems about operators that the runs only use: that `Taken`, `Granted` and
   `Closed` of a gate keep the credit it was opened with, and that the rules of a
   request's frames (`Request`) reject what they should.
2. `RelaySwitch` as an implementation of an abstract request: registered, answered,
   ended once, whatever masters do.
3. `CartridgeHost` as a module of its own: routes and their eviction, heartbeat
   probes, between `RelaySwitch` and `CartridgeRuntime`.
4. `LiveFeed`: a ring with overruns, close and finish, and CLOSE_STREAM in
   `CartridgeRuntime`; theorem: the ring's bound.
