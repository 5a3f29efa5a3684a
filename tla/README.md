# Verification of AeroAgentSim

TLA+ models of the simulation kernel in this repository, the TLC runs that
check small instances of them, and TLAPS proofs of the properties that matter
most, for every value of the constants.  Paths below are relative to the root
of the repository.

## 1. The system

AeroAgentSim couples simulation engines (vehicle dynamics, networks, workflows,
agents) under one deterministic schedule.  `aerokernel/aerokernel` is the kernel;
`src/aeroagentsim` is the platform around it: engines, domain packs, a service
that runs experiments in worker processes, and a web frontend.

### Inventory

| component | state | operations | talks to | what is hard | what makes it correct |
|---|---|---|---|---|---|
| Coordinator: `coordinator.py`, `control.py`, `ingress.py`, `scheduling.py`, `queues.py`, `time.py` | the store: cut, seal, run target, frontiers, horizons, watermarks, queues, reservations; the locals of the run loop | `start`, `run_until`, `submit`, `admit_live`, `advance_watermark`, `advance_source_progress`, `cancel`, `close` | engines (calls), hosts (callbacks, threads), journal (append) | one lock that callbacks and waits give up: host calls fall between selection and grant, or between two microsteps of a settlement; partial waves; deadlines | nobody is served a time that is still open; nothing due is passed or sealed over; grants are legal; calls come back |
| Action ledger: `messages.py` with `transactions.py` | status and receipt head of each command, dispatches, cancel requests and decisions | pending, submit, dispatch, receipt, feedback, cancel request and decision | candidate transactions of a wave; host `submit`/`cancel` | cancel races cancel and completion; a wave is dropped half way | status follows dispatch; one cancellation; outcomes are final; requesters are told once |
| Candidate transactions, state, relations, samples: `transactions.py`, `state.py`, `relations.py`, `relation_sweep.py`, `sampling.py` | facts by prefix, relation intervals, sampled contexts | operations of a batch | ledger, storage | prefix isolation, future overlaps, sampling cycles | an older prefix never changes; a refused batch leaves nothing |
| Storage: `storage.py` | shared frozen prefixes, file tails, decode cache | fork, append, freeze | journal, readers | sharing under appends; cache identity | forks are isolated |
| Journal, replay: `journal.py`, `journal_stream.py`, `journal_codec.py`, `replay.py` | the file, its taint, the reader's offset | append, read, recover, replay | coordinator, service | short writes, torn last line, crash between write and acknowledgment | replay accepts exactly what the kernel left; an acknowledged record is never lost |
| Engine RPC: `rpc.py`, `rpc_transport.py` | connection state, request id, in-flight flag, server lifecycle | hello, reset, horizon, advance, react, hold, close | engine process | timed-out calls go on running; late answers; concurrent close | a result is the answer to its request; no retry; taint is final |
| Registry, binding, SDK: `registry.py`, `binding.py`, `sdk.py`, `ids.py`, `rng.py` | built once before a run | validation | coordinator | - | the assumptions of the coordinator model |
| Worker: `services/worker.py`, `platform/simulation.py`, `platform/ingress.py`, `pause.py` | pacing, pause, live inbox | execute, pace, accept ingress, hold | coordinator, pipe | admission against stop; wall clock | accepted input is answered; pacing never passes input |
| Worker registry: `services/lifecycle.py` | worker processes, calls in flight, stop stages | start, wait, call, stop, escalate, release | processes, threads | exit against calls in flight, escalation against completion | each call answered once; slots are released once |
| Experiments: `services/experiments.py` | cells, attempts, recovery marks on disk | coordinate, drive, stop, recover | worker registry, storage | crash and restart, retries | no cell lost or finished twice |
| Run storage: `services/storage.py`, `artifacts.py`, `projector.py`, `feed_index.py` | committed prefix, published files | refresh, publish, project | journal, readers | replace under readers, crash half way | readers see committed prefixes only |
| Service API, CLI: `services/app.py`, `cli.py` | none of their own | requests | the above | - | - |
| Low-altitude tasks and cooperation: `packs/lowalt/tasks.py` | the job, purpose and route of each flight; phase, responder, helper, offers of each incident; deferred steps | receipts, messages, timers, poll: assign, preempt, notice, decide, offer, select, drop, pick up, resume | kernel (one callback per wave), models (late answers), weather, energy | one wave brings receipts, messages, timers and a poll, and may write each fact once; agreements outlive the state they were made in | a job is with one vehicle or on its way to one; nobody is promised twice; what was agreed upon is done |
| Built-in engines, other packs, behaviours, algorithms | per-engine state | advance, react | coordinator | numerics, domain rules | the engine contract |
| Adapters, containers (SUMO, PX4, ns-3) | bridges | lockstep calls | external simulators | the partner is outside the repository | - |
| Authoring, scenario compiler, extensions, assistant, agents, frontend | documents, sessions | compile, edit, present | service | - | - |

`PROJECT.json` lists the same components with their status, and under `hazards`
each place in the code where something is hard to test, with the properties
that would catch it.

## 2. Modules

| module | what it is |
|---|---|
| `Instants` | `(ns, microstep)` times, their order, latching to a native grid, eligibility of messages |
| `Timeline` | abstract specification: what sources and hosts may rely on about physical time |
| `Coordinator` | the schedule of the kernel, one action per stretch of code between two points where the lock is given up |
| `CoordinatorInv` | its inductive invariant |
| `MCCoordinator` | instances for TLC |
| `CoordinatorProofs` | proofs about it, which begin with the order of instants |
| `ActionContract` | abstract specification: what a requester may rely on about its command |
| `Actions` | the ledger of commands and cancellations, and the waves that change it |
| `MCActions` | its instance for TLC |
| `ActionsProofs` | proofs about it |
| `RemoteCalls` | abstract specification: what a caller of a remote engine may rely on |
| `Rpc` | one connection: client threads, exchanges, pipes, server |
| `RpcProofs` | proofs about it |
| `PublishedRun` | abstract specification: what readers of a run's directory may rely on |
| `RunStore` | that directory: the threads and the crash of its writer, the host that settles it, restarts of the service, viewers |
| `RunStoreProofs` | proofs about it |
| `InputCalls` | abstract specification: what a caller of a worker may believe about its input |
| `Workers` | one worker under its registry: launch, calls, exit, escalation, release, shutdown |
| `WorkersProofs` | proofs about it |
| `Experiments` | one experiment under its manager: coordinator, supervisors, cells, recovery, close |
| `ExperimentsProofs` | proofs about it |
| `Custody` | abstract specification: what the sender of a job may rely on |
| `Cooperation` | the task engine of the low-altitude pack: jobs, preemption, incidents, hand-overs |
| `CooperationInv` | its inductive invariant |
| `MCCooperation` | its instances for TLC, one per policy |
| `CooperationProofs` | proofs that every step keeps the invariant, and moves jobs in known ways only |
| `CooperationPromise` | proofs of what follows about its steps: faults, and the refinement of `Custody` |

The modules are joined by what one assumes of the next.  `Coordinator` has the
engines' waves as free choices; `Actions` is what such a wave does to the ledger, `Rpc`
how a remote engine is asked for one.  `RunStore` sees of the kernel only its
acknowledged records, has of the registry and the manager only that they settle a writer
that is gone, and of the calls only that an input thread exists; `Workers` has those
calls and that exit in detail, and `Experiments` the manager, with the run of each cell
reduced to an outcome.  `Cooperation` is one engine of the kernel: its wave is the `Advance`
or `React` of a partition, and the rule it has to obey is the kernel's, one write per fact.
No module composes two of these: the state they share is a handful
of facts, which each has as its own variable or as a free choice that contains the other's
behaviour.

### Coordinator

The variables up to `fault` are the kernel's store (`state.py`, published by
`Kernel._publish`); `closed`, `stopped` and `journalOpen` are the progress of
`close()`; the others are the locals of the execution thread.  `pc` says where
that thread last gave up the lock:

| `pc` | place in `coordinator.py` |
|---|---|
| `new`, `idle` | before `start()`; between calls |
| `plan` | head of the loop of `_run_until` (:1293), entered with nothing selected |
| `gate` | in `on_boundary` (:1319) |
| `wait` | in `_wait_watermark` (:961), for blocked streams |
| `advance` | in `on_poll` of `_wave`, before a physical wave (:591) |
| `boundary`, `settle` | in `on_poll` after it, and between rounds of `_settle` |
| `react` | in `on_poll` of `_wave`, before a reactive wave |

`stale` records that a host record has moved the cut since the thread read it;
the code compares the two cuts at these places and replans.  A wave is one
action: the engines are called with the lock held.  Its effect on the store is
chosen freely within what commit rules allow (`Invoke`): horizons, timers,
messages along declared routes, completion of commands.  `Advance`, `React`,
`Boundary`, `SettleTimers` and `Seal` stand for the records the kernel appends.
`EngineFault` and `WaveFault` are the two ways engines stop a run: before
anything is recorded, and after the intents are.

`close()` shuts the journal after it has released the lock
(`CloseJournal`), so any later append of the run fails (`JournalGone`).  The
model does not let the journal go in the middle of one wave.

Abstracted or left out: sampled contexts and their settlement, facts and
relations, bootstrap commands, idempotency keys and payloads, native clocks and
the check that a grant is on the native grid, wall-clock pacing.  `Resume`
assumes what the docstring of `run_until` asks for, that a yielded run is
resumed with the same target or a later one; the code does not check it.  Of
several cancellations that are pending for one command, the model keeps one.
An engine may set a timer two microsteps later, which leaves a gap for other work, or
at the next native instant (`DuesAfter`), where
`transactions.py:873` allows any later instant; it notes its messages at the instant
of its wave (`transactions.py:789` allows future ones); and it gives one horizon per
invocation, where the loop asks again (`coordinator.py:1193`, :1294).  These keep the
instance small, and are the narrowest places of this module: the theorems, too, are about a
kernel whose engines do so.

### Actions

The model has the published ledger (`store`) and the candidate of the wave in
progress (`draft`).  A wave publishes its dispatches first (`Invoke`), then the
batches of its partitions are applied in canonical order, one operation per
step; `EndBatch` of the last one publishes the candidate and a refused operation
drops it with a fault.  The right of an operation to name the receipt head and
the dispatch among its causes is one Boolean (`cites`).  The host is the one
control source outside the partitions.  A host cancellation that is rejected
leaves a record and no state, so it is no action.  `BadBatch` covers engines that
raise and every refusal about something the ledger does not hold.

### Rpc

| variables | code |
|---|---|
| `conn`, `requestId`, `lock` | `RPCConnection.state`, `.request_id`, `._lock` |
| `stage`, `asking` | where each client thread is in `RPCConnection.call` or `RemoteEngine.close`, and with which operation |
| `exchanges` | the threads that `bounded` has started for `exchange`, with or without a caller that still waits |
| `requests`, `answers`, `streamOpen` | frames in the two directions; whether the client has closed its stream |
| `serving`, `peer`, `servedId` | loop, `state` and `request_id` of `serve_requests` |
| `handlers`, `engineLock` | the threads that `bounded` has started for `serial_handle`, and who is inside the engine |
| `log`, `accepted` | histories: requests that entered the engine, requests whose results were handed over |
| `engine` | whether the constructor of `RemoteEngine` has returned and `close()` has been called |

There are two client threads: one that constructs, resets and drives the engine, and one
that closes it at any moment once it is constructed.  This is more than the kernel does,
which closes its engines from one place, and what the connection's lock is for.
A deadline is a nondeterministic choice: `Expire` on the client and `Overrun` on the server
leave the exchange or the handler running, and it goes on to write, read or enter the
engine by itself (`Fade` ends it).  A result is `good`, `bad` (a well-formed response whose token,
frontier or cut does not fit, found by `RemoteEngine` after the connection has accepted
it and released its lock: `Verify`) or an `error`.  Acquiring the lock, checking the state, and
setting it are separate steps.  `Crash` is the death of the engine's process, with its threads;
`ServerEnds` is the end of the loop, after which a handler may still enter the engine.
Closing a stream does not interrupt a read that is waiting on it, so `Read` has no guard on
`streamOpen`.  `work` stands for `horizon`, `advance`, `react` and `hold`, which the
lifecycle of the connection treats alike.  Left out: framing and codecs, the
negotiation of `hello`, the arrival budget of a hold, the abort callback.

### RunStore

| variables | code |
|---|---|
| `wal`, `tail` | `journal.jsonl`: complete lines, and what follows the last |
| `ack`, `index`, `status`, `final`, `observed` | `committed-prefix.json`, `index.json`, and three fields of `manifest.json` |
| `holder`, `acked`, `tainted`, `kernelClosed` | the append under way, what the kernel holds for written, `Journal.failed`, the kernel's `_closed` |
| `cache`, `rows`, `coord` | `RunStorage._published_prefix`, `.entries`, and the coordinate each thread has read and not yet published |
| `stage`, `input`, `want`, `closed` | where the execution thread of `execute` (or of the run of a cell) is, where the thread of `accept_ingress` is, the outcome about to be reported, `RunSession.closed` |
| `owner`, `hostUp`, `settled`, `restarted` | who settles the run: `WorkerRegistry` for a service run, `ExperimentManager` for a cell; the host's life; whether it has settled; whether `create_app` has run again |
| `viewing`, `shown` | a `RunStorage` opened to read, and the rows it has offsets of |

A coordinate is a number of records.  An append is three steps (`Begin`, `LineVisible`,
then acknowledged or failed), and the writer may be killed between any two, so the file may hold a
record nobody acknowledged, or a part of one.  `AppendFails` taints the journal; the tail
that is left is what recovery has to see through.  The two publishers read the coordinate at one point
and write the sidecar, the index and the manifest at others, in this order, without holding
the kernel's lock.  Cleanup of a faulted run appends a last record, and may hang or be killed:
what the run had seen is put down first (`observed`).  The two threads of the worker put an
outcome or a fault down by reading the manifest, changing it and replacing it as a whole, without
a common lock; the two halves are separate steps (`EndingRead` and `RecordOutcome`, `InputRead`
and `InputReport`), and one thread may undo what the other has written.  Then the host settles the run from the
files alone.  A viewer may open at any moment, on an index older or newer than the coordinate.

Left out: a publication that fails for lack of disk, the names of temporary files (with the
collision of two replacements of the manifest, section 5), `KeyboardInterrupt`, what the records say and how they are coded, projections and their cache.

### Workers

| variables | code (`services/lifecycle.py`) |
|---|---|
| `proc`, `killed` | the process: before its marker, starting, running, failed before t=0, dead |
| `exited`, `released`, `monitor`, `abort`, `closer` | `handle.exited`, `.released`; the tasks of `_monitor` and `_escalate`; `close()` |
| `lock`, `busy`, `shutting`, `conn` | `input_lock`, `channel_busy`, `channel_closing`, the host's end of the pipe |
| `requests`, `replies`, `handling`, `executed` | the pipe and the worker's loop at its other end |
| `caller`, `exchange`, `got`, `told` | each calling thread, its exchange thread, the reply that reached it, the answer it gave |

What a coroutine does between two awaits is one action, as the event loop runs one at a
time; callers and exchanges are threads and interleave with it freely, and what is
done under `channel_lock`, which guards the two channel flags, is one action.
There are no clocks: any deadline may pass at any time.  The process may exit at any
time, and must only when it is killed.  A descendant may keep the pipe open after that, so
the end of the process does not wake a read; only `shutdown` of the socket does, which is why
`Release` sets `shutting` whatever else it does.

Left out: the files (`RunStore` has them), warm projections, a thread that cannot be started,
a reply that is not a receipt, and the answer `bounded_input` gives by itself when the loop is late.

### Experiments

| variables | code (`services/experiments.py`) |
|---|---|
| `closer`, `abort`, `saved` | `close()`, `entry["abort"]`, the status in `experiment.json` |
| `pc`, `status`, `next`, `active`, `ready`, `row`, `times` | the coordinator thread: where it is, `report["status"]`, the cells not yet taken, in control, to be recovered; the rows of the report |
| `sup`, `reaped`, `force`, `inv` | the supervisor of each cell, what it has confirmed, how hard it was asked to end the invocation, and the invocation |
| `manifest`, `published` | the run of the cell, `cell-*.json` |

A step of the coordinator is what it does between two waits or two looks at a flag that
others write.  Any process may be killed at any step, or be impossible to kill; when the
supervisor is killed, the invocation lives on and nobody can confirm its end.  Starting,
saving and recovering may raise at each place where the code lets them, which leads through
the `finally` of `_coordinate`.

Left out: a crash of the host, parsing and validation, measurements and their aggregation,
what a run that failed is called, helpers of a cell and best-effort supervision.

### Cooperation

| variables | code (`packs/lowalt/tasks.py`) |
|---|---|
| `state`, `flight`, `incident` | `Job.phase`; `Flight`, with `pending`, `command_id`, `status` and `route` as one `leg`; `Incident` |
| `asked`, `steps`, `due` | `coop_pending`; `coop_steps`, and those of them whose timer is in this wave |
| `stage`, `turn`, `written`, `resumed` | where `on_inputs` is, and `_poll` in it; the facts this wave has set; `coop_resumed` |
| `fault` | the kernel's refusal of a second write, or an exception of the engine |
| `policy` | the configuration of the pack, chosen at the start |

A callback is many actions, from the first receipt to `Commit`, in the order of the code:
receipts (`Receipt`, `TripFails`), messages (`Reply`, `Control`, `Charged`), timers (`Occur`,
`Step`), and at a tick the poll, whose turns follow the code's loops: `Poll` releases jobs,
`FollowUpTurn` and `Notice` are `_coop_tick`, then come `Preempt`, `FlightTurn` for each flight,
and `Assign`.  A turn may only be passed over if the code would `continue` there (`Past`).  What a
wave has set is seen by the engine's own fields at once and by `read` only after
`Commit`; where that matters, in `Notice`, `Queued` and `Pickup`, the guard looks at `written`.
Steps deferred with a microstep come due in the next wave, those with a time in any later one.

Distances, batteries, loads, open sites and routes are free choices wherever the code asks for them,
so `Allowed`, `Candidate` and the choice of a helper are as wide as any geography makes
them.  `"control"` stands for the purposes `charge` and `avoidance`, which differ in who ends
them, and `"stranded"` for the same without a goal, which the next poll does not survive.  The
messages of control are what they do to a flight (`Orders`): hold for a time (`held` is then
`"control"`), go on by another route, leave for a pad or another altitude.

Left out: payloads, kinds of work, food, rescue, mission control, operators, the end of an
incident, a planner that breaks its contract, a route that is not found under way, and allocation
by a model: a late answer of it raises (:671), so what is said about faults is about jobs
that are allocated by an algorithm.

## 3. Runs

| run | instance | states | shows |
|---|---|---|---|
| `Coord_live` | two engines in a chain, a stream for each (one rejects late input), one command, times to 2, two microsteps | | the safety properties of the schedule and the refinement of `Timeline`, with partial waves, catch-up, live and reserved input, cancellation, close |
| `Coord_offline` | no streams; three engines, two of them a cohort, messages all ways, a lifecycle controller, a grid of 2, a lag of 1, timers, three microsteps | 1.8 million | the cohort stays together, and one instant is settled before it is sealed |
| `Coord_fair` | one stream, which rejects late input; fairness | 162,220 | every call comes back |
| `Coord_cancel_seal`, `Coord_source_race` | small instances | | the disagreements 1 and 2 of section 5 |
| `Actions_race` | two partitions, a host command and an engine's, two cancel messages, batches of up to two operations | | the ledger's properties and the refinement of `ActionContract` |
| `Rpc_race` | five requests, a driving and a closing thread | | the two ends agree whenever the connection is usable and at rest, nothing illegal is sent; the refinement of `RemoteCalls` |
| `Store_run` | a service run and a cell, up to four records | | crashes between any two steps: nothing acknowledged is lost, nothing else is shown, a failure that was put on record is the outcome, even if the two threads of the worker replace the manifest at once; the refinement of `PublishedRun` |
| `Store_restart` | a service run | | the disagreement 3 of section 5 |
| `Workers_race` | two calls | 82,131 | no descriptor is closed in use, every call is answered, a worker that is dead is released, a shutdown is enforced; the refinement of `InputCalls` |
| `Exp_run` | three cells in batches of two | 685,574 | one row per cell, no invented success, survivors reported, no edit of a run still written, control before recovery, `close()` comes back |
| `Coop_run` | three vehicles, two incidents, two jobs, eight policies | 178,953 | no job is lost or held twice (the refinement of `Custody`), no vehicle is promised twice, the engine stops for known reasons only (`KnownFaults`), agreements are carried out |

Why these bounds are enough to be interesting.

*Coordinator.*  The hazards are races of one host call with one wave, between two partitions of
which one is ahead.  Two partitions give a served and a waiting one; physical times
0, 1, 2 give a sealed, an open and a future instant; two streams let one close while the
other blocks; `MaxMicro` of 2 or 3 lets a catch-up wave, a boundary and a reaction share
an instant and also reach the limit.  The cohort needs a third partition outside it.

*RunStore.*  Four records give a header, one published, one acknowledged and one torn.

*Workers.*  Two calls are a call and the one that takes over its lock; a third only waits
(the safety properties were also checked with three, 1,135,229 states).

*Experiments.*  Three cells in batches of two give a batch with a sibling and a second
batch that must not be begun, or must be filled in.

*Cooperation.*  Each policy has as many vehicles, incidents and jobs as its question needs.
`TwoAtOnce`: a job between two incidents, each of which may ask the responder of the other for help.
`ByModel`: late, bad and missing answers, with a helper that has a job of its own.
`TwoHelpers`: two answers in any order.  `Troubled`, `TroubledUrgent`: one failed trip, control
message or hold anywhere in a hand-over, and beside an urgent job.  `Stranding`: two of these for
the vehicle that hands over, so that control sends it away and that trip fails, which spoils
the parcel; the run stops, or its charge lets the vehicle fly on.  `Urgent`: preemption
against the end of a response.  `Protected`: a job that may not be given away, and a
replacement that is required.  `trouble` bounds failed trips, control messages and holds, and
`hit` names the vehicles they befall.  All of it at once is beyond TLC.  Three vehicles with two
incidents and three jobs add agreements of one vehicle that overlap (section 5); the safety
properties also hold of such an instance (1,183,076 states), which is too large for
the liveness property and no part of `Coop_run`.  So the first half of `RaisedForReason` is
shown by its theorem only.

Every property is broken by a mutant of the code in the same instance (`mutants` in
`PROJECT.json`), so each bound is large enough for its property to be at stake.
Bounds that are not the code's own: `MaxNs` (inputs), `MaxOps` (operations of a batch),
`MaxCalls` (requests of a connection), `MaxRecords`, one command in the coordinator
runs, and at most one pending timer set per owner and wave.  `MaxMicro` is the kernel's
`max_microsteps`; `Jobs` the manager's `jobs`.

Deadlock checking is off: a run really stops, when closed, faulted, dead or settled, and
a bounded instance also when its inputs are used up.

### Fairness

`Coord_fair`.  Weak fairness of the execution thread: it is an ordinary thread and every
wait in it is woken by `notify_all`.  Weak fairness of each source's watermark: a stream that
never closes its prefix blocks by design, until its deadline.  Strong fairness of the steps
that follow a poll of the host (`GateProceed`, `AdvanceStep`, `ReactStep`): a host
that commits a record in every single poll can make the thread replan for ever, the code has
no defence against it, and the property is about hosts that do not.  Yields, timeouts and
engine failures may end a call but are not needed to.

`Store_restart`.  The host's observation of an exit is a task of a running event loop.  Nothing
is assumed of a cell: one whose end is not confirmed stays unsettled for good
(`experiments.py:1382`), so that no run claims a dead writer to be settled.

`Workers_race`.  Threads and coroutines are scheduled, deadlines pass, and a process exits
once it is killed.  Nobody has to launch, call or close, and a worker has to take nothing and
to answer nothing.

`Exp_run`.  Only the coordinator thread, which never waits without a deadline, and the return of
`close()`.  No process is assumed to do anything, not even to die when it is
killed.

`Coop_run`.  Weak fairness of the engine: ticks come and a callback returns.  Strong fairness of the
world: braking, trips, charges and holds end, and time passes.  No model has to
answer, so `CooperationEnds` asks of models only that an agreement, once made, is carried out.  It
excludes a run that has stopped, and two agreements of one vehicle that overlap, of which the
code may forget one (section 5).

## 4. Proofs

All theorems hold for any partitions, streams, routes, cohorts, grids, lags, commands, limits,
requests, records, calls, cells and batch sizes that satisfy the named assumptions:
`CoordinatorAssumption` (types of the constants; cohorts are disjoint and reactive),
`InfluenceAssumption` (what the fixpoint of `Kernel._initialize_ingress` ensures: streams
bound to a partition influence it, influence follows routes, members of a cohort share
it), `ActionsAssumption`, `RpcAssumption` (the two threads and `None` differ),
`RunStoreAssumption`, `CallsAssumption` (a call is none of the words beside it) and
`SizesAssumption` (there is a cell, and a batch holds one).  TLC evaluates them in the runs.

**Coordinator.**  The safety properties are not inductive: that no work is passed, say,
depends on what the thread has selected and on whether the store has moved since.  `IInv`
in `CoordinatorInv` adds that, in layers that are proved one after another:

1. `TypeOK`.
2. `Served`: frontiers lie between the seal and the last record, the thread's
   locals agree with its place, the partitions it serves are exactly those whose
   influence is closed; gives `ClosedPrefix` and `CohortsTogether`.
3. `Limited`: the recorded limit covers the open instant; gives `LimitCoversOpenInstant`.
4. `WorkOpen`: no queued work lies before the last record, nor before a selected
   boundary (host operations reserve, they never queue work, so it survives them);
   gives `WorkAhead`.
5. `CommandsOnce`: a command has one reservation, then one work item.
6. `ReservationsAhead`: no command reservation is overtaken by a record, a seal, or
   by a selection *that is not stale*; gives `NoStrandedCommand`.

From `IInv` follow `GrantsAreLegal`, the action properties `CommonSeal` and
`TimeForward`, and the refinement `PromiseKept`: each action maps to `CloseTo`,
`Admit`, `Serve`, `Publish` or `Seal` of `Timeline`, or to a stutter.

**Actions.**  `IInv`: both ledgers are sound (`LedgerOK`), and the candidate has
only gone on from the published one, command by command (`Ahead`).  The second
part is what makes the refinement go through: publishing a candidate takes several
commands several stages further at once, which is a step of `ActionContract`.

**Rpc.**  `AgreedWhenUsable` says nothing about the middle of a call, so it is not inductive.
`IInv` says of the call under way what is left of it: its identity is counted
(`Counted`), who waits for it and with which connection (`ClientOK`), and where it is: exchange,
request, handler or answer (`ExchangeOK`, `RequestOK`, `HandlerOK`, `AnswerOK`), with the server's
lifecycle equal to the client's until it has answered, and a step ahead from then on (`LifecycleOK`).
That an overrun leaves a server that reads no more, and an expired call a connection that
is tainted, is what keeps late threads apart from the next call.  That `close()` is called
once is an assumption of `Spec` itself, and needed: see the end of section 5.

**RunStore.**  `JournalInv`: the file holds what is acknowledged, and beyond it at most what
one append has left, which is still under way or has tainted the writer.  `PublishInv`: the
coordinate each publisher has in hand, the sidecar and its cache cover acknowledged records only,
and rows that were read from the file lie within it; a writer that never acknowledged
its header is the one exception.  `OutcomeInv`: the status agrees with what the execution
thread is about to report.  With `SettledIsAcked` and `FailureSettled` they are inductive,
and give recovery, viewers and the refinement of `PublishedRun`.

**Workers.**  The reply that a caller takes is its own because only one input is ever in the
pipe, and that holds because `input_lock` is passed on by whoever drains it: `LockPassed`
(the lock goes from the caller to its exchange, and is held all the while),
`CallerFirst` and `Claimed` (an exchange begins as its caller begins to wait, with the channel
claimed, and a closed one has no users), `OneAtATime` and `ReplyIsMine` (what is in the pipe
belongs to its one user), `Results`, `NeverSubmitted` (a call told "not submitted" has no
exchange that could still send) and `DeadFirst` (only the connection of a dead worker is shut
down).  For any number of calls.

**Experiments.**  A cell goes through its life in one order, whatever is raised where: `Started`
(cells are taken in order; each that was started is in control, waits for recovery, or has its
row), `Rows` (rows are written once, of cells that were taken until all is done), `Confirmed`
(what a supervisor has confirmed is dead, and a row that says a cell ended is of a
confirmed one), `Judged` (a report is saved as completed at the very end), `Told` (who was there when
the manager closed was told and waited for) and `Forced` (before the coordinator gives up, everyone
left was killed).  For any number of cells and any size of a batch.

**Cooperation.**  `OnePart` and `CustodyKept` say nothing of what has been promised for later: a
step that is due, a question to a model, a flight that control has interrupted, a job that has been put
down.  `IInv` in `CooperationInv` says it, in two layers, and `WrittenOK` adds a third for what
a wave has written.

1. `Dealings`.  `RecordOK`: how far an incident has got, its choice and its hand-over agree.  `StepsOK`
   and `AskedOK`: a deferred step or an open question belongs to the stage its incident is in, so
   that an old answer never decides again.  `MissionOK`: a vehicle that responds, drops or
   fetches has an incident to do it for, which outlives the interruption by control (`Part`).
   `OneEngagement` is `OnePart` without cardinalities.
2. `CustodyOK`.  `FlightOK`: a job that is flown is active, one that is set aside is paused.
   `OneHolder`: one vehicle has it.  `NotLost`: one that nobody has is new, or over, or agreed
   upon.  `DealOK`: one that is agreed upon has been left by all but the responder that brings it
   to the point, and is not over, unless it has failed on that way (`Goes`).  `OneDeal`: there is one
   agreement about it.  `Parcels`: what is brought is what was agreed upon, or nothing any more.
3. `WrittenOK`, as long as nothing has gone wrong.  `HeldOK`: a vehicle whose job this wave has
   written does nothing more about that job in the wave: its turn is over, or the wave is one of
   deferred steps and it has nothing to decide, or it has just left its job for an urgent one, or
   it was resumed, and the loop of the poll passes it over.  `HandoffOK` says the same of an
   agreement, but for a job that has failed on its way to the point, whose vehicle is not there
   (`Spoilt`), and `StageOK` of the stages of an incident, `PromptOK` of a response that ends without hovering, `FreshOK` of jobs that are new.
   One case is left open, a vehicle that was resumed before the poll, and `_preempt` is the
   one action that writes in it: this is `DuplicateByPreemption`.

Most actions touch one vehicle and one incident.  The first lemmas of `CooperationProofs` say what such a
change may do without disturbing the rest (a frame for each layer), and each action is
then a case of one of them.  The custody layer shows besides how jobs move in a step (`Moved`):
one job in one of five ways (`Begins`, `Ends`, `Agrees`, `Spoils`, `Takes`), or jobs that are agreed
upon are left (`Leaves`).  This is what the refinement needs: each of these ways is one
action of `Custody`, or a stutter.  The third layer has a frame of its own (`WrittenUpdate`: which jobs
and facts a step writes, of which vehicles and incidents), and each action writes only what
was not written (`Once`).  That a spoilt parcel is not dropped in the wave that wrote its
failure needs one more fact about steps: only a receipt brings a vehicle to its goal (`NextLands`).

`RaisedForReason` has two halves.  An incident that fits the flight exists (`MissionOK`), so only a
second open hand-over of the same vehicle can be found in its place; and a flight without a goal
under control is one whose trip has failed.  Both theorems about faults, `RaisesForTwoReasons`
and `StopsForKnownReasons`, are about jobs that are allocated by an algorithm.

The assumptions are `NamesAssumption` (fleet and scene are sequences, `None` is not a name, and no
vehicle is in the fleet twice: `self.flights` is a dictionary by vehicle, `tasks.py:206`) and
`PoliciesAssumption` (types of a configuration; nothing is assumed about its choices), so
the theorems hold for any fleet, scene, jobs and configuration, those with two hand-overs by one
vehicle included, which no run reaches.

Only model-checked: the liveness properties, which are out of the prover's reach
(`RunReturns`, `DeadIsReleased`, `CallsReturn`, `StopIsEnforced`,
`CloseReturns`, `CooperationEnds`) and the runs that show a disagreement.
Conversely `TypeOK` of `Rpc`, `RunStore`, `Workers`, `Experiments` and `Cooperation` is proved
for every instance and takes part in no run.

## 5. Disagreements found

1. `cancel()` during a settlement reserves a boundary in the instant being settled,
   which is then sealed over it; replay refuses that prefix (`Coord_cancel_seal`).  This
   is why the seal properties and `Timeline` speak of command reservations, and
   `SealLeavesNoReservation` of all.
2. A stream that closes its prefix during a partial settlement makes the run fault with
   `REACTIVE_READY` (`Coord_source_race`).
3. A restarted service calls every run that has not ended interrupted and ignores the
   failure its worker had put down, which the HTTP reference says is retained (`Store_restart`).

Seen while modelling, without a run of their own:

- `close()` during a run records `run_stop` and gives the lock back; the execution thread passes waves
  and settlement without looking at `_closed`, and appends state records behind it until the
  journal is shut (`coordinator.py:1477`), which `replay.py:207` refuses.
- The expiry of a watermark wait is raised to the caller and leaves no fault in the
  journal, where the design document has one (`coordinator.py:986`, :1386).
- `RemoteEngine.close` called twice during one call replaces the taint by `closed`, and the
  call in flight then hands its result over and may make the connection `ready` again
  (`rpc.py:642`).  With a socket this takes no narrow race: closing it does not wake a read
  that waits on it.  The kernel calls it once, which `Rpc` assumes.
- A restart of the service while an orphaned worker still runs marks that run interrupted, and
  promotes the visible tail of its journal when nothing was published (`app.py:100`).
- The fault that the input thread reports may be overwritten by the "completed" of the execution
  thread; `FailureSettled` holds all the same, as a failure only counts once it is put
  down in `execution_outcome`.
- The two threads of a worker read, change and replace `manifest.json` (`worker.py:461`,
  `storage.py:219`) without a lock in common, so each may undo what the other has written; `RunStore`
  has this, and `FailureSettled` survives it, since the one that undoes an outcome leaves a
  fault.  They also share the temporary file `manifest.json.writing` (`storage.py:202`): that one of them
  replaces what the other is still writing, or finds it gone, is not modelled.
- The host's observation of a writer that published no coordinate empties `index.json`; a
  viewer with rows then asks `admissions.py:42`, which may refuse with "moved backwards".
- A cell that died by itself just before its experiment was cancelled is reported as
  interrupted; `get()` from a second process on the same root marks a running
  experiment interrupted.
- `_coop_flight` (`tasks.py:1404`) takes the first incident of the vehicle whose hand-over is accepted
  or dropped, which may be an older one, already photographed, whose helper is still busy.
  Then `assert incident.point is not None` fails; or, if that one had a point too, the older parcel is
  dropped again, and the newer agreement stays accepted for ever: its helper waits at the point (:1450)
  and nothing raises.  It takes three vehicles, two incidents and three jobs, more than
  `Coop_run` has.  `RaisedForReason` makes the first outcome one of two reasons to raise, and is
  proved; `CooperationEnds` leaves agreements that overlap out.
- A trip under control that fails leaves its vehicle under control without a goal
  (`tasks.py:830`), and the next poll raises (:1918), unless a charge ends before it.  Then the
  flight goes on, and if it was bringing a parcel to a hand-over point, the job, which has failed
  with the trip, is dropped there and picked up all the same: a failed job comes back, and may be
  completed.  `Custody` has this as `Spoil`; policy `Stranding` reaches it.
- The timer that ends a response may fall on a tick: the job that is resumed there is preempted by the
  poll of the same callback, as `_preempt` does not look at `coop_resumed` (the loop over the
  flights does, :1886), and its state is written twice, against the comment at :999.
  `DuplicateByPreemption` makes this the one exception, and is proved; policy `Urgent` reaches it.
- An urgent job that fails leaves the job it had suspended so until another one completes.
- An allocation by a model that arrives after its vehicle has become a responder raises
  (:671), although the comment at :655 has obsolete offers dropped.  Such allocation is left out of
  `Cooperation`.

## 6. Not modelled

*Inside the modelled components*: what each subsection of section 2 names as left out.

*Candidate transactions and storage forks* (`transactions.py`, `state.py`, `storage.py`): in the
live kernel one line of descent writes, and a fork that lost is dropped with its wave, so two
writers of one shared tail do not meet there; what an `AppendList`, an `Overlay` or
a `FactVersions` returns is a function of its calls, which the unit tests compare with plain lists.
Payloads, schemas and relations are data.

*Replay's judgement of a journal* (`replay.py`): a second reading of every rule of the kernel,
record by record.  A model of it would be a second `Coordinator` that sees the records; two
of the disagreements above are places where the two readings part.

*Wall-clock pause* (`pause.py`): a hold asks remote engines in turn, and any failure faults
the run; there is no way back to get wrong.  *Pacing* only decides when a step is taken.

*Other engines, packs, algorithms, adapters*: functions of one batch, called one at a time, mostly numerical;
the partners of the adapters (SUMO, PX4, ns-3) are outside the repository.

*Authoring, scenario compiler, extensions, assistant, frontend, service API*: compilation of
documents, presentation, sessions and request handlers, without state that outlives a call or is
shared with the components above except through them.
