# A TLA+ model of pidag

pidag runs DAGs of shell commands and model calls. A run is one process: an
event loop dispatches nodes, a consumer writes what happens into a vault (redb),
and a run that is interrupted is resumed from there. Runs are started from the
command line, through a server (RPC, MCP, A2A), by a spec queue, which runs one
spec after another as child processes, or by `pidag auto`, which cron starts
again and again. The DAG of a spec is made from a workflow template.

This directory holds TLA+ modules of the parts of that program whose
correctness depends on order, on concurrency, on crashes or on the details of an
expansion; the TLC configurations that check them; and proofs, checked by TLAPS,
of the safety of the scheduling loop, the node tasks and their budget, the await
functions, resume, vault and server, the workers and the lock file. `PROJECT.json`
maps every definition to its source lines. For example:

    tlc -workers 2 -config sched_all.cfg MCScheduler
    tlapm SchedulerProofs.tla
    tlapm ServerProofs.tla

## The system

| Component | State it keeps | Operations | Module |
|---|---|---|---|
| Scheduling loop (`scheduler/execute.rs`: `execute`) | `node_state`, `in_degree`, `after_pending`, `ready`, `enqueued`, task set, skip worklist | drain, budget gate, join, walk the dependents (release, skip cascade, block), finish | `Scheduler` |
| Node tasks (`dispatch_node`, `eval_verify`, `eval_critic`, `BudgetInner`) | model, attempt and `is_first_call` of each task; shared counters and `breach` | reserve, call, record usage, retry, fall back, verify, critic | `Dispatch` |
| Watchers (`scheduler/await_loop.rs`, `mod.rs`) | watch channel of `Snapshot`, tokens, nodes handed out | `await_dag`, `wait_any`, `resume_await`, timeouts | `AwaitLoop` |
| Events and vault (`core/event.rs`, `store/`) | channel; event log with sequence numbers, node records, artifacts, timings, run row, budget; the schema version; who has the file open | emit, consume, project (in one transaction or by parts), open per operation, migrate, read since | `Vault`; as far as a resume needs it, `Resume` |
| Checkpoint and `pidag run` (`sdd/resume.rs`, `cli/run.rs`) | none of its own: it reads the vault | load, replay, cached report, exit status | `Resume` |
| Server (`rpc/`; `a2a/server.rs` and `mcp/server.rs` delegate to it) | map of runs, spawned tasks, `completed_at` of each | submit, status, result, await, cancel, retry, sweep | `Server` |
| Workers and backends (`worker/`, `backend/`, `a2a/worker.rs`, `mcp/call.rs`) | pool of `pi` clients, permits, sessions; child processes; the mutex of the MCP client | route, open and close a session, prompt, spawn, poll, time out, drop | `Workers` |
| DAG model (`core/dag.rs`) | the DAG | expand `for_each`, validate | `Dag`, `DagExpand` |
| Workflows and SDD driver (`workflow/`, `sdd/`, `cli/sdd.rs`) | templates | expand a template for some iterations, run it | `Workflow`, `SddLoop`, `Sdd` |
| Spec split (`split/`, `agent/splitter.rs`) | none | divide exit criteria into child specs, check coverage | `Split` |
| Spec queue (`queue/`, `cli/queue.rs`) | a `queue.json` per project: state of each spec, weight | run, daemon, over a project or a workspace; reset, retry | `Queue` |
| Autonomous driver (`agent/`) | the pid lock file; the same `queue.json` | acquire, select project and spec, run, record, release | `PidLock`, `Queue` |
| UI (`ui/`) | the last sequence number a page has seen | poll the events, render | the reader of `Vault` |
| Command line (`bin/`, `cli/`) | none | parse arguments, print | not modelled |

How they interact. `execute` owns all its maps and is single-threaded; node
tasks run concurrently and touch only the budget (a mutex) and what they return
when they are joined. Everything else learns of a run in two ways: the watch
channel (latest value only, no history) and the event channel (everything, in
order, through one consumer, lost by a crash while it is queued). The queue and
the auto driver share nothing with a run but the exit status of a child process;
they share the `queue.json` files with each other, and nothing locks those.

What is hard here, and which property each hazard of `PROJECT.json` is for:

* *Counting edges.* A `depends_on` edge is counted off in three places and an
  `after` edge in four; `saturating_sub` hides a double count and a missed count
  is a node that never runs. `EdgeCountedOnce`, `DependenciesSettled`,
  `AfterEdgesHold`, `NothingRunnableLeft`, `IInv`.
* *Two fates.* A node may be skipped through its gate and blocked by another
  dependency, in either order. `TerminalStateFinal`.
* *Stale snapshots.* A quorum is computed when it is dispatched and recorded when
  it is joined. `QuorumVerdictStands`.
* *A shared ceiling*, retries that count after the fact, a critic nested in a node
  that holds a permit. `ReservationsWithinLimit`, `CallsAccounted`,
  `OverspendNoticed`, `BreachAnnounced`, `DispatchEnds`.
* *Look, then wait.* `NothingSleptThrough`, `HandedInOrder`, `CallReturns`.
* *A crash between an end and its record.* `ResumedRunIsARun`, `NoRework`,
  `CompleteVaultAgrees`, `CachedExitAgrees`, `OutputSurvives`, `RunCompletes`.
* *A record in several tables*, and in a server in several openings of a file that
  others open too. `ProjectionsFollowLog`, `MigrationWhole`, `ReaderContiguous`.
* *A handler that checks, lets go of the mutex and then writes*; a run that is
  cancelled or swept under a request. `RetryAfterRun`, `EndReported`,
  `RequestsAnswered`.
* *A pool of stateful clients*, futures dropped at a deadline wherever they wait.
  `CapacityKept`, `ConversationsApart`, `NoOrphans`, `CallsEnd`.
* *References rewritten by an expansion*, and what is accepted after it.
  `SubmittedValid`, `SubmittedFaithful`, `LoopKept`, `SplitKeepsAll`.
* *A lock file made in several system calls.* `SerialPassesExclude`, `AcquireReturns`.
* *Read-modify-write of a file by several passes.* `DoneKept`, `AutoDrains`; and
  rounding, `CarouselSound`.

## The modules

**`WatchSnapshot`** is the abstract specification of a run as a watcher sees it:
a node becomes terminal once and takes its place in `terminal_order` then; only
`Done` may be overwritten by `Blocked`, without a new place; nothing changes after
`dag_done`, which comes in the end.

**`Dag`** says what a DAG is to the scheduler and which it can rely on (`ValidDag`).

**`Scheduler`** is `Scheduler::execute` for a fresh run. Variables carry the
names of the code's maps. `pc` is the place in the loop: `drain` (Dispatch, Refuse,
Drained), `join` (Join, JoinPanicked, Finish), `walk` (Release, StartSkip, Block,
EndWalk) and `skip` (Skip, EndSkip). Walking the dependents of a finished node is
a sequence of steps because each publishes to the watch channel. `TripCeiling` is
what a running task does to the budget. `released` and `settled` are history: which
edges were counted off, which nodes have ended or been skipped. `Watched` is the
instance of `WatchSnapshot` that it implements.

**`AwaitLoop`** composes the run that `WatchSnapshot` describes with a caller of
the await functions. A version number stands for the watch channel's; `seen` is
the receiver's. `Call`, `Resume`, `Check`, `Park`, `Wake`, `Timeout` and the
returns are the steps of `wait_any_inner` and `wait_for_done`; between `Check` and
`Park` the run may publish. `RunAborts` is `execute` returning an error.

**`Dispatch`** is a batch of nodes without edges under ceilings: the loop reduced to
gate, spawn and join, and each task in full. One step per critical section of the
budget mutex: reserve (`Spawn`, `VerifyByCritic`), record (`Answered`), and the
second one, where the counters are read again to be posted (`Decide`).

**`Resume`** EXTENDS `Scheduler`: each of its steps is one of the loop's together
with the events it sends, or the consumer writing the first event of the channel,
or the process crashing (the loop's state and the channel are gone), or `pidag
run` being invoked again: `Restart` is `load_checkpoint` and the replay at the head
of `execute`, `ShowCached` the report of a run that is complete, `StartFresh` a
run without `--resume`.

**`Vault`** is the redb file of one run and its three kinds of users. `Open`,
`MigrateRecord`, `MigrateCommit` and `Close` are `RedbStore::open` and drop; `Refused`
is an `open` that meets the file open elsewhere, or of a newer version. The sink's
work on an event is a script of store operations (`Script`): one transaction if the
process keeps the file open (`pidag run`, `kept`), the default projections of the
trait, operation by operation, if it opens it for each (`RedbStorePool`, in a server).
`SinkStep` and `SinkFails` do one; `Crash` may come anywhere. The run itself appears
only as what it sends. `ReaderStep` is the poll of the UI. A text, counter or
timestamp is represented by the position of the event that brought it, so that "the
record is that of the last event" can be said.

**`Server`** EXTENDS `Vault` with the handlers of `rpc/handlers.rs` as concurrent
tasks over the map of runs: each looks under the mutex, lets go, and goes on with
store operations of its own. `Submit`, `TaskEnds`, `Cancel`, `TaskAborts`, `Sweep`
and `Dies` are the life of the run in the server.

**`DagExpand`** is `Dag::expand` and `Dag::validate` as operators on documents: lists
of nodes, with ids as sequences of their parts, so that a child's id can meet one that
the author wrote. The depth-first search for cycles is a recursive function, marks
included. `ExpansionValid` compares `Validate` with `ValidDag`; `ExpansionFaithful`
compares the edges of the result with what the document means.

**`Workers`** is one attempt of a node, from `TypeDispatchWorker::run` to its answer,
for several calls at once: the pool behind the agent backend (`Acquire` to `Release`,
one step per `await`), processes (`pi -p`, bash), the polling of a remote agent, and
the MCP client under its mutex. `TimesOut` is the timeout of a worker itself,
`DeadlinePasses` that of the node, which drops the future where it waits: `Dropped`,
`Kills` and `Unlocks` are the destructors.

**`Workflow`** is `WorkflowEngine::expand` with the two built-in templates.
**`SddLoop`** is the abstract specification of the recovery loop. **`Sdd`** composes
template, `DagExpand` and `Scheduler`; `LoopKept` says that together they implement
`SddLoop`. **`Split`** holds the two ways to split a spec.

**`PidLock`** is `agent/lock.rs`, one step per system call, with processes that are
killed anywhere and pids that are given out again.

**`Queue`** holds the passes over the queue files. `StartQueue` reads the files and
decides on an order, one of four (`OrderOf`); `RunNext` and `ChildExits` are
`execute_entry` and `run_queue`, which write the whole file of the project from the
pass's own copy; `Finish` is the write of all files at the end of the workspace
daemon. An auto pass picks a project (`AutoWorkspace`), reads its file again and
picks a spec (`SelectSpec`), or does so at once for one project (`AutoProject`), and
reads once more when it records the outcome (`Record`). Auto passes share one lock here, as they do when cron
gives each the same `--lock`; what happens when two get it at once is the business of
`PidLock`, and `AutoDrains` needs that they do not. `Carousel` is
`weighted_carousel_bounded`. `beaten` is history: whose files another pass has
written since this one read them.

**`MCScheduler`**, **`MCDispatch`**, **`MCResume`**, **`MCQueue`**, **`MCServer`**,
**`MCWorkers`** and **`MCSdd`** define the families of DAGs, plans, ceilings, vaults,
documents, calls and workspaces that TLC uses.

**`SchedulerInv`** holds the inductive invariants of the loop, which TLC checks too, and
**`SchedulerProofs`** the proofs. **`AwaitProofs`**, **`DispatchProofs`**, **`AutoProofs`**
(`PidLock`, `Queue` and `Split`), **`WorkersProofs`**, **`ServerProofs`** (with `Vault`),
**`ProjectionProofs`** (what the tables of the vault have to do with its log) and
**`ResumeProofs`** each hold the inductive invariant of their component and its proofs.

A definition whose comment begins with "Mutant" is a plausible bug in the code.
`PROJECT.json` says which definition it replaces and which property then fails:
every property of every passing run fails for some such bug.

## The runs

| Run | What it shows | Bounds |
|---|---|---|
| `sched_all` | the loop's safety properties, its inductive invariants, and that it implements `WatchSnapshot` with its liveness | every DAG of four nodes with up to three gates, and every node joining (validator, quorum of one or two) at least two of three others; panics and refusals anywhere |
| `await_calls` | the contract of the await functions | three nodes, one token kept, a run that ends well or in an error |
| `budget_all` | the shared counters stay exact, breaches are noticed and announced, the run ends | two tasks of five kinds, one or two permits, ceilings on calls, tokens or both, counters carried over |
| `resume_any` | a run interrupted anywhere, twice, ends as an uninterrupted one could have | DAGs of three nodes without gates, ordering edges to roots, breaches |
| `resume_commands` | every way to invoke an interrupted or complete run again | three nodes, one gate, one crash, `--resume` and `--retry-failed` in every combination, failed verifications |
| `lock_passes` | passes that do not meet inside `acquire()` exclude each other, a stale lock is no obstacle, `acquire()` returns | three pids, five passes, reuse of pids |
| `queue_passes` | Done survives, auto drains the queue, the carousel shares the batch | two passes at a time, two projects that share a file name, three specs, two disturbances; the carousel for every backlog up to 3, batch up to 4 and weight from 0 to twice the unit |
| `serve_calls` | the tables follow the log, the migration is whole, readers miss nothing but the first event, requests are answered and report the run; what a submitted document becomes | two nodes, one that retries, is verified by a critic or fails; a new file, one of version 1, one with a bad record, one of a newer version; one request at a time beside the run and the UI; two sessions, one clash over the file, a cancel. The documents: 19 683 edge sets over three nodes, and 18 720 with fan-outs, gates, references and quorums |
| `worker_calls` | the pool keeps its capacity and its conversations apart, no process outlives its call, every call ends | three calls in four mixes of kinds, two permits, three process identities, one fault |
| `sdd_loop` | template, expansion and loop implement `SddLoop`; no criterion is lost by a split | three rounds (ten nodes), every outcome; splits of up to 40 criteria in order, and of up to five by module with two module names |

The larger runs have one to three and a half million states and take one to three
minutes each.

Violations, each of something a document of the repository says:

| Run | Property | What happens |
|---|---|---|
| `doc_output` | `OutputSurvives` | the replay stores an empty output over the artifact of a completed node; the next resume reads it (specs/29 says that a resume hydrates outputs) |
| `doc_loop` | `RecoveredRunSucceeds` | the last validation passes, but an earlier one failed, so the run exits with 1 (specs/25, T7: "still an overall success"); the queue and `pidag auto` mark the spec Failed, and each retry serves the cached report |

Why the bounds are enough. Four nodes is the least that has a gate source, its fix
node, a second dependency of the fix node and a dependent of it, in any mixture of
edge kinds; the safety part of `sched_all` is proved for every number besides. The
await functions compare sets and sequences of nodes by order only; with three nodes
a token can lie before, between and after publications. Two tasks suffice for the
budget since each critical section concerns one task and the shared counters; retry,
fallback and critic each take a second call. Two crashes reach a replay of a replay.
Two passes meet in every order of their reads and writes; what a third at the same time
would add is one more stale copy, of the kind two passes already have. In the vault a
node's records depend on that node's events only; two nodes give a migration a point
between two records and a run a node that ends beside one that is blocked. One handler
besides sink and reader meets every operation of theirs; a second would meet the
first only in the map of runs, which every step reads and writes atomically. Three
calls and two permits are the least at which one call waits while another gives a
client back and a third takes it. Three rounds have a first, a middle and a last one.
The counters that are capped (`MaxPasses`, `MaxCrashes`, `MaxTrouble`, `MaxTokens`,
`MaxSessions`, `MaxClashes`, `MaxFaults`) count how often the environment interferes,
never what the program does.

Deadlock is checked except where a run, a batch or a call is over and nobody starts
another; each such `.cfg` says so.

## Preconditions, and what lies outside them

Some properties are stated of part of the DAGs, because the code does not keep them
for the rest. These are named, and what lies outside each is a behaviour of the code:

* `OneFate(n)`: n has no gate, or its gate source is its only dependency. A node with
  a gate and another dependency can be both skipped and blocked; it then changes from
  Done to Blocked, or releases its dependents though Blocked (specs/25 says that a
  dependency is satisfied when Done or gate-satisfied).
* `CountedOnce(n)`: nothing n waits for with an `after` edge has two dependencies. A
  node blocked by two failures counts its `after` edges off twice, and a validator or
  quorum may start while another node it waits for still runs.
* `NoGates`, `RootAfter`: the replay after a crash counts every dependent of a Done node
  down, its fix node included, so a fix node that had been skipped is dispatched
  (specs/14, A6 says that checkpoints reconcile skipped nodes); and the nodes that the
  replay itself blocks count no `after` edges off, so a node ordered after one of them
  stays Pending.
* `FailuresRecorded`: a node that fails its verification is Failed in the run and has no
  such record in the vault, so the cached report of the run is a success.
* `DoneKept` exempts a pass that writes a file from a copy another pass has made stale,
  since nothing locks the files between queue passes (specs/09 says "without concurrency
  hazards"); a workspace run, which takes its order from the specs discovered, always
  Pending, and so runs Done specs again (`cli/queue.rs:301`, against specs/09, R6: "Only
  Pending specs"); and a workspace daemon that takes a spec for one of the same file name
  in an earlier project (`cli/queue.rs:400` says that entries are unique across projects).

* `CallReturns` exempts a run that ends in an error: nothing marks its end, the sender
  lives on in the handle, and a call without a timeout hangs, though a comment
  (`await_loop.rs:35`) counts on a dropped sender.
* `SerialPassesExclude`: two passes that are inside `acquire()` together may both get
  the lock, since the file is created and filled in two steps and an empty one counts
  as stale.
* `CallsAccounted`: tasks post the counters they saw and are joined in another order, so
  the vault may end with an older snapshot, from which a resume starts.
* `ProjectionsFollowLog`, `EndReported`: in a server a projection is several openings of
  the file, so a kill in the middle, or an operation that meets it open in another
  process, leaves a record behind the log; nothing is written again, though
  `store/README.md` says "No transition is ever dropped". That text says too that `pidag
  run` uses the pool; it uses `RedbStore::open` and keeps the file. A critic is
  dispatched under the id `<node>::verify`, and no event says that it has ended, so a
  server reports such a run, if nothing failed, as "running" for ever.
* `ReaderContiguous`: `load_events_since(0)` starts after sequence number 0, so a page
  that begins there never shows the first event.
* `NoClash`, distinct ids: `validate` does not look for two nodes of one id, and a child's
  id may be one that the author gave (specs/38 lists a collision among the expansion
  failures).
* `NoOrphans` exempts the curl of an MCP call cut short by the deadline; `CallsEnd` calls
  of nodes without a timeout that wait for a hung `pi`, or for an MCP server: these have
  no timeout of their own (`acquire_client` ignores the one it is given).
* `WellGrouped`: a split by module may leave a part empty if one module has most criteria,
  though a comment (`split/mod.rs:212`) says that this is an error; which of two groups
  of the same size comes first is up to the order of a HashMap.

Other differences between text and code met on the way: with an agent backend every
critic ends in an error, because the worker looks its id up in the DAG
(`worker/agent.rs:57`; specs/37, C3, lets a critic use any worker); the A2A server
reports "done" and "running", which its own client does not know, and validates a DAG
before it is expanded, so it refuses a quorum over a fan-out that `dag.submit` accepts;
`validate-baseline` runs the whole validation (specs/13, R1: only a parse check);
`--iterations 0` gives an implementation that nothing validates; `--reset` makes Done
specs Pending too, though its message and help say non-Done; the workspace daemon writes
every project's file though its comment says only those touched; a spec left Running by
a kill is picked up by `pidag auto` only; a project with a higher weight may get fewer
turns than one with an equal backlog: one fewer at most if it is listed first
(`CarouselSound`), any number if it is listed later, since a block is a share of what the
earlier blocks have left (weights 50, 51 and 1, backlogs 100, 100 and 1000 and a batch of
100 give 49, 26 and 25 turns; specs/11 wants them in proportion to the weights);
a run started without `--resume` keeps the node records of the runs before it (`put_run`
overwrites the run row, though run.rs:212 speaks of the run record), and the replay blocks
dependents in one pass over the file, so that one listed before the node it waits for is
left Pending: on a chain of four nodes and with two crashes, a fresh run that is resumed
with `--retry-failed` exits with 0 and its cached report with 1, for an old failure of the
last node, which never ran (found while `CachedExitAgrees` was being proved; the property
exempts it by `NoOldFailure`, and no run on three nodes meets it).

## Fairness

* `Scheduler`: weak fairness of the loop's own steps, which never wait, and of `join_next`
  when tasks run: a worker ends by itself or by the node's timeout.
* `AwaitLoop`: the run goes on and the caller's task is polled. Timeouts are not fair.
* `Dispatch`: the loop and every task are polled, and a call ends. There is none that a
  permit is given to a particular task: `DispatchEnds` does not need it.
* `Resume`: the loop, the tasks and the consumer go on, and somebody resumes an
  interrupted run, as `pidag auto` does each time (`--resume`). The number of crashes is
  bounded; `RunCompletes` exempts a run that breaches its ceiling over and over.
* `PidLock`: a process inside `acquire()` goes on; it never blocks there.
* `Queue`: each pass goes on and its child ends; cron starts `pidag auto --workspace`
  again and again, also at times when the lock is free (strong fairness: another pass
  may hold it in between); and the runs of auto do not fail for ever (strong fairness of
  a successful record). The last is an assumption on the specs, and a needed one: a spec
  that fails every time is selected before all Pending ones of its project, and a heavy
  project before all lighter ones, for ever.
* `Server`: whoever has the file open closes it again, the run's tasks and the sink are
  polled, and a wait times out (all weak). `redb` refuses a second opener instead of making
  it wait; only where `MaxClashes` bounds these refusals does one wait, and strong
  fairness says that it gets the file. Nobody need submit, cancel or retry.
* `Workers`: a `pi` client that is well answers, timers go off, a process that is dropped
  is reaped (weak); semaphore and mutex serve in turn (tokio's are FIFO), which is strong
  fairness of `Acquire` and `Lock`. Nothing makes a process exit, a remote agent finish or
  a server answer.
* `Sdd`: that of `Scheduler`. `LoopKept` asks of it what `SddLoop` promises: progress.

## What is proved

The theorems hold for every value of the constants that the named assumptions admit:

| Assumption | Says | Why |
|---|---|---|
| `NodesAssumption`, `DagsAssumption` | finitely many nodes, valid DAGs | `Dag::validate` and `Dag::expand` establish it |
| `FlagsAssumption`, `AwaitAssumption`, `LockAssumption`, `WorkersAssumption`, `DispatchAssumption`, `ServerAssumption`, `ResumeAssumption`, `QueueAssumption`, `NoSpecAssumption` | the types of the parameters; finite sets of calls, pids, nodes, projects and specs | |
| `VaultAssumption` | a node's events end with Done or Failed | `dispatch_node` returns one of these |
| `VaultsAssumption` | the tables of the file a run begins with follow its log, unreadable records are records of version 1 | no earlier version left a record that its events do not account for |

| Module | Theorem | States |
|---|---|---|
| `SchedulerProofs` | `Invariance`, `TypeCorrect` | `IInv`, and its part `TypeOK` |
| | `InDegreeExact` | `EdgeCountedOnce`: no `depends_on` edge is counted off twice |
| | `RunsWhenSettled` | `DependenciesSettled`: a node runs only with its dependencies settled |
| | `AfterEdgesOrder` | `AfterEdgesHold`: ... and with the nodes it is ordered after terminal |
| | `QuorumSound` | `QuorumVerdictStands`: a quorum's verdict does not go stale |
| | `TerminalFinal` | `TerminalStateFinal`: no step rewrites a terminal state (of a node of one fate) |
| | `QueueSound` | `QueuedPending`: a queued node is Pending; the drain's terminal check finds nothing |
| | `NoLostWakeup` | `NothingRunnableLeft`: a node left Pending has a reason |
| | `ImplementsWatch` | the loop implements `WatchSnapshot` (the safety part of `RunContract`) |
| `AwaitProofs` | `AwaitInvariance` | `AwaitIInv` |
| | `HandedInOrderSound`, `NothingSleptThroughSound` | `HandedInOrder`, `NothingSleptThrough` |
| `DispatchProofs` | `DispatchInvariance` | `DispatchIInv` |
| | `ReservationsSound`, `CallsAccountedSound`, `OverspendSound` | `ReservationsWithinLimit`, `CallsAccounted`, `OverspendNoticed` |
| | `BreachSound` | `BreachAnnounced`, if there is a node to run |
| `AutoProofs` | `LockInvariance`, `LockExcludes` | `LockIInv`, `SerialPassesExclude` |
| | `QueueInvariance`, `DoneAlwaysKept` | `QueueIInv`, `DoneKept` |
| | `CarouselFair`, `CarouselAlwaysSound` | the carousel is fair for all backlogs, weights and batches, and so `CarouselSound` |
| | `OrderedSplitSound` | `SplitKeepsAll` of ordered splits, and those that `pidag auto` makes, of any number of criteria |
| `WorkersProofs` | `WorkersInvariance` | `WorkersIInv` |
| | `CapacitySound`, `ConversationsSound`, `NoOrphansSound` | `CapacityKept`, `ConversationsApart`, `NoOrphans` |
| `ServerProofs` | `ServerInvariance` | `ServerIInv`, of `Vault` and `Server` together |
| | `MigrationSound`, `ReaderSound`, `RetrySound` | `MigrationWhole`, `ReaderContiguous`, `RetryAfterRun` |
| `ProjectionProofs` | `ProjectionsSound` | `ProjectionsFollowLog` |
| | `EndReportSound` | `EndReported`, if there is a node to run |
| `ResumeProofs` | `ResumeTypeCorrect`, `ResumeInvariance` | `Typed`, `ResumeIInv` |
| | `ResumeNeverReworks` | `NoRework`, if every command resumes |
| | `ResumedRunSound` | `ResumedRunIsARun`, of `PlainRun` |
| | `CompleteVaultSound` | `CompleteVaultAgrees`, of `PlainRun` and `PlainDag` |
| | `CachedExitSound` | `CachedExitAgrees`, of every DAG and every way to invoke a run |
| | `NoOldFailureLeft` | of `PlainRun` and `PlainDag` its exemption `NoOldFailure` is none |

Four hypotheses go beyond the assumptions, and each is one of the model's, too:

* `BreachSound` wants `Nodes # {}`: with no node, counters that are carried over a ceiling
  are never compared with it, and nobody is told.
* `EndReportSound` wants it too: of a run without nodes `dag.status` says "running" for ever,
  since it asks for records (`handlers.rs:213`), and nothing refuses such a DAG.
* `ResumeNeverReworks` wants that each command resumes: without `--resume` a run starts
  afresh and does everything again.
* `PlainRun` is how `resume_any` runs: no panic and no failed verification (the vault does
  not hear of those), each command resumes and none retries the failed nodes. `PlainDag` is
  `NoGates` and `RootAfter`, outside which the replay does something else (Preconditions).
  DAG, number of nodes and of crashes, and breaches are arbitrary.

### The loop

None of the properties is inductive by itself: that an edge is counted at most once
depends on why a node is settled at most once, and that on how it came to be. `IInv`
records, for each node, how its state arose: a settled node was dispatched, or skipped
through a gate whose source has been walked (`SettledHow`); a Blocked one has a
dependency that blocked it (`BlockedHow`); a node on the skip worklist still has the edge
from its gate source uncounted, so it was not dispatched and cannot be (`SkipInv`); an
edge of `fin` that is still to be walked is uncounted (`WalkInv`); a counted edge fixes
the state of its source (`EdgeState`); and both counters are exact (`EdgeCountedOnce`,
`AfterCounted`). One lemma per action proves each conjunct that the action disturbs.
`WakeInv`, on top of `IInv`, is the converse direction: a node with both counters at zero
has been queued (`ZeroEnqueued`), and an edge that was walked and not counted has ended
its node (`UncountedEnds`); `NothingRunnableLeft` names one step of the chain of reasons.
`QueueInv` adds that a node which ended without being queued has an edge that will never
be counted. `WatchInv` says that the published order lists the terminal nodes and no
others, and that no Failed node got there without being dispatched: so a block, which
may meet a Done node, meets no Failed one, and every publication is a step of
`WatchSnapshot`. TLC checks `IInv`, and with it `TypeOK`, as an invariant of `sched_all`;
`QueueInv`, `WakeInv` and `WatchInv` were checked on the same instance before the proof.

### Tasks, callers and processes

* `DispatchIInv`: the counter is what was carried over, what was answered and one slot for
  each node whose first call is reserved and not answered (`CallsCounted`); for that,
  `is_first_call` has to stay up until the first answer and to come up again for the critic
  (`FirstUntilAnswered`). What a task posts was once the value of the counters, which only
  grow (`PostedSeen`). `BreachOnItsWay`: a breach that is not announced is among the events
  of a task that will be joined, or is older than the run and the gate has not been asked.
* `AwaitIInv`: what was handed back is a prefix of `terminal_order` (`HandedPrefix`), so the
  loop that looks for the first node not yet consumed finds the next one (`FirstFresh`);
  and a caller past its check which has seen the current version found nothing
  (`CheckedInVain`), so that sleeping on that version loses nothing.
* `LockIInv`: as long as no two passes were inside `acquire()` together, the file is its
  holder's and names it; whoever looks at it sees the holder, alive, and so does not
  remove it (`HolderSeen`).
* `WorkersIInv`: `RoomForAll` is the step from permits to processes: a call that has a
  process, or has found the pool empty and makes one, together with the pooled processes
  never exceed the permits, although a process is returned before its permit is. `OneOwner`
  and `TalkFresh` give the conversations; `ChildWaited` says where a child may be running.

### Vault and server

`ServerIInv` says what is left of each call: the sink has a suffix of the script of its
event (`SinkScript`), a handler the rest of its own (`CallScript`), whoever is at work on the
file holds it and has seen its version (`FileHeld`), and a run that has ended has left
nothing to the sink (`OneTask`), which is why a retry, checked once and written later, is
alone with the records. `FollowIInv`, on top of it, says of each record that it is what the
log says of its node, or that somebody still has the operation to do that makes it so: the
sink, which has appended the event (`StatePending`, `ArtifactPending`, `TimingPending`), or
a retry, which has written the record and not yet the event (`RetryPending`). A first start is
preserved since the sink writes the start that it has read (`StartIsRead`), and nobody else
writes timings. Both are stated of a file kept open through crashes, and of one opened
per operation as long as no operation was lost or torn, which is what the property says.

For `EndReported` operations may be lost. `RecordedIInv` says of the record of each node that
it is still coming, being written, settled or lost, and that there are at most as many
lost ones as clashes: a vault that may be written (`Writable`) loses an operation only to
a clash. So at the end of a run that met none each record is the node's fate, and the
report is that of the fates. TLC checked it on the instance of `serve_calls` before the proof.

### The queue

The orders are recursive functions over numbers, and the facts about them are proved by
induction after all: a set of numbers that holds 0 and with k also k + 1 holds every
number (`ByInduction`, since a set of numbers has a least one). So the function exists, and
an invariant of its steps holds at the end. `Ranked` lists each element once, in the order of
its key; `RoundRobin` gives each project as many turns as it has specs; after k blocks of
`Sweep` a project served has its share of something no smaller than what is left (`Served`),
so that of two with equal backlogs the heavier, if served before, has as many turns; and
each leftover turn keeps the order `Fair`: the lighter of the two gets one only if it is
the least served of all, so has no more than the other yet. Sums are counted as sets of
pairs (`Total`), so that a full order and a full backlog can be compared.

`QueueIInv` is about one pass: its copy knows every spec that is Done in a file that
nobody else has written since (`CopyKnows`); of what it has left no spec is there twice,
and none is Done in the copy or is the one whose child runs (`LeftToDo`), which rests on
what the orders deal out (`OrderSound`); and an auto pass has not picked a Done spec
(`AutoPicks`). The exemptions are those of `DoneKept`, at the same places. A write of
another pass only takes files out of the promise (`BeatenKept`). TLC checked it on the
instance of `queue_passes` before the proof.

### The split

The parts of an ordered split are cuts of 1 .. k at increasing ends (`Cuts`,
`OrderedCuts`: the remainder of the division is given out one by one to the first parts).
Put one behind the other, such parts are 1 .. k again (`CutsFlatten`, by induction on the
number of parts), and each criterion is in the first part that ends no earlier
(`CutsComplete`). Of more than 7 criteria `pidag auto` makes so many parts that none has
more than 7, so it does not split the children again.

### Resume

`ResumeNeverReworks` follows from `Undecided`: a node that is Pending has no final record
in the vault, nor an event for one in the channel. The replay establishes it, an end
destroys its premise, and the consumer writes only what the channel holds.

For `ResumedRunSound` the invariant relates three things. `RunInv` is about the loop. For
a DAG without gates it is sharper than `IInv`, which does not hold after a replay in its
parts about blocked nodes: exactly the edges from Done nodes are counted off, once
walked (`ReleasedDone`); a Blocked node has a Failed or Blocked dependency (`BlockedBy`:
the replay blocks what depends on a Blocked node directly); `after_pending` is exact.
`ChanInv` is about what channel and vault say together, since any prefix of the channel may
be all that survives: a record is behind the loop or agrees with it (`RecordBehind`); no
end is lost while the process lives (`EndsSaid`); and in vault and channel a node that
ran comes after its dependencies' ends (`RanAfterDone`) and a Blocked one after a reason
(`BlockedAfter`), so that a vault cut off anywhere is one that the replay can build a
state with `RunInv` from. TLC checked `RunInv` and `ChanInv` on the instance of
`resume_any` before the proof.

`CachedExitSound` needs none of these, and so holds with gates, ordering edges, fresh
starts, retries and failed verifications: while the process lives, the last that channel
and vault say of a node that ended is how it ended, unless it failed in this run
(`StatesTold`, which a replay establishes, since what it does not send again is recorded).
So when the process exits, with the channel drained, the failed nodes are the recorded
ones but for the two exemptions, and every report after that repeats the records
(`ExitTold`). An attempt to prove it without `NoOldFailure` is what found the case that
this exempts. TLC checked `StatesTold` and `ExitTold` on the instance of
`resume_commands` and on a chain of four nodes with two crashes before the proof.

### Model-checked only

* Liveness, which the prover does not reach: `RunContract`'s fairness, `CallReturns`,
  `DispatchEnds`, `RunCompletes`, `AcquireReturns`, `AutoDrains`, `RequestsAnswered`,
  `CallsEnd`, and the progress in `LoopKept`.
* What the expansion of a document and the split by module compute, by recursion over lists
  and trees: `SubmittedValid`, `SubmittedFaithful`, the part of `SplitKeepsAll` about
  grouped splits; and that `Sdd` implements `SddLoop`, since the DAG comes from the
  expansion.

## What is not modelled

* Texts: prompts and their interpolation, the parser of critic verdicts, the sections of a
  spec, the child specs that a split writes and the tests it gives them, the classification
  of a worker's output. Durations, and with them the wrap of `backoff_ms * (1 << n)`.
* Of the vault: listings, the in-memory store of the tests, and errors of redb other than a
  file that is open elsewhere or of another version. `Resume` assumes that writes succeed.
* Of the server: framing, malformed requests, the tool schemas, the mapping of A2A states;
  more than one run, since tables and map are keyed by run.
* Of the workers: the capability checks at start-up, the cache of providers, the session
  file that all `pi -p` share (its contents are up to `pi`), the remote task that goes on
  when its poller times out (nobody tells the remote agent).
* Of the queue: specs that appear later (the children of a split among them), a change of
  weight, dry runs, the temp file that two writers share, `split-coverage.json`, which the
  queue does not read, and the child of a pass that was killed or timed out, which goes on.
  Of the auto driver: targets from a Work Direction, work items that are not specs, the git
  snapshot, the dependencies between the parts of a split spec.
* The command line and the rendering of the UI.
* `depends_on` or `after` entries listed twice, which `validate` lets through, and a second
  `run()` after `await_dag()` on the same scheduler.
