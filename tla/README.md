# Orqalis in TLA+

Specifications of the parts of Orqalis (`src/orqalis`) that decide whether a run, and what
the project remembers of it, can be trusted: the file lock and the controller lease, the
crash-safe Task Capsule store and the unit of work over several stores, the life of a run
(goals, plans, attempts, reviews, approvals), the worker that carries out a task, the
delivery into git, durable memory and its projection of the sources, the code graph and
index, the event stream to the console, and the project store. TLC checks them on small
instances; TLAPS proves the safety properties of all of them for every size, but for what is
computed by recursion (timings, and how calls are resolved in the graph).
Paths below are relative to `src/orqalis`.

## The system

Orqalis drives software work through a *run*: a request becomes a versioned goal with
acceptance criteria, a plan of tasks, attempts by workers, a review, and a delivery
(documentation, validation, commit, push, memory). Everything a run knows is kept in
one directory, its *Task Capsule*. A service process (HTTP, MCP), CLI commands and
external worker processes act on the same capsules; each action is a *unit of work*
that loads the capsule under a file lock, checks, changes and commits it.

| Component | State | Operations | Interacts with |
|---|---|---|---|
| File lock (`persistence/filesystem/locking.py`) | gate, queue and depth of each process, lock of the operating system | acquire, release | store, lease, memory |
| Capsule store (`persistence/filesystem/task_store.py`, `io.py`) | capsule directory, transaction marker, documents, event log, state lock, cached aggregates with a generation | create, load, stage (events, extensions), commit, rollback, close, recover | every service, through a unit of work |
| Unit of work (`persistence/filesystem/unit_of_work.py`, `auxiliary_stores.py`) | capsule session, identities, task index, memory session, event bus | find, create, change, check an identity, commit in order, roll back, close | store, memory, event bus |
| Controller lease (`try_run_lock`) | owner table of the process, lock file | acquire, release | executor, delivery, recovery, replanning |
| State machine and orchestrator (`core/state_machine.py`, `core/orchestrator.py`) | `run.state`, `resume_state`, plan and goal versions | advance, resume, install plan, start requirements, cancel work | all guards |
| Goals (`core/goals.py`, `core/requirements.py`) | goal versions, criteria and evidence | create, define, revise, validate | orchestrator, review |
| Task runtime (`core/task_runtime.py`, `core/scheduler.py`) | task status, attempts | start, report, refresh readiness | workers, recovery |
| Plans (`core/plan_preview.py`, `preview_revision.py`, `replanning.py`, `plan_revision.py`, `repair.py`) | the chain of plan versions | install, edit, replan, repair, extend for delivery | approvals, reviews |
| Recovery (`core/recovery.py`) | attempts, task status | retire an uncertain attempt | operator |
| Approvals (`core/approvals.py`, `approval_guard.py`, `approval_subjects.py`) | policy, requests with a subject digest | request, decide, require | orchestrator, delivery |
| Review (`execution/review.py`) | review records, criteria | record | repair, delivery gates |
| Delivery (`core/delivery.py`, `delivery/*`) | bound policy, delivery tasks, reports, git record | finalize: authorise, bind, six steps | workspace, git, memory |
| Executor, external controllers (`core/executor.py`, `core/external.py`, `execution/cancellation.py`) | receipts of assignments and results | drive runs, hand work to assistants and take their reports, watch cancellation | orchestrator, agents, tools |
| Durable memory (`memory/curated.py`) | records, transitions, proposals, reserved identities | propose, review, supersede, revalidate, record a task outcome | delivery, context |
| Source projection (`memory/service.py`, `persistence/filesystem/memory_store.py`) | records, snapshot, inventory | refresh, rebuild, reuse | git, context |
| Events and projections (`observability/*`, `api/app.py`, `web/src/api.ts`) | subscribers and their queues, stream cursor, the events a console shows; folded timings | publish, subscribe, replay, reconnect, project | unit of work |
| Code graph and index (`graph/*`, `indexing/*`) | parsed sources, graph, manifest, cursor, index | refresh, rebuild, load, query | planning, project store |
| Agents, tools, sandbox (`agents/service.py`, `execution/tools.py`, `commands.py`, `sandbox.py`) | receipts of turns, tool calls and containers | take a turn, call a tool, run a command, reconcile | executor, recovery |
| Git (`git/service.py`, `git/delivery.py`) | worktree, branch, remote | stage, commit, attach, push | delivery |
| Project store (`persistence/filesystem/layout.py`, `bootstrap.py`) | manifest, identity, configuration, `.gitignore`, backups | create, open, migrate, record the index | everything that opens a project |
| Providers, skills, routing | configuration | calls | agents |
| Surfaces (`api`, `mcp`, `cli`, `sdk`, `web/`, `packages/npm`) | none | one call, one service call | services |

What is hard: crashes between any two file writes; a reentrant lock shared by the
coroutines of a thread, and by nothing else; commands retried with the same idempotency
key after an error whose outcome is unknown; operators who pause, cancel, revise,
approve and recover between two units of work of a controller; late worker reports;
approvals, reviews and evidence that outlive what they were about. `PROJECT.json` lists
each hazard at its line with the properties that cover it.

What makes each component correct:

- **store**: a commit is all or nothing, opens again after any crash, survives once
  acknowledged; commands take effect once; stale copies never overwrite newer ones.
- **orchestrator and runtime**: one writer, in dependency order, on approved work of the
  current plan only; stopped runs are quiet, finished runs frozen, history is kept.
- **goals, reviews, delivery**: what is delivered is the reviewed work, for the current
  goal, under the approval given for it; a completed run did every step.
- **lock**: one holder of all processes, waiters served in order, no lost wake-up.
- **lease**: one controller at a time, and the lease is free again when its session closes
  or dies, unless the lock file could not be opened (see the behaviours below).
- **unit of work**: an identity is in one run; memory never refers to a task that was not
  committed; units of work do not wait for each other in a circle.
- **worker**: what a provider or a tool was asked is asked once; nothing of a retired or
  cancelled attempt goes on unnoticed; a task is done by its last attempt.
- **delivery into git**: only the certified tree reaches the branch and the remote, records
  never claim more than git has, other people's commits stay.
- **durable memory**: it can always be listed, what is approved is in it, what is rejected is
  not, unless an approval that stopped had saved it, and knowledge is replaced, never lost.
- **source projection, graph, index**: what is accepted as fresh describes the repository.
- **events**: a console shows a gapless history, never goes back, and catches up; timings
  are spans of the history.
- **project store**: one project, whole once its manifest exists, never set back.

## Modules

| Module | Role |
|---|---|
| `ReentrantLock` | what users of a file lock assume |
| `Threads` | the threads that share lock files, and their processes; extended by `FileLock` and `ControllerLease` |
| `FileLock` | gate, queue, polling, nesting and release |
| `FileLock_proofs` | theorems about `FileLock` and `ControllerLease` |
| `ControllerLease` | the lease of a run's controller; uses `ReentrantLock` |
| `MCFileLock` | instance of both: three threads of one process, one of another; five sessions on three of them |
| `AtomicCapsule` | what the services assume: a store with atomic, optimistic commits |
| `CapsuleStore` | the files, locks, roll-forward, errors and crashes |
| `CapsuleStore_proofs` | theorems about the two file stores: `CapsuleStore` (its files, its event log, its refinement of `AtomicCapsule`) and `ProjectStore` |
| `MCCapsuleStore` | instance: three sessions, two threads, two processes |
| `RunLifecycle` | the run, from request to completion, as its services change it |
| `RunLifecycle_proofs` | theorems about `RunLifecycle` |
| `MCRunLifecycle` | six instances: replanning, two developers, their repair, delivery, recovered work, repair and delivery |
| `ProjectUnitOfWork`, `MCProjectUnitOfWork` | units of work over all capsules, identities, index and memory |
| `ProjectUnitOfWork_proofs` | theorems about `ProjectUnitOfWork` and `EventStream` |
| `CuratedMemory`, `MCCuratedMemory` | durable memory and its reviews |
| `CuratedMemory_proofs` | theorems about `CuratedMemory` |
| `Repository` | a git repository and the processes that derive something from it; extended by `SourceProjection` and `ProjectGraph` |
| `SourceProjection`, `MCSourceProjection` | the projection of the sources that memory is searched in |
| `GraphAssembly` | the code graph as a function of the parsed sources |
| `ProjectGraph`, `MCProjectGraph` | graph and index files over a changing repository; uses `GraphAssembly` |
| `Repository_proofs` | theorems about `SourceProjection` and `ProjectGraph` |
| `Worker`, `MCWorker` | one task, given to a provider or to an assistant |
| `Worker_proofs` | theorems about `Worker` |
| `Delivery`, `MCDelivery` | the six delivery steps with workspace, branch and remote |
| `Delivery_proofs` | theorems about `Delivery` |
| `EventTiming` | timings and critical path as functions of the history |
| `EventStream`, `MCEventStream` | from a commit to the console that shows it; uses `EventTiming` |
| `ProjectStore`, `MCProjectStore` | manifest, identity, configuration and migration of a project |

Definitions named or commented as a *Variant* are not part of the specifications: each
is a plausible mistake in the code, and the checked property it violates shows that the
property can fail (the pairs are in `PROJECT.json`, `mutants`).

The modules stand on each other by their abstract specifications: `FileLock` implements
`ReentrantLock`, which `ControllerLease` instantiates; `CapsuleStore` uses the lock in
the same way (`LockFree`, `ThreadFree`) and implements `AtomicCapsule`, which makes each
unit of work one action of `RunLifecycle`, and the commit of one capsule one step of
`ProjectUnitOfWork`, `Worker` and `Delivery`; `LeaseFree` and `Unowned` are the lease.
`Worker` and `Delivery` open what `RunLifecycle` takes as one transition: the work between
the start and the end of an attempt, and the effects between two certificates. `EventStream`
starts where `ProjectUnitOfWork` ends, with committed events and a bus that may not be told.

### FileLock

State: of each process, the gate (`owner`, `entries` for its depth, `waiters`) and
`depth` of `_LockState`; `flock`, the process that has the lock of the operating system;
of each thread, `pc` and how often it `holds` the lock. Everything the code does with
the condition of the gate held is one action. `Queue` puts a thread to sleep, `Check` is
a woken one looking at the queue again, `GiveUp` its deadline, with the removal from the
queue and the `notify_all` of the `finally` block. The owner of the gate polls
(`TakeFlock`, `PollFails`). The last release frees the lock of the operating system
(`ReleaseOuter`) before it opens the gate (`OpenGate`), and others may run in between.
`Crash` is the end of a process, whose handles the operating system closes.

### ControllerLease

State: the `place` of each session, the table `owners` (`_CONTROLLER_OWNERS`) of each process,
and `runHolds`, the state of `ReentrantLock` for the lock file of the run. `Claim`, `Take` and
`Refuse`, `Unclaim` are the steps of `try_run_lock`; `Unlock` and `Disown` those of
`_release_locks`, after which the session is closed or, after a rollback, open. None has an
`await` between its steps, so sessions of one thread interleave only between calls, threads and
processes anywhere. `Fail` is the exception other than `LockTimeoutError`, `EndProcess` the end
of a process. `Next` and `Spec` of this module are `LeaseNext` and `LeaseSpec`, since
`FileLock` describes the same threads. The two have no state in common, so `MCFileLock`
explores each of them while the other rests.

### CapsuleStore

State: `docs` (each document as the commit it was last written from; the last one is
`state.yaml`, and `task.yaml` is the one that makes a capsule discoverable), `log` and
`torn` (`events.jsonl`, whole lines and an incomplete last one), `marker`
(`execution/.transaction.json`: the snapshot to roll forward, the number of events
before it and the new ones), the sessions' `pc`/`op`/`idx`/`held`, the aggregate each
caches (`agg`), and `acked`, a history of the commands whose commit returned.

A repository call is a sequence of steps, because a crash or an I/O error may end it
between any two file operations: `Begin…` takes the lock; `CheckMarker`, `WriteDoc`,
`ReadEvents`, `AppendStart`/`AppendEnd` and `Unlink` are `_recover`, which runs at the
start of *every* call and again as the second half of a commit; then `FinishLoad`,
`FinishStage`, `FinishExtension`, or `WriteMarker` (the commit point) and, after the
roll-forward, `FinishCommit`. `Abort` is any exception (conflict, I/O error, lock
timeout, the caller's own): the marker stays, an append under way is truncated.
`Crash(p)` kills every session of a process and may leave the line being appended
absent, torn or complete. A call has no `await` in it, so sessions of one thread do not
interleave inside a call, but they do between calls and then hold the reentrant lock
together; sessions of different threads exclude each other.

A document replacement is one step: `atomic_write_bytes` writes a temporary file,
syncs it and renames it. File contents are abstracted to the commit they come from, and
a command to its idempotency key; that is all the properties distinguish.

### RunLifecycle

State: `state`/`resume`; `goal` (current version, 0 if none) and `accepted` (all
required criteria pass); `plans`, every version with the goal it serves, its tasks and
edges; `status` and `attempts` of every task ever created; `iteration`; `reviews`;
`approved`, subjects with an operator's decision; `workspace`; and delivery's
`finalizing` (authorised, not yet bound), `bound` (`delivery:policy`), `effect` (a
validation, commit or push begun and not yet recorded) and `certs` (evidence in force).

Each action is one unit of work, atomic by `AtomicCapsule`:

| Action | Code |
|---|---|
| `Advance` | `Orchestrator.advance`, `resume`, with `_guard`, `guard_delivery`, `_cancel_pending` |
| `AddRequirements`, `DefineGoal` | `start_requirements`, `GoalService.define_initial` |
| `ReviseGoal`, `Validate` | `GoalService.revise`, `validate` |
| `InstallPlan`, `ReplacePreview`, `Replan` | `install_plan`, `PreviewRevisionService.replace`, `GoalReplanning.install` |
| `InstallRepair`, `InstallDelivery` | `PlanRevisionService._install` |
| `Start`, `Transition` | `TaskRuntime.start`, `transition`, `refresh_ready` |
| `Recover` | `RecoveryService.retry` |
| `RecordReview`, `Decide` | `ReviewService.record`, `ApprovalService.decide` |
| `CreateWorkspace` | `ExecutionWorkspaces.ensure` |
| `FinalizeBegin`, `FinalizeBind` | the authorising and the binding unit of work of `_finalize` |
| `Certify` | inspection, documentation and curation: checked and recorded together |
| `EffectBegin`, `EffectEnd` | validation, commit and push: checked in one unit of work, recorded in a later one |
| `ControllerStops` | a controller that crashes, fails or is cancelled in between |

The executor, external workers and the operator are any sequence of these actions that
their guards permit. Two guards are those of the controllers that make the calls, not of the
services that take them: `WaveDone` (the executor leaves a wave when the tasks of its roles
have succeeded, `core/executor.py:203`; the coordinator installs the delivery plan before it
leaves REVIEWING) and `StartStates` (the coordinator starts a delivery task in the state of
its step, `core/delivery.py:128`; everyone else starts work in the states of work). Without
them the services would accept a tester's work after its review; no caller asks for it. A
retry with a key already used is a stuttering step. `LeaseFree`
is what `try_run_lock` tells the services that ask for the controller lease while a
delivery is between two units of work. The six delivery steps are tasks of the plan;
`certs` stands for the records their services leave.

### ProjectUnitOfWork

State: `capsule`, each run with its generation and identities (or absent, or a reserved
directory); `index`, the runs in `tasks/index.json`; `memory`, the generation of each run
that memory refers to; `call`, what each unit of work has read, staged and still has to do;
the three kinds of lock. `Begin`, `Read` and `Create` load or reserve a capsule;
`AskIdentity`, `TakeLease`, `Relock` are `lock_auxiliary_identities`, which lets go of the
state locks, waits, takes them again in order and compares generations; `ScanOne` is the
discovery of an identity over index and directories; `Commit`, `ListTasks`/`WriteIndex`,
`CommitMemory` are the commit in the order of `unit_of_work.py`. `Crash` ends a unit of work
between any two. Assumed, as the services do it: a run is looked up by an identity only in
the run the service holds, and nothing is staged in a run after memory was used.

### CuratedMemory

State: `records`, `lifecycle` (the transitions), `proposals` (staged or in the history),
`reserved` identities, the `call` and `lock` of each caller, and `source`, the repository
version against which a record was verified. `NewRecord`, `ProposeOutcome` and `Propose`
with `WriteProposal` are the proposals; `BeginReview`, `SaveRecord`, `Publish`,
`WriteReview`, `MoveProposal` are `_review`, one action per file; `Revalidate`; `Stop` ends
a caller between two files, `SourceChanges` is the repository. `halted` is a history variable:
the proposals whose record was saved by an approval that stopped before its decision was
written. `ReviewIsKept` needs it to say which rejected records are in memory all the same.

### SourceProjection

State: `head` and the commits that are `gone`; `disk` (records, snapshot, inventory);
`lock`; the refresh of each process; `torn`, what an interrupted commit left, for the
properties. `Open`, `Lock` (which reads the files again), `Reuse`, `Scan`, `Check` (HEAD
again) and `Fail` are `MemoryService.refresh`; `WriteRecord`, `WriteSnapshot`,
`WriteInventory`, `Interrupt` its commit. `Checkout`, `Collect`, `DeleteCache`,
`DeleteInventory` are the environment. An indexer is a version number.

### ProjectGraph and GraphAssembly

State: the work tree, `head` and a `clock` of their changes; `graph`, `manifest`, `cursor` and
parser `cache`; `index`; calls and locks. A refresh is `Status`, `KeepGraph` or `BeginParse`,
`ReadSource`/`ReadCache`/`Parse` per file, `WriteGraph`, `WriteManifest`, `Finish` (the
cursor); a rebuild continues with `WriteTerms` and `WriteIndex`; `LoadManifest`, `LoadGraph`,
`Return` read without the lock; `Stop` ends a process anywhere. A graph is the content each
path was parsed from; `GraphAssembly` says which symbols, imports, bases, tests and calls
follow. `CallsAreBound` compares its calls with a definition of Python's scoping
(`SeenByPython`), but for the imports of class bodies, which the code uses for methods
(`SeenByCode`); `MethodsIgnoreTheirClass` makes no such exception. The contents of the instance
have nested functions, classes with methods and with an import of their own, local names,
relative and absolute imports in both files. The cursor starts at HEAD, where the creation of
the store leaves it. The specification is `GraphSpec`, as `SourceProjection` describes the same
repository.

### Worker

State: `run` and `task` with its current attempt; receipts of turns (`invocation`) and tool
calls (`tool`); `receipts` of sandboxes and the `container` of each command; `context`, the
version of durable memory a turn was built from; `asked` and `effects`, how often something
happened, for the properties; `assigned` and `reported` of assistants; the process `w` and
the service for assistants `x`. `Execute` and `Work` are executor, worker, agent and tool
service step by step: turn, answer, call, command, container, observation, settlement;
`Notice` is the cancellation watcher; `Cancel`, `Resume`, `Recover`, `RecoverRefused` the
operator; `Assistant` the hand-out and report of `core/external.py`, each in the two commits
the code makes; `Outside` contains crashes, the daemon and containers that end.

### Delivery

State: `given` (push, reviewed code), `run` and the `task` of each step, `rec` (reports and git
record in the capsule), `proof` (validation), `tree`, `head`, `remote`, and the process `w`.
`given` also says whether the policy asks for a push and names a document. `Invoke` calls
finalize, `Work` is every step of the coordinator and of `delivery/*` up to the effects on
workspace and git (stage, commit object, attach by compare and swap, push). A validation reads
the workspace three times: `BeginValidation` takes the digest before the criteria run,
`Conclude` the one after them, and `CheckSources` the document and the sources it certifies,
each with edits in between. `WriteDocument` may be refused, for a path that is denied or
contents that are sensitive. `Operate` the operator, `Interfere` edits, other people's commits
and crashes. `swapped` is a history variable: the workspace was changed and changed back around
a digest that is compared later, or around the look at the document (`Swaps`), which no
comparison of digests can see.

### EventStream and EventTiming

State: `log` and `executions` of the capsule; `uow` and `lock` of the writers; `bus` (queue
and callbacks the loop has yet to run); `stream` and `channel`, the WebSocket; `console`.
`Write` commits, then publishes or fails to; `Serve` is subscription, snapshot, replay,
batch, wait and time-out of `api/app.py`; `Watch` is `useRun` of `web/src/api.ts` with its
history request, merge window and reconnection. `EventTiming` folds the history as
`timing.py` and `analytics.py` do: instants are finer than milliseconds (`PerMs` of them make
one), every interval is cut to whole milliseconds before it is summed, requests and decisions
of the operator count for the run, and an attempt of less than a millisecond is not running.
`Short` are whole milliseconds of which `int(total_seconds() * 1000)` makes one less, as it
does of 1001 and 1003. `now` are the instants a projection may be read at, also by a clock
behind the events. One run of TLC has two settings: a console that watches
while only the order of events matters, and attempts whose instants matter. Initial state,
next-state relation and specification are `StreamInit`, `StreamNext` and `StreamSpec`, since
its theorems stand beside those of `ProjectUnitOfWork`, where events come from.

### ProjectStore

State: `manifest`, `identity`, `config`, `gitignore`, `documents`, `backups`, the locks,
HEAD, and per process the sequence of steps it still has to do, to which a call adds those
of what it calls. `Begin` starts an operation (initialize, open, index, refresh), `Step`
does the next write or check, `EndProcess` forgets the steps, `Edit` and `CommitHead` are the
person at the repository. Initial state, next-state relation and specification are
`StoreInit`, `StoreNext` and `StoreSpec`, since its theorems stand beside those of
`CapsuleStore`.

## Runs

Each run is an instance `MC…` with the configuration of the same name (`ClassImports` is
another of `MCProjectGraph`). A property that is
a conjunction names its parts, each stated and commented in the module.

| Run | Checks | Instance |
|---|---|---|
| `FileLock` | one holder, first come first served, no lost wake-up; the lock implements `ReentrantLock`; one controller of all sessions of a run, and its lock file follows the lease | 3 threads of one process and 1 of another, nesting 2; 2 coroutines, a worker thread and 2 sessions of a command at the lease |
| `CapsuleStore` | the store opens after any crash, loses no acknowledged commit, records events once, and implements `AtomicCapsule` | 3 sessions on 2 threads of 2 processes, 2 commands of up to 2 events, 3 documents, 2 generations |
| `RunLifecycle` | `RunInv`: records fit, active work is of the current plan, stopped runs are quiet; only approved work; `WorkIsOrdered`: one writer, in dependency order; `DeliveryIsEarned`: what is delivered is reviewed, serves the goal and has every step; `PastIsFixed` | six settings: gates with 2 goals and 2 plans; two developers side by side, also repaired; a delivery with a waiting reviewer and a revised goal; a delivery whose workers, reviewer included, are recovered; repair with a second review, with and without push |
| `ProjectUnitOfWork` | `StoresAgree`: an identity is in one run, memory refers to durable commits; commits are kept; no circle of waiting | 2 units of work, 2 runs, 1 identity, 3 generations, crashes |
| `CuratedMemory` | `MemoryInv`: memory can be listed, and what is approved is saved and shown, what is rejected neither, unless `halted`; nothing is proposed twice; knowledge is replaced, not lost | 2 callers, 3 records, 3 proposals, 1 task, approval by policy, 1 change of the sources |
| `SourceProjection` | one record per path; `SnapshotIsTrue`: a trusted snapshot is of its commit, inventory and indexer included | 2 processes, 4 commits of a path, 2 indexers, 2 checkouts, 1 fault |
| `ProjectGraph` | `GraphInv`: an accepted graph is whole, a returned one current; cursor and index go forward; calls reach what Python means, class imports apart | 2 processes, 2 paths, 3 contents, 2 commits, 2 changes |
| `ClassImports` | finds `MethodsIgnoreTheirClass` violated: a call in a method is bound to an import of its class | the instance of `ProjectGraph` with 1 process and 1 change |
| `Worker` | `WorkerInv`: no work without an owner; `ReceiptsAreTrue`: effects once, turns after their observations; `ResultsAreWanted`; the worker lets go | 2 turns of a command and a write, 2 attempts, 2 results, 1 crash, 1 refusal of the daemon |
| `Delivery` | `DeliveryInv`: only the certified tree is committed unless it was swapped, records follow git; branch and remote are respected; delivery settles | 2 contents, a push or a document, 2 edits, foreign commits or refusals, 1 crash, 2 attempts |
| `EventStream` | gapless, never back, catches up in the end; `TimingInv`: timings are those of their definitions, to the millisecond | 4 events, queue of 1, window of 2, 2 messages under way, 2 failures; and 5 events of 2 attempts, the run and an approval at 3 instants of half a millisecond, read at 4 instants, 4 tasks |
| `ProjectStore` | `StoreInv`: one project, whole when its manifest appears, migrated with a backup, index kept; nothing is undone; every operation ends | 2 processes, 3 operations, 1 edit, 2 commits, 1 crash; no store or one of schema 1 |

Bounds. Three threads of a process let two queue behind the holder, so that one can give
up while it is woken with the other behind it; a thread of another process is what the
lock of the operating system excludes. A second acquisition is the one that differs from
the first; `MaxDepth` stops there. Of the lease, two coroutines share the reentrant lock
file, the worker shares only the table, the command shares only the lock file.

For the store, two threads suffice for exclusion and two sessions of one thread for the stale
copy that the reentrant lock permits; the three documents are an ordinary one, `task.yaml` and
`state.yaml`, so a crash can fall before discovery, between the two, and after. Two
generations make a commit follow a commit: the log then has a committed prefix, and a
session can hold a copy that the newest commit has made stale. In `RunLifecycle` two goal
versions, one more plan version than the shortest path needs, and one review more than a
passing one are what each property needs to fail; interrupts and reports differ between its
settings to keep each small, and together they cover every suspension and every report.

Elsewhere two processes are enough for every race of two, and the bounded number of crashes,
edits, checkouts and operations is at least one more than the shortest way to break each
property: every property of a passing run has a mutant of the model, a plausible mistake in the
code, that TLC refutes within the bounds of the run. Two generations of a run beside one
another need `MaxGeneration = 3` (created, changed, changed again). Three records let a
successor be superseded in turn. Four commits let a path come, change, leave the index, go and
return. Two contents that differ in every rule of `GraphAssembly` and two paths give calls
within and across files. Two turns and two calls reach the second turn and the limit of calls.
A queue of one and a window of two overflow with four events. Instants of 0, 1 and 4 halves of
a millisecond give intervals of nothing, of less than a millisecond, of one and a half and of
two, of which `Short` makes one; a reader at 0 is behind the events, one at 7 after all of
them.

`MaxGen`, `MaxTail`, `MaxGeneration`, `MaxSource`, `MaxChanges`, `MaxCheckouts`, `MaxFaults`,
`MaxEdits`, `MaxCrashes`, `MaxRefusals`, `MaxContext`, `Longest`, `MaxOperations`, `MaxHead`,
`MaxInFlight` and the numbers of goals, plan versions, reviews and events in the settings are
bounds of the model; `MaxTurns`, `MaxCalls`, `MaxAttempts`, the queue, the window and the limit
of repairs are the code's configured limits, made small. Symmetry is used for commands of the
store, for sessions and runs of `ProjectUnitOfWork`, callers, records and proposals of
`CuratedMemory`, and processes of `SourceProjection` and `ProjectGraph`; none of these runs
checks liveness.

Deadlock is checked for `FileLock`, `ProjectUnitOfWork` and `SourceProjection`. Elsewhere
the system may rightly stop: a closed session, a capsule at its last generation, a finished
run, a suspended one that waits for its operator, or a bound that is used up.

Fairness. `FileLock`: a woken waiter looks at the gate, a polling thread is granted the lock
or stops at its deadline, an inner release and the opening of the gate follow (weak
fairness): threads keep running, polling is bounded, and users release in a `finally` block
or a `with` statement. The last release is strongly fair, because a holder may nest and
leave again and again but not for ever. `Worker`: the process takes its next step while it
lives; providers and commands have time limits. `Delivery`: the same, and finalize is called
again after it stopped, as the operator or the controller does. `EventStream`: loop, writers
and console take their steps, and the wait of the stream ends after its time-out of a
second; nothing is assumed of notifications. `ProjectStore`: a process takes its next step.
No fairness is put on crashes, failures, operators' decisions or other people. All other
properties are safety properties and depend on no scheduling.

## What is proved

For every set of sessions, threads, processes and commands, any depth of nesting, any
number of documents, events and generations, for runs with any task graphs, gates,
limits and numbers of goals, plans, attempts and reviews, for any number of units of work
over any number of runs and identities, for any number of callers of durable memory, for
any number of turns, tool calls, attempts, crashes and refusals of a worker, for any contents,
edits, foreign commits and crashes of a delivery, for any repository, processes, indexers,
edits, checkouts and faults of what is derived from it, and for any processes, operations,
edits and commits around a project store:

| Theorem | Establishes |
|---|---|
| `FileLock_proofs`: `LockInvariant` | `Spec => []LockInv` |
| `MutuallyExclusive` | `[]MutualExclusion` |
| `FirstComeFirst` | `FirstComeFirstServed` |
| `Refinement` | `Spec => ImplementsReentrantLock` |
| `LeaseInvariant` | `LeaseSpec => []LeaseInv` |
| `SingleController` | `[]OneController` |
| `LockIsTheLease` | `[]LockFollowsLease` |
| `CapsuleStore_proofs`: `CapsuleInvariant` | `Spec => []CapsuleInv` |
| `TypeCorrect` | `[]TypeOK` |
| `CapsuleAlwaysOpens` | `[]CleanCapsuleOpens` |
| `RecoveryAlwaysPossible` | `[]RecoveryNeverConflicts` |
| `AckedCommitsAreDurable` | `[]AckedCommitsSurvive` |
| `EventsAreExact` | `[]EventsExactlyOnce` |
| `CapsuleIsAtomic` | `Spec => ImplementsAtomicCapsule` |
| `StoreInvariant` | `StoreSpec => []StoreIInv` |
| `StoreIsOneProject` | `[]StoreInv` |
| `NothingUndone` | `NothingIsUndone` |
| `RunLifecycle_proofs`: `RunIsConsistent` | `[]RunInv` |
| `ApprovedWork` | `[]OnlyApprovedWork` |
| `OrderedWork` | `[]WorkIsOrdered` |
| `EarnedDelivery` | `[]DeliveryIsEarned` |
| `FixedPast` | `PastIsFixed` |
| `ProjectUnitOfWork_proofs`: `UnitOfWorkInvariant` | `Spec => []IInv` |
| `StoresAlwaysAgree` | `[]StoresAgree` |
| `IdentitiesStay` | `IdentitiesAreKept` |
| `NobodyWaitsInACircle` | `[]NoCircularWait` |
| `StreamInvariant` | `StreamSpec => []StreamIInv` |
| `ConsoleIsTrue` | `[]ConsoleInv` |
| `ViewGoesForward` | `ViewNeverGoesBack` |
| `CuratedMemory_proofs`: `MemoryInvariant` | `Spec => []IInv` |
| `MemoryStaysReadable` | `[]MemoryInv` |
| `NothingIsProposedTwice` | `[]ProposedOnce` |
| `KnowledgeIsReplaced` | `ActiveIsReplaced` |
| `Worker_proofs`: `WorkerInvariant` | `Spec => []IInv` |
| `WorkHasAnOwner` | `[]WorkerInv` |
| `ReceiptsTellTheTruth` | `[]ReceiptsAreTrue` |
| `UnwantedResultsAreRefused` | `ResultsAreWanted` |
| `Delivery_proofs`: `DeliveryInvariant` | `Spec => []IInv` |
| `DeliveryAgrees` | `[]DeliveryInv` |
| `DeliveryRespectsOthers` | `BranchIsRespected` |
| `Repository_proofs`: `ProjectionInvariant` | `Spec => []IInv` |
| `ProjectionIsReadable` | `[]ProjectionInv` |
| `TrustedIsTrue` | `[]SnapshotIsTrue` |
| `GraphInvariant` | `GraphSpec => []GraphIInv` |
| `GraphIsReliable` | `[]GraphInv` |
| `GraphAdvances` | `GraphGoesForward` |

They assume what the modules state about their constants: threads and processes are
assigned by functions and differ from `None`, there is a document after `task.yaml`, the
bounds are numbers; planners propose tasks of the roles that plans have, with names that are
not those of delivery steps (`core/vertical_plan.py`, `core/preview_revision.py`); a directory
that is absent, reserved, or not read is told apart from one with documents in it, and so is a
record or proposal that does not exist; an answer of a provider is a sequence of at most
`Longest` tool calls, an output or nothing, and `None` is no receipt. A repository gives each
commit a content or nothing at each path, and what is indexed are contents; the marks for what
is absent (`None`, `Missing`, `Lost`, `Base`, `Foreign`, `Above`) are no contents, commits,
manifests or records (`MarkAssumption`, `GraphMarkAssumption`). No set of these three
models is assumed to be finite, and nothing of what a parser or an indexer computes. A project
store belongs to a repository with a commit (`MaxHead > 0`), and `None` is no process,
identity or manifest (`StoreMarkAssumption`). A subscription has room for a notification, as
`event_bus.py:58` demands, and instants are numbers (`StreamAssumption`).

Lock. That two threads never hold the lock is not inductive: `LockInv` adds that the
three counts of a process agree with each other and with the lock of the operating
system (`CountsAgree`), that whoever is past the gate owns it (`PastGate`), and that a
thread on its way in or out holds nothing (`NotInside`). Two holders then have the same
process, by `flock`, and the same gate. The refinement needs the same: the step that is
granted the lock is an `Acquire` because nobody else held it, and a process that dies
had one holder at most.

Lease. `LeaseInv` says that a session past the claim is in the table of its process and
that a held lock file belongs to a session that has the lease. Two sessions with the
lease have the same process, because the lock is one thread's, and then the same entry.

Store. None of the three safety properties is inductive alone. That a capsule without a marker
opens depends on what the session that removes the marker has already written, so
`ProgressInv` says, for each place in `_recover`, which documents are written and
whether the log is whole; that two sessions are never in it together is `LockInv`. That
the tail of a new marker continues the log depends on the aggregate it is made from:
`AggInv` says that a copy whose generation is the newest one carries exactly its events
and commands, which is why the generation check, not the lock, protects two coroutines of
one thread. A new capsule makes no such comparison; `NewInv` says why it need not: only
its creator can reach a directory nobody has written to. The acknowledged commands are in
the newest commit point (`DiskInv`), which is discoverable by then. The proof has one
lemma per action, one step per conjunct.

The event log needs more than that the capsule opens: `LogInv` says that the events of the
newest commit point (the part of `events.jsonl` before the marker and the marker's tail, or the
whole file without a marker) are exactly those of its commands, each command's in one piece and
with its place as number, and that a copy of the newest generation continues them. A command is
therefore in the log once, because its key is looked up in a copy that the generation check
then confirms. The refinement maps the store to what is committed and discoverable, and a
session's copy to what it has read and staged. A commit is one abstract step: the write of the
marker, or of `task.yaml` for a new capsule, which nobody but its creator is in before (the
first part of `LogOf`). Every other step of a roll-forward, every torn or truncated line and
every crash is a stutter, because what is committed is the same before and after.

Run. All five theorems rest on one invariant, `IInv`, whose parts are named for what they
add; the run of `RunLifecycle` checks what they imply, and each part was checked by TLC on the
same six settings before it was proved. `Types` and `Shapes` say that a task belongs to the
plan version that brought it and stays in the chain of versions, so that work of an old plan
can be told from work of the current one. `WorkInv` strengthens the writer rule: `WriterFree`
looks at the statuses of the current plan only, and it is because active attempts are in that
plan (`ActiveWorkInCurrentPlan`) and a status is never behind its attempt that it excludes a
second writer of any plan. `ApprovalInv` cannot say that the current plan is approved: a
repair plan is not, before it is executed, and an unapproved one may be replaced; it says by
`Place` (the state, or the one a suspended run returns to) which tasks may lack an approval,
and that a run with such tasks has no way to start them. `WaveInv` says that the waves behind
a run are done, which recovery preserves because it takes no succeeded task back.
`DeliveryPlanInv` says that once delivery tasks exist, the delivery is bound and approved and
the goal and plan can no longer be replaced. `CoverInv` says that a passing review of the
current plan has no newer work beside it, for the review and for an authorised subject; it
needs that goals never go back along the chain of plans. `DeliveryInv` says that evidence
exists only at places of the delivery, where the review that the guards compared still
stands. The proof has one lemma per action and part, over a few lemmas on what an action may
do to one task.

Units of work. An identity is in one run although no unit of work ever sees all runs at once.
`LeaseOf` says why: while a unit of work has the lease of identities, each other run is either
still to be scanned, or its copy has exactly the identities that are committed, because nobody
else can add one without the lease; a run that appears meanwhile is empty. `CopyOf` says what
an older copy is worth: a copy of the committed generation has everything committed, and
without the lease nothing else, so that a commit which passes the generation check neither
loses an identity nor adds one. This also holds of a copy kept while the lease was waited for,
as the lock is taken again and generations are compared. `OneCreator` makes a reserved
directory its creator's. `NoCircularWait` follows from `LocksOf`: a unit of work has the lock
of its own run only, none of a run while it waits for the lease, and not the lease of memory
while it looks for identities. In a set of waiting units of work, the owner of memory's lease
waits for no one; without one, whoever has the lock of its run goes on; without one, whoever
has the lease; and if nobody has it either, the lease is free.

Durable memory. `ReviewOf` follows a review through its four files: until the transition is
published the predecessor is active and is the record the proposal was made against, which the
lock protects from revalidation and from other reviews, and which the digest protects from what
happened between proposal and review; after it, the record is saved and published. This makes
the files agree wherever a review stops, because what the next review finds is one of these
places. `PredecessorWasShown` (what is superseded had been published itself) is what makes a
published successor active at once and `KnowledgeIsReplaced` true: otherwise a hidden record
could be superseded and never be seen. `Reservations` and `DraftOf` make identities unique though
a draft is kept without the lock: an identity is reserved before it is used, for good.

Worker. Of the receipts of turns and calls, `Receipts` says that nothing was asked or done
without one, once, and `Quiet` that only the attempt under way has any that are open;
`Position` says which receipts a process finds at each step, for a process that died takes the
same steps again from the start: a replayed turn or call is one whose receipt has an outcome,
and a step that would ask or act finds a new receipt of its own. `Commands` says that a
container has a receipt of its own, that new attempts begin without any, and that beside the
command of the call under way there are only those of calls known to have failed. `Turns` says
of each turn on record, and of the process between two turns, that the turns before are
complete and that the outcomes it is told are those of the calls before it, in the order of
turns and calls; because a replayed call is told from its receipt, a process that starts again
arrives at the same outcomes.
A position in what is told is a number of calls, so a step to the next call rests on a lemma
about cardinalities (`OneMoreIsTold`), and so does the budget (`InBudget`). What
`ResultsAreWanted` adds is about steps: `Ownership` gives the cancelled run a task at its end,
so that every step that would take an answer is refused, and `Handouts` keeps the service for
assistants between its two commits on an attempt that no provider has been asked about.

Delivery. `finalize` reads a digest, an artifact or a report in one step and records what it
makes of it in a later one, while others edit, commit, cancel and crash. `Position` says for
each place what it has read and what was true then; `Steady`, that the step it works on is
running and the run at the state of that step or past it, unless it was cancelled; `Ordered`,
that steps begin one after the other; `Earned`, what a state of the run or an attempt of a step
needs on record, which no later report takes away; `Inspected`, what every report that passed
says of the code; `Committed`, how intended, created, attached and pushed relate to branch and
remote. Only together they say that what is on the branch was certified: the final report and
the last validation are of one tree, the code in it is that of the first report, and the commit
is of the intended tree whoever commits beside it.

That the committed tree was inspected had held on the run by its bound alone: with two edits
nobody can change the workspace and change it back around two digests. The proof attempt
showed that with more it is false; `CommitIsCertified` now says what holds for any number of
edits, and `swapped` is the only exception. The document is looked at after the digest of the
validation: the run reaches that window, and the theorem covers what more edits could make of it.

Projection. That a trusted snapshot is true says nothing about a snapshot that is not trusted,
so it is not inductive. `Settled` speaks of the files while nobody writes: they are true, or an
interrupted refresh has left them, and then they are `Repairable`, by that same refresh: every
record it does not come by is right already. `Refreshed` says for each place of a refresh that
what it has planned is true of the commit it read, and that it plans to replace only what
differs, which is what makes every prefix of its writes repairable. One indexer following
another, collected commits and a lost inventory are cases of `Follows`: whether a scan may
trust the difference of two commits.

Graph and index. `CallIsTrue` says of each place what a refresh has found: if neither files nor
HEAD have changed since it began (`clock`), the hashes it has read are of the work tree; and if
nothing was edited when it began and nothing changed while it read (`quiet`), they are of its
commit, whatever happens afterwards. Such a manifest stays true (`ManifestIsTrue`), so that a later
refresh may accept it without reading anything when it finds that commit checked out and clean.
A cache entry is what its content parses into, and a pair of manifest and graph is accepted
only with equal digests, so one of two writers' files is never taken for a pair. `IndexUntil`
says that nothing stored is newer than a rebuild under way, because a rebuild holds the lock of
the index before it looks at the repository.

Project store. A process has a sequence of steps before it, to which every call adds those of
what it calls, so there is no place in a program to hang an assertion on: the invariant speaks
of the sequence itself. `Sound` says which steps may follow which (`Fits`), for each step and
all of what comes after it; from this alone follows which locks the process has, those that it
still has to give back (`Owed`, `HasLocks`), and what it must know: whoever is to publish
or describe a project has its identity (`KnowsProject`); whoever is to upgrade has the manifest
of schema 1 as it was read, and has kept it or is about to (`KnowsManifest`); whoever is about to
write `.gitignore` has read a configuration no older than the one it was rendered from
(`KnowsConfig`). `StoreIsWhole` is what the files say of each other between any two writes. An
action takes the first step off the sequence and puts others in its place (`Popping`,
`Built`), and the other processes go on as they were because their locks are theirs and what
they know is of files that only the owner of a lock replaces (`Respects`, `OthersGoOn`). Two
renderings never cross, for instance: each process that renders has the bootstrap or the
migration lock, the second renders only over a manifest of schema 1, the first never over one,
and no manifest becomes one of schema 1. A process that ends gives its locks back in the middle
of its sequence; what it leaves is whole, for `StoreIsWhole` asks nothing that a next step owes.

Event stream. What a console shows depends on messages that are still under way, on the
snapshot its server last read and on notifications that may never come, and none of them knows
the others. `StreamFits` says what the server may rely on: every event after the cursor of the
console, up to where the server has sent, is pending at the console or in a message under way
(`Comes`), so the next batch may begin there. `ChannelFits` says the same of each snapshot under
way: what it covers is pending or comes before it, and nothing behind it is older than it. With
this the first message of the channel can be taken away and the rest goes on from what the
console then has (`NextMessage`), and the case of a snapshot behind the cursor does not arise
within one connection: a new one begins with an empty channel and the cursor of the console.
`ConsoleFits` says that what is shown is the end of the range from `base` to the snapshot; `Merge`
of it with the pending events up to the next snapshot is the end of the longer range
(`MergeKeepsLatest`, by the cardinality of an interval), whatever pages and batches overlap.
Notifications appear nowhere in the invariant: losing them delays the view and does not
falsify it. `ViewNeverGoesBack` follows because a snapshot is read with the lock of the run, so
it is of the committed history, which only grows.

Only model-checked: the liveness properties `WaitersServed`, `WorkEnds`, `DeliverySettles`,
`EventsAreSeen` and `OperationsEnd`; `CallsAreBound`, whose search through scopes and imports
recurs over names; and `TimingInv`, whose spans, peaks and paths are folds over the history,
for which the provers have no induction. Only proved, and implied by what a run checks or
stronger than it: the inductive invariants (`LockInv`, `LeaseInv`, `CapsuleInv`, each `IInv`,
`StoreIInv`, `GraphIInv` and `StreamIInv`), `TypeOK` and `RecoveryNeverConflicts` of the store.
Out of the prover's reach are liveness, `ENABLED`, and induction over data.

## Behaviours of the code to know about

What follows is how the code behaves, found while modelling it; the models have it, and the
properties are stated so that they hold with it. Where a document says otherwise, it is
quoted.

Runs and the lease:

- A run suspended between the installation of its repair plan and its execution cannot be
  resumed: the guard of `REPAIR_PLANNING` (`core/orchestrator.py:274`) wants the failed
  review to be of the current plan version, which the installation has advanced.
  `docs/MCP.md:134`: "Resume restores that state without bypassing approval, acceptance, or
  delivery gates".
- The approved delivery subject is bound once and later compared by plan version only
  (`core/delivery.py:85`); a newer review or goal is delivered under it, although
  `docs/IMPLEMENTATION_STATUS.md:603` speaks of "the exact approved DELIVERY binding".
- The delivery policy is bound without looking at the run again (`core/delivery.py:105`),
  and revising a goal takes no lease: the bound goal may be superseded, and the run can then
  neither be replanned nor revised.
- A requirements attempt that defined the goal and was then interrupted can be recovered but
  never started again (`core/task_runtime.py:127`), and no plan can be installed.
- A lock file that cannot be opened leaves the session that wanted the lease in the owner
  table after it is closed (`task_store.py:597`): no other session of the process can drive
  that run again.
- A validation, commit or push under way when the run is cancelled is still recorded in the
  cancelled run, so `StoppedIsQuiet` speaks of tasks and not of effects.
- A reviewer that waits while the operator revises the goal may resume and record a review
  of the new goal under the old plan. The gates compare the goal only unless a DELIVERY
  approval is required; that no work is newer than the review, the last part of
  `DeliveredWorkIsReviewed`, carries the condition `ReviewOfItsPlan`. No controller in the
  repository resumes a waiting reviewer.
- A reviewer that has passed its review and is recovered may run again beside the first
  delivery step; `DeliveredWorkIsReviewed` therefore excepts reviewers from the work that must
  be over.
- A second failure of a wave of context tasks replays `context:blocked:<task>`
  (`core/executor.py:350`), so the run stays EXECUTING with a BLOCKED task.

Worker and assistants:

- After a failed cleanup of a container the worker continues with other tools
  (`execution/commands.py:190`), while `docs/06-security-git-and-governance.md:55` says that
  uncertain cleanup blocks further execution. `CommandsAreOwned` says what holds: such a
  command has a receipt and its call is known to have failed.
- The executor takes over an attempt that was assigned to an assistant
  (`core/executor.py:385`).
- A crash between the start of an attempt and `external:assigned` leaves an attempt that
  `next_work` refuses until the operator recovers it.

Delivery:

- A cancellation during the commit still attaches the intended commit; a push is guarded
  again.
- A workspace that is changed and changed back around one of the digests that are compared
  (`delivery/guardian.py:182`, `git/delivery.py:87`) passes the comparison, so that another tree
  than the inspected one can be committed; the comparisons look at the workspace before and
  after, not at what was read between. Likewise the document and the sources are checked after
  the digest they are certified with (`delivery/validation.py:89`).
- A delivery blocked by its guardian is not returned to repair (`core/delivery.py:182`): it
  stays blocked until an operator acts, and that is all `DeliverySettles` says of it.

Memory, graph and events:

- An approval without a predecessor that is interrupted after its record was written leaves
  the record active and the proposal pending, and it can still be rejected: the record stays
  active (`memory/curated.py:741`, `:767`), the exception in `ReviewIsKept`. With approval by
  policy, a crash before the automatic approval leaves an outcome pending. A retry of an
  interrupted review with the opposite decision is refused once its transition is published.
- After an interrupted commit of a refresh, or the loss of the inventory, only a refresh to the
  same commit by the same indexer is sure to repair the projection (a file deleted since keeps
  its record); until then stale records are served, although the comment at
  `memory_store.py:211` says that the scan reconstructs it.
- An edit made during a refresh and reverted before the next one leaves a graph of the
  edited file accepted as fresh.
- `_resolve_symbol` uses imports made in a class body for names in its methods, although the
  comment at `graph/engine.py:1277` says: "A class namespace is not an enclosing lexical scope
  for methods." The run `ClassImports` reaches such an edge; `PROJECT.json` has it as a
  finding. `from . import g` of a function of the
  package gives an edge to an external module.
- Wall, active and waiting times are sums of intervals that are cut to whole milliseconds one
  by one (`observability/timing.py:79`), each of them up to a millisecond short, and an attempt
  whose `duration_ms` is 0 is not in the peak of parallel work (`analytics.py:62`).
- Commits of another process are never announced on the bus, and a failing memory commit
  suppresses the announcement of committed events; only the time-out of the stream shows
  them.

Project store:

- A manifest whose `identity.yaml` is missing would be given an identity that does not match
  it; the initial stores of the model have both or, in schema 1, neither.
- A new manifest names HEAD as indexed before anything is indexed, and
  `_record_index_state` writes outside the lock of the index.

## Not modelled

Of the modelled components: the opt-in TASK approval gate and telemetry actors of a run;
waves of context tasks and phases of the executor; findings of assistants; artifact
attachments and the extension documents of a project, which no service uses; text search of
the index, the context builder, ranking, embeddings; what Guardian and documentation
generator compute; role, skill and provider selection; path checks and limits of the
sandbox; provider percentiles, trace tree and blocker list of the projections; the console
when it leaves the page or the run is unavailable. Whole components: providers and
redaction, task history, packaging, benchmark and repository scripts, and the presentation
of the web console. They parse, rank, render or pass on, with no state of their own to keep
consistent; `PROJECT.json` gives the reason for each.

## Plan

Models: waves of context tasks with their idempotency keys in the executor; an abstract run
(goal, accepted, delivered) refined by `RunLifecycle`; the context builder's choice under
its limits.
