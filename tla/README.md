# looperators (Orrery): models and proofs

Orrery runs coding agents as the nodes of a graph. Its edges (subscriptions)
turn a fact of one session, such as "finished a turn" or "reported issues",
into an activation of another, so that loops such as coder → reviewer → coder
run by themselves under caps, gates and freezes. This directory models the
runtime that does it, checks the models with TLC, and proves what matters most
with TLAPS. All paths below are relative to the repository; the runtime lives in
`electron/runtime`, the pure graph rules in `shared/graph-core`.

## The system

| Part | State it keeps | Operations |
|---|---|---|
| **Kernel store** `kernelStore.ts` | SQLite: one `runtime_state` row with a version, the append-only `events` log, `command_records`, `effect_outbox`, `workflow_deployments`, the owner epoch | append a fact; commit a command (facts, row, outbox, record in one transaction); save a snapshot of the row; claim the database; complete an effect |
| **Command executor** `control/commandExecutor.ts` | a promise chain, the open transaction, the state it began with | dispatch (FIFO; idempotent replay; version check; checkpoint; handler; commit or compensate and roll back); drain the outbox; recovery commands at start |
| **Scheduler** `scheduler/schedulerRuntime.ts`, `graph-core/scheduler.ts` | the pending activations ("slots"), the firing counts, a promise chain of events | evaluate an event against every active edge; park, approve, deny, supersede, drop, execute a firing; stop an edge; timers; sweeps on restart |
| **Event fold** `graph-core/fold.ts` | the kernel state as a function of the log | one case per fact |
| **Session runs** `sessions/sessionRuntimeController.ts`, `sessionCommandRuntime.ts` | the runs map, run contexts, the run queue, budgets, workspace leases | admit or queue a run, launch, close, error, complete, fail, kill |
| **Freeze and clusters** `clusters/clusterControlRuntime.ts` | frozen flags, members and Masters of clusters | freeze, unfreeze, upsert a cluster, assign a Master |
| **Governance** `workflows/governanceRuntime.ts`, `proposalRuntime.ts` | plan versions, proposals, wakeups of a Master, barriers with deadlines | propose, revise, approve, reject, commit; observe, notify, acknowledge; arrive, expire, cancel |
| **Plan councils** `workflows/planCouncil.ts` | phases, artifacts, participants, one barrier per phase | start, advance, retry, patch, stop; a turn ends, fails or is refused |
| **Collaboration** `collaboration/collaborationRuntime.ts` | members, threads, triggers, turns, the discussion of a goal | write, publish, read, assess, dispatch a turn, settle it, retry, recover |
| **Channels** `contextChannel.ts` | an inbox directory per session | deliver, mark read, checkpoint, restore, clean up |
| **Authoring** `subscriptionAuthoring.ts`, `graph-core/static-check.ts` | subscriptions, their gates and caps | author, stop, check cycles |
| **External ingestion** `external/*` | sources, their anchors, git and script watchers | register, remove, poll, emit, suspend, recover |
| **Event delivery** `runtimeEventDelivery.ts`, `httpServer.ts`, `src/shared/*` | two batches, an event stream, the client's copy of the state | emit, flush, broadcast, apply, prefer a snapshot |
| **Membrane** `membrane*` | a socket the agents call tools through | report, activate, approve, read |
| **Providers** `providers/*` | vendor processes | start, stream, error, close |
| **Plugin** `plugins/looperators-agent-loop` | loop runs in a store of files, with lock files | command, report, evaluate a stop, recover, prune |
| UI, CLI, scripts, packages | none of the core state | presentation |

How they interact: every change a person, an agent or a rule asks for is a
kernel command, run one at a time by the executor. Committed facts go to the
scheduler, which decides and dispatches further commands. Provider processes
end on their own and call back **outside** every command. What is hard follows
from that:

* a command awaits in the middle of its work, and callbacks, which are not
  commands, change the same state meanwhile;
* three kinds of promise chains (executor, scheduler, drains started by an
  approval or an unfreeze) interleave at each await, and a decision is carried
  out several commands after it was taken;
* what is in memory, on disk and in the log is written at different moments,
  and a restart rebuilds the first from the other two.

`PROJECT.json` lists the hazards that come from this, each at its line, with
the properties that would catch it.

## Modules

| Module | Models |
|---|---|
| `GraphFold` | `fold.ts`: one operator per fact of the log |
| `Scheduler` | the scheduler, the executor as the scheduler sees it, and the lifecycle of runs, with crash and restart |
| `MCScheduler` | small graphs for TLC: a review ring, a gated desk, one gated edge, drop and interrupt policies |
| `SchedulerProofs` | types; the inductive invariant behind "a trigger fires once"; what is dispatched was approved; no pend overwrites a slot unseen; memory, disk and log agree; nothing runs without a process |
| `Ledger` | abstract: a command is one entry, made in one step |
| `CommandCommit` | the executor over the kernel store: several processes on one database, retries, rollbacks, deployments, outbox, snapshots, crashes |
| `MCCommandCommit` | commands for TLC |
| `CommandCommitProofs` | type correctness of `CommandCommit`; records, versions, effects and answers, for overlapping runtimes; that it implements `Ledger` |
| `RunAdmission`, `RunAdmissionProofs` | the run queue, workspace leases, the turn budget, the window of a launch |
| `Governance` | plan versions, proposals and the wakeups of a Master |
| `Barrier` | one barrier with a deadline and the timer that expires it |
| `PlanCouncil`, `PlanCouncilProofs` | a plan council, its phases and participants |
| `Collaboration`, `CollaborationProofs` | members who take turns, and the discussion of a goal |
| `Ingestion` | one external source, its watcher and the choke point of emits |
| `ClientSync` | a transcript on its way to a client, through two batches and snapshots |
| `FileLock` | the lock files of the plugin's store, one file-system call per step |
| `LoopControl` | the durable control plane of a loop run of the plugin |
| `ContextChannel` | the inbox of a session, and what is unread again when a turn comes to nothing |
| `IntentGraph` | clusters, Masters, subscriptions and the static check of activation cycles |
| `DeliveryProofs` | a client ends up showing the live transcript; a session misses no delivery |
| `PluginStoreProofs` | the lock files exclude; receipts replay, are answered once and leave room for a cancel |
| `ServiceProofs` | proofs about `Governance`, `Barrier` and `Ingestion` |
| `MCServices` | these eleven components for TLC |

`Scheduler` and `CommandCommit` cut the system at the same place, the command,
from its two sides. `Scheduler` knows what rule commands do to slots and runs
and takes a commit as one step; `CommandCommit` opens that step and forgets
what a command does, except how often it is done. `LedgerImplemented` is what
justifies the one step, and says when: no snapshot of an open command.

### Scheduler

State and code:

| Variable | Code |
|---|---|
| `live` | `runtimeState`, read and written in place: session status, frozen flags, active subscriptions, firing counts, `pendingActivations` |
| `disk` | the `runtime_state` row |
| `kernel` | the fold of the facts in the log |
| `proc`, `ctx` | the `runs` map and `runContext` |
| `doomed` | a live process that was sent a kill |
| `bridge` | the membrane bridge listens; the first launch awaits its socket |
| `schedQ`, `task[0]` | the scheduler's promise chain and the event it is on |
| `task[1..]` | drains started by `approve_activation` and `unfreeze` after commit |
| `cmdQ`, `open` | the executor's chain; the head command while it awaits, with the checkpoint it would restore |
| `done` | idempotency keys of committed rule commands |
| `left`, `hist` | bounds on what the outside does; what happened, for the properties |

One action per command handler: `Pend`, `Approve`, `Deny`, `Drop`,
`DropFiring`, `Stop`, `StopFor`, `StopKilled`, `DeliverFor`, `Freeze`,
`Unfreeze`, `Kill`, `Report`, `Complete`, and two for each command that awaits
(`ExecuteBegin`/`ExecuteEnd`, `ActivateBegin`/`ActivateEnd`,
`WorkflowBegin`/`WorkflowEnd`), with `Abort` for a handler that throws after
its await and `Replay` for a command whose key is on record. `TakeEvent` and
`Resume` are one synchronous run of a scheduler task, up to its next await.
`HumanSends`, `AgentReports`, `ProviderCloses`, `ProviderErrs` and `Crash` are
the outside.

**The event loop.** JavaScript runs microtasks to the end before it takes the
next I/O callback. The outside therefore acts only when nothing else can run:
`Quiescent` holds when no task is ready and the executor is idle or awaits real
I/O (the bridge socket of the first launch, the `settleProviderStart` pause of
a workflow command). This matters: an interleaving that needs a callback
between two microtasks is not a behaviour of the program. A crash may come at
any point.

**Slots.** A slot key is the edge and an ordinal: `n = 1` is
`edge->target`, `n > 1` the suffixed keys of a queue edge. Keys are reused
after a slot is gone, which is what several hazards are about.

**Abstractions.** Payloads are one bit (the firing has data to deliver);
reports are `issues` or `clean`; event identities are numbers in order of
publication. Left out: create and master edges, clusters, timers, external
sources, debounce, budgets, the run queue.

### CommandCommit

State and code:

| Variable | Code |
|---|---|
| `owner` | `meta` `'snapshot-owner'`: who opened the database last (`kernelStore.ts:#open`) |
| `version`, `row` | `runtime_state.version`, `.state` |
| `rec` | `command_records`: result and committed version |
| `log` | the events of the command in `events` |
| `journal` | `workflow_deployments`, with the session checkpoint a recovery puts back |
| `outbox`, `completed`, `files` | `effect_outbox`, the completion events, what the effects write outside |
| `rt[r]` | one process: phase, `#state` (`mem`, `seen`), the checkpoint (`saved`), the chain (`queue`), the open command, the drain it is in |
| `told`, `expected` | what the client was answered; the `expectedVersion` it sends |

The effect of a command on the runtime state is a count per command: 0, 1, or
2 when it was applied twice. That is all a commit protocol can get wrong about
it.

One action per stretch of code between two points where something can come
between. A submission is `Replay`ed, `Reject`ed or `Start`ed; the handler ends
in `Throw` or `Finish`; `Finish` ends with the read of the owner
(`kernelStore.ts:461`), which is **outside** the transaction, and `Recommit`,
`Conflict` or `Commit` is the transaction; `WriteEffect` and `CompleteEffect`
are apart because a crash can come between; `Answer` settles the promise.
`RollBack` is the whole catch. `Persist` is a callback or the timer of a
deferred touch. `Open` is the constructor up to its drain, `Ready` its last
write.

Two bounds choose between questions rather than cut the state space: `Overlap`
(may a runtime open while an earlier one runs, as after a hang or in a second
window) and `MaxDirty` (how many snapshots are written while a command is
open). Left out: what is checked of actor and execution envelope,
`dispatchRecoveryCommandSync`, database errors, and an in-memory store.

### RunAdmission

`sessionRuntimeController.ts`, `sessionCommandRuntime.ts`, and what of
`commandExecutor.ts` surrounds them.

| Variable | Code |
|---|---|
| `book`, `bookDisk` | the part of `runtimeState` that decides about turns (status, frozen, run queue, leases, usage facts), and its row |
| `runOf`, `turnOf` | the `runs` map and `runContext`, each with the turn it is for |
| `processes` | vendor processes that have not closed, and whether they were killed |
| `undone` | `workflowCompensatedRuns` |
| `launching` | launches that await the membrane socket |
| `drain` | a `drainRunQueue` is due, or awaits a launch and has to go on |
| `held`, `asked` | the open command with its checkpoint; the chain |
| `epoch`, `paused`, `listening` | the lifecycle epoch of `killAll`, the stopped queue, the bridge |

A launch awaits the membrane bridge. While the bridge listens that takes three
microtasks, and such a launch is one step (`LaunchNow`); the first launch of a
process, and the first after `killAll`, awaits a real socket (`LaunchLater`, then
`Listened` or `LaunchFails`), and everything else may come in between. `ActiveTurns`
are those with a lease; `crossed` collects the turns the code itself lets collide
(see below), and the properties say what holds of all others. Left out: token,
duration and tool-call budgets, priorities, several scopes, a change of policy,
and `run.kill()` returning false.

### Governance

`proposalRuntime.ts`, `governanceRuntime.ts` (wakeups), the commit of a plan.
`plan`, `proposal`, `wakeup` are the three tables of the state; `observed` are the
classified events of the log, `ledgered` the idempotency keys of the kernel store,
`pile` the commands that wait, `due` the microtask of `drainWorkflowWakeups`. What a
plan says is an edition number, so that "approved as it stands" is a comparison.
`cmdCommitWorkflow` supersedes the base and, for a patch, settles its wakeups;
`cmdRecordWorkflowWakeup` coalesces an event into an open wakeup or records a new
one; the five `Notify...` actions are the five ways a notify command ends. That the Master
still governs the scope of the plan (`governanceRuntime.ts:210`) is left out with scopes.

### Barrier

`governanceRuntime.ts`: one barrier, its arrivals by attempt, and the timer that
belongs to the process, not to the state. `BarrierCommitted` runs the handler of the
head of the chain; `BarrierNotCommitted` does too and is rolled back, which restores
the barrier but not the timer that the handler cleared. `keyUsed` is the
idempotency key of the expiry.

### PlanCouncil

`planCouncil.ts` and the calls it makes to the barrier and the sessions. `council`
is the entry of `planCouncils` with the barrier of its phase, `agent` the sessions of
its participants, `row` what was last written of both, `answered` the automatic
commands on record, `awaiting` a command that awaits a launch, with its checkpoint.
A phase advance (`PhaseOpens`, `PhaseBreaks`, `PhaseRefused`, `PhaseReplayed`) begins
turns one after the other and awaits between them, so that turns can end, fail
and answer the gate meanwhile; `Settles` and `RollsBack` end it. A turn runs at once
or is queued: admission itself is in `RunAdmission`. A participant that is replaced
leaves the council, but what its session has sent is still in the chain, and is
answered there (`Replaced`, `FormerTurnEnds`). Whom a council strayed from stays in
`strayed`, also when a later phase makes up for it. That a blocked council ignores a failure
for want of budget (`planCouncil.ts:149`) is left out, as budgets are.

### Collaboration

`collaborationRuntime.ts` and `shared/collaboration*`. Sequence numbers are
abstracted to what is compared: whether a turn has read past the last evidence
(`duty[m].read`), whether an assessment is of the current evidence and revisions
(`stand`). `waiting` are the scopes (room, thread, goal) of pending triggers, `seat`
what a member's session is busy with, `work` the commands the runtime itself
dispatches, `wanted` the microtask that drains. A second start of the same turn in
the chain is skipped by the code and is not put there by the model. A person's retry is
modelled of a member that asks for one; the code takes it of others too. With two
members a revision of the goal never changes who must agree from one non-empty
set to a disjoint one by itself; the scratch instances below have all of them.

### Ingestion

`externalIngestionService.ts`, the git adapter, and the choke point. `watcher` are
all watchers ever made, with where each is in its poll; a poll that began before
`stop()` goes on after it. `anchor` is what the dedupe and the minimal interval look
at; a rollback restores it (`AbortSlow`) and a restart rebuilds it from the log
(`recoverSourceAnchors`). The script adapter differs in what it reads and in a second
look at `stopped` after its run, and is not modelled.

### ClientSync

`runtimeEventDelivery.ts` (the batched emitter and its drop rule), `readState` of the
runtime, the event stream and the answers to `getState`, and the client's
`use-runtime-subscription.ts`, `runtime-state-patch.ts`, `preferRuntimeSnapshot`. The
transcript is a sequence of numbered deltas. `slips` and `healed` count the moments at
which the code may lose or repeat a delta and those at which a later snapshot
puts it right.

### FileLock and LoopControl

The plugin keeps its runs in files. `FileLock` is `fs-utils.mjs`: `withFileLock`, the
reclaim of a stale lock and of the stale guard of a reclaim, one file-system call per
step, and a process may die between any two. `LoopControl` is what happens under
`control.lock`: immutable facts, then a receipt, then the next state
(`PutTransition`, `PutReport`, `PutReceipt`, `SwapState`); a caller may die between
any two, and the next one that enters finishes the receipt it finds.
`HistoryValid` is `validateDurableControlHistory`.

### ContextChannel

`contextChannel.ts` and those who call it: `cmdDeliver`, `runActivation`,
`executeApprovedSlot`, `failSession`, `drainRunQueue`, the cleanup effect, the recovery
of deployments. `inbox` is the manifest file of one session, written when a handler
runs; `delivered` the deliveries with a fact in the log and `turn` the turn, both written
when the command commits; `handling` the open command with the manifest before it
(`checkpointChannelMutation`). The deployment journal holds that manifest too if the command
has one (`automaticallyJournaledWorkflow`): an activation by a person
(`commandRegistry.ts:45`) and the firing of a slot (`rule_execute_activation`, `:114`) have,
a delivery by whomever has not. A failed command puts the manifest back
(`CommandFails`), and so does the next start for one with a journal
(`RestartWithInbox`). `turn.lists` is what the message of the
turn told the agent of, `seenOf` what an agent has seen. Between the two a delivery
is marked read and nobody has read it, and each way a turn can end must tell those
deliveries from all others.

### IntentGraph

`clusterControlRuntime.ts`, `subscriptionAuthoring.ts`, `cmdAuthorSubscription`,
`static-check.ts`, and `fold.ts` for scopes. `clusters`, `home` (`clusterId`) and `rank` (role)
are three views of one thing which each command changes by hand; `scopes` is what the
log makes of them. `cmdAuthorSubscription` runs the static check over the graph as it
would be: `intentEdges` expands clusters to their members, `Step` is one step of the
loop of `stronglyConnectedComponents`, an iterative form of Tarjan's algorithm, and
`ComponentOf` what comes of `TarjanSteps` of them. `CyclesCapped` compares the outcome
with plain reachability (`Reaches`, the least set the edges do not leave). `regrouped`
says that clusters changed since the last check, `drift` and `usurped` which clusters
the log has wrong: they changed in a way no event names, or the fold left out of a cluster
drawn anew whom it still takes for its Master (`Mistaken`).

### MCServices

The eleven components above share no state with one another in the models: each was
cut where it calls the next (admission, membrane, executor). One run checks them
together: `part` says of which component a behaviour is, the others stay as `Init`
leaves them, and `Next` is the disjunction of all their actions, each guarded by its
part. So a state of this run is a state of one component, and nothing is claimed
about two at once. `VIEW InView` leaves out what does not move, which identifies only
states with the same future. `PartFair` is `RunFair`, guarded by the part.

## Runs

The runs of `Scheduler` use two sessions and one or two edges: every hazard listed is about
two chains and one slot key, or about one session and its process, so a third
session repeats an interleaving rather than adding one. Bounds are on the
outside only (`MaxHuman` commands, `MaxReport` reports, `MaxFail` failing runs,
`MaxAbort` throwing handlers, `MaxCrash` restarts); the program itself is not
bounded. All runs say `CHECK_DEADLOCK FALSE`: once the outside has used up its
budget the runtime rests, as it should.

The runs of `CommandCommit` have a journaled command that stages an effect, the
same command under a second commandId with the same idempotency key, and an
ordinary one: two commands that are retries of each other and one that is not
are every relation two commands can have. `restart` has three runtimes one after
the other, so that a recovery can itself be interrupted, and four submissions,
so that each command can be retried; the last runtime does not stop, or
nothing would have to happen in the end. `handover` has two runtimes that
overlap; the races are between an old one and its successor, and each hazard
takes one late step of the old.

| Run | Result | Question |
|---|---|---|
| `ring` | holds | a coalescing edge and a queue edge in a ring, caps 2 and 1, clean-verdict stop, freeze on stop; 2 human commands (activate, kill), 2 reports, a failing run, a throwing command, a crash |
| `policies` | holds | a drop edge on failures and an interrupting edge; 3 human commands (activate, stop, workflow), 2 reports, a failing run |
| `desk` | holds | a gated queue edge and a deliver-only edge; 3 human commands (activate, approve, deny, freeze, unfreeze, workflow), 2 reports, a crash; with fairness |
| `gate_race` | **violated** | is a firing of a human-gated edge always one a person approved? |
| `queue_overtake` | **violated** | does the backlog of a queue edge fire oldest first? |
| `fold_rollback` | **violated** | is memory always the fold of the log? |
| `restart_orphan` | **violated** | is no session "running" without a process after a restart? |
| `restart` | holds | runtimes one after the other: is a command a unit (`IsLedger`), do answers agree, is no deployment left in between, is every effect written in the end? with fairness |
| `handover` | holds | runtimes that overlap, dirty snapshots, failing writes: are records, versions, effects and answers right all the same? |
| `dirty_snapshot` | **violated** | does a runtime that has nothing open work on recorded commands only? |
| `stale_abort` | **violated** | is the deployment of the owner's open command in progress? |
| `services` | holds | the eleven components of `MCServices`: are turns admitted, locks exclusive, reports answered, clients up to date, sources watched, plans approved, wakeups heard, barriers and councils ended, agreements informed, deliveries read, cycles capped? |

Safety that holds: an edge fires once per trigger (`FiresOncePerTrigger`), a
fired trigger is not parked again (`NoParkedGhost`), no pend overwrites a slot
silently unless a rollback put that slot back (`NoSilentOverwrite`), an edge
that has had its firings is stopped (`CapRespected`), a firing of a gated edge
that an execution was dispatched for had been approved (`ApprovedFires`), once no
execution of it is on its way a stopped edge fires nothing more
(`StoppedEdgeHolds`) and a killed session starts nothing more (`KilledHolds`), and
nothing new gets on its way to a frozen session (`FreezeHolds`).

Of commands: one record for each idempotency key (`RecordedOnce`), a serial
control version (`VersionSerial`), a told success is on record with its effect
(`ToldIsTrue`), an effect is completed once and after it was written
(`EffectOnce`), all four also when runtimes overlap; a deployment is completed
exactly when its command is recorded (`JournalSettled`), and a retry is never
answered differently (`AnswersAgree`), when they do not.

**What does not hold.** Six runs look for a violation and find it; each says
where a property that holds in the passing runs ends:

* `GateRespected` does not hold: an execution is dispatched for a slot key, and
  `executeApprovedSlot` (`schedulerRuntime.ts:664`) does not look at the status of
  what it finds there. With **coalesce** the next firing replaces the slot under the
  same key, also after the execution was dispatched; with **queue** it takes a key of
  its own, but a denial can free the key for it (one more human command than `desk`
  has). What does hold, and `desk` checks, is `ApprovedFires`: the firing that the
  execution was dispatched for was approved, for that trigger; only another slot that
  took its key can run unapproved.
* `QueueFiresOldest` does not hold, although the drain calls itself "the ordered drain
  for queue backlogs" (`schedulerRuntime.ts:594`). It takes its snapshot oldest first,
  but passes over a slot whose target is busy and does not come back to it. In
  `queue_overtake` two sessions wake each other by reports. The drain passes over the
  oldest slot of the coder, whose turn has ended but is not completed yet, and awaits
  an execution for the reviewer; meanwhile the completion of the coder commits; the
  drain goes on with its snapshot, finds the coder free, and fires a younger slot of
  the same backlog. An execution that throws, and puts its slot back, leads to the same.
  What does hold is that every entry fires at most once and none is overwritten.
* That a frozen session never starts a turn (`types.ts:184`: "freeze gates inbound
  activation") is not stated: when a freeze and an execution both wait behind an open
  command, the execution has already passed the only look at the freeze
  (`schedulerRuntime.ts:648`). What does hold, and `desk` checks, is `FreezeHolds`:
  once a freeze has committed and no turn of the session is on its way, none will be.
* That a stopped edge never fires again (`tests/graph-core/scheduler.test.mjs:435`),
  and that an edge never fires more than `maxFirings` times, is not stated: both
  fail in a way the bounds of `policies` and `ring` are too small for. While a
  workflow command is open, a person approves a firing and stops the edge; a pend
  decided before the stop parks a slot after it, and the execution that the drain
  dispatched before the stop finds that slot: neither `createPendingActivation`
  (`schedulerRuntime.ts:377`) nor `executeApprovedSlot` (`:664`) looks at the edge.
  The constants of `gate_race.cfg` with `"stop"` among the commands of a person show
  it. What does hold for every bound is `CapRespected`, an edge that has had its
  firings is stopped, and `StoppedEdgeHolds`, it fires nothing more once no
  execution of it is on its way. `KilledHolds` has the same form.
* `NoSilentOverwrite` says nothing once a command was rolled back: a pend decided
  while an execution has taken the slot meets the slot again when the execution
  throws.
* `LiveIsFold` holds while no callback arrives inside a command that throws.
  A workflow command awaits real I/O; a provider that fails meanwhile is undone
  by `setState(checkpoint)` (`commandExecutor.ts:431`) in memory but not in the
  log.
* `NoOrphanRun` holds unless a restart interrupts an activation of a session
  whose turn has ended but is not yet completed; the deployment journal then
  restores "running" (`classicWorkflows.ts:1338`).
* `NothingUncommitted` does not hold: `persistState` (`commandExecutor.ts:797`)
  writes the memory of the runtime as it is, also for a callback while a command
  is open. After a crash, a command without a deployment journal is then in the
  durable state with no record, and its retry applies it again. `IsLedger` holds
  in `restart` because that run excludes it (`MaxDirty = 0`).
* `OwnerJournal` does not hold: a runtime that has lost the database aborts the
  deployment of its failed command (`commandExecutor.ts:399`) without asking
  whether the new owner has it open again.
* Not stated as a property: a commit whose owner check came before the handover
  still writes its state over the row (`handover` contains it; the records stay
  right, as the theorems below say).

Of the services (`services`; one property per promise of a component):

* `TurnsAccounted`: counted, running and waiting turns never exceed a hard budget,
  a turn in progress has a lease and a lease belongs to a turn in progress, and a
  session has one process that was not killed (`BudgetHeld`, `LeasesMatchTurns`,
  `OneProcess`), except for turns that `crossed`. `QueuedRunMoves`: the queue empties
  again and again.
* `Exclusive`: one call runs under the lock, and the lock file is its own, whoever
  dies where, while no guard of a living owner was moved away.
* `StaysControllable`: what a dead caller leaves is what the next one accepts
  (`HistoryValid`), and facts at their limit leave room for a cancel (`CancelFits`).
  `ToldOnce`: a transition is answered by one report, a capability is used once, and
  a hook is told to go on once for a transition.
* `ViewIsLive`: at rest the client shows the transcript of the runtime, unless one
  of the named slips is not healed yet.
* `WatchersHold`: a live source has one live watcher, a suspended or removed one has
  none; a watcher that is quiet stopped at the head that the log holds.
* `ApprovedIsActive`, `NothingUnheard`, `WakeupsCurrent`, `StillNotifiable`: what
  governs was approved as it stands, every event about it reaches a wakeup, and a
  pending wakeup can be notified.
* `BarrierKept`: a barrier ends once and, while it is pending, somebody will end it.
* `CouncilOnTrack`: between commands a council that is not over waits for someone who
  works, is queued or is blocked, and no phase was entered without its artifacts.
* `AgreementInformed`: who counts for an agreement was given all the evidence or has
  published since. `WaitsForPerson`: when nothing is going on, no trigger could
  still be started, and an active discussion waits for a person: an issue is open, or
  a member holds it up (`HoldsUp`) that asks for a retry or was killed.
* `NothingMissed`: between commands the inbox and the log agree, and each delivery was
  shown to an agent, is unread, or is listed by the turn under way, unless a
  crash inside a delivery or before the output of a turn, a queued turn that is never
  launched or a cleanup came between (`gone`).
* `GraphKept`: every subscription on a cycle of activations has a cap, unless clusters
  changed since the last check (`CyclesCapped`); clusters, roles and `clusterId` agree
  (`HomesAgree`); the fold of the log knows the clusters, but for what no event told
  it (`ScopesAreFold`).

Bounds of `services`: three agents of one vendor, two of them readers, two slots, a
queue of one, three commands, one broken launch, one `killAll`, one restart: a full
queue, two readers that share the workspace and a writer that does not all occur.
Three processes and one death at the lock: a reclaim of a stale lock, and the
guard of a dead reclaimer. A loop run with one lap, five requests, three
capabilities, one death. Two deltas and three rounds to the client. Two commits, four
disturbances, four watchers. Two proposals, two events, one waiting command and one
incident. Two participants and four disturbances at the barrier. Two planners, a
synthesizer and a verifier, three disturbances, kills and replacements of one
planner. Two members, a cap of two turns, one disturbance beyond starting the first
discussion. Two deliveries and three jolts (a command or turn that fails or is lost, a
cleanup, a restart) at the inbox: one of each pair of them, in both orders. Three
sessions, one of them born later, two clusters, two subscriptions and three commands: a
loop, a cycle of two, a cycle through a cluster, a Master moved from one cluster to
another. Larger instances of single components also hold: council with all
members replaceable (112 thousand states), hub and spoke (71), people at the gates
(42), four disturbances (891); governance with two incidents (96);
collaboration with all three threads, three disturbances and a cap of three (1.85
million). Three members were not explored to the end.

**Where the properties of the services end.** What the qualifications name is in the
code; no run is spent on each, so they are told here.

* *Admission.* Without `crossed`, `TurnsAccounted` fails: after a restart with a queued
  turn, the drain's cold launch and a person's activation start two processes of one
  session (`sessionRuntimeController.ts:492`). The rollback of another session's
  command gives back or takes leases, and re-queues a turn that runs
  (`commandExecutor.ts:431`); a launch of the drain that goes on over it has no lease
  any more, and once a kill has taken its entry off the queue again it is not counted
  until it ends, so that one turn too many is admitted. The close event of a process
  that the rollback killed takes the session's entry in the `runs` map, which may by
  then be that of the next run (`sessionRuntimeController.ts:734`); after an error event
  a third run starts beside it. The last two need five commands or more and were found
  by the proof of `TurnsAlwaysAccounted`, not by this run. A launch that fails deletes the context of a turn whose
  completion waits behind it, and its lease stays. A kill during a launch is answered
  `ok: false` (`sessionCommandRuntime.ts:1071`).
* *Governance.* The notification of a wakeup that a restart cut off, or whose budget
  was refused, reuses its key and is answered from the ledger for ever; later
  wakeups wait behind it (`governanceRuntime.ts:311`). A record command that loses a
  race with a patch is rejected and not recovered. A successor that is no patch
  leaves the wakeups of its base live.
* *Barriers.* A timer that fires before the deadline (a delay above 2^31-1 ms, or the
  clocks disagree) uses up the key of the expiry: the barrier never expires
  (`governanceRuntime.ts:394`). An arrival or a cancel that is not committed has
  cleared the timer; a failed expiry is not retried; `killAll` clears all timers.
* *Councils.* An automatic advance that is refused because the phase changed cancels
  the live barrier (`planCouncil.ts:135`) and the council waits for ever. Killing a
  running participant never tells the council; `killAll` and a normal quit leave
  sessions "killed", which a restart does not count as interrupted, whereas
  `tests/runtime/plan-council.test.mjs:494` expects one that was interrupted to be
  recovered. A patch whose activation the budget refuses is committed half.
  Replacing one planner while the others draft makes a barrier of the new one
  only. The automatic key names the generation of the next barrier, so after a
  patch a late or failed one is replayed.
* *Collaboration.* Publishing sets `readThroughSeq` past evidence of others
  (`collaborationRuntime.ts:203`), which is why `AgreementInformed` has its second
  case. A retry cleared for another thread leaves a discussion whose members all
  agree active (`:437`). A member killed in a chat turn keeps a pending trigger until
  the next change. A command of the runtime that is not committed leaves its
  trigger until a restart or the next change.
* *Ingestion.* A poll that outlives its watcher still emits; the rollback of an
  unrelated command takes anchors back.
* *Clients.* A state sent from outside an open command drops queued deltas that it
  does not hold, although the emitter says it contains them
  (`runtimeEventDelivery.ts:74`); a rollback leaves deltas at the client; a broken
  stream replays nothing.
* *Inbox.* A queued turn that the budget refuses, or whose launch fails before its
  run has a context, is never marked unread: `failSession` looks for a context that
  is not there (`sessionRuntimeController.ts:513`), although the comment at
  `sessionCommandRuntime.ts:954` says that it rolls back exactly these. A delivery,
  by a person or a rule, has no journal (`commandRegistry.ts:44`, `:112`), so a crash inside
  one leaves an entry without its fact; what a crash inside an activation or a firing did to
  the inbox is undone. A restart during a turn without
  output leaves its listing read. A cleanup that keeps no read entries removes what a
  running turn has yet to read, and after it sequence numbers begin again. Not
  modelled: an activation that failed and is sent again under its command id finds its
  old journal, in which the manifest of the first attempt stays until the second one writes
  its own (`kernelStore.ts:671`); a crash before that puts the old one back, without what
  was delivered in between.
* *Clusters and edges.* `static-check.ts:3` says that an unguarded loop is not legal; a
  change of a cluster can close one through an edge whose source is that cluster, and
  nothing checks it until the next subscription is authored. The second
  refusal, "unguarded activation cycle" (`schedulerRuntime.ts:999`), is never reached:
  every edge on a cycle has just been given a cap. The fold knows only the cluster
  an event names: members taken from other clusters, and those of a session created
  in one, are not in any event. A Master created with a cluster masters none.
* *Plugin.* Moving a guard before comparing it (`fs-utils.mjs:461`) lets two calls hold
  the lock, with five processes, two deaths and a reused inode number. A request that
  died before its receipt is refused as stale for ever
  (`mutation-engine.mjs:85`).

**Liveness and fairness.** `EffectMaterialized` (in `restart`): a staged effect
is written and completed, however often the runtime stops. `FairSpec` of
`CommandCommit` assumes weak fairness of what a runtime does by itself (a handler
ends, a chain is continued, a drain goes on) and of `Open` (a stopped runtime is
started again). The run has no failing write: one that always fails stays
pending for ever, as the code says. `ApprovedIsResolved` (in `desk`): an approved firing is
executed, dropped or superseded, unless its target is frozen. `FairSpec` of
`Scheduler` assumes weak fairness of the event loop (`TakeEvent`, `Resume`, `Work`): a
promise chain with a settled head is continued; and of `ProviderCloses`: a
provider process ends some day, an assumption on the vendors' processes.
Nothing is assumed of people, agents or crashes. The run has no failing
execution: one that throws ends its drain, and the approved slot waits for
whatever event comes next (listed as a hazard).
`QueuedRunMoves` (in `services`): the run queue empties again and again, unless
it was paused by `killAll`, an agent is frozen, or turns of one session crossed.
`RunFair` assumes weak fairness of the executor (`CommandGoesOn`), of the drain,
of the launch that awaits its socket, and of the end of each provider process;
a vendor process that never ends keeps its lease for ever, in the code too.

## Proofs

TLAPS proves, for every graph (`Def`, `Edge`, `Session`) and all bounds:

* `SchedulerProofs!TypeCorrect`: `Spec => []TypeOK`. One lemma per action;
  helpers (`Decide`, `StopEdges`, `Publish`, `Proceed`) have lemmas of their
  own.
* `SchedulerProofs!OnceInvariant`: `Spec => []OnceInv`, and from it `FiresOnce`,
  `NoGhost` and `OneSlot`.

Assumed: the constants are what their `ASSUME`s say (finite `Session`, authoring
ranks are distinct, bounds are naturals); TLC evaluates them in each run.

**Why a trigger fires once.** Two drains may dispatch the execution of the same
slot, commands are rolled back, and a crash brings back an old row, so no
argument about the queue works. The fence is the idempotency key of the pend:
`rule:<trigger>:pend:<edge>` is in the store from the moment a slot of the
trigger exists and is never removed. `OnceInv` says, of each of the three
states a later step can bring back (memory, disk, the checkpoint of the open
command): slots have distinct keys and distinct triggers, the pend of each is
on record, and none of them has fired; that a firing has its key on record; and
that while a command is open only that command has removed a slot. Then a slot
that fires was not fired before (so the count grows with the set of triggers),
and a trigger that fired cannot be parked again, because its pend would be
replayed, not run. The steps that need thought are `Pend` (a new slot has a new
trigger), `ExecuteBegin`/`ExecuteEnd` (the slot leaves all three states at
once when the firing commits), and `ProviderCloses` and friends, which write the
memory of an open command to disk.

For every set of commands, any number of runtimes and all bounds:

* `CommandCommitProofs!TypeCorrect`, from one lemma per action.
* `CommandCommitProofs`, second part: `RecordedOnceHolds`, `VersionSerialHolds`,
  `EffectOnceHolds`, `ToldIsTrueHolds`. Nothing is assumed about overlap, dirty
  snapshots, throws or crashes. The lemma `Writers` says that a commit writes
  records, versions and events, that a commit and a completion write the outbox,
  and that nothing else does; a record is never changed (`RecordsStay`). Each
  theorem adds what it needs: the version a recorded command expected is known
  and stays (`Expecting`); what a runtime is about to mark was written
  (`WroteInv`); an effect is staged with its record (`StagedInv`) and a success
  is on record before it is told (`AnswerInv`).
* `CommandCommitProofs!LedgerImplemented`: with `Overlap = FALSE` and
  `MaxDirty = 0`, `Spec => IsLedger`. The invariant says that one runtime runs
  and owns the database (`Alone`); that its memory is the durable state between
  commands, and that state with the open command applied once inside one, where
  a commit would meet neither a conflict nor a record (`Mirrors`); and that a
  journal in progress holds a copy of the durable state (`Copies`), so that
  recovery changes nothing. Every step then leaves the ledger alone, except
  `Commit`, which is `Enter`.

* `CommandCommitProofs!JournalSettledHolds`, `AnswersAgreeHolds`: under the same two
  assumptions, from the same invariant. A journal in progress is that of the open command
  of the only runtime (`JournalStep` follows it from its start to its completion, its
  failure or the next recovery). A result that is told, or about to be, is on record,
  and as a key has one record (`RecordedOnce`), a retry finds that result and no other
  (`ReplyInv`).

* `SchedulerProofs!CapStops`, `StoppedStays`: `Spec => []CapRespected` and
  `Spec => StoppedEdgeHolds`. Everything a later step can bring back (`disk`, the
  checkpoint of the open command) has the same edges and counts as memory
  (`EdgeInv`): a firing that throws has not been counted. So a step stops edges, or
  counts one firing and stops its edge in the same step when that was the last. An
  execution is only dispatched by a drain, which looks at the edge, and the commands
  a task still has to send are none (`EdgesGoOn`).
* `SchedulerProofs!FrozenStays`, `KilledStays`: `Spec => FreezeHolds` and
  `Spec => KilledHolds`, from the same step fact: a drain and an activation look at the
  freeze and the status of the session before they put a turn on its way, and a turn
  starts only when it is on its way (`StartsAsked`).
* `SchedulerProofs!GateHolds`: `Spec => ApprovedFires`. A slot that counts as approved
  needs no approval or has one on record for its trigger, in every state a later step
  can bring back, and so do the snapshots of drains and the executions in the queue
  (`GateInv`). The record only grows, a pend marks a slot only where no approval is
  asked for, and every step but these two keeps to the slots there were (`KeptSlots`).
  So what fires unapproved has another trigger than the execution was dispatched for,
  which is what `gate_race` shows to happen.

* `SchedulerProofs!NothingOverwritten`: `Spec => []NoSilentOverwrite`. The scheduler
  decides that a pend supersedes a slot, or that there is none, and the pend runs
  several commands later. `PendInv` says why the decision is still right: only the
  scheduler chain pends, and it has one command in the executor at a time (`OnlyChain`,
  `OneAtATime`); an event pends an edge at most once (`OnePend`), so neither another
  event nor the rest of this one can park a slot under the key in between; everybody
  else only takes slots away. A pend that supersedes nothing therefore finds nothing
  (`Accurate`). Only a rollback puts a slot back, which is why the property says nothing
  after one; `PendShape` holds all the same.
* `SchedulerProofs!MemoryIsFold`, `NoneOrphaned`: if no workflow command is sent,
  `Spec => []LiveIsFold` and `Spec => []NoOrphanRun`. The assumption is
  `"workflow" \notin HumanKind`. It is needed: `fold_rollback` and
  `restart_orphan` refute the two with it, and `FoldInv` shows that nothing else does.
  A command that awaits the outside then awaits only the socket of the bridge, at the
  first launch, when no process runs that could call back (`Alone`). So what disk and
  log hold while a command is open is what memory held when it began (`Agrees`), the
  command has touched its own target and slot only (`Untouched`), and a rollback
  brings back what the log never ceased to say. What counts as running in that
  state has a process, or its completion is at the head of the queue
  (`RunsAreThere`, `CompletesFirst`); the target of an open launch is not among these,
  so that the deployment journal, which puts its old record back after a crash, puts
  back no run. `LiveIsFold` commutes each update of `live` with its fact (`ViewStops`,
  `ViewSession`, `ExecutedParts`); the proof of `ExecuteEnd` needs `OnceInv`, which says
  that an edge that only delivers has no slot, so that its firing is not counted twice
  in the log.

Of the services, for all bounds:

* `ServiceProofs`: `GovernanceTyped`, `ApprovedGoverns`, `NothingStaysUnheard`,
  `PatchesSettle`, `OnlyTheseAreStuck`, that is types and the four properties of
  `Governance`. The invariant has a part for each table: what a status of a plan says
  about its proposal (`PlanInv`), what a waiting command may still assume (`PileInv`),
  which events a wakeup took in (`ObservedInv`, `WakeInv`, `RecordInv`), and which keys
  a notification has used (`NotifyInv`). `PlanInv` is what forbids two active versions:
  a commit is accepted only while the base it was proposed against is active, so the
  second of two successors is too late.
* `ServiceProofs`, second part: `BarrierTyped`, `BarrierHolds`. `BarrierKept` is nearly
  inductive; it needs that a barrier which does not exist yet has used no key.
* `RunAdmissionProofs!TurnsAlwaysAccounted`: `RunSpec => []TurnsAccounted`. Three books
  matter, those in memory, on disk and in the checkpoint of the open command, because a
  rollback or a restart brings one of the others back: each is within the budget and
  has one entry for a session, whose turn has not run (`BookFine`). A turn is of one
  session (`Owned`). The launch of the open command is known nowhere else, so that its
  rollback forgets it (`Apart`); whatever shares a session with a launch has crossed it
  (`Meets`); what waits is not in progress, or crossed, in the checkpoint as well
  (`Waiting`), and a process that was not told to stop is the run of its session
  (`Lives`). A restart counts the last turn of each session that was active instead of
  its lease; that this adds nothing to the count is `Remembered`, in memory, and
  `Recovers`, on disk. Steps that only end things are proved by one lemma
  (`CalmKeeps`), those that start a turn, wait for the socket or roll back by one each
  (`StartKeeps`, `AwaitKeeps`, `BackKeeps`). The proof corrected the model: two ways a
  turn can cross another were missing from `crossed`, and `BudgetHeld` has to leave out
  what crossed (see *Admission* above).
* `PlanCouncilProofs!CouncilAlwaysOnTrack`: `CouncilSpec => []CouncilOnTrack`, for any
  planners, topology and gates. The council, the row and the checkpoint of the command
  that awaits are each fit by themselves (`Fit`), because a rollback or a restart brings
  one of the others back. Of the council alone (`Plan`): whoever has a turn is wanted;
  in a phase a member of the barrier that has not arrived is wanted for just this phase,
  and nobody else is, unless a replacement went past the others (`WantsHere`,
  `OnlyMissing`), so that a release finds nothing outstanding; a blocked council knows
  the phase it was in (`BlockedRight`). With its sessions (`Hands`): a turn the council
  waits for is not an old one (`Past`), one that is blocked does not run (`Halted`), and
  whoever is missing at the barrier is at work, blocked or strayed (`Manned`). With the
  chain (`Tracked`): a turn that ends has its completion in the chain, and an automatic
  gate the command that opens it, or it strayed. A command that awaits has touched no
  turns but those it launches (`Linked`), whose numbers only grow; that is why the
  checkpoint that comes back does not take a new turn for an old one. The invariant does
  not need that no phase is being opened: `WaitsForSomeone` and `PhaseEarned` hold then
  as well.
* `CollaborationProofs`: `AgreementRestsOnEvidence`. `AgreementInformed` says nothing
  before the goal is completed; what carries it is that an assessment that counts
  (`StandInformed`), and the reading of a turn on the goal (`ReadInformed`), are only
  there for members who have the evidence. New evidence takes both back from all but
  its author, in the same step.
* `CollaborationProofs!RestWaitsForPerson`: `CollaborationSpec => []WaitsForPerson`.
  `Moving` says that a turn under way has its run or a settlement in the chain
  (`TurnsEnd`), and that whatever could start has a drain scheduled or is in the chain
  itself (`TriggersMove`). `Pursued` says that a required member of an open discussion has
  assessed, has a turn to come or asks for a retry (`Asked`; what it publishes in a turn
  gives it another one, `SaidIsTold`), that an objection goes with an open issue, and
  that an active discussion that can be completed is (`NotForgotten`): settlements and
  resuming check it, and no other step makes it true. The proof corrected the property, which
  named the members of the discussion only. A discussion that grew out of a thread also waits
  for members outside it: one that asks for a retry of some other turn, or was killed, while
  a mention in that thread waits for it keeps an agreed discussion from being completed,
  and `discussionHasAttention` does not count it. That takes three moves and
  more states than the run has room for; a random simulation of three members found it
  once the proof had failed there.

* `PluginStoreProofs!LockExclusive`: `LockSpec => []Exclusive`. While no guard of a
  living owner was moved away, the lock file is the one of the call inside the section
  (`LockHeld`), the guard the one of the call that reclaims (`GuardHeld`), and from the
  moment its owner was found dead the lock stays a dead call's until it is unlinked
  (`OwnerDead`). The last is what makes the comparison of inode numbers sound: the
  number is not free to be used again while the dead owner's file has it.
* `PluginStoreProofs!LoopToldOnce`, `LoopStaysControllable`. The invariant relates the
  files to each other: receipts with equal ids or revisions agree (`ReceiptsAgree`), each
  receipt that needs a transition or report file has it (`FilesAgree`), there is a
  receipt for every revision and replaying them gives the state (`HistoryKept`), the
  pending transition was opened by a receipt and is answered by at most one
  (`PendingOpen`), a token belongs to one transition (`TokensApart`), and the counted
  blocks are the laps (`BlocksCounted`). `CallerInv` says at each step of a call what is
  already on disk and what the lock protects; it holds for whoever finds the store as a
  dead caller left it. `FitInv` counts the files: beyond a limit there is at most one file for each caller
  that died, one for the call at work, and one for a run that only a cancel can end.
  That a replay of the first `n` receipts is not changed by a later one is an induction on
  `n`; it is done with the least number at which two replays differ (`LeastNumber`).
* `ServiceProofs!WatchersAlwaysHold`, its third part: `IngestSpec => []WatchersHold`. Two facts carry it: an
  active source without its watcher has a recovery on its way (`Suspended`), and an anchor
  names the last event of the log unless a rollback took it back (`Anchored`), in memory
  and in the checkpoint of an open command.

* `ServiceProofs!CyclesFound`: for every finite set of edges, in whatever order nodes and
  neighbours are taken, `OnCycle(edges) = Cyclic(edges)`: the static check finds the edges
  of cycles, all of them and no others. `Midway` is what holds between two steps of Tarjan's
  algorithm. The stack climbs by index, and its frames are a path (`FramesFollow`); every
  node of the stack is led to by the frame it was entered under (`AllUnder`), and leads by
  way of its `low` to one further down (`LowIsReached`, `LeftLow`); an edge out of the
  stack goes to a node that is placed, to one that `low` accounts for, or is still to be
  looked at (`EdgesKnown`). So what is above a node whose `low` is its own index is
  together with it and leads nowhere else, which keeps `PlacedRight`: no edge leaves what
  is placed, and placed nodes are in one component exactly if no set that edges do not
  leave tells them apart. Each step adds to the nodes that are entered or left or to the pairs
  that were looked at (`Grows`), of which there are `TarjanSteps` at most (`WorkBounded`):
  that is why so many steps end it (`AllPlaced`). No induction over data is used:
  the steps are the values of a recursive function on numbers, and the least number at
  which they would go wrong is none (`ProceedsDone`).
* `ServiceProofs!GraphAlwaysKept`: `IntentSpec => [](IntentTypeOK /\ GraphKept)`, its fourth part.
  A subscription keeps its caps when one is stopped because fewer edges make fewer cycles
  (`CyclicMonotone`), and when one is authored because what is capped changes no edge
  (`SameEdges`) and `CyclesFound` says that all of a cycle is capped. For the clusters, what the
  fold says of Masters and of members are kept apart (`Folded`): a Master assigned later mends the one and not the
  other. The proof corrected the model: a cluster that lost its Master to another one and is
  drawn anew with that session as a member is logged without it (`fold.ts:130`), and stays so
  when another Master is assigned. That takes six commands, more than the run allows; `drift` now
  has it (`Mistaken`).
* `DeliveryProofs!ClientShowsLive`: `SyncSpec => []SyncTypeOK /\ []ViewIsLive`. `Follows`
  says that, from the view on, what the client holds, each message on the wire and what
  the server holds are consecutive pieces of the live text (`ViewOnWay`); after a slip
  this need not be so from the view, but it is from a fresh state on the wire that covers
  every slip (`StateOnWay`), which the client will take. It takes it because states
  climb: each on the wire is no earlier, by version and then time, than what the client
  shows and what was sent before (`Climbs`, `Accepting`). A delta moves the time of the
  view as well, but not beyond that of a state which has the delta (`Stamped`). What a batch does to a
  text is an induction on its length, by the least number at which it would fail
  (`BatchShown`); `applyStreamEvents` is written as a recursive function for its sake.
* `DeliveryProofs!ChannelMissesNothing`: `ChannelSpec => []ChannelTypeOK /\ []NothingMissed`.
  `Balanced` states the books over the manifest as the last command left it (`Sound`):
  every entry is in the log or forgotten, and every delivery is shown, listed or unread;
  what the turn lists is still in the manifest unless it was seen or forgotten, so that
  a turn that fails can put it back. `Open` says what an open command has added: entries
  nobody has heard of, and marks on what its own turn will list. So a commit takes
  the files as they are, and a rollback the manifest before. A crash inside an activation or a
  firing does as well, by the recovery of the journal, and nothing is forgotten for it;
  one inside a delivery takes the files without the fact. A cleanup keeps entries in their order and all that are unread (`CleanedUp`).

`OnceInv`, `GateInv`, `PendInv`, `FoldInv`, `PersonInv`, `AdmissionInv`, `Follows`, `GraphInv` and the council's `NowRight` are conjunctions of inductive parts and are
proved, not model-checked, in this project; their consequences are checked by `ring`,
`desk` and `services`.

Each conjunct of `TypesOK` of `MCServices` is a theorem about its component. Beside those
named above: `AdmissionTyped` (a turn that a book, a run or a process names was given
before, in memory and on disk), `LockIsTyped` (a number is free whenever a file is
published; `FileLockAssumption` says that there are more numbers than files at a time, as
in a file system, hence the five of `services.cfg` for three calls), `LoopIsTyped` (laps
and blocked stops stay within the cap), `IngestTyped` (no command captured an epoch that
`killAll` has not reached), `CollaborationTyped` and `CouncilTyped`. The bounds on counters
in them follow from the bounds in the guards, which a part of its own counts (`Booked`,
`Bounded`, `Tallied`, `Counted`).

Only model-checked: `TypesOK` of `MCServices` as one formula over all its parts (`part`
says which component a behaviour is of, and belongs to the run alone), and all liveness
(fairness is out of the prover's reach).


## What is next

The order in which more of the code is worth modelling; each is a module of its
own, because it shares no state with the present ones.

1. `store.mjs`: legacy runs, worker observations and the rebuilding of an index from
   the run files. `LoopControl` and `FileLock` are the two sides of it that are done.
2. Session fork (`sessionFork.ts`) beside a running turn: a copy of a transcript, a
   worktree and a checkpoint, each of which can fail alone.
3. That a trigger of `Collaboration` does not wait for ever, under fairness: so far only
   states at rest are looked at.
4. Classic workflows (`classicWorkflows.ts`, review and goal templates), which are
   plan councils with fewer phases.

## Not modelled

About a tenth of the implementation's lines is mapped. Most of the rest is not a
protocol, and a model of it would be a copy of it or would say nothing:

* **Validation and normalisation**: `contracts.mjs` (2,079 lines of field checks of the
  plugin), `runtimeStateRecovery.ts` and `collaborationRecovery.ts` (bring what was
  stored by older versions into the present form, field by field),
  `proposalRuntime.ts` where it parses and checks a plan. No state, no order: tests
  with inputs are the right tool.
* **Projection**: `graph-state.ts`, `session-projection.ts`, `loop-view.ts`,
  `schedule.ts`, the store's selectors, and all of the desktop UI: functions from the
  state to what is drawn.
* **I/O**: `gitWorkspace.ts`, `workspaceFiles.ts`, `terminalService.ts`, HTTP routes, the
  MCP server, what the provider adapters read and write. The adapters appear by the events they
  raise (`error`, `close`, output); what vendors promise is in no file here.
* **Left out of modelled parts**, each named at the head of its module: topics and
  payloads of the inbox, budgets other than turns, several scopes and priorities of
  the run queue, timers and creating subscriptions in the scheduler, governing Masters
  (`scope.ts`), loop policies, the script adapter, the content of plans, messages and
  discussions.
* **Session fork, provider interactions, sessions' checkpoints**: control flow that could be
  modelled and is not yet.
* **Several components at once**: `Scheduler` and `CommandCommit` contain what they need
  of the executor and of runs; the components of `MCServices` are cut at the calls
  between them. A property across two of those (a barrier that expires while the run
  queue is full, say) is not checked.
