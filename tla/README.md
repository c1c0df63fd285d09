# Specifications of Beale

Beale is a research workbench: an app-server hosts workspaces and runs research
sessions in worker threads, each session is a tree of agents, and what they find
is kept in a SQLite database and published as files of a workspace. This
directory holds TLA+ specifications of the parts of it whose correctness depends
on order: who runs between two steps of whom, who dies between them, and who
waits for whom. Paths below are relative to the repository; `research-agent` is
short for `packages/research-agent/src`.

* [The system](#the-system): its components and how they interact
* [Modules](#modules): how each specification corresponds to the code
* [Runs](#runs): what TLC checks, on which instances, and what it shows
* [Proofs](#proofs): what TLAPS proves, and by which argument
* [Disagreements](#disagreements) between the code and what is said of it
* [Limits](#limits): what is only checked, and what is not modelled
* [Plan](#plan): what comes next

## The system

### Components in the core

**Worker database mediator** (`app-server/src/workerDatabaseBroker.ts`,
`workerDatabaseClient.ts`). A session runs in a thread, and its stores work on
the database of the workspace through the host. The thread posts a message and
blocks in `Atomics.wait` on a shared buffer; the host executes the statement and
writes the answer into the buffer. Per worker there is a *broker* with the
connections it opened; per database file a *coordinator* that leases the
database to the connection inside an explicit transaction and queues all other
requests, the host's own operations (`runWhenAvailable`) included.
Hard: the host is single-threaded while the workers are not; a worker may exit
or give up waiting at any moment; an answer may be too large, or late.
Correct if: transactions are covered by the lease, the lease ends with its
holder, nobody waits forever, nothing the coordinator admits waits inside
SQLite, and an answer belongs to its question.

**Subagent runtime** (`research-agent/subagent-runtime.ts`) and the **root
collaboration loop** (`research-agent/agent-executor.ts`). A session is a root
agent and children that it or they spawn. A child keeps its session between
turns: `followup_task` launches it again, `interrupt_agent` aborts the turn it
is in, `send_message` fills its mailbox, `wait_agent` suspends a turn until
something happens. The first touch of a research surface starts a *foundation
scout*, or queues it when the threads are used up. When the root's own run ends
the executor settles all children and continues the root with what they
reported meanwhile. The host can stop the whole tree or steer it.
Hard: a turn is aborted at one moment and its callbacks run at another, when the
session may already be in its next turn; mailboxes are read at message
boundaries only; a slot is freed in one callback and taken in another.
Correct if: what is shown as running is what runs, the thread limit holds, a
stop reaches every turn, sleepers are woken, queued scouts start, and the root
answers from current results.

**Workspace publication** (`research-agent/workspace-project.ts`,
`workspace-publication.ts`, `workspace-import.ts`, `workspace-research-index.ts`;
`app-server/src/workspaceCheckpoints.ts`, `workspaceCheckpointWorker.ts`). In a
workspace under file authority, the canonical files are what counts and the
rows can be rebuilt from them. A checkpoint worker finishes an interrupted
publication, rebuilds the rows if they were released, imports a direct edit,
and publishes: verify, journal, write, remove, index, state, drop the journal.
Hard: the process may die between any two writes; the operator edits the same
files; typed operations revise rows while the worker runs; a release prunes
rows that the next step may need.
Correct if: published content can be read back, own half-done work is not taken
for an edit, edits are kept, pinned evidence never changes, and a release is
never published as an empty workspace.

**Fleet model broker** (`app-server/src/fleetModelBrokerQueue.ts`,
`fleetRemote.ts`, `hostService.ts`, `research-agent/model-broker.ts`). A session
on a guest machine has no credentials for the model. Its completions are
files in a spool of the guest's app-server; the workspace primary polls the
spool, leases a request, runs the model and sends the answer back in chunks
sealed by a digest.
Hard: a lease may end under its executor, calls are lost or arrive after they
were given up, and the guest may die between two file writes.
Correct if: a completion gets at most one answer, whole and never replaced, its
caller is handed that one, and whoever waits is served.

**Control stream** (`packages/app-server-runtime/src/control-stream.ts`). The
devices that watch a session pause, resume, stop and steer it, withdraw
steering and decide approvals. Executors take the instructions at turn
boundaries, or wait for one when the model was stopped by a safeguard.
Hard: a device repeats what was not acknowledged; a pause lies between a call and
its continuation; two callers compete for one queue; waits are abandoned.
Correct if: an instruction is delivered once, none is forgotten, and a session
that ends keeps no caller waiting.

**Session store, launch and recovery** (`research-agent/session-store.ts`,
`app-server/src/appServer.ts`, `hostService.ts`, `sessionRecovery.ts`). A launch
is a chain of awaits: prepare, store the attempt, spawn the worker, wait until it
is ready. The exit of a worker ends its session or plans a recovery, which is a
launch again. A stop may find the session at any point of this, a restart finds
rows that say active.
Hard: each await ends in another world than it began in; operations on the row
queue behind the worker's own lease.
Correct if: one worker at a time works on a session, the host knows it, and a
session that was told to stop ends.

**Research tracks** (`research-agent/research-track.ts`, the scan in
`appServer.ts` and `hostService.ts` 1444-1560). A track works through the
surfaces of a workspace in epochs. A timer scans the tracks, stops workers that
do not belong to a running epoch, looks after epochs that lost their
worker, and reserves, prepares and starts the next one. The session of an epoch
may also be continued by the operator and recovered after a restart, as any
session may.
Hard: the scan awaits between what it reads and what it writes, while the
operator pauses, stops and starts passes, continues their sessions, and workers
end.
Correct if: the epochs of a workspace run one at a time, a track that the
operator held back stays so, and neither an epoch without a worker nor a worker
without an epoch lasts.

### How the core parts interact

A scan of tracks (`ResearchTrack`) starts sessions (`Sessions`). The worker of a
session runs one tree of agents (`Subagents`), reads its control stream
(`ControlStream`), and on a guest asks the broker for its completions
(`ModelBrokerQueue`). Its tools write rows through the mediator
(`WorkerDatabase`), behind whose lease the host's own operations on the session
row queue up. After each typed mutation the host asks for a checkpoint, which
reads the rows in one transaction and publishes them (`WorkspacePublication`).

What two parts share is narrow, and each specification treats its neighbour as
free to do anything that neighbour can do. A tool call is a choice of an agent in
`Subagents`, a request in `WorkerDatabase` and a `Save` or `Forget` in
`WorkspacePublication`. The queue of `Sessions` is what `runWhenAvailable` of
`WorkerDatabase` promises: host operations run, in order, at some later time
(`EverybodyIsServed`). `ResearchTrack` has of a session only its row, whether its
worker works, and its final record; that a session has one worker at a time and
that a stopped one ends is what `WorkersAreOwned` and `StopEnds` of `Sessions`
say. Executors take steering from `ControlStream` at the message boundaries of
`Subagents`.

### Components outside the core

| Component | State | Operations | What is hard |
|---|---|---|---|
| Goal runtime (`goal-runtime.ts`) | goal, its status and budget | set, continue, complete, block | which turn a change belongs to |
| Discovery and restart (`discovery.ts`, `restartSupervisor.ts`) | lock file, record, process | acquire, take over, restart | two takers of a stale lock |
| Fleet (`fleet.ts`) | machines, reservations | clone, reserve, release | minutes-long work outside the lock |
| Findings and claims (`findings.ts`) | finding, revision, status | propose, revise, settle | order of reviews and revisions |
| Registry, knowledge, runbooks, reports, surfaces, topics | rows | single transactions | little: one writer at a time |
| Desktop, iOS, clients | a mirror of host events | subscribe, reconnect | late and repeated events |
| Providers, tools, MCP, prompts | none, or external | calls | external |

`PROJECT.json` lists every component with its files and status, and under
`hazards` the lines where order, failure or bounds could bite.

## Modules

Each component has a specification, an `MC` module with what TLC needs, and a
module of proofs. The broker also has an abstract specification, `ModelBroker`,
that says what it promises; `ModelBrokerQueue` implements it.

| Specification | Checked through | Proved in |
|---|---|---|
| `WorkerDatabase` | `MCWorkerDatabase` | `WorkerDatabaseProofs` |
| `Subagents` | `MCSubagents` | `SubagentsProofs` |
| `WorkspacePublication` | `MCWorkspacePublication` | `WorkspacePublicationProofs` |
| `ModelBroker`, `ModelBrokerQueue` | `MCModelBrokerQueue` | `ModelBrokerQueueProofs` |
| `ControlStream` | `MCControlStream` | `ControlStreamProofs` |
| `Sessions` | `MCSessions` | `SessionsProofs` |
| `ResearchTrack` | `MCResearchTrack` | `ResearchTrackProofs` |

In every module an action is the code that runs without another actor getting
in between. A few operators next to an action or helper (`KeepHeader`,
`FailStale`, `KeepNoBaseline`, ...) are variants of it with a plausible mistake;
no specification uses them. They are there to show, run by run, which mistake
each property would notice (`PROJECT.json`, `mutants`).

### WorkerDatabase

| Code | Specification |
|---|---|
| message posted by `request()` and the two header words of its buffer | `request`, `sent`, `buffer` (with the id it `answers`, kept only to state `AnswersMatch`) |
| a larger buffer for a read that did not fit | `generation`, `Retry` |
| `Atomics.wait` timing out | `TimeOut`; the message stays posted |
| store code around `BEGIN`, `COMMIT`, `ROLLBACK` | `MayAsk`, `Returns`, `Throws`: `transaction` and `doomed` are the worker's belief |
| `broker.handle`, `coordinator.dispatch` | `Deliver` |
| `coordinator.execute` with `explicitTransactionBoundary` | `Execute`, `Boundary` |
| `coordinator.drain` | `Drain`, one round per step, with `draining` keeping other host steps out |
| `runWhenAvailable` | `Submit`, `RunHostOp`; `Resume` is the part after an await |
| stores that `hostService.ts` opens by itself (1288, 1362, 1452, 1667, 1680, 1794) | `UseStore` |
| a wait for `busy_timeout` on the event loop | `Stalls`: the kinds of steps that did, in `stalled` |
| worker exit, `broker.close`, `coordinator.unregister` | `Exit`, `CloseBroker`, `Unregister` |

SQLite is external. Of it the specification keeps which connections are in an
explicit transaction, that a write meeting another transaction waits for
`busy_timeout` on the event loop and fails, and, with `AutoRollback`, that an
error may end a transaction. `stalled` is only observed: it tells a statement of
a worker and the part of a host operation that the coordinator admits from the
part after an await (`SuspendingOps` are the operations that have one) and from a
store opened without the coordinator. The last two do stall. A drain round is a step of its own because worker
threads run on during a drain; no other host step may intervene.

### Subagents

Turn `<<c, k>>` is the k-th launch of session `c`. Turns are the objects that
go through phases, and sessions only show a status, since the code keeps a
promise per turn and a status per session, and that gap is where the mistakes
would be.

| Code | Specification |
|---|---|
| `launch` | `Launch`, `Launched` |
| the agent loop (external) | `working`, message boundaries `ReadMail` and `LastBoundary`, `finishing` |
| `then`, `catch`, `finally` of a turn | `Complete`, `Fail`, `Tidy`, each a step |
| `spawn`, `sendMessage`, `followupTask`, `interrupt`, `wait` | `Spawn`, `SendMessage`, `FollowUpQueued` and `FollowUpLaunches`, `Interrupt`, `ChildWaits` and `RootWaits` |
| `spawnFoundationScout`, `drainFoundationQueue` | `FirstTouch`, `StartedBy`, `QueuedBy`, `Drain` |
| `notifyActivity` | `Woken`, `RootWoken` |
| `interruptAll`, `settle` | `InterruptAll`, `Settle` with the promises it `awaited` |
| the executor around the root (`agent-executor.ts` 1307-1377) | `rootPhase`: `RootCompletes`, `RootFails`, `Conclude` |

`PromptAbort` says what the external agent loop does with an abort signal. With
`TRUE` an aborted turn calls no further tool and does not succeed. With `FALSE`
it may still do both; the runtime does not enforce the first, so both are
checked. `overrun` is only observed: the turns that succeeded after they were
aborted, whose `then` callback may speak for a later turn of their session
(`Overtaken`).

Which surfaces lose their eligibility while queued depends on rows of the
database; `Drain` chooses the set freely (`lost`).

### WorkspacePublication

| Code | Specification |
|---|---|
| rows and canonical files | `store`, `disk`: a revision, an edit, or 0 for none |
| `references/research-index.json`, `publication.json`, `pending-publication.json` | `index`, `publication`, `pending` |
| `publication-content`, recovery copies | `baselines`, `recovery` |
| `research-cache.json` | `cache` |
| `recoverWorkspacePublication` | `Recover` |
| `rebuildWorkspaceResearchIndex`, `releaseWorkspaceResearchIndex` | `Rebuild`, `MarkRebuilt`; `MarkReleasing`, `Prune`, `MarkReleased` |
| `listWorkspaceResearchEdits` and the choice of what to import | `Examine` |
| `importWorkspaceResearchFile` | `KeepImported`, `ReviseImported`, `RestoreBaseline` |
| `publishWorkspaceResearch`, `publishWorkspaceFiles` | `Render`, `Verify`, `Journal` |
| `finishWorkspacePublication` | `KeepBaseline`, `WriteFile`, `FilesWritten`, `Preserve`, `Remove`, `FilesRemoved`, `WriteIndex`, `WriteState`, `DropJournal` |
| the queue of checkpoint operations | `Start`; one worker at a time |

A content hash stands for its content. Evidence is pinned from its first
publication on; the code pins the artifacts of completed executions, whose
content is fixed when they are first published. Two variables are only observed:
`edited` and `late`, the edits that came between a check and the write it
allowed.

### ModelBroker and ModelBrokerQueue

`ModelBroker` has three variables: what a caller sees, the answer of a
completion, and what the caller was handed. `KeepsThePromise` of
`ModelBrokerQueue` maps a caller that submits or waits to one that asks, and the
result file of a request marked done to its answer.

| Code | Specification |
|---|---|
| `requestBrokerCompletion` in the session worker | `client`, `received`; `Start`, `Submit`, `Result`, `GiveUp` |
| request, state, part and result file | `requestFile`, `stateFile` with `leaseId` and `leaseTime`, `partFile`, `resultFile` |
| `runBroker` and `answerBrokerRequest` of the primary | `primary`; `SendPoll`, `ModelReturns`, `Abandon` |
| `poll`, `beginResult`, `appendResult`, `sealResult` of the queue | `HandlePoll`, `BeginResult`, `AppendResult`, `SealResult` |
| `renew` and the clock | `Renew`, `TimePasses` |
| a crash between two writes of `submit` or `seal` | `SubmitCutShort`, `SealCutShort`; elsewhere `GuestCrash` |

`calls` are the requests on their way to the guest. One that was abandoned stays
there, with the `attempt` that tells its response from that of a later call. The
chunks of an answer are named by the lease under which they were sent, so that a
mixture of two executions would show.

### ControlStream

| Code | Specification |
|---|---|
| `steeringInstructions`, `activeSteering`, `processedControls` | `queue`, `active`, `processed` |
| `waitUntilResumed`, `resolveResumeWaiters` | `resumeWaiters`, and `ready` when they are resolved |
| `handleLine` | `Receive` with one of `Pause`, `Resume`, `Stop`, `Steer`, `RemoveSteering`, `ResolveApproval` |
| `takeSteeringInstructions`, `waitForSteeringInstructions` | `Call`, then `Continue` once resumed; `Takers`, `Waiters` |
| the abort signal of a wait (`claude-agent-executor.ts` 554) | `Abandon` |
| `waitForShellApproval`, `waitForToolApproval` | `WaitForApproval`, `AbortApproval` |
| `handleEnd`, `close` | `End`, `Close` |

A line of the host is handled in one event-loop task and the continuations it
made ready run before the next, which is why lines wait for `ready` to be empty.
`accepted`, `recent`, `delivered` and `lost` are only observed.

### Sessions

| Code | Specification |
|---|---|
| the row of the session and its attempts | `status`, `attempt` |
| operations of the host on the row | `queue`, `Execute` with one operator per operation |
| the map `sessions` and its runtimes | `current`, `run` |
| `startSession`, `recoverSession` | `Start`, `RecoverSession` |
| `prepareSession`, `ensureCanonicalSession` | `Prepared`, `Look`, `Create`, `Begin`, `Activate`, `Stored` |
| `launchPreparedSession`, before and after `spawnSession` | `Launch`, `Online`, and the ways a launch fails |
| `markRuntimeReady`, `waitForRuntimeReady` | `Ready`, `StartupFails` |
| `handleSessionExit`, `inspectAppServerSessionCompletion` | `Exit`, `Inspected` with `Outcome` |
| `requestRuntimeStop`, `stopSession` | `Stop`, `Forget` |
| `recordSessionTerminalState` | `Released`, `Last`, `Settle`, `PersistenceTimesOut` |
| `close()` or a crash, `recoverInterruptedSessions` | `Crash`, `Restart` |

An attempt is numbered by its preparation and a runtime by its first attempt, so
that an old worker, launch or record keeps the name of what it belonged to. The
result that the host reads from the capture of a worker is a free choice.

### ResearchTrack

| Code | Specification |
|---|---|
| rows of the track and its surfaces | `store`; operations of `ResearchTrackStore` as functions of it: `Synced`, `Finished`, `ReservedNext`, `ReservedWorkers`, ... |
| `scanDueResearchTracks` | `scan`: its phase, and the track it has read |
| stopping and rotating workers | `CheckRuntime`, `Rotate` |
| `dueResearchTracks` up to an await, and after it | `Schedulable`, `Due`; `ContextPauses`, `SurfaceLeft`, `ContextOfOrphan`, `ContextSkips`, `ContextLooks`, `ContextReserves`; `LookupEnded`, `LookupPauses`, `LookupWaits` |
| `prepareSession` of an epoch, `startSession` | `PrepareEpoch`, `StartEpoch`, `LaunchFails` |
| tools of the worker, its exit, its final record | `Checkpoint`, `RowEnds`, `WorkerEnds`, `Record`, `RecordFails` |
| operations of the operator | `Start`, `Resume`, `Pause`, `Stop`, `StopSession`, `Inspect` |
| continuation of a session of the track | `Continue`, `StartContinuation`, `ContinuationFails` |
| restart of the host | `Restart` |

Each await of the scan ends a phase, and the actions of the next phase use the
current rows where the code reads them again and `scan` where it does not.

A worker is that of an epoch (`epoch` of `runtime` and `records`) when its launch
has the mode of a research track, and only the launches of a scan do. The launch
that the host stores with a session (`restartLaunchDescriptor`, `hostService.ts`
2700-2739) has no mode, so a session of the track that is continued
(`createSessionContinuationRequest`, 1197-1207) or recovered (1285, 1309-1313) is
prepared without a look at the assignment and runs as an ordinary session, and
`GuardianEnabledForTrackSession` (2876-2879) is false: a scan takes up a track
that was paused because of an orphan (`IsOrphanPause`) and leaves it as it is.

Which surface is chosen, whether surfaces are cooling down, what the map of the
workspace shows and whether its scope is still authorized are free choices.

## Runs

A run takes between a second and three minutes. Deadlock is checked
except in `Subagents`, `ControlStream` and `Sessions`, whose subject may really
come to an end.

| Run | Specification | Instance | States | Result |
|---|---|---|---|---|
| `wdb_lease` | `Spec` | 2 workers, 1 suspending host operation, 3 requests, 1 time-out, errors that roll back | 5.2 M | holds |
| `wdb_answers` | `FairSpec` | 2 workers, 1 suspending host operation, 2 requests, 1 retry | 133 k | holds |
| `sub_tree` | `Spec` | 2 tasks, 2 threads, depth 2, slow aborts | 1.2 M | holds |
| `sub_scouts` | `FairSpec` | 1 task, 1 scout, 1 thread, prompt aborts | 33 k | holds |
| `pub_recovery` | `Spec` | 1 record, 1 evidence, 1 edit, 2 revisions, 1 crash | 1.6 M | holds |
| `pub_finishes` | `FairSpec` | 1 record, 1 edit, 2 revisions, 1 crash | 53 k | holds |
| `pub_release` | `Spec` | 1 record, 2 revisions | | `ReleasedRowsAreRebuildable` fails |
| `broker_queue` | `FairSpec` | 3 completions, spool of 2, 2 chunks, 1 loss, 1 crash | 577 k | holds |
| `control_boundaries` | `FairSpec` | 3 instructions, 2 removals, 1 of each other control, 1 taker, 1 waiter, memory of 2 | 1.7 M | holds |
| `sessions_launches` | `FairSpec` | 2 attempts, 1 recovery, 1 fault, 1 control record on its way | 780 k | holds |
| `track_scheduling` | `FairSpec` | 1 surface, 2 passes, 2 launches, 3 requests, 1 fault | 277 k | holds |
| `track_workers_only` | `Spec` | 1 surface, 1 pass, no fault | | `ReservedEpochsArePrepared` fails |

**`wdb_lease`** asks whether the lease protects what it should under every
disturbance: a transaction is always covered by the lease and a closed worker
leaves none behind (`LeaseIsRightlyHeld`), a free database has an empty queue
between event-loop turns (`NoStrandedRequest`), and no statement of a worker and
no host operation that the coordinator lets run waits inside SQLite for somebody's
`COMMIT` (`CoordinatedStepsNeverStall`). The host operation of the run suspends in
an await, and the host opens stores without the coordinator at any moment; both
may meet a transaction and do wait (observation 1). Three requests are enough to open a connection, begin
and be interrupted in the middle, for one worker while the other queues;
`COMMIT` and `ROLLBACK` are not counted, so that no transaction is cut off by
the bound.

**`wdb_answers`** asks whether requests get their own answers and everybody is
served when nothing times out: `AnswersMatch`, `TransactionsAreAgreed`,
`EverybodyIsServed`. One buffer size beyond the first makes a read that fits
nowhere, one that fits on the second attempt, and one that fits at once. The
three are stated under the two conditions this run sets and `wdb_lease` does
not: with a time-out, a late answer may be read as the next one, and a `BEGIN` may
be executed after its client gave up; with automatic rollback the lease outlives
the transaction until the worker's own `ROLLBACK` fails. Either lease ends only
when the worker ends another transaction, closes the connection or exits.

**`sub_tree`** gives two agents the whole set of tools, at depth two and with
turns that go on after an abort and may even succeed. `RunningTurnIsLive`: no slot
is held by a session whose turn is over. `LiveTurnsAreShown`: every turn that
works unaborted belongs to a session shown as running, unless an aborted turn of
that session succeeded and hid it. `SleepersHaveAWaker`: an agent in `wait_agent` has
no mail and a running descendant, or a callback is about to wake it.
`StopIsFinal`: a stop, or the failure of the root, aborts every turn that is not
hidden, and afterwards no callback, no round of `settle` and no queue launches
anything; an agent that has not noticed its abort still can (observation 16). Two
launches per session are the least that lets an old turn meet a new one. Scouts
are left to the next run; with one of them in this one, and one ask, all five
properties hold as well (4.5 M states).

**`sub_scouts`** lets a task and a scout compete for one thread, with prompt
aborts. `AnswerIsCurrent` and `NoStrandedScout` are the invariants,
`StopEndsTheRun` is the liveness. One thread makes every start a conflict. One ask
is a message, a follow-up or a host steering at any moment.

**`pub_recovery`** runs every job against every interleaving of typed
operations, edits and one crash. Two revisions tell old content from new, the
record that is not evidence is revised, deleted and imported, the evidence is
pinned. One crash reaches every step; a crash of the recovery itself needs two
and is covered by the proofs: every property of this run is proved for any number
of crashes.

**`pub_finishes`** shows that an interrupted publication is finished and that
released rows return, unless an edit stands in the way.

**`broker_queue`** asks two questions of the spool: whether it keeps the promise of
`ModelBroker` (`KeepsThePromise`), and whether it serves (`WaitingIsServed`).
`SpoolIsSound` says what the files owe each other. Two chunks are the least that
can be mixed, two executions need one lost heartbeat, and three completions in a
spool of two make one that is turned away. A crash after a request file and
before its state file blocks the later requests for good; `WaitingIsServed`
exempts exactly those.

**`control_boundaries`** lets two instructions of equal text, one of them of an
earlier attempt, and one of another text meet a pause, the removal of either of
the equal ones, a repeated line and two kinds of callers. `SteeringIsKeptOnce`
counts deliveries against acceptances, except for texts that the code may lose
altogether (`lost` and `Displaced`, observations 7 and 8). `DeadStreamHoldsNobody`
looks at what a stop or an end leaves behind, `SteeringIsTaken` at whether a
boundary that comes takes what is queued. The stream of the run remembers two controls
where the code remembers 256, so that controls are forgotten; the devices repeat
only those that are not, see [Limits](#limits).

**`sessions_launches`** interleaves a launch with everything that may happen to
its session. `WorkersAreOwned`: at most one worker has not been told to stop, and
it is the one the map of the host leads to. `StopEnds`: a runtime that was told to
stop ends. Two attempts are a start and one of: a recovery, a second start, a
resumption after a crash. The proof covers any number.

**`track_scheduling`** asks whether the scan can be trusted although it awaits.
`EpochsRunAlone`, `OnlyTheOperatorRestarts`, `EpochsAreReleased` and
`StrayWorkersEnd`. The operator may continue a session of the track at any moment
at which it is inactive, also while the track is stopped and another pass begins;
the properties are about epochs, and such a session is none. Two passes are needed because a pass has a session of its
own, so that two workers would really run side by side; three requests are a
start, a stop and a start; the fault is any failing await or a restart.

The two violation runs are described under [Disagreements](#disagreements).

### Fairness

* `WorkerDatabase`: the event loop goes on (`Drain`, `Deliver`, `CloseBroker`), a
  worker whose answer is there wakes (`Receive`, `Retry`), and the body of a
  transaction, straight-line synchronous code, ends in `COMMIT` or `ROLLBACK`. Nothing
  makes a worker ask or exit.
* `Subagents`: timers fire, callbacks of settled promises run, `settle` and the
  code after it go on. Strong fairness on the end of a turn and of the root
  says that every agent loop ends, which the specification takes from the external
  loop and its abort signal. It is strong because a turn may enter and
  leave `wait_agent` meanwhile.
* `WorkspacePublication`: a worker that runs goes on, and a synchronization is
  requested again and again, as each typed mutation and each operation that
  needs released rows does. It is strong because
  nothing can start while a worker runs.
* `ModelBrokerQueue`: callers and primary repeat their calls, the model returns
  (its call has a time limit), the guest handles what reaches it, and a lease that
  nobody renews runs out. Nothing makes a caller ask or a crash happen.
* `ControlStream`: continuations run, and an executor that takes at boundaries
  comes to the next boundary. Devices and waits owe nothing.
* `Sessions`: queued operations run (`EverybodyIsServed` of `WorkerDatabase`), a
  worker comes online or fails to, one that was told to stop is terminated after
  three seconds, and the capture of an exit is read. Nothing makes a
  recovery start: a stop must not depend on it.
* `ResearchTrack`: the timer scans again and every await ends, final records are
  written, and a worker that was told to stop ends. Strong fairness says of an
  epoch that nobody works on that its lookup does not fall within the two
  minutes of grace for ever; it is strong because each scan leaves the lookup and
  comes back to it.

## Proofs

All theorems hold for every value of the constants allowed by the assumptions
named in each module.

### WorkerDatabaseProofs

`TypeCorrect` is inductive by itself, once it says that at most one handle holds
the lease. The safety theorems follow from

    LeaseInvariant == LeaseCoversTransactions /\ LeaseHolderIsOpen  \* LeaseIsRightlyHeld
                   /\ NoStrandedRequest
                   /\ InboxIsOwn             \* a worker's messages are its own
                   /\ QueueIsOpen            \* no queued request outlives its broker
                   /\ CoordinatedStepsNeverStall

* `TransactionsAreLeased`: `[]LeaseIsRightlyHeld`. The coordinator executes a
  request only when the lease is free or its own, so a `BEGIN` meets no other
  transaction, and the lease moves in the same step. That its holder is open
  needs that a closed broker has no request left in the queue: otherwise a
  drain could lease the database to it again.
* `QueueIsDrained`: `[]NoStrandedRequest`.
* `CoordinatorKeepsTheLoopFree`: `[]CoordinatedStepsNeverStall`, whichever
  operations suspend and whenever the host opens a store of its own. The
  coordinator lets something run only while the lease is free or its own, and
  then the lease covers every transaction there is. What goes around the
  coordinator does stall, see the first observation under
  [Disagreements](#disagreements).

What `wdb_answers` checks on runs without time-outs is proved of every run up to
its first time-out, from

    ChannelInvariant == timeouts = 0 =>
                     OneInFlight      \* a waiting worker's request is in its inbox, in
                                      \* the queue or answered, and in one of them only
                  /\ RequestIsOwn /\ BufferIsCurrent /\ AnswersMatch
    AgreementInvariant == ClosedIsGone        \* a broker closes after its worker has gone
                  /\ (timeouts = 0 =>
                        LeaseIsTransaction    \* whoever holds the lease is inside
                     /\ TransactionIsOpen     \* on a connection that is open
                     /\ WorkersKnow           \* what a worker will believe once it has
                                              \* read its answer is the case
                     /\ BoundaryIsAsked)      \* BEGIN outside, COMMIT inside

* `AnswersBelong`: `[](timeouts = 0 => AnswersMatch)`.
* `BeliefsAgree`: `[](timeouts = 0 => TransactionsAreAgreed)`, if `AutoRollback` is
  off. Between the execution of a boundary and the wake-up of its worker the
  database is ahead of the worker, so the invariant is about what the worker is
  about to read. Why both hypotheses are needed is said at `wdb_answers` above.

### SubagentsProofs

    TreeInvariant   == TypeOK /\ RunningTurnIsLive
                    /\ SessionsHaveTurns      \* a session of the map was launched
                    /\ FutureTurnsAreUnused   \* turns beyond the last launch do not exist
    ShownInvariant  == TreeInvariant /\ LiveTurnsAreShown
                    /\ QueueIsFresh           \* queued scouts have never run, and stand in the queue once
                    /\ LaunchedStayKnown      \* who was launched stays in the map

* `TypeCorrect` and `NoSlotIsLost` (`[]RunningTurnIsLive`), whatever aborted
  turns do.
* `EveryLiveTurnIsShown` (`[]LiveTurnsAreShown`) and `StopReachesEveryTurn`
  (`StopIsFinal`, a property of steps), whatever aborted turns do. The proof of
  the first needs that a scout waits in the queue only before its first turn,
  since `Launch` would otherwise give a session a second live turn. The turns it
  excepts are those with an aborted and yet successful predecessor, which are
  hidden for good: `Complete` looks at the status only, and so they really run
  unseen. The second follows from the first at the moment of the stop; afterwards
  `Drain` starts nothing, and `LaunchedStayKnown` tells that a session with a turn
  is never spawned again, so that what is launched is a task that is spawned or a
  session that is continued, by an agent that still acts.
* `NobodySleepsInVain` (`[]SleepersHaveAWaker`), whatever aborted turns do. It is
  inductive with `TreeInvariant`: every step that ends the run of a session wakes
  those who wait, or leaves a callback due that does.
* `QueuedScoutsAreServed` (`[]NoStrandedScout`), whatever aborted turns do, from

      ScoutInvariant == TreeInvariant /\ QueueIsServed
      QueueIsServed  == SessionsStay           \* who was launched stays in the map
                     /\ QueueIsFresh /\ StoppedQueueIsEmpty /\ NoStrandedScout

  A drain that leaves somebody in the queue leaves the threads used up, and a
  thread is given back only by a turn whose `finally` callback drains again.
* `AnswerIsFinal` (`[]AnswerIsCurrent`) under `PromptAbort`, from

      AnswerInvariant == ShownInvariant /\ QueueIsServed /\ AnswerIsReady
                      /\ NothingOverruns   \* with prompt aborts no aborted turn succeeds
      AnswerIsReady   == once settle has returned, no scout is queued and the last
                         turn of every session has run its callbacks; an answer
                         was given on an empty mailbox

  `settle` returns only when its last drain left no promise to wait for. What is
  left are older turns, aborted, and with prompt aborts those send nothing.

### WorkspacePublicationProofs

    PublicationInvariant == TypeOK and Protocol
    Protocol == JournalIsGoal       \* what the worker finishes is what the journal says
             /\ GapsAreJournaled
             /\ PinsExtend          \* journal, goal and publication keep every pin there is
             /\ PublishedIsReadable
             /\ GoalIsKept          \* content the write loop has passed is in publication-content
             /\ LoopsAreSound       \* what the loops have in hand belongs to the goal

None of the three safety properties is inductive alone: after a crash only the
journal knows what the worker was doing, so the invariant must say of the journal
what the worker knew of its goal.

* `TypeCorrect`.
* `IndexIsNeverStranded` (`[]GapsAreJournaled`) and `PublishedContentIsKept`
  (`[]PublishedIsReadable`).
* `EvidenceIsImmutable` (`PinnedEvidenceIsKept`, a property of steps): no step
  moves a pin, what is published for it, or an intact file of it.

Three more invariants are inductive on top of it:

    WorkIsKnown  == every file holds an edit, nothing, or what the publication or the
                    journal says; what a loop has passed holds what the goal says
    EditsAreKept == between check and write no file of the goal holds an edit that
                    the check could see; the file a loop has in hand was copied
    RowsAreKept  == while the cache marker says that the rows are there, the row of a
                    published record is missing only if it was deleted, and only
                    then is anything rendered or journaled

* `HalfDoneWorkIsRecognized` (`[]OwnWorkIsRecognized`). When the state is written
  and the journal dropped, nothing but the new publication accounts for the files,
  so each of them must have been brought to it by then, also when one worker began
  the work and another finished it.
* `EditsAreNotDestroyed` (`EditsSurvive`, a property of steps).
* `OnlyDeletedRowsLeave` (`OnlyForgottenRecordsLeave`, a property of steps).

### ModelBrokerQueueProofs

    Spool == FilesAgree             \* state, request and lease of an id fit each other
          /\ DoneIsWhole /\ RefusedOnlyAtTheLimit      \* SpoolIsSound
          /\ IsFiniteSet(requestFile)

* `TypeCorrect` and `SpoolStaysSound` (`[]SpoolIsSound`). That a caller which lives
  never meets a request without a state needs that the crash which makes one takes
  all callers with it.
* `QueueKeepsThePromise`: `Spec => KeepsThePromise`, the refinement of
  `ModelBroker`. Every step is mapped to `Ask`, `Answer`, `Receive`, `Refuse` or
  `Leave`, or changes nothing the abstract specification sees. A seal is an
  `Answer` only because `RequireLease` refuses a request that is done; a seal that
  a crash cuts short is a `Leave`, since the state file, not the result file, makes
  an answer.

### ControlStreamProofs

`TypeOK` says that no continuation is due while the stream is paused.

    IInv == TypeOK /\ Released
    Released == a stream that ended is not paused, one that is not paused keeps
                nobody waiting for the resumption, and after an end or a stop
                nobody waits for steering and no approval is open

* `TypeCorrect`, and `NobodyIsHeld` (`[]DeadStreamHoldsNobody`). The second is not
  inductive: a pause may follow a stop, and what it lets in must be nobody that an
  end would forget.
* `SteeringIsNeitherLostNorRepeated` (`[]SteeringIsKeptOnce`), from `IInv` and

      SteeringInvariant == CallersAreDue     \* a continuation is due once
                        /\ OneListens        \* of those never abandoned, one at most waits
                        /\ ControlsAreOnce   \* the stream remembers what may be repeated
                        /\ SteeringIsCounted

  `SteeringIsCounted` says of each text that the active instructions with it are
  no more than those queued or delivered, and these no more than those accepted.
  That some instruction with a text is there is not inductive: a removal takes an
  equal text out, so their number has to be counted. An instruction of an earlier
  attempt was never queued in this one, and its removal takes out one that was;
  `Displaced` excepts exactly these texts.

### SessionsProofs

    IInv == TypeOK /\ Host /\ QueueOrder
    Host == Begun           \* what is not begun has left no trace
         /\ OneAtATime      \* a worker, an exit to inspect, a timer: one of them
         /\ LaunchesAlone   \* a launch under way has its runtime to itself
         /\ Owned           \* WorkersAreOwned, said of every worker
    QueueOrder == an operation of a launch is the only one of its launch, and a
                  failed launch is recorded before its runtime goes on

* `TypeCorrect`, and `WorkersAlwaysOwned` (`[]WorkersAreOwned`). A launch looks at the
  map only before and after its awaits; that the runtime it comes back to still has
  no worker is what `LaunchesAlone` adds. `QueueOrder` is needed because a launch
  goes on in the operation that it queued.

### ResearchTrackProofs

    TrackInvariant == Sound(store) /\ Host /\ Bounds /\ ScanTyped
                   /\ Ready        \* the scan knows its track or its session
                   /\ Quiet        \* past its check, it schedules in a quiet workspace
                   /\ EpochsRunAlone

The operations of the store are functions of the rows, so each has a lemma: it
keeps `Sound`, and it does not set a track going that was paused or stopped
(`Calm`). The lemmas of the actions carry both to a step.

* `TypeCorrect`.
* `EpochsNeverOverlap` (`[]EpochsRunAlone`). It rests on `Quiet`: nothing but the
  scan starts the worker of an epoch, it starts the one it prepared before it
  looks again, and continuations and recoveries are no epochs (see
  [ResearchTrack](#researchtrack)).
* `RestartsAreAsked` (`OnlyTheOperatorRestarts`, a property of steps): whatever the
  scan had read before its await, `reserveNext` and `reserveWorkersOnly` look at
  the row again, and the branch that resumes a track after an orphan asks for a
  Guardian that no stored launch reports.
* `AssignmentsAreShown`: `[]ActiveIsAssigned`. A surface is active only while an
  epoch is assigned to it, and an epoch with a surface has a session.

## Disagreements

Two runs whose property TLC finds violated; `PROJECT.json` quotes the lines.

* `pub_release`: a row revised between the publication of a release and the
  pruning of the rows is pruned at a revision that is in no file, while
  `app-server/README.md` says that the rows are restored from the files.
* `track_workers_only`: an epoch reserved for finding workers alone has no
  surface, `prepareSession` refuses a session without one (`hostService.ts` 960),
  and the scan pauses the track. The comment of `reserveWorkersOnly`
  (`research-track.ts` 517) says that such an epoch keeps finding work moving.

### Observations

Behaviour of the models, and of the code they follow, that a reader of the code
may not expect. No text of the repository contradicts most of it, so it has no
run; the properties above say what holds around it.

1. An operation that went through `runWhenAvailable` and suspended in an await
   uses the database later without the lease; the event loop may then wait inside
   SQLite for a worker whose `COMMIT` it would have to deliver
   (`workerDatabaseBroker.ts` 70). The same holds for the stores of tracks and of
   their findings, which the host opens without asking the coordinator
   (`hostService.ts` 1288, 1362, 1452, 1667, 1680, 1794).
2. After a time-out the client keeps its response buffer, and a late answer is
   returned as the result of the next operation (`workerDatabaseClient.ts` 65).
3. The `then` callback of an aborted turn that still succeeds marks the session's
   next turn as completed (`subagent-runtime.ts` 1239). That turn then runs unseen
   by the limit, by interrupts and by a stop.
4. A follow-up after the last message boundary of a turn is reported as delivered
   and is neither read nor starts a turn (`subagent-runtime.ts` 937).
5. A spawn that is assigned to an untouched surface starts the scout of that
   surface on the last thread before its own child counts
   (`subagent-runtime.ts` 889); the thread limit is exceeded by one.
6. A request whose guest died between its request file and its state file is never
   executed, and every poll that comes to it fails before it reaches the requests
   that sort after it (`fleetModelBrokerQueue.ts` 52).
7. A wait for steering that was abandoned while the stream was paused takes the
   queue when it is resumed, and what it takes is lost (`claude-agent-executor.ts`
   554, `control-stream.ts` 169).
8. Removing an instruction takes the first equal text out of the queue, which may
   be another instruction (`control-stream.ts` 327). If it is an instruction of an
   earlier attempt, the queue loses one that was never removed.
9. A user's stop during the preparation of a recovery is recorded and then
   overwritten by the transitions the preparation still makes (`appServer.ts` 1623).
   The worker does stop (`StopEnds`); the row may say active or failed.
10. The final record of an old attempt is read and written in two operations, and a
    transition of a newer attempt in between is overwritten (`session-store.ts`
    1328).
11. The writer of a session is registered by session: the exit of an older launch
    removes the registration of a newer worker (`hostService.ts` 1126).
12. `pauseWithError` of a scan that read the track before its await turns a track
    that was stopped meanwhile into a paused one; the next start is then refused
    until the track is stopped again or resumed (`research-track.ts` 401, 297).
13. A scan reserves under the track id it read before its await. If the track was
    stopped and a new pass started meanwhile, the new pass runs its first epoch in
    the session of the old one. A test of the store
    (`tests/research-track.test.mjs` 694) expects a session of its own for each
    pass, which holds for the store alone.
14. All epochs of a pass share a session id, so a final record that timed out and
    comes late ends the epoch that runs by then.
15. The launch that is stored with a session has no mode (`hostService.ts`
    2700-2739, where it is written: 2268, 2314), so every question for a stored
    mode is answered with no. The host does not close an epoch with its checkpoint
    at a restart (1287), no Guardian reviews an orphan, neither when it is found
    (1515) nor later (1488-1496), and a session of a track that is recovered or
    continued is an ordinary one: it needs no assignment (957-962), is not checked
    against the track (`appServer.ts` 1164), does not make its workspace busy
    (1186-1189), so that it may run beside an epoch, and its final record ends no
    epoch (`hostService.ts` 1795-1800). `app-server/README.md` 28 says of an orphan
    that the next epoch reviews it; the tests put the mode into the descriptor by
    hand (`tests/research-track.test.mjs` 57-61).
16. An agent that has not yet noticed its abort can spawn a task or continue a
    session after the host stopped the run: `sendMessage` and `spawn` look at the
    thread limit and not at the stop (`subagent-runtime.ts` 785, 922), and nothing
    aborts what they launch.

## Limits

**Checked, not proved.** Liveness and the fairness it rests on, in every module:
`EverybodyIsServed`, `StopEndsTheRun`, `PublicationFinishes`, `IndexComesBack`,
`WaitingIsServed`, `SteeringIsTaken`, `StopEnds`, `EpochsAreReleased`,
`StrayWorkersEnd`. Every other property that a run finds to hold is proved,
invariants and properties of steps alike, and so is the refinement
`KeepsThePromise`; some under hypotheses, which [Proofs](#proofs) names.

**Abstracted.** Statement texts, prompts, messages and documents are identities.
A revision stands for the content of a row. Time-outs are choices, and clocks do
not appear. Writes to one file are single steps, also those the code does not
make atomic (`writeFileSync` to `publication-content`). In `ModelBrokerQueue` an
absent part file and an empty one are the same, a heartbeat reaches the guest
only while the primary still works on its request, and a call that the primary
relays to a further host is a call. In `ControlStream` a device repeats a control
only while the stream remembers it, since fewer than 256 others are accepted
between a lost acknowledgement and the reconnection. In `Sessions` an operation on
the row succeeds or refuses, equal final records count once, and the flag of an
interrupted recovery is left out. In `ResearchTrack` a row that says blocked has
ended, time is a choice between the outcomes that depend on it, the recovery at
startup is one step, and the memory of the workspace is on or off as the step
likes; the row of an orphan is looked up in the same step as its context. In
`ControlStream` every line is whole: the host writes no line without its end, so
the last line that `handleEnd` would take up (280-282) is left out.

**Bounds.** `MaxRequests`, `MaxTimeouts`, `MaxConnection` and `MaxGeneration`;
`MaxLaunches` and `MaxAsks`; `MaxRevision` and `MaxCrashes`; `MaxLosses`;
`MaxAttempts`, `MaxPendingControls` and `MaxFaults`; `MaxTracks` limit only what actors choose to begin
or what goes wrong, never what the code does in response. The fault bound of
`Sessions` and `ResearchTrack` is one: it reaches every failing path, and
combinations of failures are covered by the proofs of safety, which hold for any number.
`MaxThreads`, `MaxDepth`, `MaxChildren`, `MaxContinuations`, `MaxStored`,
`Remembered` and `MaxRecoveries` are limits of the program itself, smaller in a run
than in the code.
Identities of deleted records are not used again, as in the code, where they are
random.

**Deadlock** is not checked in the runs of `Subagents`, `ControlStream` and
`Sessions`: a session really ends, and with it every step.

**Not modelled in the core.** Of the subagent runtime: breakout rooms, the
narrower advanced mode, and what happens when launching or focusing throws. Of
publication: topic snapshots and the edits they trust, retained raw artifacts
and their quarantine, the maintenance lock between processes, the restoration
of workspace metadata, and the host's gate as more than one step. Of the broker:
registration and tokens, size limits, an id that is used again with other
content. Of the control stream: the configuration of model and safety, and
runbooks. Of sessions: errors of the database inside one operation, sessions
that run on a guest. Of tracks: ranking, cooldowns and scores, which finding
worker gets which finding, and a launch that a client itself gives the mode of a
research track. Components outside the core are listed above
with the reason in `PROJECT.json`.

## Plan

More of the system, most important behaviour first:

1. `DiscoveryLock` (`discovery.ts`, `restartSupervisor.ts`): two hosts and a stale
   lock; the maintenance lock of a workspace has the same shape.
2. The goal runtime (`goal-runtime.ts`), whose changes belong to turns of
   `Subagents` and whose continuations take their place among the boundaries of
   `ControlStream`.
3. Torn writes and the restoration of metadata in `WorkspacePublication`.
4. Life cycles of findings and claims, and fleet reservations, whose long copies
   run outside the lock.
5. The assignment of finding workers (`track-funnel`) in `ResearchTrack`.

Theorems to add come with these modules: that one host at a time owns the lock,
that a continuation starts no turn of a session that was stopped, and that a
restored workspace has the metadata of its publication.
