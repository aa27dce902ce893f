# Gismind Runtime: TLA+ specifications and proofs

Gismind is a single-user, agent-driven GIS runtime.  A request becomes a *run*;
a language-model planner drafts a plan; the compiler turns the draft into a
directed acyclic graph of *tasks*; a durable queue in SQLite hands the tasks to
a worker, which runs each in a child process and commits its outputs.
Everything the user can ask for afterwards (confirm a side effect, cancel,
resume, recover) is a command on the same tables.

The modules here specify the part where the system can go wrong in ways that
tests hardly reach: who may write which row, when, and what is true whatever
the order.  Paths below are relative to `src/backend/app/` of the repository.

## 1. Inventory

| Component | State | Operations | Interacts with |
|---|---|---|---|
| Durable queue (`runtime/queue.py`, `RuntimeQueue`; `runtime/store.py`; `runtime/db.py`) | rows of `runs`, `tasks`, `task_attempts`, `task_confirmations`, `task_outputs` | `enqueue_run`, `claim_next`, `heartbeat`, `schedule_retry`, `release`, `recover_expired_leases`, `abandon_worker_claims`, status updates with transition tables | every other component, through one SQLite database |
| Task executor (`runtime/executor.py`) | none of its own: a claim (task, owner, token, generation) | start, handler, validating, commit or failure; each write is fenced | queue, artifact store |
| Supervisor (`runtime/queue.py`, `RuntimeSupervisor`) | one worker thread, child processes, claims in memory, stop events | `run_once`, `_run_isolated`, `worker_loop`, two-phase cancel, start and stop | queue, executor, planner; API threads call it too |
| Planner lease (`claim_planning_run`, `heartbeat_planning`, `_plan_once`, `activate_compiled_plan`) | planner owner, token, generation and expiry on the run; `planner_attempts` | claim, heartbeat, activate, pause for a question, reject, release | supervisor, compiler, commands |
| Commands (`api/runtime.py`, `store.py`) | `run_commands`, run versions | confirm, resume, cancel, recover; replay by command id | queue, supervisor |
| Artifact store and collector (`runtime/artifacts.py`) | content-addressed files, staging, leases, artifact rows | stage, publish, repair, quarantine, candidate manifest, two-stage confirmation | commit transaction, uploads |
| Event log and SSE (`store.py` `_append_event_conn`, `api/runtime.py` `_event_stream`, `frontend/src/hooks/useRuntimeRun.ts`) | per-run sequence number, events, client cursor | append in the caller's transaction, replay, tail, reconnect | all writers, the browser |
| Worker lock (`runtime/supervisor.py`) | lock and guard files | acquire, take over, release | standalone worker |
| Compiler (`runtime/compiler.py`, `contracts.py`) | none: the registry of contracts | draft to plan: catalog, ports, references, cycle, types, CRS, parameters, deliveries | planner, executor |
| LLM planner (`runtime/llm_planner.py`, `planning_control.py`, `goal_requirements.py`) | one conversation: requests made, the budget, the deadline | post, retry, fall back, repair; boundary of a draft; demands of the request | planner lease, compiler |
| Tool handlers and postconditions (`runtime/tool_handlers.py`, `postconditions.py`, `tools/`) | none: payloads in, payloads out | one handler per operation, the verification of its result | executor, artifact store |
| Process control, code-mode sandbox, migrations, frontend views, acceptance scripts | data and operating-system calls | | |

### What is hard here

* **Interleaving.**  The worker thread, child processes, API threads and a
  second worker write the same rows.  Each method is one `BEGIN IMMEDIATE`
  transaction; nothing orders the methods against each other.
* **Preemption and late writers.**  Leases expire by the clock.  A holder that
  lost its lease does not know it, and a child process may outlive its parent.
* **Crashes and restarts.**  A worker can die between any two transactions;
  for side effects the outcome is then unknown.
* **Retries.**  The budget is counted by three independent queries.
* **Cancel in two phases.**  The run is reserved, the children are killed, the
  run is finalized, or declared indeterminate when a child resists.
* **Stale reads.**  The supervisor reads a status in one transaction and acts
  on it in another.
* **Unreliable clients.**  A command is sent again when its answer is lost; an
  event stream breaks and resumes; a proxy repeats frames and old snapshots.
* **Late answers.**  A language model answers when the lease it was asked under
  is gone and the run was cancelled, answered or planned by someone else.
* **Two stores, one transaction.**  Files are moved while a database transaction
  is open and are not rolled back with it; a collector removes them.
* **Claims about data.**  What system the coordinates are in is a label that
  every step must carry on correctly; the compiler predicts it, the handler
  computes it, the postcondition and the store check it.

`PROJECT.json` lists each hazard at its line, with the property that covers it.

### What makes each component correct

* *Queue and executor*: only the newest attempt of a task can commit; nobody
  publishes without a live lease; tasks run after what they depend on; a run's
  final status is true; what is over stays over; retries stay in their budget;
  no row combination exists from which no query ever picks a task up.
* *Supervisor*: it lives through every business failure; a cancelled run has no
  running child; every run whose tasks can progress ends.  A paused run goes on
  by a word of its user, or by a worker that has a claim on another of its tasks
  and read the status before the pause (section 6).
* *Planner lease*: a run gets one plan, for everything its user said, from the
  last holder of the lease; no attempt stays open; a run is not left unplanned.
* *Commands*: at most one effect per command id; what a client is told about its
  command is so; a cancellation that began ends, and leaves nothing to execute.
* *Artifact store*: a referenced blob exists; the outputs of a task appear
  together with its success; what the collector confirms is garbage.
* *Events*: the view of a browser is a state the run was in, across lost,
  repeated and stale answers, and the end of the run reaches who watches.
* *Compiler and planner*: an accepted plan can be run to its end, asks nothing
  that is still open, and does what the request demands on the records that are
  delivered.
* *Handlers and postconditions*: published coordinates are in the system their
  metadata names.

## 2. Plan

| Step | Module | Contents | State |
|---|---|---|---|
| 1 | `TaskQueue` | the durable rows and every transaction on them | done |
| 2 | `MCTaskQueue` + cfgs | small instance, safety run and two divergence runs | done |
| 3 | `TaskQueueProofs` | inductive invariant; all seven invariants and three action properties | done |
| 4 | `Supervisor`, `MCSupervisor` + cfgs | worker thread, children, two-phase cancel, crash and restart over `TaskQueue`; safety, liveness, two divergence runs | done |
| 5 | `SupervisorProofs` | types and control invariant of the supervisor; every step of it is a step of `TaskQueue`; no unconfirmed effect | done |
| 6 | `Planning`, `MCPlanning` | planning claims, attempts, the threads of `_plan_once`, activation, cancel and resume meanwhile | done |
| 7 | `RunLifecycle`, `RunCommands`, `MCRunCommands` | what a run promises its user; commands with ids, digests and versions that implement it | done |
| 8 | `Artifacts`, `EventStream`, `MCEventStream` | blobs, rows, publication, collector; snapshot, stream and browser on top of it | done |
| 9 | `Contracts`, `Goals`, `Compiler`, `Drafting`, `Handlers`, `Workflow`, `MCWorkflow` | from a request by way of a draft and a plan to published results | done |
| 10 | `SupervisorSafetyProofs` | `CommitIsNotJudged`, `DeadWorkerHoldsNothing`, `SideEffectRunsOnce`, `CancelAfterHandlers` | done |
| 11 | `PlanningProofs`, `RunCommandsProofs` | every invariant and action property of the two, and the refinement of `RunLifecycle` | done |
| 12 | `EventStreamProofs`, `EventHistoryProofs` | every invariant and action property of store and stream, `ViewIsHistory` last | done |
| 13 | `WorkflowProofs` | `PublishedIsTrue`, operation by operation, `PlanRunsThrough`, over the order of the tasks, and `GoalIsCarried`, along the ways of a plan | done |
| 14 | `TaskLifecycle` | what one task promises (wait, run, finish once), above `TaskQueue` | planned |
| 15 | `WorkerLock` | the lock and guard files | planned |

How the modules fit together:

    RunLifecycle                           TaskQueue  <== TaskQueueProofs
        ^ implements                           ^ extends, implements
    RunCommands <== RunCommandsProofs      Supervisor <== SupervisorProofs
                                                          <- SupervisorSafetyProofs

    Planning    <== PlanningProofs         Artifacts
                                               ^ extends
                                           EventStream <== EventStreamProofs
                                                           <- EventHistoryProofs

    Contracts, Goals <- Compiler <- Drafting <--+
    Contracts        <- Handlers <--------------+-- Workflow <== WorkflowProofs

`Supervisor` adds program counters to `TaskQueue`, so that each of its steps is
at most one `TaskQueue` action taken at a point of the program.  `RunLifecycle`
has no leases, workers or commands; `RunCommands` implements it under the
refinement mapping at its end.  `EventStream` composes the store with the server
and the browser that watch it.  `Workflow` composes everything a draft passes
through on its way to results.  The modules meet at tables, each seeing in short
what another has in detail: `Planning` has one step for a cancel or an answer that
`RunCommands` takes apart; `RunCommands` has one step for planning, one task in
full and, of the other tasks of the plan, what their workers do to the run;
`Artifacts` has the claims of a task without the budgets and policies of
`TaskQueue`; `Workflow` plans once and executes each task once.

## 3. TaskQueue: the durable queue

### Correspondence

One action per method.  A method is one transaction (`RuntimeStore.transaction`),
hence one atomic step.

| Variable | Columns |
|---|---|
| `runStatus`, `resumed` | `runs.status`; whether a resume command advanced `runs.input_revision` |
| `taskStatus`, `blockedReason` | `tasks.status`, `tasks.blocked_reason` (only the reasons the code reads back) |
| `generation`, `leaseOwner`, `lease` | `tasks.lease_generation`, `lease_owner`, `lease_expires_at` against the clock |
| `attempt` | `task_attempts.status` by lease generation; one row per claim |
| `confirmed`, `produced` | `task_confirmations` with status confirmed; tasks with `task_outputs` rows |

| Action | Method |
|---|---|
| `ClaimNext` | `claim_next` (its first statement, `recover_expired_leases`, is a transaction of its own) |
| `RecoverExpiredLeases` | `recover_expired_leases` with `_promote_due_retries_conn` and the aggregation at its end |
| `ScheduleRetry`, `Release`, `AbandonWorkerClaims` | the methods of those names |
| `EnqueueRun`, `AggregateRun` | `resolve_task_inputs`, `aggregate_run_terminal` |
| `AdvanceRun`, `ExecutorStartTask`, `BeginValidating`, `CommitValidatedTask`, `FailTask`, `FailAttempt` | the fenced writes of supervisor and executor |
| `ConfirmTask`, `ApplyCancelCommand`, `FinalizeCancelCommand`, `MarkCancelIndeterminate`, `ApplyResumeCommand` | the commands |
| `LeaseExpires` | the clock; a successful heartbeat is a stuttering step |

`HolderStep(t, g)` is everything the holder of claim `g` of task `t` may do.
The holder is left completely free: any action, at any time, for any generation
that was ever handed out, repeatedly.  So the module covers live workers,
children that outlived their parents and workers preempted long ago at once,
and every safety property holds for whatever order the supervisor uses.

Abstractions: tokens are unique, so owner and token match exactly when the
generation does and the lease was not cleared (`FenceHolds`).  Every binding to
an upstream port is required and resolves when that upstream published.  Times
become "live", "expired" and "abandoned".  `resolve_task_inputs` visits tasks in
the order of random ids, so which descendants of a failure one pass reaches is
a choice (`Cascade`).

### Runs

| Run | Shows |
|---|---|
| `queue_safety` | one type invariant, six safety invariants, three action properties over all interleavings |
| `queue_confirmation` | a divergence: `resolve_task_inputs` makes an unconfirmed side-effect task ready |
| `queue_parked` | a divergence: `POST /recover` can put a task with an unknown outcome back to ready without a decision |

Bounds: three tasks in a chain (`fetch` retryable with two attempts, `derive`
idempotent with one attempt and an output that may be empty, `publish` a side
effect), one run, two workers, three claims per task.  The three tasks cover
the classes the code distinguishes; a chain of three has a direct and an
indirect dependency; two workers give a preempted and a preempting holder; three
generations let a task use its budget of two and be claimed once more after a
resume.  `MaxGeneration` bounds `ClaimNext` alone.  Runs do not share tasks and
no transaction but recovery touches two of them, so one run suffices for TLC;
the proofs cover any number.  `CHECK_DEADLOCK FALSE`: the system may come to
rest with every run final.

No fairness is assumed and no liveness is claimed for this module.

### Findings in the queue

* *Readiness without confirmation.*  `activate_compiled_plan` leaves a
  side-effect task blocked, but `_plan_once` then calls `enqueue_run`, whose
  `resolve_task_inputs` (`runtime/store.py:1334`) makes every blocked task with
  succeeded dependencies ready, confirmed or not.  The executor later refuses
  to call the handler (`CONFIRMATION_REQUIRED`) and fails the task, so nothing
  unconfirmed is done; but the user is never given the chance to confirm.
* *Recovery without decision.*  By the same line a task parked under
  `SIDE_EFFECT_OUTCOME_UNKNOWN` or `CANCELLATION_DECISION_REQUIRED` becomes
  ready when `_finalize_run_if_terminal` runs for its paused run.

## 4. Supervisor: who calls what, and when

`Supervisor` EXTENDS `TaskQueue`.  `TaskQueue` lets every holder do anything at
any time; `Supervisor` keeps the order of the code, what the code remembers
between two transactions, and the processes themselves.

### Correspondence

| Variable | Program |
|---|---|
| `worker`, `started` | the `worker_id` of the running process; the ids used so far (each process takes a fresh one) |
| `stopping` | `_shutdown_event` |
| `due` | tasks in `retry_wait` whose `next_retry_at` lies in the past |
| `th` | the worker thread: a program counter and the locals that outlive a transaction |
| `child[t][g]` | the child process of attempt `g` of task `t`: how far `RuntimeExecutor.execute` got, or the result it left; `by`: the process it belongs to; `known`: `executor_identity` names it |
| `request[s]` | what an API thread (`"api"`) or `recover_cancelling_runs` (`"boot"`) is in the middle of |
| `effects` | history: how often the handler of a side effect was invoked |

The locals in `th`: `task`, `gen` (the claim), `walk` (the statuses
`_ensure_run_running` still has to write), `stale` (the claim that `run_once`
kept has outlived its own `lease_expires_at`, although heartbeats renewed the
row), `code` (error code of the exception), `current` (`claim_current`), `left`
(the runs still to settle), `then` (where to go afterwards).

| `th.pc` | Point of the program |
|---|---|
| `boot`, `recover`, `terminal` | `worker_loop` before its loop: `recover_cancelling_runs`, `recover_expired_leases`, `_recover_terminal_runs` |
| `poll`, `claim`, `idle` | one turn of the loop: look at the stop event and recover, `claim_next`, wait |
| `ensure`, `walk`, `start` | `run_once` before the child: `_ensure_run_running`, `executor_start_task` |
| `spawn`, `identify`, `watch` | `_run_isolated`: start the child, `set_executor_identity`, the polling loop with its kills |
| `finish` | release after a success |
| `judge`, `decide`, `put_back`, `fail_attempt`, `fail_task`, `drop`, `report`, `raise` | the exception handler of `run_once`, one transaction each; at `raise` `worker_loop` classifies what was raised again |
| `settle`, `resolve`, `aggregate` | `_finalize_run_if_terminal` for the runs in `left` |
| `dying`, `hand_over`, `dead` | the `finally` block of `worker_loop`: `abandon_worker_claims`, recovery, settling |

Each action is at most one transaction of `TaskQueue`, so API requests, children
and the clock can come between any two.  A child takes the steps `ChildCheck`,
`ChildInvoke`, `ChildValidate`, `ChildCommit`; it may fail or die in each.  A
child may outlive the process that started it (`ProcessEnds`): only a Windows
Job Object ties the two together.  Cancelling is `CancelRequest`, `ReadActive`,
one `TerminateRunProcesses` step per process, `ConcludeCancel`.

### Runs

| Run | Instance | Shows |
|---|---|---|
| `supervisor_safety` | `fetch` (retryable) feeds `publish` (side effect); confirm and cancel | `CommitIsNotJudged`, `DeadWorkerHoldsNothing`, `CancelAfterHandlers` |
| `supervisor_effect` | `publish` alone; all four commands | `SupTypeOK`, `SideEffectRunsOnce`, `EffectNeedsConfirmation`; `Spec`: the supervisor only takes steps of `TaskQueue` |
| `supervisor_liveness` | `fetch` alone; cancel and recover; `FairSpec` | `CancelConverges`, `RunSettles` |
| `supervisor_retry` | as before, without fairness | a divergence: a scheduled retry ends the worker thread |
| `supervisor_shutdown` | as before, without fairness | a divergence: a graceful stop fails a task that its policy would retry |

The run with `Spec` ties the two modules: what `queue_safety` and the proofs say
of every order of transactions holds of the orders the supervisor produces.

Bounds:

* Two worker ids, hence one crash or stop and one restart.  The second process
  meets everything the first left behind: claims, orphans, a cancellation cut in
  two.  A third one meets nothing new, because a restart keeps only the tables
  and the orphans.
* `MaxGeneration = 2`: a first attempt and a retry or recovery.
* One API request at a time, beside the boot-time cancellation and the thread.
  Two concurrent requests exclude each other by `BEGIN IMMEDIATE` except inside
  the two-phase cancel, which the second slot runs concurrently.
* One run and at most two tasks.  The thread serves one claim at a time, so
  another run adds waiting only.
* `Commands` differs per run, to keep each state space below six million.

`CHECK_DEADLOCK FALSE`: a dead thread whose process is not stopped, or a run
that is final, is a legitimate end.

Merged: `start()` and `worker_loop` both run `recover_cancelling_runs`; the model
runs it once.  Not modelled here: `_plan_once` (module `Planning`), in-process
execution (`isolate_tasks` false, used by tests), a standalone worker beside the
API process, kills that take several polls.  `Watch` may give up on a child for any
of the parent's reasons (timeout, shutdown, cancellation, resource limit) whatever
the child has done by then, also after its last word.

### Fairness

`FairSpec` assumes weak fairness of the thread, of each request, of a restart and
of the exit of a finished process: the operating system does not suspend them for
ever.  A lease nobody heartbeats expires and a retry falls due: the clock
advances.  `IdleRecover` is strongly fair: an idle loop calls
`_recover_terminal_runs` once per second by its own clock, whatever it polls in
between.  Children are owed nothing, since `task_timeout` is a step of the thread.
A crash or a stop is never forced.

`RunSettles` excuses runs whose worker thread is dead, because nothing starts the
thread again; the two divergence runs say when that happens without a stop.

### Findings in the supervisor

* *A scheduled retry ends the worker thread.*  `_run_isolated` heartbeats its own
  copy of the claim.  When it raises, `run_once` has the first copy, whose
  `lease_expires_at` is over after one lease (30 seconds by default).
  `schedule_retry` only compares the token and succeeds; the `release` that
  follows compares the expiry too, is refused, and turns the business error into
  one `worker_loop` does not pass over (`runtime/queue.py:1815`, `2054`).
* *A graceful stop fails the task it interrupts.*  The comments say that a stop
  goes through the same policy as a lost lease; `run_once` fails the attempt and
  the task before `abandon_worker_claims` can see them (`runtime/queue.py:1807`).
* A cancellation that lands between `claim_next` and `_ensure_run_running` ends
  the thread too, by a `ValueError` (`EnsureRunRunning`, `Die`).  There is no
  separate run for it: it is the same promise as in the first finding.

## 5. Planning: who may give a run its plan

### Correspondence

| Variable | Program |
|---|---|
| `run` | `runs`: status, `run_version`, `input_revision`, planner owner, generation, and `planner_lease_expires_at` against the clock |
| `attempts` | `planner_attempts.status` by generation and `attempt_no` (1 the draft, 2 its repair) |
| `plans` | the rows of `plans` in the order of their activation, with the revision and the generation they were made under |
| `th[w]` | the planning thread of process `w`: where `_plan_once` is, its claim, the revision `_planner_request` read, the error it is about to report |
| `stopping`, `trouble` | shutdown events; crashes and shutdowns so far |
| `retaken` | history: generations that a restarted process of the same name took back |

One action per transaction of `_plan_once`, named after the method:
`ClaimPlanningRun` (afresh, or a claim taken back), `PlannerRequest`,
`CreatePlannerAttempt`, `CallPlanner`, `PlannerAnswers` (with `CompileDraft`),
`CloseForRepair`, `FinishAttempt`, `ActivateCompiledPlan`, `EnqueuePlan`, and the
two handlers at its end, `CloseAttempt` with `PausePlanning` or `RejectPlanning`.
Between any two of them the lease may run out, the user may cancel or answer, the
process may stop or die, and another worker may claim the run.  What the provider
says and the compiler finds is a choice; module `Workflow` says which choices there
are.  A refusal carries the code of its error; `PLAN_COMPILE_FAILED` stands for all
of them except `WORKER_SHUTDOWN`, which is the only one that is treated differently.

A crash either leaves a name nobody bears (`DeadName`) or one the successor bears
again: the standalone worker is named after its process id, and process ids recur.

### The run `planning`

`NoOpenAttemptLeft` (a `planner_attempts` row is open only under the current lease),
`CallIsRecorded` (whoever waits for a provider under a valid lease has an open
row), `PlanIsCurrent` (one plan, for everything the user said, from the last
lease) and `PlanningSettles` (a queued or planning run gets a plan, asks, or ends).

Bounds: two workers, one of which reuses its name; three claims; two input
revisions; one crash or stop.  Two claims are needed for a late answer to meet a
successor, the third for a successor of the successor, or for another claim after
an answer of the user.  What makes a claim necessary (expiry, crash, answer)
happens only while one is left, so that the bound never looks like a deadlock of
the program.  `CHECK_DEADLOCK FALSE`: a run that is ready, failed or cancelled has
nothing more to be planned.

Fairness: each process runs and is started again, and the lease of a dead owner
expires.  The lease of a living owner need not expire, and a client need not send
anything.  `PlannerAnswers` is part of the fair process because every request has
a timeout and the conversation a deadline.

`NoOpenAttemptLeft` excepts the generations in `retaken`: a process that comes
back under its old name while its lease lives takes the claim back, is refused
attempt 1 by `UNIQUE(run_id, lease_generation, attempt_no)`, rejects the run
(`Refuse`), and leaves the old row open.

## 6. RunLifecycle and RunCommands: what a client may rely on

`RunLifecycle` is the promise, without leases, workers or commands: a run thinks,
asks, works by one plan made for all it was told so far, stops when told to, and is
over once.  An answer needs a question and makes exactly one new input.  A question
that planning asked waits for its answer; one that came up while working, when the
run has a plan, may be `Overtaken` by work that was under way.

That is as much as the code keeps.  `_ensure_run_running` (`runtime/executor.py:181`)
reads the status of the run once and then writes what was left to write;
`RUN_TRANSITIONS` allows `ready` and `running` over `awaiting_input`.  So a worker
that has just claimed one task of a plan takes a run back to `running` that the
recovery of another task has parked meanwhile, without an answer.  The state diagram
of the document (`docs/GIS_Runtime_技术架构与实施规格.md:447-452`) has only an answer
and a cancellation lead out of `awaiting_input`.

`RunCommands` is how the API keeps it: cancel, resume and confirm, sent any number
of times, on concurrent connections, with bodies that differ, to processes that die.

| Variable | Program |
|---|---|
| `run`, `task` | status, revision and planned revision of the run; one task of its plan and its confirmation |
| `walk` | what the worker of another task of the plan still has to write, after it read the status of the run (`WalkFrom`) |
| `commands`, `lastCancel` | `run_commands` by `command_id`: recorded response and digest of the body; the newest cancel |
| `seen` | the `expected_run_version` a client attached to a command: none yet, still the current one, or outdated |
| `req[r]` | the handler on connection `r`: before its transaction, between reserving and concluding a cancel, before `enqueue_run`, or done with an answer |
| `proc[p]` | off, in `recover_cancelling_runs`, or up |

`Receive` is the look-up of the handler, `ApplyCancel`, `Kill`, `Conclude`,
`ApplyResume`, `ApplyConfirm` and `Enqueue` its transactions and calls in their
order; `Boot`, `RecoverCancelling` and `Crash` are the life of a process; `Plan`
and `Work` put in short what planner and worker do to the run and the task, and
`Others` what the workers of other tasks do to the run.

### The run `commands`

| Property | Says |
|---|---|
| `EveryAnswerIsARevision` | each resume command that requeued the run made one revision, the others none |
| `CancelledRunIsQuiet` | nothing of a cancelled run is left to execute |
| `AnswersAreTrue` | what a client is told at the end of its request is so, whoever else acted on the command in between: after a success the command is recorded as it was sent, a cancel has ended the run or asked its user, an approval stands; a refusal of a command that is recorded as it was sent is never one of an answer, and is one of a cancel only when the cancellation has been concluded |
| `KeepsPromise` | the refinement of `RunLifecycle`, by `PhaseOf` |
| `CancellingEnds` | a cancellation is concluded whoever dies |

A repeated cancel may be refused: when it has killed the children and someone else
has concluded meanwhile, it is told `RUN_NOT_CANCELLING`
(`api/runtime.py:516-522`).

Bounds: an API process and a standalone worker, which also recovers cancellations;
two connections; one id of each kind, which every connection may send again with
any body; three revisions; one crash.  `MaxRevision` bounds the answers that requeue
the run and nothing else, so that answers are repeated and raced after they had
their effect, and the run may ask again.  `Versioned` names the commands a client
may attach an expected version to, the cancel and the answer.  These are 2.65 million
states.  Two connections are what a race of a command
with its repetition or with another command takes; a third one would wait for the
same `BEGIN IMMEDIATE`.  Ids do not interact, except through the run, and are
covered by repeating one with another body.  `CHECK_DEADLOCK FALSE`: a run that is
over and clients that are silent are a legitimate end.

Fairness: a request that was received is served to its end, and a process is
started again and boots.  Nobody has to send anything, plan or work.

## 7. Artifacts and EventStream: what is stored and what is seen

### Correspondence

`Artifacts`: `db` is the committed database (artifact rows, references from tasks,
leases of the collector, run, task, claim, event log), `txn` the copy an open
transaction works on, `blobs` and `mtime` the files, `child[k]` the process of
attempt `k`, `gc` the collector.  Files are put in place by `PublishOutput` while
the transaction is open; `CommitTask` makes all rows, events and the success
visible at once; `PublishOutputFails`, `PublishStale` and `Crash` roll the rows
back and leave the files, or move them to quarantine unless a row has their hash.
What `_mark_failed` does afterwards are four transactions: `CheckClaim`,
`LookAtTask`, `MarkFailed` (fenced) and `TellFailure`, which has no fence.  A recovery
can come in between, and `task.failed` then stands in the log of a task that waits to
be retried, or after the end of the run.
`UploadFile`, `DeclareCrs` (a second row for the same blob) and `AttachTaskInput`
are the other users of the store.  The collector deletes nothing: it lists
candidates, leases each in a transaction, and `confirm_candidate_manifest` looks
twice (`StageOne` without, `StageTwo` within a transaction) before it hands the
manifest to an operator.

`EventStream` adds `server` (the generator of `_event_stream` and its cursor),
`wire` (frames on their way), `client` (the state machine of `useRuntimeRun.ts`
with its projection) and `cached` (the last snapshot a proxy holds).  `Poll` and
`CheckTerminal` are the loop of the generator; `GetSnapshot`, `OpenStream`,
`Receive`, `Refresh` and `Reconnect` the hook; `Disconnect`, `LoseFrame`,
`RepeatFrame` and `Offline` the network.

### The run `publication`

| Property | Says |
|---|---|
| `RowHasBlob` | no committed row refers to a missing file, though files are moved inside transactions that fail or crash, and are shared by content |
| `OutputsAppearTogether` | all outputs of a task, their events and its success appear in one step |
| `ConfirmedIsGarbage` | what the collector confirms has no reference, by content, in any committed row |
| `ViewIsHistory` | the tables are what the log says, and the projection in the browser is the state the run had when its log was that long, whatever was lost, repeated or stale |
| `NoTailLost` | the server ends a stream only after the whole log of a run that is over |
| `WatcherSettles` | who watches a run that is over learns it |

Bounds: two contents (equal or different outputs), two ports, two attempts.
Instead of one product of all faults there are six worlds (`MCEventStream`), each
with a budget of crashes, refused rows, uploads, disk damage, collections, watchers
and network faults: a collector needs no browser, and a browser sees of the store
only its log.  Together they contain every action.  `CHECK_DEADLOCK FALSE`: when
the budgets are spent and nobody watches, the system rests.

Fairness: the generator and the hook run; nothing else has to happen, and the
network may fail as long as its budget lasts.

`ConfirmedIsGarbage` is about the moment of confirmation.  A publisher may use the
blob again afterwards; the manifest is for an operator, who looks again.

`ViewIsHistory` says less of the status of the task than of the rest (`Heard`): it is
what the last event about the task told, or the row after it.  Two things keep it
from being the row.  `task.failed` comes from the unfenced append and may tell a
failure the row never had; the replay (`RowStatus`) passes over it, since
`task.status_changed` tells what the fenced write did.  And the hook has no entry for
`task.lease_expired`, by which the last expiry of a lease fails a task.  Either is put
right by the next snapshot.

## 8. Workflow: from a request to true results

### The modules

| Module | Models |
|---|---|
| `Contracts` | the registry: ports, outputs, parameter rules, defaults and policies of every operation, as one record each |
| `Goals` | `validate_goal_requirements`: what the request demands, held against a compiled plan: obligations, alternatives, numbered stages with one or more requirements each, native delivery, and independent instructions, which have all of these for themselves |
| `Compiler` | `Compiler.compile` as an operator from a draft and the artifact lookup to tasks, a question or a refusal; every check in the order it is made, since the first one decides the code |
| `Drafting` | the conversation with the provider: requests, retries, the fallback without extensions, the one repair, budget and deadline; the boundary a draft passes |
| `Handlers` | what each operation does to coordinates, when it refuses, and what postconditions, executor and store require of its result |
| `Workflow` | one run: `Post`, `Expire`, `Submit`, `GiveUp`, then `Execute` for the tasks that are ready |

| Variable of `Workflow` | Program |
|---|---|
| `talk` | the state of the conversation: waiting for a provider, answered, ended; draft or repair; requests and retries used |
| `draft`, `plan` | what was submitted last, and the compiler's verdict on it |
| `published`, `failed` | the artifacts of the tasks that succeeded; the error codes of those that did not |

Coordinates are abstracted to a *frame*, the system the numbers really are in.
Beside it a payload has what the code can see: the CRS it is written with, the
GCJ02 label, the kind of bytes.  A conversion made for another frame leaves the
numbers "astray".  So the model can tell what the program cannot: whether the label
is true.  A postcondition that works the result out again from the inputs is
modelled by what it can find, a number of another frame.  Values of parameters are
the classes a rule tells apart.  What the data decides (no rows, an unreadable
file) is a choice (`luck`).

### The run `workflow`

| Property | Says |
|---|---|
| `PublishedIsTrue` | published coordinates are in the system their metadata names, along every chain of operations |
| `PlanRunsThrough` | an accepted draft asks nothing; each of its steps is a task whose turn comes unless something it reads from fails; what the compiler lets through, the gate before the handler does |
| `GoalIsCarried` | each demand of the request is met on every way records can take from the upload to the delivery, stages in their order, and independent instructions have results of their own |

`Ways`, `Carries` and `Answers` state `GoalIsCarried` by enumerating paths and by
Hall's condition, and share nothing with the sets `Goals` propagates or the
assignment it searches.

Instance: a library of 16 artifacts (files with, without and with a declared CRS,
a broken one, layers in four systems, rasters, places, a table) and families of
drafts, each the full product of what it varies: every operation on every fitting
input under every CRS parameter; every faulty parameter; every pair of a maker and
a reader, the other ports bound before and after it; graphs with one thing wrong at
a time, in every order of the steps; 304 small plans against 25 demands; native
rasters; forks; drafts only the boundary stops.  Two operations in a row suffice
for the coordinates, because a handler sees of its past only the artifact before
it, and the library holds one of each class; for longer chains there is the theorem
of section 9.  The conversation has a budget of
three requests and one retry per call: enough to run out of either, and for a
repair after a retry.  `CHECK_DEADLOCK FALSE`: a run ends when nothing is ready.
No fairness is assumed; that ready tasks are taken up is `TaskQueue`'s and
`Supervisor`'s business.

### Exceptions in the properties, and what they stand for

* `PublishedIsTrue` excepts "misstated" numbers: `vector.convert_datum` and
  `coordinate.convert` believe the `source_crs` of the plan, and the postcondition
  recomputes with the same one.  It also excepts places: `poi.search` returns
  GCJ02 positions and its result is published under the CRS of its location.
* `PlanRunsThrough` excepts the form of ports that take many: a lone reference
  that is in no list, or a reference to all outputs inside a list, compiles and is
  refused at the gate.
* `GoalIsCarried` excepts two requests for which the code looks no further: a single
  demand when nothing is delivered (`goal_requirements.py:720`) need only be met by
  some task, and without a demand for work (`:702`) numbered stages are not looked
  at.  Native delivery makes every final task a delivery.  Groups always keep to the
  original input, as `build_goal_requirements` sets it (`:517`).
* Some plans compile and can only fail, always before the result in question is
  published:
  `vector.isochrone` (it insists on GCJ02 and does not label its result),
  `vector.reproject` to a target written as an object other than the EPSG kind, an
  empty list for `reproject_many`, a contour interval that is not positive, layers
  of different physical systems in `vector.merge` or as first and last port of a clip (the
  compiler declares the CRS of the last, the handler keeps that of the first).

## 9. What is proved

### The queue

`TaskQueueProofs` proves every property of `queue_safety` for all runs, tasks,
dependency relations (acyclic or not), workers, retry policies and bounds on
generations.  The only assumptions are `TaskQueueAssumption`: the constants are
functions and sets of the right types, and a budget is at least 1.

The invariants are not inductive one by one.  `IInv` joins them with four facts:

* `RowsAgree`: the row of a task and its attempts agree (`AttemptFollowsTask`,
  `NewestCounts`, `NoneLeftOpen`).  Without it a claim could reopen an old
  attempt, and closing "the open attempts" would not close the right ones.
* `ParkedTaskStarted`: a task a resume command decides about was started, hence
  (by `DependencyOrder`) has its dependencies committed, so that resuming it to
  ready breaks no order.
* `StrandedRunIsQuiet`: a run with an active task without a lease has no live
  claim.  Without it a holder could walk such a run from `awaiting_input` back to
  `running`, an entry of the transition table.
* `SpentTaskWaits`: a task without budget that is not running waits in a run that
  cannot be claimed from and has no live claim, until a resume command.  Without
  it the budget would be broken by an ordinary claim.

One lemma per conjunct (`TypeStep`, `RowsAgreeStep`, `DependencyStep`,
`ParkedStep`, `StrandedStep`, `FinalRunStep`, `SpentStep`, `BudgetStep`), each
with a step per action; `NextIInv` joins them.  `FinalTaskStep`,
`ClosedAttemptStays`, `FinalRunStays`, `PublishStep` and `StoppedRunStep` give the
action properties.  `IInv` was also checked by TLC on the instance above.

### The supervisor

`SupervisorProofs` rests on the same assumptions and needs none about `Commands`,
`NoTask` or `NoRun`.  Its inductive invariant `SupIInv` joins `IInv` with the
types of the new variables and three facts:

* `ThreadKnows`: wherever `run_once` uses its claim it has one, of an existing
  task and a generation that was handed out; while a run is being settled there
  is one to settle, and the place to return to is one the code has.
* `RequestsKnow`: a request that is being handled is about a run.
* `ConfirmedEffects`: a child past its checks whose task is a side effect was
  confirmed.  Confirmations are never taken back (`UndoneByNobody`), which is
  what makes the check in the child good for the later call of the handler.

The lemmas follow the module: what a move (`GotoFits`, `SettleFits`, ...) leaves
in `th`; one lemma per action of the thread that it fits (`...Fits`); that each
step is a transaction of `TaskQueue` (`...IsNext`); that children keep their shape
and pass their checks only by `ChildCheck`; requests; start and end of the
process.  `SupNextIInv` joins them.

| Theorem | Says |
|---|---|
| `SupervisorImplementsQueue` | `SupSpec => Spec`: all that is proved of the queue is proved of the supervisor |
| `SupTypesKept` | `SupSpec => []SupTypeOK` |
| `NoEffectWithoutConfirmation` | `SupSpec => []EffectNeedsConfirmation` |

`SupIInv` was also checked by TLC, on the instance of `supervisor_effect`.

### The safety of the supervisor

| Theorem | Says |
|---|---|
| `CommitsStand` | `SupSpec => []CommitIsNotJudged` |
| `DeadWorkersLetGo` | `SupSpec => []DeadWorkerHoldsNothing` |
| `EffectsHappenOnce` | `SupSpec => []SideEffectRunsOnce` |
| `CancellationsWaitForHandlers` | `SupSpec => CancelAfterHandlers`, an action property |

None of the four is inductive, and each relates rows, thread, children and
requests.  `SupervisorSafetyProofs` therefore first says, once for all actions,
what a transaction may do to the rows (`Harmless`, or else `Advancing`,
`Claiming`, `Committing`), how a child ages (`Aging`, with `Spawning`, `Passing`
and `Invoking` for the three steps that matter) and where the thread gets to
(`Moves`).  The steps of `SafetyIInv` are cases of these and not of thirty actions.
`SafetyIInv` is `SupIInv` and four groups:

* `JudgedRight`: a child exists only for an attempt that was started, where the
  thread has not spawned the child yet there is none, and where it judges the
  child is gone (`ThreadIsAlone`).  An attempt that succeeded did so by a commit of
  its child, so it was not the one judged.
* `HandedOver`: a thread that is ending, also by way of settling a run, holds no
  active task and makes no claim any more.
* `OnceOnly`: a run whose side effect may be under way is not taken for one that
  has not begun (`BegunRunsKnown`, `WalkedRunNotBegun`), and the attempt that
  invoked the handler is the last one unless the run stands still or was resumed
  (`EffectsOnce`).  This is what makes an expired lease or a lost worker end in
  `indeterminate` and not in a second invocation.
* `Cancellations`: what is cancelled has no new claims (`NewestHeld`), and every
  handler that could still commit is on the list of whoever terminates the
  processes until it is killed or its survival is noted (`TodoFits`), for the
  API's cancellation and for the one a restart repeats (`BootFits`).

### Planning

`PlanningProofs` proves the four invariants of the run `planning`, for all workers
and bounds.  `PlanningIInv` adds what the holder of a lease knows:

* `HolderKnowsOpen`: under a valid lease the only attempt that can be open is the
  one the holder is busy with.  Without it `NoOpenAttemptLeft` breaks at the
  release of the lease.  It has the exception the code has, a generation taken back
  by a process with the name of its predecessor.
* `CallStaysRecorded`: from the insertion of an attempt until the answer its row is
  there, as long as the fence holds.
* the revision a thread works for was read, so `PlanIsCurrent` compares real ones.

`PlanningTypeCorrect`, `AttemptsAreClosed`, `CallsAreRecorded` and
`PlanStaysCurrent` follow.

### Run commands

`RunCommandsProofs` proves the three invariants, the action property and the
refinement of the run `commands`, for any number of requests, processes and
commands.  `CommandsIInv` says that a task belongs to a plan, that the version of
the input is one more than the number of answers that requeued the run, that the
last cancel is a cancel, and that a request under way is about a command and not
refused.  `AnswersTellTheTruth` (`Spec => AnswersAreTrue`) needs two facts more
(`AnswersFit`): a request past its transaction has its command recorded as it was
sent, and a recorded approval stands.  For `RunKeepsPromise` there is one lemma per
group of steps of `RunCommands`, which says which action of `RunLifecycle` each of
them is, or that it stutters; that only a run with a plan is walked (`WalkFits`) makes
the walk of a parked run an `Overtaken`.

### Store, stream and browser

The first half of `EventStreamProofs` has the invariant of the store, `StoreIInv`,
and its steps; the second joins it with the shape of server, wire and client to
`EventStreamIInv`.  What the store needs beside its properties:

* what holds of the database also in the middle of a transaction (`DatabaseFits`:
  the log announces every output once, the end of the run is written with its
  event), and what only holds of a committed one (`CommittedFits`);
* that an open transaction can be rolled back at any time (`OpenFits`): it has
  taken no file from a committed row, and it publishes port by port.

| Theorem | Says |
|---|---|
| `StreamTypeCorrect` | `Spec => []StreamTypeOK` |
| `RowsHaveBlobs` | `Spec => []RowHasBlob` |
| `OutputsAreAtomic` | `Spec => []OutputsAppearTogether` |
| `CollectorIsSafe` | `Spec => ConfirmedIsGarbage` |
| `StreamsEndInOrder` | `Spec => NoTailLost` |
| `ViewsAreHistory` | `Spec => []ViewIsHistory` |

`ViewIsHistory` compares a projection with a replay of the log, a recursive
function of its length.  `EventHistoryProofs` shows that the recursion defines what
it says for every length (`ReplayExists`, `FoldReplays`): it applies induction to a
set of numbers instead of a predicate (`SetInduction`, from the well-foundedness of
the natural numbers), which the provers can instantiate.  `HistoryIInv` then says
that the tables, also of an open transaction and also when a failure is told late,
are the replay of their log, that a log only grows, and that every projection, the
client's or a proxy's, remembers a prefix of it (`Remembers`, with `Heard` for the
task); a repeated frame is dropped by its identifier, and applying the next one
extends the prefix by one.

The inductive invariants named here were tried with TLC before they were proved, on
instances like those of the runs (hundreds of thousands of states for
`PlanningIInv`, millions for `CommandsIInv` and `SafetyIInv`, those of the run
`workflow` for `WorkflowIInv`, `PlanStands` and `PlanCarries`).

### Results of a run

`WorkflowProofs` proves `PublishedIsTrue`, `PlanRunsThrough` and `GoalIsCarried`,
for any set of drafts, any library and plans of any size and shape.  Two assumptions say what a
run starts from:

* `DraftsAssumption`: a draft has the shape the schema of the planner's answer
  demands (keys, each port bound once, to one reference or to a list, what it asks
  the user).  Nothing is said of what its steps do; refusing nonsense is the
  compiler's business.
* `LibraryAssumption`: every artifact there is before the run is `Sound`, its
  numbers are where its metadata, or the CRS its user declared, says.  For uploads
  this is what the program has to believe, it has no other source; for rows of
  earlier runs it is what the theorem concludes about this one.

Both are evaluated by TLC in the run `workflow`.  For `PublishedIsTrue` the argument
goes backwards from a published artifact:

* `HandledSound`: every operation turns sound inputs into results that are sound
  or that executor or store refuse.  One lemma per family of operations (loads,
  conversions, selections, analyses, merges, rasters, searches, exports), over what
  conversions and labels do to a payload.  `Suits` states once what these lemmas
  need of the registry, and `ContractSuits` shows it for all its contracts.
* `GivenFed`, `FrozenFor`: a task whose turn has come is given, at each port, sound
  artifacts of a type the port accepts, and the CRS it is frozen with is that of
  what it reads, where the handler relies on it.
* `TasksGood`: so is every task of a plan.  It is an induction along the loop of
  the compiler, which rests on the topological order: each producer comes before
  its readers, and is itself good (`PlanGood`).
* `BoundedSteps`, `CanonicalSteps`: the boundary and the renaming of ports keep
  the shape of the steps.

`WorkflowIInv` adds to `PublishedIsTrue` that the plan is good and that an artifact
carries exactly the type and CRS its task was frozen with.  The recursive
definitions of `Compiler` are shown to define what they say with the same
`SetInduction` as in `EventHistoryProofs`.

`PlanRunsThrough` rests on the same order.  `OrderIsComplete` counts: when the loop
of `_topological_step_order` does not get stuck, it has every step once, so every
step of the draft is a task.  `AncestorsClosed` shows what the recursive function
`Ancestors` is on an ordered plan; of the open ancestors of a task the first in the
order reads only from tasks that have succeeded or failed (`TurnComes`).
`GateIsOpen` sets the compiler's checks of a reference against the gate's check of
what it resolved to.  `PlanStands` adds to the invariant that plan and draft belong
together.

`GoalIsCarried` is about paths, and the code never looks at one.

* `PlanInduction`: what holds of a task whenever it holds of the tasks it reads
  from holds of all, along the order of the plan; `PlanRecursion` shows with it
  that a function defined from the values at the producers exists and is unique.
  So `Ways`, `Guaranteed`, `InOrder`, `Lineage` and `Ancestors` are what their
  definitions say on every plan that compiles.
* `GuaranteeHolds`: what the code has intersected from the upstream tasks is met
  on every way to a task; `StagesHold` does the same for the stages, where it also
  builds the positions that are in order.
* `RequirementsChecked` reads off the chain of checks what an accepted plan has
  passed.  `ValidCarries` lifts it from the part of a plan a result is made by, in
  which the code checks a group, to the whole plan.
* `GroupsAnswered`: the assignment the code finds is injective, so restricted to any
  set of slots it maps them one to one into the results that answer them, which are
  at least as many.  Only this half of Hall's theorem is needed.

`PlanCarries` adds to the invariant that the plan was accepted against the demands
of the draft it belongs to.

### Not proved

`CancelConverges`, `RunSettles`, `PlanningSettles`, `CancellingEnds` and
`WatcherSettles` are liveness and out of the prover's reach, like `ENABLED` (which
`ReleaseRefused` uses; no proof looks inside it): they stay with TLC.  Every
invariant and every action property a passing run checks is a theorem.  The four
divergences are counterexamples.

## 10. Not modelled

* Of the queue: heartbeat intervals, input-binding conflicts (`aggregate`
  bindings), cache hits, the one-phase `cancel_run` of `RuntimeQueue` that only
  tests call.  A resume after an indeterminate cancel, which can leave the run
  without a way to complete (`runtime/store.py:1880`), is a hazard without a
  property: `RunSettles` is checked without resume commands.
* Of the compiler: hashes, resource budgets, and the insertion of reprojections,
  which the runtime leaves off.
* Of the planner: prompts, the catalog of candidate operations, and the reading of
  demands and facts out of sentences.  `Goals` starts from the demands, and takes the
  spellings of one comparison that `attribute.filter` treats alike
  (`goal_requirements.py:634-652`: `==` for `=`, a `negate` that is left out, a null
  that is rejected and its complement) for one value.
* Of the tools: geometry, pixels and attributes, which are numerical code on
  library types.  What a postcondition requires of them holds or is an error by
  choice.
* Of the store: pins and cache entries, which nothing in production creates, and
  the inspection of file contents.  The task whose outputs `Artifacts` publishes is
  not a side effect; one that is, and is parked by recovery (`queue.py:573-575`, `624`),
  is in `TaskQueue`, `Supervisor` and `RunCommands`.
* The worker lock and its guard file: several workers may run in `TaskQueue`,
  `Planning` and `Supervisor`, which do not rely on the lock.
* The code-mode sandbox, schema migrations, sessions, rendering in the browser and
  the offline acceptance scripts.

The components table in `PROJECT.json` gives the reason for each part.
