------------------------------ MODULE TaskQueue ------------------------------
(***************************************************************************)
(* The durable task queue of the Gismind Runtime: the rows of the tables   *)
(* runs, tasks, task_attempts, task_confirmations and task_outputs, and    *)
(* the transactions of runtime/queue.py and runtime/store.py that change   *)
(* them once a plan has been activated.                                    *)
(*                                                                         *)
(* Every method of RuntimeQueue and RuntimeStore runs inside one SQLite    *)
(* BEGIN IMMEDIATE transaction, so every method is one atomic action here. *)
(* Nothing orders the methods against each other: a claim holder may be a  *)
(* live worker, a child process that outlived its parent, or a worker that *)
(* was preempted long ago, and the commands of the API arrive at any time. *)
(* What protects the rows from a late holder is only the fence, that is    *)
(* the lease generation a holder presents against the generation and the   *)
(* lease in the row.  Module Supervisor adds who calls what and when.      *)
(***************************************************************************)
EXTENDS Integers, FiniteSets

CONSTANTS
    Runs,            \* runs with an activated plan
    Tasks,           \* the tasks of all active plans
    RunOf,           \* [Tasks -> Runs], tasks.plan_id -> plans.run_id
    Deps,            \* [Tasks -> SUBSET Tasks], task_dependencies
    Workers,         \* lease owners: one id per worker process
    NoWorker,        \* lease_owner IS NULL
    SideEffect,      \* tasks with side_effect: confirmation is required
    Idempotent,      \* tasks whose frozen contract says idempotent
    MayBeEmpty,      \* tasks with empty_policy = "allow"
    OutputOptional,  \* ... all of whose ports have min_items = 0
    MaxAttempts,     \* [Tasks -> Nat], RetryPolicy.max_attempts
    Retryable,       \* [Tasks -> SUBSET ErrorCodes]
    MaxGeneration    \* bound: claims of one task that are explored

ErrorCodes == {"TIMEOUT", "LEASE_EXPIRED", "WORKER_LOST"}

ASSUME TaskQueueAssumption ==
    /\ RunOf \in [Tasks -> Runs]
    /\ Deps \in [Tasks -> SUBSET Tasks]
    /\ SideEffect \subseteq Tasks
    /\ Idempotent \subseteq Tasks
    /\ OutputOptional \subseteq MayBeEmpty
    /\ MayBeEmpty \subseteq Tasks
    /\ MaxAttempts \in [Tasks -> Nat \ {0}]
    /\ Retryable \in [Tasks -> SUBSET ErrorCodes]
    /\ MaxGeneration \in Nat \ {0}
    /\ NoWorker \notin Workers

Generations == 1 .. MaxGeneration

-----------------------------------------------------------------------------
(***************************************************************************)
(* The status vocabularies and transition tables of store.py.              *)
(***************************************************************************)
RunStatuses == {"queued", "planning", "awaiting_input", "ready", "running",
                "cancelling", "completed", "failed", "cancelled"}

RunTransitions ==
    [s \in RunStatuses |->
        CASE s = "queued"         -> {"planning", "failed", "cancelling"}
          [] s = "planning"       -> {"awaiting_input", "ready", "failed", "cancelling"}
          [] s = "awaiting_input" -> {"queued", "ready", "running", "cancelling"}
          [] s = "ready"          -> {"running", "failed", "cancelling"}
          [] s = "running"        -> {"completed", "failed", "cancelling", "awaiting_input"}
          [] s = "cancelling"     -> {"cancelled"}
          [] OTHER                -> {}]

FinalRun == {"completed", "failed", "cancelled"}

Active == {"leased", "running", "validating"}
Final  == {"succeeded", "failed", "cancelled"}
TaskStatuses == {"blocked", "ready", "retry_wait"} \cup Active \cup Final

(* "absent": no task_attempts row with that lease generation yet.  Queue   *)
(* claims insert their attempt as "leased" and the executor closes it from *)
(* "running", so "queued" and "validating" attempts do not occur.          *)
OpenAttempt == {"leased", "running", "retry_wait"}
AttemptStatuses == {"absent"} \cup OpenAttempt \cup Final

(* The only blocked_reason values the code ever reads back.                *)
Reasons == {"none", "SIDE_EFFECT_OUTCOME_UNKNOWN",
            "CANCELLATION_OUTCOME_UNKNOWN", "CANCELLATION_DECISION_REQUIRED"}

(* lease_expires_at against the clock.  "abandoned" is an expiry that      *)
(* abandon_worker_claims moved to now, with error_code WORKER_LOST.        *)
Leases == {"none", "live", "expired", "abandoned"}

VARIABLES
    runStatus,      \* runs.status
    resumed,        \* runs whose input_revision a resume command advanced
    taskStatus,     \* tasks.status
    blockedReason,  \* tasks.blocked_reason
    generation,     \* tasks.lease_generation = number of attempts so far
    attempt,        \* task_attempts.status by task and lease generation
    leaseOwner,     \* tasks.lease_owner
    lease,          \* tasks.lease_expires_at
    confirmed,      \* tasks whose pending confirmation was confirmed
    produced        \* tasks with rows in task_outputs

vars == <<runStatus, resumed, taskStatus, blockedReason, generation, attempt,
          leaseOwner, lease, confirmed, produced>>

TypeOK ==
    /\ runStatus \in [Runs -> RunStatuses]
    /\ resumed \in SUBSET Runs
    /\ taskStatus \in [Tasks -> TaskStatuses]
    /\ blockedReason \in [Tasks -> Reasons]
    /\ generation \in [Tasks -> 0 .. MaxGeneration]
    /\ attempt \in [Tasks -> [Generations -> AttemptStatuses]]
    /\ leaseOwner \in [Tasks -> Workers \cup {NoWorker}]
    /\ lease \in [Tasks -> Leases]
    /\ confirmed \in SUBSET SideEffect
    /\ produced \in SUBSET Tasks

-----------------------------------------------------------------------------
(***************************************************************************)
(* State functions shared by the transactions.                             *)
(***************************************************************************)
TasksOf(r) == {t \in Tasks : RunOf[t] = r}

(* Mutation of DepsSucceeded: a dependency that is merely over will do.    *)
DepsOver(t) == \A d \in Deps[t] : taskStatus[d] \in Final

DepsSucceeded(t) == \A d \in Deps[t] : taskStatus[d] = "succeeded"

(* Every binding to an upstream port is required: it resolves when that    *)
(* upstream published an output.                                           *)
InputsResolved(t, outputs) == Deps[t] \subseteq outputs

(* The attempt row of the current lease generation.                        *)
CurrentAttempt(t) ==
    IF generation[t] = 0 THEN "absent" ELSE attempt[t][generation[t]]

(* Mutation of CloseAttempts: the status filter of the UPDATE is missing.  *)
CloseEveryAttempt(t, from, s) ==
    [g \in Generations |-> IF attempt[t][g] = "absent" THEN "absent" ELSE s]

(* UPDATE task_attempts SET status=s WHERE task_id=t AND status IN from    *)
CloseAttempts(t, from, s) ==
    [g \in Generations |-> IF attempt[t][g] \in from THEN s ELSE attempt[t][g]]

(* Mutation of FenceHolds: the expiry of the lease is not looked at.       *)
FenceWithoutExpiry(t, g) ==
    /\ g = generation[t]
    /\ lease[t] # "none"
    /\ taskStatus[t] \in Active \cup Final
    /\ attempt[t][g] # "absent"

(* The fence every write of a claim holder checks inside its transaction.  *)
(* The token is unique per claim, so owner and token match exactly when    *)
(* the generation does and the lease has not been cleared.                 *)
FenceHolds(t, g) ==
    /\ g = generation[t]
    /\ lease[t] = "live"
    /\ taskStatus[t] \in Active \cup Final
    /\ attempt[t][g] # "absent"

HoldsClaim(t, g) == FenceHolds(t, g) /\ taskStatus[t] \in Active

-----------------------------------------------------------------------------
(* activate_compiled_plan: a plan becomes executable, all or nothing.      *)
Init ==
    /\ runStatus = [r \in Runs |-> "ready"]
    /\ resumed = {}
    /\ taskStatus = [t \in Tasks |->
           IF Deps[t] # {} \/ t \in SideEffect THEN "blocked" ELSE "ready"]
    /\ blockedReason = [t \in Tasks |-> "none"]
    /\ generation = [t \in Tasks |-> 0]
    /\ attempt = [t \in Tasks |-> [g \in Generations |-> "absent"]]
    /\ leaseOwner = [t \in Tasks |-> NoWorker]
    /\ lease = [t \in Tasks |-> "none"]
    /\ confirmed = {}
    /\ produced = {}

-----------------------------------------------------------------------------
(***************************************************************************)
(* Dependency resolution and run aggregation.                              *)
(***************************************************************************)

(* The tasks one pass of resolve_task_inputs cancels.  The pass visits the *)
(* tasks once, in the order of their random ids, so it reaches some of the *)
(* descendants of a failed task and leaves the others for the next pass.   *)
Cascade(r, C) ==
    LET Broken(t, X) ==
            \E d \in Deps[t] : taskStatus[d] \in {"failed", "cancelled"} \/ d \in X
        Pending == {t \in TasksOf(r) : taskStatus[t] \notin Final}
    IN  /\ C \subseteq Pending
        /\ \A t \in Pending : Broken(t, {}) => t \in C
        /\ \A t \in C : Broken(t, C)

(* enqueue_run: resolve_task_inputs over the plan of the run.  A blocked   *)
(* task whose inputs are all there becomes ready whatever blocked it.      *)
EnqueueRun(r) ==
    \E C \in SUBSET TasksOf(r) :
        /\ Cascade(r, C)
        /\ LET Visited == {t \in TasksOf(r) \ C : taskStatus[t] \in {"blocked", "ready"}}
               Waiting == {t \in Visited : ~DepsSucceeded(t)}
               Promoted == {t \in Visited \ Waiting :
                               taskStatus[t] = "blocked" /\ InputsResolved(t, produced)}
               NoInput == {t \in Visited \ Waiting :
                               taskStatus[t] = "blocked" /\ ~InputsResolved(t, produced)}
           IN  /\ taskStatus' = [t \in Tasks |->
                      IF t \in C THEN "cancelled"
                      ELSE IF t \in Waiting THEN "blocked"
                      ELSE IF t \in Promoted THEN "ready" ELSE taskStatus[t]]
               /\ blockedReason' = [t \in Tasks |->
                      IF t \in C \cup Waiting \cup Promoted \cup NoInput
                      THEN "none" ELSE blockedReason[t]]
        /\ UNCHANGED <<runStatus, resumed, generation, attempt, leaseOwner,
                       lease, confirmed, produced>>

(* aggregate_run_terminal over the statuses st of the tasks of r.          *)
HasOutputs(t) == t \in produced \/ t \in OutputOptional

(* Mutation of Aggregated: missing outputs are overlooked.                 *)
AggregatedWithoutOutputs(r, rs, st) ==
    IF \/ rs \in FinalRun \cup {"cancelling", "awaiting_input"}
       \/ TasksOf(r) = {}
       \/ \E t \in TasksOf(r) : st[t] \notin Final
    THEN rs
    ELSE IF \E t \in TasksOf(r) : st[t] = "failed" THEN "failed"
    ELSE IF \E t \in TasksOf(r) : st[t] = "cancelled" THEN rs ELSE "completed"

Aggregated(r, rs, st) ==
    IF \/ rs \in FinalRun \cup {"cancelling", "awaiting_input"}
       \/ TasksOf(r) = {}
       \/ \E t \in TasksOf(r) : st[t] \notin Final
    THEN rs
    ELSE IF \E t \in TasksOf(r) : st[t] = "failed" THEN "failed"
    ELSE IF \E t \in TasksOf(r) : st[t] = "cancelled" THEN rs
    ELSE IF \A t \in TasksOf(r) : HasOutputs(t) THEN "completed" ELSE "failed"

AggregateRun(r) ==
    /\ runStatus' = [runStatus EXCEPT ![r] = Aggregated(r, @, taskStatus)]
    /\ UNCHANGED <<resumed, taskStatus, blockedReason, generation, attempt,
                   leaseOwner, lease, confirmed, produced>>

-----------------------------------------------------------------------------
(***************************************************************************)
(* The queue: claims, retries, recovery.                                   *)
(***************************************************************************)
(* Mutation of Unclaimable: the claim query forgets a pending cancel.      *)
UnclaimableOnceOver == FinalRun \cup {"awaiting_input"}

Unclaimable == FinalRun \cup {"cancelling", "awaiting_input"}

(* claim_next returns a claim its caller already holds before it takes a   *)
(* new one.                                                                *)
LiveClaims(w) ==
    {t \in Tasks : /\ leaseOwner[t] = w
                   /\ lease[t] = "live"
                   /\ taskStatus[t] \in {"leased", "running"}
                   /\ runStatus[RunOf[t]] \notin Unclaimable}

Claimable(t) ==
    /\ taskStatus[t] = "ready"
    /\ runStatus[RunOf[t]] \notin Unclaimable
    /\ DepsSucceeded(t)
    /\ \A g \in Generations : attempt[t][g] \notin OpenAttempt

ClaimNext(w, t) ==
    /\ LiveClaims(w) = {}
    /\ Claimable(t)
    /\ generation[t] < MaxGeneration
    /\ taskStatus' = [taskStatus EXCEPT ![t] = "leased"]
    /\ generation' = [generation EXCEPT ![t] = @ + 1]
    /\ attempt' = [attempt EXCEPT ![t][generation[t] + 1] = "leased"]
    /\ leaseOwner' = [leaseOwner EXCEPT ![t] = w]
    /\ lease' = [lease EXCEPT ![t] = "live"]
    /\ UNCHANGED <<runStatus, resumed, blockedReason, confirmed, produced>>

(* schedule_retry, as run_once calls it: only for an idempotent task.      *)
ScheduleRetry(t, g, code) ==
    /\ t \in Idempotent
    /\ HoldsClaim(t, g)
    /\ attempt[t][g] \in {"leased", "running"}
    /\ code \in Retryable[t]
    /\ generation[t] < MaxAttempts[t]
    /\ taskStatus' = [taskStatus EXCEPT ![t] = "retry_wait"]
    /\ blockedReason' = [blockedReason EXCEPT ![t] = "none"]
    /\ attempt' = [attempt EXCEPT ![t][g] = "retry_wait"]
    /\ UNCHANGED <<runStatus, resumed, generation, leaseOwner, lease,
                   confirmed, produced>>

(* Mutation of Release: an active claim is released too.                   *)
ReleaseWhileActive(t, g) ==
    /\ g = generation[t]
    /\ lease[t] = "live"
    /\ leaseOwner' = [leaseOwner EXCEPT ![t] = NoWorker]
    /\ lease' = [lease EXCEPT ![t] = "none"]
    /\ UNCHANGED <<runStatus, resumed, taskStatus, blockedReason, generation,
                   attempt, confirmed, produced>>

(* release: gives the lease up once the claim's outcome is durable.        *)
Release(t, g) ==
    /\ g = generation[t]
    /\ lease[t] = "live"
    /\ taskStatus[t] \notin Active
    /\ taskStatus[t] = "retry_wait" => attempt[t][g] = "retry_wait"
    /\ taskStatus[t] \in Final => attempt[t][g] \notin OpenAttempt
    /\ leaseOwner' = [leaseOwner EXCEPT ![t] = NoWorker]
    /\ lease' = [lease EXCEPT ![t] = "none"]
    /\ UNCHANGED <<runStatus, resumed, taskStatus, blockedReason, generation,
                   attempt, confirmed, produced>>

(* How recover_expired_leases classifies one expired claim.                *)
FailureCode(t) ==
    IF lease[t] = "expired" /\ CurrentAttempt(t) = "leased"
    THEN "LEASE_EXPIRED" ELSE "WORKER_LOST"

RetryableLoss(t) ==
    \/ FailureCode(t) \in Retryable[t]
    \/ FailureCode(t) = "LEASE_EXPIRED" /\ "WORKER_LOST" \in Retryable[t]

(* Mutation of RecoveryStatus: the last attempt is counted too late.       *)
RecoveryStatusOffByOne(t) ==
    IF t \in SideEffect THEN "blocked"
    ELSE IF /\ t \in Idempotent
            /\ RetryableLoss(t)
            /\ generation[t] <= MaxAttempts[t]
         THEN "retry_wait" ELSE "failed"

RecoveryStatus(t) ==
    IF t \in SideEffect THEN "blocked"
    ELSE IF /\ t \in Idempotent
            /\ RetryableLoss(t)
            /\ generation[t] < MaxAttempts[t]
         THEN "retry_wait" ELSE "failed"

LostClaims(Rs) ==
    {t \in Tasks : /\ taskStatus[t] \in Active
                   /\ lease[t] \in {"expired", "abandoned"}
                   /\ RunOf[t] \in Rs}

(* Mutation of RecoveredAttempts: an attempt that never started is missed. *)
RecoveredIfStarted(t) ==
    LET s == IF RecoveryStatus(t) = "retry_wait" THEN "retry_wait" ELSE "failed"
    IN  [g \in Generations |->
            IF g = generation[t] /\ attempt[t][g] = "running"
            THEN s ELSE attempt[t][g]]

RecoveredAttempts(t) ==
    LET s == IF RecoveryStatus(t) = "retry_wait" THEN "retry_wait" ELSE "failed"
    IN  [g \in Generations |->
            IF g = generation[t] /\ attempt[t][g] \in OpenAttempt
            THEN s ELSE attempt[t][g]]

(* A run one of whose side effects was lost waits for its user.            *)
Paused(r, Lost) ==
    IF /\ runStatus[r] \in {"queued", "planning", "ready", "running"}
       /\ \E t \in Lost \cap SideEffect : RunOf[t] = r
    THEN "awaiting_input" ELSE runStatus[r]

(* recover_expired_leases: one transaction promotes every retry that is    *)
(* due, classifies every expired claim, pauses the runs whose side effects *)
(* have an unknown outcome and aggregates the runs it touched.  Due is the *)
(* set of waiting tasks whose next_retry_at has passed; Rs is the set of   *)
(* runs asked for (one run, or all of them), which limits the claims but   *)
(* not the retries.                                                        *)
RecoverExpiredLeases(Rs, Due) ==
    LET Lost == LostClaims(Rs)
    IN  /\ Due \subseteq {t \in Tasks : taskStatus[t] = "retry_wait"}
        /\ Due \cup Lost # {}
        /\ taskStatus' = [t \in Tasks |->
               IF t \in Due THEN "ready"
               ELSE IF t \in Lost THEN RecoveryStatus(t)
               ELSE taskStatus[t]]
        /\ blockedReason' = [t \in Tasks |->
               IF t \in Lost \cap SideEffect THEN "SIDE_EFFECT_OUTCOME_UNKNOWN"
               ELSE IF t \in Due \cup Lost THEN "none"
               ELSE blockedReason[t]]
        /\ attempt' = [t \in Tasks |->
               IF t \in Due THEN CloseAttempts(t, {"retry_wait"}, "failed")
               ELSE IF t \in Lost THEN RecoveredAttempts(t)
               ELSE attempt[t]]
        /\ leaseOwner' = [t \in Tasks |-> IF t \in Lost THEN NoWorker ELSE leaseOwner[t]]
        /\ lease' = [t \in Tasks |-> IF t \in Lost THEN "none" ELSE lease[t]]
        /\ runStatus' = [r \in Runs |->
               IF \E t \in Lost : RunOf[t] = r
               THEN Aggregated(r, Paused(r, Lost), taskStatus') ELSE runStatus[r]]
        /\ UNCHANGED <<resumed, generation, confirmed, produced>>

(* abandon_worker_claims: a stopping worker hands its claims to recovery,  *)
(* or cancels them when their run is being cancelled or over.              *)
AbandonWorkerClaims(w) ==
    LET Mine == {t \in Tasks : leaseOwner[t] = w /\ taskStatus[t] \in Active}
        Dead == {t \in Mine : runStatus[RunOf[t]] \in FinalRun \cup {"cancelling"}}
    IN  /\ Mine # {}
        /\ taskStatus' = [t \in Tasks |-> IF t \in Dead THEN "cancelled" ELSE taskStatus[t]]
        /\ blockedReason' = [t \in Tasks |-> IF t \in Dead THEN "none" ELSE blockedReason[t]]
        /\ attempt' = [t \in Tasks |->
               IF t \in Dead THEN CloseAttempts(t, {"leased", "running"}, "cancelled")
               ELSE attempt[t]]
        /\ leaseOwner' = [t \in Tasks |-> IF t \in Dead THEN NoWorker ELSE leaseOwner[t]]
        /\ lease' = [t \in Tasks |->
               IF t \in Dead THEN "none" ELSE IF t \in Mine THEN "abandoned" ELSE lease[t]]
        /\ UNCHANGED <<runStatus, resumed, generation, confirmed, produced>>

(* Time passes lease_expires_at before a heartbeat moved it.  A heartbeat  *)
(* that succeeds keeps the lease live and changes no row of this model.    *)
LeaseExpires(t) ==
    /\ lease[t] = "live"
    /\ lease' = [lease EXCEPT ![t] = "expired"]
    /\ UNCHANGED <<runStatus, resumed, taskStatus, blockedReason, generation,
                   attempt, leaseOwner, confirmed, produced>>

-----------------------------------------------------------------------------
(***************************************************************************)
(* The claim holder: the supervisor that runs the task and its child.      *)
(***************************************************************************)

(* update_run_status, as _ensure_run_running calls it to walk the run to   *)
(* running before the task starts.                                         *)
AdvanceRun(t, g, s) ==
    /\ HoldsClaim(t, g)
    /\ s \in {"planning", "ready", "running"}
    /\ s \in RunTransitions[runStatus[RunOf[t]]]
    /\ runStatus' = [runStatus EXCEPT ![RunOf[t]] = s]
    /\ UNCHANGED <<resumed, taskStatus, blockedReason, generation, attempt,
                   leaseOwner, lease, confirmed, produced>>

ExecutorStartTask(t, g) ==
    /\ FenceHolds(t, g)
    /\ taskStatus[t] = "leased"
    /\ attempt[t][g] = "leased"
    /\ taskStatus' = [taskStatus EXCEPT ![t] = "running"]
    /\ attempt' = [attempt EXCEPT ![t][g] = "running"]
    /\ UNCHANGED <<runStatus, resumed, blockedReason, generation, leaseOwner,
                   lease, confirmed, produced>>

(* The child's handler has returned: update_task_status "validating".  The *)
(* child refuses to invoke the handler of an unconfirmed side effect.      *)
BeginValidating(t, g) ==
    /\ FenceHolds(t, g)
    /\ t \in SideEffect => t \in confirmed
    /\ taskStatus[t] = "running"
    /\ attempt[t][g] = "running"
    /\ taskStatus' = [taskStatus EXCEPT ![t] = "validating"]
    /\ blockedReason' = [blockedReason EXCEPT ![t] = "none"]
    /\ UNCHANGED <<runStatus, resumed, generation, attempt, leaseOwner, lease,
                   confirmed, produced>>

(* _unblock_dependents_conn: what the success of t makes ready.            *)
Unblocked(t, outputs) ==
    {u \in Tasks : /\ t \in Deps[u]
                   /\ taskStatus[u] = "blocked"
                   /\ \A d \in Deps[u] \ {t} : taskStatus[d] = "succeeded"
                   /\ u \in SideEffect => u \in confirmed
                   /\ InputsResolved(u, outputs)}

(* Mutation of CommitValidatedTask: the attempt is not closed.             *)
CommitLeavesAttempt(t, g, outputs) ==
    /\ HoldsClaim(t, g)
    /\ taskStatus[t] = "validating"
    /\ attempt[t][g] = "running"
    /\ outputs = produced \cup {t}
    /\ produced' = outputs
    /\ taskStatus' = [u \in Tasks |->
           IF u = t THEN "succeeded"
           ELSE IF u \in Unblocked(t, outputs) THEN "ready" ELSE taskStatus[u]]
    /\ UNCHANGED <<runStatus, resumed, blockedReason, generation, attempt,
                   leaseOwner, lease, confirmed>>

(* The commit transaction of execute: outputs, attempt, task and the tasks *)
(* it unblocks become visible together.  outputs is produced with or       *)
(* without t: a task whose policy allows it may commit no output.          *)
CommitValidatedTask(t, g, outputs) ==
    /\ HoldsClaim(t, g)
    /\ taskStatus[t] = "validating"
    /\ attempt[t][g] = "running"
    /\ \/ outputs = produced \cup {t}
       \/ outputs = produced /\ t \in MayBeEmpty
    /\ produced' = outputs
    /\ attempt' = [attempt EXCEPT ![t][g] = "succeeded"]
    /\ taskStatus' = [u \in Tasks |->
           IF u = t THEN "succeeded"
           ELSE IF u \in Unblocked(t, outputs) THEN "ready" ELSE taskStatus[u]]
    /\ blockedReason' = [u \in Tasks |->
           IF u \in {t} \cup Unblocked(t, outputs) THEN "none" ELSE blockedReason[u]]
    /\ UNCHANGED <<runStatus, resumed, generation, leaseOwner, lease, confirmed>>

(* update_task_status "failed": by the child (_mark_failed) or, after an   *)
(* exception, by run_once.  Neither closes the attempt.                    *)
FailTask(t, g) ==
    /\ HoldsClaim(t, g)
    /\ taskStatus' = [taskStatus EXCEPT ![t] = "failed"]
    /\ blockedReason' = [blockedReason EXCEPT ![t] = "none"]
    /\ UNCHANGED <<runStatus, resumed, generation, attempt, leaseOwner, lease,
                   confirmed, produced>>

(* update_task_attempt_status "failed", by run_once before FailTask.       *)
FailAttempt(t, g) ==
    /\ FenceHolds(t, g)
    /\ attempt[t][g] \in {"leased", "running"}
    /\ attempt' = [attempt EXCEPT ![t][g] = "failed"]
    /\ UNCHANGED <<runStatus, resumed, taskStatus, blockedReason, generation,
                   leaseOwner, lease, confirmed, produced>>

-----------------------------------------------------------------------------
(***************************************************************************)
(* The commands of the API.                                                *)
(***************************************************************************)

(* Mutation of ConfirmTask: no look at the pending confirmation.           *)
ConfirmAnyTask(t) ==
    /\ runStatus[RunOf[t]] \notin FinalRun \cup {"cancelling"}
    /\ confirmed' = confirmed \cup {t}
    /\ UNCHANGED <<runStatus, resumed, taskStatus, blockedReason, generation,
                   attempt, leaseOwner, lease, produced>>

(* confirm_task                                                            *)
ConfirmTask(t) ==
    /\ t \in SideEffect \ confirmed
    /\ runStatus[RunOf[t]] \notin FinalRun \cup {"cancelling"}
    /\ confirmed' = confirmed \cup {t}
    /\ IF DepsSucceeded(t) /\ taskStatus[t] = "blocked"
       THEN /\ taskStatus' = [taskStatus EXCEPT ![t] = "ready"]
            /\ blockedReason' = [blockedReason EXCEPT ![t] = "none"]
       ELSE UNCHANGED <<taskStatus, blockedReason>>
    /\ UNCHANGED <<runStatus, resumed, generation, attempt, leaseOwner, lease,
                   produced>>

(* What cancelling the tasks X does to their rows.                         *)
CancelTasks(X) ==
    /\ taskStatus' = [t \in Tasks |-> IF t \in X THEN "cancelled" ELSE taskStatus[t]]
    /\ blockedReason' = [t \in Tasks |-> IF t \in X THEN "none" ELSE blockedReason[t]]
    /\ attempt' = [t \in Tasks |->
           IF t \in X THEN CloseAttempts(t, OpenAttempt, "cancelled") ELSE attempt[t]]
    /\ leaseOwner' = [t \in Tasks |-> IF t \in X THEN NoWorker ELSE leaseOwner[t]]
    /\ lease' = [t \in Tasks |-> IF t \in X THEN "none" ELSE lease[t]]

(* apply_cancel_command with defer_active and without finalize: the active *)
(* rows stay addressable until their processes have been stopped.          *)
ApplyCancelCommand(r) ==
    /\ runStatus[r] \notin FinalRun
    /\ CancelTasks({t \in TasksOf(r) : taskStatus[t] \notin Active \cup Final})
    /\ runStatus' = [runStatus EXCEPT ![r] = "cancelling"]
    /\ UNCHANGED <<resumed, generation, confirmed, produced>>

FinalizeCancelCommand(r) ==
    /\ runStatus[r] = "cancelling"
    /\ CancelTasks({t \in TasksOf(r) : taskStatus[t] \notin Final})
    /\ runStatus' = [runStatus EXCEPT ![r] = "cancelled"]
    /\ UNCHANGED <<resumed, generation, confirmed, produced>>

(* mark_cancel_indeterminate: some child could not be stopped.             *)
MarkCancelIndeterminate(r) ==
    LET Fenced == {t \in TasksOf(r) : taskStatus[t] \in Active}
    IN  /\ runStatus[r] = "cancelling"
        /\ blockedReason' = [t \in Tasks |->
               IF t \in Fenced THEN "CANCELLATION_OUTCOME_UNKNOWN" ELSE blockedReason[t]]
        /\ leaseOwner' = [t \in Tasks |-> IF t \in Fenced THEN NoWorker ELSE leaseOwner[t]]
        /\ lease' = [t \in Tasks |-> IF t \in Fenced THEN "none" ELSE lease[t]]
        /\ runStatus' = [runStatus EXCEPT ![r] = "awaiting_input"]
        /\ UNCHANGED <<resumed, taskStatus, generation, attempt, confirmed, produced>>

(* The tasks a resume command has to decide about.                         *)
Unsettled(r) ==
    {t \in TasksOf(r) :
        \/ taskStatus[t] \in Active
        \/ /\ taskStatus[t] = "blocked"
           /\ blockedReason[t] \in {"CANCELLATION_OUTCOME_UNKNOWN",
                                    "CANCELLATION_DECISION_REQUIRED"}}

(* apply_resume_command: retry is the set of tasks for which the patch     *)
(* carries the decision "retry".  The run is queued again only when every  *)
(* unsettled task may be retried.                                          *)
ApplyResumeCommand(r, retry) ==
    LET Again(t) == \/ t \in retry
                    \/ taskStatus[t] # "blocked" /\ t \in Idempotent \ SideEffect
        Undecided == {t \in Unsettled(r) : ~Again(t)}
    IN  /\ runStatus[r] = "awaiting_input"
        /\ taskStatus' = [t \in Tasks |->
               IF t \in Undecided THEN "blocked"
               ELSE IF t \in Unsettled(r) THEN "ready" ELSE taskStatus[t]]
        /\ blockedReason' = [t \in Tasks |->
               IF t \in Undecided THEN "CANCELLATION_DECISION_REQUIRED"
               ELSE IF t \in Unsettled(r) THEN "none" ELSE blockedReason[t]]
        /\ attempt' = [t \in Tasks |->
               IF t \in Unsettled(r) THEN CloseAttempts(t, OpenAttempt, "failed")
               ELSE attempt[t]]
        /\ leaseOwner' = [t \in Tasks |->
               IF t \in Unsettled(r) THEN NoWorker ELSE leaseOwner[t]]
        /\ lease' = [t \in Tasks |->
               IF t \in Unsettled(r) THEN "none" ELSE lease[t]]
        /\ IF Undecided = {}
           THEN /\ runStatus' = [runStatus EXCEPT ![r] = "queued"]
                /\ resumed' = resumed \cup {r}
           ELSE UNCHANGED <<runStatus, resumed>>
        /\ UNCHANGED <<generation, confirmed, produced>>

-----------------------------------------------------------------------------
HolderStep(t, g) ==
    \/ \E s \in {"planning", "ready", "running"} : AdvanceRun(t, g, s)
    \/ ExecutorStartTask(t, g)
    \/ BeginValidating(t, g)
    \/ \E outputs \in {produced, produced \cup {t}} : CommitValidatedTask(t, g, outputs)
    \/ FailTask(t, g)
    \/ FailAttempt(t, g)
    \/ \E code \in ErrorCodes : ScheduleRetry(t, g, code)
    \/ Release(t, g)

RunStep(r) ==
    \/ EnqueueRun(r)
    \/ AggregateRun(r)
    \/ ApplyCancelCommand(r)
    \/ FinalizeCancelCommand(r)
    \/ MarkCancelIndeterminate(r)
    \/ \E retry \in SUBSET Unsettled(r) : ApplyResumeCommand(r, retry)

QueueStep ==
    \/ \E w \in Workers : AbandonWorkerClaims(w)
    \/ \E w \in Workers, t \in Tasks : ClaimNext(w, t)
    \/ \E Rs \in {Runs} \cup {{r} : r \in Runs}, Due \in SUBSET Tasks :
          RecoverExpiredLeases(Rs, Due)
    \/ \E t \in Tasks : LeaseExpires(t) \/ ConfirmTask(t)

(* A holder presents some generation that was really claimed.              *)
Next ==
    \/ \E t \in Tasks, g \in Generations : g <= generation[t] /\ HolderStep(t, g)
    \/ \E r \in Runs : RunStep(r)
    \/ QueueStep

Spec == Init /\ [][Next]_vars

-----------------------------------------------------------------------------
(***************************************************************************)
(* Safety.                                                                 *)
(***************************************************************************)

(* At most one attempt of a task ever commits, and only the newest one:    *)
(* when recovery has handed a task to a new attempt, all that a previous   *)
(* holder still does is refused.  (The fence of store.py and the           *)
(* bookkeeping of attempts in queue.py.)                                   *)
OnlyNewestAttemptCounts ==
    \A t \in Tasks, g \in Generations :
        /\ g < generation[t] => attempt[t][g] \in {"failed", "cancelled"}
        /\ g > generation[t] => attempt[t][g] = "absent"
        /\ attempt[t][g] = "succeeded" <=> taskStatus[t] = "succeeded" /\ g = generation[t]

(* A task that is not held by anybody has no open attempt.  claim_next     *)
(* skips a ready task with an open attempt for ever, and the unique index  *)
(* one_active_task_attempt refuses a second one, so an attempt left open   *)
(* by any of the paths that put a task back would strand its run.  (A      *)
(* failed task may keep one: run_once does not always close it.)           *)
NoOpenAttemptLeftBehind ==
    \A t \in Tasks :
        taskStatus[t] \in {"ready", "blocked", "succeeded", "cancelled"} =>
            \A g \in Generations : attempt[t][g] \notin OpenAttempt

(* A task that is or was allowed to run has every task it depends on       *)
(* committed, through whichever of the six ways it became ready, and that  *)
(* stays so while the tasks before it are failed, cancelled, recovered or  *)
(* retried by others.                                                      *)
DependencyOrder ==
    \A t \in Tasks :
        taskStatus[t] \notin {"blocked", "cancelled"} \/ generation[t] > 0 =>
            \A d \in Deps[t] : taskStatus[d] = "succeeded"

(* The rows of a task that is held agree: an active task without a lease,  *)
(* which no claim, heartbeat or recovery would ever pick up again, exists  *)
(* only while its run waits for a resume or cancel command that handles    *)
(* it.  (The comments in release and apply_resume_command.)                *)
NoStrandedClaim ==
    \A t \in Tasks :
        taskStatus[t] \in Active /\ lease[t] = "none" =>
            runStatus[RunOf[t]] \in {"awaiting_input", "cancelling"}

(* The final status of a run is the truth about its tasks, and stays so.   *)
FinalRunIsTrue ==
    \A r \in Runs :
        /\ runStatus[r] \in FinalRun => \A t \in TasksOf(r) : taskStatus[t] \in Final
        /\ runStatus[r] = "completed" =>
              \A t \in TasksOf(r) : taskStatus[t] = "succeeded" /\ HasOutputs(t)
        /\ runStatus[r] = "failed" =>
              \E t \in TasksOf(r) : taskStatus[t] = "failed" \/ ~HasOutputs(t)

(* Lease expiries, crashes and scheduled retries together never give a     *)
(* task more attempts than its frozen retry policy allows; only a user who *)
(* resumed the run can.  (Side effects are the subject of another          *)
(* property: recovery parks them whatever the policy says.)                *)
RetryBudgetKept ==
    \A t \in Tasks \ SideEffect :
        generation[t] > MaxAttempts[t] => RunOf[t] \in resumed

(* What is over is never reopened: neither a final task, nor a closed      *)
(* attempt, nor a final run.                                               *)
FinalStaysFinal ==
    [][/\ \A t \in Tasks : taskStatus[t] \in Final => taskStatus'[t] = taskStatus[t]
       /\ \A t \in Tasks, g \in Generations :
             attempt[t][g] \in Final => attempt'[t][g] = attempt[t][g]
       /\ \A r \in Runs : runStatus[r] \in FinalRun => runStatus'[r] = runStatus[r]
      ]_vars

(* Nobody publishes late: a task succeeds, and its outputs appear, only    *)
(* under a lease that has not run out, been abandoned or been cleared by a *)
(* cancel or resume command, and never in a run that is over.              *)
PublishOnlyUnderLiveLease ==
    [][\A t \in Tasks :
          \/ taskStatus'[t] = "succeeded" /\ taskStatus[t] # "succeeded"
          \/ t \in produced' \ produced
          => lease[t] = "live" /\ runStatus[RunOf[t]] \notin FinalRun
      ]_vars

(* A run that is being cancelled or waits for its user stands still: no    *)
(* task of it is claimed, and whatever its running tasks still report, the *)
(* run is neither completed nor failed, so that a cancel request that      *)
(* races the last commit is answered by a cancellation or by a question.   *)
StopRequestHonoured ==
    [][\A r \in Runs :
          runStatus[r] \in {"cancelling", "awaiting_input"} =>
              /\ runStatus'[r] \notin {"completed", "failed"}
              /\ \A t \in TasksOf(r) : generation'[t] = generation[t]
      ]_vars

-----------------------------------------------------------------------------
(***************************************************************************)
(* What the architecture document says of readiness and the code does not  *)
(* do.                                                                     *)
(***************************************************************************)

(* A side-effect task becomes ready only once its confirmation is there.   *)
(* ("only after all dependencies succeeded, every binding is resolved and  *)
(* the required TaskConfirmation exists may it become ready", section 5.4.)*)
ReadyOnlyWhenConfirmed ==
    \A t \in SideEffect : taskStatus[t] = "ready" => t \in confirmed

(* A task that was parked because nobody knows what its last attempt did   *)
(* becomes ready again only by a resume command whose patch says "retry"   *)
(* for it.  (Section 5.3 for cancellations, section 7.2 for side effects.) *)
ParkedTaskNeedsDecision ==
    [][\A t \in Tasks :
          /\ taskStatus[t] = "blocked"
          /\ blockedReason[t] \in {"SIDE_EFFECT_OUTCOME_UNKNOWN",
                                   "CANCELLATION_DECISION_REQUIRED"}
          /\ taskStatus'[t] = "ready"
          => \E retry \in SUBSET TasksOf(RunOf[t]) :
                t \in retry /\ ApplyResumeCommand(RunOf[t], retry)
      ]_vars

=============================================================================
