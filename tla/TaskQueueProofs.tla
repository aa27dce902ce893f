--------------------------- MODULE TaskQueueProofs ---------------------------
(***************************************************************************)
(* Machine-checked proofs that the properties of TaskQueue hold for every  *)
(* set of runs, tasks and workers, every dependency relation, every retry  *)
(* policy and every bound on generations.                                  *)
(***************************************************************************)
EXTENDS TaskQueue, TLAPS

(***************************************************************************)
(* The inductive invariant: the invariants of TaskQueue and the three      *)
(* facts below that they rest on.                                          *)
(***************************************************************************)

(* How the attempts of a task agree with its status and lease generation.  *)
AttemptFollowsTask(t) ==
    /\ generation[t] > 0 => attempt[t][generation[t]] # "absent"
    /\ taskStatus[t] \in Active =>
          generation[t] > 0 /\ attempt[t][generation[t]] # "retry_wait"
    /\ taskStatus[t] = "retry_wait" =>
          generation[t] > 0 /\ attempt[t][generation[t]] \notin {"leased", "running"}

NewestCounts(t) ==
    \A g \in Generations :
        /\ g < generation[t] => attempt[t][g] \in {"failed", "cancelled"}
        /\ g > generation[t] => attempt[t][g] = "absent"
        /\ attempt[t][g] = "succeeded" <=> taskStatus[t] = "succeeded" /\ g = generation[t]

NoneLeftOpen(t) ==
    taskStatus[t] \in {"ready", "blocked", "succeeded", "cancelled"} =>
        \A g \in Generations : attempt[t][g] \notin OpenAttempt

RowAgrees(t) == AttemptFollowsTask(t) /\ NewestCounts(t) /\ NoneLeftOpen(t)
RowsAgree == \A t \in Tasks : RowAgrees(t)

(* A task that was allowed to run at some time.                            *)
Awake(t) == taskStatus[t] \notin {"blocked", "cancelled"} \/ generation[t] > 0

(* A task that a resume command has to decide about has been started.      *)
ParkedTaskStarted ==
    \A t \in Tasks :
        blockedReason[t] \in {"CANCELLATION_OUTCOME_UNKNOWN",
                              "CANCELLATION_DECISION_REQUIRED"} => generation[t] > 0

NoLiveClaim(r) ==
    \A t \in Tasks : RunOf[t] = r /\ taskStatus[t] \in Active => lease[t] # "live"

(* A run with an active task without a lease has no live claim whose holder*)
(* could walk it back to running.                                          *)
StrandedRunIsQuiet ==
    \A t \in Tasks :
        taskStatus[t] \in Active /\ lease[t] = "none" => NoLiveClaim(RunOf[t])

(* A task that has spent its budget is claimable again only in a run that  *)
(* stands still until a user resumes it.                                   *)
SpentTaskWaits ==
    \A t \in Tasks \ SideEffect :
        /\ generation[t] >= MaxAttempts[t]
        /\ taskStatus[t] \in {"blocked", "ready", "retry_wait"}
        /\ RunOf[t] \notin resumed
        => runStatus[RunOf[t]] \in Unclaimable /\ NoLiveClaim(RunOf[t])

IInv ==
    /\ TypeOK
    /\ RowsAgree
    /\ DependencyOrder
    /\ ParkedTaskStarted
    /\ StrandedRunIsQuiet
    /\ NoStrandedClaim
    /\ FinalRunIsTrue
    /\ SpentTaskWaits
    /\ RetryBudgetKept

-----------------------------------------------------------------------------
(***************************************************************************)
(* Types.                                                                  *)
(***************************************************************************)

(* Every transaction writes rows of the right shape.                       *)
LEMMA TypeStep == TypeOK /\ [Next]_vars => TypeOK'
<1> SUFFICES ASSUME TypeOK, [Next]_vars PROVE TypeOK'
  OBVIOUS
<1> USE TaskQueueAssumption
<1>1. ASSUME NEW t \in Tasks, NEW g \in Generations,
             NEW s \in {"planning", "ready", "running"}, AdvanceRun(t, g, s)
      PROVE  TypeOK'
  BY <1>1 DEF TypeOK, AdvanceRun, RunStatuses
<1>2. ASSUME NEW t \in Tasks, NEW g \in Generations, ExecutorStartTask(t, g)
      PROVE  TypeOK'
  BY <1>2 DEF TypeOK, ExecutorStartTask, TaskStatuses, Active, AttemptStatuses, OpenAttempt
<1>3. ASSUME NEW t \in Tasks, NEW g \in Generations, BeginValidating(t, g)
      PROVE  TypeOK'
  BY <1>3 DEF TypeOK, BeginValidating, TaskStatuses, Active, Reasons
<1>4. ASSUME NEW t \in Tasks, NEW g \in Generations,
             NEW outputs \in {produced, produced \cup {t}},
             CommitValidatedTask(t, g, outputs)
      PROVE  TypeOK'
  BY <1>4 DEF TypeOK, CommitValidatedTask, TaskStatuses, Final, Reasons, AttemptStatuses
<1>5. ASSUME NEW t \in Tasks, NEW g \in Generations, FailTask(t, g)
      PROVE  TypeOK'
  BY <1>5 DEF TypeOK, FailTask, TaskStatuses, Final, Reasons
<1>6. ASSUME NEW t \in Tasks, NEW g \in Generations, FailAttempt(t, g)
      PROVE  TypeOK'
  BY <1>6 DEF TypeOK, FailAttempt, AttemptStatuses, Final
<1>7. ASSUME NEW t \in Tasks, NEW g \in Generations, NEW code \in ErrorCodes,
             ScheduleRetry(t, g, code)
      PROVE  TypeOK'
  BY <1>7 DEF TypeOK, ScheduleRetry, TaskStatuses, Reasons, AttemptStatuses, OpenAttempt
<1>8. ASSUME NEW t \in Tasks, NEW g \in Generations, Release(t, g)
      PROVE  TypeOK'
  BY <1>8 DEF TypeOK, Release, Leases
<1>9. ASSUME NEW r \in Runs, EnqueueRun(r)
      PROVE  TypeOK'
  BY <1>9 DEF TypeOK, EnqueueRun, TaskStatuses, Final, Reasons
<1>10. ASSUME NEW r \in Runs, AggregateRun(r)
       PROVE  TypeOK'
  BY <1>10 DEF TypeOK, AggregateRun, Aggregated, RunStatuses
<1>11. ASSUME NEW r \in Runs, ApplyCancelCommand(r)
       PROVE  TypeOK'
  BY <1>11 DEF TypeOK, ApplyCancelCommand, CancelTasks, CloseAttempts, TaskStatuses,
               Final, Reasons, AttemptStatuses, Leases, RunStatuses
<1>12. ASSUME NEW r \in Runs, FinalizeCancelCommand(r)
       PROVE  TypeOK'
  BY <1>12 DEF TypeOK, FinalizeCancelCommand, CancelTasks, CloseAttempts, TaskStatuses,
               Final, Reasons, AttemptStatuses, Leases, RunStatuses
<1>13. ASSUME NEW r \in Runs, MarkCancelIndeterminate(r)
       PROVE  TypeOK'
  BY <1>13 DEF TypeOK, MarkCancelIndeterminate, Reasons, Leases, RunStatuses
<1>14. ASSUME NEW r \in Runs, NEW retry \in SUBSET Unsettled(r),
              ApplyResumeCommand(r, retry)
       PROVE  TypeOK'
  BY <1>14 DEF TypeOK, ApplyResumeCommand, CloseAttempts, TaskStatuses, Final, Reasons,
               AttemptStatuses, Leases, RunStatuses
<1>15. ASSUME NEW w \in Workers, AbandonWorkerClaims(w)
       PROVE  TypeOK'
  BY <1>15 DEF TypeOK, AbandonWorkerClaims, CloseAttempts, TaskStatuses, Final, Reasons,
               AttemptStatuses, Leases
<1>16. ASSUME NEW w \in Workers, NEW t \in Tasks, ClaimNext(w, t)
       PROVE  TypeOK'
  BY <1>16 DEF TypeOK, ClaimNext, TaskStatuses, Active, AttemptStatuses, OpenAttempt, Leases,
               Generations
<1>17. ASSUME NEW Rs \in {Runs} \cup {{r} : r \in Runs}, NEW Due \in SUBSET Tasks,
              RecoverExpiredLeases(Rs, Due)
       PROVE  TypeOK'
  <2>1. taskStatus' \in [Tasks -> TaskStatuses]
    BY <1>17 DEF TypeOK, RecoverExpiredLeases, RecoveryStatus, TaskStatuses, Final
  <2>2. blockedReason' \in [Tasks -> Reasons]
    BY <1>17 DEF TypeOK, RecoverExpiredLeases, Reasons
  <2>3. attempt' \in [Tasks -> [Generations -> AttemptStatuses]]
    BY <1>17 DEF TypeOK, RecoverExpiredLeases, CloseAttempts, RecoveredAttempts,
                 AttemptStatuses, OpenAttempt, Final
  <2>4. runStatus' \in [Runs -> RunStatuses]
    BY <1>17 DEF TypeOK, RecoverExpiredLeases, Aggregated, Paused, RunStatuses
  <2>5. /\ leaseOwner' \in [Tasks -> Workers \cup {NoWorker}]
        /\ lease' \in [Tasks -> Leases]
    BY <1>17 DEF TypeOK, RecoverExpiredLeases, Leases
  <2>6. UNCHANGED <<resumed, generation, confirmed, produced>>
    BY <1>17 DEF RecoverExpiredLeases
  <2>7. QED
    BY <2>1, <2>2, <2>3, <2>4, <2>5, <2>6 DEF TypeOK
<1>18. ASSUME NEW t \in Tasks, LeaseExpires(t)
       PROVE  TypeOK'
  BY <1>18 DEF TypeOK, LeaseExpires, Leases
<1>19. ASSUME NEW t \in Tasks, ConfirmTask(t)
       PROVE  TypeOK'
  BY <1>19 DEF TypeOK, ConfirmTask, TaskStatuses, Reasons
<1>20. CASE UNCHANGED vars
  BY <1>20 DEF TypeOK, vars
<1>21. ASSUME NEW t \in Tasks, NEW g \in Generations, HolderStep(t, g)
       PROVE  TypeOK'
  BY <1>1, <1>2, <1>3, <1>4, <1>5, <1>6, <1>7, <1>8, <1>21 DEF HolderStep
<1>22. ASSUME NEW r \in Runs, RunStep(r)
       PROVE  TypeOK'
  BY <1>9, <1>10, <1>11, <1>12, <1>13, <1>14, <1>22 DEF RunStep
<1>23. CASE QueueStep
  BY <1>15, <1>16, <1>17, <1>18, <1>19, <1>23 DEF QueueStep
<1>24. QED
  BY <1>20, <1>21, <1>22, <1>23 DEF Next


-----------------------------------------------------------------------------
(***************************************************************************)
(* What a step does to tasks that are over, and to the dependency order.   *)
(***************************************************************************)

(* No transaction changes the status of a task that is over.               *)
LEMMA FinalTaskStep ==
    TypeOK /\ [Next]_vars =>
        \A t \in Tasks : taskStatus[t] \in Final => taskStatus'[t] = taskStatus[t]
<1> SUFFICES ASSUME TypeOK, [Next]_vars, NEW u \in Tasks, taskStatus[u] \in Final
             PROVE  taskStatus'[u] = taskStatus[u]
  OBVIOUS
<1> USE TaskQueueAssumption
<1>1. ASSUME NEW t \in Tasks, NEW g \in Generations,
             \/ \E s \in {"planning", "ready", "running"} : AdvanceRun(t, g, s)
             \/ FailAttempt(t, g)
             \/ Release(t, g)
      PROVE  taskStatus'[u] = taskStatus[u]
  BY <1>1 DEF AdvanceRun, FailAttempt, Release
<1>2. ASSUME NEW t \in Tasks, NEW g \in Generations, ExecutorStartTask(t, g)
      PROVE  taskStatus'[u] = taskStatus[u]
  BY <1>2 DEF TypeOK, Final, Active, ExecutorStartTask, FenceHolds
<1>3. ASSUME NEW t \in Tasks, NEW g \in Generations, BeginValidating(t, g)
      PROVE  taskStatus'[u] = taskStatus[u]
  BY <1>3 DEF TypeOK, Final, Active, BeginValidating, FenceHolds
<1>4. ASSUME NEW t \in Tasks, NEW g \in Generations,
             NEW outputs \in {produced, produced \cup {t}},
             CommitValidatedTask(t, g, outputs)
      PROVE  taskStatus'[u] = taskStatus[u]
  BY <1>4 DEF TypeOK, Final, Active, CommitValidatedTask, HoldsClaim,
     FenceHolds, Unblocked
<1>5. ASSUME NEW t \in Tasks, NEW g \in Generations, FailTask(t, g)
      PROVE  taskStatus'[u] = taskStatus[u]
  BY <1>5 DEF TypeOK, Final, Active, FailTask, HoldsClaim, FenceHolds
<1>6. ASSUME NEW t \in Tasks, NEW g \in Generations, NEW code \in ErrorCodes,
             ScheduleRetry(t, g, code)
      PROVE  taskStatus'[u] = taskStatus[u]
  BY <1>6 DEF TypeOK, Final, Active, ScheduleRetry, HoldsClaim, FenceHolds
<1>7. ASSUME NEW r \in Runs, EnqueueRun(r)
      PROVE  taskStatus'[u] = taskStatus[u]
  BY <1>7 DEF TypeOK, Final, Active, EnqueueRun, Cascade, TasksOf
<1>8. ASSUME NEW r \in Runs,
             \/ AggregateRun(r)
             \/ MarkCancelIndeterminate(r)
      PROVE  taskStatus'[u] = taskStatus[u]
  BY <1>8 DEF AggregateRun, MarkCancelIndeterminate
<1>9. ASSUME NEW r \in Runs, ApplyCancelCommand(r)
      PROVE  taskStatus'[u] = taskStatus[u]
  BY <1>9 DEF TypeOK, Final, Active, ApplyCancelCommand, CancelTasks, TasksOf
<1>10. ASSUME NEW r \in Runs, FinalizeCancelCommand(r)
       PROVE  taskStatus'[u] = taskStatus[u]
  BY <1>10 DEF TypeOK, Final, Active, FinalizeCancelCommand, CancelTasks,
     TasksOf
<1>11. ASSUME NEW r \in Runs, NEW retry \in SUBSET Unsettled(r),
              ApplyResumeCommand(r, retry)
       PROVE  taskStatus'[u] = taskStatus[u]
  BY <1>11 DEF TypeOK, Final, Active, ApplyResumeCommand, Unsettled, TasksOf
<1>12. ASSUME NEW w \in Workers, AbandonWorkerClaims(w)
       PROVE  taskStatus'[u] = taskStatus[u]
  BY <1>12 DEF TypeOK, Final, Active, AbandonWorkerClaims
<1>13. ASSUME NEW w \in Workers, NEW t \in Tasks, ClaimNext(w, t)
       PROVE  taskStatus'[u] = taskStatus[u]
  BY <1>13 DEF TypeOK, Final, Active, ClaimNext, Claimable
<1>14. ASSUME NEW Rs \in {Runs} \cup {{r} : r \in Runs}, NEW Due \in SUBSET Tasks,
              RecoverExpiredLeases(Rs, Due)
       PROVE  taskStatus'[u] = taskStatus[u]
  BY <1>14 DEF TypeOK, Final, Active, RecoverExpiredLeases, RecoveryStatus,
     LostClaims
<1>15. ASSUME \E t \in Tasks : LeaseExpires(t)
       PROVE  taskStatus'[u] = taskStatus[u]
  BY <1>15 DEF LeaseExpires
<1>16. ASSUME NEW t \in Tasks, ConfirmTask(t)
       PROVE  taskStatus'[u] = taskStatus[u]
  BY <1>16 DEF TypeOK, Final, Active, ConfirmTask
<1>17. CASE UNCHANGED vars
  BY <1>17 DEF vars, TypeOK, Final, Active
<1>18. ASSUME NEW t \in Tasks, NEW g \in Generations, HolderStep(t, g)
       PROVE  taskStatus'[u] = taskStatus[u]
  BY <1>1, <1>2, <1>3, <1>4, <1>5, <1>6, <1>18 DEF HolderStep
<1>19. ASSUME NEW r \in Runs, RunStep(r)
       PROVE  taskStatus'[u] = taskStatus[u]
  BY <1>7, <1>8, <1>9, <1>10, <1>11, <1>19 DEF RunStep
<1>20. CASE QueueStep
  BY <1>12, <1>13, <1>14, <1>15, <1>16, <1>20 DEF QueueStep
<1>21. QED
  BY <1>17, <1>18, <1>19, <1>20 DEF Next

(* A pass of resolve_task_inputs cancels only tasks that never started: one *)
(* that was started has all its dependencies committed.                    *)
LEMMA CascadeIsBlocked ==
    ASSUME TypeOK, DependencyOrder, NEW r \in Runs, NEW C \in SUBSET Tasks,
           Cascade(r, C), NEW u \in C
    PROVE  taskStatus[u] = "blocked" /\ generation[u] = 0
<1>1. PICK d \in Deps[u] : taskStatus[d] \in {"failed", "cancelled"} \/ d \in C
  BY DEF Cascade
<1>2. d \in Tasks
  BY TaskQueueAssumption
<1>3. taskStatus[d] # "succeeded"
  BY <1>1, <1>2 DEF Cascade, TasksOf, Final
<1>4. taskStatus[u] \in {"blocked", "cancelled"} /\ ~(generation[u] > 0)
  BY <1>1, <1>3 DEF DependencyOrder
<1>5. taskStatus[u] # "cancelled"
  BY DEF Cascade, TasksOf, Final
<1>6. QED
  BY <1>4, <1>5, TaskQueueAssumption DEF TypeOK

(* A task is woken only when all its dependencies are committed.           *)
LEMMA WakeStep ==
    TypeOK /\ RowsAgree /\ DependencyOrder /\ ParkedTaskStarted /\ [Next]_vars =>
        \A t \in Tasks : Awake(t)' => Awake(t) \/ DepsSucceeded(t) \/ DepsSucceeded(t)'
<1> SUFFICES ASSUME TypeOK, RowsAgree, DependencyOrder, ParkedTaskStarted, [Next]_vars,
             NEW u \in Tasks, Awake(u)', ~Awake(u)
             PROVE  DepsSucceeded(u) \/ DepsSucceeded(u)'
  OBVIOUS
<1> USE TaskQueueAssumption
<1>1. ASSUME NEW t \in Tasks, NEW g \in Generations,
             NEW s \in {"planning", "ready", "running"}, AdvanceRun(t, g, s)
      PROVE  DepsSucceeded(u) \/ DepsSucceeded(u)'
  BY <1>1 DEF TypeOK, Awake, Final, Active, AdvanceRun, HoldsClaim, FenceHolds,
     RunTransitions
<1>2. ASSUME NEW t \in Tasks, NEW g \in Generations, ExecutorStartTask(t, g)
      PROVE  DepsSucceeded(u) \/ DepsSucceeded(u)'
  BY <1>2 DEF TypeOK, Awake, Final, Active, ExecutorStartTask, FenceHolds
<1>3. ASSUME NEW t \in Tasks, NEW g \in Generations, BeginValidating(t, g)
      PROVE  DepsSucceeded(u) \/ DepsSucceeded(u)'
  BY <1>3 DEF TypeOK, Awake, Final, Active, BeginValidating, FenceHolds
<1>4. ASSUME NEW t \in Tasks, NEW g \in Generations,
             NEW outputs \in {produced, produced \cup {t}},
             CommitValidatedTask(t, g, outputs)
      PROVE  DepsSucceeded(u) \/ DepsSucceeded(u)'
  <2>1. u # t /\ u \in Unblocked(t, outputs)
    BY <1>4 DEF TypeOK, Awake, CommitValidatedTask
  <2>2. \A d \in Deps[u] : d = t \/ taskStatus[d] = "succeeded"
    BY <2>1 DEF Unblocked
  <2>3. \A d \in Deps[u] : taskStatus'[d] = "succeeded"
    BY <1>4, <2>2 DEF TypeOK, CommitValidatedTask, Unblocked
  <2>4. QED
    BY <2>3 DEF DepsSucceeded
<1>5. ASSUME NEW t \in Tasks, NEW g \in Generations, FailTask(t, g)
      PROVE  DepsSucceeded(u) \/ DepsSucceeded(u)'
  BY <1>5 DEF TypeOK, Awake, Final, Active, FailTask, HoldsClaim, FenceHolds
<1>6. ASSUME NEW t \in Tasks, NEW g \in Generations, FailAttempt(t, g)
      PROVE  DepsSucceeded(u) \/ DepsSucceeded(u)'
  BY <1>6 DEF TypeOK, Awake, Final, Active, FailAttempt, FenceHolds
<1>7. ASSUME NEW t \in Tasks, NEW g \in Generations, NEW code \in ErrorCodes,
             ScheduleRetry(t, g, code)
      PROVE  DepsSucceeded(u) \/ DepsSucceeded(u)'
  BY <1>7 DEF TypeOK, Awake, Final, Active, ScheduleRetry, HoldsClaim,
     FenceHolds
<1>8. ASSUME NEW t \in Tasks, NEW g \in Generations, Release(t, g)
      PROVE  DepsSucceeded(u) \/ DepsSucceeded(u)'
  BY <1>8 DEF TypeOK, Awake, Final, Active, Release
<1>9. ASSUME NEW r \in Runs, EnqueueRun(r)
      PROVE  DepsSucceeded(u) \/ DepsSucceeded(u)'
  BY <1>9 DEF TypeOK, Awake, Final, Active, EnqueueRun, Cascade, TasksOf
<1>10. ASSUME NEW r \in Runs, AggregateRun(r)
       PROVE  DepsSucceeded(u) \/ DepsSucceeded(u)'
  BY <1>10 DEF TypeOK, Awake, Final, Active, AggregateRun, Aggregated
<1>11. ASSUME NEW r \in Runs, ApplyCancelCommand(r)
       PROVE  DepsSucceeded(u) \/ DepsSucceeded(u)'
  BY <1>11 DEF TypeOK, Awake, Final, Active, ApplyCancelCommand, CancelTasks,
     TasksOf
<1>12. ASSUME NEW r \in Runs, FinalizeCancelCommand(r)
       PROVE  DepsSucceeded(u) \/ DepsSucceeded(u)'
  BY <1>12 DEF TypeOK, Awake, Final, Active, FinalizeCancelCommand,
     CancelTasks, TasksOf
<1>13. ASSUME NEW r \in Runs, MarkCancelIndeterminate(r)
       PROVE  DepsSucceeded(u) \/ DepsSucceeded(u)'
  BY <1>13 DEF TypeOK, Awake, Final, Active, MarkCancelIndeterminate, TasksOf
<1>14. ASSUME NEW r \in Runs, NEW retry \in SUBSET Unsettled(r),
              ApplyResumeCommand(r, retry)
       PROVE  DepsSucceeded(u) \/ DepsSucceeded(u)'
  BY <1>14 DEF TypeOK, Awake, ParkedTaskStarted, Active, ApplyResumeCommand, Unsettled
<1>15. ASSUME NEW w \in Workers, AbandonWorkerClaims(w)
       PROVE  DepsSucceeded(u) \/ DepsSucceeded(u)'
  BY <1>15 DEF TypeOK, Awake, Final, Active, AbandonWorkerClaims
<1>16. ASSUME NEW w \in Workers, NEW t \in Tasks, ClaimNext(w, t)
       PROVE  DepsSucceeded(u) \/ DepsSucceeded(u)'
  BY <1>16 DEF TypeOK, Awake, Final, Active, ClaimNext, Claimable
<1>17. ASSUME NEW Rs \in {Runs} \cup {{r} : r \in Runs}, NEW Due \in SUBSET Tasks,
              RecoverExpiredLeases(Rs, Due)
       PROVE  DepsSucceeded(u) \/ DepsSucceeded(u)'
  BY <1>17 DEF TypeOK, Awake, Final, Active, RecoverExpiredLeases,
     RecoveryStatus, LostClaims
<1>18. ASSUME NEW t \in Tasks, LeaseExpires(t)
       PROVE  DepsSucceeded(u) \/ DepsSucceeded(u)'
  BY <1>18 DEF TypeOK, Awake, Final, Active, LeaseExpires
<1>19. ASSUME NEW t \in Tasks, ConfirmTask(t)
       PROVE  DepsSucceeded(u) \/ DepsSucceeded(u)'
  BY <1>19 DEF TypeOK, Awake, Final, Active, ConfirmTask
<1>20. CASE UNCHANGED vars
  BY <1>20 DEF vars, TypeOK, Awake, Final, Active
<1>21. ASSUME NEW t \in Tasks, NEW g \in Generations, HolderStep(t, g)
       PROVE  DepsSucceeded(u) \/ DepsSucceeded(u)'
  BY <1>1, <1>2, <1>3, <1>4, <1>5, <1>6, <1>7, <1>8, <1>21 DEF HolderStep
<1>22. ASSUME NEW r \in Runs, RunStep(r)
       PROVE  DepsSucceeded(u) \/ DepsSucceeded(u)'
  BY <1>9, <1>10, <1>11, <1>12, <1>13, <1>14, <1>22 DEF RunStep
<1>23. CASE QueueStep
  BY <1>15, <1>16, <1>17, <1>18, <1>19, <1>23 DEF QueueStep
<1>24. QED
  BY <1>20, <1>21, <1>22, <1>23 DEF Next

(* A task that is or was allowed to run keeps its dependencies committed.  *)
LEMMA DependencyStep ==
    TypeOK /\ RowsAgree /\ DependencyOrder /\ ParkedTaskStarted /\ [Next]_vars => DependencyOrder'
<1> SUFFICES ASSUME TypeOK, RowsAgree, DependencyOrder, ParkedTaskStarted, [Next]_vars,
                    NEW u \in Tasks, Awake(u)'
             PROVE  DepsSucceeded(u)'
  BY DEF DependencyOrder, Awake, DepsSucceeded
<1>1. \A d \in Deps[u] : d \in Tasks
  BY TaskQueueAssumption
<1>2. Awake(u) \/ DepsSucceeded(u) \/ DepsSucceeded(u)'
  BY WakeStep
<1>3. Awake(u) => DepsSucceeded(u)
  BY DEF DependencyOrder, Awake, DepsSucceeded
<1>4. DepsSucceeded(u) => DepsSucceeded(u)'
  BY <1>1, FinalTaskStep DEF DepsSucceeded, Final
<1>5. QED
  BY <1>2, <1>3, <1>4

(* ... and a parked task has been started.                                 *)
LEMMA ParkedStep ==
    TypeOK /\ RowsAgree /\ ParkedTaskStarted /\ [Next]_vars => ParkedTaskStarted'
<1> SUFFICES ASSUME TypeOK, RowsAgree, ParkedTaskStarted, [Next]_vars
             PROVE  ParkedTaskStarted'
  OBVIOUS
<1> USE TaskQueueAssumption
<1>1. ASSUME NEW t \in Tasks, NEW g \in Generations,
             \/ \E s \in {"planning", "ready", "running"} : AdvanceRun(t, g, s)
             \/ ExecutorStartTask(t, g)
             \/ FailAttempt(t, g)
             \/ Release(t, g)
      PROVE  ParkedTaskStarted'
  BY <1>1 DEF TypeOK, ParkedTaskStarted, AdvanceRun, ExecutorStartTask,
     FailAttempt, Release
<1>2. ASSUME NEW t \in Tasks, NEW g \in Generations, BeginValidating(t, g)
      PROVE  ParkedTaskStarted'
  BY <1>2 DEF TypeOK, ParkedTaskStarted, BeginValidating, FenceHolds
<1>3. ASSUME NEW t \in Tasks, NEW g \in Generations,
             NEW outputs \in {produced, produced \cup {t}},
             CommitValidatedTask(t, g, outputs)
      PROVE  ParkedTaskStarted'
  BY <1>3 DEF TypeOK, ParkedTaskStarted, CommitValidatedTask, HoldsClaim,
     FenceHolds, Unblocked
<1>4. ASSUME NEW t \in Tasks, NEW g \in Generations, FailTask(t, g)
      PROVE  ParkedTaskStarted'
  BY <1>4 DEF TypeOK, ParkedTaskStarted, FailTask, HoldsClaim, FenceHolds
<1>5. ASSUME NEW t \in Tasks, NEW g \in Generations, NEW code \in ErrorCodes,
             ScheduleRetry(t, g, code)
      PROVE  ParkedTaskStarted'
  BY <1>5 DEF TypeOK, ParkedTaskStarted, ScheduleRetry, HoldsClaim, FenceHolds
<1>6. ASSUME NEW r \in Runs, EnqueueRun(r)
      PROVE  ParkedTaskStarted'
  BY <1>6 DEF TypeOK, ParkedTaskStarted, EnqueueRun, Cascade, TasksOf
<1>7. ASSUME NEW r \in Runs,
             AggregateRun(r)
      PROVE  ParkedTaskStarted'
  BY <1>7 DEF TypeOK, ParkedTaskStarted, AggregateRun
<1>8. ASSUME NEW r \in Runs, ApplyCancelCommand(r)
      PROVE  ParkedTaskStarted'
  BY <1>8 DEF TypeOK, ParkedTaskStarted, ApplyCancelCommand, CancelTasks,
     TasksOf
<1>9. ASSUME NEW r \in Runs, FinalizeCancelCommand(r)
      PROVE  ParkedTaskStarted'
  BY <1>9 DEF TypeOK, ParkedTaskStarted, FinalizeCancelCommand, CancelTasks,
     TasksOf
<1>10. ASSUME NEW r \in Runs, MarkCancelIndeterminate(r)
       PROVE  ParkedTaskStarted'
  BY <1>10 DEF TypeOK, ParkedTaskStarted, RowsAgree, RowAgrees,
     AttemptFollowsTask, MarkCancelIndeterminate
<1>11. ASSUME NEW r \in Runs, NEW retry \in SUBSET Unsettled(r),
              ApplyResumeCommand(r, retry)
       PROVE  ParkedTaskStarted'
  BY <1>11 DEF TypeOK, ParkedTaskStarted, RowsAgree, RowAgrees,
     AttemptFollowsTask, ApplyResumeCommand, Unsettled
<1>12. ASSUME NEW w \in Workers, AbandonWorkerClaims(w)
       PROVE  ParkedTaskStarted'
  BY <1>12 DEF TypeOK, ParkedTaskStarted, AbandonWorkerClaims
<1>13. ASSUME \/ \E w \in Workers, t \in Tasks : ClaimNext(w, t)
              \/ \E t \in Tasks : LeaseExpires(t)
       PROVE  ParkedTaskStarted'
  BY <1>13 DEF TypeOK, ParkedTaskStarted, ClaimNext, LeaseExpires
<1>14. ASSUME NEW Rs \in {Runs} \cup {{r} : r \in Runs}, NEW Due \in SUBSET Tasks,
              RecoverExpiredLeases(Rs, Due)
       PROVE  ParkedTaskStarted'
  BY <1>14 DEF TypeOK, ParkedTaskStarted, RecoverExpiredLeases, RecoveryStatus,
     LostClaims
<1>15. ASSUME NEW t \in Tasks, ConfirmTask(t)
       PROVE  ParkedTaskStarted'
  BY <1>15 DEF TypeOK, ParkedTaskStarted, ConfirmTask
<1>16. CASE UNCHANGED vars
  BY <1>16 DEF vars, TypeOK, ParkedTaskStarted
<1>17. ASSUME NEW t \in Tasks, NEW g \in Generations, HolderStep(t, g)
       PROVE  ParkedTaskStarted'
  BY <1>1, <1>2, <1>3, <1>4, <1>5, <1>17 DEF HolderStep
<1>18. ASSUME NEW r \in Runs, RunStep(r)
       PROVE  ParkedTaskStarted'
  BY <1>6, <1>7, <1>8, <1>9, <1>10, <1>11, <1>18 DEF RunStep
<1>19. CASE QueueStep
  BY <1>12, <1>13, <1>14, <1>15, <1>19 DEF QueueStep
<1>20. QED
  BY <1>16, <1>17, <1>18, <1>19 DEF Next

-----------------------------------------------------------------------------
(***************************************************************************)
(* Tasks and their attempts.                                               *)
(***************************************************************************)

(* Closing every open attempt of a task that stops being held.             *)
LEMMA ClosingKeepsRow ==
    ASSUME TypeOK, NEW u \in Tasks, RowAgrees(u), taskStatus[u] # "succeeded",
           NEW from, from \subseteq OpenAttempt, NEW s \in {"failed", "cancelled"},
           \A g \in Generations : attempt[u][g] \in OpenAttempt => attempt[u][g] \in from,
           taskStatus'[u] \in {"ready", "blocked", "cancelled"},
           generation'[u] = generation[u],
           attempt'[u] = CloseAttempts(u, from, s)
    PROVE  RowAgrees(u)'
<1>a. Generations \subseteq Int /\ generation[u] \in Int
  BY TaskQueueAssumption DEF TypeOK, Generations
<1>b. generation[u] > 0 => generation[u] \in Generations
  BY TaskQueueAssumption DEF TypeOK, Generations
<1>1. \A g \in Generations :
          attempt'[u][g] = IF attempt[u][g] \in OpenAttempt THEN s ELSE attempt[u][g]
  BY DEF CloseAttempts
<1>2. AttemptFollowsTask(u)'
  BY <1>a, <1>b, <1>1 DEF RowAgrees, AttemptFollowsTask, NewestCounts, OpenAttempt, Active
<1>3. NewestCounts(u)'
  BY <1>a, <1>1 DEF RowAgrees, NewestCounts, OpenAttempt
<1>4. NoneLeftOpen(u)'
  BY <1>1 DEF NoneLeftOpen, OpenAttempt
<1>5. QED
  BY <1>2, <1>3, <1>4 DEF RowAgrees

(* Every transaction moves a task and its attempts together.               *)
LEMMA RowsAgreeStep ==
    TypeOK /\ RowsAgree /\ DependencyOrder /\ [Next]_vars => RowsAgree'
<1> SUFFICES ASSUME TypeOK, RowsAgree, DependencyOrder, [Next]_vars, NEW u \in Tasks
             PROVE  RowAgrees(u)'
  BY DEF RowsAgree
<1> USE TaskQueueAssumption
<1>a. Generations \subseteq Int /\ generation[u] \in Int
  BY DEF TypeOK, Generations
<1>b. generation[u] > 0 => generation[u] \in Generations
  BY DEF TypeOK, Generations
<1>c. taskStatus \in [Tasks -> TaskStatuses] /\ attempt \in [Tasks -> [Generations -> AttemptStatuses]]
  BY DEF TypeOK
<1>d. RowAgrees(u)
  BY DEF RowsAgree
<1>1. ASSUME NEW t \in Tasks, NEW g \in Generations,
             NEW s \in {"planning", "ready", "running"}, AdvanceRun(t, g, s)
      PROVE  RowAgrees(u)'
  BY <1>1, <1>a, <1>b, <1>c, <1>d DEF RowAgrees, AttemptFollowsTask, NewestCounts,
     NoneLeftOpen, Active, Final, OpenAttempt, AdvanceRun, HoldsClaim,
     FenceHolds, RunTransitions
<1>2. ASSUME NEW t \in Tasks, NEW g \in Generations, ExecutorStartTask(t, g)
      PROVE  RowAgrees(u)'
  BY <1>2, <1>a, <1>b, <1>c, <1>d DEF RowAgrees, AttemptFollowsTask, NewestCounts,
     NoneLeftOpen, Active, Final, OpenAttempt, ExecutorStartTask, FenceHolds
<1>3. ASSUME NEW t \in Tasks, NEW g \in Generations, BeginValidating(t, g)
      PROVE  RowAgrees(u)'
  BY <1>3, <1>a, <1>b, <1>c, <1>d DEF RowAgrees, AttemptFollowsTask, NewestCounts,
     NoneLeftOpen, Active, Final, OpenAttempt, BeginValidating, FenceHolds
<1>4. ASSUME NEW t \in Tasks, NEW g \in Generations,
             NEW outputs \in {produced, produced \cup {t}},
             CommitValidatedTask(t, g, outputs)
      PROVE  RowAgrees(u)'
  BY <1>4, <1>a, <1>b, <1>c, <1>d DEF RowAgrees, AttemptFollowsTask, NewestCounts,
     NoneLeftOpen, Active, Final, OpenAttempt, CommitValidatedTask, HoldsClaim,
     FenceHolds, Unblocked
<1>5. ASSUME NEW t \in Tasks, NEW g \in Generations, FailTask(t, g)
      PROVE  RowAgrees(u)'
  BY <1>5, <1>a, <1>b, <1>c, <1>d DEF RowAgrees, AttemptFollowsTask, NewestCounts,
     NoneLeftOpen, Active, Final, OpenAttempt, FailTask, HoldsClaim, FenceHolds
<1>6. ASSUME NEW t \in Tasks, NEW g \in Generations, FailAttempt(t, g)
      PROVE  RowAgrees(u)'
  BY <1>6, <1>a, <1>b, <1>c, <1>d DEF RowAgrees, AttemptFollowsTask, NewestCounts,
     NoneLeftOpen, Active, Final, OpenAttempt, FailAttempt, FenceHolds
<1>7. ASSUME NEW t \in Tasks, NEW g \in Generations, NEW code \in ErrorCodes,
             ScheduleRetry(t, g, code)
      PROVE  RowAgrees(u)'
  BY <1>7, <1>a, <1>b, <1>c, <1>d DEF RowAgrees, AttemptFollowsTask, NewestCounts,
     NoneLeftOpen, Active, Final, OpenAttempt, ScheduleRetry, HoldsClaim,
     FenceHolds
<1>8. ASSUME NEW t \in Tasks, NEW g \in Generations, Release(t, g)
      PROVE  RowAgrees(u)'
  BY <1>8, <1>a, <1>b, <1>c, <1>d DEF RowAgrees, AttemptFollowsTask, NewestCounts,
     NoneLeftOpen, Active, Final, OpenAttempt, Release
<1>9. ASSUME NEW r \in Runs, EnqueueRun(r)
      PROVE  RowAgrees(u)'
  <2>1. attempt'[u] = attempt[u] /\ generation'[u] = generation[u]
    BY <1>9 DEF EnqueueRun
  <2>2. PICK C \in SUBSET TasksOf(r) :
           /\ Cascade(r, C)
           /\ \/ taskStatus'[u] = taskStatus[u]
              \/ taskStatus[u] \in {"blocked", "ready"} /\ taskStatus'[u] \in {"blocked", "ready"}
              \/ u \in C /\ taskStatus'[u] = "cancelled"
    BY <1>9, <1>c DEF EnqueueRun
  <2>3. C \subseteq Tasks
    BY DEF TasksOf
  <2>4. u \in C => taskStatus[u] = "blocked"
    BY <2>2, <2>3, CascadeIsBlocked
  <2>5. QED
    BY <1>d, <2>1, <2>2, <2>4 DEF RowAgrees, AttemptFollowsTask, NewestCounts, NoneLeftOpen, Active
<1>10. ASSUME NEW r \in Runs, AggregateRun(r)
       PROVE  RowAgrees(u)'
  BY <1>10, <1>a, <1>b, <1>c, <1>d DEF RowAgrees, AttemptFollowsTask, NewestCounts,
     NoneLeftOpen, Active, Final, OpenAttempt, AggregateRun, Aggregated
<1>11. ASSUME NEW r \in Runs, ApplyCancelCommand(r)
       PROVE  RowAgrees(u)'
  <2>1. generation'[u] = generation[u]
    BY <1>11 DEF ApplyCancelCommand, CancelTasks
  <2>2. CASE u \in TasksOf(r) /\ taskStatus[u] \notin Active \cup Final
    <3>1. taskStatus[u] # "succeeded" /\ taskStatus'[u] \in {"cancelled"}
      BY <1>11, <1>c, <2>2 DEF ApplyCancelCommand, CancelTasks, Active, Final
    <3>2. attempt'[u] = CloseAttempts(u, OpenAttempt, "cancelled")
      BY <1>11, <1>c, <2>2 DEF ApplyCancelCommand, CancelTasks
    <3>3. QED
      BY <1>d, <2>1, <3>1, <3>2, ClosingKeepsRow DEF OpenAttempt
  <2>3. CASE ~(u \in TasksOf(r) /\ taskStatus[u] \notin Active \cup Final)
    <3>1. taskStatus'[u] = taskStatus[u] /\ attempt'[u] = attempt[u]
      BY <1>11, <1>c, <2>3 DEF ApplyCancelCommand, CancelTasks
    <3>2. QED
      BY <1>d, <2>1, <3>1 DEF RowAgrees, AttemptFollowsTask, NewestCounts, NoneLeftOpen
  <2>4. QED
    BY <2>2, <2>3
<1>12. ASSUME NEW r \in Runs, FinalizeCancelCommand(r)
       PROVE  RowAgrees(u)'
  <2>1. generation'[u] = generation[u]
    BY <1>12 DEF FinalizeCancelCommand, CancelTasks
  <2>2. CASE u \in TasksOf(r) /\ taskStatus[u] \notin Final
    <3>1. taskStatus[u] # "succeeded" /\ taskStatus'[u] \in {"cancelled"}
      BY <1>12, <1>c, <2>2 DEF FinalizeCancelCommand, CancelTasks, Active, Final
    <3>2. attempt'[u] = CloseAttempts(u, OpenAttempt, "cancelled")
      BY <1>12, <1>c, <2>2 DEF FinalizeCancelCommand, CancelTasks
    <3>3. QED
      BY <1>d, <2>1, <3>1, <3>2, ClosingKeepsRow DEF OpenAttempt
  <2>3. CASE ~(u \in TasksOf(r) /\ taskStatus[u] \notin Final)
    <3>1. taskStatus'[u] = taskStatus[u] /\ attempt'[u] = attempt[u]
      BY <1>12, <1>c, <2>3 DEF FinalizeCancelCommand, CancelTasks
    <3>2. QED
      BY <1>d, <2>1, <3>1 DEF RowAgrees, AttemptFollowsTask, NewestCounts, NoneLeftOpen
  <2>4. QED
    BY <2>2, <2>3
<1>13. ASSUME NEW r \in Runs, MarkCancelIndeterminate(r)
       PROVE  RowAgrees(u)'
  BY <1>13, <1>a, <1>b, <1>c, <1>d DEF RowAgrees, AttemptFollowsTask, NewestCounts,
     NoneLeftOpen, Active, Final, OpenAttempt, MarkCancelIndeterminate, TasksOf
<1>14. ASSUME NEW r \in Runs, NEW retry \in SUBSET Unsettled(r),
              ApplyResumeCommand(r, retry)
       PROVE  RowAgrees(u)'
  <2>1. generation'[u] = generation[u]
    BY <1>14 DEF ApplyResumeCommand, Unsettled
  <2>2. CASE u \in Unsettled(r)
    <3>1. taskStatus[u] # "succeeded" /\ taskStatus'[u] \in {"ready", "blocked"}
      BY <1>14, <1>c, <2>2 DEF ApplyResumeCommand, Unsettled, Active, Final
    <3>2. attempt'[u] = CloseAttempts(u, OpenAttempt, "failed")
      BY <1>14, <1>c, <2>2 DEF ApplyResumeCommand, Unsettled
    <3>3. QED
      BY <1>d, <2>1, <3>1, <3>2, ClosingKeepsRow DEF OpenAttempt
  <2>3. CASE ~(u \in Unsettled(r))
    <3>1. taskStatus'[u] = taskStatus[u] /\ attempt'[u] = attempt[u]
      BY <1>14, <1>c, <2>3 DEF ApplyResumeCommand, Unsettled
    <3>2. QED
      BY <1>d, <2>1, <3>1 DEF RowAgrees, AttemptFollowsTask, NewestCounts, NoneLeftOpen
  <2>4. QED
    BY <2>2, <2>3
<1>15. ASSUME NEW w \in Workers, AbandonWorkerClaims(w)
       PROVE  RowAgrees(u)'
  <2>1. generation'[u] = generation[u]
    BY <1>15 DEF AbandonWorkerClaims
  <2>2. CASE taskStatus'[u] = taskStatus[u] /\ attempt'[u] = attempt[u]
    BY <1>d, <2>1, <2>2 DEF RowAgrees, AttemptFollowsTask, NewestCounts, NoneLeftOpen
  <2>3. CASE /\ taskStatus[u] \in Active
             /\ taskStatus'[u] = "cancelled"
             /\ attempt'[u] = CloseAttempts(u, {"leased", "running"}, "cancelled")
    <3>1. \A g \in Generations :
             attempt[u][g] \in OpenAttempt => attempt[u][g] \in {"leased", "running"}
      <4>1. attempt[u][generation[u]] # "retry_wait"
        BY <1>d, <2>3 DEF RowAgrees, AttemptFollowsTask
      <4>2. ASSUME NEW g \in Generations, attempt[u][g] \in OpenAttempt
            PROVE  g = generation[u]
        BY <1>a, <1>d, <4>2 DEF RowAgrees, NewestCounts, OpenAttempt
      <4>3. QED
        BY <4>1, <4>2 DEF OpenAttempt
    <3>2. QED
      BY <1>d, <2>1, <2>3, <3>1, ClosingKeepsRow DEF OpenAttempt, Active
  <2>4. QED
    BY <1>15, <1>c, <2>2, <2>3 DEF AbandonWorkerClaims
<1>16. ASSUME NEW w \in Workers, NEW t \in Tasks, ClaimNext(w, t)
       PROVE  RowAgrees(u)'
  <2>1. CASE u = t
    <3>1. /\ generation'[u] = generation[u] + 1
          /\ generation'[u] \in Generations
          /\ taskStatus[u] = "ready" /\ taskStatus'[u] = "leased"
          /\ attempt'[u] = [attempt[u] EXCEPT ![generation'[u]] = "leased"]
      BY <1>16, <1>a, <1>c, <2>1 DEF TypeOK, ClaimNext, Claimable, Generations
    <3>2. \A g \in Generations :
             attempt'[u][g] = IF g = generation'[u] THEN "leased" ELSE attempt[u][g]
      BY <1>c, <3>1
    <3>3. \A g \in Generations : g <= generation[u] => attempt[u][g] \in {"failed", "cancelled"}
      <4>1. ASSUME NEW g \in Generations, g = generation[u]
            PROVE  attempt[u][g] \in {"failed", "cancelled"}
        <5>1. attempt[u][g] \notin OpenAttempt \cup {"absent", "succeeded"}
          BY <1>a, <1>d, <3>1, <4>1
             DEF RowAgrees, AttemptFollowsTask, NewestCounts, NoneLeftOpen, Generations
        <5>2. attempt[u][g] \in AttemptStatuses
          BY <1>c, <4>1
        <5>3. QED
          BY <5>1, <5>2 DEF AttemptStatuses, OpenAttempt, Final
      <4>2. ASSUME NEW g \in Generations, g < generation[u]
            PROVE  attempt[u][g] \in {"failed", "cancelled"}
        BY <1>d, <4>2 DEF RowAgrees, NewestCounts
      <4>3. QED
        BY <1>a, <4>1, <4>2
    <3>4. AttemptFollowsTask(u)'
      BY <3>1, <3>2 DEF AttemptFollowsTask, Generations
    <3>5. NewestCounts(u)'
      BY <1>a, <1>d, <3>1, <3>2, <3>3 DEF RowAgrees, NewestCounts
    <3>6. NoneLeftOpen(u)'
      BY <3>1 DEF NoneLeftOpen
    <3>7. QED
      BY <3>4, <3>5, <3>6 DEF RowAgrees
  <2>2. CASE u # t
    <3>1. /\ taskStatus'[u] = taskStatus[u] /\ generation'[u] = generation[u]
          /\ attempt'[u] = attempt[u]
      BY <1>16, <1>c, <2>2 DEF TypeOK, ClaimNext
    <3>2. QED
      BY <1>d, <3>1 DEF RowAgrees, AttemptFollowsTask, NewestCounts, NoneLeftOpen
  <2>3. QED
    BY <2>1, <2>2
<1>17. ASSUME NEW Rs \in {Runs} \cup {{r} : r \in Runs}, NEW Due \in SUBSET Tasks,
              RecoverExpiredLeases(Rs, Due)
       PROVE  RowAgrees(u)'
  <2>1. generation'[u] = generation[u]
    BY <1>17 DEF RecoverExpiredLeases
  <2>2. CASE u \in Due
    <3>1. taskStatus[u] = "retry_wait" /\ taskStatus'[u] = "ready"
      BY <1>17, <2>2 DEF RecoverExpiredLeases
    <3>2. attempt'[u] = CloseAttempts(u, {"retry_wait"}, "failed")
      BY <1>17, <2>2 DEF RecoverExpiredLeases
    <3>3. \A g \in Generations :
             attempt[u][g] \in OpenAttempt => attempt[u][g] \in {"retry_wait"}
      BY <1>a, <1>d, <3>1 DEF RowAgrees, AttemptFollowsTask, NewestCounts, OpenAttempt
    <3>4. QED
      BY <1>d, <2>1, <3>1, <3>2, <3>3, ClosingKeepsRow DEF OpenAttempt
  <2>3. CASE u \notin Due /\ u \in LostClaims(Rs)
    <3>1. taskStatus[u] \in Active /\ taskStatus'[u] = RecoveryStatus(u)
      BY <1>17, <2>3 DEF RecoverExpiredLeases, LostClaims
    <3>2. attempt'[u] = RecoveredAttempts(u)
      BY <1>17, <2>3 DEF RecoverExpiredLeases
    <3>3. taskStatus'[u] \in {"blocked", "retry_wait", "failed"}
      BY <3>1 DEF RecoveryStatus
    <3>4. \A g \in Generations :
             attempt'[u][g] = IF g = generation[u] /\ attempt[u][g] \in OpenAttempt
                              THEN IF taskStatus'[u] = "retry_wait" THEN "retry_wait" ELSE "failed"
                              ELSE attempt[u][g]
      BY <3>1, <3>2 DEF RecoveredAttempts
    <3>5. generation[u] \in Generations /\ attempt[u][generation[u]] # "absent"
      BY <1>b, <1>d, <3>1 DEF RowAgrees, AttemptFollowsTask
    <3>6. AttemptFollowsTask(u)'
      BY <2>1, <3>3, <3>4, <3>5 DEF AttemptFollowsTask, Active, Generations, OpenAttempt
    <3>7. NewestCounts(u)'
      <4>1. ASSUME NEW g \in Generations
            PROVE  /\ g < generation[u] => attempt'[u][g] \in {"failed", "cancelled"}
                   /\ g > generation[u] => attempt'[u][g] = "absent"
        BY <1>a, <1>d, <3>4, <4>1 DEF RowAgrees, NewestCounts
      <4>2. ASSUME NEW g \in Generations
            PROVE  attempt'[u][g] # "succeeded"
        BY <1>d, <3>1, <3>4, <4>2 DEF RowAgrees, NewestCounts, Active
      <4>3. QED
        BY <2>1, <3>3, <4>1, <4>2 DEF NewestCounts
    <3>8. NoneLeftOpen(u)'
      <4>1. ASSUME NEW g \in Generations, attempt[u][g] \in OpenAttempt
            PROVE  g = generation[u]
        BY <1>a, <1>d, <4>1 DEF RowAgrees, NewestCounts, OpenAttempt
      <4>2. QED
        BY <3>3, <3>4, <4>1 DEF NoneLeftOpen, OpenAttempt
    <3>9. QED
      BY <3>6, <3>7, <3>8 DEF RowAgrees
  <2>4. CASE u \notin Due /\ u \notin LostClaims(Rs)
    <3>1. taskStatus'[u] = taskStatus[u] /\ attempt'[u] = attempt[u]
      BY <1>17, <1>c, <2>4 DEF RecoverExpiredLeases
    <3>2. QED
      BY <1>d, <2>1, <3>1 DEF RowAgrees, AttemptFollowsTask, NewestCounts, NoneLeftOpen
  <2>5. QED
    BY <2>2, <2>3, <2>4
<1>18. ASSUME NEW t \in Tasks, LeaseExpires(t)
       PROVE  RowAgrees(u)'
  BY <1>18, <1>a, <1>b, <1>c, <1>d DEF RowAgrees, AttemptFollowsTask, NewestCounts,
     NoneLeftOpen, Active, Final, OpenAttempt, LeaseExpires
<1>19. ASSUME NEW t \in Tasks, ConfirmTask(t)
       PROVE  RowAgrees(u)'
  BY <1>19, <1>a, <1>b, <1>c, <1>d DEF RowAgrees, AttemptFollowsTask, NewestCounts,
     NoneLeftOpen, Active, Final, OpenAttempt, ConfirmTask
<1>20. CASE UNCHANGED vars
  BY <1>20, <1>a, <1>b, <1>c, <1>d DEF vars, TypeOK, RowAgrees, AttemptFollowsTask, NewestCounts,
     NoneLeftOpen, Active, Final, OpenAttempt
<1>21. ASSUME NEW t \in Tasks, NEW g \in Generations, HolderStep(t, g)
       PROVE  RowAgrees(u)'
  BY <1>1, <1>2, <1>3, <1>4, <1>5, <1>6, <1>7, <1>8, <1>21 DEF HolderStep
<1>22. ASSUME NEW r \in Runs, RunStep(r)
       PROVE  RowAgrees(u)'
  BY <1>9, <1>10, <1>11, <1>12, <1>13, <1>14, <1>22 DEF RunStep
<1>23. CASE QueueStep
  BY <1>15, <1>16, <1>17, <1>18, <1>19, <1>23 DEF QueueStep
<1>24. QED
  BY <1>20, <1>21, <1>22, <1>23 DEF Next

-----------------------------------------------------------------------------
(***************************************************************************)
(* Active tasks without a lease.                                           *)
(***************************************************************************)

(* An active task loses its lease only when a cancel command gives up on   *)
(* its whole run, and until a resume command the run stands still.         *)
LEMMA StrandedStep ==
    TypeOK /\ StrandedRunIsQuiet /\ NoStrandedClaim /\ [Next]_vars =>
        StrandedRunIsQuiet' /\ NoStrandedClaim'
<1> SUFFICES ASSUME TypeOK, StrandedRunIsQuiet, NoStrandedClaim, [Next]_vars,
                    NEW u \in Tasks, NEW v \in Tasks, RunOf[v] = RunOf[u],
                    taskStatus'[u] \in Active, lease'[u] = "none", taskStatus'[v] \in Active
             PROVE  /\ lease'[v] # "live"
                    /\ runStatus'[RunOf[u]] \in {"awaiting_input", "cancelling"}
  BY DEF StrandedRunIsQuiet, NoStrandedClaim, NoLiveClaim
<1> USE TaskQueueAssumption
<1>a. /\ RunOf[u] \in Runs
      /\ \A t \in Tasks : RunOf[t] \in Runs
      /\ runStatus \in [Runs -> RunStatuses]
      /\ taskStatus \in [Tasks -> TaskStatuses]
      /\ lease \in [Tasks -> Leases]
  BY DEF TypeOK
<1>b. \A t \in Tasks :
          taskStatus[u] \in Active /\ lease[u] = "none" /\ taskStatus[t] \in Active
              /\ RunOf[t] = RunOf[u] =>
          lease[t] # "live" /\ runStatus[RunOf[u]] \in {"awaiting_input", "cancelling"}
  BY DEF StrandedRunIsQuiet, NoStrandedClaim, NoLiveClaim
<1>1. ASSUME NEW t \in Tasks, NEW g \in Generations,
             NEW s \in {"planning", "ready", "running"}, AdvanceRun(t, g, s)
      PROVE  /\ lease'[v] # "live"
             /\ runStatus'[RunOf[u]] \in {"awaiting_input", "cancelling"}
  BY <1>1, <1>a, <1>b DEF Active, Final, AdvanceRun, HoldsClaim, FenceHolds,
     RunTransitions
<1>2. ASSUME NEW t \in Tasks, NEW g \in Generations, ExecutorStartTask(t, g)
      PROVE  /\ lease'[v] # "live"
             /\ runStatus'[RunOf[u]] \in {"awaiting_input", "cancelling"}
  BY <1>2, <1>a, <1>b DEF Active, Final, ExecutorStartTask, FenceHolds
<1>3. ASSUME NEW t \in Tasks, NEW g \in Generations, BeginValidating(t, g)
      PROVE  /\ lease'[v] # "live"
             /\ runStatus'[RunOf[u]] \in {"awaiting_input", "cancelling"}
  BY <1>3, <1>a, <1>b DEF Active, Final, BeginValidating, FenceHolds
<1>4. ASSUME NEW t \in Tasks, NEW g \in Generations,
             NEW outputs \in {produced, produced \cup {t}},
             CommitValidatedTask(t, g, outputs)
      PROVE  /\ lease'[v] # "live"
             /\ runStatus'[RunOf[u]] \in {"awaiting_input", "cancelling"}
  BY <1>4, <1>a, <1>b DEF Active, Final, CommitValidatedTask, HoldsClaim,
     FenceHolds, Unblocked
<1>5. ASSUME NEW t \in Tasks, NEW g \in Generations, FailTask(t, g)
      PROVE  /\ lease'[v] # "live"
             /\ runStatus'[RunOf[u]] \in {"awaiting_input", "cancelling"}
  BY <1>5, <1>a, <1>b DEF Active, Final, FailTask, HoldsClaim, FenceHolds
<1>6. ASSUME NEW t \in Tasks, NEW g \in Generations, FailAttempt(t, g)
      PROVE  /\ lease'[v] # "live"
             /\ runStatus'[RunOf[u]] \in {"awaiting_input", "cancelling"}
  BY <1>6, <1>a, <1>b DEF Active, Final, FailAttempt, FenceHolds
<1>7. ASSUME NEW t \in Tasks, NEW g \in Generations, NEW code \in ErrorCodes,
             ScheduleRetry(t, g, code)
      PROVE  /\ lease'[v] # "live"
             /\ runStatus'[RunOf[u]] \in {"awaiting_input", "cancelling"}
  BY <1>7, <1>a, <1>b DEF Active, Final, ScheduleRetry, HoldsClaim, FenceHolds
<1>8. ASSUME NEW t \in Tasks, NEW g \in Generations, Release(t, g)
      PROVE  /\ lease'[v] # "live"
             /\ runStatus'[RunOf[u]] \in {"awaiting_input", "cancelling"}
  BY <1>8, <1>a, <1>b DEF Active, Final, Release
<1>9. ASSUME NEW r \in Runs, EnqueueRun(r)
      PROVE  /\ lease'[v] # "live"
             /\ runStatus'[RunOf[u]] \in {"awaiting_input", "cancelling"}
  BY <1>9, <1>a, <1>b DEF Active, Final, EnqueueRun, Cascade, TasksOf
<1>10. ASSUME NEW r \in Runs, AggregateRun(r)
       PROVE  /\ lease'[v] # "live"
              /\ runStatus'[RunOf[u]] \in {"awaiting_input", "cancelling"}
  BY <1>10, <1>a, <1>b DEF Active, Final, AggregateRun, Aggregated
<1>11. ASSUME NEW r \in Runs, ApplyCancelCommand(r)
       PROVE  /\ lease'[v] # "live"
              /\ runStatus'[RunOf[u]] \in {"awaiting_input", "cancelling"}
  BY <1>11, <1>a, <1>b DEF Active, Final, ApplyCancelCommand, CancelTasks,
     TasksOf
<1>12. ASSUME NEW r \in Runs, FinalizeCancelCommand(r)
       PROVE  /\ lease'[v] # "live"
              /\ runStatus'[RunOf[u]] \in {"awaiting_input", "cancelling"}
  BY <1>12, <1>a, <1>b DEF Active, Final, FinalizeCancelCommand, CancelTasks,
     TasksOf
<1>13. ASSUME NEW r \in Runs, MarkCancelIndeterminate(r)
       PROVE  /\ lease'[v] # "live"
              /\ runStatus'[RunOf[u]] \in {"awaiting_input", "cancelling"}
  BY <1>13, <1>a, <1>b DEF Active, Final, MarkCancelIndeterminate, TasksOf
<1>14. ASSUME NEW r \in Runs, NEW retry \in SUBSET Unsettled(r),
              ApplyResumeCommand(r, retry)
       PROVE  /\ lease'[v] # "live"
              /\ runStatus'[RunOf[u]] \in {"awaiting_input", "cancelling"}
  BY <1>14, <1>a, <1>b DEF Active, Final, ApplyResumeCommand, Unsettled,
     TasksOf
<1>15. ASSUME NEW w \in Workers, AbandonWorkerClaims(w)
       PROVE  /\ lease'[v] # "live"
              /\ runStatus'[RunOf[u]] \in {"awaiting_input", "cancelling"}
  BY <1>15, <1>a, <1>b DEF Active, Final, AbandonWorkerClaims
<1>16. ASSUME NEW w \in Workers, NEW t \in Tasks, ClaimNext(w, t)
       PROVE  /\ lease'[v] # "live"
              /\ runStatus'[RunOf[u]] \in {"awaiting_input", "cancelling"}
  <2>1. runStatus[RunOf[t]] \notin {"awaiting_input", "cancelling"} /\ lease'[t] = "live"
    BY <1>16, <1>a DEF ClaimNext, Claimable, Unclaimable
  <2>2. \A x \in Tasks \ {t} : taskStatus'[x] = taskStatus[x] /\ lease'[x] = lease[x]
    BY <1>16, <1>a DEF ClaimNext
  <2>3. runStatus' = runStatus
    BY <1>16 DEF ClaimNext
  <2>4. u # t /\ RunOf[u] # RunOf[t]
    BY <1>b, <2>1, <2>2
  <2>5. v # t
    BY <2>4
  <2>6. QED
    BY <1>b, <2>2, <2>3, <2>4, <2>5
<1>17. ASSUME NEW Rs \in {Runs} \cup {{r} : r \in Runs}, NEW Due \in SUBSET Tasks,
              RecoverExpiredLeases(Rs, Due)
       PROVE  /\ lease'[v] # "live"
              /\ runStatus'[RunOf[u]] \in {"awaiting_input", "cancelling"}
  <2>1. \A x \in {u, v} : taskStatus'[x] = taskStatus[x] /\ lease'[x] = lease[x]
    BY <1>17, <1>a DEF RecoverExpiredLeases, RecoveryStatus, Active
  <2>2. lease[v] # "live" /\ runStatus[RunOf[u]] \in {"awaiting_input", "cancelling"}
    BY <1>b, <2>1
  <2>3. ASSUME NEW Lost \in SUBSET Tasks PROVE Paused(RunOf[u], Lost) = runStatus[RunOf[u]]
    BY <2>2 DEF Paused
  <2>4. runStatus'[RunOf[u]] = runStatus[RunOf[u]]
    BY <1>17, <1>a, <2>2, <2>3 DEF RecoverExpiredLeases, LostClaims, Aggregated
  <2>5. QED
    BY <2>1, <2>2, <2>4
<1>18. ASSUME NEW t \in Tasks, LeaseExpires(t)
       PROVE  /\ lease'[v] # "live"
              /\ runStatus'[RunOf[u]] \in {"awaiting_input", "cancelling"}
  BY <1>18, <1>a, <1>b DEF Active, Final, LeaseExpires
<1>19. ASSUME NEW t \in Tasks, ConfirmTask(t)
       PROVE  /\ lease'[v] # "live"
              /\ runStatus'[RunOf[u]] \in {"awaiting_input", "cancelling"}
  BY <1>19, <1>a, <1>b DEF Active, Final, ConfirmTask
<1>20. CASE UNCHANGED vars
  BY <1>20, <1>a, <1>b DEF vars, Active, Final
<1>21. ASSUME NEW t \in Tasks, NEW g \in Generations, HolderStep(t, g)
       PROVE  /\ lease'[v] # "live"
              /\ runStatus'[RunOf[u]] \in {"awaiting_input", "cancelling"}
  BY <1>1, <1>2, <1>3, <1>4, <1>5, <1>6, <1>7, <1>8, <1>21 DEF HolderStep
<1>22. ASSUME NEW r \in Runs, RunStep(r)
       PROVE  /\ lease'[v] # "live"
              /\ runStatus'[RunOf[u]] \in {"awaiting_input", "cancelling"}
  BY <1>9, <1>10, <1>11, <1>12, <1>13, <1>14, <1>22 DEF RunStep
<1>23. CASE QueueStep
  BY <1>15, <1>16, <1>17, <1>18, <1>19, <1>23 DEF QueueStep
<1>24. QED
  BY <1>20, <1>21, <1>22, <1>23 DEF Next

-----------------------------------------------------------------------------
(***************************************************************************)
(* The retry budget.                                                       *)
(***************************************************************************)

(* A spent task comes back only through a resume command: recovery and     *)
(* scheduled retries look at the budget, and everything else that makes a  *)
(* task ready finds it waiting already.                                    *)
LEMMA SpentStep ==
    TypeOK /\ SpentTaskWaits /\ [Next]_vars => SpentTaskWaits'
<1> SUFFICES ASSUME TypeOK, SpentTaskWaits, [Next]_vars,
                    NEW u \in Tasks \ SideEffect, NEW v \in Tasks, RunOf[v] = RunOf[u],
                    generation'[u] >= MaxAttempts[u],
                    taskStatus'[u] \in {"blocked", "ready", "retry_wait"},
                    RunOf[u] \notin resumed'
             PROVE  /\ runStatus'[RunOf[u]] \in Unclaimable
                    /\ ~(taskStatus'[v] \in Active /\ lease'[v] = "live")
  BY DEF SpentTaskWaits, NoLiveClaim
<1> USE TaskQueueAssumption
<1>a. /\ RunOf[u] \in Runs
      /\ \A t \in Tasks : RunOf[t] \in Runs
      /\ runStatus \in [Runs -> RunStatuses]
      /\ taskStatus \in [Tasks -> TaskStatuses]
      /\ lease \in [Tasks -> Leases]
      /\ generation \in [Tasks -> 0 .. MaxGeneration]
      /\ generation[u] \in Int /\ MaxAttempts[u] \in Int
  BY DEF TypeOK
<1>b. /\ generation[u] >= MaxAttempts[u]
      /\ taskStatus[u] \in {"blocked", "ready", "retry_wait"}
      /\ RunOf[u] \notin resumed
      => /\ runStatus[RunOf[u]] \in Unclaimable
         /\ \A t \in Tasks : RunOf[t] = RunOf[u] /\ taskStatus[t] \in Active => lease[t] # "live"
  BY DEF SpentTaskWaits, NoLiveClaim
<1>1. ASSUME NEW t \in Tasks, NEW g \in Generations,
             NEW s \in {"planning", "ready", "running"}, AdvanceRun(t, g, s)
      PROVE  /\ runStatus'[RunOf[u]] \in Unclaimable
             /\ ~(taskStatus'[v] \in Active /\ lease'[v] = "live")
  BY <1>1, <1>a, <1>b DEF Active, Final, Unclaimable, FinalRun, AdvanceRun,
     HoldsClaim, FenceHolds, RunTransitions
<1>2. ASSUME NEW t \in Tasks, NEW g \in Generations, ExecutorStartTask(t, g)
      PROVE  /\ runStatus'[RunOf[u]] \in Unclaimable
             /\ ~(taskStatus'[v] \in Active /\ lease'[v] = "live")
  BY <1>2, <1>a, <1>b DEF Active, Final, Unclaimable, FinalRun,
     ExecutorStartTask, FenceHolds
<1>3. ASSUME NEW t \in Tasks, NEW g \in Generations, BeginValidating(t, g)
      PROVE  /\ runStatus'[RunOf[u]] \in Unclaimable
             /\ ~(taskStatus'[v] \in Active /\ lease'[v] = "live")
  BY <1>3, <1>a, <1>b DEF Active, Final, Unclaimable, FinalRun,
     BeginValidating, FenceHolds
<1>4. ASSUME NEW t \in Tasks, NEW g \in Generations,
             NEW outputs \in {produced, produced \cup {t}},
             CommitValidatedTask(t, g, outputs)
      PROVE  /\ runStatus'[RunOf[u]] \in Unclaimable
             /\ ~(taskStatus'[v] \in Active /\ lease'[v] = "live")
  BY <1>4, <1>a, <1>b DEF Active, Final, Unclaimable, FinalRun,
     CommitValidatedTask, HoldsClaim, FenceHolds, Unblocked
<1>5. ASSUME NEW t \in Tasks, NEW g \in Generations, FailTask(t, g)
      PROVE  /\ runStatus'[RunOf[u]] \in Unclaimable
             /\ ~(taskStatus'[v] \in Active /\ lease'[v] = "live")
  BY <1>5, <1>a, <1>b DEF Active, Final, Unclaimable, FinalRun, FailTask,
     HoldsClaim, FenceHolds
<1>6. ASSUME NEW t \in Tasks, NEW g \in Generations,
             \/ FailAttempt(t, g)
             \/ Release(t, g)
      PROVE  /\ runStatus'[RunOf[u]] \in Unclaimable
             /\ ~(taskStatus'[v] \in Active /\ lease'[v] = "live")
  BY <1>6, <1>a, <1>b DEF Active, Final, Unclaimable, FinalRun, FailAttempt,
     Release
<1>7. ASSUME NEW t \in Tasks, NEW g \in Generations, NEW code \in ErrorCodes,
             ScheduleRetry(t, g, code)
      PROVE  /\ runStatus'[RunOf[u]] \in Unclaimable
             /\ ~(taskStatus'[v] \in Active /\ lease'[v] = "live")
  BY <1>7, <1>a, <1>b DEF Active, Final, Unclaimable, FinalRun, ScheduleRetry,
     HoldsClaim, FenceHolds
<1>8. ASSUME NEW r \in Runs, EnqueueRun(r)
      PROVE  /\ runStatus'[RunOf[u]] \in Unclaimable
             /\ ~(taskStatus'[v] \in Active /\ lease'[v] = "live")
  BY <1>8, <1>a, <1>b DEF Active, Final, Unclaimable, FinalRun, EnqueueRun,
     Cascade, TasksOf
<1>9. ASSUME NEW r \in Runs, AggregateRun(r)
      PROVE  /\ runStatus'[RunOf[u]] \in Unclaimable
             /\ ~(taskStatus'[v] \in Active /\ lease'[v] = "live")
  BY <1>9, <1>a, <1>b DEF Active, Final, Unclaimable, FinalRun, AggregateRun,
     Aggregated
<1>10. ASSUME NEW r \in Runs, ApplyCancelCommand(r)
       PROVE  /\ runStatus'[RunOf[u]] \in Unclaimable
              /\ ~(taskStatus'[v] \in Active /\ lease'[v] = "live")
  BY <1>10, <1>a, <1>b DEF Active, Final, Unclaimable, FinalRun,
     ApplyCancelCommand, CancelTasks, TasksOf
<1>11. ASSUME NEW r \in Runs, FinalizeCancelCommand(r)
       PROVE  /\ runStatus'[RunOf[u]] \in Unclaimable
              /\ ~(taskStatus'[v] \in Active /\ lease'[v] = "live")
  BY <1>11, <1>a, <1>b DEF Active, Final, Unclaimable, FinalRun,
     FinalizeCancelCommand, CancelTasks, TasksOf
<1>12. ASSUME NEW r \in Runs, MarkCancelIndeterminate(r)
       PROVE  /\ runStatus'[RunOf[u]] \in Unclaimable
              /\ ~(taskStatus'[v] \in Active /\ lease'[v] = "live")
  BY <1>12, <1>a, <1>b DEF Active, Final, Unclaimable, FinalRun,
     MarkCancelIndeterminate, TasksOf
<1>13. ASSUME NEW r \in Runs, NEW retry \in SUBSET Unsettled(r),
              ApplyResumeCommand(r, retry)
       PROVE  /\ runStatus'[RunOf[u]] \in Unclaimable
              /\ ~(taskStatus'[v] \in Active /\ lease'[v] = "live")
  BY <1>13, <1>a, <1>b DEF Active, Final, Unclaimable, FinalRun,
     ApplyResumeCommand, Unsettled, TasksOf
<1>14. ASSUME NEW w \in Workers, AbandonWorkerClaims(w)
       PROVE  /\ runStatus'[RunOf[u]] \in Unclaimable
              /\ ~(taskStatus'[v] \in Active /\ lease'[v] = "live")
  BY <1>14, <1>a, <1>b DEF Active, Final, Unclaimable, FinalRun,
     AbandonWorkerClaims
<1>15. ASSUME NEW w \in Workers, NEW t \in Tasks, ClaimNext(w, t)
       PROVE  /\ runStatus'[RunOf[u]] \in Unclaimable
              /\ ~(taskStatus'[v] \in Active /\ lease'[v] = "live")
  BY <1>15, <1>a, <1>b DEF Active, Final, Unclaimable, FinalRun, ClaimNext,
     Claimable
<1>16. ASSUME NEW Rs \in {Runs} \cup {{r} : r \in Runs}, NEW Due \in SUBSET Tasks,
              RecoverExpiredLeases(Rs, Due)
       PROVE  /\ runStatus'[RunOf[u]] \in Unclaimable
              /\ ~(taskStatus'[v] \in Active /\ lease'[v] = "live")
  <2>1. taskStatus[u] \in {"blocked", "ready", "retry_wait"}
    BY <1>16, <1>a DEF RecoverExpiredLeases, RecoveryStatus
  <2>2. generation' = generation /\ resumed' = resumed
    BY <1>16 DEF RecoverExpiredLeases
  <2>3. /\ runStatus[RunOf[u]] \in Unclaimable
        /\ ~(taskStatus[v] \in Active /\ lease[v] = "live")
    BY <1>b, <2>1, <2>2
  <2>4. ~(taskStatus'[v] \in Active /\ lease'[v] = "live")
    BY <1>16, <1>a, <2>3 DEF RecoverExpiredLeases, RecoveryStatus, Active
  <2>5. ASSUME NEW Lost \in SUBSET Tasks PROVE Paused(RunOf[u], Lost) = runStatus[RunOf[u]]
    BY <2>3 DEF Paused, Unclaimable, FinalRun
  <2>6. runStatus'[RunOf[u]] = runStatus[RunOf[u]]
    BY <1>16, <1>a, <2>3, <2>5
       DEF RecoverExpiredLeases, LostClaims, Aggregated, Unclaimable, FinalRun
  <2>7. QED
    BY <2>4, <2>3, <2>6
<1>17. ASSUME NEW t \in Tasks, LeaseExpires(t)
       PROVE  /\ runStatus'[RunOf[u]] \in Unclaimable
              /\ ~(taskStatus'[v] \in Active /\ lease'[v] = "live")
  BY <1>17, <1>a, <1>b DEF Active, Final, Unclaimable, FinalRun, LeaseExpires
<1>18. ASSUME NEW t \in Tasks, ConfirmTask(t)
       PROVE  /\ runStatus'[RunOf[u]] \in Unclaimable
              /\ ~(taskStatus'[v] \in Active /\ lease'[v] = "live")
  BY <1>18, <1>a, <1>b DEF Active, Final, Unclaimable, FinalRun, ConfirmTask
<1>19. CASE UNCHANGED vars
  BY <1>19, <1>a, <1>b DEF vars, Active, Final, Unclaimable, FinalRun
<1>20. ASSUME NEW t \in Tasks, NEW g \in Generations, HolderStep(t, g)
       PROVE  /\ runStatus'[RunOf[u]] \in Unclaimable
              /\ ~(taskStatus'[v] \in Active /\ lease'[v] = "live")
  BY <1>1, <1>2, <1>3, <1>4, <1>5, <1>6, <1>7, <1>20 DEF HolderStep
<1>21. ASSUME NEW r \in Runs, RunStep(r)
       PROVE  /\ runStatus'[RunOf[u]] \in Unclaimable
              /\ ~(taskStatus'[v] \in Active /\ lease'[v] = "live")
  BY <1>8, <1>9, <1>10, <1>11, <1>12, <1>13, <1>21 DEF RunStep
<1>22. CASE QueueStep
  BY <1>14, <1>15, <1>16, <1>17, <1>18, <1>22 DEF QueueStep
<1>23. QED
  BY <1>19, <1>20, <1>21, <1>22 DEF Next

(* ... so that only a resumed run claims a task beyond its budget.         *)
LEMMA BudgetStep ==
    TypeOK /\ SpentTaskWaits /\ RetryBudgetKept /\ [Next]_vars => RetryBudgetKept'
<1> SUFFICES ASSUME TypeOK, SpentTaskWaits, RetryBudgetKept, [Next]_vars,
                    NEW u \in Tasks \ SideEffect
             PROVE  generation'[u] > MaxAttempts[u] => RunOf[u] \in resumed'
  BY DEF RetryBudgetKept
<1> USE TaskQueueAssumption
<1>a. /\ generation \in [Tasks -> 0 .. MaxGeneration]
      /\ generation[u] \in Int /\ MaxAttempts[u] \in Int
      /\ generation[u] > MaxAttempts[u] => RunOf[u] \in resumed
  BY DEF TypeOK, RetryBudgetKept
<1>b. /\ generation[u] >= MaxAttempts[u]
      /\ taskStatus[u] = "ready"
      /\ RunOf[u] \notin resumed
      => runStatus[RunOf[u]] \in Unclaimable
  BY DEF SpentTaskWaits
<1>1. ASSUME NEW t \in Tasks, NEW g \in Generations,
             \/ \E s \in {"planning", "ready", "running"} : AdvanceRun(t, g, s)
             \/ ExecutorStartTask(t, g)
             \/ BeginValidating(t, g)
             \/ \E outputs \in {produced, produced \cup {t}} : CommitValidatedTask(t, g, outputs)
             \/ FailTask(t, g)
             \/ FailAttempt(t, g)
             \/ \E code \in ErrorCodes : ScheduleRetry(t, g, code)
             \/ Release(t, g)
      PROVE  generation'[u] > MaxAttempts[u] => RunOf[u] \in resumed'
  BY <1>1, <1>a, <1>b DEF AdvanceRun, ExecutorStartTask, BeginValidating,
     CommitValidatedTask, FailTask, FailAttempt, ScheduleRetry, Release
<1>2. ASSUME NEW r \in Runs,
             \/ EnqueueRun(r)
             \/ AggregateRun(r)
             \/ ApplyCancelCommand(r)
             \/ FinalizeCancelCommand(r)
             \/ MarkCancelIndeterminate(r)
      PROVE  generation'[u] > MaxAttempts[u] => RunOf[u] \in resumed'
  BY <1>2, <1>a, <1>b DEF EnqueueRun, AggregateRun, ApplyCancelCommand,
     FinalizeCancelCommand, MarkCancelIndeterminate
<1>3. ASSUME NEW r \in Runs, NEW retry \in SUBSET Unsettled(r),
             ApplyResumeCommand(r, retry)
      PROVE  generation'[u] > MaxAttempts[u] => RunOf[u] \in resumed'
  BY <1>3, <1>a, <1>b DEF ApplyResumeCommand, Unsettled, TasksOf
<1>4. ASSUME \/ \E w \in Workers : AbandonWorkerClaims(w)
             \/ \E Rs \in {Runs} \cup {{r} : r \in Runs}, Due \in SUBSET Tasks :
                      RecoverExpiredLeases(Rs, Due)
             \/ \E t \in Tasks : LeaseExpires(t)
             \/ \E t \in Tasks : ConfirmTask(t)
      PROVE  generation'[u] > MaxAttempts[u] => RunOf[u] \in resumed'
  BY <1>4, <1>a, <1>b DEF AbandonWorkerClaims, RecoverExpiredLeases,
     LeaseExpires, ConfirmTask
<1>5. ASSUME NEW w \in Workers, NEW t \in Tasks, ClaimNext(w, t)
      PROVE  generation'[u] > MaxAttempts[u] => RunOf[u] \in resumed'
  BY <1>5, <1>a, <1>b DEF ClaimNext, Claimable
<1>6. CASE UNCHANGED vars
  BY <1>6, <1>a, <1>b DEF vars
<1>7. ASSUME NEW t \in Tasks, NEW g \in Generations, HolderStep(t, g)
      PROVE  generation'[u] > MaxAttempts[u] => RunOf[u] \in resumed'
  BY <1>1, <1>7 DEF HolderStep
<1>8. ASSUME NEW r \in Runs, RunStep(r)
      PROVE  generation'[u] > MaxAttempts[u] => RunOf[u] \in resumed'
  BY <1>2, <1>3, <1>8 DEF RunStep
<1>9. CASE QueueStep
  BY <1>4, <1>5, <1>9 DEF QueueStep
<1>10. QED
  BY <1>6, <1>7, <1>8, <1>9 DEF Next

-----------------------------------------------------------------------------
(***************************************************************************)
(* What a step may never do.                                               *)
(***************************************************************************)

(* Only the commit transaction publishes, and only for a live claim.       *)
LEMMA PublishStep ==
    TypeOK /\ [Next]_vars =>
        /\ produced \subseteq produced'
        /\ \A t \in Tasks :
              \/ taskStatus'[t] = "succeeded" /\ taskStatus[t] # "succeeded"
              \/ t \in produced' \ produced
              => lease[t] = "live" /\ taskStatus[t] \in Active
<1> SUFFICES ASSUME TypeOK, [Next]_vars, NEW u \in Tasks
             PROVE  /\ u \in produced => u \in produced'
                    /\ \/ taskStatus'[u] = "succeeded" /\ taskStatus[u] # "succeeded"
                       \/ u \in produced' \ produced
                       => lease[u] = "live" /\ taskStatus[u] \in Active
  BY DEF TypeOK
<1> USE TaskQueueAssumption
<1>a. /\ \A t \in Tasks : RunOf[t] \in Runs
      /\ runStatus \in [Runs -> RunStatuses]
      /\ taskStatus \in [Tasks -> TaskStatuses]
      /\ generation \in [Tasks -> 0 .. MaxGeneration]
      /\ produced \subseteq Tasks
  BY DEF TypeOK
<1>1. ASSUME NEW t \in Tasks, NEW g \in Generations,
             \/ \E s \in {"planning", "ready", "running"} : AdvanceRun(t, g, s)
             \/ FailAttempt(t, g)
             \/ Release(t, g)
      PROVE  /\ u \in produced => u \in produced'
             /\ \/ taskStatus'[u] = "succeeded" /\ taskStatus[u] # "succeeded"
                \/ u \in produced' \ produced
                => lease[u] = "live" /\ taskStatus[u] \in Active
  BY <1>1, <1>a DEF AdvanceRun, FailAttempt, Release
<1>2. ASSUME NEW t \in Tasks, NEW g \in Generations, ExecutorStartTask(t, g)
      PROVE  /\ u \in produced => u \in produced'
             /\ \/ taskStatus'[u] = "succeeded" /\ taskStatus[u] # "succeeded"
                \/ u \in produced' \ produced
                => lease[u] = "live" /\ taskStatus[u] \in Active
  BY <1>2, <1>a DEF ExecutorStartTask, FenceHolds
<1>3. ASSUME NEW t \in Tasks, NEW g \in Generations, BeginValidating(t, g)
      PROVE  /\ u \in produced => u \in produced'
             /\ \/ taskStatus'[u] = "succeeded" /\ taskStatus[u] # "succeeded"
                \/ u \in produced' \ produced
                => lease[u] = "live" /\ taskStatus[u] \in Active
  BY <1>3, <1>a DEF BeginValidating, FenceHolds
<1>4. ASSUME NEW t \in Tasks, NEW g \in Generations,
             NEW outputs \in {produced, produced \cup {t}},
             CommitValidatedTask(t, g, outputs)
      PROVE  /\ u \in produced => u \in produced'
             /\ \/ taskStatus'[u] = "succeeded" /\ taskStatus[u] # "succeeded"
                \/ u \in produced' \ produced
                => lease[u] = "live" /\ taskStatus[u] \in Active
  BY <1>4, <1>a DEF CommitValidatedTask, HoldsClaim, FenceHolds, Unblocked
<1>5. ASSUME NEW t \in Tasks, NEW g \in Generations, FailTask(t, g)
      PROVE  /\ u \in produced => u \in produced'
             /\ \/ taskStatus'[u] = "succeeded" /\ taskStatus[u] # "succeeded"
                \/ u \in produced' \ produced
                => lease[u] = "live" /\ taskStatus[u] \in Active
  BY <1>5, <1>a DEF FailTask, HoldsClaim, FenceHolds
<1>6. ASSUME NEW t \in Tasks, NEW g \in Generations, NEW code \in ErrorCodes,
             ScheduleRetry(t, g, code)
      PROVE  /\ u \in produced => u \in produced'
             /\ \/ taskStatus'[u] = "succeeded" /\ taskStatus[u] # "succeeded"
                \/ u \in produced' \ produced
                => lease[u] = "live" /\ taskStatus[u] \in Active
  BY <1>6, <1>a DEF ScheduleRetry, HoldsClaim, FenceHolds
<1>7. ASSUME NEW r \in Runs, EnqueueRun(r)
      PROVE  /\ u \in produced => u \in produced'
             /\ \/ taskStatus'[u] = "succeeded" /\ taskStatus[u] # "succeeded"
                \/ u \in produced' \ produced
                => lease[u] = "live" /\ taskStatus[u] \in Active
  BY <1>7, <1>a DEF EnqueueRun, Cascade, TasksOf
<1>8. ASSUME NEW r \in Runs,
             \/ AggregateRun(r)
             \/ MarkCancelIndeterminate(r)
      PROVE  /\ u \in produced => u \in produced'
             /\ \/ taskStatus'[u] = "succeeded" /\ taskStatus[u] # "succeeded"
                \/ u \in produced' \ produced
                => lease[u] = "live" /\ taskStatus[u] \in Active
  BY <1>8, <1>a DEF AggregateRun, MarkCancelIndeterminate
<1>9. ASSUME NEW r \in Runs, ApplyCancelCommand(r)
      PROVE  /\ u \in produced => u \in produced'
             /\ \/ taskStatus'[u] = "succeeded" /\ taskStatus[u] # "succeeded"
                \/ u \in produced' \ produced
                => lease[u] = "live" /\ taskStatus[u] \in Active
  BY <1>9, <1>a DEF ApplyCancelCommand, CancelTasks, TasksOf
<1>10. ASSUME NEW r \in Runs, FinalizeCancelCommand(r)
       PROVE  /\ u \in produced => u \in produced'
              /\ \/ taskStatus'[u] = "succeeded" /\ taskStatus[u] # "succeeded"
                 \/ u \in produced' \ produced
                 => lease[u] = "live" /\ taskStatus[u] \in Active
  BY <1>10, <1>a DEF FinalizeCancelCommand, CancelTasks, TasksOf
<1>11. ASSUME NEW r \in Runs, NEW retry \in SUBSET Unsettled(r),
              ApplyResumeCommand(r, retry)
       PROVE  /\ u \in produced => u \in produced'
              /\ \/ taskStatus'[u] = "succeeded" /\ taskStatus[u] # "succeeded"
                 \/ u \in produced' \ produced
                 => lease[u] = "live" /\ taskStatus[u] \in Active
  BY <1>11, <1>a DEF ApplyResumeCommand, Unsettled, TasksOf
<1>12. ASSUME NEW w \in Workers, AbandonWorkerClaims(w)
       PROVE  /\ u \in produced => u \in produced'
              /\ \/ taskStatus'[u] = "succeeded" /\ taskStatus[u] # "succeeded"
                 \/ u \in produced' \ produced
                 => lease[u] = "live" /\ taskStatus[u] \in Active
  BY <1>12, <1>a DEF AbandonWorkerClaims
<1>13. ASSUME NEW w \in Workers, NEW t \in Tasks, ClaimNext(w, t)
       PROVE  /\ u \in produced => u \in produced'
              /\ \/ taskStatus'[u] = "succeeded" /\ taskStatus[u] # "succeeded"
                 \/ u \in produced' \ produced
                 => lease[u] = "live" /\ taskStatus[u] \in Active
  BY <1>13, <1>a DEF ClaimNext, Claimable
<1>14. ASSUME NEW Rs \in {Runs} \cup {{r} : r \in Runs}, NEW Due \in SUBSET Tasks,
              RecoverExpiredLeases(Rs, Due)
       PROVE  /\ u \in produced => u \in produced'
              /\ \/ taskStatus'[u] = "succeeded" /\ taskStatus[u] # "succeeded"
                 \/ u \in produced' \ produced
                 => lease[u] = "live" /\ taskStatus[u] \in Active
  BY <1>14, <1>a DEF RecoverExpiredLeases, RecoveryStatus, LostClaims
<1>15. ASSUME \E t \in Tasks : LeaseExpires(t)
       PROVE  /\ u \in produced => u \in produced'
              /\ \/ taskStatus'[u] = "succeeded" /\ taskStatus[u] # "succeeded"
                 \/ u \in produced' \ produced
                 => lease[u] = "live" /\ taskStatus[u] \in Active
  BY <1>15, <1>a DEF LeaseExpires
<1>16. ASSUME NEW t \in Tasks, ConfirmTask(t)
       PROVE  /\ u \in produced => u \in produced'
              /\ \/ taskStatus'[u] = "succeeded" /\ taskStatus[u] # "succeeded"
                 \/ u \in produced' \ produced
                 => lease[u] = "live" /\ taskStatus[u] \in Active
  BY <1>16, <1>a DEF ConfirmTask
<1>17. CASE UNCHANGED vars
  BY <1>17, <1>a DEF vars
<1>18. ASSUME NEW t \in Tasks, NEW g \in Generations, HolderStep(t, g)
       PROVE  /\ u \in produced => u \in produced'
              /\ \/ taskStatus'[u] = "succeeded" /\ taskStatus[u] # "succeeded"
                 \/ u \in produced' \ produced
                 => lease[u] = "live" /\ taskStatus[u] \in Active
  BY <1>1, <1>2, <1>3, <1>4, <1>5, <1>6, <1>18 DEF HolderStep
<1>19. ASSUME NEW r \in Runs, RunStep(r)
       PROVE  /\ u \in produced => u \in produced'
              /\ \/ taskStatus'[u] = "succeeded" /\ taskStatus[u] # "succeeded"
                 \/ u \in produced' \ produced
                 => lease[u] = "live" /\ taskStatus[u] \in Active
  BY <1>7, <1>8, <1>9, <1>10, <1>11, <1>19 DEF RunStep
<1>20. CASE QueueStep
  BY <1>12, <1>13, <1>14, <1>15, <1>16, <1>20 DEF QueueStep
<1>21. QED
  BY <1>17, <1>18, <1>19, <1>20 DEF Next

(* No transaction changes the status of a run that is over.                *)
LEMMA FinalRunStays ==
    TypeOK /\ [Next]_vars =>
        \A r \in Runs : runStatus[r] \in FinalRun => runStatus'[r] = runStatus[r]
<1> SUFFICES ASSUME TypeOK, [Next]_vars, NEW q \in Runs, runStatus[q] \in FinalRun
             PROVE  runStatus'[q] = runStatus[q]
  OBVIOUS
<1> USE TaskQueueAssumption
<1>a. /\ \A t \in Tasks : RunOf[t] \in Runs
      /\ runStatus \in [Runs -> RunStatuses]
      /\ taskStatus \in [Tasks -> TaskStatuses]
      /\ generation \in [Tasks -> 0 .. MaxGeneration]
      /\ produced \subseteq Tasks
  BY DEF TypeOK
<1>1. ASSUME NEW t \in Tasks, NEW g \in Generations,
             NEW s \in {"planning", "ready", "running"}, AdvanceRun(t, g, s)
      PROVE  runStatus'[q] = runStatus[q]
  BY <1>1, <1>a DEF FinalRun, AdvanceRun, HoldsClaim, FenceHolds,
     RunTransitions, RunStatuses
<1>2. ASSUME NEW t \in Tasks, NEW g \in Generations,
             \/ ExecutorStartTask(t, g)
             \/ BeginValidating(t, g)
             \/ \E outputs \in {produced, produced \cup {t}} : CommitValidatedTask(t, g, outputs)
             \/ FailTask(t, g)
             \/ FailAttempt(t, g)
             \/ \E code \in ErrorCodes : ScheduleRetry(t, g, code)
             \/ Release(t, g)
      PROVE  runStatus'[q] = runStatus[q]
  BY <1>2, <1>a DEF FinalRun, ExecutorStartTask, BeginValidating,
     CommitValidatedTask, FailTask, FailAttempt, ScheduleRetry, Release
<1>3. ASSUME NEW r \in Runs,
             EnqueueRun(r)
      PROVE  runStatus'[q] = runStatus[q]
  BY <1>3, <1>a DEF FinalRun, EnqueueRun
<1>4. ASSUME NEW r \in Runs, AggregateRun(r)
      PROVE  runStatus'[q] = runStatus[q]
  BY <1>4, <1>a DEF FinalRun, AggregateRun, Aggregated
<1>5. ASSUME NEW r \in Runs, ApplyCancelCommand(r)
      PROVE  runStatus'[q] = runStatus[q]
  BY <1>5, <1>a DEF FinalRun, ApplyCancelCommand, CancelTasks, TasksOf
<1>6. ASSUME NEW r \in Runs, FinalizeCancelCommand(r)
      PROVE  runStatus'[q] = runStatus[q]
  BY <1>6, <1>a DEF FinalRun, FinalizeCancelCommand, CancelTasks, TasksOf
<1>7. ASSUME NEW r \in Runs, MarkCancelIndeterminate(r)
      PROVE  runStatus'[q] = runStatus[q]
  BY <1>7, <1>a DEF FinalRun, MarkCancelIndeterminate, TasksOf
<1>8. ASSUME NEW r \in Runs, NEW retry \in SUBSET Unsettled(r),
             ApplyResumeCommand(r, retry)
      PROVE  runStatus'[q] = runStatus[q]
  BY <1>8, <1>a DEF FinalRun, ApplyResumeCommand, Unsettled, TasksOf
<1>9. ASSUME \/ \E w \in Workers : AbandonWorkerClaims(w)
             \/ \E w \in Workers, t \in Tasks : ClaimNext(w, t)
             \/ \E t \in Tasks : LeaseExpires(t)
             \/ \E t \in Tasks : ConfirmTask(t)
      PROVE  runStatus'[q] = runStatus[q]
  BY <1>9, <1>a DEF FinalRun, AbandonWorkerClaims, ClaimNext, LeaseExpires,
     ConfirmTask
<1>10. ASSUME NEW Rs \in {Runs} \cup {{r} : r \in Runs}, NEW Due \in SUBSET Tasks,
              RecoverExpiredLeases(Rs, Due)
       PROVE  runStatus'[q] = runStatus[q]
  BY <1>10, <1>a DEF FinalRun, RecoverExpiredLeases, Aggregated, Paused
<1>11. CASE UNCHANGED vars
  BY <1>11, <1>a DEF vars, FinalRun
<1>12. ASSUME NEW t \in Tasks, NEW g \in Generations, HolderStep(t, g)
       PROVE  runStatus'[q] = runStatus[q]
  BY <1>1, <1>2, <1>12 DEF HolderStep
<1>13. ASSUME NEW r \in Runs, RunStep(r)
       PROVE  runStatus'[q] = runStatus[q]
  BY <1>3, <1>4, <1>5, <1>6, <1>7, <1>8, <1>13 DEF RunStep
<1>14. CASE QueueStep
  BY <1>9, <1>10, <1>14 DEF QueueStep
<1>15. QED
  BY <1>11, <1>12, <1>13, <1>14 DEF Next

(* A run ends as its tasks have ended.                                     *)
LEMMA RunFinishes ==
    TypeOK /\ [Next]_vars =>
        \A r \in Runs : runStatus[r] \notin FinalRun /\ runStatus'[r] \in FinalRun =>
            /\ \A t \in TasksOf(r) : taskStatus'[t] \in Final
            /\ runStatus'[r] = "completed" =>
                  \A t \in TasksOf(r) : taskStatus'[t] = "succeeded" /\ HasOutputs(t)'
            /\ runStatus'[r] = "failed" =>
                  \E t \in TasksOf(r) : taskStatus'[t] = "failed" \/ ~HasOutputs(t)'
<1> DEFINE Truth(q) ==
         /\ \A t \in TasksOf(q) : taskStatus'[t] \in Final
         /\ runStatus'[q] = "completed" =>
               \A t \in TasksOf(q) : taskStatus'[t] = "succeeded" /\ HasOutputs(t)'
         /\ runStatus'[q] = "failed" =>
               \E t \in TasksOf(q) : taskStatus'[t] = "failed" \/ ~HasOutputs(t)'
<1> SUFFICES ASSUME TypeOK, [Next]_vars, NEW q \in Runs,
                    runStatus[q] \notin FinalRun, runStatus'[q] \in FinalRun
             PROVE  Truth(q)
  OBVIOUS
<1> USE TaskQueueAssumption
<1>a. /\ \A t \in Tasks : RunOf[t] \in Runs
      /\ runStatus \in [Runs -> RunStatuses]
      /\ taskStatus \in [Tasks -> TaskStatuses]
      /\ generation \in [Tasks -> 0 .. MaxGeneration]
      /\ produced \subseteq Tasks
  BY DEF TypeOK
<1>1. ASSUME NEW t \in Tasks, NEW g \in Generations,
             NEW s \in {"planning", "ready", "running"}, AdvanceRun(t, g, s)
      PROVE  Truth(q)
  BY <1>1, <1>a DEF FinalRun, HasOutputs, TasksOf, Final, AdvanceRun,
     HoldsClaim, FenceHolds, RunTransitions
<1>2. ASSUME NEW t \in Tasks, NEW g \in Generations,
             \/ ExecutorStartTask(t, g)
             \/ BeginValidating(t, g)
             \/ \E outputs \in {produced, produced \cup {t}} : CommitValidatedTask(t, g, outputs)
             \/ FailTask(t, g)
             \/ FailAttempt(t, g)
             \/ \E code \in ErrorCodes : ScheduleRetry(t, g, code)
             \/ Release(t, g)
      PROVE  Truth(q)
  BY <1>2, <1>a DEF FinalRun, HasOutputs, TasksOf, Final, ExecutorStartTask,
     BeginValidating, CommitValidatedTask, FailTask, FailAttempt,
     ScheduleRetry, Release
<1>3. ASSUME NEW r \in Runs,
             \/ EnqueueRun(r)
             \/ MarkCancelIndeterminate(r)
      PROVE  Truth(q)
  BY <1>3, <1>a DEF FinalRun, HasOutputs, TasksOf, Final, EnqueueRun,
     MarkCancelIndeterminate
<1>4. ASSUME NEW r \in Runs, AggregateRun(r)
      PROVE  Truth(q)
  BY <1>4, <1>a DEF FinalRun, HasOutputs, TasksOf, Final, AggregateRun,
     Aggregated
<1>5. ASSUME NEW r \in Runs, ApplyCancelCommand(r)
      PROVE  Truth(q)
  BY <1>5, <1>a DEF FinalRun, HasOutputs, TasksOf, Final, ApplyCancelCommand,
     CancelTasks
<1>6. ASSUME NEW r \in Runs, FinalizeCancelCommand(r)
      PROVE  Truth(q)
  BY <1>6, <1>a DEF FinalRun, HasOutputs, TasksOf, Final,
     FinalizeCancelCommand, CancelTasks
<1>7. ASSUME NEW r \in Runs, NEW retry \in SUBSET Unsettled(r),
             ApplyResumeCommand(r, retry)
      PROVE  Truth(q)
  BY <1>7, <1>a DEF FinalRun, HasOutputs, TasksOf, Final, ApplyResumeCommand,
     Unsettled
<1>8. ASSUME \/ \E w \in Workers : AbandonWorkerClaims(w)
             \/ \E w \in Workers, t \in Tasks : ClaimNext(w, t)
             \/ \E t \in Tasks : LeaseExpires(t)
             \/ \E t \in Tasks : ConfirmTask(t)
      PROVE  Truth(q)
  BY <1>8, <1>a DEF FinalRun, HasOutputs, TasksOf, Final, AbandonWorkerClaims,
     ClaimNext, LeaseExpires, ConfirmTask
<1>9. ASSUME NEW Rs \in {Runs} \cup {{r} : r \in Runs}, NEW Due \in SUBSET Tasks,
             RecoverExpiredLeases(Rs, Due)
      PROVE  Truth(q)
  BY <1>9, <1>a DEF FinalRun, HasOutputs, TasksOf, Final, RecoverExpiredLeases,
     Aggregated, Paused
<1>10. CASE UNCHANGED vars
  BY <1>10, <1>a DEF vars, FinalRun, HasOutputs, TasksOf, Final
<1>11. ASSUME NEW t \in Tasks, NEW g \in Generations, HolderStep(t, g)
       PROVE  Truth(q)
  BY <1>1, <1>2, <1>11 DEF HolderStep
<1>12. ASSUME NEW r \in Runs, RunStep(r)
       PROVE  Truth(q)
  BY <1>3, <1>4, <1>5, <1>6, <1>7, <1>12 DEF RunStep
<1>13. CASE QueueStep
  BY <1>8, <1>9, <1>13 DEF QueueStep
<1>14. QED
  BY <1>10, <1>11, <1>12, <1>13 DEF Next

(* ... and what it says stays true.                                        *)
LEMMA FinalRunStep == TypeOK /\ FinalRunIsTrue /\ [Next]_vars => FinalRunIsTrue'
<1> SUFFICES ASSUME TypeOK, FinalRunIsTrue, [Next]_vars, NEW r \in Runs,
                    runStatus'[r] \in FinalRun
             PROVE  /\ \A t \in TasksOf(r) : taskStatus'[t] \in Final
                    /\ runStatus'[r] = "completed" =>
                          \A t \in TasksOf(r) : taskStatus'[t] = "succeeded" /\ HasOutputs(t)'
                    /\ runStatus'[r] = "failed" =>
                          \E t \in TasksOf(r) : taskStatus'[t] = "failed" \/ ~HasOutputs(t)'
  BY DEF FinalRunIsTrue, FinalRun, TasksOf
<1>1. CASE runStatus[r] \notin FinalRun
  BY <1>1, RunFinishes
<1>2. CASE runStatus[r] \in FinalRun
  <2>1. runStatus'[r] = runStatus[r] /\ \A t \in TasksOf(r) : taskStatus[t] \in Final
    BY <1>2, FinalRunStays DEF FinalRunIsTrue
  <2>2. \A t \in TasksOf(r) : t \in Tasks /\ taskStatus'[t] = taskStatus[t]
    BY <2>1, FinalTaskStep DEF TasksOf
  <2>3. \A t \in TasksOf(r) : t \in produced' <=> t \in produced
    BY <2>1, <2>2, PublishStep DEF Active, Final
  <2>4. QED
    BY <2>1, <2>2, <2>3 DEF FinalRunIsTrue, HasOutputs
<1>3. QED
  BY <1>1, <1>2

(* No transaction reopens or rewrites an attempt that is over.             *)
LEMMA ClosedAttemptStays ==
    TypeOK /\ RowsAgree /\ [Next]_vars =>
        \A t \in Tasks, g \in Generations :
            attempt[t][g] \in Final => attempt'[t][g] = attempt[t][g]
<1> SUFFICES ASSUME TypeOK, RowsAgree, [Next]_vars,
                    NEW u \in Tasks, NEW h \in Generations, attempt[u][h] \in Final
             PROVE  attempt'[u][h] = attempt[u][h]
  OBVIOUS
<1> USE TaskQueueAssumption
<1>a. /\ attempt \in [Tasks -> [Generations -> AttemptStatuses]]
      /\ generation[u] \in Int /\ h \in Int
      /\ h > generation[u] => attempt[u][h] = "absent"
  BY DEF TypeOK, Generations, RowsAgree, RowAgrees, NewestCounts
<1>1. ASSUME NEW t \in Tasks, NEW g \in Generations,
             \/ \E s \in {"planning", "ready", "running"} : AdvanceRun(t, g, s)
             \/ BeginValidating(t, g)
             \/ FailTask(t, g)
             \/ Release(t, g)
      PROVE  attempt'[u][h] = attempt[u][h]
  BY <1>1, <1>a DEF Final, OpenAttempt, AdvanceRun, BeginValidating, FailTask,
     Release
<1>2. ASSUME NEW t \in Tasks, NEW g \in Generations, ExecutorStartTask(t, g)
      PROVE  attempt'[u][h] = attempt[u][h]
  BY <1>2, <1>a DEF Final, OpenAttempt, ExecutorStartTask, FenceHolds
<1>3. ASSUME NEW t \in Tasks, NEW g \in Generations,
             NEW outputs \in {produced, produced \cup {t}},
             CommitValidatedTask(t, g, outputs)
      PROVE  attempt'[u][h] = attempt[u][h]
  BY <1>3, <1>a DEF Final, OpenAttempt, CommitValidatedTask, HoldsClaim,
     FenceHolds, Unblocked
<1>4. ASSUME NEW t \in Tasks, NEW g \in Generations, FailAttempt(t, g)
      PROVE  attempt'[u][h] = attempt[u][h]
  BY <1>4, <1>a DEF Final, OpenAttempt, FailAttempt, FenceHolds
<1>5. ASSUME NEW t \in Tasks, NEW g \in Generations, NEW code \in ErrorCodes,
             ScheduleRetry(t, g, code)
      PROVE  attempt'[u][h] = attempt[u][h]
  BY <1>5, <1>a DEF Final, OpenAttempt, ScheduleRetry, HoldsClaim, FenceHolds
<1>6. ASSUME NEW r \in Runs,
             \/ EnqueueRun(r)
             \/ AggregateRun(r)
             \/ MarkCancelIndeterminate(r)
      PROVE  attempt'[u][h] = attempt[u][h]
  BY <1>6, <1>a DEF Final, OpenAttempt, EnqueueRun, AggregateRun,
     MarkCancelIndeterminate
<1>7. ASSUME NEW r \in Runs, ApplyCancelCommand(r)
      PROVE  attempt'[u][h] = attempt[u][h]
  BY <1>7, <1>a DEF Final, OpenAttempt, ApplyCancelCommand, CancelTasks,
     CloseAttempts
<1>8. ASSUME NEW r \in Runs, FinalizeCancelCommand(r)
      PROVE  attempt'[u][h] = attempt[u][h]
  BY <1>8, <1>a DEF Final, OpenAttempt, FinalizeCancelCommand, CancelTasks,
     CloseAttempts
<1>9. ASSUME NEW r \in Runs, NEW retry \in SUBSET Unsettled(r),
             ApplyResumeCommand(r, retry)
      PROVE  attempt'[u][h] = attempt[u][h]
  BY <1>9, <1>a DEF Final, OpenAttempt, ApplyResumeCommand, CloseAttempts
<1>10. ASSUME NEW w \in Workers, AbandonWorkerClaims(w)
       PROVE  attempt'[u][h] = attempt[u][h]
  BY <1>10, <1>a DEF Final, OpenAttempt, AbandonWorkerClaims, CloseAttempts
<1>11. ASSUME NEW w \in Workers, NEW t \in Tasks, ClaimNext(w, t)
       PROVE  attempt'[u][h] = attempt[u][h]
  BY <1>11, <1>a DEF Final, OpenAttempt, ClaimNext, Claimable
<1>12. ASSUME NEW Rs \in {Runs} \cup {{r} : r \in Runs}, NEW Due \in SUBSET Tasks,
              RecoverExpiredLeases(Rs, Due)
       PROVE  attempt'[u][h] = attempt[u][h]
  BY <1>12, <1>a DEF Final, OpenAttempt, RecoverExpiredLeases,
     RecoveredAttempts, CloseAttempts
<1>13. ASSUME \/ \E t \in Tasks : LeaseExpires(t)
              \/ \E t \in Tasks : ConfirmTask(t)
       PROVE  attempt'[u][h] = attempt[u][h]
  BY <1>13, <1>a DEF Final, OpenAttempt, LeaseExpires, ConfirmTask
<1>14. CASE UNCHANGED vars
  BY <1>14, <1>a DEF vars, Final, OpenAttempt
<1>15. ASSUME NEW t \in Tasks, NEW g \in Generations, HolderStep(t, g)
       PROVE  attempt'[u][h] = attempt[u][h]
  BY <1>1, <1>2, <1>3, <1>4, <1>5, <1>15 DEF HolderStep
<1>16. ASSUME NEW r \in Runs, RunStep(r)
       PROVE  attempt'[u][h] = attempt[u][h]
  BY <1>6, <1>7, <1>8, <1>9, <1>16 DEF RunStep
<1>17. CASE QueueStep
  BY <1>10, <1>11, <1>12, <1>13, <1>17 DEF QueueStep
<1>18. QED
  BY <1>14, <1>15, <1>16, <1>17 DEF Next

(* No transaction ends a run that was asked to stop, or claims in it.      *)
LEMMA StoppedRunStep ==
    TypeOK /\ [Next]_vars =>
        \A r \in Runs : runStatus[r] \in {"cancelling", "awaiting_input"} =>
            /\ runStatus'[r] \notin {"completed", "failed"}
            /\ \A t \in TasksOf(r) : generation'[t] = generation[t]
<1> SUFFICES ASSUME TypeOK, [Next]_vars, NEW q \in Runs,
                    runStatus[q] \in {"cancelling", "awaiting_input"}
             PROVE  /\ runStatus'[q] \notin {"completed", "failed"}
                    /\ \A x \in TasksOf(q) : generation'[x] = generation[x]
  OBVIOUS
<1> USE TaskQueueAssumption
<1>a. /\ \A t \in Tasks : RunOf[t] \in Runs
      /\ runStatus \in [Runs -> RunStatuses]
      /\ taskStatus \in [Tasks -> TaskStatuses]
      /\ generation \in [Tasks -> 0 .. MaxGeneration]
      /\ produced \subseteq Tasks
  BY DEF TypeOK
<1>1. ASSUME NEW t \in Tasks, NEW g \in Generations,
             NEW s \in {"planning", "ready", "running"}, AdvanceRun(t, g, s)
      PROVE  /\ runStatus'[q] \notin {"completed", "failed"}
             /\ \A x \in TasksOf(q) : generation'[x] = generation[x]
  BY <1>1, <1>a DEF FinalRun, Unclaimable, TasksOf, AdvanceRun, HoldsClaim,
     FenceHolds, RunTransitions
<1>2. ASSUME NEW t \in Tasks, NEW g \in Generations,
             \/ ExecutorStartTask(t, g)
             \/ BeginValidating(t, g)
             \/ \E outputs \in {produced, produced \cup {t}} : CommitValidatedTask(t, g, outputs)
             \/ FailTask(t, g)
             \/ FailAttempt(t, g)
             \/ \E code \in ErrorCodes : ScheduleRetry(t, g, code)
             \/ Release(t, g)
      PROVE  /\ runStatus'[q] \notin {"completed", "failed"}
             /\ \A x \in TasksOf(q) : generation'[x] = generation[x]
  BY <1>2, <1>a DEF FinalRun, Unclaimable, TasksOf, ExecutorStartTask,
     BeginValidating, CommitValidatedTask, FailTask, FailAttempt,
     ScheduleRetry, Release
<1>3. ASSUME NEW r \in Runs,
             EnqueueRun(r)
      PROVE  /\ runStatus'[q] \notin {"completed", "failed"}
             /\ \A x \in TasksOf(q) : generation'[x] = generation[x]
  BY <1>3, <1>a DEF FinalRun, Unclaimable, TasksOf, EnqueueRun
<1>4. ASSUME NEW r \in Runs, AggregateRun(r)
      PROVE  /\ runStatus'[q] \notin {"completed", "failed"}
             /\ \A x \in TasksOf(q) : generation'[x] = generation[x]
  BY <1>4, <1>a DEF FinalRun, Unclaimable, TasksOf, AggregateRun, Aggregated
<1>5. ASSUME NEW r \in Runs, ApplyCancelCommand(r)
      PROVE  /\ runStatus'[q] \notin {"completed", "failed"}
             /\ \A x \in TasksOf(q) : generation'[x] = generation[x]
  BY <1>5, <1>a DEF FinalRun, Unclaimable, TasksOf, ApplyCancelCommand,
     CancelTasks
<1>6. ASSUME NEW r \in Runs, FinalizeCancelCommand(r)
      PROVE  /\ runStatus'[q] \notin {"completed", "failed"}
             /\ \A x \in TasksOf(q) : generation'[x] = generation[x]
  BY <1>6, <1>a DEF FinalRun, Unclaimable, TasksOf, FinalizeCancelCommand,
     CancelTasks
<1>7. ASSUME NEW r \in Runs, MarkCancelIndeterminate(r)
      PROVE  /\ runStatus'[q] \notin {"completed", "failed"}
             /\ \A x \in TasksOf(q) : generation'[x] = generation[x]
  BY <1>7, <1>a DEF FinalRun, Unclaimable, TasksOf, MarkCancelIndeterminate
<1>8. ASSUME NEW r \in Runs, NEW retry \in SUBSET Unsettled(r),
             ApplyResumeCommand(r, retry)
      PROVE  /\ runStatus'[q] \notin {"completed", "failed"}
             /\ \A x \in TasksOf(q) : generation'[x] = generation[x]
  BY <1>8, <1>a DEF FinalRun, Unclaimable, TasksOf, ApplyResumeCommand,
     Unsettled
<1>9. ASSUME \/ \E w \in Workers : AbandonWorkerClaims(w)
             \/ \E t \in Tasks : LeaseExpires(t)
             \/ \E t \in Tasks : ConfirmTask(t)
      PROVE  /\ runStatus'[q] \notin {"completed", "failed"}
             /\ \A x \in TasksOf(q) : generation'[x] = generation[x]
  BY <1>9, <1>a DEF FinalRun, Unclaimable, TasksOf, AbandonWorkerClaims,
     LeaseExpires, ConfirmTask
<1>10. ASSUME NEW w \in Workers, NEW t \in Tasks, ClaimNext(w, t)
       PROVE  /\ runStatus'[q] \notin {"completed", "failed"}
              /\ \A x \in TasksOf(q) : generation'[x] = generation[x]
  BY <1>10, <1>a DEF FinalRun, Unclaimable, TasksOf, ClaimNext, Claimable
<1>11. ASSUME NEW Rs \in {Runs} \cup {{r} : r \in Runs}, NEW Due \in SUBSET Tasks,
              RecoverExpiredLeases(Rs, Due)
       PROVE  /\ runStatus'[q] \notin {"completed", "failed"}
              /\ \A x \in TasksOf(q) : generation'[x] = generation[x]
  BY <1>11, <1>a DEF FinalRun, Unclaimable, TasksOf, RecoverExpiredLeases,
     Aggregated, Paused
<1>12. CASE UNCHANGED vars
  BY <1>12, <1>a DEF vars, FinalRun, Unclaimable, TasksOf
<1>13. ASSUME NEW t \in Tasks, NEW g \in Generations, HolderStep(t, g)
       PROVE  /\ runStatus'[q] \notin {"completed", "failed"}
              /\ \A x \in TasksOf(q) : generation'[x] = generation[x]
  BY <1>1, <1>2, <1>13 DEF HolderStep
<1>14. ASSUME NEW r \in Runs, RunStep(r)
       PROVE  /\ runStatus'[q] \notin {"completed", "failed"}
              /\ \A x \in TasksOf(q) : generation'[x] = generation[x]
  BY <1>3, <1>4, <1>5, <1>6, <1>7, <1>8, <1>14 DEF RunStep
<1>15. CASE QueueStep
  BY <1>9, <1>10, <1>11, <1>15 DEF QueueStep
<1>16. QED
  BY <1>12, <1>13, <1>14, <1>15 DEF Next

-----------------------------------------------------------------------------
(***************************************************************************)
(* The inductive invariant and what follows from it.                       *)
(***************************************************************************)

(* An activated plan satisfies the inductive invariant.                    *)
LEMMA InitIInv == Init => IInv
<1> SUFFICES ASSUME Init PROVE IInv
  OBVIOUS
<1> USE TaskQueueAssumption DEF Init
<1>1. TypeOK
  BY DEF TypeOK, RunStatuses, TaskStatuses, Reasons, AttemptStatuses, Leases
<1>2. RowsAgree
  <2> SUFFICES ASSUME NEW t \in Tasks PROVE RowAgrees(t)
    BY DEF RowsAgree
  <2>1. /\ generation[t] = 0 /\ taskStatus[t] \in {"blocked", "ready"}
        /\ \A g \in Generations : attempt[t][g] = "absent" /\ g \in Nat \ {0}
    BY DEF Generations
  <2>2. QED
    BY <2>1 DEF RowAgrees, AttemptFollowsTask, NewestCounts, NoneLeftOpen, Active, OpenAttempt
<1>3. DependencyOrder /\ ParkedTaskStarted /\ RetryBudgetKept
  BY DEF DependencyOrder, ParkedTaskStarted, RetryBudgetKept
<1>4. StrandedRunIsQuiet /\ NoStrandedClaim
  BY DEF StrandedRunIsQuiet, NoStrandedClaim, Active
<1>5. FinalRunIsTrue
  BY DEF FinalRunIsTrue, FinalRun
<1>6. SpentTaskWaits
  BY DEF SpentTaskWaits
<1>7. QED
  BY <1>1, <1>2, <1>3, <1>4, <1>5, <1>6 DEF IInv

(* Every transaction keeps it.                                             *)
LEMMA NextIInv == IInv /\ [Next]_vars => IInv'
<1> SUFFICES ASSUME IInv, [Next]_vars PROVE IInv'
  OBVIOUS
<1>1. TypeOK' /\ RowsAgree'
  BY TypeStep, RowsAgreeStep DEF IInv
<1>2. DependencyOrder' /\ ParkedTaskStarted'
  BY DependencyStep, ParkedStep DEF IInv
<1>3. StrandedRunIsQuiet' /\ NoStrandedClaim'
  BY StrandedStep DEF IInv
<1>4. FinalRunIsTrue'
  BY FinalRunStep DEF IInv
<1>5. SpentTaskWaits' /\ RetryBudgetKept'
  BY SpentStep, BudgetStep DEF IInv
<1>6. QED
  BY <1>1, <1>2, <1>3, <1>4, <1>5 DEF IInv

(* The inductive invariant holds in every state the queue reaches.         *)
THEOREM Inductive == Spec => []IInv
BY InitIInv, NextIInv, PTL DEF Spec

(* The rows keep their types, whatever order the transactions come in.     *)
THEOREM TypesKept == Spec => []TypeOK
<1>1. IInv => TypeOK
  BY DEF IInv
<1>2. QED
  BY <1>1, Inductive, PTL

(* For any number of workers, preempted as often as they like, a task      *)
(* commits in its newest attempt or not at all.                            *)
THEOREM NewestAttemptCounts == Spec => []OnlyNewestAttemptCounts
<1>1. IInv => OnlyNewestAttemptCounts
  BY DEF IInv, RowsAgree, RowAgrees, NewestCounts, OnlyNewestAttemptCounts
<1>2. QED
  BY <1>1, Inductive, PTL

(* No path that puts a task back, or ends it, strands an open attempt.     *)
THEOREM AttemptsAreClosed == Spec => []NoOpenAttemptLeftBehind
<1>1. IInv => NoOpenAttemptLeftBehind
  BY DEF IInv, RowsAgree, RowAgrees, NoneLeftOpen, NoOpenAttemptLeftBehind
<1>2. QED
  BY <1>1, Inductive, PTL

(* Over any dependency relation, a task runs only after what it needs.     *)
THEOREM DependenciesComeFirst == Spec => []DependencyOrder
<1>1. IInv => DependencyOrder
  BY DEF IInv
<1>2. QED
  BY <1>1, Inductive, PTL

(* An active task has a lease unless a command still has to settle its run. *)
THEOREM ClaimsAreNotStranded == Spec => []NoStrandedClaim
<1>1. IInv => NoStrandedClaim
  BY DEF IInv
<1>2. QED
  BY <1>1, Inductive, PTL

(* A run that is over says the truth about its tasks.                      *)
THEOREM RunsEndTruthfully == Spec => []FinalRunIsTrue
<1>1. IInv => FinalRunIsTrue
  BY DEF IInv
<1>2. QED
  BY <1>1, Inductive, PTL

(* Under any retry policy, crashes do not buy a task more attempts.        *)
THEOREM BudgetsAreKept == Spec => []RetryBudgetKept
<1>1. IInv => RetryBudgetKept
  BY DEF IInv
<1>2. QED
  BY <1>1, Inductive, PTL

(* What is over, a task, an attempt or a run, is never reopened.           *)
THEOREM OverIsOver == Spec => FinalStaysFinal
<1>1. IInv /\ [Next]_vars =>
        [/\ \A t \in Tasks : taskStatus[t] \in Final => taskStatus'[t] = taskStatus[t]
         /\ \A t \in Tasks, g \in Generations :
               attempt[t][g] \in Final => attempt'[t][g] = attempt[t][g]
         /\ \A r \in Runs : runStatus[r] \in FinalRun => runStatus'[r] = runStatus[r]]_vars
  BY FinalTaskStep, ClosedAttemptStays, FinalRunStays DEF IInv
<1>2. QED
  BY <1>1, Inductive, PTL DEF Spec, FinalStaysFinal

(* Every publication is covered by a lease and belongs to an open run.     *)
THEOREM NobodyPublishesLate == Spec => PublishOnlyUnderLiveLease
<1>1. ASSUME IInv, [Next]_vars, NEW t \in Tasks, lease[t] = "live", taskStatus[t] \in Active
      PROVE  runStatus[RunOf[t]] \notin FinalRun
  BY <1>1, TaskQueueAssumption DEF IInv, FinalRunIsTrue, TasksOf, Active, Final
<1>2. IInv /\ [Next]_vars =>
        [\A t \in Tasks :
           \/ taskStatus'[t] = "succeeded" /\ taskStatus[t] # "succeeded"
           \/ t \in produced' \ produced
           => lease[t] = "live" /\ runStatus[RunOf[t]] \notin FinalRun]_vars
  BY <1>1, PublishStep DEF IInv
<1>3. QED
  BY <1>2, Inductive, PTL DEF Spec, PublishOnlyUnderLiveLease

(* A cancel or resume command finds the run where it stopped.              *)
THEOREM StoppedRunStandsStill == Spec => StopRequestHonoured
<1>1. IInv /\ [Next]_vars =>
        [\A r \in Runs :
           runStatus[r] \in {"cancelling", "awaiting_input"} =>
               /\ runStatus'[r] \notin {"completed", "failed"}
               /\ \A t \in TasksOf(r) : generation'[t] = generation[t]]_vars
  BY StoppedRunStep DEF IInv
<1>2. QED
  BY <1>1, Inductive, PTL DEF Spec, StopRequestHonoured

=============================================================================
