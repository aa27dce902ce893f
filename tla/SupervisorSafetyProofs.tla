------------------------ MODULE SupervisorSafetyProofs ------------------------
(***************************************************************************)
(* What SupervisorProofs leaves open of the safety of the supervisor: that *)
(* a commit is not judged, that a dead worker holds nothing, that a side   *)
(* effect runs once and that a cancellation outlasts the handlers of its   *)
(* run, for every number of tasks, runs, attempts, workers and restarts.   *)
(*                                                                         *)
(* None of the four is inductive, and each of them relates rows, thread,   *)
(* children and requests.  So the module first says, once for all actions, *)
(* what a transaction may do to the rows (Harmless, Advancing, Claiming,   *)
(* Committing), how a child ages (Aging, Spawning, Passing, Invoking) and  *)
(* where the thread gets to (Moves); the steps of the invariant are cases  *)
(* of these and not of the thirty actions.                                 *)
(***************************************************************************)
EXTENDS SupervisorProofs

(* A task that can be claimed sooner or later; a lease that recovery ends; *)
(* a run in which tasks can be claimed.                                    *)
Waiting == {"blocked", "ready", "retry_wait"}
Lapsed == {"expired", "abandoned"}
Going == {"queued", "planning", "ready", "running"}

-----------------------------------------------------------------------------
(***************************************************************************)
(* What a transaction may do to the rows.                                  *)
(***************************************************************************)

(* Nobody claims a task.                                                   *)
AttemptsKeep ==
    \A t \in Tasks, g \in Generations :
        attempt'[t][g] \in {"absent", "leased"} => attempt'[t][g] = attempt[t][g]
ClaimKeeps(t) ==
    /\ taskStatus'[t] \in Active => taskStatus[t] \in Active
    /\ lease'[t] = "live" => lease[t] = "live"
    /\ taskStatus'[t] \in Active /\ leaseOwner'[t] # NoWorker =>
           /\ leaseOwner'[t] = leaseOwner[t]
           /\ lease[t] \in Lapsed => lease'[t] \in Lapsed
RowsKeep ==
    /\ AttemptsKeep
    /\ \A t \in Tasks : ClaimKeeps(t)
    /\ generation' = generation

(* Nobody walks a run towards "running".                                   *)
RunsKeep ==
    \A r \in Runs : runStatus'[r] \in Going /\ r \notin resumed' =>
        runStatus'[r] = runStatus[r]

(* What every transaction keeps to.  A side effect that is put back waits  *)
(* in a run that stands still; and who ends a cancellation has left no     *)
(* live claim behind.                                                      *)
SideEffectWaits(t) ==
    taskStatus'[t] \in Waiting =>
        \/ taskStatus[t] \in Waiting
        \/ runStatus'[RunOf[t]] \in Unclaimable
        \/ RunOf[t] \in resumed'
CancelEnds(r) ==
    runStatus[r] = "cancelling" /\ runStatus'[r] # "cancelling" => NoLiveClaim(r)'
RulesKept ==
    /\ resumed \subseteq resumed'
    /\ \A t \in SideEffect \ Idempotent : SideEffectWaits(t)
    /\ \A r \in Runs : CancelEnds(r)

(* Nobody commits.                                                         *)
NoSuccess ==
    \A t \in Tasks, g \in Generations :
        attempt'[t][g] = "succeeded" => attempt[t][g] = "succeeded"

(* Only a resume sets a run going again that stands still, and only the    *)
(* conclusion of a cancellation ends it.                                   *)
StandstillKeeps ==
    \A r \in Runs : runStatus[r] \in Unclaimable => runStatus'[r] \in Unclaimable
CancellingKeeps ==
    \A r \in Runs : runStatus[r] = "cancelling" => runStatus'[r] = "cancelling"

Tame == RowsKeep /\ RunsKeep /\ RulesKept /\ NoSuccess
Harmless == Tame /\ StandstillKeeps /\ CancellingKeeps

LEMMA RunsUntouched ==
    ASSUME UNCHANGED runStatus PROVE StandstillKeeps /\ CancellingKeeps
  BY DEF StandstillKeeps, CancellingKeeps

LEMMA HolderKeeps ==
    ASSUME IInv, NEW t \in Tasks, NEW g \in Generations,
           \/ ExecutorStartTask(t, g)
           \/ BeginValidating(t, g)
           \/ \E outputs : CommitValidatedTask(t, g, outputs)
           \/ FailTask(t, g)
           \/ FailAttempt(t, g)
           \/ \E code : ScheduleRetry(t, g, code)
           \/ Release(t, g)
    PROVE  RowsKeep /\ RunsKeep /\ RulesKept /\ StandstillKeeps /\ CancellingKeeps
<1> USE TaskQueueAssumption
<1>a. TypeOK
  BY DEF IInv
<1>1. AttemptsKeep
  BY <1>a DEF AttemptsKeep, TypeOK, ExecutorStartTask, BeginValidating, CommitValidatedTask,
     FailTask, FailAttempt, ScheduleRetry, Release
<1>2. \A u \in Tasks : ClaimKeeps(u)
  BY <1>a DEF ClaimKeeps, TypeOK, ExecutorStartTask, BeginValidating, CommitValidatedTask,
     FailTask, FailAttempt, ScheduleRetry, Release, HoldsClaim, FenceHolds, Active
<1>3. UNCHANGED <<runStatus, resumed, generation>>
  BY DEF ExecutorStartTask, BeginValidating, CommitValidatedTask,
     FailTask, FailAttempt, ScheduleRetry, Release
<1>4. \A u \in SideEffect \ Idempotent : SideEffectWaits(u)
  BY <1>a DEF SideEffectWaits, TypeOK, ExecutorStartTask, BeginValidating, CommitValidatedTask,
     FailTask, FailAttempt, ScheduleRetry, Release, Waiting, Unblocked
<1>5. QED
  BY <1>1, <1>2, <1>3, <1>4, RunsUntouched DEF RowsKeep, RunsKeep, RulesKept, CancelEnds

LEMMA HolderIsHarmless ==
    ASSUME IInv, NEW t \in Tasks, NEW g \in Generations,
           \/ ExecutorStartTask(t, g)
           \/ BeginValidating(t, g)
           \/ FailTask(t, g)
           \/ FailAttempt(t, g)
           \/ \E code : ScheduleRetry(t, g, code)
           \/ Release(t, g)
    PROVE  Harmless
<1>1. NoSuccess
  BY DEF NoSuccess, IInv, TypeOK, ExecutorStartTask, BeginValidating, FailTask, FailAttempt,
     ScheduleRetry, Release
<1>2. QED
  BY <1>1, HolderKeeps DEF Harmless, Tame

LEMMA RunStepKeeps ==
    ASSUME IInv, NEW q \in Runs, RunStep(q)
    PROVE  Tame
<1> USE TaskQueueAssumption
<1>a. TypeOK
  BY DEF IInv
<1>b. NoSuccess
  <2>1. ASSUME NEW X, CancelTasks(X) PROVE NoSuccess
    BY <1>a, <2>1 DEF NoSuccess, TypeOK, CancelTasks, CloseAttempts
  <2>2. ASSUME NEW retry, ApplyResumeCommand(q, retry) PROVE NoSuccess
    BY <1>a, <2>2 DEF NoSuccess, TypeOK, ApplyResumeCommand, CloseAttempts
  <2>3. CASE UNCHANGED attempt
    BY <2>3 DEF NoSuccess
  <2>4. QED
    BY <2>1, <2>2, <2>3 DEF RunStep, EnqueueRun, AggregateRun, ApplyCancelCommand,
       FinalizeCancelCommand, MarkCancelIndeterminate
<1>1. CASE EnqueueRun(q)
  <2>1. UNCHANGED <<runStatus, resumed, generation, attempt, leaseOwner, lease>>
    BY <1>1 DEF EnqueueRun
  <2>2. \A t \in Tasks : /\ taskStatus'[t] \in Active => taskStatus[t] \in Active
                         /\ taskStatus'[t] \in Waiting => taskStatus[t] \in Waiting
    BY <1>1, <1>a DEF EnqueueRun, TypeOK, Active, Waiting
  <2>3. QED
    BY <1>b, <2>1, <2>2 DEF Tame, RowsKeep, RunsKeep, RulesKept, AttemptsKeep, ClaimKeeps,
       SideEffectWaits, CancelEnds
<1>2. CASE AggregateRun(q)
  <2>1. UNCHANGED <<resumed, taskStatus, generation, attempt, leaseOwner, lease>>
    BY <1>2 DEF AggregateRun
  <2>2. \A r \in Runs : /\ runStatus'[r] \in Going => runStatus'[r] = runStatus[r]
                        /\ runStatus[r] = "cancelling" => runStatus'[r] = "cancelling"
    BY <1>2, <1>a DEF AggregateRun, Aggregated, TypeOK, Going, FinalRun
  <2>3. QED
    BY <1>b, <2>1, <2>2 DEF Tame, RowsKeep, RunsKeep, RulesKept, AttemptsKeep, ClaimKeeps,
       SideEffectWaits, CancelEnds
<1>3. CASE ApplyCancelCommand(q) \/ FinalizeCancelCommand(q)
  <2>1. UNCHANGED <<resumed, generation>>
    BY <1>3 DEF ApplyCancelCommand, FinalizeCancelCommand
  <2>2. PICK X : /\ CancelTasks(X)
                 /\ FinalizeCancelCommand(q) => X = {t \in TasksOf(q) : taskStatus[t] \notin Final}
    BY <1>3 DEF ApplyCancelCommand, FinalizeCancelCommand
  <2>3. AttemptsKeep
    BY <2>2, <1>a DEF CancelTasks, AttemptsKeep, TypeOK, CloseAttempts
  <2>4. \A t \in Tasks : /\ ClaimKeeps(t)
                         /\ taskStatus'[t] \in Waiting => taskStatus[t] \in Waiting
    BY <2>2, <1>a DEF CancelTasks, ClaimKeeps, TypeOK, Waiting, Active
  <2>5. \A r \in Runs : runStatus'[r] \in Going => runStatus'[r] = runStatus[r]
    BY <1>3, <1>a DEF ApplyCancelCommand, FinalizeCancelCommand, TypeOK, Going
  <2>6. ASSUME NEW r \in Runs PROVE CancelEnds(r)
    <3>1. SUFFICES ASSUME runStatus[r] = "cancelling", runStatus'[r] # "cancelling",
                          NEW t \in Tasks, RunOf[t] = r, taskStatus'[t] \in Active
                   PROVE  FALSE
      BY DEF CancelEnds, NoLiveClaim
    <3>2. FinalizeCancelCommand(q) /\ r = q
      BY <1>3, <1>a, <3>1 DEF ApplyCancelCommand, FinalizeCancelCommand, TypeOK
    <3>3. QED
      BY <2>2, <3>1, <3>2, <1>a DEF CancelTasks, TasksOf, Active, Final, TypeOK
  <2>7. QED
    BY <1>b, <2>1, <2>3, <2>4, <2>5, <2>6
       DEF Tame, RowsKeep, RunsKeep, RulesKept, SideEffectWaits
<1>4. CASE MarkCancelIndeterminate(q)
  <2>1. UNCHANGED <<resumed, generation, attempt, taskStatus>>
    BY <1>4 DEF MarkCancelIndeterminate
  <2>2. \A t \in Tasks : ClaimKeeps(t)
    BY <1>4, <1>a DEF MarkCancelIndeterminate, ClaimKeeps, TypeOK
  <2>3. \A r \in Runs : runStatus'[r] \in Going => runStatus'[r] = runStatus[r]
    BY <1>4, <1>a DEF MarkCancelIndeterminate, TypeOK, Going
  <2>4. ASSUME NEW r \in Runs PROVE CancelEnds(r)
    BY <1>4, <1>a, <2>1 DEF MarkCancelIndeterminate, TypeOK, CancelEnds, NoLiveClaim, TasksOf
  <2>5. QED
    BY <1>b, <2>1, <2>2, <2>3, <2>4 DEF Tame, RowsKeep, RunsKeep, RulesKept, SideEffectWaits,
       AttemptsKeep
<1>5. CASE \E retry \in SUBSET Unsettled(q) : ApplyResumeCommand(q, retry)
  <2>1. PICK retry \in SUBSET Unsettled(q) : ApplyResumeCommand(q, retry)
    BY <1>5
  <2>2. generation' = generation /\ resumed \subseteq resumed'
    BY <2>1 DEF ApplyResumeCommand
  <2>3. AttemptsKeep
    BY <2>1, <1>a DEF ApplyResumeCommand, AttemptsKeep, TypeOK, CloseAttempts
  <2>4. \A t \in Tasks : ClaimKeeps(t)
    BY <2>1, <1>a DEF ApplyResumeCommand, ClaimKeeps, TypeOK, Active
  <2>5. \A r \in Runs : \/ runStatus'[r] = runStatus[r]
                        \/ r = q /\ runStatus[r] = "awaiting_input" /\ r \in resumed'
    BY <2>1, <1>a DEF ApplyResumeCommand, TypeOK
  <2>6. ASSUME NEW t \in Tasks PROVE SideEffectWaits(t)
    <3>1. CASE t \in Unsettled(q)
      <4>1. RunOf[t] = q /\ runStatus[q] = "awaiting_input"
        BY <3>1, <2>1 DEF Unsettled, TasksOf, ApplyResumeCommand
      <4>2. QED
        BY <4>1, <2>5 DEF SideEffectWaits, Unclaimable
    <3>2. CASE t \notin Unsettled(q)
      BY <3>2, <2>1 DEF ApplyResumeCommand, SideEffectWaits
    <3>3. QED
      BY <3>1, <3>2
  <2>7. QED
    BY <1>b, <2>2, <2>3, <2>4, <2>5, <2>6 DEF Tame, RowsKeep, RunsKeep, RulesKept, CancelEnds
<1>6. QED
  BY <1>1, <1>2, <1>3, <1>4, <1>5 DEF RunStep

(* What such a step does to the runs that stand still.                     *)
LEMMA RunStepStands ==
    ASSUME IInv, NEW q \in Runs
    PROVE  /\ EnqueueRun(q) \/ AggregateRun(q) => StandstillKeeps /\ CancellingKeeps
           /\ FinalizeCancelCommand(q) \/ MarkCancelIndeterminate(q) => StandstillKeeps
           /\ ApplyCancelCommand(q) => StandstillKeeps /\ CancellingKeeps
           /\ \A retry : ApplyResumeCommand(q, retry) => CancellingKeeps
<1>1. runStatus \in [Runs -> RunStatuses]
  BY DEF IInv, TypeOK
<1>2. ASSUME AggregateRun(q) PROVE StandstillKeeps /\ CancellingKeeps
  BY <1>1, <1>2 DEF AggregateRun, Aggregated, StandstillKeeps, CancellingKeeps, Unclaimable
<1>3. ASSUME FinalizeCancelCommand(q) \/ MarkCancelIndeterminate(q) \/ ApplyCancelCommand(q)
      PROVE  StandstillKeeps /\ (ApplyCancelCommand(q) => CancellingKeeps)
  <2>1. PICK st \in {"cancelled", "awaiting_input", "cancelling"} :
            /\ runStatus' = [runStatus EXCEPT ![q] = st]
            /\ ApplyCancelCommand(q) => st = "cancelling"
    BY <1>3 DEF FinalizeCancelCommand, MarkCancelIndeterminate, ApplyCancelCommand
  <2>2. QED
    BY <1>1, <2>1 DEF StandstillKeeps, CancellingKeeps, Unclaimable, FinalRun
<1>4. ASSUME NEW retry, ApplyResumeCommand(q, retry) PROVE CancellingKeeps
  BY <1>1, <1>4 DEF ApplyResumeCommand, CancellingKeeps
<1>5. EnqueueRun(q) => UNCHANGED runStatus
  BY DEF EnqueueRun
<1>6. QED
  BY <1>2, <1>3, <1>4, <1>5, RunsUntouched

LEMMA RecoveryKeeps ==
    ASSUME IInv, NEW Rs, NEW Due, RecoverExpiredLeases(Rs, Due)
    PROVE  Harmless
<1> USE TaskQueueAssumption
<1>a. TypeOK
  BY DEF IInv
<1>1. UNCHANGED <<resumed, generation>>
  BY DEF RecoverExpiredLeases
<1>2. AttemptsKeep
  BY <1>a DEF RecoverExpiredLeases, AttemptsKeep, TypeOK, CloseAttempts, RecoveredAttempts
<1>3. \A t \in Tasks : ClaimKeeps(t)
  BY <1>a DEF RecoverExpiredLeases, ClaimKeeps, TypeOK, Active, RecoveryStatus
<1>4. ASSUME NEW r \in Runs
      PROVE  /\ runStatus'[r] \in Going => runStatus'[r] = runStatus[r]
             /\ runStatus[r] \in Unclaimable => runStatus'[r] = runStatus[r]
             /\ (\E t \in LostClaims(Rs) \cap SideEffect : RunOf[t] = r) =>
                    runStatus'[r] \in Unclaimable
  <2>1. CASE \E t \in LostClaims(Rs) : RunOf[t] = r
    <3>1. runStatus'[r] = Aggregated(r, Paused(r, LostClaims(Rs)), taskStatus')
      BY <2>1 DEF RecoverExpiredLeases
    <3>2. runStatus[r] \in RunStatuses
      BY <1>a DEF TypeOK
    <3>3. Paused(r, LostClaims(Rs)) \in {runStatus[r], "awaiting_input"}
      BY DEF Paused
    <3>4. /\ runStatus[r] \in Unclaimable => Paused(r, LostClaims(Rs)) = runStatus[r]
          /\ (\E t \in LostClaims(Rs) \cap SideEffect : RunOf[t] = r) =>
                 Paused(r, LostClaims(Rs)) \in Unclaimable
      BY <3>2 DEF Paused, Unclaimable, FinalRun, RunStatuses
    <3>5. /\ runStatus'[r] \in {Paused(r, LostClaims(Rs)), "completed", "failed"}
          /\ Paused(r, LostClaims(Rs)) \in Unclaimable =>
                 runStatus'[r] = Paused(r, LostClaims(Rs))
      BY <3>1 DEF Aggregated, Unclaimable, FinalRun
    <3>6. QED
      BY <3>3, <3>4, <3>5 DEF Going
  <2>2. CASE ~\E t \in LostClaims(Rs) : RunOf[t] = r
    BY <2>2 DEF RecoverExpiredLeases
  <2>3. QED
    BY <2>1, <2>2
<1>5. ASSUME NEW t \in SideEffect PROVE SideEffectWaits(t)
  <2>1. CASE t \in LostClaims(Rs)
    BY <1>4, <2>1 DEF SideEffectWaits
  <2>2. CASE t \notin LostClaims(Rs)
    BY <2>2 DEF SideEffectWaits, RecoverExpiredLeases, Waiting
  <2>3. QED
    BY <2>1, <2>2
<1>6. \A r \in Runs : CancelEnds(r)
  BY <1>4 DEF CancelEnds, Unclaimable
<1>7. NoSuccess
  BY <1>a DEF RecoverExpiredLeases, NoSuccess, TypeOK, CloseAttempts, RecoveredAttempts
<1>8. StandstillKeeps /\ CancellingKeeps
  BY <1>4 DEF StandstillKeeps, CancellingKeeps, Unclaimable
<1>9. QED
  BY <1>1, <1>2, <1>3, <1>4, <1>5, <1>6, <1>7, <1>8
     DEF Harmless, Tame, RowsKeep, RunsKeep, RulesKept

LEMMA OthersKeep ==
    ASSUME IInv,
           \/ UNCHANGED vars
           \/ \E w \in Workers : AbandonWorkerClaims(w)
           \/ \E t \in Tasks : LeaseExpires(t) \/ ConfirmTask(t)
    PROVE  Harmless
<1> USE TaskQueueAssumption
<1>a. TypeOK
  BY DEF IInv
<1>1. UNCHANGED <<runStatus, resumed, generation>>
  BY DEF AbandonWorkerClaims, LeaseExpires, ConfirmTask, vars
<1>2. AttemptsKeep /\ NoSuccess
  <2>1. CASE UNCHANGED attempt
    BY <2>1 DEF AttemptsKeep, NoSuccess
  <2>2. CASE \E w \in Workers : AbandonWorkerClaims(w)
    BY <1>a, <2>2 DEF AttemptsKeep, NoSuccess, AbandonWorkerClaims, TypeOK, CloseAttempts
  <2>3. QED
    BY <2>1, <2>2 DEF LeaseExpires, ConfirmTask, vars
<1>3. \A t \in Tasks : /\ ClaimKeeps(t)
                       /\ taskStatus'[t] \in Waiting => taskStatus[t] \in Waiting
  BY <1>a DEF ClaimKeeps, AbandonWorkerClaims, LeaseExpires, ConfirmTask, vars, TypeOK,
     Active, Waiting, Lapsed
<1>4. QED
  BY <1>1, <1>2, <1>3, RunsUntouched
     DEF Harmless, Tame, RowsKeep, RunsKeep, RulesKept, SideEffectWaits, CancelEnds

LEMMA AdvanceKeeps ==
    ASSUME IInv, NEW t \in Tasks, NEW g \in Generations, NEW s, AdvanceRun(t, g, s)
    PROVE  RowsKeep /\ RulesKept /\ NoSuccess /\ CancellingKeeps
<1> USE TaskQueueAssumption
<1>1. UNCHANGED <<resumed, taskStatus, generation, attempt, leaseOwner, lease>>
  BY DEF AdvanceRun
<1>2. \A r \in Runs : runStatus[r] = "cancelling" => runStatus'[r] = "cancelling"
  BY DEF AdvanceRun, RunTransitions, IInv, TypeOK
<1>3. QED
  BY <1>1, <1>2 DEF RowsKeep, RulesKept, NoSuccess, AttemptsKeep, ClaimKeeps,
     SideEffectWaits, CancelEnds, CancellingKeeps

LEMMA ClaimingKeeps ==
    ASSUME IInv, NEW w \in Workers, NEW t \in Tasks, ClaimNext(w, t)
    PROVE  RunsKeep /\ RulesKept /\ NoSuccess /\ StandstillKeeps /\ CancellingKeeps
<1> USE TaskQueueAssumption
<1>1. UNCHANGED <<resumed, runStatus>>
  BY DEF ClaimNext
<1>2. \A u \in Tasks : taskStatus'[u] \in Waiting => taskStatus[u] \in Waiting
  BY DEF ClaimNext, IInv, TypeOK, Waiting
<1>3. NoSuccess
  BY DEF ClaimNext, NoSuccess, IInv, TypeOK
<1>4. QED
  BY <1>1, <1>2, <1>3, RunsUntouched DEF RunsKeep, RulesKept, SideEffectWaits, CancelEnds


-----------------------------------------------------------------------------
(***************************************************************************)
(* Who does what: only the worker thread claims a task or walks a run.     *)
(***************************************************************************)
Advancing ==
    /\ WalkStep
    /\ th.walk # <<>>
    /\ AdvanceRun(th.task, th.gen, Head(th.walk))
    /\ th' = [th EXCEPT !.walk = Tail(@)]
Claiming(t) ==
    /\ ClaimStep
    /\ ClaimNext(worker, t)
    /\ Claim(t, generation[t] + 1)

(* ... and only a child commits.                                           *)
Committing(t, g) ==
    /\ ChildStep(t, g)
    /\ child[t][g].state = "validating"
    /\ \E outputs : CommitValidatedTask(t, g, outputs)

LEMMA RecoverKeeps ==
    ASSUME IInv, NEW Rs, Recover(Rs) PROVE Harmless
  BY RecoveryKeeps, OthersKeep DEF Recover

LEMMA RunStepsKeep ==
    ASSUME IInv, NEW r \in Runs, EnqueueRun(r) \/ AggregateRun(r) PROVE Harmless
  BY RunStepKeeps, RunStepStands DEF RunStep, Harmless

LEMMA SettleStepKeeps ==
    ASSUME IInv, ThreadFits, SettleStep PROVE Harmless
<1> DEFINE r == CHOOSE x \in th.left : TRUE
<1>1. \/ UNCHANGED vars
      \/ th.pc \in {"resolve", "aggregate"} /\ (EnqueueRun(r) \/ AggregateRun(r))
  BY Zenon DEF SettleStep
<1>2. ASSUME th.pc \in {"resolve", "aggregate"} PROVE r \in Runs
  BY <1>2 DEF ThreadFits, ThreadKnows, ThreadStates
<1> HIDE DEF r
<1>3. QED
  BY <1>1, <1>2, RunStepsKeep, OthersKeep

LEMMA ThreadRows ==
    ASSUME IInv, ThreadFits, ThreadStep
    PROVE  Harmless \/ Advancing \/ \E t \in Tasks : Claiming(t)
<1>1. ASSUME th.pc \in Holding PROVE HasClaim
  BY <1>1 DEF ThreadFits, ThreadKnows
<1>2. CASE UNCHANGED vars
  BY <1>2, OthersKeep
<1>3. CASE \/ RecoverCancellingRuns \/ LeaveLoop \/ RecoverTerminalRuns
           \/ IdleWait \/ IdleRecover \/ EnsureRunRunning \/ Spawn \/ Identify
           \/ Watch \/ Judge \/ Report \/ ReRaise
  BY <1>2, <1>3 DEF RecoverCancellingRuns, LeaveLoop, RecoverTerminalRuns, IdleWait,
     IdleRecover, EnsureRunRunning, Spawn, Identify, Watch, Judge, Report, ReRaise
<1>4. CASE RecoverStep
  BY <1>4, RecoverKeeps DEF RecoverStep
<1>5. CASE ClaimStep
  <2>1. UNCHANGED vars \/ \E t \in Tasks : ClaimNext(worker, t) /\ Claim(t, generation[t] + 1)
    BY <1>5 DEF ClaimStep
  <2>2. QED
    BY <1>2, <1>5, <2>1 DEF Claiming
<1>6. CASE SettleStep
  BY <1>6, SettleStepKeeps
<1>7. CASE HandOver
  <2>1. worker \in Workers
    BY <1>7 DEF HandOver, ThreadFits, ThreadKnows
  <2>2. QED
    BY <1>7, <2>1, OthersKeep DEF HandOver
<1>8. CASE WalkStep
  <2>1. UNCHANGED vars \/ Advancing
    BY <1>8 DEF WalkStep, Advancing
  <2>2. QED
    BY <1>2, <2>1
<1>9. CASE \/ StartTask \/ FailAttemptStep \/ FailTaskStep \/ Decide
           \/ Finish \/ PutBack \/ Drop
  <2>1. HasClaim
    BY <1>1, <1>9 DEF StartTask, FailAttemptStep, FailTaskStep, Decide, Finish, PutBack,
       Drop, Holding
  <2>2. \/ ExecutorStartTask(th.task, th.gen)
        \/ FailAttempt(th.task, th.gen)
        \/ FailTask(th.task, th.gen)
        \/ ScheduleRetry(th.task, th.gen, th.code)
        \/ Release(th.task, th.gen)
        \/ UNCHANGED vars
    BY <1>9 DEF StartTask, FailAttemptStep, FailTaskStep, Decide, Finish, PutBack, Drop,
       Released, Unreleased
  <2>3. QED
    BY <1>2, <2>1, <2>2, HolderIsHarmless DEF HasClaim
<1>10. QED
  BY <1>3, <1>4, <1>5, <1>6, <1>7, <1>8, <1>9 DEF ThreadStep

LEMMA ChildRows ==
    ASSUME IInv, NEW t \in Tasks, NEW g \in Generations, ChildStep(t, g)
    PROVE  Harmless \/ Committing(t, g)
<1>1. \/ BeginValidating(t, g)
      \/ Committing(t, g)
      \/ FailTask(t, g)
      \/ UNCHANGED vars
  BY DEF ChildStep, ChildCheck, ChildInvoke, ChildValidate, ChildCommit, ChildFails,
     ChildRaises, ChildDies, Committing
<1>2. QED
  BY <1>1, HolderIsHarmless, OthersKeep

LEMMA ApiRows ==
    ASSUME IInv, NEW r \in Runs, ApiRequest(r) PROVE Tame /\ CancellingKeeps
<1> USE DEF Harmless
<1>1. CASE ConfirmRequest(r)
  <2>1. PICK t \in Tasks : ConfirmTask(t)
    BY <1>1 DEF ConfirmRequest, TasksOf
  <2>2. QED
    BY <2>1, OthersKeep
<1>2. CASE CancelRequest(r)
  <2>1. (RunStep(r) /\ ApplyCancelCommand(r)) \/ UNCHANGED vars
    BY <1>2 DEF CancelRequest, RunStep
  <2>2. QED
    BY <2>1, RunStepKeeps, RunStepStands, OthersKeep
<1>3. CASE ResumeRequest(r)
  <2>1. RunStep(r) /\ \E retry : ApplyResumeCommand(r, retry)
    BY <1>3 DEF ResumeRequest, RunStep
  <2>2. QED
    BY <2>1, RunStepKeeps, RunStepStands
<1>4. CASE RecoverRequest(r)
  BY <1>4, RecoverKeeps DEF RecoverRequest
<1>5. QED
  BY <1>1, <1>2, <1>3, <1>4 DEF ApiRequest

LEMMA RequestRows ==
    ASSUME IInv, RequestsFit, NEW s \in Slots, RequestStep(s)
    PROVE  Harmless \/ (ConcludeCancel(s) /\ Tame /\ StandstillKeeps)
<1> DEFINE r == request[s].run
<1>1. \/ UNCHANGED vars
      \/ request[s].pc # "idle" /\ (EnqueueRun(r) \/ AggregateRun(r))
      \/ /\ request[s].pc # "idle"
         /\ ConcludeCancel(s)
         /\ FinalizeCancelCommand(r) \/ MarkCancelIndeterminate(r)
  BY DEF RequestStep, ServeRun, ReadActive, TerminateRunProcesses, ConcludeCancel
<1>2. ASSUME request[s].pc # "idle" PROVE r \in Runs
  BY <1>2 DEF RequestsFit, RequestsKnow
<1> HIDE DEF r
<1>3. ASSUME r \in Runs, FinalizeCancelCommand(r) \/ MarkCancelIndeterminate(r)
      PROVE  Tame /\ StandstillKeeps
  BY <1>3, RunStepKeeps, RunStepStands DEF RunStep
<1>4. QED
  BY <1>1, <1>2, <1>3, RunStepsKeep, OthersKeep

LEMMA StepRows ==
    ASSUME SupIInv, SupNext
    PROVE  \/ Harmless
           \/ ThreadStep /\ Advancing
           \/ ThreadStep /\ \E t \in Tasks : Claiming(t)
           \/ \E t \in Tasks, g \in Generations : Committing(t, g)
           \/ Tame /\ CancellingKeeps /\ \E r \in Runs : ApiRequest(r)
           \/ Tame /\ StandstillKeeps /\ \E s \in Slots : ConcludeCancel(s)
<1> USE DEF SupIInv
<1>1. CASE ThreadStep
  BY <1>1, ThreadRows
<1>2. CASE \/ \E w \in Workers : StartProcess(w)
           \/ Stop \/ Exit \/ Crash \/ ClaimCopyExpires
           \/ \E t \in Tasks : RetryFallsDue(t)
  <2>1. UNCHANGED vars
    BY <1>2 DEF StartProcess, Stop, Exit, Crash, ProcessEnds, ClaimCopyExpires, RetryFallsDue
  <2>2. QED
    BY <2>1, OthersKeep
<1>3. CASE \E t \in Tasks : Expire(t)
  BY <1>3, OthersKeep DEF Expire
<1>4. CASE \E t \in Tasks, g \in Generations : ChildStep(t, g)
  BY <1>4, ChildRows
<1>5. CASE \E r \in Runs : ApiRequest(r)
  BY <1>5, ApiRows
<1>6. CASE \E s \in Slots : RequestStep(s)
  BY <1>6, RequestRows
<1>7. QED
  BY <1>1, <1>2, <1>3, <1>4, <1>5, <1>6 DEF SupNext

(* Hence: the rules are always kept, a task is claimed and a run walked by *)
(* the thread only, and committed by its child only.  Nobody but the       *)
(* thread and the API sets a run going that stands still, and a            *)
(* cancellation is concluded by its own last step only.                    *)
LEMMA StepKeeps ==
    ASSUME SupIInv, SupNext
    PROVE  /\ RulesKept
           /\ RowsKeep \/ (ThreadStep /\ \E t \in Tasks : Claiming(t))
           /\ RunsKeep \/ (ThreadStep /\ Advancing)
           /\ NoSuccess \/ \E t \in Tasks, g \in Generations : Committing(t, g)
           /\ StandstillKeeps \/ (ThreadStep /\ Advancing) \/ \E r \in Runs : ApiRequest(r)
           /\ CancellingKeeps \/ \E s \in Slots : ConcludeCancel(s)
<1> USE DEF Tame
<1>1. CASE Harmless
  BY <1>1 DEF Harmless
<1>2. CASE ThreadStep /\ Advancing
  <2>1. th.pc = "walk" /\ HasClaim
    BY <1>2 DEF Advancing, WalkStep, SupIInv, ThreadFits, ThreadKnows, Holding
  <2>2. QED
    BY <1>2, <2>1, AdvanceKeeps DEF Advancing, HasClaim, SupIInv
<1>3. CASE ThreadStep /\ \E t \in Tasks : Claiming(t)
  <2>1. worker \in Workers
    BY <1>3 DEF Claiming, ClaimStep, SupIInv, ThreadFits, ThreadKnows
  <2>2. QED
    BY <1>3, <2>1, ClaimingKeeps DEF Claiming, SupIInv
<1>4. CASE \E t \in Tasks, g \in Generations : Committing(t, g)
  BY <1>4, HolderKeeps DEF Committing, SupIInv
<1>5. QED
  BY <1>1, <1>2, <1>3, <1>4, StepRows

-----------------------------------------------------------------------------
(***************************************************************************)
(* The life of a child.                                                    *)
(***************************************************************************)
(* A child that has passed its checks.                                     *)
Late == {"checked", "handling", "validating"}
Over == Failures \cup {"none", "ok", "dead"}

(* Where a child may get to by itself or by being killed.                  *)
Aged(a, b) ==
    \/ b = a
    \/ a # "none" /\ b \in Over
    \/ a = "checked" /\ b = "handling"
    \/ a = "handling" /\ b = "validating"

Only(t, g) ==
    \A u \in Tasks, h \in Generations : u # t \/ h # g => child'[u][h] = child[u][h]

Aging == \A t \in Tasks, g \in Generations : Aged(child[t][g].state, child'[t][g].state)
Spawning ==
    /\ th.pc = "spawn" /\ th'.pc = "identify"
    /\ UNCHANGED vars
    /\ child'[th.task][th.gen].state = "started"
    /\ Only(th.task, th.gen)
Passing(t, g) ==
    /\ UNCHANGED <<vars, th, request>>
    /\ child[t][g].state = "started"
    /\ HoldsClaim(t, g)
    /\ runStatus[RunOf[t]] = "running"
    /\ child'[t][g].state = "checked"
    /\ Only(t, g)
Invoking(t, g) ==
    /\ UNCHANGED <<vars, th, request>>
    /\ child[t][g].state = "checked"
    /\ HoldsClaim(t, g)
    /\ child'[t][g].state = "handling"
    /\ Only(t, g)
    /\ effects' = [u \in SideEffect |-> IF u = t THEN effects[u] + 1 ELSE effects[u]]

LEMMA AgedStates ==
    ASSUME NEW a, NEW b, Aged(a, b)
    PROVE  /\ a = "none" => b = "none"
           /\ b \in Late => a \in Late
           /\ b \in {"started", "checked"} => a = b
  BY DEF Aged, Late, Over, Failures

LEMMA SameAges == UNCHANGED child => Aging
  BY DEF Aging, Aged

LEMMA ContinueAges ==
    ASSUME ChildrenFit, NEW t \in Tasks, NEW g \in Generations, NEW s \in ChildStates,
           Continue(t, g, s), Aged(child[t][g].state, s)
    PROVE  Aging
  BY ContinueFits DEF Aging, Aged

LEMMA GoneMakes ==
    ASSUME ChildrenFit, NEW t \in Tasks, NEW g \in Generations, Gone(t, g)
    PROVE  child'[t][g].state = "none" /\ Only(t, g)
<1>1. child[t][g] \in Children
  BY DEF ChildrenFit
<1>2. PICK c : c = [[child[t][g] EXCEPT !.state = "none"] EXCEPT !.by = NoWorker]
  OBVIOUS
<1>3. c \in Children /\ c.state = "none"
  BY <1>1, <1>2 DEF Children, ChildStates
<1>4. Replaces(t, g, c)
  BY <1>2 DEF Gone, ChildrenFit, Replaces
<1>5. QED
  BY <1>3, <1>4, ChildReplaced DEF Only

LEMMA GoneAges ==
    ASSUME ChildrenFit, NEW t \in Tasks, NEW g \in Generations, Gone(t, g)
    PROVE  Aging
  BY GoneMakes DEF Aging, Aged, Over, Only

LEMMA EndsAges ==
    ASSUME ChildrenFit, NEW t \in Tasks, NEW g \in Generations,
           child[t][g].state \in Alive,
           NEW s \in Failures \cup {"ok", "dead"}, Ends(t, g, s)
    PROVE  Aging
<1>1. s \in ChildStates /\ Aged(child[t][g].state, s)
  BY DEF ChildStates, Failures, Aged, Over, Alive
<1>2. QED
  BY <1>1, ContinueAges, GoneAges DEF Ends

LEMMA ThreadAges ==
    ASSUME ThreadFits, ChildrenFit, ThreadStep PROVE Aging \/ Spawning
<1>1. CASE Watch
  <2>1. HasClaim
    BY <1>1 DEF Watch, ThreadFits, ThreadKnows, Holding
  <2>2. QED
    BY <1>1, <2>1, GoneAges DEF Watch, HasClaim
<1>2. CASE Spawn
  <2>1. HasClaim /\ worker \in Workers
    BY <1>2 DEF Spawn, ThreadFits, ThreadKnows, Holding
  <2>2. CASE Goto("identify")
             /\ child' = [child EXCEPT ![th.task][th.gen].state = "started",
                                       ![th.task][th.gen].by = worker]
    <3>1. PICK t \in Tasks, g \in Generations : t = th.task /\ g = th.gen
      BY <2>1 DEF HasClaim
    <3>2. child[t][g] \in Children
      BY DEF ChildrenFit
    <3>3. PICK c : c = [[child[t][g] EXCEPT !.state = "started"] EXCEPT !.by = worker]
      OBVIOUS
    <3>4. c \in Children /\ c.state = "started"
      BY <2>1, <3>2, <3>3 DEF Children, ChildStates, Alive
    <3>5. Replaces(t, g, c)
      BY <2>2, <3>1, <3>3 DEF ChildrenFit, Replaces
    <3>6. th.pc = "spawn" /\ UNCHANGED vars
      BY <1>2 DEF Spawn
    <3>7. th'.pc = "identify"
      BY <2>2, GotoMoves DEF ThreadFits, ThreadPcs
    <3>8. QED
      BY <3>1, <3>4, <3>5, <3>6, <3>7, ChildReplaced DEF Spawning, Only
  <2>3. CASE UNCHANGED child
    BY <2>3, SameAges
  <2>4. QED
    BY <1>2, <2>2, <2>3 DEF Spawn
<1>3. CASE Identify
  <2>1. HasClaim
    BY <1>3 DEF Identify, ThreadFits, ThreadKnows, Holding
  <2>2. PICK t \in Tasks, g \in Generations : t = th.task /\ g = th.gen
    BY <2>1 DEF HasClaim
  <2>3. CASE child' = [child EXCEPT ![th.task][th.gen].known = TRUE]
    <3>1. child[t][g] \in Children
      BY DEF ChildrenFit
    <3>2. PICK c : c = [child[t][g] EXCEPT !.known = TRUE]
      OBVIOUS
    <3>3. c \in Children /\ c.state = child[t][g].state
      BY <3>1, <3>2 DEF Children
    <3>4. Replaces(t, g, c)
      BY <2>2, <2>3, <3>2 DEF ChildrenFit, Replaces
    <3>5. QED
      BY <3>3, <3>4, ChildReplaced DEF Aging, Aged
  <2>4. QED
    BY <1>3, <2>2, <2>3, GoneAges DEF Identify
<1>4. CASE UNCHANGED child
  BY <1>4, SameAges
<1>5. QED
  BY <1>1, <1>2, <1>3, <1>4 DEF ThreadStep, RecoverCancellingRuns, RecoverStep, LeaveLoop,
     RecoverTerminalRuns, ClaimStep, IdleWait, IdleRecover, SettleStep, HandOver,
     EnsureRunRunning, WalkStep, StartTask, Finish, Judge, Decide, PutBack,
     FailAttemptStep, FailTaskStep, Drop, Report, ReRaise

LEMMA ChildAges ==
    ASSUME ChildrenFit, NEW t \in Tasks, NEW g \in Generations, ChildStep(t, g)
    PROVE  /\ UNCHANGED <<th, request>>
           /\ Aging \/ Passing(t, g)
           /\ UNCHANGED effects \/ Invoking(t, g)
<1>1. UNCHANGED <<th, request>>
  BY DEF ChildStep
<1>2. CASE ChildCheck(t, g)
  <2>1. UNCHANGED <<vars, effects>>
    BY <1>2 DEF ChildCheck
  <2>2. CASE /\ HoldsClaim(t, g) /\ runStatus[RunOf[t]] = "running"
             /\ Continue(t, g, "checked")
    <3>1. child'[t][g].state = "checked" /\ Only(t, g)
      BY <2>2, ContinueFits DEF ChildStates, Alive, Only
    <3>2. QED
      BY <1>1, <1>2, <2>1, <2>2, <3>1 DEF Passing, ChildCheck
  <2>3. CASE \E s \in Failures : Ends(t, g, s)
    BY <1>1, <1>2, <2>1, <2>3, EndsAges DEF ChildCheck, Alive
  <2>4. QED
    BY <1>2, <2>2, <2>3 DEF ChildCheck, Failures
<1>3. CASE ChildInvoke(t, g)
  <2>1. CASE Ends(t, g, "STALE_LEASE") /\ UNCHANGED effects
    BY <1>1, <1>3, <2>1, EndsAges DEF ChildInvoke, Alive, Failures
  <2>2. CASE /\ HoldsClaim(t, g) /\ Continue(t, g, "handling")
             /\ effects' = [u \in SideEffect |-> IF u = t THEN effects[u] + 1 ELSE effects[u]]
    <3>1. child'[t][g].state = "handling" /\ Only(t, g)
      BY <2>2, ContinueFits DEF ChildStates, Alive, Only
    <3>2. Aging
      BY <1>3, <2>2, ContinueAges DEF ChildInvoke, ChildStates, Alive, Aged
    <3>3. QED
      BY <1>1, <1>3, <2>2, <3>1, <3>2 DEF Invoking, ChildInvoke
  <2>3. QED
    BY <1>3, <2>1, <2>2 DEF ChildInvoke
<1>4. CASE ChildValidate(t, g)
  <2>1. UNCHANGED effects /\ child[t][g].state = "handling"
    BY <1>4 DEF ChildValidate
  <2>2. CASE Continue(t, g, "validating")
    BY <1>1, <2>1, <2>2, ContinueAges DEF ChildStates, Alive, Aged
  <2>3. CASE Ends(t, g, "STALE_LEASE")
    BY <1>1, <2>1, <2>3, EndsAges DEF Alive, Failures
  <2>4. QED
    BY <1>4, <2>2, <2>3 DEF ChildValidate
<1>5. CASE ChildCommit(t, g) \/ ChildFails(t, g) \/ ChildRaises(t, g) \/ ChildDies(t, g)
  <2>1. UNCHANGED effects /\ child[t][g].state \in Alive
    BY <1>5 DEF ChildCommit, ChildFails, ChildRaises, ChildDies, Alive
  <2>2. \E s \in Failures \cup {"ok", "dead"} : Ends(t, g, s)
    BY <1>5 DEF ChildCommit, ChildFails, ChildRaises, ChildDies, Failures
  <2>3. QED
    BY <1>1, <2>1, <2>2, EndsAges
<1>6. QED
  BY <1>2, <1>3, <1>4, <1>5 DEF ChildStep

LEMMA ProcessEndsAges ==
    ASSUME ChildrenFit, ProcessEnds PROVE Aging
<1>1. PICK tied \in BOOLEAN :
          child' = [t \in Tasks |-> [g \in Generations |->
              IF child[t][g].state \in Alive /\ (tied => child[t][g].by # worker)
              THEN child[t][g]
              ELSE [child[t][g] EXCEPT !.state = "none", !.by = NoWorker]]]
  BY DEF ProcessEnds
<1> DEFINE Left(t, g) ==
          IF child[t][g].state \in Alive /\ (tied => child[t][g].by # worker)
          THEN child[t][g]
          ELSE [child[t][g] EXCEPT !.state = "none", !.by = NoWorker]
<1>2. child' = [t \in Tasks |-> [g \in Generations |-> Left(t, g)]]
  BY <1>1
<1>3. ASSUME NEW t \in Tasks, NEW g \in Generations
      PROVE  Aged(child[t][g].state, Left(t, g).state)
  <2>1. child[t][g] \in Children
    BY DEF ChildrenFit
  <2>2. Left(t, g).state \in {child[t][g].state, "none"}
    BY <2>1 DEF Children
  <2>3. QED
    BY <2>2 DEF Aged, Over
<1> HIDE DEF Left
<1>4. QED
  BY <1>2, <1>3 DEF Aging

LEMMA KillAges ==
    ASSUME ThreadFits, ChildrenFit, RequestsFit, NEW s \in Slots, TerminateRunProcesses(s)
    PROVE  Aging
<1>1. PICK i \in request[s].todo : Kill(s, i)
  BY DEF TerminateRunProcesses
<1>2. i \in Target
  BY DEF TerminateRunProcesses, RequestsFit, RequestsKnow, Requests
<1>3. CASE UNCHANGED child
  BY <1>3, SameAges
<1>4. CASE /\ Supervised(i.task, th.gen) /\ Continue(i.task, th.gen, "dead")
           /\ child[i.task][th.gen].state \in Alive
  <2>1. i.task \in Tasks /\ th.gen \in Generations
    BY <1>4 DEF Supervised, ThreadFits, ThreadKnows, HasClaim, Holding
  <2>2. "dead" \in ChildStates /\ Aged(child[i.task][th.gen].state, "dead")
    BY <1>4 DEF ChildStates, Aged, Over, Alive
  <2>3. QED
    BY <1>4, <2>1, <2>2, ContinueAges
<1>5. CASE Gone(i.task, i.gen)
  BY <1>2, <1>5, GoneAges DEF Target
<1>6. QED
  BY <1>1, <1>3, <1>4, <1>5 DEF Kill

LEMMA StepAges ==
    ASSUME SupIInv, SupNext
    PROVE  /\ \/ Aging
              \/ ThreadStep /\ Spawning
              \/ \E t \in Tasks, g \in Generations : Passing(t, g)
           /\ \/ UNCHANGED effects
              \/ \E t \in Tasks, g \in Generations : Invoking(t, g)
<1> USE DEF SupIInv
<1>1. CASE ThreadStep
  BY <1>1, ThreadAges DEF ThreadStep
<1>2. CASE \E t \in Tasks, g \in Generations : ChildStep(t, g)
  BY <1>2, ChildAges
<1>3. CASE Exit \/ Crash
  BY <1>3, ProcessEndsAges DEF Exit, Crash, ProcessEnds
<1>4. CASE \E s \in Slots : RequestStep(s)
  <2>1. PICK s \in Slots : RequestStep(s)
    BY <1>4
  <2>2. UNCHANGED effects /\ (UNCHANGED child \/ TerminateRunProcesses(s))
    BY <2>1 DEF RequestStep, ServeRun, ReadActive, ConcludeCancel
  <2>3. QED
    BY <2>2, KillAges, SameAges
<1>5. CASE UNCHANGED <<child, effects>>
  BY <1>5, SameAges
<1>6. QED
  BY <1>1, <1>2, <1>3, <1>4, <1>5
     DEF SupNext, StartProcess, Stop, ClaimCopyExpires, ApiRequest, Expire, RetryFallsDue


-----------------------------------------------------------------------------
(***************************************************************************)
(* Where the thread goes.                                                  *)
(***************************************************************************)

(* About a claim, or settling before it returns to an exception about one. *)
Held == th.pc \in Holding \/ (th.pc \in Settling /\ th.then = "raise")

(* The last claims have been handed over.                                  *)
Ending == th.pc = "dead" \/ (th.pc \in Settling /\ th.then = "dead")

SameClaim == th'.task = th.task /\ th'.gen = th.gen

(* From where the thread gets to the places that matter here.              *)
Moves ==
    /\ Held' => (SameClaim /\ Held) \/ (th.pc = "claim" /\ th'.pc = "ensure")
    /\ Ending' => Ending \/ th.pc = "hand_over"
    /\ th'.pc = "hand_over" => th.pc = "dying"
    /\ th'.pc = "boot" => th.pc = "boot"
    /\ th'.pc = "walk" => th.pc \in {"ensure", "walk"}
    /\ th'.pc = "spawn" => th.pc = "start"
    /\ th'.pc = "finish" => th.pc = "watch"
    /\ th'.pc = "judge" => th.pc \in {"spawn", "identify", "watch", "finish"}
    /\ th'.pc = "decide" => th.pc = "judge"
    /\ th'.pc \in {"put_back", "fail_attempt", "fail_task"} =>
          th.pc \in {"decide", "put_back", "fail_attempt"}
    /\ th'.pc \in {"identify", "watch"} => th.pc \in {"spawn", "identify", "watch"}

LEMMA PollMoves == Poll => Moves
<1>1. Thread("poll").pc = "poll"
  BY DEF Thread
<1>2. QED
  BY <1>1 DEF Poll, Moves, Held, Ending, Holding, Settling

(* A move within run_once that keeps the claim.                            *)
LEMMA HeldMoves ==
    ASSUME NEW p \in Holding, th.pc \in Holding, SameClaim, th'.pc = p,
           p = "walk" => th.pc \in {"ensure", "walk"},
           p = "spawn" => th.pc = "start",
           p = "finish" => th.pc = "watch",
           p = "judge" => th.pc \in {"spawn", "identify", "watch", "finish"},
           p = "decide" => th.pc = "judge",
           p \in {"put_back", "fail_attempt", "fail_task"} =>
               th.pc \in {"decide", "put_back", "fail_attempt"},
           p \in {"identify", "watch"} => th.pc \in {"spawn", "identify", "watch"}
    PROVE  Moves
  BY DEF Moves, Held, Ending, Holding, Settling

(* A move to a place that is about no claim.                               *)
LEMMA FreeMoves ==
    ASSUME th'.pc \in {"down", "recover", "terminal", "poll", "claim", "idle", "dying"}
    PROVE  Moves
  BY DEF Moves, Held, Ending, Holding, Settling

(* A move that settles something.                                          *)
LEMMA SettlingMoves ==
    ASSUME th'.pc \in Settling, SameClaim,
           th'.then = "raise" => Held,
           th'.then = "dead" => Ending \/ th.pc = "hand_over"
    PROVE  Moves
  BY DEF Moves, Held, Ending, Holding, Settling

LEMMA SettleMove ==
    ASSUME th \in ThreadStates, NEW Rs, NEW then, Settle(Rs, then)
    PROVE  /\ th'.pc = "settle" /\ SameClaim /\ th'.then = then
  BY DEF Settle, ThreadStates, SameClaim

LEMMA RaiseMove ==
    ASSUME th \in ThreadStates, NEW code, Raise(code)
    PROVE  th'.pc = "judge" /\ SameClaim
  BY DEF Raise, ThreadStates, SameClaim

LEMMA GotoMove ==
    ASSUME th \in ThreadStates, NEW p \in ThreadPcs, Goto(p)
    PROVE  th'.pc = p /\ SameClaim /\ th'.then = th.then
  BY GotoMoves DEF SameClaim

LEMMA LoopMoves ==
    ASSUME ThreadFits,
           \/ RecoverCancellingRuns \/ RecoverStep \/ LeaveLoop \/ RecoverTerminalRuns
           \/ IdleWait \/ IdleRecover \/ HandOver
    PROVE  Moves
<1>a. th \in ThreadStates
  BY DEF ThreadFits
<1>1. CASE RecoverCancellingRuns
  <2>1. CASE Goto("recover")
    BY <1>a, <2>1, GotoMove, FreeMoves DEF ThreadPcs
  <2>2. CASE \E r \in th.left : th' = [th EXCEPT !.left = @ \ {r}]
    <3>1. th'.pc = "boot" /\ th.pc = "boot"
      BY <1>1, <1>a, <2>2 DEF RecoverCancellingRuns, ThreadStates
    <3>2. QED
      BY <3>1 DEF Moves, Held, Ending, Holding, Settling
  <2>3. QED
    BY <1>1, <2>1, <2>2 DEF RecoverCancellingRuns
<1>2. CASE RecoverStep
  <2>1. CASE Goto("terminal") \/ Goto("claim")
    BY <1>a, <2>1, GotoMove, FreeMoves DEF ThreadPcs
  <2>2. CASE th.pc = "hand_over" /\ Settle(th.left, "dead")
    BY <1>a, <2>2, SettleMove, SettlingMoves DEF Settling
  <2>3. QED
    BY <1>2, <2>1, <2>2 DEF RecoverStep
<1>3. CASE LeaveLoop \/ IdleWait \/ IdleRecover
  BY <1>a, <1>3, GotoMove, FreeMoves
     DEF LeaveLoop, Die, IdleWait, IdleRecover, ThreadPcs
<1>4. CASE RecoverTerminalRuns
  BY <1>a, <1>4, PollMoves, SettleMove, SettlingMoves DEF RecoverTerminalRuns, Settling
<1>5. CASE HandOver
  <2>1. PICK Rs : th' = [Thread("hand_over") EXCEPT !.left = Rs]
    BY <1>5 DEF HandOver
  <2>2. th'.pc = "hand_over" /\ th.pc = "dying"
    BY <1>5, <2>1 DEF HandOver, Thread
  <2>3. QED
    BY <2>2 DEF Moves, Held, Ending, Holding, Settling
<1>6. QED
  BY <1>1, <1>2, <1>3, <1>4, <1>5

LEMMA ClaimMoves ==
    ASSUME ThreadFits, ClaimStep
    PROVE  /\ Moves
           /\ \A t, g : Claim(t, g) => th'.pc = "ensure" /\ th'.task = t /\ th'.gen = g
<1>1. \A t, g : Claim(t, g) => th'.pc = "ensure" /\ th'.task = t /\ th'.gen = g
  BY DEF Claim, Thread
<1>2. CASE \E t, g : Claim(t, g)
  BY <1>1, <1>2 DEF ClaimStep, Moves, Held, Ending, Holding, Settling
<1>3. CASE Goto("idle")
  <2>1. th \in ThreadStates /\ "idle" \in ThreadPcs
    BY DEF ThreadFits, ThreadPcs
  <2>2. th'.pc = "idle"
    BY <1>3, <2>1, GotoMove
  <2>3. QED
    BY <2>2, FreeMoves, <1>1 DEF Claim
<1>4. QED
  BY <1>1, <1>2, <1>3 DEF ClaimStep

LEMMA SettleStepMoves ==
    ASSUME ThreadFits, SettleStep PROVE Moves
<1> DEFINE r == CHOOSE x \in th.left : TRUE
<1>a. /\ th \in ThreadStates /\ th.pc \in Settling
      /\ th.then \in {"poll", "raise", "dead"}
  BY DEF SettleStep, ThreadFits, ThreadKnows, Settling
<1>1. \/ Poll
      \/ th.pc = "settle" /\ th.then # "poll" /\ Goto(th.then)
      \/ th' = [th EXCEPT !.pc = "settle", !.left = @ \ {r}]
      \/ Goto("resolve") \/ Goto("aggregate")
  BY Zenon DEF SettleStep
<1> HIDE DEF r
<1>2. CASE th.then # "poll" /\ Goto(th.then)
  <2>1. th'.pc = th.then /\ SameClaim /\ th.then \in {"raise", "dead"}
    BY <1>a, <1>2, GotoMove DEF ThreadPcs
  <2>2. QED
    BY <1>a, <2>1 DEF Moves, Held, Ending, Holding, Settling
<1>3. CASE th' = [th EXCEPT !.pc = "settle", !.left = @ \ {r}]
  <2>1. th'.pc = "settle" /\ SameClaim /\ th'.then = th.then
    BY <1>a, <1>3 DEF ThreadStates, SameClaim
  <2>2. QED
    BY <1>a, <2>1, SettlingMoves DEF Held, Ending, Settling
<1>4. CASE Goto("resolve") \/ Goto("aggregate")
  <2>1. th'.pc \in Settling /\ SameClaim /\ th'.then = th.then
    BY <1>a, <1>4, GotoMove DEF ThreadPcs, Settling
  <2>2. QED
    BY <1>a, <2>1, SettlingMoves DEF Held, Ending
<1>5. QED
  BY <1>1, <1>2, <1>3, <1>4, PollMoves

LEMMA StartMoves ==
    ASSUME ThreadFits,
           EnsureRunRunning \/ WalkStep \/ StartTask \/ Spawn \/ Identify \/ Watch
               \/ ClaimCopyExpires
    PROVE  Moves
<1>a. th \in ThreadStates
  BY DEF ThreadFits
<1>1. CASE EnsureRunRunning
  <2>1. CASE Die
    BY <1>a, <2>1, GotoMove, FreeMoves DEF Die, ThreadPcs
  <2>2. CASE \E w : th' = [th EXCEPT !.pc = "walk", !.walk = w]
    <3>1. th'.pc = "walk" /\ SameClaim /\ th.pc = "ensure"
      BY <1>a, <1>1, <2>2 DEF EnsureRunRunning, ThreadStates, SameClaim
    <3>2. QED
      BY <3>1, HeldMoves DEF Holding
  <2>3. QED
    BY <1>1, <2>1, <2>2 DEF EnsureRunRunning
<1>2. CASE WalkStep
  <2>1. CASE Poll \/ Die
    BY <1>a, <2>1, PollMoves, GotoMove, FreeMoves DEF Die, ThreadPcs
  <2>2. CASE Goto("start") \/ th' = [th EXCEPT !.walk = Tail(@)]
    <3>1. th'.pc \in {"start", "walk"} /\ SameClaim /\ th.pc = "walk"
      BY <1>a, <1>2, <2>2, GotoMove DEF WalkStep, ThreadStates, ThreadPcs, SameClaim
    <3>2. QED
      BY <3>1, HeldMoves DEF Holding
  <2>3. QED
    BY <1>2, <2>1, <2>2 DEF WalkStep
<1>3. CASE StartTask
  <2>1. CASE Goto("spawn")
    <3>1. th'.pc = "spawn" /\ SameClaim /\ th.pc = "start"
      BY <1>a, <1>3, <2>1, GotoMove DEF StartTask, ThreadPcs
    <3>2. QED
      BY <3>1, HeldMoves DEF Holding
  <2>2. QED
    BY <1>3, <2>1, PollMoves DEF StartTask
<1>4. CASE Spawn \/ Identify \/ Watch \/ ClaimCopyExpires
  <2>1. th.pc \in {"spawn", "identify", "watch"}
    BY <1>4 DEF Spawn, Identify, Watch, ClaimCopyExpires
  <2>2. CASE Goto("identify") \/ Goto("watch") \/ \E code : Raise(code)
    <3>1. th'.pc \in {"identify", "watch", "judge"} /\ SameClaim
      BY <1>a, <2>2, GotoMove, RaiseMove DEF ThreadPcs
    <3>2. QED
      BY <2>1, <3>1, HeldMoves DEF Holding
  <2>3. CASE th.pc = "watch" /\ \/ th' = [th EXCEPT !.pc = "finish", !.stale = FALSE]
                                \/ th' = [th EXCEPT !.stale = TRUE]
    <3>1. th'.pc \in {"finish", "watch"} /\ SameClaim
      BY <1>a, <2>3 DEF ThreadStates, SameClaim
    <3>2. QED
      BY <2>3, <3>1, HeldMoves DEF Holding
  <2>4. QED
    BY <1>4, <2>2, <2>3 DEF Spawn, Identify, Watch, ClaimCopyExpires
<1>5. QED
  BY <1>1, <1>2, <1>3, <1>4

LEMMA JudgingMoves ==
    ASSUME ThreadFits,
           Finish \/ Judge \/ Decide \/ PutBack \/ FailAttemptStep \/ FailTaskStep
               \/ Drop \/ Report \/ ReRaise
    PROVE  Moves
<1>a. th \in ThreadStates
  BY DEF ThreadFits
<1>1. CASE Poll
  BY <1>1, PollMoves
<1>2. CASE \E Rs : Settle(Rs, "poll")
  BY <1>a, <1>2, SettleMove, SettlingMoves DEF Settling
<1>3. CASE Finish /\ Raise("STALE_LEASE")
  BY <1>a, <1>3, RaiseMove, HeldMoves DEF Finish, Holding
<1>4. CASE th.pc = "judge" /\ \E b : th' = [th EXCEPT !.pc = "decide", !.current = b]
  <2>1. th'.pc = "decide" /\ SameClaim
    BY <1>a, <1>4 DEF ThreadStates, SameClaim
  <2>2. QED
    BY <1>4, <2>1, HeldMoves DEF Holding
<1>5. CASE th.pc \in Holding /\ \E s : th' = [th EXCEPT !.pc = "drop", !.then = s]
  <2>1. th'.pc = "drop" /\ SameClaim
    BY <1>a, <1>5 DEF ThreadStates, SameClaim
  <2>2. QED
    BY <1>5, <2>1, HeldMoves DEF Holding
<1>6. CASE /\ th.pc \in {"decide", "put_back"}
           /\ \/ \E b : th' = [th EXCEPT !.pc = "fail_attempt", !.current = b]
              \/ Goto("put_back") \/ Goto("fail_attempt")
  <2>1. th'.pc \in {"put_back", "fail_attempt"} /\ SameClaim
    BY <1>a, <1>6, GotoMove DEF ThreadStates, SameClaim, ThreadPcs
  <2>2. QED
    BY <1>6, <2>1, HeldMoves DEF Holding
<1>7. CASE th.pc = "fail_attempt" /\ Goto("fail_task")
  BY <1>a, <1>7, GotoMove, HeldMoves DEF ThreadPcs, Holding
<1>8. CASE th.pc \in Holding /\ (Goto("report") \/ Goto("raise"))
  <2>1. th'.pc \in {"report", "raise"} /\ SameClaim
    BY <1>a, <1>8, GotoMove DEF ThreadPcs
  <2>2. QED
    BY <1>8, <2>1, HeldMoves DEF Holding
<1>9. CASE th.pc = "report" /\ \E Rs : Settle(Rs, "raise")
  BY <1>a, <1>9, SettleMove, SettlingMoves DEF Settling, Held, Holding
<1>10. CASE Die
  BY <1>a, <1>10, GotoMove, FreeMoves DEF Die, ThreadPcs
<1>11. CASE Finish
  BY <1>2, <1>3, <1>11 DEF Finish, Released, Unreleased
<1>12. CASE Judge
  BY <1>4, <1>5, <1>12 DEF Judge, Holding
<1>13. CASE Decide
  BY <1>6, <1>13 DEF Decide
<1>14. CASE PutBack
  BY <1>1, <1>6, <1>14 DEF PutBack, Released, Unreleased
<1>15. CASE FailAttemptStep \/ FailTaskStep
  BY <1>1, <1>5, <1>7, <1>15 DEF FailAttemptStep, FailTaskStep, Holding
<1>16. CASE Drop
  BY <1>1, <1>2, <1>8, <1>16 DEF Drop, Released, Unreleased, Holding
<1>17. CASE Report
  BY <1>1, <1>8, <1>9, <1>17 DEF Report, Holding
<1>18. CASE ReRaise
  BY <1>1, <1>2, <1>10, <1>18 DEF ReRaise
<1>19. QED
  BY <1>11, <1>12, <1>13, <1>14, <1>15, <1>16, <1>17, <1>18

LEMMA ThreadMoves ==
    ASSUME ThreadFits, ThreadStep \/ ClaimCopyExpires PROVE Moves
  BY LoopMoves, ClaimMoves, SettleStepMoves, StartMoves, JudgingMoves, Zenon DEF ThreadStep

(* All that moves the thread.                                              *)
LEMMA StepMoves ==
    ASSUME SupIInv, SupNext
    PROVE  \/ UNCHANGED <<th, worker>>
           \/ ThreadStep /\ Moves /\ UNCHANGED worker
           \/ ClaimCopyExpires /\ Moves /\ UNCHANGED <<vars, worker, child, request, effects>>
           \/ ProcessEnds /\ th'.pc = "down"
           \/ \E w \in Workers : StartProcess(w)
<1>1. CASE ThreadStep
  BY <1>1, ThreadMoves DEF SupIInv, ThreadStep, process
<1>2. CASE ClaimCopyExpires /\ UNCHANGED <<process, effects>>
  BY <1>2, ThreadMoves DEF SupIInv, process, ClaimCopyExpires
<1>3. CASE Exit \/ Crash
  <2>1. Thread("down").pc = "down"
    BY DEF Thread
  <2>2. QED
    BY <1>3, <2>1 DEF Exit, Crash, ProcessEnds
<1>4. CASE \/ Stop
           \/ \E t \in Tasks, g \in Generations : ChildStep(t, g)
           \/ \E r \in Runs : ApiRequest(r)
           \/ \E s \in Slots : RequestStep(s)
           \/ \E t \in Tasks : Expire(t) \/ RetryFallsDue(t)
  BY <1>4 DEF Stop, ChildStep, ApiRequest, RequestStep, Expire, RetryFallsDue, process
<1>5. QED
  BY <1>1, <1>2, <1>3, <1>4 DEF SupNext


-----------------------------------------------------------------------------
(***************************************************************************)
(* What is committed is not judged.                                        *)
(***************************************************************************)

(* Where the thread has not yet spawned the child of its claim, or has     *)
(* seen the last of it and judges.                                         *)
Childless == {"spawn", "finish", "judge", "decide", "put_back", "fail_attempt", "fail_task"}

(* A child exists only for an attempt that was started.                    *)
ChildrenStarted ==
    \A t \in Tasks, g \in Generations :
        child[t][g].state # "none" => attempt[t][g] \notin {"absent", "leased"}
SpawnStarted ==
    th.pc = "spawn" => attempt[th.task][th.gen] \notin {"absent", "leased"}
ThreadIsAlone ==
    th.pc \in Childless => child[th.task][th.gen].state = "none"
JudgedRight == ChildrenStarted /\ SpawnStarted /\ ThreadIsAlone /\ CommitIsNotJudged

(* What a claim does to the attempts.                                      *)
LEMMA ClaimedAttempts ==
    ASSUME IInv, NEW t \in Tasks, Claiming(t)
    PROVE  /\ generation[t] + 1 \in Generations
           /\ generation'[t] = generation[t] + 1
           /\ attempt[t][generation[t] + 1] = "absent"
           /\ \A u \in Tasks, g \in Generations :
                 u # t \/ g # generation[t] + 1 => attempt'[u][g] = attempt[u][g]
           /\ \A u \in Tasks : u # t =>
                 /\ generation'[u] = generation[u]
                 /\ taskStatus'[u] = taskStatus[u]
                 /\ leaseOwner'[u] = leaseOwner[u]
                 /\ lease'[u] = lease[u]
           /\ taskStatus[t] = "ready"
           /\ runStatus[RunOf[t]] \notin Unclaimable
           /\ th.pc = "claim"
           /\ th'.pc = "ensure" /\ th'.task = t /\ th'.gen = generation[t] + 1
           /\ UNCHANGED <<runStatus, resumed, child, request>>
<1> USE TaskQueueAssumption
<1>1. TypeOK /\ NewestCounts(t) /\ ClaimNext(worker, t)
  BY DEF IInv, RowsAgree, RowAgrees, Claiming
<1>2. generation[t] \in 0 .. MaxGeneration /\ generation[t] < MaxGeneration
  BY <1>1 DEF TypeOK, ClaimNext
<1>3. generation[t] + 1 \in Generations /\ generation[t] + 1 > generation[t]
  BY <1>2 DEF Generations
<1>4. attempt[t][generation[t] + 1] = "absent"
  BY <1>1, <1>3 DEF NewestCounts
<1>5. /\ generation'[t] = generation[t] + 1
      /\ \A u \in Tasks : u # t =>
            /\ generation'[u] = generation[u]
            /\ taskStatus'[u] = taskStatus[u]
            /\ leaseOwner'[u] = leaseOwner[u]
            /\ lease'[u] = lease[u]
      /\ taskStatus[t] = "ready" /\ runStatus[RunOf[t]] \notin Unclaimable
      /\ UNCHANGED <<runStatus, resumed>>
  BY <1>1 DEF TypeOK, ClaimNext, Claimable
<1>6. \A u \in Tasks, g \in Generations :
          u # t \/ g # generation[t] + 1 => attempt'[u][g] = attempt[u][g]
  BY <1>1, <1>3 DEF TypeOK, ClaimNext
<1>7. th.pc = "claim" /\ UNCHANGED <<child, request>>
  BY DEF Claiming, ClaimStep
<1>8. th'.pc = "ensure" /\ th'.task = t /\ th'.gen = generation[t] + 1
  BY DEF Claiming, Claim, Thread
<1>9. QED
  BY <1>3, <1>4, <1>5, <1>6, <1>7, <1>8

(* An attempt that was started stays started.                              *)
LEMMA StartedStays ==
    ASSUME SupIInv, SupNext, NEW t \in Tasks, NEW g \in Generations,
           attempt[t][g] \notin {"absent", "leased"}
    PROVE  attempt'[t][g] \notin {"absent", "leased"}
<1>1. CASE RowsKeep
  BY <1>1 DEF RowsKeep, AttemptsKeep
<1>2. CASE \E u \in Tasks : Claiming(u)
  BY <1>2, ClaimedAttempts DEF SupIInv
<1>3. QED
  BY <1>1, <1>2, StepKeeps

LEMMA ChildrenStartedStep ==
    ASSUME SupIInv, JudgedRight, SupNext PROVE ChildrenStarted'
<1> SUFFICES ASSUME NEW t \in Tasks, NEW g \in Generations, child'[t][g].state # "none"
             PROVE  attempt'[t][g] \notin {"absent", "leased"}
  BY DEF ChildrenStarted
<1>1. CASE child[t][g].state # "none"
  BY <1>1, StartedStays DEF JudgedRight, ChildrenStarted
<1>2. CASE child[t][g].state = "none"
  <2>1. ~Aging
    BY <1>2, AgedStates DEF Aging
  <2>2. ASSUME NEW u \in Tasks, NEW h \in Generations, Passing(u, h) PROVE FALSE
    BY <1>2, <2>2 DEF Passing, Only
  <2>3. Spawning
    BY <2>1, <2>2, StepAges
  <2>4. t = th.task /\ g = th.gen /\ UNCHANGED vars
    BY <1>2, <2>3 DEF Spawning, Only
  <2>5. QED
    BY <2>3, <2>4 DEF Spawning, JudgedRight, SpawnStarted, vars
<1>3. QED
  BY <1>1, <1>2

(* The actions of the thread by their place.                               *)
LEMMA ThreadAt ==
    ASSUME ThreadStep
    PROVE  /\ th.pc = "start" => StartTask
           /\ th.pc = "spawn" => Spawn
           /\ th.pc = "identify" => Identify
           /\ th.pc = "watch" => Watch
           /\ th.pc = "judge" => Judge
           /\ th.pc = "ensure" => EnsureRunRunning
           /\ th.pc = "walk" => WalkStep
           /\ th.pc = "hand_over" => RecoverStep
           /\ th.pc = "dying" => HandOver
           /\ th.pc = "boot" => RecoverCancellingRuns
           /\ th.pc \in {"finish", "decide", "put_back", "fail_attempt", "fail_task"} =>
                 UNCHANGED child
  BY DEF ThreadStep, RecoverCancellingRuns, RecoverStep, LeaveLoop,
     RecoverTerminalRuns, ClaimStep, IdleWait, IdleRecover, SettleStep, HandOver,
     EnsureRunRunning, WalkStep, StartTask, Spawn, Identify, Watch, Finish, Judge, Decide,
     PutBack, FailAttemptStep, FailTaskStep, Drop, Report, ReRaise

(* A place about a claim is reached from one, with the same claim.         *)
LEMMA PlaceKept ==
    ASSUME SupIInv, ThreadStep, Moves, th'.pc \in Childless
    PROVE  SameClaim /\ HasClaim
<1>1. SameClaim /\ Held
  BY DEF Moves, Held, Childless, Holding
<1>2. QED
  BY <1>1 DEF SupIInv, ThreadFits, ThreadKnows, Held

LEMMA ThreadAloneStep ==
    ASSUME SupIInv, JudgedRight, SupNext, ThreadStep, Moves, th'.pc \in Childless
    PROVE  child'[th'.task][th'.gen].state = "none"
<1>1. PICK t \in Tasks, g \in Generations :
          t = th.task /\ g = th.gen /\ t = th'.task /\ g = th'.gen
  BY PlaceKept DEF SameClaim, HasClaim
<1>a. th \in ThreadStates /\ ChildrenFit
  BY DEF SupIInv, ThreadFits
<1>2. CASE th'.pc = "spawn"
  <2>1. StartTask
    BY <1>2, ThreadAt DEF Moves
  <2>2. ExecutorStartTask(t, g)
    <3>1. Poll => th'.pc = "poll"
      BY DEF Poll, Thread
    <3>2. QED
      BY <1>1, <1>2, <2>1, <3>1 DEF StartTask
  <2>3. attempt[t][g] = "leased"
    BY <2>2 DEF ExecutorStartTask
  <2>4. child[t][g].state = "none" /\ UNCHANGED child
    BY <2>1, <2>3 DEF JudgedRight, ChildrenStarted, StartTask
  <2>5. QED
    BY <1>1, <2>4
<1>3. CASE th.pc \in {"identify", "watch"} /\ th'.pc \in {"finish", "judge"}
  <2>1. CASE th.pc = "watch"
    BY <1>1, <1>a, <2>1, ThreadAt, GoneMakes DEF Watch
  <2>2. CASE th.pc = "identify"
    <3>1. ~Goto("watch")
      BY <1>3, <1>a, GotoMove DEF ThreadPcs
    <3>2. Identify
      BY <2>2, ThreadAt
    <3>3. Gone(t, g)
      BY <1>1, <3>1, <3>2 DEF Identify
    <3>4. QED
      BY <1>1, <1>a, <3>3, GoneMakes
  <2>3. QED
    BY <1>3, <2>1, <2>2
<1>4. CASE th.pc \in Childless /\ th'.pc # "spawn"
  <2>1. child[t][g].state = "none"
    BY <1>1, <1>4 DEF JudgedRight, ThreadIsAlone
  <2>2. CASE th.pc = "spawn"
    <3>1. ~Goto("identify")
      <4>1. Goto("identify") => th'.pc = "identify"
        BY <1>a, GotoMove DEF ThreadPcs
      <4>2. QED
        BY <4>1 DEF Childless
    <3>2. UNCHANGED child
      BY <2>2, <3>1, ThreadAt DEF Spawn
    <3>3. QED
      BY <1>1, <2>1, <3>2
  <2>3. CASE th.pc = "judge"
    BY <1>1, <2>1, <2>3, ThreadAt DEF Judge
  <2>4. CASE th.pc \notin {"spawn", "judge"}
    BY <1>1, <1>4, <2>1, <2>4, ThreadAt DEF Childless
  <2>5. QED
    BY <2>2, <2>3, <2>4
<1>5. QED
  BY <1>2, <1>3, <1>4 DEF Moves, Childless

LEMMA SpawnStartedStep ==
    ASSUME SupIInv, JudgedRight, SupNext PROVE SpawnStarted'
<1> SUFFICES ASSUME th'.pc = "spawn"
             PROVE  attempt'[th'.task][th'.gen] \notin {"absent", "leased"}
  BY DEF SpawnStarted
<1>1. CASE UNCHANGED th
  <2>1. th.pc = "spawn" /\ HasClaim
    BY <1>1 DEF SupIInv, ThreadFits, ThreadKnows, Holding
  <2>2. QED
    BY <1>1, <2>1, StartedStays DEF JudgedRight, SpawnStarted, HasClaim
<1>2. CASE ThreadStep /\ Moves
  <2>1. PICK t \in Tasks, g \in Generations :
            t = th.task /\ g = th.gen /\ t = th'.task /\ g = th'.gen
    BY <1>2, PlaceKept DEF SameClaim, HasClaim, Childless
  <2>2. StartTask
    BY <1>2, ThreadAt DEF Moves
  <2>3. Poll => th'.pc = "poll"
    BY DEF Poll, Thread
  <2>4. ExecutorStartTask(t, g)
    BY <2>1, <2>2, <2>3 DEF StartTask
  <2>5. attempt'[t][g] = "running"
    BY <2>4 DEF ExecutorStartTask, SupIInv, IInv, TypeOK
  <2>6. QED
    BY <2>1, <2>5
<1>3. CASE ClaimCopyExpires /\ Moves
  BY <1>3 DEF ClaimCopyExpires, Moves
<1>4. CASE \E w \in Workers : StartProcess(w)
  <2>1. th'.pc = "boot"
    BY <1>4 DEF StartProcess, Thread
  <2>2. QED
    BY <2>1
<1>5. QED
  BY <1>1, <1>2, <1>3, <1>4, StepMoves

LEMMA ThreadIsAloneStep ==
    ASSUME SupIInv, JudgedRight, SupNext PROVE ThreadIsAlone'
<1> SUFFICES ASSUME th'.pc \in Childless
             PROVE  child'[th'.task][th'.gen].state = "none"
  BY DEF ThreadIsAlone
<1>1. CASE UNCHANGED th
  <2>1. HasClaim /\ child[th.task][th.gen].state = "none"
    BY <1>1 DEF SupIInv, ThreadFits, ThreadKnows, Holding, Childless, JudgedRight,
       ThreadIsAlone
  <2>2. CASE Aging
    BY <1>1, <2>1, <2>2, AgedStates DEF Aging, HasClaim
  <2>3. ~Spawning
    BY <1>1 DEF Spawning
  <2>4. ASSUME NEW t \in Tasks, NEW g \in Generations, Passing(t, g)
        PROVE  child'[th'.task][th'.gen].state = "none"
    BY <1>1, <2>1, <2>4 DEF Passing, Only, HasClaim
  <2>5. QED
    BY <2>2, <2>3, <2>4, StepAges
<1>2. CASE ThreadStep /\ Moves
  BY <1>2, ThreadAloneStep
<1>3. CASE ClaimCopyExpires /\ Moves
  BY <1>3 DEF ClaimCopyExpires, Moves, Childless
<1>4. CASE \E w \in Workers : StartProcess(w)
  <2>1. th'.pc = "boot"
    BY <1>4 DEF StartProcess, Thread
  <2>2. QED
    BY <2>1 DEF Childless
<1>5. CASE th'.pc = "down"
  BY <1>5 DEF Childless
<1>6. QED
  BY <1>1, <1>2, <1>3, <1>4, <1>5, StepMoves

(* An attempt succeeds by a commit of its child only.                      *)
LEMMA SuccessIsCommit ==
    ASSUME SupIInv, SupNext, NEW t \in Tasks, NEW g \in Generations,
           attempt'[t][g] = "succeeded", attempt[t][g] # "succeeded"
    PROVE  child[t][g].state = "validating" /\ UNCHANGED th
<1>1. PICK u \in Tasks, h \in Generations : Committing(u, h)
  BY StepKeeps DEF NoSuccess
<1>2. u = t /\ h = g
  BY <1>1 DEF Committing, CommitValidatedTask, SupIInv, IInv, TypeOK
<1>3. QED
  BY <1>1, <1>2 DEF Committing, ChildStep

LEMMA CommitIsNotJudgedStep ==
    ASSUME SupIInv, JudgedRight, SupNext PROVE CommitIsNotJudged'
<1> DEFINE Judging == {"decide", "put_back", "fail_attempt", "fail_task"}
<1> SUFFICES ASSUME th'.pc \in Judging
             PROVE  attempt'[th'.task][th'.gen] # "succeeded"
  BY DEF CommitIsNotJudged
<1>1. CASE UNCHANGED th
  <2>1. /\ HasClaim
        /\ attempt[th.task][th.gen] # "succeeded"
        /\ child[th.task][th.gen].state = "none"
    BY <1>1 DEF SupIInv, ThreadFits, ThreadKnows, Holding, Childless, JudgedRight,
       ThreadIsAlone, CommitIsNotJudged
  <2>2. QED
    BY <1>1, <2>1, SuccessIsCommit DEF HasClaim
<1>2. CASE ThreadStep /\ Moves
  <2>1. PICK t \in Tasks, g \in Generations :
            t = th.task /\ g = th.gen /\ t = th'.task /\ g = th'.gen
    BY <1>2, PlaceKept DEF SameClaim, HasClaim, Childless
  <2>2. CASE th'.pc = "decide"
    <3>1. Judge
      BY <1>2, <2>2, ThreadAt DEF Moves
    <3>2. /\ \A s : th' = [th EXCEPT !.pc = "drop", !.then = s] => th'.pc = "drop"
      BY DEF SupIInv, ThreadFits, ThreadStates
    <3>3. ~(generation[t] = g /\ attempt[t][g] = "succeeded") /\ UNCHANGED vars
      BY <2>1, <2>2, <3>1, <3>2 DEF Judge
    <3>4. attempt[t][g] = "succeeded" => g = generation[t]
      BY DEF SupIInv, IInv, RowsAgree, RowAgrees, NewestCounts
    <3>5. QED
      BY <2>1, <3>3, <3>4 DEF vars
  <2>3. CASE th'.pc \in {"put_back", "fail_attempt", "fail_task"}
    <3>1. th.pc \in Judging
      BY <1>2, <2>3 DEF Moves
    <3>2. attempt[t][g] # "succeeded" /\ child[t][g].state = "none"
      BY <2>1, <3>1 DEF JudgedRight, CommitIsNotJudged, ThreadIsAlone, Childless
    <3>3. QED
      BY <2>1, <3>2, SuccessIsCommit
  <2>4. QED
    BY <2>2, <2>3
<1>3. CASE ClaimCopyExpires /\ Moves
  BY <1>3 DEF ClaimCopyExpires, Moves
<1>4. CASE \E w \in Workers : StartProcess(w)
  <2>1. th'.pc = "boot"
    BY <1>4 DEF StartProcess, Thread
  <2>2. QED
    BY <2>1
<1>5. QED
  BY <1>1, <1>2, <1>3, <1>4, StepMoves

LEMMA JudgedRightStep ==
    ASSUME SupIInv, JudgedRight, SupNext PROVE JudgedRight'
  BY ChildrenStartedStep, SpawnStartedStep, ThreadIsAloneStep, CommitIsNotJudgedStep
     DEF JudgedRight


-----------------------------------------------------------------------------
(***************************************************************************)
(* A dying thread lets go of everything.                                   *)
(***************************************************************************)
Mine(t) == leaseOwner[t] = worker /\ taskStatus[t] \in Active

HandedOver ==
    /\ th.pc = "hand_over" => \A t \in Tasks : Mine(t) => lease[t] \in Lapsed
    /\ Ending => \A t \in Tasks : ~Mine(t)

(* While the thread makes no claim the worker gets none.                   *)
LEMMA MineStays ==
    ASSUME SupIInv, SupNext, UNCHANGED worker, th.pc \notin {"claim", "down"},
           NEW t \in Tasks, Mine(t)'
    PROVE  Mine(t) /\ (lease[t] \in Lapsed => lease'[t] \in Lapsed)
<1>1. RowsKeep
  BY StepKeeps DEF Claiming, ClaimStep
<1>2. worker # NoWorker
  BY TaskQueueAssumption DEF SupIInv, ThreadFits, ThreadKnows
<1>3. QED
  BY <1>1, <1>2 DEF RowsKeep, ClaimKeeps, Mine

LEMMA HandOverStep ==
    ASSUME SupIInv, HandOver, UNCHANGED worker, NEW t \in Tasks, Mine(t)'
    PROVE  lease'[t] \in Lapsed
<1> USE TaskQueueAssumption
<1>a. TypeOK /\ worker # NoWorker
  BY DEF SupIInv, IInv, HandOver, ThreadFits, ThreadKnows
<1>1. CASE AbandonWorkerClaims(worker)
  BY <1>a, <1>1 DEF AbandonWorkerClaims, TypeOK, Mine, Lapsed, Active
<1>2. CASE UNCHANGED vars
  <2>1. Mine(t)
    BY <1>2 DEF Mine, vars
  <2>2. {u \in Tasks : leaseOwner[u] = worker /\ taskStatus[u] \in Active} # {}
    BY <2>1 DEF Mine
  <2>3. AbandonWorkerClaims(worker)
    BY <2>2 DEF HandOver
  <2>4. QED
    BY <1>1, <2>3
<1>3. QED
  BY <1>1, <1>2 DEF HandOver

LEMMA TakenBack ==
    ASSUME SupIInv, Recover(Runs), NEW t \in Tasks,
           taskStatus[t] \in Active, lease[t] \in Lapsed
    PROVE  taskStatus'[t] \notin Active
<1> USE TaskQueueAssumption
<1>1. t \in LostClaims(Runs)
  BY DEF LostClaims, Lapsed
<1>2. PICK Due : RecoverExpiredLeases(Runs, Due)
  BY <1>1 DEF Recover
<1>3. taskStatus'[t] \in {"ready", RecoveryStatus(t)}
  BY <1>1, <1>2 DEF RecoverExpiredLeases
<1>4. QED
  BY <1>3 DEF RecoveryStatus, Active

LEMMA HandedOverStep ==
    ASSUME SupIInv, HandedOver, SupNext PROVE HandedOver'
<1> USE DEF Settling
<1>1. CASE UNCHANGED <<th, worker>>
  <2>1. Ending' => Ending
    BY <1>1 DEF Ending
  <2>2. Ending \/ th.pc = "hand_over" => th.pc \notin {"claim", "down"}
    BY DEF Ending
  <2>3. QED
    BY <1>1, <2>1, <2>2, MineStays DEF HandedOver
<1>2. CASE ThreadStep /\ Moves /\ UNCHANGED worker
  <2>1. ASSUME th'.pc = "hand_over", NEW t \in Tasks, Mine(t)'
        PROVE  lease'[t] \in Lapsed
    <3>1. HandOver
      BY <1>2, <2>1, ThreadAt DEF Moves
    <3>2. QED
      BY <1>2, <2>1, <3>1, HandOverStep
  <2>2. ASSUME Ending', NEW t \in Tasks, Mine(t)'
        PROVE  FALSE
    <3>1. Ending \/ th.pc = "hand_over"
      BY <1>2, <2>2 DEF Moves
    <3>2. th.pc \notin {"claim", "down"}
      BY <3>1 DEF Ending
    <3>3. Mine(t)
      BY <1>2, <2>2, <3>2, MineStays
    <3>4. th.pc = "hand_over" /\ lease[t] \in Lapsed
      BY <3>1, <3>3 DEF HandedOver
    <3>5. Recover(Runs)
      BY <1>2, <3>4, ThreadAt DEF RecoverStep
    <3>6. QED
      BY <2>2, <3>3, <3>4, <3>5, TakenBack DEF Mine
  <2>3. QED
    BY <2>1, <2>2 DEF HandedOver
<1>3. CASE ClaimCopyExpires /\ Moves
  BY <1>3 DEF ClaimCopyExpires, Moves, HandedOver, Ending
<1>4. CASE \E w \in Workers : StartProcess(w)
  <2>1. th'.pc = "boot"
    BY <1>4 DEF StartProcess, Thread
  <2>2. QED
    BY <2>1 DEF HandedOver, Ending
<1>5. CASE th'.pc = "down"
  BY <1>5 DEF HandedOver, Ending
<1>6. QED
  BY <1>1, <1>2, <1>3, <1>4, <1>5, StepMoves

-----------------------------------------------------------------------------
(***************************************************************************)
(* A side effect runs once.                                                *)
(***************************************************************************)

(* Some side effect of the run happened, or some task of it may run its    *)
(* handler any moment.                                                     *)
Begun(r) ==
    \E t \in TasksOf(r) :
        \/ t \in SideEffect /\ effects[t] > 0
        \/ \E g \in Generations : child[t][g].state \in Late

(* A run that has begun is not taken for one that has not, and the thread  *)
(* walks no run that has begun.                                            *)
BegunRunsKnown ==
    \A r \in Runs \ resumed : Begun(r) => runStatus[r] \notin {"queued", "planning", "ready"}
WalkedRunNotBegun ==
    \A r \in Runs \ resumed :
        th.pc = "walk" /\ th.walk # <<>> /\ RunOf[th.task] = r
            => runStatus[r] # "running" /\ ~Begun(r)

(* The attempt that has invoked the handler is the last one.               *)
Invoked(t) ==
    /\ effects[t] = 1
    /\ taskStatus[t] \in Waiting => runStatus[RunOf[t]] \in Unclaimable
    /\ \A g \in Generations : g = generation[t] =>
          /\ child[t][g].state \notin {"started", "checked"}
          /\ attempt[t][g] # "leased"
          /\ ~(th.pc = "spawn" /\ th.task = t /\ th.gen = g)
EffectsOnce ==
    \A t \in SideEffect \ Idempotent :
        effects[t] > 0 /\ RunOf[t] \notin resumed => Invoked(t)
OnceOnly == BegunRunsKnown /\ WalkedRunNotBegun /\ EffectsOnce

(* A run begins only while it is "running", and by nothing the thread does. *)
LEMMA Beginning ==
    ASSUME SupIInv, SupNext, NEW r \in Runs, Begun(r)', ~Begun(r)
    PROVE  runStatus[r] = "running" /\ UNCHANGED <<vars, th>>
<1> USE TaskQueueAssumption
<1>1. PICK t \in TasksOf(r) :
          \/ t \in SideEffect /\ effects'[t] > 0
          \/ \E g \in Generations : child'[t][g].state \in Late
  BY DEF Begun, TasksOf
<1>2. t \in Tasks /\ RunOf[t] = r
  BY DEF TasksOf
<1>3. ASSUME t \in SideEffect, effects'[t] > 0 PROVE FALSE
  <2>1. effects[t] # effects'[t]
    BY <1>3 DEF Begun
  <2>2. PICK u \in Tasks, h \in Generations : Invoking(u, h)
    BY <2>1, StepAges
  <2>3. u = t
    BY <1>3, <2>1, <2>2 DEF Invoking, SupIInv
  <2>4. QED
    BY <2>2, <2>3 DEF Invoking, Begun, Late
<1>4. PICK g \in Generations : child'[t][g].state \in Late
  BY <1>1, <1>3
<1>5. child[t][g].state \notin Late
  BY DEF Begun
<1>6. ~Aging
  BY <1>2, <1>4, <1>5, AgedStates DEF Aging
<1>7. ~Spawning
  BY <1>2, <1>4, <1>5 DEF Spawning, Only, Late
<1>8. PICK u \in Tasks, h \in Generations : Passing(u, h)
  BY <1>6, <1>7, StepAges
<1>9. u = t
  BY <1>2, <1>4, <1>5, <1>8 DEF Passing, Only
<1>10. QED
  BY <1>2, <1>8, <1>9 DEF Passing

LEMMA WalkedOn ==
    /\ \A w \in Walks : w # <<>> /\ Tail(w) # <<>> => Head(w) \in {"planning", "ready"}
    /\ \A w \in Walks : w # <<>> => Head(w) \in {"planning", "ready", "running"}
    /\ \A w \in Walks : w # <<>> => Tail(w) # w
<1>1. Head(<<"running">>) = "running" /\ Tail(<<"running">>) = <<>>
  OBVIOUS
<1>2. /\ Head(<<"ready", "running">>) = "ready"
      /\ Tail(<<"ready", "running">>) = <<"running">>
  OBVIOUS
<1>3. /\ Head(<<"planning", "ready", "running">>) = "planning"
      /\ Tail(<<"planning", "ready", "running">>) = <<"ready", "running">>
  OBVIOUS
<1>4. Len(<<>>) = 0 /\ Len(<<"running">>) = 1 /\ Len(<<"ready", "running">>) = 2
  OBVIOUS
<1>5. Len(<<"planning", "ready", "running">>) = 3
  OBVIOUS

<1>6. ASSUME NEW w \in Walks, w # <<>>
      PROVE  /\ Tail(w) # <<>> => Head(w) \in {"planning", "ready"}
             /\ Head(w) \in {"planning", "ready", "running"}
             /\ Tail(w) # w
  <2>1. CASE w = <<"running">>
    BY <1>1, <1>4, <2>1
  <2>2. CASE w = <<"ready", "running">>
    BY <1>2, <1>4, <2>2
  <2>3. CASE w = <<"planning", "ready", "running">>
    BY <1>3, <1>4, <1>5, <2>3
  <2>4. QED
    BY <1>6, <2>1, <2>2, <2>3 DEF Walks
<1>7. QED
  BY <1>6

LEMMA AdvancingRun ==
    ASSUME SupIInv, Advancing
    PROVE  /\ th.pc = "walk" /\ th.walk # <<>> /\ HasClaim
           /\ RunOf[th.task] \in Runs
           /\ \A r \in Runs : r # RunOf[th.task] => runStatus'[r] = runStatus[r]
           /\ runStatus'[RunOf[th.task]] = Head(th.walk)
           /\ Head(th.walk) \in RunTransitions[runStatus[RunOf[th.task]]]
           /\ HoldsClaim(th.task, th.gen)
           /\ th'.walk = Tail(th.walk) /\ th'.task = th.task /\ th'.gen = th.gen
           /\ th'.pc = "walk"
           /\ UNCHANGED <<resumed, child, request, taskStatus, generation, attempt>>
<1> USE TaskQueueAssumption
<1>1. th.pc = "walk" /\ th.walk # <<>> /\ HasClaim /\ th \in ThreadStates
  BY DEF Advancing, WalkStep, SupIInv, ThreadFits, ThreadKnows, Holding
<1>2. th'.walk = Tail(th.walk) /\ th'.task = th.task /\ th'.gen = th.gen /\ th'.pc = "walk"
  BY <1>1 DEF Advancing, ThreadStates
<1>3. RunOf[th.task] \in Runs
  BY <1>1 DEF HasClaim
<1>4. UNCHANGED <<child, request>>
  BY DEF Advancing, WalkStep
<1>5. QED
  BY <1>1, <1>2, <1>3, <1>4 DEF Advancing, AdvanceRun, SupIInv, IInv, TypeOK

LEMMA BegunRunsKnownStep ==
    ASSUME SupIInv, OnceOnly, SupNext PROVE BegunRunsKnown'
<1> SUFFICES ASSUME NEW r \in Runs, r \notin resumed', Begun(r)'
             PROVE  runStatus'[r] \notin {"queued", "planning", "ready"}
  BY DEF BegunRunsKnown
<1>1. r \notin resumed
  BY StepKeeps DEF RulesKept
<1>2. CASE ~Begun(r)
  BY <1>2, Beginning DEF vars
<1>3. CASE Begun(r)
  <2>1. runStatus[r] \notin {"queued", "planning", "ready"}
    BY <1>1, <1>3 DEF OnceOnly, BegunRunsKnown
  <2>2. CASE RunsKeep
    BY <2>1, <2>2 DEF RunsKeep, Going
  <2>3. CASE Advancing
    <3>1. r # RunOf[th.task]
      BY <1>1, <1>3, <2>3, AdvancingRun DEF OnceOnly, WalkedRunNotBegun
    <3>2. QED
      BY <2>1, <2>3, <3>1, AdvancingRun
  <2>4. QED
    BY <2>2, <2>3, StepKeeps
<1>4. QED
  BY <1>2, <1>3

LEMMA WalkedRunNotBegunStep ==
    ASSUME SupIInv, OnceOnly, SupNext PROVE WalkedRunNotBegun'
<1> USE TaskQueueAssumption
<1> SUFFICES ASSUME NEW r \in Runs, r \notin resumed',
                    th'.pc = "walk", th'.walk # <<>>, RunOf[th'.task] = r
             PROVE  runStatus'[r] # "running" /\ ~Begun(r)'
  BY DEF WalkedRunNotBegun
<1>0. r \notin resumed
  BY StepKeeps DEF RulesKept
<1>1. CASE UNCHANGED th
  <2>3. runStatus[r] # "running" /\ ~Begun(r)
    BY <1>0, <1>1 DEF OnceOnly, WalkedRunNotBegun
  <2>4. ~Begun(r)'
    BY <2>3, Beginning
  <2>5. ~Advancing
    <3>1. SUFFICES ASSUME Advancing PROVE FALSE
      OBVIOUS
    <3>2. th.walk = Tail(th.walk) /\ th.walk \in Walks /\ th.walk # <<>>
      BY <1>1, <3>1, AdvancingRun DEF SupIInv, ThreadFits, ThreadStates
    <3>3. QED
      BY <3>2, WalkedOn
  <2>6. RunsKeep
    BY <2>5, StepKeeps
  <2>7. runStatus'[r] # "running"
    BY <2>3, <2>6 DEF RunsKeep, Going
  <2>8. QED
    BY <2>4, <2>7
<1>2. CASE ThreadStep /\ Moves
  <2>1. th.pc \in {"ensure", "walk"} /\ SameClaim /\ Held
    BY <1>2 DEF Moves, Held, Holding
  <2>3. r = RunOf[th.task]
    BY <2>1 DEF SameClaim
  <2>5. CASE th.pc = "ensure"
    <3>1. EnsureRunRunning
      BY <1>2, <2>5, ThreadAt
    <3>2. Die => th'.pc = "dying"
      BY GotoMove DEF Die, SupIInv, ThreadFits, ThreadPcs
    <3>3. /\ runStatus[r] \in DOMAIN Walk
          /\ th' = [th EXCEPT !.pc = "walk", !.walk = Walk[runStatus[r]]]
          /\ UNCHANGED <<vars, child>> /\ UNCHANGED effects
      BY <1>2, <2>3, <3>1, <3>2 DEF EnsureRunRunning, ThreadStep
    <3>4. th'.walk = Walk[runStatus[r]]
      BY <3>3 DEF SupIInv, ThreadFits, ThreadStates
    <3>5. runStatus[r] \in {"queued", "planning", "ready"}
      BY <3>3, <3>4 DEF Walk
    <3>6. ~Begun(r)
      BY <1>0, <3>5 DEF OnceOnly, BegunRunsKnown
    <3>7. ~Begun(r)'
      BY <3>3, <3>6 DEF Begun
    <3>8. QED
      BY <3>3, <3>5, <3>7 DEF vars
  <2>6. CASE th.pc = "walk"
    <3>1. WalkStep
      BY <1>2, <2>6, ThreadAt
    <3>2. Advancing
      <4>1. (Goto("start") => th'.pc = "start") /\ (Die => th'.pc = "dying")
        BY GotoMove DEF Die, SupIInv, ThreadFits, ThreadPcs
      <4>2. Poll => th'.pc = "poll"
        BY DEF Poll, Thread
      <4>3. QED
        BY <3>1, <4>1, <4>2 DEF WalkStep, Advancing
    <3>3. ~Begun(r) /\ th.walk \in Walks
      BY <1>0, <2>3, <2>6, <3>2, AdvancingRun
         DEF OnceOnly, WalkedRunNotBegun, SupIInv, ThreadFits, ThreadStates
    <3>4. Head(th.walk) \in {"planning", "ready"}
      BY <3>2, <3>3, AdvancingRun, WalkedOn
    <3>5. ~Begun(r)'
      <4>1. UNCHANGED <<child, effects>>
        BY <1>2, <3>2, AdvancingRun DEF ThreadStep
      <4>2. QED
        BY <3>3, <4>1 DEF Begun
    <3>6. QED
      BY <2>3, <3>2, <3>4, <3>5, AdvancingRun
  <2>7. QED
    BY <2>1, <2>5, <2>6
<1>3. CASE ClaimCopyExpires /\ Moves
  BY <1>3 DEF ClaimCopyExpires, Moves
<1>4. CASE \E w \in Workers : StartProcess(w)
  <2>1. th'.pc = "boot"
    BY <1>4 DEF StartProcess, Thread
  <2>2. QED
    BY <2>1
<1>5. QED
  BY <1>1, <1>2, <1>3, <1>4, StepMoves

(* The handler is being invoked: this is the first and the last attempt.   *)
LEMMA InvokedFirst ==
    ASSUME SupIInv, JudgedRight, OnceOnly, NEW t \in SideEffect \ Idempotent,
           RunOf[t] \notin resumed, NEW h \in Generations, Invoking(t, h)
    PROVE  Invoked(t)'
<1> USE TaskQueueAssumption
<1>1. t \in Tasks /\ effects[t] \in Nat
  BY DEF SupIInv
<1>2. /\ child[t][h].state = "checked"
      /\ child'[t][h].state = "handling"
      /\ h = generation[t]
      /\ taskStatus[t] \in Active
      /\ effects'[t] = effects[t] + 1
      /\ UNCHANGED <<vars, th>>
  BY DEF Invoking, HoldsClaim, FenceHolds
<1>3. effects[t] = 0
  <2>1. ~Invoked(t)
    BY <1>2 DEF Invoked
  <2>2. ~(effects[t] > 0)
    BY <2>1 DEF OnceOnly, EffectsOnce
  <2>3. QED
    BY <1>1, <2>2
<1>4. effects'[t] = 1
  BY <1>2, <1>3
<1>5. attempt'[t][h] # "leased"
  BY <1>1, <1>2 DEF JudgedRight, ChildrenStarted, vars
<1>6. ~(th'.pc = "spawn" /\ th'.task = t /\ th'.gen = h)
  BY <1>2 DEF JudgedRight, ThreadIsAlone, Childless
<1>7. taskStatus'[t] \notin Waiting /\ generation'[t] = h
  BY <1>2 DEF vars, Active, Waiting
<1>8. QED
  BY <1>2, <1>4, <1>5, <1>6, <1>7 DEF Invoked

(* The rows of such a task: its run stands still whenever it waits.        *)
LEMMA InvokedRows ==
    ASSUME SupIInv, OnceOnly, SupNext, NEW t \in SideEffect \ Idempotent,
           RunOf[t] \notin resumed', effects[t] > 0, Invoked(t)
    PROVE  /\ taskStatus'[t] \in Waiting => runStatus'[RunOf[t]] \in Unclaimable
           /\ generation'[t] = generation[t]
           /\ \A g \in Generations : attempt'[t][g] = "leased" => attempt[t][g] = "leased"
<1> USE TaskQueueAssumption
<1>1. t \in Tasks /\ RunOf[t] \in Runs /\ RunOf[t] \notin resumed
  BY StepKeeps DEF RulesKept
<1>2. Begun(RunOf[t])
  BY <1>1 DEF Begun, TasksOf
<1>3. Advancing => RunOf[th.task] # RunOf[t]
  BY <1>1, <1>2, AdvancingRun DEF OnceOnly, WalkedRunNotBegun
<1>4. runStatus[RunOf[t]] \in Unclaimable => runStatus'[RunOf[t]] \in Unclaimable
  <2>1. CASE RunsKeep
    <3>1. runStatus'[RunOf[t]] \in RunStatuses
      BY <1>1, SupNextIInv DEF SupIInv, IInv, TypeOK
    <3>2. QED
      BY <1>1, <2>1, <3>1 DEF RunsKeep, Going, Unclaimable, FinalRun, RunStatuses
  <2>2. CASE Advancing
    BY <1>1, <1>3, <2>2, AdvancingRun
  <2>3. QED
    BY <2>1, <2>2, StepKeeps
<1>5. taskStatus'[t] \in Waiting => runStatus'[RunOf[t]] \in Unclaimable
  BY <1>1, <1>4, StepKeeps DEF RulesKept, SideEffectWaits, Invoked
<1>6. CASE RowsKeep
  BY <1>1, <1>5, <1>6 DEF RowsKeep, AttemptsKeep
<1>7. ASSUME NEW u \in Tasks, Claiming(u)
      PROVE  /\ generation'[t] = generation[t]
             /\ \A g \in Generations : attempt'[t][g] = attempt[t][g]
  <2>1. t # u
    BY <1>7, ClaimedAttempts DEF Invoked, Waiting, SupIInv
  <2>2. QED
    BY <1>1, <1>7, <2>1, ClaimedAttempts DEF SupIInv
<1>8. QED
  BY <1>5, <1>6, <1>7, StepKeeps

LEMMA InvokedStays ==
    ASSUME SupIInv, OnceOnly, SupNext, NEW t \in SideEffect \ Idempotent,
           RunOf[t] \notin resumed', effects[t] > 0, effects'[t] = effects[t], Invoked(t)
    PROVE  Invoked(t)'
<1> USE TaskQueueAssumption
<1>1. t \in Tasks
  OBVIOUS
<1>2. SUFFICES ASSUME NEW g \in Generations, g = generation[t]
               PROVE  /\ child'[t][g].state \notin {"started", "checked"}
                      /\ ~(th'.pc = "spawn" /\ th'.task = t /\ th'.gen = g)
  <2>1. effects'[t] = 1 /\ generation'[t] = generation[t]
    BY InvokedRows DEF Invoked
  <2>2. \A g \in Generations : g = generation[t] => attempt'[t][g] # "leased"
    BY InvokedRows DEF Invoked
  <2>3. taskStatus'[t] \in Waiting => runStatus'[RunOf[t]] \in Unclaimable
    BY InvokedRows
  <2>4. QED
    BY <1>2, <2>1, <2>2, <2>3 DEF Invoked
<1>3. /\ child[t][g].state \notin {"started", "checked"}
      /\ attempt[t][g] # "leased"
      /\ ~(th.pc = "spawn" /\ th.task = t /\ th.gen = g)
  BY <1>2 DEF Invoked
<1>4. child'[t][g].state \notin {"started", "checked"}
  <2>1. CASE Aging
    BY <1>3, <2>1 DEF Aging, Aged, Over, Failures
  <2>2. CASE Spawning
    BY <1>3, <2>2 DEF Spawning, Only
  <2>3. ASSUME NEW u \in Tasks, NEW h \in Generations, Passing(u, h)
        PROVE  child'[t][g].state \notin {"started", "checked"}
    BY <1>3, <2>3 DEF Passing, Only
  <2>4. QED
    BY <2>1, <2>2, <2>3, StepAges
<1>5. ASSUME th'.pc = "spawn", th'.task = t, th'.gen = g PROVE FALSE
  <2>1. CASE UNCHANGED th
    BY <1>3, <1>5, <2>1
  <2>2. CASE ThreadStep /\ Moves
    <3>1. th.task = t /\ th.gen = g /\ StartTask
      BY <1>5, <2>2, PlaceKept, ThreadAt DEF Moves, SameClaim, Childless
    <3>2. Poll => th'.pc = "poll"
      BY DEF Poll, Thread
    <3>3. ExecutorStartTask(t, g)
      BY <1>5, <3>1, <3>2 DEF StartTask
    <3>4. QED
      BY <1>3, <3>3 DEF ExecutorStartTask
  <2>3. CASE ClaimCopyExpires /\ Moves
    BY <1>5, <2>3 DEF ClaimCopyExpires, Moves
  <2>4. CASE \E w \in Workers : StartProcess(w)
    <3>1. th'.pc = "boot"
      BY <2>4 DEF StartProcess, Thread
    <3>2. QED
      BY <1>5, <3>1
  <2>5. QED
    BY <1>5, <2>1, <2>2, <2>3, <2>4, StepMoves
<1>6. QED
  BY <1>4, <1>5

LEMMA OnceOnlyStep ==
    ASSUME SupIInv, JudgedRight, OnceOnly, SupNext PROVE OnceOnly'
<1>1. ASSUME NEW t \in SideEffect \ Idempotent, effects'[t] > 0, RunOf[t] \notin resumed'
      PROVE  Invoked(t)'
  <2>a. resumed \subseteq resumed'
    BY StepKeeps DEF RulesKept
  <2>1. RunOf[t] \notin resumed
    BY <1>1, <2>a
  <2>2. CASE effects'[t] = effects[t]
    BY <1>1, <2>1, <2>2, InvokedStays DEF OnceOnly, EffectsOnce
  <2>3. CASE effects'[t] # effects[t]
    <3>1. PICK u \in Tasks, h \in Generations : Invoking(u, h)
      BY <2>3, StepAges
    <3>2. u = t
      BY <2>3, <3>1 DEF Invoking, SupIInv
    <3>3. QED
      BY <2>1, <3>1, <3>2, InvokedFirst
  <2>4. QED
    BY <2>2, <2>3
<1>2. QED
  BY <1>1, BegunRunsKnownStep, WalkedRunNotBegunStep DEF OnceOnly, EffectsOnce

-----------------------------------------------------------------------------
(***************************************************************************)
(* A cancellation outlasts the handlers of its run.                        *)
(***************************************************************************)
LiveClaim(t, g) == g = generation[t] /\ lease[t] = "live" /\ taskStatus[t] \in Active

(* While the thread is about a claim, that is the newest of its task.      *)
NewestHeld == Held => th.gen = generation[th.task]

(* A cancellation that somebody else ended has left no live claim behind.  *)
Stopped(r) == runStatus[r] # "cancelling" => NoLiveClaim(r)

(* The second phase of a cancellation is under way.  The worker thread     *)
(* starts its own before it claims anything, and so waits for it.          *)
Pending(s) == request[s].pc \in {"read", "kill"}
BootFits ==
    /\ th.pc = "boot" => \A r \in th.left : Stopped(r)
    /\ Pending("boot") => th.pc = "boot"

CancelFits(s) ==
    Pending(s) =>
        /\ Stopped(request[s].run)
        /\ s = "api" => runStatus[request[s].run] \in Unclaimable

(* Every handler that could still commit is listed, until its process is   *)
(* stopped or the failure to stop it is noted.                             *)
Listed(s, t, g) ==
    \E i \in request[s].todo : i.task = t /\ i.gen = g /\ i.identity # "leased"
TodoFits(s) ==
    request[s].pc = "kill" =>
        /\ \A i \in request[s].todo :
              /\ RunOf[i.task] = request[s].run
              /\ i.gen = generation[i.task]
        /\ ~request[s].unresolved =>
              \A t \in Tasks, g \in Generations :
                  /\ RunOf[t] = request[s].run
                  /\ child[t][g].state \in Late
                  /\ LiveClaim(t, g)
                  => Listed(s, t, g)

Cancellations ==
    /\ NewestHeld
    /\ BootFits
    /\ \A s \in Slots : CancelFits(s) /\ TodoFits(s)

(* No claim is made in the run, so what is stopped stays so.               *)
LEMMA StoppedStays ==
    ASSUME SupIInv, SupNext, NEW r \in Runs, Stopped(r),
           \A t \in Tasks : RunOf[t] = r => ~Claiming(t)
    PROVE  /\ Stopped(r)'
           /\ \A t \in Tasks : RunOf[t] = r => ClaimKeeps(t) /\ generation'[t] = generation[t]
<1>1. ASSUME NEW t \in Tasks, RunOf[t] = r
      PROVE  ClaimKeeps(t) /\ generation'[t] = generation[t]
  <2>1. CASE RowsKeep
    BY <2>1 DEF RowsKeep
  <2>2. ASSUME NEW u \in Tasks, Claiming(u)
        PROVE  ClaimKeeps(t) /\ generation'[t] = generation[t]
    <3>1. t # u
      BY <1>1, <2>2
    <3>2. UNCHANGED <<generation[t], taskStatus[t], leaseOwner[t], lease[t]>>
      BY <2>2, <3>1, ClaimedAttempts DEF SupIInv
    <3>3. QED
      BY <3>2 DEF ClaimKeeps
  <2>3. QED
    BY <2>1, <2>2, StepKeeps
<1>2. Stopped(r)'
  <2>1. SUFFICES ASSUME runStatus'[r] # "cancelling" PROVE NoLiveClaim(r)'
    BY DEF Stopped
  <2>2. CASE runStatus[r] = "cancelling"
    BY <2>1, <2>2, StepKeeps DEF RulesKept, CancelEnds
  <2>3. CASE runStatus[r] # "cancelling"
    BY <1>1, <2>3 DEF Stopped, NoLiveClaim, ClaimKeeps
  <2>4. QED
    BY <2>2, <2>3
<1>3. QED
  BY <1>1, <1>2

(* While a cancellation is pending nothing starts in its run.              *)
LEMMA PendingRun ==
    ASSUME SupIInv, Cancellations, SupNext, NEW s \in Slots, Pending(s),
           NEW r \in Runs, request[s].run = r
    PROVE  /\ Stopped(r)'
           /\ s = "api" => runStatus'[r] \in Unclaimable
           /\ \A t \in Tasks : RunOf[t] = r => ClaimKeeps(t) /\ generation'[t] = generation[t]
           /\ \A t \in Tasks, g \in Generations :
                 RunOf[t] = r /\ child'[t][g].state \in Late => child[t][g].state \in Late
<1> USE TaskQueueAssumption
<1>1. Stopped(r) /\ (s = "api" => runStatus[r] \in Unclaimable)
  BY DEF Cancellations, CancelFits
<1>2. ASSUME NEW t \in Tasks, RunOf[t] = r PROVE ~Claiming(t)
  <2>1. SUFFICES ASSUME Claiming(t) PROVE FALSE
    OBVIOUS
  <2>2. th.pc = "claim" /\ runStatus[r] \notin Unclaimable
    BY <1>2, <2>1, ClaimedAttempts DEF SupIInv
  <2>3. QED
    BY <1>1, <2>2 DEF Cancellations, BootFits, Slots
<1>3. Advancing => RunOf[th.task] # r
  <2>1. SUFFICES ASSUME Advancing, RunOf[th.task] = r PROVE FALSE
    OBVIOUS
  <2>2. /\ th.walk \in Walks /\ th.walk # <<>>
        /\ Head(th.walk) \in RunTransitions[runStatus[r]]
        /\ HoldsClaim(th.task, th.gen) /\ th.task \in Tasks
    BY <2>1, AdvancingRun DEF SupIInv, ThreadFits, ThreadStates, HasClaim
  <2>3. runStatus[r] = "cancelling"
    BY <1>1, <2>1, <2>2 DEF Stopped, NoLiveClaim, HoldsClaim, FenceHolds
  <2>4. RunTransitions[runStatus[r]] = {"cancelled"}
    BY <2>3 DEF RunTransitions, RunStatuses
  <2>5. Head(th.walk) \in {"planning", "ready", "running"}
    BY <2>2, WalkedOn, Zenon
  <2>6. QED
    BY <2>2, <2>4, <2>5
<1>4. ASSUME NEW t \in Tasks, NEW g \in Generations, RunOf[t] = r,
             child'[t][g].state \in Late
      PROVE  child[t][g].state \in Late
  <2>1. CASE Aging
    BY <1>4, <2>1 DEF Aging, Aged, Late, Over, Failures
  <2>2. CASE Spawning
    BY <1>4, <2>2 DEF Spawning, Only, Late
  <2>3. ASSUME NEW u \in Tasks, NEW h \in Generations, Passing(u, h)
        PROVE  child[t][g].state \in Late
    <3>1. u # t \/ h # g
      BY <1>1, <1>4, <2>3 DEF Passing, Stopped, NoLiveClaim, HoldsClaim, FenceHolds
    <3>2. QED
      BY <1>4, <2>3, <3>1 DEF Passing, Only
  <2>4. QED
    BY <2>1, <2>2, <2>3, StepAges
<1>5. ASSUME s = "api" PROVE runStatus'[r] \in Unclaimable
  <2>1. ASSUME NEW q \in Runs, ApiRequest(q) PROVE FALSE
    BY <1>5, <2>1 DEF ApiRequest, Pending, Quiet
  <2>2. CASE StandstillKeeps
    BY <1>1, <1>5, <2>2 DEF StandstillKeeps
  <2>3. CASE Advancing
    BY <1>1, <1>3, <1>5, <2>3, AdvancingRun
  <2>4. QED
    BY <2>1, <2>2, <2>3, StepKeeps
<1>6. QED
  BY <1>1, <1>2, <1>4, <1>5, StoppedStays

LEMMA NewestHeldStep ==
    ASSUME SupIInv, Cancellations, SupNext PROVE NewestHeld'
<1> SUFFICES ASSUME Held' PROVE th'.gen = generation'[th'.task]
  BY DEF NewestHeld
<1>1. ASSUME Held, SameClaim PROVE th'.gen = generation'[th'.task]
  <2>1. th.gen = generation[th.task] /\ th.pc # "claim"
    BY <1>1 DEF Cancellations, NewestHeld, Held, Holding, Settling
  <2>2. RowsKeep
    BY <2>1, StepKeeps DEF Claiming, ClaimStep
  <2>3. QED
    BY <1>1, <2>1, <2>2 DEF RowsKeep, SameClaim
<1>2. CASE UNCHANGED th
  BY <1>1, <1>2 DEF Held, SameClaim
<1>3. CASE ThreadStep /\ Moves
  <2>1. CASE Held /\ SameClaim
    BY <1>1, <2>1
  <2>2. CASE th.pc = "claim" /\ th'.pc = "ensure"
    <3>1. ClaimStep
      BY <1>3, <2>2 DEF ThreadStep, RecoverCancellingRuns, RecoverStep, LeaveLoop,
         RecoverTerminalRuns, ClaimStep, IdleWait, IdleRecover, SettleStep, HandOver,
         EnsureRunRunning, WalkStep, StartTask, Spawn, Identify, Watch, Finish, Judge, Decide,
         PutBack, FailAttemptStep, FailTaskStep, Drop, Report, ReRaise
    <3>2. \A t, g : Claim(t, g) => th'.task = t /\ th'.gen = g
      BY DEF Claim, Thread
    <3>3. Goto("idle") => th'.pc = "idle"
      BY GotoMove DEF SupIInv, ThreadFits, ThreadPcs
    <3>4. CASE \E t \in Tasks : ClaimNext(worker, t) /\ Claim(t, generation[t] + 1)
      <4>1. PICK t \in Tasks : Claiming(t)
        BY <3>1, <3>4 DEF Claiming
      <4>2. QED
        BY <4>1, ClaimedAttempts DEF SupIInv
    <3>5. CASE \E t \in LiveClaims(worker) : Claim(t, generation[t]) /\ UNCHANGED vars
      BY <3>2, <3>5 DEF vars
    <3>6. QED
      BY <2>2, <3>1, <3>3, <3>4, <3>5 DEF ClaimStep
  <2>3. QED
    BY <1>3, <2>1, <2>2 DEF Moves
<1>4. CASE ClaimCopyExpires /\ Moves
  <2>1. th.pc # "claim"
    BY <1>4 DEF ClaimCopyExpires
  <2>2. QED
    BY <1>1, <1>4, <2>1 DEF Moves
<1>5. CASE \E w \in Workers : StartProcess(w)
  <2>1. th'.pc = "boot"
    BY <1>5 DEF StartProcess, Thread
  <2>2. QED
    BY <2>1 DEF Held, Holding, Settling
<1>6. CASE th'.pc = "down"
  BY <1>6 DEF Held, Holding, Settling
<1>7. QED
  BY <1>2, <1>3, <1>4, <1>5, <1>6, StepMoves

(* How a request comes to a pending cancellation.                          *)
LEMMA PendingMoves ==
    ASSUME SupIInv, SupNext, NEW s \in Slots, Pending(s)'
    PROVE  \/ UNCHANGED request[s]
           \/ /\ s = "api"
              /\ request'[s].pc = "read"
              /\ runStatus'[request'[s].run] = "cancelling"
           \/ /\ s = "boot"
              /\ request'[s].pc = "read"
              /\ request'[s].run \in th.left
              /\ th.pc = "boot" /\ th'.pc = "boot"
              /\ UNCHANGED vars
           \/ ReadActive(s)
           \/ TerminateRunProcesses(s)
<1>0. request \in [Slots -> Requests]
  BY DEF SupIInv, RequestsFit
<1>1. CASE ThreadStep
  <2>1. CASE RecoverCancellingRuns
    <3>1. CASE UNCHANGED request
      BY <3>1
    <3>2. CASE ~UNCHANGED request
      <4>1. PICK r \in th.left :
                /\ th' = [th EXCEPT !.left = @ \ {r}]
                /\ request' = [request EXCEPT !["boot"] = Cancelling(r)]
                /\ th.pc = "boot" /\ UNCHANGED vars
        BY <2>1, <3>2 DEF RecoverCancellingRuns
      <4>2. th'.pc = "boot"
        BY <4>1 DEF SupIInv, ThreadFits, ThreadStates
      <4>3. Cancelling(r).pc = "read" /\ Cancelling(r).run = r
        BY DEF Cancelling, Quiet
      <4>4. QED
        BY <1>0, <4>1, <4>2, <4>3 DEF Slots
    <3>3. QED
      BY <3>1, <3>2
  <2>2. CASE ~RecoverCancellingRuns
    BY <1>1, <2>2 DEF ThreadStep, RecoverStep, LeaveLoop, RecoverTerminalRuns, ClaimStep,
       IdleWait, IdleRecover, SettleStep, HandOver, EnsureRunRunning, WalkStep, StartTask,
       Spawn, Identify, Watch, Finish, Judge, Decide, PutBack, FailAttemptStep,
       FailTaskStep, Drop, Report, ReRaise
  <2>3. QED
    BY <2>1, <2>2
<1>2. CASE Exit \/ Crash
  <2>1. request'[s] = Quiet
    BY <1>2 DEF Exit, Crash, ProcessEnds
  <2>2. request'[s].pc = "idle"
    BY <2>1 DEF Quiet
  <2>3. QED
    BY <2>2 DEF Pending
<1>3. CASE \E r \in Runs : ApiRequest(r)
  <2>1. PICK r \in Runs : ApiRequest(r)
    BY <1>3
  <2>2. UNCHANGED request \/ \E pc \in {"read", "enqueue", "settle"} :
            Received(r, pc) /\ (pc = "read" => CancelRequest(r))
    BY <2>1 DEF ApiRequest, CancelRequest, ConfirmRequest, ResumeRequest, RecoverRequest
  <2>3. CancelRequest(r) => runStatus'[r] = "cancelling"
    BY <2>1 DEF CancelRequest, ApplyCancelCommand, vars, SupIInv, IInv, TypeOK
  <2>4. CASE UNCHANGED request
    BY <2>4
  <2>5. CASE \E pc \in {"read", "enqueue", "settle"} :
            Received(r, pc) /\ (pc = "read" => CancelRequest(r))
    <3>1. PICK pc \in {"read", "enqueue", "settle"} :
              Received(r, pc) /\ (pc = "read" => CancelRequest(r))
      BY <2>5
    <3>2. CASE s = "api"
      <4>1. request'[s].pc = pc /\ request'[s].run = r
        BY <1>0, <3>1, <3>2 DEF Received, Requests, Slots
      <4>2. QED
        BY <2>3, <3>1, <3>2, <4>1 DEF Pending
    <3>3. CASE s # "api"
      BY <1>0, <3>1, <3>3 DEF Received
    <3>4. QED
      BY <3>2, <3>3
  <2>6. QED
    BY <2>2, <2>4, <2>5
<1>4. CASE \E u \in Slots : RequestStep(u)
  <2>1. PICK u \in Slots : RequestStep(u)
    BY <1>4
  <2>2. CASE ReadActive(u) \/ TerminateRunProcesses(u)
    <3>1. u # s => UNCHANGED request[s]
      BY <1>0, <2>2 DEF ReadActive, TerminateRunProcesses, Kill
    <3>2. QED
      BY <2>2, <3>1
  <2>3. CASE ServeRun(u) \/ ConcludeCancel(u)
    <3>1. Answered(u) \/ \E pc \in {"resolve", "aggregate"} : Serve(u, pc)
      BY <2>3 DEF ServeRun, ConcludeCancel
    <3>2. u # s => UNCHANGED request[s]
      BY <1>0, <3>1 DEF Answered, Serve
    <3>3. u = s => request'[s].pc \in {"idle", "resolve", "aggregate"}
      BY <1>0, <3>1 DEF Answered, Serve, Quiet, Requests
    <3>4. QED
      BY <3>2, <3>3 DEF Pending
  <2>4. QED
    BY <2>1, <2>2, <2>3 DEF RequestStep
<1>5. QED
  BY <1>1, <1>2, <1>3, <1>4 DEF SupNext, StartProcess, Stop, ClaimCopyExpires, ChildStep,
     Expire, RetryFallsDue

LEMMA BootFitsStep ==
    ASSUME SupIInv, Cancellations, SupNext PROVE BootFits'
<1>1. ASSUME th'.pc = "boot", NEW r \in Runs, r \in th'.left PROVE Stopped(r)'
  <2>1. CASE \E w \in Workers : StartProcess(w)
    <3>1. th'.left = {x \in Runs : runStatus[x] = "cancelling"} /\ UNCHANGED vars
      BY <2>1 DEF StartProcess, Thread
    <3>2. QED
      BY <1>1, <3>1 DEF Stopped, vars
  <2>2. CASE th.pc = "boot" /\ r \in th.left
    <3>1. Stopped(r)
      BY <2>2 DEF Cancellations, BootFits
    <3>2. \A t \in Tasks : ~Claiming(t)
      BY <2>2 DEF Claiming, ClaimStep
    <3>3. QED
      BY <3>1, <3>2, StoppedStays
  <2>3. CASE ThreadStep /\ Moves
    <3>1. th.pc = "boot" /\ RecoverCancellingRuns
      BY <1>1, <2>3, ThreadAt DEF Moves
    <3>2. th \in ThreadStates
      BY DEF SupIInv, ThreadFits
    <3>3. Goto("recover") => th'.pc = "recover"
      BY <3>2 DEF Goto, ThreadStates
    <3>4. th'.left \subseteq th.left
      BY <1>1, <3>1, <3>2, <3>3 DEF RecoverCancellingRuns, ThreadStates
    <3>5. QED
      BY <1>1, <2>2, <3>1, <3>4
  <2>4. CASE UNCHANGED th
    BY <1>1, <2>2, <2>4
  <2>5. CASE ClaimCopyExpires /\ Moves
    BY <1>1, <2>5 DEF ClaimCopyExpires, Moves
  <2>6. QED
    BY <1>1, <2>1, <2>3, <2>4, <2>5, StepMoves
<1>2. ASSUME Pending("boot")' PROVE th'.pc = "boot"
  <2>1. CASE Pending("boot")
    <3>1. th.pc = "boot" /\ request["boot"] # Quiet
      BY <2>1 DEF Cancellations, BootFits, Pending, Quiet
    <3>2. CASE ThreadStep
      <4>1. RecoverCancellingRuns
        BY <3>1, <3>2, ThreadAt
      <4>2. QED
        BY <3>1, <4>1 DEF RecoverCancellingRuns
    <3>3. CASE ProcessEnds
      BY <1>2, <3>3 DEF ProcessEnds, Pending, Quiet, Slots
    <3>4. CASE \E w \in Workers : StartProcess(w)
      BY <3>4 DEF StartProcess, Thread
    <3>5. CASE ClaimCopyExpires
      BY <3>1, <3>5 DEF ClaimCopyExpires
    <3>6. QED
      BY <3>1, <3>2, <3>3, <3>4, <3>5, StepMoves
  <2>2. CASE ~Pending("boot")
    <3>1. request["boot"].pc # request'["boot"].pc
      BY <1>2, <2>2 DEF Pending
    <3>2. ~ReadActive("boot") /\ ~TerminateRunProcesses("boot")
      BY <2>2 DEF ReadActive, TerminateRunProcesses, Pending
    <3>3. QED
      BY <1>2, <3>1, <3>2, PendingMoves DEF Slots
  <2>3. QED
    BY <2>1, <2>2
<1>3. \A r \in th'.left : r \in Runs
  BY SupNextIInv DEF SupIInv, ThreadFits, ThreadStates
<1>4. QED
  BY <1>1, <1>2, <1>3 DEF BootFits

LEMMA CancelFitsStep ==
    ASSUME SupIInv, Cancellations, SupNext, NEW s \in Slots PROVE CancelFits(s)'
<1> SUFFICES ASSUME Pending(s)'
             PROVE  /\ Stopped(request[s].run)'
                    /\ s = "api" => runStatus'[request'[s].run] \in Unclaimable
  BY DEF CancelFits
<1>1. CASE /\ s = "api"
           /\ request'[s].pc = "read"
           /\ runStatus'[request'[s].run] = "cancelling"
  BY <1>1 DEF Stopped, Unclaimable
<1>2. CASE /\ s = "boot"
           /\ request'[s].run \in th.left
           /\ th.pc = "boot"
           /\ UNCHANGED vars
  BY <1>2 DEF Cancellations, BootFits, Stopped, NoLiveClaim, vars
<1>3. CASE Pending(s) /\ request'[s].run = request[s].run
  <2>1. PICK r \in Runs : request[s].run = r
    BY <1>3 DEF SupIInv, RequestsFit, RequestsKnow, Pending
  <2>2. Stopped(r)' /\ (s = "api" => runStatus'[r] \in Unclaimable)
    BY <1>3, <2>1, PendingRun
  <2>3. QED
    BY <1>3, <2>1, <2>2 DEF Stopped, NoLiveClaim
<1>4. CASE ReadActive(s) \/ TerminateRunProcesses(s)
  <2>1. Pending(s)
    BY <1>4 DEF ReadActive, TerminateRunProcesses, Pending
  <2>2. request'[s].run = request[s].run
    BY <1>4 DEF ReadActive, TerminateRunProcesses, Kill, SupIInv, RequestsFit, Requests
  <2>3. QED
    BY <1>3, <2>1, <2>2
<1>5. CASE UNCHANGED request[s]
  BY <1>3, <1>5 DEF Pending
<1>6. QED
  BY <1>1, <1>2, <1>4, <1>5, PendingMoves

(* Nothing happens to the request itself.                                  *)
LEMMA TodoStays ==
    ASSUME SupIInv, Cancellations, SupNext, NEW s \in Slots, request[s].pc = "kill",
           UNCHANGED request[s]
    PROVE  TodoFits(s)'
<1> USE TaskQueueAssumption
<1>1. Pending(s) /\ TodoFits(s)
  BY DEF Pending, Cancellations
<1>2. PICK r \in Runs : request[s].run = r
  BY DEF SupIInv, RequestsFit, RequestsKnow
<1>3. /\ \A t \in Tasks : RunOf[t] = r => ClaimKeeps(t) /\ generation'[t] = generation[t]
      /\ \A t \in Tasks, g \in Generations :
            RunOf[t] = r /\ child'[t][g].state \in Late => child[t][g].state \in Late
  BY <1>1, <1>2, PendingRun
<1>4. ASSUME NEW i \in request[s].todo PROVE RunOf[i.task] = r /\ i.gen = generation'[i.task]
  <2>1. i.task \in Tasks
    BY DEF SupIInv, RequestsFit, Requests, Target
  <2>2. RunOf[i.task] = r /\ i.gen = generation[i.task]
    BY <1>1, <1>2 DEF TodoFits
  <2>3. QED
    BY <1>3, <2>1, <2>2
<1>5. ASSUME ~request[s].unresolved, NEW t \in Tasks, NEW g \in Generations,
             RunOf[t] = r, child'[t][g].state \in Late, LiveClaim(t, g)'
      PROVE  Listed(s, t, g)'
  <2>1. LiveClaim(t, g)
    BY <1>3, <1>5 DEF LiveClaim, ClaimKeeps
  <2>2. child[t][g].state \in Late
    BY <1>3, <1>5
  <2>3. Listed(s, t, g)
    BY <1>1, <1>2, <1>5, <2>1, <2>2 DEF TodoFits
  <2>4. QED
    BY <2>3 DEF Listed
<1>6. QED
  BY <1>2, <1>4, <1>5 DEF TodoFits

(* The list is made: a task without a running attempt has no child.        *)
LEMMA TodoMade ==
    ASSUME SupIInv, JudgedRight, NEW s \in Slots, ReadActive(s)
    PROVE  TodoFits(s)'
<1> USE TaskQueueAssumption
<1> DEFINE Item(t) == [task |-> t, gen |-> generation[t], identity |-> Identity(t)]
           Found == {u \in TasksOf(request[s].run) : taskStatus[u] \in Active}
<1>1. /\ request'[s].run = request[s].run
      /\ request'[s].todo = {Item(t) : t \in Found}
      /\ UNCHANGED <<vars, child>>
  BY DEF ReadActive, SupIInv, RequestsFit, Requests
<1>2. \A i \in request'[s].todo : RunOf[i.task] = request[s].run /\ i.gen = generation[i.task]
  BY <1>1 DEF TasksOf
<1>3. ASSUME NEW t \in Tasks, NEW g \in Generations, RunOf[t] = request[s].run,
             child[t][g].state \in Late, LiveClaim(t, g)
      PROVE  Item(t) \in request'[s].todo /\ Item(t).gen = g /\ Item(t).identity # "leased"
  <2>1. t \in Found /\ g = generation[t]
    BY <1>3 DEF TasksOf, LiveClaim
  <2>2. attempt[t][g] # "leased"
    BY <1>3 DEF JudgedRight, ChildrenStarted, Late
  <2>3. CurrentAttempt(t) # "leased"
    BY <2>1, <2>2 DEF CurrentAttempt
  <2>4. Identity(t) # "leased"
    BY <2>3 DEF Identity
  <2>5. QED
    BY <1>1, <2>1, <2>4
<1>4. ASSUME NEW t \in Tasks, NEW g \in Generations, RunOf[t] = request[s].run,
             child'[t][g].state \in Late, LiveClaim(t, g)'
      PROVE  Listed(s, t, g)'
  <2>1. LiveClaim(t, g) /\ child[t][g].state \in Late
    BY <1>1, <1>4 DEF LiveClaim, vars
  <2>2. Item(t) \in request'[s].todo /\ Item(t).gen = g /\ Item(t).identity # "leased"
    BY <1>3, <1>4, <2>1
  <2>3. Item(t).task = t
    OBVIOUS
  <2>4. QED
    BY <2>2, <2>3 DEF Listed
<1>5. UNCHANGED generation
  BY <1>1 DEF vars
<1> HIDE DEF Item, Found
<1>6. QED
  BY <1>1, <1>2, <1>4, <1>5 DEF TodoFits

(* One process after the other is stopped: a pass of the loop takes a      *)
(* target off the list only when its child is stopped, or notes that it is *)
(* not.                                                                    *)
LEMMA TargetStopped ==
    ASSUME SupIInv, NewestHeld, NEW s \in Slots, TodoFits(s), request[s].pc = "kill",
           NEW i \in request[s].todo, Kill(s, i)
    PROVE  /\ request'[s].run = request[s].run
           /\ request'[s].todo = request[s].todo \ {i}
           /\ request[s].unresolved => request'[s].unresolved
           /\ \/ request'[s].unresolved
              \/ i.identity = "leased"
              \/ child'[i.task][i.gen].state \notin Late
<1>1. /\ i.task \in Tasks /\ i.gen \in Generations
      /\ i.identity \in {"leased", "process", "unsafe"}
      /\ i.gen = generation[i.task]
  BY DEF SupIInv, RequestsFit, Requests, Target, Identities, TodoFits
<1>2. request'[s].run = request[s].run /\ request'[s].todo = request[s].todo \ {i}
  BY DEF Kill, SupIInv, RequestsFit, Requests
<1>3. request[s].unresolved => request'[s].unresolved
  BY DEF Kill, SupIInv, RequestsFit, Requests
<1>4. child \in [Tasks -> [Generations -> Children]]
  BY DEF SupIInv, ChildrenFit
<1>5. CASE /\ Supervised(i.task, th.gen)
           /\ child[i.task][th.gen].state \in Alive
           /\ Continue(i.task, th.gen, "dead")
  <2>1. th.gen = i.gen /\ th.gen \in Generations
    BY <1>1, <1>5 DEF Supervised, NewestHeld, Held, Holding, SupIInv, ThreadFits,
       ThreadKnows, HasClaim
  <2>2. child'[i.task][i.gen].state = "dead"
    BY <1>1, <1>4, <1>5, <2>1 DEF Continue, Children
  <2>3. QED
    BY <1>2, <1>3, <2>2 DEF Late
<1>6. CASE i.identity = "leased"
  BY <1>2, <1>3, <1>6
<1>7. CASE /\ i.identity = "process"
           /\ IF child[i.task][i.gen].state \in Alive THEN Gone(i.task, i.gen)
              ELSE UNCHANGED child
  <2>1. CASE child[i.task][i.gen].state \notin Alive
    BY <1>2, <1>3, <1>7, <2>1 DEF Late, Alive
  <2>2. CASE child[i.task][i.gen].state \in Alive
    <3>1. child'[i.task][i.gen].state = "none"
      BY <1>1, <1>4, <1>7, <2>2 DEF Gone, Children
    <3>2. QED
      BY <1>2, <1>3, <3>1 DEF Late
  <2>3. QED
    BY <2>1, <2>2
<1>8. CASE request'[s].unresolved
  BY <1>2, <1>3, <1>8
<1>9. QED
  <2>1. request' = [request EXCEPT ![s].todo = @ \ {i}, ![s].unresolved = TRUE]
            => request'[s].unresolved
    BY DEF SupIInv, RequestsFit, Requests
  <2>2. QED
    BY <1>5, <1>6, <1>7, <1>8, <2>1 DEF Kill


LEMMA TodoWorkedOff ==
    ASSUME SupIInv, Cancellations, SupNext, NEW s \in Slots, TerminateRunProcesses(s)
    PROVE  TodoFits(s)'
<1>1. NewestHeld /\ TodoFits(s) /\ request[s].pc = "kill" /\ UNCHANGED vars
  BY DEF Cancellations, TerminateRunProcesses
<1>2. PICK i \in request[s].todo : Kill(s, i)
  BY DEF TerminateRunProcesses
<1>3. /\ request'[s].run = request[s].run
      /\ request'[s].todo = request[s].todo \ {i}
      /\ request[s].unresolved => request'[s].unresolved
      /\ \/ request'[s].unresolved
         \/ i.identity = "leased"
         \/ child'[i.task][i.gen].state \notin Late
  BY <1>1, <1>2, TargetStopped
<1>4. UNCHANGED generation
  BY <1>1 DEF vars
<1>5. \A j \in request'[s].todo : RunOf[j.task] = request[s].run /\ j.gen = generation'[j.task]
  BY <1>1, <1>3, <1>4 DEF TodoFits
<1>6. Pending(s)
  BY <1>1 DEF Pending
<1>7. PICK r \in Runs : request[s].run = r
  BY <1>1 DEF SupIInv, RequestsFit, RequestsKnow
<1>8. ASSUME ~request'[s].unresolved, NEW t \in Tasks, NEW g \in Generations,
             RunOf[t] = r, child'[t][g].state \in Late, LiveClaim(t, g)'
      PROVE  Listed(s, t, g)'
  <2>1. LiveClaim(t, g)
    BY <1>1, <1>8 DEF LiveClaim, vars
  <2>2. child[t][g].state \in Late
    BY <1>6, <1>7, <1>8, PendingRun
  <2>3. PICK j \in request[s].todo : j.task = t /\ j.gen = g /\ j.identity # "leased"
    BY <1>1, <1>3, <1>7, <1>8, <2>1, <2>2 DEF TodoFits, Listed
  <2>4. j # i
    BY <1>3, <1>8, <2>3
  <2>5. QED
    BY <1>3, <2>3, <2>4 DEF Listed
<1>9. QED
  BY <1>3, <1>5, <1>7, <1>8 DEF TodoFits

LEMMA CancellationsStep ==
    ASSUME SupIInv, JudgedRight, Cancellations, SupNext PROVE Cancellations'
<1>1. ASSUME NEW s \in Slots PROVE TodoFits(s)'
  <2>1. CASE request'[s].pc # "kill"
    BY <2>1 DEF TodoFits
  <2>2. CASE request'[s].pc = "kill"
    <3>1. Pending(s)'
      BY <2>2 DEF Pending
    <3>2. UNCHANGED request[s] \/ ReadActive(s) \/ TerminateRunProcesses(s)
      BY <2>2, <3>1, PendingMoves
    <3>3. QED
      BY <2>2, <3>2, TodoStays, TodoMade, TodoWorkedOff
  <2>3. QED
    BY <2>1, <2>2
<1>2. QED
  BY <1>1, NewestHeldStep, BootFitsStep, CancelFitsStep DEF Cancellations

(* Who ends a cancellation as "cancelled" has taken everything off the     *)
(* list.                                                                   *)
LEMMA CancelledAfterHandlers ==
    ASSUME SupIInv, Cancellations, SupNext, NEW r \in Runs,
           runStatus[r] = "cancelling", runStatus'[r] = "cancelled",
           NEW t \in TasksOf(r), NEW g \in Generations, child[t][g].state \in Late
    PROVE  ~HoldsClaim(t, g)
<1>1. PICK s \in Slots : ConcludeCancel(s)
  BY StepKeeps DEF CancellingKeeps
<1>2. /\ request[s].pc = "kill" /\ request[s].todo = {}
      /\ r = request[s].run /\ ~request[s].unresolved
  BY <1>1 DEF ConcludeCancel, MarkCancelIndeterminate, FinalizeCancelCommand, vars,
     SupIInv, IInv, TypeOK
<1>3. TodoFits(s) /\ ~Listed(s, t, g)
  BY <1>2 DEF Cancellations, Listed
<1>4. t \in Tasks /\ RunOf[t] = r
  BY DEF TasksOf
<1>5. ~LiveClaim(t, g)
  BY <1>2, <1>3, <1>4 DEF TodoFits
<1>6. QED
  BY <1>5 DEF LiveClaim, HoldsClaim, FenceHolds

-----------------------------------------------------------------------------
(***************************************************************************)
(* The invariant, and what follows from it.                                *)
(***************************************************************************)
SafetyIInv == SupIInv /\ JudgedRight /\ HandedOver /\ OnceOnly /\ Cancellations

LEMMA SafetyStep == SafetyIInv /\ [SupNext]_supVars => SafetyIInv'
<1> SUFFICES ASSUME SafetyIInv, [SupNext]_supVars PROVE SafetyIInv'
  OBVIOUS
<1>1. CASE SupNext
  BY <1>1, SupNextIInv, JudgedRightStep, HandedOverStep, OnceOnlyStep, CancellationsStep
     DEF SafetyIInv
<1>2. CASE UNCHANGED supVars
  <2>1. SupIInv'
    BY <1>2, SupNextIInv DEF SafetyIInv
  <2>2. UNCHANGED <<vars, worker, th, child, request, effects>>
    BY <1>2 DEF supVars
  <2>3. /\ UNCHANGED <<runStatus, resumed, taskStatus, generation, attempt>>
        /\ UNCHANGED <<leaseOwner, lease>>
    BY <2>2 DEF vars
  <2>4. JudgedRight'
    BY <2>2, <2>3 DEF SafetyIInv, JudgedRight, ChildrenStarted, SpawnStarted,
       ThreadIsAlone, CommitIsNotJudged
  <2>5. HandedOver'
    BY <2>2, <2>3 DEF SafetyIInv, HandedOver, Ending, Mine
  <2>6. OnceOnly'
    <3>1. \A r \in Runs : Begun(r)' = Begun(r)
      BY <2>2 DEF Begun
    <3>2. BegunRunsKnown' /\ WalkedRunNotBegun'
      BY <2>2, <2>3, <3>1 DEF SafetyIInv, OnceOnly, BegunRunsKnown, WalkedRunNotBegun
    <3>3. \A t \in SideEffect : Invoked(t)' = Invoked(t)
      BY <2>2, <2>3 DEF Invoked
    <3>4. EffectsOnce'
      BY <2>2, <2>3, <3>3 DEF SafetyIInv, OnceOnly, EffectsOnce
    <3>5. QED
      BY <3>2, <3>4 DEF OnceOnly
  <2>7. Cancellations'
    <3>1. \A r \in Runs \cup {NoRun} : Stopped(r)' = Stopped(r)
      BY <2>3 DEF Stopped, NoLiveClaim
    <3>2. NewestHeld' /\ BootFits'
      BY <2>2, <2>3, <3>1 DEF SafetyIInv, Cancellations, NewestHeld, BootFits, Held, Pending,
         SupIInv, ThreadFits, ThreadStates
    <3>3. ASSUME NEW s \in Slots PROVE CancelFits(s)' /\ TodoFits(s)'
      <4>1. CancelFits(s) /\ TodoFits(s) /\ request[s].run \in Runs \cup {NoRun}
        BY DEF SafetyIInv, Cancellations, SupIInv, RequestsFit, Requests
      <4>2. CancelFits(s)'
        BY <2>2, <2>3, <4>1 DEF CancelFits, Pending, Stopped, NoLiveClaim
      <4>3. TodoFits(s)'
        BY <2>2, <2>3, <4>1 DEF TodoFits, LiveClaim, Listed
      <4>4. QED
        BY <4>2, <4>3
    <3>4. QED
      BY <3>2, <3>3 DEF Cancellations
  <2>8. QED
    BY <2>1, <2>4, <2>5, <2>6, <2>7 DEF SafetyIInv
<1>3. QED
  BY <1>1, <1>2

LEMMA SafetyInit == SupInit => SafetyIInv
<1> SUFFICES ASSUME SupInit PROVE SafetyIInv
  OBVIOUS
<1> USE TaskQueueAssumption
<1>1. SupIInv
  BY SupInitIInv
<1>2. /\ th.pc = "down"
      /\ \A t \in Tasks, g \in Generations : child[t][g].state = "none"
      /\ \A t \in SideEffect : effects[t] = 0
  BY DEF SupInit, Thread
<1>3. JudgedRight
  BY <1>2 DEF JudgedRight, ChildrenStarted, SpawnStarted, ThreadIsAlone,
     CommitIsNotJudged, Childless
<1>4. HandedOver
  BY <1>2 DEF HandedOver, Ending, Settling
<1>5. OnceOnly
  <2>1. ASSUME NEW r \in Runs PROVE ~Begun(r)
    BY <1>2 DEF Begun, Late, TasksOf
  <2>2. QED
    BY <1>2, <2>1 DEF OnceOnly, BegunRunsKnown, WalkedRunNotBegun, EffectsOnce
<1>6. Cancellations
  <2>1. \A s \in Slots : request[s].pc = "idle"
    BY DEF SupInit, Quiet
  <2>2. QED
    BY <1>2, <2>1 DEF Cancellations, NewestHeld, BootFits, CancelFits, TodoFits, Held,
       Holding, Settling, Pending, Slots
<1>7. QED
  BY <1>1, <1>3, <1>4, <1>5, <1>6 DEF SafetyIInv

LEMMA SafetyInductive == SupSpec => []SafetyIInv
BY SafetyInit, SafetyStep, PTL DEF SupSpec

(* The parent never retries or fails an attempt that has committed, however *)
(* it lost the child of that attempt (the exception handler of run_once,   *)
(* which reads the rows before it writes any).                             *)
THEOREM CommitsStand == SupSpec => []CommitIsNotJudged
<1>1. SafetyIInv => CommitIsNotJudged
  BY DEF SafetyIInv, JudgedRight
<1>2. QED
  BY <1>1, SafetyInductive, PTL

(* A worker thread that has ended holds no active task, whatever ended it  *)
(* and wherever it was in run_once (the finally block of worker_loop).     *)
THEOREM DeadWorkersLetGo == SupSpec => []DeadWorkerHoldsNothing
<1>1. SafetyIInv => DeadWorkerHoldsNothing
  BY DEF SafetyIInv, HandedOver, Ending, Mine, DeadWorkerHoldsNothing
<1>2. QED
  BY <1>1, SafetyInductive, PTL

(* The handler of a side effect that is not idempotent is invoked at most  *)
(* once in a run nobody resumed, whoever dies between the invocation and   *)
(* the commit and whatever recovery, a retry or a restart does then.       *)
THEOREM EffectsHappenOnce == SupSpec => []SideEffectRunsOnce
<1>1. SafetyIInv => SideEffectRunsOnce
  <2>1. SUFFICES ASSUME SafetyIInv, NEW t \in SideEffect \ Idempotent, effects[t] > 1,
                        RunOf[t] \notin resumed
                 PROVE  FALSE
    BY DEF SideEffectRunsOnce
  <2>2. effects[t] \in Nat
    BY <2>1 DEF SafetyIInv, SupIInv
  <2>3. effects[t] > 0 /\ effects[t] # 1
    BY <2>1, <2>2
  <2>4. QED
    BY <2>1, <2>3 DEF SafetyIInv, OnceOnly, EffectsOnce, Invoked
<1>2. QED
  BY <1>1, SafetyInductive, PTL

(* A run becomes "cancelled" only when every handler of it that could      *)
(* still commit was stopped: its claim is lost, or its process was killed  *)
(* by terminate_run_processes, who finds every such handler although it    *)
(* reads the rows once and skips the attempts that are not started; this   *)
(* is so for the cancellation of the API, for the one a restart repeats    *)
(* and for both at once.                                                   *)
THEOREM CancellationsWaitForHandlers == SupSpec => CancelAfterHandlers
<1>1. SafetyIInv /\ [SupNext]_supVars =>
          [\A r \in Runs :
              runStatus[r] = "cancelling" /\ runStatus'[r] = "cancelled" =>
                  \A t \in TasksOf(r), g \in Generations :
                      child[t][g].state \in {"handling", "validating"} => ~HoldsClaim(t, g)
          ]_supVars
  BY CancelledAfterHandlers DEF SafetyIInv, Late
<1>2. QED
  BY <1>1, SafetyInductive, PTL DEF SupSpec, CancelAfterHandlers

=============================================================================
