------------------------------ MODULE Planning ------------------------------
(***************************************************************************)
(* Planning of one run: the planning lease on its row in table runs, its   *)
(* rows in planner_attempts, and the threads that execute _plan_once of    *)
(* runtime/queue.py.  A thread claims the run, asks a language model       *)
(* (twice at most), and activates the compiled plan, pauses the run with a *)
(* question, or rejects it.  The model may answer when the lease is long   *)
(* gone, and a thread may stop or die between any two transactions.        *)
(* The API cancels the run and answers its questions under their feet; of  *)
(* that, module RunCommands has the detail, and this one the effect.       *)
(***************************************************************************)
EXTENDS Naturals, Sequences, FiniteSets

CONSTANTS
    Workers,         \* lease owners: the names of worker processes
    NoWorker,        \* planner_lease_owner IS NULL
    NamesRecur,      \* names a restarted process bears again ("cli-<pid>")
    DeadName,        \* the name of a process that is gone, borne by nobody
    MaxGeneration,   \* bound: planning claims of the run
    MaxRevision,     \* bound: input revisions of the run
    MaxTrouble       \* bound: crashes and shutdowns of processes

ASSUME PlanningAssumption ==
    /\ {NoWorker, DeadName} \cap Workers = {} /\ NoWorker # DeadName
    /\ NamesRecur \subseteq Workers
    /\ MaxGeneration \in Nat \ {0}
    /\ MaxRevision \in Nat \ {0}
    /\ MaxTrouble \in Nat

Generations == 1 .. MaxGeneration

RunStatuses == {"queued", "planning", "awaiting_input", "ready", "cancelling",
                "failed", "cancelled"}

(* attempt_no 1 is the initial call of a generation, 2 its one repair.     *)
Ordinals == {1, 2}
AttemptStatuses == {"absent", "requested", "succeeded", "failed"}

Points == {"off", "idle", "request", "open", "call", "ask", "close", "finish",
           "activate", "enqueue", "pause", "paused", "reject", "rejected"}

VARIABLES
    run,        \* the row in runs: status, version, revision and the lease
    attempts,   \* planner_attempts.status by lease_generation, attempt_no
    plans,      \* the plans of the run, in the order of their activation
    th,         \* the planning threads
    retaken,    \* generations a restarted process of the same name took back
    stopping,   \* the shutdown event of every process
    trouble     \* crashes and shutdowns so far

vars == <<run, attempts, plans, th, retaken, stopping, trouble>>

Thread(pc) == [pc |-> pc, generation |-> 0, no |-> 1, revision |-> 0, code |-> "none"]

(* A refusal has the code of its error; PLAN_COMPILE_FAILED, the default,  *)
(* stands for all of them.                                                 *)
Codes == {"none", "WORKER_SHUTDOWN", "PLAN_COMPILE_FAILED"}

PlanningTypeOK ==
    /\ run \in [status : RunStatuses, version : Nat, revision : 1 .. MaxRevision,
                owner : Workers \cup {NoWorker, DeadName}, generation : 0 .. MaxGeneration,
                lease : {"none", "live", "expired"}]
    /\ attempts \in [Generations -> [Ordinals -> AttemptStatuses]]
    /\ plans \in Seq([revision : 1 .. MaxRevision, generation : Generations])
    /\ th \in [Workers -> [pc : Points, generation : 0 .. MaxGeneration, no : Ordinals,
                           revision : 0 .. MaxRevision, code : Codes]]
    /\ retaken \in SUBSET Generations
    /\ stopping \in [Workers -> BOOLEAN]
    /\ trouble \in 0 .. MaxTrouble

Init ==
    /\ run = [status |-> "queued", version |-> 1, revision |-> 1,
              owner |-> NoWorker, generation |-> 0, lease |-> "none"]
    /\ attempts = [g \in Generations |-> [n \in Ordinals |-> "absent"]]
    /\ plans = <<>>
    /\ th = [w \in Workers |-> Thread("off")]
    /\ retaken = {}
    /\ stopping = [w \in Workers |-> FALSE]
    /\ trouble = 0

-----------------------------------------------------------------------------
(* The row of the run and its fence.                                       *)
At(w, pc) == th[w].pc = pc
Goto(w, pc) == th' = [th EXCEPT ![w].pc = pc]
Rest(w, pc) == th' = [th EXCEPT ![w] = Thread(pc)]
Reject(w, code) == th' = [th EXCEPT ![w].pc = "reject", ![w].code = code]

(* Mutation of Fence: the generation is not compared.                      *)
FenceByOwner(w) ==
    /\ run.status = "planning"
    /\ run.owner # NoWorker
    /\ run.lease = "live"

(* A token is drawn with every claim, so it matches when owner and         *)
(* generation do.                                                          *)
Fence(w) ==
    /\ run.status = "planning"
    /\ run.owner = w
    /\ run.generation = th[w].generation
    /\ run.lease = "live"

(* UPDATE planner_attempts SET status='failed' WHERE status='requested'    *)
CloseRequested(a) ==
    [g \in Generations |->
        [n \in Ordinals |-> IF a[g][n] = "requested" THEN "failed" ELSE a[g][n]]]

Finish(w, s) == attempts' = [attempts EXCEPT ![th[w].generation][th[w].no] = s]
Requested(w) == attempts[th[w].generation][th[w].no] = "requested"

Leave(s) == run' = [run EXCEPT !.status = s, !.version = @ + 1,
                               !.owner = NoWorker, !.lease = "none"]

(* Bound: what makes another claim necessary happens while one is left.    *)
MayBeClaimedAgain == run.generation < MaxGeneration

-----------------------------------------------------------------------------
(* claim_planning_run.                                                     *)
TakeBack(w) ==
    /\ run.status = "planning" /\ run.owner = w /\ run.lease = "live"
    /\ th' = [th EXCEPT ![w] = [Thread("request") EXCEPT !.generation = run.generation]]
    /\ retaken' = retaken \cup {run.generation}
    /\ UNCHANGED <<run, attempts, plans>>

(* Mutation of Claimable: who died while planning is waited for.           *)
ClaimableQueued == run.status = "queued" /\ plans = <<>>

Claimable ==
    \/ run.status = "queued" /\ plans = <<>>
    \/ run.status = "planning" /\ run.lease = "expired"

(* Mutation of ClaimAfresh: attempts of the lost generation stay open.     *)
ClaimLeavesAttempts(w) ==
    /\ Claimable
    /\ run.generation < MaxGeneration
    /\ run' = [run EXCEPT !.status = "planning", !.owner = w, !.lease = "live",
                          !.generation = @ + 1, !.version = @ + 1]
    /\ th' = [th EXCEPT ![w] = [Thread("request") EXCEPT !.generation = run.generation + 1]]
    /\ UNCHANGED <<attempts, plans, retaken>>

ClaimAfresh(w) ==
    /\ Claimable
    /\ run.generation < MaxGeneration
    /\ attempts' = CloseRequested(attempts)
    /\ run' = [run EXCEPT !.status = "planning", !.owner = w, !.lease = "live",
                          !.generation = @ + 1, !.version = @ + 1]
    /\ th' = [th EXCEPT ![w] = [Thread("request") EXCEPT !.generation = run.generation + 1]]
    /\ UNCHANGED <<plans, retaken>>

(* Bound: a worker that shuts down claims only if one more claim is left.  *)
ClaimPlanningRun(w) ==
    /\ At(w, "idle")
    /\ stopping[w] => run.generation + 1 < MaxGeneration
    /\ TakeBack(w) \/ ClaimAfresh(w)
    /\ UNCHANGED <<stopping, trouble>>

(* _planner_request: the input revisions as they are now.  A declaration   *)
(* the user still owes is a question; unreadable input is an error.        *)
PlannerRequest(w) ==
    /\ At(w, "request")
    /\ \/ th' = [th EXCEPT ![w].pc = "open", ![w].revision = run.revision]
       \/ Goto(w, "pause")
       \/ Reject(w, "PLAN_COMPILE_FAILED")
    /\ UNCHANGED <<run, attempts, plans, retaken>>

(* Mutation of CreatePlannerAttempt: a row that is there is used again.    *)
ReuseAttempt(w) ==
    /\ At(w, "open")
    /\ IF Fence(w)
       THEN /\ Goto(w, "call")
            /\ IF attempts[th[w].generation][th[w].no] = "absent" THEN Finish(w, "requested")
               ELSE UNCHANGED attempts
       ELSE Reject(w, "PLAN_COMPILE_FAILED") /\ UNCHANGED attempts
    /\ UNCHANGED <<run, plans, retaken>>

(* create_planner_attempt: one row per run, generation and ordinal.  Who   *)
(* is refused has no attempt to close (revision 0).                        *)
Refuse(w) ==
    th' = [th EXCEPT ![w].pc = "reject", ![w].code = "PLAN_COMPILE_FAILED",
                     ![w].revision = 0]

CreatePlannerAttempt(w) ==
    /\ At(w, "open")
    /\ IF Fence(w) /\ attempts[th[w].generation][th[w].no] = "absent"
       THEN Finish(w, "requested") /\ Goto(w, "call")
       ELSE Refuse(w) /\ UNCHANGED attempts
    /\ UNCHANGED <<run, plans, retaken>>

(* _call_planner_with_lease_heartbeat up to the call of the provider: the  *)
(* lease is renewed, then the budget is checked.                           *)
CallPlanner(w) ==
    /\ At(w, "call")
    /\ IF ~Fence(w) THEN Reject(w, "PLAN_COMPILE_FAILED")
       ELSE IF stopping[w] THEN Reject(w, "WORKER_SHUTDOWN")
       ELSE Goto(w, "ask")
    /\ UNCHANGED <<run, attempts, plans, retaken>>

(* Mutation of CompileDraft: repaired as often as it fails.                *)
RepairAgain(w) == Goto(w, "finish") \/ Goto(w, "pause") \/ Goto(w, "close")

(* The guards on the draft and Compiler.compile: fine, a question to the   *)
(* user, or an error, which is repaired if the repair is not used up.      *)
CompileDraft(w) ==
    \/ Goto(w, "finish")
    \/ Goto(w, "pause")
    \/ IF th[w].no = 1 THEN Goto(w, "close") ELSE Reject(w, "PLAN_COMPILE_FAILED")

(* ... and from its return: a draft counts only if the lease can still be  *)
(* renewed; an unusable reply may be repaired once; the provider may fail, *)
(* exhaust its budget, or be cancelled with the lease or the worker.       *)
PlannerAnswers(w) ==
    /\ At(w, "ask")
    /\ \/ Fence(w) /\ ~stopping[w] /\ CompileDraft(w)
       \/ th[w].no = 1 /\ Goto(w, "close")
       \/ Reject(w, "PLAN_COMPILE_FAILED")
       \/ stopping[w] /\ Reject(w, "WORKER_SHUTDOWN")
    /\ UNCHANGED <<run, attempts, plans, retaken>>

(* finish_planner_attempt(failed), then the repair, unless the catalog has *)
(* no operation that could mend the draft.                                 *)
CloseForRepair(w) ==
    /\ At(w, "close")
    /\ IF Fence(w) /\ Requested(w)
       THEN /\ Finish(w, "failed")
            /\ \/ th' = [th EXCEPT ![w].pc = "open", ![w].no = @ + 1]
               \/ Reject(w, "PLAN_COMPILE_FAILED")
       ELSE Reject(w, "PLAN_COMPILE_FAILED") /\ UNCHANGED attempts
    /\ UNCHANGED <<run, plans, retaken>>

(* budget.check, finish_planner_attempt(succeeded).                        *)
FinishAttempt(w) ==
    /\ At(w, "finish")
    /\ IF stopping[w] THEN Reject(w, "WORKER_SHUTDOWN") /\ UNCHANGED attempts
       ELSE IF Fence(w) /\ Requested(w) THEN Finish(w, "succeeded") /\ Goto(w, "activate")
       ELSE Reject(w, "PLAN_COMPILE_FAILED") /\ UNCHANGED attempts
    /\ UNCHANGED <<run, plans, retaken>>

(* activate_compiled_plan.                                                 *)
ActivateCompiledPlan(w) ==
    /\ At(w, "activate")
    /\ IF Fence(w) /\ run.revision = th[w].revision
       THEN /\ plans' = Append(plans, [revision |-> th[w].revision,
                                       generation |-> th[w].generation])
            /\ Leave("ready")
            /\ Goto(w, "enqueue")
       ELSE Reject(w, "PLAN_COMPILE_FAILED") /\ UNCHANGED <<run, plans>>
    /\ UNCHANGED <<attempts, retaken>>

(* enqueue_run: the input bindings of the new tasks, see TaskQueue.        *)
EnqueuePlan(w) ==
    At(w, "enqueue") /\ Rest(w, "idle") /\ UNCHANGED <<run, attempts, plans, retaken>>

(* The two handlers at the end of _plan_once close the attempt first, if   *)
(* there is one, and the lease and the attempt are still theirs ...        *)
CloseAttempt(w, from, to) ==
    /\ At(w, from)
    /\ IF Fence(w) /\ Requested(w) /\ th[w].revision # 0 THEN Finish(w, "failed")
       ELSE UNCHANGED attempts
    /\ Goto(w, to)
    /\ UNCHANGED <<run, plans, retaken>>

(* ... and then leave planning by reject_planning.                         *)
PausePlanning(w) ==
    /\ At(w, "paused")
    /\ IF Fence(w) THEN Leave("awaiting_input") ELSE UNCHANGED run
    /\ Rest(w, "idle")
    /\ UNCHANGED <<attempts, plans, retaken>>

(* A worker that shuts down gives the run back (release_planning), which   *)
(* looks at the lease and not at the status.                               *)
RejectPlanning(w) ==
    LET Holds == run.owner = w /\ run.generation = th[w].generation /\ run.lease = "live"
    IN  /\ At(w, "rejected")
        /\ IF th[w].code = "WORKER_SHUTDOWN"
           THEN IF Holds THEN run' = [run EXCEPT !.status = "queued",
                                                 !.owner = NoWorker, !.lease = "none"]
                ELSE UNCHANGED run
           ELSE IF Fence(w) THEN Leave("failed") ELSE UNCHANGED run
        /\ Rest(w, "idle")
        /\ UNCHANGED <<attempts, plans, retaken>>

PlanOnce(w) ==
    /\ \/ PlannerRequest(w) \/ CreatePlannerAttempt(w) \/ CallPlanner(w)
       \/ PlannerAnswers(w) \/ CloseForRepair(w) \/ FinishAttempt(w)
       \/ ActivateCompiledPlan(w) \/ EnqueuePlan(w)
       \/ CloseAttempt(w, "pause", "paused") \/ PausePlanning(w)
       \/ CloseAttempt(w, "reject", "rejected") \/ RejectPlanning(w)
    /\ UNCHANGED <<stopping, trouble>>

-----------------------------------------------------------------------------
(* The API, and time.                                                      *)
(* apply_cancel_command takes the lease away and closes open attempts.     *)
ApplyCancel ==
    /\ run.status \in {"queued", "planning", "awaiting_input"}
    /\ attempts' = CloseRequested(attempts)
    /\ Leave("cancelling")
    /\ UNCHANGED <<plans, th, retaken, stopping, trouble>>

FinalizeCancel ==
    /\ run.status = "cancelling"
    /\ run' = [run EXCEPT !.status = "cancelled", !.version = @ + 1]
    /\ UNCHANGED <<attempts, plans, th, retaken, stopping, trouble>>

(* apply_resume_command on a run that has no plan yet.                     *)
ApplyResume ==
    /\ run.status = "awaiting_input"
    /\ run.revision < MaxRevision /\ MayBeClaimedAgain
    /\ run' = [run EXCEPT !.status = "queued", !.version = @ + 1, !.revision = @ + 1]
    /\ UNCHANGED <<attempts, plans, th, retaken, stopping, trouble>>

(* Nobody renewed the lease (heartbeat_planning) before it ran out.        *)
LeaseRunsOut ==
    /\ run.lease = "live"
    /\ MayBeClaimedAgain
    /\ run' = [run EXCEPT !.lease = "expired"]
    /\ UNCHANGED <<attempts, plans, th, retaken, stopping, trouble>>

-----------------------------------------------------------------------------
(* Processes.                                                              *)
Boot(w) ==
    /\ At(w, "off") /\ Goto(w, "idle")
    /\ stopping' = [stopping EXCEPT ![w] = FALSE]
    /\ UNCHANGED <<run, attempts, plans, retaken, trouble>>

(* Bound: trouble happens while the run can be claimed again.              *)
Trouble(w) ==
    /\ ~At(w, "off")
    /\ trouble < MaxTrouble /\ MayBeClaimedAgain
    /\ trouble' = trouble + 1

Stop(w) ==
    /\ Trouble(w)
    /\ ~stopping[w] /\ stopping' = [stopping EXCEPT ![w] = TRUE]
    /\ UNCHANGED <<run, attempts, plans, th, retaken>>

(* The thread leaves its loop between two runs.                            *)
Down(w) ==
    /\ At(w, "idle") /\ stopping[w] /\ Rest(w, "off")
    /\ UNCHANGED <<run, attempts, plans, retaken, stopping, trouble>>

(* The successor of a process that died bears another name, or its own.    *)
Crash(w) ==
    /\ Trouble(w)
    /\ Rest(w, "off")
    /\ run' = IF run.owner = w /\ w \notin NamesRecur THEN [run EXCEPT !.owner = DeadName] ELSE run
    /\ UNCHANGED <<attempts, plans, retaken, stopping>>

Process(w) == Boot(w) \/ ClaimPlanningRun(w) \/ PlanOnce(w) \/ Down(w)

Next ==
    \/ \E w \in Workers : Process(w) \/ Stop(w) \/ Crash(w)
    \/ ApplyCancel \/ FinalizeCancel \/ ApplyResume
    \/ LeaseRunsOut

(* Processes run and are started again, and nobody renews the lease of the *)
(* dead; a client never has to send anything.                              *)
Fairness ==
    /\ \A w \in Workers : WF_vars(Process(w))
    /\ WF_vars(run.owner = DeadName /\ LeaseRunsOut)

Spec == Init /\ [][Next]_vars /\ Fairness

-----------------------------------------------------------------------------
(* A planner attempt is open only under the lease it was made for.  One    *)
(* exception: a process that came back under its old name goes on with the *)
(* lease of the dead one, and the attempt it finds there stays open        *)
(* (UNIQUE(run_id, lease_generation, attempt_no) rejects the plan).        *)
NoOpenAttemptLeft ==
    \A g \in Generations \ retaken : \A n \in Ordinals :
        attempts[g][n] = "requested" => run.status = "planning" /\ run.generation = g

(* While a provider works for the holder of the lease, its call is open in *)
(* planner_attempts: no reader takes the run for idle.                     *)
CallIsRecorded == \A w \in Workers : At(w, "ask") /\ Fence(w) => Requested(w)

(* The plan of the run is the answer to all that the user said, and it was *)
(* made under the last lease: whatever a provider returns later, to whom,  *)
(* has no effect on a run that was claimed again, cancelled or decided.    *)
PlanIsCurrent ==
    /\ Len(plans) <= 1
    /\ plans # <<>> => /\ run.status = "ready"
                      /\ plans[1].revision = run.revision
                      /\ plans[1].generation = run.generation

(* A run without a plan does not stay without one: it gets one, or asks,   *)
(* or ends, whatever crashes, leases and late answers do.                  *)
Unplanned == run.status \in {"queued", "planning"}
PlanningSettles == Unplanned ~> ~Unplanned
=============================================================================
