----------------------------- MODULE Supervisor -----------------------------
(***************************************************************************)
(* The RuntimeSupervisor of runtime/queue.py: one process that serves the  *)
(* API and runs one worker thread, the isolated child processes that thread *)
(* spawns, and the crashes and restarts of all of them.                    *)
(*                                                                         *)
(* Module TaskQueue says what each transaction does; this module says who  *)
(* calls which one, in which order and with what remembered in between.    *)
(* Every action is at most one transaction of TaskQueue, so anything may   *)
(* happen between two of them.                                             *)
(***************************************************************************)
EXTENDS TaskQueue, Sequences

CONSTANTS
    NoTask,
    NoRun,
    Commands    \* the API requests explored: "cancel", "confirm", ...

VARIABLES
    worker,     \* the worker id of the process; NoWorker: it is down
    started,    \* the worker ids used so far (bound: each is used once)
    stopping,   \* _shutdown_event
    due,        \* tasks whose next_retry_at has passed
    th,         \* the worker thread: program counter and local variables
    child,      \* the child process of every attempt
    request,    \* what the API and the start of the worker are handling
    effects     \* history: how often the handler of a side effect was invoked

supVars == <<vars, worker, started, stopping, due, th, child, request, effects>>
process == <<worker, started, stopping>>

Alive == {"started", "checked", "handling", "validating"}

(* What a child leaves behind: a result message, or nothing ("dead").      *)
Failures == {"FAILED", "TIMEOUT", "STALE_LEASE"}
ChildStates == Alive \cup Failures \cup {"none", "ok", "dead"}

Codes == Failures \cup {"none", "WORKER_LOST", "WORKER_SHUTDOWN", "CANCELLED"}

(* The thread between two claims; every local variable is at rest.         *)
Thread(pc) ==
    [pc |-> pc, task |-> NoTask, gen |-> 0, walk |-> <<>>, stale |-> FALSE,
     code |-> "none", current |-> FALSE, left |-> {}, then |-> "poll"]

ThreadPcs == {"down", "boot", "recover", "terminal", "poll", "claim", "idle",
              "ensure", "walk", "start", "spawn", "identify", "watch", "finish",
              "judge", "decide", "put_back", "fail_attempt", "fail_task", "drop",
              "report", "raise", "settle", "resolve", "aggregate",
              "dying", "hand_over", "dead"}

(* What the thread still has to write to bring its run to "running".       *)
Walks == {<<>>, <<"running">>, <<"ready", "running">>,
          <<"planning", "ready", "running">>}

Quiet == [pc |-> "idle", run |-> NoRun, todo |-> {}, unresolved |-> FALSE]
Slots == {"api", "boot"}
RequestPcs == {"idle", "enqueue", "settle", "resolve", "aggregate", "read", "kill"}

(* A process that terminate_run_processes has to stop.                     *)
Identities == {"leased", "process", "unsafe"}
Target == [task : Tasks, gen : Generations, identity : Identities]

ThreadStates ==
    [pc : ThreadPcs, task : Tasks \cup {NoTask}, gen : 0 .. MaxGeneration,
     walk : Walks, stale : BOOLEAN, code : Codes, current : BOOLEAN,
     left : SUBSET Runs, then : {"poll", "raise", "dead", "settle", "report"}]
Children == [state : ChildStates, by : Workers \cup {NoWorker}, known : BOOLEAN]
Requests == [pc : RequestPcs, run : Runs \cup {NoRun}, todo : SUBSET Target,
             unresolved : BOOLEAN]

SupTypeOK ==
    /\ TypeOK
    /\ worker \in Workers \cup {NoWorker}
    /\ started \in SUBSET Workers
    /\ stopping \in BOOLEAN
    /\ due \in SUBSET Tasks
    /\ th \in ThreadStates
    /\ child \in [Tasks -> [Generations -> Children]]
    /\ request \in [Slots -> Requests]
    /\ effects \in [SideEffect -> Nat]

SupInit ==
    /\ Init
    /\ worker = NoWorker
    /\ started = {}
    /\ stopping = FALSE
    /\ due = {}
    /\ th = Thread("down")
    /\ child = [t \in Tasks |-> [g \in Generations |->
                   [state |-> "none", by |-> NoWorker, known |-> FALSE]]]
    /\ request = [s \in Slots |-> Quiet]
    /\ effects = [t \in SideEffect |-> 0]

-----------------------------------------------------------------------------
(***************************************************************************)
(* Control flow of the thread.                                             *)
(***************************************************************************)
Goto(pc) == th' = [th EXCEPT !.pc = pc]

Poll == th' = Thread("poll")

Settle(Rs, then) == th' = [th EXCEPT !.pc = "settle", !.left = Rs, !.then = then]

(* run_once catches an exception: the rest of its handler starts at judge. *)
Raise(code) == th' = [th EXCEPT !.pc = "judge", !.code = code]

(* An exception nobody converts: worker_loop leaves for its finally block. *)
Die == Goto("dying")

(* The child of the current claim, while _active_processes holds it.       *)
Supervised(t, g) == th.task = t /\ th.gen = g /\ th.pc \in {"identify", "watch"}

(* The process is gone; of its row only executor_identity remains.         *)
Gone(t, g) ==
    child' = [child EXCEPT ![t][g].state = "none", ![t][g].by = NoWorker]

-----------------------------------------------------------------------------
(***************************************************************************)
(* The process.                                                            *)
(***************************************************************************)

(* The lifespan of the application starts the one worker there is.         *)
StartProcess(w) ==
    /\ worker = NoWorker
    /\ w \in Workers \ started
    /\ worker' = w
    /\ started' = started \cup {w}
    /\ th' = [Thread("boot") EXCEPT !.left = {r \in Runs : runStatus[r] = "cancelling"}]
    /\ UNCHANGED <<vars, stopping, due, child, request, effects>>

Stop ==
    /\ worker # NoWorker
    /\ ~stopping
    /\ started # Workers
    /\ stopping' = TRUE
    /\ UNCHANGED <<vars, worker, started, due, th, child, request, effects>>

(* The process is gone, with every request it was handling.  A child dies  *)
(* with it only where a Job Object ties the two together.                  *)
ProcessEnds ==
    /\ worker' = NoWorker
    /\ stopping' = FALSE
    /\ th' = Thread("down")
    /\ request' = [s \in Slots |-> Quiet]
    /\ \E tied \in BOOLEAN :
          child' = [t \in Tasks |-> [g \in Generations |->
              IF child[t][g].state \in Alive /\ (tied => child[t][g].by # worker)
              THEN child[t][g]
              ELSE [child[t][g] EXCEPT !.state = "none", !.by = NoWorker]]]
    /\ UNCHANGED <<vars, started, due, effects>>

Exit == th.pc = "dead" /\ stopping /\ ProcessEnds

(* Bound: the process crashes only while another worker id is left.        *)
Crash == worker # NoWorker /\ started # Workers /\ ProcessEnds

-----------------------------------------------------------------------------
(***************************************************************************)
(* worker_loop.                                                            *)
(***************************************************************************)
Cancelling(r) == [Quiet EXCEPT !.pc = "read", !.run = r]

(* Mutation of RecoverCancellingRuns: a restart does not look for them.    *)
SkipCancellingRuns ==
    th.pc = "boot" /\ Goto("recover") /\ UNCHANGED <<vars, due, child, request>>

(* recover_cancelling_runs: one cancelling run after the other.            *)
RecoverCancellingRuns ==
    /\ th.pc = "boot"
    /\ request["boot"] = Quiet
    /\ \/ /\ th.left = {}
          /\ Goto("recover")
          /\ UNCHANGED request
       \/ \E r \in th.left :
             /\ th' = [th EXCEPT !.left = @ \ {r}]
             /\ request' = [request EXCEPT !["boot"] = Cancelling(r)]
    /\ UNCHANGED <<vars, due, child>>

(* recover_expired_leases, which may find nothing to do.                   *)
Recover(Rs) ==
    LET Due == {t \in due : taskStatus[t] = "retry_wait"}
    IN  /\ due' = {}
        /\ IF Due \cup LostClaims(Rs) = {} THEN UNCHANGED vars
           ELSE RecoverExpiredLeases(Rs, Due)

(* The thread recovers when it starts, before every claim and at its end.  *)
RecoverStep ==
    /\ \/ th.pc = "recover" /\ Goto("terminal")
       \/ th.pc = "poll" /\ ~stopping /\ Goto("claim")
       \/ th.pc = "hand_over" /\ Settle(th.left, "dead")
    /\ Recover(Runs)
    /\ UNCHANGED <<child, request>>

LeaveLoop ==
    /\ th.pc = "poll"
    /\ stopping
    /\ Die
    /\ UNCHANGED <<vars, due, child, request>>

(* Mutation of RecoverTerminalRuns: only a success closes a run.           *)
RecoverCompletedRuns ==
    /\ th.pc = "terminal"
    /\ LET Rs == {r \in Runs : /\ runStatus[r] \in {"queued", "ready", "running"}
                               /\ \E t \in TasksOf(r) : taskStatus[t] = "succeeded"}
       IN  IF Rs = {} THEN Poll ELSE Settle(Rs, "poll")
    /\ UNCHANGED <<vars, due, child, request>>

(* _recover_terminal_runs: the runs that have a task that is over.         *)
RecoverTerminalRuns ==
    /\ th.pc = "terminal"
    /\ LET Rs == {r \in Runs : /\ runStatus[r] \in {"queued", "ready", "running"}
                               /\ \E t \in TasksOf(r) : taskStatus[t] \in Final}
       IN  IF Rs = {} THEN Poll ELSE Settle(Rs, "poll")
    /\ UNCHANGED <<vars, due, child, request>>

(* claim_next: a claim the worker still holds, or a new one, or none.      *)
Claim(t, g) == th' = [Thread("ensure") EXCEPT !.task = t, !.gen = g]

ClaimStep ==
    /\ th.pc = "claim"
    /\ \/ \E t \in LiveClaims(worker) : Claim(t, generation[t]) /\ UNCHANGED vars
       \/ \E t \in Tasks : ClaimNext(worker, t) /\ Claim(t, generation[t] + 1)
       \/ /\ LiveClaims(worker) = {}
          /\ \A t \in Tasks : Claimable(t) => generation[t] = MaxGeneration
          /\ Goto("idle")
          /\ UNCHANGED vars
    /\ UNCHANGED <<due, child, request>>

(* Nothing to do: wait, and once a second look for runs to close.          *)
IdleWait == th.pc = "idle" /\ Goto("poll") /\ UNCHANGED <<vars, due, child, request>>
IdleRecover == th.pc = "idle" /\ Goto("terminal") /\ UNCHANGED <<vars, due, child, request>>

(* _finalize_run_if_terminal for every run in th.left: look at the run,    *)
(* resolve the inputs of its tasks, aggregate them; three transactions.    *)
SettleStep ==
    LET r == CHOOSE x \in th.left : TRUE
        Done == th' = [th EXCEPT !.pc = "settle", !.left = @ \ {r}]
    IN  /\ \/ /\ th.pc = "settle" /\ th.left = {}
              /\ IF th.then = "poll" THEN Poll ELSE Goto(th.then)
              /\ UNCHANGED vars
           \/ /\ th.pc = "settle" /\ th.left # {}
              /\ IF runStatus[r] \in FinalRun \cup {"cancelling"} THEN Done
                 ELSE Goto("resolve")
              /\ UNCHANGED vars
           \/ th.pc = "resolve" /\ EnqueueRun(r) /\ Goto("aggregate")
           \/ th.pc = "aggregate" /\ AggregateRun(r) /\ Done
        /\ UNCHANGED <<due, child, request>>

(* Mutation of HandOver: the claims are left to their leases.              *)
HandNothingOver ==
    /\ th.pc = "dying"
    /\ th' = [Thread("hand_over") EXCEPT !.left = {}]
    /\ UNCHANGED <<vars, due, child, request>>

(* The finally block of worker_loop hands the claims of the worker over.   *)
HandOver ==
    LET Mine == {t \in Tasks : leaseOwner[t] = worker /\ taskStatus[t] \in Active}
    IN  /\ th.pc = "dying"
        /\ th' = [Thread("hand_over") EXCEPT !.left = {RunOf[t] : t \in Mine}]
        /\ IF Mine = {} THEN UNCHANGED vars ELSE AbandonWorkerClaims(worker)
        /\ UNCHANGED <<due, child, request>>

-----------------------------------------------------------------------------
(***************************************************************************)
(* run_once, up to the result of the child.                                *)
(***************************************************************************)

(* _ensure_run_running reads the run status and then, in transactions of   *)
(* their own, writes every status between it and "running".                *)
Walk == [queued   |-> <<"planning", "ready", "running">>,
         planning |-> <<"ready", "running">>,
         ready    |-> <<"running">>,
         running  |-> <<>>]

EnsureRunRunning ==
    /\ th.pc = "ensure"
    /\ LET s == runStatus[RunOf[th.task]]
       IN  IF s \in DOMAIN Walk THEN th' = [th EXCEPT !.pc = "walk", !.walk = Walk[s]]
           ELSE Die
    /\ UNCHANGED <<vars, due, child, request>>

WalkStep ==
    /\ th.pc = "walk"
    /\ \/ th.walk = <<>> /\ Goto("start") /\ UNCHANGED vars
       \/ /\ th.walk # <<>>
          /\ AdvanceRun(th.task, th.gen, Head(th.walk))
          /\ th' = [th EXCEPT !.walk = Tail(@)]
       \/ th.walk # <<>> /\ ~HoldsClaim(th.task, th.gen) /\ Poll /\ UNCHANGED vars
       \/ /\ th.walk # <<>>
          /\ HoldsClaim(th.task, th.gen)
          /\ Head(th.walk) \notin RunTransitions[runStatus[RunOf[th.task]]]
          /\ Die
          /\ UNCHANGED vars
    /\ UNCHANGED <<due, child, request>>

Startable(t, g) ==
    FenceHolds(t, g) /\ taskStatus[t] = "leased" /\ attempt[t][g] = "leased"

(* A task that somebody else started, or whose lease is gone, is left alone. *)
StartTask ==
    /\ th.pc = "start"
    /\ \/ ExecutorStartTask(th.task, th.gen) /\ Goto("spawn")
       \/ ~Startable(th.task, th.gen) /\ Poll /\ UNCHANGED vars
    /\ UNCHANGED <<due, child, request>>

Spawn ==
    /\ th.pc = "spawn"
    /\ \/ /\ Goto("identify")
          /\ child' = [child EXCEPT ![th.task][th.gen].state = "started",
                                    ![th.task][th.gen].by = worker]
       \/ Raise("FAILED") /\ UNCHANGED child
    /\ UNCHANGED <<vars, due, request>>

(* set_executor_identity makes the child killable by a later process.      *)
Identify ==
    /\ th.pc = "identify"
    /\ \/ /\ FenceHolds(th.task, th.gen)
          /\ Goto("watch")
          /\ child' = [child EXCEPT ![th.task][th.gen].known = TRUE]
       \/ ~FenceHolds(th.task, th.gen) /\ Raise("STALE_LEASE") /\ Gone(th.task, th.gen)
       \/ Raise("FAILED") /\ Gone(th.task, th.gen)
    /\ UNCHANGED <<vars, due, request>>

(* Why the parent kills a child whose process still runs, which it does    *)
(* for a moment after its last word.  The deadline and the resource limits *)
(* may strike at any time.                                                 *)
KillCodes(t, g) ==
    {"TIMEOUT", "FAILED"}
    \cup (IF stopping THEN {"WORKER_SHUTDOWN"} ELSE {})
    \cup (IF runStatus[RunOf[t]] \in {"cancelling", "cancelled"} THEN {"CANCELLED"} ELSE {})
    \cup (IF ~HoldsClaim(t, g) /\ taskStatus[t] \notin Final THEN {"STALE_LEASE"} ELSE {})

Watch ==
    LET t == th.task
        g == th.gen
        s == child[t][g].state
    IN  /\ th.pc = "watch"
        /\ \/ s = "ok" /\ th' = [th EXCEPT !.pc = "finish", !.stale = FALSE]
           \/ s \in Failures /\ Raise(s)
           \/ s = "dead" /\ Raise("WORKER_LOST")
           \/ \E code \in KillCodes(t, g) : Raise(code)
        /\ Gone(t, g)
        /\ UNCHANGED <<vars, due, request>>

(* Heartbeats keep the row live, but only _run_isolated's own copy of the  *)
(* claim: the one run_once falls back to after an exception grows old.     *)
ClaimCopyExpires ==
    /\ th.pc = "watch"
    /\ ~th.stale
    /\ lease[th.task] = "live"
    /\ th' = [th EXCEPT !.stale = TRUE]
    /\ UNCHANGED <<vars, due, child, request>>

-----------------------------------------------------------------------------
(***************************************************************************)
(* run_once, after the child: success, and the exception handler.          *)
(***************************************************************************)
ReleaseRefused(t, g) == th.stale \/ ~ENABLED Release(t, g)

(* release, or the exception it raises.                                    *)
Released(then) == ~th.stale /\ Release(th.task, th.gen) /\ then
Unreleased(then) == ReleaseRefused(th.task, th.gen) /\ then /\ UNCHANGED vars

Finish ==
    /\ th.pc = "finish"
    /\ \/ Released(Settle({RunOf[th.task]}, "poll"))
       \/ Unreleased(Raise("STALE_LEASE"))
    /\ UNCHANGED <<due, child, request>>

(* Mutation of Judge: the durable rows are not consulted.                  *)
JudgeByException ==
    /\ th.pc = "judge"
    /\ th' = [th EXCEPT !.pc = "decide", !.current = FenceHolds(th.task, th.gen)]
    /\ UNCHANGED <<vars, due, child, request>>

(* What the rows say of the claim: a committed success wins, a retry that  *)
(* is already scheduled stands; otherwise the error is decided upon.       *)
Judge ==
    LET t == th.task
        g == th.gen
    IN  /\ th.pc = "judge"
        /\ \/ /\ generation[t] = g
              /\ attempt[t][g] = "succeeded"
              /\ th' = [th EXCEPT !.pc = "drop", !.then = "settle"]
           \/ /\ ~(generation[t] = g /\ attempt[t][g] = "succeeded")
              /\ IF taskStatus[t] = "retry_wait"
                 THEN th' = [th EXCEPT !.pc = "drop", !.then = "poll"]
                 ELSE th' = [th EXCEPT !.pc = "decide", !.current = FenceHolds(t, g)]
        /\ UNCHANGED <<vars, due, child, request>>

(* Does the frozen policy of the task allow another attempt?               *)
MayRetry(t) ==
    /\ th.current
    /\ th.code \notin {"WORKER_SHUTDOWN", "CANCELLED"}
    /\ t \in Idempotent
    /\ th.code \in Retryable[t]
    /\ Cardinality({g \in Generations : attempt[t][g] # "absent"}) < MaxAttempts[t]

Decide ==
    LET t == th.task
    IN  /\ th.pc = "decide"
        /\ \/ MayRetry(t) /\ ScheduleRetry(t, th.gen, th.code) /\ Goto("put_back")
           \/ /\ MayRetry(t)
              /\ ~(HoldsClaim(t, th.gen) /\ attempt[t][th.gen] \in {"leased", "running"})
              /\ th' = [th EXCEPT !.pc = "fail_attempt", !.current = FALSE]
              /\ UNCHANGED vars
           \/ ~MayRetry(t) /\ Goto("fail_attempt") /\ UNCHANGED vars
        /\ UNCHANGED <<due, child, request>>

(* The release that follows schedule_retry shares its exception handler.   *)
PutBack ==
    /\ th.pc = "put_back"
    /\ \/ Released(Poll)
       \/ Unreleased(th' = [th EXCEPT !.pc = "fail_attempt", !.current = FALSE])
    /\ UNCHANGED <<due, child, request>>

(* The attempt, then the task, is failed.  A lease lost by the first write *)
(* ends run_once: worker_loop passes over STALE_LEASE.                     *)
FailAttemptStep ==
    LET t == th.task
        Open == th.current /\ attempt[t][th.gen] \in OpenAttempt
        Drop == th' = [th EXCEPT !.pc = "drop", !.then = "report"]
    IN  /\ th.pc = "fail_attempt"
        /\ \/ Open /\ FailAttempt(t, th.gen) /\ Goto("fail_task")
           \/ Open /\ ~FenceHolds(t, th.gen) /\ Poll /\ UNCHANGED vars
           \/ ~Open /\ Drop /\ UNCHANGED vars
        /\ UNCHANGED <<due, child, request>>

FailTaskStep ==
    /\ th.pc = "fail_task"
    /\ th' = [th EXCEPT !.pc = "drop", !.then = "report"]
    /\ \/ FailTask(th.task, th.gen)
       \/ ~HoldsClaim(th.task, th.gen) /\ UNCHANGED vars
    /\ UNCHANGED <<due, child, request>>

(* A last release whose failure is passed over.                            *)
Drop ==
    LET Continue == IF th.then = "settle" THEN Settle({RunOf[th.task]}, "poll")
                    ELSE IF th.then = "poll" THEN Poll ELSE Goto("report")
    IN  /\ th.pc = "drop"
        /\ Released(Continue) \/ Unreleased(Continue)
        /\ UNCHANGED <<due, child, request>>

Report ==
    /\ th.pc = "report"
    /\ IF runStatus[RunOf[th.task]] \in {"cancelling", "cancelled"} THEN Poll
       ELSE IF th.current THEN Settle({RunOf[th.task]}, "raise")
       ELSE Goto("raise")
    /\ UNCHANGED <<vars, due, child, request>>

(* worker_loop looks at the exception run_once raised again.               *)
ReRaise ==
    /\ th.pc = "raise"
    /\ IF taskStatus[th.task] \in Final THEN Settle({RunOf[th.task]}, "poll")
       ELSE IF th.code \in {"WORKER_SHUTDOWN", "CANCELLED", "STALE_LEASE"} THEN Poll
       ELSE Die
    /\ UNCHANGED <<vars, due, child, request>>

ThreadStep ==
    /\ \/ RecoverCancellingRuns \/ RecoverStep \/ LeaveLoop \/ RecoverTerminalRuns
       \/ ClaimStep \/ IdleWait \/ IdleRecover \/ SettleStep \/ HandOver
       \/ EnsureRunRunning \/ WalkStep \/ StartTask \/ Spawn \/ Identify \/ Watch
       \/ Finish \/ Judge \/ Decide \/ PutBack \/ FailAttemptStep \/ FailTaskStep
       \/ Drop \/ Report \/ ReRaise
    /\ UNCHANGED <<process, effects>>

-----------------------------------------------------------------------------
(***************************************************************************)
(* The child: RuntimeExecutor.execute in a process of its own.             *)
(***************************************************************************)
Continue(t, g, s) == child' = [child EXCEPT ![t][g].state = s]

(* The child ends.  Nobody reads what the orphan of a lost parent sent.    *)
Ends(t, g, result) ==
    IF Supervised(t, g) THEN Continue(t, g, result) ELSE Gone(t, g)

(* Mutation of ChildCheck: the confirmation is taken for granted.          *)
ChildCheckUnconfirmed(t, g) ==
    LET Allowed == runStatus[RunOf[t]] = "running"
    IN  /\ child[t][g].state = "started"
        /\ \/ HoldsClaim(t, g) /\ Allowed /\ Continue(t, g, "checked")
           \/ HoldsClaim(t, g) /\ ~Allowed /\ Ends(t, g, "FAILED")
           \/ ~HoldsClaim(t, g) /\ Ends(t, g, "STALE_LEASE")
        /\ UNCHANGED <<vars, effects>>

(* Everything execute checks before it touches an input.  The parent has   *)
(* already walked the run to "running".                                    *)
ChildCheck(t, g) ==
    LET Allowed == /\ t \in SideEffect => t \in confirmed
                   /\ runStatus[RunOf[t]] = "running"
    IN  /\ child[t][g].state = "started"
        /\ \/ HoldsClaim(t, g) /\ Allowed /\ Continue(t, g, "checked")
           \/ HoldsClaim(t, g) /\ ~Allowed /\ Ends(t, g, "FAILED")
           \/ ~HoldsClaim(t, g) /\ Ends(t, g, "STALE_LEASE")
        /\ UNCHANGED <<vars, effects>>

(* Mutation of ChildInvoke: the child retries a handler by itself.         *)
ChildInvokeInLoop(t, g) ==
    /\ child[t][g].state = "checked"
    /\ HoldsClaim(t, g)
    /\ \E s \in {"checked", "handling"} : Continue(t, g, s)
    /\ effects' = [u \in SideEffect |-> IF u = t THEN effects[u] + 1 ELSE effects[u]]
    /\ UNCHANGED vars

ChildInvoke(t, g) ==
    /\ child[t][g].state = "checked"
    /\ \/ /\ HoldsClaim(t, g)
          /\ Continue(t, g, "handling")
          /\ effects' = [u \in SideEffect |-> IF u = t THEN effects[u] + 1 ELSE effects[u]]
       \/ ~HoldsClaim(t, g) /\ Ends(t, g, "STALE_LEASE") /\ UNCHANGED effects
    /\ UNCHANGED vars

ChildValidate(t, g) ==
    /\ child[t][g].state = "handling"
    /\ \/ BeginValidating(t, g) /\ Continue(t, g, "validating")
       \/ ~HoldsClaim(t, g) /\ Ends(t, g, "STALE_LEASE") /\ UNCHANGED vars
    /\ UNCHANGED effects

(* The child may die between its commit and its result message.            *)
ChildCommit(t, g) ==
    /\ child[t][g].state = "validating"
    /\ \/ \E outputs \in {produced, produced \cup {t}}, result \in {"ok", "dead"} :
             CommitValidatedTask(t, g, outputs) /\ Ends(t, g, result)
       \/ ~HoldsClaim(t, g) /\ Ends(t, g, "STALE_LEASE") /\ UNCHANGED vars
    /\ UNCHANGED effects

(* A bad input, a failing result or a failed postcondition: _mark_failed   *)
(* fails the task before the error is reported.                            *)
ChildFails(t, g) ==
    /\ child[t][g].state \in {"checked", "handling", "validating"}
    /\ \/ FailTask(t, g)
       \/ ~HoldsClaim(t, g) /\ UNCHANGED vars
    /\ \E result \in {"FAILED", "TIMEOUT", "dead"} : Ends(t, g, result)
    /\ UNCHANGED effects

(* The handler raises: reported as it is.                                  *)
ChildRaises(t, g) ==
    /\ child[t][g].state = "handling"
    /\ \E result \in {"FAILED", "TIMEOUT"} : Ends(t, g, result)
    /\ UNCHANGED <<vars, effects>>

ChildDies(t, g) ==
    /\ child[t][g].state \in Alive
    /\ Ends(t, g, "dead")
    /\ UNCHANGED <<vars, effects>>

ChildStep(t, g) ==
    /\ \/ ChildCheck(t, g) \/ ChildInvoke(t, g) \/ ChildValidate(t, g)
       \/ ChildCommit(t, g) \/ ChildFails(t, g) \/ ChildRaises(t, g) \/ ChildDies(t, g)
    /\ UNCHANGED <<process, due, th, request>>

-----------------------------------------------------------------------------
(***************************************************************************)
(* The commands of the API, and the second phase of every cancellation.    *)
(* Bound: the API handles one request at a time.                           *)
(***************************************************************************)
Serve(s, pc) == request' = [request EXCEPT ![s].pc = pc]
Answered(s) == request' = [request EXCEPT ![s] = Quiet]
Received(r, pc) == request' = [request EXCEPT !["api"].pc = pc, !["api"].run = r]

(* A cancel request, or a repeated one whose answer the client never saw.  *)
CancelRequest(r) ==
    /\ \/ ApplyCancelCommand(r)
       \/ runStatus[r] = "cancelling" /\ UNCHANGED vars
    /\ Received(r, "read")
    /\ UNCHANGED due

(* Mutation of ConfirmRequest: the state of the run is not looked at.      *)
ConfirmRequestAnyTime(r) ==
    /\ confirmed' = confirmed \cup (TasksOf(r) \cap SideEffect)
    /\ Received(r, "enqueue")
    /\ UNCHANGED <<runStatus, resumed, taskStatus, blockedReason, generation,
                   attempt, leaseOwner, lease, produced, due>>

ConfirmRequest(r) ==
    /\ \E t \in TasksOf(r) : ConfirmTask(t)
    /\ Received(r, "enqueue")
    /\ UNCHANGED due

ResumeRequest(r) ==
    /\ \E retry \in SUBSET Unsettled(r) : ApplyResumeCommand(r, retry)
    /\ IF runStatus'[r] = "queued" THEN Received(r, "enqueue") ELSE UNCHANGED request
    /\ UNCHANGED due

RecoverRequest(r) == Recover({r}) /\ Received(r, "settle")

ApiRequest(r) ==
    /\ worker # NoWorker
    /\ request["api"] = Quiet
    /\ \/ "cancel" \in Commands /\ CancelRequest(r)
       \/ "confirm" \in Commands /\ ConfirmRequest(r)
       \/ "resume" \in Commands /\ ResumeRequest(r)
       \/ "recover" \in Commands /\ RecoverRequest(r)
    /\ UNCHANGED <<process, th, child, effects>>

(* enqueue_run after a command, _finalize_run_if_terminal after /recover.  *)
ServeRun(s) ==
    LET r == request[s].run
    IN  /\ \/ request[s].pc = "enqueue" /\ EnqueueRun(r) /\ Answered(s)
           \/ /\ request[s].pc = "settle"
              /\ IF runStatus[r] \in FinalRun \cup {"cancelling"} THEN Answered(s)
                 ELSE Serve(s, "resolve")
              /\ UNCHANGED vars
           \/ request[s].pc = "resolve" /\ EnqueueRun(r) /\ Serve(s, "aggregate")
           \/ request[s].pc = "aggregate" /\ AggregateRun(r) /\ Answered(s)
        /\ UNCHANGED child

(* Mutation of Identity: the status of the attempt is taken for it.        *)
IdentityByStatus(t) == CurrentAttempt(t)

(* How terminate_run_processes will find the process of an active task: a  *)
(* leased attempt has none yet; one whose executor_identity is still the   *)
(* name of the queue cannot be found.                                      *)
Identity(t) ==
    IF CurrentAttempt(t) = "leased" THEN "leased"
    ELSE IF CurrentAttempt(t) = "running" /\ child[t][generation[t]].known THEN "process"
    ELSE "unsafe"

ReadActive(s) ==
    /\ request[s].pc = "read"
    /\ request' = [request EXCEPT ![s].pc = "kill",
           ![s].todo = {[task |-> t, gen |-> generation[t], identity |-> Identity(t)] :
                            t \in {u \in TasksOf(request[s].run) : taskStatus[u] \in Active}}]
    /\ UNCHANGED <<vars, child>>

(* One pass of the loop in terminate_run_processes.  A kill may fail, and  *)
(* the pid of a process that is gone may have been given to another.       *)
Kill(s, i) ==
    LET Unresolved == request' = [request EXCEPT ![s].todo = @ \ {i}, ![s].unresolved = TRUE]
        Resolved == request' = [request EXCEPT ![s].todo = @ \ {i}]
        Handle == Supervised(i.task, th.gen) /\ child[i.task][th.gen].state \in Alive
    IN  \/ Handle /\ Resolved /\ Continue(i.task, th.gen, "dead")
        \/ ~Handle /\ i.identity = "leased" /\ Resolved /\ UNCHANGED child
        \/ /\ ~Handle /\ i.identity = "process" /\ Resolved
           /\ IF child[i.task][i.gen].state \in Alive THEN Gone(i.task, i.gen)
              ELSE UNCHANGED child
        \/ (Handle \/ i.identity # "leased") /\ Unresolved /\ UNCHANGED child

TerminateRunProcesses(s) ==
    /\ request[s].pc = "kill"
    /\ \E i \in request[s].todo : Kill(s, i)
    /\ UNCHANGED vars

(* Mutation of ConcludeCancel: a process that was not stopped is forgotten. *)
ConcludeCancelAnyway(s) ==
    LET r == request[s].run
    IN  /\ request[s].pc = "kill"
        /\ request[s].todo = {}
        /\ IF runStatus[r] # "cancelling" THEN UNCHANGED vars
           ELSE FinalizeCancelCommand(r)
        /\ Answered(s)
        /\ UNCHANGED child

(* Everything is stopped, or the user has to decide.  RUN_NOT_CANCELLING:  *)
(* somebody else has finished this cancellation.                           *)
ConcludeCancel(s) ==
    LET r == request[s].run
    IN  /\ request[s].pc = "kill"
        /\ request[s].todo = {}
        /\ IF runStatus[r] # "cancelling" THEN UNCHANGED vars
           ELSE IF request[s].unresolved THEN MarkCancelIndeterminate(r)
           ELSE FinalizeCancelCommand(r)
        /\ Answered(s)
        /\ UNCHANGED child

RequestStep(s) ==
    /\ ServeRun(s) \/ ReadActive(s) \/ TerminateRunProcesses(s) \/ ConcludeCancel(s)
    /\ UNCHANGED <<process, due, th, effects>>

-----------------------------------------------------------------------------
(* Time.                                                                   *)
Expire(t) ==
    LeaseExpires(t) /\ UNCHANGED <<process, due, th, child, request, effects>>

RetryFallsDue(t) ==
    /\ taskStatus[t] = "retry_wait"
    /\ t \notin due
    /\ due' = due \cup {t}
    /\ UNCHANGED <<vars, process, th, child, request, effects>>

SupNext ==
    \/ \E w \in Workers : StartProcess(w)
    \/ Stop \/ Exit \/ Crash
    \/ ThreadStep
    \/ ClaimCopyExpires /\ UNCHANGED <<process, effects>>
    \/ \E t \in Tasks, g \in Generations : ChildStep(t, g)
    \/ \E r \in Runs : ApiRequest(r)
    \/ \E s \in Slots : RequestStep(s)
    \/ \E t \in Tasks : Expire(t) \/ RetryFallsDue(t)

SupSpec == SupInit /\ [][SupNext]_supVars

(***************************************************************************)
(* Fairness.  The thread, the API and a restart are not suspended for      *)
(* ever; a claim that nobody heartbeats expires; a retry falls due; and    *)
(* the loop looks for terminal runs once a second, however long it idles.  *)
(* Children are owed nothing: their deadline is a step of the thread.      *)
(***************************************************************************)
Restart == \E w \in Workers : StartProcess(w)
Heartbeats(t) == th.pc = "watch" /\ Supervised(t, generation[t])

Fairness ==
    /\ WF_supVars(Restart)
    /\ WF_supVars(Exit)
    /\ WF_supVars(ThreadStep)
    /\ SF_supVars(IdleRecover /\ UNCHANGED <<process, effects>>)
    /\ \A s \in Slots : WF_supVars(RequestStep(s))
    /\ \A t \in Tasks : WF_supVars(~Heartbeats(t) /\ Expire(t))
    /\ \A t \in Tasks : WF_supVars(RetryFallsDue(t))

FairSpec == SupSpec /\ Fairness

-----------------------------------------------------------------------------
(***************************************************************************)
(* Safety.                                                                 *)
(***************************************************************************)

(* The handler of a side effect that is not idempotent is invoked at most  *)
(* once, whoever dies between its invocation and its commit, unless a user *)
(* resumed the run.  (recover_expired_leases parks such a task, run_once   *)
(* never retries it, and the child has no retry loop of its own.)          *)
SideEffectRunsOnce ==
    \A t \in SideEffect \ Idempotent : effects[t] > 1 => RunOf[t] \in resumed

(* A side effect never happens without its confirmation, although its task *)
(* may become ready, be claimed and be started without one: what is left   *)
(* is _check_side_effect_confirmation in the child.                        *)
EffectNeedsConfirmation ==
    \A t \in SideEffect : effects[t] > 0 => t \in confirmed

(* An attempt that has committed is neither retried nor failed, although   *)
(* the parent may hear of a timeout, a lost child or a shutdown after the  *)
(* commit: the rows decide, not the exception.  (run_once, on a child that *)
(* dies between its transaction and its completion manifest.)              *)
CommitIsNotJudged ==
    th.pc \in {"decide", "put_back", "fail_attempt", "fail_task"} =>
        attempt[th.task][th.gen] # "succeeded"

(* A worker thread that has ended holds no active task, for whatever       *)
(* reason and at whatever point of run_once it ended: nobody else would    *)
(* take the task over before its lease runs out.  (The finally block of    *)
(* worker_loop.)                                                           *)
DeadWorkerHoldsNothing ==
    th.pc = "dead" =>
        \A t \in Tasks : leaseOwner[t] = worker => taskStatus[t] \notin Active

(* A run is reported cancelled only when no handler of it runs that could  *)
(* still commit: each was killed, lost its claim, or never got as far,     *)
(* also the child of an attempt that terminate_run_processes skipped since *)
(* it was not started yet.                                                 *)
CancelAfterHandlers ==
    [][\A r \in Runs :
          runStatus[r] = "cancelling" /\ runStatus'[r] = "cancelled" =>
              \A t \in TasksOf(r), g \in Generations :
                  child[t][g].state \in {"handling", "validating"} => ~HoldsClaim(t, g)
      ]_supVars

(***************************************************************************)
(* Liveness, under FairSpec.                                               *)
(***************************************************************************)

(* A cancellation is answered, by "cancelled" or by a question to the user, *)
(* also when the process crashes between its two phases.  (The docstring   *)
(* of recover_cancelling_runs.)                                            *)
CancelConverges ==
    \A r \in Runs : runStatus[r] = "cancelling" ~> runStatus[r] # "cancelling"

(* A run without unconfirmed side effects ends or asks its user, through   *)
(* crashes, lost leases, retries and late commits, as long as the worker   *)
(* thread lives.                                                           *)
RunSettles ==
    \A r \in Runs :
        TRUE ~> (runStatus[r] \in FinalRun \cup {"awaiting_input"} \/ th.pc = "dead")

(***************************************************************************)
(* What the comments of queue.py and the architecture document say and the *)
(* code does not do.                                                       *)
(***************************************************************************)

(* A task whose retry has been scheduled under a live lease does not end   *)
(* the worker thread.  ("The supervisor must keep polling after such a     *)
(* business failure", worker_loop.)                                        *)
RetrySparesWorker ==
    th.pc = "dying" /\ ~stopping =>
        ~(taskStatus[th.task] = "retry_wait" /\ lease[th.task] = "live")

(* A stopping worker never fails a task that the frozen policy would let   *)
(* recovery run again.  ("Route worker shutdown through the same persisted- *)
(* policy recovery state machine as lease expiry", abandon_worker_claims.) *)
ShutdownFollowsPolicy ==
    [][\A t \in Tasks :
          /\ th.pc = "fail_task"
          /\ th.code = "WORKER_SHUTDOWN"
          /\ taskStatus[t] # "failed"
          /\ taskStatus'[t] = "failed"
          => ~ /\ t \in Idempotent
               /\ "WORKER_LOST" \in Retryable[t]
               /\ generation[t] < MaxAttempts[t]
      ]_supVars

=============================================================================
