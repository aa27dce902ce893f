---------------------------- MODULE RunCommands ----------------------------
(***************************************************************************)
(* The commands a client sends to one run, POST /runs/{id}/cancel, /resume *)
(* and /confirm of api/runtime.py with their transactions in               *)
(* runtime/store.py.  A client may send a command again, with the same     *)
(* body or another one, and the process that serves it may die between any *)
(* two steps.  A cancellation takes two transactions with the killing of   *)
(* children between them; a process that starts finishes the cancellations *)
(* it finds.  What else happens to the run is in short here: planning      *)
(* (module Planning), and the tasks of its plan (module TaskQueue): one    *)
(* task, of which commands see whether it is active and whether it has a   *)
(* side effect, and of the others, which have none, only how the worker    *)
(* that claimed one walks the run to "running".                            *)
(***************************************************************************)
EXTENDS Naturals, FiniteSets, Sequences

CONSTANTS
    Processes,    \* the processes of the runtime
    Servers,      \* those of them that serve the API
    Requests,     \* connections: each carries one request at a time, ever again
    CancelIds,    \* command ids of cancellations
    ResumeIds,    \* command ids of answers to a question
    ConfirmIds,   \* command ids of approvals of the side effect
    Versioned,    \* bound: commands whose client may name the run version it saw
    NoProcess,    \* nobody serves a silent connection
    MaxRevision,  \* bound: input revisions of the run
    MaxCrashes    \* bound: crashes of processes

ASSUME CommandsAssumption ==
    /\ CancelIds \cap ResumeIds = {}
    /\ (CancelIds \cup ResumeIds) \cap ConfirmIds = {}
    /\ Versioned \subseteq CancelIds \cup ResumeIds \cup ConfirmIds
    /\ Servers \subseteq Processes /\ NoProcess \notin Processes
    /\ MaxRevision \in Nat \ {0}
    /\ MaxCrashes \in Nat

Ids == CancelIds \cup ResumeIds \cup ConfirmIds

RunStatuses == {"queued", "planning", "awaiting_input", "ready", "running",
                "cancelling", "completed", "failed", "cancelled"}
FinalRun == {"completed", "failed", "cancelled"}

VARIABLES
    run,        \* runs.status, runs.input_revision, and the revision its plan is for
    task,       \* the task of the plan: its status and its confirmation
    walk,       \* the run statuses that the claim of another task has still to write
    commands,   \* run_commands by command_id
    lastCancel, \* the newest cancel command; "none" without one
    seen,       \* the expected_run_version of every command: is it still run_version
    req,        \* the request on each connection, and the last answer there
    proc,       \* the processes
    crashes     \* crashes so far

vars == <<run, task, walk, commands, lastCancel, seen, req, proc, crashes>>

Absent == [status |-> "absent", body |-> "none"]
Silent(a) == [pc |-> "silent", id |-> "none", by |-> NoProcess, body |-> "none", answer |-> a]

(* What a command is sent with, which its digest tells apart: nothing, the *)
(* expected_run_version, or the decision to retry the task in doubt.       *)
Bodies == {"none", "plain", "checked", "decided"}

(* _ensure_run_running reads the run status once, then writes what the     *)
(* status read leaves to write; and the statuses RUN_TRANSITIONS allows    *)
(* each of them to be written over.                                        *)
WalkFrom(s) ==
    CASE s = "queued" -> <<"planning", "ready", "running">>
      [] s = "planning" -> <<"ready", "running">>
      [] s = "ready" -> <<"running">>
      [] OTHER -> <<>>
Walks == {WalkFrom(s) : s \in RunStatuses}

Over(s) ==
    CASE s = "planning" -> {"queued"}
      [] s = "ready" -> {"planning", "awaiting_input"}
      [] s = "running" -> {"ready", "awaiting_input"}

CommandsTypeOK ==
    /\ run \in [status : RunStatuses, revision : 1 .. MaxRevision, plan : 0 .. MaxRevision]
    /\ task \in [status : {"none", "blocked", "undecided", "ready", "running", "doubtful",
                           "succeeded", "failed", "cancelled"},
                 gate : {"none", "pending", "confirmed"}]
    /\ walk \in Walks
    /\ commands \in [Ids -> [status : RunStatuses \cup {"absent"}, body : Bodies]]
    /\ lastCancel \in CancelIds \cup {"none"}
    /\ seen \in [Ids -> {"never", "current", "outdated"}]
    /\ req \in [Requests -> [pc : {"silent", "apply", "kill", "finalize", "mark", "enqueue"},
                             id : Ids \cup {"none"}, by : Servers \cup {NoProcess}, body : Bodies,
                             answer : {"ok", "refused"}]]
    /\ proc \in [Processes -> {"off", "boot", "finalize", "mark", "up"}]
    /\ crashes \in 0 .. MaxCrashes

Init ==
    /\ run = [status |-> "queued", revision |-> 1, plan |-> 0]
    /\ task = [status |-> "none", gate |-> "none"]
    /\ walk = <<>>
    /\ commands = [c \in Ids |-> Absent]
    /\ lastCancel = "none"
    /\ seen = [c \in Ids |-> "never"]
    /\ req = [r \in Requests |-> Silent("ok")]
    /\ proc = [p \in Processes |-> "off"]
    /\ crashes = 0

-----------------------------------------------------------------------------
(* run_version is a counter of changes: what commands compare is whether   *)
(* it is still the one the client saw.                                     *)
NewVersion == seen' = [c \in Ids |-> IF seen[c] = "never" THEN "never" ELSE "outdated"]
To(s) == run' = [run EXCEPT !.status = s] /\ NewVersion

Active == task.status \in {"running", "doubtful"}
FinalTask == task.status \in {"none", "succeeded", "failed", "cancelled"}
CancelTask == task' = IF FinalTask THEN task ELSE [task EXCEPT !.status = "cancelled"]

Record(c, body, status) == commands' = [commands EXCEPT ![c] = [status |-> status, body |-> body]]

(* Mutation of Respond: the answer says more than a status.                *)
RespondResolved(c, status) == commands' = [commands EXCEPT ![c].status = "resolved"]

Respond(c, status) == commands' = [commands EXCEPT ![c].status = status]

(* apply_cancel_command(finalize=False, defer_active=True) for a command   *)
(* that is not recorded yet: it reserves, and cancels all that is idle.    *)
ReserveCancel(c, body) ==
    /\ IF run.status \in FinalRun
       THEN UNCHANGED <<run, task, seen>> /\ Record(c, body, run.status)
       ELSE /\ IF run.status = "cancelling" THEN UNCHANGED <<run, seen>> ELSE To("cancelling")
            /\ IF Active THEN UNCHANGED task ELSE CancelTask
            /\ Record(c, body, "cancelling")
    /\ lastCancel' = c

(* terminate_run_processes: the children were stopped, or one of a task of *)
(* the plan, this one or another, may still run.                           *)
Terminate(stopped, doubtful) == stopped \/ (run.plan # 0 /\ doubtful)

(* Mutation of FinalizeCancel: the tasks are left as they are.             *)
FinalizeRunOnly(c) ==
    /\ run.status = "cancelling"
    /\ To("cancelled") /\ UNCHANGED task /\ walk' = <<>> /\ Respond(c, "cancelled")

(* finalize_cancel_command: no claim is left.                              *)
FinalizeCancel(c) ==
    /\ run.status = "cancelling"
    /\ To("cancelled") /\ CancelTask /\ walk' = <<>> /\ Respond(c, "cancelled")

(* mark_cancel_indeterminate: active tasks lose their leases, the run asks *)
(* the user.                                                               *)
MarkCancelIndeterminate(c) ==
    /\ run.status = "cancelling"
    /\ To("awaiting_input") /\ walk' = <<>> /\ Respond(c, "awaiting_input")
    /\ task' = IF Active THEN [task EXCEPT !.status = "doubtful"] ELSE task

-----------------------------------------------------------------------------
(* Requests.                                                               *)
Pc(r, pc) == req' = [req EXCEPT ![r].pc = pc]
Answer(r, a) == req' = [req EXCEPT ![r] = Silent(a)]
Recorded(r) == commands[req[r].id].status # "absent"
SameBody(r) == commands[req[r].id].body = req[r].body
Outdated(r) == req[r].body = "checked" /\ seen[req[r].id] = "outdated"

OnlyAnswer(r, a) == Answer(r, a) /\ UNCHANGED <<run, task, walk, seen, commands>>

(* A resume or confirm that turns out to be recorded goes the way of the   *)
(* first one, enqueue_run included.                                        *)
Replay(r) ==
    IF SameBody(r) THEN Pc(r, "enqueue") /\ UNCHANGED <<run, task, walk, seen, commands>>
    ELSE OnlyAnswer(r, "refused")

(* A request arrives: the client names the version it saw when it made up  *)
(* the command, or none, or decides on the task in doubt.  The handlers    *)
(* look the command up before they write.  Most answers are given there    *)
(* and change nothing: a repeat gets the recorded answer, another body, an *)
(* outdated version or (to an answer) a run that asks nothing is refused.  *)
(* A cancellation left half done is taken up by the one who repeats it.    *)
Receive(r, p) ==
    /\ req[r].pc = "silent"
    /\ proc[p] = "up"
    /\ \E c \in Ids, b \in Bodies \ {"none"}, pc \in {"apply", "kill"} :
          LET known == commands[c].status # "absent"
          IN  /\ b = "checked" => c \in Versioned
              /\ b = "decided" => c \in ResumeIds /\ task.status \in {"doubtful", "undecided"}
              /\ seen' = IF b = "checked" /\ seen[c] = "never" THEN [seen EXCEPT ![c] = "current"] ELSE seen
              /\ pc = "apply" => /\ ~known
                                 /\ c \in ResumeIds => run.status = "awaiting_input"
                                 /\ b = "checked" /\ c \notin ConfirmIds => seen'[c] = "current"
              /\ pc = "kill" => known /\ c \in CancelIds /\ commands[c] = [status |-> "cancelling", body |-> b]
              /\ req' = [req EXCEPT ![r] = [pc |-> pc, id |-> c, by |-> p, body |-> b, answer |-> "ok"]]
    /\ UNCHANGED <<run, task, walk, commands, lastCancel, proc, crashes>>

ApplyCancel(r) ==
    /\ req[r].pc = "apply" /\ req[r].id \in CancelIds
    /\ \/ /\ Recorded(r) /\ SameBody(r) /\ Pc(r, "kill")
          /\ UNCHANGED <<run, task, walk, seen, commands, lastCancel>>
       \/ /\ IF Recorded(r) THEN ~SameBody(r) ELSE Outdated(r)
          /\ OnlyAnswer(r, "refused") /\ UNCHANGED lastCancel
       \/ /\ ~Recorded(r) /\ ~Outdated(r) /\ Pc(r, "kill")
          /\ ReserveCancel(req[r].id, req[r].body) /\ UNCHANGED walk
    /\ UNCHANGED <<proc, crashes>>

Kill(r) ==
    /\ req[r].pc = "kill"
    /\ Terminate(Pc(r, "finalize"), Pc(r, "mark"))
    /\ UNCHANGED <<run, task, walk, seen, commands, lastCancel, proc, crashes>>

(* A cancellation that somebody else concluded the same way is a success;  *)
(* one that was concluded otherwise is an error.                           *)
Conclude(r) ==
    LET c == req[r].id
    IN  /\ \/ req[r].pc = "finalize" /\ FinalizeCancel(c) /\ Answer(r, "ok")
           \/ req[r].pc = "mark" /\ MarkCancelIndeterminate(c) /\ Answer(r, "ok")
           \/ /\ req[r].pc \in {"finalize", "mark"} /\ run.status # "cancelling"
              /\ LET same == IF req[r].pc = "mark" THEN "awaiting_input" ELSE "cancelled"
                 IN  OnlyAnswer(r, IF run.status = same THEN "ok" ELSE "refused")
        /\ UNCHANGED <<lastCancel, proc, crashes>>

-----------------------------------------------------------------------------
(* apply_resume_command.  An active task of a cancellation in doubt, and   *)
(* one the user was asked about, is retried if that is safe or the user    *)
(* said so; else the user is asked once more.  Either way no claim is left.*)
(* Bound: an answer that requeues is explored while a revision is left.    *)
InDoubt == task.status \in {"running", "doubtful", "undecided"}
Safe == task.status # "undecided" /\ task.gate = "none"

(* Mutation of DecideAndRequeue: the answer is not a revision of its own.  *)
RequeueOnly(c, body) ==
    /\ UNCHANGED task /\ walk' = <<>>
    /\ run' = [run EXCEPT !.status = "queued"] /\ NewVersion
    /\ Record(c, body, "queued")

DecideAndRequeue(c, body) ==
    /\ walk' = <<>>
    /\ IF InDoubt /\ ~Safe /\ body # "decided"
       THEN /\ task' = [task EXCEPT !.status = "undecided"]
            /\ Record(c, body, "awaiting_input")
            /\ UNCHANGED <<run, seen>>
       ELSE /\ run.revision < MaxRevision
            /\ task' = IF InDoubt THEN [task EXCEPT !.status = "ready"] ELSE task
            /\ run' = [run EXCEPT !.status = "queued", !.revision = @ + 1] /\ NewVersion
            /\ Record(c, body, "queued")

(* Mutation of ApplyResume: only the look-up of the handler knows repeats. *)
ResumeWithoutReplay(r) ==
    /\ req[r].pc = "apply" /\ req[r].id \in ResumeIds
    /\ IF run.status # "awaiting_input" \/ Outdated(r) THEN OnlyAnswer(r, "refused")
       ELSE Pc(r, "enqueue") /\ DecideAndRequeue(req[r].id, req[r].body)
    /\ UNCHANGED <<lastCancel, proc, crashes>>

ApplyResume(r) ==
    /\ req[r].pc = "apply" /\ req[r].id \in ResumeIds
    /\ IF Recorded(r) THEN Replay(r)
       ELSE IF run.status # "awaiting_input" \/ Outdated(r) THEN OnlyAnswer(r, "refused")
       ELSE Pc(r, "enqueue") /\ DecideAndRequeue(req[r].id, req[r].body)
    /\ UNCHANGED <<lastCancel, proc, crashes>>

(* confirm_task: version and state are looked at before the command id.    *)
ApplyConfirm(r) ==
    /\ req[r].pc = "apply" /\ req[r].id \in ConfirmIds
    /\ IF Outdated(r) \/ run.status \in FinalRun \cup {"cancelling"} THEN OnlyAnswer(r, "refused")
       ELSE IF Recorded(r) THEN Replay(r)
       ELSE IF task.gate # "pending" THEN OnlyAnswer(r, "refused")
       ELSE /\ Pc(r, "enqueue")
            /\ task' = [status |-> IF task.status \in {"blocked", "undecided"} THEN "ready"
                                   ELSE task.status,
                        gate |-> "confirmed"]
            /\ Record(req[r].id, req[r].body, run.status)
            /\ NewVersion /\ UNCHANGED <<run, walk>>
    /\ UNCHANGED <<lastCancel, proc, crashes>>

(* enqueue_run after the transaction: resolve_task_inputs readies a blocked*)
(* task whose inputs are there, whatever else it is blocked for.           *)
Readied == IF task.status \in {"blocked", "undecided"} THEN [task EXCEPT !.status = "ready"] ELSE task

Enqueue(r) ==
    /\ req[r].pc = "enqueue"
    /\ task' = IF commands[req[r].id].status = "awaiting_input" /\ req[r].id \in ResumeIds
               THEN task ELSE Readied
    /\ Answer(r, "ok")
    /\ UNCHANGED <<run, walk, seen, commands, lastCancel, proc, crashes>>

Serve(r) ==
    \/ ApplyCancel(r) \/ Kill(r) \/ Conclude(r) \/ ApplyResume(r)
    \/ ApplyConfirm(r) \/ Enqueue(r)

-----------------------------------------------------------------------------
(* What else happens to the run, in short.                                 *)
Quiet == UNCHANGED <<commands, lastCancel, req, proc, crashes>>

(* Planning: a claim, also of an expired lease; what _plan_once makes of   *)
(* it: a plan for the newest input, a question, an error, or nothing when  *)
(* its process shuts down.                                                 *)
Plan ==
    /\ run.plan = 0
    /\ \/ run.status \in {"queued", "planning"} /\ To("planning") /\ UNCHANGED task
       \/ /\ run.status = "planning" /\ NewVersion
          /\ run' = [run EXCEPT !.status = "ready", !.plan = run.revision]
          /\ \E s \in {"ready", "blocked"}, g \in {"none", "pending"} :
                /\ g = "pending" => s = "blocked"
                /\ task' = [status |-> s, gate |-> g]
       \/ run.status = "planning" /\ UNCHANGED task
          /\ \E s \in {"awaiting_input", "failed"} : To(s)
       \/ run.status = "planning" /\ run' = [run EXCEPT !.status = "queued"] /\ UNCHANGED <<task, seen>>
    /\ Quiet /\ UNCHANGED walk

(* The worker's side of the task: enqueue_run, claim_next, the transitions *)
(* of _ensure_run_running, the end of the task with the run's, a recovery  *)
(* that asks the user.                                                     *)
TaskMove(from, to) == task.status = from /\ task' = [task EXCEPT !.status = to]

Work ==
    /\ \/ /\ run.status \notin FinalRun \cup {"cancelling"} /\ task.status # Readied.status
          /\ task' = Readied /\ UNCHANGED <<run, seen>>
       \/ /\ run.status \in {"queued", "planning", "ready", "running"}
          /\ TaskMove("ready", "running") /\ UNCHANGED <<run, seen>>
       \/ /\ task.status = "running" /\ UNCHANGED task
          /\ \/ run.status = "queued" /\ To("planning")
             \/ run.status = "planning" /\ To("ready")
             \/ run.status = "ready" /\ To("running")
       \/ run.status = "running" /\ TaskMove("running", "succeeded") /\ To("completed")
       \/ run.status = "running" /\ TaskMove("running", "failed") /\ To("failed")
       \/ run.status = "running" /\ task.gate # "none" /\ TaskMove("running", "blocked") /\ To("awaiting_input")
    /\ Quiet /\ UNCHANGED walk

(* Mutation of Others: the fence of the claim is all that is checked.      *)
WalkBlindly ==
    /\ \/ /\ walk = <<>> /\ run.plan # 0
          /\ walk' = WalkFrom(run.status) /\ UNCHANGED <<run, seen>>
       \/ /\ walk # <<>>
          /\ To(Head(walk)) /\ walk' = Tail(walk)
       \/ walk # <<>> /\ walk' = <<>> /\ UNCHANGED <<run, seen>>
    /\ UNCHANGED task /\ Quiet

(* A worker claims another task and reads where the run stands; it writes  *)
(* the statuses that were left then, each under the fence of its claim, as *)
(* long as they are legal; a status that is not is an error, and the claim *)
(* may be lost on the way.                                                 *)
Others ==
    /\ \/ /\ walk = <<>> /\ run.plan # 0
          /\ walk' = WalkFrom(run.status) /\ UNCHANGED <<run, seen>>
       \/ /\ walk # <<>> /\ run.status \in Over(Head(walk))
          /\ To(Head(walk)) /\ walk' = Tail(walk)
       \/ walk # <<>> /\ walk' = <<>> /\ UNCHANGED <<run, seen>>
    /\ UNCHANGED task /\ Quiet

-----------------------------------------------------------------------------
(* Processes.  start() runs recover_cancelling_runs before anything else.  *)
Goto(p, pc) == proc' = [proc EXCEPT ![p] = pc]

Boot(p) ==
    /\ proc[p] = "off"
    /\ Goto(p, IF run.status = "cancelling" THEN "boot" ELSE "up")
    /\ UNCHANGED <<run, task, walk, commands, lastCancel, seen, req, crashes>>

(* Mutation of RecoverCancelling: what was reserved stays reserved.        *)
RecoverNothing(p) ==
    /\ proc[p] = "boot" /\ Goto(p, "up")
    /\ UNCHANGED <<run, task, walk, commands, lastCancel, seen, req, crashes>>

RecoverCancelling(p) ==
    /\ \/ /\ proc[p] = "boot" /\ Terminate(Goto(p, "finalize"), Goto(p, "mark"))
          /\ UNCHANGED <<run, task, walk, seen, commands>>
       \/ /\ \/ proc[p] = "finalize" /\ FinalizeCancel(lastCancel)
             \/ proc[p] = "mark" /\ MarkCancelIndeterminate(lastCancel)
             \/ /\ proc[p] \in {"finalize", "mark"} /\ run.status # "cancelling"
                /\ UNCHANGED <<run, task, walk, seen, commands>>
          /\ Goto(p, "up")
    /\ UNCHANGED <<lastCancel, req, crashes>>

(* A crash takes the process's requests with it.                           *)
Crash(p) ==
    /\ proc[p] # "off" /\ crashes < MaxCrashes
    /\ Goto(p, "off") /\ crashes' = crashes + 1
    /\ req' = [r \in Requests |-> IF req[r].by = p THEN Silent("refused") ELSE req[r]]
    /\ UNCHANGED <<run, task, walk, commands, lastCancel, seen>>

Next ==
    \/ \E r \in Requests : Serve(r) \/ \E p \in Servers : Receive(r, p)
    \/ \E p \in Processes : Boot(p) \/ RecoverCancelling(p) \/ Crash(p)
    \/ Plan \/ Work \/ Others

(* Requests are served, and processes are started (again); nobody has to   *)
(* send anything, and the rest of the run may stand still.                 *)
Fairness ==
    /\ \A r \in Requests : WF_vars(Serve(r))
    /\ \A p \in Processes : WF_vars(Boot(p) \/ RecoverCancelling(p))

Spec == Init /\ [][Next]_vars /\ Fairness

-----------------------------------------------------------------------------
(* Of all resume commands that were sent, sent again or raced, each one    *)
(* that requeued the run made one input revision.                          *)
EveryAnswerIsARevision ==
    run.revision = 1 + Cardinality({c \in ResumeIds : commands[c].status = "queued"})

(* When a run is cancelled, nothing of it is left to execute: neither what *)
(* was idle when the cancellation was reserved nor what was active then.   *)
CancelledRunIsQuiet == run.status = "cancelled" => FinalTask

(* What a client is told when its request ends is so, however often the    *)
(* command was sent and whoever else acted on it.  A success: the command  *)
(* is recorded as it was sent; a cancel has ended the run or has asked the *)
(* user, and an approval stands.  A refusal: an answer that is recorded as *)
(* it was sent is never refused, and a cancel that is leaves nothing half  *)
(* done.                                                                   *)
AnswerIsTrue(r) ==
    LET c == req[r].id
        kept == commands'[c].status # "absent" /\ commands'[c].body = req[r].body
    IN  /\ req'[r].answer = "ok" =>
              /\ kept
              /\ c \in CancelIds => run'.status \in {"cancelled", "awaiting_input"}
              /\ c \in ConfirmIds => task'.gate = "confirmed"
        /\ req'[r].answer = "refused" /\ kept =>
              /\ c \notin ResumeIds
              /\ c \in CancelIds => run'.status # "cancelling"

AnswersAreTrue ==
    [][\A r \in Requests :
          req[r].pc # "silent" /\ req'[r].pc = "silent" /\ crashes' = crashes
          => AnswerIsTrue(r)]_vars

(* The run keeps the promise of RunLifecycle.                              *)
PhaseOf(s) ==
    CASE s \in {"queued", "planning"} -> "thinking"
      [] s = "awaiting_input" -> "asking"
      [] s \in {"ready", "running"} -> "working"
      [] s = "cancelling" -> "stopping"
      [] s \in FinalRun -> "over"

Lifecycle == INSTANCE RunLifecycle WITH
    MaxAnswers <- MaxRevision,
    phase <- PhaseOf(run.status),
    told <- run.revision,
    plan <- run.plan

KeepsPromise == Lifecycle!Promise

(* A cancellation is not left half done by the death of its server, nor by *)
(* two of them, or a recovery, that conclude it at once.                   *)
CancellingEnds == run.status = "cancelling" ~> run.status # "cancelling"
=============================================================================
