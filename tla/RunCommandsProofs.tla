-------------------------- MODULE RunCommandsProofs --------------------------
(***************************************************************************)
(* Machine-checked proofs about RunCommands, for any processes, requests   *)
(* and command ids and any number of answers and crashes: every answer is  *)
(* one revision, a cancelled run is quiet, what a client is told is so,    *)
(* and the run keeps the promise of RunLifecycle.                          *)
(***************************************************************************)
EXTENDS RunCommands, FiniteSetTheorems, TLAPS

Runs == [status : RunStatuses, revision : 1 .. MaxRevision, plan : 0 .. MaxRevision]
Tasks == [status : {"none", "blocked", "undecided", "ready", "running", "doubtful",
                    "succeeded", "failed", "cancelled"},
          gate : {"none", "pending", "confirmed"}]
Commands == [status : RunStatuses \cup {"absent"}, body : Bodies]
Seens == {"never", "current", "outdated"}
Pcs == {"silent", "apply", "kill", "finalize", "mark", "enqueue"}
Sent == [pc : Pcs, id : Ids \cup {"none"}, by : Servers \cup {NoProcess}, body : Bodies,
         answer : {"ok", "refused"}]
ProcStates == {"off", "boot", "finalize", "mark", "up"}

(* The run and its task.  A task belongs to a plan.                        *)
RowFits ==
    /\ run \in Runs /\ task \in Tasks /\ seen \in [Ids -> Seens]
    /\ task.status # "none" => run.plan # 0
    /\ CancelledRunIsQuiet

(* The commands.  Requeued are the answers that sent the run back to work. *)
Requeued == {c \in ResumeIds : commands[c].status = "queued"}

CommandsFit ==
    /\ commands \in [Ids -> Commands]
    /\ lastCancel \in CancelIds \cup {"none"}
    /\ run.status = "cancelling" => lastCancel \in CancelIds
    /\ IsFiniteSet(Requeued)
    /\ run.revision = 1 + Cardinality(Requeued)

(* A request under way is about a command, and has not been refused; only  *)
(* of a cancellation are children killed, and only a task can be in doubt. *)
RequestFits(r) ==
    /\ req[r].pc # "silent" => req[r].id \in Ids /\ req[r].answer = "ok"
    /\ req[r].pc \in {"kill", "finalize", "mark"} => req[r].id \in CancelIds
    /\ req[r].pc = "mark" => run.plan # 0

RequestsFit ==
    /\ req \in [Requests -> Sent]
    /\ \A r \in Requests : RequestFits(r)

ProcessesFit ==
    /\ proc \in [Processes -> ProcStates]
    /\ \A p \in Processes : proc[p] = "mark" => run.plan # 0
    /\ crashes \in 0 .. MaxCrashes

CommandsIInv == RowFits /\ CommandsFit /\ RequestsFit /\ ProcessesFit

(* Only a task of a plan is claimed.                                       *)
WalkFits == walk \in Walks /\ (walk # <<>> => run.plan # 0)

(* A request past its transaction has its command recorded as it was sent, *)
(* and an approval that is recorded stands.                                *)
KeptFits(r) ==
    /\ req[r].pc \in {"kill", "finalize", "mark", "enqueue"} => Recorded(r) /\ SameBody(r)
    /\ req[r].pc = "enqueue" => req[r].id \notin CancelIds

ApprovalsStand ==
    /\ \A c \in ConfirmIds : commands[c].status # "absent" => task.gate = "confirmed"
    /\ task.status = "none" => task.gate = "none"

AnswersFit == ApprovalsStand /\ \A r \in Requests : KeptFits(r)

-----------------------------------------------------------------------------
(* What the writes of the model's operators leave behind.                  *)
LEMMA NewVersionEffect ==
    ASSUME seen \in [Ids -> Seens], NewVersion
    PROVE  seen' \in [Ids -> Seens]
  BY DEF NewVersion, Seens

LEMMA ToEffect ==
    ASSUME run \in Runs, seen \in [Ids -> Seens], NEW s \in RunStatuses, To(s)
    PROVE  /\ run' \in Runs /\ seen' \in [Ids -> Seens]
           /\ run'.status = s /\ run'.revision = run.revision /\ run'.plan = run.plan
  BY NewVersionEffect DEF To, Runs

LEMMA CancelTaskEffect ==
    ASSUME task \in Tasks, CancelTask
    PROVE  /\ task' \in Tasks /\ FinalTask'
           /\ task'.status # "none" => task.status # "none"
  BY DEF CancelTask, FinalTask, Tasks

LEMMA RecordEffect ==
    ASSUME commands \in [Ids -> Commands], NEW c \in Ids, NEW b \in Bodies,
           NEW s \in RunStatuses, Record(c, b, s)
    PROVE  /\ commands' \in [Ids -> Commands]
           /\ commands'[c].status = s
           /\ \A d \in Ids \ {c} : commands'[d] = commands[d]
  BY DEF Record, Commands

LEMMA RespondEffect ==
    ASSUME commands \in [Ids -> Commands], NEW c \in Ids,
           NEW s \in RunStatuses, Respond(c, s)
    PROVE  /\ commands' \in [Ids -> Commands]
           /\ \A d \in Ids \ {c} : commands'[d] = commands[d]
  BY DEF Respond, Commands

LEMMA PcEffect ==
    ASSUME req \in [Requests -> Sent], NEW r \in Requests, NEW pc \in Pcs, Pc(r, pc)
    PROVE  /\ req' \in [Requests -> Sent]
           /\ req'[r].pc = pc /\ req'[r].id = req[r].id /\ req'[r].answer = req[r].answer
           /\ \A q \in Requests \ {r} : req'[q] = req[q]
  BY DEF Pc, Sent

LEMMA SilentFits ==
    ASSUME NEW a \in {"ok", "refused"}
    PROVE  Silent(a) \in Sent /\ Silent(a).pc = "silent" /\ Silent(a).answer = a
  BY DEF Silent, Sent, Pcs, Bodies

LEMMA AnswerEffect ==
    ASSUME req \in [Requests -> Sent], NEW r \in Requests, NEW a \in {"ok", "refused"},
           Answer(r, a)
    PROVE  /\ req' \in [Requests -> Sent]
           /\ req'[r].pc = "silent" /\ req'[r].answer = a
           /\ \A q \in Requests \ {r} : req'[q] = req[q]
  BY SilentFits DEF Answer

LEMMA GotoEffect ==
    ASSUME proc \in [Processes -> ProcStates], NEW p \in Processes, NEW pc \in ProcStates,
           Goto(p, pc)
    PROVE  /\ proc' \in [Processes -> ProcStates]
           /\ proc'[p] = pc /\ \A q \in Processes \ {p} : proc'[q] = proc[q]
  BY DEF Goto

LEMMA ReadiedTyped ==
    ASSUME task \in Tasks
    PROVE  /\ Readied \in Tasks
           /\ Readied.status # "none" => task.status # "none"
           /\ FinalTask => Readied = task
  BY DEF Readied, Tasks, FinalTask

-----------------------------------------------------------------------------
(* What keeps each part of the invariant.  A plan is never taken back.     *)
LEMMA CommandsFitKept ==
    ASSUME RowFits, CommandsFit, run' \in Runs, run'.revision = run.revision,
           commands' \in [Ids -> Commands],
           \A c \in ResumeIds : (commands'[c].status = "queued") <=> (commands[c].status = "queued"),
           lastCancel' \in CancelIds \cup {"none"},
           run'.status = "cancelling" => lastCancel' \in CancelIds
    PROVE  CommandsFit'
  <1>1. Requeued' = Requeued
    BY DEF Requeued
  <1> QED
    BY <1>1 DEF CommandsFit

LEMMA RequestKept ==
    ASSUME RequestsFit, run.plan # 0 => run'.plan # 0, NEW r \in Requests,
           req' \in [Requests -> Sent], RequestFits(r)',
           \A q \in Requests \ {r} : req'[q] = req[q]
    PROVE  RequestsFit'
  BY DEF RequestsFit, RequestFits

LEMMA RequestsKept ==
    ASSUME RequestsFit, run.plan # 0 => run'.plan # 0, UNCHANGED req
    PROVE  RequestsFit'
  BY DEF RequestsFit, RequestFits

LEMMA ProcessesKept ==
    ASSUME ProcessesFit, run.plan # 0 => run'.plan # 0, UNCHANGED <<proc, crashes>>
    PROVE  ProcessesFit'
  BY DEF ProcessesFit

LEMMA AnswerKeeps ==
    ASSUME RequestsFit, run.plan # 0 => run'.plan # 0, NEW r \in Requests,
           NEW a \in {"ok", "refused"}, Answer(r, a)
    PROVE  RequestsFit'
  <1>1. /\ req' \in [Requests -> Sent] /\ req'[r].pc = "silent"
        /\ \A q \in Requests \ {r} : req'[q] = req[q]
    BY AnswerEffect DEF RequestsFit
  <1>2. RequestFits(r)'
    BY <1>1 DEF RequestFits
  <1> QED
    BY <1>1, <1>2, RequestKept

(* A request goes on: it keeps its command and is not refused yet.         *)
LEMMA PcKeeps ==
    ASSUME RequestsFit, run.plan # 0 => run'.plan # 0, NEW r \in Requests,
           req[r].pc # "silent", NEW pc \in Pcs, Pc(r, pc),
           pc \in {"kill", "finalize", "mark"} => req[r].id \in CancelIds,
           pc = "mark" => run'.plan # 0
    PROVE  RequestsFit'
  <1>1. /\ req' \in [Requests -> Sent]
        /\ req'[r].pc = pc /\ req'[r].id = req[r].id /\ req'[r].answer = req[r].answer
        /\ \A q \in Requests \ {r} : req'[q] = req[q]
    BY PcEffect DEF RequestsFit
  <1>2. RequestFits(r)'
    BY <1>1 DEF RequestFits, RequestsFit
  <1> QED
    BY <1>1, <1>2, RequestKept

(* An answer that changes nothing else.                                    *)
LEMMA OnlyAnswerKeeps ==
    ASSUME CommandsIInv, NEW r \in Requests, NEW a \in {"ok", "refused"}, OnlyAnswer(r, a),
           UNCHANGED <<lastCancel, proc, crashes>>
    PROVE  CommandsIInv'
  <1>1. RowFits' /\ CommandsFit'
    BY DEF OnlyAnswer, CommandsIInv, RowFits, CommandsFit, Requeued, CancelledRunIsQuiet, FinalTask
  <1>2. RequestsFit'
    BY AnswerKeeps DEF OnlyAnswer, CommandsIInv
  <1>3. ProcessesFit'
    BY ProcessesKept DEF OnlyAnswer, CommandsIInv
  <1> QED
    BY <1>1, <1>2, <1>3 DEF CommandsIInv

(* A request goes on, and nothing else changes.                            *)
LEMMA OnlyPcKeeps ==
    ASSUME CommandsIInv, NEW r \in Requests, NEW pc \in Pcs, Pc(r, pc), req[r].pc # "silent",
           pc \in {"kill", "finalize", "mark"} => req[r].id \in CancelIds,
           pc = "mark" => run.plan # 0,
           UNCHANGED <<run, task, seen, commands, lastCancel, proc, crashes>>
    PROVE  CommandsIInv'
  <1>1. RowFits' /\ CommandsFit'
    BY DEF CommandsIInv, RowFits, CommandsFit, Requeued, CancelledRunIsQuiet, FinalTask
  <1>2. RequestsFit'
    BY PcKeeps DEF CommandsIInv
  <1>3. ProcessesFit'
    BY ProcessesKept DEF CommandsIInv
  <1> QED
    BY <1>1, <1>2, <1>3 DEF CommandsIInv

(* A repeat goes the way of the first one, or is refused.                  *)
LEMMA ReplayKeeps ==
    ASSUME CommandsIInv, NEW r \in Requests, Replay(r), req[r].pc # "silent",
           UNCHANGED <<lastCancel, proc, crashes>>
    PROVE  CommandsIInv'
  BY OnlyPcKeeps, OnlyAnswerKeeps DEF Replay, Pcs

-----------------------------------------------------------------------------
(* Requests.                                                               *)
LEMMA ReceiveKeeps ==
    ASSUME CommandsIInv, NEW r \in Requests, NEW p \in Servers, Receive(r, p)
    PROVE  CommandsIInv'
  <1>1. PICK c \in Ids, b \in Bodies \ {"none"}, pc \in {"apply", "kill"} :
           /\ seen' = IF b = "checked" /\ seen[c] = "never" THEN [seen EXCEPT ![c] = "current"] ELSE seen
           /\ pc = "kill" => c \in CancelIds
           /\ req' = [req EXCEPT ![r] = [pc |-> pc, id |-> c, by |-> p, body |-> b, answer |-> "ok"]]
    BY DEF Receive
  <1>2. seen' \in [Ids -> Seens]
    BY <1>1 DEF CommandsIInv, RowFits, Seens
  <1>3. RowFits'
    BY <1>2 DEF Receive, CommandsIInv, RowFits, CancelledRunIsQuiet, FinalTask
  <1>4. CommandsFit'
    BY DEF Receive, CommandsIInv, CommandsFit, Requeued
  <1>5. [pc |-> pc, id |-> c, by |-> p, body |-> b, answer |-> "ok"] \in Sent
    BY <1>1 DEF Sent, Pcs
  <1>6. RequestFits(r)'
    BY <1>1, <1>5 DEF CommandsIInv, RequestsFit, RequestFits
  <1>7. req' \in [Requests -> Sent] /\ \A q \in Requests \ {r} : req'[q] = req[q]
    BY <1>1, <1>5 DEF CommandsIInv, RequestsFit
  <1>8. RequestsFit'
    BY <1>6, <1>7, RequestKept DEF Receive, CommandsIInv
  <1>9. ProcessesFit'
    BY ProcessesKept DEF Receive, CommandsIInv
  <1> QED
    BY <1>3, <1>4, <1>8, <1>9 DEF CommandsIInv

LEMMA ReserveCancelKeeps ==
    ASSUME RowFits, CommandsFit, NEW c \in CancelIds, NEW b \in Bodies, ReserveCancel(c, b)
    PROVE  RowFits' /\ CommandsFit' /\ run'.plan = run.plan
  <1>1. c \in Ids /\ c \notin ResumeIds
    BY CommandsAssumption DEF Ids
  <1>2. run.status \in RunStatuses /\ "cancelling" \in RunStatuses
    BY DEF RowFits, Runs, RunStatuses
  <1>3. CASE run.status \in FinalRun
    <2>1. UNCHANGED <<run, task, seen>> /\ Record(c, b, run.status) /\ lastCancel' = c
      BY <1>3 DEF ReserveCancel
    <2>2. RowFits'
      BY <2>1 DEF RowFits, CancelledRunIsQuiet, FinalTask
    <2>3. CommandsFit'
      BY <1>1, <1>2, <2>1, RecordEffect, CommandsFitKept DEF RowFits, CommandsFit, Ids
    <2> QED
      BY <2>1, <2>2, <2>3
  <1>4. CASE run.status \notin FinalRun
    <2>1. Record(c, b, "cancelling") /\ lastCancel' = c
      BY <1>4 DEF ReserveCancel
    <2>2. /\ run' \in Runs /\ seen' \in [Ids -> Seens]
          /\ run'.status = "cancelling" /\ run'.revision = run.revision /\ run'.plan = run.plan
      BY <1>2, <1>4, ToEffect DEF ReserveCancel, RowFits
    <2>3. task' \in Tasks /\ (task'.status # "none" => task.status # "none")
      BY <1>4, CancelTaskEffect DEF ReserveCancel, RowFits
    <2>4. RowFits'
      BY <2>2, <2>3 DEF RowFits, CancelledRunIsQuiet
    <2>5. CommandsFit'
      BY <1>1, <1>2, <2>1, <2>2, RecordEffect, CommandsFitKept DEF CommandsFit, Ids
    <2> QED
      BY <2>2, <2>4, <2>5
  <1> QED
    BY <1>3, <1>4

LEMMA ApplyCancelKeeps ==
    ASSUME CommandsIInv, NEW r \in Requests, ApplyCancel(r)
    PROVE  CommandsIInv'
  <1>1. CASE Pc(r, "kill") /\ UNCHANGED <<run, task, seen, commands, lastCancel>>
    BY <1>1, OnlyPcKeeps DEF ApplyCancel, Pcs
  <1>2. CASE OnlyAnswer(r, "refused") /\ UNCHANGED lastCancel
    BY <1>2, OnlyAnswerKeeps DEF ApplyCancel
  <1>3. CASE Pc(r, "kill") /\ ReserveCancel(req[r].id, req[r].body)
    <2>1. req[r].body \in Bodies /\ req[r].id \in CancelIds /\ req[r].pc = "apply"
      BY DEF ApplyCancel, CommandsIInv, RequestsFit, Sent
    <2>2. RowFits' /\ CommandsFit' /\ run'.plan = run.plan
      BY <1>3, <2>1, ReserveCancelKeeps DEF CommandsIInv
    <2>3. RequestsFit'
      BY <1>3, <2>1, <2>2, PcKeeps DEF CommandsIInv, Pcs
    <2>4. ProcessesFit'
      BY <2>2, ProcessesKept DEF ApplyCancel, CommandsIInv
    <2> QED
      BY <2>2, <2>3, <2>4 DEF CommandsIInv
  <1> QED
    BY <1>1, <1>2, <1>3 DEF ApplyCancel

LEMMA KillKeeps ==
    ASSUME CommandsIInv, NEW r \in Requests, Kill(r)
    PROVE  CommandsIInv'
  <1>1. req[r].id \in CancelIds /\ req[r].pc # "silent"
    BY DEF Kill, CommandsIInv, RequestsFit, RequestFits
  <1> QED
    BY <1>1, OnlyPcKeeps DEF Kill, Terminate, Pcs

(* The two conclusions of a cancellation, of a request or of a recovery.   *)
LEMMA FinalizeCancelKeeps ==
    ASSUME RowFits, CommandsFit, NEW c \in CancelIds, FinalizeCancel(c), UNCHANGED lastCancel
    PROVE  RowFits' /\ CommandsFit' /\ run'.plan = run.plan
  <1>1. c \in Ids /\ c \notin ResumeIds
    BY CommandsAssumption DEF Ids
  <1>2. /\ run' \in Runs /\ seen' \in [Ids -> Seens]
        /\ run'.status = "cancelled" /\ run'.revision = run.revision /\ run'.plan = run.plan
    BY ToEffect DEF FinalizeCancel, RowFits, RunStatuses
  <1>3. /\ task' \in Tasks /\ FinalTask' /\ (task'.status # "none" => task.status # "none")
    BY CancelTaskEffect DEF FinalizeCancel, RowFits
  <1>4. RowFits'
    BY <1>2, <1>3 DEF RowFits, CancelledRunIsQuiet
  <1>5. /\ commands' \in [Ids -> Commands]
        /\ \A d \in Ids \ {c} : commands'[d] = commands[d]
    BY <1>1, RespondEffect DEF FinalizeCancel, CommandsFit, RunStatuses
  <1>6. CommandsFit'
    BY <1>1, <1>2, <1>5, CommandsFitKept DEF CommandsFit, Ids
  <1> QED
    BY <1>2, <1>4, <1>6

LEMMA MarkCancelIndeterminateKeeps ==
    ASSUME RowFits, CommandsFit, NEW c \in CancelIds, MarkCancelIndeterminate(c),
           UNCHANGED lastCancel
    PROVE  RowFits' /\ CommandsFit' /\ run'.plan = run.plan
  <1>1. c \in Ids /\ c \notin ResumeIds
    BY CommandsAssumption DEF Ids
  <1>2. /\ run' \in Runs /\ seen' \in [Ids -> Seens]
        /\ run'.status = "awaiting_input"
        /\ run'.revision = run.revision /\ run'.plan = run.plan
    BY ToEffect DEF MarkCancelIndeterminate, RowFits, RunStatuses
  <1>3. task' \in Tasks /\ (task'.status # "none" => task.status # "none")
    BY DEF MarkCancelIndeterminate, RowFits, Active, Tasks
  <1>4. RowFits'
    BY <1>2, <1>3 DEF RowFits, CancelledRunIsQuiet
  <1>5. /\ commands' \in [Ids -> Commands]
        /\ \A d \in Ids \ {c} : commands'[d] = commands[d]
    BY <1>1, RespondEffect DEF MarkCancelIndeterminate, CommandsFit, RunStatuses
  <1>6. CommandsFit'
    BY <1>1, <1>2, <1>5, CommandsFitKept DEF CommandsFit, Ids
  <1> QED
    BY <1>2, <1>4, <1>6

LEMMA ConcludeKeeps ==
    ASSUME CommandsIInv, NEW r \in Requests, Conclude(r)
    PROVE  CommandsIInv'
  <1>1. req[r].id \in CancelIds
    BY DEF Conclude, CommandsIInv, RequestsFit, RequestFits
  <1>2. CASE FinalizeCancel(req[r].id) /\ Answer(r, "ok")
    <2>1. RowFits' /\ CommandsFit' /\ run'.plan = run.plan
      BY <1>1, <1>2, FinalizeCancelKeeps DEF Conclude, CommandsIInv
    <2> QED
      BY <1>2, <2>1, AnswerKeeps, ProcessesKept DEF Conclude, CommandsIInv
  <1>3. CASE MarkCancelIndeterminate(req[r].id) /\ Answer(r, "ok")
    <2>1. RowFits' /\ CommandsFit' /\ run'.plan = run.plan
      BY <1>1, <1>3, MarkCancelIndeterminateKeeps DEF Conclude, CommandsIInv
    <2> QED
      BY <1>3, <2>1, AnswerKeeps, ProcessesKept DEF Conclude, CommandsIInv
  <1>4. CASE OnlyAnswer(r, "ok") \/ OnlyAnswer(r, "refused")
    BY <1>4, OnlyAnswerKeeps DEF Conclude
  <1> QED
    BY <1>2, <1>3, <1>4 DEF Conclude

(* An answer to a question: asked once more, or a revision of its own.     *)
LEMMA DecideAndRequeueKeeps ==
    ASSUME RowFits, CommandsFit, NEW c \in ResumeIds, NEW b \in Bodies,
           commands[c].status = "absent", run.status = "awaiting_input",
           DecideAndRequeue(c, b), UNCHANGED lastCancel
    PROVE  RowFits' /\ CommandsFit' /\ run'.plan = run.plan
  <1>1. c \in Ids
    BY DEF Ids
  <1>2. CASE InDoubt /\ ~Safe /\ b # "decided"
    <2>1. /\ task' = [task EXCEPT !.status = "undecided"]
          /\ Record(c, b, "awaiting_input") /\ UNCHANGED <<run, seen>>
      BY <1>2 DEF DecideAndRequeue
    <2>2. task' \in Tasks /\ (task'.status # "none" => task.status # "none")
      BY <1>2, <2>1 DEF RowFits, Tasks, InDoubt
    <2>3. RowFits'
      BY <2>1, <2>2 DEF RowFits, CancelledRunIsQuiet
    <2>4. /\ commands' \in [Ids -> Commands] /\ commands'[c].status = "awaiting_input"
          /\ \A d \in Ids \ {c} : commands'[d] = commands[d]
      BY <1>1, <2>1, RecordEffect DEF CommandsFit, RunStatuses
    <2>5. \A d \in ResumeIds :
             (commands'[d].status = "queued") <=> (commands[d].status = "queued")
      BY <1>1, <2>4 DEF Ids
    <2>6. CommandsFit'
      BY <2>1, <2>4, <2>5, CommandsFitKept DEF RowFits, CommandsFit
    <2> QED
      BY <2>1, <2>3, <2>6
  <1>3. CASE ~(InDoubt /\ ~Safe /\ b # "decided")
    <2>1. /\ run.revision < MaxRevision
          /\ task' = IF InDoubt THEN [task EXCEPT !.status = "ready"] ELSE task
          /\ run' = [run EXCEPT !.status = "queued", !.revision = @ + 1] /\ NewVersion
          /\ Record(c, b, "queued")
      BY <1>3 DEF DecideAndRequeue
    <2>2. task' \in Tasks /\ (task'.status # "none" => task.status # "none")
      BY <2>1 DEF RowFits, Tasks, InDoubt
    <2>3. run.revision + 1 \in 1 .. MaxRevision
      BY <2>1, CommandsAssumption DEF RowFits, Runs
    <2>4. /\ run' \in Runs /\ run'.status = "queued"
          /\ run'.revision = run.revision + 1 /\ run'.plan = run.plan
      BY <2>1, <2>3 DEF RowFits, Runs, RunStatuses
    <2>5. seen' \in [Ids -> Seens]
      BY <2>1, NewVersionEffect DEF RowFits
    <2>6. RowFits'
      BY <2>2, <2>4, <2>5 DEF RowFits, CancelledRunIsQuiet
    <2>7. /\ commands' \in [Ids -> Commands] /\ commands'[c].status = "queued"
          /\ \A d \in Ids \ {c} : commands'[d] = commands[d]
      BY <1>1, <2>1, RecordEffect DEF CommandsFit, RunStatuses
    <2>8. Requeued' = Requeued \cup {c} /\ c \notin Requeued
      BY <2>7 DEF Requeued, Ids
    <2>9. IsFiniteSet(Requeued') /\ Cardinality(Requeued') = Cardinality(Requeued) + 1
          /\ Cardinality(Requeued) \in Nat
      BY <2>8, FS_AddElement, FS_CardinalityType DEF CommandsFit
    <2>10. CommandsFit'
      BY <2>4, <2>7, <2>9 DEF CommandsFit
    <2> QED
      BY <2>4, <2>6, <2>10
  <1> QED
    BY <1>2, <1>3

LEMMA ApplyResumeKeeps ==
    ASSUME CommandsIInv, NEW r \in Requests, ApplyResume(r)
    PROVE  CommandsIInv'
  <1>0. CASE Replay(r)
    BY <1>0, ReplayKeeps DEF ApplyResume
  <1>1. CASE OnlyAnswer(r, "refused")
    BY <1>1, OnlyAnswerKeeps DEF ApplyResume
  <1>2. CASE /\ ~Recorded(r) /\ run.status = "awaiting_input"
             /\ Pc(r, "enqueue") /\ DecideAndRequeue(req[r].id, req[r].body)
    <2>1. req[r].body \in Bodies /\ req[r].id \in ResumeIds
      BY DEF ApplyResume, CommandsIInv, RequestsFit, Sent
    <2>2. RowFits' /\ CommandsFit' /\ run'.plan = run.plan
      BY <1>2, <2>1, DecideAndRequeueKeeps DEF ApplyResume, CommandsIInv, Recorded
    <2>3. RequestsFit'
      BY <1>2, <2>2, PcKeeps DEF ApplyResume, CommandsIInv, Pcs
    <2>4. ProcessesFit'
      BY <2>2, ProcessesKept DEF ApplyResume, CommandsIInv
    <2> QED
      BY <2>2, <2>3, <2>4 DEF CommandsIInv
  <1> QED
    BY <1>0, <1>1, <1>2 DEF ApplyResume

LEMMA ApplyConfirmKeeps ==
    ASSUME CommandsIInv, NEW r \in Requests, ApplyConfirm(r)
    PROVE  CommandsIInv'
  <1>0. CASE Replay(r)
    BY <1>0, ReplayKeeps DEF ApplyConfirm
  <1>1. CASE OnlyAnswer(r, "refused")
    BY <1>1, OnlyAnswerKeeps DEF ApplyConfirm
  <1>2. CASE ~Replay(r) /\ ~OnlyAnswer(r, "refused")
    <2>1. /\ run.status \notin FinalRun \cup {"cancelling"} /\ task.gate = "pending"
          /\ Pc(r, "enqueue") /\ UNCHANGED run /\ NewVersion
          /\ task' = [status |-> IF task.status \in {"blocked", "undecided"} THEN "ready"
                                 ELSE task.status,
                      gate |-> "confirmed"]
          /\ Record(req[r].id, req[r].body, run.status)
      BY <1>2 DEF ApplyConfirm
    <2>2. req[r].body \in Bodies /\ req[r].id \in Ids /\ req[r].id \notin ResumeIds
          /\ req[r].pc = "apply"
      BY CommandsAssumption DEF ApplyConfirm, CommandsIInv, RequestsFit, Sent, Ids
    <2>3. task' \in Tasks /\ (task'.status # "none" => task.status # "none")
      BY <2>1 DEF CommandsIInv, RowFits, Tasks
    <2>4. seen' \in [Ids -> Seens]
      BY <2>1, NewVersionEffect DEF CommandsIInv, RowFits
    <2>5. RowFits'
      BY <2>1, <2>3, <2>4 DEF CommandsIInv, RowFits, CancelledRunIsQuiet, FinalRun
    <2>6. /\ commands' \in [Ids -> Commands]
          /\ \A d \in Ids \ {req[r].id} : commands'[d] = commands[d]
      BY <2>1, <2>2, RecordEffect DEF CommandsIInv, CommandsFit, RowFits, Runs
    <2>7. CommandsFit'
      BY <2>1, <2>2, <2>6, CommandsFitKept
         DEF ApplyConfirm, CommandsIInv, CommandsFit, RowFits, Ids
    <2>8. RequestsFit'
      BY <2>1, <2>2, PcKeeps DEF CommandsIInv, Pcs
    <2>9. ProcessesFit'
      BY <2>1, ProcessesKept DEF ApplyConfirm, CommandsIInv
    <2> QED
      BY <2>5, <2>7, <2>8, <2>9 DEF CommandsIInv
  <1> QED
    BY <1>0, <1>1, <1>2

LEMMA EnqueueKeeps ==
    ASSUME CommandsIInv, NEW r \in Requests, Enqueue(r)
    PROVE  CommandsIInv'
  <1>1. task' = task \/ task' = Readied
    BY DEF Enqueue
  <1>2. /\ task' \in Tasks /\ (task'.status # "none" => task.status # "none")
        /\ FinalTask => task' = task
    BY <1>1, ReadiedTyped DEF CommandsIInv, RowFits
  <1>3. RowFits'
    BY <1>2 DEF Enqueue, CommandsIInv, RowFits, CancelledRunIsQuiet, FinalTask
  <1>4. CommandsFit'
    BY DEF Enqueue, CommandsIInv, CommandsFit, Requeued
  <1>5. RequestsFit' /\ ProcessesFit'
    BY AnswerKeeps, ProcessesKept DEF Enqueue, CommandsIInv
  <1> QED
    BY <1>3, <1>4, <1>5 DEF CommandsIInv

-----------------------------------------------------------------------------
(* What else happens to the run, and processes.                            *)
LEMMA QuietKeeps ==
    ASSUME CommandsIInv, Quiet, RowFits', run'.revision = run.revision,
           run.plan # 0 => run'.plan # 0,
           run'.status = "cancelling" => run.status = "cancelling"
    PROVE  CommandsIInv'
  <1>1. CommandsFit'
    BY DEF Quiet, CommandsIInv, CommandsFit, Requeued
  <1>2. RequestsFit' /\ ProcessesFit'
    BY RequestsKept, ProcessesKept DEF Quiet, CommandsIInv
  <1> QED
    BY <1>1, <1>2 DEF CommandsIInv

LEMMA PlanKeeps ==
    ASSUME CommandsIInv, Plan
    PROVE  CommandsIInv'
  <1>1. Quiet /\ run \in Runs /\ task \in Tasks /\ seen \in [Ids -> Seens]
    BY DEF Plan, CommandsIInv, RowFits
  <1>2. ASSUME NEW s \in {"planning", "awaiting_input", "failed"}, To(s), UNCHANGED task
        PROVE  CommandsIInv'
    <2>1. /\ run' \in Runs /\ seen' \in [Ids -> Seens]
          /\ run'.status = s /\ run'.revision = run.revision /\ run'.plan = run.plan
      BY <1>1, <1>2, ToEffect DEF RunStatuses
    <2>2. RowFits'
      BY <1>2, <2>1 DEF CommandsIInv, RowFits, CancelledRunIsQuiet
    <2> QED
      BY <1>1, <2>1, <2>2, QuietKeeps
  <1>3. ASSUME NewVersion, run' = [run EXCEPT !.status = "ready", !.plan = run.revision],
               \E s \in {"ready", "blocked"}, g \in {"none", "pending"} :
                  task' = [status |-> s, gate |-> g]
        PROVE  CommandsIInv'
    <2>1. run.revision \in 0 .. MaxRevision /\ run.revision # 0
      BY <1>1, CommandsAssumption DEF Runs
    <2>2. /\ run' \in Runs /\ run'.status = "ready" /\ run'.revision = run.revision
          /\ run'.plan # 0
      BY <1>1, <1>3, <2>1 DEF Runs, RunStatuses
    <2>3. task' \in Tasks /\ seen' \in [Ids -> Seens]
      BY <1>1, <1>3, NewVersionEffect DEF Tasks
    <2>4. RowFits'
      BY <2>2, <2>3 DEF RowFits, CancelledRunIsQuiet
    <2> QED
      BY <1>1, <2>2, <2>4, QuietKeeps
  <1>4. ASSUME run' = [run EXCEPT !.status = "queued"], UNCHANGED <<task, seen>>
        PROVE  CommandsIInv'
    <2>1. /\ run' \in Runs /\ run'.status = "queued"
          /\ run'.revision = run.revision /\ run'.plan = run.plan
      BY <1>1, <1>4 DEF Runs, RunStatuses
    <2>2. RowFits'
      BY <1>4, <2>1 DEF CommandsIInv, RowFits, CancelledRunIsQuiet
    <2> QED
      BY <1>1, <2>1, <2>2, QuietKeeps
  <1> QED
    BY <1>2, <1>3, <1>4 DEF Plan

LEMMA WorkKeeps ==
    ASSUME CommandsIInv, Work
    PROVE  CommandsIInv'
  <1>1. Quiet /\ run \in Runs /\ task \in Tasks /\ seen \in [Ids -> Seens]
    BY DEF Work, CommandsIInv, RowFits
  <1>2. ASSUME run.status \notin FinalRun, task' = Readied, UNCHANGED <<run, seen>>
        PROVE  CommandsIInv'
    <2>1. task' \in Tasks /\ (task'.status # "none" => task.status # "none")
      BY <1>1, <1>2, ReadiedTyped
    <2>2. RowFits'
      BY <1>2, <2>1 DEF CommandsIInv, RowFits, CancelledRunIsQuiet, FinalRun
    <2> QED
      BY <1>1, <1>2, <2>2, QuietKeeps
  <1>3. ASSUME run.status \in {"queued", "planning", "ready", "running"},
               TaskMove("ready", "running"), UNCHANGED <<run, seen>>
        PROVE  CommandsIInv'
    <2>1. task' \in Tasks /\ task.status # "none"
      BY <1>1, <1>3 DEF TaskMove, Tasks
    <2>2. RowFits'
      BY <1>3, <2>1 DEF CommandsIInv, RowFits, CancelledRunIsQuiet
    <2> QED
      BY <1>1, <1>3, <2>2, QuietKeeps
  <1>4. ASSUME NEW s \in {"planning", "ready", "running", "completed", "failed", "awaiting_input"},
               To(s), task.status = "running",
               \/ UNCHANGED task
               \/ \E t \in {"succeeded", "failed", "blocked"} : TaskMove("running", t)
        PROVE  CommandsIInv'
    <2>1. /\ run' \in Runs /\ seen' \in [Ids -> Seens]
          /\ run'.status = s /\ run'.revision = run.revision /\ run'.plan = run.plan
      BY <1>1, <1>4, ToEffect DEF RunStatuses
    <2>2. task' \in Tasks
      BY <1>1, <1>4 DEF TaskMove, Tasks
    <2>3. RowFits'
      BY <1>4, <2>1, <2>2 DEF CommandsIInv, RowFits, CancelledRunIsQuiet
    <2> QED
      BY <1>1, <2>1, <2>3, QuietKeeps
  <1> QED
    BY <1>2, <1>3, <1>4 DEF Work, TaskMove

LEMMA WalkValues ==
    ASSUME WalkFits, walk # <<>>
    PROVE  /\ run.plan # 0
           /\ Head(walk) \in {"planning", "ready", "running"} /\ Tail(walk) \in Walks
  <1>1. walk \in {<<"planning", "ready", "running">>, <<"ready", "running">>, <<"running">>}
    BY DEF WalkFits, Walks, WalkFrom
  <1>2. {<<"ready", "running">>, <<"running">>, <<>>} \subseteq Walks
    <2>1. /\ WalkFrom("planning") = <<"ready", "running">> /\ WalkFrom("ready") = <<"running">>
          /\ WalkFrom("running") = <<>>
      BY DEF WalkFrom
    <2> QED
      BY <2>1 DEF Walks, RunStatuses
  <1>3. CASE walk = <<"planning", "ready", "running">>
    BY <1>2, <1>3 DEF WalkFits
  <1>4. CASE walk = <<"ready", "running">>
    BY <1>2, <1>4 DEF WalkFits
  <1>5. CASE walk = <<"running">>
    BY <1>2, <1>5 DEF WalkFits
  <1> QED
    BY <1>1, <1>3, <1>4, <1>5

LEMMA OthersKeeps ==
    ASSUME CommandsIInv, WalkFits, Others
    PROVE  CommandsIInv'
  <1>1. CASE UNCHANGED <<run, seen>>
    <2>1. RowFits'
      BY <1>1 DEF Others, CommandsIInv, RowFits, CancelledRunIsQuiet, FinalTask
    <2> QED
      BY <1>1, <2>1, QuietKeeps DEF Others
  <1>2. ASSUME NEW s \in {"planning", "ready", "running"}, To(s), UNCHANGED task
        PROVE  CommandsIInv'
    <2>1. /\ run' \in Runs /\ seen' \in [Ids -> Seens]
          /\ run'.status = s /\ run'.revision = run.revision /\ run'.plan = run.plan
      BY <1>2, ToEffect DEF CommandsIInv, RowFits, RunStatuses
    <2>2. RowFits'
      BY <1>2, <2>1 DEF CommandsIInv, RowFits, CancelledRunIsQuiet
    <2> QED
      BY <2>1, <2>2, QuietKeeps DEF Others
  <1>3. CASE walk # <<>> /\ run.status \in Over(Head(walk)) /\ To(Head(walk))
    <2>1. Head(walk) \in {"planning", "ready", "running"}
      BY <1>3, WalkValues
    <2> QED
      BY <1>2, <1>3, <2>1 DEF Others
  <1> QED
    BY <1>1, <1>3 DEF Others

LEMMA ProcessKept ==
    ASSUME ProcessesFit, run.plan # 0 => run'.plan # 0, NEW p \in Processes,
           NEW pc \in ProcStates, Goto(p, pc), pc = "mark" => run'.plan # 0,
           crashes' \in 0 .. MaxCrashes
    PROVE  ProcessesFit'
  BY GotoEffect DEF ProcessesFit

LEMMA BootKeeps ==
    ASSUME CommandsIInv, NEW p \in Processes, Boot(p)
    PROVE  CommandsIInv'
  <1>1. RowFits' /\ CommandsFit'
    BY DEF Boot, CommandsIInv, RowFits, CommandsFit, Requeued, CancelledRunIsQuiet, FinalTask
  <1>2. RequestsFit'
    BY RequestsKept DEF Boot, CommandsIInv
  <1>3. ProcessesFit'
    <2>1. CASE run.status = "cancelling"
      BY <2>1, ProcessKept DEF Boot, CommandsIInv, ProcessesFit, ProcStates
    <2>2. CASE run.status # "cancelling"
      BY <2>2, ProcessKept DEF Boot, CommandsIInv, ProcessesFit, ProcStates
    <2> QED
      BY <2>1, <2>2
  <1> QED
    BY <1>1, <1>2, <1>3 DEF CommandsIInv

LEMMA RecoverCancellingKeeps ==
    ASSUME CommandsIInv, NEW p \in Processes, RecoverCancelling(p)
    PROVE  CommandsIInv'
  <1>1. CASE UNCHANGED <<run, task, seen, commands>>
    <2>1. RowFits' /\ CommandsFit'
      BY <1>1 DEF RecoverCancelling, CommandsIInv, RowFits, CommandsFit, Requeued,
         CancelledRunIsQuiet, FinalTask
    <2>3. RequestsFit'
      BY <1>1, RequestsKept DEF RecoverCancelling, CommandsIInv
    <2>4. crashes' \in 0 .. MaxCrashes /\ run' = run
      BY <1>1 DEF RecoverCancelling, CommandsIInv, ProcessesFit
    <2>5. \E pc \in ProcStates : Goto(p, pc) /\ (pc = "mark" => run.plan # 0)
      BY DEF RecoverCancelling, Terminate, ProcStates
    <2>6. ProcessesFit'
      BY <2>4, <2>5, ProcessKept DEF CommandsIInv
    <2> QED
      BY <2>1, <2>3, <2>6 DEF CommandsIInv
  <1>2. CASE FinalizeCancel(lastCancel) \/ MarkCancelIndeterminate(lastCancel)
    <2>1. lastCancel \in CancelIds
      BY <1>2 DEF FinalizeCancel, MarkCancelIndeterminate, CommandsIInv, CommandsFit
    <2>2. RowFits' /\ CommandsFit' /\ run'.plan = run.plan
      BY <1>2, <2>1, FinalizeCancelKeeps, MarkCancelIndeterminateKeeps
         DEF RecoverCancelling, CommandsIInv
    <2>3. RequestsFit'
      BY <2>2, RequestsKept DEF RecoverCancelling, CommandsIInv
    <2>4. Goto(p, "up") /\ crashes' \in 0 .. MaxCrashes
      <3>1. run' # run
        BY <1>2, <2>2, <2>1, ToEffect DEF FinalizeCancel, MarkCancelIndeterminate, CommandsIInv,
           RowFits, RunStatuses
      <3> QED
        BY <3>1 DEF RecoverCancelling, CommandsIInv, ProcessesFit
    <2>5. ProcessesFit'
      BY <2>2, <2>4, ProcessKept DEF CommandsIInv, ProcStates
    <2> QED
      BY <2>2, <2>3, <2>5 DEF CommandsIInv
  <1> QED
    BY <1>1, <1>2 DEF RecoverCancelling

LEMMA CrashKeeps ==
    ASSUME CommandsIInv, NEW p \in Processes, Crash(p)
    PROVE  CommandsIInv'
  <1>1. RowFits' /\ CommandsFit'
    BY DEF Crash, CommandsIInv, RowFits, CommandsFit, Requeued, CancelledRunIsQuiet, FinalTask
  <1>2. req' \in [Requests -> Sent]
    BY SilentFits DEF Crash, CommandsIInv, RequestsFit
  <1>3. \A r \in Requests : req'[r] = req[r] \/ req'[r].pc = "silent"
    BY SilentFits DEF Crash
  <1>4. RequestsFit'
    BY <1>2, <1>3 DEF Crash, CommandsIInv, RequestsFit, RequestFits
  <1>5. crashes' \in 0 .. MaxCrashes
    BY CommandsAssumption DEF Crash, CommandsIInv, ProcessesFit
  <1>6. ProcessesFit'
    BY <1>5, ProcessKept DEF Crash, CommandsIInv, ProcStates
  <1> QED
    BY <1>1, <1>4, <1>6 DEF CommandsIInv

-----------------------------------------------------------------------------
LEMMA CommandsIInvInit == Init => CommandsIInv
  <1> SUFFICES ASSUME Init
               PROVE  CommandsIInv
    OBVIOUS
  <1>1. RowFits
    BY CommandsAssumption DEF Init, RowFits, Runs, Tasks, Seens, RunStatuses, CancelledRunIsQuiet
  <1>2. Requeued = {}
    BY DEF Init, Requeued, Absent, Ids
  <1>3. CommandsFit
    BY <1>2, FS_EmptySet DEF Init, CommandsFit, Commands, Absent, Bodies
  <1>4. RequestsFit
    BY SilentFits DEF Init, RequestsFit, RequestFits
  <1>5. ProcessesFit
    BY CommandsAssumption DEF Init, ProcessesFit, ProcStates
  <1> QED
    BY <1>1, <1>3, <1>4, <1>5 DEF CommandsIInv

LEMMA CommandsIInvStep == CommandsIInv /\ WalkFits /\ [Next]_vars => CommandsIInv'
  <1> SUFFICES ASSUME CommandsIInv, WalkFits, [Next]_vars
               PROVE  CommandsIInv'
    OBVIOUS
  <1>1. ASSUME NEW r \in Requests, Serve(r) \/ \E p \in Servers : Receive(r, p)
        PROVE  CommandsIInv'
    BY <1>1, ApplyCancelKeeps, KillKeeps, ConcludeKeeps, ApplyResumeKeeps, ApplyConfirmKeeps,
       EnqueueKeeps, ReceiveKeeps DEF Serve
  <1>2. ASSUME NEW p \in Processes, Boot(p) \/ RecoverCancelling(p) \/ Crash(p)
        PROVE  CommandsIInv'
    BY <1>2, BootKeeps, RecoverCancellingKeeps, CrashKeeps
  <1>3. CASE Plan \/ Work \/ Others
    BY <1>3, PlanKeeps, WorkKeeps, OthersKeeps
  <1>4. CASE UNCHANGED vars
    BY <1>4 DEF vars, CommandsIInv, RowFits, CommandsFit, Requeued, RequestsFit, RequestFits,
       ProcessesFit, CancelledRunIsQuiet, FinalTask
  <1> QED
    BY <1>1, <1>2, <1>3, <1>4 DEF Next

(* A plan is never taken back, a command never rewritten, an approval      *)
(* never withdrawn: what any step does to each.                            *)
LEMMA PlanStays ==
    ASSUME CommandsIInv, WalkFits, [Next]_vars, run.plan # 0
    PROVE  run'.plan # 0
  <1>1. \/ run' = run
        \/ \E s \in RunStatuses : run' = [run EXCEPT !.status = s]
        \/ run' = [run EXCEPT !.status = "queued", !.revision = @ + 1]
    <2>1. ASSUME NEW r \in Requests, Serve(r)
          PROVE  \/ run' = run
                 \/ \E s \in RunStatuses : run' = [run EXCEPT !.status = s]
                 \/ run' = [run EXCEPT !.status = "queued", !.revision = @ + 1]
      BY <2>1 DEF Serve, ApplyCancel, ReserveCancel, Kill, Conclude, FinalizeCancel,
         MarkCancelIndeterminate, ApplyResume, DecideAndRequeue, ApplyConfirm, Enqueue,
         Replay, OnlyAnswer, To, RunStatuses
    <2>2. ASSUME NEW p \in Processes, RecoverCancelling(p)
          PROVE  run' = run \/ \E s \in RunStatuses : run' = [run EXCEPT !.status = s]
      BY <2>2 DEF RecoverCancelling, FinalizeCancel, MarkCancelIndeterminate, To, RunStatuses
    <2>3. CASE Work
      BY <2>3 DEF Work, To, RunStatuses
    <2>4. CASE Others
      BY <2>4, WalkValues DEF Others, To, RunStatuses
    <2> QED
      BY <2>1, <2>2, <2>3, <2>4 DEF Next, Receive, Boot, Crash, Plan, vars
  <1> QED
    BY <1>1 DEF CommandsIInv, RowFits, Runs

LEMMA RecordsStay ==
    ASSUME CommandsIInv, [Next]_vars, NEW d \in Ids, commands[d].status # "absent"
    PROVE  commands'[d].status # "absent" /\ commands'[d].body = commands[d].body
  <1> DEFINE Kept == \/ commands' = commands
                     \/ \E c \in Ids : \E b, s : commands[c].status = "absent" /\ Record(c, b, s)
                     \/ \E c \in Ids, s \in RunStatuses : Respond(c, s)
  <1>1. ASSUME NEW r \in Requests, Serve(r)
        PROVE  Kept
    <2>1. req[r].pc # "silent" => req[r].id \in Ids
      BY DEF CommandsIInv, RequestsFit, RequestFits
    <2>2. CASE ApplyCancel(r)
      BY <2>1, <2>2 DEF ApplyCancel, ReserveCancel, OnlyAnswer, Recorded
    <2>3. CASE Conclude(r)
      BY <2>1, <2>3 DEF Conclude, FinalizeCancel, MarkCancelIndeterminate, OnlyAnswer, RunStatuses
    <2>4. CASE ApplyResume(r)
      BY <2>1, <2>4 DEF ApplyResume, DecideAndRequeue, OnlyAnswer, Replay, Recorded
    <2>5. CASE ApplyConfirm(r)
      BY <2>1, <2>5 DEF ApplyConfirm, OnlyAnswer, Replay, Recorded
    <2>6. CASE Kill(r) \/ Enqueue(r)
      BY <2>6 DEF Kill, Enqueue
    <2> QED
      BY <1>1, <2>2, <2>3, <2>4, <2>5, <2>6 DEF Serve
  <1>2. ASSUME NEW p \in Processes, RecoverCancelling(p)
        PROVE  Kept
    <2>1. run.status = "cancelling" => lastCancel \in Ids
      BY DEF CommandsIInv, CommandsFit, Ids
    <2> QED
      BY <1>2, <2>1 DEF RecoverCancelling, FinalizeCancel, MarkCancelIndeterminate, RunStatuses
  <1>3. Kept
    BY <1>1, <1>2 DEF Next, Receive, Boot, Crash, Plan, Work, Others, Quiet, vars
  <1>4. commands \in [Ids -> Commands]
    BY DEF CommandsIInv, CommandsFit
  <1>5. ASSUME NEW c \in Ids, NEW b, NEW s, commands[c].status = "absent", Record(c, b, s)
        PROVE  commands'[d] = commands[d]
    BY <1>4, <1>5 DEF Record
  <1>6. ASSUME NEW c \in Ids, NEW s \in RunStatuses, Respond(c, s)
        PROVE  commands'[d].status # "absent" /\ commands'[d].body = commands[d].body
    BY <1>4, <1>6 DEF Respond, Commands, RunStatuses
  <1> QED
    BY <1>3, <1>5, <1>6

LEMMA GateStays ==
    ASSUME CommandsIInv, ApprovalsStand, [Next]_vars
    PROVE  /\ task.gate = "confirmed" => task'.gate = "confirmed"
           /\ task'.status = "none" => task'.gate = "none"
  <1> DEFINE Stays == \/ task' = task
                      \/ /\ task.status # "none"
                         /\ \E s \in {"blocked", "undecided", "ready", "running", "doubtful",
                                      "succeeded", "failed", "cancelled"} :
                               task' = [task EXCEPT !.status = s]
                      \/ task'.status # "none" /\ (task.gate # "confirmed" \/ task'.gate = "confirmed")
  <1>0. task \in Tasks
    BY DEF CommandsIInv, RowFits
  <1>1. ASSUME NEW r \in Requests, Serve(r)
        PROVE  Stays
    <2>1. CASE ApplyCancel(r)
      BY <2>1 DEF ApplyCancel, ReserveCancel, CancelTask, FinalTask, OnlyAnswer
    <2>2. CASE Conclude(r)
      BY <2>2 DEF Conclude, FinalizeCancel, CancelTask, FinalTask, MarkCancelIndeterminate,
         Active, OnlyAnswer
    <2>3. CASE ApplyResume(r)
      BY <2>3 DEF ApplyResume, DecideAndRequeue, InDoubt, OnlyAnswer, Replay
    <2>4. CASE ApplyConfirm(r)
      <3>1. CASE task' = task
        BY <3>1
      <3>2. CASE task' # task
        <4>1. /\ task.gate = "pending"
              /\ task' = [status |-> IF task.status \in {"blocked", "undecided"} THEN "ready"
                                     ELSE task.status,
                          gate |-> "confirmed"]
          BY <2>4, <3>2 DEF ApplyConfirm, OnlyAnswer, Replay
        <4>2. task.status # "none"
          BY <4>1 DEF ApprovalsStand
        <4> QED
          BY <4>1, <4>2
      <3> QED
        BY <3>1, <3>2
    <2>5. CASE Kill(r) \/ Enqueue(r)
      BY <2>5 DEF Kill, Enqueue, Readied
    <2> QED
      BY <1>1, <2>1, <2>2, <2>3, <2>4, <2>5 DEF Serve
  <1>2. ASSUME NEW p \in Processes, RecoverCancelling(p)
        PROVE  Stays
    BY <1>2 DEF RecoverCancelling, FinalizeCancel, CancelTask, FinalTask, MarkCancelIndeterminate,
       Active
  <1>3. ASSUME Plan
        PROVE  Stays
    <2>1. task.gate # "confirmed"
      BY <1>3 DEF Plan, CommandsIInv, RowFits, ApprovalsStand
    <2>2. ASSUME NEW s \in {"ready", "blocked"}, NEW g, task' = [status |-> s, gate |-> g]
          PROVE  task'.status # "none"
      BY <2>2
    <2>3. CASE task' = task
      BY <2>3
    <2>4. CASE \E s \in {"ready", "blocked"}, g \in {"none", "pending"} :
                  task' = [status |-> s, gate |-> g]
      BY <2>1, <2>2, <2>4
    <2> QED
      BY <1>3, <2>3, <2>4 DEF Plan
  <1>4. ASSUME Work
        PROVE  Stays
    <2>1. CASE task' = Readied
      <3>1. CASE task.status \in {"blocked", "undecided"}
        BY <2>1, <3>1 DEF Readied
      <3>2. CASE task.status \notin {"blocked", "undecided"}
        BY <2>1, <3>2 DEF Readied
      <3> QED
        BY <3>1, <3>2
    <2>2. ASSUME NEW from \in {"ready", "running"}, NEW to \in {"running", "succeeded", "failed", "blocked"},
                 TaskMove(from, to)
          PROVE  Stays
      BY <2>2 DEF TaskMove
    <2>3. CASE task' = task
      BY <2>3
    <2>4. \/ task' = Readied \/ task' = task
          \/ TaskMove("ready", "running") \/ TaskMove("running", "succeeded")
          \/ TaskMove("running", "failed") \/ TaskMove("running", "blocked")
      BY <1>4 DEF Work
    <2> QED
      BY <2>1, <2>2, <2>3, <2>4
  <1> HIDE DEF Stays
  <1>5. Stays
    <2>1. task' = task => Stays
      BY DEF Stays
    <2>2. \/ task' = task \/ Plan \/ Work
          \/ \E r \in Requests : Serve(r)
          \/ \E p \in Processes : RecoverCancelling(p)
      BY DEF Next, Receive, Boot, Crash, Others, vars
    <2> QED
      BY <2>1, <2>2, <1>1, <1>2, <1>3, <1>4
  <1> QED
    BY <1>0, <1>5 DEF Stays, ApprovalsStand, Tasks

-----------------------------------------------------------------------------
LEMMA WalkFitsStep == CommandsIInv /\ WalkFits /\ [Next]_vars => WalkFits'
  <1> SUFFICES ASSUME CommandsIInv, WalkFits, [Next]_vars
               PROVE  WalkFits'
    OBVIOUS
  <1>1. CASE walk' = walk
    BY <1>1, PlanStays DEF WalkFits
  <1>2. CASE walk' = <<>>
    <2>1. WalkFrom("running") = <<>> /\ "running" \in RunStatuses
      BY DEF WalkFrom, RunStatuses
    <2> QED
      BY <1>2, <2>1 DEF WalkFits, Walks
  <1>3. CASE walk' = WalkFrom(run.status) /\ run.plan # 0
    BY <1>3, PlanStays DEF WalkFits, Walks, CommandsIInv, RowFits, Runs
  <1>4. CASE walk # <<>> /\ walk' = Tail(walk)
    BY <1>4, WalkValues, PlanStays DEF WalkFits
  <1>5. ASSUME NEW r \in Requests, Serve(r)
        PROVE  walk' = walk \/ walk' = <<>>
    BY <1>5 DEF Serve, ApplyCancel, Kill, Conclude, FinalizeCancel, MarkCancelIndeterminate,
       ApplyResume, DecideAndRequeue, ApplyConfirm, Enqueue, Replay, OnlyAnswer
  <1>6. ASSUME NEW p \in Processes, RecoverCancelling(p)
        PROVE  walk' = walk \/ walk' = <<>>
    BY <1>6 DEF RecoverCancelling, FinalizeCancel, MarkCancelIndeterminate
  <1> QED
    BY <1>1, <1>2, <1>3, <1>4, <1>5, <1>6 DEF Next, Receive, Boot, Crash, Plan, Work, Others, vars

(* A request that stays where it is, or ends, or has not come far.         *)
LEMMA KeptStays ==
    ASSUME CommandsIInv, [Next]_vars, NEW r \in Requests, KeptFits(r),
           \/ req'[r] = req[r]
           \/ req'[r].pc \in {"silent", "apply"}
           \/ /\ req[r].pc = "kill" /\ req'[r].pc \in {"finalize", "mark"}
              /\ req'[r].id = req[r].id /\ req'[r].body = req[r].body
    PROVE  KeptFits(r)'
  <1>1. req[r].pc \in {"kill", "finalize", "mark", "enqueue"} => req[r].id \in Ids
    BY DEF CommandsIInv, RequestsFit, RequestFits
  <1>2. req[r].pc \in {"kill", "finalize", "mark", "enqueue"} =>
           /\ commands'[req[r].id].status # "absent"
           /\ commands'[req[r].id].body = req[r].body
    BY <1>1, RecordsStay DEF KeptFits, Recorded, SameBody
  <1> QED
    BY <1>2 DEF KeptFits, Recorded, SameBody

(* A request whose command is recorded goes on with it.                    *)
LEMMA KeptBegins ==
    ASSUME CommandsIInv, NEW r \in Requests, NEW pc \in Pcs, Pc(r, pc),
           req[r].id \in Ids,
           commands'[req[r].id].status # "absent", commands'[req[r].id].body = req[r].body,
           pc = "enqueue" => req[r].id \notin CancelIds
    PROVE  KeptFits(r)'
  <1>1. req'[r].pc = pc /\ req'[r].id = req[r].id /\ req'[r].body = req[r].body
    BY DEF Pc, CommandsIInv, RequestsFit, Sent
  <1> QED
    BY <1>1 DEF KeptFits, Recorded, SameBody

LEMMA RecordedAsSent ==
    ASSUME CommandsIInv, NEW c \in Ids, NEW b \in Bodies, NEW s \in RunStatuses, Record(c, b, s)
    PROVE  commands'[c].status # "absent" /\ commands'[c].body = b
  BY DEF Record, CommandsIInv, CommandsFit, RunStatuses

LEMMA ReceiveKept ==
    ASSUME CommandsIInv, NEW r \in Requests, NEW p \in Servers, Receive(r, p)
    PROVE  KeptFits(r)'
  <1>1. PICK c \in Ids, b \in Bodies \ {"none"}, pc \in {"apply", "kill"} :
           /\ pc = "kill" => commands[c] = [status |-> "cancelling", body |-> b]
           /\ req' = [req EXCEPT ![r] = [pc |-> pc, id |-> c, by |-> p, body |-> b, answer |-> "ok"]]
    BY DEF Receive
  <1>2. req'[r] = [pc |-> pc, id |-> c, by |-> p, body |-> b, answer |-> "ok"]
    BY <1>1 DEF CommandsIInv, RequestsFit
  <1> QED
    BY <1>1, <1>2 DEF Receive, KeptFits, Recorded, SameBody

LEMMA ServeKept ==
    ASSUME CommandsIInv, NEW r \in Requests, Serve(r), [Next]_vars, KeptFits(r)
    PROVE  KeptFits(r)'
  <1>0. /\ req \in [Requests -> Sent] /\ req[r].body \in Bodies
        /\ req[r].pc # "silent" => req[r].id \in Ids
    BY DEF CommandsIInv, RequestsFit, RequestFits, Sent
  <1>1. ASSUME NEW a \in {"ok", "refused"}, Answer(r, a)
        PROVE  KeptFits(r)'
    BY <1>0, <1>1, AnswerEffect, KeptStays
  <1>2. ASSUME NEW pc \in Pcs, Pc(r, pc), req[r].pc # "silent", Recorded(r), SameBody(r),
               pc = "enqueue" => req[r].id \notin CancelIds
        PROVE  KeptFits(r)'
    BY <1>0, <1>2, RecordsStay, KeptBegins DEF Recorded, SameBody
  <1>3. ASSUME NEW pc \in Pcs, Pc(r, pc), req[r].pc # "silent",
               NEW s \in RunStatuses, Record(req[r].id, req[r].body, s),
               pc = "enqueue" => req[r].id \notin CancelIds
        PROVE  KeptFits(r)'
    BY <1>0, <1>3, RecordedAsSent, KeptBegins
  <1>4. run.status \in RunStatuses /\ {"cancelling", "queued", "awaiting_input"} \subseteq RunStatuses
    BY DEF CommandsIInv, RowFits, Runs, RunStatuses
  <1>5. CASE ApplyCancel(r)
    <2>1. CASE Pc(r, "kill") /\ Recorded(r) /\ SameBody(r)
      BY <1>2, <1>5, <2>1 DEF ApplyCancel, Pcs
    <2>2. CASE OnlyAnswer(r, "refused")
      BY <1>1, <2>2 DEF OnlyAnswer
    <2>3. CASE Pc(r, "kill") /\ ReserveCancel(req[r].id, req[r].body)
      <3>1. Record(req[r].id, req[r].body, run.status) \/ Record(req[r].id, req[r].body, "cancelling")
        BY <2>3 DEF ReserveCancel
      <3> QED
        BY <1>3, <1>4, <1>5, <2>3, <3>1 DEF ApplyCancel, Pcs
    <2> QED
      BY <1>5, <2>1, <2>2, <2>3 DEF ApplyCancel
  <1>6. CASE Kill(r)
    <2>1. (Pc(r, "finalize") \/ Pc(r, "mark")) /\ req[r].pc = "kill"
      BY <1>6 DEF Kill, Terminate
    <2>2. /\ req'[r].pc \in {"finalize", "mark"}
          /\ req'[r].id = req[r].id /\ req'[r].body = req[r].body
      BY <1>0, <2>1 DEF Pc, Sent
    <2> QED
      BY <2>1, <2>2, KeptStays
  <1>7. CASE Conclude(r) \/ Enqueue(r)
    BY <1>1, <1>7 DEF Conclude, Enqueue, OnlyAnswer
  <1>8. CASE ApplyResume(r) \/ ApplyConfirm(r)
    <2>1. req[r].id \notin CancelIds /\ req[r].pc # "silent"
      BY <1>8, CommandsAssumption DEF ApplyResume, ApplyConfirm
    <2>2. CASE OnlyAnswer(r, "refused")
      BY <1>1, <2>2 DEF OnlyAnswer
    <2>3. CASE Replay(r) /\ Recorded(r)
      BY <1>1, <1>2, <2>1, <2>3 DEF Replay, OnlyAnswer, Pcs
    <2>4. CASE Pc(r, "enqueue") /\ DecideAndRequeue(req[r].id, req[r].body)
      <3>1. \/ Record(req[r].id, req[r].body, "awaiting_input")
            \/ Record(req[r].id, req[r].body, "queued")
        BY <2>4 DEF DecideAndRequeue
      <3> QED
        BY <1>3, <1>4, <2>1, <2>4, <3>1 DEF Pcs
    <2>5. CASE Pc(r, "enqueue") /\ Record(req[r].id, req[r].body, run.status)
      BY <1>3, <1>4, <2>1, <2>5 DEF Pcs
    <2> QED
      BY <1>8, <2>2, <2>3, <2>4, <2>5 DEF ApplyResume, ApplyConfirm
  <1> QED
    BY <1>5, <1>6, <1>7, <1>8 DEF Serve

(* A request that is served changes no other one.                          *)
LEMMA ServedAlone ==
    ASSUME CommandsIInv, NEW r \in Requests, Serve(r), NEW q \in Requests \ {r}
    PROVE  req'[q] = req[q]
  <1>1. (\E pc \in Pcs : Pc(r, pc)) \/ (\E a \in {"ok", "refused"} : Answer(r, a))
    BY DEF Serve, ApplyCancel, Kill, Terminate, Conclude, ApplyResume, ApplyConfirm, Enqueue,
       Replay, OnlyAnswer, Pcs
  <1> QED
    BY <1>1, PcEffect, AnswerEffect DEF CommandsIInv, RequestsFit

(* An approval is recorded only as it is made.                             *)
LEMMA ApprovalsStandStep ==
    ASSUME CommandsIInv, ApprovalsStand, [Next]_vars
    PROVE  ApprovalsStand'
  <1>1. task.gate = "confirmed" => task'.gate = "confirmed"
    BY GateStays
  <1>2. commands \in [Ids -> Commands]
    BY DEF CommandsIInv, CommandsFit
  <1>3. ASSUME NEW c \in ConfirmIds, commands[c].status = "absent", commands'[c].status # "absent"
        PROVE  task'.gate = "confirmed"
    <2>0. c \in Ids /\ c \notin CancelIds /\ c \notin ResumeIds
      BY CommandsAssumption DEF Ids
    <2>1. ASSUME NEW r \in Requests, Serve(r)
          PROVE  task'.gate = "confirmed"
      <3>1. CASE ApplyConfirm(r)
        BY <1>3, <3>1 DEF ApplyConfirm, OnlyAnswer, Replay
      <3>2. CASE ApplyCancel(r)
        BY <1>2, <1>3, <2>0, <3>2 DEF ApplyCancel, ReserveCancel, Record, OnlyAnswer
      <3>3. CASE ApplyResume(r)
        BY <1>2, <1>3, <2>0, <3>3 DEF ApplyResume, DecideAndRequeue, Record, OnlyAnswer, Replay
      <3>4. CASE Conclude(r)
        <4>1. req[r].id \in CancelIds
          BY <3>4 DEF Conclude, CommandsIInv, RequestsFit, RequestFits
        <4> QED
          BY <1>2, <1>3, <2>0, <3>4, <4>1
             DEF Conclude, FinalizeCancel, MarkCancelIndeterminate, Respond, OnlyAnswer
      <3> QED
        BY <1>3, <2>1, <3>1, <3>2, <3>3, <3>4 DEF Serve, Kill, Enqueue
    <2>2. ASSUME NEW p \in Processes, RecoverCancelling(p)
          PROVE  FALSE
      <3>1. run.status = "cancelling" => lastCancel \in CancelIds
        BY DEF CommandsIInv, CommandsFit
      <3> QED
        BY <1>2, <1>3, <2>0, <2>2, <3>1
           DEF RecoverCancelling, FinalizeCancel, MarkCancelIndeterminate, Respond
    <2> QED
      BY <1>3, <2>1, <2>2 DEF Next, Receive, Boot, Crash, Plan, Work, Others, Quiet, vars
  <1> QED
    BY <1>1, <1>3, GateStays DEF ApprovalsStand

LEMMA AnswersFitStep == CommandsIInv /\ AnswersFit /\ [Next]_vars => AnswersFit'
  <1> SUFFICES ASSUME CommandsIInv, AnswersFit, [Next]_vars
               PROVE  AnswersFit'
    OBVIOUS
  <1>1. ApprovalsStand'
    BY ApprovalsStandStep DEF AnswersFit
  <1>2. ASSUME NEW q \in Requests
        PROVE  KeptFits(q)'
    <2>0. KeptFits(q)
      BY DEF AnswersFit
    <2>1. CASE req'[q] = req[q] \/ req'[q].pc = "silent"
      BY <2>0, <2>1, KeptStays
    <2>2. ASSUME NEW r \in Requests, Serve(r)
          PROVE  KeptFits(q)'
      BY <2>0, <2>1, <2>2, ServeKept, ServedAlone
    <2>3. ASSUME NEW r \in Requests, NEW p \in Servers, Receive(r, p)
          PROVE  KeptFits(q)'
      <3>1. CASE q = r
        BY <2>3, <3>1, ReceiveKept
      <3>2. CASE q # r
        BY <2>1, <2>3, <3>2 DEF Receive, CommandsIInv, RequestsFit
      <3> QED
        BY <3>1, <3>2
    <2>4. ASSUME NEW p \in Processes, Crash(p)
          PROVE  KeptFits(q)'
      BY <2>1, <2>4, SilentFits DEF Crash
    <2> QED
      BY <2>1, <2>2, <2>3, <2>4
         DEF Next, Boot, RecoverCancelling, Plan, Work, Others, Quiet, vars
  <1> QED
    BY <1>1, <1>2 DEF AnswersFit

LEMMA CommandsInvariant == Spec => [](CommandsIInv /\ WalkFits /\ AnswersFit)
  <1>1. Init => WalkFits /\ AnswersFit
    <2>1. WalkFrom("running") = <<>> /\ "running" \in RunStatuses
      BY DEF WalkFrom, RunStatuses
    <2>2. Init => WalkFits
      BY <2>1 DEF Init, WalkFits, Walks
    <2>3. Init => AnswersFit
      BY CommandsAssumption DEF Init, AnswersFit, ApprovalsStand, KeptFits, Absent, Silent, Ids
    <2> QED
      BY <2>2, <2>3
  <1> QED
    BY <1>1, CommandsIInvInit, CommandsIInvStep, WalkFitsStep, AnswersFitStep, PTL DEF Spec

(* The run, its task, the commands and the requests keep their types.      *)
THEOREM CommandsTypeCorrect == Spec => []CommandsTypeOK
  <1>1. CommandsIInv /\ WalkFits => CommandsTypeOK
    BY DEF CommandsIInv, WalkFits, RowFits, CommandsFit, RequestsFit, ProcessesFit, CommandsTypeOK,
       Runs, Tasks, Commands, Seens, Pcs, Sent, ProcStates
  <1> QED
    BY <1>1, CommandsInvariant, PTL

(* apply_resume_command: however often and by whomever answers are sent,   *)
(* sent again or raced, each one that requeued the run is one revision.    *)
THEOREM AnswersAreRevisions == Spec => []EveryAnswerIsARevision
  <1>1. CommandsIInv => EveryAnswerIsARevision
    BY DEF CommandsIInv, CommandsFit, Requeued, EveryAnswerIsARevision
  <1> QED
    BY <1>1, CommandsInvariant, PTL

(* finalize_cancel_command: nothing of a cancelled run is left to execute, *)
(* and no answer, confirmation or worker brings anything of it back.       *)
THEOREM CancelledRunsAreQuiet == Spec => []CancelledRunIsQuiet
  BY CommandsInvariant, PTL DEF CommandsIInv, RowFits

-----------------------------------------------------------------------------
(* What a client is told is so.  A request ends when it is answered.       *)
LEMMA ConcludedTruly ==
    ASSUME CommandsIInv, AnswersFit, [Next]_vars, NEW r \in Requests, Conclude(r)
    PROVE  AnswerIsTrue(r)
  <1>1. /\ req[r].id \in CancelIds /\ req[r].id \in Ids
        /\ req[r].id \notin ResumeIds /\ req[r].id \notin ConfirmIds
    BY CommandsAssumption DEF Conclude, CommandsIInv, RequestsFit, RequestFits, Ids
  <1>2. commands'[req[r].id].status # "absent" /\ commands'[req[r].id].body = req[r].body
    BY <1>1, RecordsStay DEF Conclude, AnswersFit, KeptFits, Recorded, SameBody
  <1>3. req \in [Requests -> Sent] /\ run \in Runs
    BY DEF CommandsIInv, RequestsFit, RowFits
  <1>4. CASE (FinalizeCancel(req[r].id) \/ MarkCancelIndeterminate(req[r].id)) /\ Answer(r, "ok")
    <2>1. run'.status \in {"cancelled", "awaiting_input"}
      BY <1>3, <1>4 DEF FinalizeCancel, MarkCancelIndeterminate, To, Runs
    <2>2. req'[r].answer = "ok"
      BY <1>3, <1>4, AnswerEffect
    <2> QED
      BY <1>1, <1>2, <2>1, <2>2 DEF AnswerIsTrue
  <1>5. CASE OnlyAnswer(r, "ok") /\ run.status \in {"cancelled", "awaiting_input"}
    BY <1>1, <1>2, <1>3, <1>5, AnswerEffect DEF OnlyAnswer, AnswerIsTrue
  <1>6. CASE OnlyAnswer(r, "refused") /\ run.status # "cancelling"
    BY <1>1, <1>2, <1>3, <1>6, AnswerEffect DEF OnlyAnswer, AnswerIsTrue
  <1> QED
    BY <1>4, <1>5, <1>6 DEF Conclude

LEMMA EnqueuedTruly ==
    ASSUME CommandsIInv, AnswersFit, [Next]_vars, NEW r \in Requests, Enqueue(r)
    PROVE  AnswerIsTrue(r)
  <1>1. req[r].id \in Ids /\ req[r].id \notin CancelIds
    BY DEF Enqueue, AnswersFit, KeptFits, CommandsIInv, RequestsFit, RequestFits
  <1>2. commands[req[r].id].status # "absent" /\ commands[req[r].id].body = req[r].body
    BY DEF Enqueue, AnswersFit, KeptFits, Recorded, SameBody
  <1>3. commands'[req[r].id].status # "absent" /\ commands'[req[r].id].body = req[r].body
    BY <1>1, <1>2, RecordsStay
  <1>4. req'[r].answer = "ok"
    BY AnswerEffect DEF Enqueue, CommandsIInv, RequestsFit
  <1>5. req[r].id \in ConfirmIds => task'.gate = "confirmed"
    BY <1>2, GateStays DEF AnswersFit, ApprovalsStand
  <1> QED
    BY <1>1, <1>3, <1>4, <1>5 DEF AnswerIsTrue

(* A transaction that ends its request refuses it: another body, a version *)
(* or a state that does not fit, and then the command is not recorded.     *)
LEMMA AppliedTruly ==
    ASSUME CommandsIInv, NEW r \in Requests, req'[r].pc = "silent",
           ApplyCancel(r) \/ ApplyResume(r) \/ ApplyConfirm(r)
    PROVE  AnswerIsTrue(r)
  <1>1. req \in [Requests -> Sent] /\ req[r].id \in Ids
    BY DEF CommandsIInv, RequestsFit, RequestFits, ApplyCancel, ApplyResume, ApplyConfirm
  <1>2. ~Pc(r, "kill") /\ ~Pc(r, "enqueue")
    BY <1>1, PcEffect DEF Pcs
  <1>3. OnlyAnswer(r, "refused")
    BY <1>2 DEF ApplyCancel, ApplyResume, ApplyConfirm, Replay
  <1>4. req'[r].answer = "refused" /\ commands' = commands
    BY <1>1, <1>3, AnswerEffect DEF OnlyAnswer
  <1>5. CASE ApplyCancel(r) \/ ApplyResume(r)
    <2>1. ~(Recorded(r) /\ SameBody(r))
      BY <1>2, <1>5, <1>3 DEF ApplyCancel, ApplyResume, Replay
    <2> QED
      BY <1>4, <2>1 DEF AnswerIsTrue, Recorded, SameBody
  <1>6. CASE ApplyConfirm(r)
    <2>1. req[r].id \notin CancelIds /\ req[r].id \notin ResumeIds
      BY <1>6, CommandsAssumption DEF ApplyConfirm
    <2> QED
      BY <1>4, <2>1 DEF AnswerIsTrue
  <1> QED
    BY <1>5, <1>6

LEMMA StepIsTrue ==
    ASSUME CommandsIInv, AnswersFit, [Next]_vars, NEW q \in Requests,
           req[q].pc # "silent", req'[q].pc = "silent", crashes' = crashes
    PROVE  AnswerIsTrue(q)
  <1>1. ASSUME NEW r \in Requests, Serve(r)
        PROVE  AnswerIsTrue(q)
    <2>1. q = r
      BY <1>1, ServedAlone
    <2>2. CASE Kill(r)
      BY <2>1, <2>2, PcEffect DEF Kill, Terminate, Pcs, CommandsIInv, RequestsFit
    <2> QED
      BY <1>1, <2>1, <2>2, ConcludedTruly, EnqueuedTruly, AppliedTruly DEF Serve
  <1>2. ASSUME NEW r \in Requests, NEW p \in Servers, Receive(r, p)
        PROVE  FALSE
    BY <1>2 DEF Receive, CommandsIInv, RequestsFit
  <1>3. ASSUME NEW p \in Processes, Crash(p)
        PROVE  FALSE
    BY <1>3, CommandsAssumption DEF Crash, CommandsIInv, ProcessesFit
  <1> QED
    BY <1>1, <1>2, <1>3 DEF Next, Boot, RecoverCancelling, Plan, Work, Others, Quiet, vars

(* Whatever was sent again, raced or left half done by a crash, an answer  *)
(* that a client gets tells what has become of its command.                *)
THEOREM AnswersTellTheTruth == Spec => AnswersAreTrue
  <1>1. CommandsIInv /\ AnswersFit /\ [Next]_vars =>
           [\A r \in Requests :
              req[r].pc # "silent" /\ req'[r].pc = "silent" /\ crashes' = crashes
              => AnswerIsTrue(r)]_vars
    BY StepIsTrue
  <1> QED
    BY <1>1, CommandsInvariant, PTL DEF Spec, AnswersAreTrue

-----------------------------------------------------------------------------
(* The promise of RunLifecycle: every step is a step of the promise, or    *)
(* nothing the user is told of.                                            *)
LEMMA PhaseValues ==
    /\ PhaseOf("queued") = "thinking" /\ PhaseOf("planning") = "thinking"
    /\ PhaseOf("awaiting_input") = "asking"
    /\ PhaseOf("ready") = "working" /\ PhaseOf("running") = "working"
    /\ PhaseOf("cancelling") = "stopping"
    /\ PhaseOf("completed") = "over" /\ PhaseOf("failed") = "over"
    /\ PhaseOf("cancelled") = "over"
  BY DEF PhaseOf, FinalRun

PromiseStep == [Lifecycle!Step]_<<PhaseOf(run.status), run.revision, run.plan>>

LEMMA SameRunPromised ==
    ASSUME run' = run
    PROVE  PromiseStep
  BY DEF PromiseStep

(* A change of the status alone, by the phases it leads from and to.       *)
PhaseStep(from, to) ==
    \/ from = to
    \/ from \in {"thinking", "working"} /\ to \in {"asking", "over"}
    \/ from \in {"thinking", "asking", "working"} /\ to = "stopping"
    \/ from = "stopping" /\ to = "over"
    \/ run.plan # 0 /\ \/ from \in {"thinking", "asking"} /\ to = "working"
                       \/ from = "stopping" /\ to = "asking"

LEMMA StatusPromised ==
    ASSUME run \in Runs, seen \in [Ids -> Seens], NEW s \in RunStatuses, To(s),
           PhaseStep(PhaseOf(run.status), PhaseOf(s))
    PROVE  PromiseStep
  <1>1. run'.status = s /\ run'.revision = run.revision /\ run'.plan = run.plan
    BY ToEffect
  <1> QED
    BY <1>1 DEF PromiseStep, PhaseStep, Lifecycle!Step, Lifecycle!Ask, Lifecycle!GoOn, Lifecycle!Overtaken,
       Lifecycle!End, Lifecycle!StopRequest, Lifecycle!Stopped, Lifecycle!Unsure, Lifecycle!Move

LEMMA ConclusionPromised ==
    ASSUME CommandsIInv, NEW c,
           FinalizeCancel(c) \/ (MarkCancelIndeterminate(c) /\ run.plan # 0)
    PROVE  PromiseStep
  BY StatusPromised, PhaseValues
     DEF CommandsIInv, RowFits, FinalizeCancel, MarkCancelIndeterminate, RunStatuses, PhaseStep

LEMMA ServePromised ==
    ASSUME CommandsIInv, NEW r \in Requests, Serve(r)
    PROVE  PromiseStep
  <1>1. CASE ApplyCancel(r)
    <2>1. CASE ReserveCancel(req[r].id, req[r].body)
      <3>1. PhaseOf(run.status) \in {"thinking", "asking", "working", "stopping", "over"}
        BY PhaseValues DEF CommandsIInv, RowFits, Runs, RunStatuses
      <3>2. CASE run.status \in FinalRun \cup {"cancelling"}
        BY <2>1, <3>2, SameRunPromised DEF ReserveCancel, FinalRun
      <3>3. CASE run.status \notin FinalRun \cup {"cancelling"}
        <4>1. To("cancelling")
          BY <2>1, <3>3 DEF ReserveCancel
        <4>2. PhaseOf(run.status) \in {"thinking", "asking", "working"}
          BY <3>3, PhaseValues DEF CommandsIInv, RowFits, Runs, RunStatuses, FinalRun
        <4> QED
          BY <4>1, <4>2, StatusPromised, PhaseValues
             DEF CommandsIInv, RowFits, RunStatuses, PhaseStep
      <3> QED
        BY <3>2, <3>3
    <2>2. CASE run' = run
      BY <2>2, SameRunPromised
    <2> QED
      BY <1>1, <2>1, <2>2 DEF ApplyCancel, OnlyAnswer
  <1>2. CASE Conclude(r)
    BY <1>2, ConclusionPromised, SameRunPromised
       DEF Conclude, OnlyAnswer, CommandsIInv, RequestsFit, RequestFits
  <1>3. CASE ApplyResume(r)
    <2>1. CASE run' = run
      BY <2>1, SameRunPromised
    <2>2. CASE run' # run
      <3>1. /\ run.status = "awaiting_input" /\ run.revision < MaxRevision
            /\ run' = [run EXCEPT !.status = "queued", !.revision = @ + 1]
        BY <1>3, <2>2 DEF ApplyResume, Replay, OnlyAnswer, DecideAndRequeue
      <3>2. /\ run'.status = "queued" /\ run'.revision = run.revision + 1
            /\ run'.plan = run.plan
        BY <3>1 DEF CommandsIInv, RowFits, Runs
      <3> QED
        BY <3>1, <3>2, PhaseValues DEF PromiseStep, Lifecycle!Step, Lifecycle!Answer, Lifecycle!Move
    <2> QED
      BY <2>1, <2>2
  <1>4. CASE Kill(r) \/ ApplyConfirm(r) \/ Enqueue(r)
    BY <1>4, SameRunPromised DEF Kill, ApplyConfirm, Enqueue, Replay, OnlyAnswer
  <1> QED
    BY <1>1, <1>2, <1>3, <1>4 DEF Serve

LEMMA PlanPromised ==
    ASSUME CommandsIInv, Plan
    PROVE  PromiseStep
  <1>1. run \in Runs /\ seen \in [Ids -> Seens] /\ run.plan = 0
    BY DEF Plan, CommandsIInv, RowFits
  <1>2. CASE run.status \in {"queued", "planning"} /\ To("planning")
    BY <1>1, <1>2, StatusPromised, PhaseValues DEF RunStatuses, PhaseStep
  <1>3. CASE run.status = "planning" /\ (To("awaiting_input") \/ To("failed"))
    BY <1>1, <1>3, StatusPromised, PhaseValues DEF RunStatuses, PhaseStep
  <1>4. CASE run.status = "planning" /\ run' = [run EXCEPT !.status = "ready", !.plan = run.revision]
    <2>1. run'.status = "ready" /\ run'.revision = run.revision /\ run'.plan = run.revision
      BY <1>1, <1>4 DEF Runs
    <2> QED
      BY <1>1, <1>4, <2>1, PhaseValues DEF PromiseStep, Lifecycle!Step, Lifecycle!Decide, Lifecycle!Move
  <1>5. CASE run.status = "planning" /\ run' = [run EXCEPT !.status = "queued"]
    <2>1. run'.status = "queued" /\ run'.revision = run.revision /\ run'.plan = run.plan
      BY <1>1, <1>5 DEF Runs
    <2> QED
      BY <1>5, <2>1, PhaseValues DEF PromiseStep
  <1> QED
    BY <1>2, <1>3, <1>4, <1>5 DEF Plan

(* The walk of a claim leads on, also from a question, but only with a plan.*)
LEMMA OthersPromised ==
    ASSUME CommandsIInv, WalkFits, Others
    PROVE  PromiseStep
  <1>1. CASE run' = run
    BY <1>1, SameRunPromised
  <1>2. CASE walk # <<>> /\ run.status \in Over(Head(walk)) /\ To(Head(walk))
    <2>1. /\ run \in Runs /\ seen \in [Ids -> Seens] /\ run.plan # 0
          /\ Head(walk) \in {"planning", "ready", "running"}
      BY <1>2, WalkValues DEF CommandsIInv, RowFits
    <2>2. \/ Head(walk) = "planning" /\ run.status = "queued"
          \/ Head(walk) = "ready" /\ run.status \in {"planning", "awaiting_input"}
          \/ Head(walk) = "running" /\ run.status \in {"ready", "awaiting_input"}
      BY <1>2, <2>1 DEF Over
    <2>3. PhaseStep(PhaseOf(run.status), PhaseOf(Head(walk)))
      BY <2>1, <2>2, PhaseValues DEF PhaseStep
    <2> QED
      BY <1>2, <2>1, <2>3, StatusPromised DEF RunStatuses
  <1> QED
    BY <1>1, <1>2 DEF Others

(* A task that is active has a plan, so the work goes on by it.            *)
LEMMA WorkPromised ==
    ASSUME CommandsIInv, Work
    PROVE  PromiseStep
  <1>1. CASE run' = run
    BY <1>1, SameRunPromised
  <1>2. CASE run' # run
    <2>1. run \in Runs /\ seen \in [Ids -> Seens]
      BY DEF CommandsIInv, RowFits
    <2>2. task.status = "running" /\ run.plan # 0
      BY <1>2 DEF Work, TaskMove, CommandsIInv, RowFits
    <2>3. \/ run.status = "queued" /\ To("planning")
          \/ run.status = "planning" /\ To("ready")
          \/ run.status = "ready" /\ To("running")
          \/ run.status = "running"
             /\ (To("completed") \/ To("failed") \/ To("awaiting_input"))
      BY <1>2 DEF Work
    <2> QED
      BY <2>1, <2>2, <2>3, StatusPromised, PhaseValues DEF RunStatuses, PhaseStep
  <1> QED
    BY <1>1, <1>2

LEMMA StepPromised ==
    ASSUME CommandsIInv, WalkFits, [Next]_vars
    PROVE  PromiseStep
  <1>1. ASSUME NEW p \in Processes, RecoverCancelling(p)
        PROVE  PromiseStep
    BY <1>1, ConclusionPromised, SameRunPromised
       DEF RecoverCancelling, CommandsIInv, ProcessesFit
  <1>2. CASE run' = run
    BY <1>2, SameRunPromised
  <1> QED
    BY <1>1, <1>2, ServePromised, PlanPromised, WorkPromised, OthersPromised
       DEF Next, Receive, Boot, Crash, vars

(* Commands, repeats, crashes and recoveries together implement what       *)
(* RunLifecycle promises: only a question is answered, one plan is made    *)
(* and for all that was said, and a run is over once.                      *)
THEOREM RunKeepsPromise == Spec => KeepsPromise
  <1>1. Init => Lifecycle!Begin
    BY PhaseValues DEF Init, Lifecycle!Begin
  <1>2. CommandsIInv /\ WalkFits /\ [Next]_vars =>
           [Lifecycle!Step]_<<PhaseOf(run.status), run.revision, run.plan>>
    BY StepPromised DEF PromiseStep
  <1> QED
    BY <1>1, <1>2, CommandsInvariant, PTL
       DEF Spec, KeepsPromise, Lifecycle!Promise, Lifecycle!promise
=============================================================================
