---------------------------- MODULE PlanningProofs ----------------------------
(***************************************************************************)
(* Machine-checked proofs about Planning, for any workers and names, any   *)
(* number of claims, revisions, crashes and shutdowns: no planner attempt  *)
(* is left open, a provider never works unrecorded, and the plan of a run  *)
(* is the answer to everything its user said.                              *)
(***************************************************************************)
EXTENDS Planning, TLAPS

(* The row says planning, names an owner and has a lease all at once, and  *)
(* only after a claim.                                                     *)
RowFits ==
    /\ run.status = "planning" <=> run.lease # "none"
    /\ run.status = "planning" <=> run.owner # NoWorker
    /\ run.status = "planning" => run.generation \in Generations

(* Where a thread may still have a call open in planner_attempts.          *)
MayHaveOpen == {"call", "ask", "close", "finish", "pause", "reject"}

(* The one attempt that can be open under a valid lease is the one the     *)
(* holder is busy with, and has still to close.                            *)
HolderKnowsOpen(w) ==
    Fence(w) /\ run.generation \notin retaken =>
        \A n \in Ordinals :
            attempts[run.generation][n] = "requested"
            => /\ th[w].pc \in MayHaveOpen
               /\ th[w].no = n
               /\ th[w].revision # 0

(* From its insertion until the answer, the row of a call is there.        *)
CallStaysRecorded(w) == th[w].pc \in {"call", "ask"} /\ Fence(w) => Requested(w)

AtWork(w) == th[w].pc \notin {"off", "idle"}

(* Where a thread works on a request made of the input it has read.        *)
Asks == {"open", "call", "ask", "close", "finish", "activate"}

ThreadFits(w) ==
    /\ th[w].pc \in Asks => th[w].revision # 0
    /\ th[w].pc = "close" => th[w].no = 1
    /\ AtWork(w) => HolderKnowsOpen(w)
    /\ CallStaysRecorded(w)

PlanningIInv ==
    /\ PlanningTypeOK
    /\ RowFits
    /\ \A w \in Workers : ThreadFits(w)
    /\ NoOpenAttemptLeft
    /\ PlanIsCurrent

-----------------------------------------------------------------------------
(* Types.                                                                  *)
Runs == [status : RunStatuses, version : Nat, revision : 1 .. MaxRevision,
         owner : Workers \cup {NoWorker, DeadName}, generation : 0 .. MaxGeneration,
         lease : {"none", "live", "expired"}]
Threads == [pc : Points, generation : 0 .. MaxGeneration, no : Ordinals,
            revision : 0 .. MaxRevision, code : Codes]
Plans == [revision : 1 .. MaxRevision, generation : Generations]

LEMMA InitTyped == Init => PlanningTypeOK
  BY PlanningAssumption DEF Init, PlanningTypeOK, RunStatuses, Generations, Ordinals,
     AttemptStatuses, Thread, Points, Codes

LEMMA ThreadTyped ==
    ASSUME NEW p \in Points
    PROVE  Thread(p) \in Threads /\ Thread(p).pc = p
  BY PlanningAssumption DEF Thread, Threads, Points, Codes, Ordinals

(* What the moves of a thread and the updates of the row leave behind.     *)
LEMMA GotoEffect ==
    ASSUME th \in [Workers -> Threads], NEW w \in Workers, NEW p \in Points, Goto(w, p)
    PROVE  /\ th' \in [Workers -> Threads]
           /\ th'[w].pc = p /\ th'[w].generation = th[w].generation
           /\ th'[w].no = th[w].no /\ th'[w].revision = th[w].revision
           /\ \A v \in Workers \ {w} : th'[v] = th[v]
  BY DEF Goto, Threads

LEMMA RestEffect ==
    ASSUME th \in [Workers -> Threads], NEW w \in Workers, NEW p \in Points, Rest(w, p)
    PROVE  /\ th' \in [Workers -> Threads]
           /\ th'[w].pc = p
           /\ \A v \in Workers \ {w} : th'[v] = th[v]
  BY ThreadTyped DEF Rest

LEMMA RejectEffect ==
    ASSUME th \in [Workers -> Threads], NEW w \in Workers, NEW c \in Codes, Reject(w, c)
    PROVE  /\ th' \in [Workers -> Threads]
           /\ th'[w].pc = "reject" /\ th'[w].generation = th[w].generation
           /\ th'[w].no = th[w].no /\ th'[w].revision = th[w].revision
           /\ \A v \in Workers \ {w} : th'[v] = th[v]
  BY DEF Reject, Threads, Points

LEMMA CloseRequestedEffect ==
    ASSUME attempts \in [Generations -> [Ordinals -> AttemptStatuses]]
    PROVE  /\ CloseRequested(attempts) \in [Generations -> [Ordinals -> AttemptStatuses]]
           /\ \A g \in Generations, n \in Ordinals :
                 CloseRequested(attempts)[g][n] # "requested"
  BY DEF CloseRequested, AttemptStatuses

LEMMA FinishEffect ==
    ASSUME attempts \in [Generations -> [Ordinals -> AttemptStatuses]],
           NEW w \in Workers, NEW s \in AttemptStatuses, Finish(w, s),
           th[w].generation \in Generations, th[w].no \in Ordinals
    PROVE  /\ attempts' \in [Generations -> [Ordinals -> AttemptStatuses]]
           /\ attempts'[th[w].generation][th[w].no] = s
           /\ \A g \in Generations, n \in Ordinals :
                 g # th[w].generation \/ n # th[w].no => attempts'[g][n] = attempts[g][n]
  BY DEF Finish

LEMMA LeaveEffect ==
    ASSUME run \in Runs, NEW s \in RunStatuses, Leave(s)
    PROVE  /\ run' \in Runs
           /\ run'.status = s /\ run'.owner = NoWorker /\ run'.lease = "none"
           /\ run'.generation = run.generation /\ run'.revision = run.revision
  <1>1. run.version + 1 \in Nat
    BY DEF Runs
  <1> QED
    BY <1>1 DEF Leave, Runs

LEMMA FencedGeneration ==
    ASSUME PlanningTypeOK, RowFits, NEW w \in Workers, Fence(w)
    PROVE  /\ th[w].generation \in Generations /\ th[w].no \in Ordinals
           /\ run.generation = th[w].generation
           /\ \A v \in Workers \ {w} : ~Fence(v)
  BY DEF PlanningTypeOK, RowFits, Fence

-----------------------------------------------------------------------------
(* Steps of a thread that leave the row alone.  What they write in         *)
(* planner_attempts is written under a valid lease, so the other threads   *)
(* have none; left to show of such a step is what its own thread does.     *)
QuietStep(w) ==
    /\ UNCHANGED <<run, plans, retaken>>
    /\ th' \in [Workers -> Threads]
    /\ \A v \in Workers \ {w} : th'[v] = th[v]
    /\ attempts' \in [Generations -> [Ordinals -> AttemptStatuses]]
    /\ \/ attempts' = attempts
       \/ /\ Fence(w)
          /\ \A g \in Generations \ {th[w].generation} : attempts'[g] = attempts[g]
    /\ stopping' \in [Workers -> BOOLEAN]
    /\ trouble' \in 0 .. MaxTrouble

LEMMA QuietStepKeeps ==
    ASSUME PlanningIInv, NEW w \in Workers, QuietStep(w), ThreadFits(w)'
    PROVE  PlanningIInv'
  <1>1. PlanningTypeOK'
    BY DEF PlanningIInv, PlanningTypeOK, QuietStep, Threads
  <1>2. RowFits'
    BY DEF PlanningIInv, RowFits, QuietStep
  <1>3. ASSUME NEW v \in Workers, v # w
        PROVE  ThreadFits(v)'
    <2>1. th'[v] = th[v] /\ ThreadFits(v) /\ run' = run /\ retaken' = retaken
      BY <1>3 DEF QuietStep, PlanningIInv
    <2>2. CASE attempts' = attempts
      BY <2>1, <2>2 DEF ThreadFits, AtWork, HolderKnowsOpen, CallStaysRecorded, Fence, Requested
    <2>3. CASE Fence(w)
      <3>1. ~Fence(v)'
        BY <2>1, <2>3, <1>3 DEF Fence
      <3> QED
        BY <2>1, <3>1 DEF ThreadFits, AtWork, HolderKnowsOpen, CallStaysRecorded
    <2> QED
      BY <2>2, <2>3 DEF QuietStep
  <1>4. NoOpenAttemptLeft'
    <2>1. CASE attempts' = attempts
      BY <2>1 DEF PlanningIInv, NoOpenAttemptLeft, QuietStep
    <2>2. CASE Fence(w) /\ \A g \in Generations \ {th[w].generation} : attempts'[g] = attempts[g]
      BY <2>2 DEF PlanningIInv, NoOpenAttemptLeft, QuietStep, Fence
    <2> QED
      BY <2>1, <2>2 DEF QuietStep
  <1>5. PlanIsCurrent'
    BY DEF PlanningIInv, PlanIsCurrent, QuietStep
  <1> QED
    BY <1>1, <1>2, <1>3, <1>4, <1>5 DEF PlanningIInv

(* What every step of _plan_once leaves alone in the processes.            *)
LEMMA StillTyped ==
    ASSUME PlanningIInv, UNCHANGED <<stopping, trouble>>
    PROVE  stopping' \in [Workers -> BOOLEAN] /\ trouble' \in 0 .. MaxTrouble
  BY DEF PlanningIInv, PlanningTypeOK

(* A thread that goes on with its call, or gives it up, and writes nothing.*)
LEMMA GotoKeeps ==
    ASSUME PlanningIInv, NEW w \in Workers, NEW p \in Points, Goto(w, p),
           UNCHANGED <<run, attempts, plans, retaken, stopping, trouble>>,
           p = "close" => th[w].no = 1,
           AtWork(w),
           th[w].pc \in MayHaveOpen => p \in MayHaveOpen \/ p \in {"off", "idle"},
           p \in {"call", "ask"} => th[w].pc \in {"call", "ask"},
           p \in Asks => th[w].pc \in Asks
    PROVE  PlanningIInv'
  <1>1. QuietStep(w)
    BY GotoEffect, StillTyped DEF PlanningIInv, PlanningTypeOK, Threads, QuietStep
  <1>2. ThreadFits(w)'
    BY GotoEffect DEF PlanningIInv, PlanningTypeOK, Threads, ThreadFits, AtWork,
       HolderKnowsOpen, CallStaysRecorded, Fence, Requested, MayHaveOpen, Asks
  <1> QED
    BY <1>1, <1>2, QuietStepKeeps

LEMMA RejectKeeps ==
    ASSUME PlanningIInv, NEW w \in Workers, NEW c \in Codes, Reject(w, c), AtWork(w),
           UNCHANGED <<run, attempts, plans, retaken, stopping, trouble>>
    PROVE  PlanningIInv'
  <1>1. QuietStep(w)
    BY RejectEffect, StillTyped DEF PlanningIInv, PlanningTypeOK, Threads, QuietStep
  <1>2. ThreadFits(w)'
    BY RejectEffect DEF PlanningIInv, PlanningTypeOK, Threads, ThreadFits, AtWork,
       HolderKnowsOpen, CallStaysRecorded, Fence, Requested, MayHaveOpen, Asks
  <1> QED
    BY <1>1, <1>2, QuietStepKeeps

-----------------------------------------------------------------------------
(* The steps of _plan_once, one by one.                                    *)
Unhurried == UNCHANGED <<stopping, trouble>>

LEMMA PlannerRequestKeeps ==
    ASSUME PlanningIInv, NEW w \in Workers, PlannerRequest(w), Unhurried
    PROVE  PlanningIInv'
  <1>1. CASE th' = [th EXCEPT ![w].pc = "open", ![w].revision = run.revision]
    <2>0. run.revision \in 0 .. MaxRevision /\ run.revision # 0 /\ th \in [Workers -> Threads]
      BY PlanningAssumption DEF PlanningIInv, PlanningTypeOK, Threads
    <2>1. /\ th' \in [Workers -> Threads]
          /\ th'[w].pc = "open" /\ th'[w].revision = run.revision
          /\ th'[w].generation = th[w].generation /\ th'[w].no = th[w].no
          /\ \A v \in Workers \ {w} : th'[v] = th[v]
      BY <1>1, <2>0 DEF Threads, Points
    <2>2. QuietStep(w)
      BY <2>1, StillTyped DEF PlannerRequest, Unhurried, PlanningIInv, PlanningTypeOK, QuietStep
    <2>3. ThreadFits(w)'
      BY <2>0, <2>1 DEF PlanningIInv, PlannerRequest, ThreadFits, AtWork, At,
         HolderKnowsOpen, CallStaysRecorded, Fence, Requested, MayHaveOpen, Asks
    <2> QED
      BY <2>2, <2>3, QuietStepKeeps
  <1>2. CASE Goto(w, "pause")
    BY <1>2, GotoKeeps DEF PlannerRequest, Unhurried, At, AtWork, MayHaveOpen, Asks, Points
  <1>3. CASE Reject(w, "PLAN_COMPILE_FAILED")
    BY <1>3, RejectKeeps DEF PlannerRequest, Unhurried, At, AtWork, Codes
  <1> QED
    BY <1>1, <1>2, <1>3 DEF PlannerRequest

LEMMA CreatePlannerAttemptKeeps ==
    ASSUME PlanningIInv, NEW w \in Workers, CreatePlannerAttempt(w), Unhurried
    PROVE  PlanningIInv'
  <1>1. CASE Fence(w) /\ attempts[th[w].generation][th[w].no] = "absent"
    <2>1. Finish(w, "requested") /\ Goto(w, "call") /\ UNCHANGED <<run, plans, retaken>>
      BY <1>1 DEF CreatePlannerAttempt
    <2>2. /\ th[w].generation \in Generations /\ th[w].no \in Ordinals
          /\ run.generation = th[w].generation
      BY <1>1, FencedGeneration DEF PlanningIInv
    <2>3. /\ attempts' \in [Generations -> [Ordinals -> AttemptStatuses]]
          /\ attempts'[th[w].generation][th[w].no] = "requested"
          /\ \A g \in Generations, n \in Ordinals :
                g # th[w].generation \/ n # th[w].no => attempts'[g][n] = attempts[g][n]
          /\ \A g \in Generations \ {th[w].generation} : attempts'[g] = attempts[g]
      BY <2>1, <2>2, FinishEffect DEF Finish, PlanningIInv, PlanningTypeOK, AttemptStatuses
    <2>4. /\ th' \in [Workers -> Threads]
          /\ th'[w].pc = "call" /\ th'[w].generation = th[w].generation
          /\ th'[w].no = th[w].no /\ th'[w].revision = th[w].revision
          /\ \A v \in Workers \ {w} : th'[v] = th[v]
      BY <2>1, GotoEffect DEF PlanningIInv, PlanningTypeOK, Threads, Points
    <2>5. QuietStep(w)
      BY <1>1, <2>1, <2>3, <2>4, StillTyped DEF Unhurried, QuietStep
    <2>6. ThreadFits(w)'
      BY <2>1, <2>2, <2>3, <2>4 DEF CreatePlannerAttempt, At, PlanningIInv, ThreadFits,
         AtWork, HolderKnowsOpen, CallStaysRecorded, Fence, Requested, MayHaveOpen, Asks
    <2> QED
      BY <2>5, <2>6, QuietStepKeeps
  <1>2. CASE ~(Fence(w) /\ attempts[th[w].generation][th[w].no] = "absent")
    <2>1. Refuse(w) /\ UNCHANGED <<run, attempts, plans, retaken>> /\ th[w].pc = "open"
      BY <1>2 DEF CreatePlannerAttempt, At
    <2>0. 0 \in 0 .. MaxRevision /\ th \in [Workers -> Threads]
      BY PlanningAssumption DEF PlanningIInv, PlanningTypeOK, Threads
    <2>2. /\ th' \in [Workers -> Threads]
          /\ th'[w].pc = "reject" /\ th'[w].generation = th[w].generation
          /\ \A v \in Workers \ {w} : th'[v] = th[v]
      BY <2>0, <2>1 DEF Refuse, Threads, Points, Codes
    <2>3. QuietStep(w)
      BY <2>1, <2>2, StillTyped DEF Unhurried, PlanningIInv, PlanningTypeOK, QuietStep, AtWork
    <2>4. ThreadFits(w)'
      BY <2>1, <2>2 DEF PlanningIInv, ThreadFits, AtWork, HolderKnowsOpen, CallStaysRecorded,
         Fence, MayHaveOpen, Asks
    <2> QED
      BY <2>3, <2>4, QuietStepKeeps
  <1> QED
    BY <1>1, <1>2

LEMMA CallPlannerKeeps ==
    ASSUME PlanningIInv, NEW w \in Workers, CallPlanner(w), Unhurried
    PROVE  PlanningIInv'
  BY GotoKeeps, RejectKeeps
     DEF CallPlanner, Unhurried, At, AtWork, Codes, Points, MayHaveOpen, Asks

LEMMA PlannerAnswersKeeps ==
    ASSUME PlanningIInv, NEW w \in Workers, PlannerAnswers(w), Unhurried
    PROVE  PlanningIInv'
  <1>1. CASE Goto(w, "finish") \/ Goto(w, "pause") \/ (th[w].no = 1 /\ Goto(w, "close"))
    BY <1>1, GotoKeeps DEF PlannerAnswers, Unhurried, At, AtWork, Points, MayHaveOpen, Asks
  <1>2. CASE Reject(w, "PLAN_COMPILE_FAILED") \/ Reject(w, "WORKER_SHUTDOWN")
    BY <1>2, RejectKeeps DEF PlannerAnswers, Unhurried, At, AtWork, Codes
  <1> QED
    BY <1>1, <1>2 DEF PlannerAnswers, CompileDraft

(* A close of the attempt the thread works on, under its lease.            *)
LEMMA CloseEffect ==
    ASSUME PlanningIInv, NEW w \in Workers, AtWork(w), Fence(w),
           NEW s \in AttemptStatuses \ {"requested"}, Finish(w, s)
    PROVE  /\ attempts' \in [Generations -> [Ordinals -> AttemptStatuses]]
           /\ \A g \in Generations \ {th[w].generation} : attempts'[g] = attempts[g]
           /\ run.generation \notin retaken =>
                 \A n \in Ordinals : attempts'[run.generation][n] # "requested"
  <1>1. /\ th[w].generation \in Generations /\ th[w].no \in Ordinals
        /\ run.generation = th[w].generation
    BY FencedGeneration DEF PlanningIInv
  <1>2. /\ attempts' \in [Generations -> [Ordinals -> AttemptStatuses]]
        /\ attempts'[th[w].generation][th[w].no] = s
        /\ \A g \in Generations, n \in Ordinals :
              g # th[w].generation \/ n # th[w].no => attempts'[g][n] = attempts[g][n]
        /\ \A g \in Generations \ {th[w].generation} : attempts'[g] = attempts[g]
    BY <1>1, FinishEffect DEF Finish, PlanningIInv, PlanningTypeOK
  <1> QED
    BY <1>1, <1>2 DEF PlanningIInv, ThreadFits, HolderKnowsOpen

LEMMA CloseForRepairKeeps ==
    ASSUME PlanningIInv, NEW w \in Workers, CloseForRepair(w), Unhurried
    PROVE  PlanningIInv'
  <1>1. CASE Fence(w) /\ Requested(w)
    <2>1. /\ attempts' \in [Generations -> [Ordinals -> AttemptStatuses]]
          /\ \A g \in Generations \ {th[w].generation} : attempts'[g] = attempts[g]
          /\ run.generation \notin retaken =>
                 \A n \in Ordinals : attempts'[run.generation][n] # "requested"
      BY <1>1, CloseEffect DEF CloseForRepair, At, AtWork, AttemptStatuses
    <2>2. /\ th' \in [Workers -> Threads]
          /\ th'[w].pc \in {"open", "reject"} /\ th'[w].generation = th[w].generation
          /\ th'[w].revision = th[w].revision
          /\ \A v \in Workers \ {w} : th'[v] = th[v]
      <3>1. CASE th' = [th EXCEPT ![w].pc = "open", ![w].no = @ + 1]
        BY <3>1 DEF CloseForRepair, At, PlanningIInv, PlanningTypeOK, Threads, ThreadFits,
           Points, Ordinals
      <3>2. CASE Reject(w, "PLAN_COMPILE_FAILED")
        BY <3>2, RejectEffect DEF PlanningIInv, PlanningTypeOK, Threads, Codes
      <3> QED
        BY <1>1, <3>1, <3>2 DEF CloseForRepair
    <2>3. QuietStep(w)
      BY <1>1, <2>1, <2>2, StillTyped DEF CloseForRepair, Unhurried, QuietStep
    <2>4. ThreadFits(w)'
      BY <1>1, <2>1, <2>2 DEF CloseForRepair, At, PlanningIInv, ThreadFits, HolderKnowsOpen,
         CallStaysRecorded, Fence, Asks
    <2> QED
      BY <2>3, <2>4, QuietStepKeeps
  <1>2. CASE ~(Fence(w) /\ Requested(w))
    BY <1>2, RejectKeeps DEF CloseForRepair, Unhurried, At, AtWork, Codes
  <1> QED
    BY <1>1, <1>2

LEMMA FinishAttemptKeeps ==
    ASSUME PlanningIInv, NEW w \in Workers, FinishAttempt(w), Unhurried
    PROVE  PlanningIInv'
  <1>1. CASE ~stopping[w] /\ Fence(w) /\ Requested(w)
    <2>1. Finish(w, "succeeded") /\ Goto(w, "activate") /\ UNCHANGED <<run, plans, retaken>>
      BY <1>1 DEF FinishAttempt
    <2>2. /\ attempts' \in [Generations -> [Ordinals -> AttemptStatuses]]
          /\ \A g \in Generations \ {th[w].generation} : attempts'[g] = attempts[g]
          /\ run.generation \notin retaken =>
                 \A n \in Ordinals : attempts'[run.generation][n] # "requested"
      BY <1>1, <2>1, CloseEffect DEF FinishAttempt, At, AtWork, AttemptStatuses
    <2>3. /\ th' \in [Workers -> Threads]
          /\ th'[w].pc = "activate" /\ th'[w].generation = th[w].generation
          /\ th'[w].no = th[w].no /\ th'[w].revision = th[w].revision
          /\ \A v \in Workers \ {w} : th'[v] = th[v]
      BY <2>1, GotoEffect DEF PlanningIInv, PlanningTypeOK, Threads, Points
    <2>4. QuietStep(w)
      BY <1>1, <2>1, <2>2, <2>3, StillTyped DEF Unhurried, QuietStep
    <2>5. ThreadFits(w)'
      BY <2>1, <2>2, <2>3 DEF FinishAttempt, At, PlanningIInv, ThreadFits, HolderKnowsOpen,
         CallStaysRecorded, Fence, Asks
    <2> QED
      BY <2>4, <2>5, QuietStepKeeps
  <1>2. CASE ~(~stopping[w] /\ Fence(w) /\ Requested(w))
    BY <1>2, RejectKeeps DEF FinishAttempt, Unhurried, At, AtWork, Codes
  <1> QED
    BY <1>1, <1>2

LEMMA CloseAttemptKeeps ==
    ASSUME PlanningIInv, NEW w \in Workers, NEW from \in {"pause", "reject"},
           NEW to \in {"paused", "rejected"}, CloseAttempt(w, from, to), Unhurried
    PROVE  PlanningIInv'
  <1>1. AtWork(w) /\ Goto(w, to) /\ UNCHANGED <<run, plans, retaken>>
    BY DEF CloseAttempt, AtWork, At
  <1>2. /\ th' \in [Workers -> Threads]
        /\ th'[w].pc = to /\ th'[w].generation = th[w].generation
        /\ th'[w].no = th[w].no /\ th'[w].revision = th[w].revision
        /\ \A v \in Workers \ {w} : th'[v] = th[v]
    BY <1>1, GotoEffect DEF PlanningIInv, PlanningTypeOK, Threads, Points
  <1>3. CASE Fence(w) /\ Requested(w) /\ th[w].revision # 0
    <2>1. /\ attempts' \in [Generations -> [Ordinals -> AttemptStatuses]]
          /\ \A g \in Generations \ {th[w].generation} : attempts'[g] = attempts[g]
          /\ run.generation \notin retaken =>
                 \A n \in Ordinals : attempts'[run.generation][n] # "requested"
      BY <1>1, <1>3, CloseEffect DEF CloseAttempt, AttemptStatuses
    <2>2. QuietStep(w)
      BY <1>1, <1>2, <1>3, <2>1, StillTyped DEF Unhurried, QuietStep
    <2>3. ThreadFits(w)'
      BY <1>1, <1>2, <2>1 DEF PlanningIInv, ThreadFits, HolderKnowsOpen, CallStaysRecorded,
         Fence, Asks
    <2> QED
      BY <2>2, <2>3, QuietStepKeeps
  <1>4. CASE ~(Fence(w) /\ Requested(w) /\ th[w].revision # 0)
    <2>1. attempts' = attempts
      BY <1>4 DEF CloseAttempt
    <2>2. QuietStep(w)
      BY <1>1, <1>2, <2>1, StillTyped DEF PlanningIInv, PlanningTypeOK, Unhurried, QuietStep
    <2>3. Fence(w) /\ run.generation \notin retaken =>
              \A n \in Ordinals : attempts[run.generation][n] # "requested"
      BY <1>1, <1>4 DEF PlanningIInv, ThreadFits, HolderKnowsOpen, Requested, Fence
    <2>4. ThreadFits(w)'
      BY <1>1, <1>2, <2>1, <2>3 DEF ThreadFits, HolderKnowsOpen, CallStaysRecorded,
         Fence, Asks
    <2> QED
      BY <2>2, <2>4, QuietStepKeeps
  <1> QED
    BY <1>3, <1>4

(* A thread that is back in its loop, or whose process is gone.            *)
LEMMA RestKeeps ==
    ASSUME PlanningIInv, NEW w \in Workers, NEW p \in {"off", "idle"}, Rest(w, p),
           UNCHANGED <<run, attempts, plans, retaken>>,
           stopping' \in [Workers -> BOOLEAN], trouble' \in 0 .. MaxTrouble
    PROVE  PlanningIInv'
  <1>1. /\ th' \in [Workers -> Threads] /\ th'[w].pc = p
        /\ \A v \in Workers \ {w} : th'[v] = th[v]
    BY RestEffect DEF PlanningIInv, PlanningTypeOK, Threads, Points
  <1>2. QuietStep(w)
    BY <1>1 DEF PlanningIInv, PlanningTypeOK, QuietStep
  <1>3. ThreadFits(w)'
    BY <1>1 DEF ThreadFits, AtWork, CallStaysRecorded, Asks
  <1> QED
    BY <1>2, <1>3, QuietStepKeeps

-----------------------------------------------------------------------------
(* Steps that take the run out of planning: nobody holds a lease on it any *)
(* more, and no attempt may be open then.                                  *)
NoneOpen(a) == \A g \in Generations \ retaken, n \in Ordinals : a[g][n] # "requested"

LeavingStep ==
    /\ run' \in Runs /\ run'.status # "planning"
    /\ run'.owner = NoWorker /\ run'.lease = "none"
    /\ attempts' \in [Generations -> [Ordinals -> AttemptStatuses]]
    /\ NoneOpen(attempts')
    /\ th' \in [Workers -> Threads]
    /\ \A v \in Workers : th'[v] = th[v] \/ th'[v].pc \in {"idle", "enqueue"}
    /\ plans' \in Seq(Plans)
    /\ UNCHANGED <<retaken, stopping, trouble>>

LEMMA LeavingStepKeeps ==
    ASSUME PlanningIInv, LeavingStep, PlanIsCurrent'
    PROVE  PlanningIInv'
  <1>1. PlanningTypeOK'
    BY DEF PlanningIInv, PlanningTypeOK, LeavingStep, Runs, Threads, Plans
  <1>2. RowFits'
    BY DEF RowFits, LeavingStep
  <1>3. ASSUME NEW v \in Workers
        PROVE  ThreadFits(v)'
    <2>1. ~Fence(v)'
      BY DEF Fence, LeavingStep
    <2>2. CASE th'[v] = th[v]
      BY <2>1, <2>2 DEF PlanningIInv, ThreadFits, AtWork, HolderKnowsOpen, CallStaysRecorded
    <2>3. CASE th'[v].pc \in {"idle", "enqueue"}
      BY <2>1, <2>3 DEF ThreadFits, AtWork, HolderKnowsOpen, CallStaysRecorded, Asks
    <2> QED
      BY <2>2, <2>3 DEF LeavingStep
  <1>4. NoOpenAttemptLeft'
    BY DEF NoOpenAttemptLeft, NoneOpen, LeavingStep
  <1> QED
    BY <1>1, <1>2, <1>3, <1>4 DEF PlanningIInv

(* A holder past its calls has closed what it opened; a run that is not    *)
(* planned has nothing open.                                               *)
LEMMA HolderLeavesNoneOpen ==
    ASSUME PlanningIInv, NEW w \in Workers, Fence(w), AtWork(w), th[w].pc \notin MayHaveOpen
    PROVE  NoneOpen(attempts)
  BY DEF PlanningIInv, NoneOpen, ThreadFits, HolderKnowsOpen, NoOpenAttemptLeft, Fence

LEMMA ActivateCompiledPlanKeeps ==
    ASSUME PlanningIInv, NEW w \in Workers, ActivateCompiledPlan(w), Unhurried
    PROVE  PlanningIInv'
  <1>1. CASE Fence(w) /\ run.revision = th[w].revision
    <2> DEFINE plan == [revision |-> th[w].revision, generation |-> th[w].generation]
    <2>1. plans' = Append(plans, plan) /\ Leave("ready") /\ Goto(w, "enqueue")
      BY <1>1 DEF ActivateCompiledPlan
    <2>2. /\ run' \in Runs /\ run'.status = "ready"
          /\ run'.owner = NoWorker /\ run'.lease = "none"
          /\ run'.generation = run.generation /\ run'.revision = run.revision
      BY <2>1, LeaveEffect DEF PlanningIInv, PlanningTypeOK, Runs, RunStatuses
    <2>3. /\ th' \in [Workers -> Threads] /\ th'[w].pc = "enqueue"
          /\ \A v \in Workers \ {w} : th'[v] = th[v]
      BY <2>1, GotoEffect DEF PlanningIInv, PlanningTypeOK, Threads, Points
    <2>4. plans = <<>>
      BY <1>1 DEF PlanningIInv, PlanIsCurrent, Fence
    <2>5. plan \in Plans
      <3>1. th[w].generation \in Generations
        BY <1>1, FencedGeneration DEF PlanningIInv
      <3>2. run.revision \in 1 .. MaxRevision
        BY DEF PlanningIInv, PlanningTypeOK
      <3> QED
        BY <1>1, <3>1, <3>2 DEF Plans
    <2>6. plans' = <<plan>> /\ plans' \in Seq(Plans) /\ Len(plans') = 1 /\ plans'[1] = plan
      <3> HIDE DEF plan
      <3> QED
        BY <2>1, <2>4, <2>5
    <2>7. NoneOpen(attempts)
      BY <1>1, HolderLeavesNoneOpen DEF ActivateCompiledPlan, At, AtWork, MayHaveOpen
    <2>8. LeavingStep
      BY <2>2, <2>3, <2>6, <2>7
         DEF ActivateCompiledPlan, Unhurried, PlanningIInv, PlanningTypeOK, LeavingStep
    <2>9. PlanIsCurrent'
      BY <1>1, <2>2, <2>6 DEF PlanIsCurrent, Fence
    <2> QED
      BY <2>8, <2>9, LeavingStepKeeps
  <1>2. CASE ~(Fence(w) /\ run.revision = th[w].revision)
    BY <1>2, RejectKeeps DEF ActivateCompiledPlan, Unhurried, At, AtWork, Codes
  <1> QED
    BY <1>1, <1>2

(* What is common to a pause, a rejection and a run given back.            *)
LEMMA GiveUpKeeps ==
    ASSUME PlanningIInv, NEW w \in Workers, Fence(w), AtWork(w), th[w].pc \notin MayHaveOpen,
           run' \in Runs, run'.status # "planning",
           run'.owner = NoWorker, run'.lease = "none",
           Rest(w, "idle"), UNCHANGED <<attempts, plans, retaken>>, Unhurried
    PROVE  PlanningIInv'
  <1>1. plans = <<>>
    BY DEF PlanningIInv, PlanIsCurrent, Fence
  <1>2. /\ th' \in [Workers -> Threads] /\ th'[w].pc = "idle"
        /\ \A v \in Workers \ {w} : th'[v] = th[v]
    BY RestEffect DEF PlanningIInv, PlanningTypeOK, Threads, Points
  <1>3. LeavingStep
    BY <1>2, HolderLeavesNoneOpen
       DEF Unhurried, PlanningIInv, PlanningTypeOK, LeavingStep, Plans
  <1>4. PlanIsCurrent'
    BY <1>1 DEF PlanIsCurrent
  <1> QED
    BY <1>3, <1>4, LeavingStepKeeps

LEMMA PausePlanningKeeps ==
    ASSUME PlanningIInv, NEW w \in Workers, PausePlanning(w), Unhurried
    PROVE  PlanningIInv'
  <1>1. CASE Fence(w)
    <2>1. /\ run' \in Runs /\ run'.status # "planning"
          /\ run'.owner = NoWorker /\ run'.lease = "none"
      BY <1>1, LeaveEffect DEF PausePlanning, PlanningIInv, PlanningTypeOK, Runs, RunStatuses
    <2> QED
      BY <1>1, <2>1, GiveUpKeeps DEF PausePlanning, At, AtWork, MayHaveOpen
  <1>2. CASE ~Fence(w)
    BY <1>2, RestKeeps, StillTyped DEF PausePlanning, Unhurried
  <1> QED
    BY <1>1, <1>2

LEMMA RejectPlanningKeeps ==
    ASSUME PlanningIInv, NEW w \in Workers, RejectPlanning(w), Unhurried
    PROVE  PlanningIInv'
  <1>1. CASE run' = run
    BY <1>1, RestKeeps, StillTyped DEF RejectPlanning, Unhurried
  <1>2. CASE th[w].code = "WORKER_SHUTDOWN" /\ run' # run
    <2>1. /\ run.owner = w /\ run.generation = th[w].generation /\ run.lease = "live"
          /\ run' = [run EXCEPT !.status = "queued", !.owner = NoWorker, !.lease = "none"]
      BY <1>2 DEF RejectPlanning
    <2>2. Fence(w)
      BY <2>1 DEF Fence, PlanningIInv, RowFits
    <2>3. /\ run' \in Runs /\ run'.status # "planning"
          /\ run'.owner = NoWorker /\ run'.lease = "none"
      BY <2>1 DEF PlanningIInv, PlanningTypeOK, Runs, RunStatuses
    <2> QED
      BY <2>2, <2>3, GiveUpKeeps DEF RejectPlanning, At, AtWork, MayHaveOpen
  <1>3. CASE th[w].code # "WORKER_SHUTDOWN" /\ run' # run
    <2>1. Fence(w) /\ Leave("failed")
      BY <1>3 DEF RejectPlanning
    <2>2. /\ run' \in Runs /\ run'.status # "planning"
          /\ run'.owner = NoWorker /\ run'.lease = "none"
      BY <2>1, LeaveEffect DEF PlanningIInv, PlanningTypeOK, Runs, RunStatuses
    <2> QED
      BY <2>1, <2>2, GiveUpKeeps DEF RejectPlanning, At, AtWork, MayHaveOpen
  <1> QED
    BY <1>1, <1>2, <1>3

-----------------------------------------------------------------------------
(* Claims.                                                                 *)
LEMMA RequestingThread ==
    ASSUME th \in [Workers -> Threads], NEW w \in Workers, NEW g \in 0 .. MaxGeneration,
           th' = [th EXCEPT ![w] = [Thread("request") EXCEPT !.generation = g]]
    PROVE  /\ th' \in [Workers -> Threads]
           /\ th'[w].pc = "request" /\ th'[w].generation = g
           /\ \A v \in Workers \ {w} : th'[v] = th[v]
  <1>1. Thread("request") \in Threads /\ Thread("request").pc = "request"
    BY ThreadTyped DEF Points
  <1>2. [Thread("request") EXCEPT !.generation = g] \in Threads
    BY <1>1 DEF Threads
  <1> QED
    BY <1>1, <1>2 DEF Threads

LEMMA TakeBackKeeps ==
    ASSUME PlanningIInv, NEW w \in Workers, TakeBack(w), Unhurried
    PROVE  PlanningIInv'
  <1>1. run.generation \in Generations /\ run.generation \in 0 .. MaxGeneration
    BY DEF PlanningIInv, RowFits, PlanningTypeOK, TakeBack
  <1>2. /\ th' \in [Workers -> Threads]
        /\ th'[w].pc = "request" /\ th'[w].generation = run.generation
        /\ \A v \in Workers \ {w} : th'[v] = th[v]
    BY <1>1, RequestingThread DEF PlanningIInv, PlanningTypeOK, Threads, TakeBack
  <1>3. PlanningTypeOK'
    BY <1>1, <1>2 DEF PlanningIInv, PlanningTypeOK, TakeBack, Unhurried, Threads
  <1>4. RowFits' /\ PlanIsCurrent' /\ NoOpenAttemptLeft'
    BY DEF PlanningIInv, RowFits, PlanIsCurrent, NoOpenAttemptLeft, TakeBack
  <1>5. ASSUME NEW v \in Workers
        PROVE  ThreadFits(v)'
    <2>1. CASE v = w
      BY <1>2, <2>1 DEF TakeBack, ThreadFits, HolderKnowsOpen, CallStaysRecorded, Asks
    <2>2. CASE v # w
      BY <1>2, <2>2 DEF PlanningIInv, TakeBack, ThreadFits, AtWork, HolderKnowsOpen,
         CallStaysRecorded, Fence
    <2> QED
      BY <2>1, <2>2
  <1> QED
    BY <1>3, <1>4, <1>5 DEF PlanningIInv

LEMMA ClaimAfreshKeeps ==
    ASSUME PlanningIInv, NEW w \in Workers, ClaimAfresh(w), Unhurried
    PROVE  PlanningIInv'
  <1>1. run.generation \in 0 .. MaxGeneration /\ run.generation + 1 \in Generations
        /\ run.generation + 1 \in 0 .. MaxGeneration /\ run.version + 1 \in Nat
    BY PlanningAssumption DEF PlanningIInv, PlanningTypeOK, ClaimAfresh, Generations
  <1>2. /\ run' \in Runs /\ run'.status = "planning" /\ run'.owner = w
        /\ run'.lease = "live" /\ run'.generation = run.generation + 1
    BY <1>1 DEF PlanningIInv, PlanningTypeOK, Runs, ClaimAfresh, RunStatuses
  <1>3. /\ th' \in [Workers -> Threads]
        /\ th'[w].pc = "request"
        /\ \A v \in Workers \ {w} : th'[v] = th[v]
    BY <1>1, RequestingThread DEF PlanningIInv, PlanningTypeOK, Threads, ClaimAfresh
  <1>4. /\ attempts' \in [Generations -> [Ordinals -> AttemptStatuses]]
        /\ \A g \in Generations, n \in Ordinals : attempts'[g][n] # "requested"
    BY CloseRequestedEffect DEF PlanningIInv, PlanningTypeOK, ClaimAfresh
  <1>5. plans = <<>> /\ plans' = plans
    BY DEF PlanningIInv, PlanIsCurrent, ClaimAfresh, Claimable
  <1>6. PlanningTypeOK'
    BY <1>2, <1>3, <1>4, <1>5
       DEF PlanningIInv, PlanningTypeOK, ClaimAfresh, Unhurried, Runs, Threads
  <1>7. w # NoWorker
    BY PlanningAssumption
  <1>8. RowFits'
    BY <1>1, <1>2, <1>7 DEF RowFits
  <1>9. PlanIsCurrent' /\ NoOpenAttemptLeft'
    BY <1>4, <1>5 DEF PlanIsCurrent, NoOpenAttemptLeft
  <1>10. ASSUME NEW v \in Workers
         PROVE  ThreadFits(v)'
    <2>1. CASE v = w
      BY <1>2, <1>3, <1>4, <1>1, <2>1 DEF ThreadFits, HolderKnowsOpen, CallStaysRecorded, Asks
    <2>2. CASE v # w
      BY <1>2, <1>3, <2>2 DEF PlanningIInv, ThreadFits, AtWork, HolderKnowsOpen,
         CallStaysRecorded, Fence
    <2> QED
      BY <2>1, <2>2
  <1> QED
    BY <1>6, <1>8, <1>9, <1>10 DEF PlanningIInv

-----------------------------------------------------------------------------
(* The API, time, and processes.                                           *)
LEMMA ApplyCancelKeeps ==
    ASSUME PlanningIInv, ApplyCancel
    PROVE  PlanningIInv'
  <1>1. /\ run' \in Runs /\ run'.status # "planning"
        /\ run'.owner = NoWorker /\ run'.lease = "none"
    BY LeaveEffect DEF ApplyCancel, PlanningIInv, PlanningTypeOK, Runs, RunStatuses
  <1>2. /\ attempts' \in [Generations -> [Ordinals -> AttemptStatuses]]
        /\ NoneOpen(attempts')
    BY CloseRequestedEffect DEF ApplyCancel, NoneOpen, PlanningIInv, PlanningTypeOK
  <1>3. plans = <<>> /\ plans' = plans
    BY DEF ApplyCancel, PlanningIInv, PlanIsCurrent
  <1>4. LeavingStep
    BY <1>1, <1>2 DEF ApplyCancel, PlanningIInv, PlanningTypeOK, LeavingStep, Plans, Threads
  <1>5. PlanIsCurrent'
    BY <1>3 DEF PlanIsCurrent
  <1> QED
    BY <1>4, <1>5, LeavingStepKeeps

(* A run that is not in planning changes its status without a plan.        *)
LEMMA UnleasedKeeps ==
    ASSUME PlanningIInv, run.status # "planning", plans = <<>>,
           run' \in Runs, run'.status # "planning",
           run'.owner = run.owner, run'.lease = run.lease,
           UNCHANGED <<attempts, plans, th, retaken, stopping, trouble>>
    PROVE  PlanningIInv'
  <1>1. LeavingStep
    BY DEF PlanningIInv, PlanningTypeOK, RowFits, NoOpenAttemptLeft, NoneOpen, LeavingStep,
       Plans, Threads
  <1>2. PlanIsCurrent'
    BY DEF PlanIsCurrent
  <1> QED
    BY <1>1, <1>2, LeavingStepKeeps

LEMMA FinalizeCancelKeeps ==
    ASSUME PlanningIInv, FinalizeCancel
    PROVE  PlanningIInv'
  <1>1. run.version + 1 \in Nat
    BY DEF PlanningIInv, PlanningTypeOK
  <1>2. /\ run' \in Runs /\ run'.status # "planning"
        /\ run'.owner = run.owner /\ run'.lease = run.lease
    BY <1>1 DEF FinalizeCancel, PlanningIInv, PlanningTypeOK, Runs, RunStatuses
  <1>3. plans = <<>>
    BY DEF FinalizeCancel, PlanningIInv, PlanIsCurrent
  <1> QED
    BY <1>2, <1>3, UnleasedKeeps DEF FinalizeCancel

LEMMA ApplyResumeKeeps ==
    ASSUME PlanningIInv, ApplyResume
    PROVE  PlanningIInv'
  <1>1. run.version + 1 \in Nat /\ run.revision + 1 \in 1 .. MaxRevision
    BY PlanningAssumption DEF ApplyResume, PlanningIInv, PlanningTypeOK
  <1>2. /\ run' \in Runs /\ run'.status # "planning"
        /\ run'.owner = run.owner /\ run'.lease = run.lease
    BY <1>1 DEF ApplyResume, PlanningIInv, PlanningTypeOK, Runs, RunStatuses
  <1>3. plans = <<>>
    BY DEF ApplyResume, PlanningIInv, PlanIsCurrent
  <1> QED
    BY <1>2, <1>3, UnleasedKeeps DEF ApplyResume

(* A lease that ran out, or was of a process that died, is nobody's.       *)
LEMMA LostLeaseKeeps ==
    ASSUME PlanningIInv, run.status = "planning", run' \in Runs,
           run'.status = run.status, run'.generation = run.generation,
           run'.lease # "none", run'.owner # NoWorker,
           \A v \in Workers : ~Fence(v)',
           th' \in [Workers -> Threads],
           \A v \in Workers : th'[v] = th[v] \/ th'[v].pc = "off",
           stopping' \in [Workers -> BOOLEAN], trouble' \in 0 .. MaxTrouble,
           UNCHANGED <<attempts, plans, retaken>>
    PROVE  PlanningIInv'
  <1>1. PlanningTypeOK'
    BY DEF PlanningIInv, PlanningTypeOK, Runs, Threads
  <1>2. RowFits'
    BY DEF PlanningIInv, RowFits
  <1>3. ASSUME NEW v \in Workers
        PROVE  ThreadFits(v)'
    <2>1. ~Fence(v)'
      OBVIOUS
    <2>2. CASE th'[v] = th[v]
      BY <2>1, <2>2 DEF PlanningIInv, ThreadFits, AtWork, HolderKnowsOpen, CallStaysRecorded
    <2>3. CASE th'[v].pc = "off"
      BY <2>1, <2>3 DEF ThreadFits, AtWork, HolderKnowsOpen, CallStaysRecorded, Asks
    <2> QED
      BY <2>2, <2>3
  <1>4. NoOpenAttemptLeft' /\ PlanIsCurrent'
    BY DEF PlanningIInv, NoOpenAttemptLeft, PlanIsCurrent
  <1> QED
    BY <1>1, <1>2, <1>3, <1>4 DEF PlanningIInv

LEMMA LeaseRunsOutKeeps ==
    ASSUME PlanningIInv, LeaseRunsOut
    PROVE  PlanningIInv'
  <1>1. /\ run' \in Runs /\ run'.status = run.status /\ run'.owner = run.owner
        /\ run'.generation = run.generation /\ run'.lease = "expired"
    BY DEF LeaseRunsOut, PlanningIInv, PlanningTypeOK, Runs
  <1>2. run.status = "planning" /\ run.owner # NoWorker
    BY DEF LeaseRunsOut, PlanningIInv, RowFits
  <1>3. \A v \in Workers : ~Fence(v)'
    BY <1>1 DEF Fence
  <1> QED
    BY <1>1, <1>2, <1>3, LostLeaseKeeps
       DEF LeaseRunsOut, PlanningIInv, PlanningTypeOK, Threads

LEMMA TroubleTyped ==
    ASSUME PlanningIInv, NEW w \in Workers, Trouble(w)
    PROVE  trouble' \in 0 .. MaxTrouble
  BY PlanningAssumption DEF PlanningIInv, PlanningTypeOK, Trouble

LEMMA CrashKeeps ==
    ASSUME PlanningIInv, NEW w \in Workers, Crash(w)
    PROVE  PlanningIInv'
  <1>1. trouble' \in 0 .. MaxTrouble /\ stopping' \in [Workers -> BOOLEAN]
    BY TroubleTyped DEF Crash, PlanningIInv, PlanningTypeOK
  <1>2. CASE run.owner = w /\ w \notin NamesRecur
    <2>1. /\ run' \in Runs /\ run'.status = run.status /\ run'.owner = DeadName
          /\ run'.generation = run.generation /\ run'.lease = run.lease
      BY <1>2 DEF Crash, PlanningIInv, PlanningTypeOK, Runs
    <2>2. w # NoWorker /\ DeadName # NoWorker /\ DeadName \notin Workers
      BY PlanningAssumption
    <2>3. run.status = "planning" /\ run'.lease # "none"
      BY <1>2, <2>1, <2>2 DEF PlanningIInv, RowFits
    <2>4. \A v \in Workers : ~Fence(v)'
      BY <2>1, <2>2 DEF Fence
    <2>5. /\ th' \in [Workers -> Threads] /\ th'[w].pc = "off"
          /\ \A v \in Workers \ {w} : th'[v] = th[v]
      BY RestEffect DEF Crash, PlanningIInv, PlanningTypeOK, Threads, Points
    <2> QED
      BY <1>1, <2>1, <2>2, <2>3, <2>4, <2>5, LostLeaseKeeps DEF Crash
  <1>3. CASE ~(run.owner = w /\ w \notin NamesRecur)
    BY <1>1, <1>3, RestKeeps DEF Crash
  <1> QED
    BY <1>2, <1>3

LEMMA BootKeeps ==
    ASSUME PlanningIInv, NEW w \in Workers, Boot(w)
    PROVE  PlanningIInv'
  <1>1. /\ th' \in [Workers -> Threads] /\ th'[w].pc = "idle"
        /\ \A v \in Workers \ {w} : th'[v] = th[v]
    BY GotoEffect DEF Boot, PlanningIInv, PlanningTypeOK, Threads, Points
  <1>2. stopping' \in [Workers -> BOOLEAN] /\ trouble' \in 0 .. MaxTrouble
    BY DEF Boot, PlanningIInv, PlanningTypeOK
  <1>3. QuietStep(w)
    BY <1>1, <1>2 DEF Boot, PlanningIInv, PlanningTypeOK, QuietStep
  <1>4. ThreadFits(w)'
    BY <1>1 DEF ThreadFits, AtWork, CallStaysRecorded, Asks
  <1> QED
    BY <1>3, <1>4, QuietStepKeeps

LEMMA StopKeeps ==
    ASSUME PlanningIInv, NEW w \in Workers, Stop(w)
    PROVE  PlanningIInv'
  <1>1. stopping' \in [Workers -> BOOLEAN] /\ trouble' \in 0 .. MaxTrouble
    BY TroubleTyped DEF Stop, PlanningIInv, PlanningTypeOK
  <1>2. QuietStep(w)
    BY <1>1 DEF Stop, PlanningIInv, PlanningTypeOK, Threads, QuietStep
  <1>3. ThreadFits(w)'
    BY DEF Stop, PlanningIInv, ThreadFits, AtWork, HolderKnowsOpen, CallStaysRecorded,
       Fence, Requested
  <1> QED
    BY <1>2, <1>3, QuietStepKeeps

LEMMA DownKeeps ==
    ASSUME PlanningIInv, NEW w \in Workers, Down(w)
    PROVE  PlanningIInv'
  BY RestKeeps, StillTyped DEF Down

-----------------------------------------------------------------------------
LEMMA PlanOnceKeeps ==
    ASSUME PlanningIInv, NEW w \in Workers, PlanOnce(w)
    PROVE  PlanningIInv'
  <1>1. Unhurried
    BY DEF PlanOnce, Unhurried
  <1>2. CASE PlannerRequest(w)
    BY <1>1, <1>2, PlannerRequestKeeps
  <1>3. CASE CreatePlannerAttempt(w)
    BY <1>1, <1>3, CreatePlannerAttemptKeeps
  <1>4. CASE CallPlanner(w)
    BY <1>1, <1>4, CallPlannerKeeps
  <1>5. CASE PlannerAnswers(w)
    BY <1>1, <1>5, PlannerAnswersKeeps
  <1>6. CASE CloseForRepair(w)
    BY <1>1, <1>6, CloseForRepairKeeps
  <1>7. CASE FinishAttempt(w)
    BY <1>1, <1>7, FinishAttemptKeeps
  <1>8. CASE ActivateCompiledPlan(w)
    BY <1>1, <1>8, ActivateCompiledPlanKeeps
  <1>9. CASE EnqueuePlan(w)
    BY <1>1, <1>9, RestKeeps, StillTyped DEF EnqueuePlan, Unhurried
  <1>10. CASE CloseAttempt(w, "pause", "paused")
    BY <1>1, <1>10, CloseAttemptKeeps
  <1>11. CASE PausePlanning(w)
    BY <1>1, <1>11, PausePlanningKeeps
  <1>12. CASE CloseAttempt(w, "reject", "rejected")
    BY <1>1, <1>12, CloseAttemptKeeps
  <1>13. CASE RejectPlanning(w)
    BY <1>1, <1>13, RejectPlanningKeeps
  <1> QED
    BY <1>2, <1>3, <1>4, <1>5, <1>6, <1>7, <1>8, <1>9, <1>10, <1>11, <1>12, <1>13
       DEF PlanOnce

LEMMA PlanningIInvInit == Init => PlanningIInv
  <1> SUFFICES ASSUME Init
               PROVE  PlanningIInv
    OBVIOUS
  <1>1. PlanningTypeOK
    BY InitTyped
  <1>2. RowFits /\ NoOpenAttemptLeft /\ PlanIsCurrent
    BY DEF Init, RowFits, NoOpenAttemptLeft, PlanIsCurrent, Generations, Ordinals
  <1>3. ASSUME NEW w \in Workers
        PROVE  ThreadFits(w)
    BY DEF Init, Thread, ThreadFits, AtWork, CallStaysRecorded, Asks
  <1> QED
    BY <1>1, <1>2, <1>3 DEF PlanningIInv

LEMMA PlanningIInvStep == PlanningIInv /\ [Next]_vars => PlanningIInv'
  <1> SUFFICES ASSUME PlanningIInv, [Next]_vars
               PROVE  PlanningIInv'
    OBVIOUS
  <1>1. ASSUME NEW w \in Workers, Process(w)
        PROVE  PlanningIInv'
    <2>1. CASE Boot(w)
      BY <2>1, BootKeeps
    <2>2. CASE ClaimPlanningRun(w)
      BY <2>2, TakeBackKeeps, ClaimAfreshKeeps DEF ClaimPlanningRun, Unhurried
    <2>3. CASE PlanOnce(w)
      BY <2>3, PlanOnceKeeps
    <2>4. CASE Down(w)
      BY <2>4, DownKeeps
    <2> QED
      BY <1>1, <2>1, <2>2, <2>3, <2>4 DEF Process
  <1>2. ASSUME NEW w \in Workers, Stop(w) \/ Crash(w)
        PROVE  PlanningIInv'
    BY <1>2, StopKeeps, CrashKeeps
  <1>3. CASE ApplyCancel \/ FinalizeCancel \/ ApplyResume \/ LeaseRunsOut
    BY <1>3, ApplyCancelKeeps, FinalizeCancelKeeps, ApplyResumeKeeps, LeaseRunsOutKeeps
  <1>4. CASE UNCHANGED vars
    BY <1>4 DEF vars, PlanningIInv, PlanningTypeOK, RowFits, ThreadFits, AtWork,
       HolderKnowsOpen, CallStaysRecorded, Fence, Requested, NoOpenAttemptLeft, PlanIsCurrent
  <1> QED
    BY <1>1, <1>2, <1>3, <1>4 DEF Next

LEMMA PlanningInvariant == Spec => []PlanningIInv
  BY PlanningIInvInit, PlanningIInvStep, PTL DEF Spec

(* The row of the run, its attempts and the threads keep their types.      *)
THEOREM PlanningTypeCorrect == Spec => []PlanningTypeOK
  BY PlanningInvariant, PTL DEF PlanningIInv

(* Whatever crashes, expires or is cancelled while a provider is asked, no *)
(* attempt stays "requested" beyond the lease it was opened under; only a  *)
(* generation taken back by a process with the old name is excepted.       *)
THEOREM AttemptsAreClosed == Spec => []NoOpenAttemptLeft
  BY PlanningInvariant, PTL DEF PlanningIInv

(* While a provider works for the holder of the lease, planner_attempts    *)
(* says so (_call_planner_with_lease_heartbeat).                           *)
THEOREM CallsAreRecorded == Spec => []CallIsRecorded
  <1>1. PlanningIInv => CallIsRecorded
    BY DEF PlanningIInv, ThreadFits, CallStaysRecorded, CallIsRecorded, At
  <1> QED
    BY <1>1, PlanningInvariant, PTL

(* activate_compiled_plan: one plan at most, from the input as it is and   *)
(* from the last lease, however late providers answer and to whom.         *)
THEOREM PlanStaysCurrent == Spec => []PlanIsCurrent
  BY PlanningInvariant, PTL DEF PlanningIInv
=============================================================================
