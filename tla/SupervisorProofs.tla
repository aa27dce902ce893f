-------------------------- MODULE SupervisorProofs --------------------------
(***************************************************************************)
(* Machine-checked proofs about Supervisor, for every set of runs, tasks   *)
(* and workers, every policy and every set of commands: each of its steps  *)
(* is a step of TaskQueue, so that all that TaskQueueProofs shows of the   *)
(* queue holds under the real supervisor; its own state keeps its types;   *)
(* and no side effect happens without its confirmation.                    *)
(***************************************************************************)
EXTENDS Supervisor, TaskQueueProofs

(* Where the thread is about one claim: it then knows task and generation. *)
Holding == {"ensure", "walk", "start", "spawn", "identify", "watch", "finish",
            "judge", "decide", "put_back", "fail_attempt", "fail_task", "drop",
            "report", "raise"}
Settling == {"settle", "resolve", "aggregate"}

(* After settling the thread may go back to an exception about its claim.  *)
HasClaim == th.task \in Tasks /\ th.gen \in Generations

ThreadKnows ==
    /\ th.pc # "down" => worker \in Workers
    /\ th.pc \in Holding => HasClaim
    /\ th.pc \in Settling => /\ th.then \in {"poll", "raise", "dead"}
                             /\ th.then = "raise" => HasClaim
    /\ th.pc \in {"resolve", "aggregate"} => th.left # {}

ThreadFits == th \in ThreadStates /\ ThreadKnows

(* A request that is being handled is about a run.                         *)
RequestsKnow == \A s \in Slots : request[s].pc # "idle" => request[s].run \in Runs
RequestsFit == request \in [Slots -> Requests] /\ RequestsKnow

ChildrenFit == child \in [Tasks -> [Generations -> Children]]

ProcessFits ==
    /\ worker \in Workers \cup {NoWorker}
    /\ started \in SUBSET Workers
    /\ stopping \in BOOLEAN

(* The child of a side effect that passed its checks was confirmed, and so *)
(* was every side effect that happened.                                    *)
ConfirmedEffects ==
    /\ \A t \in SideEffect, g \in Generations :
          child[t][g].state = "checked" => t \in confirmed
    /\ EffectNeedsConfirmation

(* Nobody but the checks of the child itself lets it pass them.            *)
ChildrenKeep ==
    /\ ChildrenFit'
    /\ \A t \in Tasks, g \in Generations :
          child'[t][g].state = "checked" => child[t][g].state = "checked"

SupIInv ==
    /\ IInv
    /\ ProcessFits
    /\ due \in SUBSET Tasks
    /\ ThreadFits
    /\ ChildrenFit
    /\ RequestsFit
    /\ effects \in [SideEffect -> Nat]
    /\ ConfirmedEffects

-----------------------------------------------------------------------------
(***************************************************************************)
(* What each move of the thread leaves in th.                              *)
(***************************************************************************)
LEMMA WalksTyped ==
    /\ <<>> \in Walks
    /\ \A s \in DOMAIN Walk : Walk[s] \in Walks
    /\ \A w \in Walks : w # <<>> =>
          Tail(w) \in Walks /\ Head(w) \in {"planning", "ready", "running"}
  BY DEF Walks, Walk

LEMMA AtRest ==
    ASSUME NEW p \in ThreadPcs
    PROVE  Thread(p) \in ThreadStates /\ Thread(p).pc = p
  BY TaskQueueAssumption, WalksTyped DEF Thread, ThreadStates, Codes, Failures

(* A move to a place that is about no claim and settles nothing.           *)
LEMMA PlainPlaceFits ==
    ASSUME th' \in ThreadStates, th'.pc \notin Holding \cup Settling,
           th'.pc # "down" => worker' \in Workers
    PROVE  ThreadFits'
  BY DEF ThreadFits, ThreadKnows, HasClaim, Settling

(* A move that keeps the claim.                                            *)
LEMMA ClaimPlaceFits ==
    ASSUME th' \in ThreadStates, th'.pc \in Holding, worker' \in Workers,
           th'.task \in Tasks, th'.gen \in Generations
    PROVE  ThreadFits'
  BY DEF ThreadFits, ThreadKnows, HasClaim, Holding, Settling

LEMMA SettlingPlaceFits ==
    ASSUME th' \in ThreadStates, th'.pc \in Settling, worker' \in Workers,
           th'.then \in {"poll", "raise", "dead"},
           th'.then = "raise" => th'.task \in Tasks /\ th'.gen \in Generations,
           th'.pc # "settle" => th'.left # {}
    PROVE  ThreadFits'
  BY DEF ThreadFits, ThreadKnows, HasClaim, Holding, Settling

LEMMA GotoMoves ==
    ASSUME th \in ThreadStates, NEW p \in ThreadPcs, Goto(p)
    PROVE  /\ th' \in ThreadStates
           /\ th'.pc = p /\ th'.task = th.task /\ th'.gen = th.gen
           /\ th'.left = th.left /\ th'.then = th.then
  BY DEF Goto, ThreadStates

LEMMA PollFits ==
    ASSUME ThreadFits, worker' = worker, th.pc # "down", Poll
    PROVE  ThreadFits'
<1>1. th' \in ThreadStates /\ th'.pc = "poll"
  BY AtRest DEF Poll, ThreadPcs
<1>2. QED
  BY <1>1, PlainPlaceFits DEF ThreadFits, ThreadKnows, Holding, Settling

LEMMA GotoFits ==
    ASSUME ThreadFits, worker' = worker, th.pc # "down",
           NEW p \in ThreadPcs \ Settling, p # "down",
           p \in Holding => HasClaim, Goto(p)
    PROVE  ThreadFits'
<1>1. th' \in ThreadStates /\ th'.pc = p /\ th'.task = th.task /\ th'.gen = th.gen
  BY GotoMoves DEF ThreadFits
<1>2. worker' \in Workers
  BY DEF ThreadFits, ThreadKnows
<1>3. CASE p \in Holding
  BY <1>1, <1>2, <1>3, ClaimPlaceFits DEF HasClaim
<1>4. CASE p \notin Holding
  BY <1>1, <1>2, <1>4, PlainPlaceFits
<1>5. QED
  BY <1>3, <1>4

LEMMA SettleFits ==
    ASSUME ThreadFits, worker' = worker, th.pc # "down",
           NEW Rs \in SUBSET Runs, NEW then \in {"poll", "raise", "dead"},
           then = "raise" => HasClaim, Settle(Rs, then)
    PROVE  ThreadFits'
<1>1. /\ th' \in ThreadStates /\ th'.pc = "settle"
      /\ th'.task = th.task /\ th'.gen = th.gen /\ th'.then = then
  BY DEF ThreadFits, Settle, ThreadStates, ThreadPcs
<1>2. worker' \in Workers
  BY DEF ThreadFits, ThreadKnows
<1>3. QED
  BY <1>1, <1>2, SettlingPlaceFits DEF HasClaim, Settling

LEMMA RaiseFits ==
    ASSUME ThreadFits, worker' = worker, th.pc # "down", HasClaim,
           NEW code \in Codes, Raise(code)
    PROVE  ThreadFits'
<1>1. /\ th' \in ThreadStates /\ th'.pc = "judge"
      /\ th'.task = th.task /\ th'.gen = th.gen
  BY DEF ThreadFits, Raise, ThreadStates, ThreadPcs
<1>2. worker' \in Workers
  BY DEF ThreadFits, ThreadKnows
<1>3. QED
  BY <1>1, <1>2, ClaimPlaceFits DEF HasClaim, Holding

LEMMA ClaimFits ==
    ASSUME ThreadFits, worker' = worker, th.pc # "down",
           NEW t \in Tasks, NEW g \in Generations, Claim(t, g)
    PROVE  ThreadFits'
<1>1. Thread("ensure") \in ThreadStates /\ Thread("ensure").pc = "ensure"
  BY AtRest DEF ThreadPcs
<1>2. th' = [[Thread("ensure") EXCEPT !.task = t] EXCEPT !.gen = g]
  BY <1>1 DEF Claim, ThreadStates
<1>3. g \in 0 .. MaxGeneration
  BY TaskQueueAssumption DEF Generations
<1>4. /\ th' \in ThreadStates /\ th'.pc = "ensure" /\ th'.task = t /\ th'.gen = g
  BY <1>1, <1>2, <1>3 DEF ThreadStates
<1>5. worker' \in Workers
  BY DEF ThreadFits, ThreadKnows
<1>6. QED
  BY <1>4, <1>5, ClaimPlaceFits DEF Holding

(* A move that keeps the claim and sets one local variable of run_once.    *)
LEMMA LocalFits ==
    ASSUME ThreadFits, worker' = worker, th.pc # "down", HasClaim, NEW p \in Holding,
           \/ \E w \in Walks : th' = [th EXCEPT !.pc = p, !.walk = w]
           \/ \E b \in BOOLEAN : th' = [th EXCEPT !.pc = p, !.stale = b]
           \/ \E b \in BOOLEAN : th' = [th EXCEPT !.pc = p, !.current = b]
           \/ \E s \in {"poll", "settle", "report"} : th' = [th EXCEPT !.pc = p, !.then = s]
    PROVE  ThreadFits'
<1>1. p \in ThreadPcs
  BY DEF Holding, ThreadPcs
<1>2. /\ th' \in ThreadStates /\ th'.pc = p
      /\ th'.task = th.task /\ th'.gen = th.gen
  <2>1. CASE \E w \in Walks : th' = [th EXCEPT !.pc = p, !.walk = w]
    BY <1>1, <2>1 DEF ThreadFits, ThreadStates
  <2>2. CASE \E b \in BOOLEAN : th' = [th EXCEPT !.pc = p, !.stale = b]
    BY <1>1, <2>2 DEF ThreadFits, ThreadStates
  <2>3. CASE \E b \in BOOLEAN : th' = [th EXCEPT !.pc = p, !.current = b]
    BY <1>1, <2>3 DEF ThreadFits, ThreadStates
  <2>4. CASE \E s \in {"poll", "settle", "report"} : th' = [th EXCEPT !.pc = p, !.then = s]
    BY <1>1, <2>4 DEF ThreadFits, ThreadStates
  <2>5. QED
    BY <2>1, <2>2, <2>3, <2>4
<1>3. worker' \in Workers
  BY DEF ThreadFits, ThreadKnows
<1>4. QED
  BY <1>2, <1>3, ClaimPlaceFits DEF HasClaim

-----------------------------------------------------------------------------
(***************************************************************************)
(* One lemma per action of the thread: it always knows where it is.        *)
(***************************************************************************)
LEMMA RecoverCancellingRunsFits ==
    ASSUME ThreadFits, worker' = worker, RecoverCancellingRuns PROVE ThreadFits'
<1>1. CASE Goto("recover")
  BY <1>1, GotoFits DEF RecoverCancellingRuns, ThreadPcs, Settling, Holding
<1>2. CASE \E r \in th.left : th' = [th EXCEPT !.left = @ \ {r}]
  <2>1. th' \in ThreadStates /\ th'.pc = "boot"
    BY <1>2 DEF RecoverCancellingRuns, ThreadFits, ThreadStates
  <2>2. worker' \in Workers
    BY DEF RecoverCancellingRuns, ThreadFits, ThreadKnows
  <2>3. QED
    BY <2>1, <2>2, PlainPlaceFits DEF Holding, Settling
<1>3. QED
  BY <1>1, <1>2 DEF RecoverCancellingRuns

LEMMA RecoverStepFits ==
    ASSUME ThreadFits, worker' = worker, RecoverStep PROVE ThreadFits'
<1>1. CASE th.pc = "recover" /\ Goto("terminal")
  BY <1>1, GotoFits DEF ThreadPcs, Settling, Holding
<1>2. CASE th.pc = "poll" /\ Goto("claim")
  BY <1>2, GotoFits DEF ThreadPcs, Settling, Holding
<1>3. CASE th.pc = "hand_over" /\ Settle(th.left, "dead")
  <2>1. th.left \in SUBSET Runs
    BY DEF ThreadFits, ThreadStates
  <2>2. QED
    BY <1>3, <2>1, SettleFits
<1>4. QED
  BY <1>1, <1>2, <1>3 DEF RecoverStep

LEMMA LeaveLoopFits ==
    ASSUME ThreadFits, worker' = worker, LeaveLoop PROVE ThreadFits'
  BY GotoFits DEF LeaveLoop, Die, ThreadPcs, Settling, Holding

LEMMA RecoverTerminalRunsFits ==
    ASSUME ThreadFits, worker' = worker, RecoverTerminalRuns PROVE ThreadFits'
<1>1. CASE Poll
  BY <1>1, PollFits DEF RecoverTerminalRuns
<1>2. CASE \E Rs \in SUBSET Runs : Settle(Rs, "poll")
  BY <1>2, SettleFits DEF RecoverTerminalRuns
<1>3. QED
  BY <1>1, <1>2 DEF RecoverTerminalRuns

LEMMA ClaimStepFits ==
    ASSUME IInv, ThreadFits, worker' = worker, ClaimStep PROVE ThreadFits'
<1>1. ASSUME NEW t \in LiveClaims(worker), Claim(t, generation[t])
      PROVE  ThreadFits'
  <2>1. t \in Tasks /\ generation[t] \in Generations
    BY <1>1, TaskQueueAssumption
       DEF LiveClaims, IInv, TypeOK, RowsAgree, RowAgrees, AttemptFollowsTask, Active,
           Generations
  <2>2. QED
    BY <1>1, <2>1, ClaimFits DEF ClaimStep
<1>2. ASSUME NEW t \in Tasks, ClaimNext(worker, t), Claim(t, generation[t] + 1)
      PROVE  ThreadFits'
  <2>1. generation[t] + 1 \in Generations
    BY <1>2, TaskQueueAssumption DEF ClaimNext, IInv, TypeOK, Generations
  <2>2. QED
    BY <1>2, <2>1, ClaimFits DEF ClaimStep
<1>3. CASE Goto("idle")
  BY <1>3, GotoFits DEF ClaimStep, ThreadPcs, Settling, Holding
<1>4. QED
  BY <1>1, <1>2, <1>3 DEF ClaimStep

LEMMA IdleFits ==
    ASSUME ThreadFits, worker' = worker, IdleWait \/ IdleRecover PROVE ThreadFits'
  BY GotoFits DEF IdleWait, IdleRecover, ThreadPcs, Settling, Holding

LEMMA SettleStepFits ==
    ASSUME ThreadFits, worker' = worker, SettleStep PROVE ThreadFits'
<1> DEFINE r == CHOOSE x \in th.left : TRUE
<1>1. /\ th \in ThreadStates /\ th.pc \in Settling /\ worker' \in Workers
      /\ th.then \in {"poll", "raise", "dead"}
      /\ th.then = "raise" => HasClaim
  BY DEF SettleStep, ThreadFits, ThreadKnows, Settling
<1>2. CASE th.pc = "settle" /\ Poll
  BY <1>2, PollFits
<1>3. CASE th.pc = "settle" /\ th.then # "poll" /\ Goto(th.then)
  BY <1>1, <1>3, GotoFits DEF ThreadPcs, Settling, Holding
<1>4. CASE th' = [th EXCEPT !.pc = "settle", !.left = @ \ {r}]
  <2>1. /\ th' \in ThreadStates /\ th'.pc = "settle" /\ th'.then = th.then
        /\ th'.task = th.task /\ th'.gen = th.gen
    BY <1>1, <1>4 DEF ThreadStates, ThreadPcs
  <2>2. QED
    BY <1>1, <2>1, SettlingPlaceFits DEF HasClaim, Settling
<1>5. CASE \/ th.pc = "settle" /\ th.left # {} /\ Goto("resolve")
           \/ th.pc = "resolve" /\ Goto("aggregate")
  <2>1. th.left # {}
    BY <1>5 DEF ThreadFits, ThreadKnows
  <2>2. PICK p \in {"resolve", "aggregate"} : Goto(p)
    BY <1>5
  <2>3. /\ th' \in ThreadStates /\ th'.pc \in Settling /\ th'.then = th.then
        /\ th'.task = th.task /\ th'.gen = th.gen /\ th'.left = th.left
    BY <1>1, <2>2, GotoMoves DEF ThreadPcs, Settling
  <2>4. QED
    BY <1>1, <2>1, <2>3, SettlingPlaceFits DEF HasClaim
<1>6. \/ th.pc = "settle" /\ Poll
      \/ th.pc = "settle" /\ th.then # "poll" /\ Goto(th.then)
      \/ th' = [th EXCEPT !.pc = "settle", !.left = @ \ {r}]
      \/ th.pc = "settle" /\ th.left # {} /\ Goto("resolve")
      \/ th.pc = "resolve" /\ Goto("aggregate")
  BY Zenon DEF SettleStep
<1> HIDE DEF r
<1>7. QED
  BY <1>2, <1>3, <1>4, <1>5, <1>6

LEMMA HandOverFits ==
    ASSUME ThreadFits, worker' = worker, HandOver PROVE ThreadFits'
<1>1. PICK Rs : Rs \in SUBSET Runs /\ th' = [Thread("hand_over") EXCEPT !.left = Rs]
  BY TaskQueueAssumption DEF HandOver
<1>2. th' \in ThreadStates /\ th'.pc = "hand_over"
  BY <1>1, AtRest DEF ThreadStates, ThreadPcs
<1>3. worker' \in Workers
  BY DEF HandOver, ThreadFits, ThreadKnows
<1>4. QED
  BY <1>2, <1>3, PlainPlaceFits DEF Holding, Settling

LEMMA EnsureRunRunningFits ==
    ASSUME ThreadFits, worker' = worker, EnsureRunRunning PROVE ThreadFits'
<1>1. th.pc = "ensure" /\ HasClaim
  BY DEF EnsureRunRunning, ThreadFits, ThreadKnows, Holding
<1>2. CASE Die
  BY <1>1, <1>2, GotoFits DEF Die, ThreadPcs, Settling, Holding
<1>3. CASE \E w \in Walks : th' = [th EXCEPT !.pc = "walk", !.walk = w]
  BY <1>1, <1>3, LocalFits DEF Holding
<1>4. QED
  BY <1>2, <1>3, WalksTyped DEF EnsureRunRunning

LEMMA WalkStepFits ==
    ASSUME ThreadFits, worker' = worker, WalkStep PROVE ThreadFits'
<1>1. th.pc = "walk" /\ HasClaim /\ th.walk \in Walks
  BY DEF WalkStep, ThreadFits, ThreadStates, ThreadKnows, Holding
<1>2. CASE Goto("start") \/ Poll \/ Die
  BY <1>1, <1>2, GotoFits, PollFits DEF Die, ThreadPcs, Settling, Holding
<1>3. CASE th.walk # <<>> /\ th' = [th EXCEPT !.walk = Tail(@)]
  <2>1. Tail(th.walk) \in Walks
    BY <1>1, <1>3, WalksTyped
  <2>2. th' = [th EXCEPT !.pc = "walk", !.walk = Tail(th.walk)]
    BY <1>1, <1>3 DEF ThreadFits, ThreadStates
  <2>3. QED
    BY <1>1, <2>1, <2>2, LocalFits DEF Holding
<1>4. QED
  BY <1>2, <1>3 DEF WalkStep

LEMMA StartTaskFits ==
    ASSUME ThreadFits, worker' = worker, StartTask PROVE ThreadFits'
<1>1. th.pc = "start" /\ HasClaim
  BY DEF StartTask, ThreadFits, ThreadKnows, Holding
<1>2. QED
  BY <1>1, GotoFits, PollFits DEF StartTask, ThreadPcs, Settling, Holding

LEMMA SpawnFits ==
    ASSUME ThreadFits, worker' = worker, Spawn PROVE ThreadFits'
<1>1. th.pc = "spawn" /\ HasClaim
  BY DEF Spawn, ThreadFits, ThreadKnows, Holding
<1>2. QED
  BY <1>1, GotoFits, RaiseFits DEF Spawn, ThreadPcs, Settling, Holding, Codes, Failures

LEMMA IdentifyFits ==
    ASSUME ThreadFits, worker' = worker, Identify PROVE ThreadFits'
<1>1. th.pc = "identify" /\ HasClaim
  BY DEF Identify, ThreadFits, ThreadKnows, Holding
<1>2. QED
  BY <1>1, GotoFits, RaiseFits DEF Identify, ThreadPcs, Settling, Holding, Codes, Failures

LEMMA WatchFits ==
    ASSUME ThreadFits, worker' = worker, Watch PROVE ThreadFits'
<1>1. th.pc = "watch" /\ HasClaim
  BY DEF Watch, ThreadFits, ThreadKnows, Holding
<1>2. CASE \E b \in BOOLEAN : th' = [th EXCEPT !.pc = "finish", !.stale = b]
  BY <1>1, <1>2, LocalFits DEF Holding
<1>3. CASE \E code \in Codes : Raise(code)
  BY <1>1, <1>3, RaiseFits
<1>4. KillCodes(th.task, th.gen) \subseteq Codes
  BY DEF KillCodes, Codes, Failures
<1>5. QED
  BY <1>2, <1>3, <1>4 DEF Watch, Codes

LEMMA ClaimCopyExpiresFits ==
    ASSUME ThreadFits, worker' = worker, ClaimCopyExpires PROVE ThreadFits'
<1>1. th.pc = "watch" /\ HasClaim
  BY DEF ClaimCopyExpires, ThreadFits, ThreadKnows, Holding
<1>2. th' = [th EXCEPT !.pc = "watch", !.stale = TRUE]
  BY <1>1 DEF ClaimCopyExpires, ThreadFits, ThreadStates
<1>3. QED
  BY <1>1, <1>2, LocalFits DEF Holding

LEMMA FinishFits ==
    ASSUME ThreadFits, worker' = worker, Finish PROVE ThreadFits'
<1>1. th.pc = "finish" /\ HasClaim
  BY DEF Finish, ThreadFits, ThreadKnows, Holding
<1>2. CASE Settle({RunOf[th.task]}, "poll")
  BY <1>1, <1>2, SettleFits, TaskQueueAssumption DEF HasClaim
<1>3. CASE Raise("STALE_LEASE")
  BY <1>1, <1>3, RaiseFits DEF Codes, Failures
<1>4. QED
  BY <1>2, <1>3 DEF Finish, Released, Unreleased

LEMMA JudgeFits ==
    ASSUME ThreadFits, worker' = worker, Judge PROVE ThreadFits'
<1>1. th.pc = "judge" /\ HasClaim
  BY DEF Judge, ThreadFits, ThreadKnows, Holding
<1>2. CASE \E s \in {"poll", "settle", "report"} : th' = [th EXCEPT !.pc = "drop", !.then = s]
  BY <1>1, <1>2, LocalFits DEF Holding
<1>3. CASE th' = [th EXCEPT !.pc = "decide", !.current = FenceHolds(th.task, th.gen)]
  <2>1. PICK b \in BOOLEAN : b = FenceHolds(th.task, th.gen)
    BY Zenon DEF FenceHolds
  <2>2. th' = [th EXCEPT !.pc = "decide", !.current = b]
    BY <1>3, <2>1
  <2>3. QED
    BY <1>1, <2>2, LocalFits DEF Holding
<1>4. QED
  BY <1>2, <1>3 DEF Judge

LEMMA DecideFits ==
    ASSUME ThreadFits, worker' = worker, Decide PROVE ThreadFits'
<1>1. th.pc = "decide" /\ HasClaim
  BY DEF Decide, ThreadFits, ThreadKnows, Holding
<1>2. CASE Goto("put_back") \/ Goto("fail_attempt")
  BY <1>1, <1>2, GotoFits DEF ThreadPcs, Settling, Holding
<1>3. CASE \E b \in BOOLEAN : th' = [th EXCEPT !.pc = "fail_attempt", !.current = b]
  BY <1>1, <1>3, LocalFits DEF Holding
<1>4. QED
  BY <1>2, <1>3 DEF Decide

LEMMA PutBackFits ==
    ASSUME ThreadFits, worker' = worker, PutBack PROVE ThreadFits'
<1>1. th.pc = "put_back" /\ HasClaim
  BY DEF PutBack, ThreadFits, ThreadKnows, Holding
<1>2. CASE Poll
  BY <1>1, <1>2, PollFits
<1>3. CASE \E b \in BOOLEAN : th' = [th EXCEPT !.pc = "fail_attempt", !.current = b]
  BY <1>1, <1>3, LocalFits DEF Holding
<1>4. QED
  BY <1>2, <1>3 DEF PutBack, Released, Unreleased

LEMMA FailStepsFit ==
    ASSUME ThreadFits, worker' = worker, FailAttemptStep \/ FailTaskStep
    PROVE  ThreadFits'
<1>1. th.pc \in {"fail_attempt", "fail_task"} /\ HasClaim
  BY DEF FailAttemptStep, FailTaskStep, ThreadFits, ThreadKnows, Holding
<1>2. CASE Goto("fail_task") \/ Poll
  BY <1>1, <1>2, GotoFits, PollFits DEF ThreadPcs, Settling, Holding
<1>3. CASE \E s \in {"poll", "settle", "report"} : th' = [th EXCEPT !.pc = "drop", !.then = s]
  BY <1>1, <1>3, LocalFits DEF Holding
<1>4. QED
  BY <1>2, <1>3 DEF FailAttemptStep, FailTaskStep

LEMMA DropFits ==
    ASSUME ThreadFits, worker' = worker, Drop PROVE ThreadFits'
<1>1. th.pc = "drop" /\ HasClaim
  BY DEF Drop, ThreadFits, ThreadKnows, Holding
<1>2. CASE Settle({RunOf[th.task]}, "poll")
  BY <1>1, <1>2, SettleFits, TaskQueueAssumption DEF HasClaim
<1>3. CASE Poll \/ Goto("report")
  BY <1>1, <1>3, GotoFits, PollFits DEF ThreadPcs, Settling, Holding
<1>4. QED
  BY <1>2, <1>3 DEF Drop, Released, Unreleased

LEMMA ReportFits ==
    ASSUME ThreadFits, worker' = worker, Report PROVE ThreadFits'
<1>1. th.pc = "report" /\ HasClaim
  BY DEF Report, ThreadFits, ThreadKnows, Holding
<1>2. CASE Settle({RunOf[th.task]}, "raise")
  BY <1>1, <1>2, SettleFits, TaskQueueAssumption DEF HasClaim
<1>3. CASE Poll \/ Goto("raise")
  BY <1>1, <1>3, GotoFits, PollFits DEF ThreadPcs, Settling, Holding
<1>4. QED
  BY <1>2, <1>3 DEF Report

LEMMA ReRaiseFits ==
    ASSUME ThreadFits, worker' = worker, ReRaise PROVE ThreadFits'
<1>1. th.pc = "raise" /\ HasClaim
  BY DEF ReRaise, ThreadFits, ThreadKnows, Holding
<1>2. CASE Settle({RunOf[th.task]}, "poll")
  BY <1>1, <1>2, SettleFits, TaskQueueAssumption DEF HasClaim
<1>3. CASE Poll \/ Die
  BY <1>1, <1>3, GotoFits, PollFits DEF Die, ThreadPcs, Settling, Holding
<1>4. QED
  BY <1>2, <1>3 DEF ReRaise

LEMMA ThreadStepFits ==
    ASSUME IInv, ThreadFits, ThreadStep PROVE ThreadFits'
  BY RecoverCancellingRunsFits, RecoverStepFits, LeaveLoopFits, RecoverTerminalRunsFits,
     ClaimStepFits, IdleFits, SettleStepFits, HandOverFits, EnsureRunRunningFits,
     WalkStepFits, StartTaskFits, SpawnFits, IdentifyFits, WatchFits, FinishFits,
     JudgeFits, DecideFits, PutBackFits, FailStepsFit, DropFits, ReportFits, ReRaiseFits,
     Zenon DEF ThreadStep, process

-----------------------------------------------------------------------------
(***************************************************************************)
(* Every step of the thread is a step of TaskQueue, or changes no row.     *)
(***************************************************************************)

(* Whoever presents the fence of a claim presents its newest generation.   *)
LEMMA HolderStepIsNext ==
    ASSUME TypeOK, NEW t \in Tasks, NEW g \in Generations, HolderStep(t, g),
           g = generation[t]
    PROVE  Next
<1>1. g <= generation[t]
  BY TaskQueueAssumption DEF TypeOK, Generations
<1>2. QED
  BY <1>1 DEF Next

LEMMA ReleaseIsNext ==
    ASSUME TypeOK, NEW t \in Tasks, NEW g \in Generations, Release(t, g)
    PROVE  Next
<1>1. g = generation[t]
  BY DEF Release
<1>2. HolderStep(t, g)
  BY DEF HolderStep
<1>3. QED
  BY <1>1, <1>2, HolderStepIsNext

LEMMA FencedStepIsNext ==
    ASSUME TypeOK, NEW t \in Tasks, NEW g \in Generations,
           \/ \E s \in {"planning", "ready", "running"} : AdvanceRun(t, g, s)
           \/ ExecutorStartTask(t, g)
           \/ BeginValidating(t, g)
           \/ \E outputs \in {produced, produced \cup {t}} :
                 CommitValidatedTask(t, g, outputs)
           \/ FailTask(t, g)
           \/ FailAttempt(t, g)
           \/ \E code \in ErrorCodes : ScheduleRetry(t, g, code)
    PROVE  Next
<1>1. g = generation[t]
  BY DEF AdvanceRun, ExecutorStartTask, BeginValidating, CommitValidatedTask,
     FailTask, FailAttempt, ScheduleRetry, HoldsClaim, FenceHolds
<1>2. HolderStep(t, g)
  BY DEF HolderStep
<1>3. QED
  BY <1>1, <1>2, HolderStepIsNext

LEMMA RecoverIsNext ==
    ASSUME NEW Rs \in {Runs} \cup {{r} : r \in Runs}, Recover(Rs)
    PROVE  [Next]_vars
<1> DEFINE Due == {t \in due : taskStatus[t] = "retry_wait"}
<1>1. CASE RecoverExpiredLeases(Rs, Due)
  <2>1. Due \in SUBSET Tasks
    BY <1>1 DEF RecoverExpiredLeases
  <2>2. QED
    BY <1>1, <2>1 DEF Next, QueueStep
<1>2. CASE UNCHANGED vars
  BY <1>2
<1>3. QED
  BY <1>1, <1>2 DEF Recover

LEMMA SettleStepIsNext ==
    ASSUME ThreadFits, SettleStep PROVE [Next]_vars
<1> DEFINE r == CHOOSE x \in th.left : TRUE
<1>1. CASE UNCHANGED vars
  BY <1>1
<1>2. CASE th.pc \in {"resolve", "aggregate"} /\ (EnqueueRun(r) \/ AggregateRun(r))
  <2>1. r \in Runs
    BY <1>2 DEF ThreadFits, ThreadKnows, ThreadStates
  <2>2. RunStep(r)
    BY <1>2 DEF RunStep
  <2>3. QED
    BY <2>1, <2>2 DEF Next
<1>3. \/ UNCHANGED vars
      \/ th.pc \in {"resolve", "aggregate"} /\ (EnqueueRun(r) \/ AggregateRun(r))
  BY Zenon DEF SettleStep
<1> HIDE DEF r
<1>4. QED
  BY <1>1, <1>2, <1>3

LEMMA ThreadStepIsNext ==
    ASSUME IInv, ThreadFits, ThreadStep PROVE [Next]_vars
<1>1. TypeOK
  BY DEF IInv
<1>2. CASE \/ RecoverCancellingRuns \/ LeaveLoop \/ RecoverTerminalRuns
           \/ IdleWait \/ IdleRecover \/ EnsureRunRunning \/ Spawn \/ Identify
           \/ Watch \/ Judge \/ Report \/ ReRaise
  BY <1>2 DEF RecoverCancellingRuns, LeaveLoop, RecoverTerminalRuns, IdleWait,
     IdleRecover, EnsureRunRunning, Spawn, Identify, Watch, Judge, Report, ReRaise
<1>3. CASE RecoverStep
  BY <1>3, RecoverIsNext DEF RecoverStep
<1>4. CASE ClaimStep
  <2>1. worker \in Workers
    BY <1>4 DEF ClaimStep, ThreadFits, ThreadKnows
  <2>2. QED
    BY <1>4, <2>1 DEF ClaimStep, Next, QueueStep
<1>5. CASE SettleStep
  BY <1>5, SettleStepIsNext
<1>6. CASE HandOver
  <2>1. worker \in Workers
    BY <1>6 DEF HandOver, ThreadFits, ThreadKnows
  <2>2. QED
    BY <1>6, <2>1 DEF HandOver, Next, QueueStep
<1>7. ASSUME th.pc \in Holding PROVE HasClaim
  BY <1>7 DEF ThreadFits, ThreadKnows
<1>8. CASE WalkStep
  <2>1. HasClaim
    BY <1>7, <1>8 DEF WalkStep, Holding
  <2>2. CASE AdvanceRun(th.task, th.gen, Head(th.walk))
    <3>1. Head(th.walk) \in {"planning", "ready", "running"}
      BY <2>2 DEF AdvanceRun
    <3>2. QED
      BY <1>1, <2>1, <2>2, <3>1, FencedStepIsNext DEF HasClaim
  <2>3. QED
    BY <1>8, <2>2 DEF WalkStep
<1>9. CASE StartTask \/ FailAttemptStep \/ FailTaskStep
  <2>1. HasClaim
    BY <1>7, <1>9 DEF StartTask, FailAttemptStep, FailTaskStep, Holding
  <2>2. \/ ExecutorStartTask(th.task, th.gen)
        \/ FailAttempt(th.task, th.gen)
        \/ FailTask(th.task, th.gen)
        \/ UNCHANGED vars
    BY <1>9 DEF StartTask, FailAttemptStep, FailTaskStep
  <2>3. QED
    BY <1>1, <2>1, <2>2, FencedStepIsNext DEF HasClaim
<1>10. CASE Decide
  <2>1. HasClaim
    BY <1>7, <1>10 DEF Decide, Holding
  <2>2. CASE ScheduleRetry(th.task, th.gen, th.code)
    <3>1. th.code \in ErrorCodes
      BY <2>1, <2>2, TaskQueueAssumption DEF ScheduleRetry, HasClaim
    <3>2. QED
      BY <1>1, <2>1, <2>2, <3>1, FencedStepIsNext DEF HasClaim
  <2>3. QED
    BY <1>10, <2>2 DEF Decide
<1>11. CASE Finish \/ PutBack \/ Drop
  <2>1. HasClaim
    BY <1>7, <1>11 DEF Finish, PutBack, Drop, Holding
  <2>2. Release(th.task, th.gen) \/ UNCHANGED vars
    BY <1>11 DEF Finish, PutBack, Drop, Released, Unreleased
  <2>3. QED
    BY <1>1, <2>1, <2>2, ReleaseIsNext DEF HasClaim
<1>12. QED
  BY <1>2, <1>3, <1>4, <1>5, <1>6, <1>8, <1>9, <1>10, <1>11 DEF ThreadStep

-----------------------------------------------------------------------------
(***************************************************************************)
(* The children.                                                           *)
(***************************************************************************)
(* Attempt g of task t gets the child c.                                   *)
Replaces(t, g, c) == child' = [child EXCEPT ![t] = [child[t] EXCEPT ![g] = c]]

LEMMA ChildReplaced ==
    ASSUME ChildrenFit, NEW t \in Tasks, NEW g \in Generations, NEW c \in Children,
           Replaces(t, g, c)
    PROVE  /\ ChildrenFit'
           /\ child'[t][g] = c
           /\ \A u \in Tasks, h \in Generations :
                 u # t \/ h # g => child'[u][h] = child[u][h]
  BY DEF ChildrenFit, Replaces

LEMMA ContinueFits ==
    ASSUME ChildrenFit, NEW t \in Tasks, NEW g \in Generations, NEW s \in ChildStates,
           Continue(t, g, s)
    PROVE  /\ ChildrenFit'
           /\ child'[t][g].state = s
           /\ \A u \in Tasks, h \in Generations :
                 u # t \/ h # g => child'[u][h] = child[u][h]
<1>1. child[t][g] \in Children
  BY DEF ChildrenFit
<1>2. PICK c : c = [child[t][g] EXCEPT !.state = s]
  OBVIOUS
<1>3. c \in Children /\ c.state = s
  BY <1>1, <1>2 DEF Children
<1>4. Replaces(t, g, c)
  BY <1>2 DEF Continue, ChildrenFit, Replaces
<1>5. QED
  BY <1>3, <1>4, ChildReplaced

LEMMA GoneFits ==
    ASSUME ChildrenFit, NEW t \in Tasks, NEW g \in Generations, Gone(t, g)
    PROVE  ChildrenKeep
<1>1. child[t][g] \in Children
  BY DEF ChildrenFit
<1>2. PICK c : c = [[child[t][g] EXCEPT !.state = "none"] EXCEPT !.by = NoWorker]
  OBVIOUS
<1>3. c \in Children /\ c.state = "none"
  BY <1>1, <1>2 DEF Children, ChildStates
<1>4. Replaces(t, g, c)
  BY <1>2 DEF Gone, ChildrenFit, Replaces
<1>5. QED
  BY <1>3, <1>4, ChildReplaced DEF ChildrenKeep

LEMMA ContinueKeeps ==
    ASSUME ChildrenFit, NEW t \in Tasks, NEW g \in Generations,
           NEW s \in ChildStates \ {"checked"}, Continue(t, g, s)
    PROVE  ChildrenKeep
  BY ContinueFits DEF ChildrenKeep

LEMMA EndsKeeps ==
    ASSUME ChildrenFit, NEW t \in Tasks, NEW g \in Generations,
           NEW s \in Failures \cup {"ok", "dead"}, Ends(t, g, s)
    PROVE  ChildrenKeep
<1>1. s \in ChildStates \ {"checked"}
  BY DEF ChildStates, Failures
<1>2. QED
  BY <1>1, ContinueKeeps, GoneFits DEF Ends

LEMMA SameChildrenKeep == ChildrenFit /\ UNCHANGED child => ChildrenKeep
  BY DEF ChildrenFit, ChildrenKeep

LEMMA SpawnKeeps ==
    ASSUME ThreadFits, ChildrenFit, Spawn PROVE ChildrenKeep
<1>1. HasClaim /\ worker \in Workers
  BY DEF Spawn, ThreadFits, ThreadKnows, Holding
<1>2. CASE UNCHANGED child
  BY <1>2, SameChildrenKeep
<1>3. CASE child' = [child EXCEPT ![th.task][th.gen].state = "started",
                                  ![th.task][th.gen].by = worker]
  <2>1. PICK t \in Tasks, g \in Generations : t = th.task /\ g = th.gen
    BY <1>1 DEF HasClaim
  <2>2. child[t][g] \in Children
    BY DEF ChildrenFit
  <2>3. PICK c : c = [[child[t][g] EXCEPT !.state = "started"] EXCEPT !.by = worker]
    OBVIOUS
  <2>4. c \in Children /\ c.state = "started"
    BY <1>1, <2>2, <2>3 DEF Children, ChildStates, Alive
  <2>5. Replaces(t, g, c)
    BY <1>3, <2>1, <2>3 DEF ChildrenFit, Replaces
  <2>6. QED
    BY <2>4, <2>5, ChildReplaced DEF ChildrenKeep
<1>4. QED
  BY <1>2, <1>3 DEF Spawn

LEMMA IdentifyKeeps ==
    ASSUME ThreadFits, ChildrenFit, Identify PROVE ChildrenKeep
<1>1. HasClaim
  BY DEF Identify, ThreadFits, ThreadKnows, Holding
<1>2. CASE Gone(th.task, th.gen)
  BY <1>1, <1>2, GoneFits DEF HasClaim
<1>3. CASE child' = [child EXCEPT ![th.task][th.gen].known = TRUE]
  <2>1. PICK t \in Tasks, g \in Generations : t = th.task /\ g = th.gen
    BY <1>1 DEF HasClaim
  <2>2. child[t][g] \in Children
    BY DEF ChildrenFit
  <2>3. PICK c : c = [child[t][g] EXCEPT !.known = TRUE]
    OBVIOUS
  <2>4. c \in Children /\ c.state = child[t][g].state
    BY <2>2, <2>3 DEF Children
  <2>5. Replaces(t, g, c)
    BY <1>3, <2>1, <2>3 DEF ChildrenFit, Replaces
  <2>6. QED
    BY <2>4, <2>5, ChildReplaced DEF ChildrenKeep
<1>4. QED
  BY <1>2, <1>3 DEF Identify

LEMMA ThreadStepKeepsChildren ==
    ASSUME ThreadFits, ChildrenFit, ThreadStep PROVE ChildrenKeep
<1>1. CASE Watch
  <2>1. HasClaim
    BY <1>1 DEF Watch, ThreadFits, ThreadKnows, Holding
  <2>2. QED
    BY <1>1, <2>1, GoneFits DEF Watch, HasClaim
<1>2. CASE Spawn \/ Identify
  BY <1>2, SpawnKeeps, IdentifyKeeps
<1>3. CASE UNCHANGED child
  BY <1>3, SameChildrenKeep
<1>4. QED
  BY <1>1, <1>2, <1>3 DEF ThreadStep, RecoverCancellingRuns, RecoverStep, LeaveLoop,
     RecoverTerminalRuns, ClaimStep, IdleWait, IdleRecover, SettleStep, HandOver,
     EnsureRunRunning, WalkStep, StartTask, Finish, Judge, Decide, PutBack,
     FailAttemptStep, FailTaskStep, Drop, Report, ReRaise

(* A child takes steps of TaskQueue only, under its own claim, and passes  *)
(* its checks only with a confirmation.                                    *)
LEMMA ChildStepFits ==
    ASSUME ChildrenFit, NEW t \in Tasks, NEW g \in Generations, ChildStep(t, g)
    PROVE  /\ ChildrenFit'
           /\ \A u \in Tasks, h \in Generations :
                 child'[u][h].state = "checked" =>
                     \/ child[u][h].state = "checked"
                     \/ u = t /\ (t \in SideEffect => t \in confirmed)
<1>1. CASE Continue(t, g, "checked") /\ (t \in SideEffect => t \in confirmed)
  <2>1. "checked" \in ChildStates
    BY DEF ChildStates, Alive
  <2>2. QED
    BY <1>1, <2>1, ContinueFits
<1>2. CASE \/ Continue(t, g, "handling") \/ Continue(t, g, "validating")
           \/ \E s \in Failures \cup {"ok", "dead"} : Ends(t, g, s)
  <2>1. ChildrenKeep
    BY <1>2, ContinueKeeps, EndsKeeps DEF ChildStates, Alive
  <2>2. QED
    BY <2>1 DEF ChildrenKeep
<1>3. \/ Continue(t, g, "checked") /\ (t \in SideEffect => t \in confirmed)
      \/ Continue(t, g, "handling") \/ Continue(t, g, "validating")
      \/ \E s \in Failures \cup {"ok", "dead"} : Ends(t, g, s)
  BY DEF ChildStep, ChildCheck, ChildInvoke, ChildValidate, ChildCommit, ChildFails,
     ChildRaises, ChildDies, Failures
<1>4. QED
  BY <1>1, <1>2, <1>3

LEMMA ChildStepIsNext ==
    ASSUME TypeOK, NEW t \in Tasks, NEW g \in Generations, ChildStep(t, g)
    PROVE  [Next]_vars
<1>1. \/ BeginValidating(t, g)
      \/ \E outputs \in {produced, produced \cup {t}} :
            CommitValidatedTask(t, g, outputs)
      \/ FailTask(t, g)
      \/ UNCHANGED vars
  BY DEF ChildStep, ChildCheck, ChildInvoke, ChildValidate, ChildCommit, ChildFails,
     ChildRaises, ChildDies
<1>2. QED
  BY <1>1, FencedStepIsNext

-----------------------------------------------------------------------------
(***************************************************************************)
(* The requests.                                                           *)
(***************************************************************************)
(* What slot s handles becomes q.                                          *)
Becomes(s, q) == request' = [request EXCEPT ![s] = q]

LEMMA RequestReplaced ==
    ASSUME RequestsFit, NEW s \in Slots, NEW q \in Requests,
           q.pc # "idle" => q.run \in Runs, Becomes(s, q)
    PROVE  RequestsFit'
  BY DEF RequestsFit, RequestsKnow, Becomes

LEMMA QuietFits == Quiet \in Requests /\ Quiet.pc = "idle"
  BY DEF Quiet, Requests, RequestPcs

LEMMA AnsweredFits ==
    ASSUME RequestsFit, NEW s \in Slots, Answered(s) PROVE RequestsFit'
  BY QuietFits, RequestReplaced DEF Answered, Becomes

LEMMA ServeFits ==
    ASSUME RequestsFit, NEW s \in Slots, request[s].pc # "idle",
           NEW pc \in RequestPcs, Serve(s, pc)
    PROVE  RequestsFit'
<1>1. request[s] \in Requests /\ request[s].run \in Runs
  BY DEF RequestsFit, RequestsKnow
<1>2. PICK q : q = [request[s] EXCEPT !.pc = pc]
  OBVIOUS
<1>3. q \in Requests /\ q.run \in Runs
  BY <1>1, <1>2 DEF Requests
<1>4. Becomes(s, q)
  BY <1>2 DEF Serve, Becomes, RequestsFit
<1>5. QED
  BY <1>3, <1>4, RequestReplaced

LEMMA ReceivedFits ==
    ASSUME RequestsFit, NEW r \in Runs, NEW pc \in RequestPcs, Received(r, pc)
    PROVE  RequestsFit'
<1>1. "api" \in Slots /\ request["api"] \in Requests
  BY DEF RequestsFit, Slots
<1>2. PICK q : q = [[request["api"] EXCEPT !.pc = pc] EXCEPT !.run = r]
  OBVIOUS
<1>3. q \in Requests /\ q.run \in Runs
  BY <1>1, <1>2 DEF Requests
<1>4. Becomes("api", q)
  BY <1>1, <1>2 DEF Received, Becomes, RequestsFit
<1>5. QED
  BY <1>1, <1>3, <1>4, RequestReplaced

LEMMA CancellingFits ==
    ASSUME NEW r \in Runs
    PROVE  Cancelling(r) \in Requests /\ Cancelling(r).run = r
  BY QuietFits DEF Cancelling, Requests, RequestPcs

LEMMA ThreadStepKeepsRequests ==
    ASSUME ThreadFits, RequestsFit, ThreadStep PROVE RequestsFit'
<1>1. CASE UNCHANGED request
  BY <1>1 DEF RequestsFit, RequestsKnow
<1>2. ASSUME NEW r \in th.left, request' = [request EXCEPT !["boot"] = Cancelling(r)]
      PROVE  RequestsFit'
  <2>1. r \in Runs /\ "boot" \in Slots
    BY DEF ThreadFits, ThreadStates, Slots
  <2>2. Becomes("boot", Cancelling(r))
    BY <1>2 DEF Becomes
  <2>3. QED
    BY <2>1, <2>2, CancellingFits, RequestReplaced
<1>3. QED
  BY <1>1, <1>2 DEF ThreadStep, RecoverCancellingRuns, RecoverStep, LeaveLoop,
     RecoverTerminalRuns, ClaimStep, IdleWait, IdleRecover, SettleStep, HandOver,
     EnsureRunRunning, WalkStep, StartTask, Spawn, Identify, Watch, Finish, Judge,
     Decide, PutBack, FailAttemptStep, FailTaskStep, Drop, Report, ReRaise

LEMMA ApiRequestFits ==
    ASSUME RequestsFit, NEW r \in Runs, ApiRequest(r) PROVE RequestsFit'
<1>1. CASE UNCHANGED request
  BY <1>1 DEF RequestsFit, RequestsKnow
<1>2. CASE \E pc \in RequestPcs : Received(r, pc)
  BY <1>2, ReceivedFits
<1>3. QED
  BY <1>1, <1>2 DEF ApiRequest, CancelRequest, ConfirmRequest, ResumeRequest,
     RecoverRequest, RequestPcs

LEMMA ApiRequestIsNext ==
    ASSUME NEW r \in Runs, ApiRequest(r) PROVE [Next]_vars
<1>1. CASE ConfirmRequest(r)
  <2>1. PICK t \in Tasks : ConfirmTask(t)
    BY <1>1 DEF ConfirmRequest, TasksOf
  <2>2. QED
    BY <2>1 DEF Next, QueueStep
<1>2. CASE CancelRequest(r) \/ ResumeRequest(r)
  BY <1>2 DEF CancelRequest, ResumeRequest, Next, RunStep
<1>3. CASE RecoverRequest(r)
  BY <1>3, RecoverIsNext DEF RecoverRequest
<1>4. QED
  BY <1>1, <1>2, <1>3 DEF ApiRequest

LEMMA ReadActiveFits ==
    ASSUME IInv, RequestsFit, NEW s \in Slots, ReadActive(s) PROVE RequestsFit'
<1>1. request[s] \in Requests /\ request[s].run \in Runs /\ request[s].pc = "read"
  BY DEF ReadActive, RequestsFit, RequestsKnow
<1>2. PICK todo : todo = {[task |-> t, gen |-> generation[t], identity |-> Identity(t)] :
                             t \in {u \in TasksOf(request[s].run) : taskStatus[u] \in Active}}
  OBVIOUS
<1>3. ASSUME NEW t \in Tasks, taskStatus[t] \in Active
      PROVE  generation[t] \in Generations
  BY <1>3, TaskQueueAssumption
     DEF IInv, TypeOK, RowsAgree, RowAgrees, AttemptFollowsTask, Generations
<1>4. \A t : Identity(t) \in Identities
  BY DEF Identity, Identities
<1>5. todo \in SUBSET Target
  BY <1>2, <1>3, <1>4 DEF Target, TasksOf
<1>6. PICK q : q = [[request[s] EXCEPT !.pc = "kill"] EXCEPT !.todo = todo]
  OBVIOUS
<1>7. q \in Requests /\ q.run \in Runs
  BY <1>1, <1>5, <1>6 DEF Requests, RequestPcs
<1>8. Becomes(s, q)
  BY <1>2, <1>6 DEF ReadActive, Becomes, RequestsFit
<1>9. QED
  BY <1>7, <1>8, RequestReplaced

LEMMA TerminateRunProcessesFits ==
    ASSUME ThreadFits, ChildrenFit, RequestsFit, NEW s \in Slots, TerminateRunProcesses(s)
    PROVE  RequestsFit' /\ ChildrenKeep
<1>1. PICK i \in request[s].todo : Kill(s, i)
  BY DEF TerminateRunProcesses
<1>2. /\ request[s] \in Requests /\ request[s].run \in Runs /\ request[s].pc = "kill"
      /\ i \in Target
  BY DEF TerminateRunProcesses, RequestsFit, RequestsKnow, Requests
<1>3. RequestsFit'
  <2>1. \/ request' = [request EXCEPT ![s].todo = @ \ {i}]
        \/ request' = [request EXCEPT ![s].todo = @ \ {i}, ![s].unresolved = TRUE]
    BY <1>1 DEF Kill
  <2>2. PICK q : /\ \/ q = [request[s] EXCEPT !.todo = @ \ {i}]
                    \/ q = [[request[s] EXCEPT !.todo = @ \ {i}] EXCEPT !.unresolved = TRUE]
                 /\ Becomes(s, q)
    BY <2>1 DEF Becomes, RequestsFit
  <2>3. q \in Requests /\ q.run \in Runs
    BY <1>2, <2>2 DEF Requests
  <2>4. QED
    BY <2>2, <2>3, RequestReplaced
<1>4. ChildrenKeep
  <2>1. CASE UNCHANGED child
    BY <2>1, SameChildrenKeep
  <2>2. CASE Supervised(i.task, th.gen) /\ Continue(i.task, th.gen, "dead")
    <3>1. i.task \in Tasks /\ th.gen \in Generations
      BY <2>2 DEF Supervised, ThreadFits, ThreadKnows, HasClaim, Holding
    <3>2. QED
      BY <2>2, <3>1, ContinueKeeps DEF ChildStates
  <2>3. CASE Gone(i.task, i.gen)
    BY <1>2, <2>3, GoneFits DEF Target
  <2>4. QED
    BY <1>1, <2>1, <2>2, <2>3 DEF Kill
<1>5. QED
  BY <1>3, <1>4

LEMMA RequestStepFits ==
    ASSUME IInv, ThreadFits, ChildrenFit, RequestsFit, NEW s \in Slots, RequestStep(s)
    PROVE  RequestsFit' /\ ChildrenKeep
<1>1. CASE TerminateRunProcesses(s)
  BY <1>1, TerminateRunProcessesFits
<1>2. CASE ReadActive(s)
  BY <1>2, ReadActiveFits, SameChildrenKeep DEF ReadActive
<1>3. CASE ServeRun(s) \/ ConcludeCancel(s)
  <2>1. UNCHANGED child
    BY <1>3 DEF ServeRun, ConcludeCancel
  <2>2. CASE Answered(s)
    BY <2>1, <2>2, AnsweredFits, SameChildrenKeep
  <2>3. CASE \E pc \in RequestPcs : Serve(s, pc) /\ request[s].pc # "idle"
    BY <2>1, <2>3, ServeFits, SameChildrenKeep
  <2>4. QED
    BY <1>3, <2>2, <2>3 DEF ServeRun, ConcludeCancel, RequestPcs
<1>4. QED
  BY <1>1, <1>2, <1>3 DEF RequestStep

LEMMA RequestStepIsNext ==
    ASSUME RequestsFit, NEW s \in Slots, RequestStep(s) PROVE [Next]_vars
<1> DEFINE r == request[s].run
<1>1. CASE UNCHANGED vars
  BY <1>1
<1>2. CASE /\ request[s].pc # "idle"
           /\ \/ EnqueueRun(r) \/ AggregateRun(r)
              \/ FinalizeCancelCommand(r) \/ MarkCancelIndeterminate(r)
  <2>1. r \in Runs
    BY <1>2 DEF RequestsFit, RequestsKnow
  <2>2. RunStep(r)
    BY <1>2 DEF RunStep
  <2>3. QED
    BY <2>1, <2>2 DEF Next
<1>3. QED
  BY <1>1, <1>2 DEF RequestStep, ServeRun, ReadActive, TerminateRunProcesses, ConcludeCancel

-----------------------------------------------------------------------------
(***************************************************************************)
(* The process, and time.                                                  *)
(***************************************************************************)
LEMMA StartProcessFits ==
    ASSUME ProcessFits, NEW w \in Workers, StartProcess(w)
    PROVE  ProcessFits' /\ ThreadFits'
<1>1. PICK Rs \in SUBSET Runs : th' = [Thread("boot") EXCEPT !.left = Rs]
  BY DEF StartProcess
<1>2. th' \in ThreadStates /\ th'.pc = "boot"
  BY <1>1, AtRest DEF ThreadStates, ThreadPcs
<1>3. ThreadFits'
  BY <1>2, PlainPlaceFits DEF StartProcess, Holding, Settling
<1>4. QED
  BY <1>3 DEF StartProcess, ProcessFits

LEMMA ProcessEndsFits ==
    ASSUME ProcessFits, ChildrenFit, ProcessEnds
    PROVE  ProcessFits' /\ ThreadFits' /\ RequestsFit' /\ ChildrenKeep
<1>1. ProcessFits'
  BY DEF ProcessEnds, ProcessFits
<1>2. ThreadFits'
  <2>1. th' \in ThreadStates /\ th'.pc = "down"
    BY AtRest DEF ProcessEnds, ThreadPcs
  <2>2. QED
    BY <2>1, PlainPlaceFits DEF Holding, Settling
<1>3. RequestsFit'
  BY QuietFits DEF ProcessEnds, RequestsFit, RequestsKnow
<1>4. ChildrenKeep
  <2>1. PICK tied \in BOOLEAN :
            child' = [t \in Tasks |-> [g \in Generations |->
                IF child[t][g].state \in Alive /\ (tied => child[t][g].by # worker)
                THEN child[t][g]
                ELSE [child[t][g] EXCEPT !.state = "none", !.by = NoWorker]]]
    BY DEF ProcessEnds
  <2> DEFINE Left(t, g) ==
            IF child[t][g].state \in Alive /\ (tied => child[t][g].by # worker)
            THEN child[t][g]
            ELSE [child[t][g] EXCEPT !.state = "none", !.by = NoWorker]
  <2>2. child' = [t \in Tasks |-> [g \in Generations |-> Left(t, g)]]
    BY <2>1
  <2>3. ASSUME NEW t \in Tasks, NEW g \in Generations
        PROVE  /\ Left(t, g) \in Children
               /\ Left(t, g).state = "checked" => child[t][g].state = "checked"
    <3>1. child[t][g] \in Children
      BY DEF ChildrenFit
    <3>2. QED
      BY <3>1 DEF Children, ChildStates
  <2> HIDE DEF Left
  <2>4. QED
    BY <2>2, <2>3 DEF ChildrenKeep, ChildrenFit
<1>5. QED
  BY <1>1, <1>2, <1>3, <1>4

(* What stays when its variables stay.                                     *)
LEMMA Unmoved ==
    /\ ProcessFits /\ UNCHANGED process => ProcessFits'
    /\ ThreadFits /\ UNCHANGED <<worker, th>> => ThreadFits'
    /\ RequestsFit /\ UNCHANGED request => RequestsFit'
<1>1. ProcessFits /\ UNCHANGED process => ProcessFits'
  BY DEF ProcessFits, process
<1>2. ThreadFits /\ UNCHANGED <<worker, th>> => ThreadFits'
  BY DEF ThreadFits, ThreadKnows, HasClaim
<1>3. RequestsFit /\ UNCHANGED request => RequestsFit'
  BY DEF RequestsFit, RequestsKnow
<1>4. QED
  BY <1>1, <1>2, <1>3

-----------------------------------------------------------------------------
(***************************************************************************)
(* Every step keeps the types and is a step of TaskQueue.                  *)
(***************************************************************************)
LEMMA SupNextIsNext ==
    ASSUME SupIInv, SupNext PROVE [Next]_vars
<1>1. TypeOK
  BY DEF SupIInv, IInv
<1>2. CASE \/ \E w \in Workers : StartProcess(w)
           \/ Stop \/ Exit \/ Crash
           \/ ClaimCopyExpires
           \/ \E t \in Tasks : RetryFallsDue(t)
  BY <1>2 DEF StartProcess, Stop, Exit, Crash, ProcessEnds, ClaimCopyExpires, RetryFallsDue
<1>3. CASE ThreadStep
  BY <1>3, ThreadStepIsNext DEF SupIInv
<1>4. CASE \E t \in Tasks, g \in Generations : ChildStep(t, g)
  BY <1>1, <1>4, ChildStepIsNext
<1>5. CASE \E r \in Runs : ApiRequest(r)
  BY <1>5, ApiRequestIsNext
<1>6. CASE \E s \in Slots : RequestStep(s)
  BY <1>6, RequestStepIsNext DEF SupIInv
<1>7. CASE \E t \in Tasks : Expire(t)
  BY <1>7 DEF Expire, Next, QueueStep
<1>8. QED
  BY <1>2, <1>3, <1>4, <1>5, <1>6, <1>7 DEF SupNext

LEMMA SupNextFits ==
    ASSUME SupIInv, SupNext
    PROVE  /\ ProcessFits' /\ ThreadFits' /\ RequestsFit'
           /\ due' \in SUBSET Tasks
           /\ effects' \in [SideEffect -> Nat]
<1> USE DEF SupIInv
<1>1. CASE \E w \in Workers : StartProcess(w)
  BY <1>1, StartProcessFits, Unmoved DEF StartProcess
<1>2. CASE Stop
  BY <1>2, Unmoved DEF Stop, ProcessFits
<1>3. CASE Exit \/ Crash
  BY <1>3, ProcessEndsFits DEF Exit, Crash, ProcessEnds
<1>4. CASE ThreadStep
  <2>1. UNCHANGED process /\ UNCHANGED effects
    BY <1>4 DEF ThreadStep
  <2>2. due' \in SUBSET Tasks
    BY <1>4 DEF ThreadStep, RecoverCancellingRuns, RecoverStep, Recover, LeaveLoop,
       RecoverTerminalRuns, ClaimStep, IdleWait, IdleRecover, SettleStep, HandOver,
       EnsureRunRunning, WalkStep, StartTask, Spawn, Identify, Watch, Finish, Judge,
       Decide, PutBack, FailAttemptStep, FailTaskStep, Drop, Report, ReRaise
  <2>3. QED
    BY <1>4, <2>1, <2>2, ThreadStepFits, ThreadStepKeepsRequests, Unmoved
<1>5. CASE ClaimCopyExpires /\ UNCHANGED <<process, effects>>
  BY <1>5, ClaimCopyExpiresFits, Unmoved DEF ClaimCopyExpires, process
<1>6. CASE \E t \in Tasks, g \in Generations : ChildStep(t, g)
  <2>1. UNCHANGED <<process, due, th, request>>
    BY <1>6 DEF ChildStep
  <2>2. effects' \in [SideEffect -> Nat]
    BY <1>6 DEF ChildStep, ChildCheck, ChildInvoke, ChildValidate, ChildCommit,
       ChildFails, ChildRaises, ChildDies
  <2>3. QED
    BY <2>1, <2>2, Unmoved DEF process
<1>7. CASE \E r \in Runs : ApiRequest(r)
  <2>1. UNCHANGED <<process, th, effects>>
    BY <1>7 DEF ApiRequest
  <2>2. due' \in SUBSET Tasks
    BY <1>7 DEF ApiRequest, CancelRequest, ConfirmRequest, ResumeRequest, RecoverRequest,
       Recover
  <2>3. QED
    BY <1>7, <2>1, <2>2, ApiRequestFits, Unmoved DEF process
<1>8. CASE \E s \in Slots : RequestStep(s)
  <2>1. UNCHANGED <<process, due, th, effects>>
    BY <1>8 DEF RequestStep
  <2>2. QED
    BY <1>8, <2>1, RequestStepFits, Unmoved DEF process
<1>9. CASE \E t \in Tasks : Expire(t) \/ RetryFallsDue(t)
  BY <1>9, Unmoved DEF Expire, RetryFallsDue, process
<1>10. QED
  BY <1>1, <1>2, <1>3, <1>4, <1>5, <1>6, <1>7, <1>8, <1>9 DEF SupNext

LEMMA UndoneByNobody ==
    TypeOK /\ [Next]_vars => confirmed \subseteq confirmed'
<1> SUFFICES ASSUME TypeOK, [Next]_vars PROVE confirmed \subseteq confirmed'
  OBVIOUS
<1>1. CASE \E t \in Tasks : ConfirmTask(t)
  BY <1>1 DEF ConfirmTask
<1>2. CASE UNCHANGED confirmed
  BY <1>2
<1>3. QED
  BY <1>1, <1>2 DEF Next, HolderStep, RunStep, QueueStep, vars, AdvanceRun,
     ExecutorStartTask, BeginValidating, CommitValidatedTask, FailTask, FailAttempt,
     ScheduleRetry, Release, EnqueueRun, AggregateRun, ApplyCancelCommand,
     FinalizeCancelCommand, MarkCancelIndeterminate, ApplyResumeCommand,
     AbandonWorkerClaims, ClaimNext, RecoverExpiredLeases, LeaseExpires

LEMMA SupNextKeepsChildren ==
    ASSUME SupIInv, SupNext
    PROVE  /\ ChildrenFit'
           /\ \A t \in SideEffect, g \in Generations :
                 child'[t][g].state = "checked" =>
                     child[t][g].state = "checked" \/ t \in confirmed
<1> USE DEF SupIInv
<1>1. CASE Exit \/ Crash
  BY <1>1, ProcessEndsFits, TaskQueueAssumption DEF Exit, Crash, ChildrenKeep
<1>2. CASE ThreadStep
  BY <1>2, ThreadStepKeepsChildren, TaskQueueAssumption DEF ChildrenKeep
<1>3. CASE \E t \in Tasks, g \in Generations : ChildStep(t, g)
  <2>1. PICK t \in Tasks, g \in Generations : ChildStep(t, g)
    BY <1>3
  <2>2. QED
    BY <2>1, ChildStepFits, TaskQueueAssumption
<1>4. CASE \E s \in Slots : RequestStep(s)
  BY <1>4, RequestStepFits, TaskQueueAssumption DEF ChildrenKeep
<1>5. CASE UNCHANGED child
  BY <1>5, SameChildrenKeep, TaskQueueAssumption DEF ChildrenKeep
<1>6. QED
  BY <1>1, <1>2, <1>3, <1>4, <1>5
     DEF SupNext, StartProcess, Stop, ClaimCopyExpires, ApiRequest, Expire, RetryFallsDue

(* A handler is invoked only by a child that has passed its checks.        *)
LEMMA EffectsFollowChecks ==
    ASSUME SupIInv, SupNext, NEW t \in SideEffect, effects'[t] # effects[t]
    PROVE  \E g \in Generations : child[t][g].state = "checked"
<1>1. effects \in [SideEffect -> Nat]
  BY DEF SupIInv
<1>2. PICK u \in Tasks, g \in Generations : ChildInvoke(u, g)
  BY DEF SupNext, StartProcess, Stop, Exit, Crash, ProcessEnds, ThreadStep, ChildStep,
     ChildCheck, ChildValidate, ChildCommit, ChildFails, ChildRaises, ChildDies,
     ApiRequest, RequestStep, Expire, RetryFallsDue
<1>3. u = t
  BY <1>1, <1>2 DEF ChildInvoke
<1>4. QED
  BY <1>2, <1>3 DEF ChildInvoke

LEMMA ConfirmedEffectsStep ==
    ASSUME SupIInv, SupNext PROVE ConfirmedEffects'
<1>1. confirmed \subseteq confirmed'
  BY SupNextIsNext, UndoneByNobody DEF SupIInv, IInv
<1>2. ASSUME NEW t \in SideEffect, NEW g \in Generations, child'[t][g].state = "checked"
      PROVE  t \in confirmed'
  BY <1>1, <1>2, SupNextKeepsChildren DEF SupIInv, ConfirmedEffects
<1>3. ASSUME NEW t \in SideEffect, effects'[t] > 0
      PROVE  t \in confirmed'
  <2>1. CASE effects'[t] = effects[t]
    BY <1>1, <1>3, <2>1 DEF SupIInv, ConfirmedEffects, EffectNeedsConfirmation
  <2>2. CASE effects'[t] # effects[t]
    BY <1>1, <2>2, EffectsFollowChecks DEF SupIInv, ConfirmedEffects
  <2>3. QED
    BY <2>1, <2>2
<1>4. QED
  BY <1>2, <1>3 DEF ConfirmedEffects, EffectNeedsConfirmation

LEMMA SupNextIInv == SupIInv /\ [SupNext]_supVars => SupIInv'
<1> SUFFICES ASSUME SupIInv, [SupNext]_supVars PROVE SupIInv'
  OBVIOUS
<1>1. CASE SupNext
  BY <1>1, SupNextIsNext, NextIInv, SupNextFits, SupNextKeepsChildren, ConfirmedEffectsStep
     DEF SupIInv
<1>2. CASE UNCHANGED supVars
  <2>1. UNCHANGED vars
    BY <1>2 DEF supVars
  <2>2. IInv'
    BY <2>1, NextIInv DEF SupIInv
  <2>3. UNCHANGED <<process, due, th, child, request, effects>> /\ UNCHANGED confirmed
    BY <1>2, <2>1 DEF supVars, process, vars
  <2>4. ConfirmedEffects'
    BY <2>3 DEF SupIInv, ConfirmedEffects, EffectNeedsConfirmation
  <2>5. QED
    BY <2>2, <2>3, <2>4, Unmoved DEF SupIInv, ChildrenFit, process
<1>3. QED
  BY <1>1, <1>2

LEMMA SupInitIInv == SupInit => SupIInv
<1> SUFFICES ASSUME SupInit PROVE SupIInv
  OBVIOUS
<1>1. IInv
  BY InitIInv DEF SupInit
<1>2. ProcessFits /\ due \in SUBSET Tasks /\ effects \in [SideEffect -> Nat]
  BY DEF SupInit, ProcessFits
<1>3. ThreadFits
  <2>1. th \in ThreadStates /\ th.pc = "down"
    BY AtRest DEF SupInit, ThreadPcs
  <2>2. QED
    BY <2>1 DEF ThreadFits, ThreadKnows, Holding, Settling
<1>4. RequestsFit
  BY QuietFits DEF SupInit, RequestsFit, RequestsKnow
<1>5. ChildrenFit /\ \A t \in Tasks, g \in Generations : child[t][g].state = "none"
  BY DEF SupInit, ChildrenFit, Children, ChildStates
<1>6. ConfirmedEffects
  BY <1>5, TaskQueueAssumption DEF SupInit, ConfirmedEffects, EffectNeedsConfirmation
<1>7. QED
  BY <1>1, <1>2, <1>3, <1>4, <1>5, <1>6 DEF SupIInv

-----------------------------------------------------------------------------
(***************************************************************************)
(* The theorems.                                                           *)
(***************************************************************************)

(* Wherever the supervisor, its children, its users and its crashes lead,  *)
(* the rows satisfy the invariant of the queue, the thread knows its claim *)
(* where it uses one, every request knows its run, and every side effect   *)
(* that happened was confirmed.                                            *)
THEOREM SupInductive == SupSpec => []SupIInv
BY SupInitIInv, SupNextIInv, PTL DEF SupSpec

(* The variables of the supervisor keep their types.                       *)
THEOREM SupTypesKept == SupSpec => []SupTypeOK
<1>1. SupIInv => SupTypeOK
  BY DEF SupIInv, SupTypeOK, IInv, ProcessFits, ThreadFits, ChildrenFit, RequestsFit
<1>2. QED
  BY <1>1, SupInductive, PTL

(* The supervisor implements the queue: whatever worker_loop, run_once, a  *)
(* child, a request or a restart does to the tables is one transaction of  *)
(* TaskQueue by somebody entitled to it.  So every theorem about Spec is   *)
(* one about the running program.                                          *)
THEOREM SupervisorImplementsQueue == SupSpec => Spec
<1>1. SupInit => Init
  BY DEF SupInit
<1>2. SupIInv /\ [SupNext]_supVars => [Next]_vars
  BY SupNextIsNext DEF supVars
<1>3. QED
  BY <1>1, <1>2, SupInductive, PTL DEF SupSpec, Spec

(* No handler of a side effect is ever invoked without the confirmation of *)
(* its user, although its task can become ready, be claimed and be started *)
(* without one, and whoever crashes, retries or outlives its parent.       *)
THEOREM NoEffectWithoutConfirmation == SupSpec => []EffectNeedsConfirmation
<1>1. SupIInv => EffectNeedsConfirmation
  BY DEF SupIInv, ConfirmedEffects
<1>2. QED
  BY <1>1, SupInductive, PTL

=============================================================================
