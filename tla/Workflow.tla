------------------------------ MODULE Workflow ------------------------------
(***************************************************************************)
(* One run from the request to its results: a draft is asked of the        *)
(* language model (module Drafting) and compiled (module Compiler), the    *)
(* tasks of the plan are executed as soon as the tasks they read from have *)
(* succeeded (RuntimeExecutor.execute), and what a task returns is         *)
(* verified and published with the metadata the compiler froze.  Who plans *)
(* or executes, when and how often is the matter of modules Planning,      *)
(* TaskQueue and Supervisor; here a run is planned once and each task      *)
(* executed once.                                                          *)
(***************************************************************************)
EXTENDS Drafting, Handlers

CONSTANTS
    Drafts,     \* what the language model may come up with
    Library     \* the artifacts there are before the run: [identifier -> artifact]

VARIABLES
    draft,      \* the draft, once there is one
    plan,       \* the result of its compilation
    published,  \* the artifacts of every task that has succeeded
    failed      \* the error code of every task that has failed

vars == <<talk, draft, plan, published, failed>>

-----------------------------------------------------------------------------
(* The shape of a draft.  A step binds a port once, to one reference or to *)
(* a list of them.                                                         *)
WellFormed(d) ==
    LET sequence(s) == s \in Seq(ToSet(s))
        reference(r) == r.kind \in {"artifact", "task"}
        binding(b) == /\ DOMAIN b = {"port", "list", "refs"}
                      /\ b.list \in BOOLEAN /\ sequence(b.refs)
                      /\ ~b.list => Len(b.refs) = 1
                      /\ \A r \in ToSet(b.refs) : reference(r)
        step(s) == /\ DOMAIN s = {"key", "op", "inputs", "params"}
                   /\ s.key \in Nat /\ sequence(s.inputs)
                   /\ IsInjective([i \in DOMAIN s.inputs |-> s.inputs[i].port])
                   /\ \A b \in ToSet(s.inputs) : binding(b)
    IN  /\ DOMAIN d = {"steps", "catalog", "external", "goal", "asks", "grounded"}
        /\ d.asks \in {"nothing", "question", "blank"}
        /\ sequence(d.steps)
        /\ \A s \in ToSet(d.steps) : step(s)

(* An artifact whose numbers are where it says.  Of uploads this is true   *)
(* when the file and its user are right about it; rows of earlier runs     *)
(* were published like those of this one.                                  *)
Payloads ==
    [frame : {"none", "misstated", "astray"} \cup {Physical(c) : c \in Crs},
     carrier : {"none"} \cup {Physical(c) : c \in Crs},
     label : BOOLEAN,
     holds : {"Vector", "Raster", "Table", "Place", "bytes"}]

Sound(a) ==
    LET crs == EffectiveCrs(a)
    IN  /\ a.data \in Payloads /\ {a.crs, a.declared} \subseteq Crs \cup {"none"}
        /\ a.data.frame \in {"none", "misstated", Physical(crs)} \/ a.type = "POISet"
        /\ a.data.holds \in {"Vector", "Raster"} /\ crs # "none" => a.data.frame # "none"
        /\ a.type = "Vector" => Named(a.crs) /\ a.data.holds = "Vector"
        /\ a.type = "Raster" => /\ Named(a.crs) /\ a.crs # "GCJ02" /\ a.data.holds = "Raster"
                               /\ a.data.carrier = Physical(a.crs)

ASSUME DraftsAssumption == \A d \in Drafts : WellFormed(d)
ASSUME LibraryAssumption == \A id \in DOMAIN Library : Sound(Library[id])

-----------------------------------------------------------------------------
NoDraft == [steps |-> <<>>, catalog |-> {}, external |-> <<>>, goal |-> <<>>,
            asks |-> "nothing", grounded |-> TRUE]
NoPlan == [verdict |-> "none", code |-> "none", tasks |-> <<>>]

(* What the compiler is told of an artifact.                               *)
Described ==
    [id \in DOMAIN Library |->
        [type |-> Library[id].type, crs |-> Library[id].crs,
         declared |-> Library[id].declared, valid |-> Library[id].valid]]

Init == /\ talk = Talk("post", FALSE, 0)
        /\ draft = NoDraft
        /\ plan = NoPlan
        /\ published = <<>>
        /\ failed = <<>>

(* _plan_once: a refusal of the first draft is answered by a repair, a     *)
(* question to the user never is.  (Nor is a demand for an operation that  *)
(* may not be offered.)                                                    *)
Submit(raw) ==
    /\ talk.phase = "answered"
    /\ \E d \in {Bounded(raw)} : \E result \in {Judged(d, Described)} :
           LET refused == result.verdict = "refused" /\ ~talk.repair
           IN  \/ refused /\ Repair /\ UNCHANGED <<draft, plan>>
               \/ /\ refused => result.code = "GOAL_REQUIREMENT_MISSING"
                  /\ talk' = Over /\ draft' = d /\ plan' = result
    /\ UNCHANGED <<published, failed>>

(* A conversation that failed otherwise is the end of the planning.        *)
GiveUp ==
    /\ talk.phase = "ended"
    /\ talk' = Over
    /\ plan' = Verdict(talk.code, <<>>)
    /\ UNCHANGED <<draft, published, failed>>

-----------------------------------------------------------------------------
(* The execution of a task.                                                *)
Task(key) == ByKey(plan.tasks)[key]
Open == Keys(plan.tasks) \ (DOMAIN published \cup DOMAIN failed)
Ready == {k \in Open : Producers(Task(k)) \subseteq DOMAIN published}

Resolved(ref) ==
    IF ref.kind = "artifact" THEN <<Library[ref.of]>>
    ELSE IF ref.all THEN published[ref.of] ELSE <<published[ref.of][1]>>

Given(task) ==
    [p \in {task.inputs[i].port : i \in DOMAIN task.inputs} |->
        LET b == CHOOSE x \in ToSet(task.inputs) : x.port = p
        IN  FlattenSeq([i \in DOMAIN b.refs |-> Resolved(b.refs[i])])]

Gated(task) ==
    \A b \in ToSet(task.inputs) : Fits(b, Contract(task.op).ins[b.port])

(* luck is what depends on the data or the world: rows, no rows, or an     *)
(* error, as when bytes are not what their type says.  An empty list of    *)
(* inputs leaves a handler with nothing to return.                         *)
TaskFault(task, luck, given, results) ==
    LET nothing == luck = "nothing" \/ (results = Refused /\ <<>> \in Range(given))
        accepted(Test(_, _)) == \A g \in ToSet(results) : Test(task.out, g)
    IN  When(~Gated(task), "VALIDATION_FAILED")
     ?? When(luck = "error", "TOOL_EXECUTION_FAILED")
     ?? When(nothing /\ ~MayBeEmpty(task.op), "TASK_EMPTY")
     ?? When(results = Refused, "TOOL_EXECUTION_FAILED")
     ?? When(~Postcondition(task.op, given, task.params, results), "VALIDATION_FAILED")
     ?? When(~accepted(ExecutorAccepts), "VALIDATION_FAILED")
     ?? When(~accepted(StoreAccepts), "TOOL_EXECUTION_FAILED")

Outcome(task, luck) ==
    LET Of(given, results) ==
            [code |-> TaskFault(task, luck, given, results), results |-> results]
        Worked(given) == Of(given, Handle(task.op, given, task.params))
    IN  Worked(Given(task))

Artifact(out, g) ==
    [type |-> out.type, crs |-> out.crs, declared |-> "none", inspected |-> FALSE,
     valid |-> TRUE, data |-> g]

Execute(key, luck) ==
    /\ key \in Ready
    /\ LET task == Task(key)
       IN  \E end \in {Outcome(task, luck)} :
           IF end.code = "none"
           THEN /\ published' = With(published, key, [i \in DOMAIN end.results |->
                                                        Artifact(task.out, end.results[i])])
                /\ UNCHANGED failed
           ELSE /\ failed' = With(failed, key, end.code)
                /\ UNCHANGED published
    /\ UNCHANGED <<talk, draft, plan>>

Next ==
    \/ (\E response \in Responses : Post(response)) /\ UNCHANGED <<draft, plan, published, failed>>
    \/ Expire /\ UNCHANGED <<draft, plan, published, failed>>
    \/ \E d \in Drafts : Submit(d)
    \/ GiveUp
    \/ \E key \in Open, luck \in {"rows", "nothing", "error"} : Execute(key, luck)

Spec == Init /\ [][Next]_vars

-----------------------------------------------------------------------------
(* Coordinates are really in the system their metadata names, whatever     *)
(* chain of operations they went through, unless the plan itself told a    *)
(* conversion a false source.  (Except the places a search finds.)         *)
Truthful(a) ==
    \/ a.data.frame \in {"none", "misstated", Physical(a.crs)}
    \/ a.type = "POISet"

PublishedIsTrue ==
    \A key \in DOMAIN published : \A i \in DOMAIN published[key] : Truthful(published[key][i])

(* A draft that asks the user something is never run.  Every step of an    *)
(* accepted draft is a task that gets its turn unless something it reads   *)
(* from fails, and a port for one artifact is then given one: the checks   *)
(* of the compiler are enough for the gate.  (Not so for a port that takes *)
(* many: a reference that is in no list, or one to all outputs that is in  *)
(* a list, compiles and is refused at the gate.)                           *)
PlanRunsThrough ==
    plan.verdict = "planned" =>
        /\ draft.asks = "nothing"
        /\ Keys(plan.tasks) = Keys(draft.steps)
        /\ \A k \in Open : Ancestors(plan.tasks, k) \cap (Ready \cup DOMAIN failed) # {}
        /\ \A k \in Ready : \A b \in ToSet(Task(k).inputs) :
                LET port == Contract(Task(k).op).ins[b.port]
                IN  port.many \/ Fits(b, port)

(* What was asked for is carried out on the records that are delivered,    *)
(* along every way they can have taken from an upload to the delivery, the *)
(* numbered stages one after the other; and the deliveries of independent  *)
(* instructions are so many different results, each made by way of what    *)
(* its instruction asks for.  (A single demand, when nothing is delivered, *)
(* need only be met somewhere, and without any demand stages are not       *)
(* looked at.)                                                             *)
Ways(tasks, leaf) ==
    LET task == ByKey(tasks)
        ways[k \in Keys(tasks)] ==
            LET above == UNION {ways[u] : u \in Upstream(task[k])}
                start == IF ReadsUpload(task[k]) \/ Upstream(task[k]) = {} THEN {<<>>} ELSE {}
            IN  {Append(w, k) : w \in above \cup start}
    IN  ways[leaf]

Meets(tasks, way, required) == \E i \in DOMAIN way : Satisfies(ByKey(tasks)[way[i]], required)
StageByStage(tasks, way, stages) ==
    \E at \in [DOMAIN stages -> DOMAIN way] :
        \A i, j \in DOMAIN stages :
            /\ Satisfies(ByKey(tasks)[way[at[i]]], stages[i])
            /\ stages[i].stage < stages[j].stage => at[i] < at[j]

Carries(tasks, leaf, obligations) ==
    \A way \in Ways(tasks, leaf) : \A o \in ToSet(obligations) : Meets(tasks, way, o)

Alone(tasks, obligations, stages) ==
    /\ Len(Work(obligations)) = 1 /\ stages = <<>>
    /\ \A t \in ToSet(tasks) : ~Delivers(t)

(* Unless it demands too little to be looked for on the way ...            *)
Held(tasks, goal) ==
    /\ Work(goal.obligations) # <<>>
    /\ goal.native \/ ~Alone(tasks, goal.obligations, goal.stages)

(* ... all of it is carried out on the way to a delivery.                  *)
InTurn(tasks, leaf, goal) ==
    /\ Carries(tasks, leaf, Work(goal.obligations))
    /\ \A way \in Ways(tasks, leaf) : StageByStage(tasks, way, goal.stages)

Answers(tasks, group, want) ==
    {k \in Candidates(tasks) :
        /\ \A o \in ToSet(group.obligations) :
                \E u \in Ancestors(tasks, k) : Satisfies(ByKey(tasks)[u], o)
        /\ Held(tasks, group) => InTurn(tasks, k, group)
        /\ \A w \in want : Satisfies(ByKey(tasks)[k], w)}
Demands(group) ==
    IF group.wanted = <<>> THEN <<{}>> ELSE [i \in DOMAIN group.wanted |-> {group.wanted[i]}]

Leaves(tasks, goal) ==
    Candidates(tasks) \cup (IF goal.native THEN Terminal(tasks) ELSE {})

GoalIsCarried ==
    LET tasks == plan.tasks
        goal == draft.goal.demands
        slots == UNION {{<<g, i>> : i \in DOMAIN Demands(goal.groups[g])} : g \in DOMAIN goal.groups}
        answers(S) == UNION {Answers(tasks, goal.groups[s[1]], Demands(goal.groups[s[1]])[s[2]]) : s \in S}
    IN  plan.verdict = "planned" =>
            IF goal.groups = <<>>
            THEN Held(tasks, goal) => \A leaf \in Leaves(tasks, goal) : InTurn(tasks, leaf, goal)
            ELSE \A S \in SUBSET slots : Cardinality(answers(S)) >= Cardinality(S)
=============================================================================
