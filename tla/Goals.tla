------------------------------- MODULE Goals -------------------------------
(***************************************************************************)
(* What a request demands of any plan that answers it, and how a compiled  *)
(* plan is held to it: validate_goal_requirements of                       *)
(* runtime/goal_requirements.py.  The requirements are read from the text  *)
(* of the request by patterns; here they are a parameter.                  *)
(*                                                                         *)
(* A task is [key, op, inputs, params, out]; its inputs are a sequence of  *)
(* [port, list, refs], and a reference is [kind, of, port, all, ordinal].  *)
(* Keys of tasks are numbers: the order of their names.                    *)
(***************************************************************************)
EXTENDS Naturals, Sequences, FiniteSets, Functions, SequencesExt

(* The first fault of a chain of checks, in the order of the code.         *)
f ?? g == IF f = "none" THEN g ELSE f
When(holds, code) == IF holds THEN code ELSE "none"

(* The function f with the value v at x.                                   *)
With(f, x, v) == [y \in DOMAIN f \cup {x} |-> IF y = x THEN v ELSE f[y]]

Refs(task) == UNION {ToSet(task.inputs[i].refs) : i \in DOMAIN task.inputs}
Producers(task) == {r.of : r \in {x \in Refs(task) : x.kind = "task"}}

Keys(tasks) == {tasks[i].key : i \in DOMAIN tasks}
ByKey(tasks) == [k \in Keys(tasks) |-> CHOOSE t \in ToSet(tasks) : t.key = k]

Delivers(task) == task.op \in {"map.build", "file.export"}

(* Of the requirements those that are work on the records.                 *)
Work(obligations) == SelectSeq(obligations, LAMBDA o : ~Delivers(o))

(* The producer of every reference that carries the records on: those of   *)
(* the first of the ports input, vector and raster, "upload" for an        *)
(* artifact.                                                               *)
PrimaryRefs(task) ==
    LET named(p) == {i \in DOMAIN task.inputs : task.inputs[i].port = p}
        ports == IF named("input") # {} THEN named("input")
                 ELSE IF named("vector") # {} THEN named("vector")
                 ELSE named("raster")
    IN  UNION {ToSet(task.inputs[i].refs) : i \in ports}

Upstream(task) == {r.of : r \in {x \in PrimaryRefs(task) : x.kind = "task"}}
ReadsUpload(task) == \E r \in PrimaryRefs(task) : r.kind = "artifact"

(* A requirement is [op, params]: the parameters a task must have.  Two    *)
(* spellings of one comparison of attribute.filter are one value here.     *)
Satisfies(task, required) ==
    /\ task.op = required.op
    /\ \A p \in DOMAIN required.params :
            p \in DOMAIN task.params /\ task.params[p] = required.params[p]

Meet(sets) == {x \in UNION sets : \A s \in sets : x \in s}

(* Mutation of Inherited: one branch is enough.                            *)
InheritedFromAny(task, proved) == UNION {proved[k] : k \in Upstream(task)}

(* What the records of a task's output have gone through: its own part,    *)
(* and of what is upstream only what every branch of it guarantees.        *)
Inherited(task, proved) ==
    Meet({proved[k] : k \in Upstream(task)} \cup (IF ReadsUpload(task) THEN {{}} ELSE {}))

Guaranteed(tasks, obligations) ==
    LET task == ByKey(tasks)
        proved[k \in Keys(tasks)] ==
            {i \in DOMAIN obligations : Satisfies(task[k], obligations[i])}
                \cup Inherited(task[k], proved)
    IN  proved

Consumed(tasks) == UNION {Producers(t) : t \in ToSet(tasks)}
Terminal(tasks) == Keys(tasks) \ Consumed(tasks)

-----------------------------------------------------------------------------
(* Stages the request numbers, as a sequence of requirements [op, params,  *)
(* stage]: one counts for a task only when all of the earlier stages have  *)
(* reached its primary input.                                              *)
Earlier(stages, i) == {j \in DOMAIN stages : stages[j].stage < stages[i].stage}

InOrder(tasks, stages) ==
    LET task == ByKey(tasks)
        proved[k \in Keys(tasks)] ==
            LET before == Inherited(task[k], proved)
            IN  before \cup {i \in DOMAIN stages : /\ Earlier(stages, i) \subseteq before
                                                   /\ Satisfies(task[k], stages[i])}
    IN  proved

Lineage(tasks, leaf) ==
    LET task == ByKey(tasks)
        line[k \in Keys(tasks)] == {k} \cup UNION {line[u] : u \in Upstream(task[k])}
    IN  line[leaf]

OrderedStagesFault(tasks, stages, leaves) ==
    LET task == ByKey(tasks)
        proved == InOrder(tasks, stages)
        asked == Cardinality({r.stage : r \in {x \in ToSet(stages) : x.op = "vector.buffer"}})
        had(leaf) == Cardinality({k \in Lineage(tasks, leaf) : task[k].op = "vector.buffer"})
    IN  When(\E leaf \in leaves : \/ proved[leaf] # DOMAIN stages
                                  \/ asked > 0 /\ had(leaf) # asked,
             "GOAL_LINEAGE_MISMATCH")

(* The goal is [missing, anyOf, native, obligations, stages]: facts the    *)
(* request leaves open, conditions joined by "or", a raster as the final   *)
(* download, what is asked for, and the numbered stages.                   *)
NativeFault(tasks, goal) ==
    LET ends == {t \in ToSet(tasks) : t.key \in Terminal(tasks)}
    IN  When(goal.native /\ \E t \in ends : \/ t.out.type # "Raster"
                                            \/ t.out.many
                                            \/ t.out.crs = "none",
             "GOAL_DELIVERY_TYPE_MISMATCH")

GoalRequirementsFault(tasks, goal) ==
    LET missed == {i \in DOMAIN goal.obligations :
                        \A t \in ToSet(tasks) : ~Satisfies(t, goal.obligations[i])}
        obligations == Work(goal.obligations)
        delivery == {t.key : t \in {x \in ToSet(tasks) : Delivers(x)}}
                        \cup (IF goal.native THEN Terminal(tasks) ELSE {})
        leaves == IF delivery = {} THEN Terminal(tasks) ELSE delivery
        single == Len(obligations) = 1 /\ delivery = {} /\ goal.stages = <<>>
        proved == Guaranteed(tasks, obligations)
    IN  When(goal.missing, "GOAL_FACTS_REQUIRED")
     ?? When(goal.anyOf, "GOAL_BOOLEAN_UNSUPPORTED")
     ?? NativeFault(tasks, goal)
     ?? When(missed # {}, "GOAL_REQUIREMENT_MISSING")
     ?? IF obligations = <<>> \/ single THEN "none"
        ELSE When(\E leaf \in leaves : proved[leaf] # DOMAIN obligations,
                  "GOAL_LINEAGE_MISMATCH")
          ?? IF goal.stages = <<>> THEN "none"
             ELSE OrderedStagesFault(tasks, goal.stages, leaves)

-----------------------------------------------------------------------------
(* Independent instructions.  A group is a goal of its own and what it     *)
(* wants delivered: [anyOf, native, obligations, stages, wanted].          *)
Ancestors(tasks, key) ==
    LET task == ByKey(tasks)
        line[k \in Keys(tasks)] == {k} \cup UNION {line[u] : u \in Producers(task[k])}
    IN  line[key]

(* Some of the tasks, where they are in the plan.                          *)
Part(tasks, keys) == [i \in {j \in DOMAIN tasks : tasks[j].key \in keys} |-> tasks[i]]

(* Nothing else may come between the upload and the delivery: only what    *)
(* the group allows, each no more often than it asks for it.               *)
KeepsToOriginal(tasks, group, leaf) ==
    LET specific == {o.op : o \in {x \in ToSet(group.obligations) : x.params # <<>>}}
        allowed == {o \in ToSet(group.obligations) : o.params # <<>> \/ o.op \notin specific}
        transforms == {t \in ToSet(Part(tasks, Lineage(tasks, leaf))) :
                          t.op \notin {"io.load_vector", "io.load_raster", "map.build", "file.export"}}
        times(S, op) == Cardinality({x \in S : x.op = op})
    IN  /\ \A t \in transforms : \E o \in allowed : Satisfies(t, o)
        /\ \A o \in allowed : times(transforms, o.op) <= times(allowed, o.op)

(* The final tasks that deliver what one group asks for.                   *)
Candidates(tasks) ==
    LET deliveries == {t.key : t \in {x \in ToSet(tasks) : Delivers(x)}}
    IN  IF deliveries = {} THEN Terminal(tasks) ELSE deliveries

Valid(tasks, group) ==
    LET checks == [missing |-> FALSE, anyOf |-> group.anyOf, native |-> group.native,
                   obligations |-> group.obligations, stages |-> group.stages]
    IN  {k \in Candidates(tasks) :
            /\ GoalRequirementsFault(Part(tasks, Ancestors(tasks, k)), checks) = "none"
            /\ KeepsToOriginal(tasks, group, k)}

Slots(tasks, group) ==
    IF group.wanted = <<>> THEN <<Valid(tasks, group)>>
    ELSE [i \in DOMAIN group.wanted |->
            {k \in Valid(tasks, group) : Satisfies(ByKey(tasks)[k], group.wanted[i])}]

GroupFault(tasks, group) ==
    When(\E o \in ToSet(group.obligations \o group.wanted) :
            \A t \in ToSet(tasks) : ~Satisfies(t, o), "GOAL_REQUIREMENT_MISSING")
 ?? When({} \in ToSet(Slots(tasks, group)), "GOAL_LINEAGE_MISMATCH")

(* No output may answer two instructions, and none may answer none.        *)
IndependentGroupsFault(tasks, groups) ==
    LET slots == [i \in DOMAIN groups |-> Slots(tasks, groups[i])]
        asked == UNION {{<<i, j>> : j \in DOMAIN slots[i]} : i \in DOMAIN groups}
        covered == UNION {slots[x[1]][x[2]] : x \in asked}
        assigned == \E a \in [asked -> covered] :
                        IsInjective(a) /\ \A x \in asked : a[x] \in slots[x[1]][x[2]]
    IN  FoldLeft(LAMBDA fault, g : fault ?? GroupFault(tasks, g), "none", groups)
     ?? When(\/ ~assigned
             \/ \E t \in ToSet(tasks) : Delivers(t) /\ t.key \notin covered,
             "GOAL_LINEAGE_MISMATCH")

(* The requirements of the whole request.                                  *)
GoalFault(tasks, goal) ==
    IF goal.missing THEN "GOAL_FACTS_REQUIRED"
    ELSE IF goal.groups # <<>> THEN IndependentGroupsFault(tasks, goal.groups)
    ELSE GoalRequirementsFault(tasks, goal)
=============================================================================
