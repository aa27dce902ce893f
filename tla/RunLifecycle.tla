---------------------------- MODULE RunLifecycle ----------------------------
(***************************************************************************)
(* What a run promises the person who asked for it, without leases,        *)
(* workers, attempts or commands.  The run thinks, may ask, works by a     *)
(* plan made for everything it was told so far, stops when told to, and is *)
(* over once.  Module RunCommands implements it.                           *)
(***************************************************************************)
EXTENDS Naturals

CONSTANT MaxAnswers     \* bound: inputs that are explored

VARIABLES
    phase,      \* "thinking", "asking", "working", "stopping" or "over"
    told,       \* how many inputs the run was given; the request is the first
    plan        \* the inputs its plan was made for; 0 while there is no plan

promise == <<phase, told, plan>>

Phases == {"thinking", "asking", "working", "stopping", "over"}

Begin == phase = "thinking" /\ told = 1 /\ plan = 0

Move(from, to) == phase \in from /\ phase' = to

Ask == Move({"thinking", "working"}, "asking") /\ UNCHANGED <<told, plan>>

(* Only a question can be answered, and every answer makes a new input.    *)
Answer ==
    /\ Move({"asking"}, "thinking")
    /\ told < MaxAnswers
    /\ told' = told + 1
    /\ UNCHANGED plan

(* A question that came up while working may be overtaken: work that was   *)
(* under way goes on without the answer.  One that planning asked is not.  *)
Overtaken == Move({"asking"}, "working") /\ plan # 0 /\ UNCHANGED <<told, plan>>

(* A plan is decided on once, for all that was said until then.            *)
Decide ==
    /\ Move({"thinking"}, "working")
    /\ plan = 0
    /\ plan' = told
    /\ UNCHANGED told

(* After an answer to a question that came up while working, the plan      *)
(* stands and the work goes on.                                            *)
GoOn == Move({"thinking"}, "working") /\ plan # 0 /\ UNCHANGED <<told, plan>>

End == Move({"thinking", "working"}, "over") /\ UNCHANGED <<told, plan>>

StopRequest == Move({"thinking", "asking", "working"}, "stopping") /\ UNCHANGED <<told, plan>>

(* A stop ends the run, or asks what to do when the outcome is unknown.    *)
Stopped == Move({"stopping"}, "over") /\ UNCHANGED <<told, plan>>
Unsure == Move({"stopping"}, "asking") /\ plan # 0 /\ UNCHANGED <<told, plan>>

Step == Ask \/ Answer \/ Overtaken \/ Decide \/ GoOn \/ End \/ StopRequest \/ Stopped \/ Unsure

Promise == Begin /\ [][Step]_promise
=============================================================================
