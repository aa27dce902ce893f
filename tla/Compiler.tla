------------------------------ MODULE Compiler ------------------------------
(***************************************************************************)
(* Compiler.compile of runtime/compiler.py: from the draft of a planner to *)
(* the immutable plan of a run.  A draft is                                *)
(*   [steps, catalog, external, goal]                                      *)
(* where a step is [key, op, inputs, params] as in module Goals, catalog   *)
(* the operations the planner was offered, external the artifacts it names *)
(* beside the tasks, and goal what the request demands: the formats to     *)
(* export, whether any one of them will do, and the record of Goals.       *)
(* known is the artifact lookup: by identifier the type, the CRS, the CRS  *)
(* the user declared for a file, and whether the row is valid.             *)
(*                                                                         *)
(* The planner boundary (_plan of runtime/llm_planner.py, module Drafting) *)
(* has written the type, CRS and hash of every artifact it names from that *)
(* lookup, so a reference cannot disagree with it.  Insertion of           *)
(* reprojections is off in the runtime, and its budget policy is empty.    *)
(***************************************************************************)
EXTENDS Contracts, Goals

ExportFormats == {"geojson", "gpkg"}

(* Everything a user can be asked for is a pause, the rest a refusal.      *)
Questions == {"EXPORT_FORMAT_CHOICE_REQUIRED", "CRS_REQUIRED", "GOAL_FACTS_REQUIRED",
              "CLARIFICATION_REQUIRED"}

(* The first fault met along a sequence.                                   *)
FirstFault(Fault(_), seq) ==
    LET faulty == {i \in DOMAIN seq : Fault(seq[i]) # "none"}
    IN  IF faulty = {} THEN "none" ELSE Fault(seq[Min(faulty)])

-----------------------------------------------------------------------------
(* The draft as a whole.                                                   *)
FileFormats(goal) == goal.formats \ (IF goal.demands.native THEN {"geotiff"} ELSE {})

FormatFault(steps, goal) ==
    IF FileFormats(goal) = {} THEN "none"
    ELSE When(~(FileFormats(goal) \subseteq ExportFormats), "INVALID_PARAMETER")
      ?? When(Cardinality(goal.formats) > 1 /\ goal.either, "EXPORT_FORMAT_CHOICE_REQUIRED")
      ?? When(\A s \in ToSet(steps) : s.op # "file.export", "INVALID_PARAMETER")

CatalogFault(draft) ==
    When(\E s \in ToSet(draft.steps) : CanonicalName(s.op) \notin draft.catalog,
         "OPERATION_NOT_IN_CATALOG")

ArtifactFault(id, known) == When(~known[id].valid, "INVALID_REF")

ExternalFault(draft, known) ==
    LET Fault(id) == ArtifactFault(id, known) IN FirstFault(Fault, draft.external)

DraftFault(draft, known) ==
    FormatFault(draft.steps, draft.goal)
 ?? When(draft.steps = <<>>, "EMPTY_PLAN")
 ?? CatalogFault(draft)
 ?? ExternalFault(draft, known)
 ?? When(Cardinality(Keys(draft.steps)) # Len(draft.steps), "DUPLICATE_TASK_KEY")
 ?? When(\E s \in ToSet(draft.steps) : ~Known(s.op), "UNKNOWN_TOOL")

-----------------------------------------------------------------------------
(* The ports of a step.  "layer" is an old name of a port of map.build; it *)
(* goes to the end of the dict.                                            *)
CanonicalInputs(step) ==
    LET at(port) == {i \in DOMAIN step.inputs : step.inputs[i].port = port}
        layer == CHOOSE i \in at("layer") : TRUE
    IN  IF step.op = "map.build" /\ at("layer") # {} /\ at("vector") = {}
        THEN Append(RemoveAt(step.inputs, layer), [step.inputs[layer] EXCEPT !.port = "vector"])
        ELSE step.inputs

ShapeFault(binding, port) ==
    When(binding.list /\ ~port.many, "PORT_MISMATCH")
 ?? When(Len(binding.refs) < port.min, "PORT_MISMATCH")

PortsFault(step) ==
    LET ports == Contract(step.op).ins
        Fault(b) == When(b.port \notin DOMAIN ports, "PORT_MISMATCH") ?? ShapeFault(b, ports[b.port])
        given == {step.inputs[i].port : i \in DOMAIN step.inputs}
    IN  FirstFault(Fault, step.inputs)
     ?? When(\E p \in DOMAIN ports : ports[p].required /\ p \notin given, "PORT_MISMATCH")

Canonical(steps) ==
    [i \in DOMAIN steps |-> [steps[i] EXCEPT !.inputs = CanonicalInputs(steps[i])]]

-----------------------------------------------------------------------------
(* The graph of the steps.                                                 *)
RefsFault(steps) ==
    LET Fault(s) == When(~(Producers(s) \subseteq Keys(steps)), "INVALID_REF")
                 ?? When(s.key \in Producers(s), "DAG_CYCLE")
    IN  FirstFault(Fault, steps)

(* Kahn's algorithm, the least key first: stuck when there is a cycle.     *)
Free(steps, done) ==
    {k \in Keys(steps) \ ToSet(done) : Producers(ByKey(steps)[k]) \subseteq ToSet(done)}

Longer(steps, done) ==
    IF Free(steps, done) = {} THEN done ELSE Append(done, Min(Free(steps, done)))

Order(steps) ==
    LET done[n \in 0 .. Len(steps)] == IF n = 0 THEN <<>> ELSE Longer(steps, done[n - 1])
        keys == done[Len(steps)]
    IN  [i \in DOMAIN keys |-> ByKey(steps)[keys[i]]]

(* Mutation of GraphFault: what is left over is not noticed.               *)
GraphFaultOfRefs(steps) == RefsFault(steps)
GraphFault(steps) ==
    RefsFault(steps) ?? When(Len(Order(steps)) # Len(steps), "DAG_CYCLE")

-----------------------------------------------------------------------------
(* One step, when the outputs of its producers are known.                  *)
RefFault(ref, port, known, outputs) ==
    When(ref.all /\ ~port.many, "INVALID_REF")
 ?? IF ref.kind = "artifact"
    THEN When(~Accepts(port, known[ref.of].type), "TYPE_MISMATCH")
      ?? ArtifactFault(ref.of, known)
      ?? When(port.located /\ known[ref.of].crs = "none", "CRS_REQUIRED")
    ELSE LET out == outputs[ref.of]
         IN  When(ref.port # out.port, "PORT_MISMATCH")
          ?? When(out.many # ref.all, "INVALID_REF")
          ?? When(~Accepts(port, out.type), "TYPE_MISMATCH")
          ?? When(~ref.all /\ ref.ordinal >= 1, "INVALID_REF")
          ?? When(port.located /\ out.crs = "none", "CRS_REQUIRED")

InputsFault(step, known, outputs) ==
    LET ports == Contract(step.op).ins
        BindingFault(b) == LET Fault(r) == RefFault(r, ports[b.port], known, outputs)
                           IN  FirstFault(Fault, b.refs)
    IN  FirstFault(BindingFault, step.inputs)

Defaults(rules) == {p \in DOMAIN rules : rules[p].default # "none"}

NormalParams(step) ==
    LET rules == Contract(step.op).params
    IN  [p \in DOMAIN step.params \cup Defaults(rules) |->
            IF p \in DOMAIN step.params THEN step.params[p] ELSE rules[p].default]

ParamsFault(step) ==
    LET rules == Contract(step.op).params
        params == NormalParams(step)
    IN  When(\/ ~(DOMAIN step.params \subseteq DOMAIN rules)
             \/ \E p \in DOMAIN rules : rules[p].required /\ p \notin DOMAIN params
             \/ \E p \in DOMAIN params : params[p] \notin rules[p].ok,
             "INVALID_PARAMETER")

(* Code is parsed, and names every file it reads once.                     *)
CodeFault(step, params) ==
    LET count == Len(FlattenSeq([i \in DOMAIN step.inputs |-> step.inputs[i].refs]))
        names == IF "declared_inputs" \in DOMAIN params THEN params.declared_inputs ELSE "absent"
        fitting == CASE count = 0 -> {"absent", "no names"}
                     [] count = 1 -> {"one name"}
                     [] OTHER -> {"two names"}
    IN  When(step.op = "code.execute" /\ (params.source_code = "banned" \/ names \notin fitting),
             "INVALID_PARAMETER")

(* The runtime compiles with no allowed root: no path passes.              *)
SideEffectFault(step) == When(HasSideEffect(CanonicalName(step.op)), "INVALID_PARAMETER")

CrsParamsFault(params) ==
    When(\E p \in {"source_crs", "target_crs"} \cap DOMAIN params : params[p] = "odd",
         "INVALID_PARAMETER")

ExportFault(step, params, goal) ==
    When(/\ step.op = "file.export" /\ goal.formats # {}
         /\ params.format \notin goal.formats, "INVALID_PARAMETER")

-----------------------------------------------------------------------------
(* The CRS a step declares for its output: of every port the first         *)
(* reference counts, a later port overrides an earlier one, and an         *)
(* artifact without CRS overrides with none.                               *)
InputCrs(step, known, outputs) ==
    LET first(i) == Head(step.inputs[i].refs)
        crs(r) == IF r.kind = "task" THEN outputs[r.of].crs
                  ELSE IF known[r.of].crs # "none" THEN known[r.of].crs ELSE known[r.of].declared
        counting == {i \in DOMAIN step.inputs :
                        /\ step.inputs[i].refs # <<>>
                        /\ first(i).kind = "artifact" \/ crs(first(i)) # "none"}
    IN  IF counting = {} THEN "none" ELSE crs(first(Max(counting)))

OutputCrs(step, params, known, outputs) ==
    IF step.op = "geo.geocode" THEN "GCJ02"
    ELSE IF step.op \in {"io.csv_to_points", "raster.vectorize"} THEN params.crs
    ELSE IF "target_crs" \in DOMAIN params THEN params.target_crs
    ELSE InputCrs(step, known, outputs)

OutputFault(step, crs) ==
    When(step.op \in {"io.load_vector", "io.load_raster"} /\ crs = "none", "CRS_REQUIRED")
 ?? When(step.op = "file.export" /\ crs = "GCJ02", "CRS_CONFLICT")

OutputSpec(step, params, crs) ==
    LET tool == Contract(step.op)
    IN  [port |-> tool.port, type |-> CHOOSE t \in tool.out.types : TRUE, many |-> tool.out.many,
         crs |-> IF step.op = "file.export" /\ params.format = "geojson" THEN "EPSG:4326" ELSE crs]

StepFault(step, params, known, outputs, goal) ==
    InputsFault(step, known, outputs)
 ?? ParamsFault(step)
 ?? CodeFault(step, params)
 ?? ExportFault(step, params, goal)
 ?? SideEffectFault(step)
 ?? CrsParamsFault(params)
 ?? OutputFault(step, OutputCrs(step, params, known, outputs))

CompiledTask(step, params, out) ==
    [key |-> step.key, op |-> CanonicalName(step.op), inputs |-> step.inputs,
     params |-> params, out |-> out]

(* The steps in their order; the outputs of those that went before.        *)
Nothing == [fault |-> "none", outputs |-> <<>>, tasks |-> <<>>]

Grown(acc, step, known, goal) ==
    LET params == NormalParams(step)
        fault == StepFault(step, params, known, acc.outputs, goal)
        out == OutputSpec(step, params, OutputCrs(step, params, known, acc.outputs))
    IN  IF acc.fault # "none" THEN acc
        ELSE IF fault # "none" THEN [acc EXCEPT !.fault = fault]
        ELSE [acc EXCEPT !.outputs = With(@, step.key, out),
                         !.tasks = Append(@, CompiledTask(step, params, out))]

Tasks(steps, known, goal) ==
    LET order == Order(steps)
        built[n \in 0 .. Len(order)] ==
            IF n = 0 THEN Nothing ELSE Grown(built[n - 1], order[n], known, goal)
    IN  built[Len(order)]

DeliveryFault(tasks, goal) ==
    LET exported == {t.params.format : t \in {x \in ToSet(tasks) : x.op = "file.export"}}
    IN  When(FileFormats(goal) \ exported # {}, "GOAL_REQUIREMENT_MISSING")
     ?? GoalFault(tasks, goal.demands)

Verdict(code, tasks) ==
    [verdict |-> IF code = "none" THEN "planned"
                 ELSE IF code \in Questions THEN "asked" ELSE "refused",
     code |-> code,
     tasks |-> IF code = "none" THEN tasks ELSE <<>>]

Compile(draft, known) ==
    LET steps == Canonical(draft.steps)
        Of(built) == Verdict(DraftFault(draft, known)
                          ?? FirstFault(PortsFault, steps)
                          ?? GraphFault(steps)
                          ?? built.fault
                          ?? DeliveryFault(built.tasks, draft.goal),
                             built.tasks)
    IN  Of(Tasks(steps, known, draft.goal))
=============================================================================
