----------------------------- MODULE MCWorkflow -----------------------------
(* The library of artifacts and the drafts of the run of module Workflow.  *)
EXTENDS Workflow

File(holds, crs, declared, valid) ==
    [type |-> "File", crs |-> crs, declared |-> declared, inspected |-> TRUE, valid |-> valid,
     data |-> [Payload(IF holds = "Table" THEN "none" ELSE IF crs # "none" THEN crs ELSE declared,
                       crs, FALSE) EXCEPT !.holds = holds]]

Made(type, crs, data) ==
    [type |-> type, crs |-> crs, declared |-> "none", inspected |-> FALSE, valid |-> TRUE, data |-> data]

MCLibrary ==
    "f4326" :> File("Vector", "EPSG:4326", "none", TRUE) @@
    "f3857" :> File("Vector", "EPSG:3857", "EPSG:3857", TRUE) @@
    "fgcj"  :> File("Vector", "none", "GCJ02", TRUE) @@
    "fbare" :> File("Vector", "none", "none", TRUE) @@
    "fcsv"  :> File("Table", "none", "none", TRUE) @@
    "ftif"  :> File("Raster", "none", "EPSG:3857", TRUE) @@
    "fbad"  :> File("Vector", "EPSG:4326", "none", FALSE) @@
    "v4326" :> Made("Vector", "EPSG:4326", Payload("EPSG:4326", "EPSG:4326", FALSE)) @@
    "v3857" :> Made("Vector", "EPSG:3857", Payload("EPSG:3857", "EPSG:3857", FALSE)) @@
    "vgcj"  :> Made("Vector", "GCJ02", Payload("GCJ02", "EPSG:4326", TRUE)) @@
    "vwgs"  :> Made("Vector", "WGS84", Payload("EPSG:4326", "EPSG:4326", FALSE)) @@
    "r4326" :> Made("Raster", "EPSG:4326", [Payload("EPSG:4326", "EPSG:4326", FALSE) EXCEPT !.holds = "Raster"]) @@
    "r3857" :> Made("Raster", "EPSG:3857", [Payload("EPSG:3857", "EPSG:3857", FALSE) EXCEPT !.holds = "Raster"]) @@
    "cgcj"  :> Made("Coordinate", "GCJ02", Place("GCJ02")) @@
    "c4326" :> Made("Coordinate", "EPSG:4326", Place("EPSG:4326")) @@
    "table" :> Made("Table", "none", Unplaced("Table"))

-----------------------------------------------------------------------------
(* Pieces of drafts.                                                       *)
A(id) == [kind |-> "artifact", of |-> id, port |-> "none", all |-> FALSE, ordinal |-> 0]
T(key, op) == [kind |-> "task", of |-> key, port |-> Contract(op).port,
               all |-> Contract(op).out.many, ordinal |-> 0]
In(port, ref) == [port |-> port, list |-> FALSE, refs |-> <<ref>>]
List(port, refs) == [port |-> port, list |-> TRUE, refs |-> refs]
Step(key, op, inputs, params) == [key |-> key, op |-> op, inputs |-> inputs, params |-> params]

Anything == [missing |-> FALSE, anyOf |-> FALSE, native |-> FALSE,
             obligations |-> <<>>, stages |-> <<>>, groups |-> <<>>]
Draft(steps) == [steps |-> steps, catalog |-> Operations, external |-> <<>>,
                 goal |-> [formats |-> {}, either |-> FALSE, demands |-> Anything],
                 asks |-> "nothing", grounded |-> TRUE]

(* One way to bind a port: a list where it takes many.                     *)
Bind(op, port, ref) ==
    IF Contract(op).ins[port].many /\ ~ref.all THEN List(port, <<ref>>) ELSE In(port, ref)

Fitting(port) == {id \in DOMAIN Library : Accepts(port, Library[id].type)}

CrsParams(op) == {"source_crs", "target_crs", "crs"} \cap DOMAIN Contract(op).params
NeededParams(op) == {p \in DOMAIN Contract(op).params : Contract(op).params[p].required}
Usual(op) == [p \in NeededParams(op) |-> CHOOSE v \in Contract(op).params[p].ok : TRUE]
Params(op) == {c @@ Usual(op) : c \in [CrsParams(op) -> Crs]}
Faulty(op) ==
    {[Usual(op) EXCEPT ![p] = "unlisted"] : p \in NeededParams(op)}
        \cup {Restrict(Usual(op), NeededParams(op) \ {p}) : p \in NeededParams(op)}
        \cup {Usual(op) @@ [extra |-> "text"]}

Ports(op) == SetToSeq(DOMAIN Contract(op).ins)
Bindings(op, refs) ==      \* refs: port -> references
    {[i \in DOMAIN Ports(op) |-> Bind(op, Ports(op)[i], c[Ports(op)[i]])] :
        c \in {f \in [DOMAIN Contract(op).ins -> UNION Range(refs)] :
                    \A p \in DOMAIN f : f[p] \in refs[p]}}
FromLibrary(op) == [p \in DOMAIN Contract(op).ins |-> {A(id) : id \in Fitting(Contract(op).ins[p])}]

(* Every operation on every fitting input, and with parameters that fail.  *)
Singles ==
    UNION {{Draft(<<Step(1, op, b, ps)>>) : b \in Bindings(op, FromLibrary(op)), ps \in Params(op)} :
            op \in Operations}
Rejects ==
    UNION {{Draft(<<Step(1, op, CHOOSE b \in Bindings(op, FromLibrary(op)) : TRUE, ps)>>) :
            ps \in Faulty(op)} : op \in Operations}

(* Parameters that may be left out.                                        *)
Optional ==
    {Draft(<<Step(1, op, CHOOSE b \in Bindings(op, FromLibrary(op)) : TRUE, (p :> v) @@ Usual(op))>>) :
        <<op, p, v>> \in {<<"raster.contour", "interval", "positive">>,
                          <<"raster.contour", "interval", "negative">>,
                          <<"vector.join_nearest", "max_distance", "zero">>,
                          <<"raster.polygonize", "band", "zero">>,
                          <<"file.export", "format", "gpkg">>,
                          <<"file.export", "format", "shp">>}}

(* Two steps: what the first makes of some input is read by any port that  *)
(* takes it, the other ports bound before it and after it.                 *)
Some == {"f4326", "fgcj", "fcsv", "ftif", "v3857", "vgcj", "vwgs", "r3857", "c4326", "table"}
FromSome(op) == [p \in DOMAIN Contract(op).ins |-> {A(id) : id \in Fitting(Contract(op).ins[p]) \cap Some}]
Beside == {"v4326", "vgcj", "r4326"}
Reads(port, op2, op1) ==
    [p \in DOMAIN Contract(op2).ins |->
        IF p = port THEN {T(1, op1)}
        ELSE {A(id) : id \in Fitting(Contract(op2).ins[p]) \cap Beside}]
Makers == {"geo.geocode", "geo.transform", "coordinate.convert", "vector.convert_datum",
           "vector.reproject", "vector.reproject_many", "vector.buffer", "vector.clip",
           "vector.merge", "io.load_vector", "io.load_raster", "io.load_csv", "io.csv_to_points",
           "raster.vectorize", "raster.polygonize", "file.export"}
Targets(op) == {c @@ Usual(op) : c \in [CrsParams(op) -> {"EPSG:4326", "EPSG:3857", "GCJ02"}]}
Chains ==
    UNION {UNION {UNION {
        {Draft(<<Step(1, op1, b1, ps1), Step(2, op2, b2, ps2)>>) :
            b1 \in Bindings(op1, FromSome(op1)), ps1 \in Targets(op1),
            b2 \in UNION {{b, Reverse(b)} : b \in Bindings(op2, Reads(port, op2, op1))},
            ps2 \in Targets(op2)} :
        port \in {p \in DOMAIN Contract(op2).ins :
                    /\ Contract(op2).ins[p].types \cap Contract(op1).out.types # {}
                    /\ Contract(op1).out.many => Contract(op2).ins[p].many}} :
        op2 \in Operations} : op1 \in Makers}

-----------------------------------------------------------------------------
(* Code reads files under the names it declares.                           *)
Code(files, names) ==
    Draft(<<Step(1, "code.execute", IF files = <<>> THEN <<>> ELSE <<List("input", files)>>,
                 names @@ [source_code |-> "safe"])>>)
Codes ==
    {Code(files, names) : files \in {<<>>, <<A("f4326")>>, <<A("f4326"), A("fcsv")>>},
        names \in {<<>>} \cup {[declared_inputs |-> v] : v \in Contract("code.execute").params.declared_inputs.ok}}

(* Drafts around a chain of three that is right, in every order, and with  *)
(* one thing wrong at a time.                                              *)
Load(key) == Step(key, "io.load_vector", <<In("file", A("f4326"))>>, <<>>)
Buffer(key, ref) == Step(key, "vector.buffer", <<In("vector", ref)>>, Usual("vector.buffer"))
Export(key, ref) == Step(key, "file.export", <<In("input", ref)>>, <<>>)
Map(key, port, ref) == Step(key, "map.build", <<In(port, ref)>>, <<>>)
Merge(key, refs) == Step(key, "vector.merge", <<List("input", refs)>>, <<>>)
Reproject(key, ids) ==
    Step(key, "vector.reproject_many", <<List("vector", ids)>>, [target_crs |-> "EPSG:3857"])

Out(key) == T(key, "vector.buffer")        \* any output of one vector
Loaded(key) == T(key, "io.load_vector")
Broken(ref) ==
    {[ref EXCEPT !.ordinal = 1], [ref EXCEPT !.all = TRUE], [ref EXCEPT !.port = "file"],
     [ref EXCEPT !.of = 9]}
Right == <<Load(1), Buffer(2, Loaded(1)), Export(3, Out(2))>>

Graphs ==
    {Draft([i \in 1 .. 3 |-> Right[s[i]]]) : s \in [1 .. 3 -> 1 .. 3]}
        \cup {Draft(<<Load(1), Buffer(2, r), Export(3, Out(2))>>) :
                r \in Broken(Loaded(1)) \cup {Out(2), T(3, "file.export"), A("fbad"), A("table")}}
        \cup {Draft(<<Load(1), Buffer(2, Out(3)), Buffer(3, Out(2))>>), Draft(<<>>),
              Draft(<<Load(1), Step(2, "vector.teleport", <<>>, <<>>)>>),
              Draft(<<Load(1), Map(2, "layer", Loaded(1))>>), Draft(<<Load(1), Map(2, "table", Loaded(1))>>),
              Draft(<<Load(1), Step(2, "vector.buffer", <<List("vector", <<Loaded(1)>>)>>, Usual("vector.buffer"))>>),
              Draft(<<Load(1), Step(2, "vector.buffer", <<>>, Usual("vector.buffer"))>>),
              Draft(<<Load(1), Step(2, "vector.merge", <<In("input", Loaded(1))>>, <<>>)>>),
              Draft(<<Merge(1, <<>>)>>), Draft(<<Reproject(1, <<>>)>>),
              Draft(<<Reproject(1, <<A("v4326"), A("vgcj")>>), Step(2, "vector.merge", <<In("input", T(1, "vector.reproject_many"))>>, <<>>)>>),
              Draft(<<Reproject(1, <<A("v4326")>>), Merge(2, <<T(1, "vector.reproject_many")>>)>>),
              Draft(<<Step(1, "io.export", <<In("input", A("fcsv"))>>, [path |-> "inside"])>>)}
        \cup {[Draft(Right) EXCEPT !.external = e] : e \in {<<"f4326">>, <<"fbad">>, <<"f4326", "fbad">>}}
        \cup {[Draft(Right) EXCEPT !.catalog = @ \ {"vector.buffer"}]}
        \cup {[Draft(Right) EXCEPT !.goal.formats = fs, !.goal.either = e] :
                fs \in SUBSET {"geojson", "gpkg", "shp"}, e \in BOOLEAN}
        \cup {[Draft(<<Load(1)>>) EXCEPT !.goal.formats = fs] : fs \in SUBSET {"geojson", "gpkg"}}

-----------------------------------------------------------------------------
(* What a request demands, against every small plan: an upload is loaded,  *)
(* and two or three steps follow, each on what any earlier one made.       *)
Filter(key, ref) == Step(key, "attribute.filter", <<In("input", ref)>>, Usual("attribute.filter"))
Next1(key, refs) ==
    UNION {{Filter(key, r), Buffer(key, r), Map(key, "vector", r), Export(key, r)} : r \in refs}
        \cup {Merge(key, <<q, r>>) : <<q, r>> \in {x \in refs \X refs : x[1].of < x[2].of}}
Makes(step) == IF step.op \in {"map.build", "file.export"} THEN {}
               ELSE {[T(step.key, step.op) EXCEPT !.all = FALSE]}
Small ==
    LET one == <<Load(1)>>
        more(seqs) == UNION {{Append(s, n) :
                        n \in Next1(Len(s) + 1, UNION {Makes(s[i]) : i \in DOMAIN s})} : s \in seqs}
    IN  more({one}) \cup more(more({one})) \cup more(more(more({one})))

Need(op) == [op |-> op, params |-> IF op = "vector.buffer" THEN [distance_m |-> Usual(op).distance_m]
                                   ELSE IF op = "file.export" THEN [format |-> "geojson"] ELSE <<>>]
Needs(ops) == [i \in DOMAIN ops |-> Need(ops[i])]
F == "attribute.filter"
B == "vector.buffer"
M == "map.build"
E == "file.export"
(* The operations, each a stage of its own; "together", one stage of all.  *)
Stages(ops) == [i \in DOMAIN ops |-> Need(ops[i]) @@ [stage |-> i]]
Together(ops) == [i \in DOMAIN ops |-> Need(ops[i]) @@ [stage |-> 1]]
Group(ops, wanted) == [anyOf |-> FALSE, native |-> FALSE, obligations |-> Needs(ops),
                       stages |-> <<>>, wanted |-> Needs(wanted)]
Goals1 ==
    {[Anything EXCEPT !.obligations = Needs(ops)] :
        ops \in {<<F>>, <<B>>, <<F, B>>, <<F, B, E>>, <<B, M>>, <<M, E>>}}
    \cup {[Anything EXCEPT !.obligations = Needs(ops), !.stages = ss] : <<ops, ss>> \in
        {<<o, Stages(o)>> : o \in {<<F, B>>, <<B, F>>, <<B, B>>, <<F, B, F>>}}
            \cup {<<o, Together(o)>> : o \in {<<F, B>>, <<B, F>>, <<B, B>>}}
            \cup {<<<<F, B, F>>, Together(<<F, B>>) \o <<Need(F) @@ [stage |-> 2]>> >>}}
    \cup {[Anything EXCEPT !.groups = gs] :
        gs \in {<<Group(<<F>>, <<E>>), Group(<<B>>, <<E>>)>>,
                <<Group(<<F>>, <<M>>), Group(<<F>>, <<M>>)>>,
                <<Group(<<F, B>>, <<>>), Group(<<B>>, <<>>)>>,
                <<[Group(<<F, B>>, <<E>>) EXCEPT !.stages = Stages(<<B, F>>)]>>,
                <<[Group(<<F, B>>, <<>>) EXCEPT !.stages = Together(<<F, B>>)], Group(<<B>>, <<>>)>>,
                <<[Group(<<F>>, <<>>) EXCEPT !.anyOf = TRUE]>>,
                <<[Group(<<F>>, <<>>) EXCEPT !.native = TRUE]>>,
                <<Group(<<>>, <<M, E>>)>>}}
    \cup {[Anything EXCEPT !.missing = TRUE], [Anything EXCEPT !.anyOf = TRUE],
          [Anything EXCEPT !.native = TRUE, !.obligations = Needs(<<F>>)]}
Asked == {[Draft(steps) EXCEPT !.goal.demands = g] : steps \in Small, g \in Goals1}
Native ==
    {[Draft(<<Step(1, "io.load_raster", <<In("file", A("ftif"))>>, <<>>),
              Step(2, op, <<In("raster", T(1, "io.load_raster"))>>, Usual(op))>>)
        EXCEPT !.goal.formats = {"geotiff"},
               !.goal.demands = [Anything EXCEPT !.native = TRUE, !.groups = gs,
                                                !.obligations = <<[op |-> op, params |-> <<>>]>>]] :
        op \in {"raster.slope", "raster.polygonize"},
        gs \in {<<>>, <<[Group(<<"raster.slope">>, <<>>) EXCEPT !.native = TRUE]>>}}

(* Two instructions on one upload: each result delivered, or one twice.    *)
Forked ==
    {[Draft(<<Load(1), Filter(2, Loaded(1)), Buffer(3, Loaded(1)),
              Export(4, T(2, F)), Export(5, T(last[1], last[2]))>>) EXCEPT !.goal.demands.groups = gs] :
        last \in {<<2, F>>, <<3, B>>}, gs \in {g.groups : g \in Goals1}}

(* Drafts that need the boundary: questions, with steps or without, facts  *)
(* that are made up, and other ways of writing.                            *)
Raw ==
    {[Draft(steps) EXCEPT !.asks = a] : steps \in {<<>>, Right}, a \in {"question", "blank"}}
        \cup {[Draft(Right) EXCEPT !.grounded = FALSE], [Draft(Right) EXCEPT !.external = <<"ghost">>],
              Draft(<<Buffer(1, A("ghost"))>>),
              Draft(<<Step(1, "code.execute", <<>>, [source_code |-> "safe", source_code_hash |-> "text"])>>)}
        \cup {Draft(<<Step(1, "raster.slope", <<In("raster", A("r3857"))>>, [degree |-> v])>>) :
                v \in DOMAIN Spelled \cup {"positive"}}

MCDrafts == Raw \cup Singles \cup Rejects \cup Optional \cup Chains \cup Codes \cup Graphs \cup Asked \cup Native \cup Forked
=============================================================================
