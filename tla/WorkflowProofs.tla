--------------------------- MODULE WorkflowProofs ---------------------------
(***************************************************************************)
(* What is published is where its metadata says, whatever chain of         *)
(* operations a draft of the language model strings together; a plan that  *)
(* is accepted runs through; and it carries out what the request demands.  *)
(*                                                                         *)
(* For the first, the argument follows an artifact backwards.  Every       *)
(* handler turns sound inputs into results that are sound, or that the     *)
(* executor or the store refuses (HandledSound); a task is given sound     *)
(* inputs of the types its ports accept, and its metadata is what the      *)
(* compiler froze (GivenFed, FrozenFor); that holds of every task of a     *)
(* plan, because the loop of the compiler sees a step after all its        *)
(* producers (TasksGood); and the steps of a draft keep their shape on the *)
(* way there (BoundedSteps, CanonicalSteps).                               *)
(*                                                                         *)
(* The others go forwards, along the order of the plan (PlanInduction):    *)
(* every step is in it (OrderIsComplete), the first open task is ready     *)
(* (TurnComes), and what a task guarantees holds of every way that leads   *)
(* to it (GuaranteeHolds, StagesHold).                                     *)
(***************************************************************************)
EXTENDS Workflow, WellFoundedInduction, FiniteSetTheorems, SequenceTheorems, TLAPS

-----------------------------------------------------------------------------
(* Induction on natural numbers, for sets.                                 *)
LEMMA LeastNumber ==
    ASSUME NEW T \in SUBSET Nat, T # {}
    PROVE  \E n \in T : \A m \in T : n <= m
  <1> DEFINE R == OpToRel(<, Nat)
  <1>1. IsWellFoundedOn(R, Nat)
    BY NatLessThanWellFounded
  <1>2. \A x, y \in Nat : x < y => <<x, y>> \in R
    BY DEF OpToRel
  <1> HIDE DEF R
  <1>3. PICK n \in T : \A m \in T : ~ (<<m, n>> \in R)
    BY <1>1, WFMin
  <1>4. \A m \in T : ~ (m < n)
    BY <1>2, <1>3
  <1> QED
    BY <1>4

LEMMA SetInduction ==
    ASSUME NEW S \in SUBSET Nat, 0 \in S, \A n \in S : n + 1 \in S
    PROVE  S = Nat
  <1> SUFFICES ASSUME S # Nat
               PROVE  FALSE
    OBVIOUS
  <1>1. PICK n \in Nat \ S : \A m \in Nat \ S : n <= m
    BY LeastNumber
  <1>2. n # 0 /\ n - 1 \in Nat /\ n - 1 < n
    BY <1>1
  <1>3. n - 1 \in S
    BY <1>1, <1>2
  <1> QED
    BY <1>1, <1>3

(* A recursion along the numbers up to N, in a set it does not leave,      *)
(* defines a function.                                                     *)
Recursion(f, n, base, next) == f[0] = base /\ \A m \in 1 .. n : f[m] = next[<<f[m - 1], m>>]

LEMMA RecursionExists ==
    ASSUME NEW N \in Nat, NEW D, NEW base \in D, NEW next,
           \A d \in D, m \in 1 .. N : next[<<d, m>>] \in D
    PROVE  \E f \in [0 .. N -> D] : Recursion(f, N, base, next)
  <1> DEFINE S == {k \in Nat : k <= N => \E f \in [0 .. k -> D] : Recursion(f, k, base, next)}
  <1>1. 0 \in S
    <2> DEFINE f == [m \in 0 .. 0 |-> base]
    <2>1. f \in [0 .. 0 -> D] /\ f[0] = base
      OBVIOUS
    <2>2. Recursion(f, 0, base, next)
      BY <2>1 DEF Recursion
    <2> QED
      BY <2>1, <2>2
  <1>2. ASSUME NEW k \in S
        PROVE  k + 1 \in S
    <2>1. k \in Nat /\ k + 1 \in Nat /\ k # k + 1
      OBVIOUS
    <2>2. SUFFICES ASSUME k + 1 <= N
                   PROVE  \E f \in [0 .. k + 1 -> D] : Recursion(f, k + 1, base, next)
      BY <2>1
    <2>3. PICK f \in [0 .. k -> D] : Recursion(f, k, base, next)
      BY <2>1, <2>2
    <2> DEFINE g == [m \in 0 .. k + 1 |-> IF m = k + 1 THEN next[<<f[k], k + 1>>] ELSE f[m]]
    <2>4. k \in 0 .. k /\ k + 1 \in 1 .. N /\ k + 1 \in 0 .. k + 1 /\ k \in 0 .. k + 1 /\ 0 \in 0 .. k + 1
      BY <2>1, <2>2
    <2>5. \A m \in 0 .. k : m \in 0 .. k + 1 /\ m # k + 1
      BY <2>1
    <2>6. \A m \in 0 .. k + 1 : m = k + 1 \/ m \in 0 .. k
      BY <2>1
    <2>7. next[<<f[k], k + 1>>] \in D
      BY <2>3, <2>4
    <2>8. g \in [0 .. k + 1 -> D]
      BY <2>3, <2>6, <2>7
    <2>9. g[k + 1] = next[<<f[k], k + 1>>] /\ \A m \in 0 .. k : g[m] = f[m]
      BY <2>4, <2>5
    <2> HIDE DEF g
    <2>10. g[0] = base
      <3>1. 0 \in 0 .. k
        BY <2>1
      <3> QED
        BY <2>3, <2>9, <3>1 DEF Recursion
    <2>11. ASSUME NEW m \in 1 .. k + 1
           PROVE  g[m] = next[<<g[m - 1], m>>]
      <3>1. CASE m = k + 1
        <4>1. m - 1 = k
          BY <2>1, <3>1
        <4> QED
          BY <2>4, <2>9, <3>1, <4>1
      <3>2. CASE m # k + 1
        <4>1. m \in 1 .. k /\ m \in 0 .. k /\ m - 1 \in 0 .. k
          BY <2>1, <3>2
        <4> QED
          BY <2>3, <2>9, <4>1 DEF Recursion
      <3> QED
        BY <3>1, <3>2
    <2> QED
      BY <2>8, <2>10, <2>11 DEF Recursion
  <1> HIDE DEF S
  <1>3. S \in SUBSET Nat
    BY DEF S
  <1>4. N \in S
    BY <1>1, <1>2, <1>3, SetInduction
  <1> QED
    BY <1>4 DEF S

(* A sequence of sequences, none empty, joined.                            *)
LEMMA FlattenTyped ==
    ASSUME NEW A, NEW seqs \in Seq(Seq(A)), seqs # <<>>, \A i \in DOMAIN seqs : seqs[i] # <<>>
    PROVE  FlattenSeq(seqs) \in Seq(A) /\ FlattenSeq(seqs) # <<>>
  <1> DEFINE N == Len(seqs)
             D == {s \in Seq(A) : s # <<>>}
             next == [x \in D \X (1 .. N - 1) |-> x[1] \o seqs[x[2] + 1]]
             Flat(f) == [i \in 1 .. N |-> IF i = 1 THEN seqs[i] ELSE f[i - 1] \o seqs[i]]
  <1>1. N \in Nat /\ N >= 1 /\ N - 1 \in Nat /\ DOMAIN seqs = 1 .. N /\ 1 \in 1 .. N
    OBVIOUS
  <1>2. \A i \in 1 .. N : seqs[i] \in D
    OBVIOUS
  <1>3. \A s, t \in D : s \o t \in D
    OBVIOUS
  <1>4. \A m \in 1 .. N - 1 : m + 1 \in 1 .. N
    BY <1>1
  <1>5. \A d \in D, m \in 1 .. N - 1 : next[<<d, m>>] = d \o seqs[m + 1]
    OBVIOUS
  <1>6. \A d \in D, m \in 1 .. N - 1 : next[<<d, m>>] \in D
    BY <1>2, <1>3, <1>4, <1>5
  <1> HIDE DEF D, next, N
  <1>7. PICK f \in [0 .. N - 1 -> D] : Recursion(f, N - 1, seqs[1], next)
    BY <1>1, <1>2, <1>6, RecursionExists
  <1> DEFINE h == [i \in 1 .. N |-> f[i - 1]]
  <1>8. \A i \in 1 .. N : i - 1 \in 0 .. N - 1
    BY <1>1
  <1>9. h = Flat(h)
    <2>1. ASSUME NEW i \in 1 .. N
          PROVE  f[i - 1] = IF i = 1 THEN seqs[i] ELSE h[i - 1] \o seqs[i]
      <3>1. CASE i = 1
        <4>1. i - 1 = 0
          BY <3>1
        <4> QED
          BY <1>7, <3>1, <4>1 DEF Recursion
      <3>2. CASE i # 1
        <4>1. i - 1 \in 1 .. N - 1 /\ i - 1 \in 1 .. N /\ (i - 1) - 1 \in 0 .. N - 1 /\ (i - 1) + 1 = i
          BY <1>1, <3>2
        <4>2. f[i - 1] = next[<<f[(i - 1) - 1], i - 1>>] /\ f[(i - 1) - 1] \in D
          BY <1>7, <4>1 DEF Recursion
        <4>3. f[i - 1] = f[(i - 1) - 1] \o seqs[i]
          BY <1>5, <4>1, <4>2
        <4>4. h[i - 1] = f[(i - 1) - 1]
          BY <4>1
        <4> QED
          BY <3>2, <4>3, <4>4
      <3> QED
        BY <3>1, <3>2
    <2> HIDE DEF h
    <2>2. Flat(h) = [i \in 1 .. N |-> f[i - 1]]
      BY <2>1
    <2> QED
      BY <2>2 DEF h
  <1> HIDE DEF h
  <1> DEFINE flatten == CHOOSE g : g = Flat(g)
  <1>10. flatten = Flat(flatten)
    BY <1>9
  <1>11. FlattenSeq(seqs) = flatten[N]
    BY <1>1 DEF FlattenSeq, N
  <1> HIDE DEF flatten
  <1> DEFINE S == {k \in Nat : k + 1 <= N => flatten[k + 1] \in D}
  <1>12. flatten[1] = seqs[1] /\ \A i \in 1 .. N : i # 1 => flatten[i] = flatten[i - 1] \o seqs[i]
    BY <1>1, <1>10
  <1>13. 0 \in S
    <2>1. 0 + 1 = 1
      OBVIOUS
    <2> QED
      BY <1>1, <1>2, <1>12, <2>1
  <1>14. ASSUME NEW k \in S
         PROVE  k + 1 \in S
    <2>1. k \in Nat /\ k + 1 \in Nat /\ (k + 1) + 1 # 1 /\ ((k + 1) + 1) - 1 = k + 1
      OBVIOUS
    <2>2. ASSUME (k + 1) + 1 <= N
          PROVE  flatten[(k + 1) + 1] \in D
      <3>1. k + 1 <= N /\ (k + 1) + 1 \in 1 .. N
        BY <1>1, <2>1, <2>2
      <3>2. flatten[(k + 1) + 1] = flatten[k + 1] \o seqs[(k + 1) + 1]
        BY <1>12, <2>1, <3>1
      <3>3. flatten[k + 1] \in D
        BY <3>1
      <3> QED
        BY <1>2, <1>3, <3>1, <3>2, <3>3
    <2> QED
      BY <2>1, <2>2
  <1> HIDE DEF S
  <1>15. S \in SUBSET Nat
    BY DEF S
  <1>16. N - 1 \in S
    BY <1>1, <1>13, <1>14, <1>15, SetInduction
  <1>17. flatten[N] \in D
    <2>1. (N - 1) + 1 = N
      BY <1>1
    <2> QED
      BY <1>1, <1>16, <2>1 DEF S
  <1> QED
    BY <1>11, <1>17 DEF D

(* A sequence of one sequence, or of none, joined.                         *)
LEMMA FlattenOne ==
    ASSUME NEW seqs, seqs \in Seq(ToSet(seqs)), Len(seqs) = 1
    PROVE  FlattenSeq(seqs) = seqs[1]
  <1> DEFINE Flat(f) == [i \in 1 .. 1 |-> IF i = 1 THEN seqs[i] ELSE f[i - 1] \o seqs[i]]
             flatten == CHOOSE f : f = Flat(f)
             h == [i \in 1 .. 1 |-> seqs[i]]
  <1>1. h = Flat(h)
    OBVIOUS
  <1>2. flatten = Flat(flatten)
    BY <1>1
  <1>3. FlattenSeq(seqs) = flatten[1]
    BY DEF FlattenSeq
  <1> HIDE DEF flatten
  <1> QED
    BY <1>2, <1>3

LEMMA FlattenNone ==
    FlattenSeq(<<>>) = <<>>
  BY DEF FlattenSeq

-----------------------------------------------------------------------------
(* The registry.  What the handler of an operation relies on in its        *)
(* contract.                                                               *)
Offers(tool, p, type) == p \in DOMAIN tool.ins /\ tool.ins[p].types = {type}
Takes(tool, p, type) == Offers(tool, p, type) /\ tool.ins[p].required /\ ~tool.ins[p].many
TakesMany(tool, p, type) == Offers(tool, p, type) /\ tool.ins[p].required /\ tool.ins[p].many
Returns(tool, type) == tool.out.types = {type}
Asks(tool, p) == p \in DOMAIN tool.params /\ tool.params[p] = Needed(Projection)

(* The operations whose result is where their one input is.                *)
Following == {"io.load_vector", "io.load_raster", "io.read_upload", "map.build", "file.export",
              "vector.isochrone", "raster.contour", "raster.polygonize"}
Source(op) == CASE op \in {"io.load_vector", "io.load_raster", "io.read_upload"} -> "file"
                [] op = "map.build" -> "vector"
                [] op = "file.export" -> "input"
                [] op = "vector.isochrone" -> "origin"
                [] OTHER -> "raster"
Read(op) == CASE op \in {"io.load_vector", "io.load_raster", "io.read_upload"} -> "File"
              [] op \in {"map.build", "file.export"} -> "Vector"
              [] op = "vector.isochrone" -> "Coordinate"
              [] OTHER -> "Raster"

Named1 == {"vector.merge", "vector.reproject", "vector.reproject_many", "vector.convert_datum",
           "coordinate.convert", "geo.transform", "geo.geocode", "poi.search", "io.load_csv",
           "io.csv_to_points", "raster.reproject", "raster.reproject_many", "raster.vectorize",
           "code.execute", "publish_file"} \cup Following

SuitsMoves(op, tool) ==
    /\ op \in {"vector.reproject", "vector.convert_datum"} =>
            Takes(tool, "vector", "Vector") /\ Returns(tool, "Vector") /\ Asks(tool, "target_crs")
    /\ op = "vector.reproject_many" =>
            TakesMany(tool, "vector", "Vector") /\ Returns(tool, "Vector") /\ Asks(tool, "target_crs")
    /\ op = "raster.reproject" =>
            Takes(tool, "raster", "Raster") /\ Returns(tool, "Raster") /\ Asks(tool, "target_crs")
    /\ op = "raster.reproject_many" =>
            TakesMany(tool, "raster", "Raster") /\ Returns(tool, "Raster") /\ Asks(tool, "target_crs")
    /\ op \in {"vector.convert_datum", "coordinate.convert", "geo.transform"} =>
            Asks(tool, "source_crs") /\ Asks(tool, "target_crs")
    /\ op \in {"coordinate.convert", "geo.transform", "geo.geocode"} => Returns(tool, "Coordinate")
    /\ op = "coordinate.convert" => "coordinates" \in DOMAIN tool.ins /\ tool.ins["coordinates"].required
                                    /\ ~tool.ins["coordinates"].many

SuitsOthers(op, tool) ==
    /\ op = "vector.merge" =>
            TakesMany(tool, "input", "Vector") /\ Returns(tool, "Vector") /\ tool.ins["input"].min = 1
    /\ op = "raster.vectorize" => Takes(tool, "vector", "Vector") /\ Returns(tool, "Raster")

SuitsResult(op, tool) ==
    /\ op = "poi.search" => Returns(tool, "POISet")
    /\ op = "io.load_csv" => Returns(tool, "Table")
    /\ op = "io.load_raster" => Returns(tool, "Raster")
    /\ op = "map.build" => Returns(tool, "MapLayer")
    /\ op \in {"code.execute", "io.read_upload", "file.export"} => Returns(tool, "File")
    /\ op \in {"io.csv_to_points", "io.load_vector", "vector.isochrone", "raster.contour",
               "raster.polygonize"} => Returns(tool, "Vector")

SuitsSource(op, tool) ==
    op \in Following => DOMAIN tool.ins = {Source(op)} /\ Takes(tool, Source(op), Read(op))

SuitsRest(op, tool) ==
    op \notin Named1 =>
        \/ Returns(tool, "Table")
        \/ Returns(tool, "Raster") /\ Takes(tool, "raster", "Raster")
        \/ Returns(tool, "Vector") /\ \A p \in Range(LayersOf(op)) : Takes(tool, p, "Vector")

SuitsParams(op, tool) ==
    /\ \E t : t \in tool.out.types
    /\ "source_crs" \in DOMAIN tool.params => Asks(tool, "source_crs")
    /\ "target_crs" \in DOMAIN tool.params => Asks(tool, "target_crs")
    /\ op \in {"geo.geocode", "io.csv_to_points", "raster.vectorize"} \cup Following =>
            "target_crs" \notin DOMAIN tool.params
    /\ op \in {"io.csv_to_points", "raster.vectorize"} => "crs" \in DOMAIN tool.params

Suits(op, tool) ==
    /\ SuitsMoves(op, tool) /\ SuitsOthers(op, tool) /\ SuitsSource(op, tool)
    /\ SuitsResult(op, tool) /\ SuitsRest(op, tool) /\ SuitsParams(op, tool)

PortIs(port, types, many) == port.types = types /\ port.required /\ port.many = many

LEMMA PortsAre ==
    /\ \A t : PortIs(Port(t), {t}, FALSE)
    /\ PortIs(Vector, {"Vector"}, FALSE)
    /\ PortIs(Raster, {"Raster"}, FALSE)
    /\ PortIs(Coordinate, {"Coordinate"}, FALSE)
    /\ PortIs(Pairs, {"Coordinate", "Table"}, FALSE)
    /\ PortIs(Located(Port("POISet")), {"POISet"}, FALSE)
    /\ PortIs(Many(Vector, 1), {"Vector"}, TRUE) /\ Many(Vector, 1).min = 1
    /\ PortIs(Many(Vector, 0), {"Vector"}, TRUE)
    /\ PortIs(Many(Port("Raster"), 0), {"Raster"}, TRUE)
  BY DEF Port, Vector, Raster, Coordinate, Pairs, Located, Many, PortIs

LEMMA StrictToolsSuit ==
    \A e \in StrictVectorTools : Suits(e[1], e[2]) /\ e[1] # "io.export"
  <1>1. \A e \in StrictVectorTools :
            /\ SuitsMoves(e[1], e[2]) /\ SuitsOthers(e[1], e[2]) /\ SuitsSource(e[1], e[2])
            /\ SuitsResult(e[1], e[2]) /\ SuitsRest(e[1], e[2]) /\ e[1] # "io.export"
    BY PortsAre DEF PortIs, StrictVectorTools, SuitsMoves, SuitsOthers, SuitsSource, SuitsResult,
       SuitsRest, Offers, Takes, TakesMany, Returns, Asks,
       Following, Named1, LayersOf, Layers, Tool, NoParams, Range, KeepsNumbers
  <1>2. \A e \in StrictVectorTools : e[2].out.types = {"Vector"}
    BY PortsAre DEF PortIs, StrictVectorTools, Layers, Tool
  <1>3. \A e \in StrictVectorTools :
            {"source_crs", "target_crs"} \cap DOMAIN e[2].params = {}
            /\ e[1] \notin {"io.csv_to_points", "raster.vectorize"}
    BY DEF StrictVectorTools, Layers, Tool, NoParams
  <1> QED
    BY <1>1, <1>2, <1>3 DEF Suits, SuitsParams

LEMMA BuiltinToolsSuit ==
    \A e \in BuiltinTools : Suits(e[1], e[2]) /\ e[1] # "io.export"
  <1>1. \A e \in BuiltinTools : e[1] # "io.export"
    BY DEF BuiltinTools
  <1>2. \A e \in BuiltinTools : SuitsMoves(e[1], e[2])
    BY PortsAre DEF SuitsMoves, PortIs, BuiltinTools, Offers, Takes, TakesMany, Returns, Asks,
     Following, Source, Read, Named1, LayersOf, Tool, NoParams, NoPorts, Range, RasterToRaster, FromTo, ToTarget
  <1>3. \A e \in BuiltinTools : SuitsOthers(e[1], e[2])
    BY PortsAre DEF SuitsOthers, PortIs, BuiltinTools, Offers, Takes, TakesMany, Returns, Asks,
     Following, Source, Read, Named1, LayersOf, Tool, NoParams, NoPorts, Range, RasterToRaster, FromTo, ToTarget
  <1>4. \A e \in BuiltinTools : SuitsRest(e[1], e[2])
    BY PortsAre DEF SuitsRest, PortIs, BuiltinTools, Offers, Takes, TakesMany, Returns, Asks,
     Following, Source, Read, Named1, LayersOf, Tool, NoParams, NoPorts, Range, RasterToRaster, FromTo, ToTarget
  <1>6. \A e \in BuiltinTools : SuitsSource(e[1], e[2])
    BY PortsAre DEF SuitsSource, PortIs, BuiltinTools, Offers, Takes, TakesMany, Returns, Asks,
     Following, Source, Read, Named1, LayersOf, Tool, NoParams, NoPorts, Range, RasterToRaster, FromTo, ToTarget
  <1>7. \A e \in BuiltinTools : SuitsResult(e[1], e[2])
    BY PortsAre DEF SuitsResult, PortIs, BuiltinTools, Offers, Takes, TakesMany, Returns, Asks,
     Following, Source, Read, Named1, LayersOf, Tool, NoParams, NoPorts, Range, RasterToRaster, FromTo, ToTarget
  <1>5. \A e \in BuiltinTools : SuitsParams(e[1], e[2])
    <2>1. \A e \in BuiltinTools : \E x \in {"Vector", "Raster", "Table", "File", "MapLayer", "Coordinate", "POISet"} :
                e[2].out.types = {x}
      BY PortsAre DEF PortIs, BuiltinTools, Tool, RasterToRaster, ToTarget, FromTo, NoPorts, NoParams
    <2>2. \A e \in BuiltinTools : "target_crs" \in DOMAIN e[2].params => Asks(e[2], "target_crs")
      BY DEF BuiltinTools, Asks, Tool, RasterToRaster, ToTarget, FromTo, NoPorts, NoParams
    <2>3. \A e \in BuiltinTools : "source_crs" \in DOMAIN e[2].params => Asks(e[2], "source_crs")
      BY DEF BuiltinTools, Asks, Tool, RasterToRaster, ToTarget, FromTo, NoPorts, NoParams
    <2>4. \A e \in BuiltinTools :
            e[1] \in {"geo.geocode", "io.csv_to_points", "raster.vectorize"} \cup Following =>
                "target_crs" \notin DOMAIN e[2].params
      BY DEF BuiltinTools, Tool, Following, RasterToRaster, ToTarget, FromTo, NoPorts, NoParams
    <2>5. \A e \in BuiltinTools :
            e[1] \in {"io.csv_to_points", "raster.vectorize"} => "crs" \in DOMAIN e[2].params
      BY DEF BuiltinTools, Tool, RasterToRaster, ToTarget, FromTo, NoPorts, NoParams
    <2> QED
      BY <2>1, <2>2, <2>3, <2>4, <2>5 DEF SuitsParams
  <1> QED
    BY <1>1, <1>2, <1>3, <1>4, <1>5, <1>6, <1>7 DEF Suits

LEMMA PublicToolsSuit ==
    \A e \in PublicTools : Suits(e[1], e[2]) /\ e[1] # "io.export"
  <1>1. \A e \in PublicTools : e[1] # "io.export"
    BY DEF PublicTools
  <1>2. \A e \in PublicTools : SuitsMoves(e[1], e[2])
    BY PortsAre DEF SuitsMoves, PortIs, PublicTools, Offers, Takes, TakesMany, Returns, Asks,
     Following, Source, Read, Named1, LayersOf, Tool, NoParams, NoPorts, Range, RasterToRaster, LayerToLayer
  <1>3. \A e \in PublicTools : SuitsOthers(e[1], e[2])
    BY PortsAre DEF SuitsOthers, PortIs, PublicTools, Offers, Takes, TakesMany, Returns, Asks,
     Following, Source, Read, Named1, LayersOf, Tool, NoParams, NoPorts, Range, RasterToRaster, LayerToLayer
  <1>4. \A e \in PublicTools : SuitsRest(e[1], e[2])
    BY PortsAre DEF SuitsRest, PortIs, PublicTools, Offers, Takes, TakesMany, Returns, Asks,
     Following, Source, Read, Named1, LayersOf, Tool, NoParams, NoPorts, Range, RasterToRaster, LayerToLayer
  <1>6. \A e \in PublicTools : SuitsSource(e[1], e[2])
    BY PortsAre DEF SuitsSource, PortIs, PublicTools, Offers, Takes, TakesMany, Returns, Asks,
     Following, Source, Read, Named1, LayersOf, Tool, NoParams, NoPorts, Range, RasterToRaster, LayerToLayer
  <1>7. \A e \in PublicTools : SuitsResult(e[1], e[2])
    BY PortsAre DEF SuitsResult, PortIs, PublicTools, Offers, Takes, TakesMany, Returns, Asks,
     Following, Source, Read, Named1, LayersOf, Tool, NoParams, NoPorts, Range, RasterToRaster, LayerToLayer
  <1>5. \A e \in PublicTools : SuitsParams(e[1], e[2])
    <2>1. \A e \in PublicTools : \E x \in {"Vector", "Raster", "Table", "File", "MapLayer", "Coordinate", "POISet"} :
                e[2].out.types = {x}
      BY PortsAre DEF PortIs, PublicTools, Tool, RasterToRaster, LayerToLayer, NoPorts, NoParams
    <2>2. \A e \in PublicTools : "target_crs" \in DOMAIN e[2].params => Asks(e[2], "target_crs")
      BY DEF PublicTools, Asks, Tool, RasterToRaster, LayerToLayer, NoPorts, NoParams
    <2>3. \A e \in PublicTools : "source_crs" \in DOMAIN e[2].params => Asks(e[2], "source_crs")
      BY DEF PublicTools, Asks, Tool, RasterToRaster, LayerToLayer, NoPorts, NoParams
    <2>4. \A e \in PublicTools :
            e[1] \in {"geo.geocode", "io.csv_to_points", "raster.vectorize"} \cup Following =>
                "target_crs" \notin DOMAIN e[2].params
      BY DEF PublicTools, Tool, Following, RasterToRaster, LayerToLayer, NoPorts, NoParams
    <2>5. \A e \in PublicTools :
            e[1] \in {"io.csv_to_points", "raster.vectorize"} => "crs" \in DOMAIN e[2].params
      BY DEF PublicTools, Tool, RasterToRaster, LayerToLayer, NoPorts, NoParams
    <2> QED
      BY <2>1, <2>2, <2>3, <2>4, <2>5 DEF SuitsParams
  <1> QED
    BY <1>1, <1>2, <1>3, <1>4, <1>5, <1>6, <1>7 DEF Suits

LEMMA ContractSuits ==
    ASSUME NEW op \in Operations
    PROVE  Suits(op, Contract(op))
  <1>1. PICK e \in Tools : e[1] = op /\ Contract(op) = e[2]
    <2>1. op # "io.export"
      BY StrictToolsSuit, BuiltinToolsSuit, PublicToolsSuit DEF Operations, Tools
    <2>2. CanonicalName(op) = op
      BY <2>1 DEF CanonicalName
    <2> QED
      BY <2>2 DEF Contract, Registry, Operations
  <1> QED
    BY <1>1, StrictToolsSuit, BuiltinToolsSuit, PublicToolsSuit DEF Tools
-----------------------------------------------------------------------------
(* Layers.  The numbers of a coherent layer are in the system its carrier  *)
(* and its label name.                                                     *)
Placed(g) == IF g.label THEN "GCJ02" ELSE g.carrier
Coherent(g) ==
    /\ g \in Payloads /\ g.holds = "Vector"
    /\ g.carrier \in {Lonlat, "EPSG:3857"}
    /\ g.label => g.carrier = Lonlat
    /\ g.frame \in {"misstated", Placed(g)}
InLonlat(g) == Coherent(g) /\ g.carrier = Lonlat /\ ~g.label

LEMMA PhysicalIs ==
    /\ \A c : Physical(c) = IF c = "WGS84" THEN Lonlat ELSE c
    /\ {Physical(c) : c \in Crs} = {Lonlat, "EPSG:3857", "GCJ02"}
  BY DEF Physical, Crs, Lonlat

LEMMA PayloadsAre ==
    Payloads = [frame : {"none", "misstated", "astray", Lonlat, "EPSG:3857", "GCJ02"},
                carrier : {"none", Lonlat, "EPSG:3857", "GCJ02"}, label : BOOLEAN,
                holds : {"Vector", "Raster", "Table", "Place", "bytes"}]
  <1>1. {"none", "misstated", "astray"} \cup {Physical(c) : c \in Crs}
            = {"none", "misstated", "astray", Lonlat, "EPSG:3857", "GCJ02"}
    BY PhysicalIs
  <1>2. {"none"} \cup {Physical(c) : c \in Crs} = {"none", Lonlat, "EPSG:3857", "GCJ02"}
    BY PhysicalIs
  <1> QED
    BY <1>1, <1>2 DEF Payloads

LEMMA PayloadTyped ==
    ASSUME NEW f \in {"none", "misstated", "astray", Lonlat, "EPSG:3857", "GCJ02"},
           NEW c \in {"none", Lonlat, "EPSG:3857", "GCJ02"}
    PROVE  Payload(f, c, TRUE) \in Payloads /\ Payload(f, c, FALSE) \in Payloads
  BY PayloadsAre DEF Payload

LEMMA GdfCoherent ==
    ASSUME NEW a, Sound(a), a.type = "Vector"
    PROVE  /\ Coherent(Gdf(a)) /\ a.crs \in Crs /\ VectorCrs(a) = a.crs
           /\ Gdf(a).label <=> a.crs = "GCJ02"
           /\ Gdf(a).carrier = (IF a.crs = "GCJ02" THEN Lonlat ELSE Physical(a.crs))
  <1>1. /\ a.crs \in Crs /\ a.crs # "none" /\ a.data \in Payloads /\ a.data.holds = "Vector"
        /\ EffectiveCrs(a) = a.crs
        /\ a.data.frame \in {"misstated", Physical(a.crs)}
    BY DEF Sound, Named, EffectiveCrs, Crs
  <1>2. /\ a.data.frame \in {"misstated", Lonlat, "EPSG:3857", "GCJ02"}
        /\ Physical(a.crs) \in {Lonlat, "EPSG:3857", "GCJ02"}
    BY <1>1, PhysicalIs
  <1>3. Gdf(a) = Payload(a.data.frame, IF a.crs = "GCJ02" THEN Lonlat ELSE Physical(a.crs), a.crs = "GCJ02")
    BY <1>1 DEF Gdf
  <1>4. (IF a.crs = "GCJ02" THEN Lonlat ELSE Physical(a.crs)) \in {Lonlat, "EPSG:3857"}
    BY <1>1, PhysicalIs DEF Crs
  <1>5. Lonlat \in {"none", Lonlat, "EPSG:3857", "GCJ02"}
    OBVIOUS
  <1>6. /\ Gdf(a) \in Payloads /\ Gdf(a).frame = a.data.frame /\ Gdf(a).holds = "Vector"
        /\ Gdf(a).label <=> a.crs = "GCJ02"
        /\ Gdf(a).carrier = (IF a.crs = "GCJ02" THEN Lonlat ELSE Physical(a.crs))
    <2>1. CASE a.crs = "GCJ02"
      <3>1. Gdf(a) = Payload(a.data.frame, Lonlat, TRUE)
        BY <1>3, <2>1
      <3>2. Gdf(a) \in Payloads
        BY <1>2, <1>5, <3>1, PayloadTyped
      <3> QED
        BY <2>1, <3>1, <3>2 DEF Payload
    <2>2. CASE a.crs # "GCJ02"
      <3>1. Gdf(a) = Payload(a.data.frame, Physical(a.crs), FALSE)
        BY <1>3, <2>2
      <3>2. Gdf(a) \in Payloads
        BY <1>2, <1>4, <3>1, PayloadTyped
      <3> QED
        BY <2>2, <3>1, <3>2 DEF Payload
    <2> QED
      BY <2>1, <2>2
  <1>7. Coherent(Gdf(a))
    BY <1>1, <1>4, <1>6, PhysicalIs DEF Coherent, Placed
  <1> QED
    BY <1>1, <1>6, <1>7 DEF VectorCrs

LEMMA ToCrsCoherent ==
    ASSUME NEW g, Coherent(g), ~g.label, NEW c \in {Lonlat, "EPSG:3857"}
    PROVE  Coherent(ToCrs(g, c)) /\ ~ToCrs(g, c).label /\ ToCrs(g, c).carrier = c
  BY PayloadsAre DEF Coherent, Placed, ToCrs, Moved, Lonlat

LEMMA UnshiftedCoherent ==
    ASSUME NEW g, g.frame \in {"misstated", "GCJ02"}
    PROVE  InLonlat(Unshifted(g))
  <1>1. Moved(g.frame, "GCJ02", Lonlat) \in {"misstated", Lonlat}
    BY DEF Moved, Lonlat
  <1>2. Lonlat \in {"none", Lonlat, "EPSG:3857", "GCJ02"}
    OBVIOUS
  <1>3. Unshifted(g) \in Payloads
    BY <1>1, <1>2, PayloadTyped DEF Unshifted
  <1>4. /\ Unshifted(g).frame \in {"misstated", Lonlat} /\ Unshifted(g).carrier = Lonlat
        /\ ~Unshifted(g).label /\ Unshifted(g).holds = "Vector"
    BY <1>1 DEF Unshifted, Payload
  <1> QED
    BY <1>3, <1>4 DEF InLonlat, Coherent, Placed

LEMMA EnsureCoherent ==
    ASSUME NEW g, Coherent(g)
    PROVE  InLonlat(EnsureWgs84(g))
  <1>1. CASE g.label
    BY <1>1, UnshiftedCoherent DEF EnsureWgs84, Coherent, Placed
  <1>2. CASE ~g.label
    BY <1>2, ToCrsCoherent DEF EnsureWgs84, InLonlat
  <1> QED
    BY <1>1, <1>2

LEMMA ShiftCoherent ==
    ASSUME NEW g, InLonlat(g)
    PROVE  Coherent(ToGcj02(g)) /\ ToGcj02(g).label
  <1>1. ToCrs(g, Lonlat).frame \in {"misstated", Lonlat}
    BY ToCrsCoherent DEF InLonlat, Coherent, Placed
  <1>2. Moved(ToCrs(g, Lonlat).frame, Lonlat, "GCJ02") \in {"misstated", "GCJ02"}
    BY <1>1 DEF Moved, Lonlat
  <1>3. Lonlat \in {"none", Lonlat, "EPSG:3857", "GCJ02"}
    OBVIOUS
  <1>4. ToGcj02(g) \in Payloads
    BY <1>2, <1>3, PayloadTyped DEF ToGcj02
  <1>5. /\ ToGcj02(g).frame \in {"misstated", "GCJ02"} /\ ToGcj02(g).carrier = Lonlat
        /\ ToGcj02(g).label /\ ToGcj02(g).holds = "Vector"
    BY <1>2 DEF ToGcj02, Payload
  <1> QED
    BY <1>4, <1>5 DEF Coherent, Placed

LEMMA RelabelLonlat ==
    ASSUME NEW g, Coherent(g), g.carrier = Lonlat
    PROVE  Relabelled(g, Lonlat) = g
  BY PayloadsAre DEF Relabelled, Coherent

LEMMA CoercedCoherent ==
    ASSUME NEW g, Coherent(g), NEW crs \in Crs,
           g.label \/ (Geographic(crs) => g.carrier = Lonlat)
    PROVE  Coherent(Coerced(g, crs))
  <1> DEFINE plain == IF g.label THEN EnsureWgs84(g) ELSE g
  <1>1. Coherent(plain) /\ ~plain.label /\ (Geographic(crs) => plain.carrier = Lonlat)
    BY EnsureCoherent DEF InLonlat
  <1>2. CASE crs = "GCJ02"
    <2>0. Coerced(g, crs) = IF g.label THEN Relabelled(g, Lonlat) ELSE ToGcj02(EnsureWgs84(g))
      BY <1>2 DEF Coerced, Geographic, Lonlat
    <2>1. CASE g.label
      BY <2>0, <2>1, RelabelLonlat DEF Coherent
    <2>2. CASE ~g.label
      BY <2>0, <2>2, EnsureCoherent, ShiftCoherent
    <2> QED
      BY <2>1, <2>2
  <1>3. CASE Geographic(crs)
    <2>1. Coerced(g, crs) = Relabelled(plain, Lonlat)
      BY <1>3 DEF Coerced, Geographic, Lonlat
    <2> QED
      BY <1>1, <1>3, <2>1, RelabelLonlat
  <1>4. CASE crs # "GCJ02" /\ ~Geographic(crs)
    <2>1. crs = "EPSG:3857" /\ Coerced(g, crs) = ToCrs(plain, crs)
      BY <1>4 DEF Coerced, Geographic, Lonlat, Crs
    <2> QED
      BY <1>1, <2>1, ToCrsCoherent
  <1> QED
    BY <1>2, <1>3, <1>4

(* Layers brought to WGS84 are together; not all in one frame, one of them *)
(* is misstated.                                                           *)
LEMMA LevelCoherent ==
    ASSUME NEW layers, 1 \in DOMAIN layers, \A i \in DOMAIN layers : Coherent(layers[i])
    PROVE  InLonlat(Level(layers))
  <1> DEFINE wgs == [i \in DOMAIN layers |-> EnsureWgs84(layers[i])]
  <1>1. \A i \in DOMAIN wgs : InLonlat(wgs[i])
    BY EnsureCoherent
  <1>2. 1 \in DOMAIN wgs
    OBVIOUS
  <1>3. Level(layers) = IF \A i \in DOMAIN wgs : wgs[i].frame = wgs[1].frame THEN wgs[1]
                        ELSE [wgs[1] EXCEPT !.frame = IF \E h \in ToSet(wgs) : h.frame = "misstated"
                                      THEN "misstated" ELSE "astray"]
    BY DEF Level
  <1> HIDE DEF wgs
  <1>4. CASE \A i \in DOMAIN wgs : wgs[i].frame = wgs[1].frame
    BY <1>1, <1>2, <1>3, <1>4
  <1>5. CASE ~ \A i \in DOMAIN wgs : wgs[i].frame = wgs[1].frame
    <2>1. \A i \in DOMAIN wgs : wgs[i].frame \in {"misstated", Lonlat}
      BY <1>1 DEF InLonlat, Coherent, Placed
    <2>2. \E i \in DOMAIN wgs : wgs[i].frame = "misstated"
      BY <1>2, <1>5, <2>1
    <2>3. \E h \in ToSet(wgs) : h.frame = "misstated"
      BY <2>2 DEF ToSet
    <2>4. Level(layers) = [wgs[1] EXCEPT !.frame = "misstated"]
      BY <1>3, <1>5, <2>3
    <2> QED
      BY <1>1, <1>2, <2>4, PayloadsAre DEF InLonlat, Coherent, Placed
  <1> QED
    BY <1>4, <1>5

LEMMA ReshapedCoherent ==
    ASSUME NEW layers, 1 \in DOMAIN layers, \A i \in DOMAIN layers : Coherent(layers[i]),
           NEW crs \in Crs
    PROVE  Coherent(Coerced(ToGcj02(Level(layers)), crs))
  BY LevelCoherent, ShiftCoherent, CoercedCoherent

(* What the metadata promise of a payload.                                 *)
LEMMA FrameIsSound ==
    ASSUME NEW out, NEW g \in Payloads, out.crs \in Crs, out.type = "Vector", g.holds = "Vector",
           g.frame \in {"misstated", Physical(out.crs)}
    PROVE  Sound(Artifact(out, g))
  <1>1. /\ Artifact(out, g).type = "Vector" /\ Artifact(out, g).crs = out.crs
        /\ Artifact(out, g).declared = "none" /\ Artifact(out, g).data = g
    BY DEF Artifact
  <1>2. out.crs # "none" /\ Physical(out.crs) # "none"
    BY PhysicalIs DEF Crs, Lonlat
  <1> QED
    BY <1>1, <1>2 DEF Sound, EffectiveCrs, Named

LEMMA LayerIsSound ==
    ASSUME NEW out, NEW g, Coherent(g), out.type = "Vector",
           ExecutorAccepts(out, g), StoreAccepts(out, g)
    PROVE  Sound(Artifact(out, g))
  <1>1. out.crs \in Crs
    BY DEF StoreAccepts, Named
  <1>2. CASE out.crs = "GCJ02"
    <2>1. g.label /\ Physical(out.crs) = "GCJ02"
      BY <1>2, PhysicalIs DEF ExecutorAccepts
    <2> QED
      BY <1>1, <2>1, FrameIsSound DEF Coherent, Placed
  <1>3. CASE out.crs # "GCJ02"
    <2>1. ~g.label /\ g.carrier \in {"none", Physical(out.crs)}
      BY <1>1, <1>3 DEF ExecutorAccepts, Named
    <2> QED
      BY <1>1, <2>1, FrameIsSound DEF Coherent, Placed, Lonlat
  <1> QED
    BY <1>2, <1>3

LEMMA GridIsSound ==
    ASSUME NEW out, NEW g \in Payloads, g.holds = "Raster", g.frame \in {"misstated", g.carrier},
           out.type = "Raster", StoreAccepts(out, g)
    PROVE  Sound(Artifact(out, g))
  <1>1. out.crs \in Crs /\ out.crs # "GCJ02" /\ g.carrier = Physical(out.crs)
    BY DEF StoreAccepts, Named
  <1>2. /\ Artifact(out, g).type = "Raster" /\ Artifact(out, g).crs = out.crs
        /\ Artifact(out, g).declared = "none" /\ Artifact(out, g).data = g
    BY DEF Artifact
  <1>3. out.crs # "none" /\ Physical(out.crs) # "none"
    BY <1>1, PhysicalIs DEF Crs, Lonlat
  <1> QED
    BY <1>1, <1>2, <1>3 DEF Sound, EffectiveCrs, Named

(* Whatever is no layer and no raster: numbers of the CRS, or no numbers.  *)
LEMMA PlaceIsSound ==
    ASSUME NEW out, NEW g \in Payloads, out.crs \in Crs \cup {"none"},
           out.type \notin {"Vector", "Raster"},
           g.holds \in {"Vector", "Raster"} /\ out.crs # "none" => g.frame # "none",
           g.frame \in {"none", "misstated", Physical(out.crs)} \/ out.type = "POISet"
    PROVE  Sound(Artifact(out, g))
  <1>1. /\ Artifact(out, g).type = out.type /\ Artifact(out, g).crs = out.crs
        /\ Artifact(out, g).declared = "none" /\ Artifact(out, g).data = g
    BY DEF Artifact
  <1>2. EffectiveCrs(Artifact(out, g)) = out.crs
    BY <1>1 DEF EffectiveCrs
  <1> QED
    BY <1>1, <1>2 DEF Sound

LEMMA PlaceTyped ==
    ASSUME NEW f \in {"none", "misstated", "astray", Lonlat, "EPSG:3857", "GCJ02"}
    PROVE  Place(f) \in Payloads /\ Place(f).frame = f /\ Place(f).holds = "Place"
  BY PayloadsAre DEF Place, Payload

LEMMA UnplacedTyped ==
    ASSUME NEW kind \in {"Table", "bytes"}
    PROVE  Unplaced(kind) \in Payloads /\ Unplaced(kind).frame = "none" /\ Unplaced(kind).holds = kind
  BY PlaceTyped, PayloadsAre DEF Unplaced

-----------------------------------------------------------------------------
(* Handlers.  What a task is given, and what the compiler froze of its     *)
(* result.                                                                 *)
Fed(op, given) ==
    LET ins == Contract(op).ins
    IN  /\ \A p \in DOMAIN ins : ins[p].required => p \in DOMAIN given
        /\ \A p \in DOMAIN given :
            /\ p \in DOMAIN ins /\ given[p] \in Seq(ToSet(given[p]))
            /\ ~ins[p].many \/ ins[p].min = 1 => 1 \in DOMAIN given[p]
            /\ \A i \in DOMAIN given[p] : Sound(given[p][i]) /\ given[p][i].type \in ins[p].types

Follows(op, given, params, crs) ==
    crs = IF op = "file.export" /\ params.format = "geojson" THEN "EPSG:4326"
          ELSE EffectiveCrs(given[Source(op)][1])

Frozen(op, given, params, out) ==
    LET rules == Contract(op).params
    IN  /\ out.type \in Contract(op).out.types
        /\ op \in {"io.csv_to_points", "raster.vectorize"} => out.crs = params.crs
        /\ op \notin {"io.csv_to_points", "raster.vectorize"} => out.crs \in Crs \cup {"none"}
        /\ "target_crs" \in DOMAIN rules => params.target_crs \in Crs /\ out.crs = params.target_crs
        /\ "source_crs" \in DOMAIN rules => params.source_crs \in Crs
        /\ op = "geo.geocode" => out.crs = "GCJ02"
        /\ op \in Following => Follows(op, given, params, out.crs)

Accepted(out, results) ==
    \A i \in DOMAIN results : ExecutorAccepts(out, results[i]) /\ StoreAccepts(out, results[i])
AllSound(out, results) == \A i \in DOMAIN results : Sound(Artifact(out, results[i]))

LEMMA OnlySound ==
    ASSUME NEW out, NEW h, NEW g, Accepted(out, If(h, Only(g))),
           h /\ ExecutorAccepts(out, g) /\ StoreAccepts(out, g) => Sound(Artifact(out, g))
    PROVE  AllSound(out, If(h, Only(g)))
  <1>1. DOMAIN Only(g) = {1} /\ Only(g)[1] = g /\ DOMAIN Refused = {}
    BY DEF Only, Refused
  <1>2. CASE h
    BY <1>1, <1>2 DEF Accepted, AllSound, If
  <1>3. CASE ~h
    BY <1>1, <1>3 DEF AllSound, If
  <1> QED
    BY <1>2, <1>3

LEMMA OneSound ==
    ASSUME NEW out, NEW g, Accepted(out, Only(g)),
           (ExecutorAccepts(out, g) /\ StoreAccepts(out, g) => Sound(Artifact(out, g)))
    PROVE  AllSound(out, Only(g))
  BY OnlySound DEF If

LEMMA TakesOne ==
    ASSUME NEW op, NEW given, Fed(op, given), NEW p, NEW type, Takes(Contract(op), p, type)
    PROVE  Sound(given[p][1]) /\ given[p][1].type = type
  BY DEF Fed, Takes, Offers

LEMMA AllVectorsSound ==
    ASSUME NEW op, NEW given, Fed(op, given), NEW p, NEW type, TakesMany(Contract(op), p, type)
    PROVE  /\ given[p] \in Seq(ToSet(given[p]))
           /\ \A i \in DOMAIN given[p] : Sound(given[p][i]) /\ given[p][i].type = type
  BY DEF Fed, TakesMany, Offers

(* A conversion takes what the plan told it for its source.                *)
LEMMA ToldFrame ==
    ASSUME NEW g \in Payloads, NEW source \in Crs
    PROVE  /\ Told(g, source) \in Payloads
           /\ Told(g, source).frame \in {"misstated", Physical(source)}
           /\ Told(g, source).holds = g.holds
           /\ Told(g, source).label = g.label /\ Told(g, source).carrier = g.carrier
  BY PayloadsAre DEF Told

LEMMA PhysicalIn ==
    ASSUME NEW c \in Crs
    PROVE  /\ Physical(c) \in {Lonlat, "EPSG:3857", "GCJ02"}
           /\ Physical(c) = Lonlat <=> Geographic(c)
           /\ Physical(c) = "GCJ02" <=> c = "GCJ02"
  BY PhysicalIs DEF Crs, Geographic, Lonlat

LEMMA MovedFrom ==
    ASSUME NEW from \in {Lonlat, "EPSG:3857", "GCJ02"}, NEW to \in {Lonlat, "EPSG:3857", "GCJ02"},
           NEW frame \in {"misstated", from}
    PROVE  Moved(frame, from, to) \in {"misstated", to}
  BY DEF Moved, Lonlat

LEMMA DatumSound ==
    ASSUME NEW a, Sound(a), a.type = "Vector", NEW source \in Crs, NEW target \in Crs,
           NEW out, out.type = "Vector", out.crs = target,
           Accepted(out, DatumConverted(a, source, target))
    PROVE  AllSound(out, DatumConverted(a, source, target))
  <1> DEFINE g == Told(Gdf(a), source)
             lonlat == Relabelled(g, Lonlat)
             Fine(x) == /\ x \in Payloads /\ x.holds = "Vector"
                        /\ x.frame \in {"misstated", Physical(target)}
  <1>1. Gdf(a) \in Payloads /\ Gdf(a).holds = "Vector"
    BY GdfCoherent DEF Coherent
  <1>2. /\ g \in Payloads /\ g.holds = "Vector"
        /\ g.frame \in {"misstated", Physical(source)}
    BY <1>1, ToldFrame
  <1>3. DatumConverted(a, source, target) =
            If(~Splits(source, target),
               IF Physical(source) = Physical(target) THEN Only(g)
               ELSE CASE target = "GCJ02" -> Only(ToGcj02(lonlat))
                      [] source = "GCJ02" -> Only(EnsureWgs84([lonlat EXCEPT !.label = TRUE]))
                      [] OTHER -> Only(ToCrs(Relabelled(g, Physical(source)), Physical(target))))
    BY DEF DatumConverted
  <1>4. ASSUME NEW x, Fine(x)
        PROVE  Sound(Artifact(out, x))
    BY <1>4, FrameIsSound
  <1> HIDE DEF g
  <1>5. Relabelled(g, Lonlat) \in Payloads /\ Relabelled(g, Physical(source)) \in Payloads
    BY <1>2, PayloadsAre, PhysicalIn DEF Relabelled
  <1>6. \A c : /\ Relabelled(g, c).frame = g.frame /\ Relabelled(g, c).holds = "Vector"
               /\ g \in Payloads => Relabelled(g, c).carrier = c
    BY <1>2, PayloadsAre DEF Relabelled
  <1>7. CASE Splits(source, target)
    BY <1>3, <1>7 DEF AllSound, If, Refused
  <1>8. CASE ~Splits(source, target) /\ Physical(source) = Physical(target)
    <2>1. DatumConverted(a, source, target) = Only(g)
      BY <1>3, <1>8 DEF If
    <2> QED
      BY <1>2, <1>4, <1>8, <2>1, OneSound
  <1>9. CASE ~Splits(source, target) /\ Physical(source) # Physical(target) /\ target = "GCJ02"
    <2>1. DatumConverted(a, source, target) = Only(ToGcj02(lonlat))
      BY <1>3, <1>9, PhysicalIn DEF If
    <2>2. Physical(source) = Lonlat /\ Physical(target) = "GCJ02"
      BY <1>9, PhysicalIn DEF Splits, Geographic, Lonlat
    <2>3. lonlat \in Payloads /\ lonlat.carrier = Lonlat /\ lonlat.frame \in {"misstated", Lonlat}
      BY <1>2, <1>5, <1>6, <2>2
    <2>4. ToCrs(lonlat, Lonlat).frame \in {"misstated", Lonlat}
      BY <2>3, PayloadsAre DEF ToCrs, Moved
    <2>5. Moved(ToCrs(lonlat, Lonlat).frame, Lonlat, "GCJ02") \in {"misstated", "GCJ02"}
      BY <2>4, MovedFrom
    <2>6. Fine(ToGcj02(lonlat))
      <3>1. ToGcj02(lonlat) \in Payloads
        BY <2>5, PayloadTyped DEF ToGcj02
      <3>2. ToGcj02(lonlat).holds = "Vector" /\ ToGcj02(lonlat).frame \in {"misstated", "GCJ02"}
        BY <2>5 DEF ToGcj02, Payload
      <3> QED
        BY <2>2, <3>1, <3>2
    <2> QED
      BY <1>4, <2>1, <2>6, OneSound
  <1>10. CASE ~Splits(source, target) /\ Physical(source) # Physical(target) /\ source = "GCJ02"
    <2> DEFINE told == [lonlat EXCEPT !.label = TRUE]
    <2>1. DatumConverted(a, source, target) = Only(EnsureWgs84(told))
      BY <1>3, <1>10, PhysicalIn DEF If
    <2>2. Physical(source) = "GCJ02" /\ Physical(target) = Lonlat
      BY <1>10, PhysicalIn DEF Splits, Geographic, Lonlat
    <2>3. told.label /\ told.frame \in {"misstated", "GCJ02"}
      BY <1>2, <1>5, <1>6, <2>2, PayloadsAre
    <2>4. EnsureWgs84(told) = Unshifted(told)
      BY <2>3 DEF EnsureWgs84
    <2> HIDE DEF told
    <2>5. InLonlat(Unshifted(told))
      BY <2>3, UnshiftedCoherent
    <2>6. Fine(Unshifted(told))
      BY <2>2, <2>5 DEF InLonlat, Coherent, Placed
    <2> QED
      BY <1>4, <2>1, <2>4, <2>6, OneSound
  <1>11. CASE /\ ~Splits(source, target) /\ Physical(source) # Physical(target)
              /\ target # "GCJ02" /\ source # "GCJ02"
    <2> DEFINE x == Relabelled(g, Physical(source))
    <2>1. DatumConverted(a, source, target) = Only(ToCrs(x, Physical(target)))
      BY <1>3, <1>11 DEF If
    <2>2. x \in Payloads /\ x.carrier = Physical(source) /\ x.frame \in {"misstated", Physical(source)}
          /\ x.holds = "Vector"
      BY <1>2, <1>5, <1>6
    <2> HIDE DEF x
    <2>3. Moved(x.frame, x.carrier, Physical(target)) \in {"misstated", Physical(target)}
      BY <2>2, PhysicalIn, MovedFrom
    <2>4. Fine(ToCrs(x, Physical(target)))
      BY <2>2, <2>3, PhysicalIn, PayloadsAre DEF ToCrs
    <2> QED
      BY <1>4, <2>1, <2>4, OneSound
  <1> QED
    BY <1>7, <1>8, <1>9, <1>10, <1>11

LEMMA PairSound ==
    ASSUME NEW pair \in Payloads, NEW source \in Crs, NEW target \in Crs,
           NEW out, out.type \notin {"Vector", "Raster"}, out.crs = target,
           Accepted(out, PairConverted(pair, source, target))
    PROVE  AllSound(out, PairConverted(pair, source, target))
  <1> DEFINE f == Moved(Told(pair, source).frame, Physical(source), Physical(target))
  <1>1. Physical(source) \in {Lonlat, "EPSG:3857", "GCJ02"}
        /\ Physical(target) \in {Lonlat, "EPSG:3857", "GCJ02"}
    BY PhysicalIn
  <1>2. f \in {"misstated", Physical(target)}
    BY <1>1, ToldFrame, MovedFrom
  <1>3. PairConverted(pair, source, target) = If(~Splits(source, target), Only(Place(f)))
    BY DEF PairConverted
  <1> HIDE DEF f
  <1>4. Place(f) \in Payloads /\ Place(f).frame = f /\ Place(f).holds = "Place"
    BY <1>1, <1>2, PlaceTyped
  <1>5. Sound(Artifact(out, Place(f)))
    BY <1>2, <1>4, PlaceIsSound
  <1> QED
    BY <1>3, <1>5, OnlySound

(* Layers of a result that are joined from single results.                 *)
LEMMA EachSound ==
    ASSUME NEW out, NEW given, given \in Seq(ToSet(given)), NEW results, DOMAIN results = DOMAIN given,
           \A i \in DOMAIN given : \A g : results[i] = <<g>> =>
                (ExecutorAccepts(out, g) /\ StoreAccepts(out, g) => Sound(Artifact(out, g))),
           \A i \in DOMAIN given : results[i] = Refused \/ \E g : results[i] = <<g>>,
           results = [i \in DOMAIN given |-> results[i]],
           Accepted(out, Each(results))
    PROVE  AllSound(out, Each(results))
  <1> DEFINE B == UNION {ToSet(results[i]) : i \in DOMAIN given}
  <1>1. DOMAIN given = 1 .. Len(given) /\ Len(given) \in Nat
    OBVIOUS
  <1>2. results \in Seq(UNION {{results[i]} : i \in DOMAIN given}) /\ Len(results) = Len(given)
    BY <1>1
  <1>3. CASE Refused \in ToSet(results)
    BY <1>3 DEF Each, If, AllSound, Refused
  <1>4. CASE results = <<>> /\ Refused \notin ToSet(results)
    <2>1. Each(results) = <<>>
      BY <1>4 DEF Each, If, FlattenSeq
    <2> QED
      BY <2>1 DEF AllSound
  <1>5. CASE results # <<>> /\ Refused \notin ToSet(results)
    <2>1. \A i \in DOMAIN given : \E g : results[i] = <<g>>
      BY <1>5 DEF ToSet
    <2>2. \A i \in DOMAIN given : results[i] \in Seq(B) /\ results[i] # <<>>
      <3> TAKE i \in DOMAIN given
      <3>1. PICK g : results[i] = <<g>>
        BY <2>1
      <3>2. g \in ToSet(results[i])
        BY <3>1 DEF ToSet
      <3>3. g \in B
        BY <3>2
      <3> HIDE DEF B
      <3>4. <<g>> \in Seq(B) /\ <<g>> # <<>>
        BY <3>3
      <3> QED
        BY <3>1, <3>4
    <2>3. results \in Seq(Seq(B))
      BY <1>1, <2>2
    <2> HIDE DEF B
    <2>4. FlattenSeq(results) \in Seq(B)
      BY <1>5, <2>2, <2>3, FlattenTyped
    <2>5. Each(results) = FlattenSeq(results)
      BY <1>5 DEF Each, If
    <2>6. ASSUME NEW j \in DOMAIN Each(results)
          PROVE  Sound(Artifact(out, Each(results)[j]))
      <3>1. Each(results)[j] \in B
        BY <2>4, <2>5
      <3>2. PICK i \in DOMAIN given : Each(results)[j] \in ToSet(results[i])
        BY <3>1 DEF B
      <3>3. PICK g : results[i] = <<g>>
        BY <2>1
      <3>4. Each(results)[j] = g
        BY <3>2, <3>3 DEF ToSet
      <3> QED
        BY <3>3, <3>4 DEF Accepted
    <2> QED
      BY <2>6 DEF AllSound
  <1> QED
    BY <1>3, <1>4, <1>5

LEMMA ReprojectedSound ==
    ASSUME NEW a, Sound(a), a.type = "Vector", NEW target \in Crs, NEW out, out.type = "Vector"
    PROVE  /\ Reprojected(a, target) = Refused \/ \E g : Reprojected(a, target) = <<g>>
           /\ \A g : Reprojected(a, target) = <<g>> =>
                (ExecutorAccepts(out, g) /\ StoreAccepts(out, g) => Sound(Artifact(out, g)))
  <1> DEFINE x == ToCrs(EnsureWgs84(Gdf(a)), target)
  <1>1. CASE target \in {"GCJ02", "WGS84"}
    BY <1>1 DEF Reprojected, If, Refused
  <1>2. CASE target \notin {"GCJ02", "WGS84"}
    <2>1. target \in {Lonlat, "EPSG:3857"}
      BY <1>2 DEF Crs, Lonlat
    <2>2. Coherent(x) /\ ~x.label /\ x.carrier = target
      BY <2>1, GdfCoherent, EnsureCoherent, ToCrsCoherent DEF InLonlat
    <2>3. Reprojected(a, target) = <<Coerced(x, target)>>
      BY <1>2 DEF Reprojected, If, Only
    <2> HIDE DEF x
    <2>4. Geographic(target) => x.carrier = Lonlat
      BY <2>1, <2>2 DEF Geographic, Lonlat
    <2>5. Coherent(Coerced(x, target))
      BY <2>2, <2>4, CoercedCoherent
    <2> QED
      BY <2>3, <2>5, LayerIsSound
  <1> QED
    BY <1>1, <1>2

LEMMA ResampledSound ==
    ASSUME NEW a, Sound(a), a.type = "Raster", NEW target \in Crs, NEW out, out.type = "Raster"
    PROVE  /\ RasterReprojected(a, target) = Refused \/ \E g : RasterReprojected(a, target) = <<g>>
           /\ \A g : RasterReprojected(a, target) = <<g>> =>
                (ExecutorAccepts(out, g) /\ StoreAccepts(out, g) => Sound(Artifact(out, g)))
  <1> DEFINE x == ToCrs(a.data, Physical(target))
  <1>1. CASE target = "GCJ02"
    BY <1>1 DEF RasterReprojected, If, Refused
  <1>2. CASE target # "GCJ02"
    <2>1. RasterReprojected(a, target) = <<x>>
      BY <1>2 DEF RasterReprojected, If, Only
    <2>2. /\ a.crs \in Crs /\ a.data \in Payloads /\ a.data.holds = "Raster"
          /\ a.data.carrier = Physical(a.crs) /\ a.data.frame \in {"misstated", Physical(a.crs)}
      BY DEF Sound, EffectiveCrs, Named, Crs
    <2>3. Moved(a.data.frame, a.data.carrier, Physical(target)) \in {"misstated", Physical(target)}
      BY <2>2, PhysicalIn, MovedFrom
    <2>4. x \in Payloads /\ x.holds = "Raster" /\ x.frame \in {"misstated", x.carrier}
      BY <2>2, <2>3, PhysicalIn, PayloadsAre DEF ToCrs
    <2> HIDE DEF x
    <2> QED
      BY <2>1, <2>4, GridIsSound
  <1> QED
    BY <1>1, <1>2

LEMMA MergedSound ==
    ASSUME NEW arts, arts \in Seq(ToSet(arts)), 1 \in DOMAIN arts,
           \A i \in DOMAIN arts : Sound(arts[i]) /\ arts[i].type = "Vector",
           NEW out, out.type = "Vector", Accepted(out, Merged(arts))
    PROVE  AllSound(out, Merged(arts))
  <1> DEFINE layers == [i \in DOMAIN arts |-> Gdf(arts[i])]
             crs == VectorCrs(arts[1])
             x == Coerced(ToGcj02(Level(layers)), crs)
  <1>1. Merged(arts) = If(\A g \in ToSet(layers) : g.carrier = layers[1].carrier, Only(x))
    BY DEF Merged, Reshaped
  <1>2. 1 \in DOMAIN layers /\ \A i \in DOMAIN layers : Coherent(layers[i])
    BY GdfCoherent
  <1>3. crs \in Crs
    BY GdfCoherent
  <1> HIDE DEF layers, crs
  <1>4. Coherent(x)
    BY <1>2, <1>3, ReshapedCoherent
  <1> HIDE DEF x
  <1> QED
    BY <1>1, <1>4, OnlySound, LayerIsSound

LEMMA PointsSound ==
    ASSUME NEW crs, NEW out, out.type = "Vector", out.crs = crs, Accepted(out, PointsRead(crs))
    PROVE  AllSound(out, PointsRead(crs))
  <1> DEFINE told == IF crs = "odd" THEN Lonlat ELSE Physical(crs)
             g == Plain(Payload(told, told, FALSE))
  <1>1. PointsRead(crs) = If(told # "GCJ02", Only(g))
    BY DEF PointsRead
  <1>2. ASSUME ExecutorAccepts(out, g), StoreAccepts(out, g)
        PROVE  Sound(Artifact(out, g))
    <2>1. crs \in Crs
      BY <1>2 DEF StoreAccepts, Named
    <2>2. told = Physical(crs) /\ told \in {Lonlat, "EPSG:3857", "GCJ02"}
      BY <2>1, PhysicalIn DEF Crs
    <2>3. Payload(told, told, FALSE) \in Payloads
      BY <2>2, PayloadTyped
    <2>4. g \in Payloads /\ g.frame = told /\ g.holds = "Vector"
      BY <2>2, <2>3, PayloadsAre DEF Plain, Payload
    <2> HIDE DEF told, g
    <2> QED
      BY <2>1, <2>2, <2>4, FrameIsSound
  <1> HIDE DEF told, g
  <1> QED
    BY <1>1, <1>2, OnlySound

LEMMA RasterisedSound ==
    ASSUME NEW a, Sound(a), a.type = "Vector", NEW crs, NEW out, out.type = "Raster", out.crs = crs,
           Accepted(out, Rasterised(a, crs))
    PROVE  AllSound(out, Rasterised(a, crs))
  <1> DEFINE x == ToCrs(EnsureWgs84(Gdf(a)), Physical(crs))
             g == [x EXCEPT !.holds = "Raster"]
  <1>1. Rasterised(a, crs) = If(crs \notin {"GCJ02", "odd"}, Only(g))
    BY DEF Rasterised
  <1>2. ASSUME ExecutorAccepts(out, g), StoreAccepts(out, g)
        PROVE  Sound(Artifact(out, g))
    <2>1. crs \in Crs /\ crs # "GCJ02"
      BY <1>2 DEF StoreAccepts, Named
    <2>2. Physical(crs) \in {Lonlat, "EPSG:3857"}
      BY <2>1, PhysicalIn
    <2>3. Coherent(x) /\ ~x.label
      BY <2>2, GdfCoherent, EnsureCoherent, ToCrsCoherent DEF InLonlat
    <2> HIDE DEF x
    <2>4. g \in Payloads /\ g.frame \in {"misstated", g.carrier} /\ g.holds = "Raster"
      BY <2>3, PayloadsAre DEF Coherent, Placed
    <2> HIDE DEF g
    <2> QED
      BY <1>2, <2>4, GridIsSound
  <1> HIDE DEF g
  <1> QED
    BY <1>1, <1>2, OnlySound

LEMMA OutlinedSound ==
    ASSUME NEW a, Sound(a), a.type = "Raster", NEW out, out.type = "Vector", out.crs = EffectiveCrs(a)
    PROVE  /\ Outlined(a) = <<[Plain(a.data) EXCEPT !.holds = "Vector"]>>
           /\ Sound(Artifact(out, [Plain(a.data) EXCEPT !.holds = "Vector"]))
  <1> DEFINE g == [Plain(a.data) EXCEPT !.holds = "Vector"]
  <1>1. /\ a.crs \in Crs /\ a.data \in Payloads /\ a.data.holds = "Raster" /\ out.crs = a.crs
        /\ a.data.frame \in {"misstated", Physical(a.crs)}
    BY DEF Sound, EffectiveCrs, Named, Crs
  <1>2. g \in Payloads /\ g.holds = "Vector" /\ g.frame = a.data.frame
    BY <1>1, PayloadsAre DEF Plain
  <1>3. Outlined(a) = <<g>>
    BY DEF Outlined, Only
  <1> HIDE DEF g
  <1>4. Sound(Artifact(out, g))
    BY <1>1, <1>2, FrameIsSound
  <1> QED
    BY <1>3, <1>4 DEF g

LEMMA FileFrame ==
    ASSUME NEW a, Sound(a), a.type # "POISet", EffectiveCrs(a) \in Crs,
           a.data.holds \in {"Vector", "Raster"}
    PROVE  a.data \in Payloads /\ a.data.frame \in {"misstated", Physical(EffectiveCrs(a))}
  <1>1. EffectiveCrs(a) # "none"
    BY DEF Crs
  <1> QED
    BY <1>1 DEF Sound

LEMMA LoadedSound ==
    ASSUME NEW a, Sound(a), a.type = "File", NEW out, out.type = "Vector", out.crs = EffectiveCrs(a),
           Accepted(out, VectorRead(a))
    PROVE  AllSound(out, VectorRead(a))
  <1> DEFINE plain == Plain(a.data)
             labelled == Payload(a.data.frame, Lonlat, TRUE)
             named == Payload(a.data.frame, Physical(EffectiveCrs(a)), FALSE)
             ok == EffectiveCrs(a) # "none" /\ DeclarationHolds(a)
             Goal(g) == (ExecutorAccepts(out, g) /\ StoreAccepts(out, g) => Sound(Artifact(out, g)))
  <1>1. ASSUME NEW g, g \in Payloads, g.frame = a.data.frame, g.holds = "Vector",
               a.data.holds = "Vector", StoreAccepts(out, g)
        PROVE  Sound(Artifact(out, g))
    <2>1. out.crs \in Crs
      BY <1>1 DEF StoreAccepts, Named
    <2>2. a.data.frame \in {"misstated", Physical(out.crs)}
      BY <1>1, <2>1, FileFrame
    <2> QED
      BY <1>1, <2>1, <2>2, FrameIsSound
  <1>2. a.data \in Payloads
    BY DEF Sound
  <1>3. ASSUME a.data.holds = "Vector"
        PROVE  Goal(plain)
    <2>1. plain \in Payloads /\ plain.frame = a.data.frame /\ plain.holds = "Vector"
      BY <1>2, <1>3, PayloadsAre DEF Plain
    <2> QED
      BY <1>1, <1>3, <2>1
  <1>4. ASSUME NEW g, g = labelled \/ g = named, a.data.holds = "Vector"
        PROVE  Goal(g)
    <2>1. SUFFICES ASSUME StoreAccepts(out, g)
                   PROVE  Sound(Artifact(out, g))
      OBVIOUS
    <2>2. EffectiveCrs(a) \in Crs
      BY <2>1 DEF StoreAccepts, Named
    <2>3. /\ a.data.frame \in {"misstated", Lonlat, "EPSG:3857", "GCJ02"}
          /\ Physical(EffectiveCrs(a)) \in {Lonlat, "EPSG:3857", "GCJ02"}
      BY <1>4, <2>2, FileFrame, PhysicalIn
    <2>4. Lonlat \in {"none", Lonlat, "EPSG:3857", "GCJ02"}
      OBVIOUS
    <2>5. g \in Payloads
      BY <1>4, <2>3, <2>4, PayloadTyped
    <2>6. g.frame = a.data.frame /\ g.holds = "Vector"
      BY <1>4 DEF Payload
    <2> QED
      BY <1>1, <1>4, <2>1, <2>5, <2>6
  <1>5. VectorRead(a) =
            IF ~a.inspected THEN If(a.data.holds = "Vector", Only(plain))
            ELSE If(a.data.holds = "Vector" /\ EffectiveCrs(a) # "none" /\ DeclarationHolds(a),
                    IF EffectiveCrs(a) = "GCJ02" THEN Only(labelled) ELSE Only(named))
    BY DEF VectorRead
  <1> HIDE DEF plain, labelled, named
  <1>6. CASE ~a.inspected
    <2>1. VectorRead(a) = If(a.data.holds = "Vector", Only(plain))
      BY <1>5, <1>6
    <2>2. a.data.holds = "Vector" => Goal(plain)
      BY <1>3
    <2> HIDE DEF Goal
    <2>3. Accepted(out, If(a.data.holds = "Vector", Only(plain)))
      BY <2>1
    <2>4. AllSound(out, If(a.data.holds = "Vector", Only(plain)))
      BY <2>2, <2>3, OnlySound DEF Goal
    <2> QED
      BY <2>1, <2>4
  <1>7. CASE a.inspected
    <2> DEFINE h == a.data.holds = "Vector" /\ EffectiveCrs(a) # "none" /\ DeclarationHolds(a)
               g == IF EffectiveCrs(a) = "GCJ02" THEN labelled ELSE named
    <2>1. VectorRead(a) = If(h, Only(g))
      BY <1>5, <1>7
    <2>2. h => Goal(g)
      BY <1>4
    <2> HIDE DEF h, g
    <2> QED
      BY <2>1, <2>2, OnlySound
  <1> QED
    BY <1>6, <1>7

LEMMA LoadedRasterSound ==
    ASSUME NEW a, Sound(a), a.type = "File", NEW out, out.type = "Raster", out.crs = EffectiveCrs(a),
           Accepted(out, RasterRead(a))
    PROVE  AllSound(out, RasterRead(a))
  <1> DEFINE h == a.data.holds = "Raster" /\
                  (a.inspected => EffectiveCrs(a) \notin {"none", "GCJ02"} /\ DeclarationHolds(a))
             g == IF ~a.inspected THEN a.data ELSE [a.data EXCEPT !.carrier = Physical(EffectiveCrs(a))]
  <1>1. RasterRead(a) = If(h, Only(g))
    BY DEF RasterRead, If, Refused
  <1>2. ASSUME h, StoreAccepts(out, g)
        PROVE  Sound(Artifact(out, g))
    <2>1. out.crs \in Crs /\ g.carrier = Physical(out.crs)
      BY <1>2 DEF StoreAccepts, Named
    <2>2. a.data \in Payloads /\ a.data.frame \in {"misstated", Physical(out.crs)}
      BY <1>2, <2>1, FileFrame
    <2>3. Physical(out.crs) \in {Lonlat, "EPSG:3857", "GCJ02"}
      BY <2>1, PhysicalIn
    <2>4. g \in Payloads /\ g.frame = a.data.frame /\ g.holds = "Raster"
      BY <1>2, <2>2, <2>3, PayloadsAre
    <2> HIDE DEF g
    <2> QED
      BY <1>2, <2>1, <2>2, <2>4, GridIsSound
  <1> HIDE DEF h, g
  <1> QED
    BY <1>1, <1>2, OnlySound

LEMMA ExportedSound ==
    ASSUME NEW a, Sound(a), a.type = "Vector", NEW format, NEW out, out.type = "File",
           out.crs = IF format = "geojson" THEN "EPSG:4326" ELSE EffectiveCrs(a),
           Accepted(out, Exported(a, format))
    PROVE  AllSound(out, Exported(a, format))
  <1> DEFINE p == Payload(a.data.frame, Physical(a.crs), FALSE)
             g == IF format = "geojson" THEN ToCrs(p, Lonlat) ELSE p
             h == /\ Named(a.crs) /\ a.crs # "GCJ02" /\ ~a.data.label
                  /\ a.data.carrier \in {"none", Physical(a.crs)}
  <1>1. Exported(a, format) = If(h, Only(g))
    BY DEF Exported
  <1>2. ASSUME h
        PROVE  Sound(Artifact(out, g))
    <2>1. /\ a.crs \in Crs /\ a.crs # "GCJ02" /\ EffectiveCrs(a) = a.crs /\ a.data \in Payloads
          /\ a.data.frame \in {"misstated", Physical(a.crs)}
      BY <1>2 DEF Named, EffectiveCrs, Sound, Crs
    <2>2. Physical(a.crs) \in {Lonlat, "EPSG:3857", "GCJ02"}
      BY <2>1, PhysicalIn
    <2>3. p \in Payloads
      BY <2>1, <2>2, PayloadTyped
    <2>4. p.frame = a.data.frame /\ p.carrier = Physical(a.crs) /\ p.holds = "Vector"
      BY DEF Payload
    <2> HIDE DEF p
    <2>5. g \in Payloads /\ g.frame \in {"misstated", Physical(out.crs)} /\ out.crs \in Crs
      <3>1. CASE format = "geojson"
        <4>1. Moved(p.frame, p.carrier, Lonlat) \in {"misstated", Lonlat}
          BY <2>1, <2>2, <2>4, MovedFrom
        <4>2. out.crs = Lonlat /\ Physical(out.crs) = Lonlat /\ out.crs \in Crs
          BY <3>1, PhysicalIs DEF Crs, Lonlat
        <4> QED
          BY <2>3, <3>1, <4>1, <4>2, PayloadsAre DEF ToCrs
      <3>2. CASE format # "geojson"
        BY <2>1, <2>3, <2>4, <3>2
      <3> QED
        BY <3>1, <3>2
    <2>6. g.frame # "none"
      BY <2>5, PhysicalIn DEF Lonlat
    <2> HIDE DEF g
    <2> QED
      BY <2>5, <2>6, PlaceIsSound
  <1> HIDE DEF h, g
  <1> QED
    BY <1>1, <1>2, OnlySound

(* A copy under the CRS it had.                                            *)
LEMMA CopySound ==
    ASSUME NEW a, Sound(a), a.type # "POISet", NEW out, out.type \notin {"Vector", "Raster"},
           out.crs = EffectiveCrs(a), out.crs \in Crs \cup {"none"}
    PROVE  Sound(Artifact(out, a.data))
  BY PlaceIsSound DEF Sound

LEMMA UnplacedSound ==
    ASSUME NEW out, out.type \notin {"Vector", "Raster"}, out.crs \in Crs \cup {"none"},
           NEW kind \in {"Table", "bytes"}
    PROVE  Sound(Artifact(out, Unplaced(kind)))
  BY UnplacedTyped, PlaceIsSound

LEMMA GridCopySound ==
    ASSUME NEW a, Sound(a), a.type = "Raster", NEW out, out.type = "Raster",
           StoreAccepts(out, a.data)
    PROVE  Sound(Artifact(out, a.data))
  <1>1. /\ a.data \in Payloads /\ a.data.holds = "Raster"
        /\ a.data.frame \in {"misstated", a.data.carrier}
    BY DEF Sound, EffectiveCrs, Named, Crs
  <1> QED
    BY <1>1, GridIsSound

LEMMA LayersAre ==
    ASSUME NEW op
    PROVE  /\ 1 \in DOMAIN LayersOf(op)
           /\ op = "vector.count_points" => 2 \in DOMAIN LayersOf(op)
           /\ op \in {"vector.join_location", "vector.join_nearest", "vector.count_points"} =>
                    op \notin KeepsNumbers
  <1>1. CASE op = "vector.count_points"
    BY <1>1 DEF LayersOf, KeepsNumbers, AttributeTools, SelectionTools
  <1>2. CASE op # "vector.count_points"
    BY <1>2 DEF LayersOf, KeepsNumbers, AttributeTools, SelectionTools
  <1> QED
    BY <1>1, <1>2

LEMMA AnalysedSound ==
    ASSUME NEW op, NEW given, NEW out, out.type = "Vector",
           \A p \in Range(LayersOf(op)) : Sound(given[p][1]) /\ given[p][1].type = "Vector",
           NEW layers, layers = [i \in DOMAIN LayersOf(op) |-> Gdf(given[LayersOf(op)[i]][1])],
           NEW crs, crs = VectorCrs(given[LayersOf(op)[1]][1]),
           Accepted(out, Analysed(op, layers, crs))
    PROVE  AllSound(out, Analysed(op, layers, crs))
  <1>1. \A i \in DOMAIN LayersOf(op) :
            /\ Sound(given[LayersOf(op)[i]][1]) /\ given[LayersOf(op)[i]][1].type = "Vector"
    BY DEF Range
  <1>2. 1 \in DOMAIN layers /\ \A i \in DOMAIN layers : Coherent(layers[i])
    BY <1>1, LayersAre, GdfCoherent
  <1>3. crs \in Crs
    BY <1>1, LayersAre, GdfCoherent
  <1>4. CASE op \in KeepsNumbers
    <2> DEFINE x == Coerced(layers[1], crs)
    <2>1. layers[1].label \/ (Geographic(crs) => layers[1].carrier = Lonlat)
      <3>1. layers[1] = Gdf(given[LayersOf(op)[1]][1])
        BY LayersAre
      <3>2. crs # "GCJ02" => layers[1].carrier = Physical(crs)
        BY <1>1, <3>1, LayersAre, GdfCoherent
      <3>3. crs = "GCJ02" => ~Geographic(crs)
        BY DEF Geographic, Lonlat
      <3> QED
        BY <1>3, <3>2, <3>3, PhysicalIn
    <2>2. Coherent(x)
      BY <1>2, <1>3, <2>1, CoercedCoherent
    <2>3. Analysed(op, layers, crs) =
            If(\A g \in ToSet(layers) : g.carrier = layers[1].carrier /\ g.label = layers[1].label, Only(x))
      BY <1>4 DEF Analysed, Selected
    <2> HIDE DEF x
    <2> QED
      BY <2>2, <2>3, OnlySound, LayerIsSound
  <1>5. CASE op \notin KeepsNumbers
    <2> DEFINE shapes == Shapes(op, layers)
               x == Coerced(ToGcj02(Level(shapes)), crs)
    <2>1. 1 \in DOMAIN shapes /\ \A i \in DOMAIN shapes : Coherent(shapes[i])
      <3>1. CASE op \in {"vector.join_location", "vector.join_nearest"}
        <4>1. shapes = <<layers[1]>>
          BY <3>1 DEF Shapes
        <4> QED
          BY <1>2, <4>1
      <3>2. CASE op = "vector.count_points"
        <4>1. shapes = <<layers[2]>> /\ 2 \in DOMAIN layers
          BY <3>2, LayersAre DEF Shapes
        <4> QED
          BY <1>2, <4>1
      <3>3. CASE op \notin {"vector.join_location", "vector.join_nearest", "vector.count_points"}
        <4>1. shapes = layers
          BY <3>3 DEF Shapes
        <4> QED
          BY <1>2, <4>1
      <3> QED
        BY <3>1, <3>2, <3>3
    <2>2. Analysed(op, layers, crs) = Only(x)
      BY <1>5 DEF Analysed, Reshaped
    <2> HIDE DEF shapes
    <2>3. Coherent(x)
      BY <1>3, <2>1, ReshapedCoherent
    <2> HIDE DEF x
    <2> QED
      BY <2>2, <2>3, OneSound, LayerIsSound
  <1> QED
    BY <1>4, <1>5

LEMMA MovesSound ==
    ASSUME NEW op \in Operations, NEW given, NEW params, NEW out,
           Fed(op, given), Frozen(op, given, params, out), Accepted(out, Handle(op, given, params)),
           op \in {"vector.merge", "vector.reproject", "vector.reproject_many", "vector.convert_datum",
                   "coordinate.convert", "geo.transform", "raster.reproject", "raster.reproject_many"}
    PROVE  AllSound(out, Handle(op, given, params))
  <1> DEFINE tool == Contract(op)
             results == Handle(op, given, params)
  <1>0. Suits(op, tool)
    BY ContractSuits
  <1>a. "target_crs" \in DOMAIN tool.params => params.target_crs \in Crs /\ out.crs = params.target_crs
    BY DEF Frozen
  <1>b. "source_crs" \in DOMAIN tool.params => params.source_crs \in Crs
    BY DEF Frozen
  <1>c. out.type \in tool.out.types
    BY DEF Frozen
  <1>1. CASE op = "vector.merge"
    <2>1. results = Merged(given["input"])
      BY <1>1 DEF Handle
    <2>2. TakesMany(tool, "input", "Vector") /\ Returns(tool, "Vector") /\ tool.ins["input"].min = 1
      BY <1>0, <1>1 DEF Suits, SuitsOthers
    <2>3. out.type = "Vector"
      BY <1>c, <2>2 DEF Returns
    <2>4. 1 \in DOMAIN given["input"]
      BY <2>2 DEF Fed, TakesMany, Offers
    <2>5. /\ given["input"] \in Seq(ToSet(given["input"]))
          /\ \A i \in DOMAIN given["input"] : Sound(given["input"][i]) /\ given["input"][i].type = "Vector"
      BY <2>2, AllVectorsSound
    <2> QED
      BY <2>1, <2>3, <2>4, <2>5, MergedSound
  <1>2. CASE op = "vector.reproject"
    <2>1. results = Reprojected(given["vector"][1], params.target_crs)
      BY <1>2 DEF Handle
    <2>2. Takes(tool, "vector", "Vector") /\ Returns(tool, "Vector") /\ Asks(tool, "target_crs")
      BY <1>0, <1>2 DEF Suits, SuitsMoves
    <2>3. out.type = "Vector" /\ params.target_crs \in Crs
      BY <1>a, <1>c, <2>2 DEF Returns, Asks
    <2>4. Sound(given["vector"][1]) /\ given["vector"][1].type = "Vector"
      BY <2>2, TakesOne
    <2>5. /\ results = Refused \/ \E g : results = <<g>>
          /\ \A g : results = <<g>> =>
                (ExecutorAccepts(out, g) /\ StoreAccepts(out, g) => Sound(Artifact(out, g)))
      BY <2>1, <2>3, <2>4, ReprojectedSound
    <2> HIDE DEF results
    <2>6. CASE results = Refused
      BY <2>6 DEF AllSound, Refused, results
    <2>7. CASE \E g : results = <<g>>
      <3>1. PICK g : results = <<g>>
        BY <2>7
      <3>2. Accepted(out, results)
        BY DEF results
      <3>3. AllSound(out, results)
        BY <2>5, <3>1, <3>2 DEF AllSound, Accepted
      <3> QED
        BY <3>3 DEF results
    <2> QED
      BY <2>5, <2>6, <2>7
  <1>3. CASE op = "vector.reproject_many"
    <2> DEFINE arts == given["vector"]
               each == [i \in DOMAIN arts |-> Reprojected(arts[i], params.target_crs)]
    <2>1. results = Each(each)
      BY <1>3 DEF Handle
    <2>2. TakesMany(tool, "vector", "Vector") /\ Returns(tool, "Vector") /\ Asks(tool, "target_crs")
      BY <1>0, <1>3 DEF Suits, SuitsMoves
    <2>3. out.type = "Vector" /\ params.target_crs \in Crs
      BY <1>a, <1>c, <2>2 DEF Returns, Asks
    <2>4. /\ arts \in Seq(ToSet(arts))
          /\ \A i \in DOMAIN arts : Sound(arts[i]) /\ arts[i].type = "Vector"
      BY <2>2, AllVectorsSound
    <2>5. \A i \in DOMAIN arts :
            /\ each[i] = Refused \/ \E g : each[i] = <<g>>
            /\ \A g : each[i] = <<g>> =>
                (ExecutorAccepts(out, g) /\ StoreAccepts(out, g) => Sound(Artifact(out, g)))
      BY <2>3, <2>4, ReprojectedSound
    <2>6. DOMAIN each = DOMAIN arts /\ each = [i \in DOMAIN arts |-> each[i]]
      OBVIOUS
    <2>7. Accepted(out, Each(each))
      BY <2>1
    <2> HIDE DEF arts, each, results
    <2>8. AllSound(out, Each(each))
      BY <2>4, <2>5, <2>6, <2>7, EachSound
    <2> QED
      BY <2>1, <2>8 DEF results
  <1>4. CASE op = "vector.convert_datum"
    <2>1. results = DatumConverted(given["vector"][1], params.source_crs, params.target_crs)
      BY <1>4 DEF Handle
    <2>2. /\ Takes(tool, "vector", "Vector") /\ Returns(tool, "Vector") /\ Asks(tool, "target_crs")
          /\ Asks(tool, "source_crs")
      BY <1>0, <1>4 DEF Suits, SuitsMoves
    <2>3. /\ out.type = "Vector" /\ params.target_crs \in Crs /\ params.source_crs \in Crs
          /\ out.crs = params.target_crs
      BY <1>a, <1>b, <1>c, <2>2 DEF Returns, Asks
    <2>4. Sound(given["vector"][1]) /\ given["vector"][1].type = "Vector"
      BY <2>2, TakesOne
    <2> QED
      BY <2>1, <2>3, <2>4, DatumSound
  <1>5. CASE op \in {"coordinate.convert", "geo.transform"}
    <2>1. Returns(tool, "Coordinate") /\ Asks(tool, "target_crs") /\ Asks(tool, "source_crs")
      BY <1>0, <1>5 DEF Suits, SuitsMoves
    <2>2. /\ out.type \notin {"Vector", "Raster"} /\ params.target_crs \in Crs /\ params.source_crs \in Crs
          /\ out.crs = params.target_crs
      BY <1>a, <1>b, <1>c, <2>1 DEF Returns, Asks
    <2>3. CASE op = "coordinate.convert"
      <3> DEFINE a == given["coordinates"][1]
      <3>1. results = If(a.type = "Coordinate", PairConverted(a.data, params.source_crs, params.target_crs))
        BY <2>3 DEF Handle
      <3>2. "coordinates" \in DOMAIN tool.ins /\ tool.ins["coordinates"].required
            /\ ~tool.ins["coordinates"].many
        BY <1>0, <2>3 DEF Suits, SuitsMoves
      <3>3. Sound(a)
        BY <3>2 DEF Fed
      <3>4. a.data \in Payloads
        BY <3>3 DEF Sound
      <3>5. CASE a.type = "Coordinate"
        BY <2>2, <3>1, <3>4, <3>5, PairSound DEF If
      <3>6. CASE a.type # "Coordinate"
        BY <3>1, <3>6 DEF If, AllSound, Refused
      <3> QED
        BY <3>5, <3>6
    <2>4. CASE op = "geo.transform"
      <3> DEFINE pair == Place(Physical(params.source_crs))
      <3>1. results = PairConverted(pair, params.source_crs, params.target_crs)
        BY <2>4 DEF Handle
      <3>2. Physical(params.source_crs) \in {Lonlat, "EPSG:3857", "GCJ02"}
        BY <2>2, PhysicalIn
      <3>3. pair \in Payloads
        BY <3>2, PlaceTyped
      <3> QED
        BY <2>2, <3>1, <3>3, PairSound
    <2> QED
      BY <1>5, <2>3, <2>4
  <1>6. CASE op = "raster.reproject"
    <2>1. results = RasterReprojected(given["raster"][1], params.target_crs)
      BY <1>6 DEF Handle
    <2>2. Takes(tool, "raster", "Raster") /\ Returns(tool, "Raster") /\ Asks(tool, "target_crs")
      BY <1>0, <1>6 DEF Suits, SuitsMoves
    <2>3. out.type = "Raster" /\ params.target_crs \in Crs
      BY <1>a, <1>c, <2>2 DEF Returns, Asks
    <2>4. Sound(given["raster"][1]) /\ given["raster"][1].type = "Raster"
      BY <2>2, TakesOne
    <2>5. /\ results = Refused \/ \E g : results = <<g>>
          /\ \A g : results = <<g>> =>
                (ExecutorAccepts(out, g) /\ StoreAccepts(out, g) => Sound(Artifact(out, g)))
      BY <2>1, <2>3, <2>4, ResampledSound
    <2> HIDE DEF results
    <2>6. CASE results = Refused
      BY <2>6 DEF AllSound, Refused, results
    <2>7. CASE \E g : results = <<g>>
      <3>1. PICK g : results = <<g>>
        BY <2>7
      <3>2. Accepted(out, results)
        BY DEF results
      <3>3. AllSound(out, results)
        BY <2>5, <3>1, <3>2 DEF AllSound, Accepted
      <3> QED
        BY <3>3 DEF results
    <2> QED
      BY <2>5, <2>6, <2>7
  <1>7. CASE op = "raster.reproject_many"
    <2> DEFINE arts == given["raster"]
               each == [i \in DOMAIN arts |-> RasterReprojected(arts[i], params.target_crs)]
    <2>1. results = Each(each)
      BY <1>7 DEF Handle
    <2>2. TakesMany(tool, "raster", "Raster") /\ Returns(tool, "Raster") /\ Asks(tool, "target_crs")
      BY <1>0, <1>7 DEF Suits, SuitsMoves
    <2>3. out.type = "Raster" /\ params.target_crs \in Crs
      BY <1>a, <1>c, <2>2 DEF Returns, Asks
    <2>4. /\ arts \in Seq(ToSet(arts))
          /\ \A i \in DOMAIN arts : Sound(arts[i]) /\ arts[i].type = "Raster"
      BY <2>2, AllVectorsSound
    <2>5. \A i \in DOMAIN arts :
            /\ each[i] = Refused \/ \E g : each[i] = <<g>>
            /\ \A g : each[i] = <<g>> =>
                (ExecutorAccepts(out, g) /\ StoreAccepts(out, g) => Sound(Artifact(out, g)))
      BY <2>3, <2>4, ResampledSound
    <2>6. DOMAIN each = DOMAIN arts /\ each = [i \in DOMAIN arts |-> each[i]]
      OBVIOUS
    <2>7. Accepted(out, Each(each))
      BY <2>1
    <2> HIDE DEF arts, each, results
    <2>8. AllSound(out, Each(each))
      BY <2>4, <2>5, <2>6, <2>7, EachSound
    <2> QED
      BY <2>1, <2>8 DEF results
  <1> QED
    BY <1>1, <1>2, <1>3, <1>4, <1>5, <1>6, <1>7

LEMMA FollowingSound ==
    ASSUME NEW op \in Operations, NEW given, NEW params, NEW out,
           Fed(op, given), Frozen(op, given, params, out), Accepted(out, Handle(op, given, params)),
           op \in Following
    PROVE  AllSound(out, Handle(op, given, params))
  <1> DEFINE tool == Contract(op)
             results == Handle(op, given, params)
             a == given[Source(op)][1]
  <1>0. Suits(op, tool)
    BY ContractSuits
  <1>1. Sound(a) /\ a.type = Read(op)
    <2>1. Takes(tool, Source(op), Read(op))
      BY <1>0 DEF Suits, SuitsSource
    <2> QED
      BY <2>1, TakesOne
  <1>2. out.type \in tool.out.types
    BY DEF Frozen
  <1>3. Follows(op, given, params, out.crs)
    BY DEF Frozen
  <1>4. op # "file.export" => out.crs = EffectiveCrs(a)
    BY <1>3 DEF Follows
  <1>5. op \notin {"io.csv_to_points", "raster.vectorize"}
    BY DEF Following
  <1>6. out.crs \in Crs \cup {"none"}
    BY <1>5 DEF Frozen
  <1>7. CASE op = "io.load_vector"
    <2>1. a = given["file"][1] /\ a.type = "File"
      BY <1>1, <1>7 DEF Source, Read
    <2>2. results = VectorRead(a)
      BY <1>7, <2>1 DEF Handle
    <2>3. out.type = "Vector"
      BY <1>0, <1>2, <1>7 DEF Suits, SuitsResult, Returns
    <2> HIDE DEF a
    <2> QED
      BY <1>1, <1>4, <1>7, <2>1, <2>2, <2>3, LoadedSound
  <1>8. CASE op = "io.load_raster"
    <2>1. a = given["file"][1] /\ a.type = "File"
      BY <1>1, <1>8 DEF Source, Read
    <2>2. results = RasterRead(a)
      BY <1>8, <2>1 DEF Handle
    <2>3. out.type = "Raster"
      BY <1>0, <1>2, <1>8 DEF Suits, SuitsResult, Returns
    <2> HIDE DEF a
    <2> QED
      BY <1>1, <1>4, <1>8, <2>1, <2>2, <2>3, LoadedRasterSound
  <1>9. CASE op = "io.read_upload"
    <2>1. a = given["file"][1] /\ a.type = "File"
      BY <1>1, <1>9 DEF Source, Read
    <2>2. results = Only(a.data)
      BY <1>9, <2>1 DEF Handle
    <2>3. out.type = "File"
      BY <1>0, <1>2, <1>9 DEF Suits, SuitsResult, Returns
    <2> HIDE DEF a
    <2>4. Sound(Artifact(out, a.data))
      BY <1>1, <1>4, <1>6, <1>9, <2>1, <2>3, CopySound
    <2> QED
      BY <2>2, <2>4, OneSound
  <1>10. CASE op = "map.build"
    <2>1. a = given["vector"][1] /\ a.type = "Vector"
      BY <1>1, <1>10 DEF Source, Read
    <2>2. results = Only(a.data)
      BY <1>10, <2>1 DEF Handle
    <2>3. out.type = "MapLayer"
      BY <1>0, <1>2, <1>10 DEF Suits, SuitsResult, Returns
    <2> HIDE DEF a
    <2>4. Sound(Artifact(out, a.data))
      BY <1>1, <1>4, <1>6, <1>10, <2>1, <2>3, CopySound
    <2> QED
      BY <2>2, <2>4, OneSound
  <1>11. CASE op = "file.export"
    <2>1. a = given["input"][1] /\ a.type = "Vector"
      BY <1>1, <1>11 DEF Source, Read
    <2>2. results = Exported(a, params.format)
      BY <1>11, <2>1 DEF Handle
    <2>3. out.type = "File"
      BY <1>0, <1>2, <1>11 DEF Suits, SuitsResult, Returns
    <2>4. out.crs = IF params.format = "geojson" THEN "EPSG:4326" ELSE EffectiveCrs(a)
      BY <1>3, <1>11 DEF Follows
    <2> HIDE DEF a
    <2> QED
      BY <1>1, <2>1, <2>2, <2>3, <2>4, ExportedSound
  <1>12. CASE op = "vector.isochrone"
    <2>1. a = given["origin"][1]
      BY <1>12 DEF Source
    <2> DEFINE g == Payload("GCJ02", "none", FALSE)
               h == a.crs = "GCJ02"
    <2>2. results = If(h, Only(g))
      BY <1>12, <2>1 DEF Handle
    <2>3. out.type = "Vector"
      BY <1>0, <1>2, <1>12 DEF Suits, SuitsResult, Returns
    <2>4. h => out.crs = "GCJ02"
      BY <1>4, <1>12 DEF EffectiveCrs
    <2>5. ~g.label
      BY DEF Payload
    <2>6. ~(h /\ ExecutorAccepts(out, g))
      BY <2>3, <2>4, <2>5 DEF ExecutorAccepts
    <2> HIDE DEF h, g
    <2> QED
      BY <2>2, <2>6, OnlySound
  <1>13. CASE op \in {"raster.contour", "raster.polygonize"}
    <2>1. a = given["raster"][1] /\ a.type = "Raster"
      BY <1>1, <1>13 DEF Source, Read
    <2>2. out.type = "Vector"
      BY <1>0, <1>2, <1>13 DEF Suits, SuitsResult, Returns
    <2>3. out.crs = EffectiveCrs(a)
      BY <1>4, <1>13
    <2> DEFINE g == [Plain(a.data) EXCEPT !.holds = "Vector"]
               h == op = "raster.contour" =>
                        ("interval" \in DOMAIN params => params.interval \in {"positive", "fraction"})
    <2>4. results = If(h, Outlined(a))
      <3>1. CASE op = "raster.contour"
        BY <2>1, <3>1 DEF Handle, If
      <3>2. CASE op = "raster.polygonize"
        BY <2>1, <3>2 DEF Handle, If
      <3> QED
        BY <1>13, <3>1, <3>2
    <2> HIDE DEF a
    <2>5. Outlined(a) = <<g>> /\ Sound(Artifact(out, g))
      BY <1>1, <2>1, <2>2, <2>3, OutlinedSound
    <2> HIDE DEF g, h
    <2>6. results = If(h, Only(g))
      BY <2>4, <2>5 DEF Only
    <2> QED
      BY <2>5, <2>6, OnlySound
  <1> QED
    BY <1>7, <1>8, <1>9, <1>10, <1>11, <1>12, <1>13 DEF Following

LEMMA OthersSound ==
    ASSUME NEW op \in Operations, NEW given, NEW params, NEW out,
           Fed(op, given), Frozen(op, given, params, out), Accepted(out, Handle(op, given, params)),
           op \in {"geo.geocode", "poi.search", "io.load_csv", "io.csv_to_points", "raster.vectorize",
                   "code.execute"}
    PROVE  AllSound(out, Handle(op, given, params))
  <1> DEFINE tool == Contract(op)
             results == Handle(op, given, params)
  <1>0. Suits(op, tool)
    BY ContractSuits
  <1>1. out.type \in tool.out.types
    BY DEF Frozen
  <1>2. op \notin {"io.csv_to_points", "raster.vectorize"} => out.crs \in Crs \cup {"none"}
    BY DEF Frozen
  <1>3. op \in {"io.csv_to_points", "raster.vectorize"} => out.crs = params.crs
    BY DEF Frozen
  <1>4. CASE op \in {"geo.geocode", "poi.search"}
    <2> DEFINE g == Place("GCJ02")
    <2>1. results = Only(g)
      BY <1>4 DEF Handle
    <2>2. g \in Payloads /\ g.frame = "GCJ02" /\ g.holds = "Place"
      BY PlaceTyped
    <2>3. out.type \notin {"Vector", "Raster"}
      BY <1>0, <1>1, <1>4 DEF Suits, SuitsResult, SuitsMoves, Returns
    <2>4. "GCJ02" = Physical(out.crs) \/ out.type = "POISet"
      <3>1. CASE op = "geo.geocode"
        BY <3>1, PhysicalIs DEF Frozen
      <3>2. CASE op = "poi.search"
        BY <1>0, <1>1, <3>2 DEF Suits, SuitsResult, Returns
      <3> QED
        BY <1>4, <3>1, <3>2
    <2> HIDE DEF g
    <2>5. Sound(Artifact(out, g))
      BY <1>2, <1>4, <2>2, <2>3, <2>4, PlaceIsSound
    <2> QED
      BY <2>1, <2>5, OneSound
  <1>5. CASE op = "io.load_csv"
    <2> DEFINE h == given["file"][1].data.holds = "Table"
               g == Unplaced("Table")
    <2>1. results = If(h, Only(g))
      BY <1>5 DEF Handle
    <2>2. out.type = "Table"
      BY <1>0, <1>1, <1>5 DEF Suits, SuitsResult, Returns
    <2>3. Sound(Artifact(out, g))
      BY <1>2, <1>5, <2>2, UnplacedSound
    <2> HIDE DEF g, h
    <2> QED
      BY <2>1, <2>3, OnlySound
  <1>6. CASE op = "io.csv_to_points"
    <2>1. results = PointsRead(params.crs)
      BY <1>6 DEF Handle
    <2>2. out.type = "Vector"
      BY <1>0, <1>1, <1>6 DEF Suits, SuitsResult, Returns
    <2> QED
      BY <1>3, <1>6, <2>1, <2>2, PointsSound
  <1>7. CASE op = "raster.vectorize"
    <2>1. results = Rasterised(given["vector"][1], params.crs)
      BY <1>7 DEF Handle
    <2>2. Takes(tool, "vector", "Vector") /\ out.type = "Raster"
      BY <1>0, <1>1, <1>7 DEF Suits, SuitsOthers, Returns
    <2>3. Sound(given["vector"][1]) /\ given["vector"][1].type = "Vector"
      BY <2>2, TakesOne
    <2> QED
      BY <1>3, <1>7, <2>1, <2>2, <2>3, RasterisedSound
  <1>8. CASE op = "code.execute"
    <2>1. results = Only(Unplaced("bytes"))
      BY <1>8 DEF Handle
    <2>2. out.type = "File"
      BY <1>0, <1>1, <1>8 DEF Suits, SuitsResult, Returns
    <2>3. Sound(Artifact(out, Unplaced("bytes")))
      BY <1>2, <1>8, <2>2, UnplacedSound
    <2> QED
      BY <2>1, <2>3, OneSound
  <1> QED
    BY <1>4, <1>5, <1>6, <1>7, <1>8

LEMMA RestSound ==
    ASSUME NEW op \in Operations, NEW given, NEW params, NEW out,
           Fed(op, given), Frozen(op, given, params, out), Accepted(out, Handle(op, given, params)),
           op \notin Named1
    PROVE  AllSound(out, Handle(op, given, params))
  <1> DEFINE tool == Contract(op)
             results == Handle(op, given, params)
             layers == [i \in DOMAIN LayersOf(op) |-> Gdf(given[LayersOf(op)[i]][1])]
             crs == VectorCrs(given[LayersOf(op)[1]][1])
  <1>0. Suits(op, tool)
    BY ContractSuits
  <1>1. out.type \in tool.out.types /\ out.crs \in Crs \cup {"none"}
    BY DEF Frozen, Named1
  <1>2. results = IF tool.out.types = {"Table"} THEN Only(Unplaced("Table"))
                  ELSE IF tool.out.types = {"Raster"} THEN Only(given["raster"][1].data)
                  ELSE Analysed(op, layers, crs)
    BY DEF Handle, Named1, Following
  <1>3. CASE Returns(tool, "Table")
    <2>1. results = Only(Unplaced("Table")) /\ out.type = "Table"
      BY <1>1, <1>2, <1>3 DEF Returns
    <2>2. Sound(Artifact(out, Unplaced("Table")))
      BY <1>1, <2>1, UnplacedSound
    <2> QED
      BY <2>1, <2>2, OneSound
  <1>4. CASE Returns(tool, "Raster") /\ Takes(tool, "raster", "Raster")
    <2>1. results = Only(given["raster"][1].data) /\ out.type = "Raster"
      BY <1>1, <1>2, <1>4 DEF Returns
    <2>2. Sound(given["raster"][1]) /\ given["raster"][1].type = "Raster"
      BY <1>4, TakesOne
    <2> QED
      BY <2>1, <2>2, OneSound, GridCopySound
  <1>5. CASE Returns(tool, "Vector") /\ \A p \in Range(LayersOf(op)) : Takes(tool, p, "Vector")
    <2>1. out.type = "Vector" /\ tool.out.types # {"Table"} /\ tool.out.types # {"Raster"}
      BY <1>1, <1>5 DEF Returns
    <2>2. results = Analysed(op, layers, crs)
      BY <1>2, <2>1
    <2>3. \A p \in Range(LayersOf(op)) : Sound(given[p][1]) /\ given[p][1].type = "Vector"
      BY <1>5, TakesOne
    <2> QED
      BY <2>1, <2>2, <2>3, AnalysedSound
  <1> QED
    BY <1>0, <1>3, <1>4, <1>5 DEF Suits, SuitsRest

LEMMA HandledSound ==
    ASSUME NEW op \in Operations, op # "publish_file", NEW given, NEW params, NEW out,
           Fed(op, given), Frozen(op, given, params, out), Accepted(out, Handle(op, given, params))
    PROVE  AllSound(out, Handle(op, given, params))
  BY MovesSound, FollowingSound, OthersSound, RestSound DEF Named1

-----------------------------------------------------------------------------
(* Faults, and members of sets of numbers.                                 *)
LEMMA NoFault == \A f, g : (f ?? g) = "none" <=> f = "none" /\ g = "none"
  BY DEF ??

LEMMA MinIn ==
    ASSUME NEW T \in SUBSET Nat, T # {}
    PROVE  Min(T) \in T /\ \A m \in T : Min(T) <= m
  BY LeastNumber DEF Min

LEMMA MaxIn ==
    ASSUME NEW n \in Nat, NEW T \in SUBSET (1 .. n), T # {}
    PROVE  Max(T) \in T
  <1> DEFINE B == {k \in Nat : n - k \in T}
  <1>1. B # {}
    <2>1. PICK x \in T : TRUE
      OBVIOUS
    <2>2. n - x \in Nat /\ n - (n - x) = x
      OBVIOUS
    <2> QED
      BY <2>1, <2>2
  <1>2. PICK k \in B : \A m \in B : k <= m
    BY <1>1, LeastNumber
  <1>3. \A y \in T : n - k >= y
    <2> TAKE y \in T
    <2>1. n - y \in Nat /\ n - (n - y) = y
      OBVIOUS
    <2>2. n - y \in B
      BY <2>1
    <2>3. k <= n - y
      BY <1>2, <2>2
    <2> QED
      BY <2>1, <2>3
  <1> QED
    BY <1>2, <1>3 DEF Max

-----------------------------------------------------------------------------
(* The shape of the steps, from the draft to the compiler.                 *)
BindingFine(b) ==
    /\ b.refs \in Seq(ToSet(b.refs))
    /\ ~b.list => Len(b.refs) = 1
    /\ \A r \in ToSet(b.refs) : /\ r.kind \in {"artifact", "task"}
                                /\ r.kind = "artifact" => r.of \in DOMAIN Library

StepFine(s) ==
    /\ DOMAIN s = {"key", "op", "inputs", "params"}
    /\ s.key \in Nat
    /\ s.inputs \in Seq(ToSet(s.inputs))
    /\ \A i, j \in DOMAIN s.inputs : s.inputs[i].port = s.inputs[j].port => i = j
    /\ \A i \in DOMAIN s.inputs : "port" \in DOMAIN s.inputs[i] /\ BindingFine(s.inputs[i])

StepsFine(steps) ==
    /\ steps \in Seq(ToSet(steps))
    /\ \A i \in DOMAIN steps : StepFine(steps[i]) /\ CanonicalName(steps[i].op) = steps[i].op

LEMMA CanonicalNameIs == \A op : CanonicalName(CanonicalName(op)) = CanonicalName(op)
  BY DEF CanonicalName

LEMMA SequenceOf ==
    ASSUME NEW n \in Nat, NEW f, f = [i \in 1 .. n |-> f[i]]
    PROVE  f \in Seq(ToSet(f)) /\ Len(f) = n /\ DOMAIN f = 1 .. n
  BY DEF ToSet

LEMMA OwnRange ==
    ASSUME NEW S, NEW seq \in Seq(S)
    PROVE  seq \in Seq(ToSet(seq))
  <1>1. Len(seq) \in Nat /\ seq = [i \in 1 .. Len(seq) |-> seq[i]]
    OBVIOUS
  <1> QED
    BY <1>1, SequenceOf

LEMMA RawSteps ==
    ASSUME NEW raw \in Drafts
    PROVE  /\ raw.steps \in Seq(ToSet(raw.steps))
           /\ \A i \in DOMAIN raw.steps : 
                LET s == raw.steps[i]
                IN  /\ DOMAIN s = {"key", "op", "inputs", "params"}
                    /\ s.key \in Nat
                    /\ s.inputs \in Seq(ToSet(s.inputs))
                    /\ \A j, k \in DOMAIN s.inputs : s.inputs[j].port = s.inputs[k].port => j = k
                    /\ \A j \in DOMAIN s.inputs : 
                        LET b == s.inputs[j]
                        IN  /\ "port" \in DOMAIN b /\ b.refs \in Seq(ToSet(b.refs))
                            /\ ~b.list => Len(b.refs) = 1
                            /\ \A r \in ToSet(b.refs) : r.kind \in {"artifact", "task"}
  <1>1. WellFormed(raw)
    BY DraftsAssumption
  <1>2. raw.steps \in Seq(ToSet(raw.steps))
    BY <1>1 DEF WellFormed
  <1>3. ASSUME NEW i \in DOMAIN raw.steps
        PROVE  LET s == raw.steps[i]
               IN  /\ DOMAIN s = {"key", "op", "inputs", "params"}
                   /\ s.key \in Nat
                   /\ s.inputs \in Seq(ToSet(s.inputs))
                   /\ IsInjective([k \in DOMAIN s.inputs |-> s.inputs[k].port])
                   /\ \A b \in ToSet(s.inputs) :
                          /\ DOMAIN b = {"port", "list", "refs"} /\ b.refs \in Seq(ToSet(b.refs))
                          /\ ~b.list => Len(b.refs) = 1
                          /\ \A r \in ToSet(b.refs) : r.kind \in {"artifact", "task"}
    <2>1. raw.steps[i] \in ToSet(raw.steps)
      BY DEF ToSet
    <2> QED
      BY <1>1, <2>1 DEF WellFormed
  <1>4. ASSUME NEW i \in DOMAIN raw.steps, NEW j \in DOMAIN raw.steps[i].inputs
        PROVE  raw.steps[i].inputs[j] \in ToSet(raw.steps[i].inputs)
    BY DEF ToSet
  <1>5. ASSUME NEW i \in DOMAIN raw.steps
        PROVE  LET s == raw.steps[i]
               IN  /\ \A j, k \in DOMAIN s.inputs : s.inputs[j].port = s.inputs[k].port => j = k
                   /\ \A j \in DOMAIN s.inputs : 
                        LET b == s.inputs[j]
                        IN  /\ "port" \in DOMAIN b /\ b.refs \in Seq(ToSet(b.refs))
                            /\ ~b.list => Len(b.refs) = 1
                            /\ \A r \in ToSet(b.refs) : r.kind \in {"artifact", "task"}
    <2> DEFINE s == raw.steps[i]
    <2>1. \A j, k \in DOMAIN s.inputs : s.inputs[j].port = s.inputs[k].port => j = k
      BY <1>3 DEF IsInjective
    <2>2. ASSUME NEW j \in DOMAIN s.inputs
          PROVE  LET b == s.inputs[j]
                 IN  /\ "port" \in DOMAIN b /\ b.refs \in Seq(ToSet(b.refs))
                     /\ ~b.list => Len(b.refs) = 1
                     /\ \A r \in ToSet(b.refs) : r.kind \in {"artifact", "task"}
      <3>1. s.inputs[j] \in ToSet(s.inputs)
        BY <1>4
      <3> QED
        BY <1>3, <3>1
    <2> QED
      BY <2>1, <2>2
  <1> QED
    BY <1>2, <1>3, <1>5

LEMMA BoundedSteps ==
    ASSUME NEW raw \in Drafts, BoundaryFault(Bounded(raw), Described) = "none"
    PROVE  StepsFine(Bounded(raw).steps)
  <1> DEFINE d == Bounded(raw)
  <1>1. "steps" \in DOMAIN raw /\ "external" \in DOMAIN raw
    BY DraftsAssumption DEF WellFormed
  <1>2. CASE raw.asks = "question"
    <2>1. d.steps = <<>>
      BY <1>1, <1>2 DEF Bounded
    <2> QED
      BY <2>1 DEF StepsFine, ToSet
  <1>3. CASE raw.asks # "question"
    <2>1. d.steps = [i \in DOMAIN raw.steps |-> Normalised(raw.steps[i])]
      BY <1>1, <1>3 DEF Bounded
    <2>2. DOMAIN raw.steps = 1 .. Len(raw.steps) /\ Len(raw.steps) \in Nat
      BY RawSteps
    <2>3. d.steps \in Seq(ToSet(d.steps)) /\ DOMAIN d.steps = DOMAIN raw.steps
      BY <2>1, <2>2, SequenceOf
    <2>4. Cited(d) \subseteq DOMAIN Library
      BY NoFault DEF BoundaryFault, When, Described
    <2> HIDE DEF d
    <2>5. ASSUME NEW i \in DOMAIN d.steps
          PROVE  StepFine(d.steps[i]) /\ CanonicalName(d.steps[i].op) = d.steps[i].op
      <3> DEFINE s == d.steps[i]
                 t == raw.steps[i]
      <3>1. s = Normalised(t) /\ i \in DOMAIN raw.steps
        BY <2>1, <2>3
      <3>2. DOMAIN t = {"key", "op", "inputs", "params"}
        BY <3>1, RawSteps
      <3>3. /\ DOMAIN s = {"key", "op", "inputs", "params"} /\ s.key = t.key /\ s.inputs = t.inputs
            /\ s.op = CanonicalName(t.op)
        BY <3>1, <3>2 DEF Normalised
      <3>4. s \in ToSet(d.steps)
        BY DEF ToSet
      <3> HIDE DEF s
      <3>5. ASSUME NEW j \in DOMAIN s.inputs, NEW r \in ToSet(s.inputs[j].refs), r.kind = "artifact"
            PROVE  r.of \in DOMAIN Library
        <4>1. r \in Refs(s)
          BY DEF Refs
        <4>2. r.of \in Cited(d)
          BY <3>4, <3>5, <4>1 DEF Cited
        <4> QED
          BY <2>4, <4>2
      <3>6. /\ t.key \in Nat /\ t.inputs \in Seq(ToSet(t.inputs))
            /\ \A j, k \in DOMAIN t.inputs : t.inputs[j].port = t.inputs[k].port => j = k
            /\ \A j \in DOMAIN t.inputs : 
                        LET b == t.inputs[j]
                        IN  /\ "port" \in DOMAIN b /\ b.refs \in Seq(ToSet(b.refs))
                            /\ ~b.list => Len(b.refs) = 1
                            /\ \A r \in ToSet(b.refs) : r.kind \in {"artifact", "task"}
        BY <3>1, RawSteps
      <3>7. StepFine(s)
        BY <3>3, <3>5, <3>6 DEF StepFine, BindingFine
      <3> QED
        BY <3>3, <3>7, CanonicalNameIs DEF s
    <2> QED
      BY <2>3, <2>5 DEF StepsFine, d
  <1> QED
    BY <1>2, <1>3

(* One binding taken out, and put at the end under another name.           *)
MovedLast(seq, x, new, res) ==
    /\ res \in Seq(ToSet(res)) /\ Len(res) = Len(seq)
    /\ \A j \in DOMAIN res : res[j] = IF j = Len(seq) THEN new
                                      ELSE IF j < x THEN seq[j] ELSE seq[j + 1]

LEMMA RenamedLast ==
    ASSUME NEW seq, seq \in Seq(ToSet(seq)), NEW x \in DOMAIN seq, NEW new,
           NEW res, res = Append(RemoveAt(seq, x), new)
    PROVE  MovedLast(seq, x, new, res)
  <1> DEFINE S == ToSet(seq)
             rest == RemoveAt(seq, x)
             n == Len(seq)
  <1>1. seq \in Seq(S) /\ n \in Nat /\ x \in 1 .. n /\ DOMAIN seq = 1 .. n /\ Len(seq) = n
    OBVIOUS
  <1> HIDE DEF S, n
  <1>2. /\ SubSeq(seq, 1, x - 1) \in Seq(S) /\ Len(SubSeq(seq, 1, x - 1)) = x - 1
        /\ \A j \in 1 .. x - 1 : SubSeq(seq, 1, x - 1)[j] = seq[j]
    BY <1>1
  <1>3. /\ SubSeq(seq, x + 1, n) \in Seq(S) /\ Len(SubSeq(seq, x + 1, n)) = n - x
        /\ \A j \in 1 .. n - x : SubSeq(seq, x + 1, n)[j] = seq[j + x]
    BY <1>1
  <1> DEFINE front == SubSeq(seq, 1, x - 1)
             back == SubSeq(seq, x + 1, n)
  <1>a. rest = front \o back
    BY <1>1 DEF RemoveAt
  <1> HIDE DEF front, back, rest
  <1>b. /\ front \in Seq(S) /\ Len(front) = x - 1 /\ \A j \in 1 .. x - 1 : front[j] = seq[j]
        /\ back \in Seq(S) /\ Len(back) = n - x /\ \A j \in 1 .. n - x : back[j] = seq[j + x]
    BY <1>2, <1>3 DEF front, back
  <1>c. /\ rest \in Seq(S) /\ Len(rest) = Len(front) + Len(back)
        /\ \A j \in 1 .. Len(front) + Len(back) :
                rest[j] = IF j <= Len(front) THEN front[j] ELSE back[j - Len(front)]
    BY <1>a, <1>b, ConcatProperties
  <1>d. Len(front) + Len(back) = n - 1
    BY <1>1, <1>b
  <1>4. rest \in Seq(S) /\ Len(rest) = n - 1
    BY <1>c, <1>d
  <1>5. \A j \in 1 .. n - 1 : rest[j] = IF j < x THEN seq[j] ELSE seq[j + 1]
    <2> TAKE j \in 1 .. n - 1
    <2>0. rest[j] = IF j <= x - 1 THEN front[j] ELSE back[j - (x - 1)]
      BY <1>b, <1>c, <1>d
    <2>1. CASE j < x
      <3>1. j \in 1 .. x - 1 /\ j <= x - 1
        BY <1>1, <2>1
      <3> QED
        BY <1>b, <2>0, <2>1, <3>1
    <2>2. CASE ~(j < x)
      <3>1. j - (x - 1) \in 1 .. n - x /\ (j - (x - 1)) + x = j + 1 /\ ~(j <= x - 1)
        BY <1>1, <2>2
      <3>2. rest[j] = back[j - (x - 1)]
        BY <2>0, <3>1
      <3> QED
        BY <1>b, <2>2, <3>1, <3>2
    <2> QED
      BY <2>1, <2>2
  <1>6. res = Append(rest, new)
    BY DEF rest
  <1>e. rest \in Seq(S \cup {new})
    BY <1>4, SeqMonotonic
  <1>f. /\ res \in Seq(S \cup {new}) /\ Len(res) = Len(rest) + 1
        /\ \A j \in 1 .. Len(rest) : res[j] = rest[j]
        /\ res[Len(rest) + 1] = new
    BY <1>e, <1>6, AppendProperties
  <1>g. Len(rest) + 1 = n
    BY <1>1, <1>4
  <1>7. Len(res) = n /\ DOMAIN res = 1 .. n
    BY <1>f, <1>g
  <1>8. res \in Seq(ToSet(res))
    BY <1>f, OwnRange
  <1>9. \A j \in 1 .. n : res[j] = IF j = n THEN new ELSE rest[j]
    <2> TAKE j \in 1 .. n
    <2>1. j # n => j \in 1 .. Len(rest)
      BY <1>1, <1>4
    <2> QED
      BY <1>f, <1>g, <2>1
  <1>10. \A j \in 1 .. n : j # n => j \in 1 .. n - 1
    BY <1>1
  <1> QED
    BY <1>1, <1>5, <1>7, <1>8, <1>9, <1>10 DEF MovedLast

LEMMA CanonicalSteps ==
    ASSUME NEW steps, StepsFine(steps)
    PROVE  /\ StepsFine(Canonical(steps)) /\ DOMAIN Canonical(steps) = DOMAIN steps
           /\ \A i \in DOMAIN steps : Canonical(steps)[i].op = steps[i].op
  <1>1. DOMAIN steps = 1 .. Len(steps) /\ Len(steps) \in Nat
    BY DEF StepsFine
  <1>2. Canonical(steps) = [i \in 1 .. Len(steps) |-> [steps[i] EXCEPT !.inputs = CanonicalInputs(steps[i])]]
    BY <1>1 DEF Canonical
  <1>3. Canonical(steps) \in Seq(ToSet(Canonical(steps))) /\ DOMAIN Canonical(steps) = DOMAIN steps
    BY <1>1, <1>2, SequenceOf
  <1>4. ASSUME NEW i \in DOMAIN steps
        PROVE  /\ StepFine(Canonical(steps)[i]) /\ Canonical(steps)[i].op = steps[i].op
    <2> DEFINE t == steps[i]
               s == Canonical(steps)[i]
               at(port) == {j \in DOMAIN t.inputs : t.inputs[j].port = port}
               x == CHOOSE j \in at("layer") : TRUE
    <2>1. StepFine(t)
      BY DEF StepsFine
    <2>2. s = [t EXCEPT !.inputs = CanonicalInputs(t)]
      BY <1>1, <1>2
    <2>3. /\ DOMAIN s = {"key", "op", "inputs", "params"} /\ s.key = t.key /\ s.op = t.op
          /\ s.inputs = CanonicalInputs(t)
      BY <2>1, <2>2 DEF StepFine
    <2> HIDE DEF t, s
    <2>4. CASE t.op = "map.build" /\ at("layer") # {} /\ at("vector") = {}
      <3> DEFINE new == [t.inputs[x] EXCEPT !.port = "vector"]
                 n == Len(t.inputs)
      <3>1. s.inputs = Append(RemoveAt(t.inputs, x), new)
        BY <2>3, <2>4 DEF CanonicalInputs
      <3>2. x \in DOMAIN t.inputs /\ t.inputs[x].port = "layer"
        BY <2>4
      <3>3. /\ t.inputs \in Seq(ToSet(t.inputs)) /\ BindingFine(t.inputs[x])
            /\ "port" \in DOMAIN t.inputs[x]
        BY <2>1, <3>2 DEF StepFine
      <3>4. /\ "port" \in DOMAIN new /\ new.port = "vector" /\ new.refs = t.inputs[x].refs
            /\ new.list = t.inputs[x].list
        BY <3>3
      <3>5. BindingFine(new)
        BY <3>3, <3>4 DEF BindingFine
      <3> HIDE DEF new, x, n
      <3>6. /\ s.inputs \in Seq(ToSet(s.inputs)) /\ Len(s.inputs) = n
            /\ \A j \in DOMAIN s.inputs : s.inputs[j] = IF j = n THEN new
                                             ELSE IF j < x THEN t.inputs[j] ELSE t.inputs[j + 1]
        <4>1. MovedLast(t.inputs, x, new, s.inputs)
          BY <3>1, <3>2, <3>3, RenamedLast
        <4> QED
          BY <4>1 DEF MovedLast, n
      <3>7. /\ n \in Nat /\ DOMAIN s.inputs = 1 .. n /\ DOMAIN t.inputs = 1 .. n
        BY <3>3, <3>6 DEF n
      <3>8. \A j \in 1 .. n : j # n => (IF j < x THEN j ELSE j + 1) \in 1 .. n
        BY <3>7
      <3>9. \A j \in 1 .. n : j # n => s.inputs[j] = t.inputs[IF j < x THEN j ELSE j + 1]
        BY <3>6, <3>7
      <3>10. s.inputs[n] = new \/ n = 0
        BY <3>6, <3>7
      <3>11. ASSUME NEW j \in 1 .. n
             PROVE  "port" \in DOMAIN s.inputs[j] /\ BindingFine(s.inputs[j])
        <4>1. CASE j = n
          BY <3>4, <3>5, <3>10, <4>1
        <4>2. CASE j # n
          BY <2>1, <3>7, <3>8, <3>9, <4>2 DEF StepFine
        <4> QED
          BY <4>1, <4>2
      <3>12. \A j \in 1 .. n : t.inputs[j].port # "vector"
        BY <2>4, <3>7
      <3>13. \A j, k \in 1 .. n : t.inputs[j].port = t.inputs[k].port => j = k
        BY <2>1, <3>7 DEF StepFine
      <3>14. ASSUME NEW j \in 1 .. n, NEW k \in 1 .. n, s.inputs[j].port = s.inputs[k].port
             PROVE  j = k
        <4>1. CASE j = n \/ k = n
          BY <3>4, <3>8, <3>9, <3>10, <3>12, <3>14, <4>1
        <4>2. CASE j # n /\ k # n
          <5> DEFINE y == IF j < x THEN j ELSE j + 1
                     z == IF k < x THEN k ELSE k + 1
          <5>1. y \in 1 .. n /\ z \in 1 .. n /\ s.inputs[j] = t.inputs[y] /\ s.inputs[k] = t.inputs[z]
            BY <3>8, <3>9, <4>2
          <5> HIDE DEF y, z
          <5>2. y = z
            BY <3>13, <3>14, <5>1
          <5> QED
            BY <3>2, <3>7, <5>2 DEF y, z
        <4> QED
          BY <4>1, <4>2
      <3>15. StepFine(s)
        BY <2>1, <2>3, <3>6, <3>7, <3>11, <3>14 DEF StepFine
      <3> QED
        BY <2>3, <3>15 DEF s, t
    <2>5. CASE ~(t.op = "map.build" /\ at("layer") # {} /\ at("vector") = {})
      <3>1. s.inputs = t.inputs
        BY <2>3, <2>5 DEF CanonicalInputs
      <3>2. StepFine(s)
        BY <2>1, <2>3, <3>1 DEF StepFine
      <3> QED
        BY <2>3, <3>2 DEF s, t
    <2> QED
      BY <2>4, <2>5
  <1> QED
    BY <1>3, <1>4 DEF StepsFine

-----------------------------------------------------------------------------
(* The order of the steps: none twice, producers first.                    *)
LEMMA StaysIn ==
    ASSUME NEW N \in Nat, NEW D, NEW f, f[0] \in D, \A m \in 1 .. N : f[m - 1] \in D => f[m] \in D
    PROVE  \A n \in 0 .. N : f[n] \in D
  <1> DEFINE S == {k \in Nat : k <= N => f[k] \in D}
  <1>1. 0 \in S
    OBVIOUS
  <1>2. ASSUME NEW k \in S
        PROVE  k + 1 \in S
    <2>1. k \in Nat /\ k + 1 \in Nat /\ (k + 1) - 1 = k
      OBVIOUS
    <2>2. k + 1 <= N => k + 1 \in 1 .. N /\ k <= N
      BY <2>1
    <2> QED
      BY <2>1, <2>2
  <1> HIDE DEF S
  <1>3. S \in SUBSET Nat
    BY DEF S
  <1>4. S = Nat
    BY <1>1, <1>2, <1>3, SetInduction
  <1> QED
    BY <1>4 DEF S

LEMMA ByKeyIs ==
    ASSUME NEW tasks, NEW k \in Keys(tasks)
    PROVE  ByKey(tasks)[k] \in ToSet(tasks) /\ ByKey(tasks)[k].key = k
  <1>1. \E t \in ToSet(tasks) : t.key = k
    BY DEF Keys, ToSet
  <1> QED
    BY <1>1 DEF ByKey

Placing(steps) ==
    {s \in Seq(Keys(steps)) :
        /\ \A i, j \in 1 .. Len(s) : s[i] = s[j] => i = j
        /\ \A i \in 1 .. Len(s) :
                \A k \in Producers(ByKey(steps)[s[i]]) : \E j \in 1 .. i - 1 : s[j] = k}

LEMMA LongerPlaces ==
    ASSUME NEW steps, StepsFine(steps), NEW d \in Placing(steps)
    PROVE  Longer(steps, d) \in Placing(steps)
  <1>1. CASE Free(steps, d) = {}
    BY <1>1 DEF Longer
  <1>2. CASE Free(steps, d) # {}
    <2> DEFINE k == Min(Free(steps, d))
               s == Append(d, k)
               n == Len(d)
    <2>1. Keys(steps) \subseteq Nat
      BY DEF Keys, StepsFine, StepFine
    <2>2. Free(steps, d) \in SUBSET Nat
      BY <2>1 DEF Free
    <2>3. k \in Free(steps, d)
      BY <1>2, <2>2, MinIn
    <2>4. Longer(steps, d) = s
      BY <1>2 DEF Longer
    <2>5. k \in Keys(steps) /\ k \notin ToSet(d) /\ Producers(ByKey(steps)[k]) \subseteq ToSet(d)
      BY <2>3 DEF Free
    <2>6. d \in Seq(Keys(steps)) /\ n \in Nat /\ DOMAIN d = 1 .. n
      BY DEF Placing
    <2>a. /\ \A i, j \in 1 .. n : d[i] = d[j] => i = j
          /\ \A i \in 1 .. n :
                \A x \in Producers(ByKey(steps)[d[i]]) : \E j \in 1 .. i - 1 : d[j] = x
      BY DEF Placing
    <2> HIDE DEF k, n
    <2>7. s \in Seq(Keys(steps)) /\ Len(s) = n + 1 /\ s[n + 1] = k /\ \A i \in 1 .. n : s[i] = d[i]
      BY <2>5, <2>6, AppendProperties DEF n
    <2> HIDE DEF s
    <2>8. \A i \in 1 .. n + 1 : i = n + 1 \/ i \in 1 .. n
      BY <2>6
    <2>9. \A i \in 1 .. n : s[i] # k
      BY <2>5, <2>6, <2>7 DEF ToSet
    <2>10. \A i, j \in 1 .. n + 1 : s[i] = s[j] => i = j
      BY <2>7, <2>8, <2>9, <2>a
    <2>11. ASSUME NEW i \in 1 .. n + 1, NEW x \in Producers(ByKey(steps)[s[i]])
           PROVE  \E j \in 1 .. i - 1 : s[j] = x
      <3>1. CASE i = n + 1
        <4>1. x \in ToSet(d)
          BY <2>5, <2>7, <3>1
        <4>2. PICK j \in 1 .. n : d[j] = x
          BY <2>6, <4>1 DEF ToSet
        <4>3. j \in 1 .. i - 1
          BY <2>6, <3>1
        <4> QED
          BY <2>7, <4>2, <4>3
      <3>2. CASE i \in 1 .. n
        <4>1. s[i] = d[i]
          BY <2>7, <3>2
        <4>2. PICK j \in 1 .. i - 1 : d[j] = x
          BY <2>a, <3>2, <4>1
        <4>3. j \in 1 .. n
          BY <2>6, <3>2
        <4> QED
          BY <2>7, <4>2, <4>3
      <3> QED
        BY <2>8, <3>1, <3>2
    <2> QED
      BY <2>4, <2>7, <2>10, <2>11 DEF Placing
  <1> QED
    BY <1>1, <1>2

LEMMA OrderPlaces ==
    ASSUME NEW steps, StepsFine(steps)
    PROVE  \E keys \in Placing(steps) : Order(steps) = [i \in DOMAIN keys |-> ByKey(steps)[keys[i]]]
  <1> DEFINE N == Len(steps)
             D == Placing(steps)
             next == [x \in D \X (1 .. N) |-> Longer(steps, x[1])]
             Again(f) == [n \in 0 .. N |-> IF n = 0 THEN <<>> ELSE Longer(steps, f[n - 1])]
             done == CHOOSE f : f = Again(f)
  <1>1. N \in Nat
    BY DEF StepsFine
  <1>2. <<>> \in D
    BY DEF Placing
  <1>3. \A d \in D, m \in 1 .. N : next[<<d, m>>] = Longer(steps, d)
    OBVIOUS
  <1>4. \A d \in D, m \in 1 .. N : next[<<d, m>>] \in D
    BY <1>3, LongerPlaces
  <1> HIDE DEF N, D, next
  <1>5. PICK f \in [0 .. N -> D] : Recursion(f, N, <<>>, next)
    BY <1>1, <1>2, <1>4, RecursionExists
  <1>6. f = Again(f)
    <2>1. ASSUME NEW n \in 0 .. N
          PROVE  f[n] = IF n = 0 THEN <<>> ELSE Longer(steps, f[n - 1])
      <3>1. CASE n = 0
        BY <1>5, <3>1 DEF Recursion
      <3>2. CASE n # 0
        <4>1. n \in 1 .. N /\ n - 1 \in 0 .. N
          BY <1>1, <3>2
        <4>2. f[n] = next[<<f[n - 1], n>>] /\ f[n - 1] \in D
          BY <1>5, <4>1 DEF Recursion
        <4> QED
          BY <1>3, <3>2, <4>1, <4>2
      <3> QED
        BY <3>1, <3>2
    <2>2. f = [n \in 0 .. N |-> f[n]]
      BY <1>5
    <2> QED
      BY <2>1, <2>2
  <1>7. done = Again(done)
    BY <1>6
  <1>8. Order(steps) = [i \in DOMAIN done[N] |-> ByKey(steps)[done[N][i]]]
    BY DEF Order, N
  <1> HIDE DEF done
  <1>9. done[0] \in D
    <2>1. 0 \in 0 .. N
      BY <1>1
    <2> QED
      BY <1>2, <1>7, <2>1
  <1>10. ASSUME NEW m \in 1 .. N, done[m - 1] \in D
         PROVE  done[m] \in D
    <2>1. m \in 0 .. N /\ m # 0
      BY <1>1
    <2>2. done[m] = Longer(steps, done[m - 1])
      BY <1>7, <2>1
    <2> QED
      BY <1>10, <2>2, LongerPlaces DEF D
  <1>11. done[N] \in D
    <2>1. N \in 0 .. N
      BY <1>1
    <2>2. \A n \in 0 .. N : done[n] \in D
      BY <1>1, <1>9, <1>10, StaysIn
    <2> QED
      BY <2>1, <2>2
  <1> QED
    BY <1>8, <1>11 DEF D

(* What the loop of the compiler relies on.                                *)
Ordered(order, steps) ==
    /\ order \in Seq(ToSet(steps))
    /\ \A i, j \in DOMAIN order : order[i].key = order[j].key => i = j
    /\ \A i \in DOMAIN order :
            \A k \in Producers(order[i]) : \E j \in 1 .. i - 1 : order[j].key = k

LEMMA OrderIsOrdered ==
    ASSUME NEW steps, StepsFine(steps)
    PROVE  Ordered(Order(steps), steps)
  <1> DEFINE order == Order(steps)
  <1>1. PICK keys \in Placing(steps) : order = [i \in DOMAIN keys |-> ByKey(steps)[keys[i]]]
    BY OrderPlaces
  <1> HIDE DEF order
  <1>2. keys \in Seq(Keys(steps)) /\ Len(keys) \in Nat /\ DOMAIN keys = 1 .. Len(keys)
    BY DEF Placing
  <1>3. \A i \in 1 .. Len(keys) : keys[i] \in Keys(steps)
    BY <1>2
  <1>4. \A i \in 1 .. Len(keys) : order[i] = ByKey(steps)[keys[i]] /\ order[i] \in ToSet(steps)
                                  /\ order[i].key = keys[i]
    BY <1>1, <1>2, <1>3, ByKeyIs
  <1>5. order = [i \in 1 .. Len(keys) |-> order[i]]
    BY <1>1, <1>2
  <1>6. order \in Seq(ToSet(steps)) /\ DOMAIN order = 1 .. Len(keys)
    BY <1>2, <1>4, <1>5
  <1>7. \A i, j \in DOMAIN order : order[i].key = order[j].key => i = j
    BY <1>4, <1>6 DEF Placing
  <1>8. ASSUME NEW i \in DOMAIN order, NEW k \in Producers(order[i])
        PROVE  \E j \in 1 .. i - 1 : order[j].key = k
    <2>1. i \in 1 .. Len(keys)
      BY <1>6
    <2>2. PICK j \in 1 .. i - 1 : keys[j] = k
      BY <1>4, <2>1 DEF Placing
    <2>3. j \in 1 .. Len(keys)
      BY <1>2, <2>1
    <2> QED
      BY <1>4, <2>2, <2>3
  <1>9. \A i \in DOMAIN order : \A k \in Producers(order[i]) : \E j \in 1 .. i - 1 : order[j].key = k
    BY <1>8
  <1>10. Ordered(order, steps)
    BY <1>6, <1>7, <1>9, Zenon DEF Ordered
  <1> QED
    BY <1>10 DEF order

-----------------------------------------------------------------------------
(* What the checks of the compiler leave.                                  *)
LEMMA PortsChecked ==
    ASSUME NEW steps, StepsFine(steps), FirstFault(PortsFault, steps) = "none"
    PROVE  \A i \in DOMAIN steps : PortsFault(steps[i]) = "none"
  <1> DEFINE faulty == {i \in DOMAIN steps : PortsFault(steps[i]) # "none"}
  <1>1. faulty \in SUBSET Nat
    BY DEF StepsFine
  <1>2. faulty # {} => Min(faulty) \in faulty
    BY <1>1, MinIn
  <1>3. faulty # {} => PortsFault(steps[Min(faulty)]) = "none"
    BY DEF FirstFault
  <1>4. faulty = {}
    BY <1>2, <1>3
  <1> QED
    BY <1>4

(* A binding is to a port of the contract, and one that takes one artifact *)
(* has one reference, in no list.                                          *)
BindingChecked(b, ins) ==
    /\ b.port \in DOMAIN ins
    /\ ~ins[b.port].many => ~b.list /\ Len(b.refs) = 1
    /\ ins[b.port].min = 1 => Len(b.refs) >= 1

LEMMA BindingsChecked ==
    ASSUME NEW step, StepFine(step), PortsFault(step) = "none"
    PROVE  LET ins == Contract(step.op).ins
           IN  /\ \A i \in DOMAIN step.inputs : BindingChecked(step.inputs[i], ins)
               /\ \A p \in DOMAIN ins : ins[p].required => \E i \in DOMAIN step.inputs : step.inputs[i].port = p
  <1> DEFINE ins == Contract(step.op).ins
             Fault(b) == When(b.port \notin DOMAIN ins, "PORT_MISMATCH") ?? ShapeFault(b, ins[b.port])
             faulty == {i \in DOMAIN step.inputs : Fault(step.inputs[i]) # "none"}
             given == {step.inputs[i].port : i \in DOMAIN step.inputs}
  <1>1. /\ FirstFault(Fault, step.inputs) = "none"
        /\ When(\E p \in DOMAIN ins : ins[p].required /\ p \notin given, "PORT_MISMATCH") = "none"
    BY NoFault DEF PortsFault
  <1>2. faulty \in SUBSET Nat
    BY DEF StepFine
  <1>3. faulty # {} => Min(faulty) \in faulty
    BY <1>2, MinIn
  <1>4. faulty # {} => Fault(step.inputs[Min(faulty)]) = "none"
    BY <1>1 DEF FirstFault
  <1>5. \A i \in DOMAIN step.inputs : Fault(step.inputs[i]) = "none"
    BY <1>3, <1>4
  <1>6. ASSUME NEW i \in DOMAIN step.inputs
        PROVE  BindingChecked(step.inputs[i], ins)
    <2> DEFINE b == step.inputs[i]
    <2>1. /\ When(b.port \notin DOMAIN ins, "PORT_MISMATCH") = "none"
          /\ When(b.list /\ ~ins[b.port].many, "PORT_MISMATCH") = "none"
          /\ When(Len(b.refs) < ins[b.port].min, "PORT_MISMATCH") = "none"
      BY <1>5, NoFault DEF ShapeFault
    <2>2. BindingFine(b) /\ Len(b.refs) \in Nat
      BY DEF StepFine, BindingFine
    <2> HIDE DEF b, ins
    <2>3. b.port \in DOMAIN ins /\ ~(b.list /\ ~ins[b.port].many) /\ ~(Len(b.refs) < ins[b.port].min)
      BY <2>1 DEF When
    <2> QED
      BY <2>2, <2>3 DEF BindingFine, BindingChecked, b
  <1>7. \A p \in DOMAIN ins : ins[p].required => p \in given
    BY <1>1 DEF When
  <1> QED
    BY <1>6, <1>7

(* A reference reads what its port accepts, and no more than it takes.     *)
RefChecked(r, port, outputs) ==
    /\ ~port.many => ~r.all
    /\ IF r.kind = "artifact" THEN Library[r.of].type \in port.types
       ELSE outputs[r.of].type \in port.types

LEMMA RefsChecked ==
    ASSUME NEW step, StepFine(step), NEW outputs, InputsFault(step, Described, outputs) = "none",
           NEW i \in DOMAIN step.inputs, NEW j \in DOMAIN step.inputs[i].refs
    PROVE  RefChecked(step.inputs[i].refs[j], Contract(step.op).ins[step.inputs[i].port], outputs)
  <1> DEFINE ins == Contract(step.op).ins
             Fault(b, r) == RefFault(r, ins[b.port], Described, outputs)
             BindingFault(b) == LET Of(r) == Fault(b, r) IN FirstFault(Of, b.refs)
             faulty == {k \in DOMAIN step.inputs : BindingFault(step.inputs[k]) # "none"}
             b == step.inputs[i]
             wrong == {k \in DOMAIN b.refs : Fault(b, b.refs[k]) # "none"}
             r == b.refs[j]
  <1>1. FirstFault(BindingFault, step.inputs) = "none"
    BY DEF InputsFault
  <1>2. faulty \in SUBSET Nat
    <2>1. DOMAIN step.inputs \in SUBSET Nat
      BY DEF StepFine
    <2> QED
      BY <2>1, Zenon
  <1>3. faulty # {} => Min(faulty) \in faulty
    BY <1>2, MinIn
  <1>4. faulty # {} => BindingFault(step.inputs[Min(faulty)]) = "none"
    BY <1>1 DEF FirstFault
  <1>5. BindingFault(b) = "none"
    BY <1>3, <1>4
  <1>6. BindingFine(b)
    BY DEF StepFine
  <1>7. wrong \in SUBSET Nat
    BY <1>6 DEF BindingFine
  <1>8. wrong # {} => Min(wrong) \in wrong
    BY <1>7, MinIn
  <1>9. wrong # {} => Fault(b, b.refs[Min(wrong)]) = "none"
    BY <1>5 DEF FirstFault
  <1>10. RefFault(r, ins[b.port], Described, outputs) = "none"
    BY <1>8, <1>9
  <1>11. r.kind = "artifact" => r.of \in DOMAIN Library
    BY <1>6 DEF BindingFine, ToSet
  <1>14. ~ins[b.port].many => ~r.all
    <2>1. When(r.all /\ ~ins[b.port].many, "INVALID_REF") = "none"
      BY <1>10, NoFault DEF RefFault
    <2> QED
      BY <2>1 DEF When
  <1>12. CASE r.kind = "artifact"
    <2>1. When(~Accepts(ins[b.port], Described[r.of].type), "TYPE_MISMATCH") = "none"
      BY <1>10, <1>12, NoFault DEF RefFault
    <2>2. Described[r.of].type = Library[r.of].type
      BY <1>11, <1>12 DEF Described
    <2> QED
      BY <1>12, <1>14, <2>1, <2>2 DEF When, Accepts, RefChecked
  <1>13. CASE r.kind # "artifact"
    <2>1. When(~Accepts(ins[b.port], outputs[r.of].type), "TYPE_MISMATCH") = "none"
      BY <1>10, <1>13, NoFault DEF RefFault
    <2> QED
      BY <1>13, <1>14, <2>1 DEF When, Accepts, RefChecked
  <1> QED
    BY <1>12, <1>13

(* The parameters a rule asks for are there, and are what it says.         *)
LEMMA ParamsChecked ==
    ASSUME NEW step, ParamsFault(step) = "none", CrsParamsFault(NormalParams(step)) = "none"
    PROVE  LET rules == Contract(step.op).params
               params == NormalParams(step)
           IN  /\ DOMAIN params \subseteq DOMAIN rules
               /\ \A p \in {"source_crs", "target_crs"} :
                    Asks(Contract(step.op), p) => p \in DOMAIN params /\ params[p] \in Crs
  <1> DEFINE rules == Contract(step.op).params
             params == NormalParams(step)
  <1>1. /\ DOMAIN step.params \subseteq DOMAIN rules
        /\ \A p \in DOMAIN rules : rules[p].required => p \in DOMAIN params
        /\ \A p \in DOMAIN params : params[p] \in rules[p].ok
    BY DEF ParamsFault, When
  <1>2. DOMAIN params = DOMAIN step.params \cup Defaults(rules)
    BY DEF NormalParams
  <1>3. Defaults(rules) \subseteq DOMAIN rules
    BY DEF Defaults
  <1>4. \A p \in {"source_crs", "target_crs"} \cap DOMAIN params : params[p] # "odd"
    BY DEF CrsParamsFault, When
  <1> HIDE DEF params
  <1>5. Needed(Projection).required /\ Needed(Projection).ok = Crs \cup {"odd"}
    BY DEF Needed, Projection, Rule
  <1>6. ASSUME NEW p \in {"source_crs", "target_crs"}, Asks(Contract(step.op), p)
        PROVE  p \in DOMAIN params /\ params[p] \in Crs
    BY <1>1, <1>4, <1>5, <1>6 DEF Asks
  <1> QED
    BY <1>1, <1>2, <1>3, <1>6 DEF params

(* The CRS a reference stands for, and the one a task is frozen with.      *)
RefCrs(outputs, r) ==
    IF r.kind = "task" THEN outputs[r.of].crs ELSE EffectiveCrs(Library[r.of])

LEMMA InputCrsIs ==
    ASSUME NEW step, StepFine(step), NEW outputs
    PROVE  LET crs == InputCrs(step, Described, outputs)
           IN  /\ crs = "none" \/ \E r \in Refs(step) : crs = RefCrs(outputs, r)
               /\ \A i \in DOMAIN step.inputs :
                    (step.inputs[i].refs # <<>> /\ \A k \in DOMAIN step.inputs : k = i) =>
                        crs = RefCrs(outputs, step.inputs[i].refs[1])
  <1> DEFINE first(i) == Head(step.inputs[i].refs)
             crs(r) == IF r.kind = "task" THEN outputs[r.of].crs
                       ELSE IF Described[r.of].crs # "none" THEN Described[r.of].crs ELSE Described[r.of].declared
             counting == {i \in DOMAIN step.inputs :
                        /\ step.inputs[i].refs # <<>>
                        /\ first(i).kind = "artifact" \/ crs(first(i)) # "none"}
             all == InputCrs(step, Described, outputs)
  <1>1. all = IF counting = {} THEN "none" ELSE crs(first(Max(counting)))
    BY DEF InputCrs
  <1>2. ASSUME NEW i \in DOMAIN step.inputs, step.inputs[i].refs # <<>>
        PROVE  /\ first(i) \in Refs(step) /\ crs(first(i)) = RefCrs(outputs, first(i))
               /\ first(i) = step.inputs[i].refs[1] /\ first(i).kind \in {"artifact", "task"}
    <2> DEFINE refs == step.inputs[i].refs
    <2>1. BindingFine(step.inputs[i])
      BY DEF StepFine
    <2>2. refs \in Seq(ToSet(refs)) /\ 1 \in DOMAIN refs /\ first(i) = refs[1]
      BY <1>2, <2>1 DEF BindingFine
    <2>3. first(i) \in ToSet(refs)
      BY <2>2 DEF ToSet
    <2>4. first(i) \in Refs(step)
      BY <2>3 DEF Refs
    <2>5. first(i).kind \in {"artifact", "task"} /\ (first(i).kind = "artifact" => first(i).of \in DOMAIN Library)
      BY <2>1, <2>3 DEF BindingFine
    <2> HIDE DEF first, refs
    <2>6. crs(first(i)) = RefCrs(outputs, first(i))
      BY <2>5 DEF RefCrs, Described, EffectiveCrs
    <2> QED
      BY <2>2, <2>4, <2>5, <2>6 DEF refs
  <1>3. DOMAIN step.inputs = 1 .. Len(step.inputs) /\ Len(step.inputs) \in Nat
    BY DEF StepFine
  <1> HIDE DEF first, crs, all
  <1>4. counting \in SUBSET (1 .. Len(step.inputs))
    BY <1>3
  <1>5. counting # {} => Max(counting) \in counting
    BY <1>3, <1>4, MaxIn
  <1>6. all = "none" \/ \E r \in Refs(step) : all = RefCrs(outputs, r)
    BY <1>1, <1>2, <1>5
  <1>7. ASSUME NEW i \in DOMAIN step.inputs, step.inputs[i].refs # <<>>,
               \A k \in DOMAIN step.inputs : k = i
        PROVE  all = RefCrs(outputs, step.inputs[i].refs[1])
    <2>1. CASE counting = {}
      BY <1>1, <1>2, <1>7, <2>1
    <2>2. CASE counting # {}
      <3>1. Max(counting) = i
        BY <1>5, <1>7, <2>2
      <3> QED
        BY <1>1, <1>2, <1>7, <2>2, <3>1
    <2> QED
      BY <2>1, <2>2
  <1> QED
    BY <1>6, <1>7 DEF all

FrozenCrs(outputs, t) ==
    LET crs == t.out.crs
    IN  /\ t.op \in {"io.csv_to_points", "raster.vectorize"} => crs = t.params.crs
        /\ t.op \notin {"io.csv_to_points", "raster.vectorize"} =>
                crs \in Crs \cup {"none"} \/ \E r \in Refs(t) : crs = RefCrs(outputs, r)
        /\ "target_crs" \in DOMAIN t.params => crs = t.params.target_crs
        /\ t.op = "geo.geocode" => crs = "GCJ02"
        /\ t.op \in Following =>
                \A i \in DOMAIN t.inputs :
                    crs = IF t.op = "file.export" /\ t.params.format = "geojson" THEN "EPSG:4326"
                          ELSE RefCrs(outputs, t.inputs[i].refs[1])

(* A task that was compiled when its producers had these outputs.          *)
InputsGood(outputs, t) ==
    LET ins == Contract(t.op).ins
    IN  /\ t.inputs \in Seq(ToSet(t.inputs))
        /\ \A i, j \in DOMAIN t.inputs : t.inputs[i].port = t.inputs[j].port => i = j
        /\ \A i \in DOMAIN t.inputs :
                /\ BindingFine(t.inputs[i]) /\ BindingChecked(t.inputs[i], ins)
                /\ \A j \in DOMAIN t.inputs[i].refs :
                        RefChecked(t.inputs[i].refs[j], ins[t.inputs[i].port], outputs)
        /\ \A p \in DOMAIN ins : ins[p].required => \E i \in DOMAIN t.inputs : t.inputs[i].port = p

ParamsGood(t) ==
    /\ DOMAIN t.params \subseteq DOMAIN Contract(t.op).params
    /\ \A p \in {"source_crs", "target_crs"} :
            Asks(Contract(t.op), p) => p \in DOMAIN t.params /\ t.params[p] \in Crs

TaskGood(outputs, t) ==
    /\ t.op \in Operations /\ t.op # "publish_file" /\ CanonicalName(t.op) = t.op
    /\ Producers(t) \subseteq DOMAIN outputs
    /\ InputsGood(outputs, t) /\ ParamsGood(t)
    /\ t.out.type \in Contract(t.op).out.types
    /\ FrozenCrs(outputs, t)


LEMMA CompiledGood ==
    ASSUME NEW step, StepFine(step), CanonicalName(step.op) = step.op, Known(step.op),
           PortsFault(step) = "none",
           NEW outputs, Producers(step) \subseteq DOMAIN outputs, NEW goal,
           StepFault(step, NormalParams(step), Described, outputs, goal) = "none"
    PROVE  LET params == NormalParams(step)
               out == OutputSpec(step, params, OutputCrs(step, params, Described, outputs))
           IN  TaskGood(outputs, CompiledTask(step, params, out))
  <1> DEFINE params == NormalParams(step)
             crs == OutputCrs(step, params, Described, outputs)
             out == OutputSpec(step, params, crs)
             t == CompiledTask(step, params, out)
             tool == Contract(step.op)
             ins == tool.ins
  <1>1. /\ InputsFault(step, Described, outputs) = "none" /\ ParamsFault(step) = "none"
        /\ SideEffectFault(step) = "none" /\ CrsParamsFault(params) = "none"
    BY NoFault DEF StepFault
  <1>2. step.op \in Operations /\ step.op # "publish_file"
    BY <1>1 DEF Known, SideEffectFault, When, HasSideEffect
  <1>3. Suits(step.op, tool)
    BY <1>2, ContractSuits
  <1>4. /\ t.op = step.op /\ t.inputs = step.inputs /\ t.params = params /\ t.out = out
    BY DEF CompiledTask
  <1>5. /\ \A i \in DOMAIN step.inputs : BindingChecked(step.inputs[i], ins)
        /\ \A p \in DOMAIN ins : ins[p].required => \E i \in DOMAIN step.inputs : step.inputs[i].port = p
    BY BindingsChecked
  <1>6. \A i \in DOMAIN step.inputs : \A j \in DOMAIN step.inputs[i].refs :
            RefChecked(step.inputs[i].refs[j], ins[step.inputs[i].port], outputs)
    BY <1>1, RefsChecked
  <1>7. /\ DOMAIN params \subseteq DOMAIN tool.params
        /\ \A p \in {"source_crs", "target_crs"} :
                Asks(tool, p) => p \in DOMAIN params /\ params[p] \in Crs
    BY <1>1, ParamsChecked
  <1>8. /\ out.type = CHOOSE x \in tool.out.types : TRUE
        /\ out.crs = IF step.op = "file.export" /\ params.format = "geojson" THEN "EPSG:4326" ELSE crs
    BY DEF OutputSpec
  <1> HIDE DEF t, out, params, tool
  <1>9. t.out.type \in tool.out.types
    BY <1>3, <1>4, <1>8 DEF Suits, SuitsParams
  <1>10. Refs(t) = Refs(step) /\ Producers(t) = Producers(step)
    BY <1>4 DEF Refs, Producers
  <1>11. InputsGood(outputs, t)
    BY <1>4, <1>5, <1>6 DEF InputsGood, StepFine, tool
  <1>12. ParamsGood(t)
    BY <1>4, <1>7 DEF ParamsGood, tool
  <1> DEFINE icrs == InputCrs(step, Described, outputs)
  <1>13. /\ icrs = "none" \/ \E r \in Refs(step) : icrs = RefCrs(outputs, r)
         /\ \A i \in DOMAIN step.inputs :
                (step.inputs[i].refs # <<>> /\ \A k \in DOMAIN step.inputs : k = i) =>
                        icrs = RefCrs(outputs, step.inputs[i].refs[1])
    BY InputCrsIs
  <1>14. crs = IF step.op = "geo.geocode" THEN "GCJ02"
               ELSE IF step.op \in {"io.csv_to_points", "raster.vectorize"} THEN params.crs
               ELSE IF "target_crs" \in DOMAIN params THEN params.target_crs
               ELSE icrs
    BY DEF OutputCrs
  <1> HIDE DEF crs, icrs
  <1>15. /\ "target_crs" \in DOMAIN params => params.target_crs \in Crs
         /\ step.op \in {"geo.geocode", "io.csv_to_points", "raster.vectorize"} \cup Following =>
                "target_crs" \notin DOMAIN params
    BY <1>3, <1>7 DEF Suits, SuitsParams
  <1>16. "EPSG:4326" \in Crs /\ "GCJ02" \in Crs
    BY DEF Crs
  <1>17. ASSUME step.op \in Following, NEW i \in DOMAIN step.inputs
         PROVE  icrs = RefCrs(outputs, step.inputs[i].refs[1])
    <2>1. DOMAIN ins = {Source(step.op)} /\ ~ins[Source(step.op)].many
      BY <1>3, <1>17 DEF Suits, SuitsSource, Takes
    <2>2. \A k \in DOMAIN step.inputs : step.inputs[k].port = Source(step.op) /\ Len(step.inputs[k].refs) = 1
      BY <1>5, <2>1 DEF BindingChecked
    <2>3. \A k \in DOMAIN step.inputs : k = i
      BY <2>2 DEF StepFine
    <2>4. step.inputs[i].refs # <<>>
      BY <2>2
    <2> QED
      BY <1>13, <2>3, <2>4
  <1>18. FrozenCrs(outputs, t)
    <2>1. step.op \in {"io.csv_to_points", "raster.vectorize"} => out.crs = params.crs
      BY <1>8, <1>14
    <2>2. step.op \notin {"io.csv_to_points", "raster.vectorize"} =>
                out.crs \in Crs \cup {"none"} \/ \E r \in Refs(t) : out.crs = RefCrs(outputs, r)
      BY <1>8, <1>10, <1>13, <1>14, <1>15, <1>16
    <2>3. "target_crs" \in DOMAIN params => out.crs = params.target_crs
      BY <1>8, <1>14, <1>15 DEF Following
    <2>4. step.op = "geo.geocode" => out.crs = "GCJ02"
      BY <1>8, <1>14
    <2>5. step.op \in Following =>
                \A i \in DOMAIN step.inputs :
                    out.crs = IF step.op = "file.export" /\ params.format = "geojson" THEN "EPSG:4326"
                              ELSE RefCrs(outputs, step.inputs[i].refs[1])
      BY <1>8, <1>14, <1>15, <1>17 DEF Following
    <2> QED
      BY <1>4, <2>1, <2>2, <2>3, <2>4, <2>5 DEF FrozenCrs
  <1>19. TaskGood(outputs, t)
    BY <1>2, <1>4, <1>9, <1>10, <1>11, <1>12, <1>18 DEF TaskGood, tool
  <1> QED
    BY <1>19 DEF t, out, params, crs

(* It stays one when more outputs are known.                               *)
LEMMA GoodStays ==
    ASSUME NEW outputs, NEW more, NEW t, TaskGood(outputs, t), DOMAIN outputs \subseteq DOMAIN more,
           \A k \in DOMAIN outputs : more[k] = outputs[k]
    PROVE  TaskGood(more, t)
  <1>1. \A r \in Refs(t) : r.kind = "task" => r.of \in DOMAIN outputs
    BY DEF TaskGood, Producers
  <1>2. \A r \in Refs(t) : RefCrs(more, r) = RefCrs(outputs, r)
    BY <1>1 DEF RefCrs
  <1>3. \A i \in DOMAIN t.inputs : \A j \in DOMAIN t.inputs[i].refs : t.inputs[i].refs[j] \in Refs(t)
    BY DEF Refs, ToSet
  <1>4. \A r \in Refs(t) : r.kind \in {"artifact", "task"}
    BY DEF Refs, TaskGood, InputsGood, BindingFine
  <1>5. InputsGood(more, t)
    <2>1. ASSUME NEW i \in DOMAIN t.inputs, NEW j \in DOMAIN t.inputs[i].refs
          PROVE  RefChecked(t.inputs[i].refs[j], Contract(t.op).ins[t.inputs[i].port], more)
      BY <1>1, <1>3, <1>4 DEF TaskGood, InputsGood, RefChecked
    <2> QED
      BY <2>1 DEF TaskGood, InputsGood
  <1>6. FrozenCrs(more, t)
    <2>1. \A i \in DOMAIN t.inputs : t.op \in Following => 1 \in DOMAIN t.inputs[i].refs
      <3> SUFFICES ASSUME NEW i \in DOMAIN t.inputs, t.op \in Following
                   PROVE  1 \in DOMAIN t.inputs[i].refs
        OBVIOUS
      <3>1. Suits(t.op, Contract(t.op))
        BY ContractSuits DEF TaskGood
      <3>2. DOMAIN Contract(t.op).ins = {Source(t.op)} /\ ~Contract(t.op).ins[Source(t.op)].many
        BY <3>1 DEF Suits, SuitsSource, Takes
      <3>3. Len(t.inputs[i].refs) = 1 /\ BindingFine(t.inputs[i])
        BY <3>2 DEF TaskGood, InputsGood, BindingChecked
      <3> QED
        BY <3>3 DEF BindingFine
    <2>2. \A i \in DOMAIN t.inputs : t.op \in Following =>
                RefCrs(more, t.inputs[i].refs[1]) = RefCrs(outputs, t.inputs[i].refs[1])
      BY <1>2, <1>3, <2>1
    <2> QED
      BY <1>2, <2>2 DEF TaskGood, FrozenCrs
  <1> QED
    BY <1>5, <1>6 DEF TaskGood


-----------------------------------------------------------------------------
(* The loop over the ordered steps.                                        *)
Again(f, n, order, goal) ==
    f = [m \in 0 .. n |-> IF m = 0 THEN Nothing ELSE Grown(f[m - 1], order[m], Described, goal)]

LEMMA LoopRuns ==
    ASSUME NEW order, NEW goal, NEW N \in Nat
    PROVE  \E f : Again(f, N, order, goal)
  <1> DEFINE S == {n \in Nat : \E f : Again(f, n, order, goal)}
  <1>1. 0 \in S
    <2> DEFINE f == [m \in 0 .. 0 |-> Nothing]
    <2>1. \A m \in 0 .. 0 : m = 0
      OBVIOUS
    <2>2. Again(f, 0, order, goal)
      BY <2>1 DEF Again
    <2> QED
      BY <2>2
  <1>2. ASSUME NEW n \in S
        PROVE  n + 1 \in S
    <2>1. n \in Nat /\ n + 1 \in Nat /\ n \in 0 .. n /\ n + 1 \in 0 .. n + 1 /\ n + 1 # 0 /\ (n + 1) - 1 = n
      OBVIOUS
    <2>2. PICK f : Again(f, n, order, goal)
      OBVIOUS
    <2> DEFINE last == Grown(f[n], order[n + 1], Described, goal)
               g == [m \in 0 .. n + 1 |-> IF m = n + 1 THEN last ELSE f[m]]
    <2>3. \A m \in 0 .. n : f[m] = IF m = 0 THEN Nothing ELSE Grown(f[m - 1], order[m], Described, goal)
      BY <2>2 DEF Again
    <2> HIDE DEF last
    <2>4. g[n + 1] = last /\ \A m \in 0 .. n : g[m] = f[m]
      BY <2>1
    <2> HIDE DEF g
    <2>5. ASSUME NEW m \in 0 .. n + 1
          PROVE  g[m] = IF m = 0 THEN Nothing ELSE Grown(g[m - 1], order[m], Described, goal)
      <3>1. CASE m = n + 1
        <4>1. m # 0 /\ m - 1 = n
          BY <2>1, <3>1
        <4>2. g[m - 1] = f[n] /\ g[m] = last
          BY <2>1, <2>4, <3>1, <4>1
        <4> QED
          BY <3>1, <4>1, <4>2 DEF last
      <3>2. CASE m = 0
        <4>1. m \in 0 .. n
          BY <2>1, <3>2
        <4> QED
          BY <2>3, <2>4, <3>2, <4>1
      <3>3. CASE m # n + 1 /\ m # 0
        <4>1. m \in 0 .. n /\ m - 1 \in 0 .. n
          BY <2>1, <3>3
        <4> QED
          BY <2>3, <2>4, <3>3, <4>1
      <3> QED
        BY <3>1, <3>2, <3>3
    <2>6. g = [m \in 0 .. n + 1 |-> g[m]]
      BY DEF g
    <2>7. Again(g, n + 1, order, goal)
      BY <2>5, <2>6 DEF Again
    <2> QED
      BY <2>1, <2>7
  <1> HIDE DEF S
  <1>3. S \in SUBSET Nat
    BY DEF S
  <1>4. N \in S
    BY <1>1, <1>2, <1>3, SetInduction
  <1> QED
    BY <1>4 DEF S

(* What has been built of the first n steps, when none was refused.        *)
Built(acc, n, order) ==
    /\ DOMAIN acc = {"fault", "outputs", "tasks"}
    /\ acc.fault = "none" =>
            /\ DOMAIN acc.outputs = {order[j].key : j \in 1 .. n}
            /\ acc.tasks \in Seq(ToSet(acc.tasks)) /\ Len(acc.tasks) = n
            /\ \A j \in 1 .. n : /\ acc.tasks[j].key = order[j].key
                                 /\ acc.tasks[j].inputs = order[j].inputs
                                 /\ acc.outputs[order[j].key] = acc.tasks[j].out
                                 /\ TaskGood(acc.outputs, acc.tasks[j])

(* The steps the loop may be given.                                        *)
Compilable(steps) ==
    /\ StepsFine(steps) /\ FirstFault(PortsFault, steps) = "none"
    /\ \A i \in DOMAIN steps : Known(steps[i].op)

LEMMA GrownBuilt ==
    ASSUME NEW steps, Compilable(steps), NEW order, Ordered(order, steps), NEW goal,
           NEW n \in DOMAIN order, NEW acc, Built(acc, n - 1, order)
    PROVE  Built(Grown(acc, order[n], Described, goal), n, order)
  <1> DEFINE step == order[n]
             params == NormalParams(step)
             fault == StepFault(step, params, Described, acc.outputs, goal)
             out == OutputSpec(step, params, OutputCrs(step, params, Described, acc.outputs))
             t == CompiledTask(step, params, out)
             res == Grown(acc, step, Described, goal)
  <1>1. n \in Nat /\ n - 1 \in Nat /\ (n - 1) + 1 = n /\ n \in 1 .. n /\ n \notin 1 .. n - 1
    BY DEF Ordered
  <1>2. CASE acc.fault # "none"
    <2>1. res = acc
      BY <1>2 DEF Grown
    <2> QED
      BY <1>2, <2>1 DEF Built
  <1>3. CASE acc.fault = "none" /\ fault # "none"
    <2>1. res = [acc EXCEPT !.fault = fault]
      BY <1>3 DEF Grown
    <2> HIDE DEF fault
    <2>2. res.fault = fault /\ DOMAIN res = DOMAIN acc
      BY <2>1 DEF Built
    <2> QED
      BY <1>3, <2>2 DEF Built
  <1>4. CASE acc.fault = "none" /\ fault = "none"
    <2>1. res = [acc EXCEPT !.outputs = With(acc.outputs, step.key, out), !.tasks = Append(acc.tasks, t)]
      BY <1>4 DEF Grown
    <2>2. /\ DOMAIN acc.outputs = {order[j].key : j \in 1 .. n - 1}
          /\ acc.tasks \in Seq(ToSet(acc.tasks)) /\ Len(acc.tasks) = n - 1
          /\ \A j \in 1 .. n - 1 : /\ acc.tasks[j].key = order[j].key
                                   /\ acc.tasks[j].inputs = order[j].inputs
                                   /\ acc.outputs[order[j].key] = acc.tasks[j].out
                                   /\ TaskGood(acc.outputs, acc.tasks[j])
          /\ DOMAIN acc = {"fault", "outputs", "tasks"}
      BY <1>4 DEF Built
    <2>3. PICK i \in DOMAIN steps : step = steps[i]
      BY DEF Ordered, ToSet, Compilable, StepsFine
    <2>4. /\ StepFine(step) /\ CanonicalName(step.op) = step.op /\ Known(step.op)
          /\ PortsFault(step) = "none"
      BY <2>3, PortsChecked DEF Compilable, StepsFine
    <2>5. Producers(step) \subseteq DOMAIN acc.outputs
      BY <2>2 DEF Ordered
    <2>6. TaskGood(acc.outputs, t)
      BY <1>4, <2>4, <2>5, CompiledGood
    <2>7. t.key = step.key /\ t.inputs = step.inputs /\ t.out = out
      BY DEF CompiledTask
    <2> HIDE DEF t, out, fault, params, res
    <2>8. /\ DOMAIN res = DOMAIN acc /\ res.outputs = With(acc.outputs, step.key, out)
          /\ res.tasks = Append(acc.tasks, t)
      BY <2>1, <2>2
    <2>9. step.key \notin DOMAIN acc.outputs
      <3>1. \A j \in 1 .. n - 1 : j \in DOMAIN order /\ j # n
        BY <1>1 DEF Ordered
      <3> QED
        BY <2>2, <3>1 DEF Ordered
    <2>10. /\ DOMAIN res.outputs = DOMAIN acc.outputs \cup {step.key} /\ res.outputs[step.key] = out
           /\ \A k \in DOMAIN acc.outputs : res.outputs[k] = acc.outputs[k]
      <3> DEFINE old == acc.outputs
                 key == step.key
      <3>1. res.outputs = With(old, key, out) /\ key \notin DOMAIN old
        BY <2>8, <2>9
      <3> HIDE DEF old, key
      <3>2. /\ DOMAIN res.outputs = DOMAIN old \cup {key} /\ res.outputs[key] = out
            /\ \A k \in DOMAIN old : res.outputs[k] = old[k]
        <4>1. /\ DOMAIN With(old, key, out) = DOMAIN old \cup {key} /\ With(old, key, out)[key] = out
              /\ \A k \in DOMAIN old : k # key => With(old, key, out)[k] = old[k]
          BY DEF With
        <4> QED
          BY <3>1, <4>1
      <3> QED
        BY <3>2 DEF old, key
    <2>11. \A j \in 1 .. n : j = n \/ j \in 1 .. n - 1
      BY <1>1
    <2>12. DOMAIN res.outputs = {order[j].key : j \in 1 .. n}
      <3>1. \A j \in 1 .. n - 1 : j \in 1 .. n
        BY <1>1
      <3> QED
        BY <1>1, <2>2, <2>10, <2>11, <3>1
    <2> DEFINE T == ToSet(acc.tasks) \cup {t}
    <2>13. res.tasks \in Seq(T) /\ Len(res.tasks) = n /\ res.tasks[n] = t
           /\ \A j \in 1 .. n - 1 : res.tasks[j] = acc.tasks[j]
      <3>1. acc.tasks \in Seq(T)
        BY <2>2 DEF ToSet
      <3> HIDE DEF T
      <3>2. t \in T
        BY DEF T
      <3> QED
        BY <1>1, <2>2, <2>8, <3>1, <3>2, AppendProperties
    <2> HIDE DEF T, step
    <2>14. res.tasks \in Seq(ToSet(res.tasks))
      <3>1. res.tasks = [j \in 1 .. n |-> res.tasks[j]]
        BY <2>13
      <3> QED
        BY <1>1, <3>1, SequenceOf
    <2>15. TaskGood(res.outputs, t) /\ \A j \in 1 .. n - 1 : TaskGood(res.outputs, acc.tasks[j])
      BY <2>2, <2>6, <2>10, GoodStays
    <2>16. \A j \in 1 .. n : /\ res.tasks[j].key = order[j].key
                             /\ res.tasks[j].inputs = order[j].inputs
                             /\ res.outputs[order[j].key] = res.tasks[j].out
                             /\ TaskGood(res.outputs, res.tasks[j])
      <3> SUFFICES ASSUME NEW j \in 1 .. n
                   PROVE  /\ res.tasks[j].key = order[j].key
                          /\ res.tasks[j].inputs = order[j].inputs
                          /\ res.outputs[order[j].key] = res.tasks[j].out
                          /\ TaskGood(res.outputs, res.tasks[j])
        OBVIOUS
      <3>1. CASE j = n
        BY <2>7, <2>10, <2>13, <2>15, <3>1 DEF step
      <3>2. CASE j \in 1 .. n - 1
        BY <2>2, <2>10, <2>13, <2>15, <3>2
      <3> QED
        BY <2>11, <3>1, <3>2
    <2> QED
      BY <2>2, <2>8, <2>12, <2>13, <2>14, <2>16 DEF Built, res, step
  <1> QED
    BY <1>2, <1>3, <1>4

(* What the compiler promises of the tasks of a plan.                      *)
PlanGood(tasks) ==
    /\ Ordered(tasks, tasks)
    /\ \E outputs :
            /\ DOMAIN outputs = Keys(tasks)
            /\ \A t \in ToSet(tasks) : outputs[t.key] = t.out /\ TaskGood(outputs, t)

LEMMA TasksGood ==
    ASSUME NEW steps, Compilable(steps), NEW goal, Tasks(steps, Described, goal).fault = "none"
    PROVE  /\ PlanGood(Tasks(steps, Described, goal).tasks)
           /\ Keys(Tasks(steps, Described, goal).tasks) = Keys(Order(steps))
  <1> DEFINE order == Order(steps)
             N == Len(order)
             built == CHOOSE f : Again(f, N, order, goal)
  <1>1. Ordered(order, steps)
    BY OrderIsOrdered DEF Compilable
  <1> HIDE DEF order
  <1>2. N \in Nat /\ DOMAIN order = 1 .. N
    BY <1>1 DEF Ordered
  <1>3. Again(built, N, order, goal)
    BY <1>2, LoopRuns
  <1>4. Tasks(steps, Described, goal) = built[N]
    BY DEF Tasks, order, Again
  <1> HIDE DEF built, N
  <1>5. built[0] = Nothing /\ \A m \in 1 .. N : built[m] = Grown(built[m - 1], order[m], Described, goal)
    <2>1. \A m \in 0 .. N : built[m] = IF m = 0 THEN Nothing ELSE Grown(built[m - 1], order[m], Described, goal)
      BY <1>3 DEF Again
    <2>2. 0 \in 0 .. N /\ \A m \in 1 .. N : m \in 0 .. N /\ m # 0
      BY <1>2
    <2> QED
      BY <2>1, <2>2
  <1> DEFINE S == {n \in Nat : n <= N => Built(built[n], n, order)}
  <1>6. 0 \in S
    <2>1. \A j \in 1 .. 0 : FALSE
      OBVIOUS
    <2>2. Built(Nothing, 0, order)
      BY <2>1 DEF Built, Nothing, ToSet
    <2> QED
      BY <1>5, <2>2
  <1>7. ASSUME NEW n \in S
        PROVE  n + 1 \in S
    <2>1. n \in Nat /\ n + 1 \in Nat /\ (n + 1) - 1 = n
      OBVIOUS
    <2>2. ASSUME n + 1 <= N
          PROVE  Built(built[n + 1], n + 1, order)
      <3>1. n <= N /\ n + 1 \in 1 .. N
        BY <1>2, <2>1, <2>2
      <3>2. Built(built[n], n, order)
        BY <3>1
      <3>3. built[n + 1] = Grown(built[n], order[n + 1], Described, goal)
        BY <1>5, <2>1, <3>1
      <3> QED
        BY <1>1, <1>2, <2>1, <3>1, <3>2, <3>3, GrownBuilt
    <2> QED
      BY <2>1, <2>2
  <1> HIDE DEF S
  <1>8. S \in SUBSET Nat
    BY DEF S
  <1>9. Built(built[N], N, order)
    <2>1. N \in S
      BY <1>2, <1>6, <1>7, <1>8, SetInduction
    <2> QED
      BY <1>2, <2>1 DEF S
  <1> DEFINE acc == built[N]
             tasks == acc.tasks
  <1>10. /\ DOMAIN acc.outputs = {order[j].key : j \in 1 .. N}
         /\ DOMAIN tasks = 1 .. N /\ tasks \in Seq(ToSet(tasks))
         /\ \A j \in 1 .. N : /\ tasks[j].key = order[j].key
                              /\ tasks[j].inputs = order[j].inputs
                              /\ acc.outputs[order[j].key] = tasks[j].out
                              /\ TaskGood(acc.outputs, tasks[j])
    BY <1>2, <1>4, <1>9 DEF Built
  <1> HIDE DEF acc, tasks
  <1>11. DOMAIN acc.outputs = Keys(tasks)
    BY <1>10 DEF Keys
  <1>12. \A t \in ToSet(tasks) : acc.outputs[t.key] = t.out /\ TaskGood(acc.outputs, t)
    BY <1>10 DEF ToSet
  <1>13. Ordered(tasks, tasks)
    <2>1. \A j \in 1 .. N : Producers(tasks[j]) = Producers(order[j])
      BY <1>10 DEF Producers, Refs
    <2>2. ASSUME NEW i \in 1 .. N, NEW k \in Producers(tasks[i])
          PROVE  \E j \in 1 .. i - 1 : tasks[j].key = k
      <3>1. PICK j \in 1 .. i - 1 : order[j].key = k
        BY <1>1, <1>2, <2>1, <2>2 DEF Ordered
      <3>2. j \in 1 .. N
        BY <1>2
      <3> QED
        BY <1>10, <3>1, <3>2
    <2>3. \A i, j \in 1 .. N : tasks[i].key = tasks[j].key => i = j
      BY <1>1, <1>2, <1>10 DEF Ordered
    <2>4. \A i \in 1 .. N : \A k \in Producers(tasks[i]) : \E j \in 1 .. i - 1 : tasks[j].key = k
      BY <2>2
    <2> QED
      BY <1>10, <2>3, <2>4, Zenon DEF Ordered
  <1>14. PlanGood(tasks)
    BY <1>11, <1>12, <1>13 DEF PlanGood
  <1>15. Keys(tasks) = Keys(order)
    BY <1>2, <1>10 DEF Keys
  <1> QED
    BY <1>4, <1>14, <1>15 DEF tasks, acc, order


-----------------------------------------------------------------------------
(* A handler returns a sequence: of one result or none, or one result of   *)
(* each artifact it was given.                                             *)
Single(results) == results = Refused \/ \E g : results = <<g>>

LEMMA SingleResults ==
    /\ \A g : Single(Only(g))
    /\ \A h, g : Single(If(h, Only(g)))
    /\ Single(Refused)
  BY DEF Single, Only, If

LEMMA ConvertedSingle ==
    ASSUME NEW a, NEW source, NEW target
    PROVE  Single(DatumConverted(a, source, target))
  <1> DEFINE g == Told(Gdf(a), source)
             lonlat == Relabelled(g, Lonlat)
             one == ToGcj02(lonlat)
             two == EnsureWgs84([lonlat EXCEPT !.label = TRUE])
             three == ToCrs(Relabelled(g, Physical(source)), Physical(target))
  <1>1. DatumConverted(a, source, target) =
            If(~Splits(source, target),
               IF Physical(source) = Physical(target) THEN Only(g)
               ELSE CASE target = "GCJ02" -> Only(one)
                      [] source = "GCJ02" -> Only(two)
                      [] OTHER -> Only(three))
    BY DEF DatumConverted
  <1>2. CASE Splits(source, target)
    BY <1>1, <1>2, SingleResults DEF If
  <1>3. CASE ~Splits(source, target)
    <2> HIDE DEF g, one, two, three
    <2>1. CASE Physical(source) = Physical(target)
      BY <1>1, <1>3, <2>1, SingleResults DEF If
    <2>2. CASE Physical(source) # Physical(target) /\ target = "GCJ02"
      <3>1. source # "GCJ02"
        BY <2>2
      <3>2. DatumConverted(a, source, target) = Only(one)
        BY <1>1, <1>3, <2>2, <3>1 DEF If
      <3> QED
        BY <3>2, SingleResults
    <2>3. CASE Physical(source) # Physical(target) /\ target # "GCJ02"
      <3>1. DatumConverted(a, source, target) = Only(two) \/ DatumConverted(a, source, target) = Only(three)
        BY <1>1, <1>3, <2>3 DEF If
      <3> QED
        BY <3>1, SingleResults
    <2> QED
      BY <2>1, <2>2, <2>3
  <1> QED
    BY <1>2, <1>3

LEMMA ReadSingle ==
    ASSUME NEW a
    PROVE  Single(VectorRead(a)) /\ Single(RasterRead(a))
  BY SingleResults DEF VectorRead, RasterRead, If

LEMMA AnalysedSingle ==
    ASSUME NEW op, NEW layers, NEW crs
    PROVE  Single(Analysed(op, layers, crs))
  BY SingleResults DEF Analysed, Selected, Reshaped

LEMMA OthersSingle ==
    /\ \A a, target : Single(Reprojected(a, target)) /\ Single(RasterReprojected(a, target))
    /\ \A pair, source, target : Single(PairConverted(pair, source, target))
    /\ \A a, crs : Single(Rasterised(a, crs)) /\ Single(PointsRead(crs))
    /\ \A a : Single(Outlined(a))
    /\ \A a, format : Single(Exported(a, format))
    /\ \A arts : Single(Merged(arts))
  <1>1. \A a, target : Single(Reprojected(a, target)) /\ Single(RasterReprojected(a, target))
    BY SingleResults DEF Reprojected, RasterReprojected
  <1>2. \A pair, source, target : Single(PairConverted(pair, source, target))
    BY SingleResults DEF PairConverted
  <1>3. \A a, crs : Single(Rasterised(a, crs)) /\ Single(PointsRead(crs))
    BY SingleResults DEF Rasterised, PointsRead
  <1>4. \A a : Single(Outlined(a))
    BY SingleResults DEF Outlined
  <1>5. \A a, format : Single(Exported(a, format))
    BY SingleResults DEF Exported
  <1>6. \A arts : Single(Merged(arts))
    BY SingleResults DEF Merged, Reshaped
  <1> QED
    BY <1>1, <1>2, <1>3, <1>4, <1>5, <1>6

LEMMA OwnSequence ==
    ASSUME NEW B, NEW s \in Seq(B)
    PROVE  s \in Seq(ToSet(s))
  <1>1. s = [i \in 1 .. Len(s) |-> s[i]] /\ Len(s) \in Nat
    OBVIOUS
  <1> QED
    BY <1>1, SequenceOf

LEMMA EachSequence ==
    ASSUME NEW n \in Nat, NEW results, results = [i \in 1 .. n |-> results[i]],
           \A i \in 1 .. n : Single(results[i])
    PROVE  Each(results) \in Seq(ToSet(Each(results)))
  <1> DEFINE B == UNION {ToSet(results[i]) : i \in 1 .. n}
  <1>1. CASE Refused \in ToSet(results)
    BY <1>1 DEF Each, If, Refused, ToSet
  <1>2. CASE n = 0 /\ Refused \notin ToSet(results)
    <2>1. results = <<>>
      BY <1>2
    <2>2. Each(results) = <<>>
      BY <1>2, <2>1 DEF Each, If, FlattenSeq
    <2> QED
      BY <2>2 DEF ToSet
  <1>3. CASE n # 0 /\ Refused \notin ToSet(results)
    <2>1. DOMAIN results = 1 .. n /\ 1 \in 1 .. n
      BY <1>3
    <2>2. \A i \in 1 .. n : \E g : results[i] = <<g>>
      BY <1>3, <2>1 DEF ToSet, Single
    <2>3. \A i \in 1 .. n : results[i] \in Seq(B) /\ results[i] # <<>>
      <3> TAKE i \in 1 .. n
      <3>1. PICK g : results[i] = <<g>>
        BY <2>2
      <3>2. g \in ToSet(results[i])
        BY <3>1 DEF ToSet
      <3>3. g \in B
        BY <3>2
      <3> HIDE DEF B
      <3>4. <<g>> \in Seq(B) /\ <<g>> # <<>>
        BY <3>3
      <3> QED
        BY <3>1, <3>4
    <2> HIDE DEF B
    <2>4. results \in Seq(Seq(B)) /\ results # <<>>
      BY <2>1, <2>3
    <2>5. FlattenSeq(results) \in Seq(B)
      BY <2>1, <2>3, <2>4, FlattenTyped
    <2>6. Each(results) = FlattenSeq(results)
      BY <1>3 DEF Each, If
    <2> QED
      BY <2>5, <2>6, OwnSequence
  <1> QED
    BY <1>1, <1>2, <1>3

LEMMA SingleSequence ==
    ASSUME NEW results, Single(results)
    PROVE  results \in Seq(ToSet(results))
  <1>1. \A g : <<g>> \in Seq({g}) /\ <<>> \in Seq({})
    OBVIOUS
  <1> QED
    BY <1>1, OwnSequence DEF Single, Refused

LEMMA HandledSequence ==
    ASSUME NEW op \in Operations, op # "publish_file", NEW given, NEW params, Fed(op, given)
    PROVE  Handle(op, given, params) \in Seq(ToSet(Handle(op, given, params)))
  <1> DEFINE results == Handle(op, given, params)
             tool == Contract(op)
  <1>1. ASSUME op \in {"vector.reproject_many", "raster.reproject_many"}
        PROVE  results \in Seq(ToSet(results))
    <2> DEFINE p == IF op = "vector.reproject_many" THEN "vector" ELSE "raster"
               arts == given[p]
               vectors == [i \in DOMAIN arts |-> Reprojected(arts[i], params.target_crs)]
               rasters == [i \in DOMAIN arts |-> RasterReprojected(arts[i], params.target_crs)]
    <2>1. Suits(op, tool)
      BY ContractSuits
    <2>2. p \in DOMAIN tool.ins /\ tool.ins[p].required
      BY <1>1, <2>1 DEF Suits, SuitsMoves, TakesMany, Offers
    <2>3. arts \in Seq(ToSet(arts))
      BY <2>2 DEF Fed
    <2>4. DOMAIN arts = 1 .. Len(arts) /\ Len(arts) \in Nat
      BY <2>3
    <2>5. op = "vector.reproject_many" => results = Each(vectors)
      BY DEF Handle
    <2>6. op = "raster.reproject_many" => results = Each(rasters)
      BY DEF Handle
    <2> HIDE DEF results
    <2>7. Each(vectors) \in Seq(ToSet(Each(vectors)))
      <3>1. \A i \in 1 .. Len(arts) : Single(vectors[i])
        BY <2>4, OthersSingle
      <3>2. vectors = [i \in 1 .. Len(arts) |-> vectors[i]]
        BY <2>4
      <3> HIDE DEF vectors
      <3> QED
        BY <2>4, <3>1, <3>2, EachSequence
    <2>8. Each(rasters) \in Seq(ToSet(Each(rasters)))
      <3>1. \A i \in 1 .. Len(arts) : Single(rasters[i])
        BY <2>4, OthersSingle
      <3>2. rasters = [i \in 1 .. Len(arts) |-> rasters[i]]
        BY <2>4
      <3> HIDE DEF rasters
      <3> QED
        BY <2>4, <3>1, <3>2, EachSequence
    <2> HIDE DEF vectors, rasters
    <2> QED
      BY <1>1, <2>5, <2>6, <2>7, <2>8
  <1>2. CASE op = "vector.merge"
    BY <1>2, OthersSingle, SingleSequence DEF Handle
  <1>3. CASE op = "vector.reproject"
    BY <1>3, OthersSingle, SingleSequence DEF Handle
  <1>4. CASE op = "vector.convert_datum"
    BY <1>4, ConvertedSingle, SingleSequence DEF Handle
  <1>5. CASE op = "coordinate.convert"
    BY <1>5, OthersSingle, SingleResults, SingleSequence DEF Handle, If
  <1>6. CASE op = "geo.transform"
    BY <1>6, OthersSingle, SingleSequence DEF Handle
  <1>7. CASE op \in {"geo.geocode", "poi.search"}
    BY <1>7, SingleResults, SingleSequence DEF Handle
  <1>8. CASE op = "vector.isochrone"
    BY <1>8, SingleResults, SingleSequence DEF Handle
  <1>9. CASE op = "map.build"
    BY <1>9, SingleResults, SingleSequence DEF Handle
  <1>10. CASE op = "file.export"
    BY <1>10, OthersSingle, SingleSequence DEF Handle
  <1>11. CASE op = "io.load_vector"
    BY <1>11, ReadSingle, SingleSequence DEF Handle
  <1>12. CASE op = "io.load_raster"
    BY <1>12, ReadSingle, SingleSequence DEF Handle
  <1>13. CASE op = "io.load_csv"
    BY <1>13, SingleResults, SingleSequence DEF Handle
  <1>14. CASE op = "io.csv_to_points"
    BY <1>14, OthersSingle, SingleSequence DEF Handle
  <1>15. CASE op = "io.read_upload"
    BY <1>15, SingleResults, SingleSequence DEF Handle
  <1>16. CASE op = "raster.reproject"
    BY <1>16, OthersSingle, SingleSequence DEF Handle
  <1>17. CASE op = "raster.vectorize"
    BY <1>17, OthersSingle, SingleSequence DEF Handle
  <1>18. CASE op = "raster.contour"
    BY <1>18, OthersSingle, SingleResults, SingleSequence DEF Handle, If
  <1>19. CASE op = "raster.polygonize"
    BY <1>19, OthersSingle, SingleSequence DEF Handle
  <1>20. CASE op = "code.execute"
    BY <1>20, SingleResults, SingleSequence DEF Handle
  <1>21. CASE op \notin Named1
    <2> DEFINE layers == [i \in DOMAIN LayersOf(op) |-> Gdf(given[LayersOf(op)[i]][1])]
               crs == VectorCrs(given[LayersOf(op)[1]][1])
    <2>1. results = IF tool.out.types = {"Table"} THEN Only(Unplaced("Table"))
                    ELSE IF tool.out.types = {"Raster"} THEN Only(given["raster"][1].data)
                    ELSE Analysed(op, layers, crs)
      BY <1>21 DEF Handle, Named1, Following
    <2> HIDE DEF layers, crs
    <2>2. Single(results)
      BY <2>1, SingleResults, AnalysedSingle
    <2> QED
      BY <2>2, SingleSequence
  <1> QED
    BY <1>1, <1>2, <1>3, <1>4, <1>5, <1>6, <1>7, <1>8, <1>9, <1>10, <1>11, <1>12, <1>13, <1>14,
       <1>15, <1>16, <1>17, <1>18, <1>19, <1>20, <1>21 DEF Named1, Following


-----------------------------------------------------------------------------
(* A plan, of whatever the language model came up with, is good.           *)
LEMMA NoPlanGood == PlanGood(<<>>)
  <1>1. Keys(<<>>) = {} /\ ToSet(<<>>) = {} /\ DOMAIN <<>> = {}
    BY DEF Keys, ToSet
  <1>2. Ordered(<<>>, <<>>)
    BY DEF Ordered
  <1> QED
    BY <1>1, <1>2 DEF PlanGood

LEMMA CompiledPlanGood ==
    ASSUME NEW d, StepsFine(d.steps), Compile(d, Described).tasks # <<>>
    PROVE  PlanGood(Compile(d, Described).tasks)
  <1> DEFINE steps == Canonical(d.steps)
             built == Tasks(steps, Described, d.goal)
             before == DraftFault(d, Described) ?? FirstFault(PortsFault, steps) ?? GraphFault(steps)
             code == before ?? built.fault ?? DeliveryFault(built.tasks, d.goal)
  <1>1. Compile(d, Described) = Verdict(code, built.tasks)
    BY DEF Compile
  <1> HIDE DEF code, built
  <1>2. code = "none" /\ Compile(d, Described).tasks = built.tasks
    BY <1>1 DEF Verdict
  <1>3. before = "none" /\ built.fault = "none"
    BY <1>2, NoFault DEF code
  <1>4. DraftFault(d, Described) = "none" /\ FirstFault(PortsFault, steps) = "none"
    BY <1>3, NoFault
  <1> HIDE DEF steps
  <1>5. \A s \in ToSet(d.steps) : Known(s.op)
    BY <1>4, NoFault DEF DraftFault, When
  <1>6. /\ StepsFine(steps) /\ DOMAIN steps = DOMAIN d.steps
        /\ \A i \in DOMAIN d.steps : steps[i].op = d.steps[i].op
    BY CanonicalSteps DEF steps
  <1>7. Compilable(steps)
    BY <1>4, <1>5, <1>6 DEF Compilable, ToSet
  <1>8. PlanGood(built.tasks)
    BY <1>3, <1>7, TasksGood DEF built
  <1> QED
    BY <1>2, <1>8

LEMMA JudgedGood ==
    ASSUME NEW raw \in Drafts
    PROVE  PlanGood(Judged(Bounded(raw), Described).tasks)
  <1> DEFINE d == Bounded(raw)
  <1>1. \A code : Verdict(code, <<>>).tasks = <<>>
    BY DEF Verdict
  <1>2. CASE BoundaryFault(d, Described) # "none"
    BY <1>1, <1>2, NoPlanGood DEF Judged
  <1>3. CASE BoundaryFault(d, Described) = "none"
    <2>1. StepsFine(d.steps)
      BY <1>3, BoundedSteps
    <2> HIDE DEF d
    <2>2. Judged(d, Described).tasks = <<>> \/ Judged(d, Described).tasks = Compile(d, Described).tasks
      BY <1>1, <1>3 DEF Judged
    <2>3. PlanGood(Judged(d, Described).tasks)
      BY <2>1, <2>2, NoPlanGood, CompiledPlanGood
    <2> QED
      BY <2>3 DEF d
  <1> QED
    BY <1>2, <1>3

-----------------------------------------------------------------------------
(* The inductive invariant: an artifact carries the metadata its task was  *)
(* frozen with, and its numbers are there.                                 *)
PublishedSound(k) ==
    LET out == Task(k).out
    IN  /\ published[k] \in Seq(ToSet(published[k])) /\ published[k] # <<>>
        /\ \A i \in DOMAIN published[k] :
                LET a == published[k][i]
                IN  Sound(a) /\ a.type = out.type /\ a.crs = out.crs /\ a.declared = "none"

WorkflowIInv ==
    /\ talk.phase # "over" => plan.tasks = <<>> /\ published = <<>>
    /\ PlanGood(plan.tasks)
    /\ \A k \in DOMAIN published : k \in Keys(plan.tasks) /\ PublishedSound(k)

(* What a reference of a task stands for when the task runs.               *)
Promised(outputs, task) ==
    /\ TaskGood(outputs, task)
    /\ \A k \in Producers(task) :
            k \in DOMAIN published /\ PublishedSound(k) /\ outputs[k] = Task(k).out

Sources == {Library[id] : id \in DOMAIN Library} \cup UNION {ToSet(published[k]) : k \in DOMAIN published}

LEMMA ResolvedSound ==
    ASSUME NEW outputs, NEW task, Promised(outputs, task),
           NEW i \in DOMAIN task.inputs, NEW j \in DOMAIN task.inputs[i].refs
    PROVE  LET r == task.inputs[i].refs[j]
               types == Contract(task.op).ins[task.inputs[i].port].types
           IN  /\ Resolved(r) \in Seq({a \in Sources : Sound(a) /\ a.type \in types})
               /\ Resolved(r) # <<>> /\ EffectiveCrs(Resolved(r)[1]) = RefCrs(outputs, r)
               /\ RefCrs(outputs, r) \in Crs \cup {"none"}
  <1> DEFINE r == task.inputs[i].refs[j]
             types == Contract(task.op).ins[task.inputs[i].port].types
             A == {a \in Sources : Sound(a) /\ a.type \in types}
  <1>1. /\ BindingFine(task.inputs[i])
        /\ RefChecked(r, Contract(task.op).ins[task.inputs[i].port], outputs)
    BY DEF Promised, TaskGood, InputsGood
  <1>2. r \in ToSet(task.inputs[i].refs)
    BY DEF ToSet
  <1>3. r.kind \in {"artifact", "task"} /\ (r.kind = "artifact" => r.of \in DOMAIN Library)
    BY <1>1, <1>2 DEF BindingFine
  <1>4. r.kind = "task" => r.of \in Producers(task)
    BY <1>2 DEF Producers, Refs
  <1>5. RefChecked(r, Contract(task.op).ins[task.inputs[i].port], outputs) =>
            /\ r.kind = "artifact" => Library[r.of].type \in types
            /\ r.kind = "task" => outputs[r.of].type \in types
    BY DEF RefChecked
  <1> HIDE DEF r, types
  <1>6. CASE r.kind = "artifact"
    <2> DEFINE a == Library[r.of]
    <2>1. Sound(a) /\ a \in Sources
      BY <1>3, <1>6, LibraryAssumption DEF Sources
    <2>2. a.type \in types
      BY <1>1, <1>5, <1>6
    <2>3. Resolved(r) = <<a>> /\ RefCrs(outputs, r) = EffectiveCrs(a)
      BY <1>6 DEF Resolved, RefCrs
    <2>4. EffectiveCrs(a) \in Crs \cup {"none"}
      BY <2>1 DEF Sound, EffectiveCrs
    <2> HIDE DEF a
    <2>5. <<a>> \in Seq(A) /\ <<a>> # <<>> /\ <<a>>[1] = a
      BY <2>1, <2>2
    <2> QED
      BY <2>3, <2>4, <2>5 DEF r, types
  <1>7. CASE r.kind = "task"
    <2> DEFINE k == r.of
               made == published[k]
    <2>1. k \in DOMAIN published /\ PublishedSound(k) /\ outputs[k] = Task(k).out
      BY <1>4, <1>7 DEF Promised
    <2>2. outputs[k].type \in types
      BY <1>1, <1>5, <1>7
    <2>3. /\ made \in Seq(ToSet(made)) /\ made # <<>>
          /\ \A n \in DOMAIN made : /\ Sound(made[n]) /\ made[n].type = outputs[k].type
                                    /\ made[n].crs = outputs[k].crs /\ made[n].declared = "none"
      BY <2>1 DEF PublishedSound
    <2>4. ToSet(made) \subseteq Sources
      BY <2>1 DEF Sources
    <2>5. Resolved(r) = made \/ Resolved(r) = <<made[1]>>
      BY <1>7 DEF Resolved
    <2>6. RefCrs(outputs, r) = outputs[k].crs
      BY <1>7 DEF RefCrs
    <2> HIDE DEF made, k
    <2>7. 1 \in DOMAIN made /\ DOMAIN made = 1 .. Len(made) /\ Len(made) \in Nat
      BY <2>3
    <2>8. \A n \in DOMAIN made : made[n] \in A
      BY <2>2, <2>3, <2>4 DEF ToSet
    <2>9. made[1].crs \in Crs \cup {"none"} /\ EffectiveCrs(made[1]) = made[1].crs
      BY <2>3, <2>7 DEF Sound, EffectiveCrs
    <2>10. made[1].crs = outputs[k].crs
      BY <2>3, <2>7
    <2> HIDE DEF A
    <2>11. made \in Seq(A)
      BY <2>3, <2>7, <2>8
    <2>12. <<made[1]>> \in Seq(A) /\ <<made[1]>> # <<>> /\ <<made[1]>>[1] = made[1]
      BY <2>7, <2>8
    <2>13. Resolved(r) \in Seq(A) /\ Resolved(r) # <<>> /\ Resolved(r)[1] = made[1]
      BY <2>3, <2>5, <2>11, <2>12
    <2> QED
      BY <2>6, <2>9, <2>10, <2>13 DEF r, types, A
  <1> QED
    BY <1>3, <1>6, <1>7


LEMMA GivenIs ==
    ASSUME NEW outputs, NEW task, Promised(outputs, task), NEW i \in DOMAIN task.inputs
    PROVE  LET b == task.inputs[i]
               port == Contract(task.op).ins[b.port]
               given == Given(task)[b.port]
           IN  /\ given \in Seq({a \in Sources : Sound(a) /\ a.type \in port.types})
               /\ Len(b.refs) >= 1 => given # <<>>
               /\ Len(b.refs) = 1 => EffectiveCrs(given[1]) = RefCrs(outputs, b.refs[1])
  <1> DEFINE b == task.inputs[i]
             types == Contract(task.op).ins[b.port].types
             A == {a \in Sources : Sound(a) /\ a.type \in types}
             given == Given(task)[b.port]
             seqs == [j \in DOMAIN b.refs |-> Resolved(b.refs[j])]
             n == Len(b.refs)
  <1>1. b = CHOOSE x \in ToSet(task.inputs) : x.port = b.port
    <2>1. b \in ToSet(task.inputs)
      BY DEF ToSet
    <2>2. \A x \in ToSet(task.inputs) : x.port = b.port => x = b
      BY DEF ToSet, Promised, TaskGood, InputsGood
    <2> HIDE DEF b
    <2> QED
      BY <2>1, <2>2
  <1>2. given = FlattenSeq(seqs)
    <2>1. b.port \in {task.inputs[k].port : k \in DOMAIN task.inputs}
      OBVIOUS
    <2> DEFINE chosen == CHOOSE x \in ToSet(task.inputs) : x.port = b.port
    <2>2. given = FlattenSeq([j \in DOMAIN chosen.refs |-> Resolved(chosen.refs[j])])
      BY <2>1 DEF Given
    <2>3. chosen = b
      BY <1>1
    <2> HIDE DEF b, chosen, given
    <2> QED
      BY <2>2, <2>3
  <1>3. BindingFine(b)
    BY DEF Promised, TaskGood, InputsGood
  <1>4. n \in Nat /\ DOMAIN b.refs = 1 .. n
    BY <1>3 DEF BindingFine
  <1>5. \A j \in 1 .. n : /\ Resolved(b.refs[j]) \in Seq(A) /\ Resolved(b.refs[j]) # <<>>
                          /\ EffectiveCrs(Resolved(b.refs[j])[1]) = RefCrs(outputs, b.refs[j])
    BY <1>4, ResolvedSound
  <1> HIDE DEF given, A, b, n
  <1>6. /\ DOMAIN seqs = 1 .. n /\ seqs = [j \in 1 .. n |-> seqs[j]]
        /\ \A j \in 1 .. n : seqs[j] = Resolved(b.refs[j])
    BY <1>4
  <1> HIDE DEF seqs
  <1>7. seqs \in Seq(Seq(A)) /\ Len(seqs) = n /\ seqs \in Seq(ToSet(seqs))
    <2>1. seqs \in Seq(Seq(A)) /\ Len(seqs) = n
      BY <1>4, <1>5, <1>6
    <2> QED
      BY <2>1, OwnSequence
  <1>8. CASE n = 0
    <2>1. seqs = <<>>
      BY <1>7, <1>8
    <2>2. given = <<>>
      BY <1>2, <2>1, FlattenNone
    <2> QED
      BY <1>8, <2>2 DEF given, A, b, n
  <1>9. CASE n # 0
    <2>1. seqs # <<>> /\ \A j \in DOMAIN seqs : seqs[j] # <<>>
      BY <1>4, <1>5, <1>6, <1>9
    <2>2. given \in Seq(A) /\ given # <<>>
      BY <1>2, <1>7, <2>1, FlattenTyped
    <2>3. ASSUME n = 1
          PROVE  EffectiveCrs(given[1]) = RefCrs(outputs, b.refs[1])
      <3>1. given = seqs[1]
        BY <1>2, <1>7, <2>3, FlattenOne
      <3>2. 1 \in 1 .. n
        BY <2>3
      <3> QED
        BY <1>5, <1>6, <3>1, <3>2
    <2> QED
      BY <2>2, <2>3 DEF given, A, b, n
  <1> QED
    BY <1>8, <1>9

LEMMA GivenFed ==
    ASSUME NEW outputs, NEW task, Promised(outputs, task)
    PROVE  Fed(task.op, Given(task))
  <1> DEFINE ins == Contract(task.op).ins
             given == Given(task)
  <1>1. DOMAIN given = {task.inputs[i].port : i \in DOMAIN task.inputs}
    BY DEF Given
  <1>2. \A p \in DOMAIN ins : ins[p].required => p \in DOMAIN given
    BY <1>1 DEF Promised, TaskGood, InputsGood
  <1>3. ASSUME NEW p \in DOMAIN given
        PROVE  /\ p \in DOMAIN ins /\ given[p] \in Seq(ToSet(given[p]))
               /\ ~ins[p].many \/ ins[p].min = 1 => 1 \in DOMAIN given[p]
               /\ \A i \in DOMAIN given[p] : Sound(given[p][i]) /\ given[p][i].type \in ins[p].types
    <2>1. PICK i \in DOMAIN task.inputs : task.inputs[i].port = p
      BY <1>1
    <2> DEFINE b == task.inputs[i]
               A == {a \in Sources : Sound(a) /\ a.type \in ins[p].types}
    <2>2. BindingChecked(b, ins) /\ BindingFine(b)
      BY DEF Promised, TaskGood, InputsGood
    <2>3. given[p] \in Seq(A) /\ (Len(b.refs) >= 1 => given[p] # <<>>)
      BY <2>1, GivenIs
    <2>4. p \in DOMAIN ins /\ (~ins[p].many \/ ins[p].min = 1 => Len(b.refs) >= 1)
      <3> DEFINE n == Len(b.refs)
                 port == ins[p]
      <3>1. p \in DOMAIN ins /\ (~port.many => n = 1) /\ (port.min = 1 => n >= 1)
        BY <2>1, <2>2 DEF BindingChecked
      <3> HIDE DEF n, port
      <3>2. ~port.many \/ port.min = 1 => n >= 1
        BY <3>1
      <3> QED
        BY <3>1, <3>2 DEF n, port
    <2> HIDE DEF given, b
    <2>5. given[p] \in Seq(ToSet(given[p]))
      BY <2>3, OwnSequence
    <2>6. \A j \in DOMAIN given[p] : given[p][j] \in A
      BY <2>3
    <2>7. given[p] # <<>> => 1 \in DOMAIN given[p]
      BY <2>3
    <2> QED
      BY <2>3, <2>4, <2>5, <2>6, <2>7
  <1> QED
    BY <1>2, <1>3 DEF Fed

LEMMA RefCrsNamed ==
    ASSUME NEW outputs, NEW task, Promised(outputs, task), NEW r \in Refs(task)
    PROVE  RefCrs(outputs, r) \in Crs \cup {"none"}
  <1>1. PICK i \in DOMAIN task.inputs : r \in ToSet(task.inputs[i].refs)
    BY DEF Refs
  <1>2. PICK j \in DOMAIN task.inputs[i].refs : r = task.inputs[i].refs[j]
    BY <1>1 DEF ToSet
  <1> QED
    BY <1>2, ResolvedSound

LEMMA FrozenFor ==
    ASSUME NEW outputs, NEW task, Promised(outputs, task)
    PROVE  Frozen(task.op, Given(task), task.params, task.out)
  <1> DEFINE op == task.op
             tool == Contract(op)
             params == task.params
             crs == task.out.crs
  <1>1. TaskGood(outputs, task) /\ op \in Operations
    BY DEF Promised, TaskGood
  <1>2. Suits(op, tool)
    BY <1>1, ContractSuits
  <1>3. task.out.type \in tool.out.types
    BY <1>1 DEF TaskGood
  <1>4. FrozenCrs(outputs, task) /\ ParamsGood(task)
    BY <1>1 DEF TaskGood
  <1>5. op \in {"io.csv_to_points", "raster.vectorize"} => crs = params.crs
    BY <1>4 DEF FrozenCrs
  <1>6. op \notin {"io.csv_to_points", "raster.vectorize"} => crs \in Crs \cup {"none"}
    BY <1>4, RefCrsNamed DEF FrozenCrs
  <1>7. "target_crs" \in DOMAIN tool.params => params.target_crs \in Crs /\ crs = params.target_crs
    BY <1>2, <1>4 DEF Suits, SuitsParams, ParamsGood, FrozenCrs
  <1>8. "source_crs" \in DOMAIN tool.params => params.source_crs \in Crs
    BY <1>2, <1>4 DEF Suits, SuitsParams, ParamsGood
  <1>9. op = "geo.geocode" => crs = "GCJ02"
    BY <1>4 DEF FrozenCrs
  <1>10. ASSUME op \in Following
         PROVE  Follows(op, Given(task), params, crs)
    <2>1. DOMAIN tool.ins = {Source(op)} /\ tool.ins[Source(op)].required /\ ~tool.ins[Source(op)].many
      BY <1>2, <1>10 DEF Suits, SuitsSource, Takes
    <2>2. PICK i \in DOMAIN task.inputs : task.inputs[i].port = Source(op)
      BY <1>1, <2>1 DEF TaskGood, InputsGood
    <2>3. Len(task.inputs[i].refs) = 1
      BY <1>1, <2>1, <2>2 DEF TaskGood, InputsGood, BindingChecked
    <2>4. EffectiveCrs(Given(task)[Source(op)][1]) = RefCrs(outputs, task.inputs[i].refs[1])
      BY <2>2, <2>3, GivenIs
    <2>5. crs = IF op = "file.export" /\ params.format = "geojson" THEN "EPSG:4326"
                ELSE RefCrs(outputs, task.inputs[i].refs[1])
      BY <1>4, <1>10 DEF FrozenCrs
    <2> QED
      BY <2>4, <2>5 DEF Follows
  <1> QED
    BY <1>3, <1>5, <1>6, <1>7, <1>8, <1>9, <1>10 DEF Frozen

(* What a task returns, when nothing is found wrong with it.               *)
LEMMA ExecutedSound ==
    ASSUME NEW outputs, NEW task, Promised(outputs, task), NEW luck, Outcome(task, luck).code = "none"
    PROVE  LET results == Outcome(task, luck).results
           IN  /\ results \in Seq(ToSet(results)) /\ results # <<>>
               /\ AllSound(task.out, results)
  <1> DEFINE given == Given(task)
             results == Handle(task.op, given, task.params)
  <1>1. Outcome(task, luck).results = results /\ TaskFault(task, luck, given, results) = "none"
    BY DEF Outcome
  <1>2. task.op \in Operations /\ task.op # "publish_file"
    BY DEF Promised, TaskGood
  <1>3. Fed(task.op, given) /\ Frozen(task.op, given, task.params, task.out)
    BY GivenFed, FrozenFor
  <1>4. results \in Seq(ToSet(results))
    BY <1>2, <1>3, HandledSequence
  <1> HIDE DEF results, given
  <1>5. /\ When(results = Refused, "TOOL_EXECUTION_FAILED") = "none"
        /\ When(~(\A g \in ToSet(results) : ExecutorAccepts(task.out, g)), "VALIDATION_FAILED") = "none"
        /\ When(~(\A g \in ToSet(results) : StoreAccepts(task.out, g)), "TOOL_EXECUTION_FAILED") = "none"
    BY <1>1, NoFault DEF TaskFault
  <1>6. results # <<>> /\ Accepted(task.out, results)
    BY <1>5 DEF When, Refused, Accepted, ToSet
  <1>7. AllSound(task.out, results)
    BY <1>2, <1>3, <1>6, HandledSound DEF results
  <1> QED
    BY <1>1, <1>4, <1>6, <1>7


-----------------------------------------------------------------------------
(* Every step keeps the invariant.                                         *)
LEMMA WorkflowInit == Init => WorkflowIInv
  <1> SUFFICES ASSUME Init
               PROVE  WorkflowIInv
    OBVIOUS
  <1>1. plan.tasks = <<>> /\ published = <<>>
    BY DEF Init, NoPlan
  <1>2. DOMAIN published = {}
    BY <1>1
  <1> QED
    BY <1>1, <1>2, NoPlanGood DEF WorkflowIInv

(* A step that keeps the plan and what is published.                       *)
LEMMA ConversationKeeps ==
    ASSUME WorkflowIInv, UNCHANGED <<plan, published>>, talk'.phase # "over" => talk.phase # "over"
    PROVE  WorkflowIInv'
  <1>1. \A k : PublishedSound(k) => PublishedSound(k)'
    BY DEF PublishedSound, Task
  <1>2. PlanGood(plan.tasks)'
    BY DEF WorkflowIInv
  <1> QED
    BY <1>1, <1>2 DEF WorkflowIInv

(* A step that ends the conversation with a plan.                          *)
LEMMA PlanArrives ==
    ASSUME WorkflowIInv, talk.phase # "over", talk' = Over, UNCHANGED published,
           PlanGood(plan'.tasks)
    PROVE  WorkflowIInv'
  <1>1. published' = <<>>
    BY DEF WorkflowIInv
  <1>2. DOMAIN published' = {}
    BY <1>1
  <1>3. talk'.phase = "over"
    BY DEF Over, Talk
  <1>4. PlanGood(plan.tasks)'
    OBVIOUS
  <1> QED
    BY <1>2, <1>3, <1>4 DEF WorkflowIInv

LEMMA SubmitKeeps ==
    ASSUME WorkflowIInv, NEW raw \in Drafts, Submit(raw)
    PROVE  WorkflowIInv'
  <1> DEFINE result == Judged(Bounded(raw), Described)
  <1>1. PlanGood(result.tasks)
    BY JudgedGood
  <1>2. talk.phase = "answered" /\ UNCHANGED published
    BY DEF Submit
  <1>3. \/ Repair /\ UNCHANGED plan
        \/ talk' = Over /\ plan' = result
    BY DEF Submit
  <1> HIDE DEF result
  <1>4. CASE Repair /\ UNCHANGED plan
    BY <1>2, <1>4, ConversationKeeps
  <1>5. CASE talk' = Over /\ plan' = result
    BY <1>1, <1>2, <1>5, PlanArrives
  <1> QED
    BY <1>3, <1>4, <1>5

LEMMA ExecuteKeeps ==
    ASSUME WorkflowIInv, NEW key, NEW luck, Execute(key, luck)
    PROVE  WorkflowIInv'
  <1> DEFINE task == Task(key)
             end == Outcome(task, luck)
             arts == [i \in DOMAIN end.results |-> Artifact(task.out, end.results[i])]
  <1>1. /\ key \in Ready /\ UNCHANGED <<talk, plan>>
        /\ \/ end.code = "none" /\ published' = With(published, key, arts)
           \/ UNCHANGED published
    BY DEF Execute
  <1>2. /\ key \in Keys(plan.tasks) /\ key \notin DOMAIN published
        /\ Producers(task) \subseteq DOMAIN published
    BY <1>1 DEF Ready, Open
  <1>3. task \in ToSet(plan.tasks) /\ task.key = key
    BY <1>2, ByKeyIs DEF Task
  <1>4. CASE UNCHANGED published
    BY <1>1, <1>4, ConversationKeeps
  <1>5. CASE end.code = "none" /\ published' = With(published, key, arts)
    <2>1. PICK outputs :
            /\ DOMAIN outputs = Keys(plan.tasks)
            /\ \A t \in ToSet(plan.tasks) : outputs[t.key] = t.out /\ TaskGood(outputs, t)
      BY DEF WorkflowIInv, PlanGood
    <2>2. \A k \in DOMAIN published :
            k \in Keys(plan.tasks) /\ PublishedSound(k) /\ outputs[k] = Task(k).out
      BY <2>1, ByKeyIs DEF WorkflowIInv, Task
    <2>3. Promised(outputs, task)
      BY <1>2, <1>3, <2>1, <2>2 DEF Promised
    <2> DEFINE results == end.results
    <2>4. results \in Seq(ToSet(results)) /\ results # <<>> /\ AllSound(task.out, results)
      BY <1>5, <2>3, ExecutedSound
    <2> HIDE DEF task, end
    <2>5. DOMAIN results = 1 .. Len(results) /\ Len(results) \in Nat /\ 1 \in DOMAIN results
      BY <2>4
    <2>6. \A i \in DOMAIN results :
            /\ Sound(arts[i]) /\ arts[i].type = task.out.type
            /\ arts[i].crs = task.out.crs /\ arts[i].declared = "none"
      BY <2>4 DEF AllSound, Artifact
    <2>7. DOMAIN arts = DOMAIN results /\ arts = [i \in 1 .. Len(results) |-> arts[i]]
      BY <2>5
    <2> HIDE DEF results, arts
    <2>8. arts \in Seq(ToSet(arts)) /\ arts # <<>>
      BY <2>5, <2>7, SequenceOf
    <2>9. /\ DOMAIN published' = DOMAIN published \cup {key} /\ published'[key] = arts
          /\ \A k \in DOMAIN published : published'[k] = published[k]
      BY <1>2, <1>5 DEF With
    <2>10. \A k : Task(k)' = Task(k)
      BY <1>1 DEF Task
    <2>11. PublishedSound(key)'
      BY <2>6, <2>7, <2>8, <2>9, <2>10 DEF PublishedSound, task
    <2>12. \A k \in DOMAIN published : PublishedSound(k)'
      BY <2>2, <2>9, <2>10 DEF PublishedSound
    <2>13. \A k \in DOMAIN published' : k \in Keys(plan.tasks)' /\ PublishedSound(k)'
      BY <1>1, <1>2, <2>2, <2>9, <2>11, <2>12
    <2>14. talk'.phase = "over"
      <3>1. plan.tasks # <<>>
        BY <1>2 DEF Keys
      <3> QED
        BY <1>1, <3>1 DEF WorkflowIInv
    <2>15. PlanGood(plan.tasks)'
      BY <1>1 DEF WorkflowIInv
    <2> QED
      BY <2>13, <2>14, <2>15 DEF WorkflowIInv
  <1> QED
    BY <1>1, <1>4, <1>5

LEMMA WorkflowNext ==
    WorkflowIInv /\ [Next]_vars => WorkflowIInv'
  <1> SUFFICES ASSUME WorkflowIInv, [Next]_vars
               PROVE  WorkflowIInv'
    OBVIOUS
  <1>1. CASE \E response \in Responses : Post(response) /\ UNCHANGED <<draft, plan, published, failed>>
    <2>1. talk.phase = "post"
      BY <1>1 DEF Post
    <2> QED
      BY <1>1, <2>1, ConversationKeeps
  <1>2. CASE Expire /\ UNCHANGED <<draft, plan, published, failed>>
    BY <1>2, ConversationKeeps DEF Expire
  <1>3. CASE \E d \in Drafts : Submit(d)
    BY <1>3, SubmitKeeps
  <1>4. CASE GiveUp
    <2>1. talk.phase # "over" /\ talk' = Over /\ UNCHANGED published /\ plan' = Verdict(talk.code, <<>>)
      BY <1>4 DEF GiveUp
    <2>2. plan'.tasks = <<>>
      BY <2>1 DEF Verdict
    <2> QED
      BY <2>1, <2>2, NoPlanGood, PlanArrives
  <1>5. CASE \E key \in Open, luck \in {"rows", "nothing", "error"} : Execute(key, luck)
    BY <1>5, ExecuteKeeps
  <1>6. CASE UNCHANGED vars
    BY <1>6, ConversationKeeps DEF vars
  <1> QED
    BY <1>1, <1>2, <1>3, <1>4, <1>5, <1>6 DEF Next

(* Sound metadata are true.                                                *)
LEMMA SoundIsTruthful ==
    ASSUME NEW a, Sound(a), a.declared = "none"
    PROVE  Truthful(a)
  BY DEF Sound, EffectiveCrs, Truthful

(* Whatever drafts the language model may come up with and whatever sound  *)
(* artifacts it starts from: the coordinates of every artifact a run       *)
(* publishes are in the system its metadata names, after any chain of      *)
(* loads, conversions, analyses and exports.  (Compiler.compile, the       *)
(* handlers, and the checks of the executor and the store.)                *)
THEOREM PublishedStaysTrue == Spec => []PublishedIsTrue
  <1>1. WorkflowIInv => PublishedIsTrue
    BY SoundIsTruthful DEF WorkflowIInv, PublishedSound, PublishedIsTrue
  <1> QED
    BY <1>1, WorkflowInit, WorkflowNext, PTL DEF Spec

-----------------------------------------------------------------------------
(* Every step of an accepted draft becomes a task, and every task gets its *)
(* turn unless something it reads from fails: of the open ancestors of a   *)
(* task, the first in the order of the plan has no open producer.          *)
LEMMA ManyIsBoolean ==
    \A op \in Operations : \A p \in DOMAIN Contract(op).ins : Contract(op).ins[p].many \in BOOLEAN
  <1> DEFINE Fine(e) == \A p \in DOMAIN e[2].ins : e[2].ins[p].many \in BOOLEAN
  <1>1. /\ \A t : Port(t).many \in BOOLEAN
        /\ Vector.many \in BOOLEAN /\ Raster.many \in BOOLEAN /\ Coordinate.many \in BOOLEAN
        /\ Pairs.many \in BOOLEAN /\ Many(Vector, 1).many \in BOOLEAN
        /\ Many(Vector, 0).many \in BOOLEAN /\ Many(Port("Raster"), 0).many \in BOOLEAN
        /\ Spare(Many(Port("File"), 0)).many \in BOOLEAN
    BY DEF Port, Vector, Raster, Coordinate, Pairs, Located, Many, Spare
  <1>2. \A e \in StrictVectorTools : Fine(e)
    BY <1>1, SMTT(60) DEF StrictVectorTools, Layers, Tool
  <1>3. \A e \in BuiltinTools : Fine(e)
    BY <1>1, SMTT(60) DEF BuiltinTools, RasterToRaster, Tool
  <1>4. \A e \in PublicTools : Fine(e)
    BY <1>1, SMTT(60) DEF PublicTools, RasterToRaster, LayerToLayer, NoPorts, Tool
  <1> HIDE DEF Fine
  <1>5. ASSUME NEW op \in Operations
        PROVE  \A p \in DOMAIN Contract(op).ins : Contract(op).ins[p].many \in BOOLEAN
    <2>1. PICK e \in Tools : Contract(op) = e[2]
      BY StrictToolsSuit, BuiltinToolsSuit, PublicToolsSuit
         DEF Operations, Tools, Contract, Registry, CanonicalName
    <2>2. Fine(e)
      BY <1>2, <1>3, <1>4 DEF Tools
    <2> QED
      BY <2>1, <2>2 DEF Fine
  <1> QED
    BY <1>5

(* An order that has as many steps as there are has all of them.           *)
LEMMA OrderIsComplete ==
    ASSUME NEW steps, StepsFine(steps), Len(Order(steps)) = Len(steps),
           Cardinality(Keys(steps)) = Len(steps)
    PROVE  Keys(Order(steps)) = Keys(steps)
  <1> DEFINE order == Order(steps)
             N == Len(steps)
             K == Keys(order)
  <1>1. Ordered(order, steps)
    BY OrderIsOrdered
  <1>2. N \in Nat /\ DOMAIN steps = 1 .. N
    BY DEF StepsFine
  <1>3. DOMAIN order = 1 .. N /\ \A i \in 1 .. N : order[i] \in ToSet(steps)
    BY <1>1 DEF Ordered
  <1>4. K \subseteq Keys(steps)
    BY <1>3 DEF Keys, ToSet
  <1> HIDE DEF order
  <1>5. IsFiniteSet(Keys(steps))
    <2> DEFINE f == [i \in 1 .. N |-> steps[i].key]
    <2>1. f \in Surjection(1 .. N, Keys(steps))
      BY <1>2 DEF Surjection, Keys
    <2>2. IsFiniteSet(1 .. N)
      BY <1>2, FS_Interval
    <2> QED
      BY <2>1, <2>2, FS_Surjection
  <1>6. Cardinality(K) = N
    <2> DEFINE f == [i \in 1 .. N |-> order[i].key]
    <2>1. f \in [1 .. N -> K] /\ f \in Surjection(1 .. N, K)
      BY <1>3 DEF Surjection, Keys
    <2>2. \A i, j \in 1 .. N : f[i] = f[j] => i = j
      BY <1>1, <1>3 DEF Ordered
    <2> HIDE DEF f
    <2>3. f \in Injection(1 .. N, K)
      BY <2>1, <2>2 DEF Injection, IsInjective
    <2>4. IsFiniteSet(1 .. N) /\ Cardinality(1 .. N) = N
      <3>1. 1 > N => N = 0
        BY <1>2
      <3>2. IF 1 > N THEN N = 0 ELSE N - 1 + 1 = N
        BY <1>2
      <3>3. N \in Int /\ 1 \in Int
        BY <1>2
      <3> HIDE DEF N
      <3>4. /\ IsFiniteSet(1 .. N)
            /\ Cardinality(1 .. N) = IF 1 > N THEN 0 ELSE N - 1 + 1
        BY <3>3, FS_Interval
      <3> QED
        BY <3>2, <3>4
    <2> HIDE DEF K, N
    <2> QED
      BY <2>1, <2>3, <2>4, FS_Surjection
  <1> HIDE DEF K, N
  <1>7. K = Keys(steps)
    BY <1>4, <1>5, <1>6, FS_Subset DEF N
  <1> QED
    BY <1>7 DEF K, order

LEMMA PlannedKeys ==
    ASSUME NEW d, StepsFine(d.steps), Compile(d, Described).verdict = "planned"
    PROVE  Keys(Compile(d, Described).tasks) = Keys(d.steps)
  <1> DEFINE steps == Canonical(d.steps)
             built == Tasks(steps, Described, d.goal)
             before == DraftFault(d, Described) ?? FirstFault(PortsFault, steps) ?? GraphFault(steps)
             code == before ?? built.fault ?? DeliveryFault(built.tasks, d.goal)
  <1>1. Compile(d, Described) = Verdict(code, built.tasks)
    BY DEF Compile
  <1> HIDE DEF code, built
  <1>2. code = "none" /\ Compile(d, Described).tasks = built.tasks
    BY <1>1 DEF Verdict
  <1>3. before = "none" /\ built.fault = "none"
    BY <1>2, NoFault DEF code
  <1>4. DraftFault(d, Described) = "none" /\ FirstFault(PortsFault, steps) = "none" /\ GraphFault(steps) = "none"
    BY <1>3, NoFault
  <1> HIDE DEF steps
  <1>5. /\ \A s \in ToSet(d.steps) : Known(s.op)
        /\ Cardinality(Keys(d.steps)) = Len(d.steps)
    BY <1>4, NoFault DEF DraftFault, When
  <1>6. Len(Order(steps)) = Len(steps)
    BY <1>4, NoFault DEF GraphFault, When
  <1>7. /\ StepsFine(steps) /\ DOMAIN steps = DOMAIN d.steps
        /\ \A i \in DOMAIN d.steps : steps[i].op = d.steps[i].op
    BY CanonicalSteps DEF steps
  <1>8. \A i \in DOMAIN d.steps : steps[i].key = d.steps[i].key
    BY DEF steps, Canonical, StepsFine, StepFine
  <1>9. Keys(steps) = Keys(d.steps) /\ Len(steps) = Len(d.steps)
    BY <1>7, <1>8 DEF Keys, StepsFine
  <1>10. Compilable(steps)
    BY <1>4, <1>5, <1>7 DEF Compilable, ToSet
  <1>11. Keys(built.tasks) = Keys(Order(steps))
    BY <1>3, <1>10, TasksGood DEF built
  <1> QED
    BY <1>2, <1>5, <1>6, <1>7, <1>9, <1>11, OrderIsComplete


(* Definitions and facts along a plan, task after task: a task comes after *)
(* all it reads from.                                                      *)
First(tasks, n) == {tasks[j].key : j \in 1 .. n}

LEMMA FirstTasks ==
    ASSUME NEW tasks, Ordered(tasks, tasks), NEW n \in Nat, n + 1 <= Len(tasks)
    PROVE  LET k == tasks[n + 1].key
           IN  /\ k \notin First(tasks, n) /\ First(tasks, n + 1) = First(tasks, n) \cup {k}
               /\ k \in Keys(tasks) /\ First(tasks, n) \subseteq Keys(tasks)
               /\ Producers(ByKey(tasks)[k]) \subseteq First(tasks, n)
  <1> DEFINE N == Len(tasks)
             k == tasks[n + 1].key
  <1>1. N \in Nat /\ DOMAIN tasks = 1 .. N
    BY DEF Ordered
  <1> HIDE DEF N
  <1>2. /\ n + 1 \in 1 .. N /\ n + 1 \in 1 .. n + 1
        /\ \A j \in 1 .. n : j \in 1 .. N /\ j # n + 1 /\ j \in 1 .. n + 1
        /\ \A j \in 1 .. n + 1 : j = n + 1 \/ j \in 1 .. n
    BY <1>1 DEF N
  <1>3. \A i, j \in 1 .. N : tasks[i].key = tasks[j].key => i = j
    BY <1>1 DEF Ordered
  <1>4. k \notin First(tasks, n) /\ First(tasks, n + 1) = First(tasks, n) \cup {k}
    BY <1>2, <1>3 DEF First
  <1>5. k \in Keys(tasks) /\ First(tasks, n) \subseteq Keys(tasks)
    BY <1>1, <1>2 DEF First, Keys
  <1>6. ByKey(tasks)[k] = tasks[n + 1]
    <2>1. ByKey(tasks)[k] \in ToSet(tasks) /\ ByKey(tasks)[k].key = k
      BY <1>5, ByKeyIs
    <2>2. PICK i \in 1 .. N : ByKey(tasks)[k] = tasks[i]
      BY <1>1, <2>1 DEF ToSet
    <2>3. i = n + 1
      BY <1>2, <1>3, <2>1, <2>2
    <2> QED
      BY <2>2, <2>3
  <1>7. ASSUME NEW u \in Producers(tasks[n + 1])
        PROVE  u \in First(tasks, n)
    <2>1. PICK j \in 1 .. (n + 1) - 1 : tasks[j].key = u
      BY <1>1, <1>2 DEF Ordered
    <2>2. (n + 1) - 1 = n
      OBVIOUS
    <2> QED
      BY <2>1, <2>2 DEF First
  <1> QED
    BY <1>4, <1>5, <1>6, <1>7

LEMMA PlanInduction ==
    ASSUME NEW tasks, Ordered(tasks, tasks), NEW P,
           \A k \in Keys(tasks) : Producers(ByKey(tasks)[k]) \subseteq P => k \in P
    PROVE  Keys(tasks) \subseteq P
  <1> DEFINE N == Len(tasks)
             S == {n \in Nat : n <= N => First(tasks, n) \subseteq P}
  <1>1. N \in Nat /\ DOMAIN tasks = 1 .. N
    BY DEF Ordered
  <1>2. 0 \in S
    BY DEF First
  <1>3. ASSUME NEW n \in S
        PROVE  n + 1 \in S
    <2>1. n \in Nat /\ n + 1 \in Nat
      OBVIOUS
    <2>2. SUFFICES ASSUME n + 1 <= N
                   PROVE  First(tasks, n + 1) \subseteq P
      BY <2>1
    <2>3. First(tasks, n) \subseteq P
      BY <1>1, <2>1, <2>2
    <2> DEFINE k == tasks[n + 1].key
    <2>4. /\ First(tasks, n + 1) = First(tasks, n) \cup {k} /\ k \in Keys(tasks)
          /\ Producers(ByKey(tasks)[k]) \subseteq First(tasks, n)
      BY <2>1, <2>2, FirstTasks
    <2> HIDE DEF k
    <2> QED
      BY <2>3, <2>4
  <1> HIDE DEF S
  <1>4. S \in SUBSET Nat
    BY DEF S
  <1>5. N \in S
    BY <1>1, <1>2, <1>3, <1>4, SetInduction
  <1>6. First(tasks, N) = Keys(tasks)
    BY <1>1 DEF First, Keys
  <1> QED
    BY <1>1, <1>5, <1>6 DEF S

(* What next says of a task depends on what is said of those it reads from.*)
Recursive(next, tasks, K, D) ==
    /\ K \subseteq Keys(tasks) /\ D # {} /\ next \in [K \X [K -> D] -> D]
    /\ \A k \in K : Producers(ByKey(tasks)[k]) \subseteq K
    /\ \A k \in K : \A f, g \in [K -> D] :
            (\A u \in Producers(ByKey(tasks)[k]) : f[u] = g[u]) => next[<<k, f>>] = next[<<k, g>>]

LEMMA PlanRecursion ==
    ASSUME NEW tasks, Ordered(tasks, tasks), NEW K, NEW D, NEW next, Recursive(next, tasks, K, D)
    PROVE  \E f \in [K -> D] : \A k \in K : f[k] = next[<<k, f>>]
  <1> DEFINE N == Len(tasks)
             Upto(f, n) == \A k \in First(tasks, n) \cap K : f[k] = next[<<k, f>>]
             S == {n \in Nat : n <= N => \E f \in [K -> D] : Upto(f, n)}
  <1>1. /\ K \subseteq Keys(tasks) /\ D # {} /\ next \in [K \X [K -> D] -> D]
        /\ \A k \in K : Producers(ByKey(tasks)[k]) \subseteq K
        /\ \A k \in K : \A f, g \in [K -> D] :
                (\A u \in Producers(ByKey(tasks)[k]) : f[u] = g[u]) => next[<<k, f>>] = next[<<k, g>>]
    BY DEF Recursive
  <1>2. N \in Nat /\ DOMAIN tasks = 1 .. N
    BY DEF Ordered
  <1>3. 0 \in S
    <2>1. PICK d \in D : TRUE
      BY <1>1
    <2>2. First(tasks, 0) = {}
      BY DEF First
    <2>3. [k \in K |-> d] \in [K -> D] /\ Upto([k \in K |-> d], 0)
      BY <2>1, <2>2
    <2> HIDE DEF Upto
    <2> QED
      BY <2>3
  <1>4. ASSUME NEW n \in S
        PROVE  n + 1 \in S
    <2>1. n \in Nat /\ n + 1 \in Nat
      OBVIOUS
    <2>2. SUFFICES ASSUME n + 1 <= N
                   PROVE  \E f \in [K -> D] : Upto(f, n + 1)
      BY <2>1
    <2> HIDE DEF Upto
    <2>3. PICK f \in [K -> D] : Upto(f, n)
      BY <1>2, <2>1, <2>2
    <2> DEFINE k == tasks[n + 1].key
               own == next[<<k, f>>]
               g == [x \in K |-> IF x = k THEN own ELSE f[x]]
    <2>4. /\ k \notin First(tasks, n) /\ First(tasks, n + 1) = First(tasks, n) \cup {k}
          /\ Producers(ByKey(tasks)[k]) \subseteq First(tasks, n)
      BY <2>1, <2>2, FirstTasks
    <2>5. \A x \in First(tasks, n) : Producers(ByKey(tasks)[x]) \subseteq First(tasks, n)
      <3> TAKE x \in First(tasks, n)
      <3>1. PICK j \in 1 .. n : x = tasks[j].key
        BY DEF First
      <3>2. j - 1 \in Nat /\ (j - 1) + 1 = j /\ j <= N
        BY <1>2, <2>1, <2>2, <3>1
      <3>3. Producers(ByKey(tasks)[x]) \subseteq First(tasks, j - 1)
        BY <3>1, <3>2, FirstTasks
      <3>4. \A i \in 1 .. j - 1 : i \in 1 .. n
        BY <2>1, <3>1
      <3>5. First(tasks, j - 1) \subseteq First(tasks, n)
        BY <3>4 DEF First
      <3> QED
        BY <3>3, <3>5
    <2> HIDE DEF k
    <2>6. k \in K => own \in D
      BY <1>1, <2>3
    <2> HIDE DEF own
    <2>7. g \in [K -> D] /\ \A x \in K \ {k} : g[x] = f[x]
      BY <2>3, <2>6
    <2>8. k \in K => g[k] = own
      OBVIOUS
    <2> HIDE DEF g
    <2>9. ASSUME NEW x \in First(tasks, n + 1) \cap K
          PROVE  Producers(ByKey(tasks)[x]) \subseteq First(tasks, n) /\ g[x] = next[<<x, f>>]
      <3>1. CASE x = k
        BY <2>4, <2>8, <3>1 DEF own
      <3>2. CASE x # k
        BY <2>3, <2>4, <2>5, <2>7, <3>2 DEF Upto
      <3> QED
        BY <3>1, <3>2
    <2>10. ASSUME NEW x \in First(tasks, n + 1) \cap K
           PROVE  g[x] = next[<<x, g>>]
      <3>1. \A u \in Producers(ByKey(tasks)[x]) : f[u] = g[u]
        <4> TAKE u \in Producers(ByKey(tasks)[x])
        <4>1. u # k /\ u \in K
          BY <1>1, <2>4, <2>9
        <4> QED
          BY <2>7, <4>1
      <3> QED
        BY <1>1, <2>3, <2>7, <2>9, <3>1
    <2> QED
      BY <2>7, <2>10 DEF Upto
  <1> HIDE DEF S
  <1>5. S \in SUBSET Nat
    BY DEF S
  <1>6. N \in S
    BY <1>2, <1>3, <1>4, <1>5, SetInduction
  <1>7. First(tasks, N) = Keys(tasks)
    BY <1>2 DEF First, Keys
  <1> HIDE DEF Upto
  <1>8. PICK f \in [K -> D] : Upto(f, N)
    BY <1>2, <1>6 DEF S
  <1> QED
    BY <1>1, <1>7, <1>8 DEF Upto

LEMMA PlanProduces ==
    ASSUME NEW tasks, Ordered(tasks, tasks), NEW k \in Keys(tasks)
    PROVE  Producers(ByKey(tasks)[k]) \subseteq Keys(tasks)
  <1>1. ByKey(tasks)[k] \in ToSet(tasks)
    BY ByKeyIs
  <1>2. PICK i \in DOMAIN tasks : ByKey(tasks)[k] = tasks[i]
    BY <1>1 DEF ToSet
  <1>3. \A u \in Producers(tasks[i]) : \E j \in 1 .. i - 1 : tasks[j].key = u
    BY DEF Ordered
  <1>4. \A j \in 1 .. i - 1 : j \in DOMAIN tasks
    BY DEF Ordered
  <1> QED
    BY <1>2, <1>3, <1>4 DEF Keys

(* The ancestors of a task are defined, and have theirs among them.        *)
Line(f, tasks) ==
    f = [k \in Keys(tasks) |-> {k} \cup UNION {f[u] : u \in Producers(ByKey(tasks)[k])}]

LEMMA LineRuns ==
    ASSUME NEW tasks, Ordered(tasks, tasks)
    PROVE  \E f : Line(f, tasks)
  <1> DEFINE K == Keys(tasks)
             D == SUBSET K
             line(k, f) == {k} \cup UNION {f[u] : u \in Producers(ByKey(tasks)[k])}
             next == [p \in K \X [K -> D] |-> line(p[1], p[2])]
  <1>1. \A k \in K : Producers(ByKey(tasks)[k]) \subseteq K
    BY PlanProduces
  <1> HIDE DEF K
  <1>2. \A k \in K, f \in [K -> D] : line(k, f) \in D
    BY <1>1
  <1>3. ASSUME NEW k \in K, NEW f \in [K -> D], NEW g \in [K -> D],
               \A u \in Producers(ByKey(tasks)[k]) : f[u] = g[u]
        PROVE  line(k, f) = line(k, g)
    <2>1. {f[u] : u \in Producers(ByKey(tasks)[k])} = {g[u] : u \in Producers(ByKey(tasks)[k])}
      BY <1>3
    <2> QED
      BY <2>1
  <1> HIDE DEF line
  <1>4. next \in [K \X [K -> D] -> D]
    BY <1>2
  <1>5. \A k \in K, f \in [K -> D] : next[<<k, f>>] = line(k, f)
    OBVIOUS
  <1> HIDE DEF next
  <1>6. \A k \in K : \A f, g \in [K -> D] :
            (\A u \in Producers(ByKey(tasks)[k]) : f[u] = g[u]) => next[<<k, f>>] = next[<<k, g>>]
    BY <1>3, <1>5
  <1>7. K \subseteq Keys(tasks) /\ D # {}
    BY DEF K
  <1> HIDE DEF D
  <1>8. Recursive(next, tasks, K, D)
    BY <1>1, <1>4, <1>6, <1>7 DEF Recursive
  <1>9. \E f \in [K -> D] : \A k \in K : f[k] = next[<<k, f>>]
    BY <1>8, PlanRecursion
  <1>10. PICK f \in [K -> D] : \A k \in K : f[k] = next[<<k, f>>]
    BY <1>9
  <1>11. f = [k \in K |-> line(k, f)]
    BY <1>5, <1>10
  <1> QED
    BY <1>11 DEF Line, line, K

LEMMA AncestorsClosed ==
    ASSUME NEW tasks, Ordered(tasks, tasks), NEW key \in Keys(tasks)
    PROVE  LET A == Ancestors(tasks, key)
           IN  key \in A /\ A \subseteq Keys(tasks) /\ \A j \in A : Producers(ByKey(tasks)[j]) \subseteq A
  <1> DEFINE task == ByKey(tasks)
             f == CHOOSE f : Line(f, tasks)
             Closed(k) == /\ k \in f[k] /\ f[k] \subseteq Keys(tasks)
                          /\ \A j \in f[k] : Producers(task[j]) \subseteq f[k]
             P == {k \in Keys(tasks) : Closed(k)}
  <1>1. Line(f, tasks)
    BY LineRuns
  <1>2. Ancestors(tasks, key) = f[key]
    BY DEF Ancestors, Line
  <1> HIDE DEF f
  <1>3. ASSUME NEW k \in Keys(tasks), Producers(task[k]) \subseteq P
        PROVE  k \in P
    <2> HIDE DEF task
    <2>1. f[k] = {k} \cup UNION {f[u] : u \in Producers(task[k])}
      BY <1>1 DEF Line, task
    <2>2. \A u \in Producers(task[k]) : Closed(u) /\ f[u] \subseteq f[k]
      BY <1>3, <2>1
    <2>3. k \in f[k] /\ f[k] \subseteq Keys(tasks)
      BY <2>1, <2>2
    <2>4. ASSUME NEW j \in f[k]
          PROVE  Producers(task[j]) \subseteq f[k]
      <3>1. CASE j = k
        BY <2>2, <3>1
      <3>2. CASE j # k
        <4>1. PICK u \in Producers(task[k]) : j \in f[u]
          BY <2>1, <3>2
        <4> QED
          BY <2>2, <4>1
      <3> QED
        BY <3>1, <3>2
    <2> QED
      BY <2>3, <2>4
  <1> HIDE DEF P
  <1>4. key \in P
    BY <1>3, PlanInduction
  <1> QED
    BY <1>2, <1>4 DEF P

LEMMA TurnComes ==
    ASSUME PlanGood(plan.tasks), NEW key \in Open
    PROVE  Ancestors(plan.tasks, key) \cap (Ready \cup DOMAIN failed) # {}
  <1> DEFINE tasks == plan.tasks
             A == Ancestors(tasks, key)
             T == {i \in DOMAIN tasks : tasks[i].key \in A \cap Open}
  <1>1. Ordered(tasks, tasks)
    BY DEF PlanGood
  <1>2. Len(tasks) \in Nat /\ DOMAIN tasks = 1 .. Len(tasks)
    BY <1>1 DEF Ordered
  <1>3. key \in Keys(tasks)
    BY DEF Open
  <1>4. key \in A /\ A \subseteq Keys(tasks) /\ \A j \in A : Producers(ByKey(tasks)[j]) \subseteq A
    BY <1>1, <1>3, AncestorsClosed
  <1>5. T \in SUBSET Nat /\ T # {}
    BY <1>2, <1>3, <1>4 DEF Keys
  <1> HIDE DEF tasks, A, T
  <1>6. PICK n \in T : \A m \in T : n <= m
    BY <1>5, LeastNumber
  <1> DEFINE k == tasks[n].key
  <1>7. n \in 1 .. Len(tasks) /\ k \in A /\ k \in Open
    BY <1>2, <1>6 DEF T
  <1>8. ByKey(tasks)[k] = tasks[n]
    <2>1. ByKey(tasks)[k] \in ToSet(tasks) /\ ByKey(tasks)[k].key = k
      BY <1>4, <1>7, ByKeyIs
    <2> HIDE DEF k
    <2>2. PICK i \in DOMAIN tasks : ByKey(tasks)[k] = tasks[i]
      BY <2>1 DEF ToSet
    <2>3. i = n
      BY <1>1, <1>2, <1>7, <2>1, <2>2 DEF Ordered, k
    <2> QED
      BY <2>2, <2>3
  <1>9. ASSUME NEW u \in Producers(tasks[n])
        PROVE  u \in A /\ u \in DOMAIN published \cup DOMAIN failed
    <2>1. u \in A
      BY <1>4, <1>7, <1>8, <1>9
    <2>2. PICK j \in 1 .. n - 1 : tasks[j].key = u
      BY <1>1, <1>2, <1>7 DEF Ordered
    <2>3. j \in DOMAIN tasks /\ ~(n <= j)
      BY <1>2, <1>7, <2>2
    <2>4. u \notin Open
      BY <1>6, <2>1, <2>2, <2>3 DEF T
    <2>5. u \in Keys(tasks)
      BY <1>4, <2>1
    <2> QED
      BY <2>1, <2>4, <2>5 DEF Open, tasks
  <1>10. CASE Producers(tasks[n]) \subseteq DOMAIN published
    <2>1. k \in Ready
      BY <1>7, <1>8, <1>10 DEF Ready, Task, tasks
    <2> QED
      BY <1>7, <2>1 DEF A, tasks
  <1>11. CASE ~(Producers(tasks[n]) \subseteq DOMAIN published)
    <2>1. PICK u \in Producers(tasks[n]) : u \notin DOMAIN published
      BY <1>11
    <2>2. u \in A /\ u \in DOMAIN failed
      BY <1>9, <2>1
    <2> QED
      BY <2>2 DEF A, tasks
  <1> QED
    BY <1>10, <1>11

LEMMA GateIsOpen ==
    ASSUME PlanGood(plan.tasks), NEW key \in Ready, NEW b \in ToSet(Task(key).inputs)
    PROVE  LET port == Contract(Task(key).op).ins[b.port] IN port.many \/ Fits(b, port)
  <1> DEFINE task == Task(key)
             ins == Contract(task.op).ins
             port == ins[b.port]
  <1>1. task \in ToSet(plan.tasks)
    BY ByKeyIs DEF Ready, Open, Task
  <1>2. PICK outputs : TaskGood(outputs, task)
    BY <1>1 DEF PlanGood
  <1> HIDE DEF task
  <1>3. PICK i \in DOMAIN task.inputs : b = task.inputs[i]
    BY DEF ToSet, task
  <1>4. /\ BindingFine(b) /\ BindingChecked(b, ins)
        /\ \A j \in DOMAIN b.refs : RefChecked(b.refs[j], port, outputs)
    BY <1>2, <1>3 DEF TaskGood, InputsGood
  <1>5. port.many \in BOOLEAN
    BY <1>2, <1>4, ManyIsBoolean DEF TaskGood, BindingChecked
  <1> SUFFICES ASSUME ~port.many
               PROVE  Fits(b, port)
    BY DEF task
  <1>6. ~b.list /\ Len(b.refs) = 1
    BY <1>4 DEF BindingChecked
  <1>7. 1 \in DOMAIN b.refs
    BY <1>4, <1>6 DEF BindingFine
  <1>8. ~b.refs[1].all
    BY <1>4, <1>7 DEF RefChecked
  <1> HIDE DEF port
  <1>9. port.many = FALSE
    BY <1>5
  <1> QED
    BY <1>6, <1>8, <1>9 DEF Fits

-----------------------------------------------------------------------------
(* The draft and its plan belong together.                                 *)
PlanStands ==
    /\ talk.phase # "over" => draft = NoDraft
    /\ plan.verdict = "planned" => draft.asks = "nothing" /\ Keys(plan.tasks) = Keys(draft.steps)

LEMMA JudgedStands ==
    ASSUME NEW raw \in Drafts, Judged(Bounded(raw), Described).verdict = "planned"
    PROVE  /\ Bounded(raw).asks = "nothing"
           /\ Keys(Judged(Bounded(raw), Described).tasks) = Keys(Bounded(raw).steps)
  <1> DEFINE d == Bounded(raw)
  <1>1. /\ DOMAIN raw = {"steps", "catalog", "external", "goal", "asks", "grounded"}
        /\ raw.asks \in {"nothing", "question", "blank"}
    BY DraftsAssumption DEF WellFormed
  <1>2. d.asks = raw.asks
    BY <1>1 DEF Bounded
  <1>3. BoundaryFault(d, Described) \in {"none", "LLM_DRAFT_INVALID"}
    BY DEF BoundaryFault, When
  <1>4. /\ Verdict("LLM_DRAFT_INVALID", <<>>).verdict # "planned"
        /\ Verdict("CLARIFICATION_REQUIRED", <<>>).verdict # "planned"
    BY DEF Verdict, Questions
  <1> HIDE DEF d
  <1>5. BoundaryFault(d, Described) = "none" /\ d.asks # "question"
    BY <1>3, <1>4 DEF Judged, d
  <1>6. d.asks # "blank" /\ StepsFine(d.steps)
    BY <1>5, BoundedSteps DEF BoundaryFault, When, d
  <1>7. Judged(d, Described) = Compile(d, Described)
    BY <1>5 DEF Judged
  <1>8. Keys(Compile(d, Described).tasks) = Keys(d.steps)
    BY <1>6, <1>7, PlannedKeys DEF d
  <1> QED
    BY <1>1, <1>2, <1>5, <1>6, <1>7, <1>8 DEF d

LEMMA StandsNext ==
    WorkflowIInv /\ PlanStands /\ [Next]_vars => PlanStands'
  <1> SUFFICES ASSUME WorkflowIInv, PlanStands, [Next]_vars
               PROVE  PlanStands'
    OBVIOUS
  <1>1. CASE UNCHANGED <<draft, plan>> /\ (talk'.phase # "over" => talk.phase # "over")
    BY <1>1 DEF PlanStands
  <1>2. CASE \E d \in Drafts : Submit(d)
    <2>1. PICK raw \in Drafts : Submit(raw)
      BY <1>2
    <2> DEFINE d == Bounded(raw)
               result == Judged(d, Described)
    <2>2. talk.phase = "answered"
      BY <2>1 DEF Submit
    <2>3. \/ UNCHANGED <<draft, plan>>
          \/ talk' = Over /\ draft' = d /\ plan' = result
      BY <2>1 DEF Submit
    <2>4. result.verdict = "planned" => d.asks = "nothing" /\ Keys(result.tasks) = Keys(d.steps)
      BY JudgedStands
    <2> HIDE DEF d, result
    <2>5. CASE UNCHANGED <<draft, plan>>
      BY <1>1, <2>2, <2>5
    <2>6. CASE talk' = Over /\ draft' = d /\ plan' = result
      <3>1. talk'.phase = "over"
        BY <2>6 DEF Over, Talk
      <3> QED
        BY <2>4, <2>6, <3>1 DEF PlanStands
    <2> QED
      BY <2>3, <2>5, <2>6
  <1>3. CASE GiveUp
    <2>1. talk.phase = "ended" /\ talk' = Over /\ UNCHANGED draft /\ plan' = Verdict(talk.code, <<>>)
      BY <1>3 DEF GiveUp
    <2>2. plan'.tasks = <<>> /\ talk'.phase = "over"
      BY <2>1 DEF Verdict, Over, Talk
    <2>3. draft = NoDraft
      BY <2>1 DEF PlanStands
    <2>4. draft'.asks = "nothing" /\ draft'.steps = <<>>
      BY <2>1, <2>3 DEF NoDraft
    <2> QED
      BY <2>2, <2>4 DEF PlanStands, Keys
  <1>4. CASE \E response \in Responses : Post(response) /\ UNCHANGED <<draft, plan, published, failed>>
    <2>1. talk.phase = "post"
      BY <1>4 DEF Post
    <2> QED
      BY <1>1, <1>4, <2>1
  <1>5. CASE Expire /\ UNCHANGED <<draft, plan, published, failed>>
    BY <1>1, <1>5 DEF Expire
  <1>6. CASE \E key \in Open, luck \in {"rows", "nothing", "error"} : Execute(key, luck)
    BY <1>1, <1>6 DEF Execute
  <1>7. CASE UNCHANGED vars
    BY <1>1, <1>7 DEF vars
  <1> QED
    BY <1>2, <1>3, <1>4, <1>5, <1>6, <1>7 DEF Next

(* A draft that asks something is never run; of a plan that is, every step *)
(* of the draft is a task, every task gets its turn unless something it    *)
(* reads from fails, and a port for one artifact is given one: for plans   *)
(* of any size and shape, what the compiler checks is enough for the gate  *)
(* of the executor.  (Compiler._validate_graph and _topological_step_order *)
(* against RuntimeExecutor.execute.)                                       *)
THEOREM PlansRunThrough == Spec => []PlanRunsThrough
  <1>1. Init => PlanStands
    BY DEF Init, PlanStands, NoPlan
  <1>2. WorkflowIInv /\ PlanStands => PlanRunsThrough
    BY TurnComes, GateIsOpen DEF WorkflowIInv, PlanStands, PlanRunsThrough
  <1> QED
    BY <1>1, <1>2, WorkflowInit, WorkflowNext, StandsNext, PTL DEF Spec


-----------------------------------------------------------------------------
(* What a request demands, and the ways through a plan.                    *)
(* A part of a plan that has with a task all it reads from.                *)
PartOf(part, tasks) ==
    /\ Keys(part) \subseteq Keys(tasks)
    /\ \A k \in Keys(part) : /\ ByKey(part)[k] = ByKey(tasks)[k]
                             /\ Producers(ByKey(tasks)[k]) \subseteq Keys(part)

LEMMA UpstreamProduces == \A task : Upstream(task) \subseteq Producers(task)
  <1> TAKE task
  <1>1. PrimaryRefs(task) \subseteq Refs(task)
    BY DEF PrimaryRefs, Refs
  <1> QED
    BY <1>1 DEF Upstream, Producers

(* What is inherited is what every way into the task brings along.         *)
LEMMA InheritedIs ==
    ASSUME NEW task, NEW proved, NEW x \in Inherited(task, proved)
    PROVE  /\ \A u \in Upstream(task) : x \in proved[u]
           /\ ~ReadsUpload(task) /\ Upstream(task) # {}
  BY DEF Inherited, Meet

LEMMA InheritedDepends ==
    ASSUME NEW task, NEW f, NEW g, \A u \in Producers(task) : f[u] = g[u]
    PROVE  Inherited(task, f) = Inherited(task, g)
  <1>1. {f[u] : u \in Upstream(task)} = {g[u] : u \in Upstream(task)}
    BY UpstreamProduces
  <1> QED
    BY <1>1 DEF Inherited

LEMMA InheritedIn ==
    ASSUME NEW task, NEW K, NEW D, NEW f \in [K -> SUBSET D], Producers(task) \subseteq K
    PROVE  Inherited(task, f) \subseteq D
  <1>1. ASSUME NEW x \in Inherited(task, f)
        PROVE  x \in D
    <2>1. PICK u \in Upstream(task) : x \in f[u]
      BY InheritedIs
    <2>2. u \in K
      BY UpstreamProduces
    <2> QED
      BY <2>1, <2>2
  <1> QED
    BY <1>1

GuaranteedBy(f, part, obligations) ==
    f = [k \in Keys(part) |-> {i \in DOMAIN obligations : Satisfies(ByKey(part)[k], obligations[i])}
                                  \cup Inherited(ByKey(part)[k], f)]

LEMMA GuaranteedIs ==
    ASSUME NEW tasks, Ordered(tasks, tasks), NEW part, PartOf(part, tasks), NEW obligations
    PROVE  GuaranteedBy(Guaranteed(part, obligations), part, obligations)
  <1> DEFINE K == Keys(part)
             D == SUBSET DOMAIN obligations
             own(k) == {i \in DOMAIN obligations : Satisfies(ByKey(part)[k], obligations[i])}
             next == [p \in K \X [K -> D] |-> own(p[1]) \cup Inherited(ByKey(part)[p[1]], p[2])]
  <1>1. /\ K \subseteq Keys(tasks)
        /\ \A k \in K : ByKey(part)[k] = ByKey(tasks)[k] /\ Producers(ByKey(tasks)[k]) \subseteq K
    BY DEF PartOf
  <1> HIDE DEF K
  <1>2. \A k \in K : own(k) \in D
    OBVIOUS
  <1> HIDE DEF own
  <1>3. \A k \in K, f \in [K -> D] : own(k) \cup Inherited(ByKey(part)[k], f) \in D
    BY <1>1, <1>2, InheritedIn
  <1>4. next \in [K \X [K -> D] -> D]
    BY <1>3
  <1>5. \A k \in K, f \in [K -> D] : next[<<k, f>>] = own(k) \cup Inherited(ByKey(part)[k], f)
    OBVIOUS
  <1> HIDE DEF next
  <1>6. \A k \in K : \A f, g \in [K -> D] :
            (\A u \in Producers(ByKey(tasks)[k]) : f[u] = g[u]) => next[<<k, f>>] = next[<<k, g>>]
    <2> TAKE k \in K
    <2> TAKE f, g \in [K -> D]
    <2> HAVE \A u \in Producers(ByKey(tasks)[k]) : f[u] = g[u]
    <2>1. Inherited(ByKey(part)[k], f) = Inherited(ByKey(part)[k], g)
      BY <1>1, InheritedDepends
    <2> QED
      BY <1>5, <2>1
  <1>7. D # {}
    OBVIOUS
  <1> HIDE DEF D
  <1>8. Recursive(next, tasks, K, D)
    BY <1>1, <1>4, <1>6, <1>7 DEF Recursive
  <1>9. \E f \in [K -> D] : \A k \in K : f[k] = next[<<k, f>>]
    BY <1>8, PlanRecursion
  <1>10. PICK f \in [K -> D] : \A k \in K : f[k] = next[<<k, f>>]
    BY <1>9
  <1>11. f = [k \in K |-> own(k) \cup Inherited(ByKey(part)[k], f)]
    BY <1>5, <1>10
  <1>12. GuaranteedBy(f, part, obligations)
    BY <1>11 DEF GuaranteedBy, own, K
  <1>13. Guaranteed(part, obligations) = CHOOSE g : GuaranteedBy(g, part, obligations)
    BY DEF Guaranteed, GuaranteedBy
  <1> QED
    BY <1>12, <1>13


(* The ways the records can have taken to the output of a task.            *)
StartOf(task) == IF ReadsUpload(task) \/ Upstream(task) = {} THEN {<<>>} ELSE {}
WaysBy(f, tasks) ==
    f = [k \in Keys(tasks) |->
            {Append(w, k) : w \in (UNION {f[u] : u \in Upstream(ByKey(tasks)[k])}) \cup StartOf(ByKey(tasks)[k])}]

LEMMA WaysRun ==
    ASSUME NEW tasks, Ordered(tasks, tasks)
    PROVE  \E f \in [Keys(tasks) -> SUBSET Seq(Keys(tasks))] :
                WaysBy(f, tasks) /\ \A k \in Keys(tasks) : Ways(tasks, k) = f[k]
  <1> DEFINE K == Keys(tasks)
             D == SUBSET Seq(K)
             before(k, f) == (UNION {f[u] : u \in Upstream(ByKey(tasks)[k])}) \cup StartOf(ByKey(tasks)[k])
             next == [p \in K \X [K -> D] |-> {Append(w, p[1]) : w \in before(p[1], p[2])}]
             whole == CHOOSE f : WaysBy(f, tasks)
  <1>1. \A k \in K : Producers(ByKey(tasks)[k]) \subseteq K
    BY PlanProduces
  <1> HIDE DEF K
  <1>2. ASSUME NEW k \in K, NEW f \in [K -> D]
        PROVE  before(k, f) \subseteq Seq(K)
    <2>1. Upstream(ByKey(tasks)[k]) \subseteq K
      BY <1>1, UpstreamProduces
    <2>2. StartOf(ByKey(tasks)[k]) \subseteq Seq(K)
      <3>1. <<>> \in Seq(K)
        OBVIOUS
      <3> QED
        BY <3>1 DEF StartOf
    <2>3. \A u \in Upstream(ByKey(tasks)[k]) : f[u] \subseteq Seq(K)
      BY <2>1
    <2> QED
      BY <2>2, <2>3
  <1>3. ASSUME NEW k \in K, NEW f \in [K -> D], NEW g \in [K -> D],
               \A u \in Producers(ByKey(tasks)[k]) : f[u] = g[u]
        PROVE  before(k, f) = before(k, g)
    <2>1. {f[u] : u \in Upstream(ByKey(tasks)[k])} = {g[u] : u \in Upstream(ByKey(tasks)[k])}
      BY <1>3, UpstreamProduces
    <2> QED
      BY <2>1
  <1> HIDE DEF before
  <1>4. ASSUME NEW k \in K, NEW f \in [K -> D]
        PROVE  {Append(w, k) : w \in before(k, f)} \in D
    <2>1. \A w \in before(k, f) : Append(w, k) \in Seq(K)
      BY <1>2
    <2> QED
      BY <2>1
  <1>5. next \in [K \X [K -> D] -> D]
    BY <1>4
  <1>6. \A k \in K, f \in [K -> D] : next[<<k, f>>] = {Append(w, k) : w \in before(k, f)}
    OBVIOUS
  <1> HIDE DEF next
  <1>7. \A k \in K : \A f, g \in [K -> D] :
            (\A u \in Producers(ByKey(tasks)[k]) : f[u] = g[u]) => next[<<k, f>>] = next[<<k, g>>]
    BY <1>3, <1>6
  <1>8. K \subseteq Keys(tasks) /\ D # {}
    BY DEF K
  <1> HIDE DEF D
  <1>9. Recursive(next, tasks, K, D)
    BY <1>1, <1>5, <1>7, <1>8 DEF Recursive
  <1>10. \E f \in [K -> D] : \A k \in K : f[k] = next[<<k, f>>]
    BY <1>9, PlanRecursion
  <1>11. PICK f \in [K -> D] : \A k \in K : f[k] = next[<<k, f>>]
    BY <1>10
  <1>12. f = [k \in K |-> {Append(w, k) : w \in before(k, f)}]
    BY <1>6, <1>11
  <1>13. WaysBy(f, tasks)
    BY <1>12 DEF WaysBy, before, K
  <1>14. \A g : WaysBy(g, tasks) => g = f
    <2> SUFFICES ASSUME NEW g, WaysBy(g, tasks)
                 PROVE  g = f
      OBVIOUS
    <2> DEFINE P == {k \in K : g[k] = f[k]}
    <2>1. g = [k \in K |-> {Append(w, k) : w \in before(k, g)}]
      BY DEF WaysBy, before, K
    <2>2. ASSUME NEW k \in K, Producers(ByKey(tasks)[k]) \subseteq P
          PROVE  k \in P
      <3>1. {f[u] : u \in Upstream(ByKey(tasks)[k])} = {g[u] : u \in Upstream(ByKey(tasks)[k])}
        BY <2>2, UpstreamProduces
      <3>2. before(k, f) = before(k, g)
        BY <3>1 DEF before
      <3> QED
        BY <1>12, <2>1, <3>2
    <2> HIDE DEF P
    <2>3. K \subseteq P
      BY <2>2, PlanInduction DEF K
    <2> QED
      BY <1>12, <2>1, <2>3 DEF P
  <1>15. whole = f
    BY <1>13, <1>14
  <1>16. \A k : Ways(tasks, k) = (CHOOSE g : WaysBy(g, tasks))[k]
    BY DEF Ways, WaysBy, StartOf
  <1> QED
    BY <1>13, <1>15, <1>16 DEF K, D


LEMMA WaysAre ==
    ASSUME NEW tasks, Ordered(tasks, tasks), NEW k \in Keys(tasks), NEW w \in Ways(tasks, k)
    PROVE  \E v \in Seq(Keys(tasks)) :
              /\ w = Append(v, k)
              /\ \/ v = <<>> /\ (ReadsUpload(ByKey(tasks)[k]) \/ Upstream(ByKey(tasks)[k]) = {})
                 \/ \E u \in Upstream(ByKey(tasks)[k]) : v \in Ways(tasks, u)
  <1> DEFINE K == Keys(tasks)
             task == ByKey(tasks)[k]
  <1>1. PICK f \in [K -> SUBSET Seq(K)] : WaysBy(f, tasks) /\ \A x \in K : Ways(tasks, x) = f[x]
    BY WaysRun
  <1>2. PICK v \in (UNION {f[u] : u \in Upstream(task)}) \cup StartOf(task) : w = Append(v, k)
    BY <1>1 DEF WaysBy
  <1>3. Upstream(task) \subseteq K
    BY PlanProduces, UpstreamProduces
  <1> HIDE DEF K, task
  <1>4. CASE v \in StartOf(task)
    <2>1. v = <<>> /\ (ReadsUpload(task) \/ Upstream(task) = {})
      BY <1>4 DEF StartOf
    <2>2. v \in Seq(K)
      BY <2>1
    <2> QED
      BY <1>2, <2>1, <2>2 DEF K, task
  <1>5. CASE v \notin StartOf(task)
    <2>1. PICK u \in Upstream(task) : v \in f[u]
      BY <1>2, <1>5
    <2>2. v \in Seq(K) /\ v \in Ways(tasks, u)
      BY <1>1, <1>3, <2>1
    <2> QED
      BY <1>2, <2>1, <2>2 DEF K, task
  <1> QED
    BY <1>4, <1>5

(* A task later on the way takes nothing back.                             *)
LEMMA MeetsLonger ==
    ASSUME NEW tasks, NEW K, NEW v \in Seq(K), NEW k, NEW required
    PROVE  /\ Meets(tasks, v, required) => Meets(tasks, Append(v, k), required)
           /\ Satisfies(ByKey(tasks)[k], required) => Meets(tasks, Append(v, k), required)
  <1> DEFINE w == Append(v, k)
  <1>1. /\ DOMAIN v = 1 .. Len(v) /\ DOMAIN w = 1 .. Len(v) + 1 /\ Len(v) \in Nat
        /\ \A i \in 1 .. Len(v) : w[i] = v[i]
        /\ w[Len(v) + 1] = k
    OBVIOUS
  <1> HIDE DEF w
  <1>2. Len(v) + 1 \in DOMAIN w /\ \A i \in DOMAIN v : i \in DOMAIN w
    BY <1>1
  <1> QED
    BY <1>1, <1>2 DEF Meets, w

LEMMA GuaranteeHolds ==
    ASSUME NEW tasks, Ordered(tasks, tasks), NEW part, PartOf(part, tasks), NEW obligations,
           NEW key \in Keys(part), NEW i \in Guaranteed(part, obligations)[key],
           NEW way \in Ways(tasks, key)
    PROVE  Meets(tasks, way, obligations[i])
  <1> DEFINE g == Guaranteed(part, obligations)
             OnWays(k) == \A j \in g[k] : \A w \in Ways(tasks, k) : Meets(tasks, w, obligations[j])
             P == {k \in Keys(tasks) : k \in Keys(part) => OnWays(k)}
  <1>1. g = [k \in Keys(part) |->
                {j \in DOMAIN obligations : Satisfies(ByKey(part)[k], obligations[j])}
                    \cup Inherited(ByKey(part)[k], g)]
    BY GuaranteedIs DEF GuaranteedBy
  <1> HIDE DEF g
  <1>2. ASSUME NEW k \in Keys(tasks), Producers(ByKey(tasks)[k]) \subseteq P, k \in Keys(part),
               NEW j \in g[k], NEW w \in Ways(tasks, k)
        PROVE  Meets(tasks, w, obligations[j])
    <2> DEFINE task == ByKey(tasks)[k]
    <2>1. ByKey(part)[k] = task /\ Producers(task) \subseteq Keys(part)
      BY <1>2 DEF PartOf
    <2>2. PICK v \in Seq(Keys(tasks)) :
              /\ w = Append(v, k)
              /\ \/ v = <<>> /\ (ReadsUpload(task) \/ Upstream(task) = {})
                 \/ \E u \in Upstream(task) : v \in Ways(tasks, u)
      BY <1>2, WaysAre
    <2> HIDE DEF task
    <2>3. Satisfies(task, obligations[j]) \/ j \in Inherited(task, g)
      BY <1>1, <1>2, <2>1
    <2>4. CASE Satisfies(task, obligations[j])
      BY <2>2, <2>4, MeetsLonger DEF task
    <2>5. CASE j \in Inherited(task, g)
      <3>1. \A u \in Upstream(task) : j \in g[u]
        BY <2>5, InheritedIs
      <3>2. ~ReadsUpload(task) /\ Upstream(task) # {}
        BY <2>5, InheritedIs
      <3>3. PICK u \in Upstream(task) : v \in Ways(tasks, u)
        BY <2>2, <3>2
      <3>4. u \in Producers(task)
        BY UpstreamProduces
      <3>5. OnWays(u)
        BY <1>2, <2>1, <3>4 DEF task
      <3>6. Meets(tasks, v, obligations[j])
        BY <3>1, <3>3, <3>5
      <3> QED
        BY <2>2, <3>6, MeetsLonger
    <2> QED
      BY <2>3, <2>4, <2>5
  <1>3. \A k \in Keys(tasks) : Producers(ByKey(tasks)[k]) \subseteq P => k \in P
    BY <1>2
  <1> HIDE DEF P
  <1>4. Keys(tasks) \subseteq P
    BY <1>3, PlanInduction
  <1>5. key \in P
    BY <1>4 DEF PartOf
  <1> QED
    BY <1>5 DEF P, g


(* Numbered stages.                                                        *)
Staged(task, stages, before) ==
    before \cup {i \in DOMAIN stages : Earlier(stages, i) \subseteq before /\ Satisfies(task, stages[i])}
InOrderBy(f, part, stages) ==
    f = [k \in Keys(part) |-> Staged(ByKey(part)[k], stages, Inherited(ByKey(part)[k], f))]

LEMMA InOrderIs ==
    ASSUME NEW tasks, Ordered(tasks, tasks), NEW part, PartOf(part, tasks), NEW stages
    PROVE  InOrderBy(InOrder(part, stages), part, stages)
  <1> DEFINE K == Keys(part)
             D == SUBSET DOMAIN stages
             step(k, f) == Staged(ByKey(part)[k], stages, Inherited(ByKey(part)[k], f))
             next == [p \in K \X [K -> D] |-> step(p[1], p[2])]
  <1>1. /\ K \subseteq Keys(tasks)
        /\ \A k \in K : ByKey(part)[k] = ByKey(tasks)[k] /\ Producers(ByKey(tasks)[k]) \subseteq K
    BY DEF PartOf
  <1> HIDE DEF K
  <1>2. ASSUME NEW k \in K, NEW f \in [K -> D]
        PROVE  step(k, f) \in D
    <2>1. Inherited(ByKey(part)[k], f) \subseteq DOMAIN stages
      BY <1>1, InheritedIn
    <2> QED
      BY <2>1 DEF Staged
  <1>3. ASSUME NEW k \in K, NEW f \in [K -> D], NEW g \in [K -> D],
               \A u \in Producers(ByKey(tasks)[k]) : f[u] = g[u]
        PROVE  step(k, f) = step(k, g)
    <2>1. Inherited(ByKey(part)[k], f) = Inherited(ByKey(part)[k], g)
      BY <1>1, <1>3, InheritedDepends
    <2> QED
      BY <2>1
  <1> HIDE DEF step
  <1>4. next \in [K \X [K -> D] -> D]
    BY <1>2
  <1>5. \A k \in K, f \in [K -> D] : next[<<k, f>>] = step(k, f)
    OBVIOUS
  <1> HIDE DEF next
  <1>6. \A k \in K : \A f, g \in [K -> D] :
            (\A u \in Producers(ByKey(tasks)[k]) : f[u] = g[u]) => next[<<k, f>>] = next[<<k, g>>]
    BY <1>3, <1>5
  <1>7. D # {}
    OBVIOUS
  <1> HIDE DEF D
  <1>8. Recursive(next, tasks, K, D)
    BY <1>1, <1>4, <1>6, <1>7 DEF Recursive
  <1>9. \E f \in [K -> D] : \A k \in K : f[k] = next[<<k, f>>]
    BY <1>8, PlanRecursion
  <1>10. PICK f \in [K -> D] : \A k \in K : f[k] = next[<<k, f>>]
    BY <1>9
  <1>11. f = [k \in K |-> step(k, f)]
    BY <1>5, <1>10
  <1>12. InOrderBy(f, part, stages)
    BY <1>11 DEF InOrderBy, step, K
  <1>13. InOrder(part, stages) = CHOOSE g : InOrderBy(g, part, stages)
    BY DEF InOrder, InOrderBy, Staged
  <1> QED
    BY <1>12, <1>13

(* Some of the stages, those of a lower number earlier on the way; and a   *)
(* set with every requirement that has all of the earlier stages in it.    *)
Climbed(tasks, way, stages, S) ==
    \E at \in [S -> DOMAIN way] :
        \A i, j \in S : /\ Satisfies(ByKey(tasks)[way[at[i]]], stages[i])
                        /\ stages[i].stage < stages[j].stage => at[i] < at[j]
Grounded(stages, S) == S \subseteq DOMAIN stages /\ \A i \in S : Earlier(stages, i) \subseteq S

LEMMA ClimbsOn ==
    ASSUME NEW tasks, NEW K, NEW v \in Seq(K), NEW k, NEW stages, NEW B, NEW S,
           Grounded(stages, B), Climbed(tasks, v, stages, B), B \subseteq S, S \subseteq DOMAIN stages,
           \A i \in S \ B : Earlier(stages, i) \subseteq B /\ Satisfies(ByKey(tasks)[k], stages[i])
    PROVE  Climbed(tasks, Append(v, k), stages, S)
  <1> DEFINE w == Append(v, k)
             L == Len(v) + 1
  <1>1. /\ DOMAIN v = 1 .. Len(v) /\ DOMAIN w = 1 .. L /\ Len(v) \in Nat
        /\ \A i \in 1 .. Len(v) : w[i] = v[i]
        /\ w[L] = k
    OBVIOUS
  <1> HIDE DEF w
  <1>2. L \in DOMAIN w /\ \A i \in DOMAIN v : i \in DOMAIN w /\ i < L
    BY <1>1
  <1> HIDE DEF L
  <1>3. PICK at \in [B -> DOMAIN v] :
            \A i, j \in B : /\ Satisfies(ByKey(tasks)[v[at[i]]], stages[i])
                            /\ stages[i].stage < stages[j].stage => at[i] < at[j]
    BY DEF Climbed
  <1> DEFINE on == [i \in S |-> IF i \in B THEN at[i] ELSE L]
  <1>4. \A i \in B : at[i] \in DOMAIN w /\ w[at[i]] = v[at[i]] /\ at[i] < L
    BY <1>1, <1>2
  <1>5. on \in [S -> DOMAIN w]
    BY <1>2, <1>4
  <1>6. (\A i \in B : on[i] = at[i]) /\ \A i \in S \ B : on[i] = L
    OBVIOUS
  <1> HIDE DEF on
  <1>7. \A i \in S : Satisfies(ByKey(tasks)[w[on[i]]], stages[i])
    BY <1>1, <1>3, <1>4, <1>6
  <1>8. ASSUME NEW i \in S, NEW j \in S, stages[i].stage < stages[j].stage
        PROVE  on[i] < on[j]
    <2>1. i \in Earlier(stages, j)
      BY <1>8 DEF Earlier
    <2>2. i \in B
      BY <2>1 DEF Grounded
    <2> QED
      BY <1>3, <1>4, <1>6, <1>8, <2>2
  <1> QED
    BY <1>5, <1>7, <1>8 DEF Climbed, w

LEMMA ClimbsLess ==
    ASSUME NEW tasks, NEW v, NEW stages, NEW S, NEW B \in SUBSET S, Climbed(tasks, v, stages, S)
    PROVE  Climbed(tasks, v, stages, B)
  <1>1. PICK at \in [S -> DOMAIN v] :
            \A i, j \in S : /\ Satisfies(ByKey(tasks)[v[at[i]]], stages[i])
                            /\ stages[i].stage < stages[j].stage => at[i] < at[j]
    BY DEF Climbed
  <1> DEFINE on == [i \in B |-> at[i]]
  <1>2. on \in [B -> DOMAIN v] /\ \A i \in B : on[i] = at[i]
    OBVIOUS
  <1> HIDE DEF on
  <1> QED
    BY <1>1, <1>2 DEF Climbed


LEMMA InheritedAll ==
    ASSUME NEW task, NEW proved, NEW x, ~ReadsUpload(task), Upstream(task) # {},
           \A u \in Upstream(task) : x \in proved[u]
    PROVE  x \in Inherited(task, proved)
  BY DEF Inherited, Meet

LEMMA StagesHold ==
    ASSUME NEW tasks, Ordered(tasks, tasks), NEW part, PartOf(part, tasks), NEW stages,
           NEW key \in Keys(part), InOrder(part, stages)[key] = DOMAIN stages,
           NEW way \in Ways(tasks, key)
    PROVE  StageByStage(tasks, way, stages)
  <1> DEFINE g == InOrder(part, stages)
             Climbs(k) == \A w \in Ways(tasks, k) : Climbed(tasks, w, stages, g[k])
             P == {k \in Keys(tasks) : k \in Keys(part) => Grounded(stages, g[k]) /\ Climbs(k)}
  <1>1. g = [k \in Keys(part) |-> Staged(ByKey(part)[k], stages, Inherited(ByKey(part)[k], g))]
    BY InOrderIs DEF InOrderBy
  <1> HIDE DEF g
  <1>2. ASSUME NEW k \in Keys(tasks), Producers(ByKey(tasks)[k]) \subseteq P, k \in Keys(part)
        PROVE  Grounded(stages, g[k]) /\ Climbs(k)
    <2> DEFINE task == ByKey(tasks)[k]
               before == Inherited(task, g)
    <2>0. ByKey(part)[k] = task /\ Producers(task) \subseteq Keys(part)
      BY <1>2 DEF PartOf
    <2>1. g[k] = before \cup {i \in DOMAIN stages : Earlier(stages, i) \subseteq before
                                                  /\ Satisfies(task, stages[i])}
      BY <1>1, <1>2, <2>0 DEF Staged
    <2>2. \A u \in Upstream(task) : Grounded(stages, g[u]) /\ Climbs(u)
      BY <1>2, <2>0, UpstreamProduces
    <2> HIDE DEF task, Climbs
    <2>3. \A x \in before : ~ReadsUpload(task) /\ Upstream(task) # {} /\ \A u \in Upstream(task) : x \in g[u]
      BY InheritedIs
    <2>4. Grounded(stages, before)
      <3>1. ASSUME NEW i \in before
            PROVE  i \in DOMAIN stages /\ Earlier(stages, i) \subseteq before
        <4>1. i \in DOMAIN stages /\ \A x \in Earlier(stages, i) : \A u \in Upstream(task) : x \in g[u]
          BY <2>2, <2>3 DEF Grounded
        <4>2. \A x \in Earlier(stages, i) : x \in before
          BY <2>3, <4>1, InheritedAll
        <4> QED
          BY <4>1, <4>2
      <3> QED
        BY <3>1 DEF Grounded
    <2> HIDE DEF before
    <2>5. Grounded(stages, g[k])
      BY <2>1, <2>4 DEF Grounded
    <2>6. ASSUME NEW w \in Ways(tasks, k)
          PROVE  Climbed(tasks, w, stages, g[k])
      <3>1. PICK v \in Seq(Keys(tasks)) :
                /\ w = Append(v, k)
                /\ \/ v = <<>> /\ (ReadsUpload(task) \/ Upstream(task) = {})
                   \/ \E u \in Upstream(task) : v \in Ways(tasks, u)
        BY WaysAre DEF task
      <3>2. Climbed(tasks, v, stages, before)
        <4>1. CASE before = {}
          <5>1. <<>> \in [{} -> DOMAIN v]
            OBVIOUS
          <5> QED
            BY <4>1, <5>1 DEF Climbed
        <4>2. CASE before # {}
          <5>1. PICK u \in Upstream(task) : v \in Ways(tasks, u)
            BY <2>3, <3>1, <4>2
          <5>2. before \subseteq g[u] /\ Climbed(tasks, v, stages, g[u])
            BY <2>2, <2>3, <5>1 DEF Climbs
          <5> QED
            BY <5>2, ClimbsLess
        <4> QED
          BY <4>1, <4>2
      <3>3. /\ before \subseteq g[k] /\ g[k] \subseteq DOMAIN stages
            /\ \A i \in g[k] \ before : /\ Earlier(stages, i) \subseteq before
                                         /\ Satisfies(ByKey(tasks)[k], stages[i])
        BY <2>1, <2>5 DEF Grounded, task
      <3> QED
        BY <2>4, <3>1, <3>2, <3>3, ClimbsOn
    <2> QED
      BY <2>5, <2>6 DEF Climbs
  <1>3. \A k \in Keys(tasks) : Producers(ByKey(tasks)[k]) \subseteq P => k \in P
    BY <1>2
  <1> HIDE DEF P
  <1>4. Keys(tasks) \subseteq P
    BY <1>3, PlanInduction
  <1>5. key \in P
    BY <1>4 DEF PartOf
  <1>6. Climbed(tasks, way, stages, DOMAIN stages)
    BY <1>5 DEF P, g
  <1> QED
    BY <1>6 DEF Climbed, StageByStage

(* Without stages there is nothing to follow.                              *)
LEMMA StagesFollowed ==
    ASSUME NEW tasks, Ordered(tasks, tasks), NEW part, PartOf(part, tasks), NEW stages,
           NEW key \in Keys(part), stages # <<>> => InOrder(part, stages)[key] = DOMAIN stages
    PROVE  \A way \in Ways(tasks, key) : StageByStage(tasks, way, stages)
  <1> TAKE way \in Ways(tasks, key)
  <1>1. CASE stages = <<>>
    <2>1. DOMAIN stages = {} /\ <<>> \in [{} -> DOMAIN way]
      BY <1>1
    <2> QED
      BY <2>1 DEF StageByStage
  <1>2. CASE stages # <<>>
    BY <1>2, StagesHold
  <1> QED
    BY <1>1, <1>2

(* What the check of the requirements says of a final task.                *)
LEMMA RequirementsChecked ==
    ASSUME NEW part, NEW goal, GoalRequirementsFault(part, goal) = "none"
    PROVE  /\ \A o \in ToSet(goal.obligations) : \E t \in ToSet(part) : Satisfies(t, o)
           /\ Held(part, goal) =>
                \A k \in Leaves(part, goal) :
                    /\ Guaranteed(part, Work(goal.obligations))[k] = DOMAIN Work(goal.obligations)
                    /\ goal.stages # <<>> => InOrder(part, goal.stages)[k] = DOMAIN goal.stages
  <1> DEFINE missed == {i \in DOMAIN goal.obligations : \A t \in ToSet(part) : ~Satisfies(t, goal.obligations[i])}
             work == Work(goal.obligations)
             delivers == {t.key : t \in {x \in ToSet(part) : Delivers(x)}}
             delivery == delivers \cup (IF goal.native THEN Terminal(part) ELSE {})
             leaves == IF delivery = {} THEN Terminal(part) ELSE delivery
             single == Len(work) = 1 /\ delivery = {} /\ goal.stages = <<>>
             proved == Guaranteed(part, work)
             lineage == When(\E leaf \in leaves : proved[leaf] # DOMAIN work, "GOAL_LINEAGE_MISMATCH")
             staged == IF goal.stages = <<>> THEN "none" ELSE OrderedStagesFault(part, goal.stages, leaves)
             chain == When(goal.missing, "GOAL_FACTS_REQUIRED")
                   ?? When(goal.anyOf, "GOAL_BOOLEAN_UNSUPPORTED")
                   ?? NativeFault(part, goal)
                   ?? When(missed # {}, "GOAL_REQUIREMENT_MISSING")
                   ?? (IF work = <<>> \/ single THEN "none" ELSE lineage ?? staged)
  <1>1. GoalRequirementsFault(part, goal) = chain
    BY DEF GoalRequirementsFault
  <1>2. /\ When(missed # {}, "GOAL_REQUIREMENT_MISSING") = "none"
        /\ (IF work = <<>> \/ single THEN "none" ELSE lineage ?? staged) = "none"
    <2> HIDE DEF missed, work, single, lineage, staged
    <2> QED
      BY <1>1, NoFault
  <1>3. missed = {}
    BY <1>2 DEF When
  <1>4. \A o \in ToSet(goal.obligations) : \E t \in ToSet(part) : Satisfies(t, o)
    BY <1>3 DEF ToSet
  <1>5. ASSUME NEW k \in Leaves(part, goal), work # <<>>,
               goal.native \/ ~Alone(part, goal.obligations, goal.stages)
        PROVE  /\ proved[k] = DOMAIN work
               /\ goal.stages # <<>> => InOrder(part, goal.stages)[k] = DOMAIN goal.stages
    <2>0. /\ Candidates(part) = IF delivers = {} THEN Terminal(part) ELSE delivers
          /\ k \in Candidates(part) \/ (goal.native /\ k \in Terminal(part))
      BY <1>5 DEF Candidates, Leaves
    <2>1. ~single
      <3>1. delivers = {} => \A t \in ToSet(part) : ~Delivers(t)
        OBVIOUS
      <3> HIDE DEF delivers
      <3>2. CASE goal.native
        BY <2>0, <3>2
      <3>3. CASE ~goal.native
        BY <1>5, <3>1, <3>3 DEF Alone
      <3> QED
        BY <3>2, <3>3
    <2>2. k \in leaves
      <3> HIDE DEF delivers
      <3> QED
        BY <2>0
    <2> HIDE DEF leaves, single, work, missed, proved
    <2>3. lineage = "none" /\ staged = "none"
      <3> HIDE DEF lineage, staged
      <3> QED
        BY <1>2, <1>5, <2>1, NoFault
    <2>4. proved[k] = DOMAIN work
      BY <2>2, <2>3 DEF When
    <2>5. ASSUME goal.stages # <<>>
          PROVE  InOrder(part, goal.stages)[k] = DOMAIN goal.stages
      <3>1. OrderedStagesFault(part, goal.stages, leaves) = "none"
        BY <2>3, <2>5
      <3> QED
        BY <2>2, <3>1 DEF OrderedStagesFault, When
    <2> QED
      BY <2>4, <2>5
  <1> QED
    BY <1>4, <1>5 DEF Held

LEMMA PartIs ==
    ASSUME NEW tasks, Ordered(tasks, tasks), NEW A \in SUBSET Keys(tasks),
           \A k \in A : Producers(ByKey(tasks)[k]) \subseteq A
    PROVE  LET part == Part(tasks, A)
           IN  PartOf(part, tasks) /\ Keys(part) = A /\ ToSet(part) = {ByKey(tasks)[k] : k \in A}
  <1> DEFINE part == Part(tasks, A)
  <1>1. /\ DOMAIN part = {i \in DOMAIN tasks : tasks[i].key \in A}
        /\ \A i \in DOMAIN part : part[i] = tasks[i]
    BY DEF Part
  <1> HIDE DEF part
  <1>2. \A i, j \in DOMAIN tasks : tasks[i].key = tasks[j].key => i = j
    BY DEF Ordered
  <1>3. Keys(part) = A
    <2>1. Keys(part) \subseteq A
      BY <1>1 DEF Keys
    <2>2. ASSUME NEW k \in A
          PROVE  k \in Keys(part)
      <3>1. PICK i \in DOMAIN tasks : tasks[i].key = k
        BY DEF Keys
      <3> QED
        BY <1>1, <3>1 DEF Keys
    <2> QED
      BY <2>1, <2>2
  <1>4. \A i \in DOMAIN tasks : ByKey(tasks)[tasks[i].key] = tasks[i]
    <2> TAKE i \in DOMAIN tasks
    <2>1. tasks[i].key \in Keys(tasks)
      BY DEF Keys
    <2>2. ByKey(tasks)[tasks[i].key] \in ToSet(tasks) /\ ByKey(tasks)[tasks[i].key].key = tasks[i].key
      BY <2>1, ByKeyIs
    <2> QED
      BY <1>2, <2>2 DEF ToSet
  <1>5. ASSUME NEW k \in A
        PROVE  ByKey(part)[k] = ByKey(tasks)[k]
    <2>1. ByKey(part)[k] \in ToSet(part) /\ ByKey(part)[k].key = k
      BY <1>3, ByKeyIs
    <2>2. PICK i \in DOMAIN part : ByKey(part)[k] = tasks[i]
      BY <1>1, <2>1 DEF ToSet
    <2> QED
      BY <1>1, <1>4, <2>1, <2>2
  <1>6. ToSet(part) = {ByKey(tasks)[k] : k \in A}
    <2>1. ASSUME NEW t \in ToSet(part)
          PROVE  \E k \in A : t = ByKey(tasks)[k]
      BY <1>1, <1>4 DEF ToSet
    <2>2. ASSUME NEW k \in A
          PROVE  ByKey(tasks)[k] \in ToSet(part)
      <3>1. ByKey(part)[k] \in ToSet(part)
        BY <1>3, ByKeyIs
      <3> QED
        BY <1>5, <3>1
    <2> QED
      BY <2>1, <2>2
  <1>7. PartOf(part, tasks)
    BY <1>3, <1>5 DEF PartOf
  <1> QED
    BY <1>3, <1>6, <1>7 DEF part


LEMMA CarriesAll ==
    ASSUME NEW tasks, Ordered(tasks, tasks), NEW part, PartOf(part, tasks), NEW obligations,
           NEW k \in Keys(part), Guaranteed(part, obligations)[k] = DOMAIN obligations
    PROVE  Carries(tasks, k, obligations)
  <1> SUFFICES ASSUME NEW way \in Ways(tasks, k), NEW o \in ToSet(obligations)
               PROVE  Meets(tasks, way, o)
    BY DEF Carries
  <1>1. PICK i \in DOMAIN obligations : o = obligations[i]
    BY DEF ToSet
  <1> QED
    BY <1>1, GuaranteeHolds

LEMMA CandidatesAreTasks ==
    ASSUME NEW tasks
    PROVE  Candidates(tasks) \subseteq Keys(tasks)
  BY DEF Candidates, Terminal, Keys, ToSet

(* A final task of a plan is one of the part it is made by.                *)
LEMMA CandidateOfPart ==
    ASSUME NEW tasks, NEW k \in Candidates(tasks), NEW part,
           k \in Keys(part), ByKey(part)[k] = ByKey(tasks)[k], ToSet(part) \subseteq ToSet(tasks),
           \A t \in ToSet(tasks) : t.key = k => t = ByKey(tasks)[k]
    PROVE  k \in Candidates(part)
  <1> DEFINE delivers(x) == {t.key : t \in {y \in ToSet(x) : Delivers(y)}}
  <1>1. \A x : Candidates(x) = IF delivers(x) = {} THEN Terminal(x) ELSE delivers(x)
    BY DEF Candidates
  <1>2. delivers(part) \subseteq delivers(tasks)
    OBVIOUS
  <1>3. CASE k \in delivers(tasks)
    <2>1. PICK t \in ToSet(tasks) : t.key = k /\ Delivers(t)
      BY <1>3
    <2>2. t = ByKey(part)[k] /\ ByKey(part)[k] \in ToSet(part)
      BY <2>1, ByKeyIs
    <2>3. k \in delivers(part)
      BY <2>1, <2>2
    <2> HIDE DEF delivers
    <2> QED
      BY <1>1, <2>3
  <1>4. CASE k \notin delivers(tasks)
    <2> HIDE DEF delivers
    <2>1. delivers(part) = {} /\ k \in Terminal(tasks)
      BY <1>1, <1>2, <1>4
    <2>2. Consumed(part) \subseteq Consumed(tasks)
      BY DEF Consumed
    <2>3. k \in Terminal(part)
      BY <2>1, <2>2 DEF Terminal
    <2> QED
      BY <1>1, <2>1, <2>3
  <1> QED
    BY <1>3, <1>4

LEMMA ValidCarries ==
    ASSUME NEW tasks, Ordered(tasks, tasks), NEW group, NEW k \in Valid(tasks, group)
    PROVE  /\ k \in Candidates(tasks)
           /\ \A o \in ToSet(group.obligations) :
                    \E u \in Ancestors(tasks, k) : Satisfies(ByKey(tasks)[u], o)
           /\ Held(tasks, group) => InTurn(tasks, k, group)
  <1> DEFINE A == Ancestors(tasks, k)
             part == Part(tasks, A)
             checks == [missing |-> FALSE, anyOf |-> group.anyOf, native |-> group.native,
                        obligations |-> group.obligations, stages |-> group.stages]
  <1>1. k \in Candidates(tasks) /\ GoalRequirementsFault(part, checks) = "none"
    BY DEF Valid
  <1>2. k \in Keys(tasks)
    BY <1>1, CandidatesAreTasks
  <1>3. k \in A /\ A \in SUBSET Keys(tasks) /\ \A j \in A : Producers(ByKey(tasks)[j]) \subseteq A
    BY <1>2, AncestorsClosed
  <1>4. /\ checks.obligations = group.obligations /\ checks.stages = group.stages
        /\ checks.native = group.native
    OBVIOUS
  <1> HIDE DEF A, checks
  <1>5. PartOf(part, tasks) /\ Keys(part) = A /\ ToSet(part) = {ByKey(tasks)[u] : u \in A}
    BY <1>3, PartIs
  <1> HIDE DEF part
  <1>6. \A o \in ToSet(group.obligations) : \E u \in A : Satisfies(ByKey(tasks)[u], o)
    <2>1. \A o \in ToSet(group.obligations) : \E t \in ToSet(part) : Satisfies(t, o)
      BY <1>1, <1>4, RequirementsChecked
    <2> QED
      BY <1>5, <2>1
  <1>7. \A t \in ToSet(tasks) : t.key = k => t = ByKey(tasks)[k]
    <2>1. ByKey(tasks)[k] \in ToSet(tasks) /\ ByKey(tasks)[k].key = k
      BY <1>2, ByKeyIs
    <2> QED
      BY <2>1 DEF ToSet, Ordered
  <1>8. ToSet(part) \subseteq ToSet(tasks)
    BY <1>3, <1>5, ByKeyIs
  <1>9. k \in Candidates(part)
    BY <1>1, <1>3, <1>5, <1>7, <1>8, CandidateOfPart DEF PartOf
  <1>10. ASSUME Held(tasks, group)
         PROVE  InTurn(tasks, k, group)
    <2> DEFINE work == Work(group.obligations)
    <2>1. work # <<>> /\ (group.native \/ ~Alone(tasks, group.obligations, group.stages))
      BY <1>10 DEF Held
    <2>2. group.native \/ ~Alone(part, group.obligations, group.stages)
      <3> SUFFICES ASSUME ~group.native, Alone(part, group.obligations, group.stages)
                   PROVE  FALSE
        OBVIOUS
      <3>1. Len(work) = 1 /\ group.stages = <<>> /\ \A t \in ToSet(part) : ~Delivers(t)
        BY DEF Alone
      <3>2. PICK t \in ToSet(tasks) : Delivers(t)
        BY <2>1, <3>1 DEF Alone
      <3>3. \E x \in ToSet(tasks) : x.key = k /\ Delivers(x)
        BY <1>1, <3>2 DEF Candidates
      <3>4. Delivers(ByKey(tasks)[k])
        BY <1>7, <3>3
      <3> QED
        BY <1>3, <1>5, <3>1, <3>4
    <2>3. k \in Leaves(part, checks)
      BY <1>9 DEF Leaves
    <2>4. Held(part, checks)
      BY <1>4, <2>1, <2>2 DEF Held
    <2>5. /\ Guaranteed(part, work)[k] = DOMAIN work
          /\ group.stages # <<>> => InOrder(part, group.stages)[k] = DOMAIN group.stages
      BY <1>1, <1>4, <2>3, <2>4, RequirementsChecked
    <2> HIDE DEF work
    <2>6. Carries(tasks, k, work)
      BY <1>3, <1>5, <2>5, CarriesAll
    <2>7. \A way \in Ways(tasks, k) : StageByStage(tasks, way, group.stages)
      BY <1>3, <1>5, <2>5, StagesFollowed
    <2> QED
      BY <2>6, <2>7 DEF InTurn, work
  <1> QED
    BY <1>1, <1>6, <1>10 DEF A


LEMMA KeysFinite ==
    ASSUME NEW tasks, Ordered(tasks, tasks)
    PROVE  IsFiniteSet(Keys(tasks))
  <1> DEFINE f == [i \in 1 .. Len(tasks) |-> tasks[i].key]
  <1>1. Len(tasks) \in Nat /\ DOMAIN tasks = 1 .. Len(tasks)
    BY DEF Ordered
  <1>2. f \in Surjection(1 .. Len(tasks), Keys(tasks))
    BY <1>1 DEF Surjection, Keys
  <1>3. IsFiniteSet(1 .. Len(tasks))
    BY <1>1, FS_Interval
  <1> QED
    BY <1>2, <1>3, FS_Surjection


(* The assignment of results to instructions gives any set of them as many *)
(* results as it has members.                                              *)
LEMMA GroupsAnswered ==
    ASSUME NEW tasks, Ordered(tasks, tasks), NEW groups,
           IndependentGroupsFault(tasks, groups) = "none",
           NEW S, S \subseteq UNION {{<<g, i>> : i \in DOMAIN Demands(groups[g])} : g \in DOMAIN groups}
    PROVE  Cardinality(UNION {Answers(tasks, groups[s[1]], Demands(groups[s[1]])[s[2]]) : s \in S})
                >= Cardinality(S)
  <1> DEFINE slots == [i \in DOMAIN groups |-> Slots(tasks, groups[i])]
             asked == UNION {{<<i, j>> : j \in DOMAIN slots[i]} : i \in DOMAIN groups}
             covered == UNION {slots[x[1]][x[2]] : x \in asked}
             Assigns(a) == IsInjective(a) /\ \A x \in asked : a[x] \in slots[x[1]][x[2]]
             answer(s) == Answers(tasks, groups[s[1]], Demands(groups[s[1]])[s[2]])
             T == UNION {answer(s) : s \in S}
  <1>1. \E a \in [asked -> covered] : Assigns(a)
    <2> HIDE DEF slots
    <2>1. When(\/ ~ \E a \in [asked -> covered] : Assigns(a)
               \/ \E t \in ToSet(tasks) : Delivers(t) /\ t.key \notin covered,
               "GOAL_LINEAGE_MISMATCH") = "none"
      BY NoFault DEF IndependentGroupsFault, slots
    <2> QED
      BY <2>1 DEF When
  <1>2. \A g \in DOMAIN groups : DOMAIN slots[g] = DOMAIN Demands(groups[g])
    BY DEF Slots, Demands
  <1>3. ASSUME NEW s \in S
        PROVE  s \in asked /\ slots[s[1]][s[2]] \subseteq answer(s)
    <2>0. PICK g \in DOMAIN groups : \E i \in DOMAIN Demands(groups[g]) : s = <<g, i>>
      OBVIOUS
    <2>1. PICK i \in DOMAIN Demands(groups[g]) : s = <<g, i>>
      BY <2>0
    <2>2. s \in asked
      <3> HIDE DEF slots
      <3> QED
        BY <1>2, <2>1
    <2>3. ASSUME NEW k \in slots[g][i]
          PROVE  k \in Answers(tasks, groups[g], Demands(groups[g])[i])
      <3>1. k \in Valid(tasks, groups[g])
        BY <1>2, <2>3 DEF Slots
      <3>2. \A w \in Demands(groups[g])[i] : Satisfies(ByKey(tasks)[k], w)
        BY <1>2, <2>3 DEF Slots, Demands
      <3> HIDE DEF slots
      <3> QED
        BY <3>1, <3>2, ValidCarries DEF Answers
    <2> QED
      BY <2>1, <2>2, <2>3
  <1> HIDE DEF slots, asked, covered, answer
  <1>4. PICK a \in [asked -> covered] : Assigns(a)
    BY <1>1
  <1> DEFINE b == [s \in S |-> a[s]]
  <1>5. b \in [S -> T] /\ \A s, t \in S : b[s] = b[t] => s = t
    BY <1>3, <1>4 DEF IsInjective
  <1> HIDE DEF b
  <1>6. T \subseteq Keys(tasks)
    <2>1. \A s \in S : answer(s) \subseteq Keys(tasks)
      BY CandidatesAreTasks DEF Answers, answer
    <2> QED
      BY <2>1
  <1>7. IsFiniteSet(Keys(tasks))
    BY KeysFinite
  <1> HIDE DEF T
  <1>8. IsFiniteSet(T)
    BY <1>6, <1>7, FS_Subset
  <1>9. b \in Injection(S, T)
    BY <1>5 DEF Injection, IsInjective
  <1>10. IsFiniteSet(S) /\ Cardinality(S) <= Cardinality(T)
    BY <1>8, <1>9, FS_Injection
  <1>11. Cardinality(S) \in Nat /\ Cardinality(T) \in Nat
    BY <1>8, <1>10, FS_CardinalityType
  <1>12. Cardinality(T) >= Cardinality(S)
    BY <1>10, <1>11
  <1> QED
    BY <1>12 DEF T, answer

-----------------------------------------------------------------------------
(* The plan was held to the goal of its draft; a conversation that failed  *)
(* says why, so that its end is no plan.                                   *)
PlanCarries ==
    /\ {"phase", "code"} \subseteq DOMAIN talk
    /\ talk.phase = "ended" => talk.code # "none"
    /\ plan.verdict = "planned" => GoalFault(plan.tasks, draft.goal.demands) = "none"

LEMMA JudgedCarries ==
    ASSUME NEW raw \in Drafts, Judged(Bounded(raw), Described).verdict = "planned"
    PROVE  GoalFault(Judged(Bounded(raw), Described).tasks, Bounded(raw).goal.demands) = "none"
  <1> DEFINE d == Bounded(raw)
             steps == Canonical(d.steps)
             built == Tasks(steps, Described, d.goal)
             code == DraftFault(d, Described) ?? FirstFault(PortsFault, steps) ?? GraphFault(steps)
                  ?? built.fault ?? DeliveryFault(built.tasks, d.goal)
  <1>1. /\ DOMAIN raw = {"steps", "catalog", "external", "goal", "asks", "grounded"}
    BY DraftsAssumption DEF WellFormed
  <1>2. d.goal = raw.goal
    BY <1>1 DEF Bounded
  <1>3. BoundaryFault(d, Described) \in {"none", "LLM_DRAFT_INVALID"}
    BY DEF BoundaryFault, When
  <1>4. /\ Verdict("LLM_DRAFT_INVALID", <<>>).verdict # "planned"
        /\ Verdict("CLARIFICATION_REQUIRED", <<>>).verdict # "planned"
    BY DEF Verdict, Questions
  <1> HIDE DEF d
  <1>5. Judged(d, Described) = Compile(d, Described)
    BY <1>3, <1>4 DEF Judged, d
  <1>6. Compile(d, Described) = Verdict(code, built.tasks)
    BY DEF Compile
  <1> HIDE DEF code, built
  <1>7. Judged(d, Described).verdict = "planned"
    BY DEF d
  <1>8. code = "none" /\ Judged(d, Described).tasks = built.tasks
    BY <1>5, <1>6, <1>7 DEF Verdict
  <1>9. DeliveryFault(built.tasks, d.goal) = "none"
    BY <1>8, NoFault DEF code
  <1>10. GoalFault(built.tasks, d.goal.demands) = "none"
    BY <1>9, NoFault DEF DeliveryFault
  <1> QED
    BY <1>1, <1>2, <1>8, <1>10 DEF d


LEMMA CarriesNext == PlanCarries /\ [Next]_vars => PlanCarries'
  <1> SUFFICES ASSUME PlanCarries, [Next]_vars
               PROVE  PlanCarries'
    OBVIOUS
  <1> DEFINE Talks == {"phase", "code"} \subseteq DOMAIN talk /\ (talk.phase = "ended" => talk.code # "none")
  <1>0. /\ Over.phase = "over" /\ {"phase", "code"} \subseteq DOMAIN Over
        /\ \A r, n : /\ {"phase", "code"} \subseteq DOMAIN Talk("post", r, n)
                     /\ {"phase", "code"} \subseteq DOMAIN Talk("answered", r, n)
                     /\ Talk("post", r, n).phase = "post" /\ Talk("answered", r, n).phase = "answered"
        /\ \A code : {"phase", "code"} \subseteq DOMAIN Ended(code) /\ Ended(code).code = code
    BY DEF Over, Talk, Ended
  <1>1. CASE UNCHANGED <<draft, plan>> /\ Talks'
    BY <1>1 DEF PlanCarries
  <1>2. CASE \E d \in Drafts : Submit(d)
    <2>1. PICK raw \in Drafts : Submit(raw)
      BY <1>2
    <2> DEFINE d == Bounded(raw)
               result == Judged(d, Described)
    <2>2. \A r, n : {"phase", "code"} \subseteq DOMAIN Talk("post", r, n) /\ Talk("post", r, n).phase = "post"
      BY <1>0
    <2>3. \/ Repair /\ UNCHANGED <<draft, plan>>
          \/ talk' = Over /\ draft' = d /\ plan' = result
      BY <2>1 DEF Submit
    <2>4. result.verdict = "planned" => GoalFault(result.tasks, d.goal.demands) = "none"
      BY JudgedCarries
    <2> HIDE DEF d, result
    <2>5. CASE Repair /\ UNCHANGED <<draft, plan>>
      BY <1>1, <2>2, <2>5 DEF Repair
    <2>6. CASE talk' = Over /\ draft' = d /\ plan' = result
      <3>1. Talks'
        BY <1>0, <2>6
      <3> QED
        BY <2>4, <2>6, <3>1 DEF PlanCarries
    <2> QED
      BY <2>3, <2>5, <2>6
  <1>3. CASE GiveUp
    <2>1. talk' = Over /\ plan' = Verdict(talk.code, <<>>) /\ talk.code # "none"
      BY <1>3 DEF GiveUp, PlanCarries
    <2>2. plan'.verdict # "planned"
      BY <2>1 DEF Verdict
    <2>3. Talks'
      BY <1>0, <2>1
    <2> QED
      BY <2>2, <2>3 DEF PlanCarries
  <1>4. CASE \E response \in Responses : Post(response) /\ UNCHANGED <<draft, plan, published, failed>>
    <2>1. PICK response \in Responses : Post(response)
      BY <1>4
    <2> DEFINE posted == [talk EXCEPT !.calls = @ + 1]
               code == CASE response \in {"bad request", "busy", "rejected"} -> "LLM_HTTP_ERROR"
                         [] response = "lost" -> "LLM_UNAVAILABLE"
                         [] OTHER -> ContentFault(response)
    <2>2. /\ talk.phase = "post"
          /\ \/ talk' = Ended("LLM_CALL_BUDGET_EXCEEDED")
             \/ talk' = [posted EXCEPT !.plain = FALSE]
             \/ talk' = [posted EXCEPT !.attempt = @ + 1]
             \/ code # "none" /\ talk' = Ended(code)
             \/ talk' = Talk("answered", talk.repair, posted.calls)
      <3> DEFINE bare == talk.plain /\ response \in {"bad request", "reasoning"}
                 retried == talk.attempt < MaxRetries /\ response \in {"busy", "lost"}
      <3>1. /\ talk.phase = "post"
            /\ talk' = CASE talk.calls >= MaxCalls -> Ended("LLM_CALL_BUDGET_EXCEEDED")
                         [] bare -> [posted EXCEPT !.plain = FALSE]
                         [] retried -> [posted EXCEPT !.attempt = @ + 1]
                         [] code # "none" -> Ended(code)
                         [] OTHER -> Talk("answered", talk.repair, posted.calls)
        BY <2>1, Zenon DEF Post
      <3> HIDE DEF posted, code, bare, retried
      <3> QED
        BY <3>1
    <2> HIDE DEF code
    <2>3. Talks
      BY DEF PlanCarries
    <2>4. /\ DOMAIN posted = DOMAIN talk /\ posted.phase = "post"
          /\ DOMAIN [posted EXCEPT !.plain = FALSE] = DOMAIN talk
          /\ [posted EXCEPT !.plain = FALSE].phase = "post"
          /\ DOMAIN [posted EXCEPT !.attempt = @ + 1] = DOMAIN talk
          /\ [posted EXCEPT !.attempt = @ + 1].phase = "post"
      BY <2>2, <2>3
    <2> HIDE DEF posted
    <2>5. Talks'
      BY <1>0, <2>2, <2>3, <2>4
    <2> QED
      BY <1>1, <1>4, <2>5
  <1>5. CASE Expire /\ UNCHANGED <<draft, plan, published, failed>>
    <2>1. Talks'
      BY <1>0, <1>5 DEF Expire
    <2> QED
      BY <1>1, <1>5, <2>1
  <1>6. CASE \E key \in Open, luck \in {"rows", "nothing", "error"} : Execute(key, luck)
    BY <1>1, <1>6 DEF Execute, PlanCarries
  <1>7. CASE UNCHANGED vars
    BY <1>1, <1>7 DEF vars, PlanCarries
  <1> QED
    BY <1>2, <1>3, <1>4, <1>5, <1>6, <1>7 DEF Next

LEMMA CarriedThen ==
    ASSUME PlanGood(plan.tasks), PlanCarries
    PROVE  GoalIsCarried
  <1> DEFINE tasks == plan.tasks
             goal == draft.goal.demands
  <1> SUFFICES ASSUME plan.verdict = "planned"
               PROVE  IF goal.groups = <<>>
                      THEN Held(tasks, goal) => \A leaf \in Leaves(tasks, goal) : InTurn(tasks, leaf, goal)
                      ELSE \A S \in SUBSET UNION {{<<g, i>> : i \in DOMAIN Demands(goal.groups[g])} :
                                                    g \in DOMAIN goal.groups} :
                              Cardinality(UNION {Answers(tasks, goal.groups[s[1]], Demands(goal.groups[s[1]])[s[2]]) : s \in S})
                                  >= Cardinality(S)
    BY DEF GoalIsCarried
  <1>1. Ordered(tasks, tasks)
    BY DEF PlanGood
  <1>2. GoalFault(tasks, goal) = "none"
    BY DEF PlanCarries
  <1>3. ~goal.missing
    BY <1>2 DEF GoalFault
  <1> HIDE DEF tasks, goal
  <1>4. CASE goal.groups # <<>>
    <2>1. IndependentGroupsFault(tasks, goal.groups) = "none"
      BY <1>2, <1>3, <1>4 DEF GoalFault
    <2> QED
      BY <1>1, <1>4, <2>1, GroupsAnswered
  <1>5. CASE goal.groups = <<>>
    <2>1. GoalRequirementsFault(tasks, goal) = "none"
      BY <1>2, <1>3, <1>5 DEF GoalFault
    <2>2. PartOf(tasks, tasks)
      BY <1>1, PlanProduces DEF PartOf
    <2>3. ASSUME Held(tasks, goal), NEW leaf \in Leaves(tasks, goal)
          PROVE  InTurn(tasks, leaf, goal)
      <3>1. leaf \in Keys(tasks)
        BY <2>3, CandidatesAreTasks DEF Leaves, Terminal
      <3>2. /\ Guaranteed(tasks, Work(goal.obligations))[leaf] = DOMAIN Work(goal.obligations)
            /\ goal.stages # <<>> => InOrder(tasks, goal.stages)[leaf] = DOMAIN goal.stages
        BY <2>1, <2>3, RequirementsChecked
      <3>3. Carries(tasks, leaf, Work(goal.obligations))
        BY <1>1, <2>2, <3>1, <3>2, CarriesAll
      <3>4. \A way \in Ways(tasks, leaf) : StageByStage(tasks, way, goal.stages)
        BY <1>1, <2>2, <3>1, <3>2, StagesFollowed
      <3> QED
        BY <3>3, <3>4 DEF InTurn
    <2> QED
      BY <1>5, <2>3
  <1> QED
    BY <1>4, <1>5

(* Of a plan that is run, whatever its size and shape and whatever the     *)
(* request demands: every demand is met on every way the records can have  *)
(* taken from an upload to a delivery, numbered stages in their order, and *)
(* any set of independent instructions has at least as many results of its *)
(* own.  (validate_goal_requirements, _validate_ordered_stages and         *)
(* _validate_independent_groups of goal_requirements.py, against the paths *)
(* of the plan and Hall's condition.)                                      *)
THEOREM GoalsAreCarried == Spec => []GoalIsCarried
  <1>1. Init => PlanCarries
    BY DEF Init, PlanCarries, NoPlan, Talk
  <1>2. WorkflowIInv /\ PlanCarries => GoalIsCarried
    BY CarriedThen DEF WorkflowIInv
  <1> QED
    BY <1>1, <1>2, WorkflowInit, WorkflowNext, CarriesNext, PTL DEF Spec
=============================================================================
