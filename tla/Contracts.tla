----------------------------- MODULE Contracts -----------------------------
(***************************************************************************)
(* The registry of tool contracts (runtime/contracts.py): for every        *)
(* operation its input ports, its one output port, the rules of its        *)
(* parameters and the policies the runtime reads from it.                  *)
(*                                                                         *)
(* The value of a parameter is the class of values a rule can tell apart:  *)
(* a number is "negative", "zero", "positive" or "fraction", a text "text" *)
(* or "blank", a member of an enumeration "listed" or "unlisted", and so   *)
(* on; a coordinate system stands for itself, "odd" for an object that is  *)
(* none, and "none" for an absent value.                                   *)
(***************************************************************************)
EXTENDS Naturals, Sequences, FiniteSets, TLC

Crs == {"WGS84", "EPSG:4326", "EPSG:3857", "GCJ02"}

-----------------------------------------------------------------------------
(* Ports.  A port takes one artifact unless it is Many; Located is a crs   *)
(* policy of "required".                                                   *)
Port(t) == [types |-> {t}, located |-> FALSE, many |-> FALSE, min |-> 1, required |-> TRUE]
Located(p) == [p EXCEPT !.located = TRUE]
Many(p, least) == [p EXCEPT !.many = TRUE, !.min = least]
Spare(p) == [p EXCEPT !.required = FALSE]

Accepts(p, type) == type \in p.types

Vector == Located(Port("Vector"))
Raster == Located(Port("Raster"))
Coordinate == Located(Port("Coordinate"))
Pairs == [Port("Coordinate") EXCEPT !.types = {"Coordinate", "Table"}]

(* Rules of parameters: the classes of values that pass, whether the       *)
(* parameter must be there, and the default that is filled in.             *)
Rule(ok) == [ok |-> ok, required |-> FALSE, default |-> "none"]
Needed(rule) == [rule EXCEPT !.required = TRUE]
Else(rule, value) == [rule EXCEPT !.default = value]

Text == Rule({"text"})
Choice == Else(Rule({"listed"}), "listed")
Length == Rule({"zero", "positive", "fraction"})
Count == Rule({"positive"})
Number == Rule({"negative", "zero", "positive", "fraction"})
Flag == Rule({"true", "false"})
Listing == Rule({"list"})
AnyListing == Rule({"list", "empty list"})
Names == Rule({"no names", "one name", "two names", "same names"})
Projection == Rule(Crs \cup {"odd"})    \* any object

NoParams == <<>>
NoPorts == <<>>

Tool(ins, port, out, params) ==
    [ins |-> ins, port |-> port, out |-> out, params |-> params]

-----------------------------------------------------------------------------
(* The operations.                                                         *)
RasterToRaster(params) == Tool([raster |-> Raster], "raster", Raster, params)
LayerToLayer(port) == Tool([input |-> port], "output", port, NoParams)
Layers(second, params) ==
    Tool([p \in {"input", second} |-> Vector], "output", Vector, params)

StrictVectorTools ==
    { <<"vector.overlay",         Layers("other", [how |-> Choice])>>,
      <<"vector.clip",            Layers("mask", NoParams)>>,
      <<"vector.extract_location", Layers("mask", [predicate |-> Choice])>>,
      <<"vector.join_location",   Layers("other", [predicate |-> Choice])>>,
      <<"vector.join_nearest",    Layers("other", [max_distance |-> Length,
                                                 k |-> Else(Count, "positive")])>>,
      <<"vector.count_points",    Tool([points |-> Vector, polygons |-> Vector], "output",
                                     Vector, NoParams)>>,
      <<"vector.snap",            Layers("other", [tolerance |-> Needed(Length)])>>,
      <<"vector.merge",           Tool([input |-> Many(Vector, 1)], "output", Vector, NoParams)>>,
      <<"vector.dissolve",        Tool([input |-> Vector], "output", Vector, [by |-> Text])>>,
      <<"vector.simplify",        Tool([input |-> Vector], "output", Vector,
                                     [tolerance |-> Needed(Length)])>>,
      <<"attribute.filter",       Tool([input |-> Vector], "output", Vector,
                                     [field |-> Needed(Text),
                                      operator |-> Needed(Rule({"listed"})),
                                      value |-> Needed(Rule({"text", "blank"})),
                                      negate |-> Else(Flag, "false")])>>,
      <<"attribute.keep_fields",  Tool([input |-> Vector], "output", Vector,
                                     [fields |-> Needed(Listing)])>>,
      <<"attribute.rename_field", Tool([input |-> Vector], "output", Vector,
                                     [old_name |-> Needed(Text), new_name |-> Needed(Text)])>>,
      <<"attribute.calculate",    Tool([input |-> Vector], "output", Vector,
                                     [field_name |-> Needed(Text), expression |-> Needed(Text),
                                      field_type |-> Choice])>> }

ToTarget == [target_crs |-> Needed(Projection)]
FromTo == [source_crs |-> Needed(Projection), target_crs |-> Needed(Projection)]

BuiltinTools ==
    { <<"io.load_vector",         Tool([file |-> Port("File")], "vector", Vector, NoParams)>>,
      <<"vector.buffer",          Tool([vector |-> Vector], "vector", Vector,
                                     [distance_m |-> Needed(Length)])>>,
      <<"map.build",              Tool([vector |-> Port("Vector")], "layer", Port("MapLayer"),
                                     NoParams)>>,
      <<"file.export",            Tool([input |-> Vector], "file", Port("File"),
                                     [format |-> Else(Rule({"geojson", "gpkg"}), "geojson")])>>,
      <<"publish_file",           Tool([input |-> Port("File")], "file", Port("File"),
                                     [path |-> Needed(Rule({"inside", "outside", "blank"}))])>>,
      <<"vector.reproject",       Tool([vector |-> Vector], "vector", Vector, ToTarget)>>,
      <<"vector.reproject_many",  Tool([vector |-> Many(Vector, 0)], "vector", Many(Vector, 0),
                                     ToTarget)>>,
      <<"raster.reproject",       RasterToRaster(ToTarget)>>,
      <<"raster.reproject_many",  Tool([raster |-> Many(Port("Raster"), 0)], "raster",
                                     Many(Port("Raster"), 0), ToTarget)>>,
      <<"coordinate.convert",     Tool([coordinates |-> Pairs], "coordinates", Port("Coordinate"),
                                     FromTo)>>,
      <<"vector.convert_datum",   Tool([vector |-> Port("Vector")], "vector", Port("Vector"),
                                     FromTo)>>,
      <<"code.execute",           Tool([input |-> Spare(Many(Port("File"), 0))], "output",
                                     Port("File"),
                                     [source_code |-> Needed(Rule({"safe", "banned"})),
                                      declared_inputs |-> Names])>> }

(* Everything else of PUBLIC_OPERATIONS.                                   *)
PublicTools ==
    { <<"geo.geocode",            Tool(NoPorts, "result", Coordinate, [address |-> Needed(Text)])>>,
      <<"geo.transform",          Tool(NoPorts, "result", Coordinate,
                                     [lng |-> Needed(Number), lat |-> Needed(Number),
                                      source_crs |-> Needed(Projection),
                                      target_crs |-> Needed(Projection)])>>,
      <<"poi.search",             Tool([location |-> Coordinate], "result", Located(Port("POISet")),
                                     [query |-> Needed(Text), radius |-> Else(Count, "positive")])>>,
      <<"vector.isochrone",       Tool([origin |-> Coordinate], "vector", Vector,
                                     [mode |-> Needed(Rule({"listed"})), time_min |-> Needed(Count)])>>,
      <<"raster.vectorize",       Tool([vector |-> Vector], "raster", Raster,
                                     [out_shape |-> Needed(Listing), transform |-> Needed(Listing),
                                      crs |-> Needed(Projection)])>>,
      <<"raster.polygonize",      Tool([raster |-> Raster], "vector", Vector, [band |-> Count])>>,
      <<"raster.contour",         Tool([raster |-> Raster], "vector", Vector, [interval |-> Number])>>,
      <<"raster.clip_mask",       Tool([raster |-> Raster, mask |-> Vector], "raster", Raster, NoParams)>>,
      <<"raster.zonal_statistics", Tool([raster |-> Raster, zones |-> Vector], "table", Port("Table"),
                                      [stats |-> AnyListing])>>,
      <<"raster.sample",          Tool([raster |-> Raster, points |-> Vector], "table", Port("Table"),
                                     NoParams)>>,
      <<"raster.clip_extent",     RasterToRaster([bbox |-> Needed(Listing)])>>,
      <<"raster.calculate",       RasterToRaster([expression |-> Needed(Text)])>>,
      <<"raster.reclassify",      RasterToRaster([bins |-> Needed(Listing), values |-> Needed(Listing)])>>,
      <<"raster.slope",           RasterToRaster([degree |-> Else(Flag, "true")])>>,
      <<"raster.hillshade",       RasterToRaster([azimuth |-> Else(Length, "positive"),
                                                altitude |-> Else(Length, "positive")])>>,
      <<"raster.tpi",             RasterToRaster([radius |-> Else(Count, "positive")])>>,
      <<"io.load_raster",         Tool([file |-> Port("File")], "raster", Raster, NoParams)>>,
      <<"io.load_csv",            Tool([file |-> Port("File")], "table", Port("Table"), NoParams)>>,
      <<"io.read_upload",         Tool([file |-> Port("File")], "result", Port("File"), NoParams)>>,
      <<"io.csv_to_points",       Tool([input |-> Port("Table")], "vector", Vector,
                                     [x_col |-> Else(Text, "text"), y_col |-> Else(Text, "text"),
                                      crs |-> Else(Projection, "EPSG:4326")])>>,
      <<"io.summarize",           Tool([input |-> Port("Vector")], "summary", Port("Table"), NoParams)>>,
      <<"vector.check_validity",  Tool([input |-> Vector], "result", Port("Table"), NoParams)>> }
        \cup {<<op, RasterToRaster(NoParams)>> : op \in {"raster.aspect", "raster.tri", "raster.roughness"}}
        \cup {<<op, LayerToLayer(Port("Vector"))>> :
                op \in {"vector.voronoi", "vector.convex_hull", "vector.bounding_boxes",
                        "vector.centroid", "vector.point_on_surface", "vector.fix_geometries",
                        "vector.multipart_to_singlepart", "vector.delete_duplicates"}}

(* No name is in two of them: the loop over the public operations skips    *)
(* those that are built in or have a strict contract.                      *)
Tools == BuiltinTools \cup StrictVectorTools \cup PublicTools
Operations == {tool[1] : tool \in Tools}
Registry == [op \in Operations |-> (CHOOSE tool \in Tools : tool[1] = op)[2]]

CanonicalName(op) == IF op = "io.export" THEN "publish_file" ELSE op
Known(op) == CanonicalName(op) \in Operations
Contract(op) == Registry[CanonicalName(op)]

(* Policies of a contract.                                                 *)
MayBeEmpty(op) == op \in {"vector.check_validity", "io.summarize"}
HasSideEffect(op) == op = "publish_file"
=============================================================================
