------------------------------ MODULE Handlers ------------------------------
(***************************************************************************)
(* What the handlers of runtime/tool_handlers.py do to the coordinates of  *)
(* their inputs, and what is verified of a result before it is published:  *)
(* runtime/postconditions.py, the executor, the artifact store.            *)
(*                                                                         *)
(* Coordinates are abstracted to a frame: the system the numbers really    *)
(* are in.  Beside it a payload carries what the code can see, the         *)
(* physical CRS it is written with (carrier), the GCJ02 label, and what    *)
(* kind of bytes it holds.  Numbers a conversion was applied to that was   *)
(* made for another frame are "astray"; when the plan itself told the      *)
(* conversion a false source they are "misstated".                         *)
(*                                                                         *)
(* An artifact is [type, crs, declared, inspected, valid, data]: declared  *)
(* is the CRS a user gave for an uploaded file, inspected whether the file *)
(* was looked into when it came.                                           *)
(***************************************************************************)
EXTENDS Contracts, SequencesExt

Lonlat == "EPSG:4326"
Physical(crs) == CASE crs = "WGS84" -> Lonlat [] OTHER -> crs
Named(crs) == crs \in Crs
Geographic(crs) == crs \in {"WGS84", Lonlat}

Payload(frame, carrier, label) ==
    [frame |-> frame, carrier |-> carrier, label |-> label, holds |-> "Vector"]
Place(frame) == [Payload(frame, "none", FALSE) EXCEPT !.holds = "Place"]
Unplaced(kind) == [Place("none") EXCEPT !.holds = kind]    \* rows, bytes

-----------------------------------------------------------------------------
(* Frames.                                                                 *)
Moved(frame, from, to) ==
    CASE from = to \/ frame = "misstated" -> frame
      [] frame = from -> to
      [] OTHER -> "astray"

ToCrs(g, crs) == [g EXCEPT !.carrier = crs, !.frame = Moved(@, g.carrier, crs)]
Relabelled(g, crs) == [g EXCEPT !.carrier = crs]      \* set_crs(allow_override=True)

(* What a payload of to_json says of itself: lon/lat is not named.         *)
Plain(g) == [g EXCEPT !.carrier = IF @ = Lonlat THEN "none" ELSE @, !.label = FALSE]

(* _ensure_wgs84 and _to_gcj02_output of the analyzer.                     *)
Unshifted(g) == Payload(Moved(g.frame, "GCJ02", Lonlat), Lonlat, FALSE)
(* Mutation of EnsureWgs84: the label is overlooked.                       *)
EnsureWgs84Unlabelled(g) == ToCrs(g, Lonlat)
EnsureWgs84(g) == IF g.label THEN Unshifted(g) ELSE ToCrs(g, Lonlat)
ToGcj02(g) == Payload(Moved(ToCrs(g, Lonlat).frame, Lonlat, "GCJ02"), Lonlat, TRUE)

(* The layer a handler reads: the CRS of the artifact outranks what the    *)
(* payload says of itself.                                                 *)
Gdf(a) ==
    IF a.crs = "none" THEN Payload(a.data.frame, Lonlat, a.data.label)
    ELSE Payload(a.data.frame, IF a.crs = "GCJ02" THEN Lonlat ELSE Physical(a.crs), a.crs = "GCJ02")

VectorCrs(a) == IF a.crs # "none" THEN a.crs ELSE IF a.data.label THEN "GCJ02" ELSE Lonlat

(* _coerce_vector_output: back to the CRS the result is to have.           *)
Coerced(g, crs) ==
    LET plain == IF g.label THEN EnsureWgs84(g) ELSE g
    IN  CASE crs = "GCJ02" -> IF g.label THEN Relabelled(g, Lonlat) ELSE ToGcj02(EnsureWgs84(g))
          [] Geographic(crs) -> Relabelled(plain, Lonlat)
          [] OTHER -> ToCrs(plain, crs)

-----------------------------------------------------------------------------
(* Handlers.  A result is the payloads, none when the handler refuses.     *)
Refused == <<>>
Only(g) == <<g>>
If(holds, results) == IF holds THEN results ELSE Refused
Each(results) == If(Refused \notin ToSet(results), FlattenSeq(results))

(* Analysis of layers (_METHODS).  Layers that are only filtered keep      *)
(* their numbers; the others go through WGS84 and come back as GCJ02.      *)
AttributeTools == {"attribute.rename_field", "attribute.keep_fields", "attribute.filter"}
SelectionTools == {"vector.clip", "vector.extract_location"}
KeepsNumbers == AttributeTools \cup SelectionTools \cup {"vector.point_on_surface"}
Aggregates == {"vector.dissolve", "vector.join_nearest", "vector.count_points"}

Level(layers) ==
    LET wgs == [i \in DOMAIN layers |-> EnsureWgs84(layers[i])]
    IN  IF \A i \in DOMAIN wgs : wgs[i].frame = wgs[1].frame THEN wgs[1]
        ELSE [wgs[1] EXCEPT !.frame = IF \E g \in ToSet(wgs) : g.frame = "misstated"
                                      THEN "misstated" ELSE "astray"]

(* The layers the shapes of a result come from: a join keeps those of its  *)
(* first layer, a count those of the polygons.                             *)
Shapes(op, layers) ==
    CASE op \in {"vector.join_location", "vector.join_nearest"} -> <<layers[1]>>
      [] op = "vector.count_points" -> <<layers[2]>>
      [] OTHER -> layers

Selected(layers, crs) ==
    If(\A g \in ToSet(layers) : g.carrier = layers[1].carrier /\ g.label = layers[1].label,
       Only(Coerced(layers[1], crs)))
Reshaped(layers, crs) == Only(Coerced(ToGcj02(Level(layers)), crs))

Analysed(op, layers, crs) ==
    IF op \in KeepsNumbers THEN Selected(layers, crs) ELSE Reshaped(Shapes(op, layers), crs)

Merged(arts) ==
    LET layers == [i \in DOMAIN arts |-> Gdf(arts[i])]
    IN  If(\A g \in ToSet(layers) : g.carrier = layers[1].carrier,
           Reshaped(layers, VectorCrs(arts[1])))

(* The ports a layer handler reads, the one that decides the CRS first.    *)
LayersOf(op) ==
    CASE op \in {"vector.clip", "vector.extract_location"} -> <<"input", "mask">>
      [] op \in {"vector.overlay", "vector.join_location", "vector.join_nearest", "vector.snap"} ->
            <<"input", "other">>
      [] op = "vector.count_points" -> <<"points", "polygons">>
      [] op = "vector.buffer" -> <<"vector">>
      [] OTHER -> <<"input">>

(* Only the EPSG kind of a target becomes a name pyproj knows.             *)
Reprojected(a, target) ==
    If(target \notin {"GCJ02", "WGS84"}, Only(Coerced(ToCrs(EnsureWgs84(Gdf(a)), target), target)))

(* A conversion between datums believes the CRS it is told.                *)
Told(g, source) ==
    IF g.frame = Physical(source) THEN g ELSE [g EXCEPT !.frame = "misstated"]
Splits(source, target) ==      \* GCJ02 to a projection must go by way of WGS84
    source # target /\ "GCJ02" \in {source, target} /\ ~ \E c \in {source, target} : Geographic(c)

DatumConverted(a, source, target) ==
    LET g == Told(Gdf(a), source)
        lonlat == Relabelled(g, Lonlat)
    IN  If(~Splits(source, target),
           IF Physical(source) = Physical(target) THEN Only(g)
           ELSE CASE target = "GCJ02" -> Only(ToGcj02(lonlat))
                  [] source = "GCJ02" -> Only(EnsureWgs84([lonlat EXCEPT !.label = TRUE]))
                  [] OTHER -> Only(ToCrs(Relabelled(g, Physical(source)), Physical(target))))

PairConverted(pair, source, target) ==
    If(~Splits(source, target),
       Only(Place(Moved(Told(pair, source).frame, Physical(source), Physical(target)))))

-----------------------------------------------------------------------------
(* Rasters keep the CRS of their file, whatever the metadata says.         *)
RasterReprojected(a, target) == If(target # "GCJ02", Only(ToCrs(a.data, Physical(target))))

Rasterised(a, crs) ==
    If(crs \notin {"GCJ02", "odd"},
       Only([ToCrs(EnsureWgs84(Gdf(a)), Physical(crs)) EXCEPT !.holds = "Raster"]))

Outlined(a) == Only([Plain(a.data) EXCEPT !.holds = "Vector"])

(* Loading a file: the CRS in the file, else the declared one.  A file no  *)
(* inspection has seen is read as it is.                                   *)
EffectiveCrs(a) == IF a.crs # "none" THEN a.crs ELSE a.declared
DeclarationHolds(a) ==
    \/ a.crs = "none" \/ a.declared = "none"
    \/ a.declared # "GCJ02" /\ Physical(a.declared) = Physical(a.crs)

VectorRead(a) ==
    IF ~a.inspected THEN If(a.data.holds = "Vector", Only(Plain(a.data)))
    ELSE If(a.data.holds = "Vector" /\ EffectiveCrs(a) # "none" /\ DeclarationHolds(a),
            IF EffectiveCrs(a) = "GCJ02" THEN Only(Payload(a.data.frame, Lonlat, TRUE))
            ELSE Only(Payload(a.data.frame, Physical(EffectiveCrs(a)), FALSE)))

RasterRead(a) ==
    If(a.data.holds = "Raster",
       IF ~a.inspected THEN Only(a.data)
       ELSE If(EffectiveCrs(a) \notin {"none", "GCJ02"} /\ DeclarationHolds(a),
               Only([a.data EXCEPT !.carrier = Physical(EffectiveCrs(a))])))

(* Points of a table: the two columns are numbers of the CRS that is told. *)
PointsRead(crs) ==
    LET told == IF crs = "odd" THEN Lonlat ELSE Physical(crs)
    IN  If(told # "GCJ02", Only(Plain(Payload(told, told, FALSE))))

(* Export: the numbers and the metadata must agree.                        *)
Exported(a, format) ==
    LET g == Payload(a.data.frame, Physical(a.crs), FALSE)
    IN  If(/\ Named(a.crs) /\ a.crs # "GCJ02" /\ ~a.data.label
           /\ a.data.carrier \in {"none", Physical(a.crs)},
           Only(IF format = "geojson" THEN ToCrs(g, Lonlat) ELSE g))

(* The handler of an operation; given[p] is the artifacts of port p.  The  *)
(* services look up places in GCJ02; an isochrone starts from nowhere      *)
(* else, and does not label what it returns.                               *)
Handle(op, given, params) ==
    LET the(port) == given[port][1]
        reproject(a) == Reprojected(a, params.target_crs)
        resample(a) == RasterReprojected(a, params.target_crs)
        layers == [i \in DOMAIN LayersOf(op) |-> Gdf(the(LayersOf(op)[i]))]
    IN  CASE op = "vector.merge" -> Merged(given["input"])
          [] op = "vector.reproject" -> reproject(the("vector"))
          [] op = "vector.reproject_many" ->
                Each([i \in DOMAIN given["vector"] |-> reproject(given["vector"][i])])
          [] op = "vector.convert_datum" ->
                DatumConverted(the("vector"), params.source_crs, params.target_crs)
          [] op = "coordinate.convert" ->
                If(the("coordinates").type = "Coordinate",
                   PairConverted(the("coordinates").data, params.source_crs, params.target_crs))
          [] op = "geo.transform" ->
                PairConverted(Place(Physical(params.source_crs)), params.source_crs, params.target_crs)
          [] op \in {"geo.geocode", "poi.search"} -> Only(Place("GCJ02"))
          [] op = "vector.isochrone" ->
                If(the("origin").crs = "GCJ02", Only(Payload("GCJ02", "none", FALSE)))
          [] op = "map.build" -> Only(the("vector").data)
          [] op = "file.export" -> Exported(the("input"), params.format)
          [] op = "io.load_vector" -> VectorRead(the("file"))
          [] op = "io.load_raster" -> RasterRead(the("file"))
          [] op = "io.load_csv" -> If(the("file").data.holds = "Table", Only(Unplaced("Table")))
          [] op = "io.csv_to_points" -> PointsRead(params.crs)
          [] op = "io.read_upload" -> Only(the("file").data)
          [] op = "raster.reproject" -> resample(the("raster"))
          [] op = "raster.reproject_many" ->
                Each([i \in DOMAIN given["raster"] |-> resample(given["raster"][i])])
          [] op = "raster.vectorize" -> Rasterised(the("vector"), params.crs)
          [] op = "raster.contour" ->
                If("interval" \in DOMAIN params => params.interval \in {"positive", "fraction"},
                   Outlined(the("raster")))
          [] op = "raster.polygonize" -> Outlined(the("raster"))
          [] op = "code.execute" -> Only(Unplaced("bytes"))
          [] OTHER -> IF Contract(op).out.types = {"Table"} THEN Only(Unplaced("Table"))
                      ELSE IF Contract(op).out.types = {"Raster"} THEN Only(the("raster").data)
                      ELSE Analysed(op, layers, VectorCrs(the(LayersOf(op)[1])))

-----------------------------------------------------------------------------
(* Verification.  Postconditions that work out the result again from the   *)
(* inputs find every number of another frame.                              *)
PreservesCrs(a, g) ==
    /\ g.carrier \in {"none", IF a.crs = "GCJ02" THEN Lonlat ELSE Physical(a.crs)}
    /\ g.label => a.crs = "GCJ02"

(* Filters and clips must return the numbers they read, a buffer is        *)
(* measured around its source and an aggregate is rebuilt from its layers, *)
(* each brought to WGS84 from the CRS of its metadata.                     *)
InWgs84(frame, crs) == Moved(frame, Physical(crs), Lonlat)
SameRecords(a, g) == PreservesCrs(a, g) /\ g.frame = a.data.frame
SameBuffer(a, g) ==
    PreservesCrs(a, g) /\ InWgs84(g.frame, a.crs) = InWgs84(a.data.frame, a.crs)
SameAggregate(op, arts, g) ==
    LET shapes == Shapes(op, arts)[1]
        crs == arts[1].crs
    IN  /\ PreservesCrs(arts[1], g)
        /\ g.frame = Moved(InWgs84(shapes.data.frame, shapes.crs), Lonlat, Physical(crs))

ReprojectionHolds(a, params, g) ==
    LET told == "source_crs" \in DOMAIN params
        source == IF told THEN params.source_crs ELSE a.crs
        frame == IF told THEN Told(a.data, source).frame ELSE a.data.frame
        target == params.target_crs
    IN  /\ IF target = "GCJ02" THEN g.carrier \in {"none", Lonlat} /\ g.label
           ELSE g.carrier = Physical(target)
        /\ source # "none"
        /\ g.frame = Moved(frame, Physical(source), Physical(target))

Postcondition(op, given, params, results) ==
    LET arts == [i \in DOMAIN LayersOf(op) |-> given[LayersOf(op)[i]][1]]
        g == results[1]
        each(port, Holds(_, _)) ==
            /\ Len(results) = Len(given[port])
            /\ \A i \in DOMAIN results : Holds(given[port][i], results[i])
        reprojected(a, x) == ReprojectionHolds(a, params, x)
        resampled(a, x) == x.carrier = Physical(params.target_crs)
    IN  CASE op \in KeepsNumbers -> SameRecords(arts[1], g)
          [] op = "vector.buffer" -> SameBuffer(arts[1], g)
          [] op \in Aggregates -> SameAggregate(op, arts, g)
          [] op \in {"vector.reproject", "vector.reproject_many", "vector.convert_datum"} ->
                each("vector", reprojected)
          [] op \in {"raster.reproject", "raster.reproject_many"} -> each("raster", resampled)
          [] op = "raster.slope" -> Physical(given["raster"][1].crs) \in {"none", g.carrier}
          [] OTHER -> TRUE

(* The executor compares a layer with the metadata of the port, the store  *)
(* the bytes with what they are published as.                              *)
ExecutorAccepts(out, g) ==
    out.type = "Vector" =>
        IF out.crs = "GCJ02" THEN g.label /\ g.carrier \in {"none", Lonlat}
        ELSE ~g.label /\ (Named(out.crs) => g.carrier \in {"none", Physical(out.crs)})

StoreAccepts(out, g) ==
    LET carrier == IF out.crs = "GCJ02" THEN Lonlat ELSE Physical(out.crs)
    IN  CASE out.type = "Vector" -> /\ Named(out.crs) /\ g.carrier \in {"none", carrier}
                                    /\ g.label => out.crs = "GCJ02"
          [] out.type = "Raster" -> Named(out.crs) /\ out.crs # "GCJ02" /\ g.carrier = carrier
          [] out.type \in {"Coordinate", "POISet"} -> out.crs # "none"
          [] OTHER -> TRUE

(* The gate before the handler: a list where the port is Many and nowhere  *)
(* else, its members artifacts.  A reference to all outputs is a list.     *)
Fits(binding, port) ==
    LET whole(r) == r.kind = "task" /\ r.all
    IN  IF port.many /\ port.required
        THEN IF binding.list THEN \A r \in ToSet(binding.refs) : ~whole(r) ELSE whole(binding.refs[1])
        ELSE port.many = (binding.list \/ whole(binding.refs[1]))
=============================================================================
