----------------------------- MODULE SpatialCodec -----------------------------
(***************************************************************************)
(* SQL Server's native serialization of geometry and geography: a table of *)
(* points, a table of figures (runs of points) and a table of shapes that  *)
(* name their parents.  Figures and shapes refer to tables by 0-based      *)
(* offsets, -1 for nothing.                                                *)
(*                                                                         *)
(* Geometries are tuples that begin with their kind.  A payload is a       *)
(* record; that it is laid out little-endian is left out, that it may end  *)
(* too early is not.                                                       *)
(***************************************************************************)
EXTENDS Integers, Sequences, SequencesExt, FiniteSetsExt

CONSTANT MaxNesting \* bound: collections within one another

ASSUME NestingAssumption == MaxNesting \in Nat

Broken == <<>>
Built(x) == <<x>>

Polygon(exterior, interiors) == [exterior |-> exterior, interiors |-> interiors]

\* The numbers of a set in ascending order.
InOrder(S) == CHOOSE s \in SetToSeqs(S) : \A j, k \in DOMAIN s : j < k => s[j] < s[k]

\* geo_types closes the rings of a polygon.
Closed(ring) == IF ring = <<>> \/ Head(ring) = Last(ring) THEN ring ELSE Append(ring, Head(ring))

\* Geometry<f64>, with a number for a point.
Rings == {ring \in Seq(Nat) : Closed(ring) = ring}
PolygonType == [exterior : Rings, interiors : Seq(Rings)]
Simple ==
    ({"point"} \X Nat) \cup ({"line"} \X (Nat \X Nat)) \cup ({"linestring"} \X Seq(Nat))
        \cup ({"polygon"} \X PolygonType) \cup ({"multipoint"} \X Seq(Nat))
        \cup ({"multilinestring"} \X Seq(Seq(Nat))) \cup ({"multipolygon"} \X Seq(PolygonType))
NestedUpTo[n \in 0 .. MaxNesting] ==
    IF n = 0 THEN Simple ELSE NestedUpTo[n - 1] \cup ({"collection"} \X Seq(NestedUpTo[n - 1]))
Geometries == NestedUpTo[MaxNesting]

\* A byte that is none of the known ones is "other".
Attributes == {"interior", "stroke", "exterior", "other"}
ShapeTypes ==
    {"point", "linestring", "polygon", "multipoint", "multilinestring", "multipolygon",
     "collection", "circularstring", "compoundcurve", "curvepolygon", "fullglobe", "other"}
Tables ==
    [points : Seq(Nat),
     figures : Seq([attribute : Attributes, point_offset : Nat]),
     shapes : Seq([parent : Int, figure_offset : Int, type : ShapeTypes])]

\* Where a geometry goes: into these tables, below that shape.
Places == [tables : Tables, parent : Int]
Place(tables, parent) == [tables |-> tables, parent |-> parent]

-----------------------------------------------------------------------------
(* Encoding. *)

NoTables == [points |-> <<>>, figures |-> <<>>, shapes |-> <<>>]

PushFigure(tables, attribute, points) ==
    [points |-> tables.points \o points,
     figures |-> Append(tables.figures, [attribute |-> attribute,
                                         point_offset |-> Len(tables.points)]),
     shapes |-> tables.shapes]

PushShape(tables, parent, figure_offset, type) ==
    [points |-> tables.points,
     figures |-> tables.figures,
     shapes |-> Append(tables.shapes, [parent |-> parent, figure_offset |-> figure_offset,
                                       type |-> type])]

\* A slip: an empty shape begins where the next figure will.
SlipEmptyHere(tables, parent, type) == PushShape(tables, parent, Len(tables.figures), type)

PushEmptyShape(tables, parent, type) == PushShape(tables, parent, -1, type)

\* One figure, with the shape it makes.
EncodeStroke(tables, parent, points, type) ==
    PushShape(PushFigure(tables, "stroke", points), parent, Len(tables.figures), type)

EncodeLineString(tables, parent, points) ==
    IF points = <<>> THEN PushEmptyShape(tables, parent, "linestring")
    ELSE EncodeStroke(tables, parent, points, "linestring")

\* Empty interior rings are left out; an empty exterior is not, unless all are.
NonEmpty(rings) ==
    LET kept == InOrder({i \in DOMAIN rings : rings[i] # <<>>})
    IN  [k \in DOMAIN kept |-> rings[kept[k]]]

EncodePolygon(tables, parent, polygon) ==
    LET rings == NonEmpty(polygon.interiors)
        pushed[k \in 0 .. Len(rings)] ==
            IF k = 0 THEN PushFigure(tables, "exterior", polygon.exterior)
            ELSE PushFigure(pushed[k - 1], "interior", rings[k])
    IN  IF polygon.exterior = <<>> /\ rings = <<>>
        THEN PushEmptyShape(tables, parent, "polygon")
        ELSE PushShape(pushed[Len(rings)], parent, Len(tables.figures), "polygon")

\* A part of a geometry; what encodes the parts of a collection is passed on.
EncodePart(encode, kind, tables, index, part) ==
    CASE kind = "multipoint"      -> EncodeStroke(tables, index, <<part>>, "point")
      [] kind = "multilinestring" -> EncodeLineString(tables, index, part)
      [] kind = "multipolygon"    -> EncodePolygon(tables, index, part)
      [] kind = "collection"      -> encode[part][Place(tables, index)]

EncodeParts(encode, kind, parts, tables, parent) ==
    LET encoded[k \in 0 .. Len(parts)] ==
            IF k = 0 THEN PushShape(tables, parent, Len(tables.figures), kind)
            ELSE EncodePart(encode, kind, encoded[k - 1], Len(tables.shapes), parts[k])
    IN  IF parts = <<>> THEN PushEmptyShape(tables, parent, kind) ELSE encoded[Len(parts)]

\* The tables with the geometry in them.  A Rect or a Triangle is encoded as the
\* polygon it is.
EncodeGeometry[geometry \in Geometries] ==
    [place \in Places |->
        LET kind == geometry[1]
            parts == geometry[2]
            tables == place.tables
            parent == place.parent
        IN  CASE kind = "point" -> EncodeStroke(tables, parent, <<parts>>, "point")
              [] kind = "line" -> EncodeStroke(tables, parent, parts, "linestring")
              [] kind = "linestring" -> EncodeLineString(tables, parent, parts)
              [] kind = "polygon" -> EncodePolygon(tables, parent, parts)
              [] OTHER -> EncodeParts(EncodeGeometry, kind, parts, tables, parent)]

EncodePayload(srid, geometry) ==
    [srid |-> srid, version |-> 1, properties |-> {}, truncated |-> FALSE,
     tables |-> EncodeGeometry[geometry][Place(NoTables, -1)]]

-----------------------------------------------------------------------------
(* Decoding. *)

\* A slip: a figure ends where the next one in the table begins.
SlipNextFigure(figure_offset, tables) ==
    LET start == tables.figures[figure_offset + 1].point_offset
        end == IF figure_offset + 2 > Len(tables.figures) THEN Len(tables.points) - 1
               ELSE tables.figures[figure_offset + 2].point_offset
    IN  IF figure_offset < 0 THEN Built(<<>>) ELSE Built(SubSeq(tables.points, start + 1, end))

\* The points of a figure reach to the next higher offset in the table.
FigureCoords(figure_offset, tables) ==
    IF figure_offset < 0 THEN Built(<<>>)
    ELSE IF figure_offset >= Len(tables.figures) THEN Broken
    ELSE LET start == tables.figures[figure_offset + 1].point_offset
             later == {o \in {tables.figures[i].point_offset : i \in DOMAIN tables.figures} :
                           o > start}
             end == IF later = {} THEN Len(tables.points) ELSE Min(later)
         IN  IF start > end \/ end > Len(tables.points) THEN Broken
             ELSE Built(SubSeq(tables.points, start + 1, end))

\* geo_types has no empty point.
FirstCoord(figure_offset, tables) ==
    LET coords == FigureCoords(figure_offset, tables)
    IN  IF coords = Broken \/ coords = Built(<<>>) THEN Broken ELSE Built(coords[1][1])

\* All of a sequence of results, or an error.
Collected(results) ==
    IF Broken \in Range(results) THEN Broken ELSE Built([i \in DOMAIN results |-> results[i][1]])

NewPolygon(exterior, interiors) ==
    Polygon(Closed(exterior), [i \in DOMAIN interiors |-> Closed(interiors[i])])

\* Interior rings are the figures after the exterior one, up to the next.
BuildPolygon(figure_offset, tables) ==
    IF figure_offset < 0 THEN Built(Polygon(<<>>, <<>>))
    ELSE LET figures == tables.figures
             first == figure_offset + 2
             interior == InOrder({i \in first .. Len(figures) :
                                     /\ figures[i].attribute = "interior"
                                     /\ \A j \in first .. i : figures[j].attribute # "exterior"})
             exterior == FigureCoords(figure_offset, tables)
             rings == Collected([k \in DOMAIN interior |-> FigureCoords(interior[k] - 1, tables)])
         IN  IF exterior = Broken \/ rings = Broken THEN Broken
             ELSE Built(NewPolygon(exterior[1], rings[1]))

\* A slip: children are all the shapes that follow.
SlipAllFollow(index, shapes) == [i \in 1 .. Len(shapes) - index |-> i + index]

Children(index, shapes) == InOrder({i \in DOMAIN shapes : shapes[i].parent = index - 1})

\* Shapes are numbered from 1 here, their parents from 0; what builds the shapes
\* of a collection is passed on.  Curves and globes, and a shape type nobody
\* knows, are refused.
ShapeAt(index, tables, build) ==
    LET shape == tables.shapes[index]
        children == Children(index, tables.shapes)
        offsets == [k \in DOMAIN children |-> tables.shapes[children[k]].figure_offset]
        parts ==
            CASE shape.type = "point" -> FirstCoord(shape.figure_offset, tables)
              [] shape.type = "linestring" -> FigureCoords(shape.figure_offset, tables)
              [] shape.type = "polygon" -> BuildPolygon(shape.figure_offset, tables)
              [] shape.type = "multipoint" ->
                    Collected([k \in DOMAIN children |-> FirstCoord(offsets[k], tables)])
              [] shape.type = "multilinestring" ->
                    Collected([k \in DOMAIN children |-> FigureCoords(offsets[k], tables)])
              [] shape.type = "multipolygon" ->
                    Collected([k \in DOMAIN children |-> BuildPolygon(offsets[k], tables)])
              [] shape.type = "collection" ->
                    Collected([k \in DOMAIN children |-> build[children[k]]])
              [] OTHER -> Broken
    IN  IF parts = Broken THEN Broken ELSE Built(<<shape.type, parts[1]>>)

BuildShape(top, tables) ==
    LET build[index \in DOMAIN tables.shapes] == ShapeAt(index, tables, build)
    IN  build[top]

\* The short forms of one point and of one segment have points only.
Expanded(payload) ==
    LET type == IF "single_point" \in payload.properties THEN "point" ELSE "linestring"
    IN  IF payload.properties \cap {"single_point", "single_line"} = {} THEN payload.tables
        ELSE EncodeStroke(NoTables, -1, payload.tables.points, type)

DecodePayload(payload) ==
    LET tables == Expanded(payload)
        top == SelectInSeq(tables.shapes, LAMBDA shape : shape.parent = -1)
        shape == BuildShape(top, tables)
    IN  IF \/ payload.truncated
           \/ payload.version # 1
           \/ payload.properties \cap {"z", "m"} # {}
           \/ top = 0
           \/ shape = Broken
        THEN Broken
        ELSE Built(<<payload.srid, shape[1]>>)

-----------------------------------------------------------------------------
(* What can come back, said without the tables. *)

\* A geometry as it can come back: a Line as the LineString it is, a polygon
\* without its empty interior rings.
NormalPolygon(polygon) ==
    Polygon(polygon.exterior, NonEmpty(polygon.interiors))
Normal[geometry \in Geometries] ==
    LET kind == geometry[1]
        parts == geometry[2]
    IN  CASE kind = "line"         -> <<"linestring", parts>>
          [] kind = "polygon"      -> <<kind, NormalPolygon(parts)>>
          [] kind = "multipolygon" -> <<kind, [i \in DOMAIN parts |-> NormalPolygon(parts[i])]>>
          [] kind \in {"point", "linestring", "multipoint", "multilinestring"} -> geometry
          [] OTHER                 -> <<kind, [i \in DOMAIN parts |-> Normal[parts[i]]]>>

PolygonsOf[geometry \in Geometries] ==
    CASE geometry[1] = "polygon"      -> {geometry[2]}
      [] geometry[1] = "multipolygon" -> Range(geometry[2])
      [] geometry[1] \notin {"polygon", "multipolygon", "collection"} -> {}
      [] OTHER                        -> UNION {PolygonsOf[g] : g \in Range(geometry[2])}

\* A polygon without an exterior ring that has an interior one.
NoExterior(geometry) ==
    \E polygon \in PolygonsOf[geometry] :
        polygon.exterior = <<>> /\ NormalPolygon(polygon).interiors # <<>>

=============================================================================
