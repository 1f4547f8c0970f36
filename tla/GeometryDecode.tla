--------------------------- MODULE GeometryDecode ---------------------------
(***************************************************************************)
(* WKB rows decoded into GeoArrow arrays (engine/src/wkb.rs, geoarrow.rs). *)
(* A row is a sequence of bytes; the counts and type codes are U32Bytes    *)
(* wide and a coordinate F64Bytes, so that the byte orders, the top bits   *)
(* of a type code, a cut row and a row with bytes left over are what they  *)
(* are in the code.  A coordinate is the number its bytes spell.           *)
(***************************************************************************)
EXTENDS Integers, SequencesExt, FiniteSetsExt

CONSTANTS U32Bytes, F64Bytes, NaN, NegativeZero

Byte == 256
Encoding == {"Polygon", "MultiPolygon", "Point", "LineString", "MultiLineString"}

\* kind_of; a declared name is given in lower case, as eq_ignore_ascii_case compares it.
KindOf(name) == CASE name \in {"polygon", "multipolygon"} -> "polygonal"
                  [] name = "point" -> "point"
                  [] name \in {"linestring", "multilinestring"} -> "line"
                  [] OTHER -> "none"

\* encoding_for_declared_types; no declaration and an empty one are the same.
EncodingForDeclaredTypes(types) ==
    CASE types = {} -> "MultiPolygon"
      [] "none" \in {KindOf(t) : t \in types} -> "refused"
      [] types = {"point"} -> "Point"
      [] types = {"polygon"} -> "Polygon"
      [] {KindOf(t) : t \in types} = {"polygonal"} -> "MultiPolygon"
      [] types = {"linestring"} -> "LineString"
      [] {KindOf(t) : t \in types} = {"line"} -> "MultiLineString"
      [] OTHER -> "refused"

-----------------------------------------------------------------------------
\* The reader: [b, at, little, ok, v] with the builder it fills in `to`; v is the last
\* number read.

Fail(r) == [r EXCEPT !.ok = FALSE]

Number(bytes, little) ==
    FoldLeft(LAMBDA n, x : n * Byte + x, 0, IF little THEN Reverse(bytes) ELSE bytes)

Take(r, n) ==
    IF ~r.ok \/ r.at + n > Len(r.b) THEN Fail(r)
    ELSE [r EXCEPT !.at = @ + n, !.v = Number(SubSeq(r.b, r.at + 1, r.at + n), r.little)]

U32(r) == Take(r, U32Bytes)
F64(r) == Take(r, F64Bytes)

\* Reader::new and byte_order.
\* A bug: a part's own byte order is read and not adopted.
ByteOrderKept(r) == Take(r, 1)

ByteOrder(r) == LET t == Take(r, 1) IN IF t.ok /\ t.v \in {0, 1} THEN [t EXCEPT !.little = (t.v = 1)] ELSE Fail(t)

Reader(b, to) ==
    LET r == Take([b |-> b, at |-> 0, little |-> TRUE, ok |-> TRUE, v |-> 0, to |-> to], 1)
    IN IF r.ok /\ r.v \in {0, 1} THEN [r EXCEPT !.little = (r.v = 1)] ELSE Fail(r)

IsExhausted(r) == r.at = Len(r.b)

\* A type code without the three EWKB flags, its top bits.
TypeCode(r) ==
    LET t == U32(r) IN IF t.ok /\ t.v < 2 ^ (8 * U32Bytes - 3) THEN t ELSE Fail(t)

\* n times, up to the first failure; every step takes a byte at least.
Repeat(Step(_), r, n) ==
    FoldLeft(LAMBDA t, i : IF t.ok THEN Step(t) ELSE t, r, [i \in 1..Min({n, Len(r.b) + 1}) |-> i])

-----------------------------------------------------------------------------
\* The builders.

Levels(enc) == CASE enc = "Point" -> {}
                 [] enc = "LineString" -> {"geom"}
                 [] enc = "MultiLineString" -> {"part", "geom"}
                 [] enc = "Polygon" -> {"ring", "geom"}
                 [] enc = "MultiPolygon" -> {"ring", "part", "geom"}

NewBuilder(enc) == [coords |-> <<>>, offsets |-> [l \in Levels(enc) |-> <<0>>]]

PushOffset(r, level, n) == [r EXCEPT !.to.offsets[level] = Append(@, n)]

Vertices(to) == Len(to.coords) \div 2
Count(to, level) == Len(to.offsets[level]) - 1

Position(r) ==
    LET x == F64(r)
        y == F64(x)
    IN IF y.ok THEN [y EXCEPT !.to.coords = @ \o <<x.v, y.v>>] ELSE y

\* A bug: the ends of a ring are compared bit for bit, as the comments on read_ring say.
SameBits(x, y) == x = y

\* read_ring and read_line.  The equality is that of floating point, where the comments
\* (wkb.rs:119, 142) say bit-exact: the two zeros are the same, and no NaN is itself.
Same(x, y) == x \notin NaN /\ (x = y \/ {x, y} = {0, NegativeZero})

ReadRing(r) ==
    LET c == U32(r)
        first == Len(r.to.coords)
        p == Repeat(Position, c, c.v)
        last == Len(p.to.coords)
    IN IF ~c.ok \/ c.v < 4 THEN Fail(c)
       ELSE IF p.ok /\ Same(p.to.coords[first + 1], p.to.coords[last - 1]) /\ Same(p.to.coords[first + 2], p.to.coords[last])
            THEN PushOffset(p, "ring", Vertices(p.to)) ELSE Fail(p)

ReadLine(r) == LET c == U32(r) IN IF ~c.ok \/ c.v < 2 THEN Fail(c) ELSE Repeat(Position, c, c.v)

\* The rings of a polygon, and push_part of the two multi builders.
Rings(r) == LET c == U32(r) IN IF ~c.ok \/ c.v = 0 THEN Fail(c) ELSE Repeat(ReadRing, c, c.v)

PushPolygon(r) == LET p == Rings(r) IN IF p.ok THEN PushOffset(p, "part", Count(p.to, "ring")) ELSE p

PushLine(r) == LET p == ReadLine(r) IN IF p.ok THEN PushOffset(p, "part", Vertices(p.to)) ELSE p

\* The parts of a multi geometry, each with a byte order and a type code of its own.
PushPart(r) == IF r.v = 3 THEN PushPolygon(r) ELSE PushLine(r)

Parts(r, code) ==
    LET c == U32(r)
        part(t) == LET h == TypeCode(ByteOrder(t)) IN IF h.ok /\ h.v = code THEN PushPart(h) ELSE Fail(h)
    IN IF ~c.ok \/ c.v = 0 THEN Fail(c) ELSE Repeat(part, c, c.v)

\* The decoding of one row, before the offset of the geometry is pushed.
Decode(enc, b, to) ==
    LET h == TypeCode(Reader(b, to))
    IN CASE ~h.ok -> h
         [] enc = "Polygon" /\ h.v = 3 -> Rings(h)
         [] enc = "MultiPolygon" /\ h.v = 3 -> PushPolygon(h)
         [] enc = "MultiPolygon" /\ h.v = 6 -> Parts(h, 3)
         [] enc = "Point" /\ h.v = 1 ->
              LET p == Position(h)
                  n == Len(p.to.coords)
              IN IF p.ok /\ {p.to.coords[n - 1], p.to.coords[n]} \cap NaN = {} THEN p ELSE Fail(p)
         [] enc = "LineString" /\ h.v = 2 -> ReadLine(h)
         [] enc = "MultiLineString" /\ h.v = 2 -> PushLine(h)
         [] enc = "MultiLineString" /\ h.v = 5 -> Parts(h, 2)
         [] OTHER -> Fail(h)

\* The unit a geometry's offset counts.
Ends(enc, to) == CASE enc = "Polygon" -> Count(to, "ring")
                   [] enc \in {"MultiPolygon", "MultiLineString"} -> Count(to, "part")
                   [] OTHER -> Vertices(to)

\* push_wkb.  The line builders put back what a refused row had appended, the point
\* builder has appended nothing; the polygon builders keep it, and the stream ends.
PushWkb(enc, b, to) ==
    LET r == Decode(enc, b, to)
        done == r.ok /\ IsExhausted(r)
    IN [ok |-> done,
        to |-> CASE enc = "Point" -> IF done THEN r.to ELSE to
                 [] enc \in {"LineString", "MultiLineString"} /\ ~done -> to
                 [] enc = "MultiPolygon" /\ ~done -> r.to
                 [] enc = "Polygon" /\ ~r.ok -> r.to
                 [] OTHER -> PushOffset(r, "geom", Ends(enc, r.to)).to]

-----------------------------------------------------------------------------
\* The arrays.

\* checked_offsets.
CheckedOffsets(offsets) ==
    /\ offsets # <<>> /\ offsets[1] = 0
    /\ \A i \in 1..(Len(offsets) - 1) : offsets[i] <= offsets[i + 1]

\* The offsets of an array from the outermost list in, and storage_type by its depth.
Nesting(enc) == CASE enc = "Point" -> <<>>
                  [] enc = "LineString" -> <<"geom">>
                  [] enc = "MultiLineString" -> <<"geom", "part">>
                  [] enc = "Polygon" -> <<"geom", "ring">>
                  [] enc = "MultiPolygon" -> <<"geom", "part", "ring">>
StorageDepth(enc) == Len(Nesting(enc))

\* build_*_array.
BuildArray(enc, to) ==
    [ok |-> \A l \in Levels(enc) : CheckedOffsets(to.offsets[l]),
     lists |-> [k \in DOMAIN Nesting(enc) |-> to.offsets[Nesting(enc)[k]]],
     coords |-> to.coords]

\* validate_encoding: the shape alone, which a polygon shares with a multilinestring.
ValidateEncoding(array, enc) == Len(array.lists) = StorageDepth(enc)

\* coordinate_values, of rows from + 1 .. to of the array.
CoordinateValues(array, from, to) ==
    LET span == FoldLeft(LAMBDA at, k : <<array.lists[k][at[1] + 1], array.lists[k][at[2] + 1]>>,
                         <<from, to>>, [k \in DOMAIN array.lists |-> k])
    IN SubSeq(array.coords, 2 * span[1] + 1, 2 * span[2])

-----------------------------------------------------------------------------
\* What the format says: a geometry is [type, parts]; a part is a sequence of rings or
\* lines, each a sequence of positions, and has its own byte order.

Code(type) == CASE type = "point" -> 1 [] type = "linestring" -> 2 [] type = "polygon" -> 3
                [] type = "multilinestring" -> 5 [] type = "multipolygon" -> 6 [] OTHER -> 4

Spell(n, width, little) ==
    LET digits == [i \in 1..width |-> (n \div Byte ^ (i - 1)) % Byte]
    IN IF little THEN digits ELSE Reverse(digits)

SpellPath(path, counted, little) ==
    (IF counted THEN Spell(Len(path), U32Bytes, little) ELSE <<>>)
    \o FlattenSeq([i \in DOMAIN path |-> Spell(path[i][1], F64Bytes, little) \o Spell(path[i][2], F64Bytes, little)])

\* One part of type `type`, headed; encode_polygon is this for a polygon in little order.
SpellPart(type, part, little) ==
    <<IF little THEN 1 ELSE 0>> \o Spell(Code(type), U32Bytes, little)
    \o (IF type = "polygon" THEN Spell(Len(part), U32Bytes, little) ELSE <<>>)
    \o FlattenSeq([i \in DOMAIN part |-> SpellPath(part[i], type # "point", little)])

Encode(g, orders) ==
    IF g.type \in {"multipolygon", "multilinestring"}
    THEN <<IF orders[1] THEN 1 ELSE 0>> \o Spell(Code(g.type), U32Bytes, orders[1])
         \o Spell(Len(g.parts), U32Bytes, orders[1])
         \o FlattenSeq([i \in DOMAIN g.parts |->
               SpellPart(IF g.type = "multipolygon" THEN "polygon" ELSE "linestring", g.parts[i], orders[i])])
    ELSE SpellPart(g.type, g.parts[1], orders[1])

\* A path ends at the position it starts from: its numbers are those it starts with,
\* whichever sign a zero has.
Closes(path) ==
    LET Value(x) == IF x = NegativeZero THEN 0 ELSE x
    IN \A c \in 1..2 : path[1][c] \notin NaN /\ Value(path[1][c]) = Value(Last(path)[c])

\* A geometry this engine reads: something in every part, lines of two positions, rings
\* of four that close as numbers.
Proper(g) ==
    /\ g.type \in {"point", "linestring", "polygon", "multilinestring", "multipolygon"}
    /\ g.parts # <<>>
    /\ \A i \in DOMAIN g.parts :
         /\ g.parts[i] # <<>>
         /\ \A k \in DOMAIN g.parts[i] :
              LET path == g.parts[i][k] IN
              CASE g.type = "point" -> path[1][1] \notin NaN /\ path[1][2] \notin NaN
                [] KindOf(g.type) = "line" -> Len(path) >= 2
                [] OTHER -> Len(path) >= 4 /\ Closes(path)

Coordinates(g) ==
    FlattenSeq([i \in DOMAIN g.parts |-> FlattenSeq([k \in DOMAIN g.parts[i] |-> FlattenSeq(g.parts[i][k])])])

\* The list lengths of a row, from its geometry down.
Shape(enc, g) ==
    CASE enc = "Point" -> <<>>
      [] enc = "LineString" -> <<Len(g.parts[1][1])>>
      [] enc = "Polygon" -> <<[k \in DOMAIN g.parts[1] |-> Len(g.parts[1][k])]>>
      [] enc = "MultiLineString" -> <<[i \in DOMAIN g.parts |-> Len(g.parts[i][1])]>>
      [] enc = "MultiPolygon" -> [i \in DOMAIN g.parts |-> [k \in DOMAIN g.parts[i] |-> Len(g.parts[i][k])]]

\* The same lengths, read off the offsets of row i of an array.
Length(list, i) == list[i + 1] - list[i]
Under(outer, i) == [k \in 1..Length(outer, i) |-> outer[i] + k]
ShapeAt(enc, array, i) ==
    CASE enc = "Point" -> <<>>
      [] enc = "LineString" -> <<Length(array.lists[1], i)>>
      [] enc \in {"Polygon", "MultiLineString"} ->
           LET kids == Under(array.lists[1], i) IN <<[k \in DOMAIN kids |-> Length(array.lists[2], kids[k])]>>
      [] enc = "MultiPolygon" ->
           LET parts == Under(array.lists[1], i)
           IN [p \in DOMAIN parts |->
                 LET rings == Under(array.lists[2], parts[p]) IN [k \in DOMAIN rings |-> Length(array.lists[3], rings[k])]]

\* A column of the declared types is decoded to exactly the geometries that were written,
\* whatever byte order each part of each row was written in: the same coordinates in the
\* same parts and rings, from any slice of the array.  A row that is cut, that goes on
\* after its end, that carries a flag, or that is no such geometry is refused, and on the
\* point and line encodings leaves the builder as it was.  A ring is one that closes as
\* numbers: up to the sign of a zero, and not with a NaN, even the same one, at its ends.
GeometriesComeBack(types, rows) ==
    LET enc == EncodingForDeclaredTypes(types)
        bytes(i) == LET all == Encode(rows[i].geom, rows[i].orders)
                    IN SubSeq(all, 1, Len(all) - rows[i].cut) \o rows[i].extra
        built == FoldLeft(LAMBDA s, i : IF ~s.ok THEN s ELSE PushWkb(enc, bytes(i), s.to),
                          [ok |-> TRUE, to |-> NewBuilder(enc)], [i \in DOMAIN rows |-> i])
        intact(i) == /\ Proper(rows[i].geom) /\ rows[i].cut = 0 /\ rows[i].extra = <<>>
                     /\ rows[i].geom.type \in (IF types = {} THEN {"polygon", "multipolygon"} ELSE types)
        array == BuildArray(enc, built.to)
    IN enc # "refused" =>
       /\ (\A i \in DOMAIN rows : intact(i)) =>
             /\ built.ok /\ array.ok /\ ValidateEncoding(array, enc)
             /\ \A i \in DOMAIN rows : ShapeAt(enc, array, i) = Shape(enc, rows[i].geom)
             /\ \A from, to \in 0..Len(rows) : from <= to =>
                  CoordinateValues(array, from, to)
                    = FlattenSeq([k \in 1..(to - from) |-> Coordinates(rows[from + k].geom)])
       /\ (\E i \in DOMAIN rows : rows[i].cut > 0 \/ rows[i].extra # <<>> \/ ~Proper(rows[i].geom)) => ~built.ok
       /\ (enc \notin {"Polygon", "MultiPolygon"} /\ rows # <<>>) =>
             \A to \in {NewBuilder(enc), built.to} :
                LET p == PushWkb(enc, bytes(1), to) IN p.ok \/ p.to = to

=============================================================================
