---------------------------- MODULE LayoutRewrite ----------------------------
(***************************************************************************)
(* The clustered rewrite of a file (engine/src/layout.rs): its rows in the *)
(* order of a Hilbert curve over a declared extent.                        *)
(*                                                                         *)
(* A source is [keys, covering, rows]: the keys of its footer, whether it  *)
(* declares a covering, and rows [id, x, y, hash] with the ends of the     *)
(* covering boxes as pairs of whole numbers.  A destination is [there,     *)
(* rows, groups, keys].                                                    *)
(***************************************************************************)
EXTENDS Integers, SequencesExt, FiniteSetsExt

CONSTANTS CurveOrderBits,     \* CURVE_ORDER_BITS
          MaxKeyedFeatures,   \* MAX_KEYED_FEATURES
          WriterVector        \* the rows DuckDB's writer flushes a multiple of

AxisCells == 2 ^ CurveOrderBits
NullId == -1
NotFinite == 99
NoFile == [there |-> FALSE, rows |-> <<>>, groups |-> <<>>, keys |-> {}]

-----------------------------------------------------------------------------
\* The curve.

Scales == [k \in 1..CurveOrderBits |-> 2 ^ (k - 1)]

Flip(p, n) == [x |-> n - 1 - p.x, y |-> n - 1 - p.y]
Swap(p) == [x |-> p.y, y |-> p.x]

\* The turn of a quadrant, of a square of n cells.
\* A bug: the quadrant is turned without being flipped.
TurnUnflipped(p, rx, ry, n) == IF ry = 0 THEN Swap(p) ELSE p

Turn(p, rx, ry, n) == IF ry = 1 THEN p ELSE Swap(IF rx = 1 THEN Flip(p, n) ELSE p)

\* hilbert_xy2d, from the largest scale down.
HilbertXy2d(x, y) ==
    FoldLeft(LAMBDA s, k :
               LET rx == (s.p.x \div k) % 2
                   ry == (s.p.y \div k) % 2
               IN [d |-> s.d + k * k * (IF rx = 1 THEN 3 - ry ELSE ry), p |-> Turn(s.p, rx, ry, AxisCells)],
             [d |-> 0, p |-> [x |-> x, y |-> y]], Reverse(Scales)).d

\* hilbert_d2xy, from the smallest scale up.
HilbertD2xy(d) ==
    FoldLeft(LAMBDA s, k :
               LET rx == (s.d \div 2) % 2
                   ry == (s.d + rx) % 2
                   t == Turn(s.p, rx, ry, k)
               IN [d |-> s.d \div 4, p |-> [x |-> t.x + k * rx, y |-> t.y + k * ry]],
             [d |-> d, p |-> [x |-> 0, y |-> 0]], Scales).p

\* quantize, of the middle of a box's two ends: the nearest of the cells, a half rounded
\* up, and whether it had to be clamped.
Quantize(ends, lo, hi) ==
    LET n == AxisCells - 1
        num == (ends[1] + ends[2] - 2 * lo) * n
        den == 2 * (hi - lo)
    IN IF NotFinite \in {ends[1], ends[2]} THEN [cell |-> 0, clamped |-> TRUE]
       ELSE [cell |-> IF num < 0 THEN 0 ELSE IF num > n * den THEN n ELSE (2 * num + den) \div (2 * den),
             clamped |-> num < 0 \/ num > n * den]

\* curve_keys.
KeyOf(row, extent) ==
    HilbertXy2d(Quantize(row.x, extent.xmin, extent.xmax).cell, Quantize(row.y, extent.ymin, extent.ymax).cell)

Clamped(row, extent) == \/ Quantize(row.x, extent.xmin, extent.xmax).clamped
                        \/ Quantize(row.y, extent.ymin, extent.ymax).clamped

CurveKeys(rows, extent) ==
    [ok |-> Len(rows) <= MaxKeyedFeatures /\ \A i \in DOMAIN rows : rows[i].id # NullId,
     keys |-> [i \in DOMAIN rows |-> [id |-> rows[i].id, key |-> KeyOf(rows[i], extent)]],
     clamped |-> Cardinality({i \in DOMAIN rows : Clamped(rows[i], extent)})]

-----------------------------------------------------------------------------
\* The COPY.

\* The join of the source with the ordering table: a row once for every key of its id.
Joined(rows, keys) ==
    FlattenSeq([i \in DOMAIN rows |->
       [k \in DOMAIN SelectSeq(keys, LAMBDA o : o.id = rows[i].id) |->
          [row |-> rows[i], key |-> SelectSeq(keys, LAMBDA o : o.id = rows[i].id)[k].key]]])

\* ORDER BY of each ClusterOrder.
Before(order, a, b) ==
    CASE order = "hilbert16" -> a.key < b.key \/ (a.key = b.key /\ a.row.id < b.row.id)
      [] order = "source-identity" -> a.row.id < b.row.id
      [] order = "shuffled" -> a.row.hash < b.row.hash \/ (a.row.hash = b.row.hash /\ a.row.id < b.row.id)

\* The groups the writer makes: of the least multiple of its vector that holds the size.
Groups(n, size) ==
    LET full == ((size + WriterVector - 1) \div WriterVector) * WriterVector
        count == (n + full - 1) \div full
    IN [g \in 1..count |-> IF g < count THEN full ELSE n - (count - 1) * full]

Copy(src, keys, spec) ==
    LET ordered == SortSeq(Joined(src.rows, keys), LAMBDA a, b : Before(spec.order, a, b))
    IN [there |-> TRUE, rows |-> [i \in DOMAIN ordered |-> ordered[i].row],
        groups |-> Groups(Len(ordered), spec.groupRows), keys |-> src.keys]

\* The layout that was asked for: every group but the last of the size, the last no more.
AsAsked(groups, size, features) ==
    /\ \A g \in 1..(Len(groups) - 1) : groups[g] = size
    /\ groups # <<>> => Last(groups) <= size
    /\ ~(Len(groups) = 1 /\ features > size)

\* rewrite.  `stop` is where a cancellation is seen: before the file is touched, in the
\* COPY, which may have written part of it, or nowhere.
Rewrite(src, dst, spec, stop) ==
    LET ck == CurveKeys(src.rows, spec.extent)
        file == Copy(src, ck.keys, spec)
        fails(left) == [ok |-> FALSE, dst |-> left]
        valid == spec.extent.xmax > spec.extent.xmin /\ spec.extent.ymax > spec.extent.ymin
    IN CASE ~valid \/ spec.groupRows = 0 -> fails(dst)
         [] "geo" \notin src.keys \/ ~src.covering -> fails(dst)
         [] ~ck.ok \/ stop = "early" -> fails(dst)
         [] stop = "copy" -> fails([file EXCEPT !.rows = <<>>, !.groups = <<>>])
         [] ~AsAsked(file.groups, spec.groupRows, Len(ck.keys)) -> fails(file)
         [] FoldLeft(+, 0, file.groups) # Len(ck.keys) -> fails(file)
         [] OTHER -> [ok |-> TRUE, dst |-> file, features |-> Len(ck.keys), clamped |-> ck.clamped,
                      distinct |-> Cardinality({ck.keys[i].key : i \in DOMAIN ck.keys})]

\* write_clustered_variant: what a failure leaves at the destination is removed, the file
\* that was there before included, and the error tells of a removal that fails.
WriteClusteredVariant(src, dst, spec, stop, removable) ==
    LET r == Rewrite(src, dst, spec, stop)
    IN IF r.ok THEN r
       ELSE IF r.dst.there /\ ~removable THEN [ok |-> FALSE, dst |-> r.dst, told |-> TRUE]
       ELSE [ok |-> FALSE, dst |-> NoFile, told |-> FALSE]

-----------------------------------------------------------------------------
\* The curve visits every cell once and moves to a neighbour at every step, and the two
\* directions are inverse.
CurveIsHilbert ==
    /\ \A d \in 0..(AxisCells * AxisCells - 1) :
         LET p == HilbertD2xy(d) IN HilbertXy2d(p.x, p.y) = d
    /\ \A d \in 1..(AxisCells * AxisCells - 1) :
         LET p == HilbertD2xy(d)
             q == HilbertD2xy(d - 1)
             dist(a, b) == IF a < b THEN b - a ELSE a - b
         IN dist(p.x, q.x) + dist(p.y, q.y) = 1

\* A rewrite that succeeds holds the source's rows, each as often as the source does, with
\* the source's footer keys, in groups of the size asked for; its order is that of the
\* curve and does not depend on the order of the source (`again` holds the same rows in
\* another order).  One that fails leaves no file at the destination, or says that it does.
VariantIsTheSource(src, again, dst, spec, stop, removable) ==
    LET r == WriteClusteredVariant(src, dst, spec, stop, removable)
        s == WriteClusteredVariant(again, dst, spec, stop, removable)
        count(rows, w) == Cardinality({i \in DOMAIN rows : rows[i] = w})
    IN /\ CurveIsHilbert
       /\ r.ok =>
            /\ \A w \in ToSet(src.rows) \cup ToSet(r.dst.rows) : count(src.rows, w) = count(r.dst.rows, w)
            /\ r.dst.keys = src.keys /\ "geo" \in r.dst.keys
            /\ r.features = Len(src.rows) /\ r.distinct <= r.features
            /\ \A g \in 1..(Len(r.dst.groups) - 1) : r.dst.groups[g] = spec.groupRows
            /\ FoldLeft(+, 0, r.dst.groups) = Len(src.rows)
            /\ r.clamped = 0 => \A i \in DOMAIN src.rows : NotFinite \notin {src.rows[i].x[1], src.rows[i].y[1]}
            /\ spec.order = "hilbert16" =>
                 \A i \in 1..(Len(r.dst.rows) - 1) :
                    KeyOf(r.dst.rows[i], spec.extent) <= KeyOf(r.dst.rows[i + 1], spec.extent)
            /\ s.ok /\ s.dst.rows = r.dst.rows
       /\ ~r.ok => (~r.dst.there \/ r.told)

=============================================================================
