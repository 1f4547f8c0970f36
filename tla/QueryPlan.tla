------------------------------- MODULE QueryPlan -------------------------------
(***************************************************************************)
(* How a viewport query is planned (engine/src/stream.rs, build_sql): the  *)
(* fixed-grid feature index (index.rs), the row-group index (rowgroup.rs)  *)
(* and the id ranges either adds to the bbox comparison.                   *)
(*                                                                         *)
(* A feature is [id, box, matches]: its identity or NoId, its covering box *)
(* <<xmin, ymin, xmax, ymax>> and whether the filter admits it.  A file is *)
(* a sequence of row groups.  Coordinates count units in the last place.   *)
(***************************************************************************)
EXTENDS Integers, FiniteSetsExt, SequencesExt

CONSTANTS MaxId,          \* u64::MAX
          AxisCells,      \* GRID_AXIS_CELLS
          MaxCells,       \* MAX_CELLS_PER_FEATURE
          MaxIdRanges,    \* MAX_ID_RANGES
          MaxGroupRanges  \* MAX_ROW_GROUP_RANGES

NoId == -1

\* A row stands in a group, at a place of it.
Rows(file) ==
    [p \in UNION {{g} \X DOMAIN file[g] : g \in DOMAIN file} |-> file[p[1]][p[2]]]

Intersects(b, view) == b[1] <= view[3] /\ b[3] >= view[1] /\ b[2] <= view[4] /\ b[4] >= view[2]

\* Not finite is the engine's other unusable viewport.
Usable(view) == view[1] <= view[3] /\ view[2] <= view[4]

-----------------------------------------------------------------------------
\* SpatialIndex::build_observed and candidates.

Extent(rows) ==
    LET at(k) == {rows[i].box[k] : i \in DOMAIN rows}
    IN <<Min(at(1)), Min(at(2)), Max(at(3)), Max(at(4))>>

Clamp(n) == IF n < 0 THEN 0 ELSE IF n > AxisCells - 1 THEN AxisCells - 1 ELSE n

CellOf(extent, x, y) ==
    <<Clamp(((x - extent[1]) * (AxisCells - 1)) \div (extent[3] - extent[1])),
      Clamp(((y - extent[2]) * (AxisCells - 1)) \div (extent[4] - extent[2]))>>

CellsOf(extent, b) ==
    LET from == CellOf(extent, b[1], b[2])
        to == CellOf(extent, b[3], b[4])
    IN (from[1]..to[1]) \X (from[2]..to[2])

\* scan reads the id of a row without looking at its validity bit: a null is 0.
IndexedId(f) == IF f.id = NoId THEN 0 ELSE f.id

\* The grid: no cells at all when the extent is degenerate.
Grid(rows) ==
    LET e == Extent(rows)
        none == DOMAIN rows = {}
        flat == none \/ e[1] >= e[3] \/ e[2] >= e[4]
        wide == {i \in DOMAIN rows : Cardinality(CellsOf(e, rows[i].box)) > MaxCells}
    IN [extent |-> IF none THEN <<0, 0, 0, 0>> ELSE e,
        cells |-> [i \in DOMAIN rows |->
                      IF flat THEN {} ELSE IF i \in wide THEN {} ELSE CellsOf(e, rows[i].box)],
        spanning |-> IF flat THEN {} ELSE wide]

\* A bug: the features that span too many cells are in none, and forgotten.
CandidatesOfCells(rows, view) ==
    LET g == Grid(rows) IN
    IF ~Usable(view) \/ \A i \in DOMAIN rows : g.cells[i] = {} THEN <<FALSE, {}>>
    ELSE <<TRUE, {IndexedId(rows[i]) : i \in {j \in DOMAIN rows :
                      /\ g.cells[j] \cap CellsOf(g.extent, view) # {}
                      /\ Intersects(rows[j].box, view)}}>>

\* A feature whose box is inverted would be in no cell: build_observed refuses to index the file.
Indexable(rows) == \A p \in DOMAIN rows : Usable(rows[p].box)

\* <<FALSE, _>> when the index cannot narrow this query, and the candidates' ids.
Candidates(rows, view) ==
    LET g == Grid(rows) IN
    IF ~Usable(view) \/ \A i \in DOMAIN rows : g.cells[i] = {} THEN <<FALSE, {}>>
    ELSE <<TRUE, {IndexedId(rows[i]) : i \in {j \in DOMAIN rows :
                      /\ j \in g.spanning \/ g.cells[j] \cap CellsOf(g.extent, view) # {}
                      /\ Intersects(rows[j].box, view)}}>>

\* A range that goes on where the last one ends makes it longer.
AddRange(ranges, r) ==
    IF ranges # <<>> /\ r[1] = Last(ranges)[2] + 1
    THEN [ranges EXCEPT ![Len(ranges)] = <<Last(ranges)[1], r[2]>>]
    ELSE Append(ranges, r)

\* The loop of compress_to_ranges and of ranges_for: the ranges that are kept, in their order.
Merged(kept, range, n) ==
    LET to[i \in 0..n] == IF i = 0 THEN <<>> ELSE IF i \in kept THEN AddRange(to[i - 1], range[i]) ELSE to[i - 1]
    IN to[n]

\* compress_to_ranges, over the ids upwards; refused when the ranges are more than max.
CompressToRanges(ids, max) ==
    LET ranges == Merged({id + 1 : id \in ids}, [i \in 1..(MaxId + 1) |-> <<i - 1, i - 1>>], MaxId + 1)
    IN <<Len(ranges) <= max, ranges>>

-----------------------------------------------------------------------------
\* RowGroupIndex.  The statistics of a group as the file gives them: noise is the error
\* of a bound's rendering, gap what the file leaves out.

RawGroup(group, noise, gap) ==
    LET ids == {group[i].id : i \in DOMAIN group} \ {NoId}
        at(k) == {group[i].box[k] : i \in DOMAIN group}
    IN [stats |-> gap # "ids" /\ ids # {},
        lo |-> IF ids = {} THEN 0 ELSE Min(ids), hi |-> IF ids = {} THEN 0 ELSE Max(ids),
        nulls |-> gap = "nulls" \/ \E i \in DOMAIN group : group[i].id = NoId,
        bounds |-> gap # "bounds",
        box |-> <<Min(at(1)) + noise[1], Min(at(2)) + noise[1],
                  Max(at(3)) + noise[2], Max(at(4)) + noise[2]>>]

\* admit's entry of a group: its envelope is one unit wider on every side, and known when it
\* can be compared.
Entry(g) ==
    LET box == <<g.box[1] - 1, g.box[2] - 1, g.box[3] + 1, g.box[4] + 1>>
    IN [lo |-> IF g.stats THEN g.lo ELSE 0, hi |-> IF g.stats THEN g.hi ELSE MaxId,
        box |-> box, known |-> g.bounds /\ box[1] <= box[3] /\ box[2] <= box[4]]

\* A bug: a null identity is left to the reader.
IdsAreKnownBesidesNulls(g) == g.stats

IdsAreKnown(g) == g.stats /\ ~g.nulls

\* admit: a verdict over all groups.
Admit(raw) ==
    LET entries == [i \in DOMAIN raw |-> Entry(raw[i])]
    IN [entries |-> entries,
        ok |-> /\ raw # <<>>
               /\ \A i \in DOMAIN raw : IdsAreKnown(raw[i]) /\ (i > 1 => entries[i].lo > entries[i - 1].hi)]

MustRead(g, view) == ~g.known \/ Intersects(g.box, view)

\* ranges_for.
RangesFor(entries, view) ==
    LET kept == {i \in DOMAIN entries : MustRead(entries[i], view)}
        range == [i \in DOMAIN entries |-> <<entries[i].lo, entries[i].hi>>]
    IN [kept |-> Cardinality(kept), ranges |-> Merged(kept, range, Len(entries))]

-----------------------------------------------------------------------------
\* build_sql: the FilterPlan, and the id ranges of the WHERE clause ("every" id when
\* the plan adds none).

Plan(name, ranges) == [name |-> name, every |-> FALSE, ranges |-> ranges]
Scan(name) == [name |-> name, every |-> TRUE, ranges |-> <<>>]

RowGroupPlan(file, view, stats) ==
    LET idx == Admit([i \in DOMAIN file |-> RawGroup(file[i], stats.noise, stats.gap)])
        sel == RangesFor(idx.entries, view)
        prunable == idx.ok /\ Usable(view)
    IN CASE ~prunable -> Scan("RowGroupsNotPrunable")
         [] prunable /\ sel.kept = 0 -> Scan("RowGroupsExcludeAll")
         [] prunable /\ sel.kept = Len(file) -> Scan("RowGroupsKeptAll")
         [] prunable /\ sel.kept \notin {0, Len(file)} ->
               IF Len(sel.ranges) > MaxGroupRanges THEN Scan("RowGroupsTooFragmented")
                                                   ELSE Plan("RowGroupsPruned", sel.ranges)

IndexPlan(file, view) ==
    LET found == Candidates(Rows(file), view)
        narrows == Indexable(Rows(file)) /\ found[1] /\ found[2] # {}
        ranges == CompressToRanges(found[2], MaxIdRanges)
    IN CASE ~narrows -> Scan("ScanOnly")
         [] narrows /\ ~ranges[1] -> Scan("IndexTooFragmented")
         [] narrows /\ ranges[1] -> Plan("IndexNarrowed", ranges[2])

BuildSql(file, view, use, stats) ==
    CASE use = "Off" -> Scan("ScanOnly")
      [] use = "RowGroups" -> RowGroupPlan(file, view, stats)
      [] use = "Experimental" -> IndexPlan(file, view)

\* DuckDB: the rows the WHERE clause selects; a comparison with NULL selects nothing.
Selected(file, view, filter, plan) ==
    LET rows == Rows(file) IN
    {i \in DOMAIN rows :
        /\ Intersects(rows[i].box, view)
        /\ filter => rows[i].matches
        /\ plan.every \/ \E r \in ToSet(plan.ranges) : rows[i].id \in r[1]..r[2]}

\* column_u64: a selected row without an identity refuses the whole stream.
Answer(file, view, filter, plan) ==
    LET sel == Selected(file, view, filter, plan) IN
    IF \E i \in sel : Rows(file)[i].id = NoId THEN <<"refused", {}>> ELSE <<"rows", sel>>

-----------------------------------------------------------------------------
\* Narrowing is invisible: whatever the plan of build_sql, with statistics that may be
\* off by a unit, the query answers what the plain scan answers, a refusal included.
\* The experimental index is held to it only where every row has an identity: it drops
\* the row without one that makes a scan refuse.
PlanKeepsTheAnswer(file, view, use, filter, stats) ==
    (use = "Experimental" => \A i \in DOMAIN Rows(file) : Rows(file)[i].id # NoId)
        => Answer(file, view, filter, BuildSql(file, view, use, stats))
              = Answer(file, view, filter, Scan("ScanOnly"))

=============================================================================
