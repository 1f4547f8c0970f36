------------------------------ MODULE DatasetOpen ------------------------------
(***************************************************************************)
(* Dataset::open_inner (engine/src/dataset.rs): what a GeoParquet file and *)
(* a caller's declarations are admitted as, or why they are refused.       *)
(* format_semantics and the PROJJSON readers are those of geoparquet.rs,   *)
(* the CRS admission that of crs.rs, the identity that of identity.rs.     *)
(*                                                                         *)
(* A name is <<letters, case>>: two names match when the ASCII case is     *)
(* ignored if their letters are the same; the letters "nul" hold U+0000.   *)
(* The footer lists the columns in the order of the schema that the probe  *)
(* reports, where DuckDB may bind one under another name than it exports.  *)
(* The database reads what is there; its errors and the cancellation of    *)
(* its scans are in ConnectionPool and OpenAdmission.                      *)
(***************************************************************************)
EXTENDS Integers, SequencesExt

CONSTANT SampleMaxRows   \* SANITY_SAMPLE_MAX_ROWS

\* partitioned_source_detail: a path is [isDir, isFile, verbatim, chars], the characters
\* those after a verbatim prefix, whose own `?` is no wildcard.
GlobMetacharacters == {"*", "?", "[", "]", "{", "}"}
PartitionedSource(path) == path.isDir \/ path.chars \cap GlobMetacharacters # {}

\* geo_from_kv, of the footer's keys and whether their values are UTF-8.
GeoFromKv(kv) ==
    LET geo == {i \in DOMAIN kv : kv[i].key = "geo"}
    IN geo # {} /\ kv[Min(geo)].utf8

NoDefinition == [there |-> FALSE]
Fails(error) == [ok |-> FALSE, error |-> error]
Is(v) == [ok |-> TRUE, value |-> v]

-----------------------------------------------------------------------------
\* The names: the footer's schema tree, a preorder of [name, count], and the schema.

\* read_file_names: the stack of open nodes; a node with all its children closes.
RECURSIVE CloseNodes(_)
CloseNodes(s) ==
    IF s.open = <<>> \/ Last(s.open).left # 0 THEN s
    ELSE LET node == [name |-> Last(s.open).name, kids |-> Last(s.open).kids]
             rest == Front(s.open)
         IN IF rest = <<>> THEN [s EXCEPT !.open = <<>>, !.root = <<node>>]
            ELSE CloseNodes([s EXCEPT !.open = [rest EXCEPT ![Len(rest)].kids = Append(@, node),
                                                            ![Len(rest)].left = @ - 1]])

ReadFileNames(rows) ==
    LET read(s, row) ==
            IF ~s.ok \/ s.root # <<>> \/ row.count < 0 THEN [s EXCEPT !.ok = FALSE]
            ELSE CloseNodes([s EXCEPT !.open = Append(@, [name |-> row.name, kids |-> <<>>,
                                                          left |-> row.count])])
        end == FoldLeft(read, [ok |-> TRUE, open |-> <<>>, root |-> <<>>], rows)
    IN IF end.ok /\ end.open = <<>> /\ end.root # <<>> THEN Is(end.root[1])
       ELSE Fails("InternalInconsistency")

\* probe_schema: the columns as DESCRIBE names them, each keeping the name of the export.
ProbeSchema(exported, described) ==
    IF Len(exported) # Len(described) THEN Fails("InternalInconsistency")
    ELSE Is([i \in DOMAIN exported |->
               [name |-> described[i], exported |-> exported[i].name, ty |-> exported[i].ty, kids |-> exported[i].kids]])

SameName(a, b) == a[1] = b[1]
CaseMatches(nodes, name) == {i \in DOMAIN nodes : SameName(nodes[i].name, name)}

\* not_addressable_for_field
HoldsNul(name) == name[1] = "nul"
Addressable(field) == ~HoldsNul(field.name) /\ field.exported = field.name

\* check_geometry_column
CheckGeometryColumn(footer, schema, name) ==
    LET exact == {i \in DOMAIN footer : footer[i].name = name}
        j == CHOOSE i \in exact : TRUE
    IN IF Cardinality(CaseMatches(footer, name)) > 1 THEN Fails("GeoMetadata")
       ELSE IF exact = {} THEN Fails("Source")
       ELSE IF schema[j].name # name \/ ~Addressable(schema[j]) THEN Fails("GeoMetadata")
       ELSE IF schema[j].ty # "Binary" THEN Fails("Source")
       ELSE Is(j)

\* check_names_align
NamesAlign(columns, schema) == Len(schema) >= Len(columns)

\* field_path_exists, one path of a covering.
RECURSIVE FieldPathExists(_, _, _)
FieldPathExists(nodes, fields, path) ==
    LET at == CaseMatches(nodes, path[1])
        j == CHOOSE i \in at : TRUE
    IN IF at = {} THEN "Absent"
       ELSE IF Cardinality(at) > 1 THEN "Ambiguous"
       ELSE IF ~SameName(fields[j].name, path[1]) THEN "Misbound"
       ELSE IF Len(path) = 1 THEN "Resolves"
       ELSE IF fields[j].ty # "Struct" THEN "Absent"
       ELSE IF Len(fields[j].kids) # Len(nodes[j].kids) THEN "Inconsistent"
       ELSE FieldPathExists(nodes[j].kids, fields[j].kids, Tail(path))

\* covering_not_addressable_reason
CoveringNotAddressable(covering) ==
    \E k \in DOMAIN covering : \E i \in DOMAIN covering[k] : HoldsNul(covering[k][i])

\* judge_covering: no finding, a finding that leaves the covering unused, or an error
\* of the first path that has one.
JudgeCovering(covering, nodes, fields) ==
    LET walks == [k \in DOMAIN covering |-> FieldPathExists(nodes, fields, covering[k])]
        error(w) == CASE w \in {"Ambiguous", "Misbound"} -> "GeoMetadata"
                      [] w = "Inconsistent" -> "InternalInconsistency"
        bad == {k \in DOMAIN covering : walks[k] \notin {"Resolves", "Absent"}}
    IN IF CoveringNotAddressable(covering) THEN Is("NotAddressable")
       ELSE IF bad # {} THEN Fails(error(walks[Min(bad)]))
       ELSE IF \E k \in DOMAIN covering : walks[k] = "Absent" THEN Is("Absent")
       ELSE Is("none")

-----------------------------------------------------------------------------
\* The coordinate reference system.  A definition is [there, axes, geographic, units]:
\* the directions of its axes, whether their names say longitude or latitude, and their
\* units.

AxisOrderFromProjjson(def) ==
    CASE def.axes = <<"east", "north">> ->
            Is(IF def.geographic THEN "LongitudeLatitude" ELSE "EastingNorthing")
      [] def.axes = <<"north", "east">> ->
            Is(IF def.geographic THEN "LatitudeLongitude" ELSE "NorthingEasting")
      [] OTHER -> Fails("AxisOrderUnestablished")

XFirst(order) == order \in {"EastingNorthing", "LongitudeLatitude"}

DataOrderUnderWkbRule(order) ==
    CASE order = "NorthingEasting" -> "EastingNorthing"
      [] order = "LatitudeLongitude" -> "LongitudeLatitude"
      [] OTHER -> order

\* What a CRS is admitted with: its definition or none, and the order of the data.
Crs(def, order) == [there |-> TRUE, def |-> def, order |-> order]
NoCrs == [there |-> FALSE]

Semantics(crs, provenance, axis, declared, rule, undeclared) ==
    [crs |-> crs, provenance |-> provenance, axis |-> axis, declared |-> declared,
     rule |-> rule, undeclared |-> undeclared]

\* format_semantics, of a file whose crs member is a definition, null or absent.
FormatSemantics(geo) ==
    LET order == AxisOrderFromProjjson(geo.crs).value
        declared == Semantics(Crs(geo.crs, order), "Declared", "Declared", order, "none", FALSE)
    IN CASE geo.crsKey = "Declared" /\ ~XFirst(order) /\ geo.pinned ->
              [declared EXCEPT !.crs.order = DataOrderUnderWkbRule(order),
                               !.axis = "FormatOverride", !.rule = "axis-order"]
         [] geo.crsKey = "Declared" /\ (XFirst(order) \/ ~geo.pinned) -> declared
         [] geo.crsKey = "ExplicitNull" -> Semantics(NoCrs, "none", "none", "none", "none", FALSE)
         [] geo.crsKey = "Absent" /\ geo.pinned ->
              Semantics(Crs(NoDefinition, "LongitudeLatitude"), "FormatDefault", "FormatOverride",
                        "none", "crs-absent", FALSE)
         [] geo.crsKey = "Absent" /\ ~geo.pinned ->
              Semantics(NoCrs, "none", "none", "none", "none", TRUE)

\* coordinate_unit_for_admission
CoordinateUnit(provenance, def) ==
    CASE provenance = "FormatDefault" -> <<"degree", "FormatRule">>
      [] provenance # "FormatDefault" /\ def = NoDefinition -> <<"unestablished", "none">>
      [] OTHER -> <<IF def.units[1] = def.units[2] THEN def.units[1] ELSE "unestablished",
                    "Definition">>

\* crs::admit, and the displacement of the format's default by an assertion.
AdmitCrs(sem, assertion) ==
    LET admissible == sem.crs.there /\ ~(assertion.made /\ sem.provenance = "FormatDefault")
    IN CASE admissible /\ ~assertion.made ->
              Is([source |-> "File", def |-> sem.crs.def, order |-> sem.crs.order])
         [] admissible /\ assertion.made -> Fails("CrsAssertionConflict")
         [] ~admissible /\ assertion.made ->
              IF assertion.def = NoDefinition THEN Fails("AxisOrderUnestablished")
              ELSE Is([source |-> "CallerAsserted", def |-> assertion.def,
                       order |-> AxisOrderFromProjjson(assertion.def).value])
         [] ~admissible /\ ~assertion.made -> Fails("CrsUndeclared")

\* validate_assertion_shape, the definition's JSON and its axis order.
CheckAssertion(assertion) ==
    IF ~assertion.made THEN Is("none")
    ELSE IF assertion.blank THEN Fails("CrsAssertionIdentifierBlank")
    ELSE IF assertion.tooLarge THEN Fails("CrsAssertionDefinitionTooLarge")
    ELSE IF assertion.def # NoDefinition /\ ~AxisOrderFromProjjson(assertion.def).ok
    THEN Fails("AxisOrderUnestablished") ELSE Is("none")

\* GeoMeta::parse, of a `geo` value whose members have their types (whole) or not.
\* Only a JSON object declares a CRS; a bbox has four numbers, or six with z.
NoBox == <<>>

ParseBboxMember(n) ==
    CASE Len(n) = 4 -> n
      [] Len(n) = 6 -> <<n[1], n[2], n[4], n[5]>>
      [] OTHER -> NoBox

ParseGeo(geo) ==
    LET key == CASE geo.crsMember = "object" -> "Declared"
                 [] geo.crsMember = "missing" -> "Absent"
                 [] OTHER -> "ExplicitNull"
    IN IF ~geo.whole THEN Fails("GeoMetadata")
       ELSE IF key = "Declared" /\ ~AxisOrderFromProjjson(geo.crs).ok
       THEN Fails("AxisOrderUnestablished")
       ELSE Is([readable |-> geo.readable, column |-> geo.column, pinned |-> geo.pinned,
                covering |-> geo.covering, crs |-> geo.crs, crsKey |-> key,
                bbox |-> ParseBboxMember(geo.bboxMember)])

\* sanity_check, of the bbox member, the statistics of the covering's columns (the
\* boxes of the row groups, or none) and their first rows, NULL where a row has none.
Hull(boxes) ==
    IF boxes = {} THEN NoBox
    ELSE <<Min({b[1] : b \in boxes}), Min({b[2] : b \in boxes}),
           Max({b[3] : b \in boxes}), Max({b[4] : b \in boxes})>>

CoveringStatistics(groups) == IF NoBox \in ToSet(groups) THEN NoBox ELSE Hull(ToSet(groups))

CoveringSample(rows) == Hull(ToSet(SubSeq(rows, 1, Min({Len(rows), SampleMaxRows}))) \ {NoBox})

InsideCrs84(b) == /\ {b[1], b[3]} \subseteq -180..180
                  /\ {b[2], b[4]} \subseteq -90..90

\* convict_or_record: only the format's default is convicted by an extent.
ConvictOrRecord(level, box, convicts) ==
    IF convicts /\ ~InsideCrs84(box) THEN Fails("FormatDefaultContradicted") ELSE Is(level)

SanityCheck(file, geo, finding, provenance, rule) ==
    LET found(level, box) == ConvictOrRecord(level, box, provenance = "FormatDefault")
        stats == CoveringStatistics(file.groupBoxes)
        sample == CoveringSample(file.firstRows)
    IN IF provenance = "Asserted" \/ rule = "none" THEN Is("NotChecked")
       ELSE IF geo.bbox # NoBox THEN found("Metadata", geo.bbox)
       ELSE IF geo.covering = <<>> \/ finding # "none" THEN Is("NotChecked")
       ELSE IF stats # NoBox THEN found("Metadata", stats)
       ELSE IF sample = NoBox THEN Is("NotChecked") ELSE found("Sample", sample)

-----------------------------------------------------------------------------
\* admit_identity.  ids are the values of each column of the file.

IntegerTypes == {"Int8", "Int16", "Int32", "Int64", "UInt8", "UInt16", "UInt32", "UInt64"}
IdColumn == <<"id", 0>>
NullId == 99   \* NULL, as a number that is not in the column

Identity(source, uniqueness) == [source |-> source, uniqueness |-> uniqueness]

\* A bug: the scan counts the distinct values of the rows that have one.
ScanIdsOfValues(values) ==
    LET held == {values[i] : i \in DOMAIN values} \ {NullId}
        rows == Cardinality({i \in DOMAIN values : values[i] # NullId})
    IN IF \E v \in held : v < 0 THEN "negative" ELSE IF Cardinality(held) # rows THEN "shared" ELSE "unique"

\* run_identity_scan: count(*), count(DISTINCT c), which counts no NULL, and min(c).
ScanIds(values) ==
    LET held == {values[i] : i \in DOMAIN values} \ {NullId}
    IN IF \E v \in held : v < 0 THEN "negative"
       ELSE IF Cardinality(held) # Len(values) THEN "shared" ELSE "unique"

AdmitIdentity(schema, declared, ids) ==
    LET column == IF declared.made THEN declared.column ELSE IdColumn
        at == {i \in DOMAIN schema : schema[i].name = column}
        f == schema[Min(at)]
    IN IF at = {} THEN IF declared.made THEN Fails("IdentityUnusable")
                       ELSE Is(Identity("SessionOrdinal", "ByConstruction"))
       ELSE IF ~Addressable(f) \/ f.ty \notin IntegerTypes THEN Fails("IdentityUnusable")
       ELSE IF declared.made /\ declared.skip THEN Is(Identity("Mapped", "DeclaredNotVerified"))
       ELSE IF ScanIds(ids) # "unique" THEN Fails("IdentityUnusable")
       ELSE Is(Identity(IF declared.made THEN "Mapped" ELSE "File", "VerifiedAtOpen"))

-----------------------------------------------------------------------------
\* open_inner, its refusals in their order; readable says that the encoding is WKB and
\* the geometry types are of one kind.

Provenance(crs, sem) ==
    IF crs.source = "CallerAsserted"
    THEN Is([crs |-> "Asserted", axis |-> "Declared", declared |-> crs.order, rule |-> "none"])
    ELSE IF "none" \in {sem.provenance, sem.axis} THEN Fails("InternalInconsistency")
    ELSE Is([crs |-> sem.provenance, axis |-> sem.axis, declared |-> sem.declared, rule |-> sem.rule])

Open(file, req) ==
    LET parsed == ParseGeo(file.geo)
        geo == parsed.value
        tree == ReadFileNames(file.footer)
        columns == tree.value.kids
        sem == FormatSemantics(geo)
        crs == AdmitCrs(sem, req.crs)
        probe == ProbeSchema(file.exported, file.described)
        schema == probe.value
        column == CheckGeometryColumn(columns, schema, geo.column)
        finding == JudgeCovering(geo.covering, columns, schema)
        prov == Provenance(crs.value, sem)
        sanity == SanityCheck(file, geo, finding.value, prov.value.crs, prov.value.rule)
        identity == AdmitIdentity(schema, req.identity, file.ids)
    IN IF PartitionedSource(file.path) THEN Fails("IdentityOrdinalPartitionedUnsupported")
       ELSE IF ~file.path.isFile THEN Fails("Source")
       ELSE IF ~GeoFromKv(file.kv) THEN Fails("GeoMetadata")
       ELSE IF ~parsed.ok THEN parsed
       ELSE IF ~geo.readable THEN Fails("GeoMetadata")
       ELSE IF ~CheckAssertion(req.crs).ok THEN CheckAssertion(req.crs)
       ELSE IF ~req.crs.made /\ sem.undeclared THEN Fails("CrsUndeclared")
       ELSE IF ~crs.ok THEN crs
       ELSE IF ~XFirst(crs.value.order) THEN Fails("AxisOrderUnsupported")
       ELSE IF ~probe.ok THEN probe
       ELSE IF ~tree.ok THEN tree
       ELSE IF ~NamesAlign(columns, schema) THEN Fails("InternalInconsistency")
       ELSE IF ~column.ok THEN column
       ELSE IF ~finding.ok THEN finding
       ELSE IF ~prov.ok THEN prov
       ELSE IF ~sanity.ok THEN sanity
       ELSE IF ~identity.ok THEN identity
       ELSE Is([source |-> IF prov.value.crs = "FormatDefault" THEN "FormatRule" ELSE crs.value.source,
                axis |-> prov.value.axis, declared |-> prov.value.declared, rule |-> prov.value.rule,
                order |-> crs.value.order, def |-> crs.value.def,
                unit |-> CoordinateUnit(prov.value.crs, crs.value.def),
                sanity |-> sanity.value, identity |-> identity.value,
                covering |-> finding.value = "none" /\ geo.covering # <<>>])

-----------------------------------------------------------------------------
RECURSIVE Preorder(_)
Preorder(node) == <<[name |-> node.name, count |-> Len(node.kids)]>>
                    \o FlattenSeq([i \in DOMAIN node.kids |-> Preorder(node.kids[i])])

\* The exact column a path of names reads in the file, ignoring case: the sets of nodes
\* that match it.
RECURSIVE Readings(_, _)
Readings(nodes, path) ==
    IF path = <<>> THEN {<<>>}
    ELSE UNION {{<<i>> \o rest : rest \in Readings(nodes[i].kids, Tail(path))} :
                   i \in CaseMatches(nodes, path[1])}

\* What a dataset says of itself after open_inner is so.  The file's own CRS is never
\* overridden by the caller, and the format's default is recorded as such, of a pinned
\* version, and only where no extent that was read contradicts it; coordinates are read
\* x first, by the declaration or by a recorded rule; a unit has one source; the names
\* of the geometry column and of a covering in use each read one column; an identity
\* said to be verified is unique, without NULLs and not negative.
AdmittedAsItIs(file, req) ==
    LET open == Open(file, req)
        d == open.value
        geo == file.geo
        columns == ReadFileNames(file.footer).value.kids
        extents == IF Len(geo.bboxMember) = 4 THEN {geo.bboxMember}
                   ELSE IF Len(geo.bboxMember) # 6 /\ d.covering THEN ToSet(file.groupBoxes) ELSE {}
    IN /\ ~open.ok /\ open.error = "InternalInconsistency" =>
              \/ ~ReadFileNames(file.footer).ok
              \/ Len(file.exported) < Len(columns)
              \/ Len(file.exported) # Len(file.described)
              \/ \E i \in DOMAIN columns : Len(columns[i].kids) # Len(file.exported[i].kids)
       /\ ReadFileNames(file.footer).ok => Preorder(ReadFileNames(file.footer).value) = file.footer
       /\ open.ok =>
            /\ file.path.isFile /\ GlobMetacharacters \cap file.path.chars = {}
            /\ d.source = "CallerAsserted" <=> req.crs.made
            /\ req.crs.made => geo.crsMember # "object" /\ d.def = req.crs.def
            /\ geo.crsMember = "object" => d.def = geo.crs
            /\ d.source = "FormatRule" => geo.crsMember = "missing" /\ geo.pinned
            /\ d.source = "FormatRule" /\ NoBox \notin extents => \A b \in extents : InsideCrs84(b)
            /\ XFirst(d.order)
            /\ d.declared \notin {d.order, "none"} => d.rule = "axis-order" /\ geo.pinned
            /\ d.def = NoDefinition <=> d.unit[2] # "Definition"
            /\ d.unit[1] = "degree" /\ d.def # NoDefinition => \A u \in {1, 2} : d.def.units[u] = "degree"
            /\ d.sanity # "NotChecked" => d.rule # "none"
            /\ \E i \in DOMAIN columns : /\ Readings(columns, <<geo.column>>) = {<<i>>}
                                         /\ file.described[i] = geo.column
                                         /\ file.exported[i].name = geo.column
            /\ d.covering => \A k \in DOMAIN geo.covering :
                                Cardinality(Readings(columns, geo.covering[k])) = 1
            /\ d.identity.uniqueness = "VerifiedAtOpen" =>
                 /\ \A i \in DOMAIN file.ids : file.ids[i] # NullId /\ file.ids[i] >= 0
                 /\ IsInjective(file.ids)
            /\ d.identity.source = "SessionOrdinal" <=>
                 ~req.identity.made /\ \A i \in DOMAIN file.described : file.described[i] # IdColumn

=============================================================================
