---------------------------- MODULE BundleContents ----------------------------
(***************************************************************************)
(* What a publish is refused for and what the bundle holds                 *)
(* (kernel/src/publish/mod.rs preflight, build_operation, build_manifest,  *)
(* ceilings.rs, viewer_assets.rs; kernel/src/bundle/mod.rs, redaction.rs;  *)
(* engine/src/attributes.rs, envelope.rs), and what verify-bundle makes of *)
(* it (kernel/examples/verify-bundle.rs).  The steps in time are           *)
(* PublishPipeline's; which of several refusals is reported is left out.   *)
(*                                                                         *)
(* A dataset is [hash, pinned, geographic, encoding, session, geometry,    *)
(* idColumn, crs, schema, rows, verified, license], its columns as in      *)
(* Attributes; a row [ids, x, inView, matches, found] has one id per       *)
(* identity column, one coordinate, and the redaction spans of its text.   *)
(* A span is [class, run, of]: the length of the printable run it sits in  *)
(* and the declared value around it, if any.  A request is                 *)
(* [ds, name, filter, bbox, limit, attributes, style, viewer, record,      *)
(* operator, viewerLicense].  A path is a sequence of components.  A hash  *)
(* is the content it was taken of.                                         *)
(***************************************************************************)
EXTENDS Integers, FiniteSetsExt, Attributes

CONSTANTS MaxViewerAssets,   \* MAX_VIEWER_ASSETS
          MaxFeatures,       \* MAX_FEATURES of ceilings.json
          MaxPartitions,     \* MAX_PUBLISH_PARTITIONS
          PartitionRows,     \* rows the producer puts in a partition
          MinPrintableRun,   \* MIN_PRINTABLE_RUN
          SchemePart,        \* path components that begin with a URI scheme or a drive letter
          ColonPart,         \* path components with a colon in them, those included
          BackslashPart, ControlPart  \* components with a backslash, with a control character

Unset == -1
Nothing == "nothing"

-----------------------------------------------------------------------------
\* Attributes.

\* admit_bundle_format: what a stream converts a bundle does not carry.
BundleFormat(ds, names) ==
    \A i \in DOMAIN names : FieldOf(ds, names[i])[1].type \notin {"Dictionary", "Float32"}

-----------------------------------------------------------------------------
\* Paths and viewer assets.

\* validate_relative_path.
RelativePath(path) ==
    /\ path # <<>>
    /\ path[1] \notin SchemePart
    /\ \A i \in DOMAIN path : path[i] \notin {"", ".", ".."} \cup BackslashPart \cup ControlPart

\* ViewerAssets::new, of a sequence of [path, content].
ViewerAssets(assets) ==
    /\ Len(assets) <= MaxViewerAssets
    /\ \A i \in DOMAIN assets : RelativePath(assets[i].path)
    /\ \A i, j \in DOMAIN assets : assets[i].path = assets[j].path => i = j

ViewerBundlePath(path) == <<"viewer">> \o path

\* is_built_asset: the record of the viewer's build has these very bytes.
\* A bug: the record is consulted by path alone.
IsBuiltAssetByPath(r, path, content) == path[1] = "viewer" /\ Tail(path) \in DOMAIN r.record

IsBuiltAsset(r, path, content) ==
    /\ path[1] = "viewer"
    /\ Tail(path) \in DOMAIN r.record
    /\ r.record[Tail(path)] = content

-----------------------------------------------------------------------------
\* Licenses.

\* admit_license: one party declares, and nobody forbids.  A source's word that is
\* neither of the known ones is "unknown" and carried as such.
LicenseAdmitted(source, operator) ==
    /\ ~(source.declares /\ operator.there)
    /\ source.declares => source.redistribution # "forbidden"
    /\ operator.there => operator.license # "" /\ operator.redistribution # "forbidden"

LicenseOf(source, operator) ==
    IF source.declares THEN [state |-> "declared-by-source", redistribution |-> source.redistribution]
    ELSE IF operator.there THEN [state |-> "declared-by-operator", redistribution |-> operator.redistribution]
    ELSE [state |-> "not-declared", redistribution |-> "unknown"]

\* admit_viewer_license: [complete, kind, at, notice, copyright].
ViewerLicenseAdmitted(vl, assets) ==
    /\ vl.complete
    /\ vl.kind = "url" => vl.at.scheme \in {"http", "https"}
    /\ vl.kind = "written-offer" => vl.at.scheme = Nothing
    /\ RelativePath(vl.notice)
    /\ \E i \in DOMAIN assets : assets[i].path = vl.notice

-----------------------------------------------------------------------------
\* Ceilings.

\* predicted_features: nothing is predicted of a viewport.
PredictedFeatures(r) ==
    IF r.bbox \/ r.ds.verified = Unset THEN Unset
    ELSE IF r.limit # Unset /\ r.limit < r.ds.verified THEN r.limit ELSE r.ds.verified

\* check_reader_ceilings.
WithinReaderCeilings(r) ==
    /\ PredictedFeatures(r) # Unset => PredictedFeatures(r) <= MaxFeatures
    /\ Len(r.attributes) <= MaxColumns

\* compile, as far as the publish binds it.
StyleBinds(r) ==
    r.style.column # Nothing =>
       /\ FieldOf(r.ds, r.style.column) # <<>>
       /\ FieldOf(r.ds, r.style.column)[1].type \in {"Utf8", "LargeUtf8", "Utf8View"}
       /\ \E i \in DOMAIN r.attributes : r.attributes[i] = r.style.column

\* The refusals of preflight that are not about the row filter.  Alone, a bug: a filtered
\* query is published like any other.
Publishable(r) ==
    /\ ~r.ds.geographic
    /\ r.ds.encoding = "geoarrow.polygon"
    /\ ~r.ds.session
    /\ r.name # ""
    /\ LicenseAdmitted(r.ds.license, r.operator)
    /\ ViewerLicenseAdmitted(r.viewerLicense, r.viewer)
    /\ AdmitProjection(r.ds, r.attributes) = None
    /\ BundleFormat(r.ds, r.attributes)
    /\ StyleBinds(r)
    /\ WithinReaderCeilings(r)
    /\ r.ds.pinned

\* preflight: everything that is refused before anything is written.  A row filter has
\* no place in the recorded operation.
Preflight(r) == ~r.filter /\ Publishable(r)

-----------------------------------------------------------------------------
\* The rows a query answers with, by ascending identity.
Rows(r) ==
    LET col == r.ds.idColumn
        kept == SelectSeq(r.ds.rows, LAMBDA w : (r.bbox => w.inView) /\ (r.filter => w.matches))
        sorted == SortSeq(kept, LAMBDA a, b : a.ids[col] < b.ids[col])
    IN IF r.limit # Unset /\ r.limit < Len(sorted) THEN SubSeq(sorted, 1, r.limit) ELSE sorted

PartitionPath(n) == <<"data", ToString(n)>>

\* BatchEnvelope: what the schema of every batch says.
Envelope(r) == [frame |-> "authoritative-project-crs", crs |-> r.ds.crs.identifier,
                encoding |-> r.ds.encoding, attributes |-> r.attributes]

\* One partition: a batch, assembled under the envelope.
Partition(r, rows) ==
    [envelope |-> Envelope(r),
     ids |-> [i \in DOMAIN rows |-> rows[i].ids[r.ds.idColumn]],
     found |-> FlattenSeq([i \in DOMAIN rows |-> rows[i].found])]

\* TaggedBatch::xy_bounds and union.
Bounds(rows) ==
    IF rows = <<>> THEN <<>>
    ELSE LET xs == {rows[i].x : i \in DOMAIN rows} IN <<Min(xs), Max(xs)>>

Union(a, b) ==
    IF a = <<>> THEN b ELSE IF b = <<>> THEN a
    ELSE <<Min({a[1], b[1]}), Max({a[2], b[2]})>>

\* build_operation.  Datasets that carry only a definition share one identifier.
Operation(r) ==
    [source |-> r.ds.hash, uri |-> r.name, idSource |-> r.ds.idColumn, verified |-> r.ds.verified,
     crs |-> r.ds.crs.identifier, definition |-> r.ds.crs.definition, bbox |-> r.bbox, limit |-> r.limit,
     projection |-> Projection(r.ds, r.attributes), style |-> r.style.id]

\* digest_input: every member of the operation.
Digest(op) == [version |-> 1, input |-> op]

Asset(path, content, rows) == [path |-> path, hash |-> content, rows |-> rows]

\* Manifest, of the streamed partitions, the viewer's files and the bounds.
Manifest(r, data, viewer, bounds) ==
    [partitions |-> data, viewer |-> viewer, style |-> r.style.id,
     crs |-> r.ds.crs.identifier, definition |-> r.ds.crs.definition,
     schema |-> <<"id", "geometry">> \o r.attributes,
     rows |-> FoldLeft(LAMBDA n, a : n + a.rows, 0, data),
     bounds |-> bounds,
     notice |-> ViewerBundlePath(r.viewerLicense.notice),
     license |-> LicenseOf(r.ds.license, r.operator),
     digest |-> Digest(Operation(r)),
     found |-> r.viewerLicense.found]

\* run_inner's loop over the stream, and build_manifest.
BundleOf(r) ==
    LET rows == Rows(r)
        count == (Len(rows) + PartitionRows - 1) \div PartitionRows
        part(n) == SubSeq(rows, (n - 1) * PartitionRows + 1,
                          IF n * PartitionRows < Len(rows) THEN n * PartitionRows ELSE Len(rows))
    IN Manifest(r, [n \in 1..count |-> Asset(PartitionPath(n), Partition(r, part(n)), Len(part(n)))],
                [i \in DOMAIN r.viewer |-> Asset(ViewerBundlePath(r.viewer[i].path), r.viewer[i].content, 0)],
                FoldLeft(LAMBDA b, n : Union(b, Bounds(part(n))), <<>>, [n \in 1..count |-> n]))

\* check_streamed_features and the partition ceiling.
WithinStreamCeilings(r) ==
    /\ Len(Rows(r)) <= MaxFeatures
    /\ Len(BundleOf(r).partitions) <= MaxPartitions

-----------------------------------------------------------------------------
\* Redaction.

\* in_printable_run.
InPrintableRun(span) == span.run >= MinPrintableRun

\* scan: the class of a span, if it is a finding at all.  The operator's own declared
\* values excuse the names in them, never a credential or a path, and only when they are
\* long enough to be told from the text around them.
Findings(spans, declared) ==
    {IF /\ spans[i].class \in {"username", "machine-identifier"}
        /\ \E d \in declared : d.value = spans[i].of /\ d.len >= MinPrintableRun
     THEN "operator-declared" ELSE spans[i].class :
       i \in {k \in DOMAIN spans : InPrintableRun(spans[k])}}

\* The files of the staged bundle that hold text of the source, the operator or the viewer.
Files(b) == {[path |-> <<"manifest.json">>, content |-> [found |-> b.found]]}
            \cup {[path |-> b.partitions[i].path, content |-> b.partitions[i].hash] : i \in DOMAIN b.partitions}
            \cup {[path |-> b.viewer[i].path, content |-> b.viewer[i].hash] : i \in DOMAIN b.viewer}

Declared(r) == {r.viewerLicense.copyright, r.viewerLicense.source}

\* first_undeclared_findings over the staged bundle.
RedactionFinds(r, b) ==
    \E f \in Files(b) : /\ ~IsBuiltAsset(r, f.path, f.content)
                        /\ Findings(f.content.found, Declared(r)) \ {"operator-declared"} # {}

\* A publish that nothing interrupts.
Publishes(r) ==
    /\ ViewerAssets(r.viewer)
    /\ Preflight(r)
    /\ WithinStreamCeilings(r)
    /\ \A f \in Files(BundleOf(r)) : RelativePath(f.path)
    /\ ~RedactionFinds(r, BundleOf(r))

-----------------------------------------------------------------------------
\* verify-bundle.

\* admit_asset_path: a colon anywhere is refused.
AssetPath(path) == /\ path # <<>>
                   /\ \A i \in DOMAIN path : path[i] \notin {"", ".", ".."} \cup BackslashPart \cup ColonPart

\* verify_partition, of the batch and of what the manifest says of every batch.
PartitionVerifies(b, asset) ==
    LET e == asset.hash.envelope IN
    /\ e.frame = "authoritative-project-crs"
    /\ e.crs = b.crs
    /\ e.encoding = "geoarrow.polygon"
    /\ e.attributes = SelectSeq(b.schema, LAMBDA n : n \notin {"id", "geometry"})
    /\ Len(asset.hash.ids) = asset.rows

Verifies(b) ==
    /\ \A i \in DOMAIN b.viewer : AssetPath(b.viewer[i].path)
    /\ \A i \in DOMAIN b.partitions :
         /\ AssetPath(b.partitions[i].path)
         /\ PartitionVerifies(b, b.partitions[i])
         /\ \E j \in DOMAIN b.partitions : b.partitions[j].path = PartitionPath(i)
    /\ FoldLeft(LAMBDA n, a : n + a.rows, 0, b.partitions) = b.rows

-----------------------------------------------------------------------------
\* Two published bundles that carry one operation digest carry one set of data: the
\* same identities, partition by partition, with the same columns, style and coordinate
\* system.  And each speaks truly of itself: its bounds are those of its rows, its notice is one of its
\* files, nobody forbade its redistribution, its reader's ceilings hold, no column was
\* converted on the way, and whatever the redaction classes find in it is the
\* operator's own declared name or is in a file the viewer's build recorded, byte for
\* byte.  verify-bundle accepts it, but for two things the publisher lets through: a
\* viewer path with a colon after its first component, and an attribute column named
\* geometry.
BundleSpeaksForItself(r, s) ==
    LET b == BundleOf(r)
        c == BundleOf(s)
    IN Publishes(r) =>
       /\ (Publishes(s) /\ b.digest = c.digest) =>
             /\ b.definition = c.definition
             /\ b.partitions = c.partitions
             /\ b.schema = c.schema
             /\ b.style = c.style
       /\ b.bounds = Bounds(Rows(r))
       /\ \E i \in DOMAIN b.viewer : b.viewer[i].path = b.notice
       /\ b.license.redistribution # "forbidden"
       /\ b.rows <= MaxFeatures
       /\ \A i \in DOMAIN r.attributes :
            FieldOf(r.ds, r.attributes[i])[1].type = Projection(r.ds, r.attributes)[i].type
       /\ \A f \in Files(b) :
            \A k \in DOMAIN f.content.found :
               LET span == f.content.found[k] IN
               \/ span.run < MinPrintableRun
               \/ \E d \in Declared(r) : d.value = span.of /\ span.class \in {"username", "machine-identifier"}
               \/ \E p \in DOMAIN r.record : f.path = ViewerBundlePath(p) /\ f.content = r.record[p]
       /\ \/ Verifies(b)
          \/ \E i \in DOMAIN r.attributes : r.attributes[i] = "geometry"
          \/ \E i \in DOMAIN r.viewer : \E k \in DOMAIN r.viewer[i].path : r.viewer[i].path[k] \in ColonPart

=============================================================================
