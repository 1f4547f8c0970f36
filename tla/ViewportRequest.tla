--------------------------- MODULE ViewportRequest ---------------------------
(***************************************************************************)
(* One request for features, from the command to the engine's stream, and  *)
(* what describe tells a client beforehand (kernel/src/skp.rs describe,    *)
(* viewport_query and their error tables, kernel/src/lib.rs                *)
(* create_from_raw_params, engine/src/stream.rs stream_inner and the       *)
(* entry points above it).  The interleavings of these calls with others   *)
(* are SkpSessions'; a predicate's admission is PredicateAdmission's and   *)
(* only its verdict is here.                                               *)
(*                                                                         *)
(* The world is [opened, live, ended, watch, changed, lease, pending]: the *)
(* catalog has the dataset, its generation is there, why it was ended,     *)
(* what its watch's record says, whether the file still is the one that    *)
(* was opened, whether a stream lease can be had, and the tickets pending. *)
(* A dataset is Attributes' with crs, covering, utf8Path, verified and     *)
(* unestablished.  A request is [skp, bbox, bboxCrs, limit, filter,        *)
(* columns]: Absent, or for the columns <<>>, is what is not given, and    *)
(* <<names>> a list of columns.                                            *)
(***************************************************************************)
EXTENDS Integers, Attributes, FiniteSetsExt

CONSTANTS SkpVersion,   \* SKP_VERSION
          MaxPending    \* MAX_PENDING_TICKETS

Absent == "absent"
DefinitionOnly == "definition-only"   \* crs::DEFINITION_ONLY: a definition that names no CRS

-----------------------------------------------------------------------------
\* Every error has a code of its own.

\* error_of.
EngineCode ==
    [Source |-> "engine.source",
     CrsUndeclared |-> "engine.crs_undeclared",
     CrsAssertionConflict |-> "engine.crs_assertion_conflict",
     CrsAssertionIdentifierBlank |-> "engine.crs_assertion_identifier_blank",
     CrsAssertionDefinitionTooLarge |-> "engine.crs_assertion_definition_too_large",
     ViewportCrsMismatch |-> "engine.viewport_crs_mismatch",
     ViewportCrsUnidentifiable |-> "engine.viewport_crs_unidentifiable",
     AxisOrderUnestablished |-> "engine.axis_order_unestablished",
     AxisOrderUnsupported |-> "engine.axis_order_unsupported",
     FormatDefaultContradicted |-> "engine.format_default_contradicted",
     SourceChanged |-> "engine.source_changed",
     IdentityOrdinalPartitionedUnsupported |-> "engine.identity_ordinal_partitioned_unsupported",
     InternalInconsistency |-> "engine.internal_inconsistency",
     GeoMetadata |-> "engine.geo_metadata",
     NoCoveringBbox |-> "engine.no_covering_bbox",
     Wkb |-> "engine.wkb",
     EncodingMismatch |-> "engine.encoding_mismatch"]

EngineCodeRest ==
    [Query |-> "engine.query",
     Arrow |-> "engine.arrow",
     Cancelled |-> "engine.cancelled",
     CeilingExceeded |-> "engine.ceiling_exceeded",
     IdentityUnusable |-> "engine.identity_unusable",
     FeatureTooLarge |-> "engine.feature_too_large",
     ConnectionSetup |-> "engine.connection_setup",
     AttributeUnpublishable |-> "engine.attribute_unpublishable",
     SourceChangedUnderPublish |-> "engine.source_changed_under_publish",
     ConnectionsExhausted |-> "engine.connections_exhausted",
     TimingDependentOrdering |-> "engine.timing_dependent_ordering",
     SourceCoverageLost |-> "engine.source_coverage_lost",
     LodRefused |-> "engine.lod_refused"]

ProjectionCode ==
    [TooManyColumns |-> "skp.projection_too_many_columns",
     ColumnUnknown |-> "skp.projection_column_unknown",
     ColumnIsGeometry |-> "skp.projection_column_is_geometry",
     ColumnIsIdentity |-> "skp.projection_column_is_identity",
     ColumnDuplicated |-> "skp.projection_column_duplicated",
     TypeNotAdmitted |-> "skp.projection_type_not_admitted",
     ColumnNameNotAddressable |-> "skp.projection_column_name_not_addressable"]

\* filter_error_of and filter_type_not_admitted.
FilterCode ==
    [Unparsable |-> "skp.filter_unparsable",
     NotASingleExpression |-> "skp.filter_not_a_single_expression",
     ConstructNotAdmitted |-> "skp.filter_construct_not_admitted",
     UnknownColumn |-> "skp.filter_unknown_column",
     ColumnNotFilterable |-> "skp.filter_column_not_filterable",
     IdentityAliasAmbiguous |-> "skp.filter_identity_alias_ambiguous",
     NotBoolean |-> "skp.filter_not_boolean",
     TooLong |-> "skp.filter_too_long",
     TooDeep |-> "skp.filter_too_deep",
     RejectedByBinder |-> "skp.filter_rejected_by_binder",
     FilterTypeNotAdmitted |-> "skp.filter_type_not_admitted"]

\* The constructors of protocol/skp/src/v0/error.rs, and the empty list's.
ProtocolCode ==
    [VersionUnsupported |-> "skp.version_unsupported",
     UnknownDataset |-> "skp.unknown_dataset",
     UnknownHandle |-> "skp.unknown_handle",
     MalformedHexF64 |-> "skp.malformed_hex_f64",
     BboxNotFinite |-> "skp.bbox_not_finite",
     CancelKeyInUse |-> "skp.cancel_key_in_use",
     TooManyPendingStreams |-> "skp.too_many_pending_streams",
     SessionHistoryUnwritable |-> "skp.session_history_unwritable",
     SessionHistoryFull |-> "skp.session_history_full",
     SessionHistoryStopped |-> "skp.session_history_stopped",
     StepLineOverCeiling |-> "skp.step_line_over_ceiling",
     StyleValueNotAdmitted |-> "skp.style_value_not_admitted",
     ProjectionEmptyList |-> "skp.projection_empty_list"]

Codes == EngineCode @@ EngineCodeRest @@ ProjectionCode @@ FilterCode @@ ProtocolCode

-----------------------------------------------------------------------------
\* The engine: StreamPlan and its entry points.

Plan(index, ordering, cut, bounds, compact) ==
    [index |-> index, ordering |-> ordering, cut |-> cut, bounds |-> bounds, compact |-> compact]

Entry ==
    [with_cancel |-> Plan("Off", "Unordered", "SizeOnly", FALSE, FALSE),
     projected |-> Plan("Off", "Unordered", "SizeOnly", FALSE, TRUE),
     for_publish |-> Plan("Off", "ByIdentity", "SizeOnly", TRUE, FALSE)]

\* The measurements' ways in, which no product path takes.
ExperimentalEntry ==
    [indexed |-> Plan("Experimental", "Unordered", "SizeOnly", FALSE, FALSE),
     budgeted |-> Plan("Off", "Unordered", "FirstBatchTimed", FALSE, FALSE),
     rowgroup_pruned |-> Plan("RowGroups", "Unordered", "SizeOnly", FALSE, FALSE),
     rowgroup_pruned_budgeted |-> Plan("RowGroups", "Unordered", "FirstBatchTimed", FALSE, FALSE)]

IsTimingDependent(plan) == plan.ordering = "ByIdentity" /\ plan.cut = "FirstBatchTimed"

\* ViewportQuery::all, viewport, with_limit and with_filter.
Query(bbox, crs, limit, filter) == [bbox |-> bbox, crs |-> crs, limit |-> limit, filter |-> filter]

Refuse(condition, error) == IF condition THEN error ELSE None

CheckViewportCrs(ds, q) ==
    IF q.bbox = Absent \/ q.crs = Absent THEN None
    ELSE IF ds.crs = DefinitionOnly THEN "ViewportCrsUnidentifiable"
    ELSE Refuse(q.crs # ds.crs, "ViewportCrsMismatch")

\* stream_inner up to the producer's thread: the error of the first check that fails.
StreamInner(w, ds, q, plan) ==
    FirstError(<<Refuse(IsTimingDependent(plan), "TimingDependentOrdering"),
                 Refuse(w.changed, "SourceChanged"),
                 CheckViewportCrs(ds, q),
                 Refuse(q.bbox # Absent /\ ~ds.covering, "NoCoveringBbox"),
                 Refuse(~ds.utf8Path, "Source"),
                 Refuse(~w.lease, "ConnectionsExhausted")>>)

\* The columns of the batches: the identity, the geometry and the attributes.
Columns(ds, attributes) ==
    <<IdColumn, ds.geometry>> \o [i \in DOMAIN attributes |-> attributes[i].name]

\* open_engine_stream.
OpenEngineStream(w, ds, q, columns) ==
    LET entry == IF columns = <<>> THEN Entry.with_cancel ELSE Entry.projected
        error == StreamInner(w, ds, q, entry)
        attributes == IF columns = <<>> THEN <<>> ELSE Projection(ds, columns[1])
    IN [error |-> error, query |-> q, columns |-> Columns(ds, attributes)]

-----------------------------------------------------------------------------
\* The data plane's own way in, for a host without tickets: the decoded parameters.

CreateFromRawParams(w, ds, operation, p) ==
    LET q == IF p.bbox # Absent /\ p.bboxCrs # Absent THEN Query(p.bbox, p.bboxCrs, p.limit, Absent)
             ELSE Query(Absent, Absent, p.limit, Absent)
    IN IF operation # "stream_features" THEN [error |-> "unknown operation"]
       ELSE IF ~w.opened THEN [error |-> "unknown dataset"]
       ELSE OpenEngineStream(w, ds, q, <<>>)

-----------------------------------------------------------------------------
\* viewport_query.

\* build_viewport_query: a viewport that names no CRS is in the dataset's.
\* A bug: it is left without one, and the engine has nothing to compare.
BuildQueryWithoutCrs(ds, r) == Query(r.bbox, r.bboxCrs, r.limit, r.filter)

BuildQuery(ds, r) ==
    Query(r.bbox, IF r.bbox = Absent THEN Absent ELSE IF r.bboxCrs = Absent THEN ds.crs ELSE r.bboxCrs,
          r.limit, r.filter)

BuildError(ds, r) ==
    FirstError(<<IF r.columns = <<>> THEN None
                 ELSE IF r.columns[1] = <<>> THEN "ProjectionEmptyList"
                 ELSE AdmitProjection(ds, r.columns[1]),
                 IF r.filter \in {Absent, "admitted"} THEN None ELSE r.filter>>)

\* The error each end reason becomes, in require_live and in viewport_query_attribute.
EndError == [ObservedChange |-> "SourceChanged", CoverageLost |-> "SourceCoverageLost"]

RequireLive(w) ==
    IF w.ended # None THEN EndError[w.ended] ELSE Refuse(~w.live, "UnknownDataset")

\* The whole call: resolve, mint, attribute.  A pre-check that finds the source changed
\* also ends the session.
ViewportQuery(w, ds, r) ==
    LET before == FirstError(<<Refuse(r.skp # SkpVersion, "VersionUnsupported"),
                               Refuse(~w.opened, "UnknownDataset"), RequireLive(w), BuildError(ds, r)>>)
        stream == OpenEngineStream(w, ds, BuildQuery(ds, r), r.columns)
        error == IF before # None THEN before
                 ELSE IF stream.error # None THEN stream.error
                 ELSE Refuse(w.pending >= MaxPending, "TooManyPendingStreams")
    IN [error |-> error, ends |-> before = None /\ stream.error = "SourceChanged",
        stream |-> IF error = None THEN stream ELSE [error |-> error]]

-----------------------------------------------------------------------------
\* describe.

\* A bug: a column is called projectable for its type.
FieldInfoByType(ds, f) == [name |-> f.name, projectable |-> TypeCheck(f) = None]

FieldInfo(ds, f) == [name |-> f.name, projectable |-> AdmitProjectionColumn(ds, f) = None]

CoverageOf(w) == IF w.watch = "watching" THEN "watching" ELSE "checks-only"

ChecksOf(ds) == [state |-> IF ds.unestablished = {} THEN "full" ELSE "degraded",
                 components |-> ds.unestablished]

RowCount(ds) == IF ds.verified >= 0 THEN [basis |-> "identity-uniqueness-scan-full-file", value |-> ds.verified]
                ELSE [basis |-> "not-established", value |-> -1]

DescribeDataset(ds) ==
    [crs |-> ds.crs, covering |-> ds.covering, rows |-> RowCount(ds),
     schema |-> [i \in DOMAIN ds.schema |-> FieldInfo(ds, ds.schema[i])]]

Describe(w, ds) ==
    [coverage |-> CoverageOf(w), checks |-> ChecksOf(ds), sessionEnd |-> w.ended] @@ DescribeDataset(ds)

-----------------------------------------------------------------------------
\* A request a client puts together from what it was told.
MadeFrom(d, r) ==
    LET projectable == {d.schema[i].name : i \in {j \in DOMAIN d.schema : d.schema[j].projectable}}
    IN /\ r.skp = SkpVersion
       /\ r.columns # <<>> => /\ Len(r.columns[1]) \in 1..MaxColumns
                              /\ ToSet(r.columns[1]) \subseteq projectable
                              /\ IsInjective(r.columns[1])
       /\ r.bbox # Absent => d.covering /\ d.crs # DefinitionOnly /\ r.bboxCrs \in {Absent, d.crs}
       /\ r.filter \in {Absent, "admitted"}

\* What describe tells a client is what the next query does (skp.rs).  A column is called
\* projectable exactly when a query for it is not refused for it; a session that is called
\* ended refuses with that very reason's code; a request made from the description is
\* refused only for what it cannot tell, a source that changed or a resource that ran
\* out.  A granted query streams the columns that were asked for in their order, with a
\* viewport in the dataset's own CRS; the same parameters sent to the data plane directly
\* open the same stream or meet the same refusal; no two errors share a code, so that a
\* client can tell them apart, and a column that is refused has one live and in a publish.
DescribedIsServed(w, ds, r) ==
    LET d == Describe(w, ds)
        a == ViewportQuery(w, ds, r)
        only(name) == [skp |-> SkpVersion, bbox |-> Absent, bboxCrs |-> Absent, limit |-> Absent,
                       filter |-> Absent, columns |-> << <<name>> >>]
        usable == w.opened /\ w.live /\ w.ended = None
    IN /\ usable =>
            \A i \in DOMAIN ds.schema :
               d.schema[i].projectable <=>
                  ViewportQuery(w, ds, only(ds.schema[i].name)).error \notin DOMAIN ProjectionCode
       /\ w.opened /\ d.sessionEnd # None /\ r.skp = SkpVersion =>
            Codes[a.error] = Codes[EndError[d.sessionEnd]]
       /\ usable /\ MadeFrom(d, r) =>
            a.error \in {None, "SourceChanged", "Source", "ConnectionsExhausted", "TooManyPendingStreams"}
       /\ a.error = None =>
            /\ usable /\ ~w.changed
            /\ a.stream.query.bbox # Absent => a.stream.query.crs = ds.crs /\ ds.crs # DefinitionOnly
            /\ a.stream.columns = <<IdColumn, ds.geometry>> \o FlattenSeq(r.columns)
            /\ \A i \in 3..Len(a.stream.columns) : a.stream.columns[i] \notin {IdColumn, ds.geometry, ds.idColumn}
       /\ a.ends => w.changed /\ a.error = "SourceChanged"
       /\ usable /\ r.columns = <<>> /\ r.filter = Absent /\ r.skp = SkpVersion /\ w.pending < MaxPending
               /\ (r.bbox # Absent => r.bboxCrs # Absent) =>
            LET raw == CreateFromRawParams(w, ds, "stream_features", r)
            IN IF a.error = None THEN raw = a.stream ELSE raw.error = a.error
       /\ Cardinality(Range(Codes)) = Cardinality(DOMAIN Codes)
       /\ \A e \in ProjectionErrors : {e, EngineErrorOf[e]} \subseteq DOMAIN Codes
       /\ \A plan \in Range(Entry) \cup Range(ExperimentalEntry) : ~IsTimingDependent(plan)

=============================================================================
