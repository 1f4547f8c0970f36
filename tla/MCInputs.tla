------------------------------- MODULE MCInputs --------------------------------
(***************************************************************************)
(* Small inputs for the algorithms on the way of a viewport query (its     *)
(* request, its filter, its plan and the batches of its answer), for those *)
(* on files (opening a source, decoding its geometry, the levels of detail *)
(* and the layouts derived from it, the references kept to it), and for    *)
(* those of publishing (the style, the contents of a bundle, the paths a   *)
(* grant covers and a record may name, the audit log's files).             *)
(***************************************************************************)
EXTENDS Integers, Sequences, TLC

V == INSTANCE ViewportRequest WITH MaxColumns <- 2, SkpVersion <- "0", MaxPending <- 1
K == INSTANCE RequestCodec WITH ByteBase <- 5, ShortBytes <- 1, LongBytes <- 2, WordBytes <- 1,
        NotUtf8 <- {3}, NotADigit <- 9, NonFinite <- {4}, HandleLen <- 2
F == INSTANCE PredicateAdmission WITH MaxIntegerDigits <- 20, MaxDecimalScale <- 18,
        MaxDepth <- 3, MaxTokens <- 5
Q == INSTANCE QueryPlan WITH MaxId <- 9, AxisCells <- 3, MaxCells <- 2, MaxIdRanges <- 1, MaxGroupRanges <- 1
C == INSTANCE BatchCutting WITH MaxBatchBytes <- 120, CheckStride <- 2

-----------------------------------------------------------------------------
\* Requests: any request to a live session, and plain ones in any state of it.
vWorld == {w \in [opened: BOOLEAN, live: BOOLEAN, ended: {"none", "ObservedChange", "CoverageLost"},
                  watch: {"none", "watching", "checks-only"}, changed: BOOLEAN, lease: BOOLEAN,
                  pending: 0..1] :
              /\ w.live => w.opened /\ w.ended = "none" /\ w.watch # "none"}
vLive == [opened |-> TRUE, live |-> TRUE, ended |-> "none", watch |-> "watching",
          changed |-> FALSE, lease |-> TRUE, pending |-> 0]
vField(name, type, addressable) == [name |-> name, type |-> type, addressable |-> addressable]
vSchema == <<vField("key", "Int64", TRUE), vField("geom", "Binary", TRUE), vField("id", "Utf8", TRUE),
             vField("kind", "Dictionary", TRUE), vField("odd", "Utf8", FALSE), vField("list", "List", TRUE)>>
vData(ids, crss, covers, utf8, verified, missing) ==
    [schema: {vSchema}, geometry: {"geom"}, idColumn: ids, crs: crss, covering: covers,
     utf8Path: utf8, verified: verified, unestablished: missing]
vPlain == vData({"key"}, {"A"}, {TRUE}, {TRUE}, {-1}, {{}})
vDatasets == vData({"key", "id"}, {"A", "definition-only"}, BOOLEAN, {TRUE}, {-1}, {{}, {"mtime"}})
             \cup vData({"key"}, {"A"}, {TRUE}, BOOLEAN, {3}, {{}})
vName == {"key", "geom", "id", "kind", "odd", "list", "other"}
vColumns == {<<>>, << <<>> >>, << <<"kind", "kind", "kind">> >>}
            \cup {<< <<a>> >> : a \in vName} \cup {<< <<a, b>> >> : a, b \in vName}
vRequests ==
    [skp: {"0"}, bbox: {"absent", "view"}, bboxCrs: {"absent", "A", "B", "definition-only"},
     limit: {"absent", "five"}, filter: {"absent", "admitted", "TooDeep", "ConnectionsExhausted"},
     columns: {<<>>, << <<"kind">> >>}]
    \cup [skp: {"0", "1"}, bbox: {"absent"}, bboxCrs: {"absent"}, limit: {"absent"},
          filter: {"absent", "TooDeep"}, columns: vColumns]
vSimple == {r \in vRequests : r.limit = "absent" /\ r.filter \in {"absent", "TooDeep"} /\ r.bboxCrs # "B"
                                /\ (r.columns # <<>> => Len(r.columns[1]) < 2)}

\* Payloads, every short sequence of bytes, and texts of handles and decimals.
kText == {<<>>, <<1>>, <<2, 4>>, <<1, 1, 0, 1>>, <<1, 1, 1, 1, 1>>}
kParams == [dataset: kText, bbox: {<<>>, <<0, 1, 2, 4>>}, bboxCrs: kText, limit: {<<>>, <<0>>, <<4>>}]
kUpTo(S, n) == UNION {[1..m -> S] : m \in 0..n}
kHandles == [prefix: {"ds_", "sh_", "sr_", "", "?"}, digits: kUpTo({0, 1, 9}, 3)]

-----------------------------------------------------------------------------
\* Operands: columns, literals of every width that matters, and what is computed of them.
fMagnitude == {<<7, 3>>, <<8, 3>>, <<31, 10>>, <<32, 10>>, <<63, 19>>, <<64, 20>>, <<67, 21>>, <<127, 39>>}
fInteger == {F!IntegerLiteral([neg |-> n, bits |-> v[1], digits |-> v[2]]) : n \in BOOLEAN, v \in fMagnitude}
            \cup {F!IntegerLiteral([neg |-> FALSE, bits |-> 128, digits |-> 39])}
fColumn == {F!Column(t) : t \in {F!Varchar, F!Boolean, F!Real, F!Double}
                                \cup {F!IntTy(b, s) : b \in {16, 32, 64}, s \in 0..1}}
fLeaf == fColumn \cup fInteger \cup {F!OtherLiteral(t) : t \in {F!Double, F!Varchar, F!Null}}
         \cup {F!DecimalLiteral(d[1], d[2]) : d \in {<<4, 2>>, <<38, 18>>, <<21, 0>>, <<22, 19>>}}
fComputed == {x.t : x \in {y \in {F!TypeOfUnary(l) : l \in fLeaf}
                                 \cup {F!TypeOfArithmetic(l, r) : l, r \in fLeaf} : y.ok}}
fOperand == fLeaf \cup fComputed

\* Filters: every short text over the tokens that could end the wrapped predicate, and
\* every small expression.
Col(name) == F!Leaf("COLUMN_REF", name)
fField(name, arrow, geometry, addressable) ==
    [name |-> name, arrow |-> arrow, geometry |-> geometry, addressable |-> addressable]
fSchema(mapped) ==
    [columns |-> {fField("id", F!IntTy(64, 0), FALSE, TRUE), fField("g", F!Varchar, TRUE, TRUE),
                  fField("d", F!Varchar, FALSE, FALSE), fField("y", <<"Dictionary", 0, 0>>, FALSE, TRUE),
                  fField("t", F!Varchar, FALSE, TRUE), fField("f", F!Real, FALSE, TRUE),
                  fField("b", F!Boolean, FALSE, TRUE)},
     mapped |-> mapped]
fToken == {"(", ")", "AND", "OR", "--", "s1", "a"}
fText == UNION {[1..n -> fToken] : n \in 1..4} \cup {t \in [1..5 -> fToken] : t[1] \in {"a", ")"}}
fValue == {Col(n) : n \in {"id", "t", "f", "b", "g", "d", "y", "zz"}}
          \cup {F!Leaf("CONSTANT", F!OtherLiteral(t)) : t \in {F!Null, F!Varchar, F!Double}}
fNode(class, op, kids) == F!Node(class, op, kids, "none")
fShallow == {fNode("COMPARISON", "=", <<l, r>>) : l, r \in fValue}
            \cup {fNode("OPERATOR", o, <<l>>) : o \in F!Unary \cup {"OPERATOR_COALESCE"}, l \in fValue}
            \cup {fNode("OPERATOR", "COMPARE_IN", <<l, r>>) : l, r \in fValue}
            \cup {fNode("FUNCTION", o, <<l, r>>) : o \in {"+", "/", "~~", "read_csv"}, l, r \in fValue}
fExpression == fShallow
               \cup {fNode("OPERATOR", o, <<l>>) : o \in F!Unary, l \in fShallow}
               \cup {fNode("COMPARISON", "=", <<l, Col("f")>>) : l \in fShallow}
               \cup {fNode("BETWEEN", "none", <<l, Col("id"), Col("f")>>) : l \in fShallow}
fAtoms(a) == [t \in {"s1", "s2", "bbox", "a"} |->
                 CASE t \in {"s1", "s2"} -> F!Sentinel(t) [] t = "bbox" -> F!Leaf("BBOX", "none") [] t = "a" -> a]

-----------------------------------------------------------------------------
\* Files of three features in two or three row groups, with true or doubtful statistics.
qIds == {<<0, 1, 2>>, <<0, 2, 3>>, <<0, 2, 1>>, <<2, 3, 0>>, <<0, Q!NoId, 1>>, <<0, 2, 4>>}
qBox == {<<0, 0, 1, 1>>, <<2, 0, 3, 3>>, <<0, 2, 4, 2>>, <<4, 4, 4, 4>>, <<2, 0, 1, 2>>}
qView == {<<1, 1, 2, 2>>, <<3, 3, 5, 5>>, <<0, 3, 1, 3>>, <<2, 2, 1, 1>>}
qRows(ids, boxes) == [i \in 1..3 |-> [id |-> ids[i], box |-> boxes[i], matches |-> i # 2]]
qFiles(rows) == {<<SubSeq(rows, 1, 1), SubSeq(rows, 2, 3)>>, <<SubSeq(rows, 1, 2), SubSeq(rows, 3, 3)>>,
                 <<SubSeq(rows, 1, 1), SubSeq(rows, 2, 2), SubSeq(rows, 3, 3)>>}
qTrue == [noise |-> <<0, 0>>, gap |-> "none"]
qStats == {qTrue, [noise |-> <<1, -1>>, gap |-> "none"],
           [noise |-> <<-1, 1>>, gap |-> "nulls"], [noise |-> <<1, -1>>, gap |-> "ids"],
           [noise |-> <<0, -1>>, gap |-> "bounds"]}

\* Four rows in some chunks, under policies that make every reason to cut occur.
cKind == {<<0, 0, 0>>, <<1, 1, 0>>, <<3, 2, 0>>, <<1, 1, 30>>, <<6, 6, 0>>}
cRows(kinds) == [i \in 1..4 |-> [id |-> i, bound |-> kinds[i][1], vertices |-> kinds[i][2], attrs |-> kinds[i][3]]]
cChunks(rows) == {<<rows>>, <<SubSeq(rows, 1, 1), SubSeq(rows, 2, 4)>>,
                  <<SubSeq(rows, 1, 2), <<>>, SubSeq(rows, 3, 4)>>}
cPolicy == [first: {40, 64}, growth: {1, 2}, target: {96}, min: {10}, maxRows: {2, 3}, budgeted: {FALSE}]
           \cup [first: {64}, growth: {2}, target: {96}, min: {45}, maxRows: {3}, budgeted: {TRUE}]

-----------------------------------------------------------------------------
D == INSTANCE DatasetOpen WITH SampleMaxRows <- 2
G == INSTANCE GeometryDecode WITH U32Bytes <- 2, F64Bytes <- 2, NaN <- {65535}, NegativeZero <- 32768
tierSize(hash, column, tier) ==
    IF tier = 2 THEN 4 ELSE CASE column = "a" -> 5 [] column = "b" -> 6 [] column = "big" -> 30
L == INSTANCE LodTiers WITH TierCount <- 2, ReadRows <- 2, SizeOf <- tierSize
Y == INSTANCE LayoutRewrite WITH CurveOrderBits <- 2, MaxKeyedFeatures <- 3, WriterVector <- 2
R == INSTANCE SourceReference WITH FooterMax <- 2, TailBytes <- 1, MaxExactInteger <- 5, MaxRefLocators <- 2
S == INSTANCE StyleCompile WITH MaxMatchCases <- 2, MaxOutlineWidth <- 640000000
B == INSTANCE BundleContents WITH MaxViewerAssets <- 2, MaxColumns <- 2, MaxFeatures <- 3, MaxPartitions <- 2,
        PartitionRows <- 1, MinPrintableRun <- 2, SchemePart <- {"c:"}, ColonPart <- {"c:", "a:b"},
        BackslashPart <- {"back"}, ControlPart <- {"ctl"}
P == INSTANCE PathScope WITH MaxGrants <- 2, MaxLifetime <- 2
A == INSTANCE AuditLog WITH MaxLines <- 2, Generations <- 2

-----------------------------------------------------------------------------
\* Sources that differ in the CRS and the boxes they declare, ...
dDef(axes, geographic, units) == [there |-> TRUE, axes |-> axes, geographic |-> geographic, units |-> units]
dDefs == {dDef(<<"east", "north">>, FALSE, <<"metre", "metre">>),
          dDef(<<"north", "east">>, TRUE, <<"degree", "degree">>),
          dDef(<<"up", "east">>, FALSE, <<"metre", "metre">>)}
dGeom == <<"g", 0>>
dField(bound, name, ty, kids) == [name |-> name, bound |-> bound, ty |-> ty, kids |-> kids]
dLeaf(n) == dField(n, n, "Float64", <<>>)
dElement(n, count) == [name |-> n, count |-> count]
dFooter0 == <<dElement(<<"root", 0>>, 3), dElement(dGeom, 0), dElement(<<"b", 0>>, 1),
              dElement(<<"x", 0>>, 0), dElement(<<"id", 0>>, 0)>>
dSchema0 == <<dField(dGeom, dGeom, "Binary", <<>>),
              dField(<<"b", 0>>, <<"b", 0>>, "Struct", <<dLeaf(<<"x", 0>>)>>),
              dField(<<"id", 0>>, <<"id", 0>>, "Int64", <<>>)>>
dGeo0 == [readable |-> TRUE, column |-> dGeom, covering |-> <<>>, whole |-> TRUE, bboxMember |-> D!NoBox,
          crsMember |-> "missing", crs |-> D!NoDefinition, pinned |-> TRUE]
dPath0 == [isDir |-> FALSE, isFile |-> TRUE, verbatim |-> TRUE, chars |-> {"a"}]
dKv0 == <<[key |-> "license", utf8 |-> FALSE], [key |-> "geo", utf8 |-> TRUE]>>
dFile0 == [path |-> dPath0, kv |-> dKv0, geo |-> dGeo0, footer |-> dFooter0, exported |-> dSchema0,
           described |-> [i \in DOMAIN dSchema0 |-> dSchema0[i].bound], ids |-> <<1, 2>>,
           groupBoxes |-> <<>>, firstRows |-> <<>>]
dNoCrs == [made |-> FALSE, blank |-> FALSE, tooLarge |-> FALSE, def |-> D!NoDefinition]
dNoId == [made |-> FALSE, skip |-> FALSE, column |-> <<"id", 0>>]
dAssertions == {dNoCrs} \cup {[made |-> TRUE, blank |-> b, tooLarge |-> t, def |-> d] :
                                 b, t \in BOOLEAN, d \in dDefs \cup {D!NoDefinition}}
dMembers == {[crsMember |-> "object", crs |-> d, pinned |-> p] : d \in dDefs, p \in BOOLEAN}
            \cup {[crsMember |-> k, crs |-> D!NoDefinition, pinned |-> TRUE] : k \in {"null", "text", "missing"}}
dIn == <<0, 0, 10, 10>>
dOut == <<-200, 0, 10, 10>>
dBoxes == {<<>>, dIn, dOut, <<0, 0, 500, 10, 10, 500>>, <<0, 0, 0, 10, 91, 0>>, <<0, 0, 1>>}
dSources == {[dFile0 EXCEPT !.geo = [bboxMember |-> b] @@ m @@ dGeo0, !.groupBoxes = gb, !.firstRows = fr] :
                b \in dBoxes, m \in dMembers, gb \in {<<>>, <<dIn, dOut>>, <<dIn, D!NoBox>>},
                fr \in {<<>>, <<D!NoBox, dOut>>, <<dIn, dIn, dOut>>}}

\* ... in how their columns are named, by the footer, by the schema and by the covering, ...
dFooters == {<<dElement(<<"root", 0>>, 3), dElement(dGeom, 0), dElement(n, k), dElement(m, 0), dElement(<<"id", 0>>, 0)>> :
                n \in {<<"b", 0>>, <<"g", 1>>}, m \in {<<"x", 0>>, <<"id", 0>>}, k \in 0..2}
dSchemas == {<<dField(dGeom, e, "Binary", <<>>), dField(n, n, "Struct", kids), dField(<<"id", 0>>, <<"id", 0>>, ty, <<>>)>> :
                e \in {dGeom, <<"g", 2>>}, n \in {<<"b", 0>>, <<"b", 1>>},
                kids \in {<<dLeaf(<<"x", 0>>)>>, <<dLeaf(<<"x", 0>>), dLeaf(<<"y", 0>>)>>},
                ty \in {"Int64", "Int32", "Utf8"}}
            \cup {SubSeq(dSchema0, 1, 2), SubSeq(dSchema0, 1, 2) \o <<dLeaf(<<"id", 1>>)>>}
dCoverings == {<<>>, <<<<<<"b", 0>>, <<"x", 0>>>>>>, <<<<<<"b", 0>>, <<"nul", 0>>>>>>, <<<<<<"q", 0>>>>, <<<<"b", 0>>>>>>}
dIdValues == {<<1, 2>>, <<1, 1>>, <<1, D!NullId>>, <<0, -1>>, <<>>}
dIdentities == {dNoId} \cup {[made |-> TRUE, skip |-> s, column |-> n] : s \in BOOLEAN, n \in {<<"id", 0>>, <<"k", 0>>}}
dTables == {[dFile0 EXCEPT !.geo.covering = cv, !.footer = f, !.exported = s, !.ids = v,
                           !.described = [i \in DOMAIN s |-> s[i].bound]] :
               cv \in dCoverings, f \in dFooters, s \in dSchemas, v \in dIdValues}

\* ... and in what is at the path at all.
dOdd == {[dFile0 EXCEPT !.path = p] : p \in [isDir: BOOLEAN, isFile: BOOLEAN, verbatim: BOOLEAN,
                                             chars: {{"a"}, {"a", "*"}, {"["}}]}
        \cup {[dFile0 EXCEPT !.kv = k] : k \in {<<>>, <<dKv0[1]>>, <<[key |-> "geo", utf8 |-> FALSE]>>}}
        \cup {[dFile0 EXCEPT !.described = Tail(@)], [dFile0 EXCEPT !.geo.readable = FALSE],
              [dFile0 EXCEPT !.geo.whole = FALSE]}
dAsks(crss, ids) == [crs: crss, identity: ids]

-----------------------------------------------------------------------------
\* Geometries, in both byte orders, mixed, cut short or too long.
gRing == <<<<0, 7>>, <<1, 300>>, <<2, 3>>, <<32768, 7>>>>
gRing5 == <<<<5, 5>>, <<9, 5>>, <<9, 9>>, <<5, 9>>, <<5, 5>>>>
gNaN == <<<<65535, 7>>, <<1, 300>>, <<2, 3>>, <<65535, 7>>>>
gOpen == <<<<0, 7>>, <<1, 300>>, <<2, 3>>, <<1, 7>>>>
gLine == <<<<1, 2>>, <<3, 4>>>>
gLine3 == <<<<1, 2>>, <<3, 4>>, <<5, 6>>>>
gGeom == {[type |-> "point", parts |-> <<<< <<p>> >>>>] : p \in {<<1, 2>>, <<0, 256>>, <<65535, 1>>}}
   \cup {[type |-> "linestring", parts |-> << <<l>> >>] : l \in {gLine, gLine3, <<<<1, 2>>>>}}
   \cup {[type |-> "polygon", parts |-> <<p>>] : p \in {<<gRing>>, <<gRing5, gRing>>, <<gOpen>>, <<gNaN>>, <<>>, <<gLine3>>}}
   \cup {[type |-> "multilinestring", parts |-> ps] : ps \in {<<>>, << <<gLine>> >>, << <<gLine3>>, <<gLine>> >>}}
   \cup {[type |-> "multipolygon", parts |-> ps] :
            ps \in {<<>>, << <<gRing>> >>, << <<gRing5, gRing>>, <<gRing>> >>, << <<gRing>>, <<gOpen>> >>}}
   \cup {[type |-> "geometrycollection", parts |-> << <<gLine>> >>]}
gRow == {r \in [geom: gGeom, orders: {<<TRUE, TRUE>>, <<FALSE, FALSE>>, <<TRUE, FALSE>>},
                cut: {0, 1, 3}, extra: {<<>>, <<1>>}] : r.cut = 0 \/ r.extra = <<>>}
gClean == {r \in gRow : r.cut = 0 /\ r.extra = <<>> /\ r.orders # <<TRUE, TRUE>>}
gRows == {<<r>> : r \in gRow} \cup {<<r, s>> : r \in gClean, s \in {x \in gClean : x.orders = <<TRUE, FALSE>>}}
gTypes == {{}, {"point"}, {"linestring"}, {"multilinestring"}, {"linestring", "multilinestring"}, {"polygon"},
           {"multipolygon"}, {"polygon", "multipolygon"}, {"point", "polygon"}, {"other"}}

-----------------------------------------------------------------------------
\* Builds of the tiers: one that may fail or crash anywhere, another over what it left, and
\* a third that completes.
lMetre == [there |-> TRUE, parses |-> TRUE, geographic |-> FALSE, unit |-> "metre", angular |-> FALSE, factors |-> <<>>]
lRow(i) == [id |-> i, kind |-> "Polygon", before |-> 4, after |-> 3, valid |-> TRUE]
lRows == <<lRow(1), lRow(2), lRow(3)>>
lIdType(t) == [x \in {"a", "b", "big"} |-> t]
lSource(hash, rows, mtime) == [hash |-> hash, rows |-> rows, len |-> 10, mtime |-> mtime,
                               crs |-> lMetre, types |-> lIdType("Int64")]
lSources == {lSource("h1", lRows, 1), lSource("h1", lRows, 2)}
lUndated == lSource("h1", lRows, -1)
lOthers == {lUndated, [lSource("h1", lRows, 1) EXCEPT !.types = lIdType("Int32")],
            lSource("h2", <<lRow(1), [lRow(2) EXCEPT !.valid = FALSE], lRow(3)>>, 1),
            lSource("h2", <<lRow(1), [lRow(2) EXCEPT !.kind = "Point"], lRow(3)>>, 1),
            lSource("h2", <<lRow(-1)>>, 1),
            [lSource("h1", lRows, 1) EXCEPT !.crs.unit = "foot", !.crs.factors = <<3, 3>>],
            [lSource("h1", lRows, 1) EXCEPT !.crs.unit = "degree"]}
lFaults == {[tier |-> t, stage |-> s, kind |-> k] : t \in 1..2, s \in {0, 2, 4, 5, 6}, k \in {"cancel", "crash", "stuck"}}
           \cup {[tier |-> 3, stage |-> 0, kind |-> "crash"]}
lBuild(source, column, workers, fault, free) ==
    [source |-> source, idColumn |-> column, workers |-> workers, root |-> TRUE, free |-> free, fault |-> fault]
lAlone == {lBuild(s, "a", w, L!NoFault, 20) : s \in lSources, w \in {1, 5}}
          \cup {lBuild(s, "a", 2, f, n) : s \in lOthers, n \in {20, 19, -1},
                                          f \in {L!NoFault, [tier |-> 1, stage |-> 1, kind |-> "stuck"]}}
lFirst == {lBuild(s, c, 1, f, 20) : s \in {lSource("h1", lRows, 1)}, c \in {"a", "b"},
                                    f \in {x \in lFaults : x.kind # "cancel"} \cup {L!NoFault}}
lSecond == {lBuild(s, c, 2, f, 20) : s \in lSources, c \in {"a", "big"},
                                     f \in {x \in lFaults : x.stage \in {0, 4, 6}} \cup {L!NoFault}}
lThird == {lBuild(s, c, 1, L!NoFault, 30) : s \in lSources \cup {lUndated}, c \in {"a", "b"}}
lScripts == {<<x>> : x \in lAlone} \cup {<<x, y>> : x \in lFirst, y \in lSecond}
            \cup {<<x, y, z>> : x \in lFirst, y \in {b \in lSecond : b.fault.kind # "cancel"}, z \in lThird}

-----------------------------------------------------------------------------
\* Sources to rewrite, and the same rows met in the other order.
yRow(i, x, y) == [id |-> i, x |-> x, y |-> y, hash |-> (i * 2) % 3]
ySome == {yRow(i, x, y) : i \in {-1, 1, 2}, x \in {<<0, 2>>, <<5, 6>>, <<99, 99>>}, y \in {<<0, 1>>, <<3, 3>>}}
yMore == {yRow(3, <<4, 4>>, <<2, 2>>), yRow(4, <<0, 2>>, <<0, 1>>)}
ySame(n) == [i \in 1..n |-> yRow(i, <<0, 2>>, <<0, 1>>)]
yShort == {<<>>} \cup {<<a>> : a \in ySome}
yLong == {<<a, b>> : a \in ySome, b \in {r \in ySome : r.id = 1}} \cup {<<a, b, c>> : a \in ySome, b, c \in yMore} \cup {ySame(4)}
yReversed(s) == [i \in DOMAIN s |-> s[Len(s) + 1 - i]]
yFile(keys, covering, rows) == [keys |-> keys, covering |-> covering, rows |-> rows]
yExtent(width) == [xmin |-> 0, ymin |-> 0, xmax |-> width, ymax |-> 4]
yOld == [there |-> TRUE, rows |-> <<yRow(9, <<0, 0>>, <<0, 0>>)>>, groups |-> <<1>>, keys |-> {"geo"}]
ySpecs(extents, groups) == [order: {"hilbert16", "source-identity", "shuffled"}, extent: extents, groupRows: groups]
yCase(file, dst, spec, stop, removable) ==
    [src |-> file, again |-> [file EXCEPT !.rows = yReversed(@)], dst |-> dst, spec |-> spec, stop |-> stop,
     removable |-> removable]
yCases == {yCase(yFile(k, c, rows), dst, spec, stop, removable) :
              k \in {{"geo"}, {}}, c \in BOOLEAN, rows \in yShort, dst \in {yOld, Y!NoFile},
              spec \in ySpecs({yExtent(4), yExtent(0)}, {0, 2}), stop \in {"never", "early", "copy"}, removable \in {TRUE}}
          \cup {yCase(yFile({"geo", "k"}, TRUE, rows), dst, spec, "never", removable) :
                   rows \in yLong, dst \in {yOld, Y!NoFile}, spec \in ySpecs({yExtent(4)}, {1, 2}), removable \in BOOLEAN}

-----------------------------------------------------------------------------
\* Sources as a reference was made and as they are now, and entries edited by hand.
rUri == R!Str("u", {"uri"})
rFile0 == [there |-> TRUE, size |-> 3, mtime |-> 1, magic |-> TRUE, footerLen |-> 1, footer |-> "a", body |-> "x"]
rFile == {f \in [there: {TRUE}, size: {0, 3, 4, 6}, mtime: {-1, 1, 2}, magic: BOOLEAN, footerLen: {1, 2, 3},
                 footer: {"a", "b"}, body: {"x"}] : f.magic \/ f.size = 3}
rCrs(source, identifier, marks) == [source |-> source, identifier |-> R!Str(identifier, {}), definition |-> R!Str("d", marks)]
rId(mapped, column, marks) == [mapped |-> mapped, column |-> R!Str(column, marks)]
rBase == [file |-> rFile0, crs |-> rCrs("file", "i", {}), identity |-> rId(FALSE, "id", {})]
rBySource == {d \in {[rBase EXCEPT !.file = f] : f \in rFile} : R!DescriptorOf(d.file).ok}
rByClaim == {[rBase EXCEPT !.crs = c, !.identity = i] :
                c \in {rCrs("file", "i", {})} \cup {rCrs("caller-asserted", n, m) : n \in {"i", "j"}, m \in {{}, {"over-ceiling"}}},
                i \in {rId(FALSE, "id", {}), rId(TRUE, "c", {}), rId(TRUE, " ", {"blank"})}}
rEdits == {"none", "basis", "blank-basis", "state", "hash", "unknown", "missing", "locator", "relative", "colon",
           "none-left", "many", "other-uri", "padded", "cache", "size"}
rRelative(at, marks) == [kind |-> R!Str("project-relative", {}), at |-> R!Str(at, marks)]
rEdited(edit, v) ==
    CASE edit = "none" -> v
      [] edit = "basis" -> [v EXCEPT !.resource.content_hash.basis = R!Str("other words", {})]
      [] edit = "blank-basis" -> [v EXCEPT !.resource.content_hash.basis = R!Str(" ", {"blank"})]
      [] edit = "state" -> [v EXCEPT !.resource.source_revision.state = R!Str("pinned", {})]
      [] edit = "hash" -> [v EXCEPT !.resource.content_hash = R!Str("h", {"hex64"})]
      [] edit = "unknown" -> [v EXCEPT !.observed = ("extra" :> 1) @@ @]
      [] edit = "missing" -> [v EXCEPT !.admission = [k \in {"identity"} |-> v.admission.identity]]
      [] edit = "locator" -> [v EXCEPT !.resource.locators[1].kind = R!Str("elsewhere", {})]
      [] edit = "relative" -> [v EXCEPT !.resource.locators = Append(@, rRelative("a/b", {}))]
      [] edit = "colon" -> [v EXCEPT !.resource.locators = Append(@, rRelative("a:b", {"colon"}))]
      [] edit = "none-left" -> [v EXCEPT !.resource.locators = <<>>]
      [] edit = "many" -> [v EXCEPT !.resource.locators = @ \o @ \o @]
      [] edit = "other-uri" -> [v EXCEPT !.resource.logical_uri = R!Str("w", {"uri"})]
      [] edit = "padded" -> [v EXCEPT !.observed.modified_ns = R!Str("01", {"decimal"})]
      [] edit = "cache" -> [v EXCEPT !.resource.cache_status = R!Str("materialized", {})]
      [] edit = "size" -> [v EXCEPT !.observed.byte_size = 6]
rCases == [was: rBySource, now: rBySource, edit: {"none"}] \cup [was: rByClaim, now: rByClaim, edit: {"none"}]
          \cup {[was |-> d, now |-> d, edit |-> e] : d \in rByClaim \cup rBySource, e \in rEdits}

-----------------------------------------------------------------------------
\* Styles over a text column, a number column and one that is not published.
sColor(form, n) == [ty |-> "text", form |-> form, n |-> n]
sNumber(n) == [ty |-> "number", form |-> "number", n |-> n]
sLiteral(l) == [object |-> TRUE, keys |-> {"literal"}, literal |-> l]
sBoth == [object |-> TRUE, keys |-> {"literal", "match"}, literal |-> sColor("lower", 1)]
sCase(w, t) == [object |-> TRUE, keys |-> {"when", "then"}, when |-> w, then |-> t]
sMatch(column, cases, a, b) ==
    [object |-> TRUE, keys |-> {"match"},
     match |-> [object |-> TRUE, keys |-> {"column", "cases", "on_null", "on_unmatched"}, column |-> column,
                cases |-> cases, onNull |-> a, onUnmatched |-> b]]
sColors == {sColor("lower", 1), sColor("upper", 2), sColor("short", 3)}
sCaseSeqs(values) ==
    {<<>>} \cup {<<sCase(w, x)>> : w \in {"p", "q"}, x \in values}
    \cup {<<sCase(w, x), sCase(v, y)>> : w, v \in {"p", "q"}, x, y \in values}
    \cup {<<sCase("p", x), sCase("q", x), sCase("r", x)>> : x \in values}
sMatches(values) == {sMatch(c, cs, a, b) : c \in {"t", "n", "u", "z", ""}, cs \in sCaseSeqs(values), a, b \in values}
sKeys == {"style_version", "layer"}
sSource(fill, opacity, keys, version) ==
    [json |-> TRUE, keys |-> keys, version |-> version, layerKeys |-> S!Site \cup {"geometry"}, geometry |-> "polygon",
     sites |-> [x \in S!Site |-> CASE x = "fill_color" -> fill [] x = "fill_opacity" -> opacity
                                   [] x = "outline_color" -> sLiteral(sColor("upper", 1))
                                   [] OTHER -> sLiteral(sNumber(640000000))]]
sSources ==
    {sSource(m, o, sKeys, 1) : m \in sMatches(sColors), o \in {sLiteral(sNumber(10)), sMatch("t", <<sCase("p", sNumber(0))>>, sNumber(1), sNumber(2))}}
    \cup {sSource(sLiteral(sColor("upper", 2)), m, sKeys, 1) : m \in sMatches({sNumber(0), sNumber(20), sNumber(10000001)})}
    \cup {sSource(sLiteral(l), sLiteral(sNumber(n)), k, v) : l \in sColors, n \in {0, 10, 10000000, 10000001},
             k \in {sKeys, {"layer"}, sKeys \cup {"zoom"}}, v \in 1..2}
    \cup {sSource(sBoth, sLiteral(sNumber(10)), sKeys, 1)}
sSchema == [x \in {"t", "n", "u"} |-> IF x = "n" THEN "Int64" ELSE "Utf8"]

-----------------------------------------------------------------------------
\* Publish requests, alone or beside one that asks for something else.
bSpan == [class: {"username", "credential"}, run: {1, 2}, of: {"Ann", "nothing"}]
bRow(n, found) == [ids |-> [fid |-> n, gid |-> 5 - n], x |-> (2 * n) % 5, inView |-> n # 2, matches |-> n = 1, found |-> found]
bField(name, type) == [name |-> name, type |-> type, addressable |-> TRUE]
bSchema == <<bField("fid", "Int64"), bField("gid", "Int64"), bField("geom", "Binary"), bField("kind", "Utf8"),
             bField("code", "Dictionary"), bField("geometry", "Float64")>>
bData == [hash |-> "h", pinned |-> TRUE, geographic |-> FALSE, encoding |-> "geoarrow.polygon", session |-> FALSE,
          geometry |-> "geom", idColumn |-> "fid", crs |-> [identifier |-> "unnamed", definition |-> "d1"],
          schema |-> bSchema, rows |-> <<bRow(2, <<>>), bRow(1, <<>>)>>, verified |-> 2,
          license |-> [declares |-> FALSE, redistribution |-> "unknown"]]
bAsset(path, body, found) == [path |-> path, content |-> [body |-> body, found |-> found]]
bNotice == bAsset(<<"notice">>, "n", <<>>)
bRecord(paths, content) == [p \in paths |-> content]
bPlain == [id |-> "plain", column |-> "nothing"]
bRequest == [ds |-> bData, name |-> "n", filter |-> FALSE, bbox |-> FALSE, limit |-> -1, attributes |-> <<>>,
             style |-> bPlain, viewer |-> <<bNotice>>, record |-> bRecord({}, <<>>),
             operator |-> [there |-> FALSE, license |-> "", redistribution |-> "unknown"],
             viewerLicense |-> [complete |-> TRUE, kind |-> "url", at |-> [scheme |-> "https"], notice |-> <<"notice">>,
                                copyright |-> [value |-> "Ann", len |-> 3], source |-> [value |-> "S", len |-> 1],
                                found |-> <<>>]]
bQueries ==
    {[bRequest EXCEPT !.filter = f, !.bbox = b, !.limit = l, !.attributes = a, !.ds.idColumn = i, !.style = y] :
       f \in BOOLEAN, b \in BOOLEAN, l \in {-1, 0, 1, 3}, a \in {<<>>, <<"kind">>, <<"code">>, <<"geometry">>, <<"gid">>},
       i \in {"fid", "gid"}, y \in {bPlain, [id |-> "by", column |-> "kind"]}}
bBeside(q) == {[q EXCEPT !.filter = ~@], [q EXCEPT !.bbox = ~@], [q EXCEPT !.limit = 1], [q EXCEPT !.ds.idColumn = "fid"],
               [q EXCEPT !.attributes = <<"kind">>], [q EXCEPT !.style.id = "plain"], [q EXCEPT !.ds.crs.definition = "d2"]}
bSizes == {[bRequest EXCEPT !.ds.rows = [i \in 1..n |-> bRow(i, <<>>)], !.ds.verified = v, !.limit = l] :
             n \in 0..4, v \in {-1, 2, 4}, l \in {-1, 2}}
bTexts ==
    {[bRequest EXCEPT !.ds.rows = <<bRow(1, <<a>>)>>] : a \in bSpan}
    \cup {[bRequest EXCEPT !.viewerLicense.found = <<a>>, !.viewerLicense.copyright.len = n] : a \in bSpan, n \in {1, 3}}
    \cup UNION {{[bRequest EXCEPT !.viewer = <<bNotice, bAsset(<<"main">>, "m", <<a>>)>>, !.record = q] :
                    q \in {bRecord({}, <<>>)} \cup {bRecord({<<"main">>}, [body |-> b, found |-> <<a>>]) : b \in {"m", "old"}}} :
                  a \in bSpan}
bPaths == {[bRequest EXCEPT !.viewer = <<bNotice, bAsset(p, "m", <<>>)>>] :
             p \in {<<>>, <<"notice">>, <<"c:", "x">>, <<"x", "a:b">>, <<"x", "..">>, <<"back">>, <<"x", "ctl">>, <<"x", "">>}}
bTerms == {[bRequest EXCEPT !.ds.license = l, !.operator = o] :
             l \in [declares: BOOLEAN, redistribution: {"permitted", "unknown", "forbidden"}],
             o \in [there: BOOLEAN, license: {"", "MIT"}, redistribution: {"permitted", "forbidden"}]}
bOdd == {[bRequest EXCEPT !.ds.geographic = TRUE], [bRequest EXCEPT !.ds.encoding = "geoarrow.multipolygon"],
         [bRequest EXCEPT !.ds.session = TRUE], [bRequest EXCEPT !.name = ""], [bRequest EXCEPT !.ds.pinned = FALSE],
         [bRequest EXCEPT !.viewerLicense.complete = FALSE], [bRequest EXCEPT !.viewerLicense.at.scheme = "ftp"],
         [bRequest EXCEPT !.viewerLicense.kind = "written-offer"], [bRequest EXCEPT !.viewerLicense.notice = <<"main">>]}
bPairs == {<<r, r>> : r \in bSizes \cup bTexts \cup bPaths \cup bTerms \cup bOdd}
          \cup UNION {{<<q, s>> : s \in bBeside(q)} : q \in bQueries}

-----------------------------------------------------------------------------
\* Directories with links in them, destinations spelled in several ways, and roots that
\* a record replaces.
pFileSystems == {[dirs |-> {<<"a">>, <<"b">>, <<"a", "c">>}, links |-> links, cwd |-> <<"a">>] :
                    links \in {<<>>, (<<"l">> :> <<"a">>), (<<"l">> :> <<"a", "c">>) @@ (<<"a", "m">> :> <<"b">>)}}
pParts == {<<>>} \cup {<<x>> : x \in {"a", "l", "..", "."}} \cup {<<x, y>> : x \in {"..", "l"}, y \in {"a", "l", "..", "m"}}
pDirs == [abs: BOOLEAN, parts: pParts]
pDestinations == {d \in {[abs |-> d.abs, parts |-> Append(d.parts, n)] : d \in pDirs, n \in {"o", ".."}} :
                     ~d.abs \/ Len(d.parts) <= 2}
pGrantDirs == {d \in pDirs : d.abs /\ d.parts \in {<<"a">>, <<"l">>, <<"..">>}}
pPlaces == {<<>>, <<"u">>, <<"h", "u">>, <<"h", "u", "d">>, <<"h", "v", "d">>, <<"h", "v">>, <<"t">>}
pRoots == {<<[dir |-> x, token |-> "HOME"], [dir |-> y, token |-> "DATA"], [dir |-> z, token |-> "TEMP"]>> :
              x, y, z \in {<<>>, <<"h", "u">>, <<"h", "u", "d">>, <<"t">>}}
pFindings == UNION {[1..n -> [class: {"credential", "username", "local-filesystem-path"}, declared: BOOLEAN]] : n \in 0..2}
pOverrides == {[ok |-> FALSE]} \cup [ok: {TRUE}, abs: BOOLEAN, dir: pPlaces]
pDataDirs == {[ok |-> FALSE]} \cup [ok: {TRUE}, dir: pPlaces]

-----------------------------------------------------------------------------
\* Logs of up to two lines a file, whole, torn or glued together.
aRecord == [attempt: 1..2, phase: {"intent"}, outcome: {"none"}] \cup [attempt: 1..2, phase: {"outcome"}, outcome: {"done", "failed"}]
aLine == {A!Line(<<r>>, c, TRUE) : r \in aRecord, c \in BOOLEAN} \cup {A!Line(<<r, s>>, c, TRUE) : r, s \in aRecord, c \in {FALSE}}
aWhole(n, phase) == A!Line(<<[attempt |-> n, phase |-> phase, outcome |-> "none"]>>, FALSE, TRUE)
aGeneration == {<<>>, <<aWhole(1, "intent")>>, <<aWhole(2, "intent"), aWhole(2, "outcome")>>}
aLogs == [live: {<<>>, <<aWhole(3, "intent")>>, <<aWhole(3, "intent"), aWhole(3, "outcome")>>,
                 <<aWhole(3, "intent"), aWhole(3, "outcome"), aWhole(4, "intent")>>},
          gens: [1..2 -> aGeneration]]
aFiles == UNION {[1..n -> aLine] : n \in 0..2}
          \cup {[i \in 1..3 |-> A!Line(<<t[i]>>, FALSE, TRUE)] : t \in [1..3 -> aRecord]}
=============================================================================
