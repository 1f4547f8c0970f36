----------------------------- MODULE MCAlgorithms -----------------------------
(***************************************************************************)
(* One instance of every algorithm of the project that takes an input and  *)
(* gives a result, and of the parts that keep their own books beside the   *)
(* system: the traces, the pool indicator's polls, the viewport's tickets  *)
(* and the session history.  A behaviour is about one subject: an          *)
(* algorithm is given one of its inputs, the others take their steps.      *)
(***************************************************************************)
EXTENDS Books, MCInputs

VARIABLE given

algorithmVars == <<subject, given>>

mSpans == {<<"a", "b">>}

Symmetry == Permutations(Call) \cup Permutations(Key)

Subjects == {"request", "session", "start", "bytes", "text", "operands", "filter", "expression", "plan", "cut",
             "source", "table", "odd", "geometry", "tiers", "layout", "reference", "style", "bundle",
             "grant", "label", "record", "rotation", "reader", "trace", "poll", "viewport", "history"}

Init == subject \in Subjects /\ given = <<>> /\ BooksInit

\* Tracers that have not begun are alike, so they begin in order.
TracersInOrder == trace["t1"].state = "unborn" => trace["t2"].state = "unborn"

Ask(name) ==
    /\ subject = name
    /\ given = <<>>
    /\ UNCHANGED <<subject, traceVars, pollVars, viewVars, historyVars>>
Give(v) == given' = <<v>>

Next ==
    \/ Ask("request") /\ \E ds \in vDatasets, r \in vRequests : Give([w |-> vLive, ds |-> ds, r |-> r])
    \/ Ask("session") /\ \E w \in vWorld, ds \in vPlain, r \in vSimple : Give([w |-> w, ds |-> ds, r |-> r])
    \/ Ask("start") /\ \E op \in kText, p \in kParams : Give([operation |-> op, params |-> p])
    \/ Ask("bytes") /\ \E b \in kUpTo(0..4, 6) : Give(b)
    \/ Ask("text") /\ \E s \in kUpTo({0, 1, 4, 9}, 3), h \in kHandles : Give([s |-> s, h |-> h])
    \/ Ask("operands") /\ \E l, r \in fOperand : Give(<<l, r>>)
    \/ Ask("filter") /\ \E t \in fText : Give([text |-> t, ds |-> fSchema("none"), a |-> Col("b")])
    \/ Ask("expression") /\ \E x \in fExpression, m \in {"none", "key"} :
          Give([text |-> <<"a">>, ds |-> fSchema(m), a |-> x])
    \/ Ask("plan") /\ \E ids \in qIds, boxes \in [1..3 -> qBox], v \in qView :
          \/ \E file \in qFiles(qRows(ids, boxes)), s \in qStats : Give(<<file, v, "RowGroups", s.gap = "none", s>>)
          \/ \E f \in BOOLEAN : Give(<<<<qRows(ids, boxes)>>, v, "Experimental", f, qTrue>>)
    \/ Ask("cut") /\ \E kinds \in [1..4 -> cKind], p \in cPolicy :
          \E chunks \in cChunks(cRows(kinds)), n \in IF p.budgeted THEN 1..3 ELSE {1} : Give(<<chunks, p, n>>)
    \/ Ask("source") /\ \E file \in dSources, ask \in dAsks(dAssertions, {dNoId}) : Give(<<file, ask>>)
    \/ Ask("table") /\ \E file \in dTables, ask \in dAsks({dNoCrs}, dIdentities) : Give(<<file, ask>>)
    \/ Ask("odd") /\ \E file \in dOdd, ask \in dAsks({dNoCrs}, dIdentities) : Give(<<file, ask>>)
    \/ Ask("geometry") /\ \E t \in gTypes, rows \in gRows : Give(<<t, rows>>)
    \/ Ask("tiers") /\ \E s \in lScripts : Give(s)
    \/ Ask("layout") /\ \E c \in yCases : Give(c)
    \/ Ask("reference") /\ \E c \in rCases : Give(c)
    \/ Ask("style") /\ \E s \in sSources : Give(s)
    \/ Ask("bundle") /\ \E p \in bPairs : Give(p)
    \/ Ask("grant") /\ \E fs \in pFileSystems, g, a \in pDestinations, d \in pGrantDirs, l \in {2, 3} :
          Give(<<fs, g, a, d, l>>)
    \/ Ask("label") /\ \E d, o \in pPlaces, v \in pRoots, u \in {{}, {"u"}, {"u", "v"}} : Give(<<d, o, v, u>>)
    \/ Ask("record") /\ \E f \in pFindings, o \in pOverrides, d \in pDataDirs, to \in {<<"h">>, <<"h", "u", "d">>, <<"t">>} :
          Give(<<f, o, d, to>>)
    \/ Ask("rotation") /\ \E log \in aLogs : Give(log)
    \/ Ask("reader") /\ \E f \in aFiles : Give(f)
    \/ BooksNext /\ TracersInOrder' /\ UNCHANGED given

Spec == Init /\ [][Next]_<<bookVars, given>>

\* What this step gives an algorithm of these subjects.  A property of an algorithm is about the
\* step that runs it.
Given(names) == IF subject \in names /\ given' # given THEN {given'[1]} ELSE {}

-----------------------------------------------------------------------------
\* What a client asks for arrives and is served: a start message survives the wire, a payload
\* that is read is one that was written, the texts of handles and numbers have one spelling
\* (params.rs, wire.rs; RequestCodec); what describe lists can be asked for and is what is
\* served, and a refusal names its cause (skp.rs; ViewportRequest).
RequestsAreServedAsDescribed ==
    [][/\ \A c \in Given({"start"}) : K!StartSurvives(1, c.operation, c.params)
       /\ \A c \in Given({"bytes"}) : K!ReadWasWritten(c)
       /\ \A c \in Given({"text"}) : K!TextIsCanonical(c.s, c.h)
       /\ \A c \in Given({"request", "session"}) : V!DescribedIsServed(c.w, c.ds, c.r)]_algorithmVars

\* The answer is what the query selects: an admitted filter converts no column inexactly and
\* stays one predicate beside the engine's own (predicate.rs; PredicateTypes,
\* PredicateAdmission), a plan that narrows the query keeps its answer (stream.rs, rowgroup.rs,
\* index.rs; QueryPlan), and the batches hold its rows (stream.rs; BatchCutting).
AnswersAreWhole ==
    [][/\ \A c \in Given({"operands"}) : F!ConversionsAreExact(c[1], c[2])
       /\ \A c \in Given({"filter", "expression"}) : F!AdmittedMeansItself(c.text, c.ds, fAtoms(c.a))
       /\ \A c \in Given({"plan"}) : Q!PlanKeepsTheAnswer(c[1], c[2], c[3], c[4], c[5])
       /\ \A c \in Given({"cut"}) : C!BatchesHoldTheRows(c[1], c[2], c[3])]_algorithmVars

\* A source that is opened is what the engine says of it (dataset.rs; DatasetOpen), and its
\* coordinates come through decoding and encoding as they were (wkb.rs, geoarrow.rs;
\* GeometryDecode).
SourcesAreWhatTheySay ==
    [][/\ \A c \in Given({"source", "table", "odd"}) : D!AdmittedAsItIs(c[1], c[2])
       /\ \A c \in Given({"geometry"}) : G!GeometriesComeBack(c[1], c[2])]_algorithmVars

\* What is derived from a source is that source's and no other's: the tiers, over builds that
\* fail, crash and resume (lod.rs; LodTiers), a rewritten layout (layout.rs; LayoutRewrite), and
\* a reference, which notices that its source changed (dataset_ref.rs; SourceReference).
DerivedFilesAreTheirSources ==
    [][/\ \A c \in Given({"tiers"}) : L!TiersAreTheirSources(c, {"h1", "h2"})
       /\ \A c \in Given({"layout"}) :
             Y!VariantIsTheSource(c.src, c.again, c.dst, c.spec, c.stop, c.removable)
       /\ \A c \in Given({"reference"}) :
             R!ReferenceNoticesChange(rUri, c.was, c.now,
                                      rEdited(c.edit, R!ToJson(R!Linked(rUri, c.was))))]_algorithmVars

\* A compiled style draws what its source says (style.rs, compiled.rs; StyleCompile), and a
\* bundle says what is in it and nothing that was to be left out (publish/, bundle/;
\* BundleContents).
PublishedMeansItsSource ==
    [][/\ \A c \in Given({"style"}) : S!StyleMeansItsSource(c, sSchema, {"t"}, {"p", "q", "r"})
       /\ \A c \in Given({"bundle"}) : B!BundleSpeaksForItself(c[1], c[2])]_algorithmVars

\* What the permission boundary goes by and keeps: a grant covers places and not spellings, a
\* record names no user and is kept outside what it records (permission/; PathScope), the audit
\* log loses only its oldest generation whatever fails, and its reader accounts for every line
\* (audit/log.rs, audit/reader.rs; AuditLog).
RecordsAccountForThemselves ==
    [][/\ \A c \in Given({"grant"}) : P!GrantsCoverPlaces(c[1], c[2], c[3], c[4], c[5])
       /\ \A c \in Given({"label"}) : P!RecordNamesNoUser(c[1], c[2], c[3], c[4])
       /\ \A c \in Given({"record"}) : P!RecordIsFitToKeep(c[1], c[2], c[3], c[4])
       /\ \A c \in Given({"rotation"}) : A!RotationLosesOnlyTheOldest(c)
       /\ \A c \in Given({"reader"}) : A!ReaderAccountsForEveryLine(c)]_algorithmVars
=============================================================================
