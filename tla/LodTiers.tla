------------------------------- MODULE LodTiers -------------------------------
(***************************************************************************)
(* Building and reusing the simplified tiers of a source                   *)
(* (engine/src/lod.rs, build_tiers and everything under it), as a function *)
(* from the disk one build finds to the disk it leaves and what it returns.*)
(*                                                                         *)
(* A source is [hash, rows, len, mtime, crs, types], types giving the type *)
(* of each identity column.  A row is [id, kind, before, after, valid]:    *)
(* kind is what its WKB parses to, and after and valid are what geo's      *)
(* simplifier makes of it.  mtime is a number or NoTime.  A build is       *)
(* [source, idColumn, workers, root, free, fault]: root tells whether      *)
(* LOCALAPPDATA is set, and fault stops the build at one point: "cancel"   *)
(* is the token, "stuck" is the token or a refusal followed by a removal   *)
(* that fails, "crash" is the end of the process.  Stage 0 is the check at *)
(* the head of a tier, 1 .. n the check before a row, n + 1 the check that *)
(* finds no more batches, n + 2 the hash of the tier file, n + 3 its       *)
(* ceiling; tier TierCount + 1 is the manifest's own write.                *)
(***************************************************************************)
EXTENDS Integers, SequencesExt

CONSTANTS TierCount,   \* LOD_TIER_COUNT
          ReadRows,    \* LOD_READ_BATCH_ROWS
          SizeOf(_, _, _)  \* the bytes of the tier file of a source, an id column and a tier

NoTime == -1
NoFree == -1
NoFile == [of |-> <<>>, len |-> 0]
NoRecord == [key |-> <<>>, len |-> 0, validity |-> [len |-> 0, mtime |-> NoTime], features |-> 0,
             vertices |-> <<0, 0>>]
NoFault == [tier |-> 0, stage |-> 0, kind |-> "none"]

\* tiers.json as it lies on disk: text that parses (whole) or not, of the tiers' records.
NoManifest == [whole |-> FALSE, tiers |-> <<>>]
EmptyDirectory == [files |-> [t \in 1..TierCount |-> NoFile], manifest |-> NoManifest]

\* tier_directory: the one for a content hash, under a root that the environment names.
TierDirectory(disk, build) == IF build.root THEN <<disk[build.source.hash]>> ELSE <<>>

\* A definition is [there, parses, geographic, unit, angular, factors]: unit is what
\* coordinate_unit_from_projjson reads, factors the conversion factors of its axes.
LinearUnit(crs) ==
    IF ~crs.there \/ ~crs.parses THEN [ok |-> FALSE, err |-> "lod_crs_unit_undeclared"]
    ELSE IF crs.geographic \/ crs.unit = "degree" THEN [ok |-> FALSE, err |-> "lod_crs_not_linear"]
    ELSE IF crs.unit = "unestablished" THEN [ok |-> FALSE, err |-> "lod_crs_unit_undeclared"]
    ELSE IF crs.angular THEN [ok |-> FALSE, err |-> "lod_crs_not_linear"]
    ELSE IF crs.unit = "metre" THEN [ok |-> TRUE, err |-> "", factor |-> 1]
    ELSE IF Len(crs.factors) < 2 \/ crs.factors[1] # crs.factors[2] \/ crs.factors[1] = 0
         THEN [ok |-> FALSE, err |-> "lod_crs_unit_undeclared"]
         ELSE [ok |-> TRUE, err |-> "", factor |-> crs.factors[1]]

\* The key of a tier: the simplifier and the builder's version do not vary here.
TierKey(hash, idColumn, tier) == <<hash, idColumn, tier>>

\* ValidityHeuristic::of and fail_closed_matches.
Validity(source) == [len |-> source.len, mtime |-> source.mtime]
FailClosedMatches(a, b) == a = b /\ a.mtime # NoTime

\* What TierRecord::admit says of a record: "none" is an admission.
AdmitRecord(record, key, validity) ==
    IF record.key # key THEN "KeyMismatch"
    ELSE IF ~FailClosedMatches(record.validity, validity) THEN "SourceChanged" ELSE "none"

\* TierRecord::to_json and from_json: a time that is not known is null in the text.
ToJson(tier, r) == [tier |-> tier, record |-> [r EXCEPT !.validity = @.len],
                    modified |-> IF r.validity.mtime = NoTime THEN <<>> ELSE <<r.validity.mtime>>]
FromJson(t) == [t.record EXCEPT !.validity =
                  [len |-> @, mtime |-> IF t.modified = <<>> THEN NoTime ELSE t.modified[1]]]

\* read_manifest: a text that does not parse holds no tier, and of two records of a tier
\* the later one counts.
ReadManifest(text) ==
    LET at(t) == {i \in DOMAIN text.tiers : text.tiers[i].tier = t}
    IN [t \in 1..TierCount |->
          IF ~text.whole \/ at(t) = {} THEN NoRecord ELSE FromJson(text.tiers[Max(at(t))])]

\* write_manifest, whole or cut off.
WriteManifest(outcomes, torn) ==
    IF torn THEN NoManifest
    ELSE [whole |-> TRUE, tiers |-> [t \in DOMAIN outcomes |-> ToJson(t, outcomes[t].record)]]

\* A bug: a record is reused whatever the file it names has become.
LookupTrustsTheRecord(dir, record, tier, key, validity) ==
    IF record = NoRecord \/ dir.files[tier] = NoFile THEN "Absent"
    ELSE AdmitRecord(record, key, validity)

\* Why the tier on disk cannot be reused, or "none".
Lookup(dir, record, tier, key, validity) ==
    LET file == dir.files[tier]
        miss == AdmitRecord(record, key, validity)
    IN IF record = NoRecord \/ file = NoFile THEN "Absent"
       ELSE IF miss # "none" THEN miss
       ELSE IF file.len # record.len THEN "Absent" ELSE "none"

SetHardBound(source) == source.len * TierCount

\* When the free space cannot be read no tier is written.
DiskPreflight(required, free) == free # NoFree /\ free >= required

-----------------------------------------------------------------------------
\* simplify_slice: the rows emitted, up to the first one that is refused.
SimplifySlice(rows) ==
    LET refused == {i \in DOMAIN rows : rows[i].kind # "Polygon" \/ ~rows[i].valid}
    IN IF refused = {} THEN [ok |-> TRUE, rows |-> [i \in DOMAIN rows |-> [id |-> rows[i].id, after |-> rows[i].after]]]
       ELSE [ok |-> FALSE, rows |-> <<>>]

\* simplify_rows: one slice, or one for each of the workers, joined in their order.
SimplifyRows(rows, workers) ==
    IF workers <= 1 THEN SimplifySlice(rows)
    ELSE LET n == Len(rows)
             per == (n + workers - 1) \div workers
             count == IF per = 0 THEN 0 ELSE (n + per - 1) \div per
             slices == [w \in 1..count |->
                          SimplifySlice(SubSeq(rows, (w - 1) * per + 1, IF w * per < n THEN w * per ELSE n))]
         IN [ok |-> \A w \in DOMAIN slices : slices[w].ok,
             rows |-> IF \A w \in DOMAIN slices : slices[w].ok
                      THEN FlattenSeq([w \in DOMAIN slices |-> slices[w].rows]) ELSE <<>>]

\* The batches the reader yields.
Batches(rows) == [b \in 1..((Len(rows) + ReadRows - 1) \div ReadRows) |->
                    SubSeq(rows, (b - 1) * ReadRows + 1,
                           IF b * ReadRows < Len(rows) THEN b * ReadRows ELSE Len(rows))]

\* read_ids: a signed column may hold a value that is no identifier.
ReadIds(batch) == \A i \in DOMAIN batch : batch[i].id >= 0

\* write_tier, when nothing stops it: the rows of every batch, or a refusal.  Only a
\* 64-bit identity column is read.
WriteTier(rows, type, workers) ==
    LET done == [b \in DOMAIN Batches(rows) |-> SimplifyRows(Batches(rows)[b], workers)]
    IN IF \/ type \notin {"UInt64", "Int64"}
          \/ \E b \in DOMAIN done : ~ReadIds(Batches(rows)[b]) \/ ~done[b].ok
       THEN [ok |-> FALSE, rows |-> <<>>]
       ELSE [ok |-> TRUE, rows |-> FlattenSeq([b \in DOMAIN done |-> done[b].rows])]

-----------------------------------------------------------------------------
\* What a build of one tier leaves and returns: [dir, ok, err, record].
Failed(dir, err) == [dir |-> dir, ok |-> FALSE, err |-> err, record |-> NoRecord]
WithFile(dir, tier, file) == [dir EXCEPT !.files[tier] = file]
Whole(build, tier, rows) ==
    [of |-> <<build.source.hash, build.idColumn, tier, rows>>,
     len |-> SizeOf(build.source.hash, build.idColumn, tier)]
Partial == [of |-> <<"partial">>, len |-> 1]

BuildOneTier(dir, build, tier) ==
    LET src == build.source
        n == Len(src.rows)
        hit(stage) == build.fault.tier = tier /\ build.fault.stage = stage
        type == src.types[build.idColumn]
        written == WriteTier(src.rows, type, build.workers)
        \* the last check a refused build comes to
        refusedAt == IF written.ok THEN n + 1
                     ELSE IF type \notin {"UInt64", "Int64"} THEN 0
                     ELSE CHOOSE i \in 1..n : /\ ~WriteTier(SubSeq(src.rows, 1, i), type, 1).ok
                                              /\ WriteTier(SubSeq(src.rows, 1, i - 1), type, 1).ok
        stopped == \E s \in 1..refusedAt : hit(s)
        whole == Whole(build, tier, written.rows)
    IN IF stopped
       THEN \* the file was created before the first check, and is removed unless nobody is left to
            LET kept == build.fault.kind # "cancel"
            IN Failed(WithFile(dir, tier, IF kept THEN Partial ELSE NoFile),
                      IF build.fault.kind = "cancel" THEN "Cancelled" ELSE build.fault.kind)
       ELSE IF ~written.ok THEN Failed(WithFile(dir, tier, NoFile), "refused")
       ELSE IF hit(n + 2) THEN Failed(WithFile(dir, tier, whole),
                                      IF build.fault.kind = "crash" THEN "crash" ELSE "Cancelled")
       ELSE IF whole.len > src.len
       THEN Failed(WithFile(dir, tier, IF hit(n + 3) /\ build.fault.kind = "stuck" THEN whole ELSE NoFile),
                   "lod_tier_larger_than_source")
       ELSE [dir |-> WithFile(dir, tier, whole), ok |-> TRUE, err |-> "",
             record |-> [key |-> TierKey(src.hash, build.idColumn, tier), len |-> whole.len,
                         validity |-> Validity(src), features |-> Len(written.rows),
                         vertices |-> <<FoldLeft(LAMBDA a, r : a + r.before, 0, src.rows),
                                        FoldLeft(LAMBDA a, r : a + r.after, 0, written.rows)>>]]

\* One turn of the loop over the ladder.
Tier(s, build, tier) ==
    LET src == build.source
        record == s.onDisk[tier]
        miss == Lookup(s.dir, record, tier, TierKey(src.hash, build.idColumn, tier), Validity(src))
        built == BuildOneTier(s.dir, build, tier)
    IN IF ~s.ok THEN s
       ELSE IF build.fault.tier = tier /\ build.fault.stage = 0
       THEN [s EXCEPT !.ok = FALSE, !.err = IF build.fault.kind = "crash" THEN "crash" ELSE "Cancelled"]
       ELSE IF miss = "none"
       THEN IF record.len > src.len THEN [s EXCEPT !.ok = FALSE, !.err = "lod_tier_larger_than_source"]
            ELSE [s EXCEPT !.outcomes = Append(@, [record |-> record, miss |-> miss])]
       ELSE IF ~s.preflightDone /\ ~DiskPreflight(SetHardBound(src), build.free)
       THEN [s EXCEPT !.ok = FALSE, !.err = "lod_insufficient_disk"]
       ELSE IF ~built.ok
       THEN [s EXCEPT !.ok = FALSE, !.err = built.err, !.dir = built.dir, !.preflightDone = TRUE]
       ELSE [s EXCEPT !.dir = built.dir, !.preflightDone = TRUE,
                      !.outcomes = Append(@, [record |-> built.record, miss |-> miss])]

\* TierSet::disk_cost: what a set takes and what it may take.
DiskCost(source, outcomes) == [total |-> FoldLeft(LAMBDA a, o : a + o.record.len, 0, outcomes),
                               bound |-> SetHardBound(source)]

\* build_tiers.  The manifest is read once, and written whole at the end.
BuildTiers(disk, build) ==
    LET hash == build.source.hash
        unit == LinearUnit(build.source.crs)
        dir == TierDirectory(disk, build)
        start == [dir |-> dir[1], onDisk |-> ReadManifest(dir[1].manifest), ok |-> TRUE, err |-> "",
                  preflightDone |-> FALSE, outcomes |-> <<>>]
        end == FoldLeft(LAMBDA s, t : Tier(s, build, t), start, [t \in 1..TierCount |-> t])
        torn == build.fault.tier = TierCount + 1
        refused(err, left) == [disk |-> left, ok |-> FALSE, err |-> err, outcomes |-> <<>>]
    IN IF ~unit.ok THEN refused(unit.err, disk)
       ELSE IF dir = <<>> THEN refused("lod_tier_root_unresolved", disk)
       ELSE IF ~end.ok THEN refused(end.err, [disk EXCEPT ![hash] = end.dir])
       ELSE [disk |-> [disk EXCEPT ![hash] = [end.dir EXCEPT !.manifest = WriteManifest(end.outcomes, torn)]],
             ok |-> ~torn, err |-> IF torn THEN "crash" ELSE "", outcomes |-> IF torn THEN <<>> ELSE end.outcomes]

-----------------------------------------------------------------------------
\* What a caller of build_tiers relies on, whatever builds came before on the same
\* disk and wherever they were cancelled, refused or cut off.  A set that is returned
\* names files of this source and this id column, at their own tier, each holding the
\* rows of the source in their order; only a file whose length is the recorded one may
\* be something else, because the reuse path never hashes.  What a set records of its
\* own builds is true, the set fits the bound the disk was asked for, and a build that
\* failed changes no manifest.
TiersAreTheirSources(builds, hashes) ==
    LET step(s, b) == LET r == BuildTiers(s.disk, b)
                      IN [disk |-> r.disk, runs |-> Append(s.runs, [was |-> s.disk, build |-> b, result |-> r])]
        history == FoldLeft(step, [disk |-> [h \in hashes |-> EmptyDirectory], runs |-> <<>>], builds)
    IN \A k \in DOMAIN history.runs :
         LET run == history.runs[k]
             src == run.build.source
             ids == [i \in DOMAIN src.rows |-> src.rows[i].id]
             dir == run.result.disk[src.hash]
         IN IF ~run.result.ok
            THEN run.result.err # "crash" =>
                   \A h \in hashes : run.result.disk[h].manifest = run.was[h].manifest
            ELSE /\ Len(run.result.outcomes) = TierCount
                 /\ LET cost == DiskCost(src, run.result.outcomes) IN cost.total <= cost.bound
                 /\ \A t \in 1..TierCount :
                      LET o == run.result.outcomes[t]
                          file == dir.files[t]
                          its == /\ file.of # <<"partial">>
                                 /\ file.of[1] = src.hash
                                 /\ file.of[2] = run.build.idColumn
                                 /\ file.of[3] = t
                                 /\ [i \in DOMAIN file.of[4] |-> file.of[4][i].id] = ids
                      IN /\ o.record.key = TierKey(src.hash, run.build.idColumn, t)
                         /\ o.record.features = Len(src.rows)
                         /\ o.record.len = file.len
                         /\ its \/ (o.miss = "none" /\ SizeOf(src.hash, run.build.idColumn, t) = file.len)
                         /\ o.miss # "none" => its

=============================================================================
