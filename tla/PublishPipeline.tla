--------------------------- MODULE PublishPipeline ----------------------------
(***************************************************************************)
(* publish_prepared (kernel/src/publish/mod.rs): the check that the        *)
(* destination is free, the staging directory beside it, the phases of     *)
(* run_inner with their cancellation points, and finalize, whose check and *)
(* rename are two steps.  Every failure after the staging directory exists *)
(* goes through its removal, and through Staging's Drop when that fails.   *)
(*                                                                         *)
(* A call is one run of it, by the desktop shell or by publish-bundle.     *)
(* What is written is abstracted to which of the bundle's parts are there, *)
(* how many partitions, and whether all of them were read from the content *)
(* the source was pinned at.                                               *)
(***************************************************************************)
EXTENDS Naturals

CONSTANTS Call,           \* publishes, by the shell or by publish-bundle
          Dest,           \* resolved destinations
          MaxPartitions,  \* MAX_PUBLISH_PARTITIONS
          MaxUpsets       \* bound: errors, refusals, cancels, changes and ends of a process

ASSUME PartitionsAssumption == MaxPartitions \in Nat

VARIABLES pc,         \* where each call is
          err,        \* the PublishError or PermissionError it ends in
          target,     \* the destination it resolved
          token,      \* the calls whose CancelToken is cancelled
          staging,    \* each call's staging directory
          unremoved,  \* calls whose staging directory remove() could not delete
          published,  \* the bundle at each destination
          source,     \* the source file: "pinned", or "changed" since it was pinned
          upsets      \* how much has gone wrong so far

pipeVars == <<pc, err, target, token, staging, unremoved, published, source, upsets>>

Part == {"data", "style", "viewer", "manifest", "buildInfo"}

NoStaging == [there |-> FALSE, parts |-> {}, rows |-> 0, clean |-> TRUE]
NoBundle == [there |-> FALSE]
Bundle(c) == [there |-> TRUE, by |-> c, parts |-> staging[c].parts,
              rows |-> staging[c].rows, clean |-> staging[c].clean]

Occupied(d) == published[d].there

Goto(c, s) == pc' = [pc EXCEPT ![c] = s]

\* An Err before the staging directory exists: straight to the outcome record.
Fail(c, e) == Goto(c, "finishing") /\ err' = [err EXCEPT ![c] = e]

\* An Err of run: publish_prepared removes the staging directory first.
Abort(c, e) == Goto(c, "aborting") /\ err' = [err EXCEPT ![c] = e]

Write(c, parts) == staging' = [staging EXCEPT ![c].parts = @ \cup parts]

Upset == upsets < MaxUpsets /\ upsets' = upsets + 1

\* CancelWatch::check.
Cancelled(c) == c \in token

\* The step's own cancellation points and I/O errors, and whatever else it may refuse.
Stops(c, errors) ==
    /\ \/ Cancelled(c) /\ Abort(c, "Cancelled") /\ UNCHANGED upsets
       \/ Upset /\ \E e \in errors : Abort(c, e)
    /\ UNCHANGED <<target, token, staging, unremoved, published, source>>

Continues(c, s) == ~Cancelled(c) /\ Goto(c, s) /\ UNCHANGED <<err, upsets>>

-----------------------------------------------------------------------------
\* The check that the destination is free, then Staging::create beside it.
CreateStaging(c) ==
    /\ pc[c] = "cleared"
    /\ \/ /\ ~Occupied(target[c])
          /\ staging' = [staging EXCEPT ![c] = [NoStaging EXCEPT !.there = TRUE]]
          /\ Goto(c, "verifying")
          /\ UNCHANGED <<err, upsets>>
       \/ /\ Occupied(target[c])
          /\ Fail(c, "DestinationExists")
          /\ UNCHANGED <<staging, upsets>>
       \/ Upset /\ Fail(c, "Io") /\ UNCHANGED staging
    /\ UNCHANGED <<target, token, unremoved, published, source>>

\* pin.verify_by_rehash, then stream_for_publish.
VerifySource(c) ==
    /\ pc[c] = "verifying"
    /\ \/ /\ source = "pinned"
          /\ Continues(c, "querying")
          /\ UNCHANGED <<target, token, staging, unremoved, published, source>>
       \/ Stops(c, {"Engine"})

\* A batch arrives and write_partition writes it.  Its rows are of the file as it
\* is now.
WritePartition(c) ==
    /\ pc[c] = "querying"
    /\ \/ /\ staging[c].rows < MaxPartitions
          /\ Continues(c, "querying")
          /\ staging' = [staging EXCEPT ![c].rows = @ + 1,
                                        ![c].clean = @ /\ source = "pinned"]
          /\ UNCHANGED <<target, token, unremoved, published, source>>
       \/ Stops(c, {"Io", "Engine"} \cup
                   IF staging[c].rows < MaxPartitions THEN {} ELSE {"CeilingExceeded"})

\* The stream ended: style, viewer assets and their notice, the manifest.
WriteManifest(c) ==
    /\ pc[c] = "querying"
    /\ \/ /\ Continues(c, "finalizing")
          /\ Write(c, {"data", "style", "viewer", "manifest"})
          /\ UNCHANGED <<target, token, unremoved, published, source>>
       \/ Stops(c, {"Io", "ViewerLicenseNoticeMissing"})

\* pin.verify_by_heuristic, the sidecar, and the redaction scan of the staged bundle.
VerifyAgain(c) ==
    /\ pc[c] = "finalizing"
    /\ \/ /\ source = "pinned"
          /\ Continues(c, "scanned")
          /\ Write(c, {"buildInfo"})
          /\ UNCHANGED <<target, token, unremoved, published, source>>
       \/ Stops(c, {"Engine", "Io", "RedactionFinding"})

\* Staging::finalize: the check, which cancels nothing any more, and the rename.
FinalizeCheck(c) ==
    /\ pc[c] = "scanned"
    /\ IF Occupied(target[c]) THEN Abort(c, "DestinationExists")
                              ELSE Goto(c, "renaming") /\ UNCHANGED err
    /\ UNCHANGED <<target, token, staging, unremoved, published, source, upsets>>

\* A directory is never renamed onto one that has entries, which every bundle has.
Rename(c) ==
    /\ pc[c] = "renaming"
    /\ \/ /\ ~Occupied(target[c])
          /\ published' = [published EXCEPT ![target[c]] = Bundle(c)]
          /\ staging' = [staging EXCEPT ![c] = NoStaging]
          /\ Goto(c, "renamed")
          /\ UNCHANGED <<err, upsets>>
       \/ Occupied(target[c]) /\ Abort(c, "Io") /\ UNCHANGED <<staging, published, upsets>>
       \/ Upset /\ Abort(c, "Io") /\ UNCHANGED <<staging, published>>
    /\ UNCHANGED <<target, token, unremoved, source>>

\* A bug: publish_prepared drops remove()'s result.
RemoveStagingUnreported(c) ==
    /\ pc[c] = "aborting"
    /\ \/ staging' = [staging EXCEPT ![c] = NoStaging] /\ UNCHANGED upsets
       \/ Upset /\ UNCHANGED staging
    /\ Goto(c, "finishing")
    /\ UNCHANGED <<err, target, token, unremoved, published, source>>

\* staging.remove() in publish_prepared's Err arm; when it fails, StagingNotRemoved
\* and the second try of Staging's Drop.
RemoveStaging(c) ==
    /\ pc[c] = "aborting"
    /\ \/ /\ staging' = [staging EXCEPT ![c] = NoStaging]
          /\ UNCHANGED <<unremoved, upsets>>
       \/ /\ Upset
          /\ \E dropped \in BOOLEAN :
                staging' = IF dropped THEN [staging EXCEPT ![c] = NoStaging] ELSE staging
          /\ unremoved' = unremoved \cup {c}
    /\ Goto(c, "finishing")
    /\ UNCHANGED <<err, target, token, published, source>>

PipelineStep(c) ==
    \/ CreateStaging(c) \/ VerifySource(c) \/ WritePartition(c) \/ WriteManifest(c)
    \/ VerifyAgain(c) \/ FinalizeCheck(c) \/ Rename(c) \/ RemoveStaging(c)

InPipeline == {"cleared", "verifying", "querying", "finalizing", "scanned", "renaming",
               "aborting"}

\* The file is written to by somebody else, with its length or time of modification.
ChangeSource ==
    /\ Upset
    /\ source = "pinned"
    /\ source' = "changed"
    /\ UNCHANGED <<pc, err, target, token, staging, unremoved, published>>

=============================================================================
