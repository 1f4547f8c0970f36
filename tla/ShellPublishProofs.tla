-------------------------- MODULE ShellPublishProofs --------------------------
(***************************************************************************)
(* What publishing guarantees for any number of calls, attempts,           *)
(* destinations, restarts and lines of the log, with every fault of the    *)
(* model: the guard is not held over a publish, a staging directory is     *)
(* accounted for, what is told and logged is true, and PublishOnce is      *)
(* implemented.                                                            *)
(*                                                                         *)
(* None of the four is inductive.  The invariant has layers, and each one  *)
(* is kept with the ones before it:                                        *)
(*   RegistryInv   a running call of the shell is registered, alone, under *)
(*                 a prompted attempt; a drain that was not cut off by the *)
(*                 ceiling found its calls ended;                          *)
(*   GrantInv      a grant was minted once and is in one place; who keeps  *)
(*                 the guard finds none, also later, since time only       *)
(*                 expires grants; who publishes has one for its           *)
(*                 destination in hand;                                    *)
(*   BundleInv     who renames has staged a whole bundle, read from the    *)
(*                 pinned content;                                         *)
(*   OutcomeInv    a record of an outcome is of a call that is over, and   *)
(*                 agrees with the disk.                                   *)
(* A rename is then the Publish step of PublishOnce: the call's one grant  *)
(* is in no other place, so it leaves what is usable and is spent.         *)
(***************************************************************************)
EXTENDS ShellPublish, SequenceTheorems, TLAPS

-----------------------------------------------------------------------------
(* What the variables hold.                                                 *)

Place == {"idle", "registered", "opened", "consuming", "gate", "intended", "found", "approved",
          "renamed", "finishing", "returning", "ended", "dead"} \cup InPipeline

Staged == [there : BOOLEAN, parts : SUBSET Part, rows : Nat, clean : BOOLEAN]
Published == {NoBundle} \cup
             [there : {TRUE}, by : Call, parts : SUBSET Part, rows : Nat, clean : BOOLEAN]
GrantRec == [id : Attempt \cup Call, scope : SUBSET Dest, at : Nat, life : Nat]

PipeTypes ==
    /\ pc \in [Call -> Place] /\ target \in [Call -> Dest]
    /\ token \subseteq Call /\ unremoved \subseteq Call
    /\ staging \in [Call -> Staged] /\ published \in [Dest -> Published]
    /\ source \in {"pinned", "changed"}

GrantTypes ==
    /\ authority \in [Call -> SUBSET GrantRec] /\ grants \subseteq GrantRec
    /\ used \in [Call -> GrantRec \cup {NoGrant}]
    /\ accepted \subseteq Call /\ now \in Nat

ShellTypes ==
    /\ prep \in [Attempt -> {"new", "running", "granted", "prompted", "ended"}]
    /\ picked \in [Attempt -> Dest] /\ pending \subseteq [id : Attempt, at : Nat]
    /\ held \in Call \cup {"free"}
    /\ attempt \in [Call -> Attempt \cup {"none", "cli"}]
    /\ running \subseteq Attempt \cup {"prepare"}
    /\ exit \in {"none", "asked", "draining", "leaving", "gone"}
    /\ drainSet \subseteq Call /\ drained \in BOOLEAN

Types == PipeTypes /\ GrantTypes /\ ShellTypes

-----------------------------------------------------------------------------
(* Who is registered, and what a drain waited for.                          *)

\* A call runs.
Active == Place \ {"idle", "ended", "dead"}

\* A call of the shell is registered under its attempt, alone, while it runs.
CallsAreRegistered ==
    /\ \A c \in Call : pc[c] = "idle" <=> attempt[c] = "none"
    /\ \A c \in Call : pc[c] \in {"registered", "opened", "consuming"} => ~Cli(c)
    /\ \A c \in Call : pc[c] \in Active /\ ~Cli(c) => attempt[c] \in running
    /\ \A c, d \in Call : pc[c] \in Active /\ pc[d] \in Active /\ ~Cli(c) /\ attempt[c] = attempt[d]
                             => c = d

\* An attempt is registered in the process that prompted for it.
RegisteredIsPrompted ==
    /\ \A a \in Attempt : a \in running => prep[a] = "prompted"
    /\ \A c \in Call : pc[c] = "dead" /\ ~Cli(c) => prep[attempt[c]] = "ended"

\* The calls of a drain run on until they end; on an empty registry they have.
DrainIsWaitedFor ==
    /\ exit = "draining" => \A c \in drainSet : ~Cli(c) /\ pc[c] \in Active \cup {"ended"}
    /\ drained => exit \in {"leaving", "gone"} /\ \A c \in drainSet : pc[c] = "ended"

RegistryInv == CallsAreRegistered /\ RegisteredIsPrompted /\ DrainIsWaitedFor

-----------------------------------------------------------------------------
(* The guard and the grants.                                                *)

\* Where a call may be with the guard held.
Keeping == {"gate", "intended", "finishing", "returning"}

\* Who keeps the guard found no grant, and nothing is granted meanwhile.
KeeperFindsNothing ==
    \A c \in Call : held = c =>
        /\ pc[c] \in Keeping /\ ~Cli(c)
        /\ Find(grants, target[c]) = {}

MintedFor(g, c) == \/ g.id \in Attempt /\ prep[g.id] \notin {"new", "running"}
                   \/ g.id = c /\ pc[c] # "idle"

\* A grant was minted by a prepare, or by publish-bundle for itself.
GrantsWereMinted ==
    /\ \A g \in grants : g.id \in Attempt /\ prep[g.id] \notin {"new", "running"}
    /\ \A c \in Call : \A g \in authority[c] : MintedFor(g, c)
    /\ \A c \in Call : PublishedBy(c) => MintedFor(used[c], c)

\* A grant is in one place.
GrantsAreInOnePlace ==
    /\ \A g, h \in grants : g.id = h.id => g = h
    /\ \A c \in Call : \A g \in authority[c], h \in grants : g.id # h.id
    /\ \A c \in Call : \A g, h \in authority[c] : g = h
    /\ \A c, d \in Call : c # d => \A g \in authority[c], h \in authority[d] : g.id # h.id

\* Past the first check a call has one grant, in hand and for its destination.
Granted == {"found", "approved"} \cup InPipeline

PublishingIsGranted ==
    \A c \in Call : /\ pc[c] \in Granted \cup {"intended"} => c \in accepted
                    /\ pc[c] \in Granted => used[c] \in authority[c] /\ target[c] \in used[c].scope

GrantInv == KeeperFindsNothing /\ GrantsWereMinted /\ GrantsAreInOnePlace /\ PublishingIsGranted

-----------------------------------------------------------------------------
(* The staging directory and the bundle.                                    *)

\* publish_prepared, from the staging directory on.
InStaging == InPipeline \ {"cleared"}

\* A directory is a granted call's; when publish_prepared is over it is there only if it could
\* not be removed, or the process died.
StagedIsGranted ==
    \A c \in Call : staging[c].there =>
        /\ pc[c] \in InStaging \cup {"finishing", "returning", "ended", "dead"}
        /\ pc[c] \in InStaging \cup {"dead"} \/ c \in unremoved
        /\ c \in accepted /\ target[c] \in used[c].scope

\* What the rename moves: the sidecar is written last, after the source was verified again.
StagedIsWhole ==
    \A c \in Call :
        /\ pc[c] \in {"verifying", "querying", "finalizing"} /\ source = "pinned" => staging[c].clean
        /\ pc[c] = "finalizing" => Part \ {"buildInfo"} \subseteq staging[c].parts
        /\ pc[c] \in {"scanned", "renaming"} => staging[c].clean /\ staging[c].parts = Part

\* A call's bundle is there exactly from its rename on.
RenamedIsPublished ==
    \A c \in Call : /\ PublishedBy(c) => pc[c] \in {"renamed", "returning", "ended", "dead"}
                    /\ pc[c] = "renamed" => PublishedBy(c)

BundleInv == StagedIsGranted /\ StagedIsWhole /\ RenamedIsPublished

-----------------------------------------------------------------------------
(* The outcome.                                                             *)

Succeeded == {"Success", "SucceededUnaudited"}

CallRec == [attempt : Call, phase : {"intent", "outcome"},
            outcome : {"none", "success", "cancelled", "refused", "failed"}]
FileLine == [recs : Seq(CallRec), cut : BOOLEAN, newline : BOOLEAN]
LogFiles == [live : Seq(FileLine), gens : [1..Generations -> Seq(FileLine)]]
LogTypes == log \in LogFiles

\* The file holds the record, cut short or not.
InFile(file, r) == \E i \in DOMAIN file : \E k \in DOMAIN file[i].recs : r = file[i].recs[k]

\* The outcome of a call was recorded, or will never be.
Told == {"returning", "ended", "dead"}

\* A record of an outcome agrees with the disk and with the token.
LogIsTrue ==
    \A r \in CallRec : InFile(log.live, r) /\ r.phase = "outcome" =>
        /\ pc[r.attempt] \in Told
        /\ r.outcome = "success" <=> PublishedBy(r.attempt)
        /\ r.outcome = "cancelled" => r.attempt \in token

\* What execute returned agrees with the disk.
ResultIsTrue ==
    \A c \in Call :
        /\ result[c] \in Succeeded => PublishedBy(c)
        /\ PublishedBy(c) /\ pc[c] \in {"returning", "ended"} => result[c] \in Succeeded

\* A call ends in Cancelled only if its token was.
OutcomeTypes ==
    /\ DOMAIN err = Call /\ DOMAIN result = Call
    /\ \A c \in Call : err[c] = "Cancelled" => c \in token

OutcomeInv == LogTypes /\ OutcomeTypes /\ LogIsTrue /\ ResultIsTrue

-----------------------------------------------------------------------------
(* Types.                                                                   *)

\* The directories a step of the pipeline leaves: a new one, none, or the old one with more in it.
LEMMA NoStagingFacts ==
  /\ NoStaging \in Staged /\ NoStaging.there = FALSE
  /\ [NoStaging EXCEPT !.there = TRUE] \in Staged /\ [NoStaging EXCEPT !.there = TRUE].there
  /\ [NoStaging EXCEPT !.there = TRUE].clean
BY DEF NoStaging, Staged

\* A part written into a directory is all that changes.
LEMMA PartsFacts ==
  ASSUME NEW r \in Staged, NEW ps \in SUBSET Part
  PROVE  /\ [r EXCEPT !.parts = r.parts \cup ps] \in Staged
         /\ [r EXCEPT !.parts = r.parts \cup ps].there = r.there
         /\ [r EXCEPT !.parts = r.parts \cup ps].clean = r.clean
         /\ [r EXCEPT !.parts = r.parts \cup ps].parts = r.parts \cup ps
BY DEF Staged

\* A partition written into a directory is all that changes.
LEMMA RowsFacts ==
  ASSUME NEW r \in Staged, NEW n \in Nat, NEW b \in BOOLEAN
  PROVE  /\ [r EXCEPT !.rows = n, !.clean = b] \in Staged
         /\ [r EXCEPT !.rows = n, !.clean = b].there = r.there
         /\ [r EXCEPT !.rows = n, !.clean = b].clean = b
         /\ [r EXCEPT !.rows = n, !.clean = b].parts = r.parts
BY DEF Staged

\* A step of publish_prepared moves its own call, and nobody else's.
Onward == InPipeline \cup {"finishing", "renamed"}
PipeFrame(c) ==
    /\ UNCHANGED <<target, token, source>>
    /\ pc[c] \in InPipeline /\ \E s \in Onward : pc' = [pc EXCEPT ![c] = s]
    /\ staging' \in [Call -> Staged] /\ \A x \in Call \ {c} : staging'[x] = staging[x]

\* Its types, and the frame, action by action.
LEMMA PipelineTypes ==
  ASSUME PipeTypes, NEW c \in Call, PipelineStep(c)
  PROVE  PipeTypes' /\ PipeFrame(c)
<1> USE DEF PipeTypes, PipeFrame
<1>0. Onward \subseteq Place
  BY DEF Onward, Place
<1>1. CASE CreateStaging(c)
  <2>1. staging' \in [Call -> Staged] /\ \A x \in Call \ {c} : staging'[x] = staging[x]
    BY <1>1, NoStagingFacts DEF CreateStaging
  <2>2. pc[c] \in InPipeline /\ \E s \in Onward : pc' = [pc EXCEPT ![c] = s]
    BY <1>1 DEF CreateStaging, Goto, Fail, Onward, InPipeline
  <2> QED BY <1>0, <1>1, <2>1, <2>2 DEF CreateStaging
<1>2. CASE VerifySource(c)
  <2>2. pc[c] \in InPipeline /\ \E s \in Onward : pc' = [pc EXCEPT ![c] = s]
    BY <1>2 DEF VerifySource, Continues, Stops, Abort, Goto, Onward, InPipeline
  <2>3. UNCHANGED <<target, token, staging, unremoved, published, source>>
    BY <1>2 DEF VerifySource, Stops
  <2> QED BY <1>0, <2>2, <2>3
<1>3. CASE WritePartition(c)
  <2>2. pc[c] \in InPipeline /\ \E s \in Onward : pc' = [pc EXCEPT ![c] = s]
    BY <1>3 DEF WritePartition, Continues, Stops, Abort, Goto, Onward, InPipeline
  <2>3. UNCHANGED <<target, token, unremoved, published, source>>
    BY <1>3 DEF WritePartition, Stops
  <2>1. \/ staging' = [staging EXCEPT ![c].rows = @ + 1, ![c].clean = @ /\ source = "pinned"]
        \/ staging' = staging
    BY <1>3 DEF WritePartition, Stops
  <2>4. staging' \in [Call -> Staged] /\ \A x \in Call \ {c} : staging'[x] = staging[x]
    <3>1. staging[c] \in Staged /\ staging[c].rows + 1 \in Nat
          /\ (staging[c].clean /\ source = "pinned") \in BOOLEAN
      BY DEF Staged
    <3>2. [staging[c] EXCEPT !.rows = staging[c].rows + 1, !.clean = staging[c].clean /\ source = "pinned"] \in Staged
      BY <3>1, RowsFacts
    <3> QED BY <2>1, <3>2
  <2> QED BY <1>0, <2>2, <2>3, <2>4
<1>4. CASE WriteManifest(c) \/ VerifyAgain(c)
  <2>2. pc[c] \in InPipeline /\ \E s \in Onward : pc' = [pc EXCEPT ![c] = s]
    BY <1>4 DEF WriteManifest, VerifyAgain, Continues, Stops, Abort, Goto, Onward, InPipeline
  <2>3. UNCHANGED <<target, token, unremoved, published, source>>
    BY <1>4 DEF WriteManifest, VerifyAgain, Stops
  <2>1. \/ \E ps \in {{"data", "style", "viewer", "manifest"}, {"buildInfo"}} :
              staging' = [staging EXCEPT ![c] = [staging[c] EXCEPT !.parts = staging[c].parts \cup ps]]
        \/ staging' = staging
    BY <1>4 DEF WriteManifest, VerifyAgain, Stops, Write
  <2>5. {"data", "style", "viewer", "manifest"} \in SUBSET Part /\ {"buildInfo"} \in SUBSET Part
    BY DEF Part
  <2>4. staging' \in [Call -> Staged] /\ \A x \in Call \ {c} : staging'[x] = staging[x]
    <3>1. \A ps \in SUBSET Part : [staging[c] EXCEPT !.parts = staging[c].parts \cup ps] \in Staged
      BY PartsFacts
    <3> QED BY <2>1, <2>5, <3>1
  <2> QED BY <1>0, <2>2, <2>3, <2>4
<1>5. CASE FinalizeCheck(c)
  <2>2. pc[c] \in InPipeline /\ \E s \in Onward : pc' = [pc EXCEPT ![c] = s]
    BY <1>5 DEF FinalizeCheck, Abort, Goto, Onward, InPipeline
  <2> QED BY <1>0, <1>5, <2>2 DEF FinalizeCheck
<1>6. CASE Rename(c)
  <2>2. pc[c] \in InPipeline /\ \E s \in Onward : pc' = [pc EXCEPT ![c] = s]
    BY <1>6 DEF Rename, Abort, Goto, Onward, InPipeline
  <2>3. UNCHANGED <<target, token, unremoved, source>>
    BY <1>6 DEF Rename
  <2>1. staging' \in [Call -> Staged] /\ \A x \in Call \ {c} : staging'[x] = staging[x]
    BY <1>6, NoStagingFacts DEF Rename
  <2>4. Bundle(c) \in Published
    BY DEF Bundle, Published, Staged
  <2>5. published' \in [Dest -> Published]
    BY <1>6, <2>4 DEF Rename
  <2> QED BY <1>0, <2>1, <2>2, <2>3, <2>5
<1>7. CASE RemoveStaging(c)
  <2>2. pc[c] \in InPipeline /\ \E s \in Onward : pc' = [pc EXCEPT ![c] = s]
    BY <1>7 DEF RemoveStaging, Goto, Onward, InPipeline
  <2>3. UNCHANGED <<target, token, published, source>> /\ unremoved' \subseteq Call
    BY <1>7 DEF RemoveStaging
  <2>1. staging' \in [Call -> Staged] /\ \A x \in Call \ {c} : staging'[x] = staging[x]
    BY <1>7, NoStagingFacts DEF RemoveStaging
  <2> QED BY <1>0, <2>1, <2>2, <2>3
<1> QED BY <1>1, <1>2, <1>3, <1>4, <1>5, <1>6, <1>7 DEF PipelineStep
\* Every step keeps the types.
LEMMA TypeStep == ASSUME Types, [Next]_vars PROVE Types'
<1> USE DEF Types
<1>1. ASSUME NEW a \in Attempt, NEW d \in Dest, PrepareStart(a, d) PROVE Types'
  <2>1. ShellTypes'
    BY <1>1 DEF PrepareStart, ShellTypes
  <2> QED BY <1>1, <2>1 DEF PrepareStart, pipeVars, boundaryVars, PipeTypes, GrantTypes
<1>2. ASSUME NEW a \in Attempt, PrepareRefused(a) \/ PrepareStore(a) PROVE Types'
  <2>2. [id |-> a, at |-> now] \in [id : Attempt, at : Nat]
    BY DEF GrantTypes
  <2>1. ShellTypes'
    BY <1>2, <2>2 DEF PrepareRefused, PrepareStore, ShellTypes
  <2> QED BY <1>2, <2>1 DEF PrepareRefused, PrepareStore, callVars, boundaryVars, PipeTypes, GrantTypes
<1>3. ASSUME NEW a \in Attempt, PrepareGrant(a) PROVE Types'
  <2>1. ShellTypes'
    BY <1>3 DEF PrepareGrant, ShellTypes
  <2>2. [id |-> a, scope |-> {picked[a]}, at |-> now, life |-> AttemptTtl] \in GrantRec
    BY TtlAssumption DEF ShellTypes, GrantTypes, GrantRec
  <2>3. grants' \subseteq GrantRec
    BY <1>3, <2>2 DEF PrepareGrant, PruneExpired, GrantTypes
  <2> QED BY <1>3, <2>1, <2>3 DEF PrepareGrant, pipeVars, boundaryVars, PipeTypes, GrantTypes
<1>4. ASSUME NEW c \in Call, CtrlC(c) PROVE Types'
  BY <1>4 DEF CtrlC, boundaryVars, shellVars, PipeTypes, GrantTypes, ShellTypes
<1>5. ASSUME NEW a \in Attempt, NEW c \in Call, ExecuteStart(c, a) PROVE Types'
  <2>1. ShellTypes' /\ pc' \in [Call -> Place]
    BY <1>5 DEF ExecuteStart, Goto, ShellTypes, PipeTypes, Place
  <2> QED BY <1>5, <2>1 DEF ExecuteStart, PipeTypes, GrantTypes
<1>6. ASSUME NEW c \in Call, Take(c) PROVE Types'
  <2>1. pc' \in [Call -> Place]
    BY <1>6 DEF Take, OpenLog, Goto, PipeTypes, Place
  <2>2. target' \in [Call -> Dest]
    <3>1. \/ target' = target
          \/ /\ target' = [target EXCEPT ![c] = picked[attempt[c]]]
             /\ \E p \in {q \in pending : q.id = attempt[c]} : now - p.at <= AttemptTtl
      BY <1>6 DEF Take
    <3>2. ASSUME NEW p \in pending, p.id = attempt[c] PROVE picked[attempt[c]] \in Dest
      BY <3>2 DEF ShellTypes
    <3> QED BY <3>1, <3>2 DEF PipeTypes
  <2> QED BY <1>6, <2>1, <2>2 DEF Take, PipeTypes, GrantTypes, ShellTypes
<1>7. ASSUME NEW c \in Call, ConsumeGrant(c) PROVE Types'
  <2>1. pc' \in [Call -> Place] /\ grants' \subseteq GrantRec
    BY <1>7 DEF ConsumeGrant, Goto, RemoveMatching, PipeTypes, GrantTypes, Place
  <2> QED BY <1>7, <2>1 DEF ConsumeGrant, boundaryVars, PipeTypes, GrantTypes, ShellTypes
<1>8. ASSUME NEW c \in Call, Authorise(c) PROVE Types'
  <2>1. pc' \in [Call -> Place] /\ grants' \subseteq GrantRec /\ held' \in Call \cup {"free"}
    BY <1>8 DEF Authorise, Goto, RemoveMatching, PipeTypes, GrantTypes, ShellTypes, Place
  <2>2. authority' \in [Call -> SUBSET GrantRec]
    BY <1>8 DEF Authorise, Find, Matching, GrantTypes
  <2> QED BY <1>8, <2>1, <2>2 DEF Authorise, PipeTypes, GrantTypes, ShellTypes
<1>9. ASSUME NEW c \in Call, Return(c) PROVE Types'
  <2>1. pc' \in [Call -> Place] /\ grants' \subseteq GrantRec /\ held' \in Call \cup {"free"}
    BY <1>9 DEF Return, Goto, RemoveMatching, PipeTypes, GrantTypes, ShellTypes, Place
  <2>2. authority' \in [Call -> SUBSET GrantRec] /\ running' \subseteq Attempt \cup {"prepare"}
    BY <1>9 DEF Return, GrantTypes, ShellTypes
  <2> QED BY <1>9, <2>1, <2>2 DEF Return, PipeTypes, GrantTypes, ShellTypes
<1>10. ASSUME NEW c \in Call, Intend(c) \/ Approve(c) \/ Finish(c) \/ RecordSuccess(c), UNCHANGED shellVars
       PROVE  Types'
  <2>1. pc' \in [Call -> Place] /\ accepted' \subseteq Call
    BY <1>10 DEF Intend, Approve, Finish, RecordSuccess, Goto, Fail, boundaryVars, PipeTypes, GrantTypes, Place
  <2> QED BY <1>10, <2>1 DEF Intend, Approve, Finish, RecordSuccess, boundaryVars, shellVars, PipeTypes, GrantTypes,
                             ShellTypes
<1>11. ASSUME NEW c \in Call, NEW from, NEW to \in Place, FindGrant(c, from, to, GrantsOf(c)), UNCHANGED shellVars
       PROVE  Types'
  <2>1. pc' \in [Call -> Place]
    BY <1>11 DEF FindGrant, Goto, Fail, PipeTypes, Place
  <2>2. Find(GrantsOf(c), target[c]) \subseteq GrantRec
    BY DEF Find, Matching, GrantsOf, GrantTypes
  <2>3. used' \in [Call -> GrantRec \cup {NoGrant}]
    BY <1>11, <2>2 DEF FindGrant, GrantTypes
  <2> QED BY <1>11, <2>1, <2>3 DEF FindGrant, shellVars, PipeTypes, GrantTypes, ShellTypes
<1>12. ASSUME NEW c \in Call, PipelineStep(c), UNCHANGED boundaryVars, UNCHANGED shellVars PROVE Types'
  <2>1. PipeTypes'
    BY <1>12, PipelineTypes
  <2> QED BY <1>12, <2>1 DEF boundaryVars, shellVars, GrantTypes, ShellTypes
<1>13. ASSUME NEW c \in Call, CliEnds(c) PROVE Types'
  <2>1. pc' \in [Call -> Place] /\ authority' \in [Call -> SUBSET GrantRec]
    BY <1>13 DEF CliEnds, Goto, PipeTypes, GrantTypes, Place
  <2> QED BY <1>13, <2>1 DEF CliEnds, shellVars, PipeTypes, GrantTypes, ShellTypes
<1>14. ASSUME NEW c \in Call, NEW d \in Dest, NEW s \in SUBSET Dest, CliStart(c, d, s) PROVE Types'
  <2>1. pc' \in [Call -> Place] /\ target' \in [Call -> Dest] /\ attempt' \in [Call -> Attempt \cup {"none", "cli"}]
    BY <1>14 DEF CliStart, OpenLog, Goto, PipeTypes, ShellTypes, Place
  <2>2. [id |-> c, scope |-> s, at |-> now, life |-> AttemptTtl] \in GrantRec
    BY TtlAssumption DEF GrantTypes, GrantRec
  <2>3. authority' \in [Call -> SUBSET GrantRec]
    BY <1>14, <2>2 DEF CliStart, GrantTypes
  <2> QED BY <1>14, <2>1, <2>3 DEF CliStart, PipeTypes, GrantTypes, ShellTypes
<1>15. CASE ExitRequested \/ ExitDrain \/ WaitIdle \/ Restart
  <2>1. PipeTypes' /\ GrantTypes'
    BY <1>15 DEF ExitRequested, ExitDrain, WaitIdle, Restart, CancelAll, callVars, pipeVars, boundaryVars,
                 PipeTypes, GrantTypes
  <2>2. ShellTypes'
    BY <1>15 DEF ExitRequested, ExitDrain, WaitIdle, Restart, ShellTypes
  <2> QED BY <2>1, <2>2
<1>16. ASSUME NEW early \in BOOLEAN, ProcessEnds(early) PROVE Types'
  <2>1. pc' \in [Call -> Place]
    BY <1>16 DEF ProcessEnds, PipeTypes, Place
  <2>2. authority' \in [Call -> SUBSET GrantRec]
    BY <1>16 DEF ProcessEnds, GrantTypes
  <2>3. ShellTypes'
    BY <1>16 DEF ProcessEnds, ShellTypes
  <2> QED BY <1>16, <2>1, <2>2, <2>3 DEF ProcessEnds, PipeTypes, GrantTypes
<1>17. CASE ChangeSource /\ UNCHANGED <<boundaryVars, shellVars>>
  BY <1>17 DEF ChangeSource, boundaryVars, shellVars, PipeTypes, GrantTypes, ShellTypes
<1>18. CASE Tick /\ UNCHANGED shellVars
  BY <1>18 DEF Tick, pipeVars, shellVars, PipeTypes, GrantTypes, ShellTypes
<1>19. CASE UNCHANGED vars
  BY <1>19 DEF vars, pipeVars, boundaryVars, shellVars, PipeTypes, GrantTypes, ShellTypes
<1>20. ASSUME NEW c \in Call, CallStep(c) PROVE Types'
  <2>1. "found" \in Place /\ "cleared" \in Place
    BY DEF Place, InPipeline
  <2> QED BY <1>6, <1>7, <1>8, <1>9, <1>10, <1>11, <1>12, <1>20, <2>1 DEF CallStep, BoundaryStep
<1>21. ASSUME NEW a \in Attempt, Cancel(a) PROVE Types'
  BY <1>21 DEF Cancel, CancelAll, boundaryVars, shellVars, PipeTypes, GrantTypes, ShellTypes
<1> QED BY <1>1, <1>2, <1>3, <1>4, <1>5, <1>13, <1>14, <1>15, <1>16, <1>17, <1>18, <1>19, <1>20, <1>21 DEF Next

-----------------------------------------------------------------------------
(* The registry and the drain.                                              *)

\* A call that goes on keeps its registration.
LEMMA CallMoves ==
  ASSUME Types, RegistryInv, NEW c \in Call, NEW s \in Active, pc[c] \in Active,
         s \in {"registered", "opened", "consuming"} => ~Cli(c), pc' = [pc EXCEPT ![c] = s],
         UNCHANGED <<attempt, running, prep, exit, drainSet, drained>>
  PROVE  RegistryInv'
<1> USE DEF Types, PipeTypes, ShellTypes, RegistryInv, Cli
<1>0. /\ pc'[c] = s /\ \A x \in Call \ {c} : pc'[x] = pc[x]
      /\ s \notin {"idle", "ended", "dead"} /\ pc[c] \notin {"idle", "ended", "dead"}
  BY DEF Active
<1>1. CallsAreRegistered'
  BY <1>0 DEF CallsAreRegistered
<1>2. RegisteredIsPrompted'
  BY <1>0 DEF RegisteredIsPrompted
<1>3. DrainIsWaitedFor'
  BY <1>0 DEF DrainIsWaitedFor
<1> QED BY <1>1, <1>2, <1>3

\* A step that moves no call and no prompt and registers no attempt.
LEMMA RegistryKept ==
  ASSUME Types, Types', RegistryInv, UNCHANGED <<pc, attempt, exit, drainSet, drained>>,
         running' \cap Attempt = running \cap Attempt,
         \A a \in Attempt : prep[a] \in {"prompted", "ended"} => prep'[a] = prep[a]
  PROVE  RegistryInv'
<1> USE DEF Types, PipeTypes, ShellTypes, RegistryInv, Cli
<1>1. CallsAreRegistered'
  BY DEF CallsAreRegistered, Active, Place
<1>2. RegisteredIsPrompted'
  BY DEF RegisteredIsPrompted, CallsAreRegistered
<1>3. DrainIsWaitedFor'
  BY DEF DrainIsWaitedFor
<1> QED BY <1>1, <1>2, <1>3

\* Every step keeps the registry.
LEMMA RegistryStep == ASSUME Types, Types', RegistryInv, [Next]_vars PROVE RegistryInv'
<1>0. /\ Attempt \cap {"none", "cli", "prepare"} = {}
      /\ {"registered", "opened", "consuming", "gate", "intended", "found", "approved", "finishing",
          "renamed", "returning"} \subseteq Active
      /\ InPipeline \subseteq Active /\ Onward \subseteq Active
      /\ Active \cap {"idle", "ended", "dead"} = {}
  BY NamesAssumption DEF Active, Place, InPipeline, Onward
<1>1. ASSUME NEW a \in Attempt, NEW d \in Dest, PrepareStart(a, d) PROVE RegistryInv'
  BY <1>0, <1>1, RegistryKept DEF PrepareStart, pipeVars, Types, ShellTypes
<1>2. ASSUME NEW a \in Attempt, PrepareRefused(a) \/ PrepareStore(a) PROVE RegistryInv'
  BY <1>0, <1>2, RegistryKept DEF PrepareRefused, PrepareStore, callVars, Types, ShellTypes
<1>3. ASSUME NEW a \in Attempt, PrepareGrant(a) PROVE RegistryInv'
  BY <1>0, <1>3, RegistryKept DEF PrepareGrant, pipeVars, Types, ShellTypes
<1>4. ASSUME NEW c \in Call, CtrlC(c) PROVE RegistryInv'
  BY <1>4, RegistryKept DEF CtrlC, shellVars
<1>5. ASSUME NEW a \in Attempt, Cancel(a) PROVE RegistryInv'
  BY <1>5, RegistryKept DEF Cancel, shellVars
<1>6. CASE Tick /\ UNCHANGED shellVars
  BY <1>6, RegistryKept DEF Tick, pipeVars, shellVars
<1>21. CASE ChangeSource /\ UNCHANGED <<boundaryVars, shellVars>>
  BY <1>21, RegistryKept DEF ChangeSource, shellVars
<1>22. CASE UNCHANGED vars
  BY <1>22, RegistryKept DEF vars, pipeVars, shellVars
<1>7. ASSUME NEW a \in Attempt, NEW c \in Call, ExecuteStart(c, a) PROVE RegistryInv'
  <2>1. /\ pc[c] = "idle" /\ prep[a] = "prompted" /\ attempt' = [attempt EXCEPT ![c] = a]
        /\ UNCHANGED <<prep, exit, drainSet, drained>>
    BY <1>7 DEF ExecuteStart
  <2>2. \/ a \in running /\ pc' = [pc EXCEPT ![c] = "ended"] /\ running' = running
        \/ a \notin running /\ pc' = [pc EXCEPT ![c] = "registered"] /\ running' = running \cup {a}
    BY <1>7 DEF ExecuteStart, Goto
  <2> USE DEF Types, PipeTypes, ShellTypes, RegistryInv, Cli
  <2>3. CallsAreRegistered'
    BY <1>0, <2>1, <2>2 DEF CallsAreRegistered
  <2>4. RegisteredIsPrompted'
    BY <1>0, <2>1, <2>2 DEF RegisteredIsPrompted
  <2>5. DrainIsWaitedFor'
    BY <1>0, <2>1, <2>2 DEF DrainIsWaitedFor
  <2> QED BY <2>3, <2>4, <2>5
<1>8. ASSUME NEW c \in Call, Take(c) \/ ConsumeGrant(c) \/ Authorise(c) PROVE RegistryInv'
  <2>1. /\ pc[c] \in {"registered", "opened", "consuming"}
        /\ \E s \in {"opened", "consuming", "returning", "gate"} : pc' = [pc EXCEPT ![c] = s]
        /\ UNCHANGED <<attempt, running, prep, exit, drainSet, drained>>
    BY <1>8 DEF Take, OpenLog, ConsumeGrant, Authorise, Goto
  <2>2. ~Cli(c)
    BY <2>1 DEF RegistryInv, CallsAreRegistered
  <2> QED BY <1>0, <2>1, <2>2, CallMoves
<1>9. ASSUME NEW c \in Call, Return(c) PROVE RegistryInv'
  <2>1. /\ pc[c] = "returning" /\ pc' = [pc EXCEPT ![c] = "ended"] /\ running' = running \ {attempt[c]}
        /\ UNCHANGED <<attempt, prep, exit, drainSet, drained>>
    BY <1>9 DEF Return, Goto
  <2> USE DEF Types, PipeTypes, ShellTypes, RegistryInv, Cli
  <2>3. CallsAreRegistered'
    BY <1>0, <2>1 DEF CallsAreRegistered
  <2>4. RegisteredIsPrompted'
    BY <1>0, <2>1 DEF RegisteredIsPrompted
  <2>5. DrainIsWaitedFor'
    BY <1>0, <2>1 DEF DrainIsWaitedFor
  <2> QED BY <2>3, <2>4, <2>5
<1>10. ASSUME NEW c \in Call, Intend(c) \/ Approve(c) \/ Finish(c) \/ RecordSuccess(c), UNCHANGED shellVars
       PROVE  RegistryInv'
  <2>1. /\ pc[c] \in {"gate", "found", "finishing", "renamed"}
        /\ \E s \in {"intended", "returning", "approved", "finishing"} : pc' = [pc EXCEPT ![c] = s]
        /\ UNCHANGED <<attempt, running, prep, exit, drainSet, drained>>
    BY <1>10 DEF Intend, Approve, Finish, RecordSuccess, Goto, Fail, shellVars
  <2> QED BY <1>0, <2>1, CallMoves
<1>11. ASSUME NEW c \in Call, NEW from \in {"intended", "approved"}, NEW to \in {"found", "cleared"},
              FindGrant(c, from, to, GrantsOf(c)), UNCHANGED shellVars
       PROVE  RegistryInv'
  <2>1. /\ pc[c] = from
        /\ \E s \in {to, "finishing"} : pc' = [pc EXCEPT ![c] = s]
        /\ UNCHANGED <<attempt, running, prep, exit, drainSet, drained>>
    BY <1>11 DEF FindGrant, Goto, Fail, shellVars
  <2>2. "cleared" \in Active
    BY DEF Active, Place, InPipeline
  <2> QED BY <1>0, <2>1, <2>2, CallMoves
<1>12. ASSUME NEW c \in Call, PipelineStep(c), UNCHANGED boundaryVars, UNCHANGED shellVars PROVE RegistryInv'
  <2>1. pc[c] \in InPipeline /\ \E s \in Onward : pc' = [pc EXCEPT ![c] = s]
    BY <1>12, PipelineTypes DEF Types, PipeFrame
  <2>2. \A s \in Onward : s \notin {"registered", "opened", "consuming"}
    BY DEF Onward, InPipeline
  <2> QED BY <1>0, <1>12, <2>1, <2>2, CallMoves DEF shellVars
<1>13. ASSUME NEW c \in Call, CliEnds(c) PROVE RegistryInv'
  <2>1. /\ Cli(c) /\ pc' = [pc EXCEPT ![c] = "dead"] /\ pc[c] # "ended"
        /\ UNCHANGED <<attempt, running, prep, exit, drainSet, drained>>
    BY <1>13 DEF CliEnds, Goto, shellVars
  <2> USE DEF Types, PipeTypes, ShellTypes, RegistryInv, Cli
  <2>3. CallsAreRegistered'
    BY <1>0, <2>1 DEF CallsAreRegistered
  <2>4. RegisteredIsPrompted'
    BY <1>0, <2>1 DEF RegisteredIsPrompted
  <2>5. DrainIsWaitedFor'
    BY <1>0, <2>1 DEF DrainIsWaitedFor
  <2> QED BY <2>3, <2>4, <2>5
<1>14. ASSUME NEW c \in Call, NEW d \in Dest, NEW s \in SUBSET Dest, CliStart(c, d, s) PROVE RegistryInv'
  <2>1. /\ pc[c] = "idle" /\ attempt' = [attempt EXCEPT ![c] = "cli"]
        /\ \E p \in {"gate", "returning"} : pc' = [pc EXCEPT ![c] = p]
        /\ UNCHANGED <<running, prep, exit, drainSet, drained>>
    BY <1>14 DEF CliStart, OpenLog, Goto
  <2> USE DEF Types, PipeTypes, ShellTypes, RegistryInv, Cli
  <2>3. CallsAreRegistered'
    BY <1>0, <2>1 DEF CallsAreRegistered
  <2>4. RegisteredIsPrompted'
    BY <1>0, <2>1 DEF RegisteredIsPrompted
  <2>5. DrainIsWaitedFor'
    BY <1>0, <2>1 DEF DrainIsWaitedFor
  <2> QED BY <2>3, <2>4, <2>5
<1>15. CASE ExitRequested
  <2>1. /\ exit \in {"none", "draining"} /\ exit' \in {"leaving", "asked"}
        /\ UNCHANGED <<pc, attempt, running, prep, drainSet, drained>>
    BY <1>15 DEF ExitRequested, callVars
  <2>2. ~drained
    BY <2>1 DEF RegistryInv, DrainIsWaitedFor
  <2> QED BY <2>1, <2>2 DEF RegistryInv, CallsAreRegistered, RegisteredIsPrompted, DrainIsWaitedFor, Cli
<1>16. CASE ExitDrain
  <2>1. /\ exit = "asked" /\ exit' = "draining" /\ drainSet' = {c \in Call : Registered(c)}
        /\ UNCHANGED <<pc, attempt, running, prep, drained>>
    BY <1>16 DEF ExitDrain
  <2>2. ~drained
    BY <2>1 DEF RegistryInv, DrainIsWaitedFor
  <2>3. ASSUME NEW c \in Call, Registered(c) PROVE ~Cli(c) /\ pc[c] \in Active
    <3>1. /\ ~Cli(c) /\ attempt[c] \in running /\ pc[c] # "ended" /\ attempt[c] \in Attempt
      BY <1>0, <2>3 DEF Registered, Types, ShellTypes
    <3>2. prep[attempt[c]] = "prompted"
      BY <3>1 DEF RegistryInv, RegisteredIsPrompted
    <3>3. pc[c] # "dead" /\ pc[c] # "idle"
      BY <1>0, <3>1, <3>2 DEF RegistryInv, RegisteredIsPrompted, CallsAreRegistered
    <3> QED BY <3>1, <3>3 DEF Active, Types, PipeTypes
  <2> QED BY <2>1, <2>2, <2>3 DEF RegistryInv, CallsAreRegistered, RegisteredIsPrompted, DrainIsWaitedFor, Cli
<1>17. CASE WaitIdle
  <2>1. /\ exit = "draining" /\ exit' = "leaving" /\ drained' = (running = {})
        /\ UNCHANGED <<pc, attempt, running, prep, drainSet>>
    BY <1>17 DEF WaitIdle, pipeVars
  <2>2. ASSUME running = {}, NEW c \in drainSet PROVE pc[c] = "ended"
    <3>1. c \in Call /\ ~Cli(c) /\ pc[c] \in Active \cup {"ended"}
      BY <2>1 DEF RegistryInv, DrainIsWaitedFor, Types, ShellTypes
    <3> QED BY <2>2, <3>1 DEF RegistryInv, CallsAreRegistered
  <2> QED BY <2>1, <2>2 DEF RegistryInv, CallsAreRegistered, RegisteredIsPrompted, DrainIsWaitedFor, Cli
<1>18. ASSUME NEW early \in BOOLEAN, ProcessEnds(early) PROVE RegistryInv'
  <2>1. /\ pc' = [c \in Call |-> IF Cli(c) \/ pc[c] \in {"idle", "ended"} THEN pc[c] ELSE "dead"]
        /\ prep' = [a \in Attempt |-> IF prep[a] = "new" THEN "new" ELSE "ended"]
        /\ exit' = "gone" /\ running' = {} /\ UNCHANGED <<attempt, drainSet>>
        /\ drained' => drained
    BY <1>18 DEF ProcessEnds
  <2> USE DEF Types, PipeTypes, ShellTypes, RegistryInv, Cli
  <2>3. CallsAreRegistered'
    BY <1>0, <2>1 DEF CallsAreRegistered
  <2>6. ASSUME NEW c \in Call, pc'[c] = "dead", attempt[c] # "cli" PROVE prep'[attempt[c]] = "ended"
    <3>1. attempt[c] \in Attempt
      BY <1>0, <2>1, <2>6 DEF CallsAreRegistered
    <3>2. CASE pc[c] = "dead"
      BY <2>1, <3>1, <3>2, <2>6 DEF RegisteredIsPrompted
    <3>3. CASE pc[c] # "dead"
      <4>1. pc[c] \in Active
        BY <2>1, <2>6, <3>3 DEF Active
      <4>2. attempt[c] \in running
        BY <2>6, <4>1 DEF CallsAreRegistered
      <4> QED BY <2>1, <3>1, <4>2 DEF RegisteredIsPrompted
    <3> QED BY <3>2, <3>3
  <2>4. RegisteredIsPrompted'
    BY <1>0, <2>1, <2>6 DEF RegisteredIsPrompted
  <2>5. DrainIsWaitedFor'
    BY <1>0, <2>1 DEF DrainIsWaitedFor
  <2> QED BY <2>3, <2>4, <2>5
<1>19. CASE Restart
  <2>1. /\ exit' = "none" /\ drainSet' = {} /\ drained' = FALSE /\ UNCHANGED <<pc, attempt, running, prep>>
    BY <1>19 DEF Restart, pipeVars
  <2> QED BY <2>1 DEF RegistryInv, CallsAreRegistered, RegisteredIsPrompted, DrainIsWaitedFor, Cli
<1>20. ASSUME NEW c \in Call, CallStep(c) PROVE RegistryInv'
  BY <1>8, <1>9, <1>10, <1>11, <1>12, <1>20 DEF CallStep, BoundaryStep
<1> QED BY <1>1, <1>2, <1>3, <1>4, <1>5, <1>6, <1>7, <1>13, <1>14, <1>15, <1>16, <1>17, <1>18, <1>19, <1>20,
        <1>21, <1>22 DEF Next

-----------------------------------------------------------------------------
(* The guard and the grants.                                                *)

\* A step that mints nothing: grants go, time passes, and who publishes had the grant in hand.
NothingIsMinted ==
    /\ grants' \subseteq grants
    /\ \A c \in Call : authority'[c] \subseteq authority[c]
    /\ \A a \in Attempt : prep[a] \notin {"new", "running"} => prep'[a] \notin {"new", "running"}
    /\ \A c \in Call : pc[c] # "idle" => pc'[c] # "idle"
    /\ \A c \in Call : PublishedBy(c)' => used'[c] = used[c] /\ (PublishedBy(c) \/ used[c] \in authority[c])

\* The call that keeps the guard goes on among the places of a keeper.
KeeperStays ==
    /\ grants' \subseteq grants /\ now' >= now
    /\ \A c \in Call : held' = c =>
          /\ held = c /\ target'[c] = target[c] /\ attempt'[c] = attempt[c]
          /\ pc[c] \in Keeping => pc'[c] \in Keeping

\* A call that is granted was granted before, with the same grant.
GrantedStays ==
    /\ accepted \subseteq accepted'
    /\ \A c \in Call :
          /\ pc'[c] \in Granted => /\ pc[c] \in Granted /\ authority'[c] = authority[c]
                                   /\ used'[c] = used[c] /\ target'[c] = target[c]
          /\ pc'[c] = "intended" => pc[c] = "intended" \/ c \in accepted'

\* What was minted stays minted, and nothing is in two places, when nothing is minted.
LEMMA MintingKept ==
  ASSUME Types, Types', GrantsWereMinted, GrantsAreInOnePlace, NothingIsMinted
  PROVE  GrantsWereMinted' /\ GrantsAreInOnePlace'
<1>1. \A g : \A c \in Call : MintedFor(g, c) => MintedFor(g, c)'
  BY DEF MintedFor, NothingIsMinted
<1>2. GrantsWereMinted'
  <2>1. \A g \in grants' : g.id \in Attempt /\ prep'[g.id] \notin {"new", "running"}
    BY DEF GrantsWereMinted, NothingIsMinted
  <2>2. \A c \in Call : \A g \in authority'[c] : MintedFor(g, c)'
    BY <1>1 DEF GrantsWereMinted, NothingIsMinted
  <2>3. ASSUME NEW c \in Call, PublishedBy(c)' PROVE MintedFor(used[c], c)' /\ used'[c] = used[c]
    BY <1>1, <2>3 DEF GrantsWereMinted, NothingIsMinted
  <2>4. ASSUME NEW c \in Call, PublishedBy(c)' PROVE MintedFor(used[c], c)'
    BY <2>3, <2>4
  <2> QED BY <2>1, <2>2, <2>3 DEF GrantsWereMinted, MintedFor
<1>3. GrantsAreInOnePlace'
  BY DEF GrantsAreInOnePlace, NothingIsMinted
<1> QED BY <1>2, <1>3

\* An expired grant stays expired, so the call that keeps the guard finds none later either.
LEMMA KeeperKept ==
  ASSUME Types, Types', KeeperFindsNothing, KeeperStays
  PROVE  KeeperFindsNothing'
<1>1. ASSUME NEW g \in grants, Expired(g) PROVE Expired(g)'
  <2>1. g.at \in Nat /\ g.life \in Nat /\ now \in Nat /\ now' \in Nat /\ now' >= now
    BY DEF KeeperStays, Types, GrantTypes, GrantRec
  <2>2. now - g.at >= g.life
    BY <1>1 DEF Expired
  <2>3. now' - g.at >= g.life
    BY <2>1, <2>2
  <2> QED BY <2>3 DEF Expired
<1>2. ASSUME NEW c \in Call, held' = c
      PROVE  pc'[c] \in Keeping /\ ~Cli(c)' /\ Find(grants, target[c])' = {}
  <2>1. /\ held = c /\ target'[c] = target[c] /\ attempt'[c] = attempt[c] /\ pc'[c] \in Keeping
        /\ ~Cli(c) /\ Find(grants, target[c]) = {}
    BY <1>2 DEF KeeperStays, KeeperFindsNothing
  <2>2. Find(grants, target[c])' = {}
    BY <1>1, <2>1 DEF Find, Matching, KeeperStays
  <2> QED BY <2>1, <2>2 DEF Cli
<1> QED BY <1>2 DEF KeeperFindsNothing

\* The steps that leave the grants where they are.
LEMMA GrantKept ==
  ASSUME Types, Types', GrantInv, NothingIsMinted, KeeperStays, GrantedStays
  PROVE  GrantInv'
<1>1. GrantsWereMinted' /\ GrantsAreInOnePlace'
  BY MintingKept DEF GrantInv
<1>2. KeeperFindsNothing'
  BY KeeperKept DEF GrantInv
<1>3. PublishingIsGranted'
  BY DEF GrantInv, PublishingIsGranted, GrantedStays
<1> QED BY <1>1, <1>2, <1>3 DEF GrantInv

\* A step that is no call's.
LEMMA GrantQuiet ==
  ASSUME Types, Types', GrantInv,
         UNCHANGED <<pc, target, authority, grants, used, accepted, held, attempt, published>>, now' >= now,
         \A a \in Attempt : prep[a] \notin {"new", "running"} => prep'[a] \notin {"new", "running"}
  PROVE  GrantInv'
<1>1. NothingIsMinted
  BY DEF NothingIsMinted, PublishedBy
<1>2. KeeperStays /\ GrantedStays
  BY DEF KeeperStays, GrantedStays
<1> QED BY <1>1, <1>2, GrantKept

\* A call that goes on, with the grant it has.
LEMMA GrantMoves ==
  ASSUME Types, Types', GrantInv, NEW c \in Call, NEW s,
         pc' = [pc EXCEPT ![c] = s], s # "idle",
         s \in Granted => pc[c] \in Granted,
         s = "intended" => c \in accepted',
         pc[c] \in Keeping => s \in Keeping,
         UNCHANGED <<target, authority, grants, used, held, attempt, now, prep>>, accepted \subseteq accepted',
         \A x \in Call : PublishedBy(x)' => PublishedBy(x) \/ used[x] \in authority[x]
  PROVE  GrantInv'
<1>1. pc'[c] = s /\ \A x \in Call \ {c} : pc'[x] = pc[x]
  BY DEF Types, PipeTypes
<1>2. NothingIsMinted
  BY <1>1 DEF NothingIsMinted
<1>3. KeeperStays
  BY <1>1 DEF KeeperStays, Types, GrantTypes
<1>4. GrantedStays
  BY <1>1 DEF GrantedStays, PublishingIsGranted, GrantInv, Granted, InPipeline
<1> QED BY <1>2, <1>3, <1>4, GrantKept

\* A bundle appears only by a rename, and is the renaming call's.
LEMMA RenamePublishes ==
  ASSUME PipeTypes, NEW c \in Call, PipelineStep(c)
  PROVE  \/ UNCHANGED published
         \/ /\ pc[c] = "renaming" /\ pc' = [pc EXCEPT ![c] = "renamed"]
            /\ ~Occupied(target[c]) /\ published' = [published EXCEPT ![target[c]] = Bundle(c)]
            /\ staging' = [staging EXCEPT ![c] = NoStaging] /\ unremoved' = unremoved
            /\ \A x \in Call : PublishedBy(x)' <=> PublishedBy(x) \/ x = c
<1>1. CASE ~Rename(c)
  BY <1>1 DEF PipelineStep, CreateStaging, VerifySource, WritePartition, WriteManifest, VerifyAgain, FinalizeCheck,
              RemoveStaging, Stops
<1>2. CASE Rename(c)
  <2>1. \/ UNCHANGED published
        \/ /\ pc[c] = "renaming" /\ pc' = [pc EXCEPT ![c] = "renamed"] /\ unremoved' = unremoved
           /\ ~Occupied(target[c]) /\ published' = [published EXCEPT ![target[c]] = Bundle(c)]
           /\ staging' = [staging EXCEPT ![c] = NoStaging]
    BY <1>2 DEF Rename, Goto
  <2>2. ASSUME ~Occupied(target[c]), published' = [published EXCEPT ![target[c]] = Bundle(c)], NEW x \in Call
        PROVE  PublishedBy(x)' <=> PublishedBy(x) \/ x = c
    <3>1. target[c] \in Dest /\ Bundle(c).there /\ Bundle(c).by = c
      BY DEF PipeTypes, Bundle
    <3>2. published'[target[c]] = Bundle(c) /\ \A e \in Dest \ {target[c]} : published'[e] = published[e]
      BY <2>2, <3>1 DEF PipeTypes
    <3>3. ~published[target[c]].there
      BY <2>2 DEF Occupied
    <3>4. PublishedBy(x)' => PublishedBy(x) \/ x = c
      BY <3>1, <3>2 DEF PublishedBy
    <3>5. PublishedBy(x) => PublishedBy(x)'
      BY <3>2, <3>3 DEF PublishedBy
    <3>6. x = c => PublishedBy(x)'
      BY <3>1, <3>2 DEF PublishedBy
    <3> QED BY <3>4, <3>5, <3>6
  <2> QED BY <2>1, <2>2
<1> QED BY <1>1, <1>2

\* Every step keeps the grants.
LEMMA GrantStep ==
  ASSUME Types, Types', RegistryInv, GrantInv, RenamedIsPublished, [Next]_vars
  PROVE  GrantInv'
<1>0. /\ now \in Nat /\ now >= now
      /\ (UNCHANGED published) => \A x \in Call : PublishedBy(x)' <=> PublishedBy(x)
  BY DEF Types, GrantTypes, PublishedBy
<1>1. ASSUME NEW a \in Attempt, NEW d \in Dest, PrepareStart(a, d) PROVE GrantInv'
  <2>1. \A b \in Attempt : prep[b] \notin {"new", "running"} => prep'[b] \notin {"new", "running"}
    BY <1>1 DEF PrepareStart, Types, ShellTypes
  <2>2. UNCHANGED <<pc, target, authority, grants, used, accepted, held, attempt, published, now>>
    BY <1>1 DEF PrepareStart, pipeVars, boundaryVars
  <2> QED BY <1>0, <2>1, <2>2, GrantQuiet
<1>2. ASSUME NEW a \in Attempt, PrepareRefused(a) \/ PrepareStore(a) PROVE GrantInv'
  <2>1. \A b \in Attempt : prep[b] \notin {"new", "running"} => prep'[b] \notin {"new", "running"}
    BY <1>2 DEF PrepareRefused, PrepareStore, Types, ShellTypes
  <2>2. UNCHANGED <<pc, target, authority, grants, used, accepted, held, attempt, published, now>>
    BY <1>2 DEF PrepareRefused, PrepareStore, callVars, boundaryVars
  <2> QED BY <1>0, <2>1, <2>2, GrantQuiet
<1>4. ASSUME NEW c \in Call, CtrlC(c) PROVE GrantInv'
  BY <1>0, <1>4, GrantQuiet DEF CtrlC, boundaryVars, shellVars
<1>5. ASSUME NEW a \in Attempt, Cancel(a) PROVE GrantInv'
  BY <1>0, <1>5, GrantQuiet DEF Cancel, boundaryVars, shellVars
<1>6. CASE Tick /\ UNCHANGED shellVars
  BY <1>0, <1>6, GrantQuiet DEF Tick, pipeVars, shellVars
<1>21. CASE ChangeSource /\ UNCHANGED <<boundaryVars, shellVars>>
  BY <1>0, <1>21, GrantQuiet DEF ChangeSource, boundaryVars, shellVars
<1>22. CASE UNCHANGED vars
  BY <1>0, <1>22, GrantQuiet DEF vars, pipeVars, boundaryVars, shellVars
<1>15. CASE ExitRequested \/ ExitDrain \/ WaitIdle \/ Restart
  <2>2. UNCHANGED <<pc, target, authority, grants, used, accepted, held, attempt, published, now, prep>>
    BY <1>15 DEF ExitRequested, ExitDrain, WaitIdle, Restart, pipeVars, callVars, boundaryVars
  <2> QED BY <1>0, <2>2, GrantQuiet
<1>3. ASSUME NEW a \in Attempt, PrepareGrant(a) PROVE GrantInv'
  <2> DEFINE g == [id |-> a, scope |-> {picked[a]}, at |-> now, life |-> AttemptTtl]
  <2>1. /\ prep[a] = "running" /\ held = "free" /\ grants' \subseteq grants \cup {g}
        /\ \E s \in {"ended", "granted"} : prep' = [prep EXCEPT ![a] = s]
        /\ UNCHANGED <<pc, target, authority, used, accepted, held, attempt, published, now>>
    BY <1>3 DEF PrepareGrant, LockFree, PruneExpired, pipeVars, boundaryVars
  <2>2. g.id = a
    OBVIOUS
  <2> HIDE DEF g
  <2>3. \A b \in Attempt : (prep[b] \notin {"new", "running"} \/ b = a) => prep'[b] \notin {"new", "running"}
    BY <2>1 DEF Types, ShellTypes
  <2>4. \A h \in grants : h.id # a
    BY <2>1 DEF GrantInv, GrantsWereMinted
  <2>5. \A c \in Call : \A h \in authority[c] : h.id # a
    BY <2>1, NamesAssumption DEF GrantInv, GrantsWereMinted, MintedFor
  <2>6. \A h : \A c \in Call : MintedFor(h, c) => MintedFor(h, c)'
    BY <2>1, <2>3 DEF MintedFor
  <2>7. GrantsWereMinted'
    <3>1. \A h \in grants' : h.id \in Attempt /\ prep'[h.id] \notin {"new", "running"}
      BY <2>1, <2>2, <2>3 DEF GrantInv, GrantsWereMinted
    <3>2. \A c \in Call : \A h \in authority'[c] : MintedFor(h, c)'
      BY <2>1, <2>6 DEF GrantInv, GrantsWereMinted
    <3>3. \A c \in Call : PublishedBy(c)' => MintedFor(used[c], c)'
      BY <1>0, <2>1, <2>6 DEF GrantInv, GrantsWereMinted
    <3> QED BY <2>1, <3>1, <3>2, <3>3 DEF GrantsWereMinted, MintedFor
  <2>8. GrantsAreInOnePlace'
    BY <2>1, <2>2, <2>4, <2>5 DEF GrantInv, GrantsAreInOnePlace
  <2>9. KeeperFindsNothing'
    BY <2>1, NamesAssumption DEF KeeperFindsNothing
  <2>10. PublishingIsGranted'
    BY <2>1 DEF GrantInv, PublishingIsGranted
  <2> QED BY <2>7, <2>8, <2>9, <2>10 DEF GrantInv
<1>7. ASSUME NEW a \in Attempt, NEW c \in Call, ExecuteStart(c, a) PROVE GrantInv'
  <2>1. /\ pc[c] = "idle" /\ attempt' = [attempt EXCEPT ![c] = a]
        /\ \E s \in {"ended", "registered"} : pc' = [pc EXCEPT ![c] = s]
        /\ UNCHANGED <<target, authority, grants, used, accepted, held, published, now, prep>>
    BY <1>7 DEF ExecuteStart, Goto
  <2>2. /\ pc'[c] \in {"ended", "registered"} /\ \A x \in Call \ {c} : pc'[x] = pc[x] /\ attempt'[x] = attempt[x]
    BY <2>1 DEF Types, PipeTypes, ShellTypes
  <2>3. held # c
    BY <2>1 DEF GrantInv, KeeperFindsNothing, Keeping
  <2>4. NothingIsMinted
    BY <1>0, <2>1, <2>2 DEF NothingIsMinted
  <2>5. KeeperStays
    BY <1>0, <2>1, <2>2, <2>3 DEF KeeperStays
  <2>6. GrantedStays
    BY <2>1, <2>2 DEF GrantedStays, Granted, InPipeline
  <2> QED BY <2>4, <2>5, <2>6, GrantKept
<1>8. ASSUME NEW c \in Call, Take(c) PROVE GrantInv'
  <2>1. /\ pc[c] = "registered"
        /\ \E s \in {"opened", "consuming", "returning"} : pc' = [pc EXCEPT ![c] = s]
        /\ \A x \in Call \ {c} : target'[x] = target[x]
        /\ UNCHANGED <<authority, grants, used, accepted, held, attempt, published, now, prep>>
    BY <1>8 DEF Take, OpenLog, Goto, Types, PipeTypes
  <2>2. /\ pc'[c] \in {"opened", "consuming", "returning"} /\ \A x \in Call \ {c} : pc'[x] = pc[x]
    BY <2>1 DEF Types, PipeTypes
  <2>3. held # c
    BY <2>1 DEF GrantInv, KeeperFindsNothing, Keeping
  <2>4. NothingIsMinted
    BY <1>0, <2>1, <2>2 DEF NothingIsMinted
  <2>5. KeeperStays
    BY <1>0, <2>1, <2>2, <2>3 DEF KeeperStays
  <2>6. GrantedStays
    BY <2>1, <2>2 DEF GrantedStays, Granted, InPipeline
  <2> QED BY <2>4, <2>5, <2>6, GrantKept
<1>9. ASSUME NEW c \in Call, ConsumeGrant(c) PROVE GrantInv'
  <2>1. /\ pc[c] = "consuming" /\ held = "free" /\ pc' = [pc EXCEPT ![c] = "returning"] /\ grants' \subseteq grants
        /\ UNCHANGED <<target, authority, used, accepted, held, attempt, published, now, prep>>
    BY <1>9 DEF ConsumeGrant, LockFree, RemoveMatching, Goto, boundaryVars
  <2>2. /\ pc'[c] = "returning" /\ \A x \in Call \ {c} : pc'[x] = pc[x]
    BY <2>1 DEF Types, PipeTypes
  <2>4. NothingIsMinted
    BY <1>0, <2>1, <2>2 DEF NothingIsMinted
  <2>5. KeeperStays
    BY <1>0, <2>1, <2>2, NamesAssumption DEF KeeperStays
  <2>6. GrantedStays
    BY <2>1, <2>2 DEF GrantedStays, Granted, InPipeline
  <2> QED BY <2>4, <2>5, <2>6, GrantKept
<1>10. ASSUME NEW c \in Call, Return(c) PROVE GrantInv'
  <2>1. /\ pc[c] = "returning" /\ pc' = [pc EXCEPT ![c] = "ended"] /\ grants' \subseteq grants
        /\ authority' = [authority EXCEPT ![c] = {}] /\ held' = IF held = c THEN "free" ELSE held
        /\ UNCHANGED <<target, used, accepted, attempt, published, now, prep>>
    BY <1>10 DEF Return, RemoveMatching, Goto
  <2>2. /\ pc'[c] = "ended" /\ authority'[c] = {}
        /\ \A x \in Call \ {c} : pc'[x] = pc[x] /\ authority'[x] = authority[x]
    BY <2>1 DEF Types, PipeTypes, GrantTypes
  <2>4. NothingIsMinted
    BY <1>0, <2>1, <2>2 DEF NothingIsMinted
  <2>5. KeeperStays
    BY <1>0, <2>1, <2>2, NamesAssumption DEF KeeperStays
  <2>6. GrantedStays
    BY <2>1, <2>2 DEF GrantedStays, Granted, InPipeline
  <2> QED BY <2>4, <2>5, <2>6, GrantKept
<1>13. ASSUME NEW c \in Call, CliEnds(c) PROVE GrantInv'
  <2>1. /\ Cli(c) /\ pc' = [pc EXCEPT ![c] = "dead"] /\ authority' = [authority EXCEPT ![c] = {}]
        /\ UNCHANGED <<target, used, accepted, attempt, published, now, prep, held, grants>>
    BY <1>13 DEF CliEnds, Goto, shellVars
  <2>2. /\ pc'[c] = "dead" /\ authority'[c] = {}
        /\ \A x \in Call \ {c} : pc'[x] = pc[x] /\ authority'[x] = authority[x]
    BY <2>1 DEF Types, PipeTypes, GrantTypes
  <2>3. held # c
    BY <2>1 DEF GrantInv, KeeperFindsNothing
  <2>4. NothingIsMinted
    BY <1>0, <2>1, <2>2 DEF NothingIsMinted
  <2>5. KeeperStays
    BY <1>0, <2>1, <2>2, <2>3 DEF KeeperStays
  <2>6. GrantedStays
    BY <2>1, <2>2 DEF GrantedStays, Granted, InPipeline
  <2> QED BY <2>4, <2>5, <2>6, GrantKept
<1>11. ASSUME NEW c \in Call, Authorise(c) PROVE GrantInv'
  <2>1. /\ pc[c] = "opened" /\ held = "free" /\ pc' = [pc EXCEPT ![c] = "gate"]
        /\ UNCHANGED <<target, used, accepted, attempt, published, now, prep>>
    BY <1>11 DEF Authorise, LockFree, Goto
  <2>2. /\ pc'[c] = "gate" /\ \A x \in Call \ {c} : pc'[x] = pc[x]
    BY <2>1 DEF Types, PipeTypes
  <2>6. GrantedStays \/ authority' # authority
    BY <2>1, <2>2 DEF GrantedStays, Granted, InPipeline
  <2>3. CASE Find(grants, target[c]) = {}
    <3>1. held' = c /\ UNCHANGED <<authority, grants>>
      BY <1>11, <2>3 DEF Authorise
    <3>2. GrantsWereMinted' /\ GrantsAreInOnePlace'
      <4>1. NothingIsMinted
        BY <1>0, <2>1, <2>2, <3>1 DEF NothingIsMinted
      <4> QED BY <4>1, MintingKept DEF GrantInv
    <3>3. ~Cli(c) /\ ~Cli(c)'
      BY <2>1 DEF RegistryInv, CallsAreRegistered, Cli
    <3>4. Find(grants, target[c])' = {}
      BY <2>1, <2>3, <3>1 DEF Find, Matching, Expired
    <3>5. KeeperFindsNothing'
      BY <2>2, <3>1, <3>3, <3>4 DEF KeeperFindsNothing, Keeping
    <3>6. PublishingIsGranted'
      BY <2>1, <2>2, <3>1 DEF GrantInv, PublishingIsGranted, Granted, InPipeline
    <3> QED BY <3>2, <3>5, <3>6 DEF GrantInv
  <2>4. ASSUME NEW g \in Find(grants, target[c]), authority' = [authority EXCEPT ![c] = {g}],
               grants' = RemoveMatching(grants, target[c]), held' = held
        PROVE  GrantInv'
    <3>1. g \in grants /\ g \notin grants' /\ grants' \subseteq grants
      BY <2>4 DEF Find, Matching, RemoveMatching
    <3>2. /\ authority'[c] = {g} /\ \A x \in Call \ {c} : authority'[x] = authority[x]
      BY <2>4 DEF Types, GrantTypes
    <3>3. \A h : \A x \in Call : MintedFor(h, x) => MintedFor(h, x)'
      BY <2>1, <2>2 DEF MintedFor
    <3>4. GrantsWereMinted'
      <4>1. \A h \in grants' : h.id \in Attempt /\ prep'[h.id] \notin {"new", "running"}
        BY <2>1, <3>1 DEF GrantInv, GrantsWereMinted
      <4>2. \A x \in Call : \A h \in authority'[x] : MintedFor(h, x)
        BY <3>1, <3>2 DEF GrantInv, GrantsWereMinted, MintedFor
      <4>3. \A x \in Call : \A h \in authority'[x] : MintedFor(h, x)'
        BY <3>3, <4>2
      <4>4. \A x \in Call : PublishedBy(x)' => MintedFor(used[x], x)'
        BY <1>0, <2>1, <3>3 DEF GrantInv, GrantsWereMinted
      <4> QED BY <2>1, <4>1, <4>3, <4>4 DEF GrantsWereMinted, MintedFor
    <3>5. GrantsAreInOnePlace'
      <4>1. \A h \in grants' : g.id # h.id
        BY <3>1 DEF GrantInv, GrantsAreInOnePlace
      <4>2. \A x \in Call \ {c} : \A h \in authority'[x] : g.id # h.id
        BY <3>1, <3>2 DEF GrantInv, GrantsAreInOnePlace
      <4>3. \A h, k \in grants' : h.id = k.id => h = k
        BY <3>1 DEF GrantInv, GrantsAreInOnePlace
      <4>4. \A x \in Call : \A h \in authority'[x], k \in grants' : h.id # k.id
        BY <3>1, <3>2, <4>1 DEF GrantInv, GrantsAreInOnePlace
      <4>5. \A x \in Call : \A h, k \in authority'[x] : h = k
        BY <3>2 DEF GrantInv, GrantsAreInOnePlace
      <4>6. \A x, y \in Call : x # y => \A h \in authority'[x], k \in authority'[y] : h.id # k.id
        BY <3>2, <4>2 DEF GrantInv, GrantsAreInOnePlace
      <4> QED BY <4>3, <4>4, <4>5, <4>6 DEF GrantsAreInOnePlace
    <3>6. KeeperFindsNothing'
      BY <2>1, <2>4, NamesAssumption DEF KeeperFindsNothing
    <3>7. PublishingIsGranted'
      BY <2>1, <2>2, <3>2 DEF GrantInv, PublishingIsGranted, Granted, InPipeline
    <3> QED BY <3>4, <3>5, <3>6, <3>7 DEF GrantInv
  <2> QED BY <1>11, <2>3, <2>4 DEF Authorise
<1>12. ASSUME NEW c \in Call, Intend(c) \/ Approve(c) \/ Finish(c) \/ RecordSuccess(c), UNCHANGED shellVars
       PROVE  GrantInv'
  <2>1. /\ UNCHANGED <<target, authority, grants, used, held, attempt, now, prep, published>>
        /\ accepted \subseteq accepted'
    BY <1>12 DEF Intend, Approve, Finish, RecordSuccess, boundaryVars, shellVars
  <2>2. \E s \in {"intended", "returning", "approved", "finishing"} :
           /\ pc' = [pc EXCEPT ![c] = s]
           /\ s = "approved" => pc[c] = "found"
           /\ s = "intended" => c \in accepted'
           /\ pc[c] \in Keeping => s \in Keeping
    BY <1>12 DEF Intend, Approve, Finish, RecordSuccess, Goto, Fail, Keeping
  <2> QED BY <1>0, <2>1, <2>2, GrantMoves DEF Granted, InPipeline
<1>14. ASSUME NEW c \in Call, NEW from \in {"intended", "approved"}, NEW to \in {"found", "cleared"},
              FindGrant(c, from, to, GrantsOf(c)), UNCHANGED shellVars
       PROVE  GrantInv'
  <2>1. /\ pc[c] = from /\ UNCHANGED <<target, authority, grants, held, attempt, now, prep, published, accepted>>
    BY <1>14 DEF FindGrant, shellVars
  <2>2. CASE pc' = [pc EXCEPT ![c] = "finishing"] /\ used' = used
    BY <1>0, <2>1, <2>2, GrantMoves DEF Granted, InPipeline, Keeping
  <2>3. ASSUME NEW g \in Find(GrantsOf(c), target[c]), pc' = [pc EXCEPT ![c] = to], used' = [used EXCEPT ![c] = g]
        PROVE  GrantInv'
    <3>1. held # c
      BY <2>3 DEF GrantsOf, GrantInv, KeeperFindsNothing
    <3>2. g \in authority[c] /\ target[c] \in g.scope
      BY <2>3, <3>1 DEF GrantsOf, Find, Matching
    <3>3. /\ pc'[c] = to /\ used'[c] = g /\ \A x \in Call \ {c} : pc'[x] = pc[x] /\ used'[x] = used[x]
      BY <2>3 DEF Types, PipeTypes, GrantTypes
    <3>4. ~PublishedBy(c)
      BY <2>1 DEF RenamedIsPublished
    <3>5. NothingIsMinted
      BY <1>0, <2>1, <3>3, <3>4 DEF NothingIsMinted
    <3>6. KeeperStays
      BY <1>0, <2>1, <3>1, <3>3 DEF KeeperStays
    <3>7. GrantsWereMinted' /\ GrantsAreInOnePlace' /\ KeeperFindsNothing'
      BY <3>5, <3>6, MintingKept, KeeperKept DEF GrantInv
    <3>8. c \in accepted
      BY <2>1 DEF GrantInv, PublishingIsGranted, Granted
    <3>9. PublishingIsGranted'
      BY <2>1, <3>2, <3>3, <3>8 DEF GrantInv, PublishingIsGranted
    <3> QED BY <3>7, <3>9 DEF GrantInv
  <2> QED BY <1>14, <2>2, <2>3 DEF FindGrant, Goto, Fail
<1>16. ASSUME NEW c \in Call, PipelineStep(c), UNCHANGED boundaryVars, UNCHANGED shellVars PROVE GrantInv'
  <2>1. pc[c] \in InPipeline /\ UNCHANGED target /\ \E s \in Onward : pc' = [pc EXCEPT ![c] = s]
    BY <1>16, PipelineTypes DEF Types, PipeFrame
  <2>2. UNCHANGED <<authority, grants, used, held, attempt, now, prep, accepted>>
    BY <1>16 DEF boundaryVars, shellVars
  <2>3. /\ \A s \in Onward : s \notin {"idle", "intended"} /\ (s \in Granted => pc[c] \in Granted)
        /\ pc[c] \notin Keeping
    BY <2>1 DEF Onward, Granted, InPipeline, Keeping
  <2>4. \A x \in Call : PublishedBy(x)' => PublishedBy(x) \/ used[x] \in authority[x]
    <3>1. used[c] \in authority[c]
      BY <2>1 DEF GrantInv, PublishingIsGranted, Granted
    <3>2. UNCHANGED published \/ \A x \in Call : PublishedBy(x)' <=> PublishedBy(x) \/ x = c
      BY <1>16, RenamePublishes DEF Types
    <3> QED BY <1>0, <3>1, <3>2
  <2> QED BY <2>1, <2>2, <2>3, <2>4, GrantMoves
<1>17. ASSUME NEW c \in Call, NEW d \in Dest, NEW s \in SUBSET Dest, CliStart(c, d, s) PROVE GrantInv'
  <2> DEFINE g == [id |-> c, scope |-> s, at |-> now, life |-> AttemptTtl]
  <2>1. /\ pc[c] = "idle" /\ authority' = [authority EXCEPT ![c] = {g}]
        /\ attempt' = [attempt EXCEPT ![c] = "cli"] /\ target' = [target EXCEPT ![c] = d]
        /\ \E p \in {"gate", "returning"} : pc' = [pc EXCEPT ![c] = p]
        /\ UNCHANGED <<used, accepted, grants, held, published, now, prep>>
    BY <1>17 DEF CliStart, OpenLog, Goto
  <2>2. g.id = c
    OBVIOUS
  <2> HIDE DEF g
  <2>3. /\ pc'[c] \in {"gate", "returning"} /\ authority'[c] = {g}
        /\ \A x \in Call \ {c} : /\ pc'[x] = pc[x] /\ authority'[x] = authority[x]
                                 /\ attempt'[x] = attempt[x] /\ target'[x] = target[x]
    BY <2>1 DEF Types, PipeTypes, GrantTypes, ShellTypes
  <2>4. held # c
    BY <2>1 DEF GrantInv, KeeperFindsNothing, Keeping
  <2>5. \A h : \A x \in Call : MintedFor(h, x) => MintedFor(h, x)'
    BY <2>1, <2>3 DEF MintedFor
  <2>6. c \notin Attempt
    BY NamesAssumption
  <2>7. GrantsWereMinted'
    <3>1. \A h \in grants' : h.id \in Attempt /\ prep'[h.id] \notin {"new", "running"}
      BY <2>1 DEF GrantInv, GrantsWereMinted
    <3>2. \A h \in authority'[c] : MintedFor(h, c)'
      BY <2>2, <2>3 DEF MintedFor
    <3>3. \A x \in Call \ {c} : \A h \in authority'[x] : MintedFor(h, x)'
      BY <2>3, <2>5 DEF GrantInv, GrantsWereMinted
    <3>4. \A x \in Call : PublishedBy(x)' => MintedFor(used[x], x)'
      BY <1>0, <2>1, <2>5 DEF GrantInv, GrantsWereMinted
    <3> QED BY <2>1, <2>3, <3>1, <3>2, <3>3, <3>4 DEF GrantsWereMinted, MintedFor
  <2>8. GrantsAreInOnePlace'
    <3>1. \A h \in grants' : h.id # c
      BY <2>1, <2>6 DEF GrantInv, GrantsWereMinted
    <3>2. \A x \in Call \ {c} : \A h \in authority'[x] : h.id # c
      BY <2>3, <2>6 DEF GrantInv, GrantsWereMinted, MintedFor
    <3> QED BY <2>1, <2>2, <2>3, <3>1, <3>2 DEF GrantInv, GrantsAreInOnePlace
  <2>9. KeeperFindsNothing'
    <3>1. KeeperStays
      BY <1>0, <2>1, <2>3, <2>4 DEF KeeperStays
    <3> QED BY <3>1, KeeperKept DEF GrantInv
  <2>10. PublishingIsGranted'
    BY <2>1, <2>3 DEF GrantInv, PublishingIsGranted, Granted, InPipeline
  <2> QED BY <2>7, <2>8, <2>9, <2>10 DEF GrantInv
<1>18. ASSUME NEW early \in BOOLEAN, ProcessEnds(early) PROVE GrantInv'
  <2>1. /\ pc' = [c \in Call |-> IF Cli(c) \/ pc[c] \in {"idle", "ended"} THEN pc[c] ELSE "dead"]
        /\ prep' = [a \in Attempt |-> IF prep[a] = "new" THEN "new" ELSE "ended"]
        /\ authority' = [c \in Call |-> IF Cli(c) THEN authority[c] ELSE {}]
        /\ grants' = {} /\ held' = "free"
        /\ UNCHANGED <<target, used, accepted, attempt, published, now>>
    BY <1>18 DEF ProcessEnds
  <2>4. NothingIsMinted
    BY <1>0, <2>1 DEF NothingIsMinted
  <2>5. KeeperStays
    BY <1>0, <2>1, NamesAssumption DEF KeeperStays
  <2>6. GrantedStays
    BY <2>1 DEF GrantedStays, Granted, InPipeline
  <2> QED BY <2>4, <2>5, <2>6, GrantKept
<1>20. ASSUME NEW c \in Call, CallStep(c) PROVE GrantInv'
  BY <1>8, <1>9, <1>10, <1>11, <1>12, <1>14, <1>16, <1>20 DEF CallStep, BoundaryStep
<1> QED BY <1>1, <1>2, <1>3, <1>4, <1>5, <1>6, <1>7, <1>13, <1>15, <1>17, <1>18, <1>20, <1>21, <1>22 DEF Next

-----------------------------------------------------------------------------
(* The staging directory and the bundle.                                    *)

Late == {"finishing", "returning", "ended"}
Writing == {"verifying", "querying", "finalizing", "scanned", "renaming"}

\* A step outside publish_prepared: it writes nothing, and a call with a directory keeps its
\* grant and its way out.
NothingIsWritten ==
    /\ UNCHANGED <<staging, published, unremoved>> /\ accepted \subseteq accepted'
    /\ source' = "pinned" => source = "pinned"
    /\ \A c \in Call :
          /\ staging[c].there => /\ used'[c] = used[c] /\ target'[c] = target[c]
                                 /\ \/ pc'[c] \in {pc[c], "dead"}
                                    \/ pc[c] \in Late /\ pc'[c] \in Late
          /\ pc'[c] \in Writing \cup {"renamed"} => pc[c] = pc'[c]
          /\ PublishedBy(c) => pc'[c] \in {"renamed", "returning", "ended", "dead"}

\* Such a step keeps the directory and the bundle as they are.
LEMMA BundleKept ==
  ASSUME Types, Types', BundleInv, NothingIsWritten
  PROVE  BundleInv'
<1>1. StagedIsGranted'
  BY DEF BundleInv, StagedIsGranted, NothingIsWritten, InStaging, InPipeline, Late
<1>2. StagedIsWhole'
  BY DEF BundleInv, StagedIsWhole, NothingIsWritten, Writing
<1>3. \A c \in Call : PublishedBy(c)' <=> PublishedBy(c)
  BY DEF PublishedBy, NothingIsWritten
<1>4. RenamedIsPublished'
  BY <1>3 DEF BundleInv, RenamedIsPublished, NothingIsWritten
<1> QED BY <1>1, <1>2, <1>4 DEF BundleInv

\* The steps that move no call.
LEMMA BundleQuiet ==
  ASSUME Types, Types', BundleInv, UNCHANGED <<pc, target, used, accepted, staging, published, unremoved>>,
         source' \in {source, "changed"}
  PROVE  BundleInv'
<1>1. NothingIsWritten
  BY DEF NothingIsWritten, BundleInv, RenamedIsPublished, Types, PipeTypes
<1> QED BY <1>1, BundleKept

\* A call moves outside publish_prepared.
LEMMA BundleMoves ==
  ASSUME Types, Types', BundleInv, NEW c \in Call, NEW s, pc' = [pc EXCEPT ![c] = s],
         s \notin Writing \cup {"renamed"},
         staging[c].there => /\ used'[c] = used[c] /\ target'[c] = target[c]
                             /\ s = "dead" \/ (pc[c] \in Late /\ s \in Late),
         PublishedBy(c) => s \in {"returning", "ended", "dead"},
         \A x \in Call \ {c} : used'[x] = used[x] /\ target'[x] = target[x],
         UNCHANGED <<staging, published, unremoved, source>>, accepted \subseteq accepted'
  PROVE  BundleInv'
<1>1. pc'[c] = s /\ \A x \in Call \ {c} : pc'[x] = pc[x]
  BY DEF Types, PipeTypes
<1>2. NothingIsWritten
  BY <1>1 DEF NothingIsWritten, BundleInv, RenamedIsPublished
<1> QED BY <1>2, BundleKept

\* What one call's directory may become, with the place it goes to.
LEMMA StagingMoves ==
  ASSUME Types, Types', BundleInv, NEW c \in Call, NEW s, pc' = [pc EXCEPT ![c] = s],
         ~PublishedBy(c), s # "renamed",
         UNCHANGED <<target, used, accepted, source, published>>,
         \A x \in Call \ {c} : staging'[x] = staging[x], unremoved \subseteq unremoved',
         staging'[c].there => /\ s \in InStaging \/ (s \in Late /\ c \in unremoved')
                              /\ c \in accepted /\ target[c] \in used[c].scope,
         s \in {"verifying", "querying", "finalizing"} /\ source = "pinned" => staging'[c].clean,
         s = "finalizing" => Part \ {"buildInfo"} \subseteq staging'[c].parts,
         s \in {"scanned", "renaming"} => staging'[c].clean /\ staging'[c].parts = Part
  PROVE  BundleInv'
<1>1. pc'[c] = s /\ \A x \in Call \ {c} : pc'[x] = pc[x]
  BY DEF Types, PipeTypes
<1>2. StagedIsGranted'
  BY <1>1 DEF BundleInv, StagedIsGranted, Late
<1>3. StagedIsWhole'
  BY <1>1 DEF BundleInv, StagedIsWhole
<1>4. \A x \in Call : PublishedBy(x)' <=> PublishedBy(x)
  BY DEF PublishedBy
<1>5. RenamedIsPublished'
  BY <1>1, <1>4 DEF BundleInv, RenamedIsPublished
<1> QED BY <1>2, <1>3, <1>5 DEF BundleInv

\* Every step of publish_prepared keeps the directory accounted for.
LEMMA BundlePipeline ==
  ASSUME Types, Types', GrantInv, BundleInv, NEW c \in Call, PipelineStep(c), UNCHANGED boundaryVars
  PROVE  BundleInv'
<1>0. /\ pc[c] \in InPipeline /\ c \in accepted /\ target[c] \in used[c].scope
      /\ UNCHANGED <<target, used, accepted, source>> /\ unremoved \subseteq unremoved'
      /\ staging[c] \in Staged /\ staging' \in [Call -> Staged]
      /\ \A x \in Call \ {c} : staging'[x] = staging[x]
  <2>1. pc[c] \in InPipeline /\ UNCHANGED <<target, source>> /\ staging' \in [Call -> Staged]
        /\ \A x \in Call \ {c} : staging'[x] = staging[x]
    BY PipelineTypes DEF Types, PipeFrame
  <2>2. c \in accepted /\ target[c] \in used[c].scope
    BY <2>1 DEF GrantInv, PublishingIsGranted, Granted
  <2>3. unremoved \subseteq unremoved'
    BY DEF PipelineStep, CreateStaging, VerifySource, WritePartition, WriteManifest, VerifyAgain, FinalizeCheck,
           RemoveStaging, Rename, Stops
  <2> QED BY <2>1, <2>2, <2>3 DEF boundaryVars, Types, PipeTypes
<1>1. ~PublishedBy(c)
  BY <1>0 DEF BundleInv, RenamedIsPublished, InPipeline
<1>2. \A e : Abort(c, e) => pc' = [pc EXCEPT ![c] = "aborting"]
  BY DEF Abort, Goto
<1>3. ASSUME pc' = [pc EXCEPT ![c] = "aborting"], UNCHANGED <<staging, published, unremoved>> PROVE BundleInv'
  BY <1>0, <1>1, <1>3, StagingMoves DEF InStaging, InPipeline
<1>4. ASSUME NEW errors, Stops(c, errors) PROVE BundleInv'
  BY <1>2, <1>3, <1>4 DEF Stops
<1>5. CASE CreateStaging(c)
  <2>1. pc[c] = "cleared" /\ UNCHANGED <<unremoved, published>> /\ ~staging[c].there
    BY <1>5 DEF CreateStaging, BundleInv, StagedIsGranted, InStaging
  <2>2. CASE pc' = [pc EXCEPT ![c] = "finishing"] /\ UNCHANGED staging
    BY <1>0, <1>1, <2>1, <2>2, StagingMoves
  <2>3. CASE /\ pc' = [pc EXCEPT ![c] = "verifying"]
             /\ staging' = [staging EXCEPT ![c] = [NoStaging EXCEPT !.there = TRUE]]
    <3>1. staging'[c].clean /\ "verifying" \in InStaging
      BY <2>3, NoStagingFacts DEF Types, PipeTypes, InStaging, InPipeline
    <3> QED BY <1>0, <1>1, <2>1, <2>3, <3>1, StagingMoves
  <2> QED BY <1>5, <2>2, <2>3 DEF CreateStaging, Fail, Goto
<1>6. CASE VerifySource(c)
  <2>1. CASE pc[c] = "verifying" /\ pc' = [pc EXCEPT ![c] = "querying"] /\ UNCHANGED <<staging, published, unremoved>>
    <3>1. (source = "pinned" => staging[c].clean) /\ "querying" \in InStaging
      BY <2>1 DEF BundleInv, StagedIsWhole, InStaging, InPipeline
    <3> QED BY <1>0, <1>1, <2>1, <3>1, StagingMoves
  <2> QED BY <1>4, <1>6, <2>1 DEF VerifySource, Continues, Goto
<1>7. CASE WritePartition(c)
  <2>1. CASE /\ pc[c] = "querying" /\ pc' = [pc EXCEPT ![c] = "querying"] /\ UNCHANGED <<published, unremoved>>
             /\ staging' = [staging EXCEPT ![c].rows = @ + 1, ![c].clean = @ /\ source = "pinned"]
    <3> DEFINE n == staging[c].rows + 1
               b == staging[c].clean /\ source = "pinned"
    <3>1. n \in Nat /\ b \in BOOLEAN /\ staging[c] \in Staged
      BY <1>0 DEF Staged
    <3>2. staging'[c] = [staging[c] EXCEPT !.rows = n, !.clean = b]
      BY <2>1 DEF Types, PipeTypes
    <3>5. staging[c].clean /\ source = "pinned" => b
      OBVIOUS
    <3> HIDE DEF n, b
    <3>6. [staging[c] EXCEPT !.rows = n, !.clean = b].clean = b
      BY <3>1 DEF Staged
    <3>3. staging'[c].clean = b
      BY <3>2, <3>6
    <3>4. (source = "pinned" => staging'[c].clean) /\ "querying" \in InStaging
      BY <2>1, <3>3, <3>5 DEF BundleInv, StagedIsWhole, InStaging, InPipeline
    <3> QED BY <1>0, <1>1, <2>1, <3>4, StagingMoves
  <2> QED BY <1>4, <1>7, <2>1 DEF WritePartition, Continues, Goto
<1>8. CASE WriteManifest(c)
  <2> DEFINE ps == {"data", "style", "viewer", "manifest"}
  <2>1. CASE /\ pc[c] = "querying" /\ pc' = [pc EXCEPT ![c] = "finalizing"] /\ UNCHANGED <<published, unremoved>>
             /\ staging' = [staging EXCEPT ![c].parts = @ \cup ps]
    <3>1. ps \in SUBSET Part /\ Part \ {"buildInfo"} \subseteq ps
      BY DEF Part
    <3> HIDE DEF ps
    <3>2. staging'[c] = [staging[c] EXCEPT !.parts = staging[c].parts \cup ps]
      BY <2>1 DEF Types, PipeTypes
    <3>3. staging'[c].clean = staging[c].clean /\ staging'[c].parts = staging[c].parts \cup ps
      BY <1>0, <3>1, <3>2, PartsFacts
    <3>4. (source = "pinned" => staging'[c].clean) /\ "finalizing" \in InStaging
      BY <2>1, <3>3 DEF BundleInv, StagedIsWhole, InStaging, InPipeline
    <3> QED BY <1>0, <1>1, <2>1, <3>1, <3>3, <3>4, StagingMoves
  <2> QED BY <1>4, <1>8, <2>1 DEF WriteManifest, Continues, Write, Goto
<1>9. CASE VerifyAgain(c)
  <2>1. CASE /\ pc[c] = "finalizing" /\ pc' = [pc EXCEPT ![c] = "scanned"] /\ UNCHANGED <<published, unremoved>>
             /\ source = "pinned" /\ staging' = [staging EXCEPT ![c].parts = @ \cup {"buildInfo"}]
    <3>1. {"buildInfo"} \in SUBSET Part
      BY DEF Part
    <3>2. staging'[c] = [staging[c] EXCEPT !.parts = staging[c].parts \cup {"buildInfo"}]
      BY <2>1 DEF Types, PipeTypes
    <3>3. staging'[c].clean = staging[c].clean /\ staging'[c].parts = staging[c].parts \cup {"buildInfo"}
      BY <1>0, <3>1, <3>2, PartsFacts
    <3>4. staging[c].clean /\ Part \ {"buildInfo"} \subseteq staging[c].parts /\ "scanned" \in InStaging
      BY <2>1 DEF BundleInv, StagedIsWhole, InStaging, InPipeline
    <3>5. staging'[c].clean /\ staging'[c].parts = Part
      BY <1>0, <3>1, <3>3, <3>4 DEF Staged
    <3> QED BY <1>0, <1>1, <2>1, <3>4, <3>5, StagingMoves
  <2> QED BY <1>4, <1>9, <2>1 DEF VerifyAgain, Continues, Write, Goto
<1>10. CASE FinalizeCheck(c)
  <2>1. CASE pc[c] = "scanned" /\ pc' = [pc EXCEPT ![c] = "renaming"] /\ UNCHANGED <<staging, published, unremoved>>
    <3>1. staging[c].clean /\ staging[c].parts = Part /\ "renaming" \in InStaging
      BY <2>1 DEF BundleInv, StagedIsWhole, InStaging, InPipeline
    <3> QED BY <1>0, <1>1, <2>1, <3>1, StagingMoves
  <2> QED BY <1>2, <1>3, <1>10, <2>1 DEF FinalizeCheck, Goto
<1>11. CASE Rename(c)
  <2>1. CASE UNCHANGED published
    <3>1. pc' = [pc EXCEPT ![c] = "aborting"] /\ UNCHANGED <<staging, unremoved>>
      <4>1. \/ Abort(c, "Io") /\ UNCHANGED <<staging, unremoved>>
            \/ ~Occupied(target[c]) /\ published' = [published EXCEPT ![target[c]] = Bundle(c)]
        BY <1>11 DEF Rename
      <4>2. ASSUME ~Occupied(target[c]), published' = [published EXCEPT ![target[c]] = Bundle(c)] PROVE FALSE
        <5>1. published'[target[c]] = Bundle(c)
          BY <4>2 DEF Types, PipeTypes
        <5>2. Bundle(c).there /\ ~published[target[c]].there
          BY <4>2 DEF Bundle, Occupied
        <5> QED BY <2>1, <5>1, <5>2
      <4> QED BY <1>2, <4>1, <4>2
    <3> QED BY <1>3, <2>1, <3>1
  <2>2. CASE /\ pc[c] = "renaming" /\ pc' = [pc EXCEPT ![c] = "renamed"]
             /\ staging' = [staging EXCEPT ![c] = NoStaging] /\ unremoved' = unremoved
             /\ \A x \in Call : PublishedBy(x)' <=> PublishedBy(x) \/ x = c
    <3>1. pc'[c] = "renamed" /\ (\A x \in Call \ {c} : pc'[x] = pc[x]) /\ ~staging'[c].there
      BY <2>2, NoStagingFacts DEF Types, PipeTypes
    <3>2. StagedIsGranted'
      BY <1>0, <2>2, <3>1 DEF BundleInv, StagedIsGranted
    <3>3. StagedIsWhole'
      BY <1>0, <3>1 DEF BundleInv, StagedIsWhole
    <3>4. RenamedIsPublished'
      BY <2>2, <3>1 DEF BundleInv, RenamedIsPublished
    <3> QED BY <3>2, <3>3, <3>4 DEF BundleInv
  <2>3. PipeTypes
    BY DEF Types
  <2> QED BY <2>1, <2>2, <2>3, RenamePublishes
<1>12. CASE RemoveStaging(c)
  <2>1. pc' = [pc EXCEPT ![c] = "finishing"] /\ UNCHANGED published
    BY <1>12 DEF RemoveStaging, Goto
  <2>2. staging'[c].there => c \in unremoved'
    BY <1>12, NoStagingFacts DEF RemoveStaging, Types, PipeTypes
  <2> QED BY <1>0, <1>1, <2>1, <2>2, StagingMoves DEF Late
<1> QED BY <1>5, <1>6, <1>7, <1>8, <1>9, <1>10, <1>11, <1>12 DEF PipelineStep

\* Every step keeps the bundle and what is staged for it.
LEMMA BundleStep ==
  ASSUME Types, Types', RegistryInv, GrantInv, BundleInv, [Next]_vars
  PROVE  BundleInv'
<1>0. /\ \A c \in Call : staging[c].there => pc[c] \in InStaging \cup {"finishing", "returning", "ended", "dead"}
      /\ \A c \in Call : PublishedBy(c) => pc[c] \in {"renamed", "returning", "ended", "dead"}
  BY DEF BundleInv, StagedIsGranted, RenamedIsPublished
<1>1. ASSUME NEW a \in Attempt, NEW d \in Dest, PrepareStart(a, d) PROVE BundleInv'
  BY <1>1, BundleQuiet DEF PrepareStart, pipeVars, boundaryVars
<1>2. ASSUME NEW a \in Attempt, PrepareRefused(a) \/ PrepareGrant(a) \/ PrepareStore(a) \/ Cancel(a) PROVE BundleInv'
  <2>1. UNCHANGED <<pc, target, used, accepted, staging, published, unremoved, source>>
    BY <1>2 DEF PrepareRefused, PrepareGrant, PrepareStore, Cancel, pipeVars, callVars, boundaryVars
  <2> QED BY <2>1, BundleQuiet
<1>3. ASSUME NEW c \in Call, CtrlC(c) PROVE BundleInv'
  BY <1>3, BundleQuiet DEF CtrlC, boundaryVars
<1>4. CASE Tick /\ UNCHANGED shellVars
  BY <1>4, BundleQuiet DEF Tick, pipeVars
<1>5. CASE ChangeSource /\ UNCHANGED <<boundaryVars, shellVars>>
  BY <1>5, BundleQuiet DEF ChangeSource, boundaryVars
<1>6. CASE UNCHANGED vars
  BY <1>6, BundleQuiet DEF vars, pipeVars, boundaryVars
<1>7. CASE ExitRequested \/ ExitDrain \/ WaitIdle \/ Restart
  <2>1. UNCHANGED <<pc, target, used, accepted, staging, published, unremoved, source>>
    BY <1>7 DEF ExitRequested, ExitDrain, WaitIdle, Restart, pipeVars, callVars, boundaryVars
  <2> QED BY <2>1, BundleQuiet
<1>8. ASSUME NEW a \in Attempt, NEW c \in Call, ExecuteStart(c, a) PROVE BundleInv'
  <2>1. /\ pc[c] = "idle" /\ \E s \in {"ended", "registered"} : pc' = [pc EXCEPT ![c] = s]
        /\ UNCHANGED <<target, used, accepted, staging, published, unremoved, source>>
    BY <1>8 DEF ExecuteStart, Goto
  <2>2. ~staging[c].there /\ ~PublishedBy(c)
    BY <1>0, <2>1 DEF InStaging, InPipeline
  <2> QED BY <2>1, <2>2, BundleMoves DEF Writing
<1>9. ASSUME NEW c \in Call, Take(c) \/ ConsumeGrant(c) \/ Authorise(c) PROVE BundleInv'
  <2>1. /\ pc[c] \in {"registered", "opened", "consuming"}
        /\ \E s \in {"opened", "consuming", "returning", "gate"} : pc' = [pc EXCEPT ![c] = s]
        /\ \A x \in Call \ {c} : target'[x] = target[x]
        /\ UNCHANGED <<used, accepted, staging, published, unremoved, source>>
    BY <1>9 DEF Take, OpenLog, ConsumeGrant, Authorise, Goto, boundaryVars, Types, PipeTypes
  <2>2. ~staging[c].there /\ ~PublishedBy(c)
    BY <1>0, <2>1 DEF InStaging, InPipeline
  <2> QED BY <2>1, <2>2, BundleMoves DEF Writing
<1>10. ASSUME NEW c \in Call, Return(c) PROVE BundleInv'
  <2>1. /\ pc[c] = "returning" /\ pc' = [pc EXCEPT ![c] = "ended"]
        /\ UNCHANGED <<target, used, accepted, staging, published, unremoved, source>>
    BY <1>10 DEF Return, Goto
  <2> QED BY <2>1, BundleMoves DEF Writing, Late
<1>11. ASSUME NEW c \in Call, Intend(c) \/ Approve(c), UNCHANGED shellVars PROVE BundleInv'
  <2>1. /\ pc[c] \in {"gate", "found"}
        /\ \E s \in {"intended", "returning", "approved", "finishing"} : pc' = [pc EXCEPT ![c] = s]
        /\ UNCHANGED <<target, used, staging, published, unremoved, source>> /\ accepted \subseteq accepted'
    BY <1>11 DEF Intend, Approve, Goto, Fail, boundaryVars
  <2>2. ~staging[c].there /\ ~PublishedBy(c)
    BY <1>0, <2>1 DEF InStaging, InPipeline
  <2> QED BY <2>1, <2>2, BundleMoves DEF Writing
<1>12. ASSUME NEW c \in Call, Finish(c) \/ RecordSuccess(c), UNCHANGED shellVars PROVE BundleInv'
  <2>1. /\ pc[c] \in {"finishing", "renamed"} /\ pc' = [pc EXCEPT ![c] = "returning"]
        /\ UNCHANGED <<target, used, staging, published, unremoved, source, accepted>>
    BY <1>12 DEF Finish, RecordSuccess, Goto
  <2>2. staging[c].there => pc[c] = "finishing"
    BY <1>0, <2>1 DEF InStaging, InPipeline
  <2> QED BY <2>1, <2>2, BundleMoves DEF Writing, Late
<1>13. ASSUME NEW c \in Call, NEW from \in {"intended", "approved"}, NEW to \in {"found", "cleared"},
              FindGrant(c, from, to, GrantsOf(c)), UNCHANGED shellVars
       PROVE  BundleInv'
  <2>1. /\ pc[c] = from /\ \E s \in {to, "finishing"} : pc' = [pc EXCEPT ![c] = s]
        /\ \A x \in Call \ {c} : used'[x] = used[x]
        /\ UNCHANGED <<target, staging, published, unremoved, source, accepted>>
    BY <1>13 DEF FindGrant, Goto, Fail, Types, GrantTypes
  <2>2. ~staging[c].there /\ ~PublishedBy(c)
    BY <1>0, <2>1 DEF InStaging, InPipeline
  <2> QED BY <2>1, <2>2, BundleMoves DEF Writing
<1>14. ASSUME NEW c \in Call, PipelineStep(c), UNCHANGED boundaryVars, UNCHANGED shellVars PROVE BundleInv'
  BY <1>14, BundlePipeline
<1>15. ASSUME NEW c \in Call, CliEnds(c) PROVE BundleInv'
  <2>1. /\ pc' = [pc EXCEPT ![c] = "dead"]
        /\ UNCHANGED <<target, used, accepted, staging, published, unremoved, source>>
    BY <1>15 DEF CliEnds, Goto
  <2> QED BY <2>1, BundleMoves DEF Writing
<1>16. ASSUME NEW c \in Call, NEW d \in Dest, NEW s \in SUBSET Dest, CliStart(c, d, s) PROVE BundleInv'
  <2>1. /\ pc[c] = "idle" /\ \E p \in {"gate", "returning"} : pc' = [pc EXCEPT ![c] = p]
        /\ \A x \in Call \ {c} : target'[x] = target[x]
        /\ UNCHANGED <<used, accepted, staging, published, unremoved, source>>
    BY <1>16 DEF CliStart, OpenLog, Goto, Types, PipeTypes
  <2>2. ~staging[c].there /\ ~PublishedBy(c)
    BY <1>0, <2>1 DEF InStaging, InPipeline
  <2> QED BY <2>1, <2>2, BundleMoves DEF Writing
<1>17. ASSUME NEW early \in BOOLEAN, ProcessEnds(early) PROVE BundleInv'
  <2>1. /\ \A c \in Call : pc'[c] \in {pc[c], "dead"}
        /\ UNCHANGED <<target, used, accepted, staging, published, unremoved, source>>
    BY <1>17 DEF ProcessEnds
  <2>2. NothingIsWritten
    BY <1>0, <2>1 DEF NothingIsWritten, Writing
  <2> QED BY <2>2, BundleKept
<1>18. ASSUME NEW c \in Call, CallStep(c) PROVE BundleInv'
  BY <1>9, <1>10, <1>11, <1>12, <1>13, <1>14, <1>18 DEF CallStep, BoundaryStep
<1> QED BY <1>1, <1>2, <1>3, <1>4, <1>5, <1>6, <1>7, <1>8, <1>15, <1>16, <1>17, <1>18 DEF Next

-----------------------------------------------------------------------------
(* The audit log.                                                           *)

\* Append adds its element at the end and nothing else.
LEMMA AppendedIn ==
  ASSUME NEW S, NEW s \in Seq(S), NEW x \in S
  PROVE  /\ Append(s, x) \in Seq(S)
         /\ \A i \in DOMAIN Append(s, x) :
               \/ i \in DOMAIN s /\ Append(s, x)[i] = s[i]
               \/ Append(s, x)[i] = x
BY AppendProperties

\* A line written to the file leaves the records that were there, and its own.
LEMMA WriteLineFacts ==
  ASSUME NEW file \in Seq(FileLine), NEW rec \in CallRec, NEW cut \in BOOLEAN, NEW newline \in BOOLEAN
  PROVE  /\ WriteLine(file, rec, cut, newline) \in Seq(FileLine)
         /\ \A r : InFile(WriteLine(file, rec, cut, newline), r) => r = rec \/ InFile(file, r)
<1>1. CASE OpenTail(file)
  <2> DEFINE n == Len(file)
             old == file[n]
             recs == Append(old.recs, rec)
             new == [recs |-> recs, cut |-> old.cut \/ cut, newline |-> newline]
             front == SubSeq(file, 1, n - 1)
             w == Append(front, new)
  <2>1. n \in Nat \ {0} /\ old \in FileLine
    BY <1>1 DEF OpenTail
  <2>2. old.recs \in Seq(CallRec) /\ old.cut \in BOOLEAN
    BY <2>1 DEF FileLine
  <2>3. /\ recs \in Seq(CallRec)
        /\ \A k \in DOMAIN recs : (k \in DOMAIN old.recs /\ recs[k] = old.recs[k]) \/ recs[k] = rec
    BY <2>2, AppendedIn
  <2>4. new \in FileLine /\ new.recs = recs
    BY <2>2, <2>3 DEF FileLine
  <2>5. front \in Seq(FileLine) /\ \A i \in DOMAIN front : i \in DOMAIN file /\ front[i] = file[i]
    BY <2>1, SubSeqProperties
  <2>6. WriteLine(file, rec, cut, newline) = w
    BY <1>1 DEF WriteLine, Front, Last, Line
  <2>7. n \in DOMAIN file
    BY <2>1
  <2> HIDE DEF recs, new, front
  <2>8. /\ w \in Seq(FileLine)
        /\ \A i \in DOMAIN w : (i \in DOMAIN front /\ w[i] = front[i]) \/ w[i] = new
    BY <2>4, <2>5, AppendedIn
  <2> HIDE DEF w
  <2>9. ASSUME NEW i \in DOMAIN w, NEW k \in DOMAIN w[i].recs
        PROVE  w[i].recs[k] = rec \/ InFile(file, w[i].recs[k])
    <3>1. CASE i \in DOMAIN front /\ w[i] = front[i]
      BY <2>5, <2>9, <3>1 DEF InFile
    <3>2. CASE w[i] = new
      BY <2>3, <2>4, <2>7, <2>9, <3>2 DEF InFile
    <3> QED BY <2>8, <3>1, <3>2
  <2> QED BY <2>6, <2>8, <2>9 DEF InFile
<1>2. CASE ~OpenTail(file)
  <2> DEFINE new == [recs |-> <<rec>>, cut |-> cut, newline |-> newline]
             w == Append(file, new)
  <2>1. new \in FileLine /\ new.recs = <<rec>>
    BY DEF FileLine
  <2>2. WriteLine(file, rec, cut, newline) = w
    BY <1>2 DEF WriteLine, Line
  <2> HIDE DEF new
  <2>3. /\ w \in Seq(FileLine)
        /\ \A i \in DOMAIN w : (i \in DOMAIN file /\ w[i] = file[i]) \/ w[i] = new
    BY <2>1, AppendedIn
  <2> HIDE DEF w
  <2>4. ASSUME NEW i \in DOMAIN w, NEW k \in DOMAIN w[i].recs
        PROVE  w[i].recs[k] = rec \/ InFile(file, w[i].recs[k])
    BY <2>1, <2>3, <2>4 DEF InFile
  <2> QED BY <2>2, <2>3, <2>4 DEF InFile
<1> QED BY <1>1, <1>2

\* What an append leaves: a log, with at most one record more in its live file.
Logged(old, new, rec) ==
    /\ new \in LogFiles
    /\ \A r \in CallRec : InFile(new.live, r) => r = rec \/ InFile(old.live, r)

\* append, whole or failing part way, leaves such a log.
LEMMA AppendFacts ==
  ASSUME NEW l \in LogFiles, NEW rec \in CallRec
  PROVE  /\ Logged(l, AppendDone(l, rec).log, rec)
         /\ \A r \in AppendFailures(l, rec) : Logged(l, r.log, rec)
<1>1. ASSUME NEW file \in Seq(FileLine), \A r : InFile(file, r) => r = rec \/ InFile(l.live, r), NEW ok
      PROVE  Logged(l, AppendResult(ok, l, file).log, rec)
  <2>1. [l EXCEPT !.live = file] \in LogFiles /\ [l EXCEPT !.live = file].live = file
    BY DEF LogFiles
  <2> QED BY <1>1, <2>1 DEF Logged, AppendResult
<1>2. l.live \in Seq(FileLine)
  BY DEF LogFiles
<1>3. ASSUME NEW cut \in BOOLEAN, NEW newline \in BOOLEAN
      PROVE  /\ WriteLine(l.live, rec, cut, newline) \in Seq(FileLine)
             /\ \A r : InFile(WriteLine(l.live, rec, cut, newline), r) => r = rec \/ InFile(l.live, r)
  BY <1>2, WriteLineFacts
<1>4. Logged(l, AppendDone(l, rec).log, rec)
  BY <1>1, <1>3 DEF AppendDone
<1>5. ASSUME NEW r \in AppendFailures(l, rec) PROVE Logged(l, r.log, rec)
  BY <1>1, <1>2, <1>3 DEF AppendFailures
<1> QED BY <1>4, <1>5

\* open_for leaves the live file, or a new one, and its generations.
LEMMA OpenFacts ==
  ASSUME NEW l \in LogFiles, NEW mayFail, NEW r \in OpenResults(l, mayFail)
  PROVE  r.log \in LogFiles /\ r.log.live \in {l.live, <<>>}
<1>1. ASSUME NEW k \in 1..Generations PROVE Shifted(l, k) \in LogFiles /\ Shifted(l, k).live = l.live
  <2> DEFINE g == [n \in 1..Generations |-> CASE n > k -> l.gens[n - 1] [] n = k -> NoFile [] n < k -> l.gens[n]]
  <2>1. g \in [1..Generations -> Seq(FileLine)]
    <3>1. ASSUME NEW n \in 1..Generations
          PROVE (CASE n > k -> l.gens[n - 1] [] n = k -> NoFile [] n < k -> l.gens[n]) \in Seq(FileLine)
      <4>1. l.gens \in [1..Generations -> Seq(FileLine)] /\ NoFile \in Seq(FileLine)
        BY DEF LogFiles, NoFile
      <4>2. CASE n > k
        <5>1. n - 1 \in 1..Generations
          BY <4>2, GenerationsAssumption
        <5> QED BY <4>1, <4>2, <5>1
      <4>3. CASE n = k
        BY <4>1, <4>3
      <4>4. CASE n < k
        <5>1. n \in 1..Generations /\ ~(n > k) /\ n # k
          BY <4>4
        <5> QED BY <4>1, <4>4, <5>1
      <4> QED BY <4>2, <4>3, <4>4
    <3> QED BY <3>1
  <2>2. Shifted(l, k) = [l EXCEPT !.gens = g]
    BY DEF Shifted
  <2> HIDE DEF g
  <2> QED BY <2>1, <2>2 DEF LogFiles
<1>2. Rotated(l) \in LogFiles /\ Rotated(l).live = <<>>
  <2> DEFINE m == Shifted(l, 1)
  <2>1. m \in LogFiles /\ 1 \in 1..Generations
    BY <1>1, GenerationsAssumption
  <2>2. Rotated(l) = [m EXCEPT !.gens = [m.gens EXCEPT ![1] = l.live], !.live = NoFile]
    BY <2>1 DEF Rotated, LogFiles
  <2> HIDE DEF m
  <2>3. [m.gens EXCEPT ![1] = l.live] \in [1..Generations -> Seq(FileLine)] /\ NoFile \in Seq(FileLine)
    BY <2>1 DEF LogFiles, NoFile
  <2> QED BY <2>1, <2>2, <2>3 DEF LogFiles, NoFile
<1>3. \A m \in RotationFailures(l) : m \in LogFiles /\ m.live = l.live
  BY <1>1 DEF RotationFailures
<1>4. \E m \in {l, Rotated(l)} \cup RotationFailures(l) : r.log = m
  BY DEF OpenResults
<1> QED BY <1>2, <1>3, <1>4
-----------------------------------------------------------------------------
(* The outcome.                                                             *)

\* What a step may do to the log and to the results, with the one record it may add.
LEMMA OutcomeKept ==
  ASSUME Types, OutcomeInv, OutcomeTypes', token \subseteq token',
         NEW rec \in CallRec, Logged(log, log', rec),
         rec.phase = "outcome" =>
             /\ pc'[rec.attempt] \in Told
             /\ rec.outcome = "success" <=> PublishedBy(rec.attempt)'
             /\ rec.outcome = "cancelled" => rec.attempt \in token,
         \A x \in Call : /\ pc[x] \in Told => pc'[x] \in Told /\ (PublishedBy(x)' <=> PublishedBy(x))
                         /\ result'[x] \in Succeeded => PublishedBy(x)'
                         /\ PublishedBy(x)' /\ pc'[x] \in {"returning", "ended"} => result'[x] \in Succeeded
  PROVE  OutcomeInv'
<1>1. LogTypes'
  BY DEF Logged, LogTypes
<1>2. ResultIsTrue'
  BY DEF ResultIsTrue
<1>3. ASSUME NEW r \in CallRec, InFile(log'.live, r), r.phase = "outcome"
      PROVE  /\ pc'[r.attempt] \in Told
             /\ r.outcome = "success" <=> PublishedBy(r.attempt)'
             /\ r.outcome = "cancelled" => r.attempt \in token'
  <2>1. CASE r = rec
    BY <1>3, <2>1
  <2>2. CASE InFile(log.live, r)
    <3>1. /\ pc[r.attempt] \in Told
          /\ r.outcome = "success" <=> PublishedBy(r.attempt)
          /\ r.outcome = "cancelled" => r.attempt \in token
      BY <1>3, <2>2 DEF OutcomeInv, LogIsTrue
    <3>2. r.attempt \in Call
      BY DEF CallRec
    <3> QED BY <3>1, <3>2
  <2> QED BY <1>3, <2>1, <2>2 DEF Logged
<1>4. LogIsTrue'
  BY <1>3 DEF LogIsTrue, InFile
<1> QED BY <1>1, <1>2, <1>4 DEF OutcomeInv

\* A step that writes no record.
NoRec(c) == [attempt |-> c, phase |-> "intent", outcome |-> "none"]

\* An intent stands for no record of an outcome: what is said of outcomes holds of it.
LEMMA NoRecFacts ==
  ASSUME LogTypes, NEW c \in Call
  PROVE  /\ NoRec(c) \in CallRec /\ NoRec(c).phase # "outcome"
         /\ log' = log => Logged(log, log', NoRec(c))
         /\ log' \in LogFiles /\ log'.live \in {log.live, <<>>} => Logged(log, log', NoRec(c))
<1>1. NoRec(c) \in CallRec /\ NoRec(c).phase # "outcome"
  BY DEF NoRec, CallRec
<1>2. \A r : ~InFile(<<>>, r)
  BY DEF InFile
<1> QED BY <1>1, <1>2 DEF Logged, LogTypes

\* The steps that move no call.
LEMMA OutcomeQuiet ==
  ASSUME Types, OutcomeInv, UNCHANGED <<pc, err, result, published, log>>, token \subseteq token'
  PROVE  OutcomeInv'
<1>1. \A x \in Call : PublishedBy(x)' <=> PublishedBy(x)
  BY DEF PublishedBy
<1>2. OutcomeTypes' /\ LogTypes'
  BY DEF OutcomeInv, OutcomeTypes, LogTypes
<1>3. ResultIsTrue'
  BY <1>1 DEF OutcomeInv, ResultIsTrue
<1>4. LogIsTrue'
  <2>1. \A r \in CallRec : r.attempt \in Call
    BY DEF CallRec
  <2> QED BY <1>1, <2>1 DEF OutcomeInv, LogIsTrue, InFile
<1> QED BY <1>2, <1>3, <1>4 DEF OutcomeInv

\* A call moves, with what it is told and the record of it.
LEMMA OutcomeMoves ==
  ASSUME Types, OutcomeInv, NEW c \in Call, NEW s, pc' = [pc EXCEPT ![c] = s],
         UNCHANGED token, pc[c] \in Told => s \in Told,
         err' = err \/ \E e : err' = [err EXCEPT ![c] = e] /\ (e = "Cancelled" => c \in token),
         NEW rec \in CallRec, Logged(log, log', rec),
         rec.phase = "outcome" => /\ rec.attempt = c /\ s \in Told
                                  /\ rec.outcome = "success" <=> PublishedBy(c)'
                                  /\ rec.outcome = "cancelled" => c \in token,
         pc[c] \in Told => (PublishedBy(c)' <=> PublishedBy(c)),
         \A x \in Call \ {c} : PublishedBy(x)' <=> PublishedBy(x),
         result' = result \/ \E v : result' = [result EXCEPT ![c] = v],
         result'[c] \in Succeeded => PublishedBy(c)',
         PublishedBy(c)' /\ s \in {"returning", "ended"} => result'[c] \in Succeeded
  PROVE  OutcomeInv'
<1>1. pc'[c] = s /\ \A x \in Call \ {c} : pc'[x] = pc[x]
  BY DEF Types, PipeTypes
<1>2. \A x \in Call \ {c} : result'[x] = result[x]
  BY DEF OutcomeInv, OutcomeTypes
<1>3. OutcomeTypes'
  BY DEF OutcomeInv, OutcomeTypes
<1>4. ASSUME NEW x \in Call
      PROVE  /\ pc[x] \in Told => pc'[x] \in Told /\ (PublishedBy(x)' <=> PublishedBy(x))
             /\ result'[x] \in Succeeded => PublishedBy(x)'
             /\ PublishedBy(x)' /\ pc'[x] \in {"returning", "ended"} => result'[x] \in Succeeded
  <2>1. CASE x = c
    BY <1>1, <2>1
  <2>2. CASE x # c
    BY <1>1, <1>2, <2>2 DEF OutcomeInv, ResultIsTrue
  <2> QED BY <2>1, <2>2
<1>5. rec.phase = "outcome" =>
             /\ pc'[rec.attempt] \in Told
             /\ rec.outcome = "success" <=> PublishedBy(rec.attempt)'
             /\ rec.outcome = "cancelled" => rec.attempt \in token
  BY <1>1
<1> QED BY <1>3, <1>4, <1>5, OutcomeKept

\* A call moves before it published anything, and nothing is said of it.
LEMMA OutcomeBefore ==
  ASSUME Types, OutcomeInv, NEW c \in Call, NEW s, pc' = [pc EXCEPT ![c] = s],
         UNCHANGED <<token, published>>, pc[c] \in Told => s \in Told,
         err' = err \/ \E e : err' = [err EXCEPT ![c] = e] /\ (e = "Cancelled" => c \in token),
         log' \in LogFiles /\ log'.live \in {log.live, <<>>},
         ~PublishedBy(c),
         result' = result \/ \E v : result' = [result EXCEPT ![c] = v] /\ v \notin Succeeded
  PROVE  OutcomeInv'
<1>1. \A x \in Call : PublishedBy(x)' <=> PublishedBy(x)
  BY DEF PublishedBy
<1>2. NoRec(c) \in CallRec /\ NoRec(c).phase # "outcome" /\ Logged(log, log', NoRec(c))
  BY NoRecFacts DEF OutcomeInv
<1>3. result'[c] \notin Succeeded
  BY DEF OutcomeInv, OutcomeTypes, ResultIsTrue
<1> QED BY <1>1, <1>2, <1>3, OutcomeMoves

\* What a call ends in: an error that is its Cancelled was asked for.
LEMMA PipelineErrors ==
  ASSUME NEW c \in Call, PipelineStep(c)
  PROVE  err' = err \/ \E e : err' = [err EXCEPT ![c] = e] /\ (e = "Cancelled" => c \in token)
<1>1. ASSUME NEW errors, "Cancelled" \notin errors, Stops(c, errors)
      PROVE  \E e : err' = [err EXCEPT ![c] = e] /\ (e = "Cancelled" => c \in token)
  BY <1>1 DEF Stops, Abort, Cancelled
<1>2. CASE CreateStaging(c) \/ RemoveStaging(c)
  BY <1>2 DEF CreateStaging, Fail, RemoveStaging
<1>3. CASE VerifySource(c)
  BY <1>1, <1>3 DEF VerifySource, Continues
<1>4. CASE WritePartition(c)
  <2>1. "Cancelled" \notin {"Io", "Engine"} \cup IF staging[c].rows < MaxPartitions THEN {} ELSE {"CeilingExceeded"}
    OBVIOUS
  <2> QED BY <1>1, <1>4, <2>1 DEF WritePartition, Continues
<1>5. CASE WriteManifest(c)
  BY <1>1, <1>5 DEF WriteManifest, Continues
<1>6. CASE VerifyAgain(c)
  BY <1>1, <1>6 DEF VerifyAgain, Continues
<1>7. CASE FinalizeCheck(c) \/ Rename(c)
  BY <1>7 DEF FinalizeCheck, Rename, Abort
<1> QED BY <1>2, <1>3, <1>4, <1>5, <1>6, <1>7 DEF PipelineStep

\* Every step keeps what was told, and what is recorded, true.
LEMMA OutcomeStep ==
  ASSUME Types, Types', BundleInv, OutcomeInv, [Next]_vars
  PROVE  OutcomeInv'
<1>0. /\ \A c \in Call : PublishedBy(c) => pc[c] \in {"renamed", "returning", "ended", "dead"}
      /\ \A c \in Call : pc[c] = "renamed" => PublishedBy(c)
      /\ log \in LogFiles /\ log.live \in {log.live, <<>>}
      /\ LogTypes
  BY DEF BundleInv, RenamedIsPublished, OutcomeInv, LogTypes
<1>1. CASE \/ UNCHANGED vars \/ (Tick /\ UNCHANGED shellVars)
           \/ ChangeSource /\ UNCHANGED <<boundaryVars, shellVars>>
  BY <1>1, OutcomeQuiet DEF Tick, ChangeSource, vars, pipeVars, boundaryVars
<1>2. ASSUME NEW a \in Attempt, NEW d \in Dest, PrepareStart(a, d) PROVE OutcomeInv'
  BY <1>2, OutcomeQuiet DEF PrepareStart, pipeVars, boundaryVars
<1>3. ASSUME NEW a \in Attempt, PrepareRefused(a) \/ PrepareGrant(a) \/ PrepareStore(a) \/ Cancel(a) PROVE OutcomeInv'
  <2>1. UNCHANGED <<pc, err, result, published, log>> /\ token \subseteq token'
    BY <1>3 DEF PrepareRefused, PrepareGrant, PrepareStore, Cancel, CancelAll, pipeVars, callVars, boundaryVars
  <2> QED BY <2>1, OutcomeQuiet
<1>4. ASSUME NEW c \in Call, CtrlC(c) PROVE OutcomeInv'
  BY <1>4, OutcomeQuiet DEF CtrlC, boundaryVars
<1>5. CASE ExitRequested \/ ExitDrain \/ WaitIdle \/ Restart
  <2>1. UNCHANGED <<pc, err, result, published, log>> /\ token \subseteq token'
    BY <1>5 DEF ExitRequested, ExitDrain, WaitIdle, Restart, CancelAll, pipeVars, callVars, boundaryVars
  <2> QED BY <2>1, OutcomeQuiet
<1>6. ASSUME NEW a \in Attempt, NEW c \in Call, ExecuteStart(c, a) PROVE OutcomeInv'
  <2>1. /\ pc[c] = "idle" /\ \E s \in {"ended", "registered"} : pc' = [pc EXCEPT ![c] = s]
        /\ UNCHANGED <<token, published, err, log>>
        /\ result' = result \/ \E v : result' = [result EXCEPT ![c] = v] /\ v \notin Succeeded
    BY <1>6 DEF ExecuteStart, Goto, Succeeded
  <2> QED BY <1>0, <2>1, OutcomeBefore DEF Told
<1>7. ASSUME NEW c \in Call, OpenLog(c, "opened", "consuming") \/ OpenLog(c, "gate", "returning")
      PROVE  /\ log' \in LogFiles /\ log'.live \in {log.live, <<>>}
             /\ \E s \in {"opened", "consuming", "gate", "returning"} : pc' = [pc EXCEPT ![c] = s]
             /\ err' = err \/ \E e : err' = [err EXCEPT ![c] = e] /\ (e = "Cancelled" => c \in token)
  <2>1. PICK r \in OpenResults(log, upsets < MaxUpsets) : log' = r.log
    BY <1>7 DEF OpenLog
  <2>2. r.log \in LogFiles /\ r.log.live \in {log.live, <<>>}
    BY <1>0, OpenFacts
  <2>3. \E s \in {"opened", "consuming", "gate", "returning"} : pc' = [pc EXCEPT ![c] = s]
    BY <1>7 DEF OpenLog, Goto
  <2>4. err' = err \/ err' = [err EXCEPT ![c] = "AuditUnwritable"]
    BY <1>7 DEF OpenLog
  <2> QED BY <2>1, <2>2, <2>3, <2>4
<1>8. ASSUME NEW c \in Call, Take(c) PROVE OutcomeInv'
  <2>1. pc[c] = "registered" /\ UNCHANGED <<token, published>>
    BY <1>8 DEF Take
  <2>2. CASE OpenLog(c, "opened", "consuming") /\ UNCHANGED result
    BY <1>0, <1>7, <2>1, <2>2, OutcomeBefore DEF Told
  <2>3. CASE /\ pc' = [pc EXCEPT ![c] = "returning"] /\ UNCHANGED <<err, log>>
             /\ result' = result \/ \E v : result' = [result EXCEPT ![c] = v] /\ v \notin Succeeded
    BY <1>0, <2>1, <2>3, OutcomeBefore DEF Told
  <2> QED BY <1>8, <2>2, <2>3 DEF Take, Goto, Succeeded
<1>9. ASSUME NEW c \in Call, ConsumeGrant(c) \/ Authorise(c) PROVE OutcomeInv'
  <2>1. /\ pc[c] \in {"opened", "consuming"} /\ \E s \in {"returning", "gate"} : pc' = [pc EXCEPT ![c] = s]
        /\ UNCHANGED <<token, published, err, log, result>>
    BY <1>9 DEF ConsumeGrant, Authorise, Goto, boundaryVars
  <2> QED BY <1>0, <2>1, OutcomeBefore DEF Told
<1>10. ASSUME NEW c \in Call, NEW d \in Dest, NEW s \in SUBSET Dest, CliStart(c, d, s) PROVE OutcomeInv'
  <2>1. pc[c] = "idle" /\ UNCHANGED <<token, published, result>> /\ OpenLog(c, "gate", "returning")
    BY <1>10 DEF CliStart
  <2> QED BY <1>0, <1>7, <2>1, OutcomeBefore DEF Told
<1>11. ASSUME NEW c \in Call, Return(c) PROVE OutcomeInv'
  <2>1. /\ pc[c] = "returning" /\ pc' = [pc EXCEPT ![c] = "ended"] /\ UNCHANGED <<token, published, log>>
        /\ err' = [err EXCEPT ![c] = "none"]
        /\ result' = IF result[c] = "none" THEN [result EXCEPT ![c] = "Refused"] ELSE result
        /\ "ended" \in Told
    BY <1>11 DEF Return, Goto, Told
  <2>4. \E e : err' = [err EXCEPT ![c] = e] /\ (e = "Cancelled" => c \in token)
    <3>1. err' = [err EXCEPT ![c] = "none"] /\ ("none" = "Cancelled" => c \in token)
      BY <2>1
    <3> QED BY <3>1
  <2>2. CASE ~PublishedBy(c)
    <3>1. result' = result \/ \E v : result' = [result EXCEPT ![c] = v] /\ v \notin Succeeded
      BY <2>1 DEF Succeeded
    <3> QED BY <1>0, <2>1, <2>2, <2>4, <3>1, OutcomeBefore
  <2>3. CASE PublishedBy(c)
    <3>1. result[c] \in Succeeded
      BY <2>1, <2>3 DEF OutcomeInv, ResultIsTrue
    <3>2. result' = result
      BY <2>1, <3>1 DEF Succeeded
    <3>3. \A x \in Call : PublishedBy(x)' <=> PublishedBy(x)
      BY <2>1 DEF PublishedBy
    <3>4. NoRec(c) \in CallRec /\ NoRec(c).phase # "outcome" /\ Logged(log, log', NoRec(c))
      BY <1>0, <2>1, NoRecFacts
    <3>5. /\ pc[c] \in Told => (PublishedBy(c)' <=> PublishedBy(c))
          /\ \A x \in Call \ {c} : PublishedBy(x)' <=> PublishedBy(x)
          /\ result'[c] \in Succeeded /\ PublishedBy(c)'
      BY <2>3, <3>1, <3>2, <3>3
    <3> QED BY <2>1, <2>4, <3>2, <3>4, <3>5, OutcomeMoves
  <2> QED BY <2>2, <2>3
<1>12. ASSUME NEW c \in Call, Approve(c), UNCHANGED shellVars PROVE OutcomeInv'
  <2>1. /\ pc[c] = "found" /\ \E s \in {"approved", "finishing"} : pc' = [pc EXCEPT ![c] = s]
        /\ UNCHANGED <<token, published, log, result>>
        /\ err' = err \/ \E e : err' = [err EXCEPT ![c] = e] /\ (e = "Cancelled" => c \in token)
    BY <1>12 DEF Approve, Goto, Fail, boundaryVars
  <2> QED BY <1>0, <2>1, OutcomeBefore DEF Told
<1>13. ASSUME NEW c \in Call, NEW from \in {"intended", "approved"}, NEW to \in {"found", "cleared"},
              FindGrant(c, from, to, GrantsOf(c)), UNCHANGED shellVars
       PROVE  OutcomeInv'
  <2>1. FindError(GrantsOf(c), target[c]) # "Cancelled"
    BY DEF FindError
  <2>2. /\ pc[c] = from /\ \E s \in {to, "finishing"} : pc' = [pc EXCEPT ![c] = s]
        /\ UNCHANGED <<token, published, log, result>>
        /\ err' = err \/ \E e : err' = [err EXCEPT ![c] = e] /\ (e = "Cancelled" => c \in token)
    BY <1>13, <2>1 DEF FindGrant, Goto, Fail
  <2> QED BY <1>0, <2>2, OutcomeBefore DEF Told
<1>14. ASSUME NEW c \in Call, Intend(c), UNCHANGED shellVars PROVE OutcomeInv'
  <2> DEFINE rec == Rec(c, "intent", "none")
  <2>1. rec \in CallRec /\ rec.phase # "outcome"
    BY DEF Rec, CallRec
  <2>2. /\ pc[c] = "gate" /\ \E s \in {"intended", "returning"} : pc' = [pc EXCEPT ![c] = s]
        /\ UNCHANGED <<token, published, result>>
        /\ err' = err \/ \E e : err' = [err EXCEPT ![c] = e] /\ (e = "Cancelled" => c \in token)
    BY <1>14 DEF Intend, Goto
  <2>3. log' = log \/ log' = AppendDone(log, rec).log \/ \E r \in AppendFailures(log, rec) : log' = r.log
    BY <1>14 DEF Intend
  <2> HIDE DEF rec
  <2>4. Logged(log, log', rec)
    <3>1. log' = log => Logged(log, log', rec)
      BY <1>0 DEF Logged
    <3> QED BY <1>0, <2>1, <2>3, <3>1, AppendFacts
  <2>5. \A x \in Call : PublishedBy(x)' <=> PublishedBy(x)
    BY <2>2 DEF PublishedBy
  <2>6. ~PublishedBy(c) /\ result[c] \notin Succeeded
    BY <1>0, <2>2 DEF OutcomeInv, ResultIsTrue
  <2> QED BY <2>1, <2>2, <2>4, <2>5, <2>6, OutcomeMoves DEF Told
<1>15. ASSUME NEW c \in Call, Finish(c), UNCHANGED shellVars PROVE OutcomeInv'
  <2> DEFINE rec == Rec(c, "outcome", OutcomeOf(err[c]))
  <2>0. /\ OutcomeOf(err[c]) \in {"cancelled", "refused", "failed"}
        /\ OutcomeOf(err[c]) = "cancelled" => err[c] = "Cancelled"
    BY DEF OutcomeOf
  <2>1. rec \in CallRec /\ rec.attempt = c /\ rec.outcome # "success" /\ (rec.outcome = "cancelled" => c \in token)
    BY <2>0 DEF Rec, CallRec, OutcomeInv, OutcomeTypes
  <2>2. /\ pc[c] = "finishing" /\ pc' = [pc EXCEPT ![c] = "returning"]
        /\ UNCHANGED <<token, published, result, err>>
    BY <1>15 DEF Finish, Goto
  <2>3. log' = AppendDone(log, rec).log \/ \E r \in AppendFailures(log, rec) : log' = r.log
    BY <1>15 DEF Finish
  <2> HIDE DEF rec
  <2>4. Logged(log, log', rec)
    BY <1>0, <2>1, <2>3, AppendFacts
  <2>5. \A x \in Call : PublishedBy(x)' <=> PublishedBy(x)
    BY <2>2 DEF PublishedBy
  <2>6. ~PublishedBy(c) /\ result[c] \notin Succeeded
    BY <1>0, <2>2 DEF OutcomeInv, ResultIsTrue
  <2> QED BY <2>1, <2>2, <2>4, <2>5, <2>6, OutcomeMoves DEF Told
<1>16. ASSUME NEW c \in Call, RecordSuccess(c), UNCHANGED shellVars PROVE OutcomeInv'
  <2> DEFINE rec == Rec(c, "outcome", "success")
  <2>1. rec \in CallRec /\ rec.attempt = c /\ rec.outcome = "success"
    BY DEF Rec, CallRec
  <2>2. /\ pc[c] = "renamed" /\ pc' = [pc EXCEPT ![c] = "returning"]
        /\ UNCHANGED <<token, published, err>>
        /\ \E v \in Succeeded : result' = [result EXCEPT ![c] = v]
    BY <1>16 DEF RecordSuccess, Goto, Succeeded
  <2>3. log' = AppendDone(log, rec).log \/ \E r \in AppendFailures(log, rec) : log' = r.log
    BY <1>16 DEF RecordSuccess
  <2> HIDE DEF rec
  <2>4. Logged(log, log', rec)
    BY <1>0, <2>1, <2>3, AppendFacts
  <2>5. \A x \in Call : PublishedBy(x)' <=> PublishedBy(x)
    BY <2>2 DEF PublishedBy
  <2>6. PublishedBy(c) /\ result'[c] \in Succeeded
    BY <1>0, <2>2 DEF OutcomeInv, OutcomeTypes
  <2> QED BY <2>1, <2>2, <2>4, <2>5, <2>6, OutcomeMoves DEF Told
<1>17. ASSUME NEW c \in Call, PipelineStep(c), UNCHANGED boundaryVars, UNCHANGED shellVars PROVE OutcomeInv'
  <2>1. UNCHANGED <<log, result>>
    BY <1>17 DEF boundaryVars
  <2>2. PipeFrame(c) /\ PipeTypes
    BY <1>17, PipelineTypes DEF Types
  <2>3. PICK s \in Onward : pc' = [pc EXCEPT ![c] = s]
    BY <2>2 DEF PipeFrame
  <2>4. pc[c] \notin Told /\ s \notin {"returning", "ended"} /\ UNCHANGED token /\ ~PublishedBy(c)
    BY <1>0, <2>2, <2>3 DEF PipeFrame, Onward, InPipeline, Told
  <2>5. err' = err \/ \E e : err' = [err EXCEPT ![c] = e] /\ (e = "Cancelled" => c \in token)
    BY <1>17, PipelineErrors
  <2>6. CASE UNCHANGED published
    BY <1>0, <2>1, <2>3, <2>4, <2>5, <2>6, OutcomeBefore
  <2>7. CASE \A x \in Call : PublishedBy(x)' <=> PublishedBy(x) \/ x = c
    <3>1. NoRec(c) \in CallRec /\ NoRec(c).phase # "outcome" /\ Logged(log, log', NoRec(c))
      BY <1>0, <2>1, NoRecFacts
    <3>2. PublishedBy(c)' /\ \A x \in Call \ {c} : PublishedBy(x)' <=> PublishedBy(x)
      BY <2>7
    <3> QED BY <2>1, <2>3, <2>4, <2>5, <3>1, <3>2, OutcomeMoves
  <2> QED BY <1>17, <2>2, <2>6, <2>7, RenamePublishes
<1>18. ASSUME NEW c \in Call, CliEnds(c) PROVE OutcomeInv'
  <2>1. pc' = [pc EXCEPT ![c] = "dead"] /\ UNCHANGED <<token, published, err, log, result>>
    BY <1>18 DEF CliEnds, Goto
  <2>2. \A x \in Call : PublishedBy(x)' <=> PublishedBy(x)
    BY <2>1 DEF PublishedBy
  <2>3. NoRec(c) \in CallRec /\ NoRec(c).phase # "outcome" /\ Logged(log, log', NoRec(c))
    BY <1>0, <2>1, NoRecFacts
  <2>4. /\ result'[c] \in Succeeded => PublishedBy(c)'
        /\ "dead" \in Told /\ "dead" \notin {"returning", "ended"}
    BY <2>1, <2>2 DEF OutcomeInv, ResultIsTrue, Told
  <2> QED BY <2>1, <2>2, <2>3, <2>4, OutcomeMoves
<1>19. ASSUME NEW early \in BOOLEAN, ProcessEnds(early) PROVE OutcomeInv'
  <2>1. /\ \A c \in Call : pc'[c] = pc[c] \/ (pc'[c] = "dead" /\ pc[c] \notin {"idle", "ended"})
        /\ UNCHANGED <<token, published, err, log, result>>
    BY <1>19 DEF ProcessEnds
  <2>2. \A x \in Call : PublishedBy(x)' <=> PublishedBy(x)
    BY <2>1 DEF PublishedBy
  <2>3. OutcomeTypes' /\ LogTypes'
    BY <2>1 DEF OutcomeInv, OutcomeTypes, LogTypes
  <2>4. ResultIsTrue'
    BY <2>1, <2>2 DEF OutcomeInv, ResultIsTrue
  <2>5. LogIsTrue'
    <3>1. \A r \in CallRec : r.attempt \in Call
      BY DEF CallRec
    <3> QED BY <2>1, <2>2, <3>1 DEF OutcomeInv, LogIsTrue, InFile, Told
  <2> QED BY <2>3, <2>4, <2>5 DEF OutcomeInv
<1>20. ASSUME NEW c \in Call, CallStep(c) PROVE OutcomeInv'
  BY <1>8, <1>9, <1>11, <1>12, <1>13, <1>14, <1>15, <1>16, <1>17, <1>20 DEF CallStep, BoundaryStep
<1> QED BY <1>1, <1>2, <1>3, <1>4, <1>5, <1>6, <1>10, <1>18, <1>19, <1>20 DEF Next
-----------------------------------------------------------------------------
(* The invariant.                                                           *)

PublishInv == Types /\ RegistryInv /\ GrantInv /\ BundleInv /\ OutcomeInv

\* It holds before anybody prepares or publishes.
LEMMA Start == Init => PublishInv
<1> SUFFICES ASSUME Init PROVE PublishInv
  OBVIOUS
<1>1. \A c \in Call : ~PublishedBy(c)
  BY DEF Init, PublishedBy, NoBundle
<1>2. Types
  <2>1. (CHOOSE d \in Dest : TRUE) \in Dest
    BY NamesAssumption
  <2>2. "idle" \in Place /\ NoBundle \in Published
    BY DEF Place, Published
  <2>3. PipeTypes
    BY <2>1, <2>2, NoStagingFacts DEF Init, PipeTypes
  <2>4. GrantTypes
    BY DEF Init, GrantTypes
  <2>5. ShellTypes
    BY <2>1 DEF Init, ShellTypes
  <2> QED BY <2>3, <2>4, <2>5 DEF Types
<1>3. RegistryInv
  <2>1. CallsAreRegistered
    BY DEF Init, CallsAreRegistered, Active, Cli
  <2>2. RegisteredIsPrompted
    BY DEF Init, RegisteredIsPrompted
  <2>3. DrainIsWaitedFor
    BY DEF Init, DrainIsWaitedFor
  <2> QED BY <2>1, <2>2, <2>3 DEF RegistryInv
<1>4. GrantInv
  <2>1. KeeperFindsNothing
    BY NamesAssumption DEF Init, KeeperFindsNothing
  <2>2. GrantsWereMinted
    BY <1>1 DEF Init, GrantsWereMinted
  <2>3. GrantsAreInOnePlace
    BY DEF Init, GrantsAreInOnePlace
  <2>4. PublishingIsGranted
    BY DEF Init, PublishingIsGranted, Granted, InPipeline
  <2> QED BY <2>1, <2>2, <2>3, <2>4 DEF GrantInv
<1>5. BundleInv
  BY <1>1, NoStagingFacts DEF Init, BundleInv, StagedIsGranted, StagedIsWhole, RenamedIsPublished
<1>6. OutcomeInv
  <2>1. LogTypes /\ log.live = <<>>
    BY DEF Init, LogTypes, LogFiles, EmptyLog, NoFile
  <2>2. OutcomeTypes /\ ResultIsTrue
    BY <1>1 DEF Init, OutcomeTypes, ResultIsTrue, Succeeded
  <2>3. LogIsTrue
    BY <2>1 DEF LogIsTrue, InFile
  <2> QED BY <2>1, <2>2, <2>3 DEF OutcomeInv
<1> QED BY <1>2, <1>3, <1>4, <1>5, <1>6 DEF PublishInv

\* Every step keeps it: each layer from the ones before it.
LEMMA Step == ASSUME PublishInv, [Next]_vars PROVE PublishInv'
<1>1. Types /\ RegistryInv /\ GrantInv /\ BundleInv /\ OutcomeInv /\ RenamedIsPublished
  BY DEF PublishInv, BundleInv
<1>2. Types'
  BY <1>1, TypeStep
<1>3. RegistryInv'
  BY <1>1, <1>2, RegistryStep
<1>4. GrantInv'
  BY <1>1, <1>2, GrantStep
<1>5. BundleInv'
  BY <1>1, <1>2, BundleStep
<1>6. OutcomeInv'
  BY <1>1, <1>2, OutcomeStep
<1> QED BY <1>2, <1>3, <1>4, <1>5, <1>6 DEF PublishInv

\* The layers hold in every state of publishing.
THEOREM PublishTypes == Spec => []PublishInv
<1>1. Init => PublishInv
  BY Start
<1>2. PublishInv /\ [Next]_vars => PublishInv'
  BY Step
<1> QED BY <1>1, <1>2, PTL DEF Spec

\* publish.rs, I2: nobody publishes with the grants' mutex held.
THEOREM GuardCorrect == Spec => []GuardNotHeldWhilePublishing
<1>1. PublishInv => GuardNotHeldWhilePublishing
  BY DEF PublishInv, GrantInv, KeeperFindsNothing, Keeping, GuardNotHeldWhilePublishing, InPipeline
<1> QED BY <1>1, PublishTypes, PTL

\* A staging directory is a running publish's, a dead one's that no drain waited for, or
\* one whose caller was told that it stays.
THEOREM StagingCorrect == Spec => []StagingIsAccountedFor
<1>1. PublishInv => StagingIsAccountedFor
  <2> SUFFICES ASSUME PublishInv, NEW c \in Call, staging[c].there
               PROVE  /\ c \in accepted
                      /\ target[c] \in used[c].scope
                      /\ pc[c] \in InPipeline \/ pc[c] = "dead" \/ ErrorKind(c) = "StagingNotRemoved"
                      /\ pc[c] = "dead" => ~(exit = "gone" /\ drained /\ c \in drainSet)
    BY DEF StagingIsAccountedFor
  <2>1. /\ pc[c] \in InStaging \cup {"dead"} \/ c \in unremoved
        /\ c \in accepted /\ target[c] \in used[c].scope
    BY DEF PublishInv, BundleInv, StagedIsGranted
  <2>2. pc[c] \in InPipeline \/ pc[c] = "dead" \/ ErrorKind(c) = "StagingNotRemoved"
    BY <2>1 DEF InStaging, ErrorKind
  <2>3. pc[c] = "dead" => ~(exit = "gone" /\ drained /\ c \in drainSet)
    BY DEF PublishInv, RegistryInv, DrainIsWaitedFor
  <2> QED BY <2>1, <2>2, <2>3
<1> QED BY <1>1, PublishTypes, PTL

\* What the caller is told, and what the audit log says, is what happened on disk.
THEOREM OutcomeCorrect == Spec => []OutcomeIsTrue
<1>1. PublishInv => OutcomeIsTrue
  <2> SUFFICES ASSUME PublishInv, NEW c \in Call
               PROVE  /\ result[c] \in {"Success", "SucceededUnaudited"} => PublishedBy(c)
                      /\ pc[c] = "ended" /\ PublishedBy(c) =>
                             result[c] \in {"Success", "SucceededUnaudited"}
                      /\ \A i \in DOMAIN log.live : \A k \in DOMAIN log.live[i].recs :
                             LET rec == log.live[i].recs[k] IN
                             rec.attempt = c /\ rec.phase = "outcome" =>
                                 /\ (rec.outcome = "success") = PublishedBy(c)
                                 /\ rec.outcome = "cancelled" => c \in token
    BY DEF OutcomeIsTrue
  <2>1. /\ result[c] \in {"Success", "SucceededUnaudited"} => PublishedBy(c)
        /\ pc[c] = "ended" /\ PublishedBy(c) => result[c] \in {"Success", "SucceededUnaudited"}
    BY DEF PublishInv, OutcomeInv, ResultIsTrue, Succeeded
  <2>2. ASSUME NEW i \in DOMAIN log.live, NEW k \in DOMAIN log.live[i].recs, NEW rec, rec = log.live[i].recs[k],
               rec.attempt = c, rec.phase = "outcome"
        PROVE  (rec.outcome = "success") = PublishedBy(c) /\ (rec.outcome = "cancelled" => c \in token)
    <3>1. log.live \in Seq(FileLine)
      BY DEF PublishInv, OutcomeInv, LogTypes, LogFiles
    <3>2. log.live[i] \in FileLine
      BY <3>1
    <3>3. rec \in CallRec
      BY <2>2, <3>2 DEF FileLine
    <3>4. InFile(log.live, rec)
      BY <2>2 DEF InFile
    <3>5. (rec.outcome = "success" <=> PublishedBy(c)) /\ (rec.outcome = "cancelled" => c \in token)
      BY <2>2, <3>3, <3>4 DEF PublishInv, OutcomeInv, LogIsTrue
    <3>6. PublishedBy(c) \in BOOLEAN
      BY DEF PublishedBy
    <3> QED BY <3>5, <3>6
  <2> QED BY <2>1, <2>2
<1> QED BY <1>1, PublishTypes, PTL
-----------------------------------------------------------------------------
(* PublishOnce.                                                             *)

Usable == grants \cup UNION {authority[c] : c \in {x \in Call : ~PublishedBy(x)}}
Spent == {used[c] : c \in {x \in Call : PublishedBy(x)}}

\* The four steps of PublishOnce, in this module's variables.
OnceLapse == Usable' \subseteq Usable /\ UNCHANGED <<published, accepted, Spent>>
OnceGrant(g) == g \notin Spent /\ Usable' \subseteq Usable \cup {g} /\ UNCHANGED <<published, accepted, Spent>>
OnceRecord(c) == accepted' = accepted \cup {c} /\ UNCHANGED <<published, Usable, Spent>>
OncePublish(c, d, g) ==
    /\ c \in accepted /\ g \in Usable /\ d \in g.scope /\ ~published[d].there
    /\ published'[d].there /\ published'[d].by = c /\ published'[d].parts = Part /\ published'[d].clean
    /\ \A e \in Dest \ {d} : published'[e] = published[e]
    /\ DOMAIN published' = Dest
    /\ Usable' = Usable \ {g} /\ Spent' = Spent \cup {g} /\ UNCHANGED accepted

\* Each of them is a step of PublishOnce.
LEMMA OnceSteps ==
  /\ OnceLapse => Once!Next
  /\ \A g : OnceGrant(g) => Once!Next
  /\ \A c \in Call : OnceRecord(c) => Once!Next
  /\ \A c \in Call, d \in Dest : \A g : OncePublish(c, d, g) => Once!Next
<1>1. OnceLapse => Once!Next
  BY DEF OnceLapse, Once!Next, Once!Lapse, Usable, Spent
<1>2. ASSUME NEW g, OnceGrant(g) PROVE Once!Next
  <2>1. CASE g \in Usable \/ g \notin Usable'
    <3>1. OnceLapse
      BY <1>2, <2>1 DEF OnceGrant, OnceLapse
    <3> QED BY <1>1, <3>1
  <2>2. CASE g \in Usable' \ Usable
    BY <1>2, <2>2 DEF OnceGrant, Once!Next, Once!Grant, Usable, Spent
  <2> QED BY <2>1, <2>2
<1>3. ASSUME NEW c \in Call, OnceRecord(c) PROVE Once!Next
  <2>1. CASE c \in accepted
    <3>1. OnceLapse
      BY <1>3, <2>1 DEF OnceRecord, OnceLapse
    <3> QED BY <1>1, <3>1
  <2>2. CASE c \notin accepted
    BY <1>3, <2>2 DEF OnceRecord, Once!Next, Once!Record, Usable, Spent
  <2> QED BY <2>1, <2>2
<1>4. ASSUME NEW c \in Call, NEW d \in Dest, NEW g, OncePublish(c, d, g) PROVE Once!Next
  BY <1>4 DEF OncePublish, Once!Next, Once!Publish, Usable, Spent
<1> QED BY <1>1, <1>2, <1>3, <1>4

\* A step that mints nothing and publishes nothing lets grants lapse.
LEMMA Lapses ==
  ASSUME grants' \subseteq grants, \A c \in Call : authority'[c] \subseteq authority[c] \cup grants,
         \A c \in Call : PublishedBy(c) => used'[c] = used[c],
         UNCHANGED published
  PROVE  Usable' \subseteq Usable /\ Spent' = Spent
<1>1. \A c \in Call : PublishedBy(c)' <=> PublishedBy(c)
  BY DEF PublishedBy
<1>2. Usable' \subseteq Usable
  BY <1>1 DEF Usable
<1>3. Spent' = Spent
  BY <1>1 DEF Spent
<1> QED BY <1>2, <1>3

\* A rename is the publish: its call's one grant is nobody else's.
LEMMA RenameIsPublish ==
  ASSUME PublishInv, NEW c \in Call, UNCHANGED <<grants, authority, used, accepted>>,
         pc[c] = "renaming", ~Occupied(target[c]), published' = [published EXCEPT ![target[c]] = Bundle(c)],
         \A x \in Call : PublishedBy(x)' <=> PublishedBy(x) \/ x = c
  PROVE  OncePublish(c, target[c], used[c])
<1>1. /\ target[c] \in Dest /\ Bundle(c).there /\ Bundle(c).by = c /\ ~published[target[c]].there
      /\ Bundle(c).parts = staging[c].parts /\ Bundle(c).clean = staging[c].clean
  BY DEF PublishInv, Types, PipeTypes, Bundle, Occupied
<1>2. /\ published'[target[c]] = Bundle(c) /\ DOMAIN published' = Dest
      /\ \A e \in Dest \ {target[c]} : published'[e] = published[e]
  BY <1>1 DEF PublishInv, Types, PipeTypes
<1>3. c \in accepted /\ used[c] \in authority[c] /\ target[c] \in used[c].scope
  BY DEF PublishInv, GrantInv, PublishingIsGranted, Granted, InPipeline
<1>4. staging[c].clean /\ staging[c].parts = Part
  BY DEF PublishInv, BundleInv, StagedIsWhole
<1>5. ~PublishedBy(c)
  BY DEF PublishInv, BundleInv, RenamedIsPublished
<1>6. /\ authority[c] = {used[c]} /\ used[c] \notin grants
      /\ \A x \in Call \ {c} : used[c] \notin authority[x]
  BY <1>3 DEF PublishInv, GrantInv, GrantsAreInOnePlace
<1>7. used[c] \in Usable
  BY <1>3, <1>5 DEF Usable
<1>8. Usable' = Usable \ {used[c]}
  <2>1. \A h : h \in Usable' <=> h \in grants \/ \E x \in Call : ~PublishedBy(x) /\ x # c /\ h \in authority[x]
    BY DEF Usable
  <2>2. \A h : h \in Usable <=> h \in grants \/ \E x \in Call : ~PublishedBy(x) /\ h \in authority[x]
    BY DEF Usable
  <2> QED BY <1>6, <2>1, <2>2
<1>9. Spent' = Spent \cup {used[c]}
  BY DEF Spent
<1> QED BY <1>1, <1>2, <1>3, <1>4, <1>7, <1>8, <1>9 DEF OncePublish

\* Every step is a step of PublishOnce.
LEMMA OnceStep == ASSUME PublishInv, [Next]_vars PROVE Once!Next
<1>0. /\ \A c \in Call : PublishedBy(c) => pc[c] \in {"renamed", "returning", "ended", "dead"}
      /\ authority \in [Call -> SUBSET GrantRec] /\ used \in [Call -> GrantRec \cup {NoGrant}]
      /\ pc \in [Call -> Place]
  BY DEF PublishInv, BundleInv, RenamedIsPublished, Types, PipeTypes, GrantTypes
<1>q. ASSUME UNCHANGED <<grants, authority, used, published, accepted>> PROVE Once!Next
  <2>1. OnceLapse
    BY <1>q, Lapses DEF OnceLapse
  <2> QED BY <2>1, OnceSteps
<1>l. ASSUME grants' \subseteq grants, \A c \in Call : authority'[c] \subseteq authority[c] \cup grants,
             UNCHANGED <<used, published, accepted>>
      PROVE  Once!Next
  <2>1. OnceLapse
    BY <1>l, Lapses DEF OnceLapse
  <2> QED BY <2>1, OnceSteps
<1>1. CASE \/ UNCHANGED vars \/ (Tick /\ UNCHANGED shellVars)
           \/ ChangeSource /\ UNCHANGED <<boundaryVars, shellVars>>
  BY <1>1, <1>q DEF Tick, ChangeSource, vars, pipeVars, boundaryVars, shellVars
<1>2. ASSUME NEW a \in Attempt, NEW d \in Dest, PrepareStart(a, d) PROVE Once!Next
  BY <1>2, <1>q DEF PrepareStart, pipeVars, boundaryVars
<1>3. ASSUME NEW a \in Attempt, PrepareRefused(a) \/ PrepareStore(a) \/ Cancel(a) PROVE Once!Next
  BY <1>3, <1>q DEF PrepareRefused, PrepareStore, Cancel, callVars, boundaryVars, shellVars
<1>4. ASSUME NEW c \in Call, CtrlC(c) PROVE Once!Next
  BY <1>4, <1>q DEF CtrlC, boundaryVars, shellVars
<1>5. CASE ExitRequested \/ ExitDrain \/ WaitIdle \/ Restart
  BY <1>5, <1>q DEF ExitRequested, ExitDrain, WaitIdle, Restart, pipeVars, callVars, boundaryVars
<1>6. ASSUME NEW c \in Call, NEW a \in Attempt, ExecuteStart(c, a) PROVE Once!Next
  BY <1>6, <1>q DEF ExecuteStart
<1>7. ASSUME NEW c \in Call, Take(c) PROVE Once!Next
  BY <1>7, <1>q DEF Take
<1>8. ASSUME NEW a \in Attempt, PrepareGrant(a) PROVE Once!Next
  <2> DEFINE g == [id |-> a, scope |-> {picked[a]}, at |-> now, life |-> AttemptTtl]
  <2>1. /\ prep[a] = "running" /\ grants' \subseteq grants \cup {g}
        /\ UNCHANGED <<authority, used, accepted, published>>
    BY <1>8 DEF PrepareGrant, PruneExpired, pipeVars, boundaryVars
  <2>2. g.id = a
    OBVIOUS
  <2> HIDE DEF g
  <2>3. \A c \in Call : PublishedBy(c)' <=> PublishedBy(c)
    BY <2>1 DEF PublishedBy
  <2>4. \A c \in Call : PublishedBy(c) => used[c].id # a
    BY <2>1, NamesAssumption DEF PublishInv, GrantInv, GrantsWereMinted, MintedFor
  <2>5. g \notin Spent
    BY <2>2, <2>4 DEF Spent
  <2>6. Usable' \subseteq Usable \cup {g} /\ Spent' = Spent
    BY <2>1, <2>3 DEF Usable, Spent
  <2>7. OnceGrant(g)
    BY <2>1, <2>5, <2>6 DEF OnceGrant
  <2> QED BY <2>7, OnceSteps
<1>9. ASSUME NEW c \in Call, ConsumeGrant(c) PROVE Once!Next
  BY <1>9, <1>l DEF ConsumeGrant, RemoveMatching, boundaryVars
<1>10. ASSUME NEW c \in Call, Authorise(c) PROVE Once!Next
  <2>1. grants' \subseteq grants /\ UNCHANGED <<used, published, accepted>>
    BY <1>10 DEF Authorise, RemoveMatching
  <2>2. \A x \in Call : authority'[x] \subseteq authority[x] \cup grants
    BY <1>0, <1>10 DEF Authorise, Find, Matching
  <2> QED BY <1>l, <2>1, <2>2
<1>11. ASSUME NEW c \in Call, Return(c) PROVE Once!Next
  BY <1>0, <1>11, <1>l DEF Return, RemoveMatching
<1>12. ASSUME NEW c \in Call, CliEnds(c) PROVE Once!Next
  BY <1>0, <1>12, <1>l DEF CliEnds, shellVars
<1>13. ASSUME NEW early \in BOOLEAN, ProcessEnds(early) PROVE Once!Next
  BY <1>13, <1>l DEF ProcessEnds
<1>14. ASSUME NEW c \in Call, NEW d \in Dest, NEW s \in SUBSET Dest, CliStart(c, d, s) PROVE Once!Next
  <2> DEFINE g == [id |-> c, scope |-> s, at |-> now, life |-> AttemptTtl]
  <2>1. /\ pc[c] = "idle" /\ authority' = [authority EXCEPT ![c] = {g}]
        /\ UNCHANGED <<grants, used, accepted, published>>
    BY <1>14 DEF CliStart
  <2>2. g.id = c
    OBVIOUS
  <2> HIDE DEF g
  <2>3. \A x \in Call : PublishedBy(x)' <=> PublishedBy(x)
    BY <2>1 DEF PublishedBy
  <2>4. \A x \in Call : PublishedBy(x) => used[x].id # c
    BY <2>1, NamesAssumption DEF PublishInv, GrantInv, GrantsWereMinted, MintedFor
  <2>5. g \notin Spent
    BY <2>2, <2>4 DEF Spent
  <2>6. Usable' \subseteq Usable \cup {g} /\ Spent' = Spent
    BY <1>0, <2>1, <2>3 DEF Usable, Spent
  <2>7. OnceGrant(g)
    BY <2>1, <2>5, <2>6 DEF OnceGrant
  <2> QED BY <2>7, OnceSteps
<1>15. ASSUME NEW c \in Call, Intend(c), UNCHANGED shellVars PROVE Once!Next
  <2>1. UNCHANGED <<grants, authority, used, published>> /\ accepted' \in {accepted, accepted \cup {c}}
    BY <1>15 DEF Intend, shellVars
  <2>2. CASE accepted' = accepted
    BY <1>q, <2>1, <2>2
  <2>3. CASE accepted' = accepted \cup {c}
    <3>1. Usable' = Usable /\ Spent' = Spent
      BY <2>1 DEF Usable, Spent, PublishedBy
    <3>2. OnceRecord(c)
      BY <2>1, <2>3, <3>1 DEF OnceRecord
    <3> QED BY <3>2, OnceSteps
  <2> QED BY <2>1, <2>2, <2>3
<1>16. ASSUME NEW c \in Call, Approve(c) \/ Finish(c) \/ RecordSuccess(c), UNCHANGED shellVars PROVE Once!Next
  BY <1>16, <1>q DEF Approve, Finish, RecordSuccess, boundaryVars, shellVars
<1>17. ASSUME NEW c \in Call, NEW from \in {"intended", "approved"}, NEW to, NEW gs,
              FindGrant(c, from, to, gs), UNCHANGED shellVars
       PROVE  Once!Next
  <2>1. /\ pc[c] = from /\ UNCHANGED <<grants, authority, published, accepted>>
        /\ used' = used \/ \E g : used' = [used EXCEPT ![c] = g]
    BY <1>17 DEF FindGrant, shellVars
  <2>2. \A x \in Call : PublishedBy(x) => used'[x] = used[x]
    BY <1>0, <2>1
  <2>3. OnceLapse
    BY <2>1, <2>2, Lapses DEF OnceLapse
  <2> QED BY <2>3, OnceSteps
<1>18. ASSUME NEW c \in Call, PipelineStep(c), UNCHANGED boundaryVars, UNCHANGED shellVars PROVE Once!Next
  <2>1. UNCHANGED <<grants, authority, used, accepted>> /\ PipeTypes
    BY <1>18 DEF boundaryVars, shellVars, PublishInv, Types
  <2>2. CASE UNCHANGED published
    BY <1>q, <2>1, <2>2
  <2>3. CASE /\ pc[c] = "renaming" /\ ~Occupied(target[c])
             /\ published' = [published EXCEPT ![target[c]] = Bundle(c)]
             /\ \A x \in Call : PublishedBy(x)' <=> PublishedBy(x) \/ x = c
    <3>1. OncePublish(c, target[c], used[c]) /\ target[c] \in Dest
      BY <2>1, <2>3, RenameIsPublish DEF PipeTypes
    <3> QED BY <3>1, OnceSteps
  <2> QED BY <1>18, <2>1, <2>2, <2>3, RenamePublishes
<1>19. ASSUME NEW c \in Call, CallStep(c) PROVE Once!Next
  BY <1>7, <1>9, <1>10, <1>11, <1>15, <1>16, <1>17, <1>18, <1>19 DEF CallStep, BoundaryStep
<1> QED BY <1>1, <1>2, <1>3, <1>4, <1>5, <1>6, <1>8, <1>12, <1>13, <1>14, <1>19 DEF Next

\* Publishing implements PublishOnce: a bundle appears in one step, whole, at a free
\* destination, after its intent was recorded and under a grant for it that no other publish
\* used or can use, whatever runs at the same time and wherever the process ends.
THEOREM PublishesOnceCorrect == Spec => PublishesOnce
<1>1. Init => Once!Init
  <2> SUFFICES ASSUME Init PROVE Once!Init
    OBVIOUS
  <2>1. \A c \in Call : ~PublishedBy(c)
    BY DEF Init, PublishedBy, NoBundle
  <2> QED BY <2>1 DEF Init, Once!Init, NoBundle
<1>2. PublishInv /\ [Next]_vars => Once!Next
  BY OnceStep
<1> QED BY <1>1, <1>2, PublishTypes, PTL DEF Spec, PublishesOnce, Once!Spec
=============================================================================
