----------------------------- MODULE ShellPublish ------------------------------
(***************************************************************************)
(* Publishing from the desktop shell (frontends/shell/src-tauri: publish.rs,*)
(* commands.rs, lib.rs) and from the publish-bundle command, through the   *)
(* permission boundary, to one file system and one audit log.              *)
(*                                                                         *)
(* A prepare mints an attempt's grant and stores the attempt; an execute   *)
(* takes it, and runs the boundary on the grant it found or, when it found *)
(* none, on the shared set with its mutex held.  Closing the last window   *)
(* cancels what is registered and waits for it, up to a ceiling.  The      *)
(* process may end at any step, and start again.                           *)
(***************************************************************************)
EXTENDS PublishBoundary

CONSTANTS Attempt,     \* attempt ids, one per prepare
          AttemptTtl,  \* PENDING_ATTEMPT_TTL, the lifetime of an attempt and its grant
          MaxGrants,   \* MAX_GRANTS
          MaxCli,      \* bound: publishes by publish-bundle
          MaxRestarts  \* bound: the process starts again

ASSUME TtlAssumption == AttemptTtl \in Nat
ASSUME GrantsAssumption == MaxGrants \in Nat \ {0}
\* Ids are minted at random and are not the fixed keys; a call of publish-bundle has a
\* grant id of its own.
ASSUME NamesAssumption ==
    /\ Dest # {} /\ "free" \notin Call
    /\ Attempt \cap ({"none", "cli", "prepare"} \cup Call) = {}

VARIABLES prep,      \* where each prepare is
          picked,    \* the destination its picker returned
          pending,   \* PendingAttempts: [id, at]
          grants,    \* the shared GrantSet
          held,      \* the call that holds its mutex through the boundary, or "free"
          attempt,   \* the attempt each call executes, or "cli"
          running,   \* RunningPublishes: the attempt ids and "prepare"
          exit,      \* "none", "asked", "draining", "leaving" or "gone"
          drainSet,  \* the calls registered when the drain began
          drained,   \* the exit followed an empty registry, not the ceiling
          restarts

shellVars == <<prep, picked, pending, grants, held, attempt, running, exit, drainSet,
               drained, restarts>>
vars == <<pipeVars, boundaryVars, shellVars>>
callVars == <<pc, err, target, token, staging, unremoved, published, source>>

Up == exit # "gone"
LockFree == held = "free"
Cli(c) == attempt[c] = "cli"
GrantsOf(c) == IF held = c THEN grants ELSE authority[c]

Init ==
    /\ pc = [c \in Call |-> "idle"]
    /\ err = [c \in Call |-> "none"]
    /\ target \in [Call -> {CHOOSE d \in Dest : TRUE}]
    /\ token = {}
    /\ staging = [c \in Call |-> NoStaging]
    /\ unremoved = {}
    /\ published = [d \in Dest |-> NoBundle]
    /\ source = "pinned"
    /\ authority = [c \in Call |-> {}]
    /\ used = [c \in Call |-> NoGrant]
    /\ log = EmptyLog
    /\ accepted = {}
    /\ result = [c \in Call |-> "none"]
    /\ now = 0
    /\ upsets = 0
    /\ prep = [a \in Attempt |-> "new"]
    /\ picked = [a \in Attempt |-> CHOOSE d \in Dest : TRUE]
    /\ pending = {}
    /\ grants = {}
    /\ held = "free"
    /\ attempt = [c \in Call |-> "none"]
    /\ running = {}
    /\ exit = "none"
    /\ drainSet = {}
    /\ drained = FALSE
    /\ restarts = 0

-----------------------------------------------------------------------------
\* binding_publish_prepare.  The picker returns a destination, the prepare key is
\* registered (replacing another prepare's) and preflight and pin run.
PrepareStart(a, d) ==
    /\ Up /\ prep[a] = "new"
    /\ prep' = [prep EXCEPT ![a] = "running"]
    /\ picked' = [picked EXCEPT ![a] = d]
    /\ running' = running \cup {"prepare"}
    /\ UNCHANGED <<pipeVars, boundaryVars, pending, grants, held, attempt, exit, drainSet,
                   drained, restarts>>

\* A refusal or a cancelled pin; with_registered_cancel removes the key whoever put it.
PrepareRefused(a) ==
    /\ prep[a] = "running" /\ Upset
    /\ prep' = [prep EXCEPT ![a] = "ended"]
    /\ running' = running \ {"prepare"}
    /\ UNCHANGED <<callVars, boundaryVars, picked, pending, grants, held, attempt, exit,
                   drainSet, drained, restarts>>

\* prepare_with_query: the grant, under the mutex.
PrepareGrant(a) ==
    /\ prep[a] = "running" /\ LockFree
    /\ LET live == PruneExpired(grants)
           g == [id |-> a, scope |-> {picked[a]}, at |-> now, life |-> AttemptTtl]
       IN IF Cardinality(live) >= MaxGrants
          THEN /\ grants' = live
               /\ prep' = [prep EXCEPT ![a] = "ended"]
               /\ running' = running \ {"prepare"}
          ELSE /\ grants' = live \cup {g}
               /\ prep' = [prep EXCEPT ![a] = "granted"]
               /\ UNCHANGED running
    /\ UNCHANGED <<pipeVars, boundaryVars, picked, pending, held, attempt, exit, drainSet,
                   drained, restarts>>

\* The attempt is stored (older ones pruned) and the prompt returned; or no id could be
\* minted, and the grant stays.
PrepareStore(a) ==
    /\ prep[a] = "granted"
    /\ \/ /\ pending' = {p \in pending : now - p.at <= AttemptTtl} \cup {[id |-> a, at |-> now]}
          /\ prep' = [prep EXCEPT ![a] = "prompted"]
          /\ UNCHANGED upsets
       \/ /\ Upset
          /\ prep' = [prep EXCEPT ![a] = "ended"]
          /\ UNCHANGED pending
    /\ running' = running \ {"prepare"}
    /\ UNCHANGED <<callVars, boundaryVars, picked, grants, held, attempt, exit, drainSet,
                   drained, restarts>>

-----------------------------------------------------------------------------
\* binding_publish_execute: run_exclusive registers, or the attempt is already running.
ExecuteStart(c, a) ==
    /\ Up /\ pc[c] = "idle" /\ prep[a] = "prompted"
    /\ attempt' = [attempt EXCEPT ![c] = a]
    /\ IF a \in running
       THEN /\ Goto(c, "ended")
            /\ result' = [result EXCEPT ![c] = "UnknownAttempt"]
            /\ UNCHANGED running
       ELSE /\ Goto(c, "registered")
            /\ running' = running \cup {a}
            /\ UNCHANGED result
    /\ UNCHANGED <<err, target, token, staging, unremoved, published, source, upsets,
                   authority, used, log, accepted, now,
                   prep, picked, pending, grants, held, exit, drainSet, drained, restarts>>

\* AuditLog::open_for, before the boundary is entered.
OpenLog(c, opened, failed) ==
    \E r \in OpenResults(log, upsets < MaxUpsets) :
        /\ log' = r.log
        /\ Goto(c, IF r.ok THEN opened ELSE failed)
        /\ IF r.ok THEN UNCHANGED <<err, upsets>>
                   ELSE Upset /\ err' = [err EXCEPT ![c] = "AuditUnwritable"]

\* PendingAttempts::take, resolve_destination and open_for.  An attempt is known up to
\* its age limit; an audit log that cannot be opened consumes the grant.
Take(c) ==
    /\ pc[c] = "registered"
    /\ LET mine == {p \in pending : p.id = attempt[c]}
           known == \E p \in mine : now - p.at <= AttemptTtl
       IN /\ pending' = pending \ mine
          /\ \/ /\ known
                /\ target' = [target EXCEPT ![c] = picked[attempt[c]]]
                /\ OpenLog(c, "opened", "consuming")
                /\ UNCHANGED result
             \/ /\ known /\ Upset
                /\ Goto(c, "returning")
                /\ UNCHANGED <<err, target, log, result>>
             \/ /\ ~known
                /\ Goto(c, "returning")
                /\ result' = [result EXCEPT ![c] = "UnknownAttempt"]
                /\ UNCHANGED <<err, target, log, upsets>>
    /\ UNCHANGED <<token, staging, unremoved, published, source,
                   authority, used, accepted, now,
                   prep, picked, grants, held, attempt, running, exit, drainSet, drained,
                   restarts>>

ConsumeGrant(c) ==
    /\ pc[c] = "consuming" /\ LockFree
    /\ grants' = RemoveMatching(grants, target[c])
    /\ Goto(c, "returning")
    /\ UNCHANGED <<err, target, token, staging, unremoved, published, source, upsets, boundaryVars,
                   prep, picked, pending, held, attempt, running, exit, drainSet, drained,
                   restarts>>

\* A bug: the copied grant stays in the shared set.
AuthoriseKeepsGrant(c) ==
    /\ pc[c] = "opened" /\ LockFree
    /\ authority' = [authority EXCEPT ![c] = Find(grants, target[c])]
    /\ held' = IF Find(grants, target[c]) = {} THEN c ELSE held
    /\ Goto(c, "gate")
    /\ UNCHANGED <<err, target, token, staging, unremoved, published, source, upsets,
                   used, log, accepted, result, now, grants,
                   prep, picked, pending, attempt, running, exit, drainSet, drained, restarts>>

\* A bug: the boundary always runs on the shared set.
AuthoriseKeepsGuard(c) ==
    /\ pc[c] = "opened" /\ LockFree
    /\ held' = c
    /\ Goto(c, "gate")
    /\ UNCHANGED <<err, target, token, staging, unremoved, published, source, upsets,
                   authority, used, log, accepted, result, now, grants,
                   prep, picked, pending, attempt, running, exit, drainSet, drained, restarts>>

\* One critical section finds the grant, copies it and removes every grant of its scope;
\* when there is none the guard stays held.
Authorise(c) ==
    /\ pc[c] = "opened" /\ LockFree
    /\ \/ \E g \in Find(grants, target[c]) :
             /\ authority' = [authority EXCEPT ![c] = {g}]
             /\ grants' = RemoveMatching(grants, target[c])
             /\ UNCHANGED held
       \/ /\ Find(grants, target[c]) = {}
          /\ held' = c
          /\ UNCHANGED <<authority, grants>>
    /\ Goto(c, "gate")
    /\ UNCHANGED <<err, target, token, staging, unremoved, published, source, upsets,
                   used, log, accepted, result, now,
                   prep, picked, pending, attempt, running, exit, drainSet, drained, restarts>>

\* The end of execute_with_progress, where the Shared authority consumes and unlocks,
\* and of run_exclusive, which removes the registration.
Return(c) ==
    /\ pc[c] = "returning"
    /\ grants' = IF held = c THEN RemoveMatching(grants, target[c]) ELSE grants
    /\ held' = IF held = c THEN "free" ELSE held
    /\ running' = running \ {attempt[c]}
    /\ authority' = [authority EXCEPT ![c] = {}]
    /\ result' = IF result[c] = "none" THEN [result EXCEPT ![c] = "Refused"] ELSE result
    /\ err' = [err EXCEPT ![c] = "none"]
    /\ Goto(c, "ended")
    /\ UNCHANGED <<target, token, staging, unremoved, published, source, upsets,
                   used, log, accepted, now,
                   prep, picked, pending, attempt, exit, drainSet, drained, restarts>>

\* publish-bundle: a process of its own, with a grant of its own and no registry.
CliStart(c, d, scope) ==
    /\ pc[c] = "idle" /\ d \in scope /\ source = "pinned"   \* what it pins itself
    /\ Cardinality({x \in Call : Cli(x)}) < MaxCli
    /\ attempt' = [attempt EXCEPT ![c] = "cli"]
    /\ target' = [target EXCEPT ![c] = d]
    /\ authority' = [authority EXCEPT ![c] =
                        {[id |-> c, scope |-> scope, at |-> now, life |-> AttemptTtl]}]
    /\ OpenLog(c, "gate", "returning")
    /\ UNCHANGED <<token, staging, unremoved, published, source,
                   used, accepted, result, now,
                   prep, picked, pending, grants, held, running, exit, drainSet, drained,
                   restarts>>

\* binding_publish_cancel, RunningPublishes::cancel_all and publish-bundle's Ctrl-C.
CancelAll(ids) == token' = token \cup {c \in Call : attempt[c] \in ids /\ pc[c] \notin {"ended", "dead"}}

Cancel(a) ==
    /\ Up /\ a \in running /\ Upset
    /\ CancelAll({a})
    /\ UNCHANGED <<pc, err, target, staging, unremoved, published, source, boundaryVars, shellVars>>

CtrlC(c) ==
    /\ Cli(c) /\ pc[c] \notin {"ended", "dead"}
    /\ Upset
    /\ token' = token \cup {c}
    /\ UNCHANGED <<pc, err, target, staging, unremoved, published, source, boundaryVars, shellVars>>

-----------------------------------------------------------------------------
\* on_exit_requested: the emptiness test, then the once-flag and cancel_all.
ExitRequested ==
    /\ exit \in {"none", "draining"} /\ Upset
    /\ exit' = IF running = {} \/ exit = "draining" THEN "leaving" ELSE "asked"
    /\ UNCHANGED <<callVars, boundaryVars, prep, picked, pending, grants, held, attempt,
                   running, drainSet, drained, restarts>>

Registered(c) == ~Cli(c) /\ attempt[c] \in running /\ pc[c] # "ended"

ExitDrain ==
    /\ exit = "asked"
    /\ exit' = "draining"
    /\ CancelAll(running)
    /\ drainSet' = {c \in Call : Registered(c)}
    /\ UNCHANGED <<pc, err, target, staging, unremoved, published, source, upsets, boundaryVars,
                   prep, picked, pending, grants, held, attempt, running, drained, restarts>>

\* wait_idle returns, on an empty registry or at EXIT_DRAIN_CEILING, and app.exit(0)
\* finds the drain begun.
WaitIdle ==
    /\ exit = "draining"
    /\ exit' = "leaving"
    /\ drained' = (running = {})
    /\ UNCHANGED <<pipeVars, boundaryVars, prep, picked, pending, grants, held, attempt,
                   running, drainSet, restarts>>

\* The process ends: after the exit was let through, or at any step.  The file system
\* and a publish-bundle of its own stay.
ProcessEnds(early) ==
    /\ Up
    /\ IF early THEN Upset ELSE exit = "leaving" /\ UNCHANGED upsets
    /\ exit' = "gone"
    /\ pc' = [c \in Call |-> IF Cli(c) \/ pc[c] \in {"idle", "ended"} THEN pc[c] ELSE "dead"]
    /\ prep' = [a \in Attempt |-> IF prep[a] = "new" THEN "new" ELSE "ended"]
    /\ authority' = [c \in Call |-> IF Cli(c) THEN authority[c] ELSE {}]
    /\ pending' = {} /\ grants' = {} /\ held' = "free" /\ running' = {}
    /\ drained' = (drained /\ ~early)
    /\ UNCHANGED <<err, target, token, staging, unremoved, published, source,
                   used, log, accepted, result, now, picked, attempt, drainSet, restarts>>

CliEnds(c) ==
    /\ Cli(c) /\ pc[c] \notin {"ended", "dead"}
    /\ Upset
    /\ Goto(c, "dead")
    /\ authority' = [authority EXCEPT ![c] = {}]
    /\ UNCHANGED <<err, target, token, staging, unremoved, published, source,
                   used, log, accepted, result, now, shellVars>>

Restart ==
    /\ exit = "gone" /\ restarts < MaxRestarts
    /\ exit' = "none"
    /\ restarts' = restarts + 1
    /\ drainSet' = {} /\ drained' = FALSE
    /\ UNCHANGED <<pipeVars, boundaryVars, prep, picked, pending, grants, held, attempt, running>>

CallStep(c) ==
    \/ Take(c) \/ ConsumeGrant(c) \/ Authorise(c) \/ Return(c)
    \/ BoundaryStep(c, GrantsOf(c)) /\ UNCHANGED shellVars

Next ==
    \/ \E a \in Attempt :
          \/ \E d \in Dest : PrepareStart(a, d)
          \/ PrepareRefused(a) \/ PrepareGrant(a) \/ PrepareStore(a) \/ Cancel(a)
          \/ \E c \in Call : ExecuteStart(c, a)
    \/ \E c \in Call :
          \/ CallStep(c) \/ CtrlC(c) \/ CliEnds(c)
          \/ \E d \in Dest, s \in SUBSET Dest : CliStart(c, d, s)
    \/ ExitRequested \/ ExitDrain \/ WaitIdle
    \/ \E early \in BOOLEAN : ProcessEnds(early)
    \/ Restart
    \/ ChangeSource /\ UNCHANGED <<boundaryVars, shellVars>>
    \/ Tick /\ UNCHANGED shellVars

Spec == Init /\ [][Next]_vars

-----------------------------------------------------------------------------
PublishedBy(c) == \E d \in Dest : published[d].there /\ published[d].by = c

\* The grants that could still authorize a publish: in the shared set, or copied by a
\* call that has not published yet.
Once == INSTANCE PublishOnce WITH
            recorded <- accepted,
            usable <- grants \cup UNION {authority[c] : c \in {x \in Call : ~PublishedBy(x)}},
            spent <- {used[c] : c \in {x \in Call : PublishedBy(x)}}

\* Every publish is one step of PublishOnce, whatever two publishes to one destination,
\* a second execute, a crash or an error do: boundary::execute records the intent first,
\* execute_with_progress spends the grant it copies, finalize renames a whole bundle
\* onto a free name.
PublishesOnce == Once!Spec

\* What the caller is told and what the audit log says of a call is what happened on
\* disk (boundary.rs, OutcomeNotAudited and publish_outcome): a success is reported if
\* and only if the call's bundle is there, and a record of its outcome says success if
\* and only if it is; a "cancelled" was asked for.
OutcomeIsTrue ==
    \A c \in Call :
        /\ result[c] \in {"Success", "SucceededUnaudited"} => PublishedBy(c)
        /\ pc[c] = "ended" /\ PublishedBy(c) =>
               result[c] \in {"Success", "SucceededUnaudited"}
        /\ \A i \in DOMAIN log.live : \A k \in DOMAIN log.live[i].recs :
               LET rec == log.live[i].recs[k] IN
               rec.attempt = c /\ rec.phase = "outcome" =>
                   /\ (rec.outcome = "success") = PublishedBy(c)
                   /\ rec.outcome = "cancelled" => c \in token

\* A staging directory belongs to a recorded and granted publish that is still running,
\* or its process ended, or the caller was told that it could not be removed
\* (StagingNotRemoved).  A drain that ended with an empty registry left none behind.
StagingIsAccountedFor ==
    \A c \in Call : staging[c].there =>
        /\ c \in accepted
        /\ target[c] \in used[c].scope
        /\ pc[c] \in InPipeline \/ pc[c] = "dead" \/ ErrorKind(c) = "StagingNotRemoved"
        /\ pc[c] = "dead" => ~(exit = "gone" /\ drained /\ c \in drainSet)

\* publish.rs, invariant I2: the grants' mutex is not held while publish_prepared runs.
\* A call that kept the guard found no grant, and the boundary finds none either.
GuardNotHeldWhilePublishing ==
    \A c \in Call : held = c => pc[c] \notin InPipeline \cup {"renamed"}

=============================================================================
