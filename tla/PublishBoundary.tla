--------------------------- MODULE PublishBoundary ----------------------------
(***************************************************************************)
(* The permission boundary around a publish: boundary::execute             *)
(* (kernel/src/permission/boundary.rs) with its grants (grant.rs),         *)
(* approval (approval.rs) and audit records (AuditLog).  The order is      *)
(* preflight, intent record, grant, approval, grant again, publish,        *)
(* outcome record.                                                         *)
(*                                                                         *)
(* A grant is [id, scope, at, life]: scope is the set of destinations that *)
(* its Exact or DirectChildOf covers.  Dataset and content are those of    *)
(* the one dataset that is published: a pin is taken once and kept.        *)
(***************************************************************************)
EXTENDS PublishPipeline, AuditLog

CONSTANT MaxNow   \* bound: the clock

VARIABLES authority,  \* the GrantSet each call runs the boundary with, when its own
          used,       \* the grant its second find returned
          log,        \* the audit log's files
          accepted,   \* the calls whose intent append_intent accepted
          result,     \* what execute returned
          now         \* Instant::now()

boundaryVars == <<authority, used, log, accepted, result, now>>

-----------------------------------------------------------------------------
\* PublishGrant and GrantSet.  find returns the first grant that is in scope and
\* not expired; here any of them.

Expired(g) == now - g.at >= g.life
Matching(grants, d) == {g \in grants : d \in g.scope}
Find(grants, d) == {g \in Matching(grants, d) : ~Expired(g)}
FindError(grants, d) ==
    CASE grants = {} -> "NoGrant"
      [] grants # {} /\ Matching(grants, d) = {} -> "GrantScopeMismatch"
      [] OTHER -> "GrantExpired"

RemoveMatching(grants, d) == grants \ Matching(grants, d)
PruneExpired(grants) == {g \in grants : ~Expired(g)}

NoGrant == [id |-> "none", scope |-> {}, at |-> 0, life |-> 0]

-----------------------------------------------------------------------------
\* error_kind and outcome_of.  A StagingNotRemoved has the outcome of the error it
\* came after.

\* A bug: the engine's errors are taken for its Cancelled.
OutcomeOfAnyStop(e) == IF e \in {"Cancelled", "Engine"} THEN "cancelled" ELSE "refused"

OutcomeOf(e) ==
    CASE e = "Cancelled" -> "cancelled"
      [] e \in {"NoGrant", "GrantScopeMismatch", "GrantExpired", "ApprovalRefused",
                "DestinationExists", "ViewerLicenseNoticeMissing", "CeilingExceeded",
                "RedactionFinding"} -> "refused"
      [] OTHER -> "failed"

ErrorKind(c) == IF c \in unremoved THEN "StagingNotRemoved" ELSE err[c]

Rec(c, phase, outcome) == [attempt |-> c, phase |-> phase, outcome |-> outcome]

-----------------------------------------------------------------------------
\* preflight, which a request that passed it at prepare time can still fail, and the
\* intent record.  Both errors return before anything is recorded.
Intend(c) ==
    /\ pc[c] = "gate"
    /\ \/ /\ log' = AppendDone(log, Rec(c, "intent", "none")).log
          /\ accepted' = accepted \cup {c}
          /\ Goto(c, "intended")
          /\ UNCHANGED <<err, upsets>>
       \/ /\ Upset
          /\ \E r \in AppendFailures(log, Rec(c, "intent", "none")) : log' = r.log
          /\ Goto(c, "returning") /\ err' = [err EXCEPT ![c] = "AuditUnwritable"]
          /\ UNCHANGED accepted
       \/ /\ Upset
          /\ Goto(c, "returning") /\ err' = [err EXCEPT ![c] = "Preflight"]
          /\ UNCHANGED <<log, accepted>>
    /\ UNCHANGED <<target, token, staging, unremoved, published, source,
                   authority, used, result, now>>

\* The two grant checks: before the operator is asked, and after the answer.
FindGrant(c, from, to, grants) ==
    /\ pc[c] = from
    /\ \/ \E g \in Find(grants, target[c]) :
             /\ Goto(c, to)
             /\ used' = [used EXCEPT ![c] = g]
             /\ UNCHANGED err
       \/ /\ Find(grants, target[c]) = {}
          /\ Fail(c, FindError(grants, target[c]))
          /\ UNCHANGED used
    /\ UNCHANGED <<target, token, staging, unremoved, published, source, upsets,
                   authority, log, accepted, result, now>>

\* ApprovalSource::respond and approval::check.
Approve(c) ==
    /\ pc[c] = "found"
    /\ \/ Goto(c, "approved") /\ UNCHANGED <<err, upsets>>
       \/ Upset /\ Fail(c, "ApprovalRefused")
       \/ Upset /\ Fail(c, "ApprovalUnavailable")
    /\ UNCHANGED <<target, token, staging, unremoved, published, source, boundaryVars>>

\* finish: the outcome record of an error.  Its own failure is not returned.
Finish(c) ==
    /\ pc[c] = "finishing"
    /\ \/ /\ log' = AppendDone(log, Rec(c, "outcome", OutcomeOf(err[c]))).log
          /\ UNCHANGED upsets
       \/ /\ Upset
          /\ \E r \in AppendFailures(log, Rec(c, "outcome", OutcomeOf(err[c]))) : log' = r.log
    /\ Goto(c, "returning")
    /\ UNCHANGED <<err, target, token, staging, unremoved, published, source,
                   authority, used, accepted, result, now>>

\* The outcome record of a success, or OutcomeNotAudited.
RecordSuccess(c) ==
    /\ pc[c] = "renamed"
    /\ \/ /\ log' = AppendDone(log, Rec(c, "outcome", "success")).log
          /\ result' = [result EXCEPT ![c] = "Success"]
          /\ UNCHANGED upsets
       \/ /\ Upset
          /\ \E r \in AppendFailures(log, Rec(c, "outcome", "success")) : log' = r.log
          /\ result' = [result EXCEPT ![c] = "SucceededUnaudited"]
    /\ Goto(c, "returning")
    /\ UNCHANGED <<err, target, token, staging, unremoved, published, source,
                   authority, used, accepted, now>>

BoundaryStep(c, grants) ==
    \/ Intend(c)
    \/ FindGrant(c, "intended", "found", grants)
    \/ Approve(c)
    \/ FindGrant(c, "approved", "cleared", grants)
    \/ PipelineStep(c) /\ UNCHANGED boundaryVars
    \/ Finish(c)
    \/ RecordSuccess(c)

Tick == /\ now < MaxNow
        /\ now' = now + 1
        /\ UNCHANGED <<pipeVars, authority, used, log, accepted, result>>

=============================================================================
