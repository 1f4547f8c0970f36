------------------------------ MODULE PathScope -------------------------------
(***************************************************************************)
(* Paths at the permission boundary: what a destination resolves to and    *)
(* which grants cover it (kernel/src/permission/grant.rs), where the audit *)
(* log may lie and what a record may carry (audit/log.rs), and how a path  *)
(* is written into a record (audit/normalize.rs), as built for a platform  *)
(* that tells upper from lower case.                                       *)
(*                                                                         *)
(* A path is [abs, parts], its parts without inner dots, and a directory   *)
(* the sequence of names that leads to it from the root.  A file system is *)
(* [dirs, links, cwd]; links leads from a place to the directory it stands *)
(* for.  A record's findings are [class, declared], in their order.        *)
(***************************************************************************)
EXTENDS Naturals, SequencesExt, FiniteSetsExt

CONSTANTS MaxGrants,     \* MAX_GRANTS
          MaxLifetime    \* MAX_GRANT_LIFETIME

Nowhere == [ok |-> FALSE]
At(dir) == [ok |-> TRUE, dir |-> dir]

-----------------------------------------------------------------------------
\* std::fs::canonicalize of a directory.
Step(fs, here, name) ==
    IF ~here.ok \/ name = "." THEN here
    ELSE IF name = ".." THEN At(IF here.dir = <<>> THEN <<>> ELSE Front(here.dir))
    ELSE LET child == Append(here.dir, name)
         IN IF child \in DOMAIN fs.links THEN At(fs.links[child])
            ELSE IF child \in fs.dirs THEN At(child) ELSE Nowhere

Canonicalize(fs, path) ==
    FoldLeft(LAMBDA here, name : Step(fs, here, name), At(IF path.abs THEN <<>> ELSE fs.cwd), path.parts)

\* Path::file_name
HasName(path) == path.parts # <<>> /\ Last(path.parts) \notin {".", ".."}

Parent(path) == [path EXCEPT !.parts = Front(@)]

\* A bug: a destination is resolved as it is spelled.
ResolveAsSpelled(fs, path) == IF HasName(path) THEN At(path.parts) ELSE Nowhere

\* resolve_destination: the parent is resolved, the name is not, for it need not exist.
ResolveDestination(fs, path) ==
    LET parent == Canonicalize(fs, Parent(path))
    IN IF ~HasName(path) THEN Nowhere
       ELSE IF ~parent.ok THEN Nowhere ELSE At(Append(parent.dir, Last(path.parts)))

\* DestinationScope::exact, direct_child_of and covers.
ExactScope(fs, path) == [kind |-> "exact", at |-> ResolveDestination(fs, path)]
ChildScope(fs, path) == [kind |-> "child", at |-> Canonicalize(fs, path)]

Covers(scope, resolved) ==
    IF scope.kind = "exact" THEN resolved = scope.at.dir
    ELSE resolved # <<>> /\ Front(resolved) = scope.at.dir

\* PublishGrant::new and GrantSet::add, as what they leave in the set.
NewGrant(grants, g) ==
    IF g.life > MaxLifetime \/ Cardinality(grants) >= MaxGrants THEN grants ELSE grants \cup {g}

-----------------------------------------------------------------------------
\* log.rs

\* resolve_log_path, of the two places the environment can name.
LogPath(override, dataDir) ==
    IF override.ok THEN IF override.abs THEN At(override.dir) ELSE Nowhere
    ELSE IF dataDir.ok THEN At(dataDir.dir \o <<"spatial-ide", "audit", "publish.jsonl">>) ELSE Nowhere

\* is_inside, on the paths as they are spelled.
IsInside(path, root) == IsPrefix(root, path)

\* RESIDUAL_CLASSES, and redaction.rs's ATTRIBUTABLE_CLASSES.
Residual == {"local-filesystem-path", "username", "machine-identifier"}
AttributableClasses == {"username", "machine-identifier"}

\* A bug: whatever lies inside a declared value is declared.
ClassOfAnyDeclared(f) == IF f.declared THEN "operator-declared" ELSE f.class

\* A finding as scan reports it: an identity inside a declared_occurrence, the identity
\* field's own value, is declared.
ClassOf(f) == IF f.declared /\ f.class \in AttributableClasses THEN "operator-declared" ELSE f.class

\* classify: a credential refuses the record; the residual classes are named in it.
Classify(findings) ==
    LET classes == {ClassOf(f) : f \in ToSet(findings)}
    IN IF "credential" \in classes THEN [ok |-> FALSE, residual |-> {}]
       ELSE [ok |-> TRUE, residual |-> classes \cap Residual]

-----------------------------------------------------------------------------
\* normalize.rs: roots is a sequence of [dir, token].

\* roots_from: the first root for a directory is kept, too short ones are not.
RootsFrom(vars) ==
    FoldLeft(LAMBDA out, v : IF v.dir = <<>> \/ \E i \in DOMAIN out : out[i].dir = v.dir THEN out
                             ELSE Append(out, v), <<>>, vars)

\* strip_component_prefix
StripPrefix(dir, root) == SubSeq(dir, Len(root) + 1, Len(dir))

\* A bug: the first root that fits, not the longest.
RootOfFirst(dir, roots) ==
    LET fitting == {i \in DOMAIN roots : IsPrefix(roots[i].dir, dir)}
    IN IF fitting = {} THEN [dir |-> <<>>, token |-> ""] ELSE roots[Min(fitting)]

RootOf(dir, roots) ==
    LET fitting == {i \in DOMAIN roots : IsPrefix(roots[i].dir, dir)}
        longest == {i \in fitting : \A j \in fitting : Len(roots[j].dir) <= Len(roots[i].dir)}
    IN IF fitting = {} THEN [dir |-> <<>>, token |-> ""] ELSE roots[Min(longest)]

\* normalize_with
Normalize(dir, roots, users) ==
    LET root == RootOf(dir, roots)
        rest == StripPrefix(dir, root.dir)
        named == IF root.token = "" THEN rest ELSE <<root.token>> \o rest
    IN [i \in DOMAIN named |-> IF named[i] \in users THEN "<user>" ELSE named[i]]

-----------------------------------------------------------------------------
\* A grant authorises a place, not a spelling (grant.rs): whatever links, dots and
\* relative paths the grantor and the caller use, an exact grant covers a destination
\* exactly when both name the same entry of the same directory, and a directory's grant
\* covers exactly the entries of that directory.  A grant set never holds more, or
\* longer-lived, grants than it admits.
GrantsCoverPlaces(fs, granted, asked, dir, life) ==
    LET to == ResolveDestination(fs, asked)
        exact == ExactScope(fs, granted)
        child == ChildScope(fs, dir)
        same == /\ Canonicalize(fs, Parent(granted)) = Canonicalize(fs, Parent(asked))
                /\ Last(granted.parts) = Last(asked.parts)
        adds == FoldLeft(LAMBDA g, n : NewGrant(g, [id |-> n, life |-> life]), {}, [n \in 1..(MaxGrants + 1) |-> n])
    IN /\ to.ok /\ exact.at.ok => (Covers(exact, to.dir) <=> same)
       /\ to.ok /\ child.at.ok => (Covers(child, to.dir) <=> Canonicalize(fs, Parent(asked)) = child.at)
       /\ to.ok => \E d \in fs.dirs \cup {<<>>} : to.dir = Append(d, Last(asked.parts))
       /\ Cardinality(adds) = IF life > MaxLifetime THEN 0 ELSE MaxGrants

\* What is recorded of a path (normalize.rs, "the operator's own name does not survive").
\* No component of it is a user's name; a path under a known root is written from the
\* most specific one, so that no directory of that root is spelled out; what follows the
\* root is kept, so that two different places under it stay different unless only a
\* user's name tells them apart.
RecordNamesNoUser(dir, other, vars, users) ==
    LET roots == RootsFrom(vars)
        out == Normalize(dir, roots, users)
        deepest == {i \in DOMAIN vars : vars[i].dir # <<>> /\ IsPrefix(vars[i].dir, dir)}
        under == Max({Len(vars[i].dir) : i \in deepest} \cup {0})
        masked(d) == [i \in DOMAIN d |-> IF d[i] \in users THEN "<user>" ELSE d[i]]
    IN /\ ToSet(out) \cap users = {}
       /\ deepest # {} => Len(out) = 1 + Len(dir) - under
       /\ deepest = {} => out = masked(dir)
       /\ RootOf(other, roots) = RootOf(dir, roots) =>
            (Normalize(other, roots, users) = out <=> masked(other) = masked(dir))

\* The audit log stays outside the bundle it tells of, and a record that carries a
\* credential is never written, not even where the operator's own name is declared around
\* it; what else was found is named in the record, the operator's name only if it stands
\* somewhere other than in its own field (log.rs, redaction.rs).
RecordIsFitToKeep(findings, override, dataDir, destination) ==
    LET log == LogPath(override, dataDir)
        verdict == Classify(findings)
        Has(class) == \E i \in DOMAIN findings : findings[i].class = class
        HasUndeclared(class) == \E i \in DOMAIN findings : findings[i] = [class |-> class, declared |-> FALSE]
    IN /\ log.ok /\ ~IsInside(log.dir, destination) =>
            \A n \in 1..Len(log.dir) : SubSeq(log.dir, 1, n) # destination
       /\ verdict.ok <=> ~Has("credential")
       /\ verdict.ok => /\ "local-filesystem-path" \in verdict.residual <=> Has("local-filesystem-path")
                        /\ "username" \in verdict.residual <=> HasUndeclared("username")

=============================================================================
