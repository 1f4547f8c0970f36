------------------------------- MODULE AuditLog -------------------------------
(***************************************************************************)
(* The permission boundary's audit log (kernel/src/permission/audit):      *)
(* AuditLog::open_for with its rotation, AuditLog::append with the ways a  *)
(* write can fail part way, and the reader of publish-bundle --audit-show. *)
(*                                                                         *)
(* A log is a record of the live file and its rotated generations.  A file *)
(* is the sequence of its lines, and a line is what stands between two     *)
(* newlines: the records written into it, one after the other, whether the *)
(* last of them was cut short, and whether its newline was written.  Both  *)
(* operations run under the process-global AUDIT_LOG_GATE, so each is one  *)
(* step of its caller; what it may do is the set of its results.           *)
(***************************************************************************)
EXTENDS Naturals, SequencesExt

CONSTANTS MaxLines,     \* MAX_AUDIT_LOG_BYTES, counted in lines
          Generations   \* MAX_AUDIT_LOG_GENERATIONS

ASSUME MaxLinesAssumption == MaxLines \in Nat \ {0}
ASSUME GenerationsAssumption == Generations \in Nat \ {0}

\* A file that is not there reads as one with no lines: a generation always has some.
NoFile == <<>>

EmptyLog == [live |-> NoFile, gens |-> [n \in 1..Generations |-> NoFile]]

-----------------------------------------------------------------------------
\* A line of the file, and what write_all leaves behind when it stops early.

Line(recs, cut, newline) == [recs |-> recs, cut |-> cut, newline |-> newline]

\* The tail of a file whose last line has no newline yet: the next record is
\* written onto it.
OpenTail(file) == file # <<>> /\ ~Last(file).newline

WriteLine(file, rec, cut, newline) ==
    IF OpenTail(file)
    THEN Append(Front(file), Line(Append(Last(file).recs, rec), Last(file).cut \/ cut, newline))
    ELSE Append(file, Line(<<rec>>, cut, newline))

\* AuditLog::append, which opens the file, writes the record and then its newline,
\* flushes and syncs.  An error leaves nothing, a part of the record, the record
\* without its newline, or all of it.
AppendResult(ok, log, file) == [ok |-> ok, log |-> [log EXCEPT !.live = file]]

AppendDone(log, rec) ==
    AppendResult(TRUE, log, WriteLine(log.live, rec, FALSE, TRUE))

AppendFailures(log, rec) ==
    {AppendResult(FALSE, log, file) :
        file \in {log.live,
                  WriteLine(log.live, rec, TRUE, FALSE),
                  WriteLine(log.live, rec, FALSE, FALSE),
                  WriteLine(log.live, rec, FALSE, TRUE)}}

-----------------------------------------------------------------------------
\* rotate_if_needed

AtCeiling(log) == Len(log.live) >= MaxLines

\* The generations once the oldest is deleted and every rename n -> n+1 with
\* n >= k is made: place k is free.
Shifted(log, k) ==
    [log EXCEPT !.gens = [n \in 1..Generations |->
        CASE n > k -> log.gens[n - 1]
          [] n = k -> NoFile
          [] n < k -> log.gens[n]]]

\* A bug: the live file is renamed first, onto the newest generation.
RotatedLiveFirst(log) ==
    Shifted([log EXCEPT !.gens[1] = log.live, !.live = NoFile], 1)

Rotated(log) == [Shifted(log, 1) EXCEPT !.gens[1] = log.live, !.live = NoFile]

\* The step that fails is the deletion, the rename out of place k-1 or the last
\* one, of the live file.  What was moved before it stays moved.
RotationFailures(log) ==
    {log} \cup {Shifted(log, k) : k \in {j \in 1..Generations : j = 1 \/ log.gens[j - 1] # NoFile}}

\* AuditLog::open_for: the rotation if the live file is at its ceiling, then the
\* probe, which creates it.  An error is fatal to the attempt.
OpenResults(log, mayFail) ==
    LET rotated == IF AtCeiling(log) THEN Rotated(log) ELSE log
        done == [ok |-> TRUE, log |-> rotated]
        failed == (IF AtCeiling(log) THEN RotationFailures(log) ELSE {}) \cup {rotated}
    IN {done} \cup IF mayFail THEN {[ok |-> FALSE, log |-> l] : l \in failed} ELSE {}

-----------------------------------------------------------------------------
\* render_audit_log.  A record is [attempt, phase, outcome]; a line parses when it
\* holds exactly one record, whole.

Parses(line) == Len(line.recs) = 1 /\ ~line.cut

Sentence(kind, attempt, outcome) == [kind |-> kind, attempt |-> attempt, outcome |-> outcome]

\* An intent that is not pending takes the next place of the order; a later intent of
\* a pending attempt replaces it.
ReadIntent(r, attempt) ==
    [r EXCEPT !.order = IF attempt \in r.pending THEN @ ELSE Append(@, attempt),
              !.pending = @ \cup {attempt}]

\* A bug: an outcome with no pending intent is skipped.
ReadLineSkipsOrphans(r, line) ==
    IF ~Parses(line) THEN [r EXCEPT !.out = Append(@, Sentence("corrupt", 0, "none"))]
    ELSE LET rec == line.recs[1] IN
         IF rec.phase = "intent" THEN ReadIntent(r, rec.attempt)
         ELSE IF rec.attempt \in r.pending
         THEN [r EXCEPT !.out = Append(@, Sentence("pair", rec.attempt, rec.outcome)),
                        !.pending = @ \ {rec.attempt}]
         ELSE r

\* One line of the loop: pending is the map of intents met and order the order they
\* arrived in, out the sentences.
ReadLine(r, line) ==
    IF ~Parses(line) THEN [r EXCEPT !.out = Append(@, Sentence("corrupt", 0, "none"))]
    ELSE LET rec == line.recs[1] IN
         IF rec.phase = "intent" THEN ReadIntent(r, rec.attempt)
         ELSE [r EXCEPT !.out = Append(@, Sentence(IF rec.attempt \in r.pending THEN "pair"
                                                                               ELSE "orphanOutcome",
                                                   rec.attempt, rec.outcome)),
                        !.pending = @ \ {rec.attempt}]

\* The intents left over, in their order.
ReportOrphan(r, attempt) ==
    IF attempt \in r.pending
    THEN [r EXCEPT !.out = Append(@, Sentence("orphanIntent", attempt, "none")),
                   !.pending = @ \ {attempt}]
    ELSE r

RenderAuditLog(file) ==
    LET end == FoldLeft(ReadLine, [out |-> <<>>, order |-> <<>>, pending |-> {}], file)
    IN FoldLeft(ReportOrphan, end, end.order).out

-----------------------------------------------------------------------------
\* The files, oldest first, and all that stands in them.
Files(log) == [n \in 1..(Generations + 1) |->
                  IF n <= Generations THEN log.gens[Generations + 1 - n] ELSE log.live]

RecordsOf(file) == FlattenSeq([i \in 1..Len(file) |-> file[i].recs])

Retained(log) == FlattenSeq([n \in 1..(Generations + 1) |-> RecordsOf(Files(log)[n])])

\* Rotation discards the oldest generation and nothing else, whatever fails in the
\* middle of it: what the files hold afterwards, oldest first, is the end of what they
\* held, in its order (log.rs: the last generation is deleted, the rest only move).
RotationLosesOnlyTheOldest(log) ==
    \A r \in OpenResults(log, TRUE) :
        /\ IsSuffix(Retained(r.log), Retained(log))
        /\ Retained(r.log) # Retained(log) =>
               /\ AtCeiling(log)
               /\ Len(Retained(log)) - Len(Retained(r.log)) = Len(RecordsOf(log.gens[Generations]))

\* What a reader of one file is told (reader.rs, "never dropped, never merged into a
\* neighbour, never silently skipped").  Every record of the file is in a sentence of
\* its own attempt or stands in a line reported as corrupt, every corrupt line is
\* reported, and a sentence that pairs an outcome with an attempt is that attempt's
\* outcome, recorded after its intent.
ReaderAccountsForEveryLine(file) ==
    LET out == RenderAuditLog(file)
        told == ToSet(out)
        corrupt == {i \in DOMAIN file : file[i].cut \/ Len(file[i].recs) > 1}
        is(i, attempt, phase, outcome) ==
            file[i].recs[1] = [attempt |-> attempt, phase |-> phase, outcome |-> outcome]
    IN /\ Len(SelectSeq(out, LAMBDA s : s.kind = "corrupt")) = Cardinality(corrupt)
       /\ \A i \in DOMAIN file \ corrupt :
             LET rec == file[i].recs[1]
                 kinds == IF rec.phase = "outcome" THEN {"pair", "orphanOutcome"}
                                                   ELSE {"pair", "orphanIntent"}
             IN \E s \in told : /\ s.kind \in kinds /\ s.attempt = rec.attempt
                                /\ rec.phase = "outcome" => s.outcome = rec.outcome
       /\ \A s \in told : s.kind = "pair" =>
             \E i, j \in DOMAIN file \ corrupt :
                i < j /\ is(i, s.attempt, "intent", "none") /\ is(j, s.attempt, "outcome", s.outcome)

=============================================================================
