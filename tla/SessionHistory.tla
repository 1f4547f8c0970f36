---------------------------- MODULE SessionHistory -----------------------------
(***************************************************************************)
(* The session history (kernel/src/session_history.rs): StepRecorder's     *)
(* records, one per path and claims, the append path of a record's file    *)
(* with its ceilings and its stopped latch, the normal end and the crash,  *)
(* and recover, which reads a file another run left.                       *)
(*                                                                         *)
(* A record_step passes its live check outside the mutex and writes inside *)
(* it.  A line is [kind, id, parent, len, lf]: its content reduced to what *)
(* the reader's chain compares, its length, and whether its LF is there.   *)
(***************************************************************************)
EXTENDS Naturals, Sequences, SequencesExt

CONSTANTS Call,             \* record_step calls; a call's name is its step's id
          Key,              \* path and claims (same_claims) of an open dataset
          StepLens,         \* bound: lengths of step lines
          HeaderLen,        \* length of the header line
          MaxStepLine,      \* MAX_STEP_LINE_BYTES
          MaxHistoryBytes,  \* MAX_SESSION_HISTORY_BYTES
          MaxRuns,          \* bound: starts of the process
          MaxFaults         \* bound: failed writes, flushes and removals

VARIABLES open,     \* the key of the dataset's live session, or "none"
          pc, key,  \* each call, and the key of the dataset it looked up
          lock,     \* the call that holds the records' mutex, or "free"
          records,  \* StepRecorder::records
          files,    \* the record folders ever made, in order
          acked,    \* the steps answered Ok, per folder
          phase,    \* the process: "up", "ending" after end_session, or "down"
          run,      \* which start of it this is
          cleared,  \* the runs that ended normally
          faults

vars == <<open, pc, key, lock, records, files, acked, phase, run, cleared, faults>>

Alive == phase # "down"
Fault == faults < MaxFaults /\ faults' = faults + 1
NoFault == UNCHANGED faults

Header == [kind |-> "header", id |-> "none", parent |-> "none", len |-> HeaderLen, lf |-> TRUE]
Step(c, parent, len) == [kind |-> "step", id |-> c, parent |-> parent, len |-> len, lf |-> TRUE]

-----------------------------------------------------------------------------
\* The file.  A line written after one without its LF becomes part of it.

Garbled(old, new) == [old EXCEPT !.kind = "garbled", !.len = @ + new.len, !.lf = new.lf]

WriteAll(lines, line) ==
    IF lines = <<>> \/ Last(lines).lf
    THEN Append(lines, line)
    ELSE [lines EXCEPT ![Len(lines)] = Garbled(@, line)]

\* write_all or sync_all failed, or the process ended in it: nothing, a part, all but
\* the LF, or the whole line is there.
Written(lines, line) ==
    {lines, WriteAll(lines, line), WriteAll(lines, [line EXCEPT !.lf = FALSE]),
     WriteAll(lines, [line EXCEPT !.kind = "garbled", !.len = 1, !.lf = FALSE])}

-----------------------------------------------------------------------------
\* recover_bytes and read_line: the longest valid prefix.  A mark is read, though no
\* code writes one yet.

Chain == [steps |-> <<>>, last |-> "none", parent |-> "none", total |-> 0, n |-> 0,
          failed |-> FALSE]

LineBytes(line) == line.len + (IF line.lf THEN 1 ELSE 0)

FitsTheReader(chain, line) ==
    /\ chain.total + LineBytes(line) <= MaxHistoryBytes
    /\ line.lf
    /\ chain.n > 0 => line.len <= MaxStepLine
    /\ CASE chain.n = 0 -> line.kind = "header"
         [] chain.n > 0 /\ line.kind = "step" -> line.parent = chain.parent
         [] chain.n > 0 /\ line.kind = "saved-here" -> line.id = chain.last
         [] chain.n > 0 /\ line.kind = "restored" -> \E i \in DOMAIN chain.steps : line.id = chain.steps[i]
         [] OTHER -> FALSE

ReadLine(chain, line) ==
    CASE chain.failed -> chain
      [] ~chain.failed /\ ~FitsTheReader(chain, line) -> [chain EXCEPT !.failed = TRUE]
      [] OTHER ->
            LET next == [chain EXCEPT !.n = @ + 1, !.total = @ + LineBytes(line)] IN
            CASE line.kind = "step" -> [next EXCEPT !.steps = Append(@, line.id), !.last = line.id,
                                                    !.parent = line.id]
              [] line.kind = "restored" -> [next EXCEPT !.parent = line.id]
              [] OTHER -> next

Reading(lines) ==
    LET read[n \in 0..Len(lines)] == IF n = 0 THEN Chain ELSE ReadLine(read[n - 1], lines[n])
    IN read[Len(lines)]

Recover(lines) ==
    [steps |-> Reading(lines).steps, failed |-> Reading(lines).failed \/ lines = <<>>]

-----------------------------------------------------------------------------
Init ==
    /\ open \in Key
    /\ pc = [c \in Call |-> "idle"]
    /\ key = [c \in Call |-> "none"]
    /\ lock = "free"
    /\ records = {}
    /\ files = <<>>
    /\ acked = <<>>
    /\ phase = "up"
    /\ run = 1
    /\ cleared = {}
    /\ faults = 0

Goto(c, s) == pc' = [pc EXCEPT ![c] = s]
Leave(c) == Goto(c, "ended") /\ key' = [key EXCEPT ![c] = "none"]

\* The dataset's session ends, or it is opened again, with the same claims or others.
Reopen(k) ==
    /\ Alive
    /\ open' = IF open = "none" THEN k ELSE "none"
    /\ UNCHANGED <<pc, key, lock, records, files, acked, phase, run, cleared, faults>>

\* record_step up to the mutex: the catalog, require_live, and prepare, which may refuse
\* the intent.
Check(c) ==
    /\ phase = "up" /\ pc[c] = "idle"
    /\ \/ /\ open # "none"
          /\ Goto(c, "checked")
          /\ key' = [key EXCEPT ![c] = open]
       \/ /\ open = "none"
          /\ Goto(c, "ended")
          /\ UNCHANGED key
    /\ UNCHANGED <<open, lock, records, files, acked, phase, run, cleared, faults>>

Mine(c) == {r \in records : r.key = key[c]}

\* create and write_record.  A failure removes the folder, and that may fail too.
Create(c) ==
    /\ pc[c] = "checked" /\ lock = "free" /\ Mine(c) = {}
    /\ \/ /\ files' = Append(files, [there |-> TRUE, run |-> run, lines |-> <<Header>>])
          /\ records' = records \cup {[file |-> Len(files) + 1, key |-> key[c], last |-> "none",
                                       bytes |-> HeaderLen + 1, stopped |-> FALSE]}
          /\ lock' = c
          /\ Goto(c, "writing")
          /\ UNCHANGED key
          /\ NoFault
       \/ /\ Fault
          /\ \E removed \in BOOLEAN, lines \in Written(<<>>, Header) :
                files' = Append(files, [there |-> ~removed, run |-> run, lines |-> lines])
          /\ Leave(c)
          /\ UNCHANGED <<records, lock>>
    /\ acked' = Append(acked, <<>>)
    /\ UNCHANGED <<open, phase, run, cleared>>

Refuses(r, len) == \/ r.stopped
                   \/ len > MaxStepLine
                   \/ r.bytes + len + 1 > MaxHistoryBytes

SetRecord(r, new) == records' = (records \ {r}) \cup {new}
SetLines(r, lines) == files' = [files EXCEPT ![r.file].lines = lines]

\* A bug: a failed write does not stop the history.
AppendWithoutLatch(c, r, len) ==
    /\ ~Refuses(r, len)
    /\ LET line == Step(c, r.last, len) IN
       \/ /\ SetLines(r, WriteAll(files[r.file].lines, line))
          /\ SetRecord(r, [r EXCEPT !.bytes = @ + len + 1, !.last = c])
          /\ acked' = [acked EXCEPT ![r.file] = Append(@, c)]
          /\ NoFault
       \/ /\ Fault
          /\ \E lines \in Written(files[r.file].lines, line) : SetLines(r, lines)
          /\ UNCHANGED <<records, acked>>

\* History::append, and record_step's last_step.
AppendLine(c, r, len) ==
    \/ /\ Refuses(r, len)
       /\ UNCHANGED <<records, files, acked, faults>>
    \/ /\ ~Refuses(r, len)
       /\ SetLines(r, WriteAll(files[r.file].lines, Step(c, r.last, len)))
       /\ SetRecord(r, [r EXCEPT !.bytes = @ + len + 1, !.last = c])
       /\ acked' = [acked EXCEPT ![r.file] = Append(@, c)]
       /\ NoFault
    \/ /\ ~Refuses(r, len) /\ Fault
       /\ \E lines \in Written(files[r.file].lines, Step(c, r.last, len)) : SetLines(r, lines)
       /\ SetRecord(r, [r EXCEPT !.stopped = TRUE])
       /\ UNCHANGED acked

Ready(c) == \/ pc[c] = "writing"
            \/ pc[c] = "checked" /\ lock = "free"

RecordStep(c, len) ==
    /\ Ready(c)
    /\ \E r \in Mine(c) : AppendLine(c, r, len)
    /\ lock' = "free"
    /\ Leave(c)
    /\ UNCHANGED <<open, phase, run, cleared>>

-----------------------------------------------------------------------------
\* A bug: end_session clears the store root.
EndSessionClearsAll ==
    /\ phase = "up" /\ lock = "free"
    /\ phase' = "ending"
    /\ records' = {}
    /\ files' = [f \in DOMAIN files |-> [files[f] EXCEPT !.there = FALSE]]
    /\ UNCHANGED <<open, pc, key, lock, acked, run, cleared, faults>>

\* end_session, on the normal exit event.  A file that cannot be removed is left.
EndSession ==
    /\ phase = "up" /\ lock = "free"
    /\ phase' = "ending"
    /\ records' = {}
    /\ LET own == {r.file : r \in records} IN
       \/ /\ files' = [f \in DOMAIN files |->
                          IF f \in own THEN [files[f] EXCEPT !.there = FALSE] ELSE files[f]]
          /\ NoFault
       \/ Fault /\ own # {} /\ UNCHANGED files
    /\ UNCHANGED <<open, pc, key, lock, acked, run, cleared>>

Down ==
    /\ phase' = "down"
    /\ pc' = [c \in Call |-> IF pc[c] = "idle" THEN "idle" ELSE "ended"]
    /\ key' = [c \in Call |-> "none"]
    /\ lock' = "free" /\ records' = {}
    /\ UNCHANGED <<open, acked, run>>

\* The process ends after end_session, whatever calls are still in their thread.
ProcessEnds == phase = "ending" /\ Down /\ cleared' = cleared \cup {run} /\ UNCHANGED <<files, faults>>

\* It ends abnormally, between two writes or in one.
Crash ==
    /\ Alive /\ Fault /\ Down
    /\ UNCHANGED cleared
    /\ \/ UNCHANGED files
       \/ \E c \in Call, len \in StepLens : \E r \in Mine(c) :
             /\ Ready(c) /\ ~Refuses(r, len)
             /\ \E lines \in Written(files[r.file].lines, Step(c, r.last, len)) : SetLines(r, lines)

Start ==
    /\ phase = "down" /\ run < MaxRuns
    /\ phase' = "up" /\ run' = run + 1
    /\ UNCHANGED <<open, pc, key, lock, records, files, acked, cleared, faults>>

Next ==
    \/ \E k \in Key : Reopen(k)
    \/ \E c \in Call : \/ Check(c) \/ Create(c)
                       \/ \E len \in StepLens : RecordStep(c, len)
    \/ EndSession \/ ProcessEnds \/ Crash \/ Start

Spec == Init /\ [][Next]_vars

-----------------------------------------------------------------------------
Steps(f) == Recover(files[f].lines).steps

\* recover returns every step that record_step answered Ok, in order, and at most one
\* more, the last, whose write failed or met a crash (History::append stops at the first
\* failure); what it reports as broken is such a write's torn line, never a written one.
RecoveredIsRecorded ==
    \A f \in DOMAIN files : files[f].there =>
        LET read == Recover(files[f].lines) IN
        /\ IsPrefix(acked[f], read.steps)
        /\ Len(read.steps) <= Len(acked[f]) + 1
        /\ read.failed => (files[f].lines = <<>> \/ ~Last(files[f].lines).lf)
        /\ \A r \in records : r.file = f /\ ~r.stopped => read.steps = acked[f]

\* A history only grows, line by line, and only its own run removes it, at its normal
\* end (end_session: "A record another run left is never touched").
HistoriesOnlyGrow ==
    [][\A f \in DOMAIN files : files[f].there =>
          \/ files'[f] = files[f]
          \/ files'[f].there /\ IsPrefix(Steps(f), Steps(f)')
          \/ files[f].run = run /\ phase' = "ending"]_vars

\* "A normal end clears; a crash leaves": a run that ended normally left no record.
NormalEndClears ==
    \A f \in DOMAIN files : files[f].there => files[f].run \notin cleared

=============================================================================
