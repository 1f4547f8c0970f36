----------------------------- MODULE BatchCutting -----------------------------
(***************************************************************************)
(* How the producer cuts rows into batches (engine/src/stream.rs, produce, *)
(* flush, cut_reason, BatchSizePolicy::target_for), cancellation aside.    *)
(*                                                                         *)
(* The source yields chunks, each a sequence of rows.  A row is            *)
(* [id, bound, vertices, attrs]: what wkb.len() / 16 bounds its vertices   *)
(* by, its vertices and the bytes of its attributes.  The attribute        *)
(* columns of a batch are slices of the chunks' columns, taken in runs:    *)
(* here, the ids of the rows a run covers.  The clock is read only to ask  *)
(* whether the first batch's time budget is spent: expiry is the number of *)
(* rows appended by then.                                                  *)
(***************************************************************************)
EXTENDS Naturals, SequencesExt

CONSTANTS MaxBatchBytes,  \* MAX_BATCH_BYTES
          CheckStride     \* BUDGET_CHECK_ROW_STRIDE

\* A policy is [first, growth, target, min, maxRows, budgeted].  The target of the
\* n-th batch: grown from the first one until it reaches the policy's own.
TargetFor(policy, n) ==
    LET t[k \in 0..n] == IF k = 0 THEN policy.first
                         ELSE IF t[k - 1] >= policy.target THEN t[k - 1]
                         ELSE t[k - 1] * policy.growth
        most == IF t[n] < policy.target THEN t[n] ELSE policy.target
        reached == \E k \in 0..n : k < n /\ t[k] >= policy.target
    IN IF reached THEN policy.target ELSE IF most < policy.min THEN policy.min ELSE most

EstimateBytes(rows, vertices) == vertices * 16 + rows * 8 + (rows + vertices) * 4

CutReason(est, rows, target, maxRows, spent) ==
    IF est >= target THEN "SizeTarget"
    ELSE IF rows >= maxRows THEN "RowCeiling"
    ELSE IF spent THEN "TimeBudget" ELSE "none"

\* Pending, the rows of the batch being built.
NoRows == [ids |-> <<>>, vertices |-> 0, attrBytes |-> 0, est |-> 0, attrs |-> <<>>]

Start == [pending |-> NoRows, emitted |-> 0, sinceCheck |-> 0, appended |-> 0, runStart |-> 0,
          out |-> <<>>, error |-> "none"]

\* push_attr_run, of the rows start .. end-1 of a chunk.
PushRun(s, chunk, start, end) ==
    IF end <= start THEN s
    ELSE [s EXCEPT !.pending.attrs = @ \o [i \in 1..(end - start) |-> chunk[start + i].id]]

\* flush, with the caller's emitted += 1.
Flush(s, target, cut) ==
    LET p == s.pending IN
    IF p.est > MaxBatchBytes
    THEN [s EXCEPT !.error = IF Len(p.ids) = 1 THEN "FeatureTooLarge" ELSE "CeilingExceeded",
                   !.pending = NoRows]
    ELSE [s EXCEPT !.out = Append(@, [ids |-> p.ids, attrs |-> p.attrs, est |-> p.est,
                                      index |-> s.emitted, target |-> target, cut |-> cut]),
                   !.emitted = @ + 1, !.sinceCheck = 0, !.pending = NoRows]

\* A row that would take the batch past its target ends the batch before it.
CutBefore(s, chunk, row, target) ==
    LET r == chunk[row + 1]
        incoming == EstimateBytes(1, r.bound) + r.attrs
    IN IF s.pending.ids # <<>> /\ s.pending.est + incoming > target
       THEN Flush([PushRun(s, chunk, s.runStart, row) EXCEPT !.runStart = row], target, "SizeTarget")
       ELSE s

AppendRow(s, r) ==
    LET p == s.pending
        ids == Append(p.ids, r.id)
    IN [s EXCEPT !.pending = [p EXCEPT !.ids = ids, !.vertices = @ + r.vertices,
                                       !.attrBytes = @ + r.attrs,
                                       !.est = EstimateBytes(Len(ids), p.vertices + r.vertices)
                                                  + p.attrBytes + r.attrs],
                 !.appended = @ + 1]

\* A bug: the run of the next batch starts where this batch's began.
CutAfterKeepsRun(s, chunk, row, target, policy, expiry) ==
    LET cut == CutReason(s.pending.est, Len(s.pending.ids), target, policy.maxRows, FALSE)
    IN IF cut = "none" THEN s
       ELSE Flush(PushRun(s, chunk, s.runStart, row + 1), target, cut)

\* The budget is looked at every CheckStride rows, while the first batch is built.
CutAfter(s, chunk, row, target, policy, expiry) ==
    LET counts == policy.budgeted /\ s.emitted = 0
        due == counts /\ s.sinceCheck + 1 >= CheckStride
        counted == [s EXCEPT !.sinceCheck = IF due THEN 0 ELSE IF counts THEN @ + 1 ELSE @]
        cut == CutReason(s.pending.est, Len(s.pending.ids), target, policy.maxRows,
                         due /\ s.appended >= expiry)
    IN IF cut = "none" THEN counted
       ELSE Flush([PushRun(counted, chunk, s.runStart, row + 1) EXCEPT !.runStart = row + 1],
                  target, cut)

\* One turn of the row loop.  The target is read once, before either cut.
Row(s, chunk, row, policy, expiry) ==
    IF s.error # "none" THEN s
    ELSE LET target == TargetFor(policy, s.emitted)
             t == CutBefore(s, chunk, row, target)
         IN IF t.error # "none" THEN t
            ELSE CutAfter(AppendRow(t, chunk[row + 1]), chunk, row, target, policy, expiry)

\* One chunk: its rows, the rest of its last run, and the budget once more.
Chunk(s, chunk, policy, expiry) ==
    LET rows == FoldLeft(LAMBDA t, row : Row(t, chunk, row - 1, policy, expiry),
                         [s EXCEPT !.runStart = 0], [i \in 1..Len(chunk) |-> i])
        t == PushRun(rows, chunk, rows.runStart, Len(chunk))
    IN IF s.error # "none" \/ rows.error # "none" THEN [s EXCEPT !.error = rows.error, !.out = rows.out]
       ELSE IF policy.budgeted /\ t.emitted = 0 /\ t.pending.ids # <<>> /\ t.appended >= expiry
       THEN Flush(t, TargetFor(policy, t.emitted), "TimeBudget")
       ELSE t

Produce(chunks, policy, expiry) ==
    LET s == FoldLeft(LAMBDA t, chunk : Chunk(t, chunk, policy, expiry), Start, chunks)
    IN IF s.error # "none" \/ s.pending.ids = <<>> THEN s
       ELSE Flush(s, TargetFor(policy, s.emitted), "StreamEnd")

-----------------------------------------------------------------------------
\* What the renderer and the bundle rely on: the batches hold the rows the source
\* yielded, each once and in its order, up to the row an error stops at; the
\* attribute columns of a batch are those of its own rows; a batch of several rows is
\* within the target it reports and within the policy's row ceiling, so that no
\* payload but one feature can meet MAX_BATCH_BYTES; and only the first batch is ever
\* cut by the clock, under the policy that asks for it.
BatchesHoldTheRows(chunks, policy, expiry) ==
    LET end == Produce(chunks, policy, expiry)
        rows == FlattenSeq([i \in DOMAIN chunks |-> [j \in DOMAIN chunks[i] |-> chunks[i][j].id]])
        held == FlattenSeq([n \in DOMAIN end.out |-> end.out[n].ids])
    IN /\ IF end.error = "none" THEN held = rows ELSE IsPrefix(held, rows)
       /\ end.error # "CeilingExceeded"
       /\ \A n \in DOMAIN end.out :
            LET b == end.out[n] IN
            /\ b.index = n - 1
            /\ b.attrs = b.ids
            /\ Len(b.ids) > 1 => b.est <= b.target
            /\ Len(b.ids) \in 1..policy.maxRows
            /\ b.cut = "TimeBudget" => n = 1 /\ policy.budgeted
            /\ b.cut # "StreamEnd" \/ n = Len(end.out)

=============================================================================
