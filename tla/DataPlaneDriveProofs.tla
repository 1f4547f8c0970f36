------------------------- MODULE DataPlaneDriveProofs -------------------------
(***************************************************************************)
(* What one stream of the data plane guarantees for every capacity of its  *)
(* channel, every length of its source and all the credit a peer may send. *)
(*                                                                         *)
(* CompletedIsWhole is the writer's conclusion from an empty and closed    *)
(* channel.  It is right because every generated batch is somewhere        *)
(* (BatchesAreSomewhere), because a failed source leaves an item that the  *)
(* writer cannot miss (FailureIsQueued), and because a writer that dropped *)
(* a batch never comes back to its loop (DiscardingIsFinal).               *)
(***************************************************************************)
EXTENDS DataPlaneDrive, FiniteSetTheorems, TLAPS

DriveTypes ==
    /\ pump \in PumpState /\ drive \in DriveState
    /\ halt \in {"none", "cancelled", "transport_failed"}
    /\ terminal \in Outcome \cup {"none"}
    /\ chan \in Seq({"batch", "failed"})
    /\ remaining \in Nat /\ generated \in Nat /\ sent \in Nat /\ discarded \in Nat
    /\ credit \in Nat /\ granted \in Nat /\ credit <= MaxPermits

Looping == {"starting", "opening", "top", "recv", "poll", "credit", "awaitHalt", "discarding",
            "sending", "progress"}

LoopHasNoOutcome == terminal = "none" <=> drive \in Looping

\* The source's failure is queued, and it is the last item.
FailedLast == Len(chan) > 0 /\ chan[Len(chan)] = "failed"

\* The batches of the channel, counted by its length.
Queued == IF FailedLast THEN Len(chan) - 1 ELSE Len(chan)

FailureEndsTheQueue ==
    \A i \in 1..Len(chan) : chan[i] = "failed" => i = Len(chan) /\ pump \in {"noticing", "done"}

FailureIsQueued == (terminal = "none" /\ (pump = "noticing" \/ failedNotice)) => FailedLast

BatchesAreSomewhere ==
    (terminal = "none" /\ drive # "awaitHalt") =>
        generated = sent + discarded + Queued + held + (IF pump = "queueing" THEN 1 ELSE 0)

DiscardingIsFinal == terminal = "none" /\ drive # "discarding" /\ drive # "awaitHalt" => discarded = 0

PumpHadReason == pump = "done" => observed \/ remaining = 0 \/ failedNotice \/ drive = "returned"

CompletedIsOver == terminal = "completed" => pump = "done"

CreditIsCovered == sent + credit <= granted

\* The inductive invariant.
IInv == /\ DriveTypes /\ LoopHasNoOutcome /\ FailureEndsTheQueue /\ FailureIsQueued
        /\ BatchesAreSomewhere /\ DiscardingIsFinal /\ PumpHadReason /\ CompletedIsOver
        /\ CompletedIsWhole /\ CreditIsCovered

-----------------------------------------------------------------------------
\* The lesser of two numbers.
LEMMA MinOfTwo ==
  ASSUME NEW a \in Nat, NEW b \in Nat
  PROVE  Min({a, b}) \in Nat /\ Min({a, b}) <= a /\ Min({a, b}) <= b
<1>1. \E x \in {a, b} : \A y \in {a, b} : x <= y
  <2>1. CASE a <= b BY <2>1
  <2>2. CASE b <= a BY <2>2
  <2> QED BY <2>1, <2>2
<1>2. Min({a, b}) \in {a, b} /\ \A y \in {a, b} : Min({a, b}) <= y
  BY <1>1 DEF Min
<1> QED BY <1>2

\* The owner's and the reader's steps move no batch; a grant covers the credit it adds.
LEMMA OthersKeep ==
  ASSUME IInv, UNCHANGED <<pumpVars, chan, driveVars>>, observed => observed',
         halt' \in {"none", "cancelled", "transport_failed"},
         credit' \in Nat, granted' \in Nat, credit' <= MaxPermits, sent + credit' <= granted'
  PROVE  IInv'
BY DEF pumpVars, driveVars, IInv, DriveTypes, LoopHasNoOutcome, FailureEndsTheQueue, FailureIsQueued,
      BatchesAreSomewhere, DiscardingIsFinal, PumpHadReason, CompletedIsOver, CompletedIsWhole,
      CreditIsCovered, FailedLast, Queued, held, Looping

\* Taking the first item off the channel.
LEMMA TakeFacts ==
  ASSUME DriveTypes, FailureEndsTheQueue, chan # <<>>, chan' = Tail(chan), pump' = pump
  PROVE  /\ chan' \in Seq({"batch", "failed"}) /\ Len(chan') = Len(chan) - 1
         /\ FailureEndsTheQueue'
         /\ Head(chan) = "batch" => (FailedLast' <=> FailedLast) /\ Queued' = Queued - 1
         /\ Head(chan) = "failed" => Queued = 0 /\ Queued' = 0 /\ pump \in {"noticing", "done"}
<1>1. /\ chan' \in Seq({"batch", "failed"}) /\ Len(chan') = Len(chan) - 1
      /\ \A i \in 1..Len(chan') : chan'[i] = chan[i + 1]
      /\ Len(chan) \in Nat /\ Len(chan) > 0 /\ Head(chan) = chan[1] /\ Len(chan') \in Nat
  BY DEF DriveTypes
<1>2. FailureEndsTheQueue'
  <2> SUFFICES ASSUME NEW i \in 1..Len(chan'), chan'[i] = "failed"
               PROVE  i = Len(chan') /\ pump' \in {"noticing", "done"}
    BY DEF FailureEndsTheQueue
  <2>1. i + 1 \in 1..Len(chan) /\ chan[i + 1] = "failed"
    BY <1>1
  <2>2. i + 1 = Len(chan) /\ pump \in {"noticing", "done"}
    BY <2>1 DEF FailureEndsTheQueue
  <2>3. /\ i \in Int /\ Len(chan) \in Int /\ Len(chan') = Len(chan) - 1
    BY <1>1
  <2>4. i = Len(chan')
    BY <2>2, <2>3
  <2> QED BY <2>2, <2>4
<1>3. ASSUME Head(chan) = "batch" PROVE FailedLast' <=> FailedLast
  <2>1. CASE Len(chan) = 1
    BY <1>1, <1>3, <2>1 DEF FailedLast
  <2>2. CASE Len(chan) > 1
    <3>1. Len(chan') \in 1..Len(chan') /\ Len(chan') + 1 = Len(chan)
      BY <1>1, <2>2
    <3>2. chan'[Len(chan')] = chan[Len(chan)]
      BY <1>1, <3>1
    <3> QED BY <1>1, <3>1, <3>2, <2>2 DEF FailedLast
  <2> QED BY <1>1, <2>1, <2>2
<1>4. ASSUME Head(chan) = "failed" PROVE Queued = 0 /\ Queued' = 0 /\ pump \in {"noticing", "done"}
  <2>0. 1 \in 1..Len(chan) /\ chan[1] = "failed"
    BY <1>1, <1>4
  <2>1. Len(chan) = 1 /\ pump \in {"noticing", "done"}
    BY <2>0 DEF FailureEndsTheQueue
  <2> QED BY <1>1, <1>4, <2>1 DEF Queued, FailedLast
<1> QED BY <1>1, <1>2, <1>3, <1>4 DEF Queued

\* Putting an item behind batches.
LEMMA PutFacts ==
  ASSUME DriveTypes, FailureEndsTheQueue, pump \notin {"noticing", "done"},
         NEW item \in {"batch", "failed"}, chan' = Append(chan, item)
  PROVE  /\ chan' \in Seq({"batch", "failed"}) /\ ~FailedLast
         /\ FailedLast' <=> item = "failed"
         /\ Queued' = IF item = "failed" THEN Queued ELSE Queued + 1
         /\ item = "failed" => \A i \in 1..Len(chan') : chan'[i] = "failed" => i = Len(chan')
         /\ item = "batch" => \A i \in 1..Len(chan') : chan'[i] # "failed"
<1>1. /\ chan' \in Seq({"batch", "failed"}) /\ Len(chan') = Len(chan) + 1 /\ Len(chan) \in Nat
      /\ \A i \in 1..Len(chan) : chan'[i] = chan[i]
      /\ chan'[Len(chan) + 1] = item /\ chan' # <<>>
  BY DEF DriveTypes
<1>2. \A i \in 1..Len(chan) : chan[i] # "failed"
  BY DEF FailureEndsTheQueue
<1>3. ~FailedLast
  <2>1. CASE chan = <<>>
    BY <2>1 DEF FailedLast
  <2>2. CASE chan # <<>>
    BY <1>1, <1>2, <2>2 DEF FailedLast, DriveTypes
  <2> QED BY <2>1, <2>2
<1>4. FailedLast' <=> item = "failed"
  BY <1>1 DEF FailedLast
<1> QED BY <1>1, <1>2, <1>3, <1>4 DEF Queued

\* The pump's steps.
LEMMA PumpKeeps == ASSUME IInv, PumpStep PROVE IInv'
<1> USE DEF IInv, DriveTypes, PumpState, driveVars, creditVars, readerVars
<1>0. UNCHANGED <<drive, terminal, sent, discarded, credit, granted, observed, halt>> /\ held' = held
  BY DEF PumpStep, held
<1>1. CASE PumpCheck \/ PumpReserve \/ SourceEnds \/ SourceFails
  <2>1. /\ UNCHANGED <<chan, remaining, generated, failedNotice>>
        /\ pump \in {"check", "reserve", "calling"} /\ pump' \in {"reserve", "calling", "failing", "done"}
        /\ pump' = "done" => observed \/ drive = "returned" \/ remaining = 0
    BY <1>1 DEF PumpCheck, PumpReserve, SourceEnds, SourceFails
  <2>2. (FailedLast' <=> FailedLast) /\ Queued' = Queued
    BY <2>1 DEF FailedLast, Queued
  <2> QED
    BY <1>0, <2>1, <2>2 DEF LoopHasNoOutcome, FailureEndsTheQueue, FailureIsQueued,
       BatchesAreSomewhere, DiscardingIsFinal, PumpHadReason, CompletedIsOver, CompletedIsWhole,
       CreditIsCovered
<1>2. CASE SourceBatch
  <2>1. /\ UNCHANGED <<chan, failedNotice>> /\ pump = "calling" /\ pump' = "queueing"
        /\ remaining' = remaining - 1 /\ remaining > 0 /\ generated' = generated + 1
    BY <1>2 DEF SourceBatch
  <2>2. (FailedLast' <=> FailedLast) /\ Queued' = Queued
    BY <2>1 DEF FailedLast, Queued
  <2>3. Queued \in Int /\ held \in Nat
    BY DEF Queued, held
  <2>4. BatchesAreSomewhere'
    BY <1>0, <2>1, <2>2, <2>3 DEF BatchesAreSomewhere
  <2> QED
    BY <1>0, <2>1, <2>2, <2>4 DEF LoopHasNoOutcome, FailureEndsTheQueue, FailureIsQueued,
       DiscardingIsFinal, PumpHadReason, CompletedIsOver, CompletedIsWhole, CreditIsCovered
<1>3. CASE PumpSend
  <2>1. /\ UNCHANGED <<remaining, generated, failedNotice>> /\ pump = "queueing" /\ pump' = "check"
        /\ queueItem("batch")
    BY <1>3 DEF PumpSend
  <2>2. CASE drive = "returned"
    <3>1. terminal # "none" /\ chan' = chan
      BY <2>1, <2>2 DEF LoopHasNoOutcome, Looping, queueItem
    <3> QED
      BY <1>0, <2>1, <3>1 DEF LoopHasNoOutcome, FailureEndsTheQueue, FailureIsQueued,
         BatchesAreSomewhere, DiscardingIsFinal, PumpHadReason, CompletedIsOver,
         CompletedIsWhole, CreditIsCovered
  <2>3. CASE drive # "returned"
    <3>1. chan' = Append(chan, "batch")
      BY <2>1, <2>3 DEF queueItem
    <3>2. /\ chan' \in Seq({"batch", "failed"}) /\ ~FailedLast /\ Queued' = Queued + 1
          /\ \A i \in 1..Len(chan') : chan'[i] # "failed"
      BY <2>1, <3>1, PutFacts
    <3>3. Queued \in Int /\ held \in Nat
      BY DEF Queued, held
    <3>4. BatchesAreSomewhere'
      BY <1>0, <2>1, <3>2, <3>3 DEF BatchesAreSomewhere
    <3>5. FailureEndsTheQueue' /\ FailureIsQueued'
      BY <1>0, <2>1, <3>2 DEF FailureEndsTheQueue, FailureIsQueued
    <3> QED
      BY <1>0, <2>1, <3>2, <3>4, <3>5 DEF LoopHasNoOutcome, DiscardingIsFinal, PumpHadReason,
         CompletedIsOver, CompletedIsWhole, CreditIsCovered
  <2> QED BY <2>2, <2>3
<1>4. CASE PumpFail
  <2>1. /\ UNCHANGED <<remaining, generated, failedNotice>> /\ pump = "failing" /\ pump' = "noticing"
        /\ queueItem("failed")
    BY <1>4 DEF PumpFail
  <2>2. CASE drive = "returned"
    <3>1. terminal # "none" /\ chan' = chan
      BY <2>1, <2>2 DEF LoopHasNoOutcome, Looping, queueItem
    <3> QED
      BY <1>0, <2>1, <3>1 DEF LoopHasNoOutcome, FailureEndsTheQueue, FailureIsQueued,
         BatchesAreSomewhere, DiscardingIsFinal, PumpHadReason, CompletedIsOver,
         CompletedIsWhole, CreditIsCovered
  <2>3. CASE drive # "returned"
    <3>1. chan' = Append(chan, "failed")
      BY <2>1, <2>3 DEF queueItem
    <3>2. /\ chan' \in Seq({"batch", "failed"}) /\ FailedLast' /\ Queued' = Queued
          /\ \A i \in 1..Len(chan') : chan'[i] = "failed" => i = Len(chan')
      BY <2>1, <3>1, PutFacts
    <3>4. BatchesAreSomewhere'
      BY <1>0, <2>1, <3>2 DEF BatchesAreSomewhere
    <3>5. FailureEndsTheQueue' /\ FailureIsQueued'
      BY <1>0, <2>1, <3>2 DEF FailureEndsTheQueue, FailureIsQueued
    <3> QED
      BY <1>0, <2>1, <3>2, <3>4, <3>5 DEF LoopHasNoOutcome, DiscardingIsFinal, PumpHadReason,
         CompletedIsOver, CompletedIsWhole, CreditIsCovered
  <2> QED BY <2>2, <2>3
<1>5. CASE PumpNotify
  <2>1. /\ UNCHANGED <<chan, remaining, generated>> /\ pump = "noticing" /\ pump' = "done"
        /\ failedNotice'
    BY <1>5 DEF PumpNotify
  <2>2. (FailedLast' <=> FailedLast) /\ Queued' = Queued
    BY <2>1 DEF FailedLast, Queued
  <2> QED
    BY <1>0, <2>1, <2>2 DEF LoopHasNoOutcome, FailureEndsTheQueue, FailureIsQueued,
       BatchesAreSomewhere, DiscardingIsFinal, PumpHadReason, CompletedIsOver, CompletedIsWhole,
       CreditIsCovered
<1> QED BY <1>1, <1>2, <1>3, <1>4, <1>5 DEF PumpStep, PumpOwn, SourceReturns

\* A step of the writer that moves no batch and counts none.
LEMMA MoveKeeps ==
  ASSUME IInv, UNCHANGED <<pumpVars, chan, sent, discarded, credit, granted, halt>>,
         observed => observed',
         drive' \in DriveState, drive # "returned",
         \/ /\ drive \in Looping \ {"discarding", "awaitHalt"} /\ drive' \in Looping \ {"discarding"}
            /\ drive' # "awaitHalt" => held' = held
            /\ terminal' = terminal
         \/ /\ drive \in Looping /\ drive' \notin Looping
            /\ terminal' \in {"cancelled", "producer_failed", "transport_failed"}
         \/ /\ drive \notin Looping /\ drive' \notin Looping /\ terminal' = terminal
  PROVE  IInv'
<1> USE DEF IInv, DriveTypes, pumpVars
<1>1. (FailedLast' <=> FailedLast) /\ Queued' = Queued
  BY DEF FailedLast, Queued
<1>2. DriveTypes' /\ LoopHasNoOutcome' /\ FailureEndsTheQueue' /\ CreditIsCovered'
  BY DEF LoopHasNoOutcome, FailureEndsTheQueue, CreditIsCovered, Outcome
<1>3. FailureIsQueued' /\ DiscardingIsFinal'
  BY <1>1 DEF LoopHasNoOutcome, FailureIsQueued, DiscardingIsFinal, Looping
<1>4. BatchesAreSomewhere'
  BY <1>1 DEF LoopHasNoOutcome, BatchesAreSomewhere, Looping
<1>5. PumpHadReason' /\ CompletedIsOver' /\ CompletedIsWhole'
  BY DEF LoopHasNoOutcome, PumpHadReason, CompletedIsOver, CompletedIsWhole, Looping
<1> QED BY <1>2, <1>3, <1>4, <1>5

\* The writer's steps.
LEMMA DriveKeeps == ASSUME IInv, DriveStep PROVE IInv'
<1> USE DEF IInv, DriveTypes, DriveState, pumpVars, cancelVars
<1>0. UNCHANGED <<pumpVars, granted, halt>>
  BY DEF DriveStep
<1>1. CASE OnCancel \/ SendOpen \/ HaltCheck \/ SendFrame
  BY <1>0, <1>1, MoveKeeps
     DEF OnCancel, SendOpen, HaltCheck, SendFrame, goTo, breakWith, halted, countVars, held, Looping,
         LoopHasNoOutcome
<1>2. CASE OpenFails \/ Halted \/ SendFails \/ CreditClosed
  BY <1>0, <1>2, MoveKeeps
     DEF OpenFails, Halted, SendFails, CreditClosed, breakWith, halted, countVars, Looping
<1>3. CASE StopSource \/ SendTerminal \/ Drained
  BY <1>0, <1>3, MoveKeeps
     DEF StopSource, SendTerminal, Drained, goTo, countVars, Looping
<1>4. CASE RecvBatch
  <2>1. /\ drive = "recv" /\ drive' = "poll" /\ terminal' = terminal /\ terminal = "none"
        /\ chan # <<>> /\ Head(chan) = "batch" /\ chan' = Tail(chan)
        /\ UNCHANGED <<pump, sent, discarded, credit, observed, generated, remaining, failedNotice>>
    BY <1>0, <1>4 DEF RecvBatch, goTo, countVars, LoopHasNoOutcome, Looping
  <2>2. /\ chan' \in Seq({"batch", "failed"}) /\ FailureEndsTheQueue'
        /\ (FailedLast' <=> FailedLast) /\ Queued' = Queued - 1
    BY <2>1, TakeFacts
  <2>3. held = 0 /\ held' = 1 /\ Queued \in Int
    BY <2>1 DEF held, Queued
  <2>4. BatchesAreSomewhere'
    BY <1>0, <2>1, <2>2, <2>3 DEF BatchesAreSomewhere
  <2> QED
    BY <1>0, <2>1, <2>2, <2>4 DEF LoopHasNoOutcome, Looping, FailureIsQueued, DiscardingIsFinal,
       PumpHadReason, CompletedIsOver, CompletedIsWhole, CreditIsCovered
<1>5. CASE RecvFailed \/ DiscardEnds
  <2>1. /\ drive \in Looping /\ drive' = "stopping" /\ terminal' = "producer_failed"
        /\ chan' = chan \/ (chan # <<>> /\ chan' = Tail(chan))
        /\ UNCHANGED <<pump, sent, discarded, credit, observed, generated, remaining, failedNotice>>
    BY <1>0, <1>5 DEF RecvFailed, DiscardEnds, breakWith, countVars, Looping
  <2>2. chan' \in Seq({"batch", "failed"}) /\ FailureEndsTheQueue'
    BY <2>1, TakeFacts DEF FailureEndsTheQueue
  <2> QED
    BY <1>0, <2>1, <2>2 DEF LoopHasNoOutcome, Looping, Outcome, FailureIsQueued, BatchesAreSomewhere,
       DiscardingIsFinal, PumpHadReason, CompletedIsOver, CompletedIsWhole, CreditIsCovered
<1>6. CASE RecvClosed
  <2>1. /\ drive = "recv" /\ drive' = "stopping" /\ terminal' = "completed" /\ terminal = "none"
        /\ chan = <<>> /\ pump = "done" /\ pump' = "done"
        /\ UNCHANGED <<chan, sent, discarded, credit, observed, generated, remaining, failedNotice>>
    BY <1>0, <1>6 DEF RecvClosed, breakWith, countVars, LoopHasNoOutcome, Looping
  <2>2. ~FailedLast /\ Queued = 0 /\ held = 0
    BY <2>1 DEF FailedLast, Queued, held
  <2>3. sent = generated /\ discarded = 0
    BY <2>1, <2>2 DEF BatchesAreSomewhere, DiscardingIsFinal
  <2>4. ~failedNotice
    BY <2>1, <2>2 DEF FailureIsQueued
  <2>5. remaining = 0 \/ observed
    BY <2>1, <2>4 DEF PumpHadReason
  <2> QED
    BY <1>0, <2>1, <2>3, <2>5 DEF LoopHasNoOutcome, Looping, Outcome, FailureEndsTheQueue,
       FailureIsQueued, BatchesAreSomewhere, DiscardingIsFinal, PumpHadReason, CompletedIsOver,
       CompletedIsWhole, CreditIsCovered
<1>7. CASE PollNotices \/ NoticeRaised
  <2>1. /\ drive \in {"poll", "credit"}
        /\ UNCHANGED <<chan, credit, observed>>
        /\ \/ drive' = "stopping" /\ terminal' = halt /\ halt # "none" /\ UNCHANGED <<sent, discarded>>
           \/ drive' \in {"awaitHalt", "credit"} /\ terminal' = terminal /\ UNCHANGED <<sent, discarded>>
           \/ drive' = "discarding" /\ terminal' = terminal /\ sent' = sent /\ discarded' = discarded + 1
    BY <1>7 DEF PollNotices, NoticeRaised, startDiscard, ownerEnds, breakWith, goTo, halted, countVars
  <2>2. CASE drive' = "discarding" /\ terminal' = terminal /\ sent' = sent /\ discarded' = discarded + 1
    <3>1. (FailedLast' <=> FailedLast) /\ Queued' = Queued /\ held = 1 /\ held' = 0 /\ Queued \in Int
      BY <2>1, <2>2 DEF FailedLast, Queued, held
    <3>2. BatchesAreSomewhere'
      BY <1>0, <2>1, <2>2, <3>1 DEF BatchesAreSomewhere
    <3> QED
      BY <1>0, <2>1, <2>2, <3>1, <3>2 DEF LoopHasNoOutcome, Looping, FailureEndsTheQueue,
         FailureIsQueued, DiscardingIsFinal, PumpHadReason, CompletedIsOver, CompletedIsWhole,
         CreditIsCovered
  <2>3. CASE drive' = "stopping" /\ terminal' = halt /\ halt # "none" /\ UNCHANGED <<sent, discarded>>
    BY <1>0, <2>1, <2>3, MoveKeeps DEF Looping
  <2>4. CASE drive' \in {"awaitHalt", "credit"} /\ terminal' = terminal /\ UNCHANGED <<sent, discarded>>
    BY <1>0, <2>1, <2>4, MoveKeeps DEF Looping, held
  <2> QED BY <2>1, <2>2, <2>3, <2>4
<1>8. CASE TakeCredit
  <2>1. /\ drive = "credit" /\ drive' = "sending" /\ terminal' = terminal
        /\ credit > 0 /\ credit' = credit - 1 /\ sent' = sent + 1
        /\ UNCHANGED <<chan, discarded, observed>>
    BY <1>8 DEF TakeCredit, goTo
  <2>2. (FailedLast' <=> FailedLast) /\ Queued' = Queued /\ held = 1 /\ held' = 0 /\ Queued \in Int
    BY <2>1 DEF FailedLast, Queued, held
  <2>3. BatchesAreSomewhere' /\ CreditIsCovered'
    BY <1>0, <2>1, <2>2 DEF BatchesAreSomewhere, CreditIsCovered
  <2>4. DriveTypes'
    BY <1>0, <2>1, CreditAssumption
  <2>5. CompletedIsOver' /\ CompletedIsWhole' /\ LoopHasNoOutcome'
    BY <1>0, <2>1 DEF LoopHasNoOutcome, Looping, CompletedIsOver, CompletedIsWhole
  <2> QED
    BY <1>0, <2>1, <2>2, <2>3, <2>4, <2>5 DEF FailureEndsTheQueue, FailureIsQueued,
       DiscardingIsFinal, PumpHadReason
<1>9. CASE DiscardBatch
  <2>1. /\ drive = "discarding" /\ drive' = drive /\ terminal' = terminal /\ terminal = "none"
        /\ chan # <<>> /\ Head(chan) = "batch" /\ chan' = Tail(chan) /\ discarded' = discarded + 1
        /\ UNCHANGED <<pump, sent, credit, observed, generated, remaining, failedNotice>>
    BY <1>0, <1>9 DEF DiscardBatch, LoopHasNoOutcome, Looping
  <2>2. /\ chan' \in Seq({"batch", "failed"}) /\ FailureEndsTheQueue'
        /\ (FailedLast' <=> FailedLast) /\ Queued' = Queued - 1
    BY <2>1, TakeFacts
  <2>3. held = 0 /\ held' = 0 /\ Queued \in Int
    BY <2>1 DEF held, Queued
  <2>4. BatchesAreSomewhere'
    BY <1>0, <2>1, <2>2, <2>3 DEF BatchesAreSomewhere
  <2> QED
    BY <1>0, <2>1, <2>2, <2>4 DEF LoopHasNoOutcome, Looping, FailureIsQueued, DiscardingIsFinal,
       PumpHadReason, CompletedIsOver, CompletedIsWhole, CreditIsCovered
<1> QED
  BY <1>1, <1>2, <1>3, <1>4, <1>5, <1>6, <1>7, <1>8, <1>9 DEF DriveStep, DriveOwn

\* Every step keeps the invariant.
LEMMA Step == IInv /\ [Next]_vars => IInv'
<1> SUFFICES ASSUME IInv, [Next]_vars PROVE IInv'
  OBVIOUS
<1>1. CASE OwnerStep
  BY <1>1, OthersKeep DEF OwnerStep, creditVars, readerVars, IInv, DriveTypes, CreditIsCovered
<1>2. CASE ReaderStep
  <2>1. UNCHANGED <<pumpVars, chan, driveVars>>
    BY <1>2 DEF ReaderStep
  <2>2. CASE ReadCredit
    <3>1. PICK n \in Grants : /\ granted' = granted + n
                              /\ credit' = credit + Min({n, MaxPermits - credit})
      BY <2>2 DEF ReadCredit
    <3>2. n \in Nat /\ MaxPermits - credit \in Nat
      BY CreditAssumption DEF IInv, DriveTypes
    <3>3. /\ Min({n, MaxPermits - credit}) \in Nat /\ Min({n, MaxPermits - credit}) <= n
          /\ Min({n, MaxPermits - credit}) <= MaxPermits - credit
      BY <3>2, MinOfTwo
    <3>4. /\ credit' \in Nat /\ granted' \in Nat /\ credit' <= MaxPermits
          /\ sent + credit' <= granted'
      BY <3>1, <3>2, <3>3, CreditAssumption DEF IInv, DriveTypes, CreditIsCovered
    <3>5. observed' = observed /\ halt' = halt
      BY <2>2 DEF ReadCredit
    <3> QED BY <2>1, <3>4, <3>5, OthersKeep DEF IInv, DriveTypes
  <2>3. CASE ReadEvent \/ ReaderOwn
    <3>1. credit' = credit /\ granted' = granted /\ (halt' = halt \/ halt' = haltOf(event))
      BY <2>3 DEF ReadEvent, ReaderOwn, ReaderCancels, ReaderHalts, ReaderCloses, ReaderAborted, creditVars
    <3>4. observed => observed'
      BY <2>3 DEF ReadEvent, ReaderOwn, ReaderCancels, ReaderHalts, ReaderCloses, ReaderAborted
    <3>2. halt' \in {"none", "cancelled", "transport_failed"}
      BY <3>1 DEF haltOf, IInv, DriveTypes
    <3>3. /\ credit' \in Nat /\ granted' \in Nat /\ credit' <= MaxPermits
          /\ sent + credit' <= granted'
      BY <3>1 DEF IInv, DriveTypes, CreditIsCovered
    <3> QED BY <2>1, <3>2, <3>3, <3>4, OthersKeep
  <2> QED BY <1>2, <2>2, <2>3 DEF ReaderStep
<1>3. CASE Over \/ UNCHANGED vars
  BY <1>3, OthersKeep DEF Over, vars, creditVars, readerVars, IInv, DriveTypes, CreditIsCovered
<1> QED BY <1>1, <1>2, <1>3, PumpKeeps, DriveKeeps DEF Next

\* The invariant holds at the start.
LEMMA Start == Init => IInv
BY BatchAssumption, CreditAssumption
   DEF Init, IInv, DriveTypes, PumpState, DriveState, Looping, LoopHasNoOutcome, FailedLast, Queued,
       held, FailureEndsTheQueue, FailureIsQueued, BatchesAreSomewhere, DiscardingIsFinal,
       PumpHadReason, CompletedIsOver, CompletedIsWhole, CreditIsCovered

\* A stream that ends as completed sent every batch that was generated and dropped none, and its
\* source was exhausted unless its own peer cancelled it (adapter_ws.rs drive), for every
\* capacity, source and sequence of grants.
THEOREM CompletedCorrect == Spec => []CompletedIsWhole
<1>1. IInv => CompletedIsWhole
  BY DEF IInv
<1> QED BY <1>1, Start, Step, PTL DEF Spec

\* The peer is never sent more batches than it granted (adapter_ws.rs, the forgotten permit),
\* although grants beyond the semaphore's ceiling are cut.
THEOREM CreditCorrect == Spec => []CreditIsSpent
<1>1. IInv => CreditIsSpent
  BY DEF IInv, DriveTypes, CreditIsCovered, CreditIsSpent
<1> QED BY <1>1, Start, Step, PTL DEF Spec

-----------------------------------------------------------------------------
(* The bounds.  A slot of the channel is reserved before the source is      *)
(* called, so what is not yet counted out fits the channel and the one      *)
(* batch the writer holds, or held when its loop ended.  When the writer    *)
(* has returned, the slot reserved last may still be filled, once.          *)

SlotIsReserved ==
    drive # "returned" =>
        Len(chan) + (IF pump \in {"calling", "queueing", "failing"} THEN 1 ELSE 0) <= Capacity

CountedAfterGenerated == generated >= sent + discarded

UncountedIsBounded ==
    IF drive # "returned"
    THEN generated <= sent + discarded + Queued + 1 + (IF pump = "queueing" THEN 1 ELSE 0)
    ELSE generated + (IF pump = "calling" THEN 1 ELSE 0) <= sent + discarded + Capacity + 1

FailedIsOver == terminal = "producer_failed" => pump \in {"noticing", "done"}

\* The second layer of the inductive invariant.
BInv == /\ SlotIsReserved /\ CountedAfterGenerated /\ UncountedIsBounded
        /\ FailedIsOver /\ DrainAccountsForAll

\* The channel's batches, counted by its length, are no more than its items.
LEMMA QueuedFacts == ASSUME IInv PROVE Queued \in Nat /\ Queued <= Len(chan) /\ Len(chan) \in Nat
BY DEF IInv, DriveTypes, Queued, FailedLast

\* The channel's batches are the items before a failure.
LEMMA QueuedCounts == ASSUME IInv PROVE queued = Queued
<1>1. Queued \in Nat /\ Queued <= Len(chan) /\ Len(chan) \in Nat
  BY QueuedFacts
<1>2. ASSUME NEW i \in 1..Len(chan) PROVE chan[i] = "batch" <=> i <= Queued
  <2>1. chan[i] \in {"batch", "failed"} /\ i \in Int
    BY DEF IInv, DriveTypes
  <2>2. chan[i] = "failed" => i = Len(chan)
    BY DEF IInv, FailureEndsTheQueue
  <2> QED BY <1>1, <2>1, <2>2 DEF Queued, FailedLast
<1>3. {i \in 1..Len(chan) : chan[i] = "batch"} = 1..Queued
  BY <1>1, <1>2
<1>4. Cardinality(1..Queued) = Queued
  BY <1>1, FS_Interval
<1> QED BY <1>3, <1>4 DEF queued

\* A step in the loop that leaves the writer in it counts no batch twice.
LEMMA LoopCounts ==
  ASSUME IInv', terminal' = "none", drive' # "awaitHalt"
  PROVE  /\ CountedAfterGenerated' /\ drive' # "returned"
         /\ generated' <= sent' + discarded' + Queued' + 1 + (IF pump' = "queueing" THEN 1 ELSE 0)
<1>1. Queued' \in Nat
  BY DEF IInv, DriveTypes, Queued, FailedLast
<1>2. held' \in 0..1
  BY DEF held
<1>3. generated' = sent' + discarded' + Queued' + held' + (IF pump' = "queueing" THEN 1 ELSE 0)
  BY DEF IInv, BatchesAreSomewhere
<1>4. drive' # "returned"
  BY DEF IInv, LoopHasNoOutcome, Looping
<1>5. generated' \in Nat /\ sent' \in Nat /\ discarded' \in Nat
  BY DEF IInv, DriveTypes
<1>6. (IF pump' = "queueing" THEN 1 ELSE 0) \in 0..1
  OBVIOUS
<1>7. ASSUME NEW g \in Nat, NEW s \in Nat, NEW d \in Nat, NEW q \in Nat, NEW h \in 0..1,
             NEW x \in 0..1, g = s + d + q + h + x
      PROVE  g >= s + d /\ g <= s + d + q + 1 + x
  BY <1>7
<1>8. /\ generated' >= sent' + discarded'
      /\ generated' <= sent' + discarded' + Queued' + 1 + (IF pump' = "queueing" THEN 1 ELSE 0)
  BY <1>1, <1>2, <1>3, <1>5, <1>6, <1>7
<1> QED BY <1>4, <1>8 DEF CountedAfterGenerated

\* Steps that touch neither the batches nor the writer.
LEMMA OthersBound == ASSUME BInv, UNCHANGED <<pumpVars, chan, driveVars>> PROVE BInv'
BY DEF pumpVars, driveVars, BInv, SlotIsReserved, CountedAfterGenerated, UncountedIsBounded,
      FailedIsOver, DrainAccountsForAll, Queued, FailedLast

\* The pump's steps.
LEMMA PumpBounds == ASSUME IInv, BInv, PumpStep PROVE BInv'
<1> USE DEF BInv, SlotIsReserved, CountedAfterGenerated, UncountedIsBounded, FailedIsOver,
            DrainAccountsForAll, driveVars
<1>0. UNCHANGED <<drive, terminal, sent, discarded>>
  BY DEF PumpStep
<1>1. /\ Queued \in Nat /\ Queued <= Len(chan) /\ Len(chan) \in Nat /\ Capacity \in Nat
      /\ generated \in Nat /\ sent \in Nat /\ discarded \in Nat /\ pump \in PumpState
  BY QueuedFacts, CapacityAssumption DEF IInv, DriveTypes
<1>2. chan' = chan => Queued' = Queued
  BY DEF Queued, FailedLast
<1>3. CASE PumpCheck \/ SourceEnds \/ SourceFails
  BY <1>0, <1>1, <1>2, <1>3 DEF PumpCheck, SourceEnds, SourceFails
<1>4. CASE PumpReserve
  BY <1>0, <1>1, <1>2, <1>4 DEF PumpReserve
<1>5. CASE SourceBatch
  BY <1>0, <1>1, <1>2, <1>5 DEF SourceBatch
<1>6. CASE PumpSend
  <2>1. pump = "queueing" /\ pump' = "check" /\ generated' = generated /\ queueItem("batch")
    BY <1>6 DEF PumpSend
  <2>2. CASE drive = "returned"
    BY <1>0, <1>1, <1>2, <2>1, <2>2 DEF queueItem
  <2>3. CASE drive # "returned"
    <3>1. chan' = Append(chan, "batch")
      BY <2>1, <2>3 DEF queueItem
    <3>2. Queued' = Queued + 1 /\ Len(chan') = Len(chan) + 1
      BY <2>1, <3>1, PutFacts DEF IInv, DriveTypes
    <3> QED BY <1>0, <1>1, <2>1, <2>3, <3>2
  <2> QED BY <2>2, <2>3
<1>7. CASE PumpFail
  <2>1. pump = "failing" /\ pump' = "noticing" /\ generated' = generated /\ queueItem("failed")
    BY <1>7 DEF PumpFail
  <2>2. CASE drive = "returned"
    BY <1>0, <1>1, <1>2, <2>1, <2>2 DEF queueItem
  <2>3. CASE drive # "returned"
    <3>1. chan' = Append(chan, "failed")
      BY <2>1, <2>3 DEF queueItem
    <3>2. Queued' = Queued /\ Len(chan') = Len(chan) + 1
      BY <2>1, <3>1, PutFacts DEF IInv, DriveTypes
    <3> QED BY <1>0, <1>1, <2>1, <2>3, <3>2
  <2> QED BY <2>2, <2>3
<1>8. CASE PumpNotify
  BY <1>0, <1>1, <1>2, <1>8 DEF PumpNotify
<1> QED BY <1>3, <1>4, <1>5, <1>6, <1>7, <1>8 DEF PumpStep, PumpOwn, SourceReturns

\* A step of the writer that counts no batch.
LEMMA MoveBounds ==
  ASSUME IInv, BInv, UNCHANGED <<pumpVars, sent, discarded>>,
         drive # "returned",
         chan' = chan \/ (Queued' = Queued /\ Len(chan') = Len(chan) - 1),
         \/ terminal' = terminal
         \/ terminal' \in {"none", "completed", "cancelled", "transport_failed"}
         \/ /\ terminal' = "producer_failed" /\ pump \in {"noticing", "done"}
            /\ discarded > 0 => sent + discarded = generated
  PROVE  BInv'
<1>0. UNCHANGED <<pump, generated, sent, discarded>>
  BY DEF pumpVars
<1>1. /\ Queued \in Nat /\ Queued <= Len(chan) /\ Len(chan) \in Nat /\ Capacity \in Nat
      /\ generated \in Nat /\ sent \in Nat /\ discarded \in Nat
  BY QueuedFacts, CapacityAssumption DEF IInv, DriveTypes
<1>2. Queued' = Queued /\ Len(chan') <= Len(chan) /\ Len(chan') \in Int
  BY <1>1 DEF Queued, FailedLast
<1>3. SlotIsReserved' /\ CountedAfterGenerated'
  BY <1>0, <1>1, <1>2 DEF BInv, SlotIsReserved, CountedAfterGenerated
<1>4. UncountedIsBounded'
  BY <1>0, <1>1, <1>2 DEF BInv, SlotIsReserved, UncountedIsBounded
<1>5. FailedIsOver' /\ DrainAccountsForAll'
  BY <1>0 DEF BInv, FailedIsOver, DrainAccountsForAll
<1> QED BY <1>3, <1>4, <1>5 DEF BInv

\* The writer's steps.
LEMMA DriveBounds == ASSUME IInv, BInv, DriveStep, IInv' PROVE BInv'
<1>0. UNCHANGED pumpVars /\ UNCHANGED <<pump, generated>>
  BY DEF DriveStep, pumpVars
<1>1. CASE OnCancel \/ SendOpen \/ HaltCheck \/ SendFrame \/ OpenFails \/ Halted \/ SendFails \/ CreditClosed
  <2>1. halt \in {"none", "cancelled", "transport_failed"}
    BY DEF IInv, DriveTypes
  <2> QED
    BY <1>0, <1>1, <2>1, MoveBounds
       DEF OnCancel, SendOpen, HaltCheck, SendFrame, OpenFails, Halted, SendFails, CreditClosed,
           goTo, breakWith, halted, countVars
<1>2. CASE StopSource \/ SendTerminal \/ Drained \/ RecvClosed
  BY <1>0, <1>2, MoveBounds
     DEF StopSource, SendTerminal, Drained, RecvClosed, breakWith, goTo, countVars
<1>3. CASE RecvBatch \/ DiscardBatch \/ TakeCredit
  <2>1. /\ drive \in {"recv", "discarding", "credit"} /\ drive' \in {"poll", "discarding", "sending"}
        /\ terminal' = terminal
        /\ chan' = chan \/ (chan # <<>> /\ chan' = Tail(chan))
    BY <1>3 DEF RecvBatch, DiscardBatch, TakeCredit, goTo
  <2>2. terminal = "none"
    BY <2>1 DEF IInv, LoopHasNoOutcome, Looping
  <2>3. Len(chan') <= Len(chan) /\ Len(chan) \in Nat /\ Len(chan') \in Int /\ Capacity \in Nat
    BY <2>1, CapacityAssumption DEF IInv, DriveTypes
  <2>4. SlotIsReserved'
    BY <1>0, <2>1, <2>3 DEF BInv, SlotIsReserved
  <2>5. CountedAfterGenerated' /\ UncountedIsBounded'
    BY <2>1, <2>2, LoopCounts DEF UncountedIsBounded
  <2> QED BY <2>1, <2>2, <2>4, <2>5 DEF BInv, FailedIsOver, DrainAccountsForAll
<1>4. CASE PollNotices \/ NoticeRaised
  <2>1. /\ drive \in {"poll", "credit"} /\ UNCHANGED <<chan>>
        /\ \/ drive' = "stopping" /\ terminal' = halt /\ UNCHANGED <<sent, discarded>>
           \/ drive' \in {"awaitHalt", "credit"} /\ terminal' = terminal /\ UNCHANGED <<sent, discarded>>
           \/ drive' = "discarding" /\ terminal' = terminal
    BY <1>4 DEF PollNotices, NoticeRaised, startDiscard, ownerEnds, breakWith, goTo, halted, countVars
  <2>2. CASE drive' = "discarding" /\ terminal' = terminal
    <3>1. terminal = "none"
      BY <2>1 DEF IInv, LoopHasNoOutcome, Looping
    <3>2. SlotIsReserved'
      BY <1>0, <2>1, <2>2 DEF BInv, SlotIsReserved
    <3>3. CountedAfterGenerated' /\ UncountedIsBounded'
      BY <2>2, <3>1, LoopCounts DEF UncountedIsBounded
    <3> QED BY <2>2, <3>1, <3>2, <3>3 DEF BInv, FailedIsOver, DrainAccountsForAll
  <2>3. CASE \/ drive' = "stopping" /\ terminal' = halt /\ UNCHANGED <<sent, discarded>>
             \/ drive' \in {"awaitHalt", "credit"} /\ terminal' = terminal /\ UNCHANGED <<sent, discarded>>
    BY <1>0, <2>1, <2>3, MoveBounds DEF IInv, DriveTypes
  <2> QED BY <2>1, <2>2, <2>3
<1>5. CASE RecvFailed \/ DiscardEnds
  <2>1. /\ drive \in {"recv", "discarding"} /\ terminal' = "producer_failed"
        /\ UNCHANGED <<sent, discarded>>
        /\ \/ chan # <<>> /\ Head(chan) = "failed" /\ chan' = Tail(chan)
           \/ drive = "discarding" /\ chan = <<>> /\ pump = "done" /\ chan' = chan
    BY <1>5 DEF RecvFailed, DiscardEnds, breakWith, countVars
  <2>2. terminal = "none" /\ held = 0
    BY <2>1 DEF IInv, LoopHasNoOutcome, Looping, held
  <2>3. /\ Queued = 0 /\ pump \in {"noticing", "done"}
        /\ chan' = chan \/ (Queued' = Queued /\ Len(chan') = Len(chan) - 1)
    <3>1. CASE chan # <<>> /\ Head(chan) = "failed" /\ chan' = Tail(chan)
      BY <1>0, <3>1, TakeFacts DEF IInv
    <3>2. CASE chan = <<>> /\ pump = "done" /\ chan' = chan
      BY <3>2 DEF Queued, FailedLast
    <3> QED BY <2>1, <3>1, <3>2
  <2>4. sent + discarded = generated
    BY <2>1, <2>2, <2>3 DEF IInv, DriveTypes, BatchesAreSomewhere
  <2> QED BY <1>0, <2>1, <2>3, <2>4, MoveBounds
<1> QED BY <1>1, <1>2, <1>3, <1>4, <1>5 DEF DriveStep, DriveOwn

\* Both layers are inductive together.
LEMMA BoundStep == IInv /\ BInv /\ [Next]_vars => IInv' /\ BInv'
<1> SUFFICES ASSUME IInv, BInv, [Next]_vars PROVE IInv' /\ BInv'
  OBVIOUS
<1>1. IInv'
  BY Step
<1>2. CASE OwnerStep \/ ReaderStep \/ Over \/ UNCHANGED vars
  BY <1>1, <1>2, OthersBound DEF OwnerStep, ReaderStep, Over, vars
<1> QED BY <1>1, <1>2, PumpBounds, DriveBounds DEF Next

LEMMA BoundStart == Init => BInv
<1> SUFFICES ASSUME Init PROVE BInv
  OBVIOUS
<1>1. Queued = 0
  BY DEF Init, Queued, FailedLast
<1> QED
  BY <1>1, CapacityAssumption
     DEF Init, BInv, SlotIsReserved, CountedAfterGenerated, UncountedIsBounded, FailedIsOver,
         DrainAccountsForAll

\* At most one batch more than the channel's capacity is resident, in every interleaving of the
\* pump's and the writer's counting and after either of them ended, and no more is sent than
\* was granted (transport.rs resident_bytes, adapter_ws.rs drive, pump.rs run).
THEOREM FlowCorrect == Spec => []FlowIsControlled
<1>1. ASSUME IInv, BInv PROVE FlowIsControlled
  <2>1. /\ Queued \in Nat /\ Queued <= Len(chan) /\ Len(chan) \in Nat /\ Capacity \in Nat
        /\ generated \in Nat /\ sent \in Nat /\ discarded \in Nat /\ credit \in Nat /\ granted \in Nat
    BY <1>1, QueuedFacts, CapacityAssumption DEF IInv, DriveTypes
  <2>2. CreditIsSpent
    BY <1>1, <2>1 DEF IInv, CreditIsCovered, CreditIsSpent
  <2>3. generated >= sent + discarded
    BY <1>1 DEF BInv, CountedAfterGenerated
  <2>4. (inLoop /\ drive # "awaitHalt") =>
           resident = queued + held + (IF pump = "queueing" THEN 1 ELSE 0)
    BY <1>1, <2>1, QueuedCounts DEF IInv, BatchesAreSomewhere, inLoop, resident, held
  <2>5. resident <= Capacity + 1
    BY <1>1, <2>1 DEF BInv, SlotIsReserved, UncountedIsBounded, resident
  <2> QED BY <2>2, <2>3, <2>4, <2>5 DEF FlowIsControlled, ResidentIsBounded
<1> QED BY <1>1, Start, BoundStart, BoundStep, PTL DEF Spec

\* A stream that dropped batches and ends on its source's failure has counted every generated
\* batch as sent or as discarded (transport.rs batches_discarded).
THEOREM DrainCorrect == Spec => []DrainAccountsForAll
<1>1. BInv => DrainAccountsForAll
  BY DEF BInv
<1> QED BY <1>1, Start, BoundStart, BoundStep, PTL DEF Spec
=============================================================================
