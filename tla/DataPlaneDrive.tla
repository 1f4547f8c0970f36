---------------------------- MODULE DataPlaneDrive ----------------------------
(***************************************************************************)
(* One stream of the data plane, from the moment its source exists to the  *)
(* end of its connection: the pump thread (protocol/data-plane/src/        *)
(* pump.rs), the writer `drive` and its reader task (adapter_ws.rs), the   *)
(* counters of StreamState (transport.rs) and the cancel handle the kernel *)
(* gives the binding (EngineCancel, kernel/src/lib.rs).                    *)
(*                                                                         *)
(* The pump is an OS thread and the writer and the reader are tasks of a   *)
(* multi-threaded runtime, so everything between two of their shared       *)
(* accesses interleaves.  A biased select is polled branch by branch: once *)
(* the writer is parked in one, any branch that is ready may be the one it *)
(* takes, because the others may have become ready after they were polled. *)
(*                                                                         *)
(* A batch is one unit of bytes.  The source is finite, may fail, and a    *)
(* call of it need not return until it is cancelled.  The peer grants,     *)
(* cancels, sends garbage, closes or breaks at any time, or never.         *)
(***************************************************************************)
EXTENDS Naturals, Sequences, FiniteSetsExt, SequencesExt

CONSTANTS Capacity,       \* MAX_INFLIGHT_BATCHES, the pump channel's capacity
          MaxPermits,     \* Semaphore::MAX_PERMITS
          Grants,         \* the credit amounts a peer may send in one frame
          MaxGranted,     \* bound: credit the peer grants in all
          Batches,        \* batches the source holds
          OpenMayFail,    \* whether the peer may be gone before the OPEN frame
          SourceMayFail   \* whether the source may fail by itself

ASSUME CapacityAssumption == Capacity \in Nat \ {0}
ASSUME CreditAssumption == /\ MaxPermits \in Nat \ {0}
                           /\ Grants \subseteq Nat
                           /\ MaxGranted \in Nat
ASSUME BatchAssumption == Batches \in Nat
ASSUME SwitchAssumption == {OpenMayFail, SourceMayFail} \subseteq BOOLEAN

VARIABLES pump,          \* the pump thread's place
          chan,          \* the bounded channel from the pump to the writer
          failedNotice,  \* the pump's failure notice
          remaining,     \* batches the source has not handed over
          token,         \* the source's own cancel took effect
          mark,          \* CancelNotice.cancelled
          registered,    \* CancelNotice.notify holds the writer's notice
          ownerNotice,   \* the flag the notice raises
          observed,      \* StreamState.cancelled
          owner,         \* the place of the owner's call of cancel
          reader,        \* the reader task's place
          event,         \* the peer event the reader is handling
          credit, creditClosed, granted,
          halt,          \* the outcome the reader published
          drive,         \* the writer's place
          terminal,      \* the outcome the writer's loop ended with
          permit,        \* the admission slot, held for the server
          generated, sent, discarded

pumpVars == <<pump, remaining, generated, failedNotice>>
cancelVars == <<token, mark, registered, ownerNotice>>
creditVars == <<credit, creditClosed, granted>>
readerVars == <<reader, event, halt>>
driveVars == <<drive, terminal, permit, sent, discarded>>
vars == <<pumpVars, chan, cancelVars, observed, owner, creditVars, readerVars, driveVars>>

PumpState == {"check", "reserve", "calling", "queueing", "failing", "noticing", "done"}
CallState == {"idle", "cancelling", "noticing", "done"}
ReaderState == {"off", "reading", "cancelling", "noticing", "halting", "closing", "done"}
DriveState == {"starting", "opening", "top", "recv", "poll", "credit", "awaitHalt",
               "discarding", "sending", "progress", "stopping", "notifying", "closing",
               "draining", "returned"}
Outcome == {"completed", "cancelled", "producer_failed", "transport_failed"}
PeerEvent == {"cancel", "malformed", "closed", "broken"}

Init == /\ pump = "check" /\ chan = <<>> /\ failedNotice = FALSE
        /\ remaining = Batches
        /\ token = FALSE /\ mark = FALSE /\ registered = FALSE /\ ownerNotice = FALSE
        /\ observed = FALSE
        /\ owner = "idle"
        /\ reader = "off" /\ event = "none" /\ halt = "none"
        /\ credit = 0 /\ creditClosed = FALSE /\ granted = 0
        /\ drive = "starting" /\ terminal = "none" /\ permit = TRUE
        /\ generated = 0 /\ sent = 0 /\ discarded = 0

-----------------------------------------------------------------------------
(* The cancel handle: the source's own cancel, then, under one mutex, the   *)
(* mark and whatever notice is registered.                                  *)

cancelToken == token' = TRUE /\ UNCHANGED <<mark, registered, ownerNotice>>

runNotice == /\ mark' = TRUE
             /\ ownerNotice' = (ownerNotice \/ registered)
             /\ registered' = FALSE
             /\ UNCHANGED token

\* The owner's cancel (an SKP cancel, a close or a session end).
OwnerCancels ==
    \/ /\ owner = "idle" /\ drive # "returned"
       /\ owner' = "cancelling"
       /\ UNCHANGED cancelVars
    \/ owner = "cancelling" /\ owner' = "noticing" /\ cancelToken
    \/ owner = "noticing" /\ owner' = "done" /\ runNotice

OwnerStep == /\ OwnerCancels
             /\ UNCHANGED <<pumpVars, chan, observed, creditVars, readerVars, driveVars>>

-----------------------------------------------------------------------------
(* The pump thread.                                                         *)

PumpCheck == /\ pump = "check"
             /\ pump' = IF observed THEN "done" ELSE "reserve"
             /\ UNCHANGED <<chan, remaining, generated, failedNotice>>

\* The channel's slot is reserved before anything is generated; the writer's
\* half is gone once it returned.
PumpReserve ==
    /\ pump = "reserve"
    /\ \/ drive = "returned" /\ pump' = "done"
       \/ drive # "returned" /\ Len(chan) < Capacity /\ pump' = "calling"
    /\ UNCHANGED <<chan, remaining, generated, failedNotice>>

\* next_into returned a batch of an acceptable size.
SourceBatch == /\ pump = "calling" /\ remaining > 0
               /\ pump' = "queueing"
               /\ remaining' = remaining - 1
               /\ generated' = generated + 1
               /\ UNCHANGED <<chan, failedNotice>>

\* next_into returned None.
SourceEnds == /\ pump = "calling" /\ remaining = 0
              /\ pump' = "done"
              /\ UNCHANGED <<chan, remaining, generated, failedNotice>>

\* next_into failed, its batch was over the frame ceiling, or its length did
\* not fit the frame.  A cancelled source fails with its cancellation.
SourceFails == /\ pump = "calling"
               /\ token \/ SourceMayFail
               /\ pump' = "failing"
               /\ UNCHANGED <<chan, remaining, generated, failedNotice>>

\* permit.send on a channel whose receiver is gone drops the item.
queueItem(item) == chan' = IF drive = "returned" THEN chan ELSE Append(chan, item)

PumpSend == /\ pump = "queueing"
            /\ queueItem("batch")
            /\ pump' = "check"
            /\ UNCHANGED <<remaining, generated, failedNotice>>

PumpFail == /\ pump = "failing"
            /\ queueItem("failed")
            /\ pump' = "noticing"
            /\ UNCHANGED <<remaining, generated, failedNotice>>

PumpNotify == /\ pump = "noticing"
              /\ failedNotice' = TRUE
              /\ pump' = "done"
              /\ UNCHANGED <<chan, remaining, generated>>

PumpOwn == PumpCheck \/ PumpReserve \/ PumpSend \/ PumpFail \/ PumpNotify
SourceReturns == SourceBatch \/ SourceEnds \/ SourceFails
PumpStep == /\ PumpOwn \/ SourceReturns
            /\ UNCHANGED <<cancelVars, observed, owner, creditVars, readerVars, driveVars>>

-----------------------------------------------------------------------------
(* The reader task.                                                         *)

\* CREDIT: granted as sent, short of what the semaphore can hold.
ReadCredit ==
    /\ reader = "reading"
    /\ \E n \in Grants :
          /\ granted + n <= MaxGranted
          /\ granted' = granted + n
          /\ credit' = credit + Min({n, MaxPermits - credit})
    /\ UNCHANGED <<creditClosed, reader, event, halt, observed, cancelVars>>

\* CANCEL, a malformed frame, a close or a receive error: stamped first.
ReadEvent ==
    /\ reader = "reading"
    /\ \E e \in PeerEvent : event' = e
    /\ observed' = TRUE
    /\ reader' = "cancelling"
    /\ UNCHANGED <<creditVars, halt, cancelVars>>

ReaderCancels ==
    /\ \/ reader = "cancelling" /\ reader' = "noticing" /\ cancelToken
       \/ reader = "noticing" /\ reader' = "halting" /\ runNotice
    /\ UNCHANGED <<creditVars, event, halt, observed>>

haltOf(e) == IF e \in {"cancel", "closed"} THEN "cancelled" ELSE "transport_failed"

\* After a CANCEL the reader goes on reading: it is the peer drain.
ReaderHalts ==
    /\ reader = "halting"
    /\ halt' = haltOf(event)
    /\ reader' = IF event = "cancel" THEN "reading" ELSE "closing"
    /\ UNCHANGED <<creditVars, event, observed, cancelVars>>

ReaderCloses ==
    /\ reader = "closing"
    /\ creditClosed' = TRUE
    /\ reader' = "done"
    /\ UNCHANGED <<credit, granted, event, halt, observed, cancelVars>>

\* The writer timed out on the drain and aborted the reader, which ends where
\* it next awaits.
ReaderAborted ==
    /\ reader = "reading" /\ drive = "returned"
    /\ reader' = "done"
    /\ UNCHANGED <<creditVars, event, halt, observed, cancelVars>>

ReaderOwn == ReaderCancels \/ ReaderHalts \/ ReaderCloses \/ ReaderAborted
ReaderStep == /\ ReadCredit \/ ReadEvent \/ ReaderOwn
              /\ UNCHANGED <<pumpVars, chan, owner, driveVars>>

-----------------------------------------------------------------------------
(* The writer.                                                              *)

countVars == <<sent, discarded>>

\* The loop breaks with an outcome.
breakWith(t) == terminal' = t /\ drive' = "stopping" /\ UNCHANGED permit

goTo(place) == drive' = place /\ UNCHANGED <<terminal, permit>>

\* Every wait takes the halt signal first.
halted == halt # "none"

\* A bug: a notice whose cancel already ran is stored and never run.
OnCancelStored == /\ drive = "starting"
                  /\ registered' = TRUE
                  /\ goTo("opening")
                  /\ UNCHANGED <<token, mark, ownerNotice, chan, observed, credit, reader, countVars>>

\* on_cancel: a cancel that already ran runs the notice at once.
OnCancel == /\ drive = "starting"
            /\ registered' = ~mark
            /\ ownerNotice' = (ownerNotice \/ mark)
            /\ goTo("opening")
            /\ UNCHANGED <<token, mark, chan, observed, credit, reader, countVars>>

SendOpen == /\ drive = "opening"
            /\ reader' = "reading"
            /\ goTo("top")
            /\ UNCHANGED <<cancelVars, chan, observed, credit, countVars>>

\* The peer is gone: drive returns at once, before its reader exists, and its
\* arguments, the channel's receiver and the slot among them, are dropped.
OpenFails == /\ OpenMayFail /\ drive = "opening"
             /\ terminal' = "transport_failed"
             /\ drive' = "returned"
             /\ permit' = FALSE
             /\ UNCHANGED <<cancelVars, chan, observed, credit, reader, countVars>>

\* The check at the top of the loop.
HaltCheck == /\ drive = "top"
             /\ IF halted THEN breakWith(halt) ELSE goTo("recv")
             /\ UNCHANGED <<cancelVars, chan, observed, credit, reader, countVars>>

Halted == /\ drive \in {"recv", "credit", "awaitHalt", "discarding", "sending", "progress"}
          /\ halted
          /\ breakWith(halt)
          /\ UNCHANGED <<cancelVars, chan, observed, credit, reader, countVars>>

\* The next item needs no credit.
RecvBatch == /\ drive = "recv" /\ chan # <<>> /\ Head(chan) = "batch"
             /\ chan' = Tail(chan)
             /\ goTo("poll")
             /\ UNCHANGED <<cancelVars, observed, credit, reader, countVars>>

RecvFailed == /\ drive = "recv" /\ chan # <<>> /\ Head(chan) = "failed"
              /\ chan' = Tail(chan)
              /\ breakWith("producer_failed")
              /\ UNCHANGED <<cancelVars, observed, credit, reader, countVars>>

RecvClosed == /\ drive = "recv" /\ chan = <<>> /\ pump = "done"
              /\ breakWith("completed")
              /\ UNCHANGED <<cancelVars, chan, observed, credit, reader, countVars>>

\* A bug: the held batch is dropped uncounted.
startDiscardUncounted == goTo("discarding") /\ UNCHANGED countVars

\* The batches stop: the held batch is counted as discarded, then the queue is.
startDiscard == goTo("discarding") /\ discarded' = discarded + 1 /\ UNCHANGED sent

\* An owner's cancel ends the batches, unless the reader cancelled first: then
\* the outcome is the one it is about to publish.
ownerEnds == IF observed THEN goTo("awaitHalt") /\ UNCHANGED countVars ELSE startDiscard

\* The first poll of the credit wait reads each notice in order.
PollNotices ==
    /\ drive = "poll"
    /\ \/ halted /\ breakWith(halt) /\ UNCHANGED countVars
       \/ ~halted /\ failedNotice /\ startDiscard
       \/ ~halted /\ ~failedNotice /\ ownerNotice /\ ownerEnds
       \/ ~halted /\ ~failedNotice /\ ~ownerNotice /\ goTo("credit") /\ UNCHANGED countVars
    /\ UNCHANGED <<cancelVars, chan, observed, credit, reader>>

NoticeRaised ==
    /\ drive = "credit"
    /\ \/ failedNotice /\ startDiscard
       \/ ownerNotice /\ ownerEnds
    /\ UNCHANGED <<cancelVars, chan, observed, credit, reader>>

\* A bug: the permit is dropped, which returns the credit, instead of forgotten.
TakeCreditReturned ==
    /\ drive = "credit" /\ credit > 0 /\ ~creditClosed
    /\ sent' = sent + 1
    /\ goTo("sending")
    /\ UNCHANGED <<cancelVars, chan, observed, credit, reader, discarded>>

\* One credit is consumed and the batch counted as written before it is sent.
TakeCredit ==
    /\ drive = "credit" /\ credit > 0 /\ ~creditClosed
    /\ credit' = credit - 1
    /\ sent' = sent + 1
    /\ goTo("sending")
    /\ UNCHANGED <<cancelVars, chan, observed, reader, discarded>>

\* The semaphore is closed after the halt signal, which names the outcome.
CreditClosed ==
    /\ drive = "credit" /\ creditClosed
    /\ breakWith(IF halted THEN halt ELSE "cancelled")
    /\ UNCHANGED <<cancelVars, chan, observed, credit, reader, countVars>>

\* A bug: a queued batch is dropped uncounted.
DiscardBatchUncounted ==
    /\ drive = "discarding" /\ chan # <<>> /\ Head(chan) = "batch"
    /\ chan' = Tail(chan)
    /\ UNCHANGED <<cancelVars, observed, credit, reader, driveVars>>

DiscardBatch ==
    /\ drive = "discarding" /\ chan # <<>> /\ Head(chan) = "batch"
    /\ chan' = Tail(chan)
    /\ discarded' = discarded + 1
    /\ UNCHANGED <<cancelVars, observed, credit, reader, drive, terminal, permit, sent>>

\* A bug: the channel closing under the drain is read as the end of the stream.
DiscardEndsComplete ==
    /\ drive = "discarding"
    /\ \/ /\ chan # <<>> /\ Head(chan) = "failed" /\ chan' = Tail(chan)
          /\ breakWith("producer_failed")
       \/ /\ chan = <<>> /\ pump = "done" /\ UNCHANGED chan
          /\ breakWith("completed")
    /\ UNCHANGED <<cancelVars, observed, credit, reader, countVars>>

\* The source's failure, or the end of the channel: never a completion.
DiscardEnds ==
    /\ drive = "discarding"
    /\ \/ chan # <<>> /\ Head(chan) = "failed" /\ chan' = Tail(chan)
       \/ chan = <<>> /\ pump = "done" /\ UNCHANGED chan
    /\ breakWith("producer_failed")
    /\ UNCHANGED <<cancelVars, observed, credit, reader, countVars>>

\* The batch, then its progress frame, is handed to the transport.
SendFrame == /\ \/ drive = "sending" /\ goTo("progress")
                \/ drive = "progress" /\ goTo("top")
             /\ UNCHANGED <<cancelVars, chan, observed, credit, reader, countVars>>

\* The transport refused a frame: a cancel observed on this stream's transport.
SendFails == /\ drive \in {"sending", "progress"}
             /\ observed' = TRUE
             /\ breakWith("transport_failed")
             /\ UNCHANGED <<cancelVars, chan, credit, reader, countVars>>

\* A bug: the source is not stopped when the loop ends.
StopSourceSkipped ==
    /\ drive = "stopping" /\ goTo("closing")
    /\ UNCHANGED <<cancelVars, chan, observed, credit, reader, countVars>>

\* Whatever ended the loop, the source is cancelled.
StopSource == /\ \/ drive = "stopping" /\ goTo("notifying") /\ cancelToken
                 \/ drive = "notifying" /\ goTo("closing") /\ runNotice
              /\ UNCHANGED <<chan, observed, credit, reader, countVars>>

\* The terminal frame is handed to the transport, then the slot goes back.
SendTerminal == /\ drive = "closing"
                /\ drive' = "draining"
                /\ permit' = FALSE
                /\ UNCHANGED <<terminal, cancelVars, chan, observed, credit, reader, countVars>>

\* The reader ended, or PEER_DRAIN_TIMEOUT passed: drive returns.
Drained == /\ drive = "draining"
           /\ goTo("returned")
           /\ UNCHANGED <<cancelVars, chan, observed, credit, reader, countVars>>

DriveOwn == \/ OnCancel \/ SendOpen \/ HaltCheck \/ Halted
            \/ RecvBatch \/ RecvFailed \/ RecvClosed
            \/ PollNotices \/ NoticeRaised \/ TakeCredit \/ CreditClosed
            \/ DiscardBatch \/ DiscardEnds
            \/ SendFrame \/ StopSource \/ SendTerminal \/ Drained
DriveStep == /\ DriveOwn \/ OpenFails \/ SendFails
             /\ UNCHANGED <<pumpVars, owner, creditClosed, granted, event, halt>>

-----------------------------------------------------------------------------
(* A stream that is over on every side.                                     *)
Over == /\ drive = "returned" /\ pump = "done" /\ reader \in {"off", "done"}
        /\ owner \in {"idle", "done"}
        /\ UNCHANGED vars

Next == OwnerStep \/ PumpStep \/ ReaderStep \/ DriveStep \/ Over

Spec == Init /\ [][Next]_vars

(* Threads and tasks that can go on do; the transport takes or refuses the  *)
(* frame it is given, and a cancelled source returns.  The peer need do     *)
(* nothing, and a source nobody cancelled need never return.                *)
Fairness == /\ WF_vars(PumpOwn /\ PumpStep)
            /\ WF_vars(token /\ SourceReturns /\ PumpStep)
            /\ WF_vars(owner # "idle" /\ OwnerStep)
            /\ WF_vars(ReaderOwn /\ ReaderStep)
            /\ WF_vars(DriveOwn /\ DriveStep)

FairSpec == Spec /\ Fairness

-----------------------------------------------------------------------------
TypeOK ==
    /\ pump \in PumpState /\ owner \in CallState
    /\ reader \in ReaderState /\ drive \in DriveState
    /\ event \in PeerEvent \cup {"none"}
    /\ halt \in {"none", "cancelled", "transport_failed"}
    /\ terminal \in Outcome \cup {"none"}
    /\ chan \in Seq({"batch", "failed"}) /\ Len(chan) <= Capacity
    /\ {failedNotice, token, mark, registered, ownerNotice, observed,
        creditClosed, permit} \subseteq BOOLEAN
    /\ credit \in 0..MaxPermits /\ granted \in 0..MaxGranted
    /\ {remaining, generated, sent, discarded} \subseteq 0..Batches

(* Batches the writer has taken off the channel and not yet counted out.    *)
held == IF drive \in {"poll", "credit"} THEN 1 ELSE 0
queued == Cardinality({i \in 1..Len(chan) : chan[i] = "batch"})
resident == generated - sent - discarded
inLoop == terminal = "none"

(* resident_bytes counts exactly the batches that are queued, being queued  *)
(* or held by the writer, so it never exceeds the channel's capacity by     *)
(* more than the one held batch, whatever the order in which the pump and   *)
(* the writer count (transport.rs note_generated and note_written).         *)
ResidentIsBounded ==
    /\ generated >= sent + discarded
    /\ (inLoop /\ drive # "awaitHalt") =>
          resident = queued + held + (IF pump = "queueing" THEN 1 ELSE 0)
    /\ resident <= Capacity + 1

(* Credit is spent, not merely waited for: the peer never receives more     *)
(* batches than it granted (adapter_ws.rs, the forgotten permit).           *)
CreditIsSpent == sent <= granted

(* The flow is controlled at both ends: by the channel towards the source   *)
(* and by the peer's grants towards the socket.                             *)
FlowIsControlled == ResidentIsBounded /\ CreditIsSpent

(* A completed terminal is never sent for a stream some of whose batches    *)
(* were dropped, and one whose source was not exhausted was cancelled by    *)
(* its own peer; an owner's cancel is never reported as completion.         *)
CompletedIsWhole ==
    terminal = "completed" => /\ sent = generated /\ discarded = 0
                              /\ remaining = 0 \/ observed

(* On the discard drain every generated batch is accounted for when the     *)
(* stream ends on the source's failure: sent and discarded make up what was *)
(* generated (transport.rs batches_discarded).                              *)
DrainAccountsForAll ==
    (terminal = "producer_failed" /\ discarded > 0) =>
        sent + discarded = generated

(* adapter_ws.rs: "Reporting success for a stream that was cut short is the *)
(* one outcome H7 and ADR-010 rule 5 forbid".  Completed means the source   *)
(* was exhausted.                                                           *)
NoPartialAsComplete == terminal = "completed" => remaining = 0

(* The end of a stream never waits for credit: once the owner cancelled, or *)
(* the pump failed, or the peer cancelled or left, the terminal frame goes  *)
(* out and the slot comes back, although the peer may grant nothing more.   *)
EndNeedsNoCredit ==
    (owner = "done" \/ failedNotice \/ halted) ~> (~permit)

(* Whatever ended an opened stream, its source stops: once drive has        *)
(* returned, the pump ends and drops the source ("A stream that ended       *)
(* because the consumer went away must not leave a query running behind     *)
(* it", adapter_ws.rs).  The reader is started when the OPEN frame is out;  *)
(* a drive whose OPEN could not be sent returns without stopping anything.  *)
EndStopsTheSource == (drive = "returned" /\ reader # "off") ~> (pump = "done")
=============================================================================
