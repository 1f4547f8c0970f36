---------------------------- MODULE OpenAdmission ----------------------------
(***************************************************************************)
(* SkpHost::open_dataset against the source watch it arms and a            *)
(* close_dataset of the name it is admitting (kernel/src/skp.rs), with the *)
(* Windows watch of engine/src/watch.rs: one thread and one directory      *)
(* handle for the parent, one for the grandparent, both reporting through  *)
(* the sink that open_dataset gave to arm.                                 *)
(*                                                                         *)
(* A handle name is minted per open, so one open is modelled with its own  *)
(* latch, watch and generation.  What an end does to tickets and events is *)
(* SkpSessions' part: here a session is live or not.  The file system is   *)
(* external: a read of a directory handle completes with what happened     *)
(* since the handle's first read, or is cancelled.                         *)
(***************************************************************************)
EXTENDS Naturals, FiniteSets

CONSTANTS Closer,        \* calls of close_dataset for the name
          MaxNoise,      \* bound: notifications about other names, per handle
          CoverageMayEnd \* whether a read may overflow or fail

ASSUME NoiseAssumption == MaxNoise \in Nat
ASSUME CoverageAssumption == CoverageMayEnd \in BOOLEAN
\* A close is not one of dropper's other two values.
ASSUME CloserAssumption == Closer \cap {"none", "open"} = {}

\* The handles of a SourceWatch, in the order of its handles vector.
Handle == {"parent", "grandparent"}
Earlier(w) == IF w = "parent" THEN {} ELSE {"parent"}

VARIABLES open,       \* where open_dataset is
          answer,     \* what it returned
          latch,      \* LatchState: "pre" or "admitted"
          recorded,   \* the signal of PreAdmission
          latchHeld,  \* open_dataset is in its critical section
          reading,    \* open_dataset holds the catalog's read guard
          inCatalog,  \* the catalog has the name
          session,    \* the generation: "none", "live", "ended" or "forgotten"
          closing,    \* begin_close's mark
          record,     \* the OpenRecord in watches: "none", "watching" or "checks"
          close,      \* where each close_dataset is
          dropper,    \* who is dropping the SourceWatch
          stage,      \* each handle, from armed to closed
          th,         \* each watch thread
          io,         \* each handle's outstanding read
          sig,        \* the signal a thread is about to deliver
          fired,      \* the watch's flag: a thread has claimed the one signal
          hit,        \* the watched name changed while its handle was armed
          noise       \* notifications about other names still to come, per handle

hostVars == <<open, answer, latchHeld, reading>>
nameVars == <<inCatalog, session, closing, record>>
latchVars == <<latch, recorded>>
watchVars == <<stage, th, io, sig, fired>>
fileVars == <<hit, noise>>
vars == <<hostVars, nameVars, latchVars, close, dropper, watchVars, fileVars>>

Signal == {"change", "coverage"}
OpenState == {"idle", "armParent", "armGrandparent", "unarming", "opening", "failing", "opened",
              "deciding", "refusing", "removed", "reading", "closedMeanwhile",
              "minting", "minted", "recorded", "returned"}
CloseState == {"idle", "disarming", "begin", "forget", "late", "lateDrop",
               "closed", "unknown"}
ThreadState == {"none", "waiting", "reissue", "recheck", "sinking", "ending", "ended"}

Init == /\ open = "idle" /\ answer = "none"
        /\ latchHeld = FALSE /\ reading = FALSE
        /\ inCatalog = FALSE /\ session = "none" /\ closing = FALSE /\ record = "none"
        /\ latch = "pre" /\ recorded = "none"
        /\ close = [c \in Closer |-> "idle"]
        /\ dropper = "none"
        /\ stage = [w \in Handle |-> "none"]
        /\ th = [w \in Handle |-> "none"]
        /\ io = [w \in Handle |-> "none"]
        /\ sig = [w \in Handle |-> "none"]
        /\ fired = FALSE
        /\ hit = [w \in Handle |-> FALSE]
        /\ noise = [w \in Handle |-> MaxNoise]

disarming(w) == stage[w] \in {"disarming", "cancelled", "closed"}

Goto(place) == open' = place
Answer(a) == open' = "returned" /\ answer' = a

-----------------------------------------------------------------------------
(***************************************************************************)
(* The watch threads                                                       *)
(***************************************************************************)

\* The fired flag lets one signal out of the whole watch.
claim(w, s) ==
  /\ fired' = TRUE
  /\ th' = [th EXCEPT ![w] = IF fired THEN "ended" ELSE "sinking"]
  /\ sig' = [sig EXCEPT ![w] = IF fired THEN "none" ELSE s]

readUnchanged == UNCHANGED <<hostVars, nameVars, latchVars, close, dropper, stage, th, sig, fired,
                             hit>>

\* The outstanding read completes with everything since the last one, and the
\* watched name is among it.
ReadMatches(w) ==
  /\ io[w] = "pending" /\ hit[w]
  /\ io' = [io EXCEPT ![w] = "match"]
  /\ UNCHANGED noise /\ readUnchanged

\* It completes with other names only.
ReadOther(w) ==
  /\ io[w] = "pending" /\ ~hit[w] /\ noise[w] > 0
  /\ io' = [io EXCEPT ![w] = "other"]
  /\ noise' = [noise EXCEPT ![w] = @ - 1]
  /\ readUnchanged

\* It completes by an overflow of its buffer or by an error.
ReadFails(w) ==
  /\ io[w] = "pending" /\ CoverageMayEnd
  /\ io' = [io EXCEPT ![w] = "failed"]
  /\ UNCHANGED noise /\ readUnchanged

\* GetOverlappedResult returns.  Only the disarm's own abort ends the thread
\* without a signal.
Wake(w) ==
  /\ th[w] = "waiting"
  /\ \/ io[w] = "aborted" /\ disarming(w) /\ th' = [th EXCEPT ![w] = "ended"]
        /\ UNCHANGED <<sig, fired>>
     \/ io[w] = "match" /\ claim(w, "change")
     \/ io[w] = "failed" /\ claim(w, "coverage")
     \/ io[w] = "other" /\ th' = [th EXCEPT ![w] = "reissue"] /\ UNCHANGED <<sig, fired>>
  /\ UNCHANGED <<hostVars, nameVars, latchVars, close, dropper, stage, io, fileVars>>

\* A completion about other names: the next read is issued.
Reissue(w) ==
  /\ th[w] = "reissue"
  /\ \/ /\ io' = [io EXCEPT ![w] = "pending"]
        /\ th' = [th EXCEPT ![w] = "recheck"]
        /\ UNCHANGED <<sig, fired>>
     \/ CoverageMayEnd /\ claim(w, "coverage") /\ UNCHANGED io
  /\ UNCHANGED <<hostVars, nameVars, latchVars, close, dropper, stage, fileVars>>

\* The re-issued read as it would be without the second look at disarming.
RecheckNothing(w) ==
  /\ th[w] = "recheck"
  /\ th' = [th EXCEPT ![w] = "waiting"]
  /\ UNCHANGED <<hostVars, nameVars, latchVars, close, dropper, stage, io, sig, fired, fileVars>>

\* A disarm may have cancelled the read before: its cancel is repeated.
Recheck(w) ==
  /\ th[w] = "recheck"
  /\ io' = [io EXCEPT ![w] = IF disarming(w) /\ @ = "pending" THEN "aborted" ELSE @]
  /\ th' = [th EXCEPT ![w] = "waiting"]
  /\ UNCHANGED <<hostVars, nameVars, latchVars, close, dropper, stage, sig, fired, fileVars>>

\* A sink that records the signal on both sides of the admission.
SinkRecords(w) ==
  /\ th[w] = "sinking" /\ ~latchHeld
  /\ recorded' = IF recorded = "none" THEN sig[w] ELSE recorded
  /\ th' = [th EXCEPT ![w] = "ended"]
  /\ UNCHANGED <<hostVars, nameVars, latch, close, dropper, stage, io, sig, fired, fileVars>>

\* The sink: recorded before admission, an end after it.
Sink(w) ==
  /\ th[w] = "sinking" /\ ~latchHeld
  /\ IF latch = "pre"
       THEN /\ recorded' = IF recorded = "none" THEN sig[w] ELSE recorded
            /\ th' = [th EXCEPT ![w] = "ended"]
       ELSE th' = [th EXCEPT ![w] = "ending"] /\ UNCHANGED recorded
  /\ UNCHANGED <<hostVars, nameVars, latch, close, dropper, stage, io, sig, fired, fileVars>>

\* end_generation, which finds a live generation or does nothing.
EndGeneration(w) ==
  /\ th[w] = "ending"
  /\ session' = IF session = "live" THEN "ended" ELSE session
  /\ th' = [th EXCEPT ![w] = "ended"]
  /\ UNCHANGED <<hostVars, inCatalog, closing, record, latchVars, close, dropper, stage, io, sig,
                 fired, fileVars>>

-----------------------------------------------------------------------------
(***************************************************************************)
(* Drop for SourceWatch: every handle is disarmed, then every thread is    *)
(* joined and its handle closed                                            *)
(***************************************************************************)

armed == {w \in Handle : stage[w] # "none"}

StoreDisarming(w) ==
  /\ dropper # "none" /\ stage[w] = "armed"
  /\ \A v \in Earlier(w) : stage[v] # "armed" /\ stage[v] # "disarming"
  /\ stage' = [stage EXCEPT ![w] = "disarming"]
  /\ UNCHANGED <<hostVars, nameVars, latchVars, close, dropper, th, io, sig, fired, fileVars>>

CancelIo(w) ==
  /\ stage[w] = "disarming"
  /\ stage' = [stage EXCEPT ![w] = "cancelled"]
  /\ io' = [io EXCEPT ![w] = IF @ = "pending" THEN "aborted" ELSE @]
  /\ UNCHANGED <<hostVars, nameVars, latchVars, close, dropper, th, sig, fired, fileVars>>

Join(w) ==
  /\ stage[w] = "cancelled" /\ th[w] = "ended"
  /\ \A v \in armed : stage[v] \in {"cancelled", "closed"}
  /\ \A v \in Earlier(w) : stage[v] = "closed"
  /\ stage' = [stage EXCEPT ![w] = "closed"]
  /\ UNCHANGED <<hostVars, nameVars, latchVars, close, dropper, th, io, sig, fired, fileVars>>

\* The drop has returned to a.
Dropped(a) == dropper = a /\ \A w \in armed : stage[w] = "closed"

-----------------------------------------------------------------------------
(***************************************************************************)
(* open_dataset                                                            *)
(***************************************************************************)

\* The cancel key is registered, or refused because another open uses it.
Begin ==
  /\ open = "idle"
  /\ \/ Goto("armParent") /\ UNCHANGED answer
     \/ Answer("key_in_use")
  /\ UNCHANGED <<latchHeld, reading, nameVars, latchVars, close, dropper, watchVars,
                 fileVars>>

\* The thread is spawned and its first read issued before arm goes on.
arm(w) == /\ stage' = [stage EXCEPT ![w] = "armed"]
          /\ th' = [th EXCEPT ![w] = "waiting"]
          /\ io' = [io EXCEPT ![w] = "pending"]

\* No watch at all on a path, a directory or a platform that has none.
ArmParent ==
  /\ open = "armParent"
  /\ \/ arm("parent") /\ Goto("armGrandparent")
     \/ Goto("opening") /\ UNCHANGED <<stage, th, io>>
  /\ UNCHANGED <<answer, latchHeld, reading, nameVars, latchVars, close, dropper, sig,
                 fired, fileVars>>

\* A parent that is a volume root has no grandparent to watch.  A grandparent
\* that cannot be watched takes the parent's watch with it.
ArmGrandparent ==
  /\ open = "armGrandparent"
  /\ \/ arm("grandparent") /\ Goto("opening") /\ UNCHANGED dropper
     \/ Goto("opening") /\ UNCHANGED <<stage, th, io, dropper>>
     \/ Goto("unarming") /\ dropper' = "open" /\ UNCHANGED <<stage, th, io>>
  /\ UNCHANGED <<answer, latchHeld, reading, nameVars, latchVars, close, sig, fired,
                 fileVars>>

\* arm answers ChecksOnly when the parent's watch is gone again.
Unarmed ==
  /\ open = "unarming" /\ Dropped("open")
  /\ Goto("opening")
  /\ UNCHANGED <<answer, latchHeld, reading, nameVars, latchVars, close, dropper,
                 watchVars, fileVars>>

\* ArmOutcome::Watching, as opposed to ChecksOnly.
watching == armed # {} /\ dropper = "none"

\* Catalog::open_cancellable: the dataset is opened and its name inserted, or
\* the open fails, by itself or because a cancel by its key reached its token,
\* and the watch is dropped.
OpenCancellable ==
  /\ open = "opening"
  /\ \/ /\ inCatalog' = TRUE /\ Goto("opened")
        /\ UNCHANGED <<answer, dropper>>
     \/ /\ answer' = "failed"
        /\ Goto("failing")
        /\ dropper' = "open"
        /\ UNCHANGED inCatalog
  /\ UNCHANGED <<latchHeld, reading, session, closing, record, latchVars, close,
                 watchVars, fileVars>>

\* The watch is gone and the refusal is returned.
Failed ==
  /\ open \in {"failing", "closedMeanwhile"} /\ Dropped("open")
  /\ Goto("returned")
  /\ UNCHANGED <<answer, latchHeld, reading, nameVars, latchVars, close, dropper,
                 watchVars, fileVars>>

\* Admission decided without the latch.
LockLatchNever ==
  /\ open = "opened" /\ ~latchHeld
  /\ Goto("deciding") /\ UNCHANGED latchHeld
  /\ UNCHANGED <<answer, reading, nameVars, latchVars, close, dropper, watchVars, fileVars>>

\* Admission is decided under the latch.
LockLatch ==
  /\ open = "opened" /\ ~latchHeld
  /\ Goto("deciding") /\ latchHeld' = TRUE
  /\ UNCHANGED <<answer, reading, nameVars, latchVars, close, dropper, watchVars,
                 fileVars>>

\* A signal recorded, or one a watch thread has claimed and not delivered yet.
signalled == recorded # "none" \/ (watching /\ fired)

ResolvesUnchanged ==
  /\ open = "deciding"
  /\ IF signalled
       THEN Goto("refusing") /\ latchHeld' = FALSE
       ELSE Goto("reading") /\ UNCHANGED latchHeld
  /\ UNCHANGED <<answer, reading, nameVars, latchVars, close, dropper, watchVars,
                 fileVars>>

\* The refusal that forgets the name it had inserted.
RemoveNameForgotten ==
  /\ open = "refusing"
  /\ Goto("removed")
  /\ dropper' = IF dropper = "none" THEN "open" ELSE dropper
  /\ UNCHANGED <<answer, latchHeld, reading, nameVars, latchVars, close, watchVars, fileVars>>

\* The refusal takes the name out again and drops the watch.
RemoveName ==
  /\ open = "refusing"
  /\ inCatalog' = FALSE /\ Goto("removed")
  /\ dropper' = IF dropper = "none" THEN "open" ELSE dropper
  /\ UNCHANGED <<answer, latchHeld, reading, session, closing, record, latchVars, close,
                 watchVars, fileVars>>

refusalOf(s) == IF s = "change" THEN "source_changed"
                ELSE IF s = "coverage" THEN "source_coverage_lost" ELSE "unrecovered"

\* The signal read before the threads have been joined.
RefuseSignalledAtOnce ==
  /\ open = "removed"
  /\ Answer(refusalOf(recorded))
  /\ UNCHANGED <<latchHeld, reading, nameVars, latchVars, close, dropper, watchVars,
                 fileVars>>

\* The signal is read again, after the watch's threads have been joined.
RefuseSignalled ==
  /\ open = "removed" /\ Dropped("open") /\ ~latchHeld
  /\ Answer(refusalOf(recorded))
  /\ UNCHANGED <<latchHeld, reading, nameVars, latchVars, close, dropper, watchVars,
                 fileVars>>

\* The check as it would be without the guard kept from it to the insert.
ReadCatalogUnguarded ==
  /\ open = "reading"
  /\ IF inCatalog
       THEN Goto("minting") /\ UNCHANGED <<reading, latchHeld, dropper, answer>>
       ELSE /\ Goto("closedMeanwhile") /\ answer' = "unknown_dataset"
            /\ latchHeld' = FALSE
            /\ dropper' = IF dropper = "none" THEN "open" ELSE dropper
            /\ UNCHANGED reading
  /\ UNCHANGED <<nameVars, latchVars, close, watchVars, fileVars>>

\* The read guard of the catalog, taken with the latch held.  A close that took
\* the name out makes the open refuse, and drop its guards before its watch.
ReadCatalog ==
  /\ open = "reading"
  /\ IF inCatalog
       THEN Goto("minting") /\ reading' = TRUE /\ UNCHANGED <<latchHeld, dropper, answer>>
       ELSE /\ Goto("closedMeanwhile") /\ answer' = "unknown_dataset"
            /\ latchHeld' = FALSE
            /\ dropper' = IF dropper = "none" THEN "open" ELSE dropper
            /\ UNCHANGED reading
  /\ UNCHANGED <<nameVars, latchVars, close, watchVars, fileVars>>

\* mint_for_open, and with the latch still held.
MintForOpen ==
  /\ open = "minting"
  /\ session' = "live" /\ Goto("minted")
  /\ UNCHANGED <<answer, latchHeld, reading, inCatalog, closing, record, latchVars,
                 close, dropper, watchVars, fileVars>>

\* The latch becomes Admitted and is let go.
Admit ==
  /\ open = "minted"
  /\ latch' = "admitted" /\ latchHeld' = FALSE /\ Goto("recorded")
  /\ UNCHANGED <<answer, reading, nameVars, recorded, close, dropper, watchVars,
                 fileVars>>

\* The record is inserted, the read guard let go, and the session returned.
InsertRecord ==
  /\ open = "recorded"
  /\ record' = IF watching THEN "watching" ELSE "checks"
  /\ reading' = FALSE
  /\ Answer("ok")
  /\ UNCHANGED <<latchHeld, inCatalog, session, closing, latchVars, close, dropper,
                 watchVars, fileVars>>

-----------------------------------------------------------------------------
(***************************************************************************)
(* close_dataset                                                           *)
(***************************************************************************)

CloseGoto(c, place) == close' = [close EXCEPT ![c] = place]

\* The record is removed, and dropped after the map's guard is released.
takeRecord(c) == /\ record' = "none"
                 /\ dropper' = IF record = "watching" THEN c ELSE dropper

closeUnchanged == UNCHANGED <<hostVars, latchVars, watchVars, fileVars>>

\* A close of the name may come at any time, before the open has returned too.
CloseBegins(c) ==
  /\ close[c] = "idle"
  /\ takeRecord(c) /\ CloseGoto(c, "disarming")
  /\ UNCHANGED <<inCatalog, session, closing>> /\ closeUnchanged

\* The watch this call took is gone: the name is looked up.
CloseLooks(c) ==
  /\ close[c] = "disarming" /\ (dropper = c => Dropped(c))
  /\ CloseGoto(c, IF inCatalog THEN "begin" ELSE "unknown")
  /\ UNCHANGED <<nameVars, dropper>> /\ closeUnchanged

\* begin_close.  cancel_all_for_dataset, which follows it, is SkpSessions' part.
BeginClose(c) ==
  /\ close[c] = "begin"
  /\ closing' = TRUE /\ CloseGoto(c, "forget")
  /\ UNCHANGED <<inCatalog, session, record, dropper>> /\ closeUnchanged

\* forget_dataset and the removal of the name, under the catalog's write guard.
Forget(c) ==
  /\ close[c] = "forget" /\ ~reading
  /\ session' = IF session = "none" THEN "none" ELSE "forgotten"
  /\ closing' = FALSE /\ inCatalog' = FALSE
  /\ CloseGoto(c, "late")
  /\ UNCHANGED <<record, dropper>> /\ closeUnchanged

\* A record an admission inserted in the meantime is removed and dropped too.
TakeLateRecord(c) ==
  /\ close[c] = "late"
  /\ takeRecord(c) /\ CloseGoto(c, "lateDrop")
  /\ UNCHANGED <<inCatalog, session, closing>> /\ closeUnchanged

Closed(c) ==
  /\ close[c] = "lateDrop" /\ (dropper = c => Dropped(c))
  /\ CloseGoto(c, "closed")
  /\ UNCHANGED <<nameVars, dropper>> /\ closeUnchanged

\* The watched name, or the parent's, changes on disk.
Change(w) ==
  /\ stage[w] = "armed" /\ ~hit[w]
  /\ hit' = [hit EXCEPT ![w] = TRUE]
  /\ UNCHANGED <<hostVars, nameVars, latchVars, close, dropper, watchVars, noise>>

-----------------------------------------------------------------------------
OpenStep == \/ ArmParent \/ ArmGrandparent \/ Unarmed \/ OpenCancellable \/ Failed \/ LockLatch
            \/ ResolvesUnchanged \/ RemoveName \/ RefuseSignalled \/ ReadCatalog
            \/ MintForOpen \/ Admit \/ InsertRecord

CloseStep(c) == \/ CloseLooks(c) \/ BeginClose(c) \/ Forget(c) \/ TakeLateRecord(c) \/ Closed(c)

WatchStep(w) == Wake(w) \/ Reissue(w) \/ Recheck(w) \/ Sink(w) \/ EndGeneration(w)

DropStep(w) == StoreDisarming(w) \/ CancelIo(w) \/ Join(w)

Next == \/ Begin \/ OpenStep
        \/ \E c \in Closer : CloseBegins(c) \/ CloseStep(c)
        \/ \E w \in Handle : \/ Change(w) \/ ReadMatches(w) \/ ReadOther(w) \/ ReadFails(w)
                             \/ WatchStep(w) \/ DropStep(w)

Spec == Init /\ [][Next]_vars

\* Threads are scheduled, the engine's open returns, and Windows completes a
\* read that has the watched name to report.  Nobody has to open, close or cancel.
FairSpec == /\ Spec
            /\ WF_vars(OpenStep)
            /\ \A c \in Closer : WF_vars(CloseStep(c))
            /\ WF_vars(\E w \in Handle : DropStep(w))
            /\ \A w \in Handle : WF_vars(ReadMatches(w)) /\ WF_vars(WatchStep(w))

-----------------------------------------------------------------------------
(***************************************************************************)
(* Properties                                                              *)
(***************************************************************************)

\* The open, the close, the watch and the latch have their types.
TypeOK == /\ open \in OpenState
          /\ answer \in {"none", "ok", "key_in_use", "failed", "unknown_dataset",
                         "source_changed", "source_coverage_lost", "unrecovered"}
          /\ latch \in {"pre", "admitted"} /\ recorded \in Signal \cup {"none"}
          /\ latchHeld \in BOOLEAN /\ reading \in BOOLEAN
          /\ inCatalog \in BOOLEAN /\ closing \in BOOLEAN
          /\ session \in {"none", "live", "ended", "forgotten"}
          /\ record \in {"none", "watching", "checks"}
          /\ close \in [Closer -> CloseState]
          /\ dropper \in Closer \cup {"none", "open"}
          /\ stage \in [Handle -> {"none", "armed", "disarming", "cancelled", "closed"}]
          /\ th \in [Handle -> ThreadState]
          /\ io \in [Handle -> {"none", "pending", "aborted", "match", "other", "failed"}]
          /\ sig \in [Handle -> Signal \cup {"none"}]
          /\ fired \in BOOLEAN
          /\ hit \in [Handle -> BOOLEAN] /\ noise \in [Handle -> 0 .. MaxNoise]

\* A claimed signal is never lost: once the thread that claimed it is through
\* with it, no session of this open is live, whichever side of the admission it
\* fell on.
NoSessionOverASignal ==
  (fired /\ session = "live" /\ latch = "admitted")
     => \E w \in Handle : th[w] \in {"sinking", "ending"}

\* An open refused over a signal gives that signal's kind: the fallback for a
\* kind that "could not be recovered after disarming" (skp.rs:1246) is not
\* reached, and a coverage loss is never answered as a change.
RefusalNamesTheSignal ==
  /\ answer # "unrecovered"
  /\ answer = "source_changed" => \E w \in Handle : sig[w] = "change"
  /\ answer = "source_coverage_lost" => \E w \in Handle : sig[w] = "coverage"

\* A signal is never lost, on either side of the admission: it ends the session or
\* it is what the open is refused for.
SignalIsAnswered == NoSessionOverASignal /\ RefusalNamesTheSignal

Quiet == th \in [Handle -> {"none", "ended"}]

\* A refused open leaves nothing behind: no name, no session, no record, no
\* thread and no directory handle, on every path it can fail by.
RefusedLeavesNothing ==
  (open = "returned" /\ answer # "ok") =>
     /\ ~inCatalog /\ session = "none" /\ record = "none" /\ Quiet
     /\ \A w \in armed : stage[w] = "closed"

\* A close that answered leaves nothing behind of an open that has returned,
\* although the open may have been admitted while the close was under way.
ClosedLeavesNothing ==
  (/\ open = "returned"
   /\ \A c \in Closer : close[c] \in {"idle", "closed", "unknown"}
   /\ \E c \in Closer : close[c] = "closed") =>
     /\ ~inCatalog /\ session # "live" /\ record = "none" /\ ~closing /\ Quiet
     /\ \A w \in armed : stage[w] = "closed"

\* An open and a close leave nothing behind, whichever of them comes last.
NothingIsLeft == RefusedLeavesNothing /\ ClosedLeavesNothing

\* Nobody waits for ever: the open, the close and the drop of a watch with its
\* joins come to an end although they wait for each other's locks and threads.
EveryCallReturns ==
  /\ (open \notin {"idle", "returned"}) ~> (open = "returned")
  /\ \A c \in Closer : (close[c] # "idle") ~> (close[c] \in {"closed", "unknown"})

\* A change of the watched file ends what it touches: no session stays live
\* over it, unless arm fell back to checks and there is no watch to notice.
ChangeEndsTheSession ==
  \A w \in Handle :
    (hit[w] /\ stage[w] = "armed") ~> (open = "returned" /\ (session # "live" \/ record = "checks"))
=============================================================================
