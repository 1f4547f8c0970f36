----------------------------- MODULE EngineStream -----------------------------
(***************************************************************************)
(* One viewport query as the engine runs it: the producer thread           *)
(* (engine/src/stream.rs), the cancellation token that reaches DuckDB      *)
(* (engine/src/cancel.rs), the bounded channel to the consumer, and the    *)
(* connection pool the lease comes from (ConnectionPool).                  *)
(*                                                                         *)
(* Each load or store of a shared flag, each critical section of a mutex   *)
(* and each channel operation is a step, so a cancel may land between any  *)
(* two of them.  Rows are abstracted to whether any are pending; the       *)
(* number of chunks a query returns is arbitrary.  DuckDB is external: an  *)
(* interrupt sets a flag on a connection, preparing and starting an        *)
(* execution clear it, and a running call that sees it set returns an      *)
(* error; a call that is not interrupted need never return.                *)
(***************************************************************************)
EXTENDS Naturals, Sequences, FiniteSets

CONSTANTS Stream,
          Token,
          TokenMaps,        \* the ways the callers may give the streams their tokens
          MaxStream, MaxMaintenance, MaxAdmission, MaxIdle, MaxCreated, MaxIssued,
          MaxQueued,        \* MAX_QUEUED_BATCHES
          MaxBatches,       \* bound: batches one stream builds, the final flush included
          VerifyMayUnwind,  \* whether release_healthy's SELECT 1 may panic
          SpawnMayFail,     \* whether the OS may refuse the re-interrupter its thread
          SourceMayChange,  \* whether the file may be replaced on disk
          Cancel            \* the calls of cancel a stream may see

ASSUME TokenAssumption == TokenMaps \subseteq [Stream -> Token]
ASSUME QueueAssumption == MaxQueued \in Nat \ {0} /\ MaxBatches \in Nat \ {0}
ASSUME SwitchAssumption == {VerifyMayUnwind, SpawnMayFail, SourceMayChange} \subseteq BOOLEAN
ASSUME CancelAssumption == Cancel \subseteq {"explicit", "drop"}

VARIABLES idle, live, active, nextPhysicalId, leases, leasesIssued,
          pc, class, physical, generation, refusal

Pool == INSTANCE ConnectionPool WITH Holder <- Stream

VARIABLES tokenOf,      \* the token each stream is opened with
          cancelled,    \* per token
          slot,         \* the connection bound to a token; 0 for none
          inExecute,    \* an execute_guarded closure is running, per token
          reinterrupter,\* "none", "alive" or "stopped", per token
          canceller,    \* where each call of cancel is: per stream, explicit or drop
          flagged,      \* connections whose DuckDB interrupt flag is set
          prod,         \* the producer's place, from open to finished
          outcome,      \* what produce returned
          pending,      \* rows waiting for a flush
          resume,       \* where produce goes on once the flush under way has sent
          built,        \* batches generated
          late,         \* work done with the token already cancelled, by its kind
          queue,        \* the sync_channel
          cons,         \* the consumer's BatchStream
          seen,         \* the terminal the consumer was given
          changed,      \* the source file is no longer the one admitted
          changedRead,  \* it changed before this stream had finished reading
          recorded      \* StreamStats' source_changed flag

poolVars == <<idle, live, active, nextPhysicalId, leases, leasesIssued,
              pc, class, physical, generation, refusal>>
tokenVars == <<tokenOf, cancelled, slot, inExecute, reinterrupter, canceller, flagged>>
rowVars == <<outcome, pending, resume, built, late>>
consVars == <<queue, cons, seen>>
sourceVars == <<changed, changedRead, recorded>>
vars == <<poolVars, tokenVars, prod, rowVars, consVars, sourceVars>>

CancelState == {"idle", "first", "again", "firstPoked", "againPoked", "done"}
Opening == {"unopened", "admitted", "configuring", "leased", "spawning", "spawnFailed",
            "attachFailed"}
Producing == {"starting", "preparing", "openWindow", "window", "calling", "running",
              "returnedOk", "returnedErr", "fetchCheck", "fetching", "fetchFailed",
              "rows", "appending", "draining", "building", "builtOne", "sending"}
Resumption == {"appending", "rows", "fetchCheck", "produced"}
Work == {"appended", "built", "sent"}    \* a row, a batch, a batch
Ending == {"produced", "detached", "resolving", "unwinding", "checked"}
ProdState == Opening \cup Producing \cup Ending \cup {"refused", "finished"}
Terminal == {"cancelled", "error", "source_changed"}

Init == /\ Pool!Init
        /\ tokenOf \in TokenMaps
        /\ cancelled = [t \in Token |-> FALSE]
        /\ slot = [t \in Token |-> 0]
        /\ inExecute = [t \in Token |-> FALSE]
        /\ reinterrupter = [t \in Token |-> "none"]
        /\ canceller = [s \in Stream |-> [k \in Cancel |-> "idle"]]
        /\ flagged = {}
        /\ prod = [s \in Stream |-> "unopened"]
        /\ outcome = [s \in Stream |-> "none"]
        /\ pending = [s \in Stream |-> FALSE]
        /\ resume = [s \in Stream |-> "produced"]
        /\ built = [s \in Stream |-> 0]
        /\ late = [s \in Stream |-> [w \in Work |-> 0]]
        /\ queue = [s \in Stream |-> <<>>]
        /\ cons = [s \in Stream |-> "none"]
        /\ seen = [s \in Stream |-> "none"]
        /\ changed = FALSE
        /\ changedRead = [s \in Stream |-> FALSE]
        /\ recorded = [s \in Stream |-> FALSE]

isCancelled(s) == cancelled[tokenOf[s]]

Goto(s, place) == prod' = [prod EXCEPT ![s] = place]

\* produce returns: the closure goes on with the outcome.
Return(s, o) == Goto(s, "produced") /\ outcome' = [outcome EXCEPT ![s] = o]

\* An error of DuckDB's is a cancellation when the token is cancelled.
classify(s) == IF isCancelled(s) THEN "cancelled" ELSE "error"

-----------------------------------------------------------------------------
(***************************************************************************)
(* Opening a stream                                                        *)
(***************************************************************************)

\* The descriptor is compared with the admitted one before anything is leased.
checkSourceUnchanged(s) ==
  /\ prod[s] = "unopened"
  /\ Goto(s, IF changed THEN "refused" ELSE "admitted")
  /\ UNCHANGED <<poolVars, tokenVars, rowVars, consVars, sourceVars>>

Acquire(s) ==
  /\ prod[s] = "admitted"
  /\ \/ Pool!Refuse(s, "stream") /\ Goto(s, "refused")
     \/ Pool!TakeExisting(s, "stream") /\ Goto(s, "leased")
     \/ Pool!ReserveNew(s, "stream") /\ Goto(s, "configuring")
  /\ UNCHANGED <<tokenVars, rowVars, consVars, sourceVars>>

Configure(s) ==
  /\ prod[s] = "configuring"
  /\ \/ Pool!ConfigureOk(s) /\ Goto(s, "leased")
     \/ Pool!ConfigureErr(s) /\ Goto(s, "refused")
  /\ UNCHANGED <<tokenVars, rowVars, consVars, sourceVars>>

\* attach: a token already bound refuses, and lease_for_stream drops the lease.
Attach(s) ==
  LET t == tokenOf[s] IN
  /\ prod[s] = "leased"
  /\ \/ /\ slot[t] = 0
        /\ slot' = [slot EXCEPT ![t] = physical[s]]
        /\ flagged' = IF cancelled[t] THEN flagged \cup {physical[s]} ELSE flagged
        /\ Goto(s, "spawning")
        /\ UNCHANGED poolVars
     \/ /\ slot[t] # 0
        /\ Pool!Discard(s)
        /\ Goto(s, "attachFailed")
        /\ UNCHANGED <<slot, flagged>>
  /\ UNCHANGED <<tokenOf, cancelled, inExecute, reinterrupter, canceller, rowVars, consVars, sourceVars>>

\* The producer thread starts and the caller holds a BatchStream.
Spawn(s) ==
  /\ prod[s] = "spawning"
  /\ Goto(s, "starting")
  /\ cons' = [cons EXCEPT ![s] = "open"]
  /\ UNCHANGED <<poolVars, tokenVars, rowVars, queue, seen, sourceVars>>

\* The OS refuses the thread: the closure is dropped with the lease in it, and
\* only then is the token unbound.
SpawnFails(s) ==
  /\ prod[s] = "spawning"
  /\ Pool!Discard(s)
  /\ Goto(s, "spawnFailed")
  /\ UNCHANGED <<tokenVars, rowVars, consVars, sourceVars>>

CloseDropped(s) ==
  /\ prod[s] \in {"attachFailed", "spawnFailed"}
  /\ Pool!Close(s)
  /\ flagged' = flagged \ {physical[s]}
  /\ UNCHANGED <<prod, tokenOf, cancelled, slot, inExecute, reinterrupter, canceller,
                 rowVars, consVars, sourceVars>>

\* A bug: the error path of the spawn forgets to unbind the token.
RefuseOpenStaysBound(s) ==
  /\ prod[s] \in {"attachFailed", "spawnFailed"}
  /\ pc[s] = "out"
  /\ Goto(s, "refused")
  /\ UNCHANGED <<poolVars, tokenVars, rowVars, consVars, sourceVars>>

RefuseOpen(s) ==
  /\ prod[s] \in {"attachFailed", "spawnFailed"}
  /\ pc[s] = "out"
  /\ slot' = IF prod[s] = "spawnFailed" THEN [slot EXCEPT ![tokenOf[s]] = 0] ELSE slot
  /\ Goto(s, "refused")
  /\ UNCHANGED <<poolVars, tokenOf, cancelled, inExecute, reinterrupter, canceller, flagged,
                 rowVars, consVars, sourceVars>>

-----------------------------------------------------------------------------
(***************************************************************************)
(* produce: up to the first chunk                                          *)
(***************************************************************************)

Start(s) ==
  /\ prod[s] = "starting"
  /\ IF isCancelled(s) THEN Return(s, "cancelled") ELSE Goto(s, "preparing") /\ UNCHANGED outcome
  /\ UNCHANGED <<poolVars, tokenVars, pending, resume, built, late, consVars, sourceVars>>

\* Preparing clears the connection's interrupt flag.
Prepare(s) ==
  /\ prod[s] = "preparing"
  /\ flagged' = flagged \ {physical[s]}
  /\ \/ Goto(s, "openWindow") /\ UNCHANGED outcome
     \/ Return(s, classify(s))
  /\ UNCHANGED <<poolVars, tokenOf, cancelled, slot, inExecute, reinterrupter, canceller,
                 pending, resume, built, late, consVars, sourceVars>>

\* execute_guarded, step 1.
OpenWindow(s) ==
  /\ prod[s] = "openWindow"
  /\ inExecute' = [inExecute EXCEPT ![tokenOf[s]] = TRUE]
  /\ Goto(s, "window")
  /\ UNCHANGED <<poolVars, tokenOf, cancelled, slot, reinterrupter, canceller, flagged,
                 rowVars, consVars, sourceVars>>

\* execute_guarded, step 2: the closure does not run under a cancelled token.
CheckWindow(s) ==
  /\ prod[s] = "window"
  /\ IF isCancelled(s)
       THEN /\ inExecute' = [inExecute EXCEPT ![tokenOf[s]] = FALSE]
            /\ Return(s, "cancelled")
       ELSE Goto(s, "calling") /\ UNCHANGED <<inExecute, outcome>>
  /\ UNCHANGED <<poolVars, tokenOf, cancelled, slot, reinterrupter, canceller, flagged,
                 pending, resume, built, late, consVars, sourceVars>>

\* The execution starts inside DuckDB and clears the flag: an interrupt raised
\* before this step is lost.
BeginExecute(s) ==
  /\ prod[s] = "calling"
  /\ flagged' = flagged \ {physical[s]}
  /\ Goto(s, "running")
  /\ UNCHANGED <<poolVars, tokenOf, cancelled, slot, inExecute, reinterrupter, canceller,
                 rowVars, consVars, sourceVars>>

\* execute_guarded, step 4: the window closes before the flag is read again.
CloseWindow(s, place) ==
  /\ prod[s] = "running"
  /\ inExecute' = [inExecute EXCEPT ![tokenOf[s]] = FALSE]
  /\ Goto(s, place)
  /\ UNCHANGED <<poolVars, tokenOf, cancelled, slot, reinterrupter, canceller, flagged,
                 rowVars, consVars, sourceVars>>

ExecuteReturns(s) == CloseWindow(s, "returnedOk") \/ CloseWindow(s, "returnedErr")

ExecuteInterrupted(s) == physical[s] \in flagged /\ CloseWindow(s, "returnedErr")

AfterExecute(s) ==
  /\ prod[s] \in {"returnedOk", "returnedErr"}
  /\ IF prod[s] = "returnedErr" \/ isCancelled(s)
       THEN Return(s, classify(s))
       ELSE Goto(s, "fetchCheck") /\ UNCHANGED outcome
  /\ UNCHANGED <<poolVars, tokenVars, pending, resume, built, late, consVars, sourceVars>>

-----------------------------------------------------------------------------
(***************************************************************************)
(* produce: the batch loop                                                 *)
(***************************************************************************)

FetchCheck(s) ==
  /\ prod[s] = "fetchCheck"
  /\ IF isCancelled(s) THEN Return(s, "cancelled") ELSE Goto(s, "fetching") /\ UNCHANGED outcome
  /\ UNCHANGED <<poolVars, tokenVars, pending, resume, built, late, consVars, sourceVars>>

\* arrow.next(): a chunk, the end, or a panic that is caught.  Fetching does not
\* clear the interrupt flag.
Fetched(s, place) ==
  /\ prod[s] = "fetching"
  /\ Goto(s, place)
  /\ UNCHANGED <<poolVars, tokenVars, rowVars, consVars, sourceVars>>

FetchReturns(s) == \E place \in {"rows", "draining", "fetchFailed"} : Fetched(s, place)

FetchInterrupted(s) == physical[s] \in flagged /\ Fetched(s, "fetchFailed")

FetchFailed(s) ==
  /\ prod[s] = "fetchFailed"
  /\ Return(s, classify(s))
  /\ UNCHANGED <<poolVars, tokenVars, pending, resume, built, late, consVars, sourceVars>>

\* The chunk has no identity or geometry column, or an attribute is not what the
\* envelope promises: an error, whether cancelled or not.
FetchRefused(s) ==
  /\ prod[s] = "fetching"
  /\ Return(s, "error")
  /\ UNCHANGED <<poolVars, tokenVars, pending, resume, built, late, consVars, sourceVars>>

\* A flush begins, after which produce goes on at a place.  The bound leaves the
\* last batch to the end of the result.
Cut(s, place) ==
  /\ built[s] + 1 < MaxBatches
  /\ Goto(s, "building")
  /\ resume' = [resume EXCEPT ![s] = place]

\* A bug: the cancel check is made once per chunk and not once per row.
RowWithoutCheck(s) ==
  /\ prod[s] = "rows"
  /\ \/ Return(s, "error") /\ UNCHANGED resume
     \/ Goto(s, "appending") /\ UNCHANGED <<outcome, resume>>
     \/ pending[s] /\ Cut(s, "appending") /\ UNCHANGED outcome
  /\ UNCHANGED <<poolVars, tokenVars, pending, built, late, consVars, sourceVars>>

\* The turn of a row: the one cancel check, its bytes, and the cut before the
\* append when it would take the pending batch past its target.
Row(s) ==
  /\ prod[s] = "rows"
  /\ IF isCancelled(s)
       THEN Return(s, "cancelled") /\ UNCHANGED resume
       ELSE \/ Return(s, "error") /\ UNCHANGED resume
            \/ Goto(s, "appending") /\ UNCHANGED <<outcome, resume>>
            \/ pending[s] /\ Cut(s, "appending") /\ UNCHANGED outcome
  /\ UNCHANGED <<poolVars, tokenVars, pending, built, late, consVars, sourceVars>>

\* Work is late when the token is already cancelled.
Counted(s, work) == late' = IF isCancelled(s) THEN [late EXCEPT ![s][work] = @ + 1] ELSE late

\* The rest of the turn: the row is appended, or fails to decode, and the batch
\* may be cut again (by size, rows or time).
AppendRow(s) ==
  /\ prod[s] = "appending"
  /\ \/ /\ pending' = [pending EXCEPT ![s] = TRUE]
        /\ Counted(s, "appended")
        /\ \/ Goto(s, "rows") /\ UNCHANGED resume
           \/ Cut(s, "rows")
        /\ UNCHANGED outcome
     \/ Return(s, "error") /\ UNCHANGED <<pending, resume, late>>
  /\ UNCHANGED <<poolVars, tokenVars, built, consVars, sourceVars>>

\* After the last row of a chunk the first batch may have spent its time.
ChunkDone(s) ==
  /\ prod[s] = "rows"
  /\ \/ Goto(s, "fetchCheck") /\ UNCHANGED resume
     \/ built[s] = 0 /\ pending[s] /\ Cut(s, "fetchCheck")
  /\ UNCHANGED <<poolVars, tokenVars, outcome, pending, built, late, consVars, sourceVars>>

\* The result is drained: what is pending is one more batch.
StreamEnd(s) ==
  /\ prod[s] = "draining"
  /\ IF pending[s]
       THEN Goto(s, "building") /\ resume' = [resume EXCEPT ![s] = "produced"] /\ UNCHANGED outcome
       ELSE Return(s, "ok") /\ UNCHANGED resume
  /\ UNCHANGED <<poolVars, tokenVars, pending, built, late, consVars, sourceVars>>

\* flush, up to the count: a batch over the byte ceiling or one that does not
\* assemble is an error and nothing is counted.
FlushBuild(s) ==
  /\ prod[s] = "building"
  /\ \/ /\ pending' = [pending EXCEPT ![s] = FALSE]
        /\ built' = [built EXCEPT ![s] = @ + 1]
        /\ Counted(s, "built")
        /\ Goto(s, "builtOne")
        /\ UNCHANGED outcome
     \/ Return(s, "error") /\ UNCHANGED <<pending, built, late>>
  /\ UNCHANGED <<poolVars, tokenVars, resume, consVars, sourceVars>>

\* A bug: the batch that was built is sent without looking at the token again.
FlushUnchecked(s) ==
  /\ prod[s] = "builtOne"
  /\ Goto(s, "sending")
  /\ UNCHANGED <<poolVars, tokenVars, rowVars, consVars, sourceVars>>

FlushCheck(s) ==
  /\ prod[s] = "builtOne"
  /\ IF isCancelled(s) THEN Return(s, "cancelled") ELSE Goto(s, "sending") /\ UNCHANGED outcome
  /\ UNCHANGED <<poolVars, tokenVars, pending, resume, built, late, consVars, sourceVars>>

ReceiverGone(s) == cons[s] = "dropped"

RoomInChannel(s) == Len(queue[s]) < MaxQueued

\* tx.send blocks while the channel is full and fails when the receiver is gone.
FlushSend(s) ==
  /\ prod[s] = "sending"
  /\ \/ /\ ReceiverGone(s)
        /\ Return(s, "cancelled")
        /\ UNCHANGED <<queue, late>>
     \/ /\ ~ReceiverGone(s)
        /\ RoomInChannel(s)
        /\ queue' = [queue EXCEPT ![s] = Append(@, "batch")]
        /\ Counted(s, "sent")
        /\ \/ resume[s] = "produced" /\ Return(s, "ok")
           \/ resume[s] \in Producing /\ Goto(s, resume[s]) /\ UNCHANGED outcome
  /\ UNCHANGED <<poolVars, tokenVars, pending, resume, built, cons, seen, sourceVars>>

-----------------------------------------------------------------------------
(***************************************************************************)
(* The end of the producer thread: detach, lease, post-check, terminal     *)
(***************************************************************************)

\* A bug: the token stays bound when the lease is decided.
DetachSkipped(s) ==
  /\ prod[s] = "produced"
  /\ Goto(s, "detached")
  /\ UNCHANGED <<poolVars, tokenVars, rowVars, consVars, sourceVars>>

Detach(s) ==
  /\ prod[s] = "produced"
  /\ slot' = [slot EXCEPT ![tokenOf[s]] = 0]
  /\ Goto(s, "detached")
  /\ UNCHANGED <<poolVars, tokenOf, cancelled, inExecute, reinterrupter, canceller, flagged,
                 rowVars, consVars, sourceVars>>

\* A completed query's lease is verified and returned, any other is dropped.
DecideLease(s) ==
  /\ prod[s] = "detached"
  /\ IF outcome[s] = "ok" THEN Pool!BeginRelease(s) ELSE Pool!Discard(s)
  /\ Goto(s, "resolving")
  /\ UNCHANGED <<tokenVars, rowVars, consVars, sourceVars>>

\* The verification (which prepares, and so clears the flag) answers or fails;
\* a connection that is not kept is closed before the thread goes on.
ResolveLease(s) ==
  /\ prod[s] \in {"resolving", "unwinding"}
  /\ Pool!ReturnHealthy(s) \/ (pc[s] = "verifying" /\ Pool!Discard(s)) \/ Pool!Close(s)
  /\ flagged' = flagged \ {physical[s]}
  /\ UNCHANGED <<prod, tokenOf, cancelled, slot, inExecute, reinterrupter, canceller,
                 rowVars, consVars, sourceVars>>

\* The verification panics: Drop discards the lease and the rest of the closure
\* is not run.
VerifyUnwinds(s) ==
  /\ VerifyMayUnwind
  /\ prod[s] = "resolving" /\ pc[s] = "verifying"
  /\ Pool!Discard(s)
  /\ Goto(s, "unwinding")
  /\ UNCHANGED <<tokenVars, rowVars, consVars, sourceVars>>

\* A bug: the thread goes on while its lease is still being given back.
LeaseResolvedAnyway(s) == TRUE

LeaseResolved(s) == pc[s] = "out"

\* A bug: only a completed stream is checked again.
PostCheckOnlyOk(s) ==
  /\ prod[s] = "resolving"
  /\ LeaseResolved(s)
  /\ recorded' = [recorded EXCEPT ![s] = changed /\ outcome[s] = "ok"]
  /\ Goto(s, "checked")
  /\ UNCHANGED <<poolVars, tokenVars, rowVars, consVars, changed, changedRead>>

\* The flag is written before any terminal leaves the thread.
PostCheck(s) ==
  /\ prod[s] = "resolving"
  /\ LeaseResolved(s)
  /\ recorded' = [recorded EXCEPT ![s] = changed]
  /\ Goto(s, "checked")
  /\ UNCHANGED <<poolVars, tokenVars, rowVars, consVars, changed, changedRead>>

\* ok only if the post-check found no change; a failure stays what it was.
TerminalOf(s) == IF outcome[s] = "ok" /\ recorded[s] THEN "source_changed" ELSE outcome[s]

\* The terminal: the drop of tx, or an error item, which waits for room.
SendTerminal(s) ==
  /\ prod[s] = "checked"
  /\ \/ (TerminalOf(s) = "ok" \/ ReceiverGone(s)) /\ UNCHANGED queue
     \/ /\ TerminalOf(s) # "ok" /\ ~ReceiverGone(s)
        /\ RoomInChannel(s)
        /\ queue' = [queue EXCEPT ![s] = Append(@, TerminalOf(s))]
  /\ Goto(s, "finished")
  /\ UNCHANGED <<poolVars, tokenVars, rowVars, cons, seen, sourceVars>>

\* The unwinding thread drops tx with nothing sent.
Unwound(s) ==
  /\ prod[s] = "unwinding"
  /\ pc[s] = "out"
  /\ Goto(s, "finished")
  /\ UNCHANGED <<poolVars, tokenVars, rowVars, consVars, sourceVars>>

-----------------------------------------------------------------------------
(***************************************************************************)
(* The consumer                                                            *)
(***************************************************************************)

Finish(s, terminal) == cons' = [cons EXCEPT ![s] = "over"] /\ seen' = [seen EXCEPT ![s] = terminal]

\* next_into: a batch (which may fail to serialise), an error, or the end.
Receive(s) ==
  /\ cons[s] = "open"
  /\ queue[s] # <<>>
  /\ queue' = [queue EXCEPT ![s] = Tail(@)]
  /\ IF Head(queue[s]) = "batch"
       THEN UNCHANGED <<cons, seen>> \/ Finish(s, "ipc")
       ELSE Finish(s, Head(queue[s]))
  /\ UNCHANGED <<poolVars, tokenVars, prod, rowVars, sourceVars>>

ReceiveEnd(s) ==
  /\ cons[s] = "open"
  /\ queue[s] = <<>> /\ prod[s] = "finished"
  /\ Finish(s, "ok")
  /\ UNCHANGED <<poolVars, tokenVars, prod, rowVars, queue, sourceVars>>

-----------------------------------------------------------------------------
(***************************************************************************)
(* cancel and the drop of a BatchStream, which cancels                     *)
(***************************************************************************)

\* cancel_inner: the swap.  Anyone holding the token may cancel at any time; a
\* drop is the consumer's.
CancelSwap(s, k) ==
  /\ canceller[s][k] = "idle"
  /\ k = "drop" => cons[s] \in {"open", "over"}
  /\ cancelled' = [cancelled EXCEPT ![tokenOf[s]] = TRUE]
  /\ canceller' = [canceller EXCEPT ![s][k] = IF isCancelled(s) THEN "again" ELSE "first"]
  /\ cons' = IF k = "drop" THEN [cons EXCEPT ![s] = "dropping"] ELSE cons
  /\ UNCHANGED <<poolVars, tokenOf, slot, inExecute, reinterrupter, flagged, prod, rowVars,
                 queue, seen, sourceVars>>

\* A bug: the drop of a stream trusts the producer to see the flag and does not
\* interrupt its query.
CancelInterruptNotOnDrop(s, k) ==
  /\ canceller[s][k] \in {"first", "again"}
  /\ flagged' = IF k = "drop" THEN flagged ELSE flagged \cup ({slot[tokenOf[s]]} \ {0})
  /\ canceller' = [canceller EXCEPT ![s][k] = IF @ = "first" THEN "firstPoked" ELSE "againPoked"]
  /\ UNCHANGED <<poolVars, tokenOf, cancelled, slot, inExecute, reinterrupter, prod, rowVars,
                 consVars, sourceVars>>

\* cancel_inner: the interrupt, under the slot's mutex.
CancelInterrupt(s, k) ==
  /\ canceller[s][k] \in {"first", "again"}
  /\ flagged' = flagged \cup ({slot[tokenOf[s]]} \ {0})
  /\ canceller' = [canceller EXCEPT ![s][k] = IF @ = "first" THEN "firstPoked" ELSE "againPoked"]
  /\ UNCHANGED <<poolVars, tokenOf, cancelled, slot, inExecute, reinterrupter, prod, rowVars,
                 consVars, sourceVars>>

\* A bug: no re-interrupter, the one interrupt is trusted to arrive.
StartsReinterrupterNever(s, k) == FALSE

StartsReinterrupter(s, k) == canceller[s][k] = "firstPoked" /\ inExecute[tokenOf[s]]

\* cancel_inner: the re-interrupter is spawned by the first cancel, when a
\* closure is running.  After a drop's cancel the receiver goes.
CancelSpawn(s, k) ==
  LET t == tokenOf[s] IN
  /\ canceller[s][k] \in {"firstPoked", "againPoked"}
  /\ \/ /\ StartsReinterrupter(s, k)
        /\ reinterrupter' = [reinterrupter EXCEPT ![t] = "alive"]
     \/ /\ ~StartsReinterrupter(s, k) \/ SpawnMayFail
        /\ UNCHANGED reinterrupter
  /\ canceller' = [canceller EXCEPT ![s][k] = "done"]
  /\ IF k = "drop"
       THEN cons' = [cons EXCEPT ![s] = "dropped"] /\ queue' = [queue EXCEPT ![s] = <<>>]
       ELSE UNCHANGED <<cons, queue>>
  /\ UNCHANGED <<poolVars, tokenOf, cancelled, slot, inExecute, flagged, prod, rowVars, seen, sourceVars>>

\* One turn of the re-interrupter.  The mutex keeps the binding from the read of
\* both conditions to the interrupt, so they are one step; a window that closes
\* in between is that of a stream already cancelled.
Reinterrupt(t) ==
  /\ reinterrupter[t] = "alive"
  /\ IF inExecute[t] /\ slot[t] # 0
       THEN flagged' = flagged \cup {slot[t]} /\ UNCHANGED reinterrupter
       ELSE reinterrupter' = [reinterrupter EXCEPT ![t] = "stopped"] /\ UNCHANGED flagged
  /\ UNCHANGED <<poolVars, tokenOf, cancelled, slot, inExecute, canceller, prod, rowVars,
                 consVars, sourceVars>>

\* The file is replaced on disk.
ChangeSource ==
  /\ SourceMayChange /\ ~changed
  /\ changed' = TRUE
  /\ changedRead' = [s \in Stream |-> prod[s] \in Producing]
  /\ UNCHANGED <<poolVars, tokenVars, prod, rowVars, consVars, recorded>>

-----------------------------------------------------------------------------
OpenNext(s) == \/ checkSourceUnchanged(s) \/ Acquire(s) \/ Configure(s) \/ Attach(s)
               \/ Spawn(s) \/ SpawnFails(s) \/ CloseDropped(s) \/ RefuseOpen(s)

\* The steps the producer thread takes by itself.
ProducerStep(s) == \/ Start(s) \/ Prepare(s) \/ OpenWindow(s) \/ CheckWindow(s)
                   \/ BeginExecute(s) \/ ExecuteInterrupted(s) \/ AfterExecute(s)
                   \/ FetchCheck(s) \/ FetchInterrupted(s) \/ FetchFailed(s)
                   \/ Row(s) \/ AppendRow(s) \/ StreamEnd(s) \/ FlushBuild(s) \/ FlushCheck(s) \/ FlushSend(s)
                   \/ Detach(s) \/ DecideLease(s) \/ ResolveLease(s) \/ VerifyUnwinds(s)
                   \/ PostCheck(s) \/ SendTerminal(s) \/ Unwound(s)

\* The steps that depend on when DuckDB answers and on how many rows it has.
QueryStep(s) == ExecuteReturns(s) \/ FetchReturns(s) \/ FetchRefused(s) \/ ChunkDone(s)

ConsumerStep(s) == Receive(s) \/ ReceiveEnd(s)

CancelStep(s, k) == CancelInterrupt(s, k) \/ CancelSpawn(s, k)

Next == \/ \E s \in Stream : \/ OpenNext(s) \/ ProducerStep(s) \/ QueryStep(s) \/ ConsumerStep(s)
                             \/ \E k \in Cancel : CancelSwap(s, k) \/ CancelStep(s, k)
        \/ \E t \in Token : Reinterrupt(t)
        \/ ChangeSource

Spec == Init /\ [][Next]_vars

\* Threads are scheduled: a started open, producer, cancel and re-interrupter
\* keep taking steps.  Nothing makes DuckDB answer by itself, and nothing makes
\* the consumer read or drop its stream.
Fairness == /\ \A s \in Stream : /\ WF_vars(OpenNext(s))
                                 /\ WF_vars(ProducerStep(s))
                                 /\ \A k \in Cancel : WF_vars(CancelStep(s, k))
            /\ \A t \in Token : WF_vars(Reinterrupt(t))

FairSpec == Spec /\ Fairness

-----------------------------------------------------------------------------
(***************************************************************************)
(* Properties                                                              *)
(***************************************************************************)

\* Every variable of the stream, the token and the channel has its type.
TypeOK == /\ Pool!TypeOK
          /\ tokenOf \in TokenMaps
          /\ cancelled \in [Token -> BOOLEAN]
          /\ slot \in [Token -> Pool!PhysicalId \cup {0}]
          /\ inExecute \in [Token -> BOOLEAN]
          /\ reinterrupter \in [Token -> {"none", "alive", "stopped"}]
          /\ canceller \in [Stream -> [Cancel -> CancelState]]
          /\ flagged \subseteq Pool!PhysicalId
          /\ prod \in [Stream -> ProdState]
          /\ outcome \in [Stream -> {"none", "ok", "cancelled", "error"}]
          /\ pending \in [Stream -> BOOLEAN]
          /\ resume \in [Stream -> Resumption]
          /\ built \in [Stream -> 0 .. MaxBatches]
          /\ late \in [Stream -> [Work -> Nat]]
          /\ \A s \in Stream : /\ Len(queue[s]) <= MaxQueued
                               /\ \A i \in 1 .. Len(queue[s]) : queue[s][i] \in Terminal \cup {"batch"}
          /\ cons \in [Stream -> {"none", "open", "over", "dropping", "dropped"}]
          /\ seen \in [Stream -> Terminal \cup {"none", "ok", "ipc"}]
          /\ changed \in BOOLEAN
          /\ changedRead \in [Stream -> BOOLEAN]
          /\ recorded \in [Stream -> BOOLEAN]

\* An interrupt stays at home: the connection a token would interrupt is never
\* an idle one and never one leased to a stream of another token, however late
\* the cancel or the re-interrupter's turn comes (detach before the lease is
\* decided, stream.rs:1283-1287).
InterruptStaysHome ==
  \A t \in Token : slot[t] # 0 =>
    /\ \A i \in 1 .. Len(idle) : idle[i] # slot[t]
    /\ \A s \in Stream : (physical[s] = slot[t] /\ pc[s] \in Pool!SlotState)
                           => (tokenOf[s] = t /\ pc[s] = "leased")

\* A query never runs with an interrupt of somebody else's on its connection: the
\* flag on a leased connection means that stream's own token is cancelled, and no
\* interrupt still to come is aimed anywhere but home.
InterruptIsOwn ==
  /\ InterruptStaysHome
  /\ \A s \in Stream : (pc[s] = "leased" /\ prod[s] \in Producing /\ physical[s] \in flagged)
                         => isCancelled(s)

\* A consumer that has seen the stream end has seen the lease returned: every
\* terminal leaves the producer after its lease is resolved (pool.rs:66-68).
EndMeansLeaseResolved ==
  \A s \in Stream : seen[s] \in Terminal \cup {"ok"} => pc[s] = "out"

\* A source that changed while the stream was reading never ends clean, and
\* whoever holds any terminal of that stream finds the change recorded.
ChangeIsNeverMissed ==
  \A s \in Stream : (changedRead[s] /\ seen[s] \in Terminal \cup {"ok"})
                      => (recorded[s] /\ seen[s] # "ok")

\* "cancelled" is reported only for a token somebody cancelled, and a source
\* change is never reported in place of a cancel or of an error.
TerminalIsHonest ==
  \A s \in Stream : /\ seen[s] = "cancelled" => isCancelled(s)
                    /\ seen[s] = "source_changed" => outcome[s] = "ok"

\* The end a consumer is told of is the one that happened: no change of the source
\* is missed, and none is put in the place of a cancel or of an error.
EndIsTrue == ChangeIsNeverMissed /\ TerminalIsHonest

\* After a cancel, wherever between two checks it lands, the producer appends at
\* most one row more, sends at most one batch, which was built before, and builds
\* at most one, which is never sent: the two cuts of a row's turn have one check of
\* the row loop before them, and each its own in flush (stream.rs:1981, 2546).
BoundedWorkAfterCancel ==
  \A s \in Stream : /\ \A w \in Work : late[s][w] <= 1
                    /\ prod[s] = "sending" => late[s]["built"] = 0

\* A token is bound only while a stream of it runs: a failed open or a finished
\* producer leaves it usable.
BindingEndsWithTheStream ==
  \A t \in Token : slot[t] # 0 =>
    \E s \in Stream : tokenOf[s] = t /\ prod[s] \notin {"unopened", "refused", "finished"}

\* Cancellation reaches the query: a producer under a cancelled token leaves
\* produce, whatever DuckDB was doing, unless it waits for room in the channel.
CancelReachesTheQuery ==
  \A s \in Stream :
    (isCancelled(s) /\ prod[s] \in Producing)
      ~> (prod[s] \notin Producing \/ (prod[s] = "sending" /\ Len(queue[s]) = MaxQueued))

\* Letting go of a stream gives its connection slot back and ends its producer.
DropFreesTheLease ==
  \A s \in Stream : cons[s] = "dropping" ~> (prod[s] = "finished" /\ pc[s] = "out")
=============================================================================
