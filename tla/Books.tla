--------------------------------- MODULE Books ---------------------------------
(***************************************************************************)
(* The parts that keep their own books beside the system, in one state:    *)
(* the engine's traces, the pool indicator's polls, the viewport's tickets *)
(* and the session history.  They share nothing, so a behaviour is about   *)
(* one of them, its subject, and the others stay as they began.            *)
(***************************************************************************)
EXTENDS Naturals

CONSTANTS Markers, Tracers, Names, Spans, BufferRecords, MaxClock, MaxMarks, Free,       \* Trace
          Datasets, Polls, NoPoll,                                                       \* PoolPoll
          Request, Stopper, NoStream,                                                    \* ViewportStreams
          Call, Key, StepLens, HeaderLen, MaxStepLine, MaxHistoryBytes, MaxRuns, MaxFaults \* SessionHistory

\* Threads, tasks, requests, handles and the absence of one have different names, and there is
\* an event to stamp; sizes are numbers, and a header fits in a history.
ASSUME TraceAssumption ==
    /\ Free \notin Tracers \cup Markers
    /\ Tracers \cap Markers = {}
    /\ Names # {}
    /\ BufferRecords \in Nat
ASSUME PollAssumption == NoPoll \notin Polls
ASSUME ViewportAssumption == NoStream \notin Request /\ Stopper \notin Request
ASSUME HistoryAssumption ==
    /\ "none" \notin Call \cup Key
    /\ "free" \notin Call
    /\ StepLens \subseteq Nat
    /\ HeaderLen \in Nat /\ MaxStepLine \in Nat /\ MaxHistoryBytes \in Nat
    /\ HeaderLen + 1 <= MaxHistoryBytes

VARIABLES subject,
          enabled, current, lock, clock, trace, delivered, mark,
          tasks, poll, catalog,
          vpc, gen, generation, active, resident, live, stream, sent, canvas, ended, stopped,
          open, pc, key, mutex, records, files, acked, phase, run, cleared, faults

traceVars == <<enabled, current, lock, clock, trace, delivered, mark>>
pollVars == <<tasks, poll, catalog>>
viewVars == <<vpc, gen, generation, active, resident, live, stream, sent, canvas, ended, stopped>>
historyVars == <<open, pc, key, mutex, records, files, acked, phase, run, cleared, faults>>
bookVars == <<subject, traceVars, pollVars, viewVars, historyVars>>

T == INSTANCE Trace
W == INSTANCE PoolPoll
N == INSTANCE ViewportStreams WITH pc <- vpc, current <- active
H == INSTANCE SessionHistory WITH lock <- mutex

BooksInit == T!Init /\ W!Init /\ N!Init /\ H!Init

BooksNext ==
    /\ UNCHANGED subject
    /\ \/ subject = "trace" /\ T!Next /\ UNCHANGED <<pollVars, viewVars, historyVars>>
       \/ subject = "poll" /\ W!Next /\ UNCHANGED <<traceVars, viewVars, historyVars>>
       \/ subject = "viewport" /\ N!Next /\ UNCHANGED <<traceVars, pollVars, historyVars>>
       \/ subject = "history" /\ H!Next /\ UNCHANGED <<traceVars, pollVars, viewVars>>

BooksSpec == BooksInit /\ [][BooksNext]_bookVars

-----------------------------------------------------------------------------
\* A trace holds the first stamps it was given in the order of time, counts the others, and
\* derives no span that they would contradict (trace.rs; Trace).
TracesAreTrue == subject = "trace" => T!TraceIsTrue

\* A trace whose guard is gone does not change any more (trace.rs; Trace).
FinishedTracesAreFinal == T!FinishedIsFinal

\* No poll of the pool indicator is orphaned, and no entry outlives its poll's supervisor
\* (pool_poll.rs; PoolPoll); no ticket of the viewport is forgotten, and none is out of date
\* (viewportStreamManager.ts; ViewportStreams!TicketsAreAccountedFor).
ShellKeepsItsBooks ==
    /\ subject = "poll" => W!PollMapIsExact
    /\ subject = "viewport" => N!TicketsAreAccountedFor

\* A history is recovered as it was recorded (session_history.rs; SessionHistory).
RecoveredIsRecorded == subject = "history" => H!RecoveredIsRecorded

\* A history only grows, and only its own run removes it (session_history.rs; SessionHistory).
HistoriesOnlyGrow == H!HistoriesOnlyGrow
=============================================================================
